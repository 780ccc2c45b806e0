----------------------------- MODULE MatchRule ------------------------------
(***************************************************************************)
(* match_rule/MatchRule*.cpp: the rules the web server defines for         *)
(* matching.  Each market keeps its rules in a map of shared pointers      *)
(* under one mutex and every rule also in a table.  A new rule is built    *)
(* aside; a known one is changed in place, part by part, while orders      *)
(* already hold a pointer to it and read its parts without the mutex.      *)
(*                                                                         *)
(* A version of a rule is its number (the timestamp), the conditions an    *)
(* order must meet, and the parts for the confirm and for the match.  Its  *)
(* document may lack a part, or be malformed.                              *)
(***************************************************************************)
EXTENDS Faults, Ascending, Sequences, SequencesExt

CONSTANTS ShRules, SzRules,  \* ids, disjoint sets of numbers
          Conds,             \* version |-> the conditions it has: numbers, in
                             \* the order of the names of the fields they test
          Fields,            \* those of the fields that an order has
          Lacks,             \* rule |-> version |-> the parts its document lacks
          NoRule

\* A rule in the map or in its row; a part that is not there has number 0.
Rule == [ts : Nat, conds : SUBSET UNION Range(Conds),
         confirm : {"confirm"} \X Nat, match : {"confirm", "match"} \X Nat]

ASSUME RulesAssumption ==
    /\ ShRules \cup SzRules \subseteq Nat \ {0} /\ ShRules \cap SzRules = {}
    /\ IsFiniteSet(ShRules \cup SzRules) /\ NoRule \notin Rule
    /\ Conds \in Seq(SUBSET Nat)
    /\ Lacks \in [ShRules \cup SzRules -> [DOMAIN Conds -> SUBSET {"confirm", "match"}]]

VARIABLES mem,   \* rule |-> what the map holds, or NoRule
          rows,  \* rule |-> the row of the table, or NoRule
          ins    \* the insertion under way: [todo, stage]

ruleVars == <<mem, rows, ins>>

Rules == ShRules \cup SzRules
Idle == [todo |-> <<>>, stage |-> "next"]

\* What the web server sends for version n of a rule.
PartOf(p, r, n) == <<p, IF p \in Lacks[r][n] THEN 0 ELSE n>>
Doc(r, n) == [ts |-> n, conds |-> Conds[n],
              confirm |-> PartOf("confirm", r, n), match |-> PartOf("match", r, n)]
Missing(part) == part[2] = 0

\* earlier: the gateway ran before and stored a first version of each rule.
RulesInit(earlier) ==
    /\ mem = [r \in Rules |-> NoRule] /\ ins = Idle
    /\ rows = [r \in Rules |-> IF earlier THEN Doc(r, 1) ELSE NoRule]

-----------------------------------------------------------------------------
(* InsertRule: the mutex of the rule's market is held from the look up to  *)
(* the end of the database write.                                          *)

Locked(market) == ins.stage # "next" /\ ins.todo[1].rule \in market

\* Mutant of SetRegex: the timestamp of what is not known yet.
SetRegex_Ahead(rule, doc) == [rule EXCEPT !.conds = @ \cup doc.conds, !.ts = doc.ts + 1]

\* Conditions of earlier versions stay in mapRegexs.
SetRegex(rule, doc) == [rule EXCEPT !.conds = @ \cup doc.conds, !.ts = doc.ts]
SetRuleConfirm(rule, doc) == [rule EXCEPT !.confirm = doc.confirm]
\* Mutant of SetRuleMatch: as for a new Shenzhen rule.
SetRuleMatch_Confirm(rule, doc) == [rule EXCEPT !.match = doc.confirm]
SetRuleMatch(rule, doc) == [rule EXCEPT !.match = doc.match]

\* A Shenzhen rule seen for the first time gets its confirm part twice.
NewRule_Sh(doc) == doc
NewRule_Sz(doc) == [doc EXCEPT !.match = IF Missing(@) THEN @ ELSE doc.confirm]

Changing == ins.todo[1].rule
Given == Doc(Changing, ins.todo[1].ver)

InsertNew ==
    /\ ins.todo # <<>> /\ ins.stage = "next" /\ mem[Changing] = NoRule
    /\ mem' = [mem EXCEPT ![Changing] = IF Changing \in ShRules THEN NewRule_Sh(Given)
                                                                ELSE NewRule_Sz(Given)]
    /\ ins' = [ins EXCEPT !.stage = "db"]
    /\ UNCHANGED rows

ChangeRegex ==
    /\ ins.todo # <<>> /\ ins.stage = "next" /\ mem[Changing] # NoRule
    /\ mem' = [mem EXCEPT ![Changing] = SetRegex(@, Given)]
    /\ ins' = [ins EXCEPT !.stage = "confirm"]
    /\ UNCHANGED rows

\* A part the document lacks is logged: the old one stays, under the new
\* timestamp, and the insertion goes on.
ChangeConfirm ==
    /\ ins.stage = "confirm"
    /\ mem' = IF Missing(Given.confirm) THEN mem
              ELSE [mem EXCEPT ![Changing] = SetRuleConfirm(@, Given)]
    /\ ins' = [ins EXCEPT !.stage = "match"]
    /\ UNCHANGED rows

ChangeMatch ==
    /\ ins.stage = "match"
    /\ mem' = IF Missing(Given.match) THEN mem
              ELSE [mem EXCEPT ![Changing] = SetRuleMatch(@, Given)]
    /\ ins' = [ins EXCEPT !.stage = "db"]
    /\ UNCHANGED rows

\* Mutant of Row_Sh: the version is not among the columns that are updated.
Row_Sh_NoTime(doc) == [doc EXCEPT !.ts = 1]

\* The row is what was sent, not what the map holds: a part that is not
\* there is NULL.
Row_Sh(doc) == doc
Row_Sz(doc) == doc

\* On failure the rest of the message is dropped; the map keeps the change.
UpdateSingleRuleToDb(up) ==
    /\ ins.stage = "db"
    /\ \/ /\ up /\ Works
          /\ rows' = [rows EXCEPT ![Changing] = IF Changing \in ShRules THEN Row_Sh(Given)
                                                                ELSE Row_Sz(Given)]
          /\ ins' = [todo |-> Tail(ins.todo), stage |-> "next"]
       \/ /\ IF up THEN Fails("rule") ELSE Works
          /\ ins' = Idle /\ UNCHANGED rows
    /\ UNCHANGED mem

\* A document without an id, a timestamp or proper conditions ends the
\* message.  That the name of a field is no number is only found while a
\* known Shenzhen rule gets its conditions.
InsertMalformed ==
    /\ ins.todo # <<>> /\ ins.stage = "next" /\ Fails("document")
    /\ \/ UNCHANGED mem
       \/ /\ Changing \in SzRules /\ mem[Changing] # NoRule
          /\ \E c \in SUBSET Given.conds : mem' = [mem EXCEPT ![Changing].conds = @ \cup c]
    /\ ins' = Idle
    /\ UNCHANGED rows

InsertRule(up) == ((InsertNew \/ ChangeRegex \/ ChangeConfirm \/ ChangeMatch) /\ Works)
                  \/ InsertMalformed \/ UpdateSingleRuleToDb(up)

\* ReloadFromDb of both markets: the map is emptied first, and rebuilt as if
\* each row had been sent for the first time.
FromRow(r) == IF rows[r] = NoRule THEN NoRule
              ELSE IF r \in ShRules THEN NewRule_Sh(rows[r]) ELSE NewRule_Sz(rows[r])
Emptied == [r \in Rules |-> NoRule]
ReloadFromDb_Sh == [r \in Rules |-> IF r \in ShRules THEN FromRow(r) ELSE NoRule]
ReloadFromDb == [r \in Rules |-> FromRow(r)]

-----------------------------------------------------------------------------
(* Finding a rule for an order and comparing with the web server's.        *)

\* The conditions are looked at up to the first whose field the order lacks;
\* none looked at is no hit.
Hit(rule, meets) ==
    LET looked == {c \in rule.conds : \A d \in rule.conds \ Fields : c < d}
    IN  looked # {} /\ looked \subseteq meets

\* links: the rules of the connection; none given means every rule counts.
Candidates(market, links, meets) ==
    {r \in market : /\ mem[r] # NoRule
                    /\ links = {} \/ r \in links
                    /\ Hit(mem[r], meets)}

\* GetRule: the least id, 0 when there is none.
GetRule(market, links, meets) ==
    LET c == Candidates(market, links, meets)
    IN  IF c = {} THEN 0 ELSE CHOOSE r \in c : \A s \in c : r <= s

\* CompareConnRuleRelation_ToLocalRule: the timestamps of all connections in
\* the order of their names, an earlier one's counts.
HaveRules(keys, times) ==
    LET Has(r) == {i \in DOMAIN keys : times[keys[i]][r] # 0}
        First(r) == keys[CHOOSE i \in Has(r) : \A j \in Has(r) : i <= j]
    IN  [r \in Rules |-> IF Has(r) = {} THEN 0 ELSE times[First(r)][r]]

\* CompareRuleTime_ToLocalRule: the rules to ask for.
CompareRuleTime(market, times) ==
    {r \in market : times[r] # 0 /\ (mem[r] = NoRule \/ mem[r].ts # times[r])}
=============================================================================
