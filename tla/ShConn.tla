------------------------------- MODULE ShConn -------------------------------
(***************************************************************************)
(* The Shanghai interface: a database outside the gateway with a table of  *)
(* orders (ordwth), one of confirms (ordwth2) and one of trades (cjhb).    *)
(* One loop worker reads the orders with status R and sets them to P       *)
(* (mkt_interface/, Proc_ShConn_Db_Declare), another one writes what the   *)
(* flows report (msg_biz/ReportMsg_Sh, Proc_ShConn_Db_Report).  Confirms   *)
(* and trades are numbered by two counters of the connection that start at *)
(* 0, are set from the tables when they are 0, and which both workers use. *)
(*                                                                         *)
(* Of the flows in between, modelled by OrderFlow, only what they report   *)
(* is here: an order is confirmed and then matched, a cancel succeeds or   *)
(* is refused.                                                             *)
(***************************************************************************)
EXTENDS MatchRule, TradePolicyManage

CONSTANTS MaxShOrders, RowKinds, Meets, Keys, ShKey
    \* RowKinds \subseteq {"new", "wth", "bad"}; Meets: what an order may
    \* meet; Keys: the connections' names in order, ShKey the Shanghai one's
ASSUME ShConnAssumption ==
    /\ MaxShOrders \in Nat /\ RowKinds \subseteq {"new", "wth", "bad"}
    /\ Keys \in Seq(Range(Keys)) /\ ShKey \in Range(Keys)

VARIABLES ordwth,   \* Seq of [status, kind, meets, reads], rec_num the index
          ordwth2,  \* Seq of [num, rec, status, part]
          cjhb,     \* likewise
          cnt,      \* the counters [rec, cjbh]
          dec,      \* the worker that reads orders
          inb,      \* g_inMsg_buffer and the flows behind it
          outb,     \* g_outMsg_buffer
          sqls,     \* statements the reporting worker has ready
          times     \* connection |-> rule |-> timestamp of its mapLinkRules, 0 if not in it

tabVars == <<ordwth, ordwth2, cjhb>>
bufVars == <<inb, outb, sqls>>
shVars == <<tabVars, cnt, dec, bufVars>>

Waits == [pc |-> "begin", got |-> 0, todo |-> <<>>, links |-> {}, pol |-> NoPolicy,
          known |-> FALSE, acked |-> 0, vec |-> <<>>, recs |-> <<>>]
NoTimes == [k \in Range(Keys) |-> [r \in Rules |-> 0]]

\* The tables are empty, or a row of an earlier day is in them.
Old == [num |-> 7, rec |-> 0, status |-> "", part |-> <<"old", 0>>]
ShInit(earlier) ==
    /\ ordwth = <<>> /\ ordwth2 = (IF earlier THEN <<Old>> ELSE <<>>) /\ cjhb = ordwth2
    /\ cnt = [rec |-> 0, cjbh |-> 0] /\ dec = Waits
    /\ inb = <<>> /\ outb = <<>> /\ sqls = <<>> /\ times = NoTimes

\* What the end of the process loses.
ShLost ==
    /\ cnt' = [rec |-> 0, cjbh |-> 0] /\ dec' = Waits
    /\ inb' = <<>> /\ outb' = <<>> /\ sqls' = <<>> /\ times' = NoTimes

\* A member of the exchange writes an order, or a cancel of an earlier one.
Ordwth ==
    /\ Len(ordwth) < MaxShOrders
    /\ \E k \in RowKinds \ (IF ordwth = <<>> THEN {"wth"} ELSE {}), m \in Meets :
         ordwth' = Append(ordwth, [status |-> "R", kind |-> k, reads |-> 0,
                                   meets |-> IF k = "new" THEN m ELSE {}])
    /\ UNCHANGED <<ordwth2, cjhb, cnt, dec, bufVars, faults>> /\ Happens

-----------------------------------------------------------------------------
(* GetOneConnSHOrder                                                       *)

\* The greatest number in the table, 0 when it is empty.
LastNumber(table) == IF table = <<>> THEN 0
                  ELSE CHOOSE n \in {table[i].num : i \in DOMAIN table} :
                         \A i \in DOMAIN table : table[i].num <= n

\* A failed connection or query ends the round.
D_Fails == Fails("sh") /\ dec' = Waits /\ UNCHANGED <<tabVars, cnt, bufVars>>

\* Rounds before the first order would find the same numbers.
GetSHCjbh ==
    /\ dec.pc = "begin" /\ ordwth # <<>>
    /\ \/ /\ Works /\ UNCHANGED <<tabVars, cnt, bufVars>>
          /\ dec' = [dec EXCEPT !.pc = IF cnt.cjbh = 0 THEN "cjbh"
                                      ELSE IF cnt.rec = 0 THEN "rec" ELSE "select",
                                !.got = IF cnt.cjbh = 0 THEN LastNumber(cjhb) ELSE 0]
       \/ cnt.cjbh = 0 /\ D_Fails

SetCjbh ==
    /\ dec.pc = "cjbh" /\ Works
    /\ cnt' = [cnt EXCEPT !.cjbh = dec.got]
    /\ dec' = [dec EXCEPT !.pc = "rec", !.got = 0]
    /\ UNCHANGED <<tabVars, bufVars>>

GetSHRec_Num ==
    /\ dec.pc = "rec"
    /\ \/ /\ Works /\ UNCHANGED <<tabVars, cnt, bufVars>>
          /\ dec' = [dec EXCEPT !.pc = IF cnt.rec = 0 THEN "setrec" ELSE "select",
                                !.got = IF cnt.rec = 0 THEN LastNumber(ordwth2) ELSE 0]
       \/ cnt.rec = 0 /\ D_Fails

SetRecNum ==
    /\ dec.pc = "setrec" /\ Works
    /\ cnt' = [cnt EXCEPT !.rec = dec.got]
    /\ dec' = [dec EXCEPT !.pc = "select", !.got = 0]
    /\ UNCHANGED <<tabVars, bufVars>>

\* The rows with status R, at most 10000, and the connection's rules: one
\* look at both for all orders of the round.
Unread == Ascending({i \in DOMAIN ordwth : ordwth[i].status = "R"})

SelectOrders(acked) ==
    /\ dec.pc = "select"
    /\ \/ /\ Works /\ UNCHANGED <<tabVars, cnt, bufVars>>
          /\ dec' = IF Unread = <<>> THEN Waits
                    ELSE [dec EXCEPT !.pc = "policy", !.todo = Unread, !.recs = Unread, !.acked = acked,
                                     !.links = {r \in ShRules : times[ShKey][r] # 0}]
       \/ D_Fails

\* Mutant of PolicySh: the strategy is read outside of its mutex.
PolicySh_Unlocked ==
    /\ dec.pc = "policy" /\ Works
    /\ dec' = [dec EXCEPT !.pc = "policy2", !.pol = Get_Sh, !.known = polSh # NoPolicy]
    /\ UNCHANGED <<tabVars, cnt, bufVars>>

\* A strategy is read under its mutex; the global settings one by one.
PolicySh ==
    /\ dec.pc = "policy" /\ Works
    /\ dec' = [dec EXCEPT !.pc = IF polSh = NoPolicy THEN "policy2" ELSE "order",
                          !.pol = Get_Sh, !.known = polSh # NoPolicy]
    /\ UNCHANGED <<tabVars, cnt, bufVars>>

PolicySh_Rest ==
    /\ dec.pc = "policy2" /\ Works
    /\ dec' = [dec EXCEPT !.pc = "order",
                          !.pol.check = IF dec.known THEN polSh.check ELSE glob.check]
    /\ UNCHANGED <<tabVars, cnt, bufVars>>

-----------------------------------------------------------------------------
(* SHOrderToFix, a row at a time.                                          *)

Reading == dec.todo[1]
RuleOf(rec, web) == IF web THEN GetRule(ShRules, dec.links, ordwth[rec].meets) ELSE 0
Message(rec, web) == [rec |-> rec, kind |-> ordwth[rec].kind, rule |-> RuleOf(rec, web)]

\* Mutant of FirstRecNum: only the table counts.
FirstRecNum_Table(rec) == cnt

\* Without any confirm in the table the numbers start behind the order's.
FirstRecNum(rec) == IF cnt.rec = 0 THEN [cnt EXCEPT !.rec = rec + 1] ELSE cnt

\* A trade type that is neither known nor matched by a rule is refused here.
\* (A cancel refused here would be reported as a "cancelerror" of FlowStep.)
CheckOrder_TradeType(o) == o.rule # 0 \/ o.kind # "bad"

\* SetOrdwthStatus: its result is not looked at either.
SetOrdwthStatus(rec) ==
    \/ Works /\ ordwth' = [ordwth EXCEPT ![rec].reads = @ + 1, ![rec].status = "P"]
    \/ Fails("mark") /\ ordwth' = [ordwth EXCEPT ![rec].reads = @ + 1]

SHOrderToFix(web) ==
    /\ dec.pc = "order" /\ dec.todo # <<>> /\ ~Locked(ShRules)
    /\ cnt' = FirstRecNum(Reading)
    /\ LET o == Message(Reading, web)
       IN  IF CheckOrder_TradeType(o)
           THEN /\ dec' = [dec EXCEPT !.todo = Tail(@), !.vec = Append(@, o)]
                /\ ordwth' = [ordwth EXCEPT ![Reading].reads = @ + 1]
                /\ UNCHANGED outb /\ Works
           ELSE /\ dec' = [dec EXCEPT !.todo = Tail(@)]
                /\ SetOrdwthStatus(Reading)
                /\ outb' = Append(outb, [o EXCEPT !.kind = "error"])
    /\ UNCHANGED <<ordwth2, cjhb, inb, sqls>>

\* Mutant of SetStatus: not the rows of a rule.
SetStatus_Ruleless(recs) ==
    [i \in DOMAIN ordwth |-> IF \E j \in DOMAIN recs : recs[j] = i /\ \A k \in DOMAIN dec.vec : dec.vec[k].rec = i => dec.vec[k].rule = 0
                             THEN [ordwth[i] EXCEPT !.status = "P"] ELSE ordwth[i]]

SetStatus(recs) ==
    [i \in DOMAIN ordwth |-> IF i \in Range(recs)
                             THEN [ordwth[i] EXCEPT !.status = "P"] ELSE ordwth[i]]

\* The result is not looked at: rows that stay R are read again.
Set_MutilOrd_Status ==
    /\ dec.pc = "order" /\ dec.todo = <<>>
    /\ \/ Works /\ ordwth' = SetStatus(dec.recs)
       \/ Fails("mark") /\ UNCHANGED ordwth
    /\ dec' = [dec EXCEPT !.pc = "push"]
    /\ UNCHANGED <<ordwth2, cjhb, cnt, bufVars>>

ProcShMessage ==
    /\ dec.pc = "push" /\ Works
    /\ inb' = inb \o dec.vec /\ dec' = Waits
    /\ UNCHANGED <<tabVars, cnt, outb, sqls>>

Declare(web, acked) ==
    \/ GetSHCjbh \/ SetCjbh \/ GetSHRec_Num \/ SetRecNum \/ SelectOrders(acked)
    \/ PolicySh \/ PolicySh_Rest \/ SHOrderToFix(web) \/ Set_MutilOrd_Status \/ ProcShMessage

-----------------------------------------------------------------------------
(* The flows: an order is refused, or confirmed and then matched; a cancel *)
(* succeeds, does not find its order, or is malformed.  An order of a rule *)
(* is not checked.                                                         *)

OfCancel == {"cancel", "cancelreject", "cancelerror"}

\* Mutant of FlowStep: an order of a rule is matched without a confirm.
FlowStep_Unconfirmed ==
    /\ inb # <<>> /\ Works
    /\ \E kind \in IF inb[1].kind = "wth" THEN OfCancel ELSE IF inb[1].rule # 0 THEN {"match"} ELSE {"error"} :
         outb' = Append(outb, [inb[1] EXCEPT !.kind = kind]) /\ inb' = Tail(inb)
    /\ UNCHANGED <<tabVars, cnt, dec, sqls>>

FlowStep ==
    /\ inb # <<>> /\ Works
    /\ \E kind \in CASE inb[1].kind = "wth" -> OfCancel
                     [] inb[1].kind = "confirmed" -> {"match"}
                     [] inb[1].kind \notin {"wth", "confirmed"} /\ inb[1].rule # 0 -> {"confirm"}
                     [] OTHER -> {"confirm", "error"} :
         /\ outb' = Append(outb, [inb[1] EXCEPT !.kind = kind])
         /\ inb' = IF kind = "confirm" THEN [inb EXCEPT ![1].kind = "confirmed"] ELSE Tail(inb)
    /\ UNCHANGED <<tabVars, cnt, dec, sqls>>

-----------------------------------------------------------------------------
(* ReportMsg_Sh: Get_SHReport takes reports until there is none.           *)

\* A row of ordwth2: its number, the order it is about, the status it tells
\* and the part of the rule it was made from; of cjhb without a status.
Row2(num, rec, status, part) ==
    [table |-> "ordwth2", num |-> num, rec |-> rec, status |-> status, part |-> part]
RowCjhb(num, rec, part) ==
    [table |-> "cjhb", num |-> num, rec |-> rec, status |-> "", part |-> part]

IncRecNum(c) == [c EXCEPT !.rec = @ + 1]
\* Mutant of IncCjbh: the number is used, then incremented.
IncCjbh_Post(c) == [c EXCEPT !.cjbh = IF @ = 0 THEN 1 ELSE @]
IncCjbh(c) == [c EXCEPT !.cjbh = @ + 1]

\* A confirm, an error or the answer to a cancel; a cancel that succeeded
\* takes a second number for teordernum.
ConfirmStatus(o) ==
    CASE o.kind \in {"error", "cancelreject"} -> "F" [] o.kind = "cancel" -> "W" [] OTHER -> "O"
TeOrderNum(o, c) == IF o.kind = "cancel" THEN IncRecNum(c) ELSE c
FixToSHConfirm(o) ==
    LET c == IncRecNum(cnt)
    IN  [cnt |-> TeOrderNum(o, c), sqls |-> <<Row2(c.rec, o.rec, ConfirmStatus(o), <<"confirm", 0>>)>>]

\* The columns of a row made by a rule are words of the rule: REC_NUM and
\* CJBH draw a number, @field is a field of the order, else the word itself.
Word_RecNum(c) == IncRecNum(c)
Word_Cjbh(c) == IncCjbh(c)
Word_Field(o) == o.rec
Word_Rule(o, p) == mem[o.rule][p]

\* The columns with the fields of the order, the status, and the others.
Confirm_Order(o) == Word_Field(o)
Confirm_Status == "rule"
Confirm_Rest(o) == Word_Rule(o, "confirm")

\* Nothing is written and no number drawn: a rule without a part for the
\* confirm or for the match, and a malformed cancel.
NoRow == [cnt |-> cnt, sqls |-> <<>>]

FixToSHConfirm_JsonRule(o) ==
    LET c == Word_RecNum(cnt)
    IN  IF Missing(Confirm_Rest(o)) THEN NoRow
        ELSE [cnt |-> c, sqls |-> <<Row2(c.rec, Confirm_Order(o), Confirm_Status, Confirm_Rest(o))>>]

\* A trade: the number that is drawn becomes the order's id too.
FixToSHReport(o) ==
    LET c == IncCjbh(cnt)
    IN  [cnt |-> c, sqls |-> <<RowCjhb(c.cjbh, o.rec, <<"match", 0>>)>>]

\* The columns with the fields of the order, and the others.
Report_Order(o) == Word_Field(o)
Report_Rest(o) == Word_Rule(o, "match")

\* One row for each element of the rule's match part, here one.
FixToSHReport_JsonRule(o) ==
    LET c == Word_Cjbh(cnt)
    IN  IF Missing(Report_Rest(o)) THEN NoRow
        ELSE [cnt |-> c, sqls |-> <<RowCjhb(c.cjbh, Report_Order(o), Report_Rest(o))>>]

\* ProcSingleReport, ProcSHConfirmOrder, ProcSHCancelOrder, ProcSHErrorOrder.
ProcSingleReport(o) == IF o.rule # 0 THEN FixToSHReport_JsonRule(o) ELSE FixToSHReport(o)
ProcSHConfirmOrder(o) == IF o.rule # 0 THEN FixToSHConfirm_JsonRule(o) ELSE FixToSHConfirm(o)
ProcReport(o) ==
    CASE o.kind = "match" -> ProcSingleReport(o)
      [] o.kind = "confirm" -> ProcSHConfirmOrder(o)
      [] o.kind = "cancelerror" -> NoRow
      [] OTHER -> FixToSHConfirm(o)

Get_SHReport ==
    /\ outb # <<>> /\ Works
    /\ LET p == ProcReport(outb[1])
       IN  cnt' = p.cnt /\ sqls' = sqls \o p.sqls
    /\ outb' = Tail(outb)
    /\ UNCHANGED <<tabVars, dec, inb>>

\* Send_SH_ReportOrConfirm: without a connection all of them are lost; a
\* statement that fails is lost alone.
RowsOf(table, done) ==
    LET mine == Ascending({i \in DOMAIN done : done[i].table = table})
        Row(s) == [num |-> s.num, rec |-> s.rec, status |-> s.status, part |-> s.part]
    IN  [k \in DOMAIN mine |-> Row(done[mine[k]])]

Send_SH_ReportOrConfirm ==
    /\ outb = <<>> /\ sqls # <<>>
    /\ \E done \in {sqls, <<>>, Tail(sqls)} :
         /\ IF done = sqls THEN Works ELSE Fails("report")
         /\ ordwth2' = ordwth2 \o RowsOf("ordwth2", done)
         /\ cjhb' = cjhb \o RowsOf("cjhb", done)
    /\ sqls' = <<>>
    /\ UNCHANGED <<ordwth, cnt, dec, inb, outb>>

Report == Get_SHReport \/ Send_SH_ReportOrConfirm
=============================================================================
