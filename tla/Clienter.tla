------------------------------ MODULE Clienter ------------------------------
(***************************************************************************)
(* tcp_simutgw_client/Clienter.cpp: the gateway's connection to the web    *)
(* server, which knows the gateway's configuration, the strategies and     *)
(* rules of its connections and the ETF packages.  The client's thread     *)
(* handles one message after the other; what a handler changes is read by  *)
(* the workers meanwhile.  The web server is external: it answers what the *)
(* gateway asks and tells it about changes.  The socket below the client   *)
(* is the one of the Windows build (win_iocp_simutgw_client).              *)
(***************************************************************************)
EXTENDS ShConn, EtfContainer

CONSTANTS MaxVer,      \* versions of a rule, strategy or package
          MaxChanges,  \* changes made at the web server
          Switches,    \* switch requests: [market, validation, method]
          BadParts,    \* parts of a configuration that may not convert
          SzKey,       \* the Shenzhen connection's web id,
          SzComp,      \* and its name in the gateway's configuration
          NoId

ASSUME ClienterAssumption ==
    /\ MaxVer \in Nat \ {0} /\ 1..MaxVer \subseteq DOMAIN Conds /\ NoId \notin Nat
    /\ {SzKey, SzComp} \subseteq Range(Keys) \ {ShKey}

VARIABLES srv,    \* the web server: [ver, link, pol, etf, ids, changes]
          toSrv, toCli,  \* messages on the way
          up,     \* m_bIsConnected
          rcv,    \* the client's thread: [msg, todo], Free between two messages
          id,     \* [mem, file, db] of g_strWeb_id
          conf,   \* the parts of the configuration that were applied
          woken,  \* what was signalled to the starting thread
          acked   \* the Shanghai strategy confirmed to the web server

cliVars == <<toSrv, toCli, up, rcv, conf, acked>>

Parties == {"sh", "sz", "seat"}
NoMsg == [type |-> "none"]
Free == [msg |-> NoMsg, todo |-> <<>>]

\* An earlier start may have stored its identity in the file only; the other
\* cases are reached from a first start.
CliInit(earlier) ==
    /\ srv = [ver |-> [r \in Rules |-> 1], link |-> [k \in {ShKey, SzKey} |->
                 IF ~earlier THEN {} ELSE IF k = ShKey THEN ShRules ELSE SzRules],
              pol |-> [who \in Parties |-> 0], etf |-> IF earlier THEN 1 ELSE 0,
              ids |-> IF earlier THEN 1 ELSE 0, changes |-> 0]
    /\ toSrv = <<>> /\ toCli = <<>> /\ up = FALSE /\ rcv = Free
    /\ id = [mem |-> NoId, file |-> IF earlier THEN 1 ELSE NoId, db |-> NoId]
    /\ conf = {} /\ woken = {} /\ acked = 0

\* What the end of the process loses of it.
CliLost ==
    /\ toSrv' = <<>> /\ toCli' = <<>> /\ up' = FALSE /\ rcv' = Free
    /\ id' = [id EXCEPT !.mem = NoId] /\ conf' = {} /\ woken' = {} /\ acked' = 0

-----------------------------------------------------------------------------
(* The web server.  A change is told to the gateway; when no connection is *)
(* there the gateway learns of it at its next start.                       *)

Times(k) == [r \in Rules |-> IF r \in srv'.link[k] THEN srv'.ver[r] ELSE 0]
LinksMsg(k) == [type |-> "links", key |-> k, times |-> Times(k)]
Tell(msgs) == toCli' = IF up THEN toCli \o msgs ELSE toCli

Change(new) ==
    /\ srv.changes < MaxChanges /\ Happens
    /\ srv' = [new EXCEPT !.changes = @ + 1]

EditRule ==
    \E r \in Rules :
      /\ srv.ver[r] < MaxVer /\ Change([srv EXCEPT !.ver[r] = @ + 1])
      /\ LET k == IF r \in ShRules THEN ShKey ELSE SzKey
         IN  Tell(IF r \in srv.link[k] THEN <<LinksMsg(k)>> ELSE <<>>)

Relink ==
    \E k \in {ShKey, SzKey} : \E R \in SUBSET (IF k = ShKey THEN ShRules ELSE SzRules) :
      R # srv.link[k] /\ Change([srv EXCEPT !.link[k] = R]) /\ Tell(<<LinksMsg(k)>>)

NewStrategy ==
    \E who \in Parties :
      /\ srv.pol[who] < MaxVer /\ Change([srv EXCEPT !.pol[who] = @ + 1])
      /\ \E bad \in BOOLEAN : Tell(<<[type |-> "strategy", who |-> who, ver |-> srv.pol[who] + 1, bad |-> bad]>>)

NewEtf ==
    /\ srv.etf < MaxVer /\ Change([srv EXCEPT !.etf = @ + 1])
    /\ \E bad \in EtfErrors \cup {"none"} :
         Tell(<<[type |-> "etf", doc |-> [info |-> Yuan(srv.etf + 1), comps |-> Yuan(srv.etf + 1), bad |-> bad]]>>)

Switch == \E v \in Switches : Change(srv) /\ Tell(<<[type |-> "switch", to |-> v]>>)
RestartAsked == Change(srv) /\ Tell(<<[type |-> "restart"]>>)

\* What the gateway asked for.
VerOf(r) == [rule |-> r, ver |-> srv.ver[r]]
Answer ==
    /\ toSrv # <<>> /\ toSrv' = Tail(toSrv)
    /\ LET q == toSrv[1]
       IN  CASE q.type = "register" ->
                  /\ srv' = [srv EXCEPT !.ids = @ + 1]
                  /\ toCli' = Append(toCli, [type |-> "register", id |-> srv.ids + 1])
             [] q.type = "param" ->
                  /\ UNCHANGED srv
                  /\ \E bad \in BadParts \cup {"none"} :
                       toCli' = Append(toCli, [type |-> "param", bad |-> bad, pol |-> srv.pol,
                                               sh |-> Times(ShKey), sz |-> Times(SzKey)])
             [] OTHER ->
                  /\ UNCHANGED srv
                  /\ toCli' = Append(toCli, [type |-> "rules",
                                             docs |-> [i \in DOMAIN q.rules |-> VerOf(q.rules[i])]])

\* The web server tells a gateway it has sent the configuration to; a change
\* before that is in the configuration.
Configured == conf # {} \/ \E i \in DOMAIN toCli : toCli[i].type = "param"

WebServer(before) ==
    /\ \/ (Configured \/ before) /\ (EditRule \/ Relink \/ NewStrategy \/ NewEtf \/ Switch \/ RestartAsked)
          /\ UNCHANGED <<toSrv, faults>>
       \/ Answer /\ Works
    /\ UNCHANGED <<up, rcv, conf, acked, woken, id>>

-----------------------------------------------------------------------------
(* The connection.  Once lost it is only made again by a message the       *)
(* gateway wants to send, and not within five minutes of the last attempt. *)

LoseConnection ==
    /\ up /\ Fails("web") /\ up' = FALSE /\ toSrv' = <<>> /\ toCli' = <<>>
    /\ UNCHANGED <<srv, rcv, conf, acked, woken, id>>

\* SendMsgToServer: the message is sent, after a reconnection perhaps, or,
\* within the five minutes, not.
Sent(msgs) == toSrv' = toSrv \o msgs
Reconnect == ~up /\ up' = TRUE
SendMsgToServer(msgs) ==
    \/ up /\ Sent(msgs) /\ UNCHANGED up
    \/ Reconnect /\ Sent(msgs)
    \/ ~up /\ UNCHANGED <<up, toSrv>>

\* SendMsg_GetMatchRuleContentFromServer: nothing to ask for is not sent.
GetMatchRuleContent(R) ==
    IF R = {} THEN UNCHANGED <<up, toSrv>>
    ELSE SendMsgToServer(<<[type |-> "rules", rules |-> Ascending(R)]>>)

\* SystemInit::Step8_CheckLinkRuleSync.
NeedFetchRule ==
    LET have == HaveRules(Keys, times)
    IN  CompareRuleTime(ShRules, have) \cup CompareRuleTime(SzRules, have)
CheckLinkRuleSync == ~Locked(Rules) /\ GetMatchRuleContent(NeedFetchRule)

-----------------------------------------------------------------------------
(* ProcessReceivedData: a message is taken and its handler runs.  Each     *)
(* handler ends with an answer, of which nothing here depends.             *)

Msg == toCli[1]
Takes(type) == toCli # <<>> /\ rcv = Free /\ Msg.type = type /\ toCli' = Tail(toCli)
GoesOn == rcv' = [Free EXCEPT !.msg = Msg]
Handles(type) == rcv.msg.type = type /\ UNCHANGED toCli
Done == rcv' = Free
Reply == SendMsgToServer(<<>>)

RegisterReport ==
    /\ Takes("register")
    /\ id' = [id EXCEPT !.mem = Msg.id] /\ woken' = woken \cup {"register"}
    /\ UNCHANGED <<srv, toSrv, up, rcv, conf, acked, times>>
    /\ UNCHANGED <<ruleVars, etfVars, polVars, shVars>> /\ Works

\* The three parts of the configuration.  The first that does not convert
\* ends the handler, what came before it is applied already.
GetSysConfig(bad) == bad # "sys"
GetSzConnConfig(bad) == bad # "sz"
GetShConnConfig(bad) == bad # "sh"
Applied(bad) == IF ~GetSysConfig(bad) THEN {}
                ELSE IF ~GetSzConnConfig(bad) THEN {"sys"}
                ELSE IF ~GetShConnConfig(bad) THEN {"sys", "sz"} ELSE {"sys", "sz", "sh"}

\* The global settings of the web server replace those of the file.
WebDefault == 11
GetSysConfig_Settings(g) == [g EXCEPT !.check = WebDefault, !.match = WebDefault]

\* Get_LinkMatchRuleRelations: a Shenzhen connection's rules are put under
\* its name in the gateway's configuration.
LinkMatchRuleRelations(m) == [times EXCEPT ![ShKey] = m.sh, ![SzComp] = m.sz]

\* Get_ChangeLinkStrategy for the strategies there are: method, validation
\* and number of a strategy make its cell.
GivenPolicy(old, n) == IF n = 0 THEN old ELSE Cell(n)
GivenPolicies(pol) ==
    [self |-> IF pol["sz"] # 0 THEN Cell(pol["sz"]) ELSE GivenPolicy(polSz.self, pol["seat"]),
     seat |-> GivenPolicy(polSz.seat, pol["seat"])]

\* Mutant of Signalled: whatever was applied.
Signalled_Always(bad) == TRUE
Signalled(bad) == bad = "none"

ParamReport ==
    /\ Takes("param")
    /\ conf' = conf \cup Applied(Msg.bad)
    /\ IF Msg.bad = "none"
       THEN /\ polSh' = GivenPolicy(polSh, Msg.pol["sh"])
            /\ polSz' = GivenPolicies(Msg.pol)
            /\ acked' = Msg.pol["sh"]
            /\ times' = LinkMatchRuleRelations(Msg)
       ELSE UNCHANGED <<polSh, polSz, acked, times>>
    /\ glob' = IF GetSysConfig(Msg.bad) THEN GetSysConfig_Settings(glob) ELSE glob
    /\ woken' = IF Signalled(Msg.bad) THEN woken \cup {"param"} ELSE woken
    /\ UNCHANGED <<srv, toSrv, up, rcv, id>>
    /\ UNCHANGED <<ruleVars, etfVars, shVars>> /\ Works

\* SwitchModeRequest: field after field without a lock.  A validation of 1
\* turns off the quotations, not the check; the method is the quotation type
\* when quotations are on, else the match mode.
SwitchMarket(g, m) == IF m.market \in {0, 1} THEN [g EXCEPT !.quot = m.market = 0] ELSE g
SwitchValidation(g, m, normal) ==
    IF m.validation = 0 /\ normal THEN [g EXCEPT !.check = CheckOn]
    ELSE IF m.validation = 1 THEN [g EXCEPT !.quot = FALSE] ELSE g
SwitchMethod(g, m) == IF g.quot THEN g ELSE [g EXCEPT !.match = m.method]

SwitchMode(normal) ==
    /\ \/ /\ Takes("switch") /\ GoesOn
          /\ glob' = SwitchValidation(SwitchMarket(glob, Msg.to), Msg.to, normal)
          /\ UNCHANGED <<up, toSrv>>
       \/ /\ Handles("switch") /\ Done /\ Reply
          /\ glob' = SwitchMethod(glob, rcv.msg.to)
    /\ UNCHANGED <<srv, conf, acked, woken, id, times, polSh, polSz>>
    /\ UNCHANGED <<ruleVars, etfVars, shVars>> /\ Works

\* Get_ChangeLinkStrategy: applied, then confirmed.  One that is malformed or
\* has an unknown method is passed over.
Wellformed(m) == ~m.bad
SetStrategy(who, n) == CASE who = "sh" -> Set_Sh(n)
                         [] who = "sz" -> Set_Sz_Conn(n)
                         [] OTHER -> Set_Sz_Seat(n)

ChangeLinkStrategy ==
    /\ \/ /\ Takes("strategy") /\ GoesOn
          /\ IF Wellformed(Msg) THEN SetStrategy(Msg.who, Msg.ver) ELSE UNCHANGED polVars
          /\ UNCHANGED <<up, toSrv, acked>>
       \/ /\ Handles("strategy") /\ Done /\ Reply
          /\ acked' = IF rcv.msg.who = "sh" /\ Wellformed(rcv.msg) THEN rcv.msg.ver ELSE acked
          /\ UNCHANGED polVars
    /\ UNCHANGED <<srv, conf, woken, id, times>>
    /\ UNCHANGED <<ruleVars, etfVars, shVars>> /\ Works

\* ChangeLinkRules: the rules of the connection of that name are emptied and
\* put in one by one; then the rules that are needed are asked for.
ClearLinkRules ==
    /\ Takes("links")
    /\ times' = [times EXCEPT ![Msg.key] = [r \in Rules |-> 0]]
    /\ rcv' = [msg |-> Msg, todo |-> Ascending({r \in Rules : Msg.times[r] # 0})]
    /\ UNCHANGED <<up, toSrv>>

InsertLinkRule ==
    /\ Handles("links") /\ rcv.todo # <<>>
    /\ times' = [times EXCEPT ![rcv.msg.key][rcv.todo[1]] = rcv.msg.times[rcv.todo[1]]]
    /\ rcv' = [rcv EXCEPT !.todo = Tail(@)]
    /\ UNCHANGED <<up, toSrv>>

\* Mutant of LinkRulesChanged: the rules are not compared.
LinkRulesChanged_NoSync == Handles("links") /\ rcv.todo = <<>> /\ Reply /\ Done /\ UNCHANGED times

LinkRulesChanged ==
    /\ Handles("links") /\ rcv.todo = <<>> /\ Done /\ UNCHANGED times
    /\ CheckLinkRuleSync \/ (NeedFetchRule = {} /\ Reply)

\* A message that is malformed, at its head or at an entry or another
\* connection further on: what came before stays, and no rule is asked for.
RejectLinkRules == (Takes("links") \/ Handles("links")) /\ Reply /\ Done /\ UNCHANGED times

ChangeLinkRules ==
    /\ \/ (ClearLinkRules \/ InsertLinkRule \/ LinkRulesChanged) /\ Works
       \/ RejectLinkRules /\ Fails("links")
    /\ UNCHANGED <<srv, conf, acked, woken, id>>
    /\ UNCHANGED <<ruleVars, etfVars, polVars, shVars>>

\* MatchRule: InsertShRule or InsertSzRule for each, until one fails or is
\* malformed.
MatchRuleMsg(db) ==
    /\ \/ /\ Takes("rules") /\ GoesOn /\ Works
          /\ ins' = [todo |-> Msg.docs, stage |-> "next"] /\ UNCHANGED <<mem, rows, up, toSrv>>
       \/ Handles("rules") /\ InsertRule(db) /\ UNCHANGED <<rcv, up, toSrv>>
       \/ Handles("rules") /\ ins = Idle /\ Done /\ Reply /\ Works /\ UNCHANGED ruleVars
    /\ UNCHANGED <<srv, conf, acked, woken, id, times, etfVars, polVars, shVars>>

\* Etfinfo: InsertEtf_FromWebControl; without a database it fails.
Etfinfo(db) ==
    /\ \/ /\ Takes("etf") /\ GoesOn /\ Works
          /\ IF db THEN InsertEtf(Msg.doc) ELSE UNCHANGED etfIns
          /\ UNCHANGED <<etfMem, etfRow, up, toSrv>>
       \/ Handles("etf") /\ EtfStep /\ UNCHANGED <<rcv, up, toSrv>>
       \/ Handles("etf") /\ etfIns = NoInsert /\ Done /\ Reply /\ Works /\ UNCHANGED etfVars
    /\ UNCHANGED <<srv, conf, acked, woken, id, times, ruleVars, polVars, shVars>>

ProcessReceivedData(db) ==
    \/ RegisterReport \/ ParamReport \/ SwitchMode(db) \/ ChangeLinkStrategy
    \/ ChangeLinkRules \/ MatchRuleMsg(db) \/ Etfinfo(db)
=============================================================================
