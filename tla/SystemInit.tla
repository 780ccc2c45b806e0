----------------------------- MODULE SystemInit -----------------------------
(***************************************************************************)
(* work_manage/SystemInit.cpp, Simutgw_ConfigInit: the start of the        *)
(* gateway, step by step on the main thread, and with it the composition   *)
(* of the web client, the rules, the ETF packages, the policies and the    *)
(* Shanghai interface.  A step that fails ends the process; it may end at  *)
(* any other moment too, or by request, and be started again.              *)
(*                                                                         *)
(* The identity of the gateway is given by the web server at its first     *)
(* start and kept in a file and in the database.                           *)
(***************************************************************************)
EXTENDS Clienter

CONSTANTS Modes,     \* the configurations: [run, web, local] records
          MaxStarts
ASSUME MaxStartsAssumption == MaxStarts \in Nat \ {0}

VARIABLES pc,      \* the step the main thread is at, "run" or "ended"
          mode,    \* run and web mode of the file, and whether the license has the local mode
          starts,
          used     \* the identities completed starts had

mainVars == <<pc, mode, starts, used>>
gatewayVars == <<mainVars, faults, events, ruleVars, etfVars, polVars, shVars, times,
          srv, cliVars, woken, id>>

\* The gateway is started for the first time, or, in normal mode, after
\* earlier days.
GatewayInit ==
    /\ mode \in Modes
    /\ \E earlier \in {FALSE, mode.run = "Normal"} :
         RulesInit(earlier) /\ EtfInit(earlier) /\ ShInit(earlier) /\ CliInit(earlier)
    /\ faults = {} /\ events = 0 /\ PolicyInit
    /\ pc = "0" /\ starts = 1 /\ used = {}

Normal == mode.run = "Normal"

\* CheckRunMode_Dll: without the license for it the local mode is not taken.
WebMan == mode.web \/ ~mode.local

-----------------------------------------------------------------------------
(* The steps                                                               *)

\* What a step leaves alone unless it says otherwise.
Others == UNCHANGED <<mode, starts, polVars, shVars, srv, toCli, rcv, conf, acked>>
Ends == pc' = "ended"

\* Step0, Step1_CheckLicense.
CheckLicense ==
    /\ pc = "0"
    /\ \/ Works /\ pc' = "2"
       \/ Fails("start") /\ Ends
    /\ Others /\ UNCHANGED <<used, ruleVars, etfVars, times, toSrv, up, woken, id>>

\* Step2_ReadConfig: the modes, and the addresses and settings of the file.
ReadConfig ==
    /\ pc = "2"
    /\ \/ Works /\ pc' = IF Normal THEN "3_1" ELSE IF WebMan THEN "4_1" ELSE "5"
       \/ Fails("start") /\ Ends
    /\ Others /\ UNCHANGED <<used, ruleVars, etfVars, times, toSrv, up, woken, id>>

\* Step3_1 and Step3_2: the database, which only the normal mode has.
CheckMysql ==
    /\ pc = "3_1"
    /\ \/ Works /\ pc' = "3_3"
       \/ Fails("start") /\ Ends
    /\ Others /\ UNCHANGED <<used, ruleVars, etfVars, times, toSrv, up, woken, id>>

\* Step3_3_LoadConfigFromDb: the rules, of Shanghai first, then the packages.
LoadConfigFromDb ==
    /\ pc = "3_3"
    /\ \/ Works /\ mem' = ReloadFromDb /\ etfMem' = ReloadEtf
          /\ pc' = IF WebMan THEN "4_1" ELSE "5"
       \/ Fails("reload") /\ mem' = ReloadFromDb_Sh /\ UNCHANGED etfMem /\ Ends
       \/ Fails("etfrows") /\ mem' = ReloadFromDb /\ UNCHANGED etfMem /\ Ends
       \/ Fails("etfids") /\ mem' = ReloadFromDb /\ etfMem' = NoEtf
          /\ pc' = IF WebMan THEN "4_1" ELSE "5"
    /\ Others /\ UNCHANGED <<used, rows, ins, etfRow, etfIns, times, toSrv, up, woken, id>>

\* Step4_1_ReadIdFromFile, Step4_2_ReadIdFromMysql: the database's identity
\* goes before the file's; a failure to read it is passed over.
IdFromMysql == IF Normal /\ id.db # NoId THEN id.db ELSE id.file
ReadId ==
    /\ pc = "4_1" /\ pc' = "4_3"
    /\ \/ Works /\ id' = [id EXCEPT !.mem = IdFromMysql]
       \/ Normal /\ Fails("readid") /\ id' = [id EXCEPT !.mem = id.file]
    /\ Others /\ UNCHANGED <<used, ruleVars, etfVars, times, toSrv, up, woken>>

\* Step4_3_GetIdFromWeb: without an identity the gateway registers.
RegisterToServer == Append(toSrv, [type |-> "register"])
Connect ==
    /\ pc = "4_3"
    /\ \/ /\ Works /\ up' = TRUE
          /\ pc' = IF id.mem # NoId THEN "keep" ELSE "registered"
          /\ toSrv' = IF id.mem # NoId THEN toSrv ELSE RegisterToServer
       \/ Fails("web") /\ Ends /\ UNCHANGED <<up, toSrv>>
    /\ Others /\ UNCHANGED <<used, ruleVars, etfVars, times, woken, id>>

\* An identity that is known is stored where it was not found, in the file
\* and then in the database.
Kept == [mem |-> id.mem, file |-> IF id.file = NoId THEN id.mem ELSE id.file,
         db |-> IF Normal /\ id.db = NoId THEN id.mem ELSE id.db]

KeepId ==
    /\ pc = "keep"
    /\ \/ Works /\ id' = Kept /\ pc' = "4_4"
       \/ Normal /\ id.db = NoId /\ Fails("saveid") /\ id' = [Kept EXCEPT !.db = NoId] /\ pc' = "4_4"
       \/ id.file = NoId /\ Fails("file") /\ UNCHANGED id /\ Ends
    /\ Others /\ UNCHANGED <<used, ruleVars, etfVars, times, toSrv, up, woken>>

\* The wait for the event of the client's thread takes the event, or ends
\* without it after ten minutes.
Wait(waits, event, next) ==
    /\ pc = waits /\ Works
    /\ pc' = IF event \in woken THEN next ELSE "ended"
    /\ woken' = woken \ {event}
    /\ Others /\ UNCHANGED <<used, ruleVars, etfVars, times, toSrv, up, id>>

\* SaveIdFromWeb; its result is not looked at.
SaveIdFromWeb ==
    /\ pc = "savedb" /\ pc' = "savefile"
    /\ \/ Works /\ id' = IF Normal THEN [id EXCEPT !.db = id.mem] ELSE id
       \/ Normal /\ Fails("saveid") /\ UNCHANGED id
    /\ Others /\ UNCHANGED <<used, ruleVars, etfVars, times, toSrv, up, woken>>

\* Mutant of SaveIdToFile: it is left out, the database has the identity.
SaveIdToFile_Not ==
    /\ pc = "savefile" /\ pc' = "4_4" /\ Works
    /\ Others /\ UNCHANGED <<used, ruleVars, etfVars, times, toSrv, up, woken, id>>

SaveIdToFile ==
    /\ pc = "savefile"
    /\ \/ Works /\ pc' = "4_4" /\ id' = [id EXCEPT !.file = id.mem]
       \/ Fails("file") /\ Ends /\ UNCHANGED id
    /\ Others /\ UNCHANGED <<used, ruleVars, etfVars, times, toSrv, up, woken>>

\* Step4_4_GetConfigFromWebServer.
GetParamFromServer == IF up THEN Append(toSrv, [type |-> "param"]) ELSE toSrv
AskConfig ==
    /\ pc = "4_4" /\ pc' = "asked" /\ Works
    /\ toSrv' = GetParamFromServer
    /\ Others /\ UNCHANGED <<used, ruleVars, etfVars, times, up, woken, id>>

\* Step5_1 to Step6_1: ETF files and Redis.
CheckRedis ==
    /\ pc = "5"
    /\ \/ Works /\ pc' = "8"
       \/ Fails("start") /\ Ends
    /\ Others /\ UNCHANGED <<used, ruleVars, etfVars, times, toSrv, up, woken, id>>

\* Step8_CheckLinkRuleSync: rules that are needed must be asked for.  Without
\* the web server no connection has rules.
CheckRules ==
    /\ pc = "8" /\ Works
    /\ CheckLinkRuleSync
    /\ pc' = IF NeedFetchRule # {} /\ ~up' THEN "ended" ELSE "9"
    /\ Others /\ UNCHANGED <<used, ruleVars, etfVars, times, woken, id>>

\* Step9_ThreadsStartup: the writer, the pools, the flows and the server.
ThreadsStartup ==
    /\ pc = "9"
    /\ \/ Works /\ pc' = "run" /\ used' = IF WebMan THEN used \cup {id.mem} ELSE used
       \/ Fails("start") /\ Ends /\ UNCHANGED used
    /\ Others /\ UNCHANGED <<ruleVars, etfVars, times, toSrv, up, woken, id>>

Start ==
    \/ CheckLicense \/ ReadConfig \/ CheckMysql \/ LoadConfigFromDb \/ ReadId \/ Connect \/ KeepId
    \/ Wait("registered", "register", "savedb")
    \/ SaveIdFromWeb \/ SaveIdToFile
    \/ AskConfig \/ Wait("asked", "param", "5")
    \/ CheckRedis \/ CheckRules \/ ThreadsStartup

\* _remoterestart
RestartRequest ==
    /\ pc # "ended" /\ Takes("restart") /\ Ends /\ Works
    /\ UNCHANGED <<mode, starts, used, ruleVars, etfVars, polVars, shVars, times, srv,
                   toSrv, up, rcv, conf, acked, woken, id>>

\* The process ends, here or somewhere before, and is started again.
Restart ==
    /\ starts < MaxStarts
    /\ pc' = "0" /\ starts' = starts + 1 /\ Happens
    /\ mem' = Emptied /\ ins' = Idle /\ etfMem' = NoEtf /\ etfIns' = NoInsert
    /\ polSh' = NoPolicy /\ polSz' = [self |-> NoPolicy, seat |-> NoPolicy] /\ glob' = GlobalDefault
    /\ ShLost /\ CliLost
    /\ UNCHANGED <<mode, used, rows, etfRow, tabVars, srv, faults>>

-----------------------------------------------------------------------------

Shanghai ==
    /\ pc = "run"
    /\ Declare(WebMan, acked) \/ FlowStep \/ Report
    /\ UNCHANGED <<mainVars, ruleVars, etfVars, polVars, times, srv, cliVars, woken, id>>

Environment ==
    /\ \/ pc = "run" /\ Ordwth /\ UNCHANGED <<srv, cliVars, woken, id>>
       \/ pc # "ended" /\ WebMan /\ (WebServer(pc = "0" /\ starts > 1) \/ LoseConnection) /\ UNCHANGED shVars
    /\ UNCHANGED <<mainVars, ruleVars, etfVars, polVars, times>>

Client == pc # "ended" /\ ProcessReceivedData(Normal) /\ UNCHANGED mainVars

GatewayNext == Start \/ Shanghai \/ Client \/ Environment \/ RestartRequest \/ Restart

GatewaySpec == GatewayInit /\ [][GatewayNext]_gatewayVars

-----------------------------------------------------------------------------
(* Properties                                                              *)

GatewayTypeOK ==
    /\ faults \subseteq {"start", "reload", "etfrows", "etfids", "readid", "web", "saveid", "file", "rule",
                         "etf", "commit", "sh", "mark", "report", "document", "links"}
    /\ \A r \in Rules : mem[r] # NoRule => mem[r].ts \in 1..MaxVer
    /\ Locked(Rules) => rcv.msg.type = "rules"
    /\ etfIns # NoInsert => rcv.msg.type = "etf"
    /\ cnt \in [rec : Nat, cjbh : Nat] /\ conf \subseteq {"sys", "sz", "sh"}

AtRest(r) == mem[r] # NoRule /\ ~(Locked(Rules) /\ Changing = r)

\* What part p of rule r may be at version n: the version's own; when its
\* document lacks it, what an earlier version left, or nothing.
PartsAt(p, r, n) ==
    IF p \in Lacks[r][n] THEN {<<p, 0>>} \cup {PartOf(p, r, m) : m \in 1..n} ELSE {<<p, n>>}

\* A Shanghai rule in the map has every part that the version its timestamp
\* names has, and for what that version lacks never a newer part or another
\* one, and at least its conditions, except while InsertSingleRule is at it:
\* also after versions were skipped, were malformed, writes failed and
\* restarts.
RuleOfItsVersion ==
    \A r \in ShRules :
      AtRest(r) =>
        /\ mem[r].confirm \in PartsAt("confirm", r, mem[r].ts)
        /\ mem[r].match \in PartsAt("match", r, mem[r].ts)
        /\ Conds[mem[r].ts] \subseteq mem[r].conds

\* The gateway can restart without losing a rule it had: the row of a rule
\* has the version of the map unless the writing failed, and a Shanghai
\* rule's the parts, but for what the last document lacked.
RowsKept ==
    pc = "run" /\ Normal /\ "rule" \notin faults =>
      \A r \in Rules : AtRest(r) =>
        /\ rows[r] # NoRule /\ rows[r].ts = mem[r].ts
        /\ r \in ShRules => /\ rows[r].confirm \in {mem[r].confirm, <<"confirm", 0>>}
                            /\ rows[r].match \in {mem[r].match, <<"match", 0>>}

\* A rule in the map is what the web server sent and the same in its row.
RulesKept == GatewayTypeOK /\ RuleOfItsVersion /\ RowsKept

\* When nothing is on the way any more, the Shanghai connection's rules are
\* there in a version not older than the one it was told of, whichever
\* changes, answers and restarts there were, unless something failed.
RulesSynced ==
    pc = "run" /\ Normal /\ WebMan /\ faults = {} /\ toSrv = <<>> /\ toCli = <<>> /\ rcv = Free =>
      \A r \in ShRules : times[ShKey][r] # 0 => mem[r] # NoRule /\ mem[r].ts >= times[ShKey][r]

\* Orders that are read after a strategy was confirmed to the web server get
\* that one or a later one, and a whole one (Get_Sh's mutex); a seat that
\* was given one gets it.
PolicyWhole ==
    /\ dec.pc \in {"order", "push"} =>
         /\ dec.known => dec.pol.match = dec.pol.check /\ dec.pol.match >= dec.acked
         /\ dec.acked > 0 => dec.known
    /\ polSz.seat # NoPolicy => Get_Sz(TRUE) = polSz.seat

\* What the web server configures arrives, and arrives whole.
ConfigurationWhole == RulesSynced /\ PolicyWhole

\* The confirms are numbered in ascending order and never twice: over
\* restarts, lost reports and the two workers that use the counter.
RecNumIncreasing ==
    \A i, j \in DOMAIN ordwth2 : i < j => ordwth2[i].num < ordwth2[j].num

\* So are the trades when the table was not empty at the start.
CjbhIncreasing ==
    cjhb # <<>> /\ cjhb[1] = Old =>
      \A i, j \in DOMAIN cjhb : i < j => cjhb[i].num < cjhb[j].num

\* The two numbers the gateway gives to what it writes for the exchange.
NumbersIncreasing == RecNumIncreasing /\ CjbhIncreasing

\* A rule's confirm part may be missing only when a document lacked it.
Unconfirmed == \E r \in ShRules : \E n \in 1..srv.ver[r] : "confirm" \in Lacks[r][n]

\* Each reading of an order is answered at most once in ordwth2, and a trade
\* is only reported for an order whose confirm is there: the reports of an
\* order keep their sequence through both buffers, unless one was lost or
\* the web server sent a rule that confirms nothing.
ReportsOfOrders ==
    \A r \in DOMAIN ordwth :
      LET mine == {i \in DOMAIN ordwth2 : ordwth2[i].rec = r}
      IN  /\ Cardinality(mine) <= ordwth[r].reads
          /\ (\E i \in DOMAIN cjhb : cjhb[i].rec = r) /\ "report" \notin faults /\ ~Unconfirmed =>
               \E i \in mine : ordwth2[i].status \in {"O", "rule"}

\* An order is read once, and once more at most for each start of the
\* process and for a failed update of its status.
ReadAgain ==
    \A i \in DOMAIN ordwth : ordwth[i].reads <= starts + Cardinality(faults \cap {"mark"})

\* An order is read once and answered once, up to what failed.
OrdersReported == ReportsOfOrders /\ ReadAgain

\* The identity is one for good: completed starts never used two of them,
\* whenever the process ended before, if at most one access to the stored
\* identity failed.
OneIdInUse == Cardinality(faults \cap {"readid", "saveid"}) <= 1 => Cardinality(used) <= 1

\* The workers do not start with a part of the configuration: the handler of
\* the web server's answer wakes the main thread only when all was applied.
StartedConfigured == WebMan /\ pc \in {"5", "8", "9", "run"} => conf = {"sys", "sz", "sh"} /\ id.mem # NoId

\* What a start leads to is one gateway: known by one identity, configured whole.
StartWhole == OneIdInUse /\ StartedConfigured

\* The tables of the ETF packages never have the header of one version with
\* the components of another, wherever the process ends.
EtfWhole == etfRow # NoEtf => etfRow.info = etfRow.comps

\* What the map has is what a restart would load, unless the commit or the
\* loading failed.
EtfKept == pc = "run" /\ etfIns = NoInsert /\ Normal /\ faults \cap {"commit", "etfids"} = {}
             => etfMem = etfRow

\* The ETF packages are whole and are the saved ones.
EtfSaved == EtfWhole /\ EtfKept
=============================================================================
