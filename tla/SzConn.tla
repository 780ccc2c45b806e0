------------------------------- MODULE SzConn -------------------------------
(***************************************************************************)
(* The Shenzhen interface: FIX sessions of clients, each served by a       *)
(* thread of the acceptor (stgw_fix_acceptor/StgwApplication and           *)
(* StgwMsgHelper), and one loop worker (Proc_SzConn_Step) that numbers the *)
(* reports of the flows and sends them (StgwFixReport::Send_SZReport).     *)
(* A client that has logged on tells with a ReportSynchronization message  *)
(* from which ReportIndex on it wants its reports.                         *)
(*                                                                         *)
(* The fields of a SzConnection are read and written by both threads       *)
(* without a lock, so reading the index and writing it back are two steps. *)
(* (The two writes of SetRptIdx, or of LogOut, are one step: what the      *)
(* worker reads between them it could also read before or after.)  What    *)
(* the flows do between order and report is in OrderFlow.  A report handed *)
(* to the engine is delivered, if need be after another log-on: the engine *)
(* keeps its messages in files.                                            *)
(***************************************************************************)
EXTENDS Integers, Sequences, FiniteSets, SequencesExt

CONSTANTS NumConns,   \* clients; the map of connections is walked in their order
          Kinds,      \* of reports, see below
          Asks,       \* ReportSynchronization messages: the indices asked for, one per partition
          MaxOrders, MaxLogOns, MaxSyncs,  \* bounds, over all clients
          MaxIndex    \* bound: an index that nobody asked for is not counted further

\* A report is "good"; "late": it lacks a field, or its rule has a word, that
\* is looked at after its index was drawn; "early": its rule is no proper
\* document; "silent": its rule has no parts for matching.
ASSUME SzConnAssumption ==
    /\ NumConns \in Nat \ {0}
    /\ Kinds \subseteq {"good", "late", "early", "silent"}
    /\ Asks \subseteq Seq(Nat) \ {<<>>}
    /\ {MaxOrders, MaxLogOns, MaxSyncs, MaxIndex} \subseteq Nat

Conn == 1..NumConns

VARIABLES conn,     \* g_mapSzConns: [known, logOn, syn, idx] of each client
          buffer,   \* m_sz_Buffer: its reports [id, kind]
          w,        \* the worker: step, connection, report and index in hand
          pushed,   \* history: kinds of its reports in the order pushed
          drawn,    \* history: [id, num, syn], numbers given to its reports
          wire,     \* history: ids of its reports handed to the engine
          asked,    \* history: its synchronisations [ask, raced]
          session,  \* history: whether it asked since its last log-on, and the
                    \* number of reports taken for it since although it had not
          logOns, syncs, orders  \* bounded counters

counters == <<logOns, syncs, orders>>

hist == <<pushed, drawn, wire, asked, session>>
vars == <<conn, buffer, w, hist, counters>>

At(pc, c) == [pc |-> pc, c |-> c, rep |-> [id |-> 0, kind |-> "none"], num |-> 0]

Fresh(does) == [asks |-> does, unasked |-> 0]

Init ==
    /\ conn = [c \in Conn |-> [known |-> FALSE, logOn |-> FALSE, syn |-> FALSE, idx |-> 0]]
    /\ buffer = [c \in Conn |-> <<>>]
    /\ w = At("test", 1)
    /\ pushed = buffer /\ drawn = buffer /\ wire = buffer /\ asked = buffer
    /\ session = [c \in Conn |-> Fresh(FALSE)]
    /\ logOns = 0 /\ syncs = 0 /\ orders = 0

Synchronised(c) == conn[c].logOn /\ conn[c].syn

-----------------------------------------------------------------------------
(* The thread of a client's session                                        *)

ProcLogOn(c) ==
    /\ ~conn[c].logOn /\ logOns < MaxLogOns
    /\ conn' = [conn EXCEPT ![c].known = TRUE, ![c].logOn = TRUE]
    /\ logOns' = logOns + 1
    /\ session' = [session EXCEPT ![c] = Fresh(FALSE)]
    /\ UNCHANGED <<buffer, w, pushed, drawn, wire, asked, syncs, orders>>

\* Mutant of LoggedOut: the flag of the synchronisation stays.
LoggedOut_KeepsSyn(s) == [s EXCEPT !.logOn = FALSE]

\* SzConnection::LogOut.
LoggedOut(s) == [s EXCEPT !.logOn = FALSE, !.syn = FALSE]

\* The client logs out or its connection breaks.
ProcLogOut(c) ==
    /\ conn[c].logOn
    /\ conn' = [conn EXCEPT ![c] = LoggedOut(@)]
    /\ session' = [session EXCEPT ![c] = Fresh(FALSE)]
    /\ UNCHANGED <<buffer, w, pushed, drawn, wire, asked, counters>>

\* Mutant of IndexOf: the index of the first partition.
IndexOf_First(ask) == Head(ask)

\* ReportSynchronization keeps the index of the last partition.
IndexOf(ask) == Last(ask)

\* The worker uses the index of client c, or will without another test.
InHands(c) == w.c = c /\ w.pc \in {"else", "bump", "drawn"}

ReportSynchronization(c, ask) ==
    /\ conn[c].logOn /\ syncs < MaxSyncs
    /\ syncs' = syncs + 1
    /\ conn' = [conn EXCEPT ![c].idx = IndexOf(ask), ![c].syn = TRUE]
    /\ asked' = [asked EXCEPT ![c] = Append(@, [ask |-> ask, raced |-> InHands(c)])]
    /\ session' = [session EXCEPT ![c] = Fresh(TRUE)]
    /\ UNCHANGED <<buffer, w, pushed, drawn, wire, logOns, orders>>

-----------------------------------------------------------------------------
(* The flows                                                               *)

\* A flow reports on an order that client c has sent, which may be logged out
\* by now.
PushBack_sz(c, k) ==
    /\ conn[c].known /\ orders < MaxOrders
    /\ orders' = orders + 1
    /\ pushed' = [pushed EXCEPT ![c] = Append(@, k)]
    /\ buffer' = [buffer EXCEPT ![c] = Append(@, [id |-> Len(pushed[c]) + 1, kind |-> k])]
    /\ UNCHANGED <<conn, w, drawn, wire, asked, session, logOns, syncs>>

-----------------------------------------------------------------------------
(* Send_SZReport                                                           *)

\* The next connection; after the last one the worker starts again.
NextConn == w' = At("test", IF w.c = NumConns THEN 1 ELSE w.c + 1)

\* Send_SZReport returns and is called again.
FirstConn == w' = At("test", 1)

\* Mutant of W_Test: who is not logged on ends the round.
W_Test_Break ==
    /\ w.pc = "test"
    /\ IF conn[w.c].logOn
       THEN w' = [w EXCEPT !.pc = IF conn[w.c].syn THEN "pop" ELSE "else"]
       ELSE FirstConn
    /\ UNCHANGED <<conn, buffer, hist, counters>>

W_Test ==
    /\ w.pc = "test"
    /\ w' = [w EXCEPT !.pc = IF Synchronised(w.c) THEN "pop" ELSE "else"]
    /\ UNCHANGED <<conn, buffer, hist, counters>>

\* The test whether the client is logged on but not synchronised reads the
\* index with GetRptIdex, which counts it up.
W_Else ==
    /\ w.pc = "else"
    /\ IF conn[w.c].logOn
       THEN w' = [w EXCEPT !.pc = "bump", !.num = conn[w.c].idx]
       ELSE NextConn
    /\ UNCHANGED <<conn, buffer, hist, counters>>

W_Bump ==
    /\ w.pc = "bump"
    /\ conn' = [conn EXCEPT ![w.c].idx = IF w.num < MaxIndex THEN w.num + 1 ELSE w.num]
    /\ NextConn
    /\ UNCHANGED <<buffer, hist, counters>>

FailsEarly(rep) == rep.kind = "early"
HasNothing(rep) == rep.kind = "silent"
FailsLate(rep) == rep.kind = "late"

\* ProcSingleReport and its like: a report that is not to be sent ends the
\* round, one that cannot be converted is lost and the round goes on.
Convert(rep) ==
    \/ FailsEarly(rep) /\ NextConn
    \/ HasNothing(rep) /\ FirstConn
    \/ ~FailsEarly(rep) /\ ~HasNothing(rep) /\ w' = [w EXCEPT !.pc = "draw", !.rep = rep]

\* Mutant of W_Pop: without a report it goes on to the other test.
W_Pop_FallsThrough ==
    /\ w.pc = "pop"
    /\ IF buffer[w.c] = <<>> THEN w' = [w EXCEPT !.pc = "else"] /\ UNCHANGED buffer
       ELSE /\ buffer' = [buffer EXCEPT ![w.c] = Tail(@)]
            /\ Convert(Head(buffer[w.c]))
    /\ session' = IF buffer[w.c] = <<>> \/ session[w.c].asks THEN session
                  ELSE [session EXCEPT ![w.c].unasked = @ + 1]
    /\ UNCHANGED <<conn, pushed, drawn, wire, asked, counters>>

\* PopFront_sz.
W_Pop ==
    /\ w.pc = "pop"
    /\ IF buffer[w.c] = <<>> THEN NextConn /\ UNCHANGED buffer
       ELSE /\ buffer' = [buffer EXCEPT ![w.c] = Tail(@)]
            /\ Convert(Head(buffer[w.c]))
    /\ session' = IF buffer[w.c] = <<>> \/ session[w.c].asks THEN session
                  ELSE [session EXCEPT ![w.c].unasked = @ + 1]
    /\ UNCHANGED <<conn, pushed, drawn, wire, asked, counters>>

\* GetRptIdex reads the index ...
W_Draw ==
    /\ w.pc = "draw"
    /\ w' = [w EXCEPT !.pc = "drawn", !.num = conn[w.c].idx]
    /\ drawn' = [drawn EXCEPT ![w.c] =
                   Append(@, [id |-> w.rep.id, num |-> conn[w.c].idx, syn |-> Len(asked[w.c])])]
    /\ UNCHANGED <<conn, buffer, pushed, wire, asked, session, counters>>

\* ... and writes it back; what the report lacks then is found now.
W_Drawn ==
    /\ w.pc = "drawn"
    /\ conn' = [conn EXCEPT ![w.c].idx = w.num + 1]
    /\ IF FailsLate(w.rep) THEN NextConn ELSE w' = [w EXCEPT !.pc = "send"]
    /\ UNCHANGED <<buffer, hist, counters>>

\* Mutant of W_Send: nothing is sent to a client that has logged out.
W_Send_LoggedOn ==
    /\ w.pc = "send"
    /\ wire' = IF conn[w.c].logOn THEN [wire EXCEPT ![w.c] = Append(@, w.rep.id)] ELSE wire
    /\ FirstConn
    /\ UNCHANGED <<conn, buffer, pushed, drawn, asked, session, counters>>

\* SendMsg, whoever is logged on by now.
W_Send ==
    /\ w.pc = "send"
    /\ wire' = [wire EXCEPT ![w.c] = Append(@, w.rep.id)]
    /\ FirstConn
    /\ UNCHANGED <<conn, buffer, pushed, drawn, asked, session, counters>>

Send_SZReport ==
    \/ W_Test \/ W_Else \/ W_Bump \/ W_Pop \/ W_Draw \/ W_Drawn \/ W_Send

-----------------------------------------------------------------------------
Next ==
    \/ \E c \in Conn :
         \/ ProcLogOn(c) \/ ProcLogOut(c)
         \/ \E ask \in Asks : ReportSynchronization(c, ask)
         \/ \E k \in Kinds : PushBack_sz(c, k)
    \/ Send_SZReport

Spec == Init /\ [][Next]_vars

\* The loop thread runs; nobody need order, log on, synchronise or stay.
FairSpec == Spec /\ WF_vars(Send_SZReport)

-----------------------------------------------------------------------------
TypeOK ==
    /\ conn \in [Conn -> [known : BOOLEAN, logOn : BOOLEAN, syn : BOOLEAN, idx : Nat]]
    /\ pushed \in [Conn -> Seq(Kinds)]
    /\ buffer \in [Conn -> Seq([id : Nat, kind : Kinds])]
    /\ w \in [pc : {"test", "else", "bump", "pop", "draw", "drawn", "send"}, c : Conn,
              rep : [id : Nat, kind : Kinds \cup {"none"}], num : Nat]
    /\ drawn \in [Conn -> Seq([id : Nat, num : Nat, syn : Nat])]
    /\ wire \in [Conn -> Seq(Nat)]
    /\ asked \in [Conn -> Seq([ask : Asks, raced : BOOLEAN])]
    /\ session \in [Conn -> [asks : BOOLEAN, unasked : Nat]]
    /\ logOns \in Nat /\ syncs \in Nat /\ orders \in Nat

\* How many of its reports have left the buffer; whether the worker still has
\* number i of them.
Popped(c) == Len(pushed[c]) - Len(buffer[c])
Held(c, i) == w.c = c /\ w.pc \in {"draw", "drawn", "send"} /\ w.rep.id = i

\* What a client sees are the good ones of its reports, each once and in the
\* order the flows pushed them, over log-outs between any two steps.
GoodOnesInOrder ==
    \A c \in Conn :
      /\ ToSet(wire[c]) = {i \in 1..Popped(c) : pushed[c][i] = "good" /\ ~Held(c, i)}
      /\ \A i, j \in DOMAIN wire[c] : i < j => wire[c][i] < wire[c][j]

\* After its log-on a client gets no report before it has asked for one, but
\* for the one the worker was busy with when the session was interrupted.
NoneUnasked == \A c \in Conn : session[c].unasked <= 1

ReportsAsPushed == TypeOK /\ GoodOnesInOrder /\ NoneUnasked

\* The first number after a synchronisation is the one asked for, unless the
\* message was handled while the worker had the index in its hands, and up to
\* the next synchronisation the numbers leave nothing out.
ReportNumbers ==
    \A c \in Conn : \A i \in DOMAIN drawn[c] :
      LET d == drawn[c][i]
          follows == i > 1 /\ drawn[c][i - 1].syn = d.syn
      IN  IF follows THEN d.num = drawn[c][i - 1].num + 1
          ELSE d.num = Last(asked[c][d.syn].ask) \/ asked[c][d.syn].raced

\* The worker is about to take a report of a client before c.  It then starts
\* again at the first client, so a stream of them that does not end would
\* keep it from c for ever.
BusyBefore(c) == w.c < c /\ w.pc = "pop" /\ buffer[w.c] # <<>>

\* The buffer of a client that stays synchronised is emptied, unless clients
\* before it have reports for ever: their log-ons, log-outs and empty
\* buffers, and whatever is wrong with their reports, hold up nobody.
ReportsHandled ==
    \A c \in Conn : []<>(~Synchronised(c) \/ buffer[c] = <<>> \/ BusyBefore(c))
=============================================================================
