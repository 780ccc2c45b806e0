---------------------------- MODULE SzConn_proofs ----------------------------
(***************************************************************************)
(* Proofs about the two market interfaces.  Shenzhen, SzConn: for every    *)
(* number of clients, whatever reports they get, whenever they log on,     *)
(* ask, log out and lose their connections.  Shanghai, ShConn, with the    *)
(* start of the gateway, SystemInit, it runs in: for every set of orders,  *)
(* rules, versions and parts, for every mode and number of restarts, and   *)
(* whatever fails.                                                         *)
(***************************************************************************)
EXTENDS SzConn, SystemInit, SumTheorems, SequenceTheorems, TLAPS

-----------------------------------------------------------------------------
(* The invariant.                                                          *)

\* The buffer of a client holds the last of the reports pushed for it.
BufferInv ==
    \A c \in Conn :
      /\ Len(buffer[c]) <= Len(pushed[c])
      /\ \A i \in 1..Len(buffer[c]) :
           /\ buffer[c][i].id = Popped(c) + i
           /\ buffer[c][i].kind = pushed[c][Popped(c) + i]

\* The worker has the last one that left the buffer; it sends good ones only.
HandInv ==
    w.pc \in {"draw", "drawn", "send"} =>
      /\ w.rep.id = Popped(w.c) /\ Popped(w.c) >= 1
      /\ w.rep.kind = pushed[w.c][Popped(w.c)]
      /\ w.rep.kind \in {"good", "late"}
      /\ w.pc = "send" => w.rep.kind = "good"

\* A client that has not asked since its log-on is not synchronised; a worker
\* that tested it before may still take one report.
SessionInv ==
    \A c \in Conn :
      /\ conn[c].syn => conn[c].logOn /\ session[c].asks
      /\ session[c].asks => session[c].unasked = 0
      /\ session[c].unasked <= 1
      /\ w.pc = "pop" /\ w.c = c /\ ~session[c].asks => session[c].unasked = 0

\* The number drawn last for client c, whether that was since its last
\* synchronisation, and whether the worker had the index in its hands then.
LastNum(c) == drawn[c][Len(drawn[c])].num
Current(c) == drawn[c] # <<>> /\ drawn[c][Len(drawn[c])].syn = Len(asked[c])
Raced(c) == asked[c][Len(asked[c])].raced

\* Every number is drawn under a synchronisation.
DrawnInv ==
    /\ \A c \in Conn :
         /\ \A i \in 1..Len(drawn[c]) : drawn[c][i].syn \in 1..Len(asked[c])
         /\ conn[c].syn => Len(asked[c]) >= 1
    /\ w.pc \in {"pop", "draw", "drawn", "send"} => Len(asked[w.c]) >= 1

\* The index of client c is the number its next report must have.
IndexRight(c) ==
    IF Current(c) THEN conn[c].idx = LastNum(c) + 1
    ELSE conn[c].idx = Last(asked[c][Len(asked[c])].ask) \/ Raced(c)

\* It is so whenever the worker may read it for a report; a synchronisation
\* while the worker has the index in its hands is raced.
IndexInv ==
    \A c \in Conn :
      /\ conn[c].syn /\ ~InHands(c) => IndexRight(c)
      /\ w.c = c /\ w.pc \in {"pop", "draw"} => IndexRight(c)
      /\ conn[c].syn /\ w.c = c /\ w.pc \in {"else", "bump"} => Raced(c) /\ ~Current(c)
      /\ w.c = c /\ w.pc = "drawn" =>
           /\ drawn[c] # <<>> /\ LastNum(c) = w.num
           /\ ~Current(c) => Raced(c)

SzInv ==
    /\ TypeOK /\ BufferInv /\ HandInv /\ GoodOnesInOrder /\ SessionInv
    /\ DrawnInv /\ IndexInv /\ ReportNumbers

-----------------------------------------------------------------------------
(* Types.                                                                  *)

ConnType == [known : BOOLEAN, logOn : BOOLEAN, syn : BOOLEAN, idx : Nat]
SessionType == [asks : BOOLEAN, unasked : Nat]
ReportType == [id : Nat, kind : Kinds]
HandType == [pc : {"test", "else", "bump", "pop", "draw", "drawn", "send"}, c : Conn,
             rep : [id : Nat, kind : Kinds \cup {"none"}], num : Nat]

\* Where the worker goes next.
LEMMA AtTyped == \A c \in Conn : At("test", c) \in HandType
BY DEF At, HandType

\* Going on to the next connection, or back to the first.
LEMMA NextTyped ==
    ASSUME TypeOK
    PROVE  /\ NextConn => w' \in HandType /\ w'.pc = "test"
           /\ FirstConn => w' \in HandType /\ w'.pc = "test"
<1>1. w.c \in Conn /\ NumConns \in Nat \ {0}
  BY SzConnAssumption DEF TypeOK
<1>2. (IF w.c = NumConns THEN 1 ELSE w.c + 1) \in Conn /\ 1 \in Conn
  BY <1>1 DEF Conn
<1> QED  BY <1>2, AtTyped DEF NextConn, FirstConn, At

\* The index a client asks for.
LEMMA AskIsNat == \A ask \in Asks : IndexOf(ask) \in Nat /\ Last(ask) = IndexOf(ask)
<1> SUFFICES ASSUME NEW ask \in Asks PROVE IndexOf(ask) \in Nat
  BY DEF IndexOf
<1>1. ask \in Seq(Nat) /\ ask # <<>>
  BY SzConnAssumption
<1> QED  BY <1>1 DEF IndexOf, Last

\* The interface starts well typed.
LEMMA InitTyped == Init => TypeOK
<1> SUFFICES ASSUME Init PROVE TypeOK
  OBVIOUS
<1>1. 1 \in Conn
  BY SzConnAssumption DEF Conn
<1>2. w \in HandType
  BY <1>1, AtTyped DEF Init
<1> QED  BY <1>2 DEF Init, TypeOK, HandType, Fresh

\* A step of a session or of a flow keeps the types.
LEMMA ClientTyped ==
    ASSUME TypeOK, NEW c \in Conn,
           \/ ProcLogOn(c) \/ ProcLogOut(c)
           \/ \E ask \in Asks : ReportSynchronization(c, ask)
           \/ \E k \in Kinds : PushBack_sz(c, k)
    PROVE  TypeOK'
<1>0. /\ conn \in [Conn -> ConnType] /\ session \in [Conn -> SessionType]
      /\ conn[c] \in ConnType /\ Fresh(FALSE) \in SessionType /\ Fresh(TRUE) \in SessionType
      /\ logOns + 1 \in Nat /\ syncs + 1 \in Nat /\ orders + 1 \in Nat
  <2>1. conn \in [Conn -> ConnType] /\ session \in [Conn -> SessionType]
    BY DEF TypeOK, ConnType, SessionType
  <2>2. conn[c] \in ConnType
    BY <2>1
  <2>3. Fresh(FALSE) \in SessionType /\ Fresh(TRUE) \in SessionType
    BY DEF SessionType, Fresh
  <2>4. logOns + 1 \in Nat /\ syncs + 1 \in Nat /\ orders + 1 \in Nat
    BY DEF TypeOK
  <2> QED  BY <2>1, <2>2, <2>3, <2>4
<1>1. CASE ProcLogOn(c)
  <2>1. conn' \in [Conn -> ConnType]
    <3>1. [conn[c] EXCEPT !.known = TRUE, !.logOn = TRUE] \in ConnType
      BY <1>0 DEF ConnType
    <3>2. conn' = [conn EXCEPT ![c] = [conn[c] EXCEPT !.known = TRUE, !.logOn = TRUE]]
      BY <1>0, <1>1 DEF ProcLogOn
    <3> QED  BY <1>0, <3>1, <3>2
  <2>2. session' \in [Conn -> SessionType]
    BY <1>0, <1>1 DEF ProcLogOn
  <2> QED  BY <1>0, <1>1, <2>1, <2>2 DEF ProcLogOn, TypeOK, ConnType, SessionType
<1>2. CASE ProcLogOut(c)
  <2>1. conn' \in [Conn -> ConnType]
    BY <1>0, <1>2 DEF ProcLogOut, LoggedOut, ConnType
  <2>2. session' \in [Conn -> SessionType]
    BY <1>0, <1>2 DEF ProcLogOut
  <2> QED  BY <1>2, <2>1, <2>2 DEF ProcLogOut, counters, TypeOK, ConnType, SessionType
<1>3. ASSUME NEW ask \in Asks, ReportSynchronization(c, ask) PROVE TypeOK'
  <2>1. conn' \in [Conn -> ConnType]
    <3>1. [conn[c] EXCEPT !.idx = IndexOf(ask), !.syn = TRUE] \in ConnType
      BY <1>0, AskIsNat DEF ConnType
    <3>2. conn' = [conn EXCEPT ![c] = [conn[c] EXCEPT !.idx = IndexOf(ask), !.syn = TRUE]]
      BY <1>0, <1>3 DEF ReportSynchronization
    <3> QED  BY <1>0, <3>1, <3>2
  <2>2. asked' \in [Conn -> Seq([ask : Asks, raced : BOOLEAN])]
    <3>1. InHands(c) \in BOOLEAN
      BY DEF InHands
    <3>2. [ask |-> ask, raced |-> InHands(c)] \in [ask : Asks, raced : BOOLEAN]
      BY <3>1
    <3>3. Append(asked[c], [ask |-> ask, raced |-> InHands(c)])
            \in Seq([ask : Asks, raced : BOOLEAN])
      <4>1. asked[c] \in Seq([ask : Asks, raced : BOOLEAN])
        BY DEF TypeOK
      <4> QED  BY <3>2, <4>1
    <3> QED  BY <1>3, <3>3 DEF ReportSynchronization, TypeOK
  <2>3. session' \in [Conn -> SessionType]
    BY <1>0, <1>3 DEF ReportSynchronization
  <2> QED  BY <1>0, <1>3, <2>1, <2>2, <2>3 DEF ReportSynchronization, TypeOK, ConnType, SessionType
<1>4. ASSUME NEW k \in Kinds, PushBack_sz(c, k) PROVE TypeOK'
  <2>1. /\ [id |-> Len(pushed[c]) + 1, kind |-> k] \in ReportType
        /\ pushed[c] \in Seq(Kinds) /\ buffer[c] \in Seq(ReportType)
    <3>1. pushed[c] \in Seq(Kinds) /\ buffer[c] \in Seq(ReportType)
      BY DEF TypeOK, ReportType
    <3>2. Len(pushed[c]) + 1 \in Nat
      BY <3>1
    <3> QED  BY <3>1, <3>2 DEF ReportType
  <2>2. buffer' \in [Conn -> Seq(ReportType)]
    <3>1. Append(buffer[c], [id |-> Len(pushed[c]) + 1, kind |-> k]) \in Seq(ReportType)
      BY <2>1
    <3> QED  BY <1>4, <3>1 DEF PushBack_sz, TypeOK, ReportType
  <2>3. pushed' \in [Conn -> Seq(Kinds)]
    <3>1. Append(pushed[c], k) \in Seq(Kinds)
      BY <2>1
    <3> QED  BY <1>4, <3>1 DEF PushBack_sz, TypeOK
  <2> QED  BY <1>0, <1>4, <2>2, <2>3 DEF PushBack_sz, TypeOK, ReportType
<1> QED  BY <1>1, <1>2, <1>3, <1>4

\* A step of the worker keeps the types.
LEMMA WorkerTyped == ASSUME TypeOK, Send_SZReport PROVE TypeOK'
<1>0. /\ w.c \in Conn /\ w.num \in Nat /\ w \in HandType
      /\ conn \in [Conn -> ConnType] /\ session \in [Conn -> SessionType]
      /\ buffer \in [Conn -> Seq(ReportType)]
  BY DEF TypeOK, HandType, ConnType, SessionType, ReportType
<1>a. NextConn \/ FirstConn => w' \in HandType
  BY NextTyped
<1>1. CASE W_Test
  <2>1. w' \in HandType
    BY <1>0, <1>1 DEF W_Test, HandType
  <2> QED  BY <1>1, <2>1 DEF W_Test, hist, counters, TypeOK, HandType
<1>2. CASE W_Else
  <2>1. w' \in HandType
    BY <1>a, <1>0, <1>2 DEF W_Else, HandType, ConnType
  <2> QED  BY <1>2, <2>1 DEF W_Else, TypeOK, HandType, hist, counters
<1>b. ASSUME NEW i \in Nat, conn' = [conn EXCEPT ![w.c].idx = i] PROVE conn' \in [Conn -> ConnType]
  <2>1. conn' = [conn EXCEPT ![w.c] = [conn[w.c] EXCEPT !.idx = i]]
    BY <1>0, <1>b
  <2>2. [conn[w.c] EXCEPT !.idx = i] \in ConnType
    BY <1>0 DEF ConnType
  <2> QED  BY <1>0, <2>1, <2>2
<1>3. CASE W_Bump
  <2>1. w' \in HandType
    BY <1>a, <1>3 DEF W_Bump
  <2>2. (IF w.num < MaxIndex THEN w.num + 1 ELSE w.num) \in Nat
    BY <1>0
  <2>3. conn' \in [Conn -> ConnType]
    BY <1>b, <1>3, <2>2 DEF W_Bump
  <2> QED  BY <1>3, <2>1, <2>3 DEF W_Bump, TypeOK, HandType, ConnType, hist, counters
<1>4. CASE W_Pop
  <2>1. CASE buffer[w.c] = <<>>
    <3>1. w' \in HandType /\ UNCHANGED <<buffer, session>>
      BY <1>a, <1>4, <2>1 DEF W_Pop
    <3> QED  BY <1>4, <3>1 DEF W_Pop, TypeOK, HandType, counters
  <2>2. CASE buffer[w.c] # <<>>
    <3>1. /\ Head(buffer[w.c]) \in ReportType /\ Tail(buffer[w.c]) \in Seq(ReportType)
      <4>1. buffer[w.c] \in Seq(ReportType)
        BY <1>0
      <4> QED  BY <2>2, <4>1
    <3>2. w' \in HandType
      <4>1. [w EXCEPT !.pc = "draw", !.rep = Head(buffer[w.c])] \in HandType
        BY <1>0, <3>1 DEF HandType, ReportType
      <4> QED  BY <1>a, <1>4, <2>2, <4>1 DEF W_Pop, Convert
    <3>3. buffer' \in [Conn -> Seq(ReportType)]
      BY <1>0, <1>4, <2>2, <3>1 DEF W_Pop
    <3>4. session' \in [Conn -> SessionType]
      <4>1. [session[w.c] EXCEPT !.unasked = @ + 1] \in SessionType
        <5>1. session[w.c] \in SessionType
          BY <1>0
        <5> QED  BY <5>1 DEF SessionType
      <4>2. session' = session \/ session' = [session EXCEPT ![w.c] = [session[w.c] EXCEPT !.unasked = @ + 1]]
        BY <1>0, <1>4 DEF W_Pop
      <4> QED  BY <1>0, <4>1, <4>2
    <3> QED  BY <1>4, <3>2, <3>3, <3>4 DEF W_Pop, TypeOK, HandType, ReportType, SessionType, counters
  <2> QED  BY <2>1, <2>2
<1>5. CASE W_Draw
  <2>1. w.rep.id \in Nat /\ conn[w.c].idx \in Nat /\ Len(asked[w.c]) \in Nat
    BY <1>0 DEF TypeOK
  <2>2. [id |-> w.rep.id, num |-> conn[w.c].idx, syn |-> Len(asked[w.c])]
          \in [id : Nat, num : Nat, syn : Nat]
    BY <2>1
  <2>3. drawn' \in [Conn -> Seq([id : Nat, num : Nat, syn : Nat])]
    BY <1>5, <2>2 DEF W_Draw, TypeOK
  <2>4. w' \in HandType
    BY <1>0, <1>5, <2>1 DEF W_Draw, HandType
  <2> QED  BY <1>5, <2>3, <2>4 DEF W_Draw, TypeOK, HandType, counters
<1>6. CASE W_Drawn
  <2>1. w' \in HandType
    BY <1>a, <1>0, <1>6 DEF W_Drawn, HandType
  <2>2. conn' \in [Conn -> ConnType]
    <3>1. w.num + 1 \in Nat
      BY <1>0
    <3> QED  BY <1>b, <1>6, <3>1 DEF W_Drawn
  <2> QED  BY <1>6, <2>1, <2>2 DEF W_Drawn, TypeOK, HandType, ConnType, hist, counters
<1>7. CASE W_Send
  <2>1. w' \in HandType
    BY <1>a, <1>7 DEF W_Send
  <2>2. wire' \in [Conn -> Seq(Nat)]
    <3>1. w.rep.id \in Nat /\ wire \in [Conn -> Seq(Nat)]
      BY DEF TypeOK
    <3>2. Append(wire[w.c], w.rep.id) \in Seq(Nat)
      BY <1>0, <3>1
    <3> QED  BY <1>7, <3>1, <3>2 DEF W_Send
  <2> QED  BY <1>7, <2>1, <2>2 DEF W_Send, TypeOK, HandType, counters
<1> QED  BY <1>1, <1>2, <1>3, <1>4, <1>5, <1>6, <1>7 DEF Send_SZReport

\* Every step keeps the types.
LEMMA StepTyped == TypeOK /\ [Next]_vars => TypeOK'
<1>1. TypeOK /\ UNCHANGED vars => TypeOK'
  BY DEF TypeOK, vars, hist, counters
<1> QED  BY <1>1, ClientTyped, WorkerTyped DEF Next

-----------------------------------------------------------------------------
(* What the clients see.                                                   *)

ReportsInv == BufferInv /\ HandInv /\ GoodOnesInOrder

\* A step that moves no report.
LEMMA SameReports ==
    ASSUME TypeOK, ReportsInv, UNCHANGED <<buffer, pushed, wire>>,
           w'.pc \in {"draw", "drawn", "send"} \/ w.pc \in {"draw", "drawn", "send"} =>
              /\ w'.c = w.c /\ w'.rep = w.rep
              /\ w'.pc = "send" => w.rep.kind = "good"
              /\ w.pc \in {"draw", "drawn", "send"} /\ w'.pc \in {"draw", "drawn", "send"}
    PROVE  ReportsInv'
<1>1. BufferInv'
  BY DEF ReportsInv, BufferInv, Popped
<1>2. HandInv'
  BY DEF ReportsInv, HandInv, Popped
<1>3. \A c \in Conn, i \in Nat : Held(c, i)' <=> Held(c, i)
  BY DEF Held
<1>4. \A c \in Conn : {i \in 1..Popped(c)' : pushed'[c][i] = "good" /\ ~Held(c, i)'}
                       = {i \in 1..Popped(c) : pushed[c][i] = "good" /\ ~Held(c, i)}
  <2>1. \A c \in Conn : Popped(c) \in Int /\ Popped(c)' = Popped(c)
    BY DEF Popped, TypeOK
  <2> QED  BY <1>3, <2>1
<1> QED  BY <1>1, <1>2, <1>4 DEF ReportsInv, GoodOnesInOrder

\* The lengths of the sequences of a client.
LEMMA Lengths ==
    ASSUME TypeOK, NEW c \in Conn
    PROVE  /\ pushed[c] \in Seq(Kinds) /\ buffer[c] \in Seq(ReportType) /\ wire[c] \in Seq(Nat)
           /\ Len(pushed[c]) \in Nat /\ Len(buffer[c]) \in Nat /\ Popped(c) \in Int
<1>1. pushed[c] \in Seq(Kinds) /\ buffer[c] \in Seq(ReportType) /\ wire[c] \in Seq(Nat)
  BY DEF TypeOK, ReportType
<1> QED  BY <1>1 DEF Popped

\* A flow pushes a report.
LEMMA PushReports ==
    ASSUME TypeOK, ReportsInv, NEW c \in Conn, NEW k \in Kinds, PushBack_sz(c, k)
    PROVE  ReportsInv'
<1> DEFINE new == [id |-> Len(pushed[c]) + 1, kind |-> k]
<1>0. /\ pushed' = [pushed EXCEPT ![c] = Append(@, k)]
      /\ buffer' = [buffer EXCEPT ![c] = Append(@, new)]
      /\ w' = w /\ wire' = wire
      /\ pushed \in [Conn -> Seq(Kinds)] /\ buffer \in [Conn -> Seq(ReportType)]
  BY DEF PushBack_sz, TypeOK, ReportType
<1>1. /\ pushed'[c] = Append(pushed[c], k) /\ buffer'[c] = Append(buffer[c], new)
      /\ \A d \in Conn : d # c => pushed'[d] = pushed[d] /\ buffer'[d] = buffer[d]
  BY <1>0
<1>2. /\ Len(pushed'[c]) = Len(pushed[c]) + 1 /\ Len(buffer'[c]) = Len(buffer[c]) + 1
      /\ \A i \in 1..Len(pushed[c]) : pushed'[c][i] = pushed[c][i]
      /\ pushed'[c][Len(pushed[c]) + 1] = k
      /\ \A i \in 1..Len(buffer[c]) : buffer'[c][i] = buffer[c][i]
      /\ buffer'[c][Len(buffer[c]) + 1] = new
  BY <1>1, Lengths
<1>3. \A d \in Conn : /\ Popped(d)' = Popped(d) /\ Popped(d) \in Nat
                      /\ Popped(d) <= Len(pushed[d])
  <2>1. ASSUME NEW d \in Conn PROVE Popped(d)' = Popped(d)
    <3>1. CASE d = c
      <4>1. Len(pushed[c]) \in Nat /\ Len(buffer[c]) \in Nat
        BY Lengths
      <4>2. /\ Popped(c)' = (Len(pushed[c]) + 1) - (Len(buffer[c]) + 1)
            /\ Popped(c) = Len(pushed[c]) - Len(buffer[c])
        BY <1>2 DEF Popped
      <4> QED  BY <3>1, <4>1, <4>2
    <3>2. CASE d # c
      BY <1>1, <3>2 DEF Popped
    <3> QED  BY <3>1, <3>2
  <2>2. ASSUME NEW d \in Conn PROVE Popped(d) \in Nat /\ Popped(d) <= Len(pushed[d])
    <3>1. Len(buffer[d]) <= Len(pushed[d])
      BY DEF ReportsInv, BufferInv
    <3> QED  BY <1>0, <3>1 DEF Popped
  <2> QED  BY <2>1, <2>2
<1>4. \A d \in Conn : \A i \in 1..Popped(d) : pushed'[d][i] = pushed[d][i]
  <2> SUFFICES ASSUME NEW d \in Conn, NEW i \in 1..Popped(d) PROVE pushed'[d][i] = pushed[d][i]
    OBVIOUS
  <2>1. i \in 1..Len(pushed[d])
    BY <1>3, Lengths
  <2> QED  BY <1>1, <1>2, <2>1
<1>5. BufferInv'
  <2> SUFFICES ASSUME NEW d \in Conn
               PROVE  /\ Len(buffer'[d]) <= Len(pushed'[d])
                      /\ \A i \in 1..Len(buffer'[d]) :
                           /\ buffer'[d][i].id = Popped(d)' + i
                           /\ buffer'[d][i].kind = pushed'[d][Popped(d)' + i]
    BY DEF BufferInv
  <2>0. /\ Len(buffer[d]) <= Len(pushed[d])
        /\ \A i \in 1..Len(buffer[d]) : /\ buffer[d][i].id = Popped(d) + i
                                        /\ buffer[d][i].kind = pushed[d][Popped(d) + i]
    BY DEF ReportsInv, BufferInv
  <2>1. CASE d # c
    BY <1>1, <1>3, <2>0, <2>1
  <2>2. CASE d = c
    <3>1. Len(buffer'[d]) <= Len(pushed'[d])
      BY <1>2, <2>0, <2>2, Lengths
    <3>2. ASSUME NEW i \in 1..Len(buffer[d])
          PROVE  buffer'[d][i].id = Popped(d)' + i /\ buffer'[d][i].kind = pushed'[d][Popped(d)' + i]
      <4>1. Popped(d) + i \in 1..Len(pushed[d])
        BY <1>0, <1>3, <2>0 DEF Popped
      <4>2. buffer'[d][i] = buffer[d][i] /\ pushed'[d][Popped(d) + i] = pushed[d][Popped(d) + i]
        BY <1>2, <2>2, <4>1
      <4> QED  BY <1>3, <2>0, <4>2
    <3>3. /\ Popped(d) + (Len(buffer[d]) + 1) = Len(pushed[d]) + 1
          /\ new.id = Len(pushed[d]) + 1 /\ new.kind = k
      BY <1>0, <2>2 DEF Popped
    <3>4. \A i \in 1..Len(buffer'[d]) : i \in 1..Len(buffer[d]) \/ i = Len(buffer[d]) + 1
      BY <1>2, <2>2, Lengths
    <3> HIDE DEF new
    <3> QED  BY <1>2, <1>3, <2>2, <3>1, <3>2, <3>3, <3>4
  <2> QED  BY <2>1, <2>2
<1>6. HandInv'
  <2> SUFFICES ASSUME w.pc \in {"draw", "drawn", "send"} PROVE HandInv'
    BY <1>0 DEF HandInv
  <2>1. w.c \in Conn /\ Popped(w.c) >= 1 /\ w.rep.kind = pushed[w.c][Popped(w.c)]
    BY DEF ReportsInv, HandInv, TypeOK
  <2>2. pushed'[w.c][Popped(w.c)] = pushed[w.c][Popped(w.c)] /\ Popped(w.c)' = Popped(w.c)
    BY <1>0, <1>3, <1>4, <2>1
  <2> QED  BY <1>0, <2>1, <2>2 DEF ReportsInv, HandInv
<1>7. GoodOnesInOrder'
  <2>1. ASSUME NEW d \in Conn
        PROVE  {i \in 1..Popped(d)' : pushed'[d][i] = "good" /\ ~Held(d, i)'}
                 = {i \in 1..Popped(d) : pushed[d][i] = "good" /\ ~Held(d, i)}
    BY <1>0, <1>3, <1>4 DEF Held
  <2> QED  BY <1>0, <2>1 DEF ReportsInv, GoodOnesInOrder
<1> QED  BY <1>5, <1>6, <1>7 DEF ReportsInv

\* The worker takes a report.
LEMMA PopReports == ASSUME TypeOK, TypeOK', ReportsInv, W_Pop PROVE ReportsInv'
<1>1. CASE buffer[w.c] = <<>>
  BY <1>1, NextTyped, SameReports DEF W_Pop
<1>2. CASE buffer[w.c] # <<>>
  <2>a. PICK c \in Conn : c = w.c
    BY DEF TypeOK
  <2>b. PICK t \in ReportType : t = Head(buffer[c])
    <3>1. buffer \in [Conn -> Seq(ReportType)]
      BY DEF TypeOK, ReportType
    <3> QED  BY <1>2, <2>a, <3>1
  <2>0. /\ c = w.c /\ buffer' = [buffer EXCEPT ![c] = Tail(@)] /\ w.pc = "pop"
        /\ Convert(t) /\ pushed' = pushed /\ wire' = wire
        /\ buffer \in [Conn -> Seq(ReportType)]
    BY <1>2, <2>a, <2>b DEF W_Pop, TypeOK, ReportType
  <2>1. /\ buffer'[c] = Tail(buffer[c]) /\ buffer[c] \in Seq(ReportType)
        /\ \A d \in Conn : d # c => buffer'[d] = buffer[d]
    BY <2>0
  <2>2. /\ Len(buffer'[c]) = Len(buffer[c]) - 1 /\ Len(buffer[c]) >= 1
        /\ \A i \in 1..Len(buffer'[c]) : buffer'[c][i] = buffer[c][i + 1]
        /\ t = buffer[c][1] /\ t \in ReportType
    BY <1>2, <2>0, <2>1, <2>b
  <2>3. /\ Popped(c)' = Popped(c) + 1 /\ Popped(c) \in Nat /\ Popped(c) + 1 <= Len(pushed[c])
        /\ \A d \in Conn : d # c => Popped(d)' = Popped(d)
    <3>1. Len(buffer[c]) <= Len(pushed[c])
      BY <2>0 DEF ReportsInv, BufferInv
    <3>2. Len(pushed[c]) \in Nat /\ Len(buffer[c]) \in Nat
      BY <2>0, Lengths
    <3>3. Popped(c)' = Len(pushed[c]) - Len(buffer'[c])
      BY <2>0 DEF Popped
    <3>4. Popped(c) = Len(pushed[c]) - Len(buffer[c])
      BY DEF Popped
    <3>5. \A d \in Conn : d # c => Popped(d)' = Popped(d)
      BY <2>0, <2>1 DEF Popped
    <3> QED  BY <2>2, <3>1, <3>2, <3>3, <3>4, <3>5
  <2>c. PICK n \in Nat : n = Popped(c)
    BY <2>3
  <2>4. t.id = n + 1 /\ t.kind = pushed[c][n + 1]
    BY <2>0, <2>2, <2>c DEF ReportsInv, BufferInv
  <2>5. \/ w'.pc = "test" /\ t.kind \in {"early", "silent"}
        \/ w'.pc = "draw" /\ w'.rep = t /\ w'.c = c /\ t.kind \in {"good", "late"}
    <3>1. t.kind \in {"good", "late", "early", "silent"}
      BY <2>2, SzConnAssumption DEF ReportType
    <3>2. w \in HandType
      BY DEF TypeOK, HandType
    <3> QED  BY <2>0, <3>1, <3>2, NextTyped DEF Convert, FailsEarly, HasNothing, HandType
  <2>6. BufferInv'
    <3> SUFFICES ASSUME NEW d \in Conn
                 PROVE  /\ Len(buffer'[d]) <= Len(pushed[d])
                        /\ \A i \in 1..Len(buffer'[d]) :
                             /\ buffer'[d][i].id = Popped(d)' + i
                             /\ buffer'[d][i].kind = pushed[d][Popped(d)' + i]
      BY <2>0 DEF BufferInv
    <3>0. /\ Len(buffer[d]) <= Len(pushed[d])
          /\ \A i \in 1..Len(buffer[d]) : /\ buffer[d][i].id = Popped(d) + i
                                          /\ buffer[d][i].kind = pushed[d][Popped(d) + i]
      BY DEF ReportsInv, BufferInv
    <3>1. CASE d # c
      BY <2>1, <2>3, <3>0, <3>1
    <3>2. CASE d = c
      <4>1. ASSUME NEW i \in 1..Len(buffer'[c])
            PROVE  i + 1 \in 1..Len(buffer[c]) /\ Popped(c) + (i + 1) = Popped(c)' + i
        <5>1. buffer[c] \in Seq(ReportType) /\ buffer'[c] \in Seq(ReportType)
          BY <2>1, <2>2
        <5>2. i \in Nat /\ i >= 1 /\ i + 1 <= Len(buffer[c])
          BY <2>2, <5>1
        <5> QED  BY <2>3, <5>1, <5>2
      <4>2. Len(buffer'[c]) <= Len(pushed[c])
        <5>1. Len(buffer[c]) \in Nat /\ Len(pushed[c]) \in Nat
          BY <2>0, Lengths
        <5> QED  BY <2>2, <3>0, <3>2, <5>1
      <4>3. ASSUME NEW i \in 1..Len(buffer'[c])
            PROVE  /\ buffer'[c][i].id = Popped(c)' + i
                   /\ buffer'[c][i].kind = pushed[c][Popped(c)' + i]
        BY SMTT(30), <2>2, <3>0, <3>2, <4>1
      <4>4. pushed' = pushed
        BY <2>0
      <4> QED  BY <3>2, <4>2, <4>3, <4>4
    <3> QED  BY <3>1, <3>2
  <2>7. HandInv'
    <3> SUFFICES ASSUME w'.pc \in {"draw", "drawn", "send"} PROVE HandInv'
      BY DEF HandInv
    <3>1. w'.pc = "draw" /\ w'.rep = t /\ w'.c = c /\ t.kind \in {"good", "late"}
      BY <2>5
    <3>2. Len(pushed'[c]) - Len(buffer'[c]) = n + 1 /\ n + 1 >= 1
      <4>1. Popped(c)' = n + 1
        BY <2>3, <2>c
      <4>2. Popped(c)' = Len(pushed'[c]) - Len(buffer'[c])
        BY DEF Popped
      <4>3. n + 1 >= 1
        OBVIOUS
      <4> QED  BY <4>1, <4>2, <4>3
    <3>3. w'.rep.id = n + 1 /\ w'.rep.kind = pushed'[w'.c][n + 1]
      BY <2>0, <2>4, <3>1
    <3> QED  BY <3>1, <3>2, <3>3 DEF HandInv, Popped
  <2>8. ASSUME NEW d \in Conn
        PROVE  {i \in 1..Popped(d)' : pushed[d][i] = "good" /\ ~Held(d, i)'}
                 = {i \in 1..Popped(d) : pushed[d][i] = "good" /\ ~Held(d, i)}
    <3>1. \A i \in Nat : ~Held(d, i)
      BY <2>0 DEF Held
    <3>2. CASE d # c
      BY <2>3, <2>5, <3>1, <3>2 DEF Held
    <3>3. CASE d = c
      <4>1. \A i \in 1..n : ~Held(c, i)'
        BY <2>4, <2>5 DEF Held
      <4>2. ~(pushed[c][n + 1] = "good" /\ ~Held(c, n + 1)')
        <5>1. CASE w'.pc = "test" /\ t.kind \in {"early", "silent"}
          BY <2>4, <5>1
        <5>2. CASE w'.pc = "draw" /\ w'.rep = t /\ w'.c = c
          BY <2>4, <5>2 DEF Held
        <5> QED  BY <2>5, <5>1, <5>2
      <4>3. Popped(d)' = n + 1 /\ Popped(d) = n
        BY <2>3, <2>c, <3>3
      <4>4. /\ \A i \in 1..n + 1 : i \in 1..n \/ i = n + 1
            /\ \A i \in 1..n : i \in 1..n + 1 /\ i \in Nat
        OBVIOUS
      <4>5. ASSUME NEW i
            PROVE  i \in 1..Popped(d)' /\ pushed[d][i] = "good" /\ ~Held(d, i)'
                     <=> i \in 1..Popped(d) /\ pushed[d][i] = "good" /\ ~Held(d, i)
        BY <3>1, <3>3, <4>1, <4>2, <4>3, <4>4
      <4> QED  BY <4>5
    <3> QED  BY <3>2, <3>3
  <2>9. GoodOnesInOrder'
    BY <2>0, <2>8 DEF ReportsInv, GoodOnesInOrder
  <2> QED  BY <2>6, <2>7, <2>9 DEF ReportsInv
<1> QED  BY <1>1, <1>2

\* The worker finds that the report lacks something, or goes on to send it.
LEMMA DrawnReports == ASSUME TypeOK, ReportsInv, W_Drawn PROVE ReportsInv'
<1>0. /\ w.pc = "drawn" /\ w.c \in Conn /\ UNCHANGED <<buffer, pushed, wire>>
      /\ w.rep.kind \in {"good", "late"} /\ w.rep.kind = pushed[w.c][w.rep.id]
  BY DEF W_Drawn, hist, TypeOK, ReportsInv, HandInv
<1>1. CASE w.rep.kind = "late"
  <2>1. w'.pc = "test"
    BY <1>1, NextTyped DEF W_Drawn, FailsLate
  <2>2. ReportsInv' <=> BufferInv' /\ HandInv' /\ GoodOnesInOrder'
    BY DEF ReportsInv
  <2>3. BufferInv' /\ HandInv'
    BY <1>0, <2>1 DEF ReportsInv, BufferInv, HandInv, Popped
  <2>4. ASSUME NEW c \in Conn
        PROVE  {i \in 1..Popped(c)' : pushed'[c][i] = "good" /\ ~Held(c, i)'}
                 = {i \in 1..Popped(c) : pushed[c][i] = "good" /\ ~Held(c, i)}
    <3>1. Popped(c)' = Popped(c)
      BY <1>0 DEF Popped
    <3>2. \A i : ~Held(c, i)'
      BY <2>1 DEF Held
    <3>3. \A i : Held(c, i) => pushed[c][i] # "good"
      BY <1>0, <1>1 DEF Held
    <3> QED  BY <1>0, <3>1, <3>2, <3>3
  <2>5. GoodOnesInOrder'
    BY <1>0, <2>4 DEF ReportsInv, GoodOnesInOrder
  <2> QED  BY <2>2, <2>3, <2>5
<1>2. CASE w.rep.kind # "late"
  <2>1. w'.pc = "send" /\ w'.c = w.c /\ w'.rep = w.rep
    <3>1. w \in HandType
      BY DEF TypeOK, HandType
    <3>2. w' = [w EXCEPT !.pc = "send"]
      BY <1>2 DEF W_Drawn, FailsLate
    <3> QED  BY <3>1, <3>2 DEF HandType
  <2> QED  BY <1>0, <1>2, <2>1, SameReports
<1> QED  BY <1>1, <1>2

\* The good report the worker has is sent.
LEMMA SendReports == ASSUME TypeOK, ReportsInv, W_Send PROVE ReportsInv'
<1>a. PICK c \in Conn : c = w.c
  BY DEF TypeOK
<1>b. PICK n \in Nat : n = w.rep.id
  BY DEF TypeOK
<1>0. /\ w.pc = "send" /\ w'.pc = "test" /\ UNCHANGED <<buffer, pushed>>
      /\ wire' = [wire EXCEPT ![c] = Append(@, n)] /\ wire \in [Conn -> Seq(Nat)]
      /\ n = Popped(c) /\ n >= 1 /\ pushed[c][n] = "good"
  BY <1>a, <1>b, NextTyped DEF W_Send, TypeOK, ReportsInv, HandInv
<1>1. BufferInv' /\ HandInv' /\ \A d \in Conn : Popped(d)' = Popped(d)
  BY <1>0 DEF ReportsInv, BufferInv, HandInv, Popped
<1>2. \A d \in Conn : \A i : Held(d, i)' = FALSE /\ (Held(d, i) <=> d = c /\ i = n)
  BY <1>0, <1>a, <1>b DEF Held
<1>3. ASSUME NEW d \in Conn
      PROVE  /\ ToSet(wire'[d]) = {i \in 1..Popped(d)' : pushed'[d][i] = "good" /\ ~Held(d, i)'}
             /\ \A i, j \in DOMAIN wire'[d] : i < j => wire'[d][i] < wire'[d][j]
  <2>0. /\ ToSet(wire[d]) = {i \in 1..Popped(d) : pushed[d][i] = "good" /\ ~Held(d, i)}
        /\ \A i, j \in DOMAIN wire[d] : i < j => wire[d][i] < wire[d][j]
    BY DEF ReportsInv, GoodOnesInOrder
  <2>1. CASE d # c
    <3>1. wire'[d] = wire[d]
      BY <1>0, <2>1
    <3> QED  BY <1>0, <1>1, <1>2, <2>0, <2>1, <3>1
  <2>2. CASE d = c
    <3>1. PICK s \in Seq(Nat) : s = wire[c]
      BY <1>0
    <3>2. wire'[d] = Append(s, n)
      BY <1>0, <2>2, <3>1
    <3>3. /\ Len(s) \in Nat /\ DOMAIN s = 1..Len(s) /\ DOMAIN Append(s, n) = 1..Len(s) + 1
          /\ \A i \in 1..Len(s) : Append(s, n)[i] = s[i]
          /\ Append(s, n)[Len(s) + 1] = n
      OBVIOUS
    <3>4. ToSet(Append(s, n)) = ToSet(s) \cup {n}
      <4>1. \A x : x \in ToSet(Append(s, n)) <=> \E i \in 1..Len(s) + 1 : Append(s, n)[i] = x
        BY <3>3 DEF ToSet
      <4>2. \A x : x \in ToSet(s) <=> \E i \in 1..Len(s) : s[i] = x
        BY <3>3 DEF ToSet
      <4>3. \A i : i \in 1..Len(s) + 1 <=> i \in 1..Len(s) \/ i = Len(s) + 1
        BY <3>3
      <4> QED  BY <3>3, <4>1, <4>2, <4>3
    <3>5. ToSet(s) = {i \in 1..n : pushed[c][i] = "good" /\ i # n}
      BY <1>0, <1>2, <2>0, <2>2, <3>1
    <3>6. ToSet(wire'[d]) = {i \in 1..Popped(d)' : pushed'[d][i] = "good" /\ ~Held(d, i)'}
      <4>1. Popped(d)' = n
        BY <1>0, <1>1, <2>2
      <4>2. {i \in 1..n : pushed[c][i] = "good" /\ i # n} \cup {n} = {i \in 1..n : pushed[c][i] = "good"}
        BY <1>0
      <4>3. {i \in 1..Popped(d)' : pushed'[d][i] = "good" /\ ~Held(d, i)'}
              = {i \in 1..n : pushed[c][i] = "good"}
        BY <1>0, <1>2, <2>2, <4>1
      <4> QED  BY <3>2, <3>4, <3>5, <4>2, <4>3
    <3>7. \A i \in 1..Len(s) : s[i] < n
      <4>1. \A i \in 1..Len(s) : s[i] \in ToSet(s)
        BY <3>3 DEF ToSet
      <4> QED  BY <3>5, <4>1
    <3>8. \A i, j \in 1..Len(s) : i < j => s[i] < s[j]
      BY <2>0, <2>2, <3>1, <3>3
    <3>9. ASSUME NEW i \in 1..Len(s) + 1, NEW j \in 1..Len(s) + 1, i < j
          PROVE  Append(s, n)[i] < Append(s, n)[j]
      <4>1. i \in 1..Len(s)
        BY <3>3, <3>9
      <4>2. CASE j = Len(s) + 1
        BY <3>3, <3>7, <4>1, <4>2
      <4>3. CASE j \in 1..Len(s)
        BY <3>3, <3>8, <3>9, <4>1, <4>3
      <4> QED  BY <3>3, <4>2, <4>3
    <3> QED  BY <3>2, <3>3, <3>6, <3>9
  <2> QED  BY <2>1, <2>2
<1> QED  BY <1>1, <1>3 DEF ReportsInv, GoodOnesInOrder

\* Every step keeps the reports in order.
LEMMA StepReports ==
    ASSUME TypeOK, TypeOK', ReportsInv, [Next]_vars
    PROVE  ReportsInv'
<1>0. w \in HandType
  BY DEF TypeOK, HandType
<1>1. CASE \E c \in Conn, k \in Kinds : PushBack_sz(c, k)
  BY <1>1, PushReports
<1>2. CASE W_Pop
  BY <1>2, PopReports
<1>3. CASE W_Drawn
  BY <1>3, DrawnReports
<1>4. CASE W_Send
  BY <1>4, SendReports
<1>5. ASSUME NEW c \in Conn,
             ProcLogOn(c) \/ ProcLogOut(c) \/ \E ask \in Asks : ReportSynchronization(c, ask)
      PROVE  ReportsInv'
  <2>1. UNCHANGED <<buffer, pushed, wire, w>>
    BY <1>5 DEF ProcLogOn, ProcLogOut, ReportSynchronization
  <2> QED  BY <2>1, SameReports DEF ReportsInv, HandInv
<1>6. CASE W_Test \/ W_Else \/ W_Bump
  <2>1. /\ UNCHANGED <<buffer, pushed, wire>> /\ w.pc \in {"test", "else", "bump"}
        /\ w'.pc \in {"test", "else", "bump", "pop"}
    BY <1>0, <1>6, NextTyped DEF W_Test, W_Else, W_Bump, hist, HandType
  <2> QED  BY <2>1, SameReports
<1>7. CASE W_Draw
  <2>1. /\ UNCHANGED <<buffer, pushed, wire>> /\ w.pc = "draw"
        /\ w'.pc = "drawn" /\ w'.c = w.c /\ w'.rep = w.rep
    BY <1>0, <1>7 DEF W_Draw, HandType
  <2> QED  BY <2>1, SameReports
<1>8. CASE UNCHANGED vars
  <2>1. UNCHANGED <<buffer, pushed, wire, w>>
    BY <1>8 DEF vars, hist
  <2> QED  BY <2>1, SameReports DEF ReportsInv, HandInv
<1> QED  BY <1>1, <1>2, <1>3, <1>4, <1>5, <1>6, <1>7, <1>8 DEF Next, Send_SZReport

-----------------------------------------------------------------------------
(* Reports nobody asked for.                                               *)

\* Every step keeps the unasked ones at one.
LEMMA StepSession == ASSUME TypeOK, SessionInv, [Next]_vars PROVE SessionInv'
<1>0. /\ w \in HandType /\ conn \in [Conn -> ConnType] /\ session \in [Conn -> SessionType]
  BY DEF TypeOK, HandType, ConnType, SessionType
<1>1. ASSUME NEW c \in Conn, ProcLogOn(c) PROVE SessionInv'
  <2>1. /\ session'[c] = Fresh(FALSE) /\ conn'[c].syn = conn[c].syn /\ ~conn[c].logOn
        /\ \A d \in Conn : d # c => conn'[d] = conn[d] /\ session'[d] = session[d]
        /\ w' = w
    BY <1>0, <1>1 DEF ProcLogOn, ConnType
  <2> QED  BY <2>1 DEF SessionInv, Fresh
<1>2. ASSUME NEW c \in Conn, ProcLogOut(c) PROVE SessionInv'
  <2>1. /\ session'[c] = Fresh(FALSE) /\ ~conn'[c].syn
        /\ \A d \in Conn : d # c => conn'[d] = conn[d] /\ session'[d] = session[d]
        /\ w' = w
    BY <1>0, <1>2 DEF ProcLogOut, LoggedOut, ConnType
  <2> QED  BY <2>1 DEF SessionInv, Fresh
<1>3. ASSUME NEW c \in Conn, NEW ask \in Asks, ReportSynchronization(c, ask) PROVE SessionInv'
  <2>1. /\ session'[c] = Fresh(TRUE) /\ conn'[c].logOn
        /\ \A d \in Conn : d # c => conn'[d] = conn[d] /\ session'[d] = session[d]
        /\ w' = w
    BY <1>0, <1>3 DEF ReportSynchronization, ConnType
  <2> QED  BY <2>1 DEF SessionInv, Fresh
<1>4. CASE UNCHANGED <<conn, session>> /\ w'.pc # "pop"
  BY <1>4 DEF SessionInv
<1>5. CASE UNCHANGED <<conn, session, w>>
  BY <1>5 DEF SessionInv
<1>6. CASE W_Test
  <2>1. /\ UNCHANGED <<conn, session>> /\ w'.c = w.c /\ w.c \in Conn
        /\ w'.pc = "pop" => conn[w.c].syn
    BY <1>0, <1>6 DEF W_Test, Synchronised, hist, HandType
  <2> QED  BY <2>1 DEF SessionInv
<1>7. CASE W_Bump \/ W_Drawn
  <2>1. w.c \in Conn /\ UNCHANGED session /\ \E i : conn' = [conn EXCEPT ![w.c].idx = i]
    BY <1>0, <1>7 DEF W_Bump, W_Drawn, hist, HandType
  <2>2. \A c \in Conn : conn'[c].syn = conn[c].syn /\ conn'[c].logOn = conn[c].logOn
    BY <1>0, <2>1 DEF ConnType
  <2>3. w'.pc # "pop"
    BY <1>0, <1>7, NextTyped DEF W_Bump, W_Drawn, HandType
  <2> QED  BY <2>1, <2>2, <2>3 DEF SessionInv
<1>8. CASE W_Pop
  <2>1. UNCHANGED conn /\ w.pc = "pop" /\ w.c \in Conn
    BY <1>0, <1>8 DEF W_Pop, HandType
  <2>2. w'.pc # "pop"
    <3>1. CASE buffer[w.c] = <<>>
      BY <1>8, <3>1, NextTyped DEF W_Pop
    <3>2. CASE buffer[w.c] # <<>>
      BY <1>0, <1>8, <3>2, NextTyped DEF W_Pop, Convert, HandType
    <3> QED  BY <3>1, <3>2
  <2>3. CASE UNCHANGED session
    BY <2>1, <2>2, <2>3 DEF SessionInv
  <2>4. CASE session' = [session EXCEPT ![w.c].unasked = @ + 1] /\ ~session[w.c].asks
    <3>1. session[w.c].unasked = 0
      BY <2>1, <2>4 DEF SessionInv
    <3>2. /\ session'[w.c].asks = session[w.c].asks
          /\ session'[w.c].unasked = session[w.c].unasked + 1
          /\ \A d \in Conn : d # w.c => session'[d] = session[d]
      BY <1>0, <2>1, <2>4 DEF SessionType
    <3> QED  BY <2>1, <2>2, <2>4, <3>1, <3>2 DEF SessionInv
  <2> QED  BY <1>8, <2>3, <2>4 DEF W_Pop
<1>9. CASE W_Else \/ W_Draw \/ W_Send
  <2>1. UNCHANGED <<conn, session>>
    BY <1>9 DEF W_Else, W_Draw, W_Send, hist
  <2>2. w'.pc # "pop"
    BY <1>0, <1>9, NextTyped DEF W_Else, W_Draw, W_Send, HandType
  <2> QED  BY <1>4, <2>1, <2>2
<1>10. ASSUME NEW c \in Conn, NEW k \in Kinds, PushBack_sz(c, k) PROVE SessionInv'
  BY <1>5, <1>10 DEF PushBack_sz
<1>11. CASE UNCHANGED vars
  BY <1>5, <1>11 DEF vars, hist
<1> QED  BY <1>1, <1>2, <1>3, <1>6, <1>7, <1>8, <1>9, <1>10, <1>11 DEF Next, Send_SZReport

-----------------------------------------------------------------------------
(* The numbers of the reports.                                             *)

NumbersInv == DrawnInv /\ IndexInv /\ ReportNumbers

\* Where nothing is drawn and nothing asked, what there was stays right.
LEMMA SameNumbers ==
    ASSUME UNCHANGED <<drawn, asked>>
    PROVE  /\ \A c \in Conn : /\ Current(c)' = Current(c) /\ Raced(c)' = Raced(c)
                              /\ LastNum(c)' = LastNum(c)
                              /\ conn'[c].idx = conn[c].idx => IndexRight(c)' = IndexRight(c)
           /\ ReportNumbers => ReportNumbers'
BY DEF Current, Raced, LastNum, IndexRight, ReportNumbers

\* A step of a flow, or a log-on or log-out.
LEMMA StillNumbers ==
    ASSUME NumbersInv, UNCHANGED <<drawn, asked, w>>,
           \A c \in Conn : conn'[c].idx = conn[c].idx /\ (conn'[c].syn => conn[c].syn)
    PROVE  NumbersInv'
<1>1. DrawnInv'
  BY DEF NumbersInv, DrawnInv
<1>2. \A c \in Conn : InHands(c)' = InHands(c)
  BY DEF InHands
<1>3. IndexInv'
  BY <1>2, SameNumbers DEF NumbersInv, IndexInv
<1> QED  BY <1>1, <1>3, SameNumbers DEF NumbersInv

\* A step of the worker that leaves the indices alone.
LEMMA WorkNumbers ==
    ASSUME NumbersInv, TypeOK, UNCHANGED <<conn, drawn, asked>>, w'.pc # "drawn",
           w'.pc \in {"pop", "draw", "send"} => Len(asked[w'.c]) >= 1,
           w'.pc \in {"pop", "draw"} => IndexRight(w.c) /\ w'.c = w.c,
           w'.pc \in {"else", "bump"} => w'.c = w.c /\ (conn[w.c].syn => Raced(w.c) /\ ~Current(w.c)),
           conn[w.c].syn /\ w'.pc \notin {"else", "bump"} => IndexRight(w.c)
    PROVE  NumbersInv'
<1>0. w.c \in Conn
  BY DEF TypeOK
<1>1. DrawnInv'
  BY DEF NumbersInv, DrawnInv
<1>2. ASSUME NEW c \in Conn
      PROVE  /\ conn[c].syn /\ ~InHands(c)' => IndexRight(c)
             /\ w'.c = c /\ w'.pc \in {"pop", "draw"} => IndexRight(c)
             /\ conn[c].syn /\ w'.c = c /\ w'.pc \in {"else", "bump"} => Raced(c) /\ ~Current(c)
  <2>1. CASE c = w.c
    BY <2>1 DEF InHands
  <2>2. CASE c # w.c
    <3>1. conn[c].syn => IndexRight(c)
      BY <2>2 DEF NumbersInv, IndexInv, InHands
    <3> QED  BY <2>2, <3>1
  <2> QED  BY <2>1, <2>2
<1>3. IndexInv'
  <2>1. \A c \in Conn : /\ Current(c)' = Current(c) /\ Raced(c)' = Raced(c)
                        /\ IndexRight(c)' = IndexRight(c)
    BY SameNumbers
  <2> QED  BY <1>2, <2>1 DEF IndexInv
<1> QED  BY <1>1, <1>3, SameNumbers DEF NumbersInv

\* The index of the worker's client is written.
LEMMA SetNumbers ==
    ASSUME NumbersInv, TypeOK, UNCHANGED <<drawn, asked>>, NEW c \in Conn, c = w.c,
           w'.pc \in {"test", "send"}, w'.pc = "send" => w'.c = c /\ w.pc = "drawn",
           NEW i \in Nat, conn' = [conn EXCEPT ![c].idx = i],
           conn[c].syn => IndexRight(c)'
    PROVE  NumbersInv'
<1>0. conn \in [Conn -> ConnType]
  BY DEF TypeOK, ConnType
<1>1. \A d \in Conn : conn'[d].syn = conn[d].syn /\ (d # c => conn'[d].idx = conn[d].idx)
  BY <1>0 DEF ConnType
<1>2. DrawnInv'
  BY <1>1 DEF NumbersInv, DrawnInv
<1>3. ASSUME NEW d \in Conn, d # c PROVE conn'[d].syn => IndexRight(d)'
  <2>1. conn[d].syn => IndexRight(d)
    BY <1>3 DEF NumbersInv, IndexInv, InHands
  <2> QED  BY <1>1, <1>3, <2>1, SameNumbers
<1>4. IndexInv'
  <2>1. \A d \in Conn : conn'[d].syn => IndexRight(d)'
    BY <1>1, <1>3
  <2> QED  BY <2>1 DEF IndexInv
<1> QED  BY <1>2, <1>4, SameNumbers DEF NumbersInv

\* A client asks.
LEMMA AskNumbers ==
    ASSUME NumbersInv, TypeOK, NEW c \in Conn, NEW ask \in Asks, ReportSynchronization(c, ask)
    PROVE  NumbersInv'
<1> DEFINE AskType == [ask : Asks, raced : BOOLEAN]
           new == [ask |-> ask, raced |-> InHands(c)]
<1>0. /\ conn \in [Conn -> ConnType] /\ asked \in [Conn -> Seq(AskType)]
      /\ drawn' = drawn /\ w' = w
      /\ drawn \in [Conn -> Seq([id : Nat, num : Nat, syn : Nat])] /\ w.c \in Conn
  BY DEF TypeOK, ConnType, ReportSynchronization
<1>1. PICK n \in Nat : n = Len(asked[c])
  BY <1>0
<1>2. /\ Len(asked'[c]) = n + 1 /\ asked'[c][n + 1] = new
      /\ \A i \in 1..n : asked'[c][i] = asked[c][i]
      /\ \A d \in Conn : d # c => asked'[d] = asked[d]
  <2>1. asked' = [asked EXCEPT ![c] = Append(@, new)]
    BY DEF ReportSynchronization
  <2>2. asked'[c] = Append(asked[c], new) /\ asked[c] \in Seq(AskType)
    BY <1>0, <2>1
  <2> HIDE DEF new, AskType
  <2> QED  BY <1>0, <1>1, <2>1, <2>2
<1>3. /\ conn'[c].idx = Last(ask)
      /\ \A d \in Conn : d # c => conn'[d] = conn[d]
  <2>1. conn' = [conn EXCEPT ![c] = [conn[c] EXCEPT !.idx = IndexOf(ask), !.syn = TRUE]]
    BY <1>0 DEF ReportSynchronization
  <2>2. conn'[c] = [conn[c] EXCEPT !.idx = IndexOf(ask), !.syn = TRUE] /\ conn[c] \in ConnType
    BY <1>0, <2>1
  <2>3. conn'[c].idx = IndexOf(ask)
    BY <2>2 DEF ConnType
  <2>4. \A d \in Conn : d # c => conn'[d] = conn[d]
    BY <1>0, <2>1
  <2> QED  BY <2>3, <2>4, AskIsNat
<1>4. \A i \in 1..Len(drawn[c]) : drawn[c][i].syn \in 1..n
  BY <1>1 DEF NumbersInv, DrawnInv
<1>5. ~Current(c)'
  <2>1. drawn[c] # <<>> => Len(drawn[c]) \in 1..Len(drawn[c])
    BY <1>0
  <2>2. n + 1 \notin 1..n
    OBVIOUS
  <2>3. drawn[c] # <<>> => drawn[c][Len(drawn[c])].syn # n + 1
    BY <1>4, <2>1, <2>2
  <2> QED  BY <1>0, <1>2, <2>3 DEF Current
<1>6. Raced(c)' = InHands(c)
  BY <1>2 DEF Raced
<1>7. IndexRight(c)'
  BY <1>2, <1>3, <1>5 DEF IndexRight
<1>8. \A d \in Conn : d # c => /\ Current(d)' = Current(d) /\ Raced(d)' = Raced(d)
                               /\ IndexRight(d)' = IndexRight(d)
  BY <1>0, <1>2, <1>3 DEF Current, Raced, LastNum, IndexRight
<1>9. DrawnInv'
  <2>1. \A i \in 1..Len(drawn[c]) : drawn[c][i].syn \in 1..n + 1
    BY <1>4
  <2>2. n + 1 >= 1
    OBVIOUS
  <2>3. ASSUME NEW d \in Conn
        PROVE  /\ \A i \in 1..Len(drawn'[d]) : drawn'[d][i].syn \in 1..Len(asked'[d])
               /\ conn'[d].syn => Len(asked'[d]) >= 1
    <3>1. CASE d = c
      BY <1>0, <1>2, <2>1, <2>2, <3>1
    <3>2. CASE d # c
      BY <1>0, <1>2, <1>3, <3>2 DEF NumbersInv, DrawnInv
    <3> QED  BY <3>1, <3>2
  <2>4. w.pc \in {"pop", "draw", "drawn", "send"} => Len(asked'[w.c]) >= 1
    <3>1. CASE w.c = c
      BY <1>2, <2>2, <3>1
    <3>2. CASE w.c # c
      BY <1>0, <1>2, <3>2 DEF NumbersInv, DrawnInv
    <3> QED  BY <3>1, <3>2
  <2> QED  BY <1>0, <2>3, <2>4 DEF DrawnInv
<1>10. IndexInv'
  <2>0. \A d \in Conn : InHands(d)' = InHands(d)
    BY <1>0 DEF InHands
  <2>1. ASSUME NEW d \in Conn
        PROVE  /\ conn'[d].syn /\ ~InHands(d)' => IndexRight(d)'
               /\ w'.c = d /\ w'.pc \in {"pop", "draw"} => IndexRight(d)'
               /\ conn'[d].syn /\ w'.c = d /\ w'.pc \in {"else", "bump"} => Raced(d)' /\ ~Current(d)'
               /\ w'.c = d /\ w'.pc = "drawn" =>
                    /\ drawn'[d] # <<>> /\ LastNum(d)' = w'.num
                    /\ ~Current(d)' => Raced(d)'
    <3>1. CASE d = c
      <4>1. w.c = c /\ w.pc \in {"else", "bump", "drawn"} => Raced(c)'
        BY <1>6 DEF InHands
      <4>2. w.c = c /\ w.pc = "drawn" => drawn[c] # <<>> /\ LastNum(c) = w.num
        BY DEF NumbersInv, IndexInv
      <4>3. LastNum(c)' = LastNum(c)
        BY <1>0 DEF LastNum
      <4> QED  BY <1>0, <1>5, <1>7, <3>1, <4>1, <4>2, <4>3
    <3>2. CASE d # c
      <4>1. LastNum(d)' = LastNum(d)
        BY <1>0 DEF LastNum
      <4> QED  BY <1>0, <1>3, <1>8, <2>0, <3>2, <4>1 DEF NumbersInv, IndexInv
    <3> QED  BY <3>1, <3>2
  <2> QED  BY <2>1 DEF IndexInv
<1>11. ReportNumbers'
  <2>1. ASSUME NEW d \in Conn, NEW i \in DOMAIN drawn[d]
        PROVE  asked'[d][drawn[d][i].syn] = asked[d][drawn[d][i].syn]
    <3>1. DOMAIN drawn[d] = 1..Len(drawn[d])
      BY <1>0
    <3>2. CASE d = c
      BY <1>2, <1>4, <3>1, <3>2
    <3>3. CASE d # c
      BY <1>2, <3>3
    <3> QED  BY <3>2, <3>3
  <2> SUFFICES ASSUME NEW d \in Conn, NEW i \in DOMAIN drawn[d]
               PROVE  LET e == drawn[d][i]
                          follows == i > 1 /\ drawn[d][i - 1].syn = e.syn
                      IN  IF follows THEN e.num = drawn[d][i - 1].num + 1
                          ELSE e.num = Last(asked'[d][e.syn].ask) \/ asked'[d][e.syn].raced
    BY <1>0 DEF ReportNumbers
  <2>2. LET e == drawn[d][i]
            follows == i > 1 /\ drawn[d][i - 1].syn = e.syn
        IN  IF follows THEN e.num = drawn[d][i - 1].num + 1
            ELSE e.num = Last(asked[d][e.syn].ask) \/ asked[d][e.syn].raced
    BY DEF NumbersInv, ReportNumbers
  <2> QED  BY <2>1, <2>2
<1> QED  BY <1>9, <1>10, <1>11 DEF NumbersInv

\* A number is drawn.
LEMMA DrawNumbers == ASSUME NumbersInv, TypeOK, W_Draw PROVE NumbersInv'
<1> DEFINE DrawnType == [id : Nat, num : Nat, syn : Nat]
<1>a. PICK c \in Conn : c = w.c
  BY DEF TypeOK
<1>b. PICK n \in Nat : n = Len(asked[c])
  BY DEF TypeOK
<1>c. PICK x \in Nat : x = conn[c].idx
  BY DEF TypeOK
<1>d. PICK k \in Nat : k = Len(drawn[c])
  BY DEF TypeOK
<1>e. PICK new \in DrawnType : new = [id |-> w.rep.id, num |-> x, syn |-> n]
  BY DEF TypeOK
<1>0. /\ w.pc = "draw" /\ conn' = conn /\ asked' = asked
      /\ w'.pc = "drawn" /\ w'.c = c /\ w'.num = x
      /\ drawn' = [drawn EXCEPT ![c] = Append(@, new)] /\ drawn \in [Conn -> Seq(DrawnType)]
      /\ new.num = x /\ new.syn = n
  BY <1>a, <1>b, <1>c, <1>e DEF W_Draw, TypeOK
<1> HIDE DEF DrawnType
<1>1. /\ Len(drawn'[c]) = k + 1 /\ drawn'[c][k + 1] = new /\ drawn'[c] # <<>>
      /\ \A i \in 1..k : drawn'[c][i] = drawn[c][i]
      /\ DOMAIN drawn'[c] = 1..k + 1 /\ DOMAIN drawn[c] = 1..k
      /\ \A d \in Conn : d # c => drawn'[d] = drawn[d]
  <2>1. drawn'[c] = Append(drawn[c], new) /\ drawn[c] \in Seq(DrawnType)
    BY <1>0
  <2> QED  BY <1>0, <1>d, <2>1
<1>2. n >= 1 /\ IndexRight(c)
  BY <1>0, <1>a, <1>b DEF NumbersInv, DrawnInv, IndexInv
<1>3. Current(c)' /\ LastNum(c)' = x
  BY <1>0, <1>1, <1>b DEF Current, LastNum
<1>4. DrawnInv'
  <2>1. ASSUME NEW d \in Conn, NEW i \in 1..Len(drawn'[d])
        PROVE  drawn'[d][i].syn \in 1..Len(asked[d])
    <3>1. CASE d = c
      <4>1. i \in 1..k \/ i = k + 1
        BY <1>1, <3>1
      <4>2. CASE i \in 1..k
        BY <1>1, <1>d, <3>1, <4>2 DEF NumbersInv, DrawnInv
      <4>3. CASE i = k + 1
        BY <1>0, <1>1, <1>2, <1>b, <3>1, <4>3
      <4> QED  BY <4>1, <4>2, <4>3
    <3>2. CASE d # c
      BY <1>1, <3>2 DEF NumbersInv, DrawnInv
    <3> QED  BY <3>1, <3>2
  <2> QED  BY <1>0, <1>2, <1>b, <2>1 DEF NumbersInv, DrawnInv
<1>5. IndexInv'
  <2>1. \A d \in Conn : d # c => IndexRight(d)' = IndexRight(d)
    BY <1>0, <1>1 DEF Current, Raced, LastNum, IndexRight
  <2>2. \A d \in Conn : d # c => ~InHands(d)
    BY <1>a DEF InHands
  <2>3. InHands(c)'
    BY <1>0 DEF InHands
  <2> QED  BY <1>0, <1>1, <1>3, <2>1, <2>2, <2>3 DEF NumbersInv, IndexInv
<1>6. ReportNumbers'
  <2> SUFFICES ASSUME NEW d \in Conn, NEW i \in DOMAIN drawn'[d]
               PROVE  LET e == drawn'[d][i]
                          follows == i > 1 /\ drawn'[d][i - 1].syn = e.syn
                      IN  IF follows THEN e.num = drawn'[d][i - 1].num + 1
                          ELSE e.num = Last(asked'[d][e.syn].ask) \/ asked'[d][e.syn].raced
    BY DEF ReportNumbers
  <2>a. \A j \in DOMAIN drawn[d] :
          LET e == drawn[d][j]
              follows == j > 1 /\ drawn[d][j - 1].syn = e.syn
          IN  IF follows THEN e.num = drawn[d][j - 1].num + 1
              ELSE e.num = Last(asked[d][e.syn].ask) \/ asked[d][e.syn].raced
    BY DEF NumbersInv, ReportNumbers
  <2>1. CASE d # c
    <3>1. drawn'[d] = drawn[d] /\ asked' = asked
      BY <1>0, <1>1, <2>1
    <3> QED  BY <2>a, <3>1
  <2>2. CASE d = c /\ i \in 1..k
    <3>1. i > 1 => i - 1 \in 1..k
      BY <2>2
    <3>2. drawn'[c][i] = drawn[c][i] /\ (i > 1 => drawn'[c][i - 1] = drawn[c][i - 1])
      BY <1>1, <2>2, <3>1
    <3>3. d = c /\ i \in DOMAIN drawn[d] /\ asked' = asked
      BY <1>0, <1>1, <2>2
    <3> QED  BY <2>a, <3>2, <3>3
  <2>3. CASE d = c /\ i = k + 1
    <3>1. /\ i > 1 <=> drawn[c] # <<>>
          /\ i > 1 => k \in 1..k /\ drawn'[c][i - 1] = drawn[c][k] /\ i - 1 = k
      <4>1. drawn[c] # <<>> <=> k > 0
        BY <1>0, <1>d
      <4>2. k > 0 => k \in 1..k
        OBVIOUS
      <4> QED  BY <1>1, <2>3, <4>1, <4>2
    <3>2. Current(c) <=> i > 1 /\ drawn'[c][i - 1].syn = n
      BY <1>b, <1>d, <3>1 DEF Current
    <3>3. i > 1 => LastNum(c) = drawn'[c][i - 1].num
      BY <1>d, <3>1 DEF LastNum
    <3> QED  BY <1>0, <1>1, <1>2, <1>b, <1>c, <2>3, <3>2, <3>3 DEF IndexRight, Raced
  <2> QED  BY <1>1, <2>1, <2>2, <2>3
<1> QED  BY <1>4, <1>5, <1>6 DEF NumbersInv

\* Every step keeps the numbers right.
LEMMA StepNumbers ==
    ASSUME NumbersInv, TypeOK, SessionInv, [Next]_vars
    PROVE  NumbersInv'
<1>0. /\ w \in HandType /\ conn \in [Conn -> ConnType] /\ w.c \in Conn
  BY DEF TypeOK, HandType, ConnType
<1>a. PICK c \in Conn : c = w.c
  BY <1>0
<1>1. ASSUME NEW d \in Conn, ProcLogOn(d) \/ ProcLogOut(d) \/ \E k \in Kinds : PushBack_sz(d, k)
      PROVE  NumbersInv'
  <2>1. UNCHANGED <<drawn, asked, w>>
    BY <1>1 DEF ProcLogOn, ProcLogOut, PushBack_sz
  <2>2. \A e \in Conn : conn'[e].idx = conn[e].idx /\ (conn'[e].syn => conn[e].syn)
    <3>1. CASE ProcLogOn(d)
      BY <1>0, <3>1 DEF ProcLogOn, ConnType
    <3>2. CASE ProcLogOut(d)
      BY <1>0, <3>2 DEF ProcLogOut, LoggedOut, ConnType
    <3>3. CASE \E k \in Kinds : PushBack_sz(d, k)
      BY <3>3 DEF PushBack_sz
    <3> QED  BY <1>1, <3>1, <3>2, <3>3
  <2> QED  BY <2>1, <2>2, StillNumbers
<1>2. ASSUME NEW d \in Conn, NEW ask \in Asks, ReportSynchronization(d, ask)
      PROVE  NumbersInv'
  BY <1>2, AskNumbers
<1>3. CASE W_Test
  <2>1. /\ UNCHANGED <<conn, drawn, asked>> /\ w.pc = "test" /\ w'.c = w.c
        /\ \/ w'.pc = "pop" /\ conn[w.c].syn
           \/ w'.pc = "else" /\ ~conn[w.c].syn
    BY <1>0, <1>3 DEF W_Test, Synchronised, SessionInv, hist, HandType
  <2>2. conn[w.c].syn => IndexRight(w.c) /\ Len(asked[w.c]) >= 1
    BY <1>0, <2>1 DEF NumbersInv, IndexInv, DrawnInv, InHands
  <2> QED  BY <2>1, <2>2, WorkNumbers
<1>4. CASE W_Else
  <2>1. /\ UNCHANGED <<conn, drawn, asked>> /\ w.pc = "else"
        /\ \/ w'.pc = "bump" /\ w'.c = w.c
           \/ w'.pc = "test" /\ ~conn[w.c].syn
    BY <1>0, <1>4, NextTyped DEF W_Else, SessionInv, hist, HandType
  <2>2. conn[w.c].syn => Raced(w.c) /\ ~Current(w.c)
    BY <1>0, <2>1 DEF NumbersInv, IndexInv
  <2> QED  BY <2>1, <2>2, WorkNumbers
<1>5. CASE W_Bump
  <2>1. /\ UNCHANGED <<drawn, asked>> /\ w.pc = "bump" /\ w'.pc = "test"
        /\ conn' = [conn EXCEPT ![c].idx = IF w.num < MaxIndex THEN w.num + 1 ELSE w.num]
    BY <1>0, <1>5, <1>a, NextTyped DEF W_Bump, hist
  <2>2. conn[c].syn => Raced(c) /\ ~Current(c)
    BY <1>a, <2>1 DEF NumbersInv, IndexInv
  <2>3. conn[c].syn => IndexRight(c)'
    <3>1. Raced(c)' = Raced(c) /\ Current(c)' = Current(c)
      BY <2>1, SameNumbers
    <3> QED  BY <2>2, <3>1 DEF IndexRight
  <2>4. (IF w.num < MaxIndex THEN w.num + 1 ELSE w.num) \in Nat
    BY <1>0 DEF HandType
  <2> QED  BY <1>a, <2>1, <2>3, <2>4, SetNumbers
<1>6. CASE W_Pop
  <2>1. /\ UNCHANGED <<conn, drawn, asked>> /\ w.pc = "pop"
        /\ w'.pc = "test" \/ (w'.pc = "draw" /\ w'.c = w.c)
    <3>1. CASE buffer[w.c] = <<>>
      BY <1>6, <3>1, NextTyped DEF W_Pop
    <3>2. CASE buffer[w.c] # <<>>
      BY <1>0, <1>6, <3>2, NextTyped DEF W_Pop, Convert, HandType
    <3> QED  BY <3>1, <3>2
  <2>2. IndexRight(w.c) /\ Len(asked[w.c]) >= 1
    BY <1>0, <2>1 DEF NumbersInv, IndexInv, DrawnInv
  <2> QED  BY <2>1, <2>2, WorkNumbers
<1>7. CASE W_Draw
  BY <1>7, DrawNumbers
<1>8. CASE W_Drawn
  <2>1. /\ UNCHANGED <<drawn, asked>> /\ w.pc = "drawn"
        /\ w'.pc = "test" \/ (w'.pc = "send" /\ w'.c = c)
        /\ conn' = [conn EXCEPT ![c].idx = w.num + 1]
    BY <1>0, <1>8, <1>a, NextTyped DEF W_Drawn, hist, HandType
  <2>2. LastNum(c) = w.num /\ (~Current(c) => Raced(c))
    BY <1>a, <2>1 DEF NumbersInv, IndexInv
  <2>3. IndexRight(c)'
    <3>1. Raced(c)' = Raced(c) /\ Current(c)' = Current(c) /\ LastNum(c)' = LastNum(c)
      BY <2>1, SameNumbers
    <3>2. conn'[c].idx = w.num + 1
      BY <1>0, <2>1 DEF ConnType
    <3> QED  BY <2>2, <3>1, <3>2 DEF IndexRight
  <2>4. w.num + 1 \in Nat
    BY <1>0 DEF HandType
  <2> QED  BY <1>a, <2>1, <2>3, <2>4, SetNumbers
<1>9. CASE W_Send
  <2>1. UNCHANGED <<conn, drawn, asked>> /\ w.pc = "send" /\ w'.pc = "test"
    BY <1>9, NextTyped DEF W_Send
  <2>2. conn[w.c].syn => IndexRight(w.c)
    BY <1>0, <2>1 DEF NumbersInv, IndexInv, InHands
  <2> QED  BY <2>1, <2>2, WorkNumbers
<1>10. CASE UNCHANGED vars
  BY <1>10, StillNumbers DEF vars, hist
<1> QED  BY <1>1, <1>2, <1>3, <1>4, <1>5, <1>6, <1>7, <1>8, <1>9, <1>10 DEF Next, Send_SZReport

-----------------------------------------------------------------------------
(* The theorems.                                                           *)

\* It holds when the interface starts.
LEMMA SzInit == Init => SzInv
<1> SUFFICES ASSUME Init PROVE SzInv
  OBVIOUS
<1> USE DEF Init
<1>0. TypeOK /\ w.pc = "test"
  BY InitTyped DEF At
<1>1. \A c \in Conn : Popped(c) = 0 /\ wire[c] = <<>>
  BY DEF Popped
<1>2. BufferInv /\ HandInv
  BY <1>0 DEF BufferInv, HandInv
<1>3. GoodOnesInOrder
  BY <1>1 DEF GoodOnesInOrder, ToSet
<1>4. SessionInv
  BY <1>0 DEF SessionInv, Fresh
<1>5. DrawnInv /\ IndexInv /\ ReportNumbers
  BY <1>0 DEF DrawnInv, IndexInv, ReportNumbers
<1> QED  BY <1>0, <1>2, <1>3, <1>4, <1>5 DEF SzInv

\* Every step keeps it.
LEMMA SzStep == SzInv /\ [Next]_vars => SzInv'
BY StepTyped, StepReports, StepSession, StepNumbers DEF SzInv, ReportsInv, NumbersInv

\* The worker and the sessions of the clients share the fields of a
\* connection without a lock, and yet the following holds in every state.
THEOREM SzInvariant == Spec => []SzInv
BY SzInit, SzStep, PTL DEF Spec

\* A client gets the good ones of its reports, each once and in the order the
\* flows pushed them, and after a log-on at most one before it asked for any.
THEOREM SzReportsAsPushed == Spec => []ReportsAsPushed
<1>1. SzInv => ReportsAsPushed
  BY DEF SzInv, SessionInv, ReportsAsPushed, NoneUnasked
<1> QED  BY <1>1, SzInvariant, PTL

\* GetRptIdex gives a client the number it asked for and then one after the
\* other, unless its ReportSynchronization was handled while the worker had
\* the index in its hands.
THEOREM SzReportNumbers == Spec => []ReportNumbers
<1>1. SzInv => ReportNumbers
  BY DEF SzInv
<1> QED  BY <1>1, SzInvariant, PTL
-----------------------------------------------------------------------------
(* What each part of the gateway leaves alone.                             *)

Before == {"0", "2", "3_1", "3_3", "4_1", "4_3"}
Steps == Before \cup {"keep", "registered", "savedb", "savefile", "4_4", "asked", "5", "8", "9", "run", "ended"}

StartLeaves == <<mode, starts, polVars, shVars, srv, toCli, rcv, conf, acked, times, rows, ins, etfRow, etfIns>>

LEMMA StartFrame == ASSUME Start PROVE UNCHANGED StartLeaves
<1> USE DEF StartLeaves, Others, ruleVars, etfVars
<1>1. CASE CheckLicense
  BY <1>1 DEF CheckLicense
<1>2. CASE ReadConfig
  BY <1>2 DEF ReadConfig
<1>3. CASE CheckMysql
  BY <1>3 DEF CheckMysql
<1>4. CASE LoadConfigFromDb
  BY <1>4 DEF LoadConfigFromDb
<1>5. CASE ReadId
  BY <1>5 DEF ReadId
<1>6. CASE Connect
  BY <1>6 DEF Connect
<1>7. CASE KeepId
  BY <1>7 DEF KeepId
<1>8. CASE Wait("registered", "register", "savedb") \/ Wait("asked", "param", "5")
  BY <1>8 DEF Wait
<1>9. CASE SaveIdFromWeb
  BY <1>9 DEF SaveIdFromWeb
<1>10. CASE SaveIdToFile
  BY <1>10 DEF SaveIdToFile
<1>11. CASE AskConfig
  BY <1>11 DEF AskConfig
<1>12. CASE CheckRedis
  BY <1>12 DEF CheckRedis
<1>13. CASE CheckRules
  BY <1>13 DEF CheckRules
<1>14. CASE ThreadsStartup
  BY <1>14 DEF ThreadsStartup
<1> QED  BY <1>1, <1>2, <1>3, <1>4, <1>5, <1>6, <1>7, <1>8, <1>9, <1>10, <1>11, <1>12, <1>13, <1>14 DEF Start

LEMMA ClientFrame ==
    ASSUME Client
    PROVE  /\ UNCHANGED <<mainVars, srv, shVars>> /\ pc # "ended"
           /\ \/ RegisterReport \/ ParamReport \/ SwitchMode(Normal) \/ ChangeLinkStrategy
              \/ ChangeLinkRules \/ MatchRuleMsg(Normal) \/ Etfinfo(Normal)
<1>1. /\ UNCHANGED mainVars /\ pc # "ended"
      /\ \/ RegisterReport \/ ParamReport \/ SwitchMode(Normal) \/ ChangeLinkStrategy
         \/ ChangeLinkRules \/ MatchRuleMsg(Normal) \/ Etfinfo(Normal)
  BY DEF Client, ProcessReceivedData
<1>2. CASE RegisterReport
  BY <1>1, <1>2 DEF RegisterReport
<1>3. CASE ParamReport
  BY <1>1, <1>3 DEF ParamReport
<1>4. CASE SwitchMode(Normal)
  BY <1>1, <1>4 DEF SwitchMode
<1>5. CASE ChangeLinkStrategy
  BY <1>1, <1>5 DEF ChangeLinkStrategy
<1>6. CASE ChangeLinkRules
  BY <1>1, <1>6 DEF ChangeLinkRules
<1>7. CASE MatchRuleMsg(Normal)
  BY <1>1, <1>7 DEF MatchRuleMsg
<1>8. CASE Etfinfo(Normal)
  BY <1>1, <1>8 DEF Etfinfo
<1> QED  BY <1>1, <1>2, <1>3, <1>4, <1>5, <1>6, <1>7, <1>8

-----------------------------------------------------------------------------
(* The form of every reachable state.                                      *)

LinkedTo(R) == {t \in [Rules -> 0..MaxVer] : \A r \in Rules \ R : t[r] = 0}
MarketOf(k) == IF k = ShKey THEN ShRules ELSE SzRules
Version == [rule : Rules, ver : 1..MaxVer]

\* What the web server sends, and what is sent to it.
RegisterMsg == [type : {"register"}, id : Nat]
ParamMsg == [type : {"param"}, bad : BadParts \cup {"none"}, pol : [Parties -> Nat],
             sh : LinkedTo(ShRules), sz : LinkedTo(SzRules)]
LinkMsg == UNION {[type : {"links"}, key : {k}, times : LinkedTo(MarketOf(k))] : k \in {ShKey, SzKey}}
StrategyMsg == [type : {"strategy"}, who : Parties, ver : Nat, bad : BOOLEAN]
EtfMsg == [type : {"etf"}, doc : {[info |-> n, comps |-> n, bad |-> b] : n \in Nat, b \in EtfErrors \cup {"none"}}]
SwitchMsg == [type : {"switch"}, to : Switches]
RestartMsg == [type : {"restart"}]
RulesMsg == [type : {"rules"}, docs : Seq(Version)]
FromServer == RegisterMsg \cup ParamMsg \cup LinkMsg \cup StrategyMsg \cup EtfMsg \cup SwitchMsg
              \cup RestartMsg \cup RulesMsg
ToServer == [type : {"register", "param"}] \cup [type : {"rules"}, rules : Seq(Rules)]

Server == [ver : [Rules -> 1..MaxVer], link : {l \in [{ShKey, SzKey} -> SUBSET Rules] :
                                                  \A k \in {ShKey, SzKey} : l[k] \subseteq MarketOf(k)},
           pol : [Parties -> Nat], etf : Nat, ids : Nat, changes : Nat]

FaultKinds == {"start", "reload", "etfrows", "etfids", "readid", "web", "saveid", "file", "rule",
               "etf", "commit", "sh", "mark", "report", "document", "links"}

WireForm == srv \in Server /\ toSrv \in Seq(ToServer) /\ toCli \in Seq(FromServer) /\ up \in BOOLEAN

HandForm ==
    /\ rcv \in [msg : FromServer \cup {NoMsg}, todo : Seq(Rules)]
    /\ conf \subseteq {"sys", "sz", "sh"} /\ acked \in Nat
    /\ id \in [mem : Nat \cup {NoId}, file : Nat \cup {NoId}, db : Nat \cup {NoId}]

TimesForm ==
    /\ times \in [Range(Keys) -> [Rules -> 0..MaxVer]]
    /\ \A k \in Range(Keys), r \in ShRules : k # ShKey => times[k][r] = 0
    /\ \A r \in SzRules : times[ShKey][r] = 0

MapForm ==
    /\ mem \in [Rules -> Rule \cup {NoRule}] /\ rows \in [Rules -> Rule \cup {NoRule}]
    /\ ins \in [todo : Seq(Version), stage : {"next", "confirm", "match", "db"}]
    /\ ins.stage # "next" => ins.todo # <<>> /\ mem[Changing] # NoRule

\* Before the connection is made there is nothing to handle.
EarlyForm ==
    /\ pc \in Steps
    /\ pc \in Before => /\ ~up /\ toSrv = <<>> /\ toCli = <<>> /\ rcv = Free /\ conf = {} /\ woken = {}
                        /\ times = NoTimes /\ acked = 0

\* What is inserted comes with the message at hand.
InsertForm ==
    /\ ins # Idle => rcv.msg.type = "rules"
    /\ etfIns # NoInsert => rcv.msg.type = "etf"

FaultForm == faults \subseteq FaultKinds

LEMMA LinkMsgIs ==
    ASSUME NEW m \in FromServer, m.type = "links"
    PROVE  m.key \in {ShKey, SzKey} /\ m.times \in LinkedTo(MarketOf(m.key))
BY DEF FromServer, RegisterMsg, ParamMsg, LinkMsg, StrategyMsg, EtfMsg, SwitchMsg, RestartMsg, RulesMsg

LEMMA ParamMsgIs ==
    ASSUME NEW m \in FromServer, m.type = "param"
    PROVE  m.bad \in BadParts \cup {"none"} /\ m.pol \in [Parties -> Nat]
           /\ m.sh \in LinkedTo(ShRules) /\ m.sz \in LinkedTo(SzRules)
BY DEF FromServer, RegisterMsg, ParamMsg, LinkMsg, StrategyMsg, EtfMsg, SwitchMsg, RestartMsg, RulesMsg

LEMMA RulesMsgIs == \A m \in FromServer : m.type = "rules" => m.docs \in Seq(Version)
BY DEF FromServer, RegisterMsg, ParamMsg, LinkMsg, StrategyMsg, EtfMsg, SwitchMsg, RestartMsg, RulesMsg

LEMMA StrategyMsgIs ==
    \A m \in FromServer : m.type = "strategy" => m.who \in Parties /\ m.ver \in Nat /\ m.bad \in BOOLEAN
BY DEF FromServer, RegisterMsg, ParamMsg, LinkMsg, StrategyMsg, EtfMsg, SwitchMsg, RestartMsg, RulesMsg

LEMMA RegisterMsgIs == \A m \in FromServer : m.type = "register" => m.id \in Nat
BY DEF FromServer, RegisterMsg, ParamMsg, LinkMsg, StrategyMsg, EtfMsg, SwitchMsg, RestartMsg, RulesMsg

LEMMA EtfMsgIs ==
    ASSUME NEW m \in FromServer, m.type = "etf"
    PROVE  m.doc.info \in Nat /\ m.doc.comps = m.doc.info
<1>1. m \in EtfMsg
  BY DEF FromServer, RegisterMsg, ParamMsg, LinkMsg, StrategyMsg, EtfMsg, SwitchMsg, RestartMsg, RulesMsg
<1>2. PICK n \in Nat, b \in EtfErrors \cup {"none"} : m.doc = [info |-> n, comps |-> n, bad |-> b]
  BY <1>1 DEF EtfMsg
<1> QED  BY <1>2

-----------------------------------------------------------------------------
(* Messages                                                                *)

LEMMA WiderSeq == \A S, T : S \subseteq T => Seq(S) \subseteq Seq(T)
OBVIOUS

LEMMA AscendingRules == ASSUME NEW R \in SUBSET Rules PROVE Ascending(R) \in Seq(Rules)
<1>1. R \in SUBSET Nat /\ IsFiniteSet(R)
  BY RulesAssumption, FS_Subset DEF Rules
<1>2. Ascending(R) \in Seq(R)
  BY <1>1, AscendingIs
<1> QED  BY <1>2, WiderSeq

LEMMA SendForm ==
    ASSUME WireForm, NEW msgs \in Seq(ToServer), SendMsgToServer(msgs)
    PROVE  up' \in BOOLEAN /\ toSrv' \in Seq(ToServer)
<1>1. toSrv \o msgs \in Seq(ToServer)
  BY DEF WireForm
<1> QED  BY <1>1 DEF SendMsgToServer, Sent, Reconnect, WireForm

LEMMA ReplyForm == ASSUME WireForm, Reply PROVE up' \in BOOLEAN /\ toSrv' \in Seq(ToServer)
<1>1. <<>> \in Seq(ToServer)
  OBVIOUS
<1> QED  BY <1>1, SendForm DEF Reply

LEMMA SyncForm ==
    ASSUME WireForm, CheckLinkRuleSync
    PROVE  up' \in BOOLEAN /\ toSrv' \in Seq(ToServer)
<1> DEFINE R == NeedFetchRule
           m == [type |-> "rules", rules |-> Ascending(R)]
<1>1. R \in SUBSET Rules
  BY DEF NeedFetchRule, CompareRuleTime, Rules
<1>2. R = {} => UNCHANGED <<up, toSrv>>
  BY DEF CheckLinkRuleSync, GetMatchRuleContent
<1>3. R # {} => SendMsgToServer(<<m>>)
  BY DEF CheckLinkRuleSync, GetMatchRuleContent
<1> HIDE DEF R
<1>4. m \in ToServer
  BY <1>1, AscendingRules DEF ToServer
<1>5. <<m>> \in Seq(ToServer)
  <2> HIDE DEF m
  <2> QED  BY <1>4
<1>6. CASE R = {}
  BY <1>2, <1>6 DEF WireForm
<1>7. CASE R # {}
  BY <1>3, <1>5, <1>7, SendForm
<1> QED  BY <1>6, <1>7

LEMMA StartWire ==
    ASSUME WireForm, Start
    PROVE  WireForm'
<1>1. UNCHANGED <<srv, toCli>>
  BY StartFrame DEF StartLeaves
<1>2. up' \in BOOLEAN /\ toSrv' \in Seq(ToServer)
  <2> USE DEF WireForm
  <2>1. CASE UNCHANGED <<toSrv, up>>
    BY <2>1
  <2>2. CASE Connect
    <3>1. RegisterToServer \in Seq(ToServer)
      BY DEF RegisterToServer, ToServer
    <3> QED  BY <2>2, <3>1 DEF Connect
  <2>3. CASE AskConfig
    <3>1. GetParamFromServer \in Seq(ToServer)
      BY DEF GetParamFromServer, ToServer
    <3> QED  BY <2>3, <3>1 DEF AskConfig
  <2>4. CASE CheckRules
    BY <2>4, SyncForm DEF CheckRules
  <2> QED  BY <2>1, <2>2, <2>3, <2>4 DEF Start, CheckLicense, ReadConfig, CheckMysql, LoadConfigFromDb, ReadId, KeepId, Wait, SaveIdFromWeb, SaveIdToFile, CheckRedis, ThreadsStartup
<1> QED  BY <1>1, <1>2 DEF WireForm

LEMMA TailForm == \A s \in Seq(FromServer) : s # <<>> => s[1] \in FromServer /\ Tail(s) \in Seq(FromServer)
OBVIOUS

LEMMA ClientWire ==
    ASSUME WireForm, Client
    PROVE  WireForm'
<1>1. UNCHANGED srv
  BY ClientFrame
<1>2. toCli' = toCli \/ (toCli # <<>> /\ toCli' = Tail(toCli))
  BY ClientFrame DEF RegisterReport, ParamReport, SwitchMode, ChangeLinkStrategy, ChangeLinkRules, ClearLinkRules, InsertLinkRule, LinkRulesChanged, RejectLinkRules,
     MatchRuleMsg, Etfinfo, Takes, Handles
<1>3. UNCHANGED <<up, toSrv>> \/ Reply \/ CheckLinkRuleSync
  BY ClientFrame DEF RegisterReport, ParamReport, SwitchMode, ChangeLinkStrategy, ChangeLinkRules, ClearLinkRules, InsertLinkRule, LinkRulesChanged, RejectLinkRules,
     MatchRuleMsg, Etfinfo
<1>4. up' \in BOOLEAN /\ toSrv' \in Seq(ToServer)
  BY <1>3, ReplyForm, SyncForm DEF WireForm
<1>5. toCli' \in Seq(FromServer)
  BY <1>2, TailForm DEF WireForm
<1> QED  BY <1>1, <1>4, <1>5 DEF WireForm

LEMMA TimesLinked ==
    ASSUME srv' \in Server, NEW k \in {ShKey, SzKey}
    PROVE  Times(k) \in LinkedTo(MarketOf(k))
<1>1. srv'.ver \in [Rules -> 1..MaxVer] /\ srv'.link[k] \subseteq MarketOf(k)
  BY DEF Server
<1>2. MaxVer \in Nat
  BY ClienterAssumption
<1> QED  BY <1>1, <1>2 DEF Times, LinkedTo

LEMMA LinksMsgForm ==
    ASSUME srv' \in Server, NEW k \in {ShKey, SzKey}
    PROVE  <<LinksMsg(k)>> \in Seq(FromServer)
<1>1. LinksMsg(k) \in [type : {"links"}, key : {k}, times : LinkedTo(MarketOf(k))]
  BY TimesLinked DEF LinksMsg
<1>2. LinksMsg(k) \in FromServer
  BY <1>1 DEF FromServer, LinkMsg
<1> HIDE DEF LinksMsg
<1> QED  BY <1>2

LEMMA TellForm ==
    ASSUME WireForm, NEW msgs \in Seq(FromServer), Tell(msgs)
    PROVE  toCli' \in Seq(FromServer)
<1>1. toCli \o msgs \in Seq(FromServer)
  BY DEF WireForm
<1> QED  BY <1>1 DEF Tell, WireForm

LEMMA ChangeForm ==
    ASSUME WireForm, NEW new \in Server, Change(new)
    PROVE  srv' \in Server
BY DEF Change, Server

LEMMA EditForm == ASSUME WireForm, EditRule PROVE srv' \in Server /\ toCli' \in Seq(FromServer)
<1>1. PICK r \in Rules :
        /\ srv.ver[r] < MaxVer /\ Change([srv EXCEPT !.ver[r] = @ + 1])
        /\ LET k == IF r \in ShRules THEN ShKey ELSE SzKey
           IN  Tell(IF r \in srv.link[k] THEN <<LinksMsg(k)>> ELSE <<>>)
  BY DEF EditRule
<1>2. [srv EXCEPT !.ver[r] = @ + 1] \in Server
  <2>1. srv.ver[r] + 1 \in 1..MaxVer
    BY <1>1, ClienterAssumption DEF WireForm, Server
  <2>2. [srv.ver EXCEPT ![r] = srv.ver[r] + 1] \in [Rules -> 1..MaxVer]
    BY <2>1 DEF WireForm, Server
  <2> QED  BY <2>2 DEF WireForm, Server
<1>3. srv' \in Server
  BY <1>1, <1>2, ChangeForm
<1> DEFINE k == IF r \in ShRules THEN ShKey ELSE SzKey
<1>4. <<LinksMsg(k)>> \in Seq(FromServer) /\ <<>> \in Seq(FromServer)
  BY <1>3, LinksMsgForm
<1>5. PICK msgs \in Seq(FromServer) : Tell(msgs)
  BY <1>1, <1>4
<1> QED  BY <1>3, <1>5, TellForm

LEMMA RelinkForm == ASSUME WireForm, Relink PROVE srv' \in Server /\ toCli' \in Seq(FromServer)
<1>1. PICK k \in {ShKey, SzKey} : \E R \in SUBSET MarketOf(k) :
        Change([srv EXCEPT !.link[k] = R]) /\ Tell(<<LinksMsg(k)>>)
  BY DEF Relink, MarketOf
<1>2. PICK R \in SUBSET MarketOf(k) : Change([srv EXCEPT !.link[k] = R]) /\ Tell(<<LinksMsg(k)>>)
  BY <1>1
<1>3. [srv EXCEPT !.link[k] = R] \in Server
  <2>1. R \in SUBSET Rules
    BY DEF MarketOf, Rules
  <2>2. [srv.link EXCEPT ![k] = R] \in [{ShKey, SzKey} -> SUBSET Rules]
    BY <2>1 DEF WireForm, Server
  <2>3. \A kk \in {ShKey, SzKey} : [srv.link EXCEPT ![k] = R][kk] \subseteq MarketOf(kk)
    BY DEF WireForm, Server
  <2> QED  BY <2>2, <2>3 DEF WireForm, Server
<1>4. srv' \in Server
  BY <1>2, <1>3, ChangeForm
<1> QED  BY <1>2, <1>4, LinksMsgForm, TellForm

LEMMA StrategyForm == ASSUME WireForm, NewStrategy PROVE srv' \in Server /\ toCli' \in Seq(FromServer)
<1>1. PICK who \in Parties :
        /\ Change([srv EXCEPT !.pol[who] = @ + 1])
        /\ \E bad \in BOOLEAN : Tell(<<[type |-> "strategy", who |-> who, ver |-> srv.pol[who] + 1, bad |-> bad]>>)
  BY DEF NewStrategy
<1>2. PICK bad \in BOOLEAN : Tell(<<[type |-> "strategy", who |-> who, ver |-> srv.pol[who] + 1, bad |-> bad]>>)
  BY <1>1
<1>3. srv.pol[who] + 1 \in Nat
  BY DEF WireForm, Server
<1>4. [srv EXCEPT !.pol[who] = @ + 1] \in Server
  BY <1>3 DEF WireForm, Server
<1> DEFINE m == [type |-> "strategy", who |-> who, ver |-> srv.pol[who] + 1, bad |-> bad]
<1>5. m \in FromServer
  BY <1>3 DEF FromServer, StrategyMsg
<1>6. <<m>> \in Seq(FromServer)
  <2> HIDE DEF m
  <2> QED  BY <1>5
<1> QED  BY <1>1, <1>2, <1>4, <1>6, ChangeForm, TellForm

LEMMA NewEtfForm == ASSUME WireForm, NewEtf PROVE srv' \in Server /\ toCli' \in Seq(FromServer)
<1>1. /\ Change([srv EXCEPT !.etf = @ + 1])
      /\ \E bad \in EtfErrors \cup {"none"} :
           Tell(<<[type |-> "etf", doc |-> [info |-> Yuan(srv.etf + 1), comps |-> Yuan(srv.etf + 1), bad |-> bad]]>>)
  BY DEF NewEtf
<1>2. PICK bad \in EtfErrors \cup {"none"} :
           Tell(<<[type |-> "etf", doc |-> [info |-> Yuan(srv.etf + 1), comps |-> Yuan(srv.etf + 1), bad |-> bad]]>>)
  BY <1>1
<1>3. srv.etf + 1 \in Nat
  BY DEF WireForm, Server
<1>4. [srv EXCEPT !.etf = @ + 1] \in Server
  BY <1>3 DEF WireForm, Server
<1> DEFINE m == [type |-> "etf", doc |-> [info |-> Yuan(srv.etf + 1), comps |-> Yuan(srv.etf + 1), bad |-> bad]]
<1>5. m \in FromServer
  <2>1. m \in EtfMsg
    BY <1>3 DEF EtfMsg, Yuan
  <2> QED  BY <2>1 DEF FromServer
<1>6. <<m>> \in Seq(FromServer)
  <2> HIDE DEF m
  <2> QED  BY <1>5
<1> QED  BY <1>1, <1>2, <1>4, <1>6, ChangeForm, TellForm

LEMMA OtherChangeForm == ASSUME WireForm, Switch \/ RestartAsked PROVE srv' \in Server /\ toCli' \in Seq(FromServer)
<1>1. CASE Switch
  <2>1. PICK v \in Switches : Change(srv) /\ Tell(<<[type |-> "switch", to |-> v]>>)
    BY <1>1 DEF Switch
  <2>2. <<[type |-> "switch", to |-> v]>> \in Seq(FromServer)
    BY DEF FromServer, SwitchMsg
  <2> QED  BY <2>1, <2>2, ChangeForm, TellForm DEF WireForm
<1>2. CASE RestartAsked
  <2>1. <<[type |-> "restart"]>> \in Seq(FromServer)
    BY DEF FromServer, RestartMsg
  <2> QED  BY <1>2, <2>1, ChangeForm, TellForm DEF WireForm, RestartAsked
<1> QED  BY <1>1, <1>2

LEMMA AnswerForm ==
    ASSUME WireForm, Answer
    PROVE  srv' \in Server /\ toCli' \in Seq(FromServer) /\ toSrv' \in Seq(ToServer)
<1> DEFINE q == toSrv[1]
<1>1. q \in ToServer /\ toSrv' = Tail(toSrv) /\ toSrv' \in Seq(ToServer)
  BY DEF WireForm, Answer
<1>2. CASE q.type = "register"
  <2>1. /\ srv' = [srv EXCEPT !.ids = @ + 1]
        /\ toCli' = Append(toCli, [type |-> "register", id |-> srv.ids + 1])
    BY <1>2 DEF Answer
  <2>2. srv.ids + 1 \in Nat
    BY DEF WireForm, Server
  <2>3. [type |-> "register", id |-> srv.ids + 1] \in FromServer
    BY <2>2 DEF FromServer, RegisterMsg
  <2>4. toCli' \in Seq(FromServer)
    BY <2>1, <2>3, AppendProperties DEF WireForm
  <2> QED  BY <1>1, <2>1, <2>2, <2>4 DEF WireForm, Server
<1>3. CASE q.type = "param"
  <2>1. UNCHANGED srv
    BY <1>3 DEF Answer
  <2>2. PICK bad \in BadParts \cup {"none"} :
          toCli' = Append(toCli, [type |-> "param", bad |-> bad, pol |-> srv.pol, sh |-> Times(ShKey), sz |-> Times(SzKey)])
    BY <1>3 DEF Answer
  <2>3. Times(ShKey) \in LinkedTo(ShRules) /\ Times(SzKey) \in LinkedTo(SzRules)
    BY <2>1, TimesLinked, ClienterAssumption DEF MarketOf, WireForm
  <2>4. [type |-> "param", bad |-> bad, pol |-> srv.pol, sh |-> Times(ShKey), sz |-> Times(SzKey)] \in FromServer
    BY <2>3 DEF FromServer, ParamMsg, WireForm, Server
  <2>5. toCli' \in Seq(FromServer)
    BY <2>2, <2>4, AppendProperties DEF WireForm
  <2> QED  BY <1>1, <2>1, <2>5 DEF WireForm
<1>4. CASE q.type \notin {"register", "param"}
  <2>1. UNCHANGED srv /\ toCli' = Append(toCli, [type |-> "rules", docs |-> [i \in DOMAIN q.rules |-> VerOf(q.rules[i])]])
    BY <1>4 DEF Answer
  <2>2. q.rules \in Seq(Rules)
    BY <1>1, <1>4 DEF ToServer
  <2>3. \A r \in Rules : VerOf(r) \in Version
    BY DEF VerOf, Version, WireForm, Server
  <2>4. [i \in DOMAIN q.rules |-> VerOf(q.rules[i])] \in Seq(Version)
    <3>1. Len(q.rules) \in Nat /\ DOMAIN q.rules = 1..Len(q.rules) /\ \A i \in 1..Len(q.rules) : q.rules[i] \in Rules
      BY <2>2
    <3> QED  BY <2>3, <3>1
  <2>5. [type |-> "rules", docs |-> [i \in DOMAIN q.rules |-> VerOf(q.rules[i])]] \in FromServer
    BY <2>4 DEF FromServer, RulesMsg
  <2>6. toCli' \in Seq(FromServer)
    BY <2>1, <2>5, AppendProperties DEF WireForm
  <2> QED  BY <1>1, <2>1, <2>6 DEF WireForm
<1> QED  BY <1>2, <1>3, <1>4

LEMMA NothingOnTheWay == <<>> \in Seq(ToServer) /\ <<>> \in Seq(FromServer)
OBVIOUS

LEMMA WireInit == GatewayInit => WireForm
<1> SUFFICES ASSUME GatewayInit PROVE WireForm
  OBVIOUS
<1>1. /\ srv = [ver |-> [r \in Rules |-> 1], link |-> srv.link, pol |-> [who \in Parties |-> 0], etf |-> srv.etf,
                ids |-> srv.ids, changes |-> 0]
      /\ srv.etf \in {0, 1} /\ srv.ids \in {0, 1}
      /\ srv.link \in [{ShKey, SzKey} -> {{}, ShRules, SzRules}]
      /\ \A k \in {ShKey, SzKey} : srv.link[k] \in {{}, MarketOf(k)}
      /\ toSrv = <<>> /\ toCli = <<>> /\ up = FALSE
  BY ClienterAssumption DEF GatewayInit, CliInit, MarketOf
<1>2. srv.link \in {l \in [{ShKey, SzKey} -> SUBSET Rules] : \A k \in {ShKey, SzKey} : l[k] \subseteq MarketOf(k)}
  <2>1. srv.link \in [{ShKey, SzKey} -> SUBSET Rules]
    BY <1>1 DEF Rules
  <2> QED  BY <1>1, <2>1
<1>3. [r \in Rules |-> 1] \in [Rules -> 1..MaxVer]
  BY ClienterAssumption
<1>4. [who \in Parties |-> 0] \in [Parties -> Nat] /\ srv.etf \in Nat /\ srv.ids \in Nat
  BY <1>1
<1>5. srv \in Server
  BY <1>1, <1>2, <1>3, <1>4 DEF Server
<1>6. toSrv \in Seq(ToServer) /\ toCli \in Seq(FromServer)
  BY <1>1, NothingOnTheWay
<1> QED  BY <1>1, <1>5, <1>6 DEF WireForm

LEMMA WireStep == ASSUME WireForm, [GatewayNext]_gatewayVars PROVE WireForm'
<1>1. CASE Start
  BY <1>1, StartWire
<1>2. CASE Client
  BY <1>2, ClientWire
<1>3. CASE Environment
  <2>1. CASE UNCHANGED <<srv, cliVars>>
    BY <2>1 DEF cliVars, WireForm
  <2>2. CASE WebServer(pc = "0" /\ starts > 1)
    <3>1. CASE (EditRule \/ Relink \/ NewStrategy \/ NewEtf \/ Switch \/ RestartAsked) /\ UNCHANGED toSrv
      <4>1. srv' \in Server /\ toCli' \in Seq(FromServer)
        BY <3>1, EditForm, RelinkForm, StrategyForm, NewEtfForm, OtherChangeForm
      <4>2. up' = up
        BY <2>2 DEF WebServer
      <4>3. toSrv' = toSrv
        BY <3>1
      <4> QED  BY <4>1, <4>2, <4>3 DEF WireForm
    <3>2. CASE Answer
      BY <2>2, <3>2, AnswerForm DEF WebServer, WireForm
    <3> QED  BY <2>2, <3>1, <3>2 DEF WebServer
  <2>3. CASE LoseConnection
    BY <2>3, NothingOnTheWay DEF LoseConnection, WireForm
  <2> QED  BY <1>3, <2>1, <2>2, <2>3 DEF Environment
<1>4. CASE Shanghai \/ RestartRequest
  <2>1. CASE Shanghai
    BY <2>1 DEF Shanghai, cliVars, WireForm
  <2>2. CASE RestartRequest
    BY <2>2, TailForm DEF RestartRequest, Takes, WireForm
  <2> QED  BY <1>4, <2>1, <2>2
<1>5. CASE Restart
  BY <1>5, NothingOnTheWay DEF Restart, CliLost, WireForm
<1>6. CASE UNCHANGED gatewayVars
  BY <1>6 DEF gatewayVars, cliVars, WireForm
<1> QED  BY <1>1, <1>2, <1>3, <1>4, <1>5, <1>6 DEF GatewayNext

-----------------------------------------------------------------------------
(* The ETF packages                                                        *)

LEMMA EarlyInit == GatewayInit => EarlyForm /\ InsertForm /\ FaultForm
BY DEF GatewayInit, EarlyForm, InsertForm, FaultForm, CliInit, RulesInit, EtfInit, ShInit, Before, Steps

LEMMA EarlyStep == ASSUME EarlyForm, [GatewayNext]_gatewayVars PROVE EarlyForm'
<1>1. CASE Start
  <2>1. UNCHANGED <<toCli, rcv, conf, times, acked>>
    BY <1>1, StartFrame DEF StartLeaves
  <2> USE DEF Others, Before, Steps, Ends
  <2>2. pc' \in Steps
    BY <1>1 DEF Start, CheckLicense, ReadConfig, CheckMysql, LoadConfigFromDb, ReadId, Connect, KeepId, Wait,
       SaveIdFromWeb, SaveIdToFile, AskConfig, CheckRedis, CheckRules, ThreadsStartup
  <2>3. pc' \in Before => pc \in Before /\ UNCHANGED <<up, toSrv, woken>>
    BY <1>1 DEF Start, CheckLicense, ReadConfig, CheckMysql, LoadConfigFromDb, ReadId, Connect, KeepId, Wait,
       SaveIdFromWeb, SaveIdToFile, AskConfig, CheckRedis, CheckRules, ThreadsStartup
  <2> HIDE DEF Before, Steps
  <2>4. NoTimes' = NoTimes
    BY DEF NoTimes
  <2> QED  BY <2>1, <2>2, <2>3, <2>4 DEF EarlyForm
<1>2. CASE Client
  <2>1. UNCHANGED pc
    BY <1>2, ClientFrame DEF mainVars
  <2>2. pc \notin Before
    <3>1. SUFFICES ASSUME pc \in Before, toCli = <<>>, rcv = Free PROVE FALSE
      BY DEF EarlyForm
    <3>2. rcv.msg.type = "none"
      BY <3>1 DEF Free, NoMsg
    <3> QED  BY <1>2, <3>1, <3>2, ClientFrame DEF RegisterReport, ParamReport, SwitchMode, ChangeLinkStrategy, ChangeLinkRules,
            ClearLinkRules, InsertLinkRule, LinkRulesChanged, RejectLinkRules, MatchRuleMsg, Etfinfo, Takes, Handles
  <2> QED  BY <2>1, <2>2 DEF EarlyForm
<1>3. CASE Environment
  <2>1. UNCHANGED pc
    BY <1>3 DEF Environment, mainVars
  <2>2. UNCHANGED times
    BY <1>3 DEF Environment
  <2>3. CASE UNCHANGED <<cliVars, woken>>
    BY <2>1, <2>2, <2>3 DEF EarlyForm, cliVars
  <2>4. CASE WebServer(pc = "0" /\ starts > 1)
    <3>1. SUFFICES ASSUME pc \in Before PROVE UNCHANGED <<up, toSrv, toCli, rcv, conf, woken, acked>>
      BY <2>1, <2>2 DEF EarlyForm
    <3>2. UNCHANGED <<up, rcv, conf, woken, acked>>
      BY <2>4 DEF WebServer
    <3>3. ~Answer
      BY <3>1 DEF EarlyForm, Answer
    <3>4. UNCHANGED toSrv /\ (EditRule \/ Relink \/ NewStrategy \/ NewEtf \/ Switch \/ RestartAsked)
      BY <2>4, <3>3 DEF WebServer
    <3>5. \E msgs : Tell(msgs)
      BY <3>4 DEF EditRule, Relink, NewStrategy, NewEtf, Switch, RestartAsked
    <3> QED  BY <3>1, <3>2, <3>4, <3>5 DEF Tell, EarlyForm
  <2>5. CASE LoseConnection
    BY <2>1, <2>2, <2>5 DEF LoseConnection, EarlyForm
  <2> QED  BY <1>3, <2>3, <2>4, <2>5 DEF Environment
<1>4. CASE Shanghai
  BY <1>4 DEF Shanghai, EarlyForm, cliVars, mainVars
<1>5. CASE RestartRequest
  BY <1>5 DEF RestartRequest, EarlyForm, Ends, Before, Steps
<1>6. CASE Restart
  BY <1>6 DEF Restart, CliLost, ShLost, EarlyForm, Before, Steps
<1>7. CASE UNCHANGED gatewayVars
  BY <1>7 DEF gatewayVars, mainVars, cliVars, EarlyForm
<1> QED  BY <1>1, <1>2, <1>3, <1>4, <1>5, <1>6, <1>7 DEF GatewayNext

LEMMA InsertStep == ASSUME InsertForm, [GatewayNext]_gatewayVars PROVE InsertForm'
<1>1. CASE Start
  BY <1>1, StartFrame DEF StartLeaves, InsertForm
<1>2. CASE Client
  <2>1. CASE RegisterReport \/ ParamReport \/ SwitchMode(Normal) \/ ChangeLinkStrategy \/ ChangeLinkRules
    <3>1. UNCHANGED <<ins, etfIns>>
      BY <2>1 DEF RegisterReport, ParamReport, SwitchMode, ChangeLinkStrategy, ChangeLinkRules, ruleVars, etfVars
    <3>2. CASE UNCHANGED rcv
      BY <3>1, <3>2 DEF InsertForm
    <3>3. CASE ~UNCHANGED rcv
      <4>1. rcv.msg.type \notin {"rules", "etf"}
        BY <2>1, <3>3 DEF RegisterReport, ParamReport, SwitchMode, ChangeLinkStrategy, ChangeLinkRules, ClearLinkRules, InsertLinkRule,
           LinkRulesChanged, RejectLinkRules, Takes, Handles, Free, NoMsg
      <4> QED  BY <3>1, <4>1 DEF InsertForm
    <3> QED  BY <3>2, <3>3
  <2>2. CASE MatchRuleMsg(Normal)
    <3>1. UNCHANGED etfIns
      BY <2>2 DEF MatchRuleMsg, etfVars
    <3>2. rcv.msg.type # "etf"
      BY <2>2 DEF MatchRuleMsg, Takes, Handles, Free, NoMsg
    <3>3. ins' = Idle \/ rcv'.msg.type = "rules"
      BY <2>2 DEF MatchRuleMsg, Takes, Handles, GoesOn, ruleVars, Free
    <3>4. Idle' = Idle /\ NoInsert' = NoInsert
      BY DEF Idle, NoInsert
    <3> QED  BY <3>1, <3>2, <3>3, <3>4 DEF InsertForm
  <2>3. CASE Etfinfo(Normal)
    <3>1. UNCHANGED ins
      BY <2>3 DEF Etfinfo, ruleVars
    <3>2. rcv.msg.type # "rules"
      BY <2>3 DEF Etfinfo, Takes, Handles, Free, NoMsg
    <3>3. etfIns' = NoInsert \/ rcv'.msg.type = "etf"
      BY <2>3 DEF Etfinfo, Takes, Handles, GoesOn, etfVars, Free
    <3>4. Idle' = Idle /\ NoInsert' = NoInsert
      BY DEF Idle, NoInsert
    <3> QED  BY <3>1, <3>2, <3>3, <3>4 DEF InsertForm
  <2> QED  BY <1>2, <2>1, <2>2, <2>3, ClientFrame
<1>3. CASE Environment
  BY <1>3 DEF Environment, WebServer, LoseConnection, cliVars, ruleVars, etfVars, InsertForm
<1>4. CASE Shanghai \/ RestartRequest
  BY <1>4 DEF Shanghai, RestartRequest, cliVars, ruleVars, etfVars, InsertForm
<1>5. CASE Restart
  BY <1>5 DEF Restart, InsertForm
<1>6. CASE UNCHANGED gatewayVars
  BY <1>6 DEF gatewayVars, cliVars, ruleVars, etfVars, InsertForm
<1> QED  BY <1>1, <1>2, <1>3, <1>4, <1>5, <1>6 DEF GatewayNext

\* A package is whole, in the table and on the way there.
Package == {p \in [info : Nat, comps : Nat] : p.info = p.comps}
EtfForm ==
    /\ etfRow \in Package \cup {NoEtf}
    /\ etfIns # NoInsert =>
         /\ etfIns.etf \in Package
         /\ \/ etfIns = [etf |-> etfIns.etf, tx |-> etfRow, stage |-> "info"]
            \/ etfIns = [etf |-> etfIns.etf, tx |-> [info |-> etfIns.etf.info, comps |-> etfIns.tx.comps], stage |-> "comps"]
            \/ \E s \in {"commit", "map"} : etfIns = [etf |-> etfIns.etf, tx |-> etfIns.etf, stage |-> s]

\* From the loading on the map has what the tables have, up to an insertion
\* between its commit and the map.
Loaded == pc \notin {"0", "2", "3_1", "3_3", "ended"} /\ Normal
EtfLoaded ==
    Loaded /\ faults \cap {"commit", "etfids"} = {} =>
      IF etfIns.stage = "map" THEN etfRow = etfIns.etf ELSE etfMem = etfRow

LEMMA PackageIs == ASSUME NEW p \in Package PROVE p = [info |-> p.info, comps |-> p.comps] /\ p # NoEtf
BY EtfAssumption DEF Package

LEMMA EtfFormInit == GatewayInit => EtfForm /\ EtfLoaded
BY DEF GatewayInit, EtfInit, EtfForm, EtfLoaded, Loaded, MoneyInLi, Yuan, Package

LEMMA EtfMsgForm ==
    ASSUME WireForm, Takes("etf")
    PROVE  Msg.doc.info \in Nat /\ Msg.doc.comps = Msg.doc.info
<1>1. Msg \in FromServer /\ Msg.type = "etf"
  BY TailForm DEF WireForm, Takes, Msg
<1> QED  BY <1>1, EtfMsgIs

LEMMA EtfStepForm ==
    ASSUME EtfForm, etfIns # NoInsert, EtfStep
    PROVE  EtfForm'
<1>1. etfIns.etf \in Package /\ NoInsert' = NoInsert
  BY DEF EtfForm, NoInsert
<1>2. PICK e \in Package : e = etfIns.etf
  BY <1>1
<1>3. e = [info |-> e.info, comps |-> e.comps] /\ e # NoEtf /\ e.info \in Nat /\ e.comps = e.info
  BY PackageIs DEF Package
<1>4. CASE EtfFailed
  BY <1>1, <1>4 DEF EtfFailed, EtfForm
<1>5. CASE Update_EtfInfo /\ ~EtfFailed
  <2>1. /\ etfIns = [etf |-> e, tx |-> etfRow, stage |-> "info"]
        /\ etfIns' = [etfIns EXCEPT !.tx = InfoOf(@, etfIns.etf), !.stage = "comps"] /\ etfRow' = etfRow
    BY <1>2, <1>5 DEF EtfForm, Update_EtfInfo
  <2>2. etfIns' = [etf |-> e, tx |-> InfoOf(etfRow, e), stage |-> "comps"]
    BY <2>1
  <2>3. InfoOf(etfRow, e) = [info |-> e.info, comps |-> InfoOf(etfRow, e).comps]
    <3>1. CASE etfRow = NoEtf
      <4>1. InfoOf(etfRow, e) = [info |-> e.info, comps |-> NoPart]
        BY <1>3, <3>1 DEF InfoOf
      <4> QED  BY <4>1
    <3>2. CASE etfRow # NoEtf
      <4>1. etfRow \in Package
        BY <3>2 DEF EtfForm
      <4>2. etfRow = [info |-> etfRow.info, comps |-> etfRow.comps]
        BY <4>1, PackageIs
      <4>3. InfoOf(etfRow, e) = [info |-> e.info, comps |-> etfRow.comps]
        BY <3>2, <4>2 DEF InfoOf
      <4> QED  BY <4>3
    <3> QED  BY <3>1, <3>2
  <2>4. etfIns'.etf = e /\ etfIns'.tx = InfoOf(etfRow, e)
    BY <2>2
  <2>5. etfIns' = [etf |-> etfIns'.etf, tx |-> [info |-> etfIns'.etf.info, comps |-> etfIns'.tx.comps], stage |-> "comps"]
    BY <2>2, <2>3, <2>4
  <2> QED  BY <1>2, <2>1, <2>4, <2>5 DEF EtfForm
<1>6. CASE Update_EtfComponent /\ ~EtfFailed
  <2>1. /\ etfIns = [etf |-> e, tx |-> [info |-> e.info, comps |-> etfIns.tx.comps], stage |-> "comps"]
        /\ etfIns' = [etfIns EXCEPT !.tx.comps = etfIns.etf.comps, !.stage = "commit"] /\ etfRow' = etfRow
    BY <1>2, <1>6 DEF EtfForm, Update_EtfComponent
  <2>2. PICK c : etfIns = [etf |-> e, tx |-> [info |-> e.info, comps |-> c], stage |-> "comps"]
    BY <2>1
  <2>3. [etfIns EXCEPT !.tx.comps = etfIns.etf.comps, !.stage = "commit"]
          = [etf |-> e, tx |-> [info |-> e.info, comps |-> e.comps], stage |-> "commit"]
    <3>1. etfIns.tx = [info |-> e.info, comps |-> c] /\ etfIns.etf = e
      BY <2>2
    <3>2. [etfIns.tx EXCEPT !.comps = e.comps] = [info |-> e.info, comps |-> e.comps]
      BY <3>1
    <3>3. \A t : [etfIns EXCEPT !.tx = t, !.stage = "commit"] = [etf |-> e, tx |-> t, stage |-> "commit"]
      <4>1. PICK u : etfIns = [etf |-> e, tx |-> u, stage |-> "comps"]
        BY <2>2
      <4> TAKE t
      <4>2. [etfIns EXCEPT !.tx = t] = [etf |-> e, tx |-> t, stage |-> "comps"]
        BY <4>1
      <4>3. [etfIns EXCEPT !.tx = t, !.stage = "commit"] = [[etfIns EXCEPT !.tx = t] EXCEPT !.stage = "commit"]
        OBVIOUS
      <4>4. [[etf |-> e, tx |-> t, stage |-> "comps"] EXCEPT !.stage = "commit"] = [etf |-> e, tx |-> t, stage |-> "commit"]
        OBVIOUS
      <4> QED  BY <4>2, <4>3, <4>4
    <3>4. [etfIns EXCEPT !.tx.comps = etfIns.etf.comps, !.stage = "commit"]
            = [etfIns EXCEPT !.tx = [etfIns.tx EXCEPT !.comps = e.comps], !.stage = "commit"]
      BY <3>1
    <3> QED  BY <3>2, <3>3, <3>4
  <2>4. etfIns' = [etf |-> e, tx |-> e, stage |-> "commit"]
    BY <1>3, <2>1, <2>3
  <2>5. etfIns'.etf = e /\ etfRow' \in Package \cup {NoEtf}
    BY <2>1, <2>4 DEF EtfForm
  <2> QED  BY <1>2, <2>4, <2>5 DEF EtfForm
<1>7. CASE EtfCommit
  <2>1. /\ etfIns = [etf |-> e, tx |-> e, stage |-> "commit"]
        /\ etfIns' = [etfIns EXCEPT !.stage = "map"] /\ etfRow' \in {etfRow, etfIns.tx}
    BY <1>2, <1>7 DEF EtfForm, EtfCommit
  <2>2. etfIns' = [etf |-> e, tx |-> e, stage |-> "map"] /\ etfRow' \in Package \cup {NoEtf}
    BY <1>2, <2>1 DEF EtfForm
  <2> QED  BY <2>2 DEF EtfForm
<1>8. CASE EtfStored
  BY <1>1, <1>8 DEF EtfStored, EtfForm
<1> QED  BY <1>4, <1>5, <1>6, <1>7, <1>8 DEF EtfStep

LEMMA InsertEtfForm ==
    ASSUME WireForm, EtfForm, Takes("etf"), InsertEtf(Msg.doc), UNCHANGED etfRow
    PROVE  EtfForm' /\ etfIns'.stage # "map"
<1>1. Msg.doc.info \in Nat /\ Msg.doc.comps = Msg.doc.info
  BY EtfMsgForm
<1>2. NoInsert' = NoInsert /\ NoInsert.stage = "none"
  BY DEF NoInsert
<1>3. CASE ~Validate(Msg.doc)
  BY <1>2, <1>3 DEF InsertEtf, EtfForm
<1>4. CASE Validate(Msg.doc)
  <2> DEFINE e == [info |-> 1000 * Msg.doc.info, comps |-> 1000 * Msg.doc.comps]
  <2>1. etfIns' = [etf |-> e, tx |-> etfRow, stage |-> "info"]
    BY <1>4 DEF InsertEtf, Info_Money, Set_ETF_Component_FromWebControl, MoneyInLi
  <2>2. e \in Package
    BY <1>1 DEF Package
  <2> HIDE DEF e
  <2> QED  BY <2>1, <2>2 DEF EtfForm
<1> QED  BY <1>3, <1>4

LEMMA EtfFrame ==
    ASSUME [GatewayNext]_gatewayVars, ~Restart, ~(Client /\ Etfinfo(Normal)), ~LoadConfigFromDb
    PROVE  UNCHANGED etfVars
<1>1. CASE Start
  BY <1>1, StartFrame DEF StartLeaves, etfVars, Start, CheckLicense, ReadConfig, CheckMysql, ReadId, Connect, KeepId, Wait,
       SaveIdFromWeb, SaveIdToFile, AskConfig, CheckRedis, CheckRules, ThreadsStartup
<1>2. CASE Client
  BY <1>2, ClientFrame DEF RegisterReport, ParamReport, SwitchMode, ChangeLinkStrategy, ChangeLinkRules, MatchRuleMsg
<1>3. CASE Shanghai \/ Environment \/ RestartRequest
  BY <1>3 DEF Shanghai, Environment, RestartRequest
<1>4. CASE UNCHANGED gatewayVars
  BY <1>4 DEF gatewayVars
<1> QED  BY <1>1, <1>2, <1>3, <1>4 DEF GatewayNext

LEMMA EtfFormStep == ASSUME WireForm, EtfForm, [GatewayNext]_gatewayVars PROVE EtfForm'
<1>0. NoInsert' = NoInsert
  BY DEF NoInsert
<1>1. CASE Restart
  BY <1>0, <1>1 DEF Restart, EtfForm
<1>2. CASE Client /\ Etfinfo(Normal)
  <2>1. CASE UNCHANGED <<etfRow, etfIns>>
    BY <1>0, <2>1 DEF EtfForm
  <2>2. CASE Takes("etf") /\ InsertEtf(Msg.doc) /\ UNCHANGED etfRow
    BY <2>2, InsertEtfForm
  <2>3. CASE EtfStep
    <3>1. etfIns # NoInsert
      BY <2>3 DEF NoInsert, EtfStep, Update_EtfInfo, Update_EtfComponent, EtfCommit, EtfStored
    <3> QED  BY <2>3, <3>1, EtfStepForm
  <2> QED  BY <1>2, <2>1, <2>2, <2>3 DEF Etfinfo, etfVars
<1>3. CASE LoadConfigFromDb
  BY <1>0, <1>3 DEF LoadConfigFromDb, EtfForm
<1>4. CASE UNCHANGED etfVars
  BY <1>0, <1>4 DEF etfVars, EtfForm
<1> QED  BY <1>1, <1>2, <1>3, <1>4, EtfFrame

LEMMA FaultsGrow == ASSUME FaultForm, [GatewayNext]_gatewayVars PROVE FaultForm' /\ faults \subseteq faults'
<1>1. SUFFICES \/ UNCHANGED faults
               \/ \E k \in FaultKinds : Fails(k)
  BY DEF FaultForm, Fails
<1> USE DEF FaultKinds, Works
<1>2. CASE Start
  BY <1>2 DEF Start, CheckLicense, ReadConfig, CheckMysql, LoadConfigFromDb, ReadId, Connect, KeepId, Wait,
       SaveIdFromWeb, SaveIdToFile, AskConfig, CheckRedis, CheckRules, ThreadsStartup
<1>3. CASE Client
  <2>1. CASE RegisterReport \/ ParamReport \/ SwitchMode(Normal) \/ ChangeLinkStrategy \/ ChangeLinkRules
    BY <2>1 DEF RegisterReport, ParamReport, SwitchMode, ChangeLinkStrategy, ChangeLinkRules
  <2>2. CASE MatchRuleMsg(Normal)
    BY <2>2 DEF MatchRuleMsg, InsertRule, InsertMalformed, UpdateSingleRuleToDb
  <2>3. CASE Etfinfo(Normal)
    BY <2>3 DEF Etfinfo, EtfStep, EtfFailed, Update_EtfInfo, Update_EtfComponent, EtfCommit, EtfStored
  <2> QED  BY <1>3, <2>1, <2>2, <2>3, ClientFrame
<1>4. CASE Environment
  BY <1>4 DEF Environment, WebServer, LoseConnection, Ordwth
<1>5. CASE RestartRequest
  BY <1>5 DEF RestartRequest
<1>6. CASE Shanghai
  <2>1. CASE Declare(WebMan, acked)
    BY <2>1 DEF Declare, GetSHCjbh, SetCjbh, GetSHRec_Num, SetRecNum, SelectOrders, PolicySh, PolicySh_Rest, SHOrderToFix,
       Set_MutilOrd_Status, ProcShMessage, D_Fails, SetOrdwthStatus
  <2>2. CASE FlowStep \/ Report
    BY <2>2 DEF FlowStep, Report, Get_SHReport, Send_SH_ReportOrConfirm
  <2> QED  BY <1>6, <2>1, <2>2 DEF Shanghai
<1>7. CASE Restart
  BY <1>7 DEF Restart
<1>8. CASE UNCHANGED gatewayVars
  BY <1>8 DEF gatewayVars
<1> QED  BY <1>2, <1>3, <1>4, <1>5, <1>6, <1>7, <1>8 DEF GatewayNext

LEMMA EtfLoadedStep ==
    ASSUME WireForm, EarlyForm, InsertForm, FaultForm, EtfForm, EtfLoaded, [GatewayNext]_gatewayVars
    PROVE  EtfLoaded'
<1>1. UNCHANGED mode
  BY StartFrame, ClientFrame DEF GatewayNext, StartLeaves, Shanghai, Environment, RestartRequest, Restart, gatewayVars, mainVars
<1>2. faults \subseteq faults'
  BY FaultsGrow
<1>3. SUFFICES ASSUME Loaded', faults' \cap {"commit", "etfids"} = {}
               PROVE  IF etfIns'.stage = "map" THEN etfRow' = etfIns'.etf ELSE etfMem' = etfRow'
  BY DEF EtfLoaded
<1>4. faults \cap {"commit", "etfids"} = {}
  BY <1>2, <1>3
<1>5. CASE LoadConfigFromDb
  <2>1. etfIns = NoInsert
    <3>1. rcv = Free
      BY <1>5 DEF LoadConfigFromDb, EarlyForm, Before
    <3> QED  BY <3>1 DEF InsertForm, Free, NoMsg
  <2>2. etfMem' = ReloadEtf
    BY <1>3, <1>5 DEF LoadConfigFromDb, Ends, Loaded, Fails
  <2>3. ReloadEtf = etfRow
    <3>1. etfRow \in Package => etfRow = [info |-> etfRow.info, comps |-> etfRow.comps]
      BY PackageIs
    <3> QED  BY <3>1 DEF EtfForm, ReloadEtf, GetFromDB_AllEtfStockIds, GetFromDB_OneEtfPackage, GetFromDB_OneEtfInfo,
            GetFromDB_OneEtfComponents, Set_ETF_Info_FromDb, Set_ETF_Component_FromDb
  <2>4. UNCHANGED <<etfRow, etfIns>>
    BY <1>5, StartFrame DEF StartLeaves, Start
  <2> QED  BY <2>1, <2>2, <2>3, <2>4 DEF NoInsert
<1>6. CASE Restart
  BY <1>3, <1>6 DEF Restart, Loaded
<1>7. CASE Client /\ Etfinfo(Normal)
  <2>1. Loaded
    BY <1>1, <1>3, <1>7, ClientFrame DEF mainVars, Loaded, Normal
  <2>2. IF etfIns.stage = "map" THEN etfRow = etfIns.etf ELSE etfMem = etfRow
    BY <1>4, <2>1 DEF EtfLoaded
  <2>3. CASE UNCHANGED <<etfRow, etfIns, etfMem>>
    BY <2>2, <2>3
  <2>4. CASE Takes("etf") /\ InsertEtf(Msg.doc) /\ UNCHANGED <<etfMem, etfRow>>
    <3>1. etfIns = NoInsert
      BY <2>4 DEF InsertForm, Takes, Free, NoMsg
    <3>2. etfIns'.stage # "map"
      BY <2>4, InsertEtfForm
    <3> QED  BY <2>2, <2>4, <3>1, <3>2 DEF NoInsert
  <2>5. CASE EtfStep
    <3>1. CASE EtfFailed /\ etfIns.stage \in {"info", "comps"}
      BY <2>2, <3>1 DEF EtfFailed, NoInsert
    <3>2. CASE Update_EtfInfo /\ ~EtfFailed
      BY <2>2, <3>2 DEF Update_EtfInfo, EtfForm, NoInsert
    <3>3. CASE Update_EtfComponent /\ ~EtfFailed
      BY <2>2, <3>3 DEF Update_EtfComponent, EtfForm, NoInsert
    <3>4. CASE EtfCommit
      <4>1. etfRow' = etfIns.tx /\ etfIns' = [etfIns EXCEPT !.stage = "map"] /\ etfIns.stage = "commit"
        BY <1>3, <3>4 DEF EtfCommit, Fails
      <4>2. etfIns = [etf |-> etfIns.etf, tx |-> etfIns.etf, stage |-> "commit"]
        BY <4>1 DEF EtfForm, NoInsert
      <4> QED  BY <4>1, <4>2
    <3>5. CASE EtfStored
      BY <2>2, <3>5 DEF EtfStored, NoInsert
    <3> QED  BY <2>5, <3>1, <3>2, <3>3, <3>4, <3>5 DEF EtfStep, Update_EtfInfo, Update_EtfComponent
  <2> QED  BY <1>7, <2>3, <2>4, <2>5 DEF Etfinfo, etfVars
<1>8. CASE UNCHANGED etfVars /\ ~Restart /\ ~LoadConfigFromDb
  <2>1. Loaded
    <3>1. CASE Start
      <4>1. pc \notin {"0", "2", "3_1", "3_3", "ended"}
        BY <1>1, <1>3, <1>8, <3>1 DEF Loaded, Normal, Ends, Start, CheckLicense, ReadConfig, CheckMysql, ReadId, Connect, KeepId, Wait,
       SaveIdFromWeb, SaveIdToFile, AskConfig, CheckRedis, CheckRules, ThreadsStartup
      <4> QED  BY <1>1, <1>3, <4>1 DEF Loaded, Normal
    <3>2. CASE ~Start
      <4>1. UNCHANGED pc \/ pc' = "ended"
        BY <1>8, <3>2, ClientFrame DEF GatewayNext, Shanghai, Environment, RestartRequest, Ends, gatewayVars, mainVars
      <4> QED  BY <1>1, <1>3, <4>1 DEF Loaded, Normal
    <3> QED  BY <3>1, <3>2
  <2> QED  BY <1>4, <1>8, <2>1 DEF EtfLoaded, etfVars
<1> QED  BY <1>5, <1>6, <1>7, <1>8, EtfFrame

LEMMA EtfSavedHolds == EtfForm /\ EtfLoaded => EtfSaved
BY DEF EtfSaved, EtfWhole, EtfKept, EtfForm, EtfLoaded, Loaded, Package, NoInsert

-----------------------------------------------------------------------------
(* The handlers and the main thread                                        *)

ClientWaits == {"registered", "keep", "savedb", "savefile", "4_4"}
Running == {"asked", "5", "8", "9", "run"}
NoRegister == (\A i \in DOMAIN toSrv : toSrv[i].type # "register") /\ (\A i \in DOMAIN toCli : toCli[i].type # "register")

\* Up to the request for the configuration at most the register request and
\* its answer are on the way, and later none of them is.
QuietForm ==
    /\ pc \in ClientWaits => rcv = Free /\ conf = {} /\ acked = 0 /\ times = NoTimes
    /\ pc \in ClientWaits \ {"registered"} => toSrv = <<>> /\ toCli = <<>> /\ woken = {}
    /\ pc = "registered" =>
         \/ toSrv = <<[type |-> "register"]>> /\ toCli = <<>> /\ woken = {}
         \/ toSrv = <<>> /\ (\E n \in Nat : toCli = <<[type |-> "register", id |-> n]>>) /\ woken = {}
         \/ toSrv = <<>> /\ toCli = <<>> /\ woken \subseteq {"register"}
    /\ pc \in Running => NoRegister /\ woken \subseteq {"param"}

LEMMA HandInit == GatewayInit => HandForm
<1>1. <<>> \in Seq(Rules) /\ NoMsg \in FromServer \cup {NoMsg}
  OBVIOUS
<1> QED  BY <1>1 DEF GatewayInit, HandForm, CliInit, Free

LEMMA HandStep == ASSUME WireForm, HandForm, [GatewayNext]_gatewayVars PROVE HandForm'
<1>1. CASE Start
  <2>1. UNCHANGED <<rcv, conf, acked>>
    BY <1>1, StartFrame DEF StartLeaves
  <2>2. id' \in [mem : Nat \cup {NoId}, file : Nat \cup {NoId}, db : Nat \cup {NoId}]
    <3>1. CASE UNCHANGED id
      BY <3>1 DEF HandForm
    <3>2. CASE ReadId
      BY <3>2 DEF ReadId, IdFromMysql, HandForm
    <3>3. CASE KeepId
      BY <3>3 DEF KeepId, Kept, HandForm
    <3>4. CASE SaveIdFromWeb
      BY <3>4 DEF SaveIdFromWeb, HandForm
    <3>5. CASE SaveIdToFile
      BY <3>5 DEF SaveIdToFile, HandForm
    <3> QED  BY <1>1, <3>1, <3>2, <3>3, <3>4, <3>5 DEF Start, CheckLicense, ReadConfig, CheckMysql, LoadConfigFromDb, Connect, Wait,
       AskConfig, CheckRedis, CheckRules, ThreadsStartup
  <2> QED  BY <2>1, <2>2 DEF HandForm
<1>2. CASE Client
  <2>1. toCli # <<>> => Msg \in FromServer
    BY TailForm DEF WireForm, Msg
  <2>2. Free \in [msg : FromServer \cup {NoMsg}, todo : Seq(Rules)]
    <3>1. <<>> \in Seq(Rules) /\ NoMsg \in FromServer \cup {NoMsg}
      OBVIOUS
    <3> QED  BY <3>1 DEF Free
  <2>3. GoesOn /\ toCli # <<>> => rcv' \in [msg : FromServer \cup {NoMsg}, todo : Seq(Rules)]
    BY <2>1, <2>2 DEF GoesOn
  <2>4. CASE RegisterReport
    <3>1. Msg.id \in Nat
      BY <2>1, <2>4, RegisterMsgIs DEF RegisterReport, Takes
    <3> QED  BY <2>4, <3>1 DEF RegisterReport, HandForm
  <2>5. CASE ParamReport
    <3>1. Msg.pol \in [Parties -> Nat]
      BY <2>1, <2>5, ParamMsgIs DEF ParamReport, Takes
    <3>2. Msg.pol["sh"] \in Nat
      BY <3>1 DEF Parties
    <3> QED  BY <2>5, <3>2 DEF ParamReport, HandForm, Applied
  <2>6. CASE SwitchMode(Normal)
    BY <2>2, <2>3, <2>6 DEF SwitchMode, HandForm, Takes, Done
  <2>7. CASE ChangeLinkStrategy
    <3>1. rcv.msg.type = "strategy" => rcv.msg.ver \in Nat
      BY StrategyMsgIs DEF HandForm, NoMsg
    <3> QED  BY <2>2, <2>3, <2>7, <3>1 DEF ChangeLinkStrategy, HandForm, Takes, Handles, Done
  <2>8. CASE ChangeLinkRules
    <3>1. CASE ClearLinkRules
      <4>1. rcv' = [msg |-> Msg, todo |-> Ascending({r \in Rules : Msg.times[r] # 0})]
        BY <3>1 DEF ClearLinkRules
      <4>2. Ascending({r \in Rules : Msg.times[r] # 0}) \in Seq(Rules)
        BY AscendingRules
      <4>3. Msg \in FromServer
        BY <2>1, <3>1 DEF ClearLinkRules, Takes
      <4> QED  BY <2>8, <4>1, <4>2, <4>3 DEF ChangeLinkRules, HandForm
    <3>2. CASE InsertLinkRule
      <4>1. rcv' = [rcv EXCEPT !.todo = Tail(@)] /\ rcv.todo # <<>>
        BY <3>2 DEF InsertLinkRule
      <4>2. Tail(rcv.todo) \in Seq(Rules)
        BY <4>1 DEF HandForm
      <4> QED  BY <2>8, <4>1, <4>2 DEF ChangeLinkRules, HandForm
    <3>3. CASE LinkRulesChanged
      BY <2>2, <2>8, <3>3 DEF LinkRulesChanged, ChangeLinkRules, HandForm, Done
    <3>4. CASE RejectLinkRules
      BY <2>2, <2>8, <3>4 DEF RejectLinkRules, ChangeLinkRules, HandForm, Done
    <3> QED  BY <2>8, <3>1, <3>2, <3>3, <3>4 DEF ChangeLinkRules
  <2>9. CASE MatchRuleMsg(Normal)
    BY <2>2, <2>3, <2>9 DEF MatchRuleMsg, HandForm, Takes, Done
  <2>10. CASE Etfinfo(Normal)
    BY <2>2, <2>3, <2>10 DEF Etfinfo, HandForm, Takes, Done
  <2> QED  BY <1>2, <2>4, <2>5, <2>6, <2>7, <2>8, <2>9, <2>10, ClientFrame
<1>3. CASE Environment
  BY <1>3 DEF Environment, WebServer, LoseConnection, cliVars, HandForm
<1>4. CASE Shanghai \/ RestartRequest
  BY <1>4 DEF Shanghai, RestartRequest, cliVars, HandForm
<1>5. CASE Restart
  <2>1. Free \in [msg : FromServer \cup {NoMsg}, todo : Seq(Rules)]
    <3>1. <<>> \in Seq(Rules) /\ NoMsg \in FromServer \cup {NoMsg}
      OBVIOUS
    <3> QED  BY <3>1 DEF Free
  <2> QED  BY <1>5, <2>1 DEF Restart, CliLost, HandForm
<1>6. CASE UNCHANGED gatewayVars
  BY <1>6 DEF gatewayVars, cliVars, HandForm
<1> QED  BY <1>1, <1>2, <1>3, <1>4, <1>5, <1>6 DEF GatewayNext

LEMMA QuietInit == GatewayInit => QuietForm
BY DEF GatewayInit, QuietForm, ClientWaits, Running

\* Nothing of the main thread's waiting is disturbed by the client: all it
\* can take is the answer to the register request.
LEMMA QuietClient ==
    ASSUME EarlyForm, QuietForm, Client, pc \notin Running
    PROVE  pc = "registered" /\ RegisterReport
<1>1. pc \notin Before
  <2>1. SUFFICES ASSUME toCli = <<>>, rcv = Free PROVE FALSE
    BY DEF EarlyForm
  <2>2. rcv.msg.type = "none"
    BY <2>1 DEF Free, NoMsg
  <2> QED  BY <2>1, <2>2, ClientFrame DEF RegisterReport, ParamReport, SwitchMode, ChangeLinkStrategy, ChangeLinkRules,
            ClearLinkRules, InsertLinkRule, LinkRulesChanged, RejectLinkRules, MatchRuleMsg, Etfinfo, Takes, Handles
<1>2. pc \in ClientWaits
  BY <1>1, ClientFrame DEF EarlyForm, Steps, Before, ClientWaits, Running
<1>3. rcv.msg.type = "none"
  BY <1>2 DEF QuietForm, Free, NoMsg
<1>4. toCli # <<>>
  BY <1>3, ClientFrame DEF RegisterReport, ParamReport, SwitchMode, ChangeLinkStrategy, ChangeLinkRules,
            ClearLinkRules, InsertLinkRule, LinkRulesChanged, RejectLinkRules, MatchRuleMsg, Etfinfo, Takes, Handles
<1>5. pc = "registered" /\ toCli[1].type = "register"
  BY <1>2, <1>4 DEF QuietForm
<1> QED  BY <1>3, <1>5, ClientFrame DEF RegisterReport, ParamReport, SwitchMode, ChangeLinkStrategy, ChangeLinkRules,
            ClearLinkRules, InsertLinkRule, LinkRulesChanged, RejectLinkRules, MatchRuleMsg, Etfinfo, Takes, Handles, Msg

LEMMA TellsOne ==
    ASSUME WireForm, NEW msgs, Tell(msgs), msgs = <<>> \/ \E m : msgs = <<m>> /\ m.type # "register"
    PROVE  toCli' = toCli \/ \E m : toCli' = Append(toCli, m) /\ m.type # "register"
<1>1. CASE msgs = <<>> \/ ~up
  BY <1>1 DEF Tell, WireForm
<1>2. CASE msgs # <<>> /\ up
  <2>1. PICK m : msgs = <<m>> /\ m.type # "register"
    BY <1>2
  <2>2. toCli \o <<m>> = Append(toCli, m)
    BY DEF WireForm
  <2> QED  BY <1>2, <2>1, <2>2 DEF Tell
<1> QED  BY <1>1, <1>2

\* What the web server does to the messages.
LEMMA ServerSends ==
    ASSUME WireForm, NEW b, WebServer(b)
    PROVE  \/ toSrv' = toSrv /\ (toCli' = toCli \/ \E m : toCli' = Append(toCli, m) /\ m.type # "register")
           \/ /\ toSrv # <<>> /\ toSrv' = Tail(toSrv)
              /\ \E m \in FromServer : toCli' = Append(toCli, m) /\ m.type = toSrv[1].type
<1>1. CASE (EditRule \/ Relink \/ NewStrategy \/ NewEtf \/ Switch \/ RestartAsked) /\ UNCHANGED toSrv
  <2>1. \E msgs : Tell(msgs) /\ (msgs = <<>> \/ \E m : msgs = <<m>> /\ m.type # "register")
    <3>1. CASE EditRule
      <4>1. PICK r \in Rules :
              LET k == IF r \in ShRules THEN ShKey ELSE SzKey
              IN  Tell(IF r \in srv.link[k] THEN <<LinksMsg(k)>> ELSE <<>>)
        BY <3>1 DEF EditRule
      <4> DEFINE k == IF r \in ShRules THEN ShKey ELSE SzKey
      <4>2. Tell(<<LinksMsg(k)>>) \/ Tell(<<>>)
        BY <4>1
      <4>3. LinksMsg(k).type # "register"
        BY DEF LinksMsg
      <4> HIDE DEF k
      <4> QED  BY <4>2, <4>3
    <3>2. CASE Relink
      <4>1. PICK k : Tell(<<LinksMsg(k)>>)
        BY <3>2 DEF Relink
      <4>2. LinksMsg(k).type # "register"
        BY DEF LinksMsg
      <4> QED  BY <4>1, <4>2
    <3>3. CASE NewStrategy
      <4>1. PICK who, bad : Tell(<<[type |-> "strategy", who |-> who, ver |-> srv.pol[who] + 1, bad |-> bad]>>)
        BY <3>3 DEF NewStrategy
      <4> QED  BY <4>1
    <3>4. CASE NewEtf
      <4>1. PICK bad : Tell(<<[type |-> "etf", doc |-> [info |-> Yuan(srv.etf + 1), comps |-> Yuan(srv.etf + 1), bad |-> bad]]>>)
        BY <3>4 DEF NewEtf
      <4> QED  BY <4>1
    <3>5. CASE Switch
      <4>1. PICK v : Tell(<<[type |-> "switch", to |-> v]>>)
        BY <3>5 DEF Switch
      <4> QED  BY <4>1
    <3>6. CASE RestartAsked
      BY <3>6 DEF RestartAsked
    <3> QED  BY <1>1, <3>1, <3>2, <3>3, <3>4, <3>5, <3>6
  <2> QED  BY <1>1, <2>1, TellsOne
<1>2. CASE Answer
  <2> DEFINE q == toSrv[1]
  <2>1. toSrv # <<>> /\ toSrv' = Tail(toSrv) /\ q \in ToServer
    BY <1>2 DEF Answer, WireForm
  <2>2. \E m : toCli' = Append(toCli, m) /\ m.type = q.type
    <3>1. CASE q.type = "register"
      BY <1>2, <3>1 DEF Answer
    <3>2. CASE q.type = "param"
      <4>1. PICK bad \in BadParts \cup {"none"} :
              toCli' = Append(toCli, [type |-> "param", bad |-> bad, pol |-> srv.pol, sh |-> Times(ShKey), sz |-> Times(SzKey)])
        BY <1>2, <3>2 DEF Answer
      <4> QED  BY <3>2, <4>1
    <3>3. CASE q.type \notin {"register", "param"}
      <4>1. toCli' = Append(toCli, [type |-> "rules", docs |-> [i \in DOMAIN q.rules |-> VerOf(q.rules[i])]])
        BY <1>2, <3>3 DEF Answer
      <4>2. q.type = "rules"
        BY <2>1, <3>3 DEF ToServer
      <4> QED  BY <4>1, <4>2
    <3> QED  BY <3>1, <3>2, <3>3
  <2>3. PICK m : toCli' = Append(toCli, m) /\ m.type = q.type
    BY <2>2
  <2>4. toCli' \in Seq(FromServer)
    BY <1>2, AnswerForm
  <2>5. m \in FromServer
    <3>1. toCli'[Len(toCli) + 1] = m /\ Len(toCli') = Len(toCli) + 1
      BY <2>3 DEF WireForm
    <3>2. \A i \in 1..Len(toCli') : toCli'[i] \in FromServer
      BY <2>4
    <3>3. Len(toCli) + 1 \in 1..(Len(toCli) + 1)
      BY DEF WireForm
    <3> QED  BY <3>1, <3>2, <3>3
  <2> QED  BY <2>1, <2>3, <2>5
<1> QED  BY <1>1, <1>2 DEF WebServer

\* What the client's thread sends: requests for rules.
LEMMA ClientSends ==
    ASSUME WireForm, Reply \/ CheckLinkRuleSync
    PROVE  toSrv' = toSrv \/ \E m : toSrv' = Append(toSrv, m) /\ m.type = "rules"
<1>1. CASE Reply
  <2>1. toSrv' = toSrv \/ toSrv' = toSrv \o <<>>
    BY <1>1 DEF Reply, SendMsgToServer, Sent
  <2> QED  BY <2>1 DEF WireForm
<1>2. CASE CheckLinkRuleSync
  <2>1. toSrv' = toSrv \/ toSrv' = toSrv \o <<[type |-> "rules", rules |-> Ascending(NeedFetchRule)]>>
    BY <1>2 DEF CheckLinkRuleSync, GetMatchRuleContent, SendMsgToServer, Sent
  <2>2. \A m : toSrv \o <<m>> = Append(toSrv, m)
    BY DEF WireForm
  <2>3. CASE toSrv' = toSrv
    BY <2>3
  <2>4. CASE toSrv' = toSrv \o <<[type |-> "rules", rules |-> Ascending(NeedFetchRule)]>>
    <3>1. toSrv' = Append(toSrv, [type |-> "rules", rules |-> Ascending(NeedFetchRule)])
      BY <2>2, <2>4
    <3> QED  BY <3>1
  <2> QED  BY <2>1, <2>3, <2>4
<1> QED  BY <1>1, <1>2

LEMMA NoneAppended ==
    ASSUME NEW S, NEW s \in Seq(S), NEW m, \A i \in DOMAIN s : s[i].type # "register", m.type # "register"
    PROVE  \A i \in DOMAIN Append(s, m) : Append(s, m)[i].type # "register"
BY AppendProperties

LEMMA NoneInTail ==
    ASSUME NEW S, NEW s \in Seq(S), s # <<>>, \A i \in DOMAIN s : s[i].type # "register"
    PROVE  \A i \in DOMAIN Tail(s) : Tail(s)[i].type # "register"
OBVIOUS

LEMMA NoRegisterStep ==
    ASSUME WireForm, NoRegister,
           \/ UNCHANGED toCli
           \/ toCli # <<>> /\ toCli' = Tail(toCli)
           \/ \E m : toCli' = Append(toCli, m) /\ m.type # "register",
           \/ UNCHANGED toSrv
           \/ toSrv # <<>> /\ toSrv' = Tail(toSrv)
           \/ \E m : toSrv' = Append(toSrv, m) /\ m.type # "register"
    PROVE  NoRegister'
<1>1. \A i \in DOMAIN toCli' : toCli'[i].type # "register"
  <2>1. CASE UNCHANGED toCli
    BY <2>1 DEF NoRegister
  <2>2. CASE toCli # <<>> /\ toCli' = Tail(toCli)
    BY <2>2, NoneInTail DEF NoRegister, WireForm
  <2>3. CASE \E m : toCli' = Append(toCli, m) /\ m.type # "register"
    BY <2>3, NoneAppended DEF NoRegister, WireForm
  <2> QED  BY <2>1, <2>2, <2>3
<1>2. \A i \in DOMAIN toSrv' : toSrv'[i].type # "register"
  <2>1. CASE UNCHANGED toSrv
    BY <2>1 DEF NoRegister
  <2>2. CASE toSrv # <<>> /\ toSrv' = Tail(toSrv)
    BY <2>2, NoneInTail DEF NoRegister, WireForm
  <2>3. CASE \E m : toSrv' = Append(toSrv, m) /\ m.type # "register"
    BY <2>3, NoneAppended DEF NoRegister, WireForm
  <2> QED  BY <2>1, <2>2, <2>3
<1> QED  BY <1>1, <1>2 DEF NoRegister

LEMMA QuietStart == ASSUME WireForm, EarlyForm, QuietForm, Start PROVE QuietForm'
<1>1. UNCHANGED <<toCli, rcv, conf, times, acked>> /\ NoTimes' = NoTimes
  BY StartFrame DEF StartLeaves, NoTimes
<1>2. CASE CheckLicense \/ ReadConfig \/ CheckMysql \/ LoadConfigFromDb \/ ReadId
  <2>1. pc \in Before /\ pc' \in Before \cup {"5", "ended"} /\ UNCHANGED <<toSrv, woken>>
    BY <1>2 DEF CheckLicense, ReadConfig, CheckMysql, LoadConfigFromDb, ReadId, Before, Ends
  <2>2. toSrv = <<>> /\ toCli = <<>> /\ woken = {}
    BY <2>1 DEF EarlyForm
  <2>3. NoRegister'
    BY <1>1, <2>1, <2>2 DEF NoRegister
  <2>4. pc' \notin ClientWaits
    BY <2>1 DEF ClientWaits, Before
  <2>5. pc' # "registered"
    BY <2>4 DEF ClientWaits
  <2> QED  BY <1>1, <2>1, <2>2, <2>3, <2>4, <2>5 DEF QuietForm
<1>3. CASE Connect
  <2>1. pc \in Before /\ UNCHANGED woken /\ pc' \in {"keep", "registered", "ended"}
    BY <1>3 DEF Connect, Before, Ends
  <2>2. toSrv = <<>> /\ toCli = <<>> /\ woken = {} /\ rcv = Free /\ conf = {} /\ times = NoTimes /\ acked = 0
    BY <2>1 DEF EarlyForm
  <2>3. pc' = "keep" => toSrv' = <<>>
    BY <1>3, <2>2 DEF Connect, Ends
  <2>4. pc' = "registered" => toSrv' = <<[type |-> "register"]>>
    BY <1>3, <2>2 DEF Connect, Ends, RegisterToServer
  <2> QED  BY <1>1, <2>1, <2>2, <2>3, <2>4 DEF QuietForm, ClientWaits, Running
<1>4. CASE KeepId \/ SaveIdFromWeb \/ SaveIdToFile
  BY <1>1, <1>4 DEF KeepId, SaveIdFromWeb, SaveIdToFile, QuietForm, ClientWaits, Running, Ends
<1>5. CASE Wait("registered", "register", "savedb")
  <2>1. pc = "registered" /\ UNCHANGED toSrv /\ woken' = woken \ {"register"}
        /\ pc' = IF "register" \in woken THEN "savedb" ELSE "ended"
    BY <1>5 DEF Wait
  <2>2. CASE "register" \in woken
    BY <1>1, <2>1, <2>2 DEF QuietForm, ClientWaits, Running
  <2>3. CASE "register" \notin woken
    BY <1>1, <2>1, <2>3 DEF QuietForm, ClientWaits, Running
  <2> QED  BY <2>2, <2>3
<1>6. CASE AskConfig
  <2>1. pc = "4_4" /\ pc' = "asked" /\ UNCHANGED woken /\ toSrv = <<>> /\ toCli = <<>> /\ woken = {}
    BY <1>6 DEF AskConfig, QuietForm, ClientWaits
  <2>2. toSrv' \in {<<>>, <<[type |-> "param"]>>}
    BY <1>6, <2>1 DEF AskConfig, GetParamFromServer
  <2>3. NoRegister'
    BY <1>1, <2>1, <2>2 DEF NoRegister
  <2> QED  BY <1>1, <2>1, <2>3 DEF QuietForm, ClientWaits, Running
<1>7. CASE Wait("asked", "param", "5") \/ CheckRedis \/ CheckRules \/ ThreadsStartup
  <2>1. pc \in Running /\ pc' \in Running \cup {"ended"} /\ woken' \subseteq woken
    BY <1>7 DEF Wait, CheckRedis, CheckRules, ThreadsStartup, Running, Ends
  <2>2. toSrv' = toSrv \/ \E m : toSrv' = Append(toSrv, m) /\ m.type = "rules"
    BY <1>7, ClientSends DEF Wait, CheckRedis, CheckRules, ThreadsStartup
  <2>3. NoRegister'
    BY <1>1, <2>1, <2>2, NoRegisterStep DEF QuietForm
  <2>4. pc' \notin ClientWaits
    BY <2>1 DEF ClientWaits, Running
  <2>5. pc' # "registered"
    BY <2>4 DEF ClientWaits
  <2> QED  BY <1>1, <2>1, <2>3, <2>4, <2>5 DEF QuietForm
<1> QED  BY <1>2, <1>3, <1>4, <1>5, <1>6, <1>7 DEF Start

LEMMA QuietHandler == ASSUME WireForm, EarlyForm, QuietForm, Client PROVE QuietForm'
<1>1. UNCHANGED pc /\ pc # "ended"
  BY ClientFrame DEF mainVars
<1>2. CASE pc \notin Running
  <2>1. pc = "registered" /\ RegisterReport
    BY <1>2, QuietClient
  <2>2. toCli # <<>> /\ toCli' = Tail(toCli) /\ woken' = woken \cup {"register"} /\ UNCHANGED <<toSrv, rcv, conf, acked, times>>
    BY <2>1 DEF RegisterReport, Takes
  <2>3. PICK m : toCli = <<m>> /\ toSrv = <<>> /\ woken = {}
    BY <2>1, <2>2 DEF QuietForm
  <2>4. toCli' = <<>>
    BY <2>2, <2>3
  <2>5. NoTimes' = NoTimes
    BY DEF NoTimes
  <2> QED  BY <1>1, <2>1, <2>2, <2>3, <2>4, <2>5 DEF QuietForm, ClientWaits, Running
<1>3. CASE pc \in Running
  <2>1. NoRegister /\ woken \subseteq {"param"}
    BY <1>3 DEF QuietForm
  <2>2. toCli' = toCli \/ (toCli # <<>> /\ toCli' = Tail(toCli))
    BY ClientFrame DEF RegisterReport, ParamReport, SwitchMode, ChangeLinkStrategy, ChangeLinkRules, ClearLinkRules, InsertLinkRule, LinkRulesChanged, RejectLinkRules,
     MatchRuleMsg, Etfinfo, Takes, Handles
  <2>3. UNCHANGED <<up, toSrv>> \/ Reply \/ CheckLinkRuleSync
    BY ClientFrame DEF RegisterReport, ParamReport, SwitchMode, ChangeLinkStrategy, ChangeLinkRules, ClearLinkRules, InsertLinkRule, LinkRulesChanged, RejectLinkRules,
     MatchRuleMsg, Etfinfo
  <2>4. toSrv' = toSrv \/ \E m : toSrv' = Append(toSrv, m) /\ m.type = "rules"
    BY <2>3, ClientSends
  <2>5. NoRegister'
    BY <2>1, <2>2, <2>4, NoRegisterStep
  <2>6. ~RegisterReport
    <3>1. toCli # <<>> => toCli[1].type # "register"
      BY <2>1 DEF NoRegister, WireForm
    <3> QED  BY <3>1 DEF RegisterReport, Takes, Msg
  <2>7. woken' \subseteq {"param"}
    BY <2>1, <2>6, ClientFrame DEF ParamReport, SwitchMode, ChangeLinkStrategy, ChangeLinkRules, MatchRuleMsg, Etfinfo
  <2>8. pc' \notin ClientWaits /\ pc' # "registered"
    BY <1>1, <1>3 DEF ClientWaits, Running
  <2> QED  BY <2>5, <2>7, <2>8 DEF QuietForm
<1> QED  BY <1>2, <1>3

LEMMA QuietServer == ASSUME WireForm, QuietForm, Environment PROVE QuietForm'
<1>1. UNCHANGED <<pc, times, woken>> /\ NoTimes' = NoTimes
  BY DEF Environment, mainVars, WebServer, LoseConnection, NoTimes
<1>2. CASE UNCHANGED <<srv, cliVars, woken, id>>
  BY <1>1, <1>2 DEF QuietForm, cliVars, NoRegister
<1>3. CASE WebServer(pc = "0" /\ starts > 1)
  <2>1. UNCHANGED <<rcv, conf, acked>>
    BY <1>3 DEF WebServer
  <2>2. \/ toSrv' = toSrv /\ (toCli' = toCli \/ \E m : toCli' = Append(toCli, m) /\ m.type # "register")
        \/ /\ toSrv # <<>> /\ toSrv' = Tail(toSrv)
           /\ \E m \in FromServer : toCli' = Append(toCli, m) /\ m.type = toSrv[1].type
    BY <1>3, ServerSends
  <2>3. CASE pc \in Running
    <3>1. toSrv # <<>> => toSrv[1].type # "register"
      BY <2>3 DEF QuietForm, NoRegister, WireForm
    <3>2. NoRegister'
      BY <2>2, <2>3, <3>1, NoRegisterStep DEF QuietForm
    <3> QED  BY <1>1, <2>3, <3>2 DEF QuietForm, ClientWaits, Running
  <2>4. CASE pc \in ClientWaits
    <3>1. conf = {} /\ \A i \in DOMAIN toCli : toCli[i].type # "param"
      BY <2>4 DEF QuietForm, ClientWaits
    <3>2. ~Configured /\ pc # "0"
      BY <2>4, <3>1 DEF Configured, ClientWaits
    <3>3. Answer
      BY <1>3, <3>2 DEF WebServer
    <3>4. pc = "registered" /\ toSrv = <<[type |-> "register"]>> /\ toCli = <<>> /\ woken = {}
      BY <2>4, <3>3 DEF QuietForm, Answer
    <3>5. PICK m \in FromServer : toCli' = <<m>> /\ m.type = "register"
      BY <2>2, <3>3, <3>4 DEF Answer
    <3>6. m = [type |-> "register", id |-> m.id] /\ m.id \in Nat
      BY <3>5 DEF FromServer, RegisterMsg, ParamMsg, LinkMsg, StrategyMsg, EtfMsg, SwitchMsg, RestartMsg, RulesMsg
    <3>7. toSrv' = <<>>
      BY <3>3, <3>4 DEF Answer
    <3> QED  BY <1>1, <2>1, <2>4, <3>4, <3>5, <3>6, <3>7 DEF QuietForm, ClientWaits, Running
  <2>5. CASE pc \notin Running \cup ClientWaits
    BY <1>1, <2>5 DEF QuietForm, Running, ClientWaits
  <2> QED  BY <2>3, <2>4, <2>5
<1>4. CASE LoseConnection
  <2>1. toSrv' = <<>> /\ toCli' = <<>> /\ UNCHANGED <<rcv, conf, acked>>
    BY <1>4 DEF LoseConnection
  <2>2. NoRegister'
    BY <2>1 DEF NoRegister
  <2>3. pc = "registered" => woken \subseteq {"register"}
    BY DEF QuietForm
  <2> QED  BY <1>1, <2>1, <2>2, <2>3 DEF QuietForm
<1> QED  BY <1>2, <1>3, <1>4 DEF Environment

LEMMA QuietStep == ASSUME WireForm, EarlyForm, QuietForm, [GatewayNext]_gatewayVars PROVE QuietForm'
<1>0. NoTimes' = NoTimes
  BY DEF NoTimes
<1>1. CASE Start \/ Client \/ Environment
  BY <1>1, QuietStart, QuietHandler, QuietServer
<1>2. CASE Shanghai
  BY <1>0, <1>2 DEF Shanghai, cliVars, mainVars, QuietForm, NoRegister
<1>3. CASE RestartRequest \/ Restart
  <2>1. pc' \notin ClientWaits \cup Running /\ pc' # "registered"
    BY <1>3 DEF RestartRequest, Restart, Ends, ClientWaits, Running
  <2> QED  BY <2>1 DEF QuietForm
<1>4. CASE UNCHANGED gatewayVars
  BY <1>0, <1>4 DEF gatewayVars, cliVars, mainVars, QuietForm, NoRegister
<1> QED  BY <1>1, <1>2, <1>3, <1>4 DEF GatewayNext

-----------------------------------------------------------------------------
(* The identity and the configuration of a start                           *)

AllParts == {"sys", "sz", "sh"}

\* The main thread is only woken when there is what it waits for.
ConfiguredForm ==
    /\ "param" \in woken => conf = AllParts
    /\ WebMan /\ pc \in {"5", "8", "9", "run"} => conf = AllParts
    /\ "register" \in woken \/ pc \in {"keep", "savedb", "savefile"} => id.mem # NoId
    /\ WebMan /\ pc \in {"4_4"} \cup Running => id.mem # NoId
    /\ pc \in {"4_1", "4_3"} \cup ClientWaits \cup {"asked"} => WebMan

\* One failure of the two leaves the identity that is used in the file, and
\* another one in the database is not one that was used.
Few == ~({"readid", "saveid"} \subseteq faults)
IdentityForm ==
    /\ Few =>
         /\ used \subseteq {id.file}
         /\ id.file # NoId /\ Normal => id.db \in {NoId, id.file}
         /\ id.file = NoId => used = {}
         /\ pc \in {"4_3", "keep"} => id.mem = IdFromMysql \/ (id.mem = id.file /\ "readid" \in faults)
         /\ pc \in {"registered", "savedb", "savefile"} => id.file = NoId
         /\ pc \in {"registered", "savedb"} /\ Normal => id.db = NoId \/ "readid" \in faults
         /\ pc = "savefile" /\ Normal => id.db \in {NoId, id.mem}
         /\ WebMan /\ pc \in {"4_4"} \cup Running => id.mem = id.file

LEMMA ModeStays == ASSUME [GatewayNext]_gatewayVars PROVE UNCHANGED mode /\ (WebMan' <=> WebMan) /\ (Normal' <=> Normal)
<1>1. UNCHANGED mode
  BY StartFrame, ClientFrame DEF GatewayNext, StartLeaves, Shanghai, Environment, RestartRequest, Restart, gatewayVars, mainVars
<1> QED  BY <1>1 DEF WebMan, Normal

LEMMA ConfiguredInit == GatewayInit => ConfiguredForm /\ IdentityForm
BY DEF GatewayInit, CliInit, ConfiguredForm, IdentityForm, ClientWaits, Running

LEMMA ConfiguredStart == ASSUME EarlyForm, QuietForm, HandForm, ConfiguredForm, Start PROVE ConfiguredForm'
<1>1. UNCHANGED conf /\ UNCHANGED mode /\ (WebMan' <=> WebMan)
  BY StartFrame DEF StartLeaves, WebMan
<1> USE DEF ClientWaits, Running, Ends
<1>2. CASE CheckLicense \/ CheckMysql
  BY <1>1, <1>2 DEF CheckLicense, CheckMysql, ConfiguredForm
<1>3. CASE ReadConfig
  BY <1>1, <1>3 DEF ReadConfig, ConfiguredForm
<1>4. CASE LoadConfigFromDb
  BY <1>1, <1>4 DEF LoadConfigFromDb, ConfiguredForm
<1>5. CASE ReadId
  <2>1. woken' = {} /\ pc' = "4_3" /\ WebMan
    BY <1>5 DEF ReadId, EarlyForm, Before, ConfiguredForm
  <2> QED  BY <1>1, <2>1 DEF ConfiguredForm
<1>6. CASE Connect
  BY <1>1, <1>6 DEF Connect, ConfiguredForm
<1>7. CASE KeepId
  <2>1. id' = id \/ (id'.mem = id.mem)
    BY <1>7 DEF KeepId, Kept
  <2> QED  BY <1>1, <1>7, <2>1 DEF KeepId, ConfiguredForm
<1>8. CASE Wait("registered", "register", "savedb") \/ Wait("asked", "param", "5")
  BY <1>1, <1>8 DEF Wait, ConfiguredForm
<1>9. CASE SaveIdFromWeb
  <2>1. id'.mem = id.mem
    BY <1>9 DEF SaveIdFromWeb, HandForm
  <2> QED  BY <1>1, <1>9, <2>1 DEF SaveIdFromWeb, ConfiguredForm
<1>10. CASE SaveIdToFile
  <2>1. id'.mem = id.mem
    BY <1>10 DEF SaveIdToFile, HandForm
  <2> QED  BY <1>1, <1>10, <2>1 DEF SaveIdToFile, ConfiguredForm
<1>11. CASE AskConfig \/ CheckRedis \/ CheckRules \/ ThreadsStartup
  BY <1>1, <1>11 DEF AskConfig, CheckRedis, CheckRules, ThreadsStartup, ConfiguredForm
<1> QED  BY <1>2, <1>3, <1>4, <1>5, <1>6, <1>7, <1>8, <1>9, <1>10, <1>11 DEF Start

LEMMA ConfiguredStep ==
    ASSUME WireForm, EarlyForm, QuietForm, HandForm, ConfiguredForm, [GatewayNext]_gatewayVars
    PROVE  ConfiguredForm'
<1>0. (WebMan' <=> WebMan)
  BY ModeStays
<1>1. CASE Start
  BY <1>1, ConfiguredStart
<1>2. CASE Client
  <2>1. UNCHANGED pc
    BY <1>2, ClientFrame DEF mainVars
  <2>2. CASE RegisterReport
    <3>1. Msg.id \in Nat
      BY <2>2, TailForm, RegisterMsgIs DEF RegisterReport, Takes, WireForm, Msg
    <3>2. id'.mem # NoId /\ UNCHANGED conf /\ woken' = woken \cup {"register"}
      BY <2>2, <3>1, ClienterAssumption DEF RegisterReport, HandForm
    <3> QED  BY <1>0, <2>1, <3>2 DEF ConfiguredForm
  <2>3. CASE ParamReport
    <3>1. conf' = conf \cup Applied(Msg.bad) /\ UNCHANGED id /\ woken' \subseteq woken \cup {"param"}
          /\ ("param" \in woken' => "param" \in woken \/ Msg.bad = "none")
      BY <2>3 DEF ParamReport, Signalled
    <3>2. Applied("none") = AllParts /\ Applied(Msg.bad) \subseteq AllParts
      BY DEF Applied, GetSysConfig, GetSzConnConfig, GetShConnConfig, AllParts
    <3>3. conf = AllParts => conf' = AllParts
      BY <3>1, <3>2
    <3>4. Msg.bad = "none" => conf' = AllParts
      BY <3>1, <3>2 DEF HandForm, AllParts
    <3> QED  BY <1>0, <2>1, <3>1, <3>3, <3>4 DEF ConfiguredForm
  <2>4. CASE SwitchMode(Normal) \/ ChangeLinkStrategy \/ ChangeLinkRules \/ MatchRuleMsg(Normal) \/ Etfinfo(Normal)
    <3>1. UNCHANGED <<conf, woken, id>>
      BY <2>4 DEF SwitchMode, ChangeLinkStrategy, ChangeLinkRules, MatchRuleMsg, Etfinfo
    <3> QED  BY <1>0, <2>1, <3>1 DEF ConfiguredForm
  <2> QED  BY <1>2, <2>2, <2>3, <2>4, ClientFrame
<1>3. CASE Environment
  BY <1>0, <1>3 DEF Environment, mainVars, WebServer, LoseConnection, cliVars, ConfiguredForm
<1>4. CASE Shanghai
  BY <1>0, <1>4 DEF Shanghai, mainVars, cliVars, ConfiguredForm
<1>5. CASE RestartRequest
  BY <1>0, <1>5 DEF RestartRequest, ConfiguredForm, Ends, ClientWaits, Running
<1>6. CASE Restart
  BY <1>0, <1>6 DEF Restart, CliLost, ConfiguredForm, ClientWaits, Running
<1>7. CASE UNCHANGED gatewayVars
  BY <1>0, <1>7 DEF gatewayVars, mainVars, cliVars, ConfiguredForm
<1> QED  BY <1>1, <1>2, <1>3, <1>4, <1>5, <1>6, <1>7 DEF GatewayNext

LEMMA IdentityStart ==
    ASSUME HandForm, ConfiguredForm, IdentityForm, FaultForm, Few', Start, [GatewayNext]_gatewayVars
    PROVE  IdentityForm'
<1>1. (WebMan' <=> WebMan) /\ (Normal' <=> Normal) /\ faults \subseteq faults' /\ Few
  BY ModeStays, FaultsGrow DEF Few
<1>2. id = [mem |-> id.mem, file |-> id.file, db |-> id.db]
  BY DEF HandForm
<1> USE DEF ClientWaits, Running, Ends
<1>3. CASE CheckLicense \/ ReadConfig \/ CheckMysql \/ LoadConfigFromDb
  <2>1. UNCHANGED <<id, used>> /\ (pc' \in {"2", "3_1", "3_3", "4_1", "ended"} \/ (pc' = "5" /\ ~WebMan))
    BY <1>3 DEF CheckLicense, ReadConfig, CheckMysql, LoadConfigFromDb
  <2> QED  BY <1>1, <2>1 DEF IdentityForm
<1>4. CASE ReadId
  <2>1. UNCHANGED used /\ pc' = "4_3" /\ \/ id' = [id EXCEPT !.mem = IdFromMysql]
                                         \/ id' = [id EXCEPT !.mem = id.file] /\ "readid" \in faults'
    BY <1>4 DEF ReadId, Fails
  <2>2. id'.file = id.file /\ id'.db = id.db /\ (id'.mem = IdFromMysql \/ (id'.mem = id.file /\ "readid" \in faults'))
    BY <1>2, <2>1
  <2>3. IdFromMysql' = IdFromMysql
    BY <1>1, <2>2 DEF IdFromMysql
  <2> QED  BY <1>1, <2>1, <2>2, <2>3 DEF IdentityForm
<1>5. CASE Connect
  <2>1. UNCHANGED <<id, used>> /\ pc = "4_3" /\ pc' \in {"keep", "registered", "ended"} /\ (pc' = "registered" => id.mem = NoId)
    BY <1>5 DEF Connect
  <2>2. id.mem = IdFromMysql \/ (id.mem = id.file /\ "readid" \in faults)
    BY <1>1, <2>1 DEF IdentityForm
  <2>3. IdFromMysql' = IdFromMysql
    BY <1>1, <2>1 DEF IdFromMysql
  <2>4. pc' = "registered" => id.file = NoId /\ (Normal => id.db = NoId \/ "readid" \in faults)
    BY <2>1, <2>2 DEF IdFromMysql
  <2> QED  BY <1>1, <2>1, <2>2, <2>3, <2>4 DEF IdentityForm
<1>6. CASE KeepId
  <2>1. pc = "keep" /\ UNCHANGED used /\ id.mem # NoId /\ pc' \in {"4_4", "ended"}
    BY <1>6 DEF KeepId, ConfiguredForm
  <2>2. id.mem = IdFromMysql \/ id.mem = id.file
    BY <1>1, <2>1 DEF IdentityForm
  <2>3. id.file # NoId => id.mem = id.file
    BY <1>1, <2>2 DEF IdentityForm, IdFromMysql
  <2>4. id.file = NoId /\ Normal => id.db = id.mem
    BY <2>1, <2>2 DEF IdFromMysql
  <2>5. CASE UNCHANGED id /\ pc' = "ended"
    BY <1>1, <2>1, <2>5 DEF IdentityForm
  <2>6. CASE pc' = "4_4" /\ (id' = Kept \/ (Normal /\ id.db = NoId /\ id' = [Kept EXCEPT !.db = NoId]))
    <3>1. id'.mem = id.mem /\ id'.file = id.mem
      BY <2>3, <2>6 DEF Kept
    <3>2. Normal => id'.db \in {NoId, id.mem}
      <4>1. id.file # NoId /\ Normal => id.db \in {NoId, id.file}
        BY <1>1 DEF IdentityForm
      <4>2. Normal => id.db \in {NoId, id.mem}
        BY <2>3, <2>4, <4>1
      <4> QED  BY <2>6, <4>2 DEF Kept
    <3>3. used \subseteq {id.mem}
      BY <1>1, <2>3 DEF IdentityForm
    <3> QED  BY <1>1, <2>1, <2>6, <3>1, <3>2, <3>3 DEF IdentityForm
  <2> QED  BY <1>6, <2>5, <2>6 DEF KeepId
<1>7. CASE Wait("registered", "register", "savedb")
  BY <1>1, <1>7 DEF Wait, IdentityForm
<1>8. CASE SaveIdFromWeb
  <2>1. pc = "savedb" /\ pc' = "savefile" /\ UNCHANGED used
    BY <1>8 DEF SaveIdFromWeb
  <2>2. id.file = NoId /\ (Normal => id.db = NoId \/ "readid" \in faults) /\ used = {}
    BY <1>1, <2>1 DEF IdentityForm
  <2>3. id'.mem = id.mem /\ id'.file = NoId
    BY <1>2, <1>8, <2>2 DEF SaveIdFromWeb
  <2>4. Normal => id'.db \in {NoId, id.mem}
    <3>1. CASE Normal /\ Works
      BY <1>2, <1>8, <3>1, <2>2 DEF SaveIdFromWeb, Fails, Works
    <3>2. CASE Normal /\ Fails("saveid") /\ UNCHANGED id
      <4>1. "readid" \notin faults
        BY <1>1, <3>2 DEF Fails, Few
      <4> QED  BY <2>2, <3>2, <4>1
    <3> QED  BY <1>8, <3>1, <3>2 DEF SaveIdFromWeb
  <2> QED  BY <1>1, <2>1, <2>2, <2>3, <2>4 DEF IdentityForm
<1>9. CASE SaveIdToFile
  <2>1. pc = "savefile" /\ UNCHANGED used
    BY <1>9 DEF SaveIdToFile
  <2>2. id.file = NoId /\ used = {} /\ (Normal => id.db \in {NoId, id.mem})
    BY <1>1, <2>1 DEF IdentityForm
  <2>3. CASE pc' = "ended" /\ UNCHANGED id
    BY <1>1, <2>1, <2>3 DEF IdentityForm
  <2>4. CASE pc' = "4_4" /\ id' = [id EXCEPT !.file = id.mem]
    <3>1. id'.mem = id.mem /\ id'.file = id.mem /\ id'.db = id.db
      BY <1>2, <2>4
    <3> QED  BY <1>1, <2>1, <2>2, <2>4, <3>1 DEF IdentityForm
  <2> QED  BY <1>9, <2>3, <2>4 DEF SaveIdToFile
<1>10. CASE AskConfig \/ Wait("asked", "param", "5") \/ CheckRedis \/ CheckRules
  <2>1. UNCHANGED <<id, used>> /\ pc \in {"4_4"} \cup Running /\ pc' \in Running \cup {"ended"}
    BY <1>10 DEF AskConfig, Wait, CheckRedis, CheckRules
  <2> QED  BY <1>1, <2>1 DEF IdentityForm
<1>11. CASE ThreadsStartup
  <2>1. UNCHANGED id /\ pc = "9" /\ pc' \in {"run", "ended"} /\ used' \in {used, used \cup {id.mem}} /\ (used' # used => WebMan)
    BY <1>11 DEF ThreadsStartup
  <2>2. WebMan => id.mem = id.file /\ id.mem # NoId
    BY <1>1, <2>1 DEF IdentityForm, ConfiguredForm
  <2> QED  BY <1>1, <2>1, <2>2 DEF IdentityForm
<1> QED  BY <1>3, <1>4, <1>5, <1>6, <1>7, <1>8, <1>9, <1>10, <1>11 DEF Start

LEMMA IdentityStep ==
    ASSUME WireForm, EarlyForm, QuietForm, HandForm, FaultForm, ConfiguredForm, IdentityForm, [GatewayNext]_gatewayVars
    PROVE  IdentityForm'
<1>1. SUFFICES ASSUME Few' PROVE IdentityForm'
  BY DEF IdentityForm
<1>2. (WebMan' <=> WebMan) /\ (Normal' <=> Normal) /\ faults \subseteq faults' /\ Few
  BY <1>1, ModeStays, FaultsGrow DEF Few
<1>3. id = [mem |-> id.mem, file |-> id.file, db |-> id.db]
  BY DEF HandForm
<1>4. CASE Start
  BY <1>1, <1>4, IdentityStart
<1>5. CASE Client /\ RegisterReport
  <2>1. UNCHANGED <<pc, used>>
    BY <1>5, ClientFrame DEF mainVars
  <2>2. pc = "registered"
    <3>1. toCli # <<>> /\ toCli[1].type = "register" /\ pc # "ended"
      BY <1>5, ClientFrame DEF RegisterReport, Takes, Msg
    <3>2. pc \notin Running
      BY <3>1 DEF QuietForm, NoRegister, WireForm
    <3> QED  BY <1>5, <3>2, QuietClient
  <2>3. id'.file = id.file /\ id'.db = id.db
    BY <1>3, <1>5 DEF RegisterReport
  <2> QED  BY <1>2, <2>1, <2>2, <2>3 DEF IdentityForm, Running
<1>6. CASE UNCHANGED <<pc, used, id>>
  <2>1. IdFromMysql' = IdFromMysql
    BY <1>2, <1>6 DEF IdFromMysql
  <2> QED  BY <1>2, <1>6, <2>1 DEF IdentityForm
<1>7. CASE Restart \/ RestartRequest
  <2>1. UNCHANGED used /\ id'.file = id.file /\ id'.db = id.db /\ pc' \in {"0", "ended"}
    BY <1>3, <1>7 DEF Restart, RestartRequest, CliLost, Ends
  <2> QED  BY <1>2, <2>1 DEF IdentityForm, Running
<1>8. Start \/ (Client /\ RegisterReport) \/ UNCHANGED <<pc, used, id>> \/ Restart \/ RestartRequest
  BY ClientFrame DEF GatewayNext, gatewayVars, mainVars, Shanghai, Environment, WebServer, LoseConnection, ParamReport, SwitchMode,
     ChangeLinkStrategy, ChangeLinkRules, MatchRuleMsg, Etfinfo
<1> QED  BY <1>4, <1>5, <1>6, <1>7, <1>8

LEMMA StartWholeHolds == ConfiguredForm /\ IdentityForm => StartWhole
<1> SUFFICES ASSUME ConfiguredForm, IdentityForm PROVE OneIdInUse /\ StartedConfigured
  BY DEF StartWhole
<1>1. StartedConfigured
  BY DEF StartedConfigured, ConfiguredForm, AllParts, Running
<1>2. ASSUME Cardinality(faults \cap {"readid", "saveid"}) <= 1 PROVE Cardinality(used) <= 1
  <2>1. Few
    <3>1. SUFFICES ASSUME {"readid", "saveid"} \subseteq faults PROVE FALSE
      BY DEF Few
    <3>2. faults \cap {"readid", "saveid"} = {"readid", "saveid"}
      BY <3>1
    <3>3. Cardinality({"readid", "saveid"}) = 2
      <4>1. IsFiniteSet({"readid"}) /\ Cardinality({"readid"}) = 1
        BY FS_Singleton
      <4>2. {"readid", "saveid"} = {"readid"} \cup {"saveid"} /\ "saveid" \notin {"readid"}
        OBVIOUS
      <4> QED  BY <4>1, <4>2, FS_AddElement
    <3> QED  BY <1>2, <3>2, <3>3
  <2>2. used \subseteq {id.file}
    BY <2>1 DEF IdentityForm
  <2>3. IsFiniteSet({id.file}) /\ Cardinality({id.file}) = 1
    BY FS_Singleton
  <2>4. Cardinality(used) <= Cardinality({id.file})
    BY <2>2, <2>3, FS_Subset
  <2> QED  BY <2>3, <2>4
<1> QED  BY <1>1, <1>2 DEF OneIdInUse

-----------------------------------------------------------------------------
(* The rules                                                               *)

LEMMA NoTimesForm == NoTimes \in [Range(Keys) -> [Rules -> 0..MaxVer]]
BY ClienterAssumption DEF NoTimes

LEMMA TimesInit == GatewayInit => TimesForm
BY NoTimesForm, ClienterAssumption, ShConnAssumption, RulesAssumption DEF GatewayInit, ShInit, TimesForm, NoTimes, Rules

\* Under one key a connection's market.
LEMMA TimesPut ==
    ASSUME TimesForm, NEW k \in Range(Keys), NEW t \in [Rules -> 0..MaxVer],
           k # ShKey => \A r \in ShRules : t[r] = 0, k = ShKey => \A r \in SzRules : t[r] = 0,
           NEW new, new = [times EXCEPT ![k] = t]
    PROVE  /\ new \in [Range(Keys) -> [Rules -> 0..MaxVer]]
           /\ \A j \in Range(Keys), r \in ShRules : j # ShKey => new[j][r] = 0
           /\ \A r \in SzRules : new[ShKey][r] = 0
<1>1. \A j \in Range(Keys) : new[j] = IF j = k THEN t ELSE times[j]
  BY DEF TimesForm
<1>2. new \in [Range(Keys) -> [Rules -> 0..MaxVer]]
  BY DEF TimesForm
<1> QED  BY <1>1, <1>2, ShConnAssumption DEF TimesForm

LEMMA LinkedIs ==
    ASSUME NEW R, NEW t \in LinkedTo(R)
    PROVE  t \in [Rules -> 0..MaxVer] /\ \A r \in Rules \ R : t[r] = 0
BY DEF LinkedTo

LEMMA ZeroLinked == \A R : [r \in Rules |-> 0] \in LinkedTo(R)
BY ClienterAssumption DEF LinkedTo

LEMMA MarketOnly ==
    ASSUME NEW k \in {ShKey, SzKey}, NEW t \in LinkedTo(MarketOf(k))
    PROVE  /\ t \in [Rules -> 0..MaxVer]
           /\ k # ShKey => \A r \in ShRules : t[r] = 0
           /\ k = ShKey => \A r \in SzRules : t[r] = 0
<1>1. t \in [Rules -> 0..MaxVer] /\ \A r \in Rules \ MarketOf(k) : t[r] = 0
  BY LinkedIs
<1> QED  BY <1>1, RulesAssumption DEF MarketOf, Rules

LEMMA TimesStep == ASSUME WireForm, HandForm, TimesForm, [GatewayNext]_gatewayVars PROVE TimesForm'
<1>0. ASSUME UNCHANGED times PROVE TimesForm'
  BY <1>0 DEF TimesForm
<1>1. CASE Start
  BY <1>0, <1>1, StartFrame DEF StartLeaves
<1>2. CASE Client
  <2>1. CASE ParamReport
    <3>1. CASE UNCHANGED times
      BY <1>0, <3>1
    <3>2. CASE times' = LinkMatchRuleRelations(Msg)
      <4>1. Msg \in FromServer /\ Msg.type = "param"
        BY <2>1, TailForm DEF ParamReport, Takes, WireForm, Msg
      <4>2. Msg.sh \in LinkedTo(ShRules) /\ Msg.sz \in LinkedTo(SzRules)
        BY <4>1, ParamMsgIs
      <4>3. Msg.sh \in [Rules -> 0..MaxVer] /\ Msg.sz \in [Rules -> 0..MaxVer]
            /\ (\A r \in SzRules : Msg.sh[r] = 0) /\ (\A r \in ShRules : Msg.sz[r] = 0)
        BY <4>2, LinkedIs, RulesAssumption DEF Rules
      <4>4. SzComp # ShKey /\ SzComp \in Range(Keys) /\ ShKey \in Range(Keys)
        BY ClienterAssumption, ShConnAssumption
      <4>5. times' = [times EXCEPT ![ShKey] = Msg.sh, ![SzComp] = Msg.sz]
        BY <3>2 DEF LinkMatchRuleRelations
      <4>6. times' \in [Range(Keys) -> [Rules -> 0..MaxVer]]
        BY <4>3, <4>4, <4>5 DEF TimesForm
      <4>7. \A j \in Range(Keys) : times'[j] = IF j = SzComp THEN Msg.sz ELSE IF j = ShKey THEN Msg.sh ELSE times[j]
        BY <4>4, <4>5 DEF TimesForm
      <4> QED  BY ZenonT(30), <4>3, <4>4, <4>6, <4>7 DEF TimesForm
    <3> QED  BY <2>1, <3>1, <3>2 DEF ParamReport
  <2>2. CASE ChangeLinkRules /\ ClearLinkRules
    <3>1. Msg \in FromServer /\ Msg.type = "links"
      BY <2>2, TailForm DEF ClearLinkRules, Takes, WireForm, Msg
    <3>2. Msg.key \in {ShKey, SzKey} /\ Msg.key \in Range(Keys)
      BY <3>1, LinkMsgIs, ClienterAssumption, ShConnAssumption
    <3> DEFINE k == Msg.key
               z == [r \in Rules |-> 0]
    <3>3. times' = [times EXCEPT ![k] = z]
      BY <2>2 DEF ClearLinkRules
    <3>4. z \in [Rules -> 0..MaxVer] /\ (\A r \in ShRules : z[r] = 0) /\ \A r \in SzRules : z[r] = 0
      BY ClienterAssumption DEF Rules
    <3> HIDE DEF k, z
    <3>5. k \in Range(Keys)
      BY <3>2 DEF k
    <3> QED  BY <3>3, <3>4, <3>5, TimesPut DEF TimesForm
  <2>3. CASE ChangeLinkRules /\ InsertLinkRule
    <3> DEFINE k == rcv.msg.key
               t == rcv.msg.times
               r0 == rcv.todo[1]
    <3>1. rcv.msg \in FromServer /\ rcv.msg.type = "links"
      BY <2>3 DEF InsertLinkRule, Handles, HandForm, NoMsg
    <3>2. k \in {ShKey, SzKey} /\ k \in Range(Keys) /\ t \in LinkedTo(MarketOf(k))
      BY <3>1, LinkMsgIs, ClienterAssumption, ShConnAssumption
    <3>3. r0 \in Rules
      BY <2>3 DEF InsertLinkRule, HandForm
    <3>4. /\ t \in [Rules -> 0..MaxVer]
          /\ k # ShKey => \A r \in ShRules : t[r] = 0
          /\ k = ShKey => \A r \in SzRules : t[r] = 0
      BY <3>2, MarketOnly
    <3>5. times' = [times EXCEPT ![k][r0] = t[r0]]
      BY <2>3 DEF InsertLinkRule
    <3> HIDE DEF k, t, r0
    <3> DEFINE u == [times[k] EXCEPT ![r0] = t[r0]]
    <3>6. u \in [Rules -> 0..MaxVer] /\ \A r \in Rules : u[r] = IF r = r0 THEN t[r0] ELSE times[k][r]
      BY <3>2, <3>3, <3>4 DEF TimesForm
    <3>7. times' = [times EXCEPT ![k] = u]
      BY <3>2, <3>5 DEF TimesForm
    <3>8. /\ k # ShKey => \A r \in ShRules : u[r] = 0
          /\ k = ShKey => \A r \in SzRules : u[r] = 0
      BY <3>2, <3>3, <3>4, <3>6 DEF TimesForm, Rules
    <3> HIDE DEF u
    <3> QED  BY <3>2, <3>6, <3>7, <3>8, TimesPut DEF TimesForm
  <2>4. ParamReport \/ (ChangeLinkRules /\ (ClearLinkRules \/ InsertLinkRule)) \/ UNCHANGED times
    BY <1>2, ClientFrame DEF RegisterReport, SwitchMode, ChangeLinkStrategy, ChangeLinkRules, LinkRulesChanged, RejectLinkRules, MatchRuleMsg, Etfinfo
  <2> QED  BY <1>0, <2>1, <2>2, <2>3, <2>4
<1>3. CASE Environment \/ Shanghai \/ RestartRequest
  BY <1>0, <1>3 DEF Environment, Shanghai, RestartRequest
<1>4. CASE Restart
  <2>1. times' = NoTimes
    BY <1>4 DEF Restart, ShLost
  <2> QED  BY <2>1, NoTimesForm, ClienterAssumption, ShConnAssumption, RulesAssumption DEF TimesForm, NoTimes, Rules
<1>5. CASE UNCHANGED gatewayVars
  BY <1>0, <1>5 DEF gatewayVars
<1> QED  BY <1>1, <1>2, <1>3, <1>4, <1>5 DEF GatewayNext

\* A row is the document of its version.  The map has the parts of the version
\* its timestamp names but for those its document lacks and those that
\* InsertRule has yet to change; the row follows unless the writing failed.
Unchanged(r) == ~(ins.stage # "next" /\ Changing = r)
Part(p) == {<<p, k>> : k \in Nat}
AnyPart(p, r) == {<<p, 0>>} \cup {PartOf(p, r, n) : n \in 1..MaxVer}
Fits(part, p, r, n) == Missing(PartOf(p, r, n)) \/ part = PartOf(p, r, n)
WholeRule(r) ==
    LET n == mem[r].ts
    IN  /\ Conds[n] \subseteq mem[r].conds
        /\ mem[r].confirm \in AnyPart("confirm", r) /\ mem[r].match \in AnyPart("match", r)
        /\ (ins.stage = "confirm" /\ Changing = r) \/ Fits(mem[r].confirm, "confirm", r, n)
        /\ (ins.stage \in {"confirm", "match"} /\ Changing = r) \/ Fits(mem[r].match, "match", r, n)
RuleForm ==
    /\ \A r \in Rules : rows[r] # NoRule => rows[r].ts \in 1..MaxVer /\ rows[r] = Doc(r, rows[r].ts)
    /\ \A r \in Rules : mem[r] # NoRule => mem[r].ts \in 1..MaxVer
    /\ \A r \in ShRules : mem[r] # NoRule => WholeRule(r)
    /\ ins.stage # "next" => mem[Changing].ts = ins.todo[1].ver
    /\ Normal /\ "rule" \notin faults =>
         \A r \in Rules : mem[r] # NoRule /\ Unchanged(r) => rows[r] # NoRule /\ rows[r].ts = mem[r].ts

\* A part of a version's document.
LEMMA PartIs ==
    ASSUME NEW p, NEW r, NEW n \in 1..MaxVer
    PROVE  /\ PartOf(p, r, n) \in Part(p) /\ PartOf(p, r, n)[2] <= n /\ PartOf(p, r, n)[2] \in Nat
           /\ Missing(PartOf(p, r, n)) <=> p \in Lacks[r][n]
           /\ PartOf(p, r, n) = IF p \in Lacks[r][n] THEN <<p, 0>> ELSE <<p, n>>
           /\ PartOf(p, r, n) \in AnyPart(p, r) /\ Fits(PartOf(p, r, n), p, r, n)
<1>1. n \in Nat /\ n >= 1
  BY ClienterAssumption
<1>2. CASE p \in Lacks[r][n]
  <2>1. PartOf(p, r, n) = <<p, 0>>
    BY <1>2 DEF PartOf
  <2> QED  BY <1>1, <1>2, <2>1 DEF Part, Missing, AnyPart, Fits
<1>3. CASE p \notin Lacks[r][n]
  <2>1. PartOf(p, r, n) = <<p, n>>
    BY <1>3 DEF PartOf
  <2>2. PartOf(p, r, n) \in AnyPart(p, r)
    BY DEF AnyPart
  <2>3. PartOf(p, r, n) \in Part(p)
    BY <1>1, <2>1 DEF Part
  <2> QED  BY <1>1, <1>3, <2>1, <2>2, <2>3 DEF Missing, Fits
<1> QED  BY <1>2, <1>3

LEMMA DocIs ==
    ASSUME NEW r, NEW n \in 1..MaxVer
    PROVE  /\ Doc(r, n) \in Rule /\ Doc(r, n) # NoRule /\ Doc(r, n).ts = n /\ Doc(r, n).conds = Conds[n]
           /\ Doc(r, n).confirm = PartOf("confirm", r, n) /\ Doc(r, n).match = PartOf("match", r, n)
<1>1. n \in DOMAIN Conds /\ n \in Nat
  BY ClienterAssumption
<1>2. Conds[n] \in SUBSET UNION Range(Conds)
  BY <1>1 DEF Range
<1>3. PartOf("confirm", r, n) \in {"confirm"} \X Nat /\ PartOf("match", r, n) \in {"confirm", "match"} \X Nat
  BY <1>1, PartIs
<1>4. Doc(r, n) \in Rule
  BY <1>1, <1>2, <1>3 DEF Doc, Rule
<1> QED  BY <1>4, RulesAssumption DEF Doc

LEMMA RulesInitForm == GatewayInit => MapForm /\ RuleForm
<1> SUFFICES ASSUME GatewayInit PROVE MapForm /\ RuleForm
  OBVIOUS
<1>1. mem = [r \in Rules |-> NoRule] /\ ins = Idle /\ \A r \in Rules : rows[r] \in {NoRule, Doc(r, 1)}
  BY DEF GatewayInit, RulesInit
<1>2. 1 \in 1..MaxVer /\ <<>> \in Seq(Version)
  BY ClienterAssumption
<1>3. \A r \in Rules : Doc(r, 1) \in Rule /\ Doc(r, 1) # NoRule /\ Doc(r, 1).ts = 1
  BY <1>2, DocIs
<1>4. rows \in [Rules -> Rule \cup {NoRule}]
  BY <1>3 DEF GatewayInit, RulesInit
<1>5. MapForm
  BY <1>1, <1>2, <1>4 DEF MapForm, Idle
<1>6. RuleForm
  BY <1>1, <1>2, <1>3, RulesAssumption DEF RuleForm, Idle, Rules
<1> QED  BY <1>5, <1>6

LEMMA ChangingIs ==
    ASSUME MapForm, ins.todo # <<>>
    PROVE  Changing \in Rules /\ ins.todo[1].ver \in 1..MaxVer /\ Tail(ins.todo) \in Seq(Version)
<1>1. ins.todo \in Seq(Version)
  BY DEF MapForm
<1>2. ins.todo[1] \in Version /\ Tail(ins.todo) \in Seq(Version)
  BY <1>1
<1> QED  BY <1>2 DEF Version, Changing

\* A new Shenzhen rule.
LEMMA NewSzIs == ASSUME NEW d \in Rule PROVE NewRule_Sz(d) \in Rule /\ NewRule_Sz(d).ts = d.ts
<1>1. [d EXCEPT !.match = d.confirm] \in Rule /\ [d EXCEPT !.match = d.confirm].ts = d.ts
      /\ [d EXCEPT !.match = d.match] \in Rule /\ [d EXCEPT !.match = d.match].ts = d.ts
  BY DEF Rule
<1> QED  BY <1>1 DEF NewRule_Sz

LEMMA InsertNewForm ==
    ASSUME MapForm, RuleForm, InsertNew, faults \subseteq faults', Normal' <=> Normal PROVE MapForm' /\ RuleForm'
<1> DEFINE c == Changing
           v == ins.todo[1].ver
           new == IF c \in ShRules THEN NewRule_Sh(Given) ELSE NewRule_Sz(Given)
<1>1. c \in Rules /\ v \in 1..MaxVer
  BY ChangingIs DEF InsertNew
<1>2. mem' = [mem EXCEPT ![c] = new] /\ rows' = rows /\ ins' = [ins EXCEPT !.stage = "db"] /\ ins.stage = "next" /\ ins.todo # <<>>
  BY DEF InsertNew
<1>3. ins'.todo = ins.todo /\ ins'.stage = "db" /\ Changing' = c
  BY <1>2 DEF Changing, MapForm
<1>4. /\ Doc(c, v) \in Rule /\ Doc(c, v).ts = v /\ Given = Doc(c, v) /\ Doc(c, v).conds = Conds[v]
      /\ Doc(c, v).confirm = PartOf("confirm", c, v) /\ Doc(c, v).match = PartOf("match", c, v)
  BY <1>1, DocIs DEF Given
<1>5. new \in Rule /\ new.ts = v /\ (c \in ShRules => new = Doc(c, v))
  BY <1>4, NewSzIs DEF NewRule_Sh
<1>6. new # NoRule
  BY <1>5, RulesAssumption
<1>f. \A p : PartOf(p, c, v) \in AnyPart(p, c) /\ Fits(PartOf(p, c, v), p, c, v)
  BY <1>1, PartIs
<1> HIDE DEF c, v, new
<1>7. \A r \in Rules : mem'[r] = IF r = c THEN new ELSE mem[r]
  BY <1>2 DEF MapForm
<1>8. MapForm'
  BY <1>1, <1>2, <1>3, <1>5, <1>6 DEF MapForm
<1>9. \A r \in ShRules : mem'[r] # NoRule => WholeRule(r)'
  <2>1. TAKE r \in ShRules
  <2>2. r \in Rules
    BY DEF Rules
  <2>3. CASE r = c
    <3>1. mem'[r] = Doc(c, v)
      BY <1>5, <1>7, <2>2, <2>3
    <3> QED  BY <1>4, <1>f, <2>3, <3>1 DEF WholeRule
  <2>4. CASE r # c
    <3>1. mem'[r] = mem[r] /\ ~(Changing' = r)
      BY <1>3, <1>7, <2>2, <2>4
    <3>2. mem[r] # NoRule => WholeRule(r)
      BY DEF RuleForm
    <3> QED  BY <1>2, <2>4, <3>1, <3>2 DEF WholeRule, AnyPart, c
  <2> QED  BY <2>3, <2>4
<1>10. mem'[Changing'].ts = ins'.todo[1].ver
  BY <1>1, <1>3, <1>5, <1>7 DEF v
<1> QED  BY <1>1, <1>2, <1>3, <1>5, <1>7, <1>8, <1>9, <1>10 DEF RuleForm, Unchanged

LEMMA ChangedForm ==
    ASSUME MapForm, RuleForm, faults \subseteq faults', Normal' <=> Normal,
           NEW c \in Rules, c = Changing, ins.todo # <<>>, mem[c] # NoRule,
           NEW new \in Rule, new.ts = ins.todo[1].ver, NEW stage \in {"confirm", "match", "db"},
           mem' = [mem EXCEPT ![c] = new], rows' = rows, ins' = [ins EXCEPT !.stage = stage],
           c \in ShRules =>
             /\ Conds[new.ts] \subseteq new.conds
             /\ new.confirm \in AnyPart("confirm", c) /\ new.match \in AnyPart("match", c)
             /\ stage = "confirm" \/ Fits(new.confirm, "confirm", c, new.ts)
             /\ stage \in {"confirm", "match"} \/ Fits(new.match, "match", c, new.ts)
    PROVE  MapForm' /\ RuleForm'
<1>1. ins'.todo = ins.todo /\ ins'.stage = stage /\ Changing' = c
  BY DEF Changing, MapForm
<1>2. new # NoRule
  BY RulesAssumption
<1>3. \A r \in Rules : mem'[r] = IF r = c THEN new ELSE mem[r]
  BY DEF MapForm
<1>4. ins.todo[1].ver \in 1..MaxVer
  BY ChangingIs
<1>5. MapForm'
  BY <1>1, <1>2 DEF MapForm
<1>6. \A r \in ShRules : mem'[r] # NoRule => WholeRule(r)'
  <2>1. TAKE r \in ShRules
  <2>2. r \in Rules
    BY DEF Rules
  <2>3. CASE r = c
    <3>1. mem'[r] = new
      BY <1>3, <2>2, <2>3
    <3> QED  BY <1>1, <2>3, <3>1 DEF WholeRule
  <2>4. CASE r # c
    <3>1. mem'[r] = mem[r] /\ ~(Changing = r)
      BY <1>1, <1>3, <2>2, <2>4
    <3>2. mem[r] # NoRule => WholeRule(r)
      BY DEF RuleForm
    <3> QED  BY <3>1, <3>2 DEF WholeRule, AnyPart
  <2> QED  BY <2>3, <2>4
<1>7. mem'[Changing'].ts = ins'.todo[1].ver
  BY <1>1, <1>3
<1>8. \A r \in Rules : Unchanged(r)' => Unchanged(r) /\ mem'[r] = mem[r]
  BY <1>1, <1>3 DEF Unchanged
<1> QED  BY <1>1, <1>3, <1>4, <1>5, <1>6, <1>7, <1>8 DEF RuleForm

\* The rule that is changed: what it becomes.
LEMMA ChangedRuleIs ==
    ASSUME MapForm, RuleForm, ChangeRegex \/ ChangeConfirm \/ ChangeMatch,
           NEW c, NEW v, c = Changing, v = ins.todo[1].ver
    PROVE  /\ ins.todo # <<>> /\ c \in Rules /\ v \in 1..MaxVer /\ mem[c] \in Rule /\ mem[c] # NoRule /\ UNCHANGED rows
           /\ \E new \in Rule :
                /\ mem' = [mem EXCEPT ![c] = new] /\ new.ts = v
                /\ \/ /\ ChangeRegex /\ new.conds = mem[c].conds \cup Conds[v]
                      /\ new.confirm = mem[c].confirm /\ new.match = mem[c].match
                   \/ /\ ChangeConfirm /\ mem[c].ts = v /\ new.conds = mem[c].conds /\ new.match = mem[c].match
                      /\ new.confirm = IF Missing(PartOf("confirm", c, v)) THEN mem[c].confirm ELSE PartOf("confirm", c, v)
                   \/ /\ ChangeMatch /\ mem[c].ts = v /\ new.conds = mem[c].conds /\ new.confirm = mem[c].confirm
                      /\ new.match = IF Missing(PartOf("match", c, v)) THEN mem[c].match ELSE PartOf("match", c, v)
<1> DEFINE old == mem[c]
<1>1. ins.todo # <<>> /\ old # NoRule /\ UNCHANGED rows
  BY DEF ChangeRegex, ChangeConfirm, ChangeMatch, MapForm
<1>2. c \in Rules /\ v \in 1..MaxVer
  BY <1>1, ChangingIs
<1>3. /\ old \in Rule /\ Given = Doc(c, v) /\ Given \in Rule /\ Given.ts = v /\ Given.conds = Conds[v]
      /\ Given.confirm = PartOf("confirm", c, v) /\ Given.match = PartOf("match", c, v)
  BY <1>1, <1>2, DocIs DEF MapForm, Given
<1>4. \A r \in Rule : /\ r = [ts |-> r.ts, conds |-> r.conds, confirm |-> r.confirm, match |-> r.match]
                       /\ r.ts \in Nat /\ r.conds \in SUBSET UNION Range(Conds) /\ r.confirm \in {"confirm"} \X Nat
                       /\ r.match \in {"confirm", "match"} \X Nat
  BY DEF Rule
<1>5. mem = [mem EXCEPT ![c] = old]
  BY <1>2 DEF MapForm
<1> HIDE DEF old
<1>6. CASE ChangeRegex
  <2> DEFINE new == [ts |-> v, conds |-> old.conds \cup Conds[v], confirm |-> old.confirm, match |-> old.match]
  <2>1. SetRegex(old, Given) = new
    <3>1. \A x : [old EXCEPT !.conds = x] = [ts |-> old.ts, conds |-> x, confirm |-> old.confirm, match |-> old.match]
      BY <1>3, <1>4
    <3>2. SetRegex(old, Given) = [[old EXCEPT !.conds = old.conds \cup Conds[v]] EXCEPT !.ts = v]
      BY <1>3 DEF SetRegex
    <3> QED  BY <3>1, <3>2
  <2>2. mem' = [mem EXCEPT ![c] = new]
    BY <1>6, <2>1 DEF ChangeRegex, old
  <2>3. new \in Rule
    BY <1>2, <1>3, <1>4, ClienterAssumption DEF Rule
  <2>4. new.ts = v /\ new.conds = old.conds \cup Conds[v] /\ new.confirm = old.confirm /\ new.match = old.match
    OBVIOUS
  <2> HIDE DEF new
  <2> QED  BY <1>1, <1>2, <1>3, <1>6, <2>2, <2>3, <2>4 DEF old
<1>7. CASE ChangeConfirm
  <2>0. old.ts = v
    BY <1>7 DEF RuleForm, ChangeConfirm, old
  <2>1. CASE Missing(PartOf("confirm", c, v))
    <3>1. mem' = [mem EXCEPT ![c] = old]
      BY <1>3, <1>5, <1>7, <2>1 DEF ChangeConfirm
    <3> QED  BY <1>1, <1>2, <1>3, <1>7, <2>0, <2>1, <3>1 DEF old
  <2>2. CASE ~Missing(PartOf("confirm", c, v))
    <3> DEFINE new == [ts |-> old.ts, conds |-> old.conds, confirm |-> Given.confirm, match |-> old.match]
    <3>1. SetRuleConfirm(old, Given) = new
      BY <1>3, <1>4 DEF SetRuleConfirm
    <3>2. mem' = [mem EXCEPT ![c] = new]
      BY <1>3, <1>7, <2>2, <3>1 DEF ChangeConfirm, old
    <3>3. new \in Rule
      BY <1>3, <1>4 DEF Rule
    <3>4. new.ts = v /\ new.conds = old.conds /\ new.confirm = PartOf("confirm", c, v) /\ new.match = old.match
      BY <1>3, <2>0
    <3> HIDE DEF new
    <3> QED  BY <1>1, <1>2, <1>3, <1>7, <2>0, <2>2, <3>2, <3>3, <3>4 DEF old
  <2> QED  BY <2>1, <2>2
<1>8. CASE ChangeMatch
  <2>0. old.ts = v
    BY <1>8 DEF RuleForm, ChangeMatch, old
  <2>1. CASE Missing(PartOf("match", c, v))
    <3>1. mem' = [mem EXCEPT ![c] = old]
      BY <1>3, <1>5, <1>8, <2>1 DEF ChangeMatch
    <3> QED  BY <1>1, <1>2, <1>3, <1>8, <2>0, <2>1, <3>1 DEF old
  <2>2. CASE ~Missing(PartOf("match", c, v))
    <3> DEFINE new == [ts |-> old.ts, conds |-> old.conds, confirm |-> old.confirm, match |-> Given.match]
    <3>1. SetRuleMatch(old, Given) = new
      BY <1>3, <1>4 DEF SetRuleMatch
    <3>2. mem' = [mem EXCEPT ![c] = new]
      BY <1>3, <1>8, <2>2, <3>1 DEF ChangeMatch, old
    <3>3. new \in Rule
      BY <1>3, <1>4 DEF Rule
    <3>4. new.ts = v /\ new.conds = old.conds /\ new.confirm = old.confirm /\ new.match = PartOf("match", c, v)
      BY <1>3, <2>0
    <3> HIDE DEF new
    <3> QED  BY <1>1, <1>2, <1>3, <1>8, <2>0, <2>2, <3>2, <3>3, <3>4 DEF old
  <2> QED  BY <2>1, <2>2
<1> QED  BY <1>6, <1>7, <1>8

LEMMA ChangeRuleForm ==
    ASSUME MapForm, RuleForm, ChangeRegex \/ ChangeConfirm \/ ChangeMatch, faults \subseteq faults', Normal' <=> Normal
    PROVE  MapForm' /\ RuleForm'
<1> DEFINE c == Changing
           v == ins.todo[1].ver
<1>1. ins.todo # <<>> /\ c \in Rules /\ v \in 1..MaxVer /\ mem[c] \in Rule /\ mem[c] # NoRule /\ UNCHANGED rows
  BY ChangedRuleIs
<1>2. PICK new \in Rule :
        /\ mem' = [mem EXCEPT ![c] = new] /\ new.ts = v
        /\ \/ /\ ChangeRegex /\ new.conds = mem[c].conds \cup Conds[v]
              /\ new.confirm = mem[c].confirm /\ new.match = mem[c].match
           \/ /\ ChangeConfirm /\ mem[c].ts = v /\ new.conds = mem[c].conds /\ new.match = mem[c].match
              /\ new.confirm = IF Missing(PartOf("confirm", c, v)) THEN mem[c].confirm ELSE PartOf("confirm", c, v)
           \/ /\ ChangeMatch /\ mem[c].ts = v /\ new.conds = mem[c].conds /\ new.confirm = mem[c].confirm
              /\ new.match = IF Missing(PartOf("match", c, v)) THEN mem[c].match ELSE PartOf("match", c, v)
  BY ChangedRuleIs
<1>3. PICK stage \in {"confirm", "match", "db"} :
        /\ ins' = [ins EXCEPT !.stage = stage]
        /\ ChangeRegex => stage = "confirm"
        /\ ChangeConfirm => stage = "match"
        /\ ChangeMatch => stage = "db" /\ ins.stage = "match"
  BY DEF ChangeRegex, ChangeConfirm, ChangeMatch
<1>4. c \in ShRules => WholeRule(c)
  BY <1>1 DEF RuleForm
<1>5. \A p : PartOf(p, c, v) \in AnyPart(p, c) /\ Fits(PartOf(p, c, v), p, c, v)
  BY <1>1, PartIs
<1>6. \A p, part : Missing(PartOf(p, c, v)) => Fits(part, p, c, v)
  BY DEF Fits
<1> HIDE DEF c, v
<1>7. c \in ShRules =>
        /\ Conds[new.ts] \subseteq new.conds
        /\ new.confirm \in AnyPart("confirm", c) /\ new.match \in AnyPart("match", c)
        /\ stage = "confirm" \/ Fits(new.confirm, "confirm", c, new.ts)
        /\ stage \in {"confirm", "match"} \/ Fits(new.match, "match", c, new.ts)
  <2> HAVE c \in ShRules
  <2>1. /\ Conds[mem[c].ts] \subseteq mem[c].conds
        /\ mem[c].confirm \in AnyPart("confirm", c) /\ mem[c].match \in AnyPart("match", c)
        /\ ins.stage = "confirm" \/ Fits(mem[c].confirm, "confirm", c, mem[c].ts)
    BY <1>4 DEF WholeRule
  <2>2. CASE ChangeRegex
    BY <1>2, <1>3, <2>1, <2>2 DEF ChangeConfirm, ChangeMatch, ChangeRegex
  <2>3. CASE ChangeConfirm
    <3>1. mem[c].ts = v /\ new.conds = mem[c].conds /\ new.match = mem[c].match
          /\ new.confirm = IF Missing(PartOf("confirm", c, v)) THEN mem[c].confirm ELSE PartOf("confirm", c, v)
      BY <1>2, <2>3 DEF ChangeConfirm, ChangeMatch, ChangeRegex
    <3> QED  BY <1>2, <1>3, <1>5, <1>6, <2>1, <2>3, <3>1
  <2>4. CASE ChangeMatch
    <3>1. mem[c].ts = v /\ new.conds = mem[c].conds /\ new.confirm = mem[c].confirm
          /\ new.match = IF Missing(PartOf("match", c, v)) THEN mem[c].match ELSE PartOf("match", c, v)
      BY <1>2, <2>4 DEF ChangeConfirm, ChangeMatch, ChangeRegex
    <3> QED  BY <1>2, <1>3, <1>5, <1>6, <2>1, <2>4, <3>1
  <2> QED  BY <2>2, <2>3, <2>4
<1> QED  BY <1>1, <1>2, <1>3, <1>7, ChangedForm DEF c, v

\* A malformed document leaves every rule its version and its parts.
LEMMA MalformedIs ==
    ASSUME MapForm, InsertMalformed
    PROVE  /\ ins.stage = "next" /\ ins' = Idle /\ rows' = rows /\ ins.todo # <<>>
           /\ mem' \in [Rules -> Rule \cup {NoRule}] /\ \A r \in ShRules : mem'[r] = mem[r]
           /\ \A r \in Rules : (mem'[r] = NoRule <=> mem[r] = NoRule) /\ (mem[r] # NoRule => mem'[r].ts = mem[r].ts)
<1>1. ins.stage = "next" /\ ins' = Idle /\ rows' = rows /\ ins.todo # <<>>
  BY DEF InsertMalformed
<1>2. CASE UNCHANGED mem
  BY <1>1, <1>2 DEF MapForm
<1>3. CASE ~UNCHANGED mem
  <2> DEFINE c == Changing
             old == mem[c]
  <2>1. c \in Rules /\ c \in SzRules /\ old # NoRule /\ ins.todo[1].ver \in 1..MaxVer
    BY <1>1, <1>3, ChangingIs DEF InsertMalformed
  <2>2. PICK x \in SUBSET Given.conds : mem' = [mem EXCEPT ![c].conds = @ \cup x]
    BY <1>3 DEF InsertMalformed
  <2>3. Given.conds \in SUBSET UNION Range(Conds)
    <3>1. Given \in Rule
      BY <2>1, DocIs DEF Given
    <3> QED  BY <3>1 DEF Rule
  <2>4. old \in Rule
    BY <2>1 DEF MapForm
  <2> DEFINE new == [old EXCEPT !.conds = @ \cup x]
  <2>5. new \in Rule /\ new.ts = old.ts
    BY <2>2, <2>3, <2>4 DEF Rule
  <2>6. new # NoRule
    BY <2>5, RulesAssumption
  <2>7. mem' = [mem EXCEPT ![c] = new]
    BY <2>2
  <2>8. c \notin ShRules
    BY <2>1, RulesAssumption
  <2> HIDE DEF new, c
  <2>9. mem' \in [Rules -> Rule \cup {NoRule}] /\ \A r \in Rules : mem'[r] = IF r = c THEN new ELSE mem[r]
    BY <2>1, <2>5, <2>7 DEF MapForm
  <2> QED  BY <1>1, <2>1, <2>5, <2>6, <2>8, <2>9 DEF Rules
<1> QED  BY <1>2, <1>3

LEMMA MalformedForm ==
    ASSUME MapForm, RuleForm, InsertMalformed, faults \subseteq faults', Normal' <=> Normal PROVE MapForm' /\ RuleForm'
<1>1. /\ ins.stage = "next" /\ ins' = Idle /\ rows' = rows
      /\ mem' \in [Rules -> Rule \cup {NoRule}] /\ \A r \in ShRules : mem'[r] = mem[r]
      /\ \A r \in Rules : (mem'[r] = NoRule <=> mem[r] = NoRule) /\ (mem[r] # NoRule => mem'[r].ts = mem[r].ts)
  BY MalformedIs
<1>2. <<>> \in Seq(Version)
  OBVIOUS
<1>3. MapForm'
  BY <1>1, <1>2 DEF MapForm, Idle
<1>4. \A r \in ShRules : mem'[r] # NoRule => WholeRule(r)'
  BY <1>1 DEF RuleForm, WholeRule, AnyPart, Idle
<1>5. \A r \in Rules : Unchanged(r)
  BY <1>1 DEF Unchanged
<1> QED  BY <1>1, <1>3, <1>4, <1>5 DEF RuleForm, Idle

LEMMA RuleWrittenForm ==
    ASSUME MapForm, RuleForm, UpdateSingleRuleToDb(Normal), Normal' <=> Normal, faults \subseteq faults'
    PROVE  MapForm' /\ RuleForm'
<1> DEFINE c == Changing
           v == ins.todo[1].ver
<1>1. ins.stage = "db" /\ ins.todo # <<>> /\ mem' = mem
  BY DEF UpdateSingleRuleToDb, MapForm
<1>2. c \in Rules /\ v \in 1..MaxVer /\ Tail(ins.todo) \in Seq(Version)
  BY <1>1, ChangingIs
<1>3. Doc(c, v) \in Rule /\ Given = Doc(c, v) /\ Doc(c, v).ts = v /\ Doc(c, v) # NoRule
  BY <1>2, DocIs DEF Given
<1>4. mem[c].ts = v
  BY <1>1 DEF RuleForm
<1>5. ins'.stage = "next" /\ ins' \in [todo : Seq(Version), stage : {"next"}]
  <2>1. <<>> \in Seq(Version)
    OBVIOUS
  <2>2. ins' = [todo |-> Tail(ins.todo), stage |-> "next"] \/ ins' = [todo |-> <<>>, stage |-> "next"]
    BY DEF UpdateSingleRuleToDb, Idle
  <2>3. PICK q \in Seq(Version) : ins' = [todo |-> q, stage |-> "next"]
    <3> DEFINE u == Tail(ins.todo)
    <3>1. u \in Seq(Version)
      BY <1>2
    <3> HIDE DEF u
    <3> QED  BY <2>1, <2>2, <3>1 DEF u
  <2> QED  BY <2>3
<1>6. \A r \in ShRules : mem'[r] # NoRule => WholeRule(r)'
  BY <1>1, <1>5 DEF RuleForm, WholeRule, AnyPart
<1>7. \A r \in Rules : r # c => Unchanged(r)
  BY DEF Unchanged
<1> HIDE DEF c, v
<1>8. CASE Normal /\ rows' = [rows EXCEPT ![c] = Doc(c, v)]
  <2>1. \A r \in Rules : rows'[r] = IF r = c THEN Doc(c, v) ELSE rows[r]
    BY <1>8 DEF MapForm
  <2>2. MapForm'
    BY <1>1, <1>3, <1>5, <1>8 DEF MapForm
  <2>3. \A r \in Rules : rows'[r] # NoRule => rows'[r].ts \in 1..MaxVer /\ rows'[r] = Doc(r, rows'[r].ts)
    BY <1>2, <1>3, <2>1 DEF RuleForm
  <2>4. Normal /\ "rule" \notin faults' =>
          \A r \in Rules : mem'[r] # NoRule => rows'[r] # NoRule /\ rows'[r].ts = mem'[r].ts
    BY <1>1, <1>3, <1>4, <1>7, <2>1 DEF RuleForm
  <2> QED  BY <1>1, <1>5, <1>6, <2>2, <2>3, <2>4 DEF RuleForm
<1>9. CASE UNCHANGED rows /\ (Normal => "rule" \in faults')
  <2>1. MapForm'
    BY <1>1, <1>5, <1>9 DEF MapForm
  <2> QED  BY <1>1, <1>5, <1>6, <1>9, <2>1 DEF RuleForm
<1>10. (Normal /\ rows' = [rows EXCEPT ![c] = Doc(c, v)]) \/ (UNCHANGED rows /\ (Normal => "rule" \in faults'))
  BY <1>3 DEF UpdateSingleRuleToDb, Row_Sh, Row_Sz, Fails, c
<1> QED  BY <1>8, <1>9, <1>10

LEMMA ReloadForm ==
    ASSUME EarlyForm, InsertForm, MapForm, RuleForm, LoadConfigFromDb, Normal' <=> Normal, faults \subseteq faults'
    PROVE  MapForm' /\ RuleForm'
<1>1. UNCHANGED <<rows, ins>>
  BY DEF LoadConfigFromDb
<1>2. ins = Idle
  <2>1. rcv = Free
    BY DEF LoadConfigFromDb, EarlyForm, Before
  <2> QED  BY <2>1 DEF InsertForm, Free, NoMsg
<1>3. \A r \in Rules : FromRow(r) \in Rule \cup {NoRule} /\ (FromRow(r) # NoRule => rows[r] # NoRule /\ FromRow(r).ts = rows[r].ts)
                       /\ (r \in ShRules => FromRow(r) = rows[r])
  <2> TAKE r \in Rules
  <2>1. CASE rows[r] = NoRule
    BY <2>1 DEF FromRow
  <2>2. CASE rows[r] # NoRule
    <3>1. rows[r] \in Rule
      BY <2>2 DEF MapForm
    <3> QED  BY <2>2, <3>1, NewSzIs, RulesAssumption DEF FromRow, NewRule_Sh
  <2> QED  BY <2>1, <2>2
<1>4. mem' \in [Rules -> Rule \cup {NoRule}] /\ \A r \in Rules : mem'[r] \in {NoRule, FromRow(r)}
  BY <1>3 DEF LoadConfigFromDb, ReloadFromDb, ReloadFromDb_Sh
<1>5. \A r \in Rules : mem'[r] # NoRule => rows[r] # NoRule /\ mem'[r].ts = rows[r].ts
  BY <1>3, <1>4
<1>6. MapForm'
  BY <1>1, <1>2, <1>4 DEF MapForm, Idle
<1>7. \A r \in ShRules : mem'[r] # NoRule => WholeRule(r)'
  <2> TAKE r \in ShRules
  <2> HAVE mem'[r] # NoRule
  <2> DEFINE n == rows[r].ts
  <2>1. mem'[r] = rows[r] /\ rows[r] = Doc(r, n) /\ n \in 1..MaxVer
    BY <1>3, <1>4 DEF RuleForm, Rules
  <2> HIDE DEF n
  <2>2. /\ mem'[r].ts = n /\ mem'[r].conds = Conds[n]
        /\ mem'[r].confirm = PartOf("confirm", r, n) /\ mem'[r].match = PartOf("match", r, n)
    BY <2>1, DocIs
  <2>3. \A p : PartOf(p, r, n) \in AnyPart(p, r) /\ Fits(PartOf(p, r, n), p, r, n)
    BY <2>1, PartIs
  <2> QED  BY <2>2, <2>3 DEF WholeRule
<1> QED  BY <1>1, <1>2, <1>5, <1>6, <1>7 DEF RuleForm, Idle

LEMMA RuleStays ==
    ASSUME MapForm, RuleForm, UNCHANGED ruleVars, Normal' <=> Normal, faults \subseteq faults'
    PROVE  MapForm' /\ RuleForm'
<1>1. UNCHANGED <<mem, rows, ins>>
  BY DEF ruleVars
<1> QED  BY <1>1 DEF MapForm, RuleForm, WholeRule, AnyPart, Unchanged, Changing

\* Who changes the rules.
LEMMA RuleMoves ==
    ASSUME [GatewayNext]_gatewayVars
    PROVE  LoadConfigFromDb \/ (Client /\ MatchRuleMsg(Normal)) \/ Restart \/ UNCHANGED ruleVars
<1>1. CASE Start
  BY <1>1, StartFrame DEF StartLeaves, ruleVars, Start, CheckLicense, ReadConfig, CheckMysql, ReadId, Connect, KeepId, Wait,
     SaveIdFromWeb, SaveIdToFile, AskConfig, CheckRedis, CheckRules, ThreadsStartup
<1>2. CASE Client
  BY <1>2, ClientFrame DEF RegisterReport, ParamReport, SwitchMode, ChangeLinkStrategy, ChangeLinkRules, Etfinfo
<1>3. CASE Shanghai \/ Environment \/ RestartRequest \/ UNCHANGED gatewayVars
  BY <1>3 DEF Shanghai, Environment, RestartRequest, gatewayVars
<1> QED  BY <1>1, <1>2, <1>3 DEF GatewayNext

LEMMA RuleFormStep ==
    ASSUME WireForm, EarlyForm, InsertForm, FaultForm, MapForm, RuleForm, [GatewayNext]_gatewayVars
    PROVE  MapForm' /\ RuleForm'
<1>1. (Normal' <=> Normal) /\ faults \subseteq faults'
  BY ModeStays, FaultsGrow
<1>2. CASE LoadConfigFromDb
  BY <1>1, <1>2, ReloadForm
<1>3. CASE Client /\ MatchRuleMsg(Normal)
  <2>1. CASE UNCHANGED ruleVars
    BY <1>1, <2>1, RuleStays
  <2>2. CASE Takes("rules") /\ ins' = [todo |-> Msg.docs, stage |-> "next"] /\ UNCHANGED <<mem, rows>>
    <3>1. ins = Idle
      BY <2>2 DEF InsertForm, Takes, Free, NoMsg
    <3>2. Msg.docs \in Seq(Version)
      BY <2>2, TailForm, RulesMsgIs DEF Takes, WireForm, Msg
    <3>3. MapForm'
      BY <2>2, <3>2 DEF MapForm
    <3>4. ins.stage = "next" /\ ins'.stage = "next"
      BY <2>2, <3>1 DEF Idle
    <3> QED  BY <1>1, <2>2, <3>3, <3>4 DEF RuleForm, WholeRule, AnyPart, Unchanged
  <2>3. CASE InsertRule(Normal)
    BY <1>1, <2>3, InsertNewForm, ChangeRuleForm, RuleWrittenForm, MalformedForm DEF InsertRule
  <2> QED  BY <1>3, <2>1, <2>2, <2>3 DEF MatchRuleMsg
<1>4. CASE Restart
  <2>1. mem' = [r \in Rules |-> NoRule] /\ rows' = rows /\ ins' = [todo |-> <<>>, stage |-> "next"]
    BY <1>4 DEF Restart, Emptied, Idle
  <2>2. <<>> \in Seq(Version)
    OBVIOUS
  <2>3. MapForm'
    BY <2>1, <2>2 DEF MapForm
  <2> QED  BY <2>1, <2>3 DEF RuleForm, Rules
<1> QED  BY <1>1, <1>2, <1>3, <1>4, RuleMoves, RuleStays

-----------------------------------------------------------------------------
(* The Shanghai interface                                                  *)

Known == {r \in ShRules : mem[r] # NoRule}
OrderOf(kinds) == [rec : Nat, kind : kinds, rule : {0} \cup Known]
ReadKinds == {"new", "wth", "bad"}
InKinds == ReadKinds \cup {"confirmed"}
OutKinds == {"error", "confirm", "cancel", "cancelreject", "cancelerror", "match"}
Tables == {"ordwth2", "cjhb"}
Statuses == {"", "F", "W", "O", "rule"}
OrderRow == [status : {"R", "P"}, kind : RowKinds, reads : Nat, meets : Meets \cup {{}}]
TableRow == [num : Nat \ {0}, rec : Nat, status : Statuses, part : {"old", "confirm", "match"} \X Nat]
SqlRow == [table : Tables, num : Nat \ {0}, rec : Nat, status : Statuses, part : {"confirm", "match"} \X Nat]
BeforeRead == {"begin", "cjbh", "rec", "setrec", "select"}
AtOrders == {"policy", "policy2", "order"}

\* What the tables, the buffers and the reading worker hold.
TablesForm ==
    /\ ordwth \in Seq(OrderRow) /\ ordwth2 \in Seq(TableRow) /\ cjhb \in Seq(TableRow)
    /\ cnt \in [rec : Nat, cjbh : Nat]
    /\ inb \in Seq(OrderOf(InKinds)) /\ outb \in Seq(OrderOf(OutKinds)) /\ sqls \in Seq(SqlRow)
    /\ dec \in [pc : BeforeRead \cup AtOrders \cup {"push"}, got : Nat, todo : Seq(DOMAIN ordwth), links : SUBSET ShRules,
                pol : {dec.pol}, known : BOOLEAN, acked : Nat, vec : Seq(OrderOf(ReadKinds)), recs : Seq(DOMAIN ordwth)]

\* Before the workers run they have done nothing.
IdleForm ==
    pc \notin {"run", "ended"} => cnt = [rec |-> 0, cjbh |-> 0] /\ dec = Waits /\ inb = <<>> /\ outb = <<>> /\ sqls = <<>>

LEMMA Nothing == \A S : <<>> \in Seq(S)
OBVIOUS

LEMMA WaitsForm == Waits \in [pc : BeforeRead \cup AtOrders \cup {"push"}, got : Nat, todo : Seq(DOMAIN ordwth), links : SUBSET ShRules,
                pol : {Waits.pol}, known : BOOLEAN, acked : Nat, vec : Seq(OrderOf(ReadKinds)), recs : Seq(DOMAIN ordwth)]
BY Nothing DEF Waits, BeforeRead

LEMMA TablesInit == GatewayInit => TablesForm /\ IdleForm
<1> SUFFICES ASSUME GatewayInit PROVE TablesForm /\ IdleForm
  OBVIOUS
<1>1. /\ ordwth = <<>> /\ ordwth2 \in {<<>>, <<Old>>} /\ cjhb = ordwth2
      /\ cnt = [rec |-> 0, cjbh |-> 0] /\ dec = Waits /\ inb = <<>> /\ outb = <<>> /\ sqls = <<>>
  BY DEF GatewayInit, ShInit
<1>2. <<Old>> \in Seq(TableRow)
  <2>1. Old \in TableRow
    BY DEF Old, TableRow, Statuses
  <2> HIDE DEF Old
  <2> QED  BY <2>1
<1> QED  BY <1>1, <1>2, Nothing, WaitsForm DEF TablesForm, IdleForm

LEMMA UnreadForm ==
    ASSUME TablesForm
    PROVE  /\ Unread \in Seq({i \in DOMAIN ordwth : ordwth[i].status = "R"})
           /\ \A i \in DOMAIN ordwth : ordwth[i].status = "R" => \E j \in DOMAIN Unread : Unread[j] = i
           /\ \A j, k \in DOMAIN Unread : j < k => Unread[j] < Unread[k]
<1> DEFINE S == {i \in DOMAIN ordwth : ordwth[i].status = "R"}
<1>1. DOMAIN ordwth = 1..Len(ordwth) /\ Len(ordwth) \in Nat
  BY DEF TablesForm
<1>2. S \in SUBSET Nat /\ IsFiniteSet(S)
  <2>1. IsFiniteSet(1..Len(ordwth)) /\ S \in SUBSET (1..Len(ordwth))
    BY <1>1, FS_Interval
  <2>2. IsFiniteSet(S)
    BY <2>1, FS_Subset
  <2> QED  BY <1>1, <2>2
<1>3. /\ Unread \in Seq(S) /\ Len(Unread) = Cardinality(S)
      /\ {Unread[k] : k \in 1..Cardinality(S)} = S
      /\ \A j, k \in 1..Cardinality(S) : j < k => Unread[j] < Unread[k]
  <2> HIDE DEF S
  <2>1. Unread = Ascending(S)
    BY DEF Unread, S
  <2> QED  BY ZenonT(30), <1>2, <2>1, AscendingIs
<1>4. DOMAIN Unread = 1..Cardinality(S)
  BY <1>3
<1> HIDE DEF S
<1>5. \A i \in S : \E j \in DOMAIN Unread : Unread[j] = i
  BY <1>3, <1>4
<1> QED  BY <1>3, <1>4, <1>5 DEF S

\* The greatest number of a table.
LEMMA LastNumberIs ==
    ASSUME NEW t \in Seq(TableRow), t # <<>>
    PROVE  /\ \E k \in DOMAIN t : LastNumber(t) = t[k].num
           /\ \A i \in DOMAIN t : t[i].num <= LastNumber(t)
<1> DEFINE n == Len(t)
           T == {m \in Nat : m < n => \E k \in 1..(m + 1) : \A i \in 1..(m + 1) : t[i].num <= t[k].num}
<1>1. n \in Nat /\ n # 0 /\ DOMAIN t = 1..n /\ \A i \in 1..n : t[i].num \in Nat
  <2>1. n \in Nat /\ n # 0 /\ DOMAIN t = 1..n /\ \A i \in 1..n : t[i] \in TableRow
    OBVIOUS
  <2>2. \A row \in TableRow : row.num \in Nat
    BY DEF TableRow
  <2> QED  BY <2>1, <2>2
<1>2. 0 \in T
  BY <1>1
<1>3. ASSUME NEW m \in Nat, m \in T PROVE m + 1 \in T
  <2>1. SUFFICES ASSUME m + 1 < n PROVE \E k \in 1..(m + 2) : \A i \in 1..(m + 2) : t[i].num <= t[k].num
    OBVIOUS
  <2>2. PICK k \in 1..(m + 1) : \A i \in 1..(m + 1) : t[i].num <= t[k].num
    BY <1>1, <1>3, <2>1
  <2>3. CASE t[m + 2].num <= t[k].num
    <3>1. \A i \in 1..(m + 2) : t[i].num <= t[k].num
      BY <2>2, <2>3
    <3> QED  BY <3>1
  <2>4. CASE ~(t[m + 2].num <= t[k].num)
    <3>1. \A i \in 1..(m + 2) : t[i].num <= t[m + 2].num
      BY <1>1, <2>1, <2>2, <2>4
    <3> QED  BY <3>1
  <2> QED  BY <2>3, <2>4
<1>4. \A m \in Nat : m \in T
  <2> HIDE DEF T
  <2> QED  BY <1>2, <1>3, Induction
<1>5. n - 1 \in T /\ n - 1 \in Nat
  <2>1. n - 1 \in Nat
    BY <1>1
  <2> HIDE DEF T
  <2> QED  BY <1>4, <2>1
<1>6. PICK k \in 1..n : \A i \in 1..n : t[i].num <= t[k].num
  BY <1>1, <1>5
<1> DEFINE N == {t[i].num : i \in DOMAIN t}
<1>7. \E x \in N : \A i \in DOMAIN t : t[i].num <= x
  BY <1>1, <1>6
<1>8. LastNumber(t) \in N /\ \A i \in DOMAIN t : t[i].num <= LastNumber(t)
  BY <1>7 DEF LastNumber
<1> QED  BY <1>8

LEMMA LastNumberForm ==
    ASSUME NEW t \in Seq(TableRow)
    PROVE  LastNumber(t) \in Nat /\ (t # <<>> => LastNumber(t) # 0)
<1>1. CASE t = <<>>
  BY <1>1 DEF LastNumber
<1>2. CASE t # <<>>
  <2>1. PICK k \in DOMAIN t : LastNumber(t) = t[k].num
    BY <1>2, LastNumberIs
  <2>2. t[k] \in TableRow
    OBVIOUS
  <2> QED  BY <2>1, <2>2 DEF TableRow
<1> QED  BY <1>1, <1>2

LEMMA RulesStayKnown ==
    ASSUME MapForm, MapForm', [GatewayNext]_gatewayVars, ~LoadConfigFromDb, ~Restart
    PROVE  Known \subseteq Known'
<1>1. CASE UNCHANGED mem
  BY <1>1 DEF Known, Rules
<1>2. CASE InsertNew \/ ChangeRegex \/ ChangeConfirm \/ ChangeMatch
  <2>1. \A r \in Rules : r # Changing => mem'[r] = mem[r]
    BY <1>2 DEF InsertNew, ChangeRegex, ChangeConfirm, ChangeMatch, MapForm
  <2>2. Changing' = Changing /\ ins'.stage # "next"
    BY <1>2 DEF InsertNew, ChangeRegex, ChangeConfirm, ChangeMatch, MapForm, Changing
  <2>3. mem'[Changing] # NoRule
    BY <2>2 DEF MapForm
  <2> QED  BY <2>1, <2>3 DEF Known, Rules
<1>m. CASE InsertMalformed
  BY <1>m, MalformedIs DEF Known
<1>3. UNCHANGED mem \/ InsertNew \/ ChangeRegex \/ ChangeConfirm \/ ChangeMatch \/ InsertMalformed
  <2>1. CASE Start
    BY <2>1, StartFrame DEF Start, CheckLicense, ReadConfig, CheckMysql, ReadId, Connect, KeepId, Wait,
       SaveIdFromWeb, SaveIdToFile, AskConfig, CheckRedis, CheckRules, ThreadsStartup, ruleVars
  <2>2. CASE Client
    BY <2>2, ClientFrame DEF RegisterReport, ParamReport, SwitchMode, ChangeLinkStrategy, ChangeLinkRules, Etfinfo, MatchRuleMsg,
       InsertRule, UpdateSingleRuleToDb, ruleVars
  <2>3. CASE Shanghai \/ Environment \/ RestartRequest \/ UNCHANGED gatewayVars
    BY <2>3 DEF Shanghai, Environment, RestartRequest, gatewayVars, ruleVars
  <2> QED  BY <2>1, <2>2, <2>3 DEF GatewayNext
<1> QED  BY <1>1, <1>2, <1>m, <1>3

\* What a step of the workers may leave alone.
LEMMA WiderOrders ==
    ASSUME Known \subseteq Known', NEW kinds, NEW s \in Seq(OrderOf(kinds))
    PROVE  s \in Seq(OrderOf(kinds)')
<1>1. OrderOf(kinds) \subseteq OrderOf(kinds)'
  BY DEF OrderOf
<1> QED  BY <1>1, WiderSeq

LEMMA TablesStay ==
    ASSUME TablesForm, UNCHANGED shVars, Known \subseteq Known'
    PROVE  TablesForm'
<1>1. UNCHANGED <<ordwth, ordwth2, cjhb, cnt, dec, inb, outb, sqls>>
  BY DEF shVars, tabVars, bufVars
<1>2. inb \in Seq(OrderOf(InKinds)') /\ outb \in Seq(OrderOf(OutKinds)') /\ dec.vec \in Seq(OrderOf(ReadKinds)')
  BY WiderOrders DEF TablesForm
<1>3. dec \in [pc : BeforeRead \cup AtOrders \cup {"push"}, got : Nat, todo : Seq(DOMAIN ordwth), links : SUBSET ShRules,
                pol : {dec.pol}, known : BOOLEAN, acked : Nat, vec : Seq(OrderOf(ReadKinds)'), recs : Seq(DOMAIN ordwth)]
  BY <1>2 DEF TablesForm
<1>4. InKinds' = InKinds /\ OutKinds' = OutKinds /\ ReadKinds' = ReadKinds
  BY DEF InKinds, OutKinds, ReadKinds
<1> QED  BY <1>1, <1>2, <1>3, <1>4 DEF TablesForm, OrderOf, OrderRow, TableRow, SqlRow, Statuses, Tables, BeforeRead, AtOrders, InKinds, OutKinds, ReadKinds

\* A new order is one more row.
LEMMA OrderWritten ==
    ASSUME TablesForm, Ordwth
    PROVE  /\ UNCHANGED <<ordwth2, cjhb, cnt, dec, bufVars, faults>>
           /\ \E row \in OrderRow : row.status = "R" /\ row.reads = 0 /\ ordwth' = Append(ordwth, row)
           /\ ordwth' \in Seq(OrderRow) /\ Len(ordwth') = Len(ordwth) + 1 /\ DOMAIN ordwth \subseteq DOMAIN ordwth'
           /\ \A i \in DOMAIN ordwth : ordwth'[i] = ordwth[i]
           /\ ordwth'[Len(ordwth) + 1].status = "R" /\ ordwth'[Len(ordwth) + 1].reads = 0
           /\ DOMAIN ordwth = 1..Len(ordwth) /\ Len(ordwth) \in Nat /\ DOMAIN ordwth' = 1..(Len(ordwth) + 1)
<1>1. PICK k \in RowKinds, m \in Meets :
        ordwth' = Append(ordwth, [status |-> "R", kind |-> k, reads |-> 0, meets |-> IF k = "new" THEN m ELSE {}])
  BY DEF Ordwth
<1> DEFINE row == [status |-> "R", kind |-> k, reads |-> 0, meets |-> IF k = "new" THEN m ELSE {}]
<1>2. row \in OrderRow /\ row.status = "R" /\ row.reads = 0
  BY DEF OrderRow
<1>3. ordwth' = Append(ordwth, row) /\ ordwth \in Seq(OrderRow)
  BY <1>1 DEF TablesForm
<1> HIDE DEF row
<1>4. /\ ordwth' \in Seq(OrderRow) /\ Len(ordwth') = Len(ordwth) + 1 /\ DOMAIN ordwth = 1..Len(ordwth) /\ Len(ordwth) \in Nat
      /\ DOMAIN ordwth' = 1..(Len(ordwth) + 1) /\ ordwth'[Len(ordwth) + 1] = row
      /\ \A i \in 1..Len(ordwth) : ordwth'[i] = ordwth[i]
  BY <1>2, <1>3, AppendProperties
<1>5. UNCHANGED <<ordwth2, cjhb, cnt, dec, bufVars, faults>>
  BY DEF Ordwth
<1> QED  BY <1>2, <1>3, <1>4, <1>5

LEMMA OrderWrittenForm == ASSUME TablesForm, Ordwth, UNCHANGED mem PROVE TablesForm'
<1>1. UNCHANGED <<ordwth2, cjhb, cnt, dec, inb, outb, sqls>> /\ ordwth' \in Seq(OrderRow) /\ DOMAIN ordwth \subseteq DOMAIN ordwth'
  BY OrderWritten DEF bufVars
<1>2. dec.todo \in Seq(DOMAIN ordwth') /\ dec.recs \in Seq(DOMAIN ordwth')
  <2>1. dec.todo \in Seq(DOMAIN ordwth) /\ dec.recs \in Seq(DOMAIN ordwth)
    BY DEF TablesForm
  <2> QED  BY <1>1, <2>1, WiderSeq
<1>3. dec \in [pc : BeforeRead \cup AtOrders \cup {"push"}, got : Nat, todo : Seq(DOMAIN ordwth'), links : SUBSET ShRules,
                pol : {dec.pol}, known : BOOLEAN, acked : Nat, vec : Seq(OrderOf(ReadKinds)), recs : Seq(DOMAIN ordwth')]
  BY <1>2 DEF TablesForm
<1> QED  BY <1>1, <1>3 DEF TablesForm, OrderOf, OrderRow, TableRow, SqlRow, Statuses, Tables, BeforeRead, AtOrders, InKinds, OutKinds, ReadKinds, Known, Rules

LEMMA ShLostForm == ASSUME TablesForm, ShLost, UNCHANGED tabVars PROVE TablesForm'
<1>1. UNCHANGED <<ordwth, ordwth2, cjhb>> /\ cnt' = [rec |-> 0, cjbh |-> 0] /\ dec' = Waits /\ inb' = <<>> /\ outb' = <<>> /\ sqls' = <<>>
  BY DEF ShLost, tabVars
<1> QED  BY <1>1, Nothing DEF TablesForm, Waits, BeforeRead, OrderRow, TableRow, Statuses

\* The reading worker: a step that reads no order changes only what it is at.
LEMMA ReaderForm ==
    ASSUME TablesForm, UNCHANGED <<tabVars, bufVars, mem>>, cnt' \in [rec : Nat, cjbh : Nat],
           dec' \in [pc : BeforeRead \cup AtOrders \cup {"push"}, got : Nat, todo : Seq(DOMAIN ordwth), links : SUBSET ShRules,
                pol : {dec'.pol}, known : BOOLEAN, acked : Nat, vec : Seq(OrderOf(ReadKinds)), recs : Seq(DOMAIN ordwth)]
    PROVE  TablesForm'
<1>1. UNCHANGED <<ordwth, ordwth2, cjhb, inb, outb, sqls>>
  BY DEF tabVars, bufVars
<1> QED  BY <1>1 DEF TablesForm, OrderOf, OrderRow, TableRow, SqlRow, Statuses, Tables, BeforeRead, AtOrders, InKinds, OutKinds, ReadKinds, Known, Rules

LEMMA WaitsAgain == ASSUME dec' = Waits
    PROVE dec' \in [pc : BeforeRead \cup AtOrders \cup {"push"}, got : Nat, todo : Seq(DOMAIN ordwth), links : SUBSET ShRules,
                pol : {dec'.pol}, known : BOOLEAN, acked : Nat, vec : Seq(OrderOf(ReadKinds)), recs : Seq(DOMAIN ordwth)]
BY WaitsForm

LEMMA NumbersReadForm ==
    ASSUME TablesForm, GetSHCjbh \/ SetCjbh \/ GetSHRec_Num \/ SetRecNum, UNCHANGED mem
    PROVE  TablesForm'
<1>1. LastNumber(cjhb) \in Nat /\ LastNumber(ordwth2) \in Nat
  BY LastNumberForm DEF TablesForm
<1>2. CASE D_Fails
  BY <1>2, ReaderForm, WaitsAgain DEF D_Fails, TablesForm
<1>3. CASE GetSHCjbh /\ ~D_Fails
  <2>1. UNCHANGED <<tabVars, cnt, bufVars>> /\ \E p \in BeforeRead, n \in Nat : dec' = [dec EXCEPT !.pc = p, !.got = n]
    BY <1>1, <1>3 DEF GetSHCjbh, BeforeRead
  <2> QED  BY <2>1, ReaderForm DEF TablesForm
<1>4. CASE SetCjbh
  <2>1. UNCHANGED <<tabVars, bufVars>> /\ cnt' = [cnt EXCEPT !.cjbh = dec.got] /\ dec' = [dec EXCEPT !.pc = "rec", !.got = 0]
    BY <1>4 DEF SetCjbh
  <2>2. cnt' \in [rec : Nat, cjbh : Nat]
    BY <2>1 DEF TablesForm
  <2> QED  BY <2>1, <2>2, ReaderForm DEF TablesForm, BeforeRead
<1>5. CASE GetSHRec_Num /\ ~D_Fails
  <2>1. UNCHANGED <<tabVars, cnt, bufVars>> /\ \E p \in BeforeRead, n \in Nat : dec' = [dec EXCEPT !.pc = p, !.got = n]
    BY <1>1, <1>5 DEF GetSHRec_Num, BeforeRead
  <2> QED  BY <2>1, ReaderForm DEF TablesForm
<1>6. CASE SetRecNum
  <2>1. UNCHANGED <<tabVars, bufVars>> /\ cnt' = [cnt EXCEPT !.rec = dec.got] /\ dec' = [dec EXCEPT !.pc = "select", !.got = 0]
    BY <1>6 DEF SetRecNum
  <2>2. cnt' \in [rec : Nat, cjbh : Nat]
    BY <2>1 DEF TablesForm
  <2> QED  BY <2>1, <2>2, ReaderForm DEF TablesForm, BeforeRead
<1> QED  BY <1>2, <1>3, <1>4, <1>5, <1>6 DEF GetSHCjbh, GetSHRec_Num

LEMMA OrdersSelectedForm ==
    ASSUME TablesForm, NEW n \in Nat, SelectOrders(n), UNCHANGED mem
    PROVE  TablesForm'
<1>1. CASE D_Fails \/ (UNCHANGED <<tabVars, cnt, bufVars>> /\ dec' = Waits)
  BY <1>1, ReaderForm, WaitsAgain DEF D_Fails, TablesForm
<1>2. CASE UNCHANGED <<tabVars, cnt, bufVars>> /\ dec' = [dec EXCEPT !.pc = "policy", !.todo = Unread, !.recs = Unread, !.acked = n,
                                     !.links = {r \in ShRules : times[ShKey][r] # 0}]
  <2> DEFINE L == {r \in ShRules : times[ShKey][r] # 0}
             u == Unread
  <2>1. u \in Seq(DOMAIN ordwth)
    <3>1. u \in Seq({i \in DOMAIN ordwth : ordwth[i].status = "R"})
      BY UnreadForm
    <3> HIDE DEF u
    <3> QED  BY <3>1, WiderSeq
  <2>2. L \in SUBSET ShRules
    OBVIOUS
  <2>3. dec' = [dec EXCEPT !.pc = "policy", !.todo = u, !.recs = u, !.acked = n, !.links = L]
    BY <1>2
  <2> HIDE DEF L, u
  <2> QED  BY <1>2, <2>1, <2>2, <2>3, ReaderForm DEF TablesForm, AtOrders
<1> QED  BY <1>1, <1>2 DEF SelectOrders

LEMMA PolicyReadForm ==
    ASSUME TablesForm, PolicySh \/ PolicySh_Rest, UNCHANGED mem
    PROVE  TablesForm'
<1>1. CASE PolicySh
  <2> DEFINE q == IF polSh = NoPolicy THEN "policy2" ELSE "order"
             g == Get_Sh
             c == polSh # NoPolicy
  <2>1. q \in AtOrders /\ c \in BOOLEAN
    BY DEF AtOrders
  <2>2. UNCHANGED <<tabVars, cnt, bufVars>> /\ dec' = [dec EXCEPT !.pc = q, !.pol = g, !.known = c]
    BY <1>1 DEF PolicySh
  <2> HIDE DEF q, g, c
  <2> QED  BY <2>1, <2>2, ReaderForm DEF TablesForm
<1>2. CASE PolicySh_Rest
  <2>1. UNCHANGED <<tabVars, cnt, bufVars>> /\ \E x : dec' = [dec EXCEPT !.pc = "order", !.pol.check = x]
    BY <1>2 DEF PolicySh_Rest
  <2> QED  BY <2>1, ReaderForm DEF TablesForm, AtOrders
<1> QED  BY <1>1, <1>2

LEMMA RuleChosen ==
    ASSUME NEW links, NEW meets
    PROVE  GetRule(ShRules, links, meets) \in {0} \cup Known
<1> DEFINE c == Candidates(ShRules, links, meets)
<1>1. c \subseteq Known /\ c \subseteq Nat
  BY RulesAssumption DEF Candidates, Known, Rules
<1>2. CASE c = {}
  BY <1>2 DEF GetRule
<1>3. CASE c # {}
  <2> HIDE DEF c
  <2>1. PICK k \in c : \A j \in c : ~(j < k)
    BY <1>1, <1>3, LeastNumber
  <2>2. \E r \in c : \A s \in c : r <= s
    BY <1>1, <2>1
  <2>3. (CHOOSE r \in c : \A s \in c : r <= s) \in c
    BY <2>2
  <2> QED  BY <1>1, <1>3, <2>3 DEF GetRule, c
<1> QED  BY <1>2, <1>3

LEMMA RowPut ==
    ASSUME TablesForm, NEW i \in DOMAIN ordwth, NEW row \in OrderRow, ordwth' = [ordwth EXCEPT ![i] = row]
    PROVE  /\ ordwth' \in Seq(OrderRow) /\ DOMAIN ordwth' = DOMAIN ordwth /\ Len(ordwth') = Len(ordwth)
           /\ ordwth'[i] = row
           /\ \A j \in DOMAIN ordwth : j # i => ordwth'[j] = ordwth[j]
<1>1. ordwth \in Seq(OrderRow) /\ i \in 1..Len(ordwth)
  BY DEF TablesForm
<1>2. ordwth' \in Seq(OrderRow) /\ Len(ordwth') = Len(ordwth)
  BY <1>1, ExceptSeq
<1>3. DOMAIN ordwth' = DOMAIN ordwth
  OBVIOUS
<1>4. \A j \in DOMAIN ordwth : ordwth'[j] = IF j = i THEN row ELSE ordwth[j]
  OBVIOUS
<1> QED  BY <1>2, <1>3, <1>4

\* What reading an order does.
LEMMA OrderReadIs ==
    ASSUME TablesForm, NEW web, SHOrderToFix(web)
    PROVE  LET i == Reading
               o == Message(i, web)
           IN  /\ dec.pc = "order" /\ dec.todo # <<>> /\ i \in DOMAIN ordwth
               /\ Tail(dec.todo) \in Seq(DOMAIN ordwth)
               /\ o \in OrderOf(ReadKinds) /\ o.rec = i
               /\ cnt' = FirstRecNum(i) /\ UNCHANGED <<ordwth2, cjhb, inb, sqls>>
               /\ ordwth' \in Seq(OrderRow) /\ DOMAIN ordwth' = DOMAIN ordwth /\ Len(ordwth') = Len(ordwth)
               /\ ordwth'[i].reads = ordwth[i].reads + 1
               /\ \A j \in DOMAIN ordwth : j # i => ordwth'[j] = ordwth[j]
               /\ \/ /\ ordwth'[i].status = ordwth[i].status /\ Works /\ UNCHANGED outb
                     /\ dec' = [dec EXCEPT !.todo = Tail(@), !.vec = Append(@, o)]
                  \/ /\ (ordwth'[i].status = "P" /\ Works) \/ (ordwth'[i].status = ordwth[i].status /\ Fails("mark"))
                     /\ dec' = [dec EXCEPT !.todo = Tail(@)]
                     /\ outb' = Append(outb, [o EXCEPT !.kind = "error"])
<1> DEFINE i == Reading
           o == Message(i, web)
<1>1. dec.pc = "order" /\ dec.todo # <<>> /\ cnt' = FirstRecNum(i) /\ UNCHANGED <<ordwth2, cjhb, inb, sqls>>
  BY DEF SHOrderToFix
<1>2. i \in DOMAIN ordwth /\ Tail(dec.todo) \in Seq(DOMAIN ordwth)
  <2> DEFINE q == dec.todo
             D == DOMAIN ordwth
  <2>1. q \in Seq(D) /\ q # <<>>
    BY <1>1 DEF TablesForm
  <2> HIDE DEF q, D
  <2>2. q[1] \in D
    BY <2>1
  <2>3. Tail(q) \in Seq(D)
    BY <2>1
  <2> QED  BY <2>2, <2>3 DEF Reading, q, D
<1>3. ordwth[i] \in OrderRow /\ i \in Nat /\ ordwth[i].reads \in Nat /\ ordwth[i].status \in {"R", "P"} /\ ordwth[i].kind \in RowKinds
  <2>1. ordwth \in Seq(OrderRow)
    BY DEF TablesForm
  <2>2. ordwth[i] \in OrderRow /\ i \in Nat
    BY <1>2, <2>1
  <2> QED  BY <2>2 DEF OrderRow
<1>4. RuleOf(i, web) \in {0} \cup Known
  <2>1. GetRule(ShRules, dec.links, ordwth[i].meets) \in {0} \cup Known
    BY RuleChosen
  <2> QED  BY <2>1 DEF RuleOf
<1>5. o \in OrderOf(ReadKinds) /\ o.rec = i
  BY <1>3, <1>4, ShConnAssumption DEF Message, OrderOf, ReadKinds
<1> HIDE DEF i, o
<1> DEFINE read(status) == [ordwth[i] EXCEPT !.reads = ordwth[i].reads + 1, !.status = status]
<1>6. ASSUME NEW status \in {"R", "P"}
      PROVE  read(status) \in OrderRow /\ read(status).reads = ordwth[i].reads + 1 /\ read(status).status = status
  <2> DEFINE old == ordwth[i]
             n == old.reads + 1
  <2>1. old \in OrderRow /\ n \in Nat
    BY <1>3
  <2> HIDE DEF n, old
  <2>2. LET new == [old EXCEPT !.reads = n, !.status = status]
        IN  new \in OrderRow /\ new.reads = n /\ new.status = status
    BY <2>1 DEF OrderRow
  <2> QED  BY <2>2 DEF n, old
<1>7. ASSUME NEW status \in {"R", "P"}, ordwth' = [ordwth EXCEPT ![i] = read(status)]
      PROVE  /\ ordwth' \in Seq(OrderRow) /\ DOMAIN ordwth' = DOMAIN ordwth /\ Len(ordwth') = Len(ordwth)
             /\ ordwth'[i].reads = ordwth[i].reads + 1 /\ ordwth'[i].status = status
             /\ \A j \in DOMAIN ordwth : j # i => ordwth'[j] = ordwth[j]
  <2> DEFINE row == read(status)
  <2>1. row \in OrderRow /\ row.reads = ordwth[i].reads + 1 /\ row.status = status /\ ordwth' = [ordwth EXCEPT ![i] = row]
    BY <1>6, <1>7
  <2> HIDE DEF row
  <2> QED  BY <1>2, <2>1, RowPut
<1>8. [ordwth[i] EXCEPT !.reads = @ + 1] = read(ordwth[i].status)
  <2>1. ordwth[i] = [status |-> ordwth[i].status, kind |-> ordwth[i].kind, reads |-> ordwth[i].reads, meets |-> ordwth[i].meets]
    BY <1>3 DEF OrderRow
  <2> QED  BY <2>1
<1>9. ASSUME ordwth' = [ordwth EXCEPT ![i].reads = @ + 1]
      PROVE  /\ ordwth' \in Seq(OrderRow) /\ DOMAIN ordwth' = DOMAIN ordwth /\ Len(ordwth') = Len(ordwth)
             /\ ordwth'[i].reads = ordwth[i].reads + 1 /\ ordwth'[i].status = ordwth[i].status
             /\ \A j \in DOMAIN ordwth : j # i => ordwth'[j] = ordwth[j]
  <2>1. ordwth' = [ordwth EXCEPT ![i] = read(ordwth[i].status)]
    BY <1>8, <1>9
  <2> HIDE DEF read
  <2> QED  BY <1>3, <1>7, <2>1
<1>10. ASSUME ordwth' = [ordwth EXCEPT ![i].reads = @ + 1, ![i].status = "P"]
       PROVE  /\ ordwth' \in Seq(OrderRow) /\ DOMAIN ordwth' = DOMAIN ordwth /\ Len(ordwth') = Len(ordwth)
              /\ ordwth'[i].reads = ordwth[i].reads + 1 /\ ordwth'[i].status = "P"
              /\ \A j \in DOMAIN ordwth : j # i => ordwth'[j] = ordwth[j]
  <2>1. ordwth' = [ordwth EXCEPT ![i] = read("P")]
    BY <1>2, <1>10
  <2> HIDE DEF read
  <2> QED  BY <1>3, <1>7, <2>1
<1> HIDE DEF i, o, read
<1>11. CASE CheckOrder_TradeType(o)
  <2>1. /\ ordwth' = [ordwth EXCEPT ![i].reads = @ + 1] /\ Works /\ UNCHANGED outb
        /\ dec' = [dec EXCEPT !.todo = Tail(@), !.vec = Append(@, o)]
    BY <1>11 DEF SHOrderToFix, i, o
  <2> QED  BY <1>1, <1>2, <1>5, <1>9, <2>1 DEF i, o
<1>12. CASE ~CheckOrder_TradeType(o)
  <2>1. /\ SetOrdwthStatus(i) /\ dec' = [dec EXCEPT !.todo = Tail(@)]
        /\ outb' = Append(outb, [o EXCEPT !.kind = "error"])
    BY <1>12 DEF SHOrderToFix, i, o
  <2>2. CASE Works /\ ordwth' = [ordwth EXCEPT ![i].reads = @ + 1, ![i].status = "P"]
    <3>1. /\ ordwth' \in Seq(OrderRow) /\ DOMAIN ordwth' = DOMAIN ordwth /\ Len(ordwth') = Len(ordwth)
          /\ ordwth'[i].reads = ordwth[i].reads + 1 /\ ordwth'[i].status = "P" /\ Works
          /\ \A j \in DOMAIN ordwth : j # i => ordwth'[j] = ordwth[j]
      BY <1>10, <2>2
    <3> QED  BY <1>1, <1>2, <1>5, <2>1, <3>1 DEF i, o
  <2>3. CASE Fails("mark") /\ ordwth' = [ordwth EXCEPT ![i].reads = @ + 1]
    BY <1>1, <1>2, <1>5, <1>9, <2>1, <2>3 DEF i, o
  <2> QED  BY <2>1, <2>2, <2>3 DEF SetOrdwthStatus
<1> QED  BY <1>11, <1>12

\* A step of the workers that leaves the rules alone.
LEMMA TablesBy ==
    ASSUME UNCHANGED mem, ordwth' \in Seq(OrderRow), DOMAIN ordwth' = DOMAIN ordwth, ordwth2' \in Seq(TableRow), cjhb' \in Seq(TableRow),
           cnt' \in [rec : Nat, cjbh : Nat], inb' \in Seq(OrderOf(InKinds)), outb' \in Seq(OrderOf(OutKinds)), sqls' \in Seq(SqlRow),
           dec' \in [pc : BeforeRead \cup AtOrders \cup {"push"}, got : Nat, todo : Seq(DOMAIN ordwth), links : SUBSET ShRules,
                pol : {dec'.pol}, known : BOOLEAN, acked : Nat, vec : Seq(OrderOf(ReadKinds)), recs : Seq(DOMAIN ordwth)]
    PROVE  TablesForm'
BY DEF TablesForm, OrderOf, OrderRow, TableRow, SqlRow, Statuses, Tables, BeforeRead, AtOrders, InKinds, OutKinds, ReadKinds, Known, Rules

LEMMA OrderReadForm == ASSUME TablesForm, NEW web, SHOrderToFix(web), UNCHANGED mem PROVE TablesForm'
<1> DEFINE i == Reading
           o == Message(i, web)
           rest == Tail(dec.todo)
<1>1. /\ i \in DOMAIN ordwth /\ rest \in Seq(DOMAIN ordwth) /\ o \in OrderOf(ReadKinds)
      /\ cnt' = FirstRecNum(i) /\ UNCHANGED <<ordwth2, cjhb, inb, sqls>>
      /\ ordwth' \in Seq(OrderRow) /\ DOMAIN ordwth' = DOMAIN ordwth
      /\ \/ /\ UNCHANGED outb /\ dec' = [dec EXCEPT !.todo = Tail(@), !.vec = Append(@, o)]
         \/ /\ dec' = [dec EXCEPT !.todo = Tail(@)] /\ outb' = Append(outb, [o EXCEPT !.kind = "error"])
  BY OrderReadIs
<1>2. i \in Nat
  BY SMTT(30), <1>1 DEF TablesForm
<1>3. cnt' \in [rec : Nat, cjbh : Nat]
  <2>1. cnt \in [rec : Nat, cjbh : Nat]
    BY DEF TablesForm
  <2> HIDE DEF i
  <2> QED  BY <1>1, <1>2, <2>1 DEF FirstRecNum
<1>4. [o EXCEPT !.kind = "error"] \in OrderOf(OutKinds)
  <2> HIDE DEF o
  <2> QED  BY <1>1 DEF OrderOf, OutKinds
<1> DEFINE e == [o EXCEPT !.kind = "error"]
<1>5. Append(outb, e) \in Seq(OrderOf(OutKinds)) /\ Append(dec.vec, o) \in Seq(OrderOf(ReadKinds))
  <2> HIDE DEF e, o
  <2> QED  BY <1>1, <1>4 DEF TablesForm, e
<1>6. outb' \in Seq(OrderOf(OutKinds))
  <2>1. outb \in Seq(OrderOf(OutKinds))
    BY DEF TablesForm
  <2> QED  BY <1>1, <1>5, <2>1
<1>7. dec' \in [pc : BeforeRead \cup AtOrders \cup {"push"}, got : Nat, todo : Seq(DOMAIN ordwth), links : SUBSET ShRules,
                pol : {dec'.pol}, known : BOOLEAN, acked : Nat, vec : Seq(OrderOf(ReadKinds)), recs : Seq(DOMAIN ordwth)]
  <2> DEFINE vec == Append(dec.vec, o)
  <2>1. vec \in Seq(OrderOf(ReadKinds))
    BY <1>5
  <2>2. dec' = [dec EXCEPT !.todo = rest, !.vec = vec] \/ dec' = [dec EXCEPT !.todo = rest]
    BY <1>1
  <2> HIDE DEF i, o, rest, vec
  <2> QED  BY <1>1, <2>1, <2>2 DEF TablesForm
<1>8. ordwth2' \in Seq(TableRow) /\ cjhb' \in Seq(TableRow) /\ inb' \in Seq(OrderOf(InKinds)) /\ sqls' \in Seq(SqlRow)
  BY <1>1 DEF TablesForm
<1> HIDE DEF i, o, rest, e
<1> QED  BY <1>1, <1>3, <1>6, <1>7, <1>8, TablesBy

\* The statuses of the round's orders.
LEMMA StatusSetIs ==
    ASSUME TablesForm
    PROVE  /\ SetStatus(dec.recs) \in Seq(OrderRow) /\ DOMAIN SetStatus(dec.recs) = DOMAIN ordwth
           /\ \A i \in DOMAIN ordwth : SetStatus(dec.recs)[i].reads = ordwth[i].reads
                 /\ SetStatus(dec.recs)[i].status = IF i \in Range(dec.recs) THEN "P" ELSE ordwth[i].status
<1> DEFINE new == SetStatus(dec.recs)
<1>1. ordwth \in Seq(OrderRow) /\ DOMAIN ordwth = 1..Len(ordwth) /\ Len(ordwth) \in Nat
  BY DEF TablesForm
<1>2. \A row \in OrderRow : [row EXCEPT !.status = "P"] \in OrderRow /\ [row EXCEPT !.status = "P"].reads = row.reads
                           /\ [row EXCEPT !.status = "P"].status = "P"
  BY DEF OrderRow
<1>3. \A i \in DOMAIN ordwth : ordwth[i] \in OrderRow
  BY <1>1
<1>4. new = [i \in 1..Len(ordwth) |-> IF i \in Range(dec.recs) THEN [ordwth[i] EXCEPT !.status = "P"] ELSE ordwth[i]]
  BY <1>1 DEF SetStatus
<1>5. \A i \in DOMAIN ordwth : new[i] = IF i \in Range(dec.recs) THEN [ordwth[i] EXCEPT !.status = "P"] ELSE ordwth[i]
  BY <1>1, <1>4
<1>6. new \in Seq(OrderRow)
  <2>1. new \in [1..Len(ordwth) -> OrderRow]
    BY <1>1, <1>2, <1>3, <1>4
  <2> HIDE DEF new
  <2> QED  BY <1>1, <2>1, SeqDef
<1>7. DOMAIN new = DOMAIN ordwth
  BY <1>1, <1>4
<1>8. \A i \in DOMAIN ordwth : new[i].reads = ordwth[i].reads
                 /\ new[i].status = IF i \in Range(dec.recs) THEN "P" ELSE ordwth[i].status
  <2> HIDE DEF new
  <2> QED  BY <1>2, <1>3, <1>5
<1> QED  BY <1>6, <1>7, <1>8

LEMMA StatusSetForm == ASSUME TablesForm, Set_MutilOrd_Status, UNCHANGED mem PROVE TablesForm'
<1>1. ordwth' \in {ordwth, SetStatus(dec.recs)} /\ dec' = [dec EXCEPT !.pc = "push"] /\ UNCHANGED <<ordwth2, cjhb, cnt, inb, outb, sqls>>
  BY DEF Set_MutilOrd_Status, bufVars
<1>2. ordwth' \in Seq(OrderRow) /\ DOMAIN ordwth' = DOMAIN ordwth
  BY <1>1, StatusSetIs DEF TablesForm
<1>3. dec' \in [pc : BeforeRead \cup AtOrders \cup {"push"}, got : Nat, todo : Seq(DOMAIN ordwth), links : SUBSET ShRules,
                pol : {dec'.pol}, known : BOOLEAN, acked : Nat, vec : Seq(OrderOf(ReadKinds)), recs : Seq(DOMAIN ordwth)]
  BY <1>1 DEF TablesForm
<1>4. /\ ordwth2' \in Seq(TableRow) /\ cjhb' \in Seq(TableRow) /\ inb' \in Seq(OrderOf(InKinds)) /\ sqls' \in Seq(SqlRow)
      /\ cnt' \in [rec : Nat, cjbh : Nat] /\ outb' \in Seq(OrderOf(OutKinds))
  BY <1>1 DEF TablesForm
<1> QED  BY <1>2, <1>3, <1>4, TablesBy

LEMMA OrdersPushedForm == ASSUME TablesForm, ProcShMessage, UNCHANGED mem PROVE TablesForm'
<1>1. inb' = inb \o dec.vec /\ dec' = Waits /\ UNCHANGED <<ordwth, ordwth2, cjhb, cnt, outb, sqls>>
  BY DEF ProcShMessage, tabVars
<1>2. dec' \in [pc : BeforeRead \cup AtOrders \cup {"push"}, got : Nat, todo : Seq(DOMAIN ordwth), links : SUBSET ShRules,
                pol : {dec'.pol}, known : BOOLEAN, acked : Nat, vec : Seq(OrderOf(ReadKinds)), recs : Seq(DOMAIN ordwth)]
  BY <1>1, WaitsAgain
<1>3. dec.vec \in Seq(OrderOf(InKinds))
  <2>1. OrderOf(ReadKinds) \subseteq OrderOf(InKinds)
    BY DEF OrderOf, InKinds
  <2>2. dec.vec \in Seq(OrderOf(ReadKinds))
    BY DEF TablesForm
  <2> QED  BY <2>1, <2>2, WiderSeq
<1>4. inb' \in Seq(OrderOf(InKinds))
  <2>1. inb \in Seq(OrderOf(InKinds))
    BY DEF TablesForm
  <2> QED  BY <1>1, <1>3, <2>1, ConcatProperties
<1>5. /\ ordwth2' \in Seq(TableRow) /\ cjhb' \in Seq(TableRow) /\ sqls' \in Seq(SqlRow) /\ ordwth' \in Seq(OrderRow) /\ DOMAIN ordwth' = DOMAIN ordwth
      /\ cnt' \in [rec : Nat, cjbh : Nat] /\ outb' \in Seq(OrderOf(OutKinds))
  BY <1>1 DEF TablesForm
<1> QED  BY <1>2, <1>4, <1>5, TablesBy

\* What a step of the flows does: it answers the first message and takes it
\* away, or keeps it as confirmed.
LEMMA FlowStepIs ==
    ASSUME TablesForm, FlowStep
    PROVE  LET o == inb[1]
           IN  /\ inb # <<>> /\ o \in OrderOf(InKinds) /\ UNCHANGED <<tabVars, cnt, dec, sqls>> /\ Works
               /\ \E kind \in OutKinds :
                    /\ [o EXCEPT !.kind = kind] \in OrderOf(OutKinds)
                    /\ outb' = Append(outb, [o EXCEPT !.kind = kind])
                    /\ kind = "match" <=> o.kind = "confirmed"
                    /\ IF kind = "confirm" THEN inb' = [inb EXCEPT ![1] = [o EXCEPT !.kind = "confirmed"]] ELSE inb' = Tail(inb)
               /\ [o EXCEPT !.kind = "confirmed"] \in OrderOf(InKinds)
<1> DEFINE o == inb[1]
<1>1. inb # <<>> /\ UNCHANGED <<tabVars, cnt, dec, sqls>> /\ Works
  BY DEF FlowStep
<1>2. o \in OrderOf(InKinds)
  BY <1>1 DEF TablesForm
<1>3. PICK kind \in {"cancel", "cancelreject", "cancelerror", "match", "confirm", "error"} :
        /\ outb' = Append(outb, [o EXCEPT !.kind = kind])
        /\ kind = "match" <=> o.kind = "confirmed"
        /\ inb' = IF kind = "confirm" THEN [inb EXCEPT ![1].kind = "confirmed"] ELSE Tail(inb)
  <2> HIDE DEF o
  <2> QED  BY DEF FlowStep, OfCancel, o
<1>4. [inb EXCEPT ![1].kind = "confirmed"] = [inb EXCEPT ![1] = [o EXCEPT !.kind = "confirmed"]]
  OBVIOUS
<1>5. [o EXCEPT !.kind = kind] \in OrderOf(OutKinds) /\ [o EXCEPT !.kind = "confirmed"] \in OrderOf(InKinds)
  <2> HIDE DEF o
  <2> QED  BY <1>2 DEF OrderOf, OutKinds, InKinds
<1>6. kind \in OutKinds
  BY DEF OutKinds
<1> HIDE DEF o
<1> QED  BY <1>1, <1>2, <1>3, <1>4, <1>5, <1>6 DEF o

LEMMA FlowStepForm == ASSUME TablesForm, FlowStep, UNCHANGED mem PROVE TablesForm'
<1> DEFINE o == inb[1]
           known == [o EXCEPT !.kind = "confirmed"]
<1>1. inb # <<>> /\ UNCHANGED <<ordwth, ordwth2, cjhb, cnt, dec, sqls>> /\ known \in OrderOf(InKinds)
  BY FlowStepIs DEF tabVars
<1>2. \E answer \in OrderOf(OutKinds) : outb' = Append(outb, answer)
  BY FlowStepIs
<1>3. inb' = [inb EXCEPT ![1] = known] \/ inb' = Tail(inb)
  BY FlowStepIs
<1> HIDE DEF known
<1>4. inb' \in Seq(OrderOf(InKinds))
  <2>1. inb \in Seq(OrderOf(InKinds)) /\ 1 \in 1..Len(inb)
    BY <1>1 DEF TablesForm
  <2>2. Tail(inb) \in Seq(OrderOf(InKinds))
    BY <1>1, <2>1
  <2> QED  BY <1>1, <1>3, <2>1, <2>2, ExceptSeq
<1>5. outb' \in Seq(OrderOf(OutKinds))
  BY <1>2 DEF TablesForm
<1>6. /\ ordwth2' \in Seq(TableRow) /\ cjhb' \in Seq(TableRow) /\ sqls' \in Seq(SqlRow) /\ ordwth' \in Seq(OrderRow) /\ DOMAIN ordwth' = DOMAIN ordwth
      /\ cnt' \in [rec : Nat, cjbh : Nat]
      /\ dec' \in [pc : BeforeRead \cup AtOrders \cup {"push"}, got : Nat, todo : Seq(DOMAIN ordwth), links : SUBSET ShRules,
                pol : {dec'.pol}, known : BOOLEAN, acked : Nat, vec : Seq(OrderOf(ReadKinds)), recs : Seq(DOMAIN ordwth)]
  BY <1>1 DEF TablesForm
<1> QED  BY <1>4, <1>5, <1>6, TablesBy

\* The row a report makes, and the numbers it draws.
Reported(o, p, row) ==
    /\ p.sqls = <<row>> /\ row \in SqlRow /\ row.rec = o.rec /\ p.cnt \in [rec : Nat, cjbh : Nat]
    /\ IF o.kind = "match"
       THEN row.table = "cjhb" /\ row.num = cnt.cjbh + 1 /\ p.cnt.cjbh = cnt.cjbh + 1 /\ p.cnt.rec = cnt.rec
       ELSE row.table = "ordwth2" /\ row.num = cnt.rec + 1 /\ p.cnt.rec >= cnt.rec + 1 /\ p.cnt.cjbh = cnt.cjbh
    /\ o.kind = "confirm" => row.status \in {"O", "rule"}

\* A confirm makes none when the rule's part is not there.
Silent(o) == o.kind = "confirm" => o.rule \in Known /\ Missing(mem[o.rule].confirm)

LEMMA ReportIs ==
    ASSUME TablesForm, MapForm, NEW o \in OrderOf(OutKinds)
    PROVE  (\E row : Reported(o, ProcReport(o), row)) \/ (ProcReport(o) = NoRow /\ Silent(o))
<1>1. o.rec \in Nat /\ o.kind \in OutKinds /\ o.rule \in {0} \cup Known
  BY DEF OrderOf
<1>2. cnt \in [rec : Nat, cjbh : Nat] /\ cnt.rec \in Nat /\ cnt.cjbh \in Nat
  BY DEF TablesForm
<1>3. \A c \in [rec : Nat, cjbh : Nat] :
        /\ IncRecNum(c) \in [rec : Nat, cjbh : Nat] /\ IncRecNum(c).rec = c.rec + 1 /\ IncRecNum(c).cjbh = c.cjbh
        /\ IncCjbh(c) \in [rec : Nat, cjbh : Nat] /\ IncCjbh(c).rec = c.rec /\ IncCjbh(c).cjbh = c.cjbh + 1
  BY DEF IncRecNum, IncCjbh
<1>4. <<"match", 0>> \in {"confirm", "match"} \X Nat /\ <<"confirm", 0>> \in {"confirm", "match"} \X Nat
  OBVIOUS
<1>5. o.rule # 0 => Word_Rule(o, "confirm") \in {"confirm", "match"} \X Nat /\ Word_Rule(o, "match") \in {"confirm", "match"} \X Nat
  <2> HAVE o.rule # 0
  <2>1. o.rule \in Rules /\ mem[o.rule] \in Rule
    BY <1>1 DEF Known, MapForm, Rules
  <2>2. mem[o.rule].confirm \in {"confirm", "match"} \X Nat /\ mem[o.rule].match \in {"confirm", "match"} \X Nat
    BY <2>1 DEF Rule
  <2> QED  BY <2>2 DEF Word_Rule
<1>6. \A n \in Nat \ {0}, part \in {"confirm", "match"} \X Nat :
        RowCjhb(n, o.rec, part) \in SqlRow /\ RowCjhb(n, o.rec, part).rec = o.rec /\ RowCjhb(n, o.rec, part).table = "cjhb"
        /\ RowCjhb(n, o.rec, part).num = n
  BY <1>1 DEF RowCjhb, SqlRow, Tables, Statuses
<1>7. \A n \in Nat \ {0}, part \in {"confirm", "match"} \X Nat, status \in Statuses :
        Row2(n, o.rec, status, part) \in SqlRow /\ Row2(n, o.rec, status, part).rec = o.rec
        /\ Row2(n, o.rec, status, part).table = "ordwth2" /\ Row2(n, o.rec, status, part).num = n
        /\ Row2(n, o.rec, status, part).status = status
  BY ZenonT(30), <1>1 DEF Row2, SqlRow, Tables, Statuses
<1>m. CASE o.kind = "match" /\ o.rule # 0 /\ Missing(Word_Rule(o, "match"))
  BY <1>m DEF ProcReport, ProcSingleReport, FixToSHReport_JsonRule, Report_Rest, Silent
<1>c. CASE o.kind = "confirm" /\ o.rule # 0 /\ Missing(Word_Rule(o, "confirm"))
  BY <1>1, <1>c DEF ProcReport, ProcSHConfirmOrder, FixToSHConfirm_JsonRule, Confirm_Rest, Word_Rule, Silent
<1>e. CASE o.kind = "cancelerror"
  BY <1>e DEF ProcReport, Silent
<1>8. CASE o.kind = "match" /\ ~(o.rule # 0 /\ Missing(Word_Rule(o, "match")))
  <2> DEFINE part == IF o.rule # 0 THEN Word_Rule(o, "match") ELSE <<"match", 0>>
             c == IncCjbh(cnt)
             row == RowCjhb(c.cjbh, o.rec, part)
  <2>1. ProcReport(o) = [cnt |-> c, sqls |-> <<row>>]
    BY <1>8 DEF ProcReport, ProcSingleReport, FixToSHReport, FixToSHReport_JsonRule, Word_Cjbh, Report_Order, Report_Rest, Word_Field
  <2>2. part \in {"confirm", "match"} \X Nat /\ c \in [rec : Nat, cjbh : Nat] /\ c.rec = cnt.rec /\ c.cjbh = cnt.cjbh + 1
    BY <1>2, <1>3, <1>4, <1>5
  <2>3. c.cjbh \in Nat \ {0}
    BY <1>2, <2>2
  <2> HIDE DEF part, c
  <2>4. row \in SqlRow /\ row.rec = o.rec /\ row.table = "cjhb" /\ row.num = c.cjbh
    BY <1>6, <2>2, <2>3
  <2> HIDE DEF row
  <2> QED  BY <1>8, <2>1, <2>2, <2>4 DEF Reported
<1>9. CASE o.kind = "confirm" /\ o.rule # 0 /\ ~Missing(Word_Rule(o, "confirm"))
  <2> DEFINE part == Word_Rule(o, "confirm")
             c == IncRecNum(cnt)
             status == "rule"
             row == Row2(c.rec, o.rec, status, part)
  <2>1. ProcReport(o) = [cnt |-> c, sqls |-> <<row>>]
    BY <1>9 DEF ProcReport, ProcSHConfirmOrder, FixToSHConfirm_JsonRule, Word_RecNum, Confirm_Order, Confirm_Status, Confirm_Rest, Word_Field
  <2>2. part \in {"confirm", "match"} \X Nat /\ c \in [rec : Nat, cjbh : Nat] /\ c.rec = cnt.rec + 1 /\ c.cjbh = cnt.cjbh
    BY <1>2, <1>3, <1>5, <1>9
  <2>3. c.rec \in Nat \ {0}
    BY <1>2, <2>2
  <2>5. status \in Statuses
    BY DEF Statuses
  <2> HIDE DEF part, c, status
  <2>6. row \in SqlRow /\ row.rec = o.rec /\ row.table = "ordwth2" /\ row.num = c.rec /\ row.status = status
    BY <1>7, <2>2, <2>3, <2>5
  <2>4. row \in SqlRow /\ row.rec = o.rec /\ row.table = "ordwth2" /\ row.num = c.rec /\ row.status = "rule"
    BY <2>6 DEF status
  <2> HIDE DEF row
  <2> QED  BY <1>2, <1>9, <2>1, <2>2, <2>4 DEF Reported
<1>10. CASE o.kind # "match" /\ ~(o.kind = "confirm" /\ o.rule # 0) /\ o.kind # "cancelerror"
  <2> DEFINE part == <<"confirm", 0>>
             c == IncRecNum(cnt)
             d == TeOrderNum(o, c)
             status == ConfirmStatus(o)
             row == Row2(c.rec, o.rec, status, part)
  <2>1. ProcReport(o) = [cnt |-> d, sqls |-> <<row>>]
    BY <1>10 DEF ProcReport, ProcSHConfirmOrder, FixToSHConfirm
  <2>2. part \in {"confirm", "match"} \X Nat /\ c \in [rec : Nat, cjbh : Nat] /\ c.rec = cnt.rec + 1 /\ c.cjbh = cnt.cjbh
    BY <1>2, <1>3, <1>4
  <2>3. c.rec \in Nat \ {0}
    BY <1>2, <2>2
  <2>4. status \in Statuses /\ (o.kind = "confirm" => status = "O")
    BY DEF ConfirmStatus, Statuses
  <2> HIDE DEF part, c, status
  <2>5. row \in SqlRow /\ row.rec = o.rec /\ row.table = "ordwth2" /\ row.num = c.rec /\ row.status = status
    BY <1>7, <2>2, <2>3, <2>4
  <2>6. d \in [rec : Nat, cjbh : Nat] /\ d.rec >= c.rec /\ d.cjbh = c.cjbh
    <3>1. CASE o.kind = "cancel"
      <4>1. d = IncRecNum(c)
        BY <3>1 DEF TeOrderNum
      <4>2. IncRecNum(c) \in [rec : Nat, cjbh : Nat] /\ IncRecNum(c).rec = c.rec + 1 /\ IncRecNum(c).cjbh = c.cjbh
        BY <1>3, <2>2
      <4> HIDE DEF d
      <4> QED  BY <2>3, <4>1, <4>2
    <3>2. CASE o.kind # "cancel"
      <4>1. d = c
        BY <3>2 DEF TeOrderNum
      <4> HIDE DEF d
      <4> QED  BY <2>2, <2>3, <4>1
    <3> QED  BY <3>1, <3>2
  <2> HIDE DEF row, d
  <2> QED  BY <1>2, <1>10, <2>1, <2>2, <2>3, <2>4, <2>5, <2>6 DEF Reported
<1> QED  BY <1>m, <1>c, <1>e, <1>8, <1>9, <1>10

LEMMA ReportTaken ==
    ASSUME TablesForm, MapForm, Get_SHReport
    PROVE  /\ outb # <<>> /\ outb[1] \in OrderOf(OutKinds) /\ outb' = Tail(outb) /\ UNCHANGED <<tabVars, dec, inb>> /\ Works
           /\ \/ \E row, p : Reported(outb[1], p, row) /\ cnt' = p.cnt /\ sqls' = Append(sqls, row)
              \/ UNCHANGED <<cnt, sqls>> /\ Silent(outb[1])
<1>1. outb # <<>> /\ outb' = Tail(outb) /\ UNCHANGED <<tabVars, dec, inb>> /\ Works
  BY DEF Get_SHReport
<1>2. outb[1] \in OrderOf(OutKinds)
  BY <1>1 DEF TablesForm
<1> DEFINE o == outb[1]
           p == ProcReport(o)
<1>3. cnt' = p.cnt /\ sqls' = sqls \o p.sqls
  BY DEF Get_SHReport
<1> HIDE DEF o
<1>4. (\E row : Reported(o, p, row)) \/ (p = NoRow /\ Silent(o))
  BY <1>2, ReportIs DEF o
<1> HIDE DEF p
<1>5. CASE \E row : Reported(o, p, row)
  <2>1. PICK row : Reported(o, p, row)
    BY <1>5
  <2>2. p.sqls = <<row>> /\ row \in SqlRow
    BY <2>1 DEF Reported
  <2>3. sqls' = Append(sqls, row)
    BY <1>3, <2>2 DEF TablesForm
  <2> QED  BY <1>1, <1>2, <1>3, <2>1, <2>3 DEF o
<1>6. CASE p = NoRow /\ Silent(o)
  <2>1. UNCHANGED <<cnt, sqls>>
    BY <1>3, <1>6 DEF NoRow, TablesForm
  <2> QED  BY <1>1, <1>2, <1>6, <2>1 DEF o
<1> QED  BY <1>4, <1>5, <1>6

LEMMA ReportTakenForm == ASSUME TablesForm, MapForm, Get_SHReport, UNCHANGED mem PROVE TablesForm'
<1>1. outb # <<>> /\ outb' = Tail(outb) /\ UNCHANGED <<ordwth, ordwth2, cjhb, dec, inb>>
  BY DEF Get_SHReport, tabVars
<1>2. (\E row, p : Reported(outb[1], p, row) /\ cnt' = p.cnt /\ sqls' = Append(sqls, row)) \/ UNCHANGED <<cnt, sqls>>
  BY ReportTaken
<1>3. cnt' \in [rec : Nat, cjbh : Nat] /\ sqls' \in Seq(SqlRow)
  <2>0. cnt \in [rec : Nat, cjbh : Nat] /\ sqls \in Seq(SqlRow)
    BY DEF TablesForm
  <2>1. CASE \E row, p : Reported(outb[1], p, row) /\ cnt' = p.cnt /\ sqls' = Append(sqls, row)
    <3>1. PICK row, p : Reported(outb[1], p, row) /\ cnt' = p.cnt /\ sqls' = Append(sqls, row)
      BY <2>1
    <3>2. row \in SqlRow /\ p.cnt \in [rec : Nat, cjbh : Nat]
      BY <3>1 DEF Reported
    <3> QED  BY <2>0, <3>1, <3>2, AppendProperties
  <2>2. CASE UNCHANGED <<cnt, sqls>>
    BY <2>0, <2>2
  <2> QED  BY <1>2, <2>1, <2>2
<1>4. outb' \in Seq(OrderOf(OutKinds))
  BY <1>1 DEF TablesForm
<1>5. /\ ordwth2' \in Seq(TableRow) /\ cjhb' \in Seq(TableRow) /\ inb' \in Seq(OrderOf(InKinds)) /\ ordwth' \in Seq(OrderRow) /\ DOMAIN ordwth' = DOMAIN ordwth
      /\ dec' \in [pc : BeforeRead \cup AtOrders \cup {"push"}, got : Nat, todo : Seq(DOMAIN ordwth), links : SUBSET ShRules,
                pol : {dec'.pol}, known : BOOLEAN, acked : Nat, vec : Seq(OrderOf(ReadKinds)), recs : Seq(DOMAIN ordwth)]
  BY <1>1 DEF TablesForm
<1> QED  BY <1>3, <1>4, <1>5, TablesBy

\* The rows of a table among the statements, in their order.
Mine(table, done) == Ascending({i \in DOMAIN done : done[i].table = table})

LEMMA RowsOfIs ==
    ASSUME NEW done \in Seq(SqlRow), NEW table
    PROVE  LET m == Mine(table, done)
               rs == RowsOf(table, done)
           IN  /\ rs \in Seq(TableRow) /\ DOMAIN rs = DOMAIN m /\ Len(rs) = Len(m) /\ Len(m) \in Nat /\ DOMAIN m = 1..Len(m)
               /\ \A k \in DOMAIN m : /\ m[k] \in DOMAIN done /\ done[m[k]].table = table
                                      /\ rs[k].num = done[m[k]].num /\ rs[k].rec = done[m[k]].rec
                                      /\ rs[k].status = done[m[k]].status /\ rs[k].part = done[m[k]].part
               /\ \A i \in DOMAIN done : done[i].table = table => \E k \in DOMAIN m : m[k] = i
               /\ \A j, k \in DOMAIN m : j < k => m[j] < m[k]
<1> DEFINE S == {i \in DOMAIN done : done[i].table = table}
           m == Mine(table, done)
           row(s) == [num |-> s.num, rec |-> s.rec, status |-> s.status, part |-> s.part]
           rs == RowsOf(table, done)
<1>1. S \in SUBSET Nat /\ IsFiniteSet(S)
  <2>1. IsFiniteSet(1..Len(done)) /\ S \in SUBSET (1..Len(done))
    BY FS_Interval
  <2>2. IsFiniteSet(S)
    BY <2>1, FS_Subset
  <2> QED  BY <2>2
<1>2. /\ m \in Seq(S) /\ Len(m) = Cardinality(S) /\ {m[k] : k \in 1..Cardinality(S)} = S
      /\ \A j, k \in 1..Cardinality(S) : j < k => m[j] < m[k]
  <2> HIDE DEF S
  <2>1. m = Ascending(S)
    BY DEF Mine, S
  <2> QED  BY <1>1, <2>1, AscendingIs
<1>3. DOMAIN m = 1..Cardinality(S) /\ Len(m) \in Nat /\ \A k \in DOMAIN m : m[k] \in S
  <2> HIDE DEF S, m
  <2> QED  BY <1>2
<1>4. rs = [k \in DOMAIN m |-> row(done[m[k]])]
  BY DEF RowsOf, Mine
<1>5. \A k \in DOMAIN m : m[k] \in DOMAIN done /\ done[m[k]].table = table /\ done[m[k]] \in SqlRow
  BY <1>3
<1>6. \A s \in SqlRow : row(s) \in TableRow
  BY DEF SqlRow, TableRow
<1>7. \A i \in DOMAIN done : done[i].table = table => \E k \in DOMAIN m : m[k] = i
  <2>1. TAKE i \in DOMAIN done
  <2>2. HAVE done[i].table = table
  <2>3. i \in S
    BY <2>2
  <2> HIDE DEF S, m
  <2> QED  BY <1>2, <1>3, <2>3
<1>8. DOMAIN m = 1..Len(m)
  BY <1>2, <1>3
<1> HIDE DEF S, m, row
<1>9. rs \in [1..Len(m) -> TableRow]
  BY <1>4, <1>5, <1>6, <1>8
<1>10. rs \in Seq(TableRow) /\ Len(rs) = Len(m) /\ DOMAIN rs = DOMAIN m
  <2> HIDE DEF rs
  <2> QED  BY <1>3, <1>8, <1>9, SeqDef, LenProperties
<1>11. \A k \in DOMAIN m : rs[k].num = done[m[k]].num /\ rs[k].rec = done[m[k]].rec
                                      /\ rs[k].status = done[m[k]].status /\ rs[k].part = done[m[k]].part
  BY <1>4 DEF row
<1> HIDE DEF rs
<1>12. \A j, k \in DOMAIN m : j < k => m[j] < m[k]
  BY <1>2, <1>3
<1> QED  BY <1>3, <1>5, <1>7, <1>8, <1>10, <1>11, <1>12 DEF m, rs

LEMMA ReportsSentIs ==
    ASSUME TablesForm, Send_SH_ReportOrConfirm
    PROVE  \E done \in Seq(SqlRow) :
             /\ done \in {sqls, <<>>, Tail(sqls)}
             /\ done = sqls \/ Fails("report")
             /\ ordwth2' = ordwth2 \o RowsOf("ordwth2", done)
             /\ cjhb' = cjhb \o RowsOf("cjhb", done)
             /\ sqls # <<>> /\ sqls' = <<>> /\ outb = <<>> /\ UNCHANGED <<ordwth, cnt, dec, inb, outb>>
<1>1. PICK done \in {sqls, <<>>, Tail(sqls)} :
         /\ IF done = sqls THEN Works ELSE Fails("report")
         /\ ordwth2' = ordwth2 \o RowsOf("ordwth2", done)
         /\ cjhb' = cjhb \o RowsOf("cjhb", done)
  BY DEF Send_SH_ReportOrConfirm
<1>2. sqls # <<>> /\ sqls' = <<>> /\ outb = <<>> /\ UNCHANGED <<ordwth, cnt, dec, inb, outb>>
  BY DEF Send_SH_ReportOrConfirm
<1>3. sqls \in Seq(SqlRow) /\ <<>> \in Seq(SqlRow)
  BY Nothing DEF TablesForm
<1>4. Tail(sqls) \in Seq(SqlRow)
  BY <1>2, <1>3
<1>5. done \in Seq(SqlRow)
  BY <1>1, <1>3, <1>4
<1> QED  BY <1>1, <1>2, <1>5

LEMMA ReportsSentForm == ASSUME TablesForm, Send_SH_ReportOrConfirm, UNCHANGED mem PROVE TablesForm'
<1>1. PICK done \in Seq(SqlRow) :
             /\ ordwth2' = ordwth2 \o RowsOf("ordwth2", done)
             /\ cjhb' = cjhb \o RowsOf("cjhb", done)
             /\ sqls' = <<>> /\ UNCHANGED <<ordwth, cnt, dec, inb, outb>>
  BY ReportsSentIs
<1>2. RowsOf("ordwth2", done) \in Seq(TableRow) /\ RowsOf("cjhb", done) \in Seq(TableRow)
  BY RowsOfIs
<1>3. ordwth2' \in Seq(TableRow) /\ cjhb' \in Seq(TableRow)
  BY <1>1, <1>2, ConcatProperties DEF TablesForm
<1>4. sqls' \in Seq(SqlRow)
  BY <1>1, Nothing
<1>5. /\ inb' \in Seq(OrderOf(InKinds)) /\ ordwth' \in Seq(OrderRow) /\ DOMAIN ordwth' = DOMAIN ordwth
      /\ cnt' \in [rec : Nat, cjbh : Nat] /\ outb' \in Seq(OrderOf(OutKinds))
      /\ dec' \in [pc : BeforeRead \cup AtOrders \cup {"push"}, got : Nat, todo : Seq(DOMAIN ordwth), links : SUBSET ShRules,
                pol : {dec'.pol}, known : BOOLEAN, acked : Nat, vec : Seq(OrderOf(ReadKinds)), recs : Seq(DOMAIN ordwth)]
  BY <1>1 DEF TablesForm
<1> QED  BY <1>3, <1>4, <1>5, TablesBy

\* The steps that concern the interface.
Working ==
    \/ GetSHCjbh \/ SetCjbh \/ GetSHRec_Num \/ SetRecNum \/ SelectOrders(acked) \/ PolicySh \/ PolicySh_Rest
    \/ SHOrderToFix(WebMan) \/ Set_MutilOrd_Status \/ ProcShMessage
    \/ FlowStep \/ Get_SHReport \/ Send_SH_ReportOrConfirm

LEMMA WorkersFrame ==
    ASSUME [GatewayNext]_gatewayVars
    PROVE  \/ UNCHANGED shVars /\ ~Restart
           \/ pc = "run" /\ UNCHANGED <<mainVars, mem>> /\ Working
           \/ pc = "run" /\ UNCHANGED <<mainVars, mem>> /\ Ordwth
           \/ Restart
<1>1. CASE Start
  BY <1>1, StartFrame DEF StartLeaves, Restart
<1>2. CASE Client
  BY <1>2, ClientFrame DEF Restart, mainVars
<1>3. CASE Environment
  BY <1>3 DEF Environment, ruleVars, mainVars, Restart
<1>4. CASE Shanghai
  <2>1. pc = "run" /\ UNCHANGED <<mainVars, mem>>
    BY <1>4 DEF Shanghai, ruleVars
  <2>2. Declare(WebMan, acked) \/ FlowStep \/ Report
    BY <1>4 DEF Shanghai
  <2>3. Working
    BY <2>2 DEF Working, Declare, Report
  <2> QED  BY <2>1, <2>3
<1>5. CASE RestartRequest
  BY <1>5 DEF RestartRequest, Restart
<1>6. CASE Restart
  BY <1>6
<1>7. CASE UNCHANGED gatewayVars
  BY <1>7 DEF gatewayVars, shVars
<1> QED  BY <1>1, <1>2, <1>3, <1>4, <1>5, <1>6, <1>7 DEF GatewayNext

LEMMA WorkingForm == ASSUME TablesForm, MapForm, HandForm, Working, UNCHANGED mem PROVE TablesForm'
<1>1. acked \in Nat
  BY DEF HandForm
<1>2. CASE GetSHCjbh \/ SetCjbh \/ GetSHRec_Num \/ SetRecNum
  BY <1>2, NumbersReadForm
<1>3. CASE SelectOrders(acked)
  BY <1>1, <1>3, OrdersSelectedForm
<1>4. CASE PolicySh \/ PolicySh_Rest
  BY <1>4, PolicyReadForm
<1>5. CASE SHOrderToFix(WebMan)
  BY <1>5, OrderReadForm
<1>6. CASE Set_MutilOrd_Status \/ ProcShMessage
  BY <1>6, StatusSetForm, OrdersPushedForm
<1>7. CASE FlowStep
  BY <1>7, FlowStepForm
<1>8. CASE Get_SHReport \/ Send_SH_ReportOrConfirm
  BY <1>8, ReportTakenForm, ReportsSentForm
<1> QED  BY <1>2, <1>3, <1>4, <1>5, <1>6, <1>7, <1>8 DEF Working

LEMMA TablesStep ==
    ASSUME TablesForm, IdleForm, MapForm, MapForm', HandForm, [GatewayNext]_gatewayVars
    PROVE  TablesForm'
<1>1. CASE LoadConfigFromDb
  <2>1. UNCHANGED <<ordwth, ordwth2, cjhb, cnt, dec, inb, outb, sqls>>
    BY <1>1 DEF LoadConfigFromDb, Others, shVars, tabVars, bufVars
  <2>2. dec = Waits /\ inb = <<>> /\ outb = <<>>
    BY <1>1 DEF LoadConfigFromDb, IdleForm
  <2> QED  BY <2>1, <2>2, Nothing DEF TablesForm, Waits, OrderRow, TableRow, SqlRow, Statuses, Tables, BeforeRead, AtOrders
<1>2. CASE Restart
  BY <1>2, ShLostForm DEF Restart
<1>3. CASE UNCHANGED shVars /\ ~LoadConfigFromDb /\ ~Restart
  BY <1>3, RulesStayKnown, TablesStay
<1>4. CASE UNCHANGED mem /\ Working
  BY <1>4, WorkingForm
<1>5. CASE UNCHANGED mem /\ Ordwth
  BY <1>5, OrderWrittenForm
<1> QED  BY <1>1, <1>2, <1>3, <1>4, <1>5, WorkersFrame

LEMMA IdleStep == ASSUME EarlyForm, IdleForm, [GatewayNext]_gatewayVars PROVE IdleForm'
<1>1. CASE UNCHANGED shVars /\ ~Restart
  <2>1. UNCHANGED <<cnt, dec, inb, outb, sqls>>
    BY <1>1 DEF shVars, bufVars
  <2>2. pc' \notin {"run", "ended"} => pc \notin {"run", "ended"}
    <3>1. CASE Start
      BY <3>1 DEF Start, CheckLicense, ReadConfig, CheckMysql, LoadConfigFromDb, ReadId, Connect, KeepId, Wait,
       SaveIdFromWeb, SaveIdToFile, AskConfig, CheckRedis, CheckRules, ThreadsStartup
    <3>2. CASE UNCHANGED pc \/ pc' = "ended"
      BY <3>2
    <3>3. Start \/ UNCHANGED pc \/ pc' = "ended"
      BY <1>1 DEF GatewayNext, Shanghai, Client, Environment, RestartRequest, Ends, mainVars, gatewayVars
    <3> QED  BY <3>1, <3>2, <3>3
  <2> QED  BY <2>1, <2>2 DEF IdleForm, Waits
<1>2. CASE pc = "run" /\ UNCHANGED mainVars
  BY <1>2 DEF mainVars, IdleForm
<1>3. CASE Restart
  BY <1>3 DEF Restart, ShLost, IdleForm, Waits
<1> QED  BY <1>1, <1>2, <1>3, WorkersFrame

-----------------------------------------------------------------------------
(* The numbers of the confirms and of the trades                           *)

\* A table t and the statements s for it are numbered in ascending order and
\* up to the counter n.
Numbered(t, s, name, n) ==
    /\ \A i, j \in DOMAIN t : i < j => t[i].num < t[j].num
    /\ \A i, j \in DOMAIN s : s[i].table = name /\ s[j].table = name /\ i < j => s[i].num < s[j].num
    /\ \A i \in DOMAIN t, j \in DOMAIN s : s[j].table = name => t[i].num < s[j].num
    /\ \A i \in DOMAIN t : t[i].num <= n
    /\ \A j \in DOMAIN s : s[j].table = name => s[j].num <= n

NothingInFlight == dec.vec = <<>> /\ inb = <<>> /\ outb = <<>> /\ sqls = <<>>
AfterNumbers == {"select", "policy", "policy2", "order", "push"}

RecForm ==
    /\ cnt.rec # 0 => Numbered(ordwth2, sqls, "ordwth2", cnt.rec)
    /\ cnt.rec = 0 => RecNumIncreasing /\ NothingInFlight
    /\ dec.pc = "setrec" => cnt.rec = 0 /\ dec.got = LastNumber(ordwth2)
    /\ dec.pc \in AfterNumbers /\ cnt.rec = 0 => ordwth2 = <<>>

HasOld == cjhb # <<>> /\ cjhb[1] = Old
CjbhForm ==
    HasOld =>
      /\ cnt.cjbh # 0 => Numbered(cjhb, sqls, "cjhb", cnt.cjbh)
      /\ cnt.cjbh = 0 => CjbhIncreasing /\ NothingInFlight /\ dec.pc \in {"begin", "cjbh"}
      /\ dec.pc = "cjbh" => cnt.cjbh = 0 /\ dec.got = LastNumber(cjhb)

LEMMA NumbersInit == GatewayInit => RecForm /\ CjbhForm
<1> SUFFICES ASSUME GatewayInit PROVE RecForm /\ CjbhForm
  OBVIOUS
<1>1. /\ ordwth2 \in {<<>>, <<Old>>} /\ cjhb = ordwth2
      /\ cnt = [rec |-> 0, cjbh |-> 0] /\ dec = Waits /\ inb = <<>> /\ outb = <<>> /\ sqls = <<>>
  BY DEF GatewayInit, ShInit
<1>2. \A i, j \in DOMAIN ordwth2 : ~(i < j)
  <2> HIDE DEF Old
  <2> QED  BY <1>1
<1> QED  BY <1>1, <1>2 DEF RecForm, CjbhForm, RecNumIncreasing, CjbhIncreasing, NothingInFlight, Waits, AfterNumbers

LEMMA NumberedReport ==
    ASSUME NEW t \in Seq(TableRow), NEW s \in Seq(SqlRow), NEW name, NEW n \in Nat, NEW m \in Nat, NEW row \in SqlRow,
           Numbered(t, s, name, n), m >= n, row.table = name => row.num = n + 1 /\ m >= n + 1
    PROVE  Numbered(t, Append(s, row), name, m)
<1> DEFINE u == Append(s, row)
<1>1. /\ DOMAIN u = 1..(Len(s) + 1) /\ DOMAIN s = 1..Len(s) /\ Len(s) \in Nat /\ u[Len(s) + 1] = row
      /\ \A i \in 1..Len(s) : u[i] = s[i]
  OBVIOUS
<1>2. (\A i \in DOMAIN t : t[i].num \in Nat) /\ \A j \in DOMAIN s : s[j].num \in Nat
  <2>1. (\A i \in DOMAIN t : t[i] \in TableRow) /\ \A j \in DOMAIN s : s[j] \in SqlRow
    OBVIOUS
  <2> QED  BY <2>1 DEF TableRow, SqlRow
<1> HIDE DEF u
<1>3. \A j \in DOMAIN u : u[j] = IF j = Len(s) + 1 THEN row ELSE s[j]
  BY <1>1
<1>4. \A i, j \in DOMAIN u : u[i].table = name /\ u[j].table = name /\ i < j => u[i].num < u[j].num
  <2> SUFFICES ASSUME NEW i \in DOMAIN u, NEW j \in DOMAIN u, u[i].table = name, u[j].table = name, i < j
               PROVE  u[i].num < u[j].num
    OBVIOUS
  <2>1. i \in DOMAIN s /\ u[i] = s[i] /\ s[i].num <= n
    BY <1>1 DEF Numbered
  <2> QED  BY <1>1, <1>2, <2>1 DEF Numbered
<1>5. \A i \in DOMAIN t, j \in DOMAIN u : u[j].table = name => t[i].num < u[j].num
  BY SMTT(30), <1>1, <1>2, <1>3 DEF Numbered
<1>6. \A i \in DOMAIN t : t[i].num <= m
  BY <1>2 DEF Numbered
<1>7. \A j \in DOMAIN u : u[j].table = name => u[j].num <= m
  BY <1>1, <1>2, <1>3 DEF Numbered
<1>8. \A i, j \in DOMAIN t : i < j => t[i].num < t[j].num
  BY DEF Numbered
<1> QED  BY <1>4, <1>5, <1>6, <1>7, <1>8 DEF u, Numbered

\* Whatever part of the statements is done, the table stays in order.
LEMMA NumberedSent ==
    ASSUME NEW t \in Seq(TableRow), NEW s \in Seq(SqlRow), NEW name, NEW n \in Nat, NEW done \in Seq(SqlRow),
           Numbered(t, s, name, n), s # <<>>, done \in {s, <<>>, Tail(s)}
    PROVE  Numbered(t \o RowsOf(name, done), <<>>, name, n)
<1>1. Numbered(t, done, name, n)
  <2>1. CASE done = s
    BY <2>1
  <2>2. CASE done = <<>>
    BY <2>2 DEF Numbered
  <2>3. CASE done = Tail(s)
    <3>1. /\ DOMAIN done = 1..(Len(s) - 1) /\ DOMAIN s = 1..Len(s) /\ Len(s) \in Nat \ {0}
          /\ \A i \in 1..(Len(s) - 1) : done[i] = s[i + 1]
      BY <2>3
    <3>2. \A i \in DOMAIN done : i + 1 \in DOMAIN s /\ done[i] = s[i + 1] /\ i \in Int
      BY <3>1
    <3>3. \A i, j \in DOMAIN done : i < j => i + 1 < j + 1
      BY <3>2
    <3> QED  BY <3>2, <3>3 DEF Numbered
  <2> QED  BY <2>1, <2>2, <2>3
<1> DEFINE m == Mine(name, done)
           rs == RowsOf(name, done)
           u == t \o rs
<1>2. /\ rs \in Seq(TableRow) /\ DOMAIN rs = DOMAIN m /\ Len(rs) = Len(m) /\ Len(m) \in Nat /\ DOMAIN m = 1..Len(m)
      /\ \A k \in DOMAIN m : m[k] \in DOMAIN done /\ done[m[k]].table = name /\ rs[k].num = done[m[k]].num
      /\ \A j, k \in DOMAIN m : j < k => m[j] < m[k]
  BY RowsOfIs
<1> HIDE DEF m, rs
<1>3. /\ \A j, k \in DOMAIN rs : j < k => rs[j].num < rs[k].num
      /\ \A i \in DOMAIN t, k \in DOMAIN rs : t[i].num < rs[k].num
      /\ \A k \in DOMAIN rs : rs[k].num <= n
  BY <1>1, <1>2 DEF Numbered
<1>4. /\ DOMAIN u = 1..(Len(t) + Len(rs)) /\ DOMAIN t = 1..Len(t) /\ Len(t) \in Nat /\ DOMAIN rs = 1..Len(rs) /\ Len(rs) \in Nat
      /\ \A i \in DOMAIN u : u[i] = IF i <= Len(t) THEN t[i] ELSE rs[i - Len(t)]
  BY <1>2, ConcatProperties
<1> HIDE DEF u
<1>5. \A i \in DOMAIN u : (i <= Len(t) => i \in DOMAIN t) /\ (~(i <= Len(t)) => i - Len(t) \in DOMAIN rs) /\ i \in Nat
  BY <1>4
<1>6. \A i, j \in DOMAIN u : i < j => u[i].num < u[j].num
  <2> SUFFICES ASSUME NEW i \in DOMAIN u, NEW j \in DOMAIN u, i < j PROVE u[i].num < u[j].num
    OBVIOUS
  <2>1. CASE j <= Len(t)
    <3>1. i <= Len(t)
      BY <1>4, <1>5, <2>1
    <3> QED  BY <1>1, <1>4, <1>5, <2>1, <3>1 DEF Numbered
  <2>2. CASE ~(j <= Len(t)) /\ i <= Len(t)
    BY <1>3, <1>4, <1>5, <2>2
  <2>3. CASE ~(j <= Len(t)) /\ ~(i <= Len(t))
    <3>1. i - Len(t) < j - Len(t)
      BY <1>4, <1>5
    <3> QED  BY <1>3, <1>4, <1>5, <2>3, <3>1
  <2> QED  BY <2>1, <2>2, <2>3
<1>7. \A i \in DOMAIN u : u[i].num <= n
  BY <1>1, <1>3, <1>4, <1>5 DEF Numbered
<1> QED  BY <1>6, <1>7 DEF Numbered, u, rs

LEMMA NumberedFirst ==
    ASSUME NEW t \in Seq(TableRow), NEW name, \A i, j \in DOMAIN t : i < j => t[i].num < t[j].num
    PROVE  Numbered(t, <<>>, name, LastNumber(t))
<1>1. \A i \in DOMAIN t : t[i].num <= LastNumber(t)
  <2>1. CASE t = <<>>
    BY <2>1
  <2>2. CASE t # <<>>
    BY <2>2, LastNumberIs
  <2> QED  BY <2>1, <2>2
<1> QED  BY <1>1 DEF Numbered

LEMMA InOrder == ASSUME RecForm, CjbhForm PROVE RecNumIncreasing /\ CjbhIncreasing
<1>1. RecNumIncreasing
  <2>1. CASE cnt.rec = 0
    BY <2>1 DEF RecForm
  <2>2. CASE cnt.rec # 0
    <3>1. Numbered(ordwth2, sqls, "ordwth2", cnt.rec)
      BY <2>2 DEF RecForm
    <3> QED  BY <3>1 DEF Numbered, RecNumIncreasing
  <2> QED  BY <2>1, <2>2
<1>2. ASSUME HasOld PROVE \A i, j \in DOMAIN cjhb : i < j => cjhb[i].num < cjhb[j].num
  <2>1. CASE cnt.cjbh = 0
    BY <1>2, <2>1 DEF CjbhForm, CjbhIncreasing, HasOld
  <2>2. CASE cnt.cjbh # 0
    <3>1. Numbered(cjhb, sqls, "cjhb", cnt.cjbh)
      BY <1>2, <2>2 DEF CjbhForm
    <3> QED  BY <3>1 DEF Numbered
  <2> QED  BY <2>1, <2>2
<1> QED  BY <1>1, <1>2 DEF CjbhIncreasing, HasOld

\* Steps that leave the tables, the counters and the buffers alone, and the
\* reading worker where its two numbers are not concerned.
LEMMA NumbersStay ==
    ASSUME RecForm, CjbhForm, UNCHANGED <<ordwth2, cjhb, cnt, inb, outb, sqls>>, dec'.vec \in {dec.vec, <<>>},
           dec'.pc = "setrec" => cnt.rec = 0 /\ dec'.got = LastNumber(ordwth2),
           dec'.pc = "cjbh" => cnt.cjbh = 0 /\ dec'.got = LastNumber(cjhb),
           dec'.pc \in AfterNumbers => dec.pc \in AfterNumbers \/ cnt.rec # 0,
           dec'.pc \in {"begin", "cjbh"} \/ dec.pc \notin {"begin", "cjbh"} \/ cnt.cjbh # 0
    PROVE  RecForm' /\ CjbhForm'
<1>1. LastNumber(ordwth2)' = LastNumber(ordwth2) /\ LastNumber(cjhb)' = LastNumber(cjhb)
  BY DEF LastNumber
<1>2. NothingInFlight => NothingInFlight'
  BY DEF NothingInFlight
<1>3. RecForm'
  BY <1>1, <1>2 DEF RecForm, Numbered, RecNumIncreasing, AfterNumbers
<1>4. CjbhForm'
  BY <1>1, <1>2 DEF CjbhForm, Numbered, CjbhIncreasing, HasOld, Old
<1> QED  BY <1>3, <1>4

LEMMA ReaderNumbers ==
    ASSUME TablesForm, RecForm, CjbhForm,
           \/ D_Fails \/ GetSHCjbh \/ GetSHRec_Num \/ SelectOrders(acked) \/ PolicySh \/ PolicySh_Rest \/ Set_MutilOrd_Status
    PROVE  RecForm' /\ CjbhForm'
<1>1. UNCHANGED <<ordwth2, cjhb, cnt, inb, outb, sqls>>
  BY DEF D_Fails, GetSHCjbh, GetSHRec_Num, SelectOrders, PolicySh, PolicySh_Rest, Set_MutilOrd_Status, tabVars, bufVars
<1>2. CASE dec' = Waits
  BY <1>1, <1>2, NumbersStay DEF Waits, AfterNumbers
<1>3. CASE GetSHCjbh /\ ~D_Fails
  <2>1. dec'.vec = dec.vec /\ dec'.pc = (IF cnt.cjbh = 0 THEN "cjbh" ELSE IF cnt.rec = 0 THEN "rec" ELSE "select")
        /\ (cnt.cjbh = 0 => dec'.got = LastNumber(cjhb))
    BY <1>3 DEF GetSHCjbh, TablesForm
  <2> QED  BY <1>1, <2>1, NumbersStay DEF AfterNumbers
<1>4. CASE GetSHRec_Num /\ ~D_Fails
  <2>1. dec'.vec = dec.vec /\ dec'.pc = (IF cnt.rec = 0 THEN "setrec" ELSE "select") /\ dec.pc = "rec"
        /\ (cnt.rec = 0 => dec'.got = LastNumber(ordwth2))
    BY <1>4 DEF GetSHRec_Num, TablesForm
  <2> QED  BY <1>1, <2>1, NumbersStay DEF AfterNumbers
<1>5. CASE SelectOrders(acked) /\ dec' # Waits
  <2>1. dec'.vec = dec.vec /\ dec'.pc = "policy" /\ dec.pc = "select"
    BY <1>5 DEF SelectOrders, D_Fails, TablesForm
  <2> QED  BY <1>1, <2>1, NumbersStay DEF AfterNumbers
<1>6. CASE PolicySh \/ PolicySh_Rest \/ Set_MutilOrd_Status
  <2>1. dec'.vec = dec.vec /\ dec'.pc \in {"policy2", "order", "push"} /\ dec.pc \in {"policy", "policy2", "order"}
    <3>1. CASE PolicySh
      BY <3>1 DEF PolicySh, TablesForm
    <3>2. CASE PolicySh_Rest
      BY <3>2 DEF PolicySh_Rest, TablesForm
    <3>3. CASE Set_MutilOrd_Status
      BY <3>3 DEF Set_MutilOrd_Status, TablesForm
    <3> QED  BY <1>6, <3>1, <3>2, <3>3
  <2> QED  BY <1>1, <2>1, NumbersStay DEF AfterNumbers
<1> QED  BY <1>2, <1>3, <1>4, <1>5, <1>6 DEF D_Fails

LEMMA CjbhSetNumbers == ASSUME TablesForm, RecForm, CjbhForm, SetCjbh PROVE RecForm' /\ CjbhForm'
<1>1. /\ UNCHANGED <<ordwth2, cjhb, inb, outb, sqls>> /\ dec.pc = "cjbh" /\ dec'.pc = "rec" /\ dec'.vec = dec.vec
      /\ cnt'.rec = cnt.rec /\ cnt'.cjbh = dec.got
  BY DEF SetCjbh, TablesForm, tabVars, bufVars
<1>2. RecForm'
  BY <1>1 DEF RecForm, Numbered, RecNumIncreasing, AfterNumbers, NothingInFlight
<1>3. CjbhForm'
  <2> SUFFICES ASSUME HasOld PROVE CjbhForm'
    BY <1>1 DEF CjbhForm, HasOld, Old
  <2>1. dec.got = LastNumber(cjhb) /\ sqls = <<>> /\ cnt.cjbh = 0
    BY <1>1 DEF CjbhForm, NothingInFlight
  <2>2. dec.got # 0
    BY <2>1, LastNumberForm DEF TablesForm, HasOld
  <2>3. Numbered(cjhb, sqls, "cjhb", dec.got)
    BY <2>1, NumberedFirst, InOrder DEF TablesForm, CjbhIncreasing, HasOld
  <2> QED  BY <1>1, <2>2, <2>3 DEF CjbhForm, Numbered
<1> QED  BY <1>2, <1>3

LEMMA RecSetNumbers == ASSUME TablesForm, RecForm, CjbhForm, SetRecNum PROVE RecForm' /\ CjbhForm'
<1>1. /\ UNCHANGED <<ordwth2, cjhb, inb, outb, sqls>> /\ dec.pc = "setrec" /\ dec'.pc = "select" /\ dec'.vec = dec.vec
      /\ cnt'.cjbh = cnt.cjbh /\ cnt'.rec = dec.got
  BY DEF SetRecNum, TablesForm, tabVars, bufVars
<1>2. CjbhForm'
  BY <1>1 DEF CjbhForm, Numbered, CjbhIncreasing, HasOld, Old, NothingInFlight
<1>3. RecForm'
  <2>1. dec.got = LastNumber(ordwth2) /\ NothingInFlight /\ RecNumIncreasing
    BY <1>1 DEF RecForm
  <2>2. Numbered(ordwth2, sqls, "ordwth2", dec.got)
    BY <2>1, NumberedFirst DEF TablesForm, RecNumIncreasing, NothingInFlight
  <2>3. dec.got = 0 => ordwth2 = <<>>
    BY <2>1, LastNumberForm DEF TablesForm
  <2> QED  BY <1>1, <2>1, <2>2, <2>3 DEF RecForm, Numbered, RecNumIncreasing, NothingInFlight
<1> QED  BY <1>2, <1>3

LEMMA OrderReadNumbers == ASSUME TablesForm, RecForm, CjbhForm, NEW web, SHOrderToFix(web) PROVE RecForm' /\ CjbhForm'
<1> DEFINE i == Reading
<1>1. /\ dec.pc = "order" /\ i \in DOMAIN ordwth /\ cnt' = FirstRecNum(i) /\ UNCHANGED <<ordwth2, cjhb, inb, sqls>>
  BY OrderReadIs
<1>2. dec'.pc = "order"
  BY OrderReadIs DEF TablesForm
<1>3. i \in Nat
  BY <1>1 DEF TablesForm
<1> HIDE DEF i
<1>4. cnt'.cjbh = cnt.cjbh /\ cnt'.rec = (IF cnt.rec = 0 THEN i + 1 ELSE cnt.rec) /\ cnt'.rec # 0 /\ cnt'.rec \in Nat
  BY <1>1, <1>3 DEF FirstRecNum, TablesForm
<1>5. CjbhForm'
  BY <1>1, <1>2, <1>4 DEF CjbhForm, Numbered, HasOld, Old
<1>6. Numbered(ordwth2, sqls, "ordwth2", cnt'.rec)
  <2>1. CASE cnt.rec = 0
    <3>1. ordwth2 = <<>> /\ sqls = <<>>
      BY <1>1, <2>1 DEF RecForm, AfterNumbers, NothingInFlight
    <3> QED  BY <3>1 DEF Numbered
  <2>2. CASE cnt.rec # 0
    BY <1>4, <2>2 DEF RecForm
  <2> QED  BY <2>1, <2>2
<1>7. RecForm'
  BY <1>1, <1>2, <1>4, <1>6 DEF RecForm, Numbered
<1> QED  BY <1>5, <1>7

LEMMA OrdersPushedNumbers == ASSUME TablesForm, RecForm, CjbhForm, ProcShMessage PROVE RecForm' /\ CjbhForm'
<1>1. /\ UNCHANGED <<ordwth2, cjhb, cnt, outb, sqls>> /\ dec.pc = "push" /\ dec'.pc = "begin" /\ dec'.vec = <<>>
      /\ inb' = inb \o dec.vec
  BY DEF ProcShMessage, tabVars, Waits
<1>2. NothingInFlight => NothingInFlight'
  BY <1>1 DEF NothingInFlight
<1>3. RecForm'
  BY <1>1, <1>2 DEF RecForm, Numbered, RecNumIncreasing, AfterNumbers
<1>4. CjbhForm'
  BY <1>1, <1>2 DEF CjbhForm, Numbered, CjbhIncreasing, HasOld, Old
<1> QED  BY <1>3, <1>4

LEMMA FlowNumbers == ASSUME TablesForm, RecForm, CjbhForm, FlowStep PROVE RecForm' /\ CjbhForm'
<1>1. inb # <<>> /\ UNCHANGED <<ordwth2, cjhb, cnt, dec, sqls>>
  BY DEF FlowStep, tabVars
<1>2. RecForm'
  BY <1>1 DEF RecForm, Numbered, AfterNumbers, NothingInFlight, LastNumber
<1>3. CjbhForm'
  BY <1>1 DEF CjbhForm, Numbered, HasOld, Old, NothingInFlight, LastNumber
<1> QED  BY <1>2, <1>3

LEMMA ReportTakenNumbers == ASSUME TablesForm, MapForm, RecForm, CjbhForm, Get_SHReport PROVE RecForm' /\ CjbhForm'
<1>1. outb # <<>> /\ UNCHANGED <<ordwth2, cjhb, dec>>
  BY DEF Get_SHReport, tabVars
<1>n. CASE UNCHANGED <<cnt, sqls>>
  <2>1. cnt.rec # 0 /\ (HasOld => cnt.cjbh # 0)
    BY <1>1 DEF RecForm, CjbhForm, NothingInFlight
  <2>2. RecForm'
    BY <1>1, <1>n, <2>1 DEF RecForm, Numbered, AfterNumbers
  <2>3. CjbhForm'
    BY <1>1, <1>n, <2>1 DEF CjbhForm, Numbered, HasOld, Old
  <2> QED  BY <2>2, <2>3
<1> SUFFICES ASSUME ~UNCHANGED <<cnt, sqls>> PROVE RecForm' /\ CjbhForm'
  BY <1>n
<1>2. PICK row, p : Reported(outb[1], p, row) /\ cnt' = p.cnt /\ sqls' = Append(sqls, row)
  BY ReportTaken
<1>3. /\ row \in SqlRow /\ cnt'.rec \in Nat /\ cnt'.cjbh \in Nat /\ cnt.rec \in Nat /\ cnt.cjbh \in Nat
      /\ cnt'.rec >= cnt.rec /\ cnt'.cjbh >= cnt.cjbh
      /\ row.table = "ordwth2" => row.num = cnt.rec + 1 /\ cnt'.rec >= cnt.rec + 1
      /\ row.table = "cjhb" => row.num = cnt.cjbh + 1 /\ cnt'.cjbh >= cnt.cjbh + 1
  <2>1. cnt \in [rec : Nat, cjbh : Nat]
    BY DEF TablesForm
  <2> QED  BY <1>2, <2>1 DEF Reported
<1>4. cnt.rec # 0 /\ cnt'.rec # 0 /\ dec.pc # "setrec"
  BY <1>1, <1>3 DEF RecForm, NothingInFlight
<1>5. ordwth2 \in Seq(TableRow) /\ cjhb \in Seq(TableRow) /\ sqls \in Seq(SqlRow)
  BY DEF TablesForm
<1>6. Numbered(ordwth2, sqls', "ordwth2", cnt'.rec)
  <2>1. Numbered(ordwth2, sqls, "ordwth2", cnt.rec)
    BY <1>4 DEF RecForm
  <2> QED  BY <1>2, <1>3, <1>5, <2>1, NumberedReport
<1>7. RecForm'
  BY <1>1, <1>4, <1>6 DEF RecForm, Numbered
<1>8. CjbhForm'
  <2> SUFFICES ASSUME HasOld PROVE CjbhForm'
    BY <1>1 DEF CjbhForm, HasOld, Old
  <2>1. cnt.cjbh # 0 /\ cnt'.cjbh # 0 /\ dec.pc # "cjbh"
    BY <1>1, <1>3 DEF CjbhForm, NothingInFlight
  <2>2. Numbered(cjhb, sqls, "cjhb", cnt.cjbh)
    BY <2>1 DEF CjbhForm
  <2>3. Numbered(cjhb, sqls', "cjhb", cnt'.cjbh)
    BY <1>2, <1>3, <1>5, <2>2, NumberedReport
  <2> QED  BY <1>1, <2>1, <2>3 DEF CjbhForm, Numbered
<1> QED  BY <1>7, <1>8

\* No statement writes the row of an earlier day.
LEMMA OldStays ==
    ASSUME TablesForm, NEW done \in Seq(SqlRow), cjhb' = cjhb \o RowsOf("cjhb", done), HasOld'
    PROVE  HasOld
<1> DEFINE rs == RowsOf("cjhb", done)
           m == Mine("cjhb", done)
<1>1. /\ rs \in Seq(TableRow) /\ DOMAIN rs = DOMAIN m
      /\ \A k \in DOMAIN m : m[k] \in DOMAIN done /\ rs[k].part = done[m[k]].part
  BY RowsOfIs
<1> HIDE DEF rs, m
<1>2. CASE cjhb = <<>>
  <2>1. cjhb' = rs /\ rs # <<>> /\ rs[1] = Old
    <3>1. cjhb' = <<>> \o rs
      BY <1>2 DEF rs
    <3>2. cjhb' = rs
      BY <1>1, <3>1, ConcatEmptySeq
    <3> QED  BY <3>2 DEF HasOld, Old
  <2>2. 1 \in DOMAIN m
    BY <1>1, <2>1
  <2>3. done[m[1]] \in SqlRow /\ done[m[1]].part = Old.part
    BY <1>1, <2>1, <2>2
  <2>4. done[m[1]].part[1] \in {"confirm", "match"}
    BY <2>3 DEF SqlRow
  <2> QED  BY <2>3, <2>4 DEF Old
<1>3. CASE cjhb # <<>>
  <2>1. cjhb'[1] = cjhb[1]
    BY <1>1, <1>3, ConcatProperties DEF TablesForm, rs
  <2> QED  BY <1>3, <2>1 DEF HasOld, Old
<1> QED  BY <1>2, <1>3

LEMMA SentNumbers == ASSUME TablesForm, RecForm, CjbhForm, Send_SH_ReportOrConfirm PROVE RecForm' /\ CjbhForm'
<1>1. PICK done \in Seq(SqlRow) :
             /\ done \in {sqls, <<>>, Tail(sqls)}
             /\ ordwth2' = ordwth2 \o RowsOf("ordwth2", done)
             /\ cjhb' = cjhb \o RowsOf("cjhb", done)
             /\ sqls # <<>> /\ sqls' = <<>> /\ UNCHANGED <<cnt, dec, inb, outb>>
  BY ReportsSentIs
<1>2. cnt.rec # 0 /\ cnt.rec \in Nat /\ cnt.cjbh \in Nat
  BY <1>1 DEF RecForm, NothingInFlight, TablesForm
<1>3. ordwth2 \in Seq(TableRow) /\ cjhb \in Seq(TableRow) /\ sqls \in Seq(SqlRow)
  BY DEF TablesForm
<1>4. Numbered(ordwth2', sqls', "ordwth2", cnt.rec)
  <2>1. Numbered(ordwth2, sqls, "ordwth2", cnt.rec)
    BY <1>2 DEF RecForm
  <2>2. Numbered(ordwth2 \o RowsOf("ordwth2", done), <<>>, "ordwth2", cnt.rec)
    BY <1>1, <1>2, <1>3, <2>1, NumberedSent
  <2> QED  BY <1>1, <2>2
<1>5. RecForm'
  BY <1>1, <1>2, <1>4 DEF RecForm, Numbered
<1>6. CjbhForm'
  <2> SUFFICES ASSUME HasOld' PROVE CjbhForm'
    BY DEF CjbhForm
  <2>1. HasOld
    BY <1>1, OldStays
  <2>2. cnt.cjbh # 0 /\ dec.pc # "cjbh"
    BY <1>1, <2>1 DEF CjbhForm, NothingInFlight
  <2>3. Numbered(cjhb, sqls, "cjhb", cnt.cjbh)
    BY <2>1, <2>2 DEF CjbhForm
  <2>4. Numbered(cjhb \o RowsOf("cjhb", done), <<>>, "cjhb", cnt.cjbh)
    BY <1>1, <1>2, <1>3, <2>3, NumberedSent
  <2>5. Numbered(cjhb', sqls', "cjhb", cnt.cjbh)
    BY <1>1, <2>4
  <2> QED  BY <1>1, <2>2, <2>5 DEF CjbhForm, Numbered
<1> QED  BY <1>5, <1>6

LEMMA LostNumbers == ASSUME RecForm, CjbhForm, ShLost, UNCHANGED tabVars PROVE RecForm' /\ CjbhForm'
<1>1. /\ UNCHANGED <<ordwth2, cjhb>> /\ cnt' = [rec |-> 0, cjbh |-> 0] /\ dec' = Waits /\ inb' = <<>> /\ outb' = <<>> /\ sqls' = <<>>
  BY DEF ShLost, tabVars
<1>2. RecNumIncreasing' /\ CjbhIncreasing'
  BY <1>1, InOrder DEF RecNumIncreasing, CjbhIncreasing, Old
<1> QED  BY <1>1, <1>2 DEF RecForm, CjbhForm, NothingInFlight, Waits, AfterNumbers

LEMMA NumbersStep ==
    ASSUME TablesForm, MapForm, RecForm, CjbhForm, [GatewayNext]_gatewayVars
    PROVE  RecForm' /\ CjbhForm'
<1>1. CASE UNCHANGED shVars
  BY <1>1, NumbersStay DEF shVars, tabVars, bufVars, RecForm, CjbhForm, Numbered, RecNumIncreasing, CjbhIncreasing,
     NothingInFlight, AfterNumbers, HasOld, Old, LastNumber
<1>2. CASE Working
  <2>1. CASE SetCjbh \/ SetRecNum
    BY <2>1, CjbhSetNumbers, RecSetNumbers
  <2>2. CASE SHOrderToFix(WebMan)
    BY <2>2, OrderReadNumbers
  <2>3. CASE ProcShMessage \/ FlowStep
    BY <2>3, OrdersPushedNumbers, FlowNumbers
  <2>4. CASE Get_SHReport \/ Send_SH_ReportOrConfirm
    BY <2>4, ReportTakenNumbers, SentNumbers
  <2> QED  BY <1>2, <2>1, <2>2, <2>3, <2>4, ReaderNumbers DEF Working
<1>3. CASE Ordwth
  BY ZenonT(30), <1>3 DEF Ordwth, bufVars, RecForm, CjbhForm, Numbered, RecNumIncreasing, CjbhIncreasing,
     NothingInFlight, AfterNumbers, HasOld, Old, LastNumber
<1>4. CASE Restart
  BY <1>4, LostNumbers DEF Restart
<1> QED  BY <1>1, <1>2, <1>3, <1>4, WorkersFrame

-----------------------------------------------------------------------------
(* How often an order is read                                              *)

\* How often more than once for each start but this one.
Slack == (starts - 1) + (IF "mark" \in faults THEN 1 ELSE 0)

\* An order that may be read again has a reading left: its status is R and
\* the round at hand did not take it, or did not come to it yet.
ReadForm ==
    /\ starts \in Nat \ {0}
    /\ \A i \in DOMAIN ordwth : ordwth[i].reads <= Slack + 1
    /\ \A i \in DOMAIN ordwth : ordwth[i].status = "R" /\ ~(dec.pc \in AtOrders /\ i \in Range(dec.recs)) => ordwth[i].reads <= Slack
    /\ dec.pc \in AtOrders =>
         /\ \A j \in DOMAIN dec.todo : ordwth[dec.todo[j]].reads <= Slack /\ dec.todo[j] \in Range(dec.recs)
         /\ \A j, k \in DOMAIN dec.todo : j < k => dec.todo[j] < dec.todo[k]

LEMMA ReadInit == GatewayInit => ReadForm
<1> SUFFICES ASSUME GatewayInit PROVE ReadForm
  OBVIOUS
<1>1. ordwth = <<>> /\ dec = Waits /\ starts = 1
  BY DEF GatewayInit, ShInit
<1> QED  BY <1>1 DEF ReadForm, Waits, AtOrders

LEMMA SlackGrows == ASSUME ReadForm, UNCHANGED starts, faults \subseteq faults' PROVE Slack' >= Slack /\ Slack' \in Nat /\ Slack \in Nat
BY DEF ReadForm, Slack

LEMMA ReadsAre == TablesForm => (\A i \in DOMAIN ordwth : ordwth[i].reads \in Nat /\ i \in Nat) /\ (DOMAIN ordwth = 1..Len(ordwth)) /\ Len(ordwth) \in Nat
<1> SUFFICES ASSUME TablesForm PROVE (\A i \in DOMAIN ordwth : ordwth[i].reads \in Nat /\ i \in Nat) /\ (DOMAIN ordwth = 1..Len(ordwth)) /\ Len(ordwth) \in Nat
  OBVIOUS
<1>1. ordwth \in Seq(OrderRow)
  BY DEF TablesForm
<1>2. \A i \in DOMAIN ordwth : ordwth[i] \in OrderRow
  BY <1>1
<1> QED  BY <1>1, <1>2 DEF OrderRow

LEMMA ReadStays ==
    ASSUME TablesForm, ReadForm, UNCHANGED <<starts, ordwth>>, faults \subseteq faults',
           dec'.pc \in AtOrders => dec.pc \in AtOrders /\ dec'.todo = dec.todo /\ dec'.recs = dec.recs,
           dec.pc \in AtOrders => dec'.pc \in AtOrders \/ \A i \in DOMAIN ordwth : ordwth[i].status = "R" => ordwth[i].reads <= Slack'
    PROVE  ReadForm'
<1>1. Slack' >= Slack /\ Slack' \in Nat /\ Slack \in Nat
  BY SlackGrows
<1>2. \A i \in DOMAIN ordwth : ordwth[i].reads \in Nat
  BY ReadsAre
<1>3. \A i \in DOMAIN ordwth : ordwth[i].reads <= Slack' + 1
  BY <1>1, <1>2 DEF ReadForm
<1>4. \A i \in DOMAIN ordwth : ordwth[i].status = "R" /\ ~(dec'.pc \in AtOrders /\ i \in Range(dec'.recs)) => ordwth[i].reads <= Slack'
  BY <1>1, <1>2 DEF ReadForm
<1>5. \A j \in DOMAIN dec.todo : dec.todo[j] \in DOMAIN ordwth
  BY DEF TablesForm
<1>6. dec'.pc \in AtOrders => \A j \in DOMAIN dec.todo : ordwth[dec.todo[j]].reads <= Slack'
  BY <1>1, <1>2, <1>5 DEF ReadForm
<1> HIDE DEF Slack
<1> QED  BY <1>3, <1>4, <1>6 DEF ReadForm, AtOrders, Range

LEMMA SelectedReads ==
    ASSUME TablesForm, ReadForm, SelectOrders(acked), UNCHANGED starts, faults \subseteq faults', dec'.pc \in AtOrders
    PROVE  ReadForm'
<1> DEFINE u == Unread
<1>1. UNCHANGED ordwth /\ dec'.todo = u /\ dec'.recs = u /\ dec.pc = "select"
  <2>1. dec' # Waits
    BY DEF AtOrders, Waits
  <2> DEFINE L == {r \in ShRules : times[ShKey][r] # 0}
  <2>2. UNCHANGED tabVars /\ dec.pc = "select"
        /\ dec' = [dec EXCEPT !.pc = "policy", !.todo = u, !.recs = u, !.acked = acked, !.links = L]
    BY <2>1 DEF SelectOrders, D_Fails
  <2> HIDE DEF u, L
  <2> QED  BY <2>2 DEF TablesForm, tabVars
<1>2. /\ u \in Seq({i \in DOMAIN ordwth : ordwth[i].status = "R"})
      /\ \A i \in DOMAIN ordwth : ordwth[i].status = "R" => \E j \in DOMAIN u : u[j] = i
      /\ \A j, k \in DOMAIN u : j < k => u[j] < u[k]
  BY UnreadForm
<1>3. Slack' >= Slack /\ Slack' \in Nat /\ Slack \in Nat
  BY SlackGrows
<1>4. \A i \in DOMAIN ordwth : ordwth[i].reads \in Nat
  BY ReadsAre
<1>5. \A i \in DOMAIN ordwth : ordwth[i].status = "R" => ordwth[i].reads <= Slack
  BY <1>1 DEF ReadForm, AtOrders
<1> HIDE DEF u
<1>6. \A j \in DOMAIN u : u[j] \in DOMAIN ordwth /\ ordwth[u[j]].status = "R"
  BY <1>2
<1>7. \A i \in DOMAIN ordwth : ordwth[i].reads <= Slack' + 1
  BY <1>3, <1>4 DEF ReadForm
<1>8. \A i \in DOMAIN ordwth : ordwth[i].status = "R" => ordwth[i].reads <= Slack'
  BY <1>3, <1>4, <1>5
<1>9. \A j \in DOMAIN u : ordwth[u[j]].reads <= Slack' /\ u[j] \in Range(u)
  BY <1>6, <1>8 DEF Range
<1> HIDE DEF Slack
<1> QED  BY <1>1, <1>2, <1>7, <1>8, <1>9 DEF ReadForm

LEMMA OrderReadReads ==
    ASSUME TablesForm, ReadForm, SHOrderToFix(WebMan), UNCHANGED starts, faults \subseteq faults'
    PROVE  ReadForm'
<1> DEFINE i == Reading
           q == dec.todo
<1>1. /\ dec.pc = "order" /\ q # <<>> /\ i \in DOMAIN ordwth /\ DOMAIN ordwth' = DOMAIN ordwth
      /\ ordwth'[i].reads = ordwth[i].reads + 1
      /\ \A j \in DOMAIN ordwth : j # i => ordwth'[j] = ordwth[j]
  BY OrderReadIs
<1>2. dec'.pc = "order" /\ dec'.todo = Tail(q) /\ dec'.recs = dec.recs
  <2> DEFINE o == Message(i, WebMan)
  <2>1. dec' = [dec EXCEPT !.todo = Tail(@), !.vec = Append(@, o)] \/ dec' = [dec EXCEPT !.todo = Tail(@)]
    BY OrderReadIs
  <2> HIDE DEF o, i
  <2> QED  BY <1>1, <2>1 DEF TablesForm
<1>3. Slack' >= Slack /\ Slack' \in Nat /\ Slack \in Nat
  BY SlackGrows
<1>4. \A j \in DOMAIN ordwth : ordwth[j].reads \in Nat
  BY ReadsAre
<1>5. q \in Seq(DOMAIN ordwth) /\ dec.pc \in AtOrders /\ i = q[1]
  BY <1>1 DEF TablesForm, Reading, AtOrders
<1> HIDE DEF i, q
<1>6. 1 \in DOMAIN q /\ q[1] \in DOMAIN ordwth
  BY <1>1, <1>5
<1>7. ordwth[i].reads <= Slack /\ i \in Range(dec.recs)
  BY <1>5, <1>6 DEF ReadForm, q
<1>8. \A j \in DOMAIN ordwth' : ordwth'[j].reads <= Slack' + 1
  BY <1>1, <1>3, <1>4, <1>7 DEF ReadForm
<1>9. \A j \in DOMAIN ordwth' : ordwth'[j].status = "R" /\ j \notin Range(dec.recs) => ordwth'[j].reads <= Slack'
  BY <1>1, <1>3, <1>4, <1>5, <1>7 DEF ReadForm
<1>10. /\ DOMAIN Tail(q) = 1..(Len(q) - 1) /\ DOMAIN q = 1..Len(q) /\ Len(q) \in Nat \ {0}
       /\ \A j \in 1..(Len(q) - 1) : Tail(q)[j] = q[j + 1]
  BY <1>1, <1>5
<1>11. \A j \in DOMAIN Tail(q) : j + 1 \in DOMAIN q /\ Tail(q)[j] = q[j + 1] /\ 1 < j + 1 /\ j \in Nat
  BY <1>10
<1>12. \A j \in DOMAIN q : q[j] \in DOMAIN ordwth /\ ordwth[q[j]].reads <= Slack /\ q[j] \in Range(dec.recs)
  BY <1>5 DEF ReadForm, q
<1>13. \A j, k \in DOMAIN q : j < k => q[j] < q[k]
  BY <1>5 DEF ReadForm, q
<1>14. \A j \in DOMAIN Tail(q) : Tail(q)[j] # i /\ Tail(q)[j] \in DOMAIN ordwth
  <2> TAKE j \in DOMAIN Tail(q)
  <2>1. q[1] < q[j + 1] /\ q[j + 1] \in DOMAIN ordwth
    BY <1>6, <1>11, <1>12, <1>13
  <2>2. q[1] \in Nat /\ q[j + 1] \in Nat
    BY <1>6, <2>1, ReadsAre
  <2> QED  BY <1>5, <1>11, <2>1, <2>2
<1>15. \A j \in DOMAIN Tail(q) : ordwth'[Tail(q)[j]].reads <= Slack' /\ Tail(q)[j] \in Range(dec.recs)
  BY <1>1, <1>3, <1>4, <1>11, <1>12, <1>14
<1>16. \A j, k \in DOMAIN Tail(q) : j < k => Tail(q)[j] < Tail(q)[k]
  <2>1. \A j, k \in DOMAIN Tail(q) : j < k => j + 1 < k + 1
    BY <1>11
  <2> QED  BY <1>11, <1>13, <2>1
<1> HIDE DEF Slack
<1>17. starts' \in Nat \ {0} /\ dec'.pc \in AtOrders
  BY <1>2 DEF ReadForm, AtOrders
<1> QED  BY <1>2, <1>8, <1>9, <1>15, <1>16, <1>17 DEF ReadForm

LEMMA StatusSetReads ==
    ASSUME TablesForm, ReadForm, Set_MutilOrd_Status, UNCHANGED starts, faults \subseteq faults'
    PROVE  ReadForm'
<1>1. dec.pc = "order" /\ dec'.pc = "push"
  BY DEF Set_MutilOrd_Status, TablesForm
<1>2. Slack' >= Slack /\ Slack' \in Nat /\ Slack \in Nat
  BY SlackGrows
<1>3. \A i \in DOMAIN ordwth : ordwth[i].reads \in Nat
  BY ReadsAre
<1>4. CASE ordwth' = SetStatus(dec.recs)
  <2>1. DOMAIN ordwth' = DOMAIN ordwth /\ \A i \in DOMAIN ordwth : ordwth'[i].reads = ordwth[i].reads
                 /\ ordwth'[i].status = IF i \in Range(dec.recs) THEN "P" ELSE ordwth[i].status
    BY <1>4, StatusSetIs
  <2>2. \A i \in DOMAIN ordwth' : ordwth'[i].reads <= Slack' + 1
    BY <1>2, <1>3, <2>1 DEF ReadForm
  <2>3. \A i \in DOMAIN ordwth' : ordwth'[i].status = "R" => ordwth'[i].reads <= Slack'
    BY <1>2, <1>3, <2>1 DEF ReadForm
  <2> HIDE DEF Slack
  <2> QED  BY <1>1, <2>2, <2>3 DEF ReadForm, AtOrders
<1>5. CASE Fails("mark") /\ UNCHANGED ordwth
  <2>1. Slack' = Slack + 1
    BY <1>5 DEF Fails, Slack, ReadForm
  <2>2. \A i \in DOMAIN ordwth : ordwth[i].reads <= Slack'
    BY <2>1 DEF ReadForm
  <2> QED  BY <1>1, <1>5, <2>2, ReadStays DEF AtOrders
<1> QED  BY <1>4, <1>5 DEF Set_MutilOrd_Status

LEMMA OrderWrittenReads ==
    ASSUME TablesForm, ReadForm, Ordwth, UNCHANGED starts
    PROVE  ReadForm'
<1> DEFINE n == Len(ordwth)
<1>1. /\ UNCHANGED <<dec, faults>> /\ DOMAIN ordwth = 1..n /\ n \in Nat /\ DOMAIN ordwth' = 1..(n + 1)
      /\ \A i \in DOMAIN ordwth : ordwth'[i] = ordwth[i]
      /\ ordwth'[n + 1].reads = 0
  BY OrderWritten
<1>2. Slack' = Slack /\ Slack \in Nat
  BY <1>1 DEF Slack, ReadForm
<1> HIDE DEF n, Slack
<1>3. \A i \in DOMAIN ordwth' : i # n + 1 => i \in DOMAIN ordwth /\ ordwth'[i] = ordwth[i]
  BY <1>1
<1>4. \A j \in DOMAIN dec.todo : dec.todo[j] \in DOMAIN ordwth
  BY DEF TablesForm
<1>5. \A i \in DOMAIN ordwth' : ordwth'[i].reads <= Slack + 1
  BY <1>1, <1>2, <1>3 DEF ReadForm
<1>6. \A i \in DOMAIN ordwth' : ordwth'[i].status = "R" /\ ~(dec.pc \in AtOrders /\ i \in Range(dec.recs)) => ordwth'[i].reads <= Slack
  BY <1>1, <1>2, <1>3 DEF ReadForm
<1>7. dec.pc \in AtOrders => \A j \in DOMAIN dec.todo : ordwth'[dec.todo[j]].reads <= Slack
  BY <1>1, <1>4 DEF ReadForm
<1> QED  BY <1>1, <1>2, <1>5, <1>6, <1>7 DEF ReadForm, AtOrders, Range

LEMMA RestartReads == ASSUME TablesForm, ReadForm, Restart PROVE ReadForm'
<1>1. UNCHANGED <<ordwth, faults>> /\ starts' = starts + 1 /\ dec' = Waits
  BY DEF Restart, ShLost, tabVars
<1>2. Slack' = Slack + 1 /\ Slack \in Nat /\ starts' \in Nat \ {0}
  BY <1>1 DEF Slack, ReadForm
<1>3. \A i \in DOMAIN ordwth : ordwth[i].reads \in Nat
  BY ReadsAre
<1>4. dec'.pc \notin AtOrders
  BY <1>1 DEF Waits, AtOrders
<1> HIDE DEF Slack
<1> QED  BY <1>1, <1>2, <1>3, <1>4 DEF ReadForm

LEMMA ReadStep == ASSUME WireForm, FaultForm, TablesForm, ReadForm, [GatewayNext]_gatewayVars PROVE ReadForm'
<1>1. faults \subseteq faults'
  BY FaultsGrow
<1>2. CASE UNCHANGED shVars /\ ~Restart
  <2>1. UNCHANGED starts
    BY <1>2, StartFrame, ClientFrame DEF GatewayNext, StartLeaves, Shanghai, Environment, RestartRequest, mainVars, gatewayVars
  <2> QED  BY <1>1, <1>2, <2>1, ReadStays DEF shVars, tabVars
<1>3. CASE UNCHANGED mainVars /\ Working
  <2>1. UNCHANGED starts
    BY <1>3 DEF mainVars
  <2>2. CASE SHOrderToFix(WebMan) \/ Set_MutilOrd_Status
    BY <1>1, <2>1, <2>2, OrderReadReads, StatusSetReads
  <2>3. CASE SelectOrders(acked) /\ dec'.pc \in AtOrders
    BY <1>1, <2>1, <2>3, SelectedReads
  <2>4. CASE PolicySh \/ PolicySh_Rest
    <3>1. UNCHANGED ordwth /\ dec.pc \in AtOrders /\ dec'.pc \in AtOrders /\ dec'.todo = dec.todo /\ dec'.recs = dec.recs
      <4>1. CASE PolicySh
        BY <4>1 DEF PolicySh, TablesForm, AtOrders, tabVars
      <4>2. CASE PolicySh_Rest
        BY <4>2 DEF PolicySh_Rest, TablesForm, AtOrders, tabVars
      <4> QED  BY <2>4, <4>1, <4>2
    <3> QED  BY <1>1, <2>1, <3>1, ReadStays
  <2>5. CASE GetSHCjbh \/ SetCjbh \/ GetSHRec_Num \/ SetRecNum
    <3>1. UNCHANGED ordwth /\ dec.pc \notin AtOrders /\ dec'.pc \notin AtOrders
      <4>1. CASE GetSHCjbh
        <5>1. UNCHANGED ordwth /\ dec.pc \notin AtOrders
          BY <4>1 DEF GetSHCjbh, D_Fails, tabVars, AtOrders
        <5>2. CASE dec' = Waits
          BY <5>1, <5>2 DEF AtOrders, Waits
        <5>3. CASE \E p \in {"cjbh", "rec", "select"} : \E n : dec' = [dec EXCEPT !.pc = p, !.got = n]
          BY <5>1, <5>3 DEF AtOrders, TablesForm
        <5>4. dec' = Waits \/ \E p \in {"cjbh", "rec", "select"} : \E n : dec' = [dec EXCEPT !.pc = p, !.got = n]
          BY <4>1 DEF GetSHCjbh, D_Fails
        <5> QED  BY <5>1, <5>2, <5>3, <5>4
      <4>2. CASE SetCjbh
        BY <4>2 DEF SetCjbh, tabVars, AtOrders, TablesForm
      <4>3. CASE GetSHRec_Num
        <5>1. UNCHANGED ordwth /\ dec.pc \notin AtOrders
          BY <4>3 DEF GetSHRec_Num, D_Fails, tabVars, AtOrders
        <5>2. CASE dec' = Waits
          BY <5>1, <5>2 DEF AtOrders, Waits
        <5>3. CASE \E p \in {"setrec", "select"} : \E n : dec' = [dec EXCEPT !.pc = p, !.got = n]
          BY <5>1, <5>3 DEF AtOrders, TablesForm
        <5>4. dec' = Waits \/ \E p \in {"setrec", "select"} : \E n : dec' = [dec EXCEPT !.pc = p, !.got = n]
          BY <4>3 DEF GetSHRec_Num, D_Fails
        <5> QED  BY <5>1, <5>2, <5>3, <5>4
      <4>4. CASE SetRecNum
        BY <4>4 DEF SetRecNum, tabVars, AtOrders, TablesForm
      <4> QED  BY <2>5, <4>1, <4>2, <4>3, <4>4
    <3> QED  BY <1>1, <2>1, <3>1, ReadStays
  <2>6. CASE (SelectOrders(acked) /\ dec'.pc \notin AtOrders) \/ ProcShMessage
    <3>1. UNCHANGED ordwth /\ dec.pc \notin AtOrders /\ dec'.pc \notin AtOrders
      <4>1. CASE SelectOrders(acked)
        BY <2>6, <4>1 DEF SelectOrders, D_Fails, tabVars, AtOrders, ProcShMessage, Waits
      <4>2. CASE ProcShMessage
        BY <4>2 DEF ProcShMessage, tabVars, AtOrders, Waits
      <4> QED  BY <2>6, <4>1, <4>2
    <3> QED  BY <1>1, <2>1, <3>1, ReadStays
  <2>7. CASE FlowStep \/ Get_SHReport \/ Send_SH_ReportOrConfirm
    <3>1. UNCHANGED <<ordwth, dec>>
      BY <2>7 DEF FlowStep, Get_SHReport, Send_SH_ReportOrConfirm, tabVars
    <3> QED  BY <1>1, <2>1, <3>1, ReadStays
  <2> QED  BY <1>3, <2>2, <2>3, <2>4, <2>5, <2>6, <2>7 DEF Working
<1>4. CASE UNCHANGED mainVars /\ Ordwth
  BY <1>4, OrderWrittenReads DEF mainVars
<1>5. CASE Restart
  BY <1>5, RestartReads
<1> QED  BY <1>2, <1>3, <1>4, <1>5, WorkersFrame

LEMMA ReadAgainHolds == ASSUME TablesForm, ReadForm PROVE ReadAgain
<1>1. Cardinality(faults \cap {"mark"}) = IF "mark" \in faults THEN 1 ELSE 0
  <2>1. CASE "mark" \in faults
    <3>1. faults \cap {"mark"} = {"mark"}
      BY <2>1
    <3> QED  BY <2>1, <3>1, FS_Singleton
  <2>2. CASE "mark" \notin faults
    <3>1. faults \cap {"mark"} = {}
      BY <2>2
    <3> QED  BY <2>2, <3>1, FS_EmptySet
  <2> QED  BY <2>1, <2>2
<1>2. \A i \in DOMAIN ordwth : ordwth[i].reads \in Nat
  BY ReadsAre
<1> QED  BY <1>1, <1>2 DEF ReadForm, Slack, ReadAgain

-----------------------------------------------------------------------------
(* Counting the elements of a sequence that are in a set                   *)

Hits(s, G) == {i \in DOMAIN s : s[i] \in G}
Count(s, G) == Cardinality(Hits(s, G))

LEMMA HitsFinite == ASSUME NEW S, NEW s \in Seq(S), NEW G PROVE IsFiniteSet(Hits(s, G)) /\ Count(s, G) \in Nat
<1>1. IsFiniteSet(1..Len(s)) /\ Hits(s, G) \in SUBSET (1..Len(s))
  BY FS_Interval DEF Hits
<1>2. IsFiniteSet(Hits(s, G))
  BY <1>1, FS_Subset
<1> QED  BY <1>2, FS_CardinalityType DEF Count

LEMMA CountNone == ASSUME NEW G PROVE Count(<<>>, G) = 0
<1>1. Hits(<<>>, G) = {}
  BY DEF Hits
<1> QED  BY <1>1, FS_EmptySet DEF Count

LEMMA CountOne == ASSUME NEW S, NEW e \in S, NEW G PROVE Count(<<e>>, G) = IF e \in G THEN 1 ELSE 0
<1>1. CASE e \in G
  <2>1. Hits(<<e>>, G) = {1}
    BY <1>1 DEF Hits
  <2> QED  BY <1>1, <2>1, FS_Singleton DEF Count
<1>2. CASE e \notin G
  <2>1. Hits(<<e>>, G) = {}
    BY <1>2 DEF Hits
  <2> QED  BY <1>2, <2>1, FS_EmptySet DEF Count
<1> QED  BY <1>1, <1>2

LEMMA CountConcat ==
    ASSUME NEW S, NEW s \in Seq(S), NEW t \in Seq(S), NEW G
    PROVE  Count(s \o t, G) = Count(s, G) + Count(t, G)
<1> DEFINE n == Len(s)
           u == s \o t
           A == Hits(s, G)
           B == Hits(t, G)
           C == {i + n : i \in B}
           f == [i \in B |-> i + n]
<1>1. /\ n \in Nat /\ DOMAIN s = 1..n /\ DOMAIN t = 1..Len(t) /\ Len(t) \in Nat /\ DOMAIN u = 1..(n + Len(t))
      /\ \A i \in DOMAIN u : u[i] = IF i <= n THEN s[i] ELSE t[i - n]
  BY ConcatProperties
<1>2. IsFiniteSet(A) /\ IsFiniteSet(B)
  BY HitsFinite
<1>3. Hits(u, G) = A \cup C
  <2> HIDE DEF u, n
  <2>1. \A i \in Hits(u, G) : i \in A \cup C
    <3> TAKE i \in Hits(u, G)
    <3>1. i \in DOMAIN u /\ u[i] \in G
      BY DEF Hits
    <3>2. CASE i <= n
      BY <1>1, <3>1, <3>2 DEF Hits
    <3>3. CASE ~(i <= n)
      <4>1. i - n \in B /\ i = (i - n) + n
        BY <1>1, <3>1, <3>3 DEF Hits
      <4> QED  BY <4>1
    <3> QED  BY <3>2, <3>3
  <2>2. \A i \in A : i \in Hits(u, G)
    BY <1>1 DEF Hits
  <2>3. \A i \in B : i + n \in Hits(u, G)
    <3> TAKE i \in B
    <3>1. i \in 1..Len(t) /\ t[i] \in G
      BY <1>1 DEF Hits
    <3>2. i + n \in DOMAIN u /\ ~(i + n <= n) /\ (i + n) - n = i
      BY <1>1, <3>1
    <3> QED  BY <1>1, <3>1, <3>2 DEF Hits
  <2> QED  BY <2>1, <2>2, <2>3
<1>4. A \cap C = {} /\ \A i \in B : i \in Nat
  BY <1>1 DEF Hits
<1>5. IsFiniteSet(C) /\ Cardinality(C) = Cardinality(B)
  <2> HIDE DEF B, n
  <2>3. n \in Nat /\ \A i \in B : i \in Nat
    BY <1>1, <1>4
  <2>4. f \in [B -> C] /\ \A i, j \in B : f[i] = f[j] => i = j
    BY <2>3
  <2>5. \A c \in C : \E i \in B : f[i] = c
    OBVIOUS
  <2>6. f \in Injection(B, C)
    BY <2>4 DEF Injection, IsInjective
  <2>7. f \in Surjection(B, C)
    BY <2>4, <2>5 DEF Surjection
  <2>1. f \in Bijection(B, C)
    BY <2>6, <2>7 DEF Bijection
  <2> HIDE DEF f, C
  <2>2. ExistsBijection(B, C)
    BY <2>1 DEF ExistsBijection
  <2> QED  BY <1>2, <2>2, FS_Bijection
<1> HIDE DEF A, B, C, u
<1>6. Cardinality(A \cup C) = Cardinality(A) + Cardinality(C) - Cardinality(A \cap C)
  BY <1>2, <1>5, FS_Union
<1>7. Cardinality(A \cap C) = 0 /\ Cardinality(A) \in Nat /\ Cardinality(B) \in Nat
  BY <1>2, <1>4, FS_EmptySet, FS_CardinalityType
<1>8. Cardinality(Hits(u, G)) = Cardinality(A) + Cardinality(B)
  BY <1>3, <1>5, <1>6, <1>7
<1> QED  BY <1>8 DEF Count, A, B, u

LEMMA CountAppend ==
    ASSUME NEW S, NEW s \in Seq(S), NEW e \in S, NEW G
    PROVE  Count(Append(s, e), G) = Count(s, G) + IF e \in G THEN 1 ELSE 0
<1>1. <<e>> \in Seq(S) /\ Append(s, e) = s \o <<e>>
  OBVIOUS
<1>2. Count(s \o <<e>>, G) = Count(s, G) + Count(<<e>>, G)
  BY <1>1, CountConcat
<1>3. Count(<<e>>, G) = IF e \in G THEN 1 ELSE 0
  BY CountOne
<1> QED  BY <1>1, <1>2, <1>3

LEMMA CountTail ==
    ASSUME NEW S, NEW s \in Seq(S), s # <<>>, NEW G
    PROVE  Count(s, G) = Count(Tail(s), G) + IF s[1] \in G THEN 1 ELSE 0
<1> DEFINE e == s[1]
           t == Tail(s)
<1>1. e \in S /\ t \in Seq(S) /\ <<e>> \in Seq(S)
  OBVIOUS
<1>2. s = <<e>> \o t
  OBVIOUS
<1> HIDE DEF t, e
<1>3. Count(<<e>> \o t, G) = Count(<<e>>, G) + Count(t, G)
  BY <1>1, CountConcat
<1>4. Count(<<e>>, G) = (IF e \in G THEN 1 ELSE 0) /\ Count(t, G) \in Nat
  BY <1>1, CountOne, HitsFinite
<1>5. Count(s, G) = Count(t, G) + IF e \in G THEN 1 ELSE 0
  <2>1. Count(s, G) = Count(<<e>>, G) + Count(t, G)
    BY <1>2, <1>3
  <2> QED  BY <1>4, <2>1
<1> QED  BY <1>5 DEF t, e

LEMMA CountFirst ==
    ASSUME NEW S, NEW s \in Seq(S), s # <<>>, NEW e \in S, NEW G
    PROVE  Count([s EXCEPT ![1] = e], G) = Count(Tail(s), G) + IF e \in G THEN 1 ELSE 0
<1> DEFINE u == [s EXCEPT ![1] = e]
<1>1. u \in Seq(S) /\ u # <<>> /\ u[1] = e /\ Tail(u) = Tail(s)
  OBVIOUS
<1> HIDE DEF u
<1>2. Count(u, G) = Count(Tail(u), G) + IF u[1] \in G THEN 1 ELSE 0
  BY <1>1, CountTail
<1> QED  BY <1>1, <1>2 DEF u

-----------------------------------------------------------------------------
(* Each reading of an order is answered at most once                       *)

AnyOrder == [rec : Nat, kind : InKinds \cup OutKinds, rule : Nat]
RowsAbout(r) == {row \in TableRow : row.rec = r}
SqlsAbout(r) == {row \in SqlRow : row.table = "ordwth2" /\ row.rec = r}
AnswersAbout(r) == {o \in AnyOrder : o.rec = r /\ o.kind # "match"}
Unanswered(r) == {o \in AnyOrder : o.rec = r /\ o.kind # "confirmed"}

ReadsOf(r) == IF r \in DOMAIN ordwth THEN ordwth[r].reads ELSE 0

\* The answers an order has, or will have, are not more than its readings.
AnswersOf(r) ==
    Count(ordwth2, RowsAbout(r)) + Count(sqls, SqlsAbout(r)) + Count(outb, AnswersAbout(r))
      + Count(inb, Unanswered(r)) + Count(dec.vec, Unanswered(r))
AnswersForm == \A r \in Nat \ {0} : AnswersOf(r) <= ReadsOf(r)

LEMMA AnyForm ==
    ASSUME TablesForm
    PROVE  /\ inb \in Seq(AnyOrder) /\ outb \in Seq(AnyOrder) /\ dec.vec \in Seq(AnyOrder)
           /\ sqls \in Seq(SqlRow) /\ ordwth2 \in Seq(TableRow)
           /\ OrderOf(InKinds) \subseteq AnyOrder /\ OrderOf(OutKinds) \subseteq AnyOrder /\ OrderOf(ReadKinds) \subseteq AnyOrder
<1>1. OrderOf(InKinds) \subseteq AnyOrder /\ OrderOf(OutKinds) \subseteq AnyOrder /\ OrderOf(ReadKinds) \subseteq AnyOrder
  <2>1. {0} \cup Known \subseteq Nat
    BY RulesAssumption DEF Known, Rules
  <2>2. \A kinds : kinds \subseteq InKinds \cup OutKinds => OrderOf(kinds) \subseteq AnyOrder
    BY <2>1 DEF OrderOf, AnyOrder
  <2> QED  BY <2>2 DEF InKinds
<1>2. inb \in Seq(OrderOf(InKinds)) /\ outb \in Seq(OrderOf(OutKinds)) /\ dec.vec \in Seq(OrderOf(ReadKinds))
      /\ sqls \in Seq(SqlRow) /\ ordwth2 \in Seq(TableRow)
  BY DEF TablesForm
<1> QED  BY <1>1, <1>2, WiderSeq

LEMMA CountsAre ==
    ASSUME TablesForm, NEW r
    PROVE  /\ Count(ordwth2, RowsAbout(r)) \in Nat /\ Count(sqls, SqlsAbout(r)) \in Nat /\ Count(outb, AnswersAbout(r)) \in Nat
           /\ Count(inb, Unanswered(r)) \in Nat /\ Count(dec.vec, Unanswered(r)) \in Nat /\ ReadsOf(r) \in Nat
<1>1. ReadsOf(r) \in Nat
  BY ReadsAre DEF ReadsOf
<1> QED  BY <1>1, AnyForm, HitsFinite

LEMMA AnswersInit == GatewayInit => AnswersForm
<1> SUFFICES ASSUME GatewayInit, NEW r \in Nat \ {0} PROVE AnswersOf(r) <= ReadsOf(r)
  BY DEF AnswersForm
<1>1. ordwth = <<>> /\ ordwth2 \in {<<>>, <<Old>>} /\ dec.vec = <<>> /\ inb = <<>> /\ outb = <<>> /\ sqls = <<>>
  BY DEF GatewayInit, ShInit, Waits
<1>2. Count(<<Old>>, RowsAbout(r)) = 0
  <2>1. Hits(<<Old>>, RowsAbout(r)) = {}
    <3>1. Old.rec = 0
      BY DEF Old
    <3>2. \A i \in DOMAIN <<Old>> : <<Old>>[i] = Old
      OBVIOUS
    <3> QED  BY <3>1, <3>2 DEF Hits, RowsAbout
  <2> QED  BY <2>1, FS_EmptySet DEF Count
<1>3. Count(ordwth2, RowsAbout(r)) = 0
  BY <1>1, <1>2, CountNone
<1>4. Count(sqls, SqlsAbout(r)) = 0 /\ Count(outb, AnswersAbout(r)) = 0 /\ Count(inb, Unanswered(r)) = 0
      /\ Count(dec.vec, Unanswered(r)) = 0
  BY <1>1, CountNone
<1>5. ReadsOf(r) = 0
  BY <1>1 DEF ReadsOf
<1> QED  BY <1>3, <1>4, <1>5 DEF AnswersOf

LEMMA AnswersStay ==
    ASSUME TablesForm, AnswersForm, UNCHANGED <<ordwth2, inb, outb, sqls>>, dec'.vec \in {dec.vec, <<>>},
           \A r \in Nat \ {0} : ReadsOf(r)' = ReadsOf(r)
    PROVE  AnswersForm'
<1> SUFFICES ASSUME NEW r \in Nat \ {0} PROVE AnswersOf(r)' <= ReadsOf(r)'
  BY DEF AnswersForm
<1>1. AnswersOf(r) <= ReadsOf(r) /\ ReadsOf(r)' = ReadsOf(r)
  BY DEF AnswersForm
<1> DEFINE d == Count(dec'.vec, Unanswered(r))
<1>2. d \in Nat /\ d <= Count(dec.vec, Unanswered(r))
  <2>1. Count(<<>>, Unanswered(r)) = 0
    BY CountNone
  <2> QED  BY <2>1, CountsAre
<1>3. AnswersOf(r)' = Count(ordwth2, RowsAbout(r)) + Count(sqls, SqlsAbout(r)) + Count(outb, AnswersAbout(r))
                         + Count(inb, Unanswered(r)) + d
  BY DEF AnswersOf, RowsAbout, SqlsAbout, AnswersAbout, Unanswered, Count, Hits, TableRow, SqlRow, AnyOrder, Tables, Statuses, InKinds, OutKinds, ReadKinds
<1> HIDE DEF d
<1>4. /\ Count(ordwth2, RowsAbout(r)) \in Nat /\ Count(sqls, SqlsAbout(r)) \in Nat /\ Count(outb, AnswersAbout(r)) \in Nat
      /\ Count(inb, Unanswered(r)) \in Nat /\ Count(dec.vec, Unanswered(r)) \in Nat /\ ReadsOf(r) \in Nat
  BY CountsAre
<1>5. AnswersOf(r)' <= AnswersOf(r)
  BY <1>2, <1>3, <1>4 DEF AnswersOf
<1>6. AnswersOf(r)' \in Nat /\ AnswersOf(r) \in Nat
  BY <1>2, <1>3, <1>4 DEF AnswersOf
<1> QED  BY <1>1, <1>4, <1>5, <1>6

LEMMA RowsCounted ==
    ASSUME NEW done \in Seq(SqlRow), NEW r
    PROVE  Count(RowsOf("ordwth2", done), RowsAbout(r)) <= Count(done, SqlsAbout(r))
<1> DEFINE rs == RowsOf("ordwth2", done)
           m == Mine("ordwth2", done)
           A == Hits(rs, RowsAbout(r))
           B == Hits(done, SqlsAbout(r))
           f == [k \in A |-> m[k]]
<1>1. /\ rs \in Seq(TableRow) /\ DOMAIN rs = DOMAIN m /\ DOMAIN m = 1..Len(m) /\ Len(m) \in Nat
      /\ \A k \in DOMAIN m : m[k] \in DOMAIN done /\ done[m[k]].table = "ordwth2" /\ rs[k].rec = done[m[k]].rec
      /\ \A j, k \in DOMAIN m : j < k => m[j] < m[k]
  BY RowsOfIs
<1> HIDE DEF rs, m
<1>2. \A k \in A : k \in DOMAIN m /\ m[k] \in B
  BY <1>1 DEF Hits, RowsAbout, SqlsAbout
<1>3. \A j, k \in A : m[j] = m[k] => j = k
  <2> SUFFICES ASSUME NEW j \in A, NEW k \in A, m[j] = m[k], j # k PROVE FALSE
    OBVIOUS
  <2>1. j \in DOMAIN m /\ k \in DOMAIN m /\ j \in Nat /\ k \in Nat /\ m[j] \in Nat
    BY <1>1, <1>2
  <2>2. j < k \/ k < j
    BY <2>1
  <2> QED  BY <1>1, <2>1, <2>2
<1>4. IsFiniteSet(B)
  BY HitsFinite
<1> HIDE DEF A, B
<1>5. f \in [A -> B] /\ \A j, k \in A : f[j] = f[k] => j = k
  BY <1>2, <1>3
<1>6. f \in Injection(A, B)
  BY <1>5 DEF Injection, IsInjective
<1> HIDE DEF f
<1>7. Cardinality(A) <= Cardinality(B)
  BY <1>4, <1>6, FS_Injection
<1> QED  BY <1>7 DEF Count, A, B, rs

LEMMA AnswersAre ==
    ASSUME NEW r
    PROVE  AnswersOf(r)' = Count(ordwth2', RowsAbout(r)) + Count(sqls', SqlsAbout(r)) + Count(outb', AnswersAbout(r))
                             + Count(inb', Unanswered(r)) + Count(dec'.vec, Unanswered(r))
BY DEF AnswersOf, RowsAbout, SqlsAbout, AnswersAbout, Unanswered, Count, Hits, TableRow, SqlRow, AnyOrder, Tables, Statuses, InKinds, OutKinds, ReadKinds

\* The answers do not become more than the readings do.
LEMMA AnswersBy ==
    ASSUME TablesForm, AnswersForm,
           \A r \in Nat \ {0} :
             AnswersOf(r)' - AnswersOf(r) <= ReadsOf(r)' - ReadsOf(r) /\ AnswersOf(r)' \in Int /\ ReadsOf(r)' \in Int
    PROVE  AnswersForm'
<1> SUFFICES ASSUME NEW r \in Nat \ {0} PROVE AnswersOf(r)' <= ReadsOf(r)'
  BY DEF AnswersForm
<1>1. AnswersOf(r)' - AnswersOf(r) <= ReadsOf(r)' - ReadsOf(r) /\ AnswersOf(r)' \in Int /\ ReadsOf(r)' \in Int
  OBVIOUS
<1>2. AnswersOf(r) <= ReadsOf(r)
  BY DEF AnswersForm
<1>3. AnswersOf(r) \in Nat /\ ReadsOf(r) \in Nat
  BY CountsAre DEF AnswersOf
<1> QED  BY <1>1, <1>2, <1>3

LEMMA OrderReadAnswers == ASSUME TablesForm, AnswersForm, NEW web, SHOrderToFix(web) PROVE AnswersForm'
<1> DEFINE i == Reading
           o == Message(i, web)
           e == [o EXCEPT !.kind = "error"]
<1>1. /\ i \in DOMAIN ordwth /\ o \in OrderOf(ReadKinds) /\ o.rec = i /\ UNCHANGED <<ordwth2, inb, sqls>>
      /\ DOMAIN ordwth' = DOMAIN ordwth /\ ordwth'[i].reads = ordwth[i].reads + 1
      /\ \A j \in DOMAIN ordwth : j # i => ordwth'[j] = ordwth[j]
      /\ \/ UNCHANGED outb /\ dec' = [dec EXCEPT !.todo = Tail(@), !.vec = Append(@, o)]
         \/ dec' = [dec EXCEPT !.todo = Tail(@)] /\ outb' = Append(outb, e)
  BY OrderReadIs
<1>2. o \in AnyOrder /\ o.kind \in ReadKinds
  BY <1>1, AnyForm DEF OrderOf
<1> HIDE DEF i, o
<1>3. e \in AnyOrder /\ e.rec = i /\ e.kind = "error"
  BY <1>1, <1>2 DEF AnyOrder, OutKinds
<1> HIDE DEF e
<1>4. (UNCHANGED outb /\ dec'.vec = Append(dec.vec, o)) \/ (dec'.vec = dec.vec /\ outb' = Append(outb, e))
  <2> DEFINE rest == Tail(dec.todo)
             more == Append(dec.vec, o)
  <2>1. (UNCHANGED outb /\ dec' = [dec EXCEPT !.todo = rest, !.vec = more])
        \/ (dec' = [dec EXCEPT !.todo = rest] /\ outb' = Append(outb, e))
    BY <1>1
  <2> HIDE DEF rest, more
  <2>2. (UNCHANGED outb /\ dec'.vec = more) \/ (dec'.vec = dec.vec /\ outb' = Append(outb, e))
    BY <2>1 DEF TablesForm
  <2> QED  BY <2>2 DEF more
<1> SUFFICES ASSUME NEW r \in Nat \ {0}
             PROVE  AnswersOf(r)' - AnswersOf(r) <= ReadsOf(r)' - ReadsOf(r) /\ AnswersOf(r)' \in Int /\ ReadsOf(r)' \in Int
  BY AnswersBy
<1>5. ReadsOf(r)' = ReadsOf(r) + IF r = i THEN 1 ELSE 0
  BY <1>1, ReadsAre DEF ReadsOf
<1>6. o \in Unanswered(r) <=> r = i
  BY <1>1, <1>2 DEF Unanswered, ReadKinds
<1>7. e \in AnswersAbout(r) <=> r = i
  BY <1>3 DEF AnswersAbout
<1>8. Count(Append(dec.vec, o), Unanswered(r)) = Count(dec.vec, Unanswered(r)) + IF r = i THEN 1 ELSE 0
  BY <1>2, <1>6, AnyForm, CountAppend
<1>9. Count(Append(outb, e), AnswersAbout(r)) = Count(outb, AnswersAbout(r)) + IF r = i THEN 1 ELSE 0
  BY <1>3, <1>7, AnyForm, CountAppend
<1>10. /\ Count(ordwth2, RowsAbout(r)) \in Nat /\ Count(sqls, SqlsAbout(r)) \in Nat /\ Count(outb, AnswersAbout(r)) \in Nat
       /\ Count(inb, Unanswered(r)) \in Nat /\ Count(dec.vec, Unanswered(r)) \in Nat /\ ReadsOf(r) \in Nat
  BY CountsAre
<1>11. AnswersOf(r)' = AnswersOf(r) + IF r = i THEN 1 ELSE 0
  <2> DEFINE one == IF r = i THEN 1 ELSE 0
  <2>1. one \in Nat
    OBVIOUS
  <2>2. \/ Count(outb', AnswersAbout(r)) = Count(outb, AnswersAbout(r)) /\ Count(dec'.vec, Unanswered(r)) = Count(dec.vec, Unanswered(r)) + one
        \/ Count(outb', AnswersAbout(r)) = Count(outb, AnswersAbout(r)) + one /\ Count(dec'.vec, Unanswered(r)) = Count(dec.vec, Unanswered(r))
    BY <1>4, <1>8, <1>9
  <2>3. AnswersOf(r)' = Count(ordwth2, RowsAbout(r)) + Count(sqls, SqlsAbout(r)) + Count(outb', AnswersAbout(r))
                             + Count(inb, Unanswered(r)) + Count(dec'.vec, Unanswered(r))
    BY <1>1, AnswersAre
  <2> HIDE DEF one
  <2>4. AnswersOf(r)' = AnswersOf(r) + one
    BY <1>10, <2>1, <2>2, <2>3 DEF AnswersOf
  <2> QED  BY <2>4 DEF one
<1>12. AnswersOf(r) \in Nat
  BY <1>10 DEF AnswersOf
<1> QED  BY <1>5, <1>10, <1>11, <1>12

LEMMA OrdersPushedAnswers == ASSUME TablesForm, AnswersForm, ProcShMessage PROVE AnswersForm'
<1>1. inb' = inb \o dec.vec /\ dec'.vec = <<>> /\ UNCHANGED <<ordwth, ordwth2, outb, sqls>>
  BY DEF ProcShMessage, tabVars, Waits
<1> SUFFICES ASSUME NEW r \in Nat \ {0}
             PROVE  AnswersOf(r)' - AnswersOf(r) <= ReadsOf(r)' - ReadsOf(r) /\ AnswersOf(r)' \in Int /\ ReadsOf(r)' \in Int
  BY AnswersBy
<1>2. ReadsOf(r)' = ReadsOf(r)
  BY <1>1 DEF ReadsOf
<1>3. Count(inb', Unanswered(r)) = Count(inb, Unanswered(r)) + Count(dec.vec, Unanswered(r))
  BY <1>1, AnyForm, CountConcat
<1>4. Count(dec'.vec, Unanswered(r)) = 0
  BY <1>1, CountNone
<1>5. /\ Count(ordwth2, RowsAbout(r)) \in Nat /\ Count(sqls, SqlsAbout(r)) \in Nat /\ Count(outb, AnswersAbout(r)) \in Nat
      /\ Count(inb, Unanswered(r)) \in Nat /\ Count(dec.vec, Unanswered(r)) \in Nat /\ ReadsOf(r) \in Nat
  BY CountsAre
<1>6. AnswersOf(r)' = AnswersOf(r) /\ AnswersOf(r) \in Nat
  BY <1>1, <1>3, <1>4, <1>5, AnswersAre DEF AnswersOf
<1> QED  BY <1>2, <1>5, <1>6

LEMMA FlowAnswers == ASSUME TablesForm, AnswersForm, FlowStep PROVE AnswersForm'
<1> DEFINE o == inb[1]
           known == [o EXCEPT !.kind = "confirmed"]
<1>1. inb # <<>> /\ o \in OrderOf(InKinds) /\ UNCHANGED <<ordwth, ordwth2, dec, sqls>> /\ known \in OrderOf(InKinds)
  BY FlowStepIs DEF tabVars
<1>2. PICK kind \in OutKinds :
         /\ [o EXCEPT !.kind = kind] \in OrderOf(OutKinds)
         /\ outb' = Append(outb, [o EXCEPT !.kind = kind])
         /\ kind = "match" <=> o.kind = "confirmed"
         /\ IF kind = "confirm" THEN inb' = [inb EXCEPT ![1] = known] ELSE inb' = Tail(inb)
  BY FlowStepIs
<1> DEFINE a == [o EXCEPT !.kind = kind]
<1> HIDE DEF o
<1>3. a \in AnyOrder /\ o \in AnyOrder /\ known \in AnyOrder
  BY <1>1, <1>2, AnyForm
<1>4. a.rec = o.rec /\ a.kind = kind /\ known.kind = "confirmed"
  BY <1>3 DEF AnyOrder
<1> HIDE DEF a, known
<1> SUFFICES ASSUME NEW r \in Nat \ {0}
             PROVE  AnswersOf(r)' - AnswersOf(r) <= ReadsOf(r)' - ReadsOf(r) /\ AnswersOf(r)' \in Int /\ ReadsOf(r)' \in Int
  BY AnswersBy
<1>5. ReadsOf(r)' = ReadsOf(r)
  BY <1>1 DEF ReadsOf
<1>6. (a \in AnswersAbout(r) <=> o \in Unanswered(r)) /\ known \notin Unanswered(r)
  BY <1>2, <1>3, <1>4 DEF AnswersAbout, Unanswered
<1>7. Count(outb', AnswersAbout(r)) = Count(outb, AnswersAbout(r)) + IF o \in Unanswered(r) THEN 1 ELSE 0
  BY <1>2, <1>3, <1>6, AnyForm, CountAppend DEF a
<1>8. Count(inb, Unanswered(r)) = Count(Tail(inb), Unanswered(r)) + IF o \in Unanswered(r) THEN 1 ELSE 0
  BY <1>1, AnyForm, CountTail DEF o
<1>9. Count([inb EXCEPT ![1] = known], Unanswered(r)) = Count(Tail(inb), Unanswered(r)) + IF known \in Unanswered(r) THEN 1 ELSE 0
  BY SMTT(30), <1>1, <1>3, AnyForm, CountFirst
<1>10. /\ Count(ordwth2, RowsAbout(r)) \in Nat /\ Count(sqls, SqlsAbout(r)) \in Nat /\ Count(outb, AnswersAbout(r)) \in Nat
       /\ Count(inb, Unanswered(r)) \in Nat /\ Count(dec.vec, Unanswered(r)) \in Nat /\ ReadsOf(r) \in Nat
  BY CountsAre
<1>11. Count(Tail(inb), Unanswered(r)) \in Nat
  <2>1. Tail(inb) \in Seq(AnyOrder)
    BY <1>1, AnyForm
  <2> QED  BY <2>1, HitsFinite
<1>12. Count(inb', Unanswered(r)) = Count(Tail(inb), Unanswered(r))
  <2>1. Count([inb EXCEPT ![1] = known], Unanswered(r)) = Count(Tail(inb), Unanswered(r))
    BY <1>6, <1>9, <1>11
  <2> QED  BY <1>2, <2>1
<1>13. AnswersOf(r)' = AnswersOf(r) /\ AnswersOf(r) \in Nat
  <2> DEFINE one == IF o \in Unanswered(r) THEN 1 ELSE 0
  <2>1. one \in Nat
    OBVIOUS
  <2>2. Count(outb', AnswersAbout(r)) = Count(outb, AnswersAbout(r)) + one /\ Count(inb, Unanswered(r)) = Count(inb', Unanswered(r)) + one
    BY <1>7, <1>8, <1>12
  <2>3. Count(inb', Unanswered(r)) \in Nat
    BY <1>11, <1>12
  <2>4. AnswersOf(r)' = Count(ordwth2, RowsAbout(r)) + Count(sqls, SqlsAbout(r)) + Count(outb', AnswersAbout(r))
                             + Count(inb', Unanswered(r)) + Count(dec.vec, Unanswered(r))
    BY <1>1, AnswersAre
  <2> HIDE DEF one
  <2> QED  BY <1>10, <2>1, <2>2, <2>3, <2>4 DEF AnswersOf
<1> QED  BY <1>5, <1>10, <1>13

LEMMA ReportAnswers == ASSUME TablesForm, MapForm, AnswersForm, Get_SHReport PROVE AnswersForm'
<1> DEFINE o == outb[1]
<1>1. outb # <<>> /\ o \in OrderOf(OutKinds) /\ outb' = Tail(outb) /\ UNCHANGED <<ordwth, ordwth2, dec, inb>>
  BY ReportTaken DEF tabVars
<1>3. o \in AnyOrder
  BY <1>1, AnyForm
<1>n. CASE UNCHANGED sqls
  <2> SUFFICES ASSUME NEW r \in Nat \ {0}
               PROVE  AnswersOf(r)' - AnswersOf(r) <= ReadsOf(r)' - ReadsOf(r) /\ AnswersOf(r)' \in Int /\ ReadsOf(r)' \in Int
    BY AnswersBy
  <2>1. ReadsOf(r)' = ReadsOf(r)
    BY <1>1 DEF ReadsOf
  <2>2. Count(outb, AnswersAbout(r)) = Count(outb', AnswersAbout(r)) + IF o \in AnswersAbout(r) THEN 1 ELSE 0
    BY <1>1, AnyForm, CountTail
  <2>3. /\ Count(ordwth2, RowsAbout(r)) \in Nat /\ Count(sqls, SqlsAbout(r)) \in Nat /\ Count(outb, AnswersAbout(r)) \in Nat
        /\ Count(inb, Unanswered(r)) \in Nat /\ Count(dec.vec, Unanswered(r)) \in Nat /\ ReadsOf(r) \in Nat
    BY CountsAre
  <2>4. Count(outb', AnswersAbout(r)) \in Nat
    <3>1. Tail(outb) \in Seq(AnyOrder)
      BY <1>1, AnyForm
    <3> QED  BY <1>1, <3>1, HitsFinite
  <2>5. AnswersOf(r)' = Count(ordwth2, RowsAbout(r)) + Count(sqls, SqlsAbout(r)) + Count(outb', AnswersAbout(r))
                          + Count(inb, Unanswered(r)) + Count(dec.vec, Unanswered(r))
    BY <1>1, <1>n, AnswersAre
  <2> HIDE DEF o
  <2> QED  BY <2>1, <2>2, <2>3, <2>4, <2>5 DEF AnswersOf
<1> SUFFICES ASSUME ~UNCHANGED sqls PROVE AnswersForm'
  BY <1>n
<1>2. PICK row, p : Reported(o, p, row) /\ sqls' = Append(sqls, row)
  BY ReportTaken
<1>4. row \in SqlRow /\ row.rec = o.rec /\ (row.table = "ordwth2" <=> o.kind # "match")
  BY <1>2 DEF Reported
<1> HIDE DEF o
<1> SUFFICES ASSUME NEW r \in Nat \ {0}
             PROVE  AnswersOf(r)' - AnswersOf(r) <= ReadsOf(r)' - ReadsOf(r) /\ AnswersOf(r)' \in Int /\ ReadsOf(r)' \in Int
  BY AnswersBy
<1>5. ReadsOf(r)' = ReadsOf(r)
  BY <1>1 DEF ReadsOf
<1>6. row \in SqlsAbout(r) <=> o \in AnswersAbout(r)
  BY <1>3, <1>4 DEF SqlsAbout, AnswersAbout
<1> DEFINE one == IF o \in AnswersAbout(r) THEN 1 ELSE 0
<1>7. one \in Nat
  OBVIOUS
<1>8. Count(sqls', SqlsAbout(r)) = Count(sqls, SqlsAbout(r)) + one
  BY <1>2, <1>4, <1>6, AnyForm, CountAppend
<1>9. Count(outb, AnswersAbout(r)) = Count(outb', AnswersAbout(r)) + one
  BY <1>1, AnyForm, CountTail DEF o
<1>10. /\ Count(ordwth2, RowsAbout(r)) \in Nat /\ Count(sqls, SqlsAbout(r)) \in Nat /\ Count(outb, AnswersAbout(r)) \in Nat
       /\ Count(inb, Unanswered(r)) \in Nat /\ Count(dec.vec, Unanswered(r)) \in Nat /\ ReadsOf(r) \in Nat
  BY CountsAre
<1>11. Count(outb', AnswersAbout(r)) \in Nat
  <2>1. Tail(outb) \in Seq(AnyOrder)
    BY <1>1, AnyForm
  <2> QED  BY <1>1, <2>1, HitsFinite
<1>12. AnswersOf(r)' = Count(ordwth2, RowsAbout(r)) + Count(sqls', SqlsAbout(r)) + Count(outb', AnswersAbout(r))
                             + Count(inb, Unanswered(r)) + Count(dec.vec, Unanswered(r))
  BY <1>1, AnswersAre
<1> HIDE DEF one
<1> QED  BY <1>5, <1>7, <1>8, <1>9, <1>10, <1>11, <1>12 DEF AnswersOf

LEMMA SentAnswers == ASSUME TablesForm, AnswersForm, Send_SH_ReportOrConfirm PROVE AnswersForm'
<1>1. PICK done \in Seq(SqlRow) :
             /\ done \in {sqls, <<>>, Tail(sqls)}
             /\ ordwth2' = ordwth2 \o RowsOf("ordwth2", done)
             /\ sqls # <<>> /\ sqls' = <<>> /\ UNCHANGED <<ordwth, dec, inb, outb>>
  BY ReportsSentIs
<1> SUFFICES ASSUME NEW r \in Nat \ {0}
             PROVE  AnswersOf(r)' - AnswersOf(r) <= ReadsOf(r)' - ReadsOf(r) /\ AnswersOf(r)' \in Int /\ ReadsOf(r)' \in Int
  BY AnswersBy
<1> DEFINE rs == RowsOf("ordwth2", done)
<1>2. ReadsOf(r)' = ReadsOf(r)
  BY <1>1 DEF ReadsOf
<1>3. rs \in Seq(TableRow) /\ Count(rs, RowsAbout(r)) <= Count(done, SqlsAbout(r))
  BY RowsOfIs, RowsCounted
<1> HIDE DEF rs
<1>4. Count(ordwth2', RowsAbout(r)) = Count(ordwth2, RowsAbout(r)) + Count(rs, RowsAbout(r)) /\ Count(rs, RowsAbout(r)) \in Nat
  BY <1>1, <1>3, AnyForm, CountConcat, HitsFinite DEF rs
<1>5. /\ Count(ordwth2, RowsAbout(r)) \in Nat /\ Count(sqls, SqlsAbout(r)) \in Nat /\ Count(outb, AnswersAbout(r)) \in Nat
      /\ Count(inb, Unanswered(r)) \in Nat /\ Count(dec.vec, Unanswered(r)) \in Nat /\ ReadsOf(r) \in Nat
  BY CountsAre
<1>6. Count(done, SqlsAbout(r)) <= Count(sqls, SqlsAbout(r)) /\ Count(done, SqlsAbout(r)) \in Nat
  <2>1. CASE done = sqls
    BY <1>5, <2>1
  <2>2. CASE done = <<>>
    BY <1>5, <2>2, CountNone
  <2>3. CASE done = Tail(sqls)
    <3>1. Count(sqls, SqlsAbout(r)) = Count(done, SqlsAbout(r)) + IF sqls[1] \in SqlsAbout(r) THEN 1 ELSE 0
      BY <1>1, <2>3, AnyForm, CountTail
    <3>2. Count(done, SqlsAbout(r)) \in Nat
      BY HitsFinite
    <3> QED  BY <3>1, <3>2
  <2> QED  BY <1>1, <2>1, <2>2, <2>3
<1>7. Count(sqls', SqlsAbout(r)) = 0
  BY <1>1, CountNone
<1>8. AnswersOf(r)' = Count(ordwth2', RowsAbout(r)) + Count(sqls', SqlsAbout(r)) + Count(outb, AnswersAbout(r))
                             + Count(inb, Unanswered(r)) + Count(dec.vec, Unanswered(r))
  BY <1>1, AnswersAre
<1>9. AnswersOf(r)' = Count(ordwth2, RowsAbout(r)) + Count(rs, RowsAbout(r)) + Count(outb, AnswersAbout(r))
                             + Count(inb, Unanswered(r)) + Count(dec.vec, Unanswered(r))
  BY <1>4, <1>5, <1>7, <1>8
<1>10. Count(rs, RowsAbout(r)) <= Count(sqls, SqlsAbout(r))
  BY <1>3, <1>4, <1>5, <1>6
<1>11. AnswersOf(r)' <= AnswersOf(r) /\ AnswersOf(r)' \in Nat /\ AnswersOf(r) \in Nat
  BY SMTT(30), <1>4, <1>5, <1>9, <1>10 DEF AnswersOf
<1> QED  BY <1>2, <1>5, <1>11

LEMMA LostAnswers == ASSUME TablesForm, AnswersForm, ShLost, UNCHANGED tabVars PROVE AnswersForm'
<1>1. UNCHANGED <<ordwth, ordwth2>> /\ dec'.vec = <<>> /\ inb' = <<>> /\ outb' = <<>> /\ sqls' = <<>>
  BY DEF ShLost, tabVars, Waits
<1> SUFFICES ASSUME NEW r \in Nat \ {0}
             PROVE  AnswersOf(r)' - AnswersOf(r) <= ReadsOf(r)' - ReadsOf(r) /\ AnswersOf(r)' \in Int /\ ReadsOf(r)' \in Int
  BY AnswersBy
<1>2. ReadsOf(r)' = ReadsOf(r)
  BY <1>1 DEF ReadsOf
<1>3. Count(sqls', SqlsAbout(r)) = 0 /\ Count(outb', AnswersAbout(r)) = 0 /\ Count(inb', Unanswered(r)) = 0
      /\ Count(dec'.vec, Unanswered(r)) = 0
  BY <1>1, CountNone
<1>4. /\ Count(ordwth2, RowsAbout(r)) \in Nat /\ Count(sqls, SqlsAbout(r)) \in Nat /\ Count(outb, AnswersAbout(r)) \in Nat
      /\ Count(inb, Unanswered(r)) \in Nat /\ Count(dec.vec, Unanswered(r)) \in Nat /\ ReadsOf(r) \in Nat
  BY CountsAre
<1>5. AnswersOf(r)' = Count(ordwth2, RowsAbout(r))
  BY <1>1, <1>3, <1>4, AnswersAre
<1> QED  BY <1>2, <1>4, <1>5 DEF AnswersOf

LEMMA AnswersStep == ASSUME TablesForm, MapForm, AnswersForm, [GatewayNext]_gatewayVars PROVE AnswersForm'
<1>1. CASE UNCHANGED shVars
  BY <1>1, AnswersStay DEF shVars, tabVars, bufVars, ReadsOf
<1>2. CASE Working
  <2>1. CASE SHOrderToFix(WebMan) \/ ProcShMessage \/ FlowStep \/ Get_SHReport \/ Send_SH_ReportOrConfirm
    BY <2>1, OrderReadAnswers, OrdersPushedAnswers, FlowAnswers, ReportAnswers, SentAnswers
  <2>2. CASE Set_MutilOrd_Status
    <3>1. ordwth' \in {ordwth, SetStatus(dec.recs)} /\ UNCHANGED <<ordwth2, inb, outb, sqls>> /\ dec'.vec = dec.vec
      BY <2>2 DEF Set_MutilOrd_Status, bufVars, TablesForm
    <3>2. \A r \in Nat \ {0} : ReadsOf(r)' = ReadsOf(r)
      BY <3>1, StatusSetIs DEF ReadsOf
    <3> QED  BY <3>1, <3>2, AnswersStay
  <2>3. CASE GetSHCjbh \/ SetCjbh \/ GetSHRec_Num \/ SetRecNum \/ SelectOrders(acked) \/ PolicySh \/ PolicySh_Rest
    <3>1. UNCHANGED <<ordwth, ordwth2, inb, outb, sqls>>
      BY <2>3 DEF GetSHCjbh, SetCjbh, GetSHRec_Num, SetRecNum, SelectOrders, PolicySh, PolicySh_Rest, D_Fails, tabVars, bufVars
    <3>2. dec'.vec \in {dec.vec, <<>>}
      <4>1. CASE GetSHCjbh \/ SetCjbh \/ GetSHRec_Num \/ SetRecNum
        <5>1. CASE SetCjbh \/ SetRecNum
          BY <5>1 DEF SetCjbh, SetRecNum, TablesForm
        <5>2. CASE GetSHCjbh \/ GetSHRec_Num
          <6>1. dec' = Waits \/ \E p, n : dec' = [dec EXCEPT !.pc = p, !.got = n]
            BY <5>2 DEF GetSHCjbh, GetSHRec_Num, D_Fails
          <6>2. CASE dec' = Waits
            BY <6>2 DEF Waits
          <6>3. CASE \E p, n : dec' = [dec EXCEPT !.pc = p, !.got = n]
            BY <6>3 DEF TablesForm
          <6> QED  BY <6>1, <6>2, <6>3
        <5> QED  BY <4>1, <5>1, <5>2
      <4>2. CASE SelectOrders(acked)
        <5> DEFINE u == Unread
                   L == {r \in ShRules : times[ShKey][r] # 0}
        <5>1. dec' = Waits \/ dec' = [dec EXCEPT !.pc = "policy", !.todo = u, !.recs = u, !.acked = acked, !.links = L]
          BY <4>2 DEF SelectOrders, D_Fails
        <5> HIDE DEF u, L
        <5>2. CASE dec' = Waits
          BY <5>2 DEF Waits
        <5>3. CASE dec' = [dec EXCEPT !.pc = "policy", !.todo = u, !.recs = u, !.acked = acked, !.links = L]
          BY <5>3 DEF TablesForm
        <5> QED  BY <5>1, <5>2, <5>3
      <4>3. CASE PolicySh \/ PolicySh_Rest
        BY <4>3 DEF PolicySh, PolicySh_Rest, TablesForm
      <4> QED  BY <2>3, <4>1, <4>2, <4>3
    <3> QED  BY <3>1, <3>2, AnswersStay DEF ReadsOf
  <2> QED  BY <1>2, <2>1, <2>2, <2>3 DEF Working
<1>3. CASE Ordwth
  <2>1. /\ UNCHANGED <<dec, ordwth2, inb, outb, sqls>> /\ DOMAIN ordwth = 1..Len(ordwth) /\ Len(ordwth) \in Nat
        /\ DOMAIN ordwth' = 1..(Len(ordwth) + 1) /\ \A i \in DOMAIN ordwth : ordwth'[i] = ordwth[i]
        /\ ordwth'[Len(ordwth) + 1].reads = 0
    BY <1>3, OrderWritten DEF bufVars
  <2>2. \A r \in Nat \ {0} : ReadsOf(r)' = ReadsOf(r)
    <3> TAKE r \in Nat \ {0}
    <3>1. r \in DOMAIN ordwth' <=> r \in DOMAIN ordwth \/ r = Len(ordwth) + 1
      BY <2>1
    <3> QED  BY <2>1, <3>1 DEF ReadsOf
  <2> QED  BY <2>1, <2>2, AnswersStay
<1>4. CASE Restart
  BY <1>4, LostAnswers DEF Restart
<1> QED  BY <1>1, <1>2, <1>3, <1>4, WorkersFrame

LEMMA AnsweredOnce ==
    ASSUME TablesForm, AnswersForm, NEW r \in DOMAIN ordwth
    PROVE  Cardinality({i \in DOMAIN ordwth2 : ordwth2[i].rec = r}) <= ordwth[r].reads
<1>1. r \in Nat \ {0} /\ ReadsOf(r) = ordwth[r].reads
  BY ReadsAre DEF ReadsOf
<1>2. \A i \in DOMAIN ordwth2 : ordwth2[i] \in TableRow
  BY DEF TablesForm
<1>3. {i \in DOMAIN ordwth2 : ordwth2[i].rec = r} = Hits(ordwth2, RowsAbout(r))
  BY <1>2 DEF Hits, RowsAbout
<1>4. /\ Count(ordwth2, RowsAbout(r)) \in Nat /\ Count(sqls, SqlsAbout(r)) \in Nat /\ Count(outb, AnswersAbout(r)) \in Nat
      /\ Count(inb, Unanswered(r)) \in Nat /\ Count(dec.vec, Unanswered(r)) \in Nat /\ ReadsOf(r) \in Nat
  BY CountsAre
<1>5. AnswersOf(r) <= ReadsOf(r)
  BY <1>1 DEF AnswersForm
<1>6. Count(ordwth2, RowsAbout(r)) <= ReadsOf(r)
  BY <1>4, <1>5 DEF AnswersOf
<1> QED  BY <1>1, <1>3, <1>6 DEF Count

-----------------------------------------------------------------------------
(* Versions on the way from the web server                                 *)

\* N says which versions a message has: those in the channel rise.
Rising(q, N, low, high) ==
    \A i, j \in DOMAIN q : i <= j =>
      \A a \in N[q[i]], b \in N[q[j]] : low <= a /\ a <= b /\ b <= high

LEMMA RisingTail ==
    ASSUME NEW N \in [FromServer -> SUBSET Nat], NEW q \in Seq(FromServer), q # <<>>, NEW low \in Nat, NEW high \in Nat,
           Rising(q, N, low, high)
    PROVE  /\ Rising(Tail(q), N, low, high)
           /\ \A a \in N[q[1]] : /\ a \in Nat /\ low <= a /\ a <= high /\ Rising(Tail(q), N, a, high)
                                 /\ \A b \in N[q[1]] : a = b
<1> DEFINE t == Tail(q)
<1>1. /\ DOMAIN q = 1..Len(q) /\ Len(q) \in Nat /\ Len(q) # 0 /\ DOMAIN t = 1..(Len(q) - 1)
      /\ \A i \in DOMAIN t : t[i] = q[i + 1] /\ i + 1 \in DOMAIN q
      /\ \A i \in DOMAIN q : q[i] \in FromServer
  OBVIOUS
<1>2. \A i \in DOMAIN q : \A a \in N[q[i]] : a \in Nat
  BY <1>1
<1> HIDE DEF t
<1>3. Rising(t, N, low, high)
  <2> SUFFICES ASSUME NEW i \in DOMAIN t, NEW j \in DOMAIN t, i <= j, NEW a \in N[t[i]], NEW b \in N[t[j]]
               PROVE  low <= a /\ a <= b /\ b <= high
    BY DEF Rising
  <2>1. i + 1 <= j + 1
    BY <1>1
  <2> QED  BY <1>1, <2>1 DEF Rising
<1>4. ASSUME NEW a \in N[q[1]] PROVE a \in Nat /\ low <= a /\ a <= high /\ Rising(t, N, a, high)
  <2>1. 1 \in DOMAIN q
    BY <1>1
  <2>2. a \in Nat /\ low <= a /\ a <= high
    BY <1>2, <2>1 DEF Rising
  <2>3. ASSUME NEW i \in DOMAIN t, NEW j \in DOMAIN t, i <= j, NEW c \in N[t[i]], NEW d \in N[t[j]]
        PROVE  a <= c /\ c <= d /\ d <= high
    <3>1. 1 <= i + 1 /\ i + 1 <= j + 1
      BY <1>1, <2>3
    <3>2. c \in N[q[i + 1]] /\ d \in N[q[j + 1]] /\ i + 1 \in DOMAIN q /\ j + 1 \in DOMAIN q
      BY <1>1, <2>3
    <3> QED  BY <2>1, <3>1, <3>2 DEF Rising
  <2> QED  BY <2>2, <2>3 DEF Rising
<1>5. ASSUME NEW a \in N[q[1]], NEW b \in N[q[1]] PROVE a = b
  <2>1. 1 \in DOMAIN q /\ 1 <= 1
    BY <1>1
  <2>2. a <= b /\ b <= a
    BY <2>1 DEF Rising
  <2> QED  BY <1>2, <2>1, <2>2
<1> QED  BY <1>3, <1>4, <1>5 DEF t

LEMMA RisingWider ==
    ASSUME NEW N \in [FromServer -> SUBSET Nat], NEW q \in Seq(FromServer), NEW low \in Nat, NEW high \in Nat, NEW high2 \in Nat,
           Rising(q, N, low, high), high <= high2
    PROVE  Rising(q, N, low, high2)
<1> SUFFICES ASSUME NEW i \in DOMAIN q, NEW j \in DOMAIN q, i <= j, NEW a \in N[q[i]], NEW b \in N[q[j]]
             PROVE  low <= a /\ a <= b /\ b <= high2
  BY DEF Rising
<1>1. low <= a /\ a <= b /\ b <= high
  BY DEF Rising
<1>2. b \in Nat
  <2>1. q[j] \in FromServer
    OBVIOUS
  <2> QED  BY <2>1
<1> QED  BY <1>1, <1>2

LEMMA RisingAppend ==
    ASSUME NEW N \in [FromServer -> SUBSET Nat], NEW q \in Seq(FromServer), NEW low \in Nat, NEW high \in Nat, NEW high2 \in Nat,
           Rising(q, N, low, high), low <= high, high <= high2, NEW m \in FromServer, \A a \in N[m] : a = high2
    PROVE  Rising(Append(q, m), N, low, high2)
<1> DEFINE u == Append(q, m)
           n == Len(q)
<1>1. /\ n \in Nat /\ DOMAIN q = 1..n /\ DOMAIN u = 1..(n + 1) /\ u[n + 1] = m
      /\ \A i \in 1..n : u[i] = q[i] /\ q[i] \in FromServer
  BY AppendProperties
<1>2. \A i \in DOMAIN q : \A a \in N[q[i]] : a \in Nat /\ low <= a /\ a <= high
  <2> TAKE i \in DOMAIN q
  <2> TAKE a \in N[q[i]]
  <2>1. i <= i /\ a \in Nat
    BY <1>1
  <2> QED  BY <2>1 DEF Rising
<1> HIDE DEF u, n
<1> SUFFICES ASSUME NEW i \in DOMAIN u, NEW j \in DOMAIN u, i <= j, NEW a \in N[u[i]], NEW b \in N[u[j]]
             PROVE  low <= a /\ a <= b /\ b <= high2
  BY DEF Rising, u
<1>3. CASE j \in 1..n
  <2>1. i \in 1..n /\ a \in N[q[i]] /\ b \in N[q[j]]
    BY <1>1, <1>3
  <2>2. low <= a /\ a <= b /\ b <= high
    BY <1>1, <1>3, <2>1 DEF Rising
  <2> QED  BY <1>1, <1>2, <1>3, <2>1, <2>2
<1>4. CASE j = n + 1
  <2>1. b = high2
    BY <1>1, <1>4
  <2>2. CASE i = n + 1
    <3>1. a = high2
      BY <1>1, <2>2
    <3> QED  BY <2>1, <3>1
  <2>3. CASE i \in 1..n
    <3>1. a \in Nat /\ low <= a /\ a <= high
      BY <1>1, <1>2, <2>3
    <3> QED  BY <2>1, <3>1
  <2> QED  BY <1>1, <2>2, <2>3
<1> QED  BY <1>1, <1>3, <1>4

\* What the web server says is what it knows then.
UpToDate(m) ==
    /\ m.type = "strategy" /\ m.who = "sh" => m.ver = srv'.pol["sh"]
    /\ m.type = "param" => m.pol["sh"] = srv'.pol["sh"] /\ m.sh = Times(ShKey)
    /\ m.type = "links" => m.times = Times(m.key)
    /\ m.type = "rules" => \A k \in DOMAIN m.docs : m.docs[k].ver = srv'.ver[m.docs[k].rule]
Grows == (\A r \in Rules : srv.ver[r] <= srv'.ver[r]) /\ srv.pol["sh"] <= srv'.pol["sh"]

LEMMA ServerIs ==
    WireForm => /\ srv \in Server /\ srv.ver \in [Rules -> 1..MaxVer] /\ srv.pol \in [Parties -> Nat] /\ srv.pol["sh"] \in Nat
                /\ \A r \in Rules : srv.ver[r] \in Nat
<1> SUFFICES ASSUME WireForm
             PROVE  /\ srv \in Server /\ srv.ver \in [Rules -> 1..MaxVer] /\ srv.pol \in [Parties -> Nat] /\ srv.pol["sh"] \in Nat
                    /\ \A r \in Rules : srv.ver[r] \in Nat
  OBVIOUS
<1>1. srv \in Server /\ srv.ver \in [Rules -> 1..MaxVer] /\ srv.pol \in [Parties -> Nat]
  BY DEF WireForm, Server
<1>2. 1..MaxVer \subseteq Nat /\ "sh" \in Parties
  BY ClienterAssumption DEF Parties
<1> QED  BY <1>1, <1>2

LEMMA ToldOne ==
    ASSUME WireForm, WireForm', NEW m, Tell(<<m>>)
    PROVE  UNCHANGED toCli \/ (m \in FromServer /\ toCli' = Append(toCli, m))
<1>1. CASE ~up
  BY <1>1 DEF Tell
<1>2. CASE up
  <2>1. toCli' = Append(toCli, m)
    <3>1. toCli \o <<m>> = Append(toCli, m)
      BY DEF WireForm
    <3> QED  BY <1>2, <3>1 DEF Tell
  <2>2. Len(toCli') = Len(toCli) + 1 /\ toCli'[Len(toCli) + 1] = m /\ Len(toCli) \in Nat
    BY <2>1 DEF WireForm
  <2>3. \A i \in 1..Len(toCli') : toCli'[i] \in FromServer
    BY DEF WireForm
  <2>4. Len(toCli) + 1 \in 1..Len(toCli')
    BY <2>2
  <2> QED  BY <2>1, <2>2, <2>3, <2>4
<1> QED  BY <1>1, <1>2

LEMMA ServerTells ==
    ASSUME WireForm, WireForm', EditRule \/ Relink \/ NewStrategy \/ NewEtf \/ Switch \/ RestartAsked
    PROVE  /\ Grows
           /\ UNCHANGED toCli \/ \E m \in FromServer : /\ toCli' = Append(toCli, m) /\ UpToDate(m)
                                                       /\ m.type \notin {"param", "rules"}
<1>0. srv \in Server /\ srv.ver \in [Rules -> 1..MaxVer] /\ srv.pol \in [Parties -> Nat] /\ srv.pol["sh"] \in Nat
  BY ServerIs
<1>a. \A r \in Rules : srv.ver[r] \in Nat
  BY ServerIs
<1>1. CASE EditRule
  <2>1. PICK r \in Rules :
        /\ srv.ver[r] < MaxVer /\ Change([srv EXCEPT !.ver[r] = @ + 1])
        /\ LET k == IF r \in ShRules THEN ShKey ELSE SzKey
           IN  Tell(IF r \in srv.link[k] THEN <<LinksMsg(k)>> ELSE <<>>)
    BY <1>1 DEF EditRule
  <2>2. srv'.pol = srv.pol /\ \A s \in Rules : srv'.ver[s] = IF s = r THEN srv.ver[r] + 1 ELSE srv.ver[s]
    BY <1>0, <2>1 DEF Change, Server
  <2>3. Grows
    BY <1>0, <1>a, <2>2 DEF Grows
  <2> DEFINE k == IF r \in ShRules THEN ShKey ELSE SzKey
  <2>4. Tell(<<LinksMsg(k)>>) \/ Tell(<<>>)
    BY <2>1
  <2>5. Tell(<<>>) => UNCHANGED toCli
    BY DEF Tell, WireForm
  <2>6. UpToDate(LinksMsg(k)) /\ LinksMsg(k).type = "links"
    BY DEF UpToDate, LinksMsg
  <2> HIDE DEF k
  <2>7. Tell(<<LinksMsg(k)>>) => UNCHANGED toCli \/ (LinksMsg(k) \in FromServer /\ toCli' = Append(toCli, LinksMsg(k)))
    BY ToldOne
  <2> QED  BY <2>3, <2>4, <2>5, <2>6, <2>7
<1>2. CASE Relink
  <2>1. PICK k, R : k \in {ShKey, SzKey} /\ Change([srv EXCEPT !.link[k] = R]) /\ Tell(<<LinksMsg(k)>>)
    BY <1>2 DEF Relink
  <2>2. srv'.pol = srv.pol /\ srv'.ver = srv.ver
    BY <1>0, <2>1 DEF Change, Server
  <2>3. Grows
    BY <1>0, <1>a, <2>2 DEF Grows
  <2>4. UpToDate(LinksMsg(k)) /\ LinksMsg(k).type = "links"
    BY DEF UpToDate, LinksMsg
  <2> QED  BY <2>1, <2>3, <2>4, ToldOne
<1>3. CASE NewStrategy
  <2>1. PICK who \in Parties, bad \in BOOLEAN :
        /\ Change([srv EXCEPT !.pol[who] = @ + 1])
        /\ Tell(<<[type |-> "strategy", who |-> who, ver |-> srv.pol[who] + 1, bad |-> bad]>>)
    BY <1>3 DEF NewStrategy
  <2> DEFINE m == [type |-> "strategy", who |-> who, ver |-> srv.pol[who] + 1, bad |-> bad]
  <2>2. srv'.ver = srv.ver /\ \A p \in Parties : srv'.pol[p] = IF p = who THEN srv.pol[who] + 1 ELSE srv.pol[p]
    BY <1>0, <2>1 DEF Change, Server
  <2>3. Grows
    BY <1>0, <1>a, <2>2 DEF Grows, Parties
  <2>4. UpToDate(m) /\ m.type = "strategy"
    BY <2>2 DEF UpToDate, Parties
  <2>5. Tell(<<m>>)
    BY <2>1
  <2> HIDE DEF m
  <2> QED  BY <2>3, <2>4, <2>5, ToldOne
<1>4. CASE NewEtf
  <2>1. PICK bad :
        /\ Change([srv EXCEPT !.etf = @ + 1])
        /\ Tell(<<[type |-> "etf", doc |-> [info |-> Yuan(srv.etf + 1), comps |-> Yuan(srv.etf + 1), bad |-> bad]]>>)
    BY <1>4 DEF NewEtf
  <2> DEFINE m == [type |-> "etf", doc |-> [info |-> Yuan(srv.etf + 1), comps |-> Yuan(srv.etf + 1), bad |-> bad]]
  <2>2. srv'.ver = srv.ver /\ srv'.pol = srv.pol
    BY <1>0, <2>1 DEF Change, Server
  <2>3. Grows
    BY <1>0, <1>a, <2>2 DEF Grows
  <2>4. UpToDate(m) /\ m.type = "etf"
    BY DEF UpToDate
  <2>5. Tell(<<m>>)
    BY <2>1
  <2> HIDE DEF m
  <2> QED  BY <2>3, <2>4, <2>5, ToldOne
<1>5. CASE Switch \/ RestartAsked
  <2>1. PICK m : Change(srv) /\ Tell(<<m>>) /\ m.type \in {"switch", "restart"}
    <3>1. CASE Switch
      <4>1. PICK v : Change(srv) /\ Tell(<<[type |-> "switch", to |-> v]>>)
        BY <3>1 DEF Switch
      <4> QED  BY <4>1
    <3>2. CASE RestartAsked
      BY <3>2 DEF RestartAsked
    <3> QED  BY <1>5, <3>1, <3>2
  <2>2. srv'.ver = srv.ver /\ srv'.pol = srv.pol
    BY <1>0, <2>1 DEF Change, Server
  <2>3. Grows
    BY <1>0, <1>a, <2>2 DEF Grows
  <2>4. UpToDate(m)
    BY <2>1 DEF UpToDate
  <2> QED  BY <2>1, <2>3, <2>4, ToldOne
<1> QED  BY <1>1, <1>2, <1>3, <1>4, <1>5

LEMMA ServerAnswers ==
    ASSUME WireForm, WireForm', Answer
    PROVE  /\ Grows /\ toSrv # <<>> /\ toSrv' = Tail(toSrv)
           /\ \E m \in FromServer :
                /\ toCli' = Append(toCli, m) /\ UpToDate(m) /\ m.type = toSrv[1].type
                /\ m.type = "rules" => \A k \in DOMAIN toSrv[1].rules : \E i \in DOMAIN m.docs : m.docs[i].rule = toSrv[1].rules[k]
<1> DEFINE q == toSrv[1]
<1>0. srv \in Server /\ srv.pol["sh"] \in Nat
  BY ServerIs
<1>a. \A r \in Rules : srv.ver[r] \in Nat
  BY ServerIs
<1>1. q \in ToServer /\ toSrv # <<>> /\ toSrv' = Tail(toSrv)
  BY DEF WireForm, Answer
<1>2. srv'.ver = srv.ver /\ srv'.pol = srv.pol
  BY <1>0 DEF Answer, Server
<1>3. Grows
  BY <1>0, <1>a, <1>2 DEF Grows
<1>4. ASSUME NEW m, toCli' = Append(toCli, m) PROVE m \in FromServer
  <2>1. Len(toCli') = Len(toCli) + 1 /\ toCli'[Len(toCli) + 1] = m /\ Len(toCli) \in Nat
    BY <1>4 DEF WireForm
  <2>2. \A i \in 1..Len(toCli') : toCli'[i] \in FromServer
    BY DEF WireForm
  <2>3. Len(toCli) + 1 \in 1..Len(toCli')
    BY <2>1
  <2> QED  BY <2>1, <2>2, <2>3
<1>5. CASE q.type = "register"
  <2> DEFINE m == [type |-> "register", id |-> srv.ids + 1]
  <2>1. toCli' = Append(toCli, m)
    BY <1>5 DEF Answer
  <2>2. UpToDate(m) /\ m.type = "register"
    BY DEF UpToDate
  <2> HIDE DEF m
  <2> QED  BY <1>1, <1>3, <1>4, <1>5, <2>1, <2>2
<1>6. CASE q.type = "param"
  <2>1. PICK bad : toCli' = Append(toCli, [type |-> "param", bad |-> bad, pol |-> srv.pol, sh |-> Times(ShKey), sz |-> Times(SzKey)])
    BY <1>6 DEF Answer
  <2> DEFINE m == [type |-> "param", bad |-> bad, pol |-> srv.pol, sh |-> Times(ShKey), sz |-> Times(SzKey)]
  <2>2. UpToDate(m) /\ m.type = "param"
    BY <1>2 DEF UpToDate
  <2>3. toCli' = Append(toCli, m)
    BY <2>1
  <2> HIDE DEF m
  <2> QED  BY <1>1, <1>3, <1>4, <1>6, <2>2, <2>3
<1>7. CASE q.type \notin {"register", "param"}
  <2> DEFINE m == [type |-> "rules", docs |-> [i \in DOMAIN q.rules |-> VerOf(q.rules[i])]]
  <2>1. toCli' = Append(toCli, m)
    BY <1>7 DEF Answer
  <2>2. UpToDate(m) /\ m.type = "rules"
    BY <1>2 DEF UpToDate, VerOf
  <2>3. \A k \in DOMAIN q.rules : k \in DOMAIN m.docs /\ m.docs[k].rule = q.rules[k]
    BY DEF VerOf
  <2>4. q.type = "rules"
    BY <1>1, <1>7 DEF ToServer
  <2> HIDE DEF m
  <2> QED  BY <1>1, <1>3, <1>4, <2>1, <2>2, <2>3, <2>4
<1> QED  BY <1>5, <1>6, <1>7

\* The channel: a step empties it, takes its first message or adds one that
\* is as the web server knows it.
LEMMA ChannelStep ==
    ASSUME WireForm, WireForm', [GatewayNext]_gatewayVars
    PROVE  /\ Grows
           /\ \/ UNCHANGED toCli \/ toCli' = <<>>
              \/ toCli # <<>> /\ toCli' = Tail(toCli)
              \/ \E m \in FromServer : toCli' = Append(toCli, m) /\ UpToDate(m)
<1>0. UNCHANGED srv => Grows
  BY ServerIs DEF Grows
<1>1. CASE Start
  BY <1>0, <1>1, StartFrame DEF StartLeaves
<1>2. CASE Client
  <2>1. toCli' = toCli \/ (toCli # <<>> /\ toCli' = Tail(toCli))
    BY <1>2, ClientFrame DEF RegisterReport, ParamReport, SwitchMode, ChangeLinkStrategy, ChangeLinkRules, ClearLinkRules, InsertLinkRule,
     LinkRulesChanged, RejectLinkRules, MatchRuleMsg, Etfinfo, Takes, Handles
  <2> QED  BY <1>0, <1>2, <2>1, ClientFrame
<1>3. CASE Environment
  <2>1. CASE UNCHANGED <<srv, cliVars>>
    BY <1>0, <2>1 DEF cliVars
  <2>2. CASE WebServer(pc = "0" /\ starts > 1)
    BY <2>2, ServerTells, ServerAnswers DEF WebServer
  <2>3. CASE LoseConnection
    BY <1>0, <2>3 DEF LoseConnection
  <2> QED  BY <1>3, <2>1, <2>2, <2>3 DEF Environment
<1>4. CASE Shanghai \/ UNCHANGED gatewayVars
  BY <1>0, <1>4 DEF Shanghai, gatewayVars, cliVars
<1>5. CASE RestartRequest
  BY <1>0, <1>5 DEF RestartRequest, Takes
<1>6. CASE Restart
  BY <1>0, <1>6 DEF Restart, CliLost
<1> QED  BY <1>1, <1>2, <1>3, <1>4, <1>5, <1>6 DEF GatewayNext

LEMMA RisingStep ==
    ASSUME WireForm, WireForm', [GatewayNext]_gatewayVars, NEW N \in [FromServer -> SUBSET Nat],
           NEW low \in Nat, NEW high \in Nat, NEW high2 \in Nat,
           Rising(toCli, N, low, high), low <= high, high <= high2, \A m \in FromServer : UpToDate(m) => \A a \in N[m] : a = high2
    PROVE  Rising(toCli', N, low, high2)
<1>0. toCli \in Seq(FromServer) /\ toCli' \in Seq(FromServer)
  BY DEF WireForm
<1>1. CASE UNCHANGED toCli
  BY <1>0, <1>1, RisingWider
<1>2. CASE toCli' = <<>>
  BY <1>2 DEF Rising
<1>3. CASE toCli # <<>> /\ toCli' = Tail(toCli)
  <2>1. Rising(toCli', N, low, high)
    BY <1>0, <1>3, RisingTail
  <2> QED  BY <1>0, <2>1, RisingWider
<1>4. CASE \E m \in FromServer : toCli' = Append(toCli, m) /\ UpToDate(m)
  <2>1. PICK m \in FromServer : toCli' = Append(toCli, m) /\ UpToDate(m)
    BY <1>4
  <2> QED  BY <1>0, <2>1, RisingAppend
<1> QED  BY <1>1, <1>2, <1>3, <1>4, ChannelStep

-----------------------------------------------------------------------------
(* The strategy of the Shanghai connection                                 *)

\* Strategies come in their order, and the one that is confirmed last is
\* set; one that is set at all stays for good.
PolicyNums == [m \in FromServer |-> IF m.type = "strategy" /\ m.who = "sh" THEN {m.ver}
                                    ELSE IF m.type = "param" THEN {m.pol["sh"]} ELSE {}]
GivingSh == rcv.msg.type = "strategy" /\ rcv.msg.who = "sh"
LastPolicy == IF GivingSh THEN rcv.msg.ver ELSE acked
GivenForm ==
    /\ LastPolicy \in Nat /\ acked <= LastPolicy /\ LastPolicy <= srv.pol["sh"]
    /\ Rising(toCli, PolicyNums, LastPolicy, srv.pol["sh"])
    /\ GivingSh /\ ~rcv.msg.bad => polSh = Cell(rcv.msg.ver)
    /\ (polSh = NoPolicy /\ acked = 0) \/ \E n \in Nat : polSh = Cell(n) /\ acked <= n
    /\ polSz.seat # NoPolicy => polSz.self # NoPolicy

LEMMA PolicyNumsIs ==
    /\ PolicyNums \in [FromServer -> SUBSET Nat]
    /\ \A m \in FromServer : m.type = "strategy" /\ m.who = "sh" => PolicyNums[m] = {m.ver}
    /\ \A m \in FromServer : m.type = "param" => PolicyNums[m] = {m.pol["sh"]}
<1>1. \A m \in FromServer : m.type = "param" => m.pol["sh"] \in Nat
  <2> TAKE m \in FromServer
  <2> HAVE m.type = "param"
  <2>1. m.pol \in [Parties -> Nat] /\ "sh" \in Parties
    BY ParamMsgIs DEF Parties
  <2> QED  BY <2>1
<1>2. \A m \in FromServer : m.type = "strategy" => m.ver \in Nat
  BY StrategyMsgIs
<1> QED  BY <1>1, <1>2 DEF PolicyNums

LEMMA PolicyCurrent ==
    ASSUME NEW m \in FromServer, UpToDate(m) PROVE \A a \in PolicyNums[m] : a = srv'.pol["sh"]
BY DEF UpToDate, PolicyNums

LEMMA CellIs == \A n \in Nat : Cell(n) # NoPolicy /\ Cell(n).match = n /\ Cell(n).check = n
<1> TAKE n \in Nat
<1>1. Cell(n) \in [match : Nat, check : Nat]
  BY DEF Cell
<1> QED  BY <1>1, PolicyAssumption DEF Cell

LEMMA GivenInit == GatewayInit => GivenForm
<1> SUFFICES ASSUME GatewayInit PROVE GivenForm
  OBVIOUS
<1>1. rcv.msg.type = "none" /\ acked = 0 /\ toCli = <<>> /\ polSh = NoPolicy /\ polSz.seat = NoPolicy /\ srv.pol["sh"] = 0
  BY DEF GatewayInit, CliInit, PolicyInit, Free, NoMsg, Parties
<1> QED  BY <1>1 DEF GivenForm, GivingSh, LastPolicy, Rising

LEMMA RisingFrom ==
    ASSUME NEW N \in [FromServer -> SUBSET Nat], NEW q \in Seq(FromServer), NEW low \in Nat, NEW low2 \in Nat, NEW high,
           Rising(q, N, low, high), low2 <= low
    PROVE  Rising(q, N, low2, high)
<1> SUFFICES ASSUME NEW i \in DOMAIN q, NEW j \in DOMAIN q, i <= j, NEW a \in N[q[i]], NEW b \in N[q[j]]
             PROVE  low2 <= a /\ a <= b /\ b <= high
  BY DEF Rising
<1>1. low <= a /\ a <= b /\ b <= high
  BY DEF Rising
<1>2. a \in Nat
  <2>1. q[i] \in FromServer
    OBVIOUS
  <2> QED  BY <2>1
<1> QED  BY <1>1, <1>2

LEMMA GivenStays ==
    ASSUME WireForm, WireForm', GivenForm, [GatewayNext]_gatewayVars, UNCHANGED <<acked, polSh, polSz>>,
           UNCHANGED rcv \/ (~GivingSh /\ ~GivingSh')
    PROVE  GivenForm'
<1>1. UNCHANGED <<LastPolicy, GivingSh>> /\ (GivingSh => UNCHANGED rcv)
  BY DEF LastPolicy, GivingSh
<1>2. Grows /\ srv.pol["sh"] \in Nat /\ srv'.pol["sh"] \in Nat
  <2>1. srv'.pol \in [Parties -> Nat] /\ "sh" \in Parties
    BY DEF WireForm, Server, Parties
  <2> QED  BY <2>1, ServerIs, ChannelStep
<1>3. Rising(toCli', PolicyNums, LastPolicy, srv'.pol["sh"])
  BY <1>2, RisingStep, PolicyNumsIs, PolicyCurrent DEF GivenForm, Grows
<1>4. Rising(toCli, PolicyNums, LastPolicy, srv.pol["sh"])'
  BY <1>1, <1>3
<1>5. LastPolicy \in Nat /\ LastPolicy <= srv'.pol["sh"]
  BY <1>2 DEF GivenForm, Grows
<1> QED  BY <1>1, <1>4, <1>5 DEF GivenForm, Cell

LEMMA GivenClient ==
    ASSUME WireForm, WireForm', HandForm, GivenForm, [GatewayNext]_gatewayVars, Client
    PROVE  GivenForm' /\ acked <= acked'
<1>0. UNCHANGED srv /\ srv.pol["sh"] \in Nat /\ acked \in Nat /\ toCli \in Seq(FromServer)
  BY ServerIs, ClientFrame DEF HandForm, WireForm
<1>f. rcv = Free => ~GivingSh /\ LastPolicy = acked
  BY DEF Free, NoMsg, GivingSh, LastPolicy
<1>s. UNCHANGED <<acked, polSh, polSz>> /\ (UNCHANGED rcv \/ (~GivingSh /\ ~GivingSh')) => GivenForm' /\ acked <= acked'
  BY <1>0, GivenStays
<1>1. CASE RegisterReport
  BY <1>1, <1>s DEF RegisterReport, polVars
<1>2. CASE ParamReport
  <2> DEFINE m == toCli[1]
             n == m.pol["sh"]
  <2>1. toCli # <<>> /\ toCli' = Tail(toCli) /\ m \in FromServer /\ m.type = "param" /\ UNCHANGED rcv /\ rcv = Free
    BY <1>0, <1>2 DEF ParamReport, Takes, Msg
  <2>2. CASE m.bad # "none"
    BY <1>2, <1>s, <2>1, <2>2 DEF ParamReport, Msg
  <2>3. CASE m.bad = "none"
    <3>1. /\ polSh' = (IF n = 0 THEN polSh ELSE Cell(n)) /\ acked' = n
          /\ polSz'.self = (IF m.pol["sz"] # 0 THEN Cell(m.pol["sz"]) ELSE GivenPolicy(polSz.self, m.pol["seat"]))
          /\ polSz'.seat = GivenPolicy(polSz.seat, m.pol["seat"])
      BY <1>2, <2>3 DEF ParamReport, GivenPolicy, GivenPolicies, Msg
    <3>2. m.pol \in [Parties -> Nat] /\ n \in PolicyNums[m] /\ n \in Nat /\ m.pol["sz"] \in Nat /\ m.pol["seat"] \in Nat
      BY <2>1, ParamMsgIs, PolicyNumsIs DEF Parties
    <3>3. Rising(toCli, PolicyNums, acked, srv.pol["sh"])
      BY <1>f, <2>1 DEF GivenForm
    <3>4. acked <= n /\ n <= srv.pol["sh"] /\ Rising(toCli', PolicyNums, n, srv.pol["sh"])
      <4> HIDE DEF n
      <4> QED  BY <1>0, <2>1, <3>2, <3>3, RisingTail, PolicyNumsIs
    <3>5. ~GivingSh'
      BY <2>1 DEF Free, NoMsg, GivingSh
    <3>6. LastPolicy' = n
      BY <3>1, <3>5 DEF LastPolicy
    <3> HIDE DEF n
    <3>7. (polSh' = NoPolicy /\ acked' = 0) \/ \E k \in Nat : polSh' = Cell(k) /\ acked' <= k
      <4>1. CASE n = 0
        <5>1. acked = 0 /\ acked' = 0 /\ polSh' = polSh
          BY <1>0, <3>1, <3>4, <4>1
        <5> QED  BY <5>1 DEF GivenForm
      <4>2. CASE n # 0
        BY <3>1, <3>2, <4>2
      <4> QED  BY <4>1, <4>2
    <3>8. polSz'.seat # NoPolicy => polSz'.self # NoPolicy
      BY <3>1, <3>2, CellIs DEF GivenForm, GivenPolicy
    <3>9. Rising(toCli, PolicyNums, LastPolicy, srv.pol["sh"])'
      BY <1>0, <3>4, <3>6
    <3> QED  BY <1>0, <3>1, <3>2, <3>4, <3>5, <3>6, <3>7, <3>8, <3>9 DEF GivenForm, Cell
  <2> QED  BY <2>2, <2>3
<1>3. CASE SwitchMode(Normal)
  <2>1. ~GivingSh /\ ~GivingSh' /\ UNCHANGED <<acked, polSh, polSz>>
    BY <1>3, <1>f DEF SwitchMode, Takes, Handles, GoesOn, Done, Free, NoMsg, GivingSh, Msg
  <2> QED  BY <1>s, <2>1
<1>4. CASE ChangeLinkRules \/ MatchRuleMsg(Normal) \/ Etfinfo(Normal)
  <2>1. UNCHANGED <<acked, polSh, polSz>>
    BY <1>4 DEF ChangeLinkRules, MatchRuleMsg, Etfinfo, polVars
  <2>2. ~GivingSh
    BY <1>4, <1>f DEF ChangeLinkRules, ClearLinkRules, InsertLinkRule, LinkRulesChanged, RejectLinkRules, MatchRuleMsg, Etfinfo, Takes, Handles, GivingSh
  <2>3. UNCHANGED rcv \/ rcv' = Free \/ rcv'.msg.type \in {"links", "rules", "etf"}
    <3>1. CASE ChangeLinkRules
      BY <3>1 DEF ChangeLinkRules, ClearLinkRules, InsertLinkRule, LinkRulesChanged, RejectLinkRules, Takes, Handles, Done, Msg, HandForm
    <3>2. CASE MatchRuleMsg(Normal) \/ Etfinfo(Normal)
      BY <3>2 DEF MatchRuleMsg, Etfinfo, Takes, Handles, Done, GoesOn, Free, Msg
    <3> QED  BY <1>4, <3>1, <3>2
  <2>4. UNCHANGED rcv \/ ~GivingSh'
    BY <2>3 DEF GivingSh, Free, NoMsg
  <2> QED  BY <1>s, <2>1, <2>2, <2>4
<1>5. CASE ChangeLinkStrategy /\ Takes("strategy")
  <2> DEFINE m == toCli[1]
  <2>1. /\ toCli # <<>> /\ toCli' = Tail(toCli) /\ m \in FromServer /\ m.type = "strategy" /\ rcv = Free
        /\ m.who \in Parties /\ m.ver \in Nat
    BY <1>0, <1>5, StrategyMsgIs DEF Takes, Msg
  <2>2. rcv'.msg = m /\ UNCHANGED acked /\ IF ~m.bad THEN SetStrategy(m.who, m.ver) ELSE UNCHANGED polVars
    <3>1. ~Handles("strategy")
      BY <2>1 DEF Handles, Free, NoMsg
    <3> QED  BY <1>5, <3>1 DEF ChangeLinkStrategy, GoesOn, Free, Wellformed, Msg
  <2>3. Rising(toCli, PolicyNums, acked, srv.pol["sh"])
    BY <1>f, <2>1 DEF GivenForm
  <2>4. Rising(Tail(toCli), PolicyNums, acked, srv.pol["sh"])
    BY <1>0, <2>1, <2>3, RisingTail, PolicyNumsIs
  <2>5. CASE m.who = "sh"
    <3>1. m.ver \in PolicyNums[m]
      BY <2>1, <2>5, PolicyNumsIs
    <3>2. acked <= m.ver /\ m.ver <= srv.pol["sh"] /\ Rising(toCli', PolicyNums, m.ver, srv.pol["sh"])
      BY <1>0, <2>1, <2>3, <3>1, RisingTail, PolicyNumsIs
    <3>3. GivingSh' /\ LastPolicy' = m.ver
      BY <2>1, <2>2, <2>5 DEF GivingSh, LastPolicy
    <3>4. Rising(toCli, PolicyNums, LastPolicy, srv.pol["sh"])'
      BY <1>0, <3>2, <3>3
    <3>5. CASE ~m.bad
      <4>1. polSh' = Cell(m.ver) /\ UNCHANGED polSz
        BY <2>2, <2>5, <3>5 DEF SetStrategy, Set_Sh
      <4> HIDE DEF m
      <4> QED  BY <1>0, <2>1, <2>2, <3>2, <3>3, <3>4, <4>1 DEF GivenForm, Cell
    <3>6. CASE m.bad
      <4>1. UNCHANGED <<polSh, polSz>> /\ rcv'.msg.bad
        BY <2>2, <2>5, <3>6 DEF polVars
      <4> HIDE DEF m
      <4> QED  BY <1>0, <2>1, <2>2, <3>2, <3>3, <3>4, <4>1 DEF GivenForm, Cell
    <3> QED  BY <3>5, <3>6
  <2>6. CASE m.who # "sh"
    <3>1. ~GivingSh' /\ LastPolicy' = acked
      BY <2>2, <2>6 DEF GivingSh, LastPolicy
    <3>2. UNCHANGED polSh /\ (polSz'.seat # NoPolicy => polSz'.self # NoPolicy)
      <4>1. CASE m.bad
        BY <2>2, <4>1 DEF polVars, GivenForm
      <4>2. CASE ~m.bad
        <5>1. UNCHANGED polSh /\ polSz' \in {[polSz EXCEPT !.self = Cell(m.ver)],
                   [self |-> IF polSz.self = NoPolicy THEN Cell(m.ver) ELSE polSz.self, seat |-> Cell(m.ver)]}
          BY <2>2, <2>6, <4>2 DEF SetStrategy, Set_Sz_Conn, Set_Sz_Seat
        <5>2. Cell(m.ver) # NoPolicy
          BY <2>1, CellIs
        <5>3. CASE polSz' = [self |-> IF polSz.self = NoPolicy THEN Cell(m.ver) ELSE polSz.self, seat |-> Cell(m.ver)]
          BY <5>1, <5>2, <5>3
        <5>4. CASE polSz' = [polSz EXCEPT !.self = Cell(m.ver)]
          <6>1. polSz'.seat = polSz.seat /\ (polSz.self # NoPolicy => polSz'.self # NoPolicy)
            BY <5>2, <5>4
          <6> QED  BY <5>1, <6>1 DEF GivenForm
        <5> QED  BY <5>1, <5>3, <5>4
      <4> QED  BY <4>1, <4>2
    <3>3. acked <= srv.pol["sh"]
      BY <1>f, <2>1 DEF GivenForm
    <3>4. Rising(toCli, PolicyNums, LastPolicy, srv.pol["sh"])'
      BY <1>0, <2>1, <2>4, <3>1
    <3> QED  BY <1>0, <2>2, <3>1, <3>2, <3>3, <3>4 DEF GivenForm, Cell
  <2> QED  BY <2>5, <2>6
<1>6. CASE ChangeLinkStrategy /\ Handles("strategy")
  <2>1. /\ UNCHANGED <<toCli, polVars>> /\ rcv' = Free
        /\ acked' = IF GivingSh /\ ~rcv.msg.bad THEN rcv.msg.ver ELSE acked
    <3>1. ~Takes("strategy")
      BY <1>6 DEF Takes, Handles, Free, NoMsg
    <3> QED  BY <1>6, <3>1 DEF ChangeLinkStrategy, Handles, Done, Wellformed, GivingSh
  <2>2. ~GivingSh' /\ LastPolicy' = acked'
    BY <2>1 DEF Free, NoMsg, GivingSh, LastPolicy
  <2>3. acked' \in Nat /\ acked <= acked' /\ acked' <= LastPolicy
    BY <1>0, <2>1 DEF GivenForm, LastPolicy
  <2>4. Rising(toCli, PolicyNums, acked', srv.pol["sh"])
    BY <1>0, <2>3, RisingFrom, PolicyNumsIs DEF GivenForm
  <2>5. Rising(toCli, PolicyNums, LastPolicy, srv.pol["sh"])'
    BY <1>0, <2>1, <2>2, <2>4
  <2>6. LastPolicy \in Nat /\ LastPolicy <= srv.pol["sh"]
    BY DEF GivenForm
  <2>7. (polSh = NoPolicy /\ acked' = 0) \/ \E n \in Nat : polSh = Cell(n) /\ acked' <= n
    <3>1. CASE GivingSh /\ ~rcv.msg.bad
      <4>1. polSh = Cell(rcv.msg.ver) /\ acked' = rcv.msg.ver
        BY <2>1, <3>1 DEF GivenForm
      <4> QED  BY <2>3, <4>1
    <3>2. CASE ~(GivingSh /\ ~rcv.msg.bad)
      BY <2>1, <3>2 DEF GivenForm
    <3> QED  BY <3>1, <3>2
  <2> QED  BY <1>0, <2>1, <2>2, <2>3, <2>5, <2>6, <2>7 DEF GivenForm, Cell, polVars
<1>7. CASE ChangeLinkStrategy
  BY <1>5, <1>6, <1>7 DEF ChangeLinkStrategy
<1> QED  BY <1>1, <1>2, <1>3, <1>4, <1>7, ClientFrame

LEMMA GivenStep ==
    ASSUME WireForm, WireForm', HandForm, GivenForm, [GatewayNext]_gatewayVars
    PROVE  GivenForm' /\ (acked <= acked' \/ Restart)
<1>0. acked \in Nat
  BY DEF HandForm
<1>1. CASE Start
  BY <1>0, <1>1, StartFrame, GivenStays DEF StartLeaves, polVars
<1>2. CASE Client
  BY <1>2, GivenClient
<1>3. CASE Environment
  <2>1. UNCHANGED <<acked, polSh, polSz, rcv>>
    BY <1>3 DEF Environment, WebServer, LoseConnection, cliVars, polVars
  <2> QED  BY <1>0, <2>1, GivenStays
<1>4. CASE Shanghai \/ RestartRequest \/ UNCHANGED gatewayVars
  BY <1>0, <1>4, GivenStays DEF Shanghai, RestartRequest, gatewayVars, cliVars, polVars
<1>5. CASE Restart
  <2>1. toCli' = <<>> /\ rcv' = Free /\ acked' = 0 /\ polSh' = NoPolicy /\ polSz'.seat = NoPolicy /\ UNCHANGED srv
    BY <1>5 DEF Restart, CliLost
  <2>2. ~GivingSh' /\ LastPolicy' = 0
    BY <2>1 DEF GivingSh, LastPolicy, Free, NoMsg
  <2>3. Rising(toCli, PolicyNums, LastPolicy, srv.pol["sh"])'
    BY <2>1 DEF Rising
  <2>4. srv.pol["sh"] \in Nat
    BY ServerIs
  <2> QED  BY <1>5, <2>1, <2>2, <2>3, <2>4 DEF GivenForm
<1> QED  BY <1>1, <1>2, <1>3, <1>4, <1>5 DEF GatewayNext

\* Orders that are read have a policy not older than the one confirmed when
\* their reading began.
DecForm ==
    /\ dec.acked <= acked
    /\ dec.pc \in {"policy2", "order", "push"} =>
         /\ dec.known => dec.pol.match = dec.pol.check /\ dec.pol.match >= dec.acked /\ dec.pc # "policy2"
         /\ dec.acked > 0 => dec.known

LEMMA DecInit == GatewayInit => DecForm
<1> SUFFICES ASSUME GatewayInit PROVE DecForm
  OBVIOUS
<1>1. dec = Waits /\ acked = 0
  BY DEF GatewayInit, ShInit, CliInit
<1> QED  BY <1>1 DEF DecForm, Waits

LEMMA DecWorks ==
    ASSUME TablesForm, HandForm, GivenForm, DecForm, Working, UNCHANGED <<acked, polSh, glob>>
    PROVE  DecForm'
<1>0. acked \in Nat /\ dec.acked \in Nat /\ dec.known \in BOOLEAN
  BY DEF HandForm, TablesForm
<1>1. CASE dec' = Waits
  BY <1>0, <1>1 DEF DecForm, Waits
<1>2. CASE /\ dec'.acked = dec.acked /\ dec'.pol = dec.pol /\ dec'.known = dec.known
           /\ dec'.pc \in {"policy2", "order", "push"} => dec.pc \in {"order", "push"} /\ dec'.pc # "policy2"
  BY <1>2 DEF DecForm
<1>3. CASE SelectOrders(acked) /\ dec' # Waits
  <2>1. dec'.acked = acked /\ dec'.pc = "policy"
    BY <1>3 DEF SelectOrders, D_Fails, TablesForm
  <2> QED  BY <1>0, <2>1 DEF DecForm
<1>4. CASE PolicySh
  <2>1. /\ dec'.acked = dec.acked /\ dec'.pc = (IF polSh = NoPolicy THEN "policy2" ELSE "order")
        /\ dec'.pol = Get_Sh /\ dec'.known = (polSh # NoPolicy)
    BY <1>4 DEF PolicySh, TablesForm
  <2>2. CASE polSh = NoPolicy
    <3>1. acked = 0
      <4>1. \A n \in Nat : Cell(n) # NoPolicy
        BY CellIs
      <4> QED  BY <2>2, <4>1 DEF GivenForm
    <3>2. dec'.known = FALSE /\ dec'.acked = dec.acked
      BY <2>1, <2>2
    <3>3. dec.acked = 0
      BY <1>0, <3>1 DEF DecForm
    <3> QED  BY <1>0, <3>1, <3>2, <3>3 DEF DecForm
  <2>3. CASE polSh # NoPolicy
    <3>1. PICK n \in Nat : polSh = Cell(n) /\ acked <= n
      BY <2>3 DEF GivenForm
    <3>2. Get_Sh = Cell(n)
      BY <2>3, <3>1 DEF Get_Sh
    <3>3. Cell(n).match = n /\ Cell(n).check = n
      BY CellIs
    <3>4. dec'.pol.match = n /\ dec'.pol.check = n /\ dec'.pc = "order" /\ dec'.acked = dec.acked
      BY <2>1, <2>3, <3>2, <3>3
    <3>5. dec'.known = TRUE
      BY <2>1, <2>3
    <3>6. dec.acked <= acked /\ dec.acked <= n
      BY <1>0, <3>1 DEF DecForm
    <3> QED  BY <1>0, <3>4, <3>5, <3>6 DEF DecForm
  <2> QED  BY <2>2, <2>3
<1>5. CASE PolicySh_Rest
  <2>1. dec.pc = "policy2" /\ dec'.acked = dec.acked /\ dec'.known = dec.known
    BY <1>5 DEF PolicySh_Rest, TablesForm
  <2> QED  BY <1>0, <2>1 DEF DecForm
<1>6. CASE GetSHCjbh \/ SetCjbh \/ GetSHRec_Num \/ SetRecNum
  <2>1. dec' = Waits \/ \E p \in BeforeRead : \E n : dec' = [dec EXCEPT !.pc = p, !.got = n]
    BY <1>6 DEF GetSHCjbh, SetCjbh, GetSHRec_Num, SetRecNum, D_Fails, BeforeRead
  <2>2. CASE \E p \in BeforeRead : \E n : dec' = [dec EXCEPT !.pc = p, !.got = n]
    BY <1>2, <2>2 DEF TablesForm, BeforeRead
  <2> QED  BY <1>1, <2>1, <2>2
<1>7. CASE SHOrderToFix(WebMan)
  <2> DEFINE o == Message(Reading, WebMan)
  <2>1. \/ dec' = [dec EXCEPT !.todo = Tail(@), !.vec = Append(@, o)]
        \/ dec' = [dec EXCEPT !.todo = Tail(@)]
    BY <1>7 DEF SHOrderToFix
  <2> HIDE DEF o
  <2>2. dec.pc = "order"
    BY <1>7 DEF SHOrderToFix
  <2> QED  BY <1>2, <2>1, <2>2 DEF TablesForm
<1>8. CASE Set_MutilOrd_Status
  <2>1. dec.pc = "order" /\ dec' = [dec EXCEPT !.pc = "push"]
    BY <1>8 DEF Set_MutilOrd_Status
  <2> QED  BY <1>2, <2>1 DEF TablesForm
<1>9. CASE ProcShMessage
  BY <1>1, <1>9 DEF ProcShMessage
<1>10. CASE FlowStep \/ Get_SHReport \/ Send_SH_ReportOrConfirm
  <2>1. UNCHANGED dec
    BY <1>10 DEF FlowStep, Get_SHReport, Send_SH_ReportOrConfirm
  <2> QED  BY <2>1 DEF DecForm
<1> QED  BY <1>1, <1>3, <1>4, <1>5, <1>6, <1>7, <1>8, <1>9, <1>10 DEF Working

LEMMA DecStep ==
    ASSUME WireForm, WireForm', TablesForm, HandForm, GivenForm, DecForm, [GatewayNext]_gatewayVars
    PROVE  DecForm'
<1>0. acked \in Nat /\ dec.acked \in Nat /\ acked' \in Nat
  <2>1. acked \in Nat /\ dec.acked \in Nat
    BY DEF HandForm, TablesForm
  <2>2. acked' \in Nat
    BY <2>1, GivenStep, HandStep DEF HandForm
  <2> QED  BY <2>1, <2>2
<1>1. CASE UNCHANGED dec /\ ~Restart
  <2>1. acked <= acked'
    BY <1>1, GivenStep
  <2> QED  BY <1>0, <1>1, <2>1 DEF DecForm
<1>2. CASE Restart
  <2>1. dec' = Waits /\ acked' = 0
    BY <1>2 DEF Restart, ShLost, CliLost
  <2> QED  BY <2>1 DEF DecForm, Waits
<1>3. CASE Shanghai
  <2>1. UNCHANGED <<acked, polSh, glob>> /\ Working
    BY <1>3 DEF Shanghai, Working, Declare, Report, cliVars, polVars
  <2> QED  BY <2>1, DecWorks
<1>4. ~Shanghai /\ ~Restart => UNCHANGED dec
  <2>1. Start => UNCHANGED dec
    BY StartFrame DEF StartLeaves, shVars
  <2>2. Client => UNCHANGED dec
    BY ClientFrame DEF shVars
  <2>3. Environment => UNCHANGED dec
    BY DEF Environment, Ordwth, shVars
  <2>4. RestartRequest \/ UNCHANGED gatewayVars => UNCHANGED dec
    BY DEF RestartRequest, gatewayVars, shVars
  <2> QED  BY <2>1, <2>2, <2>3, <2>4 DEF GatewayNext
<1> QED  BY <1>1, <1>2, <1>3, <1>4

LEMMA PolicyWholeHolds == GivenForm /\ DecForm => PolicyWhole
BY DEF GivenForm, DecForm, PolicyWhole, Get_Sz

-----------------------------------------------------------------------------
(* The versions of a rule                                                  *)

\* What the insertion does to the versions: it moves one rule to the version
\* at the front, and goes on when that is done or drops the rest.
LEMMA InsertMoves ==
    ASSUME MapForm, RuleForm, NEW db, InsertRule(db)
    PROVE  /\ ins.todo # <<>> /\ Changing \in Rules
           /\ \A r \in ShRules : mem'[r] = mem[r] \/ (r = Changing /\ mem'[r] # NoRule /\ mem'[r].ts = ins.todo[1].ver)
           /\ \A r \in Rules : rows'[r] = rows[r] \/ (r = Changing /\ rows'[r].ts = ins.todo[1].ver)
           /\ \/ ins'.todo = ins.todo
              \/ ins'.todo = Tail(ins.todo) /\ mem'[Changing] # NoRule /\ mem'[Changing].ts = ins.todo[1].ver
              \/ ins'.todo = <<>> /\ (db => faults' # {})
<1> DEFINE c == Changing
           v == ins.todo[1].ver
<1>0. ShRules \subseteq Rules
  BY DEF Rules
<1>1. ins.todo # <<>>
  BY DEF InsertRule, InsertNew, ChangeRegex, ChangeConfirm, ChangeMatch, InsertMalformed, UpdateSingleRuleToDb, MapForm
<1>2. c \in Rules /\ v \in 1..MaxVer /\ Given.ts = v /\ Given \in Rule
  BY <1>1, ChangingIs, DocIs DEF Given
<1>3. ASSUME NEW new \in Rule, new.ts = v, mem' = [mem EXCEPT ![c] = new], UNCHANGED rows, ins'.todo = ins.todo
      PROVE  /\ \A r \in ShRules : mem'[r] = mem[r] \/ (r = c /\ mem'[r] # NoRule /\ mem'[r].ts = v)
             /\ \A r \in Rules : rows'[r] = rows[r] \/ (r = c /\ rows'[r].ts = v)
             /\ ins'.todo = ins.todo
  <2>1. new # NoRule
    BY RulesAssumption
  <2> HIDE DEF c, v
  <2>2. \A r \in Rules : mem'[r] = IF r = c THEN new ELSE mem[r]
    BY <1>3 DEF MapForm
  <2> QED  BY <1>0, <1>3, <2>1, <2>2
<1>4. CASE InsertNew
  <2> DEFINE new == IF c \in ShRules THEN NewRule_Sh(Given) ELSE NewRule_Sz(Given)
  <2>1. mem' = [mem EXCEPT ![c] = new] /\ UNCHANGED rows /\ ins'.todo = ins.todo
    BY <1>4 DEF InsertNew, MapForm
  <2>2. new \in Rule /\ new.ts = v
    BY <1>2, NewSzIs DEF NewRule_Sh
  <2> HIDE DEF new, c, v
  <2> QED  BY <1>1, <1>2, <1>3, <2>1, <2>2 DEF c, v
<1>5. CASE ChangeRegex \/ ChangeConfirm \/ ChangeMatch
  <2>1. ins'.todo = ins.todo
    BY <1>5 DEF ChangeRegex, ChangeConfirm, ChangeMatch, MapForm
  <2>2. UNCHANGED rows /\ \E new \in Rule : new.ts = v /\ mem' = [mem EXCEPT ![c] = new]
    BY <1>5, ChangedRuleIs
  <2> HIDE DEF c, v
  <2> QED  BY <1>1, <1>2, <1>3, <2>1, <2>2 DEF c, v
<1>6. CASE UpdateSingleRuleToDb(db)
  <2>1. ins.stage # "next" /\ UNCHANGED mem
    BY <1>6 DEF UpdateSingleRuleToDb
  <2>2. mem[c] # NoRule /\ mem[c].ts = v
    BY <2>1 DEF MapForm, RuleForm
  <2>3. \/ rows' = [rows EXCEPT ![c] = Given] /\ ins'.todo = Tail(ins.todo)
        \/ rows' = rows /\ ins'.todo = <<>> /\ (db => faults' # {})
    <3>1. \/ rows' = [rows EXCEPT ![c] = Given] /\ ins' = [todo |-> Tail(ins.todo), stage |-> "next"]
          \/ rows' = rows /\ ins' = Idle /\ (db => Fails("rule"))
      BY <1>6 DEF UpdateSingleRuleToDb, Row_Sh, Row_Sz
    <3>2. Fails("rule") => faults' # {}
      BY DEF Fails
    <3>3. Idle.todo = <<>> /\ [todo |-> Tail(ins.todo), stage |-> "next"].todo = Tail(ins.todo)
      BY DEF Idle
    <3> HIDE DEF c
    <3> QED  BY <3>1, <3>2, <3>3
  <2>4. \A r \in Rules : rows'[r] = rows[r] \/ (r = c /\ rows'[r].ts = v)
    <3>1. CASE rows' = rows
      BY <3>1
    <3>2. CASE rows' = [rows EXCEPT ![c] = Given]
      <4> HIDE DEF c, v
      <4> QED  BY <1>2, <3>2 DEF MapForm
    <3> QED  BY <2>3, <3>1, <3>2
  <2> HIDE DEF c, v
  <2> QED  BY <1>1, <1>2, <2>1, <2>2, <2>3, <2>4 DEF c, v
<1>7. CASE InsertMalformed
  <2>1. ins'.todo = <<>> /\ rows' = rows /\ \A r \in ShRules : mem'[r] = mem[r]
    BY <1>7, MalformedIs DEF Idle
  <2>2. faults' # {}
    BY <1>7 DEF InsertMalformed, Fails
  <2> QED  BY <1>1, <1>2, <2>1, <2>2
<1> QED  BY <1>4, <1>5, <1>6, <1>7 DEF InsertRule

\* The versions of rule r in a message.
DocNums(r) ==
    [m \in FromServer |-> IF m.type = "rules" THEN {m.docs[i].ver : i \in {k \in DOMAIN m.docs : m.docs[k].rule = r}}
                                             ELSE {}]

\* There is a version that the map does not exceed, that is inserted next and
\* that nothing on the way is below.
Due(r, m, s, q, high, low) ==
    /\ low <= high /\ Rising(q, DocNums(r), low, high)
    /\ m # NoRule => m.ts <= low
    /\ \A i \in DOMAIN s : s[i].rule = r => s[i].ver = low
VersionForm ==
    \A r \in ShRules :
      /\ rows[r] # NoRule => rows[r].ts <= srv.ver[r]
      /\ \E low \in Nat : Due(r, mem[r], ins.todo, toCli, srv.ver[r], low)

LEMMA DocNumsIs ==
    ASSUME NEW r
    PROVE  /\ DocNums(r) \in [FromServer -> SUBSET Nat]
           /\ \A m \in FromServer : m.type = "rules" => \A k \in DOMAIN m.docs : m.docs[k].rule = r => m.docs[k].ver \in DocNums(r)[m]
           /\ \A m \in FromServer : \A a \in DocNums(r)[m] : m.type = "rules" /\ \E k \in DOMAIN m.docs : m.docs[k].rule = r /\ m.docs[k].ver = a
<1>1. \A m \in FromServer : m.type = "rules" => \A k \in DOMAIN m.docs : m.docs[k].ver \in Nat
  <2> TAKE m \in FromServer
  <2> HAVE m.type = "rules"
  <2> TAKE k \in DOMAIN m.docs
  <2>1. m.docs \in Seq(Version)
    BY RulesMsgIs
  <2>2. m.docs[k] \in Version
    BY <2>1
  <2> QED  BY <2>2, ClienterAssumption DEF Version
<1> QED  BY <1>1 DEF DocNums

LEMMA DocCurrent ==
    ASSUME NEW r, NEW m \in FromServer, UpToDate(m) PROVE \A a \in DocNums(r)[m] : a = srv'.ver[r]
BY DocNumsIs DEF UpToDate

LEMMA VersionInit == GatewayInit => VersionForm
<1> SUFFICES ASSUME GatewayInit PROVE VersionForm
  OBVIOUS
<1>1. /\ mem = [r \in Rules |-> NoRule] /\ ins.todo = <<>> /\ toCli = <<>> /\ srv.ver = [r \in Rules |-> 1]
      /\ \A r \in Rules : rows[r] \in {NoRule, Doc(r, 1)}
  BY DEF GatewayInit, RulesInit, Idle, CliInit
<1>2. \A r : Doc(r, 1).ts = 1
  BY DEF Doc
<1> SUFFICES ASSUME NEW r \in ShRules
             PROVE  /\ rows[r] # NoRule => rows[r].ts <= srv.ver[r]
                    /\ Due(r, mem[r], ins.todo, toCli, srv.ver[r], 1)
  BY DEF VersionForm
<1> QED  BY <1>1, <1>2 DEF Rules, Due, Rising

LEMMA VersionTaken ==
    ASSUME WireForm, MapForm, RuleForm, VersionForm, NEW r \in ShRules, Takes("rules"), UNCHANGED <<mem, srv>>, ins' = [todo |-> Msg.docs, stage |-> "next"]
    PROVE  \E low \in Nat : Due(r, mem'[r], ins'.todo, toCli', srv'.ver[r], low)
<1> DEFINE m == toCli[1]
           high == srv.ver[r]
<1>0. toCli # <<>> /\ toCli' = Tail(toCli) /\ m \in FromServer /\ m.type = "rules" /\ ins'.todo = m.docs
  BY DEF Takes, WireForm, Msg
<1>1. high \in Nat /\ toCli \in Seq(FromServer)
  BY ServerIs DEF WireForm, Rules
<1>2. PICK low \in Nat : Due(r, mem[r], ins.todo, toCli, high, low)
  BY DEF VersionForm
<1>3. /\ Rising(Tail(toCli), DocNums(r), low, high)
      /\ \A a \in DocNums(r)[m] : /\ a \in Nat /\ low <= a /\ a <= high /\ Rising(Tail(toCli), DocNums(r), a, high)
                                  /\ \A b \in DocNums(r)[m] : a = b
  <2> HIDE DEF high
  <2> QED  BY <1>0, <1>1, <1>2, DocNumsIs, RisingTail DEF Due
<1>4. mem[r] # NoRule => mem[r].ts <= low
  BY <1>2 DEF Due
<1>5. \A k \in DOMAIN m.docs : m.docs[k].rule = r => m.docs[k].ver \in DocNums(r)[m]
  BY <1>0, DocNumsIs
<1>6. CASE \A k \in DOMAIN m.docs : m.docs[k].rule # r
  <2>1. low <= high
    BY <1>2 DEF Due
  <2> HIDE DEF m
  <2> QED  BY <1>0, <1>1, <1>3, <1>4, <1>6, <2>1 DEF Due
<1>7. CASE \E k \in DOMAIN m.docs : m.docs[k].rule = r
  <2>1. PICK a \in DocNums(r)[m] : TRUE
    BY <1>5, <1>7
  <2>2. a \in Nat /\ low <= a /\ a <= high /\ Rising(Tail(toCli), DocNums(r), a, high)
    BY <1>3
  <2>3. \A k \in DOMAIN m.docs : m.docs[k].rule = r => m.docs[k].ver = a
    BY <1>3, <1>5
  <2>4. mem[r] # NoRule => mem[r].ts <= a
    <3>1. mem[r] # NoRule => mem[r].ts \in Nat
      <4>1. r \in Rules
        BY DEF Rules
      <4> QED  BY <4>1, ClienterAssumption DEF RuleForm
    <3> QED  BY <1>4, <2>2, <3>1
  <2> HIDE DEF m
  <2> QED  BY <1>0, <1>1, <2>2, <2>3, <2>4 DEF Due
<1> QED  BY <1>6, <1>7

LEMMA VersionInserted ==
    ASSUME WireForm, MapForm, RuleForm, VersionForm, NEW r \in ShRules, InsertRule(Normal), UNCHANGED <<srv, toCli>>
    PROVE  /\ rows'[r] # NoRule => rows'[r].ts <= srv'.ver[r]
           /\ \E low \in Nat : Due(r, mem'[r], ins'.todo, toCli', srv'.ver[r], low)
<1> DEFINE high == srv.ver[r]
           first == ins.todo[1]
<1>0. high \in Nat /\ r \in Rules
  BY ServerIs DEF Rules
<1>1. PICK low \in Nat : Due(r, mem[r], ins.todo, toCli, high, low)
  BY DEF VersionForm
<1>2. /\ ins.todo # <<>> /\ Changing \in Rules
      /\ mem'[r] = mem[r] \/ (r = Changing /\ mem'[r].ts = first.ver)
      /\ rows'[r] = rows[r] \/ (r = Changing /\ rows'[r].ts = first.ver)
      /\ ins'.todo \in {ins.todo, Tail(ins.todo), <<>>}
  BY <1>0, InsertMoves
<1>3. r = Changing => first.ver = low
  <2>1. 1 \in DOMAIN ins.todo
    BY <1>2 DEF MapForm
  <2> QED  BY <1>1, <2>1 DEF Due, Changing
<1>4. rows'[r] # NoRule => rows'[r].ts <= high
  BY <1>0, <1>1, <1>2, <1>3 DEF VersionForm, Due
<1>5. mem'[r] # NoRule => mem'[r].ts <= low
  BY <1>1, <1>2, <1>3 DEF Due
<1>6. \A i \in DOMAIN ins'.todo : ins'.todo[i].rule = r => ins'.todo[i].ver = low
  <2>1. \A i \in DOMAIN ins.todo : ins.todo[i].rule = r => ins.todo[i].ver = low
    BY <1>1 DEF Due
  <2>2. ins.todo \in Seq(Version)
    BY DEF MapForm
  <2>3. \A i \in DOMAIN Tail(ins.todo) : i + 1 \in DOMAIN ins.todo /\ Tail(ins.todo)[i] = ins.todo[i + 1]
    BY <1>2, <2>2
  <2> QED  BY <1>2, <2>1, <2>3
<1> HIDE DEF high, first
<1>7. Due(r, mem'[r], ins'.todo, toCli', srv'.ver[r], low)
  BY <1>1, <1>5, <1>6 DEF Due, high
<1> QED  BY <1>4, <1>7 DEF high

LEMMA VersionStep ==
    ASSUME WireForm, WireForm', EarlyForm, InsertForm, MapForm, RuleForm, VersionForm, [GatewayNext]_gatewayVars
    PROVE  VersionForm'
<1> SUFFICES ASSUME NEW r \in ShRules
             PROVE  /\ rows'[r] # NoRule => rows'[r].ts <= srv'.ver[r]
                    /\ \E low \in Nat : Due(r, mem'[r], ins'.todo, toCli', srv'.ver[r], low)
  BY DEF VersionForm
<1> DEFINE high == srv.ver[r]
           high2 == srv'.ver[r]
<1>0. r \in Rules /\ high \in Nat /\ high2 \in Nat /\ high <= high2 /\ toCli \in Seq(FromServer)
  <2>1. r \in Rules
    BY DEF Rules
  <2>2. high2 \in 1..MaxVer
    BY <2>1 DEF WireForm, Server
  <2> QED  BY <2>1, <2>2, ServerIs, ChannelStep, ClienterAssumption DEF Grows, WireForm
<1>1. PICK low \in Nat : Due(r, mem[r], ins.todo, toCli, high, low)
  BY DEF VersionForm
<1>2. low <= high2 /\ Rising(toCli', DocNums(r), low, high2)
  <2>1. low <= high /\ Rising(toCli, DocNums(r), low, high)
    BY <1>1 DEF Due
  <2>2. low <= high2
    BY <1>0, <2>1
  <2> HIDE DEF high
  <2> QED  BY <1>0, <2>1, <2>2, RisingStep, DocNumsIs, DocCurrent
<1>3. rows[r] # NoRule => rows[r].ts <= high2
  <2>1. rows[r] # NoRule => rows[r].ts \in 1..MaxVer
    BY <1>0 DEF RuleForm
  <2>2. rows[r] # NoRule => rows[r].ts <= high
    BY DEF VersionForm
  <2> QED  BY <1>0, <2>1, <2>2, ClienterAssumption
<1> HIDE DEF high, high2
<1>4. CASE UNCHANGED ruleVars
  BY <1>1, <1>2, <1>3, <1>4 DEF ruleVars, Due, high2
<1>5. CASE Restart
  <2>1. mem'[r] = NoRule /\ rows' = rows /\ ins'.todo = <<>>
    BY <1>0, <1>5 DEF Restart, Emptied, Idle
  <2> QED  BY <1>2, <1>3, <2>1 DEF Due, high2
<1>6. CASE LoadConfigFromDb
  <2>1. UNCHANGED <<rows, ins, toCli>> /\ toCli = <<>> /\ rcv = Free
    BY <1>6 DEF LoadConfigFromDb, Others, EarlyForm, Before
  <2>2. ins.todo = <<>>
    BY <2>1 DEF InsertForm, Free, NoMsg, Idle
  <2>3. mem'[r] \in {NoRule, rows[r]}
    BY <1>0, <1>6 DEF LoadConfigFromDb, ReloadFromDb, ReloadFromDb_Sh, FromRow, NewRule_Sh
  <2>4. Due(r, mem'[r], ins'.todo, toCli', high2, high2)
    BY <1>0, <1>3, <2>1, <2>2, <2>3 DEF Due, Rising
  <2> QED  BY <1>0, <1>3, <2>1, <2>4 DEF high2
<1>7. CASE Client /\ MatchRuleMsg(Normal)
  <2>1. UNCHANGED srv
    BY <1>7, ClientFrame
  <2>2. CASE InsertRule(Normal) /\ UNCHANGED toCli
    BY <2>1, <2>2, VersionInserted
  <2>3. CASE Takes("rules") /\ ins' = [todo |-> Msg.docs, stage |-> "next"] /\ UNCHANGED <<mem, rows>>
    <3>1. \E l \in Nat : Due(r, mem'[r], ins'.todo, toCli', srv'.ver[r], l)
      BY <2>1, <2>3, VersionTaken
    <3> QED  BY <1>3, <2>3, <3>1 DEF high2
  <2> QED  BY <1>4, <1>7, <2>2, <2>3 DEF MatchRuleMsg, Handles
<1> QED  BY <1>4, <1>5, <1>6, <1>7, RuleMoves

-----------------------------------------------------------------------------
(* The parts of a rule                                                     *)

\* A version up to n of rule r lacks the part for the confirm.
Lacking(r, n) == \E k \in 1..n : "confirm" \in Lacks[r][k]

\* A part is not newer than the rule it is in, and only missing when some
\* document lacked it.
PartsFit(r, rule, n) ==
    rule # NoRule => /\ rule.confirm[2] <= rule.ts /\ rule.match[2] <= rule.ts
                     /\ Missing(rule.confirm) => Lacking(r, n)
PartsForm == \A r \in ShRules : PartsFit(r, mem[r], srv.ver[r])

LEMMA PartsInit == GatewayInit => PartsForm
BY DEF GatewayInit, RulesInit, PartsForm, PartsFit, Rules

LEMMA PartsOfDoc ==
    ASSUME NEW r, NEW n \in 1..MaxVer, NEW high \in Nat, n <= high
    PROVE  PartsFit(r, Doc(r, n), high)
<1>1. n \in 1..high
  BY ClienterAssumption
<1>2. /\ Doc(r, n).ts = n /\ Doc(r, n).confirm = PartOf("confirm", r, n) /\ Doc(r, n).match = PartOf("match", r, n)
  BY DocIs
<1>3. PartOf("confirm", r, n)[2] <= n /\ PartOf("match", r, n)[2] <= n
      /\ (Missing(PartOf("confirm", r, n)) <=> "confirm" \in Lacks[r][n])
  BY PartIs
<1> QED  BY <1>1, <1>2, <1>3 DEF PartsFit, Lacking

LEMMA PartsInserted ==
    ASSUME WireForm, MapForm, RuleForm, VersionForm, PartsForm, NEW r \in ShRules, InsertRule(Normal)
    PROVE  PartsFit(r, mem'[r], srv.ver[r])
<1> DEFINE high == srv.ver[r]
           v == ins.todo[1].ver
<1>0. high \in Nat /\ r \in Rules
  BY ServerIs DEF Rules
<1>1. PartsFit(r, mem[r], high)
  BY DEF PartsForm
<1>2. PICK low \in Nat : Due(r, mem[r], ins.todo, toCli, high, low)
  BY DEF VersionForm
<1>3. ins.todo # <<>> /\ Changing \in Rules
  BY InsertMoves
<1>4. v \in 1..MaxVer
  BY <1>3, ChangingIs
<1>5. Changing = r => v = low /\ v <= high /\ (mem[r] # NoRule => mem[r].ts <= v)
  <2>1. 1 \in DOMAIN ins.todo
    BY <1>3 DEF MapForm
  <2> QED  BY <1>2, <2>1 DEF Due, Changing
<1> HIDE DEF high, v
<1>6. CASE UNCHANGED mem
  BY <1>1, <1>6 DEF high
<1>7. CASE InsertNew
  <2>1. mem' = [mem EXCEPT ![Changing] = IF Changing \in ShRules THEN Doc(Changing, v) ELSE NewRule_Sz(Given)]
    BY <1>7 DEF InsertNew, NewRule_Sh, Given, v
  <2>2. CASE Changing = r
    <3>1. mem'[r] = Doc(r, v)
      BY <1>0, <2>1, <2>2 DEF MapForm
    <3>2. v <= high
      BY <1>5, <2>2
    <3> QED  BY <1>0, <1>4, <3>1, <3>2, PartsOfDoc DEF high
  <2>3. CASE Changing # r
    <3>1. mem'[r] = mem[r]
      BY <1>0, <2>1, <2>3 DEF MapForm
    <3> QED  BY <1>1, <3>1 DEF high
  <2> QED  BY <2>2, <2>3
<1>8. CASE ChangeRegex \/ ChangeConfirm \/ ChangeMatch
  <2> DEFINE c == Changing
  <2>1. mem[c] # NoRule /\ mem[c] \in Rule
    BY <1>8, ChangedRuleIs
  <2>2. PICK new \in Rule :
          /\ mem' = [mem EXCEPT ![c] = new] /\ new.ts = v
          /\ new.confirm = mem[c].confirm \/ (new.confirm = PartOf("confirm", c, v) /\ ~Missing(PartOf("confirm", c, v)))
          /\ new.match \in {mem[c].match, PartOf("match", c, v)}
    <3>1. PICK new \in Rule :
            /\ mem' = [mem EXCEPT ![c] = new] /\ new.ts = v
            /\ \/ /\ ChangeRegex /\ new.conds = mem[c].conds \cup Conds[v]
                  /\ new.confirm = mem[c].confirm /\ new.match = mem[c].match
               \/ /\ ChangeConfirm /\ mem[c].ts = v /\ new.conds = mem[c].conds /\ new.match = mem[c].match
                  /\ new.confirm = IF Missing(PartOf("confirm", c, v)) THEN mem[c].confirm ELSE PartOf("confirm", c, v)
               \/ /\ ChangeMatch /\ mem[c].ts = v /\ new.conds = mem[c].conds /\ new.confirm = mem[c].confirm
                  /\ new.match = IF Missing(PartOf("match", c, v)) THEN mem[c].match ELSE PartOf("match", c, v)
      BY <1>8, ChangedRuleIs DEF v
    <3> HIDE DEF c
    <3> QED  BY <3>1
  <2>3. CASE c = r
    <3>1. mem'[r] = new
      BY <1>0, <2>2, <2>3 DEF MapForm
    <3>2. /\ mem[r].confirm[2] <= mem[r].ts /\ mem[r].match[2] <= mem[r].ts
          /\ (Missing(mem[r].confirm) => Lacking(r, high)) /\ mem[r].ts <= v
      BY <1>1, <1>5, <2>1, <2>3 DEF PartsFit
    <3>3. PartOf("confirm", r, v)[2] <= v /\ PartOf("match", r, v)[2] <= v
      BY <1>4, PartIs
    <3>4. mem[r].confirm[2] \in Nat /\ mem[r].match[2] \in Nat /\ mem[r].ts \in Nat /\ v \in Nat
      BY <1>4, <2>1, <2>3, ClienterAssumption DEF Rule
    <3>5. new.confirm[2] <= v /\ new.match[2] <= v
      BY <2>2, <2>3, <3>2, <3>3, <3>4
    <3>6. Missing(new.confirm) => Lacking(r, high)
      BY <2>2, <2>3, <3>2
    <3> QED  BY <2>2, <3>1, <3>5, <3>6 DEF PartsFit, high
  <2>4. CASE c # r
    <3>1. mem'[r] = mem[r]
      BY <1>0, <2>2, <2>4 DEF MapForm
    <3> QED  BY <1>1, <3>1 DEF high
  <2> QED  BY <2>3, <2>4
<1>9. CASE InsertMalformed
  BY <1>1, <1>9, MalformedIs DEF high
<1>10. UpdateSingleRuleToDb(Normal) => UNCHANGED mem
  BY DEF UpdateSingleRuleToDb
<1> QED  BY <1>1, <1>6, <1>7, <1>8, <1>9, <1>10 DEF InsertRule, high

\* The versions the web server knows only grow.
LEMMA VersionsGrow ==
    ASSUME WireForm, WireForm', EarlyForm, [GatewayNext]_gatewayVars, NEW r \in ShRules
    PROVE  srv.ver[r] \in Nat /\ srv'.ver[r] \in Nat /\ srv.ver[r] <= srv'.ver[r]
           /\ \A part : PartsFit(r, part, srv.ver[r]) => PartsFit(r, part, srv'.ver[r])
<1>1. r \in Rules
  BY DEF Rules
<1>2. srv'.ver[r] \in 1..MaxVer
  BY <1>1 DEF WireForm, Server
<1>3. srv.ver[r] \in Nat /\ srv'.ver[r] \in Nat /\ srv.ver[r] <= srv'.ver[r]
  BY <1>1, <1>2, ServerIs, ChannelStep, ClienterAssumption DEF Grows
<1>4. Lacking(r, srv.ver[r]) => Lacking(r, srv'.ver[r])
  BY <1>3 DEF Lacking
<1> QED  BY <1>3, <1>4 DEF PartsFit

LEMMA PartsStep ==
    ASSUME WireForm, WireForm', EarlyForm, MapForm, RuleForm, VersionForm, PartsForm, [GatewayNext]_gatewayVars
    PROVE  PartsForm'
<1> SUFFICES ASSUME NEW r \in ShRules PROVE PartsFit(r, mem'[r], srv'.ver[r])
  BY DEF PartsForm, PartsFit, Lacking
<1> DEFINE high == srv.ver[r]
<1>0. r \in Rules /\ high \in Nat
  BY VersionsGrow DEF Rules
<1>1. PartsFit(r, mem[r], high)
  BY DEF PartsForm
<1> SUFFICES PartsFit(r, mem'[r], high)
  BY VersionsGrow
<1>2. CASE UNCHANGED mem
  BY <1>1, <1>2
<1>3. CASE Restart
  BY <1>0, <1>3 DEF Restart, Emptied, PartsFit
<1>4. CASE LoadConfigFromDb
  <2>1. mem'[r] \in {NoRule, rows[r]}
    BY <1>0, <1>4 DEF LoadConfigFromDb, ReloadFromDb, ReloadFromDb_Sh, FromRow, NewRule_Sh
  <2>2. rows[r] # NoRule => rows[r].ts \in 1..MaxVer /\ rows[r] = Doc(r, rows[r].ts) /\ rows[r].ts <= high
    BY <1>0 DEF RuleForm, VersionForm
  <2> HIDE DEF high
  <2>3. rows[r] # NoRule => PartsFit(r, rows[r], high)
    BY <1>0, <2>2, PartsOfDoc
  <2> QED  BY <2>1, <2>3 DEF PartsFit
<1>5. CASE Client /\ MatchRuleMsg(Normal) /\ InsertRule(Normal)
  BY <1>5, PartsInserted
<1>6. MatchRuleMsg(Normal) /\ ~InsertRule(Normal) => UNCHANGED mem
  BY DEF MatchRuleMsg, ruleVars
<1> QED  BY <1>2, <1>3, <1>4, <1>5, <1>6, RuleMoves DEF ruleVars

\* A rule in the map has the parts of its version and is the same in its row.
LEMMA RulesKeptHolds ==
    ASSUME FaultForm, HandForm, InsertForm, MapForm, RuleForm, TablesForm, PartsForm
    PROVE  RulesKept
<1>1. GatewayTypeOK
  <2>1. faults \subseteq {"start", "reload", "etfrows", "etfids", "readid", "web", "saveid", "file", "rule",
                         "etf", "commit", "sh", "mark", "report", "document", "links"}
    BY DEF FaultForm, FaultKinds
  <2>2. \A r \in Rules : mem[r] # NoRule => mem[r].ts \in 1..MaxVer
    BY DEF RuleForm
  <2>3. Locked(Rules) => rcv.msg.type = "rules"
    BY DEF Locked, InsertForm, Idle
  <2> QED  BY <2>1, <2>2, <2>3 DEF GatewayTypeOK, InsertForm, TablesForm, HandForm
<1>2. \A r \in Rules : AtRest(r) => Unchanged(r) /\ mem[r] # NoRule /\ mem[r].ts \in 1..MaxVer
  <2>1. ins.stage # "next" => Changing \in Rules
    BY ChangingIs DEF MapForm
  <2> QED  BY <2>1 DEF AtRest, Locked, Changing, Unchanged, RuleForm
<1>3. ASSUME NEW r \in ShRules, AtRest(r)
      PROVE  /\ mem[r] # NoRule /\ mem[r].ts \in 1..MaxVer /\ Conds[mem[r].ts] \subseteq mem[r].conds
             /\ mem[r].confirm \in AnyPart("confirm", r) /\ mem[r].match \in AnyPart("match", r)
             /\ Fits(mem[r].confirm, "confirm", r, mem[r].ts) /\ Fits(mem[r].match, "match", r, mem[r].ts)
             /\ mem[r].confirm[2] <= mem[r].ts /\ mem[r].match[2] <= mem[r].ts
  <2>1. Unchanged(r) /\ mem[r] # NoRule /\ mem[r].ts \in 1..MaxVer
    BY <1>2, <1>3 DEF Rules
  <2> QED  BY <2>1 DEF RuleForm, WholeRule, Unchanged, PartsForm, PartsFit
<1>4. ASSUME NEW p, NEW r, NEW n \in 1..MaxVer, NEW part \in AnyPart(p, r), Fits(part, p, r, n), part[2] <= n
      PROVE  part \in PartsAt(p, r, n)
  <2>1. CASE p \notin Lacks[r][n]
    BY <1>4, <2>1, PartIs DEF PartsAt, Fits
  <2>2. CASE p \in Lacks[r][n] /\ part # <<p, 0>>
    <3>1. PICK k \in 1..MaxVer : part = PartOf(p, r, k)
      BY <2>2 DEF AnyPart
    <3>2. part = <<p, k>>
      BY <2>2, <3>1 DEF PartOf
    <3>3. k \in 1..n
      BY <1>4, <3>2, ClienterAssumption
    <3> QED  BY <2>2, <3>1, <3>3 DEF PartsAt
  <2>3. CASE p \in Lacks[r][n] /\ part = <<p, 0>>
    BY <2>3 DEF PartsAt
  <2> QED  BY <2>1, <2>2, <2>3
<1>5. RuleOfItsVersion
  BY <1>3, <1>4 DEF RuleOfItsVersion
<1>6. RowsKept
  <2> SUFFICES ASSUME Normal, "rule" \notin faults, NEW r \in Rules, AtRest(r)
               PROVE  /\ rows[r] # NoRule /\ rows[r].ts = mem[r].ts
                      /\ r \in ShRules => /\ rows[r].confirm \in {mem[r].confirm, <<"confirm", 0>>}
                                          /\ rows[r].match \in {mem[r].match, <<"match", 0>>}
    BY DEF RowsKept
  <2>1. rows[r] # NoRule /\ rows[r].ts = mem[r].ts
    BY <1>2 DEF RuleForm
  <2> DEFINE n == mem[r].ts
  <2>2. n \in 1..MaxVer /\ rows[r] = Doc(r, n)
    BY <2>1 DEF RuleForm
  <2>3. r \in ShRules => Fits(mem[r].confirm, "confirm", r, n) /\ Fits(mem[r].match, "match", r, n)
    BY <1>3
  <2> HIDE DEF n
  <2>4. rows[r].confirm = PartOf("confirm", r, n) /\ rows[r].match = PartOf("match", r, n)
    BY <2>2, DocIs
  <2>5. \A p : Missing(PartOf(p, r, n)) => PartOf(p, r, n) = <<p, 0>>
    BY <2>2, PartIs
  <2> QED  BY <2>1, <2>3, <2>4, <2>5 DEF Fits
<1> QED  BY <1>1, <1>5, <1>6 DEF RulesKept

-----------------------------------------------------------------------------
(* A trade is behind the confirm of its order, wherever both are           *)

Confirming == {"O", "rule"}
Filed(t, r) == \E i \in DOMAIN t : t[i].rec = r /\ t[i].status \in Confirming
Stated(t, s, r) ==
    Filed(t, r) \/ \E i \in DOMAIN s : s[i].table = "ordwth2" /\ s[i].rec = r /\ s[i].status \in Confirming
Announced(t, s, u, r, j) ==
    Stated(t, s, r) \/ \E i \in DOMAIN u : i < j /\ u[i].rec = r /\ u[i].kind = "confirm"

\* No report was lost and no rule confirms nothing.
Clear == "report" \notin faults /\ ~Unconfirmed
ConfirmForm ==
    Clear =>
      /\ \A j \in DOMAIN cjhb : cjhb[j].rec # 0 => Filed(ordwth2, cjhb[j].rec)
      /\ \A j \in DOMAIN sqls : sqls[j].table = "cjhb" => Stated(ordwth2, sqls, sqls[j].rec)
      /\ \A j \in DOMAIN outb : outb[j].kind = "match" => Announced(ordwth2, sqls, outb, outb[j].rec, j)
      /\ \A j \in DOMAIN inb : inb[j].kind = "confirmed" => Announced(ordwth2, sqls, outb, inb[j].rec, Len(outb) + 1)

LEMMA ConfirmInit == GatewayInit => ConfirmForm
<1> SUFFICES ASSUME GatewayInit PROVE ConfirmForm
  OBVIOUS
<1>1. cjhb \in {<<>>, <<Old>>} /\ inb = <<>> /\ outb = <<>> /\ sqls = <<>>
  BY DEF GatewayInit, ShInit
<1>2. \A j \in DOMAIN <<Old>> : <<Old>>[j].rec = 0
  <2>1. Old.rec = 0
    BY DEF Old
  <2>2. \A i \in DOMAIN <<Old>> : <<Old>>[i] = Old
    OBVIOUS
  <2> QED  BY <2>1, <2>2
<1> QED  BY <1>1, <1>2 DEF ConfirmForm

LEMMA ConfirmStays ==
    ASSUME ConfirmForm, Clear' => Clear, UNCHANGED <<ordwth2, cjhb, inb, outb, sqls>>
    PROVE  ConfirmForm'
BY DEF ConfirmForm

\* A report is put behind the others, a trade only for a confirmed order.
LEMMA ConfirmAppended ==
    ASSUME TablesForm, ConfirmForm, Clear' => Clear, UNCHANGED <<ordwth2, cjhb, sqls>>,
           NEW e, outb' = Append(outb, e), e.kind = "match" => e.rec = inb[1].rec /\ inb[1].kind = "confirmed" /\ inb # <<>>,
           \A j \in DOMAIN inb' : inb'[j].kind = "confirmed" =>
             \/ \E i \in DOMAIN inb : inb[i] = inb'[j]
             \/ inb'[j].rec = e.rec /\ e.kind = "confirm"
    PROVE  ConfirmForm'
<1> DEFINE n == Len(outb)
           before(r, j) == Announced(ordwth2, sqls, outb, r, j)
           after(r, j) == Announced(ordwth2, sqls, outb', r, j)
<1>1. /\ n \in Nat /\ DOMAIN outb = 1..n /\ DOMAIN outb' = 1..(n + 1) /\ Len(outb') = n + 1
      /\ \A i \in 1..n : outb'[i] = outb[i]
      /\ outb'[n + 1] = e
  BY DEF TablesForm
<1> SUFFICES ASSUME Clear', Clear
             PROVE  /\ \A j \in DOMAIN outb' : outb'[j].kind = "match" => after(outb'[j].rec, j)
                    /\ \A j \in DOMAIN inb' : inb'[j].kind = "confirmed" => after(inb'[j].rec, n + 2)
  <2>1. Len(outb') + 1 = n + 2
    BY <1>1
  <2> HIDE DEF n
  <2> QED  BY <2>1 DEF ConfirmForm
<1>2. \A j \in DOMAIN outb : outb[j].kind = "match" => before(outb[j].rec, j)
  BY DEF ConfirmForm
<1>3. \A j \in DOMAIN inb : inb[j].kind = "confirmed" => before(inb[j].rec, n + 1)
  BY DEF ConfirmForm
<1> HIDE DEF n
<1>4. \A r, j : before(r, j) => after(r, j)
  BY <1>1 DEF Announced
<1>5. \A r : before(r, n + 1) => after(r, n + 2)
  <2> TAKE r
  <2>1. CASE Stated(ordwth2, sqls, r)
    BY <2>1 DEF Announced
  <2>2. CASE \E i \in DOMAIN outb : i < n + 1 /\ outb[i].rec = r /\ outb[i].kind = "confirm"
    <3>1. PICK i \in DOMAIN outb : outb[i].rec = r /\ outb[i].kind = "confirm"
      BY <2>2
    <3>2. i \in DOMAIN outb' /\ i < n + 2 /\ outb'[i] = outb[i]
      BY <1>1, <3>1
    <3> QED  BY <3>1, <3>2 DEF Announced
  <2> QED  BY <2>1, <2>2 DEF Announced
<1> HIDE DEF before
<1>6. ASSUME NEW j \in DOMAIN outb', outb'[j].kind = "match" PROVE after(outb'[j].rec, j)
  <2>1. CASE j \in 1..n
    BY <1>1, <1>2, <1>4, <1>6, <2>1
  <2>2. CASE j = n + 1
    <3>1. 1 \in DOMAIN inb /\ inb[1].kind = "confirmed" /\ outb'[j].rec = inb[1].rec
      BY SMTT(30), <1>1, <1>6, <2>2 DEF TablesForm
    <3>2. before(inb[1].rec, n + 1)
      BY <1>3, <3>1
    <3> QED  BY <1>4, <2>2, <3>1, <3>2
  <2> QED  BY <1>1, <2>1, <2>2
<1>7. ASSUME NEW j \in DOMAIN inb', inb'[j].kind = "confirmed" PROVE after(inb'[j].rec, n + 2)
  <2>1. CASE \E i \in DOMAIN inb : inb[i] = inb'[j]
    BY <1>3, <1>5, <1>7, <2>1
  <2>2. CASE inb'[j].rec = e.rec /\ e.kind = "confirm"
    <3>1. n + 1 \in DOMAIN outb' /\ n + 1 < n + 2
      BY <1>1
    <3> QED  BY <1>1, <2>2, <3>1 DEF Announced
  <2> QED  BY <1>7, <2>1, <2>2
<1> QED  BY <1>6, <1>7

LEMMA FlowConfirms == ASSUME TablesForm, ConfirmForm, Clear' => Clear, FlowStep PROVE ConfirmForm'
<1>1. inb # <<>> /\ UNCHANGED <<ordwth2, cjhb, sqls>> /\ 1 \in DOMAIN inb
  BY DEF FlowStep, tabVars, TablesForm
<1> DEFINE o == inb[1]
<1>2. PICK kind : /\ outb' = Append(outb, [o EXCEPT !.kind = kind])
                  /\ inb' = IF kind = "confirm" THEN [inb EXCEPT ![1].kind = "confirmed"] ELSE Tail(inb)
                  /\ kind = "match" => o.kind = "confirmed"
  BY DEF FlowStep, OfCancel
<1>3. o \in OrderOf(InKinds)
  BY <1>1 DEF TablesForm
<1> DEFINE e == [o EXCEPT !.kind = kind]
<1>4. e.rec = o.rec /\ e.kind = kind
  BY <1>3 DEF OrderOf
<1>5. \A j \in DOMAIN inb' : inb'[j].kind = "confirmed" =>
        (\E i \in DOMAIN inb : inb[i] = inb'[j]) \/ (inb'[j].rec = e.rec /\ e.kind = "confirm")
  <2>1. CASE kind = "confirm"
    <3>1. inb' = [inb EXCEPT ![1].kind = "confirmed"]
      BY <1>2, <2>1
    <3>2. DOMAIN inb' = DOMAIN inb /\ inb'[1].rec = o.rec /\ \A j \in DOMAIN inb : j # 1 => inb'[j] = inb[j]
      BY <1>1, <1>3, <3>1 DEF OrderOf
    <3> QED  BY <1>4, <2>1, <3>2
  <2>2. CASE kind # "confirm"
    <3>1. inb' = Tail(inb)
      BY <1>2, <2>2
    <3>2. \A j \in DOMAIN inb' : j + 1 \in DOMAIN inb /\ inb'[j] = inb[j + 1]
      BY SMTT(30), <1>1, <3>1 DEF TablesForm
    <3> QED  BY <3>2
  <2> QED  BY <2>1, <2>2
<1> HIDE DEF e
<1>6. outb' = Append(outb, e) /\ (e.kind = "match" => e.rec = inb[1].rec /\ inb[1].kind = "confirmed" /\ inb # <<>>)
  BY <1>1, <1>2, <1>4 DEF e
<1> QED  BY <1>1, <1>5, <1>6, ConfirmAppended

\* Other orders that are read, an error at most among the reports.
LEMMA OrderReadConfirms == ASSUME TablesForm, ConfirmForm, Clear' => Clear, NEW web, SHOrderToFix(web) PROVE ConfirmForm'
<1> DEFINE e == [Message(Reading, web) EXCEPT !.kind = "error"]
<1>1. UNCHANGED <<ordwth2, cjhb, inb, sqls>> /\ Message(Reading, web) \in OrderOf(ReadKinds)
  BY OrderReadIs
<1>2. UNCHANGED outb \/ outb' = Append(outb, e)
  BY OrderReadIs
<1>3. e.kind = "error"
  BY <1>1 DEF OrderOf
<1> HIDE DEF e
<1>4. CASE UNCHANGED outb
  BY <1>1, <1>4, ConfirmStays
<1>5. CASE outb' = Append(outb, e)
  BY <1>1, <1>3, <1>5, ConfirmAppended
<1> QED  BY <1>2, <1>4, <1>5

LEMMA OrdersPushedConfirm == ASSUME TablesForm, ConfirmForm, Clear' => Clear, ProcShMessage PROVE ConfirmForm'
<1>1. inb' = inb \o dec.vec /\ UNCHANGED <<ordwth2, cjhb, outb, sqls>>
  BY DEF ProcShMessage, tabVars
<1>2. dec.vec \in Seq(OrderOf(ReadKinds)) /\ inb \in Seq(OrderOf(InKinds))
  BY DEF TablesForm
<1>3. \A j \in DOMAIN inb' : inb'[j].kind = "confirmed" => \E i \in DOMAIN inb : inb[i] = inb'[j]
  <2> DEFINE v == dec.vec
             n == Len(inb)
             m == inb \o v
  <2>1. /\ n \in Nat /\ DOMAIN inb = 1..n /\ DOMAIN m = 1..(n + Len(v)) /\ Len(v) \in Nat /\ DOMAIN v = 1..Len(v)
        /\ \A i \in DOMAIN m : m[i] = IF i <= n THEN inb[i] ELSE v[i - n]
    BY <1>2, ConcatProperties
  <2>2. \A i \in DOMAIN v : v[i].kind # "confirmed"
    <3>1. \A i \in DOMAIN v : v[i] \in OrderOf(ReadKinds)
      BY <1>2
    <3>2. \A o \in OrderOf(ReadKinds) : o.kind # "confirmed"
      BY DEF OrderOf, ReadKinds
    <3> QED  BY <3>1, <3>2
  <2> HIDE DEF n, m, v
  <2> SUFFICES ASSUME NEW j \in DOMAIN m, m[j].kind = "confirmed" PROVE \E i \in DOMAIN inb : inb[i] = m[j]
    BY <1>1 DEF m, v
  <2>3. CASE j <= n
    BY <2>1, <2>3
  <2>4. CASE ~(j <= n)
    <3>1. j - n \in DOMAIN v /\ m[j] = v[j - n]
      BY <2>1, <2>4
    <3> QED  BY <2>2, <3>1
  <2> QED  BY <2>3, <2>4
<1> QED  BY <1>1, <1>3 DEF ConfirmForm

\* A confirm that is taken becomes a statement, and the trade behind it too.
LEMMA ReportConfirms ==
    ASSUME TablesForm, MapForm, PartsForm, ConfirmForm, Clear' => Clear, Get_SHReport
    PROVE  ConfirmForm'
<1> DEFINE o == outb[1]
           n == Len(outb)
<1>1. outb # <<>> /\ o \in OrderOf(OutKinds) /\ outb' = Tail(outb) /\ UNCHANGED <<ordwth2, cjhb, inb>>
  BY ReportTaken DEF tabVars
<1>4. /\ n \in Nat \ {0} /\ DOMAIN outb = 1..n /\ DOMAIN outb' = 1..(n - 1) /\ Len(outb') = n - 1
      /\ \A i \in 1..(n - 1) : outb'[i] = outb[i + 1]
  BY <1>1 DEF TablesForm
<1> DEFINE before(r, j) == Announced(ordwth2, sqls, outb, r, j)
           after(r, j) == Announced(ordwth2, sqls', outb', r, j)
<1> SUFFICES ASSUME Clear', Clear
             PROVE  /\ \A j \in DOMAIN sqls' : sqls'[j].table = "cjhb" => Stated(ordwth2, sqls', sqls'[j].rec)
                    /\ \A j \in DOMAIN outb' : outb'[j].kind = "match" => after(outb'[j].rec, j)
                    /\ \A j \in DOMAIN inb : inb[j].kind = "confirmed" => after(inb[j].rec, n)
  <2>1. Len(outb') + 1 = n
    BY <1>4
  <2> HIDE DEF n, o
  <2>2. ConfirmForm /\ UNCHANGED <<ordwth2, cjhb, inb>>
    BY <1>1
  <2> QED  BY <2>1, <2>2 DEF ConfirmForm
<1>6. \A j \in DOMAIN sqls : sqls[j].table = "cjhb" => Stated(ordwth2, sqls, sqls[j].rec)
  BY DEF ConfirmForm
<1>7. \A j \in DOMAIN outb : outb[j].kind = "match" => before(outb[j].rec, j)
  BY DEF ConfirmForm
<1>8. \A j \in DOMAIN inb : inb[j].kind = "confirmed" => before(inb[j].rec, n + 1)
  BY DEF ConfirmForm
<1> HIDE DEF n, o
<1>5. /\ \A j \in DOMAIN sqls : j \in DOMAIN sqls' /\ sqls'[j] = sqls[j]
      /\ \A j \in DOMAIN sqls' : sqls'[j].table = "cjhb" =>
           (j \in DOMAIN sqls /\ sqls'[j] = sqls[j]) \/ (o.kind = "match" /\ sqls'[j].rec = o.rec)
      /\ o.kind = "confirm" =>
           \E j \in DOMAIN sqls' : sqls'[j].table = "ordwth2" /\ sqls'[j].rec = o.rec /\ sqls'[j].status \in Confirming
  <2>1. CASE UNCHANGED sqls /\ Silent(o)
    <3>1. o.kind # "confirm"
      <4> SUFFICES ASSUME o.kind = "confirm" PROVE FALSE
        OBVIOUS
      <4>1. o.rule \in ShRules /\ mem[o.rule] # NoRule /\ Missing(mem[o.rule].confirm)
        BY <2>1 DEF Silent, Known
      <4> QED  BY <4>1 DEF PartsForm, PartsFit, Lacking, Clear, Unconfirmed
    <3> QED  BY <2>1, <3>1
  <2>2. CASE \E row, p : Reported(o, p, row) /\ sqls' = Append(sqls, row)
    <3> DEFINE m == Len(sqls)
    <3>1. PICK row, p : Reported(o, p, row) /\ sqls' = Append(sqls, row)
      BY <2>2
    <3>2. /\ row.rec = o.rec /\ (row.table = "cjhb" => o.kind = "match")
          /\ o.kind = "confirm" => row.table = "ordwth2" /\ row.status \in Confirming
      BY <3>1 DEF Reported, Confirming
    <3>3. /\ m \in Nat /\ DOMAIN sqls = 1..m /\ DOMAIN sqls' = 1..(m + 1) /\ sqls'[m + 1] = row
          /\ \A i \in 1..m : sqls'[i] = sqls[i]
      BY <3>1 DEF TablesForm
    <3> HIDE DEF m
    <3>4. m + 1 \in DOMAIN sqls' /\ \A j \in DOMAIN sqls' : j \in DOMAIN sqls \/ j = m + 1
      BY <3>3
    <3> QED  BY <3>2, <3>3, <3>4
  <2> QED  BY <2>1, <2>2, ReportTaken DEF o
<1>9. \A r : Stated(ordwth2, sqls, r) => Stated(ordwth2, sqls', r)
  BY <1>5 DEF Stated
<1>10. o.kind = "confirm" => Stated(ordwth2, sqls', o.rec)
  BY <1>5 DEF Stated
<1>11. \A r, j : j \in 1..n /\ before(r, j + 1) => after(r, j)
  <2> SUFFICES ASSUME NEW r, NEW j \in 1..n, before(r, j + 1) PROVE after(r, j)
    OBVIOUS
  <2>1. CASE Stated(ordwth2, sqls, r)
    BY <1>9, <2>1 DEF Announced
  <2>2. CASE \E i \in DOMAIN outb : i < j + 1 /\ outb[i].rec = r /\ outb[i].kind = "confirm"
    <3>1. PICK i \in DOMAIN outb : i < j + 1 /\ outb[i].rec = r /\ outb[i].kind = "confirm"
      BY <2>2
    <3>2. CASE i = 1
      BY <1>10, <3>1, <3>2 DEF Announced, o
    <3>3. CASE i # 1
      <4>1. i - 1 \in DOMAIN outb' /\ i - 1 < j /\ outb'[i - 1] = outb[i]
        <5>1. i - 1 \in 1..(n - 1) /\ i - 1 < j /\ (i - 1) + 1 = i
          BY <1>4, <3>1, <3>3
        <5> QED  BY <1>4, <5>1
      <4> QED  BY <3>1, <4>1 DEF Announced
    <3> QED  BY <3>2, <3>3
  <2> QED  BY <2>1, <2>2 DEF Announced
<1>12. before(o.rec, 1) => Stated(ordwth2, sqls, o.rec)
  <2>1. \A i \in DOMAIN outb : ~(i < 1)
    BY <1>4
  <2> QED  BY <2>1 DEF Announced
<1> HIDE DEF before
<1>13. ASSUME NEW j \in DOMAIN sqls', sqls'[j].table = "cjhb" PROVE Stated(ordwth2, sqls', sqls'[j].rec)
  <2>1. CASE j \in DOMAIN sqls /\ sqls'[j] = sqls[j]
    BY <1>6, <1>9, <1>13, <2>1
  <2>2. CASE o.kind = "match" /\ sqls'[j].rec = o.rec
    <3>1. before(o.rec, 1)
      BY <1>4, <1>7, <2>2 DEF o
    <3> QED  BY <1>9, <1>12, <2>2, <3>1
  <2> QED  BY <1>5, <1>13, <2>1, <2>2
<1>14. ASSUME NEW j \in DOMAIN outb', outb'[j].kind = "match" PROVE after(outb'[j].rec, j)
  <2>1. j \in 1..n /\ j + 1 \in DOMAIN outb /\ outb'[j] = outb[j + 1]
    BY <1>4
  <2> QED  BY <1>7, <1>11, <1>14, <2>1
<1>15. \A j \in DOMAIN inb : inb[j].kind = "confirmed" => after(inb[j].rec, n)
  <2>1. n \in 1..n
    BY <1>4
  <2> QED  BY <1>8, <1>11, <2>1
<1> QED  BY <1>13, <1>14, <1>15

\* All statements are made, or one of them fails.
LEMMA SentConfirms ==
    ASSUME TablesForm, ConfirmForm, Clear' => Clear, Send_SH_ReportOrConfirm
    PROVE  ConfirmForm'
<1> SUFFICES ASSUME Clear', Clear PROVE ConfirmForm'
  BY DEF ConfirmForm
<1>1. /\ ordwth2' = ordwth2 \o RowsOf("ordwth2", sqls) /\ cjhb' = cjhb \o RowsOf("cjhb", sqls)
      /\ sqls' = <<>> /\ outb = <<>> /\ UNCHANGED <<inb, outb>>
  BY ReportsSentIs DEF Fails, Clear
<1> DEFINE t == RowsOf("ordwth2", sqls)
           u == RowsOf("cjhb", sqls)
           n == Len(ordwth2)
           k == Len(cjhb)
<1>2. sqls \in Seq(SqlRow) /\ ordwth2 \in Seq(TableRow) /\ cjhb \in Seq(TableRow)
  BY DEF TablesForm
<1>3. /\ t \in Seq(TableRow) /\ DOMAIN t = 1..Len(t)
      /\ \A i \in DOMAIN sqls : sqls[i].table = "ordwth2" => \E j \in DOMAIN t : t[j].rec = sqls[i].rec /\ t[j].status = sqls[i].status
  <2> DEFINE m == Mine("ordwth2", sqls)
  <2>1. /\ t \in Seq(TableRow) /\ DOMAIN t = DOMAIN m
        /\ \A j \in DOMAIN m : t[j].rec = sqls[m[j]].rec /\ t[j].status = sqls[m[j]].status
        /\ \A i \in DOMAIN sqls : sqls[i].table = "ordwth2" => \E j \in DOMAIN m : m[j] = i
    BY <1>2, RowsOfIs
  <2> HIDE DEF m, t
  <2> QED  BY <2>1
<1>4. /\ u \in Seq(TableRow)
      /\ \A j \in DOMAIN u : \E i \in DOMAIN sqls : sqls[i].table = "cjhb" /\ u[j].rec = sqls[i].rec
  <2> DEFINE m == Mine("cjhb", sqls)
  <2>1. /\ u \in Seq(TableRow) /\ DOMAIN u = DOMAIN m
        /\ \A j \in DOMAIN m : m[j] \in DOMAIN sqls /\ sqls[m[j]].table = "cjhb" /\ u[j].rec = sqls[m[j]].rec
    BY <1>2, RowsOfIs
  <2> HIDE DEF m, u
  <2> QED  BY <2>1
<1> HIDE DEF t, u
<1>5. /\ n \in Nat /\ DOMAIN ordwth2 = 1..n /\ Len(t) \in Nat /\ DOMAIN ordwth2' = 1..(n + Len(t))
      /\ \A i \in DOMAIN ordwth2' : ordwth2'[i] = IF i <= n THEN ordwth2[i] ELSE t[i - n]
  BY <1>1, <1>2, <1>3, ConcatProperties DEF t
<1>6. /\ k \in Nat /\ DOMAIN cjhb = 1..k /\ Len(u) \in Nat /\ DOMAIN u = 1..Len(u) /\ DOMAIN cjhb' = 1..(k + Len(u))
      /\ \A i \in DOMAIN cjhb' : cjhb'[i] = IF i <= k THEN cjhb[i] ELSE u[i - k]
  BY <1>1, <1>2, <1>4, ConcatProperties DEF u
<1> HIDE DEF n, k
<1>7. \A r : Filed(ordwth2, r) => Filed(ordwth2', r)
  BY <1>5 DEF Filed
<1>8. \A r : Stated(ordwth2, sqls, r) => Filed(ordwth2', r)
  <2> SUFFICES ASSUME NEW r, NEW i \in DOMAIN sqls, sqls[i].table = "ordwth2", sqls[i].rec = r, sqls[i].status \in Confirming
               PROVE  Filed(ordwth2', r)
    BY <1>7 DEF Stated
  <2>1. PICK j \in DOMAIN t : t[j].rec = r /\ t[j].status \in Confirming
    BY <1>3
  <2>2. n + j \in DOMAIN ordwth2' /\ ~(n + j <= n) /\ (n + j) - n = j
    BY <1>3, <1>5, <2>1
  <2>3. ordwth2'[n + j] = t[j]
    BY <1>5, <2>2
  <2> QED  BY <2>1, <2>2, <2>3 DEF Filed
<1>9. \A j \in DOMAIN cjhb : cjhb[j].rec # 0 => Filed(ordwth2, cjhb[j].rec)
  BY DEF ConfirmForm
<1>10. \A j \in DOMAIN sqls : sqls[j].table = "cjhb" => Stated(ordwth2, sqls, sqls[j].rec)
  BY DEF ConfirmForm
<1>11. ASSUME NEW j \in DOMAIN cjhb', cjhb'[j].rec # 0 PROVE Filed(ordwth2', cjhb'[j].rec)
  <2>1. CASE j <= k
    BY <1>6, <1>7, <1>9, <1>11, <2>1
  <2>2. CASE ~(j <= k)
    <3>1. j - k \in DOMAIN u /\ cjhb'[j] = u[j - k]
      BY <1>6, <2>2
    <3> QED  BY <1>4, <1>8, <1>10, <3>1
  <2> QED  BY <2>1, <2>2
<1>12. \A j \in DOMAIN inb : inb[j].kind = "confirmed" => Stated(ordwth2, sqls, inb[j].rec)
  <2>1. \A j \in DOMAIN inb : inb[j].kind = "confirmed" => Announced(ordwth2, sqls, outb, inb[j].rec, Len(outb) + 1)
    BY DEF ConfirmForm
  <2>2. DOMAIN outb = {}
    BY <1>1
  <2> QED  BY <2>1, <2>2 DEF Announced
<1>13. \A j \in DOMAIN inb : inb[j].kind = "confirmed" => Announced(ordwth2', <<>>, outb, inb[j].rec, Len(outb) + 1)
  BY <1>8, <1>12 DEF Announced, Stated
<1>14. DOMAIN outb' = {} /\ DOMAIN sqls' = {} /\ sqls' = <<>> /\ UNCHANGED <<inb, outb>>
  BY <1>1
<1> QED  BY <1>11, <1>13, <1>14 DEF ConfirmForm

LEMMA ConfirmStep ==
    ASSUME WireForm, WireForm', EarlyForm, FaultForm, TablesForm, MapForm, PartsForm, ConfirmForm, [GatewayNext]_gatewayVars
    PROVE  ConfirmForm'
<1>1. Clear' => Clear
  <2>1. faults \subseteq faults'
    BY FaultsGrow
  <2>2. Unconfirmed => Unconfirmed'
    BY VersionsGrow DEF Unconfirmed
  <2> QED  BY <2>1, <2>2 DEF Clear
<1>2. CASE UNCHANGED shVars
  BY <1>1, <1>2, ConfirmStays DEF shVars, tabVars, bufVars
<1>3. CASE Working
  <2>1. CASE SHOrderToFix(WebMan) \/ ProcShMessage \/ FlowStep \/ Get_SHReport \/ Send_SH_ReportOrConfirm
    BY <1>1, <2>1, OrderReadConfirms, OrdersPushedConfirm, FlowConfirms, ReportConfirms, SentConfirms
  <2>2. CASE Set_MutilOrd_Status
    BY <1>1, <2>2, ConfirmStays DEF Set_MutilOrd_Status, bufVars
  <2>3. CASE GetSHCjbh \/ SetCjbh \/ GetSHRec_Num \/ SetRecNum \/ SelectOrders(acked) \/ PolicySh \/ PolicySh_Rest
    <3>1. UNCHANGED <<ordwth2, cjhb, inb, outb, sqls>>
      BY <2>3 DEF GetSHCjbh, SetCjbh, GetSHRec_Num, SetRecNum, SelectOrders, PolicySh, PolicySh_Rest, D_Fails, tabVars, bufVars
    <3> QED  BY <1>1, <3>1, ConfirmStays
  <2> QED  BY <1>3, <2>1, <2>2, <2>3 DEF Working
<1>4. CASE Ordwth
  BY <1>1, <1>4, ConfirmStays DEF Ordwth, bufVars
<1>5. CASE Restart
  <2>1. UNCHANGED <<ordwth2, cjhb>> /\ inb' = <<>> /\ outb' = <<>> /\ sqls' = <<>>
    BY <1>5 DEF Restart, ShLost, tabVars
  <2> QED  BY <1>1, <2>1 DEF ConfirmForm
<1> QED  BY <1>2, <1>3, <1>4, <1>5, WorkersFrame

\* An order is read once and answered once, up to what failed.
LEMMA OrdersReportedHolds == ASSUME TablesForm, ReadForm, AnswersForm, ConfirmForm PROVE OrdersReported
<1>1. ASSUME NEW r \in DOMAIN ordwth, NEW i \in DOMAIN cjhb, cjhb[i].rec = r, Clear
      PROVE  \E j \in {l \in DOMAIN ordwth2 : ordwth2[l].rec = r} : ordwth2[j].status \in {"O", "rule"}
  <2>1. r # 0
    BY DEF TablesForm
  <2>2. Filed(ordwth2, r)
    BY <1>1, <2>1 DEF ConfirmForm
  <2> QED  BY <2>2 DEF Filed, Confirming
<1>2. ReportsOfOrders
  BY <1>1, AnsweredOnce DEF ReportsOfOrders, Clear
<1> QED  BY <1>2, ReadAgainHolds DEF OrdersReported

-----------------------------------------------------------------------------
(* The versions the Shanghai connection is told of                         *)

LEMMA HandMoves ==
    ASSUME HandForm, [GatewayNext]_gatewayVars
    PROVE  rcv'.msg \in {rcv.msg, NoMsg} \/ (toCli # <<>> /\ rcv'.msg = toCli[1])
<1>1. CASE Client
  <2>1. CASE ChangeLinkRules
    BY <2>1 DEF ChangeLinkRules, ClearLinkRules, InsertLinkRule, LinkRulesChanged, RejectLinkRules, Takes, Done, Free, Msg, HandForm
  <2>2. CASE MatchRuleMsg(Normal) \/ Etfinfo(Normal)
    BY <2>2 DEF MatchRuleMsg, Etfinfo, Takes, Done, GoesOn, Free, Msg
  <2>3. CASE RegisterReport \/ ParamReport \/ SwitchMode(Normal) \/ ChangeLinkStrategy
    BY <2>3 DEF RegisterReport, ParamReport, SwitchMode, ChangeLinkStrategy, Takes, Done, GoesOn, Free, Msg
  <2> QED  BY <1>1, <2>1, <2>2, <2>3, ClientFrame
<1>2. CASE Start
  BY <1>2, StartFrame DEF StartLeaves
<1>3. CASE Restart
  BY <1>3 DEF Restart, CliLost, Free
<1>4. CASE Environment
  BY <1>4 DEF Environment, WebServer, LoseConnection, cliVars
<1>5. CASE Shanghai \/ RestartRequest \/ UNCHANGED gatewayVars
  BY <1>5 DEF Shanghai, RestartRequest, gatewayVars, cliVars
<1> QED  BY <1>1, <1>2, <1>3, <1>4, <1>5 DEF GatewayNext

\* Who changes the versions the Shanghai connection is to have.
Configures == ParamReport /\ \A r \in ShRules : times'[ShKey][r] = Msg.sh[r]
Clears == ClearLinkRules /\ Msg.key = ShKey /\ rcv'.msg = Msg /\ \A r \in ShRules : times'[ShKey][r] = 0
Inserts == /\ InsertLinkRule /\ rcv.msg.key = ShKey /\ rcv'.msg = rcv.msg
           /\ \A r \in ShRules : times'[ShKey][r] \in {times[ShKey][r], rcv.msg.times[r]}

LEMMA TimesMoves ==
    ASSUME WireForm, HandForm, TimesForm, [GatewayNext]_gatewayVars
    PROVE  \/ times'[ShKey] = times[ShKey]
           \/ Client /\ (Configures \/ Clears \/ Inserts)
           \/ Restart /\ \A r \in ShRules : times'[ShKey][r] = 0
<1>0. ShKey \in DOMAIN times /\ times[ShKey] \in [Rules -> 0..MaxVer] /\ \A r \in ShRules : r \in Rules
  BY ShConnAssumption DEF TimesForm, Rules
<1>1. CASE Start
  BY <1>1, StartFrame DEF StartLeaves
<1>2. CASE Client
  <2>1. CASE ParamReport
    <3>1. CASE times' = LinkMatchRuleRelations(Msg)
      <4>1. times' = [times EXCEPT ![ShKey] = Msg.sh, ![SzComp] = Msg.sz] /\ SzComp # ShKey
        BY <3>1, ClienterAssumption DEF LinkMatchRuleRelations
      <4>2. times'[ShKey] = Msg.sh
        BY <1>0, <4>1
      <4> QED  BY <1>2, <2>1, <4>2 DEF Configures
    <3> QED  BY <2>1, <3>1 DEF ParamReport
  <2>2. CASE ClearLinkRules
    <3> DEFINE z == [r \in Rules |-> 0]
    <3>1. times' = [times EXCEPT ![Msg.key] = z] /\ rcv'.msg = Msg
      BY <2>2 DEF ClearLinkRules
    <3>2. CASE Msg.key = ShKey
      <4>1. times'[ShKey] = z
        <5> HIDE DEF z
        <5> QED  BY <1>0, <3>1, <3>2
      <4> QED  BY <1>0, <1>2, <2>2, <3>1, <3>2, <4>1 DEF Clears
    <3>3. CASE Msg.key # ShKey
      BY <3>1, <3>3
    <3> QED  BY <3>2, <3>3
  <2>3. CASE InsertLinkRule
    <3> DEFINE k == rcv.msg.key
               r0 == rcv.todo[1]
               t == rcv.msg.times
    <3>1. times' = [times EXCEPT ![k][r0] = t[r0]] /\ rcv'.msg = rcv.msg
      BY <2>3 DEF InsertLinkRule, HandForm
    <3>2. r0 \in Rules
      BY <2>3 DEF InsertLinkRule, HandForm
    <3>3. CASE k = ShKey
      <4>1. \A r \in ShRules : times'[ShKey][r] \in {times[ShKey][r], t[r]}
        <5> HIDE DEF t, r0, k
        <5> QED  BY <1>0, <3>1, <3>2, <3>3
      <4> QED  BY <1>2, <2>3, <3>1, <3>3, <4>1 DEF Inserts
    <3>4. CASE k # ShKey
      <4> HIDE DEF t, r0, k
      <4> QED  BY <3>1, <3>4
    <3> QED  BY <3>3, <3>4
  <2>4. ParamReport \/ ClearLinkRules \/ InsertLinkRule \/ UNCHANGED times
    BY <1>2, ClientFrame DEF RegisterReport, SwitchMode, ChangeLinkStrategy, ChangeLinkRules, LinkRulesChanged, RejectLinkRules, MatchRuleMsg, Etfinfo
  <2> QED  BY <2>1, <2>2, <2>3, <2>4
<1>3. CASE Environment \/ Shanghai \/ RestartRequest
  BY <1>3 DEF Environment, Shanghai, RestartRequest
<1>4. CASE Restart
  <2>1. times' = NoTimes
    BY <1>4 DEF Restart, ShLost
  <2> QED  BY <1>0, <1>4, <2>1, ShConnAssumption DEF NoTimes
<1>5. CASE UNCHANGED gatewayVars
  BY <1>5 DEF gatewayVars
<1> QED  BY <1>1, <1>2, <1>3, <1>4, <1>5 DEF GatewayNext

\* No version it is told of is ahead of the web server's.
NotAhead(m, v) ==
    \A r \in ShRules : /\ m.type = "links" /\ m.key = ShKey => m.times[r] <= v[r]
                       /\ m.type = "param" => m.sh[r] <= v[r]
ToldForm ==
    /\ \A r \in ShRules : times[ShKey][r] <= srv.ver[r]
    /\ NotAhead(rcv.msg, srv.ver)
    /\ \A i \in DOMAIN toCli : NotAhead(toCli[i], srv.ver)

LEMMA ToldInit == GatewayInit => ToldForm
<1> SUFFICES ASSUME GatewayInit PROVE ToldForm
  OBVIOUS
<1>1. /\ times = NoTimes /\ srv.ver = [r \in Rules |-> 1] /\ rcv.msg.type = "none" /\ toCli = <<>>
  BY DEF GatewayInit, ShInit, CliInit, Free, NoMsg
<1> QED  BY <1>1, ShConnAssumption DEF ToldForm, NotAhead, NoTimes, Rules

LEMMA NotAheadGrows ==
    ASSUME WireForm, WireForm', Grows, NEW m \in FromServer \cup {NoMsg}, NotAhead(m, srv.ver)
    PROVE  NotAhead(m, srv'.ver)
<1> SUFFICES ASSUME NEW r \in ShRules
             PROVE  /\ m.type = "links" /\ m.key = ShKey => m.times[r] <= srv'.ver[r]
                    /\ m.type = "param" => m.sh[r] <= srv'.ver[r]
  BY DEF NotAhead
<1>1. r \in Rules /\ srv.ver[r] \in Nat /\ srv'.ver[r] \in Nat /\ srv.ver[r] <= srv'.ver[r]
  <2>1. r \in Rules
    BY DEF Rules
  <2>2. srv'.ver[r] \in 1..MaxVer
    BY <2>1 DEF WireForm, Server
  <2> QED  BY <2>1, <2>2, ServerIs, ClienterAssumption DEF Grows
<1>2. CASE m.type = "links" /\ m.key = ShKey
  <2>1. m \in FromServer
    BY <1>2 DEF NoMsg
  <2>2. m.times \in [Rules -> 0..MaxVer]
    BY <1>2, <2>1, LinkMsgIs, MarketOnly
  <2>3. m.times[r] \in Nat /\ m.times[r] <= srv.ver[r]
    BY <1>1, <1>2, <2>2, ClienterAssumption DEF NotAhead
  <2> QED  BY <1>1, <1>2, <2>3
<1>3. CASE m.type = "param"
  <2>1. m \in FromServer
    BY <1>3 DEF NoMsg
  <2>2. m.sh \in [Rules -> 0..MaxVer]
    BY <1>3, <2>1, ParamMsgIs, LinkedIs
  <2>3. m.sh[r] \in Nat /\ m.sh[r] <= srv.ver[r]
    BY <1>1, <1>3, <2>2, ClienterAssumption DEF NotAhead
  <2> QED  BY <1>1, <1>3, <2>3
<1> QED  BY <1>2, <1>3

LEMMA NotAheadNow == ASSUME WireForm', NEW m \in FromServer, UpToDate(m) PROVE NotAhead(m, srv'.ver)
<1>1. ASSUME NEW r \in ShRules PROVE Times(ShKey)[r] <= srv'.ver[r]
  <2>1. r \in Rules
    BY DEF Rules
  <2>2. srv'.ver[r] \in 1..MaxVer
    BY <2>1 DEF WireForm, Server
  <2> QED  BY <2>1, <2>2, ClienterAssumption DEF Times
<1> QED  BY <1>1 DEF NotAhead, UpToDate

LEMMA ToldStep ==
    ASSUME WireForm, WireForm', HandForm, TimesForm, ToldForm, [GatewayNext]_gatewayVars
    PROVE  ToldForm'
<1>0. Grows /\ toCli \in Seq(FromServer)
  BY ChannelStep DEF WireForm
<1>a. \A i \in DOMAIN toCli : toCli[i] \in FromServer /\ NotAhead(toCli[i], srv.ver) /\ NotAhead(toCli[i], srv'.ver)
  <2> TAKE i \in DOMAIN toCli
  <2>1. toCli[i] \in FromServer /\ NotAhead(toCli[i], srv.ver)
    BY <1>0 DEF ToldForm
  <2> QED  BY <1>0, <2>1, NotAheadGrows
<1>b. toCli # <<>> => 1 \in DOMAIN toCli
  BY <1>0
<1>1. NotAhead(rcv'.msg, srv'.ver)
  <2>1. NotAhead(NoMsg, srv'.ver)
    BY DEF NotAhead, NoMsg
  <2>2. NotAhead(rcv.msg, srv'.ver)
    <3>1. rcv.msg \in FromServer \cup {NoMsg} /\ NotAhead(rcv.msg, srv.ver)
      BY DEF HandForm, ToldForm
    <3> QED  BY <1>0, <3>1, NotAheadGrows
  <2> QED  BY <1>a, <1>b, <2>1, <2>2, HandMoves
<1>2. \A i \in DOMAIN toCli' : NotAhead(toCli'[i], srv'.ver)
  <2>1. CASE UNCHANGED toCli \/ toCli' = <<>>
    BY <1>a, <2>1
  <2>2. CASE toCli # <<>> /\ toCli' = Tail(toCli)
    <3>1. \A i \in DOMAIN toCli' : i + 1 \in DOMAIN toCli /\ toCli'[i] = toCli[i + 1]
      BY <1>0, <2>2
    <3> QED  BY <1>a, <3>1
  <2>3. CASE \E m \in FromServer : toCli' = Append(toCli, m) /\ UpToDate(m)
    <3>1. PICK m \in FromServer : toCli' = Append(toCli, m) /\ UpToDate(m)
      BY <2>3
    <3>2. \A i \in DOMAIN toCli' : toCli'[i] = m \/ (i \in DOMAIN toCli /\ toCli'[i] = toCli[i])
      BY <1>0, <3>1, AppendProperties
    <3> QED  BY <1>a, <3>1, <3>2, NotAheadNow
  <2> QED  BY <2>1, <2>2, <2>3, ChannelStep
<1>3. ASSUME NEW r \in ShRules PROVE times'[ShKey][r] <= srv'.ver[r]
  <2>1. r \in Rules /\ srv.ver[r] \in Nat /\ srv'.ver[r] \in Nat /\ srv.ver[r] <= srv'.ver[r]
    <3>1. r \in Rules
      BY DEF Rules
    <3>2. srv'.ver[r] \in 1..MaxVer
      BY <3>1 DEF WireForm, Server
    <3> QED  BY <1>0, <3>1, <3>2, ServerIs, ClienterAssumption DEF Grows
  <2>2. times[ShKey][r] <= srv'.ver[r]
    <3>1. times[ShKey][r] \in Nat
      BY <2>1, ShConnAssumption, ClienterAssumption DEF TimesForm
    <3>2. times[ShKey][r] <= srv.ver[r]
      BY DEF ToldForm
    <3> QED  BY <2>1, <3>1, <3>2
  <2>3. CASE Configures
    <3>1. toCli # <<>> /\ Msg = toCli[1] /\ Msg.type = "param" /\ times'[ShKey][r] = Msg.sh[r]
      BY <2>3 DEF Configures, ParamReport, Takes, Msg
    <3> QED  BY <1>a, <1>b, <3>1 DEF NotAhead
  <2>4. CASE Inserts
    <3>1. rcv.msg.type = "links" /\ rcv.msg.key = ShKey /\ rcv'.msg = rcv.msg /\ times'[ShKey][r] \in {times[ShKey][r], rcv.msg.times[r]}
      BY <2>4 DEF Inserts, InsertLinkRule, Handles
    <3>2. rcv.msg.times[r] <= srv'.ver[r]
      BY <1>1, <3>1 DEF NotAhead
    <3> QED  BY <2>2, <3>1, <3>2
  <2> QED  BY <2>1, <2>2, <2>3, <2>4, TimesMoves DEF Clears
<1> QED  BY <1>1, <1>2, <1>3 DEF ToldForm

-----------------------------------------------------------------------------
(* The request for the configuration and the connection                    *)

ParamAsks == {m \in ToServer : m.type = "param"}
ParamAnswers == {m \in FromServer : m.type = "param"}

\* The request, its answer and the event the main thread waits for are one
\* at most, and none once the main thread went on.
Awaited == Count(toSrv, ParamAsks) + Count(toCli, ParamAnswers) + IF "param" \in woken THEN 1 ELSE 0
ParamForm == pc \in Running => Awaited <= IF pc = "asked" THEN 1 ELSE 0

LEMMA LastIn == ASSUME NEW S, NEW s \in Seq(S), NEW m, Append(s, m) \in Seq(S) PROVE m \in S
<1> DEFINE u == Append(s, m)
<1>1. Len(u) = Len(s) + 1 /\ u[Len(s) + 1] = m /\ Len(s) \in Nat
  OBVIOUS
<1>2. \A i \in 1..Len(u) : u[i] \in S
  OBVIOUS
<1> HIDE DEF u
<1> QED  BY <1>1, <1>2

LEMMA AwaitedIs ==
    WireForm => Count(toSrv, ParamAsks) \in Nat /\ Count(toCli, ParamAnswers) \in Nat
BY HitsFinite DEF WireForm

LEMMA AsksSame ==
    ASSUME WireForm, WireForm', toSrv' = toSrv \/ \E m : toSrv' = Append(toSrv, m) /\ m.type # "param"
    PROVE  Count(toSrv', ParamAsks) = Count(toSrv, ParamAsks)
<1>1. CASE \E m : toSrv' = Append(toSrv, m) /\ m.type # "param"
  <2>1. PICK m : toSrv' = Append(toSrv, m) /\ m.type # "param"
    BY <1>1
  <2>2. m \in ToServer /\ m \notin ParamAsks
    BY <2>1, LastIn DEF WireForm, ParamAsks
  <2>3. Count(toSrv', ParamAsks) = Count(toSrv, ParamAsks) + 0
    BY <2>1, <2>2, CountAppend DEF WireForm
  <2> QED  BY <2>3, AwaitedIs
<1> QED  BY <1>1

LEMMA AnswersSame ==
    ASSUME WireForm, WireForm',
           \/ toCli' = toCli
           \/ toCli # <<>> /\ toCli' = Tail(toCli)
           \/ \E m : toCli' = Append(toCli, m) /\ m.type # "param"
    PROVE  /\ Count(toCli', ParamAnswers) <= Count(toCli, ParamAnswers)
           /\ toCli # <<>> /\ toCli' = Tail(toCli) /\ toCli[1].type = "param" =>
                Count(toCli, ParamAnswers) = Count(toCli', ParamAnswers) + 1
<1>0. Count(toCli, ParamAnswers) \in Nat /\ Count(toCli', ParamAnswers) \in Nat
  BY HitsFinite DEF WireForm
<1>1. CASE \E m : toCli' = Append(toCli, m) /\ m.type # "param"
  <2>1. PICK m : toCli' = Append(toCli, m) /\ m.type # "param"
    BY <1>1
  <2>2. m \in FromServer /\ m \notin ParamAnswers
    BY <2>1, LastIn DEF WireForm, ParamAnswers
  <2>3. Count(toCli', ParamAnswers) = Count(toCli, ParamAnswers) + 0
    BY <2>1, <2>2, CountAppend DEF WireForm
  <2>4. ~(toCli # <<>> /\ toCli' = Tail(toCli))
    <3>1. toCli # <<>> => Len(Tail(toCli)) = Len(toCli) - 1 /\ Len(toCli') = Len(toCli) + 1 /\ Len(toCli) \in Nat
      BY <2>1 DEF WireForm
    <3> QED  BY <3>1
  <2> QED  BY <1>0, <2>3, <2>4
<1>2. CASE toCli # <<>> /\ toCli' = Tail(toCli)
  <2>1. Count(toCli, ParamAnswers) = Count(toCli', ParamAnswers) + IF toCli[1] \in ParamAnswers THEN 1 ELSE 0
    BY <1>2, CountTail DEF WireForm
  <2>2. toCli[1].type = "param" => toCli[1] \in ParamAnswers
    BY <1>2, TailForm DEF WireForm, ParamAnswers
  <2> QED  BY <1>0, <2>1, <2>2
<1>3. CASE toCli' = toCli /\ ~(toCli # <<>> /\ toCli' = Tail(toCli))
  BY <1>0, <1>3
<1> QED  BY <1>1, <1>2, <1>3

LEMMA ParamInit == GatewayInit => ParamForm
BY DEF GatewayInit, ParamForm, Running

LEMMA ParamStays ==
    ASSUME WireForm, WireForm', ParamForm, pc' \in Running, pc \in Running, (pc' = "asked") = (pc = "asked"),
           "param" \in woken' => "param" \in woken,
           toSrv' = toSrv \/ \E m : toSrv' = Append(toSrv, m) /\ m.type # "param",
           \/ toCli' = toCli
           \/ toCli # <<>> /\ toCli' = Tail(toCli)
           \/ \E m : toCli' = Append(toCli, m) /\ m.type # "param"
    PROVE  ParamForm'
<1>1. Count(toSrv', ParamAsks) = Count(toSrv, ParamAsks) /\ Count(toCli', ParamAnswers) <= Count(toCli, ParamAnswers)
  BY AsksSame, AnswersSame
<1>2. Count(toSrv, ParamAsks) \in Nat /\ Count(toCli, ParamAnswers) \in Nat /\ Count(toCli', ParamAnswers) \in Nat
  BY HitsFinite DEF WireForm
<1>3. Awaited' = Count(toSrv', ParamAsks) + Count(toCli', ParamAnswers) + IF "param" \in woken' THEN 1 ELSE 0
  BY DEF Awaited, ParamAsks, ParamAnswers
<1>4. Awaited' <= Awaited /\ Awaited \in Nat /\ Awaited' \in Nat
  BY <1>1, <1>2, <1>3 DEF Awaited
<1> QED  BY <1>4 DEF ParamForm

LEMMA ParamStart == ASSUME WireForm, WireForm', EarlyForm, QuietForm, ParamForm, Start PROVE ParamForm'
<1>1. UNCHANGED <<toCli, rcv>>
  BY StartFrame DEF StartLeaves
<1>2. CASE CheckLicense \/ ReadConfig \/ CheckMysql \/ LoadConfigFromDb \/ ReadId
  <2>1. pc \in Before /\ pc' \in Before \cup {"5", "ended"} /\ UNCHANGED <<toSrv, woken>>
    BY <1>2 DEF CheckLicense, ReadConfig, CheckMysql, LoadConfigFromDb, ReadId, Before, Ends
  <2>2. toSrv' = <<>> /\ toCli' = <<>> /\ woken' = {}
    BY <1>1, <2>1 DEF EarlyForm
  <2>3. Count(toSrv', ParamAsks) = 0 /\ Count(toCli', ParamAnswers) = 0
    BY <2>2, CountNone
  <2>4. Awaited' = Count(toSrv', ParamAsks) + Count(toCli', ParamAnswers) + IF "param" \in woken' THEN 1 ELSE 0
    BY DEF Awaited, ParamAsks, ParamAnswers
  <2> QED  BY <2>2, <2>3, <2>4 DEF ParamForm
<1>3. CASE Connect \/ KeepId \/ SaveIdFromWeb \/ SaveIdToFile \/ Wait("registered", "register", "savedb")
  <2>1. pc' \notin Running
    BY <1>3 DEF Connect, KeepId, SaveIdFromWeb, SaveIdToFile, Wait, Ends, Running
  <2> QED  BY <2>1 DEF ParamForm
<1>4. CASE AskConfig
  <2>1. pc = "4_4" /\ pc' = "asked" /\ toSrv = <<>> /\ toCli' = <<>> /\ woken' = {}
    BY <1>1, <1>4 DEF AskConfig, QuietForm, ClientWaits
  <2>2. Count(toSrv', ParamAsks) <= 1 /\ Count(toSrv', ParamAsks) \in Nat
    <3> DEFINE ask == [type |-> "param"]
    <3>1. toSrv' \in {<<>>, <<ask>>} /\ ask \in ToServer
      BY <1>4, <2>1 DEF AskConfig, GetParamFromServer, ToServer
    <3> HIDE DEF ask
    <3>2. Count(<<>>, ParamAsks) = 0 /\ Count(<<ask>>, ParamAsks) = IF ask \in ParamAsks THEN 1 ELSE 0
      BY <3>1, CountNone, CountOne
    <3> QED  BY <3>1, <3>2
  <2>3. Count(toCli', ParamAnswers) = 0
    BY <2>1, CountNone
  <2>4. Awaited' = Count(toSrv', ParamAsks) + Count(toCli', ParamAnswers) + IF "param" \in woken' THEN 1 ELSE 0
    BY DEF Awaited, ParamAsks, ParamAnswers
  <2> QED  BY <2>1, <2>2, <2>3, <2>4 DEF ParamForm
<1>5. CASE Wait("asked", "param", "5")
  <2>1. /\ pc = "asked" /\ UNCHANGED toSrv /\ woken' = woken \ {"param"}
        /\ pc' = IF "param" \in woken THEN "5" ELSE "ended"
    BY <1>5 DEF Wait
  <2>2. CASE "param" \notin woken
    BY <2>1, <2>2 DEF ParamForm, Running
  <2>3. CASE "param" \in woken
    <3>1. Awaited <= 1 /\ Count(toSrv, ParamAsks) \in Nat /\ Count(toCli, ParamAnswers) \in Nat
      BY <2>1, AwaitedIs DEF ParamForm, Running
    <3>2. Awaited' = Count(toSrv, ParamAsks) + Count(toCli, ParamAnswers) + IF "param" \in woken' THEN 1 ELSE 0
      BY <1>1, <2>1 DEF Awaited, ParamAsks, ParamAnswers
    <3>3. Awaited' = 0
      BY <2>1, <2>3, <3>1, <3>2 DEF Awaited
    <3> QED  BY <3>3 DEF ParamForm
  <2> QED  BY <2>2, <2>3
<1>6. CASE CheckRedis \/ CheckRules \/ ThreadsStartup
  <2>1. pc \in Running \ {"asked"} /\ pc' \in (Running \ {"asked"}) \cup {"ended"} /\ woken' = woken
    BY <1>6 DEF CheckRedis, CheckRules, ThreadsStartup, Running, Ends
  <2>2. toSrv' = toSrv \/ \E m : toSrv' = Append(toSrv, m) /\ m.type = "rules"
    BY <1>6, ClientSends DEF CheckRedis, CheckRules, ThreadsStartup
  <2>3. CASE pc' \in Running
    BY <1>1, <2>1, <2>2, <2>3, ParamStays
  <2>4. CASE pc' \notin Running
    BY <2>4 DEF ParamForm
  <2> QED  BY <2>3, <2>4
<1> QED  BY <1>2, <1>3, <1>4, <1>5, <1>6 DEF Start

LEMMA ParamClient == ASSUME WireForm, WireForm', ParamForm, Client PROVE ParamForm'
<1>1. UNCHANGED pc
  BY ClientFrame DEF mainVars
<1>2. CASE pc \notin Running
  BY <1>1, <1>2 DEF ParamForm
<1>3. CASE pc \in Running /\ ParamReport
  <2>1. /\ toCli # <<>> /\ toCli' = Tail(toCli) /\ toCli[1].type = "param" /\ UNCHANGED toSrv
    BY <1>3 DEF ParamReport, Takes, Msg
  <2>2. Count(toCli, ParamAnswers) = Count(toCli', ParamAnswers) + 1
    BY <2>1, AnswersSame
  <2>3. Count(toSrv, ParamAsks) \in Nat /\ Count(toCli, ParamAnswers) \in Nat /\ Count(toCli', ParamAnswers) \in Nat
    BY HitsFinite DEF WireForm
  <2>4. Awaited' = Count(toSrv, ParamAsks) + Count(toCli', ParamAnswers) + IF "param" \in woken' THEN 1 ELSE 0
    BY <2>1 DEF Awaited, ParamAsks, ParamAnswers
  <2>5. Awaited' <= Awaited /\ Awaited \in Nat /\ Awaited' \in Nat
    BY <2>2, <2>3, <2>4 DEF Awaited
  <2> QED  BY <1>1, <2>5 DEF ParamForm
<1>4. CASE pc \in Running /\ ~ParamReport
  <2>1. toCli' = toCli \/ (toCli # <<>> /\ toCli' = Tail(toCli))
    BY ClientFrame DEF RegisterReport, ParamReport, SwitchMode, ChangeLinkStrategy, ChangeLinkRules, ClearLinkRules, InsertLinkRule, LinkRulesChanged, RejectLinkRules,
     MatchRuleMsg, Etfinfo, Takes, Handles
  <2>2. UNCHANGED <<up, toSrv>> \/ Reply \/ CheckLinkRuleSync
    BY ClientFrame DEF RegisterReport, ParamReport, SwitchMode, ChangeLinkStrategy, ChangeLinkRules, ClearLinkRules, InsertLinkRule, LinkRulesChanged, RejectLinkRules,
     MatchRuleMsg, Etfinfo
  <2>3. toSrv' = toSrv \/ \E m : toSrv' = Append(toSrv, m) /\ m.type = "rules"
    BY <2>2, ClientSends
  <2>4. woken' \subseteq woken \cup {"register"}
    BY <1>4, ClientFrame DEF RegisterReport, SwitchMode, ChangeLinkStrategy, ChangeLinkRules, MatchRuleMsg, Etfinfo
  <2> QED  BY <1>1, <1>4, <2>1, <2>3, <2>4, ParamStays
<1> QED  BY <1>2, <1>3, <1>4

LEMMA ParamServer == ASSUME WireForm, WireForm', ParamForm, Environment PROVE ParamForm'
<1>1. UNCHANGED <<pc, woken>>
  BY DEF Environment, mainVars, WebServer, LoseConnection
<1>2. CASE pc \notin Running
  BY <1>1, <1>2 DEF ParamForm
<1>3. CASE pc \in Running
  <2>1. CASE UNCHANGED <<srv, cliVars, woken, id>>
    BY <1>1, <1>3, <2>1, ParamStays DEF cliVars
  <2>2. CASE WebServer(pc = "0" /\ starts > 1) /\ ~Answer
    <3>1. UNCHANGED toSrv /\ (EditRule \/ Relink \/ NewStrategy \/ NewEtf \/ Switch \/ RestartAsked)
      BY <2>2 DEF WebServer
    <3>2. UNCHANGED toCli \/ \E m \in FromServer : toCli' = Append(toCli, m) /\ m.type \notin {"param", "rules"}
      BY <3>1, ServerTells
    <3> QED  BY <1>1, <1>3, <3>1, <3>2, ParamStays
  <2>3. CASE Answer
    <3>1. PICK m \in FromServer : toSrv # <<>> /\ toSrv' = Tail(toSrv) /\ toCli' = Append(toCli, m) /\ m.type = toSrv[1].type
      BY <2>3, ServerAnswers
    <3>2. toSrv[1] \in ToServer
      BY <3>1 DEF WireForm
    <3> DEFINE one == IF m.type = "param" THEN 1 ELSE 0
    <3>3. Count(toSrv, ParamAsks) = Count(toSrv', ParamAsks) + one
      <4>1. toSrv[1] \in ParamAsks <=> m.type = "param"
        BY <3>1, <3>2 DEF ParamAsks
      <4> QED  BY <3>1, <4>1, CountTail DEF WireForm
    <3>4. Count(toCli', ParamAnswers) = Count(toCli, ParamAnswers) + one
      <4>1. m \in ParamAnswers <=> m.type = "param"
        BY DEF ParamAnswers
      <4> QED  BY <3>1, <4>1, CountAppend DEF WireForm
    <3>5. /\ Count(toSrv, ParamAsks) \in Nat /\ Count(toCli, ParamAnswers) \in Nat
          /\ Count(toSrv', ParamAsks) \in Nat /\ Count(toCli', ParamAnswers) \in Nat
      BY HitsFinite DEF WireForm
    <3>6. Awaited' = Count(toSrv', ParamAsks) + Count(toCli', ParamAnswers) + IF "param" \in woken THEN 1 ELSE 0
      BY <1>1 DEF Awaited, ParamAsks, ParamAnswers
    <3>7. Awaited' = Awaited
      BY <3>3, <3>4, <3>5, <3>6 DEF Awaited
    <3> QED  BY <1>1, <3>7 DEF ParamForm
  <2>4. CASE LoseConnection
    <3>1. Count(toSrv', ParamAsks) = 0 /\ Count(toCli', ParamAnswers) = 0
      BY <2>4, CountNone DEF LoseConnection
    <3>2. Awaited' = Count(toSrv', ParamAsks) + Count(toCli', ParamAnswers) + IF "param" \in woken THEN 1 ELSE 0
      BY <1>1 DEF Awaited, ParamAsks, ParamAnswers
    <3>3. Awaited' <= Awaited /\ Awaited \in Nat /\ Awaited' \in Nat
      BY <3>1, <3>2, AwaitedIs DEF Awaited
    <3> QED  BY <1>1, <3>3 DEF ParamForm
  <2> QED  BY <2>1, <2>2, <2>3, <2>4 DEF Environment
<1> QED  BY <1>2, <1>3

LEMMA ParamStep == ASSUME WireForm, WireForm', EarlyForm, QuietForm, ParamForm, [GatewayNext]_gatewayVars PROVE ParamForm'
<1>1. CASE Start \/ Client \/ Environment
  BY <1>1, ParamStart, ParamClient, ParamServer
<1>2. CASE Shanghai \/ UNCHANGED gatewayVars
  <2>1. UNCHANGED <<pc, woken, toSrv, toCli>>
    BY <1>2 DEF Shanghai, gatewayVars, cliVars, mainVars
  <2>2. UNCHANGED Awaited
    BY <2>1 DEF Awaited, ParamAsks, ParamAnswers
  <2> QED  BY <2>1, <2>2 DEF ParamForm
<1>3. CASE RestartRequest \/ Restart
  <2>1. pc' \notin Running
    BY <1>3 DEF RestartRequest, Restart, Ends, Running
  <2> QED  BY <2>1 DEF ParamForm
<1> QED  BY <1>1, <1>2, <1>3 DEF GatewayNext

\* Once it was made and nothing failed the connection is there.
UpForm == faults = {} /\ WebMan /\ pc \in ClientWaits \cup Running => up

LEMMA UpInit == GatewayInit => UpForm
BY DEF GatewayInit, UpForm, ClientWaits, Running

LEMMA UpKept == ASSUME Reply \/ CheckLinkRuleSync, up PROVE up'
BY DEF Reply, CheckLinkRuleSync, GetMatchRuleContent, SendMsgToServer, Reconnect

LEMMA UpStep == ASSUME FaultForm, UpForm, [GatewayNext]_gatewayVars PROVE UpForm'
<1>0. faults \subseteq faults' /\ UNCHANGED mode /\ (WebMan' <=> WebMan)
  BY FaultsGrow, ModeStays
<1>1. SUFFICES ASSUME faults' = {}, WebMan, pc' \in ClientWaits \cup Running PROVE up'
  BY <1>0 DEF UpForm
<1>2. faults = {} /\ (pc \in ClientWaits \cup Running => up)
  BY <1>0, <1>1 DEF UpForm
<1>3. CASE Start
  <2>1. CASE CheckLicense \/ ReadConfig \/ CheckMysql \/ LoadConfigFromDb \/ ReadId
    <3>1. pc' \in Before \cup {"ended"}
      BY <1>1, <2>1 DEF CheckLicense, ReadConfig, CheckMysql, LoadConfigFromDb, ReadId, Before, Ends
    <3> QED  BY <1>1, <3>1 DEF Before, ClientWaits, Running
  <2>2. CASE Connect
    BY <1>1, <2>2 DEF Connect, Ends, ClientWaits, Running
  <2>3. CASE /\ UNCHANGED up
             /\ KeepId \/ SaveIdFromWeb \/ SaveIdToFile \/ AskConfig \/ Wait("registered", "register", "savedb")
                \/ Wait("asked", "param", "5") \/ CheckRedis \/ ThreadsStartup
    <3>1. pc \in ClientWaits \cup Running
      BY <2>3 DEF KeepId, SaveIdFromWeb, SaveIdToFile, AskConfig, Wait, CheckRedis, ThreadsStartup, ClientWaits, Running
    <3> QED  BY <1>2, <2>3, <3>1
  <2>4. CASE CheckRules
    BY <1>2, <2>4, UpKept DEF CheckRules, Running
  <2> QED  BY <1>3, <2>1, <2>2, <2>3, <2>4 DEF Start, KeepId, SaveIdFromWeb, SaveIdToFile, AskConfig, Wait, CheckRedis, ThreadsStartup
<1>4. CASE Client
  <2>1. UNCHANGED pc
    BY <1>4, ClientFrame DEF mainVars
  <2>2. UNCHANGED up \/ Reply \/ CheckLinkRuleSync
    BY <1>4, ClientFrame DEF RegisterReport, ParamReport, SwitchMode, ChangeLinkStrategy, ChangeLinkRules, ClearLinkRules, InsertLinkRule, LinkRulesChanged, RejectLinkRules,
     MatchRuleMsg, Etfinfo
  <2> QED  BY <1>1, <1>2, <2>1, <2>2, UpKept
<1>5. CASE Environment
  <2>1. UNCHANGED pc
    BY <1>5 DEF Environment, mainVars
  <2>2. UNCHANGED up \/ LoseConnection
    BY <1>5 DEF Environment, WebServer, cliVars
  <2>3. ~LoseConnection
    BY <1>1 DEF LoseConnection, Fails
  <2> QED  BY <1>1, <1>2, <2>1, <2>2, <2>3
<1>6. CASE Shanghai \/ UNCHANGED gatewayVars
  <2>1. UNCHANGED <<pc, up>>
    BY <1>6 DEF Shanghai, gatewayVars, cliVars, mainVars
  <2> QED  BY <1>1, <1>2, <2>1
<1>7. CASE RestartRequest \/ Restart
  BY <1>1, <1>7 DEF RestartRequest, Restart, Ends, ClientWaits, Running
<1> QED  BY <1>3, <1>4, <1>5, <1>6, <1>7 DEF GatewayNext

-----------------------------------------------------------------------------
(* What is needed is on its way                                            *)

\* A version t of rule r, or a later one, is in the map, comes with the
\* documents that are inserted or that are on the way, or is asked for.
Has(r, t) == mem[r] # NoRule /\ mem[r].ts >= t
Inserting(r, t) == \E i \in DOMAIN ins.todo : ins.todo[i].rule = r /\ ins.todo[i].ver >= t
OnTheWay(r, t) == \E i \in DOMAIN toCli : \E a \in DocNums(r)[toCli[i]] : a >= t
CarriesRequest(m, r) == m.type = "rules" /\ \E k \in DOMAIN m.rules : m.rules[k] = r
Requested(r) == \E i \in DOMAIN toSrv : CarriesRequest(toSrv[i], r)
Coming(r, t) == Has(r, t) \/ Inserting(r, t) \/ OnTheWay(r, t) \/ Requested(r)

\* As long as nothing failed, but for the time the relations are changed in.
LinksInHand == rcv.msg.type = "links" /\ rcv.msg.key = ShKey
SyncedForm ==
    faults = {} /\ Normal /\ WebMan /\ pc \in {"9", "run"} /\ ~LinksInHand =>
      \A r \in ShRules : times[ShKey][r] # 0 => Coming(r, times[ShKey][r])

LEMMA SyncedInit == GatewayInit => SyncedForm
BY DEF GatewayInit, SyncedForm

\* An earlier connection's time counts, and only the Shanghai connection has
\* times for Shanghai rules.
LEMMA ShTimes ==
    ASSUME TimesForm, NEW r \in ShRules, times[ShKey][r] # 0
    PROVE  HaveRules(Keys, times)[r] = times[ShKey][r]
<1> DEFINE H == {i \in DOMAIN Keys : times[Keys[i]][r] # 0}
<1>1. DOMAIN Keys \subseteq Nat /\ \A i \in DOMAIN Keys : Keys[i] \in Range(Keys)
  BY ShConnAssumption
<1>2. \A i \in H : Keys[i] = ShKey
  BY <1>1 DEF TimesForm
<1>3. H # {}
  <2>1. PICK i \in DOMAIN Keys : Keys[i] = ShKey
    BY ShConnAssumption DEF Range
  <2> QED  BY <2>1
<1>4. H \subseteq Nat
  BY <1>1
<1>5. r \in Rules
  BY DEF Rules
<1>6. HaveRules(Keys, times)[r] = times[Keys[CHOOSE i \in H : \A j \in H : i <= j]][r]
  BY <1>3, <1>5 DEF HaveRules
<1> HIDE DEF H
<1>7. PICK k \in H : \A j \in H : ~(j < k)
  BY <1>3, <1>4, LeastNumber
<1>8. \E i \in H : \A j \in H : i <= j
  BY <1>4, <1>7
<1>9. (CHOOSE i \in H : \A j \in H : i <= j) \in H
  BY <1>8
<1> QED  BY <1>2, <1>6, <1>9

\* Step8_CheckLinkRuleSync: what is not there is asked for.
LEMMA SyncAsks ==
    ASSUME WireForm, TimesForm, CheckLinkRuleSync \/ NeedFetchRule = {}, up, NEW r \in ShRules, times[ShKey][r] # 0
    PROVE  (mem[r] # NoRule /\ mem[r].ts = times[ShKey][r]) \/ Requested(r)'
<1> DEFINE R == NeedFetchRule
           m == [type |-> "rules", rules |-> Ascending(R)]
<1>1. (mem[r] # NoRule /\ mem[r].ts = times[ShKey][r]) \/ r \in R
  BY ShTimes DEF NeedFetchRule, CompareRuleTime
<1>2. R \in SUBSET Nat /\ IsFiniteSet(R)
  <2>1. R \in SUBSET Rules
    BY DEF NeedFetchRule, CompareRuleTime, Rules
  <2> HIDE DEF R
  <2> QED  BY <2>1, RulesAssumption, FS_Subset DEF Rules
<1>3. R # {} => toSrv' = toSrv \o <<m>>
  BY DEF CheckLinkRuleSync, GetMatchRuleContent, SendMsgToServer, Sent, Reconnect
<1> HIDE DEF R
<1>4. r \in R => CarriesRequest(m, r)
  <2>1. Ascending(R) \in Seq(R) /\ Len(Ascending(R)) = Cardinality(R) /\ {Ascending(R)[k] : k \in 1..Cardinality(R)} = R
    BY <1>2, AscendingIs
  <2>2. DOMAIN Ascending(R) = 1..Cardinality(R)
    BY <2>1
  <2> QED  BY <2>1, <2>2 DEF CarriesRequest
<1>5. toSrv \o <<m>> = Append(toSrv, m) /\ Len(Append(toSrv, m)) = Len(toSrv) + 1 /\ Append(toSrv, m)[Len(toSrv) + 1] = m
      /\ Len(toSrv) + 1 \in DOMAIN Append(toSrv, m)
  <2> HIDE DEF m
  <2> QED  BY AppendProperties DEF WireForm
<1> HIDE DEF m
<1>6. r \in R => Requested(r)'
  BY <1>3, <1>4, <1>5 DEF Requested, CarriesRequest
<1> QED  BY <1>1, <1>6

\* Nothing of it is lost by a step that does not fail.
LEMMA HasStays ==
    ASSUME WireForm, MapForm, RuleForm, VersionForm, [GatewayNext]_gatewayVars, pc' \in {"9", "run"},
           NEW r \in ShRules, NEW t \in Nat, Has(r, t)
    PROVE  Has(r, t)'
<1>1. ~LoadConfigFromDb /\ ~Restart
  BY DEF LoadConfigFromDb, Restart, Ends
<1>2. CASE UNCHANGED mem
  BY <1>2 DEF Has
<1>3. CASE InsertRule(Normal)
  <2>1. r \in Rules
    BY DEF Rules
  <2>2. /\ ins.todo # <<>>
        /\ mem'[r] = mem[r] \/ (r = Changing /\ mem'[r] # NoRule /\ mem'[r].ts = ins.todo[1].ver)
    BY <1>3, <2>1, InsertMoves
  <2>3. CASE mem'[r] = mem[r]
    BY <2>3 DEF Has
  <2>4. CASE r = Changing /\ mem'[r] # NoRule /\ mem'[r].ts = ins.todo[1].ver
    <3>1. PICK low \in Nat : Due(r, mem[r], ins.todo, toCli, srv.ver[r], low)
      BY DEF VersionForm
    <3>2. 1 \in DOMAIN ins.todo
      BY <2>2 DEF MapForm
    <3>3. ins.todo[1].ver = low /\ mem[r].ts <= low
      BY <2>4, <3>1, <3>2 DEF Due, Changing, Has
    <3>4. mem[r].ts \in Nat
      BY <2>1, ClienterAssumption DEF RuleForm, Has
    <3> QED  BY <2>4, <3>3, <3>4 DEF Has
  <2> QED  BY <2>2, <2>3, <2>4
<1> QED  BY <1>1, <1>2, <1>3, RuleMoves DEF MatchRuleMsg, ruleVars

LEMMA InsertingStays ==
    ASSUME InsertForm, MapForm, RuleForm, [GatewayNext]_gatewayVars, pc' \in {"9", "run"}, faults' = {}, Normal,
           NEW r \in ShRules, NEW t \in Nat, Inserting(r, t)
    PROVE  Has(r, t)' \/ Inserting(r, t)'
<1>1. ~LoadConfigFromDb /\ ~Restart
  BY DEF LoadConfigFromDb, Restart, Ends
<1>2. CASE UNCHANGED ruleVars
  BY <1>2 DEF Inserting, ruleVars
<1>3. CASE InsertRule(Normal)
  <2>1. PICK i \in DOMAIN ins.todo : ins.todo[i].rule = r /\ ins.todo[i].ver >= t
    BY DEF Inserting
  <2>2. \/ ins'.todo = ins.todo
        \/ ins'.todo = Tail(ins.todo) /\ mem'[Changing] # NoRule /\ mem'[Changing].ts = ins.todo[1].ver
    BY <1>3, InsertMoves
  <2>3. CASE ins'.todo = ins.todo
    BY <2>1, <2>3 DEF Inserting
  <2>4. CASE ins'.todo = Tail(ins.todo) /\ mem'[Changing] # NoRule /\ mem'[Changing].ts = ins.todo[1].ver
    <3>1. CASE i = 1
      BY <2>1, <2>4, <3>1 DEF Has, Changing
    <3>2. CASE i # 1
      <4>1. ins.todo \in Seq(Version)
        BY DEF MapForm
      <4>2. i - 1 \in DOMAIN Tail(ins.todo) /\ Tail(ins.todo)[i - 1] = ins.todo[i]
        BY <2>1, <3>2, <4>1
      <4> QED  BY <2>1, <2>4, <4>2 DEF Inserting
    <3> QED  BY <3>1, <3>2
  <2> QED  BY <2>2, <2>3, <2>4
<1>4. CASE Takes("rules")
  <2>1. ins.todo = <<>>
    BY <1>4 DEF Takes, InsertForm, Free, NoMsg, Idle
  <2> QED  BY <2>1 DEF Inserting
<1> QED  BY <1>1, <1>2, <1>3, <1>4, RuleMoves DEF MatchRuleMsg

\* Who takes what from the channels.
LEMMA ChannelMoves ==
    ASSUME WireForm, WireForm', [GatewayNext]_gatewayVars, pc' \in {"9", "run"}, faults' = {}
    PROVE  \/ UNCHANGED <<toCli, toSrv>>
           \/ UNCHANGED toCli /\ \E m : toSrv' = Append(toSrv, m)
           \/ /\ UNCHANGED toSrv /\ toCli # <<>> /\ toCli' = Tail(toCli)
              /\ toCli[1].type = "rules" => ins'.todo = toCli[1].docs
           \/ UNCHANGED toSrv /\ \E m : toCli' = Append(toCli, m)
           \/ Answer
<1>1. CASE Start
  <2>1. UNCHANGED toCli
    BY <1>1, StartFrame DEF StartLeaves
  <2>2. UNCHANGED toSrv \/ Connect \/ AskConfig \/ CheckRules
    BY <1>1 DEF Start, CheckLicense, ReadConfig, CheckMysql, LoadConfigFromDb, ReadId, KeepId, Wait, SaveIdFromWeb, SaveIdToFile, CheckRedis, ThreadsStartup
  <2>3. ~Connect /\ ~AskConfig
    BY DEF Connect, AskConfig, Ends
  <2> QED  BY <2>1, <2>2, <2>3, ClientSends DEF CheckRules
<1>2. CASE Client
  <2>1. CASE Takes("register") \/ Takes("param") \/ Takes("switch") \/ Takes("strategy") \/ Takes("links") \/ Takes("etf")
    <3>1. toCli # <<>> /\ toCli' = Tail(toCli) /\ toCli[1].type # "rules" /\ rcv = Free
      BY <2>1 DEF Takes, Msg
    <3>n. ~Fails("links")
      BY DEF Fails
    <3>2. UNCHANGED toSrv
      BY <1>2, <3>1, <3>n, ClientFrame DEF RegisterReport, ParamReport, SwitchMode, ChangeLinkStrategy, ChangeLinkRules, ClearLinkRules, InsertLinkRule,
         LinkRulesChanged, RejectLinkRules, MatchRuleMsg, Etfinfo, Handles, Free, NoMsg
    <3> QED  BY <3>1, <3>2
  <2>2. CASE Takes("rules")
    <3>1. toCli # <<>> /\ toCli' = Tail(toCli) /\ toCli[1].type = "rules" /\ rcv = Free /\ Msg = toCli[1]
      BY <2>2 DEF Takes, Msg
    <3>2. MatchRuleMsg(Normal)
      BY <1>2, <3>1, ClientFrame DEF RegisterReport, ParamReport, SwitchMode, ChangeLinkStrategy, ChangeLinkRules, ClearLinkRules, InsertLinkRule,
         LinkRulesChanged, RejectLinkRules, Etfinfo, Takes, Handles, Free, NoMsg
    <3>3. ~Handles("rules")
      BY <3>1 DEF Handles, Free, NoMsg
    <3>4. ins' = [todo |-> toCli[1].docs, stage |-> "next"] /\ UNCHANGED toSrv
      BY <3>1, <3>2, <3>3 DEF MatchRuleMsg
    <3> QED  BY <3>1, <3>4
  <2>3. CASE UNCHANGED toCli
    <3>1. UNCHANGED <<up, toSrv>> \/ Reply \/ CheckLinkRuleSync
      BY <1>2, ClientFrame DEF RegisterReport, ParamReport, SwitchMode, ChangeLinkStrategy, ChangeLinkRules, ClearLinkRules, InsertLinkRule, LinkRulesChanged, RejectLinkRules,
       MatchRuleMsg, Etfinfo
    <3> QED  BY <2>3, <3>1, ClientSends
  <2> QED  BY <1>2, <2>1, <2>2, <2>3, ClientFrame DEF RegisterReport, ParamReport, SwitchMode, ChangeLinkStrategy, ChangeLinkRules, ClearLinkRules,
     InsertLinkRule, LinkRulesChanged, RejectLinkRules, MatchRuleMsg, Etfinfo, Handles
<1>3. CASE Environment
  <2>1. ~LoseConnection
    BY DEF LoseConnection, Fails
  <2>2. CASE WebServer(pc = "0" /\ starts > 1)
    BY <2>2, ServerTells DEF WebServer
  <2> QED  BY <1>3, <2>1, <2>2 DEF Environment, cliVars
<1>4. CASE Shanghai \/ UNCHANGED gatewayVars
  BY <1>4 DEF Shanghai, gatewayVars, cliVars
<1>5. ~RestartRequest /\ ~Restart
  BY DEF RestartRequest, Restart, Ends
<1> QED  BY <1>1, <1>2, <1>3, <1>4, <1>5 DEF GatewayNext

LEMMA OnTheWayStays ==
    ASSUME WireForm, WireForm', [GatewayNext]_gatewayVars, pc' \in {"9", "run"}, faults' = {},
           NEW r \in ShRules, NEW t \in Nat, OnTheWay(r, t)
    PROVE  Inserting(r, t)' \/ OnTheWay(r, t)'
<1>0. toCli \in Seq(FromServer)
  BY DEF WireForm
<1>1. PICK i, a : i \in DOMAIN toCli /\ a \in DocNums(r)[toCli[i]] /\ a >= t
  BY DEF OnTheWay
<1>n. DocNums(r)' = DocNums(r)
  BY DEF DocNums
<1>2. CASE UNCHANGED toCli
  BY <1>1, <1>2, <1>n DEF OnTheWay
<1>3. CASE \E m : toCli' = Append(toCli, m)
  <2>1. PICK m : toCli' = Append(toCli, m)
    BY <1>3
  <2>2. i \in DOMAIN toCli' /\ toCli'[i] = toCli[i]
    BY <1>0, <1>1, <2>1, AppendProperties
  <2> QED  BY <1>1, <1>n, <2>2 DEF OnTheWay
<1>4. CASE /\ toCli # <<>> /\ toCli' = Tail(toCli)
           /\ toCli[1].type = "rules" => ins'.todo = toCli[1].docs
  <2>1. CASE i = 1
    <3>1. toCli[1] \in FromServer
      BY <1>0, <1>4
    <3>2. toCli[1].type = "rules" /\ \E k \in DOMAIN toCli[1].docs : toCli[1].docs[k].rule = r /\ toCli[1].docs[k].ver = a
      BY <1>1, <2>1, <3>1, DocNumsIs
    <3>3. ins'.todo = toCli[1].docs
      BY <1>4, <3>2
    <3> QED  BY <1>1, <3>2, <3>3 DEF Inserting
  <2>2. CASE i # 1
    <3>1. i - 1 \in DOMAIN toCli' /\ toCli'[i - 1] = toCli[i]
      BY <1>0, <1>1, <1>4, <2>2
    <3> QED  BY <1>1, <1>n, <3>1 DEF OnTheWay
  <2> QED  BY <2>1, <2>2
<1>5. CASE Answer
  BY <1>3, <1>5, ServerAnswers
<1> QED  BY <1>2, <1>3, <1>4, <1>5, ChannelMoves

LEMMA RequestedStays ==
    ASSUME WireForm, WireForm', [GatewayNext]_gatewayVars, pc' \in {"9", "run"}, faults' = {},
           NEW r \in ShRules, NEW t \in Nat, t <= srv.ver[r], Requested(r)
    PROVE  Requested(r)' \/ OnTheWay(r, t)'
<1>0. toSrv \in Seq(ToServer)
  BY DEF WireForm
<1>1. PICK i \in DOMAIN toSrv : CarriesRequest(toSrv[i], r)
  BY DEF Requested
<1>2. CASE UNCHANGED toSrv
  BY <1>1, <1>2 DEF Requested, CarriesRequest
<1>3. CASE \E m : toSrv' = Append(toSrv, m)
  <2>1. i \in DOMAIN toSrv' /\ toSrv'[i] = toSrv[i]
    BY <1>0, <1>3, AppendProperties
  <2> QED  BY <1>1, <2>1 DEF Requested, CarriesRequest
<1>4. CASE Answer
  <2>1. Grows /\ toSrv # <<>> /\ toSrv' = Tail(toSrv)
    BY <1>4, ServerAnswers
  <2>2. CASE i # 1
    <3>1. i - 1 \in DOMAIN toSrv' /\ toSrv'[i - 1] = toSrv[i]
      BY <1>0, <1>1, <2>1, <2>2
    <3> QED  BY <1>1, <3>1 DEF Requested, CarriesRequest
  <2>3. CASE i = 1
    <3>1. PICK m \in FromServer : /\ toCli' = Append(toCli, m) /\ UpToDate(m) /\ m.type = toSrv[1].type
                                  /\ m.type = "rules" => \A k \in DOMAIN toSrv[1].rules : \E j \in DOMAIN m.docs : m.docs[j].rule = toSrv[1].rules[k]
      BY <1>4, ServerAnswers
    <3>2. m.type = "rules" /\ \E j \in DOMAIN m.docs : m.docs[j].rule = r
      BY <1>1, <2>3, <3>1 DEF CarriesRequest
    <3>3. PICK j \in DOMAIN m.docs : m.docs[j].rule = r
      BY <3>2
    <3>4. m.docs[j].ver = srv'.ver[r] /\ m.docs[j].ver \in DocNums(r)[m]
      BY <3>1, <3>2, <3>3, DocNumsIs DEF UpToDate
    <3>5. r \in Rules /\ srv.ver[r] \in Nat /\ srv'.ver[r] \in Nat /\ srv.ver[r] <= srv'.ver[r]
      <4>1. r \in Rules
        BY DEF Rules
      <4>2. srv'.ver[r] \in 1..MaxVer
        BY <4>1 DEF WireForm, Server
      <4> QED  BY <2>1, <4>1, <4>2, ServerIs, ClienterAssumption DEF Grows
    <3>6. srv'.ver[r] >= t
      BY <3>5
    <3>7. Len(toCli) + 1 \in DOMAIN toCli' /\ toCli'[Len(toCli) + 1] = m
      BY <3>1, AppendProperties DEF WireForm
    <3>8. DocNums(r)' = DocNums(r)
      BY DEF DocNums
    <3> QED  BY <3>4, <3>6, <3>7, <3>8 DEF OnTheWay
  <2> QED  BY <2>2, <2>3
<1> QED  BY <1>2, <1>3, <1>4, ChannelMoves

LEMMA ComingStays ==
    ASSUME WireForm, WireForm', InsertForm, MapForm, RuleForm, VersionForm, [GatewayNext]_gatewayVars,
           pc' \in {"9", "run"}, faults' = {}, Normal,
           NEW r \in ShRules, NEW t \in Nat, t <= srv.ver[r], Coming(r, t)
    PROVE  Coming(r, t)'
<1>1. CASE Has(r, t)
  BY <1>1, HasStays DEF Coming
<1>2. CASE Inserting(r, t)
  BY <1>2, InsertingStays DEF Coming
<1>3. CASE OnTheWay(r, t)
  BY <1>3, OnTheWayStays DEF Coming
<1>4. CASE Requested(r)
  BY <1>4, RequestedStays DEF Coming
<1> QED  BY <1>1, <1>2, <1>3, <1>4 DEF Coming

LEMMA HandPutDown ==
    ASSUME HandForm, [GatewayNext]_gatewayVars, LinksInHand, ~LinksInHand', pc' \in {"9", "run"}, faults' = {}
    PROVE  ChangeLinkRules /\ LinkRulesChanged
<1>0. rcv # Free /\ rcv.msg.type = "links"
  BY DEF LinksInHand, Free, NoMsg
<1>1. ~UNCHANGED rcv
  BY DEF LinksInHand
<1>2. CASE Start
  BY <1>1, <1>2, StartFrame DEF StartLeaves
<1>3. CASE Client
  <2>1. ChangeLinkRules
    BY <1>0, <1>3, ClientFrame DEF RegisterReport, ParamReport, SwitchMode, ChangeLinkStrategy, MatchRuleMsg, Etfinfo, Takes, Handles
  <2>2. ~ClearLinkRules /\ (InsertLinkRule => rcv'.msg = rcv.msg)
    BY <1>0 DEF ClearLinkRules, InsertLinkRule, Takes, HandForm
  <2>3. ~Fails("links")
    BY DEF Fails
  <2> QED  BY <2>1, <2>2, <2>3 DEF ChangeLinkRules, LinksInHand
<1>4. CASE Environment
  BY <1>1, <1>4 DEF Environment, WebServer, LoseConnection, cliVars
<1>5. CASE Shanghai \/ UNCHANGED gatewayVars
  BY <1>1, <1>5 DEF Shanghai, gatewayVars, cliVars
<1>6. ~RestartRequest /\ ~Restart
  BY DEF RestartRequest, Restart, Ends
<1> QED  BY <1>2, <1>3, <1>4, <1>5, <1>6 DEF GatewayNext

\* The main thread comes to Step9 over the comparison of the rules.
LEMMA ThereBy ==
    ASSUME EarlyForm, [GatewayNext]_gatewayVars, pc' \in {"9", "run"}
    PROVE  CheckRules \/ pc \in {"9", "run"}
<1>1. CASE Start
  BY <1>1 DEF Start, CheckLicense, ReadConfig, CheckMysql, LoadConfigFromDb, ReadId, Connect, KeepId, Wait, SaveIdFromWeb, SaveIdToFile,
     AskConfig, CheckRedis, ThreadsStartup, Ends
<1>2. CASE Client \/ Environment \/ Shanghai \/ UNCHANGED gatewayVars
  BY <1>2, ClientFrame DEF Environment, Shanghai, gatewayVars, mainVars
<1>3. ~RestartRequest /\ ~Restart
  BY DEF RestartRequest, Restart, Ends
<1> QED  BY <1>1, <1>2, <1>3 DEF GatewayNext

LEMMA SyncedStep ==
    ASSUME WireForm, WireForm', EarlyForm, InsertForm, FaultForm, HandForm, TimesForm, MapForm, RuleForm, VersionForm, ToldForm,
           ParamForm, UpForm, SyncedForm, [GatewayNext]_gatewayVars
    PROVE  SyncedForm'
<1>0. faults \subseteq faults' /\ (WebMan' <=> WebMan) /\ (Normal' <=> Normal)
  BY FaultsGrow, ModeStays
<1> SUFFICES ASSUME faults' = {}, Normal, WebMan, pc' \in {"9", "run"}, ~LinksInHand', NEW r \in ShRules, times'[ShKey][r] # 0
             PROVE  Coming(r, times[ShKey][r])'
  BY <1>0 DEF SyncedForm
<1>1. faults = {} /\ r \in Rules
  BY <1>0 DEF Rules
<1>2. ASSUME Client, Configures PROVE FALSE
  <2>1. toCli # <<>> /\ toCli[1].type = "param" /\ toCli[1] \in FromServer /\ Tail(toCli) \in Seq(FromServer)
    BY <1>2, TailForm DEF Configures, ParamReport, Takes, Msg, WireForm
  <2>2. Count(toCli, ParamAnswers) = Count(Tail(toCli), ParamAnswers) + 1
    <3>1. toCli[1] \in ParamAnswers
      BY <2>1 DEF ParamAnswers
    <3> QED  BY <2>1, <3>1, CountTail DEF WireForm
  <2>3. Count(Tail(toCli), ParamAnswers) \in Nat /\ Count(toSrv, ParamAsks) \in Nat
    BY <2>1, HitsFinite DEF WireForm
  <2>4. Awaited >= 1 /\ Awaited \in Nat
    BY <2>2, <2>3 DEF Awaited
  <2>5. pc \in Running /\ pc # "asked"
    <3>1. pc' = pc
      BY <1>2, ClientFrame DEF mainVars
    <3> QED  BY <3>1 DEF Running
  <2> QED  BY <2>4, <2>5 DEF ParamForm
<1>3. times'[ShKey] = times[ShKey]
  <2>1. ~Clears /\ ~Inserts /\ ~Restart
    BY DEF Clears, Inserts, ClearLinkRules, InsertLinkRule, Takes, Handles, LinksInHand, Restart
  <2> QED  BY <1>2, <2>1, TimesMoves
<1>4. PICK t \in Nat : t = times[ShKey][r] /\ t # 0 /\ t <= srv.ver[r]
  <2>1. times[ShKey][r] \in Nat
    BY <1>1, ShConnAssumption, ClienterAssumption DEF TimesForm
  <2> QED  BY <1>3, <2>1 DEF ToldForm
<1>5. SUFFICES Coming(r, t)'
  <2>1. times'[ShKey][r] = t
    BY <1>3, <1>4
  <2> QED  BY <2>1 DEF Coming, Has, Inserting, OnTheWay
<1>6. ASSUME CheckLinkRuleSync \/ NeedFetchRule = {}, UNCHANGED mem, pc \in Running PROVE Coming(r, t)'
  <2>1. up
    BY <1>1, <1>6 DEF UpForm
  <2>2. (mem[r] # NoRule /\ mem[r].ts = t) \/ Requested(r)'
    BY <1>4, <1>6, <2>1, SyncAsks
  <2> QED  BY <1>4, <1>6, <2>2 DEF Coming, Has
<1>7. CASE CheckRules
  BY <1>6, <1>7 DEF CheckRules, ruleVars, Running
<1>8. CASE ~CheckRules /\ LinksInHand
  <2>1. ChangeLinkRules /\ LinkRulesChanged /\ pc \in {"9", "run"}
    BY <1>8, HandPutDown, ThereBy
  <2> QED  BY <1>6, <2>1 DEF ChangeLinkRules, LinkRulesChanged, ruleVars, Running
<1>9. CASE ~CheckRules /\ ~LinksInHand
  <2>1. pc \in {"9", "run"}
    BY <1>9, ThereBy
  <2>2. Coming(r, t)
    BY <1>1, <1>4, <1>9, <2>1 DEF SyncedForm
  <2> QED  BY <1>4, <2>2, ComingStays
<1> QED  BY <1>7, <1>8, <1>9

\* When nothing is on the way, it has arrived.
LEMMA RulesSyncedHolds == ASSUME InsertForm, SyncedForm PROVE RulesSynced
<1> SUFFICES ASSUME pc = "run", Normal, WebMan, faults = {}, toSrv = <<>>, toCli = <<>>, rcv = Free,
                    NEW r \in ShRules, times[ShKey][r] # 0
             PROVE  mem[r] # NoRule /\ mem[r].ts >= times[ShKey][r]
  BY DEF RulesSynced
<1>1. rcv.msg.type = "none"
  BY DEF Free, NoMsg
<1>2. ins.todo = <<>>
  BY <1>1 DEF InsertForm, Idle
<1>3. Coming(r, times[ShKey][r])
  BY <1>1 DEF SyncedForm, LinksInHand
<1> QED  BY <1>2, <1>3 DEF Coming, Has, Inserting, OnTheWay, Requested

-----------------------------------------------------------------------------
(* The invariant of the gateway                                            *)

\* The start, its configuration and identity.
StartInv == WireForm /\ EarlyForm /\ InsertForm /\ FaultForm /\ HandForm /\ QuietForm /\ ConfiguredForm /\ IdentityForm

\* The rules and packages, in the maps and in the tables.
KeptInv == EtfForm /\ EtfLoaded /\ MapForm /\ RuleForm

\* What the two workers of the Shanghai interface and the flows do.
ReportInv == TablesForm /\ IdleForm /\ RecForm /\ CjbhForm /\ ReadForm /\ AnswersForm /\ ConfirmForm

\* What the web server configures: strategies in their order and rules in a
\* version that is there or on its way.
ConfigInv == TimesForm /\ GivenForm /\ DecForm /\ VersionForm /\ PartsForm /\ ToldForm /\ ParamForm /\ UpForm /\ SyncedForm

GatewayInv == StartInv /\ KeptInv /\ ReportInv /\ ConfigInv

LEMMA GatewayInvInit == GatewayInit => GatewayInv
BY WireInit, EarlyInit, HandInit, QuietInit, ConfiguredInit, EtfFormInit, RulesInitForm, TablesInit, NumbersInit, ReadInit,
   AnswersInit, ConfirmInit, TimesInit, GivenInit, DecInit, VersionInit, PartsInit, ToldInit, ParamInit, UpInit, SyncedInit
   DEF GatewayInv, StartInv, KeptInv, ReportInv, ConfigInv

LEMMA GatewayInvStep == GatewayInv /\ [GatewayNext]_gatewayVars => GatewayInv'
<1> SUFFICES ASSUME GatewayInv, [GatewayNext]_gatewayVars PROVE GatewayInv'
  OBVIOUS
<1>1. StartInv'
  BY WireStep, EarlyStep, InsertStep, FaultsGrow, HandStep, QuietStep, ConfiguredStep, IdentityStep DEF GatewayInv, StartInv
<1>2. KeptInv'
  BY EtfFormStep, EtfLoadedStep, RuleFormStep DEF GatewayInv, StartInv, KeptInv
<1>3. ReportInv'
  <2>1. MapForm' /\ WireForm'
    BY <1>1, <1>2 DEF StartInv, KeptInv
  <2>2. TablesForm' /\ IdleForm' /\ RecForm' /\ CjbhForm' /\ ReadForm' /\ AnswersForm'
    BY <2>1, TablesStep, IdleStep, NumbersStep, ReadStep, AnswersStep DEF GatewayInv, StartInv, KeptInv, ReportInv
  <2>3. ConfirmForm'
    BY <2>1, ConfirmStep DEF GatewayInv, StartInv, KeptInv, ReportInv, ConfigInv
  <2> QED  BY <2>2, <2>3 DEF ReportInv
<1>4. ConfigInv'
  <2>1. WireForm'
    BY <1>1 DEF StartInv
  <2>2. TimesForm' /\ VersionForm' /\ PartsForm' /\ ToldForm'
    BY <2>1, TimesStep, VersionStep, PartsStep, ToldStep DEF GatewayInv, StartInv, KeptInv, ConfigInv
  <2>3. GivenForm' /\ DecForm'
    BY <2>1, GivenStep, DecStep DEF GatewayInv, StartInv, ReportInv, ConfigInv
  <2>4. ParamForm' /\ UpForm' /\ SyncedForm'
    BY <2>1, ParamStep, UpStep, SyncedStep DEF GatewayInv, StartInv, KeptInv, ConfigInv
  <2> QED  BY <2>2, <2>3, <2>4 DEF ConfigInv
<1> QED  BY <1>1, <1>2, <1>3, <1>4 DEF GatewayInv

\* The invariant holds throughout: of the start (Simutgw_ConfigInit) and the
\* client's thread, of the tables and maps, of the Shanghai interface, and of
\* what is on the way between the client and the web server.
THEOREM GatewayInvariant == GatewaySpec => []GatewayInv
<1>1. GatewayInit => GatewayInv
  BY GatewayInvInit
<1>2. GatewayInv /\ [GatewayNext]_gatewayVars => GatewayInv'
  BY GatewayInvStep
<1> QED  BY <1>1, <1>2, PTL DEF GatewaySpec

\* Completed starts never use two identities unless reading and saving the
\* stored one both failed, and the workers start with the whole
\* configuration: Step4_1 to Step4_4 of SystemInit and the client's handlers.
THEOREM GatewayStartWhole == GatewaySpec => []StartWhole
<1>1. GatewayInv => StartWhole
  BY StartWholeHolds DEF GatewayInv, StartInv
<1> QED  BY <1>1, GatewayInvariant, PTL

\* A Shanghai rule of the map has every part its version's document has, and
\* for those it lacks none that is newer, while no handler is at it; the row a
\* restart would load has the version of the map, and a Shanghai rule's the
\* parts that were sent, unless the writing failed: InsertSingleRule and
\* ReloadFromDb of MatchRuleShangHai and MatchRuleShenZhen.
THEOREM GatewayRulesKept == GatewaySpec => []RulesKept
<1>1. GatewayInv => RulesKept
  BY RulesKeptHolds DEF GatewayInv, StartInv, KeptInv, ReportInv, ConfigInv
<1> QED  BY <1>1, GatewayInvariant, PTL

\* The ETF tables never have the header of one version of a package with the
\* components of another, and what EtfContainer has is what was saved.
THEOREM GatewayEtfSaved == GatewaySpec => []EtfSaved
<1>1. GatewayInv => EtfSaved
  BY EtfSavedHolds DEF GatewayInv, KeptInv
<1> QED  BY <1>1, GatewayInvariant, PTL

\* The numbers ReportMsg_Sh gives to confirms, and to trades once the table
\* had one at the start, are drawn in ascending order over both workers,
\* restarts and lost reports.
THEOREM GatewayNumbersIncreasing == GatewaySpec => []NumbersIncreasing
<1>1. GatewayInv => NumbersIncreasing
  BY InOrder DEF GatewayInv, ReportInv, NumbersIncreasing
<1> QED  BY <1>1, GatewayInvariant, PTL

\* No reading of an order by Proc_ShConn_Db_Declare is answered twice, no
\* order is read more often than starts and failed updates of its status
\* explain, and no trade is in cjhb before its confirm is in ordwth2, unless a
\* report was lost or the web server sent a rule that confirms nothing.
THEOREM GatewayOrdersReported == GatewaySpec => []OrdersReported
<1>1. GatewayInv => OrdersReported
  BY OrdersReportedHolds DEF GatewayInv, ReportInv
<1> QED  BY <1>1, GatewayInvariant, PTL

\* The orders Proc_ShConn_Db_Declare reads get a whole strategy (Get_Sh), not
\* older than the last one the client confirmed before the reading, and once
\* nothing is on the way the rules of the Shanghai connection are there in
\* the version it was told of, over changes made meanwhile and restarts,
\* unless something failed.
THEOREM GatewayConfigurationWhole == GatewaySpec => []ConfigurationWhole
<1>1. GatewayInv => ConfigurationWhole
  BY PolicyWholeHolds, RulesSyncedHolds DEF GatewayInv, StartInv, ConfigInv, ConfigurationWhole
<1> QED  BY <1>1, GatewayInvariant, PTL
=============================================================================
