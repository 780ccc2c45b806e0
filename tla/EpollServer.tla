----------------------------- MODULE EpollServer -----------------------------
(***************************************************************************)
(* The TCP server on Linux: EpollServer_Core accepts, a pool of client     *)
(* threads waits for events, Epoll_ConnectionManager knows a connection by *)
(* its file descriptor, HandlerSocketMsg keeps what was received under the *)
(* same number.  Every message found is answered.                          *)
(*                                                                         *)
(* A descriptor is closed with the last pointer to its connection, and the *)
(* kernel then gives its number to the next connection, while the threads  *)
(* still work with the number.                                             *)
(***************************************************************************)
EXTENDS PacketAssembler, FiniteSets, FiniteSetsExt, TLC

CONSTANTS Conn, Fd, Thread, None,
          Msgs,             \* how many messages a client sends
          MaxShort,         \* sends for which the kernel's buffer has not enough room
          BufLimit          \* 100 KB: a longer buffer is emptied

ASSUME ServerAssumption ==
    /\ None \notin Conn \cup Thread
    /\ Fd \subseteq Nat /\ Thread \subseteq Nat
    /\ Msgs \in [Conn -> Nat] /\ {MaxShort, BufLimit} \subseteq Nat

VARIABLES peer,     \* clients: what they sent that was not received, answers they got
          fds,      \* kernel: the connection of an open descriptor
          watch,    \* kernel: the thread whose epoll watches it
          nums,     \* m_aullClientNums of the threads
          conns,    \* m_connMap
          out,      \* send queues: answers waiting, m_bIsEpoutSet
          bufs,     \* m_mapCidMsg
          acc, th,  \* the accepting thread, the client threads
          found,    \* history: messages found, by connection
          stuck,    \* a search that does not end holds m_cidMsgMutex
          short

vars == <<peer, fds, watch, nums, conns, out, bufs, acc, th, found, stuck, short>>
kernel == <<fds, watch>>

Quiet == [pc |-> "wait", fd |-> 0, conn |-> None, data |-> <<>>, got |-> <<>>]

Init ==
    /\ peer = [c \in Conn |-> [st |-> "none", taken |-> FALSE, sent |-> 0, wire |-> <<>>, eof |-> FALSE, answers |-> 0]]
    /\ fds = [f \in Fd |-> None] /\ watch = [f \in Fd |-> None]
    /\ nums = [t \in Thread |-> 0]
    /\ conns = [f \in Fd |-> None]
    /\ out = [c \in Conn |-> [q |-> 0, epout |-> FALSE]]
    /\ bufs = [f \in Fd |-> <<>>]
    /\ acc = [pc |-> "wait", fd |-> 0, conn |-> None]
    /\ th = [t \in Thread |-> Quiet]
    /\ found = [c \in Conn |-> <<>>]
    /\ stuck = FALSE /\ short = MaxShort

\* A descriptor stays open while the map, a thread or the acceptor has its
\* connection; ~Epoll_Socket_Connection closes it, and epoll forgets it.
Release ==
    LET open(f) == \/ conns'[f] = fds[f] \/ acc'.conn = fds[f]
                   \/ \E t \in Thread : th'[t].conn = fds[f]
    IN  /\ fds' = [f \in Fd |-> IF open(f) THEN fds[f] ELSE None]
        /\ watch' = [f \in Fd |-> IF open(f) THEN watch[f] ELSE None]

-----------------------------------------------------------------------------
(* Clients                                                                 *)

Connect(c) ==
    /\ peer[c].st = "none"
    /\ peer' = [peer EXCEPT ![c].st = "open"]
    /\ UNCHANGED <<kernel, nums, conns, out, bufs, acc, th, found, stuck, short>>

\* A message leaves as a packet.  Clients send as LoopSend below does: where
\* the kernel takes only a part of it the rest is lost.
ClientSend(c) ==
    /\ peer[c].st = "open" /\ peer[c].sent < Msgs[c]
    /\ LET p == Packet([from |-> c, n |-> peer[c].sent + 1])
       IN  \E k \in 0..PacketLen :
             /\ IF k = PacketLen THEN UNCHANGED short ELSE short > 0 /\ short' = short - 1
             /\ peer' = [peer EXCEPT ![c].sent = @ + 1, ![c].wire = @ \o SubSeq(p, 1, k)]
    /\ UNCHANGED <<kernel, nums, conns, out, bufs, acc, th, found, stuck>>

ClientClose(c) ==
    /\ peer[c].st = "open"
    /\ peer' = [peer EXCEPT ![c].st = "closed"]
    /\ UNCHANGED <<kernel, nums, conns, out, bufs, acc, th, found, stuck, short>>

-----------------------------------------------------------------------------
(* The accepting thread                                                    *)

\* AcceptConn: the kernel gives the lowest number that is free.
Accept(c) ==
    LET unused == {f \in Fd : fds[f] = None}
        fd == Min(unused)
    IN  /\ acc.pc = "wait" /\ unused # {}
        /\ peer[c].st # "none" /\ ~peer[c].taken
        /\ peer' = [peer EXCEPT ![c].taken = TRUE]
        /\ fds' = [fds EXCEPT ![fd] = c]
        /\ acc' = [pc |-> "watch", fd |-> fd, conn |-> c]
        /\ UNCHANGED <<watch, nums, conns, out, bufs, th, found, stuck, short>>

\* AddNewClient: the first thread with the fewest clients watches it.
AddNewClient ==
    LET fewest == {t \in Thread : \A u \in Thread : nums[t] <= nums[u]}
        t == Min(fewest)
    IN  /\ acc.pc = "watch"
        /\ watch' = [watch EXCEPT ![acc.fd] = t]
        /\ nums' = [nums EXCEPT ![t] = @ + 1]
        /\ acc' = [acc EXCEPT !.pc = "map"]
        /\ UNCHANGED <<peer, fds, conns, out, bufs, th, found, stuck, short>>

\* AddConnection inserts: what is there stays.
AddConnection ==
    /\ acc.pc = "map"
    /\ conns' = IF conns[acc.fd] = None THEN [conns EXCEPT ![acc.fd] = acc.conn] ELSE conns
    /\ acc' = [pc |-> "wait", fd |-> 0, conn |-> None]
    /\ UNCHANGED th /\ Release
    /\ UNCHANGED <<peer, nums, out, bufs, found, stuck, short>>

-----------------------------------------------------------------------------
(* The client threads: receiving                                           *)

Watches(t, f) == th[t].pc = "wait" /\ watch[f] = t /\ fds[f] # None

\* RecvData: what has arrived is read until there is no more.
RecvData(t, f) ==
    /\ Watches(t, f) /\ peer[fds[f]].wire # <<>>
    /\ LET c == fds[f]
       IN  \E k \in 1..Len(peer[c].wire) :
             /\ th' = [th EXCEPT ![t] = [@ EXCEPT !.pc = "data", !.fd = f, !.data = SubSeq(peer[c].wire, 1, k)]]
             /\ peer' = [peer EXCEPT ![c].wire = SubSeq(@, k + 1, Len(@))]
    /\ UNCHANGED <<kernel, nums, conns, out, bufs, acc, found, stuck, short>>

\* The end of the stream.  recv leaves errno as it was: with 0 or EINTR the
\* connection is taken to be all right and never looked at again, with any
\* other value what was read before the end is thrown away.
RecvEnd(t, f) ==
    /\ Watches(t, f) /\ peer[fds[f]].st = "closed" /\ ~peer[fds[f]].eof
    /\ LET c == fds[f]
       IN  /\ peer' = [peer EXCEPT ![c].wire = <<>>, ![c].eof = TRUE]
           /\ \/ th' = [th EXCEPT ![t] = [@ EXCEPT !.pc = "data", !.fd = f, !.data = peer[c].wire]]
              \/ th' = [th EXCEPT ![t] = [@ EXCEPT !.pc = "remove", !.fd = f]]
    /\ UNCHANGED <<kernel, nums, conns, out, bufs, acc, found, stuck, short>>

\* OnReceiveData: data of a connection that is not in the map is dropped.
OnReceiveData(t) ==
    /\ th[t].pc = "data"
    /\ LET c == conns[th[t].fd]
       IN  th' = IF c = None THEN [th EXCEPT ![t] = Quiet]
                 ELSE [th EXCEPT ![t] = [@ EXCEPT !.pc = "append", !.conn = c]]
    /\ UNCHANGED <<peer, kernel, nums, conns, out, bufs, acc, found, stuck, short>>

\* Mutant of AppendBuffer: the packets found stay in the buffer.
AppendBuffer_Keeps(t) ==
    /\ th[t].pc = "append" /\ ~stuck
    /\ LET f == th[t].fd
           all == bufs[f] \o th[t].data
           r == RecvPackage(all)
       IN  /\ r.ends
           /\ bufs' = [bufs EXCEPT ![f] = IF Len(all) > BufLimit THEN <<>> ELSE all]
           /\ found' = [found EXCEPT ![th[t].conn] = @ \o r.got]
           /\ th' = [th EXCEPT ![t] = [@ EXCEPT !.pc = "reply", !.data = <<>>, !.got = r.got]]
    /\ UNCHANGED <<peer, kernel, nums, conns, out, acc, stuck, short>>

\* AppendBuffer, under m_cidMsgMutex.
AppendBuffer(t) ==
    /\ th[t].pc = "append" /\ ~stuck
    /\ LET f == th[t].fd
           r == RecvPackage(bufs[f] \o th[t].data)
       IN  IF r.ends
           THEN /\ bufs' = [bufs EXCEPT ![f] = IF Len(r.buf) > BufLimit THEN <<>> ELSE r.buf]
                /\ found' = [found EXCEPT ![th[t].conn] = @ \o r.got]
                /\ th' = [th EXCEPT ![t] = [@ EXCEPT !.pc = "reply", !.data = <<>>, !.got = r.got]]
                /\ UNCHANGED stuck
           ELSE /\ stuck' = TRUE
                /\ th' = [th EXCEPT ![t] = [@ EXCEPT !.pc = "search", !.data = <<>>]]
                /\ UNCHANGED <<bufs, found>>
    /\ UNCHANGED <<peer, kernel, nums, conns, out, acc, short>>

\* AddSend: the event is asked for unless it has been.
AddSend(o) == [q |-> o.q + 1, epout |-> TRUE]

\* One answer for each message, by the number of the connection.
Reply(t) ==
    /\ th[t].pc = "reply" /\ th[t].got # <<>>
    /\ LET c == conns[th[t].fd]
       IN  IF c # None
           THEN out' = [out EXCEPT ![c] = AddSend(@)] /\ UNCHANGED bufs
           ELSE ~stuck /\ bufs' = [bufs EXCEPT ![th[t].fd] = <<>>] /\ UNCHANGED out
    /\ th' = [th EXCEPT ![t].got = Tail(@)]
    /\ UNCHANGED <<peer, kernel, nums, conns, acc, found, stuck, short>>

Replied(t) ==
    /\ th[t].pc = "reply" /\ th[t].got = <<>>
    /\ th' = [th EXCEPT ![t] = Quiet]
    /\ UNCHANGED <<conns, acc>> /\ Release
    /\ UNCHANGED <<peer, nums, out, bufs, found, stuck, short>>

-----------------------------------------------------------------------------
(* The client threads: sending and removing                                *)

\* Mutant of LoopSend: an answer is looked at and not taken from the queue.
LoopSend_Peek(t, f) ==
    /\ Watches(t, f) /\ conns[f] # None /\ out[conns[f]].epout /\ out[conns[f]].q > 0
    /\ LET c == conns[f]
       IN  /\ peer[c].st # "closed"
           /\ peer' = [peer EXCEPT ![c].answers = @ + out[c].q]
           /\ out' = [out EXCEPT ![c] = [q |-> 1, epout |-> FALSE]]
    /\ UNCHANGED <<kernel, nums, conns, bufs, acc, th, found, stuck, short>>

\* LoopSend sends what waits and gives up the event.  Where the kernel has no
\* room for an answer it is lost and the event stays; over a closed connection
\* the send fails and the connection is removed.
LoopSend(t, f) ==
    /\ Watches(t, f) /\ conns[f] # None /\ out[conns[f]].epout
    /\ LET c == conns[f]
           n == out[c].q
       IN  \/ /\ peer[c].st # "closed"
              /\ peer' = [peer EXCEPT ![c].answers = @ + n]
              /\ out' = [out EXCEPT ![c] = [q |-> 0, epout |-> FALSE]]
              /\ UNCHANGED <<short, th>>
           \/ /\ peer[c].st # "closed" /\ short > 0 /\ short' = short - 1
              /\ \E k \in 1..n :
                   /\ peer' = [peer EXCEPT ![c].answers = @ + k - 1]
                   /\ out' = [out EXCEPT ![c].q = n - k]
              /\ UNCHANGED th
           \/ /\ peer[c].st = "closed" /\ n > 0
              /\ out' = [out EXCEPT ![c].q = @ - 1]
              /\ th' = [th EXCEPT ![t] = [@ EXCEPT !.pc = "remove", !.fd = f]]
              /\ UNCHANGED <<peer, short>>
           \/ /\ peer[c].st = "closed" /\ n = 0
              /\ out' = [out EXCEPT ![c].epout = FALSE]
              /\ UNCHANGED <<th, peer, short>>
    /\ UNCHANGED <<kernel, nums, conns, bufs, acc, found, stuck>>

\* Mutant of RemoveConnection: the descriptor is closed, the map keeps it.
RemoveConnection_Closes(t) ==
    /\ th[t].pc = "remove"
    /\ fds' = [fds EXCEPT ![th[t].fd] = None] /\ watch' = [watch EXCEPT ![th[t].fd] = None]
    /\ th' = [th EXCEPT ![t].pc = "id"]
    /\ UNCHANGED <<peer, nums, conns, out, bufs, acc, found, stuck, short>>

\* RemoveConnection, and with it the close.
RemoveConnection(t) ==
    /\ th[t].pc = "remove"
    /\ conns' = [conns EXCEPT ![th[t].fd] = None]
    /\ th' = [th EXCEPT ![t].pc = "id"]
    /\ UNCHANGED acc /\ Release
    /\ UNCHANGED <<peer, nums, out, bufs, found, stuck, short>>

\* Mutant of RemoveId: the handler and the thread both count the client off.
RemoveId_Twice(t) ==
    /\ th[t].pc = "id" /\ ~stuck
    /\ bufs' = [bufs EXCEPT ![th[t].fd] = <<>>]
    /\ nums' = [nums EXCEPT ![t] = @ - 2]
    /\ th' = [th EXCEPT ![t] = Quiet]
    /\ UNCHANGED <<peer, kernel, conns, out, acc, found, stuck, short>>

\* OnClientDisconnect, OnDisconnect: RemoveId by number; then the count.
RemoveId(t) ==
    /\ th[t].pc = "id" /\ ~stuck
    /\ bufs' = [bufs EXCEPT ![th[t].fd] = <<>>]
    /\ nums' = [nums EXCEPT ![t] = @ - 1]
    /\ th' = [th EXCEPT ![t] = Quiet]
    /\ UNCHANGED <<peer, kernel, conns, out, acc, found, stuck, short>>

-----------------------------------------------------------------------------

Client(c) == Connect(c) \/ ClientSend(c) \/ ClientClose(c)
Acceptor == AddNewClient \/ AddConnection \/ \E c \in Conn : Accept(c)
ClientThread(t) ==
    \/ \E f \in Fd : RecvData(t, f) \/ RecvEnd(t, f) \/ LoopSend(t, f)
    \/ OnReceiveData(t) \/ AppendBuffer(t) \/ Reply(t) \/ Replied(t)
    \/ RemoveConnection(t) \/ RemoveId(t)
Next == Acceptor \/ (\E c \in Conn : Client(c)) \/ \E t \in Thread : ClientThread(t)

Spec == Init /\ [][Next]_vars

-----------------------------------------------------------------------------
(* Properties                                                              *)

TypeOK ==
    /\ \A f \in Fd : conns[f] \in Conn \cup {None} /\ (watch[f] # None => fds[f] # None)
    /\ \A t \in Thread : nums[t] \in 0..Cardinality(Conn)
    /\ \A c \in Conn : out[c].q \in Nat

\* A number in the map names the connection that has it: the map never keeps
\* the number of a connection that is closed, and no two have one number.
MapIsOpen == TypeOK /\ \A f \in Fd : conns[f] # None => fds[f] = conns[f]

\* A client's messages are found in the order it sent them, and none is found
\* twice, wherever the stream is cut, whatever is missing in it and whichever
\* connection the bytes are taken to belong to.
FoundInOrder ==
    \A c, d \in Conn : \A i \in DOMAIN found[c], j \in DOMAIN found[d] :
        found[c][i].from = found[d][j].from =>
            /\ c = d /\ i < j => found[c][i].n < found[c][j].n
            /\ c # d => found[c][i].n # found[d][j].n

\* No client gets more answers than it has sent messages that were found.
AnswersBelong == \A c \in Conn : peer[c].answers + out[c].q <= Len(found[c])

\* A client's messages are found in order and answered one by one.
AnsweredInOrder == FoundInOrder /\ AnswersBelong
=============================================================================
