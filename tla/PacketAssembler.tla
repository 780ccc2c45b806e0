--------------------------- MODULE PacketAssembler ---------------------------
(***************************************************************************)
(* PacketAssembler: messages as packets in a byte stream, and the search   *)
(* for packets in what was received.  A packet is cut into three cells:    *)
(* the begin string "NET:", the rest of the head, the data.  A cell names  *)
(* the message it belongs to; a head checksum or a CRC is right exactly    *)
(* when the cells before it are those of the same message.                 *)
(***************************************************************************)
EXTENDS Integers, Sequences, SequencesExt

BeginLen == 1
HeadLen == 2
PacketLen == 3

\* LocalPackageToNetBuffer.
Packet(msg) == [k \in 1..PacketLen |-> [msg |-> msg, k |-> k]]

IsBegin(cell) == cell.k = 1

\* NetPackageHeadToLocal: the fields are numbers and the head checksum fits.
HeadOk(buf, i) == SubSeq(buf, i, i + HeadLen - 1) = SubSeq(Packet(buf[i].msg), 1, HeadLen)

\* CheckNetPackCRC, for as many bytes as the head says.
DataOk(buf, i) == SubSeq(buf, i, i + PacketLen - 1) = Packet(buf[i].msg)

\* The search for a packet, position by position, in a buffer that begins with
\* a begin string.  After a bad head it goes on behind the first begin string
\* of the buffer, wherever that head was: from a later one it never gets on.
RECURSIVE Search(_, _)
Search(buf, i) ==
    LET left == Len(buf) - i + 1
    IN  CASE left < HeadLen -> [st |-> "wait", at |-> i]
          [] left >= HeadLen /\ ~IsBegin(buf[i]) -> Search(buf, i + 1)
          [] left >= HeadLen /\ IsBegin(buf[i]) /\ ~HeadOk(buf, i) ->
               IF i > BeginLen THEN [st |-> "loop", at |-> i] ELSE Search(buf, BeginLen + 1)
          [] left >= HeadLen /\ IsBegin(buf[i]) /\ HeadOk(buf, i) ->
               CASE left < PacketLen -> [st |-> "wait", at |-> i]
                 [] left >= PacketLen /\ DataOk(buf, i) -> [st |-> "packet", at |-> i]
                 [] OTHER -> Search(buf, i + 1)

\* bTrimWasteData: what comes before the first begin string is thrown away.
Trimmed(buf) ==
    LET begins == {i \in DOMAIN buf : IsBegin(buf[i])}
    IN  IF begins = {} THEN <<>>
        ELSE SubSeq(buf, CHOOSE i \in begins : \A j \in begins : i <= j, Len(buf))

\* RecvPackage with bTrimWasteData: the buffer left, the messages found, and
\* whether it returns.  A buffer that had to be trimmed is not searched.
RECURSIVE Take(_, _)
Take(buf, got) ==
    IF Trimmed(buf) # buf \/ buf = <<>> THEN [buf |-> Trimmed(buf), got |-> got, ends |-> TRUE]
    ELSE LET s == Search(buf, 1)
         IN  IF s.st = "packet"
             THEN Take(SubSeq(buf, 1, s.at - 1) \o SubSeq(buf, s.at + PacketLen, Len(buf)),
                       Append(got, buf[s.at].msg))
             ELSE [buf |-> buf, got |-> got, ends |-> s.st # "loop"]

RecvPackage(buf) ==
    IF Len(buf) <= HeadLen THEN [buf |-> buf, got |-> <<>>, ends |-> TRUE] ELSE Take(buf, <<>>)
=============================================================================
