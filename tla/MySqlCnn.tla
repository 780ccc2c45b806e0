------------------------------ MODULE MySqlCnn ------------------------------
(***************************************************************************)
(* MySqlCnnC602: one connection without autocommit.  The server is         *)
(* external, and so is the client library, which reconnects by itself      *)
(* (MYSQL_OPT_RECONNECT) at a call that finds the session gone, unless a   *)
(* transaction was open: then that call fails.                             *)
(*                                                                         *)
(* A session is whether the server still knows it, whether the library     *)
(* takes a transaction to be open, the snapshot its reads see and the      *)
(* writes it has not committed.                                            *)
(***************************************************************************)
EXTENDS Integers, Sequences

CONSTANT Nothing

\* Connect and SetSchema, SetDefaultCatalog.
Connect == [alive |-> TRUE, trans |-> FALSE, snap |-> Nothing, write |-> Nothing]

\* The server forgets the session and what it had not committed.
Broken(s) == [s EXCEPT !.alive = FALSE, !.snap = Nothing, !.write = Nothing]

\* Whether a call reaches the server, and the session it then runs in.
Reaches(s, up) == s.alive \/ (up /\ ~s.trans)
Reached(s) == IF s.alive THEN s ELSE Connect
\* A call that does not: the library forgets the transaction.
Missed(s) == [s EXCEPT !.trans = FALSE]

\* START TRANSACTION ends the transaction before it.
StartTransaction(s, up) ==
    IF Reaches(s, up) THEN [Reached(s) EXCEPT !.trans = TRUE, !.snap = Nothing, !.write = Nothing]
    ELSE Missed(s)

\* A SELECT reads the snapshot of the transaction; the first one makes it.
Query_Select(s, up, now) ==
    IF Reaches(s, up)
    THEN LET r == Reached(s)
         IN  [r EXCEPT !.trans = TRUE, !.snap = IF r.snap = Nothing THEN now ELSE r.snap]
    ELSE Missed(s)

\* An INSERT or UPDATE leaves a write to commit.
Query_Update(s, up, w) ==
    IF Reaches(s, up) THEN [Reached(s) EXCEPT !.trans = TRUE, !.write = w] ELSE Missed(s)

\* Commit and RollBack; the write committed is that of the session reached.
Commit(s, up) ==
    IF Reaches(s, up) THEN [Reached(s) EXCEPT !.trans = FALSE, !.snap = Nothing, !.write = Nothing]
    ELSE Missed(s)

Commits(s, up) == IF Reaches(s, up) THEN Reached(s).write ELSE Nothing

\* Mutant of RollBack: it does nothing.
RollBack_None(s, up) == s

RollBack(s, up) ==
    IF Reaches(s, up) THEN [Reached(s) EXCEPT !.trans = FALSE, !.snap = Nothing, !.write = Nothing]
    ELSE Missed(s)
=============================================================================
