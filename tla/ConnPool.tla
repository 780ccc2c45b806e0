------------------------------ MODULE ConnPool ------------------------------
(***************************************************************************)
(* MysqlConnectionPool, and RedisConnectionPool, which is the same code    *)
(* with other connections: a list of idle connections and the number of    *)
(* connections the pool thinks there are.  Every operation runs under the  *)
(* pool's mutex.  A connection taken from the list is replaced when it is  *)
(* stale: closed, or not used for an hour.                                 *)
(***************************************************************************)
EXTENDS Integers, Sequences, SequencesExt

CONSTANT NoConn          \* the empty shared_ptr

SetConnection(maxSize) == [list |-> <<>>, cur |-> 0, max |-> maxSize]

\* The connections that CreateConnection could open become idle.
AddConn(pool, created) == [pool EXCEPT !.list = @ \o created, !.cur = @ + Len(created)]

InitialSize(pool) == pool.max \div 2

\* Mutant of GetConnection: the limit is not looked at.
GetConnection_NoLimit(pool, stale, fresh) ==
    IF pool.list # <<>> THEN [sp |-> Head(pool.list), pool |-> [pool EXCEPT !.list = Tail(@)]]
    ELSE [sp |-> fresh, pool |-> IF fresh = NoConn THEN pool ELSE [pool EXCEPT !.cur = @ + 1]]

\* What GetConnection hands out and the pool it leaves.  CreateConnection
\* returns "fresh", or NoConn when it cannot connect.
GetConnection(pool, stale, fresh) ==
    LET first == Head(pool.list)
        popped == [pool EXCEPT !.list = Tail(@)]
    IN  CASE pool.list # <<>> /\ first \notin stale -> [sp |-> first, pool |-> popped]
          [] pool.list # <<>> /\ first \in stale ->
               [sp |-> fresh,
                pool |-> IF fresh = NoConn THEN [popped EXCEPT !.cur = @ - 1] ELSE popped]
          [] pool.list = <<>> /\ pool.cur < pool.max ->
               [sp |-> fresh,
                pool |-> IF fresh = NoConn THEN pool ELSE [pool EXCEPT !.cur = @ + 1]]
          [] OTHER -> [sp |-> NoConn, pool |-> pool]

\* Mutant of ReleaseConnection: nothing is done for an empty pointer.
ReleaseConnection_NotNull(pool, sp) ==
    IF sp = NoConn THEN pool ELSE [pool EXCEPT !.list = Append(@, sp)]

\* Mutant of ReleaseConnection: the connection is added twice.
ReleaseConnection_Twice(pool, sp) ==
    IF sp = NoConn THEN [pool EXCEPT !.cur = @ - 1] ELSE [pool EXCEPT !.list = @ \o <<sp, sp>>]

\* An empty pointer stands for a connection that was lost.
ReleaseConnection(pool, sp) ==
    IF sp = NoConn THEN [pool EXCEPT !.cur = @ - 1] ELSE [pool EXCEPT !.list = Append(@, sp)]

Idle(pool) == ToSet(pool.list)
=============================================================================
