---------------------------- MODULE StoreAccess ----------------------------
(***************************************************************************)
(* The program and its database.  AsyncDbWriter's one thread takes tasks   *)
(* in order, each a transaction on a connection of the MySQL pool.  The    *)
(* matching threads load a holding into the cache under its mutex, then    *)
(* trade and queue what must be written.  Requests read through the same   *)
(* pool.  Connections, the server and the process may fail at any moment.  *)
(*                                                                         *)
(* A holding, in the cache and in its row, is the sequence of the trades   *)
(* it has been changed by.                                                 *)
(***************************************************************************)
EXTENDS ConnPool, MySqlCnn, FiniteSets, TLC

CONSTANTS MConn,            \* identities for connections
          PoolSize,         \* maxSize of the pool
          MaxTrades, MaxReads,
          MaxTroubles,      \* outages, failed calls and hours without use
          MaxExits,
          MaxBelow          \* how far below zero the count of the pool is followed

\* A holding, the tasks that write, a record before AssignTask, a holding in
\* the cache and a session of MySqlCnn.
Holding == Seq(Nat)
SyncTask == [kind : {"sync"}, old : Holding, new : Holding]
RecordTask == [kind : {"order", "cancel"}, id : Nat, n : Nat]
Task == SyncTask \cup RecordTask
ReportTask == [kind : {"cancel"}, id : Nat]
Cached == [read : BOOLEAN, has : Holding]
Session == [alive : BOOLEAN, trans : BOOLEAN,
            snap : Holding \cup {Nothing}, write : Task \cup {Nothing}]

\* There is an identity for every connection that can be open at a time: half
\* of the pool or one of each user, and one to replace another.
ASSUME StoreAssumption ==
    /\ NoConn \notin MConn
    /\ IsFiniteSet(MConn) /\ Cardinality(MConn) > 3 /\ Cardinality(MConn) > PoolSize \div 2
    /\ Nothing \notin Holding /\ Nothing \notin Task /\ Nothing \notin Cached
    /\ {PoolSize, MaxTrades, MaxReads, MaxTroubles, MaxExits, MaxBelow} \subseteq Nat

VARIABLES db,        \* the server: up, the row of the holding, the records written
          mp, my,    \* the MySQL pool and its sessions
          aged,      \* connections not used for an hour
          q,         \* tasks of AsyncDbWriter
          asg,       \* number of records assigned to it
          cache,     \* the holding in g_mapUserStock
          trades,    \* orders so far
          rest,      \* orders waiting to be matched
          rep,       \* what the sender of reports has still to record
          w, l, r,   \* the writer, the loading thread, a reading request
          left       \* what may still go wrong

vars == <<db, mp, my, aged, q, asg, cache, trades, rest, rep, w, l, r, left>>
sql == <<db, mp, my>>
feed == <<q, asg, cache, trades, rest, rep>>
users == <<w, l, r>>

User == [pc |-> "idle", sp |-> NoConn]
NoTask == [pc |-> "idle", sp |-> NoConn, task |-> Nothing, ok |-> TRUE]
NoRequest == [pc |-> "idle", sp |-> NoConn, since |-> 0, got |-> <<>>]

\* The pools as Init leaves them: half the connections are made at once.
Started(size, conns) ==
    LET p == SetConnection(size)
    IN  AddConn(p, SubSeq(SetToSeq(conns), 1, InitialSize(p)))

Init ==
    /\ db = [up |-> TRUE, row |-> <<>>, recs |-> <<>>]
    /\ mp = Started(PoolSize, MConn) /\ my = [c \in MConn |-> Connect]
    /\ aged = {}
    /\ q = <<>> /\ asg = 0 /\ cache = Nothing /\ trades = 0 /\ rest = {} /\ rep = {}
    /\ w = NoTask
    /\ l = User
    /\ r = NoRequest
    /\ left = [reads |-> MaxReads, troubles |-> MaxTroubles, exits |-> MaxExits]

Spend(what) == left[what] > 0 /\ left' = [left EXCEPT ![what] = @ - 1]

\* The connections users have.
Held == {w.sp, l.sp, r.sp} \ {NoConn}

-----------------------------------------------------------------------------
(* MySQL: what goes wrong                                                  *)

\* The server ends all sessions and is down until it is started again.
Outage ==
    /\ db.up /\ Spend("troubles")
    /\ db' = [db EXCEPT !.up = FALSE]
    /\ my' = [c \in MConn |-> IF c \in Idle(mp) \cup Held THEN Broken(my[c]) ELSE my[c]]
    /\ UNCHANGED <<mp, aged, feed, users>>

Restored ==
    /\ ~db.up
    /\ db' = [db EXCEPT !.up = TRUE]
    /\ UNCHANGED <<mp, my, aged, feed, users, left>>

\* An hour in which the idle connections are not used.
Hour ==
    /\ Spend("troubles")
    /\ aged' = Idle(mp)
    /\ UNCHANGED <<sql, feed, users>>

-----------------------------------------------------------------------------
(* MySQL: the pool                                                         *)

\* The connection CreateConnection makes.
Fresh == CHOOSE c \in MConn : c \notin Idle(mp) \cup Held

\* GetConnection: the connection handed out to a user becomes "sp".
Get(sp) ==
    LET fresh == IF db.up THEN Fresh ELSE NoConn
        g == GetConnection(mp, aged, fresh)
    IN  /\ db.up \/ mp.cur > -MaxBelow
        /\ sp = g.sp
        /\ mp' = g.pool
        /\ my' = [c \in MConn |-> IF c \in (Idle(mp) \cup Held) /\ c \in Idle(g.pool) \cup Held \cup ({sp} \ {fresh})
                                 THEN my[c] ELSE Connect]
        /\ aged' = aged \cap Idle(mp')

\* ReleaseConnection rolls back and notes the time of use.
Release(sp) ==
    /\ mp' = ReleaseConnection(mp, sp)
    /\ my' = IF sp = NoConn THEN my ELSE [my EXCEPT ![sp] = RollBack(@, db.up)]

\* What a committed write does to the tables.
Apply(d, write) ==
    CASE write = Nothing -> d
      [] write # Nothing /\ write.kind = "sync" -> [d EXCEPT !.row = write.new]
      [] write # Nothing /\ write.kind # "sync" -> [d EXCEPT !.recs = Append(@, write)]

-----------------------------------------------------------------------------
(* The writer: AsyncDbWriter and its tasks                                 *)

W_Get ==
    /\ w.pc = "idle" /\ q # <<>>
    /\ q' = Tail(q)
    /\ \E sp \in MConn \cup {NoConn} :
         /\ Get(sp)
         /\ w' = [pc |-> IF sp = NoConn THEN "none" ELSE "start", sp |-> sp, task |-> Head(q), ok |-> TRUE]
    /\ UNCHANGED <<db, asg, cache, trades, rest, rep, l, r, left>>

\* Mutant of W_NoConn: the task is put back at the end.
W_NoConn_Again ==
    /\ w.pc = "none"
    /\ Release(NoConn)
    /\ q' = Append(q, w.task)
    /\ w' = [w EXCEPT !.pc = "idle", !.task = Nothing]
    /\ UNCHANGED <<db, aged, asg, cache, trades, rest, rep, l, r, left>>

\* No connection: the empty one is released and the task dropped.
W_NoConn ==
    /\ w.pc = "none"
    /\ Release(NoConn)
    /\ w' = [w EXCEPT !.pc = "idle", !.task = Nothing]
    /\ UNCHANGED <<db, aged, feed, l, r, left>>

\* StartTransaction; only TaskRecordOrder looks at the result.
W_Start ==
    /\ w.pc = "start"
    /\ LET s == my[w.sp]
       IN  /\ my' = [my EXCEPT ![w.sp] = StartTransaction(s, db.up)]
           /\ db' = Apply(db, Commits(s, db.up))
           /\ w' = [w EXCEPT !.pc = IF w.task.kind = "order" /\ ~Reaches(s, db.up) THEN "release" ELSE "query"]
    /\ UNCHANGED <<mp, aged, feed, l, r, left>>

\* Mutant of Affected: the statement does not ask for the counts it was made from.
Affected_NoOld(task) ==
    CASE task.kind = "sync" -> 1
      [] task.kind = "cancel" -> Cardinality({i \in DOMAIN db.recs : db.recs[i].kind = "order" /\ db.recs[i].id = task.id})
      [] OTHER -> 1

\* How many rows the statement of a task changes.
Affected(task) ==
    CASE task.kind = "sync" -> IF db.row = task.old THEN 1 ELSE 0
      [] task.kind = "cancel" -> Cardinality({i \in DOMAIN db.recs : db.recs[i].kind = "order" /\ db.recs[i].id = task.id})
      [] OTHER -> 1

\* The statement: it fails with the connection or for a reason of its own.
\* One that does not change exactly one row is rolled back.
W_Query ==
    /\ w.pc = "query"
    /\ LET s == my[w.sp]
           n == Affected(w.task)
       IN  \/ /\ Reaches(s, db.up)
              /\ my' = [my EXCEPT ![w.sp] = Query_Update(s, db.up, IF n = 0 THEN Reached(s).write ELSE w.task)]
              /\ w' = [w EXCEPT !.pc = "end", !.ok = n = 1]
              /\ UNCHANGED left
           \/ /\ ~Reaches(s, db.up)
              /\ my' = [my EXCEPT ![w.sp] = Missed(s)]
              /\ w' = [w EXCEPT !.pc = "end", !.ok = FALSE]
              /\ UNCHANGED left
           \/ /\ Reaches(s, db.up) /\ Spend("troubles")
              /\ my' = [my EXCEPT ![w.sp] = Reached(s)]
              /\ w' = [w EXCEPT !.pc = "end", !.ok = FALSE]
    /\ UNCHANGED <<db, mp, aged, feed, l, r>>

\* Commit, whose failure is not looked at, or RollBack.
W_End ==
    /\ w.pc = "end"
    /\ LET s == my[w.sp]
       IN  /\ my' = [my EXCEPT ![w.sp] = IF w.ok THEN Commit(s, db.up) ELSE RollBack(s, db.up)]
           /\ db' = IF w.ok THEN Apply(db, Commits(s, db.up)) ELSE db
    /\ w' = [w EXCEPT !.pc = "release"]
    /\ UNCHANGED <<mp, aged, feed, l, r, left>>

W_Release ==
    /\ w.pc = "release"
    /\ Release(w.sp)
    /\ w' = NoTask
    /\ UNCHANGED <<db, aged, feed, l, r, left>>

-----------------------------------------------------------------------------
(* The cache: LoadUserStockFromDB, trades                                  *)

\* An order for a holding that is not in the cache.
L_Get ==
    /\ l.pc = "idle" /\ cache = Nothing
    /\ \E sp \in MConn \cup {NoConn} :
         /\ Get(sp)
         /\ l' = [pc |-> IF sp = NoConn THEN "none" ELSE "type", sp |-> sp]
    /\ UNCHANGED <<db, feed, w, r, left>>

L_NoConn ==
    /\ l.pc = "none"
    /\ Release(NoConn)
    /\ l' = User
    /\ UNCHANGED <<db, aged, feed, w, r, left>>

\* GetStockType knows no security of that code: the order is refused, and the
\* connection goes with its last pointer, but not from the pool's count.
L_Type ==
    /\ l.pc = "type"
    /\ \/ /\ l' = [l EXCEPT !.pc = "start"] /\ UNCHANGED <<my, left>>
       \/ /\ Spend("troubles") /\ l' = User /\ my' = [my EXCEPT ![l.sp] = Connect]
    /\ UNCHANGED <<db, mp, aged, feed, w, r>>

L_Start ==
    /\ l.pc = "start"
    /\ LET s == my[l.sp]
       IN  /\ my' = [my EXCEPT ![l.sp] = StartTransaction(s, db.up)]
           /\ db' = Apply(db, Commits(s, db.up))
    /\ l' = [l EXCEPT !.pc = "select"]
    /\ UNCHANGED <<mp, aged, feed, w, r, left>>

\* What is no number of shares at all.
Garbage == 0

\* What an uninitialised UserStockInfo may hold: remains of an earlier load.
Uninitialised == {<<Garbage>>} \cup {SubSeq(db.row, 1, n) : n \in 0..Len(db.row)}

\* The SELECT; when it fails the function returns 0 all the same.
L_Select ==
    /\ l.pc = "select"
    /\ LET s == my[l.sp]
           got == Query_Select(s, db.up, db.row)
       IN  \/ /\ Reaches(s, db.up)
              /\ my' = [my EXCEPT ![l.sp] = got]
              /\ cache' = [read |-> TRUE, has |-> got.snap]
              /\ l' = [l EXCEPT !.pc = "release"]
              /\ UNCHANGED left
           \/ /\ \/ ~Reaches(s, db.up) /\ UNCHANGED left
                 \/ Reaches(s, db.up) /\ Spend("troubles")
              /\ \E v \in Uninitialised : cache' = [read |-> FALSE, has |-> v]
              /\ l' = User
              /\ my' = [my EXCEPT ![l.sp] = Connect]
    /\ UNCHANGED <<db, mp, aged, q, asg, trades, rest, rep, w, r>>

L_Release ==
    /\ l.pc = "release"
    /\ Release(l.sp)
    /\ l' = User
    /\ UNCHANGED <<db, aged, feed, w, r, left>>

Free == l.pc = "idle" /\ cache # Nothing

\* AssignTask; a record is given the number of its place.
Assign(task) ==
    IF task.kind = "sync" THEN q' = Append(q, task) /\ UNCHANGED asg
    ELSE asg' = asg + 1 /\ q' = Append(q, [kind |-> task.kind, id |-> task.id, n |-> asg'])

\* The task that inserts an order's row.
TaskRecordOrder(id) == [kind |-> "order", id |-> id]

\* RecordNewOrder.
NewOrder ==
    /\ Free /\ trades < MaxTrades
    /\ trades' = trades + 1 /\ rest' = rest \cup {trades'}
    /\ Assign(TaskRecordOrder(trades'))
    /\ UNCHANGED <<sql, aged, cache, rep, users, left>>

\* Mutant of Trade: the cache keeps what it had.
Trade_Stale(id) ==
    /\ Free /\ id \in rest /\ rest' = rest \ {id}
    /\ Assign([kind |-> "sync", old |-> cache.has, new |-> Append(cache.has, id)])
    /\ UNCHANGED <<sql, aged, cache, trades, rep, users, left>>

\* Its trade: the holding and the statement for its row.  The trade's own
\* record is a row inserted like that of the order.
Trade(id) ==
    /\ Free /\ id \in rest /\ rest' = rest \ {id}
    /\ LET new == Append(cache.has, id)
       IN  /\ cache' = [cache EXCEPT !.has = new]
           /\ Assign([kind |-> "sync", old |-> cache.has, new |-> new])
    /\ UNCHANGED <<sql, aged, trades, rep, users, left>>

\* Its cancel, which goes to the thread that sends reports.
Cancel(id) ==
    /\ Free /\ id \in rest /\ rest' = rest \ {id}
    /\ rep' = rep \cup {[kind |-> "cancel", id |-> id]}
    /\ UNCHANGED <<sql, aged, q, asg, cache, trades, users, left>>

\* WriteTransInfoInDb_CancelSuccess, called by the thread that sends reports:
\* is_proc of the order's row is updated.
Record(t) ==
    /\ t \in rep
    /\ rep' = rep \ {t}
    /\ Assign(t)
    /\ UNCHANGED <<sql, aged, cache, trades, rest, users, left>>

-----------------------------------------------------------------------------
(* A request that reads: no StartTransaction                               *)

R_Get ==
    /\ r.pc = "idle" /\ Spend("reads")
    /\ \E sp \in MConn \cup {NoConn} :
         /\ Get(sp)
         /\ r' = [pc |-> IF sp = NoConn THEN "release" ELSE "query", sp |-> sp,
                  since |-> Len(db.row), got |-> <<>>]
    /\ UNCHANGED <<db, feed, w, l>>

R_Query ==
    /\ r.pc = "query"
    /\ LET s == my[r.sp]
           got == Query_Select(s, db.up, db.row)
       IN  /\ my' = [my EXCEPT ![r.sp] = got]
           /\ r' = IF Reaches(s, db.up) THEN [r EXCEPT !.pc = "read", !.got = got.snap]
                                        ELSE [r EXCEPT !.pc = "release"]
    /\ UNCHANGED <<db, mp, aged, feed, w, l, left>>

R_Release ==
    /\ r.pc \in {"read", "release"}
    /\ Release(r.sp)
    /\ r' = NoRequest
    /\ UNCHANGED <<db, aged, feed, w, l, left>>

\* The process ends, for instance with exit(3) after an error of Redis, and is
\* started again: what was queued is gone, the server rolls back.
Exit ==
    /\ db.up /\ Spend("exits")
    /\ mp' = Started(PoolSize, MConn) /\ my' = [c \in MConn |-> Connect]
    /\ aged' = {} /\ q' = <<>> /\ rest' = {} /\ rep' = {} /\ cache' = Nothing
    /\ w' = NoTask /\ l' = User /\ r' = NoRequest
    /\ UNCHANGED <<db, asg, trades>>

-----------------------------------------------------------------------------

Writer == W_Get \/ W_NoConn \/ W_Start \/ W_Query \/ W_End \/ W_Release
Loader == L_Get \/ L_NoConn \/ L_Type \/ L_Start \/ L_Select \/ L_Release
Reader == R_Get \/ R_Query \/ R_Release
Match == NewOrder \/ (\E id \in rest : Trade(id) \/ Cancel(id)) \/ \E t \in rep : Record(t)
Next == Outage \/ Restored \/ Hour \/ Writer \/ Loader \/ Reader \/ Match \/ Exit

Spec == Init /\ [][Next]_vars

\* Threads run on, the server is started again, and orders for the holding
\* keep coming until it is loaded.
FairSpec ==
    /\ Spec
    /\ WF_vars(Restored) /\ WF_vars(Writer) /\ WF_vars(R_Query \/ R_Release)
    /\ WF_vars(Loader)

-----------------------------------------------------------------------------
(* Properties                                                              *)

TypeOK ==
    /\ db \in [up : BOOLEAN, row : Holding, recs : Seq(RecordTask)]
    /\ mp \in [list : Seq(MConn), cur : Int, max : {PoolSize}] /\ mp.cur <= PoolSize
    /\ my \in [MConn -> Session] /\ aged \subseteq MConn
    /\ q \in Seq(Task) /\ asg \in Nat /\ trades \in Nat /\ rest \subseteq 1..trades
    /\ cache \in Cached \cup {Nothing} /\ rep \subseteq ReportTask
    /\ w \in [pc : {"idle", "none", "start", "query", "end", "release"}, sp : MConn \cup {NoConn},
              task : Task \cup {Nothing}, ok : BOOLEAN]
    /\ l \in [pc : {"idle", "none", "type", "start", "select", "release"}, sp : MConn \cup {NoConn}]
    /\ r \in [pc : {"idle", "query", "read", "release"}, sp : MConn \cup {NoConn},
              since : Nat, got : Holding]
    /\ left \in [reads : Nat, troubles : Nat, exits : Nat]

\* A connection is idle or has one user: GetConnection and ReleaseConnection
\* never give it to two, however often connections are lost and replaced.
OneUser ==
    /\ TypeOK
    /\ IsInjective(mp.list) /\ Idle(mp) \cap Held = {}
    /\ \A u, v \in {w, l, r} : u # v /\ u.sp # NoConn => u.sp # v.sp

\* What a request reads is not older than the moment it took its connection,
\* although nothing starts a transaction for it and the connection had other
\* users before (ReleaseConnection's RollBack).
FreshRead == r.pc = "read" => Len(r.got) >= r.since

\* The row is never ahead of the cache or different from it: what it holds is
\* the beginning of what the cache holds, through outages, lost statements,
\* reconnections in the middle of a transaction and restarts.
RowBehindCache == cache # Nothing /\ cache.read => IsPrefix(db.row, cache.has)

\* Not even a holding that was never read can spoil the row: the row only
\* grows, by trades that were made, whatever the connections do.
RowOfTrades ==
    [][db'.row # db.row => /\ IsPrefix(db.row, db'.row)
                           /\ ToSet(db'.row) \subseteq 1..trades]_vars

\* Records are written at most once and in the order they were assigned,
\* some perhaps not at all.
RecordsInOrder == \A i, j \in DOMAIN db.recs : i < j => db.recs[i].n < db.recs[j].n

\* What is in the database was written in the order it was decided, the
\* holding's row and the records alike.
WrittenInOrder == RowBehindCache /\ RecordsInOrder

\* The holding is loaded in the end: connections lost to refused orders and
\* outages do not use the pool up for good.
LoadedInTheEnd == <>[](cache # Nothing)
=============================================================================
