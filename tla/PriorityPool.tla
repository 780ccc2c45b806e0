---------------------------- MODULE PriorityPool ----------------------------
(***************************************************************************)
(* What a TaskPriorityQueue promises the threads that share it, with no    *)
(* queues in it: a bounded set of pending tasks, of which GetTask takes    *)
(* one of the most urgent class and from which a cancel removes the task   *)
(* of a given order.  TaskPriorityQueue.tla implements this specification  *)
(* (TaskPriorityQueue!PoolSpec).                                           *)
(***************************************************************************)
EXTENDS Integers, FiniteSets

CONSTANTS Task,            \* the tasks that may be offered to the queue
          Key,             \* the keys of the ordered queues
          Cliordid,        \* order numbers
          MAX_QUEUE_SIZE   \* the largest number of pending tasks

VARIABLES pending,         \* accepted tasks that nobody has taken out
          taken,           \* tasks handed to the worker
          deleted,         \* tasks handed to a cancel
          rejected,        \* tasks refused because the queue was full
          iRes             \* return code of the last call

poolVars == <<pending, taken, deleted, rejected, iRes>>

\* The level of a task: a resting order that is to be kept ordered waits with
\* the orders being matched, any other resting order waits behind everything.
Level(t) ==
    IF t.prio = 1 /\ t.ordered THEN 3 ELSE t.prio

\* Urgency classes: cancels, then unordered matches, ordered ones, checks and
\* resting orders.
Urgency(t) ==
    IF t.ordered /\ Level(t) = 3 THEN 5 ELSE 2 * Level(t)

MostUrgent(t) ==
    t \in pending /\ \A u \in pending : Urgency(u) <= Urgency(t)

\* Tasks the cancel of order c may take out: never a cancel, and an ordered
\* task only under its own key.
Cancellable(k, c) ==
    {t \in pending : /\ t.prio # 4
                     /\ t.cliordid = c
                     /\ (t.ordered /\ Level(t) = 3) => t.key = k}

PoolInit ==
    /\ pending = {} /\ taken = {} /\ deleted = {} /\ rejected = {}
    /\ iRes = 0

Add(t) ==
    /\ t \notin pending \cup taken \cup deleted \cup rejected
    /\ UNCHANGED <<taken, deleted>>
    /\ \/ /\ Cardinality(pending) < MAX_QUEUE_SIZE
          /\ pending' = pending \cup {t}
          /\ iRes' = 0
          /\ UNCHANGED rejected
       \/ /\ Cardinality(pending) >= MAX_QUEUE_SIZE
          /\ rejected' = rejected \cup {t}
          /\ iRes' = 2
          /\ UNCHANGED pending

Get ==
    /\ UNCHANGED <<deleted, rejected>>
    /\ \/ \E t \in pending :
            /\ MostUrgent(t)
            /\ pending' = pending \ {t}
            /\ taken' = taken \cup {t}
            /\ iRes' = 0
       \/ /\ pending = {}
          /\ iRes' = 1
          /\ UNCHANGED <<pending, taken>>

Delete(k, c) ==
    /\ UNCHANGED <<taken, rejected>>
    /\ \/ \E t \in Cancellable(k, c) :
            /\ pending' = pending \ {t}
            /\ deleted' = deleted \cup {t}
            /\ iRes' = 0
       \/ /\ Cancellable(k, c) = {}
          /\ iRes' = 1
          /\ UNCHANGED <<pending, deleted>>

PoolNext ==
    \/ \E t \in Task : Add(t)
    \/ Get
    \/ \E k \in Key, c \in Cliordid : Delete(k, c)

PoolSpec == PoolInit /\ [][PoolNext]_poolVars
=============================================================================
