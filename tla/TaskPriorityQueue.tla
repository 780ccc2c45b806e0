------------------------- MODULE TaskPriorityQueue -------------------------
(***************************************************************************)
(* The queue of one PriorityThread: thread_pool_priority/TaskPriorityQueue *)
(* with every operation that changes it, each one atomic because the code  *)
(* holds m_mutexlock from its first line to its return.                    *)
(*                                                                         *)
(* A task is a record of the fields of TaskPriorityBase the queue reads.   *)
(* Task objects are never offered twice: whoever puts an order back builds *)
(* a new task with a new id.  m_p3_order_que is a total function from keys *)
(* to sequences; a key the code's map lacks has the empty sequence, which  *)
(* every operation treats alike.  m_map_p3_order_queUnMatch is left out:   *)
(* no code ever inserts into it.                                           *)
(***************************************************************************)
EXTENDS Integers, FiniteSets, Sequences, SequencesExt

CONSTANTS Task,            \* the tasks that may be offered to the queue
          Key,             \* m_iKey: side * 10000000 + stock, one per book side
          Cliordid,        \* order numbers
          MAX_QUEUE_SIZE   \* the code's limit on the number of tasks

\* QueueTask::TaskPriority
Level_Standby_Order == 1
Level_Check_Order   == 2
Level_Match_Order   == 3
Level_Cancel_Order  == 4

Priority == {Level_Standby_Order, Level_Check_Order,
             Level_Match_Order, Level_Cancel_Order}

Side == {"buy", "sell"}

\* Keys are integers, compared by the std::map that holds the ordered queues;
\* a task carries the fields of TaskPriorityBase.  GenerateKey makes the key of
\* an ordered task from its side and its stock: those of one key are of one side.
ASSUME TaskAssumption ==
    /\ Key \subseteq Int
    /\ Task \subseteq [id : Nat, prio : Priority, key : Key, ordered : BOOLEAN,
                       side : Side, price : Nat, time : Nat, cliordid : Cliordid]
    /\ \A t, u \in Task : t.ordered /\ u.ordered /\ t.key = u.key => t.side = u.side

ASSUME MaxAssumption == MAX_QUEUE_SIZE \in Nat

VARIABLES m_p1_que, m_p2_que, m_p3_order_que, m_p3_unorder_que, m_p4_que,
          m_uiTaskNums,
          iRes,                       \* return code of the last call
          taken, deleted, rejected    \* history: what became of each task

queues  == <<m_p1_que, m_p2_que, m_p3_order_que, m_p3_unorder_que, m_p4_que>>
history == <<taken, deleted, rejected>>
vars    == <<queues, m_uiTaskNums, iRes, history>>

TasksOf(q) == UNION {ToSet(q[k]) : k \in Key}

QueuedOrdered == TasksOf(m_p3_order_que)

\* Every task some queue holds.
Pending ==
    ToSet(m_p1_que) \cup ToSet(m_p2_que) \cup QueuedOrdered
        \cup ToSet(m_p3_unorder_que) \cup ToSet(m_p4_que)

Seen == Pending \cup taken \cup deleted \cup rejected

-----------------------------------------------------------------------------
(***************************************************************************)
(* Deque_Insert: positions are 0-based, as in the code.                    *)
(***************************************************************************)

\* Mutant of MovesRight: one direction for both sides.
MovesRight_OneWay(side, p, q) == p <= q

\* Whether the search moves right of price q when looking for price p.
MovesRight(side, p, q) == IF side = "sell" THEN p >= q ELSE p <= q

\* The last iMid of the binary search on the price; r is <<iLow, iHigh>>.
Ranges(s) == {r \in (0..Len(s) - 1) \X (0..Len(s) - 1) : r[1] <= r[2]}

LastMid(s, t) ==
    LET mid[r \in Ranges(s)] ==
            LET m == (r[1] + r[2]) \div 2
                right == MovesRight(t.side, t.price, s[m + 1].price)
                low == IF right THEN m + 1 ELSE r[1]
                high == IF right THEN r[2] ELSE m - 1
            IN  IF low > high THEN m ELSE mid[<<low, high>>]
    IN  IF s = <<>> THEN 0 ELSE mid[<<0, Len(s) - 1>>]

\* Mutant of InsertPos: one past the end.
InsertPos_PastEnd(s, t) ==
    IF LastMid(s, t) = Len(s) THEN Len(s) + 1 ELSE LastMid(s, t)

\* The walk over equal prices that starts at iMid and picks the position.
InsertPos(s, t) ==
    LET walk[m \in 0..Len(s)] ==
            LET u == s[m + 1]
            IN  IF m < Len(s) /\ t.price = u.price /\ t.time > u.time THEN walk[m + 1]
                ELSE IF m < Len(s) /\ t.price # u.price /\ MovesRight(t.side, t.price, u.price)
                THEN m + 1 ELSE m
    IN  walk[LastMid(s, t)]

Deque_Insert(s, t) == InsertAt(s, InsertPos(s, t) + 1, t)

-----------------------------------------------------------------------------
Init ==
    /\ m_p1_que = <<>> /\ m_p2_que = <<>>
    /\ m_p3_unorder_que = <<>> /\ m_p4_que = <<>>
    /\ m_p3_order_que = [k \in Key |-> <<>>]
    /\ m_uiTaskNums = 0
    /\ iRes = 0
    /\ taken = {} /\ deleted = {} /\ rejected = {}

AddTask_Full(t) ==
    /\ MAX_QUEUE_SIZE <= m_uiTaskNums
    /\ rejected' = rejected \cup {t}
    /\ iRes' = 2
    /\ UNCHANGED <<queues, m_uiTaskNums, taken, deleted>>

AddToP1(t) ==
    /\ t.prio = Level_Standby_Order /\ ~t.ordered
    /\ m_p1_que' = Append(m_p1_que, t)
    /\ UNCHANGED <<m_p2_que, m_p3_order_que, m_p3_unorder_que, m_p4_que>>

AddToP2(t) ==
    /\ t.prio = Level_Check_Order
    /\ m_p2_que' = Append(m_p2_que, t)
    /\ UNCHANGED <<m_p1_que, m_p3_order_que, m_p3_unorder_que, m_p4_que>>

\* The position has to be an iterator of the deque or its end: the standard
\* library leaves any other insert undefined.
AddToP3Order(t) ==
    /\ t.prio \in {Level_Standby_Order, Level_Match_Order} /\ t.ordered
    /\ InsertPos(m_p3_order_que[t.key], t) \in 0..Len(m_p3_order_que[t.key])
    /\ m_p3_order_que' = [m_p3_order_que EXCEPT ![t.key] = Deque_Insert(@, t)]
    /\ UNCHANGED <<m_p1_que, m_p2_que, m_p3_unorder_que, m_p4_que>>

AddToP3Unorder(t) ==
    /\ t.prio = Level_Match_Order /\ ~t.ordered
    /\ m_p3_unorder_que' = Append(m_p3_unorder_que, t)
    /\ UNCHANGED <<m_p1_que, m_p2_que, m_p3_order_que, m_p4_que>>

AddToP4(t) ==
    /\ t.prio = Level_Cancel_Order
    /\ m_p4_que' = Append(m_p4_que, t)
    /\ UNCHANGED <<m_p1_que, m_p2_que, m_p3_order_que, m_p3_unorder_que>>

\* Mutant of AddTask: one task too many.
AddTask_OffByOne(t) ==
    /\ t \notin Seen
    /\ m_uiTaskNums <= MAX_QUEUE_SIZE
    /\ AddToP1(t) \/ AddToP2(t) \/ AddToP3Order(t) \/ AddToP3Unorder(t) \/ AddToP4(t)
    /\ m_uiTaskNums' = m_uiTaskNums + 1
    /\ iRes' = 0
    /\ UNCHANGED history

AddTask(t) ==
    /\ t \notin Seen
    /\ \/ AddTask_Full(t)
       \/ /\ m_uiTaskNums < MAX_QUEUE_SIZE
          /\ AddToP1(t) \/ AddToP2(t) \/ AddToP3Order(t)
               \/ AddToP3Unorder(t) \/ AddToP4(t)
          /\ m_uiTaskNums' = m_uiTaskNums + 1
          /\ iRes' = 0
          /\ UNCHANGED history

-----------------------------------------------------------------------------
\* The end of GetTask when a task was found: a count of zero is logged and
\* left alone.
Popped(t) ==
    /\ taken' = taken \cup {t}
    /\ m_uiTaskNums' = IF m_uiTaskNums = 0 THEN 0 ELSE m_uiTaskNums - 1
    /\ iRes' = 0
    /\ UNCHANGED <<deleted, rejected>>

GetFromP4 ==
    /\ m_p4_que # <<>>
    /\ m_p4_que' = Tail(m_p4_que)
    /\ Popped(Head(m_p4_que))
    /\ UNCHANGED <<m_p1_que, m_p2_que, m_p3_order_que, m_p3_unorder_que>>

\* Mutant of GetFromP3Unorder: front() without pop_front().
GetFromP3Unorder_NoPop ==
    /\ m_p4_que = <<>> /\ m_p3_unorder_que # <<>>
    /\ Popped(Head(m_p3_unorder_que))
    /\ UNCHANGED queues

GetFromP3Unorder ==
    /\ m_p4_que = <<>> /\ m_p3_unorder_que # <<>>
    /\ m_p3_unorder_que' = Tail(m_p3_unorder_que)
    /\ Popped(Head(m_p3_unorder_que))
    /\ UNCHANGED <<m_p1_que, m_p2_que, m_p3_order_que, m_p4_que>>

\* The map is walked in the order of its keys to the first non-empty deque.
GetFromP3Order ==
    /\ m_p4_que = <<>> /\ m_p3_unorder_que = <<>>
    /\ \E k \in Key :
         /\ m_p3_order_que[k] # <<>>
         /\ \A j \in Key : j < k => m_p3_order_que[j] = <<>>
         /\ m_p3_order_que' = [m_p3_order_que EXCEPT ![k] = Tail(@)]
         /\ Popped(Head(m_p3_order_que[k]))
    /\ UNCHANGED <<m_p1_que, m_p2_que, m_p3_unorder_que, m_p4_que>>

\* Mutant of NoMatchTask: the ordered queues are forgotten.
NoMatchTask_NoOrdered == m_p4_que = <<>> /\ m_p3_unorder_que = <<>>

NoMatchTask ==
    /\ m_p4_que = <<>> /\ m_p3_unorder_que = <<>>
    /\ \A k \in Key : m_p3_order_que[k] = <<>>

GetFromP2 ==
    /\ NoMatchTask /\ m_p2_que # <<>>
    /\ m_p2_que' = Tail(m_p2_que)
    /\ Popped(Head(m_p2_que))
    /\ UNCHANGED <<m_p1_que, m_p3_order_que, m_p3_unorder_que, m_p4_que>>

GetFromP1 ==
    /\ NoMatchTask /\ m_p2_que = <<>> /\ m_p1_que # <<>>
    /\ m_p1_que' = Tail(m_p1_que)
    /\ Popped(Head(m_p1_que))
    /\ UNCHANGED <<m_p2_que, m_p3_order_que, m_p3_unorder_que, m_p4_que>>

GetNothing ==
    /\ NoMatchTask /\ m_p2_que = <<>> /\ m_p1_que = <<>>
    /\ iRes' = 1
    /\ UNCHANGED <<queues, m_uiTaskNums, history>>

GetTask ==
    \/ GetFromP4 \/ GetFromP3Unorder \/ GetFromP3Order
    \/ GetFromP2 \/ GetFromP1 \/ GetNothing

-----------------------------------------------------------------------------
Holds(s, c) == \E t \in ToSet(s) : t.cliordid = c

\* DeleteOrderByClordId finds the first task of order c in s.
FirstOf(s, c) ==
    {i \in 1..Len(s) : /\ s[i].cliordid = c
                       /\ \A j \in 1..i - 1 : s[j].cliordid # c}

\* Mutant of Erased: the count is not maintained.
Erased_NoCount(t) ==
    /\ deleted' = deleted \cup {t}
    /\ iRes' = 0
    /\ UNCHANGED <<m_uiTaskNums, taken, rejected>>

\* The end of DeleteIfHaveTask when the task was found and erased.
Erased(t) ==
    /\ deleted' = deleted \cup {t}
    /\ m_uiTaskNums' = m_uiTaskNums - 1
    /\ iRes' = 0
    /\ UNCHANGED <<taken, rejected>>

DeleteFromP3Order(k, c) ==
    /\ \E i \in FirstOf(m_p3_order_que[k], c) :
         /\ m_p3_order_que' = [m_p3_order_que EXCEPT ![k] = RemoveAt(@, i)]
         /\ Erased(m_p3_order_que[k][i])
    /\ UNCHANGED <<m_p1_que, m_p2_que, m_p3_unorder_que, m_p4_que>>

DeleteFromP3Unorder(k, c) ==
    /\ ~Holds(m_p3_order_que[k], c)
    /\ \E i \in FirstOf(m_p3_unorder_que, c) :
         /\ m_p3_unorder_que' = RemoveAt(m_p3_unorder_que, i)
         /\ Erased(m_p3_unorder_que[i])
    /\ UNCHANGED <<m_p1_que, m_p2_que, m_p3_order_que, m_p4_que>>

DeleteFromP2(k, c) ==
    /\ ~Holds(m_p3_order_que[k], c) /\ ~Holds(m_p3_unorder_que, c)
    /\ \E i \in FirstOf(m_p2_que, c) :
         /\ m_p2_que' = RemoveAt(m_p2_que, i)
         /\ Erased(m_p2_que[i])
    /\ UNCHANGED <<m_p1_que, m_p3_order_que, m_p3_unorder_que, m_p4_que>>

DeleteFromP1(k, c) ==
    /\ ~Holds(m_p3_order_que[k], c) /\ ~Holds(m_p3_unorder_que, c)
    /\ ~Holds(m_p2_que, c)
    /\ \E i \in FirstOf(m_p1_que, c) :
         /\ m_p1_que' = RemoveAt(m_p1_que, i)
         /\ Erased(m_p1_que[i])
    /\ UNCHANGED <<m_p2_que, m_p3_order_que, m_p3_unorder_que, m_p4_que>>

DeleteNothing(k, c) ==
    /\ ~Holds(m_p3_order_que[k], c) /\ ~Holds(m_p3_unorder_que, c)
    /\ ~Holds(m_p2_que, c) /\ ~Holds(m_p1_que, c)
    /\ iRes' = 1
    /\ UNCHANGED <<queues, m_uiTaskNums, history>>

DeleteIfHaveTask(k, c) ==
    \/ DeleteFromP3Order(k, c) \/ DeleteFromP3Unorder(k, c)
    \/ DeleteFromP2(k, c) \/ DeleteFromP1(k, c) \/ DeleteNothing(k, c)

Next ==
    \/ \E t \in Task : AddTask(t)
    \/ GetTask
    \/ \E k \in Key, c \in Cliordid : DeleteIfHaveTask(k, c)

Spec == Init /\ [][Next]_vars

-----------------------------------------------------------------------------
QueuesTyped ==
    /\ m_p1_que \in Seq(Task) /\ m_p2_que \in Seq(Task)
    /\ m_p3_unorder_que \in Seq(Task) /\ m_p4_que \in Seq(Task)
    /\ m_p3_order_que \in [Key -> Seq(Task)]

\* The types of the queue's members (TaskPriorityQueue.h).  The count stays
\* within the limit the code checks.
TypeOK ==
    /\ QueuesTyped
    /\ m_uiTaskNums \in 0..MAX_QUEUE_SIZE
    /\ iRes \in {0, 1, 2}
    /\ taken \subseteq Task /\ deleted \subseteq Task /\ rejected \subseteq Task

NoDuplicate(s) == \A i, j \in 1..Len(s) : s[i] = s[j] => i = j

\* Each queue holds the tasks AddTask routes to it, each of them once.
InItsQueue ==
    /\ \A t \in ToSet(m_p1_que) : t.prio = Level_Standby_Order /\ ~t.ordered
    /\ \A t \in ToSet(m_p2_que) : t.prio = Level_Check_Order
    /\ \A t \in ToSet(m_p3_unorder_que) : t.prio = Level_Match_Order /\ ~t.ordered
    /\ \A t \in ToSet(m_p4_que) : t.prio = Level_Cancel_Order
    /\ \A k \in Key : \A t \in ToSet(m_p3_order_que[k]) :
          /\ t.prio \in {Level_Standby_Order, Level_Match_Order}
          /\ t.ordered
          /\ t.key = k

OnceInItsQueue ==
    /\ InItsQueue
    /\ NoDuplicate(m_p1_que) /\ NoDuplicate(m_p2_que)
    /\ NoDuplicate(m_p3_unorder_que) /\ NoDuplicate(m_p4_que)
    /\ \A k \in Key : NoDuplicate(m_p3_order_que[k])

\* No task is in two hands: what the worker got is never given to a cancel as
\* well, nor still queued, nor refused.  (GetTask and DeleteIfHaveTask take
\* the same task out under one mutex.)
TaskInOnePlace ==
    /\ OnceInItsQueue
    /\ Pending \cap taken = {} /\ Pending \cap deleted = {}
    /\ Pending \cap rejected = {} /\ taken \cap deleted = {}
    /\ taken \cap rejected = {} /\ deleted \cap rejected = {}

\* m_uiTaskNums, which AddTask, GetTask and DeleteIfHaveTask maintain by hand
\* and AssignTaskInMini reads to pick a thread, is the number of queued tasks.
CountIsExact == m_uiTaskNums = Cardinality(Pending)

\* A deque of the ordered queue is sorted by price, best price first: falling
\* on the buy side, rising on the sell side (Deque_Price_Time_Binary_Insert).
PriceOrdered ==
    \A k \in Key : \A i, j \in 1..Len(m_p3_order_que[k]) :
        LET a == m_p3_order_que[k][i]
            b == m_p3_order_que[k][j]
        IN  i < j => IF a.side = "sell" THEN a.price <= b.price
                                        ELSE a.price >= b.price

\* The position Deque_Insert computes is an iterator of the deque or its end,
\* whatever the deque holds and whatever is offered next: the walk over equal
\* prices that starts at the last iMid never runs past the end.
InsertInBounds ==
    \A t \in Task :
        InsertPos(m_p3_order_que[t.key], t) \in 0..Len(m_p3_order_que[t.key])

\* A deque stays sorted and the next insertion stays inside it: the second is
\* what AddToP3Order relies on to keep the first.
OrderedInsert == PriceOrdered /\ InsertInBounds

\* The order the comments above Deque_Price_Time_Binary_Insert_Inc and _Desc
\* state: by price, and by time within a price.
PriceTimeOrdered ==
    \A k \in Key : \A i, j \in 1..Len(m_p3_order_que[k]) :
        LET a == m_p3_order_que[k][i]
            b == m_p3_order_que[k][j]
        IN  i < j /\ a.price = b.price => a.time <= b.time

Pool == INSTANCE PriorityPool WITH pending <- Pending

\* The queue implements the bounded pool of PriorityPool: same return codes,
\* always a most urgent task, a cancel misses only what it may not remove.
PoolSpec == Pool!PoolSpec
=============================================================================
