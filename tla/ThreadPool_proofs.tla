-------------------------- MODULE ThreadPool_proofs --------------------------
(***************************************************************************)
(* Proofs about ThreadPool for every number of threads, every set of tasks *)
(* and producers and both ways to stop the pool.                           *)
(***************************************************************************)
EXTENDS ThreadPool, TLAPS

-----------------------------------------------------------------------------
(* The inductive invariant                                                 *)

\* A task is in the hand of a thread that works, and of a producer that adds.
InHand ==
    /\ \A w \in Thread : pc[w] = "work" => hand[w] \in Task
    /\ \A p \in Producer : producer[p].pc = "add" => producer[p].task \in Task

Gone(w) == pc[w] \in {"leave", "done"}

\* A thread that says it has stopped is past its loop.
SaysStopped == \A w \in Thread : state[w] = "STOPPED" => Gone(w)

\* A thread is told to stop only in the way the pool is stopped.
ToldBy ==
    \A w \in Thread :
        \/ runOp[w] = "Running"
        \/ runOp[w] = "Immediate" /\ StopBy = "StopPool"
        \/ runOp[w] = "TillTaskFinish" /\ StopBy = "StopPool_WaitAllFinish"

\* StopPool_WaitAllFinish has waited for the threads before its iterator.
Joined ==
    StopBy = "StopPool_WaitAllFinish" =>
        /\ stopper.pc # "force"
        /\ stopper.pc = "wait" => \A w \in Thread : w < stopper.it => Gone(w)
        /\ stopper.pc \in {"clear", "done"} => \A w \in Thread : Gone(w)

LookedLast(w) == pc[w] \in {"last", "stop", "leave", "done"}

\* What a thread has in its queue after its last look was added since.
LastLook ==
    StopBy = "StopPool_WaitAllFinish" =>
        \A w \in Thread : LookedLast(w) => ToSet(queue[w]) \subseteq late[w]

StopInv ==
    /\ TypeOK
    /\ InHand
    /\ SaysStopped
    /\ ToldBy
    /\ Joined
    /\ LastLook

-----------------------------------------------------------------------------
\* push_back adds the task to those of the queue.
LEMMA AppendTask ==
    ASSUME NEW s \in Seq(Task), NEW t \in Task
    PROVE  /\ Append(s, t) \in Seq(Task)
           /\ ToSet(Append(s, t)) = ToSet(s) \cup {t}
<1>1. /\ Append(s, t) \in Seq(Task)
      /\ DOMAIN Append(s, t) = 1..Len(s) + 1
      /\ DOMAIN s = 1..Len(s)
      /\ Len(s) \in Nat
      /\ \A i \in 1..Len(s) : Append(s, t)[i] = s[i]
      /\ Append(s, t)[Len(s) + 1] = t
  OBVIOUS
<1> QED  BY <1>1 DEF ToSet

\* An empty queue has no tasks.
LEMMA EmptyQueue == ToSet(<<>>) = {}
BY DEF ToSet

\* The pool starts in the invariant.
LEMMA StartInv == Init => StopInv
<1> SUFFICES ASSUME Init PROVE StopInv
  OBVIOUS
<1>a. 1 \in Thread
  BY ThreadPoolAssumption DEF Thread
<1>b. queue \in [Thread -> Seq(Task)] /\ hand \in [Thread -> Task \cup {Nothing}]
      /\ late \in [Thread -> SUBSET Task]
  BY DEF Init
<1>c. producer \in [Producer -> [pc : {"pick", "add"}, task : Task \cup {Nothing}, to : Thread]]
  BY <1>a DEF Init
<1>d. stopper \in [pc : {"idle", "notify", "force", "wait", "clear", "done"}, it : Thread]
  BY <1>a DEF Init
<1>e. woken \in [Thread -> BOOLEAN] /\ cleared \in BOOLEAN /\ ub \in BOOLEAN
  BY Zenon DEF Init
<1>1. TypeOK
  BY <1>b, <1>c, <1>d, <1>e DEF Init, TypeOK
<1>2. InHand /\ SaysStopped /\ ToldBy /\ Joined /\ LastLook
  BY DEF Init, InHand, SaysStopped, ToldBy, Joined, LastLook, LookedLast
<1> QED  BY <1>1, <1>2 DEF StopInv

\* AddTask keeps the types and what LastLook says of every thread.
LEMMA AddTaskKeeps ==
    ASSUME TypeOK, NEW v \in Thread, NEW t \in Task, AddTask(v, t)
    PROVE  /\ queue' \in [Thread -> Seq(Task)]
           /\ late' \in [Thread -> SUBSET Task]
           /\ woken' \in [Thread -> BOOLEAN]
           /\ \A w \in Thread : ToSet(queue[w]) \subseteq late[w]
                                    => ToSet(queue'[w]) \subseteq late'[w]
<1>1. queue \in [Thread -> Seq(Task)] /\ late \in [Thread -> SUBSET Task]
      /\ woken \in [Thread -> BOOLEAN]
  BY DEF TypeOK
<1>2. queue' = [queue EXCEPT ![v] = Append(queue[v], t)]
      /\ late' = [late EXCEPT ![v] = late[v] \cup {t}]
  BY DEF AddTask
<1>3. queue[v] \in Seq(Task)
  BY <1>1
<1>4. Append(queue[v], t) \in Seq(Task)
      /\ ToSet(Append(queue[v], t)) = ToSet(queue[v]) \cup {t}
  BY <1>3, AppendTask
<1>5. queue' \in [Thread -> Seq(Task)] /\ late' \in [Thread -> SUBSET Task]
  BY <1>1, <1>2, <1>4
<1>6. woken' \in [Thread -> BOOLEAN]
  <2>1. CASE Len(queue[v]) + 1 <= 2
    <3>1. woken' = [woken EXCEPT ![v] = woken[v] \/ pc[v] = "wait"]
      BY <2>1 DEF AddTask, SetThreadEvent
    <3> QED  BY <1>1, <3>1, Zenon
  <2>2. CASE ~(Len(queue[v]) + 1 <= 2)
    BY <1>1, <2>2 DEF AddTask
  <2> QED  BY <2>1, <2>2
<1>7. ASSUME NEW w \in Thread, ToSet(queue[w]) \subseteq late[w]
      PROVE  ToSet(queue'[w]) \subseteq late'[w]
  <2>1. CASE w = v
    <3>1. queue'[w] = Append(queue[v], t) /\ late'[w] = late[v] \cup {t}
      BY <1>1, <1>2, <2>1
    <3> QED  BY <1>4, <1>7, <2>1, <3>1
  <2>2. CASE w # v
    <3>1. queue'[w] = queue[w] /\ late'[w] = late[w]
      BY <1>1, <1>2, <2>2
    <3> QED  BY <1>7, <3>1
  <2> QED  BY <2>1, <2>2
<1> QED  BY <1>5, <1>6, <1>7

\* The iterator stays within the threads.
LEMMA AdvanceTyped ==
    ASSUME TypeOK, NEW loop, NEW after, Advance(loop, after)
    PROVE  \/ stopper' = [pc |-> loop, it |-> stopper.it + 1] /\ stopper.it + 1 \in Thread
              /\ stopper.it < ThreadNums
           \/ stopper' = [pc |-> after, it |-> 1] /\ 1 \in Thread
              /\ \A w \in Thread : w < stopper.it \/ w = stopper.it
<1>1. stopper.it \in 1..ThreadNums /\ ThreadNums \in Nat
  BY ThreadPoolAssumption DEF TypeOK, Thread
<1>2. CASE stopper.it < ThreadNums
  BY <1>1, <1>2 DEF Advance, Thread
<1>3. CASE ~(stopper.it < ThreadNums)
  BY <1>1, <1>3 DEF Advance, Thread
<1> QED  BY <1>2, <1>3

\* Touching a freed object is recorded and nothing else.
LEMMA TouchTyped == TypeOK /\ Touch => ub' \in BOOLEAN
BY Zenon DEF TypeOK, Touch

\* Signalling a thread.
LEMMA SignalTyped ==
    ASSUME TypeOK, NEW w \in Thread, SetThreadEvent(w)
    PROVE  woken' \in [Thread -> BOOLEAN]
<1>1. woken \in [Thread -> BOOLEAN]
  BY DEF TypeOK
<1>2. woken' = [woken EXCEPT ![w] = woken[w] \/ pc[w] = "wait"]
  BY DEF SetThreadEvent
<1> QED  BY <1>1, <1>2, Zenon

-----------------------------------------------------------------------------
(* One lemma per group of actions: each keeps the invariant.               *)

\* The outer loop's test leaves the loop only if the thread is to stop at once.
LEMMA TestKeeps ==
    ASSUME StopInv, NEW v \in Thread, Run_Test(v)
    PROVE  StopInv'
<1>1. TypeOK /\ Touch
  BY DEF StopInv, Run_Test
<1>2. ub' \in BOOLEAN
  BY <1>1, TouchTyped
<1>3. TypeOK'
  BY <1>1, <1>2 DEF Run_Test, Jump, TypeOK
<1>4. InHand'
  BY <1>1 DEF StopInv, Run_Test, Jump, TypeOK, InHand
<1>5. SaysStopped'
  BY <1>1 DEF StopInv, Run_Test, Jump, TypeOK, SaysStopped, Gone
<1>6. ToldBy'
  BY <1>1 DEF StopInv, Run_Test, Jump, TypeOK, ToldBy
<1>7. Joined'
  BY <1>1 DEF StopInv, Run_Test, Jump, TypeOK, Joined, Gone
<1>8. LastLook'
  BY <1>1 DEF StopInv, Run_Test, Jump, TypeOK, LastLook, LookedLast, ToldBy
<1> QED  BY <1>3, <1>4, <1>5, <1>6, <1>7, <1>8 DEF StopInv

\* The thread leaves its loop after its last look.
LEMMA LastKeeps ==
    ASSUME StopInv, NEW v \in Thread, Run_Last(v)
    PROVE  StopInv'
<1>1. TypeOK /\ Touch
  BY DEF StopInv, Run_Last
<1>2. ub' \in BOOLEAN
  BY <1>1, TouchTyped
<1>3. TypeOK'
  BY <1>1, <1>2 DEF Run_Last, Jump, TypeOK
<1>4. InHand'
  BY <1>1 DEF StopInv, Run_Last, Jump, TypeOK, InHand
<1>5. SaysStopped'
  BY <1>1 DEF StopInv, Run_Last, Jump, TypeOK, SaysStopped, Gone
<1>6. ToldBy'
  BY <1>1 DEF StopInv, Run_Last, Jump, TypeOK, ToldBy
<1>7. Joined'
  BY <1>1 DEF StopInv, Run_Last, Jump, TypeOK, Joined, Gone
<1>8. LastLook'
  BY <1>1 DEF StopInv, Run_Last, Jump, TypeOK, LastLook, LookedLast, ToldBy
<1> QED  BY <1>3, <1>4, <1>5, <1>6, <1>7, <1>8 DEF StopInv

\* The thread says STOPPED after its loop.
LEMMA StoppedKeeps ==
    ASSUME StopInv, NEW v \in Thread, Run_Stopped(v)
    PROVE  StopInv'
<1>1. TypeOK /\ Touch
  BY DEF StopInv, Run_Stopped
<1>2. ub' \in BOOLEAN
  BY <1>1, TouchTyped
<1>3. TypeOK'
  BY <1>1, <1>2 DEF Run_Stopped, Jump, TypeOK
<1>4. InHand'
  BY <1>1 DEF StopInv, Run_Stopped, Jump, TypeOK, InHand
<1>5. SaysStopped'
  BY <1>1 DEF StopInv, Run_Stopped, Jump, TypeOK, SaysStopped, Gone
<1>6. ToldBy'
  BY <1>1 DEF StopInv, Run_Stopped, Jump, TypeOK, ToldBy
<1>7. Joined'
  BY <1>1 DEF StopInv, Run_Stopped, Jump, TypeOK, Joined, Gone
<1>8. LastLook'
  BY <1>1 DEF StopInv, Run_Stopped, Jump, TypeOK, LastLook, LookedLast, ToldBy
<1> QED  BY <1>3, <1>4, <1>5, <1>6, <1>7, <1>8 DEF StopInv

\* The thread returns.
LEMMA LeaveKeeps ==
    ASSUME StopInv, NEW v \in Thread, Run_Leave(v)
    PROVE  StopInv'
<1>1. TypeOK /\ Touch
  BY DEF StopInv, Run_Leave
<1>2. ub' \in BOOLEAN
  BY <1>1, TouchTyped
<1>3. TypeOK'
  BY <1>1, <1>2 DEF Run_Leave, Jump, TypeOK
<1>4. InHand'
  BY <1>1 DEF StopInv, Run_Leave, Jump, TypeOK, InHand
<1>5. SaysStopped'
  BY <1>1 DEF StopInv, Run_Leave, Jump, TypeOK, SaysStopped, Gone
<1>6. ToldBy'
  BY <1>1 DEF StopInv, Run_Leave, Jump, TypeOK, ToldBy
<1>7. Joined'
  BY <1>1 DEF StopInv, Run_Leave, Jump, TypeOK, Joined, Gone
<1>8. LastLook'
  BY <1>1 DEF StopInv, Run_Leave, Jump, TypeOK, LastLook, LookedLast, ToldBy
<1> QED  BY <1>3, <1>4, <1>5, <1>6, <1>7, <1>8 DEF StopInv

\* The wait ends.
LEMMA WaitKeeps ==
    ASSUME StopInv, NEW v \in Thread, Run_Wait(v)
    PROVE  StopInv'
<1>1. TypeOK /\ Touch
  BY DEF StopInv, Run_Wait
<1>2. ub' \in BOOLEAN
  BY <1>1, TouchTyped
<1>0. woken' \in [Thread -> BOOLEAN]
  <2>1. woken \in [Thread -> BOOLEAN] /\ woken' = [woken EXCEPT ![v] = FALSE]
    BY <1>1 DEF Run_Wait, TypeOK
  <2> QED  BY <2>1, Zenon
<1>3. TypeOK'
  BY <1>0, <1>1, <1>2 DEF Run_Wait, Jump, TypeOK
<1>4. InHand'
  BY <1>1 DEF StopInv, Run_Wait, Jump, TypeOK, InHand
<1>5. SaysStopped'
  BY <1>1 DEF StopInv, Run_Wait, Jump, TypeOK, SaysStopped, Gone
<1>6. ToldBy'
  BY <1>1 DEF StopInv, Run_Wait, Jump, TypeOK, ToldBy
<1>7. Joined'
  BY <1>1 DEF StopInv, Run_Wait, Jump, TypeOK, Joined, Gone
<1>8. LastLook'
  BY <1>1 DEF StopInv, Run_Wait, Jump, TypeOK, LastLook, LookedLast, ToldBy
<1> QED  BY <1>3, <1>4, <1>5, <1>6, <1>7, <1>8 DEF StopInv

\* The inner loop takes a task, or finds none and has looked last.
LEMMA FetchKeeps ==
    ASSUME StopInv, NEW v \in Thread, Run_Fetch(v)
    PROVE  StopInv'
<1>1. TypeOK /\ Touch
  BY DEF StopInv, Run_Fetch
<1>2. ub' \in BOOLEAN
  BY <1>1, TouchTyped
<1>a. CASE queue[v] # <<>> /\ pc[v] = "fetch" /\ pc' = [pc EXCEPT ![v] = "work"]
           /\ hand' = [hand EXCEPT ![v] = Head(queue[v])]
           /\ queue' = [queue EXCEPT ![v] = Tail(queue[v])]
           /\ late' = [late EXCEPT ![v] = {}]
  <2>1. queue[v] \in Seq(Task)
    BY <1>1 DEF TypeOK
  <2>2. Head(queue[v]) \in Task /\ Tail(queue[v]) \in Seq(Task)
    BY <1>a, <2>1
  <2>3. TypeOK'
    BY <1>a, <1>1, <1>2, <2>2 DEF Run_Fetch, TypeOK
  <2>4. InHand'
    BY <1>a, <1>1, <2>2 DEF StopInv, Run_Fetch, TypeOK, InHand
  <2>5. SaysStopped' /\ ToldBy' /\ Joined'
    BY <1>a, <1>1 DEF StopInv, Run_Fetch, TypeOK, SaysStopped, ToldBy, Joined, Gone
  <2>6. LastLook'
    BY <1>a, <1>1 DEF StopInv, Run_Fetch, TypeOK, LastLook, LookedLast
  <2> QED  BY <2>3, <2>4, <2>5, <2>6 DEF StopInv
<1>b. CASE pc[v] = "fetch" /\ pc' = [pc EXCEPT ![v] = "last"]
           /\ queue[v] = <<>> /\ late' = [late EXCEPT ![v] = {}]
           /\ UNCHANGED <<hand, queue>>
  <2>3. TypeOK'
    BY <1>b, <1>1, <1>2 DEF Run_Fetch, TypeOK
  <2>4. InHand' /\ SaysStopped' /\ ToldBy' /\ Joined'
    BY <1>b, <1>1 DEF StopInv, Run_Fetch, TypeOK, InHand, SaysStopped, ToldBy, Joined, Gone
  <2>5. ToSet(queue[v]) = {}
    BY <1>b, EmptyQueue
  <2>6. LastLook'
    BY <1>b, <1>1, <2>5 DEF StopInv, TypeOK, LastLook, LookedLast
  <2> QED  BY <2>3, <2>4, <2>6 DEF StopInv
<1>c. CASE pc[v] = "fetch" /\ pc' = [pc EXCEPT ![v] = "last"]
           /\ runOp[v] = "Immediate" /\ UNCHANGED <<hand, queue, late>>
  <2>3. TypeOK'
    BY <1>c, <1>1, <1>2 DEF Run_Fetch, TypeOK
  <2>4. InHand' /\ SaysStopped' /\ ToldBy' /\ Joined'
    BY <1>c, <1>1 DEF StopInv, Run_Fetch, TypeOK, InHand, SaysStopped, ToldBy, Joined, Gone
  <2>6. LastLook'
    BY <1>c, <1>1 DEF StopInv, TypeOK, LastLook, ToldBy
  <2> QED  BY <2>3, <2>4, <2>6 DEF StopInv
<1> QED  BY <1>a, <1>b, <1>c DEF Run_Fetch, Jump

\* A task ends, and may put itself back.
LEMMA TaskKeeps ==
    ASSUME StopInv, NEW v \in Thread, Run_Task(v)
    PROVE  StopInv'
<1>1. TypeOK /\ Touch
  BY DEF StopInv, Run_Task
<1>2. ub' \in BOOLEAN
  BY <1>1, TouchTyped
<1>3. hand[v] \in Task
  BY DEF StopInv, InHand, Run_Task, Jump
<1>4. /\ queue' \in [Thread -> Seq(Task)]
      /\ late' \in [Thread -> SUBSET Task]
      /\ woken' \in [Thread -> BOOLEAN]
      /\ \A w \in Thread : ToSet(queue[w]) \subseteq late[w]
                               => ToSet(queue'[w]) \subseteq late'[w]
  <2>1. CASE AddTask(v, hand[v])
    BY <1>1, <1>3, <2>1, AddTaskKeeps
  <2>2. CASE UNCHANGED <<queue, late, woken>>
    BY <1>1, <2>2 DEF TypeOK
  <2> QED  BY <2>1, <2>2 DEF Run_Task
<1>5. TypeOK'
  BY <1>1, <1>2, <1>3, <1>4 DEF Run_Task, Jump, TypeOK
<1>6. InHand' /\ SaysStopped' /\ ToldBy' /\ Joined'
  BY <1>1 DEF StopInv, Run_Task, Jump, TypeOK, InHand, SaysStopped, ToldBy, Joined, Gone
<1>7. LastLook'
  BY <1>1, <1>4 DEF StopInv, Run_Task, Jump, TypeOK, LastLook, LookedLast
<1> QED  BY <1>5, <1>6, <1>7 DEF StopInv

\* A producer picks a task and a thread.
LEMMA PickKeeps ==
    ASSUME StopInv, NEW p \in Producer, Assign_Pick(p)
    PROVE  StopInv'
<1>1. PICK t \in left :
        /\ left' = left \ {t}
        /\ \/ ub' = TRUE /\ UNCHANGED producer
           \/ /\ \E w \in Thread :
                   producer' = [producer EXCEPT ![p] = [pc |-> "add", task |-> t, to |-> w]]
              /\ UNCHANGED ub
  BY DEF Assign_Pick
<1>2. TypeOK /\ t \in Task
  BY <1>1 DEF StopInv, TypeOK
<1>3. /\ producer' \in [Producer -> [pc : {"pick", "add"}, task : Task \cup {Nothing}, to : Thread]]
      /\ \A q \in Producer : producer'[q].pc = "add" => producer'[q].task \in Task
  <2>1. CASE UNCHANGED producer
    BY <1>2, <2>1 DEF StopInv, TypeOK, InHand
  <2>2. CASE \E w \in Thread :
               producer' = [producer EXCEPT ![p] = [pc |-> "add", task |-> t, to |-> w]]
    <3>1. PICK w \in Thread :
            producer' = [producer EXCEPT ![p] = [pc |-> "add", task |-> t, to |-> w]]
      BY <2>2
    <3> QED  BY <1>2, <3>1 DEF StopInv, TypeOK, InHand
  <2> QED  BY <1>1, <2>1, <2>2
<1>4. ub' \in BOOLEAN
  BY <1>1, <1>2 DEF TypeOK
<1>5. TypeOK'
  BY <1>1, <1>2, <1>3, <1>4 DEF Assign_Pick, worker, TypeOK
<1>6. InHand'
  BY <1>3 DEF StopInv, Assign_Pick, worker, InHand
<1>7. SaysStopped' /\ ToldBy' /\ Joined' /\ LastLook'
  BY DEF StopInv, Assign_Pick, worker, SaysStopped, ToldBy, Joined, Gone, LastLook, LookedLast
<1> QED  BY <1>5, <1>6, <1>7 DEF StopInv

\* A producer adds its task to the thread it picked.
LEMMA AddKeeps ==
    ASSUME StopInv, NEW p \in Producer, Assign_Add(p)
    PROVE  StopInv'
<1>1. TypeOK /\ producer[p].task \in Task /\ producer[p].to \in Thread
  BY DEF StopInv, TypeOK, InHand, Assign_Add
<1>2. ub' \in BOOLEAN
  BY <1>1 DEF Assign_Add, TypeOK
<1>4. /\ queue' \in [Thread -> Seq(Task)]
      /\ late' \in [Thread -> SUBSET Task]
      /\ woken' \in [Thread -> BOOLEAN]
      /\ \A w \in Thread : ToSet(queue[w]) \subseteq late[w]
                               => ToSet(queue'[w]) \subseteq late'[w]
  <2>1. CASE AddTask(producer[p].to, producer[p].task)
    BY <1>1, <2>1, AddTaskKeeps
  <2>2. CASE UNCHANGED <<queue, late, woken>>
    BY <1>1, <2>2 DEF TypeOK
  <2> QED  BY <2>1, <2>2 DEF Assign_Add
<1>3. producer' \in [Producer -> [pc : {"pick", "add"}, task : Task \cup {Nothing}, to : Thread]]
  <2>1. producer \in [Producer -> [pc : {"pick", "add"}, task : Task \cup {Nothing}, to : Thread]]
    BY <1>1 DEF TypeOK
  <2>2. producer' = [producer EXCEPT ![p] = [producer[p] EXCEPT !.pc = "pick"]]
    BY DEF Assign_Add
  <2>3. producer[p] \in [pc : {"pick", "add"}, task : Task \cup {Nothing}, to : Thread]
    BY <2>1
  <2>4. [producer[p] EXCEPT !.pc = "pick"]
            \in [pc : {"pick", "add"}, task : Task \cup {Nothing}, to : Thread]
    BY <2>3
  <2> QED  BY <2>1, <2>2, <2>4
<1>a. UNCHANGED <<runOp, state, pc, hand, stopper, cleared, processed, left>>
  BY DEF Assign_Add
<1>5. TypeOK'
  BY <1>1, <1>2, <1>3, <1>4, <1>a DEF TypeOK
<1>6. InHand' /\ SaysStopped' /\ ToldBy' /\ Joined'
  BY <1>1 DEF StopInv, Assign_Add, TypeOK, InHand, SaysStopped, ToldBy, Joined, Gone
<1>7. LastLook'
  BY <1>1, <1>4 DEF StopInv, Assign_Add, LastLook, LookedLast
<1> QED  BY <1>5, <1>6, <1>7 DEF StopInv

\* A stop begins.
LEMMA BeginKeeps == StopInv /\ Stop_Begin => StopInv'
<1> SUFFICES ASSUME StopInv, Stop_Begin PROVE StopInv'
  OBVIOUS
<1>1. 1 \in Thread
  BY ThreadPoolAssumption DEF Thread
<1>2. TypeOK'
  BY <1>1 DEF StopInv, Stop_Begin, worker, TypeOK
<1>3. InHand' /\ SaysStopped' /\ ToldBy' /\ Joined' /\ LastLook'
  BY DEF StopInv, Stop_Begin, worker, InHand, SaysStopped, ToldBy, Joined, Gone, LastLook, LookedLast
<1> QED  BY <1>2, <1>3 DEF StopInv

\* A thread is told to stop.
LEMMA NotifyKeeps == StopInv /\ NotifyStopThread => StopInv'
<1> SUFFICES ASSUME StopInv, NotifyStopThread PROVE StopInv'
  OBVIOUS
<1>1. TypeOK /\ stopper.it \in Thread
  BY DEF StopInv, TypeOK
<1>2. woken' \in [Thread -> BOOLEAN]
  BY <1>1, SignalTyped DEF NotifyStopThread
<1> DEFINE after == IF StopBy = "StopPool" THEN "force" ELSE "wait"
<1>3. Advance("notify", after)
  BY DEF NotifyStopThread
<1>4. \/ stopper' = [pc |-> "notify", it |-> stopper.it + 1] /\ stopper.it + 1 \in Thread
      \/ stopper' = [pc |-> after, it |-> 1] /\ 1 \in Thread
  <2> HIDE DEF after
  <2> QED  BY <1>1, <1>3, AdvanceTyped
<1>5. stopper' \in [pc : {"idle", "notify", "force", "wait", "clear", "done"}, it : Thread]
  BY <1>4
<1>6. TypeOK'
  BY <1>1, <1>2, <1>5 DEF NotifyStopThread, TypeOK
<1>7. ToldBy'
  BY <1>1, ThreadPoolAssumption DEF StopInv, NotifyStopThread, TypeOK, ToldBy
<1>8. Joined'
  BY <1>4 DEF Joined, Thread
<1>9. InHand' /\ SaysStopped' /\ LastLook'
  BY DEF StopInv, NotifyStopThread, InHand, SaysStopped, Gone, LastLook, LookedLast
<1> QED  BY <1>6, <1>7, <1>8, <1>9 DEF StopInv

\* StopThread leaves the threads as they are.
LEMMA ForceKeeps == StopInv /\ StopThread => StopInv'
<1> SUFFICES ASSUME StopInv, StopThread PROVE StopInv'
  OBVIOUS
<1>1. TypeOK
  BY DEF StopInv
<1>2. \/ stopper' = [pc |-> "force", it |-> stopper.it + 1] /\ stopper.it + 1 \in Thread
      \/ stopper' = [pc |-> "clear", it |-> 1] /\ 1 \in Thread
  BY <1>1, AdvanceTyped DEF StopThread
<1>3. TypeOK'
  BY <1>1, <1>2 DEF StopThread, worker, TypeOK
<1>4. Joined'
  BY DEF StopInv, StopThread, Joined
<1>5. InHand' /\ SaysStopped' /\ ToldBy' /\ LastLook'
  BY DEF StopInv, StopThread, worker, InHand, SaysStopped, ToldBy, Gone, LastLook, LookedLast
<1> QED  BY <1>3, <1>4, <1>5 DEF StopInv

\* WaitStopThread passes a thread that is past its loop.
LEMMA JoinKeeps == StopInv /\ WaitStopThread => StopInv'
<1> SUFFICES ASSUME StopInv, WaitStopThread PROVE StopInv'
  OBVIOUS
<1>1. TypeOK /\ stopper.it \in Thread /\ stopper.pc = "wait"
  BY DEF StopInv, TypeOK, WaitStopThread
<1>2. \/ stopper' = [pc |-> "wait", it |-> stopper.it + 1] /\ stopper.it + 1 \in Thread
      \/ stopper' = [pc |-> "clear", it |-> 1] /\ 1 \in Thread
         /\ \A w \in Thread : w < stopper.it \/ w = stopper.it
  BY <1>1, AdvanceTyped DEF WaitStopThread
<1>3. TypeOK'
  BY <1>1, <1>2 DEF WaitStopThread, TypeOK
<1>4. Gone(stopper.it)
  BY <1>1 DEF StopInv, SaysStopped, Gone, WaitStopThread
<1>5. SaysStopped'
  BY <1>1, <1>4 DEF StopInv, WaitStopThread, TypeOK, SaysStopped, Gone
<1>6. Joined'
  <2> SUFFICES ASSUME StopBy = "StopPool_WaitAllFinish" PROVE Joined'
    BY DEF Joined
  <2>1. \A w \in Thread : w < stopper.it => Gone(w)
    BY <1>1 DEF StopInv, Joined
  <2>2. \A w \in Thread : Gone(w)' <=> Gone(w)
    BY DEF WaitStopThread, Gone
  <2>3. CASE stopper' = [pc |-> "wait", it |-> stopper.it + 1]
    <3>1. \A w \in Thread : w < stopper.it + 1 => w < stopper.it \/ w = stopper.it
      BY <1>1 DEF Thread
    <3> QED  BY <1>4, <2>1, <2>2, <2>3, <3>1 DEF Joined
  <2>4. CASE stopper' = [pc |-> "clear", it |-> 1]
             /\ \A w \in Thread : w < stopper.it \/ w = stopper.it
    BY <1>4, <2>1, <2>2, <2>4 DEF Joined
  <2> QED  BY <1>2, <2>3, <2>4
<1>7. InHand' /\ ToldBy' /\ LastLook'
  BY DEF StopInv, WaitStopThread, InHand, ToldBy, LastLook, LookedLast
<1> QED  BY <1>3, <1>5, <1>6, <1>7 DEF StopInv

\* The threads are freed.
LEMMA ClearKeeps == StopInv /\ Stop_Clear => StopInv'
<1> SUFFICES ASSUME StopInv, Stop_Clear PROVE StopInv'
  OBVIOUS
<1>1. TypeOK'
  BY DEF StopInv, Stop_Clear, worker, TypeOK
<1>2. Joined'
  BY DEF StopInv, TypeOK, Stop_Clear, worker, Joined, Gone
<1>3. InHand' /\ SaysStopped' /\ ToldBy' /\ LastLook'
  BY DEF StopInv, Stop_Clear, worker, InHand, SaysStopped, ToldBy, Gone, LastLook, LookedLast
<1> QED  BY <1>1, <1>2, <1>3 DEF StopInv

\* Every step keeps the invariant.
LEMMA StepInv == StopInv /\ [Next]_vars => StopInv'
<1> SUFFICES ASSUME StopInv, [Next]_vars PROVE StopInv'
  OBVIOUS
<1>1. CASE \E w \in Thread : Run(w)
  BY <1>1, TestKeeps, WaitKeeps, FetchKeeps, TaskKeeps, LastKeeps, StoppedKeeps, LeaveKeeps DEF Run
<1>2. CASE \E p \in Producer : Assign(p)
  BY <1>2, PickKeeps, AddKeeps DEF Assign
<1>3. CASE Stop
  BY <1>3, BeginKeeps, NotifyKeeps, ForceKeeps, JoinKeeps, ClearKeeps DEF Stop
<1>4. CASE UNCHANGED vars
  BY <1>4 DEF vars, worker, StopInv, TypeOK, InHand, SaysStopped, ToldBy, Joined, Gone,
              LastLook, LookedLast
<1> QED  BY <1>1, <1>2, <1>3, <1>4 DEF Next

-----------------------------------------------------------------------------
(* The theorems                                                            *)

\* The invariant holds in every reachable state.
THEOREM PoolInvariant == Spec => []StopInv
<1> QED  BY StartInv, StepInv, PTL DEF Spec

\* Every reachable state of a pool is well typed; the iterator of the thread
\* that stops it stays within the pool (ThreadPoolBase).
THEOREM PoolTypeCorrect == Spec => []TypeOK
<1>1. StopInv => TypeOK
  BY DEF StopInv
<1> QED  BY <1>1, PoolInvariant, PTL

\* A thread that ends because its tasks are finished leaves behind only tasks
\* added after its last look at the queue (PriorityThread::Run), for every
\* number of threads, tasks and producers.
THEOREM Drained == Spec => []DrainedAtExit
<1>1. StopInv => DrainedAtExit
  BY DEF StopInv, DrainedAtExit, ToldBy, LastLook, LookedLast, Leaving
<1> QED  BY <1>1, PoolInvariant, PTL

\* When StopPool_WaitAllFinish returns, no thread works on a task or will take
\* another, although threads that say STOPPED are not joined (WaitStopThread),
\* for every number of threads, tasks and producers.
THEOREM Quiet == Spec => []NoWorkAfterStop
<1>1. StopInv => NoWorkAfterStop
  BY DEF StopInv, NoWorkAfterStop, Joined, Gone
<1> QED  BY <1>1, PoolInvariant, PTL
==============================================================================
