----------------------------- MODULE ThreadPool -----------------------------
(***************************************************************************)
(* The life of a pool of queue-fed threads: thread_pool_base with the      *)
(* worker loop that PriorityThread and PipeLine_Thread share, the threads  *)
(* that assign tasks to the pool, and the thread that stops it.            *)
(*                                                                         *)
(* m_emThreadRunOp and m_emThreadState are volatile and read without a     *)
(* lock, so a step is one read or write of them, or one call that holds a  *)
(* queue's mutex.  Each thread's queue is a plain sequence here (what the  *)
(* real one does is in TaskPriorityQueue), and the choice of the thread a  *)
(* task goes to is left open (OrderFlow models both ways of choosing).     *)
(***************************************************************************)
EXTENDS Integers, Sequences, FiniteSets, SequencesExt

CONSTANTS Task,         \* tasks to be assigned
          Again,        \* the tasks among them whose TaskProc may assign them anew
          ThreadNums,   \* threads of the pool
          Producer,     \* threads that assign tasks
          StopBy,       \* how the pool is stopped
          QuietStop,    \* whether all tasks are assigned before the stop
          Nothing       \* no task in hand

ASSUME ThreadPoolAssumption ==
    /\ Again \subseteq Task
    /\ Nothing \notin Task
    /\ ThreadNums \in Nat \ {0}
    /\ StopBy \in {"StopPool", "StopPool_WaitAllFinish"}
    /\ QuietStop \in BOOLEAN

Thread == 1..ThreadNums

VARIABLES queue,           \* m_prtQueTask of each thread
          runOp,           \* m_emThreadRunOp
          state,           \* m_emThreadState
          pc, hand,        \* where each thread is in Run, and the task it has
          woken,           \* its condition variable has been signalled
          producer,        \* step, task and target of each assigning thread
          stopper,         \* step of the stopping thread and its iterator
          cleared,         \* m_hdThreads has been cleared, its threads freed
          processed,       \* history: tasks whose TaskProc has ended
          left,            \* tasks not yet assigned
          late,            \* history: tasks a thread got since its last GetTask
          ub               \* history: freed or missing objects were used

worker == <<runOp, state, pc, hand, woken>>
vars == <<queue, worker, producer, stopper, cleared, processed, left, late, ub>>

Init ==
    /\ queue = [w \in Thread |-> <<>>]
    /\ runOp = [w \in Thread |-> "Running"]
    /\ state = [w \in Thread |-> "STARTED"]
    /\ pc = [w \in Thread |-> "test"]
    /\ hand = [w \in Thread |-> Nothing]
    /\ woken = [w \in Thread |-> FALSE]
    /\ producer = [p \in Producer |-> [pc |-> "pick", task |-> Nothing, to |-> 1]]
    /\ stopper = [pc |-> "idle", it |-> 1]
    /\ cleared = FALSE
    /\ processed = {}
    /\ left = Task
    /\ late = [w \in Thread |-> {}]
    /\ ub = FALSE

-----------------------------------------------------------------------------
(* Assigning                                                               *)

\* pthread_cond_signal: lost unless the thread is waiting.
SetThreadEvent(w) == woken' = [woken EXCEPT ![w] = @ \/ pc[w] = "wait"]

\* PriorityThread::AddTask: a short queue wakes the thread.
AddTask(w, t) ==
    /\ queue' = [queue EXCEPT ![w] = Append(@, t)]
    /\ late' = [late EXCEPT ![w] = @ \cup {t}]
    /\ IF Len(queue[w]) + 1 <= 2 THEN SetThreadEvent(w) ELSE UNCHANGED woken

\* The choice of a thread: with an empty m_hdThreads the iterator is never
\* set and the indexed element does not exist.
Assign_Pick(p) ==
    /\ producer[p].pc = "pick"
    /\ \E t \in left :
         /\ left' = left \ {t}
         /\ IF cleared
            THEN ub' = TRUE /\ UNCHANGED producer
            ELSE /\ \E w \in Thread :
                      producer' = [producer EXCEPT ![p] = [pc |-> "add", task |-> t, to |-> w]]
                 /\ UNCHANGED ub
    /\ UNCHANGED <<queue, worker, stopper, cleared, processed, late>>

Assign_Add(p) ==
    /\ producer[p].pc = "add"
    /\ IF cleared
       THEN ub' = TRUE /\ UNCHANGED <<queue, late, woken>>
       ELSE AddTask(producer[p].to, producer[p].task) /\ UNCHANGED ub
    /\ producer' = [producer EXCEPT ![p].pc = "pick"]
    /\ UNCHANGED <<runOp, state, pc, hand, stopper, cleared, processed, left>>

-----------------------------------------------------------------------------
(* Run                                                                     *)

\* Whatever the thread does with its own object after that was freed.
Touch == ub' = (ub \/ cleared)

Jump(w, from, to) == pc[w] = from /\ pc' = [pc EXCEPT ![w] = to]

\* Mutant of Run_Test: the outer loop goes on until its break.
Run_Test_Forever(w) ==
    /\ Jump(w, "test", "wait")
    /\ Touch
    /\ UNCHANGED <<queue, runOp, state, hand, woken, producer, stopper, cleared,
                   processed, left, late>>

Run_Test(w) ==
    /\ Jump(w, "test", IF runOp[w] = "Immediate" THEN "stop" ELSE "wait")
    /\ Touch
    /\ UNCHANGED <<queue, runOp, state, hand, woken, producer, stopper, cleared,
                   processed, left, late>>

\* Mutant of Run_Wait: pthread_cond_wait, without the timeout.
Run_Wait_Untimed(w) ==
    /\ woken[w]
    /\ Jump(w, "wait", "fetch")
    /\ woken' = [woken EXCEPT ![w] = FALSE]
    /\ Touch
    /\ UNCHANGED <<queue, runOp, state, hand, producer, stopper, cleared,
                   processed, left, late>>

\* pthread_cond_timedwait ends by a signal or by its timeout.
Run_Wait(w) ==
    /\ Jump(w, "wait", "fetch")
    /\ woken' = [woken EXCEPT ![w] = FALSE]
    /\ Touch
    /\ UNCHANGED <<queue, runOp, state, hand, producer, stopper, cleared,
                   processed, left, late>>

\* Mutant of Run_Fetch: a thread that is to stop takes no more tasks.
Run_Fetch_NoDrain(w) ==
    /\ Jump(w, "fetch", IF runOp[w] # "Running" \/ queue[w] = <<>> THEN "last" ELSE "work")
    /\ IF pc'[w] = "work"
       THEN /\ hand' = [hand EXCEPT ![w] = Head(queue[w])]
            /\ queue' = [queue EXCEPT ![w] = Tail(@)]
            /\ late' = [late EXCEPT ![w] = {}]
       ELSE /\ late' = IF queue[w] = <<>> THEN [late EXCEPT ![w] = {}] ELSE late
            /\ UNCHANGED <<hand, queue>>
    /\ Touch
    /\ UNCHANGED <<runOp, state, woken, producer, stopper, cleared, processed, left>>

\* The inner loop: GetTask unless the thread is to stop at once.
Run_Fetch(w) ==
    /\ \/ /\ runOp[w] # "Immediate" /\ queue[w] # <<>>
          /\ Jump(w, "fetch", "work")
          /\ hand' = [hand EXCEPT ![w] = Head(queue[w])]
          /\ queue' = [queue EXCEPT ![w] = Tail(@)]
          /\ late' = [late EXCEPT ![w] = {}]
       \/ /\ runOp[w] # "Immediate" /\ queue[w] = <<>>
          /\ Jump(w, "fetch", "last")
          /\ late' = [late EXCEPT ![w] = {}]
          /\ UNCHANGED <<hand, queue>>
       \/ /\ runOp[w] = "Immediate"
          /\ Jump(w, "fetch", "last")
          /\ UNCHANGED <<hand, queue, late>>
    /\ Touch
    /\ UNCHANGED <<runOp, state, woken, producer, stopper, cleared, processed, left>>

\* TaskProc; an order that has not traded yet assigns itself to its thread again,
\* for as long as it does not.
Run_Task(w) ==
    /\ Jump(w, "work", "fetch")
    /\ processed' = processed \cup {hand[w]}
    /\ \/ hand[w] \in Again /\ ~cleared /\ AddTask(w, hand[w])
       \/ UNCHANGED <<queue, late, woken>>
    /\ hand' = [hand EXCEPT ![w] = Nothing]
    /\ Touch
    /\ UNCHANGED <<runOp, state, producer, stopper, cleared, left>>

\* Mutant of Run_Last: no break after the tasks are finished.
Run_Last_NoBreak(w) ==
    /\ Jump(w, "last", "test")
    /\ Touch
    /\ UNCHANGED <<queue, runOp, state, hand, woken, producer, stopper, cleared,
                   processed, left, late>>

Run_Last(w) ==
    /\ Jump(w, "last", IF runOp[w] = "TillTaskFinish" THEN "stop" ELSE "test")
    /\ Touch
    /\ UNCHANGED <<queue, runOp, state, hand, woken, producer, stopper, cleared,
                   processed, left, late>>

Run_Stopped(w) ==
    /\ Jump(w, "stop", "leave")
    /\ state' = [state EXCEPT ![w] = "STOPPED"]
    /\ Touch
    /\ UNCHANGED <<queue, runOp, hand, woken, producer, stopper, cleared,
                   processed, left, late>>

\* m_dThreadId = 0, the last thing Run does with the object.
Run_Leave(w) ==
    /\ Jump(w, "leave", "done")
    /\ Touch
    /\ UNCHANGED <<queue, runOp, state, hand, woken, producer, stopper, cleared,
                   processed, left, late>>

Run(w) ==
    \/ Run_Test(w) \/ Run_Wait(w) \/ Run_Fetch(w) \/ Run_Task(w)
    \/ Run_Last(w) \/ Run_Stopped(w) \/ Run_Leave(w)

-----------------------------------------------------------------------------
(* Stopping                                                                *)

\* The iterator moves on to the next thread, or the loop ends.
Advance(loop, after) ==
    stopper' = IF stopper.it < ThreadNums THEN [pc |-> loop, it |-> stopper.it + 1]
                                          ELSE [pc |-> after, it |-> 1]

Stop_Begin ==
    /\ stopper.pc = "idle"
    /\ QuietStop => left = {} /\ \A p \in Producer : producer[p].pc = "pick"
    /\ stopper' = [pc |-> "notify", it |-> 1]
    /\ UNCHANGED <<queue, worker, producer, cleared, processed, left, late, ub>>

\* NotifyStopThread_Immediate, NotifyStopThread_TillTaskFinish
NotifyStopThread ==
    /\ stopper.pc = "notify"
    /\ runOp' = [runOp EXCEPT ![stopper.it] =
                   IF StopBy = "StopPool" THEN "Immediate" ELSE "TillTaskFinish"]
    /\ SetThreadEvent(stopper.it)
    /\ Advance("notify", IF StopBy = "StopPool" THEN "force" ELSE "wait")
    /\ UNCHANGED <<queue, state, pc, hand, producer, cleared, processed, left, late, ub>>

\* StopThread of StopPool: bForceClose is false, so a thread that has been
\* told to stop is left as it is.
StopThread ==
    /\ stopper.pc = "force"
    /\ Advance("force", "clear")
    /\ UNCHANGED <<queue, worker, producer, cleared, processed, left, late, ub>>

\* Mutant of WaitStopThread: it does not wait for the thread.
WaitStopThread_NoJoin ==
    /\ stopper.pc = "wait"
    /\ Advance("wait", "clear")
    /\ UNCHANGED <<queue, worker, producer, cleared, processed, left, late, ub>>

\* WaitStopThread: nothing to do for a thread that says it has stopped,
\* pthread_join for the others.
WaitStopThread ==
    /\ stopper.pc = "wait"
    /\ \/ /\ state[stopper.it] = "STOPPED"
          /\ UNCHANGED state
       \/ /\ pc[stopper.it] = "done"
          /\ state' = [state EXCEPT ![stopper.it] = "STOPPED"]
    /\ Advance("wait", "clear")
    /\ UNCHANGED <<queue, runOp, pc, hand, woken, producer, cleared, processed,
                   left, late, ub>>

\* m_hdThreads.clear()
Stop_Clear ==
    /\ stopper.pc = "clear"
    /\ stopper' = [stopper EXCEPT !.pc = "done"]
    /\ cleared' = TRUE
    /\ UNCHANGED <<queue, worker, producer, processed, left, late, ub>>

Stop == Stop_Begin \/ NotifyStopThread \/ StopThread \/ WaitStopThread \/ Stop_Clear

Assign(p) == Assign_Pick(p) \/ Assign_Add(p)

Next ==
    \/ \E p \in Producer : Assign(p)
    \/ \E w \in Thread : Run(w)
    \/ Stop

Spec == Init /\ [][Next]_vars

\* The operating system runs every thread; once begun, the stop goes on.
Fairness ==
    /\ \A w \in Thread : WF_vars(Run(w))
    /\ \A p \in Producer : WF_vars(Assign_Add(p))
    /\ WF_vars(NotifyStopThread \/ StopThread \/ WaitStopThread \/ Stop_Clear)

FairSpec == Spec /\ Fairness

-----------------------------------------------------------------------------
(* Properties                                                              *)

TypeOK ==
    /\ queue \in [Thread -> Seq(Task)]
    /\ runOp \in [Thread -> {"Running", "Immediate", "TillTaskFinish"}]
    /\ state \in [Thread -> {"STARTED", "STOPPED"}]
    /\ pc \in [Thread -> {"test", "wait", "fetch", "work", "last", "stop", "leave", "done"}]
    /\ hand \in [Thread -> Task \cup {Nothing}]
    /\ woken \in [Thread -> BOOLEAN]
    /\ producer \in [Producer -> [pc : {"pick", "add"}, task : Task \cup {Nothing}, to : Thread]]
    /\ stopper \in [pc : {"idle", "notify", "force", "wait", "clear", "done"}, it : Thread]
    /\ cleared \in BOOLEAN /\ ub \in BOOLEAN
    /\ processed \subseteq Task /\ left \subseteq Task
    /\ late \in [Thread -> SUBSET Task]

Leaving(w) == pc[w] \in {"stop", "leave", "done"}

\* A thread that ends because its tasks are finished leaves behind only tasks
\* it got after its last GetTask, however many were added while it emptied its
\* queue (PriorityThread::Run).
DrainedAtExit ==
    \A w \in Thread :
        Leaving(w) /\ runOp[w] = "TillTaskFinish" => ToSet(queue[w]) \subseteq late[w]

\* StopPool_WaitAllFinish returns only when no thread works on a task or will
\* take another, although it skips the join of threads that say STOPPED.
NoWorkAfterStop ==
    StopBy = "StopPool_WaitAllFinish" /\ stopper.pc \in {"clear", "done"} =>
        \A w \in Thread : pc[w] \in {"leave", "done"}

\* A task a pool has accepted is processed unless the pool is stopped, although
\* AddTask signals only short queues and a signal between GetTask and the wait
\* is lost.
TaskProcessed ==
    \A t \in Task :
        (\E w \in Thread : t \in ToSet(queue[w]))
            ~> (t \in processed \/ stopper.pc # "idle")

\* No thread runs a task any more that may come back.
ComesBackNoMore(w) == <>[](hand[w] \notin Again)

\* StopPool_WaitAllFinish of a pool whose tasks put themselves back, such as the
\* matching pool (sys_function.cpp), waits for them as long as they come back; when
\* they no longer do it returns.  A thread whose own tasks no longer come back ends
\* although those of another thread keep up the stop.
StopReturns ==
    /\ \A w \in Thread :
          ComesBackNoMore(w) => ((runOp[w] = "TillTaskFinish") ~> (pc[w] = "done"))
    /\ (\A w \in Thread : ComesBackNoMore(w)) =>
          ((stopper.pc = "notify") ~> (stopper.pc = "done"))

\* A thread told to stop at once ends although its tasks come back for ever.
ThreadEnds == \A w \in Thread : (runOp[w] = "Immediate") ~> (pc[w] = "done")

\* What the comment of StopPool_WaitAllFinish says (ThreadPoolBase.h: "wait
\* until all tasks are finished, then close the pool").
AllTasksFinished == stopper.pc = "done" => \A w \in Thread : queue[w] = <<>>

\* What the comment in StopPool says of the call of StopThread
\* (ThreadPoolBase.h: "confirm and close by force"): no thread is still at
\* work when the pool is cleared.
ClosedByForce == cleared => \A w \in Thread : pc[w] \in {"stop", "leave", "done"}

\* What WaitStopThread says it does (ThreadBase.cpp: "wait for the thread to
\* return"): the object outlives its thread.
ObjectOutlivesThread == ~ub
=============================================================================
