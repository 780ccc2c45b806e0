-------------------------- MODULE OrderFlow_proofs --------------------------
(***************************************************************************)
(* Proofs about OrderFlow for every set of messages, every number of       *)
(* threads and slices, and whatever Redis and the sessions do.             *)
(***************************************************************************)
EXTENDS OrderFlow, SequenceTheorems, FiniteSetTheorems, WellFoundedInduction, TLAPS

-----------------------------------------------------------------------------
(* Types of the state.                                                     *)

ReportType == [msg : Msg, order : Msg, kind : ReportKind,
               last : Nat, leaves : Nat, cum : Nat]

\* The type invariant by parts, with what each thread holds at each of its
\* steps: an order or a cancel at the steps made for it, and never more open
\* shares than the order has.
InputTyped ==
    /\ g_inMsg_buffer \in Seq(Msg)
    /\ dist \in [msg : Msg \cup {None}, next : 0..ValidThreads, best : VThread, num : Nat]
    /\ validQue \in [VThread -> Seq(Msg)]
    /\ redis \subseteq Clordid
    /\ arrived \subseteq Msg /\ repeated \subseteq Msg /\ ignored \subseteq Msg

ValidTyped ==
    /\ valid \in [VThread -> [msg : Msg \cup {None},
                              pc : {"get", "check", "validate", "confirm", "record", "gen"}]]
    /\ \A v \in VThread :
         /\ valid[v].pc = "get" => valid[v].msg = None
         /\ valid[v].pc # "get" => valid[v].msg \in Msg
         /\ valid[v].pc = "confirm" => valid[v].msg \in Order

QuesTyped ==
    /\ p4_que \in [MThread -> Seq(Cancel)]
    /\ p3_que \in [MThread -> Seq(Task)]
    /\ \A m \in MThread : \A i \in 1..Len(p3_que[m]) :
         p3_que[m][i].leaves <= p3_que[m][i].msg.qty

MatchTyped ==
    /\ match \in [MThread -> [msg : Msg \cup {None}, leaves : Nat,
                              pc : {"get", "cancel", "trade", "requeue"}]]
    /\ \A m \in MThread :
         /\ match[m].pc = "get" => match[m].msg = None
         /\ match[m].pc = "cancel" => match[m].msg \in Cancel
         /\ match[m].pc \in {"trade", "requeue"} =>
              match[m].msg \in Order /\ match[m].leaves \in 1..match[m].msg.qty

ReportsTyped ==
    /\ g_outMsg_buffer \in Seq(ReportType)
    /\ execQty \in [Order -> Nat] /\ cxlQty \in [Order -> Nat]

TypeInv == InputTyped /\ ValidTyped /\ QuesTyped /\ MatchTyped /\ ReportsTyped

\* The parts make the type invariant of the runs.
LEMMA TypesOfParts == TypeInv => TypeOK
BY DEF TypeInv, TypeOK, InputTyped, ValidTyped, QuesTyped, MatchTyped,
       ReportsTyped, ReportType

\* An empty hand is no message.
LEMMA NoneIsNoMessage == None \notin Msg
BY MsgAssumption DEF None

\* The fields of a message.
LEMMA MessageFields ==
    ASSUME NEW x \in Msg
    PROVE  /\ x.cl \in Clordid /\ x.key \in Nat /\ x.qty \in Nat \ {0}
           /\ x.type \in {"D", "F"} /\ x.id \in Nat
           /\ x \in Order \/ x \in Cancel
BY MsgAssumption DEF Order, Cancel

\* AssignTaskWithKey chooses a thread of the pool.
LEMMA ThreadOfIsThread ==
    ASSUME NEW x \in Msg
    PROVE  ThreadOf(x) \in MThread
BY MessageFields, PoolAssumption DEF ThreadOf, MThread

\* A slice is not more than what is left, and not nothing.
LEMMA SliceBounds ==
    ASSUME NEW x \in Msg, NEW n \in 1..x.qty
    PROVE  /\ DivideQty(x, n) \in 1..n
           /\ PartQty(x) \in 1..x.qty
<1>1. x.qty \in Nat \ {0}
  BY MessageFields
<1>2. x.qty \div iPart_Match_Num \in Nat
  BY <1>1, PoolAssumption
<1>3. DivideQty(x, n) \in 1..n
  BY <1>1, <1>2 DEF DivideQty
<1>4. PartQty(x) \in 1..x.qty
  BY <1>1 DEF PartQty
<1> QED  BY <1>3, <1>4

\* A report pushed keeps the types of the report buffer and of its totals.
LEMMA PushTyped ==
    ASSUME ReportsTyped, NEW r \in ReportType, r.kind \in {"Trade", "Cancelled"} => r.order \in Order,
           PushBack(r)
    PROVE  ReportsTyped'
<1>1. r.last \in Nat
  BY DEF ReportType
<1>2. g_outMsg_buffer' \in Seq(ReportType)
  BY DEF PushBack, ReportsTyped
<1>3. execQty \in [Order -> Nat] /\ cxlQty \in [Order -> Nat]
  BY DEF ReportsTyped
<1>4. execQty' \in [Order -> Nat] /\ cxlQty' \in [Order -> Nat]
  BY <1>1, <1>3 DEF PushBack
<1> QED  BY <1>2, <1>4 DEF ReportsTyped

\* The start.
LEMMA InitTyped == Init => TypeInv
<1> SUFFICES ASSUME Init PROVE TypeInv
  OBVIOUS
<1>1. 0 \in VThread /\ 0 \in 0..ValidThreads
  BY PoolAssumption DEF VThread
<1>2. InputTyped /\ ValidTyped
  BY <1>1 DEF Init, InputTyped, ValidTyped, Idle
<1>3. QuesTyped /\ MatchTyped
  BY DEF Init, QuesTyped, MatchTyped
<1>4. ReportsTyped
  BY DEF Init, ReportsTyped
<1> QED  BY <1>2, <1>3, <1>4 DEF TypeInv

\* The clients and the distribute thread.
LEMMA DistTyped ==
    ASSUME TypeInv, (\E x \in Msg : Arrive(x)) \/ DistStep
    PROVE  TypeInv'
<1>0. ValidTyped' /\ QuesTyped' /\ MatchTyped' /\ ReportsTyped'
  BY DEF TypeInv, DistStep, Arrive, Dist_Pop, Dist_Scan, Dist_Assign, matchQs, reports,
         ValidTyped, QuesTyped, MatchTyped, ReportsTyped
<1> SUFFICES InputTyped'
  BY <1>0 DEF TypeInv
<1> USE DEF TypeInv, InputTyped
<1>1. ASSUME NEW x \in Msg, Arrive(x) PROVE InputTyped'
  BY <1>1 DEF Arrive, refusal
<1>2. CASE Dist_Pop
  <2>1. Head(g_inMsg_buffer) \in Msg /\ Tail(g_inMsg_buffer) \in Seq(Msg)
    BY <1>2 DEF Dist_Pop
  <2>2. 0 \in 0..ValidThreads /\ 0 \in VThread
    BY PoolAssumption DEF VThread
  <2> QED  BY <1>2, <2>1, <2>2 DEF Dist_Pop, refusal
<1>3. CASE Dist_Scan
  <2> DEFINE v == dist.next
             n == Len(validQue[v])
  <2>1. v \in 0..ValidThreads /\ v < ValidThreads /\ ValidThreads \in Nat
    BY <1>3, PoolAssumption DEF Dist_Scan
  <2>2. v \in VThread /\ v + 1 \in 0..ValidThreads /\ ValidThreads \in 0..ValidThreads
    BY <2>1 DEF VThread
  <2>3. n \in Nat
    BY <2>2
  <2>4. \/ dist' = [dist EXCEPT !.best = v, !.num = 0, !.next = ValidThreads]
        \/ dist' = [dist EXCEPT !.best = v, !.num = n, !.next = v + 1]
        \/ dist' = [dist EXCEPT !.next = v + 1]
    BY <1>3 DEF Dist_Scan
  <2> HIDE DEF v, n
  <2>5. SUFFICES dist' \in [msg : Msg \cup {None}, next : 0..ValidThreads,
                            best : VThread, num : Nat]
    BY <1>3 DEF Dist_Scan, input, refusal
  <2>6. dist \in [msg : Msg \cup {None}, next : 0..ValidThreads, best : VThread, num : Nat]
    OBVIOUS
  <2> HIDE DEF TypeInv, InputTyped
  <2>7. CASE dist' = [dist EXCEPT !.best = v, !.num = 0, !.next = ValidThreads]
    BY <2>2, <2>6, <2>7
  <2>8. CASE dist' = [dist EXCEPT !.best = v, !.num = n, !.next = v + 1]
    BY <2>2, <2>3, <2>6, <2>8
  <2>9. CASE dist' = [dist EXCEPT !.next = v + 1]
    BY <2>2, <2>6, <2>9
  <2> QED  BY <2>4, <2>7, <2>8, <2>9
<1>4. CASE Dist_Assign
  <2>1. dist.msg \in Msg /\ dist.best \in VThread
    BY <1>4 DEF Dist_Assign
  <2>2. validQue' \in [VThread -> Seq(Msg)]
    BY <1>4, <2>1 DEF Dist_Assign
  <2>3. dist' \in [msg : Msg \cup {None}, next : 0..ValidThreads, best : VThread, num : Nat]
    BY <1>4 DEF Dist_Assign
  <2> QED  BY <1>4, <2>2, <2>3 DEF Dist_Assign, input, refusal
<1> QED  BY <1>1, <1>2, <1>3, <1>4 DEF DistStep

\* A validating thread's next step.
LEMMA GoToTyped ==
    ASSUME ValidTyped, NEW v \in VThread, valid[v].pc # "get",
           \/ DoneWith(v)
           \/ GoTo(v, "validate") \/ GoTo(v, "record") \/ GoTo(v, "gen")
           \/ GoTo(v, "confirm") /\ valid[v].msg \in Order
    PROVE  ValidTyped'
<1>1. valid[v].msg \in Msg /\ DOMAIN valid = VThread
  BY DEF ValidTyped
<1>2. \/ valid' = [valid EXCEPT ![v] = [msg |-> None, pc |-> "get"]]
      \/ \E pc \in {"validate", "confirm", "record", "gen"} :
           /\ valid' = [valid EXCEPT ![v] = [msg |-> valid[v].msg, pc |-> pc]]
           /\ pc = "confirm" => valid[v].msg \in Order
  BY <1>1 DEF DoneWith, GoTo, Idle, ValidTyped
<1> QED  BY <1>1, <1>2 DEF ValidTyped

\* A task handed to a matching thread.
LEMMA GenTyped ==
    ASSUME QuesTyped, NEW x \in Msg, NEW n \in 1..x.qty, GenTask_Match(x, n)
    PROVE  QuesTyped'
<1> DEFINE m == ThreadOf(x)
<1>0. m \in MThread /\ x.qty \in Nat \ {0}
  BY ThreadOfIsThread, MessageFields
<1> HIDE DEF m
<1>1. CASE x.type = "F"
  <2>1. p4_que' = [p4_que EXCEPT ![m] = Append(@, x)] /\ UNCHANGED p3_que
    BY <1>1 DEF GenTask_Match, m
  <2>2. x \in Cancel
    BY <1>1 DEF Cancel
  <2> QED  BY <1>0, <2>1, <2>2 DEF QuesTyped
<1>2. CASE x.type # "F"
  <2> DEFINE t == [msg |-> x, leaves |-> n]
             s == p3_que[m]
  <2>1. p3_que' = [p3_que EXCEPT ![m] = Append(s, t)] /\ UNCHANGED p4_que
    BY <1>2 DEF GenTask_Match, m
  <2>2. t \in Task /\ t.leaves <= t.msg.qty
    BY <1>0, <1>2, MessageFields DEF Task, Cancel
  <2>3. s \in Seq(Task) /\ \A i \in 1..Len(s) : s[i].leaves <= s[i].msg.qty
    BY <1>0 DEF QuesTyped
  <2> HIDE DEF t
  <2>4. /\ Append(s, t) \in Seq(Task)
        /\ \A i \in 1..Len(Append(s, t)) : Append(s, t)[i].leaves <= Append(s, t)[i].msg.qty
    BY <2>2, <2>3
  <2>5. p3_que \in [MThread -> Seq(Task)] /\ p4_que \in [MThread -> Seq(Cancel)]
    BY DEF QuesTyped
  <2> HIDE DEF s
  <2>6. /\ p3_que' \in [MThread -> Seq(Task)]
        /\ p3_que'[m] = Append(s, t)
        /\ \A k \in MThread \ {m} : p3_que'[k] = p3_que[k]
    BY <1>0, <2>1, <2>4, <2>5
  <2> QED  BY <2>1, <2>4, <2>5, <2>6 DEF QuesTyped
<1> QED  BY <1>1, <1>2

\* The validating threads.
LEMMA ValidStepTyped ==
    ASSUME TypeInv, NEW v \in VThread, ValidStep(v)
    PROVE  TypeInv'
<1> USE DEF TypeInv
<1> DEFINE x == valid[v].msg
<1>0. /\ InputTyped /\ ValidTyped /\ QuesTyped /\ MatchTyped /\ ReportsTyped
      /\ valid[v].pc # "get" => x \in Msg /\ x.cl \in Clordid /\ x.qty \in Nat \ {0}
  BY MessageFields DEF ValidTyped
<1> HIDE DEF x
<1> USE DEF InputTyped, QuesTyped, MatchTyped, ReportsTyped, AtValid
<1>1. CASE Valid_Get(v)
  <2>1. Head(validQue[v]) \in Msg /\ Tail(validQue[v]) \in Seq(Msg)
    BY <1>0, <1>1 DEF Valid_Get
  <2>2. ValidTyped'
    BY <1>0, <1>1, <2>1 DEF Valid_Get, ValidTyped
  <2>3. validQue' \in [VThread -> Seq(Msg)]
    BY <1>0, <1>1, <2>1 DEF Valid_Get
  <2> QED  BY <1>0, <1>1, <2>2, <2>3 DEF Valid_Get, input, matchQs, reports, refusal
<1>2. CASE Valid_Check(v)
  <2>1. ValidTyped'
    BY <1>0, <1>2, GoToTyped DEF Valid_Check
  <2> QED  BY <1>0, <1>2, <2>1 DEF Valid_Check, input, matchQs, reports, x
<1>3. CASE Valid_Validate(v)
  <2>1. ValidTyped'
    BY <1>0, <1>3, GoToTyped DEF Valid_Validate, Order, x
  <2>2. ReportsTyped'
    <3>1. CASE UNCHANGED reports
      BY <1>0, <3>1 DEF reports
    <3>2. CASE PushBack(Report(x, x, "Error", 0, 0, 0))
      BY <1>0, <1>3, <3>2, PushTyped DEF Valid_Validate, Report, ReportType, ReportKind
    <3> QED  BY <1>3, <3>1, <3>2 DEF Valid_Validate, x
  <2> QED  BY <1>0, <1>3, <2>1, <2>2 DEF Valid_Validate, input, matchQs, x
<1>4. CASE Valid_Confirm(v)
  <2>1. ValidTyped'
    BY <1>0, <1>4, GoToTyped DEF Valid_Confirm
  <2>2. ReportsTyped'
    <3>1. Report(x, x, "New", 0, x.qty, 0) \in ReportType
      BY <1>0, <1>4 DEF Valid_Confirm, Report, ReportType, ReportKind
    <3> QED  BY <1>4, <3>1, PushTyped DEF Valid_Confirm, Report, x
  <2> QED  BY <1>0, <1>4, <2>1, <2>2 DEF Valid_Confirm, input, matchQs, refusal
<1>5. CASE Valid_Record(v)
  <2>1. ValidTyped'
    BY <1>0, <1>5, GoToTyped DEF Valid_Record
  <2> QED  BY <1>0, <1>5, <2>1 DEF Valid_Record, input, matchQs, reports, refusal, x
<1>6. CASE Valid_Gen(v)
  <2>1. ValidTyped'
    BY <1>0, <1>6, GoToTyped DEF Valid_Gen
  <2>2. QuesTyped'
    <3>1. /\ x \in Msg /\ x.qty \in 1..x.qty /\ GenTask_Match(x, x.qty)
      <4>1. x \in Msg
        BY <1>0, <1>6 DEF Valid_Gen, AtValid, ValidTyped, x
      <4> QED  BY <1>6, <4>1, MessageFields DEF Valid_Gen, x
    <3> HIDE DEF x
    <3> QED  BY <1>0, <3>1, GenTyped
  <2> QED  BY <1>0, <1>6, <2>1, <2>2 DEF Valid_Gen, input, reports, refusal
<1> QED  BY <1>1, <1>2, <1>3, <1>4, <1>5, <1>6 DEF ValidStep

\* A matching thread takes another task in hand, or none.
LEMMA HandTyped ==
    ASSUME MatchTyped, NEW m \in MThread, NEW h,
           match' = [match EXCEPT ![m] = h],
           \/ h = FreeHand
           \/ \E x \in Cancel : h = [msg |-> x, leaves |-> 0, pc |-> "cancel"]
           \/ \E x \in Order : \E n \in 1..x.qty, pc \in {"trade", "requeue"} :
                 h = [msg |-> x, leaves |-> n, pc |-> pc]
    PROVE  MatchTyped'
<1>1. CASE h = FreeHand
  BY <1>1 DEF MatchTyped, FreeHand
<1>2. ASSUME NEW x \in Cancel, h = [msg |-> x, leaves |-> 0, pc |-> "cancel"]
      PROVE  MatchTyped'
  BY <1>2 DEF MatchTyped, Cancel
<1>3. ASSUME NEW x \in Order, NEW n \in 1..x.qty, NEW pc \in {"trade", "requeue"},
             h = [msg |-> x, leaves |-> n, pc |-> pc]
      PROVE  MatchTyped'
  BY <1>3, MessageFields DEF MatchTyped, Order
<1> QED  BY <1>1, <1>2, <1>3

\* The tasks a matching thread finds.
LEMMA FoundTask ==
    ASSUME QuesTyped, NEW m \in MThread, NEW i \in 1..Len(p3_que[m])
    PROVE  /\ p3_que[m][i] \in Task
           /\ p3_que[m][i].msg \in Order
           /\ p3_que[m][i].msg.qty \in Nat \ {0}
           /\ p3_que[m][i].leaves \in 1..p3_que[m][i].msg.qty
           /\ p3_que[m][i] = [msg |-> p3_que[m][i].msg, leaves |-> p3_que[m][i].leaves]
<1> DEFINE t == p3_que[m][i]
<1>1. t \in Task /\ t.leaves <= t.msg.qty
  BY DEF QuesTyped
<1> HIDE DEF t
<1>2. t.msg \in Order /\ t.leaves \in Nat \ {0} /\ t = [msg |-> t.msg, leaves |-> t.leaves]
  BY <1>1 DEF Task
<1>3. t.msg.qty \in Nat \ {0}
  BY <1>2, MessageFields DEF Order
<1> QED  BY <1>1, <1>2, <1>3 DEF t

\* pop_front of a task queue.
LEMMA PopTask ==
    ASSUME NEW S, NEW s \in Seq(S), s # <<>>
    PROVE  /\ Head(s) = s[1] /\ 1 \in 1..Len(s)
           /\ Tail(s) \in Seq(S)
           /\ Len(Tail(s)) = Len(s) - 1 /\ Len(s) \in Nat
           /\ \A i \in 1..Len(Tail(s)) : i + 1 \in 1..Len(s) /\ Tail(s)[i] = s[i + 1]
<1>1. Len(s) \in Nat /\ Len(s) >= 1 /\ Len(Tail(s)) = Len(s) - 1 /\ Tail(s) \in Seq(S)
  OBVIOUS
<1>2. \A i \in 1..Len(Tail(s)) : Tail(s)[i] = s[i + 1]
  BY HeadTailProperties
<1> QED  BY <1>1, <1>2

\* erase of a task queue.
LEMMA EraseTask ==
    ASSUME NEW S, NEW s \in Seq(S), NEW i \in 1..Len(s)
    PROVE  /\ RemoveAt(s, i) \in Seq(S)
           /\ Len(RemoveAt(s, i)) = Len(s) - 1 /\ Len(s) \in Nat
           /\ \A j \in 1..Len(RemoveAt(s, i)) :
                LET k == IF j < i THEN j ELSE j + 1
                IN  k \in 1..Len(s) /\ k # i /\ RemoveAt(s, i)[j] = s[k]
<1> DEFINE a == SubSeq(s, 1, i - 1)
           b == SubSeq(s, i + 1, Len(s))
           r == RemoveAt(s, i)
<1>0. i \in Nat /\ Len(s) \in Nat /\ 1 <= i /\ i <= Len(s)
  OBVIOUS
<1>1. a \in Seq(S) /\ Len(a) = i - 1 /\ \A j \in 1..i - 1 : a[j] = s[j]
  BY <1>0, SubSeqProperties
<1>2. b \in Seq(S) /\ Len(b) = Len(s) - i /\ \A j \in 1..Len(s) - i : b[j] = s[j + i]
  BY <1>0, SubSeqProperties
<1>3. r = a \o b
  BY DEF RemoveAt
<1> HIDE DEF a, b, r
<1>4. /\ r \in Seq(S) /\ Len(r) = Len(s) - 1
      /\ \A j \in 1..Len(s) - 1 : r[j] = IF j <= i - 1 THEN a[j] ELSE b[j - (i - 1)]
  <2>1. /\ a \o b \in Seq(S)
        /\ Len(a \o b) = Len(a) + Len(b)
        /\ \A j \in 1..Len(a) + Len(b) :
             (a \o b)[j] = IF j <= Len(a) THEN a[j] ELSE b[j - Len(a)]
    BY <1>1, <1>2, ConcatProperties
  <2>2. Len(a) = i - 1 /\ Len(a) + Len(b) = Len(s) - 1
    BY <1>0, <1>1, <1>2
  <2> QED  BY <1>3, <2>1, <2>2
<1>5. ASSUME NEW j \in 1..Len(s) - 1, j < i
      PROVE  r[j] = s[j] /\ j \in 1..Len(s) /\ j # i
  BY <1>0, <1>1, <1>4, <1>5
<1>6. ASSUME NEW j \in 1..Len(s) - 1, ~(j < i)
      PROVE  r[j] = s[j + 1] /\ j + 1 \in 1..Len(s) /\ j + 1 # i
  <2>1. j - (i - 1) \in 1..Len(s) - i /\ (j - (i - 1)) + i = j + 1 /\ ~(j <= i - 1)
    BY <1>0, <1>6
  <2>2. r[j] = b[j - (i - 1)] /\ b[j - (i - 1)] = s[j + 1]
    BY <1>2, <1>4, <2>1
  <2> QED  BY <1>0, <1>6, <2>2
<1>7. ASSUME NEW j \in 1..Len(s) - 1
      PROVE  LET k == IF j < i THEN j ELSE j + 1
             IN  k \in 1..Len(s) /\ k # i /\ r[j] = s[k]
  BY <1>5, <1>6
<1> QED  BY <1>0, <1>4, <1>7 DEF r

\* A queue from which a task was taken is typed as before.
LEMMA TakenTyped ==
    ASSUME QuesTyped, NEW m \in MThread, NEW r \in Seq(Task), NEW s \in Seq(Cancel),
           \A i \in 1..Len(r) : \E k \in 1..Len(p3_que[m]) : r[i] = p3_que[m][k],
           p3_que' = [p3_que EXCEPT ![m] = r] \/ UNCHANGED p3_que,
           p4_que' = [p4_que EXCEPT ![m] = s] \/ UNCHANGED p4_que
    PROVE  QuesTyped'
<1>1. p4_que' \in [MThread -> Seq(Cancel)] /\ p3_que' \in [MThread -> Seq(Task)]
  BY DEF QuesTyped
<1>2. ASSUME NEW k \in MThread, NEW i \in 1..Len(p3_que'[k])
      PROVE  p3_que'[k][i].leaves <= p3_que'[k][i].msg.qty
  <2>1. p3_que'[k] = p3_que[k] \/ (k = m /\ p3_que'[k] = r)
    BY DEF QuesTyped
  <2> QED  BY <1>2, <2>1 DEF QuesTyped
<1> QED  BY <1>1, <1>2 DEF QuesTyped

\* What a matching step comes to: a trade of a part of what is left, an order
\* put back as it was, or the refusal of a whole order.
LEMMA MatchOutcome ==
    ASSUME MatchTyped, NEW m \in MThread, MatchOrder(m)
    PROVE  /\ match[m].msg \in Order /\ match[m].msg \in Msg
           /\ match[m].msg.qty \in Nat \ {0} /\ match[m].leaves \in 1..match[m].msg.qty
           /\ \/ /\ \E n \in 1..match[m].leaves, cum \in Nat : Trade(m, n, cum)
                 /\ match[m].msg.mode # "Err"
              \/ Put_Back(m)
              \/ /\ match[m].leaves = match[m].msg.qty
                 /\ PushBack(Report(match[m].msg, match[m].msg, "Error", 0, 0, 0))
                 /\ match' = [match EXCEPT ![m] = FreeHand]
<1> DEFINE x == match[m].msg
           n == match[m].leaves
<1>1. x \in Order /\ n \in 1..x.qty
  BY DEF MatchOrder, AtMatch, MatchTyped
<1>2. x \in Msg /\ x.qty \in Nat \ {0}
  BY <1>1, MessageFields DEF Order
<1>3. DivideQty(x, n) \in 1..n /\ PartQty(x) \in 1..x.qty
  BY <1>1, <1>2, SliceBounds
<1>4. CASE ABStockMatch_All(m)
  BY <1>1, <1>2, <1>4 DEF ABStockMatch_All
<1>5. CASE ABStockMatch_Divide(m)
  <2>1. DivideQty(x, n) \in Nat /\ Trade(m, DivideQty(x, n), DivideQty(x, n))
    BY <1>1, <1>3, <1>5 DEF ABStockMatch_Divide
  <2> QED  BY <1>1, <1>2, <1>3, <1>5, <2>1 DEF ABStockMatch_Divide
<1>6. CASE ABStockMatch_Part(m)
  <2>1. n = x.qty => PartQty(x) \in 1..n /\ PartQty(x) \in Nat
    BY <1>1, <1>2, <1>3
  <2> QED  BY <1>1, <1>2, <1>6, <2>1 DEF ABStockMatch_Part
<1>7. CASE ABStockMatch_UnMatch(m)
  BY <1>1, <1>2, <1>7 DEF ABStockMatch_UnMatch
<1>8. CASE ABStockMatch_Error(m)
  BY <1>1, <1>2, <1>8 DEF ABStockMatch_Error
<1> QED  BY <1>4, <1>5, <1>6, <1>7, <1>8 DEF MatchOrder

\* The matching threads.
LEMMA MatchStepTyped ==
    ASSUME TypeInv, NEW m \in MThread, MatchStep(m)
    PROVE  TypeInv'
<1> DEFINE x == match[m].msg
           n == match[m].leaves
<1>0. /\ InputTyped /\ ValidTyped /\ QuesTyped /\ MatchTyped /\ ReportsTyped
      /\ p3_que[m] \in Seq(Task) /\ p4_que[m] \in Seq(Cancel)
  BY DEF TypeInv, QuesTyped
<1>a. /\ AtMatch(m, "cancel") => x \in Cancel /\ x \in Msg
      /\ AtMatch(m, "trade") \/ AtMatch(m, "requeue") =>
            x \in Order /\ x \in Msg /\ x.qty \in Nat \ {0} /\ n \in 1..x.qty
  <2>1. AtMatch(m, "trade") \/ AtMatch(m, "requeue") => x \in Order /\ n \in 1..x.qty
    BY <1>0 DEF AtMatch, MatchTyped
  <2> QED  BY <1>0, <2>1, MessageFields DEF AtMatch, MatchTyped, Order, Cancel
<1>b. InputTyped' /\ ValidTyped'
  BY <1>0 DEF MatchStep, Match_Get, Cancel_Success, Cancel_Fail, MatchOrder, Match_Requeue,
         InputTyped, ValidTyped, input, refusal
<1> SUFFICES QuesTyped' /\ MatchTyped' /\ ReportsTyped'
  BY <1>b DEF TypeInv
<1>1. CASE Match_Get(m)
  <2>1. ReportsTyped'
    BY <1>0, <1>1 DEF Match_Get, ReportsTyped, reports
  <2>2. CASE p4_que[m] # <<>> /\ p4_que' = [p4_que EXCEPT ![m] = Tail(@)]
               /\ UNCHANGED p3_que
               /\ match' = [match EXCEPT ![m] =
                              [msg |-> Head(p4_que[m]), leaves |-> 0, pc |-> "cancel"]]
    <3>1. Head(p4_que[m]) \in Cancel /\ Tail(p4_que[m]) \in Seq(Cancel)
      BY <1>0, <2>2
    <3>2. QuesTyped'
      BY <1>0, <2>2, <3>1 DEF QuesTyped
    <3> QED  BY <1>0, <2>1, <2>2, <3>1, <3>2, HandTyped
  <2>3. CASE p3_que[m] # <<>> /\ p3_que' = [p3_que EXCEPT ![m] = Tail(@)]
               /\ UNCHANGED p4_que
               /\ match' = [match EXCEPT ![m] =
                              [msg |-> Head(p3_que[m]).msg,
                               leaves |-> Head(p3_que[m]).leaves, pc |-> "trade"]]
    <3>1. /\ Tail(p3_que[m]) \in Seq(Task)
          /\ \A i \in 1..Len(Tail(p3_que[m])) :
                \E k \in 1..Len(p3_que[m]) : Tail(p3_que[m])[i] = p3_que[m][k]
          /\ Head(p3_que[m]) = p3_que[m][1] /\ 1 \in 1..Len(p3_que[m])
      BY <1>0, <2>3, PopTask
    <3>2. QuesTyped'
      BY <1>0, <2>3, <3>1, TakenTyped
    <3>3. Head(p3_que[m]).msg \in Order /\ Head(p3_que[m]).leaves \in 1..Head(p3_que[m]).msg.qty
      BY <1>0, <3>1, FoundTask
    <3>4. MatchTyped'
      BY <1>0, <2>3, <3>3, HandTyped
    <3> QED  BY <2>1, <3>2, <3>4
  <2> QED  BY <1>1, <2>2, <2>3 DEF Match_Get
<1>2. CASE Cancel_Success(m)
  <2>1. PICK i \in 1..Len(p3_que[m]) :
             /\ p3_que' = [p3_que EXCEPT ![m] = RemoveAt(@, i)]
             /\ PushBack(Report(x, p3_que[m][i].msg, "Cancelled", p3_que[m][i].leaves, 0,
                                p3_que[m][i].msg.qty - p3_que[m][i].leaves))
    BY <1>2 DEF Cancel_Success, FirstOf
  <2>2. QuesTyped'
    <3>1. /\ RemoveAt(p3_que[m], i) \in Seq(Task)
          /\ \A j \in 1..Len(RemoveAt(p3_que[m], i)) :
                LET k == IF j < i THEN j ELSE j + 1
                IN  k \in 1..Len(p3_que[m]) /\ k # i /\ RemoveAt(p3_que[m], i)[j] = p3_que[m][k]
      BY <1>0, EraseTask
    <3>2. \A j \in 1..Len(RemoveAt(p3_que[m], i)) :
             \E k \in 1..Len(p3_que[m]) : RemoveAt(p3_que[m], i)[j] = p3_que[m][k]
      BY <3>1
    <3>3. p3_que' = [p3_que EXCEPT ![m] = RemoveAt(p3_que[m], i)] /\ UNCHANGED p4_que
      BY <1>2, <2>1 DEF Cancel_Success
    <3> QED  BY <1>0, <3>1, <3>2, <3>3, TakenTyped
  <2>3. ReportsTyped'
    <3> DEFINE t == p3_que[m][i]
    <3>0. t.msg \in Order /\ t.msg.qty \in Nat \ {0} /\ t.leaves \in 1..t.msg.qty
      BY <1>0, FoundTask
    <3>1. t.msg \in Order /\ t.msg \in Msg /\ t.leaves \in Nat /\ t.msg.qty - t.leaves \in Nat
      BY <3>0 DEF Order
    <3>2. x \in Msg
      BY <1>2, <1>a DEF Cancel_Success
    <3> HIDE DEF t, x
    <3>3. Report(x, t.msg, "Cancelled", t.leaves, 0, t.msg.qty - t.leaves) \in ReportType
      BY <3>1, <3>2 DEF Report, ReportType, ReportKind
    <3> QED  BY <1>0, <2>1, <3>1, <3>3, PushTyped DEF Report, t
  <2>4. MatchTyped'
    BY <1>0, <1>2, HandTyped DEF Cancel_Success
  <2> QED  BY <2>2, <2>3, <2>4
<1>3. CASE Cancel_Fail(m)
  <2>1. ReportsTyped'
    <3>1. x \in Msg
      BY <1>3, <1>a DEF Cancel_Fail
    <3> HIDE DEF x
    <3>2. Report(x, x, "CxlReject", 0, 0, 0) \in ReportType
      BY <3>1 DEF Report, ReportType, ReportKind
    <3> QED  BY <1>0, <1>3, <3>2, PushTyped DEF Cancel_Fail, Report, x
  <2>2. MatchTyped'
    BY <1>0, <1>3, HandTyped DEF Cancel_Fail
  <2> QED  BY <1>0, <1>3, <2>1, <2>2 DEF Cancel_Fail, QuesTyped, matchQs
<1>4. CASE MatchOrder(m)
  <2>0. /\ x \in Order /\ x \in Msg /\ x.qty \in Nat \ {0} /\ n \in 1..x.qty
        /\ DOMAIN match = MThread
    BY <1>0, <1>4, MatchOutcome DEF MatchTyped
  <2>1. QuesTyped'
    BY <1>0, <1>4 DEF MatchOrder, QuesTyped, matchQs
  <2>2. ASSUME NEW k \in 1..n, NEW cum \in Nat, Trade(m, k, cum)
        PROVE  MatchTyped' /\ ReportsTyped'
    <3>1. n - k \in Nat /\ k \in Nat /\ (n - k # 0 => n - k \in 1..x.qty)
      BY <2>0
    <3>2. MatchTyped'
      BY <1>0, <2>0, <2>2, <3>1, HandTyped DEF Trade
    <3> HIDE DEF x, n
    <3>3. Report(x, x, "Trade", k, n - k, cum) \in ReportType
      BY <2>0, <3>1 DEF Report, ReportType, ReportKind
    <3>4. ReportsTyped'
      BY <1>0, <2>0, <2>2, <3>3, PushTyped DEF Trade, Report, x, n
    <3> QED  BY <3>2, <3>4
  <2>3. CASE Put_Back(m)
    <3>1. match' = [match EXCEPT ![m] = [msg |-> x, leaves |-> n, pc |-> "requeue"]]
      <4>1. match[m] \in [msg : Msg \cup {None}, leaves : Nat,
                          pc : {"get", "cancel", "trade", "requeue"}]
        BY <1>0 DEF MatchTyped
      <4>2. [match[m] EXCEPT !.pc = "requeue"] = [msg |-> x, leaves |-> n, pc |-> "requeue"]
        BY <4>1
      <4> QED  BY <2>0, <2>3, <4>2 DEF Put_Back
    <3>2. MatchTyped'
      BY <1>0, <2>0, <3>1, HandTyped
    <3> QED  BY <1>0, <2>1, <2>3, <3>2 DEF Put_Back, ReportsTyped, reports
  <2>4. CASE /\ PushBack(Report(x, x, "Error", 0, 0, 0))
             /\ match' = [match EXCEPT ![m] = FreeHand]
    <3>1. MatchTyped'
      BY <1>0, <2>4, HandTyped
    <3> HIDE DEF x
    <3>2. Report(x, x, "Error", 0, 0, 0) \in ReportType
      BY <2>0 DEF Report, ReportType, ReportKind
    <3>3. ReportsTyped'
      BY <1>0, <2>4, <3>2, PushTyped DEF Report
    <3> QED  BY <2>1, <3>1, <3>3
  <2> QED  BY <1>0, <1>4, <2>1, <2>2, <2>3, <2>4, MatchOutcome
<1>5. CASE Match_Requeue(m)
  <2>1. QuesTyped'
    BY <1>0, <1>5, <1>a, GenTyped DEF Match_Requeue
  <2>2. MatchTyped'
    BY <1>0, <1>5, HandTyped DEF Match_Requeue
  <2> QED  BY <1>0, <1>5, <2>1, <2>2 DEF Match_Requeue, ReportsTyped, reports
<1> QED  BY <1>1, <1>2, <1>3, <1>4, <1>5 DEF MatchStep

\* A step that changes nothing.
LEMMA StutterTyped == TypeInv /\ UNCHANGED vars => TypeInv'
BY DEF TypeInv, InputTyped, ValidTyped, QuesTyped, MatchTyped, ReportsTyped,
       vars, input, matchQs, reports, refusal

\* Every step keeps the types.
LEMMA StepTyped == TypeInv /\ [Next]_vars => TypeInv'
BY DistTyped, ValidStepTyped, MatchStepTyped, StutterTyped DEF Next

\* Every variable has its type, and a matching step never trades more than
\* is left of the order: the next slice (DivideQty, PartQty) is cut to it.
THEOREM FlowTypeCorrect == Spec => []TypeOK
<1>1. Spec => []TypeInv
  BY InitTyped, StepTyped, PTL DEF Spec
<1>2. TypeInv => TypeOK
  BY TypesOfParts
<1> QED  BY <1>1, <1>2, PTL

-----------------------------------------------------------------------------
(* Where each message is.  A message is in one place at a time: not sent   *)
(* yet, in the input buffer, in the hands of the distribute thread, in a   *)
(* queue or in the hands of a validating thread, ready to be handed on,    *)
(* in a queue or in the hands of a matching thread, or done with.          *)

Early == {"new", "in", "dist", "validQue", "valid", "ready"}
Late  == {"ready", "p3", "match"}
Place == (Early \cup Late \cup {"p4", "gone"}) \X Int

\* The messages of a queue are at p, each of them once.
QueueAt(s, at, p) ==
    /\ \A i \in 1..Len(s) : at[s[i]] = p
    /\ \A i, j \in 1..Len(s) : s[i] = s[j] => i = j

TasksAt(s, at, p) ==
    /\ \A i \in 1..Len(s) : at[s[i].msg] = p
    /\ \A i, j \in 1..Len(s) : s[i].msg = s[j].msg => i = j

NewAt(at)      == \A x \in Msg : at[x] = <<"new", 0>> <=> x \notin arrived
InAt(at)       == QueueAt(g_inMsg_buffer, at, <<"in", 0>>)
DistAt(at)     == dist.msg # None => at[dist.msg] = <<"dist", 0>>
ValidQueAt(at) == \A v \in VThread : QueueAt(validQue[v], at, <<"validQue", v>>)
ValidAt(at)    == \A v \in VThread :
    /\ valid[v].pc \in {"check", "validate", "confirm"} => at[valid[v].msg] = <<"valid", v>>
    /\ valid[v].pc \in {"record", "gen"} => at[valid[v].msg] = <<"ready", v>>
P4At(at)       == \A m \in MThread : QueueAt(p4_que[m], at, <<"p4", m>>)
P3At(at)       == \A m \in MThread : TasksAt(p3_que[m], at, <<"p3", m>>)
MatchAt(at)    == \A m \in MThread : match[m].pc # "get" => at[match[m].msg] = <<"match", m>>

Located(at) ==
    /\ NewAt(at) /\ InAt(at) /\ DistAt(at) /\ ValidQueAt(at) /\ ValidAt(at)
    /\ P4At(at) /\ P3At(at) /\ MatchAt(at)

\* The tasks a matching thread has are those of its keys.
ServedQueues ==
    \A m \in MThread :
        /\ \A i \in 1..Len(p4_que[m]) : ThreadOf(p4_que[m][i]) = m
        /\ \A i \in 1..Len(p3_que[m]) : ThreadOf(p3_que[m][i].msg) = m

ServedHands ==
    \A m \in MThread : match[m].pc # "get" => ThreadOf(match[m].msg) = m

Served == ServedQueues /\ ServedHands

\* What is left of an order is what the reports have not accounted for.
Open(x, n) == execQty[x] + n = x.qty /\ cxlQty[x] = 0

OpenQueues ==
    \A m \in MThread : \A i \in 1..Len(p3_que[m]) :
        Open(p3_que[m][i].msg, p3_que[m][i].leaves)

OpenHands ==
    \A m \in MThread :
        match[m].pc \in {"trade", "requeue"} => Open(match[m].msg, match[m].leaves)

OpenTasks == OpenQueues /\ OpenHands

Confirmed(x) ==
    \/ x.mode = "Err"
    \/ \E i \in 1..Len(g_outMsg_buffer) :
          g_outMsg_buffer[i].kind = "New" /\ g_outMsg_buffer[i].order = x

\* The reports agree with where the messages are: nothing is traded early,
\* what is queued for matching is confirmed, and a final report or an answer
\* to a cancel is the end of its message.
Gone == <<"gone", 0>>

EarlyUntraded(at)  == \A x \in Order : at[x][1] \in Early => execQty[x] = 0 /\ cxlQty[x] = 0
LateConfirmed(at)  == \A x \in Order : at[x][1] \in Late => Confirmed(x)
WithinQty          == \A x \in Order : execQty[x] + cxlQty[x] <= x.qty
RefusedGone(at)    == \A x \in repeated \cup ignored : at[x] = Gone
FinalGone(at)      == \A i \in 1..Len(g_outMsg_buffer) :
    Final(g_outMsg_buffer[i]) => at[g_outMsg_buffer[i].order] = Gone
CancelsAnswered(at) == \A i \in 1..Len(g_outMsg_buffer) :
    g_outMsg_buffer[i].msg \in Cancel =>
        /\ at[g_outMsg_buffer[i].msg] = Gone
        /\ g_outMsg_buffer[i].msg \notin repeated \cup ignored
        /\ \A j \in 1..Len(g_outMsg_buffer) :
             g_outMsg_buffer[i].msg = g_outMsg_buffer[j].msg => i = j

Told(at) ==
    /\ EarlyUntraded(at) /\ LateConfirmed(at) /\ WithinQty /\ RefusedGone(at)
    /\ FinalGone(at) /\ CancelsAnswered(at) /\ ConfirmFirst /\ NothingAfterFinal

FlowInv ==
    /\ TypeInv
    /\ Served
    /\ OpenTasks
    /\ \E at \in [Msg -> Place] : Located(at) /\ Told(at)

-----------------------------------------------------------------------------
(* Moving one message.                                                     *)

\* The tasks of a queue, and their orders.
LEMMA TaskMsg ==
    ASSUME NEW s \in Seq(Task)
    PROVE  \A i \in 1..Len(s) : s[i] \in Task /\ s[i].msg \in Order /\ s[i].msg \in Msg
<1> SUFFICES ASSUME NEW i \in 1..Len(s)
             PROVE  s[i] \in Task /\ s[i].msg \in Order /\ s[i].msg \in Msg
  OBVIOUS
<1>1. s[i] \in Task
  OBVIOUS
<1>2. s[i].msg \in Order
  BY <1>1 DEF Task
<1> QED  BY <1>1, <1>2 DEF Order

\* A queue whose place the message neither leaves nor enters.
LEMMA QueueKeeps ==
    ASSUME NEW at \in [Msg -> Place], NEW x \in Msg, NEW q \in Place, NEW p,
           at[x] # p, q # p, NEW s \in Seq(Msg), QueueAt(s, at, p)
    PROVE  QueueAt(s, [at EXCEPT ![x] = q], p)
BY DEF QueueAt

\* The same for a queue of match tasks.
LEMMA TasksKeep ==
    ASSUME NEW at \in [Msg -> Place], NEW x \in Msg, NEW q \in Place, NEW p,
           at[x] # p, q # p, NEW s \in Seq(Task), TasksAt(s, at, p)
    PROVE  TasksAt(s, [at EXCEPT ![x] = q], p)
<1>1. \A i \in 1..Len(s) : s[i].msg \in Msg
  BY TaskMsg
<1> QED  BY <1>1 DEF TasksAt

\* push_back.
LEMMA QueueGets ==
    ASSUME NEW at \in [Msg -> Place], NEW x \in Msg, NEW p \in Place,
           at[x] # p, NEW s \in Seq(Msg), QueueAt(s, at, p)
    PROVE  QueueAt(Append(s, x), [at EXCEPT ![x] = p], p)
<1>1. /\ Len(Append(s, x)) = Len(s) + 1 /\ Len(s) \in Nat
      /\ \A i \in 1..Len(s) : Append(s, x)[i] = s[i] /\ s[i] \in Msg /\ s[i] # x
      /\ Append(s, x)[Len(s) + 1] = x
  BY DEF QueueAt
<1>2. \A i \in 1..Len(s) + 1 : i \in 1..Len(s) \/ i = Len(s) + 1
  BY <1>1
<1> QED  BY <1>1, <1>2 DEF QueueAt

\* The same for a match task.
LEMMA TasksGet ==
    ASSUME NEW at \in [Msg -> Place], NEW t \in Task, NEW p \in Place,
           at[t.msg] # p, NEW s \in Seq(Task), TasksAt(s, at, p)
    PROVE  TasksAt(Append(s, t), [at EXCEPT ![t.msg] = p], p)
<1>1. /\ Len(Append(s, t)) = Len(s) + 1 /\ Len(s) \in Nat
      /\ \A i \in 1..Len(s) : Append(s, t)[i] = s[i] /\ s[i].msg \in Msg /\ s[i].msg # t.msg
      /\ Append(s, t)[Len(s) + 1] = t
  BY TaskMsg DEF TasksAt
<1>2. \A i \in 1..Len(s) + 1 : i \in 1..Len(s) \/ i = Len(s) + 1
  BY <1>1
<1>3. t.msg \in Msg
  BY DEF Task, Order
<1> QED  BY <1>1, <1>2, <1>3 DEF TasksAt

\* pop_front.
LEMMA QueueLoses ==
    ASSUME NEW at \in [Msg -> Place], NEW p \in Place, NEW q \in Place, q # p,
           NEW s \in Seq(Msg), s # <<>>, QueueAt(s, at, p)
    PROVE  /\ Head(s) \in Msg /\ at[Head(s)] = p
           /\ QueueAt(Tail(s), [at EXCEPT ![Head(s)] = q], p)
<1>1. \A i \in 1..Len(s) : s[i] \in Msg
  OBVIOUS
<1> QED  BY <1>1, PopTask DEF QueueAt

\* A cancel queue is a queue of messages.
LEMMA CancelQueue ==
    ASSUME TypeInv, NEW m \in MThread
    PROVE  p4_que[m] \in Seq(Msg)
<1>1. p4_que[m] \in Seq(Cancel)
  BY DEF TypeInv, QuesTyped
<1>2. Cancel \subseteq Msg
  BY DEF Cancel
<1> QED  BY <1>1, <1>2, SeqMonotonic

\* A stage that message x, on its way to the place q, neither leaves nor enters.
Far(at, x, q, stage) == at[x][1] # stage /\ q[1] # stage

\* What the move does not concern.
LEMMA Unconcerned ==
    ASSUME TypeInv, NEW at \in [Msg -> Place], Located(at),
           NEW x \in Msg, NEW q \in Place, NEW at2, at2 = [at EXCEPT ![x] = q]
    PROVE  /\ at2 \in [Msg -> Place]
           /\ Far(at, x, q, "new") /\ UNCHANGED arrived => NewAt(at2)'
           /\ Far(at, x, q, "in") /\ UNCHANGED g_inMsg_buffer => InAt(at2)'
           /\ Far(at, x, q, "dist") /\ UNCHANGED dist => DistAt(at2)'
           /\ Far(at, x, q, "validQue") /\ UNCHANGED validQue => ValidQueAt(at2)'
           /\ Far(at, x, q, "valid") /\ Far(at, x, q, "ready") /\ UNCHANGED valid =>
                  ValidAt(at2)'
           /\ Far(at, x, q, "p4") /\ UNCHANGED p4_que => P4At(at2)'
           /\ Far(at, x, q, "p3") /\ UNCHANGED p3_que => P3At(at2)'
           /\ Far(at, x, q, "match") /\ UNCHANGED match => MatchAt(at2)'
<1>0. at2 \in [Msg -> Place] /\ at2[x] = q /\ \A y \in Msg \ {x} : at2[y] = at[y]
  OBVIOUS
<1>a. ASSUME NEW stage, Far(at, x, q, stage), NEW k
      PROVE  at[x] # <<stage, k>> /\ q # <<stage, k>>
  BY <1>a DEF Far
<1> USE DEF TypeInv, Located
<1>1. Far(at, x, q, "new") /\ UNCHANGED arrived => NewAt(at2)'
  BY <1>0, <1>a DEF NewAt
<1>2. Far(at, x, q, "in") /\ UNCHANGED g_inMsg_buffer => InAt(at2)'
  BY <1>a, QueueKeeps DEF InAt, InputTyped
<1>3. Far(at, x, q, "dist") /\ UNCHANGED dist => DistAt(at2)'
  BY <1>0, <1>a DEF DistAt, InputTyped
<1>4. Far(at, x, q, "validQue") /\ UNCHANGED validQue => ValidQueAt(at2)'
  BY <1>a, QueueKeeps DEF ValidQueAt, InputTyped
<1>5. Far(at, x, q, "valid") /\ Far(at, x, q, "ready") /\ UNCHANGED valid => ValidAt(at2)'
  <2> SUFFICES ASSUME Far(at, x, q, "valid"), Far(at, x, q, "ready"), UNCHANGED valid
               PROVE  ValidAt(at2)'
    OBVIOUS
  <2>1. \A v \in VThread : valid[v].pc # "get" => valid[v].msg \in Msg
    BY DEF ValidTyped
  <2> QED  BY <1>0, <1>a, <2>1 DEF ValidAt
<1>6. Far(at, x, q, "p4") /\ UNCHANGED p4_que => P4At(at2)'
  <2>1. \A m \in MThread : p4_que[m] \in Seq(Msg)
    BY CancelQueue
  <2> QED  BY <1>a, <2>1, QueueKeeps DEF P4At
<1>7. Far(at, x, q, "p3") /\ UNCHANGED p3_que => P3At(at2)'
  BY <1>a, TasksKeep DEF P3At, QuesTyped
<1>8. Far(at, x, q, "match") /\ UNCHANGED match => MatchAt(at2)'
  <2>1. \A m \in MThread : match[m].pc # "get" => match[m].msg \in Msg
    BY DEF MatchTyped, Order, Cancel
  <2> QED  BY <1>0, <1>a, <2>1 DEF MatchAt
<1> QED  BY <1>0, <1>1, <1>2, <1>3, <1>4, <1>5, <1>6, <1>7, <1>8

-----------------------------------------------------------------------------
(* Reports.                                                                *)

\* The report buffer after a push.
LEMMA PushedBuffer ==
    ASSUME ReportsTyped, NEW r \in ReportType, PushBack(r)
    PROVE  /\ Len(g_outMsg_buffer) \in Nat
           /\ Len(g_outMsg_buffer') = Len(g_outMsg_buffer) + 1
           /\ \A i \in 1..Len(g_outMsg_buffer) : g_outMsg_buffer'[i] = g_outMsg_buffer[i]
           /\ \A i \in 1..Len(g_outMsg_buffer) : g_outMsg_buffer[i] \in ReportType
           /\ g_outMsg_buffer'[Len(g_outMsg_buffer) + 1] = r
           /\ \A i \in 1..Len(g_outMsg_buffer') :
                i \in 1..Len(g_outMsg_buffer) \/ i = Len(g_outMsg_buffer) + 1
BY DEF PushBack, ReportsTyped

\* The totals after a push.
LEMMA PushedQty ==
    ASSUME ReportsTyped, NEW r \in ReportType, PushBack(r), NEW x \in Order
    PROVE  /\ execQty[x] \in Nat /\ cxlQty[x] \in Nat /\ r.last \in Nat
           /\ execQty'[x] = IF r.kind = "Trade" /\ r.order = x
                            THEN execQty[x] + r.last ELSE execQty[x]
           /\ cxlQty'[x] = IF r.kind = "Cancelled" /\ r.order = x
                           THEN cxlQty[x] + r.last ELSE cxlQty[x]
BY DEF PushBack, ReportsTyped, ReportType

\* A step that reports nothing: messages it refuses end there, and what
\* becomes ready is confirmed.
LEMMA QuietTold ==
    ASSUME ReportsTyped, NEW at \in [Msg -> Place], NEW at2 \in [Msg -> Place],
           Told(at), UNCHANGED reports,
           \A y \in Msg : at[y] = Gone => at2[y] = Gone,
           \A y \in Order : at2[y][1] \in Early => at[y][1] \in Early,
           \A y \in Order : at2[y][1] \in Late => at[y][1] \in Late \/ Confirmed(y),
           repeated' \cup ignored' \subseteq
               repeated \cup ignored \cup {y \in Msg : at[y] # Gone /\ at2[y] = Gone},
           repeated \cup ignored \subseteq Msg
    PROVE  Told(at2)'
<1> USE DEF Told, reports
<1>0. /\ Len(g_outMsg_buffer) \in Nat
      /\ \A i \in 1..Len(g_outMsg_buffer) :
            g_outMsg_buffer[i].msg \in Msg /\ g_outMsg_buffer[i].order \in Msg
  <2>1. g_outMsg_buffer \in Seq(ReportType)
    BY DEF ReportsTyped
  <2>2. \A i \in 1..Len(g_outMsg_buffer) : g_outMsg_buffer[i] \in ReportType
    BY <2>1
  <2> QED  BY <2>1, <2>2 DEF ReportType
<1>1. EarlyUntraded(at2)' /\ WithinQty'
  BY DEF EarlyUntraded, WithinQty
<1>2. LateConfirmed(at2)'
  BY DEF LateConfirmed, Confirmed
<1>3. RefusedGone(at2)'
  BY DEF RefusedGone
<1>4. FinalGone(at2)'
  BY <1>0 DEF FinalGone, Final
<1>5. CancelsAnswered(at2)'
  BY <1>0 DEF CancelsAnswered
<1>6. ConfirmFirst' /\ NothingAfterFinal'
  BY DEF ConfirmFirst, NothingAfterFinal, Final
<1> QED  BY <1>1, <1>2, <1>3, <1>4, <1>5, <1>6

\* A step that pushes the report r.
LEMMA PushTold ==
    ASSUME ReportsTyped, NEW at \in [Msg -> Place], NEW at2 \in [Msg -> Place],
           NEW r \in ReportType,
           Told(at), PushBack(r), UNCHANGED refusal,
           repeated \cup ignored \subseteq Msg,
           \A y \in Msg : at[y] = Gone => at2[y] = Gone,
           \A y \in Order : at2[y][1] \in Early => at[y][1] \in Early,
           \A y \in Order : at2[y][1] \in Late =>
               at[y][1] \in Late \/ (r.kind = "New" /\ r.order = y),
           r.kind # "CxlReject" => at[r.order] # Gone,
           r.kind \in {"Trade", "Cancelled"} =>
               /\ r.order \in Order /\ Confirmed(r.order)
               /\ at2[r.order][1] \notin Early
               /\ execQty[r.order] + cxlQty[r.order] + r.last <= r.order.qty,
           Final(r) => at2[r.order] = Gone,
           r.msg \in Cancel => at[r.msg] # Gone /\ at2[r.msg] = Gone
    PROVE  Told(at2)'
<1> DEFINE g == g_outMsg_buffer
           n == Len(g_outMsg_buffer)
<1> USE DEF Told
<1>0. /\ n \in Nat /\ Len(g') = n + 1
      /\ \A i \in 1..n : g'[i] = g[i] /\ g[i] \in ReportType
      /\ \A i \in 1..n : g[i].msg \in Msg /\ g[i].order \in Msg
      /\ g'[n + 1] = r /\ r.msg \in Msg /\ r.order \in Msg
      /\ \A i \in 1..n + 1 : i \in 1..n \/ i = n + 1
  BY PushedBuffer DEF ReportType
<1>r. UNCHANGED <<repeated, ignored>>
  BY DEF refusal
<1>1. EarlyUntraded(at2)'
  BY PushedQty DEF EarlyUntraded
<1>2. WithinQty'
  BY PushedQty, MessageFields DEF WithinQty, Order
<1>3. \A y : Confirmed(y) => Confirmed(y)'
  BY <1>0 DEF Confirmed
<1>4. LateConfirmed(at2)'
  BY <1>0, <1>3 DEF LateConfirmed, Confirmed
<1>5. RefusedGone(at2)'
  BY <1>r DEF RefusedGone
<1>6. FinalGone(at2)'
  BY <1>0 DEF FinalGone, Final
<1>7. CancelsAnswered(at2)'
  BY <1>0, <1>r DEF CancelsAnswered, RefusedGone
<1>8. ConfirmFirst'
  BY <1>0 DEF ConfirmFirst, Confirmed
<1>9. NothingAfterFinal'
  BY <1>0 DEF NothingAfterFinal, FinalGone, Final
<1> QED  BY <1>1, <1>2, <1>4, <1>5, <1>6, <1>7, <1>8, <1>9

\* A message moves and nothing is reported.
LEMMA QuietMove ==
    ASSUME TypeInv, NEW at \in [Msg -> Place], Told(at), UNCHANGED reports,
           NEW x \in Msg, NEW a, NEW i, at[x] = <<a, i>>, a # "gone",
           NEW b, NEW j, <<b, j>> \in Place,
           b \in Early => a \in Early,
           x \in Order /\ b \in Late => a \in Late \/ Confirmed(x),
           \/ UNCHANGED refusal
           \/ <<b, j>> = Gone /\ repeated' \cup ignored' \subseteq repeated \cup ignored \cup {x}
    PROVE  Told([at EXCEPT ![x] = <<b, j>>])'
<1> DEFINE at2 == [at EXCEPT ![x] = <<b, j>>]
<1>1. /\ at2 \in [Msg -> Place] /\ at2[x] = <<b, j>> /\ \A y \in Msg \ {x} : at2[y] = at[y]
      /\ at[x] # Gone
  BY DEF Gone
<1>2. \A y \in Order : y \in Msg
  BY DEF Order
<1>3. repeated' \cup ignored' \subseteq
          repeated \cup ignored \cup {y \in Msg : at[y] # Gone /\ at2[y] = Gone}
  BY <1>1 DEF refusal
<1>4. ReportsTyped /\ repeated \cup ignored \subseteq Msg
  BY DEF TypeInv, InputTyped
<1>a. at[x][1] = a /\ at2[x][1] = b
  BY <1>1
<1> HIDE DEF at2
<1>5. /\ \A y \in Msg : at[y] = Gone => at2[y] = Gone
      /\ \A y \in Order : at2[y][1] \in Early => at[y][1] \in Early
      /\ \A y \in Order : at2[y][1] \in Late => at[y][1] \in Late \/ Confirmed(y)
  BY <1>1, <1>2, <1>a
<1>6. Told(at2)'
  BY <1>1, <1>3, <1>4, <1>5, QuietTold
<1> QED  BY <1>6 DEF at2

\* A message moves and a report of it is pushed.
LEMMA PushMove ==
    ASSUME TypeInv, NEW at \in [Msg -> Place], Told(at), UNCHANGED refusal,
           NEW x \in Msg, NEW a, NEW i, at[x] = <<a, i>>, a # "gone",
           NEW b, NEW j, <<b, j>> \in Place,
           NEW r \in ReportType, PushBack(r), r.msg = x, r.order = x, r.kind # "Cancelled",
           b \in Early => a \in Early,
           b \in Late => a \in Late \/ r.kind = "New",
           r.kind = "Trade" =>
               /\ x \in Order /\ Confirmed(x) /\ b \notin Early
               /\ execQty[x] + cxlQty[x] + r.last <= x.qty,
           Final(r) \/ x \in Cancel => <<b, j>> = Gone
    PROVE  Told([at EXCEPT ![x] = <<b, j>>])'
<1> DEFINE at2 == [at EXCEPT ![x] = <<b, j>>]
<1>1. /\ at2 \in [Msg -> Place] /\ at2[x] = <<b, j>> /\ \A y \in Msg \ {x} : at2[y] = at[y]
      /\ at[x] # Gone
  BY DEF Gone
<1>2. \A y \in Order : y \in Msg
  BY DEF Order
<1>3. ReportsTyped /\ repeated \cup ignored \subseteq Msg
  BY DEF TypeInv, InputTyped
<1>4. at[x][1] = a /\ at2[x][1] = b
  BY <1>1
<1> HIDE DEF at2
<1>5. /\ \A y \in Msg : at[y] = Gone => at2[y] = Gone
      /\ \A y \in Order : at2[y][1] \in Early => at[y][1] \in Early
      /\ \A y \in Order : at2[y][1] \in Late =>
            at[y][1] \in Late \/ (r.kind = "New" /\ r.order = y)
  BY <1>1, <1>2, <1>4
<1>6. r.kind \in {"Trade", "Cancelled"} =>
        /\ r.order \in Order /\ Confirmed(r.order) /\ at2[r.order][1] \notin Early
        /\ execQty[r.order] + cxlQty[r.order] + r.last <= r.order.qty
  BY <1>4
<1>7. /\ r.kind # "CxlReject" => at[r.order] # Gone
      /\ Final(r) => at2[r.order] = Gone
      /\ r.msg \in Cancel => at[r.msg] # Gone /\ at2[r.msg] = Gone
  BY <1>1
<1>8. Told(at2)'
  BY <1>1, <1>3, <1>5, <1>6, <1>7, PushTold
<1> QED  BY <1>8 DEF at2

-----------------------------------------------------------------------------
(* Every step keeps the invariant: the clients and the distribute thread.  *)

\* The places of the distribute thread's way.
LEMMA Places ==
    /\ Gone \in Place /\ <<"new", 0>> \in Place /\ <<"in", 0>> \in Place
    /\ <<"dist", 0>> \in Place
    /\ \A v \in VThread : /\ <<"validQue", v>> \in Place
                          /\ <<"valid", v>> \in Place /\ <<"ready", v>> \in Place
    /\ \A m \in MThread : /\ <<"p4", m>> \in Place /\ <<"p3", m>> \in Place
                          /\ <<"match", m>> \in Place
BY DEF Place, Gone, Early, Late, VThread, MThread

\* The invariant is one about the places once the rest is known.
LEMMA MoveInv ==
    ASSUME TypeInv', Served', OpenTasks', NEW at \in [Msg -> Place],
           NEW x \in Msg, NEW q \in Place,
           Located([at EXCEPT ![x] = q])', Told([at EXCEPT ![x] = q])'
    PROVE  FlowInv'
<1>1. [at EXCEPT ![x] = q] \in [Msg -> Place]
  OBVIOUS
<1> QED  BY <1>1 DEF FlowInv

\* Matching tasks that a step leaves alone.
LEMMA SameTasks ==
    ASSUME Served, OpenTasks, UNCHANGED <<matchQs, match, execQty, cxlQty>>
    PROVE  Served' /\ OpenTasks'
BY DEF Served, ServedQueues, ServedHands, OpenTasks, OpenQueues, OpenHands, Open, matchQs

\* A client sends a message: it is in the input buffer now.
LEMMA ArriveKeeps == ASSUME FlowInv, NEW x \in Msg, Arrive(x) PROVE FlowInv'
<1>0. TypeInv /\ TypeInv'
  BY DistTyped DEF FlowInv
<1>1. PICK at \in [Msg -> Place] : Located(at) /\ Told(at)
  BY DEF FlowInv
<1> DEFINE at2 == [at EXCEPT ![x] = <<"in", 0>>]
<1>2. at[x] = <<"new", 0>>
  BY <1>1 DEF Located, NewAt, Arrive
<1>3. Served' /\ OpenTasks'
  BY SameTasks DEF FlowInv, Arrive, reports
<1>4. NewAt(at2)'
  BY <1>1 DEF NewAt, Located, Arrive
<1>5. InAt(at2)'
  <2>1. g_inMsg_buffer \in Seq(Msg) /\ InAt(at)
    BY <1>0, <1>1 DEF Located, TypeInv, InputTyped
  <2>2. at[x] # <<"in", 0>>
    BY <1>2
  <2>3. QueueAt(Append(g_inMsg_buffer, x), at2, <<"in", 0>>)
    BY <2>1, <2>2, QueueGets, Places DEF InAt
  <2> QED  BY <2>3 DEF InAt, Arrive
<1>6. Located(at2)'
  <2>1. /\ DistAt(at2)' /\ ValidQueAt(at2)' /\ ValidAt(at2)' /\ P4At(at2)' /\ P3At(at2)'
        /\ MatchAt(at2)'
    <3>1. \A s \in {"dist", "validQue", "valid", "ready", "p4", "p3", "match"} :
             Far(at, x, <<"in", 0>>, s)
      BY <1>2 DEF Far
    <3> QED  BY <1>0, <1>1, <3>1, Places, Unconcerned DEF Arrive, matchQs
  <2> QED  BY <1>4, <1>5, <2>1 DEF Located
<1>7. Told(at2)'
  BY <1>0, <1>1, <1>2, Places, QuietMove DEF Arrive, Early, Late
<1> QED  BY <1>0, <1>3, <1>6, <1>7, Places, MoveInv

\* A step on which no message moves.
LEMMA StayKeeps ==
    ASSUME FlowInv, TypeInv', UNCHANGED <<input, validQue, matchQs, reports, refusal>>,
           dist'.msg = dist.msg,
           \A v \in VThread :
             /\ valid'[v].msg = valid[v].msg
             /\ valid'[v].pc \in {"check", "validate", "confirm"} =>
                    valid[v].pc \in {"check", "validate", "confirm"}
             /\ valid'[v].pc \in {"record", "gen"} => valid[v].pc \in {"record", "gen"},
           \A m \in MThread :
             /\ match'[m].msg = match[m].msg /\ match'[m].leaves = match[m].leaves
             /\ match'[m].pc # "get" => match[m].pc # "get"
             /\ match'[m].pc \in {"trade", "requeue"} => match[m].pc \in {"trade", "requeue"}
    PROVE  FlowInv'
<1>1. PICK at \in [Msg -> Place] : Located(at) /\ Told(at)
  BY DEF FlowInv
<1>2. Served' /\ OpenTasks'
  BY DEF FlowInv, Served, ServedQueues, ServedHands, OpenTasks, OpenQueues, OpenHands,
         Open, matchQs, reports
<1>3. NewAt(at)' /\ InAt(at)' /\ DistAt(at)' /\ ValidQueAt(at)' /\ P4At(at)' /\ P3At(at)'
  BY <1>1 DEF Located, NewAt, InAt, DistAt, ValidQueAt, P4At, P3At, input, matchQs
<1>4. ValidAt(at)' /\ MatchAt(at)'
  BY <1>1 DEF Located, ValidAt, MatchAt
<1>5. Told(at)'
  <2>1. ReportsTyped /\ repeated \cup ignored \subseteq Msg
    BY DEF FlowInv, TypeInv, InputTyped
  <2>2. UNCHANGED reports /\ repeated' \cup ignored' = repeated \cup ignored
    BY DEF refusal
  <2> QED  BY <1>1, <2>1, <2>2, QuietTold
<1> QED  BY <1>1, <1>2, <1>3, <1>4, <1>5 DEF FlowInv, Located

\* The distribute thread takes a message on to a validating thread.
LEMMA DistKeeps == ASSUME FlowInv, DistStep PROVE FlowInv'
<1>0. TypeInv /\ TypeInv' /\ InputTyped
  BY DistTyped DEF FlowInv, TypeInv
<1>1. PICK at \in [Msg -> Place] : Located(at) /\ Told(at)
  BY DEF FlowInv
<1>2. Served' /\ OpenTasks'
  BY SameTasks DEF FlowInv, DistStep, Dist_Pop, Dist_Scan, Dist_Assign, reports
<1>3. CASE Dist_Pop
  <2>0. /\ g_inMsg_buffer \in Seq(Msg) /\ g_inMsg_buffer # <<>>
        /\ QueueAt(g_inMsg_buffer, at, <<"in", 0>>)
    BY <1>0, <1>1, <1>3 DEF Dist_Pop, Located, InAt, InputTyped
  <2>a. PICK x \in Msg : x = Head(g_inMsg_buffer)
    BY <2>0
  <2> DEFINE at2 == [at EXCEPT ![x] = <<"dist", 0>>]
  <2>1. at[x] = <<"in", 0>> /\ QueueAt(Tail(g_inMsg_buffer), at2, <<"in", 0>>)
    <3>1. <<"dist", 0>> # <<"in", 0>>
      OBVIOUS
    <3> QED  BY <2>0, <2>a, <3>1, Places, QueueLoses
  <2>2. InAt(at2)' /\ DistAt(at2)'
    BY <1>3, <2>a, <2>1 DEF Dist_Pop, InAt, DistAt
  <2>3. \A s \in {"new", "validQue", "valid", "ready", "p4", "p3", "match"} :
           Far(at, x, <<"dist", 0>>, s)
    BY <2>1 DEF Far
  <2>4. Located(at2)'
    <3>1. /\ NewAt(at2)' /\ ValidQueAt(at2)' /\ ValidAt(at2)' /\ P4At(at2)' /\ P3At(at2)'
          /\ MatchAt(at2)'
      BY <1>0, <1>1, <1>3, <2>1, <2>3, Places, Unconcerned DEF Dist_Pop, matchQs
    <3> QED  BY <2>2, <3>1 DEF Located
  <2>5. Told(at2)'
    BY <1>0, <1>1, <1>3, <2>1, Places, QuietMove DEF Dist_Pop, Early, Late
  <2> QED  BY <1>0, <1>2, <2>1, <2>4, <2>5, Places, MoveInv
<1>4. CASE Dist_Scan
  <2>1. dist'.msg = dist.msg
    BY <1>0, <1>4 DEF Dist_Scan, InputTyped
  <2> QED  BY <1>0, <1>4, <2>1, StayKeeps DEF Dist_Scan
<1>5. CASE Dist_Assign
  <2>a. PICK x \in Msg, v \in VThread : x = dist.msg /\ v = dist.best
    BY <1>0, <1>5 DEF Dist_Assign, InputTyped
  <2> DEFINE at2 == [at EXCEPT ![x] = <<"validQue", v>>]
  <2>1. at[x] = <<"dist", 0>>
    BY <1>1, <1>5, <2>a DEF Dist_Assign, Located, DistAt
  <2>2. DistAt(at2)'
    BY <1>0, <1>5 DEF Dist_Assign, DistAt, InputTyped
  <2>3. ValidQueAt(at2)'
    <3> SUFFICES ASSUME NEW w \in VThread
                 PROVE  QueueAt(validQue'[w], at2, <<"validQue", w>>)
      BY DEF ValidQueAt
    <3>1. validQue[w] \in Seq(Msg) /\ QueueAt(validQue[w], at, <<"validQue", w>>)
          /\ at[x] # <<"validQue", w>>
      BY <1>0, <1>1, <2>1 DEF InputTyped, Located, ValidQueAt
    <3>2. CASE w = v
      <4>1. validQue'[w] = Append(validQue[w], x)
        BY <1>0, <1>5, <2>a, <3>2 DEF Dist_Assign, InputTyped
      <4> QED  BY <2>1, <3>1, <3>2, <4>1, Places, QueueGets
    <3>3. CASE w # v
      <4>1. validQue'[w] = validQue[w] /\ <<"validQue", v>> # <<"validQue", w>>
        BY <1>0, <1>5, <2>a, <3>3 DEF Dist_Assign, InputTyped
      <4> QED  BY <2>1, <3>1, <4>1, Places, QueueKeeps
    <3> QED  BY <3>2, <3>3
  <2>4. \A s \in {"new", "in", "valid", "ready", "p4", "p3", "match"} :
           Far(at, x, <<"validQue", v>>, s)
    BY <2>1 DEF Far
  <2>5. Located(at2)'
    <3>1. /\ NewAt(at2)' /\ InAt(at2)' /\ ValidAt(at2)' /\ P4At(at2)' /\ P3At(at2)'
          /\ MatchAt(at2)'
      BY <1>0, <1>1, <1>5, <2>1, <2>4, Places, Unconcerned DEF Dist_Assign, input, matchQs
    <3> QED  BY <2>2, <2>3, <3>1 DEF Located
  <2>6. Told(at2)'
    BY <1>0, <1>1, <1>5, <2>1, Places, QuietMove DEF Dist_Assign, Early, Late
  <2> QED  BY <1>0, <1>2, <2>1, <2>5, <2>6, Places, MoveInv
<1> QED  BY <1>3, <1>4, <1>5 DEF DistStep

-----------------------------------------------------------------------------
(* ... the validating threads.                                             *)

\* The hands of the validating threads after thread v has changed its own.
LEMMA ValidAfter ==
    ASSUME TypeInv, NEW at \in [Msg -> Place], ValidAt(at),
           NEW x \in Msg, NEW q \in Place,
           NEW v \in VThread, NEW h, valid' = [valid EXCEPT ![v] = h],
           \A w \in VThread : w # v => at[x] # <<"valid", w>> /\ at[x] # <<"ready", w>>,
           h.pc = "get" \/ h.msg = x,
           h.pc \in {"check", "validate", "confirm"} => q = <<"valid", v>>,
           h.pc \in {"record", "gen"} => q = <<"ready", v>>
    PROVE  ValidAt([at EXCEPT ![x] = q])'
<1> DEFINE at2 == [at EXCEPT ![x] = q]
<1>a. at2[x] = q /\ \A y \in Msg : y # x => at2[y] = at[y]
  OBVIOUS
<1> HIDE DEF at2
<1> SUFFICES ValidAt(at2)'
  BY DEF at2
<1> USE DEF ValidAt
<1> SUFFICES ASSUME NEW w \in VThread
             PROVE  /\ valid'[w].pc \in {"check", "validate", "confirm"} =>
                           at2[valid'[w].msg] = <<"valid", w>>
                    /\ valid'[w].pc \in {"record", "gen"} =>
                           at2[valid'[w].msg] = <<"ready", w>>
  OBVIOUS
<1>1. CASE w = v
  <2>1. valid'[v] = h
    BY DEF TypeInv, ValidTyped
  <2> QED  BY <1>a, <1>1, <2>1
<1>2. CASE w # v
  <2>1. valid'[w] = valid[w]
    BY <1>2 DEF TypeInv, ValidTyped
  <2>2. valid[w].pc # "get" => valid[w].msg \in Msg
    BY DEF TypeInv, ValidTyped
  <2>3. CASE valid[w].pc \in {"check", "validate", "confirm"}
    BY <1>a, <1>2, <2>1, <2>2, <2>3
  <2>4. CASE valid[w].pc \in {"record", "gen"}
    BY <1>a, <1>2, <2>1, <2>2, <2>4
  <2> QED  BY <2>1, <2>3, <2>4
<1> QED  BY <1>1, <1>2

\* Valid_Get: from the queue to the hands of the thread.
LEMMA ValidGetKeeps ==
    ASSUME FlowInv, NEW v \in VThread, Valid_Get(v), TypeInv' PROVE FlowInv'
<1>0. TypeInv /\ InputTyped
  BY DEF FlowInv, TypeInv
<1>1. PICK at \in [Msg -> Place] : Located(at) /\ Told(at)
  BY DEF FlowInv
<1>2. Served' /\ OpenTasks'
  BY SameTasks DEF FlowInv, Valid_Get, reports
<1>3. /\ validQue[v] \in Seq(Msg) /\ validQue[v] # <<>>
      /\ QueueAt(validQue[v], at, <<"validQue", v>>)
  BY <1>0, <1>1 DEF Valid_Get, Located, ValidQueAt, InputTyped
<1>4. PICK x \in Msg : x = Head(validQue[v])
  BY <1>3
<1> DEFINE at2 == [at EXCEPT ![x] = <<"valid", v>>]
<1>5. at[x] = <<"validQue", v>> /\ QueueAt(Tail(validQue[v]), at2, <<"validQue", v>>)
  <2>1. <<"valid", v>> # <<"validQue", v>>
    OBVIOUS
  <2> QED  BY <1>3, <1>4, <2>1, Places, QueueLoses
<1>6. ValidQueAt(at2)'
  <2>1. ASSUME NEW w \in VThread, w # v PROVE QueueAt(validQue'[w], at2, <<"validQue", w>>)
    <3>1. /\ validQue[w] \in Seq(Msg) /\ QueueAt(validQue[w], at, <<"validQue", w>>)
          /\ at[x] # <<"validQue", w>> /\ <<"valid", v>> # <<"validQue", w>>
          /\ validQue'[w] = validQue[w]
      BY <1>0, <1>1, <1>5, <2>1 DEF InputTyped, Located, ValidQueAt, Valid_Get
    <3> QED  BY <3>1, Places, QueueKeeps
  <2>2. validQue'[v] = Tail(validQue[v])
    BY <1>0 DEF InputTyped, Valid_Get
  <2> QED  BY <1>5, <2>1, <2>2 DEF ValidQueAt
<1>7. ValidAt(at2)'
  <2>1. valid' = [valid EXCEPT ![v] = [msg |-> x, pc |-> "check"]]
    BY <1>4 DEF Valid_Get
  <2>2. \A w \in VThread : at[x] # <<"valid", w>> /\ at[x] # <<"ready", w>>
    BY <1>5
  <2> QED  BY <1>0, <1>1, <2>1, <2>2, Places, ValidAfter DEF Located
<1>8. Located(at2)'
  <2>1. \A s \in {"new", "in", "dist", "p4", "p3", "match"} : Far(at, x, <<"valid", v>>, s)
    BY <1>5 DEF Far
  <2>2. /\ NewAt(at2)' /\ InAt(at2)' /\ DistAt(at2)' /\ P4At(at2)' /\ P3At(at2)'
        /\ MatchAt(at2)'
    BY <1>0, <1>1, <2>1, Places, Unconcerned DEF Valid_Get, input, matchQs
  <2> QED  BY <1>6, <1>7, <2>2 DEF Located
<1>9. Told(at2)'
  BY <1>0, <1>1, <1>5, Places, QuietMove DEF Valid_Get, Early, Late
<1> QED  BY <1>2, <1>8, <1>9, Places, MoveInv

\* Validating thread v is done with its message without handing it on.
LEMMA ValidDrops ==
    ASSUME FlowInv, TypeInv', NEW v \in VThread, DoneWith(v),
           valid[v].pc \in {"check", "validate"},
           UNCHANGED <<input, dist, validQue, redis, matchQs, match>>,
           \/ /\ UNCHANGED reports
              /\ repeated' \cup ignored' \subseteq repeated \cup ignored \cup {valid[v].msg}
           \/ /\ PushBack(Report(valid[v].msg, valid[v].msg, "Error", 0, 0, 0))
              /\ UNCHANGED refusal
    PROVE  FlowInv'
<1>0. TypeInv /\ ValidTyped /\ ReportsTyped
  BY DEF FlowInv, TypeInv
<1>1. PICK at \in [Msg -> Place] : Located(at) /\ Told(at)
  BY DEF FlowInv
<1>2. PICK x \in Msg : x = valid[v].msg
  BY <1>0 DEF ValidTyped
<1> DEFINE at2 == [at EXCEPT ![x] = <<"gone", 0>>]
<1>3. at[x] = <<"valid", v>> /\ Gone = <<"gone", 0>> /\ <<"gone", 0>> \in Place
  BY <1>1, <1>2, Places DEF Located, ValidAt, Gone
<1>4. ValidAt(at2)'
  <2>1. valid' = [valid EXCEPT ![v] = Idle("get")] /\ Idle("get").pc = "get"
    BY DEF DoneWith, Idle
  <2>2. \A w \in VThread : w # v => at[x] # <<"valid", w>> /\ at[x] # <<"ready", w>>
    BY <1>3
  <2> QED  BY <1>0, <1>1, <1>3, <2>1, <2>2, ValidAfter DEF Located
<1>5. Located(at2)'
  <2>1. \A s \in {"new", "in", "dist", "validQue", "p4", "p3", "match"} :
           Far(at, x, <<"gone", 0>>, s)
    BY <1>3 DEF Far
  <2>2. /\ NewAt(at2)' /\ InAt(at2)' /\ DistAt(at2)' /\ ValidQueAt(at2)' /\ P4At(at2)'
        /\ P3At(at2)' /\ MatchAt(at2)'
    BY <1>0, <1>1, <1>3, <2>1, Unconcerned DEF input, matchQs
  <2> QED  BY <1>4, <2>2 DEF Located
<1>6. CASE /\ UNCHANGED reports
           /\ repeated' \cup ignored' \subseteq repeated \cup ignored \cup {x}
  <2>1. Served' /\ OpenTasks'
    BY <1>6, SameTasks DEF FlowInv, reports
  <2>2. Told(at2)'
    BY <1>0, <1>1, <1>3, <1>6, QuietMove DEF Early, Late
  <2> QED  BY <1>3, <1>5, <2>1, <2>2, MoveInv
<1>7. CASE PushBack(Report(x, x, "Error", 0, 0, 0)) /\ UNCHANGED refusal
  <2> DEFINE r == Report(x, x, "Error", 0, 0, 0)
  <2>1. /\ r \in ReportType /\ r.msg = x /\ r.order = x /\ r.kind = "Error"
        /\ execQty' = execQty /\ cxlQty' = cxlQty
    BY <1>7 DEF Report, ReportType, ReportKind, PushBack
  <2>2. Served' /\ OpenTasks'
    BY <2>1, SameTasks DEF FlowInv
  <2> HIDE DEF r
  <2>3. Told(at2)'
    BY <1>0, <1>1, <1>3, <1>7, <2>1, PushMove DEF Early, Late, r
  <2> QED  BY <1>3, <1>5, <2>2, <2>3, MoveInv
<1> QED  BY <1>2, <1>6, <1>7

\* Validating thread v has its message ready.
LEMMA ValidReadies ==
    ASSUME FlowInv, TypeInv', NEW v \in VThread, GoTo(v, "record"),
           valid[v].pc \in {"validate", "confirm"},
           UNCHANGED <<input, dist, validQue, redis, matchQs, match, refusal>>,
           \/ UNCHANGED reports /\ (valid[v].msg \in Order => valid[v].msg.mode = "Err")
           \/ /\ PushBack(Report(valid[v].msg, valid[v].msg, "New", 0, valid[v].msg.qty, 0))
              /\ valid[v].msg \in Order
    PROVE  FlowInv'
<1>0. TypeInv /\ ValidTyped /\ ReportsTyped
  BY DEF FlowInv, TypeInv
<1>1. PICK at \in [Msg -> Place] : Located(at) /\ Told(at)
  BY DEF FlowInv
<1>2. PICK x \in Msg : x = valid[v].msg
  BY <1>0 DEF ValidTyped
<1> DEFINE at2 == [at EXCEPT ![x] = <<"ready", v>>]
<1>3. at[x] = <<"valid", v>>
  BY <1>1, <1>2 DEF Located, ValidAt
<1>4. ValidAt(at2)'
  <2>1. valid' = [valid EXCEPT ![v] = [msg |-> x, pc |-> "record"]]
    <3>1. valid[v] \in [msg : Msg \cup {None},
                        pc : {"get", "check", "validate", "confirm", "record", "gen"}]
      BY <1>0 DEF ValidTyped
    <3>2. [valid[v] EXCEPT !.pc = "record"] = [msg |-> x, pc |-> "record"]
      BY <1>2, <3>1
    <3> QED  BY <3>2 DEF GoTo
  <2>2. \A w \in VThread : w # v => at[x] # <<"valid", w>> /\ at[x] # <<"ready", w>>
    BY <1>3
  <2> QED  BY <1>0, <1>1, <2>1, <2>2, Places, ValidAfter DEF Located
<1>5. Located(at2)'
  <2>1. \A s \in {"new", "in", "dist", "validQue", "p4", "p3", "match"} :
           Far(at, x, <<"ready", v>>, s)
    BY <1>3 DEF Far
  <2>2. /\ NewAt(at2)' /\ InAt(at2)' /\ DistAt(at2)' /\ ValidQueAt(at2)' /\ P4At(at2)'
        /\ P3At(at2)' /\ MatchAt(at2)'
    BY <1>0, <1>1, <2>1, Places, Unconcerned DEF input, matchQs
  <2> QED  BY <1>4, <2>2 DEF Located
<1>6. CASE UNCHANGED reports /\ (x \in Order => x.mode = "Err")
  <2>1. Served' /\ OpenTasks'
    BY <1>6, SameTasks DEF FlowInv, reports
  <2>2. Told(at2)'
    BY <1>0, <1>1, <1>3, <1>6, Places, QuietMove DEF Early, Late, Confirmed
  <2> QED  BY <1>5, <2>1, <2>2, Places, MoveInv
<1>7. CASE PushBack(Report(x, x, "New", 0, x.qty, 0)) /\ x \in Order
  <2> DEFINE r == Report(x, x, "New", 0, x.qty, 0)
  <2>1. /\ r \in ReportType /\ r.msg = x /\ r.order = x /\ r.kind = "New"
        /\ execQty' = execQty /\ cxlQty' = cxlQty
    BY <1>7, MessageFields DEF Report, ReportType, ReportKind, PushBack
  <2>2. Served' /\ OpenTasks'
    BY <2>1, SameTasks DEF FlowInv
  <2>3. x \notin Cancel /\ ~Final(r)
    BY <1>7, <2>1 DEF Order, Cancel, Final
  <2> HIDE DEF r
  <2>4. Told(at2)'
    BY <1>0, <1>1, <1>3, <1>7, <2>1, <2>3, Places, PushMove DEF Early, Late, r
  <2> QED  BY <1>5, <2>2, <2>4, Places, MoveInv
<1> QED  BY <1>2, <1>6, <1>7

\* A message handed to the matching thread of its key.
LEMMA GenPlaces ==
    ASSUME TypeInv, NEW at \in [Msg -> Place], P4At(at), P3At(at),
           ServedQueues, OpenQueues,
           NEW x \in Msg, NEW n \in 1..x.qty, GenTask_Match(x, n),
           \A m \in MThread : at[x] # <<"p4", m>> /\ at[x] # <<"p3", m>>,
           x.type # "F" => Open(x, n), UNCHANGED <<execQty, cxlQty>>,
           NEW q \in Place,
           q = IF x.type = "F" THEN <<"p4", ThreadOf(x)>> ELSE <<"p3", ThreadOf(x)>>
    PROVE  /\ P4At([at EXCEPT ![x] = q])' /\ P3At([at EXCEPT ![x] = q])'
           /\ ServedQueues' /\ OpenQueues'
<1> DEFINE at2 == [at EXCEPT ![x] = q]
           k == ThreadOf(x)
<1>0. /\ k \in MThread /\ QuesTyped
      /\ \A m \in MThread : p3_que[m] \in Seq(Task) /\ p4_que[m] \in Seq(Msg)
  BY ThreadOfIsThread, CancelQueue DEF TypeInv, QuesTyped
<1>1. CASE x.type = "F"
  <2>1. /\ q = <<"p4", k>> /\ UNCHANGED p3_que
        /\ p4_que' = [p4_que EXCEPT ![k] = Append(p4_que[k], x)]
    BY <1>1 DEF GenTask_Match
  <2>2. /\ p4_que'[k] = Append(p4_que[k], x)
        /\ \A m \in MThread : m # k => p4_que'[m] = p4_que[m] /\ q # <<"p4", m>>
        /\ \A m \in MThread : q # <<"p3", m>>
    BY <1>0, <2>1 DEF QuesTyped
  <2>3. P4At(at2)'
    <3>1. QueueAt(p4_que'[k], at2, <<"p4", k>>)
      BY <1>0, <2>1, <2>2, QueueGets DEF P4At
    <3>2. \A m \in MThread : m # k => QueueAt(p4_que'[m], at2, <<"p4", m>>)
      BY <1>0, <2>2, QueueKeeps DEF P4At
    <3> QED  BY <3>1, <3>2 DEF P4At
  <2>4. P3At(at2)'
    BY <1>0, <2>1, <2>2, TasksKeep DEF P3At
  <2>5. ServedQueues'
    <3>1. ASSUME NEW i \in 1..Len(p4_que'[k]) PROVE ThreadOf(p4_que'[k][i]) = k
      <4>1. i = Len(p4_que[k]) + 1 \/ (i \in 1..Len(p4_que[k]) /\ p4_que'[k][i] = p4_que[k][i])
        BY <1>0, <2>2
      <4>2. Append(p4_que[k], x)[Len(p4_que[k]) + 1] = x
        BY <1>0
      <4> QED  BY <1>0, <2>2, <4>1, <4>2 DEF ServedQueues
    <3> QED  BY <2>1, <2>2, <3>1 DEF ServedQueues
  <2>6. OpenQueues'
    BY <2>1 DEF OpenQueues, Open
  <2> QED  BY <2>3, <2>4, <2>5, <2>6
<1>2. CASE x.type # "F"
  <2> DEFINE t == [msg |-> x, leaves |-> n]
  <2>1. /\ q = <<"p3", k>> /\ UNCHANGED p4_que
        /\ p3_que' = [p3_que EXCEPT ![k] = Append(p3_que[k], t)]
    BY <1>2 DEF GenTask_Match
  <2>2. t \in Task /\ t.msg = x /\ t.leaves = n
    BY <1>2, MessageFields DEF Task, Cancel
  <2> HIDE DEF t
  <2>3. /\ p3_que'[k] = Append(p3_que[k], t)
        /\ \A m \in MThread : m # k => p3_que'[m] = p3_que[m] /\ q # <<"p3", m>>
        /\ \A m \in MThread : q # <<"p4", m>>
    BY <1>0, <2>1 DEF QuesTyped
  <2>4. P3At(at2)'
    <3>1. TasksAt(p3_que'[k], at2, <<"p3", k>>)
      <4>1. at[t.msg] # q /\ TasksAt(p3_que[k], at, q)
        BY <1>0, <2>1, <2>2 DEF P3At
      <4>2. TasksAt(Append(p3_que[k], t), [at EXCEPT ![t.msg] = q], q)
        BY <1>0, <2>2, <4>1, TasksGet
      <4> QED  BY <2>1, <2>2, <2>3, <4>2
    <3>2. \A m \in MThread : m # k => TasksAt(p3_que'[m], at2, <<"p3", m>>)
      BY <1>0, <2>3, TasksKeep DEF P3At
    <3> QED  BY <3>1, <3>2 DEF P3At
  <2>5. P4At(at2)'
    BY <1>0, <2>1, <2>3, QueueKeeps DEF P4At
  <2>6. ServedQueues' /\ OpenQueues'
    <3>1. ASSUME NEW i \in 1..Len(p3_que'[k])
          PROVE  /\ ThreadOf(p3_que'[k][i].msg) = k
                 /\ Open(p3_que'[k][i].msg, p3_que'[k][i].leaves)
      <4>1. i = Len(p3_que[k]) + 1 \/ (i \in 1..Len(p3_que[k]) /\ p3_que'[k][i] = p3_que[k][i])
        BY <1>0, <2>3
      <4>2. Append(p3_que[k], t)[Len(p3_que[k]) + 1] = t
        BY <1>0
      <4> QED  BY <1>0, <1>2, <2>2, <2>3, <4>1, <4>2 DEF ServedQueues, OpenQueues
    <3> QED  BY <2>1, <2>3, <3>1 DEF ServedQueues, OpenQueues, Open
  <2> QED  BY <2>4, <2>5, <2>6
<1> QED  BY <1>1, <1>2

\* Valid_Gen: on to the matching thread of the key.
LEMMA ValidGenKeeps ==
    ASSUME FlowInv, NEW v \in VThread, Valid_Gen(v), TypeInv' PROVE FlowInv'
<1>0. TypeInv /\ ValidTyped /\ ReportsTyped /\ Served /\ OpenTasks
  BY DEF FlowInv, TypeInv
<1>1. PICK at \in [Msg -> Place] : Located(at) /\ Told(at)
  BY DEF FlowInv
<1>2. PICK x \in Msg : x = valid[v].msg
  BY <1>0 DEF ValidTyped, Valid_Gen, AtValid
<1>3. at[x] = <<"ready", v>> /\ x.qty \in 1..x.qty /\ x.qty \in Nat
  BY <1>1, <1>2, MessageFields DEF Located, ValidAt, Valid_Gen, AtValid
<1> DEFINE b == IF x.type = "F" THEN "p4" ELSE "p3"
           at2 == [at EXCEPT ![x] = <<b, ThreadOf(x)>>]
<1>4. <<b, ThreadOf(x)>> \in Place
  BY Places, ThreadOfIsThread
<1>5. x.type # "F" => Open(x, x.qty)
  <2>1. x.type # "F" => x \in Order
    BY MessageFields DEF Cancel
  <2>2. at[x][1] \in Early
    BY <1>3 DEF Early
  <2> QED  BY <1>1, <1>3, <2>1, <2>2 DEF Told, EarlyUntraded, Open
<1>6. P4At(at2)' /\ P3At(at2)' /\ ServedQueues' /\ OpenQueues'
  <2>1. \A m \in MThread : at[x] # <<"p4", m>> /\ at[x] # <<"p3", m>>
    BY <1>3
  <2>2. GenTask_Match(x, x.qty) /\ UNCHANGED <<execQty, cxlQty>>
    BY <1>2 DEF Valid_Gen, reports
  <2>3. P4At(at) /\ P3At(at) /\ ServedQueues /\ OpenQueues
    BY <1>0, <1>1 DEF Located, Served, OpenTasks
  <2>4. <<b, ThreadOf(x)>> = IF x.type = "F" THEN <<"p4", ThreadOf(x)>> ELSE <<"p3", ThreadOf(x)>>
    OBVIOUS
  <2> HIDE DEF b
  <2> QED  BY <1>0, <1>3, <1>4, <1>5, <2>1, <2>2, <2>3, <2>4, GenPlaces
<1>7. Served' /\ OpenTasks'
  BY <1>0, <1>6 DEF Served, ServedHands, OpenTasks, OpenHands, Open, Valid_Gen, reports
<1>8. ValidAt(at2)'
  <2>1. valid' = [valid EXCEPT ![v] = Idle("get")] /\ Idle("get").pc = "get"
    BY DEF Valid_Gen, DoneWith, Idle
  <2>2. \A w \in VThread : w # v => at[x] # <<"valid", w>> /\ at[x] # <<"ready", w>>
    BY <1>3
  <2> HIDE DEF b
  <2> QED  BY <1>0, <1>1, <1>4, <2>1, <2>2, ValidAfter DEF Located
<1>9. Located(at2)'
  <2>1. \A s \in {"new", "in", "dist", "validQue", "match"} : Far(at, x, <<b, ThreadOf(x)>>, s)
    BY <1>3 DEF Far
  <2> HIDE DEF b
  <2>2. /\ NewAt(at2)' /\ InAt(at2)' /\ DistAt(at2)' /\ ValidQueAt(at2)' /\ MatchAt(at2)'
    BY <1>0, <1>1, <1>4, <2>1, Unconcerned DEF Valid_Gen, input
  <2> QED  BY <1>6, <1>8, <2>2 DEF Located
<1>10. Told(at2)'
  <2>1. b \notin Early /\ (b \in Late => "ready" \in Late)
    BY DEF Early, Late
  <2> HIDE DEF b
  <2> QED  BY <1>0, <1>1, <1>3, <1>4, <2>1, QuietMove DEF Valid_Gen
<1> HIDE DEF b
<1> QED  BY <1>4, <1>7, <1>9, <1>10, MoveInv

\* Every step of a validating thread.
LEMMA ValidKeeps == ASSUME FlowInv, NEW v \in VThread, ValidStep(v) PROVE FlowInv'
<1>0. TypeInv /\ TypeInv' /\ ValidTyped
  BY ValidStepTyped DEF FlowInv, TypeInv
<1>1. CASE Valid_Get(v)
  BY <1>0, <1>1, ValidGetKeeps
<1>2. CASE Valid_Check(v)
  <2>1. CASE GoTo(v, "validate") /\ UNCHANGED repeated
    <3>1. \A w \in VThread : /\ valid'[w].msg = valid[w].msg
                             /\ valid'[w].pc = valid[w].pc
                                \/ (valid'[w].pc = "validate" /\ valid[w].pc = "check")
      BY <1>0, <1>2, <2>1 DEF Valid_Check, AtValid, GoTo, ValidTyped
    <3> QED  BY <1>0, <1>2, <2>1, <3>1, StayKeeps DEF Valid_Check, refusal
  <2>2. CASE repeated' = repeated \cup {valid[v].msg} /\ DoneWith(v)
    BY <1>0, <1>2, <2>2, ValidDrops DEF Valid_Check, AtValid
  <2> QED  BY <1>2, <2>1, <2>2 DEF Valid_Check
<1>3. CASE Valid_Validate(v)
  <2> DEFINE x == valid[v].msg
  <2>1. CASE ignored' = ignored \cup {x} /\ DoneWith(v) /\ UNCHANGED reports
    BY <1>0, <1>3, <2>1, ValidDrops DEF Valid_Validate, AtValid
  <2>2. CASE PushBack(Report(x, x, "Error", 0, 0, 0)) /\ DoneWith(v) /\ UNCHANGED ignored
    BY <1>0, <1>3, <2>2, ValidDrops DEF Valid_Validate, AtValid, refusal
  <2>3. CASE GoTo(v, "confirm") /\ UNCHANGED <<reports, ignored>>
    <3>1. \A w \in VThread : /\ valid'[w].msg = valid[w].msg
                             /\ valid'[w].pc = valid[w].pc
                                \/ (valid'[w].pc = "confirm" /\ valid[w].pc = "validate")
      BY <1>0, <1>3, <2>3 DEF Valid_Validate, AtValid, GoTo, ValidTyped
    <3> QED  BY <1>0, <1>3, <2>3, <3>1, StayKeeps DEF Valid_Validate, refusal
  <2>4. CASE /\ GoTo(v, "record") /\ UNCHANGED <<reports, ignored>>
             /\ ~(x.type = "D" /\ x.mode # "Err")
    BY <1>0, <1>3, <2>4, ValidReadies DEF Valid_Validate, AtValid, refusal, Order
  <2> QED  BY <1>3, <2>1, <2>2, <2>3, <2>4 DEF Valid_Validate
<1>4. CASE Valid_Confirm(v)
  <2>1. valid[v].msg \in Order
    BY <1>0, <1>4 DEF ValidTyped, Valid_Confirm, AtValid
  <2> QED  BY <1>0, <1>4, <2>1, ValidReadies DEF Valid_Confirm, AtValid
<1>5. CASE Valid_Record(v)
  <2>1. \A w \in VThread : /\ valid'[w].msg = valid[w].msg
                           /\ valid'[w].pc = valid[w].pc
                              \/ (valid'[w].pc = "gen" /\ valid[w].pc = "record")
    BY <1>0, <1>5 DEF Valid_Record, AtValid, GoTo, ValidTyped
  <2> QED  BY <1>0, <1>5, <2>1, StayKeeps DEF Valid_Record
<1>6. CASE Valid_Gen(v)
  BY <1>0, <1>6, ValidGenKeeps
<1> QED  BY <1>1, <1>2, <1>3, <1>4, <1>5, <1>6 DEF ValidStep

-----------------------------------------------------------------------------
(* ... the matching threads.                                               *)

\* The hands of the matching threads after thread m has changed its own.
LEMMA MatchAfter ==
    ASSUME TypeInv, NEW at \in [Msg -> Place], MatchAt(at), ServedHands,
           NEW x \in Msg, NEW q \in Place,
           NEW m \in MThread, NEW h, match' = [match EXCEPT ![m] = h],
           \A k \in MThread : k # m => at[x] # <<"match", k>>,
           \/ h.pc = "get"
           \/ h.msg = x /\ q = <<"match", m>> /\ ThreadOf(x) = m
    PROVE  MatchAt([at EXCEPT ![x] = q])' /\ ServedHands'
<1> DEFINE at2 == [at EXCEPT ![x] = q]
<1>a. at2[x] = q /\ \A y \in Msg : y # x => at2[y] = at[y]
  OBVIOUS
<1> HIDE DEF at2
<1>0. /\ match'[m] = h /\ \A k \in MThread : k # m => match'[k] = match[k]
      /\ \A k \in MThread : match[k].pc # "get" => match[k].msg \in Msg
  BY DEF TypeInv, MatchTyped, Order, Cancel
<1>1. MatchAt(at2)'
  BY <1>a, <1>0 DEF MatchAt
<1>2. ServedHands'
  BY <1>0 DEF ServedHands, ThreadOf
<1> QED  BY <1>1, <1>2 DEF at2

\* GetTask: from the queue to the hands of the thread.
LEMMA MatchGetKeeps ==
    ASSUME FlowInv, NEW m \in MThread, Match_Get(m), TypeInv' PROVE FlowInv'
<1>0. TypeInv /\ QuesTyped /\ Served /\ OpenTasks
  BY DEF FlowInv, TypeInv
<1>1. PICK at \in [Msg -> Place] : Located(at) /\ Told(at)
  BY DEF FlowInv
<1>2. CASE /\ p4_que[m] # <<>> /\ p4_que' = [p4_que EXCEPT ![m] = Tail(@)]
           /\ UNCHANGED p3_que
           /\ match' = [match EXCEPT ![m] =
                          [msg |-> Head(p4_que[m]), leaves |-> 0, pc |-> "cancel"]]
  <2>1. p4_que[m] \in Seq(Msg) /\ QueueAt(p4_que[m], at, <<"p4", m>>)
    BY <1>0, <1>1, CancelQueue DEF Located, P4At
  <2>2. PICK x \in Msg : x = Head(p4_que[m])
    BY <1>2, <2>1
  <2> DEFINE at2 == [at EXCEPT ![x] = <<"match", m>>]
  <2>3. at[x] = <<"p4", m>> /\ QueueAt(Tail(p4_que[m]), at2, <<"p4", m>>)
    <3>1. <<"match", m>> # <<"p4", m>>
      OBVIOUS
    <3> QED  BY <1>2, <2>1, <2>2, <3>1, Places, QueueLoses
  <2>4. ThreadOf(x) = m
    BY <1>0, <1>2, <2>1, <2>2, PopTask DEF Served, ServedQueues
  <2>5. P4At(at2)'
    <3>1. ASSUME NEW k \in MThread, k # m PROVE QueueAt(p4_que'[k], at2, <<"p4", k>>)
      <4>1. /\ p4_que[k] \in Seq(Msg) /\ QueueAt(p4_que[k], at, <<"p4", k>>)
            /\ at[x] # <<"p4", k>> /\ <<"match", m>> # <<"p4", k>>
            /\ p4_que'[k] = p4_que[k]
        BY <1>0, <1>1, <1>2, <2>3, <3>1, CancelQueue DEF Located, P4At, QuesTyped
      <4> QED  BY <4>1, Places, QueueKeeps
    <3>2. p4_que'[m] = Tail(p4_que[m])
      BY <1>0, <1>2 DEF QuesTyped
    <3> QED  BY <2>3, <3>1, <3>2 DEF P4At
  <2>6. ServedQueues' /\ OpenQueues'
    <3>1. ASSUME NEW i \in 1..Len(p4_que'[m]) PROVE ThreadOf(p4_que'[m][i]) = m
      <4>1. i + 1 \in 1..Len(p4_que[m]) /\ p4_que'[m][i] = p4_que[m][i + 1]
        BY <1>0, <1>2, <2>1, PopTask DEF QuesTyped
      <4> QED  BY <1>0, <4>1 DEF Served, ServedQueues
    <3>2. ServedQueues'
      BY <1>0, <1>2, <3>1 DEF Served, ServedQueues, QuesTyped
    <3>3. OpenQueues'
      BY <1>0, <1>2 DEF OpenTasks, OpenQueues, Open, Match_Get, reports
    <3> QED  BY <3>2, <3>3
  <2>7. MatchAt(at2)' /\ ServedHands'
    <3>1. match' = [match EXCEPT ![m] = [msg |-> x, leaves |-> 0, pc |-> "cancel"]]
      BY <1>2, <2>2
    <3>2. \A k \in MThread : k # m => at[x] # <<"match", k>>
      BY <2>3
    <3> QED  BY <1>0, <1>1, <2>4, <3>1, <3>2, Places, MatchAfter DEF Located, Served
  <2>8. OpenHands'
    BY <1>0, <1>2 DEF OpenTasks, OpenHands, Open, Match_Get, reports, TypeInv, MatchTyped
  <2>9. Located(at2)'
    <3>1. \A s \in {"new", "in", "dist", "validQue", "valid", "ready", "p3"} :
             Far(at, x, <<"match", m>>, s)
      BY <2>3 DEF Far
    <3>2. /\ NewAt(at2)' /\ InAt(at2)' /\ DistAt(at2)' /\ ValidQueAt(at2)' /\ ValidAt(at2)'
          /\ P3At(at2)'
      BY <1>0, <1>1, <1>2, <3>1, Places, Unconcerned DEF Match_Get, input
    <3> QED  BY <2>5, <2>7, <3>2 DEF Located
  <2>10. Told(at2)'
    <3>1. x \notin Order
      <4>1. x \in Cancel
        BY <1>0, <1>2, <2>2 DEF QuesTyped
      <4> QED  BY <4>1 DEF Order, Cancel
    <3> QED  BY <1>0, <1>1, <2>3, <3>1, Places, QuietMove DEF Match_Get, Early, Late
  <2> QED  BY <2>6, <2>7, <2>8, <2>9, <2>10, Places, MoveInv DEF Served, OpenTasks
<1>3. CASE /\ p3_que[m] # <<>> /\ p3_que' = [p3_que EXCEPT ![m] = Tail(@)]
           /\ UNCHANGED p4_que
           /\ match' = [match EXCEPT ![m] =
                          [msg |-> Head(p3_que[m]).msg,
                           leaves |-> Head(p3_que[m]).leaves, pc |-> "trade"]]
  <2>1. /\ p3_que[m] \in Seq(Task) /\ TasksAt(p3_que[m], at, <<"p3", m>>)
        /\ 1 \in 1..Len(p3_que[m]) /\ Head(p3_que[m]) = p3_que[m][1]
        /\ \A i \in 1..Len(Tail(p3_que[m])) : /\ i + 1 \in 1..Len(p3_que[m])
                                              /\ Tail(p3_que[m])[i] = p3_que[m][i + 1]
    BY <1>0, <1>1, <1>3, PopTask DEF Located, P3At, QuesTyped
  <2>2. PICK x \in Msg : x = Head(p3_que[m]).msg /\ x \in Order
    BY <2>1, TaskMsg
  <2> DEFINE at2 == [at EXCEPT ![x] = <<"match", m>>]
  <2>3. at[x] = <<"p3", m>> /\ ThreadOf(x) = m /\ Open(x, Head(p3_que[m]).leaves)
    BY <1>0, <2>1, <2>2 DEF TasksAt, Served, ServedQueues, OpenTasks, OpenQueues
  <2>4. TasksAt(Tail(p3_que[m]), at2, <<"p3", m>>)
    <3>1. \A i \in 1..Len(p3_que[m]) : p3_que[m][i].msg \in Msg
      BY <2>1, TaskMsg
    <3>2. \A i \in 1..Len(Tail(p3_que[m])) :
             /\ Tail(p3_que[m])[i].msg = p3_que[m][i + 1].msg
             /\ Tail(p3_que[m])[i].msg # x
      BY <2>1, <2>2 DEF TasksAt
    <3> QED  BY <2>1, <3>1, <3>2 DEF TasksAt
  <2>5. P3At(at2)'
    <3>1. ASSUME NEW k \in MThread, k # m PROVE TasksAt(p3_que'[k], at2, <<"p3", k>>)
      <4>1. /\ p3_que[k] \in Seq(Task) /\ TasksAt(p3_que[k], at, <<"p3", k>>)
            /\ at[x] # <<"p3", k>> /\ <<"match", m>> # <<"p3", k>>
            /\ p3_que'[k] = p3_que[k]
        BY <1>0, <1>1, <1>3, <2>3, <3>1 DEF Located, P3At, QuesTyped
      <4> QED  BY <4>1, Places, TasksKeep
    <3>2. p3_que'[m] = Tail(p3_que[m])
      BY <1>0, <1>3 DEF QuesTyped
    <3> QED  BY <2>4, <3>1, <3>2 DEF P3At
  <2>6. ServedQueues' /\ OpenQueues'
    <3>1. ASSUME NEW i \in 1..Len(p3_que'[m])
          PROVE  /\ ThreadOf(p3_que'[m][i].msg) = m
                 /\ Open(p3_que'[m][i].msg, p3_que'[m][i].leaves)
      <4>1. i + 1 \in 1..Len(p3_que[m]) /\ p3_que'[m][i] = p3_que[m][i + 1]
        BY <1>0, <1>3, <2>1 DEF QuesTyped
      <4> QED  BY <1>0, <4>1 DEF Served, ServedQueues, OpenTasks, OpenQueues
    <3>2. \A k \in MThread : k # m => p3_que'[k] = p3_que[k]
      BY <1>0, <1>3 DEF QuesTyped
    <3> QED  BY <1>0, <1>3, <3>1, <3>2 DEF Served, ServedQueues, OpenTasks, OpenQueues, Open,
                                           Match_Get, reports
  <2> DEFINE h == [msg |-> x, leaves |-> Head(p3_que[m]).leaves, pc |-> "trade"]
  <2>7. match' = [match EXCEPT ![m] = h] /\ h.msg = x /\ h.leaves = Head(p3_que[m]).leaves
    BY <1>3, <2>2
  <2> HIDE DEF h
  <2>8. MatchAt(at2)' /\ ServedHands'
    <3>1. \A k \in MThread : k # m => at[x] # <<"match", k>>
      BY <2>3
    <3> QED  BY <1>0, <1>1, <2>3, <2>7, <3>1, Places, MatchAfter DEF Located, Served
  <2>9. OpenHands'
    BY <1>0, <2>3, <2>7 DEF OpenTasks, OpenHands, Open, Match_Get, reports, TypeInv, MatchTyped
  <2>10. Located(at2)'
    <3>1. \A s \in {"new", "in", "dist", "validQue", "valid", "ready", "p4"} :
             Far(at, x, <<"match", m>>, s)
      BY <2>3 DEF Far
    <3>2. /\ NewAt(at2)' /\ InAt(at2)' /\ DistAt(at2)' /\ ValidQueAt(at2)' /\ ValidAt(at2)'
          /\ P4At(at2)'
      BY <1>0, <1>1, <1>3, <3>1, Places, Unconcerned DEF Match_Get, input
    <3> QED  BY <2>5, <2>8, <3>2 DEF Located
  <2>11. Told(at2)'
    BY <1>0, <1>1, <2>3, Places, QuietMove DEF Match_Get, Early, Late
  <2> QED  BY <2>6, <2>8, <2>9, <2>10, <2>11, Places, MoveInv DEF Served, OpenTasks
<1> QED  BY <1>2, <1>3 DEF Match_Get

\* ProcCancelFail_OrigIsProc: the refused cancel is done with.
LEMMA CancelFailKeeps ==
    ASSUME FlowInv, NEW m \in MThread, Cancel_Fail(m), TypeInv' PROVE FlowInv'
<1>0. TypeInv /\ MatchTyped /\ Served /\ OpenTasks
  BY DEF FlowInv, TypeInv
<1>1. PICK at \in [Msg -> Place] : Located(at) /\ Told(at)
  BY DEF FlowInv
<1>2. PICK x \in Cancel : x = match[m].msg
  BY <1>0 DEF Cancel_Fail, AtMatch, MatchTyped
<1> DEFINE at2 == [at EXCEPT ![x] = <<"gone", 0>>]
           r == Report(x, x, "CxlReject", 0, 0, 0)
<1>3. /\ x \in Msg /\ at[x] = <<"match", m>> /\ Gone = <<"gone", 0>>
      /\ <<"gone", 0>> \in Place
  BY <1>1, <1>2, Places DEF Located, MatchAt, Cancel_Fail, AtMatch, Cancel, Gone
<1>4. /\ r \in ReportType /\ r.msg = x /\ r.order = x /\ r.kind = "CxlReject" /\ ~Final(r)
      /\ PushBack(r) /\ execQty' = execQty /\ cxlQty' = cxlQty
  BY <1>2, <1>3 DEF Cancel_Fail, Report, ReportType, ReportKind, PushBack, Final
<1>5. match' = [match EXCEPT ![m] = FreeHand] /\ FreeHand.pc = "get"
  BY DEF Cancel_Fail, FreeHand
<1> HIDE DEF r
<1>6. MatchAt(at2)' /\ ServedHands'
  <2>1. \A k \in MThread : k # m => at[x] # <<"match", k>>
    BY <1>3
  <2> QED  BY <1>0, <1>1, <1>3, <1>5, <2>1, MatchAfter DEF Located, Served
<1>7. ServedQueues' /\ OpenTasks'
  BY <1>0, <1>4, <1>5 DEF Served, ServedQueues, OpenTasks, OpenQueues, OpenHands, Open,
                          Cancel_Fail, matchQs, MatchTyped
<1>8. Located(at2)'
  <2>1. \A s \in {"new", "in", "dist", "validQue", "valid", "ready", "p4", "p3"} :
           Far(at, x, <<"gone", 0>>, s)
    BY <1>3 DEF Far
  <2>2. /\ NewAt(at2)' /\ InAt(at2)' /\ DistAt(at2)' /\ ValidQueAt(at2)' /\ ValidAt(at2)'
        /\ P4At(at2)' /\ P3At(at2)'
    BY <1>0, <1>1, <1>3, <2>1, Unconcerned DEF Cancel_Fail, input, matchQs
  <2> QED  BY <1>6, <2>2 DEF Located
<1>9. Told(at2)'
  BY <1>0, <1>1, <1>3, <1>4, PushMove DEF Cancel_Fail, Early, Late
<1> QED  BY <1>3, <1>6, <1>7, <1>8, <1>9, MoveInv DEF Served

\* Match_Requeue: what is left of the order is back in the queue.
LEMMA RequeueKeeps ==
    ASSUME FlowInv, NEW m \in MThread, Match_Requeue(m), TypeInv' PROVE FlowInv'
<1>0. TypeInv /\ MatchTyped /\ Served /\ OpenTasks
  BY DEF FlowInv, TypeInv
<1>1. PICK at \in [Msg -> Place] : Located(at) /\ Told(at)
  BY DEF FlowInv
<1>2. PICK x \in Order : x = match[m].msg
  BY <1>0 DEF Match_Requeue, AtMatch, MatchTyped
<1>3. /\ x \in Msg /\ x.type # "F" /\ match[m].leaves \in 1..x.qty
      /\ at[x] = <<"match", m>> /\ Open(x, match[m].leaves)
  <2>1. x \in Msg /\ x.type # "F"
    BY DEF Order
  <2>2. match[m].leaves \in 1..x.qty
    BY <1>0, <1>2 DEF Match_Requeue, AtMatch, MatchTyped
  <2> QED  BY <1>0, <1>1, <1>2, <2>1, <2>2
           DEF Located, MatchAt, Match_Requeue, AtMatch, OpenTasks, OpenHands
<1> DEFINE at2 == [at EXCEPT ![x] = <<"p3", ThreadOf(x)>>]
<1>4. <<"p3", ThreadOf(x)>> \in Place
  BY <1>3, Places, ThreadOfIsThread
<1>5. P4At(at2)' /\ P3At(at2)' /\ ServedQueues' /\ OpenQueues'
  <2>1. \A k \in MThread : at[x] # <<"p4", k>> /\ at[x] # <<"p3", k>>
    BY <1>3
  <2>2. GenTask_Match(x, match[m].leaves) /\ UNCHANGED <<execQty, cxlQty>>
    BY <1>2 DEF Match_Requeue, reports
  <2>3. P4At(at) /\ P3At(at) /\ ServedQueues /\ OpenQueues
    BY <1>0, <1>1 DEF Located, Served, OpenTasks
  <2>4. <<"p3", ThreadOf(x)>> = IF x.type = "F" THEN <<"p4", ThreadOf(x)>> ELSE <<"p3", ThreadOf(x)>>
    BY <1>3
  <2> QED  BY <1>0, <1>3, <1>4, <2>1, <2>2, <2>3, <2>4, GenPlaces
<1>6. match' = [match EXCEPT ![m] = FreeHand] /\ FreeHand.pc = "get"
  BY DEF Match_Requeue, FreeHand
<1>7. MatchAt(at2)' /\ ServedHands'
  <2>1. \A k \in MThread : k # m => at[x] # <<"match", k>>
    BY <1>3
  <2> QED  BY <1>0, <1>1, <1>3, <1>4, <1>6, <2>1, MatchAfter DEF Located, Served
<1>8. OpenHands'
  BY <1>0, <1>6 DEF OpenTasks, OpenHands, Open, Match_Requeue, reports, MatchTyped
<1>9. Located(at2)'
  <2>1. \A s \in {"new", "in", "dist", "validQue", "valid", "ready"} :
           Far(at, x, <<"p3", ThreadOf(x)>>, s)
    BY <1>3 DEF Far
  <2>2. /\ NewAt(at2)' /\ InAt(at2)' /\ DistAt(at2)' /\ ValidQueAt(at2)' /\ ValidAt(at2)'
    BY <1>0, <1>1, <1>3, <1>4, <2>1, Unconcerned DEF Match_Requeue, input
  <2> QED  BY <1>5, <1>7, <2>2 DEF Located
<1>10. Told(at2)'
  BY <1>0, <1>1, <1>3, <1>4, QuietMove DEF Match_Requeue, Early, Late
<1> QED  BY <1>3, <1>4, <1>5, <1>7, <1>8, <1>9, <1>10, MoveInv DEF Served, OpenTasks

\* What is open of the other orders when the totals of order x change.
LEMMA OpenOthers ==
    ASSUME TypeInv, NEW at, P3At(at), MatchAt(at), OpenTasks,
           NEW x \in Order,
           \A y \in Order : y # x => execQty'[y] = execQty[y] /\ cxlQty'[y] = cxlQty[y]
    PROVE  /\ \A k \in MThread : \A i \in 1..Len(p3_que[k]) : p3_que[k][i].msg # x =>
                 (execQty'[p3_que[k][i].msg] + p3_que[k][i].leaves = p3_que[k][i].msg.qty
                  /\ cxlQty'[p3_que[k][i].msg] = 0)
           /\ \A k \in MThread : match[k].pc \in {"trade", "requeue"} /\ match[k].msg # x =>
                 (execQty'[match[k].msg] + match[k].leaves = match[k].msg.qty
                  /\ cxlQty'[match[k].msg] = 0)
<1>1. \A k \in MThread : \A i \in 1..Len(p3_que[k]) : p3_que[k][i].msg \in Order
  BY TaskMsg DEF TypeInv, QuesTyped
<1>2. \A k \in MThread : match[k].pc \in {"trade", "requeue"} => match[k].msg \in Order
  BY DEF TypeInv, MatchTyped
<1> QED  BY <1>1, <1>2 DEF OpenTasks, OpenQueues, OpenHands, Open

\* A trade, after which the order is done with or to be queued again.
LEMMA TradeKeeps ==
    ASSUME FlowInv, TypeInv', NEW m \in MThread, AtMatch(m, "trade"),
           UNCHANGED <<input, dist, validQue, valid, redis, matchQs, refusal>>,
           NEW n \in 1..match[m].leaves, NEW cum \in Nat, Trade(m, n, cum)
    PROVE  FlowInv'
<1>0. TypeInv /\ MatchTyped /\ QuesTyped /\ ReportsTyped /\ Served /\ OpenTasks
  BY DEF FlowInv, TypeInv
<1>1. PICK at \in [Msg -> Place] : Located(at) /\ Told(at)
  BY DEF FlowInv
<1>2. PICK x \in Order : x = match[m].msg
  BY <1>0 DEF AtMatch, MatchTyped
<1>3. PICK rest \in Nat : rest = match[m].leaves - n
  BY <1>0, <1>2 DEF AtMatch, MatchTyped
<1>4. /\ x \in Msg /\ x \notin Cancel /\ n \in Nat /\ at[x] = <<"match", m>>
      /\ execQty[x] + n + rest = x.qty /\ cxlQty[x] = 0 /\ ThreadOf(x) = m
      /\ execQty[x] \in Nat /\ x.qty \in Nat
  <2>1. x \in Msg /\ x \notin Cancel
    BY DEF Order, Cancel
  <2>2. match[m].leaves \in Nat /\ n \in Nat /\ execQty[x] \in Nat /\ x.qty \in Nat
    BY <1>0, <2>1, MessageFields DEF MatchTyped, ReportsTyped
  <2>3. Open(x, match[m].leaves)
    BY <1>0, <1>2 DEF OpenTasks, OpenHands, AtMatch
  <2>4. at[x] = <<"match", m>> /\ ThreadOf(x) = m
    BY <1>0, <1>1, <1>2 DEF Located, MatchAt, AtMatch, Served, ServedHands
  <2> QED  BY <1>3, <2>1, <2>2, <2>3, <2>4 DEF Open
<1> DEFINE r == Report(x, x, "Trade", n, rest, cum)
           b == IF rest = 0 THEN "gone" ELSE "match"
           j == IF rest = 0 THEN 0 ELSE m
           at2 == [at EXCEPT ![x] = <<b, j>>]
           h == IF rest = 0 THEN FreeHand ELSE [msg |-> x, leaves |-> rest, pc |-> "requeue"]
<1>5. /\ PushBack(r) /\ match' = [match EXCEPT ![m] = h]
  BY <1>2, <1>3 DEF Trade
<1>6. /\ r \in ReportType /\ r.msg = x /\ r.order = x /\ r.kind = "Trade" /\ r.last = n
      /\ Final(r) => rest = 0
  BY <1>4 DEF Report, ReportType, ReportKind, Final
<1>7. /\ <<b, j>> \in Place /\ b \notin Early /\ (rest = 0 => <<b, j>> = Gone)
      /\ rest # 0 => <<b, j>> = <<"match", m>>
      /\ \A s \in {"new", "in", "dist", "validQue", "valid", "ready", "p4", "p3"} : b # s
  BY Places DEF Gone, Early
<1>8. /\ rest = 0 => h.pc = "get"
      /\ rest # 0 => h.msg = x /\ h.leaves = rest
  BY DEF FreeHand
<1> HIDE DEF r, b, j, h
<1>9. execQty'[x] = execQty[x] + n /\ cxlQty'[x] = cxlQty[x]
      /\ \A y \in Order : y # x => execQty'[y] = execQty[y] /\ cxlQty'[y] = cxlQty[y]
  BY <1>0, <1>5, <1>6, PushedQty
<1>10. MatchAt(at2)' /\ ServedHands'
  <2>1. \A k \in MThread : k # m => at[x] # <<"match", k>>
    BY <1>4
  <2>2. MatchAt(at) /\ ServedHands
    BY <1>0, <1>1 DEF Located, Served
  <2>3. h.pc = "get" \/ (h.msg = x /\ <<b, j>> = <<"match", m>> /\ ThreadOf(x) = m)
    BY <1>4, <1>7, <1>8
  <2>4. TypeInv /\ x \in Msg /\ <<b, j>> \in Place /\ match' = [match EXCEPT ![m] = h]
    BY <1>0, <1>4, <1>5, <1>7
  <2> QED  BY <2>1, <2>2, <2>3, <2>4, MatchAfter
<1>11. ServedQueues'
  BY <1>0 DEF Served, ServedQueues, matchQs
<1>12. OpenTasks'
  <2>1. \A k \in MThread : \A i \in 1..Len(p3_que[k]) : p3_que[k][i].msg # x
    BY <1>1, <1>4 DEF Located, P3At, TasksAt
  <2>2. \A k \in MThread : k # m /\ match[k].pc # "get" => match[k].msg # x
    BY <1>1, <1>4 DEF Located, MatchAt
  <2>3. OpenQueues'
    BY <1>0, <1>1, <1>9, <2>1, OpenOthers DEF Located, OpenQueues, Open, matchQs
  <2>4. match'[m] = h /\ \A k \in MThread : k # m => match'[k] = match[k]
    BY <1>0, <1>5 DEF MatchTyped
  <2>5. h.pc \in {"trade", "requeue"} => execQty'[h.msg] + h.leaves = h.msg.qty /\ cxlQty'[h.msg] = 0
    BY <1>4, <1>8, <1>9
  <2>6. OpenHands'
    BY <1>0, <1>1, <1>9, <2>2, <2>4, <2>5, OpenOthers DEF Located, OpenHands, Open
  <2> QED  BY <2>3, <2>6 DEF OpenTasks
<1>13. Located(at2)'
  <2>1. \A s \in {"new", "in", "dist", "validQue", "valid", "ready", "p4", "p3"} :
           Far(at, x, <<b, j>>, s)
    BY <1>4, <1>7 DEF Far
  <2>2. /\ NewAt(at2)' /\ InAt(at2)' /\ DistAt(at2)' /\ ValidQueAt(at2)' /\ ValidAt(at2)'
        /\ P4At(at2)' /\ P3At(at2)'
    BY <1>0, <1>1, <1>4, <1>7, <2>1, Unconcerned DEF input, matchQs
  <2> QED  BY <1>10, <2>2 DEF Located
<1>14. Told(at2)'
  <2>1. Confirmed(x)
    <3>1. at[x][1] \in Late
      BY <1>4 DEF Late
    <3> QED  BY <1>1, <3>1 DEF Told, LateConfirmed
  <2>2. execQty[x] + cxlQty[x] + r.last <= x.qty
    BY <1>4, <1>6
  <2>3. "match" \in Late
    BY DEF Late
  <2> QED  BY <1>0, <1>1, <1>4, <1>5, <1>6, <1>7, <2>1, <2>2, <2>3, PushMove
<1> QED  BY <1>4, <1>7, <1>10, <1>11, <1>12, <1>13, <1>14, MoveInv DEF Served

\* ABStockMatch_Error: the refused order is done with.
LEMMA RefuseKeeps ==
    ASSUME FlowInv, TypeInv', NEW m \in MThread, AtMatch(m, "trade"),
           UNCHANGED <<input, dist, validQue, valid, redis, matchQs, refusal>>,
           PushBack(Report(match[m].msg, match[m].msg, "Error", 0, 0, 0)),
           match' = [match EXCEPT ![m] = FreeHand]
    PROVE  FlowInv'
<1>0. TypeInv /\ MatchTyped /\ Served /\ OpenTasks
  BY DEF FlowInv, TypeInv
<1>1. PICK at \in [Msg -> Place] : Located(at) /\ Told(at)
  BY DEF FlowInv
<1>2. PICK x \in Order : x = match[m].msg
  BY <1>0 DEF AtMatch, MatchTyped
<1> DEFINE at2 == [at EXCEPT ![x] = <<"gone", 0>>]
           r == Report(x, x, "Error", 0, 0, 0)
<1>3. /\ x \in Msg /\ at[x] = <<"match", m>> /\ Gone = <<"gone", 0>>
      /\ <<"gone", 0>> \in Place
  BY <1>1, <1>2, Places DEF Located, MatchAt, AtMatch, Order, Gone
<1>4. /\ r \in ReportType /\ r.msg = x /\ r.order = x /\ r.kind = "Error"
      /\ PushBack(r) /\ execQty' = execQty /\ cxlQty' = cxlQty
  BY <1>2, <1>3 DEF Report, ReportType, ReportKind, PushBack
<1>5. FreeHand.pc = "get"
  BY DEF FreeHand
<1> HIDE DEF r
<1>6. MatchAt(at2)' /\ ServedHands'
  <2>1. \A k \in MThread : k # m => at[x] # <<"match", k>>
    BY <1>3
  <2> QED  BY <1>0, <1>1, <1>3, <1>5, <2>1, MatchAfter DEF Located, Served
<1>7. ServedQueues' /\ OpenTasks'
  BY <1>0, <1>4, <1>5 DEF Served, ServedQueues, OpenTasks, OpenQueues, OpenHands, Open,
                          matchQs, MatchTyped
<1>8. Located(at2)'
  <2>1. \A s \in {"new", "in", "dist", "validQue", "valid", "ready", "p4", "p3"} :
           Far(at, x, <<"gone", 0>>, s)
    BY <1>3 DEF Far
  <2>2. /\ NewAt(at2)' /\ InAt(at2)' /\ DistAt(at2)' /\ ValidQueAt(at2)' /\ ValidAt(at2)'
        /\ P4At(at2)' /\ P3At(at2)'
    BY <1>0, <1>1, <1>3, <2>1, Unconcerned DEF input, matchQs
  <2> QED  BY <1>6, <2>2 DEF Located
<1>9. Told(at2)'
  BY <1>0, <1>1, <1>3, <1>4, PushMove DEF Early, Late
<1> QED  BY <1>3, <1>6, <1>7, <1>8, <1>9, MoveInv DEF Served

\* A matching step, whatever the mode of the order.
LEMMA MatchOrderKeeps ==
    ASSUME FlowInv, NEW m \in MThread, MatchOrder(m), TypeInv' PROVE FlowInv'
<1>0. TypeInv /\ MatchTyped
  BY DEF FlowInv, TypeInv
<1>1. /\ AtMatch(m, "trade")
      /\ UNCHANGED <<input, dist, validQue, valid, redis, matchQs, refusal>>
  BY DEF MatchOrder
<1>2. CASE \E n \in 1..match[m].leaves, cum \in Nat : Trade(m, n, cum)
  BY <1>1, <1>2, TradeKeeps
<1>3. CASE Put_Back(m)
  <2>1. \A k \in MThread : /\ match'[k].msg = match[k].msg /\ match'[k].leaves = match[k].leaves
                           /\ match'[k].pc = match[k].pc
                              \/ (match'[k].pc = "requeue" /\ match[k].pc = "trade")
    BY <1>0, <1>1, <1>3 DEF Put_Back, AtMatch, MatchTyped
  <2> QED  BY <1>1, <1>3, <2>1, StayKeeps DEF Put_Back
<1>4. CASE /\ PushBack(Report(match[m].msg, match[m].msg, "Error", 0, 0, 0))
           /\ match' = [match EXCEPT ![m] = FreeHand]
  BY <1>1, <1>4, RefuseKeeps
<1> QED  BY <1>0, <1>2, <1>3, <1>4, MatchOutcome

\* A cancel and the order it finds end together.
LEMMA TwoEnd ==
    ASSUME TypeInv, NEW at \in [Msg -> Place], Located(at),
           NEW x \in Msg, NEW o \in Msg, NEW m \in MThread,
           at[x] = <<"match", m>>, at[o] = <<"p3", m>>,
           UNCHANGED <<input, dist, validQue, valid, p4_que>>,
           NEW at2 \in [Msg -> Place], at2[x] = Gone, at2[o] = Gone,
           \A y \in Msg : y # x /\ y # o => at2[y] = at[y]
    PROVE  /\ NewAt(at2)' /\ InAt(at2)' /\ DistAt(at2)' /\ ValidQueAt(at2)'
           /\ ValidAt(at2)' /\ P4At(at2)'
<1> USE DEF Located, TypeInv
<1>1. NewAt(at2)'
  BY DEF NewAt, Gone, input
<1>2. ASSUME NEW s \in Seq(Msg), NEW p, QueueAt(s, at, p), p # <<"match", m>>, p # <<"p3", m>>
      PROVE  QueueAt(s, at2, p)
  <2> HIDE DEF Located, TypeInv
  <2>1. \A i \in 1..Len(s) : s[i] \in Msg
    OBVIOUS
  <2>2. \A i \in 1..Len(s) : s[i] # x /\ s[i] # o
    BY <1>2 DEF QueueAt
  <2> QED  BY <1>2, <2>1, <2>2 DEF QueueAt
<1>3. InAt(at2)'
  BY <1>2 DEF InAt, InputTyped, input
<1>4. DistAt(at2)'
  <2>1. dist.msg # None => dist.msg \in Msg /\ at[dist.msg] = <<"dist", 0>>
    BY DEF DistAt, InputTyped
  <2> HIDE DEF Located, TypeInv
  <2>2. dist' = dist
    OBVIOUS
  <2>3. <<"dist", 0>> # <<"match", m>> /\ <<"dist", 0>> # <<"p3", m>>
    OBVIOUS
  <2> QED  BY <2>1, <2>2, <2>3 DEF DistAt
<1>5. ValidQueAt(at2)'
  BY <1>2 DEF ValidQueAt, InputTyped
<1>6. ValidAt(at2)'
  <2>1. \A v \in VThread : valid[v].pc # "get" => valid[v].msg \in Msg
    BY DEF ValidTyped
  <2> QED  BY <2>1 DEF ValidAt
<1>7. P4At(at2)'
  BY <1>2, CancelQueue DEF P4At
<1> QED  BY <1>1, <1>3, <1>4, <1>5, <1>6, <1>7

\* ProcCancelSuccess: the cancel and its order are both done with.
LEMMA CancelSuccessKeeps ==
    ASSUME FlowInv, NEW m \in MThread, Cancel_Success(m), TypeInv' PROVE FlowInv'
<1>0. TypeInv /\ MatchTyped /\ QuesTyped /\ ReportsTyped /\ Served /\ OpenTasks
  BY DEF FlowInv, TypeInv
<1>1. PICK at \in [Msg -> Place] : Located(at) /\ Told(at)
  BY DEF FlowInv
<1>2. PICK x \in Cancel : x = match[m].msg
  BY <1>0 DEF Cancel_Success, AtMatch, MatchTyped
<1>3. PICK i \in 1..Len(p3_que[m]) :
         /\ p3_que' = [p3_que EXCEPT ![m] = RemoveAt(@, i)]
         /\ PushBack(Report(x, p3_que[m][i].msg, "Cancelled", p3_que[m][i].leaves, 0,
                            p3_que[m][i].msg.qty - p3_que[m][i].leaves))
  BY <1>2 DEF Cancel_Success, FirstOf
<1>4. PICK o \in Order, n \in Nat : o = p3_que[m][i].msg /\ n = p3_que[m][i].leaves /\ n <= o.qty
  <2>1. /\ p3_que[m][i].msg \in Order /\ p3_que[m][i].msg.qty \in Nat
        /\ p3_que[m][i].leaves \in 1..p3_que[m][i].msg.qty
    BY <1>0, FoundTask
  <2>2. p3_que[m][i].leaves \in Nat /\ p3_que[m][i].leaves <= p3_que[m][i].msg.qty
    BY <2>1
  <2> QED  BY <2>1, <2>2
<1>5. /\ x \in Msg /\ o \in Msg /\ x # o /\ o \notin Cancel
      /\ at[x] = <<"match", m>> /\ at[o] = <<"p3", m>>
      /\ execQty[o] + n = o.qty /\ cxlQty[o] = 0 /\ o.qty - n \in Nat
      /\ execQty[o] \in Nat /\ o.qty \in Nat
  <2>1. x \in Msg /\ o \in Msg /\ x # o /\ o \notin Cancel
    BY DEF Order, Cancel
  <2>2. at[x] = <<"match", m>> /\ at[o] = <<"p3", m>>
    BY <1>1, <1>2, <1>4 DEF Located, MatchAt, P3At, TasksAt, Cancel_Success, AtMatch
  <2>3. Open(o, n)
    BY <1>0, <1>4 DEF OpenTasks, OpenQueues
  <2>4. execQty[o] \in Nat /\ o.qty \in Nat
    BY <1>0, <2>1, MessageFields DEF ReportsTyped
  <2> QED  BY <1>4, <2>1, <2>2, <2>3, <2>4 DEF Open
<1> DEFINE at2 == [at EXCEPT ![x] = Gone, ![o] = Gone]
           r == Report(x, o, "Cancelled", n, 0, o.qty - n)
<1>6. /\ at2 \in [Msg -> Place] /\ at2[x] = Gone /\ at2[o] = Gone
      /\ \A y \in Msg : y # x /\ y # o => at2[y] = at[y]
  BY <1>5, Places
<1>7. /\ r \in ReportType /\ r.msg = x /\ r.order = o /\ r.kind = "Cancelled" /\ r.last = n
      /\ PushBack(r)
  BY <1>3, <1>4, <1>5 DEF Report, ReportType, ReportKind
<1> HIDE DEF at2, r
<1>8. /\ cxlQty'[o] = n /\ execQty'[o] = execQty[o]
      /\ \A y \in Order : y # o => execQty'[y] = execQty[y] /\ cxlQty'[y] = cxlQty[y]
  <2>1. \A y \in Order : /\ execQty'[y] = execQty[y]
                          /\ cxlQty'[y] = IF o = y THEN cxlQty[y] + n ELSE cxlQty[y]
    BY <1>0, <1>7, PushedQty
  <2>2. 0 + n = n
    OBVIOUS
  <2> QED  BY <1>5, <2>1, <2>2
<1> DEFINE q == p3_que[m]
           q2 == RemoveAt(p3_que[m], i)
           k(l) == IF l < i THEN l ELSE l + 1
<1>9. /\ p3_que'[m] = q2 /\ \A c \in MThread : c # m => p3_que'[c] = p3_que[c]
      /\ \A l \in 1..Len(q2) : k(l) \in 1..Len(q) /\ k(l) # i /\ q2[l] = q[k(l)]
      /\ \A l1, l2 \in 1..Len(q2) : k(l1) = k(l2) => l1 = l2
  <2>1. q \in Seq(Task)
    BY <1>0 DEF QuesTyped
  <2>2. \A l \in 1..Len(q2) : k(l) \in 1..Len(q) /\ k(l) # i /\ q2[l] = q[k(l)]
    <3>1. \A l \in 1..Len(RemoveAt(q, i)) :
            LET j == IF l < i THEN l ELSE l + 1
            IN  j \in 1..Len(q) /\ j # i /\ RemoveAt(q, i)[l] = q[j]
      BY <2>1, EraseTask
    <3> QED  BY <3>1
  <2>3. Len(q2) \in Nat
    BY <2>1, EraseTask
  <2> QED  BY <1>0, <1>3, <2>2, <2>3 DEF QuesTyped
<1> HIDE DEF q2, k
<1>10. \A c \in MThread : \A l \in 1..Len(p3_que'[c]) :
         \E j \in 1..Len(p3_que[c]) : p3_que'[c][l] = p3_que[c][j] /\ p3_que[c][j].msg # o
  <2>1. \A j \in 1..Len(q) : j # i => q[j].msg # o
    BY <1>1, <1>4 DEF Located, P3At, TasksAt
  <2>2. \A c \in MThread : c # m => \A l \in 1..Len(p3_que[c]) : p3_que[c][l].msg # o
    BY <1>1, <1>5 DEF Located, P3At, TasksAt
  <2>3. \A l \in 1..Len(p3_que'[m]) :
           \E j \in 1..Len(q) : p3_que'[m][l] = q[j] /\ q[j].msg # o
    BY <1>9, <2>1
  <2> SUFFICES ASSUME NEW c \in MThread, NEW l \in 1..Len(p3_que'[c])
               PROVE  \E j \in 1..Len(p3_que[c]) :
                        p3_que'[c][l] = p3_que[c][j] /\ p3_que[c][j].msg # o
    OBVIOUS
  <2>4. CASE c = m
    BY <2>3, <2>4
  <2>5. CASE c # m
    <3>1. p3_que'[c] = p3_que[c]
      BY <1>9, <2>5
    <3> QED  BY <2>2, <2>5, <3>1
  <2> QED  BY <2>4, <2>5
<1>11. P3At(at2)'
  <2>1. ASSUME NEW c \in MThread, NEW l \in 1..Len(p3_que'[c])
        PROVE  at2[p3_que'[c][l].msg] = <<"p3", c>>
    <3>1. PICK j \in 1..Len(p3_que[c]) : p3_que'[c][l] = p3_que[c][j] /\ p3_que[c][j].msg # o
      BY <1>10
    <3>2. p3_que[c][j].msg \in Msg /\ at[p3_que[c][j].msg] = <<"p3", c>>
      BY <1>0, <1>1, TaskMsg DEF Located, P3At, TasksAt, QuesTyped
    <3>3. <<"p3", c>> # <<"match", m>>
      OBVIOUS
    <3>4. p3_que[c][j].msg # x
      BY <1>5, <3>2, <3>3
    <3> QED  BY <1>6, <3>1, <3>2, <3>4
  <2>2. ASSUME NEW c \in MThread, NEW l1 \in 1..Len(p3_que'[c]), NEW l2 \in 1..Len(p3_que'[c]),
               p3_que'[c][l1].msg = p3_que'[c][l2].msg
        PROVE  l1 = l2
    <3>1. CASE c = m
      <4>1. l1 \in 1..Len(q2) /\ l2 \in 1..Len(q2) /\ q2[l1].msg = q2[l2].msg
        BY <1>9, <2>2, <3>1
      <4>2. /\ k(l1) \in 1..Len(q) /\ k(l2) \in 1..Len(q)
            /\ q[k(l1)].msg = q[k(l2)].msg
        BY <1>9, <4>1
      <4>3. k(l1) = k(l2)
        BY <1>1, <4>2 DEF Located, P3At, TasksAt
      <4> QED  BY <1>9, <4>1, <4>3
    <3>2. CASE c # m
      BY <1>1, <1>9, <2>2, <3>2 DEF Located, P3At, TasksAt
    <3> QED  BY <3>1, <3>2
  <2> QED  BY <2>1, <2>2 DEF P3At, TasksAt
<1>12. MatchAt(at2)' /\ ServedHands'
  <2>1. match'[m] = FreeHand /\ \A c \in MThread : c # m => match'[c] = match[c]
    BY <1>0 DEF Cancel_Success, MatchTyped
  <2>2. ASSUME NEW c \in MThread, c # m, match[c].pc # "get"
        PROVE  at2[match[c].msg] = at[match[c].msg]
    <3>1. match[c].msg \in Msg /\ at[match[c].msg] = <<"match", c>>
      BY <1>0, <1>1, <2>2 DEF MatchTyped, Order, Cancel, Located, MatchAt
    <3>2. <<"match", c>> # <<"match", m>> /\ <<"match", c>> # <<"p3", m>>
      BY <2>2
    <3>3. match[c].msg # x /\ match[c].msg # o
      BY <1>5, <3>1, <3>2
    <3> QED  BY <1>6, <3>1, <3>3
  <2>3. MatchAt(at2)'
    BY <1>1, <2>1, <2>2 DEF Located, MatchAt, FreeHand
  <2>4. ServedHands'
    BY <1>0, <2>1 DEF Served, ServedHands, FreeHand
  <2> QED  BY <2>3, <2>4
<1>13. ServedQueues'
  BY <1>0, <1>10 DEF Served, ServedQueues, Cancel_Success
<1>14. OpenTasks'
  <2>1. OpenQueues'
    <3>1. P3At(at) /\ MatchAt(at)
      BY <1>1 DEF Located
    <3>2. \A c \in MThread : \A j \in 1..Len(p3_que[c]) : p3_que[c][j].msg # o =>
            /\ execQty'[p3_que[c][j].msg] + p3_que[c][j].leaves = p3_que[c][j].msg.qty
            /\ cxlQty'[p3_que[c][j].msg] = 0
      BY <1>0, <1>8, <3>1, OpenOthers
    <3>3. \A c \in MThread : \A l \in 1..Len(p3_que'[c]) :
            /\ execQty'[p3_que'[c][l].msg] + p3_que'[c][l].leaves = p3_que'[c][l].msg.qty
            /\ cxlQty'[p3_que'[c][l].msg] = 0
      <4> SUFFICES ASSUME NEW c \in MThread, NEW l \in 1..Len(p3_que'[c])
                   PROVE  /\ execQty'[p3_que'[c][l].msg] + p3_que'[c][l].leaves
                               = p3_que'[c][l].msg.qty
                          /\ cxlQty'[p3_que'[c][l].msg] = 0
        OBVIOUS
      <4>1. PICK j \in 1..Len(p3_que[c]) : p3_que'[c][l] = p3_que[c][j] /\ p3_que[c][j].msg # o
        BY <1>10
      <4> QED  BY <3>2, <4>1
    <3> QED  BY <3>3 DEF OpenQueues, Open
  <2>2. \A c \in MThread : match[c].pc # "get" => match[c].msg # o
    BY <1>1, <1>5 DEF Located, MatchAt
  <2>3. match'[m] = FreeHand /\ \A c \in MThread : c # m => match'[c] = match[c]
    BY <1>0 DEF Cancel_Success, MatchTyped
  <2>4. OpenHands'
    <3>1. P3At(at) /\ MatchAt(at)
      BY <1>1 DEF Located
    <3>2. \A c \in MThread : match[c].pc \in {"trade", "requeue"} /\ match[c].msg # o =>
            /\ execQty'[match[c].msg] + match[c].leaves = match[c].msg.qty
            /\ cxlQty'[match[c].msg] = 0
      BY <1>0, <1>8, <3>1, OpenOthers
    <3> QED  BY <2>2, <2>3, <3>2 DEF OpenHands, Open, FreeHand
  <2> QED  BY <2>1, <2>4 DEF OpenTasks
<1>15. Located(at2)'
  <2>1. /\ NewAt(at2)' /\ InAt(at2)' /\ DistAt(at2)' /\ ValidQueAt(at2)'
        /\ ValidAt(at2)' /\ P4At(at2)'
    <3>1. UNCHANGED <<input, dist, validQue, valid, p4_que>>
      BY DEF Cancel_Success
    <3>2. TypeInv /\ Located(at) /\ x \in Msg /\ o \in Msg
          /\ at[x] = <<"match", m>> /\ at[o] = <<"p3", m>>
      BY <1>0, <1>1, <1>5
    <3> HIDE DEF at2
    <3> QED  BY <1>6, <3>1, <3>2, TwoEnd
  <2> QED  BY <1>11, <1>12, <2>1 DEF Located
<1>16. Told(at2)'
  <2>1. Confirmed(o)
    <3>1. at[o][1] \in Late
      BY <1>5 DEF Late
    <3> QED  BY <1>1, <3>1 DEF Told, LateConfirmed
  <2>2. /\ execQty[o] + cxlQty[o] + r.last <= o.qty
        /\ Gone[1] \notin Early /\ Gone[1] \notin Late
        /\ at[x] # Gone /\ at[o] # Gone
    BY <1>5, <1>7 DEF Gone, Early, Late
  <2>3. \A y \in Order : y \in Msg
    BY DEF Order
  <2>4. /\ \A y \in Msg : at[y] = Gone => at2[y] = Gone
        /\ \A y \in Order : at2[y][1] \in Early => at[y][1] \in Early
        /\ \A y \in Order : at2[y][1] \in Late => at[y][1] \in Late
        /\ at2[o][1] \notin Early
    BY <1>6, <2>2, <2>3
  <2>5. UNCHANGED refusal /\ repeated \cup ignored \subseteq Msg
    BY <1>0 DEF Cancel_Success, TypeInv, InputTyped
  <2> QED  BY <1>0, <1>1, <1>6, <1>7, <2>1, <2>2, <2>4, <2>5, PushTold
<1> QED  BY <1>6, <1>12, <1>13, <1>14, <1>15, <1>16 DEF FlowInv, Served

\* Every step of a matching thread.
LEMMA MatchKeeps == ASSUME FlowInv, NEW m \in MThread, MatchStep(m) PROVE FlowInv'
<1>1. TypeInv'
  BY MatchStepTyped DEF FlowInv
<1> QED  BY <1>1, MatchGetKeeps, CancelSuccessKeeps, CancelFailKeeps, MatchOrderKeeps,
            RequeueKeeps DEF MatchStep

-----------------------------------------------------------------------------
(* The theorems.                                                           *)

\* A step that changes nothing.
LEMMA StutterKeeps == ASSUME FlowInv, UNCHANGED vars PROVE FlowInv'
<1>1. TypeInv'
  BY StutterTyped DEF FlowInv
<1>2. UNCHANGED <<input, dist, validQue, valid, matchQs, match, reports, refusal>>
  BY DEF vars
<1> QED  BY <1>1, <1>2, StayKeeps

\* Every step keeps the invariant.
LEMMA FlowStep == FlowInv /\ [Next]_vars => FlowInv'
BY ArriveKeeps, DistKeeps, ValidKeeps, MatchKeeps, StutterKeeps DEF Next

\* It holds when the program starts.
LEMMA FlowInit == Init => FlowInv
<1> SUFFICES ASSUME Init PROVE FlowInv
  OBVIOUS
<1> USE DEF Init
<1>1. TypeInv
  BY InitTyped
<1>2. Served /\ OpenTasks
  BY DEF Served, ServedQueues, ServedHands, OpenTasks, OpenQueues, OpenHands
<1> DEFINE at == [x \in Msg |-> <<"new", 0>>]
<1>3. at \in [Msg -> Place] /\ \A x \in Msg : at[x] = <<"new", 0>>
  BY DEF Place, Early
<1> HIDE DEF at
<1>4. Located(at)
  BY <1>3 DEF Located, NewAt, InAt, DistAt, ValidQueAt, ValidAt, P4At, P3At, MatchAt,
              QueueAt, TasksAt, Idle
<1>5. Told(at)
  <2>1. \A x \in Order : x \in Msg /\ x.qty \in Nat /\ execQty[x] = 0 /\ cxlQty[x] = 0
    BY MessageFields DEF Order
  <2>2. EarlyUntraded(at) /\ WithinQty
    BY <2>1 DEF EarlyUntraded, WithinQty
  <2>3. LateConfirmed(at)
    BY <1>3, <2>1 DEF LateConfirmed, Late
  <2> QED  BY <2>2, <2>3 DEF Told, RefusedGone, FinalGone, CancelsAnswered,
                             ConfirmFirst, NothingAfterFinal
<1> QED  BY <1>1, <1>2, <1>3, <1>4, <1>5 DEF FlowInv

\* Every message is in one place at a time, tasks are with the thread of
\* their key, and the reports agree with where the messages are.
THEOREM FlowInvariant == Spec => []FlowInv
BY FlowInit, FlowStep, PTL DEF Spec

\* Shares are neither lost nor traded twice: what a queue or a matching
\* thread still holds of an order is what the reports have not accounted for,
\* across the trade, the requeue (GenTask_Match) and the cancel.
THEOREM FlowConservesQty == Spec => []QtyConserved
<1>1. FlowInv => QtyConserved
  <2> SUFFICES ASSUME FlowInv PROVE QtyConserved
    OBVIOUS
  <2>1. TypeOK /\ MatchTyped /\ OpenQueues /\ OpenHands /\ WithinQty
    BY TypesOfParts DEF FlowInv, TypeInv, OpenTasks, Told
  <2>2. ASSUME NEW x \in Order, NEW m \in MThread, match[m].msg = x
        PROVE  match[m].leaves > 0 /\ execQty[x] + match[m].leaves = x.qty /\ cxlQty[x] = 0
    <3>1. x # None /\ x \notin Cancel
      BY NoneIsNoMessage DEF Order, Cancel
    <3>2. match[m].pc \in {"trade", "requeue"} /\ match[m].leaves \in 1..x.qty
      BY <2>1, <2>2, <3>1 DEF MatchTyped
    <3>3. x.qty \in Nat
      BY MessageFields DEF Order
    <3> QED  BY <2>1, <2>2, <3>2, <3>3 DEF OpenHands, Open
  <2>3. ASSUME NEW x \in Order, NEW m \in MThread, NEW i \in 1..Len(p3_que[m]),
               p3_que[m][i].msg = x
        PROVE  execQty[x] + p3_que[m][i].leaves = x.qty /\ cxlQty[x] = 0
    BY <2>1, <2>3 DEF OpenQueues, Open
  <2> QED  BY <2>1, <2>2, <2>3 DEF QtyConserved, WithinQty
<1> QED  BY <1>1, FlowInvariant, PTL

\* A customer sees the confirmation of an order before its trades and its
\* cancel, and nothing of it after its end, although validating and matching
\* threads push to the report buffer concurrently.
THEOREM FlowReportsInOrder == Spec => []ReportsInOrder
<1>1. FlowInv => ReportsInOrder
  BY DEF FlowInv, Told, ReportsInOrder
<1> QED  BY <1>1, FlowInvariant, PTL

\* No cancel gets two answers.
THEOREM FlowAnswersOnce == Spec => []OneAnswerPerCancel
<1>1. FlowInv => OneAnswerPerCancel
  <2> SUFFICES ASSUME FlowInv, NEW c \in Cancel
               PROVE  /\ Cardinality({i \in 1..Len(g_outMsg_buffer) :
                                        g_outMsg_buffer[i].msg = c}) <= 1
                      /\ c \in repeated \cup ignored =>
                           \A i \in 1..Len(g_outMsg_buffer) : g_outMsg_buffer[i].msg # c
    BY DEF OneAnswerPerCancel
  <2>1. PICK at \in [Msg -> Place] : CancelsAnswered(at)
    BY DEF FlowInv, Told
  <2> DEFINE S == {i \in 1..Len(g_outMsg_buffer) : g_outMsg_buffer[i].msg = c}
  <2>2. \A i, j \in S : i = j
    BY <2>1 DEF CancelsAnswered
  <2>3. S = {} \/ \E i : S = {i}
    <3> HIDE DEF S
    <3> QED  BY <2>2
  <2>4. Cardinality(S) <= 1
    <3> HIDE DEF S
    <3>1. CASE S = {}
      BY <3>1, FS_EmptySet
    <3>2. ASSUME NEW i, S = {i} PROVE Cardinality(S) = 1
      BY <3>2, FS_Singleton
    <3> QED  BY <2>3, <3>1, <3>2
  <2> QED  BY <2>1, <2>4 DEF CancelsAnswered
<1> QED  BY <1>1, FlowInvariant, PTL

\* A set of numbers that is not empty has a least one.
LEMMA LeastNumber ==
    ASSUME NEW S \in SUBSET Nat, S # {}
    PROVE  \E k \in S : \A j \in S : ~(j < k)
<1>1. \A j, k \in Nat : j < k => <<j, k>> \in OpToRel(<, Nat)
  BY Zenon DEF OpToRel
<1>2. \E k \in S : \A j \in S : ~(<<j, k>> \in OpToRel(<, Nat))
  BY NatLessThanWellFounded, WFMin, Zenon
<1> QED  BY <1>1, <1>2

\* Where an order number is queued, DeleteIfHaveTask finds a task.
LEMMA FirstExists ==
    ASSUME NEW s, Len(s) \in Nat, NEW c, NEW i \in 1..Len(s), s[i].msg.cl = c
    PROVE  FirstOf(s, c) # {}
<1> DEFINE S == {j \in 1..Len(s) : s[j].msg.cl = c}
<1>1. PICK k \in S : \A j \in S : ~(j < k)
  <2>1. S \in SUBSET Nat /\ S # {}
    OBVIOUS
  <2> HIDE DEF S
  <2> QED  BY <2>1, LeastNumber
<1>2. \A j \in 1..k - 1 : j \in 1..Len(s) /\ j < k
  OBVIOUS
<1> QED  BY <1>1, <1>2 DEF FirstOf

\* A cancel that says "no such order, it has been processed" is right: no
\* matching thread holds the order or has it queued, because a cancel goes to
\* the thread of its order's key and that thread is at the cancel.
LEMMA RefusalRight ==
    ASSUME FlowInv, NEW k \in MThread, Cancel_Fail(k), NEW n \in MThread
    PROVE  /\ match[n].msg # None /\ match[n].pc \in {"trade", "requeue"} =>
                  match[n].msg.cl # match[k].msg.orig
           /\ \A i \in 1..Len(p3_que[n]) : p3_que[n][i].msg.cl # match[k].msg.orig
<1>1. QuesTyped /\ MatchTyped /\ ServedQueues /\ ServedHands
  BY DEF FlowInv, TypeInv, Served
<1>2. match[k].msg \in Cancel /\ match[k].pc = "cancel" /\ ThreadOf(match[k].msg) = k
  BY <1>1 DEF Cancel_Fail, AtMatch, MatchTyped, ServedHands
<1>3. ASSUME NEW o \in Order, ThreadOf(o) = n, o.cl = match[k].msg.orig
      PROVE  n = k
  BY <1>2, <1>3, KeyAssumption DEF ThreadOf
<1>4. ASSUME match[n].pc \in {"trade", "requeue"}, match[n].msg.cl = match[k].msg.orig
      PROVE  FALSE
  <2>1. match[n].msg \in Order /\ ThreadOf(match[n].msg) = n
    BY <1>1, <1>4 DEF MatchTyped, ServedHands
  <2> QED  BY <1>2, <1>3, <1>4, <2>1
<1>5. ASSUME NEW i \in 1..Len(p3_que[n]), p3_que[n][i].msg.cl = match[k].msg.orig
      PROVE  FALSE
  <2>1. p3_que[n][i].msg \in Order /\ ThreadOf(p3_que[n][i].msg) = n
    BY <1>1, FoundTask DEF ServedQueues
  <2>2. n = k
    BY <1>3, <1>5, <2>1
  <2>3. Len(p3_que[k]) \in Nat
    BY <1>1 DEF QuesTyped
  <2>4. FirstOf(p3_que[k], match[k].msg.orig) # {}
    BY <1>5, <2>2, <2>3, FirstExists
  <2> QED  BY <2>4 DEF Cancel_Fail
<1> QED  BY <1>4, <1>5

\* ProcCancelFail_OrigIsProc is right as far as all matching threads are
\* concerned: whatever step reports such a refusal, no thread has the order in
\* its hands or in its queue at that moment.
THEOREM FlowCancelMissesNothing == Spec => CancelMissesNothing
<1> DEFINE Right ==
      \A m \in MThread :
         Len(g_outMsg_buffer') > Len(g_outMsg_buffer)
           /\ Last(g_outMsg_buffer').kind = "CxlReject"
           /\ Last(g_outMsg_buffer').msg = match[m].msg
         => \A n \in MThread :
              /\ match[n].msg # None /\ match[n].pc \in {"trade", "requeue"} =>
                     match[n].msg.cl # match[m].msg.orig
              /\ \A i \in 1..Len(p3_que[n]) :
                     p3_que[n][i].msg.cl # match[m].msg.orig
<1>1. ASSUME FlowInv, [Next]_vars, NEW m \in MThread,
             Len(g_outMsg_buffer') > Len(g_outMsg_buffer),
             Last(g_outMsg_buffer').kind = "CxlReject",
             Last(g_outMsg_buffer').msg = match[m].msg,
             NEW n \in MThread
      PROVE  /\ match[n].msg # None /\ match[n].pc \in {"trade", "requeue"} =>
                    match[n].msg.cl # match[m].msg.orig
             /\ \A i \in 1..Len(p3_que[n]) : p3_que[n][i].msg.cl # match[m].msg.orig
  <2>0. TypeInv /\ MatchTyped /\ ReportsTyped /\ ValidTyped
    BY <1>1 DEF FlowInv, TypeInv
  <2>1. Len(g_outMsg_buffer) \in Nat /\ g_outMsg_buffer' # g_outMsg_buffer
    BY <1>1, <2>0 DEF ReportsTyped
  <2>2. ASSUME NEW r \in ReportType, PushBack(r)
        PROVE  r.kind = "CxlReject" /\ r.msg = match[m].msg
    BY <1>1, <2>0, <2>2 DEF PushBack, ReportsTyped, Last
  <2>3. PICK k \in MThread : Cancel_Fail(k)
    <3>1. ASSUME NEW x \in Msg, NEW y \in Msg, NEW a \in Nat, NEW b \in Nat, NEW c \in Nat,
                 NEW kind \in ReportKind, PushBack(Report(x, y, kind, a, b, c))
          PROVE  kind = "CxlReject"
      BY <2>2, <3>1 DEF Report, ReportType
    <3>2. ~DistStep /\ ~(UNCHANGED vars) /\ \A x \in Msg : ~Arrive(x)
      BY <2>1 DEF DistStep, Dist_Pop, Dist_Scan, Dist_Assign, Arrive, vars, reports
    <3>3. ASSUME NEW v \in VThread, ValidStep(v) PROVE FALSE
      <4>1. CASE Valid_Validate(v)
        <5>1. valid[v].msg \in Msg
          BY <2>0, <4>1 DEF Valid_Validate, AtValid, ValidTyped
        <5>2. PushBack(Report(valid[v].msg, valid[v].msg, "Error", 0, 0, 0))
          BY <2>1, <4>1 DEF Valid_Validate, reports
        <5> QED  BY <3>1, <5>1, <5>2 DEF ReportKind
      <4>2. CASE Valid_Confirm(v)
        <5>1. valid[v].msg \in Msg /\ valid[v].msg.qty \in Nat
          BY <2>0, <4>2, MessageFields DEF Valid_Confirm, AtValid, ValidTyped
        <5> QED  BY <3>1, <4>2, <5>1 DEF Valid_Confirm, ReportKind
      <4> QED  BY <2>1, <3>3, <4>1, <4>2 DEF ValidStep, Valid_Get, Valid_Check, Valid_Record,
                                             Valid_Gen, reports
    <3>4. ASSUME NEW k \in MThread, MatchOrder(k) PROVE FALSE
      <4>0. /\ match[k].msg \in Msg /\ match[k].leaves \in Nat
        BY <2>0, <3>4, MatchOutcome
      <4>1. ASSUME NEW a \in 1..match[k].leaves, NEW cum \in Nat, Trade(k, a, cum)
            PROVE  FALSE
        <5>1. a \in Nat /\ match[k].leaves - a \in Nat
          BY <4>0, <4>1
        <5> QED  BY <3>1, <4>0, <4>1, <5>1 DEF Trade, ReportKind
      <4>2. CASE Put_Back(k)
        BY <2>1, <4>2 DEF Put_Back, reports
      <4>3. CASE PushBack(Report(match[k].msg, match[k].msg, "Error", 0, 0, 0))
        BY <3>1, <4>0, <4>3 DEF ReportKind
      <4> QED  BY <2>0, <3>4, <4>1, <4>2, <4>3, MatchOutcome
    <3>5. ASSUME NEW k \in MThread, Cancel_Success(k) PROVE FALSE
      <4>1. PICK i \in 1..Len(p3_que[k]) :
               PushBack(Report(match[k].msg, p3_que[k][i].msg, "Cancelled", p3_que[k][i].leaves,
                               0, p3_que[k][i].msg.qty - p3_que[k][i].leaves))
        BY <3>5 DEF Cancel_Success, FirstOf
      <4>2. /\ p3_que[k][i].msg \in Order /\ p3_que[k][i].msg.qty \in Nat
            /\ p3_que[k][i].leaves \in 1..p3_que[k][i].msg.qty
        BY <2>0, FoundTask DEF TypeInv
      <4>3. /\ p3_que[k][i].msg \in Msg /\ p3_que[k][i].leaves \in Nat
            /\ p3_que[k][i].msg.qty - p3_que[k][i].leaves \in Nat
        BY <4>2 DEF Order
      <4>4. match[k].msg \in Msg
        BY <2>0, <3>5 DEF Cancel_Success, AtMatch, MatchTyped, Cancel
      <4> QED  BY <3>1, <4>1, <4>3, <4>4 DEF ReportKind
    <3>6. \A k \in MThread : ~Match_Get(k) /\ ~Match_Requeue(k)
      BY <2>1 DEF Match_Get, Match_Requeue, reports
    <3> QED  BY <1>1, <3>2, <3>3, <3>4, <3>5, <3>6 DEF Next, MatchStep
  <2>4. match[k].msg \in Cancel /\ match[k].msg \in Msg /\ match[k].pc # "get"
    BY <2>0, <2>3 DEF Cancel_Fail, AtMatch, MatchTyped, Cancel
  <2>5. match[k].msg = match[m].msg
    <3>1. Report(match[k].msg, match[k].msg, "CxlReject", 0, 0, 0) \in ReportType
      BY <2>4 DEF Report, ReportType, ReportKind
    <3> QED  BY <2>2, <2>3, <3>1 DEF Cancel_Fail, Report
  <2> QED  BY <1>1, <2>3, <2>5, RefusalRight
<1>2. FlowInv /\ [Next]_vars => [Right]_vars
  BY <1>1
<1>3. Spec => [][Right]_vars
  BY <1>2, FlowInvariant, PTL DEF Spec
<1> QED  BY <1>3 DEF CancelMissesNothing
=============================================================================
