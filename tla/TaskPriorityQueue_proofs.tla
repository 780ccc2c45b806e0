---------------------- MODULE TaskPriorityQueue_proofs ----------------------
(***************************************************************************)
(* Proofs about TaskPriorityQueue for every set of tasks, keys and order   *)
(* numbers and every queue limit.                                          *)
(***************************************************************************)
EXTENDS TaskPriorityQueue, SequenceTheorems, FiniteSetTheorems, SumTheorems, TLAPS

-----------------------------------------------------------------------------
(* What the sequence operations of the queue do to the tasks they hold.    *)

\* The tasks of a queue are those at its positions.
LEMMA TaskOfQueue ==
    ASSUME NEW S, NEW s \in Seq(S)
    PROVE  /\ \A i \in 1..Len(s) : s[i] \in ToSet(s) /\ s[i] \in S
           /\ \A x \in ToSet(s) : \E i \in 1..Len(s) : x = s[i]
BY DEF ToSet

\* push_back adds the task and nothing else.
LEMMA AppendTask ==
    ASSUME NEW S, NEW s \in Seq(S), NEW e \in S
    PROVE  /\ Append(s, e) \in Seq(S)
           /\ ToSet(Append(s, e)) = ToSet(s) \cup {e}
           /\ NoDuplicate(s) /\ e \notin ToSet(s) => NoDuplicate(Append(s, e))
<1>1. /\ Append(s, e) \in Seq(S)
      /\ Len(Append(s, e)) = Len(s) + 1
      /\ DOMAIN Append(s, e) = 1..Len(s) + 1
      /\ DOMAIN s = 1..Len(s)
      /\ \A i \in 1..Len(s) : Append(s, e)[i] = s[i]
      /\ Append(s, e)[Len(s) + 1] = e
  OBVIOUS
<1>2. ToSet(Append(s, e)) = ToSet(s) \cup {e}
  BY <1>1 DEF ToSet
<1>3. NoDuplicate(s) /\ e \notin ToSet(s) => NoDuplicate(Append(s, e))
  BY <1>1 DEF NoDuplicate, ToSet
<1> QED  BY <1>1, <1>2, <1>3

\* front and pop_front take one task out.
LEMMA TailTask ==
    ASSUME NEW S, NEW s \in Seq(S), s # <<>>, NoDuplicate(s)
    PROVE  /\ Head(s) \in S
           /\ Head(s) \in ToSet(s)
           /\ Tail(s) \in Seq(S)
           /\ ToSet(Tail(s)) = ToSet(s) \ {Head(s)}
           /\ NoDuplicate(Tail(s))
<1> DEFINE r == Tail(s)
<1>1. /\ Len(s) \in Nat /\ Len(s) >= 1
      /\ Head(s) = s[1] /\ s[1] \in S
      /\ r \in Seq(S)
      /\ Len(r) = Len(s) - 1
      /\ \A i \in 1..Len(s) - 1 : r[i] = s[i + 1]
  OBVIOUS
<1> HIDE DEF r
<1>2. DOMAIN r = 1..Len(s) - 1 /\ DOMAIN s = 1..Len(s)
  BY <1>1
<1>3. \A i \in 1..Len(s) : i # 1 => i - 1 \in 1..Len(s) - 1 /\ r[i - 1] = s[i]
  BY <1>1
<1>4. ToSet(r) = ToSet(s) \ {s[1]}
  <2>1. ASSUME NEW x \in ToSet(r) PROVE x \in ToSet(s) \ {s[1]}
    <3>1. PICK i \in 1..Len(s) - 1 : x = r[i]
      BY <1>1, TaskOfQueue
    <3>2. x = s[i + 1] /\ i + 1 \in 1..Len(s) /\ 1 \in 1..Len(s) /\ i + 1 # 1
      BY <1>1, <3>1
    <3> QED  BY <3>2, TaskOfQueue DEF NoDuplicate
  <2>2. ASSUME NEW x \in ToSet(s) \ {s[1]} PROVE x \in ToSet(r)
    <3>1. PICK i \in 1..Len(s) : x = s[i] /\ i # 1
      BY TaskOfQueue
    <3> QED  BY <1>1, <1>3, <3>1, TaskOfQueue
  <2> QED  BY <2>1, <2>2
<1>5. NoDuplicate(r)
  BY <1>1, <1>2 DEF NoDuplicate
<1>6. s[1] \in ToSet(s)
  BY <1>1, <1>2 DEF ToSet
<1> QED  BY <1>1, <1>4, <1>5, <1>6 DEF r

\* What erase leaves.
LEMMA RemoveIs ==
    ASSUME NEW S, NEW s \in Seq(S), NEW i \in 1..Len(s)
    PROVE  /\ RemoveAt(s, i) \in Seq(S)
           /\ Len(RemoveAt(s, i)) = Len(s) - 1
           /\ \A j \in 1..Len(s) - 1 : RemoveAt(s, i)[j] = IF j < i THEN s[j] ELSE s[j + 1]
<1> DEFINE a == SubSeq(s, 1, i - 1)
           b == SubSeq(s, i + 1, Len(s))
           r == RemoveAt(s, i)
<1>0. i \in Nat /\ Len(s) \in Nat /\ 1 <= i /\ i <= Len(s)
  OBVIOUS
<1>1. a \in Seq(S) /\ Len(a) = i - 1 /\ \A j \in 1..i - 1 : a[j] = s[j]
  BY <1>0, SubSeqProperties
<1>2. b \in Seq(S) /\ Len(b) = Len(s) - i /\ \A j \in 1..Len(s) - i : b[j] = s[j + i]
  BY <1>0, SubSeqProperties
<1>3. r = a \o b
  BY DEF RemoveAt
<1> HIDE DEF a, b, r
<1>4. /\ r \in Seq(S)
      /\ Len(r) = Len(s) - 1
      /\ \A j \in 1..Len(s) - 1 : r[j] = IF j < i THEN s[j] ELSE s[j + 1]
  <2>1. /\ a \o b \in Seq(S)
        /\ Len(a \o b) = Len(a) + Len(b)
        /\ \A j \in 1..Len(a) + Len(b) :
             (a \o b)[j] = IF j <= Len(a) THEN a[j] ELSE b[j - Len(a)]
    BY <1>1, <1>2, ConcatProperties
  <2>2. Len(a) = i - 1 /\ Len(a) + Len(b) = Len(s) - 1
    BY <1>0, <1>1, <1>2
  <2>3. /\ r \in Seq(S)
        /\ Len(r) = Len(s) - 1
        /\ \A j \in 1..Len(s) - 1 : r[j] = IF j <= i - 1 THEN a[j] ELSE b[j - (i - 1)]
    BY <1>3, <2>1, <2>2
  <2>4. ASSUME NEW j \in 1..Len(s) - 1
        PROVE  r[j] = IF j < i THEN s[j] ELSE s[j + 1]
    <3>1. CASE j < i
      <4>1. j \in 1..i - 1 /\ j <= i - 1
        BY <1>0, <3>1
      <4> QED  BY <1>1, <2>3, <3>1, <4>1
    <3>2. CASE ~(j < i)
      <4>1. /\ j - (i - 1) \in 1..Len(s) - i
            /\ (j - (i - 1)) + i = j + 1
            /\ ~(j <= i - 1)
        BY <1>0, <3>2
      <4> QED  BY <1>2, <2>3, <3>2, <4>1
    <3> QED  BY <3>1, <3>2
  <2> QED  BY <2>3, <2>4
<1> QED  BY <1>4 DEF r

\* erase takes one task out.
LEMMA RemoveTask ==
    ASSUME NEW S, NEW s \in Seq(S), NEW i \in 1..Len(s), NoDuplicate(s)
    PROVE  /\ s[i] \in S
           /\ s[i] \in ToSet(s)
           /\ RemoveAt(s, i) \in Seq(S)
           /\ ToSet(RemoveAt(s, i)) = ToSet(s) \ {s[i]}
           /\ NoDuplicate(RemoveAt(s, i))
<1> DEFINE r == RemoveAt(s, i)
<1>0. i \in Nat /\ Len(s) \in Nat /\ 1 <= i /\ i <= Len(s)
  OBVIOUS
<1>4. /\ r \in Seq(S)
      /\ Len(r) = Len(s) - 1
      /\ \A j \in 1..Len(s) - 1 : r[j] = IF j < i THEN s[j] ELSE s[j + 1]
  BY RemoveIs
<1> HIDE DEF r
<1>5. DOMAIN r = 1..Len(s) - 1 /\ DOMAIN s = 1..Len(s)
  BY <1>0, <1>4
<1>6. \A j \in 1..Len(s) : j # i =>
        IF j < i THEN j \in 1..Len(s) - 1 /\ r[j] = s[j]
                 ELSE j - 1 \in 1..Len(s) - 1 /\ r[j - 1] = s[j]
  BY <1>0, <1>4
<1>7. ToSet(r) = ToSet(s) \ {s[i]}
  <2>1. ASSUME NEW x \in ToSet(r) PROVE x \in ToSet(s) \ {s[i]}
    <3>1. PICK j \in 1..Len(s) - 1 : x = r[j]
      BY <1>4, TaskOfQueue
    <3>2. PICK k \in 1..Len(s) : k # i /\ x = s[k]
      <4>1. CASE j < i
        BY <1>0, <1>4, <3>1, <4>1
      <4>2. CASE ~(j < i)
        <5>1. x = s[j + 1] /\ j + 1 \in 1..Len(s) /\ j + 1 # i
          BY <1>0, <1>4, <3>1, <4>2
        <5> QED  BY <5>1
      <4> QED  BY <4>1, <4>2
    <3> QED  BY <3>2, TaskOfQueue DEF NoDuplicate
  <2>2. ASSUME NEW x \in ToSet(s) \ {s[i]} PROVE x \in ToSet(r)
    <3>1. PICK j \in 1..Len(s) : x = s[j] /\ j # i
      BY TaskOfQueue
    <3> QED  BY <1>4, <1>6, <3>1, TaskOfQueue
  <2> QED  BY <2>1, <2>2
<1>8. NoDuplicate(r)
  BY <1>0, <1>4, <1>5 DEF NoDuplicate
<1> QED  BY <1>4, <1>7, <1>8, TaskOfQueue DEF r

\* What insert makes.
LEMMA InsertIs ==
    ASSUME NEW S, NEW s \in Seq(S), NEW e \in S, NEW i \in 1..Len(s) + 1
    PROVE  /\ InsertAt(s, i, e) \in Seq(S)
           /\ Len(InsertAt(s, i, e)) = Len(s) + 1
           /\ \A j \in 1..Len(s) + 1 :
                InsertAt(s, i, e)[j] = IF j < i THEN s[j] ELSE IF j = i THEN e ELSE s[j - 1]
<1> DEFINE a == SubSeq(s, 1, i - 1)
           b == SubSeq(s, i, Len(s))
           r == InsertAt(s, i, e)
<1>0. i \in Nat /\ Len(s) \in Nat /\ 1 <= i /\ i <= Len(s) + 1
  OBVIOUS
<1>1. a \in Seq(S) /\ Len(a) = i - 1 /\ \A j \in 1..i - 1 : a[j] = s[j]
  BY <1>0, SubSeqProperties
<1>2. /\ b \in Seq(S) /\ Len(b) = Len(s) - i + 1
      /\ \A j \in 1..Len(s) - i + 1 : b[j] = s[j + i - 1]
  BY <1>0, SubSeqProperties
<1>3. r = (a \o <<e>>) \o b
  BY DEF InsertAt
<1> HIDE DEF a, b
<1>4. /\ a \o <<e>> \in Seq(S)
      /\ Len(a \o <<e>>) = i
      /\ \A j \in 1..i - 1 : (a \o <<e>>)[j] = s[j]
      /\ (a \o <<e>>)[i] = e
  BY <1>0, <1>1, ConcatProperties
<1>5. /\ r \in Seq(S)
      /\ Len(r) = Len(s) + 1
      /\ \A j \in 1..Len(s) + 1 :
           r[j] = IF j < i THEN s[j] ELSE IF j = i THEN e ELSE s[j - 1]
  <2> DEFINE c == a \o <<e>>
  <2>1. c \in Seq(S) /\ Len(c) = i /\ r = c \o b
    BY <1>3, <1>4
  <2> HIDE DEF c
  <2>2. /\ r \in Seq(S)
        /\ Len(r) = Len(s) + 1
        /\ \A j \in 1..Len(s) + 1 : r[j] = IF j <= i THEN c[j] ELSE b[j - i]
    <3>1. /\ c \o b \in Seq(S)
          /\ Len(c \o b) = Len(c) + Len(b)
          /\ \A j \in 1..Len(c) + Len(b) :
               (c \o b)[j] = IF j <= Len(c) THEN c[j] ELSE b[j - Len(c)]
      BY <1>2, <2>1, ConcatProperties
    <3>2. Len(c) = i /\ Len(c) + Len(b) = Len(s) + 1 /\ r = c \o b
      BY <1>0, <1>2, <2>1
    <3> QED  BY <3>1, <3>2
  <2>3. \A j \in 1..Len(s) + 1 : j > i => j - i \in 1..Len(s) - i + 1 /\ b[j - i] = s[j - 1]
    <3>1. ASSUME NEW j \in 1..Len(s) + 1, j > i
          PROVE  j - i \in 1..Len(s) - i + 1 /\ (j - i) + i - 1 = j - 1
      BY <1>0, <3>1
    <3> QED  BY <1>2, <3>1
  <2>4. \A j \in 1..Len(s) + 1 : j < i => c[j] = s[j]
    BY <1>0, <1>4 DEF c
  <2>5. c[i] = e
    BY <1>4 DEF c
  <2>6. ASSUME NEW j \in 1..Len(s) + 1
        PROVE  r[j] = IF j < i THEN s[j] ELSE IF j = i THEN e ELSE s[j - 1]
    <3>1. CASE j < i
      <4>1. j <= i
        BY <1>0, <3>1
      <4> QED  BY <2>2, <2>4, <3>1, <4>1
    <3>2. CASE j = i
      <4>1. j <= i /\ ~(j < i)
        BY <1>0, <3>2
      <4> QED  BY <2>2, <2>5, <3>2, <4>1
    <3>3. CASE j > i
      <4>1. ~(j <= i) /\ ~(j < i) /\ j # i
        BY <1>0, <3>3
      <4> QED  BY <2>2, <2>3, <3>3, <4>1
    <3> QED  BY <1>0, <3>1, <3>2, <3>3
  <2> QED  BY <2>2, <2>6
<1> QED  BY <1>5 DEF r

\* insert adds the task at a position of the deque and nothing else.
LEMMA InsertTask ==
    ASSUME NEW S, NEW s \in Seq(S), NEW e \in S, NEW i \in 1..Len(s) + 1
    PROVE  /\ InsertAt(s, i, e) \in Seq(S)
           /\ ToSet(InsertAt(s, i, e)) = ToSet(s) \cup {e}
           /\ NoDuplicate(s) /\ e \notin ToSet(s) => NoDuplicate(InsertAt(s, i, e))
<1> DEFINE r == InsertAt(s, i, e)
<1>0. i \in Nat /\ Len(s) \in Nat /\ 1 <= i /\ i <= Len(s) + 1
  OBVIOUS
<1>5. /\ r \in Seq(S)
      /\ Len(r) = Len(s) + 1
      /\ \A j \in 1..Len(s) + 1 :
           r[j] = IF j < i THEN s[j] ELSE IF j = i THEN e ELSE s[j - 1]
  BY InsertIs
<1> HIDE DEF r
<1>6. DOMAIN r = 1..Len(s) + 1 /\ DOMAIN s = 1..Len(s)
  BY <1>0, <1>5
<1>7. \A j \in 1..Len(s) :
        IF j < i THEN j \in 1..Len(s) + 1 /\ r[j] = s[j]
                 ELSE j + 1 \in 1..Len(s) + 1 /\ r[j + 1] = s[j]
  BY <1>0, <1>5
<1>8. ToSet(r) = ToSet(s) \cup {e}
  <2>1. ASSUME NEW x \in ToSet(r) PROVE x \in ToSet(s) \cup {e}
    <3>1. PICK j \in 1..Len(s) + 1 : x = r[j]
      BY <1>5, TaskOfQueue
    <3>2. CASE j < i
      BY <1>0, <1>5, <3>1, <3>2, TaskOfQueue
    <3>3. CASE j = i
      BY <1>0, <1>5, <3>1, <3>3
    <3>4. CASE j > i
      <4>1. x = s[j - 1] /\ j - 1 \in 1..Len(s)
        BY <1>0, <1>5, <3>1, <3>4
      <4> QED  BY <4>1, TaskOfQueue
    <3> QED  BY <1>0, <3>2, <3>3, <3>4
  <2>2. ASSUME NEW x \in ToSet(s) PROVE x \in ToSet(r)
    <3>1. PICK j \in 1..Len(s) : x = s[j]
      BY TaskOfQueue
    <3> QED  BY <1>5, <1>7, <3>1, TaskOfQueue
  <2>3. e \in ToSet(r)
    BY <1>0, <1>5, TaskOfQueue
  <2> QED  BY <2>1, <2>2, <2>3
<1>9. ASSUME NoDuplicate(s), e \notin ToSet(s) PROVE NoDuplicate(r)
  <2>1. \A j \in 1..Len(s) : s[j] # e
    BY <1>6, <1>9 DEF ToSet
  <2> QED  BY <1>0, <1>5, <1>6, <1>9, <2>1 DEF NoDuplicate
<1> QED  BY <1>5, <1>8, <1>9 DEF r
-----------------------------------------------------------------------------
(* How each operation changes the set of queued tasks.                     *)

\* The five queues as one fact, so that the steps below need not open it.
Queued == QueuesTyped /\ OnceInItsQueue

\* The ordered queues after the deque of one key has changed.
LEMMA OrderedAfter ==
    ASSUME NEW q \in [Key -> Seq(Task)], NEW k \in Key, NEW r \in Seq(Task)
    PROVE  /\ [q EXCEPT ![k] = r] \in [Key -> Seq(Task)]
           /\ [q EXCEPT ![k] = r][k] = r
           /\ \A j \in Key : j # k => [q EXCEPT ![k] = r][j] = q[j]
OBVIOUS

\* The tasks of the ordered queues are those of the deques.
LEMMA TaskOfOrdered ==
    ASSUME NEW q
    PROVE  \A x : x \in TasksOf(q) <=> \E j \in Key : x \in ToSet(q[j])
BY DEF TasksOf

\* AddTask queues the task it accepts and changes nothing else.
LEMMA AddPending ==
    ASSUME Queued, NEW t \in Task, t \notin Pending,
           \/ AddToP1(t) \/ AddToP2(t) \/ AddToP3Order(t)
           \/ AddToP3Unorder(t) \/ AddToP4(t)
    PROVE  Queued' /\ Pending' = Pending \cup {t}
<1> USE DEF Queued, QueuesTyped
<1>0. /\ t \notin ToSet(m_p1_que) /\ t \notin ToSet(m_p2_que)
      /\ t \notin ToSet(m_p3_unorder_que) /\ t \notin ToSet(m_p4_que)
      /\ \A k \in Key : t \notin ToSet(m_p3_order_que[k])
      /\ t.key \in Key
  BY TaskAssumption DEF Pending, QueuedOrdered, TasksOf
<1>1. CASE AddToP1(t)
  <2>1. /\ m_p1_que' \in Seq(Task)
        /\ ToSet(m_p1_que') = ToSet(m_p1_que) \cup {t}
        /\ NoDuplicate(m_p1_que')
    BY <1>0, <1>1, AppendTask DEF AddToP1, OnceInItsQueue
  <2> QED  BY <1>1, <2>1 DEF AddToP1, OnceInItsQueue, InItsQueue, Pending, QueuedOrdered
<1>2. CASE AddToP2(t)
  <2>1. /\ m_p2_que' \in Seq(Task)
        /\ ToSet(m_p2_que') = ToSet(m_p2_que) \cup {t}
        /\ NoDuplicate(m_p2_que')
    BY <1>0, <1>2, AppendTask DEF AddToP2, OnceInItsQueue
  <2> QED  BY <1>2, <2>1 DEF AddToP2, OnceInItsQueue, InItsQueue, Pending, QueuedOrdered
<1>3. CASE AddToP3Unorder(t)
  <2>1. /\ m_p3_unorder_que' \in Seq(Task)
        /\ ToSet(m_p3_unorder_que') = ToSet(m_p3_unorder_que) \cup {t}
        /\ NoDuplicate(m_p3_unorder_que')
    BY <1>0, <1>3, AppendTask DEF AddToP3Unorder, OnceInItsQueue
  <2> QED  BY <1>3, <2>1 DEF AddToP3Unorder, OnceInItsQueue, InItsQueue, Pending, QueuedOrdered
<1>4. CASE AddToP4(t)
  <2>1. /\ m_p4_que' \in Seq(Task)
        /\ ToSet(m_p4_que') = ToSet(m_p4_que) \cup {t}
        /\ NoDuplicate(m_p4_que')
    BY <1>0, <1>4, AppendTask DEF AddToP4, OnceInItsQueue
  <2> QED  BY <1>4, <2>1 DEF AddToP4, OnceInItsQueue, InItsQueue, Pending, QueuedOrdered
<1>5. CASE AddToP3Order(t)
  <2> DEFINE s == m_p3_order_que[t.key]
             r == Deque_Insert(s, t)
  <2>1. s \in Seq(Task) /\ NoDuplicate(s) /\ t \notin ToSet(s)
    BY <1>0 DEF OnceInItsQueue
  <2>2. InsertPos(s, t) + 1 \in 1..Len(s) + 1
    <3>1. InsertPos(s, t) \in 0..Len(s)
      BY <1>5 DEF AddToP3Order
    <3>2. Len(s) \in Nat
      BY <2>1
    <3> QED  BY <3>1, <3>2
  <2>3. r \in Seq(Task) /\ ToSet(r) = ToSet(s) \cup {t} /\ NoDuplicate(r)
    BY <2>1, <2>2, InsertTask DEF Deque_Insert
  <2>4. m_p3_order_que' = [m_p3_order_que EXCEPT ![t.key] = r]
    BY <1>5 DEF AddToP3Order
  <2> HIDE DEF r
  <2>5. /\ m_p3_order_que' \in [Key -> Seq(Task)]
        /\ m_p3_order_que'[t.key] = r
        /\ \A j \in Key : j # t.key => m_p3_order_que'[j] = m_p3_order_que[j]
    BY <1>0, <2>3, <2>4, OrderedAfter
  <2>6. QueuedOrdered' = QueuedOrdered \cup {t}
    <3>1. ToSet(m_p3_order_que'[t.key]) = ToSet(m_p3_order_que[t.key]) \cup {t}
      BY <2>3, <2>5
    <3>2. \A x : x \in TasksOf(m_p3_order_que)
                    <=> \E j \in Key : x \in ToSet(m_p3_order_que[j])
      BY TaskOfOrdered
    <3>3. \A x : x \in TasksOf(m_p3_order_que')
                    <=> \E j \in Key : x \in ToSet(m_p3_order_que'[j])
      BY TaskOfOrdered
    <3>4. TasksOf(m_p3_order_que') = TasksOf(m_p3_order_que) \cup {t}
      BY <1>0, <2>5, <3>1, <3>2, <3>3
    <3> QED  BY <3>4 DEF QueuedOrdered
  <2>7. UNCHANGED <<m_p1_que, m_p2_que, m_p3_unorder_que, m_p4_que>>
    BY <1>5 DEF AddToP3Order
  <2>8. Pending' = Pending \cup {t}
    BY <2>6, <2>7 DEF Pending
  <2>9. InItsQueue'
    BY <1>5, <2>3, <2>5, <2>7 DEF OnceInItsQueue, InItsQueue, AddToP3Order
  <2> QED  BY <2>3, <2>5, <2>7, <2>8, <2>9 DEF OnceInItsQueue
<1> QED  BY <1>1, <1>2, <1>3, <1>4, <1>5

\* q1 is the queue q with the task t taken out.
Loses(q, q1, t) ==
    /\ t \in Task
    /\ t \in ToSet(q)
    /\ q1 \in Seq(Task)
    /\ ToSet(q1) = ToSet(q) \ {t}
    /\ NoDuplicate(q1)

\* One of the queues loses the task t.
SomeLoses(t) ==
    \/ /\ Loses(m_p1_que, m_p1_que', t)
       /\ UNCHANGED <<m_p2_que, m_p3_order_que, m_p3_unorder_que, m_p4_que>>
    \/ /\ Loses(m_p2_que, m_p2_que', t)
       /\ UNCHANGED <<m_p1_que, m_p3_order_que, m_p3_unorder_que, m_p4_que>>
    \/ /\ Loses(m_p3_unorder_que, m_p3_unorder_que', t)
       /\ UNCHANGED <<m_p1_que, m_p2_que, m_p3_order_que, m_p4_que>>
    \/ /\ Loses(m_p4_que, m_p4_que', t)
       /\ UNCHANGED <<m_p1_que, m_p2_que, m_p3_order_que, m_p3_unorder_que>>
    \/ \E k \in Key, r \in Seq(Task) :
          /\ Loses(m_p3_order_que[k], r, t)
          /\ m_p3_order_que' = [m_p3_order_que EXCEPT ![k] = r]
          /\ UNCHANGED <<m_p1_que, m_p2_que, m_p3_unorder_que, m_p4_que>>

\* No task is in two queues.
LEMMA QueuesDisjoint ==
    ASSUME InItsQueue
    PROVE  /\ \A x \in ToSet(m_p1_que) :
                /\ x \notin ToSet(m_p2_que) /\ x \notin ToSet(m_p3_unorder_que)
                /\ x \notin ToSet(m_p4_que) /\ x \notin QueuedOrdered
           /\ \A x \in ToSet(m_p2_que) :
                /\ x \notin ToSet(m_p3_unorder_que) /\ x \notin ToSet(m_p4_que)
                /\ x \notin QueuedOrdered
           /\ \A x \in ToSet(m_p3_unorder_que) :
                x \notin ToSet(m_p4_que) /\ x \notin QueuedOrdered
           /\ \A x \in ToSet(m_p4_que) : x \notin QueuedOrdered
<1>1. \A x \in QueuedOrdered : x.prio \in {1, 3} /\ x.ordered
  BY DEF InItsQueue, QueuedOrdered, TasksOf, Level_Standby_Order, Level_Match_Order
<1> QED  BY <1>1 DEF InItsQueue, Level_Standby_Order, Level_Match_Order,
                     Level_Check_Order, Level_Cancel_Order

\* Taking a task out of its queue takes it out of the pending tasks.
LEMMA LosePending ==
    ASSUME Queued, NEW t, SomeLoses(t)
    PROVE  /\ t \in Task /\ t \in Pending
           /\ Queued' /\ Pending' = Pending \ {t}
<1> USE DEF Queued, QueuesTyped
<1>0. InItsQueue
  BY DEF OnceInItsQueue
<1>1. CASE /\ Loses(m_p1_que, m_p1_que', t)
           /\ UNCHANGED <<m_p2_que, m_p3_order_que, m_p3_unorder_que, m_p4_que>>
  <2>1. Pending' = Pending \ {t} /\ t \in Pending
    BY <1>0, <1>1, QueuesDisjoint DEF Pending, QueuedOrdered, Loses
  <2> QED  BY <1>1, <2>1 DEF OnceInItsQueue, InItsQueue, Loses
<1>2. CASE /\ Loses(m_p2_que, m_p2_que', t)
           /\ UNCHANGED <<m_p1_que, m_p3_order_que, m_p3_unorder_que, m_p4_que>>
  <2>1. Pending' = Pending \ {t} /\ t \in Pending
    BY <1>0, <1>2, QueuesDisjoint DEF Pending, QueuedOrdered, Loses
  <2> QED  BY <1>2, <2>1 DEF OnceInItsQueue, InItsQueue, Loses
<1>3. CASE /\ Loses(m_p3_unorder_que, m_p3_unorder_que', t)
           /\ UNCHANGED <<m_p1_que, m_p2_que, m_p3_order_que, m_p4_que>>
  <2>1. Pending' = Pending \ {t} /\ t \in Pending
    BY <1>0, <1>3, QueuesDisjoint DEF Pending, QueuedOrdered, Loses
  <2> QED  BY <1>3, <2>1 DEF OnceInItsQueue, InItsQueue, Loses
<1>4. CASE /\ Loses(m_p4_que, m_p4_que', t)
           /\ UNCHANGED <<m_p1_que, m_p2_que, m_p3_order_que, m_p3_unorder_que>>
  <2>1. Pending' = Pending \ {t} /\ t \in Pending
    BY <1>0, <1>4, QueuesDisjoint DEF Pending, QueuedOrdered, Loses
  <2> QED  BY <1>4, <2>1 DEF OnceInItsQueue, InItsQueue, Loses
<1>5. ASSUME NEW k \in Key, NEW r \in Seq(Task),
             Loses(m_p3_order_que[k], r, t),
             m_p3_order_que' = [m_p3_order_que EXCEPT ![k] = r],
             UNCHANGED <<m_p1_que, m_p2_que, m_p3_unorder_que, m_p4_que>>
      PROVE  t \in Task /\ t \in Pending /\ Queued' /\ Pending' = Pending \ {t}
  <2>1. /\ m_p3_order_que' \in [Key -> Seq(Task)]
        /\ m_p3_order_que'[k] = r
        /\ \A j \in Key : j # k => m_p3_order_que'[j] = m_p3_order_que[j]
    BY <1>5, OrderedAfter
  <2>2. \A j \in Key : j # k => t \notin ToSet(m_p3_order_que[j])
    <3>1. \A j \in Key : \A x \in ToSet(m_p3_order_que[j]) : x.key = j
      BY <1>0 DEF InItsQueue
    <3>2. t \in ToSet(m_p3_order_que[k])
      BY <1>5 DEF Loses
    <3> QED  BY <3>1, <3>2
  <2>3. QueuedOrdered' = QueuedOrdered \ {t}
    <3>1. ToSet(m_p3_order_que'[k]) = ToSet(m_p3_order_que[k]) \ {t}
      BY <1>5, <2>1 DEF Loses
    <3>2. \A x : x \in TasksOf(m_p3_order_que)
                    <=> \E j \in Key : x \in ToSet(m_p3_order_que[j])
      BY TaskOfOrdered
    <3>3. \A x : x \in TasksOf(m_p3_order_que')
                    <=> \E j \in Key : x \in ToSet(m_p3_order_que'[j])
      BY TaskOfOrdered
    <3>4. TasksOf(m_p3_order_que') = TasksOf(m_p3_order_que) \ {t}
      BY <2>1, <2>2, <3>1, <3>2, <3>3
    <3> QED  BY <3>4 DEF QueuedOrdered
  <2>4. t \in QueuedOrdered
    BY <1>5 DEF QueuedOrdered, TasksOf, Loses
  <2>5. Pending' = Pending \ {t} /\ t \in Pending
    BY <1>0, <1>5, <2>3, <2>4, QueuesDisjoint DEF Pending
  <2>6. InItsQueue'
    BY <1>5, <2>1 DEF OnceInItsQueue, InItsQueue, Loses
  <2> QED  BY <1>5, <2>1, <2>5, <2>6 DEF OnceInItsQueue, Loses
<1> QED  BY <1>1, <1>2, <1>3, <1>4, <1>5 DEF SomeLoses

\* A non-empty queue loses its head to pop_front.
LEMMA TailLoses ==
    ASSUME NEW s \in Seq(Task), s # <<>>, NoDuplicate(s)
    PROVE  Loses(s, Tail(s), Head(s))
BY TailTask DEF Loses

\* A queue loses the task erase is given.
LEMMA EraseLoses ==
    ASSUME NEW s \in Seq(Task), NoDuplicate(s), NEW i \in 1..Len(s)
    PROVE  Loses(s, RemoveAt(s, i), s[i])
BY RemoveTask DEF Loses

\* The return of a task by GetTask.
GetSome ==
    \/ GetFromP4 \/ GetFromP3Unorder \/ GetFromP3Order \/ GetFromP2 \/ GetFromP1

\* t waits in a queue and every queue before that one is empty.
InFirstQueue(t) ==
    \/ t \in ToSet(m_p4_que)
    \/ m_p4_que = <<>> /\ t \in ToSet(m_p3_unorder_que)
    \/ m_p4_que = <<>> /\ m_p3_unorder_que = <<>> /\ t \in QueuedOrdered
    \/ NoMatchTask /\ t \in ToSet(m_p2_que)
    \/ NoMatchTask /\ m_p2_que = <<>> /\ t \in ToSet(m_p1_que)

\* When GetTask finds a task some queue loses it and the worker gets it.
LEMMA GetLoses ==
    ASSUME Queued, GetSome
    PROVE  \E t : SomeLoses(t) /\ Popped(t) /\ InFirstQueue(t)
<1> USE DEF Queued, QueuesTyped, OnceInItsQueue
<1>1. CASE GetFromP4
  <2>1. Loses(m_p4_que, m_p4_que', Head(m_p4_que))
    BY <1>1, TailLoses DEF GetFromP4
  <2> QED  BY <1>1, <2>1 DEF GetFromP4, SomeLoses, InFirstQueue, Loses
<1>2. CASE GetFromP3Unorder
  <2>1. Loses(m_p3_unorder_que, m_p3_unorder_que', Head(m_p3_unorder_que))
    BY <1>2, TailLoses DEF GetFromP3Unorder
  <2> QED  BY <1>2, <2>1 DEF GetFromP3Unorder, SomeLoses, InFirstQueue, Loses
<1>3. CASE GetFromP3Order
  <2>1. PICK k \in Key :
          /\ m_p3_order_que[k] # <<>>
          /\ m_p3_order_que' = [m_p3_order_que EXCEPT ![k] = Tail(m_p3_order_que[k])]
          /\ Popped(Head(m_p3_order_que[k]))
    BY <1>3 DEF GetFromP3Order
  <2>2. Loses(m_p3_order_que[k], Tail(m_p3_order_que[k]), Head(m_p3_order_que[k]))
    BY <2>1, TailLoses
  <2>3. /\ Tail(m_p3_order_que[k]) \in Seq(Task)
        /\ Head(m_p3_order_que[k]) \in QueuedOrdered
    BY <2>2 DEF Loses, QueuedOrdered, TasksOf
  <2> QED  BY <1>3, <2>1, <2>2, <2>3 DEF GetFromP3Order, SomeLoses, InFirstQueue
<1>4. CASE GetFromP2
  <2>1. Loses(m_p2_que, m_p2_que', Head(m_p2_que))
    BY <1>4, TailLoses DEF GetFromP2
  <2> QED  BY <1>4, <2>1 DEF GetFromP2, SomeLoses, InFirstQueue, Loses
<1>5. CASE GetFromP1
  <2>1. Loses(m_p1_que, m_p1_que', Head(m_p1_que))
    BY <1>5, TailLoses DEF GetFromP1
  <2> QED  BY <1>5, <2>1 DEF GetFromP1, SomeLoses, InFirstQueue, Loses
<1> QED  BY <1>1, <1>2, <1>3, <1>4, <1>5 DEF GetSome

\* The return of a task by DeleteIfHaveTask.
DeleteSome(k, c) ==
    \/ DeleteFromP3Order(k, c) \/ DeleteFromP3Unorder(k, c)
    \/ DeleteFromP2(k, c) \/ DeleteFromP1(k, c)

\* When DeleteIfHaveTask finds a task some queue loses it and the cancel gets it.
LEMMA DeleteLoses ==
    ASSUME Queued, NEW k \in Key, NEW c \in Cliordid, DeleteSome(k, c)
    PROVE  \E t : SomeLoses(t) /\ Erased(t) /\ t.cliordid = c
                     /\ (t \in ToSet(m_p3_order_que[k]) \/ t \in ToSet(m_p3_unorder_que)
                           \/ t \in ToSet(m_p2_que) \/ t \in ToSet(m_p1_que))
<1> USE DEF Queued, QueuesTyped, OnceInItsQueue
<1>1. CASE DeleteFromP3Order(k, c)
  <2> DEFINE s == m_p3_order_que[k]
  <2>1. PICK i \in 1..Len(s) :
          /\ s[i].cliordid = c
          /\ m_p3_order_que' = [m_p3_order_que EXCEPT ![k] = RemoveAt(s, i)]
          /\ Erased(s[i])
    BY <1>1 DEF DeleteFromP3Order, FirstOf
  <2>2. Loses(s, RemoveAt(s, i), s[i])
    BY EraseLoses
  <2>3. RemoveAt(s, i) \in Seq(Task) /\ s[i] \in ToSet(s)
    BY <2>2 DEF Loses
  <2> QED  BY <1>1, <2>1, <2>2, <2>3 DEF DeleteFromP3Order, SomeLoses
<1>2. CASE DeleteFromP3Unorder(k, c)
  <2>1. PICK i \in 1..Len(m_p3_unorder_que) :
          /\ m_p3_unorder_que[i].cliordid = c
          /\ m_p3_unorder_que' = RemoveAt(m_p3_unorder_que, i)
          /\ Erased(m_p3_unorder_que[i])
    BY <1>2 DEF DeleteFromP3Unorder, FirstOf
  <2>2. Loses(m_p3_unorder_que, m_p3_unorder_que', m_p3_unorder_que[i])
    BY <2>1, EraseLoses
  <2> QED  BY <1>2, <2>1, <2>2, TaskOfQueue DEF DeleteFromP3Unorder, SomeLoses
<1>3. CASE DeleteFromP2(k, c)
  <2>1. PICK i \in 1..Len(m_p2_que) :
          /\ m_p2_que[i].cliordid = c
          /\ m_p2_que' = RemoveAt(m_p2_que, i)
          /\ Erased(m_p2_que[i])
    BY <1>3 DEF DeleteFromP2, FirstOf
  <2>2. Loses(m_p2_que, m_p2_que', m_p2_que[i])
    BY <2>1, EraseLoses
  <2> QED  BY <1>3, <2>1, <2>2, TaskOfQueue DEF DeleteFromP2, SomeLoses
<1>4. CASE DeleteFromP1(k, c)
  <2>1. PICK i \in 1..Len(m_p1_que) :
          /\ m_p1_que[i].cliordid = c
          /\ m_p1_que' = RemoveAt(m_p1_que, i)
          /\ Erased(m_p1_que[i])
    BY <1>4 DEF DeleteFromP1, FirstOf
  <2>2. Loses(m_p1_que, m_p1_que', m_p1_que[i])
    BY <2>1, EraseLoses
  <2> QED  BY <1>4, <2>1, <2>2, TaskOfQueue DEF DeleteFromP1, SomeLoses
<1> QED  BY <1>1, <1>2, <1>3, <1>4 DEF DeleteSome

-----------------------------------------------------------------------------
(* The inductive invariant.  The count can only be shown exact together    *)
(* with the fact that no task is in two places (a second copy would make   *)
(* the set smaller than the count), and the bound on the count needs both. *)

QueueInv == TypeOK /\ TaskInOnePlace /\ CountIsExact /\ IsFiniteSet(Pending)

\* An empty queue satisfies the invariant.
LEMMA InitInv == Init => QueueInv
<1> SUFFICES ASSUME Init PROVE QueueInv
  OBVIOUS
<1>1. ToSet(<<>>) = {}
  BY DEF ToSet
<1>2. <<>> \in Seq(Task) /\ NoDuplicate(<<>>)
  BY DEF NoDuplicate
<1>3. QueuedOrdered = {}
  BY <1>1 DEF Init, QueuedOrdered, TasksOf
<1>4. Pending = {}
  BY <1>1, <1>3 DEF Init, Pending
<1>5. TypeOK
  BY <1>2, MaxAssumption DEF Init, TypeOK, QueuesTyped
<1>6. TaskInOnePlace
  BY <1>1, <1>2, <1>4 DEF Init, TaskInOnePlace, OnceInItsQueue, InItsQueue
<1> QED  BY <1>4, <1>5, <1>6, FS_EmptySet DEF Init, QueueInv, CountIsExact

\* AddTask, GetTask and DeleteIfHaveTask preserve the invariant.
LEMMA StepInv == QueueInv /\ [Next]_vars => QueueInv'
<1> SUFFICES ASSUME QueueInv, [Next]_vars PROVE QueueInv'
  OBVIOUS
<1>0. /\ Queued /\ IsFiniteSet(Pending)
      /\ m_uiTaskNums = Cardinality(Pending)
      /\ m_uiTaskNums \in Nat /\ m_uiTaskNums <= MAX_QUEUE_SIZE
      /\ MAX_QUEUE_SIZE \in Nat
  BY MaxAssumption DEF QueueInv, TypeOK, TaskInOnePlace, CountIsExact, Queued
<1>1. ASSUME NEW t \in Task, AddTask(t) PROVE QueueInv'
  <2>0. t \notin Pending /\ t \notin taken /\ t \notin deleted /\ t \notin rejected
    BY <1>1 DEF AddTask, Seen
  <2>1. CASE AddTask_Full(t)
    <3>1. Pending' = Pending
      BY <2>1 DEF AddTask_Full, queues, Pending, QueuedOrdered
    <3>2. TypeOK'
      BY <2>1 DEF AddTask_Full, queues, QueueInv, TypeOK, QueuesTyped
    <3>3. TaskInOnePlace'
      BY <2>0, <2>1, <3>1
         DEF AddTask_Full, queues, QueueInv, TaskInOnePlace, OnceInItsQueue, InItsQueue
    <3> QED  BY <1>0, <2>1, <3>1, <3>2, <3>3 DEF AddTask_Full, QueueInv, CountIsExact
  <2>2. CASE ~AddTask_Full(t)
    <3>1. /\ \/ AddToP1(t) \/ AddToP2(t) \/ AddToP3Order(t)
             \/ AddToP3Unorder(t) \/ AddToP4(t)
          /\ m_uiTaskNums < MAX_QUEUE_SIZE
          /\ m_uiTaskNums' = m_uiTaskNums + 1
          /\ iRes' = 0
          /\ UNCHANGED <<taken, deleted, rejected>>
      BY <1>1, <2>2 DEF AddTask, history
    <3>2. Queued' /\ Pending' = Pending \cup {t}
      BY <1>0, <2>0, <3>1, AddPending
    <3>3. IsFiniteSet(Pending') /\ Cardinality(Pending') = Cardinality(Pending) + 1
      BY <1>0, <2>0, <3>2, FS_AddElement
    <3>4. TypeOK'
      BY <1>0, <3>1, <3>2 DEF QueueInv, TypeOK, Queued
    <3>5. TaskInOnePlace'
      BY <2>0, <3>1, <3>2 DEF QueueInv, TaskInOnePlace, Queued
    <3> QED  BY <1>0, <3>1, <3>3, <3>4, <3>5 DEF QueueInv, CountIsExact
  <2> QED  BY <2>1, <2>2
<1>2. ASSUME NEW t, SomeLoses(t),
             \/ Popped(t) \/ Erased(t)
      PROVE  QueueInv'
  <2>1. t \in Task /\ t \in Pending /\ Queued' /\ Pending' = Pending \ {t}
    BY <1>0, <1>2, LosePending
  <2>2. IsFiniteSet(Pending') /\ Cardinality(Pending') = Cardinality(Pending) - 1
    BY <1>0, <2>1, FS_RemoveElement
  <2>3. m_uiTaskNums # 0
    BY <1>0, <2>1, FS_EmptySet
  <2>4. m_uiTaskNums' = m_uiTaskNums - 1 /\ iRes' = 0
    BY <1>2, <2>3 DEF Popped, Erased
  <2>5. \/ taken' = taken \cup {t} /\ UNCHANGED <<deleted, rejected>>
        \/ deleted' = deleted \cup {t} /\ UNCHANGED <<taken, rejected>>
    BY <1>2 DEF Popped, Erased
  <2>6. TypeOK'
    <3>1. m_uiTaskNums' \in 0..MAX_QUEUE_SIZE
      BY <1>0, <2>3, <2>4
    <3> QED  BY <2>1, <2>4, <2>5, <3>1 DEF QueueInv, TypeOK, Queued
  <2>7. TaskInOnePlace'
    BY <2>1, <2>5 DEF QueueInv, TaskInOnePlace, Queued
  <2> QED  BY <1>0, <2>2, <2>4, <2>6, <2>7 DEF QueueInv, CountIsExact
<1>3. ASSUME UNCHANGED <<queues, m_uiTaskNums, history>>, iRes' \in {0, 1, 2}
      PROVE  QueueInv'
  <2>1. Pending' = Pending
    BY <1>3 DEF queues, Pending, QueuedOrdered
  <2>2. TypeOK'
    BY <1>3 DEF queues, history, QueueInv, TypeOK, QueuesTyped
  <2>3. TaskInOnePlace'
    BY <1>3, <2>1
       DEF queues, history, QueueInv, TaskInOnePlace, OnceInItsQueue, InItsQueue
  <2> QED  BY <1>0, <1>3, <2>1, <2>2, <2>3 DEF QueueInv, CountIsExact
<1>4. CASE GetTask
  <2>1. CASE GetSome
    BY <1>0, <1>2, <2>1, GetLoses
  <2>2. CASE GetNothing
    BY <1>3, <2>2 DEF GetNothing
  <2> QED  BY <1>4, <2>1, <2>2 DEF GetTask, GetSome
<1>5. ASSUME NEW k \in Key, NEW c \in Cliordid, DeleteIfHaveTask(k, c) PROVE QueueInv'
  <2>1. CASE DeleteSome(k, c)
    BY <1>0, <1>2, <2>1, DeleteLoses
  <2>2. CASE DeleteNothing(k, c)
    BY <1>3, <2>2 DEF DeleteNothing
  <2> QED  BY <1>5, <2>1, <2>2 DEF DeleteIfHaveTask, DeleteSome
<1>6. CASE UNCHANGED vars
  BY <1>3, <1>6 DEF vars, QueueInv, TypeOK
<1> QED  BY <1>1, <1>4, <1>5, <1>6 DEF Next

\* Every reachable state satisfies the invariant.
THEOREM Invariance == Spec => []QueueInv
BY InitInv, StepInv, PTL DEF Spec

\* Type correctness: the members of the queue keep their types and the count
\* never leaves 0..MAX_QUEUE_SIZE, so the decrement of the unsigned
\* m_uiTaskNums in DeleteIfHaveTask never wraps.
THEOREM TypeCorrect == Spec => []TypeOK
<1>1. QueueInv => TypeOK
  BY DEF QueueInv
<1> QED  BY <1>1, Invariance, PTL

\* A task is queued at most once and never in the hands of two callers.
THEOREM OnePlace == Spec => []TaskInOnePlace
<1>1. QueueInv => TaskInOnePlace
  BY DEF QueueInv
<1> QED  BY <1>1, Invariance, PTL

\* The hand-maintained count is the number of queued tasks.
THEOREM CountCorrect == Spec => []CountIsExact
<1>1. QueueInv => CountIsExact
  BY DEF QueueInv
<1> QED  BY <1>1, Invariance, PTL
-----------------------------------------------------------------------------
(* The queue implements PriorityPool.                                      *)

\* The urgency class of a task is the queue it waits in.
LEMMA UrgencyOfQueue ==
    ASSUME InItsQueue, NEW u \in Pending
    PROVE  /\ u \in ToSet(m_p4_que) => Pool!Urgency(u) = 8
           /\ u \in ToSet(m_p3_unorder_que) => Pool!Urgency(u) = 6
           /\ u \in QueuedOrdered => Pool!Urgency(u) = 5
           /\ u \in ToSet(m_p2_que) => Pool!Urgency(u) = 4
           /\ u \in ToSet(m_p1_que) => Pool!Urgency(u) = 2
<1> USE DEF Level_Standby_Order, Level_Match_Order, Level_Check_Order, Level_Cancel_Order
<1>1. u \in ToSet(m_p4_que) => u.prio = 4
  BY DEF InItsQueue
<1>2. u \in ToSet(m_p3_unorder_que) => u.prio = 3 /\ ~u.ordered
  BY DEF InItsQueue
<1>3. u \in QueuedOrdered => u.prio \in {1, 3} /\ u.ordered
  BY DEF InItsQueue, QueuedOrdered, TasksOf
<1>4. u \in ToSet(m_p2_que) => u.prio = 2
  BY DEF InItsQueue
<1>5. u \in ToSet(m_p1_que) => u.prio = 1 /\ ~u.ordered
  BY DEF InItsQueue
<1> QED  BY <1>1, <1>2, <1>3, <1>4, <1>5 DEF Pool!Urgency, Pool!Level

\* Only the empty sequence holds no task.
LEMMA EmptyQueue ==
    ToSet(<<>>) = {}
BY DEF ToSet

\* The first non-empty queue holds the most urgent tasks.
LEMMA FirstIsMostUrgent ==
    ASSUME InItsQueue, NEW t \in Pending, InFirstQueue(t)
    PROVE  Pool!MostUrgent(t)
<1>1. \A u \in Pending : Pool!Urgency(u) \in {8, 6, 5, 4, 2}
  BY UrgencyOfQueue DEF Pending
<1>2. NoMatchTask => QueuedOrdered = {}
  BY EmptyQueue DEF NoMatchTask, QueuedOrdered, TasksOf
<1>3. \A u \in Pending : Pool!Urgency(u) <= Pool!Urgency(t)
  <2> SUFFICES ASSUME NEW u \in Pending PROVE Pool!Urgency(u) <= Pool!Urgency(t)
    OBVIOUS
  <2>1. CASE t \in ToSet(m_p4_que)
    BY <1>1, <2>1, UrgencyOfQueue
  <2>2. CASE m_p4_que = <<>> /\ t \in ToSet(m_p3_unorder_que)
    BY <2>2, EmptyQueue, UrgencyOfQueue DEF Pending
  <2>3. CASE m_p4_que = <<>> /\ m_p3_unorder_que = <<>> /\ t \in QueuedOrdered
    BY <2>3, EmptyQueue, UrgencyOfQueue DEF Pending
  <2>4. CASE NoMatchTask /\ t \in ToSet(m_p2_que)
    BY <1>2, <2>4, EmptyQueue, UrgencyOfQueue DEF Pending, NoMatchTask
  <2>5. CASE NoMatchTask /\ m_p2_que = <<>> /\ t \in ToSet(m_p1_que)
    BY <1>2, <2>5, EmptyQueue, UrgencyOfQueue DEF Pending, NoMatchTask
  <2> QED  BY <2>1, <2>2, <2>3, <2>4, <2>5 DEF InFirstQueue
<1> QED  BY <1>3 DEF Pool!MostUrgent

\* What DeleteIfHaveTask may find is what the pool lets a cancel remove.
LEMMA CancellableIsFound ==
    ASSUME Queued, NEW k \in Key, NEW c
    PROVE  \A t : t \in Pool!Cancellable(k, c) <=>
             /\ t.cliordid = c
             /\ \/ t \in ToSet(m_p3_order_que[k]) \/ t \in ToSet(m_p3_unorder_que)
                \/ t \in ToSet(m_p2_que) \/ t \in ToSet(m_p1_que)
<1> USE DEF Queued, OnceInItsQueue
<1> USE DEF Level_Standby_Order, Level_Match_Order, Level_Check_Order, Level_Cancel_Order
<1>1. \A t \in ToSet(m_p4_que) : t.prio = 4
  BY DEF InItsQueue
<1>2. \A t \in ToSet(m_p3_unorder_que) : t.prio = 3 /\ ~t.ordered
  BY DEF InItsQueue
<1>3. \A j \in Key : \A t \in ToSet(m_p3_order_que[j]) :
        t.prio \in {1, 3} /\ t.ordered /\ t.key = j
  BY DEF InItsQueue
<1>4. \A t \in ToSet(m_p2_que) : t.prio = 2
  BY DEF InItsQueue
<1>5. \A t \in ToSet(m_p1_que) : t.prio = 1 /\ ~t.ordered
  BY DEF InItsQueue
<1>6. \A t : t \in QueuedOrdered <=> \E j \in Key : t \in ToSet(m_p3_order_que[j])
  BY TaskOfOrdered DEF QueuedOrdered
<1>7. \A t : t \in Pool!Cancellable(k, c) <=>
        /\ t \in Pending /\ t.prio # 4 /\ t.cliordid = c
        /\ (t.ordered /\ (IF t.prio = 1 /\ t.ordered THEN 3 ELSE t.prio) = 3) => t.key = k
  BY DEF Pool!Cancellable, Pool!Level
<1>8. \A t : t \in Pending <=>
        \/ t \in ToSet(m_p1_que) \/ t \in ToSet(m_p2_que) \/ t \in QueuedOrdered
        \/ t \in ToSet(m_p3_unorder_que) \/ t \in ToSet(m_p4_que)
  BY DEF Pending
<1> QED  BY <1>1, <1>2, <1>3, <1>4, <1>5, <1>6, <1>7, <1>8

\* DeleteIfHaveTask fails only when there is nothing the cancel may remove.
LEMMA NothingToCancel ==
    ASSUME Queued, NEW k \in Key, NEW c \in Cliordid, DeleteNothing(k, c)
    PROVE  Pool!Cancellable(k, c) = {}
BY CancellableIsFound DEF DeleteNothing, Holds

\* The pool counts with the Cardinality of its own copy of FiniteSets.
LEMMA PoolCardinality == Pool!Cardinality(Pending) = Cardinality(Pending)
BY Zenon DEF Pool!Cardinality, Cardinality

\* Every step of the queue is a step of the pool or leaves it unchanged.
LEMMA StepPool == QueueInv /\ QueueInv' /\ [Next]_vars => [Pool!PoolNext]_(Pool!poolVars)
<1> SUFFICES ASSUME QueueInv, [Next]_vars
             PROVE  [Pool!PoolNext]_(Pool!poolVars)
  OBVIOUS
<1>0. /\ Queued /\ InItsQueue
      /\ m_uiTaskNums = Cardinality(Pending)
      /\ m_uiTaskNums \in Nat /\ MAX_QUEUE_SIZE \in Nat
  BY MaxAssumption
     DEF QueueInv, TypeOK, TaskInOnePlace, OnceInItsQueue, CountIsExact, Queued
<1>1. ASSUME NEW t \in Task, AddTask(t) PROVE Pool!Add(t)
  <2>1. t \notin Pending \cup taken \cup deleted \cup rejected
    BY <1>1 DEF AddTask, Seen
  <2>2. CASE AddTask_Full(t)
    <3>1. Pending' = Pending
      BY <2>2 DEF AddTask_Full, queues, Pending, QueuedOrdered
    <3>2. Pool!Cardinality(Pending) >= MAX_QUEUE_SIZE
      BY <1>0, <2>2, PoolCardinality DEF AddTask_Full
    <3> QED  BY <2>1, <2>2, <3>1, <3>2, Zenon DEF AddTask_Full, Pool!Add
  <2>3. CASE ~AddTask_Full(t)
    <3>1. /\ \/ AddToP1(t) \/ AddToP2(t) \/ AddToP3Order(t)
             \/ AddToP3Unorder(t) \/ AddToP4(t)
          /\ m_uiTaskNums < MAX_QUEUE_SIZE
          /\ iRes' = 0
          /\ UNCHANGED <<taken, deleted, rejected>>
      BY <1>1, <2>3 DEF AddTask, history
    <3>2. Pending' = Pending \cup {t}
      BY <1>0, <2>1, <3>1, AddPending
    <3>3. Pool!Cardinality(Pending) < MAX_QUEUE_SIZE
      BY <1>0, <3>1, PoolCardinality
    <3> QED  BY <2>1, <3>1, <3>2, <3>3, Zenon DEF Pool!Add
  <2> QED  BY <2>2, <2>3
<1>2. CASE GetTask
  <2>1. CASE GetSome
    <3>1. PICK t : SomeLoses(t) /\ Popped(t) /\ InFirstQueue(t)
      BY <1>0, <2>1, GetLoses
    <3>2. t \in Pending /\ Pending' = Pending \ {t}
      BY <1>0, <3>1, LosePending
    <3>3. Pool!MostUrgent(t)
      BY <1>0, <3>1, <3>2, FirstIsMostUrgent
    <3> QED  BY <3>1, <3>2, <3>3 DEF Popped, Pool!Get, Pool!PoolNext
  <2>2. CASE GetNothing
    <3>1. QueuedOrdered = {}
      BY <2>2, EmptyQueue DEF GetNothing, NoMatchTask, QueuedOrdered, TasksOf
    <3>2. Pending = {}
      BY <2>2, <3>1, EmptyQueue DEF GetNothing, NoMatchTask, Pending
    <3>3. Pending' = Pending
      BY <2>2 DEF GetNothing, queues, Pending, QueuedOrdered
    <3> QED  BY <2>2, <3>2, <3>3 DEF GetNothing, history, Pool!Get, Pool!PoolNext
  <2> QED  BY <1>2, <2>1, <2>2 DEF GetTask, GetSome
<1>3. ASSUME NEW k \in Key, NEW c \in Cliordid, DeleteIfHaveTask(k, c)
      PROVE  Pool!Delete(k, c)
  <2>1. CASE DeleteSome(k, c)
    <3>1. PICK t : /\ SomeLoses(t) /\ Erased(t) /\ t.cliordid = c
                   /\ \/ t \in ToSet(m_p3_order_que[k]) \/ t \in ToSet(m_p3_unorder_que)
                      \/ t \in ToSet(m_p2_que) \/ t \in ToSet(m_p1_que)
      BY <1>0, <2>1, DeleteLoses
    <3>2. t \in Pending /\ Pending' = Pending \ {t}
      BY <1>0, <3>1, LosePending
    <3>3. t \in Pool!Cancellable(k, c)
      BY <1>0, <3>1, CancellableIsFound
    <3> QED  BY <3>1, <3>2, <3>3 DEF Erased, Pool!Delete
  <2>2. CASE DeleteNothing(k, c)
    <3>1. Pool!Cancellable(k, c) = {}
      BY <1>0, <2>2, NothingToCancel
    <3>2. Pending' = Pending
      BY <2>2 DEF DeleteNothing, queues, Pending, QueuedOrdered
    <3> QED  BY <2>2, <3>1, <3>2 DEF DeleteNothing, history, Pool!Delete
  <2> QED  BY <1>3, <2>1, <2>2 DEF DeleteIfHaveTask, DeleteSome
<1>4. CASE UNCHANGED vars
  BY <1>4 DEF vars, queues, history, Pool!poolVars, Pending, QueuedOrdered
<1> QED  BY <1>1, <1>2, <1>3, <1>4 DEF Next, Pool!PoolNext

\* TaskPriorityQueue implements PriorityPool: whatever the threads that share
\* it do, they see a bounded pool with the same return codes that hands out
\* a most urgent task and from which a cancel misses nothing it may remove.
THEOREM ImplementsPool == Spec => PoolSpec
<1>1. Init => Pool!PoolInit
  <2> SUFFICES ASSUME Init PROVE Pool!PoolInit
    OBVIOUS
  <2>1. QueuedOrdered = {}
    BY EmptyQueue DEF Init, QueuedOrdered, TasksOf
  <2>2. Pending = {}
    BY <2>1, EmptyQueue DEF Init, Pending
  <2> QED  BY <2>2 DEF Init, Pool!PoolInit
<1> QED  BY <1>1, StepPool, Invariance, PTL DEF Spec, PoolSpec, Pool!PoolSpec
-----------------------------------------------------------------------------
(* Deque_Insert.  The two searches are recursive functions; that they are  *)
(* defined is shown by induction on the length of the range still to be    *)
(* searched, as is what they find.                                         *)

\* One turn of the binary search of s for t: mid is the search of shorter ranges.
Turn(s, t, mid, r) ==
    LET m == (r[1] + r[2]) \div 2
        right == MovesRight(t.side, t.price, s[m + 1].price)
        low == IF right THEN m + 1 ELSE r[1]
        high == IF right THEN r[2] ELSE m - 1
    IN  IF low > high THEN m ELSE mid[<<low, high>>]

Searches(s, t, mid) == mid = [r \in Ranges(s) |-> Turn(s, t, mid, r)]

LEMMA SearchIs ==
    ASSUME NEW s, NEW t, s # <<>>
    PROVE  LastMid(s, t) = (CHOOSE mid : Searches(s, t, mid))[<<0, Len(s) - 1>>]
BY DEF LastMid, Searches, Turn

\* The middle of a range and the two halves.
LEMMA Halves ==
    ASSUME NEW s \in Seq(Task), NEW r \in Ranges(s), NEW m, m = (r[1] + r[2]) \div 2
    PROVE  /\ r[1] \in Nat /\ r[2] \in Nat /\ m \in Nat /\ Len(s) \in Nat
           /\ r[1] <= m /\ m <= r[2] /\ r[2] < Len(s) /\ r[2] - r[1] \in Nat
           /\ ~(m + 1 > r[2]) => <<m + 1, r[2]>> \in Ranges(s)
           /\ ~(r[1] > m - 1) => <<r[1], m - 1>> \in Ranges(s)
<1>1. /\ r[1] \in 0..Len(s) - 1 /\ r[2] \in 0..Len(s) - 1 /\ r[1] <= r[2]
      /\ Len(s) \in Nat
  BY DEF Ranges
<1>2. \A a, b \in Nat : a <= b => a <= (a + b) \div 2 /\ (a + b) \div 2 <= b /\ (a + b) \div 2 \in Nat
  OBVIOUS
<1>3. m \in Nat /\ r[1] <= m /\ m <= r[2]
  BY <1>1, <1>2
<1>4. ~(m + 1 > r[2]) => <<m + 1, r[2]>> \in Ranges(s)
  <2>1. ASSUME ~(m + 1 > r[2]) PROVE m + 1 \in 0..Len(s) - 1 /\ m + 1 <= r[2]
    BY <1>1, <1>3, <2>1
  <2> QED  BY <1>1, <2>1 DEF Ranges
<1>5. ~(r[1] > m - 1) => <<r[1], m - 1>> \in Ranges(s)
  <2>1. ASSUME ~(r[1] > m - 1) PROVE m - 1 \in 0..Len(s) - 1 /\ r[1] <= m - 1
    BY <1>1, <1>3, <2>1
  <2> QED  BY <1>1, <2>1 DEF Ranges
<1> QED  BY <1>1, <1>3, <1>4, <1>5

\* The range is shorter in the next turn.
LEMMA TurnSame ==
    ASSUME NEW s \in Seq(Task), NEW t, NEW r \in Ranges(s), NEW f, NEW g,
           \A q \in Ranges(s) : q[2] - q[1] < r[2] - r[1] => f[q] = g[q]
    PROVE  Turn(s, t, f, r) = Turn(s, t, g, r)
<1> DEFINE m == (r[1] + r[2]) \div 2
<1>1. /\ r[1] \in Nat /\ r[2] \in Nat /\ m \in Nat
      /\ r[1] <= m /\ m <= r[2]
      /\ ~(m + 1 > r[2]) => <<m + 1, r[2]>> \in Ranges(s)
      /\ ~(r[1] > m - 1) => <<r[1], m - 1>> \in Ranges(s)
  BY Halves
<1> HIDE DEF m
<1>2. ~(m + 1 > r[2]) => f[<<m + 1, r[2]>>] = g[<<m + 1, r[2]>>]
  BY <1>1
<1>3. ~(r[1] > m - 1) => f[<<r[1], m - 1>>] = g[<<r[1], m - 1>>]
  BY <1>1
<1> QED  BY <1>2, <1>3 DEF Turn, m

\* The search is defined.
LEMMA SearchExists ==
    ASSUME NEW s \in Seq(Task), NEW t
    PROVE  \E mid : Searches(s, t, mid)
<1> DEFINE D == Ranges(s)
           Good(n, g) == \A r \in D : r[2] - r[1] < n => g[r] = Turn(s, t, g, r)
           T == {n \in Nat : \E g : Good(n, g)}
<1>0. Len(s) \in Nat /\ \A r \in D : r[2] - r[1] \in Nat /\ r[2] - r[1] < Len(s)
  BY DEF Ranges
<1>1. 0 \in T
  BY <1>0
<1>2. ASSUME NEW n \in Nat, n \in T PROVE n + 1 \in T
  <2>1. PICK g : Good(n, g)
    BY <1>2
  <2> DEFINE h == [r \in D |-> Turn(s, t, g, r)]
  <2>2. \A r \in D : h[r] = Turn(s, t, g, r)
    <3> HIDE DEF D
    <3> QED  OBVIOUS
  <2> HIDE DEF h
  <2>3. ASSUME NEW r \in D, r[2] - r[1] < n + 1 PROVE h[r] = Turn(s, t, h, r)
    <3>1. \A q \in D : q[2] - q[1] < r[2] - r[1] => h[q] = g[q]
      BY <1>0, <2>1, <2>2, <2>3
    <3>2. Turn(s, t, h, r) = Turn(s, t, g, r)
      BY <3>1, TurnSame
    <3> QED  BY <2>2, <3>2
  <2> QED  BY <2>3
<1>3. \A n \in Nat : n \in T
  <2> HIDE DEF T
  <2> QED  BY <1>1, <1>2, Induction
<1>4. PICK g : Good(Len(s), g)
  BY <1>0, <1>3
<1> DEFINE h == [r \in D |-> Turn(s, t, g, r)]
<1>5. \A r \in D : h[r] = Turn(s, t, g, r)
  <2> HIDE DEF D
  <2> QED  OBVIOUS
<1>6. h = [r \in D |-> h[r]]
  OBVIOUS
<1> HIDE DEF h
<1>7. ASSUME NEW r \in D PROVE h[r] = Turn(s, t, h, r)
  <2>1. \A q \in D : h[q] = g[q]
    BY <1>0, <1>4, <1>5
  <2>2. Turn(s, t, h, r) = Turn(s, t, g, r)
    BY <2>1, TurnSame
  <2> QED  BY <1>5, <2>2
<1>8. h = [r \in D |-> Turn(s, t, h, r)]
  <2> HIDE DEF D
  <2> QED  BY <1>6, <1>7
<1> QED  BY Zenon, <1>8 DEF Searches

\* MovesRight at position j of the deque.
RightOf(s, t, j) == MovesRight(t.side, t.price, s[j].price)

\* The places of t: the search moves right of those before m and left of
\* those after it, if it does so wherever they are sorted.
Splits(s, t, m) ==
    /\ \A j \in 1..Len(s) : j <= m => RightOf(s, t, j)
    /\ \A j \in 1..Len(s) : j > m + 1 => ~RightOf(s, t, j)

Falls(s, t) == \A i, j \in 1..Len(s) : i < j /\ RightOf(s, t, j) => RightOf(s, t, i)

\* The last iMid is a position of the deque, next to where the side changes.
LEMMA LastMidSplits ==
    ASSUME NEW s \in Seq(Task), NEW t, s # <<>>
    PROVE  /\ LastMid(s, t) \in 0..Len(s) - 1
           /\ Falls(s, t) => Splits(s, t, LastMid(s, t))
<1> DEFINE D == Ranges(s)
           M == CHOOSE mid : Searches(s, t, mid)
           In(r) == /\ \A j \in 1..Len(s) : j <= r[1] => RightOf(s, t, j)
                    /\ \A j \in 1..Len(s) : j > r[2] + 1 => ~RightOf(s, t, j)
           Found(r) == /\ M[r] \in 0..Len(s) - 1
                       /\ Falls(s, t) /\ In(r) => Splits(s, t, M[r])
           T == {n \in Nat : \A r \in D : r[2] - r[1] < n => Found(r)}
<1>0. Len(s) \in Nat /\ Len(s) > 0
  OBVIOUS
<1>1. \A r \in D : M[r] = Turn(s, t, M, r)
  <2>1. Searches(s, t, M)
    BY SearchExists
  <2>2. M = [r \in D |-> Turn(s, t, M, r)]
    BY Zenon, <2>1 DEF Searches
  <2> HIDE DEF M, D
  <2> QED  BY <2>2
<1> HIDE DEF M
<1>2. 0 \in T
  BY DEF Ranges
<1>3. ASSUME NEW n \in Nat, n \in T PROVE n + 1 \in T
  <2>1. ASSUME NEW r \in D, r[2] - r[1] < n + 1 PROVE Found(r)
    <3> DEFINE m == (r[1] + r[2]) \div 2
    <3>1. /\ r[1] \in Nat /\ r[2] \in Nat /\ m \in Nat
          /\ r[1] <= m /\ m <= r[2] /\ r[2] < Len(s)
          /\ ~(m + 1 > r[2]) => <<m + 1, r[2]>> \in D
          /\ ~(r[1] > m - 1) => <<r[1], m - 1>> \in D
      BY Halves
    <3>2. M[r] = IF RightOf(s, t, m + 1)
                   THEN IF m + 1 > r[2] THEN m ELSE M[<<m + 1, r[2]>>]
                   ELSE IF r[1] > m - 1 THEN m ELSE M[<<r[1], m - 1>>]
      BY <1>1 DEF Turn, RightOf
    <3>0. m + 1 \in 1..Len(s)
      BY <1>0, <3>1
    <3> HIDE DEF m, Found, D
    <3>3. CASE RightOf(s, t, m + 1) /\ m + 1 > r[2]
      <4>1. m = r[2] /\ M[r] = m
        BY <3>1, <3>2, <3>3
      <4>2. ASSUME Falls(s, t), In(r) PROVE Splits(s, t, m)
        BY <1>0, <3>1, <3>3, <4>1, <4>2 DEF Falls, Splits
      <4> QED  BY <1>0, <3>1, <4>1, <4>2 DEF Found
    <3>4. CASE ~RightOf(s, t, m + 1) /\ r[1] > m - 1
      <4>1. m = r[1] /\ M[r] = m
        BY <3>1, <3>2, <3>4
      <4>2. ASSUME Falls(s, t), In(r) PROVE Splits(s, t, m)
        <5>1. \A j \in 1..Len(s) : j > m + 1 => ~RightOf(s, t, j)
          BY <3>0, <3>1, <3>4, <4>2 DEF Falls
        <5> QED  BY <4>1, <4>2, <5>1 DEF Splits
      <4> QED  BY <1>0, <3>1, <4>1, <4>2 DEF Found
    <3>5. CASE RightOf(s, t, m + 1) /\ ~(m + 1 > r[2])
      <4> DEFINE q == <<m + 1, r[2]>>
      <4>1. q \in D /\ q[1] = m + 1 /\ q[2] = r[2] /\ M[r] = M[q] /\ q[2] - q[1] < n
        BY <2>1, <3>1, <3>2, <3>5
      <4> HIDE DEF q
      <4>2. Found(q)
        BY <1>3, <4>1
      <4>3. Falls(s, t) /\ In(r) => In(q)
        <5>1. ASSUME Falls(s, t), NEW j \in 1..Len(s), j <= m + 1 PROVE RightOf(s, t, j)
          <6>1. j = m + 1 \/ j < m + 1
            BY <3>1, <5>1
          <6> QED  BY <3>0, <3>5, <5>1, <6>1 DEF Falls
        <5> QED  BY <4>1, <5>1
      <4> QED  BY <4>1, <4>2, <4>3 DEF Found
    <3>6. CASE ~RightOf(s, t, m + 1) /\ ~(r[1] > m - 1)
      <4> DEFINE q == <<r[1], m - 1>>
      <4>1. q \in D /\ q[1] = r[1] /\ q[2] = m - 1 /\ M[r] = M[q] /\ q[2] - q[1] < n
        BY <2>1, <3>1, <3>2, <3>6
      <4> HIDE DEF q
      <4>2. Found(q)
        BY <1>3, <4>1
      <4>3. Falls(s, t) /\ In(r) => In(q)
        BY <1>0, <3>1, <3>6, <4>1 DEF Falls
      <4> QED  BY <4>1, <4>2, <4>3 DEF Found
    <3> QED  BY <3>3, <3>4, <3>5, <3>6
  <2> QED  BY <2>1
<1>4. \A n \in Nat : n \in T
  <2> HIDE DEF T
  <2> QED  BY <1>2, <1>3, Induction
<1> DEFINE r == <<0, Len(s) - 1>>
<1>5. r \in D /\ r[1] = 0 /\ r[2] = Len(s) - 1
  BY <1>0 DEF Ranges
<1>6. LastMid(s, t) = M[r]
  BY SearchIs DEF M
<1> HIDE DEF r, D, Found
<1>7. Found(r)
  BY <1>0, <1>4, <1>5
<1>8. In(r)
  BY <1>0, <1>5
<1> QED  BY <1>6, <1>7, <1>8 DEF Found

\* One turn of the walk over equal prices.
Walked(s, t, walk, m) ==
    LET u == s[m + 1]
    IN  IF m < Len(s) /\ t.price = u.price /\ t.time > u.time THEN walk[m + 1]
        ELSE IF m < Len(s) /\ t.price # u.price /\ MovesRight(t.side, t.price, u.price)
        THEN m + 1 ELSE m

Walks(s, t, walk) == walk = [m \in 0..Len(s) |-> Walked(s, t, walk, m)]

LEMMA WalkIs ==
    ASSUME NEW s, NEW t
    PROVE  InsertPos(s, t) = (CHOOSE walk : Walks(s, t, walk))[LastMid(s, t)]
BY DEF InsertPos, Walks, Walked

\* What the walk does at position m.
LEMMA WalkedCases ==
    ASSUME NEW s \in Seq(Task), NEW t \in Task, NEW w, NEW m \in 0..Len(s)
    PROVE  /\ m = Len(s) => Walked(s, t, w, m) = m
           /\ m < Len(s) =>
                LET u == s[m + 1] IN
                IF t.price = u.price
                  THEN Walked(s, t, w, m) = IF t.time <= u.time THEN m ELSE w[m + 1]
                  ELSE Walked(s, t, w, m) = IF RightOf(s, t, m + 1) THEN m + 1 ELSE m
<1>0. Len(s) \in Nat
  OBVIOUS
<1>1. CASE m = Len(s)
  BY <1>0, <1>1 DEF Walked
<1>2. CASE m < Len(s)
  <2> DEFINE u == s[m + 1]
  <2>1. u \in Task
    BY <1>0, <1>2
  <2>2. u.time \in Nat /\ t.time \in Nat
    BY <2>1, TaskAssumption
  <2>3. m # Len(s)
    BY <1>0, <1>2
  <2> HIDE DEF u
  <2>4. CASE t.price = u.price /\ t.time <= u.time
    <3>1. ~(t.time > u.time)
      BY <2>2, <2>4
    <3> QED  BY <1>2, <2>3, <2>4, <3>1 DEF Walked, u
  <2>5. CASE t.price = u.price /\ ~(t.time <= u.time)
    <3>1. t.time > u.time
      BY <2>2, <2>5
    <3> QED  BY <1>2, <2>3, <2>5, <3>1 DEF Walked, u
  <2>6. CASE t.price # u.price
    BY <1>2, <2>3, <2>6 DEF Walked, u, RightOf
  <2> QED  BY <1>2, <2>3, <2>4, <2>5, <2>6 DEF u
<1> QED  BY <1>0, <1>1, <1>2

\* The walk is defined.
LEMMA WalkExists ==
    ASSUME NEW s \in Seq(Task), NEW t \in Task
    PROVE  \E walk : Walks(s, t, walk)
<1> DEFINE D == 0..Len(s)
           Good(n, g) == \A m \in D : Len(s) - m < n => g[m] = Walked(s, t, g, m)
           T == {n \in Nat : \E g : Good(n, g)}
<1>0. Len(s) \in Nat
  OBVIOUS
<1>a. ASSUME NEW m \in D, NEW f, NEW g, \A j \in D : j > m => f[j] = g[j]
      PROVE  Walked(s, t, f, m) = Walked(s, t, g, m)
  <2>1. CASE m = Len(s)
    BY <2>1, WalkedCases
  <2>2. CASE m < Len(s)
    <3>1. f[m + 1] = g[m + 1]
      BY <1>0, <1>a, <2>2
    <3> QED  BY <2>2, <3>1, WalkedCases
  <2> QED  BY <1>0, <2>1, <2>2
<1>1. 0 \in T
  BY <1>0
<1>2. ASSUME NEW n \in Nat, n \in T PROVE n + 1 \in T
  <2>1. PICK g : Good(n, g)
    BY <1>2
  <2> DEFINE h == [m \in D |-> Walked(s, t, g, m)]
  <2>2. \A m \in D : h[m] = Walked(s, t, g, m)
    <3> HIDE DEF D
    <3> QED  OBVIOUS
  <2> HIDE DEF h
  <2>3. ASSUME NEW m \in D, Len(s) - m < n + 1 PROVE h[m] = Walked(s, t, h, m)
    <3>1. \A j \in D : j > m => h[j] = g[j]
      BY <1>0, <2>1, <2>2, <2>3
    <3>2. Walked(s, t, h, m) = Walked(s, t, g, m)
      <4> HIDE DEF D
      <4> QED  BY <1>a, <3>1
    <3> QED  BY <2>2, <3>2
  <2> QED  BY <2>3
<1>3. \A n \in Nat : n \in T
  <2> HIDE DEF T
  <2> QED  BY <1>1, <1>2, Induction
<1>4. PICK g : Good(Len(s) + 1, g)
  BY <1>0, <1>3
<1> DEFINE h == [m \in D |-> Walked(s, t, g, m)]
<1>5. \A m \in D : h[m] = Walked(s, t, g, m)
  <2> HIDE DEF D
  <2> QED  OBVIOUS
<1>6. h = [m \in D |-> h[m]]
  OBVIOUS
<1> HIDE DEF h
<1>7. ASSUME NEW m \in D PROVE h[m] = Walked(s, t, h, m)
  <2>1. \A j \in D : j > m => h[j] = g[j]
    BY <1>0, <1>4, <1>5
  <2>2. Walked(s, t, h, m) = Walked(s, t, g, m)
    <3> HIDE DEF D
    <3> QED  BY <1>a, <2>1
  <2> QED  BY <1>5, <2>2
<1>8. h = [m \in D |-> Walked(s, t, h, m)]
  <2> HIDE DEF D
  <2> QED  BY <1>6, <1>7
<1> QED  BY Zenon, <1>8 DEF Walks

-----------------------------------------------------------------------------
(* The order of a deque.                                                   *)

InOrder(a, b) == IF a.side = "sell" THEN a.price <= b.price ELSE a.price >= b.price

Sorted(s) == \A i, j \in 1..Len(s) : i < j => InOrder(s[i], s[j])

OfSide(s, side) == \A i \in 1..Len(s) : s[i].side = side

\* MovesRight says on which side of a task the new one belongs.
LEMMA RightIsOrder ==
    ASSUME NEW a \in Task, NEW t \in Task, a.side = t.side
    PROVE  /\ InOrder(a, t) <=> MovesRight(t.side, t.price, a.price)
           /\ ~InOrder(a, t) => InOrder(t, a)
           /\ a.price = t.price => InOrder(a, t) /\ InOrder(t, a)
           /\ \A b \in Task : b.side = t.side /\ InOrder(b, a) /\ InOrder(a, t) => InOrder(b, t)
<1>1. a.price \in Nat /\ t.price \in Nat /\ \A b \in Task : b.price \in Nat
  BY TaskAssumption
<1> QED  BY <1>1 DEF InOrder, MovesRight

\* Deque_Insert finds a place in a sorted deque where the task is in order
\* with those before and those after it: at most one task of its price is
\* passed over, so the walk cannot leave the equal prices.
LEMMA PlaceInOrder ==
    ASSUME NEW s \in Seq(Task), NEW t \in Task
    PROVE  /\ InsertPos(s, t) \in 0..Len(s)
           /\ Sorted(s) /\ OfSide(s, t.side) =>
                \A j \in 1..Len(s) : IF j <= InsertPos(s, t) THEN InOrder(s[j], t)
                                                            ELSE InOrder(t, s[j])
<1> DEFINE W == CHOOSE walk : Walks(s, t, walk)
           m == LastMid(s, t)
           D == 0..Len(s)
           p == InsertPos(s, t)
<1>0. Len(s) \in Nat
  OBVIOUS
<1>1. \A i \in D : W[i] = Walked(s, t, W, i)
  <2>1. Walks(s, t, W)
    BY WalkExists
  <2>2. W = [i \in D |-> Walked(s, t, W, i)]
    BY Zenon, <2>1 DEF Walks
  <2> HIDE DEF W, D
  <2> QED  BY <2>2
<1>2. p = W[m]
  BY WalkIs
<1> HIDE DEF W, p
<1> DEFINE T == {n \in Nat : \A i \in D : Len(s) - i < n => W[i] \in D}
<1>a. 0 \in T
  BY <1>0
<1>b. ASSUME NEW n \in Nat, n \in T PROVE n + 1 \in T
  <2>1. ASSUME NEW i \in D, Len(s) - i < n + 1 PROVE W[i] \in D
    <3>1. CASE i = Len(s)
      BY <1>1, <3>1, WalkedCases
    <3>2. CASE i < Len(s)
      <4>1. i + 1 \in D /\ Len(s) - (i + 1) < n /\ i \in Nat
        BY <1>0, <2>1, <3>2
      <4>2. W[i + 1] \in D
        BY <1>b, <4>1
      <4>3. W[i] \in {i, i + 1, W[i + 1]}
        BY <1>1, <3>2, WalkedCases
      <4> QED  BY <4>1, <4>2, <4>3
    <3> QED  BY <1>0, <3>1, <3>2
  <2> QED  BY <2>1
<1>c. \A n \in Nat : n \in T
  <2> HIDE DEF T
  <2> QED  BY <1>a, <1>b, Induction
<1>d. \A i \in D : W[i] \in D
  <2>1. Len(s) + 1 \in T
    BY <1>0, <1>c
  <2> QED  BY <1>0, <2>1
<1> HIDE DEF T
<1>3. CASE s = <<>>
  <2>1. m = 0 /\ Len(s) = 0
    BY <1>3 DEF LastMid
  <2> HIDE DEF m
  <2>2. p = 0
    <3>1. 0 \in D /\ W[0] = Walked(s, t, W, 0)
      BY <1>1, <2>1
    <3>2. Walked(s, t, W, 0) = 0
      <4>1. Len(s) \in 0..Len(s)
        BY <1>0
      <4>2. Walked(s, t, W, Len(s)) = Len(s)
        BY <4>1, WalkedCases
      <4> QED  BY <2>1, <4>2
    <3> QED  BY <1>2, <2>1, <3>1, <3>2
  <2>3. Len(s) = 0 /\ InsertPos(s, t) = 0
    BY <2>1, <2>2 DEF p
  <2> QED  BY <2>3
<1>4. CASE s # <<>>
  <2>1. m \in 0..Len(s) - 1 /\ (Falls(s, t) => Splits(s, t, m))
    BY <1>4, LastMidSplits
  <2> HIDE DEF m
  <2> DEFINE u == s[m + 1]
  <2>2. m \in D /\ m < Len(s) /\ m + 1 \in D /\ m + 1 \in 1..Len(s) /\ m \in Nat
    BY <1>0, <2>1
  <2>3. IF t.price = u.price
          THEN p = IF t.time <= u.time THEN m ELSE W[m + 1]
          ELSE p = IF RightOf(s, t, m + 1) THEN m + 1 ELSE m
    BY <1>1, <1>2, <2>2, WalkedCases
  <2>4. m + 1 = Len(s) => W[m + 1] = m + 1
    BY <1>1, <2>2, WalkedCases
  <2>5. m + 1 < Len(s) => m + 2 \in 1..Len(s) /\ (t.price # s[m + 2].price =>
            W[m + 1] = IF RightOf(s, t, m + 2) THEN m + 2 ELSE m + 1)
    <3>1. ASSUME m + 1 < Len(s) PROVE m + 2 \in 1..Len(s) /\ (m + 1) + 1 = m + 2
      BY <1>0, <2>2, <3>1
    <3>2. ASSUME m + 1 < Len(s), t.price # s[m + 2].price
          PROVE  W[m + 1] = IF RightOf(s, t, m + 2) THEN m + 2 ELSE m + 1
      BY <1>1, <2>2, <3>1, <3>2, WalkedCases
    <3> QED  BY <3>1, <3>2
  <2>6. p \in D
    BY <1>2, <1>d, <2>2
  <2> HIDE DEF D
  <2>7. ASSUME Sorted(s), OfSide(s, t.side), NEW j \in 1..Len(s)
        PROVE  IF j <= p THEN InOrder(s[j], t) ELSE InOrder(t, s[j])
    <3>0. \A i \in 1..Len(s) :
            /\ s[i] \in Task /\ s[i].side = t.side
            /\ InOrder(s[i], t) <=> RightOf(s, t, i)
            /\ ~InOrder(s[i], t) => InOrder(t, s[i])
            /\ s[i].price = t.price => InOrder(s[i], t) /\ InOrder(t, s[i])
      BY <2>7, RightIsOrder DEF OfSide, RightOf
    <3>1. Falls(s, t)
      BY <2>7, <3>0, RightIsOrder DEF Falls, Sorted
    <3>2. /\ \A i \in 1..Len(s) : i <= m => InOrder(s[i], t)
          /\ \A i \in 1..Len(s) : i > m + 1 => ~RightOf(s, t, i) /\ InOrder(t, s[i])
      BY <2>1, <3>0, <3>1 DEF Splits
    <3>3. CASE t.price # u.price
      BY <2>2, <2>3, <3>0, <3>2, <3>3
    <3>4. CASE t.price = u.price /\ t.time <= u.time
      BY <2>2, <2>3, <3>0, <3>2, <3>4
    <3>5. CASE t.price = u.price /\ ~(t.time <= u.time)
      <4>1. p = W[m + 1]
        BY <2>3, <3>5
      <4>2. W[m + 1] = m + 1
        <5>1. CASE m + 1 < Len(s)
          <6>0. m + 2 \in 1..Len(s)
            BY <2>5, <5>1
          <6>1. m + 2 > m + 1 /\ m + 2 \in 1..Len(s)
            BY <2>2, <6>0
          <6>2. ~RightOf(s, t, m + 2) /\ t.price # s[m + 2].price
            BY <3>0, <3>2, <6>1
          <6> QED  BY <2>5, <5>1, <6>2
        <5> QED  BY <1>0, <2>2, <2>4, <5>1
      <4>3. InOrder(u, t)
        BY <2>2, <3>0, <3>5
      <4> QED  BY <2>2, <3>2, <4>1, <4>2, <4>3
    <3> QED  BY <3>3, <3>4, <3>5
  <2>8. p \in 0..Len(s)
    BY <2>6 DEF D
  <2> QED  BY <2>7, <2>8 DEF p
<1> QED  BY <1>3, <1>4

\* Taking the first task leaves the others in order.
LEMMA TailSorted ==
    ASSUME NEW s \in Seq(Task), s # <<>>, Sorted(s)
    PROVE  Tail(s) \in Seq(Task) /\ Sorted(Tail(s))
<1> DEFINE r == Tail(s)
<1>1. /\ Len(s) \in Nat /\ r \in Seq(Task) /\ Len(r) = Len(s) - 1
      /\ \A i \in 1..Len(s) - 1 : r[i] = s[i + 1]
  OBVIOUS
<1> HIDE DEF r
<1>2. Sorted(r)
  <2>1. ASSUME NEW i \in 1..Len(r), NEW j \in 1..Len(r), i < j PROVE InOrder(r[i], r[j])
    <3>1. /\ i + 1 \in 1..Len(s) /\ j + 1 \in 1..Len(s) /\ i + 1 < j + 1
          /\ r[i] = s[i + 1] /\ r[j] = s[j + 1]
      BY <1>1, <2>1
    <3> QED  BY <3>1 DEF Sorted
  <2> QED  BY <2>1 DEF Sorted
<1> QED  BY <1>1, <1>2 DEF r

\* So does taking any task.
LEMMA RemoveSorted ==
    ASSUME NEW s \in Seq(Task), NEW k \in 1..Len(s), Sorted(s)
    PROVE  RemoveAt(s, k) \in Seq(Task) /\ Sorted(RemoveAt(s, k))
<1>0. /\ RemoveAt(s, k) \in Seq(Task) /\ Len(RemoveAt(s, k)) = Len(s) - 1
      /\ \A j \in 1..Len(s) - 1 : RemoveAt(s, k)[j] = IF j < k THEN s[j] ELSE s[j + 1]
  <2>1. s \in Seq(Task) /\ k \in 1..Len(s)
    OBVIOUS
  <2> QED  BY ONLY <2>1, RemoveIs, Zenon
<1> DEFINE r == RemoveAt(s, k)
           from(i) == IF i < k THEN i ELSE i + 1
<1> HIDE DEF from
<1>1. /\ Len(s) \in Nat /\ r \in Seq(Task) /\ Len(r) = Len(s) - 1
      /\ \A i \in 1..Len(s) - 1 : r[i] = IF i < k THEN s[i] ELSE s[i + 1]
  <2>1. Len(s) \in Nat
    OBVIOUS
  <2> QED  BY <1>0, <2>1, Zenon
<1> HIDE DEF r
<1> USE DEF from
<1>2. Sorted(r)
  <2>1. ASSUME NEW i \in 1..Len(r), NEW j \in 1..Len(r), i < j PROVE InOrder(r[i], r[j])
    <3>1. from(i) \in 1..Len(s) /\ from(j) \in 1..Len(s) /\ from(i) < from(j)
      BY <1>1, <2>1
    <3>2. r[i] = s[from(i)] /\ r[j] = s[from(j)]
      BY <1>1
    <3> HIDE DEF from
    <3> QED  BY <3>1, <3>2 DEF Sorted
  <2> QED  BY <2>1 DEF Sorted
<1> QED  BY <1>1, <1>2 DEF r

\* Deque_Insert keeps the order.
LEMMA InsertSorted ==
    ASSUME NEW s \in Seq(Task), NEW t \in Task, Sorted(s), OfSide(s, t.side)
    PROVE  Deque_Insert(s, t) \in Seq(Task) /\ Sorted(Deque_Insert(s, t))
<1> DEFINE p == InsertPos(s, t)
           r == InsertAt(s, p + 1, t)
<1>1. /\ Len(s) \in Nat /\ p \in 0..Len(s) /\ p + 1 \in 1..Len(s) + 1
      /\ \A j \in 1..Len(s) : IF j <= p THEN InOrder(s[j], t) ELSE InOrder(t, s[j])
  BY PlaceInOrder
<1> HIDE DEF p
<1>2. /\ r \in Seq(Task) /\ Len(r) = Len(s) + 1
      /\ \A i \in 1..Len(s) + 1 : r[i] = IF i < p + 1 THEN s[i] ELSE IF i = p + 1 THEN t ELSE s[i - 1]
  <2>1. s \in Seq(Task) /\ t \in Task /\ p + 1 \in 1..Len(s) + 1
    BY <1>1
  <2> DEFINE q == p + 1
  <2>2. q \in 1..Len(s) + 1
    BY <2>1
  <2> HIDE DEF q
  <2>3. /\ InsertAt(s, q, t) \in Seq(Task) /\ Len(InsertAt(s, q, t)) = Len(s) + 1
        /\ \A j \in 1..Len(s) + 1 :
              InsertAt(s, q, t)[j] = IF j < q THEN s[j] ELSE IF j = q THEN t ELSE s[j - 1]
    BY ONLY <2>1, <2>2, InsertIs, SMTT(60)
  <2> QED  BY <2>3 DEF q
<1> HIDE DEF r
<1>3. \A i \in 1..Len(s) + 1 :
        /\ i < p + 1 => i \in 1..Len(s) /\ i <= p /\ r[i] = s[i]
        /\ i = p + 1 => r[i] = t
        /\ i > p + 1 => i - 1 \in 1..Len(s) /\ ~(i - 1 <= p) /\ r[i] = s[i - 1]
  BY <1>1, <1>2
<1>4. Sorted(r)
  <2>1. ASSUME NEW i \in 1..Len(r), NEW j \in 1..Len(r), i < j PROVE InOrder(r[i], r[j])
    <3>0. i \in 1..Len(s) + 1 /\ j \in 1..Len(s) + 1
      BY <1>2
    <3>1. CASE j < p + 1
      BY <1>1, <1>3, <2>1, <3>0, <3>1 DEF Sorted
    <3>2. CASE j = p + 1
      BY <1>1, <1>3, <2>1, <3>0, <3>2
    <3>3. CASE j > p + 1 /\ i < p + 1
      <4>1. i < j - 1
        BY <1>1, <3>3
      <4> QED  BY <1>3, <3>0, <3>3, <4>1 DEF Sorted
    <3>4. CASE j > p + 1 /\ i = p + 1
      BY <1>1, <1>3, <3>0, <3>4
    <3>5. CASE j > p + 1 /\ i > p + 1
      <4>1. i - 1 < j - 1
        BY <2>1
      <4> QED  BY <1>3, <3>0, <3>5, <4>1 DEF Sorted
    <3> QED  BY <1>1, <2>1, <3>1, <3>2, <3>3, <3>4, <3>5
  <2> QED  BY <2>1 DEF Sorted
<1> QED  BY <1>2, <1>4 DEF Deque_Insert, p, r

-----------------------------------------------------------------------------
(* The ordered queues stay sorted: by the operations of the mutex alone,   *)
(* with the fact that a deque holds the tasks of one key.                  *)

LEMMA PriceOrderedIs == PriceOrdered <=> \A k \in Key : Sorted(m_p3_order_que[k])
BY DEF PriceOrdered, Sorted, InOrder

\* Only the deque of one key changes, to a sorted one.
LEMMA OneDequeSorted ==
    ASSUME QueuesTyped, PriceOrdered, NEW k \in Key, NEW r \in Seq(Task), Sorted(r),
           m_p3_order_que' = [m_p3_order_que EXCEPT ![k] = r]
    PROVE  PriceOrdered'
<1>1. \A j \in Key : m_p3_order_que'[j] = IF j = k THEN r ELSE m_p3_order_que[j]
  BY OrderedAfter DEF QueuesTyped
<1>2. \A j \in Key : Sorted(m_p3_order_que[j])
  BY PriceOrderedIs
<1>3. \A j \in Key : Sorted(m_p3_order_que'[j])
  BY <1>1, <1>2
<1> QED  BY <1>3 DEF PriceOrdered, Sorted, InOrder

\* Every operation keeps the ordered queues sorted.
LEMMA StepOrdered == QueueInv /\ PriceOrdered /\ [Next]_vars => PriceOrdered'
<1> SUFFICES ASSUME QueueInv, PriceOrdered, [Next]_vars PROVE PriceOrdered'
  OBVIOUS
<1>0. /\ QueuesTyped /\ InItsQueue
      /\ \A k \in Key : m_p3_order_que[k] \in Seq(Task) /\ Sorted(m_p3_order_que[k])
  BY PriceOrderedIs DEF QueueInv, TypeOK, TaskInOnePlace, OnceInItsQueue, QueuesTyped
<1>1. ASSUME NEW t \in Task, AddToP3Order(t) PROVE PriceOrdered'
  <2> DEFINE s == m_p3_order_que[t.key]
             r == Deque_Insert(s, t)
  <2>1. t.key \in Key /\ t.ordered
    BY <1>1, TaskAssumption DEF AddToP3Order
  <2>2. OfSide(s, t.side)
    <3>1. ASSUME NEW i \in 1..Len(s) PROVE s[i].side = t.side
      <4>1. s[i] \in ToSet(s) /\ s[i] \in Task
        BY <1>0, <2>1, TaskOfQueue
      <4>2. s[i].ordered /\ s[i].key = t.key
        BY <1>0, <2>1, <4>1 DEF InItsQueue
      <4> QED  BY <2>1, <4>1, <4>2, TaskAssumption
    <3> QED  BY <3>1 DEF OfSide
  <2>3. r \in Seq(Task) /\ Sorted(r)
    BY <1>0, <2>1, <2>2, InsertSorted
  <2>4. m_p3_order_que' = [m_p3_order_que EXCEPT ![t.key] = r]
    BY <1>1 DEF AddToP3Order
  <2> HIDE DEF r
  <2> QED  BY <1>0, <2>1, <2>3, <2>4, OneDequeSorted
<1>2. CASE GetFromP3Order
  <2>1. PICK k \in Key :
          /\ m_p3_order_que[k] # <<>>
          /\ m_p3_order_que' = [m_p3_order_que EXCEPT ![k] = Tail(m_p3_order_que[k])]
    BY <1>2 DEF GetFromP3Order
  <2> QED  BY <1>0, <2>1, TailSorted, OneDequeSorted
<1>3. ASSUME NEW k \in Key, NEW c \in Cliordid, DeleteFromP3Order(k, c) PROVE PriceOrdered'
  <2>1. PICK i \in 1..Len(m_p3_order_que[k]) :
          m_p3_order_que' = [m_p3_order_que EXCEPT ![k] = RemoveAt(m_p3_order_que[k], i)]
    BY <1>3 DEF DeleteFromP3Order, FirstOf
  <2> QED  BY <1>0, <2>1, RemoveSorted, OneDequeSorted
<1>4. CASE UNCHANGED m_p3_order_que
  BY <1>4 DEF PriceOrdered
<1>5. ASSUME NEW t \in Task, AddTask(t) PROVE PriceOrdered'
  BY <1>1, <1>4, <1>5
     DEF AddTask, AddTask_Full, AddToP1, AddToP2, AddToP3Unorder, AddToP4, queues
<1>6. CASE GetTask
  BY <1>2, <1>4, <1>6
     DEF GetTask, GetFromP4, GetFromP3Unorder, GetFromP2, GetFromP1, GetNothing, queues
<1>7. ASSUME NEW k \in Key, NEW c \in Cliordid, DeleteIfHaveTask(k, c) PROVE PriceOrdered'
  BY <1>3, <1>4, <1>7
     DEF DeleteIfHaveTask, DeleteFromP3Unorder, DeleteFromP2, DeleteFromP1, DeleteNothing, queues
<1>8. CASE UNCHANGED vars
  BY <1>4, <1>8 DEF vars, queues
<1> QED  BY <1>5, <1>6, <1>7, <1>8 DEF Next

\* The binary insertion of the ordered queues is right: whatever was offered,
\* taken and cancelled, every deque is sorted by price and the place that
\* Deque_Insert computes for any task is inside it.
THEOREM InsertCorrect == Spec => []OrderedInsert
<1>1. Init => PriceOrdered
  <2>1. ASSUME Init PROVE \A k \in Key : Sorted(m_p3_order_que[k])
    BY <2>1 DEF Init, Sorted
  <2> QED  BY <2>1, PriceOrderedIs
<1>2. QueueInv => InsertInBounds
  <2> SUFFICES ASSUME QueueInv, NEW t \in Task
               PROVE  InsertPos(m_p3_order_que[t.key], t) \in 0..Len(m_p3_order_que[t.key])
    BY DEF InsertInBounds
  <2>1. m_p3_order_que[t.key] \in Seq(Task)
    BY TaskAssumption DEF QueueInv, TypeOK, QueuesTyped
  <2> QED  BY <2>1, PlaceInOrder
<1>3. QueueInv /\ PriceOrdered => OrderedInsert
  BY <1>2 DEF OrderedInsert
<1> QED  BY <1>1, <1>3, Invariance, StepOrdered, PTL DEF Spec
=============================================================================
