------------------------- MODULE StoreAccess_proofs -------------------------
(***************************************************************************)
(* Proofs about what the database has: about StoreAccess, for pools of     *)
(* every size and any number of orders and requests, and about Settlement, *)
(* for any trades, holdings and requests; with failures at every step.     *)
(***************************************************************************)
EXTENDS StoreAccess, Settlement, SumTheorems, SequenceTheorems

-----------------------------------------------------------------------------
(* The invariant.                                                          *)

\* A user has a connection from the step that takes it to the step that gives
\* it back or loses it.
HasConn ==
    /\ w.pc \in {"idle", "none"} => w.sp = NoConn
    /\ w.pc \in {"start", "query", "end", "release"} => w.sp \in MConn
    /\ l.pc \in {"idle", "none"} => l.sp = NoConn
    /\ l.pc \in {"type", "start", "select", "release"} => l.sp \in MConn
    /\ r.pc = "idle" => r.sp = NoConn
    /\ r.pc \in {"query", "read"} => r.sp \in MConn

\* No two users have one connection, and none has an idle one.
Disjoint ==
    /\ IsInjective(mp.list)
    /\ w.sp \notin Idle(mp) /\ l.sp \notin Idle(mp) /\ r.sp \notin Idle(mp)
    /\ w.sp # NoConn => w.sp # l.sp /\ w.sp # r.sp
    /\ l.sp # NoConn => l.sp # r.sp

\* The connections there are; a new one is made only when none is idle or in
\* place of an idle one.
One(sp) == IF sp = NoConn THEN 0 ELSE 1
OpenConns == Len(mp.list) + (One(w.sp) + One(l.sp) + One(r.sp))
FewOpen == OpenConns <= 3 \/ OpenConns <= PoolSize \div 2

\* The server has nothing of a session that is gone.  A connection given back
\* has no transaction; only the writer has anything to commit, the statement
\* of its task.
SessionsInv ==
    /\ \A c \in MConn : ~my[c].alive => my[c].snap = Nothing /\ my[c].write = Nothing
    /\ \A c \in Idle(mp) : my[c].snap = Nothing
    /\ l.pc = "select" => my[l.sp].snap = Nothing
    /\ r.pc = "query" => my[r.sp].snap = Nothing
    /\ \A c \in MConn : my[c].write # Nothing =>
         w.pc = "end" /\ w.sp = c /\ my[c].write = w.task

\* The tasks still to be written.
Pending == ToSet(q) \cup ({w.task} \ {Nothing})
Busy == w.pc \in {"none", "start", "query", "end", "release"}

\* A task adds one trade to what the holding was, and is what the cache has
\* since; there is none before the holding is loaded.
TasksInv ==
    /\ Busy <=> w.task # Nothing
    /\ l.pc # "idle" /\ l.pc # "release" => cache = Nothing
    /\ \A t \in Pending : t.kind = "sync" =>
         /\ \E id \in 1..trades : t.new = Append(t.old, id)
         /\ cache # Nothing /\ IsPrefix(t.new, cache.has)
    /\ w.pc = "end" /\ w.ok /\ w.task.kind = "sync" => db.row = w.task.old

\* The row holds trades that were made.
RowInv == ToSet(db.row) \subseteq 1..trades

\* The records in the database, the one being written and the waiting ones
\* have increasing numbers.
IsRecord(t) == t.kind # "sync"
NumbersInv ==
    /\ \A i \in DOMAIN db.recs : db.recs[i].n <= asg
    /\ \A i \in DOMAIN q : IsRecord(q[i]) =>
         /\ q[i].n <= asg
         /\ \A j \in DOMAIN q : i < j /\ IsRecord(q[j]) => q[i].n < q[j].n
         /\ \A j \in DOMAIN db.recs : db.recs[j].n < q[i].n
    /\ Busy /\ IsRecord(w.task) =>
         /\ w.task.n <= asg
         /\ \A j \in DOMAIN q : IsRecord(q[j]) => w.task.n < q[j].n
         /\ w.pc # "release" => \A j \in DOMAIN db.recs : db.recs[j].n < w.task.n

\* A request that has not read yet will see the row as it is then.
ReadInv == r.pc = "query" => r.since <= Len(db.row)

StoreInv ==
    /\ TypeOK /\ HasConn /\ Disjoint /\ FewOpen /\ SessionsInv
    /\ TasksInv /\ RowInv /\ NumbersInv /\ ReadInv
    /\ FreshRead /\ RowBehindCache /\ RecordsInOrder

-----------------------------------------------------------------------------
(* Sequences.                                                              *)

\* What a prefix is, element by element.
LEMMA Prefix ==
    ASSUME NEW s \in Holding, NEW t \in Holding
    PROVE  IsPrefix(s, t) <=> Len(s) <= Len(t) /\ \A i \in 1..Len(s) : s[i] = t[i]
<1> USE DEF Holding
<1>1. CASE Len(s) <= Len(t)
  <2>1. SubSeq(s, 1, Len(s)) = s
    OBVIOUS
  <2>2. /\ SubSeq(t, 1, Len(s)) \in Seq(Nat) /\ Len(SubSeq(t, 1, Len(s))) = Len(s)
        /\ \A i \in 1..Len(s) : SubSeq(t, 1, Len(s))[i] = t[i]
    BY <1>1
  <2>3. (\A i \in 1..Len(s) : s[i] = t[i]) => s = SubSeq(t, 1, Len(s))
    BY <2>2
  <2> QED  BY <1>1, <2>1, <2>2, <2>3 DEF IsPrefix
<1>2. CASE ~(Len(s) <= Len(t))
  BY <1>2 DEF IsPrefix
<1> QED  BY <1>1, <1>2

\* A holding is a prefix of itself and of what it becomes by a trade.
LEMMA PrefixAppend ==
    ASSUME NEW s \in Holding, NEW t \in Holding, NEW id \in Nat, IsPrefix(s, t)
    PROVE  Append(t, id) \in Holding /\ IsPrefix(t, t) /\ IsPrefix(s, Append(t, id))
<1>1. /\ Append(t, id) \in Holding /\ Len(Append(t, id)) = Len(t) + 1
      /\ \A i \in 1..Len(t) : Append(t, id)[i] = t[i]
  BY DEF Holding
<1>2. Len(s) \in Nat /\ Len(t) \in Nat
  BY DEF Holding
<1>3. IsPrefix(t, t)
  BY <1>2, Prefix
<1>4. Len(s) <= Len(t) /\ \A i \in 1..Len(s) : s[i] = t[i]
  BY Prefix
<1>5. Len(s) <= Len(Append(t, id)) /\ \A i \in 1..Len(s) : s[i] = Append(t, id)[i]
  BY <1>1, <1>2, <1>4
<1>6. IsPrefix(s, Append(t, id))
  BY <1>1, <1>5, Prefix
<1> QED  BY <1>1, <1>3, <1>6

\* The elements of a sequence.
LEMMA Elements ==
    ASSUME NEW S, NEW s \in Seq(S)
    PROVE  /\ ToSet(s) \subseteq S
           /\ \A e \in S : ToSet(Append(s, e)) = ToSet(s) \cup {e}
           /\ s # <<>> => /\ Head(s) \in ToSet(s) /\ ToSet(Tail(s)) \subseteq ToSet(s)
                          /\ ToSet(s) = ToSet(Tail(s)) \cup {Head(s)}
<1>1. ToSet(s) \subseteq S
  BY DEF ToSet
<1>2. ASSUME NEW e \in S PROVE ToSet(Append(s, e)) = ToSet(s) \cup {e}
  <2>1. /\ Append(s, e) \in Seq(S) /\ Len(Append(s, e)) = Len(s) + 1
        /\ Append(s, e)[Len(s) + 1] = e
        /\ \A i \in 1..Len(s) : Append(s, e)[i] = s[i]
    OBVIOUS
  <2>2. ASSUME NEW x \in ToSet(Append(s, e)) PROVE x \in ToSet(s) \cup {e}
    BY <2>1, <2>2 DEF ToSet
  <2>3. ASSUME NEW x \in ToSet(s) \cup {e} PROVE x \in ToSet(Append(s, e))
    BY <2>1, <2>3 DEF ToSet
  <2> QED  BY <2>2, <2>3
<1>3. ASSUME s # <<>>
      PROVE  /\ Head(s) \in ToSet(s) /\ ToSet(Tail(s)) \subseteq ToSet(s)
             /\ ToSet(s) = ToSet(Tail(s)) \cup {Head(s)}
  <2>1. /\ Tail(s) \in Seq(S) /\ Len(Tail(s)) = Len(s) - 1 /\ Len(s) >= 1 /\ Len(s) \in Nat
        /\ \A i \in 1..(Len(s) - 1) : Tail(s)[i] = s[i + 1]
        /\ Head(s) = s[1]
    BY <1>3
  <2>2. Head(s) \in ToSet(s)
    BY <2>1 DEF ToSet
  <2>3. ASSUME NEW x \in ToSet(Tail(s)) PROVE x \in ToSet(s)
    <3>1. PICK i \in 1..(Len(s) - 1) : x = Tail(s)[i]
      BY <2>1, <2>3 DEF ToSet
    <3> QED  BY <2>1, <3>1 DEF ToSet
  <2>4. ASSUME NEW x \in ToSet(s) PROVE x \in ToSet(Tail(s)) \cup {Head(s)}
    <3>1. PICK i \in 1..Len(s) : x = s[i]
      BY <2>4 DEF ToSet
    <3>2. CASE i = 1
      BY <2>1, <3>1, <3>2
    <3>3. CASE i # 1
      <4>1. i - 1 \in 1..(Len(s) - 1) /\ Tail(s)[i - 1] = x
        BY <2>1, <3>1, <3>3
      <4>2. DOMAIN Tail(s) = 1..(Len(s) - 1)
        BY <2>1
      <4> QED  BY <4>1, <4>2 DEF ToSet
    <3> QED  BY <3>2, <3>3
  <2> QED  BY <2>2, <2>3, <2>4
<1> QED  BY <1>1, <1>2, <1>3

-----------------------------------------------------------------------------
(* Sessions.                                                               *)

\* A session of which the server keeps nothing once it is gone.
Sound(s) == s \in Session /\ (~s.alive => s.snap = Nothing /\ s.write = Nothing)

\* A call that reaches no session finds one that is gone.
LEMMA Reaching ==
    ASSUME NEW s, Sound(s), NEW up \in BOOLEAN
    PROVE  /\ Reaches(s, up) \in BOOLEAN
           /\ Sound(Connect) /\ Connect.snap = Nothing /\ Connect.write = Nothing
           /\ Sound(Broken(s)) /\ Broken(s).snap = Nothing /\ Broken(s).write = Nothing
           /\ Sound(Reached(s)) /\ Reached(s).snap = s.snap /\ Reached(s).write = s.write
           /\ Reached(s).alive
           /\ Sound(Missed(s)) /\ Missed(s).snap = s.snap /\ Missed(s).write = s.write
           /\ ~Reaches(s, up) => s.snap = Nothing /\ s.write = Nothing
           /\ Commits(s, up) = s.write
<1>1. s.alive \in BOOLEAN /\ s.trans \in BOOLEAN
  BY DEF Sound, Session
<1>2. Sound(Connect) /\ Connect.snap = Nothing /\ Connect.write = Nothing /\ Connect.alive
  BY DEF Sound, Connect, Session
<1>3. Sound(Broken(s)) /\ Broken(s).snap = Nothing /\ Broken(s).write = Nothing
  BY DEF Sound, Broken, Session
<1>4. /\ Sound(Reached(s)) /\ Reached(s).snap = s.snap /\ Reached(s).write = s.write
      /\ Reached(s).alive
  BY <1>1, <1>2 DEF Reached, Sound
<1>5. Sound(Missed(s)) /\ Missed(s).snap = s.snap /\ Missed(s).write = s.write
  BY DEF Sound, Missed, Session
<1>6. Reaches(s, up) \in BOOLEAN /\ (~Reaches(s, up) => s.snap = Nothing /\ s.write = Nothing)
  BY <1>1 DEF Reaches, Sound
<1>7. Commits(s, up) = s.write
  BY <1>4, <1>6 DEF Commits
<1> QED  BY <1>2, <1>3, <1>4, <1>5, <1>6, <1>7

\* StartTransaction, Commit and RollBack leave nothing uncommitted behind.
LEMMA Ending ==
    ASSUME NEW s, Sound(s), NEW up \in BOOLEAN
    PROVE  \A t \in {StartTransaction(s, up), Commit(s, up), RollBack(s, up)} :
             Sound(t) /\ t.snap = Nothing /\ t.write = Nothing
<1>1. Sound(Missed(s)) /\ Missed(s).snap = s.snap /\ Missed(s).write = s.write
  BY Reaching
<1>2. ~Reaches(s, up) => s.snap = Nothing /\ s.write = Nothing
  BY Reaching
<1>3. ASSUME NEW b \in BOOLEAN
      PROVE  LET t == [Reached(s) EXCEPT !.trans = b, !.snap = Nothing, !.write = Nothing]
             IN  Sound(t) /\ t.snap = Nothing /\ t.write = Nothing
  <2>1. Sound(Reached(s)) /\ Reached(s).alive
    BY Reaching
  <2> QED  BY <2>1 DEF Sound, Session
<1>4. ASSUME NEW t, t \in {StartTransaction(s, up), Commit(s, up), RollBack(s, up)}
      PROVE  Sound(t) /\ t.snap = Nothing /\ t.write = Nothing
  <2>1. \/ t = Missed(s) /\ ~Reaches(s, up)
        \/ t = [Reached(s) EXCEPT !.trans = TRUE, !.snap = Nothing, !.write = Nothing]
        \/ t = [Reached(s) EXCEPT !.trans = FALSE, !.snap = Nothing, !.write = Nothing]
    BY <1>4 DEF StartTransaction, Commit, RollBack
  <2> QED  BY <1>1, <1>2, <1>3, <2>1
<1> QED  BY <1>4

\* A SELECT reads what the transaction has read or what there is now.
LEMMA Selecting ==
    ASSUME NEW s, Sound(s), NEW up \in BOOLEAN, NEW now \in Holding
    PROVE  LET t == Query_Select(s, up, now)
           IN  /\ Sound(t) /\ t.write = s.write
               /\ Reaches(s, up) => t.snap = (IF s.snap = Nothing THEN now ELSE s.snap)
<1>1. Sound(Missed(s)) /\ Missed(s).write = s.write
  BY Reaching
<1>2. CASE Reaches(s, up)
  <2> DEFINE n == IF Reached(s).snap = Nothing THEN now ELSE Reached(s).snap
             t == [Reached(s) EXCEPT !.trans = TRUE, !.snap = n]
  <2>1. /\ Sound(Reached(s)) /\ Reached(s).alive
        /\ Reached(s).snap = s.snap /\ Reached(s).write = s.write
    BY Reaching
  <2>2. n \in Holding \cup {Nothing} /\ n = (IF s.snap = Nothing THEN now ELSE s.snap)
    BY <2>1 DEF Sound, Session
  <2> HIDE DEF n
  <2>3. Sound(t) /\ t.write = s.write /\ t.snap = n
    BY <2>1, <2>2 DEF Sound, Session
  <2>4. Query_Select(s, up, now) = t
    BY <1>2 DEF Query_Select, n
  <2> QED  BY <2>2, <2>3, <2>4
<1>3. CASE ~Reaches(s, up)
  BY <1>1, <1>3 DEF Query_Select
<1> QED  BY <1>2, <1>3

\* An UPDATE leaves what it wrote to be committed.
LEMMA Updating ==
    ASSUME NEW s, Sound(s), NEW up \in BOOLEAN, NEW v \in Task \cup {Nothing}, Reaches(s, up)
    PROVE  Sound(Query_Update(s, up, v)) /\ Query_Update(s, up, v).write = v
<1>1. Sound(Reached(s)) /\ Reached(s).alive
  BY Reaching
<1>2. Query_Update(s, up, v) = [Reached(s) EXCEPT !.trans = TRUE, !.write = v]
  BY DEF Query_Update
<1> QED  BY <1>1, <1>2 DEF Sound, Session

-----------------------------------------------------------------------------
(* The pool.                                                               *)

\* The identity of a new connection is not in use.
LEMMA FreshIsFree ==
    ASSUME TypeOK, FewOpen
    PROVE  Fresh \in MConn /\ Fresh \notin Idle(mp) \cup Held
<1>1. IsFiniteSet(Idle(mp)) /\ Cardinality(Idle(mp)) \in Nat /\ Cardinality(Idle(mp)) <= Len(mp.list)
  <2>1. mp.list \in Seq(MConn) /\ Len(mp.list) \in Nat
    BY DEF TypeOK
  <2>2. mp.list \in [1..Len(mp.list) -> Idle(mp)]
    BY <2>1 DEF Idle, ToSet
  <2>3. \A c \in Idle(mp) : \E i \in 1..Len(mp.list) : mp.list[i] = c
    BY <2>1 DEF Idle, ToSet
  <2>4. ExistsSurjection(1..Len(mp.list), Idle(mp))
    BY <2>2, <2>3 DEF ExistsSurjection, Surjection
  <2>5. Cardinality(Idle(mp)) <= Len(mp.list)
    BY <2>1, <2>4, FS_SurjCardinalityBound
  <2>6. IsFiniteSet(Idle(mp))
    BY <2>1, FS_Subset, Elements, StoreAssumption DEF Idle
  <2> QED  BY <2>5, <2>6, FS_CardinalityType
<1>2. ASSUME NEW sp
      PROVE  IsFiniteSet({sp} \ {NoConn}) /\ Cardinality({sp} \ {NoConn}) = One(sp)
  <2>1. CASE sp = NoConn
    <3>1. {sp} \ {NoConn} = {}
      BY <2>1
    <3> QED  BY <2>1, <3>1, FS_EmptySet DEF One
  <2>2. CASE sp # NoConn
    <3>1. {sp} \ {NoConn} = {sp}
      BY <2>2
    <3> QED  BY <2>2, <3>1, FS_Singleton DEF One
  <2> QED  BY <2>1, <2>2
<1>3. ASSUME NEW S, IsFiniteSet(S), NEW T, IsFiniteSet(T)
      PROVE  /\ IsFiniteSet(S \cup T) /\ Cardinality(S \cup T) \in Nat
             /\ Cardinality(S \cup T) <= Cardinality(S) + Cardinality(T)
  <2>1. IsFiniteSet(S \cup T) /\ IsFiniteSet(S \cap T)
    BY <1>3, FS_Union, FS_Subset
  <2>2. /\ Cardinality(S \cup T) \in Nat /\ Cardinality(S \cap T) \in Nat
        /\ Cardinality(S) \in Nat /\ Cardinality(T) \in Nat
    BY <1>3, <2>1, FS_CardinalityType
  <2>3. Cardinality(S \cup T) = Cardinality(S) + Cardinality(T) - Cardinality(S \cap T)
    BY <1>3, FS_Union
  <2> QED  BY <2>1, <2>2, <2>3
<1> DEFINE inW == {w.sp} \ {NoConn}
           inL == {l.sp} \ {NoConn}
           inR == {r.sp} \ {NoConn}
<1>4. /\ IsFiniteSet(inW) /\ Cardinality(inW) = One(w.sp)
      /\ IsFiniteSet(inL) /\ Cardinality(inL) = One(l.sp)
      /\ IsFiniteSet(inR) /\ Cardinality(inR) = One(r.sp)
  BY <1>2
<1>5. Idle(mp) \cup Held = ((Idle(mp) \cup inW) \cup inL) \cup inR
  BY DEF Held
<1> HIDE DEF inW, inL, inR
<1>6. IsFiniteSet(Idle(mp) \cup inW) /\ Cardinality(Idle(mp) \cup inW) \in Nat
      /\ Cardinality(Idle(mp) \cup inW) <= Cardinality(Idle(mp)) + Cardinality(inW)
  BY <1>1, <1>3, <1>4
<1>7. IsFiniteSet((Idle(mp) \cup inW) \cup inL) /\ Cardinality((Idle(mp) \cup inW) \cup inL) \in Nat
      /\ Cardinality((Idle(mp) \cup inW) \cup inL) <= Cardinality(Idle(mp) \cup inW) + Cardinality(inL)
  BY <1>3, <1>4, <1>6
<1>8. IsFiniteSet(Idle(mp) \cup Held) /\ Cardinality(Idle(mp) \cup Held) \in Nat
      /\ Cardinality(Idle(mp) \cup Held) <= Cardinality((Idle(mp) \cup inW) \cup inL) + Cardinality(inR)
  BY <1>3, <1>4, <1>5, <1>7
<1>9. Cardinality(Idle(mp) \cup Held) <= OpenConns
  <2>1. /\ One(w.sp) \in Nat /\ One(l.sp) \in Nat /\ One(r.sp) \in Nat /\ Len(mp.list) \in Nat
        /\ Cardinality(inW) \in Nat /\ Cardinality(inL) \in Nat /\ Cardinality(inR) \in Nat
    BY <1>4 DEF One, TypeOK
  <2>2. Cardinality((Idle(mp) \cup inW) \cup inL) <= Len(mp.list) + (Cardinality(inW) + Cardinality(inL))
    <3>1. Cardinality(Idle(mp) \cup inW) <= Len(mp.list) + Cardinality(inW)
      BY <1>1, <1>6, <2>1
    <3> QED  BY <1>6, <1>7, <2>1, <3>1
  <2> DEFINE all == Cardinality(Idle(mp) \cup Held)
             two == Cardinality((Idle(mp) \cup inW) \cup inL)
  <2>3. all \in Nat /\ two \in Nat /\ all <= two + Cardinality(inR)
        /\ two <= Len(mp.list) + (Cardinality(inW) + Cardinality(inL))
    BY <1>7, <1>8, <2>2
  <2> HIDE DEF all, two
  <2>4. all <= Len(mp.list) + (Cardinality(inW) + Cardinality(inL) + Cardinality(inR))
    BY <2>1, <2>3, SMTT(20)
  <2> QED  BY <1>4, <2>4 DEF all, OpenConns
<1>10. Cardinality(Idle(mp) \cup Held) < Cardinality(MConn)
  <2>1. OpenConns \in Nat /\ PoolSize \in Nat /\ PoolSize \div 2 \in Nat
    <3>1. One(w.sp) \in Nat /\ One(l.sp) \in Nat /\ One(r.sp) \in Nat /\ Len(mp.list) \in Nat
      BY DEF One, TypeOK
    <3>2. PoolSize \in Nat
      BY StoreAssumption
    <3> QED  BY <3>1, <3>2 DEF OpenConns
  <2>2. Cardinality(MConn) \in Nat /\ Cardinality(MConn) > 3 /\ Cardinality(MConn) > PoolSize \div 2
    BY StoreAssumption, FS_CardinalityType
  <2> QED  BY <1>8, <1>9, <2>1, <2>2 DEF FewOpen
<1>11. \E c \in MConn : c \notin Idle(mp) \cup Held
  <2>1. SUFFICES ASSUME MConn \subseteq Idle(mp) \cup Held PROVE FALSE
    OBVIOUS
  <2>2. Cardinality(MConn) <= Cardinality(Idle(mp) \cup Held) /\ Cardinality(MConn) \in Nat
    BY <1>8, <2>1, FS_Subset, FS_CardinalityType
  <2> QED  BY <1>8, <1>10, <2>2
<1> QED  BY <1>11 DEF Fresh

\* An idle connection is one.
LEMMA NoConnNotIdle == TypeOK => NoConn \notin Idle(mp) /\ Idle(mp) \subseteq MConn
<1> SUFFICES ASSUME TypeOK PROVE Idle(mp) \subseteq MConn
  BY StoreAssumption
<1>1. mp.list \in Seq(MConn)
  BY DEF TypeOK
<1> QED  BY <1>1, Elements DEF Idle

\* A new session is sound.
LEMMA ConnectIsSession ==
    Connect \in Session /\ Sound(Connect) /\ Connect.snap = Nothing /\ Connect.write = Nothing
BY DEF Connect, Session, Sound

\* GetConnection gives a connection that nobody has and that is no longer in
\* the list, with a session in which nothing has been done.
LEMMA Getting ==
    ASSUME TypeOK, Disjoint, FewOpen, SessionsInv, NEW sp, Get(sp)
    PROVE  /\ mp' \in [list : Seq(MConn), cur : Int, max : {PoolSize}] /\ mp'.cur <= PoolSize
           /\ aged' \subseteq MConn
           /\ sp \in MConn \cup {NoConn} /\ sp \notin Held /\ sp \notin Idle(mp')
           /\ IsInjective(mp'.list) /\ Idle(mp') \subseteq Idle(mp)
           /\ \/ Len(mp'.list) + 1 <= Len(mp.list)
              \/ Len(mp'.list) = 0 /\ Len(mp.list) = 0
           /\ my' \in [MConn -> Session]
           /\ \A c \in MConn : my'[c] \in {my[c], Connect}
           /\ sp \in MConn => my'[sp].snap = Nothing
<1> DEFINE fresh == IF db.up THEN Fresh ELSE NoConn
           g == GetConnection(mp, aged, fresh)
<1>1. /\ fresh \in MConn \cup {NoConn} /\ fresh \notin Idle(mp) /\ fresh \notin Held
  <2> QED  BY FreshIsFree, NoConnNotIdle DEF Held
<1>2. sp = g.sp /\ mp' = g.pool /\ aged' = aged \cap Idle(mp')
  BY DEF Get
<1>3. my' = [c \in MConn |-> IF /\ c \in Idle(mp) \cup Held
                                /\ c \in Idle(g.pool) \cup Held \cup ({sp} \ {fresh})
                             THEN my[c] ELSE Connect]
  BY DEF Get
<1>4. /\ mp.list \in Seq(MConn) /\ mp.cur \in Int /\ mp.max = PoolSize /\ PoolSize \in Nat
      /\ mp \in [list : Seq(MConn), cur : Int, max : {PoolSize}] /\ mp.cur <= PoolSize
      /\ aged \subseteq MConn
  BY StoreAssumption DEF TypeOK
<1> DEFINE same == [mp EXCEPT !.list = Tail(@)]
<1>5. CASE mp.list # <<>>
  <2> DEFINE t == Tail(mp.list)
  <2>1. /\ t \in Seq(MConn) /\ Len(t) + 1 <= Len(mp.list)
        /\ Head(mp.list) \in Idle(mp) /\ ToSet(t) \subseteq Idle(mp)
    BY <1>4, <1>5, Elements DEF Idle
  <2>2. /\ IsInjective(t) /\ Head(mp.list) \notin ToSet(t)
    <3>1. /\ \A i \in 1..Len(t) : t[i] = mp.list[i + 1] /\ i + 1 \in 1..Len(mp.list)
          /\ Head(mp.list) = mp.list[1] /\ 1 \in 1..Len(mp.list)
          /\ Len(t) \in Nat /\ DOMAIN t = 1..Len(t) /\ DOMAIN mp.list = 1..Len(mp.list)
      BY <1>4, <1>5
    <3> HIDE DEF t
    <3>2. \A i, j \in 1..Len(mp.list) : mp.list[i] = mp.list[j] => i = j
      BY <3>1 DEF Disjoint, IsInjective
    <3>3. IsInjective(t)
      <4> SUFFICES ASSUME NEW i \in 1..Len(t), NEW j \in 1..Len(t), t[i] = t[j] PROVE i = j
        BY <3>1 DEF IsInjective
      <4>1. i + 1 = j + 1
        BY <3>1, <3>2
      <4> QED  BY <4>1
    <3>4. Head(mp.list) \notin ToSet(t)
      <4> SUFFICES ASSUME NEW i \in 1..Len(t), t[i] = mp.list[1] PROVE FALSE
        BY <3>1 DEF ToSet
      <4>1. i + 1 = 1
        BY <3>1, <3>2
      <4> QED  BY <4>1
    <3> QED  BY <3>3, <3>4
  <2>3. /\ mp'.list = t /\ mp' \in [list : Seq(MConn), cur : Int, max : {PoolSize}]
        /\ mp'.cur <= PoolSize
        /\ sp \in {Head(mp.list), fresh}
    <3>1. CASE Head(mp.list) \notin aged
      <4>1. g = [sp |-> Head(mp.list), pool |-> same]
        BY <1>5, <3>1 DEF GetConnection
      <4> HIDE DEF g
      <4> QED  BY <1>2, <1>4, <2>1, <4>1
    <3>2. CASE Head(mp.list) \in aged
      <4>1. g = [sp |-> fresh, pool |-> IF fresh = NoConn THEN [same EXCEPT !.cur = @ - 1] ELSE same]
        BY <1>5, <3>2 DEF GetConnection
      <4>2. same = [list |-> t, cur |-> mp.cur, max |-> PoolSize]
        <5> DEFINE listed(x) == [mp EXCEPT !.list = x]
        <5>1. \A x : listed(x) = [list |-> x, cur |-> mp.cur, max |-> PoolSize]
          BY <1>4
        <5>2. same = listed(t)
          OBVIOUS
        <5> HIDE DEF same, t, listed
        <5> QED  BY <5>1, <5>2
      <4> HIDE DEF g, fresh, same, t
      <4>3. g.pool \in {[same EXCEPT !.cur = @ - 1], same} /\ g.sp = fresh
        BY <4>1
      <4>4. [same EXCEPT !.cur = @ - 1] = [list |-> t, cur |-> mp.cur - 1, max |-> PoolSize]
        BY <4>2
      <4>5. mp' = [list |-> t, cur |-> mp.cur - 1, max |-> PoolSize]
            \/ mp' = [list |-> t, cur |-> mp.cur, max |-> PoolSize]
        BY <1>2, <4>2, <4>3, <4>4
      <4> QED  BY <1>2, <1>4, <2>1, <4>3, <4>5
    <3> QED  BY <3>1, <3>2
  <2>4. Idle(mp') = ToSet(t)
    BY <2>3 DEF Idle
  <2>5. Head(mp.list) \in MConn /\ Head(mp.list) \notin Held /\ Head(mp.list) # NoConn
    BY <1>4, <1>5, <2>1, StoreAssumption DEF Disjoint, Held
  <2>6. sp \in MConn \cup {NoConn} /\ sp \notin Held /\ sp \notin Idle(mp')
    BY <1>1, <2>1, <2>2, <2>3, <2>4, <2>5
  <2>7. my' \in [MConn -> Session] /\ \A c \in MConn : my'[c] \in {my[c], Connect}
    BY <1>3, ConnectIsSession DEF TypeOK
  <2>8. ASSUME sp \in MConn PROVE my'[sp].snap = Nothing
    <3>1. sp \in Idle(mp) \/ my'[sp] = Connect
      BY <1>1, <1>3, <2>1, <2>3, <2>8
    <3> QED  BY <2>7, <2>8, <3>1, ConnectIsSession DEF SessionsInv
  <2> QED  BY <1>2, <1>4, <2>1, <2>2, <2>3, <2>4, <2>6, <2>7, <2>8
<1>6. CASE mp.list = <<>>
  <2>1. /\ mp'.list = <<>> /\ mp' \in [list : Seq(MConn), cur : Int, max : {PoolSize}]
        /\ mp'.cur <= PoolSize /\ sp \in {fresh, NoConn}
    <3> DEFINE more == [mp EXCEPT !.cur = @ + 1]
    <3>1. /\ more.list = <<>> /\ more \in [list : Seq(MConn), cur : Int, max : {PoolSize}]
          /\ mp.cur < PoolSize => more.cur <= PoolSize
      BY <1>4, <1>6
    <3>2. \/ mp.cur < PoolSize /\ g = [sp |-> fresh, pool |-> IF fresh = NoConn THEN mp ELSE more]
          \/ g = [sp |-> NoConn, pool |-> mp]
      BY <1>4, <1>6 DEF GetConnection
    <3>3. /\ g.pool = mp \/ (mp.cur < PoolSize /\ g.pool = more)
          /\ g.sp \in {fresh, NoConn}
      BY <3>2
    <3> HIDE DEF g, fresh, more
    <3> QED  BY <1>2, <1>4, <1>6, <3>1, <3>3
  <2>2. Idle(mp') = {} /\ Idle(mp) = {} /\ IsInjective(mp'.list)
    BY <1>6, <2>1 DEF Idle, ToSet, IsInjective
  <2>3. sp \in MConn \cup {NoConn} /\ sp \notin Held
    BY <1>1, <2>1 DEF Held
  <2>4. my' \in [MConn -> Session] /\ \A c \in MConn : my'[c] \in {my[c], Connect}
    BY <1>3, ConnectIsSession DEF TypeOK
  <2>5. ASSUME sp \in MConn PROVE my'[sp].snap = Nothing
    <3>1. my'[sp] = Connect
      BY <1>1, <1>3, <2>1, <2>2, <2>3, <2>5, StoreAssumption
    <3> QED  BY <3>1, ConnectIsSession
  <2> QED  BY <1>2, <1>4, <1>6, <2>1, <2>2, <2>3, <2>4, <2>5
<1> QED  BY <1>5, <1>6

\* ReleaseConnection adds the connection to the list and rolls back what its
\* session has done.
LEMMA Releasing ==
    ASSUME TypeOK, SessionsInv, Disjoint, NEW sp \in MConn \cup {NoConn}, Release(sp),
           sp \notin Idle(mp)
    PROVE  /\ mp' \in [list : Seq(MConn), cur : Int, max : {PoolSize}] /\ mp'.cur <= PoolSize
           /\ IsInjective(mp'.list) /\ Idle(mp') = Idle(mp) \cup ({sp} \ {NoConn})
           /\ Len(mp'.list) = Len(mp.list) + One(sp)
           /\ my' \in [MConn -> Session]
           /\ \A c \in MConn : c # sp => my'[c] = my[c]
           /\ sp \in MConn => Sound(my'[sp]) /\ my'[sp].snap = Nothing /\ my'[sp].write = Nothing
<1>1. /\ mp.list \in Seq(MConn) /\ mp.cur \in Int /\ mp.max = PoolSize /\ PoolSize \in Nat
      /\ mp \in [list : Seq(MConn), cur : Int, max : {PoolSize}] /\ mp.cur <= PoolSize
  BY StoreAssumption DEF TypeOK
<1>2. CASE sp = NoConn
  <2>1. mp' = [mp EXCEPT !.cur = @ - 1] /\ my' = my
    BY <1>2 DEF Release, ReleaseConnection
  <2>2. /\ mp'.list = mp.list /\ mp' \in [list : Seq(MConn), cur : Int, max : {PoolSize}]
        /\ mp'.cur <= PoolSize
    BY <1>1, <2>1
  <2> QED  BY <1>1, <1>2, <2>1, <2>2, StoreAssumption DEF Idle, One, Disjoint, TypeOK
<1>3. CASE sp # NoConn
  <2>1. sp \in MConn
    BY <1>3
  <2>2. mp' = [mp EXCEPT !.list = Append(@, sp)] /\ my' = [my EXCEPT ![sp] = RollBack(@, db.up)]
    BY <1>3 DEF Release, ReleaseConnection
  <2> DEFINE t == Append(mp.list, sp)
  <2>3. /\ t \in Seq(MConn) /\ Len(t) = Len(mp.list) + 1 /\ Len(mp.list) \in Nat
        /\ t[Len(mp.list) + 1] = sp /\ \A i \in 1..Len(mp.list) : t[i] = mp.list[i]
    BY <1>1, <2>1
  <2>4. /\ mp'.list = t /\ mp' \in [list : Seq(MConn), cur : Int, max : {PoolSize}]
        /\ mp'.cur <= PoolSize
    BY <1>1, <2>2, <2>3
  <2>5. Idle(mp') = Idle(mp) \cup {sp}
    BY <1>1, <2>1, <2>4, Elements DEF Idle
  <2>6. IsInjective(t)
    <3> HIDE DEF t
    <3>1. /\ DOMAIN t = 1..(Len(mp.list) + 1) /\ DOMAIN mp.list = 1..Len(mp.list)
          /\ \A i \in 1..Len(mp.list) : mp.list[i] # sp
      BY <1>1, <2>3 DEF Idle, ToSet
    <3>2. \A i, j \in 1..Len(mp.list) : mp.list[i] = mp.list[j] => i = j
      BY <3>1 DEF Disjoint, IsInjective
    <3>3. ASSUME NEW i \in 1..(Len(mp.list) + 1), NEW j \in 1..(Len(mp.list) + 1), t[i] = t[j]
          PROVE  i = j
      <4>1. \A k \in 1..(Len(mp.list) + 1) : k = Len(mp.list) + 1 \/ k \in 1..Len(mp.list)
        BY <2>3
      <4> QED  BY <2>3, <3>1, <3>2, <3>3, <4>1
    <3> QED  BY <3>1, <3>3 DEF IsInjective
  <2>7. Sound(my[sp]) /\ db.up \in BOOLEAN
    BY <2>1 DEF Sound, SessionsInv, TypeOK
  <2>8. Sound(RollBack(my[sp], db.up)) /\ RollBack(my[sp], db.up).snap = Nothing
        /\ RollBack(my[sp], db.up).write = Nothing
    BY <2>7, Ending
  <2>9. my' \in [MConn -> Session] /\ my'[sp] = RollBack(my[sp], db.up)
        /\ \A c \in MConn : c # sp => my'[c] = my[c]
    BY <2>1, <2>2, <2>8 DEF TypeOK, Sound
  <2> QED  BY <1>3, <2>1, <2>3, <2>4, <2>5, <2>6, <2>8, <2>9 DEF One
<1> QED  BY <1>2, <1>3

-----------------------------------------------------------------------------
(* Types.                                                                  *)

WriterType == [pc : {"idle", "none", "start", "query", "end", "release"}, sp : MConn \cup {NoConn},
               task : Task \cup {Nothing}, ok : BOOLEAN]
LoaderType == [pc : {"idle", "none", "type", "start", "select", "release"}, sp : MConn \cup {NoConn}]
ReaderType == [pc : {"idle", "query", "read", "release"}, sp : MConn \cup {NoConn},
               since : Nat, got : Holding]
TablesType == [up : BOOLEAN, row : Holding, recs : Seq(RecordTask)]
LeftType == [reads : Nat, troubles : Nat, exits : Nat]

\* Every session is sound.
LEMMA AllSound ==
    ASSUME TypeOK, SessionsInv
    PROVE  db.up \in BOOLEAN /\ db.row \in Holding /\ \A c \in MConn : Sound(my[c])
BY DEF TypeOK, SessionsInv, Sound

\* What is left to go wrong.
LEMMA Spending ==
    ASSUME TypeOK, NEW what \in {"reads", "troubles", "exits"}, Spend(what)
    PROVE  left' \in LeftType
<1>1. left \in LeftType /\ left[what] \in Nat /\ left[what] > 0
  BY DEF TypeOK, LeftType, Spend
<1>2. left[what] - 1 \in Nat
  BY <1>1
<1>3. left' = [left EXCEPT ![what] = left[what] - 1]
  BY DEF Spend
<1> QED  BY <1>1, <1>2, <1>3 DEF LeftType

\* What is written is well typed.
LEMMA ApplyTyped ==
    ASSUME NEW d \in TablesType, NEW v \in Task \cup {Nothing}
    PROVE  /\ Apply(d, v) \in TablesType /\ Apply(d, v).up = d.up
           /\ v = Nothing => Apply(d, v) = d
           /\ v # Nothing /\ v.kind = "sync" =>
                /\ v \in SyncTask /\ Apply(d, v).row = v.new /\ Apply(d, v).recs = d.recs
           /\ v # Nothing /\ v.kind # "sync" =>
                /\ v \in RecordTask /\ Apply(d, v).row = d.row
                /\ Apply(d, v).recs = Append(d.recs, v)
<1>1. CASE v = Nothing
  BY <1>1 DEF Apply
<1>2. CASE v # Nothing /\ v.kind = "sync"
  <2>1. v \in SyncTask /\ v.new \in Holding
    BY <1>2 DEF Task, SyncTask, RecordTask
  <2>2. Apply(d, v) = [d EXCEPT !.row = v.new]
    BY <1>2 DEF Apply
  <2>3. Apply(d, v) \in TablesType /\ Apply(d, v).up = d.up
        /\ Apply(d, v).row = v.new /\ Apply(d, v).recs = d.recs
    BY <2>1, <2>2 DEF TablesType
  <2> QED  BY <1>2, <2>1, <2>3
<1>3. CASE v # Nothing /\ v.kind # "sync"
  <2>1. v \in RecordTask
    BY <1>3 DEF Task, SyncTask, RecordTask
  <2>2. Apply(d, v) = [d EXCEPT !.recs = Append(@, v)]
    BY <1>3 DEF Apply
  <2>3. d.recs \in Seq(RecordTask) /\ Append(d.recs, v) \in Seq(RecordTask)
    BY <2>1 DEF TablesType
  <2>4. Apply(d, v) \in TablesType /\ Apply(d, v).up = d.up
        /\ Apply(d, v).row = d.row /\ Apply(d, v).recs = Append(d.recs, v)
    BY <2>2, <2>3 DEF TablesType
  <2> QED  BY <1>3, <2>1, <2>4
<1> QED  BY <1>1, <1>2, <1>3

\* The new task gets the next number.
LEMMA Assigning ==
    ASSUME TypeOK, NEW t, t \in SyncTask \/ t \in [kind : {"order", "cancel"}, id : Nat], Assign(t)
    PROVE  \E a \in Task :
             /\ q' = Append(q, a) /\ q' \in Seq(Task) /\ asg' \in Nat
             /\ t \in SyncTask => a = t /\ asg' = asg
             /\ t \notin SyncTask => a \in RecordTask /\ a.n = asg + 1 /\ asg' = asg + 1
<1>1. q \in Seq(Task) /\ asg \in Nat
  BY DEF TypeOK
<1>2. CASE t \in SyncTask
  <2>1. t.kind = "sync" /\ t \in Task
    BY <1>2 DEF SyncTask, Task
  <2> QED  BY <1>1, <1>2, <2>1 DEF Assign
<1>3. CASE t \notin SyncTask
  <2> DEFINE a == [kind |-> t.kind, id |-> t.id, n |-> asg + 1]
  <2>1. t.kind # "sync" /\ a \in RecordTask /\ a \in Task
    BY <1>1, <1>3 DEF RecordTask, Task
  <2>2. asg' = asg + 1 /\ q' = Append(q, a)
    BY <2>1 DEF Assign
  <2>3. a.n = asg + 1 /\ asg + 1 \in Nat
    BY <1>1
  <2> HIDE DEF a
  <2>4. Append(q, a) \in Seq(Task)
    BY <1>1, <2>1
  <2> QED  BY <1>3, <2>1, <2>2, <2>3, <2>4
<1> QED  BY <1>2, <1>3

\* A step of the writer keeps the types.
LEMMA WriterTyped == ASSUME StoreInv, Writer PROVE TypeOK'
<1> USE DEF StoreInv
<1>0. /\ \A c \in MConn : Sound(my[c]) /\ my[c] \in Session
      /\ db.up \in BOOLEAN /\ my \in [MConn -> Session] /\ w \in WriterType /\ db \in TablesType
  BY AllSound DEF TypeOK, WriterType, Sound, TablesType
<1>1. CASE W_Get
  <2>1. PICK sp \in MConn \cup {NoConn} :
           /\ Get(sp)
           /\ w' = [pc |-> IF sp = NoConn THEN "none" ELSE "start", sp |-> sp, task |-> Head(q), ok |-> TRUE]
    BY <1>1 DEF W_Get
  <2>2. /\ mp' \in [list : Seq(MConn), cur : Int, max : {PoolSize}] /\ mp'.cur <= PoolSize
        /\ aged' \subseteq MConn /\ my' \in [MConn -> Session]
    BY <2>1, Getting
  <2>3. Head(q) \in Task /\ Tail(q) \in Seq(Task) /\ q' = Tail(q)
    BY <1>1 DEF W_Get, TypeOK
  <2> QED  BY <1>1, <2>1, <2>2, <2>3 DEF W_Get, TypeOK
<1>2. CASE W_NoConn
  <2>1. /\ mp' \in [list : Seq(MConn), cur : Int, max : {PoolSize}] /\ mp'.cur <= PoolSize
        /\ my' \in [MConn -> Session]
    BY <1>2, Releasing, NoConnNotIdle DEF W_NoConn
  <2>2. w' \in WriterType
    BY <1>0, <1>2 DEF W_NoConn, WriterType
  <2> QED  BY <1>2, <2>1, <2>2 DEF W_NoConn, feed, TypeOK, WriterType
<1>3. CASE W_Start
  <2> DEFINE s == my[w.sp]
  <2>1. w.sp \in MConn
    BY <1>3 DEF W_Start, HasConn
  <2>2. StartTransaction(s, db.up) \in Session /\ Commits(s, db.up) \in Task \cup {Nothing}
    <3>1. Sound(s) /\ Sound(StartTransaction(s, db.up)) /\ Commits(s, db.up) = s.write
      BY <1>0, <2>1, Ending, Reaching
    <3> QED  BY <3>1 DEF Sound, Session
  <2>3. /\ my' = [my EXCEPT ![w.sp] = StartTransaction(s, db.up)]
        /\ db' = Apply(db, Commits(s, db.up))
    BY <1>3 DEF W_Start
  <2>4. w' \in WriterType
    BY <1>0, <1>3 DEF W_Start, WriterType
  <2>5. my' \in [MConn -> Session] /\ db' \in TablesType
    BY <1>0, <2>2, <2>3, ApplyTyped
  <2> QED  BY <1>3, <2>4, <2>5 DEF W_Start, feed, TypeOK, WriterType, TablesType
<1>4. CASE W_Query
  <2> DEFINE s == my[w.sp]
             n == Affected(w.task)
             v == IF n = 0 THEN Reached(s).write ELSE w.task
  <2>1. w.sp \in MConn /\ w.task \in Task
    BY <1>0, <1>4 DEF W_Query, HasConn, TasksInv, Busy, WriterType
  <2>2. Reached(s).write \in Task \cup {Nothing} /\ Missed(s) \in Session /\ Reached(s) \in Session
    BY <1>0, <2>1, Reaching DEF Sound, Session
  <2>3. /\ v \in Task \cup {Nothing}
        /\ Reaches(s, db.up) => Query_Update(s, db.up, v) \in Session
    BY <1>0, <2>1, <2>2, Updating DEF Sound
  <2>4. \/ Reaches(s, db.up) /\ my' = [my EXCEPT ![w.sp] = Query_Update(s, db.up, v)]
        \/ my' = [my EXCEPT ![w.sp] = Missed(s)]
        \/ my' = [my EXCEPT ![w.sp] = Reached(s)]
    BY <1>4 DEF W_Query
  <2>5. my' \in [MConn -> Session]
    <3> HIDE DEF v, s
    <3> QED  BY <1>0, <2>2, <2>3, <2>4
  <2>6. w' \in WriterType
    <3>1. \E b \in BOOLEAN : w' = [w EXCEPT !.pc = "end", !.ok = b]
      BY <1>4 DEF W_Query
    <3> QED  BY <1>0, <3>1 DEF WriterType
  <2>7. left' \in LeftType
    <3>1. left' = left \/ Spend("troubles")
      BY <1>4 DEF W_Query
    <3> QED  BY <3>1, Spending DEF TypeOK, LeftType
  <2> QED  BY <1>4, <2>5, <2>6, <2>7 DEF W_Query, feed, TypeOK, WriterType, LeftType
<1>5. CASE W_End
  <2> DEFINE s == my[w.sp]
  <2>1. w.sp \in MConn
    BY <1>5 DEF W_End, HasConn
  <2>2. /\ Commit(s, db.up) \in Session /\ RollBack(s, db.up) \in Session
        /\ Commits(s, db.up) \in Task \cup {Nothing}
    BY <1>0, <2>1, Ending, Reaching DEF Sound, Session
  <2>3. /\ my' = [my EXCEPT ![w.sp] = IF w.ok THEN Commit(s, db.up) ELSE RollBack(s, db.up)]
        /\ db' = IF w.ok THEN Apply(db, Commits(s, db.up)) ELSE db
    BY <1>5 DEF W_End
  <2>4. w' \in WriterType
    BY <1>0, <1>5 DEF W_End, WriterType
  <2>5. my' \in [MConn -> Session] /\ db' \in TablesType
    <3> HIDE DEF s
    <3> QED  BY <1>0, <2>2, <2>3, ApplyTyped
  <2> QED  BY <1>5, <2>4, <2>5 DEF W_End, feed, TypeOK, WriterType, TablesType
<1>6. CASE W_Release
  <2>1. w.sp \in MConn /\ w.sp \notin Idle(mp)
    BY <1>6 DEF W_Release, HasConn, Disjoint
  <2>2. /\ mp' \in [list : Seq(MConn), cur : Int, max : {PoolSize}] /\ mp'.cur <= PoolSize
        /\ my' \in [MConn -> Session]
    BY <1>6, <2>1, Releasing DEF W_Release
  <2> QED  BY <1>6, <2>2 DEF W_Release, NoTask, feed, TypeOK
<1> QED  BY <1>1, <1>2, <1>3, <1>4, <1>5, <1>6 DEF Writer

\* A step of the loading thread keeps the types.
LEMMA LoaderTyped == ASSUME StoreInv, Loader PROVE TypeOK'
<1> USE DEF StoreInv
<1>0. /\ \A c \in MConn : Sound(my[c]) /\ my[c] \in Session
      /\ db.up \in BOOLEAN /\ db.row \in Holding
      /\ my \in [MConn -> Session] /\ l \in LoaderType /\ db \in TablesType
  BY AllSound DEF TypeOK, LoaderType, Sound, TablesType
<1>1. CASE L_Get
  <2>1. PICK sp \in MConn \cup {NoConn} :
           Get(sp) /\ l' = [pc |-> IF sp = NoConn THEN "none" ELSE "type", sp |-> sp]
    BY <1>1 DEF L_Get
  <2>2. /\ mp' \in [list : Seq(MConn), cur : Int, max : {PoolSize}] /\ mp'.cur <= PoolSize
        /\ aged' \subseteq MConn /\ my' \in [MConn -> Session]
    BY <2>1, Getting
  <2> QED  BY <1>1, <2>1, <2>2 DEF L_Get, feed, TypeOK
<1>2. CASE L_NoConn
  <2>1. /\ mp' \in [list : Seq(MConn), cur : Int, max : {PoolSize}] /\ mp'.cur <= PoolSize
        /\ my' \in [MConn -> Session]
    BY <1>2, Releasing, NoConnNotIdle DEF L_NoConn
  <2> QED  BY <1>2, <2>1 DEF L_NoConn, User, feed, TypeOK
<1>3. CASE L_Type
  <2>1. l.sp \in MConn
    BY <1>3 DEF L_Type, HasConn
  <2>2. my' \in [MConn -> Session] /\ l' \in LoaderType /\ left' \in LeftType
    <3>1. CASE l' = [l EXCEPT !.pc = "start"] /\ UNCHANGED <<my, left>>
      BY <1>0, <3>1 DEF LoaderType, TypeOK, LeftType
    <3>2. CASE Spend("troubles") /\ l' = User /\ my' = [my EXCEPT ![l.sp] = Connect]
      BY <1>0, <2>1, <3>2, ConnectIsSession, Spending DEF LoaderType, User
    <3> QED  BY <1>3, <3>1, <3>2 DEF L_Type
  <2> QED  BY <1>3, <2>2 DEF L_Type, feed, TypeOK, LoaderType, LeftType
<1>4. CASE L_Start
  <2> DEFINE s == my[l.sp]
  <2>1. l.sp \in MConn
    BY <1>4 DEF L_Start, HasConn
  <2>2. StartTransaction(s, db.up) \in Session /\ Commits(s, db.up) \in Task \cup {Nothing}
    <3>1. Sound(s) /\ Sound(StartTransaction(s, db.up)) /\ Commits(s, db.up) = s.write
      BY <1>0, <2>1, Ending, Reaching
    <3> QED  BY <3>1 DEF Sound, Session
  <2>3. /\ my' = [my EXCEPT ![l.sp] = StartTransaction(s, db.up)]
        /\ db' = Apply(db, Commits(s, db.up))
    BY <1>4 DEF L_Start
  <2>4. l' \in LoaderType
    BY <1>0, <1>4 DEF L_Start, LoaderType
  <2>5. my' \in [MConn -> Session] /\ db' \in TablesType
    BY <1>0, <2>2, <2>3, ApplyTyped
  <2> QED  BY <1>4, <2>4, <2>5 DEF L_Start, feed, TypeOK, LoaderType, TablesType
<1>5. CASE L_Select
  <2> DEFINE s == my[l.sp]
             got == Query_Select(s, db.up, db.row)
  <2>1. l.sp \in MConn /\ l.pc = "select"
    BY <1>5 DEF L_Select, HasConn
  <2>2. /\ Sound(s) /\ s.snap = Nothing /\ got \in Session
        /\ Reaches(s, db.up) => got.snap = db.row
    BY <1>0, <2>1, Selecting DEF Sound, SessionsInv
  <2>3. CASE Reaches(s, db.up) /\ my' = [my EXCEPT ![l.sp] = got]
             /\ cache' = [read |-> TRUE, has |-> got.snap]
             /\ l' = [l EXCEPT !.pc = "release"] /\ UNCHANGED left
    <3>1. my' \in [MConn -> Session]
      <4> HIDE DEF got, s
      <4> QED  BY <1>0, <2>2, <2>3
    <3>2. cache' \in Cached
      <4> HIDE DEF got, s
      <4> QED  BY <1>0, <2>2, <2>3 DEF Cached
    <3>3. l' \in LoaderType
      BY <1>0, <2>3 DEF LoaderType
    <3> QED  BY <1>5, <2>3, <3>1, <3>2, <3>3 DEF L_Select, TypeOK, LoaderType
  <2>4. CASE /\ left' = left \/ Spend("troubles")
             /\ \E v \in Uninitialised : cache' = [read |-> FALSE, has |-> v]
             /\ l' = User /\ my' = [my EXCEPT ![l.sp] = Connect]
    <3>1. my' \in [MConn -> Session]
      BY <1>0, <2>4, ConnectIsSession
    <3>2. Uninitialised \subseteq Holding
      <4>1. ASSUME NEW n \in 0..Len(db.row) PROVE SubSeq(db.row, 1, n) \in Holding
        BY <1>0, <4>1 DEF Holding
      <4>2. <<Garbage>> \in Holding
        BY DEF Garbage, Holding
      <4> QED  BY <4>1, <4>2 DEF Uninitialised
    <3>3. cache' \in Cached
      BY <2>4, <3>2 DEF Cached
    <3>4. l' \in LoaderType /\ left' \in LeftType
      BY <2>4, Spending DEF User, LoaderType, LeftType, TypeOK
    <3> QED  BY <1>5, <2>4, <3>1, <3>3, <3>4 DEF L_Select, TypeOK, LoaderType, LeftType
  <2> QED  BY <1>5, <2>3, <2>4 DEF L_Select
<1>6. CASE L_Release
  <2>1. l.sp \in MConn /\ l.sp \notin Idle(mp)
    BY <1>6 DEF L_Release, HasConn, Disjoint
  <2>2. /\ mp' \in [list : Seq(MConn), cur : Int, max : {PoolSize}] /\ mp'.cur <= PoolSize
        /\ my' \in [MConn -> Session]
    BY <1>6, <2>1, Releasing DEF L_Release
  <2> QED  BY <1>6, <2>2 DEF L_Release, User, feed, TypeOK
<1> QED  BY <1>1, <1>2, <1>3, <1>4, <1>5, <1>6 DEF Loader

\* A step of a request keeps the types.
LEMMA ReaderTyped == ASSUME StoreInv, Reader PROVE TypeOK'
<1> USE DEF StoreInv
<1>0. /\ \A c \in MConn : Sound(my[c]) /\ my[c] \in Session
      /\ db.up \in BOOLEAN /\ db.row \in Holding
      /\ my \in [MConn -> Session] /\ r \in ReaderType
  BY AllSound DEF TypeOK, ReaderType, Sound
<1>1. CASE R_Get
  <2>1. PICK sp \in MConn \cup {NoConn} :
           /\ Get(sp)
           /\ r' = [pc |-> IF sp = NoConn THEN "release" ELSE "query", sp |-> sp,
                    since |-> Len(db.row), got |-> <<>>]
    BY <1>1 DEF R_Get
  <2>2. /\ mp' \in [list : Seq(MConn), cur : Int, max : {PoolSize}] /\ mp'.cur <= PoolSize
        /\ aged' \subseteq MConn /\ my' \in [MConn -> Session]
    BY <2>1, Getting
  <2>3. r' \in ReaderType
    <3>1. Len(db.row) \in Nat /\ <<>> \in Holding
      BY <1>0 DEF Holding
    <3> QED  BY <2>1, <3>1 DEF ReaderType
  <2>4. left' \in LeftType
    BY <1>1, Spending DEF R_Get
  <2>5. UNCHANGED <<db, feed, w, l>>
    BY <1>1 DEF R_Get
  <2>6. r' \in [pc : {"idle", "query", "read", "release"}, sp : MConn \cup {NoConn},
                since : Nat, got : Holding]
    BY <2>3 DEF ReaderType
  <2>7. left' \in [reads : Nat, troubles : Nat, exits : Nat]
    BY <2>4 DEF LeftType
  <2> QED  BY <2>2, <2>5, <2>6, <2>7 DEF feed, TypeOK
<1>2. CASE R_Query
  <2> DEFINE s == my[r.sp]
             got == Query_Select(s, db.up, db.row)
  <2>1. r.sp \in MConn /\ r.pc = "query"
    BY <1>2 DEF R_Query, HasConn
  <2>2. /\ Sound(s) /\ s.snap = Nothing /\ got \in Session
        /\ Reaches(s, db.up) => got.snap = db.row
    BY <1>0, <2>1, Selecting DEF Sound, SessionsInv
  <2>3. /\ my' = [my EXCEPT ![r.sp] = got]
        /\ r' = IF Reaches(s, db.up) THEN [r EXCEPT !.pc = "read", !.got = got.snap]
                                     ELSE [r EXCEPT !.pc = "release"]
    BY <1>2 DEF R_Query
  <2> HIDE DEF s, got
  <2>4. my' \in [MConn -> Session]
    BY <1>0, <2>2, <2>3
  <2>5. r' \in ReaderType
    <3>1. \/ r' = [r EXCEPT !.pc = "read", !.got = db.row]
          \/ r' = [r EXCEPT !.pc = "release"]
      BY <2>2, <2>3
    <3> QED  BY <1>0, <3>1 DEF ReaderType
  <2> QED  BY <1>2, <2>4, <2>5 DEF R_Query, feed, TypeOK, ReaderType
<1>3. CASE R_Release
  <2>1. r.sp \in MConn \cup {NoConn} /\ r.sp \notin Idle(mp)
    BY <1>0 DEF ReaderType, Disjoint
  <2>2. /\ mp' \in [list : Seq(MConn), cur : Int, max : {PoolSize}] /\ mp'.cur <= PoolSize
        /\ my' \in [MConn -> Session]
    BY <1>3, <2>1, Releasing DEF R_Release
  <2>3. r' \in ReaderType
    BY <1>3 DEF R_Release, NoRequest, ReaderType, Holding
  <2> QED  BY <1>3, <2>2, <2>3 DEF R_Release, feed, TypeOK, ReaderType
<1> QED  BY <1>1, <1>2, <1>3 DEF Reader

\* So does a step of the threads that match and report.
LEMMA MatchTyped == ASSUME TypeOK, Match PROVE TypeOK'
<1>0. /\ q \in Seq(Task) /\ trades \in Nat /\ rest \subseteq 1..trades /\ rep \subseteq ReportTask
      /\ cache \in Cached \cup {Nothing}
  BY DEF TypeOK
<1>1. CASE NewOrder
  <2>1. TaskRecordOrder(trades') \in [kind : {"order", "cancel"}, id : Nat]
        /\ Assign(TaskRecordOrder(trades'))
        /\ trades' = trades + 1 /\ rest' = rest \cup {trades'}
    BY <1>0, <1>1 DEF NewOrder, TaskRecordOrder
  <2>2. q' \in Seq(Task) /\ asg' \in Nat
    BY <2>1, Assigning
  <2>3. trades' \in Nat /\ rest' \subseteq 1..trades'
    BY <1>0, <2>1
  <2> QED  BY <1>1, <2>2, <2>3 DEF NewOrder, sql, users, TypeOK
<1>2. ASSUME NEW id \in rest, Trade(id) PROVE TypeOK'
  <2>1. cache \in Cached /\ id \in Nat /\ Free
    BY <1>0, <1>2 DEF Trade, Free
  <2> DEFINE new == Append(cache.has, id)
             t == [kind |-> "sync", old |-> cache.has, new |-> new]
  <2>2. new \in Holding /\ cache.has \in Holding /\ t \in SyncTask
    <3>1. cache.has \in Holding
      BY <2>1 DEF Cached
    <3>2. new \in Holding
      BY <2>1, <3>1 DEF Holding
    <3> QED  BY <3>1, <3>2 DEF SyncTask
  <2>3. Assign(t) /\ cache' = [cache EXCEPT !.has = new]
    BY <1>2 DEF Trade
  <2> HIDE DEF t, new
  <2>4. q' \in Seq(Task) /\ asg' \in Nat
    BY <2>2, <2>3, Assigning
  <2>5. cache' \in Cached
    BY <2>1, <2>2, <2>3 DEF Cached
  <2>6. UNCHANGED <<sql, aged, trades, rep, users, left>> /\ rest' \subseteq 1..trades
    BY <1>0, <1>2 DEF Trade
  <2> QED  BY <2>4, <2>5, <2>6 DEF sql, users, TypeOK
<1>3. ASSUME NEW id \in rest, Cancel(id) PROVE TypeOK'
  <2>1. [kind |-> "cancel", id |-> id] \in ReportTask
    BY <1>0 DEF ReportTask
  <2>2. rep' \subseteq ReportTask /\ rest' \subseteq 1..trades
    BY <1>0, <1>3, <2>1 DEF Cancel
  <2> QED  BY <1>3, <2>2 DEF Cancel, sql, users, TypeOK
<1>4. ASSUME NEW t \in rep, Record(t) PROVE TypeOK'
  <2>1. t \in [kind : {"order", "cancel"}, id : Nat] /\ Assign(t)
    BY <1>0, <1>4 DEF Record, ReportTask
  <2>2. q' \in Seq(Task) /\ asg' \in Nat
    BY <2>1, Assigning
  <2> QED  BY <1>0, <1>4, <2>2 DEF Record, sql, users, TypeOK
<1> QED  BY <1>1, <1>2, <1>3, <1>4 DEF Match


\* The pool as Init leaves it: connections of its own, half as many as it may.
LEMMA Starting ==
    LET p == Started(PoolSize, MConn)
    IN  /\ p \in [list : Seq(MConn), cur : Int, max : {PoolSize}] /\ p.cur <= PoolSize
        /\ IsInjective(p.list) /\ Len(p.list) = PoolSize \div 2
<1> DEFINE n == PoolSize \div 2
           all == SetToSeq(MConn)
           list == SubSeq(all, 1, n)
<1>1. /\ PoolSize \in Nat /\ n \in Nat /\ n <= PoolSize
      /\ IsFiniteSet(MConn) /\ Cardinality(MConn) \in Nat /\ n < Cardinality(MConn)
  BY StoreAssumption, FS_CardinalityType
<1>2. all \in [1..Cardinality(MConn) -> MConn] /\ IsInjective(all)
  <2>1. PICK f \in Bijection(1..Cardinality(MConn), MConn) : TRUE
    BY <1>1, FS_CardinalityType DEF ExistsBijection
  <2>2. f \in [1..Cardinality(MConn) -> MConn] /\ IsInjective(f)
    BY <2>1 DEF Bijection, Injection
  <2> QED  BY <2>2 DEF SetToSeq
<1> HIDE DEF all, n
<1>3. /\ list \in Seq(MConn) /\ Len(list) = n /\ \A i \in 1..n : list[i] = all[i]
      /\ DOMAIN list = 1..n
  <2>1. all \in Seq(MConn) /\ Len(all) = Cardinality(MConn)
    BY <1>1, <1>2
  <2> QED  BY <1>1, <2>1
<1>4. IsInjective(list)
  BY <1>1, <1>2, <1>3 DEF IsInjective
<1> HIDE DEF list
<1>5. SubSeq(SetToSeq(MConn), 1, InitialSize(SetConnection(PoolSize))) = list
  BY DEF list, all, n, InitialSize, SetConnection
<1>6. Started(PoolSize, MConn) = [list |-> <<>> \o list, cur |-> 0 + Len(list), max |-> PoolSize]
  <2>1. Started(PoolSize, MConn) = AddConn(SetConnection(PoolSize), list)
    BY <1>5 DEF Started
  <2>2. AddConn(SetConnection(PoolSize), list)
          = [SetConnection(PoolSize) EXCEPT !.list = @ \o list, !.cur = @ + Len(list)]
    BY DEF AddConn
  <2> QED  BY <2>1, <2>2 DEF SetConnection
<1>7. <<>> \o list = list
  BY <1>3
<1> QED  BY <1>1, <1>3, <1>4, <1>6, <1>7 DEF n

\* The process starts well typed.
LEMMA InitTyped == ASSUME Init PROVE TypeOK
<1>1. /\ db \in TablesType /\ my \in [MConn -> Session]
  BY ConnectIsSession DEF Init, TablesType, Holding
<1>2. mp \in [list : Seq(MConn), cur : Int, max : {PoolSize}] /\ mp.cur <= PoolSize
  BY Starting DEF Init
<1>3. w \in WriterType /\ l \in LoaderType /\ r \in ReaderType
  BY DEF Init, NoTask, User, NoRequest, WriterType, LoaderType, ReaderType, Holding
<1>4. left \in LeftType
  BY StoreAssumption DEF Init, LeftType
<1> QED  BY <1>1, <1>2, <1>3, <1>4
         DEF Init, TypeOK, TablesType, WriterType, LoaderType, ReaderType, LeftType

\* It is well typed when it has been started again.
LEMMA ExitTyped == ASSUME TypeOK, Exit PROVE TypeOK'
<1>1. mp' \in [list : Seq(MConn), cur : Int, max : {PoolSize}] /\ mp'.cur <= PoolSize
      /\ my' \in [MConn -> Session]
  BY Starting, ConnectIsSession DEF Exit
<1>2. w' \in WriterType /\ l' \in LoaderType /\ r' \in ReaderType
  BY DEF Exit, NoTask, User, NoRequest, WriterType, LoaderType, ReaderType, Holding
<1>3. left' \in LeftType
  BY Spending DEF Exit
<1> QED  BY <1>1, <1>2, <1>3
         DEF Exit, TypeOK, WriterType, LoaderType, ReaderType, LeftType

\* Every step keeps the types.
LEMMA StepTyped == ASSUME StoreInv, [Next]_vars PROVE TypeOK'
<1> USE DEF StoreInv
<1>1. CASE Outage
  <2>1. db' \in TablesType
    BY <1>1 DEF Outage, TypeOK, TablesType
  <2>2. my' \in [MConn -> Session]
    BY <1>1, AllSound, Reaching DEF Outage, Sound
  <2>3. left' \in LeftType
    BY <1>1, Spending DEF Outage
  <2>4. UNCHANGED <<mp, aged, feed, users>>
    BY <1>1 DEF Outage
  <2>5. /\ db' \in [up : BOOLEAN, row : Holding, recs : Seq(RecordTask)]
        /\ left' \in [reads : Nat, troubles : Nat, exits : Nat]
    BY <2>1, <2>3 DEF TablesType, LeftType
  <2> QED  BY <2>2, <2>4, <2>5 DEF feed, users, TypeOK
<1>2. CASE Restored
  <2>1. db' \in TablesType
    BY <1>2 DEF Restored, TypeOK, TablesType
  <2> QED  BY <1>2, <2>1 DEF Restored, feed, users, TypeOK, TablesType
<1>3. CASE Hour
  <2>1. aged' \subseteq MConn /\ left' \in LeftType
    BY <1>3, NoConnNotIdle, Spending DEF Hour
  <2> QED  BY <1>3, <2>1 DEF Hour, sql, feed, users, TypeOK, LeftType
<1>4. CASE UNCHANGED vars
  BY <1>4 DEF vars, TypeOK
<1>5. CASE Exit
  BY <1>5, ExitTyped
<1> QED  BY <1>1, <1>2, <1>3, <1>4, <1>5, WriterTyped, LoaderTyped, ReaderTyped, MatchTyped
         DEF Next

-----------------------------------------------------------------------------
(* Who has which connection.                                               *)

PoolInv == HasConn /\ Disjoint /\ FewOpen

\* Where the pool's list and the users' connections stay, only the steps count.
LEMMA SamePool ==
    ASSUME PoolInv, HasConn', mp'.list = mp.list, w'.sp = w.sp, l'.sp = l.sp, r'.sp = r.sp
    PROVE  PoolInv'
BY DEF PoolInv, Disjoint, FewOpen, OpenConns, Idle

\* A user that had none gets one.
LEMMA PoolGet ==
    ASSUME StoreInv, NEW sp, Get(sp), HasConn',
           \/ w.sp = NoConn /\ w'.sp = sp /\ l'.sp = l.sp /\ r'.sp = r.sp
           \/ l.sp = NoConn /\ l'.sp = sp /\ w'.sp = w.sp /\ r'.sp = r.sp
           \/ r.sp = NoConn /\ r'.sp = sp /\ l'.sp = l.sp /\ w'.sp = w.sp
    PROVE  PoolInv'
<1> USE DEF StoreInv
<1>1. /\ sp \in MConn \cup {NoConn} /\ sp \notin Held /\ sp \notin Idle(mp')
      /\ IsInjective(mp'.list) /\ Idle(mp') \subseteq Idle(mp)
      /\ \/ Len(mp'.list) + 1 <= Len(mp.list)
         \/ Len(mp'.list) = 0 /\ Len(mp.list) = 0
  BY Getting
<1>2. Len(mp.list) \in Nat /\ Len(mp'.list) \in Nat /\ PoolSize \div 2 \in Int
  <2>1. mp.list \in Seq(MConn) /\ mp'.list \in Seq(MConn)
    BY Getting DEF TypeOK
  <2>2. PoolSize \in Nat
    BY StoreAssumption
  <2> QED  BY <2>1, <2>2
<1>3. Disjoint'
  BY <1>1 DEF Disjoint, Held, Idle
<1>4. FewOpen'
  <2>1. \A x : One(x) \in {0, 1} /\ One(NoConn) = 0
    BY DEF One
  <2>2. OpenConns' = Len(mp'.list) + (One(w'.sp) + One(l'.sp) + One(r'.sp))
    BY Zenon DEF OpenConns
  <2>3. CASE Len(mp'.list) + 1 <= Len(mp.list)
    <3>1. /\ One(w.sp) + One(l.sp) + One(r.sp) \in Nat
          /\ One(w'.sp) + One(l'.sp) + One(r'.sp) \in Nat
          /\ One(w'.sp) + One(l'.sp) + One(r'.sp) <= One(w.sp) + One(l.sp) + One(r.sp) + 1
      <4>1. /\ One(w.sp) \in {0, 1} /\ One(l.sp) \in {0, 1} /\ One(r.sp) \in {0, 1}
            /\ One(sp) \in {0, 1}
        BY <2>1
      <4> QED  BY <2>1, <4>1
    <3>2. OpenConns' <= OpenConns /\ OpenConns' \in Int /\ OpenConns \in Int
      <4>1. /\ OpenConns = Len(mp.list) + (One(w.sp) + One(l.sp) + One(r.sp))
            /\ OpenConns' = Len(mp'.list) + (One(w'.sp) + One(l'.sp) + One(r'.sp))
        BY Zenon DEF OpenConns
      <4> DEFINE a == One(w.sp) + One(l.sp) + One(r.sp)
                 b == One(w'.sp) + One(l'.sp) + One(r'.sp)
      <4>2. a \in Nat /\ b \in Nat /\ b <= a + 1
        BY <3>1
      <4>3. OpenConns = Len(mp.list) + a /\ OpenConns' = Len(mp'.list) + b
        BY <4>1
      <4> HIDE DEF a, b
      <4> QED  BY <1>2, <2>3, <4>2, <4>3
    <3> QED  BY <1>2, <3>2 DEF FewOpen
  <2>4. CASE Len(mp'.list) = 0
    BY <2>1, <2>2, <2>4 DEF FewOpen
  <2> QED  BY <1>1, <2>3, <2>4
<1> QED  BY <1>3, <1>4 DEF PoolInv

\* A user gives its connection, or the empty pointer, back.
LEMMA PoolRelease ==
    ASSUME StoreInv, NEW sp \in MConn \cup {NoConn}, Release(sp), HasConn',
           \/ w.sp = sp /\ w'.sp = NoConn /\ l'.sp = l.sp /\ r'.sp = r.sp
           \/ l.sp = sp /\ l'.sp = NoConn /\ w'.sp = w.sp /\ r'.sp = r.sp
           \/ r.sp = sp /\ r'.sp = NoConn /\ l'.sp = l.sp /\ w'.sp = w.sp
    PROVE  PoolInv'
<1> USE DEF StoreInv
<1>1. /\ IsInjective(mp'.list) /\ Idle(mp') = Idle(mp) \cup ({sp} \ {NoConn})
      /\ Len(mp'.list) = Len(mp.list) + One(sp)
  BY Releasing DEF Disjoint
<1>2. Len(mp.list) \in Nat
  BY DEF TypeOK
<1>3. Disjoint'
  BY <1>1, NoConnNotIdle DEF Disjoint, Idle
<1>4. FewOpen'
  <2>1. \A x : One(x) \in {0, 1} /\ One(NoConn) = 0
    BY DEF One
  <2>2. /\ OpenConns = Len(mp.list) + (One(w.sp) + One(l.sp) + One(r.sp))
        /\ OpenConns' = Len(mp'.list) + (One(w'.sp) + One(l'.sp) + One(r'.sp))
    BY Zenon DEF OpenConns
  <2> DEFINE a == One(w.sp) + One(l.sp) + One(r.sp)
             b == One(w'.sp) + One(l'.sp) + One(r'.sp)
  <2>3. b \in Nat /\ a = b + One(sp) /\ One(sp) \in Nat
    BY <2>1
  <2>4. OpenConns = Len(mp.list) + a /\ OpenConns' = Len(mp'.list) + b
    BY <2>2
  <2> HIDE DEF a, b
  <2>5. OpenConns' = OpenConns
    BY <1>1, <1>2, <2>3, <2>4
  <2> QED  BY <2>5 DEF FewOpen
<1> QED  BY <1>3, <1>4 DEF PoolInv

\* A loading thread loses its connection.
LEMMA PoolLose ==
    ASSUME StoreInv, HasConn', mp'.list = mp.list, w'.sp = w.sp, l'.sp = NoConn, r'.sp = r.sp
    PROVE  PoolInv'
<1> USE DEF StoreInv
<1>1. Disjoint'
  BY NoConnNotIdle DEF Disjoint, Idle
<1>2. FewOpen'
  <2>1. \A x : One(x) \in {0, 1} /\ One(NoConn) = 0
    BY DEF One
  <2>2. Len(mp.list) \in Nat /\ PoolSize \div 2 \in Int
    <3>1. PoolSize \in Nat
      BY StoreAssumption
    <3> QED  BY <3>1 DEF TypeOK
  <2>3. OpenConns' <= OpenConns /\ OpenConns' \in Int /\ OpenConns \in Int
    BY <2>1, <2>2 DEF OpenConns
  <2> QED  BY <2>2, <2>3 DEF FewOpen
<1> QED  BY <1>1, <1>2 DEF PoolInv

\* All start without connections.
LEMMA PoolStart ==
    /\ Init => PoolInv
    /\ Exit => PoolInv'
<1>1. /\ IsInjective(Started(PoolSize, MConn).list)
      /\ Len(Started(PoolSize, MConn).list) = PoolSize \div 2
      /\ NoConn \notin ToSet(Started(PoolSize, MConn).list) /\ PoolSize \div 2 \in Int
  BY Starting, Elements, StoreAssumption
<1>2. One(NoConn) = 0
  BY DEF One
<1>3. ASSUME Init PROVE PoolInv
  BY <1>1, <1>2, <1>3
     DEF Init, PoolInv, HasConn, Disjoint, FewOpen, OpenConns, Idle, NoTask, User, NoRequest
<1>4. ASSUME Exit PROVE PoolInv'
  <2>1. mp' = Started(PoolSize, MConn) /\ w'.sp = NoConn /\ l'.sp = NoConn /\ r'.sp = NoConn
        /\ w'.pc = "idle" /\ l'.pc = "idle" /\ r'.pc = "idle"
    BY <1>4 DEF Exit, NoTask, User, NoRequest
  <2> QED  BY <1>1, <1>2, <2>1 DEF PoolInv, HasConn, Disjoint, FewOpen, OpenConns, Idle
<1> QED  BY <1>3, <1>4

\* Every step keeps the connections apart.
LEMMA StepPool == ASSUME StoreInv, [Next]_vars PROVE PoolInv'
<1> USE DEF StoreInv
<1>0. w \in WriterType /\ l \in LoaderType /\ r \in ReaderType /\ PoolInv
  BY DEF TypeOK, WriterType, LoaderType, ReaderType, PoolInv
<1>1. CASE W_Get
  <2>1. PICK sp \in MConn \cup {NoConn} :
           /\ Get(sp)
           /\ w' = [pc |-> IF sp = NoConn THEN "none" ELSE "start", sp |-> sp, task |-> Head(q), ok |-> TRUE]
    BY <1>1 DEF W_Get
  <2>2. l' = l /\ r' = r /\ w.sp = NoConn
    BY <1>1 DEF W_Get, HasConn
  <2>3. HasConn'
    BY <2>1, <2>2 DEF HasConn
  <2> QED  BY <2>1, <2>2, <2>3, PoolGet
<1>2. CASE L_Get
  <2>1. PICK sp \in MConn \cup {NoConn} :
           Get(sp) /\ l' = [pc |-> IF sp = NoConn THEN "none" ELSE "type", sp |-> sp]
    BY <1>2 DEF L_Get
  <2>2. w' = w /\ r' = r /\ l.sp = NoConn
    BY <1>2 DEF L_Get, HasConn
  <2>3. HasConn'
    BY <2>1, <2>2 DEF HasConn
  <2> QED  BY <2>1, <2>2, <2>3, PoolGet
<1>3. CASE R_Get
  <2>1. PICK sp \in MConn \cup {NoConn} :
           /\ Get(sp)
           /\ r' = [pc |-> IF sp = NoConn THEN "release" ELSE "query", sp |-> sp,
                    since |-> Len(db.row), got |-> <<>>]
    BY <1>3 DEF R_Get
  <2>2. w' = w /\ l' = l /\ r.sp = NoConn
    BY <1>3 DEF R_Get, HasConn
  <2>3. HasConn'
    BY <2>1, <2>2 DEF HasConn
  <2> QED  BY <2>1, <2>2, <2>3, PoolGet
<1>4. CASE W_NoConn \/ W_Release
  <2>1. Release(w.sp) /\ w'.sp = NoConn /\ l' = l /\ r' = r /\ w'.pc = "idle"
    <3>1. CASE W_NoConn
      BY <1>0, <3>1 DEF W_NoConn, feed, HasConn, WriterType
    <3>2. CASE W_Release
      BY <3>2 DEF W_Release, feed, NoTask
    <3> QED  BY <1>4, <3>1, <3>2
  <2>2. HasConn'
    BY <2>1 DEF HasConn
  <2>3. w.sp \in MConn \cup {NoConn}
    BY <1>0 DEF WriterType
  <2> QED  BY <2>1, <2>2, <2>3, PoolRelease
<1>5. CASE L_NoConn \/ L_Release
  <2>1. Release(l.sp) /\ l'.sp = NoConn /\ w' = w /\ r' = r /\ l'.pc = "idle"
    BY <1>5 DEF L_NoConn, L_Release, feed, User, HasConn
  <2>2. HasConn'
    BY <2>1 DEF HasConn
  <2>3. l.sp \in MConn \cup {NoConn}
    BY <1>0 DEF LoaderType
  <2> QED  BY <2>1, <2>2, <2>3, PoolRelease
<1>6. CASE R_Release
  <2>1. Release(r.sp) /\ r'.sp = NoConn /\ w' = w /\ l' = l /\ r'.pc = "idle"
    BY <1>6 DEF R_Release, feed, NoRequest
  <2>2. HasConn'
    BY <2>1 DEF HasConn
  <2>3. r.sp \in MConn \cup {NoConn}
    BY <1>0 DEF ReaderType
  <2> QED  BY <2>1, <2>2, <2>3, PoolRelease
<1>7. CASE W_Start \/ W_Query \/ W_End
  <2>1. /\ mp' = mp /\ l' = l /\ r' = r /\ w'.sp = w.sp
        /\ w.pc \in {"start", "query", "end"} /\ w'.pc \in {"query", "end", "release"}
    <3>1. CASE W_Start
      BY <1>0, <3>1 DEF W_Start, feed, WriterType
    <3>2. CASE W_Query
      <4>1. \E b : w' = [w EXCEPT !.pc = "end", !.ok = b]
        BY <3>2 DEF W_Query
      <4> QED  BY <1>0, <3>2, <4>1 DEF W_Query, feed, WriterType
    <3>3. CASE W_End
      BY <1>0, <3>3 DEF W_End, feed, WriterType
    <3> QED  BY <1>7, <3>1, <3>2, <3>3
  <2>2. HasConn'
    BY <2>1 DEF HasConn
  <2> QED  BY <1>0, <2>1, <2>2, SamePool
<1>8. CASE L_Type \/ L_Start \/ L_Select
  <2>1. /\ mp' = mp /\ w' = w /\ r' = r /\ l.pc \in {"type", "start", "select"}
        /\ \/ l'.sp = l.sp /\ l'.pc \in {"start", "select", "release"}
           \/ l'.sp = NoConn /\ l'.pc = "idle"
    <3>1. CASE L_Type
      BY <1>0, <3>1 DEF L_Type, feed, LoaderType, User
    <3>2. CASE L_Start
      BY <1>0, <3>2 DEF L_Start, feed, LoaderType
    <3>3. CASE L_Select
      <4>1. l' = [l EXCEPT !.pc = "release"] \/ l' = User
        BY <3>3 DEF L_Select
      <4> QED  BY <1>0, <3>3, <4>1 DEF L_Select, LoaderType, User
    <3> QED  BY <1>8, <3>1, <3>2, <3>3
  <2>2. HasConn'
    BY <2>1 DEF HasConn
  <2> QED  BY <1>0, <2>1, <2>2, SamePool, PoolLose
<1>9. CASE R_Query
  <2>1. mp' = mp /\ w' = w /\ l' = l /\ r.pc = "query" /\ r'.sp = r.sp /\ r'.pc \in {"read", "release"}
    BY <1>0, <1>9 DEF R_Query, feed, ReaderType
  <2>2. HasConn'
    BY <2>1 DEF HasConn
  <2> QED  BY <1>0, <2>1, <2>2, SamePool
<1>10. CASE Outage \/ Restored \/ Hour \/ Match \/ UNCHANGED vars
  <2>1. mp' = mp /\ w' = w /\ l' = l /\ r' = r
    BY <1>10 DEF Outage, Restored, Hour, Match, NewOrder, Trade, Cancel, Record, sql, users, vars
  <2>2. HasConn'
    BY <2>1 DEF HasConn
  <2> QED  BY <1>0, <2>1, <2>2, SamePool
<1> QED  BY <1>1, <1>2, <1>3, <1>4, <1>5, <1>6, <1>7, <1>8, <1>9, <1>10, PoolStart
         DEF Next, Writer, Loader, Reader

-----------------------------------------------------------------------------
(* What the sessions keep.                                                 *)

\* One session goes on, that of a connection which is not idle.
LEMMA OneSession ==
    ASSUME StoreInv, NEW sp \in MConn, NEW t, Sound(t), my' = [my EXCEPT ![sp] = t], mp' = mp,
           sp \notin Idle(mp),
           l'.pc = "select" => my'[l'.sp].snap = Nothing,
           r'.pc = "query" => my'[r'.sp].snap = Nothing,
           \A c \in MConn : my'[c].write # Nothing =>
             w'.pc = "end" /\ w'.sp = c /\ my'[c].write = w'.task
    PROVE  SessionsInv'
<1> USE DEF StoreInv
<1>1. /\ my \in [MConn -> Session] /\ Idle(mp) \subseteq MConn
      /\ \A c \in MConn : Sound(my[c])
  BY AllSound, NoConnNotIdle DEF TypeOK
<1>2. \A c \in MConn : my'[c] = IF c = sp THEN t ELSE my[c]
  BY <1>1
<1> QED  BY <1>1, <1>2 DEF SessionsInv, Idle, Sound

\* A connection is given back.
LEMMA ReleasedSessions ==
    ASSUME StoreInv, NEW sp \in MConn, Release(sp), sp \notin Idle(mp),
           l'.pc = "select" => l' = l /\ l.sp # sp,
           r'.pc = "query" => r' = r /\ r.sp # sp,
           w' = w \/ w.pc # "end"
    PROVE  SessionsInv'
<1> USE DEF StoreInv
<1>1. /\ Idle(mp') = Idle(mp) \cup {sp}
      /\ \A c \in MConn : c # sp => my'[c] = my[c]
      /\ Sound(my'[sp]) /\ my'[sp].snap = Nothing /\ my'[sp].write = Nothing
  BY Releasing, StoreAssumption
<1>2. /\ \A c \in MConn : Sound(my[c])
      /\ Idle(mp) \subseteq MConn /\ (l.pc = "select" => l.sp \in MConn) /\ (r.pc = "query" => r.sp \in MConn)
  BY AllSound, NoConnNotIdle DEF HasConn
<1> QED  BY <1>1, <1>2 DEF SessionsInv, Sound

\* A step of the writer.
LEMMA WriterSessions == ASSUME StoreInv, Writer PROVE SessionsInv'
<1> USE DEF StoreInv
<1>0. /\ \A c \in MConn : Sound(my[c])
      /\ db.up \in BOOLEAN /\ my \in [MConn -> Session] /\ w \in WriterType
  BY AllSound DEF TypeOK, WriterType
<1>1. CASE W_Get
  <2>1. PICK sp \in MConn \cup {NoConn} : Get(sp)
    BY <1>1 DEF W_Get
  <2>2. Idle(mp') \subseteq Idle(mp) /\ \A c \in MConn : my'[c] \in {my[c], Connect}
    BY <2>1, Getting
  <2>3. w.pc = "idle" /\ l' = l /\ r' = r
    BY <1>1 DEF W_Get
  <2>4. (l.pc = "select" => l.sp \in MConn) /\ (r.pc = "query" => r.sp \in MConn)
        /\ Idle(mp) \subseteq MConn
    BY NoConnNotIdle DEF HasConn
  <2> QED  BY <1>0, <2>2, <2>3, <2>4, ConnectIsSession DEF SessionsInv, Sound
<1>2. CASE W_NoConn
  <2>1. mp'.list = mp.list /\ my' = my /\ w.pc = "none" /\ l' = l /\ r' = r
    BY <1>2 DEF W_NoConn, Release, ReleaseConnection, TypeOK
  <2> QED  BY <2>1 DEF SessionsInv, Idle
<1>3. CASE W_Start
  <2> DEFINE t == StartTransaction(my[w.sp], db.up)
  <2>1. w.sp \in MConn /\ w.pc = "start" /\ mp' = mp /\ l' = l /\ r' = r
        /\ my' = [my EXCEPT ![w.sp] = t]
    BY <1>3 DEF W_Start, HasConn
  <2>2. Sound(t) /\ t.snap = Nothing /\ t.write = Nothing
    BY <1>0, <2>1, Ending
  <2> HIDE DEF t
  <2>3. \A c \in MConn : my'[c].write = Nothing
    BY <1>0, <2>1, <2>2 DEF SessionsInv
  <2>4. /\ l.pc = "select" => my'[l.sp].snap = Nothing
        /\ r.pc = "query" => my'[r.sp].snap = Nothing
    BY <1>0, <2>1, <2>2 DEF SessionsInv, HasConn
  <2> QED  BY <2>1, <2>2, <2>3, <2>4, OneSession DEF Disjoint
<1>4. CASE W_Query
  <2> DEFINE s == my[w.sp]
             n == Affected(w.task)
             v == IF n = 0 THEN Reached(s).write ELSE w.task
  <2>1. /\ w.sp \in MConn /\ w.sp \notin Idle(mp) /\ w.pc = "query" /\ mp' = mp /\ l' = l /\ r' = r
        /\ w.task \in Task /\ w'.sp = w.sp /\ w'.pc = "end" /\ w'.task = w.task
    <3>1. \E b : w' = [w EXCEPT !.pc = "end", !.ok = b]
      BY <1>4 DEF W_Query
    <3> QED  BY <1>0, <1>4, <3>1 DEF W_Query, HasConn, Disjoint, TasksInv, Busy, WriterType
  <2>2. /\ Sound(s) /\ s.write = Nothing
        /\ Sound(Reached(s)) /\ Reached(s).write = Nothing
        /\ Sound(Missed(s)) /\ Missed(s).write = Nothing
    BY <1>0, <2>1, Reaching DEF SessionsInv
  <2>3. /\ v \in {Nothing, w.task}
        /\ Reaches(s, db.up) =>
             Sound(Query_Update(s, db.up, v)) /\ Query_Update(s, db.up, v).write = v
    BY <1>0, <2>1, <2>2, Updating
  <2>4. \/ Reaches(s, db.up) /\ my' = [my EXCEPT ![w.sp] = Query_Update(s, db.up, v)]
        \/ my' = [my EXCEPT ![w.sp] = Missed(s)]
        \/ my' = [my EXCEPT ![w.sp] = Reached(s)]
    BY <1>4 DEF W_Query
  <2> HIDE DEF v, s
  <2>5. PICK t : Sound(t) /\ t.write \in {Nothing, w.task} /\ my' = [my EXCEPT ![w.sp] = t]
    BY <2>2, <2>3, <2>4
  <2>6. \A c \in MConn : my'[c].write # Nothing =>
             w'.pc = "end" /\ w'.sp = c /\ my'[c].write = w'.task
    BY <1>0, <2>1, <2>5 DEF SessionsInv
  <2>7. /\ l.pc = "select" => my'[l.sp].snap = Nothing
        /\ r.pc = "query" => my'[r.sp].snap = Nothing
    BY <1>0, <2>1, <2>5, StoreAssumption DEF SessionsInv, HasConn, Disjoint
  <2> QED  BY <2>1, <2>5, <2>6, <2>7, OneSession
<1>5. CASE W_End
  <2>1. PICK t \in {Commit(my[w.sp], db.up), RollBack(my[w.sp], db.up)} :
           my' = [my EXCEPT ![w.sp] = t]
    BY <1>5 DEF W_End
  <2>2. w.sp \in MConn /\ w.sp \notin Idle(mp) /\ w.pc = "end" /\ mp' = mp /\ l' = l /\ r' = r
    BY <1>5 DEF W_End, HasConn, Disjoint
  <2>3. Sound(t) /\ t.snap = Nothing /\ t.write = Nothing
    BY <1>0, <2>1, <2>2, Ending
  <2>4. \A c \in MConn : my'[c].write = Nothing
    BY <1>0, <2>1, <2>2, <2>3 DEF SessionsInv
  <2>5. /\ l.pc = "select" => my'[l.sp].snap = Nothing
        /\ r.pc = "query" => my'[r.sp].snap = Nothing
    BY <1>0, <2>1, <2>2, <2>3 DEF SessionsInv, HasConn
  <2> QED  BY <2>1, <2>2, <2>3, <2>4, <2>5, OneSession
<1>6. CASE W_Release
  <2>1. /\ w.sp \in MConn /\ w.sp \notin Idle(mp) /\ Release(w.sp) /\ w.pc = "release"
        /\ l' = l /\ r' = r /\ w.sp # l.sp /\ w.sp # r.sp
    BY <1>6, StoreAssumption DEF W_Release, HasConn, Disjoint
  <2> QED  BY <2>1, ReleasedSessions
<1> QED  BY <1>1, <1>2, <1>3, <1>4, <1>5, <1>6 DEF Writer

\* A step of the loading thread.
LEMMA LoaderSessions == ASSUME StoreInv, Loader PROVE SessionsInv'
<1> USE DEF StoreInv
<1>0. /\ \A c \in MConn : Sound(my[c])
      /\ db.up \in BOOLEAN /\ db.row \in Holding /\ my \in [MConn -> Session] /\ l \in LoaderType
  BY AllSound DEF TypeOK, LoaderType
<1>1. CASE L_Get
  <2>1. PICK sp \in MConn \cup {NoConn} :
           Get(sp) /\ l' = [pc |-> IF sp = NoConn THEN "none" ELSE "type", sp |-> sp]
    BY <1>1 DEF L_Get
  <2>2. Idle(mp') \subseteq Idle(mp) /\ \A c \in MConn : my'[c] \in {my[c], Connect}
    BY <2>1, Getting
  <2>3. w' = w /\ r' = r /\ l'.pc # "select"
    BY <1>1, <2>1 DEF L_Get
  <2>4. (r.pc = "query" => r.sp \in MConn) /\ Idle(mp) \subseteq MConn
    BY NoConnNotIdle DEF HasConn
  <2> QED  BY <1>0, <2>2, <2>3, <2>4, ConnectIsSession DEF SessionsInv, Sound
<1>2. CASE L_NoConn
  <2>1. mp'.list = mp.list /\ my' = my /\ l'.pc = "idle" /\ w' = w /\ r' = r
    BY <1>2 DEF L_NoConn, Release, ReleaseConnection, TypeOK, User
  <2> QED  BY <2>1 DEF SessionsInv, Idle
<1>3. CASE L_Type
  <2>1. l.sp \in MConn /\ l.sp \notin Idle(mp) /\ mp' = mp /\ w' = w /\ r' = r
        /\ l'.pc \in {"start", "idle"} /\ my' \in {my, [my EXCEPT ![l.sp] = Connect]}
    BY <1>0, <1>3 DEF L_Type, User, HasConn, Disjoint, LoaderType
  <2>2. CASE my' = my
    BY <2>1, <2>2 DEF SessionsInv, Idle
  <2>3. CASE my' = [my EXCEPT ![l.sp] = Connect]
    <3>1. \A c \in MConn : my'[c].write # Nothing =>
             w'.pc = "end" /\ w'.sp = c /\ my'[c].write = w'.task
      BY <1>0, <2>1, <2>3, ConnectIsSession DEF SessionsInv
    <3>2. r.pc = "query" => my'[r.sp].snap = Nothing
      BY <1>0, <2>1, <2>3, ConnectIsSession DEF SessionsInv, HasConn
    <3> QED  BY <2>1, <2>3, <3>1, <3>2, ConnectIsSession, OneSession
  <2> QED  BY <2>1, <2>2, <2>3
<1>4. CASE L_Start
  <2> DEFINE t == StartTransaction(my[l.sp], db.up)
  <2>1. /\ l.sp \in MConn /\ l.sp \notin Idle(mp) /\ mp' = mp /\ w' = w /\ r' = r
        /\ l'.sp = l.sp /\ my' = [my EXCEPT ![l.sp] = t]
    BY <1>0, <1>4 DEF L_Start, HasConn, Disjoint, LoaderType
  <2>2. Sound(t) /\ t.snap = Nothing /\ t.write = Nothing
    BY <1>0, <2>1, Ending
  <2> HIDE DEF t
  <2>3. \A c \in MConn : my'[c].write # Nothing =>
             w'.pc = "end" /\ w'.sp = c /\ my'[c].write = w'.task
    BY <1>0, <2>1, <2>2 DEF SessionsInv
  <2>4. my'[l'.sp].snap = Nothing /\ (r.pc = "query" => my'[r.sp].snap = Nothing)
    BY <1>0, <2>1, <2>2 DEF SessionsInv, HasConn
  <2> QED  BY <2>1, <2>2, <2>3, <2>4, OneSession
<1>5. CASE L_Select
  <2> DEFINE got == Query_Select(my[l.sp], db.up, db.row)
  <2>1. /\ l.sp \in MConn /\ l.sp \notin Idle(mp) /\ mp' = mp /\ w' = w /\ r' = r
        /\ l'.pc \in {"release", "idle"}
        /\ my' \in {[my EXCEPT ![l.sp] = got], [my EXCEPT ![l.sp] = Connect]}
    <3>1. l' = [l EXCEPT !.pc = "release"] \/ l' = User
      BY <1>5 DEF L_Select
    <3> QED  BY <1>0, <1>5, <3>1 DEF L_Select, User, HasConn, Disjoint, LoaderType
  <2>2. Sound(got) /\ got.write = my[l.sp].write
    BY <1>0, <2>1, Selecting
  <2> HIDE DEF got
  <2>3. PICK t : Sound(t) /\ t.write \in {my[l.sp].write, Nothing} /\ my' = [my EXCEPT ![l.sp] = t]
    BY <2>1, <2>2, ConnectIsSession
  <2>4. \A c \in MConn : my'[c].write # Nothing =>
             w'.pc = "end" /\ w'.sp = c /\ my'[c].write = w'.task
    BY <1>0, <2>1, <2>3 DEF SessionsInv
  <2>5. r.pc = "query" => my'[r.sp].snap = Nothing
    BY <1>0, <2>1, <2>3, StoreAssumption DEF SessionsInv, HasConn, Disjoint
  <2> QED  BY <2>1, <2>3, <2>4, <2>5, OneSession
<1>6. CASE L_Release
  <2>1. /\ l.sp \in MConn /\ l.sp \notin Idle(mp) /\ Release(l.sp)
        /\ l'.pc = "idle" /\ w' = w /\ r' = r /\ l.sp # r.sp
    BY <1>6, StoreAssumption DEF L_Release, User, HasConn, Disjoint
  <2> QED  BY <2>1, ReleasedSessions
<1> QED  BY <1>1, <1>2, <1>3, <1>4, <1>5, <1>6 DEF Loader

\* A step of a request.
LEMMA ReaderSessions == ASSUME StoreInv, Reader PROVE SessionsInv'
<1> USE DEF StoreInv
<1>0. /\ \A c \in MConn : Sound(my[c])
      /\ db.up \in BOOLEAN /\ db.row \in Holding /\ my \in [MConn -> Session] /\ r \in ReaderType
  BY AllSound DEF TypeOK, ReaderType
<1>1. CASE R_Get
  <2>1. PICK sp \in MConn \cup {NoConn} :
           /\ Get(sp)
           /\ r' = [pc |-> IF sp = NoConn THEN "release" ELSE "query", sp |-> sp,
                    since |-> Len(db.row), got |-> <<>>]
    BY <1>1 DEF R_Get
  <2>2. /\ Idle(mp') \subseteq Idle(mp) /\ \A c \in MConn : my'[c] \in {my[c], Connect}
        /\ sp \in MConn => my'[sp].snap = Nothing
    BY <2>1, Getting
  <2>3. w' = w /\ l' = l /\ (r'.pc = "query" => r'.sp = sp /\ sp \in MConn)
    BY <1>1, <2>1 DEF R_Get
  <2>4. (l.pc = "select" => l.sp \in MConn) /\ Idle(mp) \subseteq MConn
    BY NoConnNotIdle DEF HasConn
  <2> QED  BY <1>0, <2>2, <2>3, <2>4, ConnectIsSession DEF SessionsInv, Sound
<1>2. CASE R_Query
  <2> DEFINE got == Query_Select(my[r.sp], db.up, db.row)
  <2>1. /\ r.sp \in MConn /\ r.sp \notin Idle(mp) /\ mp' = mp /\ w' = w /\ l' = l
        /\ r'.pc \in {"read", "release"} /\ my' = [my EXCEPT ![r.sp] = got]
    BY <1>0, <1>2 DEF R_Query, HasConn, Disjoint, ReaderType
  <2>2. Sound(got) /\ got.write = my[r.sp].write
    BY <1>0, <2>1, Selecting
  <2> HIDE DEF got
  <2>3. \A c \in MConn : my'[c].write # Nothing =>
             w'.pc = "end" /\ w'.sp = c /\ my'[c].write = w'.task
    BY <1>0, <2>1, <2>2 DEF SessionsInv
  <2>4. l.pc = "select" => my'[l.sp].snap = Nothing
    BY <1>0, <2>1, <2>2, StoreAssumption DEF SessionsInv, HasConn, Disjoint
  <2> QED  BY <2>1, <2>2, <2>3, <2>4, OneSession
<1>3. CASE R_Release
  <2>1. /\ r.sp \in MConn \cup {NoConn} /\ r.sp \notin Idle(mp) /\ Release(r.sp)
        /\ r'.pc = "idle" /\ w' = w /\ l' = l /\ (r.sp \in MConn => r.sp # l.sp)
    BY <1>0, <1>3, StoreAssumption DEF R_Release, NoRequest, Disjoint, ReaderType
  <2>2. CASE r.sp = NoConn
    <3>1. mp'.list = mp.list /\ my' = my
      BY <2>1, <2>2 DEF Release, ReleaseConnection, TypeOK
    <3> QED  BY <2>1, <3>1 DEF SessionsInv, Idle
  <2> QED  BY <2>1, <2>2, ReleasedSessions
<1> QED  BY <1>1, <1>2, <1>3 DEF Reader

\* Every step keeps the sessions sound.
LEMMA StepSessions == ASSUME StoreInv, [Next]_vars PROVE SessionsInv'
<1> USE DEF StoreInv
<1>1. CASE Outage
  <2>1. \A c \in MConn : my'[c] \in {my[c], Broken(my[c])}
    BY <1>1 DEF Outage
  <2>2. \A c \in MConn : Sound(my[c]) /\ Sound(Broken(my[c]))
                         /\ Broken(my[c]).snap = Nothing /\ Broken(my[c]).write = Nothing
    BY AllSound, Reaching
  <2>3. mp' = mp /\ w' = w /\ l' = l /\ r' = r
    BY <1>1 DEF Outage, users
  <2>4. /\ (l.pc = "select" => l.sp \in MConn) /\ (r.pc = "query" => r.sp \in MConn)
        /\ Idle(mp) \subseteq MConn
    BY NoConnNotIdle DEF HasConn
  <2> QED  BY <2>1, <2>2, <2>3, <2>4 DEF SessionsInv, Idle, Sound
<1>2. CASE Exit
  <2>1. \A c \in MConn : my'[c] = Connect
    BY <1>2 DEF Exit
  <2>2. l'.pc = "idle" /\ r'.pc = "idle" /\ Idle(mp') \subseteq MConn
    BY <1>2, Starting, Elements DEF Exit, User, NoRequest, Idle
  <2> QED  BY <2>1, <2>2, ConnectIsSession DEF SessionsInv
<1>3. CASE Restored \/ Hour \/ Match \/ UNCHANGED vars
  <2>1. mp' = mp /\ my' = my /\ w' = w /\ l' = l /\ r' = r
    BY <1>3 DEF Restored, Hour, Match, NewOrder, Trade, Cancel, Record, sql, users, vars
  <2> QED  BY <2>1 DEF SessionsInv, Idle
<1> QED  BY <1>1, <1>2, <1>3, WriterSessions, LoaderSessions, ReaderSessions DEF Next

-----------------------------------------------------------------------------
(* What is written.                                                        *)

\* Tables change only by a commit of the writer: the row becomes what the
\* task says, when it is what the task expects, or a record is added.
Written ==
    /\ W_End /\ w.ok /\ w.task \in Task
    /\ \/ w.task \in SyncTask /\ db.row = w.task.old /\ db'.row = w.task.new /\ db'.recs = db.recs
       \/ w.task \in RecordTask /\ IsRecord(w.task) /\ db'.row = db.row /\ db'.recs = Append(db.recs, w.task)

\* No other step changes them.
LEMMA DbStep ==
    ASSUME StoreInv, [Next]_vars
    PROVE  (db'.row = db.row /\ db'.recs = db.recs) \/ Written
<1> USE DEF StoreInv
<1>0. /\ \A c \in MConn : Sound(my[c])
      /\ db \in TablesType /\ db.up \in BOOLEAN
  BY AllSound DEF TypeOK, TablesType
<1>1. ASSUME NEW sp \in MConn, my[sp].write = Nothing
      PROVE  Apply(db, Commits(my[sp], db.up)) = db
  <2>1. Commits(my[sp], db.up) = Nothing
    BY <1>0, <1>1, Reaching
  <2> QED  BY <2>1 DEF Apply
<1>2. CASE W_Start
  <2>1. w.sp \in MConn /\ my[w.sp].write = Nothing
    BY <1>2 DEF W_Start, HasConn, SessionsInv
  <2> QED  BY <1>1, <1>2, <2>1 DEF W_Start
<1>3. CASE L_Start
  <2>1. l.sp \in MConn /\ my[l.sp].write = Nothing
    BY <1>3, StoreAssumption DEF L_Start, HasConn, SessionsInv, Disjoint
  <2> QED  BY <1>1, <1>3, <2>1 DEF L_Start
<1>4. CASE W_End
  <2>1. w.sp \in MConn /\ w.pc = "end"
    BY <1>4 DEF W_End, HasConn
  <2>2. Commits(my[w.sp], db.up) = my[w.sp].write /\ my[w.sp].write \in {Nothing, w.task}
        /\ my[w.sp].write \in Task \cup {Nothing}
    BY <1>0, <2>1, Reaching DEF SessionsInv, Sound, Session
  <2>3. CASE ~w.ok \/ my[w.sp].write = Nothing
    BY <1>1, <1>4, <2>1, <2>3 DEF W_End
  <2>4. CASE w.ok /\ my[w.sp].write # Nothing
    <3>1. db' = Apply(db, w.task) /\ w.task \in Task /\ w.task # Nothing
      BY <1>4, <2>2, <2>4, StoreAssumption DEF W_End
    <3>2. CASE w.task.kind = "sync"
      <4>1. w.task \in SyncTask /\ db'.row = w.task.new /\ db'.recs = db.recs
        BY <1>0, <3>1, <3>2, ApplyTyped
      <4>2. db.row = w.task.old
        BY <2>1, <2>4, <3>2 DEF TasksInv
      <4> QED  BY <1>4, <2>4, <3>1, <4>1, <4>2 DEF Written
    <3>3. CASE w.task.kind # "sync"
      <4>1. w.task \in RecordTask /\ db'.row = db.row /\ db'.recs = Append(db.recs, w.task)
        BY <1>0, <3>1, <3>3, ApplyTyped
      <4> QED  BY <1>4, <2>4, <3>1, <3>3, <4>1 DEF Written, IsRecord
    <3> QED  BY <3>2, <3>3
  <2> QED  BY <2>3, <2>4
<1>5. CASE Outage \/ Restored
  BY <1>0, <1>5 DEF Outage, Restored, TablesType
<1>6. CASE \/ W_Get \/ W_NoConn \/ W_Query \/ W_Release
           \/ L_Get \/ L_NoConn \/ L_Type \/ L_Select \/ L_Release
           \/ Reader \/ Match \/ Hour \/ Exit \/ UNCHANGED vars
  BY <1>6 DEF W_Get, W_NoConn, W_Query, W_Release, L_Get, L_NoConn, L_Type, L_Select, L_Release,
              Reader, R_Get, R_Query, R_Release, Match, NewOrder, Trade, Cancel, Record,
              Hour, Exit, sql, vars
<1> QED  BY <1>2, <1>3, <1>4, <1>5, <1>6 DEF Next, Writer, Loader

\* What a written row is: the one before and one trade that was made.
LEMMA WrittenRow ==
    ASSUME StoreInv, Written, w.task \in SyncTask
    PROVE  /\ db'.row = w.task.new /\ db'.row \in Holding
           /\ IsPrefix(db.row, db'.row) /\ Len(db.row) <= Len(db'.row)
           /\ ToSet(db'.row) \subseteq 1..trades
           /\ cache # Nothing => IsPrefix(db'.row, cache.has)
<1> USE DEF StoreInv
<1>1. /\ w.task.kind = "sync" /\ w.task \in Pending /\ w.task # Nothing
      /\ w.task.old \in Holding /\ w.task.new \in Holding
  BY StoreAssumption DEF SyncTask, Pending, Written
<1>2. db.row = w.task.old /\ db'.row = w.task.new
  BY <1>1 DEF Written, IsRecord
<1>3. PICK id \in 1..trades : w.task.new = Append(w.task.old, id)
  BY <1>1 DEF TasksInv
<1>4. id \in Nat
  BY DEF TypeOK
<1>5. ToSet(db'.row) \subseteq 1..trades
  BY <1>1, <1>2, <1>3, <1>4, Elements DEF RowInv, Holding
<1>6. IsPrefix(db.row, db.row) /\ IsPrefix(db.row, db'.row)
  <2>1. db.row \in Holding /\ IsPrefix(db.row, db.row)
    BY <1>1, <1>2, Prefix DEF Holding
  <2> QED  BY <1>2, <1>3, <1>4, <2>1, PrefixAppend
<1>7. cache # Nothing => IsPrefix(db'.row, cache.has)
  BY <1>1, <1>2 DEF TasksInv
<1> QED  BY <1>1, <1>2, <1>5, <1>6, <1>7, Prefix

\* Every step keeps the row one of trades.
LEMMA StepRow == ASSUME StoreInv, [Next]_vars PROVE RowInv'
<1> USE DEF StoreInv
<1>1. trades' >= trades /\ trades \in Nat /\ trades' \in Nat
  <2>1. CASE NewOrder
    BY <2>1 DEF NewOrder, TypeOK
  <2>2. CASE ~NewOrder
    <3>1. trades' = trades
      BY <2>2
         DEF Next, Writer, W_Get, W_NoConn, W_Start, W_Query, W_End, W_Release,
             Loader, L_Get, L_NoConn, L_Type, L_Start, L_Select, L_Release,
             Reader, R_Get, R_Query, R_Release, Match, Trade, Cancel, Record,
             Outage, Restored, Hour, Exit, feed, vars
    <3> QED  BY <3>1 DEF TypeOK
  <2> QED  BY <2>1, <2>2
<1>2. CASE db'.row = db.row
  BY <1>1, <1>2 DEF RowInv
<1>3. CASE Written /\ w.task \in SyncTask
  BY <1>1, <1>3, WrittenRow DEF RowInv
<1> QED  BY <1>2, <1>3, DbStep DEF Written

\* Every step keeps the row behind the cache.
LEMMA StepBehind == ASSUME StoreInv, [Next]_vars PROVE RowBehindCache'
<1> USE DEF StoreInv
<1>0. /\ db.row \in Holding /\ db'.row \in Holding /\ cache \in Cached \cup {Nothing}
      /\ IsPrefix(db.row, db.row)
  <2>1. db.row \in Holding /\ db'.row \in Holding /\ cache \in Cached \cup {Nothing}
    BY StepTyped DEF TypeOK
  <2>2. Len(db.row) \in Nat
    BY <2>1 DEF Holding
  <2> QED  BY <2>1, <2>2, Prefix
<1>1. CASE cache' = cache
  <2>1. CASE db'.row = db.row
    BY <1>1, <2>1 DEF RowBehindCache
  <2>2. CASE Written /\ w.task \in SyncTask
    BY <1>1, <2>2, WrittenRow DEF RowBehindCache
  <2> QED  BY <2>1, <2>2, DbStep DEF Written
<1>2. ASSUME NEW id \in rest, Trade(id) PROVE RowBehindCache'
  <2>1. /\ cache # Nothing /\ db' = db /\ cache' = [cache EXCEPT !.has = Append(cache.has, id)]
        /\ id \in Nat /\ cache \in Cached /\ cache.has \in Holding
    BY <1>0, <1>2 DEF Trade, Free, sql, Cached, TypeOK
  <2>2. cache'.read = cache.read /\ cache'.has = Append(cache.has, id)
    BY <2>1 DEF Cached
  <2> QED  BY <1>0, <2>1, <2>2, PrefixAppend DEF RowBehindCache
<1>3. CASE L_Select
  <2>1. l.sp \in MConn /\ Sound(my[l.sp]) /\ my[l.sp].snap = Nothing /\ db.up \in BOOLEAN
        /\ db' = db
    BY <1>3, AllSound DEF L_Select, HasConn, SessionsInv
  <2>2. CASE /\ Reaches(my[l.sp], db.up)
             /\ cache' = [read |-> TRUE, has |-> Query_Select(my[l.sp], db.up, db.row).snap]
    <3>1. cache'.has = db.row
      BY <1>0, <2>1, <2>2, Selecting
    <3> QED  BY <1>0, <2>1, <3>1 DEF RowBehindCache
  <2>3. CASE \E v \in Uninitialised : cache' = [read |-> FALSE, has |-> v]
    BY <2>3 DEF RowBehindCache
  <2> QED  BY <1>3, <2>2, <2>3 DEF L_Select
<1>4. CASE Exit
  BY <1>4 DEF Exit, RowBehindCache
<1>5. cache' = cache \/ L_Select \/ Exit \/ \E id \in rest : Trade(id)
  BY DEF Next, Writer, W_Get, W_NoConn, W_Start, W_Query, W_End, W_Release,
         Loader, L_Get, L_NoConn, L_Type, L_Start, L_Release,
         Reader, R_Get, R_Query, R_Release, Match, NewOrder, Cancel, Record,
         Outage, Restored, Hour, feed, vars
<1> QED  BY <1>1, <1>2, <1>3, <1>4, <1>5

\* What a request reads is not older than its connection.
LEMMA StepRead == ASSUME StoreInv, [Next]_vars PROVE ReadInv' /\ FreshRead'
<1> USE DEF StoreInv
<1>0. /\ db.row \in Holding /\ db'.row \in Holding /\ r \in ReaderType
      /\ Len(db.row) \in Nat /\ Len(db'.row) \in Nat /\ Len(db.row) <= Len(db'.row)
  <2>1. db.row \in Holding /\ db'.row \in Holding /\ r \in ReaderType
    BY StepTyped DEF TypeOK, ReaderType
  <2>2. Len(db.row) \in Nat /\ Len(db'.row) \in Nat
    BY <2>1 DEF Holding
  <2> QED  BY <2>1, <2>2, DbStep, WrittenRow DEF Written
<1>1. CASE R_Get
  <2>1. \E sp : r' = [pc |-> IF sp = NoConn THEN "release" ELSE "query", sp |-> sp,
                      since |-> Len(db.row), got |-> <<>>]
    BY <1>1 DEF R_Get
  <2>2. r'.since = Len(db.row) /\ r'.pc # "read"
    BY <2>1
  <2> QED  BY <1>0, <2>2 DEF ReadInv, FreshRead
<1>2. CASE R_Query
  <2>1. r.sp \in MConn /\ Sound(my[r.sp]) /\ my[r.sp].snap = Nothing /\ db.up \in BOOLEAN
        /\ r.since <= Len(db.row)
    BY <1>2, AllSound DEF R_Query, HasConn, SessionsInv, ReadInv
  <2>2. \/ r' = [r EXCEPT !.pc = "read", !.got = db.row]
        \/ r' = [r EXCEPT !.pc = "release"]
    <3>1. Reaches(my[r.sp], db.up) => Query_Select(my[r.sp], db.up, db.row).snap = db.row
      BY <1>0, <2>1, Selecting
    <3>2. r' = IF Reaches(my[r.sp], db.up)
               THEN [r EXCEPT !.pc = "read", !.got = Query_Select(my[r.sp], db.up, db.row).snap]
               ELSE [r EXCEPT !.pc = "release"]
      BY <1>2 DEF R_Query
    <3> QED  BY <3>1, <3>2
  <2> QED  BY <1>0, <2>1, <2>2 DEF ReadInv, FreshRead, ReaderType
<1>3. CASE r' = r
  <2>1. r.since \in Nat
    BY <1>0 DEF ReaderType
  <2> QED  BY <1>0, <1>3, <2>1 DEF ReadInv, FreshRead
<1>4. CASE r' = NoRequest
  BY <1>4 DEF NoRequest, ReadInv, FreshRead
<1>5. R_Get \/ R_Query \/ r' = r \/ r' = NoRequest
  BY DEF Next, Writer, W_Get, W_NoConn, W_Start, W_Query, W_End, W_Release,
         Loader, L_Get, L_NoConn, L_Type, L_Start, L_Select, L_Release,
         Reader, R_Release, Match, NewOrder, Trade, Cancel, Record,
         Outage, Restored, Hour, Exit, users, vars
<1> QED  BY <1>1, <1>2, <1>3, <1>4, <1>5

\* A commit is a step of the writer.
LEMMA WEndMoves == ASSUME TypeOK, W_End PROVE w' # w
<1>1. w \in WriterType
  BY DEF TypeOK, WriterType
<1>2. w.pc = "end" /\ w' = [w EXCEPT !.pc = "release"]
  BY DEF W_End
<1>3. w'.pc = "release"
  BY <1>1, <1>2 DEF WriterType
<1> QED  BY <1>2, <1>3

\* What happens to the tasks when the writer takes or drops one.
LEMMA TasksTaken ==
    ASSUME StoreInv, Writer
    PROVE  /\ Pending' \subseteq Pending /\ cache' = cache /\ trades' = trades
           /\ asg' = asg /\ l' = l
           /\ Busy' <=> w'.task # Nothing
           /\ \/ W_Get /\ q # <<>> /\ q' = Tail(q) /\ w'.task = Head(q) /\ w'.pc \in {"none", "start"}
                 /\ w.pc = "idle"
              \/ q' = q /\ w'.pc = "idle"
              \/ /\ q' = q /\ w.pc \in {"start", "query", "end"} /\ Busy /\ Busy'
                 /\ w'.task = w.task /\ w'.pc \in {"query", "end", "release"}
                 /\ (W_Query \/ w'.pc # "end") /\ (W_End => w'.pc = "release")
<1> USE DEF StoreInv
<1>0. w \in WriterType /\ q \in Seq(Task)
  BY DEF TypeOK, WriterType
<1>1. CASE W_Get
  <2>1. /\ q # <<>> /\ q' = Tail(q) /\ w'.task = Head(q) /\ w'.pc \in {"none", "start"}
        /\ w.pc = "idle" /\ UNCHANGED <<cache, trades, asg, l>>
    BY <1>1 DEF W_Get
  <2>2. Head(q) \in Task /\ ToSet(q) = ToSet(Tail(q)) \cup {Head(q)}
    BY <1>0, <2>1, Elements
  <2> QED  BY <1>1, <2>1, <2>2, StoreAssumption DEF Pending, Busy
<1>2. CASE W_NoConn \/ W_Release
  <2>1. w'.task = Nothing /\ w'.pc = "idle" /\ UNCHANGED <<q, cache, trades, asg, l>>
    <3>1. CASE W_NoConn
      BY <1>0, <3>1 DEF W_NoConn, WriterType, feed
    <3>2. CASE W_Release
      BY <3>2 DEF W_Release, NoTask, feed
    <3> QED  BY <1>2, <3>1, <3>2
  <2> QED  BY <2>1 DEF Pending, Busy
<1>3. CASE W_Start \/ W_Query \/ W_End
  <2>1. /\ w.pc \in {"start", "query", "end"} /\ w'.task = w.task
        /\ w'.pc \in {"query", "end", "release"} /\ (W_Query \/ w'.pc # "end")
        /\ (W_End => w'.pc = "release") /\ UNCHANGED <<q, cache, trades, asg, l>>
    <3>1. CASE W_Start
      BY <1>0, <3>1 DEF W_Start, W_End, WriterType, feed
    <3>2. CASE W_Query
      <4>1. \E b : w' = [w EXCEPT !.pc = "end", !.ok = b]
        BY <3>2 DEF W_Query
      <4> QED  BY <1>0, <3>2, <4>1 DEF W_Query, W_End, WriterType, feed
    <3>3. CASE W_End
      BY <1>0, <3>3 DEF W_End, WriterType, feed
    <3> QED  BY <1>3, <3>1, <3>2, <3>3
  <2>2. Busy /\ Busy' /\ w.task # Nothing
    BY <2>1 DEF Busy, TasksInv
  <2> QED  BY <2>1, <2>2 DEF Pending
<1> QED  BY <1>1, <1>2, <1>3 DEF Writer

\* A new task goes to the end of the queue.
LEMMA TasksAdded ==
    ASSUME TypeOK, NEW a \in Task, q' = Append(q, a), w' = w
    PROVE  Pending' = Pending \cup {a} /\ a # Nothing
<1>1. ToSet(q') = ToSet(q) \cup {a}
  BY Elements DEF TypeOK
<1> QED  BY <1>1, StoreAssumption DEF Pending

\* Every step keeps the tasks right.
LEMMA StepTasks == ASSUME StoreInv, [Next]_vars PROVE TasksInv'
<1> USE DEF StoreInv
<1>0. /\ trades \in Nat /\ w \in WriterType /\ l \in LoaderType
      /\ cache \in Cached \cup {Nothing}
      /\ \A t \in Pending : t \in Task
  <2>1. q \in Seq(Task) /\ w.task \in Task \cup {Nothing}
    BY DEF TypeOK
  <2>2. ToSet(q) \subseteq Task
    BY <2>1, Elements
  <2> QED  BY <2>1, <2>2 DEF TypeOK, WriterType, LoaderType, Pending
<1>1. CASE Writer
  <2>1. /\ Pending' \subseteq Pending /\ cache' = cache /\ trades' = trades /\ l' = l
        /\ Busy' <=> w'.task # Nothing
    BY <1>1, TasksTaken
  <2>2. w'.pc = "end" /\ w'.ok /\ w'.task.kind = "sync" => db'.row = w'.task.old
    <3>1. CASE W_Query
      <4>1. /\ db' = db /\ w'.task = w.task
            /\ w'.ok => Affected(w.task) = 1
        <5>1. \/ w' = [w EXCEPT !.pc = "end", !.ok = Affected(w.task) = 1]
              \/ w' = [w EXCEPT !.pc = "end", !.ok = FALSE]
          BY <3>1 DEF W_Query
        <5>2. db' = db
          BY <3>1 DEF W_Query
        <5> QED  BY <1>0, <5>1, <5>2 DEF WriterType
      <4>2. w.task.kind = "sync" /\ Affected(w.task) = 1 => db.row = w.task.old
        BY DEF Affected
      <4> QED  BY <4>1, <4>2
    <3>2. CASE ~W_Query
      BY <1>1, <3>2, TasksTaken
    <3> QED  BY <3>1, <3>2
  <2> QED  BY <2>1, <2>2 DEF TasksInv
<1>2. CASE Loader
  <2>1. /\ q' = q /\ w' = w /\ trades' = trades /\ db'.row = db.row
    <3>1. UNCHANGED <<q, w, trades>>
      BY <1>2 DEF Loader, L_Get, L_NoConn, L_Type, L_Start, L_Select, L_Release, feed
    <3>2. db'.row = db.row
      BY <3>1, DbStep, WEndMoves DEF Written
    <3> QED  BY <3>1, <3>2
  <2>2. /\ cache' = cache \/ cache = Nothing
        /\ l'.pc # "idle" /\ l'.pc # "release" => cache' = Nothing
    <3>1. CASE L_Get
      BY <3>1 DEF L_Get, feed
    <3>2. CASE L_NoConn \/ L_Release
      BY <3>2 DEF L_NoConn, L_Release, User, feed
    <3>3. CASE L_Type \/ L_Start
      BY <3>3 DEF L_Type, L_Start, User, feed, TasksInv
    <3>4. CASE L_Select
      <4>1. cache = Nothing
        BY <3>4 DEF L_Select, TasksInv
      <4>2. l' = [l EXCEPT !.pc = "release"] \/ l' = User
        BY <3>4 DEF L_Select
      <4> QED  BY <1>0, <4>1, <4>2 DEF User, LoaderType
    <3> QED  BY <1>2, <3>1, <3>2, <3>3, <3>4 DEF Loader
  <2> QED  BY <2>1, <2>2 DEF TasksInv, Pending, Busy
<1>3. CASE NewOrder \/ \E t \in rep : Record(t)
  <2>1. PICK t \in [kind : {"order", "cancel"}, id : Nat] :
           Assign(t) /\ trades' \in Nat /\ trades' >= trades
    <3>1. CASE NewOrder
      BY <1>0, <3>1 DEF NewOrder, TaskRecordOrder
    <3>2. ASSUME NEW t \in rep, Record(t) PROVE
             t \in [kind : {"order", "cancel"}, id : Nat] /\ Assign(t) /\ trades' = trades
      BY <3>2 DEF Record, TypeOK, ReportTask
    <3> QED  BY <1>0, <1>3, <3>1, <3>2
  <2>2. t \notin SyncTask
    BY DEF SyncTask
  <2>3. UNCHANGED <<db, cache, w, l>>
    BY <1>3 DEF NewOrder, Record, sql, users
  <2>4. PICK a \in Task : q' = Append(q, a) /\ a \in RecordTask
    BY <2>1, <2>2, Assigning
  <2>5. Pending' = Pending \cup {a} /\ a.kind # "sync"
    BY <2>3, <2>4, TasksAdded DEF RecordTask
  <2> QED  BY <1>0, <2>1, <2>3, <2>5 DEF TasksInv, Busy
<1>4. ASSUME NEW id \in rest, Trade(id) PROVE TasksInv'
  <2> DEFINE new == Append(cache.has, id)
             t == [kind |-> "sync", old |-> cache.has, new |-> new]
  <2>1. /\ cache \in Cached /\ cache.has \in Holding /\ id \in 1..trades /\ id \in Nat
        /\ Free /\ cache # Nothing
    BY <1>0, <1>4 DEF Trade, Free, Cached, TypeOK
  <2>2. /\ Assign(t) /\ cache' = [cache EXCEPT !.has = new]
        /\ UNCHANGED <<db, trades, w, l>>
    BY <1>4 DEF Trade, sql, users
  <2>3. /\ new \in Holding /\ IsPrefix(new, new) /\ t \in SyncTask
        /\ \A s \in Holding : IsPrefix(s, cache.has) => IsPrefix(s, new)
    <3>1. \A s \in Holding : IsPrefix(s, cache.has) => IsPrefix(s, new)
      BY <2>1, PrefixAppend
    <3>2. new \in Holding
      BY <2>1 DEF Holding
    <3>3. IsPrefix(new, new)
      <4>1. Len(new) \in Nat
        BY <3>2 DEF Holding
      <4> QED  BY <3>2, <4>1, Prefix
    <3> QED  BY <2>1, <3>1, <3>2, <3>3 DEF SyncTask
  <2>4. cache' # Nothing /\ cache'.has = new
    <3>1. cache' \in Cached
      BY <2>1, <2>2, <2>3 DEF Cached
    <3> QED  BY <2>1, <2>2, <3>1, StoreAssumption DEF Cached
  <2>5. t.new = Append(t.old, id) /\ t.new = new
    OBVIOUS
  <2> HIDE DEF t, new
  <2>6. q' = Append(q, t) /\ t \in Task
    BY <2>2, <2>3, Assigning DEF Task
  <2>7. Pending' = Pending \cup {t}
    BY <2>2, <2>6, TasksAdded
  <2>8. l.pc = "idle"
    BY <2>1 DEF Free
  <2>9. ASSUME NEW u \in Pending', u.kind = "sync"
        PROVE  (\E i \in 1..trades : u.new = Append(u.old, i)) /\ IsPrefix(u.new, new)
    <3>1. CASE u = t
      BY <2>1, <2>3, <2>5, <3>1
    <3>2. CASE u \in Pending
      <4>1. u.new \in Holding
        BY <1>0, <2>9, <3>2 DEF Task, SyncTask, RecordTask
      <4> QED  BY <2>3, <2>9, <3>2, <4>1 DEF TasksInv
    <3> QED  BY <2>7, <3>1, <3>2
  <2> QED  BY <2>2, <2>4, <2>8, <2>9 DEF TasksInv, Busy
<1>5. CASE Exit
  <2>1. q' = <<>> /\ w' = NoTask /\ l' = User
    BY <1>5 DEF Exit
  <2>2. Pending' = {}
    BY <2>1 DEF Pending, NoTask, ToSet
  <2> QED  BY <2>1, <2>2 DEF TasksInv, Busy, NoTask, User
<1>6. CASE Reader \/ Outage \/ Restored \/ Hour \/ (\E id \in rest : Cancel(id)) \/ UNCHANGED vars
  <2>1. UNCHANGED <<q, w, l, cache, trades>> /\ db'.row = db.row
    <3>1. UNCHANGED <<q, w, l, cache, trades>>
      BY <1>6 DEF Reader, R_Get, R_Query, R_Release, Outage, Restored, Hour, Cancel, feed, users, vars
    <3>2. db'.row = db.row
      BY <1>6, <3>1, DbStep, WEndMoves DEF Written
    <3> QED  BY <3>1, <3>2
  <2> QED  BY <2>1 DEF TasksInv, Pending, Busy
<1> QED  BY <1>1, <1>2, <1>3, <1>4, <1>5, <1>6 DEF Next, Match

\* Every step keeps the numbers increasing: a new one is larger than all.
LEMMA StepNumbers == ASSUME StoreInv, [Next]_vars PROVE NumbersInv' /\ RecordsInOrder'
<1> USE DEF StoreInv
<1>0. /\ q \in Seq(Task) /\ asg \in Nat /\ db.recs \in Seq(RecordTask) /\ w \in WriterType
      /\ \A i \in DOMAIN q : q[i] \in Task
      /\ \A i \in DOMAIN db.recs : db.recs[i].n \in Nat
      /\ \A t \in Task : IsRecord(t) => t.n \in Nat
      /\ Busy => w.task \in Task
  <2>1. q \in Seq(Task) /\ asg \in Nat /\ db.recs \in Seq(RecordTask) /\ w \in WriterType
    BY DEF TypeOK, WriterType
  <2>2. \A i \in DOMAIN db.recs : db.recs[i].n \in Nat
    <3>1. \A i \in DOMAIN db.recs : db.recs[i] \in RecordTask
      BY <2>1
    <3> QED  BY <3>1 DEF RecordTask
  <2>3. \A t \in Task : IsRecord(t) => t.n \in Nat
    BY DEF Task, SyncTask, RecordTask, IsRecord
  <2>4. Busy => w.task \in Task
    BY <2>1 DEF TasksInv, WriterType
  <2> QED  BY <2>1, <2>2, <2>3, <2>4
<1>1. CASE W_Get
  <2>1. /\ db' = db /\ asg' = asg /\ q # <<>> /\ q' = Tail(q) /\ w'.task = Head(q)
    BY <1>1 DEF W_Get
  <2>2. /\ \A i \in DOMAIN q' : i + 1 \in DOMAIN q /\ q'[i] = q[i + 1] /\ i \in Nat
        /\ 1 \in DOMAIN q /\ w'.task = q[1]
    BY <1>0, <2>1
  <2>3. ASSUME NEW i \in DOMAIN q', IsRecord(q'[i])
        PROVE  /\ q'[i].n <= asg
               /\ \A j \in DOMAIN q' : i < j /\ IsRecord(q'[j]) => q'[i].n < q'[j].n
               /\ \A j \in DOMAIN db.recs : db.recs[j].n < q'[i].n
    <3>1. IsRecord(q[i + 1]) /\ i + 1 \in DOMAIN q
      BY <2>2, <2>3
    <3>2. \A j \in DOMAIN q' : i < j => i + 1 < j + 1
      BY <2>2
    <3> QED  BY <2>2, <3>1, <3>2 DEF NumbersInv
  <2>4. ASSUME IsRecord(w'.task)
        PROVE  /\ w'.task.n <= asg
               /\ \A j \in DOMAIN q' : IsRecord(q'[j]) => w'.task.n < q'[j].n
               /\ \A j \in DOMAIN db.recs : db.recs[j].n < w'.task.n
    <3>1. \A j \in DOMAIN q' : 1 < j + 1
      BY <1>0, <2>1, <2>2
    <3> QED  BY <2>2, <2>4, <3>1 DEF NumbersInv
  <2> QED  BY <2>1, <2>3, <2>4 DEF NumbersInv, RecordsInOrder
<1>2. CASE W_NoConn \/ W_Release
  <2>1. w'.pc = "idle" /\ UNCHANGED <<q, asg, db>>
    <3>1. CASE W_NoConn
      BY <1>0, <3>1 DEF W_NoConn, WriterType, feed
    <3>2. CASE W_Release
      BY <3>2 DEF W_Release, NoTask, feed
    <3> QED  BY <1>2, <3>1, <3>2
  <2> QED  BY <2>1 DEF NumbersInv, RecordsInOrder, Busy
<1>3. CASE W_Start \/ W_Query \/ W_End
  <2>1. /\ q' = q /\ asg' = asg /\ w'.task = w.task /\ Busy /\ w.pc \in {"start", "query", "end"}
        /\ W_End => w'.pc = "release"
    <3>1. w.pc \in {"start", "query", "end"} /\ Writer /\ w'.pc # "idle"
      <4>1. CASE W_Query
        <5>1. \E b : w' = [w EXCEPT !.pc = "end", !.ok = b]
          BY <4>1 DEF W_Query
        <5> QED  BY <1>0, <4>1, <5>1 DEF Writer, W_Query, WriterType
      <4>2. CASE W_Start
        BY <1>0, <4>2 DEF Writer, W_Start, WriterType
      <4>3. CASE W_End
        BY <1>0, <4>3 DEF Writer, W_End, WriterType
      <4> QED  BY <1>3, <4>1, <4>2, <4>3
    <3> QED  BY <3>1, TasksTaken DEF W_Get
  <2>2. CASE db'.recs = db.recs
    BY <2>1, <2>2 DEF NumbersInv, RecordsInOrder, Busy
  <2>3. CASE Written /\ w.task \in RecordTask
    <3>1. /\ IsRecord(w.task) /\ db'.recs = Append(db.recs, w.task) /\ w'.pc = "release"
          /\ w.pc # "release" /\ w.task.n \in Nat
      BY <2>1, <2>3 DEF Written, IsRecord, SyncTask, RecordTask
    <3>2. /\ DOMAIN db'.recs = 1..(Len(db.recs) + 1) /\ DOMAIN db.recs = 1..Len(db.recs)
          /\ Len(db.recs) \in Nat /\ db'.recs[Len(db.recs) + 1] = w.task
          /\ \A i \in 1..Len(db.recs) : db'.recs[i] = db.recs[i]
      BY <1>0, <2>3, <3>1
    <3>3. \A i \in DOMAIN db'.recs : i \in DOMAIN db.recs \/ i = Len(db.recs) + 1
      BY <3>2
    <3>4. /\ w.task.n <= asg /\ \A j \in DOMAIN q : IsRecord(q[j]) => w.task.n < q[j].n
          /\ \A j \in DOMAIN db.recs : db.recs[j].n < w.task.n
      BY <2>1, <3>1 DEF NumbersInv
    <3>5. NumbersInv'
      BY <2>1, <3>1, <3>2, <3>3, <3>4 DEF NumbersInv, Busy
    <3>6. ASSUME NEW i \in DOMAIN db'.recs, NEW j \in DOMAIN db'.recs, i < j
          PROVE  db'.recs[i].n < db'.recs[j].n
      <4>1. i \in DOMAIN db.recs /\ (j \in DOMAIN db.recs \/ j = Len(db.recs) + 1)
        BY <3>2, <3>3, <3>6
      <4> QED  BY <3>2, <3>4, <3>6, <4>1 DEF RecordsInOrder
    <3> QED  BY <3>5, <3>6 DEF RecordsInOrder
  <2> QED  BY <2>2, <2>3, DbStep DEF Written
<1>4. CASE NewOrder \/ (\E t \in rep : Record(t)) \/ \E id \in rest : Trade(id)
  <2>1. UNCHANGED <<db, w>>
    BY <1>4 DEF NewOrder, Record, Trade, sql, users
  <2>2. PICK a \in Task : /\ q' = Append(q, a) /\ asg' \in Nat
                          /\ asg' >= asg
                          /\ IsRecord(a) => a.n = asg + 1 /\ asg' = asg + 1
    <3>1. CASE NewOrder
      <4>1. /\ Assign(TaskRecordOrder(trades')) /\ TaskRecordOrder(trades') \notin SyncTask
            /\ TaskRecordOrder(trades') \in [kind : {"order", "cancel"}, id : Nat]
        BY <3>1 DEF NewOrder, TaskRecordOrder, TypeOK, SyncTask
      <4> QED  BY <1>0, <4>1, Assigning
    <3>2. ASSUME NEW t \in rep, Record(t)
          PROVE  \E a \in Task : /\ q' = Append(q, a) /\ asg' \in Nat /\ asg' >= asg
                                 /\ IsRecord(a) => a.n = asg + 1 /\ asg' = asg + 1
      <4>1. t \in [kind : {"order", "cancel"}, id : Nat] /\ Assign(t) /\ t \notin SyncTask
        BY <3>2 DEF Record, TypeOK, ReportTask, SyncTask
      <4> QED  BY <1>0, <4>1, Assigning
    <3>3. ASSUME NEW id \in rest, Trade(id)
          PROVE  \E a \in Task : /\ q' = Append(q, a) /\ asg' \in Nat /\ asg' >= asg
                                 /\ IsRecord(a) => a.n = asg + 1 /\ asg' = asg + 1
      <4> DEFINE t == [kind |-> "sync", old |-> cache.has, new |-> Append(cache.has, id)]
      <4>1. Assign(t) /\ t \in SyncTask
        <5>1. cache.has \in Holding /\ id \in Nat
          BY <3>3 DEF Trade, Free, Cached, TypeOK
        <5>2. Append(cache.has, id) \in Holding
          BY <5>1 DEF Holding
        <5> QED  BY <3>3, <5>1, <5>2 DEF Trade, SyncTask
      <4>2. ~IsRecord(t)
        BY DEF IsRecord
      <4> HIDE DEF t
      <4> QED  BY <1>0, <4>1, <4>2, Assigning
    <3> QED  BY <1>4, <3>1, <3>2, <3>3
  <2>3. /\ DOMAIN q' = 1..(Len(q) + 1) /\ DOMAIN q = 1..Len(q) /\ Len(q) \in Nat
        /\ q'[Len(q) + 1] = a /\ \A i \in 1..Len(q) : q'[i] = q[i]
    BY <1>0, <2>2
  <2>4. \A i \in DOMAIN q' : i \in DOMAIN q \/ i = Len(q) + 1
    BY <2>3
  <2>5. ASSUME NEW i \in DOMAIN q', IsRecord(q'[i])
        PROVE  /\ q'[i].n <= asg'
               /\ \A j \in DOMAIN q' : i < j /\ IsRecord(q'[j]) => q'[i].n < q'[j].n
               /\ \A j \in DOMAIN db.recs : db.recs[j].n < q'[i].n
    <3>1. CASE i \in DOMAIN q
      <4>1. q'[i] = q[i] /\ q[i].n <= asg /\ q[i].n \in Nat
            /\ \A j \in DOMAIN db.recs : db.recs[j].n < q[i].n
        BY <1>0, <2>3, <2>5, <3>1 DEF NumbersInv
      <4>2. ASSUME NEW j \in DOMAIN q', i < j, IsRecord(q'[j]) PROVE q[i].n < q'[j].n
        <5>1. CASE j \in DOMAIN q
          BY <2>3, <2>5, <3>1, <4>1, <4>2, <5>1 DEF NumbersInv
        <5>2. CASE j = Len(q) + 1
          BY <1>0, <2>2, <2>3, <4>1, <4>2, <5>2
        <5> QED  BY <2>4, <5>1, <5>2
      <4>3. q[i].n <= asg'
        BY <1>0, <2>2, <4>1
      <4> QED  BY <4>1, <4>2, <4>3
    <3>2. CASE i = Len(q) + 1
      <4>1. q'[i].n = asg + 1 /\ asg' = asg + 1
        BY <2>2, <2>3, <2>5, <3>2
      <4>2. \A j \in DOMAIN db.recs : db.recs[j].n < asg + 1
        BY <1>0 DEF NumbersInv
      <4>3. \A j \in DOMAIN q' : ~(i < j)
        BY <2>3, <3>2
      <4> QED  BY <2>2, <4>1, <4>2, <4>3
    <3> QED  BY <2>4, <3>1, <3>2
  <2>6. ASSUME Busy, IsRecord(w.task)
        PROVE  w.task.n <= asg' /\ \A j \in DOMAIN q' : IsRecord(q'[j]) => w.task.n < q'[j].n
    <3>1. w.task.n \in Nat /\ w.task.n <= asg
      BY <1>0, <2>6 DEF NumbersInv
    <3>2. ASSUME NEW j \in DOMAIN q', IsRecord(q'[j]) PROVE w.task.n < q'[j].n
      <4>1. CASE j \in DOMAIN q
        BY <2>3, <2>6, <3>2, <4>1 DEF NumbersInv
      <4>2. CASE j = Len(q) + 1
        BY <1>0, <2>2, <2>3, <3>1, <3>2, <4>2
      <4> QED  BY <2>4, <4>1, <4>2
    <3>3. w.task.n <= asg'
      BY <1>0, <2>2, <3>1
    <3> QED  BY <3>2, <3>3
  <2>7. \A i \in DOMAIN db.recs : db.recs[i].n <= asg'
    BY <1>0, <2>2 DEF NumbersInv
  <2> QED  BY <2>1, <2>5, <2>6, <2>7 DEF NumbersInv, RecordsInOrder, Busy
<1>5. CASE Exit
  <2>1. q' = <<>> /\ w'.pc = "idle" /\ UNCHANGED <<db, asg>>
    BY <1>5 DEF Exit, NoTask
  <2> QED  BY <2>1 DEF NumbersInv, RecordsInOrder, Busy
<1>6. CASE Loader \/ Reader \/ Outage \/ Restored \/ Hour \/ (\E id \in rest : Cancel(id)) \/ UNCHANGED vars
  <2>1. UNCHANGED <<q, w, asg>>
    BY <1>6 DEF Loader, L_Get, L_NoConn, L_Type, L_Start, L_Select, L_Release,
                Reader, R_Get, R_Query, R_Release, Outage, Restored, Hour, Cancel, feed, users, vars
  <2>2. db'.recs = db.recs
    BY <2>1, DbStep, WEndMoves DEF Written
  <2> QED  BY <2>1, <2>2 DEF NumbersInv, RecordsInOrder, Busy
<1> QED  BY <1>1, <1>2, <1>3, <1>4, <1>5, <1>6 DEF Next, Writer, Match

-----------------------------------------------------------------------------
(* The theorems.                                                           *)

\* It holds when the process starts.
LEMMA StoreInit == Init => StoreInv
<1> SUFFICES ASSUME Init PROVE StoreInv
  OBVIOUS
<1>1. TypeOK /\ PoolInv
  BY InitTyped, PoolStart
<1>2. \A c \in MConn : my[c] = Connect
  BY DEF Init
<1>3. SessionsInv
  BY <1>1, <1>2, ConnectIsSession, NoConnNotIdle DEF Init, SessionsInv, User, NoRequest
<1>4. /\ db.row = <<>> /\ db.recs = <<>> /\ q = <<>> /\ cache = Nothing
      /\ w = NoTask /\ l = User /\ r = NoRequest
  BY DEF Init
<1>5. Pending = {} /\ RowInv
  BY <1>4 DEF Pending, RowInv, NoTask, ToSet
<1>6. TasksInv /\ NumbersInv /\ ReadInv
  BY <1>4, <1>5 DEF TasksInv, NumbersInv, ReadInv, Busy, NoTask, User, NoRequest
<1>7. FreshRead /\ RowBehindCache /\ RecordsInOrder
  BY <1>4 DEF FreshRead, RowBehindCache, RecordsInOrder, NoRequest
<1> QED  BY <1>1, <1>3, <1>5, <1>6, <1>7 DEF StoreInv, PoolInv

\* Every step keeps it.
LEMMA StoreStep == StoreInv /\ [Next]_vars => StoreInv'
BY StepTyped, StepPool, StepSessions, StepTasks, StepRow, StepNumbers, StepRead, StepBehind
   DEF StoreInv, PoolInv

\* Connections break, are replaced, lost and counted wrongly, transactions are
\* started and committed behind the library's back, and yet the following
\* holds in every state.
THEOREM StoreInvariant == Spec => []StoreInv
BY StoreInit, StoreStep, PTL DEF Spec

\* A connection is idle or has one user, whatever is taken, released and lost.
THEOREM StoreOneUser == Spec => []OneUser
<1>1. StoreInv => OneUser
  <2> SUFFICES ASSUME StoreInv PROVE OneUser
    OBVIOUS
  <2>1. Idle(mp) \cap Held = {}
    BY DEF StoreInv, Disjoint, Held
  <2>2. ASSUME NEW u \in {w, l, r}, NEW v \in {w, l, r}, u # v, u.sp # NoConn PROVE u.sp # v.sp
    BY <2>2 DEF StoreInv, Disjoint
  <2> QED  BY <2>1, <2>2 DEF StoreInv, Disjoint, OneUser
<1> QED  BY <1>1, StoreInvariant, PTL

\* A request never reads what was there before it took its connection.
THEOREM StoreFreshRead == Spec => []FreshRead
<1>1. StoreInv => FreshRead
  BY DEF StoreInv
<1> QED  BY <1>1, StoreInvariant, PTL

\* What is in the database was written in the order it was decided.
THEOREM StoreInOrder == Spec => []WrittenInOrder
<1>1. StoreInv => WrittenInOrder
  BY DEF StoreInv, WrittenInOrder
<1> QED  BY <1>1, StoreInvariant, PTL

\* The row only grows, by trades that were made: what an unread holding in the
\* cache would write is refused by the counts in the statement.
THEOREM StoreRowOfTrades == Spec => RowOfTrades
<1>1. StoreInv /\ [Next]_vars =>
        [db'.row # db.row => /\ IsPrefix(db.row, db'.row)
                             /\ ToSet(db'.row) \subseteq 1..trades]_vars
  BY DbStep, WrittenRow DEF Written
<1> QED  BY <1>1, StoreInvariant, PTL DEF Spec, RowOfTrades

-----------------------------------------------------------------------------
(* Settlement: the day end                                                 *)

Tables == {"order_match", "order_record", "order_report"}

LEMMA TablesIs == ToSet(Table) = Tables
BY DEF ToSet, Table, Tables

InDayEnd(j) == j.pc \in {"move", "truncate"}

JobRecord(j) == j = [pc |-> j.pc, todo |-> j.todo, groups |-> j.groups, rows |-> j.rows, rc |-> j.rc]

\* Requests, tables and archives have their form.
DayForm ==
    /\ JobRecord(job)
    /\ budget \in [requests : Nat, faults : Nat, syncs : Nat, late : Nat]
    /\ live = [t \in Tables |-> live[t]] /\ copied = [t \in Tables |-> copied[t]]
    /\ old = [t \in Tables |-> [i \in Ids(t) |-> old[t][i]]]
    /\ \A t \in Tables : /\ copied[t] \subseteq live[t] /\ live[t] \subseteq Ids(t)
                         /\ \A i \in Ids(t) : old[t][i] \in Nat

\* Where the day end is in its two orders.
DayPlace ==
    /\ job.pc = "move" =>
         job.todo \in {MoveOrder, <<"order_record", "order_report">>, <<"order_report">>}
    /\ job.pc = "truncate" =>
         job.todo \in {TruncateOrder, <<"order_match", "order_report">>, <<"order_report">>, <<>>}

\* The rows of the beginning are still in the table until the last copy is
\* made, copied before the first truncation and archived after it.
DayRows ==
    /\ \A t \in Tables : begun[t] \subseteq Ids(t)
    /\ job.pc = "move" =>
         \A t \in Tables : /\ begun[t] \subseteq live[t]
                           /\ t \notin ToSet(job.todo) => begun[t] \subseteq copied[t]
    /\ job.pc = "truncate" =>
         \A t \in Tables : begun[t] \subseteq copied[t] \/ \A i \in begun[t] : old[t][i] > 0

\* What is copied is not archived yet, and what is archived only waits for the
\* truncation of its table, as long as nothing failed.
DayOnce ==
    budget.faults = 0 =>
      \A t \in Tables : \A i \in Ids(t) :
        /\ old[t][i] <= 1
        /\ i \in copied[t] => old[t][i] = 0 /\ InDayEnd(job)
        /\ i \in live[t] /\ (old[t][i] > 0 \/ (job.pc = "truncate" /\ i \in copied[t]))
             => job.pc = "truncate" /\ t \in ToSet(job.todo)

DayInv == DayForm /\ DayPlace /\ DayRows /\ DayOnce /\ NothingLost

\* The orders of copies and truncations, step by step.
LEMMA DayOrders ==
    /\ ToSet(MoveOrder) = Tables /\ Head(MoveOrder) = "order_match" /\ Len(MoveOrder) = 3
    /\ Tail(MoveOrder) = <<"order_record", "order_report">>
    /\ ToSet(<<"order_record", "order_report">>) = {"order_record", "order_report"}
    /\ Head(<<"order_record", "order_report">>) = "order_record" /\ Len(<<"order_record", "order_report">>) = 2
    /\ Tail(<<"order_record", "order_report">>) = <<"order_report">>
    /\ ToSet(<<"order_report">>) = {"order_report"}
    /\ Head(<<"order_report">>) = "order_report" /\ Len(<<"order_report">>) = 1
    /\ Tail(<<"order_report">>) = <<>>
    /\ ToSet(TruncateOrder) = Tables /\ Head(TruncateOrder) = "order_record"
    /\ TruncateOrder # <<>>
    /\ Tail(TruncateOrder) = <<"order_match", "order_report">>
    /\ ToSet(<<"order_match", "order_report">>) = {"order_match", "order_report"}
    /\ Head(<<"order_match", "order_report">>) = "order_match"
    /\ Tail(<<"order_match", "order_report">>) = <<"order_report">>
    /\ ToSet(<<>>) = {}
<1>1. \A a, b, c : ToSet(<<a, b, c>>) = {a, b, c} /\ ToSet(<<a, b>>) = {a, b} /\ ToSet(<<a>>) = {a}
  BY DEF ToSet
<1>2. ToSet(<<>>) = {}
  BY DEF ToSet
<1>3. \A a, b, c : /\ Head(<<a, b, c>>) = a /\ Tail(<<a, b, c>>) = <<b, c>> /\ Len(<<a, b, c>>) = 3
                   /\ Head(<<a, b>>) = a /\ Tail(<<a, b>>) = <<b>> /\ Len(<<a, b>>) = 2
                   /\ Head(<<a>>) = a /\ Tail(<<a>>) = <<>> /\ Len(<<a>>) = 1 /\ <<a, b, c>> # <<>>
  OBVIOUS
<1> QED  BY <1>1, <1>2, <1>3 DEF MoveOrder, TruncateOrder, Tables

LEMMA DayInit == SettlementInit => DayInv
<1> SUFFICES ASSUME SettlementInit PROVE DayInv
  OBVIOUS
<1>1. /\ live = [t \in Tables |-> Ids(t) \ IF t = "order_match" THEN Late ELSE {}]
      /\ old = [t \in Tables |-> [i \in Ids(t) |-> 0]]
      /\ copied = [t \in Tables |-> {}] /\ begun = [t \in Tables |-> {}]
      /\ job = NoJob /\ budget = [requests |-> 0, faults |-> 0, syncs |-> 0, late |-> 0]
  BY TablesIs DEF SettlementInit
<1>2. DayForm
  BY <1>1 DEF DayForm, JobRecord, NoJob
<1>3. DayPlace /\ DayRows /\ DayOnce
  BY <1>1 DEF DayPlace, DayRows, DayOnce, NoJob, InDayEnd
<1>4. NothingLost
  BY <1>1, TablesIs DEF NothingLost
<1> QED  BY <1>2, <1>3, <1>4 DEF DayInv

\* A step of a settlement, or of a client.
LEMMA DayQuiet ==
    ASSUME DayInv, UNCHANGED tables, JobRecord(job'),
           budget' \in [requests : Nat, faults : Nat, syncs : Nat, late : Nat], budget.faults <= budget'.faults,
           job' = job \/ (~InDayEnd(job) /\ ~InDayEnd(job'))
    PROVE  DayInv'
<1>1. UNCHANGED <<live, old, copied, begun>>
  BY DEF tables
<1>2. DayForm' /\ NothingLost'
  BY <1>1 DEF DayInv, DayForm, NothingLost, JobRecord, Ids
<1>3. DayPlace'
  BY DEF DayInv, DayPlace, InDayEnd
<1>4. DayRows'
  BY <1>1 DEF DayInv, DayRows, InDayEnd, Ids
<1>5. DayOnce'
  <2> SUFFICES ASSUME budget'.faults = 0, NEW t \in Tables, NEW i \in Ids(t)'
               PROVE  /\ old'[t][i] <= 1
                      /\ i \in copied'[t] => old'[t][i] = 0 /\ InDayEnd(job')
                      /\ i \in live'[t] /\ (old'[t][i] > 0 \/ (job'.pc = "truncate" /\ i \in copied'[t]))
                           => job'.pc = "truncate" /\ t \in ToSet(job'.todo)
    BY DEF DayOnce, InDayEnd
  <2>0. i \in Ids(t)
    BY DEF Ids
  <2>1. budget.faults = 0 /\ i \in Ids(t) /\ old[t][i] \in Nat
    BY <2>0 DEF DayInv, DayForm
  <2>2. /\ old[t][i] <= 1
        /\ i \in copied[t] => old[t][i] = 0 /\ InDayEnd(job)
        /\ i \in live[t] /\ (old[t][i] > 0 \/ (job.pc = "truncate" /\ i \in copied[t]))
              => job.pc = "truncate" /\ t \in ToSet(job.todo)
    BY <2>1 DEF DayInv, DayOnce
  <2> QED  BY <1>1, <2>1, <2>2 DEF InDayEnd
<1> QED  BY <1>2, <1>3, <1>4, <1>5 DEF DayInv

\* A request that is given up, because something failed or in a settlement.
LEMMA DayAbandon ==
    ASSUME DayInv, Abandon, UNCHANGED <<live, begun>>,
           \/ Fault /\ old' \in {old, Archived}
           \/ UNCHANGED <<budget, old>> /\ ~InDayEnd(job)
    PROVE  DayInv'
<1>1. /\ job' = NoJob /\ copied' = [t \in Tables |-> {}] /\ JobRecord(job') /\ job'.pc = "idle"
  BY TablesIs DEF Abandon, JobRecord, NoJob
<1>2. budget' \in [requests : Nat, faults : Nat, syncs : Nat, late : Nat]
  BY DEF DayInv, DayForm, Fault
<1>3. /\ old' = [t \in Tables |-> [i \in Ids(t) |-> old'[t][i]]]
      /\ \A t \in Tables : \A i \in Ids(t) : old'[t][i] \in Nat /\ old'[t][i] >= old[t][i]
  <2>1. Archived = [t \in Tables |-> [i \in Ids(t) |-> old[t][i] + IF i \in copied[t] THEN 1 ELSE 0]]
    BY TablesIs DEF Archived
  <2>2. \A t \in Tables : \A i \in Ids(t) : old[t][i] \in Nat
    BY DEF DayInv, DayForm
  <2>3. CASE old' = old
    BY <2>2, <2>3 DEF DayInv, DayForm
  <2>4. CASE old' = Archived
    BY <2>1, <2>2, <2>4
  <2> QED  BY <2>3, <2>4
<1>4. DayForm'
  BY <1>1, <1>2, <1>3 DEF DayInv, DayForm, Ids
<1>5. DayPlace' /\ DayRows'
  BY <1>1 DEF DayInv, DayPlace, DayRows, Ids
<1>6. NothingLost'
  <2>1. \A t \in Tables : \A i \in begun[t] : i \in Ids(t) /\ (i \in live[t] \/ old[t][i] > 0) /\ old[t][i] \in Nat
    BY TablesIs DEF DayInv, DayForm, DayRows, NothingLost
  <2> QED  BY <1>3, <2>1, TablesIs DEF NothingLost
<1>7. DayOnce'
  <2>1. CASE Fault
    <3>1. budget'.faults # 0
      BY <2>1 DEF Fault, DayInv, DayForm
    <3> QED  BY <3>1 DEF DayOnce
  <2>2. CASE UNCHANGED <<budget, old>> /\ ~InDayEnd(job)
    <3> SUFFICES ASSUME budget.faults = 0, NEW t \in Tables, NEW i \in Ids(t)
                 PROVE  old[t][i] <= 1 /\ ~(i \in live[t] /\ old[t][i] > 0)
      BY <1>1, <2>2 DEF DayOnce, Ids
    <3> QED  BY <2>2 DEF DayInv, DayOnce, InDayEnd
  <2> QED  BY <2>1, <2>2
<1> QED  BY <1>4, <1>5, <1>6, <1>7 DEF DayInv

LEMMA DayRecord ==
    ASSUME DayInv, NEW k \in Late, RecordTrade(k)
    PROVE  DayInv'
<1>1. /\ UNCHANGED <<old, copied, begun, job>>
      /\ k \in Ids("order_match") /\ k \notin live["order_match"] /\ old["order_match"][k] = 0
      /\ ~(InDayEnd(job) /\ copied["order_match"] # {})
  BY SettlementAssumption DEF RecordTrade, InDayEnd, Ids
<1>2. live' = [t \in Tables |-> IF t = "order_match" THEN live[t] \cup {k} ELSE live[t]]
  BY DEF RecordTrade, DayInv, DayForm
<1>3. /\ budget' \in [requests : Nat, faults : Nat, syncs : Nat, late : Nat] /\ budget'.faults = budget.faults
  BY DEF RecordTrade, DayInv, DayForm
<1>4. DayForm'
  BY <1>1, <1>2, <1>3 DEF DayInv, DayForm, Ids, JobRecord
<1>5. DayPlace' /\ DayRows' /\ NothingLost'
  BY <1>1, <1>2, TablesIs DEF DayInv, DayPlace, DayRows, NothingLost, Ids
<1>6. DayOnce'
  <2> SUFFICES ASSUME budget.faults = 0, NEW t \in Tables, NEW i \in Ids(t)
               PROVE  /\ old[t][i] <= 1
                      /\ i \in copied[t] => old[t][i] = 0 /\ InDayEnd(job)
                      /\ i \in live'[t] /\ (old[t][i] > 0 \/ (job.pc = "truncate" /\ i \in copied[t]))
                           => job.pc = "truncate" /\ t \in ToSet(job.todo)
    BY <1>1, <1>3 DEF DayOnce, InDayEnd, Ids
  <2>1. /\ old[t][i] <= 1
        /\ i \in copied[t] => old[t][i] = 0 /\ InDayEnd(job)
        /\ i \in live[t] /\ (old[t][i] > 0 \/ (job.pc = "truncate" /\ i \in copied[t]))
              => job.pc = "truncate" /\ t \in ToSet(job.todo)
        /\ copied[t] \subseteq live[t]
    BY DEF DayInv, DayOnce, DayForm
  <2>2. i \in live'[t] => i \in live[t] \/ (t = "order_match" /\ i = k)
    BY <1>2
  <2> QED  BY <1>1, <2>1, <2>2
<1> QED  BY <1>4, <1>5, <1>6 DEF DayInv

LEMMA DayBegin ==
    ASSUME DayInv, Simutgw_DayEnd
    PROVE  DayInv'
<1>1. /\ UNCHANGED <<live, old, copied>> /\ begun' = live /\ job.pc = "idle" /\ JobRecord(job')
      /\ job'.pc = "move" /\ job'.todo = MoveOrder
  BY DEF Simutgw_DayEnd, NoJob, JobRecord
<1>2. budget' \in [requests : Nat, faults : Nat, syncs : Nat, late : Nat] /\ budget'.faults = budget.faults
  BY DEF Simutgw_DayEnd, DayInv, DayForm
<1>3. DayForm' /\ NothingLost'
  BY <1>1, <1>2, TablesIs DEF DayInv, DayForm, NothingLost, Ids
<1>4. DayPlace' /\ DayRows'
  BY <1>1, DayOrders DEF DayInv, DayPlace, DayRows, DayForm, Ids
<1>5. DayOnce'
  <2> SUFFICES ASSUME budget.faults = 0, NEW t \in Tables, NEW i \in Ids(t)
               PROVE  old[t][i] <= 1 /\ i \notin copied[t] /\ ~(i \in live[t] /\ old[t][i] > 0)
    BY <1>1, <1>2 DEF DayOnce, InDayEnd, Ids
  <2> QED  BY <1>1 DEF DayInv, DayOnce, InDayEnd
<1> QED  BY <1>3, <1>4, <1>5 DEF DayInv

LEMMA DayMove ==
    ASSUME DayInv, MoveDbdata
    PROVE  DayInv'
<1> DEFINE t0 == Head(job.todo)
<1>1. CASE Fault /\ Abandon /\ UNCHANGED <<live, old, begun, stock, shares, unseen, disk>>
  BY <1>1, DayAbandon
<1>2. CASE /\ copied' = [copied EXCEPT ![t0] = live[t0]]
           /\ job' = IF Len(job.todo) = 1
                     THEN [job EXCEPT !.pc = "truncate", !.todo = TruncateOrder]
                     ELSE [job EXCEPT !.todo = Tail(@)]
           /\ UNCHANGED <<live, old, begun, holdings, files, view, budget, result>>
  <2>1. job.pc = "move" /\ UNCHANGED <<live, old, begun, budget>> /\ t0 \in Tables
        /\ job.todo \in {MoveOrder, <<"order_record", "order_report">>, <<"order_report">>}
    BY <1>2, DayOrders DEF MoveDbdata, DayInv, DayPlace, Tables
  <2>2. copied' = [t \in Tables |-> IF t = t0 THEN live[t] ELSE copied[t]]
    BY <1>2, <2>1 DEF DayInv, DayForm
  <2>3. JobRecord(job') /\ (job'.pc = "move" \/ job'.pc = "truncate")
    BY <1>2, <2>1 DEF JobRecord, DayInv, DayForm
  <2>4. /\ job'.pc = "move" => job'.todo = Tail(job.todo) /\ job.todo # <<"order_report">>
        /\ job'.pc = "truncate" => job'.todo = TruncateOrder /\ job.todo = <<"order_report">>
    <3>1. job = [pc |-> job.pc, todo |-> job.todo, groups |-> job.groups, rows |-> job.rows, rc |-> job.rc]
      BY DEF DayInv, DayForm, JobRecord
    <3>2. CASE job.todo = <<"order_report">>
      <4>1. Len(job.todo) = 1
        BY <3>2, DayOrders
      <4>2. job' = [job EXCEPT !.pc = "truncate", !.todo = TruncateOrder]
        BY <1>2, <4>1
      <4> QED  BY <3>1, <3>2, <4>2
    <3>3. CASE job.todo # <<"order_report">>
      <4>1. Len(job.todo) # 1
        <5>1. Len(job.todo) = 3 \/ Len(job.todo) = 2
          BY Zenon, <2>1, <3>3, DayOrders
        <5> QED  BY <5>1
      <4>2. job' = [job EXCEPT !.todo = Tail(@)]
        BY <1>2, <4>1
      <4>3. job'.pc = "move" /\ job'.todo = Tail(job.todo)
        BY <2>1, <3>1, <4>2
      <4> QED  BY <3>3, <4>3
    <3> QED  BY <3>2, <3>3
  <2>5. DayForm' /\ DayPlace' /\ NothingLost'
    <3>1. DayForm'
      BY <2>1, <2>2, <2>3 DEF DayInv, DayForm, Ids
    <3>2. DayPlace'
      BY <2>1, <2>4, DayOrders DEF DayPlace
    <3>3. NothingLost'
      BY <2>1 DEF DayInv, NothingLost
    <3> QED  BY <3>1, <3>2, <3>3
  <2>6. \A t \in Tables : /\ begun[t] \subseteq live[t] /\ begun[t] \subseteq Ids(t)
                          /\ t \notin ToSet(job.todo) \/ t = t0 => begun[t] \subseteq copied'[t]
    BY <2>1, <2>2 DEF DayInv, DayRows
  <2>7. DayRows'
    <3>1. CASE job'.pc = "move"
      <4>1. \A t \in Tables : t \notin ToSet(job'.todo) => t \notin ToSet(job.todo) \/ t = t0
        BY <2>1, <2>4, <3>1, DayOrders DEF Tables
      <4> QED  BY <2>1, <2>6, <3>1, <4>1 DEF DayRows, Ids
    <3>2. CASE job'.pc = "truncate"
      <4>1. \A t \in Tables : t \notin ToSet(job.todo) \/ t = t0
        BY <2>4, <3>2, DayOrders DEF Tables
      <4> QED  BY <2>1, <2>6, <3>2, <4>1 DEF DayRows, Ids
    <3> QED  BY <2>3, <3>1, <3>2
  <2>8. DayOnce'
    <3> SUFFICES ASSUME budget.faults = 0, NEW t \in Tables, NEW i \in Ids(t)
                 PROVE  /\ old[t][i] <= 1
                        /\ i \in copied'[t] => old[t][i] = 0
                        /\ i \in live[t] /\ (old[t][i] > 0 \/ (job'.pc = "truncate" /\ i \in copied'[t]))
                             => job'.pc = "truncate" /\ t \in ToSet(job'.todo)
      BY <2>1, <2>3 DEF DayOnce, InDayEnd, Ids
    <3>1. /\ old[t][i] <= 1 /\ old[t][i] \in Nat /\ (i \in copied[t] => i \in live[t])
          /\ i \in live[t] => ~(old[t][i] > 0)
      BY <2>1 DEF DayInv, DayOnce, DayForm
    <3> QED  BY <2>2, <2>4, <3>1, DayOrders
  <2> QED  BY <2>5, <2>7, <2>8 DEF DayInv
<1> QED  BY <1>1, <1>2 DEF MoveDbdata

LEMMA DayTruncate ==
    ASSUME DayInv, TruncateTable
    PROVE  DayInv'
<1> DEFINE t0 == Head(job.todo)
<1>1. CASE Fault /\ Abandon /\ old' \in {old, Archived} /\ UNCHANGED <<live, begun, stock, shares, unseen, disk>>
  BY <1>1, DayAbandon
<1>2. CASE /\ old' = Archived /\ copied' = [t \in ToSet(Table) |-> {}]
           /\ live' = [live EXCEPT ![t0] = {}]
           /\ job' = [job EXCEPT !.todo = Tail(@)]
           /\ UNCHANGED <<begun, holdings, files, view, budget, result>>
  <2>1. job.pc = "truncate" /\ UNCHANGED <<begun, budget>> /\ t0 \in Tables
        /\ job.todo \in {TruncateOrder, <<"order_match", "order_report">>, <<"order_report">>}
    BY <1>2, DayOrders DEF TruncateTable, DayInv, DayPlace, Tables
  <2>2. /\ live' = [t \in Tables |-> IF t = t0 THEN {} ELSE live[t]] /\ copied' = [t \in Tables |-> {}]
    BY <1>2, <2>1, TablesIs DEF DayInv, DayForm
  <2>3. old' = [t \in Tables |-> [i \in Ids(t) |-> old[t][i] + IF i \in copied[t] THEN 1 ELSE 0]]
    BY <1>2, TablesIs DEF Archived
  <2>4. JobRecord(job') /\ job'.pc = "truncate" /\ job'.todo = Tail(job.todo)
    BY <1>2, <2>1 DEF JobRecord, DayInv, DayForm
  <2>5. \A t \in Tables : \A i \in Ids(t) : old'[t][i] \in Nat /\ old[t][i] \in Nat
                               /\ old'[t][i] = old[t][i] + IF i \in copied[t] THEN 1 ELSE 0
    BY <2>3 DEF DayInv, DayForm
  <2>6. \A t \in Tables : \A i \in begun[t] : i \in Ids(t) /\ old'[t][i] > 0
    <3>1. \A t \in Tables : /\ begun[t] \subseteq Ids(t)
                            /\ begun[t] \subseteq copied[t] \/ \A i \in begun[t] : old[t][i] > 0
      BY <2>1 DEF DayInv, DayRows
    <3> QED  BY <2>5, <3>1
  <2>7. DayForm'
    <3>1. old' = [t \in Tables |-> [i \in Ids(t) |-> old'[t][i]]]
      BY <2>3
    <3>2. /\ live' = [t \in Tables |-> live'[t]] /\ copied' = [t \in Tables |-> copied'[t]]
          /\ \A t \in Tables : copied'[t] \subseteq live'[t] /\ live'[t] \subseteq Ids(t)
      BY <2>2 DEF DayInv, DayForm
    <3>3. budget' \in [requests : Nat, faults : Nat, syncs : Nat, late : Nat]
      BY <2>1 DEF DayInv, DayForm
    <3> QED  BY <2>4, <2>5, <3>1, <3>2, <3>3 DEF DayForm, Ids
  <2>8. DayPlace' /\ DayRows' /\ NothingLost'
    <3>1. DayPlace'
      BY <2>1, <2>4, DayOrders DEF DayPlace
    <3>2. DayRows' /\ NothingLost'
      BY <2>1, <2>4, <2>6, TablesIs DEF DayRows, NothingLost, Ids
    <3> QED  BY <3>1, <3>2
  <2>9. DayOnce'
    <3> SUFFICES ASSUME budget.faults = 0, NEW t \in Tables, NEW i \in Ids(t)
                 PROVE  old'[t][i] <= 1 /\ (i \in live'[t] /\ old'[t][i] > 0 => t \in ToSet(job'.todo))
      BY <2>1, <2>2, <2>4 DEF DayOnce, Ids
    <3>1. /\ old[t][i] <= 1 /\ (i \in copied[t] => old[t][i] = 0)
          /\ i \in live[t] /\ (old[t][i] > 0 \/ i \in copied[t]) => t \in ToSet(job.todo)
      BY <2>1 DEF DayInv, DayOnce
    <3>2. t \in ToSet(job.todo) => t \in ToSet(job'.todo) \/ t = t0
      BY <2>1, <2>4, DayOrders DEF Tables
    <3>3. old'[t][i] = (old[t][i] + IF i \in copied[t] THEN 1 ELSE 0) /\ old[t][i] \in Nat
      BY <2>5
    <3> QED  BY <2>2, <3>1, <3>2, <3>3
  <2> QED  BY <2>7, <2>8, <2>9 DEF DayInv
<1> QED  BY <1>1, <1>2 DEF TruncateTable

LEMMA DayReturn ==
    ASSUME DayInv, DayEnd_Return
    PROVE  DayInv'
<1>1. UNCHANGED <<live, old, copied, begun, budget>> /\ job.pc = "truncate" /\ job.todo = <<>>
      /\ JobRecord(job') /\ job'.pc = "idle"
  BY DEF DayEnd_Return, NoJob, JobRecord, tables
<1>2. DayForm' /\ DayPlace' /\ DayRows' /\ NothingLost'
  BY <1>1 DEF DayInv, DayForm, DayPlace, DayRows, NothingLost, Ids
<1>3. DayOnce'
  <2> SUFFICES ASSUME budget.faults = 0, NEW t \in Tables, NEW i \in Ids(t)
               PROVE  old[t][i] <= 1 /\ i \notin copied[t] /\ ~(i \in live[t] /\ old[t][i] > 0)
    BY <1>1 DEF DayOnce, InDayEnd, Ids
  <2>1. t \notin ToSet(job.todo)
    BY <1>1, DayOrders
  <2> QED  BY <1>1, <2>1 DEF DayInv, DayOnce, DayForm
<1> QED  BY <1>2, <1>3 DEF DayInv

\* What a step of a settlement does to the tables: nothing, whether it goes on
\* or gives the request up.
LEMMA SettleSteps ==
    ASSUME DayForm, Settle \/ \E c \in Syncs : StockSync(c[1], c[2])
    PROVE  \/ /\ UNCHANGED tables /\ JobRecord(job')
              /\ budget' \in [requests : Nat, faults : Nat, syncs : Nat, late : Nat] /\ budget.faults <= budget'.faults
              /\ job' = job \/ (~InDayEnd(job) /\ ~InDayEnd(job'))
           \/ Abandon /\ UNCHANGED <<live, old, begun>> /\ (Fault \/ (UNCHANGED budget /\ ~InDayEnd(job)))
<1>1. /\ job = [pc |-> job.pc, todo |-> job.todo, groups |-> job.groups, rows |-> job.rows, rc |-> job.rc]
      /\ budget \in [requests : Nat, faults : Nat, syncs : Nat, late : Nat]
  BY DEF DayForm, JobRecord
<1>2. ASSUME Fault
      PROVE  budget' \in [requests : Nat, faults : Nat, syncs : Nat, late : Nat] /\ budget.faults <= budget'.faults
  BY <1>1, <1>2 DEF Fault
<1>3. ASSUME NEW groups \in Requested, Simutgw_Settle(groups)
      PROVE  /\ UNCHANGED tables /\ JobRecord(job') /\ ~InDayEnd(job) /\ ~InDayEnd(job')
             /\ budget' \in [requests : Nat, faults : Nat, syncs : Nat, late : Nat] /\ budget.faults <= budget'.faults
  <2>1. budget' = [budget EXCEPT !.requests = @ + 1] /\ UNCHANGED tables /\ job.pc = "idle"
    BY <1>3 DEF Simutgw_Settle
  <2>2. job' = IF groups = {} THEN [NoJob EXCEPT !.pc = "groups"]
               ELSE [NoJob EXCEPT !.pc = "gen", !.groups = groups, !.todo = Steps(groups)]
    BY <1>3 DEF Simutgw_Settle
  <2>3. JobRecord(job') /\ job'.pc \in {"groups", "gen"}
    BY <2>2 DEF NoJob, JobRecord
  <2> QED  BY <1>1, <2>1, <2>3 DEF InDayEnd
<1>4. ASSUME NEW c \in Syncs, StockSync(c[1], c[2])
      PROVE  /\ UNCHANGED tables /\ job' = job
             /\ budget' \in [requests : Nat, faults : Nat, syncs : Nat, late : Nat] /\ budget.faults <= budget'.faults
  BY <1>1, <1>4 DEF StockSync
<1>5. ASSUME GetSettleGroupNames
      PROVE  /\ UNCHANGED tables /\ JobRecord(job') /\ ~InDayEnd(job) /\ ~InDayEnd(job')
             /\ budget' \in [requests : Nat, faults : Nat, syncs : Nat, late : Nat] /\ budget.faults <= budget'.faults
  <2>1. job.pc = "groups" /\ UNCHANGED tables /\ \E g, s : job' = [job EXCEPT !.pc = "gen", !.groups = g, !.todo = s]
    <3> DEFINE all == {Trades[i].group : i \in View.match}
    <3>1. \/ job' = [job EXCEPT !.pc = "gen", !.groups = all, !.todo = Steps(all)]
          \/ job' = [job EXCEPT !.pc = "gen", !.todo = Steps({})]
      BY <1>5 DEF GetSettleGroupNames
    <3>2. job.pc = "groups" /\ UNCHANGED tables
      BY <1>5 DEF GetSettleGroupNames
    <3>3. job' = [job EXCEPT !.pc = "gen", !.todo = Steps({})]
              => job' = [job EXCEPT !.pc = "gen", !.groups = job.groups, !.todo = Steps({})]
      BY <1>1
    <3> HIDE DEF all
    <3> QED  BY <3>1, <3>2, <3>3
  <2>2. JobRecord(job') /\ job'.pc = "gen"
    BY <1>1, <2>1 DEF JobRecord
  <2>3. Fault \/ UNCHANGED budget
    BY <1>5 DEF GetSettleGroupNames
  <2> QED  BY <1>1, <1>2, <2>1, <2>2, <2>3 DEF InDayEnd
<1>6. ASSUME Gen_Query
      PROVE  \/ UNCHANGED tables /\ JobRecord(job') /\ ~InDayEnd(job) /\ ~InDayEnd(job') /\ UNCHANGED budget
             \/ Abandon /\ UNCHANGED <<live, old, begun>> /\ Fault
  BY <1>1, <1>6 DEF Gen_Query, JobRecord, InDayEnd
<1>7. ASSUME Gen_Open \/ Gen_Skip \/ Append_Count
      PROVE  UNCHANGED tables /\ JobRecord(job') /\ ~InDayEnd(job) /\ ~InDayEnd(job') /\ UNCHANGED budget
  BY <1>1, <1>7 DEF Gen_Open, Gen_Skip, Append_Count, JobRecord, InDayEnd
<1>8. ASSUME Append_Blank \/ Append_Fill \/ Gen_Close
      PROVE  \/ UNCHANGED tables /\ JobRecord(job') /\ ~InDayEnd(job) /\ ~InDayEnd(job') /\ UNCHANGED budget
             \/ Abandon /\ UNCHANGED <<live, old, begun>> /\ (Fault \/ (UNCHANGED budget /\ ~InDayEnd(job)))
  BY <1>1, <1>8 DEF Append_Blank, Append_Fill, Gen_Close, JobRecord, InDayEnd
<1>9. ASSUME Stock_Read
      PROVE  \/ UNCHANGED tables /\ JobRecord(job') /\ ~InDayEnd(job) /\ ~InDayEnd(job') /\ UNCHANGED budget
             \/ Abandon /\ UNCHANGED <<live, old, begun>> /\ Fault
  BY <1>1, <1>9 DEF Stock_Read, JobRecord, InDayEnd
<1>10. ASSUME Stock_Update \/ Stock_Commit \/ Settle_Return
       PROVE  UNCHANGED tables /\ JobRecord(job') /\ ~InDayEnd(job) /\ ~InDayEnd(job') /\ (UNCHANGED budget \/ Fault)
  <2>1. CASE Stock_Update
    BY <1>1, <2>1 DEF Stock_Update, JobRecord, InDayEnd
  <2>2. CASE Stock_Commit
    BY <1>1, <2>2 DEF Stock_Commit, JobRecord, InDayEnd
  <2>3. CASE Settle_Return
    BY <1>1, <2>3 DEF Settle_Return, JobRecord, InDayEnd, NoJob
  <2> QED  BY <1>10, <2>1, <2>2, <2>3
<1> QED
  <2>1. UNCHANGED budget => budget' \in [requests : Nat, faults : Nat, syncs : Nat, late : Nat]
                           /\ budget.faults <= budget'.faults
    BY <1>1
  <2>2. CASE \E c \in Syncs : StockSync(c[1], c[2])
    BY <1>1, <1>4, <2>2 DEF JobRecord
  <2>3. CASE ProcReqMsg_SettleAccounts
    BY <1>3, <2>3 DEF ProcReqMsg_SettleAccounts
  <2> QED  BY <1>2, <1>5, <1>6, <1>7, <1>8, <1>9, <1>10, <2>1, <2>2, <2>3 DEF Settle

LEMMA DayStep == DayInv /\ [SettlementNext]_settlementVars => DayInv'
<1> SUFFICES ASSUME DayInv, [SettlementNext]_settlementVars PROVE DayInv'
  OBVIOUS
<1>1. CASE \E i \in Late : RecordTrade(i)
  BY <1>1, DayRecord
<1>2. CASE Settle \/ \E c \in Syncs : StockSync(c[1], c[2])
  <2>1. DayForm
    BY DEF DayInv
  <2> QED  BY <1>2, <2>1, SettleSteps, DayQuiet, DayAbandon
<1>3. CASE DayEnd
  BY <1>3, DayBegin, DayMove, DayTruncate, DayReturn DEF DayEnd, ProcReqMsg_DayEnd
<1>4. CASE Crash
  BY <1>4, DayAbandon DEF Crash
<1>5. CASE UNCHANGED settlementVars
  <2>1. UNCHANGED tables /\ job' = job /\ budget' = budget
    BY <1>5 DEF settlementVars, tables
  <2>2. JobRecord(job') /\ budget \in [requests : Nat, faults : Nat, syncs : Nat, late : Nat]
    BY <2>1 DEF DayInv, DayForm, JobRecord
  <2> QED  BY <2>1, <2>2, DayQuiet
<1> QED  BY <1>1, <1>2, <1>3, <1>4, <1>5 DEF SettlementNext, Others

\* The rows of the day and their copies, as the copies and the truncations go
\* through the tables in their two orders (MoveDbdata, TruncateTable).
THEOREM SettlementDayInvariant == SettlementSpec => []DayInv
BY DayInit, DayStep, PTL DEF SettlementSpec

\* The day end loses no row of the day, whichever statement fails and wherever
\* the program ends, and archives none twice unless one failed, for any number
\* of rows and requests and with trades recorded meanwhile (BackupDb).
THEOREM SettlementDayKept == SettlementSpec => []DayKept
<1>1. DayInv => DayKept
  <2> SUFFICES ASSUME DayInv PROVE DayKept
    OBVIOUS
  <2>1. NothingLost
    BY DEF DayInv
  <2>2. ArchivedOnce
    BY TablesIs DEF DayInv, DayOnce, ArchivedOnce
  <2> QED  BY <2>1, <2>2 DEF DayKept
<1> QED  BY <1>1, SettlementDayInvariant, PTL

-----------------------------------------------------------------------------
(* Settlement: the holdings                                                *)

\* The list of what a settlement does ends with both tables of holdings.
Planned(todo) ==
    /\ \E S : todo \in Seq(S)
    /\ \/ todo = <<<<"stock_etf_asset">>>>
       \/ /\ Len(todo) >= 2
          /\ todo[Len(todo) - 1] = <<"stock_asset">> /\ todo[Len(todo)] = <<"stock_etf_asset">>
          /\ \A k \in 1..(Len(todo) - 2) : IsGen(todo[k])

LEMMA DetailIsGen == \A g : \A k \in 1..5 : IsGen(DetailSteps(g)[k])
<1> SUFFICES ASSUME NEW g, NEW k \in 1..5 PROVE IsGen(DetailSteps(g)[k])
  OBVIOUS
<1>1. k = 1 \/ k = 2 \/ k = 3 \/ k = 4 \/ k = 5
  OBVIOUS
<1> QED  BY <1>1 DEF DetailSteps, IsGen

LEMMA StepsPlanned ==
    ASSUME NEW groups, IsFiniteSet(groups)
    PROVE  Planned(Steps(groups)) /\ Len(Steps(groups)) >= 4
<1> DEFINE n == Cardinality(groups)
           a == [k \in 1..5 * n |-> DetailSteps(SetToSeq(groups)[((k - 1) \div 5) + 1])[((k - 1) % 5) + 1]]
           b == <<<<"zqye">>, <<"SJSDZ">>, <<"stock_asset">>, <<"stock_etf_asset">>>>
           S == {a[k] : k \in 1..5 * n}
           U == S \cup ToSet(b)
<1>1. n \in Nat /\ 5 * n \in Nat
  BY FS_CardinalityType
<1>2. \A k \in 1..5 * n : ((k - 1) % 5) + 1 \in 1..5
  BY <1>1
<1>3. \A k \in 1..5 * n : IsGen(a[k])
  BY <1>2, DetailIsGen
<1>4. Steps(groups) = a \o b
  BY Zenon DEF Steps
<1>5. a \in Seq(S) /\ Len(a) = 5 * n
  <2> HIDE DEF n
  <2>1. a \in [1..5 * n -> S]
    OBVIOUS
  <2> HIDE DEF a, S
  <2> QED  BY <1>1, <2>1
<1>6. b \in Seq(ToSet(b)) /\ Len(b) = 4 /\ IsGen(b[1]) /\ IsGen(b[2])
      /\ b[3] = <<"stock_asset">> /\ b[4] = <<"stock_etf_asset">>
  BY DEF IsGen, ToSet
<1> HIDE DEF a, b, S
<1>7. a \in Seq(U) /\ b \in Seq(U)
  BY <1>5, <1>6
<1> HIDE DEF U, n
<1>8. /\ Steps(groups) \in Seq(U) /\ Len(Steps(groups)) = 5 * n + 4
      /\ \A k \in 1..(5 * n + 4) : Steps(groups)[k] = IF k <= 5 * n THEN a[k] ELSE b[k - 5 * n]
  <2>1. a \o b \in Seq(U) /\ Len(a \o b) = Len(a) + Len(b)
        /\ \A k \in 1..(Len(a) + Len(b)) : (a \o b)[k] = IF k <= Len(a) THEN a[k] ELSE b[k - Len(a)]
    BY <1>7, ConcatProperties
  <2> QED  BY <1>4, <1>5, <1>6, <2>1
<1>9. ASSUME NEW k \in 1..(5 * n + 2) PROVE IsGen(Steps(groups)[k])
  <2>1. CASE k <= 5 * n
    BY <1>1, <1>3, <1>8, <2>1
  <2>2. CASE k = 5 * n + 1
    BY <1>1, <1>6, <1>8, <2>2
  <2>3. CASE k = 5 * n + 2
    BY <1>1, <1>6, <1>8, <2>3
  <2> QED  BY <1>1, <2>1, <2>2, <2>3
<1>10. Steps(groups)[5 * n + 3] = <<"stock_asset">> /\ Steps(groups)[5 * n + 4] = <<"stock_etf_asset">>
  BY <1>1, <1>6, <1>8
<1>11. Len(Steps(groups)) - 1 = 5 * n + 3 /\ Len(Steps(groups)) - 2 = 5 * n + 2 /\ Len(Steps(groups)) >= 4
  BY <1>1, <1>8
<1>12. \E s : Steps(groups) \in Seq(s)
  BY <1>8
<1>13. \A k \in 1..(Len(Steps(groups)) - 2) : IsGen(Steps(groups)[k])
  BY <1>9, <1>11
<1>14. Steps(groups)[Len(Steps(groups)) - 1] = <<"stock_asset">> /\ Steps(groups)[Len(Steps(groups))] = <<"stock_etf_asset">>
  BY <1>8, <1>10, <1>11
<1> QED  BY <1>11, <1>12, <1>13, <1>14, SMTT(20) DEF Planned

LEMMA PlannedTail ==
    ASSUME NEW todo, Planned(todo), IsGen(Head(todo))
    PROVE  /\ Planned(Tail(todo)) /\ Len(Tail(todo)) = Len(todo) - 1 /\ Len(todo) >= 3 /\ Len(todo) \in Nat
           /\ Tail(todo) # <<<<"stock_etf_asset">>>>
<1>1. PICK S : todo \in Seq(S)
  BY DEF Planned
<1>2. todo # <<<<"stock_etf_asset">>>>
  BY DEF IsGen
<1>3. /\ Len(todo) >= 2 /\ Len(todo) \in Nat
      /\ todo[Len(todo) - 1] = <<"stock_asset">> /\ todo[Len(todo)] = <<"stock_etf_asset">>
      /\ \A k \in 1..(Len(todo) - 2) : IsGen(todo[k])
  BY <1>1, <1>2 DEF Planned
<1>4. Head(todo) = todo[1]
  BY <1>1
<1>5. Len(todo) # 2
  BY <1>3, <1>4 DEF IsGen
<1>6. /\ Tail(todo) \in Seq(S) /\ Len(Tail(todo)) = Len(todo) - 1
      /\ \A k \in 1..(Len(todo) - 1) : Tail(todo)[k] = todo[k + 1]
  BY <1>1, <1>3
<1>7. Planned(Tail(todo))
  BY <1>3, <1>5, <1>6 DEF Planned
<1>8. Tail(todo) # <<<<"stock_etf_asset">>>>
  <2>1. Len(<<<<"stock_etf_asset">>>>) = 1
    OBVIOUS
  <2>2. Len(Tail(todo)) # 1
    BY <1>3, <1>5, <1>6
  <2> QED  BY <2>1, <2>2
<1> QED  BY <1>3, <1>5, <1>6, <1>7, <1>8

\* What is left when the holdings are reached.
BothTables == <<<<"stock_asset">>, <<"stock_etf_asset">>>>
LastTable == <<<<"stock_etf_asset">>>>

LEMMA PlannedStock ==
    ASSUME NEW todo, Planned(todo), ~IsGen(Head(todo))
    PROVE  todo \in {BothTables, LastTable}
<1>1. PICK S : todo \in Seq(S)
  BY DEF Planned
<1>2. CASE todo # LastTable
  <2>1. /\ Len(todo) >= 2 /\ Len(todo) \in Nat
        /\ todo[Len(todo) - 1] = <<"stock_asset">> /\ todo[Len(todo)] = <<"stock_etf_asset">>
        /\ \A k \in 1..(Len(todo) - 2) : IsGen(todo[k])
    BY <1>1, <1>2 DEF Planned, LastTable
  <2>2. Head(todo) = todo[1]
    BY <1>1
  <2>3. Len(todo) = 2
    <3> DEFINE n == Len(todo)
    <3>1. n \in Nat /\ n >= 2 /\ \A k \in 1..(n - 2) : IsGen(todo[k])
      BY <2>1
    <3>2. ~IsGen(todo[1])
      BY <2>2
    <3> HIDE DEF n
    <3>3. n >= 3 => 1 \in 1..(n - 2)
      BY <3>1
    <3>4. ~(n >= 3)
      BY <3>1, <3>2, <3>3
    <3>5. n = 2
      BY <3>1, <3>4
    <3> QED  BY <3>5 DEF n
  <2>4. todo[1] = <<"stock_asset">> /\ todo[2] = <<"stock_etf_asset">>
    BY <2>1, <2>3
  <2> QED  BY <1>1, <2>3, <2>4 DEF BothTables
<1> QED  BY <1>2

LEMMA TablesLeft ==
    /\ Head(BothTables)[1] = "stock_asset" /\ Tail(BothTables) = LastTable /\ Len(BothTables) = 2
    /\ Head(LastTable)[1] = "stock_etf_asset" /\ Tail(LastTable) = <<>> /\ Len(LastTable) = 1
    /\ Planned(BothTables) /\ Planned(LastTable) /\ BothTables # LastTable
<1>1. BothTables \in Seq({<<"stock_asset">>, <<"stock_etf_asset">>}) /\ LastTable \in Seq({<<"stock_etf_asset">>})
  BY DEF BothTables, LastTable
<1>2. /\ Head(BothTables)[1] = "stock_asset" /\ Tail(BothTables) = LastTable /\ Len(BothTables) = 2
      /\ Head(LastTable)[1] = "stock_etf_asset" /\ Tail(LastTable) = <<>> /\ Len(LastTable) = 1
      /\ BothTables[1] = <<"stock_asset">> /\ BothTables[2] = <<"stock_etf_asset">>
  BY DEF BothTables, LastTable
<1>3. Planned(BothTables)
  BY <1>1, <1>2 DEF Planned
<1>4. Planned(LastTable)
  BY <1>1 DEF Planned, LastTable
<1>5. BothTables # LastTable
  BY <1>2
<1> QED  BY <1>2, <1>3, <1>4, <1>5

LEMMA LongNotLast == ASSUME NEW todo, Len(todo) >= 4 PROVE todo # LastTable
<1>1. ~(Len(LastTable) >= 4)
  BY TablesLeft
<1> QED  BY <1>1

HoldingIds == DOMAIN Holdings

\* A row of a holding, and one of which everything is available.
Right(rw, s) == rw \in StockRow /\ rw.table = Holdings[s].table /\ rw.market = Holdings[s].market
Freed(rw) == rw.avl = Total(rw) /\ rw.bal = Total(rw)

\* What a connection saw of the holdings has the shares they have now.
Known(st) == \A s \in HoldingIds : Right(st[s], s) /\ Total(st[s]) = Total(stock[s])

Available(tables_) == \A s \in HoldingIds : Holdings[s].table \in tables_ => Freed(stock[s])

Writing == {"open", "row", "count", "fill"}
Settling == Writing \cup {"gen", "stock"}

HoldForm ==
    /\ JobRecord(job) /\ stock \in [HoldingIds -> StockRow] /\ shares = [s \in HoldingIds |-> shares[s]]
    /\ view = [match |-> view.match, stock |-> view.stock, seen |-> view.seen]
    /\ result = [ok |-> result.ok, groups |-> result.groups, match |-> result.match,
                 stock |-> result.stock, disturbed |-> result.disturbed]
    /\ DOMAIN staged \subseteq HoldingIds

\* Every row has the shares of its holding, and so has one that a transaction has
\* written.  A row still to be written differs from the one that was read by what
\* its balance differs by, unless it was changed behind the condition.
HasShares(rw, s) == Right(rw, s) /\ (s \notin unseen => Total(rw) = shares[s])

HoldRows ==
    /\ \A s \in HoldingIds : HasShares(stock[s], s)
    /\ \A s \in DOMAIN staged : HasShares(staged[s], s) /\ Freed(staged[s])
    /\ job.pc = "stock" =>
         /\ job.rows \in Seq(HoldingIds) /\ \A s \in HoldingIds : Right(view.seen[s], s)
         /\ \A s \in ToSet(job.rows) : s \notin unseen =>
              Total(view.seen[s]) + stock[s].bal = Total(stock[s]) + view.seen[s].bal

\* Where a settlement is, and what its connections have seen.
HoldPlace ==
    /\ job.pc \in {"idle", "groups", "move", "truncate"} => view = NoView
    /\ job.pc \in Settling => Planned(job.todo)
    /\ job.pc = "stock" => ~IsGen(Head(job.todo))
    /\ job.pc # "stock" => staged = <<>>
    /\ result.ok => job.pc \in {"idle", "move", "truncate"}

\* How far the holdings are settled if nothing came between.
HoldDone ==
    result.disturbed
    \/ /\ job.pc \in Settling =>
            \/ job.pc = "gen" /\ view = NoView /\ Len(job.todo) >= 4
            \/ Known(view.stock)
       /\ job.pc \in Settling /\ job.todo = LastTable => Available({"stock_asset"})
       /\ job.pc = "stock" =>
            /\ stock = view.seen
            /\ \A s \in DOMAIN staged : Total(staged[s]) = Total(stock[s])
            /\ \A s \in HoldingIds : Holdings[s].table = Head(job.todo)[1] =>
                  s \in ToSet(job.rows) \/ s \in DOMAIN staged \/ Freed(stock[s])
       /\ job.pc = "settled" => Known(view.stock) /\ Available({"stock_asset", "stock_etf_asset"})
       /\ result.ok => Known(result.stock) /\ Available({"stock_asset", "stock_etf_asset"})

HoldInv == HoldForm /\ HoldRows /\ HoldPlace /\ HoldDone

LEMMA HoldInit == SettlementInit => HoldInv
<1> SUFFICES ASSUME SettlementInit PROVE HoldInv
  OBVIOUS
<1>1. /\ stock = Holdings /\ job = NoJob /\ view = NoView /\ staged = <<>> /\ result = NoResult
      /\ shares = [s \in HoldingIds |-> Total(Holdings[s])]
  BY DEF SettlementInit, HoldingIds
<1>2. HoldForm
  BY <1>1, SettlementAssumption DEF HoldForm, JobRecord, NoJob, NoView, NoResult, HoldingIds
<1>3. \A s \in HoldingIds : HasShares(stock[s], s)
  BY <1>1, SettlementAssumption DEF HasShares, Right, HoldingIds
<1>4. HoldRows
  BY <1>1, <1>3 DEF HoldRows, NoJob
<1>5. HoldPlace
  BY <1>1 DEF HoldPlace, NoJob, NoResult, Settling, Writing
<1>6. HoldDone
  BY <1>1 DEF HoldDone, NoJob, NoResult, Settling, Writing
<1> QED  BY <1>2, <1>4, <1>5, <1>6 DEF HoldInv

\* A request that is given up.
LEMMA HoldAbandon ==
    ASSUME HoldInv, Abandon, UNCHANGED <<stock, shares, unseen>>
    PROVE  HoldInv'
<1>1. /\ job' = NoJob /\ view' = NoView /\ staged' = <<>> /\ result'.disturbed = TRUE /\ result'.ok = result.ok
      /\ result' = [ok |-> result'.ok, groups |-> result'.groups, match |-> result'.match,
                    stock |-> result'.stock, disturbed |-> result'.disturbed]
  BY DEF Abandon, HoldInv, HoldForm
<1>2. HoldForm'
  BY <1>1 DEF HoldInv, HoldForm, JobRecord, NoJob, NoView, HoldingIds
<1>3. HoldRows'
  BY <1>1 DEF HoldInv, HoldRows, HasShares, Right, NoJob, HoldingIds
<1>4. HoldPlace' /\ HoldDone'
  BY <1>1 DEF HoldPlace, HoldDone, NoJob, Settling, Writing
<1> QED  BY <1>2, <1>3, <1>4 DEF HoldInv

\* A step that is not about holdings.
LEMMA HoldQuiet ==
    ASSUME HoldInv, UNCHANGED <<holdings, view, result>>, JobRecord(job'),
           \/ job' = job
           \/ job.pc \in Writing /\ job'.pc \in Writing \cup {"gen"} /\ job'.todo = job.todo
           \/ job.pc \in {"idle", "move", "truncate"} /\ job'.pc \in {"idle", "move", "truncate"}
    PROVE  HoldInv'
<1>1. UNCHANGED <<stock, staged, shares, unseen, view, result>>
  BY DEF holdings
<1>2. HoldForm'
  BY <1>1 DEF HoldInv, HoldForm, HoldingIds
<1>3. Known(view.stock)' = Known(view.stock) /\ Known(result.stock)' = Known(result.stock)
      /\ Available({"stock_asset"})' = Available({"stock_asset"})
      /\ Available({"stock_asset", "stock_etf_asset"})' = Available({"stock_asset", "stock_etf_asset"})
  BY <1>1 DEF Known, Right, Available, Freed, Total, HoldingIds
<1>4. HoldRows'
  BY <1>1 DEF HoldInv, HoldRows, HasShares, Right, Freed, Total, Writing, HoldingIds
<1>5. HoldPlace'
  BY <1>1 DEF HoldInv, HoldPlace, Writing, Settling
<1>6. HoldDone'
  BY <1>1, <1>3 DEF HoldInv, HoldDone, HoldPlace, Writing, Settling, HoldingIds, Freed, Total
<1> QED  BY <1>2, <1>4, <1>5, <1>6 DEF HoldInv

\* What a trade does to a row and to its shares.
LEMMA PlusIs ==
    ASSUME NEW s \in HoldingIds, NEW rw, Right(rw, s), NEW d \in Change, Plus(rw, d) \in StockRow
    PROVE  /\ Right(Plus(rw, d), s) /\ Plus(rw, d).bal = rw.bal + d.bal
           /\ Total(Plus(rw, d)) = Total(rw) + Total(d) /\ Total(rw) \in Nat /\ Total(d) \in Int
<1>1. /\ rw = [id |-> rw.id, table |-> rw.table, market |-> rw.market, bal |-> rw.bal, act |-> rw.act,
               stp |-> rw.stp, rdp |-> rw.rdp, avl |-> rw.avl]
      /\ rw.bal \in Nat /\ rw.act \in Nat /\ rw.stp \in Nat /\ rw.rdp \in Nat /\ rw.avl \in Nat
      /\ d.bal \in Int /\ d.act \in Int /\ d.stp \in Int /\ d.rdp \in Int /\ d.avl \in Int
  BY DEF StockRow, Right, Change
<1>2. Plus(rw, d) = [id |-> rw.id, table |-> rw.table, market |-> rw.market, bal |-> rw.bal + d.bal,
                     act |-> rw.act + d.act, stp |-> rw.stp + d.stp, rdp |-> rw.rdp + d.rdp, avl |-> rw.avl + d.avl]
  <2> DEFINE r1 == [rw EXCEPT !.bal = @ + d.bal]
             r2 == [r1 EXCEPT !.act = @ + d.act]
             r3 == [r2 EXCEPT !.stp = @ + d.stp]
             r4 == [r3 EXCEPT !.rdp = @ + d.rdp]
  <2>1. Plus(rw, d) = [r4 EXCEPT !.avl = @ + d.avl]
    BY DEF Plus
  <2> QED  BY <1>1, <2>1
<1>3. Right(Plus(rw, d), s) /\ Plus(rw, d).bal = rw.bal + d.bal
  BY <1>2 DEF Right
<1>4. Total(Plus(rw, d)) = (rw.act + d.act) + (rw.stp + d.stp) + (rw.rdp + d.rdp) + (rw.avl + d.avl)
  BY <1>2 DEF Total
<1> QED  BY <1>1, <1>3, <1>4 DEF Total

LEMMA HoldSync ==
    ASSUME HoldInv, NEW c \in Syncs, StockSync(c[1], c[2])
    PROVE  HoldInv'
<1> DEFINE s0 == c[1]
           d == c[2]
<1>1. s0 \in HoldingIds /\ d \in Change
  BY SettlementAssumption DEF HoldingIds
<1> HIDE DEF s0, d
<1>2. /\ s0 \notin DOMAIN staged /\ Plus(stock[s0], d) \in StockRow
      /\ stock' = [stock EXCEPT ![s0] = Plus(@, d)]
      /\ shares' = [shares EXCEPT ![s0] = @ + Total(d)]
      /\ unseen' = IF BehindCondition(s0, d) THEN unseen \cup {s0} ELSE unseen
      /\ result' = [result EXCEPT !.disturbed = TRUE]
      /\ UNCHANGED <<staged, job, view>>
  BY DEF StockSync, s0, d
<1>3. /\ result'.disturbed = TRUE /\ result'.ok = result.ok
      /\ result' = [ok |-> result'.ok, groups |-> result'.groups, match |-> result'.match,
                    stock |-> result'.stock, disturbed |-> result'.disturbed]
  BY <1>2 DEF HoldInv, HoldForm
<1>4. /\ stock \in [HoldingIds -> StockRow] /\ shares = [s \in HoldingIds |-> shares[s]]
      /\ \A s \in HoldingIds : Right(stock[s], s) /\ (s \notin unseen => Total(stock[s]) = shares[s])
  BY DEF HoldInv, HoldForm, HoldRows, HasShares
<1>5. /\ \A s \in HoldingIds \ {s0} : stock'[s] = stock[s] /\ shares'[s] = shares[s]
      /\ stock'[s0] = Plus(stock[s0], d) /\ shares'[s0] = shares[s0] + Total(d)
      /\ DOMAIN stock' = HoldingIds /\ shares' = [s \in HoldingIds |-> shares'[s]]
      /\ stock' = [s \in HoldingIds |-> stock'[s]]
  BY <1>1, <1>2, <1>4
<1>6. /\ Right(stock'[s0], s0) /\ stock'[s0].bal = stock[s0].bal + d.bal
      /\ Total(stock'[s0]) = Total(stock[s0]) + Total(d) /\ Total(stock[s0]) \in Nat /\ Total(d) \in Int
  BY <1>1, <1>2, <1>4, <1>5, PlusIs
<1>7. \A s \in HoldingIds : Right(stock'[s], s) /\ (s \notin unseen' => Total(stock'[s]) = shares'[s])
  <2> SUFFICES ASSUME NEW s \in HoldingIds
               PROVE  Right(stock'[s], s) /\ (s \notin unseen' => Total(stock'[s]) = shares'[s])
    OBVIOUS
  <2>1. s \notin unseen' => s \notin unseen
    BY <1>2
  <2>2. CASE s = s0
    BY <1>4, <1>5, <1>6, <2>1, <2>2
  <2>3. CASE s # s0
    <3>1. stock'[s] = stock[s] /\ shares'[s] = shares[s]
      BY <1>5, <2>3
    <3> QED  BY <1>4, <2>1, <3>1
  <2> QED  BY <2>2, <2>3
<1>8. HoldForm'
  <2>1. stock' \in [HoldingIds -> StockRow]
    BY <1>5, <1>7 DEF Right
  <2> QED  BY <1>2, <1>3, <1>5, <2>1 DEF HoldInv, HoldForm, JobRecord, HoldingIds
<1>9. \A s \in DOMAIN staged : Right(staged[s], s) /\ Freed(staged[s]) /\ (s \notin unseen' => Total(staged[s]) = shares'[s])
  <2> SUFFICES ASSUME NEW s \in DOMAIN staged
               PROVE  Right(staged[s], s) /\ Freed(staged[s]) /\ (s \notin unseen' => Total(staged[s]) = shares'[s])
    OBVIOUS
  <2>1. s # s0 /\ s \in HoldingIds
    BY <1>2 DEF HoldInv, HoldForm
  <2>2. shares'[s] = shares[s] /\ (s \notin unseen' => s \notin unseen)
    BY <1>2, <1>5, <2>1
  <2> QED  BY <2>2 DEF HoldInv, HoldRows, HasShares
<1>10. ASSUME job.pc = "stock", NEW s \in ToSet(job.rows), s \notin unseen'
       PROVE  Total(view.seen[s]) + stock'[s].bal = Total(stock'[s]) + view.seen[s].bal
  <2>1. /\ s \notin unseen /\ s \in HoldingIds /\ Right(view.seen[s], s)
        /\ Total(view.seen[s]) + stock[s].bal = Total(stock[s]) + view.seen[s].bal
    <3>1. s \in HoldingIds
      BY <1>10 DEF HoldInv, HoldRows, ToSet
    <3> QED  BY <1>2, <1>10, <3>1 DEF HoldInv, HoldRows
  <2>2. CASE s # s0
    <3>1. stock'[s] = stock[s]
      BY <1>5, <2>1, <2>2
    <3> QED  BY <2>1, <3>1
  <2>3. CASE s = s0
    <3>1. d.bal = Total(d)
      BY <1>2, <1>10, <2>3 DEF BehindCondition
    <3>2. /\ view.seen[s].bal \in Nat /\ Total(view.seen[s]) \in Nat /\ stock[s].bal \in Nat
      BY <1>4, <2>1 DEF Right, StockRow, Total
    <3> QED  BY <1>6, <2>1, <2>3, <3>1, <3>2
  <2> QED  BY <2>2, <2>3
<1>11. HoldRows'
  <2>1. \A s \in HoldingIds : HasShares(stock[s], s)'
    BY <1>7 DEF HasShares, Right, HoldingIds
  <2>2. \A s \in DOMAIN staged : HasShares(staged[s], s)' /\ Freed(staged[s])'
    BY <1>2, <1>9 DEF HasShares, Right, Freed, Total
  <2>3. job.pc = "stock" => job.rows \in Seq(HoldingIds) /\ \A s \in HoldingIds : Right(view.seen[s], s)
    BY DEF HoldInv, HoldRows
  <2> QED  BY <1>2, <1>10, <2>1, <2>2, <2>3 DEF HoldRows, Right, HasShares, Freed, Total, HoldingIds
<1>12. HoldPlace' /\ HoldDone'
  BY <1>2, <1>3 DEF HoldInv, HoldPlace, HoldDone
<1> QED  BY <1>8, <1>11, <1>12 DEF HoldInv

LEMMA HoldBegin ==
    ASSUME HoldInv, NEW groups \in Requested, Simutgw_Settle(groups)
    PROVE  HoldInv'
<1>1. /\ job.pc = "idle" /\ UNCHANGED <<stock, staged, shares, unseen, view>> /\ result' = NoResult /\ view = NoView
      /\ job' = IF groups = {} THEN [NoJob EXCEPT !.pc = "groups"]
                ELSE [NoJob EXCEPT !.pc = "gen", !.groups = groups, !.todo = Steps(groups)]
  BY DEF Simutgw_Settle, holdings, HoldInv, HoldPlace
<1>2. /\ JobRecord(job') /\ job'.pc \in {"groups", "gen"}
      /\ job'.pc = "gen" => job'.todo = Steps(groups)
  BY <1>1 DEF NoJob, JobRecord
<1>3. Planned(Steps(groups)) /\ Len(Steps(groups)) >= 4 /\ Steps(groups) # LastTable
  <2>1. Planned(Steps(groups)) /\ Len(Steps(groups)) >= 4
    BY StepsPlanned, SettlementAssumption
  <2>2. Steps(groups) # LastTable
    BY <2>1, LongNotLast
  <2> QED  BY <2>1, <2>2
<1>4. HoldForm'
  BY <1>1, <1>2 DEF HoldInv, HoldForm, NoResult, HoldingIds
<1>5. HoldRows'
  BY <1>1, <1>2 DEF HoldInv, HoldRows, HasShares, Right, Freed, Total, HoldingIds
<1>6. HoldPlace'
  BY <1>1, <1>2, <1>3 DEF HoldInv, HoldPlace, NoResult, Settling, Writing
<1>7. HoldDone'
  BY <1>1, <1>2, <1>3 DEF HoldDone, NoResult, Settling, Writing
<1> QED  BY <1>4, <1>5, <1>6, <1>7 DEF HoldInv

\* What a connection reads first is right.
LEMMA HoldView ==
    ASSUME HoldInv, HoldRows, result.disturbed \/ Known(view.stock) \/ view = NoView
    PROVE  /\ View = [match |-> View.match, stock |-> View.stock, seen |-> View.seen]
           /\ result.disturbed \/ Known(View.stock)
<1>1. View.stock = IF view = NoView THEN stock ELSE view.stock
  BY DEF View
<1>2. View = [match |-> View.match, stock |-> View.stock, seen |-> View.seen]
  BY DEF View, HoldInv, HoldForm
<1>3. Known(stock)
  BY DEF HoldRows, Known, HasShares
<1> QED  BY <1>1, <1>2, <1>3

LEMMA HoldGroups ==
    ASSUME DayForm, HoldInv, GetSettleGroupNames
    PROVE  HoldInv'
<1> DEFINE all == {Trades[i].group : i \in View.match}
<1>1. /\ job.pc = "groups" /\ view = NoView /\ UNCHANGED <<stock, staged, shares, unseen, result>>
      /\ \/ job' = [job EXCEPT !.pc = "gen", !.groups = all, !.todo = Steps(all)] /\ view' = View
         \/ job' = [job EXCEPT !.pc = "gen", !.todo = Steps({})] /\ view' = view
      /\ ~result.ok
  BY DEF GetSettleGroupNames, holdings, HoldInv, HoldPlace
<1>2. IsFiniteSet(all)
  <2>1. View.match = live["order_match"]
    BY <1>1 DEF View
  <2>2. View.match \in SUBSET DOMAIN Trades
    BY <2>1 DEF DayForm, Ids, Tables
  <2>3. IsFiniteSet(View.match)
    BY <2>2, FS_Subset, SettlementAssumption
  <2> DEFINE M == View.match
             f == [i \in M |-> Trades[i].group]
  <2>4. f \in Surjection(M, all)
    BY DEF Surjection
  <2> HIDE DEF f, M, all
  <2> QED  BY ONLY <2>3, <2>4, FS_Surjection DEF M
<1>3. PICK groups : /\ IsFiniteSet(groups) /\ JobRecord(job') /\ job'.pc = "gen" /\ job'.todo = Steps(groups)
                    /\ view' = View \/ view' = view
  <2> HIDE DEF all
  <2>1. CASE job' = [job EXCEPT !.pc = "gen", !.groups = all, !.todo = Steps(all)] /\ view' = View
    BY <1>2, <2>1 DEF HoldInv, HoldForm, JobRecord
  <2>2. CASE job' = [job EXCEPT !.pc = "gen", !.todo = Steps({})] /\ view' = view
    BY <2>2, FS_EmptySet DEF HoldInv, HoldForm, JobRecord
  <2> QED  BY <1>1, <2>1, <2>2
<1>4. Planned(job'.todo) /\ Len(job'.todo) >= 4 /\ job'.todo # LastTable
  <2>1. Planned(Steps(groups)) /\ Len(Steps(groups)) >= 4
    BY <1>3, StepsPlanned
  <2> QED  BY <1>3, <2>1, LongNotLast
<1>5. /\ view' = [match |-> view'.match, stock |-> view'.stock, seen |-> view'.seen]
      /\ view' = NoView \/ result.disturbed \/ Known(view'.stock)
  BY <1>1, <1>3, HoldView DEF HoldInv, HoldForm
<1>6. HoldForm'
  BY <1>1, <1>3, <1>5 DEF HoldInv, HoldForm, HoldingIds
<1>7. Known(view.stock)' = Known(view'.stock)
  BY <1>1 DEF Known, Right, Total, HoldingIds
<1>8. HoldRows'
  BY <1>1, <1>3 DEF HoldInv, HoldRows, HasShares, Right, Freed, Total, HoldingIds
<1>9. HoldPlace'
  BY <1>1, <1>3, <1>4 DEF HoldInv, HoldPlace, Settling, Writing
<1>10. HoldDone'
  BY <1>1, <1>3, <1>4, <1>5, <1>7 DEF HoldDone, Settling, Writing
<1> QED  BY <1>6, <1>8, <1>9, <1>10 DEF HoldInv

LEMMA HoldQuery ==
    ASSUME HoldInv, Gen_Query
    PROVE  HoldInv'
<1>1. CASE Abandon /\ UNCHANGED <<stock, shares, unseen>>
  BY <1>1, HoldAbandon
<1>2. CASE /\ view' = View /\ UNCHANGED <<holdings, result>>
           /\ job' = [job EXCEPT !.pc = IF out' = <<>> THEN "gen" ELSE "open", !.todo = Tail(@)]
  <2>1. /\ job.pc = "gen" /\ Planned(job.todo) /\ IsGen(Head(job.todo)) /\ ~result.ok
        /\ UNCHANGED <<stock, staged, shares, unseen, result>>
    BY <1>2 DEF Gen_Query, HoldInv, HoldPlace, Settling, holdings
  <2>2. JobRecord(job') /\ job'.pc \in {"gen", "open"} /\ job'.todo = Tail(job.todo)
    BY <1>2 DEF HoldInv, HoldForm, JobRecord
  <2>3. Planned(job'.todo) /\ job'.todo # LastTable
    BY <2>1, <2>2, PlannedTail DEF LastTable
  <2>4. result.disturbed \/ Known(view.stock) \/ view = NoView
    BY <2>1 DEF HoldInv, HoldDone, Settling
  <2>5. /\ view' = [match |-> view'.match, stock |-> view'.stock, seen |-> view'.seen]
        /\ result.disturbed \/ Known(view'.stock)
    BY <1>2, <2>4, HoldView DEF HoldInv
  <2>6. HoldForm'
    BY <2>1, <2>2, <2>5 DEF HoldInv, HoldForm, HoldingIds
  <2>7. Known(view.stock)' = Known(view'.stock)
    BY <2>1 DEF Known, Right, Total, HoldingIds
  <2>8. HoldRows'
    BY <2>1, <2>2 DEF HoldInv, HoldRows, HasShares, Right, Freed, Total, HoldingIds
  <2>9. HoldPlace'
    BY <2>1, <2>2, <2>3 DEF HoldInv, HoldPlace, Settling, Writing
  <2>10. HoldDone'
    BY <2>1, <2>2, <2>3, <2>5, <2>7 DEF HoldDone, Settling, Writing
  <2> QED  BY <2>6, <2>8, <2>9, <2>10 DEF HoldInv
<1> QED  BY <1>1, <1>2 DEF Gen_Query

\* The files.
LEMMA HoldFiles ==
    ASSUME HoldInv, Gen_Open \/ Gen_Skip \/ Append_Blank \/ Append_Count \/ Append_Fill \/ Gen_Close
    PROVE  HoldInv'
<1>1. JobRecord(job)
  BY DEF HoldInv, HoldForm
<1> DEFINE on == /\ UNCHANGED <<holdings, view, result>> /\ JobRecord(job')
                 /\ job.pc \in Writing /\ job'.pc \in Writing \cup {"gen"} /\ job'.todo = job.todo
<1>2. CASE Gen_Open
  <2>1. on
    BY <1>1, <1>2 DEF Gen_Open, JobRecord, Writing
  <2> QED  BY <2>1, HoldQuiet
<1>3. CASE Gen_Skip
  <2>1. on
    BY <1>1, <1>3 DEF Gen_Skip, JobRecord, Writing
  <2> QED  BY <2>1, HoldQuiet
<1>4. CASE Append_Blank
  <2>1. on \/ (Abandon /\ UNCHANGED <<stock, shares, unseen>>)
    BY <1>1, <1>4 DEF Append_Blank, JobRecord, Writing
  <2> QED  BY <2>1, HoldQuiet, HoldAbandon
<1>5. CASE Append_Count
  <2>1. on
    BY <1>1, <1>5 DEF Append_Count, JobRecord, Writing
  <2> QED  BY <2>1, HoldQuiet
<1>6. CASE Append_Fill
  <2>1. on \/ (Abandon /\ UNCHANGED <<stock, shares, unseen>>)
    BY <1>1, <1>6 DEF Append_Fill, JobRecord, Writing
  <2> QED  BY <2>1, HoldQuiet, HoldAbandon
<1>7. CASE Gen_Close
  <2>1. on \/ (Abandon /\ UNCHANGED <<stock, shares, unseen>>)
    BY <1>1, <1>7 DEF Gen_Close, JobRecord, Writing
  <2> QED  BY <2>1, HoldQuiet, HoldAbandon
<1> QED  BY <1>2, <1>3, <1>4, <1>5, <1>6, <1>7

\* Every row that has to be settled is listed.
LEMMA HoldRead ==
    ASSUME HoldInv, Stock_Read
    PROVE  HoldInv'
<1> DEFINE todo == job.todo
           need == {s \in DOMAIN stock : stock[s].table = Head(todo)[1] /\ NeedsSettling(stock[s])}
<1>1. CASE Abandon /\ UNCHANGED <<stock, shares, unseen>>
  BY <1>1, HoldAbandon
<1>2. CASE /\ job' = [job EXCEPT !.pc = "stock", !.rows = Ascending(need)]
           /\ view' = [view EXCEPT !.seen = stock] /\ UNCHANGED <<holdings, result>>
  <2>1. /\ job.pc = "gen" /\ Planned(todo) /\ ~IsGen(Head(todo)) /\ ~result.ok
        /\ UNCHANGED <<stock, staged, shares, unseen, result>> /\ todo \in {BothTables, LastTable}
    BY <1>2, PlannedStock DEF Stock_Read, HoldInv, HoldPlace, Settling, holdings
  <2>2. /\ DOMAIN stock = HoldingIds /\ \A s \in HoldingIds : Right(stock[s], s)
    BY DEF HoldInv, HoldForm, HoldRows, HasShares
  <2>3. Ascending(need) \in Seq(HoldingIds) /\ ToSet(Ascending(need)) = need
    <3>1. need \in SUBSET HoldingIds /\ HoldingIds \in SUBSET Nat /\ IsFiniteSet(HoldingIds)
      BY <2>2, SettlementAssumption DEF HoldingIds
    <3> HIDE DEF need
    <3>2. need \in SUBSET Nat /\ IsFiniteSet(need)
      BY <3>1, FS_Subset
    <3>3. Ascending(need) \in Seq(need) /\ ToSet(Ascending(need)) = need
      <4>1. /\ Ascending(need) \in Seq(need) /\ Len(Ascending(need)) = Cardinality(need)
            /\ {Ascending(need)[k] : k \in 1..Cardinality(need)} = need
        BY <3>2, AscendingIs
      <4> QED  BY <4>1 DEF ToSet
    <3>4. \A S, T : S \subseteq T => Seq(S) \subseteq Seq(T)
      OBVIOUS
    <3> QED  BY <3>1, <3>3, <3>4
  <2>4. /\ JobRecord(job') /\ job'.pc = "stock" /\ job'.todo = todo /\ job'.rows = Ascending(need)
        /\ view'.seen = stock /\ view'.stock = view.stock
        /\ view' = [match |-> view'.match, stock |-> view'.stock, seen |-> view'.seen]
    <3> HIDE DEF need
    <3> QED  BY <1>2 DEF HoldInv, HoldForm, JobRecord
  <2>5. \A s \in HoldingIds : Holdings[s].table = Head(todo)[1] => s \in need \/ Freed(stock[s])
    <3> SUFFICES ASSUME NEW s \in HoldingIds, Holdings[s].table = Head(todo)[1], ~NeedsSettling(stock[s])
                 PROVE  Freed(stock[s])
      BY <2>2 DEF Right
    <3>1. stock[s].avl \in Nat
      BY <2>2 DEF Right, StockRow
    <3> QED  BY <3>1 DEF NeedsSettling, Freed, Total
  <2> HIDE DEF need
  <2>6. result.disturbed \/ Known(view.stock)
    <3>1. ~(Len(todo) >= 4)
      BY <2>1, TablesLeft
    <3> QED  BY <2>1, <3>1 DEF HoldInv, HoldDone, Settling
  <2>7. HoldForm'
    BY <2>1, <2>4 DEF HoldInv, HoldForm, HoldingIds
  <2>8. Known(view.stock)' = Known(view.stock)
        /\ Available({"stock_asset"})' = Available({"stock_asset"})
    BY <2>1, <2>4 DEF Known, Right, HoldingIds, Available, Freed, Total
  <2>9. HoldRows'
    BY <2>1, <2>2, <2>3, <2>4 DEF HoldInv, HoldRows, HasShares, Right, Freed, Total, HoldingIds
  <2>10. HoldPlace'
    BY <2>1, <2>4 DEF HoldPlace, Settling, Writing
  <2>11. HoldDone'
    <3>1. result.disturbed \/ (todo = LastTable => Available({"stock_asset"}))
      BY <2>1 DEF HoldInv, HoldDone, Settling
    <3>2. \A s \in HoldingIds : Holdings[s].table = Head(job'.todo)[1] =>
             s \in ToSet(job'.rows) \/ s \in DOMAIN staged' \/ Freed(stock[s])'
      BY <2>1, <2>3, <2>4, <2>5 DEF Freed, Total
    <3>3. DOMAIN staged' = {}
      BY <2>1 DEF HoldInv, HoldPlace
    <3> QED  BY <2>1, <2>4, <2>6, <2>8, <3>1, <3>2, <3>3 DEF HoldDone, Settling, HoldingIds, Freed, Total
  <2> QED  BY <2>7, <2>9, <2>10, <2>11 DEF HoldInv
<1> QED  BY <1>1, <1>2 DEF Stock_Read

\* What is written for a row.
LEMMA SettledIs ==
    ASSUME NEW s \in HoldingIds, NEW rw, Right(rw, s)
    PROVE  Right(SettledRow(rw), s) /\ Freed(SettledRow(rw)) /\ Total(SettledRow(rw)) = Total(rw)
<1>1. rw \in StockRow /\ Total(rw) \in Nat
  BY DEF Right, StockRow, Total
<1>2. /\ SettledRow(rw) \in StockRow /\ SettledRow(rw).table = rw.table /\ SettledRow(rw).market = rw.market
      /\ SettledRow(rw).bal = Total(rw) /\ SettledRow(rw).avl = Total(rw)
      /\ SettledRow(rw).act = 0 /\ SettledRow(rw).stp = 0 /\ SettledRow(rw).rdp = 0
  BY <1>1 DEF SettledRow, StockRow
<1>3. Total(SettledRow(rw)) = Total(rw)
  BY <1>1, <1>2 DEF Total
<1> QED  BY <1>2, <1>3 DEF Right, Freed

LEMMA HoldUpdate ==
    ASSUME HoldInv, Stock_Update
    PROVE  HoldInv'
<1> DEFINE s0 == Head(job.rows)
           seen == view.seen[s0]
<1>1. /\ job.pc = "stock" /\ job.rows # <<>> /\ job.rows \in Seq(HoldingIds) /\ s0 \in HoldingIds /\ Right(seen, s0)
      /\ UNCHANGED <<stock, shares, unseen, view>> /\ job' = [job EXCEPT !.rows = Tail(@)] /\ ~result.ok
  BY DEF Stock_Update, HoldInv, HoldRows, HoldPlace
<1>2. /\ JobRecord(job') /\ job'.pc = "stock" /\ job'.todo = job.todo /\ job'.rows = Tail(job.rows)
      /\ job'.rows \in Seq(HoldingIds) /\ ToSet(job.rows) \subseteq ToSet(job'.rows) \cup {s0}
      /\ ToSet(job'.rows) \subseteq ToSet(job.rows) /\ s0 \in ToSet(job.rows)
  <2>1. JobRecord(job') /\ job'.pc = "stock" /\ job'.todo = job.todo /\ job'.rows = Tail(job.rows)
    BY <1>1 DEF HoldInv, HoldForm, JobRecord
  <2>2. Tail(job.rows) \in Seq(HoldingIds)
    BY <1>1
  <2>3. \A k \in 1..Len(job.rows) : k = 1 \/ (k - 1 \in 1..Len(Tail(job.rows)) /\ Tail(job.rows)[k - 1] = job.rows[k])
    BY <1>1
  <2>4. ToSet(job.rows) \subseteq ToSet(Tail(job.rows)) \cup {s0}
    <3>1. DOMAIN job.rows = 1..Len(job.rows) /\ DOMAIN Tail(job.rows) = 1..Len(Tail(job.rows)) /\ s0 = job.rows[1]
      BY <1>1, <2>2
    <3>2. ASSUME NEW k \in DOMAIN job.rows PROVE job.rows[k] \in ToSet(Tail(job.rows)) \cup {s0}
      <4>1. CASE k = 1
        BY <3>1, <4>1
      <4>2. CASE k # 1
        BY <2>3, <3>1, <4>2 DEF ToSet
      <4> QED  BY <4>1, <4>2
    <3> QED  BY <3>2 DEF ToSet
  <2>5. ToSet(Tail(job.rows)) \subseteq ToSet(job.rows) /\ s0 \in ToSet(job.rows)
    <3>1. /\ DOMAIN job.rows = 1..Len(job.rows) /\ DOMAIN Tail(job.rows) = 1..(Len(job.rows) - 1)
          /\ s0 = job.rows[1] /\ Len(job.rows) \in Nat \ {0}
          /\ \A k \in 1..(Len(job.rows) - 1) : Tail(job.rows)[k] = job.rows[k + 1]
      BY <1>1, <2>2
    <3> QED  BY <3>1 DEF ToSet
  <2> QED  BY <2>1, <2>2, <2>4, <2>5
<1>3. /\ result'.ok = result.ok /\ (result'.disturbed = TRUE \/ result' = result)
      /\ result' = [ok |-> result'.ok, groups |-> result'.groups, match |-> result'.match,
                    stock |-> result'.stock, disturbed |-> result'.disturbed]
  BY DEF Stock_Update, HoldInv, HoldForm
<1>4. \/ Unchanged(stock[s0], seen) /\ staged' = [x \in {s0} \cup DOMAIN staged |-> IF x = s0 THEN SettledRow(seen) ELSE staged[x]] /\ result' = result
      \/ ~Unchanged(stock[s0], seen) /\ staged' = staged /\ result' = result
      \/ staged' = staged /\ result'.disturbed = TRUE
  BY DEF Stock_Update, HoldInv, HoldForm
<1>5. /\ \A s \in HoldingIds : HasShares(stock[s], s)
      /\ \A s \in DOMAIN staged : s \in HoldingIds /\ HasShares(staged[s], s) /\ Freed(staged[s])
      /\ \A s \in ToSet(job.rows) : s \notin unseen =>
           Total(view.seen[s]) + stock[s].bal = Total(stock[s]) + view.seen[s].bal
  BY <1>1 DEF HoldInv, HoldForm, HoldRows
<1>6. \A s \in DOMAIN staged' : s \in HoldingIds /\ HasShares(staged'[s], s) /\ Freed(staged'[s])
  <2>1. CASE Unchanged(stock[s0], seen) /\ staged' = [x \in {s0} \cup DOMAIN staged |-> IF x = s0 THEN SettledRow(seen) ELSE staged[x]]
    <3>1. /\ DOMAIN staged' = DOMAIN staged \cup {s0}
          /\ staged'[s0] = SettledRow(seen) /\ \A s \in DOMAIN staged \ {s0} : staged'[s] = staged[s]
      BY <2>1
    <3>2. s0 \notin unseen => Total(seen) = shares[s0]
      <4>1. s0 \notin unseen => Total(seen) + stock[s0].bal = Total(stock[s0]) + seen.bal
        BY <1>2, <1>5
      <4>2. Total(seen) \in Nat /\ Total(stock[s0]) \in Nat /\ stock[s0].bal \in Nat /\ seen.bal \in Nat
        <5>1. \A rw : Right(rw, s0) => rw.bal \in Nat /\ Total(rw) \in Nat
          BY DEF Right, StockRow, Total
        <5> QED  BY <1>1, <1>5, <5>1 DEF HasShares
      <4>3. seen.bal = stock[s0].bal
        BY <2>1 DEF Unchanged
      <4> QED  BY <1>1, <1>5, <4>1, <4>2, <4>3 DEF HasShares
    <3>3. HasShares(SettledRow(seen), s0) /\ Freed(SettledRow(seen))
      BY <1>1, <3>2, SettledIs DEF HasShares
    <3> HIDE DEF s0, seen
    <3> QED  BY <1>1, <1>5, <3>1, <3>3
  <2> QED  BY <1>4, <1>5, <2>1
<1>7. HoldForm'
  <2>1. DOMAIN staged' \subseteq HoldingIds
    BY <1>6
  <2> QED  BY <1>1, <1>2, <1>3, <2>1 DEF HoldInv, HoldForm, HoldingIds
<1>8. /\ Known(view.stock)' = Known(view.stock)
      /\ Available({"stock_asset"})' = Available({"stock_asset"})
  BY <1>1 DEF Known, Right, HoldingIds, Available, Freed, Total
<1>9. HoldRows'
  BY <1>1, <1>2, <1>5, <1>6 DEF HoldInv, HoldRows, HasShares, Right, Freed, Total, HoldingIds
<1>10. HoldPlace'
  BY <1>1, <1>2, <1>3 DEF HoldInv, HoldPlace, Settling, Writing
<1>11. HoldDone'
  <2>1. CASE result'.disturbed = TRUE
    BY <2>1 DEF HoldDone
  <2>2. CASE result' = result /\ ~result.disturbed
    <3>1. /\ Known(view.stock) /\ (job.todo = LastTable => Available({"stock_asset"})) /\ stock = view.seen
          /\ \A s \in DOMAIN staged : Total(staged[s]) = Total(stock[s])
          /\ \A s \in HoldingIds : Holdings[s].table = Head(job.todo)[1] =>
                s \in ToSet(job.rows) \/ s \in DOMAIN staged \/ Freed(stock[s])
      BY <1>1, <2>2 DEF HoldInv, HoldDone, Settling
    <3>2. Unchanged(stock[s0], seen)
      BY <3>1 DEF Unchanged
    <3>3. DOMAIN staged' = DOMAIN staged \cup {s0} /\ \A s \in DOMAIN staged' : Total(staged'[s]) = Total(stock[s])
      <4>1. staged' = [x \in {s0} \cup DOMAIN staged |-> IF x = s0 THEN SettledRow(seen) ELSE staged[x]]
        BY <1>3, <1>4, <2>2, <3>2
      <4>2. Total(SettledRow(seen)) = Total(stock[s0])
        BY <1>1, <3>1, SettledIs
      <4> HIDE DEF s0, seen
      <4> QED  BY <3>1, <4>1, <4>2
    <3> HIDE DEF s0, seen
    <3>4. \A s \in HoldingIds : Holdings[s].table = Head(job'.todo)[1] =>
             s \in ToSet(job'.rows) \/ s \in DOMAIN staged' \/ Freed(stock[s])
      BY <1>1, <1>2, <3>1, <3>3
    <3>5. stock' = view'.seen /\ ~result'.ok
      BY <1>1, <2>2, <3>1
    <3> QED  BY <1>1, <1>2, <1>8, <3>1, <3>3, <3>4, <3>5 DEF HoldDone, Settling, HoldingIds, Freed, Total
  <2> QED  BY <1>3, <2>1, <2>2
<1> QED  BY <1>7, <1>9, <1>10, <1>11 DEF HoldInv

LEMMA HoldCommit ==
    ASSUME HoldInv, Stock_Commit
    PROVE  HoldInv'
<1>1. /\ job.pc = "stock" /\ job.rows = <<>> /\ UNCHANGED <<shares, unseen, view>> /\ staged' = <<>> /\ ~result.ok
      /\ job' = [job EXCEPT !.pc = IF Len(job.todo) = 1 THEN "settled" ELSE "gen", !.todo = Tail(@)]
      /\ job.todo \in {BothTables, LastTable}
  BY PlannedStock DEF Stock_Commit, HoldInv, HoldPlace, Settling
<1>2. /\ JobRecord(job') /\ job'.todo = Tail(job.todo)
      /\ job.todo = BothTables => job'.pc = "gen" /\ job'.todo = LastTable
      /\ job.todo = LastTable => job'.pc = "settled"
  <2>1. job = [pc |-> job.pc, todo |-> job.todo, groups |-> job.groups, rows |-> job.rows, rc |-> job.rc]
    BY DEF HoldInv, HoldForm, JobRecord
  <2>2. /\ JobRecord(job') /\ job'.todo = Tail(job.todo)
        /\ job'.pc = IF Len(job.todo) = 1 THEN "settled" ELSE "gen"
    BY <1>1, <2>1 DEF JobRecord
  <2> QED  BY <1>1, <2>2, TablesLeft
<1>3. /\ \/ stock' = [s \in DOMAIN stock |-> IF s \in DOMAIN staged THEN staged[s] ELSE stock[s]] /\ result' = result
         \/ stock' = stock /\ result'.disturbed = TRUE
      /\ result'.ok = result.ok
      /\ result' = [ok |-> result'.ok, groups |-> result'.groups, match |-> result'.match,
                    stock |-> result'.stock, disturbed |-> result'.disturbed]
  BY DEF Stock_Commit, HoldInv, HoldForm
<1>4. /\ stock \in [HoldingIds -> StockRow] /\ DOMAIN staged \subseteq HoldingIds
      /\ \A s \in HoldingIds : HasShares(stock[s], s)
      /\ \A s \in DOMAIN staged : s \in HoldingIds /\ HasShares(staged[s], s) /\ Freed(staged[s])
  BY DEF HoldInv, HoldForm, HoldRows
<1> DEFINE written == [s \in HoldingIds |-> IF s \in DOMAIN staged THEN staged[s] ELSE stock[s]]
<1>5. [s \in DOMAIN stock |-> IF s \in DOMAIN staged THEN staged[s] ELSE stock[s]] = written
  BY <1>4
<1>6. stock' \in [HoldingIds -> StockRow] /\ \A s \in HoldingIds : HasShares(stock'[s], s)
  <2>1. CASE stock' = stock
    BY <1>4, <2>1
  <2>2. CASE stock' = written
    <3>1. \A s \in HoldingIds : HasShares(stock'[s], s)
      BY <1>4, <1>5, <2>2
    <3>2. \A s \in HoldingIds : stock'[s] \in StockRow
      BY <3>1 DEF HasShares, Right
    <3> QED  BY <1>5, <2>2, <3>1, <3>2
  <2> QED  BY <1>3, <1>5, <2>1, <2>2
<1>7. HoldForm'
  BY <1>1, <1>2, <1>3, <1>6 DEF HoldInv, HoldForm, HoldingIds
<1>8. view' = view
  BY <1>1
<1>9. HoldRows'
  BY <1>1, <1>2, <1>6 DEF HoldRows, HasShares, Right, HoldingIds, Total
<1>10. HoldPlace'
  BY <1>1, <1>2, <1>3, TablesLeft DEF HoldPlace, Settling, Writing
<1>11. HoldDone'
  <2>1. CASE result'.disturbed = TRUE
    BY <2>1 DEF HoldDone
  <2>2. CASE result' = result /\ ~result.disturbed /\ stock' = written
    <3>1. /\ Known(view.stock) /\ (job.todo = LastTable => Available({"stock_asset"}))
          /\ \A s \in DOMAIN staged : Total(staged[s]) = Total(stock[s])
          /\ \A s \in HoldingIds : Holdings[s].table = Head(job.todo)[1] =>
                s \in DOMAIN staged \/ Freed(stock[s])
      <4>1. ToSet(job.rows) = {}
        BY <1>1 DEF ToSet
      <4> QED  BY <1>1, <2>2, <4>1 DEF HoldInv, HoldDone, Settling
    <3>2. \A s \in HoldingIds : /\ Freed(stock[s]) \/ s \in DOMAIN staged => Freed(stock'[s])
                                /\ Total(stock'[s]) = Total(stock[s])
      BY <1>4, <1>5, <2>2, <3>1
    <3>6. Known(view.stock)'
      BY <1>1, <3>1, <3>2 DEF Known, Right, HoldingIds, Total
    <3>3. ASSUME NEW s \in HoldingIds, Holdings[s].table = Head(job.todo)[1] PROVE Freed(stock'[s])
      <4>1. s \in DOMAIN staged \/ Freed(stock[s])
        BY <3>1, <3>3
      <4> QED  BY <3>2, <4>1
    <3>4. CASE job.todo = BothTables
      <4>1. Available({"stock_asset"})'
        BY <3>3, <3>4, TablesLeft DEF Available, HoldingIds, Freed, Total
      <4> QED  BY <1>1, <1>2, <1>3, <3>4, <3>6, <4>1 DEF HoldDone, Settling, Writing
    <3>5. CASE job.todo = LastTable
      <4>1. ASSUME NEW s \in HoldingIds, Holdings[s].table = "stock_asset" PROVE Freed(stock'[s])
        <5>1. Freed(stock[s])
          BY <3>1, <3>5, <4>1 DEF Available
        <5> QED  BY <3>2, <5>1
      <4>2. \A s \in HoldingIds : Holdings[s].table = "stock_etf_asset" => Freed(stock'[s])
        BY <3>3, <3>5, TablesLeft
      <4>3. Available({"stock_asset", "stock_etf_asset"})'
        BY <4>1, <4>2 DEF Available, HoldingIds, Freed, Total
      <4> QED  BY <1>1, <1>2, <1>3, <3>5, <3>6, <4>3 DEF HoldDone, Settling, Writing
    <3> QED  BY <1>1, <3>4, <3>5
  <2> QED  BY <1>3, <1>5, <2>1, <2>2
<1> QED  BY <1>7, <1>9, <1>10, <1>11 DEF HoldInv

LEMMA HoldReturn ==
    ASSUME HoldInv, Settle_Return
    PROVE  HoldInv'
<1>1. /\ job.pc = "settled" /\ UNCHANGED <<stock, staged, shares, unseen>> /\ job' = NoJob /\ view' = NoView
      /\ result' = [result EXCEPT !.ok = TRUE, !.groups = job.groups, !.match = view.match, !.stock = view.stock]
  BY DEF Settle_Return, holdings
<1>2. /\ result'.disturbed = result.disturbed /\ result'.stock = view.stock
      /\ result' = [ok |-> result'.ok, groups |-> result'.groups, match |-> result'.match,
                    stock |-> result'.stock, disturbed |-> result'.disturbed]
  BY <1>1 DEF HoldInv, HoldForm
<1>3. HoldForm'
  BY <1>1, <1>2 DEF HoldInv, HoldForm, JobRecord, NoJob, NoView, HoldingIds
<1>4. HoldRows'
  BY <1>1 DEF HoldInv, HoldRows, HasShares, Right, Freed, Total, NoJob, HoldingIds
<1>5. HoldPlace'
  BY <1>1 DEF HoldInv, HoldPlace, NoJob, Settling, Writing
<1>6. HoldDone'
  <2>1. CASE result.disturbed
    BY <1>2, <2>1 DEF HoldDone
  <2>2. CASE ~result.disturbed
    <3>1. Known(view.stock) /\ Available({"stock_asset", "stock_etf_asset"})
      BY <1>1, <2>2 DEF HoldInv, HoldDone
    <3>2. Known(result.stock)' /\ Available({"stock_asset", "stock_etf_asset"})'
      BY <1>1, <1>2, <3>1 DEF Known, Right, Available, HoldingIds, Freed, Total
    <3> QED  BY <1>1, <3>2 DEF HoldDone, NoJob, Settling, Writing
  <2> QED  BY <2>1, <2>2
<1> QED  BY <1>3, <1>4, <1>5, <1>6 DEF HoldInv

LEMMA HoldDayEnd ==
    ASSUME HoldInv, DayEnd
    PROVE  HoldInv'
<1>1. JobRecord(job)
  BY DEF HoldInv, HoldForm
<1> DEFINE on == /\ UNCHANGED <<holdings, view, result>> /\ JobRecord(job')
                 /\ job.pc \in {"idle", "move", "truncate"} /\ job'.pc \in {"idle", "move", "truncate"}
<1>2. CASE Simutgw_DayEnd
  <2>1. on
    BY <1>2 DEF Simutgw_DayEnd, JobRecord, NoJob
  <2> QED  BY <2>1, HoldQuiet
<1>3. CASE MoveDbdata
  <2>1. on \/ (Abandon /\ UNCHANGED <<stock, shares, unseen>>)
    BY <1>1, <1>3 DEF MoveDbdata, JobRecord
  <2> QED  BY <2>1, HoldQuiet, HoldAbandon
<1>4. CASE TruncateTable
  <2>1. on \/ (Abandon /\ UNCHANGED <<stock, shares, unseen>>)
    BY <1>1, <1>4 DEF TruncateTable, JobRecord
  <2> QED  BY <2>1, HoldQuiet, HoldAbandon
<1>5. CASE DayEnd_Return
  <2>1. on
    BY <1>5 DEF DayEnd_Return, JobRecord, NoJob
  <2> QED  BY <2>1, HoldQuiet
<1> QED  BY <1>2, <1>3, <1>4, <1>5 DEF DayEnd, ProcReqMsg_DayEnd

LEMMA HoldStep == DayInv /\ HoldInv /\ [SettlementNext]_settlementVars => HoldInv'
<1> SUFFICES ASSUME DayInv, HoldInv, [SettlementNext]_settlementVars PROVE HoldInv'
  OBVIOUS
<1>1. CASE \E i \in Late : RecordTrade(i)
  <2>1. UNCHANGED <<holdings, job, view, result>>
    BY <1>1 DEF RecordTrade
  <2>2. JobRecord(job')
    BY <2>1 DEF HoldInv, HoldForm, JobRecord
  <2> QED  BY <2>1, <2>2, HoldQuiet
<1>2. CASE \E c \in Syncs : StockSync(c[1], c[2])
  BY <1>2, HoldSync
<1>3. CASE Settle
  <2>1. DayForm
    BY DEF DayInv
  <2>2. CASE ProcReqMsg_SettleAccounts
    BY <2>2, HoldBegin DEF ProcReqMsg_SettleAccounts
  <2>3. CASE GetSettleGroupNames
    BY <2>1, <2>3, HoldGroups
  <2> QED  BY <1>3, <2>2, <2>3, HoldQuery, HoldFiles, HoldRead, HoldUpdate, HoldCommit, HoldReturn DEF Settle
<1>4. CASE DayEnd
  BY <1>4, HoldDayEnd
<1>5. CASE Crash
  BY <1>5, HoldAbandon DEF Crash
<1>6. CASE UNCHANGED settlementVars
  <2>1. UNCHANGED <<holdings, job, view, result>>
    BY <1>6 DEF settlementVars, holdings
  <2>2. JobRecord(job')
    BY <2>1 DEF HoldInv, HoldForm, JobRecord
  <2> QED  BY <2>1, <2>2, HoldQuiet
<1> QED  BY <1>1, <1>2, <1>3, <1>4, <1>5, <1>6 DEF SettlementNext, Others

\* How the settlement goes through the two tables of holdings, what each of its
\* connections has seen of them and which rows its transaction has written.
THEOREM SettlementHoldInvariant == SettlementSpec => []HoldInv
BY HoldInit, HoldStep, SettlementDayInvariant, PTL DEF SettlementSpec

\* A settlement moves shares between the parts of a holding and makes or loses
\* none, and an undisturbed one makes all of them available, as its file for the
\* next day said: for any number of holdings, whatever their rows say, and any
\* changes between the SELECT of a row and its UPDATE but those that leave the
\* balance as it was, which the condition of the UPDATE does not see
\* (Update_Stock_Asset).
THEOREM SettlementHoldings == SettlementSpec => []HoldingsSettled
<1>1. HoldInv => HoldingsSettled
  <2> SUFFICES ASSUME HoldInv PROVE SharesKept /\ NextDayAsSettled
    BY DEF HoldingsSettled
  <2>1. DOMAIN stock = HoldingIds /\ \A s \in HoldingIds : HasShares(stock[s], s)
    BY DEF HoldInv, HoldForm, HoldRows
  <2>2. SharesKept
    BY <2>1 DEF SharesKept, HasShares
  <2>3. ASSUME result.ok, ~result.disturbed, NEW s \in HoldingIds
        PROVE  Freed(stock[s]) /\ DBF_Value_SJSDZ(result.stock[s], TRUE).DZZYGS = stock[s].avl
    <3>1. Freed(stock[s]) /\ Right(result.stock[s], s) /\ Total(result.stock[s]) = Total(stock[s])
      <4>1. Holdings[s].table \in {"stock_asset", "stock_etf_asset"}
        BY SettlementAssumption DEF HoldingIds, StockRow
      <4> QED  BY <2>3, <4>1 DEF HoldInv, HoldDone, Known, Available
    <3> DEFINE rw == result.stock[s]
    <3>2. DBF_Value_SJSDZ(rw, TRUE).DZZYGS = rw.avl + (rw.act + rw.stp + rw.rdp)
      BY DEF DBF_Value_SJSDZ
    <3>3. rw.avl \in Nat /\ rw.act \in Nat /\ rw.stp \in Nat /\ rw.rdp \in Nat
      BY <3>1 DEF Right, StockRow
    <3>4. Total(rw) = rw.act + rw.stp + rw.rdp + rw.avl
      BY DEF Total
    <3> HIDE DEF rw
    <3>5. rw.avl + (rw.act + rw.stp + rw.rdp) = Total(rw)
      BY <3>3, <3>4
    <3> QED  BY <3>1, <3>2, <3>5 DEF rw, Freed
  <2> QED  BY <2>1, <2>2, <2>3 DEF NextDayAsSettled, Freed
<1> QED  BY <1>1, SettlementHoldInvariant, PTL

=============================================================================
