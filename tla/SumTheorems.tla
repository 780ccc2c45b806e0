---------------------------- MODULE SumTheorems ----------------------------
(***************************************************************************)
(* Sums over finite sets: what SumFunctionOnSet of the community modules   *)
(* computes, for functions with integer values; the induction they are     *)
(* proved with; and what Ascending lists.                                  *)
(***************************************************************************)
EXTENDS Ascending, Integers, Sequences, FiniteSets, Functions, FiniteSetTheorems, WellFoundedInduction, TLAPS

-----------------------------------------------------------------------------
(* Induction.  A set that holds 0 and with each number the next one holds  *)
(* every number: otherwise there is a least one it does not hold.          *)

LEMMA LeastNumber ==
    ASSUME NEW S \in SUBSET Nat, S # {}
    PROVE  \E k \in S : \A j \in S : ~(j < k)
<1>1. \A j, k \in Nat : j < k => <<j, k>> \in OpToRel(<, Nat)
  BY Zenon DEF OpToRel
<1>2. \E k \in S : \A j \in S : ~(<<j, k>> \in OpToRel(<, Nat))
  BY NatLessThanWellFounded, WFMin, Zenon
<1> QED  BY <1>1, <1>2

LEMMA Induction ==
    ASSUME NEW T, 0 \in T, \A n \in Nat : n \in T => n + 1 \in T
    PROVE  \A n \in Nat : n \in T
<1> SUFFICES ASSUME NEW m \in Nat, m \notin T PROVE FALSE
  OBVIOUS
<1> DEFINE S == {n \in Nat : n \notin T}
<1>1. PICK k \in S : \A j \in S : ~(j < k)
  <2>1. S \in SUBSET Nat /\ S # {}
    OBVIOUS
  <2> HIDE DEF S
  <2> QED  BY <2>1, LeastNumber
<1>2. k # 0 /\ k \in Nat
  OBVIOUS
<1>3. k - 1 \in Nat /\ k - 1 < k
  BY <1>2
<1>4. k - 1 \in T
  BY <1>1, <1>3
<1>5. (k - 1) + 1 = k
  BY <1>2
<1> QED  BY <1>3, <1>4, <1>5

-----------------------------------------------------------------------------
(* The recursive function behind the sum.                                  *)

Chosen(s) == CHOOSE x \in s : TRUE

\* What the function gives for s, if g is what it gives for smaller sets.
Step(f, g, s) == IF s = {} THEN 0 ELSE f[Chosen(s)] + g[s \ {Chosen(s)}]

\* g is the function that adds up f over the subsets of S.
Adds(f, S, g) == g = [s \in SUBSET S |-> Step(f, g, s)]

LEMMA SumIs ==
    ASSUME NEW f, NEW S
    PROVE  SumFunctionOnSet(f, S) = (CHOOSE g : Adds(f, S, g))[S]
BY Zenon DEF SumFunctionOnSet, FoldFunctionOnSet, MapThenFoldSet, Adds, Step, Chosen

LEMMA ChosenIn == \A s : s # {} => Chosen(s) \in s
BY DEF Chosen

\* The functions that add up f over the subsets of S with at most n elements.
Small(S, n) == {s \in SUBSET S : Cardinality(s) <= n}
AddsSmall(f, S, n, g) == g = [s \in Small(S, n) |-> Step(f, g, s)]

\* Taking an element away.
LEMMA Smaller ==
    ASSUME NEW S, IsFiniteSet(S), NEW s \in SUBSET S, NEW x \in s
    PROVE  /\ s \ {x} \in SUBSET S /\ IsFiniteSet(s) /\ Cardinality(s) \in Nat
           /\ Cardinality(s \ {x}) \in Nat /\ Cardinality(s \ {x}) = Cardinality(s) - 1
<1>1. IsFiniteSet(s)
  BY FS_Subset
<1>2. IsFiniteSet(s \ {x}) /\ Cardinality(s \ {x}) = Cardinality(s) - 1
  BY <1>1, FS_RemoveElement
<1> QED  BY <1>1, <1>2, FS_CardinalityType

\* There is such a function, for every n.
LEMMA SmallExists ==
    ASSUME NEW f, NEW S, IsFiniteSet(S)
    PROVE  \A n \in Nat : \E g : AddsSmall(f, S, n, g)
<1> DEFINE T == {n \in Nat : \E g : AddsSmall(f, S, n, g)}
<1>1. 0 \in T
  <2> DEFINE g == [s \in Small(S, 0) |-> 0]
  <2>1. ASSUME NEW s \in Small(S, 0) PROVE s = {}
    <3>1. IsFiniteSet(s) /\ Cardinality(s) \in Nat /\ Cardinality(s) <= 0
      BY FS_Subset, FS_CardinalityType DEF Small
    <3> QED  BY <3>1, FS_EmptySet
  <2>2. \A s \in Small(S, 0) : g[s] = Step(f, g, s)
    BY <2>1 DEF Step
  <2>3. g = [s \in Small(S, 0) |-> Step(f, g, s)]
    <3> DEFINE D == Small(S, 0)
    <3>1. g = [s \in D |-> g[s]]
      OBVIOUS
    <3> HIDE DEF D, g
    <3> QED  BY <2>2, <3>1 DEF D
  <2>4. AddsSmall(f, S, 0, g)
    BY Zenon, <2>3 DEF AddsSmall
  <2> QED  BY <2>4
<1>2. ASSUME NEW n \in Nat, n \in T PROVE n + 1 \in T
  <2>1. PICK g : AddsSmall(f, S, n, g)
    BY <1>2
  <2> DEFINE D == Small(S, n + 1)
             h == [s \in D |-> Step(f, g, s)]
  <2>2. ASSUME NEW s \in Small(S, n) PROVE s \in D /\ h[s] = g[s]
    <3>1. s \in D
      <4>1. Cardinality(s) \in Nat
        BY FS_Subset, FS_CardinalityType DEF Small
      <4> QED  BY <4>1 DEF Small
    <3>2. g[s] = Step(f, g, s)
      <4> DEFINE E == Small(S, n)
      <4>1. g = [t \in E |-> Step(f, g, t)]
        BY Zenon, <2>1 DEF AddsSmall
      <4>2. s \in E
        OBVIOUS
      <4> HIDE DEF E
      <4> QED  BY <4>1, <4>2
    <3> HIDE DEF D
    <3> QED  BY <3>1, <3>2
  <2>3. ASSUME NEW s \in D PROVE h[s] = Step(f, h, s)
    <3>1. CASE s = {}
      BY <3>1 DEF Step
    <3>2. CASE s # {}
      <4>1. Chosen(s) \in s
        BY <3>2, ChosenIn
      <4>2. s \ {Chosen(s)} \in Small(S, n)
        <5>1. s \in SUBSET S /\ Cardinality(s) <= n + 1
          BY DEF Small
        <5> DEFINE c == Chosen(s)
        <5>a. c \in s
          BY <4>1
        <5> HIDE DEF c, D
        <5>b. /\ s \ {c} \in SUBSET S /\ Cardinality(s \ {c}) = Cardinality(s) - 1
              /\ Cardinality(s) \in Nat
          BY <5>a, <5>1, Smaller
        <5>2. s \ {Chosen(s)} \in SUBSET S /\ Cardinality(s \ {Chosen(s)}) = Cardinality(s) - 1
              /\ Cardinality(s) \in Nat
          BY <5>b DEF c
        <5> QED  BY <5>1, <5>2 DEF Small
      <4>3. h[s \ {Chosen(s)}] = g[s \ {Chosen(s)}]
        BY <2>2, <4>2
      <4>4. h[s] = Step(f, g, s)
        <5> HIDE DEF D
        <5> QED  OBVIOUS
      <4> HIDE DEF h
      <4> QED  BY <3>2, <4>3, <4>4 DEF Step
    <3> QED  BY <3>1, <3>2
  <2>4. AddsSmall(f, S, n + 1, h)
    <3>1. h = [s \in D |-> h[s]]
      OBVIOUS
    <3> HIDE DEF h
    <3>2. h = [s \in D |-> Step(f, h, s)]
      <4> HIDE DEF D
      <4> QED  BY <2>3, <3>1
    <3> QED  BY Zenon, <3>2 DEF AddsSmall
  <2> HIDE DEF h
  <2> QED  BY <2>4
<1>3. \A n \in Nat : n \in T
  <2> HIDE DEF T
  <2> QED  BY <1>1, <1>2, Induction
<1> QED  BY <1>3

\* There is a function that adds up, for every finite set.
LEMMA AddsExists ==
    ASSUME NEW f, NEW S, IsFiniteSet(S)
    PROVE  \E g : Adds(f, S, g)
<1>1. Cardinality(S) \in Nat
  BY FS_CardinalityType
<1>2. PICK g : AddsSmall(f, S, Cardinality(S), g)
  BY <1>1, SmallExists
<1>3. Small(S, Cardinality(S)) = SUBSET S
  BY FS_Subset DEF Small
<1>4. Adds(f, S, g)
  BY Zenon, <1>2, <1>3 DEF AddsSmall, Adds
<1> QED  BY <1>4

\* Two such functions agree, whatever the sets they were made for.
LEMMA AddsAgree ==
    ASSUME NEW f, NEW S, IsFiniteSet(S), NEW T \in SUBSET S, NEW g, Adds(f, S, g),
           NEW h, Adds(f, T, h)
    PROVE  \A s \in SUBSET T : g[s] = h[s]
<1>1. \A s \in SUBSET T : g[s] = Step(f, g, s) /\ h[s] = Step(f, h, s)
  <2>1. \A s \in SUBSET S : g[s] = Step(f, g, s)
    <3> DEFINE D == SUBSET S
    <3>1. g = [s \in D |-> Step(f, g, s)]
      BY Zenon DEF Adds
    <3> HIDE DEF D
    <3>2. \A s \in D : g[s] = Step(f, g, s)
      BY <3>1
    <3> QED  BY <3>2 DEF D
  <2>2. \A s \in SUBSET T : h[s] = Step(f, h, s)
    <3> DEFINE D == SUBSET T
    <3>1. h = [s \in D |-> Step(f, h, s)]
      BY Zenon DEF Adds
    <3> HIDE DEF D
    <3>2. \A s \in D : h[s] = Step(f, h, s)
      BY <3>1
    <3> QED  BY <3>2 DEF D
  <2> QED  BY <2>1, <2>2
<1> DEFINE N == {n \in Nat : \A s \in SUBSET T : Cardinality(s) = n => g[s] = h[s]}
<1>2. 0 \in N
  <2>1. ASSUME NEW s \in SUBSET T, Cardinality(s) = 0 PROVE g[s] = h[s]
    <3>1. s = {}
      BY <2>1, FS_Subset, FS_EmptySet
    <3> QED  BY <1>1, <3>1 DEF Step
  <2> QED  BY <2>1
<1>3. ASSUME NEW n \in Nat, n \in N PROVE n + 1 \in N
  <2>1. ASSUME NEW s \in SUBSET T, Cardinality(s) = n + 1 PROVE g[s] = h[s]
    <3>1. s # {}
      BY <2>1, FS_EmptySet
    <3>2. Chosen(s) \in s
      BY <3>1, ChosenIn
    <3>3. s \ {Chosen(s)} \in SUBSET T /\ Cardinality(s \ {Chosen(s)}) = n
      <4>1. Cardinality(s \ {Chosen(s)}) = Cardinality(s) - 1
        BY <3>2, Smaller
      <4> QED  BY <2>1, <4>1
    <3>4. g[s \ {Chosen(s)}] = h[s \ {Chosen(s)}]
      BY <1>3, <3>3
    <3> QED  BY <1>1, <3>1, <3>4 DEF Step
  <2> QED  BY <2>1
<1>4. \A n \in Nat : n \in N
  <2> HIDE DEF N
  <2> QED  BY <1>2, <1>3, Induction
<1>5. ASSUME NEW s \in SUBSET T PROVE g[s] = h[s]
  <2>1. Cardinality(s) \in Nat
    BY FS_Subset, FS_CardinalityType
  <2> QED  BY <1>4, <2>1
<1> QED  BY <1>5

-----------------------------------------------------------------------------
(* Sums.                                                                   *)

\* What the function of S gives for a subset is the sum over the subset.
LEMMA SumOfSubset ==
    ASSUME NEW f, NEW S, IsFiniteSet(S), NEW T \in SUBSET S, NEW g, Adds(f, S, g)
    PROVE  SumFunctionOnSet(f, T) = g[T]
<1>1. IsFiniteSet(T)
  BY FS_Subset
<1>2. Adds(f, T, CHOOSE h : Adds(f, T, h))
  BY <1>1, AddsExists
<1>3. ASSUME NEW h, Adds(f, T, h) PROVE h[T] = g[T]
  <2>0. Adds(f, T, h)
    BY <1>3
  <2>1. \A s \in SUBSET T : g[s] = h[s]
    BY <2>0, AddsAgree, Z3
  <2> QED  BY <2>1
<1>4. (CHOOSE h : Adds(f, T, h))[T] = g[T]
  BY <1>2, <1>3
<1> QED  BY <1>4, SumIs

THEOREM SumEmpty == \A f : SumFunctionOnSet(f, {}) = 0
<1> SUFFICES ASSUME NEW f PROVE SumFunctionOnSet(f, {}) = 0
  OBVIOUS
<1>1. IsFiniteSet({}) /\ {} \in SUBSET {}
  BY FS_EmptySet
<1>2. PICK g : Adds(f, {}, g)
  BY <1>1, AddsExists
<1>3. g[{}] = 0
  <2> DEFINE D == SUBSET {}
  <2>1. g = [s \in D |-> Step(f, g, s)]
    BY Zenon, <1>2 DEF Adds
  <2>2. {} \in D
    OBVIOUS
  <2> HIDE DEF D
  <2>3. g[{}] = Step(f, g, {})
    BY <2>1, <2>2
  <2> QED  BY <2>3 DEF Step
<1>4. SumFunctionOnSet(f, {}) = g[{}]
  BY <1>1, <1>2, SumOfSubset
<1> QED  BY <1>3, <1>4

\* The sum in the order of the definition.
LEMMA SumStep ==
    ASSUME NEW f, NEW S, IsFiniteSet(S), S # {}
    PROVE  SumFunctionOnSet(f, S) = f[Chosen(S)] + SumFunctionOnSet(f, S \ {Chosen(S)})
<1>1. PICK g : Adds(f, S, g)
  BY AddsExists
<1>2. g[S] = Step(f, g, S)
  <2> DEFINE D == SUBSET S
  <2>1. g = [s \in D |-> Step(f, g, s)]
    BY Zenon, <1>1 DEF Adds
  <2>2. S \in D
    OBVIOUS
  <2> HIDE DEF D
  <2> QED  BY <2>1, <2>2
<1>3. SumFunctionOnSet(f, S) = g[S]
  BY <1>1, SumOfSubset
<1>4. SumFunctionOnSet(f, S \ {Chosen(S)}) = g[S \ {Chosen(S)}]
  <2>1. S \ {Chosen(S)} \in SUBSET S
    OBVIOUS
  <2> QED  BY <1>1, <2>1, SumOfSubset
<1> QED  BY <1>2, <1>3, <1>4 DEF Step

\* Any element may be taken first.
THEOREM SumRemove ==
    ASSUME NEW S, IsFiniteSet(S), NEW f, \A x \in S : f[x] \in Int
    PROVE  /\ SumFunctionOnSet(f, S) \in Int
           /\ \A x \in S : SumFunctionOnSet(f, S) = f[x] + SumFunctionOnSet(f, S \ {x})
<1> DEFINE Sum(T) == SumFunctionOnSet(f, T)
           Right(T) == /\ Sum(T) \in Int
                       /\ \A x \in T : Sum(T) = f[x] + Sum(T \ {x}) /\ Sum(T \ {x}) \in Int
           N == {n \in Nat : \A T \in SUBSET S : Cardinality(T) = n => Right(T)}
<1>1. 0 \in N
  <2>1. ASSUME NEW T \in SUBSET S, Cardinality(T) = 0 PROVE Right(T)
    <3>1. T = {}
      BY <2>1, FS_Subset, FS_EmptySet
    <3> QED  BY <3>1, SumEmpty
  <2> QED  BY <2>1
<1>2. ASSUME NEW n \in Nat, n \in N PROVE n + 1 \in N
  <2>1. ASSUME NEW T \in SUBSET S, Cardinality(T) = n + 1 PROVE Right(T)
    <3>1. ASSUME NEW x \in T
          PROVE  T \ {x} \in SUBSET S /\ Cardinality(T \ {x}) = n /\ Right(T \ {x})
      <4>1. T \ {x} \in SUBSET S /\ Cardinality(T \ {x}) = n
        BY <2>1, Smaller
      <4> HIDE DEF Right
      <4> QED  BY <1>2, <4>1
    <3> DEFINE c == Chosen(T)
    <3>2. T # {} /\ IsFiniteSet(T)
      BY <2>1, FS_EmptySet, FS_Subset
    <3>3. c \in T /\ f[c] \in Int
      BY <3>2, ChosenIn
    <3>4. Sum(T) = f[c] + Sum(T \ {c})
      BY <3>2, SumStep
    <3> HIDE DEF c
    <3>5. Sum(T \ {c}) \in Int
      BY <3>1, <3>3
    <3>6. ASSUME NEW x \in T PROVE Sum(T) = f[x] + Sum(T \ {x})
      <4>1. CASE x = c
        BY <3>4, <4>1
      <4>2. CASE x # c
        <5>1. Sum(T \ {c}) = f[x] + Sum((T \ {c}) \ {x})
          BY <3>1, <3>3, <4>2
        <5>2. Sum(T \ {x}) = f[c] + Sum((T \ {x}) \ {c})
          BY <3>1, <3>3, <4>2
        <5>3. (T \ {c}) \ {x} = (T \ {x}) \ {c}
          OBVIOUS
        <5> DEFINE d == Sum((T \ {x}) \ {c})
        <5>4. d \in Int
          BY <3>1, <3>3, <4>2, <5>3
        <5>5. f[x] \in Int
          OBVIOUS
        <5> HIDE DEF Sum, d
        <5>6. Sum(T) = f[c] + (f[x] + d) /\ Sum(T \ {x}) = f[c] + d
          BY <3>4, <5>1, <5>2, <5>3 DEF d
        <5> QED  BY <3>3, <5>4, <5>5, <5>6
      <4> QED  BY <4>1, <4>2
    <3>7. \A x \in T : Sum(T \ {x}) \in Int
      BY <3>1
    <3>8. Sum(T) \in Int
      <4> HIDE DEF Sum
      <4> QED  BY <3>3, <3>4, <3>5
    <3> QED  BY <3>6, <3>7, <3>8
  <2> QED  BY <2>1
<1>3. \A n \in Nat : n \in N
  <2> HIDE DEF N
  <2> QED  BY <1>1, <1>2, Induction
<1>4. Cardinality(S) \in Nat
  BY FS_CardinalityType
<1> QED  BY <1>3, <1>4

THEOREM SumAdd ==
    ASSUME NEW S, IsFiniteSet(S), NEW x, x \notin S, NEW f, \A y \in S \cup {x} : f[y] \in Int
    PROVE  SumFunctionOnSet(f, S \cup {x}) = f[x] + SumFunctionOnSet(f, S)
<1>1. IsFiniteSet(S \cup {x})
  BY FS_AddElement
<1>2. (S \cup {x}) \ {x} = S
  OBVIOUS
<1>3. SumFunctionOnSet(f, S \cup {x}) = f[x] + SumFunctionOnSet(f, (S \cup {x}) \ {x})
  BY <1>1, SumRemove
<1> QED  BY <1>2, <1>3

\* Only the values on the set count.
THEOREM SumSame ==
    ASSUME NEW S, IsFiniteSet(S), NEW f, NEW g, \A x \in S : f[x] = g[x]
    PROVE  SumFunctionOnSet(f, S) = SumFunctionOnSet(g, S)
<1> DEFINE N == {n \in Nat : \A T \in SUBSET S : Cardinality(T) = n =>
                    SumFunctionOnSet(f, T) = SumFunctionOnSet(g, T)}
<1>1. 0 \in N
  <2>1. ASSUME NEW T \in SUBSET S, Cardinality(T) = 0
        PROVE  SumFunctionOnSet(f, T) = SumFunctionOnSet(g, T)
    <3>1. T = {}
      BY <2>1, FS_Subset, FS_EmptySet
    <3> QED  BY <3>1, SumEmpty
  <2> QED  BY <2>1
<1>2. ASSUME NEW n \in Nat, n \in N PROVE n + 1 \in N
  <2>1. ASSUME NEW T \in SUBSET S, Cardinality(T) = n + 1
        PROVE  SumFunctionOnSet(f, T) = SumFunctionOnSet(g, T)
    <3>1. T # {} /\ IsFiniteSet(T)
      BY <2>1, FS_EmptySet, FS_Subset
    <3> DEFINE c == Chosen(T)
    <3>2. c \in T
      BY <3>1, ChosenIn
    <3>3. /\ SumFunctionOnSet(f, T) = f[c] + SumFunctionOnSet(f, T \ {c})
          /\ SumFunctionOnSet(g, T) = g[c] + SumFunctionOnSet(g, T \ {c})
      BY <3>1, SumStep
    <3> HIDE DEF c
    <3>4. T \ {c} \in SUBSET S /\ Cardinality(T \ {c}) = n
      BY <2>1, <3>2, Smaller
    <3>5. SumFunctionOnSet(f, T \ {c}) = SumFunctionOnSet(g, T \ {c})
      BY <1>2, <3>4
    <3> QED  BY <3>2, <3>3, <3>5
  <2> QED  BY <2>1
<1>3. \A n \in Nat : n \in N
  <2> HIDE DEF N
  <2> QED  BY <1>1, <1>2, Induction
<1>4. Cardinality(S) \in Nat
  BY FS_CardinalityType
<1> QED  BY <1>3, <1>4

\* One value changes.
THEOREM SumUpdate ==
    ASSUME NEW S, IsFiniteSet(S), NEW x \in S, NEW f, NEW g,
           \A y \in S : f[y] \in Int /\ g[y] \in Int, \A y \in S \ {x} : f[y] = g[y]
    PROVE  SumFunctionOnSet(g, S) = SumFunctionOnSet(f, S) - f[x] + g[x]
<1>1. IsFiniteSet(S \ {x})
  BY FS_RemoveElement
<1>2. /\ SumFunctionOnSet(f, S) = f[x] + SumFunctionOnSet(f, S \ {x})
      /\ SumFunctionOnSet(g, S) = g[x] + SumFunctionOnSet(g, S \ {x})
      /\ SumFunctionOnSet(f, S) \in Int
  BY SumRemove
<1>3. SumFunctionOnSet(f, S \ {x}) = SumFunctionOnSet(g, S \ {x})
  BY <1>1, SumSame
<1>4. SumFunctionOnSet(f, S \ {x}) \in Int
  BY <1>1, SumRemove
<1> QED  BY <1>2, <1>3, <1>4

\* A sum of natural numbers is at least each of them.
THEOREM SumNat ==
    ASSUME NEW S, IsFiniteSet(S), NEW f, \A x \in S : f[x] \in Nat
    PROVE  /\ SumFunctionOnSet(f, S) \in Nat
           /\ \A x \in S : f[x] <= SumFunctionOnSet(f, S)
<1> DEFINE N == {n \in Nat : \A T \in SUBSET S : Cardinality(T) = n => SumFunctionOnSet(f, T) \in Nat}
<1>1. 0 \in N
  <2>1. ASSUME NEW T \in SUBSET S, Cardinality(T) = 0 PROVE SumFunctionOnSet(f, T) \in Nat
    <3>1. T = {}
      BY <2>1, FS_Subset, FS_EmptySet
    <3> QED  BY <3>1, SumEmpty
  <2> QED  BY <2>1
<1>2. ASSUME NEW n \in Nat, n \in N PROVE n + 1 \in N
  <2>1. ASSUME NEW T \in SUBSET S, Cardinality(T) = n + 1 PROVE SumFunctionOnSet(f, T) \in Nat
    <3>1. T # {} /\ IsFiniteSet(T)
      BY <2>1, FS_EmptySet, FS_Subset
    <3> DEFINE c == Chosen(T)
    <3>2. c \in T
      BY <3>1, ChosenIn
    <3>3. SumFunctionOnSet(f, T) = f[c] + SumFunctionOnSet(f, T \ {c})
      BY <3>1, SumStep
    <3> HIDE DEF c
    <3>4. T \ {c} \in SUBSET S /\ Cardinality(T \ {c}) = n
      BY <2>1, <3>2, Smaller
    <3> QED  BY <1>2, <3>2, <3>3, <3>4
  <2> QED  BY <2>1
<1>3. \A n \in Nat : n \in N
  <2> HIDE DEF N
  <2> QED  BY <1>1, <1>2, Induction
<1>4. \A T \in SUBSET S : SumFunctionOnSet(f, T) \in Nat
  BY <1>3, FS_Subset, FS_CardinalityType
<1>5. ASSUME NEW x \in S PROVE f[x] <= SumFunctionOnSet(f, S)
  <2>1. SumFunctionOnSet(f, S) = f[x] + SumFunctionOnSet(f, S \ {x})
    BY SumRemove
  <2>2. SumFunctionOnSet(f, S \ {x}) \in Nat
    BY <1>4
  <2> QED  BY <2>1, <2>2
<1>6. SumFunctionOnSet(f, S) \in Nat
  BY <1>4
<1> QED  BY <1>5, <1>6

\* A sum of zeros.
THEOREM SumZero ==
    ASSUME NEW S, IsFiniteSet(S), NEW f, \A x \in S : f[x] = 0
    PROVE  SumFunctionOnSet(f, S) = 0
<1> DEFINE N == {n \in Nat : \A T \in SUBSET S : Cardinality(T) = n => SumFunctionOnSet(f, T) = 0}
<1>1. 0 \in N
  <2>1. ASSUME NEW T \in SUBSET S, Cardinality(T) = 0 PROVE SumFunctionOnSet(f, T) = 0
    <3>1. T = {}
      BY <2>1, FS_Subset, FS_EmptySet
    <3> QED  BY <3>1, SumEmpty
  <2> QED  BY <2>1
<1>2. ASSUME NEW n \in Nat, n \in N PROVE n + 1 \in N
  <2>1. ASSUME NEW T \in SUBSET S, Cardinality(T) = n + 1 PROVE SumFunctionOnSet(f, T) = 0
    <3>1. T # {} /\ IsFiniteSet(T)
      BY <2>1, FS_EmptySet, FS_Subset
    <3> DEFINE c == Chosen(T)
    <3>2. c \in T
      BY <3>1, ChosenIn
    <3>3. SumFunctionOnSet(f, T) = f[c] + SumFunctionOnSet(f, T \ {c})
      BY <3>1, SumStep
    <3> HIDE DEF c
    <3>4. T \ {c} \in SUBSET S /\ Cardinality(T \ {c}) = n
      BY <2>1, <3>2, Smaller
    <3> QED  BY <1>2, <3>2, <3>3, <3>4
  <2> QED  BY <2>1
<1>3. \A n \in Nat : n \in N
  <2> HIDE DEF N
  <2> QED  BY <1>1, <1>2, Induction
<1> QED  BY <1>3, FS_Subset, FS_CardinalityType

\* The greater function has the greater sum.
THEOREM SumLeq ==
    ASSUME NEW S, IsFiniteSet(S), NEW f, NEW g,
           \A x \in S : f[x] \in Nat /\ g[x] \in Nat /\ f[x] <= g[x]
    PROVE  SumFunctionOnSet(f, S) <= SumFunctionOnSet(g, S)
<1> DEFINE N == {n \in Nat : \A T \in SUBSET S : Cardinality(T) = n =>
                    SumFunctionOnSet(f, T) <= SumFunctionOnSet(g, T)}
<1>1. 0 \in N
  <2>1. ASSUME NEW T \in SUBSET S, Cardinality(T) = 0
        PROVE  SumFunctionOnSet(f, T) <= SumFunctionOnSet(g, T)
    <3>1. T = {}
      BY <2>1, FS_Subset, FS_EmptySet
    <3>2. SumFunctionOnSet(f, T) = 0 /\ SumFunctionOnSet(g, T) = 0
      BY <3>1, SumEmpty
    <3> QED  BY <3>2
  <2> QED  BY <2>1
<1>2. ASSUME NEW n \in Nat, n \in N PROVE n + 1 \in N
  <2>1. ASSUME NEW T \in SUBSET S, Cardinality(T) = n + 1
        PROVE  SumFunctionOnSet(f, T) <= SumFunctionOnSet(g, T)
    <3>1. T # {} /\ IsFiniteSet(T)
      BY <2>1, FS_EmptySet, FS_Subset
    <3> DEFINE c == Chosen(T)
    <3>2. c \in T
      BY <3>1, ChosenIn
    <3>3. /\ SumFunctionOnSet(f, T) = f[c] + SumFunctionOnSet(f, T \ {c})
          /\ SumFunctionOnSet(g, T) = g[c] + SumFunctionOnSet(g, T \ {c})
      BY <3>1, SumStep
    <3> HIDE DEF c
    <3>4. T \ {c} \in SUBSET S /\ Cardinality(T \ {c}) = n
      BY <2>1, <3>2, Smaller
    <3>5. IsFiniteSet(T \ {c}) /\ \A x \in T \ {c} : f[x] \in Nat /\ g[x] \in Nat
      BY <3>4, FS_Subset
    <3>6. SumFunctionOnSet(f, T \ {c}) \in Nat /\ SumFunctionOnSet(g, T \ {c}) \in Nat
      BY <3>5, SumNat
    <3>7. SumFunctionOnSet(f, T \ {c}) <= SumFunctionOnSet(g, T \ {c})
      BY <1>2, <3>4
    <3>8. f[c] \in Nat /\ g[c] \in Nat /\ f[c] <= g[c]
      BY <3>2
    <3> QED  BY <3>3, <3>6, <3>7, <3>8
  <2> QED  BY <2>1
<1>3. \A n \in Nat : n \in N
  <2> HIDE DEF N
  <2> QED  BY <1>1, <1>2, Induction
<1>4. S \in SUBSET S /\ Cardinality(S) \in Nat
  BY FS_CardinalityType
<1> QED  BY <1>3, <1>4
-----------------------------------------------------------------------------
(* Numbers in ascending order.                                             *)

\* How many of ids are not above i.
Rank(ids, i) == Cardinality({j \in ids : j <= i})

\* Ascending lists a finite set of numbers, each once and the lesser first.
LEMMA AscendingIs ==
    ASSUME NEW ids \in SUBSET Nat, IsFiniteSet(ids)
    PROVE  /\ Ascending(ids) \in Seq(ids) /\ Len(Ascending(ids)) = Cardinality(ids)
           /\ {Ascending(ids)[k] : k \in 1..Cardinality(ids)} = ids
           /\ \A j, k \in 1..Cardinality(ids) : j < k => Ascending(ids)[j] < Ascending(ids)[k]
<1> DEFINE n == Cardinality(ids)
           f == [i \in ids |-> Rank(ids, i)]
<1>1. n \in Nat /\ IsFiniteSet(1..n) /\ Cardinality(1..n) = n
  BY FS_CardinalityType, FS_Interval
<1>2. ASSUME NEW i \in ids PROVE Rank(ids, i) \in 1..n
  <2> DEFINE T == {j \in ids : j <= i}
  <2>1. IsFiniteSet(T) /\ Cardinality(T) \in Nat /\ Cardinality(T) <= n
    BY FS_Subset, FS_CardinalityType
  <2>2. T # {}
    <3>1. i \in T
      OBVIOUS
    <3> QED  BY <3>1
  <2>3. Cardinality(T) # 0
    BY <2>1, <2>2, FS_EmptySet
  <2> QED  BY <1>1, <2>1, <2>3 DEF Rank
<1>3. ASSUME NEW i \in ids, NEW j \in ids, i < j PROVE Rank(ids, i) < Rank(ids, j)
  <2> DEFINE T == {k \in ids : k <= i}
             U == {k \in ids : k <= j}
  <2>1. IsFiniteSet(U) /\ Cardinality(U) \in Nat /\ Cardinality(T) \in Nat
    BY FS_Subset, FS_CardinalityType
  <2>2. T \in SUBSET U /\ j \in U /\ j \notin T
    <3>1. i \in Nat /\ j \in Nat /\ \A k \in ids : k \in Nat
      OBVIOUS
    <3>2. \A k \in T : k <= j
      BY <1>3, <3>1
    <3>3. ~(j <= i)
      BY <1>3, <3>1
    <3>4. T \in SUBSET U
      BY <3>2
    <3>5. j \in U
      BY <3>1
    <3>6. j \notin T
      BY <3>3
    <3> QED  BY <3>4, <3>5, <3>6
  <2>3. Cardinality(T) <= Cardinality(U) /\ (Cardinality(U) = Cardinality(T) => U = T)
    BY ONLY <2>1, <2>2, FS_Subset
  <2> QED  BY <2>1, <2>2, <2>3 DEF Rank
<1>4. f \in Injection(ids, 1..n)
  <2>1. f \in [ids -> 1..n]
    BY <1>2
  <2>2. \A i, j \in ids : f[i] = f[j] => i = j
    <3> SUFFICES ASSUME NEW i \in ids, NEW j \in ids, Rank(ids, i) = Rank(ids, j), i # j PROVE FALSE
      OBVIOUS
    <3>1. i < j \/ j < i
      OBVIOUS
    <3>2. Rank(ids, i) \in Int
      BY <1>2
    <3> QED  BY <1>3, <3>1, <3>2
  <2> QED  BY <2>1, <2>2 DEF Injection, IsInjective
<1>5. f \in Surjection(ids, 1..n)
  <2> HIDE DEF f, n
  <2> QED  BY <1>1, <1>4, FS_Injection DEF n
<1>6. \A k \in 1..n : \E i \in ids : Rank(ids, i) = k
  BY <1>5 DEF Surjection
<1>7. \A k \in 1..n : Ascending(ids)[k] \in ids /\ Rank(ids, Ascending(ids)[k]) = k
  BY <1>6 DEF Ascending, Rank
<1>8. Ascending(ids) \in Seq(ids) /\ Len(Ascending(ids)) = n
  <2>1. Ascending(ids) = [k \in 1..n |-> Ascending(ids)[k]]
    BY DEF Ascending
  <2> QED  BY <1>1, <1>7, <2>1
<1>9. \A i \in ids : \E k \in 1..n : Ascending(ids)[k] = i
  <2> SUFFICES ASSUME NEW i \in ids PROVE Ascending(ids)[Rank(ids, i)] = i
    BY <1>2
  <2> DEFINE j == Ascending(ids)[Rank(ids, i)]
  <2>1. j \in ids /\ Rank(ids, j) = Rank(ids, i)
    BY <1>2, <1>7
  <2>2. f[i] = f[j]
    BY <2>1
  <2> HIDE DEF f, j, n
  <2>3. i = j
    BY <1>4, <2>1, <2>2 DEF Injection, IsInjective
  <2> QED  BY <2>3 DEF j
<1>10. {Ascending(ids)[k] : k \in 1..n} = ids
  BY <1>7, <1>9
<1>11. ASSUME NEW j \in 1..n, NEW k \in 1..n, j < k PROVE Ascending(ids)[j] < Ascending(ids)[k]
  <2> DEFINE a == Ascending(ids)[j]
             b == Ascending(ids)[k]
  <2>1. a \in ids /\ b \in ids /\ Rank(ids, a) = j /\ Rank(ids, b) = k
    BY <1>7
  <2> HIDE DEF a, b, n
  <2>2. ~(b < a) /\ b # a
    BY <1>1, <1>3, <1>11, <2>1
  <2>3. a \in Nat /\ b \in Nat
    BY <2>1
  <2>4. a < b
    BY <2>2, <2>3
  <2> QED  BY <2>4 DEF a, b
<1> QED  BY <1>8, <1>10, <1>11
=============================================================================
