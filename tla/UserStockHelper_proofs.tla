----------------------- MODULE UserStockHelper_proofs -----------------------
(***************************************************************************)
(* Proofs about the share account, for every set of orders and days, every *)
(* ETF and every width of the counts.                                      *)
(***************************************************************************)
EXTENDS UserStockHelper, SequenceTheorems, SumTheorems, TLAPS

-----------------------------------------------------------------------------
(* Counts that wrap.                                                       *)

LEMMA DivMod ==
    ASSUME NEW M \in Nat \ {0}, NEW a \in Int
    PROVE  a \div M \in Int /\ a % M \in 0..M - 1 /\ a = (M * (a \div M)) + (a % M)
OBVIOUS

LEMMA ModUnique ==
    ASSUME NEW M \in Nat \ {0}, NEW k \in Int, NEW r \in 0..M - 1, NEW a, a = (M * k) + r
    PROVE  a % M = r
OBVIOUS

\* A remainder may be taken at any time.
LEMMA ModAdd ==
    ASSUME NEW M \in Nat \ {0}, NEW a \in Int, NEW b \in Int
    PROVE  ((a % M) + b) % M = (a + b) % M
<1>1. PICK k \in Int : a = (M * k) + (a % M)
  BY DivMod
<1>2. a % M \in 0..M - 1
  BY DivMod
<1> DEFINE c == (a % M) + b
<1>3. c \in Int
  BY <1>2
<1>4. PICK j \in Int : c = (M * j) + (c % M)
  BY <1>3, DivMod
<1>5. c % M \in 0..M - 1
  BY <1>3, DivMod
<1> DEFINE r == a % M
           q == c % M
<1>6. r \in Int /\ q \in 0..M - 1 /\ a = (M * k) + r /\ r + b = (M * j) + q
  BY <1>1, <1>2, <1>4, <1>5
<1> HIDE DEF r, q, c
<1>7. a + b = (M * (k + j)) + q /\ k + j \in Int
  <2>1. M * (k + j) = (M * k) + (M * j) /\ M * k \in Int /\ M * j \in Int
    OBVIOUS
  <2> QED  BY <1>6, <2>1
<1>8. (a + b) % M = q
  <2>1. PICK i \in Int : a + b = (M * i) + q
    BY <1>7
  <2> QED  BY <1>6, <2>1, ModUnique
<1> QED  BY <1>8 DEF q, c

LEMMA ModSmall ==
    ASSUME NEW M \in Nat \ {0}, NEW a \in 0..M - 1
    PROVE  a % M = a
<1>1. a = (M * 0) + a
  OBVIOUS
<1> QED  BY <1>1, ModUnique

\* Two numbers with the same sum, each reduced or not.
LEMMA ModSum ==
    ASSUME NEW M \in Nat \ {0}, NEW a \in Int, NEW b \in Int
    PROVE  /\ ((a % M) + b) % M = (a + b) % M
           /\ (a + (b % M)) % M = (a + b) % M
           /\ ((a % M) + (b % M)) % M = (a + b) % M
<1>1. a % M \in Int /\ b % M \in Int
  BY DivMod
<1>2. (b + a) = (a + b) /\ (b % M) + a = a + (b % M)
  BY <1>1
<1>3. ((a % M) + b) % M = (a + b) % M /\ ((b % M) + a) % M = (b + a) % M
  BY ModAdd
<1>4. ((a % M) + (b % M)) % M = (a + (b % M)) % M
  BY <1>1, ModAdd
<1> QED  BY <1>2, <1>3, <1>4

-----------------------------------------------------------------------------
(* FrozeVolume.                                                            *)

LEMMA CountIs ==
    /\ Count \subseteq Nat /\ 0 \in Count /\ Modulus \in Nat \ {0}
    /\ \A n : n \in Count <=> n \in Nat /\ n < Modulus
    /\ \A n \in Int : n % Modulus \in Count
    /\ \A n \in Count : n % Modulus = n
<1>1. Modulus \in Nat \ {0}
  BY ModulusAssumption
<1>2. \A n \in Int : n % Modulus \in Count
  BY <1>1, DivMod DEF Count
<1>3. \A n \in Count : n % Modulus = n
  BY <1>1, ModSmall DEF Count
<1> QED  BY <1>1, <1>2, <1>3 DEF Count

\* The operations on a count give a count, and none but Add and Confirm
\* changes what it holds.
LEMMA QueryIs ==
    ASSUME NEW v \in Volume, NEW n \in Count
    PROVE  Query(v, n) \in Count /\ Query(v, n) <= n /\ Query(v, n) <= v.unfroze
BY CountIs DEF Query, Volume

LEMMA HeldIs ==
    ASSUME NEW v \in Volume
    PROVE  Held(v) \in Count
BY CountIs DEF Held, Volume

LEMMA FrozeIs ==
    ASSUME NEW v \in Volume, NEW n \in Count
    PROVE  /\ Froze(v, n) \in Volume /\ Held(Froze(v, n)) = Held(v)
           /\ Froze(v, n).syn = v.syn
           /\ Froze(v, n).froze = (v.froze + Query(v, n)) % Modulus
           /\ Froze(v, n).unfroze = v.unfroze - Query(v, n)
<1> DEFINE q == Query(v, n)
           w == Froze(v, n)
<1>1. q \in Nat /\ q <= v.unfroze /\ v.syn \in Count /\ v.froze \in Nat /\ v.unfroze \in Nat
      /\ v.unfroze < Modulus /\ v.froze \in Count
  BY QueryIs, CountIs DEF Volume
<1>2. /\ w.syn = v.syn /\ w.unfroze = v.unfroze - q /\ w.froze = (v.froze + q) % Modulus
      /\ (v.froze + q) % Modulus \in Count /\ v.unfroze - q \in Count => w \in Volume
  <2> DEFINE x == (v.froze + q) % Modulus
             y == v.unfroze - q
  <2>1. w = [v EXCEPT !.froze = x, !.unfroze = y]
    BY DEF Froze
  <2> HIDE DEF x, y, w
  <2>2. w.syn = v.syn /\ w.unfroze = y /\ w.froze = x /\ (x \in Count /\ y \in Count => w \in Volume)
    BY <2>1 DEF Volume
  <2> QED  BY <2>2 DEF x, y
<1> HIDE DEF q, w
<1>3. v.unfroze - q \in Count /\ (v.froze + q) % Modulus \in Count
  <2>1. v.unfroze - q \in Nat /\ v.unfroze - q < Modulus /\ v.froze + q \in Int
    BY <1>1, ModulusAssumption
  <2> QED  BY <2>1, CountIs
<1>4. w \in Volume
  BY <1>2, <1>3
<1>5. Held(w) = Held(v)
  <2>1. (((v.froze + q) % Modulus) + (v.unfroze - q)) % Modulus
           = ((v.froze + q) + (v.unfroze - q)) % Modulus
    <3>1. v.froze + q \in Int /\ v.unfroze - q \in Int
      BY <1>1
    <3> QED  BY <3>1, ModulusAssumption, ModSum
  <2>2. (v.froze + q) + (v.unfroze - q) = v.froze + v.unfroze
    BY <1>1
  <2> QED  BY <1>2, <2>1, <2>2 DEF Held
<1> QED  BY <1>2, <1>4, <1>5 DEF q, w

LEMMA DefrozeIs ==
    ASSUME NEW v \in Volume, NEW n \in Int
    PROVE  /\ Defroze(v, n) \in Volume /\ Held(Defroze(v, n)) = Held(v)
           /\ Defroze(v, n).syn = v.syn
           /\ Defroze(v, n).froze = (v.froze - n) % Modulus
           /\ Defroze(v, n).unfroze = (v.unfroze + n) % Modulus
<1> DEFINE w == Defroze(v, n)
<1>1. v.syn \in Count /\ v.froze \in Int /\ v.unfroze \in Int
  BY CountIs DEF Volume
<1>2. /\ w.syn = v.syn /\ w.unfroze = (v.unfroze + n) % Modulus /\ w.froze = (v.froze - n) % Modulus
      /\ (v.froze - n) % Modulus \in Count /\ (v.unfroze + n) % Modulus \in Count => w \in Volume
  <2> DEFINE x == (v.froze - n) % Modulus
             y == (v.unfroze + n) % Modulus
  <2>1. w = [v EXCEPT !.froze = x, !.unfroze = y]
    BY DEF Defroze
  <2> HIDE DEF x, y, w
  <2>2. w.syn = v.syn /\ w.unfroze = y /\ w.froze = x /\ (x \in Count /\ y \in Count => w \in Volume)
    BY <2>1 DEF Volume
  <2> QED  BY <2>2 DEF x, y
<1> HIDE DEF w
<1>3. (v.unfroze + n) % Modulus \in Count /\ (v.froze - n) % Modulus \in Count
  BY <1>1, CountIs
<1>4. w \in Volume
  BY <1>2, <1>3
<1>5. Held(w) = Held(v)
  <2>1. (((v.froze - n) % Modulus) + ((v.unfroze + n) % Modulus)) % Modulus
           = ((v.froze - n) + (v.unfroze + n)) % Modulus
    <3>1. v.froze - n \in Int /\ v.unfroze + n \in Int
      BY <1>1
    <3> QED  BY <3>1, ModulusAssumption, ModSum
  <2>2. (v.froze - n) + (v.unfroze + n) = v.froze + v.unfroze
    BY <1>1
  <2> QED  BY <1>2, <2>1, <2>2 DEF Held
<1> QED  BY <1>2, <1>4, <1>5 DEF w

LEMMA ConfirmIs ==
    ASSUME NEW v \in Volume, NEW n \in Nat
    PROVE  Confirm(v, n) \in Volume /\ Confirm(v, n).syn = v.syn
           /\ Confirm(v, n).unfroze = v.unfroze
           /\ Confirm(v, n).froze = IF v.froze >= n THEN v.froze - n ELSE v.froze
<1>1. v.syn \in Count /\ v.froze \in Count /\ v.unfroze \in Count /\ v.froze \in Nat
  BY CountIs DEF Volume
<1>2. v.froze >= n => v.froze - n \in Count
  <2>1. ASSUME v.froze >= n PROVE v.froze - n \in Nat /\ v.froze - n < Modulus
    BY <1>1, <2>1, CountIs
  <2> QED  BY <2>1, CountIs
<1> QED  BY <1>1, <1>2 DEF Confirm, CanConfirm, Volume

LEMMA AddIs ==
    ASSUME NEW v \in Volume, NEW n \in Int
    PROVE  Add(v, n) \in Volume /\ Add(v, n).syn = v.syn /\ Add(v, n).froze = v.froze
           /\ Add(v, n).unfroze = (v.unfroze + n) % Modulus
<1>1. v.syn \in Count /\ v.froze \in Count /\ v.unfroze \in Int
  BY CountIs DEF Volume
<1>2. (v.unfroze + n) % Modulus \in Count
  BY <1>1, CountIs
<1> QED  BY <1>1, <1>2 DEF Add, Volume

LEMMA SynIs ==
    ASSUME NEW v \in Volume, NEW n \in Count
    PROVE  /\ DBSyn(v) \in Volume /\ DBSyn(v).syn = Held(v) /\ Held(DBSyn(v)) = Held(v)
           /\ DBSyn(v).froze = v.froze /\ DBSyn(v).unfroze = v.unfroze
           /\ ResetSyn(v, n) \in Volume /\ ResetSyn(v, n).syn = n /\ Held(ResetSyn(v, n)) = Held(v)
           /\ ResetSyn(v, n).froze = v.froze /\ ResetSyn(v, n).unfroze = v.unfroze
<1>1. v.syn \in Count /\ v.froze \in Count /\ v.unfroze \in Count /\ Held(v) \in Count
  BY HeldIs DEF Volume
<1> QED  BY <1>1 DEF DBSyn, ResetSyn, Volume, Held

LEMMA InitIs ==
    ASSUME NEW n \in Count
    PROVE  /\ VolumeInit(n) \in Volume /\ VolumeInit(n).syn = n /\ Held(VolumeInit(n)) = n
           /\ VolumeInit(n).froze = 0 /\ VolumeInit(n).unfroze = n
<1>1. n \in Nat /\ 0 \in Count /\ n % Modulus = n /\ 0 + n = n
  BY CountIs
<1> QED  BY <1>1 DEF VolumeInit, Volume, Held

-----------------------------------------------------------------------------
(* UserStockVolume.                                                        *)

\* The count has moved between frozen and unfrozen at most.
Kept(v, w) == w \in Volume /\ Held(w) = Held(v) /\ w.syn = v.syn

AllKept(h, g) == g \in Holding /\ \A b \in Balance : Kept(h[b], g[b])

LEMMA KeptIs ==
    ASSUME NEW v \in Volume, NEW n \in Count
    PROVE  Kept(v, v) /\ Kept(v, Froze(v, n)) /\ Kept(v, Defroze(v, n))
           /\ Kept(v, Defroze(Froze(v, n), n))
<1>1. n \in Int
  BY CountIs
<1>2. Kept(v, Froze(v, n)) /\ Kept(v, Defroze(v, n)) /\ Froze(v, n) \in Volume
  BY <1>1, FrozeIs, DefrozeIs DEF Kept
<1>3. Kept(Froze(v, n), Defroze(Froze(v, n), n))
  BY <1>1, <1>2, DefrozeIs DEF Kept
<1> QED  BY <1>2, <1>3 DEF Kept

LEMMA Balances ==
    /\ Part \subseteq Balance /\ {"act", "rdp", "crt", "avl", "stk", "last"} = Balance
    /\ \A h \in Holding : DOMAIN h = Balance /\ \A b \in Balance : h[b] \in Volume
BY DEF Part, Balance, Holding

\* What is taken from the first part and from "avl".
LEMMA TakenIs ==
    ASSUME NEW h \in Holding, NEW first \in Part, NEW n \in Count
    PROVE  /\ FromFirst(h, first, n) \in Count /\ FromAvl(h, first, n) \in Count
           /\ FromFirst(h, first, n) \in Nat /\ FromAvl(h, first, n) \in Nat /\ n \in Nat
           /\ FromFirst(h, first, n) + FromAvl(h, first, n) <= n
           /\ FromFirst(h, first, n) <= h[first].unfroze
           /\ FromAvl(h, first, n) <= h["avl"].unfroze
           /\ Query(h[first], FromFirst(h, first, n)) = FromFirst(h, first, n)
           /\ Query(h["avl"], FromAvl(h, first, n)) = FromAvl(h, first, n)
<1>1. h[first] \in Volume /\ h["avl"] \in Volume
  BY Balances
<1> DEFINE a == FromFirst(h, first, n)
<1>2. a \in Count /\ a <= n /\ a <= h[first].unfroze /\ h[first].unfroze \in Nat
      /\ h["avl"].unfroze \in Nat
  BY <1>1, QueryIs, CountIs DEF FromFirst, Volume
<1> DEFINE m == n - a
           b == Query(h["avl"], m)
<1>3. n \in Nat /\ a \in Nat /\ m \in Nat /\ m < Modulus
  BY <1>2, CountIs
<1> HIDE DEF a, m
<1>4. m \in Count
  BY <1>3, CountIs
<1>5. b \in Count /\ b <= m /\ b <= h["avl"].unfroze /\ b \in Nat
  BY <1>1, <1>4, QueryIs, CountIs
<1>6. b = FromAvl(h, first, n)
  BY DEF FromAvl, m, a
<1>7. Query(h[first], a) = a /\ Query(h["avl"], b) = b
  <2> HIDE DEF b
  <2> QED  BY <1>2, <1>3, <1>5 DEF Query
<1>8. a + b <= n
  <2> HIDE DEF b
  <2> QED  BY <1>3, <1>5 DEF m
<1> QED  BY <1>2, <1>3, <1>5, <1>6, <1>7, <1>8 DEF a

\* Freezing and giving back, enough or not, changes no balance.
LEMMA FrozePartsKeeps ==
    ASSUME NEW h \in Holding, NEW first \in Part \ {"avl"}, NEW undo \in Part \ {"avl"}, NEW n \in Count
    PROVE  AllKept(h, FrozeParts(h, first, undo, n))
<1> DEFINE a == FromFirst(h, first, n)
           b == FromAvl(h, first, n)
           g == FrozeParts(h, first, undo, n)
           taken == [h EXCEPT ![first] = Froze(@, a), !["avl"] = Froze(@, b)]
<1>1. a \in Count /\ b \in Count
  BY TakenIs
<1>2. \A c \in Balance : h[c] \in Volume
  BY Balances
<1> HIDE DEF a, b
<1>3. /\ taken \in Holding
      /\ \A c \in Balance : taken[c] = IF c = first THEN Froze(h[c], a)
                                       ELSE IF c = "avl" THEN Froze(h[c], b) ELSE h[c]
  <2>1. Froze(h[first], a) \in Volume /\ Froze(h["avl"], b) \in Volume
    BY <1>1, <1>2, Balances, FrozeIs
  <2> QED  BY <2>1, Balances DEF Holding
<1>4. g = IF a = n THEN taken
          ELSE IF a + b = n THEN [taken EXCEPT !["stk"] = Froze(@, n)]
          ELSE [taken EXCEPT ![undo] = Defroze(@, a), !["avl"] = Defroze(@, b)]
  BY DEF FrozeParts, a, b
<1> HIDE DEF g, taken
<1>5. \A c \in Balance : /\ taken[c] \in Volume /\ Kept(h[c], taken[c])
                         /\ Kept(h[c], Froze(taken[c], n))
                         /\ Kept(h[c], Defroze(taken[c], a)) /\ Kept(h[c], Defroze(taken[c], b))
  <2> SUFFICES ASSUME NEW c \in Balance
               PROVE  /\ taken[c] \in Volume /\ Kept(h[c], taken[c])
                      /\ Kept(h[c], Froze(taken[c], n))
                      /\ Kept(h[c], Defroze(taken[c], a)) /\ Kept(h[c], Defroze(taken[c], b))
    OBVIOUS
  <2>1. taken[c] \in Volume /\ Kept(h[c], taken[c])
    BY <1>1, <1>2, <1>3, KeptIs DEF Holding
  <2>2. Kept(taken[c], Froze(taken[c], n)) /\ Kept(taken[c], Defroze(taken[c], a))
        /\ Kept(taken[c], Defroze(taken[c], b))
    BY <1>1, <2>1, KeptIs
  <2> QED  BY <2>1, <2>2 DEF Kept
<1>6. CASE a = n
  <2>1. g = taken
    BY <1>4, <1>6
  <2>2. AllKept(h, g)
    BY <1>3, <1>5, <2>1 DEF AllKept
  <2> QED  BY <2>2 DEF g
<1>7. CASE a # n /\ a + b = n
  <2>1. g = [taken EXCEPT !["stk"] = Froze(@, n)]
    BY <1>4, <1>7
  <2>2. "stk" \in Balance /\ Froze(taken["stk"], n) \in Volume
    BY <1>5, Balances DEF Kept
  <2>3. g \in Holding /\ \A c \in Balance : g[c] = IF c = "stk" THEN Froze(taken[c], n) ELSE taken[c]
    BY <1>3, <2>1, <2>2 DEF Holding
  <2>4. AllKept(h, g)
    BY <1>5, <2>3 DEF AllKept
  <2> QED  BY <2>4 DEF g
<1>8. CASE a # n /\ a + b # n
  <2>1. g = [taken EXCEPT ![undo] = Defroze(@, a), !["avl"] = Defroze(@, b)]
    BY <1>4, <1>8
  <2>2. /\ undo \in Balance /\ Defroze(taken[undo], a) \in Volume
        /\ "avl" \in Balance /\ Defroze(taken["avl"], b) \in Volume
    BY <1>5, Balances DEF Kept
  <2>3. /\ g \in Holding
        /\ \A c \in Balance : g[c] = IF c = undo THEN Defroze(taken[c], a)
                                     ELSE IF c = "avl" THEN Defroze(taken[c], b) ELSE taken[c]
    BY <1>3, <2>1, <2>2 DEF Holding
  <2>4. AllKept(h, g)
    BY <1>5, <2>3 DEF AllKept
  <2> QED  BY <2>4 DEF g
<1> QED  BY <1>6, <1>7, <1>8

\* So does giving back on a cancel.
LEMMA DeFrozePartsKeeps ==
    ASSUME NEW h \in Holding, NEW first \in Part \ {"avl"}, NEW a \in Count, NEW b \in Count
    PROVE  AllKept(h, DeFrozeParts(h, first, a, b))
<1> DEFINE g == DeFrozeParts(h, first, a, b)
<1>1. a \in Int /\ b \in Int /\ a + b \in Int
  BY CountIs
<1>2. \A c \in Balance : /\ h[c] \in Volume /\ Kept(h[c], h[c])
                         /\ Kept(h[c], Defroze(h[c], a)) /\ Kept(h[c], Defroze(h[c], b))
                         /\ Kept(h[c], Defroze(h[c], a + b))
  BY <1>1, Balances, DefrozeIs DEF Kept
<1>3. /\ g \in Holding
      /\ \A c \in Balance : g[c] = IF c = first THEN Defroze(h[c], a)
                                   ELSE IF c = "avl" THEN Defroze(h[c], b)
                                   ELSE IF c = "stk" THEN Defroze(h[c], a + b) ELSE h[c]
  <2>1. /\ first \in Balance /\ Defroze(h[first], a) \in Volume
        /\ "avl" \in Balance /\ Defroze(h["avl"], b) \in Volume
        /\ "stk" \in Balance /\ Defroze(h["stk"], a + b) \in Volume /\ first # "stk"
    BY <1>2, Balances DEF Kept, Part
  <2> QED  BY <2>1 DEF DeFrozeParts, Holding
<1> QED  BY <1>2, <1>3 DEF AllKept

\* Confirming and adding leave what was written, and the other parts.
LEMMA ConfirmPartsIs ==
    ASSUME NEW h \in Holding, NEW first \in Part \ {"avl"}, NEW a \in Nat, NEW b \in Nat
    PROVE  /\ ConfirmParts(h, first, a, b) \in Holding
           /\ \A c \in Balance : ConfirmParts(h, first, a, b)[c].syn = h[c].syn
           /\ \A c \in Balance \ {first, "avl", "stk"} : ConfirmParts(h, first, a, b)[c] = h[c]
<1> DEFINE g == ConfirmParts(h, first, a, b)
<1>1. first \in Balance /\ "avl" \in Balance /\ "stk" \in Balance /\ first # "stk" /\ a + b \in Nat
  BY Balances DEF Part
<1>2. \A c \in Balance : \A n \in Nat : h[c] \in Volume /\ Confirm(h[c], n) \in Volume
                                        /\ Confirm(h[c], n).syn = h[c].syn
  BY Balances, ConfirmIs
<1>3. CASE ~CanConfirm(h[first], a)
  BY <1>3 DEF ConfirmParts
<1>4. CASE CanConfirm(h[first], a) /\ ~CanConfirm(h["avl"], b)
  <2>1. g = [h EXCEPT ![first] = Confirm(@, a)]
    BY <1>4 DEF ConfirmParts
  <2> HIDE DEF g
  <2> QED  BY <1>1, <1>2, <2>1 DEF Holding, g
<1>5. CASE CanConfirm(h[first], a) /\ CanConfirm(h["avl"], b)
  <2>1. g = [h EXCEPT ![first] = Confirm(@, a), !["avl"] = Confirm(@, b), !["stk"] = Confirm(@, a + b)]
    BY <1>5 DEF ConfirmParts
  <2> HIDE DEF g
  <2> QED  BY <1>1, <1>2, <2>1 DEF Holding, g
<1> QED  BY <1>3, <1>4, <1>5

LEMMA AddToIs ==
    ASSUME NEW h \in Holding, NEW part \in Part, NEW n \in Int
    PROVE  /\ AddTo(h, part, n) \in Holding
           /\ \A c \in Balance : AddTo(h, part, n)[c].syn = h[c].syn
           /\ \A c \in Balance \ {part, "stk"} : AddTo(h, part, n)[c] = h[c]
<1>1. part \in Balance /\ "stk" \in Balance /\ part # "stk"
  BY Balances DEF Part
<1>2. \A c \in Balance : h[c] \in Volume /\ Add(h[c], n) \in Volume /\ Add(h[c], n).syn = h[c].syn
  BY Balances, AddIs
<1> QED  BY <1>1, <1>2 DEF AddTo, Holding

\* What a statement was made of counts as written.
LEMMA SynPartsIs ==
    ASSUME NEW h \in Holding, NEW parts \in SUBSET Part
    PROVE  /\ SynParts(h, parts) \in Holding
           /\ \A b \in Balance : Held(SynParts(h, parts)[b]) = Held(h[b])
           /\ \A b \in parts \cup {"stk"} : SynParts(h, parts)[b].syn = Held(h[b])
           /\ SynParts(h, parts)["last"].syn = h["stk"].syn
           /\ \A b \in Balance \ (parts \cup {"stk", "last"}) : SynParts(h, parts)[b].syn = h[b].syn
           /\ \A b \in Balance : /\ SynParts(h, parts)[b].froze = h[b].froze
                                 /\ SynParts(h, parts)[b].unfroze = h[b].unfroze
<1>1. parts \subseteq Balance /\ "stk" \in Balance /\ "last" \in Balance /\ "last" \notin parts
  BY Balances DEF Part
<1>2. h["stk"].syn \in Count /\ \A b \in Balance : h[b] \in Volume
  BY <1>1, Balances DEF Volume
<1>3. \A b \in Balance :
        /\ DBSyn(h[b]) \in Volume /\ DBSyn(h[b]).syn = Held(h[b]) /\ Held(DBSyn(h[b])) = Held(h[b])
        /\ DBSyn(h[b]).froze = h[b].froze /\ DBSyn(h[b]).unfroze = h[b].unfroze
        /\ ResetSyn(h[b], h["stk"].syn) \in Volume
        /\ ResetSyn(h[b], h["stk"].syn).syn = h["stk"].syn
        /\ Held(ResetSyn(h[b], h["stk"].syn)) = Held(h[b])
        /\ ResetSyn(h[b], h["stk"].syn).froze = h[b].froze
        /\ ResetSyn(h[b], h["stk"].syn).unfroze = h[b].unfroze
  BY <1>2, SynIs
<1>4. \A b \in Balance : SynParts(h, parts)[b] =
        IF b \in parts \cup {"stk"} THEN DBSyn(h[b])
        ELSE IF b = "last" THEN ResetSyn(h[b], h["stk"].syn) ELSE h[b]
  BY DEF SynParts
<1>5. SynParts(h, parts) \in Holding
  BY <1>2, <1>3 DEF SynParts, Holding
<1> QED  BY <1>1, <1>2, <1>3, <1>4, <1>5

\* An entry that is loaded holds what the row says.
LEMMA LoadIs ==
    ASSUME NEW s \in Security, NEW row \in Row(s)
    PROVE  /\ Load(row) \in Holding
           /\ \A b \in Balance : /\ Load(row)[b].syn = Held(Load(row)[b])
                                 /\ Held(Load(row)[b]) = IF b \in Columns(s) THEN row[b] ELSE 0
                                 /\ Load(row)[b].froze = 0
<1>1. DOMAIN row = Columns(s) /\ \A b \in Columns(s) : row[b] \in Count
  BY DEF Row
<1>2. \A b \in Balance : (IF b \in DOMAIN row THEN row[b] ELSE 0) \in Count
  BY <1>1, CountIs
<1>3. \A b \in Balance : Load(row)[b] = VolumeInit(IF b \in DOMAIN row THEN row[b] ELSE 0)
  BY DEF Load
<1>4. Load(row) \in Holding
  BY <1>2, InitIs DEF Load, Holding
<1> QED  BY <1>1, <1>2, <1>3, <1>4, InitIs

LEMMA EmptyIs ==
    /\ Empty \in Holding
    /\ \A b \in Balance : Empty[b].syn = 0 /\ Held(Empty[b]) = 0 /\ Empty[b].froze = 0
<1>1. VolumeInit(0) \in Volume /\ VolumeInit(0).syn = 0 /\ Held(VolumeInit(0)) = 0
      /\ VolumeInit(0).froze = 0
  BY CountIs, InitIs
<1> QED  BY <1>1 DEF Empty, Holding

LEMMA ColumnsIn == \A s : Columns(s) \subseteq Balance
BY Balances DEF Columns


-----------------------------------------------------------------------------
(* What is always so: the types, every entry is marked as stored, whatever a *)
(* resting order has frozen is in the cache, and an order that is only       *)
(* traded whole has its whole quantity left.                                 *)

Values == UNION {[D -> Count] : D \in SUBSET Balance}

Statement == {u \in [op : {"UPDATE", "INSERT", "error"}, of : Security, where : Values, set : Values] :
                 u.op = "INSERT" => u.set \in Row(u.of)}

Whole == {"etf_crt", "etf_rdp"}

HasEntries(o) ==
    /\ Kind[o] \in {"sell", "etf_sell", "etf_rdp"} => cache[Of[o]] # Nothing
    /\ Kind[o] = "etf_crt" => \A c \in Component : cache[c] # Nothing

Loaded == \A o \in Order : order[o].state = "resting" => HasEntries(o)

UserTypes ==
    /\ day \in Days
    /\ cache \in [Security -> Entry \cup {Nothing}]
    /\ order \in [Order -> OrderState]
    /\ sql \in Seq(Statement)
    /\ db \in [Security -> UNION {Row(s) \cup {Nothing} : s \in Security}]
    /\ \A s \in Security : db[s] \in Row(s) \cup {Nothing}
    /\ lost \subseteq Security /\ refused \subseteq Security

UserInv ==
    /\ UserTypes
    /\ \A s \in Security : cache[s] # Nothing => cache[s].stored
    /\ Loaded
    /\ \A o \in Order : Kind[o] \in Whole /\ order[o].state \in {"new", "resting"} =>
                           order[o].leaves = Qty[o]

LEMMA DayIs ==
    ASSUME day \in Days, NEW o \in Order
    PROVE  /\ Kind[o] \in OrderKind /\ Of[o] \in Security /\ Qty[o] \in Count
           /\ (Of[o] = Etf) <=> Kind[o] \notin {"sell", "buy"}
           /\ Kind[o] \in Whole => Unit <= Qty[o]
BY UserStockAssumption DEF Kind, Of, Qty, Whole

LEMMA SecurityIs ==
    /\ Component \subseteq Security /\ Etf \in Security /\ Etf \notin Component
    /\ \A s \in Security : s # Etf => s \in Component
    /\ Nothing \notin Entry /\ \A s \in Security : Nothing \notin Row(s)
    /\ \A i \in DOMAIN Components : Components[i] \in Component
    /\ \A c \in Component : \E i \in DOMAIN Components : Components[i] = c
    /\ DOMAIN Components = 1..Len(Components) /\ Len(Components) \in Nat
<1>1. Components \in Seq(Component)
  BY UserStockAssumption
<1>2. DOMAIN Components = 1..Len(Components) /\ Len(Components) \in Nat
  BY <1>1
<1> QED  BY <1>2, UserStockAssumption DEF Security, Component

LEMMA NeededIs == \A o \in Order, c \in Component : day \in Days => Needed(o, c) \in Count
<1> SUFFICES ASSUME NEW o \in Order, NEW c \in Component, day \in Days
             PROVE  Needed(o, c) \in Count
  OBVIOUS
<1>1. Qty[o] \in Nat /\ Unit \in Nat \ {0} /\ Share[c] \in Nat
  BY DayIs, CountIs, UserStockAssumption
<1> DEFINE k == Qty[o] \div Unit
<1>2. k \in Int
  BY <1>1, DivMod
<1> HIDE DEF k
<1>3. k * Share[c] \in Int
  BY <1>1, <1>2
<1> QED  BY <1>3, CountIs DEF Needed, k

LEMMA LookUpIs ==
    ASSUME UserInv, NEW s \in Security
    PROVE  /\ CanLookUp(s) => /\ LookUp(s) \in Entry /\ LookUp(s).stored
                              /\ LookUp(s).vol \in Holding /\ LookUp(s) # Nothing
           /\ cache[s] # Nothing => CanLookUp(s) /\ LookUp(s) = cache[s]
           /\ LookUpOrNew(s) \in Entry /\ LookUpOrNew(s).vol \in Holding
           /\ LookUpOrNew(s).stored <=> CanLookUp(s)
<1>1. ASSUME cache[s] # Nothing
      PROVE  cache[s] \in Entry /\ cache[s].stored = TRUE /\ LookUp(s) = cache[s]
  BY <1>1 DEF UserInv, UserTypes, LookUp, Entry
<1>2. ASSUME cache[s] = Nothing, db[s] # Nothing
      PROVE  LookUp(s) \in Entry /\ LookUp(s).stored = TRUE
  <2>1. db[s] \in Row(s)
    BY <1>2 DEF UserInv, UserTypes
  <2> QED  BY <1>2, <2>1, LoadIs DEF LookUp, Entry
<1>3. CanLookUp(s) => LookUp(s) \in Entry /\ LookUp(s).stored = TRUE
  BY <1>1, <1>2 DEF CanLookUp
<1>4. [stored |-> FALSE, vol |-> Empty] \in Entry
  BY EmptyIs DEF Entry
<1> QED  BY <1>1, <1>3, <1>4, SecurityIs DEF CanLookUp, LookUpOrNew, Entry

-----------------------------------------------------------------------------
(* Steps without a trade.                                                  *)

\* The entry of s is as it was, or the one looked up with the shares moved
\* between frozen and unfrozen.
OnlyMoved(s) ==
    \/ cache'[s] = cache[s]
    \/ /\ CanLookUp(s) /\ cache'[s] \in Entry /\ cache'[s].stored
       /\ AllKept(LookUp(s).vol, cache'[s].vol)

NoTrade ==
    /\ UNCHANGED <<day, sql, db, lost, refused>>
    /\ cache' \in [Security -> Entry \cup {Nothing}]
    /\ \A s \in Security : OnlyMoved(s)

LEMMA AllKeptSame == \A h \in Holding : AllKept(h, h)
BY Balances DEF AllKept, Kept

\* An entry looked up whose holding is replaced.
LEMMA EntryIs ==
    ASSUME UserInv, NEW s \in Security, CanLookUp(s), NEW g, AllKept(LookUp(s).vol, g)
    PROVE  LET e == [LookUp(s) EXCEPT !.vol = g]
           IN  e \in Entry /\ e.stored /\ e.vol = g /\ AllKept(LookUp(s).vol, e.vol)
BY LookUpIs DEF AllKept, Entry

LEMMA CpsIs ==
    /\ NoCps \in [Security -> [first : Count, avl : Count]]
    /\ \A s \in Security, a \in Count, b \in Count :
          [NoCps EXCEPT ![s] = [first |-> a, avl |-> b]] \in [Security -> [first : Count, avl : Count]]
BY CountIs DEF NoCps

LEMMA FrozeOneIs ==
    ASSUME UserInv, NEW o \in Order, NEW first \in Part \ {"avl"}, NEW g,
           CanLookUp(Of[o]) => AllKept(LookUp(Of[o]).vol, g),
           \/ ~CanLookUp(Of[o]) /\ Reject(o) /\ UNCHANGED cache
           \/ /\ CanLookUp(Of[o])
              /\ cache' = [cache EXCEPT ![Of[o]] = [LookUp(Of[o]) EXCEPT !.vol = g]]
              /\ IF Enough(LookUp(Of[o]).vol, first, order[o].leaves)
                 THEN Accept(o, [NoCps EXCEPT ![Of[o]] =
                                    [first |-> FromFirst(LookUp(Of[o]).vol, first, order[o].leaves),
                                     avl |-> FromAvl(LookUp(Of[o]).vol, first, order[o].leaves)]])
                 ELSE Reject(o)
    PROVE  /\ cache' \in [Security -> Entry \cup {Nothing}]
           /\ \A s \in Security : OnlyMoved(s)
           /\ \/ Reject(o)
              \/ /\ cache'[Of[o]] # Nothing
                 /\ \E cps \in [Security -> [first : Count, avl : Count]] : Accept(o, cps)
<1>1. Of[o] \in Security /\ order[o].leaves \in Count
  BY DayIs DEF UserInv, UserTypes, OrderState
<1>2. CASE ~CanLookUp(Of[o])
  BY <1>2 DEF UserInv, UserTypes, OnlyMoved
<1>3. CASE CanLookUp(Of[o])
  <2> DEFINE e == [LookUp(Of[o]) EXCEPT !.vol = g]
             h == LookUp(Of[o]).vol
             n == order[o].leaves
  <2>1. e \in Entry /\ e.stored /\ AllKept(h, e.vol)
    BY <1>1, <1>3, EntryIs
  <2>2. FromFirst(h, first, n) \in Count /\ FromAvl(h, first, n) \in Count
    BY <1>1, <1>3, LookUpIs, TakenIs
  <2>3. cache' = [cache EXCEPT ![Of[o]] = e]
    BY <1>3
  <2>4. cache' \in [Security -> Entry \cup {Nothing}] /\ cache'[Of[o]] = e
        /\ \A s \in Security : s # Of[o] => cache'[s] = cache[s]
    BY <1>1, <2>1, <2>3 DEF UserInv, UserTypes
  <2>5. \A s \in Security : OnlyMoved(s)
    <3> HIDE DEF e
    <3> QED  BY <1>3, <2>1, <2>4 DEF OnlyMoved
  <2>6. cache'[Of[o]] # Nothing
    BY <2>1, <2>4, SecurityIs
  <2>7. [NoCps EXCEPT ![Of[o]] = [first |-> FromFirst(h, first, n), avl |-> FromAvl(h, first, n)]]
           \in [Security -> [first : Count, avl : Count]]
    BY <1>1, <2>2, CpsIs
  <2> QED  BY <1>3, <2>4, <2>5, <2>6, <2>7
<1> QED  BY <1>2, <1>3

LEMMA TradePrepIs ==
    ASSUME UserInv, NEW o \in Order, TradePrep(o)
    PROVE  /\ NoTrade /\ order[o].state = "new"
           /\ \/ Reject(o)
              \/ /\ HasEntries(o)'
                 /\ \E cps \in [Security -> [first : Count, avl : Count]] : Accept(o, cps)
<1>1. /\ order[o].state = "new" /\ UNCHANGED <<day, sql, db, lost, refused>>
      /\ Of[o] \in Security /\ order[o].leaves \in Count /\ Kind[o]' = Kind[o] /\ Of[o]' = Of[o]
  BY DayIs DEF UserInv, UserTypes, OrderState, TradePrep, Kind, Of
<1> DEFINE s == Of[o]
           h == LookUp(s).vol
           n == order[o].leaves
<1>2. CanLookUp(s) => /\ AllKept(h, SellFroze(h, n)) /\ AllKept(h, SellEtfFroze(h, n))
                      /\ AllKept(h, RedemptionFroze(h, n))
  <2> SUFFICES ASSUME CanLookUp(s)
               PROVE  /\ AllKept(h, SellFroze(h, n)) /\ AllKept(h, SellEtfFroze(h, n))
                      /\ AllKept(h, RedemptionFroze(h, n))
    OBVIOUS
  <2>1. h \in Holding
    BY <1>1, LookUpIs
  <2>2. {"rdp", "crt", "act"} \subseteq Part \ {"avl"}
    BY DEF Part
  <2> HIDE DEF h, n
  <2>3. n \in Count
    BY <1>1 DEF n
  <2> QED  BY <2>1, <2>2, <2>3, FrozePartsKeeps DEF SellFroze, SellEtfFroze, RedemptionFroze
<1>3. ASSUME Kind[o] = "sell", FrozeOne(o, "rdp", SellFroze)
      PROVE  /\ cache' \in [Security -> Entry \cup {Nothing}] /\ \A t \in Security : OnlyMoved(t)
             /\ \/ Reject(o)
                \/ /\ cache'[s] # Nothing
                   /\ \E cps \in [Security -> [first : Count, avl : Count]] : Accept(o, cps)
  <2>1. "rdp" \in Part \ {"avl"}
    BY DEF Part
  <2> QED  BY <1>2, <1>3, <2>1, FrozeOneIs DEF FrozeOne
<1>4. ASSUME Kind[o] = "etf_sell", FrozeOne(o, "crt", SellEtfFroze)
      PROVE  /\ cache' \in [Security -> Entry \cup {Nothing}] /\ \A t \in Security : OnlyMoved(t)
             /\ \/ Reject(o)
                \/ /\ cache'[s] # Nothing
                   /\ \E cps \in [Security -> [first : Count, avl : Count]] : Accept(o, cps)
  <2>1. "crt" \in Part \ {"avl"}
    BY DEF Part
  <2> QED  BY <1>2, <1>4, <2>1, FrozeOneIs DEF FrozeOne
<1>5. ASSUME Kind[o] = "etf_rdp", FrozeOne(o, "act", RedemptionFroze)
      PROVE  /\ cache' \in [Security -> Entry \cup {Nothing}] /\ \A t \in Security : OnlyMoved(t)
             /\ \/ Reject(o)
                \/ /\ cache'[s] # Nothing
                   /\ \E cps \in [Security -> [first : Count, avl : Count]] : Accept(o, cps)
  <2>1. "act" \in Part \ {"avl"}
    BY DEF Part
  <2> QED  BY <1>2, <1>5, <2>1, FrozeOneIs DEF FrozeOne
<1>6. CASE Kind[o] \in {"buy", "etf_buy"} /\ Accept(o, NoCps) /\ UNCHANGED cache
  <2>1. HasEntries(o)'
    BY <1>1, <1>6 DEF HasEntries
  <2>2. cache' \in [Security -> Entry \cup {Nothing}] /\ \A t \in Security : OnlyMoved(t)
    BY <1>6 DEF UserInv, UserTypes, OnlyMoved
  <2> QED  BY <1>1, <1>6, <2>1, <2>2, CpsIs DEF NoTrade
<1>7. CASE Kind[o] \in {"sell", "etf_sell", "etf_rdp"}
  <2>1. /\ cache' \in [Security -> Entry \cup {Nothing}] /\ \A t \in Security : OnlyMoved(t)
        /\ \/ Reject(o)
           \/ /\ cache'[s] # Nothing
              /\ \E cps \in [Security -> [first : Count, avl : Count]] : Accept(o, cps)
    BY <1>3, <1>4, <1>5, <1>7 DEF TradePrep
  <2>2. cache'[s] # Nothing => HasEntries(o)'
    BY <1>1, <1>7 DEF HasEntries
  <2> QED  BY <1>1, <2>1, <2>2 DEF NoTrade
<1> QED  BY <1>3, <1>4, <1>5, <1>6, <1>7 DEF TradePrep

\* A component of a creation, looked up or frozen.
LEMMA ComponentMoved ==
    ASSUME UserInv, NEW o \in Order, NEW c \in Component, CanLookUp(c)
    PROVE  LET e == [LookUp(c) EXCEPT !.vol = CreationFroze(@, Needed(o, c))]
           IN  /\ e \in Entry /\ e.stored /\ AllKept(LookUp(c).vol, e.vol)
               /\ LookUp(c) \in Entry /\ LookUp(c).stored /\ AllKept(LookUp(c).vol, LookUp(c).vol)
<1> DEFINE h == LookUp(c).vol
           g == CreationFroze(h, Needed(o, c))
<1>1. c \in Security /\ Needed(o, c) \in Count /\ h \in Holding /\ LookUp(c) \in Entry /\ LookUp(c).stored
  BY SecurityIs, NeededIs, LookUpIs DEF UserInv, UserTypes
<1>2. "act" \in Part \ {"avl"} /\ "rdp" \in Part \ {"avl"}
  BY DEF Part
<1>3. AllKept(h, g) /\ AllKept(h, h)
  BY <1>1, <1>2, FrozePartsKeeps, AllKeptSame DEF CreationFroze
<1>4. [LookUp(c) EXCEPT !.vol = CreationFroze(@, Needed(o, c))] = [LookUp(c) EXCEPT !.vol = g]
  BY <1>1 DEF Entry
<1> QED  BY <1>1, <1>3, <1>4, EntryIs

LEMMA CreationQueryIs ==
    ASSUME UserInv, NEW o \in Order, CreationQuery(o)
    PROVE  /\ NoTrade /\ order[o].state = "new"
           /\ \/ Reject(o)
              \/ /\ HasEntries(o)'
                 /\ \E cps \in [Security -> [first : Count, avl : Count]] : Accept(o, cps)
<1> DEFINE short(c) == ~Enough(LookUp(c).vol, "act", Needed(o, c))
           part(c) == [first |-> FromFirst(LookUp(c).vol, "act", Needed(o, c)),
                       avl |-> FromAvl(LookUp(c).vol, "act", Needed(o, c))]
           upTo(i) == {Components[j] : j \in 1..i}
           found(s) == IF CanLookUp(s) THEN LookUp(s) ELSE Nothing
           frozen(s) == [LookUp(s) EXCEPT !.vol = CreationFroze(@, Needed(o, s))]
           passes(c) == CanLookUp(c) /\ (short(c) => Substitute[c] = "Security_And_Cash")
<1>1. /\ order[o].state = "new" /\ UNCHANGED <<day, sql, db, lost, refused>> /\ Kind[o] = "etf_crt"
      /\ Kind[o]' = Kind[o] /\ Of[o]' = Of[o]
  BY DEF CreationQuery, Kind, Of
<1>2. \A c \in Component : CanLookUp(c) =>
         /\ frozen(c) \in Entry /\ frozen(c).stored /\ AllKept(LookUp(c).vol, frozen(c).vol)
         /\ LookUp(c) \in Entry /\ LookUp(c).stored /\ AllKept(LookUp(c).vol, LookUp(c).vol)
  BY ComponentMoved
<1>3. \A i \in DOMAIN Components : upTo(i) \subseteq Component
  BY SecurityIs
<1>4. /\ cache \in [Security -> Entry \cup {Nothing}]
      /\ \A s \in Security : cache[s] # Nothing => CanLookUp(s)
      /\ \A s \in Security : ~CanLookUp(s) => cache[s] = Nothing
  BY DEF UserInv, UserTypes, CanLookUp
<1> HIDE DEF upTo
<1>5. ASSUME NEW i \in DOMAIN Components,
             cache' = [s \in Security |-> IF s \in upTo(i) THEN found(s) ELSE cache[s]], Reject(o)
      PROVE  NoTrade /\ Reject(o)
  <2>1. \A s \in Security : \/ cache'[s] = cache[s]
                            \/ s \in Component /\ CanLookUp(s) /\ cache'[s] = LookUp(s)
    BY <1>3, <1>4, <1>5
  <2>2. \A s \in Security : OnlyMoved(s) /\ cache'[s] \in Entry \cup {Nothing}
    BY <1>2, <1>4, <2>1 DEF OnlyMoved
  <2> QED  BY <1>1, <1>5, <2>2 DEF NoTrade
<1>6. ASSUME \A c \in Component : passes(c),
             cache' = [s \in Security |-> IF s \in Component THEN frozen(s) ELSE cache[s]],
             Accept(o, [s \in Security |-> IF s \in Component THEN part(s) ELSE NoCps[s]])
      PROVE  NoTrade /\ HasEntries(o)'
             /\ \E cps \in [Security -> [first : Count, avl : Count]] : Accept(o, cps)
  <2>1. \A c \in Component : CanLookUp(c)
    BY <1>6
  <2>2. \A s \in Security : OnlyMoved(s) /\ cache'[s] \in Entry \cup {Nothing}
    <3> HIDE DEF frozen
    <3> QED  BY <1>2, <1>4, <1>6, <2>1 DEF OnlyMoved
  <2>3. \A c \in Component : cache'[c] # Nothing
    <3> HIDE DEF frozen
    <3> QED  BY <1>2, <1>6, <2>1, SecurityIs
  <2>4. HasEntries(o)'
    BY <1>1, <2>3 DEF HasEntries
  <2>5. \A c \in Component : part(c) \in [first : Count, avl : Count]
    <3>1. "act" \in Part
      BY DEF Part
    <3> QED  BY <2>1, <3>1, SecurityIs, NeededIs, LookUpIs, TakenIs DEF UserInv, UserTypes
  <2>6. [s \in Security |-> IF s \in Component THEN part(s) ELSE NoCps[s]]
           \in [Security -> [first : Count, avl : Count]]
    <3> HIDE DEF part
    <3> QED  BY <2>5, CpsIs
  <2> QED  BY <1>1, <1>6, <2>2, <2>4, <2>6 DEF NoTrade
<1>7. ASSUME NEW i \in DOMAIN Components, \A c \in Component : passes(c),
             cache' = [s \in Security |-> IF s \in upTo(i) THEN frozen(s)
                                          ELSE IF s \in Component THEN LookUp(s) ELSE cache[s]],
             Reject(o)
      PROVE  NoTrade /\ Reject(o)
  <2>1. \A c \in Component : CanLookUp(c)
    BY <1>7
  <2>2. \A s \in Security : OnlyMoved(s) /\ cache'[s] \in Entry \cup {Nothing}
    <3> HIDE DEF frozen
    <3> QED  BY <1>2, <1>3, <1>4, <1>7, <2>1 DEF OnlyMoved
  <2> QED  BY <1>1, <1>7, <2>2 DEF NoTrade
<1>8. \/ \E i \in DOMAIN Components :
            /\ cache' = [s \in Security |-> IF s \in upTo(i) THEN found(s) ELSE cache[s]]
            /\ Reject(o)
      \/ /\ \A c \in Component : passes(c)
         /\ cache' = [s \in Security |-> IF s \in Component THEN frozen(s) ELSE cache[s]]
         /\ Accept(o, [s \in Security |-> IF s \in Component THEN part(s) ELSE NoCps[s]])
      \/ \E i \in DOMAIN Components :
            /\ \A c \in Component : passes(c)
            /\ cache' = [s \in Security |-> IF s \in upTo(i) THEN frozen(s)
                                            ELSE IF s \in Component THEN LookUp(s) ELSE cache[s]]
            /\ Reject(o)
  BY DEF CreationQuery, upTo
<1> HIDE DEF found, frozen, passes, part
<1> QED  BY <1>1, <1>5, <1>6, <1>7, <1>8

LEMMA CancelIs ==
    ASSUME UserInv, NEW o \in Order, UpdateAfterCancel(o)
    PROVE  /\ NoTrade /\ order[o].state = "resting"
           /\ order' = [order EXCEPT ![o].state = "cancelled", ![o].cps = NoCps]
<1> DEFINE s == Of[o]
           cps == order[o].cps[s]
           h == cache[s].vol
<1>1. /\ order[o].state = "resting" /\ UNCHANGED <<day, sql, db, lost, refused>> /\ s \in Security
      /\ order' = [order EXCEPT ![o].state = "cancelled", ![o].cps = NoCps]
      /\ cps.first \in Count /\ cps.avl \in Count /\ cache \in [Security -> Entry \cup {Nothing}]
  BY DayIs DEF UserInv, UserTypes, OrderState, UpdateAfterCancel
<1>2. CASE UNCHANGED cache
  BY <1>1, <1>2 DEF NoTrade, OnlyMoved
<1>3. ASSUME Kind[o] \in {"sell", "etf_sell"}, NEW g, AllKept(h, g),
             cache' = [cache EXCEPT ![s].vol = g]
      PROVE  NoTrade
  <2>1. cache[s] # Nothing
    BY <1>1, <1>3 DEF UserInv, Loaded, HasEntries
  <2>2. CanLookUp(s) /\ LookUp(s) = cache[s] /\ cache[s] \in Entry
    BY <1>1, <2>1, LookUpIs
  <2> DEFINE e == [LookUp(s) EXCEPT !.vol = g]
  <2>3. e \in Entry /\ e.stored /\ AllKept(LookUp(s).vol, e.vol)
    BY <1>1, <1>3, <2>2, EntryIs
  <2>4. cache' = [cache EXCEPT ![s] = e]
    BY <1>1, <1>3, <2>2
  <2> HIDE DEF e
  <2>5. \A t \in Security : OnlyMoved(t) /\ cache'[t] \in Entry \cup {Nothing}
    BY <1>1, <2>2, <2>3, <2>4 DEF OnlyMoved
  <2> QED  BY <1>1, <2>4, <2>5 DEF NoTrade
<1>4. Kind[o] \in {"sell", "etf_sell"} =>
         AllKept(h, SellDeFroze(h, cps.first, cps.avl)) /\ AllKept(h, SellEtfDeFroze(h, cps.first, cps.avl))
  <2> SUFFICES ASSUME Kind[o] \in {"sell", "etf_sell"}
               PROVE  /\ AllKept(h, SellDeFroze(h, cps.first, cps.avl))
                      /\ AllKept(h, SellEtfDeFroze(h, cps.first, cps.avl))
    OBVIOUS
  <2>1. cache[s] # Nothing
    BY <1>1 DEF UserInv, Loaded, HasEntries
  <2>2. h \in Holding
    BY <1>1, <2>1 DEF Entry
  <2>3. "rdp" \in Part \ {"avl"} /\ "crt" \in Part \ {"avl"}
    BY DEF Part
  <2> HIDE DEF h, cps
  <2>4. cps.first \in Count /\ cps.avl \in Count
    BY <1>1 DEF cps
  <2> QED  BY <2>2, <2>3, <2>4, DeFrozePartsKeeps DEF SellDeFroze, SellEtfDeFroze
<1>5. \/ UNCHANGED cache
      \/ Kind[o] = "sell" /\ cache' = [cache EXCEPT ![s].vol = SellDeFroze(h, cps.first, cps.avl)]
      \/ Kind[o] = "etf_sell" /\ cache' = [cache EXCEPT ![s].vol = SellEtfDeFroze(h, cps.first, cps.avl)]
  BY DEF UpdateAfterCancel
<1> QED  BY <1>1, <1>2, <1>3, <1>4, <1>5

\* Such a step keeps the invariant.
LEMMA NoTradeKeeps ==
    ASSUME UserInv, NoTrade, NEW o \in Order,
           \/ Reject(o)
           \/ /\ HasEntries(o)' /\ order[o].state = "new"
              /\ \E cps \in [Security -> [first : Count, avl : Count]] : Accept(o, cps)
           \/ order' = [order EXCEPT ![o].state = "cancelled", ![o].cps = NoCps]
    PROVE  UserInv' /\ \A p \in Order : order'[p].leaves = order[p].leaves
<1>1. /\ day' = day /\ sql' = sql /\ db' = db /\ lost' = lost /\ refused' = refused
      /\ Kind' = Kind /\ Of' = Of /\ Qty' = Qty /\ cache' \in [Security -> Entry \cup {Nothing}]
  BY DEF NoTrade, Kind, Of, Qty
<1>2. \A s \in Security : /\ cache[s] # Nothing => cache'[s] # Nothing
                          /\ cache'[s] # Nothing => cache'[s].stored
  BY SecurityIs DEF NoTrade, OnlyMoved, UserInv
<1>3. PICK st \in {"rejected", "resting", "cancelled"} :
        \E cps \in [Security -> [first : Count, avl : Count]] :
          /\ order' = [order EXCEPT ![o] = [state |-> st, leaves |-> order[o].leaves, cps |-> cps]]
          /\ st = "resting" => HasEntries(o)' /\ order[o].state = "new"
  <2>1. order[o] \in OrderState /\ order \in [Order -> OrderState]
    BY DEF UserInv, UserTypes
  <2>2. order[o].cps \in [Security -> [first : Count, avl : Count]]
    BY <2>1 DEF OrderState
  <2> DEFINE r == order[o]
  <2>0. /\ DOMAIN order = Order
        /\ \A x, y : /\ [r EXCEPT !.state = x] = [state |-> x, leaves |-> r.leaves, cps |-> r.cps]
                     /\ [r EXCEPT !.state = x, !.cps = y] = [state |-> x, leaves |-> r.leaves, cps |-> y]
    <3>1. DOMAIN order = Order /\ r \in [state : {"new", "rejected", "resting", "filled", "cancelled"},
                                         leaves : Count, cps : [Security -> [first : Count, avl : Count]]]
      BY <2>1 DEF OrderState
    <3> HIDE DEF r
    <3> SUFFICES ASSUME NEW x, NEW y
                 PROVE  /\ [r EXCEPT !.state = x] = [state |-> x, leaves |-> r.leaves, cps |-> r.cps]
                        /\ [r EXCEPT !.state = x, !.cps = y]
                             = [state |-> x, leaves |-> r.leaves, cps |-> y]
      BY <3>1
    <3>2. [r EXCEPT !.state = x] = [state |-> x, leaves |-> r.leaves, cps |-> r.cps]
      BY <3>1
    <3> DEFINE q == [r EXCEPT !.state = x]
    <3>3. [r EXCEPT !.state = x, !.cps = y] = [q EXCEPT !.cps = y]
      BY <3>1
    <3>4. [q EXCEPT !.cps = y] = [state |-> x, leaves |-> r.leaves, cps |-> y]
      <4> HIDE DEF q
      <4>1. q = [state |-> x, leaves |-> r.leaves, cps |-> r.cps]
        BY <3>2 DEF q
      <4> QED  BY <4>1
    <3> QED  BY <3>2, <3>3, <3>4
  <2>3. CASE Reject(o)
    <3>1. order' = [order EXCEPT ![o] = [state |-> "rejected", leaves |-> order[o].leaves, cps |-> order[o].cps]]
      BY <2>0, <2>3 DEF Reject
    <3> QED  BY <2>2, <3>1
  <2>4. ASSUME NEW cps \in [Security -> [first : Count, avl : Count]], Accept(o, cps),
               HasEntries(o)', order[o].state = "new"
        PROVE  \E st \in {"rejected", "resting", "cancelled"} :
                 \E c \in [Security -> [first : Count, avl : Count]] :
                   /\ order' = [order EXCEPT ![o] = [state |-> st, leaves |-> order[o].leaves, cps |-> c]]
                   /\ st = "resting" => HasEntries(o)' /\ order[o].state = "new"
    <3>1. order' = [order EXCEPT ![o] = [state |-> "resting", leaves |-> order[o].leaves, cps |-> cps]]
      BY <2>0, <2>4 DEF Accept
    <3> QED  BY <2>4, <3>1
  <2>5. CASE order' = [order EXCEPT ![o].state = "cancelled", ![o].cps = NoCps]
    <3>1. order' = [order EXCEPT ![o] = [state |-> "cancelled", leaves |-> order[o].leaves, cps |-> NoCps]]
      BY <2>0, <2>5
    <3> QED  BY <3>1, CpsIs
  <2> QED  BY <2>3, <2>4, <2>5
<1>4. PICK cps \in [Security -> [first : Count, avl : Count]] :
        /\ order' = [order EXCEPT ![o] = [state |-> st, leaves |-> order[o].leaves, cps |-> cps]]
        /\ st = "resting" => HasEntries(o)' /\ order[o].state = "new"
  BY <1>3
<1>5. /\ order' \in [Order -> OrderState] /\ order'[o].state = st
      /\ \A p \in Order : order'[p].leaves = order[p].leaves
      /\ \A p \in Order \ {o} : order'[p] = order[p]
  <2>1. order \in [Order -> OrderState] /\ order[o].leaves \in Count
    BY DEF UserInv, UserTypes, OrderState
  <2>2. [state |-> st, leaves |-> order[o].leaves, cps |-> cps] \in OrderState
    BY <2>1 DEF OrderState
  <2> QED  BY <1>4, <2>1, <2>2
<1>6. Loaded'
  <2> SUFFICES ASSUME NEW p \in Order, order'[p].state = "resting" PROVE HasEntries(p)'
    BY DEF Loaded
  <2>1. CASE p = o
    BY <1>4, <1>5, <2>1
  <2>2. CASE p # o
    <3>1. HasEntries(p) /\ Of[p] \in Security
      BY <1>5, <2>2, DayIs DEF UserInv, UserTypes, Loaded
    <3> QED  BY <1>1, <1>2, <3>1, SecurityIs DEF HasEntries
  <2> QED  BY <2>1, <2>2
<1>7. \A p \in Order : Kind'[p] \in Whole /\ order'[p].state \in {"new", "resting"} =>
                          order'[p].leaves = Qty'[p]
  <2> SUFFICES ASSUME NEW p \in Order, Kind[p] \in Whole, order'[p].state \in {"new", "resting"}
               PROVE  order'[p].leaves = Qty[p]
    BY <1>1
  <2>1. order[p].state \in {"new", "resting"}
    BY <1>4, <1>5
  <2> QED  BY <1>5, <2>1 DEF UserInv
<1>8. UserTypes'
  BY <1>1, <1>5 DEF UserInv, UserTypes
<1> QED  BY <1>1, <1>2, <1>5, <1>6, <1>7, <1>8 DEF UserInv

-----------------------------------------------------------------------------
(* Trades.                                                                 *)

LEMMA NoValues == <<>> \in Values
<1>1. <<>> \in [{} -> Count]
  OBVIOUS
<1> QED  BY <1>1 DEF Values

\* What the statement u that a trade of s queues says of a holding h: it
\* expects what was last written and writes the parts named and the total.
Says(s, h, parts, u) ==
    /\ parts \subseteq Columns(s)
    /\ CanLookUp(s) =>
         /\ DOMAIN u.where = parts \cup {"stk", "last"} /\ DOMAIN u.set = parts \cup {"stk", "last"}
         /\ u.where["last"] = h["last"].syn /\ u.set["last"] = h["stk"].syn
         /\ \A c \in parts \cup {"stk"} : u.where[c] = h[c].syn /\ u.set[c] = Held(h[c])
    /\ ~CanLookUp(s) =>
         u.set = [c \in Columns(s) |-> IF c \in parts \cup {"stk"} THEN Held(h[c]) ELSE 0]
    /\ \A b \in Balance \ (parts \cup {"stk"}) : h[b] = LookUpOrNew(s).vol[b]

\* Only the statement for a component that is redeemed may be wrong.
Redeemed(s) == s \in Component /\ \E o \in Order : Kind[o] = "etf_rdp"

Wrote(s, u) ==
    \E h \in Holding, parts \in SUBSET Part :
       /\ cache'[s] = Synced([LookUpOrNew(s) EXCEPT !.vol = h], parts)
       /\ \A b \in Balance : h[b].syn = LookUpOrNew(s).vol[b].syn
       /\ u \in Statement /\ u.of = s
       /\ CanLookUp(s) => u.op = "UPDATE"
       /\ ~CanLookUp(s) => u.op = "INSERT" \/ (u.op = "error" /\ Redeemed(s))
       /\ OtherOrders => Says(s, h, parts, u)

LEMMA UpdateSqlIs ==
    ASSUME NEW s \in Security, NEW h \in Holding, NEW from,
           NEW D \in SUBSET (Balance \ {"last"}), from \in [D -> Balance]
    PROVE  LET u == UpdateSql(s, h, from)
           IN  /\ u \in Statement /\ u.of = s /\ u.op = "UPDATE"
               /\ DOMAIN u.where = D \cup {"last"} /\ DOMAIN u.set = D \cup {"last"}
               /\ u.where["last"] = h["last"].syn /\ u.set["last"] = h["stk"].syn
               /\ \A c \in D : u.where[c] = h[from[c]].syn /\ u.set[c] = Held(h[from[c]])
<1> DEFINE w == [c \in DOMAIN from \cup {"last"} |->
                    IF c = "last" THEN h["last"].syn ELSE h[from[c]].syn]
           t == [c \in DOMAIN from \cup {"last"} |->
                    IF c = "last" THEN h["stk"].syn ELSE Held(h[from[c]])]
<1>1. \A b \in Balance : h[b].syn \in Count /\ Held(h[b]) \in Count
  BY Balances, HeldIs DEF Volume
<1>2. DOMAIN from = D /\ D \cup {"last"} \in SUBSET Balance /\ "last" \in Balance /\ "stk" \in Balance
  BY Balances
<1>3. w \in [D \cup {"last"} -> Count] /\ t \in [D \cup {"last"} -> Count]
  BY <1>1, <1>2
<1>4. w \in Values /\ t \in Values
  <2> HIDE DEF w, t
  <2> QED  BY <1>2, <1>3 DEF Values
<1>5. \A c \in D : w[c] = h[from[c]].syn /\ t[c] = Held(h[from[c]])
  BY <1>2
<1>6. w["last"] = h["last"].syn /\ t["last"] = h["stk"].syn /\ DOMAIN w = D \cup {"last"}
      /\ DOMAIN t = D \cup {"last"}
  BY <1>2
<1>7. UpdateSql(s, h, from) = [op |-> "UPDATE", of |-> s, where |-> w, set |-> t]
  BY DEF UpdateSql
<1> HIDE DEF w, t
<1> QED  BY <1>4, <1>5, <1>6, <1>7 DEF Statement

LEMMA InsertSqlIs ==
    ASSUME NEW s \in Security, NEW h \in Holding, NEW from,
           NEW D \in SUBSET (Balance \ {"last"}), from \in [D -> Balance]
    PROVE  LET u == InsertSql(s, h, from)
           IN  /\ u \in Statement /\ u.of = s /\ u.op = "INSERT"
               /\ u.set = [c \in Columns(s) |-> IF c \in D THEN Held(h[from[c]]) ELSE 0]
<1> DEFINE t == [c \in Columns(s) |-> IF c \in DOMAIN from THEN Held(h[from[c]]) ELSE 0]
<1>1. \A b \in Balance : Held(h[b]) \in Count
  BY Balances, HeldIs
<1>2. DOMAIN from = D
  OBVIOUS
<1>3. t \in [Columns(s) -> Count]
  BY <1>1, <1>2, CountIs
<1>4. t \in Values /\ t \in Row(s)
  <2> HIDE DEF t
  <2> QED  BY <1>3, ColumnsIn DEF Values, Row
<1>5. t = [c \in Columns(s) |-> IF c \in D THEN Held(h[from[c]]) ELSE 0]
  BY <1>2
<1>6. InsertSql(s, h, from) = [op |-> "INSERT", of |-> s, where |-> <<>>, set |-> t]
  BY DEF InsertSql
<1> HIDE DEF t
<1> QED  BY <1>4, <1>5, <1>6, NoValues DEF Statement

LEMMA WrongSqlIs ==
    ASSUME NEW s \in Security
    PROVE  WrongSql(s) \in Statement /\ WrongSql(s).of = s /\ WrongSql(s).op = "error"
BY NoValues DEF WrongSql, Statement

\* The statement u and the entry of a trade that leaves a holding h of s.
Makes(s, h, parts, D, from, u) ==
    /\ h \in Holding /\ \A b \in Balance : h[b].syn = LookUpOrNew(s).vol[b].syn
    /\ parts \in SUBSET Part
    /\ cache'[s] = Synced([LookUpOrNew(s) EXCEPT !.vol = h], parts)
    /\ D \in SUBSET (Balance \ {"last"}) /\ from \in [D -> Balance]
    /\ \/ CanLookUp(s) /\ u = UpdateSql(s, h, from)
       \/ ~CanLookUp(s) /\ u = InsertSql(s, h, from)
       \/ ~CanLookUp(s) /\ u = WrongSql(s) /\ Redeemed(s)
    /\ OtherOrders => /\ parts \subseteq Columns(s) /\ D = parts \cup {"stk"}
                      /\ \A c \in D : from[c] = c
                      /\ \A b \in Balance \ (parts \cup {"stk"}) : h[b] = LookUpOrNew(s).vol[b]

LEMMA WroteIs ==
    ASSUME UserInv, NEW s \in Security, NEW h, NEW parts, NEW D, NEW from, NEW u,
           Makes(s, h, parts, D, from, u)
    PROVE  Wrote(s, u)
<1> USE DEF Makes
<1>1. ASSUME CanLookUp(s) PROVE Wrote(s, u)
  <2>1. u = UpdateSql(s, h, from)
    BY <1>1
  <2>2. /\ u \in Statement /\ u.of = s /\ u.op = "UPDATE"
        /\ DOMAIN u.where = D \cup {"last"} /\ DOMAIN u.set = D \cup {"last"}
        /\ u.where["last"] = h["last"].syn /\ u.set["last"] = h["stk"].syn
        /\ \A c \in D : u.where[c] = h[from[c]].syn /\ u.set[c] = Held(h[from[c]])
    BY <2>1, UpdateSqlIs
  <2>3. OtherOrders => Says(s, h, parts, u)
    BY <1>1, <2>2 DEF Says
  <2> QED  BY <1>1, <2>2, <2>3 DEF Wrote
<1>2. ASSUME ~CanLookUp(s), u = InsertSql(s, h, from) PROVE Wrote(s, u)
  <2>1. /\ u \in Statement /\ u.of = s /\ u.op = "INSERT"
        /\ u.set = [c \in Columns(s) |-> IF c \in D THEN Held(h[from[c]]) ELSE 0]
    BY <1>2, InsertSqlIs
  <2>2. OtherOrders => Says(s, h, parts, u)
    BY <1>2, <2>1 DEF Says
  <2> QED  BY <1>2, <2>1, <2>2 DEF Wrote
<1>3. ASSUME ~CanLookUp(s), u = WrongSql(s), Redeemed(s) PROVE Wrote(s, u)
  <2>1. u \in Statement /\ u.of = s /\ u.op = "error"
    BY <1>3, WrongSqlIs
  <2>2. ~OtherOrders
    BY <1>3 DEF Redeemed, OtherOrders
  <2> QED  BY <1>3, <2>1, <2>2 DEF Wrote
<1> QED  BY <1>1, <1>2, <1>3

\* The entry it leaves.
LEMMA SyncedIs ==
    ASSUME UserInv, NEW s \in Security, NEW h \in Holding, NEW parts \in SUBSET Part
    PROVE  LET e == Synced([LookUpOrNew(s) EXCEPT !.vol = h], parts)
           IN  e \in Entry /\ e.stored /\ e.vol = SynParts(h, parts) /\ e # Nothing
<1>1. [LookUpOrNew(s) EXCEPT !.vol = h].vol = h
  BY LookUpIs DEF Entry
<1>2. SynParts(h, parts) \in Holding
  BY SynPartsIs
<1> DEFINE g == SynParts(h, parts)
<1>3. Synced([LookUpOrNew(s) EXCEPT !.vol = h], parts) = [stored |-> TRUE, vol |-> g]
  BY <1>1 DEF Synced
<1> HIDE DEF g
<1>4. g \in Holding
  BY <1>2 DEF g
<1>5. [stored |-> TRUE, vol |-> g] \in Entry
  BY <1>4 DEF Entry
<1> QED  BY <1>3, <1>5, SecurityIs DEF g

Cps == [Security -> [first : Count, avl : Count]]

\* The order has less left, and only some kinds go on with it.
Reduced(o) ==
    \E st \in {"filled", "resting"}, n \in Count, cps \in Cps :
       /\ order' = [order EXCEPT ![o] = [state |-> st, leaves |-> n, cps |-> cps]]
       /\ n < order[o].leaves
       /\ st = "resting" => Kind[o] \notin Whole

\* The statements p are queued, at most one for each security.
Queued ==
    /\ cache' \in [Security -> Entry \cup {Nothing}]
    /\ \E p \in Seq(Statement) :
          /\ sql' = sql \o p
          /\ \A s \in Security :
                \/ cache'[s] = cache[s] /\ \A i \in DOMAIN p : p[i].of # s
                \/ \E k \in DOMAIN p : Wrote(s, p[k]) /\ \A i \in DOMAIN p \ {k} : p[i].of # s

TradeStep(o) ==
    /\ UNCHANGED <<day, db, lost, refused>>
    /\ order[o].state = "resting"
    /\ Queued
    /\ Reduced(o)

LEMMA OrderIs ==
    ASSUME UserInv, NEW o \in Order
    PROVE  /\ order[o].leaves \in Count /\ order[o].leaves \in Nat
           /\ order[o].cps \in Cps
           /\ \A s \in Security : /\ order[o].cps[s].first \in Count /\ order[o].cps[s].avl \in Count
                                  /\ order[o].cps[s].first \in Nat /\ order[o].cps[s].avl \in Nat
           /\ order \in [Order -> OrderState]
BY CountIs DEF UserInv, UserTypes, OrderState, Cps

LEMMA FilledIs ==
    ASSUME UserInv, NEW o \in Order, NEW q \in Nat, 0 < q, q <= order[o].leaves,
           Kind[o] \in Whole => q = order[o].leaves, NEW cps \in Cps, Filled(o, q, cps)
    PROVE  Reduced(o)
<1> DEFINE st == IF order[o].leaves = q THEN "filled" ELSE "resting"
           n == order[o].leaves - q
<1>1. order[o].leaves \in Count /\ order[o].leaves \in Nat /\ order[o].leaves < Modulus /\ Modulus \in Nat
  BY OrderIs, CountIs
<1>2. n \in Nat /\ n < Modulus /\ n < order[o].leaves
  BY <1>1
<1>3. n \in Count
  <2> HIDE DEF n
  <2> QED  BY <1>2, CountIs
<1>4. order' = [order EXCEPT ![o] = [state |-> st, leaves |-> n, cps |-> cps]]
  BY OrderIs DEF Filled
<1>5. st \in {"filled", "resting"} /\ (st = "resting" => Kind[o] \notin Whole)
  OBVIOUS
<1> HIDE DEF st, n
<1> QED  BY <1>2, <1>3, <1>4, <1>5 DEF Reduced

LEMMA QueuedOne ==
    ASSUME UserInv, NEW s \in Security, NEW u, Wrote(s, u), NEW x,
           cache' = [cache EXCEPT ![s] = x], sql' = Append(sql, u)
    PROVE  Queued
<1>1. u \in Statement /\ u.of = s
  BY DEF Wrote
<1>2. cache'[s] \in Entry
  <2>1. PICK h \in Holding, parts \in SUBSET Part :
           cache'[s] = Synced([LookUpOrNew(s) EXCEPT !.vol = h], parts)
    BY DEF Wrote
  <2> QED  BY <2>1, SyncedIs
<1>3. cache' \in [Security -> Entry \cup {Nothing}] /\ \A t \in Security \ {s} : cache'[t] = cache[t]
  BY <1>2 DEF UserInv, UserTypes
<1> DEFINE p == <<u>>
<1>4. p \in Seq(Statement) /\ DOMAIN p = {1} /\ p[1] = u /\ sql' = sql \o p
  BY <1>1, AppendIsConcat DEF UserInv, UserTypes
<1> HIDE DEF p
<1>5. \A t \in Security :
         \/ cache'[t] = cache[t] /\ \A i \in DOMAIN p : p[i].of # t
         \/ \E k \in DOMAIN p : Wrote(t, p[k]) /\ \A i \in DOMAIN p \ {k} : p[i].of # t
  BY <1>1, <1>3, <1>4
<1> QED  BY <1>3, <1>4, <1>5 DEF Queued

\* A confirmed part is not more than the order has frozen of it.
LEMMA SellTradeIs ==
    ASSUME UserInv, NEW o \in Order, order[o].state = "resting",
           NEW q \in 1..order[o].leaves, UpdateTrade_Sell(o, q)
    PROVE  Queued /\ Reduced(o)
<1> DEFINE s == Of[o]
           cps == order[o].cps[s]
           a == IF q <= cps.first THEN q ELSE cps.first
           b == IF q <= cps.first + cps.avl THEN q - a ELSE cps.avl
           h == SellConfirm(LookUp(s).vol, a, b)
           from == [stk |-> "stk", rdp |-> "rdp", avl |-> "avl"]
           u == UpdateSql(s, h, from)
<1>1. s \in Security /\ Kind[o] = "sell" /\ s # Etf
  BY DayIs DEF UserInv, UserTypes, UpdateTrade_Sell
<1>2. CanLookUp(s) /\ LookUp(s) \in Entry /\ LookUp(s).vol \in Holding /\ LookUpOrNew(s) = LookUp(s)
  <2>1. cache[s] # Nothing
    BY <1>1 DEF UserInv, Loaded, HasEntries
  <2> QED  BY <1>1, <2>1, LookUpIs DEF LookUpOrNew
<1>3. cps.first \in Nat /\ cps.avl \in Nat /\ cps.first \in Count /\ cps.avl \in Count /\ q \in Nat
      /\ 0 < q /\ q <= order[o].leaves
  BY <1>1, OrderIs
<1>4. a \in Nat /\ b \in Nat /\ a <= cps.first /\ b <= cps.avl
  <2> HIDE DEF cps
  <2> QED  BY <1>3
<1>5. /\ cache' = [cache EXCEPT ![s] = Synced([LookUp(s) EXCEPT !.vol = h], {"rdp", "avl"})]
      /\ sql' = Append(sql, UpdateSql(s, [LookUp(s) EXCEPT !.vol = h].vol, from))
  BY <1>2 DEF UpdateTrade_Sell, Trade, SellSyn
<1>6. Filled(o, q, [order[o].cps EXCEPT ![s] = [first |-> cps.first - a, avl |-> cps.avl - b]])
  BY DEF UpdateTrade_Sell
<1> HIDE DEF a, b
<1>7. /\ h \in Holding /\ \A c \in Balance : h[c].syn = LookUp(s).vol[c].syn
      /\ \A c \in Balance \ {"rdp", "avl", "stk"} : h[c] = LookUp(s).vol[c]
  <2>1. "rdp" \in Part \ {"avl"}
    BY DEF Part
  <2> QED  BY <1>2, <1>4, <2>1, ConfirmPartsIs DEF SellConfirm
<1> HIDE DEF h
<1>8. sql' = Append(sql, u)
  BY <1>2, <1>5 DEF Entry
<1>9. Wrote(s, u)
  <2>1. from \in [{"stk", "rdp", "avl"} -> Balance] /\ \A c \in {"stk", "rdp", "avl"} : from[c] = c
    BY Balances
  <2>2. {"stk", "rdp", "avl"} \in SUBSET (Balance \ {"last"}) /\ {"rdp", "avl"} \in SUBSET Part
        /\ {"rdp", "avl"} \subseteq Columns(s) /\ {"stk", "rdp", "avl"} = {"rdp", "avl"} \cup {"stk"}
    BY <1>1 DEF Balance, Part, Columns
  <2>3. cache'[s] = Synced([LookUpOrNew(s) EXCEPT !.vol = h], {"rdp", "avl"})
    BY <1>1, <1>2, <1>5 DEF UserInv, UserTypes
  <2>4. Makes(s, h, {"rdp", "avl"}, {"stk", "rdp", "avl"}, from, u)
    BY <1>2, <1>7, <2>1, <2>2, <2>3 DEF Makes
  <2> HIDE DEF from, s, u
  <2> QED  BY <1>1, <2>4, WroteIs
<1>10. Queued
  <2> HIDE DEF u
  <2> QED  BY <1>1, <1>5, <1>8, <1>9, QueuedOne
<1>11. [order[o].cps EXCEPT ![s] = [first |-> cps.first - a, avl |-> cps.avl - b]] \in Cps
  <2> HIDE DEF cps
  <2>1. cps.first - a \in Nat /\ cps.first - a < Modulus /\ cps.avl - b \in Nat /\ cps.avl - b < Modulus
    BY <1>3, <1>4, CountIs
  <2>2. cps.first - a \in Count /\ cps.avl - b \in Count
    BY <2>1, CountIs
  <2> QED  BY <1>1, <2>2, OrderIs DEF Cps
<1> HIDE DEF cps
<1> QED  BY <1>1, <1>3, <1>6, <1>10, <1>11, FilledIs DEF Whole

LEMMA EtfSellTradeIs ==
    ASSUME UserInv, NEW o \in Order, order[o].state = "resting",
           NEW q \in 1..order[o].leaves, UpdateTrade_EtfSell(o, q)
    PROVE  Queued /\ Reduced(o)
<1> DEFINE s == Of[o]
           cps == order[o].cps[s]
           a == IF q < cps.first THEN q ELSE cps.first
           from == [stk |-> "stk", crt |-> "crt", avl |-> "avl"]
<1>1. s \in Security /\ Kind[o] = "etf_sell"
  BY DayIs DEF UserInv, UserTypes, UpdateTrade_EtfSell
<1>2. CanLookUp(s) /\ LookUp(s) \in Entry /\ LookUp(s).vol \in Holding /\ LookUpOrNew(s) = LookUp(s)
  <2>1. cache[s] # Nothing
    BY <1>1 DEF UserInv, Loaded, HasEntries
  <2> QED  BY <1>1, <2>1, LookUpIs DEF LookUpOrNew
<1>3. cps.first \in Nat /\ cps.avl \in Nat /\ cps.first \in Count /\ cps.avl \in Count /\ q \in Nat
      /\ 0 < q /\ q <= order[o].leaves
  BY <1>1, OrderIs
<1>4. a \in Nat /\ a <= q /\ a <= cps.first /\ (q < cps.first + cps.avl => q - a <= cps.avl) /\ q - a \in Nat
  <2> HIDE DEF cps
  <2> QED  BY <1>3
<1>5. ASSUME NEW x \in Nat, NEW y \in Nat,
             cache' = [cache EXCEPT ![s] = Synced([LookUp(s) EXCEPT !.vol = SellEtfConfirm(@, x, y)], {"crt", "avl"})],
             sql' = Append(sql, SellEtfSyn(s, [LookUp(s) EXCEPT !.vol = SellEtfConfirm(@, x, y)]))
      PROVE  Queued
  <2> DEFINE h == SellEtfConfirm(LookUp(s).vol, x, y)
             u == UpdateSql(s, h, from)
  <2>1. h \in Holding /\ \A c \in Balance : h[c].syn = LookUp(s).vol[c].syn
    <3>1. "crt" \in Part \ {"avl"}
      BY DEF Part
    <3> QED  BY <1>2, <3>1, ConfirmPartsIs DEF SellEtfConfirm
  <2>2. cache' = [cache EXCEPT ![s] = Synced([LookUp(s) EXCEPT !.vol = h], {"crt", "avl"})]
        /\ sql' = Append(sql, u)
    BY <1>2, <1>5 DEF SellEtfSyn, Entry
  <2> HIDE DEF h
  <2>3. Makes(s, h, {"crt", "avl"}, {"stk", "crt", "avl"}, from, u)
    <3>1. from \in [{"stk", "crt", "avl"} -> Balance]
      BY Balances
    <3>2. {"stk", "crt", "avl"} \in SUBSET (Balance \ {"last"}) /\ {"crt", "avl"} \in SUBSET Part
      BY DEF Balance, Part
    <3>3. ~OtherOrders
      BY <1>1 DEF OtherOrders
    <3>4. cache'[s] = Synced([LookUpOrNew(s) EXCEPT !.vol = h], {"crt", "avl"})
      BY <1>1, <1>2, <2>2 DEF UserInv, UserTypes
    <3> QED  BY <1>2, <2>1, <3>1, <3>2, <3>3, <3>4 DEF Makes
  <2> HIDE DEF u, from, s
  <2>4. Wrote(s, u)
    BY <1>1, <2>3, WroteIs
  <2> QED  BY <1>1, <2>2, <2>4, QueuedOne
<1>6. CASE q < cps.first + cps.avl
  <2>1. Queued
    BY <1>4, <1>5, <1>6 DEF UpdateTrade_EtfSell, Trade
  <2>2. Filled(o, q, [order[o].cps EXCEPT ![s] = [first |-> cps.first - a, avl |-> cps.avl - (q - a)]])
    BY <1>6 DEF UpdateTrade_EtfSell
  <2>3. [order[o].cps EXCEPT ![s] = [first |-> cps.first - a, avl |-> cps.avl - (q - a)]] \in Cps
    <3> HIDE DEF cps, a
    <3>1. /\ cps.first - a \in Nat /\ cps.first - a < Modulus
          /\ cps.avl - (q - a) \in Nat /\ cps.avl - (q - a) < Modulus
      BY <1>3, <1>4, <1>6, CountIs
    <3>2. cps.first - a \in Count /\ cps.avl - (q - a) \in Count
      BY <3>1, CountIs
    <3> QED  BY <1>1, <3>2, OrderIs DEF Cps
  <2> HIDE DEF cps, a
  <2> QED  BY <1>1, <1>3, <2>1, <2>2, <2>3, FilledIs DEF Whole
<1>7. CASE ~(q < cps.first + cps.avl)
  <2>1. Queued
    BY <1>5, <1>7 DEF UpdateTrade_EtfSell, Trade
  <2>2. Filled(o, q, NoCps)
    BY <1>7 DEF UpdateTrade_EtfSell
  <2> QED  BY <1>1, <1>3, <2>1, <2>2, FilledIs, CpsIs DEF Whole, Cps
<1> QED  BY <1>6, <1>7

LEMMA BuyTradeIs ==
    ASSUME UserInv, NEW o \in Order, order[o].state = "resting",
           NEW q \in 1..order[o].leaves, UpdateTrade_Buy(o, q)
    PROVE  Queued /\ Reduced(o)
<1> DEFINE s == Of[o]
           e == LookUpOrNew(s)
           h == AddAct(e.vol, q)
           bought == [e EXCEPT !.vol = h]
<1>1. s \in Security /\ q \in Nat /\ 0 < q /\ q <= order[o].leaves
  BY DayIs, OrderIs DEF UserInv, UserTypes
<1>2. e \in Entry /\ e.vol \in Holding /\ (e.stored <=> CanLookUp(s))
  BY <1>1, LookUpIs
<1>3. /\ h \in Holding /\ \A c \in Balance : h[c].syn = e.vol[c].syn
      /\ \A c \in Balance \ {"act", "stk"} : h[c] = e.vol[c]
  <2>1. "act" \in Part /\ q \in Int
    BY <1>1 DEF Part
  <2> QED  BY <1>2, <2>1, AddToIs DEF AddAct
<1>4. /\ \/ Kind[o] = "buy" /\ Trade(o, bought, {"act"}, AddSyn)
         \/ Kind[o] = "etf_buy" /\ Trade(o, bought, {"crt"}, AddEtfSyn)
      /\ Filled(o, q, NoCps)
  BY <1>2 DEF UpdateTrade_Buy, Entry
<1> HIDE DEF h
<1>5. bought.vol = h /\ bought.stored = e.stored
  BY <1>2 DEF Entry
<1>6. ASSUME NEW from \in [{"stk", "act"} -> Balance], NEW part \in {"act", "crt"},
             cache' = [cache EXCEPT ![s] = Synced(bought, {part})],
             sql' = Append(sql, UpdateOrInsert(s, bought, from)),
             OtherOrders => part = "act" /\ s # Etf /\ \A c \in {"stk", "act"} : from[c] = c
      PROVE  Queued
  <2> DEFINE u == UpdateOrInsert(s, bought, from)
  <2>1. IF CanLookUp(s) THEN u = UpdateSql(s, h, from) ELSE u = InsertSql(s, h, from)
    BY <1>2, <1>5 DEF UpdateOrInsert
  <2>2. {"stk", "act"} \in SUBSET (Balance \ {"last"}) /\ {part} \in SUBSET Part
        /\ {part} \subseteq Part /\ {"act"} \subseteq Columns(s) /\ {"stk", "act"} = {"act"} \cup {"stk"}
    BY DEF Balance, Part, Columns
  <2>3. cache'[s] = Synced([LookUpOrNew(s) EXCEPT !.vol = h], {part})
    BY <1>1, <1>6 DEF UserInv, UserTypes
  <2> HIDE DEF u
  <2>4. Makes(s, h, {part}, {"stk", "act"}, from, u)
    BY <1>3, <1>6, <2>1, <2>2, <2>3 DEF Makes
  <2>5. Wrote(s, u)
    <3> HIDE DEF s
    <3> QED  BY <1>1, <2>4, WroteIs
  <2>6. sql' = Append(sql, u)
    BY <1>6 DEF u
  <2> HIDE DEF s, bought
  <2> QED  BY <1>1, <1>6, <2>5, <2>6, QueuedOne
<1>7. CASE Kind[o] = "buy" /\ Trade(o, bought, {"act"}, AddSyn)
  <2> DEFINE from == [stk |-> "stk", act |-> "act"]
  <2>1. from \in [{"stk", "act"} -> Balance] /\ \A c \in {"stk", "act"} : from[c] = c
    BY Balances
  <2>2. s # Etf
    BY <1>7, DayIs DEF UserInv, UserTypes
  <2>3. cache' = [cache EXCEPT ![s] = Synced(bought, {"act"})]
        /\ sql' = Append(sql, UpdateOrInsert(s, bought, from))
    BY <1>7 DEF Trade, AddSyn
  <2> HIDE DEF from, bought
  <2>4. Queued
    BY <1>6, <2>1, <2>2, <2>3
  <2> QED  BY <1>1, <1>4, <1>7, <2>4, FilledIs, CpsIs DEF Whole, Cps
<1>8. CASE Kind[o] = "etf_buy" /\ Trade(o, bought, {"crt"}, AddEtfSyn)
  <2> DEFINE from == [stk |-> "stk", act |-> "crt"]
  <2>1. from \in [{"stk", "act"} -> Balance]
    BY Balances
  <2>2. ~OtherOrders
    BY <1>8 DEF OtherOrders
  <2>3. cache' = [cache EXCEPT ![s] = Synced(bought, {"crt"})]
        /\ sql' = Append(sql, UpdateOrInsert(s, bought, from))
    BY <1>8 DEF Trade, AddEtfSyn
  <2> HIDE DEF from, bought
  <2>4. Queued
    BY <1>6, <2>1, <2>2, <2>3
  <2> QED  BY <1>1, <1>4, <1>8, <2>4, FilledIs, CpsIs DEF Whole, Cps
<1> QED  BY <1>4, <1>7, <1>8

\* A statement for every component and one for the ETF, in either order.
LEMMA QueuedAll ==
    ASSUME UserInv, NEW A, A \in [DOMAIN Components -> Statement], NEW x \in Statement,
           \A i \in DOMAIN Components : Wrote(Components[i], A[i]),
           Wrote(Etf, x),
           NEW f, cache' = [s \in Security |-> f[s]],
           sql' = (sql \o A) \o <<x>> \/ sql' = Append(sql, x) \o A
    PROVE  Queued
<1> DEFINE n == Len(Components)
<1>1. n \in Nat /\ DOMAIN Components = 1..n
  BY SecurityIs
<1>2. A \in Seq(Statement) /\ Len(A) = n /\ <<x>> \in Seq(Statement) /\ sql \in Seq(Statement)
      /\ Len(<<x>>) = 1 /\ DOMAIN A = 1..n
  BY <1>1 DEF UserInv, UserTypes
<1> HIDE DEF n
<1>3. cache' \in [Security -> Entry \cup {Nothing}]
  <2>1. ASSUME NEW s \in Security PROVE cache'[s] \in Entry
    <3>1. PICK u : Wrote(s, u)
      BY <2>1, SecurityIs
    <3>2. PICK h \in Holding, parts \in SUBSET Part :
             cache'[s] = Synced([LookUpOrNew(s) EXCEPT !.vol = h], parts)
      BY <3>1 DEF Wrote
    <3> QED  BY <3>2, SyncedIs
  <2> QED  BY <2>1
<1>4. /\ x.of = Etf /\ \A i \in 1..n : A[i].of = Components[i] /\ A[i].of # Etf
      /\ \A i, j \in 1..n : i # j => A[i].of # A[j].of
      /\ \A s \in Security \ {Etf} : \E i \in 1..n : Components[i] = s
  <2>1. x.of = Etf /\ \A i \in 1..n : A[i].of = Components[i]
    <3>1. \A s, u : Wrote(s, u) => u.of = s
      BY DEF Wrote
    <3> QED  BY <1>1, <3>1
  <2>2. \A i \in 1..n : Components[i] \in Component /\ Components[i] # Etf
    BY <1>1, SecurityIs
  <2>3. \A i, j \in 1..n : Components[i] = Components[j] => i = j
    BY <1>1, UserStockAssumption
  <2>4. \A s \in Security \ {Etf} : \E i \in 1..n : Components[i] = s
    BY <1>1, SecurityIs
  <2> QED  BY <2>1, <2>2, <2>3, <2>4
<1>5. CASE sql' = (sql \o A) \o <<x>>
  <2> DEFINE p == A \o <<x>>
  <2>1. sql' = sql \o p
    BY <1>2, <1>5, ConcatAssociative
  <2>2. p \in Seq(Statement) /\ Len(p) = n + 1 /\ (\A i \in 1..n : p[i] = A[i]) /\ p[n + 1] = x
        /\ DOMAIN p = 1..n + 1
    <3> DEFINE X == <<x>>
    <3>1. X \in Seq(Statement) /\ Len(X) = 1 /\ X[1] = x
      BY <1>2
    <3> HIDE DEF X
    <3>2. /\ A \o X \in Seq(Statement) /\ Len(A \o X) = n + 1 /\ DOMAIN (A \o X) = 1..n + 1
          /\ \A i \in 1..n : (A \o X)[i] = A[i]
          /\ (A \o X)[n + 1] = X[1]
      <4>1. /\ A \o X \in Seq(Statement) /\ Len(A \o X) = n + 1
            /\ \A i \in 1..n + 1 : (A \o X)[i] = IF i <= n THEN A[i] ELSE X[i - n]
        <5>1. A \in Seq(Statement) /\ X \in Seq(Statement)
          BY <1>2, <3>1
        <5>2. /\ A \o X \in Seq(Statement) /\ Len(A \o X) = Len(A) + Len(X)
              /\ \A i \in 1..Len(A) + Len(X) :
                    (A \o X)[i] = IF i <= Len(A) THEN A[i] ELSE X[i - Len(A)]
          BY <5>1, ConcatProperties
        <5> HIDE DEF X
        <5> QED  BY <1>2, <3>1, <5>2
      <4>2. DOMAIN (A \o X) = 1..n + 1
        <5> HIDE DEF X
        <5> QED  BY <4>1
      <4>3. n + 1 \in 1..n + 1 /\ ~(n + 1 <= n) /\ (n + 1) - n = 1
        BY <1>1
      <4>4. \A i \in 1..n : i \in 1..n + 1 /\ i <= n
        BY <1>1
      <4> QED  BY <4>1, <4>2, <4>3, <4>4
    <3> QED  BY <3>1, <3>2 DEF X
  <2> HIDE DEF p
  <2>3. ASSUME NEW s \in Security
        PROVE  \E k \in DOMAIN p : Wrote(s, p[k]) /\ \A i \in DOMAIN p \ {k} : p[i].of # s
    <3>1. CASE s = Etf
      <4>1. n + 1 \in DOMAIN p /\ Wrote(s, p[n + 1]) /\ \A i \in DOMAIN p \ {n + 1} : i \in 1..n
        BY <1>1, <2>2, <3>1
      <4>2. \A i \in DOMAIN p \ {n + 1} : p[i].of # s
        <5> SUFFICES ASSUME NEW i \in DOMAIN p \ {n + 1} PROVE p[i].of # s
          OBVIOUS
        <5>1. i \in 1..n
          BY <4>1
        <5>2. p[i] = A[i] /\ A[i].of # Etf
          BY <1>4, <2>2, <5>1
        <5> QED  BY <3>1, <5>2
      <4> QED  BY <4>1, <4>2
    <3>2. CASE s # Etf
      <4>1. PICK k \in 1..n : Components[k] = s
        BY <1>4, <3>2
      <4>2. k \in DOMAIN p /\ Wrote(s, p[k])
        BY <1>1, <2>2, <4>1
      <4>3. ASSUME NEW i \in DOMAIN p \ {k} PROVE p[i].of # s
        <5>1. A[k].of = s
          BY <1>4, <4>1
        <5>2. CASE i = n + 1
          BY <1>4, <2>2, <3>2, <5>2
        <5>3. CASE i # n + 1
          <6>1. i \in 1..n /\ i # k
            <7>1. i \in 1..n + 1 /\ i # k
              BY <2>2
            <7> QED  BY <1>1, <5>3, <7>1
          <6>2. p[i] = A[i] /\ A[i].of # A[k].of
            BY <1>4, <2>2, <4>1, <6>1
          <6> QED  BY <5>1, <6>2
        <5> QED  BY <5>2, <5>3
      <4> QED  BY <4>2, <4>3
    <3> QED  BY <3>1, <3>2
  <2> QED  BY <1>3, <2>1, <2>2, <2>3 DEF Queued
<1>6. CASE sql' = Append(sql, x) \o A
  <2> DEFINE p == <<x>> \o A
  <2>1. sql' = sql \o p
    <3>1. Append(sql, x) = sql \o <<x>>
      BY <1>2, AppendIsConcat
    <3> QED  BY <1>2, <1>6, <3>1, ConcatAssociative
  <2>2. p \in Seq(Statement) /\ Len(p) = n + 1 /\ (\A i \in 1..n : p[i + 1] = A[i]) /\ p[1] = x
        /\ DOMAIN p = 1..n + 1
    BY <1>1, <1>2
  <2> HIDE DEF p
  <2>3. \A i \in DOMAIN p \ {1} : i - 1 \in 1..n /\ p[i] = A[i - 1]
    <3> SUFFICES ASSUME NEW i \in DOMAIN p \ {1} PROVE i - 1 \in 1..n /\ p[i] = A[i - 1]
      OBVIOUS
    <3>1. i - 1 \in 1..n /\ (i - 1) + 1 = i
      BY <1>1, <2>2
    <3> QED  BY <2>2, <3>1
  <2>4. ASSUME NEW s \in Security
        PROVE  \E k \in DOMAIN p : Wrote(s, p[k]) /\ \A i \in DOMAIN p \ {k} : p[i].of # s
    <3>1. CASE s = Etf
      <4>1. 1 \in DOMAIN p /\ Wrote(s, p[1])
        BY <1>1, <2>2, <3>1
      <4> QED  BY <1>4, <2>3, <3>1, <4>1
    <3>2. CASE s # Etf
      <4>1. PICK k \in 1..n : Components[k] = s
        BY <1>4, <3>2
      <4>2. k + 1 \in DOMAIN p /\ Wrote(s, p[k + 1]) /\ k + 1 # 1
        <5>1. k \in 1..n /\ k + 1 \in 1..n + 1 /\ k + 1 # 1
          BY <1>1
        <5>2. p[k + 1] = A[k] /\ Wrote(Components[k], A[k])
          BY <1>1, <2>2, <5>1
        <5> QED  BY <2>2, <4>1, <5>1, <5>2
      <4>3. ASSUME NEW i \in DOMAIN p \ {k + 1} PROVE p[i].of # s
        <5>1. CASE i = 1
          BY <1>4, <2>2, <3>2, <5>1
        <5>2. CASE i # 1
          <6>1. i - 1 \in 1..n /\ p[i] = A[i - 1] /\ i - 1 # k
            BY <1>1, <2>2, <2>3, <5>2
          <6> QED  BY <1>4, <4>1, <6>1
        <5> QED  BY <5>1, <5>2
      <4> QED  BY <4>2, <4>3
    <3> QED  BY <3>1, <3>2
  <2> QED  BY <1>3, <2>1, <2>2, <2>4 DEF Queued
<1> QED  BY <1>5, <1>6

LEMMA CrtTradeIs ==
    ASSUME UserInv, NEW o \in Order, order[o].state = "resting", UpdateETF_Crt(o)
    PROVE  Queued /\ Reduced(o)
<1> DEFINE h(c) == CreationConfirm(LookUp(c).vol, order[o].cps[c].first, order[o].cps[c].avl)
           confirmed(c) == [LookUp(c) EXCEPT !.vol = h(c)]
           g == AddCrt(LookUpOrNew(Etf).vol, order[o].leaves)
           created == [LookUpOrNew(Etf) EXCEPT !.vol = g]
           from == [stk |-> "stk", act |-> "act", avl |-> "avl"]
           with == [stk |-> "stk", crt |-> "crt"]
           A == [i \in DOMAIN Components |-> CrtComponentSyn(Components[i], confirmed(Components[i]))]
           x == CrtEtfSyn(Etf, created)
           f == [s \in Security |-> IF s = Etf THEN Synced(created, {"crt"})
                                              ELSE Synced(confirmed(s), {"act", "avl"})]
<1>1. Kind[o] = "etf_crt" /\ order[o].leaves = Qty[o] /\ 0 < order[o].leaves /\ order[o].leaves \in Nat
  <2>1. Kind[o] = "etf_crt" /\ day \in Days
    BY DEF UpdateETF_Crt, UserInv, UserTypes
  <2>2. Unit <= Qty[o] /\ Unit \in Nat /\ 0 < Unit
    BY <2>1, DayIs, UserStockAssumption DEF Whole
  <2>3. order[o].leaves = Qty[o] /\ order[o].leaves \in Nat
    BY <2>1, OrderIs DEF Whole, UserInv
  <2> QED  BY <2>1, <2>2, <2>3
<1>2. \A c \in Component : /\ CanLookUp(c) /\ LookUp(c) \in Entry /\ LookUp(c).vol \in Holding
                           /\ LookUpOrNew(c) = LookUp(c)
  <2>1. \A c \in Component : cache[c] # Nothing
    BY <1>1 DEF UserInv, Loaded, HasEntries
  <2> QED  BY <2>1, LookUpIs, SecurityIs DEF LookUpOrNew
<1>3. LookUpOrNew(Etf) \in Entry /\ LookUpOrNew(Etf).vol \in Holding
      /\ (LookUpOrNew(Etf).stored <=> CanLookUp(Etf))
  BY LookUpIs, SecurityIs
<1>4. /\ \A c \in Component : confirmed(c) = [LookUp(c) EXCEPT !.vol = CreationConfirm(@, order[o].cps[c].first, order[o].cps[c].avl)]
      /\ created = [LookUpOrNew(Etf) EXCEPT !.vol = AddCrt(@, order[o].leaves)]
  BY <1>2, <1>3 DEF Entry
<1>5. cache' = f /\ sql' = sql \o A \o <<x>> /\ Filled(o, order[o].leaves, NoCps)
  <2>1. \A s \in Security : s = Etf \/ s \in Component
    BY SecurityIs
  <2> QED  BY <1>4, <2>1, SecurityIs DEF UpdateETF_Crt
<1>6. \A c \in Component : /\ h(c) \in Holding /\ \A b \in Balance : h(c)[b].syn = LookUp(c).vol[b].syn
                           /\ \A b \in Balance \ {"act", "avl", "stk"} : h(c)[b] = LookUp(c).vol[b]
  <2>1. "act" \in Part \ {"avl"}
    BY DEF Part
  <2> SUFFICES ASSUME NEW c \in Component
               PROVE  /\ h(c) \in Holding /\ \A b \in Balance : h(c)[b].syn = LookUp(c).vol[b].syn
                      /\ \A b \in Balance \ {"act", "avl", "stk"} : h(c)[b] = LookUp(c).vol[b]
    OBVIOUS
  <2>2. LookUp(c).vol \in Holding /\ order[o].cps[c].first \in Nat /\ order[o].cps[c].avl \in Nat
    BY <1>2, OrderIs, SecurityIs
  <2> DEFINE v == LookUp(c).vol
             a == order[o].cps[c].first
             b == order[o].cps[c].avl
  <2>3. h(c) = ConfirmParts(v, "act", a, b)
    BY DEF CreationConfirm
  <2> HIDE DEF v, a, b
  <2>4. v \in Holding /\ a \in Nat /\ b \in Nat
    BY <2>2 DEF v, a, b
  <2>5. /\ h(c) \in Holding /\ \A x1 \in Balance : h(c)[x1].syn = v[x1].syn
        /\ \A x1 \in Balance \ {"act", "avl", "stk"} : h(c)[x1] = v[x1]
    <3> DEFINE w == h(c)
    <3>1. w = ConfirmParts(v, "act", a, b)
      BY <2>3
    <3> HIDE DEF w
    <3> DEFINE z == ConfirmParts(v, "act", a, b)
    <3>2. /\ z \in Holding /\ \A x1 \in Balance : z[x1].syn = v[x1].syn
          /\ \A x1 \in Balance \ {"act", "avl", "stk"} : z[x1] = v[x1]
      BY <2>1, <2>4, ConfirmPartsIs
    <3>3. w = z
      BY <3>1
    <3> HIDE DEF z
    <3>4. /\ w \in Holding /\ \A x1 \in Balance : w[x1].syn = v[x1].syn
          /\ \A x1 \in Balance \ {"act", "avl", "stk"} : w[x1] = v[x1]
      BY <3>2, <3>3
    <3> QED  BY <3>4 DEF w
  <2> QED
    <3> HIDE DEF h
    <3> QED  BY <2>5 DEF v
<1>7. /\ g \in Holding /\ \A b \in Balance : g[b].syn = LookUpOrNew(Etf).vol[b].syn
      /\ \A b \in Balance \ {"crt", "stk"} : g[b] = LookUpOrNew(Etf).vol[b]
  <2>1. "crt" \in Part /\ order[o].leaves \in Int
    BY <1>1 DEF Part
  <2> QED  BY <1>3, <2>1, AddToIs DEF AddCrt
<1> HIDE DEF h, g
<1>8. \A c \in Component : confirmed(c).vol = h(c)
  BY <1>2 DEF Entry
<1>9. created.vol = g /\ created.stored = LookUpOrNew(Etf).stored
  BY <1>3 DEF Entry
<1>10. ASSUME NEW i \in DOMAIN Components PROVE Wrote(Components[i], A[i])
  <2> DEFINE c == Components[i]
             u == UpdateSql(c, h(c), from)
  <2>1. c \in Component /\ c \in Security /\ c # Etf
    BY SecurityIs
  <2>2. from \in [{"stk", "act", "avl"} -> Balance] /\ \A b \in {"stk", "act", "avl"} : from[b] = b
    BY Balances
  <2>3. {"stk", "act", "avl"} \in SUBSET (Balance \ {"last"}) /\ {"act", "avl"} \in SUBSET Part
        /\ {"act", "avl"} \subseteq Columns(c) /\ {"stk", "act", "avl"} = {"act", "avl"} \cup {"stk"}
    BY DEF Balance, Part, Columns
  <2>4. cache'[c] = Synced([LookUpOrNew(c) EXCEPT !.vol = h(c)], {"act", "avl"})
    <3>1. cache'[c] = Synced(confirmed(c), {"act", "avl"})
      BY <1>5, <2>1
    <3> QED  BY <1>2, <2>1, <3>1
  <2>5. Makes(c, h(c), {"act", "avl"}, {"stk", "act", "avl"}, from, u)
    BY <1>2, <1>6, <2>1, <2>2, <2>3, <2>4 DEF Makes
  <2>6. A[i] = u
    BY <1>8, <2>1 DEF CrtComponentSyn
  <2>7. Wrote(c, u)
    <3> HIDE DEF c, u, from
    <3> QED  BY <2>1, <2>5, WroteIs
  <2> QED  BY <2>6, <2>7
<1>11. Wrote(Etf, x)
  <2>1. with \in [{"stk", "crt"} -> Balance] /\ \A b \in {"stk", "crt"} : with[b] = b
    BY Balances
  <2>2. {"stk", "crt"} \in SUBSET (Balance \ {"last"}) /\ {"crt"} \in SUBSET Part
        /\ {"crt"} \subseteq Columns(Etf) /\ {"stk", "crt"} = {"crt"} \cup {"stk"}
    BY DEF Balance, Part, Columns
  <2>3. cache'[Etf] = Synced([LookUpOrNew(Etf) EXCEPT !.vol = g], {"crt"})
    BY <1>5, SecurityIs
  <2>4. IF CanLookUp(Etf) THEN x = UpdateSql(Etf, g, with) ELSE x = InsertSql(Etf, g, with)
    BY <1>3, <1>9 DEF CrtEtfSyn, UpdateOrInsert
  <2> HIDE DEF x
  <2>5. Makes(Etf, g, {"crt"}, {"stk", "crt"}, with, x)
    BY <1>7, <2>1, <2>2, <2>3, <2>4 DEF Makes
  <2> HIDE DEF with
  <2> QED  BY <2>5, SecurityIs, WroteIs
<1>12. Queued
  <2>1. x \in Statement /\ \A i \in DOMAIN Components : A[i] \in Statement
    <3> HIDE DEF A, x
    <3> QED  BY <1>10, <1>11 DEF Wrote
  <2>2. A \in [DOMAIN Components -> Statement]
    BY <2>1
  <2>3. cache' = [s \in Security |-> f[s]]
    BY <1>5
  <2> HIDE DEF A, x, f
  <2> QED  BY <1>5, <1>10, <1>11, <2>1, <2>2, <2>3, QueuedAll
<1>13. Filled(o, order[o].leaves, NoCps) /\ NoCps \in Cps /\ order[o].leaves <= order[o].leaves
  BY <1>1, <1>5, CpsIs DEF Cps
<1> HIDE DEF f, A, x
<1> QED  BY <1>1, <1>12, <1>13, FilledIs

LEMMA RdpTradeIs ==
    ASSUME UserInv, NEW o \in Order, order[o].state = "resting", UpdateETF_Rdp(o)
    PROVE  Queued /\ Reduced(o)
<1> DEFINE g == RedemptionConfirm(LookUp(Etf).vol, order[o].cps[Etf].first, order[o].cps[Etf].avl)
           redeemed == [LookUp(Etf) EXCEPT !.vol = g]
           h(c) == AddRdp(LookUpOrNew(c).vol, Needed(o, c))
           got(c) == [LookUpOrNew(c) EXCEPT !.vol = h(c)]
           from == [stk |-> "stk", rdp |-> "rdp"]
           with == [stk |-> "stk", act |-> "act", avl |-> "avl"]
           A == [i \in DOMAIN Components |-> RdpComponentSyn(Components[i], got(Components[i]))]
           x == RdpEtfSyn(Etf, redeemed)
           f == [s \in Security |-> IF s = Etf THEN Synced(redeemed, {"act", "avl"})
                                              ELSE Synced(got(s), {"rdp"})]
<1>1. Kind[o] = "etf_rdp" /\ order[o].leaves = Qty[o] /\ 0 < order[o].leaves /\ order[o].leaves \in Nat
      /\ Of[o] = Etf /\ ~OtherOrders
  <2>1. Kind[o] = "etf_rdp" /\ day \in Days
    BY DEF UpdateETF_Rdp, UserInv, UserTypes
  <2>2. Unit <= Qty[o] /\ Unit \in Nat /\ 0 < Unit /\ Of[o] = Etf
    BY <2>1, DayIs, UserStockAssumption DEF Whole
  <2>3. order[o].leaves = Qty[o] /\ order[o].leaves \in Nat
    BY <2>1, OrderIs DEF Whole, UserInv
  <2>4. ~OtherOrders
    BY <2>1 DEF OtherOrders
  <2> QED  BY <2>1, <2>2, <2>3, <2>4
<1>2. /\ CanLookUp(Etf) /\ LookUp(Etf) \in Entry /\ LookUp(Etf).vol \in Holding
      /\ LookUpOrNew(Etf) = LookUp(Etf)
  <2>1. cache[Etf] # Nothing
    BY <1>1 DEF UserInv, Loaded, HasEntries
  <2> QED  BY <2>1, LookUpIs, SecurityIs DEF LookUpOrNew
<1>3. \A c \in Component : /\ LookUpOrNew(c) \in Entry /\ LookUpOrNew(c).vol \in Holding
                           /\ LookUpOrNew(c).stored <=> CanLookUp(c)
  BY LookUpIs, SecurityIs
<1>4. /\ redeemed = [LookUp(Etf) EXCEPT !.vol = RedemptionConfirm(@, order[o].cps[Etf].first, order[o].cps[Etf].avl)]
      /\ \A c \in Component : got(c) = [LookUpOrNew(c) EXCEPT !.vol = AddRdp(@, Needed(o, c))]
  BY <1>2, <1>3 DEF Entry
<1>5. cache' = f /\ sql' = Append(sql, x) \o A /\ Filled(o, order[o].leaves, NoCps)
  <2>1. \A s \in Security : s = Etf \/ s \in Component
    BY SecurityIs
  <2> QED  BY <1>4, <2>1, SecurityIs DEF UpdateETF_Rdp
<1>6. /\ g \in Holding /\ \A b \in Balance : g[b].syn = LookUpOrNew(Etf).vol[b].syn
  <2>1. "act" \in Part \ {"avl"} /\ order[o].cps[Etf].first \in Nat /\ order[o].cps[Etf].avl \in Nat
    BY OrderIs, SecurityIs DEF Part
  <2> DEFINE v == LookUp(Etf).vol
             a == order[o].cps[Etf].first
             b == order[o].cps[Etf].avl
  <2>2. g = ConfirmParts(v, "act", a, b) /\ v \in Holding /\ a \in Nat /\ b \in Nat
    BY <1>2, <2>1 DEF RedemptionConfirm
  <2> HIDE DEF g, v, a, b
  <2>3. g \in Holding /\ \A x1 \in Balance : g[x1].syn = v[x1].syn
    <3> DEFINE z == ConfirmParts(v, "act", a, b)
    <3>1. z \in Holding /\ \A x1 \in Balance : z[x1].syn = v[x1].syn
      BY <2>1, <2>2, ConfirmPartsIs
    <3>2. g = z
      BY <2>2
    <3> HIDE DEF z
    <3> QED  BY <3>1, <3>2
  <2> QED  BY <1>2, <2>3 DEF v
<1>7. \A c \in Component : /\ h(c) \in Holding
                           /\ \A b \in Balance : h(c)[b].syn = LookUpOrNew(c).vol[b].syn
  <2> SUFFICES ASSUME NEW c \in Component
               PROVE  h(c) \in Holding /\ \A b \in Balance : h(c)[b].syn = LookUpOrNew(c).vol[b].syn
    OBVIOUS
  <2>1. "rdp" \in Part /\ Needed(o, c) \in Int
    BY NeededIs, CountIs DEF Part, UserInv, UserTypes
  <2> QED  BY <1>3, <2>1, AddToIs DEF AddRdp
<1> HIDE DEF h, g
<1>8. \A c \in Component : got(c).vol = h(c) /\ got(c).stored = LookUpOrNew(c).stored
  BY <1>3 DEF Entry
<1>9. redeemed.vol = g
  BY <1>2 DEF Entry
<1>10. ASSUME NEW i \in DOMAIN Components PROVE Wrote(Components[i], A[i])
  <2> DEFINE c == Components[i]
             u == RdpComponentSyn(c, got(c))
  <2>1. c \in Component /\ c \in Security /\ c # Etf
    BY SecurityIs
  <2>2. from \in [{"stk", "rdp"} -> Balance]
    BY Balances
  <2>3. {"stk", "rdp"} \in SUBSET (Balance \ {"last"}) /\ {"rdp"} \in SUBSET Part
    BY DEF Balance, Part
  <2>4. cache'[c] = Synced([LookUpOrNew(c) EXCEPT !.vol = h(c)], {"rdp"})
    BY <1>5, <2>1
  <2>5. IF CanLookUp(c) THEN u = UpdateSql(c, h(c), from) ELSE u = WrongSql(c)
    BY <1>3, <1>8, <2>1 DEF RdpComponentSyn
  <2>6. Redeemed(c)
    BY <1>1, <2>1 DEF Redeemed
  <2>7. A[i] = u
    OBVIOUS
  <2> HIDE DEF u, got
  <2>8. Makes(c, h(c), {"rdp"}, {"stk", "rdp"}, from, u)
    BY <1>1, <1>7, <2>1, <2>2, <2>3, <2>4, <2>5, <2>6 DEF Makes
  <2>9. Wrote(c, u)
    <3> HIDE DEF c, from
    <3> QED  BY <2>1, <2>8, WroteIs
  <2> QED  BY <2>7, <2>9
<1>11. Wrote(Etf, x)
  <2>1. with \in [{"stk", "act", "avl"} -> Balance]
    BY Balances
  <2>2. {"stk", "act", "avl"} \in SUBSET (Balance \ {"last"}) /\ {"act", "avl"} \in SUBSET Part
    BY DEF Balance, Part
  <2>3. cache'[Etf] = Synced([LookUpOrNew(Etf) EXCEPT !.vol = g], {"act", "avl"})
    BY <1>2, <1>5, SecurityIs
  <2>4. x = UpdateSql(Etf, g, with)
    BY <1>9 DEF RdpEtfSyn
  <2> HIDE DEF x
  <2>5. Makes(Etf, g, {"act", "avl"}, {"stk", "act", "avl"}, with, x)
    BY <1>1, <1>2, <1>6, <2>1, <2>2, <2>3, <2>4 DEF Makes
  <2> HIDE DEF with
  <2> QED  BY <2>5, SecurityIs, WroteIs
<1>12. Queued
  <2>1. x \in Statement /\ \A i \in DOMAIN Components : A[i] \in Statement
    <3> HIDE DEF A, x
    <3> QED  BY <1>10, <1>11 DEF Wrote
  <2>2. A \in [DOMAIN Components -> Statement]
    BY <2>1
  <2>3. cache' = [s \in Security |-> f[s]]
    BY <1>5
  <2> HIDE DEF A, x, f
  <2> QED  BY <1>5, <1>10, <1>11, <2>1, <2>2, <2>3, QueuedAll
<1>13. Filled(o, order[o].leaves, NoCps) /\ NoCps \in Cps /\ order[o].leaves <= order[o].leaves
  BY <1>1, <1>5, CpsIs DEF Cps
<1> HIDE DEF f, A, x
<1> QED  BY <1>1, <1>12, <1>13, FilledIs

LEMMA TradeIs ==
    ASSUME UserInv, NEW o \in Order, UpdateAfterTrade(o)
    PROVE  TradeStep(o)
<1>1. order[o].state = "resting" /\ UNCHANGED <<day, db, lost, refused>>
  BY DEF UpdateAfterTrade
<1>2. \/ \E q \in 1..order[o].leaves :
             UpdateTrade_Sell(o, q) \/ UpdateTrade_EtfSell(o, q) \/ UpdateTrade_Buy(o, q)
      \/ UpdateETF_Crt(o)
      \/ UpdateETF_Rdp(o)
  BY DEF UpdateAfterTrade
<1>3. Queued /\ Reduced(o)
  BY <1>1, <1>2, SellTradeIs, EtfSellTradeIs, BuyTradeIs, CrtTradeIs, RdpTradeIs
<1> QED  BY <1>1, <1>3 DEF TradeStep

LEMMA TradeKeeps ==
    ASSUME UserInv, NEW o \in Order, TradeStep(o)
    PROVE  UserInv' /\ order'[o].leaves # order[o].leaves
<1>1. /\ day' = day /\ db' = db /\ lost' = lost /\ refused' = refused /\ order[o].state = "resting"
      /\ Kind' = Kind /\ Of' = Of /\ Qty' = Qty /\ cache' \in [Security -> Entry \cup {Nothing}]
  BY DEF TradeStep, Queued, Kind, Of, Qty
<1>2. PICK p \in Seq(Statement) :
          /\ sql' = sql \o p
          /\ \A s \in Security :
                \/ cache'[s] = cache[s] /\ \A i \in DOMAIN p : p[i].of # s
                \/ \E k \in DOMAIN p : Wrote(s, p[k]) /\ \A i \in DOMAIN p \ {k} : p[i].of # s
  BY DEF TradeStep, Queued
<1>3. \A s \in Security : cache'[s] = cache[s] \/ (cache'[s] # Nothing /\ cache'[s].stored)
  <2> SUFFICES ASSUME NEW s \in Security, NEW u, Wrote(s, u)
               PROVE  cache'[s] # Nothing /\ cache'[s].stored
    BY <1>2
  <2>1. PICK h \in Holding, parts \in SUBSET Part :
           cache'[s] = Synced([LookUpOrNew(s) EXCEPT !.vol = h], parts)
    BY DEF Wrote
  <2> QED  BY <2>1, SyncedIs
<1>4. PICK st \in {"filled", "resting"}, n \in Count, cps \in Cps :
       /\ order' = [order EXCEPT ![o] = [state |-> st, leaves |-> n, cps |-> cps]]
       /\ n < order[o].leaves
       /\ st = "resting" => Kind[o] \notin Whole
  BY DEF TradeStep, Reduced
<1>5. /\ order' \in [Order -> OrderState] /\ order'[o].state = st /\ order'[o].leaves = n
      /\ \A q \in Order \ {o} : order'[q] = order[q]
  <2>1. [state |-> st, leaves |-> n, cps |-> cps] \in OrderState
    BY DEF OrderState, Cps
  <2> QED  BY <1>4, <2>1, OrderIs
<1>6. order'[o].leaves # order[o].leaves
  <2>1. n \in Nat /\ order[o].leaves \in Nat
    BY OrderIs, CountIs
  <2> QED  BY <1>4, <1>5, <2>1
<1>7. Loaded'
  <2> SUFFICES ASSUME NEW q \in Order, order'[q].state = "resting" PROVE HasEntries(q)'
    BY DEF Loaded
  <2>1. order[q].state = "resting"
    BY <1>1, <1>5
  <2>2. HasEntries(q) /\ Of[q] \in Security
    BY <2>1, DayIs DEF UserInv, UserTypes, Loaded
  <2> QED  BY <1>1, <1>3, <2>2, SecurityIs DEF HasEntries
<1>8. \A q \in Order : Kind'[q] \in Whole /\ order'[q].state \in {"new", "resting"} =>
                          order'[q].leaves = Qty'[q]
  <2> SUFFICES ASSUME NEW q \in Order, Kind[q] \in Whole, order'[q].state \in {"new", "resting"}
               PROVE  order'[q].leaves = Qty[q]
    BY <1>1
  <2>1. q # o
    BY <1>4, <1>5
  <2> QED  BY <1>5, <2>1 DEF UserInv
<1>9. UserTypes'
  <2>1. sql' \in Seq(Statement)
    BY <1>2, ConcatProperties DEF UserInv, UserTypes
  <2> QED  BY <1>1, <1>5, <2>1 DEF UserInv, UserTypes
<1>10. \A s \in Security : cache'[s] # Nothing => cache'[s].stored
  BY <1>3 DEF UserInv
<1> QED  BY <1>6, <1>7, <1>8, <1>9, <1>10 DEF UserInv

-----------------------------------------------------------------------------
(* The database and the end of the day.                                    *)

\* What a statement makes of a row is a row.
LEMMA WrittenIs ==
    ASSUME NEW u \in Statement, NEW row \in Row(u.of) \cup {Nothing}, Matches(u, row)
    PROVE  Written(u, row) \in Row(u.of) /\ Written(u, row) # Nothing
<1>1. CASE u.op = "INSERT"
  BY <1>1, SecurityIs DEF Written, Statement
<1>2. CASE u.op # "INSERT"
  <2>1. row \in Row(u.of)
    BY <1>2 DEF Matches
  <2>2. \A c \in DOMAIN u.set : u.set[c] \in Count
    BY DEF Statement, Values
  <2>3. Written(u, row) = [c \in Columns(u.of) |-> IF c \in DOMAIN u.set THEN u.set[c] ELSE row[c]]
    BY <1>2, <2>1 DEF Written, Row
  <2>4. Written(u, row) \in Row(u.of) /\ u.of \in Security
    BY <2>1, <2>2, <2>3 DEF Row, Statement
  <2> QED  BY <2>4, SecurityIs
<1> QED  BY <1>1, <1>2

LEMMA TaskIs ==
    ASSUME UserInv, TaskStockCacheSyn
    PROVE  /\ sql \in Seq(Statement) /\ sql # <<>> /\ sql' = Tail(sql)
           /\ Head(sql) \in Statement /\ Head(sql).of \in Security
           /\ UNCHANGED <<day, cache, order>>
           /\ \A s \in Security : s # Head(sql).of => db'[s] = db[s]
           /\ \/ /\ Matches(Head(sql), db[Head(sql).of])
                 /\ db' = [db EXCEPT ![Head(sql).of] = Written(Head(sql), db[Head(sql).of])]
                 /\ db'[Head(sql).of] = Written(Head(sql), db[Head(sql).of])
                 /\ Written(Head(sql), db[Head(sql).of]) \in Row(Head(sql).of)
                 /\ UNCHANGED <<lost, refused>>
              \/ /\ ~Matches(Head(sql), db[Head(sql).of]) /\ refused' = refused \cup {Head(sql).of}
                 /\ UNCHANGED <<db, lost>>
              \/ lost' = lost \cup {Head(sql).of} /\ UNCHANGED <<db, refused>>
<1> DEFINE u == Head(sql)
<1>1. sql \in Seq(Statement) /\ sql # <<>> /\ sql' = Tail(sql) /\ UNCHANGED <<day, cache, order>>
      /\ DOMAIN db = Security
  BY DEF UserInv, UserTypes, TaskStockCacheSyn
<1>2. u \in Statement
  BY <1>1
<1>3. u.of \in Security
  BY <1>2 DEF Statement
<1>4. db[u.of] \in Row(u.of) \cup {Nothing}
  BY <1>3 DEF UserInv, UserTypes
<1>5. \/ /\ Matches(u, db[u.of])
         /\ db' = [db EXCEPT ![u.of] = Written(u, db[u.of])]
         /\ UNCHANGED <<lost, refused>>
      \/ ~Matches(u, db[u.of]) /\ refused' = refused \cup {u.of} /\ UNCHANGED <<db, lost>>
      \/ lost' = lost \cup {u.of} /\ UNCHANGED <<db, refused>>
  BY DEF TaskStockCacheSyn
<1>6. Matches(u, db[u.of]) => Written(u, db[u.of]) \in Row(u.of)
  BY <1>2, <1>4, WrittenIs
<1> HIDE DEF u
<1>7. (\A s \in Security : s # u.of => db'[s] = db[s])
      /\ (db' = [db EXCEPT ![u.of] = Written(u, db[u.of])] => db'[u.of] = Written(u, db[u.of]))
  BY <1>1, <1>3, <1>5
<1>8. \/ /\ Matches(u, db[u.of])
         /\ db' = [db EXCEPT ![u.of] = Written(u, db[u.of])]
         /\ db'[u.of] = Written(u, db[u.of])
         /\ Written(u, db[u.of]) \in Row(u.of)
         /\ UNCHANGED <<lost, refused>>
      \/ ~Matches(u, db[u.of]) /\ refused' = refused \cup {u.of} /\ UNCHANGED <<db, lost>>
      \/ lost' = lost \cup {u.of} /\ UNCHANGED <<db, refused>>
  BY <1>5, <1>6, <1>7
<1> QED  BY <1>1, <1>2, <1>3, <1>7, <1>8 DEF u

LEMMA TaskKeeps ==
    ASSUME UserInv, TaskStockCacheSyn
    PROVE  UserInv'
<1> DEFINE u == Head(sql)
<1>1. /\ sql' \in Seq(Statement) /\ day' = day /\ cache' = cache /\ order' = order
      /\ Kind' = Kind /\ Of' = Of /\ Qty' = Qty
  BY TaskIs DEF Kind, Of, Qty
<1>2. \A s \in Security : db'[s] \in Row(s) \cup {Nothing}
  BY TaskIs DEF UserInv, UserTypes
<1>3. db' \in [Security -> UNION {Row(s) \cup {Nothing} : s \in Security}]
  <2>1. db' \in [Security -> {db'[s] : s \in Security}]
    BY TaskIs DEF UserInv, UserTypes
  <2> QED  BY <1>2, <2>1
<1>4. lost' \subseteq Security /\ refused' \subseteq Security
  BY TaskIs DEF UserInv, UserTypes
<1>5. UserTypes'
  BY <1>1, <1>2, <1>3, <1>4 DEF UserInv, UserTypes
<1>6. Loaded'
  BY <1>1 DEF UserInv, Loaded, HasEntries
<1> QED  BY <1>1, <1>5, <1>6 DEF UserInv

LEMMA InitHolds == Init => UserInv
<1> SUFFICES ASSUME Init PROVE UserInv
  OBVIOUS
<1>1. day \in Days /\ db = day.rows /\ cache = [s \in Security |-> Nothing] /\ sql = <<>>
      /\ order = [o \in Order |-> [state |-> "new", leaves |-> Qty[o], cps |-> NoCps]]
      /\ lost = {} /\ refused = {}
  BY DEF Init
<1>2. /\ \A s \in Security : db[s] \in Row(s) \cup {Nothing}
      /\ db \in [Security -> UNION {Row(s) \cup {Nothing} : s \in Security}]
  <2>1. db = [s \in Security |-> db[s]] /\ \A s \in Security : db[s] \in Row(s) \cup {Nothing}
    BY <1>1, UserStockAssumption
  <2> QED  BY <2>1
<1>3. order \in [Order -> OrderState]
  <2>1. \A o \in Order : Qty[o] \in Count
    BY <1>1, DayIs
  <2>2. \A o \in Order : [state |-> "new", leaves |-> Qty[o], cps |-> NoCps] \in OrderState
    BY <2>1, CpsIs DEF OrderState
  <2> QED  BY <1>1, <2>2
<1>4. UserTypes
  BY <1>1, <1>2, <1>3 DEF UserTypes
<1>5. \A o \in Order : order[o].state = "new" /\ order[o].leaves = Qty[o]
  BY <1>1
<1> QED  BY <1>1, <1>4, <1>5 DEF UserInv, Loaded

LEMMA DayEndKeeps ==
    ASSUME UserInv, DayEndCleanUp
    PROVE  UserInv'
<1>1. /\ \A o \in Order : order[o].state # "resting"
      /\ cache' = [s \in Security |-> Nothing]
      /\ day' = day /\ order' = order /\ sql' = sql /\ db' = db /\ lost' = lost /\ refused' = refused
      /\ Kind' = Kind /\ Qty' = Qty
  BY DEF DayEndCleanUp, Kind, Qty
<1> QED  BY <1>1 DEF UserInv, UserTypes, Loaded

\* Every step is one of these.
Moves(o) ==
    /\ NoTrade
    /\ \/ Reject(o)
       \/ /\ HasEntries(o)' /\ order[o].state = "new"
          /\ \E cps \in [Security -> [first : Count, avl : Count]] : Accept(o, cps)
       \/ order' = [order EXCEPT ![o].state = "cancelled", ![o].cps = NoCps]

LEMMA StepIs ==
    ASSUME UserInv, [Next]_vars
    PROVE  \/ \E o \in Order : Moves(o)
           \/ \E o \in Order : TradeStep(o)
           \/ TaskStockCacheSyn
           \/ DayEndCleanUp
           \/ UNCHANGED vars
<1>1. ASSUME NEW o \in Order, TradePrep(o) \/ CreationQuery(o) \/ UpdateAfterCancel(o)
      PROVE  Moves(o)
  BY <1>1, TradePrepIs, CreationQueryIs, CancelIs DEF Moves
<1>2. ASSUME NEW o \in Order, UpdateAfterTrade(o) PROVE TradeStep(o)
  BY <1>2, TradeIs
<1> QED  BY <1>1, <1>2 DEF Next

LEMMA UserInvKept == UserInv /\ [Next]_vars => UserInv'
<1> SUFFICES ASSUME UserInv, [Next]_vars PROVE UserInv'
  OBVIOUS
<1>1. ASSUME NEW o \in Order, Moves(o) PROVE UserInv'
  BY <1>1, NoTradeKeeps DEF Moves
<1>2. ASSUME NEW o \in Order, TradeStep(o) PROVE UserInv'
  BY <1>2, TradeKeeps
<1>3. CASE UNCHANGED vars
  BY <1>3 DEF vars, UserInv, UserTypes, Loaded, HasEntries, Kind, Of, Qty
<1> QED  BY <1>1, <1>2, <1>3, StepIs, TaskKeeps, DayEndKeeps

\* The account is always consistent: types, stored entries, and an entry for
\* whatever an order has frozen.
THEOREM UserInvariant == Spec => []UserInv
BY InitHolds, UserInvKept, PTL DEF Spec

\* Counts stay counts, whatever is confirmed, given back or wraps (FrozeVolume).
THEOREM UserTypeCorrect == Spec => []TypeOK
<1>1. UserInv => TypeOK
  <2> SUFFICES ASSUME UserInv PROVE TypeOK
    OBVIOUS
  <2>1. \A i \in DOMAIN sql : sql[i] \in Statement
    BY DEF UserInv, UserTypes
  <2>2. \A i \in DOMAIN sql : sql[i].op \in {"UPDATE", "INSERT", "error"} /\ sql[i].of \in Security
    BY <2>1 DEF Statement
  <2> QED  BY <2>2 DEF UserInv, UserTypes, TypeOK
<1> QED  BY <1>1, UserInvariant, PTL

\* No order that is prepared, frozen for, refused or cancelled changes what
\* the account holds (TradePrep, UpdateCancel).
THEOREM UserOnlyTrades == Spec => OnlyTradesChangeBalances
<1>1. ASSUME UserInv, [Next]_vars, \A o \in Order : order'[o].leaves = order[o].leaves,
             NEW s \in Security, cache[s] # Nothing, cache'[s] # Nothing, NEW b \in Balance
      PROVE  Held(cache'[s].vol[b]) = Held(cache[s].vol[b])
  <2>1. ASSUME NEW o \in Order, Moves(o)
        PROVE  Held(cache'[s].vol[b]) = Held(cache[s].vol[b])
    <3>1. OnlyMoved(s) /\ LookUp(s) = cache[s]
      BY <1>1, <2>1, LookUpIs DEF Moves, NoTrade
    <3> QED  BY <3>1 DEF OnlyMoved, AllKept, Kept
  <2>2. ASSUME NEW o \in Order, TradeStep(o) PROVE FALSE
    BY <1>1, <2>2, TradeKeeps
  <2>3. CASE TaskStockCacheSyn \/ UNCHANGED vars
    BY <2>3 DEF TaskStockCacheSyn, vars
  <2>4. CASE DayEndCleanUp
    BY <1>1, <2>4 DEF DayEndCleanUp
  <2> QED  BY <1>1, <2>1, <2>2, <2>3, <2>4, StepIs
<1>2. UserInv /\ [Next]_vars =>
         [(\A o \in Order : order'[o].leaves = order[o].leaves) =>
             \A s \in Security : cache[s] # Nothing /\ cache'[s] # Nothing =>
                 \A b \in Balance : Held(cache'[s].vol[b]) = Held(cache[s].vol[b])]_vars
  BY <1>1
<1> QED  BY <1>2, UserInvariant, PTL DEF Spec, OnlyTradesChangeBalances

-----------------------------------------------------------------------------
(* A row for every entry.  The INSERT for a component that is redeemed is    *)
(* wrong, so the components of an ETF that is redeemed must have rows.       *)

RowsThere ==
    \A d \in Days, o \in Order : d.kind[o] = "etf_rdp" => \A c \in Component : d.rows[c] # Nothing

\* Rows stay, and an entry has one or an INSERT for it is waiting.
HasRow(s) == db[s] # Nothing \/ \E i \in DOMAIN sql : sql[i].op = "INSERT" /\ sql[i].of = s

RowInv ==
    /\ \A s \in Security : day.rows[s] # Nothing => db[s] # Nothing
    /\ \A s \in Security \ lost : cache[s] # Nothing => HasRow(s)

LEMMA RowInvKept ==
    ASSUME RowsThere, UserInv, RowInv, [Next]_vars
    PROVE  RowInv'
<1>1. ASSUME NEW o \in Order, Moves(o) PROVE RowInv'
  <2>1. UNCHANGED <<day, sql, db, lost>> /\ \A s \in Security : OnlyMoved(s)
    BY <1>1 DEF Moves, NoTrade
  <2>2. \A s \in Security : cache'[s] # Nothing => cache[s] # Nothing \/ db[s] # Nothing
    BY <2>1 DEF OnlyMoved, CanLookUp
  <2> QED  BY <2>1, <2>2 DEF RowInv, HasRow
<1>2. ASSUME NEW o \in Order, TradeStep(o) PROVE RowInv'
  <2>1. UNCHANGED <<day, db, lost>>
    BY <1>2 DEF TradeStep
  <2>2. PICK p \in Seq(Statement) :
          /\ sql' = sql \o p
          /\ \A s \in Security :
                \/ cache'[s] = cache[s] /\ \A i \in DOMAIN p : p[i].of # s
                \/ \E k \in DOMAIN p : Wrote(s, p[k]) /\ \A i \in DOMAIN p \ {k} : p[i].of # s
    BY <1>2 DEF TradeStep, Queued
  <2>3. /\ \A i \in DOMAIN sql : i \in DOMAIN sql' /\ sql'[i] = sql[i]
        /\ \A k \in DOMAIN p : \E i \in DOMAIN sql' : sql'[i] = p[k]
    <3>1. sql \in Seq(Statement) /\ p \in Seq(Statement)
      BY DEF UserInv, UserTypes
    <3>2. /\ Len(sql') = Len(sql) + Len(p) /\ sql' \in Seq(Statement)
          /\ \A i \in 1..Len(sql) + Len(p) :
                sql'[i] = IF i <= Len(sql) THEN sql[i] ELSE p[i - Len(sql)]
      BY <2>2, <3>1, ConcatProperties
    <3>3. /\ Len(sql) \in Nat /\ Len(p) \in Nat /\ DOMAIN sql = 1..Len(sql) /\ DOMAIN p = 1..Len(p)
          /\ DOMAIN sql' = 1..Len(sql')
      BY <3>1, <3>2
    <3>4. \A i \in DOMAIN sql : i \in DOMAIN sql' /\ sql'[i] = sql[i]
      BY <3>2, <3>3
    <3>5. ASSUME NEW k \in DOMAIN p PROVE \E i \in DOMAIN sql' : sql'[i] = p[k]
      <4>1. k + Len(sql) \in 1..Len(sql) + Len(p) /\ ~(k + Len(sql) <= Len(sql))
            /\ (k + Len(sql)) - Len(sql) = k
        BY <3>3
      <4> QED  BY <3>2, <3>3, <4>1
    <3> QED  BY <3>4, <3>5
  <2>4. ASSUME NEW s \in Security \ lost, cache'[s] # Nothing PROVE HasRow(s)'
    <3>1. CASE CanLookUp(s)
      <4>1. HasRow(s)
        BY <3>1 DEF RowInv, CanLookUp, HasRow
      <4> QED  BY <2>1, <2>3, <4>1 DEF HasRow
    <3>2. CASE ~CanLookUp(s)
      <4>1. PICK k \in DOMAIN p : Wrote(s, p[k])
        BY <2>2, <2>4, <3>2 DEF CanLookUp
      <4>2. p[k].op = "INSERT"
        <5>1. ~Redeemed(s)
          <6> SUFFICES ASSUME Redeemed(s) PROVE FALSE
            OBVIOUS
          <6>1. day.rows[s] # Nothing
            BY DEF Redeemed, RowsThere, Kind, UserInv, UserTypes
          <6> QED  BY <3>2, <6>1 DEF RowInv, CanLookUp
        <5> QED  BY <3>2, <4>1, <5>1 DEF Wrote
      <4>3. p[k].of = s
        BY <4>1 DEF Wrote
      <4> QED  BY <2>3, <4>2, <4>3 DEF HasRow
    <3> QED  BY <3>1, <3>2
  <2> QED  BY <2>1, <2>4 DEF RowInv
<1>3. CASE TaskStockCacheSyn
  <2> DEFINE u == Head(sql)
  <2>1. \A s \in Security : db[s] # Nothing => db'[s] # Nothing
    BY <1>3, TaskIs, SecurityIs
  <2>2. ASSUME NEW s \in Security \ lost', cache[s] # Nothing PROVE HasRow(s)'
    <3>1. s \notin lost
      BY <1>3, <2>2, TaskIs
    <3>2. CASE db[s] # Nothing
      BY <2>1, <3>2 DEF HasRow
    <3>3. CASE db[s] = Nothing
      <4>1. PICK i \in DOMAIN sql : sql[i].op = "INSERT" /\ sql[i].of = s
        BY <2>2, <3>1, <3>3 DEF RowInv, HasRow
      <4>2. sql \in Seq(Statement) /\ sql # <<>> /\ sql' = Tail(sql) /\ DOMAIN sql = 1..Len(sql)
            /\ Len(sql) \in Nat
        BY <1>3, TaskIs
      <4>3. CASE i = 1
        <5>1. u = sql[1] /\ u.of = s /\ u.op = "INSERT" /\ Matches(u, db[s])
          BY <3>3, <4>1, <4>2, <4>3 DEF Matches
        <5>2. db'[s] \in Row(s)
          BY <1>3, <2>2, <5>1, TaskIs
        <5> QED  BY <2>2, <5>2, SecurityIs DEF HasRow
      <4>4. CASE i # 1
        <5>1. i - 1 \in DOMAIN sql' /\ sql'[i - 1] = sql[i]
          BY <4>2, <4>4
        <5> QED  BY <4>1, <5>1 DEF HasRow
      <4> QED  BY <4>3, <4>4
    <3> QED  BY <3>2, <3>3
  <2>3. day' = day /\ cache' = cache
    BY <1>3, TaskIs
  <2> QED  BY <2>1, <2>2, <2>3 DEF RowInv
<1>4. CASE DayEndCleanUp
  BY <1>4 DEF DayEndCleanUp, RowInv
<1>5. CASE UNCHANGED vars
  BY <1>5 DEF vars, RowInv, HasRow
<1> QED  BY <1>1, <1>2, <1>3, <1>4, <1>5, StepIs

\* Where SetStore is called there is a row, or the INSERT that makes it waits
\* before every UPDATE, unless a component without a row is redeemed
\* (StockCacheSynHelper).
THEOREM UserStoredHasRow ==
    ASSUME RowsThere
    PROVE  Spec => []StoredHasRow
<1>1. Init => RowInv
  BY DEF Init, RowInv
<1>2. UserInv /\ RowInv /\ [Next]_vars => RowInv'
  BY RowInvKept
<1>3. RowInv => StoredHasRow
  BY DEF RowInv, HasRow, StoredHasRow
<1> QED  BY <1>1, <1>2, <1>3, UserInvariant, PTL DEF Spec

-----------------------------------------------------------------------------
(* The row follows the cache.  The statements that wait lead, one after the  *)
(* other, from the row as it is to the row as the cache last wrote it, and   *)
(* each finds what it expects.                                               *)

LeadsTo(s, q, d, row) ==
    \E r \in [0..Len(q) -> Row(s) \cup {Nothing}] :
       /\ r[0] = d /\ r[Len(q)] = row
       /\ \A i \in 1..Len(q) : IF q[i].of = s
                               THEN Matches(q[i], r[i - 1]) /\ r[i] = Written(q[i], r[i - 1])
                               ELSE r[i] = r[i - 1]

LEMMA LeadsNowhere ==
    ASSUME NEW s, NEW q \in Seq(Statement), NEW d \in Row(s) \cup {Nothing},
           \A i \in DOMAIN q : q[i].of # s
    PROVE  LeadsTo(s, q, d, d)
<1> DEFINE r == [i \in 0..Len(q) |-> d]
<1>1. Len(q) \in Nat /\ DOMAIN q = 1..Len(q)
  OBVIOUS
<1>2. r \in [0..Len(q) -> Row(s) \cup {Nothing}] /\ r[0] = d /\ r[Len(q)] = d
  BY <1>1
<1>3. \A i \in 1..Len(q) : r[i] = r[i - 1] /\ q[i].of # s
  BY <1>1
<1> HIDE DEF r
<1> QED  BY <1>2, <1>3 DEF LeadsTo

LEMMA LeadsOnce ==
    ASSUME NEW s, NEW q \in Seq(Statement), NEW d \in Row(s) \cup {Nothing}, NEW k \in DOMAIN q,
           q[k].of = s, \A i \in DOMAIN q \ {k} : q[i].of # s,
           Matches(q[k], d), Written(q[k], d) \in Row(s)
    PROVE  LeadsTo(s, q, d, Written(q[k], d))
<1> DEFINE w == Written(q[k], d)
           r == [i \in 0..Len(q) |-> IF i < k THEN d ELSE w]
<1>1. Len(q) \in Nat /\ DOMAIN q = 1..Len(q) /\ k \in Nat /\ 0 < k /\ k <= Len(q)
  OBVIOUS
<1> HIDE DEF w
<1>2. r \in [0..Len(q) -> Row(s) \cup {Nothing}] /\ r[0] = d /\ r[Len(q)] = w
  BY <1>1 DEF w
<1>3. r[k - 1] = d /\ r[k] = w
  BY <1>1
<1>4. \A i \in 1..Len(q) : i # k => r[i] = r[i - 1]
  BY <1>1
<1> HIDE DEF r
<1>5. \A i \in 1..Len(q) : IF q[i].of = s
                           THEN Matches(q[i], r[i - 1]) /\ r[i] = Written(q[i], r[i - 1])
                           ELSE r[i] = r[i - 1]
  BY <1>1, <1>3, <1>4 DEF w
<1> QED  BY <1>2, <1>5 DEF LeadsTo, w

LEMMA LeadsOn ==
    ASSUME NEW s, NEW q \in Seq(Statement), NEW p \in Seq(Statement), NEW d, NEW row, NEW end,
           LeadsTo(s, q, d, row), LeadsTo(s, p, row, end)
    PROVE  LeadsTo(s, q \o p, d, end)
<1> DEFINE n == Len(q)
           m == Len(p)
           t == q \o p
<1>1. PICK r \in [0..n -> Row(s) \cup {Nothing}] :
       /\ r[0] = d /\ r[n] = row
       /\ \A i \in 1..n : IF q[i].of = s
                          THEN Matches(q[i], r[i - 1]) /\ r[i] = Written(q[i], r[i - 1])
                          ELSE r[i] = r[i - 1]
  BY DEF LeadsTo
<1>2. PICK e \in [0..m -> Row(s) \cup {Nothing}] :
       /\ e[0] = row /\ e[m] = end
       /\ \A i \in 1..m : IF p[i].of = s
                          THEN Matches(p[i], e[i - 1]) /\ e[i] = Written(p[i], e[i - 1])
                          ELSE e[i] = e[i - 1]
  BY DEF LeadsTo
<1>3. n \in Nat /\ m \in Nat /\ Len(t) = n + m
      /\ \A i \in 1..n + m : t[i] = IF i <= n THEN q[i] ELSE p[i - n]
  BY ConcatProperties
<1> HIDE DEF n, m, t
<1> DEFINE f == [i \in 0..n + m |-> IF i <= n THEN r[i] ELSE e[i - n]]
<1>4. f \in [0..n + m -> Row(s) \cup {Nothing}] /\ f[0] = d
  BY <1>1, <1>2, <1>3
<1>5. f[n + m] = end
  <2>1. CASE m = 0
    BY <1>1, <1>2, <1>3, <2>1
  <2>2. CASE m # 0
    BY <1>2, <1>3, <2>2
  <2> QED  BY <2>1, <2>2
<1>6. ASSUME NEW i \in 1..n + m
      PROVE  IF t[i].of = s THEN Matches(t[i], f[i - 1]) /\ f[i] = Written(t[i], f[i - 1])
                            ELSE f[i] = f[i - 1]
  <2>1. CASE i <= n
    <3>1. t[i] = q[i] /\ f[i] = r[i] /\ f[i - 1] = r[i - 1] /\ i \in 1..n
      BY <1>3, <2>1
    <3> HIDE DEF f
    <3> QED  BY <1>1, <3>1
  <2>2. CASE ~(i <= n)
    <3> DEFINE j == i - n
    <3>1. j \in 1..m /\ t[i] = p[j] /\ f[i] = e[j]
      BY <1>3, <2>2
    <3>2. f[i - 1] = e[j - 1]
      <4>1. CASE i = n + 1
        <5>1. i - 1 = n /\ j - 1 = 0 /\ i - 1 \in 0..n + m
          BY <1>3, <4>1
        <5> QED  BY <1>1, <1>2, <1>3, <5>1
      <4>2. CASE i # n + 1
        <5>1. ~(i - 1 <= n) /\ i - 1 \in 0..n + m /\ (i - 1) - n = j - 1
          BY <1>3, <2>2, <4>2
        <5> QED  BY <5>1
      <4> QED  BY <4>1, <4>2
    <3> HIDE DEF f, j
    <3> QED  BY <1>2, <3>1, <3>2
  <2> QED  BY <2>1, <2>2
<1> HIDE DEF f
<1> QED  BY <1>3, <1>4, <1>5, <1>6 DEF LeadsTo, t

LEMMA LeadsFrom ==
    ASSUME NEW s, NEW q \in Seq(Statement), q # <<>>, NEW d, NEW row, LeadsTo(s, q, d, row)
    PROVE  /\ Head(q).of = s => Matches(Head(q), d) /\ LeadsTo(s, Tail(q), Written(Head(q), d), row)
           /\ Head(q).of # s => LeadsTo(s, Tail(q), d, row)
<1> DEFINE n == Len(q)
           t == Tail(q)
           u == Head(q)
<1>1. PICK r \in [0..n -> Row(s) \cup {Nothing}] :
       /\ r[0] = d /\ r[n] = row
       /\ \A i \in 1..n : IF q[i].of = s
                          THEN Matches(q[i], r[i - 1]) /\ r[i] = Written(q[i], r[i - 1])
                          ELSE r[i] = r[i - 1]
  BY DEF LeadsTo
<1>2. n \in Nat /\ 0 < n /\ Len(t) = n - 1 /\ u = q[1] /\ \A i \in 1..n - 1 : t[i] = q[i + 1]
  OBVIOUS
<1> HIDE DEF n, t, u
<1> DEFINE f == [i \in 0..n - 1 |-> r[i + 1]]
<1>3. f \in [0..n - 1 -> Row(s) \cup {Nothing}] /\ f[0] = r[1] /\ f[n - 1] = row
  <2>1. f \in [0..n - 1 -> Row(s) \cup {Nothing}]
    BY <1>1, <1>2
  <2>2. f[0] = r[1]
    BY <1>2
  <2>3. f[n - 1] = row
    <3>1. n - 1 \in 0..n - 1 /\ (n - 1) + 1 = n
      BY <1>2
    <3> QED  BY <1>1, <3>1
  <2> QED  BY <2>1, <2>2, <2>3
<1>4. \A i \in 1..n - 1 : /\ f[i] = r[i + 1] /\ f[i - 1] = r[i] /\ i + 1 \in 1..n
                          /\ (i + 1) - 1 = i
  <2> SUFFICES ASSUME NEW i \in 1..n - 1
               PROVE  f[i] = r[i + 1] /\ f[i - 1] = r[i] /\ i + 1 \in 1..n /\ (i + 1) - 1 = i
    OBVIOUS
  <2>1. i \in 0..n - 1 /\ i - 1 \in 0..n - 1 /\ (i - 1) + 1 = i /\ (i + 1) - 1 = i /\ i + 1 \in 1..n
    BY <1>2
  <2> QED  BY <2>1
<1> HIDE DEF f
<1>5. \A i \in 1..n - 1 : IF t[i].of = s
                          THEN Matches(t[i], f[i - 1]) /\ f[i] = Written(t[i], f[i - 1])
                          ELSE f[i] = f[i - 1]
  <2> SUFFICES ASSUME NEW i \in 1..n - 1
               PROVE  IF t[i].of = s THEN Matches(t[i], f[i - 1]) /\ f[i] = Written(t[i], f[i - 1])
                                     ELSE f[i] = f[i - 1]
    OBVIOUS
  <2>1. IF q[i + 1].of = s
        THEN Matches(q[i + 1], r[(i + 1) - 1]) /\ r[i + 1] = Written(q[i + 1], r[(i + 1) - 1])
        ELSE r[i + 1] = r[(i + 1) - 1]
    BY <1>1, <1>4
  <2> QED  BY <1>2, <1>4, <2>1
<1>6. LeadsTo(s, t, r[1], row)
  BY <1>2, <1>3, <1>5 DEF LeadsTo
<1>7. 1 \in 1..n /\ 1 - 1 = 0
  BY <1>2
<1>8. IF u.of = s THEN Matches(u, d) /\ r[1] = Written(u, d) ELSE r[1] = d
  <2>1. IF q[1].of = s THEN Matches(q[1], r[1 - 1]) /\ r[1] = Written(q[1], r[1 - 1])
                       ELSE r[1] = r[1 - 1]
    BY <1>1, <1>7
  <2> QED  BY <1>1, <1>2, <1>7, <2>1
<1> QED  BY <1>6, <1>8 DEF t, u

\* The row has the values the cache last wrote.
Shown(s, vol, row) == row \in Row(s) /\ \A c \in Columns(s) : row[c] = vol[c].syn

\* All that the cache holds has been handed to a statement.
AllSynced(s, vol) == \A c \in Columns(s) \ {"last"} : vol[c].syn = Held(vol[c])

Caught(s) ==
    IF cache[s] = Nothing
    THEN \A i \in DOMAIN sql : sql[i].of # s
    ELSE \E row : LeadsTo(s, sql, db[s], row) /\ Shown(s, cache[s].vol, row)

RowFollows ==
    OtherOrders =>
       /\ refused \subseteq lost
       /\ \A s \in Security : cache[s] # Nothing => AllSynced(s, cache[s].vol)
       /\ \A s \in Security \ lost : Caught(s)

\* An entry that is looked up is loaded from the row if there is none.
LEMMA LookedUp ==
    ASSUME UserInv, NEW s \in Security, CanLookUp(s),
           cache[s] # Nothing => AllSynced(s, cache[s].vol)
    PROVE  /\ AllSynced(s, LookUp(s).vol)
           /\ Caught(s) => \E row : LeadsTo(s, sql, db[s], row) /\ Shown(s, LookUp(s).vol, row)
<1>1. CASE cache[s] # Nothing
  BY <1>1, LookUpIs DEF Caught
<1>2. CASE cache[s] = Nothing
  <2>1. db[s] # Nothing /\ db[s] \in Row(s) /\ LookUp(s).vol = Load(db[s])
    BY <1>2 DEF CanLookUp, LookUp, UserInv, UserTypes
  <2>2. AllSynced(s, LookUp(s).vol) /\ Shown(s, LookUp(s).vol, db[s])
    BY <2>1, LoadIs, ColumnsIn DEF AllSynced, Shown
  <2>3. Caught(s) => LeadsTo(s, sql, db[s], db[s])
    BY <1>2, <2>1, LeadsNowhere DEF Caught, UserInv, UserTypes
  <2> QED  BY <2>2, <2>3
<1> QED  BY <1>1, <1>2

LEMMA ShownKept ==
    ASSUME NEW s \in Security, NEW h, NEW g, AllKept(h, g)
    PROVE  /\ \A row : Shown(s, h, row) => Shown(s, g, row)
           /\ AllSynced(s, h) => AllSynced(s, g)
BY ColumnsIn DEF AllKept, Kept, Shown, AllSynced

\* A statement fits the row that shows what was last written, and makes the
\* row that shows what is written now.
LEMMA Fits ==
    ASSUME UserInv, NEW s \in Security, NEW h \in Holding, NEW parts \in SUBSET Part, NEW u \in Statement,
           u.of = s, \A b \in Balance : h[b].syn = LookUpOrNew(s).vol[b].syn,
           Says(s, h, parts, u), NEW row \in Row(s) \cup {Nothing},
           \/ CanLookUp(s) /\ u.op = "UPDATE" /\ Shown(s, LookUp(s).vol, row)
              /\ AllSynced(s, LookUp(s).vol)
           \/ ~CanLookUp(s) /\ u.op = "INSERT" /\ row = Nothing
    PROVE  /\ Matches(u, row) /\ Written(u, row) \in Row(s)
           /\ Shown(s, SynParts(h, parts), Written(u, row))
           /\ AllSynced(s, SynParts(h, parts))
<1> DEFINE g == SynParts(h, parts)
           w == Written(u, row)
<1>1. /\ \A b \in Balance : Held(g[b]) = Held(h[b])
      /\ \A b \in parts \cup {"stk"} : g[b].syn = Held(h[b])
      /\ g["last"].syn = h["stk"].syn
      /\ \A b \in Balance \ (parts \cup {"stk", "last"}) : g[b].syn = h[b].syn
  BY SynPartsIs
<1>2. Columns(s) \subseteq Balance /\ parts \subseteq Columns(s) /\ "last" \notin parts
      /\ {"stk", "last"} \subseteq Columns(s) /\ "stk" \in Balance /\ "last" \in Balance
  BY ColumnsIn, Balances DEF Says, Part, Columns
<1> HIDE DEF g
<1>3. \A b \in Balance \ (parts \cup {"stk"}) : h[b] = LookUpOrNew(s).vol[b]
  BY DEF Says
<1>4. CASE CanLookUp(s)
  <2>1. LookUpOrNew(s) = LookUp(s) /\ u.op = "UPDATE" /\ row \in Row(s) /\ row # Nothing
        /\ \A c \in Columns(s) : row[c] = LookUp(s).vol[c].syn
    BY <1>4, SecurityIs DEF LookUpOrNew, Shown
  <2>2. /\ DOMAIN u.where = parts \cup {"stk", "last"} /\ DOMAIN u.set = parts \cup {"stk", "last"}
        /\ u.where["last"] = h["last"].syn /\ u.set["last"] = h["stk"].syn
        /\ \A c \in parts \cup {"stk"} : u.where[c] = h[c].syn /\ u.set[c] = Held(h[c])
    BY <1>4 DEF Says
  <2>3. \A c \in Columns(s) : row[c] = h[c].syn
    BY <1>2, <2>1
  <2>4. Matches(u, row)
    BY <1>2, <2>1, <2>2, <2>3 DEF Matches
  <2>5. w \in Row(s)
    BY <2>4, WrittenIs
  <2>6. \A c \in Columns(s) : w[c] = IF c \in DOMAIN u.set THEN u.set[c] ELSE row[c]
    BY <2>1 DEF Written, Row
  <2> HIDE DEF w
  <2>7. \A c \in Columns(s) : w[c] = g[c].syn
    BY <1>1, <1>2, <2>2, <2>3, <2>6
  <2>8. AllSynced(s, g)
    <3>1. \A c \in Columns(s) \ {"last"} : c \notin parts \cup {"stk"} => h[c].syn = Held(h[c])
      BY <1>2, <1>3, <1>4, <2>1 DEF AllSynced
    <3> QED  BY <1>1, <1>2, <3>1 DEF AllSynced
  <2> QED  BY <2>4, <2>5, <2>7, <2>8 DEF Shown, w, g
<1>5. CASE ~CanLookUp(s)
  <2>1. LookUpOrNew(s).vol = Empty /\ u.op = "INSERT" /\ row = Nothing
    BY <1>5 DEF LookUpOrNew
  <2>2. u.set = [c \in Columns(s) |-> IF c \in parts \cup {"stk"} THEN Held(h[c]) ELSE 0]
    BY <1>5 DEF Says
  <2>3. Matches(u, row) /\ w = u.set
    BY <2>1 DEF Matches, Written
  <2>4. w \in Row(s)
    BY <2>3, WrittenIs
  <2> HIDE DEF w
  <2>5. \A c \in Columns(s) : w[c] = g[c].syn
    <3>1. \A b \in Balance : h[b].syn = 0
      BY <2>1, EmptyIs
    <3> QED  BY <1>1, <1>2, <2>2, <2>3, <3>1
  <2>6. AllSynced(s, g)
    <3>1. \A c \in Columns(s) \ {"last"} : c \notin parts \cup {"stk"} => h[c].syn = Held(h[c])
      BY <1>2, <1>3, <2>1, EmptyIs
    <3> QED  BY <1>1, <1>2, <3>1 DEF AllSynced
  <2> QED  BY <2>3, <2>4, <2>5, <2>6 DEF Shown, w, g
<1> QED  BY <1>4, <1>5

LEMMA RowFollowsMove ==
    ASSUME UserInv, RowFollows, NEW o \in Order, Moves(o)
    PROVE  RowFollows'
<1>1. UNCHANGED <<day, sql, db, lost, refused>> /\ \A s \in Security : OnlyMoved(s)
  BY DEF Moves, NoTrade
<1> SUFFICES ASSUME OtherOrders
             PROVE  /\ refused \subseteq lost
                    /\ \A s \in Security : cache'[s] # Nothing => AllSynced(s, cache'[s].vol)
                    /\ \A s \in Security \ lost : Caught(s)'
  BY <1>1 DEF RowFollows, OtherOrders, Kind
<1>2. ASSUME NEW s \in Security
      PROVE  /\ cache'[s] # Nothing => AllSynced(s, cache'[s].vol)
             /\ s \notin lost => Caught(s)'
  <2>1. CASE cache'[s] = cache[s]
    BY <1>1, <2>1 DEF RowFollows, Caught
  <2>2. CASE /\ CanLookUp(s) /\ cache'[s] \in Entry /\ cache'[s].stored
             /\ AllKept(LookUp(s).vol, cache'[s].vol)
    <3>1. AllSynced(s, cache'[s].vol)
      BY <2>2, LookedUp, ShownKept DEF RowFollows
    <3>2. ASSUME s \notin lost PROVE Caught(s)'
      <4>1. PICK row : LeadsTo(s, sql, db[s], row) /\ Shown(s, LookUp(s).vol, row)
        BY <2>2, <3>2, LookedUp DEF RowFollows
      <4>2. Shown(s, cache'[s].vol, row)
        BY <2>2, <4>1, ShownKept
      <4>3. sql' = sql /\ db' = db /\ cache'[s] # Nothing
        BY <1>1, <2>2, SecurityIs
      <4> QED  BY <4>1, <4>2, <4>3 DEF Caught
    <3> QED  BY <3>1, <3>2
  <2> QED  BY <1>1, <2>1, <2>2 DEF OnlyMoved
<1> QED  BY <1>2 DEF RowFollows

LEMMA RowFollowsTrade ==
    ASSUME UserInv, RowFollows, NEW o \in Order, TradeStep(o)
    PROVE  RowFollows'
<1>1. UNCHANGED <<day, db, lost, refused>> /\ sql \in Seq(Statement)
      /\ \A s \in Security : db[s] \in Row(s) \cup {Nothing}
  BY DEF TradeStep, UserInv, UserTypes
<1> SUFFICES ASSUME OtherOrders
             PROVE  /\ refused \subseteq lost
                    /\ \A s \in Security : cache'[s] # Nothing => AllSynced(s, cache'[s].vol)
                    /\ \A s \in Security \ lost : Caught(s)'
  BY <1>1 DEF RowFollows, OtherOrders, Kind
<1>2. PICK p \in Seq(Statement) :
          /\ sql' = sql \o p
          /\ \A s \in Security :
                \/ cache'[s] = cache[s] /\ \A i \in DOMAIN p : p[i].of # s
                \/ \E k \in DOMAIN p : Wrote(s, p[k]) /\ \A i \in DOMAIN p \ {k} : p[i].of # s
  BY DEF TradeStep, Queued
<1>3. \A s \in Security :
         (\A i \in DOMAIN sql : sql[i].of # s) /\ (\A i \in DOMAIN p : p[i].of # s)
            => \A i \in DOMAIN sql' : sql'[i].of # s
  <2>1. /\ DOMAIN sql = 1..Len(sql) /\ DOMAIN p = 1..Len(p) /\ Len(sql) \in Nat /\ Len(p) \in Nat
        /\ DOMAIN sql' = 1..Len(sql) + Len(p)
        /\ \A i \in 1..Len(sql) + Len(p) : sql'[i] = IF i <= Len(sql) THEN sql[i] ELSE p[i - Len(sql)]
    BY <1>1, <1>2, ConcatProperties
  <2>2. \A i \in 1..Len(sql) + Len(p) : i \in 1..Len(sql) \/ (~(i <= Len(sql)) /\ i - Len(sql) \in 1..Len(p))
    BY <2>1
  <2> QED  BY <2>1, <2>2
<1>4. ASSUME NEW s \in Security
      PROVE  /\ cache'[s] # Nothing => AllSynced(s, cache'[s].vol)
             /\ s \notin lost => Caught(s)'
  <2>1. CASE cache'[s] = cache[s] /\ \A i \in DOMAIN p : p[i].of # s
    <3>1. cache'[s] # Nothing => AllSynced(s, cache'[s].vol)
      BY <2>1 DEF RowFollows
    <3>2. ASSUME s \notin lost PROVE Caught(s)'
      <4>1. CASE cache[s] = Nothing
        BY <1>3, <2>1, <3>2, <4>1 DEF RowFollows, Caught
      <4>2. CASE cache[s] # Nothing
        <5>1. PICK row : LeadsTo(s, sql, db[s], row) /\ Shown(s, cache[s].vol, row)
          BY <3>2, <4>2 DEF RowFollows, Caught
        <5>2. row \in Row(s) \cup {Nothing}
          BY <5>1 DEF Shown
        <5>3. LeadsTo(s, p, row, row)
          BY <2>1, <5>2, LeadsNowhere
        <5>4. LeadsTo(s, sql \o p, db[s], row)
          BY <1>1, <5>1, <5>3, LeadsOn
        <5> QED  BY <1>1, <1>2, <2>1, <4>2, <5>1, <5>4 DEF Caught
      <4> QED  BY <4>1, <4>2
    <3> QED  BY <3>1, <3>2
  <2>2. ASSUME NEW k \in DOMAIN p, Wrote(s, p[k]), \A i \in DOMAIN p \ {k} : p[i].of # s
        PROVE  /\ cache'[s] # Nothing => AllSynced(s, cache'[s].vol)
               /\ s \notin lost => Caught(s)'
    <3> DEFINE u == p[k]
    <3>1. PICK h \in Holding, parts \in SUBSET Part :
             /\ cache'[s] = Synced([LookUpOrNew(s) EXCEPT !.vol = h], parts)
             /\ \A b \in Balance : h[b].syn = LookUpOrNew(s).vol[b].syn
             /\ u \in Statement /\ u.of = s
             /\ CanLookUp(s) => u.op = "UPDATE"
             /\ ~CanLookUp(s) => u.op = "INSERT" \/ (u.op = "error" /\ Redeemed(s))
             /\ Says(s, h, parts, u)
      BY <2>2 DEF Wrote
    <3>2. ~CanLookUp(s) => u.op = "INSERT"
      BY <3>1 DEF Redeemed, OtherOrders
    <3>3. cache'[s].vol = SynParts(h, parts) /\ cache'[s] # Nothing
      BY <3>1, SyncedIs
    <3> HIDE DEF u
    <3>4. ASSUME NEW row \in Row(s) \cup {Nothing},
                 \/ CanLookUp(s) /\ Shown(s, LookUp(s).vol, row) /\ AllSynced(s, LookUp(s).vol)
                 \/ ~CanLookUp(s) /\ row = Nothing
          PROVE  /\ Matches(u, row) /\ Written(u, row) \in Row(s)
                 /\ Shown(s, cache'[s].vol, Written(u, row)) /\ AllSynced(s, cache'[s].vol)
      BY <3>1, <3>2, <3>3, <3>4, Fits
    <3>5. CanLookUp(s) => AllSynced(s, LookUp(s).vol)
      BY LookedUp DEF RowFollows
    <3>6. AllSynced(s, cache'[s].vol)
      <4>1. CASE ~CanLookUp(s)
        BY <3>4, <4>1
      <4>2. CASE CanLookUp(s)
        <5> DEFINE row == [c \in Columns(s) |-> LookUp(s).vol[c].syn]
        <5>1. \A c \in Columns(s) : LookUp(s).vol[c].syn \in Count
          BY <4>2, LookUpIs, ColumnsIn, Balances DEF Volume
        <5>2. row \in Row(s) /\ Shown(s, LookUp(s).vol, row)
          BY <5>1 DEF Row, Shown
        <5> HIDE DEF row
        <5> QED  BY <3>4, <3>5, <4>2, <5>2
      <4> QED  BY <4>1, <4>2
    <3>7. ASSUME s \notin lost PROVE Caught(s)'
      <4>1. PICK row \in Row(s) \cup {Nothing} :
               /\ LeadsTo(s, sql, db[s], row)
               /\ \/ CanLookUp(s) /\ Shown(s, LookUp(s).vol, row) /\ AllSynced(s, LookUp(s).vol)
                  \/ ~CanLookUp(s) /\ row = Nothing
        <5>1. CASE CanLookUp(s)
          <6>1. PICK row : LeadsTo(s, sql, db[s], row) /\ Shown(s, LookUp(s).vol, row)
            BY <3>7, <5>1, LookedUp DEF RowFollows
          <6>2. row \in Row(s)
            BY <6>1 DEF Shown
          <6> QED  BY <3>5, <5>1, <6>1, <6>2
        <5>2. CASE ~CanLookUp(s)
          <6>1. LeadsTo(s, sql, db[s], Nothing) /\ db[s] = Nothing
            BY <1>1, <3>7, <5>2, LeadsNowhere DEF RowFollows, Caught, CanLookUp
          <6> QED  BY <5>2, <6>1
        <5> QED  BY <5>1, <5>2
      <4>2. /\ Matches(u, row) /\ Written(u, row) \in Row(s)
            /\ Shown(s, cache'[s].vol, Written(u, row))
        BY <3>4, <4>1
      <4>3. LeadsTo(s, p, row, Written(u, row))
        BY <2>2, <3>1, <4>2, LeadsOnce DEF u
      <4>4. LeadsTo(s, sql \o p, db[s], Written(u, row))
        BY <1>1, <4>1, <4>3, LeadsOn
      <4> QED  BY <1>1, <1>2, <3>3, <4>2, <4>4 DEF Caught
    <3> QED  BY <3>6, <3>7
  <2> QED  BY <1>2, <2>1, <2>2
<1> QED  BY <1>4 DEF RowFollows

LEMMA RowFollowsTask ==
    ASSUME UserInv, RowFollows, TaskStockCacheSyn
    PROVE  RowFollows'
<1> DEFINE u == Head(sql)
<1>1. /\ UNCHANGED <<day, cache>> /\ sql \in Seq(Statement) /\ sql # <<>> /\ sql' = Tail(sql)
      /\ u \in Statement /\ u.of \in Security /\ u = sql[1] /\ 1 \in DOMAIN sql
      /\ lost \subseteq lost'
  BY TaskIs
<1> SUFFICES ASSUME OtherOrders
             PROVE  /\ refused' \subseteq lost'
                    /\ \A s \in Security : cache[s] # Nothing => AllSynced(s, cache[s].vol)
                    /\ \A s \in Security \ lost' : Caught(s)'
  BY <1>1 DEF RowFollows, OtherOrders, Kind
<1>2. \A i \in DOMAIN Tail(sql) : i + 1 \in DOMAIN sql /\ Tail(sql)[i] = sql[i + 1]
  BY <1>1
<1> HIDE DEF u
<1>3. ASSUME u.of \notin lost PROVE cache[u.of] # Nothing /\ Matches(u, db[u.of])
  <2>1. cache[u.of] # Nothing
    BY <1>1, <1>3 DEF RowFollows, Caught
  <2>2. PICK row : LeadsTo(u.of, sql, db[u.of], row)
    BY <1>1, <1>3, <2>1 DEF RowFollows, Caught
  <2>3. Matches(u, db[u.of])
    BY <1>1, <2>2, LeadsFrom DEF u
  <2> QED  BY <2>1, <2>3
<1>4. refused' \subseteq lost'
  BY <1>3, TaskIs DEF RowFollows, u
<1>5. ASSUME NEW s \in Security \ lost' PROVE Caught(s)'
  <2>1. s \notin lost
    BY <1>1, <1>5
  <2>2. CASE cache[s] = Nothing
    BY <1>1, <1>2, <2>1, <2>2 DEF RowFollows, Caught
  <2>3. CASE cache[s] # Nothing
    <3>1. PICK row : LeadsTo(s, sql, db[s], row) /\ Shown(s, cache[s].vol, row)
      BY <2>1, <2>3 DEF RowFollows, Caught
    <3>2. CASE u.of # s
      <4>1. LeadsTo(s, Tail(sql), db[s], row) /\ db'[s] = db[s]
        BY <1>1, <3>1, <3>2, LeadsFrom, TaskIs DEF u
      <4> QED  BY <1>1, <2>3, <3>1, <4>1 DEF Caught
    <3>3. CASE u.of = s
      <4>1. Matches(u, db[s]) /\ LeadsTo(s, Tail(sql), Written(u, db[s]), row)
        BY <1>1, <3>1, <3>3, LeadsFrom DEF u
      <4>2. db'[s] = Written(u, db[s])
        BY <1>5, <3>3, <4>1, TaskIs DEF u
      <4> QED  BY <1>1, <2>3, <3>1, <4>1, <4>2 DEF Caught
    <3> QED  BY <3>2, <3>3
  <2> QED  BY <2>2, <2>3
<1> QED  BY <1>4, <1>5 DEF RowFollows

LEMMA RowFollowsKept == UserInv /\ RowFollows /\ [Next]_vars => RowFollows'
<1> SUFFICES ASSUME UserInv, RowFollows, [Next]_vars PROVE RowFollows'
  OBVIOUS
<1>1. CASE DayEndCleanUp
  BY <1>1 DEF DayEndCleanUp, RowFollows, OtherOrders, Kind, Caught
<1>2. CASE UNCHANGED vars
  BY <1>2 DEF vars, RowFollows, OtherOrders, Kind, Caught
<1> QED  BY <1>1, <1>2, StepIs, RowFollowsMove, RowFollowsTrade, RowFollowsTask

\* No statement is refused but after one that was lost, and when none waits
\* the row is what the cache holds (StockCacheSynHelper, TaskStockCacheSyn).
THEOREM UserDbCaughtUp == Spec => []DbCaughtUp
<1>1. Init => RowFollows
  BY DEF Init, RowFollows, Caught
<1>2. UserInv /\ RowFollows => DbCaughtUp
  <2> SUFFICES ASSUME UserInv, RowFollows, OtherOrders
               PROVE  /\ refused \subseteq lost
                      /\ sql = <<>> => \A s \in Security \ lost : cache[s] # Nothing =>
                            /\ cache[s].stored /\ db[s] # Nothing
                            /\ \A c \in Columns(s) \ {"last"} : db[s][c] = Held(cache[s].vol[c])
    BY DEF DbCaughtUp
  <2>1. refused \subseteq lost
    BY DEF RowFollows
  <2>2. ASSUME sql = <<>>, NEW s \in Security \ lost, cache[s] # Nothing
        PROVE  /\ cache[s].stored /\ db[s] # Nothing
               /\ \A c \in Columns(s) \ {"last"} : db[s][c] = Held(cache[s].vol[c])
    <3>1. PICK row : LeadsTo(s, sql, db[s], row) /\ Shown(s, cache[s].vol, row)
      BY <2>2 DEF RowFollows, Caught
    <3>2. row = db[s]
      BY <2>2, <3>1 DEF LeadsTo
    <3>3. AllSynced(s, cache[s].vol) /\ cache[s].stored
      BY <2>2 DEF RowFollows, UserInv
    <3> QED  BY <3>1, <3>2, <3>3, SecurityIs DEF Shown, AllSynced
  <2> QED  BY <2>1, <2>2
<1> QED  BY <1>1, <1>2, RowFollowsKept, UserInvariant, PTL DEF Spec

\* Together: the row follows the cache.
THEOREM UserRowFollowsCache ==
    ASSUME RowsThere
    PROVE  Spec => []RowFollowsCache
BY UserStoredHasRow, UserDbCaughtUp, PTL DEF RowFollowsCache

-----------------------------------------------------------------------------
(* What is frozen is frozen for orders, if no component may be replaced by   *)
(* cash and what is asked of a security does not wrap.                       *)

OnlySecurity == \A c \in Component : Substitute[c] = "Only_Security"

AskedOn(d, o, s) ==
    IF d.kind[o] = "sell" /\ d.of[o] = s THEN d.qty[o]
    ELSE IF d.kind[o] = "etf_crt" /\ s \in Component
         THEN ((d.qty[o] \div Unit) * Share[s]) % Modulus ELSE 0

NoWrap ==
    \A d \in Days, s \in Security :
       SumFunctionOnSet([o \in Order |-> AskedOn(d, o, s)], Order) < Modulus

Asked(o, s) == AskedOn(day, o, s)

\* What is frozen of a part, and for orders.
Frozen(s, p) == IF cache[s] = Nothing THEN 0 ELSE cache[s].vol[p].froze

FrozenForAll(s, p) == SumFunctionOnSet([o \in Order |-> FrozenFor(o, s, p)], Order)

FrozenInv ==
    /\ \A s \in Security, p \in Part : Frozen(s, p) = FrozenForAll(s, p)
    /\ \A o \in Order, s \in Security : order[o].state = "resting" =>
          order[o].cps[s].first + order[o].cps[s].avl <= Asked(o, s)
    /\ \A o \in Order : order[o].state = "resting" /\ Kind[o] = "sell" =>
          order[o].cps[Of[o]].first + order[o].cps[Of[o]].avl = order[o].leaves
    /\ \A o \in Order : order[o].state = "new" => order[o].leaves = Qty[o]

\* The change a step of o makes in what is frozen, and in what is frozen for it.
FrozenStep(o) ==
    /\ UNCHANGED day
    /\ \A q \in Order \ {o} : order'[q] = order[q]
    /\ \A s \in Security, p \in Part :
          Frozen(s, p)' = (Frozen(s, p) - FrozenFor(o, s, p) + FrozenFor(o, s, p)') % Modulus
    /\ order'[o].state # "new"
    /\ order'[o].state = "resting" =>
          /\ \A s \in Security : order'[o].cps[s].first + order'[o].cps[s].avl <= Asked(o, s)
          /\ Kind[o] = "sell" =>
                order'[o].cps[Of[o]].first + order'[o].cps[Of[o]].avl = order'[o].leaves

LEMMA AskedIs ==
    ASSUME day \in Days, NEW o \in Order, NEW s \in Security
    PROVE  /\ Asked(o, s) \in Nat
           /\ Asked(o, s) = IF Kind[o] = "sell" /\ Of[o] = s THEN Qty[o]
                            ELSE IF Kind[o] = "etf_crt" /\ s \in Component THEN Needed(o, s) ELSE 0
<1>1. Asked(o, s) = IF Kind[o] = "sell" /\ Of[o] = s THEN Qty[o]
                    ELSE IF Kind[o] = "etf_crt" /\ s \in Component THEN Needed(o, s) ELSE 0
  BY DEF Asked, AskedOn, Kind, Of, Qty, Needed
<1> QED  BY <1>1, DayIs, NeededIs, CountIs

LEMMA FrozenForIs ==
    /\ UserInv => \A o \in Order, s \in Security, p \in Part : FrozenFor(o, s, p) \in Nat
    /\ UserInv' => \A o \in Order, s \in Security, p \in Part : FrozenFor(o, s, p)' \in Nat
<1>1. ASSUME UserInv, NEW o \in Order, NEW s \in Security, NEW p \in Part
      PROVE  FrozenFor(o, s, p) \in Nat
  BY <1>1, OrderIs DEF FrozenFor
<1>2. ASSUME UserInv', NEW o \in Order, NEW s \in Security, NEW p \in Part
      PROVE  FrozenFor(o, s, p)' \in Nat
  <2>1. order'[o] \in OrderState
    BY <1>2 DEF UserInv, UserTypes
  <2>2. order'[o].cps[s].first \in Nat /\ order'[o].cps[s].avl \in Nat
    BY <2>1, CountIs DEF OrderState
  <2> QED  BY <2>2 DEF FrozenFor
<1> QED  BY <1>1, <1>2

LEMMA FrozenStepKeeps ==
    ASSUME NoWrap, UserInv, UserInv', FrozenInv, NEW o \in Order, FrozenStep(o)
    PROVE  FrozenInv'
<1>1. day' = day /\ Kind' = Kind /\ Of' = Of /\ Qty' = Qty /\ day \in Days /\ IsFiniteSet(Order)
      /\ \A q \in Order, s \in Security : Asked(q, s)' = Asked(q, s)
  BY UserStockAssumption DEF FrozenStep, Kind, Of, Qty, Asked, UserInv, UserTypes
<1>2. \A q \in Order \ {o} : order'[q] = order[q]
  BY DEF FrozenStep
<1>3. \A q \in Order, s \in Security : order'[q].state = "resting" =>
         order'[q].cps[s].first + order'[q].cps[s].avl <= Asked(q, s)
  BY <1>2 DEF FrozenStep, FrozenInv
<1>4. \A q \in Order : order'[q].state = "resting" /\ Kind[q] = "sell" =>
         order'[q].cps[Of[q]].first + order'[q].cps[Of[q]].avl = order'[q].leaves
  BY <1>2 DEF FrozenStep, FrozenInv
<1>5. \A q \in Order : order'[q].state = "new" => order'[q].leaves = Qty[q]
  BY <1>2 DEF FrozenStep, FrozenInv
<1>6. ASSUME NEW s \in Security, NEW p \in Part PROVE Frozen(s, p)' = FrozenForAll(s, p)'
  <2> DEFINE f == [q \in Order |-> FrozenFor(q, s, p)]
             g == [q \in Order |-> FrozenFor(q, s, p)']
             a == [q \in Order |-> AskedOn(day, q, s)]
             x == SumFunctionOnSet(f, Order)
             y == SumFunctionOnSet(g, Order)
  <2>1. \A q \in Order : /\ f[q] \in Nat /\ g[q] \in Nat /\ a[q] \in Nat
                         /\ f[q] = FrozenFor(q, s, p) /\ g[q] = FrozenFor(q, s, p)'
                         /\ a[q] = Asked(q, s)
    BY <1>1, FrozenForIs, AskedIs DEF Asked
  <2>2. \A q \in Order \ {o} : f[q] = g[q]
    <3> SUFFICES ASSUME NEW q \in Order \ {o} PROVE FrozenFor(q, s, p)' = FrozenFor(q, s, p)
      OBVIOUS
    <3>1. order'[q] = order[q] /\ FirstPart(q)' = FirstPart(q)
      BY <1>1, <1>2 DEF FirstPart
    <3> QED  BY <3>1 DEF FrozenFor
  <2>3. \A q \in Order : g[q] <= a[q]
    <3> SUFFICES ASSUME NEW q \in Order PROVE FrozenFor(q, s, p)' <= Asked(q, s)
      BY <2>1
    <3>1. order'[q] \in OrderState
      BY DEF UserInv, UserTypes
    <3>2. order'[q].cps[s].first \in Nat /\ order'[q].cps[s].avl \in Nat
      BY <3>1, CountIs DEF OrderState
    <3>3. Asked(q, s) \in Nat
      BY <1>1, AskedIs
    <3> QED  BY <1>3, <3>2, <3>3 DEF FrozenFor
  <2> HIDE DEF f, g, a
  <2>4. y = x - f[o] + g[o]
    BY <1>1, <2>1, <2>2, SumUpdate
  <2>5. x \in Nat /\ y \in Nat
    BY <1>1, <2>1, SumNat
  <2>6. y < Modulus
    <3>1. y <= SumFunctionOnSet(a, Order)
      BY <1>1, <2>1, <2>3, SumLeq
    <3>2. SumFunctionOnSet(a, Order) < Modulus
      BY <1>1 DEF NoWrap, a
    <3>3. SumFunctionOnSet(a, Order) \in Nat
      BY <1>1, <2>1, SumNat
    <3> QED  BY <2>5, <3>1, <3>2, <3>3, CountIs
  <2>7. Frozen(s, p) = x
    BY DEF FrozenInv, FrozenForAll, f
  <2>8. Frozen(s, p)' = (x - f[o] + g[o]) % Modulus
    BY <2>1, <2>7 DEF FrozenStep
  <2>9. y % Modulus = y
    BY <2>5, <2>6, CountIs
  <2>10. FrozenForAll(s, p)' = y
    BY DEF FrozenForAll, g
  <2> QED  BY <2>4, <2>8, <2>9, <2>10
<1> QED  BY <1>1, <1>3, <1>4, <1>5, <1>6 DEF FrozenInv

\* The froze count of a part, after shares of both parts are frozen or not.
LEMMA FrozePartsFroze ==
    ASSUME NEW h \in Holding, NEW first \in Part \ {"avl"}, NEW undo \in Part \ {"avl"}, NEW n \in Count
    PROVE  LET g == FrozeParts(h, first, undo, n)
               a == FromFirst(h, first, n)
               b == FromAvl(h, first, n)
           IN  /\ Enough(h, first, n) => \A p \in Part :
                     g[p].froze = IF p = first THEN (h[p].froze + a) % Modulus
                                  ELSE IF p = "avl" THEN (h[p].froze + b) % Modulus
                                  ELSE h[p].froze
               /\ ~Enough(h, first, n) /\ undo = first => \A p \in Part : g[p].froze = h[p].froze
<1> DEFINE a == FromFirst(h, first, n)
           b == FromAvl(h, first, n)
           g == FrozeParts(h, first, undo, n)
           taken == [h EXCEPT ![first] = Froze(@, a), !["avl"] = Froze(@, b)]
<1>1. a \in Count /\ b \in Count /\ Query(h[first], a) = a /\ Query(h["avl"], b) = b
      /\ a \in Int /\ b \in Int /\ a + b <= n /\ n \in Nat /\ a \in Nat /\ b \in Nat
  BY TakenIs
<1>2. \A c \in Balance : h[c] \in Volume /\ h[c].froze \in Count /\ h[c].froze \in Int
  BY Balances, CountIs DEF Volume
<1>3. first \in Balance /\ "avl" \in Balance /\ "stk" \in Balance /\ "stk" \notin Part /\ Part \subseteq Balance
      /\ undo \in Balance
  BY Balances DEF Part
<1>4. Enough(h, first, n) <=> a + b = n
  BY DEF Enough
<1>5. g = IF a = n THEN taken
          ELSE IF a + b = n THEN [taken EXCEPT !["stk"] = Froze(@, n)]
          ELSE [taken EXCEPT ![undo] = Defroze(@, a), !["avl"] = Defroze(@, b)]
  BY DEF FrozeParts
<1> HIDE DEF a, b
<1>6. /\ Froze(h[first], a) \in Volume /\ Froze(h[first], a).froze = (h[first].froze + a) % Modulus
      /\ Froze(h["avl"], b) \in Volume /\ Froze(h["avl"], b).froze = (h["avl"].froze + b) % Modulus
  <2>1. h[first] \in Volume /\ h["avl"] \in Volume
    BY <1>2, <1>3
  <2>2. /\ Froze(h[first], a) \in Volume
        /\ Froze(h[first], a).froze = (h[first].froze + Query(h[first], a)) % Modulus
    BY <1>1, <2>1, FrozeIs
  <2>3. /\ Froze(h["avl"], b) \in Volume
        /\ Froze(h["avl"], b).froze = (h["avl"].froze + Query(h["avl"], b)) % Modulus
    BY <1>1, <2>1, FrozeIs
  <2> QED  BY <1>1, <2>2, <2>3
<1>7. /\ taken \in Holding
      /\ \A c \in Balance : taken[c] = IF c = first THEN Froze(h[c], a)
                                       ELSE IF c = "avl" THEN Froze(h[c], b) ELSE h[c]
  BY <1>3, <1>6, Balances DEF Holding
<1> HIDE DEF g, taken
<1>8. \A p \in Part : taken[p].froze = IF p = first THEN (h[p].froze + a) % Modulus
                                       ELSE IF p = "avl" THEN (h[p].froze + b) % Modulus
                                       ELSE h[p].froze
  BY <1>3, <1>6, <1>7
<1>9. a = n => a + b = n
  BY <1>1
<1>10. ASSUME a + b = n PROVE \A p \in Part : g[p] = taken[p]
  <2>1. CASE a = n
    BY <1>5, <2>1
  <2>2. CASE a # n
    <3>1. g = [taken EXCEPT !["stk"] = Froze(@, n)]
      BY <1>5, <1>10, <2>2
    <3> QED  BY <1>3, <1>7, <3>1 DEF Holding
  <2> QED  BY <2>1, <2>2
<1>11. ASSUME a + b # n, undo = first PROVE \A p \in Part : g[p].froze = h[p].froze
  <2>1. g = [taken EXCEPT ![first] = Defroze(@, a), !["avl"] = Defroze(@, b)]
    BY <1>5, <1>9, <1>11
  <2>2. \A c \in Balance : g[c] = IF c = first THEN Defroze(taken[c], a)
                                  ELSE IF c = "avl" THEN Defroze(taken[c], b) ELSE taken[c]
    BY <1>3, <1>7, <2>1 DEF Holding
  <2>3. \A c \in Balance, k \in Int : taken[c] \in Volume /\ Defroze(taken[c], k).froze = (taken[c].froze - k) % Modulus
    BY <1>7, Balances, DefrozeIs
  <2>4. \A x \in Count, k \in Int : (((x + k) % Modulus) - k) % Modulus = x
    <3> SUFFICES ASSUME NEW x \in Count, NEW k \in Int
                 PROVE  (((x + k) % Modulus) - k) % Modulus = x
      OBVIOUS
    <3>1. x \in Int /\ x + k \in Int /\ -k \in Int /\ (x + k) + (-k) = x /\ x % Modulus = x
      BY CountIs
    <3> DEFINE y == (x + k) % Modulus
    <3>2. y \in Int
      BY <3>1, CountIs
    <3>3. (y + (-k)) % Modulus = ((x + k) + (-k)) % Modulus
      BY <3>1, ModulusAssumption, ModSum
    <3>4. y - k = y + (-k)
      <4> HIDE DEF y
      <4> QED  BY <3>2
    <3> HIDE DEF y
    <3>5. (y - k) % Modulus = x
      BY <3>1, <3>3, <3>4
    <3> QED  BY <3>5 DEF y
  <2>5. /\ g[first].froze = (((h[first].froze + a) % Modulus) - a) % Modulus
        /\ g["avl"].froze = (((h["avl"].froze + b) % Modulus) - b) % Modulus
    <3>1. /\ taken[first].froze = (h[first].froze + a) % Modulus
          /\ taken["avl"].froze = (h["avl"].froze + b) % Modulus
      BY <1>3, <1>8 DEF Part
    <3>2. g[first] = Defroze(taken[first], a) /\ g["avl"] = Defroze(taken["avl"], b)
      BY <1>3, <2>2
    <3>3. /\ Defroze(taken[first], a).froze = (taken[first].froze - a) % Modulus
          /\ Defroze(taken["avl"], b).froze = (taken["avl"].froze - b) % Modulus
      BY <1>1, <1>3, <2>3
    <3> QED  BY <3>1, <3>2, <3>3
  <2>6. g[first].froze = h[first].froze /\ g["avl"].froze = h["avl"].froze
    BY <1>1, <1>2, <1>3, <2>4, <2>5
  <2> QED  BY <1>3, <1>8, <2>2, <2>6
<1>12. a + b = n => \A p \in Part :
          g[p].froze = IF p = first THEN (h[p].froze + a) % Modulus
                       ELSE IF p = "avl" THEN (h[p].froze + b) % Modulus ELSE h[p].froze
  BY <1>8, <1>10
<1> QED  BY <1>4, <1>11, <1>12 DEF a, b, g

\* What is frozen of an entry that is looked up or made.
LEMMA FrozenIs ==
    ASSUME UserInv, NEW s \in Security, NEW p \in Part
    PROVE  /\ CanLookUp(s) => LookUp(s).vol[p].froze = Frozen(s, p)
           /\ LookUpOrNew(s).vol[p].froze = Frozen(s, p)
           /\ Frozen(s, p) \in Count /\ Frozen(s, p) \in Nat /\ Frozen(s, p) % Modulus = Frozen(s, p)
<1>1. p \in Balance
  BY Balances
<1>2. ASSUME CanLookUp(s) PROVE LookUp(s).vol[p].froze = Frozen(s, p)
  <2>1. CASE cache[s] # Nothing
    BY <2>1 DEF LookUp, Frozen
  <2>2. CASE cache[s] = Nothing
    <3>1. LookUp(s).vol = Load(db[s]) /\ db[s] \in Row(s)
      BY <1>2, <2>2 DEF CanLookUp, LookUp, UserInv, UserTypes
    <3> QED  BY <1>1, <2>2, <3>1, LoadIs DEF Frozen
  <2> QED  BY <2>1, <2>2
<1>3. ASSUME ~CanLookUp(s) PROVE LookUpOrNew(s).vol[p].froze = Frozen(s, p)
  BY <1>1, <1>3, EmptyIs DEF CanLookUp, LookUpOrNew, Frozen
<1>4. LookUpOrNew(s).vol[p].froze = Frozen(s, p)
  BY <1>2, <1>3 DEF LookUpOrNew
<1>5. LookUpOrNew(s).vol[p].froze \in Count
  BY <1>1, LookUpIs, Balances DEF Volume
<1> QED  BY <1>2, <1>4, <1>5, CountIs

LEMMA FrozenForNone ==
    ASSUME NEW o, NEW s, NEW p
    PROVE  /\ order[o].state # "resting" => FrozenFor(o, s, p) = 0
           /\ order'[o].state # "resting" => FrozenFor(o, s, p)' = 0
BY DEF FrozenFor

\* A step that refuses the order.
LEMMA FrozenReject ==
    ASSUME UserInv, NEW o \in Order, order[o].state = "new", Reject(o), UNCHANGED day,
           \A s \in Security, p \in Part : Frozen(s, p)' = Frozen(s, p)
    PROVE  FrozenStep(o)
<1>1. order'[o].state = "rejected" /\ \A q \in Order \ {o} : order'[q] = order[q]
  BY OrderIs DEF Reject, OrderState
<1>2. \A s \in Security, p \in Part : FrozenFor(o, s, p) = 0 /\ FrozenFor(o, s, p)' = 0
  BY <1>1, FrozenForNone
<1>3. \A s \in Security, p \in Part :
         Frozen(s, p)' = (Frozen(s, p) - FrozenFor(o, s, p) + FrozenFor(o, s, p)') % Modulus
  <2> SUFFICES ASSUME NEW s \in Security, NEW p \in Part
               PROVE  Frozen(s, p)' = (Frozen(s, p) - FrozenFor(o, s, p) + FrozenFor(o, s, p)') % Modulus
    OBVIOUS
  <2>1. Frozen(s, p) - 0 + 0 = Frozen(s, p) /\ Frozen(s, p) % Modulus = Frozen(s, p)
    BY FrozenIs
  <2> QED  BY <1>2, <2>1
<1> QED  BY <1>1, <1>3 DEF FrozenStep

\* A step that accepts the order and freezes for it what cps says.
LEMMA FrozenAccept ==
    ASSUME UserInv, NEW o \in Order, order[o].state = "new", NEW cps \in Cps, Accept(o, cps), UNCHANGED day,
           NEW first, FirstPart(o) = first,
           \A s \in Security, p \in Part :
              Frozen(s, p)' = (Frozen(s, p) + (IF p = first THEN cps[s].first
                                               ELSE IF p = "avl" THEN cps[s].avl ELSE 0)) % Modulus,
           \A s \in Security : cps[s].first + cps[s].avl <= Asked(o, s),
           Kind[o] = "sell" => cps[Of[o]].first + cps[Of[o]].avl = order[o].leaves
    PROVE  FrozenStep(o)
<1>1. /\ order'[o].state = "resting" /\ order'[o].cps = cps /\ order'[o].leaves = order[o].leaves
      /\ \A q \in Order \ {o} : order'[q] = order[q]
  BY OrderIs DEF Accept, OrderState
<1>2. FirstPart(o)' = first
  BY DEF FirstPart, Kind
<1>3. \A s \in Security, p \in Part :
         Frozen(s, p)' = (Frozen(s, p) - FrozenFor(o, s, p) + FrozenFor(o, s, p)') % Modulus
  <2> SUFFICES ASSUME NEW s \in Security, NEW p \in Part
               PROVE  Frozen(s, p)' = (Frozen(s, p) - FrozenFor(o, s, p) + FrozenFor(o, s, p)') % Modulus
    OBVIOUS
  <2>1. FrozenFor(o, s, p) = 0
    BY FrozenForNone
  <2>2. FrozenFor(o, s, p)' = IF p = first THEN cps[s].first ELSE IF p = "avl" THEN cps[s].avl ELSE 0
    BY <1>1, <1>2 DEF FrozenFor
  <2> DEFINE x == FrozenFor(o, s, p)'
             y == Frozen(s, p)
  <2>3. y - 0 + x = y + x
    <3>1. y \in Nat /\ x \in Int
      <4>1. cps[s].first \in Int /\ cps[s].avl \in Int
        BY CountIs DEF Cps
      <4> QED  BY <2>2, <4>1, FrozenIs
    <3> HIDE DEF x, y
    <3> QED  BY <3>1
  <2>4. Frozen(s, p)' = (y + x) % Modulus
    BY <2>2
  <2> QED  BY <2>1, <2>3, <2>4
<1> QED  BY <1>1, <1>3 DEF FrozenStep

LEMMA NoCpsIs == \A s \in Security : NoCps[s].first = 0 /\ NoCps[s].avl = 0
BY DEF NoCps

LEMMA FrozenPrep ==
    ASSUME UserInv, FrozenInv, OtherOrders, NEW o \in Order, TradePrep(o)
    PROVE  FrozenStep(o)
<1> DEFINE s == Of[o]
           n == order[o].leaves
           h == LookUp(s).vol
           g == SellFroze(h, n)
           a == FromFirst(h, "rdp", n)
           b == FromAvl(h, "rdp", n)
<1>1. /\ order[o].state = "new" /\ UNCHANGED day /\ s \in Security /\ n \in Count /\ n = Qty[o]
      /\ day \in Days /\ cache \in [Security -> Entry \cup {Nothing}]
  BY DayIs, OrderIs DEF UserInv, UserTypes, FrozenInv, TradePrep
<1>2. CASE Kind[o] = "buy" /\ Accept(o, NoCps) /\ UNCHANGED cache
  <2>1. FirstPart(o) = "none"
    BY <1>2 DEF FirstPart
  <2>2. \A t \in Security, p \in Part :
           Frozen(t, p)' = (Frozen(t, p) + (IF p = "none" THEN NoCps[t].first
                                            ELSE IF p = "avl" THEN NoCps[t].avl ELSE 0)) % Modulus
    <3> SUFFICES ASSUME NEW t \in Security, NEW p \in Part
                 PROVE  Frozen(t, p)' = (Frozen(t, p) + 0) % Modulus
      BY NoCpsIs
    <3>1. Frozen(t, p)' = Frozen(t, p)
      BY <1>2 DEF Frozen
    <3>2. Frozen(t, p) + 0 = Frozen(t, p) /\ Frozen(t, p) % Modulus = Frozen(t, p)
      BY FrozenIs
    <3> QED  BY <3>1, <3>2
  <2>3. \A t \in Security : NoCps[t].first + NoCps[t].avl <= Asked(o, t)
    BY <1>1, NoCpsIs, AskedIs
  <2> QED  BY <1>1, <1>2, <2>1, <2>2, <2>3, FrozenAccept, CpsIs DEF Cps
<1>3. CASE Kind[o] = "sell" /\ ~CanLookUp(s) /\ Reject(o) /\ UNCHANGED cache
  <2>1. \A t \in Security, p \in Part : Frozen(t, p)' = Frozen(t, p)
    BY <1>3 DEF Frozen
  <2> QED  BY <1>1, <1>3, <2>1, FrozenReject
<1>4. ASSUME Kind[o] = "sell", CanLookUp(s), cache' = [cache EXCEPT ![s] = [LookUp(s) EXCEPT !.vol = g]],
             IF Enough(h, "rdp", n)
             THEN Accept(o, [NoCps EXCEPT ![s] = [first |-> a, avl |-> b]])
             ELSE Reject(o)
      PROVE  FrozenStep(o)
  <2>1. h \in Holding /\ LookUp(s) \in Entry
    BY <1>1, <1>4, LookUpIs
  <2>2. "rdp" \in Part \ {"avl"}
    BY DEF Part
  <2>3. AllKept(h, g) /\ g = FrozeParts(h, "rdp", "rdp", n)
    BY <1>1, <2>1, <2>2, FrozePartsKeeps DEF SellFroze
  <2>4. /\ Enough(h, "rdp", n) => \A p \in Part :
              g[p].froze = IF p = "rdp" THEN (h[p].froze + a) % Modulus
                           ELSE IF p = "avl" THEN (h[p].froze + b) % Modulus ELSE h[p].froze
        /\ ~Enough(h, "rdp", n) => \A p \in Part : g[p].froze = h[p].froze
    <3> HIDE DEF h, n
    <3>1. n \in Count
      BY <1>1 DEF n
    <3> QED  BY <2>1, <2>2, <2>3, <3>1, FrozePartsFroze
  <2> HIDE DEF g
  <2>5. \A t \in Security, p \in Part : t = s => Frozen(t, p)' = g[p].froze /\ h[p].froze = Frozen(t, p)
    <3> DEFINE e == [LookUp(s) EXCEPT !.vol = g]
    <3>1. cache'[s] = e /\ e \in Entry /\ e.vol = g
      BY <1>1, <1>4, <2>3, EntryIs
    <3> HIDE DEF e
    <3>2. cache'[s] # Nothing /\ cache'[s].vol = g
      BY <3>1, SecurityIs
    <3>3. ASSUME NEW t \in Security, NEW p \in Part, t = s PROVE Frozen(t, p)' = g[p].froze
      <4>1. cache'[t] # Nothing /\ cache'[t].vol = g
        BY <3>2, <3>3
      <4> QED  BY <4>1 DEF Frozen
    <3>4. ASSUME NEW t \in Security, NEW p \in Part, t = s PROVE h[p].froze = Frozen(t, p)
      <4>1. CanLookUp(t) => LookUp(t).vol[p].froze = Frozen(t, p)
        BY FrozenIs
      <4> QED  BY <1>4, <3>4, <4>1
    <3> QED  BY <3>3, <3>4
  <2>6. \A t \in Security \ {s}, p \in Part : Frozen(t, p)' = Frozen(t, p)
    BY <1>1, <1>4 DEF Frozen
  <2>7. CASE ~Enough(h, "rdp", n)
    <3>2. \A t \in Security, p \in Part : Frozen(t, p)' = Frozen(t, p)
      <4> SUFFICES ASSUME NEW t \in Security, NEW p \in Part PROVE Frozen(t, p)' = Frozen(t, p)
        OBVIOUS
      <4>1. CASE t = s
        <5>1. Frozen(t, p)' = g[p].froze /\ h[p].froze = Frozen(t, p)
          BY <2>5, <4>1
        <5>2. g[p].froze = h[p].froze
          BY <2>4, <2>7
        <5> QED  BY <5>1, <5>2
      <4> QED  BY <2>6, <4>1
    <3> QED  BY <1>1, <1>4, <2>7, <3>2, FrozenReject
  <2>8. CASE Enough(h, "rdp", n)
    <3> DEFINE cps == [NoCps EXCEPT ![s] = [first |-> a, avl |-> b]]
    <3>1. a \in Count /\ b \in Count /\ a \in Nat /\ b \in Nat /\ a + b = n
      BY <1>1, <2>1, <2>2, <2>8, TakenIs DEF Enough
    <3> HIDE DEF a, b
    <3>2. cps \in Cps /\ cps[s] = [first |-> a, avl |-> b] /\ \A t \in Security \ {s} : cps[t] = NoCps[t]
      BY <1>1, <3>1, CpsIs DEF Cps, NoCps
    <3> HIDE DEF cps
    <3>3. FirstPart(o) = "rdp"
      BY <1>4 DEF FirstPart
    <3>4. \A t \in Security, p \in Part :
             Frozen(t, p)' = (Frozen(t, p) + (IF p = "rdp" THEN cps[t].first
                                              ELSE IF p = "avl" THEN cps[t].avl ELSE 0)) % Modulus
      <4> SUFFICES ASSUME NEW t \in Security, NEW p \in Part
                   PROVE  Frozen(t, p)' = (Frozen(t, p) + (IF p = "rdp" THEN cps[t].first
                                              ELSE IF p = "avl" THEN cps[t].avl ELSE 0)) % Modulus
        OBVIOUS
      <4>1. Frozen(t, p) + 0 = Frozen(t, p) /\ Frozen(t, p) % Modulus = Frozen(t, p)
        BY FrozenIs
      <4>2. CASE t # s
        <5>1. cps[t].first = 0 /\ cps[t].avl = 0
          BY <3>2, <4>2, NoCpsIs
        <5> QED  BY <2>6, <4>1, <4>2, <5>1
      <4>3. CASE t = s
        <5>1. cps[t].first = a /\ cps[t].avl = b
          BY <3>2, <4>3
        <5>2. Frozen(t, p)' = g[p].froze /\ h[p].froze = Frozen(t, p)
          BY <2>5, <4>3
        <5>3. g[p].froze = IF p = "rdp" THEN (h[p].froze + a) % Modulus
                           ELSE IF p = "avl" THEN (h[p].froze + b) % Modulus ELSE h[p].froze
          BY <2>4, <2>8 DEF a, b
        <5> HIDE DEF h
        <5> QED  BY <4>1, <5>1, <5>2, <5>3
      <4> QED  BY <4>2, <4>3
    <3>5. cps[s].first + cps[s].avl = n
      BY <3>1, <3>2
    <3>6. \A t \in Security : cps[t].first + cps[t].avl <= Asked(o, t)
      <4> SUFFICES ASSUME NEW t \in Security PROVE cps[t].first + cps[t].avl <= Asked(o, t)
        OBVIOUS
      <4>1. CASE t = s
        <5>1. Asked(o, t) = n /\ n \in Nat
          BY <1>1, <1>4, <4>1, AskedIs, CountIs
        <5> QED  BY <3>5, <4>1, <5>1
      <4>2. CASE t # s
        BY <1>1, <3>2, <4>2, NoCpsIs, AskedIs
      <4> QED  BY <4>1, <4>2
    <3>7. Accept(o, cps)
      BY <1>4, <2>8 DEF cps, a, b
    <3> QED  BY <1>1, <3>2, <3>3, <3>4, <3>5, <3>6, <3>7, FrozenAccept
  <2> QED  BY <2>7, <2>8
<1>5. \/ Kind[o] = "sell" /\ FrozeOne(o, "rdp", SellFroze)
      \/ Kind[o] = "buy" /\ Accept(o, NoCps) /\ UNCHANGED cache
  BY DEF TradePrep, OtherOrders
<1>6. CASE Kind[o] = "sell" /\ FrozeOne(o, "rdp", SellFroze)
  BY <1>3, <1>4, <1>6 DEF FrozeOne
<1> QED  BY <1>2, <1>5, <1>6

\* What is frozen of the components when a creation comes in.
LEMMA FrozenQuery ==
    ASSUME OnlySecurity, UserInv, FrozenInv, NEW o \in Order, CreationQuery(o)
    PROVE  FrozenStep(o)
<1> DEFINE h(c) == LookUp(c).vol
           n(c) == Needed(o, c)
           a(c) == FromFirst(h(c), "act", n(c))
           b(c) == FromAvl(h(c), "act", n(c))
           g(c) == CreationFroze(h(c), n(c))
           short(c) == ~Enough(h(c), "act", n(c))
           part(c) == [first |-> a(c), avl |-> b(c)]
           upTo(i) == {Components[j] : j \in 1..i}
           found(s) == IF CanLookUp(s) THEN LookUp(s) ELSE Nothing
           frozen(s) == [LookUp(s) EXCEPT !.vol = g(s)]
           passes(c) == CanLookUp(c) /\ (short(c) => Substitute[c] = "Security_And_Cash")
           cps == [s \in Security |-> IF s \in Component THEN part(s) ELSE NoCps[s]]
<1>1. /\ order[o].state = "new" /\ UNCHANGED day /\ Kind[o] = "etf_crt" /\ day \in Days
      /\ cache \in [Security -> Entry \cup {Nothing}]
  BY DEF CreationQuery, UserInv, UserTypes
<1>2. \/ \E i \in DOMAIN Components :
            /\ cache' = [s \in Security |-> IF s \in upTo(i) THEN found(s) ELSE cache[s]]
            /\ Reject(o)
      \/ /\ \A c \in Component : passes(c)
         /\ cache' = [s \in Security |-> IF s \in Component THEN frozen(s) ELSE cache[s]]
         /\ Accept(o, cps)
      \/ \E i \in DOMAIN Components :
            /\ \A c \in Component : passes(c)
            /\ short(Components[i])
  BY DEF CreationQuery
<1>3. \A c \in Component : passes(c) => CanLookUp(c) /\ ~short(c)
  BY DEF OnlySecurity
<1>4. ASSUME NEW i \in DOMAIN Components, Reject(o),
             cache' = [s \in Security |-> IF s \in upTo(i) THEN found(s) ELSE cache[s]]
      PROVE  FrozenStep(o)
  <2>1. ASSUME NEW s \in Security, NEW p \in Part PROVE Frozen(s, p)' = Frozen(s, p)
    <3> HIDE DEF upTo
    <3>1. CASE cache'[s] = cache[s]
      BY <3>1 DEF Frozen
    <3>2. CASE CanLookUp(s) /\ cache'[s] = LookUp(s)
      <4>1. LookUp(s) # Nothing /\ LookUp(s).vol[p].froze = Frozen(s, p)
        BY <3>2, LookUpIs, FrozenIs
      <4> QED  BY <3>2, <4>1 DEF Frozen
    <3>3. cache'[s] = cache[s] \/ (CanLookUp(s) /\ cache'[s] = LookUp(s))
      <4>1. ~CanLookUp(s) => cache[s] = Nothing
        BY DEF CanLookUp
      <4> QED  BY <1>4, <4>1
    <3> QED  BY <3>1, <3>2, <3>3
  <2> QED  BY <1>1, <1>4, <2>1, FrozenReject
<1>5. ASSUME \A c \in Component : CanLookUp(c) /\ ~short(c), Accept(o, cps),
             cache' = [s \in Security |-> IF s \in Component THEN frozen(s) ELSE cache[s]]
      PROVE  FrozenStep(o)
  <2>1. ASSUME NEW c \in Component
        PROVE  /\ a(c) \in Count /\ b(c) \in Count /\ a(c) \in Nat /\ b(c) \in Nat
               /\ a(c) + b(c) = n(c) /\ n(c) \in Count
               /\ \A p \in Part : Frozen(c, p)' = IF p = "act" THEN (Frozen(c, p) + a(c)) % Modulus
                                                  ELSE IF p = "avl" THEN (Frozen(c, p) + b(c)) % Modulus
                                                  ELSE Frozen(c, p)
    <3>1. c \in Security /\ CanLookUp(c) /\ ~short(c) /\ h(c) \in Holding /\ n(c) \in Count
      BY <1>1, <1>5, SecurityIs, NeededIs, LookUpIs
    <3>2. "act" \in Part \ {"avl"} /\ "rdp" \in Part \ {"avl"} /\ "act" \in Part
      BY DEF Part
    <3>3. /\ a(c) \in Count /\ b(c) \in Count /\ a(c) \in Nat /\ b(c) \in Nat
      BY <3>1, <3>2, TakenIs
    <3>4. a(c) + b(c) = n(c)
      BY <3>1 DEF Enough
    <3>5. AllKept(h(c), g(c)) /\ g(c) = FrozeParts(h(c), "act", "rdp", n(c))
      BY <3>1, <3>2, FrozePartsKeeps DEF CreationFroze
    <3>6. \A p \in Part : g(c)[p].froze = IF p = "act" THEN (h(c)[p].froze + a(c)) % Modulus
                                          ELSE IF p = "avl" THEN (h(c)[p].froze + b(c)) % Modulus
                                          ELSE h(c)[p].froze
      <4> HIDE DEF h, n
      <4> QED  BY <3>1, <3>2, <3>5, FrozePartsFroze DEF a, b
    <3> HIDE DEF g
    <3>7. frozen(c) # Nothing /\ frozen(c).vol = g(c)
      BY <3>1, <3>5, EntryIs, SecurityIs
    <3>8. cache'[c] = frozen(c)
      BY <1>5, <3>1
    <3>9. \A p \in Part : Frozen(c, p)' = g(c)[p].froze
      <4>1. cache'[c] # Nothing /\ cache'[c].vol = g(c)
        BY <3>7, <3>8
      <4> QED  BY <4>1 DEF Frozen
    <3>10. \A p \in Part : h(c)[p].froze = Frozen(c, p)
      BY <3>1, FrozenIs
    <3> QED
      <4> HIDE DEF a, b, h, n
      <4> QED  BY <3>1, <3>3, <3>4, <3>6, <3>9, <3>10
  <2> HIDE DEF a, b, n
  <2>2. cps \in Cps /\ \A s \in Security :
           IF s \in Component THEN cps[s].first = a(s) /\ cps[s].avl = b(s)
                              ELSE cps[s].first = 0 /\ cps[s].avl = 0
    BY <2>1, NoCpsIs, CountIs DEF Cps, NoCps
  <2> HIDE DEF cps, frozen
  <2>3. FirstPart(o) = "act"
    BY <1>1 DEF FirstPart
  <2>4. \A s \in Security, p \in Part :
           Frozen(s, p)' = (Frozen(s, p) + (IF p = "act" THEN cps[s].first
                                            ELSE IF p = "avl" THEN cps[s].avl ELSE 0)) % Modulus
    <3> SUFFICES ASSUME NEW s \in Security, NEW p \in Part
                 PROVE  Frozen(s, p)' = (Frozen(s, p) + (IF p = "act" THEN cps[s].first
                                            ELSE IF p = "avl" THEN cps[s].avl ELSE 0)) % Modulus
      OBVIOUS
    <3>1. Frozen(s, p) + 0 = Frozen(s, p) /\ Frozen(s, p) % Modulus = Frozen(s, p)
      BY FrozenIs
    <3>2. CASE s \in Component
      BY <2>1, <2>2, <3>1, <3>2
    <3>3. CASE s \notin Component
      <4>1. Frozen(s, p)' = Frozen(s, p)
        BY <1>5, <3>3 DEF Frozen
      <4> QED  BY <2>2, <3>1, <3>3, <4>1
    <3> QED  BY <3>2, <3>3
  <2>5. \A s \in Security : cps[s].first + cps[s].avl <= Asked(o, s)
    <3> SUFFICES ASSUME NEW s \in Security PROVE cps[s].first + cps[s].avl <= Asked(o, s)
      OBVIOUS
    <3>1. CASE s \in Component
      <4>1. Asked(o, s) = n(s) /\ n(s) \in Nat
        BY <1>1, <2>1, <3>1, AskedIs, CountIs DEF n
      <4> QED  BY <2>1, <2>2, <3>1, <4>1
    <3>2. CASE s \notin Component
      BY <1>1, <2>2, <3>2, AskedIs
    <3> QED  BY <3>1, <3>2
  <2> QED  BY <1>1, <1>5, <2>2, <2>3, <2>4, <2>5, FrozenAccept
<1> HIDE DEF cps, found, frozen, passes, short, upTo
<1> QED  BY <1>2, <1>3, <1>4, <1>5, SecurityIs

\* A resting order has something frozen only of what it asked for, and no more
\* than is frozen of it.
LEMMA FrozenForOne ==
    ASSUME UserInv, FrozenInv, NEW o \in Order, NEW s \in Security, NEW p \in Part
    PROVE  /\ Asked(o, s) = 0 => FrozenFor(o, s, p) = 0
           /\ FrozenFor(o, s, p) \in Nat /\ FrozenFor(o, s, p) <= Frozen(s, p)
<1>1. Asked(o, s) = 0 => FrozenFor(o, s, p) = 0
  <2> DEFINE a == order[o].cps[s].first
             b == order[o].cps[s].avl
  <2>1. a \in Nat /\ b \in Nat
    BY OrderIs
  <2>2. order[o].state = "resting" => a + b <= Asked(o, s)
    BY DEF FrozenInv
  <2>3. /\ order[o].state # "resting" => FrozenFor(o, s, p) = 0
        /\ FrozenFor(o, s, p) \in {0, a, b}
    BY DEF FrozenFor
  <2> HIDE DEF a, b
  <2> QED  BY <2>1, <2>2, <2>3
<1>2. FrozenFor(o, s, p) \in Nat
  BY FrozenForIs
<1>3. FrozenFor(o, s, p) <= Frozen(s, p)
  <2> DEFINE f == [q \in Order |-> FrozenFor(q, s, p)]
  <2>1. \A q \in Order : f[q] \in Nat
    BY FrozenForIs
  <2>2. f[o] = FrozenFor(o, s, p) /\ Frozen(s, p) = SumFunctionOnSet(f, Order)
    BY DEF FrozenInv, FrozenForAll
  <2>3. IsFiniteSet(Order)
    BY UserStockAssumption
  <2> HIDE DEF f
  <2> QED  BY <2>1, <2>2, <2>3, SumNat
<1> QED  BY <1>1, <1>2, <1>3

\* A step that ends the order, or that leaves of it what cps says.
LEMMA FrozenLess ==
    ASSUME UserInv, FrozenInv, NEW o \in Order, order[o].state = "resting", UNCHANGED day,
           \A q \in Order \ {o} : order'[q] = order[q],
           order'[o].state \notin {"new", "resting"},
           \A s \in Security, p \in Part : Frozen(s, p)' = (Frozen(s, p) - FrozenFor(o, s, p)) % Modulus
    PROVE  FrozenStep(o)
<1>1. \A s \in Security, p \in Part :
         Frozen(s, p)' = (Frozen(s, p) - FrozenFor(o, s, p) + FrozenFor(o, s, p)') % Modulus
  <2> SUFFICES ASSUME NEW s \in Security, NEW p \in Part
               PROVE  Frozen(s, p)' = (Frozen(s, p) - FrozenFor(o, s, p) + FrozenFor(o, s, p)') % Modulus
    OBVIOUS
  <2> DEFINE x == Frozen(s, p)
             y == FrozenFor(o, s, p)
  <2>1. FrozenFor(o, s, p)' = 0
    BY FrozenForNone
  <2>2. x \in Nat /\ y \in Nat
    BY FrozenIs, FrozenForOne
  <2>3. Frozen(s, p)' = (x - y) % Modulus
    OBVIOUS
  <2>4. x - y + 0 = x - y
    <3> HIDE DEF x, y
    <3> QED  BY <2>2
  <2> QED  BY <2>1, <2>3, <2>4
<1> QED  BY <1>1 DEF FrozenStep

\* What is frozen after giving back and after confirming.
LEMMA DeFrozePartsFroze ==
    ASSUME NEW h \in Holding, NEW first \in Part \ {"avl"}, NEW a \in Count, NEW b \in Count
    PROVE  \A p \in Part : DeFrozeParts(h, first, a, b)[p].froze =
              IF p = first THEN (h[p].froze - a) % Modulus
              ELSE IF p = "avl" THEN (h[p].froze - b) % Modulus ELSE h[p].froze
<1> DEFINE g == DeFrozeParts(h, first, a, b)
<1>1. a \in Int /\ b \in Int /\ a + b \in Int
  BY CountIs
<1>2. \A c \in Balance : \A n \in Int : h[c] \in Volume /\ Defroze(h[c], n).froze = (h[c].froze - n) % Modulus
  BY Balances, DefrozeIs
<1>3. \A c \in Part : c \in Balance /\ c # "stk"
  BY Balances DEF Part
<1>4. \A c \in Part : g[c] = IF c = first THEN Defroze(h[c], a)
                             ELSE IF c = "avl" THEN Defroze(h[c], b) ELSE h[c]
  BY <1>3, Balances DEF DeFrozeParts, Holding
<1> HIDE DEF g
<1>5. \A p \in Part : g[p].froze = IF p = first THEN (h[p].froze - a) % Modulus
                                   ELSE IF p = "avl" THEN (h[p].froze - b) % Modulus ELSE h[p].froze
  BY <1>1, <1>2, <1>3, <1>4
<1> QED  BY <1>5 DEF g

LEMMA ConfirmPartsFroze ==
    ASSUME NEW h \in Holding, NEW first \in Part \ {"avl"}, NEW a \in Nat, NEW b \in Nat,
           a <= h[first].froze, b <= h["avl"].froze
    PROVE  \A p \in Part : ConfirmParts(h, first, a, b)[p].froze =
              IF p = first THEN h[p].froze - a
              ELSE IF p = "avl" THEN h[p].froze - b ELSE h[p].froze
<1> DEFINE g == ConfirmParts(h, first, a, b)
<1>1. \A c \in Part : c \in Balance /\ c # "stk" /\ h[c] \in Volume /\ h[c].froze \in Nat
  BY Balances, CountIs DEF Part, Volume
<1>2. \A c \in Part : \A n \in Nat :
         Confirm(h[c], n).froze = IF h[c].froze >= n THEN h[c].froze - n ELSE h[c].froze
  BY <1>1, ConfirmIs
<1>3. h[first].froze >= a /\ h["avl"].froze >= b /\ "avl" \in Part
  BY <1>1 DEF Part
<1>4. g = [h EXCEPT ![first] = Confirm(@, a), !["avl"] = Confirm(@, b), !["stk"] = Confirm(@, a + b)]
  BY <1>3 DEF ConfirmParts, CanConfirm
<1> HIDE DEF g
<1>5. \A c \in Part : g[c] = IF c = first THEN Confirm(h[c], a)
                             ELSE IF c = "avl" THEN Confirm(h[c], b) ELSE h[c]
  BY <1>1, <1>4, Balances DEF Holding
<1>6. \A p \in Part : g[p].froze = IF p = first THEN h[p].froze - a
                                   ELSE IF p = "avl" THEN h[p].froze - b ELSE h[p].froze
  <2> SUFFICES ASSUME NEW p \in Part
               PROVE  g[p].froze = IF p = first THEN h[p].froze - a
                                   ELSE IF p = "avl" THEN h[p].froze - b ELSE h[p].froze
    OBVIOUS
  <2>1. g[p] = IF p = first THEN Confirm(h[p], a) ELSE IF p = "avl" THEN Confirm(h[p], b) ELSE h[p]
    BY <1>5
  <2>2. Confirm(h[p], a).froze = IF h[p].froze >= a THEN h[p].froze - a ELSE h[p].froze
    BY <1>2
  <2>3. Confirm(h[p], b).froze = IF h[p].froze >= b THEN h[p].froze - b ELSE h[p].froze
    BY <1>2
  <2> QED  BY <1>3, <2>1, <2>2, <2>3
<1> QED  BY <1>6 DEF g

LEMMA FrozenCancel ==
    ASSUME UserInv, FrozenInv, OtherOrders, NEW o \in Order, UpdateAfterCancel(o)
    PROVE  FrozenStep(o)
<1> DEFINE s == Of[o]
           cps == order[o].cps[s]
           h == cache[s].vol
           g == SellDeFroze(h, cps.first, cps.avl)
<1>1. /\ order[o].state = "resting" /\ UNCHANGED day /\ s \in Security /\ day \in Days
      /\ order' = [order EXCEPT ![o].state = "cancelled", ![o].cps = NoCps]
      /\ cache \in [Security -> Entry \cup {Nothing}]
      /\ \/ Kind[o] = "buy" /\ UNCHANGED cache
         \/ Kind[o] = "sell" /\ cache' = [cache EXCEPT ![s].vol = g]
  BY DayIs DEF OtherOrders, UserInv, UserTypes, UpdateAfterCancel
<1>2. order'[o].state = "cancelled" /\ \A q \in Order \ {o} : order'[q] = order[q]
  BY <1>1, OrderIs DEF OrderState
<1>3. CASE Kind[o] = "buy" /\ UNCHANGED cache
  <2>1. ASSUME NEW t \in Security, NEW p \in Part
        PROVE  Frozen(t, p)' = (Frozen(t, p) - FrozenFor(o, t, p)) % Modulus
    <3>1. FrozenFor(o, t, p) = 0
      BY <1>1, <1>3, AskedIs, FrozenForOne
    <3>2. Frozen(t, p)' = Frozen(t, p)
      BY <1>3 DEF Frozen
    <3>3. Frozen(t, p) - 0 = Frozen(t, p) /\ Frozen(t, p) % Modulus = Frozen(t, p)
      BY FrozenIs
    <3> QED  BY <3>1, <3>2, <3>3
  <2> QED  BY <1>1, <1>2, <2>1, FrozenLess
<1>4. CASE Kind[o] = "sell" /\ cache' = [cache EXCEPT ![s].vol = g]
  <2>1. cache[s] # Nothing
    BY <1>1, <1>4 DEF UserInv, Loaded, HasEntries
  <2>2. h \in Holding /\ cache[s] \in Entry
    BY <1>1, <2>1 DEF Entry
  <2>3. "rdp" \in Part \ {"avl"} /\ cps.first \in Count /\ cps.avl \in Count
    BY <1>1, OrderIs DEF Part
  <2>4. \A p \in Part : g[p].froze = IF p = "rdp" THEN (h[p].froze - cps.first) % Modulus
                                     ELSE IF p = "avl" THEN (h[p].froze - cps.avl) % Modulus
                                     ELSE h[p].froze
    <3> HIDE DEF h, cps
    <3> QED  BY <2>2, <2>3, DeFrozePartsFroze DEF SellDeFroze
  <2>5. AllKept(h, g)
    <3> HIDE DEF h, cps
    <3> QED  BY <2>2, <2>3, DeFrozePartsKeeps DEF SellDeFroze
  <2>6. CanLookUp(s) /\ LookUp(s) = cache[s]
    BY <1>1, <2>1, LookUpIs
  <2> HIDE DEF g
  <2> DEFINE e == [LookUp(s) EXCEPT !.vol = g]
  <2>7. e \in Entry /\ e.vol = g
    BY <1>1, <2>5, <2>6, EntryIs
  <2>8. cache' = [cache EXCEPT ![s] = e]
    BY <1>1, <1>4, <2>6
  <2> HIDE DEF e
  <2>9. FirstPart(o) = "rdp"
    BY <1>4 DEF FirstPart
  <2>10. ASSUME NEW t \in Security, NEW p \in Part
         PROVE  Frozen(t, p)' = (Frozen(t, p) - FrozenFor(o, t, p)) % Modulus
    <3>0. Frozen(t, p) - 0 = Frozen(t, p) /\ Frozen(t, p) % Modulus = Frozen(t, p)
      BY FrozenIs
    <3>1. CASE t = s
      <4>1. cache'[t] # Nothing /\ cache'[t].vol = g
        BY <1>1, <2>7, <2>8, <3>1, SecurityIs
      <4>2. Frozen(t, p)' = g[p].froze
        BY <4>1 DEF Frozen
      <4>3. h[p].froze = Frozen(t, p)
        BY <2>1, <3>1 DEF Frozen
      <4>4. FrozenFor(o, t, p) = IF p = "rdp" THEN cps.first ELSE IF p = "avl" THEN cps.avl ELSE 0
        BY <1>1, <2>9, <3>1 DEF FrozenFor
      <4>5. g[p].froze = IF p = "rdp" THEN (h[p].froze - cps.first) % Modulus
                         ELSE IF p = "avl" THEN (h[p].froze - cps.avl) % Modulus
                         ELSE h[p].froze
        BY <2>4
      <4> HIDE DEF h, cps
      <4> QED  BY <3>0, <4>2, <4>3, <4>4, <4>5
    <3>2. CASE t # s
      <4>1. FrozenFor(o, t, p) = 0
        BY <1>1, <1>4, <3>2, AskedIs, FrozenForOne
      <4>2. Frozen(t, p)' = Frozen(t, p)
        BY <1>1, <2>8, <3>2 DEF Frozen
      <4> QED  BY <3>0, <4>1, <4>2
    <3> QED  BY <3>1, <3>2
  <2> QED  BY <1>1, <1>2, <2>10, FrozenLess
<1> QED  BY <1>1, <1>3, <1>4

\* A trade writes the entry, which leaves what is frozen, and fills the order.
LEMMA FrozenSynced ==
    ASSUME UserInv, NEW s \in Security, NEW h \in Holding, NEW parts \in SUBSET Part,
           cache'[s] = Synced([LookUpOrNew(s) EXCEPT !.vol = h], parts)
    PROVE  \A p \in Part : Frozen(s, p)' = h[p].froze
<1> DEFINE e == Synced([LookUpOrNew(s) EXCEPT !.vol = h], parts)
<1>1. e # Nothing /\ e.vol = SynParts(h, parts)
  BY SyncedIs
<1>2. \A p \in Part : SynParts(h, parts)[p].froze = h[p].froze
  BY SynPartsIs, Balances
<1> HIDE DEF e
<1>3. cache'[s] = e
  BY DEF e
<1> QED  BY <1>1, <1>2, <1>3 DEF Frozen

LEMMA FilledExact ==
    ASSUME UserInv, NEW o \in Order, NEW q, NEW cps, Filled(o, q, cps)
    PROVE  /\ order'[o].state = IF order[o].leaves = q THEN "filled" ELSE "resting"
           /\ order'[o].leaves = order[o].leaves - q /\ order'[o].cps = cps
           /\ \A r \in Order \ {o} : order'[r] = order[r]
<1> DEFINE e == [state |-> IF order[o].leaves = q THEN "filled" ELSE "resting",
                leaves |-> order[o].leaves - q, cps |-> cps]
<1>1. order' = [order EXCEPT ![o] = e] /\ DOMAIN order = Order
  BY OrderIs DEF Filled
<1>2. /\ e.state = IF order[o].leaves = q THEN "filled" ELSE "resting"
      /\ e.leaves = order[o].leaves - q /\ e.cps = cps
  OBVIOUS
<1> HIDE DEF e
<1> QED  BY <1>1, <1>2

LEMMA AddToFroze ==
    ASSUME NEW h \in Holding, NEW part \in Part, NEW n \in Int
    PROVE  /\ AddTo(h, part, n) \in Holding
           /\ \A p \in Part : AddTo(h, part, n)[p].froze = h[p].froze
<1>1. \A c \in Balance \ {part, "stk"} : AddTo(h, part, n)[c] = h[c]
  BY AddToIs
<1>2. \A p \in Part : p \in Balance /\ p # "stk"
  BY Balances DEF Part
<1>3. AddTo(h, part, n)[part] = Add(h[part], n)
  BY <1>2, Balances DEF AddTo, Holding
<1>4. Add(h[part], n).froze = h[part].froze
  BY <1>2, Balances, AddIs
<1> QED  BY <1>1, <1>2, <1>3, <1>4, AddToIs

LEMMA FrozenBuy ==
    ASSUME UserInv, FrozenInv, OtherOrders, NEW o \in Order, order[o].state = "resting",
           NEW q \in 1..order[o].leaves, UpdateTrade_Buy(o, q), UNCHANGED day
    PROVE  FrozenStep(o)
<1> DEFINE s == Of[o]
           h == AddAct(LookUpOrNew(s).vol, q)
<1>1. /\ Kind[o] = "buy" /\ s \in Security /\ day \in Days /\ q \in Int
      /\ cache \in [Security -> Entry \cup {Nothing}] /\ LookUpOrNew(s) \in Entry
      /\ LookUpOrNew(s).vol \in Holding
  BY OrderIs, DayIs, LookUpIs DEF OtherOrders, UserInv, UserTypes, UpdateTrade_Buy
<1>2. cache' = [cache EXCEPT ![s] = Synced([LookUpOrNew(s) EXCEPT !.vol = h], {"act"})]
      /\ Filled(o, q, NoCps)
  BY <1>1 DEF UpdateTrade_Buy, Trade
<1>3. h \in Holding /\ \A p \in Part : h[p].froze = LookUpOrNew(s).vol[p].froze
  <2> DEFINE v == LookUpOrNew(s).vol
  <2>1. h = AddTo(v, "act", q) /\ v \in Holding /\ "act" \in Part
    BY <1>1 DEF AddAct, Part
  <2> HIDE DEF v, h
  <2>2. AddTo(v, "act", q) \in Holding /\ \A p \in Part : AddTo(v, "act", q)[p].froze = v[p].froze
    BY <1>1, <2>1, AddToFroze
  <2>3. h \in Holding /\ \A p \in Part : h[p].froze = v[p].froze
    BY <2>1, <2>2
  <2> QED  BY <2>3 DEF v
<1> HIDE DEF h
<1>4. ASSUME NEW t \in Security, NEW p \in Part PROVE Frozen(t, p)' = Frozen(t, p)
  <2>1. CASE t = s
    <3>1. cache'[t] = Synced([LookUpOrNew(t) EXCEPT !.vol = h], {"act"}) /\ {"act"} \in SUBSET Part
      BY <1>1, <1>2, <2>1 DEF Part
    <3>2. Frozen(t, p)' = h[p].froze
      BY <1>3, <3>1, FrozenSynced
    <3>3. h[p].froze = LookUpOrNew(t).vol[p].froze
      BY <1>3, <2>1
    <3> QED  BY <3>2, <3>3, FrozenIs
  <2>2. CASE t # s
    BY <1>1, <1>2, <2>2 DEF Frozen
  <2> QED  BY <2>1, <2>2
<1>5. \A t \in Security : Asked(o, t) = 0
  BY <1>1, AskedIs
<1>6. /\ order'[o].state \in {"filled", "resting"} /\ order'[o].cps = NoCps
      /\ \A r \in Order \ {o} : order'[r] = order[r]
  BY <1>2, FilledExact
<1>7. \A t \in Security, p \in Part :
         Frozen(t, p)' = (Frozen(t, p) - FrozenFor(o, t, p) + FrozenFor(o, t, p)') % Modulus
  <2> SUFFICES ASSUME NEW t \in Security, NEW p \in Part
               PROVE  Frozen(t, p)' = (Frozen(t, p) - FrozenFor(o, t, p) + FrozenFor(o, t, p)') % Modulus
    OBVIOUS
  <2>1. FrozenFor(o, t, p) = 0
    BY <1>5, FrozenForOne
  <2>2. FrozenFor(o, t, p)' = 0
    BY <1>6, NoCpsIs DEF FrozenFor
  <2>3. Frozen(t, p) - 0 + 0 = Frozen(t, p) /\ Frozen(t, p) % Modulus = Frozen(t, p)
    BY FrozenIs
  <2> QED  BY <1>4, <2>1, <2>2, <2>3
<1> QED  BY <1>1, <1>5, <1>6, <1>7, NoCpsIs DEF FrozenStep

LEMMA FrozenSell ==
    ASSUME UserInv, FrozenInv, NEW o \in Order, order[o].state = "resting",
           NEW q \in 1..order[o].leaves, UpdateTrade_Sell(o, q), UNCHANGED day
    PROVE  FrozenStep(o)
<1> DEFINE s == Of[o]
           cps == order[o].cps[s]
           x == cps.first
           y == cps.avl
           a == IF q <= x THEN q ELSE x
           b == IF q <= x + y THEN q - a ELSE y
           v == LookUp(s).vol
           h == SellConfirm(v, a, b)
           rest == [order[o].cps EXCEPT ![s] = [first |-> x - a, avl |-> y - b]]
<1>1. /\ s \in Security /\ Kind[o] = "sell" /\ day \in Days
      /\ cache \in [Security -> Entry \cup {Nothing}]
  BY DayIs DEF UserInv, UserTypes, UpdateTrade_Sell
<1>2. cache[s] # Nothing /\ CanLookUp(s) /\ LookUp(s) = cache[s] /\ LookUpOrNew(s) = LookUp(s) /\ v \in Holding
      /\ LookUp(s) \in Entry
  <2>1. cache[s] # Nothing
    BY <1>1 DEF UserInv, Loaded, HasEntries
  <2> QED  BY <1>1, <2>1, LookUpIs DEF LookUpOrNew
<1>3. /\ x \in Nat /\ y \in Nat /\ q \in Nat /\ 0 < q /\ q <= order[o].leaves /\ order[o].leaves \in Nat
      /\ x + y = order[o].leaves
  BY <1>1, OrderIs DEF FrozenInv
<1>4. /\ cache' = [cache EXCEPT ![s] = Synced([LookUpOrNew(s) EXCEPT !.vol = h], {"rdp", "avl"})]
      /\ Filled(o, q, rest)
  BY <1>2 DEF UpdateTrade_Sell, Trade
<1>5. FirstPart(o) = "rdp" /\ FirstPart(o)' = "rdp"
  BY <1>1 DEF FirstPart, Kind
<1>6. \A p \in Part : v[p].froze = Frozen(s, p) /\ v[p].froze \in Nat
      /\ FrozenFor(o, s, p) <= Frozen(s, p)
      /\ FrozenFor(o, s, p) = IF p = "rdp" THEN x ELSE IF p = "avl" THEN y ELSE 0
  BY <1>1, <1>2, <1>5, FrozenIs, FrozenForOne DEF FrozenFor
<1>7. order[o].cps \in Cps
  BY OrderIs
<1> HIDE DEF x, y, v
<1>8. /\ a \in Nat /\ b \in Nat /\ a <= x /\ b <= y /\ a + b = q
      /\ x - a \in Nat /\ y - b \in Nat
  BY <1>3
<1>9. x <= v["rdp"].froze /\ y <= v["avl"].froze /\ "rdp" \in Part \ {"avl"} /\ {"rdp", "avl"} \in SUBSET Part
  BY <1>6 DEF Part
<1> HIDE DEF a, b
<1>10. h \in Holding /\ \A p \in Part : h[p].froze = IF p = "rdp" THEN v[p].froze - a
                                                     ELSE IF p = "avl" THEN v[p].froze - b ELSE v[p].froze
  <2>1. a <= v["rdp"].froze /\ b <= v["avl"].froze
    <3>1. v["rdp"].froze \in Nat /\ v["avl"].froze \in Nat
      BY <1>6, <1>9
    <3> QED  BY <1>3, <1>8, <1>9, <3>1
  <2>2. ConfirmParts(v, "rdp", a, b) \in Holding
    BY <1>2, <1>8, <1>9, ConfirmPartsIs
  <2> QED  BY <1>2, <1>8, <1>9, <2>1, <2>2, ConfirmPartsFroze DEF SellConfirm
<1> HIDE DEF h
<1>11. /\ order'[o].state = IF order[o].leaves = q THEN "filled" ELSE "resting"
       /\ order'[o].leaves = order[o].leaves - q /\ order'[o].cps = rest
       /\ \A r \in Order \ {o} : order'[r] = order[r]
  BY <1>4, FilledExact
<1>12. /\ rest[s].first = x - a /\ rest[s].avl = y - b
       /\ \A t \in Security \ {s} : rest[t] = order[o].cps[t]
  <2>1. DOMAIN order[o].cps = Security
    BY <1>7 DEF Cps
  <2> QED  BY <1>1, <2>1
<1> HIDE DEF rest
<1>13. order[o].leaves = q <=> (x - a = 0 /\ y - b = 0)
  BY <1>3, <1>8
<1>14. \A t \in Security, p \in Part :
         Frozen(t, p)' = (Frozen(t, p) - FrozenFor(o, t, p) + FrozenFor(o, t, p)') % Modulus
  <2> SUFFICES ASSUME NEW t \in Security, NEW p \in Part
               PROVE  Frozen(t, p)' = (Frozen(t, p) - FrozenFor(o, t, p) + FrozenFor(o, t, p)') % Modulus
    OBVIOUS
  <2>1. CASE t = s
    <3>1. cache'[t] = Synced([LookUpOrNew(t) EXCEPT !.vol = h], {"rdp", "avl"})
      BY <1>1, <1>4, <2>1
    <3>2. Frozen(t, p)' = h[p].froze
      BY <1>9, <1>10, <3>1, FrozenSynced
    <3>3. FrozenFor(o, t, p)' = IF p = "rdp" THEN x - a ELSE IF p = "avl" THEN y - b ELSE 0
      <4> DEFINE z == x - a
                 w == y - b
      <4>1. order'[o].cps[t].first = z /\ order'[o].cps[t].avl = w
        BY <1>11, <1>12, <2>1
      <4>2. order'[o].state # "resting" => z = 0 /\ w = 0
        BY <1>11, <1>13
      <4> HIDE DEF z, w
      <4>3. FrozenFor(o, t, p)' = IF p = "rdp" THEN z ELSE IF p = "avl" THEN w ELSE 0
        BY <1>5, <4>1, <4>2 DEF FrozenFor
      <4> QED  BY <4>3 DEF z, w
    <3> DEFINE m == Frozen(t, p)
               k == FrozenFor(o, t, p)
               k1 == IF p = "rdp" THEN x - a ELSE IF p = "avl" THEN y - b ELSE 0
    <3>4. /\ m \in Count /\ m \in Nat /\ v[p].froze = m /\ k <= m
          /\ k = IF p = "rdp" THEN x ELSE IF p = "avl" THEN y ELSE 0
      BY <1>6, <2>1, FrozenIs
    <3>5. h[p].froze = IF p = "rdp" THEN v[p].froze - a
                       ELSE IF p = "avl" THEN v[p].froze - b ELSE v[p].froze
      BY <1>10
    <3> HIDE DEF m, k
    <3>6. m - k + k1 = h[p].froze /\ h[p].froze \in Nat /\ h[p].froze <= m
      BY <1>3, <1>8, <3>4, <3>5
    <3>7. h[p].froze \in Count
      BY <3>4, <3>6, CountIs
    <3>8. h[p].froze % Modulus = h[p].froze
      BY <3>7, CountIs
    <3> HIDE DEF k1
    <3>9. (m - k + k1) % Modulus = h[p].froze
      BY <3>6, <3>8
    <3>10. FrozenFor(o, t, p)' = k1
      BY <3>3 DEF k1
    <3> QED  BY <3>2, <3>9, <3>10 DEF m, k
  <2>2. CASE t # s
    <3>1. Asked(o, t) = 0
      BY <1>1, <2>2, AskedIs
    <3>2. FrozenFor(o, t, p) = 0
      BY <3>1, FrozenForOne
    <3>3. FrozenFor(o, t, p)' = 0
      <4>1. order[o].cps[t].first = 0 /\ order[o].cps[t].avl = 0
        <5>1. order[o].cps[t].first + order[o].cps[t].avl <= 0
          BY <3>1 DEF FrozenInv
        <5>2. order[o].cps[t].first \in Nat /\ order[o].cps[t].avl \in Nat
          BY OrderIs
        <5> QED  BY <5>1, <5>2
      <4>2. order'[o].cps[t] = order[o].cps[t]
        BY <1>11, <1>12, <2>2
      <4> QED  BY <4>1, <4>2 DEF FrozenFor
    <3>4. Frozen(t, p)' = Frozen(t, p)
      BY <1>1, <1>4, <2>2 DEF Frozen
    <3>5. Frozen(t, p) - 0 + 0 = Frozen(t, p) /\ Frozen(t, p) % Modulus = Frozen(t, p)
      BY FrozenIs
    <3> QED  BY <3>2, <3>3, <3>4, <3>5
  <2> QED  BY <2>1, <2>2
<1>15. \A t \in Security : order'[o].cps[t].first + order'[o].cps[t].avl <= Asked(o, t)
  <2> SUFFICES ASSUME NEW t \in Security
               PROVE  order'[o].cps[t].first + order'[o].cps[t].avl <= Asked(o, t)
    OBVIOUS
  <2>1. order[o].cps[t].first + order[o].cps[t].avl <= Asked(o, t) /\ Asked(o, t) \in Nat
    BY <1>1, AskedIs DEF FrozenInv
  <2>2. CASE t = s
    <3>1. order'[o].cps[t].first = x - a /\ order'[o].cps[t].avl = y - b
      BY <1>11, <1>12, <2>2
    <3>2. order[o].cps[t].first = x /\ order[o].cps[t].avl = y
      BY <2>2 DEF x, y
    <3> QED  BY <1>3, <1>8, <2>1, <3>1, <3>2
  <2>3. CASE t # s
    BY <1>11, <1>12, <2>1, <2>3
  <2> QED  BY <2>2, <2>3
<1>16. order'[o].cps[s].first + order'[o].cps[s].avl = order'[o].leaves
  <2>1. order'[o].cps[s].first = x - a /\ order'[o].cps[s].avl = y - b
    BY <1>11, <1>12
  <2> QED  BY <1>3, <1>8, <1>11, <2>1
<1> QED  BY <1>11, <1>14, <1>15, <1>16 DEF FrozenStep

LEMMA FrozenCrt ==
    ASSUME UserInv, FrozenInv, NEW o \in Order, order[o].state = "resting", UpdateETF_Crt(o), UNCHANGED day
    PROVE  FrozenStep(o)
<1> DEFINE h(c) == CreationConfirm(LookUp(c).vol, order[o].cps[c].first, order[o].cps[c].avl)
           g == AddCrt(LookUpOrNew(Etf).vol, order[o].leaves)
<1>1. Kind[o] = "etf_crt" /\ day \in Days /\ order[o].leaves \in Nat
  BY OrderIs DEF UpdateETF_Crt, UserInv, UserTypes
<1>2. \A c \in Component : /\ CanLookUp(c) /\ LookUp(c) \in Entry /\ LookUp(c).vol \in Holding
                           /\ LookUpOrNew(c) = LookUp(c)
  <2>1. \A c \in Component : cache[c] # Nothing
    BY <1>1 DEF UserInv, Loaded, HasEntries
  <2> QED  BY <2>1, LookUpIs, SecurityIs DEF LookUpOrNew
<1>3. LookUpOrNew(Etf) \in Entry /\ LookUpOrNew(Etf).vol \in Holding /\ Etf \in Security
  BY LookUpIs, SecurityIs
<1>4. /\ \A c \in Component : cache'[c] = Synced([LookUpOrNew(c) EXCEPT !.vol = h(c)], {"act", "avl"})
      /\ cache'[Etf] = Synced([LookUpOrNew(Etf) EXCEPT !.vol = g], {"crt"})
      /\ Filled(o, order[o].leaves, NoCps)
  <2>1. \A c \in Component : c \in Security /\ c # Etf
    BY SecurityIs
  <2>2. /\ \A c \in Component : [LookUp(c) EXCEPT !.vol = h(c)]
              = [LookUp(c) EXCEPT !.vol = CreationConfirm(@, order[o].cps[c].first, order[o].cps[c].avl)]
        /\ [LookUpOrNew(Etf) EXCEPT !.vol = g] = [LookUpOrNew(Etf) EXCEPT !.vol = AddCrt(@, order[o].leaves)]
    BY <1>2, <1>3 DEF Entry
  <2> HIDE DEF h, g
  <2>3. \A c \in Component : [LookUpOrNew(c) EXCEPT !.vol = h(c)] = [LookUp(c) EXCEPT !.vol = h(c)]
    BY <1>2
  <2> QED  BY <1>3, <2>1, <2>2, <2>3 DEF UpdateETF_Crt
<1>5. FirstPart(o) = "act" /\ {"act", "avl"} \in SUBSET Part /\ {"crt"} \in SUBSET Part
      /\ "act" \in Part \ {"avl"} /\ "crt" \in Part
  BY <1>1 DEF FirstPart, Part
<1>6. ASSUME NEW c \in Component, NEW p \in Part
      PROVE  Frozen(c, p)' = (Frozen(c, p) - FrozenFor(o, c, p)) % Modulus
  <2> DEFINE v == LookUp(c).vol
             a == order[o].cps[c].first
             b == order[o].cps[c].avl
             w == h(c)
  <2>1. c \in Security /\ v \in Holding /\ a \in Nat /\ b \in Nat
    BY <1>2, OrderIs, SecurityIs
  <2>2. \A r \in Part : /\ v[r].froze = Frozen(c, r) /\ Frozen(c, r) \in Nat /\ Frozen(c, r) < Modulus
                        /\ FrozenFor(o, c, r) <= Frozen(c, r)
                        /\ FrozenFor(o, c, r) = IF r = "act" THEN a ELSE IF r = "avl" THEN b ELSE 0
    BY <1>2, <1>5, <2>1, FrozenIs, FrozenForOne, CountIs DEF FrozenFor
  <2>3. w = ConfirmParts(v, "act", a, b)
    BY DEF CreationConfirm
  <2>4. cache'[c] = Synced([LookUpOrNew(c) EXCEPT !.vol = w], {"act", "avl"})
    BY <1>4
  <2> HIDE DEF v, a, b, w
  <2>5. a <= v["act"].froze /\ b <= v["avl"].froze
    BY <1>5, <2>2 DEF Part
  <2>6. ConfirmParts(v, "act", a, b) \in Holding
    BY <1>5, <2>1, ConfirmPartsIs
  <2>7. \A r \in Part : ConfirmParts(v, "act", a, b)[r].froze =
            IF r = "act" THEN v[r].froze - a ELSE IF r = "avl" THEN v[r].froze - b ELSE v[r].froze
    BY <1>5, <2>1, <2>5, ConfirmPartsFroze
  <2>8. Frozen(c, p)' = w[p].froze
    BY <1>5, <2>1, <2>3, <2>4, <2>6, FrozenSynced
  <2> DEFINE m == Frozen(c, p)
             k == FrozenFor(o, c, p)
  <2>9. /\ m \in Nat /\ m < Modulus /\ v[p].froze = m /\ k <= m
        /\ k = IF p = "act" THEN a ELSE IF p = "avl" THEN b ELSE 0
    BY <2>2
  <2>10. w[p].froze = IF p = "act" THEN v[p].froze - a ELSE IF p = "avl" THEN v[p].froze - b ELSE v[p].froze
    BY <2>3, <2>7
  <2> HIDE DEF m, k
  <2>11. w[p].froze = m - k /\ m - k \in Nat /\ m - k < Modulus
    BY <2>1, <2>9, <2>10, CountIs
  <2>12. m - k \in Count
    <3> DEFINE z == m - k
    <3> HIDE DEF z
    <3>1. z \in Nat /\ z < Modulus
      BY <2>11 DEF z
    <3>2. z \in Count
      BY <3>1, CountIs
    <3> QED  BY <3>2 DEF z
  <2>13. (m - k) % Modulus = m - k
    BY <2>12, CountIs
  <2>14. Frozen(c, p)' = (m - k) % Modulus
    BY <2>8, <2>11, <2>13
  <2> QED  BY <2>14 DEF m, k
<1>7. ASSUME NEW p \in Part
      PROVE  Frozen(Etf, p)' = (Frozen(Etf, p) - FrozenFor(o, Etf, p)) % Modulus
  <2> DEFINE v == LookUpOrNew(Etf).vol
             n == order[o].leaves
  <2>1. g = AddTo(v, "crt", n) /\ v \in Holding /\ n \in Int
    BY <1>1, <1>3 DEF AddCrt
  <2> HIDE DEF v, g, n
  <2>2. AddTo(v, "crt", n) \in Holding /\ \A r \in Part : AddTo(v, "crt", n)[r].froze = v[r].froze
    BY <1>5, <2>1, AddToFroze
  <2>3. Frozen(Etf, p)' = g[p].froze
    BY <1>3, <1>4, <1>5, <2>1, <2>2, FrozenSynced
  <2>4. v[p].froze = Frozen(Etf, p)
    BY <1>3, FrozenIs DEF v
  <2>5. FrozenFor(o, Etf, p) = 0
    BY <1>1, <1>3, AskedIs, FrozenForOne, SecurityIs
  <2>6. Frozen(Etf, p) - 0 = Frozen(Etf, p) /\ Frozen(Etf, p) % Modulus = Frozen(Etf, p)
    BY <1>3, FrozenIs
  <2> QED  BY <2>1, <2>2, <2>3, <2>4, <2>5, <2>6
<1> HIDE DEF h, g
<1>8. \A s \in Security, p \in Part : Frozen(s, p)' = (Frozen(s, p) - FrozenFor(o, s, p)) % Modulus
  <2> SUFFICES ASSUME NEW s \in Security, NEW p \in Part
               PROVE  Frozen(s, p)' = (Frozen(s, p) - FrozenFor(o, s, p)) % Modulus
    OBVIOUS
  <2>1. CASE s = Etf
    BY <1>7, <2>1
  <2>2. CASE s # Etf
    <3>1. s \in Component
      BY <2>2, SecurityIs
    <3> QED  BY <1>6, <3>1
  <2> QED  BY <2>1, <2>2
<1>9. order'[o].state = "filled" /\ \A r \in Order \ {o} : order'[r] = order[r]
  BY <1>4, FilledExact
<1> QED  BY <1>8, <1>9, FrozenLess

\* Together: what is frozen is what the resting orders have frozen.
LEMMA FrozenKept ==
    ASSUME OnlySecurity, NoWrap, UserInv, UserInv', OtherOrders, FrozenInv, [Next]_vars
    PROVE  FrozenInv'
<1>1. ASSUME NEW o \in Order, FrozenStep(o) PROVE FrozenInv'
  BY <1>1, FrozenStepKeeps
<1>2. ASSUME NEW o \in Order, UpdateAfterTrade(o) PROVE FrozenStep(o)
  <2>1. Kind[o] \in {"sell", "buy", "etf_crt"} /\ UNCHANGED day /\ order[o].state = "resting"
    BY <1>2 DEF OtherOrders, UpdateAfterTrade
  <2>2. \/ \E q \in 1..order[o].leaves : UpdateTrade_Sell(o, q) \/ UpdateTrade_Buy(o, q)
        \/ UpdateETF_Crt(o)
    BY <1>2, <2>1 DEF UpdateAfterTrade, UpdateTrade_EtfSell, UpdateETF_Rdp
  <2> QED  BY <2>1, <2>2, FrozenSell, FrozenBuy, FrozenCrt
<1>3. CASE TaskStockCacheSyn
  <2>1. UNCHANGED <<day, cache, order>> /\ Kind' = Kind /\ Of' = Of /\ Qty' = Qty
    BY <1>3 DEF TaskStockCacheSyn, Kind, Of, Qty
  <2> QED  BY <2>1 DEF FrozenInv, Frozen, FrozenForAll, FrozenFor, FirstPart, Asked, Kind, Of, Qty
<1>4. CASE UNCHANGED vars
  <2>1. UNCHANGED <<day, cache, order>> /\ Kind' = Kind /\ Of' = Of /\ Qty' = Qty
    BY <1>4 DEF vars, Kind, Of, Qty
  <2> QED  BY <2>1 DEF FrozenInv, Frozen, FrozenForAll, FrozenFor, FirstPart, Asked, Kind, Of, Qty
<1>5. CASE DayEndCleanUp
  <2>1. /\ \A o \in Order : order'[o].state # "resting"
        /\ cache' = [s \in Security |-> Nothing] /\ order' = order /\ day' = day /\ Qty' = Qty
    BY <1>5 DEF DayEndCleanUp, Qty
  <2>2. ASSUME NEW s \in Security, NEW p \in Part PROVE Frozen(s, p)' = FrozenForAll(s, p)'
    <3>1. Frozen(s, p)' = 0
      BY <2>1 DEF Frozen
    <3> DEFINE f == [o \in Order |-> FrozenFor(o, s, p)']
    <3>2. \A o \in Order : f[o] = 0
      BY <2>1, FrozenForNone
    <3>3. FrozenForAll(s, p)' = SumFunctionOnSet(f, Order)
      BY DEF FrozenForAll
    <3>4. IsFiniteSet(Order)
      BY UserStockAssumption
    <3> HIDE DEF f
    <3> QED  BY <3>1, <3>2, <3>3, <3>4, SumZero
  <2> QED  BY <2>1, <2>2 DEF FrozenInv
<1>6. ASSUME NEW o \in Order, TradePrep(o) \/ CreationQuery(o) \/ UpdateAfterCancel(o)
      PROVE  FrozenStep(o)
  BY <1>6, FrozenPrep, FrozenQuery, FrozenCancel
<1> QED  BY <1>1, <1>2, <1>3, <1>4, <1>5, <1>6 DEF Next

\* A rejected, filled or cancelled order leaves nothing frozen behind, and no
\* share is frozen twice (SellFroze, CreationFroze, UpdateTrade, UpdateCancel),
\* if every component must be given in shares and what the orders of a day ask
\* of a security does not wrap.
THEOREM UserFrozenByOrders ==
    ASSUME OnlySecurity, NoWrap
    PROVE  Spec => []FrozenByOrders
<1> DEFINE I == OtherOrders => FrozenInv
<1>1. Init => I
  <2> SUFFICES ASSUME Init PROVE FrozenInv
    OBVIOUS
  <2>1. cache = [s \in Security |-> Nothing]
        /\ \A o \in Order : order[o].state = "new" /\ order[o].leaves = Qty[o]
    BY DEF Init
  <2>2. ASSUME NEW s \in Security, NEW p \in Part PROVE Frozen(s, p) = FrozenForAll(s, p)
    <3>1. Frozen(s, p) = 0
      BY <2>1 DEF Frozen
    <3> DEFINE f == [o \in Order |-> FrozenFor(o, s, p)]
    <3>2. \A o \in Order : f[o] = 0
      BY <2>1, FrozenForNone
    <3>3. FrozenForAll(s, p) = SumFunctionOnSet(f, Order) /\ IsFiniteSet(Order)
      BY UserStockAssumption DEF FrozenForAll
    <3> HIDE DEF f
    <3> QED  BY <3>1, <3>2, <3>3, SumZero
  <2> QED  BY <2>1, <2>2 DEF FrozenInv
<1>2. UserInv /\ UserInv' /\ I /\ [Next]_vars => I'
  <2> SUFFICES ASSUME UserInv, UserInv', I, [Next]_vars, OtherOrders' PROVE FrozenInv'
    OBVIOUS
  <2>1. UNCHANGED day
    BY DEF Next, vars, TradePrep, CreationQuery, UpdateAfterTrade, UpdateAfterCancel,
           TaskStockCacheSyn, DayEndCleanUp
  <2>2. OtherOrders
    BY <2>1 DEF OtherOrders, Kind
  <2> QED  BY <2>2, FrozenKept
<1>3. TypeOK /\ I => FrozenByOrders
  <2> SUFFICES ASSUME FrozenInv, NEW s \in Security, NEW p \in Part, cache[s] # Nothing
               PROVE  cache[s].vol[p].froze = Total(LAMBDA o : FrozenFor(o, s, p), Order)
    BY DEF FrozenByOrders
  <2>1. Total(LAMBDA o : FrozenFor(o, s, p), Order) = FrozenForAll(s, p)
    BY DEF Total, FrozenForAll
  <2> QED  BY <2>1 DEF FrozenInv, Frozen
<1>4. Spec => []I
  <2> HIDE DEF I
  <2> QED  BY <1>1, <1>2, UserInvariant, PTL DEF Spec
<1> HIDE DEF I
<1> QED  BY <1>3, <1>4, UserTypeCorrect, PTL

-----------------------------------------------------------------------------
(* Shares come and go only by trades, under the same assumptions and if what *)
(* an account begins a day with and buys does not wrap.                      *)

\* What is held of a part, by the entry there is or will be made.
InPart(s, p) == Held(LookUpOrNew(s).vol[p])

HeldOf(s) == InPart(s, "act") + InPart(s, "rdp") + InPart(s, "crt") + InPart(s, "avl")

StartOn(d, s) ==
    LET rows == IF d.rows[s] # Nothing THEN Load(d.rows[s]) ELSE Empty
    IN  Held(rows["act"]) + Held(rows["rdp"]) + Held(rows["crt"]) + Held(rows["avl"])

BoughtOn(d, o, s) == IF d.kind[o] = "buy" /\ d.of[o] = s THEN d.qty[o] ELSE 0

NoWrapHeld ==
    \A d \in Days, s \in Component :
       StartOn(d, s) + SumFunctionOnSet([o \in Order |-> BoughtOn(d, o, s)], Order) < Modulus

\* What o has taken and brought of s.
Gone(o, s) == CASE Kind[o] = "sell" /\ Of[o] = s -> Traded(o)
                [] Kind[o] = "etf_crt" /\ Traded(o) > 0 -> Needed(o, s)
                [] OTHER -> 0
Come(o, s) == IF Kind[o] = "buy" /\ Of[o] = s THEN Traded(o) ELSE 0

GoneOf(s) == SumFunctionOnSet([o \in Order |-> Gone(o, s)], Order)
ComeOf(s) == SumFunctionOnSet([o \in Order |-> Come(o, s)], Order)

\* What a resting creation has frozen is what it needs.
FrozenWhole(o) ==
    order[o].state = "resting" /\ Kind[o] = "etf_crt" =>
        \A c \in Component : order[o].cps[c].first + order[o].cps[c].avl = Needed(o, c)

\* What is frozen of a part is held, and a component has no units got by creation.
HeldWell(s) == InPart(s, "crt") = 0 /\ \A p \in Part : Frozen(s, p) <= InPart(s, p)

SharesInv ==
    /\ \A o \in Order : order[o].leaves <= Qty[o] /\ FrozenWhole(o)
    /\ \A s \in Component \ lost :
          HeldWell(s) /\ HeldOf(s) + GoneOf(s) = StartOn(day, s) + ComeOf(s)

LEMMA PartSum ==
    ASSUME NEW f, \A p \in Part : f[p] \in Int
    PROVE  SumFunctionOnSet(f, Part) = f["act"] + f["rdp"] + f["crt"] + f["avl"]
<1> DEFINE A == {"act"}
           B == {"act", "rdp"}
           C == {"act", "rdp", "crt"}
<1>1. /\ f["act"] \in Int /\ f["rdp"] \in Int /\ f["crt"] \in Int /\ f["avl"] \in Int
      /\ A = {} \cup {"act"} /\ B = A \cup {"rdp"} /\ C = B \cup {"crt"} /\ Part = C \cup {"avl"}
      /\ "act" \notin {} /\ "rdp" \notin A /\ "crt" \notin B /\ "avl" \notin C
      /\ \A y \in {} \cup {"act"} : f[y] \in Int
      /\ \A y \in A \cup {"rdp"} : f[y] \in Int
      /\ \A y \in B \cup {"crt"} : f[y] \in Int
      /\ \A y \in C \cup {"avl"} : f[y] \in Int
  BY DEF Part
<1> HIDE DEF A, B, C
<1>2. IsFiniteSet({}) /\ IsFiniteSet(A) /\ IsFiniteSet(B) /\ IsFiniteSet(C)
  BY <1>1, FS_EmptySet, FS_AddElement
<1>3. SumFunctionOnSet(f, A) = f["act"] + SumFunctionOnSet(f, {})
  BY <1>1, <1>2, SumAdd
<1>4. SumFunctionOnSet(f, B) = f["rdp"] + SumFunctionOnSet(f, A)
  BY <1>1, <1>2, SumAdd
<1>5. SumFunctionOnSet(f, C) = f["crt"] + SumFunctionOnSet(f, B)
  BY <1>1, <1>2, SumAdd
<1>6. SumFunctionOnSet(f, Part) = f["avl"] + SumFunctionOnSet(f, C)
  BY <1>1, <1>2, SumAdd
<1>7. SumFunctionOnSet(f, {}) = 0
  BY SumEmpty
<1> QED  BY <1>1, <1>3, <1>4, <1>5, <1>6, <1>7

\* A count whose frozen part is not more than what is held has not wrapped.
LEMMA HeldExact ==
    ASSUME NEW v \in Volume
    PROVE  /\ v.froze \in Nat /\ v.unfroze \in Nat /\ Held(v) \in Nat /\ Held(v) < Modulus
           /\ v.froze <= Held(v) => v.froze + v.unfroze < Modulus
           /\ v.froze + v.unfroze < Modulus => Held(v) = v.froze + v.unfroze
<1> DEFINE f == v.froze
           u == v.unfroze
<1>1. f \in Nat /\ u \in Nat /\ f < Modulus /\ u < Modulus /\ Modulus \in Nat \ {0}
  BY CountIs DEF Volume
<1>2. Held(v) = (f + u) % Modulus
  BY DEF Held
<1> HIDE DEF f, u
<1>3. f + u < Modulus => (f + u) % Modulus = f + u
  BY <1>1, ModSmall
<1>4. f + u >= Modulus => (f + u) % Modulus = f + u - Modulus
  <2> SUFFICES ASSUME f + u >= Modulus PROVE (f + u) % Modulus = f + u - Modulus
    OBVIOUS
  <2>1. f + u - Modulus \in 0..Modulus - 1
    BY <1>1
  <2>2. f + u = (Modulus * 1) + (f + u - Modulus) /\ f + u \in Int
    BY <1>1
  <2> QED  BY <1>1, <2>1, <2>2, ModUnique
<1>5. f <= Held(v) => f + u < Modulus
  BY <1>1, <1>2, <1>4
<1>6. Held(v) \in Nat /\ Held(v) < Modulus
  BY HeldIs, CountIs
<1> QED  BY <1>1, <1>2, <1>3, <1>5, <1>6 DEF f, u

LEMMA ConfirmHeld ==
    ASSUME NEW v \in Volume, NEW n \in Nat, n <= v.froze, v.froze <= Held(v)
    PROVE  /\ Held(Confirm(v, n)) = Held(v) - n
           /\ Confirm(v, n).froze <= Held(Confirm(v, n))
<1> DEFINE w == Confirm(v, n)
<1>1. w \in Volume /\ w.unfroze = v.unfroze /\ w.froze = IF v.froze >= n THEN v.froze - n ELSE v.froze
  BY ConfirmIs
<1>2. /\ v.froze \in Nat /\ v.unfroze \in Nat /\ v.froze + v.unfroze < Modulus
      /\ Held(v) = v.froze + v.unfroze /\ Modulus \in Nat
  BY HeldExact, CountIs
<1>3. w.froze + w.unfroze < Modulus => Held(w) = w.froze + w.unfroze
  BY <1>1, HeldExact
<1> HIDE DEF w
<1>4. w.froze = v.froze - n /\ w.unfroze = v.unfroze /\ w.froze + w.unfroze < Modulus
  BY <1>1, <1>2
<1>5. Held(w) = (v.froze - n) + v.unfroze
  BY <1>3, <1>4
<1> QED  BY <1>2, <1>4, <1>5 DEF w

\* Of the parts, a confirmation takes what it says.
LEMMA ConfirmPartsHeld ==
    ASSUME NEW h \in Holding, NEW first \in Part \ {"avl"}, NEW a \in Nat, NEW b \in Nat,
           a <= h[first].froze, b <= h["avl"].froze,
           \A p \in Part : h[p].froze <= Held(h[p])
    PROVE  \A p \in Part :
              /\ Held(ConfirmParts(h, first, a, b)[p]) =
                    Held(h[p]) - (IF p = first THEN a ELSE IF p = "avl" THEN b ELSE 0)
              /\ ConfirmParts(h, first, a, b)[p].froze <= Held(ConfirmParts(h, first, a, b)[p])
<1> DEFINE g == ConfirmParts(h, first, a, b)
<1>1. \A c \in Part : c \in Balance /\ c # "stk" /\ h[c] \in Volume /\ h[c].froze \in Nat /\ Held(h[c]) \in Nat
  BY Balances, HeldExact DEF Part
<1>2. h[first].froze >= a /\ h["avl"].froze >= b /\ "avl" \in Part
  BY <1>1 DEF Part
<1>3. g = [h EXCEPT ![first] = Confirm(@, a), !["avl"] = Confirm(@, b), !["stk"] = Confirm(@, a + b)]
  BY <1>2 DEF ConfirmParts, CanConfirm
<1> HIDE DEF g
<1>4. \A c \in Part : g[c] = IF c = first THEN Confirm(h[c], a)
                             ELSE IF c = "avl" THEN Confirm(h[c], b) ELSE h[c]
  BY <1>1, <1>3, Balances DEF Holding
<1>5. /\ Held(Confirm(h[first], a)) = Held(h[first]) - a
      /\ Confirm(h[first], a).froze <= Held(Confirm(h[first], a))
      /\ Held(Confirm(h["avl"], b)) = Held(h["avl"]) - b
      /\ Confirm(h["avl"], b).froze <= Held(Confirm(h["avl"], b))
  BY <1>1, <1>2, ConfirmHeld
<1>6. ASSUME NEW p \in Part
      PROVE  /\ Held(g[p]) = Held(h[p]) - (IF p = first THEN a ELSE IF p = "avl" THEN b ELSE 0)
             /\ g[p].froze <= Held(g[p])
  <2>1. CASE p = first
    BY <1>4, <1>5, <2>1
  <2>2. CASE p = "avl"
    BY <1>4, <1>5, <2>2
  <2>3. CASE p # first /\ p # "avl"
    <3>1. g[p] = h[p] /\ Held(h[p]) - 0 = Held(h[p])
      BY <1>1, <1>4, <2>3
    <3> QED  BY <2>3, <3>1
  <2> QED  BY <2>1, <2>2, <2>3
<1> QED  BY <1>6 DEF g

\* A part to which n shares are added.
LEMMA AddToHeld ==
    ASSUME NEW h \in Holding, NEW part \in Part, NEW n \in Nat, Held(h[part]) + n < Modulus,
           \A p \in Part : h[p].froze <= Held(h[p])
    PROVE  \A p \in Part :
              /\ Held(AddTo(h, part, n)[p]) = Held(h[p]) + (IF p = part THEN n ELSE 0)
              /\ AddTo(h, part, n)[p].froze <= Held(AddTo(h, part, n)[p])
<1> DEFINE g == AddTo(h, part, n)
<1>1. \A p \in Part : p \in Balance /\ p # "stk" /\ h[p] \in Volume /\ Held(h[p]) \in Nat
  BY Balances, HeldExact DEF Part
<1>2. \A c \in Balance \ {part, "stk"} : g[c] = h[c]
  BY AddToIs
<1>3. g[part] = Add(h[part], n)
  BY <1>1, Balances DEF AddTo, Holding
<1> HIDE DEF g
<1>4. /\ h[part].froze \in Nat /\ h[part].unfroze \in Nat /\ Modulus \in Nat \ {0}
      /\ Held(h[part]) = h[part].froze + h[part].unfroze
  BY <1>1, HeldExact, CountIs
<1>5. /\ g[part] \in Volume /\ g[part].froze = h[part].froze
      /\ g[part].unfroze = (h[part].unfroze + n) % Modulus
  <2>1. h[part] \in Volume /\ n \in Int
    BY <1>1
  <2>2. /\ Add(h[part], n) \in Volume /\ Add(h[part], n).froze = h[part].froze
        /\ Add(h[part], n).unfroze = (h[part].unfroze + n) % Modulus
    BY ONLY <2>1, AddIs
  <2> QED  BY <1>3, <2>2
<1>6. g[part].unfroze = h[part].unfroze + n
  <2>1. h[part].unfroze + n \in 0..Modulus - 1
    BY <1>4
  <2>2. (h[part].unfroze + n) % Modulus = h[part].unfroze + n
    BY ONLY <1>4, <2>1, ModSmall
  <2> QED  BY <1>5, <2>2
<1>7. Held(g[part]) = g[part].froze + g[part].unfroze
  <2>1. g[part].froze + g[part].unfroze < Modulus
    BY <1>4, <1>5, <1>6
  <2> QED  BY <1>5, <2>1, HeldExact
<1>8. Held(g[part]) = Held(h[part]) + n /\ g[part].froze <= Held(g[part])
  BY <1>4, <1>5, <1>6, <1>7
<1>9. \A p \in Part \ {part} : g[p] = h[p] /\ Held(h[p]) + 0 = Held(h[p])
  BY <1>1, <1>2
<1>10. \A p \in Part : /\ Held(g[p]) = Held(h[p]) + (IF p = part THEN n ELSE 0)
                       /\ g[p].froze <= Held(g[p])
  BY <1>8, <1>9
<1> QED  BY <1>10 DEF g

\* An entry that a trade writes.
LEMMA InPartSynced ==
    ASSUME UserInv, NEW s \in Security, NEW h \in Holding, NEW parts \in SUBSET Part,
           cache'[s] = Synced([LookUpOrNew(s) EXCEPT !.vol = h], parts)
    PROVE  \A p \in Part : InPart(s, p)' = Held(h[p])
<1> DEFINE e == Synced([LookUpOrNew(s) EXCEPT !.vol = h], parts)
<1>1. e # Nothing /\ e.vol = SynParts(h, parts)
  BY SyncedIs
<1>2. \A p \in Part : Held(SynParts(h, parts)[p]) = Held(h[p])
  BY SynPartsIs, Balances
<1> HIDE DEF e
<1>3. cache'[s] = e
  BY DEF e
<1>4. LookUpOrNew(s)' = e
  BY <1>1, <1>3 DEF LookUpOrNew, CanLookUp, LookUp
<1> QED  BY <1>1, <1>2, <1>4 DEF InPart

\* What is held of an entry that is left alone, or moved.
LEMMA InPartMoved ==
    ASSUME UserInv, NEW s \in Security, db'[s] = db[s], OnlyMoved(s)
    PROVE  \A p \in Part : InPart(s, p)' = InPart(s, p)
<1>1. CASE cache'[s] = cache[s]
  <2>1. LookUpOrNew(s)' = LookUpOrNew(s)
    BY <1>1 DEF LookUpOrNew, CanLookUp, LookUp
  <2> QED  BY <2>1 DEF InPart
<1>2. CASE CanLookUp(s) /\ cache'[s] \in Entry /\ AllKept(LookUp(s).vol, cache'[s].vol)
  <2>1. cache'[s] # Nothing
    BY <1>2, SecurityIs
  <2>2. LookUpOrNew(s)' = cache'[s] /\ LookUpOrNew(s) = LookUp(s)
    BY <1>2, <2>1 DEF LookUpOrNew, CanLookUp, LookUp
  <2>3. \A p \in Part : Held(cache'[s].vol[p]) = Held(LookUp(s).vol[p])
    BY <1>2, Balances DEF AllKept, Kept
  <2> QED  BY <2>2, <2>3 DEF InPart
<1> QED  BY <1>1, <1>2 DEF OnlyMoved

LEMMA InPartIs ==
    ASSUME UserInv, NEW s \in Security, NEW p \in Part
    PROVE  /\ LookUpOrNew(s).vol[p] \in Volume
           /\ InPart(s, p) \in Nat /\ InPart(s, p) < Modulus
           /\ LookUpOrNew(s).vol[p].froze = Frozen(s, p) /\ Frozen(s, p) \in Nat
BY LookUpIs, FrozenIs, Balances, HeldExact DEF InPart

LEMMA HeldOfIs ==
    ASSUME UserInv, NEW s \in Component
    PROVE  /\ s \in Security /\ HeldOf(s) \in Nat
           /\ \A p \in Part : InPart(s, p) <= HeldOf(s)
<1>1. s \in Security /\ \A p \in Part : InPart(s, p) \in Nat
  BY SecurityIs, InPartIs
<1>2. InPart(s, "act") \in Nat /\ InPart(s, "rdp") \in Nat /\ InPart(s, "crt") \in Nat /\ InPart(s, "avl") \in Nat
  BY <1>1 DEF Part
<1>3. /\ HeldOf(s) \in Nat /\ InPart(s, "act") <= HeldOf(s) /\ InPart(s, "rdp") <= HeldOf(s)
      /\ InPart(s, "crt") <= HeldOf(s) /\ InPart(s, "avl") <= HeldOf(s)
  BY <1>2 DEF HeldOf
<1> QED  BY <1>1, <1>3 DEF Part

LEMMA StartIs == day \in Days => \A s \in Component : StartOn(day, s) \in Nat
<1> SUFFICES ASSUME day \in Days, NEW s \in Component PROVE StartOn(day, s) \in Nat
  OBVIOUS
<1> DEFINE rows == IF day.rows[s] # Nothing THEN Load(day.rows[s]) ELSE Empty
<1>1. rows \in Holding
  BY UserStockAssumption, LoadIs, EmptyIs, SecurityIs
<1> HIDE DEF rows
<1>2. \A p \in Part : Held(rows[p]) \in Nat
  BY <1>1, Balances, HeldExact
<1>3. Held(rows["act"]) \in Nat /\ Held(rows["rdp"]) \in Nat /\ Held(rows["crt"]) \in Nat /\ Held(rows["avl"]) \in Nat
  BY <1>2 DEF Part
<1> QED  BY <1>3 DEF StartOn, rows

LEMMA GoneIs ==
    ASSUME UserInv, NEW o \in Order, NEW s \in Component
    PROVE  /\ Gone(o, s) \in Int /\ Come(o, s) \in Int /\ Traded(o) \in Int
           /\ order[o].leaves <= Qty[o] => Gone(o, s) \in Nat /\ Come(o, s) \in Nat
           /\ Come(o, s) <= BoughtOn(day, o, s)
           /\ BoughtOn(day, o, s) = IF Kind[o] = "buy" /\ Of[o] = s THEN Qty[o] ELSE 0
           /\ BoughtOn(day, o, s) \in Nat
<1>1. /\ order[o].leaves \in Nat /\ Qty[o] \in Nat /\ Needed(o, s) \in Nat
      /\ Traded(o) = Qty[o] - order[o].leaves
  BY OrderIs, DayIs, NeededIs, CountIs DEF UserInv, UserTypes, Traded
<1>2. Traded(o) \in Int /\ Traded(o) <= Qty[o] /\ (order[o].leaves <= Qty[o] => Traded(o) \in Nat)
  BY <1>1
<1>3. BoughtOn(day, o, s) = IF Kind[o] = "buy" /\ Of[o] = s THEN Qty[o] ELSE 0
  BY DEF BoughtOn, Kind, Of, Qty
<1>4. Gone(o, s) \in {Traded(o), Needed(o, s), 0}
  BY DEF Gone
<1>5. Come(o, s) = IF Kind[o] = "buy" /\ Of[o] = s THEN Traded(o) ELSE 0
  BY DEF Come
<1> QED  BY <1>1, <1>2, <1>3, <1>4, <1>5

LEMMA GoneIsAfter ==
    UserInv' => \A o \in Order, s \in Component : Gone(o, s)' \in Int /\ Come(o, s)' \in Int
<1> SUFFICES ASSUME UserInv', NEW o \in Order, NEW s \in Component
             PROVE  Gone(o, s)' \in Int /\ Come(o, s)' \in Int
  OBVIOUS
<1>1. day' \in Days /\ order'[o] \in OrderState
  BY DEF UserInv, UserTypes
<1>2. order'[o].leaves \in Nat
  BY <1>1, CountIs DEF OrderState
<1>3. Qty[o]' \in Nat /\ Qty[o]' = Qty'[o]
  <2>1. \A d \in Days : d.qty \in [Order -> Count]
    BY UserStockAssumption
  <2>2. day'.qty[o] \in Count
    BY <1>1, <2>1
  <2> QED  BY <2>2, CountIs DEF Qty
<1>4. Share[s] \in Nat /\ Unit \in Nat \ {0} /\ Modulus \in Nat \ {0}
  BY UserStockAssumption, CountIs
<1>5. Needed(o, s)' \in Int
  <2> DEFINE k == Qty'[o] \div Unit
  <2>1. k \in Int
    BY <1>3, <1>4, DivMod
  <2> HIDE DEF k
  <2>2. k * Share[s] \in Int
    BY <1>4, <2>1
  <2>3. (k * Share[s]) % Modulus \in Int
    BY <1>4, <2>2, DivMod
  <2> QED  BY <1>3, <2>3 DEF Needed, k
<1>6. Traded(o)' \in Int
  BY <1>2, <1>3 DEF Traded
<1> QED  BY <1>5, <1>6 DEF Gone, Come

\* What o may still buy of s fits into the counts.
LEMMA BuyFits ==
    ASSUME NoWrapHeld, UserInv, SharesInv, NEW s \in Component \ lost, NEW o \in Order,
           Kind[o] = "buy", Of[o] = s, NEW q \in Nat, q <= order[o].leaves
    PROVE  InPart(s, "act") + q < Modulus
<1> DEFINE c == [r \in Order |-> Come(r, s)]
           d == [r \in Order |-> IF r = o THEN Come(r, s) + q ELSE Come(r, s)]
           b == [r \in Order |-> BoughtOn(day, r, s)]
           n == [r \in Order |-> Gone(r, s)]
<1>1. IsFiniteSet(Order) /\ s \in Component /\ day \in Days /\ Modulus \in Nat
  BY UserStockAssumption, CountIs DEF UserInv, UserTypes
<1>2. \A r \in Order : Come(r, s) \in Nat /\ Gone(r, s) \in Nat /\ Come(r, s) <= BoughtOn(day, r, s)
                       /\ BoughtOn(day, r, s) \in Nat
  BY <1>1, GoneIs DEF SharesInv
<1>3. Come(o, s) + q <= BoughtOn(day, o, s)
  <2>1. Come(o, s) = Qty[o] - order[o].leaves /\ order[o].leaves \in Nat /\ Qty[o] \in Nat
    BY <1>1, OrderIs, DayIs, CountIs DEF Come, Traded
  <2>2. BoughtOn(day, o, s) = Qty[o]
    BY <1>1, GoneIs
  <2> QED  BY <2>1, <2>2
<1>4. \A r \in Order : /\ c[r] \in Nat /\ d[r] \in Nat /\ b[r] \in Nat /\ n[r] \in Nat /\ d[r] <= b[r]
                       /\ c[r] \in Int /\ d[r] \in Int
  BY <1>2, <1>3
<1>5. d[o] = c[o] + q /\ \A r \in Order \ {o} : c[r] = d[r]
  OBVIOUS
<1>6. SumFunctionOnSet(c, Order) = ComeOf(s) /\ SumFunctionOnSet(n, Order) = GoneOf(s)
      /\ StartOn(day, s) + SumFunctionOnSet(b, Order) < Modulus
  BY <1>1 DEF ComeOf, GoneOf, NoWrapHeld
<1>7. HeldOf(s) + GoneOf(s) = StartOn(day, s) + ComeOf(s)
  BY DEF SharesInv
<1> HIDE DEF c, d, b, n
<1>8. SumFunctionOnSet(d, Order) = SumFunctionOnSet(c, Order) - c[o] + d[o]
  BY <1>1, <1>4, <1>5, SumUpdate
<1>9. SumFunctionOnSet(d, Order) <= SumFunctionOnSet(b, Order)
  BY <1>1, <1>4, SumLeq
<1>10. /\ SumFunctionOnSet(c, Order) \in Nat /\ SumFunctionOnSet(n, Order) \in Nat
       /\ SumFunctionOnSet(b, Order) \in Nat
  BY <1>1, <1>4, SumNat
<1>11. InPart(s, "act") \in Nat /\ HeldOf(s) \in Nat /\ InPart(s, "act") <= HeldOf(s)
  <2>1. "act" \in Part
    BY DEF Part
  <2> QED  BY <1>1, <2>1, HeldOfIs, InPartIs
<1>12. StartOn(day, s) \in Int
  BY <1>6, <1>7, <1>10, <1>11, StartIs, <1>1
<1>13. SumFunctionOnSet(d, Order) = SumFunctionOnSet(c, Order) + q
  <2>1. c[o] \in Nat /\ d[o] = c[o] + q
    BY <1>4, <1>5
  <2> QED  BY <1>8, <1>10, <2>1
<1>14. ComeOf(s) \in Nat /\ GoneOf(s) \in Nat /\ ComeOf(s) + q <= SumFunctionOnSet(b, Order)
  BY <1>6, <1>9, <1>10, <1>13
<1>15. HeldOf(s) <= StartOn(day, s) + ComeOf(s)
  BY <1>7, <1>11, <1>12, <1>14
<1> QED  BY <1>1, <1>6, <1>10, <1>11, <1>12, <1>14, <1>15

\* A step of o after which all is well, and that takes or brings of each
\* component what it changes of what is held.
ShareStep(o) ==
    /\ UNCHANGED <<day, lost>>
    /\ \A q \in Order \ {o} : order'[q] = order[q]
    /\ order'[o].leaves <= Qty[o] /\ FrozenWhole(o)'
    /\ \A s \in Component \ lost :
          /\ HeldWell(s)'
          /\ HeldOf(s)' = HeldOf(s) + (Gone(o, s) - Gone(o, s)') + (Come(o, s)' - Come(o, s))

LEMMA ShareStepKeeps ==
    ASSUME UserInv, UserInv', SharesInv, NEW o \in Order, ShareStep(o)
    PROVE  SharesInv'
<1>1. day' = day /\ lost' = lost /\ Kind' = Kind /\ Of' = Of /\ Qty' = Qty /\ IsFiniteSet(Order)
      /\ \A q \in Order, c \in Component : Needed(q, c)' = Needed(q, c)
  BY UserStockAssumption DEF ShareStep, Kind, Of, Qty, Needed
<1>2. \A q \in Order : order'[q].leaves <= Qty[q] /\ FrozenWhole(q)'
  <2> SUFFICES ASSUME NEW q \in Order, q # o PROVE order'[q].leaves <= Qty[q] /\ FrozenWhole(q)'
    BY DEF ShareStep
  <2>1. order'[q] = order[q]
    BY DEF ShareStep
  <2> QED  BY <1>1, <2>1 DEF SharesInv, FrozenWhole
<1>3. ASSUME NEW s \in Component \ lost
      PROVE  HeldWell(s)' /\ (HeldOf(s) + GoneOf(s))' = StartOn(day, s) + ComeOf(s)'
  <2> DEFINE a == [r \in Order |-> Gone(r, s)]
             a1 == [r \in Order |-> Gone(r, s)']
             b == [r \in Order |-> Come(r, s)]
             b1 == [r \in Order |-> Come(r, s)']
  <2>1. /\ HeldWell(s)'
        /\ HeldOf(s)' = HeldOf(s) + (Gone(o, s) - Gone(o, s)') + (Come(o, s)' - Come(o, s))
        /\ HeldOf(s) + GoneOf(s) = StartOn(day, s) + ComeOf(s)
    BY DEF ShareStep, SharesInv
  <2>2. \A r \in Order : Gone(r, s) \in Int /\ Come(r, s) \in Int
    BY GoneIs
  <2>3. \A r \in Order : Gone(r, s)' \in Int /\ Come(r, s)' \in Int
    BY GoneIsAfter
  <2>4. \A r \in Order \ {o} : Gone(r, s)' = Gone(r, s) /\ Come(r, s)' = Come(r, s)
    <3> SUFFICES ASSUME NEW r \in Order \ {o}
                 PROVE  Gone(r, s)' = Gone(r, s) /\ Come(r, s)' = Come(r, s)
      OBVIOUS
    <3>1. Traded(r)' = Traded(r)
      BY <1>1 DEF ShareStep, Traded
    <3> QED  BY <1>1, <3>1 DEF Gone, Come
  <2>5. /\ \A r \in Order : a[r] \in Int /\ a1[r] \in Int /\ b[r] \in Int /\ b1[r] \in Int
        /\ \A r \in Order \ {o} : a[r] = a1[r] /\ b[r] = b1[r]
        /\ a[o] = Gone(o, s) /\ a1[o] = Gone(o, s)' /\ b[o] = Come(o, s) /\ b1[o] = Come(o, s)'
        /\ GoneOf(s) = SumFunctionOnSet(a, Order) /\ GoneOf(s)' = SumFunctionOnSet(a1, Order)
        /\ ComeOf(s) = SumFunctionOnSet(b, Order) /\ ComeOf(s)' = SumFunctionOnSet(b1, Order)
    BY <2>2, <2>3, <2>4 DEF GoneOf, ComeOf
  <2> HIDE DEF a, a1, b, b1
  <2>6. /\ SumFunctionOnSet(a1, Order) = SumFunctionOnSet(a, Order) - a[o] + a1[o]
        /\ SumFunctionOnSet(b1, Order) = SumFunctionOnSet(b, Order) - b[o] + b1[o]
    BY <1>1, <2>5, SumUpdate
  <2>7. SumFunctionOnSet(a, Order) \in Int /\ SumFunctionOnSet(b, Order) \in Int
    BY <1>1, <2>5, SumRemove
  <2>8. HeldOf(s) \in Nat /\ StartOn(day, s) \in Nat
    BY HeldOfIs, StartIs DEF UserInv, UserTypes
  <2> QED  BY <2>1, <2>5, <2>6, <2>7, <2>8
<1> QED  BY <1>1, <1>2, <1>3 DEF SharesInv

LEMMA AcceptedCps ==
    ASSUME UserInv, NEW o \in Order, Moves(o), order'[o].state = "resting"
    PROVE  order'[o].cps \in Cps
<1>1. order[o] \in OrderState /\ DOMAIN order = Order
  BY OrderIs
<1>2. ~Reject(o)
  BY <1>1 DEF Reject, OrderState
<1>3. order' # [order EXCEPT ![o].state = "cancelled", ![o].cps = NoCps]
  BY <1>1 DEF OrderState
<1>4. PICK cps \in [Security -> [first : Count, avl : Count]] : Accept(o, cps)
  BY <1>2, <1>3 DEF Moves
<1>5. order'[o].cps = cps
  BY <1>1, <1>4 DEF Accept, OrderState
<1> QED  BY <1>4, <1>5 DEF Cps

LEMMA ShareMove ==
    ASSUME UserInv, FrozenInv, SharesInv, NEW o \in Order, Moves(o), FrozenStep(o), FrozenWhole(o)',
           order'[o].leaves = order[o].leaves,
           order'[o].state = "resting" =>
              /\ order[o].state = "new"
              /\ \A s \in Component, p \in Part : FrozenFor(o, s, p)' <= LookUpOrNew(s).vol[p].unfroze
    PROVE  ShareStep(o)
<1>1. /\ UNCHANGED <<day, lost, db>> /\ Kind' = Kind /\ Of' = Of /\ Qty' = Qty
      /\ \A s \in Security : OnlyMoved(s)
      /\ \A q \in Order \ {o} : order'[q] = order[q]
      /\ \A c \in Component : Needed(o, c)' = Needed(o, c)
  BY DEF Moves, NoTrade, FrozenStep, Kind, Of, Qty, Needed
<1>2. order'[o].leaves <= Qty[o]
  BY DEF SharesInv
<1>3. ASSUME NEW s \in Component \ lost
      PROVE  /\ HeldWell(s)'
             /\ HeldOf(s)' = HeldOf(s) + (Gone(o, s) - Gone(o, s)') + (Come(o, s)' - Come(o, s))
  <2>1. s \in Security /\ s \in Component /\ db'[s] = db[s] /\ OnlyMoved(s) /\ HeldWell(s)
    BY <1>1, SecurityIs DEF SharesInv
  <2>2. \A p \in Part : InPart(s, p)' = InPart(s, p)
    BY <2>1, InPartMoved
  <2>3. HeldOf(s)' = HeldOf(s) /\ InPart(s, "crt")' = 0
    BY <2>1, <2>2 DEF HeldOf, Part, HeldWell
  <2>4. Gone(o, s)' = Gone(o, s) /\ Come(o, s)' = Come(o, s)
    <3>1. Traded(o)' = Traded(o)
      BY <1>1 DEF Traded
    <3> QED  BY <1>1, <3>1 DEF Gone, Come
  <2>5. HeldOf(s) + (Gone(o, s) - Gone(o, s)) + (Come(o, s) - Come(o, s)) = HeldOf(s)
    <3>1. HeldOf(s) \in Nat /\ Gone(o, s) \in Int /\ Come(o, s) \in Int
      BY <2>1, HeldOfIs, GoneIs
    <3> QED  BY <3>1
  <2>6. ASSUME NEW p \in Part PROVE Frozen(s, p)' <= InPart(s, p)
    <3> DEFINE f == Frozen(s, p)
               x == FrozenFor(o, s, p)
               x1 == FrozenFor(o, s, p)'
               v == LookUpOrNew(s).vol[p]
    <3>1. /\ f \in Nat /\ x \in Nat /\ x <= f /\ f <= InPart(s, p) /\ InPart(s, p) < Modulus
          /\ InPart(s, p) \in Nat /\ v \in Volume /\ v.froze = f /\ Held(v) = InPart(s, p)
      BY <2>1, InPartIs, FrozenForOne DEF HeldWell, InPart
    <3>2. Frozen(s, p)' = (f - x + x1) % Modulus
      BY <2>1 DEF FrozenStep
    <3>3. CASE order'[o].state # "resting"
      <4>1. x1 = 0
        BY <3>3, FrozenForNone
      <4> HIDE DEF f, x, x1, v
      <4>2. f - x + x1 = f - x /\ f - x \in 0..Modulus - 1 /\ f - x <= InPart(s, p) /\ Modulus \in Nat \ {0}
        BY <3>1, <4>1, CountIs
      <4>3. (f - x) % Modulus = f - x
        BY ONLY <4>2, ModSmall
      <4> QED  BY <3>2, <4>2, <4>3
    <3>4. CASE order'[o].state = "resting"
      <4>1. x = 0 /\ x1 <= v.unfroze
        BY <2>1, <3>4, FrozenForNone
      <4>2. x1 \in Nat
        <5>1. order'[o].cps \in Cps
          BY <1>1, <3>4, AcceptedCps
        <5>2. order'[o].cps[s].first \in Nat /\ order'[o].cps[s].avl \in Nat
          BY <2>1, <5>1, CountIs DEF Cps
        <5> QED  BY <5>2 DEF FrozenFor
      <4>3. v.unfroze \in Nat /\ v.froze + v.unfroze < Modulus /\ Held(v) = v.froze + v.unfroze
        BY <3>1, HeldExact
      <4> HIDE DEF f, x, x1, v
      <4>4. f - x + x1 = f + x1 /\ f + x1 \in 0..Modulus - 1 /\ f + x1 <= InPart(s, p) /\ Modulus \in Nat \ {0}
        BY <3>1, <4>1, <4>2, <4>3, CountIs
      <4>5. (f + x1) % Modulus = f + x1
        BY ONLY <4>4, ModSmall
      <4> QED  BY <3>2, <4>4, <4>5
    <3> QED  BY <3>3, <3>4
  <2>7. HeldWell(s)'
    BY <2>2, <2>3, <2>6 DEF HeldWell
  <2> QED  BY <2>3, <2>4, <2>5, <2>7
<1> QED  BY <1>1, <1>2, <1>3 DEF ShareStep

\* What an order freezes when it comes in is there.
LEMMA PrepTaken ==
    ASSUME UserInv, OtherOrders, NEW o \in Order, TradePrep(o), order'[o].state = "resting"
    PROVE  /\ \A s \in Component, p \in Part : FrozenFor(o, s, p)' <= LookUpOrNew(s).vol[p].unfroze
           /\ FrozenWhole(o)'
<1> DEFINE t == Of[o]
           n == order[o].leaves
           h == LookUp(t).vol
           a == FromFirst(h, "rdp", n)
           b == FromAvl(h, "rdp", n)
           cps == [NoCps EXCEPT ![t] = [first |-> a, avl |-> b]]
<1>1. /\ day' = day /\ Kind' = Kind /\ order[o] \in OrderState /\ DOMAIN order = Order
      /\ t \in Security /\ n \in Count /\ order[o].state = "new"
  BY OrderIs, DayIs DEF TradePrep, Kind, UserInv, UserTypes
<1>2. ~Reject(o)
  BY <1>1 DEF Reject, OrderState
<1>3. \/ Kind[o] = "buy" /\ Accept(o, NoCps)
      \/ Kind[o] = "sell" /\ CanLookUp(t) /\ Accept(o, cps)
  BY <1>2 DEF TradePrep, FrozeOne, OtherOrders
<1>4. FrozenWhole(o)'
  BY <1>1, <1>3 DEF FrozenWhole
<1>5. ASSUME NEW s \in Component, NEW p \in Part
      PROVE  FrozenFor(o, s, p)' <= LookUpOrNew(s).vol[p].unfroze
  <2>1. s \in Security /\ LookUpOrNew(s).vol[p].unfroze \in Nat
    BY SecurityIs, InPartIs, HeldExact
  <2>2. CASE Kind[o] = "buy" /\ Accept(o, NoCps)
    <3>1. order'[o].cps = NoCps
      BY <1>1, <2>2 DEF Accept, OrderState
    <3>2. FrozenFor(o, s, p)' = 0
      BY <2>1, <3>1, NoCpsIs DEF FrozenFor
    <3> QED  BY <2>1, <3>2
  <2>3. CASE Kind[o] = "sell" /\ CanLookUp(t) /\ Accept(o, cps)
    <3>1. h \in Holding /\ "rdp" \in Part
      BY <1>1, <2>3, LookUpIs DEF Part
    <3>2. a <= h["rdp"].unfroze /\ b <= h["avl"].unfroze
      <4> HIDE DEF h, n
      <4> QED  BY <1>1, <3>1, TakenIs DEF a, b, n
    <3>3. FirstPart(o)' = "rdp"
      BY <1>1, <2>3 DEF FirstPart
    <3> HIDE DEF a, b
    <3>4. order'[o].cps = cps
      BY <1>1, <2>3 DEF Accept, OrderState
    <3>5. CASE s = t
      <4>1. order'[o].cps[s].first = a /\ order'[o].cps[s].avl = b
        BY <1>1, <3>4, <3>5 DEF NoCps
      <4>2. LookUpOrNew(s).vol = h
        BY <2>3, <3>5 DEF LookUpOrNew
      <4>3. FrozenFor(o, s, p)' = IF p = "rdp" THEN a ELSE IF p = "avl" THEN b ELSE 0
        BY <3>3, <4>1 DEF FrozenFor
      <4> HIDE DEF h, cps
      <4> QED  BY <2>1, <3>2, <4>2, <4>3
    <3>6. CASE s # t
      <4>1. order'[o].cps[s].first = 0 /\ order'[o].cps[s].avl = 0
        BY <1>1, <2>1, <3>4, <3>6 DEF NoCps
      <4>2. FrozenFor(o, s, p)' = 0
        BY <4>1 DEF FrozenFor
      <4> QED  BY <2>1, <4>2
    <3> QED  BY <3>5, <3>6
  <2> QED  BY <1>3, <2>2, <2>3
<1> QED  BY <1>4, <1>5

LEMMA QueryTaken ==
    ASSUME OnlySecurity, UserInv, NEW o \in Order, CreationQuery(o), order'[o].state = "resting"
    PROVE  /\ \A s \in Component, p \in Part : FrozenFor(o, s, p)' <= LookUpOrNew(s).vol[p].unfroze
           /\ FrozenWhole(o)'
<1> DEFINE a(c) == FromFirst(LookUp(c).vol, "act", Needed(o, c))
           b(c) == FromAvl(LookUp(c).vol, "act", Needed(o, c))
           cps == [s \in Security |-> IF s \in Component THEN [first |-> a(s), avl |-> b(s)] ELSE NoCps[s]]
<1>1. /\ day' = day /\ Kind' = Kind /\ order[o] \in OrderState /\ DOMAIN order = Order
      /\ Kind[o] = "etf_crt" /\ \A c \in Component : Needed(o, c)' = Needed(o, c)
  BY OrderIs DEF CreationQuery, Kind, Needed, Qty
<1>2. ~Reject(o)
  BY <1>1 DEF Reject, OrderState
<1>3. /\ \A c \in Component : CanLookUp(c) /\ Enough(LookUp(c).vol, "act", Needed(o, c))
      /\ Accept(o, cps)
  BY <1>2 DEF CreationQuery, OnlySecurity
<1>4. ASSUME NEW c \in Component
      PROVE  /\ c \in Security /\ a(c) + b(c) = Needed(o, c) /\ LookUpOrNew(c) = LookUp(c)
             /\ a(c) <= LookUp(c).vol["act"].unfroze /\ b(c) <= LookUp(c).vol["avl"].unfroze
  <2>1. c \in Security /\ LookUp(c).vol \in Holding /\ Needed(o, c) \in Count /\ "act" \in Part
        /\ CanLookUp(c) /\ Enough(LookUp(c).vol, "act", Needed(o, c))
    BY <1>3, SecurityIs, LookUpIs, NeededIs DEF Part, UserInv, UserTypes
  <2> QED  BY <2>1, TakenIs DEF Enough, LookUpOrNew
<1> HIDE DEF a, b
<1>5. \A c \in Component : order'[o].cps[c].first = a(c) /\ order'[o].cps[c].avl = b(c)
  BY <1>1, <1>3, <1>4 DEF Accept, OrderState
<1>6. FrozenWhole(o)'
  <2>1. \A c \in Component : order'[o].cps[c].first + order'[o].cps[c].avl = Needed(o, c)'
    BY <1>1, <1>4, <1>5
  <2> QED  BY <2>1 DEF FrozenWhole
<1>7. ASSUME NEW s \in Component, NEW p \in Part
      PROVE  FrozenFor(o, s, p)' <= LookUpOrNew(s).vol[p].unfroze
  <2>1. s \in Security /\ LookUpOrNew(s).vol[p].unfroze \in Nat
    BY SecurityIs, InPartIs, HeldExact
  <2>2. FirstPart(o)' = "act"
    BY <1>1 DEF FirstPart
  <2>3. FrozenFor(o, s, p)' = IF p = "act" THEN a(s) ELSE IF p = "avl" THEN b(s) ELSE 0
    BY <1>5, <2>2 DEF FrozenFor
  <2> QED  BY <1>4, <2>1, <2>3
<1> QED  BY <1>6, <1>7

\* A component whose entry a trade leaves alone, of which the order takes and brings nothing.
LEMMA ShareApart ==
    ASSUME UserInv, SharesInv, NEW s \in Component \ lost, UNCHANGED <<day, db>>, cache'[s] = cache[s],
           NEW o \in Order, Gone(o, s)' = Gone(o, s), Come(o, s)' = Come(o, s)
    PROVE  /\ HeldWell(s)'
           /\ HeldOf(s)' = HeldOf(s) + (Gone(o, s) - Gone(o, s)') + (Come(o, s)' - Come(o, s))
<1>1. s \in Security /\ HeldWell(s) /\ HeldOf(s) \in Nat /\ Gone(o, s) \in Int /\ Come(o, s) \in Int
  BY SecurityIs, HeldOfIs, GoneIs DEF SharesInv
<1>2. \A p \in Part : InPart(s, p)' = InPart(s, p)
  BY <1>1, InPartMoved DEF OnlyMoved
<1>3. \A p \in Part : Frozen(s, p)' = Frozen(s, p)
  BY DEF Frozen
<1>4. HeldOf(s)' = HeldOf(s) /\ InPart(s, "crt")' = InPart(s, "crt")
  BY <1>2 DEF HeldOf, Part
<1>5. HeldWell(s)'
  BY <1>1, <1>2, <1>3, <1>4 DEF HeldWell
<1>6. HeldOf(s) + (Gone(o, s) - Gone(o, s)) + (Come(o, s) - Come(o, s)) = HeldOf(s)
  BY <1>1
<1> QED  BY <1>4, <1>5, <1>6

LEMMA ShareBuy ==
    ASSUME NoWrapHeld, UserInv, SharesInv, OtherOrders, NEW o \in Order, order[o].state = "resting",
           NEW q \in 1..order[o].leaves, UpdateTrade_Buy(o, q), UNCHANGED <<day, db, lost>>
    PROVE  ShareStep(o)
<1> DEFINE t == Of[o]
           v == LookUpOrNew(t).vol
           h == AddAct(v, q)
<1>1. /\ Kind[o] = "buy" /\ t \in Security /\ q \in Nat /\ 0 < q /\ q <= order[o].leaves
      /\ cache \in [Security -> Entry \cup {Nothing}] /\ v \in Holding /\ order[o].leaves \in Nat
      /\ Kind' = Kind /\ Of' = Of /\ Qty' = Qty /\ order[o].leaves <= Qty[o] /\ Qty[o] \in Nat
  <2>1. Kind' = Kind /\ Of' = Of /\ Qty' = Qty
    BY DEF Kind, Of, Qty
  <2>2. Kind[o] = "buy" /\ cache \in [Security -> Entry \cup {Nothing}] /\ day \in Days
        /\ order[o].leaves <= Qty[o]
    BY DEF OtherOrders, UpdateTrade_Buy, UserInv, UserTypes, SharesInv
  <2>3. t \in Security /\ Qty[o] \in Nat /\ order[o].leaves \in Nat
    BY <2>2, DayIs, OrderIs, CountIs
  <2>4. v \in Holding
    BY <2>3, LookUpIs
  <2> QED  BY <2>1, <2>2, <2>3, <2>4
<1>2. /\ cache' = [cache EXCEPT ![t] = Synced([LookUpOrNew(t) EXCEPT !.vol = h], {"act"})]
      /\ Filled(o, q, NoCps)
  <2>1. LookUpOrNew(t) \in Entry
    BY <1>1, LookUpIs
  <2> QED  BY <1>1, <2>1 DEF UpdateTrade_Buy, Trade, Entry
<1>3. /\ order'[o].leaves = order[o].leaves - q /\ \A r \in Order \ {o} : order'[r] = order[r]
  BY <1>2, FilledExact
<1>4. order'[o].leaves <= Qty[o] /\ FrozenWhole(o)'
  BY <1>1, <1>3 DEF FrozenWhole
<1>5. Traded(o) \in Int /\ Traded(o)' = Traded(o) + q
  BY <1>1, <1>3 DEF Traded
<1>6. ASSUME NEW s \in Component \ lost
      PROVE  /\ HeldWell(s)'
             /\ HeldOf(s)' = HeldOf(s) + (Gone(o, s) - Gone(o, s)') + (Come(o, s)' - Come(o, s))
  <2>1. Gone(o, s) = 0 /\ Gone(o, s)' = 0 /\ s \in Security /\ HeldWell(s) /\ s \in Component
    BY <1>1, SecurityIs DEF Gone, SharesInv
  <2>2. CASE s = t
    <3>1. Come(o, s)' = Come(o, s) + q /\ Come(o, s) \in Int
      BY <1>1, <1>5, <2>2 DEF Come
    <3>2. InPart(s, "act") + q < Modulus
      BY <1>1, <2>2, BuyFits
    <3>3. \A p \in Part : /\ v[p].froze = Frozen(s, p) /\ Held(v[p]) = InPart(s, p)
                          /\ Frozen(s, p) <= InPart(s, p) /\ InPart(s, p) \in Nat
      BY <2>1, <2>2, InPartIs DEF HeldWell, InPart
    <3>4. "act" \in Part /\ {"act"} \in SUBSET Part /\ h = AddTo(v, "act", q)
      BY DEF Part, AddAct
    <3> HIDE DEF v, h
    <3>5. \A p \in Part : /\ Held(AddTo(v, "act", q)[p]) = Held(v[p]) + (IF p = "act" THEN q ELSE 0)
                          /\ AddTo(v, "act", q)[p].froze <= Held(AddTo(v, "act", q)[p])
      <4>1. Held(v["act"]) + q < Modulus /\ \A p \in Part : v[p].froze <= Held(v[p])
        BY <3>2, <3>3, <3>4
      <4> QED  BY <1>1, <3>4, <4>1, AddToHeld
    <3>6. AddTo(v, "act", q) \in Holding
      BY <1>1, <3>4, AddToIs
    <3>7. cache'[s] = Synced([LookUpOrNew(s) EXCEPT !.vol = h], {"act"})
      BY <1>1, <1>2, <2>2
    <3>8. \A p \in Part : InPart(s, p)' = Held(h[p]) /\ Frozen(s, p)' = h[p].froze
      BY <2>1, <3>4, <3>6, <3>7, InPartSynced, FrozenSynced
    <3>9. /\ \A p \in Part : InPart(s, p)' = InPart(s, p) + (IF p = "act" THEN q ELSE 0)
          /\ \A p \in Part : Frozen(s, p)' <= InPart(s, p)'
      BY <3>3, <3>4, <3>5, <3>8
    <3>10. /\ InPart(s, "act")' = InPart(s, "act") + q /\ InPart(s, "rdp")' = InPart(s, "rdp") + 0
           /\ InPart(s, "crt")' = InPart(s, "crt") + 0 /\ InPart(s, "avl")' = InPart(s, "avl") + 0
           /\ InPart(s, "act") \in Nat /\ InPart(s, "rdp") \in Nat /\ InPart(s, "crt") \in Nat /\ InPart(s, "avl") \in Nat
      BY <3>3, <3>9 DEF Part
    <3>11. HeldOf(s)' = HeldOf(s) + q
      BY <1>1, <3>10 DEF HeldOf
    <3>12. HeldWell(s)'
      BY <2>1, <3>9, <3>10 DEF HeldWell
    <3>13. HeldOf(s) \in Nat
      BY <2>1, HeldOfIs
    <3> QED  BY <1>1, <2>1, <3>1, <3>11, <3>12, <3>13
  <2>3. CASE s # t
    <3>1. cache'[s] = cache[s] /\ Come(o, s) = 0 /\ Come(o, s)' = 0
      BY <1>1, <1>2, <2>1, <2>3 DEF Come
    <3> QED  BY <2>1, <3>1, ShareApart
  <2> QED  BY <2>2, <2>3
<1> QED  BY <1>3, <1>4, <1>6 DEF ShareStep

LEMMA ShareSell ==
    ASSUME UserInv, FrozenInv, SharesInv, NEW o \in Order, order[o].state = "resting",
           NEW q \in 1..order[o].leaves, UpdateTrade_Sell(o, q), UNCHANGED <<day, db, lost>>
    PROVE  ShareStep(o)
<1> DEFINE t == Of[o]
           cps == order[o].cps[t]
           x == cps.first
           y == cps.avl
           a == IF q <= x THEN q ELSE x
           b == IF q <= x + y THEN q - a ELSE y
           v == LookUp(t).vol
           h == SellConfirm(v, a, b)
           rest == [order[o].cps EXCEPT ![t] = [first |-> x - a, avl |-> y - b]]
<1>1. /\ t \in Security /\ Kind[o] = "sell" /\ day \in Days
      /\ cache \in [Security -> Entry \cup {Nothing}]
      /\ Kind' = Kind /\ Of' = Of /\ Qty' = Qty /\ order[o].leaves <= Qty[o] /\ Qty[o] \in Nat
  BY DayIs, CountIs DEF UserInv, UserTypes, UpdateTrade_Sell, Kind, Of, Qty, SharesInv
<1>2. cache[t] # Nothing /\ CanLookUp(t) /\ LookUp(t) = cache[t] /\ LookUpOrNew(t) = LookUp(t) /\ v \in Holding
      /\ LookUp(t) \in Entry
  <2>1. cache[t] # Nothing
    BY <1>1 DEF UserInv, Loaded, HasEntries
  <2> QED  BY <1>1, <2>1, LookUpIs DEF LookUpOrNew
<1>3. /\ x \in Nat /\ y \in Nat /\ q \in Nat /\ 0 < q /\ q <= order[o].leaves /\ order[o].leaves \in Nat
      /\ x + y = order[o].leaves
  BY <1>1, OrderIs DEF FrozenInv
<1>4. /\ cache' = [cache EXCEPT ![t] = Synced([LookUpOrNew(t) EXCEPT !.vol = h], {"rdp", "avl"})]
      /\ Filled(o, q, rest)
  BY <1>2 DEF UpdateTrade_Sell, Trade
<1>5. FirstPart(o) = "rdp" /\ "rdp" \in Part \ {"avl"} /\ {"rdp", "avl"} \in SUBSET Part
  BY <1>1 DEF FirstPart, Part
<1>6. \A p \in Part : /\ v[p].froze = Frozen(t, p) /\ v[p].froze \in Nat
                      /\ FrozenFor(o, t, p) <= Frozen(t, p)
                      /\ FrozenFor(o, t, p) = IF p = "rdp" THEN x ELSE IF p = "avl" THEN y ELSE 0
  BY <1>1, <1>2, <1>5, FrozenIs, FrozenForOne DEF FrozenFor
<1>7. \A p \in Part : Held(v[p]) = InPart(t, p) /\ InPart(t, p) \in Nat
  BY <1>1, <1>2, InPartIs DEF InPart
<1> HIDE DEF x, y, v
<1>8. a \in Nat /\ b \in Nat /\ a <= x /\ b <= y /\ a + b = q
  BY <1>3
<1>9. a <= v["rdp"].froze /\ b <= v["avl"].froze
  <2>1. x <= v["rdp"].froze /\ y <= v["avl"].froze /\ v["rdp"].froze \in Nat /\ v["avl"].froze \in Nat
    BY <1>6 DEF Part
  <2> QED  BY <1>3, <1>8, <2>1
<1> HIDE DEF a, b, rest
<1>10. order'[o].leaves = order[o].leaves - q /\ \A r \in Order \ {o} : order'[r] = order[r]
  BY <1>4, FilledExact
<1>11. order'[o].leaves <= Qty[o] /\ FrozenWhole(o)'
  BY <1>1, <1>3, <1>10 DEF FrozenWhole
<1>12. Traded(o) \in Int /\ Traded(o)' = Traded(o) + q
  BY <1>1, <1>3, <1>10 DEF Traded
<1>13. ASSUME NEW s \in Component \ lost
       PROVE  /\ HeldWell(s)'
              /\ HeldOf(s)' = HeldOf(s) + (Gone(o, s) - Gone(o, s)') + (Come(o, s)' - Come(o, s))
  <2>1. Come(o, s) = 0 /\ Come(o, s)' = 0 /\ s \in Security /\ HeldWell(s) /\ s \in Component
    BY <1>1, SecurityIs DEF Come, SharesInv
  <2>2. CASE s = t
    <3>1. Gone(o, s)' = Gone(o, s) + q /\ Gone(o, s) \in Int
      BY <1>1, <1>12, <2>2 DEF Gone
    <3>2. \A p \in Part : v[p].froze <= Held(v[p])
      BY <1>6, <1>7, <2>1, <2>2 DEF HeldWell
    <3>3. h = ConfirmParts(v, "rdp", a, b)
      BY DEF SellConfirm
    <3> HIDE DEF h
    <3>4. \A p \in Part :
             /\ Held(h[p]) = Held(v[p]) - (IF p = "rdp" THEN a ELSE IF p = "avl" THEN b ELSE 0)
             /\ h[p].froze <= Held(h[p])
      BY <1>2, <1>5, <1>8, <1>9, <3>2, <3>3, ConfirmPartsHeld
    <3>5. h \in Holding
      BY <1>2, <1>5, <1>8, <3>3, ConfirmPartsIs
    <3>6. cache'[s] = Synced([LookUpOrNew(s) EXCEPT !.vol = h], {"rdp", "avl"})
      BY <1>1, <1>4, <2>2
    <3>7. \A p \in Part : InPart(s, p)' = Held(h[p]) /\ Frozen(s, p)' = h[p].froze
      BY <1>5, <2>1, <3>5, <3>6, InPartSynced, FrozenSynced
    <3>8. /\ \A p \in Part : InPart(s, p)' = InPart(s, p) - (IF p = "rdp" THEN a ELSE IF p = "avl" THEN b ELSE 0)
          /\ \A p \in Part : Frozen(s, p)' <= InPart(s, p)'
      BY <1>7, <2>2, <3>4, <3>7
    <3>9. /\ InPart(s, "act")' = InPart(s, "act") - 0 /\ InPart(s, "rdp")' = InPart(s, "rdp") - a
          /\ InPart(s, "crt")' = InPart(s, "crt") - 0 /\ InPart(s, "avl")' = InPart(s, "avl") - b
          /\ InPart(s, "act") \in Nat /\ InPart(s, "rdp") \in Nat /\ InPart(s, "crt") \in Nat /\ InPart(s, "avl") \in Nat
      BY <1>7, <2>2, <3>8 DEF Part
    <3>10. HeldOf(s)' = HeldOf(s) - q
      BY <1>3, <1>8, <3>9 DEF HeldOf
    <3>11. HeldWell(s)'
      BY <2>1, <3>8, <3>9 DEF HeldWell
    <3>12. HeldOf(s) \in Nat
      BY <2>1, HeldOfIs
    <3> QED  BY <1>3, <2>1, <3>1, <3>10, <3>11, <3>12
  <2>3. CASE s # t
    <3>1. cache'[s] = cache[s] /\ Gone(o, s) = 0 /\ Gone(o, s)' = 0
      BY <1>1, <1>4, <2>1, <2>3 DEF Gone
    <3> QED  BY <2>1, <3>1, ShareApart
  <2> QED  BY <2>2, <2>3
<1> QED  BY <1>10, <1>11, <1>13 DEF ShareStep

LEMMA ShareCrt ==
    ASSUME UserInv, FrozenInv, SharesInv, NEW o \in Order, order[o].state = "resting", UpdateETF_Crt(o),
           UNCHANGED <<day, db, lost>>
    PROVE  ShareStep(o)
<1> DEFINE h(c) == CreationConfirm(LookUp(c).vol, order[o].cps[c].first, order[o].cps[c].avl)
<1>1. Kind[o] = "etf_crt" /\ day \in Days /\ Kind' = Kind /\ Of' = Of /\ Qty' = Qty
      /\ \A c \in Component : Needed(o, c)' = Needed(o, c)
  BY DEF UpdateETF_Crt, UserInv, UserTypes, Kind, Of, Qty, Needed
<1>2. order[o].leaves \in Nat /\ Qty[o] \in Nat /\ Qty[o] > 0 /\ order[o].leaves = Qty[o]
  <2>1. Unit <= Qty[o] /\ Unit \in Nat \ {0} /\ Qty[o] \in Nat /\ order[o].leaves \in Nat
    BY <1>1, DayIs, OrderIs, CountIs, UserStockAssumption DEF Whole
  <2>2. order[o].leaves = Qty[o]
    BY <1>1 DEF UserInv, Whole
  <2> QED  BY <2>1, <2>2
<1>3. \A c \in Component : /\ c \in Security /\ LookUp(c) \in Entry /\ LookUp(c).vol \in Holding
                           /\ LookUpOrNew(c) = LookUp(c)
  <2>1. \A c \in Component : cache[c] # Nothing
    BY <1>1 DEF UserInv, Loaded, HasEntries
  <2> QED  BY <2>1, LookUpIs, SecurityIs DEF LookUpOrNew
<1>4. /\ \A c \in Component : cache'[c] = Synced([LookUpOrNew(c) EXCEPT !.vol = h(c)], {"act", "avl"})
      /\ Filled(o, order[o].leaves, NoCps)
  <2>1. \A c \in Component : c \in Security /\ c # Etf
    BY SecurityIs
  <2>2. \A c \in Component : [LookUp(c) EXCEPT !.vol = h(c)]
              = [LookUp(c) EXCEPT !.vol = CreationConfirm(@, order[o].cps[c].first, order[o].cps[c].avl)]
    BY <1>3 DEF Entry
  <2> HIDE DEF h
  <2>3. \A c \in Component : [LookUpOrNew(c) EXCEPT !.vol = h(c)] = [LookUp(c) EXCEPT !.vol = h(c)]
    BY <1>3
  <2> QED  BY <2>1, <2>2, <2>3 DEF UpdateETF_Crt
<1>5. FirstPart(o) = "act" /\ {"act", "avl"} \in SUBSET Part /\ "act" \in Part \ {"avl"}
  BY <1>1 DEF FirstPart, Part
<1>6. /\ order'[o].state = "filled" /\ order'[o].leaves = order[o].leaves - order[o].leaves
      /\ \A r \in Order \ {o} : order'[r] = order[r]
  BY <1>4, FilledExact
<1>7. order'[o].leaves <= Qty[o] /\ FrozenWhole(o)'
  BY <1>2, <1>6 DEF FrozenWhole
<1>8. ASSUME NEW s \in Component \ lost
      PROVE  /\ HeldWell(s)'
             /\ HeldOf(s)' = HeldOf(s) + (Gone(o, s) - Gone(o, s)') + (Come(o, s)' - Come(o, s))
  <2> DEFINE v == LookUp(s).vol
             a == order[o].cps[s].first
             b == order[o].cps[s].avl
             w == h(s)
  <2>1. s \in Security /\ s \in Component /\ v \in Holding /\ a \in Nat /\ b \in Nat /\ HeldWell(s)
        /\ LookUpOrNew(s) = LookUp(s)
    BY <1>3, OrderIs, SecurityIs DEF SharesInv
  <2>2. \A p \in Part : /\ v[p].froze = Frozen(s, p) /\ v[p].froze \in Nat
                        /\ FrozenFor(o, s, p) <= Frozen(s, p)
                        /\ FrozenFor(o, s, p) = IF p = "act" THEN a ELSE IF p = "avl" THEN b ELSE 0
                        /\ Held(v[p]) = InPart(s, p) /\ InPart(s, p) \in Nat /\ Frozen(s, p) <= InPart(s, p)
    BY <1>5, <2>1, InPartIs, FrozenForOne DEF FrozenFor, InPart, HeldWell
  <2>3. w = ConfirmParts(v, "act", a, b)
    BY DEF CreationConfirm
  <2>4. cache'[s] = Synced([LookUpOrNew(s) EXCEPT !.vol = w], {"act", "avl"})
    BY <1>4
  <2>5. a + b = Needed(o, s)
    BY <1>1 DEF SharesInv, FrozenWhole
  <2> HIDE DEF v, a, b, w
  <2>6. a <= v["act"].froze /\ b <= v["avl"].froze /\ \A p \in Part : v[p].froze <= Held(v[p])
    BY <1>5, <2>2 DEF Part
  <2>7. w \in Holding
    BY <1>5, <2>1, <2>3, ConfirmPartsIs
  <2>8. \A p \in Part :
           /\ Held(w[p]) = Held(v[p]) - (IF p = "act" THEN a ELSE IF p = "avl" THEN b ELSE 0)
           /\ w[p].froze <= Held(w[p])
    BY <1>5, <2>1, <2>3, <2>6, ConfirmPartsHeld
  <2>9. \A p \in Part : InPart(s, p)' = Held(w[p]) /\ Frozen(s, p)' = w[p].froze
    BY <1>5, <2>1, <2>4, <2>7, InPartSynced, FrozenSynced
  <2>10. /\ \A p \in Part : InPart(s, p)' = InPart(s, p) - (IF p = "act" THEN a ELSE IF p = "avl" THEN b ELSE 0)
         /\ \A p \in Part : Frozen(s, p)' <= InPart(s, p)'
    BY <2>2, <2>8, <2>9
  <2>11. /\ InPart(s, "act")' = InPart(s, "act") - a /\ InPart(s, "rdp")' = InPart(s, "rdp") - 0
         /\ InPart(s, "crt")' = InPart(s, "crt") - 0 /\ InPart(s, "avl")' = InPart(s, "avl") - b
         /\ InPart(s, "act") \in Nat /\ InPart(s, "rdp") \in Nat /\ InPart(s, "crt") \in Nat /\ InPart(s, "avl") \in Nat
    BY <2>2, <2>10 DEF Part
  <2>12. HeldOf(s)' = HeldOf(s) - (a + b)
    BY <2>1, <2>11 DEF HeldOf
  <2>13. HeldWell(s)'
    BY <2>1, <2>10, <2>11 DEF HeldWell
  <2>14. Gone(o, s) = 0 /\ Gone(o, s)' = Needed(o, s) /\ Come(o, s) = 0 /\ Come(o, s)' = 0
    <3>1. Traded(o) = 0 /\ Traded(o)' = Qty[o]
      BY <1>1, <1>2, <1>6 DEF Traded
    <3> QED  BY <1>1, <1>2, <3>1 DEF Gone, Come
  <2>15. HeldOf(s) \in Nat
    BY <2>1, HeldOfIs
  <2> QED  BY <2>1, <2>5, <2>12, <2>13, <2>14, <2>15
<1> QED  BY <1>6, <1>7, <1>8 DEF ShareStep

\* The entries dropped at the end of a day are in the database.
LEMMA ShareDayEnd ==
    ASSUME UserInv, RowFollows, FrozenInv, SharesInv, OtherOrders, DayEndCleanUp
    PROVE  SharesInv'
<1>1. /\ \A o \in Order : order[o].state # "resting"
      /\ sql = <<>> /\ cache' = [s \in Security |-> Nothing]
      /\ UNCHANGED <<day, order, db, lost>> /\ Kind' = Kind /\ Of' = Of /\ Qty' = Qty
  BY DEF DayEndCleanUp, Kind, Of, Qty
<1>2. \A o \in Order : order'[o].leaves <= Qty'[o] /\ FrozenWhole(o)'
  BY <1>1 DEF SharesInv, FrozenWhole
<1>3. ASSUME NEW s \in Component \ lost
      PROVE  HeldWell(s)' /\ (HeldOf(s) + GoneOf(s))' = (StartOn(day, s) + ComeOf(s))'
  <2>1. s \in Security /\ s \in Component /\ HeldWell(s) /\ HeldOf(s) + GoneOf(s) = StartOn(day, s) + ComeOf(s)
        /\ cache'[s] = Nothing /\ db'[s] = db[s] /\ Caught(s) /\ s # Etf
    BY <1>1, SecurityIs DEF SharesInv, RowFollows
  <2>2. ASSUME NEW p \in Part PROVE InPart(s, p)' = InPart(s, p)
    <3>1. CASE cache[s] = Nothing
      BY <2>1, <3>1, InPartMoved DEF OnlyMoved
    <3>2. CASE cache[s] # Nothing
      <4>1. PICK row : LeadsTo(s, sql, db[s], row) /\ Shown(s, cache[s].vol, row)
        BY <2>1, <3>2 DEF Caught
      <4>2. row = db[s]
        BY <1>1, <4>1 DEF LeadsTo
      <4>3. db[s] \in Row(s) /\ db[s] # Nothing /\ \A c \in Columns(s) : db[s][c] = cache[s].vol[c].syn
        BY <2>1, <4>1, <4>2, SecurityIs DEF Shown
      <4>4. \A c \in Columns(s) \ {"last"} : cache[s].vol[c].syn = Held(cache[s].vol[c])
        BY <2>1, <3>2 DEF RowFollows, AllSynced
      <4>5. LookUpOrNew(s)'.vol = Load(db[s])
        BY <2>1, <4>3 DEF LookUpOrNew, CanLookUp, LookUp
      <4>6. InPart(s, p)' = IF p \in Columns(s) THEN db[s][p] ELSE 0
        BY <2>1, <4>3, <4>5, LoadIs, Balances DEF InPart
      <4>7. LookUpOrNew(s) = cache[s]
        BY <3>2 DEF LookUpOrNew, CanLookUp, LookUp
      <4>8. p \in Columns(s) \ {"last"} \/ p = "crt"
        BY <2>1 DEF Columns, Part
      <4>9. "crt" \notin Columns(s)
        BY <2>1 DEF Columns
      <4>10. CASE p = "crt"
        BY <2>1, <4>6, <4>9, <4>10 DEF HeldWell
      <4>11. CASE p \in Columns(s) \ {"last"}
        BY <4>3, <4>4, <4>6, <4>7, <4>11 DEF InPart
      <4> QED  BY <4>8, <4>10, <4>11
    <3> QED  BY <3>1, <3>2
  <2>3. \A p \in Part : Frozen(s, p)' = 0 /\ InPart(s, p) \in Nat
    BY <2>1, InPartIs DEF Frozen
  <2>4. HeldOf(s)' = HeldOf(s) /\ HeldWell(s)'
    BY <2>1, <2>2, <2>3 DEF HeldOf, HeldWell, Part
  <2>5. GoneOf(s)' = GoneOf(s) /\ ComeOf(s)' = ComeOf(s)
    BY <1>1 DEF GoneOf, ComeOf, Gone, Come, Traded, Needed
  <2> QED  BY <1>1, <2>1, <2>4, <2>5
<1> QED  BY <1>1, <1>2, <1>3 DEF SharesInv

\* A statement changes the row of an entry that is there, or is lost.
LEMMA ShareTask ==
    ASSUME UserInv, RowFollows, FrozenInv, SharesInv, OtherOrders, TaskStockCacheSyn
    PROVE  SharesInv'
<1>1. /\ UNCHANGED <<day, cache, order>> /\ sql # <<>> /\ sql \in Seq(Statement)
      /\ lost \subseteq lost' /\ Kind' = Kind /\ Of' = Of /\ Qty' = Qty
      /\ \A s \in Security : s # Head(sql).of => db'[s] = db[s]
  BY TaskIs DEF TaskStockCacheSyn, Kind, Of, Qty
<1>2. \A o \in Order : order'[o].leaves <= Qty'[o] /\ FrozenWhole(o)'
  BY <1>1 DEF SharesInv, FrozenWhole, Needed
<1>3. ASSUME NEW s \in Component \ lost'
      PROVE  HeldWell(s)' /\ (HeldOf(s) + GoneOf(s))' = (StartOn(day, s) + ComeOf(s))'
  <2>1. s \in Security /\ s \in Component \ lost /\ HeldWell(s)
        /\ HeldOf(s) + GoneOf(s) = StartOn(day, s) + ComeOf(s) /\ cache'[s] = cache[s] /\ Caught(s)
    BY <1>1, SecurityIs DEF SharesInv, RowFollows
  <2>2. \A p \in Part : InPart(s, p)' = InPart(s, p)
    <3>1. CASE cache[s] # Nothing
      <4>1. LookUpOrNew(s)' = LookUpOrNew(s)
        BY <2>1, <3>1 DEF LookUpOrNew, CanLookUp, LookUp
      <4> QED  BY <4>1 DEF InPart
    <3>2. CASE cache[s] = Nothing
      <4>1. 1 \in DOMAIN sql /\ Head(sql) = sql[1]
        BY <1>1
      <4>2. db'[s] = db[s]
        BY <1>1, <2>1, <3>2, <4>1 DEF Caught
      <4> QED  BY <2>1, <4>2, InPartMoved DEF OnlyMoved
    <3> QED  BY <3>1, <3>2
  <2>3. \A p \in Part : Frozen(s, p)' = Frozen(s, p)
    BY <1>1 DEF Frozen
  <2>4. HeldOf(s)' = HeldOf(s) /\ HeldWell(s)'
    BY <2>1, <2>2, <2>3 DEF HeldOf, HeldWell, Part
  <2>5. GoneOf(s)' = GoneOf(s) /\ ComeOf(s)' = ComeOf(s)
    BY <1>1 DEF GoneOf, ComeOf, Gone, Come, Traded, Needed
  <2> QED  BY <1>1, <2>1, <2>4, <2>5
<1> QED  BY <1>2, <1>3 DEF SharesInv

LEMMA SharesKeptByStep ==
    ASSUME OnlySecurity, NoWrapHeld, UserInv, UserInv', OtherOrders, RowFollows, FrozenInv, SharesInv, [Next]_vars
    PROVE  SharesInv'
<1>1. ASSUME NEW o \in Order, ShareStep(o) PROVE SharesInv'
  BY <1>1, ShareStepKeeps
<1>2. ASSUME NEW o \in Order, UpdateAfterTrade(o) PROVE ShareStep(o)
  <2>1. Kind[o] \in {"sell", "buy", "etf_crt"} /\ UNCHANGED <<day, db, lost>> /\ order[o].state = "resting"
    BY <1>2 DEF OtherOrders, UpdateAfterTrade
  <2>2. \/ \E q \in 1..order[o].leaves : UpdateTrade_Sell(o, q) \/ UpdateTrade_Buy(o, q)
        \/ UpdateETF_Crt(o)
    BY <1>2, <2>1 DEF UpdateAfterTrade, UpdateTrade_EtfSell, UpdateETF_Rdp
  <2> QED  BY <2>1, <2>2, ShareSell, ShareBuy, ShareCrt
<1>3. ASSUME NEW o \in Order, TradePrep(o) \/ CreationQuery(o) \/ UpdateAfterCancel(o)
      PROVE  ShareStep(o)
  <2>1. Moves(o) /\ FrozenStep(o)
    BY <1>3, TradePrepIs, CreationQueryIs, CancelIs, FrozenPrep, FrozenQuery, FrozenCancel DEF Moves
  <2>2. order[o] \in OrderState /\ DOMAIN order = Order
    BY OrderIs
  <2>3. order'[o].leaves = order[o].leaves
    BY <2>1, <2>2 DEF Moves, Reject, Accept, OrderState
  <2>4. CASE UpdateAfterCancel(o)
    <3>1. order'[o].state = "cancelled"
      BY <2>2, <2>4 DEF UpdateAfterCancel, OrderState
    <3>2. FrozenWhole(o)'
      BY <3>1 DEF FrozenWhole
    <3> QED  BY <2>1, <2>3, <3>1, <3>2, ShareMove
  <2>5. CASE TradePrep(o) \/ CreationQuery(o)
    <3>1. order[o].state = "new"
      BY <2>5 DEF TradePrep, CreationQuery
    <3>2. order'[o].state # "resting" => FrozenWhole(o)'
      BY DEF FrozenWhole
    <3> QED  BY <2>1, <2>3, <2>5, <3>1, <3>2, PrepTaken, QueryTaken, ShareMove
  <2> QED  BY <1>3, <2>4, <2>5
<1>4. CASE UNCHANGED vars
  <2>1. UNCHANGED <<day, cache, order, db, lost>> /\ Kind' = Kind /\ Of' = Of /\ Qty' = Qty
    BY <1>4 DEF vars, Kind, Of, Qty
  <2>2. \A o \in Order : order'[o].leaves <= Qty'[o] /\ FrozenWhole(o)'
    BY <2>1 DEF SharesInv, FrozenWhole, Needed
  <2>3. ASSUME NEW s \in Component \ lost
        PROVE  HeldWell(s)' /\ (HeldOf(s) + GoneOf(s))' = (StartOn(day, s) + ComeOf(s))'
    <3>1. s \in Security /\ HeldWell(s) /\ HeldOf(s) + GoneOf(s) = StartOn(day, s) + ComeOf(s)
      BY SecurityIs DEF SharesInv
    <3>2. \A p \in Part : InPart(s, p)' = InPart(s, p)
      BY <2>1, <3>1, InPartMoved DEF OnlyMoved
    <3>3. \A p \in Part : Frozen(s, p)' = Frozen(s, p)
      BY <2>1 DEF Frozen
    <3>4. HeldOf(s)' = HeldOf(s) /\ HeldWell(s)'
      BY <3>1, <3>2, <3>3 DEF HeldOf, HeldWell, Part
    <3>5. GoneOf(s)' = GoneOf(s) /\ ComeOf(s)' = ComeOf(s)
      BY <2>1 DEF GoneOf, ComeOf, Gone, Come, Traded, Needed
    <3> QED  BY <2>1, <3>1, <3>4, <3>5
  <2> QED  BY <2>1, <2>2, <2>3 DEF SharesInv
<1> QED  BY <1>1, <1>2, <1>3, <1>4, ShareTask, ShareDayEnd DEF Next

LEMMA RowFollowsInit == Init => RowFollows
BY DEF Init, RowFollows, Caught

LEMMA FrozenInit == Init => FrozenInv
<1> SUFFICES ASSUME Init PROVE FrozenInv
  OBVIOUS
<1>1. cache = [s \in Security |-> Nothing]
      /\ \A o \in Order : order[o].state = "new" /\ order[o].leaves = Qty[o]
  BY DEF Init
<1>2. ASSUME NEW s \in Security, NEW p \in Part PROVE Frozen(s, p) = FrozenForAll(s, p)
  <2>1. Frozen(s, p) = 0
    BY <1>1 DEF Frozen
  <2> DEFINE f == [o \in Order |-> FrozenFor(o, s, p)]
  <2>2. \A o \in Order : f[o] = 0
    BY <1>1, FrozenForNone
  <2>3. FrozenForAll(s, p) = SumFunctionOnSet(f, Order) /\ IsFiniteSet(Order)
    BY UserStockAssumption DEF FrozenForAll
  <2> HIDE DEF f
  <2> QED  BY <2>1, <2>2, <2>3, SumZero
<1> QED  BY <1>1, <1>2 DEF FrozenInv

\* The parts of what is held together are what the account began with, with all
\* that was bought and without all that was sold or given for ETF units
\* (UpdateTrade, UpdateETFCrtRdp), whatever was frozen, given back or reloaded
\* in between, if every component must be given in shares, what the orders of a
\* day ask of a security does not wrap, and neither does what it begins with and
\* buys.
THEOREM UserSharesConserved ==
    ASSUME OnlySecurity, NoWrap, NoWrapHeld
    PROVE  Spec => []SharesConserved
<1> DEFINE I == OtherOrders => FrozenInv /\ SharesInv
<1>1. Init => FrozenInv
  BY FrozenInit
<1>2. Init => SharesInv
  <2> SUFFICES ASSUME Init PROVE SharesInv
    OBVIOUS
  <2>1. /\ cache = [s \in Security |-> Nothing] /\ db = day.rows /\ day \in Days
        /\ \A o \in Order : order[o].state = "new" /\ order[o].leaves = Qty[o]
    BY DEF Init
  <2>2. \A o \in Order : order[o].leaves <= Qty[o] /\ FrozenWhole(o) /\ Traded(o) = 0
    <3> SUFFICES ASSUME NEW o \in Order PROVE order[o].leaves <= Qty[o] /\ FrozenWhole(o) /\ Traded(o) = 0
      OBVIOUS
    <3>1. Qty[o] \in Nat
      BY <2>1, DayIs, CountIs
    <3> QED  BY <2>1, <3>1 DEF FrozenWhole, Traded
  <2>3. ASSUME NEW s \in Component
        PROVE  HeldWell(s) /\ HeldOf(s) + GoneOf(s) = StartOn(day, s) + ComeOf(s)
    <3>1. s \in Security /\ cache[s] = Nothing /\ s # Etf
          /\ (day.rows[s] # Nothing => day.rows[s] \in Row(s))
      BY <2>1, SecurityIs, UserStockAssumption
    <3> DEFINE rows == IF day.rows[s] # Nothing THEN Load(day.rows[s]) ELSE Empty
    <3>2. LookUpOrNew(s).vol = rows
      BY <2>1, <3>1 DEF LookUpOrNew, CanLookUp, LookUp
    <3>3. rows \in Holding /\ Held(rows["crt"]) = 0
      <4>1. "crt" \in Balance /\ "crt" \notin Columns(s)
        BY <3>1, Balances DEF Columns
      <4> QED  BY <3>1, <4>1, LoadIs, EmptyIs
    <3> HIDE DEF rows
    <3>4. \A p \in Part : Held(rows[p]) \in Nat /\ Frozen(s, p) = 0
      BY <3>1, <3>3, Balances, HeldExact DEF Frozen
    <3>5. HeldWell(s) /\ HeldOf(s) = StartOn(day, s)
      BY <3>2, <3>3, <3>4 DEF HeldWell, InPart, HeldOf, StartOn, rows
    <3>6. GoneOf(s) = 0 /\ ComeOf(s) = 0
      <4> DEFINE a == [o \in Order |-> Gone(o, s)]
                 b == [o \in Order |-> Come(o, s)]
      <4>1. \A o \in Order : a[o] = 0 /\ b[o] = 0
        BY <2>2 DEF Gone, Come
      <4>2. IsFiniteSet(Order) /\ GoneOf(s) = SumFunctionOnSet(a, Order) /\ ComeOf(s) = SumFunctionOnSet(b, Order)
        BY UserStockAssumption DEF GoneOf, ComeOf
      <4> HIDE DEF a, b
      <4> QED  BY <4>1, <4>2, SumZero
    <3> QED  BY <3>5, <3>6
  <2> QED  BY <2>2, <2>3 DEF SharesInv
<1>3. UserInv /\ UserInv' /\ RowFollows /\ I /\ [Next]_vars => I'
  <2> SUFFICES ASSUME UserInv, UserInv', RowFollows, I, [Next]_vars, OtherOrders' PROVE FrozenInv' /\ SharesInv'
    OBVIOUS
  <2>1. UNCHANGED day
    BY DEF Next, vars, TradePrep, CreationQuery, UpdateAfterTrade, UpdateAfterCancel,
           TaskStockCacheSyn, DayEndCleanUp
  <2>2. OtherOrders
    BY <2>1 DEF OtherOrders, Kind
  <2> QED  BY <2>2, FrozenKept, SharesKeptByStep
<1>4. UserInv /\ I => SharesConserved
  <2> SUFFICES ASSUME UserInv, SharesInv, NEW s \in Component \ lost, CanLookUp(s)
               PROVE  Total(LAMBDA p : Held(LookUp(s).vol[p]), Part) + Total(LAMBDA o : Gone(o, s), Order)
                        = Total(LAMBDA p : Held((IF day.rows[s] # Nothing THEN Load(day.rows[s]) ELSE Empty)[p]), Part)
                          + Total(LAMBDA o : Come(o, s), Order)
    BY DEF SharesConserved, Gone, Come
  <2> DEFINE f == [p \in Part |-> Held(LookUp(s).vol[p])]
             rows == IF day.rows[s] # Nothing THEN Load(day.rows[s]) ELSE Empty
             g == [p \in Part |-> Held(rows[p])]
  <2>1. s \in Security /\ LookUpOrNew(s) = LookUp(s) /\ HeldOf(s) + GoneOf(s) = StartOn(day, s) + ComeOf(s)
        /\ day \in Days
    BY SecurityIs DEF LookUpOrNew, SharesInv, UserInv, UserTypes
  <2>2. /\ Total(LAMBDA o : Gone(o, s), Order) = GoneOf(s)
        /\ Total(LAMBDA o : Come(o, s), Order) = ComeOf(s)
    BY DEF Total, GoneOf, ComeOf
  <2>3. SumFunctionOnSet(f, Part) = HeldOf(s)
    <3>1. \A p \in Part : f[p] \in Int /\ f[p] = InPart(s, p)
      BY <2>1, InPartIs DEF InPart
    <3> HIDE DEF f
    <3>2. SumFunctionOnSet(f, Part) = f["act"] + f["rdp"] + f["crt"] + f["avl"]
      BY <3>1, PartSum
    <3> QED  BY <3>1, <3>2 DEF HeldOf, Part
  <2>4. SumFunctionOnSet(g, Part) = StartOn(day, s)
    <3>1. rows \in Holding
      BY <2>1, UserStockAssumption, LoadIs, EmptyIs
    <3>2. \A p \in Part : g[p] \in Int /\ g[p] = Held(rows[p])
      <4> HIDE DEF rows
      <4> QED  BY <3>1, Balances, HeldExact
    <3>3. StartOn(day, s) = Held(rows["act"]) + Held(rows["rdp"]) + Held(rows["crt"]) + Held(rows["avl"])
      BY DEF StartOn
    <3> HIDE DEF g, rows
    <3>4. SumFunctionOnSet(g, Part) = g["act"] + g["rdp"] + g["crt"] + g["avl"]
      BY <3>2, PartSum
    <3> QED  BY <3>2, <3>3, <3>4 DEF Part
  <2>5. /\ Total(LAMBDA p : Held(LookUp(s).vol[p]), Part) = SumFunctionOnSet(f, Part)
        /\ Total(LAMBDA p : Held((IF day.rows[s] # Nothing THEN Load(day.rows[s]) ELSE Empty)[p]), Part)
              = SumFunctionOnSet(g, Part)
    BY DEF Total
  <2> QED  BY <2>1, <2>2, <2>3, <2>4, <2>5
<1>5. Spec => []I
  <2>1. Init => I /\ RowFollows
    BY <1>1, <1>2, RowFollowsInit
  <2> HIDE DEF I
  <2> QED  BY <1>3, <2>1, RowFollowsKept, UserInvariant, PTL DEF Spec
<1> HIDE DEF I
<1> QED  BY <1>4, <1>5, UserInvariant, PTL
=============================================================================
