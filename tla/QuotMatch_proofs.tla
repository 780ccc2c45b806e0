--------------------------- MODULE QuotMatch_proofs ---------------------------
(***************************************************************************)
(* Proofs about QuotMatch for any orders and quotations, each quotation    *)
(* type, and Redis commands that fail.                                     *)
(***************************************************************************)
EXTENDS QuotMatch, SumTheorems, SequenceTheorems

-----------------------------------------------------------------------------
(* What is supposed.                                                       *)

\* What the theorems below suppose, where each needs it.  A write of a circle's
\* rest does not fail: one that does puts a filled order back whole.
CircleWritten == "HMSET circle" \notin MayFail

\* A read of the last quotation does not fail: one that does offers the whole
\* day again.
QuotationRead == "HMGET quotation" \notin MayFail

\* The quotation of a suspension does not go back behind the totals.
TotalsKept ==
    \A p, q \in Feed : q.TPBZ # "F" /\ p.OrigTime < q.OrigTime => p.CJSL <= q.CJSL

\* The connections use the program's quotation type; with the best price, which
\* each side has its own fields for and both one time, a circle has one side.
OneRest ==
    /\ \A o \in Order : o.policy = g_Quotation_Type
    /\ g_Quotation_Type = "SellBuyPrice" =>
         \A o, p \in Order : o.circle = p.circle => o.side = p.side

-----------------------------------------------------------------------------
(* The orders.                                                             *)

Open(o, n) == ended[o] = "open" /\ exec[o] + n = o.qty

\* What waits is open and waits once.
QueInv ==
    \A i \in 1..Len(que) :
        /\ Open(que[i].order, que[i].leaves)
        /\ \A j \in 1..Len(que) : que[i].order = que[j].order => i = j

\* What the thread has in its hands does not wait.  LeavesQty of a filled order is
\* what it was before.
HandInv ==
    thread.pc # "get" =>
        LET t == thread IN
        /\ \A i \in 1..Len(que) : que[i].order # t.order
        /\ IF t.pc = "set" /\ t.res = "MatchAll" THEN Open(t.order, 0) ELSE Open(t.order, t.leaves)

\* The others have ended or have not come.
EndInv(o) ==
    /\ exec[o] <= o.qty
    /\ ended[o] = "new" => exec[o] = 0
    /\ ended[o] = "MatchAll" => exec[o] = o.qty

OrderInv ==
    /\ TypeOK
    /\ QueInv /\ HandInv
    /\ \A o \in Order : EndInv(o)

-----------------------------------------------------------------------------
(* The quotations.                                                         *)

Known == {t \in Time : offered[t] # Nothing}
Volumes == SumFunction([t \in Known |-> offered[t].CJSL])
Traded == IF quotation = Nothing THEN 0 ELSE quotation.CJSL

\* A quotation taken is later than the ones before it and, as totals are kept,
\* its totals hold what they offered.
TakenInv ==
    /\ proc.pc = "store" =>
         /\ quotation # Nothing => quotation.OrigTime < proc.quot.OrigTime
         /\ TotalsKept => Volumes + proc.gap.CJSL <= proc.quot.CJSL
    /\ proc.pc = "offer" =>
         /\ quotation = proc.quot
         /\ TotalsKept => Volumes + proc.gap.CJSL <= proc.quot.CJSL
         /\ \A t \in Known : t < proc.quot.OrigTime

\* Nothing is offered that is later than the last quotation; the live one is
\* the last that was.
KnownInv ==
    /\ IsFiniteSet(Known)
    /\ TotalsKept => Volumes <= Traded
    /\ Known # {} <=> live # Nothing
    /\ live # Nothing => /\ quotation # Nothing /\ live.OrigTime <= quotation.OrigTime
                         /\ live.OrigTime \in Known /\ offered[live.OrigTime] = live
                         /\ \A t \in Known : t <= live.OrigTime

\* What was read of a quotation has its time, which is not after the live one's.
TimesInv ==
    /\ \A c \in Circle : circle[c].OrigTime # Nothing =>
         live # Nothing /\ circle[c].OrigTime <= live.OrigTime
    /\ thread.pc = "match" => live # Nothing /\ thread.gap.hqsj <= live.OrigTime
    /\ thread.pc = "set" => live # Nothing /\ thread.hqsj <= live.OrigTime

OfferInv == TypeOK /\ TakenInv /\ KnownInv /\ TimesInv

-----------------------------------------------------------------------------
(* A circle.                                                               *)

\* What was used of what quotation t offers to the circle of order o, and what
\* is left of it: shares, and with the average price money.
Within(o, t, qty, value) ==
    LET f == QtyField(g_Quotation_Type, o.side)
        u == used[<<o.circle, f, t>>]
    IN  /\ t \in Known
        /\ u.qty + qty <= offered[t][f]
        /\ g_Quotation_Type = "AveragePrice" => u.value + value <= offered[t].CJJE

UsedOf(o, t) == used[<<o.circle, QtyField(g_Quotation_Type, o.side), t>>]

\* The thread has of the circle what it read, or what it is about to write;
\* it was read not before the circle was written last.
ThreadKeeps(o) ==
    LET t == thread
        at == circle[o.circle].OrigTime
    IN  /\ t.pc = "match" /\ t.order.circle = o.circle =>
             /\ Within(o, t.gap.hqsj, t.gap.cjsl, t.gap.cjje)
             /\ at # Nothing => at <= t.gap.hqsj
        /\ t.pc = "set" /\ t.order.circle = o.circle =>
             /\ Within(o, t.hqsj, t.rest.cjsl, t.rest.cjje)
             /\ at # Nothing => at <= t.hqsj

Writes(o) == thread.pc = "set" /\ thread.order.circle = o.circle

\* A circle that was written has all its fields, and what they say is left of
\* its quotation, unless the thread is about to write less.
CircleKeeps(o) ==
    LET c == circle[o.circle]
        f == QtyField(g_Quotation_Type, o.side)
        v == ValueField(g_Quotation_Type, o.side)
    IN  c.OrigTime # Nothing =>
          /\ c[f] # Nothing /\ c[v] # Nothing
          /\ ~(Writes(o) /\ thread.hqsj = c.OrigTime) => Within(o, c.OrigTime, c[f], c[v])

\* Nothing was used of what came after what the circle and the thread know.
UnusedLater(o) ==
    \A t \in Time :
        UsedOf(o, t) # [qty |-> 0, value |-> 0] =>
            \/ circle[o.circle].OrigTime # Nothing /\ t <= circle[o.circle].OrigTime
            \/ Writes(o) /\ t <= thread.hqsj

\* What was used was offered.
UsedWithin(o) == \A t \in Time : UsedOf(o, t) # [qty |-> 0, value |-> 0] => Within(o, t, 0, 0)

OneCircleInv(o) == ThreadKeeps(o) /\ CircleKeeps(o) /\ UnusedLater(o) /\ UsedWithin(o)
CircleInv == \A o \in Order : OneCircleInv(o)

\* Only the fields of an order's side are used.
OthersUnused ==
    \A c \in Circle, f \in OfferField, t \in Time :
        used[<<c, f, t>>].qty > 0 => \E o \in Order : o.circle = c /\ f = QtyField(o.policy, o.side)

-----------------------------------------------------------------------------
(* Types.                                                                  *)

\* The fields of an order.
LEMMA OrderFields ==
    ASSUME NEW o \in Order
    PROVE  /\ o.side \in Side /\ o.price \in Nat /\ o.qty \in Nat \ {0} /\ o.del \in DelType
           /\ o.policy \in QuotationType /\ o.circle \in Circle
<1>1. o \in [id : Nat, side : Side, price : Nat, qty : Nat \ {0},
             del : DelType, policy : QuotationType, circle : STRING]
  BY OrderAssumption
<1> QED  BY <1>1 DEF Circle

\* The fields of a quotation.
LEMMA FeedFields ==
    ASSUME NEW q \in Feed
    PROVE  /\ q \in Quotation /\ q # Nothing /\ q.OrigTime \in Time /\ q.OrigTime \in Nat
           /\ q.CJSL \in Nat /\ q.CJJE \in Nat /\ q.TPBZ \in {"F", "T"}
<1>1. q \in Quotation /\ Nothing \notin Quotation
  BY FeedAssumption
<1>2. q.OrigTime \in Nat /\ q.CJSL \in Nat /\ q.CJJE \in Nat /\ q.TPBZ \in {"F", "T"}
  BY <1>1 DEF Quotation
<1>3. q.OrigTime \in Time
  BY DEF Time
<1> QED  BY <1>1, <1>2, <1>3

LEMMA TimesAreNat == Time \subseteq Nat
BY FeedFields DEF Time

\* The fields of a circle that a quotation type reads and writes.
LEMMA FieldNames ==
    ASSUME NEW type \in QuotationType, NEW side \in Side
    PROVE  /\ QtyField(type, side) \in OfferField
           /\ ValueField(type, side) \in Field /\ QtyField(type, side) \in Field
           /\ ValueField(type, side) \notin {"CJSL", "SSL1", "BSL1", "OrigTime"}
           /\ type = "AveragePrice" => QtyField(type, side) = "CJSL" /\ ValueField(type, side) = "CJJE"
BY DEF QuotationType, Side, QtyField, ValueField, Field, OfferField

\* A quotation has a number in each of these fields.
LEMMA QuotationNumbers ==
    ASSUME NEW q \in Quotation, NEW f \in Field
    PROVE  q[f] \in Nat
BY DEF Quotation, Field

\* What a read offers.
LEMMA GapTyped ==
    ASSUME TypeOK, live # Nothing, NEW o \in Order
    PROVE  LET g == GetCurrQuotGapByCircle(o)
               c == circle[o.circle]
               f == QtyField(o.policy, o.side)
               v == ValueField(o.policy, o.side)
           IN  /\ g \in Gap /\ g.hqsj = live.OrigTime
               /\ IsInStep(c, f, v) => g.cjsl = c[f] /\ (o.policy = "AveragePrice" => g.cjje = c[v])
               /\ ~IsInStep(c, f, v) => g.cjsl = live[f] /\ (o.policy = "AveragePrice" => g.cjje = live[v])
<1> DEFINE g == GetCurrQuotGapByCircle(o)
           c == circle[o.circle]
           f == QtyField(o.policy, o.side)
           v == ValueField(o.policy, o.side)
           n == IF IsInStep(c, f, v) THEN c[f] ELSE live[f]
           m == IF IsInStep(c, f, v) THEN c[v] ELSE live[v]
<1>1. f \in Field /\ v \in Field
  BY OrderFields, FieldNames
<1>2. live \in Quotation
  BY DEF TypeOK
<1>3. live[f] \in Nat /\ live[v] \in Nat
  BY <1>1, <1>2, QuotationNumbers
<1>4. c \in [Field -> Nat \cup {Nothing}]
  BY OrderFields DEF TypeOK
<1> HIDE DEF c, f, v
<1>5. n \in Nat /\ m \in Nat
  BY <1>1, <1>3, <1>4 DEF IsInStep
<1>6. m * n \in Nat
  BY <1>5
<1>7. g = [cjsl |-> n, cjje |-> IF o.policy = "AveragePrice" THEN m ELSE m * n,
           hqsj |-> live.OrigTime, tpbz |-> live.TPBZ,
           maxgain |-> live.maxgain, minfall |-> live.minfall]
  BY Zenon DEF GetCurrQuotGapByCircle, c, f, v
<1>8. live.OrigTime \in Nat /\ live.TPBZ \in {"F", "T"} /\ live.maxgain \in Nat /\ live.minfall \in Nat
  BY <1>2 DEF Quotation
<1> HIDE DEF g
<1>9. g \in Gap /\ g.hqsj = live.OrigTime
  <2> HIDE DEF n, m
  <2> QED  BY <1>5, <1>6, <1>7, <1>8 DEF Gap
<1>10. /\ IsInStep(c, f, v) => g.cjsl = c[f] /\ (o.policy = "AveragePrice" => g.cjje = c[v])
       /\ ~IsInStep(c, f, v) => g.cjsl = live[f] /\ (o.policy = "AveragePrice" => g.cjje = live[v])
  BY <1>7
<1> QED  BY <1>9, <1>10 DEF g, c, f, v

\* The volume between two quotations.
LEMMA VolumeTyped ==
    ASSUME NEW q \in Feed, NEW b \in Feed \cup {Nothing}, CalcQuotationGap(q, b) # Nothing
    PROVE  LET gap == CalcQuotationGap(q, b)
           IN  /\ gap \in Volume
               /\ b # Nothing => b.OrigTime < q.OrigTime
               /\ \/ gap.CJSL = 0 /\ q.TPBZ # "F"
                  \/ gap.CJSL + (IF b = Nothing THEN 0 ELSE b.CJSL) = q.CJSL
<1>1. q.CJSL \in Nat /\ q.CJJE \in Nat /\ q.OrigTime \in Nat
  BY FeedFields
<1>2. b # Nothing => b.CJSL \in Nat /\ b.CJJE \in Nat /\ b.OrigTime \in Nat
  BY FeedFields
<1> DEFINE cjsl == IF b = Nothing THEN 0 ELSE b.CJSL
           cjje == IF b = Nothing THEN 0 ELSE b.CJJE
<1>3. cjsl \in Nat /\ cjje \in Nat
  BY <1>2
<1>4. /\ ~(b # Nothing /\ q.OrigTime <= b.OrigTime)
      /\ \/ q.TPBZ # "F" /\ CalcQuotationGap(q, b) = [CJSL |-> 0, CJJE |-> 0]
         \/ /\ ~(q.CJSL <= cjsl \/ q.CJJE <= cjje)
            /\ CalcQuotationGap(q, b) = [CJSL |-> q.CJSL - cjsl, CJJE |-> q.CJJE - cjje]
  BY DEF CalcQuotationGap
<1>5. CASE q.TPBZ # "F" /\ CalcQuotationGap(q, b) = [CJSL |-> 0, CJJE |-> 0]
  BY <1>1, <1>2, <1>4, <1>5 DEF Volume
<1>6. CASE /\ ~(q.CJSL <= cjsl \/ q.CJJE <= cjje)
           /\ CalcQuotationGap(q, b) = [CJSL |-> q.CJSL - cjsl, CJJE |-> q.CJJE - cjje]
  <2>1. q.CJSL - cjsl \in Nat /\ q.CJJE - cjje \in Nat /\ (q.CJSL - cjsl) + cjsl = q.CJSL
    BY <1>1, <1>3, <1>6
  <2> QED  BY <1>1, <1>2, <1>4, <1>6, <2>1 DEF Volume
<1> QED  BY <1>4, <1>5, <1>6

\* The hands of a thread.
LEMMA HandTyped ==
    ASSUME TypeOK, thread.pc # "get"
    PROVE  /\ thread \in Matching \cup Setting
           /\ thread.order \in Order /\ thread.leaves \in Nat \ {0}
           /\ thread.pc = "match" => thread.gap \in Gap
           /\ thread.pc = "set" =>
                /\ thread.hqsj \in Nat /\ thread.res \in {"MatchAll", "MatchPart"}
                /\ thread.rest \in [cjsl : Nat, cjje : Nat]
<1>1. thread \in {FreeThread} \cup Matching \cup Setting
  BY DEF TypeOK
<1>2. thread # FreeThread
  BY DEF FreeThread
<1>3. CASE thread \in Matching
  BY <1>3 DEF Matching
<1>4. CASE thread \in Setting
  BY <1>4 DEF Setting
<1> QED  BY <1>1, <1>2, <1>3, <1>4

\* A queue, its first task and a task more.
LEMMA QueTyped ==
    ASSUME TypeOK
    PROVE  /\ que \in Seq(Waiting)
           /\ \A i \in 1..Len(que) : que[i].order \in Order /\ que[i].leaves \in Nat \ {0}
           /\ que # <<>> => /\ Head(que) \in Waiting /\ Head(que) = que[1]
                               /\ Len(que) \in Nat \ {0} /\ Tail(que) \in Seq(Waiting)
<1>1. que \in Seq(Waiting)
  BY DEF TypeOK
<1>2. \A i \in 1..Len(que) : que[i] \in Waiting
  BY <1>1
<1> QED  BY <1>1, <1>2 DEF Waiting

LEMMA QueuedTyped ==
    ASSUME TypeOK, NEW o \in Order, NEW n \in Nat \ {0}, Queued(o, n)
    PROVE  que' \in Seq(Waiting)
<1>1. [order |-> o, leaves |-> n] \in Waiting
  BY DEF Waiting
<1>2. Append(que, [order |-> o, leaves |-> n]) \in Seq(Waiting)
  BY <1>1, QueTyped
<1> QED  BY <1>2 DEF Queued, TypeOK

\* A product of what is traded and the average price is no more than the value.
LEMMA ValueBound ==
    ASSUME NEW qty \in Nat \ {0}, NEW value \in Nat, NEW n \in Nat, n <= qty
    PROVE  /\ value \div qty \in Nat /\ n * (value \div qty) \in Nat
           /\ n * (value \div qty) <= value
<1> DEFINE p == value \div qty
<1>1. p \in Nat /\ qty * p <= value
  OBVIOUS
<1> HIDE DEF p
<1>2. n * p <= qty * p
  BY <1>1
<1>3. n * p \in Nat /\ qty * p \in Nat
  BY <1>1
<1>4. n * p <= value
  BY <1>1, <1>2, <1>3
<1> QED  BY <1>1, <1>3, <1>4 DEF p

\* What a trade is: the shares that are open or offered, whichever are less.
LEMMA TradeOf ==
    ASSUME TypeOK, At("match"), Result \in {"MatchAll", "MatchPart", "CancelMatch"}
    PROVE  LET gap == thread.gap
               n == Min({thread.leaves, gap.cjsl})
               rest == LeftOver(n)
           IN  /\ gap.cjsl \in Nat \ {0} /\ gap.cjje \in Nat \ {0} /\ n \in Nat \ {0}
               /\ IF Result = "MatchAll" THEN n = thread.leaves /\ n <= gap.cjsl
                  ELSE n = gap.cjsl /\ n < thread.leaves
               /\ AveragePrice(gap) \in Nat /\ n * AveragePrice(gap) \in Nat
               /\ rest \in [cjsl : Nat, cjje : Nat]
               /\ n + rest.cjsl <= gap.cjsl /\ n * AveragePrice(gap) + rest.cjje <= gap.cjje
<1> DEFINE gap == thread.gap
           a == thread.leaves
           n == Min({a, gap.cjsl})
           p == AveragePrice(gap)
<1>1. gap \in Gap /\ a \in Nat \ {0}
  BY HandTyped DEF At
<1>2. gap.cjsl \in Nat /\ gap.cjje \in Nat
  BY <1>1 DEF Gap
<1>3. /\ gap.cjsl # 0 /\ gap.cjje # 0
      /\ Result = "MatchAll" <=> gap.cjsl >= a
  BY DEF Result, Quot_MatchByMarket
<1>4. n = IF a <= gap.cjsl THEN a ELSE gap.cjsl
  <2> HIDE DEF gap, a
  <2> QED  BY <1>1, <1>2 DEF Min
<1>5. n \in Nat \ {0} /\ n <= gap.cjsl /\ (Result = "MatchAll" => n = a)
      /\ (Result # "MatchAll" => n = gap.cjsl /\ n < a)
  BY <1>1, <1>2, <1>3, <1>4
<1>6. p \in Nat /\ n * p \in Nat /\ n * p <= gap.cjje
  <2> HIDE DEF n, gap
  <2> QED  BY <1>2, <1>3, <1>5, ValueBound DEF AveragePrice
<1>7. LeftOver(n) = IF Result = "MatchAll" THEN [cjsl |-> gap.cjsl - n, cjje |-> gap.cjje - n * p]
                       ELSE [cjsl |-> 0, cjje |-> 0]
  BY DEF LeftOver
<1> HIDE DEF n, p, gap, a
<1> DEFINE v == n * p
<1>8. v \in Nat /\ v <= gap.cjje
  BY <1>6
<1>9. LeftOver(n) = IF Result = "MatchAll" THEN [cjsl |-> gap.cjsl - n, cjje |-> gap.cjje - v]
                       ELSE [cjsl |-> 0, cjje |-> 0]
  BY <1>7
<1> HIDE DEF v
<1>10. /\ LeftOver(n) \in [cjsl : Nat, cjje : Nat]
       /\ n + LeftOver(n).cjsl <= gap.cjsl /\ v + LeftOver(n).cjje <= gap.cjje
  <2>1. CASE Result = "MatchAll"
    BY <1>2, <1>5, <1>8, <1>9, <2>1
  <2>2. CASE Result # "MatchAll"
    BY <1>2, <1>5, <1>8, <1>9, <2>2
  <2> QED  BY <2>1, <2>2
<1> QED  BY <1>2, <1>3, <1>5, <1>6, <1>10 DEF v, n, p, gap, a

\* The program starts well typed.
LEMMA InitTyped == Init => TypeOK
<1> SUFFICES ASSUME Init PROVE TypeOK
  OBVIOUS
<1>1. used \in [Circle \X OfferField \X Time -> [qty : Nat, value : Nat]]
  BY DEF Init
<1>3. circle \in [Circle -> [Field -> Nat \cup {Nothing}]]
  BY DEF Init
<1>4. que \in Seq(Waiting) /\ thread \in {FreeThread} \cup Matching \cup Setting
  BY DEF Init
<1> QED  BY <1>1, <1>3, <1>4 DEF Init, TypeOK

\* A step of the quotation thread keeps the types.
LEMMA QuotationTyped == TypeOK /\ QuotationStep => TypeOK'
<1> SUFFICES ASSUME TypeOK, QuotationStep PROVE TypeOK'
  OBVIOUS
<1>0. proc \in [pc : {"pop"}] \cup [pc : {"store", "offer"}, quot : Feed, gap : Volume]
  BY DEF TypeOK
<1>1. CASE ReadRealMarketInfo
  <2>1. PICK q \in Feed, ok \in BOOLEAN :
          LET b == IF ok THEN quotation ELSE Nothing
          IN  /\ CalcQuotationGap(q, b) # Nothing
              /\ proc' = [pc |-> "store", quot |-> q, gap |-> CalcQuotationGap(q, b)]
    BY <1>1 DEF ReadRealMarketInfo, Succeeds
  <2> DEFINE b == IF ok THEN quotation ELSE Nothing
  <2>2. b \in Feed \cup {Nothing}
    BY DEF TypeOK
  <2>3. CalcQuotationGap(q, b) \in Volume
    <3> HIDE DEF b
    <3> QED  BY <2>1, <2>2, VolumeTyped DEF b
  <2>4. proc' \in [pc : {"pop"}] \cup [pc : {"store", "offer"}, quot : Feed, gap : Volume]
    BY <2>1, <2>3
  <2> QED  BY <1>1, <2>4 DEF ReadRealMarketInfo, results, TypeOK
<1>2. CASE Store_Quotation
  <2>1. proc \in [pc : {"store", "offer"}, quot : Feed, gap : Volume]
    BY <1>0, <1>2 DEF Store_Quotation
  <2>2. proc' = [proc EXCEPT !.pc = "offer"] \/ proc' = [pc |-> "pop"]
    BY <1>2 DEF Store_Quotation
  <2>3. proc' \in [pc : {"pop"}] \cup [pc : {"store", "offer"}, quot : Feed, gap : Volume]
    BY <2>1, <2>2
  <2>4. quotation' \in Feed \cup {Nothing}
    BY <1>2, <2>1 DEF Store_Quotation, TypeOK
  <2> QED  BY <1>2, <2>3, <2>4 DEF Store_Quotation, results, TypeOK
<1>3. CASE Store_Volume
  <2>1. proc.quot \in Feed /\ proc.gap \in Volume
    BY <1>0, <1>3 DEF Store_Volume
  <2> DEFINE offer == [proc.quot EXCEPT !.CJSL = proc.gap.CJSL, !.CJJE = proc.gap.CJJE]
  <2>2. offer \in Quotation /\ offer.OrigTime = proc.quot.OrigTime
    <3>1. proc.quot \in Quotation
      BY <2>1, FeedFields
    <3>2. proc.gap.CJSL \in Nat /\ proc.gap.CJJE \in Nat
      BY <2>1 DEF Volume
    <3> QED  BY <3>1, <3>2 DEF Quotation
  <2>3. offer.OrigTime \in Time
    BY <2>1, <2>2, FeedFields
  <2>4. /\ live' = offer /\ offered' = [offered EXCEPT ![offer.OrigTime] = offer]
        \/ UNCHANGED <<live, offered>>
    BY <1>3 DEF Store_Volume
  <2> HIDE DEF offer
  <2>5. live' \in Quotation \cup {Nothing} /\ offered' \in [Time -> Quotation \cup {Nothing}]
    BY <2>2, <2>3, <2>4 DEF TypeOK
  <2>6. proc' \in [pc : {"pop"}]
    BY <1>3 DEF Store_Volume
  <2> QED  BY <1>3, <2>5, <2>6 DEF Store_Volume, results, TypeOK
<1> QED  BY <1>1, <1>2, <1>3 DEF QuotationStep

\* An order that comes keeps the types.
LEMMA ArriveTyped == TypeOK /\ (\E o \in Order : Arrive(o)) => TypeOK'
<1> SUFFICES ASSUME TypeOK, NEW o \in Order, Arrive(o) PROVE TypeOK'
  OBVIOUS
<1>1. o.side \in Side /\ o.qty \in Nat \ {0}
  BY OrderFields
<1>2. que' \in Seq(Waiting)
  BY <1>1, QueuedTyped DEF Arrive
<1> QED  BY <1>2 DEF Arrive, quotes, TypeOK

\* What one thread does keeps the types.
LEMMA ThreadTyped ==
    ASSUME TypeOK, ABStockEnableQuoMatch
    PROVE  TypeOK'
<1> DEFINE o == thread.order
           a == thread.leaves
<1>0. thread.pc # "get" => o \in Order /\ a \in Nat \ {0}
  BY HandTyped
<1>1. FreeThread \in {FreeThread} \cup Matching \cup Setting
  OBVIOUS
<1>2. ASSUME NEW h \in {FreeThread} \cup Matching \cup Setting, thread' = h
      PROVE  thread' \in {FreeThread} \cup Matching \cup Setting
  BY <1>2 DEF TypeOK
<1>3. CASE Quot_Get
  <2> DEFINE t == Head(que)
  <2>1. que # <<>> /\ t \in Waiting /\ Tail(que) \in Seq(Waiting)
    BY <1>3, QueTyped DEF Quot_Get
  <2>2. CASE /\ live # Nothing /\ que' = Tail(que)
             /\ thread' =
                  [pc |-> "match", order |-> t.order, leaves |-> t.leaves,
                   gap |-> GetCurrQuotGapByCircle(t.order)]
    <3>1. GetCurrQuotGapByCircle(t.order) \in Gap
      BY <2>1, <2>2, GapTyped DEF Waiting
    <3>2. [pc |-> "match", order |-> t.order, leaves |-> t.leaves,
           gap |-> GetCurrQuotGapByCircle(t.order)] \in Matching
      BY <2>1, <3>1 DEF Waiting, Matching
    <3>3. thread' \in {FreeThread} \cup Matching \cup Setting
      BY <1>2, <2>2, <3>2
    <3>4. que' \in Seq(Waiting)
      BY <2>1, <2>2 DEF TypeOK
    <3> QED  BY <1>3, <3>3, <3>4 DEF Quot_Get, quotes, results, TypeOK
  <2>3. CASE que' = Append(Tail(que), t) /\ UNCHANGED thread
    <3>1. Append(Tail(que), t) \in Seq(Waiting)
      BY <2>1
    <3>2. que' \in Seq(Waiting)
      BY <2>3, <3>1 DEF TypeOK
    <3> QED  BY <1>3, <2>3, <3>2 DEF Quot_Get, quotes, results, TypeOK
  <2> QED  BY <1>3, <2>2, <2>3 DEF Quot_Get
<1>4. CASE Match_Error
  <2>1. thread' \in {FreeThread} \cup Matching \cup Setting
    BY <1>2, <1>4 DEF Match_Error
  <2> QED  BY <1>4, <2>1 DEF Match_Error, End, quotes, TypeOK
<1>5. CASE Match_NotMatch
  <2>1. thread' \in {FreeThread} \cup Matching \cup Setting
    BY <1>2, <1>5 DEF Match_NotMatch
  <2>2. que' \in Seq(Waiting)
    BY <1>0, <1>5, QueuedTyped DEF Match_NotMatch, At
  <2> QED  BY <1>5, <2>1, <2>2 DEF Match_NotMatch, quotes, results, TypeOK
<1>6. CASE Match_CancelRest
  <2>1. thread' \in {FreeThread} \cup Matching \cup Setting
    BY <1>2, <1>6 DEF Match_CancelRest
  <2>2. thread.gap.cjsl \in Nat /\ o \in Order
    BY <1>0, <1>6, TradeOf DEF Match_CancelRest, At
  <2>3. exec' \in [Order -> Nat]
    <3>1. exec' = [exec EXCEPT ![o] = @ + thread.gap.cjsl]
      BY <1>6 DEF Match_CancelRest, Booked
    <3>2. exec[o] + thread.gap.cjsl \in Nat
      BY <2>2 DEF TypeOK
    <3> QED  BY <3>1, <3>2 DEF TypeOK
  <2>4. ended' \in [Order -> {"new", "open", "MatchAll", "CancelMatch", "ErrorMatch", "dropped"}]
    BY <1>6 DEF Match_CancelRest, End, TypeOK
  <2> QED  BY <1>6, <2>1, <2>3, <2>4 DEF Match_CancelRest, quotes, TypeOK
<1>7. CASE Match_Trade
  <2> DEFINE gap == thread.gap
             n == Min({a, gap.cjsl})
             x == <<o.circle, QtyField(o.policy, o.side), gap.hqsj>>
  <2>0. At("match") /\ Result \in {"MatchAll", "MatchPart"} /\ thread.pc # "get"
    BY <1>7 DEF Match_Trade, At
  <2>1. o \in Order /\ a \in Nat \ {0} /\ gap \in Gap
    BY <1>0, <2>0, HandTyped DEF At
  <2>2. /\ n \in Nat \ {0} /\ n * AveragePrice(gap) \in Nat
        /\ LeftOver(n) \in [cjsl : Nat, cjje : Nat]
        /\ OpenAfter(n) \in Nat \ {0}
    <3>1. /\ n \in Nat \ {0} /\ n * AveragePrice(gap) \in Nat
          /\ LeftOver(n) \in [cjsl : Nat, cjje : Nat]
          /\ Result # "MatchAll" => n < a
      BY <2>0, TradeOf
    <3> HIDE DEF n
    <3> QED  BY <2>1, <3>1 DEF OpenAfter
  <2>3. [pc |-> "set", order |-> o, leaves |-> OpenAfter(n),
         res |-> Result, rest |-> LeftOver(n), hqsj |-> gap.hqsj] \in Setting
    <3>1. gap.hqsj \in Nat
      BY <2>1 DEF Gap
    <3> HIDE DEF n, gap, o
    <3> QED  BY <2>0, <2>1, <2>2, <3>1 DEF Setting
  <2>4. thread' \in {FreeThread} \cup Matching \cup Setting
    BY <1>2, <1>7, <2>3 DEF Match_Trade
  <2>5. exec' \in [Order -> Nat] /\ reported' \in [Order -> Nat]
    <3>1. exec' = [exec EXCEPT ![o] = @ + n] /\ reported' = [reported EXCEPT ![o] = @ + n]
      BY <1>7 DEF Match_Trade, Booked
    <3> HIDE DEF n, o
    <3>2. exec[o] + n \in Nat /\ reported[o] + n \in Nat
      BY <2>1, <2>2 DEF TypeOK
    <3> QED  BY <3>1, <3>2 DEF TypeOK
  <2>6. used' \in [Circle \X OfferField \X Time -> [qty : Nat, value : Nat]]
    <3>1. used' = [used EXCEPT ![x] = [qty |-> @.qty + n, value |-> @.value + n * AveragePrice(gap)]]
      BY <1>7 DEF Match_Trade
    <3> DEFINE m == n * AveragePrice(gap)
    <3>2. used' = [used EXCEPT ![x] = [qty |-> used[x].qty + n, value |-> used[x].value + m]]
      BY <3>1
    <3>3. n \in Nat /\ m \in Nat
      BY <2>2
    <3> HIDE DEF n, m, x
    <3>4. ASSUME x \in Circle \X OfferField \X Time
          PROVE  [qty |-> used[x].qty + n, value |-> used[x].value + m] \in [qty : Nat, value : Nat]
      BY <3>3, <3>4 DEF TypeOK
    <3> QED  BY <3>2, <3>4 DEF TypeOK
  <2> QED  BY <1>7, <2>4, <2>5, <2>6 DEF Match_Trade, quotes, TypeOK
<1>8. CASE Quot_Set
  <2>0. thread.pc # "get" /\ thread.pc = "set" /\ thread.rest \in [cjsl : Nat, cjje : Nat]
        /\ thread.hqsj \in Nat /\ o \in Order /\ a \in Nat \ {0}
    BY <1>0, <1>8, HandTyped DEF Quot_Set, At
  <2>1. thread' \in {FreeThread} \cup Matching \cup Setting
    BY <1>2, <1>8 DEF Quot_Set
  <2>2. que' \in Seq(Waiting)
    <3>1. UNCHANGED que \/ Queued(o, a)
      BY <1>8 DEF Quot_Set
    <3> QED  BY <2>0, <3>1, QueuedTyped DEF TypeOK
  <2>3. ended' \in [Order -> {"new", "open", "MatchAll", "CancelMatch", "ErrorMatch", "dropped"}]
    BY <1>8 DEF Quot_Set, End, TypeOK
  <2>4. circle' \in [Circle -> [Field -> Nat \cup {Nothing}]]
    <3>1. UNCHANGED circle \/ SetCurrQuotGapByCircle(o, thread.rest.cjsl, thread.rest.cjje, thread.hqsj)
      BY <1>8 DEF Quot_Set
    <3> DEFINE qty == QtyField(g_Quotation_Type, o.side)
               value == ValueField(g_Quotation_Type, o.side)
               cjsl == thread.rest.cjsl
               cjje == thread.rest.cjje
               v == CASE g_Quotation_Type = "AveragePrice" -> cjje
                      [] g_Quotation_Type # "AveragePrice" /\ cjsl # 0 -> cjje \div cjsl
                      [] OTHER -> 0
    <3>2. cjsl \in Nat /\ cjje \in Nat
      BY <2>0
    <3>3. v \in Nat
      <4> HIDE DEF cjsl, cjje
      <4> QED  BY <3>2
    <3>4. SetCurrQuotGapByCircle(o, cjsl, cjje, thread.hqsj) =>
            circle' = [circle EXCEPT ![o.circle] =
                         [@ EXCEPT ![qty] = cjsl, ![value] = v, !.OrigTime = thread.hqsj]]
      BY Zenon DEF SetCurrQuotGapByCircle
    <3> HIDE DEF qty, value, cjsl, cjje, v
    <3>5. circle[o.circle] \in [Field -> Nat \cup {Nothing}]
      BY <2>0, OrderFields DEF TypeOK
    <3>6. [circle[o.circle] EXCEPT ![qty] = cjsl, ![value] = v, !.OrigTime = thread.hqsj]
            \in [Field -> Nat \cup {Nothing}]
      BY <2>0, <3>2, <3>3, <3>5
    <3>7. CASE SetCurrQuotGapByCircle(o, cjsl, cjje, thread.hqsj)
      <4>1. circle' = [circle EXCEPT ![o.circle] =
              [circle[o.circle] EXCEPT ![qty] = cjsl, ![value] = v, !.OrigTime = thread.hqsj]]
        BY <3>4, <3>7
      <4> QED  BY <3>6, <4>1 DEF TypeOK
    <3> QED  BY <3>1, <3>7 DEF TypeOK, cjsl, cjje
  <2> QED  BY <1>8, <2>1, <2>2, <2>3, <2>4 DEF Quot_Set, quotes, TypeOK
<1> QED  BY <1>3, <1>4, <1>5, <1>6, <1>7, <1>8 DEF ABStockEnableQuoMatch

LEMMA StepTyped == TypeOK /\ [Next]_vars => TypeOK'
<1>1. TypeOK /\ UNCHANGED vars => TypeOK'
  BY DEF TypeOK, vars, quotes, results
<1> QED  BY <1>1, QuotationTyped, ArriveTyped, ThreadTyped DEF Next

-----------------------------------------------------------------------------
(* The orders, step by step.                                               *)

\* A step about one order.
LEMMA OneOrder ==
    ASSUME OrderInv, TypeOK', NEW o \in Order,
           \A p \in Order \ {o} : exec'[p] = exec[p] /\ ended'[p] = ended[p],
           QueInv', HandInv', EndInv(o)'
    PROVE  OrderInv'
<1>1. ASSUME NEW p \in Order PROVE EndInv(p)'
  <2>1. CASE p = o
    BY <2>1
  <2>2. CASE p # o
    BY <2>2 DEF OrderInv, EndInv
  <2> QED  BY <2>1, <2>2
<1> QED  BY <1>1 DEF OrderInv

\* A task put back or added, when its order is neither waiting nor in hands
\* afterwards.
LEMMA QueueGets ==
    ASSUME TypeOK, QueInv, NEW o \in Order, NEW n \in Nat \ {0},
           \A i \in 1..Len(que) : que[i].order # o,
           que' = Append(que, [order |-> o, leaves |-> n]),
           Open(o, n)',
           \A p \in Order \ {o} : exec'[p] = exec[p] /\ ended'[p] = ended[p]
    PROVE  QueInv'
<1> DEFINE t == [order |-> o, leaves |-> n]
<1>r. PICK r \in Seq(Waiting) : r = que
  BY QueTyped
<1>q. PICK q : q = que'
  OBVIOUS
<1>0. r = que /\ q = que'
  BY <1>r, <1>q
<1>1. t \in Waiting /\ Len(r) \in Nat
  BY DEF Waiting
<1>2. Len(q) = Len(r) + 1 /\ q[Len(r) + 1] = t /\ \A i \in 1..Len(r) : q[i] = r[i]
  BY <1>0, <1>1
<1>3. \A i \in 1..Len(r) : r[i].order \in Order \ {o}
  BY <1>0, QueTyped
<1>4. \A i \in 1..Len(r) : Open(r[i].order, r[i].leaves)'
  BY <1>0, <1>3 DEF QueInv, Open
<1>5. \A i \in 1..Len(r) : \A j \in 1..Len(r) : r[i].order = r[j].order => i = j
  BY <1>0 DEF QueInv
<1>6. t.order = o /\ t.leaves = n
  OBVIOUS
<1> HIDE DEF t
<1>7. ASSUME NEW i \in 1..Len(q)
      PROVE  /\ Open(q[i].order, q[i].leaves)'
             /\ \A j \in 1..Len(q) : q[i].order = q[j].order => i = j
  <2>1. CASE i = Len(r) + 1
    <3>1. q[i].order = o /\ q[i].leaves = n
      BY <1>2, <1>6, <2>1
    <3>2. \A j \in 1..Len(q) : q[i].order = q[j].order => i = j
      BY <1>1, <1>2, <1>3, <2>1, <3>1
    <3> QED  BY <3>1, <3>2
  <2>2. CASE i # Len(r) + 1
    <3>1. i \in 1..Len(r) /\ q[i] = r[i] /\ r[i].order \in Order \ {o}
      BY <1>1, <1>2, <1>3, <2>2
    <3>2. ASSUME NEW j \in 1..Len(q), q[i].order = q[j].order PROVE i = j
      <4>1. CASE j = Len(r) + 1
        BY <1>2, <1>6, <3>1, <3>2, <4>1
      <4>2. CASE j # Len(r) + 1
        <5>1. j \in 1..Len(r) /\ q[j] = r[j]
          BY <1>1, <1>2, <4>2
        <5> QED  BY <1>5, <3>1, <3>2, <5>1
      <4> QED  BY <4>1, <4>2
    <3>3. Open(q[i].order, q[i].leaves)'
      BY <1>1, <1>2, <1>4, <3>1
    <3> QED  BY <1>5, <3>1, <3>2, <3>3
  <2> QED  BY <2>1, <2>2
<1> QED  BY <1>0, <1>7 DEF QueInv, Open

\* The first task leaves the queue; the others stay, and are of other orders.
LEMMA QueueLoses ==
    ASSUME TypeOK, QueInv, que # <<>>, NEW q, q = Tail(que)
    PROVE  /\ q \in Seq(Waiting) /\ Len(q) \in Nat
           /\ \A i \in 1..Len(q) :
                /\ q[i].order # Head(que).order
                /\ Open(q[i].order, q[i].leaves)
                /\ \A j \in 1..Len(q) : q[i].order = q[j].order => i = j
           /\ Head(que).order \in Order /\ Head(que).leaves \in Nat \ {0}
           /\ Open(Head(que).order, Head(que).leaves)
<1> DEFINE r == que
<1>1. r \in Seq(Waiting) /\ Len(r) \in Nat \ {0} /\ Head(r) = r[1] /\ Head(r) \in Waiting
  BY QueTyped
<1>2. Len(q) = Len(r) - 1 /\ q \in Seq(Waiting) /\ \A i \in 1..Len(q) : q[i] = r[i + 1]
  BY <1>1
<1>3. \A i \in 1..Len(r) : /\ Open(r[i].order, r[i].leaves)
                           /\ \A j \in 1..Len(r) : r[i].order = r[j].order => i = j
  BY DEF QueInv
<1>4. Head(r).order \in Order /\ Head(r).leaves \in Nat \ {0}
  BY <1>1 DEF Waiting
<1> HIDE DEF r
<1>5. ASSUME NEW i \in 1..Len(q)
      PROVE  /\ q[i].order # Head(r).order
             /\ Open(q[i].order, q[i].leaves)
             /\ \A j \in 1..Len(q) : q[i].order = q[j].order => i = j
  <2>1. i + 1 \in 1..Len(r) /\ q[i] = r[i + 1] /\ 1 \in 1..Len(r) /\ i + 1 # 1
    BY <1>1, <1>2
  <2>2. q[i].order # Head(r).order
    BY <1>1, <1>3, <2>1
  <2>3. ASSUME NEW j \in 1..Len(q), q[i].order = q[j].order PROVE i = j
    <3>1. j + 1 \in 1..Len(r) /\ q[j] = r[j + 1]
      BY <1>1, <1>2
    <3>2. i + 1 = j + 1
      BY <1>3, <2>1, <2>3, <3>1
    <3> QED  BY <3>2
  <2> QED  BY <1>3, <2>1, <2>2, <2>3
<1>6. 1 \in 1..Len(r)
  BY <1>1
<1> QED  BY <1>1, <1>2, <1>3, <1>4, <1>5, <1>6 DEF r

LEMMA OrderInit == Init => OrderInv
<1> SUFFICES ASSUME Init PROVE OrderInv
  OBVIOUS
<1>1. que = <<>> /\ thread.pc = "get"
  BY DEF Init, FreeThread
<1>2. \A o \in Order : exec[o] = 0 /\ ended[o] = "new" /\ o.qty \in Nat
  BY OrderFields DEF Init
<1>3. QueInv /\ HandInv
  BY <1>1 DEF QueInv, HandInv
<1>4. \A o \in Order : EndInv(o)
  BY <1>2 DEF EndInv
<1> QED  BY <1>3, <1>4, InitTyped DEF OrderInv

\* An order comes once, and has not traded before.
LEMMA OrderArrives ==
    ASSUME OrderInv, TypeOK', NEW o \in Order, Arrive(o)
    PROVE  OrderInv'
<1>1. o.qty \in Nat \ {0}
  BY OrderFields
<1>2. /\ ended[o] = "new" /\ exec[o] = 0
      /\ que' = Append(que, [order |-> o, leaves |-> o.qty])
      /\ ended' = [ended EXCEPT ![o] = "open"] /\ UNCHANGED <<thread, exec>>
  BY DEF Arrive, Queued, OrderInv, EndInv
<1>3. /\ \A i \in 1..Len(que) : que[i].order # o
      /\ thread.pc # "get" => thread.order # o
  BY <1>2 DEF OrderInv, QueInv, HandInv, Open
<1>4. que \in Seq(Waiting) /\ ended \in [Order -> {"new", "open", "MatchAll", "CancelMatch", "ErrorMatch", "dropped"}] /\ exec \in [Order -> Nat]
  BY DEF OrderInv, TypeOK
<1>5. /\ que' = Append(que, [order |-> o, leaves |-> o.qty])
      /\ \A p \in Order \ {o} : exec'[p] = exec[p] /\ ended'[p] = ended[p]
      /\ ended'[o] = "open" /\ exec'[o] = 0
  BY <1>1, <1>2, <1>4
<1>6. TypeOK /\ QueInv /\ HandInv
  BY <1>1 DEF OrderInv
<1>7. QueInv'
  <2>1. Open(o, o.qty)'
    BY <1>1, <1>5 DEF Open
  <2> QED  BY <1>1, <1>3, <1>5, <1>6, <2>1, QueueGets
<1>8. HandInv'
  <2> SUFFICES ASSUME thread'.pc # "get"
               PROVE  /\ \A i \in 1..Len(que') : que'[i].order # thread'.order
                      /\ IF thread'.pc = "set" /\ thread'.res = "MatchAll"
                         THEN Open(thread.order, 0)' ELSE Open(thread.order, thread.leaves)'
    BY DEF HandInv, Open
  <2>1. thread' = thread /\ thread.order # o /\ thread.order \in Order
    BY <1>1, <1>2, <1>3, <1>6, HandTyped
  <2>2. \A i \in 1..Len(que') : que'[i].order # thread.order
    <3>1. que \in Seq(Waiting)
      BY <1>1, <1>4
    <3>2. PICK r \in Seq(Waiting), t \in Waiting : r = que /\ t = [order |-> o, leaves |-> o.qty]
      BY <1>1, <3>1 DEF Waiting
    <3>3. t \in Waiting /\ t.order = o
      BY <1>1, <3>2 DEF Waiting
    <3>4. Len(Append(r, t)) = Len(r) + 1 /\ Append(r, t)[Len(r) + 1] = t /\ Len(r) \in Nat
          /\ \A i \in 1..Len(r) : Append(r, t)[i] = r[i]
      BY <3>3
    <3>5. \A i \in 1..Len(Append(r, t)) : i = Len(r) + 1 \/ i \in 1..Len(r)
      BY <3>4
    <3>6. que' = Append(r, t)
      BY <1>5, <3>2
    <3>7. ASSUME NEW i \in 1..Len(que') PROVE que'[i].order # thread.order
      <4>1. CASE i = Len(r) + 1
        BY <2>1, <3>3, <3>4, <3>6, <4>1
      <4>2. CASE i \in 1..Len(r)
        BY <1>6, <2>1, <3>2, <3>4, <3>6, <4>2 DEF HandInv
      <4> QED  BY <3>5, <3>6, <4>1, <4>2
    <3> QED  BY <3>7
  <2> QED  BY <1>5, <1>6, <2>1, <2>2 DEF HandInv, Open
<1>9. EndInv(o)'
  BY <1>1, <1>5 DEF EndInv
<1> QED  BY <1>1, <1>5, <1>7, <1>8, <1>9, OneOrder

\* A task is taken from the queue, or goes to its end.
LEMMA OrderTaken ==
    ASSUME OrderInv, TypeOK', Quot_Get
    PROVE  OrderInv'
<1>1. TypeOK /\ QueInv /\ HandInv /\ thread.pc = "get" /\ que # <<>>
  BY DEF OrderInv, Quot_Get, At
<1>0. PICK t \in Waiting, q \in Seq(Waiting) : t = Head(que) /\ q = Tail(que)
  BY <1>1, QueTyped
<1> DEFINE o == t.order
<1>2. UNCHANGED <<exec, ended>>
  BY DEF Quot_Get, results
<1>3. /\ q \in Seq(Waiting) /\ Len(q) \in Nat
      /\ \A i \in 1..Len(q) :
           /\ q[i].order # o
           /\ Open(q[i].order, q[i].leaves)
           /\ \A j \in 1..Len(q) : q[i].order = q[j].order => i = j
      /\ o \in Order /\ t.leaves \in Nat \ {0} /\ Open(o, t.leaves)
  BY <1>0, <1>1, QueueLoses
<1>4. que \in Seq(Waiting) /\ thread \in {FreeThread} \cup Matching \cup Setting
  BY <1>1 DEF TypeOK
<1>5. EndInv(o)'
  BY <1>2, <1>3 DEF OrderInv, EndInv
<1>6. CASE /\ que' = Tail(que)
           /\ \E g : thread' =
                  [pc |-> "match", order |-> o, leaves |-> t.leaves, gap |-> g]
  <2>1. que' = q
    BY <1>0, <1>4, <1>6
  <2>2. thread'.pc = "match" /\ thread'.order = o /\ thread'.leaves = t.leaves
    BY <1>4, <1>6
  <2>3. QueInv'
    BY <1>2, <1>3, <2>1 DEF QueInv, Open
  <2>4. HandInv'
    BY <1>2, <1>3, <2>1, <2>2 DEF HandInv, Open
  <2> QED  BY <1>2, <1>3, <1>5, <2>1, <2>3, <2>4, OneOrder
<1>7. CASE que' = Append(Tail(que), t) /\ UNCHANGED thread
  <2>1. que' = Append(q, t)
    BY <1>0, <1>4, <1>7
  <2>2. t \in Waiting
    OBVIOUS
  <2>3. /\ Len(Append(q, t)) = Len(q) + 1 /\ Append(q, t)[Len(q) + 1] = t
        /\ \A i \in 1..Len(q) : Append(q, t)[i] = q[i]
    BY <1>3, <2>2
  <2> DEFINE r == Append(q, t)
  <2> HIDE DEF r, o
  <2>4. ASSUME NEW i \in 1..Len(r)
        PROVE  /\ Open(r[i].order, r[i].leaves)
               /\ \A j \in 1..Len(r) : r[i].order = r[j].order => i = j
    <3>1. Open(r[i].order, r[i].leaves)
      <4>1. i = Len(q) + 1 \/ i \in 1..Len(q)
        BY <1>3, <2>3 DEF r
      <4> QED  BY <1>3, <2>3, <4>1 DEF r, o
    <3>2. ASSUME NEW j \in 1..Len(r), r[i].order = r[j].order PROVE i = j
      <4>1. (i = Len(q) + 1 \/ i \in 1..Len(q)) /\ (j = Len(q) + 1 \/ j \in 1..Len(q))
        BY <1>3, <2>3 DEF r
      <4>2. \A k \in 1..Len(q) : r[k].order # o /\ r[k] = q[k]
        BY <1>3, <2>3 DEF r
      <4>3. r[Len(q) + 1].order = o
        BY <2>3 DEF r, o
      <4> QED  BY <1>3, <3>2, <4>1, <4>2, <4>3
    <3> QED  BY <3>1, <3>2
  <2>5. QueInv'
    BY <1>2, <2>1, <2>4 DEF QueInv, Open, r
  <2>6. HandInv'
    BY <1>1, <1>7 DEF HandInv
  <2> QED  BY <1>2, <1>3, <1>5, <2>1, <2>5, <2>6, OneOrder
<1> QED  BY <1>0, <1>6, <1>7 DEF Quot_Get

\* The thread's order ends.
LEMMA OrderEnds ==
    ASSUME OrderInv, TypeOK', thread.pc # "get",
           que' = que, thread' = FreeThread,
           \A p \in Order \ {thread.order} : exec'[p] = exec[p] /\ ended'[p] = ended[p],
           NEW o \in Order, o = thread.order, EndInv(o)'
    PROVE  OrderInv'
<1>1. TypeOK /\ QueInv /\ HandInv /\ thread \in {FreeThread} \cup Matching \cup Setting
  BY DEF OrderInv, TypeOK
<1>2. \A i \in 1..Len(que) : que[i].order # o
  BY <1>1 DEF HandInv
<1>3. thread'.pc = "get"
  BY <1>1 DEF FreeThread
<1>4. HandInv'
  BY <1>3 DEF HandInv
<1>5. QueInv'
  <2>1. \A i \in 1..Len(que) : que[i].order \in Order
    BY <1>1, QueTyped
  <2> QED  BY <1>1, <1>2, <2>1 DEF QueInv, Open
<1> QED  BY <1>2, <1>3, <1>4, <1>5, OneOrder

\* Each outcome of a match leaves as many shares open as were not booked.
LEMMA OrderMatched ==
    ASSUME OrderInv, TypeOK',
           \/ Match_Error \/ Match_NotMatch \/ Match_CancelRest \/ Match_Trade
    PROVE  OrderInv'
<1>0. TypeOK /\ QueInv /\ HandInv /\ thread.pc = "match" /\ At("match")
  BY DEF OrderInv, Match_Error, Match_NotMatch, Match_CancelRest, Match_Trade, At
<1>1. PICK o \in Order, a \in Nat \ {0} : o = thread.order /\ a = thread.leaves
  BY <1>0, HandTyped
<1> USE <1>0
<1>2. /\ \A i \in 1..Len(que) : que[i].order # o
      /\ Open(o, a)
  BY <1>1 DEF HandInv
<1>3. /\ que \in Seq(Waiting) /\ thread \in {FreeThread} \cup Matching \cup Setting
      /\ exec \in [Order -> Nat] /\ o.qty \in Nat \ {0}
      /\ ended \in [Order -> {"new", "open", "MatchAll", "CancelMatch", "ErrorMatch", "dropped"}]
  BY <1>1, OrderFields DEF TypeOK
<1>4. \A i \in 1..Len(que) : que[i].order \in Order
  BY <1>1, QueTyped
<1>5. ASSUME que' = que, thread' = FreeThread,
             \A p \in Order \ {o} : exec'[p] = exec[p] /\ ended'[p] = ended[p], EndInv(o)'
      PROVE  OrderInv'
  BY <1>1, <1>5, OrderEnds
<1>6. CASE Match_Error
  <2>1. /\ que' = que /\ thread' = FreeThread /\ exec' = exec
        /\ ended' = [ended EXCEPT ![o] = "ErrorMatch"]
    BY <1>1, <1>6 DEF Match_Error, End
  <2>2. ended'[o] = "ErrorMatch" /\ \A p \in Order \ {o} : exec'[p] = exec[p] /\ ended'[p] = ended[p]
    BY <1>1, <1>3, <2>1
  <2>3. EndInv(o)'
    BY <1>1, <2>1, <2>2 DEF OrderInv, EndInv
  <2> QED  BY <1>5, <2>1, <2>2, <2>3
<1>7. CASE Match_NotMatch
  <2>1. /\ que' = Append(que, [order |-> o, leaves |-> a])
        /\ thread' = FreeThread /\ UNCHANGED <<exec, ended>>
    BY <1>1, <1>7 DEF Match_NotMatch, Queued, results
  <2>2. /\ que' = Append(que, [order |-> o, leaves |-> a]) /\ thread'.pc = "get"
    BY <1>3, <2>1 DEF FreeThread
  <2>3. HandInv'
    BY <2>2 DEF HandInv
  <2>4. QueInv'
    <3>1. Open(o, a)'
      BY <1>2, <2>1 DEF Open
    <3> QED  BY <1>1, <1>2, <2>1, <2>2, <3>1, QueueGets
  <2>5. EndInv(o)'
    BY <1>1, <2>1 DEF OrderInv, EndInv
  <2> QED  BY <1>1, <1>2, <2>1, <2>2, <2>3, <2>4, <2>5, OneOrder
<1>8. CASE Match_CancelRest
  <2>0. PICK n : n = thread.gap.cjsl
    OBVIOUS
  <2>1. n \in Nat /\ n < a
    <3>1. n = Min({a, n}) /\ Min({a, n}) < a /\ n \in Nat
      BY <1>1, <1>8, <2>0, TradeOf DEF Match_CancelRest
    <3> QED  BY <3>1
  <2>2. /\ que' = que /\ thread' = FreeThread /\ exec' = [exec EXCEPT ![o] = @ + n]
        /\ ended' = [ended EXCEPT ![o] = "CancelMatch"]
    BY <1>1, <1>8, <2>0 DEF Match_CancelRest, End, Booked
  <2>3. /\ ended'[o] = "CancelMatch" /\ exec'[o] = exec[o] + n
        /\ \A p \in Order \ {o} : exec'[p] = exec[p] /\ ended'[p] = ended[p]
    BY <1>1, <1>3, <2>2
  <2>4. EndInv(o)'
    BY <1>1, <1>2, <1>3, <2>1, <2>3 DEF EndInv, Open
  <2> QED  BY <1>5, <2>2, <2>3, <2>4
<1>9. CASE Match_Trade
  <2>0. Result \in {"MatchAll", "MatchPart"}
    BY <1>9 DEF Match_Trade
  <2>a. PICK n, res, left : /\ n = Min({a, thread.gap.cjsl}) /\ res = Result
                           /\ left = OpenAfter(n)
    OBVIOUS
  <2>1. n \in Nat /\ IF res = "MatchAll" THEN n = a ELSE n < a
    BY <1>1, <2>0, <2>a, TradeOf
  <2>2. /\ que' = que /\ exec' = [exec EXCEPT ![o] = @ + n] /\ ended' = ended
        /\ thread' =
              [pc |-> "set", order |-> o, leaves |-> left,
               res |-> res, rest |-> LeftOver(n), hqsj |-> thread.gap.hqsj]
    BY <1>1, <1>9, <2>a DEF Match_Trade, Booked
  <2>3. /\ exec'[o] = exec[o] + n
        /\ \A p \in Order \ {o} : exec'[p] = exec[p] /\ ended'[p] = ended[p]
        /\ thread'.pc = "set" /\ thread'.order = o /\ thread'.res = res
        /\ thread'.leaves = left
    BY <1>1, <1>3, <2>2
  <2>4. left = IF res = "MatchAll" THEN a ELSE a - n
    BY <1>1, <2>a DEF OpenAfter
  <2>5. EndInv(o)'
    BY <1>1, <1>2, <1>3, <2>1, <2>2, <2>3 DEF EndInv, Open
  <2>6. QueInv'
    BY <1>1, <1>2, <1>4, <2>2, <2>3 DEF QueInv, Open
  <2>7. IF res = "MatchAll" THEN Open(o, 0)' ELSE Open(o, left)'
    BY <1>1, <1>2, <1>3, <2>1, <2>2, <2>3, <2>4 DEF Open
  <2>8. HandInv'
    BY <1>2, <2>2, <2>3, <2>7 DEF HandInv, Open
  <2> QED  BY <1>1, <1>2, <2>3, <2>5, <2>6, <2>8, OneOrder
<1> QED  BY <1>6, <1>7, <1>8, <1>9

\* With the write of the circle the order ends or goes back with what is open.
LEMMA OrderSet ==
    ASSUME OrderInv, TypeOK', CircleWritten, Quot_Set
    PROVE  OrderInv'
<1>0. TypeOK /\ QueInv /\ HandInv /\ thread.pc = "set"
  BY DEF OrderInv, Quot_Set, At
<1>1. PICK o \in Order, a \in Nat \ {0} : o = thread.order /\ a = thread.leaves
  BY <1>0, HandTyped
<1>r. PICK res \in {"MatchAll", "MatchPart"} : res = thread.res
  BY <1>0, HandTyped
<1>2. /\ \A i \in 1..Len(que) : que[i].order # o
      /\ IF res = "MatchAll" THEN Open(o, 0) ELSE Open(o, a)
  BY <1>0, <1>1, <1>r DEF HandInv
<1>3. /\ que \in Seq(Waiting) /\ thread \in {FreeThread} \cup Matching \cup Setting
      /\ exec \in [Order -> Nat] /\ o.qty \in Nat \ {0}
      /\ ended \in [Order -> {"new", "open", "MatchAll", "CancelMatch", "ErrorMatch", "dropped"}]
  BY <1>0, <1>1, OrderFields DEF TypeOK
<1>4. /\ thread' = FreeThread /\ exec' = exec
      /\ \/ res = "MatchAll" /\ que' = que /\ ended' = [ended EXCEPT ![o] = "MatchAll"]
         \/ res = "MatchPart" /\ que' = que /\ ended' = [ended EXCEPT ![o] = "dropped"]
         \/ /\ res = "MatchPart" /\ ended' = ended
            /\ que' = Append(que, [order |-> o, leaves |-> a])
  BY <1>1, <1>r DEF Quot_Set, Succeeds, CircleWritten, End, Queued
<1>5. CASE res = "MatchAll" /\ que' = que /\ ended' = [ended EXCEPT ![o] = "MatchAll"]
  <2>1. ended'[o] = "MatchAll" /\ \A p \in Order \ {o} : exec'[p] = exec[p] /\ ended'[p] = ended[p]
    BY <1>1, <1>3, <1>4, <1>5
  <2>2. EndInv(o)'
    BY <1>1, <1>2, <1>3, <1>4, <1>5, <2>1 DEF EndInv, Open
  <2> QED  BY <1>0, <1>1, <1>4, <1>5, <2>1, <2>2, OrderEnds
<1>6. CASE res = "MatchPart" /\ que' = que /\ ended' = [ended EXCEPT ![o] = "dropped"]
  <2>1. ended'[o] = "dropped" /\ \A p \in Order \ {o} : exec'[p] = exec[p] /\ ended'[p] = ended[p]
    BY <1>1, <1>3, <1>4, <1>6
  <2>2. EndInv(o)'
    BY <1>1, <1>2, <1>3, <1>4, <1>6, <2>1 DEF EndInv, Open
  <2> QED  BY <1>0, <1>1, <1>4, <1>6, <2>1, <2>2, OrderEnds
<1>7. CASE /\ res = "MatchPart" /\ ended' = ended
           /\ que' = Append(que, [order |-> o, leaves |-> a])
  <2>1. /\ que' = Append(que, [order |-> o, leaves |-> a]) /\ thread'.pc = "get"
    BY <1>3, <1>4, <1>7 DEF FreeThread
  <2>2. HandInv'
    BY <2>1 DEF HandInv
  <2>3. QueInv'
    <3>1. Open(o, a)'
      BY <1>2, <1>4, <1>7 DEF Open
    <3> QED  BY <1>0, <1>1, <1>2, <1>4, <1>7, <2>1, <3>1, QueueGets
  <2>4. EndInv(o)'
    BY <1>1, <1>4, <1>7 DEF OrderInv, EndInv
  <2> QED  BY <1>1, <1>2, <1>4, <1>7, <2>1, <2>2, <2>3, <2>4, OneOrder
<1> QED  BY <1>4, <1>5, <1>6, <1>7

\* Each step keeps the invariant of the orders.
LEMMA OrderStep == OrderInv /\ CircleWritten /\ [Next]_vars => OrderInv'
<1> SUFFICES ASSUME OrderInv, CircleWritten, [Next]_vars PROVE OrderInv'
  OBVIOUS
<1>0. TypeOK'
  BY StepTyped DEF OrderInv
<1>1. ASSUME UNCHANGED <<que, thread, exec, ended>> PROVE OrderInv'
  BY <1>0, <1>1 DEF OrderInv, QueInv, HandInv, EndInv, Open
<1>2. CASE QuotationStep
  <2>1. UNCHANGED <<que, thread, exec, ended>>
    BY <1>2 DEF QuotationStep, ReadRealMarketInfo, Store_Quotation, Store_Volume, results
  <2> QED  BY <1>1, <2>1
<1>3. CASE UNCHANGED vars
  BY <1>1, <1>3 DEF vars, results
<1>4. CASE \E o \in Order : Arrive(o)
  BY <1>0, <1>4, OrderArrives
<1>5. CASE ABStockEnableQuoMatch
  BY <1>0, <1>5, OrderTaken, OrderMatched, OrderSet DEF ABStockEnableQuoMatch
<1> QED  BY <1>2, <1>3, <1>4, <1>5 DEF Next

\* The types of the program's state.
THEOREM QuotTypeCorrect == Spec => []TypeOK
BY InitTyped, StepTyped, PTL DEF Spec

\* What waits, what is in a thread's hands and what has ended of each order add
\* up, whatever the quotations, the queues and the failed reads.
THEOREM QuotOrderInvariant ==
    ASSUME CircleWritten
    PROVE  Spec => []OrderInv
<1>1. OrderInv /\ [Next]_vars => OrderInv'
  BY OrderStep
<1> QED  BY <1>1, OrderInit, PTL DEF Spec

\* No order trades more than its quantity, and what waits is what it has not
\* traded (Match_Ordinary_Limit, Quot_MatchOrder, GenTask_Match), if no write of
\* a circle's rest fails.
THEOREM QuotQtyExact ==
    ASSUME CircleWritten
    PROVE  Spec => []QtyExact
<1>1. OrderInv => QtyExact
  BY DEF OrderInv, QueInv, EndInv, Open, QtyExact
<1> QED  BY <1>1, QuotOrderInvariant, PTL

-----------------------------------------------------------------------------
(* The quotations, step by step.                                           *)

\* What is offered is a number of shares.
LEMMA VolumesNat ==
    ASSUME TypeOK, IsFiniteSet(Known)
    PROVE  Volumes \in Nat /\ \A t \in Known : t \in Time /\ offered[t] \in Quotation /\ offered[t].CJSL \in Nat
<1> DEFINE f == [t \in Known |-> offered[t].CJSL]
<1>1. \A t \in Known : t \in Time /\ offered[t] \in Quotation /\ offered[t].CJSL \in Nat
  BY DEF TypeOK, Known, Quotation
<1>2. \A t \in Known : f[t] \in Nat
  BY <1>1
<1>3. DOMAIN f = Known
  OBVIOUS
<1> HIDE DEF f
<1>4. SumFunctionOnSet(f, Known) \in Nat
  BY <1>2, SumNat
<1> QED  BY <1>1, <1>3, <1>4 DEF Volumes, SumFunction, f

\* One more offer adds its volume.
LEMMA VolumesGrow ==
    ASSUME TypeOK, IsFiniteSet(Known), NEW t \in Time \ Known, NEW offer \in Quotation,
           offered' = [offered EXCEPT ![t] = offer]
    PROVE  /\ Known' = Known \cup {t} /\ IsFiniteSet(Known)' /\ offered'[t] = offer
           /\ Volumes' = Volumes + offer.CJSL
<1> DEFINE f == [x \in Known |-> offered[x].CJSL]
           g == [x \in Known \cup {t} |-> offered'[x].CJSL]
<1>1. offered \in [Time -> Quotation \cup {Nothing}] /\ offer # Nothing /\ offer.CJSL \in Nat
  BY FeedAssumption DEF TypeOK, Quotation
<1>2. offered'[t] = offer /\ \A x \in Time \ {t} : offered'[x] = offered[x]
  BY <1>1
<1>3. Known' = Known \cup {t}
  BY <1>1, <1>2 DEF Known
<1>4. \A x \in Known : x \in Time \ {t} /\ offered[x].CJSL \in Nat
  BY VolumesNat
<1>5. /\ \A x \in Known : f[x] = g[x] /\ f[x] \in Nat
      /\ g[t] = offer.CJSL /\ DOMAIN f = Known /\ DOMAIN g = Known \cup {t}
  BY <1>2, <1>4
<1>6. Volumes' = SumFunctionOnSet(g, Known \cup {t}) /\ Volumes = SumFunctionOnSet(f, Known)
  <2>1. Volumes' = SumFunction(g)
    BY <1>3 DEF Volumes
  <2>2. Volumes = SumFunction(f)
    BY DEF Volumes
  <2> HIDE DEF f, g
  <2> QED  BY <1>5, <2>1, <2>2 DEF SumFunction
<1> HIDE DEF f, g
<1>7. \A x \in Known \cup {t} : g[x] \in Int
  BY <1>1, <1>5
<1>8. SumFunctionOnSet(g, Known \cup {t}) = g[t] + SumFunctionOnSet(g, Known)
  BY <1>7, SumAdd
<1>9. SumFunctionOnSet(f, Known) = SumFunctionOnSet(g, Known)
  BY <1>5, SumSame
<1>10. Volumes \in Nat
  BY VolumesNat
<1>11. IsFiniteSet(Known)'
  BY <1>3, FS_AddElement
<1> QED  BY <1>1, <1>2, <1>3, <1>5, <1>6, <1>8, <1>9, <1>10, <1>11

LEMMA OfferInit == Init => OfferInv
<1> SUFFICES ASSUME Init PROVE OfferInv
  OBVIOUS
<1>1. Known = {} /\ live = Nothing /\ proc.pc = "pop" /\ quotation = Nothing
  BY DEF Init, Known
<1>2. IsFiniteSet(Known)
  BY <1>1, FS_EmptySet
<1>3. Volumes = 0
  <2> DEFINE f == [t \in Known |-> offered[t].CJSL]
  <2>1. DOMAIN f = {} /\ Volumes = SumFunction(f)
    BY <1>1 DEF Volumes
  <2> HIDE DEF f
  <2> QED  BY <2>1, SumEmpty DEF SumFunction
<1>4. TakenInv
  BY <1>1 DEF TakenInv
<1>5. KnownInv
  BY <1>1, <1>2, <1>3 DEF KnownInv, Traded
<1>6. TimesInv
  <2>1. \A c \in Circle : circle[c].OrigTime = Nothing
    BY DEF Init, Field
  <2>2. thread.pc = "get"
    BY DEF Init, FreeThread
  <2> QED  BY <2>1, <2>2 DEF TimesInv
<1> QED  BY <1>4, <1>5, <1>6, InitTyped DEF OfferInv

\* A quotation is taken if it is later and its totals hold what was offered.
LEMMA OfferTaken ==
    ASSUME OfferInv, TypeOK', QuotationRead, ReadRealMarketInfo
    PROVE  OfferInv'
<1>1. PICK q \in Feed : /\ CalcQuotationGap(q, quotation) # Nothing
                        /\ proc' = [pc |-> "store", quot |-> q, gap |-> CalcQuotationGap(q, quotation)]
  BY DEF ReadRealMarketInfo, Succeeds, QuotationRead
<1>2. quotation \in Feed \cup {Nothing}
  BY DEF OfferInv, TypeOK
<1>3. PICK gap : gap = CalcQuotationGap(q, quotation)
  OBVIOUS
<1>4. /\ gap \in Volume
      /\ quotation # Nothing => quotation.OrigTime < q.OrigTime
      /\ \/ gap.CJSL = 0 /\ q.TPBZ # "F"
         \/ gap.CJSL + Traded = q.CJSL
  BY <1>1, <1>2, <1>3, VolumeTyped DEF Traded
<1>5. (TotalsKept => Volumes <= Traded) /\ Volumes \in Nat /\ Traded \in Nat /\ gap.CJSL \in Nat /\ q.CJSL \in Nat
  BY <1>2, <1>4, VolumesNat, FeedFields DEF OfferInv, KnownInv, Traded, Volume
<1>6. TotalsKept /\ gap.CJSL = 0 /\ q.TPBZ # "F" => Traded <= q.CJSL
  BY <1>2, <1>4, <1>5 DEF TotalsKept, Traded
<1>7. TotalsKept => Volumes + gap.CJSL <= q.CJSL
  BY <1>4, <1>5, <1>6
<1>8. UNCHANGED <<quotation, live, offered, circle, thread>>
  BY DEF ReadRealMarketInfo
<1>9. proc'.pc = "store" /\ proc'.quot = q /\ proc'.gap = gap
  BY <1>1, <1>3
<1>10. TakenInv'
  <2>1. Volumes' = Volumes
    BY <1>8 DEF Volumes, Known
  <2> QED  BY <1>4, <1>7, <1>8, <1>9, <2>1 DEF TakenInv
<1>11. KnownInv' /\ TimesInv'
  BY <1>8 DEF OfferInv, KnownInv, TimesInv, Known, Volumes, Traded
<1> QED  BY <1>10, <1>11 DEF OfferInv

\* What the quotation thread has in its hands.
LEMMA ProcTyped ==
    ASSUME TypeOK, proc.pc # "pop"
    PROVE  /\ proc \in [pc : {"store", "offer"}, quot : Feed, gap : Volume]
           /\ proc.quot \in Feed /\ proc.gap.CJSL \in Nat /\ proc.gap.CJJE \in Nat
<1>1. proc \in [pc : {"pop"}] \cup [pc : {"store", "offer"}, quot : Feed, gap : Volume]
  BY DEF TypeOK
<1> QED  BY <1>1 DEF Volume

\* The quotation is kept, before what it offers.
LEMMA OfferKept ==
    ASSUME OfferInv, TypeOK', Store_Quotation
    PROVE  OfferInv'
<1>0. TypeOK /\ TakenInv /\ KnownInv /\ TimesInv /\ proc.pc = "store"
  BY DEF OfferInv, Store_Quotation
<1>1. PICK q \in Feed, n \in Nat : q = proc.quot /\ n = proc.gap.CJSL
  BY <1>0, ProcTyped
<1>2. UNCHANGED <<live, offered, circle, thread>>
  BY DEF Store_Quotation
<1>3. Known' = Known /\ Volumes' = Volumes /\ Volumes \in Nat
  BY <1>0, <1>2, VolumesNat DEF Volumes, Known, KnownInv
<1>4. TimesInv'
  BY <1>0, <1>2 DEF TimesInv
<1>5. CASE quotation' = proc.quot /\ proc' = [proc EXCEPT !.pc = "offer"]
  <2>1. proc'.pc = "offer" /\ proc'.quot = q /\ proc'.gap.CJSL = n /\ quotation' = q /\ q # Nothing
    <3>1. proc \in [pc : {"store", "offer"}, quot : Feed, gap : Volume]
      BY <1>0, ProcTyped
    <3> QED  BY <1>1, <1>5, <3>1, FeedFields
  <2>2. (TotalsKept => Volumes + n <= q.CJSL) /\ (quotation # Nothing => quotation.OrigTime < q.OrigTime)
    BY <1>0, <1>1 DEF TakenInv
  <2>3. q.CJSL \in Nat /\ q.OrigTime \in Nat /\ (quotation # Nothing => quotation.OrigTime \in Nat)
        /\ (live # Nothing => live.OrigTime \in Nat)
    BY <1>0, FeedFields DEF TypeOK, Quotation
  <2>4. \A t \in Known : t < q.OrigTime
    <3>1. \A t \in Known : t \in Nat
      BY TimesAreNat DEF Known
    <3> QED  BY <1>0, <2>2, <2>3, <3>1 DEF KnownInv
  <2>5. TakenInv'
    BY <1>3, <2>1, <2>2, <2>4 DEF TakenInv
  <2>6. KnownInv'
    <3>1. TotalsKept => Volumes' <= Traded'
      BY <1>1, <1>3, <2>1, <2>2, <2>3 DEF Traded
    <3>2. live # Nothing => live.OrigTime <= q.OrigTime
      BY <1>0, <2>2, <2>3 DEF KnownInv
    <3> QED  BY <1>0, <1>2, <1>3, <2>1, <3>1, <3>2 DEF KnownInv
  <2> QED  BY <1>4, <2>5, <2>6 DEF OfferInv
<1>6. CASE proc' = [pc |-> "pop"] /\ UNCHANGED quotation
  BY <1>0, <1>2, <1>3, <1>4, <1>6 DEF OfferInv, TakenInv, KnownInv, Traded
<1> QED  BY <1>5, <1>6 DEF Store_Quotation

\* It is offered once, and what is offered then is later than what was.
LEMMA OfferMade ==
    ASSUME OfferInv, TypeOK', Store_Volume
    PROVE  OfferInv'
<1>0. TypeOK /\ TakenInv /\ KnownInv /\ TimesInv /\ proc.pc = "offer" /\ IsFiniteSet(Known)
  BY DEF OfferInv, Store_Volume, KnownInv
<1>1. PICK q \in Feed, n \in Nat, m \in Nat : q = proc.quot /\ n = proc.gap.CJSL /\ m = proc.gap.CJJE
  BY <1>0, ProcTyped
<1>2. UNCHANGED <<quotation, circle, thread>> /\ proc'.pc = "pop"
  BY DEF Store_Volume
<1>3. TakenInv'
  BY <1>2 DEF TakenInv
<1>o. PICK offer : offer = [q EXCEPT !.CJSL = n, !.CJJE = m]
  OBVIOUS
<1>4. offer \in Quotation /\ offer.OrigTime = q.OrigTime /\ offer.CJSL = n
  <2>1. q \in Quotation
    BY FeedFields
  <2> QED  BY <1>o, <2>1 DEF Quotation
<1>5. q.OrigTime \in Time /\ q.OrigTime \in Nat /\ offer # Nothing /\ q # Nothing
  BY <1>4, FeedFields, FeedAssumption
<1>6. quotation = q /\ (TotalsKept => Volumes + n <= q.CJSL) /\ \A t \in Known : t < q.OrigTime
  BY <1>0, <1>1 DEF TakenInv
<1>7. Known \subseteq Nat /\ (live # Nothing => live.OrigTime \in Known)
  BY <1>0, TimesAreNat DEF Known, KnownInv
<1>8. CASE live' = offer /\ offered' = [offered EXCEPT ![offer.OrigTime] = offer]
  <2>1. q.OrigTime \in Time \ Known
    BY <1>5, <1>6
  <2>2. /\ Known' = Known \cup {q.OrigTime} /\ IsFiniteSet(Known)' /\ offered'[q.OrigTime] = offer
        /\ Volumes' = Volumes + n
    BY <1>0, <1>4, <1>8, <2>1, VolumesGrow
  <2>3. KnownInv'
    <3>1. TotalsKept => Volumes' <= Traded'
      BY <1>2, <1>5, <1>6, <2>2 DEF Traded
    <3>2. \A t \in Known' : t <= q.OrigTime
      BY <1>5, <1>6, <1>7, <2>2
    <3> QED  BY <1>2, <1>4, <1>5, <1>6, <1>8, <2>2, <3>1, <3>2 DEF KnownInv
  <2>4. TimesInv'
    <3>1. live # Nothing => live.OrigTime < q.OrigTime /\ live.OrigTime \in Nat
      BY <1>6, <1>7
    <3>2. ASSUME NEW x \in Nat, live # Nothing, x <= live.OrigTime PROVE live' # Nothing /\ x <= live'.OrigTime
      BY <1>4, <1>5, <1>8, <3>1, <3>2
    <3>3. \A c \in Circle : circle[c].OrigTime \in Nat \cup {Nothing}
      BY <1>0 DEF TypeOK, Field
    <3>4. /\ thread.pc = "match" => thread.gap.hqsj \in Nat
          /\ thread.pc = "set" => thread.hqsj \in Nat
      BY <1>0, HandTyped DEF Gap
    <3> QED  BY <1>0, <1>2, <3>2, <3>3, <3>4 DEF TimesInv
  <2> QED  BY <1>3, <2>3, <2>4 DEF OfferInv
<1>9. CASE UNCHANGED <<live, offered>>
  BY <1>0, <1>2, <1>3, <1>9 DEF OfferInv, KnownInv, TimesInv, Known, Volumes, Traded
<1> QED  BY <1>1, <1>o, <1>8, <1>9 DEF Store_Volume

\* What the threads do leaves the quotations as they are.
LEMMA OfferStays ==
    ASSUME OfferInv, TypeOK', UNCHANGED quotes, TimesInv'
    PROVE  OfferInv'
BY DEF OfferInv, TakenInv, KnownInv, Known, Volumes, Traded, quotes

\* What a write makes of a circle.
LEMMA CircleSet ==
    ASSUME TypeOK, NEW o \in Order, NEW n \in Nat, NEW m \in Nat, NEW t \in Nat,
           SetCurrQuotGapByCircle(o, n, m, t)
    PROVE  /\ circle'[o.circle].OrigTime = t
           /\ circle'[o.circle][QtyField(g_Quotation_Type, o.side)] = n
           /\ circle'[o.circle][ValueField(g_Quotation_Type, o.side)] # Nothing
           /\ g_Quotation_Type = "AveragePrice" =>
                circle'[o.circle][ValueField(g_Quotation_Type, o.side)] = m
           /\ \A c \in Circle \ {o.circle} : circle'[c] = circle[c]
<1> DEFINE f == QtyField(g_Quotation_Type, o.side)
           w == ValueField(g_Quotation_Type, o.side)
           v == CASE g_Quotation_Type = "AveragePrice" -> m
                  [] g_Quotation_Type # "AveragePrice" /\ n # 0 -> m \div n
                  [] OTHER -> 0
<1>1. v \in Nat /\ (g_Quotation_Type = "AveragePrice" => v = m)
  OBVIOUS
<1>2. circle' = [circle EXCEPT ![o.circle] = [@ EXCEPT ![f] = n, ![w] = v, !.OrigTime = t]]
  BY Zenon DEF SetCurrQuotGapByCircle
<1>3. f \in Field /\ w \in Field /\ f # w /\ f # "OrigTime" /\ w # "OrigTime" /\ "OrigTime" \in Field
  BY OrderFields, FieldNames, ModeAssumption DEF OfferField, Field
<1> HIDE DEF f, w, v
<1>4. circle \in [Circle -> [Field -> Nat \cup {Nothing}]] /\ o.circle \in Circle
  BY OrderFields DEF TypeOK
<1>5. circle'[o.circle] = [circle[o.circle] EXCEPT ![f] = n, ![w] = v, !.OrigTime = t]
  BY <1>2, <1>4
<1>6. circle'[o.circle].OrigTime = t /\ circle'[o.circle][f] = n /\ circle'[o.circle][w] = v
  BY <1>3, <1>4, <1>5
<1>7. v # Nothing
  BY <1>1, FeedAssumption
<1> QED  BY <1>1, <1>2, <1>4, <1>6, <1>7 DEF f, w

\* What the thread reads has the live quotation's time, what it writes the time
\* of what it read.
LEMMA OfferUsed ==
    ASSUME OfferInv, TypeOK', ABStockEnableQuoMatch
    PROVE  OfferInv'
<1>0. TypeOK /\ TimesInv /\ thread \in {FreeThread} \cup Matching \cup Setting
  BY DEF OfferInv, TypeOK
<1>1. UNCHANGED quotes
  BY DEF ABStockEnableQuoMatch, Quot_Get, Match_Error, Match_NotMatch, Match_CancelRest,
         Match_Trade, Quot_Set
<1>2. live' = live
  BY <1>1 DEF quotes
<1>3. ASSUME \A c \in Circle : circle'[c].OrigTime # Nothing =>
                                 live # Nothing /\ circle'[c].OrigTime <= live.OrigTime,
             thread'.pc = "match" => live # Nothing /\ thread'.gap.hqsj <= live.OrigTime,
             thread'.pc = "set" => live # Nothing /\ thread'.hqsj <= live.OrigTime
      PROVE  OfferInv'
  <2>1. TimesInv'
    BY <1>0, <1>2, <1>3 DEF TimesInv
  <2> QED  BY <1>1, <2>1, OfferStays
<1>4. ASSUME UNCHANGED circle
      PROVE  \A c \in Circle : circle'[c].OrigTime # Nothing =>
                                 live # Nothing /\ circle'[c].OrigTime <= live.OrigTime
  BY <1>0, <1>4 DEF TimesInv
<1>5. ASSUME thread' = FreeThread
      PROVE  thread'.pc = "get"
  BY <1>0, <1>5 DEF FreeThread
<1>6. CASE Quot_Get
  <2>1. CASE UNCHANGED thread
    BY <1>0, <1>3, <1>4, <1>6, <2>1 DEF Quot_Get, TimesInv
  <2>2. CASE /\ live # Nothing
             /\ thread' =
                  [pc |-> "match", order |-> Head(que).order, leaves |-> Head(que).leaves,
                   gap |-> GetCurrQuotGapByCircle(Head(que).order)]
    <3>1. PICK o \in Order : o = Head(que).order
      BY <1>0, <1>6, QueTyped DEF Quot_Get, Waiting
    <3>2. PICK g : g = GetCurrQuotGapByCircle(o)
      OBVIOUS
    <3>3. g.hqsj = live.OrigTime /\ live.OrigTime \in Nat
      BY <1>0, <2>2, <3>2, GapTyped DEF Gap
    <3>4. /\ thread'.pc = "match" /\ thread'.gap = g
      BY <1>0, <2>2, <3>1, <3>2
    <3>5. UNCHANGED circle
      BY <1>6 DEF Quot_Get
    <3> QED  BY <1>3, <1>4, <2>2, <3>3, <3>4, <3>5
  <2> QED  BY <1>6, <2>1, <2>2 DEF Quot_Get
<1>7. CASE Match_Error \/ Match_NotMatch \/ Match_CancelRest
  <2>1. thread' = FreeThread /\ UNCHANGED circle
    BY <1>7 DEF Match_Error, Match_NotMatch, Match_CancelRest
  <2> QED  BY <1>3, <1>4, <1>5, <2>1
<1>8. CASE Match_Trade
  <2>1. thread.pc = "match" /\ UNCHANGED circle
    BY <1>8 DEF Match_Trade, At
  <2>2. PICK n, h :
          /\ n = Min({thread.leaves, thread.gap.cjsl})
          /\ h = [pc |-> "set", order |-> thread.order, leaves |-> OpenAfter(n),
                  res |-> Result, rest |-> LeftOver(n), hqsj |-> thread.gap.hqsj]
    OBVIOUS
  <2>3. /\ thread' = h /\ h.pc = "set" /\ h.hqsj = thread.gap.hqsj
    <3>1. thread' = h
      BY <1>8, <2>2 DEF Match_Trade
    <3> QED  BY <1>0, <2>2, <3>1
  <2>4. live # Nothing /\ thread.gap.hqsj <= live.OrigTime
    BY <1>0, <2>1 DEF TimesInv
  <2> QED  BY <1>3, <1>4, <2>1, <2>2, <2>3, <2>4
<1>9. CASE Quot_Set
  <2>1. thread.pc = "set" /\ thread' = FreeThread
    BY <1>9 DEF Quot_Set, At
  <2>2. PICK o \in Order, n \in Nat, m \in Nat, t \in Nat :
          o = thread.order /\ n = thread.rest.cjsl /\ m = thread.rest.cjje /\ t = thread.hqsj
    BY <1>0, <2>1, HandTyped
  <2>3. live # Nothing /\ t <= live.OrigTime
    BY <1>0, <2>1, <2>2 DEF TimesInv
  <2>4. \A c \in Circle : circle'[c] = circle[c] \/ circle'[c].OrigTime = t
    <3>1. SetCurrQuotGapByCircle(o, n, m, t) \/ UNCHANGED circle
      BY <1>9, <2>2 DEF Quot_Set
    <3> QED  BY <1>0, <3>1, CircleSet
  <2>5. \A c \in Circle : circle'[c].OrigTime # Nothing =>
                            live # Nothing /\ circle'[c].OrigTime <= live.OrigTime
    BY <1>0, <2>3, <2>4 DEF TimesInv
  <2> QED  BY <1>3, <1>5, <2>1, <2>5
<1> QED  BY <1>6, <1>7, <1>8, <1>9 DEF ABStockEnableQuoMatch

\* Each step keeps the invariant of the quotations.
LEMMA OfferStep == OfferInv /\ QuotationRead /\ [Next]_vars => OfferInv'
<1> SUFFICES ASSUME OfferInv, QuotationRead, [Next]_vars PROVE OfferInv'
  OBVIOUS
<1>0. TypeOK'
  BY StepTyped DEF OfferInv
<1>1. ASSUME UNCHANGED <<quotes, circle, thread>> PROVE OfferInv'
  <2>1. TimesInv'
    BY <1>1 DEF OfferInv, TimesInv, quotes
  <2> QED  BY <1>0, <1>1, <2>1, OfferStays
<1>2. CASE QuotationStep
  BY <1>0, <1>2, OfferTaken, OfferKept, OfferMade DEF QuotationStep
<1>3. CASE UNCHANGED vars
  BY <1>1, <1>3 DEF vars
<1>4. CASE \E o \in Order : Arrive(o)
  BY <1>1, <1>4 DEF Arrive
<1>5. CASE ABStockEnableQuoMatch
  BY <1>0, <1>5, OfferUsed
<1> QED  BY <1>2, <1>3, <1>4, <1>5 DEF Next

\* The quotations taken, kept, offered and used follow each other in time and in
\* volume.
THEOREM QuotOfferInvariant ==
    ASSUME QuotationRead
    PROVE  Spec => []OfferInv
<1>1. OfferInv /\ [Next]_vars => OfferInv'
  BY OfferStep
<1> QED  BY <1>1, OfferInit, PTL DEF Spec

\* No more is offered in a day than the exchange has traded, and no circle is
\* ahead of the live quotation (CalcQuotationGap, StoreSelfUseQuotation), if each
\* read of the last quotation succeeds.
THEOREM QuotOffersInStep ==
    ASSUME QuotationRead, TotalsKept
    PROVE  Spec => []OffersInStep
<1>1. OfferInv => OffersInStep
  <2> SUFFICES ASSUME OfferInv PROVE OffersAddUp /\ NeverAhead
    BY DEF OffersInStep
  <2>1. TotalsKept /\ Known # {} => Volumes <= quotation.CJSL
    BY DEF OfferInv, KnownInv, Traded
  <2>2. OffersAddUp
    BY <2>1 DEF OffersAddUp, Known, Volumes
  <2>3. NeverAhead
    BY DEF OfferInv, KnownInv, TimesInv, NeverAhead, At
  <2> QED  BY <2>2, <2>3
<1> QED  BY <1>1, QuotOfferInvariant, PTL

-----------------------------------------------------------------------------
(* A circle, step by step.                                                 *)

\* What was used and what was offered are numbers.
LEMMA UsedTyped ==
    ASSUME TypeOK, NEW o \in Order, NEW t \in Time
    PROVE  LET f == QtyField(g_Quotation_Type, o.side)
           IN  /\ o.circle \in Circle /\ f \in OfferField /\ f \in Field
               /\ UsedOf(o, t) = used[<<o.circle, f, t>>]
               /\ UsedOf(o, t).qty \in Nat /\ UsedOf(o, t).value \in Nat
               /\ UsedOf(o, t) = [qty |-> UsedOf(o, t).qty, value |-> UsedOf(o, t).value]
               /\ t \in Known => offered[t][f] \in Nat /\ offered[t].CJJE \in Nat
<1> DEFINE f == QtyField(g_Quotation_Type, o.side)
<1>1. o.circle \in Circle /\ f \in OfferField /\ f \in Field
  BY OrderFields, FieldNames, ModeAssumption
<1>2. UsedOf(o, t) = used[<<o.circle, f, t>>]
  BY DEF UsedOf
<1>3. used[<<o.circle, f, t>>] \in [qty : Nat, value : Nat]
  <2> HIDE DEF f
  <2> QED  BY <1>1 DEF TypeOK
<1>4. t \in Known => offered[t] \in Quotation
  BY DEF TypeOK, Known
<1>5. t \in Known => offered[t][f] \in Nat /\ offered[t].CJJE \in Nat
  BY <1>1, <1>4, QuotationNumbers DEF Field
<1> QED  BY <1>1, <1>2, <1>3, <1>5

\* Less left is still within the offer.
LEMMA WithinLess ==
    ASSUME TypeOK, NEW o \in Order, NEW t \in Time, NEW q \in Nat, NEW v \in Nat,
           Within(o, t, q, v), NEW p \in Nat, p <= q, NEW w \in Nat, w <= v
    PROVE  Within(o, t, p, w)
<1> DEFINE f == QtyField(g_Quotation_Type, o.side)
           u == UsedOf(o, t)
<1>1. u = used[<<o.circle, f, t>>] /\ u.qty \in Nat /\ u.value \in Nat
  BY UsedTyped DEF UsedOf
<1>2. /\ t \in Known /\ offered[t][f] \in Nat /\ offered[t].CJJE \in Nat
      /\ u.qty + q <= offered[t][f]
      /\ g_Quotation_Type = "AveragePrice" => u.value + v <= offered[t].CJJE
  BY <1>1, UsedTyped DEF Within
<1> HIDE DEF f, u
<1>3. /\ u.qty + p <= offered[t][f]
      /\ g_Quotation_Type = "AveragePrice" => u.value + w <= offered[t].CJJE
  BY <1>1, <1>2
<1> QED  BY <1>1, <1>2, <1>3 DEF Within, f

\* What is offered besides leaves a circle within what was offered.
LEMMA WithinStays ==
    ASSUME NEW o \in Order, NEW t, NEW q, NEW v, Within(o, t, q, v),
           \A d \in Known : d \in Known' /\ offered'[d] = offered[d],
           \A d \in Time : UsedOf(o, d)' = UsedOf(o, d)
    PROVE  Within(o, t, q, v)'
<1>1. t \in Known /\ t \in Time
  BY DEF Within, Known
<1>2. UsedOf(o, t)' = UsedOf(o, t) /\ t \in Known' /\ offered'[t] = offered[t]
  BY <1>1
<1> QED  BY <1>2 DEF Within, UsedOf

\* A step that is not about a circle: its thread does not write it before nor
\* has to do with it afterwards.
LEMMA CircleElse ==
    ASSUME NEW o \in Order, OneCircleInv(o),
           circle'[o.circle] = circle[o.circle],
           \A d \in Known : d \in Known' /\ offered'[d] = offered[d],
           \A d \in Time : UsedOf(o, d)' = UsedOf(o, d),
           \/ thread' = thread
           \/ /\ ~Writes(o)
              /\ thread'.pc = "get" \/ thread'.order.circle # o.circle
    PROVE  OneCircleInv(o)'
<1> DEFINE f == QtyField(g_Quotation_Type, o.side)
           w == ValueField(g_Quotation_Type, o.side)
<1>1. PICK c, h, g : c = circle[o.circle] /\ h = thread /\ g = thread'
  OBVIOUS
<1>2. /\ ThreadKeeps(o) /\ CircleKeeps(o) /\ UnusedLater(o) /\ UsedWithin(o)
      /\ circle'[o.circle] = c
  BY <1>1 DEF OneCircleInv
<1>3. \A t, q, v : Within(o, t, q, v) => Within(o, t, q, v)'
  BY WithinStays
<1>4. g = h \/ (~Writes(o) /\ ~Writes(o)' /\ (g.pc = "get" \/ g.order.circle # o.circle))
  BY <1>1 DEF Writes
<1>5. Writes(o) => g = h
  BY <1>4
<1>6. Writes(o)' <=> Writes(o)
  BY <1>1, <1>4 DEF Writes
<1>7. ThreadKeeps(o)'
  <2>1. CASE g = h
    <3>1. /\ g.pc = "match" /\ g.order.circle = o.circle =>
               /\ Within(o, g.gap.hqsj, g.gap.cjsl, g.gap.cjje)
               /\ c.OrigTime # Nothing => c.OrigTime <= g.gap.hqsj
          /\ g.pc = "set" /\ g.order.circle = o.circle =>
               /\ Within(o, g.hqsj, g.rest.cjsl, g.rest.cjje)
               /\ c.OrigTime # Nothing => c.OrigTime <= g.hqsj
      BY <1>1, <1>2, <2>1 DEF ThreadKeeps
    <3>2. /\ g.pc = "match" /\ g.order.circle = o.circle => Within(o, g.gap.hqsj, g.gap.cjsl, g.gap.cjje)'
          /\ g.pc = "set" /\ g.order.circle = o.circle => Within(o, g.hqsj, g.rest.cjsl, g.rest.cjje)'
      BY <1>3, <3>1
    <3> QED  BY <1>1, <1>2, <3>1, <3>2 DEF ThreadKeeps
  <2>2. CASE g.pc = "get" \/ g.order.circle # o.circle
    BY <1>1, <2>2 DEF ThreadKeeps
  <2> QED  BY <1>4, <2>1, <2>2
<1>8. CircleKeeps(o)'
  <2>1. c.OrigTime # Nothing =>
          /\ c[f] # Nothing /\ c[w] # Nothing
          /\ ~(Writes(o) /\ h.hqsj = c.OrigTime) => Within(o, c.OrigTime, c[f], c[w])
    BY <1>1, <1>2 DEF CircleKeeps
  <2>2. c.OrigTime # Nothing =>
          /\ c[f] # Nothing /\ c[w] # Nothing
          /\ ~(Writes(o)' /\ g.hqsj = c.OrigTime) => Within(o, c.OrigTime, c[f], c[w])'
    BY <1>3, <1>5, <1>6, <2>1
  <2> QED  BY <1>1, <1>2, <2>2 DEF CircleKeeps
<1>9. UnusedLater(o)'
  <2>1. \A t \in Time :
          UsedOf(o, t) # [qty |-> 0, value |-> 0] =>
              \/ c.OrigTime # Nothing /\ t <= c.OrigTime
              \/ Writes(o) /\ t <= h.hqsj
    BY <1>1, <1>2 DEF UnusedLater
  <2>2. \A t \in Time :
          UsedOf(o, t)' # [qty |-> 0, value |-> 0] =>
              \/ c.OrigTime # Nothing /\ t <= c.OrigTime
              \/ Writes(o)' /\ t <= g.hqsj
    BY <1>5, <1>6, <2>1
  <2> QED  BY <1>1, <1>2, <2>2 DEF UnusedLater
<1>10. UsedWithin(o)'
  BY <1>2, <1>3 DEF UsedWithin
<1> QED  BY <1>7, <1>8, <1>9, <1>10 DEF OneCircleInv

LEMMA CircleInit == Init => CircleInv /\ OthersUnused
<1> SUFFICES ASSUME Init PROVE CircleInv /\ OthersUnused
  OBVIOUS
<1>0. TypeOK
  BY InitTyped
<1>1. ASSUME NEW o \in Order PROVE OneCircleInv(o)
  <2>1. o.circle \in Circle /\ o.side \in Side
    BY OrderFields
  <2>2. circle[o.circle].OrigTime = Nothing /\ thread.pc = "get"
    BY <2>1 DEF Init, Field, FreeThread
  <2>3. \A t \in Time : UsedOf(o, t) = [qty |-> 0, value |-> 0]
    <3> SUFFICES ASSUME NEW t \in Time PROVE UsedOf(o, t) = [qty |-> 0, value |-> 0]
      OBVIOUS
    <3> DEFINE f == QtyField(g_Quotation_Type, o.side)
    <3>1. o.circle \in Circle /\ f \in OfferField /\ UsedOf(o, t) = used[<<o.circle, f, t>>]
      BY <1>0, UsedTyped
    <3> HIDE DEF f
    <3> QED  BY <3>1 DEF Init
  <2> QED  BY <2>2, <2>3 DEF OneCircleInv, ThreadKeeps, CircleKeeps, UnusedLater, UsedWithin, Writes
<1>2. OthersUnused
  BY DEF Init, OthersUnused
<1> QED  BY <1>1, <1>2 DEF CircleInv

\* A quotation more.
LEMMA CircleQuoted ==
    ASSUME OfferInv, CircleInv, QuotationStep
    PROVE  CircleInv'
<1>1. UNCHANGED <<circle, thread, used>>
  BY DEF QuotationStep, ReadRealMarketInfo, Store_Quotation, Store_Volume, results
<1>2. \A d \in Known : d \in Known' /\ offered'[d] = offered[d]
  <2>1. CASE UNCHANGED offered
    BY <2>1 DEF Known
  <2>2. CASE Store_Volume /\ ~UNCHANGED offered
    <3>1. PICK offer : offered' = [offered EXCEPT ![offer.OrigTime] = offer] /\ offer.OrigTime = proc.quot.OrigTime
      <4>1. proc \in [pc : {"store", "offer"}, quot : Feed, gap : Volume]
        BY <2>2, ProcTyped DEF OfferInv, Store_Volume
      <4>2. proc.quot \in Quotation
        BY <4>1, FeedFields
      <4> DEFINE offer == [proc.quot EXCEPT !.CJSL = proc.gap.CJSL, !.CJJE = proc.gap.CJJE]
      <4>3. offer.OrigTime = proc.quot.OrigTime
        BY <4>2 DEF Quotation
      <4>4. offered' = [offered EXCEPT ![offer.OrigTime] = offer]
        BY <2>2 DEF Store_Volume
      <4> QED  BY <4>3, <4>4
    <3>2. proc.quot.OrigTime \notin Known
      <4>1. proc.quot.OrigTime \in Nat /\ \A d \in Known : d < proc.quot.OrigTime
        BY <2>2, ProcTyped, FeedFields DEF OfferInv, TakenInv, Store_Volume
      <4> QED  BY <4>1
    <3> QED  BY <3>1, <3>2 DEF Known, OfferInv, TypeOK
  <2> QED  BY <2>1, <2>2 DEF QuotationStep, ReadRealMarketInfo, Store_Quotation
<1>3. ASSUME NEW o \in Order PROVE OneCircleInv(o)'
  BY <1>1, <1>2, CircleElse DEF CircleInv, UsedOf
<1> QED  BY <1>3 DEF CircleInv

\* A step about an order is not about another circle than the order's.
LEMMA CircleOthers ==
    ASSUME NEW p \in Order, NEW o \in Order, o.circle # p.circle, OneCircleInv(o),
           UNCHANGED offered, \A c \in Circle \ {p.circle} : circle'[c] = circle[c],
           \A d \in Time : UsedOf(o, d)' = UsedOf(o, d),
           thread.pc = "set" => thread.order = p,
           thread'.pc = "get" \/ thread'.order = p
    PROVE  OneCircleInv(o)'
<1>1. o.circle \in Circle
  BY OrderFields
<1>2. circle'[o.circle] = circle[o.circle]
  BY <1>1
<1>3. \A d \in Known : d \in Known' /\ offered'[d] = offered[d]
  BY DEF Known
<1>4. ~Writes(o) /\ (thread'.pc = "get" \/ thread'.order.circle # o.circle)
  BY DEF Writes
<1> QED  BY <1>2, <1>3, <1>4, CircleElse

\* The orders of a circle read and write the same fields of it.
LEMMA SameFields ==
    ASSUME OneRest, NEW o \in Order, NEW p \in Order, o.circle = p.circle
    PROVE  /\ QtyField(g_Quotation_Type, o.side) = QtyField(g_Quotation_Type, p.side)
           /\ ValueField(g_Quotation_Type, o.side) = ValueField(g_Quotation_Type, p.side)
           /\ o.policy = g_Quotation_Type /\ p.policy = g_Quotation_Type
<1>1. CASE g_Quotation_Type = "SellBuyPrice"
  BY <1>1 DEF OneRest
<1>2. CASE g_Quotation_Type # "SellBuyPrice"
  BY <1>2 DEF OneRest, QtyField, ValueField
<1> QED  BY <1>1, <1>2

\* The order is not traded, or its report is not counted.
LEMMA CircleFreed ==
    ASSUME TypeOK, CircleInv,
           Match_Error \/ Match_NotMatch \/ Match_CancelRest
    PROVE  CircleInv'
<1>1. thread.pc = "match" /\ UNCHANGED <<offered, circle, used>>
      /\ thread' = FreeThread
  BY DEF Match_Error, Match_NotMatch, Match_CancelRest, At, quotes, results
<1>2. thread'.pc = "get"
  BY <1>1 DEF TypeOK, FreeThread
<1>3. ASSUME NEW o \in Order PROVE OneCircleInv(o)'
  <2>1. o.side \in Side
    BY OrderFields
  <2>2. thread' = thread \/ (~Writes(o) /\ thread'.pc = "get")
    BY <1>1, <1>2, <2>1 DEF Writes
  <2>3. \A d \in Known : d \in Known' /\ offered'[d] = offered[d]
    BY <1>1 DEF Known
  <2>4. UNCHANGED circle /\ \A d \in Time : UsedOf(o, d)' = UsedOf(o, d)
    BY <1>1 DEF UsedOf
  <2> QED  BY <2>2, <2>3, <2>4, CircleElse DEF CircleInv
<1> QED  BY <1>3 DEF CircleInv

\* What a read gives is left of the live quotation: what the circle has, if it is
\* in step, and the quotation's own volume of which nothing was used, if not.
LEMMA GapWithin ==
    ASSUME OfferInv, NEW o \in Order, OneCircleInv(o), o.policy = g_Quotation_Type,
           ~Writes(o), live # Nothing, NEW g, g = GetCurrQuotGapByCircle(o)
    PROVE  Within(o, g.hqsj, g.cjsl, g.cjje)
<1> DEFINE f == QtyField(g_Quotation_Type, o.side)
           w == ValueField(g_Quotation_Type, o.side)
<1>0. TypeOK /\ KnownInv /\ TimesInv
  BY DEF OfferInv
<1>1. PICK c, t : c = circle[o.circle] /\ t = live.OrigTime
  OBVIOUS
<1>2. /\ g.hqsj = t
      /\ IsInStep(c, f, w) => g.cjsl = c[f] /\ (g_Quotation_Type = "AveragePrice" => g.cjje = c[w])
      /\ ~IsInStep(c, f, w) => g.cjsl = live[f] /\ (g_Quotation_Type = "AveragePrice" => g.cjje = live[w])
  BY <1>0, <1>1, GapTyped
<1>3. t \in Known /\ offered[t] = live /\ t \in Time /\ t \in Nat
  BY <1>0, <1>1, TimesAreNat DEF KnownInv, Known
<1>4. /\ c.OrigTime # Nothing => c[f] # Nothing /\ c[w] # Nothing /\ Within(o, c.OrigTime, c[f], c[w])
      /\ UsedOf(o, t) # [qty |-> 0, value |-> 0] => c.OrigTime # Nothing /\ t <= c.OrigTime
  BY <1>1, <1>3 DEF OneCircleInv, CircleKeeps, UnusedLater
<1>5. c.OrigTime \in Nat \cup {Nothing} /\ (c.OrigTime # Nothing => c.OrigTime <= t)
  <2>1. o.circle \in Circle /\ "OrigTime" \in Field
    BY OrderFields DEF Field
  <2> QED  BY <1>0, <1>1, <2>1 DEF TypeOK, TimesInv
<1>6. CASE IsInStep(c, f, w)
  <2>1. c.OrigTime = t /\ c.OrigTime # Nothing
    BY <1>1, <1>6 DEF IsInStep
  <2>2. Within(o, t, c[f], c[w])
    BY <1>4, <2>1
  <2> HIDE DEF f, w
  <2> QED  BY <1>2, <1>6, <2>2 DEF Within
<1>7. CASE ~IsInStep(c, f, w)
  <2>1. c.OrigTime = Nothing \/ c.OrigTime # t
    BY <1>1, <1>4, <1>7 DEF IsInStep
  <2>2. UsedOf(o, t) = [qty |-> 0, value |-> 0]
    BY <1>3, <1>4, <1>5, <2>1
  <2>3. g_Quotation_Type = "AveragePrice" => w = "CJJE"
    BY OrderFields, FieldNames, ModeAssumption
  <2>4. live[f] \in Nat /\ live.CJJE \in Nat
    BY <1>0, <1>3, UsedTyped
  <2> HIDE DEF f, w
  <2>5. /\ UsedOf(o, t).qty + g.cjsl <= live[f]
        /\ g_Quotation_Type = "AveragePrice" => UsedOf(o, t).value + g.cjje <= live.CJJE
    BY <1>2, <1>7, <2>2, <2>3, <2>4
  <2> QED  BY <1>2, <1>3, <2>5 DEF Within, UsedOf, f
<1> QED  BY <1>6, <1>7

LEMMA CircleRead ==
    ASSUME OrderInv, OfferInv, CircleInv, TypeOK', OneRest, Quot_Get
    PROVE  CircleInv'
<1>0. TypeOK /\ QueInv /\ thread.pc = "get" /\ que # <<>> /\ KnownInv /\ TimesInv
  BY DEF OrderInv, OfferInv, Quot_Get, At
<1>1. UNCHANGED <<offered, live, circle, used>>
  BY DEF Quot_Get, quotes, results
<1>2. \A o \in Order : \A d \in Time : UsedOf(o, d)' = UsedOf(o, d)
  BY <1>1 DEF UsedOf
<1>3. \A d \in Known : d \in Known' /\ offered'[d] = offered[d]
  BY <1>1 DEF Known
<1>4. CASE UNCHANGED thread
  <2>1. ASSUME NEW o \in Order PROVE OneCircleInv(o)'
    BY <1>1, <1>2, <1>3, <1>4, CircleElse DEF CircleInv
  <2> QED  BY <2>1 DEF CircleInv
<1>5. CASE /\ live # Nothing
           /\ thread' =
                [pc |-> "match", order |-> Head(que).order, leaves |-> Head(que).leaves,
                 gap |-> GetCurrQuotGapByCircle(Head(que).order)]
  <2>1. PICK p \in Order : p = Head(que).order
    <3>1. Head(que) = que[1] /\ Len(que) \in Nat \ {0} /\ Head(que).order \in Order
      BY <1>0, QueTyped DEF Waiting
    <3> QED  BY <1>0, <3>1 DEF QueInv
  <2>2. PICK g : g = GetCurrQuotGapByCircle(p)
    OBVIOUS
  <2>3. /\ thread'.pc = "match" /\ thread'.gap = g /\ thread'.order = p
    BY <1>0, <1>5, <2>1, <2>2 DEF TypeOK
  <2>4. ASSUME NEW o \in Order, o.circle # p.circle PROVE OneCircleInv(o)'
    BY <1>0, <1>1, <1>2, <2>3, <2>4, CircleOthers DEF CircleInv
  <2>5. ASSUME NEW o \in Order, o.circle = p.circle PROVE OneCircleInv(o)'
    <3>1. /\ o.policy = g_Quotation_Type /\ p.policy = g_Quotation_Type /\ OneCircleInv(o)
          /\ QtyField(g_Quotation_Type, o.side) = QtyField(g_Quotation_Type, p.side)
          /\ ValueField(g_Quotation_Type, o.side) = ValueField(g_Quotation_Type, p.side)
      BY <2>1, <2>5, SameFields DEF CircleInv
    <3>2. ~Writes(o) /\ ~Writes(o)'
      BY <1>0, <2>3, <3>1 DEF Writes
    <3>3. g = GetCurrQuotGapByCircle(o)
      BY <2>1, <2>2, <2>5, <3>1 DEF GetCurrQuotGapByCircle
    <3>4. Within(o, g.hqsj, g.cjsl, g.cjje)
      BY <1>5, <3>1, <3>2, <3>3, GapWithin
    <3>5. \A t, q, v : Within(o, t, q, v) => Within(o, t, q, v)'
      BY <1>2, <1>3, WithinStays
    <3>6. PICK c : c = circle[o.circle] /\ c = circle'[o.circle]
      BY <1>1
    <3>7. c.OrigTime # Nothing => c.OrigTime <= g.hqsj
      BY <1>0, <1>5, <3>3, <3>6, OrderFields, GapTyped DEF TimesInv
    <3>8. ThreadKeeps(o)'
      BY <2>3, <3>1, <3>4, <3>5, <3>6, <3>7 DEF ThreadKeeps
    <3>9. CircleKeeps(o)'
      <4>1. c.OrigTime # Nothing =>
              LET f == QtyField(g_Quotation_Type, o.side)
                  v == ValueField(g_Quotation_Type, o.side)
              IN  c[f] # Nothing /\ c[v] # Nothing /\ Within(o, c.OrigTime, c[f], c[v])'
        BY <3>1, <3>2, <3>5, <3>6 DEF OneCircleInv, CircleKeeps
      <4> QED  BY <3>6, <4>1 DEF CircleKeeps
    <3>10. UnusedLater(o)'
      BY <1>2, <3>1, <3>2, <3>6 DEF OneCircleInv, UnusedLater
    <3>11. UsedWithin(o)'
      BY <1>2, <3>1, <3>5 DEF OneCircleInv, UsedWithin
    <3> QED  BY <3>8, <3>9, <3>10, <3>11 DEF OneCircleInv
  <2> QED  BY <2>4, <2>5 DEF CircleInv
<1> QED  BY <1>4, <1>5 DEF Quot_Get

\* A trade takes no more of what the thread read than it leaves for the write.
LEMMA CircleTraded ==
    ASSUME OrderInv, OfferInv, CircleInv, TypeOK', OneRest, Match_Trade
    PROVE  CircleInv' /\ (OthersUnused => OthersUnused')
<1>0. TypeOK /\ thread.pc = "match" /\ At("match") /\ HandInv
      /\ Result \in {"MatchAll", "MatchPart"}
  BY DEF OrderInv, Match_Trade, At
<1>1. PICK p \in Order, gap \in Gap : p = thread.order /\ gap = thread.gap
  BY <1>0, HandTyped
<1>2. p.policy = g_Quotation_Type
  BY <1>0, <1>1 DEF HandInv, OneRest
<1>n. PICK n : n = Min({thread.leaves, gap.cjsl})
  OBVIOUS
<1>m. PICK m, rest, f : /\ m = n * AveragePrice(gap) /\ rest = LeftOver(n)
                        /\ f = QtyField(g_Quotation_Type, p.side)
  OBVIOUS
<1>3. /\ n \in Nat /\ m \in Nat /\ rest.cjsl \in Nat /\ rest.cjje \in Nat
      /\ n + rest.cjsl <= gap.cjsl /\ m + rest.cjje <= gap.cjje
      /\ gap.cjsl \in Nat /\ gap.cjje \in Nat /\ gap.hqsj \in Nat
  BY <1>0, <1>1, <1>n, <1>m, TradeOf DEF Gap
<1>x. PICK x : x = <<p.circle, f, gap.hqsj>>
  OBVIOUS
<1>4. /\ UNCHANGED <<offered, circle>>
      /\ used' = [used EXCEPT ![x] = [qty |-> used[x].qty + n, value |-> used[x].value + m]]
      /\ \E h : /\ thread' = h
                /\ h = [pc |-> "set", order |-> p, leaves |-> OpenAfter(n),
                        res |-> Result, rest |-> rest, hqsj |-> gap.hqsj]
  BY <1>0, <1>1, <1>2, <1>n, <1>m, <1>x DEF Match_Trade, quotes
<1>5. /\ thread'.pc = "set" /\ thread'.order = p /\ thread'.rest = rest
      /\ thread'.hqsj = gap.hqsj
  BY <1>0, <1>4 DEF TypeOK
<1>6. \A y \in Circle \X OfferField \X Time : y # x => used'[y] = used[y]
  BY <1>0, <1>4 DEF TypeOK
<1>7. ASSUME NEW o \in Order, o.circle # p.circle PROVE OneCircleInv(o)'
  <2>1. \A d \in Time : UsedOf(o, d)' = UsedOf(o, d)
    <3> SUFFICES ASSUME NEW d \in Time PROVE UsedOf(o, d)' = UsedOf(o, d)
      OBVIOUS
    <3>1. PICK e : e = QtyField(g_Quotation_Type, o.side)
      OBVIOUS
    <3>2. o.circle \in Circle /\ e \in OfferField
      BY <1>0, <3>1, UsedTyped
    <3>3. <<o.circle, e, d>> \in Circle \X OfferField \X Time /\ <<o.circle, e, d>> # x
      BY <1>7, <1>x, <3>2
    <3> QED  BY <1>6, <3>1, <3>3 DEF UsedOf
  <2> QED  BY <1>0, <1>4, <1>5, <1>7, <2>1, CircleOthers DEF CircleInv
<1>8. ASSUME NEW o \in Order, o.circle = p.circle PROVE OneCircleInv(o)'
  <2>1. OneCircleInv(o) /\ f = QtyField(g_Quotation_Type, o.side)
    BY <1>8, <1>m, SameFields DEF CircleInv
  <2>2. ~Writes(o) /\ Writes(o)'
    BY <1>0, <1>5, <1>8, <2>1 DEF Writes
  <2>3. PICK t : t = gap.hqsj
    OBVIOUS
  <2>4. /\ Within(o, t, gap.cjsl, gap.cjje)
        /\ circle[o.circle].OrigTime # Nothing => circle[o.circle].OrigTime <= t
    BY <1>0, <1>1, <1>8, <2>1, <2>3 DEF OneCircleInv, ThreadKeeps
  <2>5. t \in Known /\ t \in Time /\ t \in Nat
    BY <1>3, <2>3, <2>4 DEF Within, Known
  <2>6. \A d \in Time : d # t => UsedOf(o, d)' = UsedOf(o, d)
    <3>1. \A d \in Time : <<o.circle, f, d>> \in Circle \X OfferField \X Time
      BY <1>0, <2>1, UsedTyped
    <3>2. \A d \in Time : d # t => <<o.circle, f, d>> # x
      BY <1>x, <2>3
    <3> QED  BY <1>6, <2>1, <3>1, <3>2 DEF UsedOf
  <2>7. UsedOf(o, t)' = [qty |-> UsedOf(o, t).qty + n, value |-> UsedOf(o, t).value + m]
    <3>1. x = <<o.circle, f, t>> /\ x \in Circle \X OfferField \X Time
      BY <1>0, <1>8, <1>x, <2>1, <2>3, <2>5, UsedTyped
    <3>2. UsedOf(o, t) = used[x] /\ UsedOf(o, t)' = used'[x]
      BY <2>1, <3>1 DEF UsedOf
    <3> QED  BY <1>0, <1>4, <3>1, <3>2 DEF TypeOK
  <2>8. Within(o, t, rest.cjsl, rest.cjje)'
    <3>1. PICK u : u = UsedOf(o, t)
      OBVIOUS
    <3>2. u.qty \in Nat /\ u.value \in Nat /\ offered[t][f] \in Nat /\ offered[t].CJJE \in Nat
      BY <1>0, <2>1, <2>5, <3>1, UsedTyped
    <3>3. /\ u.qty + gap.cjsl <= offered[t][f]
          /\ g_Quotation_Type = "AveragePrice" => u.value + gap.cjje <= offered[t].CJJE
      BY <2>1, <2>4, <3>1 DEF Within, UsedOf
    <3>4. /\ (u.qty + n) + rest.cjsl <= offered[t][f]
          /\ g_Quotation_Type = "AveragePrice" => (u.value + m) + rest.cjje <= offered[t].CJJE
      BY <1>3, <3>2, <3>3
    <3>5. t \in Known' /\ offered' = offered
      BY <1>4, <2>5 DEF Known
    <3>6. UsedOf(o, t)'.qty = u.qty + n /\ UsedOf(o, t)'.value = u.value + m
      BY <2>7, <3>1
    <3> QED  BY <2>1, <3>4, <3>5, <3>6 DEF Within, UsedOf
  <2>9. ASSUME NEW d \in Time, d # t, NEW q, NEW v, Within(o, d, q, v) PROVE Within(o, d, q, v)'
    <3>1. UsedOf(o, d)' = UsedOf(o, d) /\ offered' = offered /\ (d \in Known => d \in Known')
      BY <1>4, <2>6, <2>9 DEF Known
    <3> QED  BY <2>9, <3>1 DEF Within, UsedOf
  <2>10. PICK c : c = circle[o.circle] /\ c = circle'[o.circle]
    BY <1>4
  <2>11. ThreadKeeps(o)'
    <3>1. /\ Within(o, thread.hqsj, thread.rest.cjsl, thread.rest.cjje)'
          /\ thread'.hqsj = t
      <4>1. thread'.hqsj = t /\ thread'.rest = rest
        BY <1>5, <2>1, <2>3
      <4> QED  BY <2>8, <4>1 DEF Within
    <3> QED  BY <1>5, <2>1, <2>4, <2>10, <3>1 DEF ThreadKeeps
  <2>12. CircleKeeps(o)'
    <3>1. PICK w : w = ValueField(g_Quotation_Type, o.side)
      OBVIOUS
    <3>2. c.OrigTime # Nothing => /\ c[f] # Nothing /\ c[w] # Nothing
                                  /\ Within(o, c.OrigTime, c[f], c[w])
      BY <2>1, <2>2, <2>10, <3>1 DEF OneCircleInv, CircleKeeps
    <3>3. c.OrigTime # Nothing /\ c.OrigTime # t => Within(o, c.OrigTime, c[f], c[w])'
      <4>1. c.OrigTime # Nothing => c.OrigTime \in Time
        BY <3>2 DEF Within, Known
      <4> QED  BY <2>9, <3>2, <4>1
    <3>4. thread'.hqsj = t
      BY <1>5, <2>1, <2>3
    <3> QED  BY <2>1, <2>2, <2>10, <3>1, <3>2, <3>3, <3>4 DEF CircleKeeps
  <2>13. UnusedLater(o)'
    <3>1. thread'.hqsj = t
      BY <1>5, <2>1, <2>3
    <3>2. \A d \in Time : d # t /\ UsedOf(o, d)' # [qty |-> 0, value |-> 0] =>
                            c.OrigTime # Nothing /\ d <= c.OrigTime
      BY <2>1, <2>2, <2>6, <2>10 DEF OneCircleInv, UnusedLater
    <3>3. \A d \in Time : UsedOf(o, d)' # [qty |-> 0, value |-> 0] =>
            \/ c.OrigTime # Nothing /\ d <= c.OrigTime
            \/ Writes(o)' /\ d <= t
      BY <2>2, <2>5, <3>2
    <3> QED  BY <2>10, <3>1, <3>3 DEF UnusedLater
  <2>14. UsedWithin(o)'
    <3>1. Within(o, t, 0, 0)'
      <4>1. TypeOK'
        OBVIOUS
      <4>2. ASSUME NEW u, u = UsedOf(o, t)', u.qty \in Nat, u.value \in Nat,
                   offered'[t][f] \in Nat, offered'[t].CJJE \in Nat
            PROVE  Within(o, t, 0, 0)'
        <5>1. /\ t \in Known' /\ u.qty + rest.cjsl <= offered'[t][f]
              /\ g_Quotation_Type = "AveragePrice" => u.value + rest.cjje <= offered'[t].CJJE
          BY <2>1, <2>8, <4>2 DEF Within, UsedOf
        <5>2. /\ u.qty + 0 <= offered'[t][f]
              /\ g_Quotation_Type = "AveragePrice" => u.value + 0 <= offered'[t].CJJE
          BY <1>3, <4>2, <5>1
        <5> QED  BY <2>1, <4>2, <5>1, <5>2 DEF Within, UsedOf
      <4>3. /\ UsedOf(o, t)'.qty \in Nat /\ UsedOf(o, t)'.value \in Nat
            /\ offered'[t][f] \in Nat /\ offered'[t].CJJE \in Nat
        <5>1. UsedOf(o, t).qty \in Nat /\ UsedOf(o, t).value \in Nat
              /\ offered[t][f] \in Nat /\ offered[t].CJJE \in Nat
          BY <1>0, <2>1, <2>5, UsedTyped
        <5> QED  BY <1>3, <1>4, <2>7, <5>1
      <4> QED  BY <4>2, <4>3
    <3>2. \A d \in Time : d # t /\ UsedOf(o, d)' # [qty |-> 0, value |-> 0] => Within(o, d, 0, 0)'
      BY <2>1, <2>6, <2>9 DEF OneCircleInv, UsedWithin
    <3> QED  BY <3>1, <3>2 DEF UsedWithin
  <2> QED  BY <2>11, <2>12, <2>13, <2>14 DEF OneCircleInv
<1>9. ASSUME OthersUnused PROVE OthersUnused'
  <2> SUFFICES ASSUME NEW c \in Circle, NEW e \in OfferField, NEW t \in Time,
                      used'[<<c, e, t>>].qty > 0
               PROVE  \E o \in Order : o.circle = c /\ e = QtyField(o.policy, o.side)
    BY DEF OthersUnused
  <2>1. CASE <<c, e, t>> = x
    BY <1>2, <1>m, <1>x, <2>1
  <2>2. CASE <<c, e, t>> # x
    BY <1>6, <1>9, <2>2 DEF OthersUnused
  <2> QED  BY <2>1, <2>2
<1> QED  BY <1>7, <1>8, <1>9 DEF CircleInv

\* What the thread leaves is then the circle's.
LEMMA CircleWrites ==
    ASSUME OrderInv, OfferInv, CircleInv, TypeOK', CircleWritten, OneRest, Quot_Set
    PROVE  CircleInv'
<1>0. TypeOK /\ thread.pc = "set" /\ HandInv
  BY DEF OrderInv, Quot_Set, At
<1>1. PICK p \in Order, n \in Nat, m \in Nat, t \in Nat :
        p = thread.order /\ n = thread.rest.cjsl /\ m = thread.rest.cjje /\ t = thread.hqsj
  BY <1>0, HandTyped
<1>3. /\ UNCHANGED <<offered, used>> /\ SetCurrQuotGapByCircle(p, n, m, t)
      /\ thread' = FreeThread
  BY <1>1 DEF Quot_Set, quotes, Succeeds, CircleWritten
<1>4. thread'.pc = "get"
  BY <1>0, <1>3 DEF TypeOK, FreeThread
<1>5. \A o \in Order : \A d \in Time : UsedOf(o, d)' = UsedOf(o, d)
  BY <1>3 DEF UsedOf
<1>6. ASSUME NEW o \in Order PROVE \A d, q, v : Within(o, d, q, v) => Within(o, d, q, v)'
  <2>1. \A d \in Known : d \in Known' /\ offered'[d] = offered[d]
    BY <1>3 DEF Known
  <2> QED  BY <1>5, <2>1, WithinStays
<1>7. ASSUME NEW o \in Order, o.circle # p.circle PROVE OneCircleInv(o)'
  <2>1. \A c \in Circle \ {p.circle} : circle'[c] = circle[c]
    BY <1>0, <1>3, CircleSet
  <2> QED  BY <1>1, <1>3, <1>4, <1>5, <1>7, <2>1, CircleOthers DEF CircleInv
<1>8. ASSUME NEW o \in Order, o.circle = p.circle PROVE OneCircleInv(o)'
  <2>1. OneCircleInv(o)
    BY <1>8 DEF CircleInv
  <2>2. ~Writes(o)'
    BY <1>4, <2>1 DEF Writes
  <2>3. PICK c, f, w : c = circle[o.circle] /\ f = QtyField(g_Quotation_Type, o.side)
                       /\ w = ValueField(g_Quotation_Type, o.side)
    OBVIOUS
  <2>f. f = QtyField(g_Quotation_Type, p.side) /\ w = ValueField(g_Quotation_Type, p.side)
    BY <1>8, <2>3, SameFields
  <2>4. PICK b : /\ b = circle'[o.circle] /\ b.OrigTime = t /\ b[f] = n /\ b[w] # Nothing
                 /\ g_Quotation_Type = "AveragePrice" => b[w] = m
    BY <1>0, <1>3, <1>8, <2>f, CircleSet
  <2>5. Within(o, t, n, m) /\ (c.OrigTime # Nothing => c.OrigTime <= t)
    BY <1>0, <1>1, <1>8, <2>1, <2>3 DEF OneCircleInv, ThreadKeeps
  <2>6. ThreadKeeps(o)'
    BY <1>4, <2>1 DEF ThreadKeeps
  <2>7. CircleKeeps(o)'
    <3>1. Within(o, t, n, m)'
      BY <1>6, <2>5
    <3>2. Within(o, t, b[f], b[w])'
      BY <2>4, <3>1 DEF Within
    <3>3. b[f] # Nothing
      BY <2>4, FeedAssumption
    <3> QED  BY <2>1, <2>3, <2>4, <3>2, <3>3 DEF CircleKeeps
  <2>8. UnusedLater(o)'
    <3>1. \A d \in Time : UsedOf(o, d) # [qty |-> 0, value |-> 0] =>
            \/ c.OrigTime # Nothing /\ d <= c.OrigTime
            \/ d <= t
      BY <1>1, <2>1, <2>3 DEF OneCircleInv, UnusedLater
    <3>2. c.OrigTime \in Nat \cup {Nothing} /\ t # Nothing /\ Time \subseteq Nat
      BY <1>0, <2>3, OrderFields, TimesAreNat, FeedAssumption DEF TypeOK, Field
    <3>3. \A d \in Time : UsedOf(o, d) # [qty |-> 0, value |-> 0] => d <= t
      BY <2>5, <3>1, <3>2
    <3> QED  BY <1>5, <2>4, <3>2, <3>3 DEF UnusedLater
  <2>9. UsedWithin(o)'
    BY <1>5, <1>6, <2>1 DEF OneCircleInv, UsedWithin
  <2> QED  BY <2>6, <2>7, <2>8, <2>9 DEF OneCircleInv
<1> QED  BY <1>7, <1>8 DEF CircleInv

QuotInv == OrderInv /\ OfferInv /\ CircleInv /\ OthersUnused

\* Each step keeps all of it.
LEMMA QuotStep ==
    ASSUME CircleWritten, QuotationRead, OneRest, QuotInv, [Next]_vars
    PROVE  QuotInv'
<1>0. TypeOK' /\ OrderInv' /\ OfferInv'
  BY OrderStep, OfferStep, StepTyped DEF QuotInv, OrderInv
<1>1. ASSUME UNCHANGED <<quotes, circle, thread, used>> PROVE CircleInv' /\ OthersUnused'
  <2>1. ASSUME NEW o \in Order PROVE OneCircleInv(o)'
    BY <1>1, CircleElse DEF QuotInv, CircleInv, UsedOf, Known, quotes
  <2> QED  BY <1>1, <2>1 DEF QuotInv, CircleInv, OthersUnused
<1>2. ASSUME UNCHANGED used, QuotInv PROVE OthersUnused'
  BY <1>2 DEF QuotInv, OthersUnused
<1>3. CASE QuotationStep
  <2>1. UNCHANGED used
    BY <1>3 DEF QuotationStep, ReadRealMarketInfo, Store_Quotation, Store_Volume, results
  <2> QED  BY <1>0, <1>2, <1>3, <2>1, CircleQuoted DEF QuotInv
<1>4. CASE UNCHANGED vars
  BY <1>0, <1>1, <1>4 DEF vars, results, QuotInv
<1>5. CASE \E o \in Order : Arrive(o)
  BY <1>0, <1>1, <1>5 DEF Arrive, QuotInv
<1>6. CASE ABStockEnableQuoMatch
  <2>2. CASE Match_Trade
    BY <1>0, <2>2, CircleTraded DEF QuotInv
  <2>3. CASE Quot_Get \/ Match_Error \/ Match_NotMatch \/ Match_CancelRest \/ Quot_Set
    <3>1. UNCHANGED used
      BY <2>3 DEF Quot_Get, Match_Error, Match_NotMatch, Match_CancelRest, Quot_Set, results
    <3>2. CircleInv'
      BY <1>0, <2>3, CircleRead, CircleFreed, CircleWrites DEF QuotInv, OrderInv
    <3> QED  BY <1>0, <1>2, <3>1, <3>2 DEF QuotInv
  <2> QED  BY <1>6, <2>2, <2>3 DEF ABStockEnableQuoMatch
<1> QED  BY <1>3, <1>4, <1>5, <1>6 DEF Next

\* What was used of each offer, what is left of it in the circle and what the
\* thread has in its hands of it add up, whenever a new quotation comes.
THEOREM QuotCircleInvariant ==
    ASSUME CircleWritten, QuotationRead, OneRest
    PROVE  Spec => []QuotInv
<1>1. Init => QuotInv
  BY OrderInit, OfferInit, CircleInit DEF QuotInv
<1>2. QuotInv /\ [Next]_vars => QuotInv'
  BY QuotStep
<1> QED  BY <1>1, <1>2, PTL DEF Spec

\* A circle never trades more against a quotation than the quotation offered, in
\* shares or in money (GetCurrQuotGapByCircle, SetCurrQuotGapByCircle), if the
\* connections use the program's quotation type and, where that is the best
\* price, the circle's orders are on one side.
THEOREM QuotWithinOffer ==
    ASSUME CircleWritten, QuotationRead, OneRest
    PROVE  Spec => []WithinOffer
<1>1. QuotInv => WithinOffer
  <2> SUFFICES ASSUME QuotInv, NEW c \in Circle, NEW f \in OfferField, NEW t \in Time,
                      used[<<c, f, t>>].qty > 0
               PROVE  /\ offered[t] # Nothing
                      /\ used[<<c, f, t>>].qty <= offered[t][f]
                      /\ f = "CJSL" /\ g_Quotation_Type = "AveragePrice" =>
                             used[<<c, f, t>>].value <= offered[t].CJJE
    BY DEF WithinOffer
  <2>1. PICK o \in Order : o.circle = c /\ f = QtyField(o.policy, o.side)
    BY DEF QuotInv, OthersUnused
  <2>2. f = QtyField(g_Quotation_Type, o.side) /\ UsedOf(o, t) = used[<<c, f, t>>]
    BY <2>1 DEF OneRest, UsedOf
  <2>3. PICK u : u = UsedOf(o, t)
    OBVIOUS
  <2>4. u # [qty |-> 0, value |-> 0]
    BY <2>2, <2>3
  <2>5. Within(o, t, 0, 0)
    BY <2>3, <2>4 DEF QuotInv, CircleInv, OneCircleInv, UsedWithin
  <2>6. t \in Known /\ u.qty + 0 <= offered[t][f]
        /\ (g_Quotation_Type = "AveragePrice" => u.value + 0 <= offered[t].CJJE)
    BY <2>1, <2>2, <2>3, <2>5 DEF Within
  <2>7. u.qty \in Nat /\ u.value \in Nat
    BY <2>3, UsedTyped DEF QuotInv, OrderInv
  <2>8. u.qty + 0 = u.qty /\ u.value + 0 = u.value
    BY <2>7
  <2> QED  BY <2>2, <2>3, <2>6, <2>8 DEF Known
<1> QED  BY <1>1, QuotCircleInvariant, PTL
=============================================================================
