----------------------------- MODULE QuotMatch -----------------------------
(***************************************************************************)
(* Matching one security against live quotations.  The quotation process   *)
(* (TgwMarketInfoProc) turns the exchange's running totals into the volume *)
(* traded between two quotations and stores it in a Redis hash; the        *)
(* matching thread (Task_ABStockMatch) trades orders against that volume   *)
(* and keeps, in the same hash, what is left of it for each trade circle.  *)
(*                                                                         *)
(* The matching pool is made with one thread (g_values_inner.cpp): the buy *)
(* and the sell orders of a security are on it.  Redis runs one command at *)
(* a time: a step is one command of one thread, or what a thread does      *)
(* between two commands.                                                   *)
(* The share accounts are in UserStockHelper, cancels in OrderFlow.        *)
(***************************************************************************)
EXTENDS Integers, Sequences, FiniteSets, FiniteSetsExt, Functions

CONSTANTS Order,              \* orders that may come
          Feed,               \* quotations the gateway may push
          g_Quotation_Type,   \* the program's quotation type
          MayFail,            \* the Redis commands that may fail
          Nothing             \* a missing field

QuotationType == {"AveragePrice", "SellBuyPrice", "RecentMatchPrice"}

Side == {"buy", "sell"}

HoldType   == {"ordinary_limit", "five_and_remainder_hold", "oppsite_optimal_hold"}
CancelType == {"remainder_cancel", "five_and_remainder_cancel", "all_or_cancel"}
DelType    == HoldType \cup CancelType \cup {"the_side_optimal", "unknown"}

\* del is the order's declaration type, policy the quotation type of its
\* connection's trade policy, circle its trade circle.
ASSUME OrderAssumption ==
    Order \subseteq [id : Nat, side : Side, price : Nat, qty : Nat \ {0},
                     del : DelType, policy : QuotationType, circle : STRING]

\* A quotation: its time, the day's volume and turnover so far, whether the
\* security trades ("F"), the price limits, best prices and volumes, last price.
Quotation == [OrigTime : Nat, CJSL : Nat, CJJE : Nat, TPBZ : {"F", "T"},
              maxgain : Nat, minfall : Nat, SJW1 : Nat, SSL1 : Nat,
              BJW1 : Nat, BSL1 : Nat, ZJJG : Nat]

\* The volume and the turnover between two quotations.
Volume == [CJSL : Nat, CJJE : Nat]

ASSUME FeedAssumption ==
    /\ Feed \subseteq Quotation
    /\ Nothing \notin Quotation \cup Volume \cup Nat

ASSUME ModeAssumption ==
    /\ g_Quotation_Type \in QuotationType
    /\ MayFail \subseteq {"HMGET quotation", "HMSET quotation", "HMSET volume",
                          "HMGET volume", "HMSET circle"}

Circle == {o.circle : o \in Order}
Time == {q.OrigTime : q \in Feed}
OfferField == {"CJSL", "SSL1", "BSL1"}
Field == {"CJSL", "CJJE", "SSL1", "SJW1", "BSL1", "BJW1", "ZJJG", "OrigTime"}

VARIABLES
    quotation,   \* hash AStockQuotTGW_<stock>: the last quotation taken
    live,        \* hash TradeVolume: what the last quotation offers
    circle,      \* hash TradeVolume: what is left of it in each circle
    proc,        \* the quotation thread
    que,         \* orders waiting for the matching thread
    thread,      \* the matching thread
    exec,        \* history: shares of each order booked to the account
    reported,    \* history: shares of each order in trade reports
    ended,       \* history: how each order ended
    offered,     \* history: what each quotation offered
    used         \* history: volume and value reported against each offer

quotes  == <<quotation, live, proc, offered>>
results == <<exec, reported, ended, used>>
vars    == <<quotes, circle, que, thread, results>>

\* Whether a Redis command succeeds.
Succeeds(command) == IF command \in MayFail THEN BOOLEAN ELSE {TRUE}

FreeThread == [pc |-> "get"]

Init ==
    /\ quotation = Nothing
    /\ live = Nothing
    /\ circle = [c \in Circle |-> [f \in Field |-> Nothing]]
    /\ proc = [pc |-> "pop"]
    /\ que = <<>>
    /\ thread = FreeThread
    /\ exec = [o \in Order |-> 0]
    /\ reported = [o \in Order |-> 0]
    /\ ended = [o \in Order |-> "new"]
    /\ offered = [t \in Time |-> Nothing]
    /\ used = [x \in Circle \X OfferField \X Time |-> [qty |-> 0, value |-> 0]]

-----------------------------------------------------------------------------
(* The quotation thread                                                    *)

\* Mutant of CalcQuotationGap: the time of the quotation is not checked.
CalcQuotationGap_AnyTime(q, before) ==
    LET cjsl == IF before = Nothing THEN 0 ELSE before.CJSL
        cjje == IF before = Nothing THEN 0 ELSE before.CJJE
    IN  IF before # Nothing /\ (q.CJSL = cjsl \/ q.CJJE = cjje) THEN Nothing
        ELSE IF q.TPBZ # "F" THEN [CJSL |-> 0, CJJE |-> 0]
        ELSE IF q.CJSL <= cjsl \/ q.CJJE <= cjje THEN Nothing
        ELSE [CJSL |-> q.CJSL - cjsl, CJJE |-> q.CJJE - cjje]

\* Mutant of CalcQuotationGap: the running totals are offered.
CalcQuotationGap_Totals(q, before) ==
    IF before # Nothing /\ q.OrigTime <= before.OrigTime THEN Nothing
    ELSE [CJSL |-> q.CJSL, CJJE |-> q.CJJE]

\* The volume traded since the quotation before; Nothing if the quotation is
\* old, out of order, without new trades or has lower totals.
CalcQuotationGap(q, before) ==
    LET cjsl == IF before = Nothing THEN 0 ELSE before.CJSL
        cjje == IF before = Nothing THEN 0 ELSE before.CJJE
        old == /\ before # Nothing
               /\ q.OrigTime <= before.OrigTime \/ q.CJSL = cjsl \/ q.CJJE = cjje
    IN  IF old THEN Nothing
        ELSE IF q.TPBZ # "F" THEN [CJSL |-> 0, CJJE |-> 0]
        ELSE IF q.CJSL <= cjsl \/ q.CJJE <= cjje THEN Nothing
        ELSE [CJSL |-> q.CJSL - cjsl, CJJE |-> q.CJJE - cjje]

\* LPOP, then the read of the last quotation: a failed one counts as none.
ReadRealMarketInfo ==
    /\ proc.pc = "pop"
    /\ \E q \in Feed, ok \in Succeeds("HMGET quotation") :
         LET gap == CalcQuotationGap(q, IF ok THEN quotation ELSE Nothing)
         IN  /\ gap # Nothing
             /\ proc' = [pc |-> "store", quot |-> q, gap |-> gap]
    /\ UNCHANGED <<quotation, live, offered, circle, que, thread, results>>

\* StoreSelfUseQuotation, first command: the quotation itself.
Store_Quotation ==
    /\ proc.pc = "store"
    /\ \E ok \in Succeeds("HMSET quotation") :
         IF ok THEN /\ quotation' = proc.quot
                    /\ proc' = [proc EXCEPT !.pc = "offer"]
               ELSE /\ proc' = [pc |-> "pop"]
                    /\ UNCHANGED quotation
    /\ UNCHANGED <<live, offered, circle, que, thread, results>>

\* StoreSelfUseQuotation, second command: what it offers.
Store_Volume ==
    /\ proc.pc = "offer"
    /\ \E ok \in Succeeds("HMSET volume") :
         LET offer == [proc.quot EXCEPT !.CJSL = proc.gap.CJSL, !.CJJE = proc.gap.CJJE]
         IN  IF ok THEN /\ live' = offer
                        /\ offered' = [offered EXCEPT ![offer.OrigTime] = offer]
                   ELSE UNCHANGED <<live, offered>>
    /\ proc' = [pc |-> "pop"]
    /\ UNCHANGED <<quotation, circle, que, thread, results>>

-----------------------------------------------------------------------------
(* The circle's share of a quotation: MarketInfoHelper                     *)

QtyField(type, side) ==
    CASE type = "SellBuyPrice" /\ side = "buy" -> "SSL1"
      [] type = "SellBuyPrice" /\ side = "sell" -> "BSL1"
      [] OTHER -> "CJSL"

\* The turnover, or in the other two types a price.
ValueField(type, side) ==
    CASE type = "SellBuyPrice" /\ side = "buy" -> "SJW1"
      [] type = "SellBuyPrice" /\ side = "sell" -> "BJW1"
      [] type = "RecentMatchPrice" -> "ZJJG"
      [] OTHER -> "CJJE"

\* The circle's values are those of the live quotation.
IsInStep(c, qty, value) ==
    /\ c[qty] # Nothing /\ c[value] # Nothing /\ c.OrigTime # Nothing
    /\ c.OrigTime = live.OrigTime

\* What order o may trade: the circle's rest if it is of the live quotation,
\* the live quotation's own volume otherwise.
GetCurrQuotGapByCircle(o) ==
    LET c == circle[o.circle]
        qty == QtyField(o.policy, o.side)
        value == ValueField(o.policy, o.side)
        inStep == IsInStep(c, qty, value)
        cjsl == IF inStep THEN c[qty] ELSE live[qty]
        v == IF inStep THEN c[value] ELSE live[value]
    IN  [cjsl |-> cjsl,
         cjje |-> IF o.policy = "AveragePrice" THEN v ELSE v * cjsl,
         hqsj |-> live.OrigTime, tpbz |-> live.TPBZ,
         maxgain |-> live.maxgain, minfall |-> live.minfall]

\* The circle of order o after the volume cjsl and the value cjje are left; the
\* fields are chosen by the program's quotation type, not by the order's.
SetCurrQuotGapByCircle(o, cjsl, cjje, hqsj) ==
    LET qty == QtyField(g_Quotation_Type, o.side)
        value == ValueField(g_Quotation_Type, o.side)
        v == CASE g_Quotation_Type = "AveragePrice" -> cjje
               [] g_Quotation_Type # "AveragePrice" /\ cjsl # 0 -> cjje \div cjsl
               [] OTHER -> 0
    IN  circle' = [circle EXCEPT ![o.circle] =
                     [@ EXCEPT ![qty] = cjsl, ![value] = v, !.OrigTime = hqsj]]

-----------------------------------------------------------------------------
(* The matching thread                                                     *)

At(pc) == thread.pc = pc

\* GenTask_Match puts an order, new or not done, at the end of the queue.
Queued(o, leaves) == que' = Append(que, [order |-> o, leaves |-> leaves])

Arrive(o) ==
    /\ \A x \in Order : x.id = o.id => ended[x] = "new"
    /\ Queued(o, o.qty)
    /\ ended' = [ended EXCEPT ![o] = "open"]
    /\ UNCHANGED <<quotes, circle, thread, exec, reported, used>>

\* Quot_MatchOrder takes an order and reads its gap; without one the order
\* goes back.
Quot_Get ==
    /\ At("get")
    /\ que # <<>>
    /\ \E ok \in Succeeds("HMGET volume") :
         LET t == Head(que)
         IN  IF ok /\ live # Nothing
             THEN /\ que' = Tail(que)
                  /\ thread' = [pc |-> "match", order |-> t.order, leaves |-> t.leaves,
                              gap |-> GetCurrQuotGapByCircle(t.order)]
             ELSE /\ que' = Append(Tail(que), t)
                  /\ UNCHANGED thread
    /\ UNCHANGED <<quotes, circle, results>>

AveragePrice(gap) == gap.cjje \div gap.cjsl

\* Check_MaxGain_And_MinFall; two zeros mean no limits.
InRange(o, gap) ==
    \/ gap.maxgain = 0 /\ gap.minfall = 0
    \/ gap.minfall <= o.price /\ o.price <= gap.maxgain

\* Check_Match_Method: a limit order does not trade at a worse price.
PriceFits(o, gap) ==
    o.del = "ordinary_limit" =>
        IF o.side = "buy" THEN o.price >= AveragePrice(gap)
                          ELSE o.price <= AveragePrice(gap)

\* Quot_MatchByMarket and the Match_ function of the declaration type.
Quot_MatchByMarket(o, leaves, gap) ==
    CASE gap.tpbz # "F" -> "StopTrans"
      [] gap.tpbz = "F" /\ (gap.cjsl = 0 \/ gap.cjje = 0) -> "NotMatch"
      [] OTHER ->
           CASE o.del = "unknown" -> "OutOfRange"
             [] o.del = "ordinary_limit" /\ ~InRange(o, gap) -> "OutOfRange"
             [] OTHER ->
                  CASE ~PriceFits(o, gap) -> "NotMatch"
                    [] PriceFits(o, gap) /\ gap.cjsl >= leaves -> "MatchAll"
                    [] OTHER -> IF o.del \in CancelType THEN "CancelMatch" ELSE "MatchPart"

\* The answer to the order in the thread's hands.
Result == Quot_MatchByMarket(thread.order, thread.leaves, thread.gap)

End(o, how) == ended' = [ended EXCEPT ![o] = how]

\* Suspended, out of range, of unknown type: the order is refused.
Match_Error ==
    /\ At("match")
    /\ Result \in {"StopTrans", "OutOfRange"}
    /\ End(thread.order, "ErrorMatch")
    /\ thread' = FreeThread
    /\ UNCHANGED <<quotes, circle, que, exec, reported, used>>

Match_NotMatch ==
    /\ At("match")
    /\ Result = "NotMatch"
    /\ Queued(thread.order, thread.leaves)
    /\ thread' = FreeThread
    /\ UNCHANGED <<quotes, circle, results>>

\* The booking of n shares to the account (UpdateAfterTrade).
Booked(o, n) == exec' = [exec EXCEPT ![o] = @ + n]

\* A part is traded and the rest cancelled: the cancel report takes the place of
\* the trade report, and the volume is not written back.
Match_CancelRest ==
    LET o == thread.order IN
    /\ At("match")
    /\ Result = "CancelMatch"
    /\ Booked(o, thread.gap.cjsl)
    /\ End(o, "CancelMatch")
    /\ thread' = FreeThread
    /\ UNCHANGED <<quotes, circle, que, reported, used>>

\* Mutant of OpenAfter: a part leaves the open quantity as it was.
OpenAfter_Whole(n) == thread.leaves

\* LeavesQty after a trade of n shares: the code leaves that of a filled order
\* as it was.
OpenAfter(n) == IF Result = "MatchAll" THEN thread.leaves ELSE thread.leaves - n

\* Mutant of LeftOver: the open quantity is deducted, also when less is traded.
LeftOver_Leaves(n) ==
    LET gap == thread.gap IN
    [cjsl |-> gap.cjsl - thread.leaves,
     cjje |-> gap.cjje - thread.leaves * AveragePrice(gap)]

\* What n traded shares leave of the gap; a part takes the whole value.
LeftOver(n) ==
    LET gap == thread.gap IN
    IF Result = "MatchAll"
    THEN [cjsl |-> gap.cjsl - n, cjje |-> gap.cjje - n * AveragePrice(gap)]
    ELSE [cjsl |-> 0, cjje |-> 0]

\* A trade, in full or in part, is booked and its report is pushed.
Match_Trade ==
    LET o == thread.order
        gap == thread.gap
        n == Min({thread.leaves, gap.cjsl})
    IN  /\ At("match")
        /\ Result \in {"MatchAll", "MatchPart"}
        /\ Booked(o, n)
        /\ reported' = [reported EXCEPT ![o] = @ + n]
        /\ used' = [used EXCEPT ![<<o.circle, QtyField(o.policy, o.side), gap.hqsj>>] =
                       [qty |-> @.qty + n, value |-> @.value + n * AveragePrice(gap)]]
        /\ thread' = [pc |-> "set", order |-> o, leaves |-> OpenAfter(n),
                      res |-> Result, rest |-> LeftOver(n), hqsj |-> gap.hqsj]
        /\ UNCHANGED <<quotes, circle, que, ended>>

\* Mutant of Quot_Set: what is left is not written back.
Quot_Set_NoWrite ==
    LET t == thread IN
    /\ At("set")
    /\ IF t.res = "MatchAll"
       THEN End(t.order, "MatchAll") /\ UNCHANGED que
       ELSE Queued(t.order, t.leaves) /\ UNCHANGED ended
    /\ thread' = FreeThread
    /\ UNCHANGED <<quotes, circle, exec, reported, used>>

\* What is left is written back.  If that fails the order is treated as not
\* matched.  The rest of a part goes back to the queue for three types.
Quot_Set ==
    LET t == thread IN
    /\ At("set")
    /\ \E ok \in Succeeds("HMSET circle") :
         /\ IF ok THEN SetCurrQuotGapByCircle(t.order, t.rest.cjsl, t.rest.cjje, t.hqsj)
                  ELSE UNCHANGED circle
         /\ \/ /\ ok /\ t.res = "MatchAll"
               /\ End(t.order, "MatchAll") /\ UNCHANGED que
            \/ /\ ok /\ t.res = "MatchPart" /\ t.order.del \notin HoldType
               /\ End(t.order, "dropped") /\ UNCHANGED que
            \/ /\ ok => t.res = "MatchPart" /\ t.order.del \in HoldType
               /\ Queued(t.order, t.leaves) /\ UNCHANGED ended
    /\ thread' = FreeThread
    /\ UNCHANGED <<quotes, exec, reported, used>>

-----------------------------------------------------------------------------
QuotationStep == ReadRealMarketInfo \/ Store_Quotation \/ Store_Volume

ABStockEnableQuoMatch ==
    \/ Quot_Get \/ Match_Error \/ Match_NotMatch \/ Match_CancelRest
    \/ Match_Trade \/ Quot_Set

Next ==
    \/ QuotationStep
    \/ \E o \in Order : Arrive(o)
    \/ ABStockEnableQuoMatch

Spec == Init /\ [][Next]_vars

-----------------------------------------------------------------------------
(* Properties                                                              *)

Gap == [cjsl : Nat, cjje : Nat, hqsj : Nat, tpbz : {"F", "T"},
        maxgain : Nat, minfall : Nat]

Waiting  == [order : Order, leaves : Nat \ {0}]
Matching == [pc : {"match"}, order : Order, leaves : Nat \ {0}, gap : Gap]
Setting  == [pc : {"set"}, order : Order, leaves : Nat \ {0}, hqsj : Nat,
             res : {"MatchAll", "MatchPart"}, rest : [cjsl : Nat, cjje : Nat]]

TypeOK ==
    /\ quotation \in Feed \cup {Nothing}
    /\ live \in Quotation \cup {Nothing}
    /\ offered \in [Time -> Quotation \cup {Nothing}]
    /\ proc \in [pc : {"pop"}] \cup [pc : {"store", "offer"}, quot : Feed, gap : Volume]
    /\ circle \in [Circle -> [Field -> Nat \cup {Nothing}]]
    /\ que \in Seq(Waiting)
    /\ thread \in {FreeThread} \cup Matching \cup Setting
    /\ exec \in [Order -> Nat] /\ reported \in [Order -> Nat]
    /\ ended \in [Order -> {"new", "open", "MatchAll", "CancelMatch", "ErrorMatch", "dropped"}]
    /\ used \in [Circle \X OfferField \X Time -> [qty : Nat, value : Nat]]

\* No order trades more than its quantity, and what waits in the queue is what
\* it has not yet traded, over any number of parts and quotations
\* (Match_Ordinary_Limit, Quot_MatchOrder, GenTask_Match).
QtyExact ==
    /\ TypeOK
    /\ \A o \in Order : /\ exec[o] <= o.qty
                        /\ ended[o] = "MatchAll" => exec[o] = o.qty
    /\ \A i \in 1..Len(que) :
          exec[que[i].order] + que[i].leaves = que[i].order.qty

\* The trades reported in a circle against one quotation are within what the
\* quotation offered, in shares and in money, although a new quotation may
\* arrive between the read of the circle's rest and its write, which then goes
\* into a circle that is out of step (GetCurrQuotGapByCircle,
\* SetCurrQuotGapByCircle).
WithinOffer ==
    \A c \in Circle, f \in OfferField, t \in Time :
        used[<<c, f, t>>].qty > 0 =>
            /\ offered[t] # Nothing
            /\ used[<<c, f, t>>].qty <= offered[t][f]
            /\ f = "CJSL" /\ g_Quotation_Type = "AveragePrice" =>
                   used[<<c, f, t>>].value <= offered[t].CJJE

\* The volumes offered never add up to more than the exchange has traded,
\* although quotations come late, twice or out of order and a command may fail
\* after the one before it succeeded (CalcQuotationGap, StoreSelfUseQuotation).
OffersAddUp ==
    LET known == {t \in Time : offered[t] # Nothing}
    IN  known # {} => SumFunction([t \in known |-> offered[t].CJSL]) <= quotation.CJSL

\* No circle, and nothing the thread is about to write to one, is ahead of the
\* live quotation, and the live quotation never goes back in time: the branch
\* GetCurrQuotGapByCircle logs as an unknown error is not taken.
NeverAhead ==
    /\ \A c \in Circle : circle[c].OrigTime # Nothing => circle[c].OrigTime <= live.OrigTime
    /\ At("set") => thread.hqsj <= live.OrigTime
    /\ live # Nothing => live.OrigTime <= quotation.OrigTime

\* What one quotation offers begins where the one before it ended, in time and
\* in volume.
OffersInStep == OffersAddUp /\ NeverAhead

\* What the comment of Match_Optimal_And_Remainder_Cancel says
\* (Task_ABStockMatch.cpp: "trade at the market's average price, cancel the
\* part not traded"): the shares traded are in a trade report.
TradesReported == reported = exec
=============================================================================
