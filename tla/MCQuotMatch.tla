---------------------------- MODULE MCQuotMatch ----------------------------
(* Instances of QuotMatch for TLC.                                         *)
EXTENDS QuotMatch

O(id, side, price, qty, del, c) ==
    [id |-> id, side |-> side, price |-> price, qty |-> qty, del |-> del,
     policy |-> g_Quotation_Type, circle |-> c]

Q(time, cjsl, cjje, tpbz) ==
    [OrigTime |-> time, CJSL |-> cjsl, CJJE |-> cjje, TPBZ |-> tpbz,
     maxgain |-> 6, minfall |-> 1, SJW1 |-> 3, SSL1 |-> 2, BJW1 |-> 2,
     BSL1 |-> 2, ZJJG |-> 2]

\* The day's totals grow by 3 shares for 8, then by 2 for 6; one quotation comes
\* with totals lower than the one before it, one tells of a suspension.
Day == {Q(1, 3, 8, "F"), Q(2, 5, 14, "F"), Q(3, 4, 12, "F"), Q(4, 6, 16, "T")}

\* Buys and a sell in one circle, a buy in another; the third order is of one of
\* the types that differ in what becomes of the rest.
TwoCircles ==
    {O(1, "buy", 3, 2, "ordinary_limit", "C1"), O(2, "buy", 5, 3, "five_and_remainder_hold", "C2"),
     O(3, "buy", 5, 2, "remainder_cancel", "C1"), O(3, "buy", 5, 2, "the_side_optimal", "C1"),
     O(3, "buy", 7, 2, "ordinary_limit", "C1"),
     O(4, "sell", 2, 4, "ordinary_limit", "C1")}

\* Two buys and a sell in one circle; the best offer gets thinner.
OneCircle ==
    {O(1, "buy", 5, 1, "ordinary_limit", "C1"), O(2, "sell", 1, 1, "ordinary_limit", "C1"),
     O(3, "buy", 5, 2, "ordinary_limit", "C1")}
Thinner == {[Q(1, 3, 8, "F") EXCEPT !.SSL1 = 3], [Q(2, 5, 14, "F") EXCEPT !.SSL1 = 1]}

\* More is wanted than is offered.
Remainder == {O(1, "buy", 5, 4, "remainder_cancel", "C1")}
=============================================================================
