-------------------------- MODULE MCUserStockHelper --------------------------
(***************************************************************************)
(* UserStockHelper on a small account: one ETF with two components,        *)
(* a handful of orders, counts of four bits.                               *)
(***************************************************************************)
EXTENDS UserStockHelper, TLC

CONSTANTS s1, s2, etf, o1, o2, o3, o4

StockRow(act, rdp, avl) ==
    [stk |-> act + rdp + avl, act |-> act, rdp |-> rdp, avl |-> avl, last |-> 0]

TwoComponents == <<s1, s2>>

\* Two sells that compete for the same shares, a buy and a creation.
TradeKind == o1 :> "sell" @@ o2 :> "sell" @@ o3 :> "buy" @@ o4 :> "etf_crt"
TradeOf == o1 :> s1 @@ o2 :> s1 @@ o3 :> s1 @@ o4 :> etf
TradeQty == o1 :> 3 @@ o2 :> 2 @@ o3 :> 2 @@ o4 :> 2
TradeRows == s1 :> StockRow(1, 1, 3) @@ s2 :> StockRow(2, 0, 0) @@ etf :> Nothing

\* Every kind of ETF order, with an ETF not yet held; s2 can be replaced by cash.
EtfKind == o1 :> "etf_sell" @@ o2 :> "etf_buy" @@ o3 :> "etf_crt" @@ o4 :> "etf_rdp"
EtfOf == o1 :> etf @@ o2 :> etf @@ o3 :> etf @@ o4 :> etf
EtfQty == o1 :> 2 @@ o2 :> 2 @@ o3 :> 2 @@ o4 :> 2
EtfRows == s1 :> StockRow(1, 0, 1) @@ s2 :> StockRow(1, 1, 0) @@ etf :> Nothing

OneShare == [c \in Component |-> 1]
CashForS2 == s1 :> "Only_Security" @@ s2 :> "Security_And_Cash"

Day(kind, of, qty, rows) == [kind |-> kind, of |-> of, qty |-> qty, rows |-> rows]
EtfDay == {Day(EtfKind, EtfOf, EtfQty, EtfRows)}
TwoDays == {Day(TradeKind, TradeOf, TradeQty, TradeRows)} \cup EtfDay

\* A sell that shares from a redemption cover.
RdpDay == {Day([o \in Order |-> "sell"], [o \in Order |-> s1], [o \in Order |-> 2],
               s1 :> StockRow(0, 2, 1) @@ s2 :> Nothing @@ etf :> Nothing)}
=============================================================================
