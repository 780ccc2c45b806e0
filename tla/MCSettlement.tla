---------------------------- MODULE MCSettlement ----------------------------
(* A day with trades of both markets, two groups, one of them NULL, an ETF  *)
(* creation with its basket, and trades that are recorded late: one of a   *)
(* second seat, one more security of a basket.                             *)
EXTENDS Settlement

Row(i, market, group, seat, type, side, second) ==
    [id |-> i, market |-> market, group |-> group, seat |-> seat, account |-> 1,
     type |-> type, side |-> side, second |-> second, qty |-> i, amount |-> 2 * i]

MCTrades ==
    <<Row(1, "SH", "", 1, "a_trade", "S", FALSE),
      Row(2, "SZ", "g", 1, "etf_crt", "D", TRUE),
      Row(3, "SZ", "g", 1, "etf_crt", "D", FALSE),
      Row(4, "SH", "g", 1, "b_trade", "B", FALSE),
      Row(5, "SZ", "g", 1, "margin_cash", "1", FALSE),
      Row(6, "SZ", "g", 1, "b_trade", "2", FALSE),
      Row(7, "SH", "", 2, "margin_stock", "B", FALSE),
      Row(8, "SZ", "g", 1, "etf_rdp", "E", TRUE)>>

HoldingRow(i, table, market, act, rdp, avl) ==
    [id |-> i, table |-> table, market |-> market, bal |-> act + rdp + avl,
     act |-> act, stp |-> 0, rdp |-> rdp, avl |-> avl]

MCHoldings ==
    <<HoldingRow(1, "stock_asset", "SH", 1, 0, 1), HoldingRow(2, "stock_etf_asset", "SZ", 0, 1, 1)>>

\* All groups, or one of them by its name.
MCRequested == {{}, {"g"}}

Changes(bal, act, rdp, avl) == [bal |-> bal, act |-> act, stp |-> 0, rdp |-> rdp, avl |-> avl]

\* A sale; shares of a creation, and their sale, which leaves the balance as it
\* was.
MCSyncs ==
    {<<1, Changes(-1, 0, 0, -1)>>, <<2, Changes(1, 0, 1, 0)>>, <<2, Changes(0, 0, -1, 0)>>}
=============================================================================
