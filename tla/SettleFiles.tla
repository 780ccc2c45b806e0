---------------------------- MODULE SettleFiles ----------------------------
(***************************************************************************)
(* What a settlement writes: the columns of each dBASE file and the values *)
(* a trade (a row t of order_match) or a holding (a row s of stock_asset   *)
(* or stock_etf_asset) fills into them.  Values a file only copies are     *)
(* opaque: Copy(t, c) is the text of column c of t.  A column that is not  *)
(* filled keeps its spaces.                                                *)
(***************************************************************************)
EXTENDS DbfFile, TLC

Copy(t, c) == <<t.id, c>>

EtfType == {"etf_crt", "etf_rdp"}
TradeType == {"a_trade", "b_trade", "margin_cash", "margin_stock", "etf_buy", "etf_sell"}
             \cup EtfType

Signed(t, negative, v) == IF t.side \in negative THEN -v ELSE v

-----------------------------------------------------------------------------
(* Shanghai                                                                *)

\* Transfers of A shares.
DBF_gh ==
    <<C("Gddm", 10), C("Gdxm", 8), C("Bcrq", 8), N("Cjbh", 8, 0), C("Gsdm", 8),
      N("Cjsl", 10, 0), N("Bcye", 10, 0), C("zqdm", 6), C("sbsj", 6),
      C("cjsj", 6), N("cjjg", 8, 3), N("cjje", 12, 2), C("sqbh", 10),
      C("bs", 1), C("mjbh", 5)>>

DBF_Value_gh(t) ==
    [Gddm |-> t.account, Gdxm |-> " ", Bcrq |-> Copy(t, "trade_date"),
     Cjbh |-> t.id, Gsdm |-> t.seat, Cjsl |-> t.qty, Bcye |-> 0,
     zqdm |-> Copy(t, "securityid"), sbsj |-> Copy(t, "order_time"),
     cjsj |-> Copy(t, "trade_time"), cjjg |-> Copy(t, "match_price"), cjje |-> t.amount,
     sqbh |-> Copy(t, "clordid"), bs |-> t.side, mjbh |-> "simu "]

\* Trades of B shares: what was traded.
DBF_bc1_Trade ==
    <<C("SSCCRC_ID", 15), C("SSE_ORDER", 16), C("SSE_REF", 16),
      C("INV_CODE", 10), C("SEC_CODE", 6), C("TRADE_DATE", 8), C("BS", 1),
      N("PRICE", 8, 3), N("VOLUME", 10, 0), N("TRADE_VAL", 13, 2),
      C("ORDER_TIME", 6), C("TRADE_TIME", 6), C("SEAT_ID", 5)>>

\* Trades of B shares: how it is settled.
DBF_bc1_Settle ==
    <<C("TRADE_CP", 5), C("SETTLE_CP", 5), C("CP_ORDER", 16),
      C("SETTLEDATE", 8), N("STAMP_DUTY", 12, 2), N("SSE_CHARGE", 12, 2),
      N("TRANSF_FEE", 12, 2), N("CLEAR_FEE", 12, 2), N("OTHER_FEE", 12, 2),
      N("TOTAL_FEE", 12, 2), N("SETTLE_AMT", 13, 2)>>

DBF_bc1 == DBF_bc1_Trade \o DBF_bc1_Settle

BuySell(t) == CASE t.side = "1" -> "B" [] t.side = "2" -> "S" [] OTHER -> t.side

Bc1_Trade(t) ==
    [SSCCRC_ID |-> t.id, SSE_ORDER |-> Copy(t, "clordid"), SSE_REF |-> Copy(t, "orderid"),
     INV_CODE |-> t.account, SEC_CODE |-> Copy(t, "securityid"),
     TRADE_DATE |-> Copy(t, "trade_date"), BS |-> BuySell(t),
     PRICE |-> Copy(t, "match_price"), VOLUME |-> Signed(t, {"2"}, t.qty)]

Bc1_Settle(t) ==
    [TRADE_VAL |-> Signed(t, {"S", "2"}, t.amount), ORDER_TIME |-> Copy(t, "order_time"),
     TRADE_TIME |-> Copy(t, "trade_time"), SEAT_ID |-> t.seat,
     CP_ORDER |-> Copy(t, "clordid"), SETTLEDATE |-> Copy(t, "order_date+3"),
     STAMP_DUTY |-> 0, SSE_CHARGE |-> 0, TRANSF_FEE |-> 0, CLEAR_FEE |-> 0,
     OTHER_FEE |-> 0, TOTAL_FEE |-> 0, SETTLE_AMT |-> Signed(t, {"S", "2"}, t.amount)]

DBF_Value_bc1(t) == Bc1_Trade(t) @@ Bc1_Settle(t)

\* Changes of holdings.
DBF_zqbd ==
    <<C("SCDM", 2), C("QSBH", 8), C("ZQZH", 10), C("XWH", 10), C("ZQDM", 6),
      C("ZQLB", 2), C("LTLX", 1), C("QYLB", 2), C("GPNF", 4), C("BDSL", 16),
      C("BDLX", 3), C("BDRQ", 8), C("SL", 16), C("BH", 20), C("BY", 20)>>

\* Everything but the quantity is computed and then dropped, and the date is
\* looked for under a name the query does not select.
DBF_Value_zqbd(t) == [BDSL |-> t.qty]

\* Holdings of the day, and of the next day.
DBF_zqye ==
    <<C("SCDM", 2), C("QSBH", 8), C("ZQZH", 10), C("XWH", 5), C("ZQDM", 6),
      C("ZQLB", 2), C("LTLX", 1), C("QYLB", 2), C("GPNF", 4), C("YE1", 16),
      C("YE2", 16), C("BY", 12), C("JZRQ", 8)>>

\* The balance is a text, the next day's purchases are added to the number
\* beside it that is not written.
DBF_Value_zqye(s, nextDay) ==
    [SCDM |-> "01", QSBH |-> s.id, ZQZH |-> Copy(s, "account_id"),
     ZQDM |-> Copy(s, "stock_id"), ZQLB |-> "PT", LTLX |-> "N", GPNF |-> "0",
     YE1 |-> s.bal, YE2 |-> "0", JZRQ |-> Copy(s, "oper_time")]

-----------------------------------------------------------------------------
(* Shenzhen                                                                *)

\* Details of trades: the order and what was traded.
DBF_SJSMXn_Order ==
    <<C("MXJSZH", 6), C("MXBFZH", 25), C("MXSJLX", 2), C("MXYWLB", 4),
      C("MXZQDM", 8), C("MXJYDY", 6), C("MXTGDY", 6), C("MXZQZH", 20),
      C("MXDDBH", 24), C("MXYYB", 4), C("MXZXBH", 16), C("MXYWLSH", 16),
      N("MXCJSL", 15, 2), N("MXQSSL", 15, 2), N("MXCJJG", 13, 4),
      N("MXQSJG", 18, 9)>>

\* Details of trades: class and money.
DBF_SJSMXn_Money ==
    <<C("MXXYJY", 1), C("MXPCBS", 1), C("MXZQLB", 2), C("MXZQZL", 2),
      C("MXGFXZ", 2), C("MXJSFS", 1), C("MXHBDH", 3), N("MXQSBJ", 17, 2),
      N("MXYHS", 17, 2), N("MXJYJSF", 12, 2), N("MXJGGF", 12, 2),
      N("MXGHF", 12, 2), N("MXJSF", 12, 2), N("MXSXF", 12, 2),
      N("MXQSYJ", 12, 2), N("MXQTFY", 12, 2), N("MXZJJE", 17, 2),
      N("MXSFJE", 18, 2)>>

\* Details of trades: dates and reserved columns.
DBF_SJSMXn_Dates ==
    <<C("MXCJRQ", 8), C("MXQSRQ", 8), C("MXJSRQ", 8), C("MXFSRQ", 8),
      C("MXQTRQ", 8), C("MXSCDM", 2), C("MXJYFS", 2), C("MXZQDM2", 8),
      C("MXTGDY2", 6), C("MXDDBH2", 16), C("MXCWDH", 4), C("MXPPHM", 10),
      C("MXFJSM", 30), C("MXBYBZ", 1)>>

DBF_SJSMXn == DBF_SJSMXn_Order \o DBF_SJSMXn_Money \o DBF_SJSMXn_Dates

IsEtf(t) == t.type \in EtfType

\* MXYWLB; a row without security_id2 is the ETF itself, one with it a
\* security of its basket.
MX1_Business(t) ==
    [MXYWLB |-> CASE t.type = "etf_crt" /\ ~t.second -> "SGSF"
                  [] t.type = "etf_crt" /\ t.second -> "SGSQ"
                  [] t.type = "etf_rdp" /\ ~t.second -> "SHSF"
                  [] t.type = "etf_rdp" /\ t.second -> "SHSQ"
                  [] OTHER -> "JY00",
     MXJSZH |-> "stgw01", MXBFZH |-> "bfzh_12345", MXSJLX |-> "01"]

MX1_Order(t) ==
    [MXZQDM |-> Copy(t, "securityid"), MXJYDY |-> t.seat, MXTGDY |-> t.seat,
     MXZQZH |-> t.account, MXDDBH |-> Copy(t, "clordid"),
     MXYYB |-> Copy(t, "market_branchid"), MXZXBH |-> Copy(t, "execid"),
     MXYWLSH |-> Copy(t, "orderid")]

\* Quantities and prices; an ETF row has the quantity only.
MX1_Quantity(t) ==
    LET qty == Signed(t, {"2"}, t.qty)
    IN  [MXCJSL |-> qty] @@
        IF IsEtf(t) THEN <<>>
        ELSE [MXQSSL |-> qty, MXCJJG |-> Copy(t, "match_price"), MXQSJG |-> Copy(t, "match_price")]

Margin(t) == CASE t.type = "margin_cash" -> "1" [] t.type = "margin_stock" -> "2" [] OTHER -> ""

MX1_Class(t) ==
    [MXGFXZ |-> "00", MXHBDH |-> "RMB",
     MXZQLB |-> IF IsEtf(t) THEN "EF" ELSE "00",
     MXJSFS |-> IF IsEtf(t) /\ ~t.second THEN "Y" ELSE "A"] @@
    (IF IsEtf(t) THEN [MXZQZL |-> "0"] ELSE [MXXYJY |-> Margin(t)])

\* What is paid for a purchase is negative; an ETF row has no money.
MX1_Money(t) ==
    LET money == Signed(t, {"B", "1", "D"}, t.amount)
    IN  [MXYHS |-> 0, MXJYJSF |-> 0, MXJGGF |-> 0, MXGHF |-> 0, MXJSF |-> 0,
         MXSXF |-> 0, MXQSYJ |-> 0, MXQTFY |-> 0, MXZJJE |-> 0] @@
        IF IsEtf(t) THEN <<>> ELSE [MXQSBJ |-> money, MXSFJE |-> money]

MX1_Dates(t) ==
    [MXCJRQ |-> Copy(t, "date"), MXQSRQ |-> Copy(t, "date"), MXJSRQ |-> Copy(t, "date+1"),
     MXFSRQ |-> Copy(t, "date"), MXJYFS |-> IF IsEtf(t) THEN "03" ELSE "01"] @@
    (IF IsEtf(t) /\ t.second THEN [MXZQDM2 |-> Copy(t, "security_id2")] ELSE <<>>)

DBF_Value_SJSMX1(t) ==
    MX1_Business(t) @@ MX1_Order(t) @@ MX1_Quantity(t) @@ MX1_Class(t) @@ MX1_Money(t)
        @@ MX1_Dates(t)

\* B shares: the second MXZQLB is meant for MXGFXZ.
MX2_Order(t) ==
    [MXSJLX |-> "02", MXYWLB |-> "BG1C", MXTGDY2 |-> t.seat,
     MXCJSL |-> Signed(t, {"2"}, t.qty), MXQSSL |-> Signed(t, {"2"}, t.qty),
     MXCJJG |-> Copy(t, "match_price"), MXQSJG |-> Copy(t, "match_price")] @@ MX1_Order(t)

\* Mutant of MX2_Money: the sign of a sale, as in Shanghai.
MX2_Money_AsShanghai(t) ==
    LET money == Signed(t, {"S", "2"}, t.amount)
    IN  [MXQSBJ |-> money, MXSFJE |-> money]

MX2_Money(t) ==
    LET money == Signed(t, {"B", "1"}, t.amount)
    IN  [MXZQLB |-> "00", MXJSFS |-> "A", MXHBDH |-> "HKD",
         MXQSBJ |-> money, MXYHS |-> 0, MXJYJSF |-> 0, MXJGGF |-> 0, MXGHF |-> 0,
         MXJSF |-> 0, MXSXF |-> 0, MXQSYJ |-> 0, MXQTFY |-> 0, MXZJJE |-> 0,
         MXSFJE |-> money]

MX2_Dates(t) ==
    [MXCJRQ |-> Copy(t, "date"), MXQSRQ |-> Copy(t, "date"), MXJSRQ |-> Copy(t, "date+3"),
     MXFSRQ |-> Copy(t, "date"), MXQTRQ |-> Copy(t, "date"), MXJYFS |-> "01"]

DBF_Value_SJSMX2(t) == MX2_Order(t) @@ MX2_Money(t) @@ MX2_Dates(t)

\* Results: the order and what was traded.
DBF_SJSJG_Order ==
    <<C("JGJSZH", 6), C("JGBFZH", 25), C("JGSJLX", 2), C("JGYWLB", 4),
      C("JGZQDM", 8), C("JGJYDY", 6), C("JGTGDY", 6), C("JGZQZH", 20),
      C("JGDDBH", 24), C("JGYYB", 4), C("JGZXBH", 16), C("JGYWLSH", 16),
      N("JGCJSL", 15, 2), N("JGQSSL", 15, 2), N("JGJSSL", 15, 2),
      N("JGCJJG", 13, 4), N("JGQSJG", 18, 9), C("JGXYJY", 1)>>

\* Results: class and money.
DBF_SJSJG_Money ==
    <<C("JGPCBS", 1), C("JGZQLB", 2), C("JGZQZL", 2), C("JGGFXZ", 2),
      C("JGLTLX", 1), C("JGJSFS", 1), C("JGHBDH", 3), N("JGQSBJ", 17, 2),
      N("JGYHS", 12, 2), N("JGJYJSF", 12, 2), N("JGJGGF", 12, 2),
      N("JGGHF", 12, 2), N("JGJSF", 12, 2), N("JGSXF", 12, 2),
      N("JGQSYJ", 12, 2), N("JGQTFY", 12, 2), N("JGZJJE", 17, 2),
      N("JGSFJE", 18, 2)>>

\* Results: dates and reserved columns.
DBF_SJSJG_Dates ==
    <<C("JGJSBZ", 1), C("JGZYDH", 4), C("JGCJRQ", 8), C("JGQSRQ", 8),
      C("JGJSRQ", 8), C("JGFSRQ", 8), C("JGQTRQ", 8), C("JGSCDM", 2),
      C("JGJYFS", 2), C("JGZQDM2", 8), C("JGTGDY2", 6), C("JGDDBH2", 16),
      C("JGFJSM", 100), C("JGBYBZ", 1)>>

DBF_SJSJG == DBF_SJSJG_Order \o DBF_SJSJG_Money \o DBF_SJSJG_Dates

JG_Order(t) ==
    [JGZQDM |-> Copy(t, "securityid"), JGJYDY |-> t.seat, JGTGDY |-> t.seat,
     JGZQZH |-> t.account, JGDDBH |-> Copy(t, "clordid"),
     JGYYB |-> Copy(t, "market_branchid"), JGZXBH |-> Copy(t, "execid"),
     JGYWLSH |-> Copy(t, "orderid")]

JG_Quantity(t) ==
    LET qty == Signed(t, {"2"}, t.qty)
    IN  [JGJSZH |-> "stgw01", JGBFZH |-> "bfzh_12345", JGSJLX |-> "01",
         JGYWLB |-> IF IsEtf(t) THEN "EFXC" ELSE "JY00",
         JGCJSL |-> qty, JGQSSL |-> qty, JGJSSL |-> qty,
         JGCJJG |-> Copy(t, "match_price"), JGQSJG |-> Copy(t, "match_price")]

JG_Class(t) ==
    [JGXYJY |-> Margin(t), JGZQLB |-> IF IsEtf(t) THEN "EF" ELSE "00", JGGFXZ |-> "00",
     JGJSFS |-> IF IsEtf(t) THEN "Z" ELSE "A", JGHBDH |-> "RMB"] @@
    (IF IsEtf(t) THEN [JGZQZL |-> "0", JGJSBZ |-> "Y"] ELSE <<>>)

JG_Money(t) ==
    LET money == Signed(t, {"B", "1"}, t.amount)
    IN  [JGQSBJ |-> money, JGYHS |-> 0, JGJYJSF |-> 0, JGJGGF |-> 0, JGGHF |-> 0,
         JGJSF |-> 0, JGSXF |-> 0, JGQSYJ |-> 0, JGQTFY |-> 0, JGZJJE |-> 0,
         JGSFJE |-> money]

JG_Dates(t) ==
    [JGCJRQ |-> Copy(t, "date"), JGQSRQ |-> Copy(t, "date"), JGJSRQ |-> Copy(t, "date+1"),
     JGFSRQ |-> Copy(t, "date"), JGJYFS |-> IF IsEtf(t) THEN "03" ELSE "01"]

\* DBF_Value_SJSJG returns 1 for a security of a basket: no row for it.
SJSJG_Skips(t) == IsEtf(t) /\ t.second

DBF_Value_SJSJG(t) ==
    JG_Order(t) @@ JG_Quantity(t) @@ JG_Class(t) @@ JG_Money(t) @@ JG_Dates(t)

\* Holdings of the day, and of the next day.
DBF_SJSDZ ==
    <<C("DZTGDY", 6), C("DZZQDM", 8), C("DZZQZH", 20), C("DZGFXZ", 2),
      C("DZLTLX", 1), N("DZZYGS", 17, 2), C("DZFSRQ", 8), C("DZBYBZ", 1)>>

DBF_Value_SJSDZ(s, nextDay) ==
    [DZTGDY |-> "stgw01", DZZQDM |-> Copy(s, "stock_id"), DZZQZH |-> Copy(s, "account_id"),
     DZGFXZ |-> "00", DZLTLX |-> "0",
     DZZYGS |-> s.avl + IF nextDay THEN s.act + s.stp + s.rdp ELSE 0,
     DZFSRQ |-> Copy(s, "oper_time")]

=============================================================================
