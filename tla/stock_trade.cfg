SPECIFICATION Spec
CONSTANTS
  Modulus = 16
  Etf = etf
  Nothing = Nothing
  s1 = s1
  s2 = s2
  etf = etf
  o1 = o1
  o2 = o2
  o3 = o3
  o4 = o4
  Share <- OneShare
  Unit = 1
  Order = {o1, o2, o3, o4}
  Days <- TwoDays
  Components <- TwoComponents
  Substitute <- CashForS2
  WriteMayFail = TRUE
INVARIANTS
  FrozenByOrders
  SharesConserved
  RowFollowsCache
PROPERTY OnlyTradesChangeBalances
CHECK_DEADLOCK FALSE
