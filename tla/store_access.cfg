SPECIFICATION FairSpec
CONSTANTS
  m1 = m1
  m2 = m2
  m3 = m3
  m4 = m4
  NoConn = NoConn
  Nothing = Nothing
  MConn = {m1, m2, m3, m4}
  PoolSize = 1
  MaxTrades = 2
  MaxReads = 2
  MaxTroubles = 1
  MaxExits = 1
  MaxBelow = 1
CHECK_DEADLOCK FALSE
INVARIANTS
  OneUser
  FreshRead
  WrittenInOrder
PROPERTIES
  RowOfTrades
  LoadedInTheEnd
