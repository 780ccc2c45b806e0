SPECIFICATION SettlementSpec
CONSTANTS
  Blank = Blank
  Failed = Failed
  NoFile = NoFile
  Trades <- MCTrades
  Late = {7, 8}
  Orders = {1}
  Holdings <- MCHoldings
  Requested <- MCRequested
  MaxRequests = 2
  MaxFaults = 1
  MaxSyncs = 1
  MaxLate = 1
  Syncs <- MCSyncs
CHECK_DEADLOCK FALSE
INVARIANTS
  FilesExact
  HoldingsSettled
  DayKept
