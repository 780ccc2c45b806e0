SPECIFICATION GatewaySpec
CONSTANTS
  NoRule = NoRule
  NoEtf = NoEtf
  NoPart = NoPart
  NoPolicy = NoPolicy
  NoId = NoId
  ShRules = {1}
  SzRules = {2}
  Conds <- MCConds
  Fields = {1, 2}
  Lacks <- MCLacks
  Meets <- MCMeets
  RowKinds = {"new", "bad", "wth"}
  Keys <- MCKeys
  ShKey = "sh"
  SzKey = "zweb"
  SzComp = "zcomp"
  Modes <- MCModes
  Switches <- MCSwitches
  EtfErrors = {"count"}
  BadParts = {"sz"}
  MaxEvents = 3
  MaxFaults = 1
  MaxShOrders = 2
  MaxVer = 2
  MaxChanges = 2
  MaxStarts = 2
CHECK_DEADLOCK FALSE
INVARIANTS
  RulesKept
  ConfigurationWhole
  NumbersIncreasing
  OrdersReported
  StartWhole
  EtfSaved
