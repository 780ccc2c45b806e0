SPECIFICATION FairSpec
CONSTANTS
    NumConns = 2
    Kinds <- MCKinds
    Asks <- MCAsks
    MaxOrders = 2
    MaxLogOns = 3
    MaxSyncs = 2
    MaxIndex = 2
CHECK_DEADLOCK FALSE
INVARIANTS
    ReportsAsPushed
    ReportNumbers
PROPERTY ReportsHandled
