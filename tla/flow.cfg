SPECIFICATION FairSpec
CONSTANTS
    Msg <- FlowMsgs
    Clordid <- MCClordid
    ValidThreads = 2
    MatchThreads = 2
    iPart_Match_Num = 2
    RedisMayFail = TRUE
    MayLogOff = TRUE
CHECK_DEADLOCK FALSE
INVARIANTS
    QtyConserved
    ReportsInOrder
    OneAnswerPerCancel
PROPERTIES
    CancelMissesNothing
    AllAnswered
