SPECIFICATION Spec
CONSTANTS
    Task <- MixedTasks
    Key <- MCKey
    Cliordid <- MCCliordid
    MAX_QUEUE_SIZE = 4
INVARIANTS
    TaskInOnePlace
    CountIsExact
    OrderedInsert
PROPERTY PoolSpec
