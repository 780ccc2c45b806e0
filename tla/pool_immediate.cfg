SPECIFICATION FairSpec
CONSTANTS
    t1 = t1
    t2 = t2
    t3 = t3
    p1 = p1
    Task <- MCTask3
    Nothing = Nothing
    Again = {t1}
    ThreadNums = 2
    Producer <- MCProducer
    StopBy = "StopPool"
    QuietStop = FALSE
CHECK_DEADLOCK FALSE
PROPERTIES
    TaskProcessed
    ThreadEnds
