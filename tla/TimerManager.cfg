SPECIFICATION MCSpec
CONSTANTS
    t1 = t1
    t2 = t2
    Timers = {t1, t2}
    Null = null
    PerSecond = 3
    TimeOuts <- SomeTimeOuts
    Period <- SomePeriod
    TimePoints <- SomeTimePoints
    StartTime <- First
    MaxTime <- Last
    MaxCalls = 3
    Careful = TRUE
INVARIANTS
    TypeOK
    SortedQueue
    NeverOversleeps
    NoUseAfterFree
PROPERTIES
    DueTimersLeave
    ClientCallsReturn
CHECK_DEADLOCK FALSE
