CONSTANTS
    t1 = t1
    t2 = t2
    b = b
    Task <- TwoTasks
    Idle = Idle
    Main = Main
    BlockList <- OneList
    ReadyTasks = ReadyTasks
    DelayedTasks = DelayedTasks
    NoList = NoList
    PriorityRange <- TwoPriorities
    IdlePriority = 2
    TickModulus = 4
    Delays <- AllTicks
    Interval <- OneInterval
    LatePriority = TRUE
    Durations <- SomeDurations
    TickLength = 3
SPECIFICATION TimingSpec
INVARIANTS
    TypeOK
    ListsConsistent
    NoTaskLost
    IdleIsLastReady
    RunningTaskIsReady
    HookPointsToLiveFrame
PROPERTIES
    DelaysAreExact
