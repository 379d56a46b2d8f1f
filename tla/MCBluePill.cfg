CONSTANTS
    task1 = task1
    task2 = task2
    temperatureValueSemaphore = temperatureValueSemaphore
    Task <- BothTasks
    Idle = Idle
    Main = Main
    BlockList <- OneSemaphore
    ReadyTasks = ReadyTasks
    DelayedTasks = DelayedTasks
    NoList = NoList
    PriorityRange <- TwoPriorities
    IdlePriority = 2
    TickModulus = 5
    Delays <- ShortDelays
    Interval <- NoInterval
    LatePriority = FALSE
    InitialCounter <- Empty
    MaxCounter <- TwoTokens
    ReleaseCounts <- JustOne
    MovesBlockedTasks = FALSE
    BlinkDelay = 3
    ColumnDelay = 2
    Columns = 3
SPECIFICATION FairBluePillSpec
PROPERTIES
    RealMainIsLeftByATick
    StartedTasksRun
