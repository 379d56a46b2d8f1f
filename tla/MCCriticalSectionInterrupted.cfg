CONSTANTS
    t1 = t1
    t2 = t2
    Task <- TwoTasks
    Idle = Idle
    Main = Main
    BlockList <- OneBlockList
    ReadyTasks = ReadyTasks
    DelayedTasks = DelayedTasks
    NoList = NoList
    BlockedTasks = BlockedTasks
    PriorityRange <- TwoPriorities
    IdlePriority = 2
    TickModulus = 2
    Delays <- SomeDelays
    Interval <- NoInterval
    LatePriority = FALSE
    CounterModulus = 5
SPECIFICATION SectionSpec
INVARIANT
    ExitFindsCounter
CHECK_DEADLOCK FALSE
