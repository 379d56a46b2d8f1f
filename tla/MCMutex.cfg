CONSTANTS
    t1 = t1
    t2 = t2
    t3 = t3
    m1 = m1
    Task <- ThreeTasks
    Idle = Idle
    Main = Main
    BlockList <- OneMutex
    ReadyTasks = ReadyTasks
    DelayedTasks = DelayedTasks
    NoList = NoList
    PriorityRange <- TwoPriorities
    IdlePriority = 2
    TickModulus = 2
    Delays <- NoDelay
    Interval <- NoInterval
    LatePriority = FALSE
    NoTask = NoTask
    OwnersUnlock = TRUE
SPECIFICATION FairMutexSpec
INVARIANTS
    OneOwner
    NobodyWaitsForAFreeMutex
PROPERTIES
    UnhinderedOwnerUnlocks
