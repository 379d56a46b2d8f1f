CONSTANTS
    t1 = t1
    t2 = t2
    t3 = t3
    pushSemaphore = pushSemaphore
    popSemaphore = popSemaphore
    Task <- ThreeTasks
    Idle = Idle
    Main = Main
    BlockList <- BothSemaphores
    ReadyTasks = ReadyTasks
    DelayedTasks = DelayedTasks
    NoList = NoList
    PriorityRange <- TwoPriorities
    IdlePriority = 2
    TickModulus = 2
    Delays <- NoDelay
    Interval <- NoInterval
    LatePriority = FALSE
    InitialCounter <- Initially
    MaxCounter <- AtMost
    ReleaseCounts <- JustOne
    MovesBlockedTasks = FALSE
    Count = 2
    MaxAccesses = 4
SPECIFICATION FifoSpec
SYMMETRY TaskSymmetry
INVARIANTS
    PlacesAreConserved
