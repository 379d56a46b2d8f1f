CONSTANTS
    t1 = t1
    t2 = t2
    t3 = t3
    b = b
    Task <- ThreeTasks
    Idle = Idle
    Main = Main
    BlockList <- OneList
    blockList = b
    ReadyTasks = ReadyTasks
    DelayedTasks = DelayedTasks
    NoList = NoList
    PriorityRange <- TwoPriorities
    IdlePriority = 2
    TickModulus = 2
    Delays <- NoDelay
    Interval <- NoInterval
    LatePriority = FALSE
    Size = 2
    Claimed = Claimed
    NoSlot = NoSlot
SPECIFICATION HeapSpec
SYMMETRY TaskSymmetry
INVARIANTS
    ElementsAreExclusive
    NobodyWaitsForAFreeSlot
    FreeListIsSound
