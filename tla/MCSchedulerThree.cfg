CONSTANTS
    t1 = t1
    t2 = t2
    t3 = t3
    Task <- ThreeTasks
    Idle = Idle
    Main = Main
    b = b
    BlockList <- OneList
    ReadyTasks = ReadyTasks
    DelayedTasks = DelayedTasks
    NoList = NoList
    PriorityRange <- TwoPriorities
    IdlePriority = 2
    TickModulus = 3
    Delays <- OneDelay
    Interval <- NoInterval
    LatePriority = FALSE
SPECIFICATION Spec
SYMMETRY TaskSymmetry
INVARIANTS
    ListsOrdered
    OnlyFreshTasksWait
    IteratorStaysValid
PROPERTIES
    TickLeavesNoneExpired
    FifoAmongEquals
