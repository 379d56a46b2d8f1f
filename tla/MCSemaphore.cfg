CONSTANTS
    t1 = t1
    t2 = t2
    s1 = s1
    Task <- TwoTasks
    Idle = Idle
    Main = Main
    BlockList <- OneSemaphore
    ReadyTasks = ReadyTasks
    DelayedTasks = DelayedTasks
    NoList = NoList
    PriorityRange <- TwoPriorities
    IdlePriority = 2
    TickModulus = 2
    Delays <- OneDelay
    Interval <- NoInterval
    LatePriority = FALSE
    InitialCounter <- OneToken
    MaxCounter <- TwoTokens
    ReleaseCounts <- OneOrTwo
    MovesBlockedTasks = FALSE
SPECIFICATION FairSemaphoreSpec
INVARIANTS
    NobodyWaitsForAToken
    TokensAreConserved
PROPERTIES
    MostUrgentIsServed
    GrantedTaskReturns
    DelayEnds
    TopTaskRuns
