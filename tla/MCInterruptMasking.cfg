CONSTANTS
    t1 = t1
    t2 = t2
    t3 = t3
    Thread <- ThreeThreads
    Isr = Isr
SPECIFICATION FairSpec
INVARIANTS
    PrimaskFollowsScopes
    AccessIsExclusive
    ReasonIsReadAfterSwitch
PROPERTIES
    RequestedSwitchHappens
