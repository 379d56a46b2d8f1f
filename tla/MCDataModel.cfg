CONSTANTS
    th1 = th1
    th2 = th2
    c1 = c1
    c2 = c2
    c3 = c3
    v1 = v1
    v2 = v2
    Thread <- TwoThreads
    Callback <- ThreeCallbacks
    Value <- TwoValues
    MaxDepth = 2
SPECIFICATION Spec
SYMMETRY Symmetry
INVARIANTS
    NobodyIsLeftBehind
