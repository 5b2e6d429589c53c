CONSTANTS
    Mutator = {m1}
    Root = {r1, r2}
    Obj = {o1, o2}
    Null = Null
    M0 = M0
    M1 = M1
    Ops = {"make", "assign"}
    PoolCount = 2
    PoolOf <- PoolOfEach
    suspendThreadsWhenSTW = TRUE
    SleepCovers = TRUE
    SwitchCovers = TRUE
    PhaseLockCovers = TRUE
    AliasAssign = FALSE
SYMMETRY Symmetry
SPECIFICATION Spec
INVARIANT MarkingComplete
