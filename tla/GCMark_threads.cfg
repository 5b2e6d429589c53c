CONSTANTS
    Mutator = {m1, m2}
    Root = {r1, r2}
    Obj = {o1}
    Null = Null
    M0 = M0
    M1 = M1
    Ops = {"make", "build", "copy", "convert", "destroy", "read"}
    PoolCount = 2
    PoolOf <- PoolOfEach
    suspendThreadsWhenSTW = FALSE
    SleepCovers = TRUE
    SwitchCovers = TRUE
    PhaseLockCovers = FALSE
    AliasAssign = FALSE
SYMMETRY Symmetry
SPECIFICATION Spec
INVARIANT MarkingComplete
