CONSTANTS
    Mutator = {m1}
    Root = {r1, r2}
    Obj = {o1, o2}
    Null = Null
    M0 = M0
    M1 = M1
    Ops = {"make", "build", "null", "copy", "destroy", "read", "convert"}
    PoolCount = 2
    PoolOf <- PoolOfEach
    suspendThreadsWhenSTW = TRUE
    SleepCovers = TRUE
    SwitchCovers = TRUE
    PhaseLockCovers = FALSE
    AliasAssign = FALSE
SYMMETRY Symmetry
SPECIFICATION Spec
INVARIANTS TypeOK NoDangling MarkingComplete HealableAtSelection GarbageReclaimed
PROPERTY FreshColour
