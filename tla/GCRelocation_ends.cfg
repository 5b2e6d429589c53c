CONSTANTS
    Thread = {t1, t2}
    GC = GC
    Obj = {o1}
    Value = {v1, v2}
    Garbage = Garbage
    None = None
    Old = Old
    Capacity = 3
    doNotRelocatePtrGuard = FALSE
    GuardCovers = TRUE
SPECIFICATION FairSpec
PROPERTY EvacuationEnds
