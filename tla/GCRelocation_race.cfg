CONSTANTS
    Thread = {t1, t2, t3}
    GC = GC
    Obj = {o1}
    Value = {v1, v2}
    Garbage = Garbage
    None = None
    Old = Old
    Capacity = 4
    doNotRelocatePtrGuard = TRUE
    GuardCovers = TRUE
SYMMETRY Symmetry
SPECIFICATION Spec
INVARIANTS NeverThrows NoOverlap GuardedInPlace DestructorCarried
PROPERTIES ForwardedOnce RelocationInvisible
