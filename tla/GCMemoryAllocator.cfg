CONSTANTS
    t1 = t1
    t2 = t2
    Thread = {t1, t2}
    gcThreadCount = 2
    Region = {1, 2, 3}
    Chunk = {1, 2}
    Capacity = 2
    Makes <- MadeBy
    Uses <- UsedBy
    M0 = M0
    M1 = M1
    None = None
SYMMETRY Symmetry
SPECIFICATION Spec
INVARIANTS InsideNeverRoot RegionsAccounted MapIsExact
PROPERTY ImplementsObjectSpace
