CONSTANTS
    Thread = {t1, t2}
    Marker = {k1, k2}
    Size = {17, 18}
    PerByte = 2
    SizeBytes = 2
    total_size = 35
    LiveBound = 0
    Stale = {11}
    SleepCovers = TRUE
SYMMETRY Symmetry
SPECIFICATION Spec
CONSTRAINT UntilTorn
INVARIANTS EntriesApart SizesIntact OnlyGarbageSwept GarbageSwept LiveCounted
