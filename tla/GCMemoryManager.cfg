CONSTANTS
    t1 = t1
    t2 = t2
    Thread = {t1, t2}
    poolCount = 2
    PoolIdx <- Hash
    MemorySize = 6
    Size = {1, 3}
    secondaryMallocSize = 2
    recordNewMemMap = TRUE
SPECIFICATION Spec
INVARIANT ListsInOrder
PROPERTY ImplementsHeap
