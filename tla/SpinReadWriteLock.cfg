CONSTANTS
    Section = {s1, s2, s3}
    Writer = {w1, w2}
SYMMETRY Symmetry
SPECIFICATION LockSpec
INVARIANTS StateIsExact FlagIsOneWriter
PROPERTIES ImplementsRWLock ImplementsLock
