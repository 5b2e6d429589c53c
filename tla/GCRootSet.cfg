CONSTANTS
    Ptr = {p1, p2, p3, p4}
    Unset = Unset
    SINGLE_BLOCK_SIZE = 2
    gcThreadCount = 3
    ROOT_SET_PARALLEL_THRESHOLD = 2
SYMMETRY Symmetry
SPECIFICATION Spec
INVARIANTS OffsetsAgree MarkedOnce
PROPERTY ImplementsRegistry
