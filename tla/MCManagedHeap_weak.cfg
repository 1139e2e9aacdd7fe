CONSTANTS
    MaxSlots = 2
    GenLimit = 2
    Fields = {f}
    Sizes = {1, 2}
    Registers = {r1, r2}
    MaxToken = 1
    StructWidth = 2
    WeakHandles = TRUE
    WorkBudget = 2
    InitialThreshold = 1
    MaximumHeap = 3
SPECIFICATION Spec
SYMMETRY RegisterSymmetry
INVARIANTS
    BytesAccounted
    FullCollectionExact
PROPERTY
    OnlyGarbageReclaimed
