CONSTANTS
    MaxSlots = 3
    GenLimit = 2
    Fields = {f}
    Sizes = {1}
    Registers = {r1, r2}
    MaxToken = 0
    StructWidth = 1
    WeakHandles = FALSE
    WorkBudget = 1
    InitialThreshold = 2
    MaximumHeap = 3
SPECIFICATION Spec
SYMMETRY RegisterSymmetry
INVARIANTS
    RootsResolve
    ReachableIntact
    IdleHeapClosed
    FreeListExact
