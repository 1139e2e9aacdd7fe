CONSTANTS
    MaxSlots = 2
    GenLimit = 2
    Fields = {f}
    Sizes = {1}
    Registers = {r1, r2}
    MaxToken = 0
    StructWidth = 1
    WeakHandles = FALSE
    WorkBudget = 1
    InitialThreshold = 1
    MaximumHeap = 2
SPECIFICATION FairSpec
PROPERTIES
    CollectionEnds
    GarbageReclaimed
