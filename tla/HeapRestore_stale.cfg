CONSTANTS
    MaxSlots = 1
    MaxObjects = 2
    MaxToken = 0
    RootWidth = 1
SPECIFICATION Spec
INVARIANTS
    StaleRejected
