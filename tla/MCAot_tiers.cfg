CONSTANTS
    IntMax = 3
    RecursionLimit = 2
    HeapLimit = 4
    CacheSlots = 2
    WideningLimit = 1
    Aggressive = TRUE
    MaximumIterations = 4
    Budgets = {7, 60}
    Tiers <- MCTiers
    Inputs <- MCInputs
SPECIFICATION MCSpec
INVARIANTS
    VerifiedNeverStuck
    CacheExact
    TiersAgree
    ElidedChecksSafe
    PipelineVerifies
PROPERTIES
    UnwindsToNearest
    InvocationEnds
