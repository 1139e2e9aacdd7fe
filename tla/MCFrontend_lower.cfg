CONSTANTS
    IntMax = 134217727
    RecursionLimit = 4
    HeapLimit = 20
    CacheSlots = 2
    Tiers <- MCTiers
    Inputs <- MCInputs
    Accepts <- MCAccepts
    Lower <- MCLower
SPECIFICATION MCSpec
INVARIANTS LoweringDelivers 
PROPERTIES LoweringFaithful
