CONSTANTS
    MaxFibers = 4
    WheelSlots = 2
    TickMod = 16
    Code <- FamilyProgram
    CallLimit = 0
    SliceBudget = 6
    Keys = {"k"}
    Levels = {1}
    Entries = {0}
    Redirects = {1}
    HostFibers = 2
    QueueLimit = 4
    Callbacks = {"Spawn", "Interrupt", "Kill", "Notify"}
    TickSteps = {1}
    LastTick = 4
SPECIFICATION Spec
VIEW Observable
INVARIANTS
    IdsExact
    Scheduled
PROPERTY
    WakesOnTime
