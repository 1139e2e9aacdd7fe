CONSTANTS
    MaxFibers = 2
    WheelSlots = 2
    TickMod = 4
    Code <- SleepProgram
    CallLimit = 1
    SliceBudget = 4
    Keys = {"k"}
    Levels = {1}
    Entries = {0}
    Redirects = {1, 5}
    HostFibers = 2
    QueueLimit = 2
    Callbacks = {}
    TickSteps = {1}
    LastTick = 8
SPECIFICATION FairSpec
PROPERTIES
    SleepersWake
    
