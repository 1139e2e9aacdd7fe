CONSTANTS
    Entities = {1, 2}
    Methods <- MCMethods
    Triggers = {1}
    Callbacks = {"OnEvent"}
    Lifecycle = {"OnStart", "OnUpdate"}
    MaxOperations = 4
    MaxDepth = 5
    Images <- MCImages
    Registries <- MCBindings
    Threads = {t1, t2}
    Answers <- MCAnswers
    InvokeArguments = {1}
    UsedModes = {"Record", "Replay"}
    MaxInvocations = 2
    MaxReloads = 2
    MaxSwaps = 1
    MaxSlots = 2
    MaxObjects = 3
    MaxToken = 2
    RootWidth = 1
    HandleRegistries = {1, 2}
    ResourceTypes = {1, 2}
    Generations = 3
    MaxGiven = 4
    Samples <- MCSavedFiles
SPECIFICATION MCSpec
SYMMETRY Symmetry
INVARIANTS
    SceneDelivers
    
    ReloadKeepsShape
    
    HandlesHold
    HandlesResolve
    
    AcceptedIsCanonical
CHECK_DEADLOCK FALSE
