CONSTANTS
    Reader = reader
    Monitor = monitor
    Clients = {reader, monitor}
    Worker = worker
    Points = {1, 4}
    Entry = 1
    Returns = {4}
    MaxDepth = 2
    Follows <- MCFollows
    Calls <- MCCalls
    LineSets <- MCLineSets
SPECIFICATION Spec
INVARIANTS
    PausedIsFrozen
PROPERTIES
    StopsAsAsked
    TerminateIsFinal
    TerminateEnds
    
