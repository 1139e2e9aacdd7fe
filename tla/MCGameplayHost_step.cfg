CONSTANTS
    MaxTick = 4
    MaxTimers = 3
    MaxSequences = 1
    MaxEvents = 2
    MaxSubscriptions = 2
    Delays = {0}
    Intervals = {1}
    Repeats = {0, 1, 2}
    Scripts <- TwoSteps
    Priorities = {0, 1}
    TimerBudgets = {2}
    EventBudgets = {2}
SPECIFICATION Spec
INVARIANTS
    BooksExact
    DispatchOrder
    StepsInterleave
