\* Two processes race for one row; a pass may outlast ProcessingStale.
CONSTANTS
    Events = {e1}
    PayoutEvents = {e1}
    Dispatchers = {d1, d2}
    Workers = {w1, w2}
    NoEvent = NoEvent
    NoWorker = NoWorker
    Limit = 1
    MaxAttempts = 2
    JobAttempts = 2
    MaxStalled = 1
    ProcessingStale = 1
    DispatchStale = 3
    MaxPass = 2
    Prompt = FALSE
    MaxClaims = 3
    MaxFaults = 1
    MaxTime = 3
    BackoffUnit = 1
    BackoffCap = 2
    Backoff <- MCBackoff
SPECIFICATION Spec
SYMMETRY Processes
INVARIANTS
    FreshDispatch
PROPERTIES
    FencedByAttempt
    ImplementsDelivery
CHECK_DEADLOCK FALSE
