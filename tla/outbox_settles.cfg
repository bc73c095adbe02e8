\* Two rows, a batch of one, two faults: every delivery settles, within its budget.
CONSTANTS
    Events = {e1, e2}
    PayoutEvents = {e1}
    Dispatchers = {d1}
    Workers = {w1}
    NoEvent = NoEvent
    NoWorker = NoWorker
    Limit = 1
    MaxAttempts = 2
    JobAttempts = 2
    MaxStalled = 1
    ProcessingStale = 1
    DispatchStale = 2
    MaxPass = 0
    Prompt = TRUE
    MaxClaims = 5
    MaxFaults = 2
    MaxTime = 8
    BackoffUnit = 1
    BackoffCap = 2
    Backoff <- MCBackoff
SPECIFICATION FairSpec
INVARIANTS
    DispatchSound
PROPERTIES
    EventuallySettled
CHECK_DEADLOCK FALSE
