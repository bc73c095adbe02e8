\* A prompt and a slow worker, a reconciler, a change of bank details.
CONSTANTS
    Workers = {w1, w2}
    Reconcilers = {r1}
    Accounts = {A, B}
    NoAccount = NoAccount
    Nobody = Nobody
    Lease = 1
    Grace = 2
    DuplicateReply = "CONFLICT"
    Slow = {w2}
    MaxCalls = 2
    MaxFaults = 2
    MaxBankChanges = 1
SPECIFICATION FairSpec
INVARIANTS
    PayoutBooks
    PostsUnderLease
PROPERTIES
    PayoutSteps
    
CHECK_DEADLOCK FALSE
