\* The owner's bank details change once.
CONSTANTS
    Workers = {w1, w2}
    Reconcilers = {r1}
    Accounts = {A, B}
    NoAccount = NoAccount
    Nobody = Nobody
    Lease = 1
    Grace = 1
    DuplicateReply = "CONFLICT"
    Slow = {}
    MaxCalls = 2
    MaxFaults = 1
    MaxBankChanges = 1
SPECIFICATION FairSpec
PROPERTIES
    AcceptedPayoutSettles
CHECK_DEADLOCK FALSE
