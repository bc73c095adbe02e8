\* Two calls with one key or two handlers, with a lost answer or crash.
CONSTANTS
    c2 = c2
    h2 = h2
    Callers = {c1, c2}
    Handlers = {h1, h2}
    MaxBookings = 2
    MaxClaims = 2
    Attempts = 2
    Lease = 1
    Session = 2
    Retention = 2
    MaxCall = 1
    MaxTries = 2
    MaxFaults = 1
SPECIFICATION MCSpec
INVARIANTS
    OnePerKey
    PaymentDecides

    
