\* One payment, two requests, two reconcilers, refunds of both kinds.
CONSTANTS
    Payments = {p1}
    Requesters = {q1, q2}
    Reconcilers = {r1, r2}
    NoPayment = NoPayment
    NoRefund = NoRefund
    Limit = 1
    Grace = 1
    Sla = 2
    HandOff = 2
    DeskPayments = {p1}
    Webhooks = TRUE
    MaxFaults = 1
SPECIFICATION Spec
SYMMETRY Calls
INVARIANTS
    RefundBooks
    RefundOnce
CHECK_DEADLOCK FALSE
