\* Two payments, a batch of one, and an admin who may mix the refund ids up.
CONSTANTS
    Payments = {p1, p2}
    Requesters = {q1}
    Reconcilers = {r1}
    NoPayment = NoPayment
    NoRefund = NoRefund
    Limit = 1
    Grace = 1
    Sla = 1
    HandOff = 1
    DeskPayments = {}
    Webhooks = TRUE
    MaxFaults = 1
SPECIFICATION FairSpec
INVARIANTS
    OutcomeIsReal
PROPERTIES
    TerminalIsFinal
    RefundSettles
CHECK_DEADLOCK FALSE
