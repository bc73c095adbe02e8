------------------------------- MODULE Refund -------------------------------
(***************************************************************************)
(* Refunds (src/modules/payment: the refund half of payment-api.service,   *)
(* refund-finalization.service, refund-reconciliation.service,             *)
(* refund-completed.handler and the admin's reconcileRefund).              *)
(*                                                                         *)
(* A request reserves the payment and its booking or extension in one      *)
(* transaction, asks Flutterwave for the refund and writes what it         *)
(* answered.  Reconcilers settle what is left open: the hourly cron, over  *)
(* a batch it read at its start, and the webhook or an admin, for the      *)
(* refund id they bring.  What cannot be settled is handed to a person,    *)
(* once.  Every statement and provider call is a step; finalize and        *)
(* requestManualReview first read the row and then repeat the same test in *)
(* the guard of their transaction, so each is one step.                    *)
(*                                                                         *)
(* Besides the refund of the request ("own") the provider may know one     *)
(* made by hand in its dashboard ("desk").  A payment belongs to exactly   *)
(* one booking or extension; domain is that record's paymentStatus.        *)
(***************************************************************************)
EXTENDS Naturals, FiniteSets

CONSTANTS
    Payments,      \* payments with a successful charge
    Requesters,    \* calls of initiateRefund
    Reconcilers,   \* calls of the reconciliation service
    NoPayment,     \* nothing in hand
    NoRefund,      \* refundProviderId is null
    Limit,         \* RECONCILIATION_BATCH_SIZE
    Grace,         \* RECONCILIATION_GRACE_PERIOD_MS, in clock units
    Sla,           \* the provider's completion window
    HandOff,       \* FETCH_FAILURE_HANDOFF_ATTEMPTS
    DeskPayments,  \* payments that may also be refunded in the dashboard
    Webhooks,      \* TRUE: webhooks arrive and admins reconcile
    MaxFaults      \* bound on crashes, lost answers and odd answers

Kinds == {"own", "desk"}
RefundIds == Payments \X Kinds

ASSUME RefundAssumption ==
    /\ Requesters \cap Reconcilers = {}
    /\ NoPayment \notin Payments
    /\ NoRefund \notin RefundIds
    /\ {Limit, Sla, HandOff} \subseteq Nat \ {0}
    /\ {Grace, MaxFaults} \subseteq Nat
    /\ Grace <= Sla
    /\ DeskPayments \subseteq Payments
    /\ Webhooks \in BOOLEAN

VARIABLES
    row,      \* the Payment rows
    domain,   \* paymentStatus of the payment's booking or extension
    age,      \* time since refundRequestedAt, up to Sla
    refund,   \* the provider's refunds
    req,      \* per requester: where its call stands
    rec,      \* per reconciler: where its call stands
    posts,    \* per payment: refunds the provider accepted from a request
    emails,   \* per payment: hand-overs since the refund was reserved
    faults

vars == <<row, domain, age, refund, req, rec, posts, emails, faults>>

InProgress == {"REFUND_PROCESSING", "REFUND_ERROR"}
Terminal   == {"REFUNDED", "PARTIALLY_REFUNDED", "REFUND_FAILED"}
Sizes      == {"full", "part"}
Found      == {"PENDING", "SUCCEEDED", "FAILED", "UNKNOWN"}

Rows == [status: {"SUCCESSFUL"} \cup InProgress \cup Terminal,
         providerId: RefundIds \cup {NoRefund},
         failures: 0..HandOff, reviewed: BOOLEAN]
NewRow == [status |-> "SUCCESSFUL", providerId |-> NoRefund,
           failures |-> 0, reviewed |-> FALSE]
ProviderRefunds == [state: {"NONE", "PENDING", "SUCCEEDED", "FAILED"}, size: Sizes]
NoProviderRefund == [state |-> "NONE", size |-> "full"]

(* What reconcilePayment uses of the payment it was given.                  *)
Snapshots == [payment: Payments, providerId: RefundIds \cup {NoRefund},
              failures: 0..HandOff]

ReqStates == [pc: {"idle", "reserve", "post", "persist", "reject", "uncertain"},
              payment: Payments \cup {NoPayment}, size: Sizes, known: BOOLEAN]
IdleReq == [pc |-> "idle", payment |-> NoPayment, size |-> "full", known |-> FALSE]

RecStates == [pc: {"idle", "batch", "webhook", "adopt", "reread", "fetch",
                   "record", "recordFailure", "finalize", "review"},
              todo: SUBSET Snapshots, payment: Payments \cup {NoPayment},
              id: RefundIds \cup {NoRefund}, failures: 0..HandOff,
              found: Found, size: Sizes]
IdleRec == [pc |-> "idle", todo |-> {}, payment |-> NoPayment, id |-> NoRefund,
            failures |-> 0, found |-> "PENDING", size |-> "full"]

(* Type correctness, which includes that a counter of verification failures *)
(* above HandOff is not told from HandOff (the code only compares with it). *)
TypeOK ==
    /\ row \in [Payments -> Rows]
    /\ domain \in [Payments -> {"UNPAID", "PAID", "REFUND_PROCESSING"} \cup Terminal]
    /\ age \in [Payments -> 0..Sla]
    /\ refund \in [RefundIds -> ProviderRefunds]
    /\ req \in [Requesters -> ReqStates]
    /\ rec \in [Reconcilers -> RecStates]
    /\ posts \in [Payments -> Nat]
    /\ emails \in [Payments -> Nat]
    /\ faults \in 0..MaxFaults

Init ==
    /\ row = [p \in Payments |-> NewRow]
    /\ domain \in [Payments -> {"UNPAID", "PAID"}]
    /\ age = [p \in Payments |-> 0]
    /\ refund = [i \in RefundIds |-> NoProviderRefund]
    /\ req = [q \in Requesters |-> IdleReq]
    /\ rec = [r \in Reconcilers |-> IdleRec]
    /\ posts = [p \in Payments |-> 0]
    /\ emails = [p \in Payments |-> 0]
    /\ faults = 0

Fault == faults < MaxFaults /\ faults' = faults + 1

-----------------------------------------------------------------------------
(* refund-finalization.service                                              *)

(* requestManualReview: one guarded update and one notification.            *)
ReviewWhere(p) == ~row[p].reviewed /\ row[p].status \in {"SUCCESSFUL"} \cup InProgress

requestManualReview(p) ==
    /\ row' = IF ReviewWhere(p) THEN [row EXCEPT ![p].reviewed = TRUE] ELSE row
    /\ emails' = IF ReviewWhere(p) THEN [emails EXCEPT ![p] = @ + 1] ELSE emails

(* The booking or extension may be moved to the refund's outcome.           *)
DomainOpen(p) == domain[p] \in {"PAID", "REFUND_PROCESSING"}

FinalizeWhere(p) == row[p].status \in InProgress

(* Both records move in one transaction; when the second cannot, neither    *)
(* does and the refund is handed over.                                      *)
finalizeSplit(p, status) ==
    /\ row' = [row EXCEPT ![p].status = IF FinalizeWhere(p) THEN status ELSE @]
    /\ UNCHANGED <<domain, emails>>

finalize(p, status) ==
    IF FinalizeWhere(p) /\ ~DomainOpen(p)
    THEN requestManualReview(p) /\ UNCHANGED domain
    ELSE /\ row' = [row EXCEPT ![p].status = IF FinalizeWhere(p) THEN status ELSE @]
         /\ domain' = [domain EXCEPT ![p] = IF FinalizeWhere(p) THEN status ELSE @]
         /\ UNCHANGED emails

-----------------------------------------------------------------------------
(* initiateRefund                                                           *)

ReqGoTo(q, pc) == req' = [req EXCEPT ![q].pc = pc]
ReqEnds(q) == req' = [req EXCEPT ![q] = IdleReq]

(* fetchPaymentForRefund and validateRefundEligibility: any other status is *)
(* refused.                                                                 *)
initiateRefund(q, p, size) ==
    /\ req[q].pc = "idle"
    /\ row[p].status = "SUCCESSFUL"
    /\ req' = [req EXCEPT ![q] = [pc |-> "reserve", payment |-> p,
                                  size |-> size, known |-> FALSE]]
    /\ UNCHANGED <<row, domain, age, refund, rec, posts, emails, faults>>

ReserveWhereUncertain(p) == row[p].status \in {"SUCCESSFUL", "REFUND_ERROR"}

ReserveWhere(p) == row[p].status = "SUCCESSFUL"

(* The reservation, or the conflict or mismatch error that ends the call.   *)
reserveRefund(q) ==
    LET p == req[q].payment IN
    /\ req[q].pc = "reserve"
    /\ IF ReserveWhere(p) /\ DomainOpen(p)
       THEN /\ row' = [row EXCEPT ![p].status = "REFUND_PROCESSING",
                                  ![p].failures = 0, ![p].reviewed = FALSE]
            /\ domain' = [domain EXCEPT ![p] = "REFUND_PROCESSING"]
            /\ age' = [age EXCEPT ![p] = 0]
            /\ emails' = [emails EXCEPT ![p] = 0]
            /\ ReqGoTo(q, "post")
       ELSE /\ ReqEnds(q)
            /\ UNCHANGED <<row, domain, age, emails>>
    /\ UNCHANGED <<refund, rec, posts, faults>>

(* The provider takes the refund on; it may already be final when it        *)
(* answers.                                                                 *)
Accepted(p, size) ==
    /\ \E s \in {"PENDING", "SUCCEEDED", "FAILED"} :
          refund' = [refund EXCEPT ![<<p, "own">>] = [state |-> s, size |-> size]]
    /\ posts' = [posts EXCEPT ![p] = @ + 1]

PostAccepted(q) ==
    /\ req[q].pc = "post"
    /\ Accepted(req[q].payment, req[q].size)
    /\ ReqGoTo(q, "persist")
    /\ UNCHANGED <<row, domain, age, rec, emails, faults>>

(* A network error, a 409, a 5xx, or an answer without a refund id: the     *)
(* provider may or may not have taken the refund on.                        *)
PostLostAsRejected(q) ==
    /\ req[q].pc = "post"
    /\ Fault
    /\ \/ Accepted(req[q].payment, req[q].size)
       \/ UNCHANGED <<refund, posts>>
    /\ ReqGoTo(q, "reject")
    /\ UNCHANGED <<row, domain, age, rec, emails>>

PostLost(q) ==
    /\ req[q].pc = "post"
    /\ Fault
    /\ \/ Accepted(req[q].payment, req[q].size)
       \/ UNCHANGED <<refund, posts>>
    /\ ReqGoTo(q, "uncertain")
    /\ UNCHANGED <<row, domain, age, rec, emails>>

(* Another 4xx, or an answer other than success.                            *)
PostRejected(q) ==
    /\ req[q].pc = "post"
    /\ ReqGoTo(q, "reject")
    /\ UNCHANGED <<row, domain, age, refund, rec, posts, emails, faults>>

(* The guard of every late write of the request.                            *)
StillProcessingUnchecked(p) == TRUE

StillProcessing(p) == row[p].status = "REFUND_PROCESSING"

(* handleRefundResult of an accepted refund                                 *)
PersistRefundId(q) ==
    LET p == req[q].payment IN
    /\ req[q].pc = "persist"
    /\ row' = IF StillProcessing(p)
              THEN [row EXCEPT ![p].providerId = <<p, "own">>] ELSE row
    /\ ReqEnds(q)
    /\ UNCHANGED <<domain, age, refund, rec, posts, emails, faults>>

(* handleRefundResult of a rejected refund                                  *)
FinalizeRejected(q) ==
    /\ req[q].pc = "reject"
    /\ finalize(req[q].payment, "REFUND_FAILED")
    /\ ReqEnds(q)
    /\ UNCHANGED <<age, refund, rec, posts, faults>>

(* The statement of handleRefundResult fails; an accepted refund's id is    *)
(* still known.                                                             *)
HandleResultError(q) ==
    /\ req[q].pc \in {"persist", "reject"}
    /\ Fault
    /\ req' = [req EXCEPT ![q].pc = "uncertain", ![q].known = req[q].pc = "persist"]
    /\ UNCHANGED <<row, domain, age, refund, rec, posts, emails>>

markRefundUncertain(q) ==
    LET p == req[q].payment IN
    /\ req[q].pc = "uncertain"
    /\ row' = IF StillProcessing(p)
              THEN [row EXCEPT ![p].status = "REFUND_ERROR",
                               ![p].providerId = IF req[q].known THEN <<p, "own">> ELSE @]
              ELSE row
    /\ ReqEnds(q)
    /\ UNCHANGED <<domain, age, refund, rec, posts, emails, faults>>

(* The process dies, or the last statement of the call fails.               *)
CrashRequester(q) ==
    /\ req[q].pc # "idle"
    /\ Fault
    /\ ReqEnds(q)
    /\ UNCHANGED <<row, domain, age, refund, rec, posts, emails>>

-----------------------------------------------------------------------------
(* refund-reconciliation.service                                            *)

RecGoTo(r, pc) == rec' = [rec EXCEPT ![r].pc = pc]

(* The cron goes on with its batch, a webhook or admin call ends.           *)
RecDone(r) ==
    rec' = [rec EXCEPT ![r] =
        IF rec[r].todo = {} THEN IdleRec
        ELSE [IdleRec EXCEPT !.pc = "batch", !.todo = rec[r].todo]]

SelectedProcessing(p) ==
    row[p].status = "REFUND_PROCESSING" /\ age[p] >= Grace /\ ~row[p].reviewed

Selected(p) == row[p].status \in InProgress /\ age[p] >= Grace /\ ~row[p].reviewed

(* The oldest Limit of the selected payments.                               *)
IsBatch(b) ==
    LET all == {p \in Payments : Selected(p)} IN
    /\ b \subseteq all
    /\ Cardinality(b) = IF Cardinality(all) < Limit THEN Cardinality(all) ELSE Limit
    /\ \A p \in b, o \in all \ b : age[o] <= age[p]

Snapshot(p) == [payment |-> p, providerId |-> row[p].providerId, failures |-> row[p].failures]

reconcileProcessingRefunds(r) ==
    /\ rec[r].pc = "idle"
    /\ \E b \in SUBSET Payments :
         /\ b # {} /\ IsBatch(b)
         /\ rec' = [rec EXCEPT ![r].pc = "batch", ![r].todo = {Snapshot(p) : p \in b}]
    /\ UNCHANGED <<row, domain, age, refund, req, posts, emails, faults>>

(* reconcilePayment up to the call of the provider, for the next payment of *)
(* the batch.                                                               *)
NextOfBatch(r) ==
    /\ rec[r].pc = "batch"
    /\ \E s \in rec[r].todo :
         /\ \A o \in rec[r].todo : age[o.payment] <= age[s.payment]
         /\ rec' = [rec EXCEPT ![r] =
              [IdleRec EXCEPT !.pc = IF s.providerId = NoRefund THEN "review" ELSE "fetch",
                              !.todo = rec[r].todo \ {s}, !.payment = s.payment,
                              !.id = s.providerId, !.failures = s.failures]]
    /\ UNCHANGED <<row, domain, age, refund, req, posts, emails, faults>>

(* refund-completed.handler: a webhook tells of a refund of the payment's   *)
(* own transaction, in whatever state.                                      *)
RefundWebhook(r, i) ==
    /\ Webhooks
    /\ rec[r].pc = "idle"
    /\ refund[i].state # "NONE"
    /\ rec' = [rec EXCEPT ![r].pc = "webhook", ![r].payment = i[1], ![r].id = i]
    /\ UNCHANGED <<row, domain, age, refund, req, posts, emails, faults>>

(* reconcileRefund of an admin, who may bring the id of another payment's   *)
(* refund while none is on file.                                            *)
AdminReconciles(r, p, i) ==
    /\ Webhooks
    /\ rec[r].pc = "idle"
    /\ row[p].status \in InProgress
    /\ i = row[p].providerId \/ (row[p].providerId = NoRefund /\ refund[i].state # "NONE")
    /\ rec' = [rec EXCEPT ![r].pc = "webhook", ![r].payment = p, ![r].id = i]
    /\ UNCHANGED <<row, domain, age, refund, req, posts, emails, faults>>

(* What reconcileWebhookRefund does with the payment it read.               *)
reconcileWebhookRefund(r) ==
    LET p == rec[r].payment
        known == row[p].providerId
    IN
    /\ rec[r].pc = "webhook"
    /\ CASE row[p].status \in Terminal -> RecDone(r)
         [] row[p].status = "SUCCESSFUL" -> RecGoTo(r, "review")
         [] OTHER ->
              rec' = [rec EXCEPT ![r].failures = row[p].failures,
                                 ![r].pc = CASE known = NoRefund -> "adopt"
                                             [] known = rec[r].id -> "fetch"
                                             [] OTHER -> "review"]
    /\ UNCHANGED <<row, domain, age, refund, req, posts, emails, faults>>

AdoptRefundId(r) ==
    LET p == rec[r].payment
        free == row[p].providerId = NoRefund /\ row[p].status \in InProgress
    IN
    /\ rec[r].pc = "adopt"
    /\ row' = IF free THEN [row EXCEPT ![p].providerId = rec[r].id] ELSE row
    /\ RecGoTo(r, IF free THEN "fetch" ELSE "reread")
    /\ UNCHANGED <<domain, age, refund, req, posts, emails, faults>>

RereadPayment(r) ==
    LET p == rec[r].payment IN
    /\ rec[r].pc = "reread"
    /\ IF row[p].status \notin InProgress
       THEN RecDone(r)
       ELSE rec' = [rec EXCEPT ![r].failures = row[p].failures,
                               ![r].pc = IF row[p].providerId = rec[r].id
                                         THEN "fetch" ELSE "review"]
    /\ UNCHANGED <<row, domain, age, refund, req, posts, emails, faults>>

(* getMismatchReason: the refund is not one of this payment's transaction.  *)
Belongs(p, i) == i[1] = p

(* fetchRefund, classifyRefundProviderStatus and getMismatchReason          *)
FetchRefund(r) ==
    LET i == rec[r].id IN
    /\ rec[r].pc = "fetch"
    /\ IF Belongs(rec[r].payment, i)
       THEN rec' = [rec EXCEPT ![r].pc = "record", ![r].found = refund[i].state,
                               ![r].size = refund[i].size]
       ELSE RecGoTo(r, "review")
    /\ UNCHANGED <<row, domain, age, refund, req, posts, emails, faults>>

(* The provider answers with a status nobody knows, or an amount that       *)
(* cannot be.                                                               *)
FetchOdd(r) ==
    /\ rec[r].pc = "fetch"
    /\ Fault
    /\ \/ rec' = [rec EXCEPT ![r].pc = "record", ![r].found = "UNKNOWN"]
       \/ RecGoTo(r, "review")
    /\ UNCHANGED <<row, domain, age, refund, req, posts, emails>>

FetchFails(r) ==
    /\ rec[r].pc = "fetch"
    /\ Fault
    /\ RecGoTo(r, "recordFailure")
    /\ UNCHANGED <<row, domain, age, refund, req, posts, emails>>

AtMost(n, m) == IF n < m THEN n ELSE m

(* recordProviderCheck, while the refund is open                            *)
recordProviderCheck(p, failed) ==
    row' = IF row[p].status \in InProgress
           THEN [row EXCEPT ![p].failures = IF failed THEN AtMost(@ + 1, HandOff) ELSE 0]
           ELSE row

(* The failures the reconciler counts: those it read, and this one.         *)
FailedTooOften(r) == rec[r].failures + 1 >= HandOff

IsPastProviderSla(p) == age[p] = Sla

RecordCheck(r) ==
    LET p == rec[r].payment
        unknown == rec[r].found = "UNKNOWN"
    IN
    /\ rec[r].pc = "record"
    /\ recordProviderCheck(p, unknown)
    /\ IF rec[r].found \in {"SUCCEEDED", "FAILED"} THEN RecGoTo(r, "finalize")
       ELSE IF (unknown /\ FailedTooOften(r)) \/ IsPastProviderSla(p) THEN RecGoTo(r, "review")
       ELSE RecDone(r)
    /\ UNCHANGED <<domain, age, refund, req, posts, emails, faults>>

handleFetchFailure(r) ==
    /\ rec[r].pc = "recordFailure"
    /\ recordProviderCheck(rec[r].payment, TRUE)
    /\ IF FailedTooOften(r) THEN RecGoTo(r, "review") ELSE RecDone(r)
    /\ UNCHANGED <<domain, age, refund, req, posts, emails, faults>>

Outcome(r) ==
    IF rec[r].found = "FAILED" THEN "REFUND_FAILED"
    ELSE IF rec[r].size = "full" THEN "REFUNDED" ELSE "PARTIALLY_REFUNDED"

FinalizeRefund(r) ==
    /\ rec[r].pc = "finalize"
    /\ finalize(rec[r].payment, Outcome(r))
    /\ RecDone(r)
    /\ UNCHANGED <<age, refund, req, posts, faults>>

HandOver(r) ==
    /\ rec[r].pc = "review"
    /\ requestManualReview(rec[r].payment)
    /\ RecDone(r)
    /\ UNCHANGED <<domain, age, refund, req, posts, faults>>

(* A statement fails: the cron logs it and goes on, the webhook answers     *)
(* with an error.                                                           *)
ReconcileError(r) ==
    /\ rec[r].pc \notin {"idle", "batch", "fetch"}
    /\ Fault
    /\ RecDone(r)
    /\ UNCHANGED <<row, domain, age, refund, req, posts, emails>>

CrashReconciler(r) ==
    /\ rec[r].pc # "idle"
    /\ Fault
    /\ rec' = [rec EXCEPT ![r] = IdleRec]
    /\ UNCHANGED <<row, domain, age, refund, req, posts, emails>>

-----------------------------------------------------------------------------
(* Around the refunds                                                       *)

(* confirmFromPayment of the booking or extension                           *)
confirmFromPayment(p) ==
    /\ domain[p] = "UNPAID"
    /\ domain' = [domain EXCEPT ![p] = "PAID"]
    /\ UNCHANGED <<row, age, refund, req, rec, posts, emails, faults>>

(* cancelBooking of a paid booking: its refund is requested later.          *)
cancelBooking(p) ==
    /\ domain[p] = "PAID"
    /\ domain' = [domain EXCEPT ![p] = "REFUND_PROCESSING"]
    /\ UNCHANGED <<row, age, refund, req, rec, posts, emails, faults>>

DeskRefund(p, size) ==
    /\ p \in DeskPayments
    /\ refund[<<p, "desk">>].state = "NONE"
    /\ refund' = [refund EXCEPT ![<<p, "desk">>] = [state |-> "PENDING", size |-> size]]
    /\ UNCHANGED <<row, domain, age, req, rec, posts, emails, faults>>

ProviderSettles(i) ==
    /\ refund[i].state = "PENDING"
    /\ \E s \in {"SUCCEEDED", "FAILED"} : refund' = [refund EXCEPT ![i].state = s]
    /\ UNCHANGED <<row, domain, age, req, rec, posts, emails, faults>>

(* Time passes for every open refund.                                       *)
Tick ==
    /\ \E p \in Payments : row[p].status \in InProgress /\ age[p] < Sla
    /\ age' = [p \in Payments |->
                 IF row[p].status \in InProgress THEN AtMost(age[p] + 1, Sla) ELSE age[p]]
    /\ UNCHANGED <<row, domain, refund, req, rec, posts, emails, faults>>

-----------------------------------------------------------------------------
RequesterStep(q) ==
    \/ reserveRefund(q) \/ PostAccepted(q) \/ PostLost(q) \/ PostRejected(q)
    \/ PersistRefundId(q) \/ FinalizeRejected(q) \/ markRefundUncertain(q)

RequesterFault(q) == HandleResultError(q) \/ CrashRequester(q)

ReconcilerStep(r) ==
    \/ NextOfBatch(r) \/ reconcileWebhookRefund(r) \/ AdoptRefundId(r) \/ RereadPayment(r)
    \/ FetchRefund(r) \/ RecordCheck(r) \/ handleFetchFailure(r)
    \/ FinalizeRefund(r) \/ HandOver(r)

ReconcilerFault(r) ==
    FetchOdd(r) \/ FetchFails(r) \/ ReconcileError(r) \/ CrashReconciler(r)

Next ==
    \/ \E q \in Requesters :
         \/ \E p \in Payments, size \in Sizes : initiateRefund(q, p, size)
         \/ RequesterStep(q) \/ RequesterFault(q)
    \/ \E r \in Reconcilers :
         \/ reconcileProcessingRefunds(r)
         \/ \E i \in RefundIds : RefundWebhook(r, i)
         \/ \E p \in Payments, i \in RefundIds : AdminReconciles(r, p, i)
         \/ ReconcilerStep(r) \/ ReconcilerFault(r)
    \/ \E p \in Payments : confirmFromPayment(p) \/ cancelBooking(p)
    \/ \E p \in Payments, size \in Sizes : DeskRefund(p, size)
    \/ \E i \in RefundIds : ProviderSettles(i)
    \/ Tick

Spec == Init /\ [][Next]_vars

(* Each call of a reconciler ends and time passes.  The cron runs every     *)
(* hour beside the webhooks and admins, so a slot that they use again and   *)
(* again cannot keep it out for ever (strong fairness).  A request may die  *)
(* at any step and nobody retries it, and the provider need not settle:     *)
(* neither is assumed.                                                      *)
Fairness ==
    /\ WF_vars(Tick)
    /\ \A r \in Reconcilers : SF_vars(reconcileProcessingRefunds(r)) /\ WF_vars(ReconcilerStep(r))

FairSpec == Spec /\ Fairness

-----------------------------------------------------------------------------
(* Properties                                                               *)

(* A payment is REFUNDED only if the provider completed a refund of the     *)
(* full charge of this very payment, PARTIALLY_REFUNDED only if it          *)
(* completed one of a part of it (reconcilePayment, from answers that other *)
(* calls may have overtaken).                                               *)
RefundedIsReal ==
    \A p \in Payments, size \in Sizes :
        row[p].status = (IF size = "full" THEN "REFUNDED" ELSE "PARTIALLY_REFUNDED")
        => \E k \in Kinds : /\ refund[<<p, k>>].state = "SUCCEEDED"
                            /\ refund[<<p, k>>].size = size

(* The customer is told that the refund failed only if no refund of this    *)
(* payment is under way or done: an uncertain request is never written off. *)
(* For payments whose refunds were all requested here.                      *)
RefundFailedIsReal ==
    \A p \in Payments \ DeskPayments : row[p].status = "REFUND_FAILED" =>
        \A k \in Kinds : refund[<<p, k>>].state \in {"NONE", "FAILED"}

(* The payment and its booking or extension tell the same story (the two    *)
(* updates of reserveRefund and of finalize).  So the hand-over for a       *)
(* mismatch in finalize is never needed.                                    *)
BooksAgree ==
    \A p \in Payments :
        /\ row[p].status \in InProgress => domain[p] = "REFUND_PROCESSING"
        /\ row[p].status \in Terminal => domain[p] = row[p].status

(* A finished refund is never reopened or changed, by whichever call is     *)
(* late (the guards of reserveRefund, finalize and markRefundUncertain).    *)
TerminalIsFinal ==
    [][\A p \in Payments : row[p].status \in Terminal =>
          row'[p].status = row[p].status /\ domain'[p] = domain[p]]_vars

(* The provider accepts at most one refund per payment from initiateRefund, *)
(* however many requests race and whatever happens to their answers: every  *)
(* request has an idempotency key of its own, so only the reservation       *)
(* stands between two requests and two refunds.                             *)
OneRefund == \A p \in Payments : posts[p] <= 1

(* An open refund is handed to a person at most once.                       *)
HandedOverOnce == \A p \in Payments : emails[p] <= 1

(* A reserved refund is finished or handed to a person: lost answers, lost  *)
(* webhooks, crashed requests, a provider that never settles and a batch    *)
(* filled with older refunds do not leave one open for ever.                *)
RefundSettles ==
    \A p \in Payments :
        (row[p].status \in InProgress) ~> (row[p].status \in Terminal \/ row[p].reviewed)

(***************************************************************************)
(* However requests, cron, webhooks and admins overlap and answers are     *)
(* lost, the provider accepts one refund of a payment from the code, and a *)
(* person is asked about it once (reserveRefund, requestManualReview).     *)
(***************************************************************************)
RefundOnce == OneRefund /\ HandedOverOnce

(***************************************************************************)
(* Payment and booking or extension tell the same story after every step   *)
(* of the request and of the reconciliation (finalize, reserveRefund,      *)
(* requestManualReview).                                                   *)
(***************************************************************************)
RefundBooks == TypeOK /\ BooksAgree

(***************************************************************************)
(* A refund that the books call done was done by the provider for this     *)
(* payment, and one they call failed was not, although the answer was read *)
(* some steps before it is written and a request may have been lost        *)
(* (finalize, initiateRefund).                                             *)
(***************************************************************************)
OutcomeIsReal == RefundedIsReal /\ RefundFailedIsReal

=============================================================================
