------------------------------ MODULE Checkout ------------------------------
(***************************************************************************)
(* From the request to the paid booking (src/modules/booking:              *)
(* booking-creation, its idempotency service, booking-reservation;         *)
(* src/modules/payment: charge-completed.handler,                          *)
(* booking-reservation-expiration, the hourly reconcilePendingPayments).   *)
(*                                                                         *)
(* One customer sends one request, with one idempotency key, again and     *)
(* again.  A call claims the key, inserts a PENDING booking, asks          *)
(* Flutterwave for a checkout link, checkpoints the answer and completes   *)
(* the key.  Whoever got the link may pay as long as it is open.  Handlers *)
(* are charge webhooks, confirmations from the browser, the expiry of      *)
(* reservations and the hourly reconciliation.                             *)
(*                                                                         *)
(* Every statement, transaction and provider call is a step.  claim reads  *)
(* the key's row and then changes it only if updatedAt is still the same,  *)
(* so that the two are one step.  Deadlines are countdowns.  Prices, legs, *)
(* referrals and other customers' bookings are left out: they only make    *)
(* the transaction fail, which it may do at any time.                      *)
(***************************************************************************)
EXTENDS Naturals, FiniteSets

CONSTANTS
    Callers,      \* calls of createBooking
    Handlers,     \* calls of the charge handler, expiry and reconciliation
    MaxBookings,  \* bound on the bookings
    MaxClaims,    \* bound on the claims of the key
    Attempts,     \* maxClaimAttempts
    Lease,        \* BOOKING_IDEMPOTENCY_PROCESSING_LEASE_MS, in clock units
    Session,      \* BOOKING_PAYMENT_SESSION_DURATION_MS
    Retention,    \* BOOKING_IDEMPOTENCY_RETENTION_MS
    MaxCall,      \* longest time from the transaction to the checkpoint
    MaxTries,     \* bound on charges per link
    MaxFaults     \* bound on crashes and lost answers

ASSUME CheckoutAssumption ==
    /\ {MaxBookings, MaxClaims, MaxTries, MaxFaults} \subseteq Nat
    /\ {Attempts, Lease, Session, Retention, MaxCall} \subseteq Nat \ {0}
    /\ Lease <= Retention

(* The HTTP client gives up long before a payment session ends.             *)
ASSUME PromptAssumption == MaxCall < Session

VARIABLES
    idem,     \* the key's row of BookingCreationIdempotency
    booking,  \* Booking rows
    payment,  \* per booking: the Payment row of its txRef
    link,     \* per booking: the provider's checkout link
    charge,   \* per booking: the provider's charges, of which the last counts
    call,     \* per caller: where its call stands
    task,     \* per handler: where its call stands
    cleanups, \* rows that cleanupExpiredRecords deleted
    faults

vars == <<idem, booking, payment, link, charge, call, task, cleanups, faults>>

Bookings == 1..MaxBookings

(* id is 0 when there is no row; last is the last id given out; booking is  *)
(* 0 for null; age is the time since updatedAt.                             *)
IdemRows == [id: 0..MaxClaims, last: 0..MaxClaims, state: {"PROCESSING", "COMPLETED"},
             booking: 0..MaxBookings, response: BOOLEAN, age: 0..Retention]

(* left is the time to paymentSessionExpiresAt, or to the end of the        *)
(* session of an orphan, counted from createdAt.                            *)
BookingRows == [status: {"NONE", "PENDING", "CONFIRMED", "CANCELLED"}, left: 0..Session]

(* posts counts the links made; sent: some caller answered with it.         *)
Links == [posts: Nat, left: 0..Session, sent: BOOLEAN]

Verdicts == {"SUCCESSFUL", "MISMATCH", "FAILED"}
Charges  == [tries: 0..MaxTries, status: {"NONE", "PENDING"} \cup Verdicts]

CallStates == [pc: {"idle", "claim", "create", "post", "checkpoint", "complete", "release"},
               id: 0..MaxClaims, booking: 0..MaxBookings, attempt: 1..Attempts,
               time: 0..MaxCall]
IdleCall == [pc |-> "idle", id |-> 0, booking |-> 0, attempt |-> 1, time |-> 0]

TaskStates == [pc: {"idle", "lookup", "cancel", "record", "confirm"},
               booking: 0..MaxBookings, verdict: Verdicts]
IdleTask == [pc |-> "idle", booking |-> 0, verdict |-> "FAILED"]

(* Every variable has its type; in particular complete and attachBooking    *)
(* write only what the columns allow.                                       *)
TypeOK ==
    /\ idem \in IdemRows
    /\ booking \in [Bookings -> BookingRows]
    /\ payment \in [Bookings -> {"NONE"} \cup Verdicts]
    /\ link \in [Bookings -> Links]
    /\ charge \in [Bookings -> Charges]
    /\ call \in [Callers -> CallStates]
    /\ task \in [Handlers -> TaskStates]
    /\ cleanups \in Nat
    /\ faults \in 0..MaxFaults

NoIdem == [id |-> 0, last |-> 0, state |-> "PROCESSING", booking |-> 0,
           response |-> FALSE, age |-> 0]

Init ==
    /\ idem = NoIdem
    /\ booking = [b \in Bookings |-> [status |-> "NONE", left |-> 0]]
    /\ payment = [b \in Bookings |-> "NONE"]
    /\ link = [b \in Bookings |-> [posts |-> 0, left |-> 0, sent |-> FALSE]]
    /\ charge = [b \in Bookings |-> [tries |-> 0, status |-> "NONE"]]
    /\ call = [c \in Callers |-> IdleCall]
    /\ task = [h \in Handlers |-> IdleTask]
    /\ cleanups = 0
    /\ faults = 0

Fault == faults < MaxFaults /\ faults' = faults + 1

GoTo(c, pc) == call' = [call EXCEPT ![c].pc = pc]
Ends(c)     == call' = [call EXCEPT ![c] = IdleCall]

-----------------------------------------------------------------------------
(* booking-creation-idempotency.service                                     *)

DeletedRow == [NoIdem EXCEPT !.last = idem.last]

(* The caller answers with the link of booking b.                           *)
Sends(b) == link' = [link EXCEPT ![b].sent = TRUE]

StartCall(c) ==
    /\ call[c].pc = "idle"
    /\ GoTo(c, "claim")
    /\ UNCHANGED <<idem, booking, payment, link, charge, task, cleanups, faults>>

(* finalizeCheckpointedResponse and complete; a row that has it stays.      *)
Completed == IF idem.state = "COMPLETED" THEN idem
             ELSE [idem EXCEPT !.state = "COMPLETED", !.age = 0]

(* claim: the row is created ...                                            *)
ClaimKey(c) ==
    /\ call[c].pc = "claim"
    /\ idem.id = 0
    /\ idem.last < MaxClaims
    /\ idem' = [NoIdem EXCEPT !.id = idem.last + 1, !.last = idem.last + 1]
    /\ call' = [call EXCEPT ![c].pc = "create", ![c].id = idem.last + 1]
    /\ UNCHANGED <<booking, payment, link, charge, task, cleanups, faults>>

(* ... or there is one that has the answer ...                              *)
Replay(c) ==
    /\ call[c].pc = "claim"
    /\ idem.id # 0
    /\ idem.state = "COMPLETED" \/ idem.response
    /\ idem' = Completed
    /\ Sends(idem.booking)
    /\ Ends(c)
    /\ UNCHANGED <<booking, payment, charge, task, cleanups, faults>>

Unanswered == idem.id # 0 /\ idem.state = "PROCESSING" /\ ~idem.response

(* ... or one whose call is under way: the caller is told to wait ...       *)
ClaimInProgress(c) ==
    /\ call[c].pc = "claim"
    /\ Unanswered /\ idem.age < Lease
    /\ Ends(c)
    /\ UNCHANGED <<idem, booking, payment, link, charge, task, cleanups, faults>>

(* ... or one with a booking and no answer.  Its paymentIntent was set when *)
(* it was created, so that resumeBookingPayment gives up, too ...           *)
resumeBookingPayment(c) ==
    /\ idem' = [idem EXCEPT !.age = 0]
    /\ Ends(c)

ResumeClaim(c) ==
    /\ call[c].pc = "claim"
    /\ Unanswered /\ idem.age >= Lease /\ idem.booking # 0
    /\ resumeBookingPayment(c)
    /\ UNCHANGED <<booking, payment, link, charge, task, cleanups, faults>>

(* ... or one without a booking, whose lease is over.                       *)
TakeOver(c) ==
    /\ call[c].pc = "claim"
    /\ Unanswered /\ idem.age >= Lease /\ idem.booking = 0
    /\ idem' = DeletedRow
    /\ call' = [call EXCEPT ![c] = IF call[c].attempt < Attempts
                                     THEN [call[c] EXCEPT !.attempt = @ + 1]
                                     ELSE IdleCall]
    /\ UNCHANGED <<booking, payment, link, charge, task, cleanups, faults>>

(* The rows of attachBooking, checkpointPaymentResult and release.          *)
MayAttachAny(c) == idem.id # 0 /\ idem.state = "PROCESSING"

MayAttach(c) == idem.id = call[c].id /\ idem.state = "PROCESSING" /\ idem.booking = 0

MayCheckpoint(c) ==
    idem.id = call[c].id /\ idem.booking = call[c].booking /\ idem.state = "PROCESSING"

(* The job at three in the morning.                                         *)
cleanupExpiredRecords ==
    /\ idem.id # 0 /\ idem.age = Retention
    /\ \/ idem.state = "COMPLETED"
       \/ idem.booking = 0
       \/ idem.booking # 0 /\ booking[idem.booking].status = "CANCELLED"
    /\ idem' = DeletedRow
    /\ cleanups' = cleanups + 1
    /\ UNCHANGED <<booking, payment, link, charge, call, task, faults>>

-----------------------------------------------------------------------------
(* booking-creation.service                                                 *)

(* checkCarAvailability, as far as it concerns the customer's own bookings. *)
SlotFree == \A b \in Bookings : booking[b].status \notin {"PENDING", "CONFIRMED"}

NextBooking(b) ==
    /\ booking[b].status = "NONE"
    /\ \A a \in Bookings : a < b => booking[a].status # "NONE"

(* The transaction: the booking with its paymentIntent, and attachBooking.  *)
createBookingWithPayment(c) ==
    /\ call[c].pc = "create"
    /\ SlotFree
    /\ MayAttach(c)
    /\ \E b \in Bookings :
        /\ NextBooking(b)
        /\ booking' = [booking EXCEPT ![b] = [status |-> "PENDING", left |-> Session]]
        /\ idem' = [idem EXCEPT !.booking = b, !.age = 0]
        /\ call' = [call EXCEPT ![c].pc = "post", ![c].booking = b]
    /\ UNCHANGED <<payment, link, charge, task, cleanups, faults>>

(* A validation, another customer or the lost claim makes it fail.          *)
CreationFails(c) ==
    /\ call[c].pc = "create"
    /\ GoTo(c, "release")
    /\ UNCHANGED <<idem, booking, payment, link, charge, task, cleanups, faults>>

releaseIdempotencyClaim(c) ==
    /\ call[c].pc = "release"
    /\ \/ /\ idem' = IF MayAttach(c) THEN DeletedRow ELSE idem
          /\ UNCHANGED faults
       \/ Fault /\ UNCHANGED idem
    /\ Ends(c)
    /\ UNCHANGED <<booking, payment, link, charge, task, cleanups>>

(* createPaymentIntent: the link, whose answer may be lost, or an error.    *)
(* After an error markBookingUnpaid leaves an unpaid booking as it is.      *)
createPaymentIntent(c) ==
    /\ call[c].pc = "post"
    /\ link' = [link EXCEPT ![call[c].booking] = [posts |-> @.posts + 1, left |-> Session,
                                                  sent |-> @.sent]]
    /\ \/ GoTo(c, "checkpoint") /\ UNCHANGED faults
       \/ GoTo(c, "release") /\ Fault
    /\ UNCHANGED <<idem, booking, payment, charge, task, cleanups>>

PaymentIntentFailed(c) ==
    /\ call[c].pc = "post"
    /\ GoTo(c, "release")
    /\ UNCHANGED <<idem, booking, payment, link, charge, task, cleanups, faults>>

(* The booking is updated by id, whatever its status: its session ends      *)
(* Session after the answer came, which is when the link closes.  Then the  *)
(* row.  An error takes both back.                                          *)
checkpointPaymentResult(c) ==
    /\ call[c].pc = "checkpoint"
    /\ IF MayCheckpoint(c)
         THEN /\ booking' = [booking EXCEPT ![call[c].booking].left = link[call[c].booking].left]
              /\ idem' = [idem EXCEPT !.response = TRUE, !.age = 0]
              /\ GoTo(c, "complete")
         ELSE /\ GoTo(c, "release")
              /\ UNCHANGED <<booking, idem>>
    /\ UNCHANGED <<payment, link, charge, task, cleanups, faults>>

complete(c) ==
    /\ call[c].pc = "complete"
    /\ IF idem.id = call[c].id
         THEN /\ idem' = Completed
              /\ Sends(call[c].booking)
              /\ Ends(c)
         ELSE /\ GoTo(c, "release")
              /\ UNCHANGED <<idem, link>>
    /\ UNCHANGED <<booking, payment, charge, task, cleanups, faults>>

(* A statement fails after the link was made: the caller gets an error.     *)
SyncFails(c) ==
    /\ call[c].pc \in {"checkpoint", "complete"}
    /\ Fault
    /\ GoTo(c, "release")
    /\ UNCHANGED <<idem, booking, payment, link, charge, task, cleanups>>

CrashCaller(c) ==
    /\ call[c].pc \in {"create", "post", "checkpoint", "complete", "release"}
    /\ Fault
    /\ Ends(c)
    /\ UNCHANGED <<idem, booking, payment, link, charge, task, cleanups>>

-----------------------------------------------------------------------------
(* The customer and the provider.  One charge at a time; a failed one may   *)
(* be followed by another as long as the link is open.                      *)

BeginCharge(b) ==
    /\ link[b].sent /\ link[b].left > 0
    /\ charge[b].status \in {"NONE", "FAILED"}
    /\ charge[b].tries < MaxTries
    /\ charge' = [charge EXCEPT ![b] = [tries |-> @.tries + 1, status |-> "PENDING"]]
    /\ UNCHANGED <<idem, booking, payment, link, call, task, cleanups, faults>>

SettleCharge(b) ==
    /\ charge[b].status = "PENDING"
    /\ \E v \in Verdicts : charge' = [charge EXCEPT ![b].status = v]
    /\ UNCHANGED <<idem, booking, payment, link, call, task, cleanups, faults>>

-----------------------------------------------------------------------------
(* charge-completed.handler                                                 *)

(* What verifyTransaction may say of the final charges of a link: all but   *)
(* the last one failed.                                                     *)
Verified(b) ==
    ({charge[b].status} \cap Verdicts) \cup (IF charge[b].tries > 1 THEN {"FAILED"} ELSE {})

TaskDone(h) == task' = [task EXCEPT ![h] = IdleTask]

(* handle and confirmByTransactionId: a webhook, which may come late, twice *)
(* or never, or the browser's confirmation.                                 *)
processVerifiedCharge(h, b) ==
    /\ task[h].pc = "idle"
    /\ \E v \in Verified(b) :
        task' = [task EXCEPT ![h] = [pc |-> "record", booking |-> b, verdict |-> v]]
    /\ UNCHANGED <<idem, booking, payment, link, charge, call, cleanups, faults>>

(* finalizeVerifiedCharge: an upsert that never changes an existing row,    *)
(* and what the row now says.                                               *)
findOrCreatePayment(h) ==
    /\ task[h].pc = "record"
    /\ LET b == task[h].booking IN
        /\ payment' = IF payment[b] = "NONE" THEN [payment EXCEPT ![b] = task[h].verdict]
                      ELSE payment
        /\ IF payment'[b] = "SUCCESSFUL"
             THEN task' = [task EXCEPT ![h].pc = "confirm"]
             ELSE TaskDone(h)
    /\ UNCHANGED <<idem, booking, link, charge, call, cleanups, faults>>

ConfirmWhere(b) == booking[b].status = "PENDING"

confirmFromPayment(h) ==
    /\ task[h].pc = "confirm"
    /\ LET b == task[h].booking IN
        booking' = IF ConfirmWhere(b) THEN [booking EXCEPT ![b].status = "CONFIRMED"]
                   ELSE booking
    /\ TaskDone(h)
    /\ UNCHANGED <<idem, payment, link, charge, call, cleanups, faults>>

(* The hourly job, for a handler that died before it confirmed.             *)
reconcilePendingPayments(h, b) ==
    /\ task[h].pc = "idle"
    /\ payment[b] = "SUCCESSFUL" /\ booking[b].status = "PENDING"
    /\ task' = [task EXCEPT ![h] = [pc |-> "confirm", booking |-> b, verdict |-> "SUCCESSFUL"]]
    /\ UNCHANGED <<idem, booking, payment, link, charge, call, cleanups, faults>>

-----------------------------------------------------------------------------
(* booking-reservation-expiration.service and booking-reservation.service   *)

Expired(b) == booking[b].status = "PENDING" /\ booking[b].left = 0

reconcileExpiredReservation(h, b) ==
    /\ task[h].pc = "idle"
    /\ Expired(b)
    /\ task' = [task EXCEPT ![h] = [IdleTask EXCEPT !.pc = "lookup", !.booking = b]]
    /\ UNCHANGED <<idem, booking, payment, link, charge, call, cleanups, faults>>

(* The provider is asked for the last charge of the reference: a paid one   *)
(* is handled, an unpaid one cancels, and anything else waits.              *)
ReleasesPending(status) == status \in {"NONE", "PENDING", "FAILED"}

ReleasesFailed(status) == status = "FAILED"

Releases(status) == status \in {"NONE", "FAILED"}

reconcileReservation(h) ==
    /\ task[h].pc = "lookup"
    /\ LET status == charge[task[h].booking].status IN
        \/ /\ status \in {"SUCCESSFUL", "MISMATCH"}
           /\ task' = [task EXCEPT ![h].pc = "record", ![h].verdict = status]
        \/ /\ Releases(status)
           /\ task' = [task EXCEPT ![h].pc = "cancel"]
        \/ /\ status = "PENDING"
           /\ TaskDone(h)
    /\ UNCHANGED <<idem, booking, payment, link, charge, call, cleanups, faults>>

(* Under the lock of the booking everything is tested once more.            *)
MayCancel(b) == Expired(b) /\ payment[b] \notin {"SUCCESSFUL", "MISMATCH"}

cancelExpiredReservation(h) ==
    /\ task[h].pc = "cancel"
    /\ LET b == task[h].booking IN
        booking' = IF MayCancel(b) THEN [booking EXCEPT ![b].status = "CANCELLED"]
                   ELSE booking
    /\ TaskDone(h)
    /\ UNCHANGED <<idem, payment, link, charge, call, cleanups, faults>>

(* A provider call or statement fails, or the process dies.                 *)
TaskFails(h) ==
    /\ task[h].pc # "idle"
    /\ Fault
    /\ TaskDone(h)
    /\ UNCHANGED <<idem, booking, payment, link, charge, call, cleanups>>

-----------------------------------------------------------------------------
(* Time passes.  From the transaction to the checkpoint a call takes no     *)
(* longer than MaxCall.                                                     *)
Paying(c) == call[c].pc \in {"post", "checkpoint"}

Less(n) == IF n > 0 THEN n - 1 ELSE 0

Tick ==
    /\ \A c \in Callers : Paying(c) => call[c].time < MaxCall
    /\ idem' = [idem EXCEPT !.age = IF idem.id # 0 /\ @ < Retention THEN @ + 1 ELSE @]
    /\ booking' = [b \in Bookings |-> [booking[b] EXCEPT !.left = Less(@)]]
    /\ link' = [b \in Bookings |-> [link[b] EXCEPT !.left = Less(@)]]
    /\ call' = [c \in Callers |-> IF Paying(c) THEN [call[c] EXCEPT !.time = @ + 1]
                                  ELSE call[c]]
    /\ UNCHANGED <<payment, charge, task, cleanups, faults>>

CallerStep(c) ==
    \/ ClaimKey(c) \/ Replay(c) \/ ClaimInProgress(c) \/ ResumeClaim(c) \/ TakeOver(c)
    \/ createBookingWithPayment(c) \/ CreationFails(c) \/ releaseIdempotencyClaim(c)
    \/ createPaymentIntent(c) \/ PaymentIntentFailed(c) \/ checkpointPaymentResult(c)
    \/ complete(c)

HandlerStep(h) ==
    \/ findOrCreatePayment(h) \/ confirmFromPayment(h) \/ reconcileReservation(h)
    \/ cancelExpiredReservation(h)

Next ==
    \/ \E c \in Callers : StartCall(c) \/ CallerStep(c) \/ SyncFails(c) \/ CrashCaller(c)
    \/ cleanupExpiredRecords
    \/ \E b \in Bookings : BeginCharge(b) \/ SettleCharge(b)
    \/ \E h \in Handlers : HandlerStep(h) \/ TaskFails(h)
    \/ \E h \in Handlers, b \in Bookings :
         \/ processVerifiedCharge(h, b) \/ reconcilePendingPayments(h, b)
         \/ reconcileExpiredReservation(h, b)
    \/ Tick

Spec == Init /\ [][Next]_vars

(* A call that has begun goes on, the provider settles what it began, time  *)
(* passes, and the expiry job comes round every minute however busy the     *)
(* handlers are.  Webhooks, customers and the hourly job owe nothing.       *)
Fairness ==
    /\ WF_vars(Tick)
    /\ \A c \in Callers : WF_vars(CallerStep(c))
    /\ \A h \in Handlers : WF_vars(HandlerStep(h))
    /\ \A b \in Bookings :
        /\ WF_vars(SettleCharge(b))
        /\ SF_vars(\E h \in Handlers : reconcileExpiredReservation(h, b))

FairSpec == Spec /\ Fairness

-----------------------------------------------------------------------------
(* Properties                                                               *)

(* However often the customer repeats the request, and whichever call is    *)
(* slow or dies, the key makes one booking, and another one only after its  *)
(* row was cleaned up (claim, attachBooking, release).                      *)
OneBookingPerKey ==
    Cardinality({b \in Bookings : booking[b].status # "NONE"}) <= 1 + cleanups

(* "retrying could create a second checkout": a booking has at most one     *)
(* link, also when the answer to the first request for it was lost.         *)
OneCheckout == \A b \in Bookings : link[b].posts <= 1

(* A reservation that was cancelled was not paid and never will be: the     *)
(* expiry, a slow checkpoint, a late webhook and a charge that is under way *)
(* may meet in any order.                                                   *)
CancelledIsUnpaid ==
    \A b \in Bookings : booking[b].status = "CANCELLED" =>
        charge[b].status \in {"NONE", "FAILED"}

(* A booking is confirmed only if the provider holds the right amount for   *)
(* it, whatever order its webhooks come in.                                 *)
ConfirmedIsPaid ==
    \A b \in Bookings : booking[b].status = "CONFIRMED" => charge[b].status = "SUCCESSFUL"

(* The payment row was written for an earlier, failed charge, or for the    *)
(* wrong amount: a person has to look at it.                                *)
NeedsPerson(b) ==
    \/ payment[b] = "MISMATCH"
    \/ payment[b] = "FAILED" /\ charge[b].status \in {"SUCCESSFUL", "MISMATCH"}

(* A reservation does not hold the car for ever, and, by CancelledIsUnpaid, *)
(* a customer who paid gets it: also when every webhook is lost.            *)
ReservationSettles ==
    \A b \in Bookings :
        booking[b].status = "PENDING" ~>
            booking[b].status \in {"CONFIRMED", "CANCELLED"} \/ NeedsPerson(b)

(***************************************************************************)
(* A key makes one booking and a booking one checkout link, whatever calls *)
(* overlap, lose their claim to another or die (claim, attachBooking,      *)
(* resumeBookingPayment).                                                  *)
(***************************************************************************)
OnePerKey == TypeOK /\ OneBookingPerKey /\ OneCheckout

(***************************************************************************)
(* Money decides what becomes of a reservation, in whatever order webhook, *)
(* expiry and reconciliation see it: none that was or can be paid is       *)
(* cancelled, none is confirmed unpaid (cancelExpiredReservation,          *)
(* confirmFromPayment).                                                    *)
(***************************************************************************)
PaymentDecides == CancelledIsUnpaid /\ ConfirmedIsPaid

=============================================================================
