-------------------------- MODULE BookingLifecycle --------------------------
(***************************************************************************)
(* One car and its bookings, from the reservation to the completed trip    *)
(* (src/modules/booking: creation, confirmation, cancellation, chauffeur   *)
(* assignment; src/modules/status-change: the hourly jobs, airport         *)
(* activation and completion).                                             *)
(*                                                                         *)
(* Customers, the payment webhook, the fleet owner and several runs of the *)
(* status jobs interleave.  Transactions that lock the car and the booking *)
(* are one step.  The jobs are split where the code reads before it locks: *)
(* activation reads its batch and writes it later; completion locks the    *)
(* booking, decides whether the car stays BOOKED and writes the car later. *)
(*                                                                         *)
(* Time is a counter of ticks, Hour ticks to the hour.  Bookings have fixed*)
(* dates; prices, people, legs and notifications are left out.             *)
(***************************************************************************)
EXTENDS Naturals, FiniteSets

CONSTANTS
    Bookings,         \* the bookings of the car
    AirportBookings,  \* those of type AIRPORT_PICKUP
    Start, End,       \* their startDate and endDate
    Runs,             \* job workers and people completing airport trips
    NoBooking,        \* no booking is being completed
    Hour,             \* ticks per hour
    Buffer,           \* gap between bookings of a car (2 hours)
    Cutoff,           \* BOOKING_MODIFICATION_CUTOFF_HOURS, in ticks
    ManualRuns,       \* the runs an operator may trigger, too
    MaxRun,           \* longest one run of a job takes
    MaxLag,           \* longest a due completion waits for a run
    MaxTime,          \* bound on the clock
    MaxCancels,       \* bound on cancellations by customers
    MaxRefunds,       \* bound on refund requests
    MaxEdits,         \* bound on the owner's changes of the car status
    MaxFaults         \* bound on crashes and failed statements

ASSUME BookingAssumption ==
    /\ AirportBookings \subseteq Bookings
    /\ NoBooking \notin Bookings
    /\ Start \in [Bookings -> Nat] /\ End \in [Bookings -> Nat]
    /\ Hour \in Nat \ {0}
    /\ {Buffer, Cutoff, MaxRun, MaxLag, MaxTime} \subseteq Nat
    /\ {MaxCancels, MaxRefunds, MaxEdits, MaxFaults} \subseteq Nat
    /\ ManualRuns \subseteq Runs

(* The cutoff is a positive number of hours (env.config), so that nobody    *)
(* can cancel a booking that starts within the hour.                        *)
ASSUME CutoffAssumption == Hour <= Cutoff

(* A booking lasts longer than the hour it starts in and a run together.    *)
ASSUME DurationAssumption == \A b \in Bookings : Start[b] + Hour + MaxRun <= End[b]

VARIABLES
    now,      \* the clock
    booking,  \* Booking rows
    car,      \* Car.status
    unmarked, \* confirmed bookings whose car update has not run yet
    alarms,   \* airport bookings with a delayed activation job
    run,      \* per worker: where its job stands
    cancels, refunds, edits, faults

vars == <<now, booking, car, unmarked, alarms, run, cancels, refunds, edits, faults>>
counters == <<cancels, refunds, edits, faults>>

Blocking == {"PENDING", "CONFIRMED", "ACTIVE"}
Finished == {"COMPLETED", "CANCELLED"}
Statuses == {"NONE"} \cup Blocking \cup Finished
OwnerStatuses == {"AVAILABLE", "HOLD", "IN_SERVICE"}

Rows == [status: Statuses, paymentStatus: {"UNPAID", "PAID", "REFUND_PROCESSING"},
         chauffeur: BOOLEAN]
NoRow == [status |-> "NONE", paymentStatus |-> "UNPAID", chauffeur |-> FALSE]

JobRuns == [pc: {"idle", "activate", "complete", "commit"}, startedAt: Nat,
            batch: SUBSET Bookings, current: Bookings \cup {NoBooking}, release: BOOLEAN]
IdleRun == [pc |-> "idle", startedAt |-> 0, batch |-> {}, current |-> NoBooking,
            release |-> FALSE]

(***************************************************************************)
(* Every variable has its type, and a run that is about to commit a        *)
(* completion names the booking.                                           *)
(***************************************************************************)
TypeOK ==
    /\ now \in Nat
    /\ booking \in [Bookings -> Rows]
    /\ car \in {"BOOKED"} \cup OwnerStatuses
    /\ unmarked \subseteq Bookings
    /\ alarms \subseteq AirportBookings
    /\ run \in [Runs -> JobRuns]
    /\ \A j \in Runs : run[j].pc = "commit" => run[j].current \in Bookings
    /\ cancels \in 0..MaxCancels /\ refunds \in 0..MaxRefunds
    /\ edits \in 0..MaxEdits /\ faults \in 0..MaxFaults

Init ==
    /\ now = 0
    /\ booking = [b \in Bookings |-> NoRow]
    /\ car = "AVAILABLE"
    /\ unmarked = {}
    /\ alarms = {}
    /\ run = [j \in Runs |-> IdleRun]
    /\ cancels = 0 /\ refunds = 0 /\ edits = 0 /\ faults = 0

Fault == faults < MaxFaults /\ faults' = faults + 1

(* The row lock of a completion that has not committed. *)
Locked(b) == \E j \in Runs : run[j].pc = "commit" /\ run[j].current = b

SetStatus(b, s) == booking' = [booking EXCEPT ![b].status = s]

-----------------------------------------------------------------------------
(* Reserving, paying, assigning and cancelling. *)

(* The exclusion constraint on Booking: [startDate, endDate + buffer). *)
Overlap(b, c) == Start[b] < End[c] + Buffer /\ Start[c] < End[b] + Buffer

(* The car is locked, its status and the other bookings are checked and the *)
(* row is inserted in one transaction.                                      *)
checkCarAvailability(b) ==
    /\ car \notin {"HOLD", "IN_SERVICE"}
    /\ \A c \in Bookings \ {b} : booking[c].status \in Blocking => ~Overlap(b, c)

(* An airport pickup needs an hour's notice. *)
validateDates(b) == now + (IF b \in AirportBookings THEN Hour ELSE 0) <= Start[b]

createBooking(b) ==
    /\ booking[b].status = "NONE"
    /\ validateDates(b)
    /\ checkCarAvailability(b)
    /\ SetStatus(b, "PENDING")
    /\ UNCHANGED <<now, car, unmarked, alarms, run, counters>>

(* The transaction of confirmFromPayment: only a PENDING booking. *)
confirmFromPayment(b) ==
    /\ booking[b].status = "PENDING"
    /\ booking' = [booking EXCEPT ![b].status = "CONFIRMED", ![b].paymentStatus = "PAID"]
    /\ unmarked' = unmarked \cup {b}
    /\ UNCHANGED <<now, car, alarms, run, counters>>

(* After the commit: the car, whose error is only logged, then the event    *)
(* that schedules the activation of an airport booking.  Either may fail,   *)
(* and the process may die before both.                                     *)
updateCarStatusToBooked(b) ==
    /\ b \in unmarked
    /\ unmarked' = unmarked \ {b}
    /\ \/ /\ car' = "BOOKED"
          /\ alarms' = alarms \cup ({b} \cap AirportBookings)
          /\ UNCHANGED faults
       \/ /\ Fault
          /\ car' \in {car, "BOOKED"}
          /\ alarms' \in {alarms, alarms \cup ({b} \cap AirportBookings)}
    /\ UNCHANGED <<now, booking, run, cancels, refunds, edits>>

(* The payment session may expire at any time while nobody has paid. *)
cancelExpiredReservation(b) ==
    /\ booking[b].status = "PENDING"
    /\ SetStatus(b, "CANCELLED")
    /\ UNCHANGED <<now, car, unmarked, alarms, run, counters>>

assignChauffeur(b) ==
    /\ booking[b].status = "CONFIRMED" /\ ~booking[b].chauffeur
    /\ booking' = [booking EXCEPT ![b].chauffeur = TRUE]
    /\ UNCHANGED <<now, car, unmarked, alarms, run, counters>>

(* assertCanCancel, the guarded UPDATE, and the car set to AVAILABLE        *)
(* whatever its other bookings are.                                         *)
assertCanCancelAnytime(b) ==
    booking[b].status = "CONFIRMED" /\ booking[b].paymentStatus = "PAID"

assertCanCancel(b) ==
    /\ booking[b].status = "CONFIRMED" /\ booking[b].paymentStatus = "PAID"
    /\ now + Cutoff < Start[b]

cancelBooking(b) ==
    /\ cancels < MaxCancels /\ cancels' = cancels + 1
    /\ assertCanCancel(b)
    /\ booking' = [booking EXCEPT ![b].status = "CANCELLED",
                                  ![b].paymentStatus = "REFUND_PROCESSING"]
    /\ car' = "AVAILABLE"
    /\ UNCHANGED <<now, unmarked, alarms, run, refunds, edits, faults>>

(* reserveRefund: the customer asks for a refund, whatever the status. *)
reserveRefund(b) ==
    /\ refunds < MaxRefunds /\ refunds' = refunds + 1
    /\ booking[b].paymentStatus = "PAID"
    /\ ~Locked(b)
    /\ booking' = [booking EXCEPT ![b].paymentStatus = "REFUND_PROCESSING"]
    /\ UNCHANGED <<now, car, unmarked, alarms, run, cancels, edits, faults>>

(* The fleet owner edits the car: any status but BOOKED. *)
updateCar ==
    /\ edits < MaxEdits /\ edits' = edits + 1
    /\ car' \in OwnerStatuses \ {car}
    /\ UNCHANGED <<now, booking, unmarked, alarms, run, cancels, refunds, faults>>

-----------------------------------------------------------------------------
(* The status jobs.  A triggered job carries the time of the trigger.       *)

Triggers(j) == IF j \in ManualRuns THEN 0..now ELSE {}

(* getCurrentUtcHourWindow. *)
StartsByNow(b) == Start[b] <= now

StartsThisHour(b) == Start[b] \div Hour = now \div Hour

(* findMany of updateBookingsFromConfirmedToActive. *)
CanActivate(b) ==
    /\ booking[b].status = "CONFIRMED" /\ booking[b].paymentStatus = "PAID"
    /\ booking[b].chauffeur
    /\ car = "BOOKED"

Activatable == {b \in Bookings \ AirportBookings : CanActivate(b)}

ActivationBatches(j) ==
    {{b \in Activatable : StartsThisHour(b)}}
        \cup {{b \in Activatable : Start[b] < t} : t \in Triggers(j)}

FindConfirmed(j) ==
    /\ run[j].pc = "idle"
    /\ \E batch \in ActivationBatches(j) \ {{}} :
        run' = [run EXCEPT ![j] = [IdleRun EXCEPT !.pc = "activate", !.startedAt = now,
                                                  !.batch = batch]]
    /\ UNCHANGED <<now, booking, car, unmarked, alarms, counters>>

(* Its transaction updates each booking of the batch by id.  A row that a   *)
(* completion has locked is waited for; the exclusion constraint aborts it  *)
(* if another booking has taken the slot.                                   *)
SlotTaken(batch) ==
    \E b \in batch, c \in Bookings \ batch :
        booking[c].status \in Blocking /\ Overlap(b, c)

ConfirmedToActive(j) ==
    /\ run[j].pc = "activate"
    /\ \A b \in run[j].batch : ~Locked(b)
    /\ booking' = IF SlotTaken(run[j].batch) THEN booking
                  ELSE [b \in Bookings |-> IF b \in run[j].batch
                                             THEN [booking[b] EXCEPT !.status = "ACTIVE"]
                                             ELSE booking[b]]
    /\ run' = [run EXCEPT ![j] = IdleRun]
    /\ UNCHANGED <<now, car, unmarked, alarms, counters>>

(* The delayed job fires at the start of the trip and is gone afterwards,   *)
(* also when the booking is not eligible or all of its tries failed.        *)
activateAirportBooking(b) ==
    /\ b \in alarms
    /\ now >= Start[b]
    /\ alarms' = alarms \ {b}
    /\ \/ CanActivate(b) /\ SetStatus(b, "ACTIVE") /\ UNCHANGED faults
       \/ ~CanActivate(b) /\ UNCHANGED <<booking, faults>>
       \/ Fault /\ UNCHANGED booking
    /\ UNCHANGED <<now, car, unmarked, run, cancels, refunds, edits>>

(* findMany of updateBookingsFromActiveToCompleted. *)
Completable ==
    {b \in Bookings \ AirportBookings :
        booking[b].status = "ACTIVE" /\ booking[b].paymentStatus = "PAID" /\ car = "BOOKED"}

CompletionBatchesThisHour(j) ==
    {{b \in Completable : End[b] \div Hour = now \div Hour}}

CompletionBatches(j) ==
    {{b \in Completable : End[b] <= t} : t \in {now} \cup Triggers(j)}

FindActive(j) ==
    /\ run[j].pc = "idle"
    /\ \E batch \in CompletionBatches(j) \ {{}} :
        run' = [run EXCEPT ![j] = [IdleRun EXCEPT !.pc = "complete", !.startedAt = now,
                                                  !.batch = batch]]
    /\ UNCHANGED <<now, booking, car, unmarked, alarms, counters>>

(* completeAirportBooking: the chauffeur's link, the owner or operations. *)
FindAirportTrip(j) ==
    /\ run[j].pc = "idle"
    /\ \E b \in AirportBookings :
        /\ booking[b].status = "ACTIVE" /\ booking[b].paymentStatus = "PAID"
        /\ run' = [run EXCEPT ![j] = [IdleRun EXCEPT !.pc = "complete", !.startedAt = now,
                                                     !.batch = {b}]]
    /\ UNCHANGED <<now, booking, car, unmarked, alarms, counters>>

(* completeBookingTransaction up to hasUpcomingBooking: the guarded update  *)
(* locks the row, and nothing locks the car.                                *)
CanComplete(b) == booking[b].status = "ACTIVE" /\ booking[b].paymentStatus = "PAID"

HasUpcomingBooking(b) ==
    \E c \in Bookings \ {b} :
        /\ booking[c].status = "CONFIRMED" /\ booking[c].paymentStatus = "PAID"
        /\ Start[c] >= End[b]

RunGoesOn(j, batch) ==
    run' = [run EXCEPT ![j] = IF batch = {} THEN IdleRun
                              ELSE [IdleRun EXCEPT !.pc = "complete", !.batch = batch,
                                                   !.startedAt = run[j].startedAt]]

TakesLock(j, b) ==
    run' = [run EXCEPT ![j].pc = "commit", ![j].current = b,
                       ![j].release = ~HasUpcomingBooking(b)]

LockForCompletion(j) ==
    /\ run[j].pc = "complete"
    /\ \E b \in run[j].batch :
        /\ ~Locked(b)
        /\ \/ /\ CanComplete(b)
              /\ TakesLock(j, b)
           \/ /\ ~CanComplete(b)
              /\ RunGoesOn(j, run[j].batch \ {b})
    /\ UNCHANGED <<now, booking, car, unmarked, alarms, counters>>

(* The rest of the transaction: the car, the outbox events, the commit. *)
CommitCompletion(j) ==
    /\ run[j].pc = "commit"
    /\ SetStatus(run[j].current, "COMPLETED")
    /\ car' = IF run[j].release THEN "AVAILABLE" ELSE car
    /\ RunGoesOn(j, run[j].batch \ {run[j].current})
    /\ UNCHANGED <<now, unmarked, alarms, counters>>

(* A statement fails or the process dies: the transaction rolls back and    *)
(* the rest of the batch waits for the next run.                            *)
RunFails(j) ==
    /\ run[j].pc # "idle"
    /\ run' = [run EXCEPT ![j] = IdleRun]
    /\ Fault
    /\ UNCHANGED <<now, booking, car, unmarked, alarms, cancels, refunds, edits>>

-----------------------------------------------------------------------------
(* Time passes; no run lasts longer than MaxRun, no completion waits longer *)
(* than MaxLag.                                                             *)
Tick ==
    /\ now < MaxTime
    /\ \A j \in Runs : run[j].pc # "idle" => now < run[j].startedAt + MaxRun
    /\ \A b \in Completable : now < End[b] + MaxLag
    /\ now' = now + 1
    /\ UNCHANGED <<booking, car, unmarked, alarms, run, counters>>

RunStep(j) ==
    \/ FindConfirmed(j) \/ ConfirmedToActive(j) \/ FindActive(j) \/ FindAirportTrip(j)
    \/ LockForCompletion(j) \/ CommitCompletion(j)

CustomerStep(b) ==
    \/ createBooking(b) \/ confirmFromPayment(b) \/ cancelExpiredReservation(b)
    \/ cancelBooking(b) \/ reserveRefund(b)

Next ==
    \/ \E b \in Bookings : \/ CustomerStep(b) \/ assignChauffeur(b)
                           \/ updateCarStatusToBooked(b) \/ activateAirportBooking(b)
    \/ updateCar
    \/ \E j \in Runs : RunStep(j) \/ RunFails(j)
    \/ Tick

Spec == Init /\ [][Next]_vars

(* The cron enqueues both jobs every hour, a started run goes on and time   *)
(* passes.  Nothing is assumed about people.                                *)
Fairness == WF_vars(Tick) /\ \A j \in Runs : WF_vars(RunStep(j))

FairSpec == Spec /\ Fairness

-----------------------------------------------------------------------------
(* What the lifecycle promises. *)

(***************************************************************************)
(* A cancelled booking stays cancelled: the activation job writes ACTIVE by*)
(* id, without looking at the status again, to rows it read earlier        *)
(* (updateBookingsFromConfirmedToActive), so a cancellation in between     *)
(* would be undone and the trip driven, refunded and paid out.             *)
(***************************************************************************)
CancelledStays ==
    [][\A b \in Bookings : booking[b].status = "CANCELLED" =>
          booking'[b].status = "CANCELLED"]_vars

(***************************************************************************)
(* Only a run that an operator triggered can reopen a completed trip; an   *)
(* hourly run never does, although it may still hold the booking in its    *)
(* batch when another run completes it.                                    *)
(***************************************************************************)
CompletedStays ==
    [][\A b \in Bookings : booking[b].status = "COMPLETED" =>
          \/ booking'[b].status = "COMPLETED"
          \/ \E j \in ManualRuns : run'[j] # run[j]]_vars

(***************************************************************************)
(* A trip whose refund has begun is never completed, hence never enters    *)
(* the outbox for a payout, wherever the refund request falls between the  *)
(* steps of the completion (completeBookingTransaction, reserveRefund).    *)
(***************************************************************************)
CompletedIsPaid ==
    [][\A b \in Bookings :
          booking[b].status # "COMPLETED" /\ booking'[b].status = "COMPLETED" =>
              booking[b].paymentStatus = "PAID"]_vars

(***************************************************************************)
(* "cars with ACTIVE bookings should always be BOOKED": otherwise the      *)
(* completion job never selects the trip.                                  *)
(***************************************************************************)
ActiveCarIsBooked ==
    \A b \in Bookings \ AirportBookings : booking[b].status = "ACTIVE" => car = "BOOKED"

(***************************************************************************)
(* A trip that has started in time is eventually completed by the hourly   *)
(* job, which is what pays the fleet owner, whatever the confirmations and *)
(* completions of the car's other bookings do to the car; unless a refund  *)
(* has begun, or somebody has freed the car: a customer by cancelling      *)
(* another booking of it or the owner by editing it.                       *)
(***************************************************************************)
ActiveTripsComplete ==
    \A b \in Bookings \ AirportBookings :
        (booking[b].status = "ACTIVE" /\ now < End[b]) ~>
            \/ booking[b].status = "COMPLETED" \/ booking[b].paymentStatus # "PAID"
            \/ cancels > 0 \/ edits > 0

(***************************************************************************)
(* A completion is made for a paid trip and stands: a refund that begins   *)
(* between the steps of the completion prevents it, and no hourly run that *)
(* still holds the booking in its batch reopens it                         *)
(* (completeBookingTransaction, updateBookingsFromConfirmedToActive).      *)
(***************************************************************************)
CompletionStands == []TypeOK /\ CompletedIsPaid /\ CompletedStays

=============================================================================
