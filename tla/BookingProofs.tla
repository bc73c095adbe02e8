---------------------------- MODULE BookingProofs ----------------------------
(***************************************************************************)
(* TLAPS proofs about BookingLifecycle, for any number of bookings, workers*)
(* and faults and any dates, about FlightTracking, for any pickups,        *)
(* webhooks and times, and about FlightSearch, for any legs and instants.  *)
(*                                                                         *)
(* The activation job writes ACTIVE to rows it read some time ago, so the  *)
(* proofs rest on what is known of such a row at the time of the write:    *)
(* ActivateInv says that it cannot have been cancelled, because the cutoff *)
(* of cancellations is longer than the hour the job looks ahead; WindowInv *)
(* says that it cannot have been completed, because the trip outlasts the  *)
(* run.  LockInv is the row lock of a completion.                          *)
(*                                                                         *)
(* A webhook moves the windows of the pickups one after the other: that    *)
(* fold is unfolded first, and LeftBehind says what it leaves behind.      *)
(***************************************************************************)
EXTENDS BookingLifecycle, FlightTracking, FlightSearch, FiniteSetTheorems, WellFoundedInduction, TLAPS

USE DEF counters

(* A row in the batch of an activation was CONFIRMED and starts within the  *)
(* hour; it may have been activated and completed since, and nothing else.  *)
ActivateInv ==
    \A j \in Runs : run[j].pc = "activate" =>
        \A b \in run[j].batch :
            /\ booking[b].status \in {"CONFIRMED", "ACTIVE", "COMPLETED"}
            /\ Start[b] < now + Hour

(* Whoever is about to commit a completion is alone with its booking, which *)
(* is ACTIVE and PAID.                                                      *)
LockInv ==
    /\ \A j \in Runs : run[j].pc = "commit" => CanComplete(run[j].current)
    /\ \A j, k \in Runs :
          run[j].pc = "commit" /\ run[k].pc = "commit" /\ run[j].current = run[k].current
              => j = k

(* No run is older than MaxRun, and no trip is completed before its end.    *)
AgeInv ==
    /\ \A j \in Runs : run[j].pc # "idle" => now <= run[j].startedAt + MaxRun
    /\ \A j \in Runs : run[j].pc \in {"complete", "commit"} =>
          \A b \in run[j].batch \ AirportBookings : End[b] <= now
    /\ \A j \in Runs : run[j].pc = "commit" => run[j].current \in run[j].batch
    /\ \A b \in Bookings \ AirportBookings : booking[b].status = "COMPLETED" => End[b] <= now

(* The batch of an hourly activation starts in the hour the run began in.   *)
WindowInv ==
    \A j \in Runs \ ManualRuns : run[j].pc = "activate" =>
        \A b \in run[j].batch : b \notin AirportBookings /\ run[j].startedAt < Start[b] + Hour

-----------------------------------------------------------------------------
(* What a job finds, and how a run goes on. *)

(* The batches of both jobs consist of bookings that are not airport trips. *)
LEMMA FindTypes ==
    \A j \in Runs :
        /\ \A batch \in ActivationBatches(j) : batch \subseteq Bookings \ AirportBookings
        /\ \A batch \in CompletionBatches(j) : batch \subseteq Bookings \ AirportBookings
BY DEF ActivationBatches, CompletionBatches, Activatable, Completable

(* Two instants of the same hour are less than an hour apart. *)
LEMMA SameHour ==
    ASSUME NEW s \in Nat, NEW n \in Nat, NEW h \in Nat \ {0}, s \div h = n \div h
    PROVE  s < n + h /\ n < s + h
<1>1. h * (s \div h) <= s /\ s < h * (s \div h) + h
  OBVIOUS
<1>2. h * (n \div h) <= n /\ n < h * (n \div h) + h
  OBVIOUS
<1>3. h * (s \div h) \in Nat
  OBVIOUS
<1> QED
  BY <1>1, <1>2, <1>3

(* What the activation job finds is CONFIRMED and starts within the hour.   *)
LEMMA ActivationFinds ==
    ASSUME TypeOK, NEW j \in Runs, NEW batch \in ActivationBatches(j), NEW b \in batch
    PROVE  /\ b \in Bookings \ AirportBookings
           /\ booking[b].status = "CONFIRMED"
           /\ Start[b] < now + Hour
           /\ j \notin ManualRuns => now < Start[b] + Hour
<1> USE BookingAssumption DEF BookingAssumption, TypeOK
<1>1. b \in Bookings \ AirportBookings /\ booking[b].status = "CONFIRMED"
  BY DEF ActivationBatches, Activatable, CanActivate
<1>2. CASE StartsThisHour(b)
  BY <1>1, <1>2, SameHour DEF StartsThisHour
<1>3. CASE ~StartsThisHour(b)
  <2>1. j \in ManualRuns /\ \E t \in 0..now : Start[b] < t
    BY <1>3 DEF ActivationBatches, Triggers
  <2> QED
    BY <1>1, <2>1
<1> QED
  BY <1>2, <1>3

(* What the completion job finds has ended. *)
LEMMA CompletionFinds ==
    ASSUME TypeOK, NEW j \in Runs, NEW batch \in CompletionBatches(j), NEW b \in batch
    PROVE  End[b] <= now
<1> USE BookingAssumption DEF BookingAssumption, TypeOK
<1>1. \E t \in {now} \cup Triggers(j) : b \in Bookings /\ End[b] <= t
  BY DEF CompletionBatches, Completable
<1>2. Triggers(j) \subseteq 0..now
  BY DEF Triggers
<1> QED
  BY <1>1, <1>2

(* A job that has read its batch. *)
LEMMA StartType ==
    ASSUME TypeOK, NEW j \in Runs, NEW batch \in SUBSET Bookings,
           NEW pc \in {"activate", "complete"},
           run' = [run EXCEPT ![j] = [IdleRun EXCEPT !.pc = pc, !.startedAt = now,
                                                     !.batch = batch]]
    PROVE  /\ run' \in [Runs -> JobRuns]
           /\ \A k \in Runs \ {j} : run'[k] = run[k]
           /\ run'[j].pc = pc /\ run'[j].batch = batch /\ run'[j].startedAt = now
BY DEF TypeOK, JobRuns, IdleRun

(* A run that has locked a booking of its batch. *)
LEMMA LockType ==
    ASSUME TypeOK, NEW j \in Runs, NEW b \in Bookings, TakesLock(j, b)
    PROVE  /\ run' \in [Runs -> JobRuns]
           /\ \A k \in Runs \ {j} : run'[k] = run[k]
           /\ run'[j].pc = "commit" /\ run'[j].current = b
           /\ run'[j].batch = run[j].batch /\ run'[j].startedAt = run[j].startedAt
<1>1. HasUpcomingBooking(b) \in BOOLEAN
  BY DEF HasUpcomingBooking
<1> QED
  BY <1>1 DEF TypeOK, JobRuns, TakesLock

(* A run that goes on is idle or has the rest of its batch. *)
LEMMA GoOnType ==
    ASSUME TypeOK, NEW j \in Runs, NEW batch \in SUBSET Bookings, RunGoesOn(j, batch)
    PROVE  /\ run' \in [Runs -> JobRuns]
           /\ \A k \in Runs \ {j} : run'[k] = run[k]
           /\ run'[j].pc \in {"idle", "complete"}
           /\ run'[j].pc = "complete" => /\ run'[j].batch = batch
                                         /\ run'[j].startedAt = run[j].startedAt
BY DEF TypeOK, RunGoesOn, JobRuns, IdleRun

-----------------------------------------------------------------------------
(* Types. *)

(* A step never leaves the types: the case split over Next that every       *)
(* invariant below repeats.                                                 *)
LEMMA TypeStep == TypeOK /\ [Next]_vars => TypeOK'
<1> USE BookingAssumption DEF BookingAssumption
<1> SUFFICES ASSUME TypeOK, [Next]_vars PROVE TypeOK'
  OBVIOUS
<1> USE DEF TypeOK, Rows, Statuses, Blocking, Finished, OwnerStatuses, Fault
<1>1. ASSUME NEW b \in Bookings, createBooking(b) PROVE TypeOK'
  BY <1>1 DEF createBooking, SetStatus
<1>2. ASSUME NEW b \in Bookings, confirmFromPayment(b) PROVE TypeOK'
  BY <1>2 DEF confirmFromPayment
<1>3. ASSUME NEW b \in Bookings, cancelExpiredReservation(b) PROVE TypeOK'
  BY <1>3 DEF cancelExpiredReservation, SetStatus
<1>4. ASSUME NEW b \in Bookings, cancelBooking(b) PROVE TypeOK'
  <2>1. booking' \in [Bookings -> Rows]
    <3>1. [booking[b] EXCEPT !.status = "CANCELLED", !.paymentStatus = "REFUND_PROCESSING"]
            \in Rows
      <4>1. booking[b] \in Rows
        OBVIOUS
      <4>2. \A r \in Rows : [r EXCEPT !.status = "CANCELLED",
                                      !.paymentStatus = "REFUND_PROCESSING"] \in Rows
        OBVIOUS
      <4> QED
        BY <4>1, <4>2
    <3>2. booking' = [booking EXCEPT ![b] = [booking[b] EXCEPT !.status = "CANCELLED",
                                             !.paymentStatus = "REFUND_PROCESSING"]]
      BY <1>4 DEF cancelBooking
    <3> QED
      BY <3>1, <3>2
  <2>2. cancels' \in 0..MaxCancels
    BY <1>4 DEF cancelBooking
  <2> QED
    BY <1>4, <2>1, <2>2 DEF cancelBooking
<1>5. ASSUME NEW b \in Bookings, reserveRefund(b) PROVE TypeOK'
  BY <1>5 DEF reserveRefund
<1>6. ASSUME NEW b \in Bookings, assignChauffeur(b) PROVE TypeOK'
  BY <1>6 DEF assignChauffeur
<1>7. ASSUME NEW b \in Bookings, updateCarStatusToBooked(b) PROVE TypeOK'
  BY <1>7 DEF updateCarStatusToBooked
<1>8. ASSUME NEW b \in Bookings, activateAirportBooking(b) PROVE TypeOK'
  BY <1>8 DEF activateAirportBooking, SetStatus
<1>9. CASE updateCar
  BY <1>9 DEF updateCar
<1>10. ASSUME NEW j \in Runs, FindConfirmed(j) PROVE TypeOK'
  <2>1. PICK batch \in ActivationBatches(j) :
          run' = [run EXCEPT ![j] = [IdleRun EXCEPT !.pc = "activate", !.startedAt = now,
                                                    !.batch = batch]]
    BY <1>10 DEF FindConfirmed
  <2>2. batch \in SUBSET Bookings
    BY FindTypes
  <2>3. run' \in [Runs -> JobRuns] /\ run'[j].pc # "commit"
        /\ \A k \in Runs \ {j} : run'[k] = run[k]
    BY <2>1, <2>2, StartType
  <2> QED
    BY <1>10, <2>3 DEF FindConfirmed
<1>11. ASSUME NEW j \in Runs, ConfirmedToActive(j) PROVE TypeOK'
  BY <1>11 DEF ConfirmedToActive, JobRuns, IdleRun
<1>12. ASSUME NEW j \in Runs, FindActive(j) PROVE TypeOK'
  <2>1. PICK batch \in CompletionBatches(j) :
          run' = [run EXCEPT ![j] = [IdleRun EXCEPT !.pc = "complete", !.startedAt = now,
                                                    !.batch = batch]]
    BY <1>12 DEF FindActive
  <2>2. batch \in SUBSET Bookings
    BY FindTypes
  <2>3. run' \in [Runs -> JobRuns] /\ run'[j].pc # "commit"
        /\ \A k \in Runs \ {j} : run'[k] = run[k]
    BY <2>1, <2>2, StartType
  <2> QED
    BY <1>12, <2>3 DEF FindActive
<1>13. ASSUME NEW j \in Runs, FindAirportTrip(j) PROVE TypeOK'
  <2>1. PICK b \in AirportBookings :
          run' = [run EXCEPT ![j] = [IdleRun EXCEPT !.pc = "complete", !.startedAt = now,
                                                    !.batch = {b}]]
    BY <1>13 DEF FindAirportTrip
  <2>2. {b} \in SUBSET Bookings
    OBVIOUS
  <2>3. run' \in [Runs -> JobRuns] /\ run'[j].pc # "commit"
        /\ \A k \in Runs \ {j} : run'[k] = run[k]
    BY <2>1, <2>2, StartType
  <2> QED
    BY <1>13, <2>3 DEF FindAirportTrip
<1>14. ASSUME NEW j \in Runs, LockForCompletion(j) PROVE TypeOK'
  <2>1. PICK b \in run[j].batch : 
          b \in Bookings /\ (TakesLock(j, b) \/ RunGoesOn(j, run[j].batch \ {b}))
    BY <1>14 DEF LockForCompletion, JobRuns
  <2>2. CASE TakesLock(j, b)
    BY <1>14, <2>1, <2>2, LockType DEF LockForCompletion
  <2>3. CASE RunGoesOn(j, run[j].batch \ {b})
    <3>1. run[j].batch \ {b} \in SUBSET Bookings
      BY DEF JobRuns
    <3> QED
      BY <1>14, <2>3, <3>1, GoOnType DEF LockForCompletion
  <2> QED
    BY <2>1, <2>2, <2>3
<1>15. ASSUME NEW j \in Runs, CommitCompletion(j) PROVE TypeOK'
  <2>1. run[j].batch \ {run[j].current} \in SUBSET Bookings
    BY DEF JobRuns
  <2>2. run' \in [Runs -> JobRuns] /\ run'[j].pc # "commit"
        /\ \A k \in Runs \ {j} : run'[k] = run[k]
    BY <1>15, <2>1, GoOnType DEF CommitCompletion
  <2>3. booking' \in [Bookings -> Rows]
    BY <1>15 DEF CommitCompletion, SetStatus
  <2> QED
    BY <1>15, <2>2, <2>3 DEF CommitCompletion
<1>16. ASSUME NEW j \in Runs, RunFails(j) PROVE TypeOK'
  BY <1>16 DEF RunFails, JobRuns, IdleRun
<1>17. CASE Tick
  BY <1>17 DEF Tick
<1>18. CASE UNCHANGED vars
  BY <1>18 DEF vars
<1> QED
  BY <1>1, <1>2, <1>3, <1>4, <1>5, <1>6, <1>7, <1>8, <1>9, <1>10, <1>11, <1>12, <1>13,
     <1>14, <1>15, <1>16, <1>17, <1>18 DEF Next, CustomerStep, RunStep

(* TypeOK holds in every reachable state, for every set of bookings, every  *)
(* schedule of their dates and every number of runs.                        *)
THEOREM BookingTypes == Spec => []TypeOK
<1>1. Init => TypeOK
  BY BookingAssumption DEF BookingAssumption, Init, TypeOK, NoRow, IdleRun, Rows, JobRuns,
     Statuses, Blocking, Finished, OwnerStatuses
<1> QED
  BY <1>1, TypeStep, PTL DEF Spec

-----------------------------------------------------------------------------
(* The invariants. *)

TripInv == ActivateInv /\ LockInv /\ AgeInv

Started == {"CONFIRMED", "ACTIVE", "COMPLETED"}

(* A change of one row that the runs do not notice: nobody has locked it,   *)
(* it is not completed, and if it may be in the batch of an activation it   *)
(* stays among the statuses of such a batch.                                *)
Unnoticed(b) ==
    /\ ~Locked(b)
    /\ booking'[b].status # "COMPLETED" \/ booking[b].status = "COMPLETED"
    /\ booking[b].status \in Started /\ Start[b] < now + Hour => booking'[b].status \in Started

(* Steps of customers, owners and the airport job keep the invariants.      *)
LEMMA RowChange ==
    ASSUME TypeOK, TypeOK', TripInv, UNCHANGED <<now, run>>,
           \A b \in Bookings : booking'[b] = booking[b] \/ Unnoticed(b)
    PROVE  TripInv'
<1> USE DEF TripInv
<1>1. ActivateInv'
  <2> SUFFICES ASSUME NEW j \in Runs, run[j].pc = "activate", NEW b \in run[j].batch
               PROVE  booking'[b].status \in Started /\ Start[b] < now + Hour
    BY DEF ActivateInv, Started
  <2>1. b \in Bookings
    BY DEF TypeOK, JobRuns
  <2> QED
    BY <2>1 DEF ActivateInv, Unnoticed, Started
<1>2. LockInv'
  BY DEF LockInv, Unnoticed, Locked, CanComplete, TypeOK
<1>3. AgeInv'
  BY DEF AgeInv, Unnoticed
<1> QED
  BY <1>1, <1>2, <1>3

(* A row that is not ACTIVE is not locked. *)
LEMMA OnlyActiveLocked ==
    ASSUME LockInv, NEW b \in Bookings, booking[b].status # "ACTIVE"
    PROVE  ~Locked(b)
BY DEF LockInv, Locked, CanComplete

(* A run has read bookings to complete that have ended. *)
StartsCompleting(j, batch) ==
    /\ UNCHANGED <<now, booking>>
    /\ \A k \in Runs \ {j} : run'[k] = run[k]
    /\ run'[j].pc = "complete" /\ run'[j].batch = batch /\ run'[j].startedAt = now
    /\ \A b \in batch : b \in AirportBookings \/ End[b] <= now

(* Such a read keeps the invariants. *)
LEMMA StartCompleting ==
    ASSUME TypeOK, TripInv, NEW j \in Runs, NEW batch, StartsCompleting(j, batch)
    PROVE  TripInv'
<1> USE BookingAssumption DEF BookingAssumption
<1>1. ActivateInv'
  BY DEF ActivateInv, TripInv, StartsCompleting
<1>2. LockInv'
  BY DEF LockInv, CanComplete, TripInv, StartsCompleting
<1>3. AgeInv'
  BY DEF AgeInv, TripInv, StartsCompleting, TypeOK
<1> QED
  BY <1>1, <1>2, <1>3 DEF TripInv

(* A run is done with booking b, which may be completed now. *)
LEMMA GoOn ==
    ASSUME TypeOK, TypeOK', TripInv, NEW j \in Runs, NEW b \in Bookings,
           run[j].batch \ {b} \in SUBSET Bookings,
           RunGoesOn(j, run[j].batch \ {b}),
           run[j].pc \in {"complete", "commit"}, now' = now,
           \/ booking' = booking
           \/ /\ booking'[b].status = "COMPLETED"
              /\ \A c \in Bookings \ {b} : booking'[c] = booking[c]
              /\ b \in AirportBookings \/ End[b] <= now
              /\ \A k \in Runs \ {j} : run[k].pc = "commit" => run[k].current # b
    PROVE  TripInv'
<1>1. /\ \A k \in Runs \ {j} : run'[k] = run[k]
      /\ run'[j].pc \in {"idle", "complete"}
      /\ run'[j].pc = "complete" => /\ run'[j].batch = run[j].batch \ {b}
                                    /\ run'[j].startedAt = run[j].startedAt
  BY GoOnType
<1>2. ActivateInv'
  <2> SUFFICES ASSUME NEW k \in Runs, run'[k].pc = "activate", NEW c \in run'[k].batch
               PROVE  booking'[c].status \in Started /\ Start[c] < now' + Hour
    BY DEF ActivateInv, Started
  <2>1. k # j /\ run'[k] = run[k] /\ c \in Bookings
    BY <1>1 DEF TypeOK, JobRuns
  <2> QED
    BY <2>1 DEF ActivateInv, TripInv, Started
<1>3. LockInv'
  BY <1>1 DEF LockInv, CanComplete, TripInv, TypeOK
<1>4. AgeInv'
  BY <1>1 DEF AgeInv, TripInv
<1> QED
  BY <1>2, <1>3, <1>4 DEF TripInv

(* Every step keeps what the runs know of their bookings. *)
LEMMA TripStep == TypeOK /\ TypeOK' /\ TripInv /\ [Next]_vars => TripInv'
<1> USE BookingAssumption DEF BookingAssumption
<1> SUFFICES ASSUME TypeOK, TypeOK', TripInv, [Next]_vars PROVE TripInv'
  OBVIOUS
<1> USE DEF TypeOK
<1>1. ASSUME NEW b \in Bookings, createBooking(b) PROVE TripInv'
  BY <1>1, RowChange, OnlyActiveLocked DEF createBooking, SetStatus, Unnoticed, TripInv, Started
<1>2. ASSUME NEW b \in Bookings, confirmFromPayment(b) PROVE TripInv'
  BY <1>2, RowChange, OnlyActiveLocked DEF confirmFromPayment, Unnoticed, TripInv, Started
<1>3. ASSUME NEW b \in Bookings, cancelExpiredReservation(b) PROVE TripInv'
  BY <1>3, RowChange, OnlyActiveLocked
     DEF cancelExpiredReservation, SetStatus, Unnoticed, TripInv, Started
<1>4. ASSUME NEW b \in Bookings, cancelBooking(b) PROVE TripInv'
  <2>1. ~(Start[b] < now + Hour)
    BY <1>4, CutoffAssumption DEF CutoffAssumption, cancelBooking, assertCanCancel
  <2> QED
    BY <1>4, <2>1, RowChange, OnlyActiveLocked
       DEF cancelBooking, assertCanCancel, Unnoticed, TripInv, Started
<1>5. ASSUME NEW b \in Bookings, reserveRefund(b) PROVE TripInv'
  BY <1>5, RowChange DEF reserveRefund, Unnoticed, TripInv, Started
<1>6. ASSUME NEW b \in Bookings, assignChauffeur(b) PROVE TripInv'
  BY <1>6, RowChange, OnlyActiveLocked DEF assignChauffeur, Unnoticed, TripInv, Started
<1>7. ASSUME NEW b \in Bookings, updateCarStatusToBooked(b) PROVE TripInv'
  BY <1>7, RowChange DEF updateCarStatusToBooked
<1>8. ASSUME NEW b \in Bookings, activateAirportBooking(b) PROVE TripInv'
  <2>1. UNCHANGED <<now, run>>
    BY <1>8 DEF activateAirportBooking
  <2>2. CASE booking' = booking
    BY <2>1, <2>2, RowChange
  <2>3. CASE CanActivate(b) /\ SetStatus(b, "ACTIVE")
    BY <2>1, <2>3, RowChange, OnlyActiveLocked
       DEF CanActivate, SetStatus, Unnoticed, TripInv, Started
  <2> QED
    BY <1>8, <2>2, <2>3 DEF activateAirportBooking
<1>9. CASE updateCar
  BY <1>9, RowChange DEF updateCar
<1>10. ASSUME NEW j \in Runs, FindConfirmed(j) PROVE TripInv'
  <2>1. PICK batch \in ActivationBatches(j) :
          run' = [run EXCEPT ![j] = [IdleRun EXCEPT !.pc = "activate", !.startedAt = now,
                                                    !.batch = batch]]
    BY <1>10 DEF FindConfirmed
  <2>2. batch \in SUBSET Bookings
    BY FindTypes
  <2>3. /\ \A k \in Runs \ {j} : run'[k] = run[k]
        /\ run'[j].pc = "activate" /\ run'[j].batch = batch /\ run'[j].startedAt = now
    BY <2>1, <2>2, StartType
  <2>4. ActivateInv'
    BY <1>10, <2>3, ActivationFinds DEF FindConfirmed, ActivateInv, TripInv
  <2>5. LockInv'
    BY <1>10, <2>3 DEF FindConfirmed, LockInv, CanComplete, TripInv
  <2>6. AgeInv'
    BY <1>10, <2>3 DEF FindConfirmed, AgeInv, TripInv
  <2> QED
    BY <2>4, <2>5, <2>6 DEF TripInv
<1>11. ASSUME NEW j \in Runs, ConfirmedToActive(j) PROVE TripInv'
  <2>1. /\ \A k \in Runs \ {j} : run'[k] = run[k]
        /\ run'[j].pc = "idle"
        /\ now' = now
    BY <1>11 DEF ConfirmedToActive, IdleRun
  <2>2. \A b \in Bookings : \/ booking'[b] = booking[b]
                            \/ ~Locked(b) /\ booking'[b].status = "ACTIVE"
    BY <1>11 DEF ConfirmedToActive, Rows
  <2>3. ActivateInv'
    <3> SUFFICES ASSUME NEW k \in Runs, run'[k].pc = "activate", NEW b \in run'[k].batch
                 PROVE  booking'[b].status \in Started /\ Start[b] < now' + Hour
      BY DEF ActivateInv, Started
    <3>1. k # j /\ run'[k] = run[k] /\ b \in Bookings
      BY <2>1 DEF JobRuns
    <3> QED
      BY <2>1, <2>2, <3>1 DEF ActivateInv, TripInv, Started
  <2>4. LockInv'
    BY <2>1, <2>2 DEF LockInv, CanComplete, Locked, TripInv
  <2>5. AgeInv'
    BY <2>1, <2>2 DEF AgeInv, TripInv
  <2> QED
    BY <2>3, <2>4, <2>5 DEF TripInv
<1>12. ASSUME NEW j \in Runs, FindActive(j) PROVE TripInv'
  <2>1. PICK batch \in CompletionBatches(j) :
          run' = [run EXCEPT ![j] = [IdleRun EXCEPT !.pc = "complete", !.startedAt = now,
                                                    !.batch = batch]]
    BY <1>12 DEF FindActive
  <2>2. batch \in SUBSET Bookings
    BY FindTypes
  <2>3. \A b \in batch : End[b] <= now
    BY CompletionFinds
  <2>4. StartsCompleting(j, batch)
    BY <1>12, <2>1, <2>2, <2>3, StartType DEF FindActive, StartsCompleting
  <2> QED
    BY <2>4, StartCompleting
<1>13. ASSUME NEW j \in Runs, FindAirportTrip(j) PROVE TripInv'
  <2>1. PICK b \in AirportBookings :
          run' = [run EXCEPT ![j] = [IdleRun EXCEPT !.pc = "complete", !.startedAt = now,
                                                    !.batch = {b}]]
    BY <1>13 DEF FindAirportTrip
  <2>2. {b} \in SUBSET Bookings
    OBVIOUS
  <2>3. StartsCompleting(j, {b})
    BY <1>13, <2>1, <2>2, StartType DEF FindAirportTrip, StartsCompleting
  <2> QED
    BY <2>3, StartCompleting
<1>14. ASSUME NEW j \in Runs, LockForCompletion(j) PROVE TripInv'
  <2>1. PICK b \in run[j].batch :
          /\ b \in Bookings
          /\ \/ TakesLock(j, b) /\ ~Locked(b) /\ CanComplete(b)
             \/ RunGoesOn(j, run[j].batch \ {b})
    BY <1>14 DEF LockForCompletion, JobRuns
  <2>2. CASE TakesLock(j, b) /\ ~Locked(b) /\ CanComplete(b)
    <3>1. /\ \A k \in Runs \ {j} : run'[k] = run[k]
          /\ run'[j].pc = "commit" /\ run'[j].current = b
          /\ run'[j].batch = run[j].batch /\ run'[j].startedAt = run[j].startedAt
      BY <2>1, <2>2, LockType
    <3>2. UNCHANGED <<now, booking>> /\ run[j].pc = "complete"
      BY <1>14 DEF LockForCompletion
    <3>3. ActivateInv'
      BY <3>1, <3>2 DEF ActivateInv, TripInv
    <3>4. LockInv'
      BY <2>2, <3>1, <3>2 DEF LockInv, CanComplete, Locked, TripInv
    <3>5. AgeInv'
      BY <3>1, <3>2 DEF AgeInv, TripInv
    <3> QED
      BY <3>3, <3>4, <3>5 DEF TripInv
  <2>3. CASE RunGoesOn(j, run[j].batch \ {b})
    <3>1. run[j].batch \ {b} \in SUBSET Bookings
      BY DEF JobRuns
    <3>2. UNCHANGED <<now, booking>> /\ run[j].pc = "complete"
      BY <1>14 DEF LockForCompletion
    <3> QED
      BY <2>1, <2>3, <3>1, <3>2, GoOn
  <2> QED
    BY <2>1, <2>2, <2>3
<1>15. ASSUME NEW j \in Runs, CommitCompletion(j) PROVE TripInv'
  <2> DEFINE b == run[j].current
  <2>1. run[j].batch \ {b} \in SUBSET Bookings /\ b \in Bookings
    BY <1>15 DEF CommitCompletion, JobRuns
  <2>2. run[j].pc = "commit" /\ now' = now
    BY <1>15 DEF CommitCompletion
  <2>3. booking'[b].status = "COMPLETED" /\ \A c \in Bookings \ {b} : booking'[c] = booking[c]
    BY <1>15, <2>1 DEF CommitCompletion, SetStatus, Rows
  <2>4. b \in AirportBookings \/ End[b] <= now
    BY <2>1, <2>2 DEF AgeInv, TripInv
  <2>5. \A k \in Runs \ {j} : run[k].pc = "commit" => run[k].current # b
    BY <2>2 DEF LockInv, TripInv
  <2>6. RunGoesOn(j, run[j].batch \ {b})
    BY <1>15 DEF CommitCompletion
  <2> HIDE DEF b
  <2> QED
    BY <2>1, <2>2, <2>3, <2>4, <2>5, <2>6, GoOn
<1>16. ASSUME NEW j \in Runs, RunFails(j) PROVE TripInv'
  <2>1. /\ \A k \in Runs \ {j} : run'[k] = run[k]
        /\ run'[j].pc = "idle"
        /\ UNCHANGED <<now, booking>>
    BY <1>16 DEF RunFails, IdleRun
  <2> QED
    BY <2>1 DEF TripInv, ActivateInv, LockInv, AgeInv, CanComplete
<1>17. CASE Tick
  <2>1. now' = now + 1 /\ UNCHANGED <<booking, run>>
    BY <1>17 DEF Tick
  <2>2. ActivateInv'
    <3> SUFFICES ASSUME NEW j \in Runs, run[j].pc = "activate", NEW b \in run[j].batch
                 PROVE  booking[b].status \in Started /\ Start[b] < now + 1 + Hour
      BY <2>1 DEF ActivateInv, Started
    <3>1. b \in Bookings
      BY DEF JobRuns
    <3> QED
      BY <3>1 DEF ActivateInv, TripInv, Started
  <2>3. LockInv'
    BY <2>1 DEF LockInv, CanComplete, TripInv
  <2>4. AgeInv'
    <3>1. \A j \in Runs : run[j].pc # "idle" => now + 1 <= run[j].startedAt + MaxRun
      BY <1>17 DEF Tick, JobRuns
    <3>2. \A b \in Bookings : End[b] <= now => End[b] <= now + 1
      OBVIOUS
    <3>3. \A j \in Runs : run[j].batch \subseteq Bookings
      BY DEF JobRuns
    <3> QED
      BY <2>1, <3>1, <3>2, <3>3 DEF AgeInv, TripInv
  <2> QED
    BY <2>2, <2>3, <2>4 DEF TripInv
<1>18. CASE UNCHANGED vars
  BY <1>18, RowChange DEF vars
<1> QED
  BY <1>1, <1>2, <1>3, <1>4, <1>5, <1>6, <1>7, <1>8, <1>9, <1>10, <1>11, <1>12, <1>13,
     <1>14, <1>15, <1>16, <1>17, <1>18 DEF Next, CustomerStep, RunStep

(* The invariants hold in every reachable state: a booking in the hands of  *)
(* an activation is never a cancelled one, a completion is alone with its   *)
(* booking, and nothing is completed before its end.                        *)
THEOREM BookingInvariant == Spec => [](TypeOK /\ TripInv)
<1>1. Init => TripInv
  BY BookingAssumption DEF BookingAssumption, Init, TripInv, ActivateInv, LockInv, AgeInv,
     NoRow, IdleRun
<1>2. TypeOK /\ TypeOK' /\ TripInv /\ [Next]_vars => TripInv'
  BY TripStep
<1>3. Spec => []TypeOK
  BY BookingTypes
<1> QED
  BY <1>1, <1>2, <1>3, PTL DEF Spec

-----------------------------------------------------------------------------
(* What a step may do to the status of a booking. *)

(* A step that leaves COMPLETED or CANCELLED is the write of an activation. *)
LEMMA OnlyActivationReopens ==
    ASSUME TypeOK, TripInv, [Next]_vars, NEW b \in Bookings,
           booking[b].status \in Finished, booking'[b].status # booking[b].status
    PROVE  \E j \in Runs : run[j].pc = "activate" /\ b \in run[j].batch /\ run'[j] # run[j]
<1> USE DEF TypeOK, Finished
<1>1. ASSUME NEW c \in Bookings,
             CustomerStep(c) \/ assignChauffeur(c) \/ updateCarStatusToBooked(c)
      PROVE  FALSE
  BY <1>1 DEF CustomerStep, createBooking, confirmFromPayment, cancelExpiredReservation,
     cancelBooking, assertCanCancel, reserveRefund, assignChauffeur,
     updateCarStatusToBooked, SetStatus, Rows
<1>2. ASSUME NEW c \in Bookings, activateAirportBooking(c) PROVE FALSE
  BY <1>2 DEF activateAirportBooking, CanActivate, SetStatus
<1>3. CASE updateCar \/ Tick \/ UNCHANGED vars
  BY <1>3 DEF updateCar, Tick, vars
<1>4. ASSUME NEW j \in Runs,
             \/ FindConfirmed(j) \/ FindActive(j) \/ FindAirportTrip(j)
             \/ LockForCompletion(j) \/ RunFails(j)
      PROVE  FALSE
  BY <1>4 DEF FindConfirmed, FindActive, FindAirportTrip, LockForCompletion, RunFails
<1>5. ASSUME NEW j \in Runs, CommitCompletion(j) PROVE FALSE
  <2>1. booking[run[j].current].status = "ACTIVE"
    BY <1>5 DEF CommitCompletion, TripInv, LockInv, CanComplete
  <2> QED
    BY <1>5, <2>1 DEF CommitCompletion, SetStatus
<1>6. ASSUME NEW j \in Runs, ConfirmedToActive(j)
      PROVE  run[j].pc = "activate" /\ b \in run[j].batch /\ run'[j] # run[j]
  BY <1>6 DEF ConfirmedToActive, IdleRun
<1> QED
  BY <1>1, <1>2, <1>3, <1>4, <1>5, <1>6 DEF Next, RunStep

(* A cancelled booking is never reopened: the activation job may write      *)
(* ACTIVE to a stale batch, but cancellation closes before a booking can    *)
(* enter one.  For all bookings, dates, runs and interleavings, with or     *)
(* without manual triggers.                                                 *)
THEOREM CancelledForGood == Spec => CancelledStays
<1>1. ASSUME TypeOK, TripInv, [Next]_vars
      PROVE  [\A b \in Bookings : booking[b].status = "CANCELLED" =>
                booking'[b].status = "CANCELLED"]_vars
  <2> SUFFICES ASSUME NEW b \in Bookings, booking[b].status = "CANCELLED",
                      booking'[b].status # "CANCELLED"
               PROVE  FALSE
    OBVIOUS
  <2>1. \E j \in Runs : run[j].pc = "activate" /\ b \in run[j].batch
    BY <1>1, OnlyActivationReopens DEF Finished
  <2> QED
    BY <1>1, <2>1 DEF TripInv, ActivateInv
<1> QED
  BY <1>1, BookingInvariant, PTL DEF Spec, CancelledStays

(* Only a PAID booking is completed, wherever a refund request falls        *)
(* between the reads and writes of the completion.                          *)
THEOREM CompletedOnlyPaid == Spec => CompletedIsPaid
<1>1. ASSUME TypeOK, TripInv, [Next]_vars
      PROVE  [\A b \in Bookings :
                booking[b].status # "COMPLETED" /\ booking'[b].status = "COMPLETED" =>
                    booking[b].paymentStatus = "PAID"]_vars
  <2> SUFFICES ASSUME NEW b \in Bookings, booking[b].status # "COMPLETED",
                      booking'[b].status = "COMPLETED"
               PROVE  booking[b].paymentStatus = "PAID"
    OBVIOUS
  <2> USE <1>1 DEF TypeOK
  <2>1. ASSUME NEW c \in Bookings,
               CustomerStep(c) \/ assignChauffeur(c) \/ updateCarStatusToBooked(c)
        PROVE  FALSE
    BY <2>1 DEF CustomerStep, createBooking, confirmFromPayment, cancelExpiredReservation,
       cancelBooking, assertCanCancel, reserveRefund, assignChauffeur,
       updateCarStatusToBooked, SetStatus, Rows
  <2>2. ASSUME NEW c \in Bookings, activateAirportBooking(c) PROVE FALSE
    BY <2>2 DEF activateAirportBooking, CanActivate, SetStatus, Rows
  <2>3. CASE updateCar \/ Tick \/ UNCHANGED vars
    BY <2>3 DEF updateCar, Tick, vars
  <2>4. ASSUME NEW j \in Runs,
               \/ FindConfirmed(j) \/ FindActive(j) \/ FindAirportTrip(j)
               \/ LockForCompletion(j) \/ RunFails(j)
        PROVE  FALSE
    BY <2>4 DEF FindConfirmed, FindActive, FindAirportTrip, LockForCompletion, RunFails
  <2>5. ASSUME NEW j \in Runs, CommitCompletion(j) PROVE booking[b].paymentStatus = "PAID"
    <3>1. run[j].pc = "commit" /\ (b # run[j].current => booking'[b] = booking[b])
      BY <2>5 DEF CommitCompletion, SetStatus
    <3> QED
      BY <3>1 DEF TripInv, LockInv, CanComplete
  <2>6. ASSUME NEW j \in Runs, ConfirmedToActive(j) PROVE FALSE
    BY <2>6 DEF ConfirmedToActive, Rows
  <2> QED
    BY <2>1, <2>2, <2>3, <2>4, <2>5, <2>6 DEF Next, RunStep
<1> QED
  BY <1>1, BookingInvariant, PTL DEF Spec, CompletedIsPaid

(* An hourly activation only holds bookings that begin in the hour its run  *)
(* began in.                                                                *)
LEMMA WindowStep == TypeOK /\ WindowInv /\ [Next]_vars => WindowInv'
<1> SUFFICES ASSUME TypeOK, WindowInv, [Next]_vars PROVE WindowInv'
  OBVIOUS
<1>1. CASE run' = run
  BY <1>1 DEF WindowInv
<1>2. ASSUME NEW j \in Runs, FindConfirmed(j) PROVE WindowInv'
  <2>1. PICK batch \in ActivationBatches(j) :
          run' = [run EXCEPT ![j] = [IdleRun EXCEPT !.pc = "activate", !.startedAt = now,
                                                    !.batch = batch]]
    BY <1>2 DEF FindConfirmed
  <2>2. batch \in SUBSET Bookings
    BY FindTypes
  <2>3. /\ \A k \in Runs \ {j} : run'[k] = run[k]
        /\ run'[j].batch = batch /\ run'[j].startedAt = now
    BY <2>1, <2>2, StartType
  <2>4. j \notin ManualRuns =>
          \A b \in batch : b \notin AirportBookings /\ now < Start[b] + Hour
    BY ActivationFinds
  <2> QED
    BY <2>3, <2>4 DEF WindowInv
<1>3. ASSUME NEW j \in Runs, \A k \in Runs \ {j} : run'[k] = run[k], run'[j].pc # "activate"
      PROVE  WindowInv'
  BY <1>3 DEF WindowInv
<1>4. ASSUME NEW j \in Runs, ConfirmedToActive(j) \/ RunFails(j) PROVE WindowInv'
  BY <1>3, <1>4 DEF ConfirmedToActive, RunFails, IdleRun, TypeOK
<1>5. ASSUME NEW j \in Runs, FindActive(j) PROVE WindowInv'
  BY <1>3, <1>5 DEF FindActive, IdleRun, TypeOK
<1>6. ASSUME NEW j \in Runs, FindAirportTrip(j) PROVE WindowInv'
  <2>1. PICK b \in AirportBookings :
          run' = [run EXCEPT ![j] = [IdleRun EXCEPT !.pc = "complete", !.startedAt = now,
                                                    !.batch = {b}]]
    BY <1>6 DEF FindAirportTrip
  <2>2. {b} \in SUBSET Bookings
    BY BookingAssumption DEF BookingAssumption
  <2> QED
    BY <1>3, <2>1, <2>2, StartType
<1>7. ASSUME NEW j \in Runs, LockForCompletion(j) PROVE WindowInv'
  <2>1. PICK b \in run[j].batch :
          b \in Bookings /\ (TakesLock(j, b) \/ RunGoesOn(j, run[j].batch \ {b}))
    BY <1>7 DEF LockForCompletion, TypeOK, JobRuns
  <2>2. CASE TakesLock(j, b)
    BY <1>3, <2>1, <2>2, LockType
  <2>3. CASE RunGoesOn(j, run[j].batch \ {b})
    <3>1. run[j].batch \ {b} \in SUBSET Bookings
      BY DEF TypeOK, JobRuns
    <3> QED
      BY <1>3, <2>3, <3>1, GoOnType
  <2> QED
    BY <2>1, <2>2, <2>3
<1>8. ASSUME NEW j \in Runs, CommitCompletion(j) PROVE WindowInv'
  BY <1>3, <1>8 DEF CommitCompletion, RunGoesOn, IdleRun, TypeOK, JobRuns
<1>9. ASSUME NEW b \in Bookings, \/ CustomerStep(b) \/ assignChauffeur(b)
                                 \/ updateCarStatusToBooked(b) \/ activateAirportBooking(b)
      PROVE  run' = run
  BY <1>9 DEF CustomerStep, createBooking, confirmFromPayment, cancelExpiredReservation,
     cancelBooking, reserveRefund, assignChauffeur, updateCarStatusToBooked,
     activateAirportBooking
<1>10. CASE updateCar \/ Tick \/ UNCHANGED vars
  BY <1>1, <1>10 DEF updateCar, Tick, vars
<1> QED
  BY <1>1, <1>2, <1>4, <1>5, <1>6, <1>7, <1>8, <1>9, <1>10 DEF Next, RunStep

(* An hourly run never reopens a completed trip, although nothing fences    *)
(* the activation's write: the trip outlasts every hourly run that may      *)
(* still hold it (DurationAssumption).                                      *)
THEOREM CompletedForGood == Spec => CompletedStays
<1>1. Init => WindowInv
  BY DEF Init, WindowInv, IdleRun
<1>2. ASSUME TypeOK, TripInv, WindowInv, [Next]_vars
      PROVE  [\A b \in Bookings : booking[b].status = "COMPLETED" =>
                \/ booking'[b].status = "COMPLETED"
                \/ \E j \in ManualRuns : run'[j] # run[j]]_vars
  <2> SUFFICES ASSUME NEW b \in Bookings, booking[b].status = "COMPLETED",
                      booking'[b].status # "COMPLETED",
                      ~\E j \in ManualRuns : run'[j] # run[j]
               PROVE  FALSE
    OBVIOUS
  <2>1. PICK j \in Runs \ ManualRuns : run[j].pc = "activate" /\ b \in run[j].batch
    BY <1>2, OnlyActivationReopens DEF Finished
  <2>2. b \notin AirportBookings /\ run[j].startedAt < Start[b] + Hour
    BY <1>2, <2>1 DEF WindowInv
  <2>3. End[b] <= now /\ now <= run[j].startedAt + MaxRun
    BY <1>2, <2>1, <2>2 DEF TripInv, AgeInv
  <2>4. Start[b] + Hour + MaxRun <= End[b]
    BY DurationAssumption DEF DurationAssumption
  <2>5. /\ Start[b] \in Nat /\ End[b] \in Nat /\ Hour \in Nat /\ MaxRun \in Nat
        /\ now \in Nat /\ run[j].startedAt \in Nat
    BY <1>2, BookingAssumption DEF BookingAssumption, TypeOK, JobRuns
  <2> QED
    BY <2>2, <2>3, <2>4, <2>5
<1>3. TypeOK /\ WindowInv /\ [Next]_vars => WindowInv'
  BY WindowStep
<1> QED
  BY <1>1, <1>2, <1>3, BookingInvariant, PTL DEF Spec, CompletedStays

(***************************************************************************)
(* A completion is made for a PAID booking and stands, unless an operator  *)
(* triggers a run (completeBookingTransaction,                             *)
(* updateBookingsFromConfirmedToActive).                                   *)
(***************************************************************************)
THEOREM CompletionIsFinal == Spec => CompletionStands
  BY BookingTypes, CompletedOnlyPaid, CompletedForGood DEF CompletionStands

-----------------------------------------------------------------------------
(* The pickups of a flight.                                                *)

Gates     == {"-"} \cup {p.gate : p \in TPayloads}
FlightRow == [status: FlightStatuses, est: Nat, act: Nat, delay: Int, gate: Gates]
BookRow   == [status: {"NONE", "CANCELLED"} \cup BlockingStatuses, start: Nat, conflict: BOOLEAN, job: Nat]
BookRows  == [TBookings -> BookRow]
Syncs     == [who: SUBSET TBookings, found: SUBSET TBookings, stood: SUBSET TBookings, at: Nat]

TrackTyped ==
    /\ flight \in FlightRow /\ processed \subseteq TPayloads /\ book \in BookRows
    /\ hook \in [body: SUBSET TPayloads, seen: SUBSET TBookings] /\ synced \in Syncs
    /\ \A e \in emitted : e.at \in Nat /\ e.conflicts \subseteq TBookings
    /\ orderly \in BOOLEAN

(* What WindowsApart says of the rows, and of the two it compares.         *)
FarFrom(bk, b, c) ==
    CarOf[b] = CarOf[c] /\ {bk[b].status, bk[c].status} \subseteq BlockingStatuses
        => \/ bk[b].start >= bk[c].start + TLength + Turnaround
           \/ bk[c].start >= bk[b].start + TLength + Turnaround
Apart(bk) == \A b, c \in TBookings : b # c => FarFrom(bk, b, c)

(* A webhook saw pickups that were paid for by then.                       *)
SeenWerePaid ==
    \A b \in hook.seen \cup synced.who : b \in Range(Pickups) /\ book[b].status \notin {"NONE", "PENDING"}

(* The rows the last webhook saw stand where it left them.                 *)
StandsAsLeft(b) ==
    /\ b \in synced.found <=> book[b].start # synced.at
    /\ b \in synced.found => book[b].conflict
    /\ book[b].conflict => b \in synced.found \cup synced.stood
LeftBehind == synced.found \subseteq synced.who /\ \A b \in synced.who : StandsAsLeft(b)

(* In an orderly history the one event that is out is the last webhook's,  *)
(* and without it the jobs are where it wants them.                        *)
JobsInOrder ==
    orderly =>
        /\ \A e \in emitted : e.at = synced.at /\ e.conflicts = synced.found
        /\ emitted = {} => \A b \in synced.who : book[b].status = "CONFIRMED" /\ book[b].job # 0 =>
              book[b].job = book[b].start /\ b \notin synced.found

(* The inductive invariant of the pickups.                                 *)
TrackInv ==
    /\ TrackTyped /\ Apart(book) /\ NoticesMatchStatus
    /\ SeenWerePaid /\ LeftBehind /\ JobsInOrder

(* A set of numbers that is not empty has a least one.                     *)
LEMMA NatMin ==
    ASSUME NEW T, T \subseteq Nat, T # {}
    PROVE  \E n \in T : \A m \in T : n <= m
  <1> DEFINE R == {ss \in Nat \X Nat : ss[1] < ss[2]}
  <1>1. IsWellFoundedOn(R, Nat)
    BY NatLessThanWellFounded DEF OpToRel
  <1>2. PICK n \in T : \A m \in T : ~ (<<m, n>> \in R)
    BY <1>1, WFMin
  <1>3. ASSUME NEW m \in T PROVE n <= m
    <2>1. ~ (m < n)
      BY <1>2 DEF R
    <2> QED BY <2>1
  <1> QED BY <1>3

(* Induction over the numbers, for a set.                                  *)
LEMMA NatInd ==
    ASSUME NEW S, S \subseteq Nat, 0 \in S, \A n \in S : n + 1 \in S
    PROVE  S = Nat
  <1> SUFFICES ASSUME Nat \ S # {} PROVE FALSE
    OBVIOUS
  <1>1. PICK n \in Nat \ S : \A m \in Nat \ S : n <= m
    BY NatMin
  <1>2. n - 1 \in S
    BY <1>1
  <1> QED BY <1>1, <1>2

(* A set of positions has a first and a last one.                          *)
LEMMA Ends ==
    ASSUME NEW n \in Nat, NEW s \in SUBSET (1..n), s # {}
    PROVE  Min(s) \in s /\ Max(s) \in s /\ \A i \in s : i <= Max(s)
  <1>0. s \subseteq Nat
    OBVIOUS
  <1>1. PICK i \in s : \A j \in s : i <= j
    BY <1>0, NatMin
  <1> DEFINE T == {m \in Nat : \A j \in s : j <= m}
  <1>2. n \in T
    OBVIOUS
  <1>3. PICK m \in T : \A k \in T : m <= k
    <2> HIDE DEF T
    <2>1. T \subseteq Nat
      BY DEF T
    <2> QED BY <1>2, <2>1, NatMin
  <1>4. m \in s
    <2> SUFFICES ASSUME m \notin s PROVE FALSE
      OBVIOUS
    <2>1. \A j \in s : j <= m - 1
      BY <1>3
    <2>2. m - 1 \in T
      BY <1>1, <1>3, <2>1
    <2> QED BY <1>3, <2>2
  <1>5. \A j \in s : m >= j
    BY <1>3
  <1>6. Max(s) \in s /\ \A j \in s : Max(s) >= j
    BY <1>4, <1>5 DEF Max
  <1>7. Min(s) \in s
    BY <1>1 DEF Min
  <1> QED BY <1>6, <1>7

(* The time that is read is one of those given, or absent.                 *)
LEMMA FirstIsTime == \A times \in Seq(Nat) : FirstOf(times) \in Nat
  <1> SUFFICES ASSUME NEW times \in Seq(Nat) PROVE FirstOf(times) \in Nat
    OBVIOUS
  <1> DEFINE present == {i \in DOMAIN times : times[i] # 0}
  <1>1. Len(times) \in Nat /\ present \in SUBSET (1..Len(times))
    OBVIOUS
  <1>2. CASE present = {}
    BY <1>2 DEF FirstOf
  <1>3. CASE present # {}
    <2> HIDE DEF present
    <2>1. Min(present) \in present
      BY <1>1, <1>3, Ends
    <2>2. times[Min(present)] \in Nat
      BY <2>1 DEF present
    <2> QED BY <1>3, <2>2 DEF FirstOf, present
  <1> QED BY <1>2, <1>3

(* The rows while the pickups are moved, one after the other.              *)
MovesTo(tr, bk, seen, at) ==
    /\ tr[0] = bk
    /\ \A k \in 1..Len(Pickups) :
          tr[k] = IF Pickups[k] \in seen THEN Shift(tr[k - 1], Pickups[k], at) ELSE tr[k - 1]

(* The fold over the pickups moves them one after the other.               *)
LEMMA SyncIsMoves ==
    ASSUME NEW bk, NEW seen, NEW at
    PROVE  \E tr : /\ MovesTo(tr, bk, seen, at)
                   /\ syncConfirmedAirportBookingWindows(bk, seen, at) = tr[Len(Pickups)]
  <1> DEFINE n == Len(Pickups)
             Body(it, s) == IF s = {} THEN bk
                            ELSE IF Pickups[Max(s)] \in seen
                                 THEN Shift(it[s \ {Max(s)}], Pickups[Max(s)], at) ELSE it[s \ {Max(s)}]
             Fold(it, S) == it = [s \in SUBSET S |-> Body(it, s)]
             fold == CHOOSE it : Fold(it, 1..n)
             T == {k \in Nat : \E g : Fold(g, 1..k)}
  <1>1. n \in Nat /\ DOMAIN Pickups = 1..n
    BY TAssumption DEF TAssumption
  <1>2. syncConfirmedAirportBookingWindows(bk, seen, at) = fold[1..n]
    BY <1>1 DEF syncConfirmedAirportBookingWindows, FoldLeft, MapThenFoldSet
  <1>3. 0 \in T
    <2> DEFINE g == [s \in SUBSET (1..0) |-> bk]
    <2>1. \A s \in SUBSET (1..0) : Body(g, s) = bk
      OBVIOUS
    <2>2. Fold(g, 1..0)
      BY <2>1
    <2> QED BY <2>2
  <1>4. ASSUME NEW k \in T PROVE k + 1 \in T
    <2>1. PICK g : Fold(g, 1..k)
      OBVIOUS
    <2> DEFINE h == [s \in SUBSET (1..(k + 1)) |-> Body(g, s)]
    <2>2. \A s \in SUBSET (1..k) : h[s] = g[s]
      <3>1. \A s \in SUBSET (1..k) : s \in SUBSET (1..(k + 1))
        OBVIOUS
      <3> HIDE DEF Body
      <3> QED BY <2>1, <3>1
    <2>3. \A s \in SUBSET (1..(k + 1)) : s # {} => s \ {Max(s)} \in SUBSET (1..k)
      <3> SUFFICES ASSUME NEW s \in SUBSET (1..(k + 1)), s # {}, NEW i \in s \ {Max(s)} PROVE i \in 1..k
        OBVIOUS
      <3>1. k \in Nat /\ k + 1 \in Nat
        OBVIOUS
      <3>2. Max(s) \in s /\ i <= Max(s)
        BY <3>1, Ends
      <3>3. i \in 1..(k + 1) /\ Max(s) \in 1..(k + 1) /\ i # Max(s)
        BY <3>2
      <3> HIDE DEF T
      <3> QED BY <3>1, <3>2, <3>3
    <2> HIDE DEF h
    <2>4. \A s \in SUBSET (1..(k + 1)) : Body(h, s) = Body(g, s)
      BY <2>2, <2>3
    <2>5. Fold(h, 1..(k + 1))
      <3> HIDE DEF Body
      <3> QED BY <2>4 DEF h
    <2> HIDE DEF Fold
    <2> QED BY <2>5
  <1>5. T = Nat
    <2> HIDE DEF T
    <2>1. T \subseteq Nat
      BY DEF T
    <2> QED BY <1>3, <1>4, <2>1, NatInd
  <1>6. Fold(fold, 1..n)
    <2>1. \E it : Fold(it, 1..n)
      BY <1>1, <1>5
    <2> HIDE DEF Fold
    <2> QED BY <2>1
  <1> HIDE DEF fold
  <1> DEFINE tr == [k \in 0..n |-> fold[1..k]]
  <1>7. ASSUME NEW s \in SUBSET (1..n) PROVE fold[s] = Body(fold, s)
    <2> HIDE DEF Body
    <2> QED BY <1>6
  <1>8. tr[0] = bk
    <2>1. {} \in SUBSET (1..n) /\ 1..0 = {}
      OBVIOUS
    <2>2. tr[0] = fold[{}]
      BY <1>1, <2>1
    <2>3. fold[{}] = Body(fold, {})
      BY <1>7, <2>1
    <2> QED BY <2>2, <2>3
  <1>9. ASSUME NEW k \in 1..n
        PROVE  tr[k] = IF Pickups[k] \in seen THEN Shift(tr[k - 1], Pickups[k], at) ELSE tr[k - 1]
    <2>1. 1..k \in SUBSET (1..n) /\ 1..k # {} /\ k \in Nat /\ 1..k \in SUBSET (1..k) /\ k \in 1..k
      BY <1>1
    <2>2. Max(1..k) = k
      <3>1. Max(1..k) \in 1..k /\ \A i \in 1..k : i <= Max(1..k)
        BY <2>1, Ends
      <3> QED BY <2>1, <3>1
    <2>3. (1..k) \ {k} = 1..(k - 1)
      BY <2>1
    <2>4. tr[k] = fold[1..k] /\ tr[k - 1] = fold[1..(k - 1)]
      BY <1>1
    <2> QED BY <1>7, <2>1, <2>2, <2>3, <2>4
  <1>10. tr[n] = fold[1..n]
    BY <1>1
  <1> HIDE DEF tr
  <1>11. MovesTo(tr, bk, seen, at)
    BY <1>8, <1>9 DEF MovesTo
  <1> QED BY <1>2, <1>10, <1>11

(* The numbers of the model.                                               *)
LEMMA TrackNumbers ==
    /\ TLength \in Nat /\ Sched \in Nat /\ Turnaround \in Nat /\ Buffer40 \in Nat /\ TStarts \subseteq Nat
    /\ Range(Pickups) \subseteq TBookings /\ Rivals \subseteq TBookings /\ Len(Pickups) \in Nat
    /\ \A b \in Range(Pickups) : \E k \in 1..Len(Pickups) : Pickups[k] = b
    /\ \A k \in 1..Len(Pickups) : Pickups[k] \in TBookings /\ Pickups[k] \in Range(Pickups)
  BY TAssumption DEF TAssumption, TBookings, Range

(* Where a row stands after a move to the time at.                         *)
Moved(r, r0, at) ==
    /\ r.status = r0.status /\ r.job = r0.job
    /\ \/ r.start = at /\ (r.conflict => r0.start = at)
       \/ r.start # at /\ r.start = r0.start /\ r.conflict

(* nk differs from bk by the move of b.                                    *)
OneMove(nk, bk, b, at) ==
    /\ nk \in BookRows /\ \A c \in TBookings : c # b => nk[c] = bk[c]
    /\ \/ bk[b].start = at /\ nk[b] = bk[b]
       \/ bk[b].start # at /\ nk[b].start = bk[b].start /\ nk[b].conflict
       \/ ~TooClose(bk, b, at) /\ nk[b].start = at /\ ~nk[b].conflict
    /\ nk[b].status = bk[b].status /\ nk[b].job = bk[b].job

(* A booking is moved, or marked, or left where it belongs.                *)
LEMMA ShiftMoves ==
    ASSUME NEW bk \in BookRows, NEW b \in TBookings, NEW at \in Nat
    PROVE  OneMove(Shift(bk, b, at), bk, b, at)
  <1>1. bk[b] \in BookRow
    BY DEF BookRows
  <1>2. CASE bk[b].start = at
    BY <1>2 DEF Shift, OneMove
  <1>3. CASE bk[b].start # at /\ TooClose(bk, b, at)
    <2>1. Shift(bk, b, at) = [bk EXCEPT ![b].conflict = TRUE]
      BY <1>3 DEF Shift
    <2>2. [bk[b] EXCEPT !.conflict = TRUE] \in BookRow
      BY <1>1 DEF BookRow
    <2> QED BY <1>1, <1>3, <2>1, <2>2 DEF BookRows, BookRow, OneMove
  <1>4. CASE bk[b].start # at /\ ~TooClose(bk, b, at)
    <2>1. Shift(bk, b, at) = [bk EXCEPT ![b].start = at, ![b].conflict = FALSE]
      BY <1>4 DEF Shift
    <2>2. PICK r : r = [bk[b] EXCEPT !.start = at, !.conflict = FALSE]
      OBVIOUS
    <2>3. r \in BookRow /\ r.start = at /\ ~r.conflict /\ r.status = bk[b].status /\ r.job = bk[b].job
      BY <1>1, <2>2 DEF BookRow
    <2>4. Shift(bk, b, at) = [bk EXCEPT ![b] = r]
      BY <2>1, <2>2 DEF BookRows
    <2> QED BY <1>4, <2>3, <2>4 DEF BookRows, OneMove
  <1> QED BY <1>2, <1>3, <1>4

(* A place that is not too close to others keeps the turnaround.           *)
LEMMA ClearIsFar ==
    ASSUME NEW bk \in BookRows, NEW nk \in BookRows, NEW b \in TBookings, NEW at \in Nat,
           Apart(bk), ~TooClose(bk, b, at), nk[b].start = at, \A c \in TBookings : c # b => nk[c] = bk[c]
    PROVE  Apart(nk)
  <1> SUFFICES ASSUME NEW c \in TBookings, NEW d \in TBookings, c # d PROVE FarFrom(nk, c, d)
    BY DEF Apart
  <1>1. ASSUME NEW e \in TBookings, e # b, CarOf[e] = CarOf[b], bk[e].status \in BlockingStatuses
        PROVE  at >= bk[e].start + TLength + Turnaround \/ bk[e].start >= at + TLength + Turnaround
    <2>1. bk[e].start \in Nat
      BY DEF BookRows, BookRow
    <2>2. ~(bk[e].start < at + TLength + Turnaround /\ bk[e].start + TLength > at - Turnaround)
      BY <1>1 DEF TooClose
    <2> QED BY <2>1, <2>2, TrackNumbers
  <1>2. CASE c = b
    BY <1>1, <1>2 DEF FarFrom
  <1>3. CASE d = b
    BY <1>1, <1>3 DEF FarFrom
  <1>4. CASE c # b /\ d # b
    BY <1>4 DEF FarFrom, Apart
  <1> QED BY <1>2, <1>3, <1>4

(* What does not move leaves the distances.                                *)
LEMMA StillIsFar ==
    ASSUME NEW bk, NEW nk, Apart(bk),
           \A c \in TBookings :
              /\ nk[c].status \in BlockingStatuses => bk[c].status \in BlockingStatuses
              /\ nk[c].start = bk[c].start
    PROVE  Apart(nk)
  BY DEF Apart, FarFrom

(* A move keeps the distances of the rows.                                 *)
LEMMA ShiftApart ==
    ASSUME NEW bk \in BookRows, NEW b \in TBookings, NEW at \in Nat, Apart(bk), NEW nk, OneMove(nk, bk, b, at)
    PROVE  Apart(nk)
  <1>1. CASE nk[b].start = bk[b].start
    <2>1. \A c \in TBookings :
              /\ nk[c].status \in BlockingStatuses => bk[c].status \in BlockingStatuses
              /\ nk[c].start = bk[c].start
      BY <1>1 DEF OneMove
    <2> QED BY <2>1, StillIsFar
  <1>2. CASE ~TooClose(bk, b, at) /\ nk[b].start = at
    <2>1. nk \in BookRows /\ \A c \in TBookings : c # b => nk[c] = bk[c]
      BY DEF OneMove
    <2> QED BY <1>2, <2>1, ClearIsFar
  <1> QED BY <1>1, <1>2 DEF OneMove

(* After k of the moves: those that had their turn have moved or are       *)
(* marked, the others are as they were.                                    *)
AfterMoves(nk, bk, seen, at, k) ==
    /\ nk \in BookRows /\ Apart(nk)
    /\ \A b \in TBookings :
          /\ nk[b] = bk[b] \/ (b \in seen /\ b \in Range(Pickups) /\ Moved(nk[b], bk[b], at))
          /\ b \in seen /\ (\E i \in 1..k : Pickups[i] = b) => Moved(nk[b], bk[b], at)

(* A webhook moves every pickup it has seen, or marks it.                  *)
LEMMA SyncMoves ==
    ASSUME NEW bk \in BookRows, Apart(bk), NEW seen, NEW at \in Nat
    PROVE  /\ syncConfirmedAirportBookingWindows(bk, seen, at) \in BookRows
           /\ Apart(syncConfirmedAirportBookingWindows(bk, seen, at))
           /\ \A b \in TBookings :
                IF b \in seen /\ b \in Range(Pickups)
                THEN Moved(syncConfirmedAirportBookingWindows(bk, seen, at)[b], bk[b], at)
                ELSE syncConfirmedAirportBookingWindows(bk, seen, at)[b] = bk[b]
  <1>1. PICK tr : /\ MovesTo(tr, bk, seen, at)
                  /\ syncConfirmedAirportBookingWindows(bk, seen, at) = tr[Len(Pickups)]
    BY SyncIsMoves
  <1> DEFINE T == {k \in Nat : k <= Len(Pickups) => AfterMoves(tr[k], bk, seen, at, k)}
  <1>2. 0 \in T
    BY <1>1 DEF MovesTo, AfterMoves
  <1>3. ASSUME NEW k \in T PROVE k + 1 \in T
    <2> SUFFICES ASSUME k + 1 <= Len(Pickups) PROVE AfterMoves(tr[k + 1], bk, seen, at, k + 1)
      OBVIOUS
    <2>1. k + 1 \in 1..Len(Pickups) /\ (k + 1) - 1 = k /\ k <= Len(Pickups) /\ k \in Nat
      BY TrackNumbers
    <2>2. AfterMoves(tr[k], bk, seen, at, k)
      BY <2>1
    <2> DEFINE b == Pickups[k + 1]
    <2>3. tr[k + 1] = IF b \in seen THEN Shift(tr[k], b, at) ELSE tr[k]
      BY <1>1, <2>1 DEF MovesTo
    <2>4. b \in TBookings /\ b \in Range(Pickups)
      BY <2>1, TrackNumbers
    <2>5. \A i \in 1..(k + 1) : i \in 1..k \/ i = k + 1
      BY <2>1
    <2> HIDE DEF T
    <2>6. CASE b \notin seen
      <3>1. tr[k + 1] = tr[k]
        BY <2>3, <2>6
      <3>2. \A c \in TBookings : c \in seen /\ (\E i \in 1..(k + 1) : Pickups[i] = c) => \E i \in 1..k : Pickups[i] = c
        BY <2>5, <2>6
      <3> HIDE DEF b
      <3> QED BY <2>2, <3>1, <3>2 DEF AfterMoves
    <2>7. CASE b \in seen
      <3>1. tr[k] \in BookRows /\ Apart(tr[k])
        BY <2>2 DEF AfterMoves
      <3>2. OneMove(tr[k + 1], tr[k], b, at)
        <4>1. tr[k + 1] = Shift(tr[k], b, at)
          BY <2>3, <2>7
        <4> HIDE DEF b
        <4> QED BY <2>4, <3>1, <4>1, ShiftMoves
      <3> HIDE DEF b
      <3>3. Apart(tr[k + 1])
        BY <2>4, <3>1, <3>2, ShiftApart
      <3>4. Moved(tr[k + 1][b], bk[b], at)
        <4>1. tr[k][b] = bk[b] \/ Moved(tr[k][b], bk[b], at)
          BY <2>2, <2>4 DEF AfterMoves
        <4> QED BY <3>2, <4>1 DEF Moved, OneMove
      <3>5. \A c \in TBookings : c # b /\ (\E i \in 1..(k + 1) : Pickups[i] = c) => \E i \in 1..k : Pickups[i] = c
        BY <2>5 DEF b
      <3>6. tr[k + 1] \in BookRows /\ \A c \in TBookings : c # b => tr[k + 1][c] = tr[k][c]
        BY <3>2 DEF OneMove
      <3> QED BY <2>2, <2>4, <2>7, <3>3, <3>4, <3>5, <3>6 DEF AfterMoves
    <2> QED BY <2>6, <2>7
  <1>4. T = Nat
    <2> HIDE DEF T
    <2>1. T \subseteq Nat
      BY DEF T
    <2> QED BY <1>2, <1>3, <2>1, NatInd
  <1>5. AfterMoves(tr[Len(Pickups)], bk, seen, at, Len(Pickups))
    <2>1. Len(Pickups) \in T /\ Len(Pickups) <= Len(Pickups)
      BY <1>4, TrackNumbers
    <2> QED BY <2>1
  <1> QED BY <1>1, <1>5, TrackNumbers DEF AfterMoves

(* The pickups start apart, each where the flight is expected.             *)
LEMMA TrackStarts == TInit => TrackInv
  <1> SUFFICES ASSUME TInit PROVE TrackInv
    OBVIOUS
  <1>1. /\ flight = [status |-> "SCHEDULED", est |-> 0, act |-> 0, delay |-> 0, gate |-> "-"]
        /\ processed = {} /\ hook = [body |-> {}, seen |-> {}] /\ emitted = {} /\ notice = "-"
        /\ synced = [who |-> {}, found |-> {}, stood |-> {}, at |-> 0] /\ orderly = TRUE
    BY DEF TInit, NoHook
  <1>2. \A b \in TBookings :
            /\ b \in Rivals => book[b] = [status |-> "NONE", start |-> 0, conflict |-> FALSE, job |-> 0]
            /\ b \notin Rivals =>
                  book[b] = [status |-> "PENDING", start |-> Sched + Buffer40, conflict |-> FALSE, job |-> 0]
    <2>1. ASSUME NEW b \in TBookings
          PROVE  book[b] = [status |-> IF b \in Rivals THEN "NONE" ELSE "PENDING",
                            start |-> IF b \in Rivals THEN 0 ELSE Sched + Buffer40,
                            conflict |-> FALSE, job |-> 0]
      BY DEF TInit
    <2>2. ASSUME NEW b \in TBookings, b \in Rivals
          PROVE  book[b] = [status |-> "NONE", start |-> 0, conflict |-> FALSE, job |-> 0]
      BY <2>1, <2>2
    <2>3. ASSUME NEW b \in TBookings, b \notin Rivals
          PROVE  book[b] = [status |-> "PENDING", start |-> Sched + Buffer40, conflict |-> FALSE, job |-> 0]
      BY <2>1, <2>3
    <2> QED BY <2>2, <2>3
  <1>3. book \in BookRows
    <2>1. Sched + Buffer40 \in Nat
      BY TrackNumbers
    <2>2. ASSUME NEW b \in TBookings PROVE book[b] \in BookRow
      <3>0. PICK no \in BOOLEAN : no = FALSE
        OBVIOUS
      <3>1. CASE b \in Rivals
        <4>1. book[b] = [status |-> "NONE", start |-> 0, conflict |-> no, job |-> 0]
          BY <1>2, <3>0, <3>1
        <4> QED BY <4>1 DEF BookRow, BlockingStatuses
      <3>2. CASE b \notin Rivals
        <4>1. book[b] = [status |-> "PENDING", start |-> Sched + Buffer40, conflict |-> no, job |-> 0]
          BY <1>2, <3>0, <3>2
        <4> QED BY <2>1, <4>1 DEF BookRow, BlockingStatuses
      <3> QED BY <3>1, <3>2
    <2> QED BY <2>2 DEF TInit, BookRows
  <1>4. TrackTyped
    <2>2. flight \in FlightRow
      BY <1>1 DEF FlightRow, FlightStatuses, Gates
    <2>3. synced \in Syncs /\ hook \in [body: SUBSET TPayloads, seen: SUBSET TBookings]
      BY <1>1 DEF Syncs
    <2> QED BY <1>1, <1>3, <2>2, <2>3 DEF TrackTyped
  <1>5. Apart(book)
    <2> SUFFICES ASSUME NEW b \in TBookings, NEW c \in TBookings, b # c PROVE FarFrom(book, b, c)
      BY DEF Apart
    <2>1. CASE b \in Rivals \/ c \in Rivals
      <3>1. book[b].status = "NONE" \/ book[c].status = "NONE"
        BY <1>2, <2>1
      <3> QED BY <3>1 DEF FarFrom, BlockingStatuses
    <2>2. CASE b \notin Rivals /\ c \notin Rivals
      BY <2>2, TAssumption DEF TAssumption, TBookings, FarFrom
    <2> QED BY <2>1, <2>2
  <1>6. NoticesMatchStatus /\ SeenWerePaid /\ LeftBehind /\ JobsInOrder
    BY <1>1 DEF NoticesMatchStatus, SeenWerePaid, LeftBehind, JobsInOrder
  <1> QED BY <1>4, <1>5, <1>6 DEF TrackInv

(* A webhook is read.                                                      *)
LEMMA ReadKeeps == ASSUME TrackInv, NEW p \in TPayloads, handleWebhook(p) PROVE TrackInv'
  <1>1. /\ hook' = [body |-> {p}, seen |-> {b \in Range(Pickups) : book[b].status = "CONFIRMED"}]
        /\ UNCHANGED <<flight, processed, book, emitted, notice, synced, orderly>>
    BY DEF handleWebhook
  <1>2. hook' \in [body: SUBSET TPayloads, seen: SUBSET TBookings]
    BY <1>1, TrackNumbers
  <1>3. TrackTyped' /\ Apart(book)' /\ NoticesMatchStatus' /\ LeftBehind' /\ JobsInOrder'
    BY <1>1, <1>2 DEF TrackInv, TrackTyped, Apart, FarFrom, NoticesMatchStatus, LeftBehind, StandsAsLeft, JobsInOrder
  <1>4. SeenWerePaid'
    BY <1>1 DEF TrackInv, SeenWerePaid
  <1> QED BY <1>3, <1>4 DEF TrackInv

(* What happens to one booking that stays where it is.                     *)
LEMMA RowKeeps ==
    ASSUME TrackInv, NEW b \in TBookings, NEW row \in BookRow, SetRow(b, row),
           row.conflict = book[b].conflict, row.start = book[b].start,
           row.status \in BlockingStatuses => book[b].status \in BlockingStatuses,
           b \in hook.seen \cup synced.who => row.status \notin {"NONE", "PENDING"},
           b \in synced.who /\ row.status = "CONFIRMED" /\ row.job # 0 =>
               row.job = book[b].job /\ book[b].status = "CONFIRMED"
    PROVE  TrackInv'
  <1>1. /\ book' = [book EXCEPT ![b] = row]
        /\ UNCHANGED <<flight, processed, hook, emitted, notice, synced, orderly>>
    BY DEF SetRow
  <1>2. book \in BookRows /\ Apart(book)
    BY DEF TrackInv, TrackTyped
  <1>3. book' \in BookRows /\ book'[b] = row /\ \A c \in TBookings : c # b => book'[c] = book[c]
    BY <1>1, <1>2 DEF BookRows
  <1>4. TrackTyped' /\ NoticesMatchStatus'
    BY <1>1, <1>3 DEF TrackInv, TrackTyped, NoticesMatchStatus
  <1>5. Apart(book)'
    <2>1. \A c \in TBookings :
              /\ book'[c].status \in BlockingStatuses => book[c].status \in BlockingStatuses
              /\ book'[c].start = book[c].start
      BY <1>3
    <2>2. PICK nk : nk = book'
      OBVIOUS
    <2>3. Apart(nk)
      BY <1>2, <2>1, <2>2, StillIsFar
    <2> QED BY <2>2, <2>3 DEF Apart, FarFrom
  <1>6. synced.who \subseteq TBookings
    BY DEF TrackInv, TrackTyped, Syncs
  <1>7. SeenWerePaid'
    BY <1>1, <1>3, TrackNumbers DEF TrackInv, SeenWerePaid
  <1>8. LeftBehind'
    <2>1. \A c \in TBookings : book'[c].start = book[c].start /\ book'[c].conflict = book[c].conflict
      BY <1>3
    <2> QED BY <1>1, <1>6, <2>1 DEF TrackInv, LeftBehind, StandsAsLeft
  <1>9. JobsInOrder'
    <2>1. ASSUME orderly, emitted = {}, NEW c \in synced.who, book'[c].status = "CONFIRMED", book'[c].job # 0
          PROVE  book'[c].job = book'[c].start /\ c \notin synced.found
      BY <1>3, <1>6, <2>1 DEF TrackInv, JobsInOrder
    <2> QED BY <1>1, <2>1 DEF TrackInv, JobsInOrder
  <1> QED BY <1>4, <1>5, <1>7, <1>8, <1>9 DEF TrackInv

(* The bookings of a state, and those that are followed.                   *)
LEMMA TrackFacts ==
    ASSUME TrackInv
    PROVE  /\ TrackTyped /\ Apart(book) /\ NoticesMatchStatus /\ SeenWerePaid /\ LeftBehind /\ JobsInOrder
           /\ book \in BookRows /\ \A b \in TBookings : book[b] \in BookRow
           /\ synced \in Syncs /\ synced.who \subseteq TBookings /\ synced.who \subseteq Range(Pickups)
           /\ hook.seen \subseteq TBookings /\ hook.seen \subseteq Range(Pickups)
  BY DEF TrackInv, TrackTyped, BookRows, Syncs, SeenWerePaid

(* A pickup is paid for.                                                   *)
LEMMA ConfirmKeeps == ASSUME TrackInv, NEW b \in TBookings, onBookingConfirmed(b) PROVE TrackInv'
  <1>1. PICK row : row = [book[b] EXCEPT !.status = "CONFIRMED", !.job = book[b].start]
    OBVIOUS
  <1>2. row \in BookRow /\ row.conflict = book[b].conflict /\ row.start = book[b].start
    BY <1>1, TrackFacts DEF BookRow, BlockingStatuses
  <1>3. book[b].status = "PENDING" /\ SetRow(b, row) /\ row.status = "CONFIRMED"
    BY <1>1, TrackFacts DEF onBookingConfirmed, BookRow
  <1>4. b \notin synced.who
    BY <1>3, TrackFacts DEF SeenWerePaid
  <1> QED BY <1>2, <1>3, <1>4, RowKeeps DEF BlockingStatuses

(* A pickup is cancelled.                                                  *)
LEMMA CancelKeeps == ASSUME TrackInv, NEW b \in TBookings, cancelPickup(b) PROVE TrackInv'
  <1>1. PICK row : row = [book[b] EXCEPT !.status = "CANCELLED"]
    OBVIOUS
  <1>2. row \in BookRow /\ row.conflict = book[b].conflict /\ row.start = book[b].start /\ row.status = "CANCELLED"
    BY <1>1, TrackFacts DEF BookRow
  <1>3. SetRow(b, row)
    BY <1>1 DEF cancelPickup
  <1> QED BY <1>2, <1>3, RowKeeps DEF BlockingStatuses

(* The job of a pickup fires.                                              *)
LEMMA ActivateKeeps == ASSUME TrackInv, NEW b \in TBookings, activateAirportPickup(b) PROVE TrackInv'
  <1>1. PICK row : /\ SetRow(b, row)
                   /\ \/ row = [book[b] EXCEPT !.job = 0]
                      \/ row = [book[b] EXCEPT !.job = 0, !.status = "ACTIVE"] /\ book[b].status = "CONFIRMED"
    <2>1. PICK ready \in BOOLEAN :
              SetRow(b, [book[b] EXCEPT !.job = 0,
                  !.status = IF @ = "CONFIRMED" /\ ~book[b].conflict /\ ready THEN "ACTIVE" ELSE @])
      BY DEF activateAirportPickup
    <2>2. book[b] \in BookRow
      BY TrackFacts
    <2>3. CASE book[b].status = "CONFIRMED" /\ ~book[b].conflict /\ ready
      BY <2>1, <2>3
    <2>4. CASE ~(book[b].status = "CONFIRMED" /\ ~book[b].conflict /\ ready)
      <3>1. [book[b] EXCEPT !.job = 0, !.status = book[b].status] = [book[b] EXCEPT !.job = 0]
        BY <2>2 DEF BookRow
      <3> QED BY <2>1, <2>4, <3>1
    <2> QED BY <2>3, <2>4
  <1>2. row \in BookRow /\ row.conflict = book[b].conflict /\ row.start = book[b].start /\ row.job = 0
    <2>1. book[b] \in BookRow
      BY TrackFacts
    <2>2. CASE row = [book[b] EXCEPT !.job = 0]
      BY <2>1, <2>2 DEF BookRow
    <2>3. CASE row = [book[b] EXCEPT !.job = 0, !.status = "ACTIVE"]
      <3>1. row \in BookRow
        BY <2>1, <2>3 DEF BookRow, BlockingStatuses
      <3> QED BY <2>1, <2>3, <3>1 DEF BookRow
    <2> QED BY <1>1, <2>2, <2>3
  <1>3. row.status = book[b].status \/ (row.status = "ACTIVE" /\ book[b].status = "CONFIRMED")
    BY <1>1, TrackFacts DEF BookRow
  <1>4. b \in hook.seen \cup synced.who => row.status \notin {"NONE", "PENDING"}
    BY <1>3, TrackFacts DEF SeenWerePaid
  <1> QED BY <1>1, <1>2, <1>3, <1>4, RowKeeps DEF BlockingStatuses

(* Another customer reserves the car.                                      *)
LEMMA ReserveKeeps ==
    ASSUME TrackInv, NEW b \in TBookings, NEW at \in TStarts, reserveRival(b, at) PROVE TrackInv'
  <1>1. PICK row : row = [book[b] EXCEPT !.status = "CONFIRMED", !.start = at]
    OBVIOUS
  <1>2. row \in BookRow /\ row.start = at /\ at \in Nat
    <2>1. book[b] \in BookRow /\ at \in Nat
      BY TrackFacts, TrackNumbers
    <2>2. row \in BookRow
      BY <1>1, <2>1 DEF BookRow, BlockingStatuses
    <2> QED BY <1>1, <2>1, <2>2 DEF BookRow
  <1>3. /\ book' = [book EXCEPT ![b] = row] /\ ~TooClose(book, b, at)
        /\ UNCHANGED <<flight, processed, hook, emitted, notice, synced, orderly>>
    BY <1>1 DEF reserveRival, SetRow
  <1>4. b \notin synced.who /\ b \notin hook.seen
    BY TrackFacts, TAssumption DEF reserveRival, TAssumption
  <1>5. book' \in BookRows /\ book'[b] = row /\ \A c \in TBookings : c # b => book'[c] = book[c]
    BY <1>2, <1>3, TrackFacts DEF BookRows
  <1>6. TrackTyped' /\ NoticesMatchStatus'
    BY <1>3, <1>5 DEF TrackInv, TrackTyped, NoticesMatchStatus
  <1>7. Apart(book)'
    <2>1. PICK nk : nk = book'
      OBVIOUS
    <2>2. Apart(nk)
      BY <1>2, <1>3, <1>5, <2>1, TrackFacts, ClearIsFar
    <2> QED BY <2>1, <2>2 DEF Apart, FarFrom
  <1>8. \A c \in hook.seen \cup synced.who : book'[c] = book[c]
    BY <1>4, <1>5, TrackFacts
  <1>9. SeenWerePaid' /\ LeftBehind' /\ JobsInOrder'
    BY <1>3, <1>8 DEF TrackInv, SeenWerePaid, LeftBehind, StandsAsLeft, JobsInOrder
  <1> QED BY <1>6, <1>7, <1>9 DEF TrackInv

(* What a webhook makes of the status, and the code it takes.              *)
LEMMA StatusMoves ==
    ASSUME NEW status \in FlightStatuses, NEW code, NEW cancelled, NEW new,
           new = mapEventCodeToStatus(code, status, cancelled)
    PROVE  \/ new = status
           \/ new = "SCHEDULED" /\ code = "change" /\ cancelled = "false"
           \/ new = "CANCELLED" /\ code = "cancelled"
           \/ new = "DIVERTED" /\ code = "diverted"
           \/ new = "LANDED" /\ code \in Arrivals
           \/ new = "DEPARTED" /\ code \in Departures
  <1>1. CASE status \in {"LANDED", "DIVERTED"}
    BY <1>1 DEF mapEventCodeToStatus
  <1>2. CASE status = "CANCELLED"
    BY <1>2 DEF mapEventCodeToStatus
  <1>3. CASE status \in {"SCHEDULED", "DEPARTED"}
    <2>1. new = CASE code = "cancelled" -> "CANCELLED"
                  [] code = "diverted" -> "DIVERTED"
                  [] code \in Arrivals -> "LANDED"
                  [] code \in Departures -> "DEPARTED"
                  [] OTHER -> status
      BY <1>3 DEF mapEventCodeToStatus
    <2> QED BY <2>1
  <1> QED BY <1>1, <1>2, <1>3 DEF FlightStatuses

(* The notice of a webhook goes with the status it makes.                  *)
LEMMA NewsMatch ==
    ASSUME flight.status \in FlightStatuses, NoticesMatchStatus, NEW p, NEW new, NEW told,
           new = mapEventCodeToStatus(p.code, flight.status, p.cancelled),
           told = IF buildStatusNotification(p, new) = "-" THEN notice ELSE buildStatusNotification(p, new)
    PROVE  /\ new \in FlightStatuses
           /\ new = "CANCELLED" <=> told = "FLIGHT_CANCELLED"
           /\ new = "DIVERTED"  <=> told = "FLIGHT_DIVERTED"
           /\ new = "LANDED"    <=> told = "FLIGHT_ARRIVED"
           /\ new = "DEPARTED"  <=> told = "FLIGHT_DEPARTED"
  <1>1. CASE new = flight.status
    BY <1>1 DEF buildStatusNotification, NoticesMatchStatus
  <1>2. CASE new # flight.status
    <2>1. \/ new = "SCHEDULED" /\ p.code = "change" /\ p.cancelled = "false"
          \/ new = "CANCELLED" /\ p.code = "cancelled"
          \/ new = "DIVERTED" /\ p.code = "diverted"
          \/ new = "LANDED" /\ p.code \in Arrivals
          \/ new = "DEPARTED" /\ p.code \in Departures
      BY <1>2, StatusMoves
    <2>2. buildStatusNotification(p, new) =
              CASE new = "CANCELLED" /\ p.code = "cancelled" -> "FLIGHT_CANCELLED"
                [] new = "SCHEDULED" /\ p.code = "change" /\ p.cancelled = "false" -> "FLIGHT_REINSTATED"
                [] new = "DIVERTED" /\ p.code = "diverted" -> "FLIGHT_DIVERTED"
                [] new = "DEPARTED" /\ p.code \in Departures -> "FLIGHT_DEPARTED"
                [] new = "LANDED" /\ p.code \in Arrivals -> "FLIGHT_ARRIVED"
                [] OTHER -> "-"
      BY <1>2 DEF buildStatusNotification
    <2> QED BY <2>1, <2>2 DEF FlightStatuses
  <1> QED BY <1>1, <1>2

(* The flight's row after a webhook.                                       *)
LEMMA FlightTyped ==
    ASSUME flight \in FlightRow, NEW p \in TPayloads, NEW new \in FlightStatuses
    PROVE  /\ buildFlightUpdateData(p, new) \in FlightRow /\ buildFlightUpdateData(p, new).status = new
           /\ resolveExpectedArrivalTime(p) \in Nat
  <1>1. /\ p.est \in Nat /\ p.act \in Nat /\ flight.est \in Nat /\ flight.act \in Nat /\ Sched \in Nat
        /\ flight.delay \in Int /\ flight.gate \in Gates
    BY TAssumption, TrackNumbers DEF TAssumption, FlightRow
  <1>2. /\ <<p.est, flight.est>> \in Seq(Nat) /\ <<p.act, flight.act>> \in Seq(Nat)
        /\ <<p.act, p.est>> \in Seq(Nat) /\ <<flight.act, flight.est>> \in Seq(Nat)
    BY <1>1
  <1>3. <<p.act, p.est, flight.act, flight.est, Sched>> \in Seq(Nat)
    BY <1>1
  <1>4. resolveArrivalDelayMinutes(p) \in Int
    <2>1. FirstOf(<<p.act, p.est>>) \in Nat /\ FirstOf(<<flight.act, flight.est>>) \in Nat
      BY <1>2, FirstIsTime
    <2> QED BY <1>1, <2>1 DEF resolveArrivalDelayMinutes
  <1>5. PICK est \in Nat, act \in Nat : est = FirstOf(<<p.est, flight.est>>) /\ act = FirstOf(<<p.act, flight.act>>)
    BY <1>2, FirstIsTime
  <1>6. PICK delay \in Int : delay = IF p.est # 0 \/ p.act # 0 THEN resolveArrivalDelayMinutes(p) ELSE flight.delay
    BY <1>1, <1>4
  <1>7. PICK gate \in Gates : gate = IF p.gate = "absent" THEN flight.gate ELSE p.gate
    BY <1>1 DEF Gates
  <1>8. buildFlightUpdateData(p, new) = [status |-> new, est |-> est, act |-> act, delay |-> delay, gate |-> gate]
    BY <1>5, <1>6, <1>7 DEF buildFlightUpdateData
  <1>9. resolveExpectedArrivalTime(p) \in Nat
    BY <1>3, FirstIsTime DEF resolveExpectedArrivalTime
  <1> QED BY <1>8, <1>9 DEF FlightRow

(* A webhook writes and commits.                                           *)
LEMMA CommitKeeps == ASSUME TrackInv, commitWebhook PROVE TrackInv'
  <1>1. PICK p \in hook.body :
       LET newStatus == mapEventCodeToStatus(p.code, flight.status, p.cancelled)
           at        == resolveExpectedArrivalTime(p) + Buffer40
           moves     == shouldEmitActivationEvent(newStatus)
           conflicts == conflictedBookingIds(book, hook.seen, at)
           news      == buildStatusNotification(p, newStatus)
       IN  /\ flight' = buildFlightUpdateData(p, newStatus)
           /\ processed' = processed \cup {p}
           /\ notice' = IF news = "-" THEN notice ELSE news
           /\ IF moves
              THEN /\ book' = syncConfirmedAirportBookingWindows(book, hook.seen, at)
                   /\ synced' = [who |-> hook.seen, found |-> conflicts, at |-> at,
                               stood |-> {b \in hook.seen : book[b].start = at}]
                   /\ emitted' = emitted \cup {[at |-> at, conflicts |-> conflicts]}
                   /\ orderly' = (orderly /\ emitted = {})
              ELSE UNCHANGED <<book, synced, emitted, orderly>>
    BY DEF commitWebhook
  <1>2. PICK new : new = mapEventCodeToStatus(p.code, flight.status, p.cancelled)
    OBVIOUS
  <1>3. flight \in FlightRow /\ flight.status \in FlightStatuses /\ p \in TPayloads
    BY TrackFacts DEF TrackTyped, FlightRow
  <1>4. PICK at \in Nat : at = resolveExpectedArrivalTime(p) + Buffer40
    <2>1. resolveExpectedArrivalTime(p) \in Nat
      BY <1>3, FlightTyped
    <2> QED BY <2>1, TrackNumbers
  <1>5. PICK moved : moved = syncConfirmedAirportBookingWindows(book, hook.seen, at)
    OBVIOUS
  <1>6. PICK found, stood :
            found = {b \in hook.seen : moved[b].start # at} /\ stood = {b \in hook.seen : book[b].start = at}
    OBVIOUS
  <1>7. /\ flight' = buildFlightUpdateData(p, new) /\ processed' = processed \cup {p} /\ hook' = NoHook
        /\ notice' = IF buildStatusNotification(p, new) = "-" THEN notice ELSE buildStatusNotification(p, new)
    BY <1>1, <1>2 DEF commitWebhook
  <1>8. \/ /\ book' = moved /\ synced' = [who |-> hook.seen, found |-> found, at |-> at, stood |-> stood]
           /\ emitted' = emitted \cup {[at |-> at, conflicts |-> found]}
           /\ orderly' = (orderly /\ emitted = {})
        \/ UNCHANGED <<book, synced, emitted, orderly>>
    BY <1>1, <1>2, <1>4, <1>5, <1>6 DEF conflictedBookingIds
  <1>9. NoticesMatchStatus' /\ flight' \in FlightRow
    <2>1. new \in FlightStatuses
      BY <1>2, <1>3, <1>7, TrackFacts, NewsMatch
    <2>2. flight' \in FlightRow /\ flight'.status = new
      BY <1>3, <1>7, <2>1, FlightTyped
    <2>3. PICK told : told = notice'
      OBVIOUS
    <2>4. /\ new = "CANCELLED" <=> told = "FLIGHT_CANCELLED"
          /\ new = "DIVERTED"  <=> told = "FLIGHT_DIVERTED"
          /\ new = "LANDED"    <=> told = "FLIGHT_ARRIVED"
          /\ new = "DEPARTED"  <=> told = "FLIGHT_DEPARTED"
      BY <1>2, <1>3, <1>7, <2>3, TrackFacts, NewsMatch
    <2> QED BY <2>2, <2>3, <2>4 DEF NoticesMatchStatus
  <1>10. /\ processed' \subseteq TPayloads /\ hook' \in [body: SUBSET TPayloads, seen: SUBSET TBookings]
         /\ hook'.seen = {}
    BY <1>3, <1>7, TrackFacts DEF TrackTyped, NoHook
  <1>11. CASE UNCHANGED <<book, synced, emitted, orderly>>
    <2>1. TrackTyped'
      BY <1>9, <1>10, <1>11, TrackFacts DEF TrackTyped
    <2>2. Apart(book)' /\ LeftBehind' /\ JobsInOrder'
      BY <1>11, TrackFacts DEF Apart, FarFrom, LeftBehind, StandsAsLeft, JobsInOrder
    <2>3. SeenWerePaid'
      BY <1>10, <1>11, TrackFacts DEF SeenWerePaid
    <2> QED BY <1>9, <2>1, <2>2, <2>3 DEF TrackInv
  <1>12. CASE /\ book' = moved /\ synced' = [who |-> hook.seen, found |-> found, at |-> at, stood |-> stood]
              /\ emitted' = emitted \cup {[at |-> at, conflicts |-> found]}
              /\ orderly' = (orderly /\ emitted = {})
    <2>1. /\ moved \in BookRows /\ Apart(moved)
          /\ \A b \in TBookings : b \in hook.seen /\ b \in Range(Pickups) => Moved(moved[b], book[b], at)
      BY <1>5, TrackFacts, SyncMoves
    <2>2. found \subseteq TBookings /\ stood \subseteq TBookings
      BY <1>6, TrackFacts
    <2>3. /\ synced'.who = hook.seen /\ synced'.found = found /\ synced'.at = at /\ synced'.stood = stood
          /\ synced' \in Syncs
      BY <1>12, <2>2, TrackFacts DEF Syncs
    <2>4. TrackTyped'
      <3>1. \A e \in emitted' : e.at \in Nat /\ e.conflicts \subseteq TBookings
        BY <1>12, <2>2, TrackFacts DEF TrackTyped
      <3>2. orderly' \in BOOLEAN
        BY <1>12
      <3> QED BY <1>9, <1>10, <1>12, <2>1, <2>3, <3>1, <3>2 DEF TrackTyped
    <2>5. Apart(book)'
      BY <1>12, <2>1 DEF Apart, FarFrom
    <2>6. \A b \in hook.seen : Moved(moved[b], book[b], at) /\ b \in Range(Pickups) /\ b \in TBookings
      BY <2>1, TrackFacts
    <2>7. SeenWerePaid'
      BY <1>10, <1>12, <2>3, <2>6, TrackFacts DEF SeenWerePaid, Moved
    <2>8. LeftBehind'
      BY <1>6, <1>12, <2>3, <2>6 DEF LeftBehind, StandsAsLeft, Moved
    <2>9. JobsInOrder'
      <3>1. [at |-> at, conflicts |-> found] \in emitted'
        BY <1>12
      <3>2. orderly' => emitted' = {[at |-> at, conflicts |-> found]}
        BY <1>12
      <3> QED BY <2>3, <3>1, <3>2 DEF JobsInOrder
    <2> QED BY <1>9, <2>4, <2>5, <2>7, <2>8, <2>9 DEF TrackInv
  <1> QED BY <1>8, <1>11, <1>12

(* The event of a webhook replaces the activation jobs.                    *)
LEMMA EventKeeps == ASSUME TrackInv, NEW e \in emitted, onFlightArrivalUpdated(e) PROVE TrackInv'
  <1>1. /\ emitted' = emitted \ {e} /\ UNCHANGED <<flight, processed, hook, notice, synced>>
    BY DEF onFlightArrivalUpdated
  <1>2. PICK failing \in SUBSET Range(Pickups) :
            book' \in scheduleAirportActivationsForFlight(e, failing) /\ orderly' = (orderly /\ failing = {})
    BY DEF onFlightArrivalUpdated
  <1>3. /\ DOMAIN book' = TBookings /\ book' = [b \in TBookings |-> book'[b]]
        /\ \A b \in TBookings :
            CASE b \in e.conflicts ->
                     book'[b] = IF b \in failing THEN book[b] ELSE [book[b] EXCEPT !.job = 0]
              [] b \in Range(Pickups) \ e.conflicts /\ book[b].status = "CONFIRMED" ->
                     book'[b] \in scheduleAirportActivation(b, e.at, b \in failing)
              [] OTHER -> book'[b] = book[b]
    BY <1>2 DEF scheduleAirportActivationsForFlight
  <1>4. e.at \in Nat /\ e.conflicts \subseteq TBookings
    BY TrackFacts DEF TrackTyped
  <1>5. ASSUME NEW b \in TBookings
        PROVE  \E j \in {book[b].job, 0, e.at} : book'[b] = [book[b] EXCEPT !.job = j]
    <2>1. book[b] = [book[b] EXCEPT !.job = book[b].job]
      BY TrackFacts DEF BookRow
    <2>2. CASE b \in e.conflicts
      BY <1>3, <2>1, <2>2
    <2>3. CASE b \notin e.conflicts /\ b \in Range(Pickups) /\ book[b].status = "CONFIRMED"
      <3>1. book'[b] \in scheduleAirportActivation(b, e.at, b \in failing)
        BY <1>3, <2>3
      <3> QED BY <2>1, <3>1 DEF scheduleAirportActivation
    <2>4. CASE b \notin e.conflicts /\ ~(b \in Range(Pickups) /\ book[b].status = "CONFIRMED")
      BY <1>3, <2>1, <2>4
    <2> QED BY <2>2, <2>3, <2>4
  <1>6. ASSUME NEW b \in TBookings
        PROVE  /\ book'[b] \in BookRow /\ book'[b].status = book[b].status /\ book'[b].start = book[b].start
               /\ book'[b].conflict = book[b].conflict
    <2>1. PICK j \in {book[b].job, 0, e.at} : book'[b] = [book[b] EXCEPT !.job = j]
      BY <1>5
    <2>2. book[b] \in BookRow /\ j \in Nat
      BY <1>4, TrackFacts DEF BookRow
    <2> QED BY <2>1, <2>2 DEF BookRow
  <1>7. book' \in BookRows
    BY <1>3, <1>6 DEF BookRows
  <1>8. TrackTyped' /\ NoticesMatchStatus'
    <2>1. orderly' \in BOOLEAN
      BY <1>2
    <2> QED BY <1>1, <1>7, <2>1, TrackFacts DEF TrackTyped, NoticesMatchStatus
  <1>9. Apart(book)'
    <2>1. PICK nk : nk = book'
      OBVIOUS
    <2>2. Apart(nk)
      BY <1>6, <2>1, TrackFacts, StillIsFar
    <2> QED BY <2>1, <2>2 DEF Apart, FarFrom
  <1>10. SeenWerePaid' /\ LeftBehind'
    BY <1>1, <1>6, TrackFacts DEF SeenWerePaid, LeftBehind, StandsAsLeft
  <1>11. JobsInOrder'
    <2>1. ASSUME orderly', emitted' = {}, NEW b \in synced.who, book'[b].status = "CONFIRMED", book'[b].job # 0
          PROVE  book'[b].job = book'[b].start /\ b \notin synced.found
      <3>1. orderly /\ failing = {} /\ e.at = synced.at /\ e.conflicts = synced.found
        BY <1>2, <2>1, TrackFacts DEF JobsInOrder
      <3>2. b \in TBookings /\ b \in Range(Pickups) /\ book[b].status = "CONFIRMED" /\ book[b] \in BookRow
        BY <1>6, <2>1, TrackFacts
      <3>3. b \notin synced.found
        <4>1. b \in synced.found => book'[b] = [book[b] EXCEPT !.job = 0]
          BY <1>3, <3>1, <3>2
        <4> QED BY <2>1, <3>2, <4>1 DEF BookRow
      <3>4. book'[b] = [book[b] EXCEPT !.job = e.at]
        <4>1. book'[b] \in scheduleAirportActivation(b, e.at, b \in failing)
          BY <1>3, <3>1, <3>2, <3>3
        <4> QED BY <3>1, <4>1 DEF scheduleAirportActivation
      <3>5. book'[b].job = synced.at
        BY <3>1, <3>2, <3>4 DEF BookRow
      <3>6. book'[b].start = synced.at
        BY <1>6, <3>2, <3>3, TrackFacts DEF LeftBehind, StandsAsLeft
      <3> QED BY <3>3, <3>5, <3>6
    <2>2. orderly' => orderly
      BY <1>2
    <2> QED BY <1>1, <2>1, <2>2, TrackFacts DEF JobsInOrder
  <1> QED BY <1>8, <1>9, <1>10, <1>11 DEF TrackInv

(* Every step keeps the invariant.                                         *)
LEMMA TrackKept == TrackInv /\ [TNext]_tvars => TrackInv'
  <1> SUFFICES ASSUME TrackInv, [TNext]_tvars PROVE TrackInv'
    OBVIOUS
  <1>1. CASE UNCHANGED tvars
    BY <1>1 DEF tvars, TrackInv, TrackTyped, Apart, FarFrom, NoticesMatchStatus, SeenWerePaid, LeftBehind,
                StandsAsLeft, JobsInOrder
  <1> QED BY <1>1, ReadKeeps, CommitKeeps, EventKeeps, ConfirmKeeps, CancelKeeps, ActivateKeeps,
             ReserveKeeps DEF TNext

(* What the invariant promises.                                            *)
LEMMA TrackPromised == TrackInv => PickupsSound
  <1> SUFFICES ASSUME TrackInv PROVE PickupsSound
    OBVIOUS
  <1>1. TTypeOK
    <2>1. /\ flight \in FlightRow /\ book \in BookRows /\ processed \subseteq TPayloads /\ orderly \in BOOLEAN
          /\ hook.body \subseteq TPayloads /\ hook.seen \subseteq TBookings
          /\ synced.who \subseteq TBookings /\ synced.found \subseteq synced.who
      BY TrackFacts DEF TrackTyped, LeftBehind
    <2> QED BY <2>1 DEF TTypeOK, FlightRow, Gates, BookRows, BookRow
  <1>2. WindowsApart
    BY TrackFacts DEF WindowsApart, Apart, FarFrom
  <1>3. PickupFollowsFlight /\ ConflictMarkIsCurrent
    BY TrackFacts DEF PickupFollowsFlight, ConflictMarkIsCurrent, LeftBehind, StandsAsLeft
  <1>4. JobFollowsWindow
    BY TrackFacts DEF JobFollowsWindow, JobsInOrder
  <1> QED BY <1>1, <1>2, <1>3, <1>4, TrackFacts DEF PickupsSound

(***************************************************************************)
(* However webhooks, reservations, confirmations and the events of earlier *)
(* webhooks come in between each other, the pickups of a flight keep the   *)
(* turnaround of their cars, follow the flight or are marked, and their    *)
(* activation jobs follow them (handleWebhook,                             *)
(* syncConfirmedAirportBookingWindows, onFlightArrivalUpdated).            *)
(***************************************************************************)
THEOREM PickupsStaySound == TSpec => []PickupsSound
  <1>1. TInit => TrackInv
    BY TrackStarts
  <1>2. TrackInv /\ [TNext]_tvars => TrackInv'
    BY TrackKept
  <1>3. TrackInv => PickupsSound
    BY TrackPromised
  <1> QED BY <1>1, <1>2, <1>3, PTL DEF TSpec

-----------------------------------------------------------------------------
(* FlightSearch: what the search for a flight answers, from the cache too.  *)

(* No leg of the day can still be found.                                    *)
Absent(at) ==
    \A l \in Range(SLegs) :
        toLocaleDateString(l.arr) = SDay => l.arr < at \/ l.arr > at + 48

(* What a search may conclude at an instant; asked says whether FlightAware *)
(* answered.                                                                *)
TrueAt(result, at, asked) ==
    \/ \E l \in Range(SLegs) : /\ result = Found(l, TRUE) /\ l.arr >= at
                               /\ l.arr \in 24 * SDay - 1 .. 24 * SDay + 22
    \/ \E l \in Range(SLegs) : result = Found(l, FALSE) /\ l.arr >= at + 48
    \/ result = NotFound /\ (asked => Absent(at))
    \/ result = ApiError \/ result = [type |-> "alreadyLanded"]

(* The earliest of some legs is one of them.                                *)
LEMMA FirstLeg ==
  ASSUME NEW legs \in SUBSET DOMAIN SLegs, legs # {}
  PROVE  Min(legs) \in legs /\ SLegs[Min(legs)] \in Range(SLegs)
<1>1. DOMAIN SLegs \subseteq Nat
  BY SAssumption DEF SAssumption
<1>2. \E n \in legs : \A m \in legs : n <= m
  BY <1>1, NatMin
<1>3. Min(legs) \in legs
  BY <1>2 DEF Min
<1> QED BY <1>3 DEF Range

(* Legs arrive at whole hours.                                              *)
LEMMA LegTimes ==
  /\ \A l \in Range(SLegs) : l.arr \in Nat
  /\ \A i \in DOMAIN SLegs : SLegs[i] \in Range(SLegs) /\ SLegs[i].arr \in Nat
<1>1. \A i \in DOMAIN SLegs : SLegs[i] \in [arr: Nat, dest: STRING]
  <2>1. PICK S : S = [arr: Nat, dest: STRING]
    OBVIOUS
  <2>2. SLegs \in Seq(S)
    BY <2>1, SAssumption DEF SAssumption
  <2>3. \A i \in DOMAIN SLegs : SLegs[i] \in S
    BY <2>2
  <2> QED BY <2>1, <2>3
<1>2. \A i \in DOMAIN SLegs : SLegs[i].arr \in Nat
  BY <1>1
<1> QED BY <1>2 DEF Range

(* The hours of the day asked for, which begins an hour before UTC          *)
(* midnight.                                                                *)
LEMMA DayOf ==
  ASSUME NEW h \in Nat, toLocaleDateString(h) = SDay
  PROVE  h \in 24 * SDay - 1 .. 24 * SDay + 22
BY SAssumption DEF SAssumption, toLocaleDateString

(* The answer of the second request counts only after the first has failed. *)
LEMMA Retried ==
  ASSUME NEW result, NEW first \in {"ok", "notFound", "error"},
         NEW second \in {"ok", "notFound", "error"}
  PROVE  /\ FirstOrSecond(result, first, second) \in {result, NotFound, ApiError}
         /\ /\ FirstOrSecond(result, first, second) = NotFound
            /\ first = "ok" \/ (HasIcao /\ second = "ok")
            => result = NotFound
<1>1. NotFound # ApiError
  BY DEF NotFound, ApiError
<1>2. /\ handleApiError("ok", result) = result
      /\ handleApiError("notFound", result) = NotFound
      /\ handleApiError("error", result) = ApiError
  BY DEF handleApiError
<1>3. CASE first = "ok"
  BY <1>1, <1>2, <1>3 DEF FirstOrSecond
<1>4. CASE first = "notFound"
  BY <1>1, <1>2, <1>4 DEF FirstOrSecond
<1>5. CASE first = "error"
  BY <1>1, <1>2, <1>5 DEF FirstOrSecond
<1> QED BY <1>3, <1>4, <1>5

(* What is true of one answer is true of what the two requests make of it.  *)
LEMMA TrueAgain ==
  ASSUME NEW result, NEW at, NEW first \in {"ok", "notFound", "error"},
         NEW second \in {"ok", "notFound", "error"},
         NEW asked \in BOOLEAN, asked <=> first = "ok" \/ (HasIcao /\ second = "ok"),
         TrueAt(result, at, TRUE)
  PROVE  TrueAt(FirstOrSecond(result, first, second), at, asked)
<1>1. PICK r : r = FirstOrSecond(result, first, second)
  OBVIOUS
<1>3. r \in {result, NotFound, ApiError} /\ (r = NotFound /\ asked => result = NotFound)
  BY <1>1, Retried
<1>4. TrueAt(r, at, asked)
  <2>1. CASE r = NotFound /\ ~asked
    BY <2>1 DEF TrueAt
  <2>2. CASE r = ApiError
    BY <2>2 DEF TrueAt
  <2>3. CASE r = result
    BY <2>3 DEF TrueAt
  <2> QED BY <1>3, <2>1, <2>2, <2>3
<1> QED BY <1>1, <1>4

(* A search of the live flights says what is true.                          *)
LEMMA LiveIsTrue ==
  ASSUME NEW at \in Nat
  PROVE  TrueAt(findMatchingFlight(Between(getPickupSearchWindow.start, cappedEndDate(at)), at),
                at, TRUE)
<1>1. /\ getPickupSearchWindow.start = 24 * SDay - 12
      /\ getPickupSearchWindow.end = 24 * SDay + 36
  BY DEF getPickupSearchWindow
<1>2. SDay \in Nat
  BY SAssumption DEF SAssumption
<1>3. PICK legs : legs = Between(getPickupSearchWindow.start, cappedEndDate(at))
  OBVIOUS
<1>4. PICK ahead : ahead = {i \in OfDay(legs) : SLegs[i].arr >= at}
  OBVIOUS
<1>5. legs \subseteq DOMAIN SLegs /\ ahead \subseteq legs
  BY <1>3, <1>4 DEF Between, OfDay
<1>6. CASE ahead # {}
  <2>1. PICK i \in ahead : i = Min(ahead)
    BY <1>5, <1>6, FirstLeg
  <2>2. findMatchingFlight(legs, at) = Found(SLegs[i], TRUE)
    BY <1>4, <1>6, <2>1 DEF findMatchingFlight
  <2>3. /\ SLegs[i] \in Range(SLegs) /\ SLegs[i].arr \in Nat /\ SLegs[i].arr >= at
        /\ toLocaleDateString(SLegs[i].arr) = SDay
    BY <1>4, <1>5, <2>1, LegTimes DEF OfDay
  <2>4. SLegs[i].arr \in 24 * SDay - 1 .. 24 * SDay + 22
    BY <2>3, DayOf
  <2> QED BY <1>3, <2>2, <2>3, <2>4 DEF TrueAt
<1>7. CASE ahead = {}
  <2>1. ASSUME NEW l \in Range(SLegs), toLocaleDateString(l.arr) = SDay, l.arr >= at,
               l.arr <= at + 48
        PROVE  FALSE
    <3>1. PICK i \in DOMAIN SLegs : l = SLegs[i]
      BY DEF Range
    <3>2. l.arr \in Nat /\ l.arr \in 24 * SDay - 1 .. 24 * SDay + 22
      BY <2>1, LegTimes, DayOf
    <3>3. l.arr >= 24 * SDay - 12 /\ l.arr <= cappedEndDate(at)
      BY <1>1, <1>2, <2>1, <3>2 DEF cappedEndDate
    <3>4. i \in ahead
      BY <1>1, <1>3, <1>4, <2>1, <3>1, <3>3 DEF Between, OfDay
    <3> QED BY <1>7, <3>4
  <2>2. Absent(at)
    <3>1. ASSUME NEW l \in Range(SLegs), toLocaleDateString(l.arr) = SDay
          PROVE  l.arr < at \/ l.arr > at + 48
      <4>1. l.arr \in Nat
        BY LegTimes
      <4> QED BY <2>1, <3>1, <4>1
    <3> QED BY <3>1 DEF Absent
  <2>3. findMatchingFlight(legs, at) \in {[type |-> "alreadyLanded"], NotFound}
    BY <1>4, <1>7 DEF findMatchingFlight
  <2> QED BY <1>3, <2>2, <2>3 DEF TrueAt
<1> QED BY <1>6, <1>7

(* So does a search of the schedules, for a day that is still far.          *)
LEMMA ScheduleIsTrue ==
  ASSUME NEW at \in Nat, ~useLiveAPI(at)
  PROVE  TrueAt(findScheduledFlight(Between(getPickupSearchWindow.start, getPickupSearchWindow.end)),
                at, TRUE)
<1>1. /\ getPickupSearchWindow.start = 24 * SDay - 12
      /\ getPickupSearchWindow.end = 24 * SDay + 36
  BY DEF getPickupSearchWindow
<1>2. SDay \in Nat
  BY SAssumption DEF SAssumption
<1>3. PICK legs : legs = Between(getPickupSearchWindow.start, getPickupSearchWindow.end)
  OBVIOUS
<1>4. 24 * SDay - 12 >= at + 48
  BY <1>1, <1>2 DEF useLiveAPI
<1>5. legs \subseteq DOMAIN SLegs
  BY <1>3 DEF Between
<1>6. CASE legs # {}
  <2>1. PICK i \in legs : i = Min(legs)
    BY <1>5, <1>6, FirstLeg
  <2>2. findScheduledFlight(legs) = Found(SLegs[i], FALSE)
    BY <1>6, <2>1 DEF findScheduledFlight
  <2>3. SLegs[i] \in Range(SLegs) /\ SLegs[i].arr \in Nat /\ SLegs[i].arr >= 24 * SDay - 12
    BY <1>1, <1>3, <1>5, <2>1, LegTimes DEF Between
  <2>4. SLegs[i].arr >= at + 48
    BY <1>2, <1>4, <2>3
  <2> QED BY <1>3, <2>2, <2>3, <2>4 DEF TrueAt
<1>7. CASE legs = {}
  <2>1. ASSUME NEW l \in Range(SLegs) PROVE toLocaleDateString(l.arr) # SDay
    <3> SUFFICES ASSUME toLocaleDateString(l.arr) = SDay PROVE FALSE
      OBVIOUS
    <3>1. PICK i \in DOMAIN SLegs : l = SLegs[i]
      BY DEF Range
    <3>2. l.arr \in Nat /\ l.arr \in 24 * SDay - 1 .. 24 * SDay + 22
      BY LegTimes, DayOf
    <3>3. i \in legs
      BY <1>1, <1>2, <1>3, <3>1, <3>2 DEF Between
    <3> QED BY <1>7, <3>3
  <2>2. Absent(at)
    BY <2>1 DEF Absent
  <2>3. findScheduledFlight(legs) = NotFound
    BY <1>7 DEF findScheduledFlight
  <2> QED BY <1>3, <2>2, <2>3 DEF TrueAt
<1> QED BY <1>6, <1>7

-----------------------------------------------------------------------------
(* The cache: a live answer and a "not found" do not outlive their hour, a  *)
(* flight of the schedules not its day.                                     *)
CacheTrue ==
    /\ cached.data.type = "success" =>
         \/ /\ cached.data.isLive /\ cached.set = hour
            /\ TrueAt(cached.data, hour, known)
         \/ /\ ~cached.data.isLive /\ hour < cached.set + 24
            /\ cached.data.leg.arr >= cached.set + 48
    /\ cached.data = NotFound => TrueAt(cached.data, hour, known)

SearchInv == AnswersTrue /\ CacheTrue

(* The fields of an offered flight.                                         *)
LEMMA FoundIs ==
  ASSUME NEW l, NEW v \in BOOLEAN
  PROVE  Found(l, v).type = "success" /\ Found(l, v).leg = l /\ Found(l, v).isLive = v
BY DEF Found

(* What a search may rest its answer on, and what the answer then is.       *)
Believed(result, at, asked) ==
    \/ TrueAt(result, at, asked)
    \/ \E l \in Range(SLegs) : result = Found(l, FALSE) /\ l.arr >= at

TrueAnswer(answer, at, asked) ==
    /\ answer \in SAnswers
    /\ answer.type = "success" => answer.leg.arr >= at
    /\ answer.type = "success" /\ answer.isLive =>
          answer.leg.arr \in 24 * SDay - 1 .. 24 * SDay + 22
    /\ answer = NotFound /\ asked => Absent(at)

(* What the caller is told of a believed result is true.                    *)
LEMMA AnswerIsTrue ==
  ASSUME NEW result, NEW at \in Nat, NEW asked \in BOOLEAN, NEW answer,
         Believed(result, at, asked), answer = searchAirportPickupFlight(result)
  PROVE  TrueAnswer(answer, at, asked)
<1> USE DEF TrueAnswer
<1>1. PICK yes \in BOOLEAN, no \in BOOLEAN : yes = TRUE /\ no = FALSE
  OBVIOUS
<1>2. ASSUME NEW l \in Range(SLegs), NEW v \in BOOLEAN, result = Found(l, v), l.arr >= at,
             v => l.arr \in 24 * SDay - 1 .. 24 * SDay + 22
      PROVE  /\ answer \in SAnswers
             /\ answer.type = "success" => answer.leg.arr >= at
             /\ answer.type = "success" /\ answer.isLive =>
                   answer.leg.arr \in 24 * SDay - 1 .. 24 * SDay + 22
             /\ answer # NotFound
  <2>1. result.type = "success" /\ result.leg = l /\ result.isLive = v
    BY <1>2, FoundIs
  <2>2. CASE l.dest # "LOS"
    <3>1. answer = [type |-> "unsupported"]
      BY <2>1, <2>2 DEF searchAirportPickupFlight
    <3>2. answer.type = "unsupported"
      BY <3>1
    <3> QED BY <3>1, <3>2 DEF SAnswers, NotFound
  <2>3. CASE l.dest = "LOS"
    <3>1. answer = result
      BY <2>1, <2>3 DEF searchAirportPickupFlight
    <3>2. answer \in SAnswers
      BY <1>2, <3>1 DEF SAnswers
    <3>3. NotFound.type = "notFound"
      BY DEF NotFound
    <3> QED BY <1>2, <2>1, <3>1, <3>2, <3>3
  <2> QED BY <2>2, <2>3
<1>3. ASSUME NEW r, r.type # "success", r \in {NotFound, ApiError, [type |-> "alreadyLanded"]},
             result = r
      PROVE  answer = r /\ answer \in SAnswers /\ answer.type # "success"
  BY <1>3 DEF searchAirportPickupFlight, SAnswers
<1>4. CASE result = NotFound /\ (asked => Absent(at))
  <2>1. NotFound.type # "success"
    BY DEF NotFound
  <2> QED BY <1>3, <1>4, <2>1
<1>5. CASE result = ApiError
  <2>1. ApiError.type # "success" /\ ApiError # NotFound
    BY DEF NotFound, ApiError
  <2> QED BY <1>3, <1>5, <2>1
<1>6. CASE result = [type |-> "alreadyLanded"]
  <2>1. PICK r : r = [type |-> "alreadyLanded"]
    OBVIOUS
  <2>2. r.type # "success" /\ r # NotFound
    BY <2>1 DEF NotFound
  <2> QED BY <1>3, <1>6, <2>1, <2>2
<1>7. CASE \E l \in Range(SLegs) : /\ result = Found(l, TRUE) /\ l.arr >= at
                                   /\ l.arr \in 24 * SDay - 1 .. 24 * SDay + 22
  BY <1>1, <1>2, <1>7
<1>8. CASE \E l \in Range(SLegs) : result = Found(l, FALSE) /\ l.arr >= at
  BY <1>1, <1>2, <1>8
<1>9. ASSUME NEW l \in Range(SLegs), l.arr >= at + 48 PROVE l.arr >= at
  BY <1>9, LegTimes
<1> QED BY <1>4, <1>5, <1>6, <1>7, <1>8, <1>9 DEF TrueAt, Believed

(* A search keeps answers and cache true.                                   *)
LEMMA SearchKeeps ==
  ASSUME SearchInv, NEW first \in {"ok", "notFound", "error"},
         NEW second \in {"ok", "notFound", "error"}, validateFlight(first, second)
  PROVE  SearchInv'
<1> USE DEF SearchInv
<1>1. /\ hour \in SHours /\ hour \in Nat /\ hour' = hour
      /\ known \in BOOLEAN
      /\ cached \in [data: {SNone, NotFound} \cup {Found(l, v) : l \in Range(SLegs), v \in BOOLEAN},
                     set: SHours \cup {0}]
  BY SAssumption DEF validateFlight, AnswersTrue, STypeOK, SAssumption
<1>2. PICK yes \in BOOLEAN, no \in BOOLEAN : yes = TRUE /\ no = FALSE
  OBVIOUS
<1>3. CASE cached.data # SNone
  <2>1. /\ reply' = searchAirportPickupFlight(cached.data)
        /\ known' = known /\ cached' = cached
    BY <1>3 DEF validateFlight
  <2>2. Believed(cached.data, hour, known)
    <3> USE DEF Believed
    <3>1. CASE cached.data = NotFound
      BY <3>1 DEF CacheTrue
    <3>2. CASE cached.data # NotFound
      <4>1. PICK l \in Range(SLegs), v \in BOOLEAN : cached.data = Found(l, v)
        BY <1>1, <1>3, <3>2
      <4>2. cached.data.type = "success" /\ cached.data.leg = l /\ cached.data.isLive = v
        BY <4>1, FoundIs
      <4>3. cached.set \in Nat /\ l.arr \in Nat
        <5>1. SHours \cup {0} \subseteq Nat
          BY SAssumption DEF SAssumption
        <5>2. cached.set \in SHours \cup {0}
          BY <1>1
        <5> QED BY <5>1, <5>2, LegTimes
      <4>4. CASE v
        BY <4>2, <4>4 DEF CacheTrue
      <4>5. CASE ~v
        <5>1. l.arr >= hour
          BY <1>1, <4>2, <4>3, <4>5 DEF CacheTrue
        <5> QED BY <4>1, <4>5, <5>1
      <4> QED BY <4>4, <4>5
    <3> QED BY <3>1, <3>2
  <2>3. PICK answer : answer = reply'
    OBVIOUS
  <2>4. TrueAnswer(answer, hour, known)
    BY <1>1, <2>1, <2>2, <2>3, AnswerIsTrue
  <2>5. AnswersTrue'
    BY <1>1, <2>1, <2>3, <2>4
       DEF TrueAnswer, AnswersTrue, STypeOK, OfferedFlightIsAhead, LiveFlightIsOfThatDay, NotFoundIsTrue, Absent
  <2>6. CacheTrue'
    BY <1>1, <2>1 DEF CacheTrue
  <2> QED BY <2>5, <2>6
<1>4. CASE cached.data = SNone
  <2>1. PICK result : result = IF useLiveAPI(hour) THEN fetchLiveFlight(hour, first, second)
                               ELSE fetchScheduledFlight(first, second)
    OBVIOUS
  <2>2. PICK asked \in BOOLEAN : asked <=> first = "ok" \/ (HasIcao /\ second = "ok")
    OBVIOUS
  <2>3. /\ reply' = searchAirportPickupFlight(result)
        /\ known' = (first = "ok" \/ (HasIcao /\ second = "ok"))
        /\ cached' = cached \/ (Cacheable(result) /\ cached' = [data |-> result, set |-> hour])
    BY <1>4, <2>1 DEF validateFlight
  <2>4. known' = asked
    BY <2>2, <2>3
  <2>5. TrueAt(result, hour, asked)
    <3>1. CASE useLiveAPI(hour)
      <4>1. PICK found : found = findMatchingFlight(
                Between(getPickupSearchWindow.start, cappedEndDate(hour)), hour)
        OBVIOUS
      <4>2. TrueAt(found, hour, TRUE)
        <5>1. PICK at \in Nat : at = hour
          BY <1>1
        <5>2. TrueAt(findMatchingFlight(
                 Between(getPickupSearchWindow.start, cappedEndDate(at)), at), at, TRUE)
          BY LiveIsTrue
        <5> QED BY <4>1, <5>1, <5>2
      <4>3. result = FirstOrSecond(found, first, second)
        BY <2>1, <3>1, <4>1 DEF fetchLiveFlight
      <4> QED BY <2>2, <4>2, <4>3, TrueAgain
    <3>2. CASE ~useLiveAPI(hour)
      <4>1. PICK found : found = findScheduledFlight(
                Between(getPickupSearchWindow.start, getPickupSearchWindow.end))
        OBVIOUS
      <4>2. TrueAt(found, hour, TRUE)
        <5>1. PICK at \in Nat : at = hour
          BY <1>1
        <5>2. TrueAt(findScheduledFlight(
                 Between(getPickupSearchWindow.start, getPickupSearchWindow.end)), at, TRUE)
          BY <3>2, <5>1, ScheduleIsTrue
        <5> QED BY <4>1, <5>1, <5>2
      <4>3. result = FirstOrSecond(found, first, second)
        BY <2>1, <3>2, <4>1 DEF fetchScheduledFlight
      <4> QED BY <2>2, <4>2, <4>3, TrueAgain
    <3> QED BY <3>1, <3>2
  <2>6. PICK answer : answer = reply'
    OBVIOUS
  <2>7. TrueAnswer(answer, hour, asked)
    <3>1. Believed(result, hour, asked)
      BY <2>5 DEF Believed
    <3> QED BY <1>1, <2>3, <2>6, <3>1, AnswerIsTrue
  <2>8. CASE cached' = cached
    <3>1. STypeOK' /\ OfferedFlightIsAhead' /\ LiveFlightIsOfThatDay' /\ NotFoundIsTrue'
      BY <1>1, <2>4, <2>6, <2>7, <2>8
         DEF TrueAnswer, STypeOK, OfferedFlightIsAhead, LiveFlightIsOfThatDay, NotFoundIsTrue, Absent
    <3>2. SNone.type = "none" /\ SNone # NotFound
      BY DEF SNone, NotFound
    <3>3. CacheTrue'
      BY <1>4, <2>8, <3>2 DEF CacheTrue
    <3> QED BY <3>1, <3>3 DEF AnswersTrue
  <2>9. CASE Cacheable(result) /\ cached' = [data |-> result, set |-> hour]
    <3>1. PICK entry : entry = cached'
      OBVIOUS
    <3>2. entry = [data |-> result, set |-> hour] /\ entry.data = result /\ entry.set = hour
      BY <2>9, <3>1
    <3>3. \/ /\ result = NotFound /\ result.type # "success"
          \/ \E l \in Range(SLegs), v \in BOOLEAN :
               /\ result = Found(l, v) /\ result.leg = l /\ result.isLive = v
               /\ ~v => l.arr >= hour + 48
      <4>1. result.type \in {"success", "notFound"}
        BY <2>9 DEF Cacheable
      <4>2. result # ApiError /\ result # [type |-> "alreadyLanded"]
        BY <4>1 DEF ApiError
      <4>3. CASE result = NotFound
        BY <4>3 DEF NotFound
      <4>4. CASE \E l \in Range(SLegs) : result = Found(l, TRUE)
        <5>1. PICK l \in Range(SLegs) : result = Found(l, yes)
          BY <1>2, <4>4
        <5>2. result.leg = l /\ result.isLive = yes
          BY <5>1, FoundIs
        <5> QED BY <1>2, <5>1, <5>2
      <4>5. CASE \E l \in Range(SLegs) : result = Found(l, FALSE) /\ l.arr >= hour + 48
        <5>1. PICK l \in Range(SLegs) : result = Found(l, no) /\ l.arr >= hour + 48
          BY <1>2, <4>5
        <5>2. result.leg = l /\ result.isLive = no
          BY <5>1, FoundIs
        <5> QED BY <1>2, <5>1, <5>2
      <4> QED BY <2>5, <4>2, <4>3, <4>4, <4>5 DEF TrueAt
    <3>4. entry \in [data: {SNone, NotFound} \cup {Found(l, v) : l \in Range(SLegs), v \in BOOLEAN},
                     set: SHours \cup {0}]
      BY <1>1, <3>2, <3>3
    <3>5. STypeOK' /\ OfferedFlightIsAhead' /\ LiveFlightIsOfThatDay' /\ NotFoundIsTrue'
      BY <1>1, <2>4, <2>6, <2>7, <3>1, <3>4
         DEF TrueAnswer, STypeOK, OfferedFlightIsAhead, LiveFlightIsOfThatDay, NotFoundIsTrue, Absent
    <3>6. /\ entry.data.type = "success" =>
               \/ /\ entry.data.isLive /\ entry.set = hour
                  /\ TrueAt(entry.data, hour, asked)
               \/ /\ ~entry.data.isLive /\ hour < entry.set + 24
                  /\ entry.data.leg.arr >= entry.set + 48
          /\ entry.data = NotFound => TrueAt(entry.data, hour, asked)
      BY <1>1, <2>5, <3>2, <3>3
    <3>7. CacheTrue'
      BY <1>1, <2>4, <3>1, <3>6 DEF CacheTrue, TrueAt, Absent
    <3> QED BY <3>5, <3>7 DEF AnswersTrue
  <2> QED BY <2>3, <2>8, <2>9
<1> QED BY <1>3, <1>4

(* So does the time that passes.                                            *)
LEMMA WaitKeeps ==
  ASSUME SearchInv, NEW h \in SHours, timePasses(h)
  PROVE  SearchInv'
<1>1. /\ hour' = h /\ h > hour /\ reply' = SNone /\ known' = known
      /\ cached' = IF Expires(h) THEN cached ELSE NoEntry
  BY DEF timePasses
<1>2. SNone.type = "none" /\ SNone # NotFound /\ NoEntry.data = SNone
  BY DEF SNone, NotFound, NoEntry
<1>3. STypeOK'
  <2>1. NoEntry \in [data: {SNone, NotFound} \cup {Found(l, v) : l \in Range(SLegs), v \in BOOLEAN},
                     set: SHours \cup {0}]
    BY DEF NoEntry
  <2> QED BY <1>1, <2>1 DEF SearchInv, AnswersTrue, STypeOK, SAnswers
<1>4. AnswersTrue'
  BY <1>1, <1>2, <1>3 DEF AnswersTrue, OfferedFlightIsAhead, LiveFlightIsOfThatDay, NotFoundIsTrue
<1>5. CASE ~Expires(h)
  <2>1. cached' = NoEntry
    BY <1>1, <1>5
  <2>2. CacheTrue'
    BY <1>2, <2>1 DEF CacheTrue
  <2> QED BY <1>4, <2>2 DEF SearchInv
<1>6. CASE Expires(h)
  <2>1. /\ cached' = cached /\ cached.data.type = "success" /\ ~cached.data.isLive
        /\ h < cached.set + 24
    BY <1>1, <1>6 DEF Expires
  <2>2. cached.data # NotFound
    BY <2>1 DEF NotFound
  <2>3. CacheTrue'
    BY <1>1, <2>1, <2>2 DEF SearchInv, CacheTrue
  <2> QED BY <1>4, <2>3 DEF SearchInv
<1> QED BY <1>5, <1>6

(***************************************************************************)
(* For any legs of a flight, any pickup day and any instants of searches,  *)
(* whatever FlightAware answers and whether Redis keeps the answer or not: *)
(* an offered flight is ahead and, from the live search, of the local day  *)
(* asked for, and what is called unknown is not there.                     *)
(***************************************************************************)
THEOREM AnswersStayTrue == SSpec => []AnswersTrue
  <1>1. SInit => SearchInv
    <2> SUFFICES ASSUME SInit PROVE SearchInv
      OBVIOUS
    <2>1. SNone.type = "none" /\ SNone # NotFound /\ NoEntry.data = SNone
      BY DEF SNone, NotFound, NoEntry
    <2>2. STypeOK
      <3>1. NoEntry \in [data: {SNone, NotFound}
                                 \cup {Found(l, v) : l \in Range(SLegs), v \in BOOLEAN},
                         set: SHours \cup {0}]
        BY DEF NoEntry
      <3>2. SNone \in SAnswers
        BY DEF SAnswers
      <3>3. PICK no \in BOOLEAN : no = FALSE
        OBVIOUS
      <3>4. hour \in SHours /\ reply = SNone /\ known = no /\ cached = NoEntry
        BY <3>3 DEF SInit
      <3> QED BY <3>1, <3>2, <3>4 DEF STypeOK
    <2> QED BY <2>1, <2>2 DEF SInit, SearchInv, CacheTrue, AnswersTrue, OfferedFlightIsAhead,
                              LiveFlightIsOfThatDay, NotFoundIsTrue
  <1>2. SearchInv /\ [SNext]_svars => SearchInv'
    <2> SUFFICES ASSUME SearchInv, [SNext]_svars PROVE SearchInv'
      OBVIOUS
    <2>1. CASE SNext
      BY <2>1, SearchKeeps, WaitKeeps DEF SNext
    <2>2. CASE UNCHANGED svars
      <3>1. hour' = hour /\ cached' = cached /\ reply' = reply /\ known' = known
        BY <2>2 DEF svars
      <3>2. AnswersTrue'
        BY <3>1 DEF SearchInv, AnswersTrue, STypeOK, OfferedFlightIsAhead,
                    LiveFlightIsOfThatDay, NotFoundIsTrue
      <3>3. CacheTrue'
        BY <3>1 DEF SearchInv, CacheTrue
      <3> QED BY <3>2, <3>3 DEF SearchInv
    <2> QED BY <2>1, <2>2
  <1>3. SearchInv => AnswersTrue
    BY DEF SearchInv
  <1> QED BY <1>1, <1>2, <1>3, PTL DEF SSpec

=============================================================================
