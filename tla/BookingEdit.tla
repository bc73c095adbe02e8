----------------------------- MODULE BookingEdit -----------------------------
(***************************************************************************)
(* Changes to a confirmed booking: its customer edits it or cancels it     *)
(* (BookingUpdateService, BookingModificationPolicyService), the owner     *)
(* assigns a chauffeur, and paid extensions lengthen it                    *)
(* (BookingExtensionService, ExtensionConfirmationService).  A request     *)
(* reads the booking first and writes in a later step, with other requests *)
(* in between; each writing transaction is one step.                       *)
(*                                                                         *)
(* Time is counted in units of two hours: a DAY booking has six of them.   *)
(***************************************************************************)
EXTENDS Integers, FiniteSets, FiniteSetsExt

CONSTANTS
    Mine,        \* the booking that is changed
    Next1,       \* another booking of the car
    Requests,    \* requests
    EStarts,     \* pickup times a customer may ask for
    EOthers,     \* starts of the other booking
    EInstants,   \* instants at which something happens
    EPlaces,     \* addresses
    EStaff,      \* approved chauffeurs of the owner
    DayLength,   \* DAY_BOOKING_DURATION_HOURS
    EBuffer,     \* the turnaround
    EMidnight,   \* the end of the booking's day
    EditCutoff   \* BOOKING_MODIFICATION_CUTOFF_HOURS

ASSUME EAssumption ==
    /\ Mine # Next1 /\ IsFiniteSet(Requests)
    /\ EStarts \cup EOthers \cup EInstants \subseteq Nat
    /\ IsFiniteSet(EStarts) /\ {} \notin {EStarts, EInstants, EPlaces, EStaff}
    /\ {DayLength, EBuffer, EMidnight, EditCutoff} \subseteq Nat

VARIABLES
    ebook,    \* Booking rows, with the end of the last leg
    ereq,     \* per request: what it asks for and what it has read
    exts,     \* Extension rows, by the request that made the row
    charged,  \* Payment rows: the paid link and the extension it was for
    enow,     \* the present
    told,     \* the chauffeur last notified of an assignment
    raced     \* what happened between some request's read and its write

evars == <<ebook, ereq, exts, charged, enow, told, raced>>

EBookings == {Mine, Next1}
EBlocking == {"PENDING", "CONFIRMED", "ACTIVE"}
NoExt     == [status |-> "NONE", from |-> 0, to |-> 0, link |-> "-"]
Fresh     == [state |-> "new"]
Done      == [state |-> "done"]

(* Bookings, extensions and the requests that edit them are of their kinds *)
(* (booking-update and booking-extension services).                        *)
ETypeOK ==
    /\ ebook \in [EBookings -> [status: {"NONE", "CANCELLED"} \cup EBlocking, start: Nat,
                                end: Nat, leg: Nat, pickup: EPlaces, drop: EPlaces,
                                chauffeur: EStaff]]
    /\ \A r \in Requests :
          /\ ereq[r].state \in {"new", "edit", "assign", "extend", "done"}
          /\ exts[r].status \in {"NONE", "PENDING", "ACTIVE"}
          /\ exts[r].status # "NONE" => exts[r].from < exts[r].to /\ exts[r].to <= EMidnight
    /\ enow \in EInstants /\ told \in EStaff
    /\ raced \subseteq {"place", "extension", "window"}

EInit ==
    /\ told = CHOOSE c \in EStaff : TRUE
    /\ LET s == Max(EStarts)
           p == CHOOSE q \in EPlaces : TRUE
       IN  ebook = [b \in EBookings |->
              [status |-> IF b = Mine THEN "CONFIRMED" ELSE "NONE", start |-> s,
               end |-> s + DayLength, leg |-> s + DayLength, pickup |-> p, drop |-> p,
               chauffeur |-> told]]
    /\ ereq = [r \in Requests |-> Fresh] /\ exts = [r \in Requests |-> NoExt]
    /\ charged = {} /\ enow = Min(EInstants) /\ raced = {}

-----------------------------------------------------------------------------
(* The policy and the car. *)

getModificationCutoffAt(start) == start - EditCutoff
isWithinWindow(start) == enow < getModificationCutoffAt(start)

(* The requested window, with the turnaround on both sides. *)
buildBufferedBookingInterval(start, end) == [from |-> start - EBuffer, to |-> end + EBuffer]

checkCarAvailability(b, start, end) ==
    LET w == buildBufferedBookingInterval(start, end)
    IN  \A c \in EBookings \ {b} : ebook[c].status \in EBlocking =>
            ebook[c].start >= w.to \/ ebook[c].end <= w.from

(* Booking_car_active_window_excl *)
Excludes(b, start, end) ==
    \E c \in EBookings \ {b} :
        /\ ebook[c].status \in EBlocking
        /\ start < ebook[c].end + EBuffer /\ ebook[c].start < end + EBuffer

-----------------------------------------------------------------------------
(* updateBooking *)

(* A pickup time gives a new start and the end that belongs to it. *)
resolveUpdatedDates(time) ==
    IF time = 0 THEN {} ELSE {[start |-> time, end |-> time + DayLength]}

(* sameLocation: yes, no or absent; "-" is an absent address. *)
resolveTargetReturnLocation(seen, pickup, same, drop) ==
    CASE same = "yes" -> IF pickup = "-" THEN seen.pickup ELSE pickup
      [] same = "no"  -> drop
      [] same = "-"   -> IF drop = "-" THEN seen.drop ELSE drop

(* Read, outside the transaction. *)
updateBookingInternal(r) ==
    /\ ereq[r] = Fresh /\ ebook[Mine].status = "CONFIRMED"
    /\ \E time \in EStarts \cup {0}, pickup \in EPlaces \cup {"-"}, same \in {"yes", "no", "-"},
          drop \in EPlaces \cup {"-"} :
          /\ same = "no" => drop # "-"
          /\ time = 0 \/ {pickup, same, drop} = {"-"}      \* the time or the places
          /\ ereq' = [ereq EXCEPT ![r] =
                [state |-> "edit", seen |-> ebook[Mine], dates |-> resolveUpdatedDates(time),
                 pickup |-> pickup, same |-> same,
                 drop |-> resolveTargetReturnLocation(ebook[Mine], pickup, same, drop)]]
    /\ UNCHANGED <<ebook, exts, charged, enow, told, raced>>

(* The row is as the request read it. *)
lockEditableBookingState(q) ==
    ebook[Mine].status = "CONFIRMED" /\ ebook[Mine].start = q.seen.start

(* Only the start as it is counts for the cutoff. *)
EffectiveStartOld(q) == q.seen.start

(* The earlier of the two starts counts for the cutoff. *)
EffectiveStart(q) == Min({q.seen.start} \cup {d.start : d \in q.dates})

AssertCanEdit(q) == isWithinWindow(EffectiveStart(q))

(* An address is written only when the request changes it. *)
PlacesUpdated(q) ==
    [ebook[Mine] EXCEPT !.pickup = IF q.pickup = "-" \/ q.pickup = q.seen.pickup
                                   THEN @ ELSE q.pickup,
                        !.drop = IF q.drop = q.seen.drop THEN @ ELSE q.drop]

updateBookingWithinWindow(q) ==
    [ebook EXCEPT ![Mine] =
        IF q.dates = {} THEN PlacesUpdated(q)
        ELSE [PlacesUpdated(q) EXCEPT !.start = (CHOOSE d \in q.dates : TRUE).start,
                                      !.end = (CHOOSE d \in q.dates : TRUE).end]]

updateBooking(r) ==
    LET q == ereq[r]
    IN  /\ q.state = "edit"
        /\ ereq' = [ereq EXCEPT ![r] = Done]
        /\ IF /\ lockEditableBookingState(q) /\ AssertCanEdit(q)
              /\ \A d \in q.dates : checkCarAvailability(Mine, d.start, d.end)
           THEN /\ ebook' = updateBookingWithinWindow(q)
                /\ raced' = raced
                     \cup (IF <<q.seen.pickup, q.seen.drop>> # <<ebook[Mine].pickup, ebook[Mine].drop>>
                           THEN {"place"} ELSE {})
                     \cup (IF q.dates # {} /\ \E x \in Requests : exts[x].status # "NONE"
                           THEN {"window"} ELSE {})
           ELSE UNCHANGED <<ebook, raced>>
        /\ UNCHANGED <<exts, charged, enow, told>>

cancelMine ==
    /\ ebook[Mine].status = "CONFIRMED" /\ isWithinWindow(ebook[Mine].start)
    /\ ebook' = [ebook EXCEPT ![Mine].status = "CANCELLED"]
    /\ UNCHANGED <<ereq, exts, charged, enow, told, raced>>

-----------------------------------------------------------------------------
(* assignChauffeur: a transaction that reads, then updates what it read. *)

readForAssignment(r) ==
    /\ ereq[r] = Fresh /\ ebook[Mine].status = "CONFIRMED"
    /\ \E c \in EStaff :
          ereq' = [ereq EXCEPT ![r] =
              [state |-> "assign", seen |-> ebook[Mine].chauffeur, chauffeur |-> c]]
    /\ UNCHANGED <<ebook, exts, charged, enow, told, raced>>

StillUnassigned(q) == ebook[Mine].status = "CONFIRMED" /\ ebook[Mine].chauffeur = q.seen

assignChauffeur(r) ==
    LET q == ereq[r]
    IN  /\ q.state = "assign"
        /\ ereq' = [ereq EXCEPT ![r] = Done]
        /\ IF StillUnassigned(q)
           THEN /\ ebook' = [ebook EXCEPT ![Mine].chauffeur = q.chauffeur]
                /\ told' = IF q.seen = q.chauffeur THEN told ELSE q.chauffeur
           ELSE UNCHANGED <<ebook, told>>
        /\ UNCHANGED <<exts, charged, enow, raced>>

-----------------------------------------------------------------------------
(* Extensions. *)

(* From the end of the last paid one, or of the leg. *)
extensionStartTime ==
    LET paid == {exts[x].to : x \in {y \in Requests : exts[y].status = "ACTIVE"}}
    IN  IF paid = {} THEN ebook[Mine].leg ELSE Max(paid)

maxHours(from) == EMidnight - from

(* The unpaid one that starts there. *)
OpenExtensions(from) == {x \in Requests : exts[x].status = "PENDING" /\ exts[x].from = from}

Rows(from) == {[id |-> x, status |-> exts[x].status] :
                   x \in {y \in Requests : exts[y].status # "NONE" /\ exts[y].from = from}}

(* Read, and ask for a payment link. *)
readForExtension(r) ==
    LET from == extensionStartTime
        open == OpenExtensions(from)
    IN  /\ ereq[r] = Fresh /\ ebook[Mine].status \in {"CONFIRMED", "ACTIVE"}
        /\ \E hours \in 1..maxHours(from), row \in IF open = {} THEN {r} ELSE open :
              ereq' = [ereq EXCEPT ![r] =
                  [state |-> "extend", row |-> row, from |-> from, to |-> from + hours,
                   seen |-> Rows(from)]]
        /\ UNCHANGED <<ebook, exts, charged, enow, told, raced>>

(* The row is made, or the open one written over: by then it may be paid, *)
(* and another request may have made one.                                 *)
createExtension(r) ==
    LET q == ereq[r]
    IN  /\ q.state = "extend"
        /\ exts' = [exts EXCEPT ![q.row] =
                      [status |-> "PENDING", from |-> q.from, to |-> q.to, link |-> r]]
        /\ raced' = IF Rows(q.from) # q.seen THEN raced \cup {"extension"} ELSE raced
        /\ ereq' = [ereq EXCEPT ![r] = Done]
        /\ UNCHANGED <<ebook, charged, enow, told>>

(* A link is paid.  The webhook looks for the row that has it: the link of *)
(* a row that was written over finds none, and no payment is recorded.     *)
payExtension(r) ==
    /\ \E x \in Requests :
          /\ exts[x].link = r /\ exts[x].status = "PENDING"
          /\ charged' = charged \cup {[link |-> r, ext |-> x, to |-> exts[x].to]}
    /\ UNCHANGED <<ebook, ereq, exts, enow, told, raced>>

(* Only forward. *)
Advance(end, to) == Max({end, to})

(* confirmFromPayment, for a payment that is delivered at least once.  The *)
(* constraint refuses an end that reaches the next booking's turnaround.   *)
confirmExtension(p) ==
    LET x == p.ext
        row == [ebook[Mine] EXCEPT !.leg = Advance(@, exts[x].to), !.end = Advance(@, exts[x].to)]
    IN  /\ p \in charged /\ exts[x].status \in {"PENDING", "ACTIVE"}
        /\ ~(ebook[Mine].status \in EBlocking /\ Excludes(Mine, row.start, row.end))
        /\ exts' = [exts EXCEPT ![x].status = "ACTIVE"]
        /\ ebook' = [ebook EXCEPT ![Mine] = row]
        /\ UNCHANGED <<ereq, charged, enow, told, raced>>

-----------------------------------------------------------------------------
(* The rest of the world. *)

reserveNext(s) ==
    /\ ebook[Next1].status = "NONE" /\ s > enow
    /\ checkCarAvailability(Next1, s, s + DayLength)
    /\ ebook' = [ebook EXCEPT ![Next1].status = "PENDING", ![Next1].start = s,
                              ![Next1].end = s + DayLength]
    /\ UNCHANGED <<ereq, exts, charged, enow, told, raced>>

activateMine ==
    /\ ebook[Mine].status = "CONFIRMED" /\ enow >= ebook[Mine].start
    /\ ebook' = [ebook EXCEPT ![Mine].status = "ACTIVE"]
    /\ UNCHANGED <<ereq, exts, charged, enow, told, raced>>

ETick ==
    /\ \E t \in EInstants : t > enow /\ enow' = t
    /\ UNCHANGED <<ebook, ereq, exts, charged, told, raced>>

ENext ==
    \/ \E r \in Requests :
          \/ updateBookingInternal(r) \/ updateBooking(r) \/ readForAssignment(r)
          \/ assignChauffeur(r) \/ readForExtension(r) \/ createExtension(r) \/ payExtension(r)
    \/ \E p \in charged : confirmExtension(p)
    \/ cancelMine \/ activateMine \/ ETick
    \/ \E s \in EOthers : reserveNext(s)

ESpec == EInit /\ [][ENext]_evars

-----------------------------------------------------------------------------
(***************************************************************************)
(* The availability check under the car's lock is as strict as the         *)
(* exclusion constraint, so no edit and no reservation puts two bookings   *)
(* of the car within the turnaround of each other.                         *)
(***************************************************************************)
ETurnaroundKept ==
    {ebook[Mine].status, ebook[Next1].status} \subseteq EBlocking =>
        \/ ebook[Mine].start >= ebook[Next1].end + EBuffer
        \/ ebook[Next1].start >= ebook[Mine].end + EBuffer

(***************************************************************************)
(* A customer moves his booking only before the cutoff of the start it has *)
(* at that moment, and never to a start whose cutoff has passed, however   *)
(* old the booking was when he read it.                                    *)
(***************************************************************************)
MovedInTime ==
    [][ebook'[Mine].start # ebook[Mine].start =>
          /\ enow + EditCutoff < ebook[Mine].start
          /\ enow + EditCutoff < ebook'[Mine].start]_evars

(***************************************************************************)
(* An edit that keeps a round trip keeps it: pickup and return stay the    *)
(* same as long as no request asks otherwise.  Not so when an address was  *)
(* changed between another edit's read and its write: the update compares  *)
(* the start only.                                                         *)
(***************************************************************************)
RoundTripKept ==
    [][\A r \in Requests :
          (ereq[r].state = "edit" /\ ereq'[r] = Done /\ ereq[r].same = "yes" /\ ebook' # ebook)
              => ebook'[Mine].pickup = ebook'[Mine].drop \/ "place" \in raced']_evars

(***************************************************************************)
(* The chauffeur of a booking is the one who was last told so, although    *)
(* two assignments may overlap: none is replaced behind his back.          *)
(***************************************************************************)
AssignedIsTold == ebook[Mine].chauffeur = told

(***************************************************************************)
(* A paid extension stays paid.  Not so when the customer asked for        *)
(* another one meanwhile: the request that found the row unpaid writes it  *)
(* over.                                                                   *)
(***************************************************************************)
PaidExtensionStays ==
    [][\A x \in Requests : exts[x].status = "ACTIVE" =>
          exts'[x].status = "ACTIVE" \/ "extension" \in raced']_evars

(***************************************************************************)
(* The time a customer paid for is his: the booking ends when its active   *)
(* extensions do, not earlier.  Not so when he changed the pickup time     *)
(* after extending: the new end is computed from the pickup time alone.    *)
(***************************************************************************)
ExtensionCovered ==
    \A x \in Requests : exts[x].status = "ACTIVE" =>
        \/ ebook[Mine].end >= exts[x].to /\ ebook[Mine].leg >= exts[x].to
        \/ "window" \in raced

(***************************************************************************)
(* Extensions that were paid follow each other without gap or overlap.     *)
(* Not so when two requests read the same end.                             *)
(***************************************************************************)
NoHourSoldTwice ==
    \A x, y \in Requests :
        x # y /\ exts[x].status = "ACTIVE" /\ exts[y].status = "ACTIVE" =>
            \/ exts[x].from >= exts[y].to \/ exts[y].from >= exts[x].to
            \/ "extension" \in raced

(***************************************************************************)
(* A request that reads the booking and writes it later undoes nothing     *)
(* that came in between: the turnaround, the cutoff, the chauffeur who was *)
(* told, the round trip and the time that was paid for are kept, except    *)
(* where the update compares the start only (updateBookingInternal,        *)
(* assignChauffeur, confirmFromPayment).                                   *)
(***************************************************************************)
EditsSound ==
    /\ [](ETypeOK /\ ETurnaroundKept /\ AssignedIsTold /\ ExtensionCovered /\ NoHourSoldTwice)
    /\ MovedInTime /\ RoundTripKept /\ PaidExtensionStays

=============================================================================
