--------------------------- MODULE FlightTracking ---------------------------
(***************************************************************************)
(* A followed flight and the airport pickups that depend on it: FlightAware*)
(* webhooks in any order and repeated (FlightAwareWebhookService), the     *)
(* booking windows they move, and the activation jobs that a listener      *)
(* re-schedules after the commit (StatusChangeSchedulingService).          *)
(*                                                                         *)
(* Time is counted in units of ten minutes; 0 is an absent time.  The      *)
(* webhook's transaction holds the flight's row lock, so it is two steps:  *)
(* what it reads, and its writes, with booking changes in between.         *)
(***************************************************************************)
EXTENDS Integers, FiniteSets, Sequences, SequencesExt

CONSTANTS
    Pickups,      \* airport bookings of the flight, as a sequence sorted by car
    Rivals,       \* other bookings
    CarOf,        \* the car of each booking
    TLength,      \* length of every booking
    TPayloads,    \* webhook bodies: code, est, act, gate, cancelled
    TStarts,      \* instants at which other bookings may start
    Sched,        \* scheduledArrival
    Buffer40,     \* AIRPORT_BOOKING_BUFFER_MINUTES (4 units)
    Turnaround,   \* two hours (12 units)
    TMaxHooks     \* bound on distinct webhooks

TBookings == Range(Pickups) \cup Rivals

ASSUME TAssumption ==
    /\ Range(Pickups) \cap Rivals = {} /\ DOMAIN CarOf = TBookings
    /\ {TLength, Sched, Turnaround} \subseteq Nat \ {0} /\ TStarts \subseteq Nat \ {0}
    /\ {Buffer40, TMaxHooks} \subseteq Nat
    /\ \A p \in TPayloads : {p.est, p.act} \subseteq Nat
    /\ Pickups \in Seq(TBookings)
    /\ \A b, c \in Range(Pickups) : b # c => CarOf[b] # CarOf[c]  \* reserved for one time

VARIABLES
    flight,     \* the Flight row
    processed,  \* FlightStatusEvent keys that are processed
    book,       \* Booking rows
    hook,       \* the webhook transaction in progress
    emitted,    \* FLIGHT_ARRIVAL_UPDATED events not handled, and perhaps lost
    notice,     \* type of the last status notification
    synced,     \* the bookings the last moving webhook saw, found in conflict, or
                \* found to stand at the new time already, and that time
    orderly     \* every event was handled before the next webhook

tvars == <<flight, processed, book, hook, emitted, notice, synced, orderly>>

FlightStatuses == {"SCHEDULED", "DEPARTED", "LANDED", "CANCELLED", "DIVERTED"}
BlockingStatuses == {"PENDING", "CONFIRMED", "ACTIVE"}
NoHook == [body |-> {}, seen |-> {}]

(* Flights, bookings and webhook calls in progress are of their kinds      *)
(* (flightaware-webhook.service.ts).                                       *)
TTypeOK ==
    /\ flight \in [status: FlightStatuses, est: Nat, act: Nat, delay: Int,
                   gate: {"-"} \cup {p.gate : p \in TPayloads}]
    /\ processed \subseteq TPayloads
    /\ book \in [TBookings -> [status: {"NONE", "CANCELLED"} \cup BlockingStatuses,
                               start: Nat, conflict: BOOLEAN, job: Nat]]
    /\ hook.body \subseteq TPayloads /\ hook.seen \subseteq TBookings
    /\ synced.who \subseteq TBookings /\ synced.found \subseteq synced.who
    /\ orderly \in BOOLEAN

TInit ==
    /\ flight = [status |-> "SCHEDULED", est |-> 0, act |-> 0, delay |-> 0, gate |-> "-"]
    /\ processed = {}
    /\ book = [b \in TBookings |->
                 [status |-> IF b \in Rivals THEN "NONE" ELSE "PENDING",
                  start |-> IF b \in Rivals THEN 0 ELSE Sched + Buffer40,
                  conflict |-> FALSE, job |-> 0]]
    /\ hook = NoHook /\ emitted = {} /\ notice = "-"
    /\ synced = [who |-> {}, found |-> {}, stood |-> {}, at |-> 0]
    /\ orderly = TRUE

-----------------------------------------------------------------------------
(* Reading a webhook. *)

Arrivals   == {"arrival", "on", "in"}
Departures == {"departure", "out", "off"}

mapEventCodeToStatus(code, status, cancelled) ==
    CASE status \in {"LANDED", "DIVERTED"} -> status
      [] status = "CANCELLED" ->
             IF code = "change" /\ cancelled = "false" THEN "SCHEDULED" ELSE status
      [] status \in {"SCHEDULED", "DEPARTED"} ->
             CASE code = "cancelled" -> "CANCELLED"
               [] code = "diverted" -> "DIVERTED"
               [] code \in Arrivals -> "LANDED"
               [] code \in Departures -> "DEPARTED"
               [] OTHER -> status

(* The first time that is present. *)
FirstOf(times) ==
    LET present == {i \in DOMAIN times : times[i] # 0}
    IN  IF present = {} THEN 0 ELSE times[Min(present)]

resolveExpectedArrivalTime(p) == FirstOf(<<p.act, p.est, flight.act, flight.est, Sched>>)

resolveArrivalDelayMinutes(p) ==
    LET current == IF p.act # 0 \/ p.est # 0 THEN FirstOf(<<p.act, p.est>>)
                   ELSE FirstOf(<<flight.act, flight.est>>)
    IN  IF current = 0 THEN 0 ELSE current - Sched

buildFlightUpdateData(p, newStatus) ==
    [status |-> newStatus,
     est    |-> FirstOf(<<p.est, flight.est>>),
     act    |-> FirstOf(<<p.act, flight.act>>),
     delay  |-> IF p.est # 0 \/ p.act # 0 THEN resolveArrivalDelayMinutes(p)
                ELSE flight.delay,
     gate   |-> IF p.gate = "absent" THEN flight.gate ELSE p.gate]

(* buildStatusNotification: the notice of a change of status, or none. *)
buildStatusNotification(p, newStatus) ==
    CASE newStatus = flight.status -> "-"
      [] newStatus = "CANCELLED" /\ p.code = "cancelled" -> "FLIGHT_CANCELLED"
      [] newStatus = "SCHEDULED" /\ p.code = "change" /\ p.cancelled = "false" ->
             "FLIGHT_REINSTATED"
      [] newStatus = "DIVERTED" /\ p.code = "diverted" -> "FLIGHT_DIVERTED"
      [] newStatus = "DEPARTED" /\ p.code \in Departures -> "FLIGHT_DEPARTED"
      [] newStatus = "LANDED" /\ p.code \in Arrivals -> "FLIGHT_ARRIVED"
      [] OTHER -> "-"

shouldEmitActivationEvent(status) == status \notin {"CANCELLED", "DIVERTED"}

-----------------------------------------------------------------------------
(* Moving the windows. *)

(* Another booking of the car within the turnaround of the new window. *)
TooClose(bk, b, at) ==
    \E c \in TBookings \ {b} :
        /\ CarOf[c] = CarOf[b] /\ bk[c].status \in BlockingStatuses
        /\ bk[c].start < at + TLength + Turnaround
        /\ bk[c].start + TLength > at - Turnaround

(* Forgets to clear the mark when the window fits again. *)
ShiftKeepsMark(bk, b, at) ==
    IF bk[b].start = at THEN bk
    ELSE IF TooClose(bk, b, at) THEN [bk EXCEPT ![b].conflict = TRUE]
    ELSE [bk EXCEPT ![b].start = at]

(* A booking whose leg already starts at the new instant is left as it is, *)
(* its conflict mark too.                                                   *)
Shift(bk, b, at) ==
    CASE bk[b].start = at -> bk
      [] bk[b].start # at /\ TooClose(bk, b, at) -> [bk EXCEPT ![b].conflict = TRUE]
      [] OTHER -> [bk EXCEPT ![b].start = at, ![b].conflict = FALSE]

(* The bookings in order of their cars, one after the other. *)
syncConfirmedAirportBookingWindows(bk, seen, at) ==
    FoldLeft(LAMBDA acc, b : IF b \in seen THEN Shift(acc, b, at) ELSE acc, bk, Pickups)

conflictedBookingIds(bk, seen, at) ==
    LET moved == syncConfirmedAirportBookingWindows(bk, seen, at)
    IN  {b \in seen : moved[b].start # at}

-----------------------------------------------------------------------------
(* handleWebhook: lock and read; a processed key is a duplicate and changes *)
(* nothing.                                                                 *)
handleWebhook(p) ==
    /\ hook.body = {} /\ p \notin processed /\ Cardinality(processed) < TMaxHooks
    /\ hook' = [body |-> {p},
                seen |-> {b \in Range(Pickups) : book[b].status = "CONFIRMED"}]
    /\ UNCHANGED <<flight, processed, book, emitted, notice, synced, orderly>>

(* ... write and commit, then emit; when the process dies in between, the *)
(* event is one that is never handled.                                      *)
commitWebhook ==
    /\ hook.body # {}
    /\ \E p \in hook.body :
       LET newStatus == mapEventCodeToStatus(p.code, flight.status, p.cancelled)
           at        == resolveExpectedArrivalTime(p) + Buffer40
           moves     == shouldEmitActivationEvent(newStatus)
           conflicts == conflictedBookingIds(book, hook.seen, at)
           news      == buildStatusNotification(p, newStatus)
       IN  /\ flight' = buildFlightUpdateData(p, newStatus)
           /\ processed' = processed \cup {p}
           /\ notice' = IF news = "-" THEN notice ELSE news
           /\ IF moves
              THEN /\ book' = syncConfirmedAirportBookingWindows(book, hook.seen, at)
                   /\ synced' = [who |-> hook.seen, found |-> conflicts, at |-> at,
                               stood |-> {b \in hook.seen : book[b].start = at}]
                   /\ emitted' = emitted \cup {[at |-> at, conflicts |-> conflicts]}
                   /\ orderly' = (orderly /\ emitted = {})
              ELSE UNCHANGED <<book, synced, emitted, orderly>>
    /\ hook' = NoHook

(* Replaces the booking's job; removed first, it may be lost. *)
scheduleAirportActivation(b, at, fails) ==
    IF fails THEN {[book[b] EXCEPT !.job = 0], book[b]} ELSE {[book[b] EXCEPT !.job = at]}

(* The jobs of the bookings in conflict are removed, those of the confirmed *)
(* pickups replaced; a call that fails stops none of the others.            *)
scheduleAirportActivationsForFlight(e, failing) ==
    {bk \in [TBookings -> UNION {scheduleAirportActivation(b, e.at, b \in failing) \cup
                                     {book[b], [book[b] EXCEPT !.job = 0]} : b \in TBookings}] :
        \A b \in TBookings :
            CASE b \in e.conflicts ->
                     bk[b] = IF b \in failing THEN book[b] ELSE [book[b] EXCEPT !.job = 0]
              [] b \in Range(Pickups) \ e.conflicts /\ book[b].status = "CONFIRMED" ->
                     bk[b] \in scheduleAirportActivation(b, e.at, b \in failing)
              [] OTHER -> bk[b] = book[b]}

(* Errors are suppressed: nobody tries again. *)
onFlightArrivalUpdated(e) ==
    /\ e \in emitted /\ emitted' = emitted \ {e}
    /\ \E failing \in SUBSET Range(Pickups) :
          /\ book' \in scheduleAirportActivationsForFlight(e, failing)
          /\ orderly' = (orderly /\ failing = {})
    /\ UNCHANGED <<flight, processed, hook, notice, synced>>

-----------------------------------------------------------------------------
(* The bookings meanwhile. *)

SetRow(b, row) ==
    /\ book' = [book EXCEPT ![b] = row]
    /\ UNCHANGED <<flight, processed, hook, emitted, notice, synced, orderly>>

(* A payment confirms a pickup; its event schedules the activation. *)
onBookingConfirmed(b) ==
    /\ b \in Range(Pickups) /\ book[b].status = "PENDING"
    /\ SetRow(b, [book[b] EXCEPT !.status = "CONFIRMED", !.job = book[b].start])

cancelPickup(b) ==
    /\ book[b].status \in {"PENDING", "CONFIRMED"}
    /\ SetRow(b, [book[b] EXCEPT !.status = "CANCELLED"])

(* Another booking is reserved, under the lock of its car. *)
reserveRival(b, at) ==
    /\ b \in Rivals /\ book[b].status = "NONE"
    /\ ~TooClose(book, b, at)
    /\ SetRow(b, [book[b] EXCEPT !.status = "CONFIRMED", !.start = at])

(* The job of a pickup fires; the conditional update skips a booking in     *)
(* conflict, and one without chauffeur or whose car is not BOOKED.          *)
activateAirportPickup(b) ==
    /\ book[b].job # 0
    /\ \E ready \in BOOLEAN :
          SetRow(b, [book[b] EXCEPT !.job = 0,
              !.status = IF @ = "CONFIRMED" /\ ~book[b].conflict /\ ready THEN "ACTIVE" ELSE @])

TNext ==
    \/ \E p \in TPayloads : handleWebhook(p)
    \/ commitWebhook
    \/ \E e \in emitted : onFlightArrivalUpdated(e)
    \/ \E b \in TBookings :
          \/ onBookingConfirmed(b) \/ cancelPickup(b) \/ activateAirportPickup(b)
          \/ \E at \in TStarts : reserveRival(b, at)

TSpec == TInit /\ [][TNext]_tvars

-----------------------------------------------------------------------------
(***************************************************************************)
(* Whatever order webhooks, reservations and confirmations come in, two    *)
(* bookings of one car that a webhook moved or a customer reserved keep    *)
(* the turnaround between them: the check is made on the rows as they are  *)
(* under the car's lock, not as the webhook first read them.               *)
(***************************************************************************)
WindowsApart ==
    \A b, c \in TBookings :
        b # c /\ CarOf[b] = CarOf[c] /\ {book[b].status, book[c].status} \subseteq BlockingStatuses
            => \/ book[b].start >= book[c].start + TLength + Turnaround
               \/ book[c].start >= book[b].start + TLength + Turnaround

(***************************************************************************)
(* The last status notice describes the flight's status, although events   *)
(* come late, twice and out of order: a cancelled or landed flight is      *)
(* never reported as departing, and a revived one is reported revived.     *)
(***************************************************************************)
NoticesMatchStatus ==
    /\ flight.status = "CANCELLED" <=> notice = "FLIGHT_CANCELLED"
    /\ flight.status = "DIVERTED"  <=> notice = "FLIGHT_DIVERTED"
    /\ flight.status = "LANDED"    <=> notice = "FLIGHT_ARRIVED"
    /\ flight.status = "DEPARTED"  <=> notice = "FLIGHT_DEPARTED"

(***************************************************************************)
(* A pickup that the last webhook saw starts when the flight's passengers  *)
(* are out, or is marked as a conflict for somebody to reassign.           *)
(***************************************************************************)
PickupFollowsFlight ==
    \A b \in synced.who : book[b].status = "CONFIRMED" =>
        book[b].start = synced.at \/ book[b].conflict

(***************************************************************************)
(* A conflict mark blocks the activation, so it must be current: the last  *)
(* webhook that saw the booking found the conflict.  One case is left out, *)
(* because there the code keeps the mark: the flight is back at the very   *)
(* time at which the booking stood all along.                              *)
(***************************************************************************)
ConflictMarkIsCurrent ==
    \A b \in synced.who : book[b].conflict =>
        b \in synced.found \cup synced.stood

(***************************************************************************)
(* When each event is handled before the next webhook, and no call to the  *)
(* queue fails, a confirmed pickup has its activation job at the start of  *)
(* its window, and one in conflict has none.                               *)
(***************************************************************************)
JobFollowsWindow ==
    orderly /\ emitted = {} /\ hook.body = {} =>
        \A b \in synced.who : book[b].status = "CONFIRMED" /\ book[b].job # 0 =>
            book[b].job = book[b].start /\ b \notin synced.found

(***************************************************************************)
(* Webhooks that come late, twice or out of order leave the pickups right: *)
(* they keep the turnaround of the car, follow the flight or are marked,   *)
(* their activation job follows them, and the last notice is true          *)
(* (handleWebhook, scheduleAirportActivationsForFlight).                   *)
(***************************************************************************)
PickupsSound ==
    /\ TTypeOK /\ WindowsApart /\ NoticesMatchStatus
    /\ PickupFollowsFlight /\ ConflictMarkIsCurrent /\ JobFollowsWindow

=============================================================================
