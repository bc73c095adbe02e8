----------------------------- MODULE Reminders ------------------------------
(***************************************************************************)
(* Start and end reminders of one trip (ReminderScheduler,                 *)
(* ReminderProcessor, ReminderService, BookingReminderHandler).  The legs  *)
(* are those BookingLegs cuts for the request.                             *)
(*                                                                         *)
(* Instants are minutes; a run at mnow happens during the minute that      *)
(* begins at mnow, and what happens at one instant happens in any order.   *)
(***************************************************************************)
EXTENDS Integers, Sequences, FiniteSetsExt

CONSTANTS
    MRequests,  \* the requests of BookingLegs
    MDelays,    \* minutes after the hour at which something may happen
    MMargin,    \* hours kept before and after the starts and ends of a trip
    MMaxOps,    \* bound on the operator's runs
    MMaxFaults  \* bound on jobs and rows that cannot be written

VARIABLES
    mreq,      \* the request behind the trip
    mnow,
    mbooking,  \* status, whether a chauffeur is assigned, whether its car is BOOKED, endDate
    mext,      \* end and state of an extension of the last leg
    mversion,  \* BookingLeg.updatedAt of the last leg, counted
    mdue,      \* queued jobs, by kind
    mrows,     \* the reminders in the notification outbox and the inbox
    mops, mfaults,
    mfresh     \* history: whether the trip has changed at this instant

mvars == <<mreq, mnow, mbooking, mext, mversion, mdue, mrows, mops, mfaults, mfresh>>

ASSUME RemindersAssumption == 0 \in MDelays /\ MDelays \subseteq 0..59

BL == INSTANCE BookingLegs WITH LRequests <- MRequests, SameDayCutoff <- 0,
                                lreq <- mreq, lans <- mreq

Kinds      == {"start", "end"}
Recipients == {"customer", "chauffeur"}
Hourly(t)  == t - (t % 60)

(* The booked window and the legs of every request.                         *)
WindowOf == [r \in MRequests |-> BL!normalizeBookingTimeWindow(r)]
LegsOf   == [r \in MRequests |-> BL!generateLegs(r, WindowOf[r])]

Window == WindowOf[mreq]
Legs   == LegsOf[mreq]
LastLeg == Len(Legs)

-----------------------------------------------------------------------------
(* calculateEffectiveEndTime: the paid extension's end, or the hours of the *)
(* booking's end on the day of the leg.                                     *)
PaidExtension(i) == i = LastLeg /\ mext.state = "ACTIVE"

calculateEffectiveEndTime(i) ==
    IF PaidExtension(i) THEN mext.end
    ELSE BL!AtLocal(mreq, Legs[i].date, BL!LocalTime(mreq, mbooking.end))

(* The queries of the two jobs.                                             *)
StartsWithinAnHour(i) == mnow < Legs[i].start /\ Legs[i].start <= mnow + 60

EndsInAnHour(i) == calculateEffectiveEndTime(i) = mnow + 60

DueLegs(kind) ==
    {i \in 1..LastLeg :
        IF kind = "start"
        THEN /\ BL!LocalDay(mreq, Legs[i].date) = BL!LocalDay(mreq, mnow)
             /\ StartsWithinAnHour(i)
             /\ mbooking.status = "CONFIRMED" /\ mbooking.chauffeur /\ mbooking.car
        ELSE /\ BL!UTCDay(Legs[i].date) = BL!UTCDay(mnow)
             /\ EndsInAnHour(i)
             /\ mbooking.status = "ACTIVE" /\ mbooking.car}

(* The dedupe key: leg, recipient, kind and the leg's updatedAt.            *)
Version(i) == IF i = LastLeg THEN mversion ELSE 0

DedupeKey(i, kind, to) == [leg |-> i, kind |-> kind, to |-> to, version |-> Version(i)]

(* Without a chauffeur there is nobody else to write to.                    *)
Events(kind) ==
    {DedupeKey(i, kind, to) : i \in DueLegs(kind),
                              to \in {p \in Recipients : p = "chauffeur" => mbooking.chauffeur}}

(* createMany with skipDuplicates.                                          *)
Keys == {x.key : x \in mrows}

Stores(keys) ==
    mrows' = mrows \cup {[key |-> k, at |-> mnow] : k \in keys \ Keys}

-----------------------------------------------------------------------------
MInitWith(requests) ==
    /\ mreq \in requests
    /\ mnow = Hourly(Legs[1].start) - 60 * (MMargin + 1)
    /\ mbooking = [status |-> "CONFIRMED", chauffeur |-> FALSE, car |-> TRUE, end |-> Window.end]
    /\ mext = [end |-> 0, state |-> "NONE"] /\ mversion = 0
    /\ mdue = {} /\ mrows = {} /\ mops = 0 /\ mfaults = 0
    /\ mfresh = FALSE

MInit == MInitWith(MRequests)

(* The instants that matter: near the start or the end of a leg.            *)
InstantsOf ==
    [r \in MRequests |->
        LET legs  == LegsOf[r]
            marks == UNION {{legs[i].start, legs[i].end, legs[i].end + 60,
                             BL!AtLocal(r, legs[i].date, BL!LocalTime(r, WindowOf[r].end))} :
                            i \in DOMAIN legs}
        IN  UNION {{Hourly(t) + 60 * k + d : k \in -MMargin..1, d \in MDelays} : t \in marks}]

Ahead == {t \in InstantsOf[mreq] : t > mnow}

(* Time passes; the scheduler queues both jobs at the full hour, if it can. *)
(* A worker takes a job within the hour.                                    *)
schedule ==
    /\ Ahead # {} /\ mnow' = Min(Ahead) /\ mfresh' = FALSE
    /\ IF mnow' % 60 = 0
       THEN /\ mdue = {}
            /\ \/ mdue' = Kinds /\ UNCHANGED mfaults
               \/ \E k \in Kinds : /\ mfaults < MMaxFaults /\ mfaults' = mfaults + 1
                                   /\ mdue' = Kinds \ {k}
       ELSE UNCHANGED <<mdue, mfaults>>
    /\ UNCHANGED <<mreq, mbooking, mext, mversion, mrows, mops>>

(* JobService: an operator's run.                                           *)
triggerReminders(kind) ==
    /\ mops < MMaxOps /\ mops' = mops + 1
    /\ mdue' = mdue \cup {kind}
    /\ UNCHANGED <<mreq, mnow, mbooking, mext, mversion, mrows, mfaults, mfresh>>

(* sendBookingStartReminders, sendBookingEndReminders: rows that cannot be  *)
(* written are logged and skipped.                                          *)
sendReminders(kind) ==
    /\ kind \in mdue /\ mdue' = mdue \ {kind}
    /\ \/ Stores(Events(kind)) /\ UNCHANGED mfaults
       \/ /\ Events(kind) # {} /\ mfaults < MMaxFaults /\ mfaults' = mfaults + 1
          /\ \E to \in SUBSET {"customer"} : Stores({k \in Events(kind) : k.to \in to})
    /\ UNCHANGED <<mreq, mnow, mbooking, mext, mversion, mops, mfresh>>

-----------------------------------------------------------------------------
(* The trip: what changes it is in BookingLifecycle and BookingEdit.        *)
Changes(b) ==
    /\ mbooking' = b /\ mfresh' = TRUE
    /\ UNCHANGED <<mreq, mnow, mdue, mrows, mops, mfaults>>

chauffeurAssigned ==
    /\ mbooking.status = "CONFIRMED" /\ ~mbooking.chauffeur
    /\ Changes([mbooking EXCEPT !.chauffeur = TRUE]) /\ UNCHANGED <<mext, mversion>>

(* Airport trips start with their leg, the others in the hour of startDate. *)
activate ==
    /\ mbooking.status = "CONFIRMED" /\ mbooking.chauffeur /\ mbooking.car
    /\ IF mreq.type = "AIRPORT_PICKUP" THEN mnow >= Legs[1].start
       ELSE Hourly(mnow) = Hourly(Window.start)
    /\ Changes([mbooking EXCEPT !.status = "ACTIVE"]) /\ UNCHANGED <<mext, mversion>>

complete ==
    /\ mbooking.status = "ACTIVE" /\ mbooking.car /\ mbooking.end <= mnow
    /\ Changes([mbooking EXCEPT !.status = "COMPLETED"]) /\ UNCHANGED <<mext, mversion>>

(* The car is marked BOOKED or AVAILABLE by its other bookings.             *)
releaseCar ==
    /\ mbooking.status # "COMPLETED" /\ mbooking.car
    /\ Changes([mbooking EXCEPT !.car = FALSE]) /\ UNCHANGED <<mext, mversion>>

createExtension ==
    /\ mreq.type = "DAY" /\ mbooking.status \in {"CONFIRMED", "ACTIVE"} /\ mext.state = "NONE"
    /\ mext' = [end |-> Legs[LastLeg].end + 60, state |-> "PENDING"]
    /\ Changes(mbooking) /\ UNCHANGED mversion

confirmKeepingLeg ==
    /\ mext.state = "PENDING" /\ mext' = [mext EXCEPT !.state = "ACTIVE"]
    /\ Changes([mbooking EXCEPT !.end = mext.end]) /\ UNCHANGED mversion

(* The leg's end moves, and with it its updatedAt.                          *)
confirmExtension ==
    /\ mext.state = "PENDING" /\ mext' = [mext EXCEPT !.state = "ACTIVE"]
    /\ mversion' = mversion + 1
    /\ Changes([mbooking EXCEPT !.end = mext.end])

MNext ==
    \/ schedule
    \/ \E kind \in Kinds : triggerReminders(kind) \/ sendReminders(kind)
    \/ chauffeurAssigned \/ activate \/ complete \/ releaseCar
    \/ createExtension \/ confirmExtension

MSpec == MInit /\ [][MNext]_mvars

-----------------------------------------------------------------------------
(* The trip, the queued jobs and the reminders are of their kinds, and no  *)
(* row has the key of another one (reminder.service.ts,                    *)
(* notification-outbox.service.ts).                                        *)
RemindersTypeOK ==
    /\ mreq \in MRequests /\ mnow \in Nat /\ mfresh \in BOOLEAN
    /\ mbooking.status \in {"CONFIRMED", "ACTIVE", "COMPLETED"}
    /\ mext.state \in {"NONE", "PENDING", "ACTIVE"} /\ mversion \in 0..1
    /\ mdue \subseteq Kinds /\ mops \in 0..MMaxOps /\ mfaults \in 0..MMaxFaults
    /\ \A x, y \in mrows : x.key = y.key => x = y

Told(i, kind, from) ==
    \A to \in Recipients : \E x \in mrows :
        x.key.leg = i /\ x.key.kind = kind /\ x.key.to = to /\ x.at >= from

(***************************************************************************)
(* Whatever the minute a leg starts at, the one hourly run before it tells *)
(* customer and chauffeur, if the trip was ready and confirmed all through *)
(* that minute and nothing failed (sendBookingStartReminders).  Not so for *)
(* a leg dated on another local day than that run: one that starts at      *)
(* midnight.                                                               *)
(***************************************************************************)
RunBefore(t) == Hourly(t - 1)

QuietHour(kind) == mnow % 60 = 0 /\ ~mfresh /\ kind \notin mdue /\ mfaults = 0

StartTold ==
    [][/\ mnow' # mnow /\ QuietHour("start")
       /\ mbooking.status = "CONFIRMED" /\ mbooking.chauffeur /\ mbooking.car
       => \A i \in 1..LastLeg :
             /\ RunBefore(Legs[i].start) = mnow
             /\ BL!LocalDay(mreq, Legs[i].date) = BL!LocalDay(mreq, mnow)
             => Told(i, "start", mnow - 60)]_mvars

(***************************************************************************)
(* The last end of a day trip is told an hour before, and so is the new    *)
(* one after an extension, although customer and chauffeur may have been   *)
(* told of the old one (calculateEffectiveEndTime, the dedupe key of       *)
(* BookingReminderHandler).                                                *)
(***************************************************************************)
EndTold ==
    [][/\ mnow' # mnow /\ QuietHour("end")
       /\ mreq.type = "DAY" /\ mbooking.end = mnow + 60
       /\ mbooking.status = "ACTIVE" /\ mbooking.chauffeur /\ mbooking.car
       => Told(LastLeg, "end", mnow)]_mvars

(***************************************************************************)
(* Who is told that the service ends in an hour is told so an hour before  *)
(* the end of a leg, never of an extension that was not paid.  Not so for  *)
(* the earlier days of a trip extended before its last day: booking.endDate*)
(* gives the hour of all of them (calculateEffectiveEndTime).              *)
(***************************************************************************)
Ends ==
    {IF i = LastLeg THEN Window.end ELSE Legs[i].end - mreq.zone : i \in 1..LastLeg} \cup (IF mext.state = "ACTIVE" THEN {mext.end} ELSE {})

EndReminderTrue ==
    \A x \in mrows : x.key.kind = "end" =>
        \/ x.at + 60 \in Ends
        \/ mext.state = "ACTIVE" /\ x.key.leg # LastLeg

(***************************************************************************)
(* Nobody is told twice of the same start or end, however many runs of a   *)
(* job overlap in its window, unless the leg changed in between.           *)
(***************************************************************************)
ToldOnce ==
    \A x, y \in mrows :
        x # y /\ x.key.leg = y.key.leg /\ x.key.kind = y.key.kind /\ x.key.to = y.key.to
        => x.key.leg = LastLeg /\ mext.state = "ACTIVE"

(***************************************************************************)
(* Customer and chauffeur are reminded of a start and of an end once, an   *)
(* hour before, and of nothing that is not so, although runs overlap, the  *)
(* end moves and other people change the trip (sendBookingStartReminders,  *)
(* sendBookingEndReminders, BookingReminderHandler).                       *)
(***************************************************************************)
RemindersRight ==
    /\ [](RemindersTypeOK /\ EndReminderTrue /\ ToldOnce)
    /\ StartTold /\ EndTold

=============================================================================
