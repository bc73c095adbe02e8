---------------------------- MODULE BookingLegs ----------------------------
(***************************************************************************)
(* The time window of a booking and the legs it is priced by.              *)
(*                                                                         *)
(* Instants are minutes since a UTC midnight.  The window is normalised    *)
(* with the local hours of the process (Date#setHours), the legs are cut   *)
(* with UTC hours (UTCDate): zone is the offset between the two.  Requests *)
(* use whole hours, so that one tick can stand for the millisecond that    *)
(* getEffectiveEndDate takes off a midnight.                               *)
(***************************************************************************)
EXTENDS Integers, Sequences, FiniteSets

CONSTANTS
    LRequests,   \* the requests: type, zone, start, end, pickup, now, arrival, drive
    SameDayCutoff \* SAME_DAY_BOOKING_CUTOFF_HOUR, in minutes

(* The process runs in Lagos, its tests in UTC; a pickup time is an hour of *)
(* the 12-hour clock; a known flight was ahead when it was looked up, which *)
(* is after now or, in the cache of live flights, a minute earlier.         *)
ASSUME LAssumption ==
    /\ LRequests \subseteq
         [type: {"DAY", "NIGHT", "FULL_DAY", "AIRPORT_PICKUP"}, zone: {0, 60},
          start: Nat, end: Nat, pickup: [hour: 1..12, pm: BOOLEAN], now: Nat,
          arrival: Nat, drive: Nat]
    /\ \A r \in LRequests : r.arrival = 0 \/ r.arrival + 1 >= r.now

VARIABLES
    lreq,        \* the request
    lans         \* what was answered: the window, the legs, whether it was accepted

lvars == <<lreq, lans>>

HourL == 60
DayL  == 24 * HourL

Larger(a, b)  == IF a >= b THEN a ELSE b
CeilDiv(a, b) == -((-a) \div b)

-----------------------------------------------------------------------------
(* Local and UTC calendars *)

LocalDay(r, t) == (t + r.zone) \div DayL
LocalTime(r, t) == (t + r.zone) % DayL
UTCDay(t)      == t \div DayL

(* date.setHours(h, m, 0, 0) in local time and on a UTCDate. *)
AtLocal(r, t, minutes) == t - LocalTime(r, t) + minutes
AtUTC(t, minutes)      == DayL * UTCDay(t) + minutes

-----------------------------------------------------------------------------
(* normalizeBookingTimeWindow *)

(* 12 AM is midnight and 12 PM is noon; both parsers do the same. *)
parsePickupTime(p) ==
    HourL * (IF p.pm /\ p.hour # 12 THEN p.hour + 12
             ELSE IF ~p.pm /\ p.hour = 12 THEN 0 ELSE p.hour)

WindowStart(r) ==
    CASE r.type = "AIRPORT_PICKUP" -> r.start
      [] r.type = "NIGHT"          -> AtLocal(r, r.start, 23 * HourL)
      [] OTHER                     -> AtLocal(r, r.start, parsePickupTime(r.pickup))

NightEnd(r) ==
    LET e == AtLocal(r, r.end, 5 * HourL)
    IN  IF e <= WindowStart(r) THEN e + DayL ELSE e

DaySpan(r) == Larger(1, LocalDay(r, r.end) - LocalDay(r, r.start))

WindowEnd(r) ==
    CASE r.type = "AIRPORT_PICKUP" -> r.end
      [] r.type = "NIGHT"          -> NightEnd(r)
      [] r.type = "FULL_DAY"       -> WindowStart(r) + DayL * DaySpan(r)
      [] OTHER                     -> AtLocal(r, r.end, parsePickupTime(r.pickup) + 12 * HourL)

normalizeBookingTimeWindow(r) == [start |-> WindowStart(r), end |-> WindowEnd(r)]

-----------------------------------------------------------------------------
(* booking.helper *)

getEffectiveEndDate(w) ==
    IF w.end % DayL = 0 THEN Larger(w.end - 1, w.start) ELSE w.end

getDayLegDates(w) ==
    [i \in 1..(UTCDay(getEffectiveEndDate(w)) - UTCDay(w.start) + 1) |->
        DayL * (UTCDay(w.start) + i - 1)]

calculateNightLegCount(w) ==
    Larger(1, CeilDiv(getEffectiveEndDate(w) - w.start, DayL))

calculateFullDayLegCount(w, base) ==
    Larger(1, CeilDiv(getEffectiveEndDate(w) - base, DayL))

(* The single source of truth for the number of legs. *)
calculateLegCount(type, w) ==
    CASE type = "AIRPORT_PICKUP" -> 1
      [] type = "DAY"            -> Len(getDayLegDates(w))
      [] type = "NIGHT"          -> calculateNightLegCount(w)
      [] type = "FULL_DAY"       -> calculateFullDayLegCount(w, w.start)

estimateOfDifference(r) == Larger(1, LocalDay(r, r.end) - LocalDay(r, r.start))

(* What the booking agent multiplies its estimate by: the two dates, parsed *)
(* as local midnights, are the window.                                      *)
resolveEstimatedQuantity(r) ==
    calculateLegCount(r.type, [start |-> AtLocal(r, r.start, 0), end |-> AtLocal(r, r.end, 0)])

-----------------------------------------------------------------------------
(* BookingLegService *)

LegOf(date, from, to) == [date |-> date, start |-> from, end |-> to]

generateDayLegs(r, w) ==
    LET days == getDayLegDates(w)
    IN  [i \in DOMAIN days |->
            LegOf(days[i], days[i] + parsePickupTime(r.pickup), days[i] + parsePickupTime(r.pickup) + 12 * HourL)]

generateNightLegs(w) ==
    [i \in 1..calculateNightLegCount(w) |->
        LET night == w.start + DayL * (i - 1)
        IN  LegOf(night, AtUTC(night, 23 * HourL), AtUTC(night, DayL + 5 * HourL))]

generateFullDayLegs(r, w) ==
    LET base == AtUTC(w.start, parsePickupTime(r.pickup))
    IN  [i \in 1..calculateFullDayLegCount(w, base) |->
            LegOf(base + DayL * (i - 1), base + DayL * (i - 1), base + DayL * i)]

(* arrival and drive are 0 when the flight is not known. *)
generateAirportPickupLegs(r, w) ==
    LET from == (IF r.arrival = 0 THEN w.start ELSE r.arrival) + 40
    IN  <<LegOf(w.start, from, from + ((IF r.drive = 0 THEN 120 ELSE r.drive) * 12) \div 10)>>

generateLegs(r, w) ==
    CASE r.type = "DAY"            -> generateDayLegs(r, w)
      [] r.type = "NIGHT"          -> generateNightLegs(w)
      [] r.type = "FULL_DAY"       -> generateFullDayLegs(r, w)
      [] r.type = "AIRPORT_PICKUP" -> generateAirportPickupLegs(r, w)

-----------------------------------------------------------------------------
(* BookingValidationService.validateDates *)

validateAirportPickupAdvanceNotice(r, w) == w.start >= r.now + HourL

isTimeWithinWindow(r, t, from, to) == LocalTime(r, t) >= from /\ LocalTime(r, t) <= to

validateBookingTypeStartWindow(r, w) ==
    /\ r.type = "DAY" => isTimeWithinWindow(r, w.start, 7 * HourL, 11 * HourL)
    /\ r.type = "FULL_DAY" => isTimeWithinWindow(r, w.start, 6 * HourL, 23 * HourL)

isAfterSameDayCutoff(r) == LocalTime(r, r.now) > SameDayCutoff

validateNonAirportDates(r, w) ==
    /\ w.start >= r.now
    /\ validateBookingTypeStartWindow(r, w)
    /\ ~(/\ r.type = "DAY" /\ LocalDay(r, w.start) = LocalDay(r, r.now)
         /\ isAfterSameDayCutoff(r))

validateDates(r, w) ==
    /\ w.end > w.start
    /\ IF r.type = "AIRPORT_PICKUP"
       THEN validateAirportPickupAdvanceNotice(r, w)
       ELSE validateNonAirportDates(r, w)

-----------------------------------------------------------------------------
Unanswered == [accepted |-> FALSE, window |-> [start |-> 0, end |-> 0], legs |-> <<>>]

LInit == lreq \in LRequests /\ lans = Unanswered

(* normalizeInput, validateDates and generateLegs, as a creation does them. *)
createLegs ==
    /\ lans = Unanswered
    /\ LET w == normalizeBookingTimeWindow(lreq)
       IN  lans' = [accepted |-> validateDates(lreq, w), window |-> w,
                    legs |-> generateLegs(lreq, w)]
    /\ UNCHANGED lreq

LNext == createLegs

LSpec == LInit /\ [][LNext]_lvars

-----------------------------------------------------------------------------
(* The window and the legs of every answered request are well formed: a    *)
(* leg ends after it starts and an accepted window is not empty            *)
(* (normalizeBookingTimeWindow, BookingLegService.generateLegs).           *)
LTypeOK ==
    /\ \A i \in DOMAIN lans.legs : lans.legs[i].start < lans.legs[i].end
    /\ lans.accepted => lans.legs # <<>> /\ lans.window.start < lans.window.end

DaysAsked(r) ==
    LET diff == LocalDay(r, r.end) - LocalDay(r, r.start)
    IN  CASE r.type = "AIRPORT_PICKUP" -> 1
          [] r.type = "DAY"            -> diff + 1
          [] OTHER                     -> Larger(1, diff)

(* An accepted booking is priced for the days or nights the customer named *)
(* in local dates, and calculateLegCount, "the single source of truth" of  *)
(* the agent's estimates, gives the number of legs BookingLegService cuts, *)
(* in every zone of the process.                                           *)
PaysTheDaysAsked ==
    lans.accepted =>
        /\ Len(lans.legs) = DaysAsked(lreq)
        /\ Len(lans.legs) = calculateLegCount(lreq.type, lans.window)

(* The legs follow one another without overlap and span the booked window, *)
(* shifted by the zone of the process: local hours make the window and UTC *)
(* hours the legs.  In UTC the legs are exactly inside the window.         *)
LegsSpanWindow ==
    lans.accepted /\ lreq.type # "AIRPORT_PICKUP" =>
        /\ lans.legs[1].start = lans.window.start + lreq.zone
        /\ lans.legs[Len(lans.legs)].end = lans.window.end + lreq.zone
        /\ \A i \in 1..(Len(lans.legs) - 1) : lans.legs[i].end <= lans.legs[i + 1].start

(* In Lagos, where the service runs, the booking agent's estimate counts   *)
(* the legs of the booking it leads to, although it hands calculateLegCount *)
(* the two dates at midnight and not the normalised window.                *)
EstimateCountsLegs ==
    lans.accepted /\ lreq.zone = 60 => resolveEstimatedQuantity(lreq) = Len(lans.legs)

(* No leg of an accepted booking starts before the moment of the booking.  *)
AcceptedIsAhead ==
    lans.accepted => \A i \in DOMAIN lans.legs : lans.legs[i].start >= lreq.now

(***************************************************************************)
(* The legs of an accepted booking are the days or nights the customer     *)
(* named, ahead of him, one after the other, and as many as he was told,   *)
(* in the zone the service runs in and in the one its tests run in         *)
(* (BookingLegService, BookingValidationService).                          *)
(***************************************************************************)
LegsRight ==
    /\ LTypeOK /\ PaysTheDaysAsked /\ LegsSpanWindow
    /\ EstimateCountsLegs /\ AcceptedIsAhead

=============================================================================
