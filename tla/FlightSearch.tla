---------------------------- MODULE FlightSearch ----------------------------
(***************************************************************************)
(* Finding the flight of an airport pickup (FlightAwareService): the live  *)
(* or the schedules API, the airline's other code when the first is not    *)
(* known, and a cache in front.  Time is counted in hours UTC; the city is *)
(* one hour ahead.  Two searches within the hour share a cached answer.    *)
(***************************************************************************)
EXTENDS Integers, Sequences, SequencesExt

CONSTANTS
    SDay,       \* the pickup date, as a number of days
    SLegs,      \* the flight's legs in FlightAware's order: arr, dest
    SHours,     \* instants of searches
    HasIcao     \* whether IATA_TO_ICAO_MAP has the airline

ASSUME SAssumption ==
    /\ SDay \in Nat \ {0} /\ SHours \subseteq Nat /\ HasIcao \in BOOLEAN
    /\ SLegs \in Seq([arr: Nat, dest: STRING])

VARIABLES
    hour,     \* the present
    cached,   \* the cache entry of flight and date
    reply,    \* the last answer
    known     \* whether FlightAware answered one of the requests for it

svars == <<hour, cached, reply, known>>

SNone     == [type |-> "none"]
NotFound  == [type |-> "notFound"]
ApiError  == [type |-> "error"]
NoEntry   == [data |-> SNone, set |-> 0]

Found(leg, isLive) == [type |-> "success", leg |-> leg, isLive |-> isLive]
SAnswers ==
    {SNone, NotFound, ApiError, [type |-> "alreadyLanded"], [type |-> "unsupported"]}
        \cup {Found(l, v) : l \in Range(SLegs), v \in BOOLEAN}

(* A search answers with a flight, with not found or with a refusal        *)
(* (flightaware.service.ts).                                               *)
STypeOK ==
    /\ hour \in SHours /\ reply \in SAnswers /\ known \in BOOLEAN
    /\ cached \in [data: {SNone, NotFound} \cup {Found(l, v) : l \in Range(SLegs), v \in BOOLEAN},
                   set: SHours \cup {0}]

SInit == hour \in SHours /\ cached = NoEntry /\ reply = SNone /\ known = FALSE

-----------------------------------------------------------------------------
(* The calendar day in UTC. *)
toUtcDateString(h) == h \div 24

(* The calendar day in Lagos. *)
toLocaleDateString(h) == (h + 1) \div 24

getPickupSearchWindow == [start |-> 24 * SDay - 12, end |-> 24 * SDay + 36]

(* differenceInDays cuts off the fraction. *)
useLiveAPI(now) == getPickupSearchWindow.start - now < 48

cappedEndDate(now) ==
    IF getPickupSearchWindow.end < now + 48 THEN getPickupSearchWindow.end ELSE now + 48

(* FlightAware's answer: the positions of the legs that arrive in the      *)
(* window.                                                                 *)
Between(from, to) == {i \in DOMAIN SLegs : SLegs[i].arr >= from /\ SLegs[i].arr <= to}

OfDay(legs) == {i \in legs : toLocaleDateString(SLegs[i].arr) = SDay}

(* The first leg of the day that has not landed; else, whether one of the   *)
(* supported destinations has.                                              *)
findMatchingFlight(legs, now) ==
    LET ahead  == {i \in OfDay(legs) : SLegs[i].arr >= now}
        landed == OfDay(legs) \ ahead
    IN  CASE ahead # {} -> Found(SLegs[Min(ahead)], TRUE)
          [] ahead = {} /\ landed # {} /\ SLegs[Max(landed)].dest = "LOS" ->
                 [type |-> "alreadyLanded"]
          [] OTHER -> NotFound

(* The schedules do not filter by day: the first leg of the three dates. *)
findScheduledFlight(legs) == IF legs = {} THEN NotFound ELSE Found(SLegs[Min(legs)], FALSE)

(* One request; the API may not know the number, or fail. *)
handleApiError(outcome, result) ==
    CASE outcome = "ok" -> result
      [] outcome = "notFound" -> NotFound
      [] outcome = "error" -> ApiError

(* Both fetches ask again with the ICAO code after a "not found". *)
FirstOrSecond(result, first, second) ==
    LET tried == handleApiError(first, result)
    IN  IF tried # NotFound \/ ~HasIcao THEN tried ELSE handleApiError(second, result)

fetchLiveFlight(now, first, second) ==
    FirstOrSecond(findMatchingFlight(Between(getPickupSearchWindow.start, cappedEndDate(now)), now),
                  first, second)

fetchScheduledFlight(first, second) ==
    FirstOrSecond(findScheduledFlight(Between(getPickupSearchWindow.start, getPickupSearchWindow.end)),
                  first, second)

(* Landed flights and errors are not cached. *)
Cacheable(result) == result.type \in {"success", "notFound"}

(* Whether a flight may be picked up: only in Lagos. *)
searchAirportPickupFlight(result) ==
    IF result.type = "success" /\ result.leg.dest # "LOS"
    THEN [type |-> "unsupported"] ELSE result

validateFlight(first, second) ==
    LET hit    == cached.data # SNone
        result == IF hit THEN cached.data
                  ELSE IF useLiveAPI(hour) THEN fetchLiveFlight(hour, first, second)
                       ELSE fetchScheduledFlight(first, second)
    IN  /\ reply' = searchAirportPickupFlight(result)
        /\ known' = IF hit THEN known ELSE first = "ok" \/ (HasIcao /\ second = "ok")
        /\ cached' \in IF ~hit /\ Cacheable(result)
                       THEN {cached, [data |-> result, set |-> hour]}  \* Redis may fail
                       ELSE {cached}
        /\ UNCHANGED hour

(* Only what came from the schedules outlives the hour. *)
Expires(now) ==
    /\ cached.data.type = "success" /\ ~cached.data.isLive
    /\ now < cached.set + 24

timePasses(h) ==
    /\ h > hour /\ hour' = h
    /\ cached' = IF Expires(h) THEN cached ELSE NoEntry
    /\ reply' = SNone /\ UNCHANGED known

SNext ==
    \/ \E first, second \in {"ok", "notFound", "error"} : validateFlight(first, second)
    \/ \E h \in SHours : timePasses(h)

SSpec == SInit /\ [][SNext]_svars

-----------------------------------------------------------------------------
(***************************************************************************)
(* A flight is offered for pickup only before it lands, also when the      *)
(* answer was cached up to a day ago.                                      *)
(***************************************************************************)
OfferedFlightIsAhead == reply.type = "success" => reply.leg.arr >= hour

(***************************************************************************)
(* The live search offers the flight of the pickup date as the city counts *)
(* it, not as UTC does.                                                    *)
(***************************************************************************)
LiveFlightIsOfThatDay ==
    reply.type = "success" /\ reply.isLive =>
        reply.leg.arr \in 24 * SDay - 1 .. 24 * SDay + 22

(***************************************************************************)
(* A flight is called unknown only when FlightAware, asked by either of    *)
(* its numbers, has none of that day ahead.  The live search is cut off    *)
(* two days from now, although it starts when the window begins within two *)
(* days: a later leg of the day is beyond its reach.                       *)
(***************************************************************************)
NotFoundIsTrue ==
    reply = NotFound /\ known =>
        \A l \in Range(SLegs) :
            toLocaleDateString(l.arr) = SDay => l.arr < hour \/ l.arr > hour + 48

(***************************************************************************)
(* What the search says of a flight is true when it is said, from the      *)
(* cache too: an offered flight is ahead and of the day asked for in local *)
(* time, and an unknown one is not there (searchAirportPickupFlight).      *)
(***************************************************************************)
AnswersTrue == STypeOK /\ OfferedFlightIsAhead /\ LiveFlightIsOfThatDay /\ NotFoundIsTrue

=============================================================================
