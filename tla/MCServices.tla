----------------------------- MODULE MCServices -----------------------------
(***************************************************************************)
(* The services around the booking, for TLC.  They share no state here, so *)
(* each behaviour is a behaviour of one of them, chosen at the start; the  *)
(* others rest in a state in which they have nothing to do.                *)
(***************************************************************************)
EXTENDS NotificationOutbox, NotificationDelivery, FlightAlert,
        FlightTracking, FlightSearch, Referral, BookingEdit, BookingLegs,
        BookingPrice, Rates, Promotions, AgentInbox, AgentOutbox,
        AgentConversation, TLC

CONSTANTS r1, r2, r3, f1, o1, g0, g1, g2, g3, g4, ua, ub, uc, m3, m4

VARIABLE part

MCFanout == <<r2, r3>>

(* Two processes race for one row, with all the faults; or a fan-out of two *)
(* events is interrupted once.                                              *)
OutboxStarts ==
    NInitWith(NMaxCalls, 0, NRows \ {r1}) \/ NInitWith(0, NMaxFaults - 1, {r1})

OutboxRests == NInitWith(NMaxCalls, NMaxFaults, NRows)

DeliveryRests == DInitWith(buildReferralRewardReleasedJobData, "completed", {})

MCPickups == <<f1>>
MCCarOf   == [b \in {f1, o1} |-> "car"]

Payload(code, est, act, gate, cancelled) ==
    [code |-> code, est |-> est, act |-> act, gate |-> gate, cancelled |-> cancelled]

MCPayloads ==
    {Payload("change", 26, 0, "A1", "absent"), Payload("departure", 40, 0, "absent", "absent"),
     Payload("cancelled", 0, 0, "absent", "true"), Payload("change", 0, 0, "absent", "false"),
     Payload("arrival", 0, 31, "absent", "absent"), Payload("diverted", 0, 0, "absent", "absent")}

Leg(arr, dest) == [arr |-> arr, dest |-> dest]
MCLegs == <<Leg(95, "LOS"), Leg(80, "LOS"), Leg(104, "ABV"), Leg(110, "LOS"), Leg(119, "LOS")>>

SearchRests == SInit /\ hour = 120

MCUser == g0 :> uc @@ g1 :> ua @@ g2 :> ua @@ g3 :> ub @@ g4 :> ub

(* The referred customer books twice, or the referrer does. *)
ReferralStarts == GInitWith(g0, {g4}) \/ GInitWith(g0, {g2})



LReq(type, zone, from, hours, pickup, now, arrival, drive) ==
    [type |-> type, zone |-> zone, start |-> HourL * from, end |-> HourL * (from + hours),
     pickup |-> pickup, now |-> HourL * now, arrival |-> HourL * arrival, drive |-> drive]

Clock12(h, pm) == [hour |-> h, pm |-> pm]

MCLRequests ==
    {LReq(t, z, s, h, p, n, 0, 0) : t \in {"DAY", "NIGHT", "FULL_DAY"}, z \in {0, 60},
        s \in {72, 79, 95}, h \in {2, 25, 48}, n \in {60, 84},
        p \in {Clock12(12, FALSE), Clock12(6, FALSE), Clock12(11, FALSE), Clock12(12, TRUE),
               Clock12(11, TRUE)}}
    \cup {LReq("AIRPORT_PICKUP", 60, s, 3, Clock12(9, FALSE), n, a, a) :
            s \in {72, 79}, n \in {71, 79}, a \in {0, 80}}

LegsRest == lreq = LReq("NIGHT", 0, 72, 2, Clock12(6, FALSE), 60, 0, 0) /\ lans = Unanswered

PromoRow(id, car, from, to, percent, active) ==
    [id |-> id, car |-> car, start |-> from, end |-> to, percent |-> percent, active |-> active]

MCPromos ==
    {{}, {PromoRow(1, "fleet", 0, 20, 10, TRUE)},
     {PromoRow(3, "car", 12, 20, 50, TRUE), PromoRow(2, "car", 10, 12, 30, FALSE),
       PromoRow(1, "fleet", 0, 40, 20, TRUE)},
     {PromoRow(4, "car", 20, 24, 10, TRUE), PromoRow(3, "fleet", 0, 24, 50, TRUE),
       PromoRow(2, "other", 0, 40, 50, TRUE), PromoRow(1, "car", 0, 20, 30, TRUE)},
     {PromoRow(3, "fleet", 36, 40, 10, TRUE), PromoRow(2, "fleet", 9, 36, 20, TRUE),
       PromoRow(1, "fleet", 0, 9, 50, TRUE)}}

MCAsk(n, t, ps, s, c, b, d, o) ==
    [type |-> t, promos |-> ps, outage |-> o, security |-> s, fullTank |-> TRUE,
     legs |-> [i \in 1..n |-> [start |-> 12 * i - 4, end |-> 12 * i]],
     car |-> [id |-> "car", rates |-> [DAY |-> 1000, FULL_DAY |-> 10000], fuel |-> 2000,
              fuelled |-> FALSE],
     credits |-> 1000 * c, balance |-> 1000 * b, referral |-> 1000 * d]

MCQuotes ==
    {MCAsk(n, t, ps, s, c, b, d, o) : n \in 1..3, t \in {"DAY", "FULL_DAY"}, ps \in MCPromos,
        s \in BOOLEAN, c \in {0, 40}, b \in {0, 3}, d \in {0, 30}, o \in BOOLEAN}

MCPRates == [fee |-> 10, commission |-> 20, vat |-> 10, security |-> 3000]

PriceRests == pask = MCAsk(1, "DAY", {}, FALSE, 0, 0, 0, FALSE) /\ pans = Unpriced

MCNewRates == {[kind |-> "security", since |-> 2, until |-> Forever, val |-> 2]}

Ask(car, first, last, percent) ==
    [car |-> car, first |-> first, last |-> last, percent |-> percent]
MCAsks ==
    {Ask("fleet", 1, 2, 10), Ask("car", 2, 3, 20), Ask("car", 3, 4, 10), Ask("car", 3, 1, 10),
     Ask("fleet", 3, 4, 60), Ask("other", 1, 1, 10)}

MCBodies == {m3 :> k @@ m4 :> "text" : k \in {"text", "media", "audio", "reset", "handoff"}}

(* Two messages without a fault; at one instant with two faults; the ones *)
(* the graph does not answer; and a conversation that has fallen silent.  *)
InboxStarts ==
    \/ IInitWith(0, 0, {}) /\ body[m3] = "text"
    \/ IInitWith(IMaxTime, 2, {}) /\ body[m3] \in {"text", "reset"}
    \/ IInitWith(IMaxTime, 0, {}) /\ body[m3] \in {"media", "audio", "handoff"}
    \/ IInitWith(IMaxTime, 1, {m4})

InboxRests == IInitWith(0, 0, {}) /\ body[m3] = "text"

ReplyRests == OInit /\ content = "text"

MCVerdicts == <<{"valid"}, {"invalid", "plain", "valid"}>>
MCPreviewExtra == <<0, 1>>
MCPatches == {("dates" :> 1) @@ ("pickup" :> 1), "dates" :> 2, "pickup" :> 2, "dropoff" :> 2,
              "dropoff" :> 0, "pickup" :> 0}

(* A conversation that has been shown the fleet, and one that has chosen. *)
Presented(d) ==
    LET all == {[car |-> c, price |-> 1, dates |-> d, pickup |-> 11] : c \in Fleet}
    IN  [createInitialState EXCEPT
            !.draft = [NoDraft EXCEPT !["dates"] = d, !["pickup"] = 11, !["dropoff"] = 11],
            !.checked = [a \in AddressFields |-> "valid"], !.stage = "presenting_options",
            !.available = all, !.shown = all]

Chosen(d) ==
    [Presented(d) EXCEPT !.stage = "confirming", !.draft["wants"] = 1,
                         !.selected = [car |-> 1, price |-> 1, dates |-> d, pickup |-> 11]]

(* Two messages undisturbed, at three points; one with two disturbances. *)
TalkStarts ==
    \/ \E s \in {createInitialState, Presented(1), Chosen(2)} : CInitWith(s, 0, 0)
    \/ CInitWith(Chosen(1), 1, MaxSlips)

-----------------------------------------------------------------------------
allvars == <<part, nvars, rvars, dvars, avars, tvars, svars, gvars, evars,
             lvars, quoteVars, rateVars, mvars, ivars, ovars, cvars>>

Parts == {"outbox", "routing", "delivery", "alert", "tracking", "search",
          "referral", "edit", "legs", "price", "rates", "promotions",
          "inbox", "reply", "conversation"}

MCInit ==
    /\ part \in Parts
    /\ IF part = "outbox" THEN OutboxStarts ELSE OutboxRests
    /\ RInit
    /\ IF part = "delivery" THEN DInit ELSE DeliveryRests
    /\ IF part = "alert" THEN AInit ELSE AProvisioned
    /\ TInit
    /\ IF part = "search" THEN SInit ELSE SearchRests
    /\ IF part = "referral" THEN ReferralStarts ELSE GInitWith(g0, GBookings)
    /\ EInit
    /\ IF part = "legs" THEN LInit ELSE LegsRest
    /\ IF part = "price" THEN QuoteInit ELSE PriceRests
    /\ RateInit
    /\ MInit
    /\ IF part = "inbox" THEN InboxStarts ELSE InboxRests
    /\ IF part = "reply" THEN OInit ELSE ReplyRests
    /\ IF part = "conversation" THEN TalkStarts ELSE CInitWith(createInitialState, 0, 0)

(* Every part but p stands still. *)
OthersStill(p) ==
    /\ IF p = "outbox" THEN TRUE ELSE UNCHANGED nvars
    /\ IF p = "routing" THEN TRUE ELSE UNCHANGED rvars
    /\ IF p = "delivery" THEN TRUE ELSE UNCHANGED dvars
    /\ IF p = "alert" THEN TRUE ELSE UNCHANGED avars
    /\ IF p = "tracking" THEN TRUE ELSE UNCHANGED tvars
    /\ IF p = "search" THEN TRUE ELSE UNCHANGED svars
    /\ IF p = "referral" THEN TRUE ELSE UNCHANGED gvars
    /\ IF p = "edit" THEN TRUE ELSE UNCHANGED evars
    /\ IF p = "legs" THEN TRUE ELSE UNCHANGED lvars
    /\ IF p = "price" THEN TRUE ELSE UNCHANGED quoteVars
    /\ IF p = "rates" THEN TRUE ELSE UNCHANGED rateVars
    /\ IF p = "promotions" THEN TRUE ELSE UNCHANGED mvars
    /\ IF p = "inbox" THEN TRUE ELSE UNCHANGED ivars
    /\ IF p = "reply" THEN TRUE ELSE UNCHANGED ovars
    /\ IF p = "conversation" THEN TRUE ELSE UNCHANGED cvars

MCNext ==
    /\ UNCHANGED part
    /\ \/ part = "outbox" /\ NNext /\ OthersStill("outbox")
       \/ part = "routing" /\ RNext /\ OthersStill("routing")
       \/ part = "delivery" /\ DNext /\ OthersStill("delivery")
       \/ part = "alert" /\ ANext /\ OthersStill("alert")
       \/ part = "tracking" /\ TNext /\ OthersStill("tracking")
       \/ part = "search" /\ SNext /\ OthersStill("search")
       \/ part = "referral" /\ GNext /\ OthersStill("referral")
       \/ part = "edit" /\ ENext /\ OthersStill("edit")
       \/ part = "legs" /\ LNext /\ OthersStill("legs")
       \/ part = "price" /\ QuoteNext /\ OthersStill("price")
       \/ part = "rates" /\ RateNext /\ OthersStill("rates")
       \/ part = "promotions" /\ MNext /\ OthersStill("promotions")
       \/ part = "inbox" /\ INext /\ OthersStill("inbox")
       \/ part = "reply" /\ ONext /\ OthersStill("reply")
       \/ part = "conversation" /\ CNext /\ OthersStill("conversation")

MCSpec ==
    /\ MCInit /\ [][MCNext]_allvars
    /\ NFairness /\ DFairness /\ AFairness

(* A webhook that finds the car's next booking too close. *)
ConflictSpec ==
    /\ MCInit /\ part = "routing"
    /\ [][part = "routing" /\ routeFlightChange(TRUE) /\ OthersStill("routing")
            /\ UNCHANGED part]_allvars

(* A customer with two checkouts. *)
ReferralSpec ==
    /\ MCInit /\ part = "referral"
    /\ [][part = "referral" /\ GNext /\ OthersStill("referral") /\ UNCHANGED part]_allvars

(***************************************************************************)
(* What must end ends, under the fairness of each part: a notification row *)
(* is handed to the queue or given up and a fan-out completed by its       *)
(* caller's retry, a queued notification is delivered or given up, and a   *)
(* paid flight gets its alert while the cron has buckets left              *)
(* (processPendingEvents, process, reconcileMissingAlerts).                *)
(***************************************************************************)
ServicesSettle == RowsSettle /\ FanoutCompletes /\ JobEnds /\ AlertArrives

=============================================================================
