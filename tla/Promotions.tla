----------------------------- MODULE Promotions -----------------------------
(***************************************************************************)
(* Promotions of one owner's cars (PromotionService).  Days are numbered;  *)
(* a promotion is asked for by its first and last day and stored as        *)
(* [start, end).                                                           *)
(***************************************************************************)
EXTENDS Integers, Sequences, FiniteSets, FiniteSetsExt

CONSTANTS
    OwnedCars,    \* the cars of the owner
    PromoAsks,    \* what may be asked: car or "fleet", first, last, percent
    Owners,       \* requests to create a promotion
    PromoDays     \* the days bookings and searches look at

ASSUME MAssumption ==
    /\ \A i \in PromoAsks : {i.first, i.last, i.percent} \subseteq Int
    /\ "fleet" \notin OwnedCars /\ PromoDays \subseteq Int

VARIABLES
    promo,        \* Promotion rows
    making        \* per request: how far createPromotion has come

mvars == <<promo, making>>

MIN_PROMOTION_PERCENTAGE == 1
MAX_PROMOTION_PERCENTAGE == 50

MInit == promo = {} /\ making = [o \in Owners |-> [pc |-> "idle"]]

-----------------------------------------------------------------------------

(* The day after the last one is the first without the promotion. *)
toPromotionWindowExclusive(i) == [start |-> i.first, end |-> i.last + 1]

overlapWhere(p, w)   == p.active /\ p.start < w.end /\ p.end > w.start
activeAtWhere(p, at) == p.active /\ p.start <= at /\ p.end > at

Valid(i) ==
    LET w == toPromotionWindowExclusive(i)
    IN  /\ w.end > w.start
        /\ i.percent \in MIN_PROMOTION_PERCENTAGE..MAX_PROMOTION_PERCENTAGE

(* pg_advisory_xact_lock on the owner and the scope: held from the check   *)
(* to the commit of the request that has it.                               *)
LockIgnored(o) == TRUE

acquirePromotionScopeTransactionLock(o) ==
    \A q \in Owners : making[q].pc = "checked" => making[q].ask.car # making[o].ask.car

requestPromotion(o, i) ==
    /\ making[o].pc = "idle"
    /\ making' = [making EXCEPT ![o] = [pc |-> IF Valid(i) THEN "asked" ELSE "refused", ask |-> i]]
    /\ UNCHANGED promo

checkOverlap(o) ==
    LET i == making[o].ask
    IN  /\ making[o].pc = "asked" /\ acquirePromotionScopeTransactionLock(o)
        /\ making' = [making EXCEPT ![o].pc =
              IF \/ i.car \notin OwnedCars \cup {"fleet"}
                 \/ \E p \in promo : p.car = i.car /\ overlapWhere(p, toPromotionWindowExclusive(i))
              THEN "refused" ELSE "checked"]
        /\ UNCHANGED promo

(* The insert commits.  Rows are numbered in the order of createdAt. *)
createPromotion(o) ==
    LET i == making[o].ask
        w == toPromotionWindowExclusive(i)
    IN  /\ making[o].pc = "checked"
        /\ promo' = promo \cup {[id |-> Cardinality(promo) + 1, car |-> i.car, start |-> w.start,
                                 end |-> w.end, percent |-> i.percent, active |-> TRUE]}
        /\ making' = [making EXCEPT ![o].pc = "made"]

deactivatePromotion(p) ==
    /\ p.active
    /\ promo' = (promo \ {p}) \cup {[p EXCEPT !.active = FALSE]}
    /\ UNCHANGED making

MNext ==
    \/ \E o \in Owners : \/ checkOverlap(o) \/ createPromotion(o)
                         \/ \E i \in PromoAsks : requestPromotion(o, i)
    \/ \E p \in promo : deactivatePromotion(p)

MSpec == MInit /\ [][MNext]_mvars

-----------------------------------------------------------------------------
(* Lookups.  NoneP is null. *)

NoneP == [id |-> 0]
LatestOf(ps) == CHOOSE p \in ps : \A q \in ps : q.id <= p.id

(* getActivePromotionForCar without an amount: the latest of the car's     *)
(* promotions, or of the fleet's.                                          *)
getActivePromotionForCar(car, at) ==
    LET live == {p \in promo : activeAtWhere(p, at) /\ p.car \in {car, "fleet"}}
        own  == {p \in live : p.car = car}
    IN  IF live = {} THEN NoneP ELSE LatestOf(IF own # {} THEN own ELSE live)

incomingBeatsExistingForSameScope(old, new) ==
    new.percent > old.percent \/ (new.percent = old.percent /\ new.id > old.id)

(* Per scope the largest discount, the latest of equal ones. *)
buildOwnerScopePromotionLookup(at, scope) ==
    LET live == {p \in promo : activeAtWhere(p, at) /\ p.car = scope}
    IN  IF live = {} THEN NoneP
        ELSE CHOOSE p \in live : \A q \in live \ {p} : incomingBeatsExistingForSameScope(q, p)

getActivePromotionsForCars(car, at) ==
    LET own == buildOwnerScopePromotionLookup(at, car)
    IN  IF own # NoneP THEN own ELSE buildOwnerScopePromotionLookup(at, "fleet")

(* getOverlappingPromotionsForCar, for a leg within one day. *)
getOverlappingPromotionsForCar(car, at) ==
    {p \in promo : overlapWhere(p, [start |-> at, end |-> at + 1]) /\ p.car \in {car, "fleet"}}

-----------------------------------------------------------------------------
(* Every stored promotion has a window that is not empty and a percentage  *)
(* within the limits (PromotionService.createPromotion).                   *)
MTypeOK ==
    /\ \A p \in promo : /\ p.car \in OwnedCars \cup {"fleet"} /\ p.start < p.end
                        /\ p.percent \in MIN_PROMOTION_PERCENTAGE..MAX_PROMOTION_PERCENTAGE
    /\ \A o \in Owners : making[o].pc \in {"idle", "asked", "checked", "refused", "made"}

(***************************************************************************)
(* Active promotions of one scope never overlap, although two requests may *)
(* create them at once: "overlap checks and insert cannot race"            *)
(* (createPromotion).                                                      *)
(***************************************************************************)
PromotionsApart ==
    \A p, q \in promo : p # q /\ p.active /\ q.active /\ p.car = q.car =>
        p.end <= q.start \/ q.end <= p.start

(***************************************************************************)
(* The badge of a car's page, the badge in the search results and the      *)
(* promotion that a leg of that day is priced with are the same one: three *)
(* lookups with three tie rules that agree because promotions of a scope   *)
(* are kept apart, with the car's before the fleet's.                      *)
(***************************************************************************)
LookupsAgree ==
    \A car \in OwnedCars, at \in PromoDays :
        LET one == getActivePromotionForCar(car, at)
            ps  == getOverlappingPromotionsForCar(car, at)
            own == {p \in ps : p.car = car}
        IN  /\ one = getActivePromotionsForCars(car, at)
            /\ IF ps = {} THEN one = NoneP
               ELSE (IF own # {} THEN own ELSE ps) = {one}

(***************************************************************************)
(* A promotion that was created holds on each of the days it was asked     *)
(* for, the last one included, and on no other                             *)
(* (toPromotionWindowExclusive).                                           *)
(***************************************************************************)
HoldsOnTheDaysAsked ==
    \A o \in Owners : making[o].pc = "made" =>
        \E p \in promo : /\ p.car = making[o].ask.car /\ p.percent = making[o].ask.percent
                         /\ \A d \in PromoDays : (p.start <= d /\ d < p.end)
                                <=> d \in making[o].ask.first..making[o].ask.last

(***************************************************************************)
(* Promotions created at the same time stay apart, so that the three       *)
(* lookups with their three tie rules agree, and each holds on the days it *)
(* was asked for (createPromotion, getActivePromotionsForCars).            *)
(***************************************************************************)
PromotionsSound == MTypeOK /\ PromotionsApart /\ LookupsAgree /\ HoldsOnTheDaysAsked

=============================================================================
