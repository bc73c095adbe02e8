---------------------------- MODULE BookingPrice ----------------------------
(***************************************************************************)
(* The price of a booking: the promotion of each leg, add-ons, fees,       *)
(* discounts, VAT, the owner's share, and the preview shown to customers.  *)
(*                                                                         *)
(* Amounts are integers in a unit so small that every percentage of them   *)
(* is a whole number, as Decimal is exact; Naira is 1 in that unit.        *)
(* Percentages are whole.  A promotion window is [start, end).             *)
(***************************************************************************)
EXTENDS Integers, Sequences, FiniteSetsExt

CONSTANTS
    Naira,         \* 1 naira, in units
    PQuotes,       \* what is asked: type, legs, car, promotions, add-ons, credits, referral
    PRates,        \* the platform's rates: fee, commission, vat (percent), security
    MaxFuelLegs    \* MAX_LEGS_FOR_FUEL_UPGRADE

(* The legs are those of BookingLegs; a rate is a positive number of naira  *)
(* and amounts are never negative (create-car.dto.ts, rates.service.ts);    *)
(* no two promotions are created at the same time.                          *)
ASSUME PriceAssumption ==
    /\ Naira \in Nat \ {0} /\ MaxFuelLegs \in Nat
    /\ PRates \in [fee: Nat, commission: Nat, vat: Nat, security: Nat]
    /\ \A q \in PQuotes :
          /\ Len(q.legs) \in Nat \ {0} /\ DOMAIN q.legs = 1..Len(q.legs)
          /\ \A i \in DOMAIN q.legs : /\ q.legs[i].start \in Int /\ q.legs[i].end \in Int
                                      /\ q.legs[i].start < q.legs[i].end
          /\ q.car.rates[q.type] \in Nat /\ q.car.rates[q.type] >= Naira
          /\ q.car.rates[q.type] % 100 = 0
          /\ q.car.fuel \in Nat /\ q.credits \in Nat /\ q.balance \in Nat /\ q.referral \in Nat
          /\ IsFiniteSet(q.promos)
          /\ \A p \in q.promos : /\ p.id \in Nat \ {0} /\ p.percent \in Nat
                                 /\ p.start \in Int /\ p.end \in Int
          /\ \A p, o \in q.promos : p.id = o.id => p = o

VARIABLES
    pask,          \* the request
    pans           \* the answer: the financials and the preview made of them

quoteVars == <<pask, pans>>

NoPromo == [id |-> 0]

Percent(x, p) == (x * p) \div 100
AtLeast(a, b) == IF a >= b THEN a ELSE b
AtMost(a, b)  == IF a <= b THEN a ELSE b
SumOf(f)      == MapThenSumSet(LAMBDA i : f[i], DOMAIN f)

-----------------------------------------------------------------------------
(* PromotionService *)

intervalsOverlap(a, b) == a.start < b.end /\ a.end > b.start

(* Car-specific promotions hide the ones of the whole fleet. *)
getSelectionCandidates(promos, car) ==
    LET own == {p \in promos : p.car = car}
    IN  IF own # {} THEN own ELSE {p \in promos : p.car = "fleet"}

computeDiscountAmount(p, rate) == Percent(rate, p.percent)

(* The larger discount; of equal ones the one created last. *)
Beats(p, best, rate) ==
    \/ computeDiscountAmount(p, rate) > computeDiscountAmount(best, rate)
    \/ /\ computeDiscountAmount(p, rate) = computeDiscountAmount(best, rate)
       /\ p.id > best.id

chooseBestPromotion(cands, rate) ==
    IF cands = {} THEN NoPromo
    ELSE CHOOSE p \in cands : \A best \in cands \ {p} : Beats(p, best, rate)

resolveBestPromotionForInterval(promos, car, leg, rate) ==
    chooseBestPromotion(getSelectionCandidates({p \in promos : intervalsOverlap(p, leg)}, car), rate)

applyPromotionDiscount(rate, p) == AtLeast(Naira, rate - Percent(rate, p.percent))

-----------------------------------------------------------------------------
(* BookingCalculationService *)

getRateForBookingType(q) == q.car.rates[q.type]

getBookingWindow(legs) ==
    [start |-> Min({legs[i].start : i \in DOMAIN legs}),
     end   |-> Max({legs[i].end : i \in DOMAIN legs})]

(* The active promotions of the owner for the car or the fleet that        *)
(* overlap the window; none when the query fails or the window is empty.   *)
loadOverlappingPromotions(q) ==
    LET w == getBookingWindow(q.legs)
    IN  IF q.outage \/ w.end <= w.start THEN {}
        ELSE {p \in q.promos : /\ p.active /\ p.car \in {q.car.id, "fleet"}
                               /\ intervalsOverlap(p, w)}

calculateLegPrices(q, promos) ==
    [i \in DOMAIN q.legs |->
        LET rate == getRateForBookingType(q)
            p    == resolveBestPromotionForInterval(promos, q.car.id, q.legs[i], rate)
        IN  [base |-> rate, promo |-> p,
             price |-> IF p = NoPromo THEN rate ELSE applyPromotionDiscount(rate, p)]]

Discounted(prices) == {i \in DOMAIN prices : prices[i].promo # NoPromo}

firstPromotion(prices) ==
    IF Discounted(prices) = {} THEN NoPromo ELSE prices[Min(Discounted(prices))].promo

calculateFuelUpgradeCost(q) ==
    IF ~q.car.fuelled /\ q.fullTank /\ Len(q.legs) \in 1..MaxFuelLegs /\ q.car.fuel > 0
    THEN q.car.fuel ELSE 0

(* One naira stays to be paid through the provider. *)
applyDiscount(discount, available) ==
    IF discount <= 0 THEN 0 ELSE AtMost(discount, AtLeast(0, available - Naira))

calculateCreditsAsked(wanted, balance, remaining) ==
    AtMost(wanted, AtLeast(0, remaining - Naira))

calculateEffectiveCredits(wanted, balance, remaining) ==
    IF wanted <= 0 \/ balance <= 0 THEN 0
    ELSE AtMost(AtMost(wanted, balance), AtLeast(0, remaining - Naira))

(* The owner gets the rental and the security, less the commission. *)
fleetOwnerPayout(net, security, commission) == net + security - commission

(* The rental, the add-ons and the fee, and what the owner gets of them. *)
costBeforeDiscounts(q, prices) ==
    LET net        == SumOf([i \in DOMAIN prices |-> prices[i].price])
        security   == IF q.security THEN PRates.security * Len(q.legs) ELSE 0
        fuel       == calculateFuelUpgradeCost(q)
        commission == Percent(net, PRates.commission)
    IN  [prices |-> prices, net |-> net, applied |-> firstPromotion(prices),
         compareNet |-> SumOf([i \in DOMAIN prices |-> prices[i].base]),
         security |-> security, fuel |-> fuel, fee |-> Percent(net + fuel, PRates.fee),
         commission |-> commission, payout |-> fleetOwnerPayout(net, security, commission)]

subtotalBeforeDiscounts(c) == c.net + c.security + c.fuel + c.fee

(* The referral discount first, the credits on what it leaves, then VAT. *)
costAfterDiscounts(before, referral, wanted, balance) ==
    LET discount == applyDiscount(referral, before)
        credits  == calculateEffectiveCredits(wanted, balance, before - discount)
        after    == before - discount - credits
        vat      == Percent(after, PRates.vat)
    IN  [referral |-> discount, credits |-> credits, after |-> after, vat |-> vat,
         total |-> after + vat]

calculateBookingCost(q, referral, balance) ==
    LET c == costBeforeDiscounts(q, calculateLegPrices(q, loadOverlappingPromotions(q)))
    IN  [before |-> c,
         paid |-> costAfterDiscounts(subtotalBeforeDiscounts(c), referral, q.credits, balance)]

-----------------------------------------------------------------------------
(* BookingPricingPreviewService *)

computeCoverage(prices) ==
    LET n == Cardinality(Discounted(prices))
    IN  IF n = 0 THEN "NONE" ELSE IF n = Len(prices) THEN "FULL" ELSE "PARTIAL"

SegmentKey(l) == <<l.promo.id, l.base, l.price>>

(* One line per promotion and price. *)
buildSegments(prices) ==
    LET Grouped(k) == {i \in DOMAIN prices : SegmentKey(prices[i]) = k}
    IN  [k \in {SegmentKey(prices[i]) : i \in DOMAIN prices} |->
            LET first == prices[Min(Grouped(k))]
            IN  [promo |-> first.promo # NoPromo, units |-> Cardinality(Grouped(k)),
                 unit |-> first.price, total |-> SumOf([i \in Grouped(k) |-> prices[i].price])]]

compareAtTotal(c) ==
    LET subtotal == c.compareNet + c.security + c.fuel
                    + Percent(c.compareNet + c.fuel, PRates.fee)
    IN  subtotal + Percent(subtotal, PRates.vat)

mapFinancials(f) ==
    LET compareAt == compareAtTotal(f.before)
    IN  [segments |-> buildSegments(f.before.prices),
         coverage |-> computeCoverage(f.before.prices),
         compareAt |-> compareAt, savings |-> AtLeast(0, compareAt - f.paid.total)]

-----------------------------------------------------------------------------
Unpriced == [before |-> "none"]

QuoteInit == pask \in PQuotes /\ pans = Unpriced

(* preview: the discounts are looked up with the price before them. *)
preview ==
    /\ pans = Unpriced
    /\ LET base == calculateBookingCost(pask, 0, 0)
           f    == IF pask.referral > 0 \/ pask.balance > 0
                   THEN calculateBookingCost(pask, pask.referral, pask.balance) ELSE base
       IN  pans' = [before |-> f.before, paid |-> f.paid, shown |-> mapFinancials(f)]
    /\ UNCHANGED pask

QuoteNext == preview

QuoteSpec == QuoteInit /\ [][QuoteNext]_quoteVars

-----------------------------------------------------------------------------
Priced == pans # Unpriced

(* Every answer is a price: one price per leg, none below one naira or     *)
(* above the car's rate (PromotionService.applyPromotionDiscount).         *)
QuoteTypeOK ==
    Priced => /\ Len(pans.before.prices) = Len(pask.legs)
              /\ \A i \in DOMAIN pans.before.prices :
                    pans.before.prices[i].price \in Naira..getRateForBookingType(pask)

EligiblePromos(leg) ==
    LET live == {p \in pask.promos : p.active /\ p.car \in {pask.car.id, "fleet"}
                                     /\ intervalsOverlap(p, leg)}
        own  == {p \in live : p.car = pask.car.id}
    IN  IF own # {} THEN own ELSE live

(* A leg carries the best promotion of its own interval: of the car before *)
(* the fleet, the largest discount, the latest among equals; a leg outside *)
(* every window pays the car's rate                                        *)
(* (PromotionService.resolveBestPromotionForInterval).                     *)
BestPromotionApplied ==
    Priced /\ ~pask.outage =>
        \A i \in DOMAIN pans.before.prices :
            LET elig == EligiblePromos(pask.legs[i])
                p    == pans.before.prices[i].promo
            IN  IF elig = {}
                THEN p = NoPromo /\ pans.before.prices[i].price = getRateForBookingType(pask)
                ELSE /\ p \in elig
                     /\ \A o \in elig \ {p} : \/ o.percent < p.percent
                                              \/ o.percent = p.percent /\ o.id < p.id

(* What the customer pays before VAT is what the owner, the platform and   *)
(* the fuel get, less what the platform gave away in discounts             *)
(* (BookingCalculationService.calculateBookingCost).                       *)
MoneyConserved ==
    Priced =>
        pans.paid.total - pans.paid.vat =
            pans.before.payout + pans.before.commission + pans.before.fee + pans.before.fuel
            - pans.paid.referral - pans.paid.credits

(* However large the discounts, the provider has something to collect, and *)
(* no more credits are used than the customer has or asked for             *)
(* (MINIMUM_PAYABLE_SUBTOTAL).                                             *)
StillPayable ==
    Priced => /\ pans.paid.after >= Naira
              /\ pans.paid.credits <= AtMost(pask.credits, pask.balance)

(* The lines of the preview add up to the rental, count every leg once,    *)
(* agree with the coverage shown, and the savings shown are the difference *)
(* between the two totals shown (BookingPricingPreviewService).            *)
SegmentsAddUp ==
    Priced =>
        LET segs == pans.shown.segments
        IN  /\ SumOf([k \in DOMAIN segs |-> segs[k].total]) = pans.before.net
            /\ SumOf([k \in DOMAIN segs |-> segs[k].units]) = Len(pask.legs)
            /\ \A k \in DOMAIN segs : segs[k].total = segs[k].units * segs[k].unit
            /\ pans.shown.coverage = IF \A k \in DOMAIN segs : ~segs[k].promo THEN "NONE"
                                     ELSE IF \A k \in DOMAIN segs : segs[k].promo THEN "FULL"
                                     ELSE "PARTIAL"
            /\ pans.shown.savings = pans.shown.compareAt - pans.paid.total

(***************************************************************************)
(* A price is made of the best promotions, is shared out without loss,     *)
(* stays payable whatever the discounts, and is the sum of the lines shown *)
(* for it (calculateBookingCost, BookingPricingPreviewService).            *)
(***************************************************************************)
PriceRight ==
    /\ QuoteTypeOK /\ BestPromotionApplied /\ MoneyConserved
    /\ StillPayable /\ SegmentsAddUp

=============================================================================
