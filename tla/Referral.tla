------------------------------ MODULE Referral ------------------------------
(***************************************************************************)
(* The referral programme: the one-time discount of a referred customer,   *)
(* the reward of the referrer, and the credits the referrer spends from    *)
(* released rewards.  Prices are previewed first and a transaction later   *)
(* verifies and reserves (BookingEligibilityService); payment, failure,    *)
(* expiry, cancellation and completion decide what becomes of it           *)
(* (ReferralProcessingService).                                            *)
(*                                                                         *)
(* A transaction is a step, except that UserReferralStats are read and     *)
(* written back in two steps: at READ COMMITTED others may write between.  *)
(***************************************************************************)
EXTENDS Integers, FiniteSets, FiniteSetsExt

CONSTANTS
    GBookings,      \* bookings
    GUser,          \* the customer of each booking
    Referrer,       \* the customer who referred all the others
    RewardAmount,   \* REFERRAL_REWARD_AMOUNT
    MaxCredits      \* REFERRAL_MAX_CREDITS_PER_BOOKING

ASSUME GAssumption ==
    /\ IsFiniteSet(GBookings) /\ DOMAIN GUser = GBookings
    /\ RewardAmount \in Nat \ {0} /\ MaxCredits \in Nat

VARIABLES
    gbook,    \* Booking rows, with their ReferralReward
    gprice,   \* per booking: what the preview promised the customer
    gused,    \* users with referralDiscountUsed
    gstats,   \* UserReferralStats of the referrer
    gtx,      \* per booking: the transaction between its read and its write of gstats
    gclean    \* no counter was written between such a read and its write

gvars == <<gbook, gprice, gused, gstats, gtx, gclean>>

GUsers == {GUser[b] : b \in GBookings}
GNoTx  == [to |-> "-", seen |-> 0]

(* Rows and counters of the referral programme are of their kinds          *)
(* (referral-processing.service.ts, booking-eligibility.service.ts).         *)
GTypeOK ==
    /\ gbook \in [GBookings ->
          [status: {"NONE", "PENDING", "CONFIRMED", "COMPLETED", "CANCELLED"},
           pay: {"UNPAID", "PAID", "REFUND_PROCESSING"},
           ref: {"NONE", "RESERVED", "APPLIED", "REWARDED", "REVERSED"},
           discounted: BOOLEAN, credits: 0..MaxCredits,
           reward: {"NONE", "PENDING", "RELEASED", "REVERSED"}]]
    /\ gprice \in [GBookings -> [eligible: BOOLEAN, credits: 0..MaxCredits, shown: BOOLEAN]]
    /\ gused \subseteq GUsers
    /\ gstats \in [pending: Nat, granted: Nat]
    /\ gtx \in [GBookings -> [to: {"-", "release", "reverse"}, seen: Nat]]
    /\ gclean \in BOOLEAN

GNew == [status |-> "NONE", pay |-> "UNPAID", ref |-> "NONE", discounted |-> FALSE,
         credits |-> 0, reward |-> "NONE"]

(* The referrer has one released reward, that of booking b0, to spend; the *)
(* bookings in gone were cancelled before.                                 *)
GInitWith(b0, gone) ==
    /\ gbook = [b \in GBookings |->
                  IF b = b0 THEN [GNew EXCEPT !.status = "COMPLETED", !.pay = "PAID",
                                      !.ref = "REWARDED", !.discounted = TRUE, !.reward = "RELEASED"]
                  ELSE IF b \in gone THEN [GNew EXCEPT !.status = "CANCELLED"] ELSE GNew]
    /\ gprice = [b \in GBookings |-> [eligible |-> FALSE, credits |-> 0, shown |-> FALSE]]
    /\ gused = {GUser[b0]}
    /\ gstats = [pending |-> 0, granted |-> RewardAmount]
    /\ gtx = [b \in GBookings |-> GNoTx] /\ gclean = TRUE

-----------------------------------------------------------------------------
(* What a customer may have. *)

BookingsOf(u) == {b \in GBookings : GUser[b] = u}

(* RESERVED and unpaid is no claim: the next attempt releases it. *)
buildExistingDiscountClaimFilter(u) ==
    {b \in BookingsOf(u) :
        /\ gbook[b].status \in {"PENDING", "CONFIRMED"}
        /\ \/ gbook[b].ref \in {"APPLIED", "REWARDED"}
           \/ gbook[b].ref = "RESERVED" /\ gbook[b].pay # "UNPAID"}

checkReferralEligibilityForPricing(u) ==
    u # Referrer /\ u \notin gused /\ buildExistingDiscountClaimFilter(u) = {}

Earned == RewardAmount * Cardinality({b \in GBookings : gbook[b].reward = "RELEASED"})

Committed(u) ==
    MapThenSumSet(LAMBDA b : IF gbook[b].pay = "PAID"
                                \/ (gbook[b].pay = "UNPAID" /\ gbook[b].status # "CANCELLED")
                             THEN gbook[b].credits ELSE 0, BookingsOf(u))

getCappedReferralCreditBalance(u) ==
    IF u # Referrer THEN 0 ELSE Min({MaxCredits, Max({0, Earned - Committed(u)})})

(* The balance of the preview is trusted. *)
VerifiedCreditsStale(b) == gprice[b].credits

(* The rows are read again in the transaction. *)
VerifiedCredits(b) ==
    Min({gprice[b].credits, getCappedReferralCreditBalance(GUser[b])})

(* The user row is locked, a claim of another booking refuses this one. *)
verifyAndReserveReferralDiscount(u) ==
    u \notin gused /\ buildExistingDiscountClaimFilter(u) = {}

StaleReservations(u) ==
    {b \in BookingsOf(u) : /\ gbook[b].ref = "RESERVED" /\ gbook[b].status = "PENDING"
                           /\ gbook[b].pay = "UNPAID"}

-----------------------------------------------------------------------------
(* UserReferralStats *)

(* A counter is written while another transaction holds a value it read. *)
Overlaps(b) == \E c \in GBookings \ {b} : gtx[c].to # "-"

(* The row of booking b changes, and its transaction goes on to the counters. *)
ThenCount(b, row, to) ==
    /\ gbook' = [gbook EXCEPT ![b] = row]
    /\ gtx' = [gtx EXCEPT ![b] = [to |-> to, seen |-> gstats.pending]]

(* Both floor the pending sum at zero. *)
writeStats(b) ==
    /\ gtx[b].to # "-"
    /\ gstats' = [pending |-> Max({0, gtx[b].seen - RewardAmount}),
                  granted |-> gstats.granted
                      + IF gtx[b].to = "release" THEN RewardAmount ELSE 0]
    /\ gtx' = [gtx EXCEPT ![b] = GNoTx]
    /\ gclean' = (gclean /\ ~Overlaps(b))
    /\ UNCHANGED <<gbook, gprice, gused>>

(* releaseReferralReservation; the price stays what the customer was shown. *)
Released(row) ==
    [row EXCEPT !.ref = "REVERSED",
                !.reward = IF @ = "PENDING" THEN "REVERSED" ELSE @]

-----------------------------------------------------------------------------
(* Booking. *)

(* The configured amount, booking types and age of the sign-up may rule     *)
(* the discount out.                                                        *)
Qualifies == BOOLEAN

(* The preview, outside any transaction. *)
previewBooking(b) ==
    /\ gbook[b].status = "NONE"
    /\ \E qualifies \in Qualifies, credits \in 0..getCappedReferralCreditBalance(GUser[b]) :
          gprice' = [gprice EXCEPT ![b] =
              [eligible |-> qualifies /\ checkReferralEligibilityForPricing(GUser[b]),
               credits |-> credits, shown |-> TRUE]]
    /\ UNCHANGED <<gbook, gused, gstats, gtx, gclean>>

(* The new row, with a pending reward when it has the discount. *)
createReferralRewardIfEligible(b) ==
    [GNew EXCEPT !.status = "PENDING", !.credits = gprice[b].credits,
                 !.discounted = gprice[b].eligible,
                 !.ref = IF gprice[b].eligible THEN "RESERVED" ELSE "NONE",
                 !.reward = IF gprice[b].eligible THEN "PENDING" ELSE "NONE"]

(* The transaction of createBooking.  A discount that was promised and is   *)
(* gone, or credits that no longer suffice, make it fail.                   *)
createBooking(b) ==
    LET u     == GUser[b]
        stale == IF gprice[b].eligible THEN StaleReservations(u) ELSE {}
        lost  == RewardAmount * Cardinality({s \in stale : gbook[s].reward = "PENDING"})
    IN  /\ gbook[b].status = "NONE" /\ gprice[b].shown
        /\ gprice[b].eligible => verifyAndReserveReferralDiscount(u)
        /\ VerifiedCredits(b) = gprice[b].credits
        /\ \A s \in stale : gtx[s] = GNoTx
        /\ gbook' = [c \in GBookings |->
              CASE c = b -> createReferralRewardIfEligible(b)
                [] c \in stale -> Released(gbook[c])
                [] OTHER -> gbook[c]]
        /\ gstats' = IF gprice[b].eligible
                     THEN [gstats EXCEPT !.pending = Max({0, @ - lost}) + RewardAmount]
                     ELSE gstats
        /\ gclean' = (gclean /\ ~(gprice[b].eligible /\ Overlaps(b)))
        /\ UNCHANGED <<gprice, gused, gtx>>

(* A charge that failed gives the discount back; the link stays open. *)
releaseReferralReservation(b) ==
    /\ b \in StaleReservations(GUser[b]) /\ gtx[b] = GNoTx
    /\ ThenCount(b, Released(gbook[b]), "reverse")
    /\ UNCHANGED <<gprice, gused, gstats, gclean>>

confirmFromPayment(b) ==
    /\ gbook[b].status = "PENDING" /\ gtx[b] = GNoTx
    /\ gbook' = [gbook EXCEPT ![b].status = "CONFIRMED", ![b].pay = "PAID",
                    ![b].ref = IF @ = "RESERVED" THEN "APPLIED" ELSE @]
    /\ gused' = IF gbook[b].ref = "RESERVED" THEN gused \cup {GUser[b]} ELSE gused
    /\ UNCHANGED <<gprice, gstats, gtx, gclean>>

(* The session ended without a payment. *)
cancelExpired(b) ==
    LET row == [gbook[b] EXCEPT !.status = "CANCELLED", !.credits = 0]
    IN  /\ gbook[b].status = "PENDING" /\ gtx[b] = GNoTx
        /\ IF gbook[b].ref = "RESERVED" THEN ThenCount(b, Released(row), "reverse")
           ELSE gbook' = [gbook EXCEPT ![b] = row] /\ UNCHANGED gtx
        /\ UNCHANGED <<gprice, gused, gstats, gclean>>

(* cancelBooking: the discount is spent, the reward is not given. *)
cancelBooking(b) ==
    LET row == [gbook[b] EXCEPT !.status = "CANCELLED", !.pay = "REFUND_PROCESSING",
                                !.credits = 0]
    IN  /\ gbook[b].status = "CONFIRMED" /\ gbook[b].pay = "PAID" /\ gtx[b] = GNoTx
        /\ IF gbook[b].reward = "PENDING"
           THEN ThenCount(b, [row EXCEPT !.reward = "REVERSED"], "reverse")
           ELSE gbook' = [gbook EXCEPT ![b] = row] /\ UNCHANGED gtx
        /\ UNCHANGED <<gprice, gused, gstats, gclean>>

completeBooking(b) ==
    /\ gbook[b].status = "CONFIRMED"
    /\ gbook' = [gbook EXCEPT ![b].status = "COMPLETED"]
    /\ UNCHANGED <<gprice, gused, gstats, gtx, gclean>>

(* The delivery is repeated until it succeeds, and may run again after. *)
MayRelease(b) == /\ gbook[b].status = "COMPLETED"
                 /\ gbook[b].ref = "APPLIED" /\ gbook[b].reward = "PENDING"

processReferralCompletionForBooking(b) ==
    /\ MayRelease(b) /\ gtx[b] = GNoTx
    /\ gused' = gused \cup {GUser[b]}
    /\ \/ ThenCount(b, [gbook[b] EXCEPT !.reward = "RELEASED", !.ref = "REWARDED"], "release")
       \/ UNCHANGED <<gbook, gtx>>          \* the referral has expired
    /\ UNCHANGED <<gprice, gstats, gclean>>

GNext ==
    \E b \in GBookings :
        \/ previewBooking(b) \/ createBooking(b) \/ releaseReferralReservation(b)
        \/ confirmFromPayment(b) \/ cancelExpired(b) \/ cancelBooking(b) \/ completeBooking(b)
        \/ processReferralCompletionForBooking(b) \/ writeStats(b)

GSpec ==
    /\ \E b0 \in GBookings, gone \in SUBSET GBookings : GInitWith(b0, gone)
    /\ [][GNext]_gvars

-----------------------------------------------------------------------------
(***************************************************************************)
(* The database applies the discount to one booking of a customer, in his  *)
(* whole life, however previews, abandoned checkouts and payments overlap. *)
(***************************************************************************)
OneDiscountApplied ==
    \A u \in GUsers :
        Cardinality({b \in BookingsOf(u) : gbook[b].ref \in {"APPLIED", "REWARDED"}}) <= 1

(***************************************************************************)
(* "This prevents concurrent active bookings from receiving the one-time   *)
(* discount" (createBooking): a customer has at most one paid booking at   *)
(* the discounted price.                                                   *)
(***************************************************************************)
OneDiscountEnjoyed ==
    \A u \in GUsers :
        Cardinality({b \in BookingsOf(u) : /\ gbook[b].discounted /\ gbook[b].pay = "PAID"
                                           /\ gbook[b].status \in {"CONFIRMED", "COMPLETED"}}) <= 1

(***************************************************************************)
(* The referrer never commits more credits than were released to him, in   *)
(* paid bookings and open reservations together, although he is shown his  *)
(* balance before the transaction and may book twice from it.              *)
(***************************************************************************)
CreditsNotOverspent == Committed(Referrer) <= Earned

(***************************************************************************)
(* A reward is given for a completed trip that used the discount, once,    *)
(* and a cancelled booking leaves none pending.                            *)
(***************************************************************************)
RewardsAreEarned ==
    /\ \A b \in GBookings :
          /\ gbook[b].reward = "RELEASED" => gbook[b].status = "COMPLETED" /\ gbook[b].ref = "REWARDED"
          /\ gbook[b].reward = "PENDING" => gbook[b].status # "CANCELLED"
    /\ gstats.granted + RewardAmount * Cardinality({b \in GBookings : gtx[b].to = "release"})
          = Earned

(***************************************************************************)
(* The pending counter is the sum of the pending rewards, as long as no    *)
(* two transactions overlapped between their read and their write of it.   *)
(***************************************************************************)
PendingCounterAgrees ==
    gclean /\ (\A b \in GBookings : gtx[b].to = "-") =>
        gstats.pending = RewardAmount * Cardinality({b \in GBookings : gbook[b].reward = "PENDING"})

(***************************************************************************)
(* Discount, reward and credits are given as often as they are earned,     *)
(* although they are shown before the transaction that spends them and two *)
(* checkouts may be open at once                                           *)
(* (verifyAndReserveReferralDiscountInTransaction,                         *)
(* verifyReferralCreditBalanceInTransaction,                               *)
(* processReferralCompletionForBooking).                                   *)
(***************************************************************************)
ReferralBooks ==
    /\ GTypeOK /\ OneDiscountApplied /\ CreditsNotOverspent
    /\ RewardsAreEarned /\ PendingCounterAgrees

=============================================================================
