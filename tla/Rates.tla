------------------------------- MODULE Rates -------------------------------
(***************************************************************************)
(* Platform rates, and the price a customer accepts.                       *)
(*                                                                         *)
(* Administrators add rates and end add-on rates; a process keeps the      *)
(* rates it read for RateTTL.  A customer previews a price, accepts it and *)
(* books: the booking is priced again from the cache, then inside the      *)
(* transaction from the database, and must match what was accepted both    *)
(* times.                                                                  *)
(***************************************************************************)
EXTENDS Integers, Sequences, FiniteSets, FiniteSetsExt

CONSTANTS
    RTime,        \* the last instant of a behaviour
    RateTTL,      \* CACHE_TTL_MS
    NewRates      \* rates an administrator may add

VARIABLES
    rnow,         \* the present
    rrows,        \* PlatformFeeRate, TaxRate and AddonRate rows
    rcache,       \* the cache of RatesService
    clears,       \* committed changes whose clearCache has not run yet
    ending,       \* an endAddonRate that has read the clock
    lateEnds,     \* rows whose end was written after that instant had passed
    rd,           \* the customer's getRates call in progress, or its result
    buy           \* the customer: step, accepted total, and the booking

rateVars == <<rnow, rrows, rcache, clears, ending, lateEnds, rd, buy>>

Kinds    == {"vat", "security"}

ASSUME RatesAssumption ==
    /\ {RTime, RateTTL} \subseteq Nat \ {0}
    /\ NewRates \subseteq [kind: Kinds, since: Nat, until: Nat, val: Nat \ {0}]

Forever  == RTime + 1
NoRates  == [k \in Kinds |-> 0]
IdleRead == [pc |-> "idle", at |-> 0, tx |-> FALSE, data |-> NoRates]
NoEnding == [row |-> "none", at |-> 0]

RateInit ==
    /\ rnow = 1
    /\ rrows = {[kind |-> k, since |-> 0, until |-> IF k = "vat" THEN 3 ELSE Forever, val |-> 1] :
                    k \in Kinds}
    /\ rcache = [data |-> NoRates, at |-> 0] /\ clears = 0
    /\ ending = NoEnding /\ lateEnds = {}
    /\ rd = IdleRead
    /\ buy = [pc |-> "preview", accepted |-> 0, total |-> 0, rates |-> NoRates, at |-> 0]

-----------------------------------------------------------------------------
(* rates.helper *)

isRateActive(r, at) == r.since <= at /\ r.until > at

buildOverlapWindowWhere(r, since, until) == r.since < until /\ r.until > since

(* findFirst of the rows in force, latest first; 0 when there is none. *)
InForce(kind, at) ==
    LET rows == {r \in rrows : r.kind = kind /\ isRateActive(r, at)}
    IN  IF rows = {} THEN 0 ELSE (CHOOSE r \in rows : \A o \in rows : o.since <= r.since).val

-----------------------------------------------------------------------------
(* RatesAdminService.  The transactions are serializable, one step each;   *)
(* a type has one row per effectiveSince.                                  *)

createRate(r) ==
    /\ r.since < r.until
    /\ ~ \E o \in rrows : o.kind = r.kind /\ buildOverlapWindowWhere(o, r.since, r.until)
    /\ ~ \E o \in rrows : o.kind = r.kind /\ o.since = r.since
    /\ rrows' = rrows \cup {r} /\ clears' = clears + 1
    /\ UNCHANGED <<rnow, rcache, ending, lateEnds, rd, buy>>

(* The instant is taken before the transaction. *)
startEndAddonRate(r) ==
    /\ ending = NoEnding /\ r.kind = "security" /\ r.until = Forever
    /\ ending' = [row |-> r, at |-> rnow]
    /\ UNCHANGED <<rnow, rrows, rcache, clears, lateEnds, rd, buy>>

Endable(r, at) == r.until = Forever /\ r.since <= at

endAddonRate ==
    LET r     == ending.row
        ended == [r EXCEPT !.until = ending.at]
    IN  /\ ending # NoEnding /\ ending' = NoEnding
        /\ IF r \in rrows /\ Endable(r, ending.at)
           THEN /\ rrows' = (rrows \ {r}) \cup {ended} /\ clears' = clears + 1
                /\ lateEnds' = IF ending.at < rnow THEN lateEnds \cup {ended} ELSE lateEnds
           ELSE UNCHANGED <<rrows, clears, lateEnds>>
        /\ UNCHANGED <<rnow, rcache, rd, buy>>

clearCache ==
    /\ clears > 0 /\ clears' = clears - 1
    /\ rcache' = [data |-> NoRates, at |-> 0]
    /\ UNCHANGED <<rnow, rrows, ending, lateEnds, rd, buy>>

-----------------------------------------------------------------------------
(* RatesService.getRates *)

CacheValid == rcache.data # NoRates /\ rnow - rcache.at < RateTTL

Hit ==
    /\ rd' = [rd EXCEPT !.pc = "got", !.at = rnow, !.data = rcache.data]
    /\ UNCHANGED rcache

(* Up to the queries a call runs without a pause. *)
getRates(tx) ==
    /\ buy.pc \in {"preview", "create", "tx"} /\ rd.pc = "idle"
    /\ tx = (buy.pc = "tx")
    /\ IF ~tx /\ CacheValid THEN Hit
       ELSE rd' = [IdleRead EXCEPT !.pc = "read", !.at = rnow, !.tx = tx] /\ UNCHANGED rcache
    /\ UNCHANGED <<rnow, rrows, clears, ending, lateEnds, buy>>

StampWhenRead == rnow

(* The entry is as old as the call that read it. *)
Stamp == rd.at

(* The queries of one call run on their own, each sees what is committed.  *)
readRate(k) ==
    /\ rd.pc = "read" /\ rd.data[k] = 0
    /\ LET v    == InForce(k, rd.at)
           data == [rd.data EXCEPT ![k] = v]
           full == \A j \in Kinds : data[j] # 0
       IN  /\ rd' = [rd EXCEPT !.pc = IF v = 0 THEN "failed" ELSE IF full THEN "got" ELSE "read",
                               !.data = data]
           /\ rcache' = IF full /\ ~rd.tx THEN [data |-> data, at |-> Stamp] ELSE rcache
    /\ UNCHANGED <<rnow, rrows, clears, ending, lateEnds, buy>>

-----------------------------------------------------------------------------
(* Preview and creation.  Every combination of rates is a price of its     *)
(* own; the promotions are in BookingPrice and Promotions.                 *)

Total(data) == 10 * data["vat"] + data["security"]

validateExpectedPrice(total) == total = buy.accepted

(* preview answers, and the customer accepts what it shows. *)
previewAnswered ==
    /\ buy.pc = "preview" /\ rd.pc = "got"
    /\ buy' = [buy EXCEPT !.pc = "create", !.accepted = Total(rd.data)]
    /\ rd' = IdleRead
    /\ UNCHANGED <<rnow, rrows, rcache, clears, ending, lateEnds>>

(* createBooking prices the booking before the transaction. *)
firstCheck ==
    /\ buy.pc = "create" /\ rd.pc = "got"
    /\ buy' = [buy EXCEPT !.pc = IF validateExpectedPrice(Total(rd.data))
                                 THEN "tx" ELSE "refused"]
    /\ rd' = IdleRead
    /\ UNCHANGED <<rnow, rrows, rcache, clears, ending, lateEnds>>

(* The transaction prices it again and writes the booking. *)
bookAccepted ==
    LET total == Total(rd.data)
    IN  /\ buy.pc = "tx" /\ rd.pc = "got"
        /\ buy' = IF validateExpectedPrice(total)
                  THEN [buy EXCEPT !.pc = "booked", !.total = total, !.rates = rd.data,
                                   !.at = rd.at]
                  ELSE [buy EXCEPT !.pc = "refused"]
        /\ rd' = IdleRead
        /\ UNCHANGED <<rnow, rrows, rcache, clears, ending, lateEnds>>

(* A rate is missing: the request fails. *)
ratesMissing ==
    /\ buy.pc \in {"preview", "create", "tx"} /\ rd.pc = "failed"
    /\ buy' = [buy EXCEPT !.pc = "refused"] /\ rd' = IdleRead
    /\ UNCHANGED <<rnow, rrows, rcache, clears, ending, lateEnds>>

RTick ==
    /\ rnow < RTime /\ rnow' = rnow + 1
    /\ UNCHANGED <<rrows, rcache, clears, ending, lateEnds, rd, buy>>

RateNext ==
    \/ RTick \/ clearCache \/ endAddonRate
    \/ \E r \in NewRates : createRate(r)
    \/ \E r \in rrows : startEndAddonRate(r)
    \/ \E k \in Kinds : readRate(k)
    \/ \E tx \in BOOLEAN : getRates(tx)
    \/ previewAnswered \/ firstCheck \/ bookAccepted \/ ratesMissing

RateSpec == RateInit /\ [][RateNext]_rateVars

-----------------------------------------------------------------------------
(* No rate ends before it starts, and what getRates hands out has a rate   *)
(* of every kind (rates-admin.service.ts, rates.service.ts).               *)
RateTypeOK ==
    /\ rnow \in 1..RTime /\ clears \in Nat
    /\ \A r \in rrows : r.kind \in Kinds /\ r.since <= r.until
    /\ rd.pc \in {"idle", "read", "got", "failed"}
    /\ rd.pc = "got" => \A k \in Kinds : rd.data[k] # 0
    /\ buy.pc \in {"preview", "create", "tx", "booked", "refused"}

(***************************************************************************)
(* At every instant at most one rate of a kind is in force, so the price   *)
(* does not depend on the order in which rows are read (createVatRate,     *)
(* createAddonRate and endAddonRate against the overlap query).            *)
(***************************************************************************)
OneRateInForce ==
    \A r, o \in rrows : r.kind = o.kind /\ r # o =>
        \A t \in 0..RTime : ~(isRateActive(r, t) /\ isRateActive(o, t))

(***************************************************************************)
(* What getRates returns was in force less than RateTTL ago, although a    *)
(* read that began before a change may fill the cache after clearCache.    *)
(***************************************************************************)
RatesAreRecent ==
    rd.pc = "got" => \A k \in Kinds : \E r \in rrows :
        /\ r.kind = k /\ r.val = rd.data[k] /\ r.since <= rd.at
        /\ r.until > rd.at - RateTTL \/ r \in lateEnds

(***************************************************************************)
(* A booking is charged what the customer accepted, at the rates in force  *)
(* when it was made and never at the cached ones, unless a rate was ended  *)
(* with an instant already past (BookingCreationService).                  *)
(***************************************************************************)
ChargedAsAccepted ==
    buy.pc = "booked" =>
        /\ buy.total = buy.accepted
        /\ \A k \in Kinds : \E r \in rrows : /\ r.kind = k /\ r.val = buy.rates[k]
                                             /\ r.since <= buy.at
                                             /\ r.until >= buy.at \/ r \in lateEnds

(***************************************************************************)
(* While rates are added and ended and the cache is read and cleared, one  *)
(* rate of a kind is in force, what is read is recent, and a booking is    *)
(* charged what was accepted (createAddonRate, endAddonRate, getRates,     *)
(* createBooking).                                                         *)
(***************************************************************************)
RatesSound == RateTypeOK /\ OneRateInForce /\ RatesAreRecent /\ ChargedAsAccepted

=============================================================================
