--------------------------- MODULE CommerceProofs ---------------------------
(***************************************************************************)
(* Theorems about promotions, rates, referrals and booking edits that hold *)
(* for any number of requests, rows and bookings and any values of the     *)
(* limits, and about the legs a booking is made of and the price of them,  *)
(* for any request.                                                        *)
(***************************************************************************)
EXTENDS Promotions, Rates, Referral, BookingEdit, BookingLegs, BookingPrice,
        FiniteSetTheorems, WellFoundedInduction, TLAPS

-----------------------------------------------------------------------------
(* Induction, and sums over finite sets.                                   *)

(* A set of numbers that is not empty has a least one.                     *)
LEMMA NatMin ==
    ASSUME NEW T, T \subseteq Nat, T # {}
    PROVE  \E n \in T : \A m \in T : n <= m
  <1> DEFINE R == {ss \in Nat \X Nat : ss[1] < ss[2]}
  <1>1. IsWellFoundedOn(R, Nat)
    BY NatLessThanWellFounded DEF OpToRel
  <1>2. PICK n \in T : \A m \in T : ~ (<<m, n>> \in R)
    BY <1>1, WFMin
  <1>3. ASSUME NEW m \in T PROVE n <= m
    <2>1. ~ (m < n)
      BY <1>2 DEF R
    <2> QED BY <2>1
  <1> QED BY <1>3

(* Induction over the numbers, for a set.                                  *)
LEMMA NatInd ==
    ASSUME NEW S, S \subseteq Nat, 0 \in S, \A n \in S : n + 1 \in S
    PROVE  S = Nat
  <1> SUFFICES ASSUME Nat \ S # {} PROVE FALSE
    OBVIOUS
  <1>1. PICK n \in Nat \ S : \A m \in Nat \ S : n <= m
    BY NatMin
  <1>2. n - 1 \in S
    BY <1>1
  <1> QED BY <1>1, <1>2

(* The element that is folded first.                                       *)
Pick(s) == CHOOSE x \in s : TRUE

(* It is an element of the set.                                             *)
LEMMA PickIn ==
    ASSUME NEW s, s # {}
    PROVE  Pick(s) \in s
  BY DEF Pick

(* g gives the sum of the weights w over each of the sets Ss, as a fold     *)
(* computes it.                                                            *)
SumEq(g, w, Ss) ==
    \A s \in Ss : g[s] = IF s = {} THEN 0 ELSE w[Pick(s)] + g[s \ {Pick(s)}]

(* There is such a function: the recursion of the fold is well defined.    *)
LEMMA SumExists ==
    ASSUME NEW S, IsFiniteSet(S), NEW w \in [S -> Nat]
    PROVE  \E g \in [SUBSET S -> Nat] : SumEq(g, w, SUBSET S)
  <1> DEFINE Small(n) == {s \in SUBSET S : Cardinality(s) <= n}
             T == {n \in Nat : \E g \in [Small(n) -> Nat] : SumEq(g, w, Small(n))}
  <1>1. \A s \in SUBSET S : IsFiniteSet(s) /\ Cardinality(s) \in Nat
    BY FS_Subset, FS_CardinalityType
  <1>2. 0 \in T
    <2> DEFINE g == [s \in Small(0) |-> 0]
    <2>1. \A s \in Small(0) : s = {}
      BY <1>1, FS_EmptySet
    <2>2. g \in [Small(0) -> Nat] /\ SumEq(g, w, Small(0))
      BY <2>1 DEF SumEq
    <2> QED BY <2>2
  <1>3. ASSUME NEW n \in T PROVE n + 1 \in T
    <2>1. PICK g \in [Small(n) -> Nat] : SumEq(g, w, Small(n))
      OBVIOUS
    <2> DEFINE h == [s \in Small(n + 1) |-> IF s = {} THEN 0 ELSE w[Pick(s)] + g[s \ {Pick(s)}]]
    <2>2. ASSUME NEW s \in Small(n + 1), s # {}
          PROVE  s \ {Pick(s)} \in Small(n) /\ Pick(s) \in S
      <3>1. Pick(s) \in s
        BY <2>2, PickIn
      <3>2. Cardinality(s \ {Pick(s)}) = Cardinality(s) - 1
        BY <1>1, <3>1, FS_RemoveElement
      <3> QED BY <1>1, <3>1, <3>2
    <2>3. \A s \in Small(n) : s \in Small(n + 1)
      BY <1>1
    <2> HIDE DEF Small
    <2>4. h \in [Small(n + 1) -> Nat]
      BY <2>2
    <2>5. \A s \in Small(n) : h[s] = g[s]
      BY <2>1, <2>3 DEF SumEq
    <2>6. SumEq(h, w, Small(n + 1))
      BY <2>2, <2>5 DEF SumEq
    <2> HIDE DEF h
    <2>7. \E f \in [Small(n + 1) -> Nat] : SumEq(f, w, Small(n + 1))
      BY <2>4, <2>6
    <2> QED BY <2>7
  <1>4. T = Nat
    <2> HIDE DEF T
    <2>1. T \subseteq Nat
      BY DEF T
    <2> QED BY <1>2, <1>3, <2>1, NatInd
  <1>5. Small(Cardinality(S)) = SUBSET S /\ Cardinality(S) \in Nat
    BY <1>1, FS_Subset
  <1> QED BY <1>4, <1>5

(* Two such functions agree on the whole.                                  *)
LEMMA SumUnique ==
    ASSUME NEW S, IsFiniteSet(S), NEW w, NEW g, NEW h,
           SumEq(g, w, SUBSET S), SumEq(h, w, SUBSET S)
    PROVE  g[S] = h[S]
  <1> DEFINE T == {n \in Nat : \A s \in SUBSET S : Cardinality(s) <= n => g[s] = h[s]}
  <1>1. \A s \in SUBSET S : IsFiniteSet(s) /\ Cardinality(s) \in Nat
    BY FS_Subset, FS_CardinalityType
  <1>2. g[{}] = h[{}]
    BY DEF SumEq
  <1>3. 0 \in T
    <2>1. \A s \in SUBSET S : Cardinality(s) <= 0 => s = {}
      BY <1>1, FS_EmptySet
    <2> QED BY <1>2, <2>1
  <1>4. ASSUME NEW n \in T PROVE n + 1 \in T
    <2>1. ASSUME NEW s \in SUBSET S, Cardinality(s) <= n + 1, s # {} PROVE g[s] = h[s]
      <3> DEFINE t == s \ {Pick(s)}
      <3>1. Pick(s) \in s
        BY <2>1, PickIn
      <3>2. t \in SUBSET S /\ Cardinality(t) <= n
        BY <1>1, <2>1, <3>1, FS_RemoveElement
      <3>3. g[s] = w[Pick(s)] + g[t] /\ h[s] = w[Pick(s)] + h[t]
        BY <2>1 DEF SumEq
      <3> QED BY <3>2, <3>3
    <2>2. \A s \in SUBSET S : Cardinality(s) <= n + 1 => g[s] = h[s]
      BY <1>2, <2>1
    <2> QED BY <2>2
  <1>5. T = Nat
    <2> HIDE DEF T
    <2>1. T \subseteq Nat
      BY DEF T
    <2> QED BY <1>3, <1>4, <2>1, NatInd
  <1> QED BY <1>1, <1>5

(* Two weights that differ at b at most.                                   *)
SameBut(w, v, b, S) == \A x \in S \ {b} : v[x] = w[x]

(* A sum follows the weight of the one element that changes.               *)
LEMMA SumDelta ==
    ASSUME NEW S, IsFiniteSet(S), NEW w \in [S -> Nat], NEW v \in [S -> Nat], NEW b,
           SameBut(w, v, b, S),
           NEW g \in [SUBSET S -> Nat], SumEq(g, w, SUBSET S),
           NEW h \in [SUBSET S -> Nat], SumEq(h, v, SUBSET S)
    PROVE  h[S] = g[S] + IF b \in S THEN v[b] - w[b] ELSE 0
  <1> DEFINE Fits(s) == h[s] = g[s] + IF b \in s THEN v[b] - w[b] ELSE 0
             T == {n \in Nat : \A s \in SUBSET S : Cardinality(s) <= n => Fits(s)}
  <1>1. \A s \in SUBSET S : IsFiniteSet(s) /\ Cardinality(s) \in Nat
    BY FS_Subset, FS_CardinalityType
  <1>2. Fits({})
    <2>1. {} \in SUBSET S /\ b \notin {}
      OBVIOUS
    <2>2. h[{}] = 0 /\ g[{}] = 0
      BY <2>1 DEF SumEq
    <2> QED BY <2>1, <2>2
  <1>3. 0 \in T
    <2>1. \A s \in SUBSET S : Cardinality(s) <= 0 => s = {}
      BY <1>1, FS_EmptySet
    <2> QED BY <1>2, <2>1
  <1>4. ASSUME NEW n \in T PROVE n + 1 \in T
    <2>1. ASSUME NEW s \in SUBSET S, Cardinality(s) <= n + 1, s # {} PROVE Fits(s)
      <3> DEFINE x == Pick(s)
                 t == s \ {x}
      <3>1. x \in s
        BY <2>1, PickIn
      <3>2. t \in SUBSET S /\ Cardinality(t) <= n
        BY <1>1, <2>1, <3>1, FS_RemoveElement
      <3>3. Fits(t)
        BY <3>2
      <3>4. h[s] = v[x] + h[t] /\ g[s] = w[x] + g[t]
        BY <2>1 DEF SumEq
      <3>5. /\ h[t] \in Nat /\ g[t] \in Nat /\ v[x] \in Nat /\ w[x] \in Nat
            /\ h[s] \in Nat /\ g[s] \in Nat
        BY <3>1, <3>2
      <3>6. CASE x = b
        BY <3>1, <3>3, <3>4, <3>5, <3>6
      <3>7. CASE x # b
        <4>1. v[x] = w[x] /\ (b \in s <=> b \in t)
          BY <3>1, <3>7 DEF SameBut
        <4>2. CASE b \in s
          <5>1. v[b] \in Nat /\ w[b] \in Nat
            BY <4>2
          <5> QED BY <3>3, <3>4, <3>5, <4>1, <4>2, <5>1
        <4>3. CASE b \notin s
          BY <3>3, <3>4, <3>5, <4>1, <4>3
        <4> QED BY <4>2, <4>3
      <3> QED BY <3>6, <3>7
    <2> HIDE DEF Fits
    <2>2. \A s \in SUBSET S : Cardinality(s) <= n + 1 => Fits(s)
      <3>1. ASSUME NEW s \in SUBSET S, Cardinality(s) <= n + 1 PROVE Fits(s)
        <4>1. CASE s = {}
          BY <1>2, <4>1, Zenon
        <4>2. CASE s # {}
          BY <2>1, <3>1, <4>2
        <4> QED BY <4>1, <4>2
      <3> QED BY <3>1
    <2>3. n + 1 \in Nat
      OBVIOUS
    <2> QED BY <2>2, <2>3
  <1>5. T = Nat
    <2> HIDE DEF T
    <2>1. T \subseteq Nat
      BY DEF T
    <2> QED BY <1>3, <1>4, <2>1, NatInd
  <1>6. Cardinality(S) \in T
    BY <1>1, <1>5
  <1> QED BY <1>1, <1>6

(* A sum of nothing is nothing.                                            *)
LEMMA SumZero ==
    ASSUME NEW S, IsFiniteSet(S), NEW w \in [S -> Nat], \A x \in S : w[x] = 0,
           NEW g \in [SUBSET S -> Nat], SumEq(g, w, SUBSET S)
    PROVE  g[S] = 0
  <1> DEFINE T == {n \in Nat : \A s \in SUBSET S : Cardinality(s) <= n => g[s] = 0}
  <1>1. \A s \in SUBSET S : IsFiniteSet(s) /\ Cardinality(s) \in Nat
    BY FS_Subset, FS_CardinalityType
  <1>2. g[{}] = 0
    BY DEF SumEq
  <1>3. 0 \in T
    <2>1. \A s \in SUBSET S : Cardinality(s) <= 0 => s = {}
      BY <1>1, FS_EmptySet
    <2> QED BY <1>2, <2>1
  <1>4. ASSUME NEW n \in T PROVE n + 1 \in T
    <2>1. ASSUME NEW s \in SUBSET S, Cardinality(s) <= n + 1, s # {} PROVE g[s] = 0
      <3> DEFINE t == s \ {Pick(s)}
      <3>1. Pick(s) \in s
        BY <2>1, PickIn
      <3>2. t \in SUBSET S /\ Cardinality(t) <= n
        BY <1>1, <2>1, <3>1, FS_RemoveElement
      <3>3. g[s] = w[Pick(s)] + g[t]
        BY <2>1 DEF SumEq
      <3> QED BY <3>1, <3>2, <3>3
    <2>2. \A s \in SUBSET S : Cardinality(s) <= n + 1 => g[s] = 0
      BY <1>2, <2>1
    <2> QED BY <2>2
  <1>5. T = Nat
    <2> HIDE DEF T
    <2>1. T \subseteq Nat
      BY DEF T
    <2> QED BY <1>3, <1>4, <2>1, NatInd
  <1> QED BY <1>1, <1>5

-----------------------------------------------------------------------------
(* Promotions.                                                             *)

(* The scopes of a promotion, and the fields of rows and requests.          *)
PScopes == OwnedCars \cup {"fleet"}

PromoRows == [id: Nat \ {0}, car: PScopes, start: Int, end: Int,
              percent: MIN_PROMOTION_PERCENTAGE..MAX_PROMOTION_PERCENTAGE, active: BOOLEAN]

MakingStates == [pc: {"idle"}] \cup
                [pc: {"asked", "checked", "refused", "made"}, ask: PromoAsks]

PromoTypes ==
    /\ promo \subseteq PromoRows /\ IsFiniteSet(promo)
    /\ \A p \in promo : p.start < p.end
    /\ making \in [Owners -> MakingStates]

(* Rows are numbered: no two share an id, none is beyond the count.        *)
PromoIds ==
    /\ \A p \in promo : p.id <= Cardinality(promo)
    /\ \A p, q \in promo : p.id = q.id => p = q

(* A request past the check holds the lock of its scope, and nothing        *)
(* active overlaps its window.                                             *)
CheckedIsClear ==
    /\ \A o \in Owners : making[o].pc \in {"asked", "checked", "made"} => Valid(making[o].ask)
    /\ \A o \in Owners : making[o].pc = "checked" =>
          /\ making[o].ask.car \in PScopes
          /\ \A p \in promo : p.car = making[o].ask.car =>
                ~overlapWhere(p, toPromotionWindowExclusive(making[o].ask))
    /\ \A o, q \in Owners : making[o].pc = "checked" /\ making[q].pc = "checked" /\ o # q =>
          making[o].ask.car # making[q].ask.car

(* The row a request made has the window and the percentage it asked for.  *)
MadeIsStored ==
    \A o \in Owners : making[o].pc = "made" =>
        \E p \in promo : /\ p.car = making[o].ask.car /\ p.percent = making[o].ask.percent
                         /\ p.start = making[o].ask.first /\ p.end = making[o].ask.last + 1

(* The inductive invariant of the promotions.                               *)
PromoInv == PromoTypes /\ PromoIds /\ CheckedIsClear /\ MadeIsStored /\ PromotionsApart

(* There are no promotions at first.                                       *)
LEMMA PromoInit == MInit => PromoInv
  <1> SUFFICES ASSUME MInit PROVE PromoInv
    OBVIOUS
  <1>1. promo = {} /\ making = [o \in Owners |-> [pc |-> "idle"]]
    BY DEF MInit
  <1>2. PromoTypes
    BY <1>1, FS_EmptySet DEF PromoTypes, MakingStates
  <1> QED BY <1>1, <1>2 DEF PromoInv, PromoIds, CheckedIsClear, MadeIsStored, PromotionsApart

(* A request that came or was checked leaves the rows alone.               *)
LEMMA PromoRequest ==
    ASSUME PromoInv, NEW o \in Owners, NEW i \in PromoAsks, requestPromotion(o, i)
    PROVE  PromoInv'
  <1>1. /\ making' \in [Owners -> MakingStates] /\ promo' = promo
        /\ \A q \in Owners : q # o => making'[q] = making[q]
        /\ making'[o].pc \in {"asked", "refused"}
        /\ making'[o].pc = "asked" => Valid(i) /\ making'[o].ask = i
    BY DEF requestPromotion, PromoInv, PromoTypes, MakingStates
  <1>2. PromoTypes' /\ PromoIds' /\ PromotionsApart'
    BY <1>1 DEF PromoInv, PromoTypes, PromoIds, PromotionsApart
  <1>3. CheckedIsClear'
    <2>1. \A q \in Owners : making'[q].pc \in {"asked", "checked", "made"} => Valid(making'[q].ask)
      BY <1>1 DEF PromoInv, CheckedIsClear
    <2>2. \A q \in Owners : making'[q].pc = "checked" => q # o
      BY <1>1
    <2> QED BY <1>1, <2>1, <2>2 DEF PromoInv, CheckedIsClear
  <1>4. MadeIsStored'
    BY <1>1 DEF PromoInv, MadeIsStored
  <1> QED BY <1>2, <1>3, <1>4 DEF PromoInv

(* The check passes only where nothing active overlaps, and under the lock *)
(* of the scope.                                                           *)
LEMMA PromoCheck ==
    ASSUME PromoInv, NEW o \in Owners, checkOverlap(o)
    PROVE  PromoInv'
  <1> DEFINE i == making[o].ask
  <1>0. making[o].pc = "asked" /\ making \in [Owners -> MakingStates]
    BY DEF checkOverlap, PromoInv, PromoTypes
  <1>1. /\ making' \in [Owners -> MakingStates] /\ promo' = promo
        /\ \A q \in Owners : q # o => making'[q] = making[q]
        /\ making'[o].pc \in {"checked", "refused"} /\ making'[o].ask = i
        /\ making'[o].pc = "checked" =>
              /\ i.car \in PScopes
              /\ \A p \in promo : p.car = i.car => ~overlapWhere(p, toPromotionWindowExclusive(i))
    BY <1>0 DEF checkOverlap, MakingStates, PScopes
  <1>2. \A q \in Owners : making[q].pc = "checked" => making[q].ask.car # i.car
    BY DEF checkOverlap, acquirePromotionScopeTransactionLock
  <1>3. PromoTypes' /\ PromoIds' /\ PromotionsApart'
    BY <1>1 DEF PromoInv, PromoTypes, PromoIds, PromotionsApart
  <1>4. CheckedIsClear'
    <2>1. \A q \in Owners : making'[q].pc \in {"asked", "checked", "made"} => Valid(making'[q].ask)
      <3>1. Valid(i)
        BY <1>0 DEF PromoInv, CheckedIsClear
      <3> QED BY <1>1, <3>1 DEF PromoInv, CheckedIsClear
    <2>2. \A q \in Owners : making'[q].pc = "checked" =>
            /\ making'[q].ask.car \in PScopes
            /\ \A p \in promo : p.car = making'[q].ask.car =>
                  ~overlapWhere(p, toPromotionWindowExclusive(making'[q].ask))
      BY <1>1 DEF PromoInv, CheckedIsClear
    <2>3. \A q, x \in Owners : making'[q].pc = "checked" /\ making'[x].pc = "checked" /\ q # x
            => making'[q].ask.car # making'[x].ask.car
      BY <1>1, <1>2 DEF PromoInv, CheckedIsClear
    <2> QED BY <1>1, <2>1, <2>2, <2>3
            DEF CheckedIsClear, Valid, overlapWhere, toPromotionWindowExclusive
  <1>5. MadeIsStored'
    BY <1>1 DEF PromoInv, MadeIsStored
  <1> QED BY <1>3, <1>4, <1>5 DEF PromoInv

(* The row that is inserted: its id is new, and it is apart from every     *)
(* active row of its scope.                                                *)
LEMMA PromoCreate ==
    ASSUME PromoInv, NEW o \in Owners, createPromotion(o)
    PROVE  PromoInv'
  <1> DEFINE i == making[o].ask
             n == Cardinality(promo)
             new == [id |-> n + 1, car |-> i.car, start |-> i.first, end |-> i.last + 1,
                     percent |-> i.percent, active |-> TRUE]
  <1>1. /\ making[o].pc = "checked" /\ making \in [Owners -> MakingStates]
        /\ promo' = promo \cup {new}
        /\ making' \in [Owners -> MakingStates]
        /\ \A q \in Owners : q # o => making'[q] = making[q]
        /\ making'[o].pc = "made" /\ making'[o].ask = i
    BY DEF createPromotion, PromoInv, PromoTypes, MakingStates, toPromotionWindowExclusive
  <1>2. /\ Valid(i) /\ i.car \in PScopes /\ i \in PromoAsks
        /\ \A p \in promo : p.car = i.car => ~overlapWhere(p, toPromotionWindowExclusive(i))
    BY <1>1 DEF PromoInv, CheckedIsClear, MakingStates
  <1>3. /\ i.first \in Int /\ i.last \in Int /\ i.first < i.last + 1
        /\ i.percent \in MIN_PROMOTION_PERCENTAGE..MAX_PROMOTION_PERCENTAGE
        /\ \A p \in promo : p.car = i.car => ~(p.active /\ p.start < i.last + 1 /\ p.end > i.first)
    <2>1. i.first \in Int /\ i.last \in Int
      BY <1>2, MAssumption DEF MAssumption
    <2> QED BY <1>2, <2>1 DEF Valid, toPromotionWindowExclusive, overlapWhere
  <1>4. promo \subseteq PromoRows /\ IsFiniteSet(promo) /\ n \in Nat
    BY FS_CardinalityType DEF PromoInv, PromoTypes
  <1>5. new \notin promo /\ \A p \in promo : p.id <= n
    BY <1>4 DEF PromoInv, PromoIds, PromoRows
  <1>6. IsFiniteSet(promo') /\ Cardinality(promo') = n + 1
    BY <1>1, <1>4, <1>5, FS_AddElement
  <1>7. /\ new \in PromoRows /\ new.id = n + 1 /\ new.car = i.car /\ new.start = i.first
        /\ new.end = i.last + 1 /\ new.percent = i.percent
    BY <1>2, <1>3, <1>4 DEF PromoRows
  <1> HIDE DEF i, n, new
  <1>8. PromoTypes'
    BY <1>1, <1>3, <1>4, <1>6, <1>7 DEF PromoTypes, PromoInv
  <1>9. PromoIds'
    BY <1>1, <1>4, <1>5, <1>6, <1>7 DEF PromoIds, PromoInv, PromoRows
  <1>10. PromotionsApart'
    BY <1>1, <1>3, <1>4, <1>7 DEF PromotionsApart, PromoInv, PromoRows
  <1>11. CheckedIsClear'
    <2>1. \A q \in Owners : making'[q].pc \in {"asked", "checked", "made"} => Valid(making'[q].ask)
      BY <1>1, <1>2 DEF PromoInv, CheckedIsClear
    <2>2. \A q \in Owners : making'[q].pc = "checked" =>
              q # o /\ making[q].pc = "checked" /\ making[q].ask.car # new.car
      BY <1>1, <1>7 DEF PromoInv, CheckedIsClear, i
    <2> QED BY <1>1, <2>1, <2>2 DEF PromoInv, CheckedIsClear
  <1>12. MadeIsStored'
    <2>1. \A q \in Owners : making'[q].pc = "made" => q = o \/ making[q].pc = "made"
      BY <1>1
    <2>2. \A q \in Owners : making[q].pc = "made" => q # o
      BY <1>1
    <2> QED BY <1>1, <1>7, <2>1, <2>2 DEF PromoInv, MadeIsStored
  <1> QED BY <1>8, <1>9, <1>10, <1>11, <1>12 DEF PromoInv

(* A row that is made inactive keeps its id, window and percentage.        *)
LEMMA PromoDeactivate ==
    ASSUME PromoInv, NEW p \in promo, deactivatePromotion(p)
    PROVE  PromoInv'
  <1> DEFINE off == [p EXCEPT !.active = FALSE]
             rest == promo \ {p}
  <1>1. /\ promo' = rest \cup {off} /\ making' = making
        /\ promo \subseteq PromoRows /\ IsFiniteSet(promo) /\ p \in PromoRows
        /\ off \in PromoRows /\ off.id = p.id /\ off.car = p.car /\ off.start = p.start
        /\ off.end = p.end /\ off.percent = p.percent /\ off.active = FALSE
    BY DEF deactivatePromotion, PromoInv, PromoTypes, PromoRows
  <1>2. off \notin rest
    BY <1>1 DEF PromoInv, PromoIds
  <1>3. IsFiniteSet(promo') /\ Cardinality(promo') = Cardinality(promo)
    <2>1. IsFiniteSet(rest) /\ Cardinality(rest) = Cardinality(promo) - 1
      BY <1>1, FS_RemoveElement
    <2>2. Cardinality(promo) \in Nat
      BY <1>1, FS_CardinalityType
    <2>3. IsFiniteSet(rest \cup {off}) /\ Cardinality(rest \cup {off}) = Cardinality(rest) + 1
      BY <1>2, <2>1, FS_AddElement
    <2> QED BY <1>1, <2>1, <2>2, <2>3
  <1> HIDE DEF off
  <1>4. PromoTypes'
    BY <1>1, <1>3 DEF PromoTypes, PromoInv
  <1>5. PromoIds'
    BY <1>1, <1>3 DEF PromoIds, PromoInv
  <1>6. PromotionsApart'
    BY <1>1 DEF PromotionsApart, PromoInv
  <1>7. CheckedIsClear'
    BY <1>1 DEF CheckedIsClear, PromoInv, overlapWhere
  <1>8. MadeIsStored'
    BY <1>1 DEF MadeIsStored, PromoInv
  <1> QED BY <1>4, <1>5, <1>6, <1>7, <1>8 DEF PromoInv

(* Every step keeps the rows and the requests in their shape.              *)
LEMMA PromoStep == PromoInv /\ [MNext]_mvars => PromoInv'
  <1> SUFFICES ASSUME PromoInv, [MNext]_mvars
               PROVE  PromoInv'
    OBVIOUS
  <1>1. ASSUME NEW o \in Owners, checkOverlap(o) PROVE PromoInv'
    BY <1>1, PromoCheck
  <1>2. ASSUME NEW o \in Owners, createPromotion(o) PROVE PromoInv'
    BY <1>2, PromoCreate
  <1>3. ASSUME NEW o \in Owners, NEW i \in PromoAsks, requestPromotion(o, i) PROVE PromoInv'
    BY <1>3, PromoRequest
  <1>4. ASSUME NEW p \in promo, deactivatePromotion(p) PROVE PromoInv'
    BY <1>4, PromoDeactivate
  <1>5. CASE UNCHANGED mvars
    BY <1>5 DEF mvars, PromoInv, PromoTypes, PromoIds, CheckedIsClear, MadeIsStored,
                PromotionsApart
  <1> QED BY <1>1, <1>2, <1>3, <1>4, <1>5 DEF MNext

(* At most one promotion of a scope is active at an instant.               *)
LEMMA OneLive ==
    ASSUME PromoInv, NEW at \in Int, NEW p \in promo, NEW q \in promo, p.car = q.car,
           activeAtWhere(p, at), activeAtWhere(q, at)
    PROVE  p = q
  <1>1. p \in PromoRows /\ q \in PromoRows
    BY DEF PromoInv, PromoTypes
  <1> QED BY <1>1 DEF PromoInv, PromotionsApart, PromoRows, activeAtWhere

(* The latest of one row is that row, and so is the largest discount.      *)
LEMMA LatestOfOne ==
    ASSUME NEW p \in PromoRows
    PROVE  /\ LatestOf({p}) = p
           /\ (CHOOSE x \in {p} : \A q \in {p} \ {x} : incomingBeatsExistingForSameScope(q, x)) = p
           /\ p # NoneP
  <1>1. p.id \in Nat /\ p.id # 0
    BY DEF PromoRows
  <1>2. LatestOf({p}) = p
    BY <1>1 DEF LatestOf
  <1>3. \E x \in {p} : \A q \in {p} \ {x} : incomingBeatsExistingForSameScope(q, x)
    OBVIOUS
  <1> QED BY <1>1, <1>2, <1>3 DEF NoneP

(* What is live of a scope at an instant, and what the lookup makes of it.  *)
LiveAt(scope, at) == {p \in promo : activeAtWhere(p, at) /\ p.car = scope}

(* At most one promotion of a scope is live, and the lookup finds it.       *)
LEMMA LiveOfScope ==
    ASSUME PromoInv, NEW at \in Int, NEW scope
    PROVE  \/ LiveAt(scope, at) = {} /\ buildOwnerScopePromotionLookup(at, scope) = NoneP
           \/ \E p \in PromoRows : LiveAt(scope, at) = {p}
                                   /\ buildOwnerScopePromotionLookup(at, scope) = p
  <1>1. CASE LiveAt(scope, at) = {}
    BY <1>1 DEF LiveAt, buildOwnerScopePromotionLookup
  <1>2. CASE LiveAt(scope, at) # {}
    <2>1. PICK p \in LiveAt(scope, at) : TRUE
      BY <1>2
    <2>2. LiveAt(scope, at) = {p} /\ p \in PromoRows
      BY <2>1, OneLive DEF LiveAt, PromoInv, PromoTypes
    <2>3. buildOwnerScopePromotionLookup(at, scope) =
            CHOOSE x \in {p} : \A q \in {p} \ {x} : incomingBeatsExistingForSameScope(q, x)
      BY <2>2 DEF LiveAt, buildOwnerScopePromotionLookup
    <2> QED BY <2>2, <2>3, LatestOfOne
  <1> QED BY <1>1, <1>2

(* The three lookups give the same promotion, the car's before the fleet's.*)
LEMMA LookupsAgreeAlways == PromoInv => LookupsAgree
  <1> SUFFICES ASSUME PromoInv, NEW car \in OwnedCars, NEW at \in PromoDays
               PROVE  LET one == getActivePromotionForCar(car, at)
                          ps  == getOverlappingPromotionsForCar(car, at)
                          own == {p \in ps : p.car = car}
                      IN  /\ one = getActivePromotionsForCars(car, at)
                          /\ IF ps = {} THEN one = NoneP
                             ELSE (IF own # {} THEN own ELSE ps) = {one}
    BY DEF LookupsAgree
  <1> DEFINE C == LiveAt(car, at)
             F == LiveAt("fleet", at)
             one == getActivePromotionForCar(car, at)
  <1>1. at \in Int /\ car # "fleet" /\ \A p \in promo : p \in PromoRows
    BY MAssumption DEF MAssumption, PromoInv, PromoTypes
  <1>2. \A p \in promo : overlapWhere(p, [start |-> at, end |-> at + 1]) <=> activeAtWhere(p, at)
    BY <1>1 DEF PromoRows, overlapWhere, activeAtWhere
  <1>3. getOverlappingPromotionsForCar(car, at) = C \cup F
    BY <1>2 DEF getOverlappingPromotionsForCar, LiveAt
  <1>4. {p \in C \cup F : p.car = car} = C
    BY <1>1 DEF LiveAt
  <1>5. one = IF C \cup F = {} THEN NoneP ELSE LatestOf(IF C # {} THEN C ELSE C \cup F)
    <2> DEFINE live == {p \in promo : activeAtWhere(p, at) /\ p.car \in {car, "fleet"}}
    <2>1. live = C \cup F /\ {p \in live : p.car = car} = C
      BY <1>1 DEF LiveAt
    <2> HIDE DEF C, F
    <2> QED BY <2>1 DEF getActivePromotionForCar
  <1>6. \/ C = {} /\ buildOwnerScopePromotionLookup(at, car) = NoneP
        \/ \E p \in PromoRows : C = {p} /\ buildOwnerScopePromotionLookup(at, car) = p
    BY <1>1, LiveOfScope
  <1>7. \/ F = {} /\ buildOwnerScopePromotionLookup(at, "fleet") = NoneP
        \/ \E p \in PromoRows : F = {p} /\ buildOwnerScopePromotionLookup(at, "fleet") = p
    BY <1>1, LiveOfScope
  <1> HIDE DEF C, F
  <1>8. /\ one = getActivePromotionsForCars(car, at)
        /\ IF C \cup F = {} THEN one = NoneP
           ELSE (IF C # {} THEN C ELSE C \cup F) = {one}
    BY <1>5, <1>6, <1>7, LatestOfOne DEF getActivePromotionsForCars
  <1> QED BY <1>3, <1>4, <1>8

(***************************************************************************)
(* Whatever is asked for at once, promotions of a scope stay apart, the    *)
(* three lookups agree, and a promotion holds on exactly the days it was   *)
(* asked for (createPromotion, deactivatePromotion,                        *)
(* getActivePromotionsForCars).                                            *)
(***************************************************************************)
THEOREM PromotionsStaySound == MSpec => []PromotionsSound
  <1>1. PromoInv => PromotionsSound
    <2> SUFFICES ASSUME PromoInv PROVE PromotionsSound
      OBVIOUS
    <2>1. MTypeOK
      <3>1. \A o \in Owners : making[o] \in MakingStates
        BY DEF PromoInv, PromoTypes
      <3> QED BY <3>1 DEF PromoInv, PromoTypes, MTypeOK, PromoRows, PScopes, MakingStates
    <2>2. HoldsOnTheDaysAsked
      <3> SUFFICES ASSUME NEW o \in Owners, making[o].pc = "made"
                   PROVE  \E p \in promo :
                            /\ p.car = making[o].ask.car /\ p.percent = making[o].ask.percent
                            /\ \A d \in PromoDays : (p.start <= d /\ d < p.end)
                                  <=> d \in making[o].ask.first..making[o].ask.last
        BY DEF HoldsOnTheDaysAsked
      <3>1. making[o].ask \in PromoAsks
        BY DEF PromoInv, PromoTypes, MakingStates
      <3>2. /\ making[o].ask.first \in Int /\ making[o].ask.last \in Int
            /\ \A d \in PromoDays : d \in Int
        BY <3>1, MAssumption DEF MAssumption
      <3> QED BY <3>2 DEF PromoInv, MadeIsStored
    <2> QED BY <2>1, <2>2, LookupsAgreeAlways DEF PromotionsSound, PromoInv
  <1> QED BY <1>1, PromoInit, PromoStep, PTL DEF MSpec

-----------------------------------------------------------------------------
(* Rates.                                                                  *)

RateRows == [kind: Kinds, since: Nat, until: Nat, val: Nat \ {0}]

(* Rows of a kind keep apart and start at different instants.  A row is    *)
(* ended once, at an instant that has come.                                *)
RowsApart ==
    /\ rnow \in 1..RTime /\ clears \in Nat
    /\ rrows \subseteq RateRows /\ \A r \in rrows : r.since <= r.until
    /\ \A r, o \in rrows : r.kind = o.kind /\ r # o =>
          r.since # o.since /\ (r.until <= o.since \/ o.until <= r.since)
    /\ lateEnds \subseteq rrows /\ \A r \in lateEnds : r.until # Forever
    /\ ending.at \in Nat /\ ending.at <= rnow

(* A value v of kind k is that of a row in force at the instant, or of one *)
(* that was ended too late.                                                *)
Backed(k, v, at) ==
    \E r \in rrows : /\ r.kind = k /\ r.val = v /\ r.since <= at
                     /\ r.until >= at \/ r \in lateEnds

(* All the rates of a result read at the instant are so.                    *)
AllBacked(data, at) ==
    /\ data \in [Kinds -> Nat] /\ at \in Nat /\ at <= rnow
    /\ \A k \in Kinds : data[k] # 0 => Backed(k, data[k], at)

(* A read that did not come from the cache is backed at its own instant.   *)
ReadBacked ==
    /\ rd \in [pc: {"idle", "read", "got", "failed"}, at: Nat, tx: BOOLEAN,
               data: [Kinds -> Nat]]
    /\ rd.at <= rnow
    /\ rd.pc = "idle" => rd = IdleRead
    /\ rd.pc # "idle" => rd.tx = (buy.pc = "tx")
    /\ rd.pc = "got" => \A k \in Kinds : rd.data[k] # 0
    /\ (rd.pc = "read" \/ rd.tx) => AllBacked(rd.data, rd.at)

(* The cache holds a rate of every kind or nothing, backed at its instant. *)
CacheBacked ==
    /\ AllBacked(rcache.data, rcache.at)
    /\ rcache.data = NoRates \/ \A k \in Kinds : rcache.data[k] # 0

(* What the booking was charged is backed at the instant it was priced.    *)
BuyBacked ==
    /\ buy \in [pc: {"preview", "create", "tx", "booked", "refused"}, accepted: Nat,
                total: Nat, rates: [Kinds -> Nat], at: Nat]
    /\ buy.pc = "booked" => /\ buy.total = buy.accepted /\ AllBacked(buy.rates, buy.at)
                            /\ \A k \in Kinds : buy.rates[k] # 0

(* The inductive invariant of the rates.                                    *)
RateInv == RowsApart /\ ReadBacked /\ CacheBacked /\ BuyBacked /\ RatesAreRecent

(* Nothing has been read at first.                                         *)
LEMMA RateInitInv == RateInit => RateInv
  <1> SUFFICES ASSUME RateInit PROVE RateInv
    OBVIOUS
  <1>1. RTime \in Nat \ {0} /\ Forever \in Nat
    BY RatesAssumption DEF RatesAssumption, Forever
  <1>2. NoRates \in [Kinds -> Nat] /\ \A k \in Kinds : NoRates[k] = 0
    BY DEF NoRates
  <1>3. RowsApart
    <2>1. /\ rrows \subseteq RateRows
          /\ \A r \in rrows : r.since = 0 /\ \A o \in rrows : r.kind = o.kind => r = o
      BY <1>1 DEF RateInit, RateRows
    <2>2. \A r \in rrows : r.since <= r.until
      BY <2>1 DEF RateRows
    <2> QED BY <1>1, <2>1, <2>2 DEF RateInit, RowsApart, NoEnding
  <1>4. ReadBacked /\ CacheBacked /\ BuyBacked /\ RatesAreRecent
    BY <1>1, <1>2 DEF RateInit, ReadBacked, CacheBacked, BuyBacked, RatesAreRecent, AllBacked,
                      IdleRead
  <1> QED BY <1>3, <1>4 DEF RateInv

(* What becomes of a row: it stays, or it is ended now or too late.        *)
RowsKept ==
    /\ rnow <= rnow'
    /\ \A r \in rrows : \/ r \in rrows'
                        \/ /\ r.until = Forever
                           /\ \E e \in rrows' :
                                /\ e.kind = r.kind /\ e.val = r.val /\ e.since = r.since
                                /\ e.until = rnow \/ e \in lateEnds'
    /\ lateEnds \subseteq lateEnds'

(* A new row is apart from those of its kind.                              *)
LEMMA RateCreate ==
    ASSUME RowsApart, NEW r \in NewRates, createRate(r)
    PROVE  RowsApart' /\ RowsKept
  <1>1. r \in RateRows /\ rrows \subseteq RateRows
    BY RatesAssumption DEF RatesAssumption, RateRows, RowsApart
  <1>2. \A o \in rrows : o.kind = r.kind =>
            o.since # r.since /\ (o.until <= r.since \/ r.until <= o.since)
    BY <1>1 DEF createRate, buildOverlapWindowWhere, RateRows
  <1> QED BY <1>1, <1>2 DEF createRate, RowsApart, RowsKept, RateRows

(* An ended row has become shorter.                                        *)
LEMMA RateEnd ==
    ASSUME RowsApart, endAddonRate
    PROVE  RowsApart' /\ RowsKept
  <1> DEFINE r == ending.row
             ended == [r EXCEPT !.until = ending.at]
  <1>1. RTime \in Nat \ {0} /\ Forever = RTime + 1
    BY RatesAssumption DEF RatesAssumption, Forever
  <1>2. CASE r \in rrows /\ Endable(r, ending.at)
    <2>1. /\ rrows' = (rrows \ {r}) \cup {ended} /\ clears' = clears + 1
          /\ lateEnds' = IF ending.at < rnow THEN lateEnds \cup {ended} ELSE lateEnds
          /\ ending' = NoEnding /\ rnow' = rnow
      BY <1>2 DEF endAddonRate
    <2>2. /\ r \in RateRows /\ r.until = Forever /\ r.since <= ending.at
          /\ ending.at \in Nat /\ ending.at <= rnow /\ rnow \in 1..RTime
      BY <1>2 DEF RowsApart, Endable
    <2>3. /\ ended \in RateRows /\ ended.kind = r.kind /\ ended.val = r.val
          /\ ended.since = r.since /\ ended.until = ending.at
      BY <2>2 DEF RateRows
    <2>4. r \notin lateEnds
      BY <2>2 DEF RowsApart
    <2> HIDE DEF r, ended
    <2>5. RowsApart'
      <3>1. rrows' \subseteq RateRows /\ \A o \in rrows' : o.since <= o.until
        BY <2>1, <2>2, <2>3 DEF RowsApart
      <3>2. \A o \in rrows \ {r} : o.kind = r.kind =>
              o.since # ended.since /\ (o.until <= ended.since \/ ended.until <= o.since)
        BY <1>1, <1>2, <2>2, <2>3 DEF RowsApart, RateRows
      <3>3. \A x, o \in rrows' : x.kind = o.kind /\ x # o =>
              x.since # o.since /\ (x.until <= o.since \/ o.until <= x.since)
        BY <2>1, <2>3, <3>2 DEF RowsApart
      <3>4. lateEnds' \subseteq rrows' /\ \A x \in lateEnds' : x.until # Forever
        BY <1>1, <2>1, <2>2, <2>3, <2>4 DEF RowsApart
      <3>5. rnow' \in 1..RTime /\ clears' \in Nat /\ ending'.at \in Nat /\ ending'.at <= rnow'
        BY <2>1, <2>2 DEF RowsApart, NoEnding
      <3> QED BY <3>1, <3>3, <3>4, <3>5 DEF RowsApart
    <2>6. RowsKept
      <3>1. \A x \in rrows : x # r => x \in rrows'
        BY <2>1
      <3>2. ended \in rrows' /\ (ended.until = rnow \/ ended \in lateEnds')
        BY <2>1, <2>2, <2>3
      <3> QED BY <2>1, <2>2, <2>3, <3>1, <3>2 DEF RowsKept
    <2> QED BY <2>5, <2>6
  <1>3. CASE ~(r \in rrows /\ Endable(r, ending.at))
    <2>1. ending' = NoEnding /\ UNCHANGED <<rnow, rrows, clears, lateEnds>>
      BY <1>3 DEF endAddonRate
    <2> QED BY <2>1 DEF RowsApart, RowsKept, NoEnding
  <1> QED BY <1>2, <1>3

(* Every step keeps the rows apart.                                        *)
LEMMA RateRowsStep == RowsApart /\ [RateNext]_rateVars => RowsApart' /\ RowsKept
  <1> SUFFICES ASSUME RowsApart, [RateNext]_rateVars
               PROVE  RowsApart' /\ RowsKept
    OBVIOUS
  <1>1. ASSUME NEW r \in NewRates, createRate(r) PROVE RowsApart' /\ RowsKept
    BY <1>1, RateCreate
  <1>2. ASSUME endAddonRate PROVE RowsApart' /\ RowsKept
    BY <1>2, RateEnd
  <1>3. ASSUME NEW r \in rrows, startEndAddonRate(r) PROVE RowsApart' /\ RowsKept
    BY <1>3 DEF startEndAddonRate, RowsApart, RowsKept
  <1>4. ASSUME RTick PROVE RowsApart' /\ RowsKept
    BY <1>4, RatesAssumption DEF RTick, RowsApart, RowsKept, RatesAssumption
  <1>5. ASSUME clearCache PROVE RowsApart' /\ RowsKept
    BY <1>5 DEF clearCache, RowsApart, RowsKept
  <1>6. CASE UNCHANGED <<rnow, rrows, clears, ending, lateEnds>>
    BY <1>6 DEF RowsApart, RowsKept
  <1> QED BY <1>1, <1>2, <1>3, <1>4, <1>5, <1>6
          DEF RateNext, rateVars, readRate, getRates, previewAnswered, firstCheck, bookAccepted,
              ratesMissing

(* What was backed at an instant that has passed stays backed.             *)
LEMMA BackedStays ==
    ASSUME RowsApart, RowsKept, NEW k, NEW v, NEW at \in Nat, at <= rnow, Backed(k, v, at)
    PROVE  Backed(k, v, at)'
  <1>1. PICK r \in rrows : /\ r.kind = k /\ r.val = v /\ r.since <= at
                           /\ r.until >= at \/ r \in lateEnds
    BY DEF Backed
  <1>2. CASE r \in rrows'
    BY <1>1, <1>2 DEF Backed, RowsKept
  <1>3. CASE r \notin rrows'
    <2>1. PICK e \in rrows' : /\ e.kind = r.kind /\ e.val = r.val /\ e.since = r.since
                              /\ e.until = rnow \/ e \in lateEnds'
      BY <1>3 DEF RowsKept
    <2> QED BY <1>1, <2>1 DEF Backed, RowsApart
  <1> QED BY <1>2, <1>3

(* Rates that were backed by rows stay backed as rows are added or ended.   *)
LEMMA AllBackedStays ==
    ASSUME RowsApart, RowsKept, rnow' \in Nat, NEW data, NEW at, AllBacked(data, at)
    PROVE  AllBacked(data, at)'
  <1>1. rnow \in Nat /\ rnow <= rnow'
    BY DEF RowsApart, RowsKept
  <1> QED BY <1>1, BackedStays DEF AllBacked

(* So does a recent one.                                                   *)
LEMMA RecentStays ==
    ASSUME RowsApart, RowsKept, RatesAreRecent, rd' = rd, rd.at \in Nat, rd.at <= rnow
    PROVE  RatesAreRecent'
  <1> SUFFICES ASSUME rd.pc = "got", NEW k \in Kinds
               PROVE  \E r \in rrows' : /\ r.kind = k /\ r.val = rd.data[k] /\ r.since <= rd.at
                                        /\ r.until > rd.at - RateTTL \/ r \in lateEnds'
    BY DEF RatesAreRecent
  <1>1. PICK r \in rrows : /\ r.kind = k /\ r.val = rd.data[k] /\ r.since <= rd.at
                           /\ r.until > rd.at - RateTTL \/ r \in lateEnds
    BY DEF RatesAreRecent
  <1>2. CASE r \in rrows'
    BY <1>1, <1>2 DEF RowsKept
  <1>3. CASE r \notin rrows'
    <2>1. PICK e \in rrows' : /\ e.kind = r.kind /\ e.val = r.val /\ e.since = r.since
                              /\ e.until = rnow \/ e \in lateEnds'
      BY <1>3 DEF RowsKept
    <2>2. rnow \in Nat /\ RateTTL \in Nat \ {0}
      BY RatesAssumption DEF RowsApart, RatesAssumption
    <2>3. rnow > rd.at - RateTTL
      BY <2>2
    <2> QED BY <1>1, <2>1, <2>3
  <1> QED BY <1>2, <1>3

(* What is backed at the instant it was read is recent.                    *)
LEMMA BackedIsRecent ==
    ASSUME RowsApart, NEW k, NEW v, NEW at \in Nat, Backed(k, v, at)
    PROVE  \E r \in rrows : /\ r.kind = k /\ r.val = v /\ r.since <= at
                            /\ r.until > at - RateTTL \/ r \in lateEnds
  <1>1. PICK r \in rrows : /\ r.kind = k /\ r.val = v /\ r.since <= at
                           /\ r.until >= at \/ r \in lateEnds
    BY DEF Backed
  <1>2. r.until \in Nat /\ RateTTL \in Nat \ {0}
    BY RatesAssumption DEF RowsApart, RateRows, RatesAssumption
  <1> QED BY <1>1, <1>2

(* A query gives the rate in force, or 0.                                  *)
LEMMA InForceBacked ==
    ASSUME RowsApart, NEW k \in Kinds, NEW at \in Nat
    PROVE  /\ InForce(k, at) \in Nat
           /\ InForce(k, at) # 0 => Backed(k, InForce(k, at), at)
  <1> DEFINE rows == {r \in rrows : r.kind = k /\ isRateActive(r, at)}
  <1>1. CASE rows = {}
    BY <1>1 DEF InForce
  <1>2. CASE rows # {}
    <2>1. \A r, o \in rows : r = o
      BY DEF RowsApart, isRateActive, RateRows
    <2>2. \A o \in rows : o \in RateRows
      BY DEF RowsApart
    <2>3. \E r \in rows : \A o \in rows : o.since <= r.since
      BY <1>2, <2>1, <2>2 DEF RateRows
    <2>4. PICK r \in rows : InForce(k, at) = r.val
      BY <1>2, <2>3 DEF InForce
    <2>5. r.val \in Nat
      BY <2>2 DEF RateRows
    <2>6. Backed(k, r.val, at)
      BY <2>2, <2>4 DEF Backed, isRateActive, RateRows
    <2> QED BY <2>4, <2>5, <2>6
  <1> QED BY <1>1, <1>2

(* Changes to the rows, and time, leave what was read backed.              *)
LEMMA RateOthersStay ==
    ASSUME RateInv, RowsApart', RowsKept, rd' = rd, buy' = buy,
           rcache' = rcache \/ rcache' = [data |-> NoRates, at |-> 0]
    PROVE  RateInv'
  <1>1. rnow \in Nat /\ rnow' \in Nat /\ rnow <= rnow'
    BY DEF RateInv, RowsApart, RowsKept
  <1>2. ReadBacked'
    BY <1>1, AllBackedStays DEF RateInv, ReadBacked
  <1>3. CacheBacked'
    <2>1. CASE rcache' = rcache
      BY <1>1, <2>1, AllBackedStays DEF RateInv, CacheBacked
    <2>2. CASE rcache' = [data |-> NoRates, at |-> 0]
      BY <1>1, <2>2 DEF CacheBacked, AllBacked, NoRates
    <2> QED BY <2>1, <2>2 DEF RateInv
  <1>4. BuyBacked'
    BY <1>1, AllBackedStays DEF RateInv, BuyBacked
  <1>5. RatesAreRecent'
    BY RecentStays DEF RateInv, ReadBacked
  <1> QED BY <1>2, <1>3, <1>4, <1>5 DEF RateInv

(* While nothing happens to the rows, what is backed is what was.          *)
LEMMA RateRowsSame ==
    ASSUME UNCHANGED <<rnow, rrows, lateEnds, clears, ending>>
    PROVE  /\ RowsApart' = RowsApart
           /\ \A data, at : AllBacked(data, at)' = AllBacked(data, at)
           /\ \A k, v, at : Backed(k, v, at)' = Backed(k, v, at)
  BY DEF RowsApart, AllBacked, Backed

(* A call that begins is answered from a cache that is young enough, or    *)
(* starts to read.                                                         *)
LEMMA RateGet ==
    ASSUME RateInv, NEW tx \in BOOLEAN, getRates(tx)
    PROVE  RateInv'
  <1>0. UNCHANGED <<rnow, rrows, lateEnds, clears, ending, rcache, buy>> /\ rnow \in Nat
    BY DEF getRates, Hit, RateInv, RowsApart
  <1>1. RowsApart' /\ CacheBacked' /\ BuyBacked'
    BY <1>0, RateRowsSame DEF RateInv, CacheBacked, BuyBacked
  <1>2. rd = IdleRead /\ tx = (buy.pc = "tx")
    BY DEF getRates, RateInv, ReadBacked
  <1>3. CASE ~tx /\ CacheValid
    <2>1. /\ rd' = [rd EXCEPT !.pc = "got", !.at = rnow, !.data = rcache.data]
          /\ rcache.data \in [Kinds -> Nat] /\ \A k \in Kinds : rcache.data[k] # 0
      BY <1>3 DEF getRates, Hit, RateInv, CacheBacked, AllBacked, CacheValid
    <2>2. rd' = [pc |-> "got", at |-> rnow, tx |-> FALSE, data |-> rcache.data]
      BY <1>2, <2>1 DEF IdleRead
    <2>3. ReadBacked'
      <3>1. rcache.data \in [Kinds -> Nat] /\ rnow \in Nat
        BY <1>0, <2>1
      <3>2. rd' \in [pc: {"idle", "read", "got", "failed"}, at: Nat, tx: BOOLEAN,
                     data: [Kinds -> Nat]]
        BY <2>2, <3>1
      <3>3. /\ rd'.pc = "got" /\ rd'.at = rnow /\ rd'.data = rcache.data
            /\ buy'.pc # "tx" /\ rd'.tx = FALSE /\ rnow' = rnow
        BY <1>0, <1>2, <1>3, <2>2
      <3>4. rd'.tx = (buy'.pc = "tx")
        BY <3>3, Zenon
      <3>5. rnow <= rnow
        BY <3>1
      <3> QED BY <2>1, <3>2, <3>3, <3>4, <3>5 DEF ReadBacked
    <2>4. RatesAreRecent'
      <3> SUFFICES ASSUME NEW k \in Kinds
                   PROVE  \E r \in rrows : /\ r.kind = k /\ r.val = rcache.data[k] /\ r.since <= rnow
                                           /\ r.until > rnow - RateTTL \/ r \in lateEnds
        BY <1>0, <2>2 DEF RatesAreRecent
      <3>1. Backed(k, rcache.data[k], rcache.at) /\ rcache.at \in Nat /\ rcache.at <= rnow
        BY <2>1 DEF RateInv, CacheBacked, AllBacked
      <3>2. PICK r \in rrows : /\ r.kind = k /\ r.val = rcache.data[k] /\ r.since <= rcache.at
                               /\ r.until >= rcache.at \/ r \in lateEnds
        BY <3>1 DEF Backed
      <3>3. r.since \in Nat /\ r.until \in Nat /\ RateTTL \in Nat /\ rnow - rcache.at < RateTTL
        BY <1>3, RatesAssumption DEF CacheValid, RatesAssumption, RateInv, RowsApart, RateRows
      <3> QED BY <1>0, <3>1, <3>2, <3>3
    <2> QED BY <1>1, <2>3, <2>4 DEF RateInv
  <1>4. CASE ~(~tx /\ CacheValid)
    <2>1. rd' = [pc |-> "read", at |-> rnow, tx |-> tx, data |-> NoRates]
      BY <1>4 DEF getRates, IdleRead
    <2>2. NoRates \in [Kinds -> Nat] /\ \A k \in Kinds : NoRates[k] = 0
      BY DEF NoRates
    <2>3. AllBacked(NoRates, rnow)
      BY <1>0, <2>2 DEF AllBacked
    <2>4. ReadBacked' /\ RatesAreRecent'
      BY <1>0, <1>2, <2>1, <2>2, <2>3, RateRowsSame DEF ReadBacked, RatesAreRecent
    <2> QED BY <1>1, <2>4 DEF RateInv
  <1> QED BY <1>3, <1>4

(* A query fills one kind; when all are filled the call has its answer and *)
(* the cache its entry.                                                    *)
LEMMA RateRead ==
    ASSUME RateInv, NEW k \in Kinds, readRate(k)
    PROVE  RateInv'
  <1> DEFINE v == InForce(k, rd.at)
             data == [rd.data EXCEPT ![k] = v]
             full == \A j \in Kinds : data[j] # 0
  <1>0. /\ UNCHANGED <<rnow, rrows, lateEnds, clears, ending, buy>> /\ rnow \in Nat
        /\ rd.pc = "read" /\ RowsApart
    BY DEF readRate, RateInv, RowsApart
  <1>1. /\ rd' = [rd EXCEPT !.pc = IF v = 0 THEN "failed" ELSE IF full THEN "got" ELSE "read",
                            !.data = data]
        /\ rcache' = IF full /\ ~rd.tx THEN [data |-> data, at |-> rd.at] ELSE rcache
    BY DEF readRate, Stamp
  <1>2. /\ AllBacked(rd.data, rd.at) /\ rd.at \in Nat /\ rd.data \in [Kinds -> Nat]
        /\ rd.tx \in BOOLEAN /\ rd.tx = (buy.pc = "tx") /\ rd.at <= rnow
    BY <1>0 DEF RateInv, ReadBacked
  <1>3. v \in Nat /\ (v # 0 => Backed(k, v, rd.at))
    BY <1>0, <1>2, InForceBacked
  <1>4. data \in [Kinds -> Nat] /\ AllBacked(data, rd.at)
    BY <1>2, <1>3 DEF AllBacked
  <1>5. /\ rd'.pc = (IF v = 0 THEN "failed" ELSE IF full THEN "got" ELSE "read")
        /\ rd'.at = rd.at /\ rd'.tx = rd.tx /\ rd'.data = data
        /\ rd' \in [pc: {"idle", "read", "got", "failed"}, at: Nat, tx: BOOLEAN,
                    data: [Kinds -> Nat]]
    BY <1>1, <1>2, <1>4 DEF RateInv, ReadBacked
  <1>6. ASSUME full PROVE v # 0 /\ \A j \in Kinds : data[j] # 0
    BY <1>2, <1>6
  <1>7. \A j \in Kinds : data[j] # 0 => Backed(j, data[j], rd.at)
    BY <1>4 DEF AllBacked
  <1> HIDE DEF v, data
  <1>8. ReadBacked'
    BY <1>0, <1>2, <1>4, <1>5, <1>6, RateRowsSame DEF ReadBacked
  <1>9. CacheBacked'
    BY <1>0, <1>1, <1>4, <1>6, RateRowsSame DEF CacheBacked, RateInv
  <1>10. RatesAreRecent'
    <2> SUFFICES ASSUME rd'.pc = "got", NEW j \in Kinds
                 PROVE  \E r \in rrows : /\ r.kind = j /\ r.val = data[j] /\ r.since <= rd.at
                                         /\ r.until > rd.at - RateTTL \/ r \in lateEnds
      BY <1>0, <1>5 DEF RatesAreRecent
    <2>1. full
      BY <1>5
    <2> QED BY <1>0, <1>2, <1>6, <1>7, <2>1, BackedIsRecent
  <1>11. RowsApart' /\ BuyBacked'
    BY <1>0, RateRowsSame DEF RateInv, BuyBacked
  <1> QED BY <1>8, <1>9, <1>10, <1>11 DEF RateInv

(* A total is a number.                                                    *)
LEMMA TotalIsNat ==
    ASSUME NEW data \in [Kinds -> Nat]
    PROVE  Total(data) \in Nat
  BY DEF Total, Kinds

(* The customer goes on with what was read, and reads anew.                *)
LEMMA RateBuy ==
    ASSUME RateInv, previewAnswered \/ firstCheck \/ bookAccepted \/ ratesMissing
    PROVE  RateInv'
  <1>0. /\ UNCHANGED <<rnow, rrows, lateEnds, clears, ending, rcache>> /\ rnow \in Nat
        /\ rd' = IdleRead
        /\ rd.data \in [Kinds -> Nat] /\ rd.at \in Nat
        /\ buy \in [pc: {"preview", "create", "tx", "booked", "refused"}, accepted: Nat,
                    total: Nat, rates: [Kinds -> Nat], at: Nat]
    BY DEF previewAnswered, firstCheck, bookAccepted, ratesMissing, RateInv, RowsApart,
           ReadBacked, BuyBacked
  <1>1. RowsApart' /\ CacheBacked'
    BY <1>0, RateRowsSame DEF RateInv, CacheBacked
  <1>2. NoRates \in [Kinds -> Nat] /\ rd'.pc = "idle" /\ rd'.tx = FALSE /\ rd'.at = 0
    BY <1>0 DEF NoRates, IdleRead
  <1>3. ReadBacked' /\ RatesAreRecent'
    BY <1>0, <1>2 DEF ReadBacked, RatesAreRecent, IdleRead
  <1>4. CASE bookAccepted /\ validateExpectedPrice(Total(rd.data))
    <2>1. /\ buy' = [buy EXCEPT !.pc = "booked", !.total = Total(rd.data), !.rates = rd.data,
                                !.at = rd.at]
          /\ buy.pc = "tx" /\ rd.pc = "got" /\ Total(rd.data) = buy.accepted
      BY <1>4 DEF bookAccepted, validateExpectedPrice
    <2>2. AllBacked(rd.data, rd.at) /\ \A k \in Kinds : rd.data[k] # 0
      BY <2>1 DEF RateInv, ReadBacked
    <2>3. Total(rd.data) \in Nat
      BY <1>0, TotalIsNat
    <2>4. BuyBacked'
      BY <1>0, <2>1, <2>2, <2>3, RateRowsSame DEF BuyBacked
    <2> QED BY <1>1, <1>3, <2>4 DEF RateInv
  <1>5. CASE ~(bookAccepted /\ validateExpectedPrice(Total(rd.data)))
    <2>1. /\ buy'.pc \in {"create", "tx", "refused"}
          /\ buy' \in [pc: {"preview", "create", "tx", "booked", "refused"}, accepted: Nat,
                       total: Nat, rates: [Kinds -> Nat], at: Nat]
      BY <1>0, <1>5, TotalIsNat DEF previewAnswered, firstCheck, bookAccepted, ratesMissing
    <2>2. BuyBacked'
      BY <2>1 DEF BuyBacked
    <2> QED BY <1>1, <1>3, <2>2 DEF RateInv
  <1> QED BY <1>4, <1>5

(* Every step keeps what was read and charged backed.                      *)
LEMMA RateStep == RateInv /\ [RateNext]_rateVars => RateInv'
  <1> SUFFICES ASSUME RateInv, [RateNext]_rateVars
               PROVE  RateInv'
    OBVIOUS
  <1>1. RowsApart' /\ RowsKept
    BY RateRowsStep DEF RateInv
  <1>2. CASE \E tx \in BOOLEAN : getRates(tx)
    BY <1>2, RateGet
  <1>3. CASE \E k \in Kinds : readRate(k)
    BY <1>3, RateRead
  <1>4. CASE previewAnswered \/ firstCheck \/ bookAccepted \/ ratesMissing
    BY <1>4, RateBuy
  <1>5. CASE \/ UNCHANGED rateVars \/ RTick \/ clearCache \/ endAddonRate
             \/ \E r \in NewRates : createRate(r)
             \/ \E r \in rrows : startEndAddonRate(r)
    <2>1. rd' = rd /\ buy' = buy /\ (rcache' = rcache \/ rcache' = [data |-> NoRates, at |-> 0])
      BY <1>5 DEF rateVars, RTick, clearCache, endAddonRate, createRate, startEndAddonRate
    <2> QED BY <1>1, <2>1, RateOthersStay
  <1> QED BY <1>2, <1>3, <1>4, <1>5 DEF RateNext

(***************************************************************************)
(* Whatever rates are added or ended while the cache is read, filled and   *)
(* cleared, one rate of a kind is in force, what getRates returns was in   *)
(* force less than RateTTL ago, and a booking is charged what the customer *)
(* accepted, at rates of its own instant, but for rates that were ended    *)
(* with an instant already past (createRate, endAddonRate, getRates,       *)
(* createBooking).                                                         *)
(***************************************************************************)
THEOREM RatesStaySound == RateSpec => []RatesSound
  <1>1. RateInv => RatesSound
    <2> SUFFICES ASSUME RateInv PROVE RatesSound
      OBVIOUS
    <2>1. RateTypeOK
      BY DEF RateInv, RateTypeOK, RowsApart, RateRows, ReadBacked, BuyBacked
    <2>2. OneRateInForce
      <3>1. \A r \in rrows : r \in RateRows
        BY DEF RateInv, RowsApart
      <3> QED BY <3>1 DEF RateInv, RowsApart, RateRows, OneRateInForce, isRateActive
    <2>3. ChargedAsAccepted
      BY DEF RateInv, BuyBacked, AllBacked, Backed, ChargedAsAccepted
    <2> QED BY <2>1, <2>2, <2>3 DEF RatesSound, RateInv
  <1> QED BY <1>1, RateInitInv, RateStep, PTL DEF RateSpec

-----------------------------------------------------------------------------
(* Referrals.                                                              *)

ReferralRows ==
    [status: {"NONE", "PENDING", "CONFIRMED", "COMPLETED", "CANCELLED"},
     pay: {"UNPAID", "PAID", "REFUND_PROCESSING"},
     ref: {"NONE", "RESERVED", "APPLIED", "REWARDED", "REVERSED"},
     discounted: BOOLEAN, credits: 0..MaxCredits,
     reward: {"NONE", "PENDING", "RELEASED", "REVERSED"}]

(* The states of a reservation that has used the discount up.               *)
Spent == {"APPLIED", "REWARDED"}

(* How far the discount of a booking and its reward have come together.    *)
ReferralRowsOk ==
    \A b \in GBookings :
       /\ gbook[b].status = "NONE" => gbook[b] = GNew /\ gtx[b].to = "-"
       /\ gbook[b].status = "PENDING" => gbook[b].pay = "UNPAID" /\ gbook[b].ref \notin Spent
       /\ gbook[b].ref = "RESERVED" => /\ gbook[b].status = "PENDING"
                                       /\ gbook[b].reward = "PENDING"
       /\ gbook[b].reward = "PENDING" =>
             \/ gbook[b].ref = "RESERVED"
             \/ gbook[b].ref = "APPLIED" /\ gbook[b].status \in {"CONFIRMED", "COMPLETED"}
       /\ gbook[b].reward = "RELEASED" => /\ gbook[b].status = "COMPLETED"
                                          /\ gbook[b].ref = "REWARDED"

(* A customer has the discount reserved for one booking, or spent on one.  *)
OneClaim ==
    /\ \A b \in GBookings : /\ gbook[b].ref \in Spent => GUser[b] \in gused
                            /\ gbook[b].ref = "RESERVED" => GUser[b] \notin gused
    /\ \A b, c \in GBookings : b # c /\ GUser[b] = GUser[c] =>
          /\ ~(gbook[b].ref = "RESERVED" /\ gbook[c].ref = "RESERVED")
          /\ ~(gbook[b].ref \in Spent /\ gbook[c].ref \in Spent)

PendingRewards  == {b \in GBookings : gbook[b].reward = "PENDING"}
ReleasedRewards == {b \in GBookings : gbook[b].reward = "RELEASED"}
OpenReleases    == {b \in GBookings : gtx[b].to = "release"}
OpenCounts      == {b \in GBookings : gtx[b].to # "-"}

(* The counters and what the open transactions will still write to them.   *)
CountersOk ==
    /\ gstats.granted + RewardAmount * Cardinality(OpenReleases)
          = RewardAmount * Cardinality(ReleasedRewards)
    /\ gclean =>
          /\ gstats.pending = RewardAmount * (Cardinality(PendingRewards) + Cardinality(OpenCounts))
          /\ \A b \in OpenCounts : gtx[b].seen = gstats.pending

(* The inductive invariant of the referrals.                                *)
ReferralInv == GTypeOK /\ ReferralRowsOk /\ OneClaim /\ CountersOk /\ CreditsNotOverspent

(* The larger of a number and zero.                                         *)
LEMMA MaxZero ==
    ASSUME NEW x \in Int
    PROVE  Max({0, x}) = IF x > 0 THEN x ELSE 0
  <1> DEFINE m == IF x > 0 THEN x ELSE 0
  <1>1. m \in {0, x} /\ \A y \in {0, x} : m >= y
    OBVIOUS
  <1>2. \A z \in {0, x} : (\A y \in {0, x} : z >= y) => z = m
    OBVIOUS
  <1> HIDE DEF m
  <1>3. Max({0, x}) = m
    BY <1>1, <1>2 DEF Max
  <1> QED BY <1>3 DEF m

(* The smaller of two numbers.                                              *)
LEMMA MinTwo ==
    ASSUME NEW x \in Int, NEW z \in Int
    PROVE  Min({x, z}) = IF x <= z THEN x ELSE z
  <1> DEFINE m == IF x <= z THEN x ELSE z
  <1>1. m \in {x, z} /\ \A y \in {x, z} : m <= y
    OBVIOUS
  <1>2. \A n \in {x, z} : (\A y \in {x, z} : n <= y) => n = m
    OBVIOUS
  <1> HIDE DEF m
  <1>3. Min({x, z}) = m
    BY <1>1, <1>2 DEF Min
  <1> QED BY <1>3 DEF m

(* The credits a booking commits.                                          *)
Commits(b) ==
    IF gbook[b].pay = "PAID" \/ (gbook[b].pay = "UNPAID" /\ gbook[b].status # "CANCELLED")
    THEN gbook[b].credits ELSE 0

CommitsOf(u) == [b \in BookingsOf(u) |-> Commits(b)]

(* The bookings of one user are finitely many.                              *)
LEMMA BookingsFinite ==
    ASSUME NEW u
    PROVE  IsFiniteSet(BookingsOf(u)) /\ BookingsOf(u) \subseteq GBookings
  BY GAssumption, FS_Subset DEF GAssumption, BookingsOf

CommitsAreNat == \A b \in GBookings : Commits(b) \in Nat

(* What one booking commits of a user's credits is a number.                *)
LEMMA CommitsNat == GTypeOK => CommitsAreNat
  BY GAssumption DEF GTypeOK, Commits, CommitsAreNat, GAssumption

(* What a customer has committed is the sum over his bookings.             *)
CommittedIsSum ==
    \A u : \E h \in [SUBSET BookingsOf(u) -> Nat] :
        /\ SumEq(h, CommitsOf(u), SUBSET BookingsOf(u))
        /\ Committed(u) = h[BookingsOf(u)]

(* The fold that adds up a user's commitments is a sum over a set.          *)
LEMMA CommittedSum == GTypeOK => CommittedIsSum
  <1> SUFFICES ASSUME GTypeOK, NEW u
               PROVE  \E h \in [SUBSET BookingsOf(u) -> Nat] :
                         /\ SumEq(h, CommitsOf(u), SUBSET BookingsOf(u))
                         /\ Committed(u) = h[BookingsOf(u)]
    BY DEF CommittedIsSum
  <1> DEFINE S == BookingsOf(u)
             W(b) == IF gbook[b].pay = "PAID"
                        \/ (gbook[b].pay = "UNPAID" /\ gbook[b].status # "CANCELLED")
                     THEN gbook[b].credits ELSE 0
             IsFold(it) == it = [s \in SUBSET S |->
                              IF s = {} THEN 0
                              ELSE LET x == CHOOSE x \in s : TRUE IN W(x) + it[s \ {x}]]
             fold == CHOOSE it : IsFold(it)
  <1>1. Committed(u) = fold[S]
    BY DEF Committed, MapThenSumSet, MapThenFoldSet
  <1>2. IsFiniteSet(S) /\ CommitsOf(u) \in [S -> Nat]
    BY BookingsFinite, CommitsNat DEF CommitsOf, CommitsAreNat
  <1>3. \A s \in SUBSET S : s # {} => Pick(s) \in s /\ CommitsOf(u)[Pick(s)] = W(Pick(s))
    BY PickIn DEF CommitsOf, Commits
  <1>4. PICK g \in [SUBSET S -> Nat] : SumEq(g, CommitsOf(u), SUBSET S)
    BY <1>2, SumExists
  <1>5. g = [s \in SUBSET S |-> g[s]]
    BY <1>4
  <1>6. IsFold(g)
    <2>1. \A s \in SUBSET S :
            g[s] = IF s = {} THEN 0 ELSE LET x == CHOOSE x \in s : TRUE IN W(x) + g[s \ {x}]
      BY <1>3, <1>4 DEF SumEq, Pick
    <2> QED BY <1>5, <2>1
  <1>7. IsFold(fold)
    <2> HIDE DEF IsFold
    <2> QED BY <1>6
  <1> HIDE DEF fold
  <1>8. fold = [s \in SUBSET S |-> IF s = {} THEN 0 ELSE CommitsOf(u)[Pick(s)] + fold[s \ {Pick(s)}]]
    BY <1>3, <1>7 DEF Pick
  <1> HIDE DEF IsFold, W, S
  <1>9. SumEq(fold, CommitsOf(u), SUBSET S)
    BY <1>8 DEF SumEq
  <1>10. fold[S] = g[S]
    BY <1>2, <1>4, <1>9, SumUnique
  <1> QED BY <1>1, <1>4, <1>10 DEF S

(* So the sum is a number too.                                              *)
LEMMA CommittedNat == GTypeOK => \A u : Committed(u) \in Nat
  <1> SUFFICES ASSUME GTypeOK, NEW u PROVE Committed(u) \in Nat
    OBVIOUS
  <1>1. PICK h \in [SUBSET BookingsOf(u) -> Nat] : Committed(u) = h[BookingsOf(u)]
    BY CommittedSum DEF CommittedIsSum
  <1> QED BY <1>1

(* The sums after a step.                                                  *)
LEMMA CommittedNext == GTypeOK' => CommittedIsSum' /\ CommitsAreNat'
  BY CommittedSum, CommitsNat, PTL

(* A step that changes what one booking commits changes the sum by that.   *)
LEMMA CommittedStep ==
    ASSUME GTypeOK, GTypeOK', NEW u, NEW b \in GBookings,
           \A c \in GBookings \ {b} : Commits(c)' = Commits(c)
    PROVE  Committed(u)' = Committed(u) + IF GUser[b] = u THEN Commits(b)' - Commits(b) ELSE 0
  <1> DEFINE S == BookingsOf(u)
             w == CommitsOf(u)
             v == CommitsOf(u)'
  <1>1. PICK g \in [SUBSET S -> Nat] : SumEq(g, w, SUBSET S) /\ Committed(u) = g[S]
    BY CommittedSum DEF CommittedIsSum
  <1>2. PICK h \in [SUBSET S -> Nat] : SumEq(h, v, SUBSET S) /\ Committed(u)' = h[S]
    BY CommittedNext DEF CommittedIsSum
  <1>3. IsFiniteSet(S) /\ S \subseteq GBookings /\ (b \in S <=> GUser[b] = u)
    BY BookingsFinite DEF BookingsOf
  <1>4. w \in [S -> Nat] /\ \A c \in S : w[c] = Commits(c)
    BY <1>3, CommitsNat DEF CommitsOf, CommitsAreNat
  <1>5. v \in [S -> Nat] /\ \A c \in S : v[c] = Commits(c)'
    BY <1>3, CommittedNext DEF CommitsOf, CommitsAreNat
  <1>6. SameBut(w, v, b, S)
    BY <1>3, <1>4, <1>5 DEF SameBut
  <1> HIDE DEF S, w, v
  <1>7. h[S] = g[S] + IF b \in S THEN v[b] - w[b] ELSE 0
    <2>1. /\ IsFiniteSet(S) /\ w \in [S -> Nat] /\ v \in [S -> Nat]
          /\ SumEq(g, w, SUBSET S) /\ SumEq(h, v, SUBSET S)
      BY <1>1, <1>2, <1>3, <1>4, <1>5
    <2> QED BY <1>6, <2>1, SumDelta, SMTT(60)
  <1> QED BY <1>1, <1>2, <1>3, <1>4, <1>5, <1>7

(* A step that changes what no booking commits leaves the sum.             *)
LEMMA CommittedStays ==
    ASSUME GTypeOK, GTypeOK', NEW u, \A c \in GBookings : Commits(c)' = Commits(c)
    PROVE  Committed(u)' = Committed(u)
  <1> DEFINE S == BookingsOf(u)
             w == CommitsOf(u)
  <1>1. PICK g \in [SUBSET S -> Nat] : SumEq(g, w, SUBSET S) /\ Committed(u) = g[S]
    BY CommittedSum DEF CommittedIsSum
  <1>2. PICK h \in [SUBSET S -> Nat] : SumEq(h, CommitsOf(u)', SUBSET S) /\ Committed(u)' = h[S]
    BY CommittedNext DEF CommittedIsSum
  <1>3. IsFiniteSet(S) /\ S \subseteq GBookings
    BY BookingsFinite
  <1>4. CommitsOf(u)' = w
    BY <1>3 DEF CommitsOf
  <1>5. w \in [S -> Nat]
    BY <1>3, CommitsNat DEF CommitsOf, CommitsAreNat
  <1> HIDE DEF S, w
  <1>6. SumEq(h, w, SUBSET S)
    BY <1>2, <1>4
  <1>7. h[S] = g[S]
    BY <1>1, <1>2, <1>3, <1>5, <1>6, SumUnique
  <1> QED BY <1>1, <1>2, <1>7

(* Sets of bookings are finite.                                            *)
LEMMA GSets ==
    ASSUME NEW S \in SUBSET GBookings
    PROVE  /\ IsFiniteSet(S) /\ Cardinality(S) \in Nat
           /\ \A b : b \notin S => Cardinality(S \cup {b}) = Cardinality(S) + 1
           /\ \A b \in S : Cardinality(S \ {b}) = Cardinality(S) - 1
           /\ Cardinality(S) = 0 <=> S = {}
  BY GAssumption, FS_Subset, FS_CardinalityType, FS_AddElement, FS_RemoveElement, FS_EmptySet
     DEF GAssumption

(* Products by the reward.                                                 *)
LEMMA RewardTimes ==
    ASSUME NEW n \in Int
    PROVE  /\ RewardAmount * n \in Int /\ RewardAmount \in Nat \ {0}
           /\ RewardAmount * (n + 1) = RewardAmount * n + RewardAmount
           /\ RewardAmount * (n - 1) = RewardAmount * n - RewardAmount
           /\ n >= 0 => RewardAmount * n >= 0
           /\ RewardAmount * 0 = 0
  BY GAssumption DEF GAssumption

(* What is shown and what is verified is within what was earned.           *)
LEMMA CappedWithinEarned ==
    ASSUME GTypeOK, CreditsNotOverspent, NEW u
    PROVE  /\ getCappedReferralCreditBalance(u) \in 0..MaxCredits
           /\ u = Referrer => getCappedReferralCreditBalance(u) <= Earned - Committed(Referrer)
           /\ Earned \in Nat /\ Earned = RewardAmount * Cardinality(ReleasedRewards)
  <1>1. Earned = RewardAmount * Cardinality(ReleasedRewards) /\ Cardinality(ReleasedRewards) \in Nat
    BY GSets DEF Earned, ReleasedRewards
  <1>2. Earned \in Nat
    <2> DEFINE n == Cardinality(ReleasedRewards)
    <2> HIDE DEF n
    <2>1. RewardAmount * n \in Int /\ RewardAmount * n >= 0
      BY <1>1, RewardTimes DEF n
    <2> QED BY <1>1, <2>1 DEF n
  <1>3. Committed(Referrer) \in Nat /\ MaxCredits \in Nat
    BY CommittedNat, GAssumption DEF GAssumption
  <1> DEFINE x == Earned - Committed(Referrer)
  <1>4. x \in Int /\ x >= 0
    BY <1>2, <1>3 DEF CreditsNotOverspent
  <1>5. CASE u = Referrer
    <2>1. getCappedReferralCreditBalance(u) = Min({MaxCredits, Max({0, x})})
      BY <1>5 DEF getCappedReferralCreditBalance
    <2> HIDE DEF x
    <2>2. Max({0, x}) \in Nat /\ Max({0, x}) <= x
      BY <1>4, MaxZero
    <2>3. Min({MaxCredits, Max({0, x})}) \in 0..MaxCredits /\ Min({MaxCredits, Max({0, x})}) <= x
      BY <1>3, <1>4, <2>2, MinTwo
    <2> QED BY <1>1, <1>2, <2>1, <2>3 DEF x
  <1>6. CASE u # Referrer
    BY <1>1, <1>2, <1>3, <1>6 DEF getCappedReferralCreditBalance
  <1> QED BY <1>5, <1>6

(* More rewards never add up to less.                                       *)
LEMMA RewardMono ==
    ASSUME NEW m \in Nat, NEW n \in Nat, m <= n
    PROVE  RewardAmount * m <= RewardAmount * n
  <1>1. RewardAmount * (n - m) = RewardAmount * n - RewardAmount * m
    BY GAssumption DEF GAssumption
  <1>2. n - m \in Int /\ n - m >= 0
    OBVIOUS
  <1>3. RewardAmount * (n - m) >= 0
    BY <1>2, RewardTimes
  <1>4. RewardAmount * m \in Int /\ RewardAmount * n \in Int
    BY RewardTimes
  <1> QED BY <1>1, <1>3, <1>4

(* A transaction that goes on to the counters takes a pending reward along. *)
LEMMA CountersMove ==
    ASSUME GTypeOK, CountersOk, NEW b \in GBookings, NEW to \in {"release", "reverse"},
           gtx[b].to = "-", gbook[b].reward = "PENDING",
           gtx' = [gtx EXCEPT ![b] = [to |-> to, seen |-> gstats.pending]],
           UNCHANGED <<gstats, gclean>>,
           \A c \in GBookings \ {b} : gbook'[c].reward = gbook[c].reward,
           gbook'[b].reward = IF to = "release" THEN "RELEASED" ELSE "REVERSED"
    PROVE  CountersOk'
  <1>1. /\ gtx'[b].to = to /\ gtx'[b].seen = gstats.pending
        /\ \A c \in GBookings \ {b} : gtx'[c] = gtx[c]
    BY DEF GTypeOK
  <1>2. /\ PendingRewards' = PendingRewards \ {b} /\ b \in PendingRewards
        /\ OpenCounts' = OpenCounts \cup {b} /\ b \notin OpenCounts
        /\ b \notin ReleasedRewards /\ b \notin OpenReleases
    BY <1>1 DEF PendingRewards, OpenCounts, ReleasedRewards, OpenReleases
  <1>3. /\ Cardinality(PendingRewards') = Cardinality(PendingRewards) - 1
        /\ Cardinality(OpenCounts') = Cardinality(OpenCounts) + 1
        /\ Cardinality(PendingRewards) \in Nat /\ Cardinality(OpenCounts) \in Nat
    <2>1. PendingRewards \subseteq GBookings /\ OpenCounts \subseteq GBookings
      BY DEF PendingRewards, OpenCounts
    <2> QED BY <1>2, <2>1, GSets
  <1>4. gclean' => /\ gstats'.pending = RewardAmount *
                         (Cardinality(PendingRewards') + Cardinality(OpenCounts'))
                   /\ \A c \in OpenCounts' : gtx'[c].seen = gstats'.pending
    <2>1. Cardinality(PendingRewards') + Cardinality(OpenCounts')
            = Cardinality(PendingRewards) + Cardinality(OpenCounts)
      BY <1>3
    <2> QED BY <1>1, <1>2, <2>1 DEF CountersOk, OpenCounts
  <1>5. CASE to = "reverse"
    <2>1. ReleasedRewards' = ReleasedRewards /\ OpenReleases' = OpenReleases
      BY <1>1, <1>5 DEF ReleasedRewards, OpenReleases
    <2> QED BY <1>4, <2>1 DEF CountersOk
  <1>6. CASE to = "release"
    <2>1. ReleasedRewards' = ReleasedRewards \cup {b} /\ OpenReleases' = OpenReleases \cup {b}
      BY <1>1, <1>6 DEF ReleasedRewards, OpenReleases
    <2> DEFINE m == Cardinality(OpenReleases)
               n == Cardinality(ReleasedRewards)
    <2>2. /\ Cardinality(ReleasedRewards') = n + 1 /\ Cardinality(OpenReleases') = m + 1
          /\ n \in Nat /\ m \in Nat
      <3>1. ReleasedRewards \subseteq GBookings /\ OpenReleases \subseteq GBookings
        BY DEF ReleasedRewards, OpenReleases
      <3> QED BY <1>2, <2>1, <3>1, GSets
    <2>3. gstats.granted + RewardAmount * m = RewardAmount * n /\ gstats.granted \in Nat
      BY DEF CountersOk, GTypeOK
    <2> HIDE DEF m, n
    <2>4. gstats'.granted + RewardAmount * (m + 1) = RewardAmount * (n + 1)
      <3>1. /\ RewardAmount * (m + 1) = RewardAmount * m + RewardAmount
            /\ RewardAmount * (n + 1) = RewardAmount * n + RewardAmount
            /\ RewardAmount * m \in Int /\ RewardAmount * n \in Int /\ RewardAmount \in Int
        BY <2>2, RewardTimes
      <3> QED BY <2>3, <3>1
    <2> QED BY <1>4, <2>2, <2>4 DEF CountersOk
  <1> QED BY <1>5, <1>6

(* A step that leaves rewards and counters alone.                          *)
LEMMA CountersStay ==
    ASSUME CountersOk, UNCHANGED <<gstats, gclean, gtx>>,
           \A c \in GBookings : gbook'[c].reward = gbook[c].reward
    PROVE  CountersOk'
  <1>1. /\ PendingRewards' = PendingRewards /\ OpenCounts' = OpenCounts
        /\ ReleasedRewards' = ReleasedRewards /\ OpenReleases' = OpenReleases
    BY DEF PendingRewards, OpenCounts, ReleasedRewards, OpenReleases
  <1> QED BY <1>1 DEF CountersOk

(* A step that commits no more credits and takes no reward back.           *)
LEMMA CreditsStay ==
    ASSUME GTypeOK, GTypeOK', CreditsNotOverspent, NEW b \in GBookings,
           \A c \in GBookings \ {b} : Commits(c)' = Commits(c), Commits(b)' <= Commits(b),
           \A c \in GBookings : gbook[c].reward = "RELEASED" => gbook'[c].reward = "RELEASED"
    PROVE  CreditsNotOverspent'
  <1>1. Committed(Referrer) \in Nat /\ Commits(b) \in Nat /\ Commits(b)' \in Nat
    BY CommittedNat, CommitsNat, CommittedNext DEF CommitsAreNat
  <1>2. Committed(Referrer)' <= Committed(Referrer)
    <2>1. Committed(Referrer)' = Committed(Referrer)
            + IF GUser[b] = Referrer THEN Commits(b)' - Commits(b) ELSE 0
      BY CommittedStep
    <2> QED BY <1>1, <2>1
  <1>3. ReleasedRewards \subseteq ReleasedRewards' /\ ReleasedRewards' \subseteq GBookings
    BY DEF ReleasedRewards
  <1>4. /\ Cardinality(ReleasedRewards) <= Cardinality(ReleasedRewards')
        /\ Cardinality(ReleasedRewards) \in Nat /\ Cardinality(ReleasedRewards') \in Nat
    BY <1>3, GSets, FS_Subset
  <1>5. /\ Earned = RewardAmount * Cardinality(ReleasedRewards)
        /\ Earned' = RewardAmount * Cardinality(ReleasedRewards')
    BY DEF Earned, ReleasedRewards
  <1>6. Earned <= Earned' /\ Earned \in Int /\ Earned' \in Int
    BY <1>4, <1>5, RewardMono, RewardTimes
  <1>7. Committed(Referrer)' \in Int
    <2>1. PICK h \in [SUBSET BookingsOf(Referrer) -> Nat] :
              Committed(Referrer)' = h[BookingsOf(Referrer)]
      BY CommittedNext DEF CommittedIsSum
    <2> QED BY <2>1
  <1> QED BY <1>1, <1>2, <1>6, <1>7 DEF CreditsNotOverspent

(* The row of one booking changes, and no customer's claim is widened.     *)
LEMMA RowChange ==
    ASSUME ReferralInv, NEW b \in GBookings, NEW row \in ReferralRows,
           gbook' = [gbook EXCEPT ![b] = row],
           row.ref = gbook[b].ref \/ row.ref \notin Spent \cup {"RESERVED"}
               \/ (row.ref \in Spent /\ gbook[b].ref \in Spent),
           UNCHANGED <<gprice, gused, gclean>>,
           gtx' \in [GBookings -> [to: {"-", "release", "reverse"}, seen: Nat]],
           gstats' \in [pending: Nat, granted: Nat]
    PROVE  /\ GTypeOK' /\ OneClaim' /\ gbook'[b] = row
           /\ \A c \in GBookings \ {b} : gbook'[c] = gbook[c]
  <1>1. /\ gbook'[b] = row /\ gbook' \in [GBookings -> ReferralRows]
        /\ \A c \in GBookings \ {b} : gbook'[c] = gbook[c]
    BY DEF ReferralInv, GTypeOK, ReferralRows
  <1>2. GTypeOK'
    BY <1>1 DEF ReferralInv, GTypeOK, ReferralRows
  <1>3. OneClaim'
    <2>1. "RESERVED" \notin Spent
      BY DEF Spent
    <2>2. \A c \in GBookings : /\ gbook'[c].ref \in Spent => gbook[c].ref \in Spent
                               /\ gbook'[c].ref = "RESERVED" => gbook[c].ref = "RESERVED"
      BY <1>1, <2>1
    <2> QED BY <2>2 DEF ReferralInv, OneClaim
  <1> QED BY <1>1, <1>2, <1>3

(* A preview changes what is promised only.                                *)
LEMMA PreviewKeeps ==
    ASSUME ReferralInv, NEW b \in GBookings, previewBooking(b)
    PROVE  ReferralInv'
  <1>1. UNCHANGED <<gbook, gused, gstats, gtx, gclean>>
    BY DEF previewBooking
  <1>2. getCappedReferralCreditBalance(GUser[b]) \in 0..MaxCredits /\ MaxCredits \in Nat
    BY CappedWithinEarned, GAssumption DEF ReferralInv, GAssumption
  <1>3. gprice' \in [GBookings -> [eligible: BOOLEAN, credits: 0..MaxCredits, shown: BOOLEAN]]
    <2>1. PICK q \in BOOLEAN, n \in 0..getCappedReferralCreditBalance(GUser[b]) :
            gprice' = [gprice EXCEPT ![b] =
              [eligible |-> q /\ checkReferralEligibilityForPricing(GUser[b]),
               credits |-> n, shown |-> TRUE]]
      BY DEF previewBooking, Qualifies
    <2>2. n \in 0..MaxCredits
      BY <1>2
    <2>3. (q /\ checkReferralEligibilityForPricing(GUser[b])) \in BOOLEAN
      OBVIOUS
    <2> QED BY <2>1, <2>2, <2>3 DEF ReferralInv, GTypeOK
  <1>4. GTypeOK' /\ ReferralRowsOk' /\ OneClaim'
    BY <1>1, <1>3 DEF ReferralInv, GTypeOK, ReferralRowsOk, OneClaim
  <1>5. CountersOk'
    BY <1>1, CountersStay DEF ReferralInv
  <1>6. CreditsNotOverspent'
    BY <1>1, <1>4, CommitsNat, CreditsStay DEF ReferralInv, Commits, CommitsAreNat
  <1> QED BY <1>4, <1>5, <1>6 DEF ReferralInv

(* A reservation that is released gives its reward up.                     *)
LEMMA ReleaseKeeps ==
    ASSUME ReferralInv, NEW b \in GBookings, releaseReferralReservation(b)
    PROVE  ReferralInv'
  <1> DEFINE row == Released(gbook[b])
  <1>1. /\ gbook' = [gbook EXCEPT ![b] = row]
        /\ gtx' = [gtx EXCEPT ![b] = [to |-> "reverse", seen |-> gstats.pending]]
        /\ UNCHANGED <<gprice, gused, gstats, gclean>> /\ gtx[b].to = "-"
        /\ gbook[b].ref = "RESERVED" /\ gbook[b].status = "PENDING" /\ gbook[b].pay = "UNPAID"
    BY DEF releaseReferralReservation, ThenCount, StaleReservations, GNoTx
  <1>2. gbook[b].reward = "PENDING" /\ gbook[b] \in ReferralRows
    BY <1>1 DEF ReferralInv, ReferralRowsOk, GTypeOK, ReferralRows
  <1>3. /\ row \in ReferralRows /\ row.ref = "REVERSED" /\ row.reward = "REVERSED"
        /\ row.status = "PENDING" /\ row.pay = "UNPAID" /\ row.credits = gbook[b].credits
    BY <1>1, <1>2 DEF Released, ReferralRows
  <1>4. /\ gtx' \in [GBookings -> [to: {"-", "release", "reverse"}, seen: Nat]]
        /\ gstats' \in [pending: Nat, granted: Nat]
        /\ \A c \in GBookings \ {b} : gtx'[c] = gtx[c]
    BY <1>1 DEF ReferralInv, GTypeOK
  <1> HIDE DEF row
  <1>5. /\ GTypeOK' /\ OneClaim' /\ gbook'[b] = row
        /\ \A c \in GBookings \ {b} : gbook'[c] = gbook[c]
    BY <1>1, <1>3, <1>4, RowChange DEF Spent
  <1>6. ReferralRowsOk'
    BY <1>3, <1>4, <1>5 DEF ReferralInv, ReferralRowsOk, Spent
  <1>7. CountersOk'
    BY <1>1, <1>2, <1>3, <1>5, CountersMove DEF ReferralInv
  <1>8. CreditsNotOverspent'
    <2>1. Commits(b)' = Commits(b)
      BY <1>1, <1>3, <1>5 DEF Commits
    <2>2. Commits(b) \in Nat
      BY CommitsNat DEF ReferralInv, CommitsAreNat
    <2>3. \A c \in GBookings \ {b} : Commits(c)' = Commits(c)
      BY <1>5 DEF Commits
    <2>4. \A c \in GBookings : gbook[c].reward = "RELEASED" => gbook'[c].reward = "RELEASED"
      BY <1>2, <1>5
    <2> QED BY <1>5, <2>1, <2>2, <2>3, <2>4, CreditsStay DEF ReferralInv
  <1> QED BY <1>5, <1>6, <1>7, <1>8 DEF ReferralInv

(* A payment spends the discount.                                          *)
LEMMA ConfirmKeeps ==
    ASSUME ReferralInv, NEW b \in GBookings, confirmFromPayment(b)
    PROVE  ReferralInv'
  <1> DEFINE r == gbook[b]
  <1>1. /\ r \in ReferralRows /\ r.status = "PENDING" /\ r.pay = "UNPAID" /\ r.ref \notin Spent
        /\ UNCHANGED <<gprice, gstats, gtx, gclean>> /\ gtx[b].to = "-"
    BY DEF confirmFromPayment, ReferralInv, GTypeOK, ReferralRows, ReferralRowsOk, GNoTx
  <1>2. /\ gbook' \in [GBookings -> ReferralRows]
        /\ \A c \in GBookings \ {b} : gbook'[c] = gbook[c]
        /\ gbook'[b].status = "CONFIRMED" /\ gbook'[b].pay = "PAID"
        /\ gbook'[b].ref = IF r.ref = "RESERVED" THEN "APPLIED" ELSE r.ref
        /\ gbook'[b].reward = r.reward /\ gbook'[b].credits = r.credits
    BY <1>1 DEF confirmFromPayment, ReferralInv, GTypeOK, ReferralRows
  <1>3. gused' = (IF r.ref = "RESERVED" THEN gused \cup {GUser[b]} ELSE gused)
        /\ gused' \subseteq GUsers
    BY DEF confirmFromPayment, ReferralInv, GTypeOK, GUsers
  <1>4. GTypeOK'
    BY <1>1, <1>2, <1>3 DEF ReferralInv, GTypeOK, ReferralRows
  <1>5. ReferralRowsOk'
    BY <1>1, <1>2 DEF ReferralInv, ReferralRowsOk, Spent
  <1>6. OneClaim'
    <2>1. CASE r.ref = "RESERVED"
      <3>1. /\ gbook'[b].ref = "APPLIED" /\ gused' = gused \cup {GUser[b]}
            /\ GUser[b] \notin gused
        BY <1>2, <1>3, <2>1 DEF ReferralInv, OneClaim
      <3>2. \A c \in GBookings \ {b} : GUser[c] = GUser[b] =>
                gbook'[c].ref # "RESERVED" /\ gbook'[c].ref \notin Spent
        BY <1>2, <2>1, <3>1 DEF ReferralInv, OneClaim
      <3> QED BY <1>2, <3>1, <3>2 DEF ReferralInv, OneClaim, Spent
    <2>2. CASE r.ref # "RESERVED"
      <3>1. gused' = gused /\ \A c \in GBookings : gbook'[c].ref = gbook[c].ref
        BY <1>2, <1>3, <2>2
      <3> QED BY <3>1 DEF ReferralInv, OneClaim
    <2> QED BY <2>1, <2>2
  <1>7. CountersOk'
    BY <1>1, <1>2, CountersStay DEF ReferralInv
  <1>8. CreditsNotOverspent'
    <2>1. Commits(b)' = Commits(b)
      BY <1>1, <1>2 DEF Commits
    <2>2. Commits(b) \in Nat
      BY CommitsNat DEF ReferralInv, CommitsAreNat
    <2>3. \A c \in GBookings \ {b} : Commits(c)' = Commits(c)
      BY <1>2 DEF Commits
    <2>4. \A c \in GBookings : gbook[c].reward = "RELEASED" => gbook'[c].reward = "RELEASED"
      BY <1>2
    <2> QED BY <1>4, <2>1, <2>2, <2>3, <2>4, CreditsStay DEF ReferralInv
  <1> QED BY <1>4, <1>5, <1>6, <1>7, <1>8 DEF ReferralInv

(* A booking that ends gives its credits back, and a reward that was still *)
(* pending is reversed.                                                    *)
LEMMA EndKeeps ==
    ASSUME ReferralInv, NEW b \in GBookings, cancelExpired(b) \/ cancelBooking(b)
    PROVE  ReferralInv'
  <1> DEFINE r == gbook[b]
             pending == r.reward = "PENDING"
  <1>1. /\ r \in ReferralRows /\ gtx[b].to = "-" /\ 0 \in 0..MaxCredits
        /\ UNCHANGED <<gprice, gused, gstats, gclean>>
    BY GAssumption DEF cancelExpired, cancelBooking, ThenCount, ReferralInv, GTypeOK, ReferralRows,
                       GNoTx, GAssumption
  <1>2. r.status = "PENDING" => (r.ref = "RESERVED" <=> pending) /\ r.reward # "RELEASED"
    BY <1>1 DEF ReferralInv, ReferralRowsOk, Spent
  <1>3. r.status = "CONFIRMED" => r.reward # "RELEASED" /\ r.ref # "RESERVED"
    BY <1>1 DEF ReferralInv, ReferralRowsOk
  <1>4. PICK row \in ReferralRows :
          /\ gbook' = [gbook EXCEPT ![b] = row]
          /\ row.status = "CANCELLED" /\ row.credits = 0
          /\ row.reward = IF pending THEN "REVERSED" ELSE r.reward
          /\ row.ref = IF r.ref = "RESERVED" THEN "REVERSED" ELSE r.ref
          /\ gtx' = IF pending
                    THEN [gtx EXCEPT ![b] = [to |-> "reverse", seen |-> gstats.pending]] ELSE gtx
    <2>1. CASE cancelExpired(b)
      <3> DEFINE x == [r EXCEPT !.status = "CANCELLED", !.credits = 0]
      <3>1. r.status = "PENDING"
        BY <2>1 DEF cancelExpired
      <3>2. x \in ReferralRows /\ x.status = "CANCELLED" /\ x.credits = 0 /\ x.ref = r.ref
            /\ x.reward = r.reward
        BY <1>1 DEF ReferralRows
      <3>3. CASE r.ref = "RESERVED"
        <4>1. /\ gbook' = [gbook EXCEPT ![b] = Released(x)]
              /\ gtx' = [gtx EXCEPT ![b] = [to |-> "reverse", seen |-> gstats.pending]]
          BY <2>1, <3>3 DEF cancelExpired, ThenCount
        <4> HIDE DEF x
        <4>2. /\ Released(x) \in ReferralRows /\ Released(x).status = "CANCELLED"
              /\ Released(x).credits = 0 /\ Released(x).ref = "REVERSED"
              /\ Released(x).reward = IF pending THEN "REVERSED" ELSE r.reward
          BY <3>2 DEF Released, ReferralRows
        <4> QED BY <1>2, <3>1, <3>3, <4>1, <4>2
      <3>4. CASE r.ref # "RESERVED"
        <4>1. gbook' = [gbook EXCEPT ![b] = x] /\ gtx' = gtx
          BY <2>1, <3>4 DEF cancelExpired
        <4> HIDE DEF x
        <4> QED BY <1>2, <3>1, <3>2, <3>4, <4>1
      <3> QED BY <3>3, <3>4
    <2>2. CASE cancelBooking(b)
      <3> DEFINE x == [r EXCEPT !.status = "CANCELLED", !.pay = "REFUND_PROCESSING",
                                !.credits = 0]
                 y == [x EXCEPT !.reward = "REVERSED"]
      <3>1. r.status = "CONFIRMED"
        BY <2>2 DEF cancelBooking
      <3>2. /\ x \in ReferralRows /\ x.status = "CANCELLED" /\ x.credits = 0 /\ x.ref = r.ref
            /\ x.reward = r.reward
            /\ y \in ReferralRows /\ y.status = "CANCELLED" /\ y.credits = 0 /\ y.ref = r.ref
            /\ y.reward = "REVERSED"
        BY <1>1 DEF ReferralRows
      <3>3. CASE pending
        <4>1. /\ gbook' = [gbook EXCEPT ![b] = y]
              /\ gtx' = [gtx EXCEPT ![b] = [to |-> "reverse", seen |-> gstats.pending]]
          BY <2>2, <3>3 DEF cancelBooking, ThenCount
        <4> HIDE DEF x, y
        <4> QED BY <1>3, <3>1, <3>2, <3>3, <4>1
      <3>4. CASE ~pending
        <4>1. gbook' = [gbook EXCEPT ![b] = x] /\ gtx' = gtx
          BY <2>2, <3>4 DEF cancelBooking
        <4> HIDE DEF x, y
        <4> QED BY <1>3, <3>1, <3>2, <3>4, <4>1
      <3> QED BY <3>3, <3>4
    <2> QED BY <2>1, <2>2
  <1>5. /\ gtx' \in [GBookings -> [to: {"-", "release", "reverse"}, seen: Nat]]
        /\ gstats' \in [pending: Nat, granted: Nat]
        /\ \A c \in GBookings \ {b} : gtx'[c] = gtx[c]
    BY <1>1, <1>4 DEF ReferralInv, GTypeOK
  <1>6. /\ GTypeOK' /\ OneClaim' /\ gbook'[b] = row
        /\ \A c \in GBookings \ {b} : gbook'[c] = gbook[c]
    BY <1>1, <1>4, <1>5, RowChange DEF Spent
  <1>7. r.status \in {"PENDING", "CONFIRMED"}
    BY DEF cancelExpired, cancelBooking
  <1>8. ReferralRowsOk'
    <2>1. row.reward \notin {"PENDING", "RELEASED"} /\ row.ref # "RESERVED"
      BY <1>2, <1>3, <1>4, <1>7
    <2> QED BY <1>4, <1>5, <1>6, <2>1 DEF ReferralInv, ReferralRowsOk
  <1>9. CountersOk'
    BY <1>1, <1>4, <1>6, CountersMove, CountersStay DEF ReferralInv
  <1>10. CreditsNotOverspent'
    <2>1. Commits(b)' = 0
      BY <1>4, <1>6 DEF Commits
    <2>2. Commits(b) \in Nat
      BY CommitsNat DEF ReferralInv, CommitsAreNat
    <2>3. \A c \in GBookings \ {b} : Commits(c)' = Commits(c)
      BY <1>6 DEF Commits
    <2>4. \A c \in GBookings : gbook[c].reward = "RELEASED" => gbook'[c].reward = "RELEASED"
      BY <1>2, <1>3, <1>6, <1>7
    <2> QED BY <1>6, <2>1, <2>2, <2>3, <2>4, CreditsStay DEF ReferralInv
  <1> QED BY <1>6, <1>8, <1>9, <1>10 DEF ReferralInv

(* The trip is over.                                                       *)
LEMMA CompleteKeeps ==
    ASSUME ReferralInv, NEW b \in GBookings, completeBooking(b)
    PROVE  ReferralInv'
  <1> DEFINE r == gbook[b]
             row == [r EXCEPT !.status = "COMPLETED"]
  <1>1. /\ r \in ReferralRows /\ r.status = "CONFIRMED" /\ gbook' = [gbook EXCEPT ![b] = row]
        /\ UNCHANGED <<gprice, gused, gstats, gtx, gclean>>
    BY DEF completeBooking, ReferralInv, GTypeOK, ReferralRows
  <1>2. /\ row \in ReferralRows /\ row.status = "COMPLETED" /\ row.ref = r.ref
        /\ row.reward = r.reward /\ row.credits = r.credits /\ row.pay = r.pay
    BY <1>1 DEF ReferralRows
  <1>3. /\ gtx' \in [GBookings -> [to: {"-", "release", "reverse"}, seen: Nat]]
        /\ gstats' \in [pending: Nat, granted: Nat]
    BY <1>1 DEF ReferralInv, GTypeOK
  <1> HIDE DEF row
  <1>4. /\ GTypeOK' /\ OneClaim' /\ gbook'[b] = row
        /\ \A c \in GBookings \ {b} : gbook'[c] = gbook[c]
    BY <1>1, <1>2, <1>3, RowChange
  <1>5. ReferralRowsOk'
    BY <1>1, <1>2, <1>4 DEF ReferralInv, ReferralRowsOk
  <1>6. CountersOk'
    BY <1>1, <1>2, <1>4, CountersStay DEF ReferralInv
  <1>7. CreditsNotOverspent'
    <2>1. Commits(b)' = Commits(b)
      BY <1>1, <1>2, <1>4 DEF Commits
    <2>2. Commits(b) \in Nat
      BY CommitsNat DEF ReferralInv, CommitsAreNat
    <2>3. \A c \in GBookings \ {b} : Commits(c)' = Commits(c)
      BY <1>4 DEF Commits
    <2>4. \A c \in GBookings : gbook[c].reward = "RELEASED" => gbook'[c].reward = "RELEASED"
      BY <1>2, <1>4
    <2> QED BY <1>4, <2>1, <2>2, <2>3, <2>4, CreditsStay DEF ReferralInv
  <1> QED BY <1>4, <1>5, <1>6, <1>7 DEF ReferralInv

(* The reward of a completed trip is released.                             *)
LEMMA RewardKeeps ==
    ASSUME ReferralInv, NEW b \in GBookings, processReferralCompletionForBooking(b)
    PROVE  ReferralInv'
  <1> DEFINE r == gbook[b]
             row == [r EXCEPT !.reward = "RELEASED", !.ref = "REWARDED"]
  <1>1. /\ r \in ReferralRows /\ r.status = "COMPLETED" /\ r.ref = "APPLIED"
        /\ r.reward = "PENDING" /\ gtx[b].to = "-"
        /\ UNCHANGED <<gprice, gstats, gclean>>
    BY DEF processReferralCompletionForBooking, MayRelease, ReferralInv, GTypeOK, ReferralRows, GNoTx
  <1>2. gused' = gused
    BY <1>1 DEF processReferralCompletionForBooking, ReferralInv, OneClaim, Spent
  <1>3. CASE UNCHANGED <<gbook, gtx>>
    <2>1. GTypeOK' /\ ReferralRowsOk' /\ OneClaim'
      BY <1>1, <1>2, <1>3 DEF ReferralInv, GTypeOK, ReferralRowsOk, OneClaim
    <2>2. CountersOk'
      BY <1>1, <1>3, CountersStay DEF ReferralInv
    <2>3. CreditsNotOverspent'
      BY <1>3, <2>1, CommitsNat, CreditsStay DEF ReferralInv, Commits, CommitsAreNat
    <2> QED BY <2>1, <2>2, <2>3 DEF ReferralInv
  <1>4. CASE ThenCount(b, row, "release")
    <2>1. /\ gbook' = [gbook EXCEPT ![b] = row]
          /\ gtx' = [gtx EXCEPT ![b] = [to |-> "release", seen |-> gstats.pending]]
      BY <1>4 DEF ThenCount
    <2>2. /\ row \in ReferralRows /\ row.status = "COMPLETED" /\ row.ref = "REWARDED"
          /\ row.reward = "RELEASED" /\ row.credits = r.credits /\ row.pay = r.pay
      BY <1>1 DEF ReferralRows
    <2>3. /\ gtx' \in [GBookings -> [to: {"-", "release", "reverse"}, seen: Nat]]
          /\ gstats' \in [pending: Nat, granted: Nat]
          /\ \A c \in GBookings \ {b} : gtx'[c] = gtx[c]
      BY <1>1, <2>1 DEF ReferralInv, GTypeOK
    <2> HIDE DEF row
    <2>4. /\ GTypeOK' /\ OneClaim' /\ gbook'[b] = row
          /\ \A c \in GBookings \ {b} : gbook'[c] = gbook[c]
      BY <1>1, <1>2, <2>1, <2>2, <2>3, RowChange DEF Spent
    <2>5. ReferralRowsOk'
      BY <2>2, <2>3, <2>4 DEF ReferralInv, ReferralRowsOk
    <2>6. CountersOk'
      BY <1>1, <2>1, <2>2, <2>4, CountersMove DEF ReferralInv
    <2>7. CreditsNotOverspent'
      <3>1. Commits(b)' = Commits(b)
        BY <1>1, <2>2, <2>4 DEF Commits
      <3>2. Commits(b) \in Nat
        BY CommitsNat DEF ReferralInv, CommitsAreNat
      <3>3. \A c \in GBookings \ {b} : Commits(c)' = Commits(c)
        BY <2>4 DEF Commits
      <3>4. \A c \in GBookings : gbook[c].reward = "RELEASED" => gbook'[c].reward = "RELEASED"
        BY <2>2, <2>4
      <3> QED BY <2>4, <3>1, <3>2, <3>3, <3>4, CreditsStay DEF ReferralInv
    <2> QED BY <2>4, <2>5, <2>6, <2>7 DEF ReferralInv
  <1> QED BY <1>3, <1>4 DEF processReferralCompletionForBooking

(* The counters are written back.                                          *)
LEMMA WriteStatsKeeps ==
    ASSUME ReferralInv, NEW b \in GBookings, writeStats(b)
    PROVE  ReferralInv'
  <1> DEFINE x == gtx[b].seen - RewardAmount
  <1>1. /\ gtx[b].to \in {"release", "reverse"} /\ gtx[b].seen \in Nat
        /\ UNCHANGED <<gbook, gprice, gused>>
        /\ gstats' = [pending |-> Max({0, x}),
                      granted |-> gstats.granted + IF gtx[b].to = "release" THEN RewardAmount ELSE 0]
        /\ gtx' = [gtx EXCEPT ![b] = GNoTx] /\ gclean' = (gclean /\ ~Overlaps(b))
    BY DEF writeStats, ReferralInv, GTypeOK
  <1>2. RewardAmount \in Nat /\ x \in Int /\ gstats.pending \in Nat /\ gstats.granted \in Nat
    BY <1>1, GAssumption DEF GAssumption, ReferralInv, GTypeOK
  <1>3. Max({0, x}) = (IF x > 0 THEN x ELSE 0) /\ Max({0, x}) \in Nat
    <2> HIDE DEF x
    <2> QED BY <1>2, MaxZero
  <1>4. /\ gtx' \in [GBookings -> [to: {"-", "release", "reverse"}, seen: Nat]]
        /\ gtx'[b].to = "-" /\ \A c \in GBookings \ {b} : gtx'[c] = gtx[c]
    BY <1>1 DEF ReferralInv, GTypeOK, GNoTx
  <1>5. gstats' \in [pending: Nat, granted: Nat] /\ gclean' \in BOOLEAN
    BY <1>1, <1>2, <1>3 DEF ReferralInv, GTypeOK
  <1>6. GTypeOK' /\ ReferralRowsOk' /\ OneClaim'
    BY <1>1, <1>4, <1>5 DEF ReferralInv, GTypeOK, ReferralRowsOk, OneClaim
  <1>7. gstats'.granted + RewardAmount * Cardinality(OpenReleases')
          = RewardAmount * Cardinality(ReleasedRewards')
    <2> DEFINE m == Cardinality(OpenReleases)
               n == Cardinality(ReleasedRewards)
    <2>1. ReleasedRewards' = ReleasedRewards /\ OpenReleases' = OpenReleases \ {b}
      BY <1>1, <1>4 DEF ReleasedRewards, OpenReleases
    <2>2. OpenReleases \subseteq GBookings
      BY DEF OpenReleases
    <2>3. gstats.granted + RewardAmount * m = RewardAmount * n /\ m \in Nat
      BY <2>2, GSets DEF ReferralInv, CountersOk
    <2>4. CASE gtx[b].to = "release"
      <3>1. Cardinality(OpenReleases') = m - 1 /\ gstats'.granted = gstats.granted + RewardAmount
        BY <1>1, <2>1, <2>2, <2>4, GSets DEF OpenReleases
      <3> HIDE DEF m, n
      <3>2. RewardAmount * (m - 1) = RewardAmount * m - RewardAmount /\ RewardAmount * m \in Int
        BY <2>3, RewardTimes
      <3>3. gstats'.granted + RewardAmount * (m - 1) = RewardAmount * n
        BY <1>2, <2>3, <3>1, <3>2
      <3> QED BY <2>1, <3>1, <3>3 DEF n
    <2>5. CASE gtx[b].to # "release"
      <3>1. OpenReleases' = OpenReleases /\ gstats'.granted = gstats.granted
        BY <1>1, <1>2, <2>1, <2>5 DEF OpenReleases
      <3> QED BY <2>1, <2>3, <3>1
    <2> QED BY <2>4, <2>5
  <1>8. ASSUME gclean'
        PROVE  /\ gstats'.pending = RewardAmount *
                      (Cardinality(PendingRewards') + Cardinality(OpenCounts'))
               /\ \A c \in OpenCounts' : gtx'[c].seen = gstats'.pending
    <2>1. gclean /\ OpenCounts = {b} /\ OpenCounts' = {} /\ PendingRewards' = PendingRewards
      BY <1>1, <1>4, <1>8 DEF Overlaps, OpenCounts, PendingRewards
    <2>2. Cardinality({b}) = 1 /\ Cardinality({}) = 0
      BY FS_Singleton, FS_EmptySet
    <2> DEFINE p == Cardinality(PendingRewards)
    <2>3. p \in Nat
      BY GSets DEF PendingRewards
    <2>4. gtx[b].seen = RewardAmount * (p + 1)
      BY <2>1, <2>2 DEF ReferralInv, CountersOk
    <2> HIDE DEF p
    <2>5. RewardAmount * (p + 1) = RewardAmount * p + RewardAmount /\ RewardAmount * p \in Nat
      BY <2>3, RewardTimes
    <2>6. gstats'.pending = RewardAmount * p
      BY <1>1, <1>2, <1>3, <2>4, <2>5
    <2>7. p + 0 = p
      BY <2>3
    <2> QED BY <2>1, <2>2, <2>6, <2>7 DEF p
  <1>9. CreditsNotOverspent'
    BY <1>1, <1>6, CommitsNat, CreditsStay DEF ReferralInv, Commits, CommitsAreNat
  <1> QED BY <1>6, <1>7, <1>8, <1>9 DEF ReferralInv, CountersOk

(* What a booking that is created does to the rows: its own is new, and    *)
(* the customer's stale reservations are released when it has the discount.*)
CreatedRows(b, stale) ==
    /\ stale \subseteq GBookings \ {b}
    /\ gbook'[b].status = "PENDING" /\ gbook'[b].pay = "UNPAID"
    /\ gbook'[b].credits = gprice[b].credits
    /\ IF gprice[b].eligible
       THEN gbook'[b].ref = "RESERVED" /\ gbook'[b].reward = "PENDING"
       ELSE gbook'[b].ref = "NONE" /\ gbook'[b].reward = "NONE" /\ stale = {}
    /\ \A s \in stale : /\ gbook[s].ref = "RESERVED" /\ gbook[s].reward = "PENDING"
                        /\ gbook'[s].ref = "REVERSED" /\ gbook'[s].reward = "REVERSED"
                        /\ gbook'[s].status = gbook[s].status /\ gbook'[s].pay = gbook[s].pay
                        /\ gbook'[s].credits = gbook[s].credits
    /\ \A c \in GBookings \ {b} : c \notin stale => gbook'[c] = gbook[c]
    /\ gbook' \in [GBookings -> ReferralRows]

(* createReferral writes one new row and no other.                          *)
LEMMA CreateRows ==
    ASSUME ReferralInv, NEW b \in GBookings, createBooking(b)
    PROVE  /\ CreatedRows(b, IF gprice[b].eligible THEN StaleReservations(GUser[b]) ELSE {})
           /\ gbook[b] = GNew /\ gtx[b].to = "-"
  <1> DEFINE stale == IF gprice[b].eligible THEN StaleReservations(GUser[b]) ELSE {}
             new == createReferralRewardIfEligible(b)
  <1>1. gbook[b] = GNew /\ gtx[b].to = "-"
    BY DEF createBooking, ReferralInv, ReferralRowsOk
  <1>2. gbook' = [c \in GBookings |-> CASE c = b -> new
                                        [] c \in stale -> Released(gbook[c])
                                        [] OTHER -> gbook[c]]
    BY DEF createBooking
  <1>3. stale \subseteq GBookings \ {b}
    BY <1>1 DEF StaleReservations, BookingsOf, GNew
  <1>4. \A s \in stale : /\ gbook[s].ref = "RESERVED" /\ gbook[s].reward = "PENDING"
                         /\ gbook[s] \in ReferralRows
    BY <1>3 DEF StaleReservations, ReferralInv, ReferralRowsOk, GTypeOK, ReferralRows
  <1>5. \A s \in stale : /\ Released(gbook[s]) \in ReferralRows
                         /\ Released(gbook[s]).ref = "REVERSED"
                         /\ Released(gbook[s]).reward = "REVERSED"
                         /\ Released(gbook[s]).status = gbook[s].status
                         /\ Released(gbook[s]).pay = gbook[s].pay
                         /\ Released(gbook[s]).credits = gbook[s].credits
    BY <1>4 DEF Released, ReferralRows
  <1>6. gprice[b].eligible \in BOOLEAN /\ gprice[b].credits \in 0..MaxCredits
    BY DEF ReferralInv, GTypeOK
  <1>7. /\ new \in ReferralRows /\ new.status = "PENDING" /\ new.pay = "UNPAID"
        /\ new.credits = gprice[b].credits
        /\ new.ref = (IF gprice[b].eligible THEN "RESERVED" ELSE "NONE")
        /\ new.reward = (IF gprice[b].eligible THEN "PENDING" ELSE "NONE")
    BY <1>6 DEF createReferralRewardIfEligible, GNew, ReferralRows
  <1>8. \A c \in GBookings : gbook[c] \in ReferralRows
    BY DEF ReferralInv, GTypeOK, ReferralRows
  <1>9. ~gprice[b].eligible => stale = {}
    OBVIOUS
  <1> HIDE DEF stale, new
  <1>10. /\ gbook'[b] = new
         /\ \A c \in GBookings \ {b} : gbook'[c] = IF c \in stale THEN Released(gbook[c]) ELSE gbook[c]
         /\ gbook' \in [GBookings -> ReferralRows]
    <2>1. gbook'[b] = new
      BY <1>2, <1>3
    <2>2. ASSUME NEW c \in stale PROVE gbook'[c] = Released(gbook[c])
      <3>1. c \in GBookings /\ c # b
        BY <1>3
      <3> QED BY <1>2, <3>1
    <2>3. ASSUME NEW c \in GBookings \ {b}, c \notin stale PROVE gbook'[c] = gbook[c]
      BY <1>2, <2>3
    <2>4. \A c \in GBookings : gbook'[c] \in ReferralRows
      <3> TAKE c \in GBookings
      <3>1. CASE c = b
        BY <1>7, <2>1, <3>1
      <3>2. CASE c \in stale
        BY <1>5, <2>2, <3>2
      <3>3. CASE c # b /\ c \notin stale
        BY <1>8, <2>3, <3>3
      <3> QED BY <3>1, <3>2, <3>3
    <2>5. gbook' = [c \in GBookings |-> gbook'[c]]
      BY <1>2
    <2>6. gbook' \in [GBookings -> ReferralRows]
      BY <2>4, <2>5
    <2> QED BY <2>1, <2>2, <2>3, <2>6
  <1>11. CreatedRows(b, stale)
    BY <1>3, <1>4, <1>5, <1>6, <1>7, <1>9, <1>10 DEF CreatedRows
  <1> QED BY <1>1, <1>11 DEF stale

(* The counters of a booking that is created with the discount.            *)
LEMMA CreateCounters ==
    ASSUME ReferralInv, NEW b \in GBookings, createBooking(b)
    PROVE  CountersOk' /\ gstats' \in [pending: Nat, granted: Nat] /\ gclean' \in BOOLEAN
  <1> DEFINE el == gprice[b].eligible
             stale == IF el THEN StaleReservations(GUser[b]) ELSE {}
             p == Cardinality(PendingRewards)
             n == Cardinality(stale)
             k == RewardAmount * Cardinality({s \in stale : gbook[s].reward = "PENDING"})
             x == gstats.pending - k
  <1>1. CreatedRows(b, stale) /\ gbook[b] = GNew /\ gtx[b].to = "-"
    BY CreateRows
  <1>2. /\ gstats' = (IF el THEN [gstats EXCEPT !.pending = Max({0, x}) + RewardAmount] ELSE gstats)
        /\ gclean' = (gclean /\ ~(el /\ Overlaps(b))) /\ gtx' = gtx
    BY DEF createBooking
  <1>3. stale \subseteq GBookings /\ b \notin stale /\ {s \in stale : gbook[s].reward = "PENDING"} = stale
    BY <1>1 DEF CreatedRows
  <1>4. /\ ReleasedRewards' = ReleasedRewards /\ OpenReleases' = OpenReleases
        /\ OpenCounts' = OpenCounts
        /\ stale \subseteq PendingRewards /\ b \notin PendingRewards
        /\ PendingRewards' = IF el THEN (PendingRewards \ stale) \cup {b} ELSE PendingRewards
    <2>1. gbook[b].reward = "NONE"
      BY <1>1 DEF GNew
    <2> HIDE DEF stale
    <2> QED BY <1>1, <1>2, <2>1 DEF CreatedRows, ReleasedRewards, OpenReleases, OpenCounts,
                                    PendingRewards
  <1>5. /\ n \in Nat /\ p \in Nat /\ n <= p /\ k = RewardAmount * n
        /\ Cardinality(PendingRewards \ stale) = p - n
        /\ Cardinality((PendingRewards \ stale) \cup {b}) = p - n + 1
    <2>1. PendingRewards \subseteq GBookings /\ PendingRewards \ stale \subseteq GBookings
          /\ b \notin PendingRewards \ stale
      BY <1>4 DEF PendingRewards
    <2>2. IsFiniteSet(PendingRewards) /\ p \in Nat /\ n \in Nat
      BY <1>3, <2>1, GSets
    <2>3. PendingRewards \cap stale = stale
      BY <1>4
    <2>4. Cardinality(PendingRewards \ stale) = p - n
      BY <2>2, <2>3, FS_Difference
    <2>5. n <= p
      BY <1>4, <2>2, FS_Subset
    <2>6. Cardinality((PendingRewards \ stale) \cup {b}) = p - n + 1
      BY <2>1, <2>4, GSets
    <2> QED BY <1>3, <2>2, <2>4, <2>5, <2>6
  <1> HIDE DEF stale, p, n
  <1>6. RewardAmount \in Nat /\ RewardAmount * n \in Nat /\ gstats.pending \in Nat
        /\ gstats \in [pending: Nat, granted: Nat] /\ x \in Int
    BY <1>5, RewardTimes DEF ReferralInv, GTypeOK
  <1>7. Max({0, x}) = (IF x > 0 THEN x ELSE 0) /\ Max({0, x}) \in Nat
    <2> HIDE DEF x
    <2> QED BY <1>6, MaxZero
  <1>8. gstats' \in [pending: Nat, granted: Nat] /\ gstats'.granted = gstats.granted
        /\ gstats'.pending = (IF el THEN Max({0, x}) + RewardAmount ELSE gstats.pending)
    BY <1>2, <1>6, <1>7
  <1>9. gclean' \in BOOLEAN
    BY <1>2 DEF ReferralInv, GTypeOK
  <1>10. ASSUME gclean'
         PROVE  /\ gstats'.pending = RewardAmount *
                       (Cardinality(PendingRewards') + Cardinality(OpenCounts'))
                /\ \A c \in OpenCounts' : gtx'[c].seen = gstats'.pending
    <2>1. /\ gclean /\ gstats.pending = RewardAmount * (p + Cardinality(OpenCounts))
          /\ \A c \in OpenCounts : gtx[c].seen = gstats.pending
      BY <1>2, <1>10 DEF ReferralInv, CountersOk, p
    <2>2. CASE el
      <3>1. OpenCounts = {}
        BY <1>1, <1>2, <1>10, <2>2 DEF Overlaps, OpenCounts
      <3>2. Cardinality({}) = 0
        BY FS_EmptySet
      <3>3. gstats.pending = RewardAmount * p
        BY <1>5, <2>1, <3>1, <3>2
      <3>4. RewardAmount * (p - n) = RewardAmount * p - RewardAmount * n /\ RewardAmount * (p - n) \in Nat
            /\ RewardAmount * (p - n + 1) = RewardAmount * (p - n) + RewardAmount
        <4>1. p - n \in Nat
          BY <1>5
        <4>2. RewardAmount * (p - n) = RewardAmount * p - RewardAmount * n
          BY <1>5, <1>6
        <4> QED BY <4>1, <4>2, RewardTimes
      <3>5. gstats'.pending = RewardAmount * (p - n + 1)
        BY <1>5, <1>6, <1>7, <1>8, <2>2, <3>3, <3>4
      <3>6. p - n + 1 + 0 = p - n + 1
        BY <1>5
      <3> QED BY <1>4, <1>5, <2>2, <3>1, <3>2, <3>5, <3>6
    <2>3. CASE ~el
      BY <1>2, <1>4, <1>8, <2>1, <2>3 DEF p
    <2> QED BY <2>2, <2>3
  <1> QED BY <1>4, <1>8, <1>9, <1>10 DEF ReferralInv, CountersOk

(* A booking commits the credits the transaction read again.               *)
LEMMA CreateCredits ==
    ASSUME ReferralInv, GTypeOK', NEW b \in GBookings, createBooking(b)
    PROVE  CreditsNotOverspent'
  <1> DEFINE u == GUser[b]
             stale == IF gprice[b].eligible THEN StaleReservations(u) ELSE {}
             n == getCappedReferralCreditBalance(u)
             k == gprice[b].credits
  <1>1. CreatedRows(b, stale) /\ gbook[b] = GNew
    BY CreateRows
  <1>2. Commits(b) = 0 /\ Commits(b)' = k
    BY <1>1 DEF CreatedRows, Commits, GNew
  <1>3. \A c \in GBookings \ {b} : Commits(c)' = Commits(c)
    <2> TAKE c \in GBookings \ {b}
    <2> HIDE DEF stale
    <2>1. CASE c \in stale
      BY <1>1, <2>1 DEF CreatedRows, Commits
    <2>2. CASE c \notin stale
      BY <1>1, <2>2 DEF CreatedRows, Commits
    <2> QED BY <2>1, <2>2
  <1>4. /\ n \in 0..MaxCredits /\ Earned \in Nat
        /\ u = Referrer => n <= Earned - Committed(Referrer)
    BY CappedWithinEarned DEF ReferralInv
  <1>5. k \in Nat /\ MaxCredits \in Nat /\ Committed(Referrer) \in Nat
    BY CommittedNat, GAssumption DEF ReferralInv, GTypeOK, GAssumption
  <1>6. k <= n
    <2>1. Min({k, n}) = k
      BY DEF createBooking, VerifiedCredits
    <2>2. k \in Int /\ n \in Int
      BY <1>4, <1>5
    <2> HIDE DEF k, n
    <2> QED BY <2>1, <2>2, MinTwo
  <1>7. Committed(Referrer)' = Committed(Referrer) + IF u = Referrer THEN k ELSE 0
    <2>1. Committed(Referrer)' = Committed(Referrer)
            + IF u = Referrer THEN Commits(b)' - Commits(b) ELSE 0
      BY <1>3, CommittedStep DEF ReferralInv
    <2> HIDE DEF u, k
    <2> QED BY <1>2, <1>5, <2>1
  <1>8. Earned' = Earned
    <2>1. ReleasedRewards' = ReleasedRewards
      <3> HIDE DEF stale
      <3> QED BY <1>1 DEF CreatedRows, ReleasedRewards, GNew
    <2> QED BY <2>1 DEF Earned, ReleasedRewards
  <1> HIDE DEF u, k, n
  <1>9. Committed(Referrer) <= Earned
    BY DEF ReferralInv, CreditsNotOverspent
  <1>10. Committed(Referrer)' <= Earned
    BY <1>4, <1>5, <1>6, <1>7, <1>9
  <1> QED BY <1>8, <1>10 DEF CreditsNotOverspent

(* A booking is created with a discount only where nobody else of the      *)
(* customer's bookings holds one.                                          *)
LEMMA CreateKeeps ==
    ASSUME ReferralInv, NEW b \in GBookings, createBooking(b)
    PROVE  ReferralInv'
  <1> DEFINE u == GUser[b]
             stale == IF gprice[b].eligible THEN StaleReservations(u) ELSE {}
  <1>1. CreatedRows(b, stale) /\ gbook[b] = GNew /\ gtx[b].to = "-"
    BY CreateRows
  <1>2. UNCHANGED <<gprice, gused, gtx>>
    BY DEF createBooking
  <1>3. CountersOk' /\ gstats' \in [pending: Nat, granted: Nat] /\ gclean' \in BOOLEAN
    BY CreateCounters
  <1>4. GTypeOK'
    BY <1>1, <1>2, <1>3 DEF ReferralInv, GTypeOK, CreatedRows, ReferralRows
  <1>5. CreditsNotOverspent'
    BY <1>4, CreateCredits
  <1>6. ASSUME gprice[b].eligible
        PROVE  /\ u \notin gused
               /\ \A c \in GBookings : gbook[c].ref = "RESERVED" /\ GUser[c] = u => c \in stale
    <2>1. u \notin gused
      BY <1>6 DEF createBooking, verifyAndReserveReferralDiscount
    <2>2. ASSUME NEW c \in GBookings, gbook[c].ref = "RESERVED", GUser[c] = u
          PROVE  c \in StaleReservations(u)
      BY <2>2 DEF ReferralInv, ReferralRowsOk, StaleReservations, BookingsOf
    <2> QED BY <1>6, <2>1, <2>2
  <1>7. gprice[b].eligible \in BOOLEAN
    BY DEF ReferralInv, GTypeOK
  <1>8. \A c \in GBookings \ {b} :
           /\ gbook'[c].ref \in Spent => gbook[c].ref \in Spent
           /\ gbook'[c].ref = "RESERVED" => gbook[c].ref = "RESERVED" /\ c \notin stale
    <2> HIDE DEF stale
    <2>1. "REVERSED" \notin Spent
      BY DEF Spent
    <2> TAKE c \in GBookings \ {b}
    <2>2. CASE c \in stale
      BY <1>1, <2>1, <2>2 DEF CreatedRows
    <2>3. CASE c \notin stale
      BY <1>1, <2>3 DEF CreatedRows
    <2> QED BY <2>2, <2>3
  <1>9. /\ gbook'[b].ref \notin Spent
        /\ gbook'[b].ref = "RESERVED" => gprice[b].eligible
    <2> HIDE DEF stale
    <2> QED BY <1>1, <1>7 DEF CreatedRows, Spent
  <1> HIDE DEF u, stale
  <1>10. OneClaim'
    <2>1. ASSUME NEW c \in GBookings
          PROVE  /\ gbook'[c].ref \in Spent => GUser[c] \in gused
                 /\ gbook'[c].ref = "RESERVED" => GUser[c] \notin gused
      BY <1>6, <1>8, <1>9 DEF ReferralInv, OneClaim, u
    <2>2. ASSUME NEW c \in GBookings, NEW d \in GBookings, c # d, GUser[c] = GUser[d]
          PROVE  /\ ~(gbook'[c].ref = "RESERVED" /\ gbook'[d].ref = "RESERVED")
                 /\ ~(gbook'[c].ref \in Spent /\ gbook'[d].ref \in Spent)
      BY <1>6, <1>8, <1>9, <2>2 DEF ReferralInv, OneClaim, u
    <2> QED BY <1>2, <2>1, <2>2 DEF OneClaim
  <1>11. ReferralRowsOk'
    <2>1. ASSUME NEW c \in stale
          PROVE  /\ gbook[c].status = "PENDING" /\ gbook[c].pay = "UNPAID" /\ c \in GBookings
      BY <1>1 DEF ReferralInv, ReferralRowsOk, CreatedRows
    <2>2. gtx' = gtx
      BY <1>2
    <2> SUFFICES ASSUME NEW c \in GBookings
                 PROVE  /\ gbook'[c].status = "NONE" => gbook'[c] = GNew /\ gtx[c].to = "-"
                        /\ gbook'[c].status = "PENDING" => gbook'[c].pay = "UNPAID" /\ gbook'[c].ref \notin Spent
                        /\ gbook'[c].ref = "RESERVED" => /\ gbook'[c].status = "PENDING"
                                                         /\ gbook'[c].reward = "PENDING"
                        /\ gbook'[c].reward = "PENDING" =>
                              \/ gbook'[c].ref = "RESERVED"
                              \/ gbook'[c].ref = "APPLIED" /\ gbook'[c].status \in {"CONFIRMED", "COMPLETED"}
                        /\ gbook'[c].reward = "RELEASED" => /\ gbook'[c].status = "COMPLETED"
                                                            /\ gbook'[c].ref = "REWARDED"
      BY <2>2 DEF ReferralRowsOk
    <2>3. CASE c = b
      BY <1>1, <1>7, <1>9, <2>3 DEF CreatedRows
    <2>4. CASE c \in stale
      BY <1>1, <2>1, <2>4 DEF CreatedRows, Spent
    <2>5. CASE c # b /\ c \notin stale
      BY <1>1, <2>5 DEF CreatedRows, ReferralInv, ReferralRowsOk
    <2> QED BY <2>3, <2>4, <2>5
  <1> QED BY <1>3, <1>4, <1>5, <1>10, <1>11 DEF ReferralInv

(* At first the referrer has one released reward, and nothing is open.     *)
LEMMA ReferralInit ==
    ASSUME NEW b0 \in GBookings, NEW gone \in SUBSET GBookings, GInitWith(b0, gone)
    PROVE  ReferralInv
  <1> DEFINE used == [GNew EXCEPT !.status = "COMPLETED", !.pay = "PAID",
                         !.ref = "REWARDED", !.discounted = TRUE, !.reward = "RELEASED"]
             left == [GNew EXCEPT !.status = "CANCELLED"]
  <1>1. /\ GNew \in ReferralRows /\ used \in ReferralRows /\ left \in ReferralRows
        /\ 0 \in 0..MaxCredits /\ RewardAmount \in Nat
    <2>1. 0 \in 0..MaxCredits /\ RewardAmount \in Nat
      BY GAssumption DEF GAssumption
    <2>2. GNew \in ReferralRows
      BY <2>1 DEF GNew, ReferralRows
    <2>3. used \in ReferralRows /\ left \in ReferralRows
      BY <2>2 DEF ReferralRows
    <2> QED BY <2>1, <2>2, <2>3
  <1>2. /\ gbook \in [GBookings -> ReferralRows] /\ gbook[b0] = used
        /\ \A b \in GBookings \ {b0} : gbook[b] = left \/ gbook[b] = GNew
    BY <1>1 DEF GInitWith
  <1>3. /\ used.status = "COMPLETED" /\ used.pay = "PAID" /\ used.ref = "REWARDED"
        /\ used.reward = "RELEASED" /\ used.credits = 0
        /\ left.status = "CANCELLED" /\ left.pay = "UNPAID" /\ left.ref = "NONE"
        /\ left.reward = "NONE" /\ left.credits = 0
        /\ GNew.status = "NONE" /\ GNew.pay = "UNPAID" /\ GNew.ref = "NONE"
        /\ GNew.reward = "NONE" /\ GNew.credits = 0
    BY DEF GNew
  <1> HIDE DEF used, left
  <1>4. \A b \in GBookings : gtx[b].to = "-" /\ gtx[b] \in [to: {"-", "release", "reverse"}, seen: Nat]
    BY DEF GInitWith, GNoTx
  <1>5. GTypeOK
    <2>1. gtx \in [GBookings -> [to: {"-", "release", "reverse"}, seen: Nat]]
      BY <1>4 DEF GInitWith
    <2>2. gprice \in [GBookings -> [eligible: BOOLEAN, credits: 0..MaxCredits, shown: BOOLEAN]]
      BY <1>1 DEF GInitWith
    <2>3. gused \subseteq GUsers /\ gstats \in [pending: Nat, granted: Nat] /\ gclean \in BOOLEAN
      BY <1>1 DEF GInitWith, GUsers
    <2> QED BY <1>2, <2>1, <2>2, <2>3 DEF GTypeOK, ReferralRows
  <1>6. ReferralRowsOk
    BY <1>2, <1>3, <1>4 DEF ReferralRowsOk, Spent
  <1>7. OneClaim
    BY <1>2, <1>3 DEF OneClaim, GInitWith, Spent
  <1>8. CountersOk
    <2>1. /\ ReleasedRewards = {b0} /\ PendingRewards = {} /\ OpenReleases = {} /\ OpenCounts = {}
      BY <1>2, <1>3, <1>4 DEF ReleasedRewards, PendingRewards, OpenReleases, OpenCounts
    <2>2. Cardinality({b0}) = 1 /\ Cardinality({}) = 0
      BY FS_Singleton, FS_EmptySet
    <2>3. RewardAmount * 1 = RewardAmount /\ RewardAmount * 0 = 0 /\ 0 + 0 = 0
      BY <1>1
    <2>4. gstats.granted = RewardAmount /\ gstats.pending = 0
      BY DEF GInitWith
    <2> QED BY <1>1, <2>1, <2>2, <2>3, <2>4 DEF CountersOk
  <1>9. CreditsNotOverspent
    <2> DEFINE S == BookingsOf(Referrer)
               w == CommitsOf(Referrer)
    <2>1. PICK h \in [SUBSET S -> Nat] : SumEq(h, w, SUBSET S) /\ Committed(Referrer) = h[S]
      BY <1>5, CommittedSum DEF CommittedIsSum
    <2>2. IsFiniteSet(S) /\ S \subseteq GBookings
      BY BookingsFinite
    <2>3. \A b \in GBookings : Commits(b) = 0
      BY <1>2, <1>3 DEF Commits
    <2>4. w \in [S -> Nat] /\ \A b \in S : w[b] = 0
      BY <2>2, <2>3 DEF CommitsOf
    <2> HIDE DEF S, w
    <2>5. Committed(Referrer) = 0
      BY <2>1, <2>2, <2>4, SumZero
    <2>6. Earned = RewardAmount * Cardinality(ReleasedRewards) /\ Cardinality(ReleasedRewards) \in Nat
      BY GSets DEF Earned, ReleasedRewards
    <2> DEFINE n == Cardinality(ReleasedRewards)
    <2> HIDE DEF n
    <2>7. RewardAmount * n >= 0
      BY <2>6, RewardTimes DEF n
    <2> QED BY <2>5, <2>6, <2>7 DEF CreditsNotOverspent, n
  <1> QED BY <1>5, <1>6, <1>7, <1>8, <1>9 DEF ReferralInv

(* Every step keeps the discount, the rewards and the credits in order.    *)
LEMMA ReferralStep == ReferralInv /\ [GNext]_gvars => ReferralInv'
  <1> SUFFICES ASSUME ReferralInv, [GNext]_gvars
               PROVE  ReferralInv'
    OBVIOUS
  <1>1. CASE UNCHANGED gvars
    <2>1. GTypeOK' /\ ReferralRowsOk' /\ OneClaim'
      BY <1>1 DEF gvars, ReferralInv, GTypeOK, ReferralRowsOk, OneClaim
    <2>2. CountersOk'
      BY <1>1, CountersStay DEF gvars, ReferralInv
    <2>3. Committed(Referrer)' = Committed(Referrer)
      BY <1>1, <2>1, CommittedStays DEF gvars, ReferralInv, Commits
    <2>4. Earned' = Earned
      BY <1>1 DEF gvars, Earned
    <2> QED BY <2>1, <2>2, <2>3, <2>4 DEF ReferralInv, CreditsNotOverspent
  <1>2. CASE GNext
    <2>1. PICK b \in GBookings :
             \/ previewBooking(b) \/ createBooking(b) \/ releaseReferralReservation(b)
             \/ confirmFromPayment(b) \/ cancelExpired(b) \/ cancelBooking(b) \/ completeBooking(b)
             \/ processReferralCompletionForBooking(b) \/ writeStats(b)
      BY <1>2 DEF GNext
    <2> QED BY <2>1, PreviewKeeps, CreateKeeps, ReleaseKeeps, ConfirmKeeps, EndKeeps,
               CompleteKeeps, RewardKeeps, WriteStatsKeeps
  <1> QED BY <1>1, <1>2

(* A set whose members are all one has at most one.                        *)
LEMMA AtMostOne ==
    ASSUME NEW S, \A x, y \in S : x = y
    PROVE  Cardinality(S) <= 1
  <1>1. CASE S = {}
    BY <1>1, FS_EmptySet
  <1>2. ASSUME NEW x \in S PROVE Cardinality(S) <= 1
    <2>1. S = {x}
      BY <1>2
    <2> QED BY <2>1, FS_Singleton
  <1> QED BY <1>1, <1>2

(***************************************************************************)
(* However previews, checkouts, payments, cancellations and completions of *)
(* a customer's bookings overlap, the database applies his discount once,  *)
(* the referrer never commits more credits than he earned, each reward is  *)
(* for a completed trip and paid out once, and the pending counter is      *)
(* right as long as no two transactions overlapped at it                   *)
(* (verifyAndReserveReferralDiscountInTransaction,                         *)
(* verifyReferralCreditBalanceInTransaction,                               *)
(* processReferralCompletionForBooking).                                   *)
(***************************************************************************)
THEOREM ReferralStaysSound == GSpec => []ReferralBooks
  <1>1. ReferralInv => ReferralBooks
    <2> SUFFICES ASSUME ReferralInv PROVE ReferralBooks
      OBVIOUS
    <2>1. OneDiscountApplied
      <3> SUFFICES ASSUME NEW u \in GUsers
                   PROVE  Cardinality({b \in BookingsOf(u) : gbook[b].ref \in Spent}) <= 1
        BY DEF OneDiscountApplied, Spent
      <3> DEFINE S == {b \in BookingsOf(u) : gbook[b].ref \in Spent}
      <3>1. \A b, c \in S : b = c
        BY DEF ReferralInv, OneClaim, BookingsOf
      <3> HIDE DEF S
      <3>2. Cardinality(S) <= 1
        BY <3>1, AtMostOne
      <3> QED BY <3>2 DEF S
    <2>2. RewardsAreEarned
      <3>1. \A b \in GBookings : gbook[b].reward = "PENDING" => gbook[b].status # "CANCELLED"
        BY DEF ReferralInv, ReferralRowsOk
      <3>2. gstats.granted + RewardAmount * Cardinality(OpenReleases)
              = RewardAmount * Cardinality(ReleasedRewards)
        BY DEF ReferralInv, CountersOk
      <3> QED BY <3>1, <3>2 DEF RewardsAreEarned, ReferralInv, ReferralRowsOk, Earned,
                                OpenReleases, ReleasedRewards
    <2>3. PendingCounterAgrees
      <3> SUFFICES ASSUME gclean, \A b \in GBookings : gtx[b].to = "-"
                   PROVE  gstats.pending = RewardAmount * Cardinality(PendingRewards)
        BY DEF PendingCounterAgrees, PendingRewards
      <3>1. OpenCounts = {}
        BY DEF OpenCounts
      <3>2. /\ Cardinality({}) = 0 /\ Cardinality(PendingRewards) \in Nat
        BY FS_EmptySet, GSets DEF PendingRewards
      <3>3. Cardinality(PendingRewards) + Cardinality(OpenCounts) = Cardinality(PendingRewards)
        BY <3>1, <3>2
      <3> QED BY <3>3 DEF ReferralInv, CountersOk
    <2> QED BY <2>1, <2>2, <2>3 DEF ReferralBooks, ReferralInv
  <1>2. (\E b0 \in GBookings, gone \in SUBSET GBookings : GInitWith(b0, gone)) => ReferralInv
    BY ReferralInit
  <1> QED BY <1>1, <1>2, ReferralStep, PTL DEF GSpec

-----------------------------------------------------------------------------
(* Changes to a confirmed booking.                                         *)

EditRows ==
    [status: {"NONE", "CANCELLED"} \cup EBlocking, start: Nat, end: Nat, leg: Nat,
     pickup: EPlaces, drop: EPlaces, chauffeur: EStaff]

ExtRows == [status: {"NONE", "PENDING", "ACTIVE"}, from: Nat, to: Nat, link: Requests \cup {"-"}]

(* What a request that edits the booking has read and asks for.            *)
EditRead(q) ==
    /\ q.seen \in EditRows /\ q.drop \in EPlaces
    /\ q.pickup \in EPlaces \cup {"-"}
    /\ \/ q.dates = {}
       \/ \E t \in EStarts : q.dates = {[start |-> t, end |-> t + DayLength]}
    /\ q.same = "yes" => q.drop = IF q.pickup = "-" THEN q.seen.pickup ELSE q.pickup

(* What a request that extends it has read and asks for: its own row is    *)
(* new, the row of another was written before.                             *)
ExtendRead(r, q) ==
    /\ q.row \in Requests /\ q.from \in Nat /\ q.to \in Nat
    /\ q.from < q.to /\ q.to <= EMidnight
    /\ (q.row = r) <=> (exts[q.row].status = "NONE")

(* Every request that is under way has read rows that are there.            *)
EditReads ==
    /\ exts \in [Requests -> ExtRows] /\ DOMAIN ereq = Requests
    /\ ereq = [r \in Requests |-> ereq[r]]
    /\ \A p \in charged : p.ext \in Requests /\ exts[p.ext].status # "NONE"
    /\ \A r \in Requests :
          /\ exts[r].status # "NONE" => ereq[r].state = "done"
          /\ ereq[r].state = "edit" => EditRead(ereq[r])
          /\ ereq[r].state = "assign" => ereq[r].chauffeur \in EStaff
          /\ ereq[r].state = "extend" => ExtendRead(r, ereq[r])

(* While no request wrote over what another wrote, the unpaid extension    *)
(* starts where the paid ones end, there is one at most, and a request     *)
(* that read an earlier end has seen less than is there.                   *)
ExtensionsInOrder ==
    /\ \A x \in Requests : exts[x].status = "PENDING" => exts[x].from = extensionStartTime
    /\ \A x, y \in Requests : exts[x].status = "PENDING" /\ exts[y].status = "PENDING" => x = y
    /\ \A r \in Requests : ereq[r].state = "extend" =>
          /\ \A s \in ereq[r].seen : s.status = "PENDING"
          /\ IF ereq[r].row = r THEN ereq[r].seen = {}
             ELSE /\ [id |-> ereq[r].row, status |-> "PENDING"] \in ereq[r].seen
                  /\ exts[ereq[r].row].from = ereq[r].from
          /\ \/ ereq[r].from = extensionStartTime
             \/ \E x \in Requests : exts[x].status = "ACTIVE" /\ exts[x].from = ereq[r].from

(* The inductive invariant of the edits and extensions.                     *)
EditInv ==
    /\ ETypeOK /\ EditReads /\ ETurnaroundKept /\ AssignedIsTold
    /\ ExtensionCovered /\ NoHourSoldTwice
    /\ "extension" \notin raced => ExtensionsInOrder

(* A set of numbers that is bounded has a greatest one.                    *)
LEMMA SetTop ==
    ASSUME NEW S, S \subseteq Nat, S # {}, NEW N \in Nat, \A x \in S : x <= N
    PROVE  Max(S) \in S /\ \A x \in S : x <= Max(S)
  <1> DEFINE T == {n \in Nat : \A x \in S : x <= n}
  <1>1. PICK n \in T : \A m \in T : n <= m
    <2>1. T \subseteq Nat /\ N \in T
      OBVIOUS
    <2> HIDE DEF T
    <2> QED BY <2>1, NatMin
  <1>2. n \in S
    <2> SUFFICES ASSUME n \notin S PROVE FALSE
      OBVIOUS
    <2>1. \A x \in S : x < n /\ x \in Nat
      BY <1>1
    <2>2. PICK y \in S : TRUE
      OBVIOUS
    <2>3. n - 1 \in Nat
      BY <2>1, <2>2
    <2>4. n - 1 \in T
      BY <2>1, <2>3
    <2> QED BY <1>1, <2>4
  <1>3. n \in S /\ \A x \in S : n >= x
    BY <1>1, <1>2
  <1> QED BY <1>3 DEF Max

(* A set of numbers has a least one.                                       *)
LEMMA SetBottom ==
    ASSUME NEW S, S \subseteq Nat, S # {}
    PROVE  Min(S) \in S /\ \A x \in S : Min(S) <= x
  <1>1. PICK n \in S : \A m \in S : n <= m
    BY NatMin
  <1> QED BY <1>1 DEF Min

(* A finite set of numbers is bounded.                                     *)
LEMMA FiniteBounded ==
    ASSUME NEW S, IsFiniteSet(S), S \subseteq Nat
    PROVE  \E N \in Nat : \A x \in S : x <= N
  <1> DEFINE Bounded(s) == \E N \in Nat : \A x \in s : x <= N
             T == {n \in Nat : \A s \in SUBSET S : Cardinality(s) <= n => Bounded(s)}
  <1>1. \A s \in SUBSET S : IsFiniteSet(s) /\ Cardinality(s) \in Nat
    BY FS_Subset, FS_CardinalityType
  <1>2. 0 \in T
    <2> SUFFICES ASSUME NEW s \in SUBSET S, Cardinality(s) <= 0 PROVE Bounded(s)
      OBVIOUS
    <2>1. s = {}
      BY <1>1, FS_EmptySet
    <2> QED BY <2>1
  <1>3. ASSUME NEW n \in T PROVE n + 1 \in T
    <2>1. ASSUME NEW s \in SUBSET S, Cardinality(s) <= n + 1, NEW a \in s PROVE Bounded(s)
      <3> DEFINE t == s \ {a}
      <3>1. t \in SUBSET S /\ Cardinality(t) <= n
        BY <1>1, <2>1, FS_RemoveElement
      <3>2. PICK N \in Nat : \A x \in t : x <= N
        BY <3>1
      <3>3. a \in Nat /\ \A x \in s : x \in Nat
        OBVIOUS
      <3>4. N + a \in Nat /\ \A x \in s : x <= N + a
        BY <3>2, <3>3
      <3> QED BY <3>4
    <2>2. Bounded({})
      OBVIOUS
    <2>3. \A s \in SUBSET S : Cardinality(s) <= n + 1 => Bounded(s)
      <3> HIDE DEF Bounded
      <3> QED BY <2>1, <2>2
    <2>4. n + 1 \in Nat
      OBVIOUS
    <2> HIDE DEF Bounded
    <2> QED BY <2>3, <2>4
  <1>4. T = Nat
    <2> HIDE DEF Bounded
    <2>1. T \subseteq Nat
      OBVIOUS
    <2> HIDE DEF T
    <2> QED BY <1>2, <1>3, <2>1, NatInd
  <1>5. Cardinality(S) \in T
    <2> HIDE DEF T
    <2> QED BY <1>1, <1>4
  <1>6. \A s \in SUBSET S : Cardinality(s) <= Cardinality(S) => Bounded(s)
    BY <1>5
  <1>7. S \in SUBSET S /\ Cardinality(S) \in Nat
    BY <1>1
  <1> QED BY <1>6, <1>7

(* Where an extension starts.                                              *)
PaidEnds == {exts[x].to : x \in {y \in Requests : exts[y].status = "ACTIVE"}}

StartsAfterPaid ==
    /\ extensionStartTime = IF PaidEnds = {} THEN ebook[Mine].leg ELSE Max(PaidEnds)
    /\ extensionStartTime \in Nat
    /\ PaidEnds # {} => extensionStartTime \in PaidEnds
    /\ \A x \in Requests : exts[x].status = "ACTIVE" => /\ exts[x].to <= extensionStartTime
                                                        /\ exts[x].from < extensionStartTime

(* An extension begins after the part of the booking that is paid for.      *)
LEMMA ExtensionStart == ETypeOK /\ EditReads => StartsAfterPaid
  <1> SUFFICES ASSUME ETypeOK, EditReads PROVE StartsAfterPaid
    OBVIOUS
  <1>1. extensionStartTime = IF PaidEnds = {} THEN ebook[Mine].leg ELSE Max(PaidEnds)
    BY DEF extensionStartTime, PaidEnds
  <1>2. ebook[Mine].leg \in Nat
    BY DEF ETypeOK, EBookings
  <1>3. \A x \in Requests : /\ exts[x].from \in Nat /\ exts[x].to \in Nat
                            /\ exts[x].status # "NONE" => exts[x].from < exts[x].to
                                                          /\ exts[x].to <= EMidnight
    BY DEF EditReads, ExtRows, ETypeOK
  <1>4. /\ PaidEnds \subseteq Nat /\ \A n \in PaidEnds : n <= EMidnight
        /\ \A x \in Requests : exts[x].status = "ACTIVE" => exts[x].to \in PaidEnds
    BY <1>3 DEF PaidEnds
  <1>5. CASE PaidEnds = {}
    BY <1>1, <1>2, <1>4, <1>5 DEF StartsAfterPaid
  <1>6. CASE PaidEnds # {}
    <2>1. Max(PaidEnds) \in PaidEnds /\ \A n \in PaidEnds : n <= Max(PaidEnds)
      BY <1>4, <1>6, EAssumption, SetTop DEF EAssumption
    <2>2. \A x \in Requests : exts[x].status = "ACTIVE" => /\ exts[x].to <= extensionStartTime
                                                           /\ exts[x].from < extensionStartTime
      <3> DEFINE top == Max(PaidEnds)
      <3>1. extensionStartTime = top /\ top \in Nat /\ \A n \in PaidEnds : n <= top
        BY <1>1, <1>4, <1>6, <2>1
      <3> HIDE DEF top
      <3> TAKE x \in Requests
      <3>2. CASE exts[x].status = "ACTIVE"
        <4>1. exts[x].to <= top /\ exts[x].from < exts[x].to
          BY <1>3, <1>4, <3>1, <3>2
        <4> QED BY <1>3, <3>1, <4>1
      <3> QED BY <3>2
    <2> QED BY <1>1, <1>4, <1>6, <2>1, <2>2 DEF StartsAfterPaid
  <1> QED BY <1>5, <1>6

(* The start after a step.                                                 *)
LEMMA ExtensionStartNext == ETypeOK' /\ EditReads' => StartsAfterPaid'
  BY ExtensionStart, PTL

(* A step that leaves the paid extensions and the leg.                     *)
LEMMA ExtensionStartStays ==
    ASSUME ETypeOK, EditReads, ETypeOK', EditReads',
           \A x \in Requests : /\ exts[x].status = "ACTIVE" <=> exts'[x].status = "ACTIVE"
                               /\ exts[x].status = "ACTIVE" => exts'[x].to = exts[x].to,
           PaidEnds # {} \/ ebook'[Mine].leg = ebook[Mine].leg
    PROVE  extensionStartTime' = extensionStartTime
  <1>1. PaidEnds' = PaidEnds
    BY DEF PaidEnds
  <1> QED BY <1>1, ExtensionStart, ExtensionStartNext DEF StartsAfterPaid

(* A step that leaves the extensions leaves their order.                   *)
LEMMA OrderStays ==
    ASSUME EditInv, ETypeOK', EditReads', exts' = exts, raced \subseteq raced',
           ebook'[Mine].leg = ebook[Mine].leg,
           \A r \in Requests : ereq'[r].state = "extend" => ereq'[r] = ereq[r]
    PROVE  "extension" \notin raced' => ExtensionsInOrder'
  <1>1. extensionStartTime' = extensionStartTime
    BY ExtensionStartStays DEF EditInv
  <1>2. SUFFICES ASSUME "extension" \notin raced' PROVE ExtensionsInOrder'
    OBVIOUS
  <1>3. ExtensionsInOrder
    BY <1>2 DEF EditInv
  <1> QED BY <1>1, <1>3 DEF ExtensionsInOrder

(* A step that leaves the extensions and does not shorten the booking.     *)
LEMMA PaidStays ==
    ASSUME EditInv, ETypeOK', exts' = exts, raced \subseteq raced',
           ebook'[Mine].leg >= ebook[Mine].leg, ebook'[Mine].end >= ebook[Mine].end
    PROVE  ExtensionCovered' /\ NoHourSoldTwice'
  <1>1. /\ ebook[Mine].leg \in Nat /\ ebook'[Mine].leg \in Nat
        /\ ebook[Mine].end \in Nat /\ ebook'[Mine].end \in Nat
    BY DEF EditInv, ETypeOK, EBookings
  <1>2. \A x \in Requests : exts[x].to \in Nat
    BY DEF EditInv, EditReads, ExtRows
  <1> QED BY <1>1, <1>2 DEF EditInv, ExtensionCovered, NoHourSoldTwice

(* A step of one request that leaves the extensions.                       *)
LEMMA RequestChange ==
    ASSUME EditReads, NEW r \in Requests, NEW v, ereq' = [ereq EXCEPT ![r] = v],
           exts' = exts, charged' = charged,
           v.state = "edit" => EditRead(v),
           v.state = "assign" => v.chauffeur \in EStaff,
           v.state = "extend" => ExtendRead(r, v),
           exts[r].status = "NONE" \/ v.state = "done"
    PROVE  /\ EditReads' /\ ereq'[r] = v
           /\ \A s \in Requests \ {r} : ereq'[s] = ereq[s]
  <1>1. /\ ereq'[r] = v /\ DOMAIN ereq' = Requests
        /\ ereq' = [s \in Requests |-> ereq'[s]]
        /\ \A s \in Requests \ {r} : ereq'[s] = ereq[s]
    BY DEF EditReads
  <1>2. \A s \in Requests :
          /\ exts'[s].status # "NONE" => ereq'[s].state = "done"
          /\ ereq'[s].state = "edit" => EditRead(ereq'[s])
          /\ ereq'[s].state = "assign" => ereq'[s].chauffeur \in EStaff
          /\ ereq'[s].state = "extend" => ExtendRead(s, ereq'[s])
    <2> TAKE s \in Requests
    <2>1. CASE s = r
      BY <1>1, <2>1
    <2>2. CASE s # r
      BY <1>1, <2>2 DEF EditReads
    <2> QED BY <2>1, <2>2
  <1>3. ASSUME NEW s \in Requests, NEW q PROVE ExtendRead(s, q) => ExtendRead(s, q)'
    BY DEF ExtendRead
  <1>4. \A s \in Requests : ereq'[s].state = "extend" => ExtendRead(s, ereq[s])'
    <2> TAKE s \in Requests
    <2> HAVE ereq'[s].state = "extend"
    <2>1. ExtendRead(s, ereq'[s])
      BY <1>2
    <2> QED BY <2>1 DEF ExtendRead
  <1>5. \A s \in Requests : ereq'[s].state = "edit" => EditRead(ereq[s])'
    BY <1>2 DEF EditRead
  <1>6. \A p \in charged' : p.ext \in Requests /\ exts'[p.ext].status # "NONE"
    BY DEF EditReads
  <1>7. exts' \in [Requests -> ExtRows]
    BY DEF EditReads
  <1> HIDE DEF EditRead, ExtendRead
  <1> QED BY <1>1, <1>2, <1>4, <1>5, <1>6, <1>7 DEF EditReads

(* The customer's edit is read.                                            *)
LEMMA EditReadKeeps ==
    ASSUME EditInv, NEW r \in Requests, updateBookingInternal(r)
    PROVE  EditInv'
  <1>1. /\ UNCHANGED <<ebook, exts, charged, enow, told, raced>> /\ ereq[r] = Fresh
    BY DEF updateBookingInternal
  <1>2. PICK time \in EStarts \cup {0}, pickup \in EPlaces \cup {"-"}, same \in {"yes", "no", "-"},
             drop \in EPlaces \cup {"-"} :
          /\ same = "no" => drop # "-"
          /\ time = 0 \/ {pickup, same, drop} = {"-"}
          /\ ereq' = [ereq EXCEPT ![r] =
                [state |-> "edit", seen |-> ebook[Mine], dates |-> resolveUpdatedDates(time),
                 pickup |-> pickup, same |-> same,
                 drop |-> resolveTargetReturnLocation(ebook[Mine], pickup, same, drop)]]
    BY DEF updateBookingInternal
  <1> DEFINE q == [state |-> "edit", seen |-> ebook[Mine], dates |-> resolveUpdatedDates(time),
                   pickup |-> pickup, same |-> same,
                   drop |-> resolveTargetReturnLocation(ebook[Mine], pickup, same, drop)]
  <1>3. ebook[Mine] \in EditRows /\ ebook[Mine].pickup \in EPlaces /\ ebook[Mine].drop \in EPlaces
    BY DEF EditInv, ETypeOK, EditRows, EBookings
  <1>4. resolveTargetReturnLocation(ebook[Mine], pickup, same, drop) \in EPlaces
    <2>1. CASE same = "yes"
      BY <1>3, <2>1 DEF resolveTargetReturnLocation
    <2>2. CASE same = "no"
      BY <1>2, <2>2 DEF resolveTargetReturnLocation
    <2>3. CASE same = "-"
      BY <1>3, <2>3 DEF resolveTargetReturnLocation
    <2> QED BY <2>1, <2>2, <2>3
  <1>5. EditRead(q) /\ q.state = "edit"
    <2>1. q.dates = {} \/ \E t \in EStarts : q.dates = {[start |-> t, end |-> t + DayLength]}
      BY DEF resolveUpdatedDates
    <2>2. q.same = "yes" => q.drop = IF q.pickup = "-" THEN q.seen.pickup ELSE q.pickup
      BY DEF resolveTargetReturnLocation
    <2> QED BY <1>3, <1>4, <2>1, <2>2 DEF EditRead
  <1> HIDE DEF q
  <1>6. ereq' = [ereq EXCEPT ![r] = q]
    BY <1>2 DEF q
  <1>7. exts[r].status = "NONE"
    BY <1>1 DEF EditInv, EditReads, Fresh
  <1>8. EditReads' /\ ereq'[r] = q /\ \A s \in Requests \ {r} : ereq'[s] = ereq[s]
    BY <1>1, <1>5, <1>6, <1>7, RequestChange DEF EditInv
  <1>9. ETypeOK'
    BY <1>1, <1>5, <1>8 DEF EditInv, ETypeOK
  <1>10. ETurnaroundKept' /\ AssignedIsTold' /\ ExtensionCovered' /\ NoHourSoldTwice'
    BY <1>1 DEF EditInv, ETurnaroundKept, AssignedIsTold, ExtensionCovered, NoHourSoldTwice
  <1>11. "extension" \notin raced' => ExtensionsInOrder'
    BY <1>1, <1>5, <1>8, <1>9, OrderStays
  <1> QED BY <1>8, <1>9, <1>10, <1>11 DEF EditInv

(* The assignment of a chauffeur.                                          *)
LEMMA AssignKeeps ==
    ASSUME EditInv, NEW r \in Requests, readForAssignment(r) \/ assignChauffeur(r)
    PROVE  EditInv'
  <1>1. UNCHANGED <<exts, charged, enow, raced>>
    BY DEF readForAssignment, assignChauffeur
  <1>2. PICK v : /\ ereq' = [ereq EXCEPT ![r] = v] /\ v.state \in {"assign", "done"}
                 /\ v.state = "assign" => v.chauffeur \in EStaff
                 /\ exts[r].status = "NONE"
    <2>1. CASE readForAssignment(r)
      <3>1. PICK c \in EStaff : ereq' = [ereq EXCEPT ![r] =
                [state |-> "assign", seen |-> ebook[Mine].chauffeur, chauffeur |-> c]]
        BY <2>1 DEF readForAssignment
      <3>2. exts[r].status = "NONE"
        BY <2>1 DEF readForAssignment, EditInv, EditReads, Fresh
      <3> QED BY <3>1, <3>2
    <2>2. CASE assignChauffeur(r)
      BY <2>2 DEF assignChauffeur, Done, EditInv, EditReads
    <2> QED BY <2>1, <2>2
  <1>3. EditReads' /\ ereq'[r] = v /\ \A s \in Requests \ {r} : ereq'[s] = ereq[s]
    BY <1>1, <1>2, RequestChange DEF EditInv
  <1>4. \/ ebook' = ebook /\ told' = told
        \/ /\ ebook' = [ebook EXCEPT ![Mine].chauffeur = ereq[r].chauffeur]
           /\ ereq[r].chauffeur \in EStaff /\ told' = ereq[r].chauffeur
    <2>1. CASE readForAssignment(r)
      BY <2>1 DEF readForAssignment
    <2>2. CASE assignChauffeur(r)
      <3>1. ereq[r].chauffeur \in EStaff /\ ebook[Mine].chauffeur = told
        BY <2>2 DEF assignChauffeur, EditInv, EditReads, AssignedIsTold
      <3> QED BY <2>2, <3>1 DEF assignChauffeur, StillUnassigned
    <2> QED BY <2>1, <2>2
  <1>5. /\ ebook' \in [EBookings -> EditRows] /\ ebook'[Next1] = ebook[Next1]
        /\ ebook'[Mine].status = ebook[Mine].status /\ ebook'[Mine].start = ebook[Mine].start
        /\ ebook'[Mine].end = ebook[Mine].end /\ ebook'[Mine].leg = ebook[Mine].leg
        /\ ebook'[Mine].chauffeur = told' /\ told' \in EStaff
    <2>1. ebook \in [EBookings -> EditRows] /\ ebook[Mine].chauffeur = told /\ told \in EStaff
      BY DEF EditInv, ETypeOK, EditRows, AssignedIsTold
    <2> QED BY <1>4, <2>1, EAssumption DEF EditRows, EBookings, EAssumption
  <1>6. ETypeOK'
    BY <1>1, <1>2, <1>3, <1>5 DEF EditInv, ETypeOK, EditRows
  <1>7. ETurnaroundKept' /\ AssignedIsTold'
    BY <1>5 DEF EditInv, ETurnaroundKept, AssignedIsTold
  <1>8. ExtensionCovered' /\ NoHourSoldTwice'
    BY <1>1, <1>5 DEF EditInv, ExtensionCovered, NoHourSoldTwice
  <1>9. "extension" \notin raced' => ExtensionsInOrder'
    BY <1>1, <1>2, <1>3, <1>5, <1>6, OrderStays
  <1> QED BY <1>3, <1>6, <1>7, <1>8, <1>9 DEF EditInv

(* What an edit writes.                                                    *)
UpdatedRow(q, row) ==
    /\ row \in EditRows
    /\ row.status = ebook[Mine].status /\ row.leg = ebook[Mine].leg
    /\ row.chauffeur = ebook[Mine].chauffeur
    /\ row.pickup = IF q.pickup = "-" \/ q.pickup = q.seen.pickup THEN ebook[Mine].pickup ELSE q.pickup
    /\ row.drop = IF q.drop = q.seen.drop THEN ebook[Mine].drop ELSE q.drop
    /\ \/ q.dates = {} /\ row.start = ebook[Mine].start /\ row.end = ebook[Mine].end
       \/ \E t \in EStarts : /\ q.dates = {[start |-> t, end |-> t + DayLength]}
                             /\ row.start = t /\ row.end = t + DayLength

(* updateBookingWithinWindow writes the requested dates, and to no other row. *)
LEMMA EditWrites ==
    ASSUME EditInv, NEW q, EditRead(q), ebook' = updateBookingWithinWindow(q)
    PROVE  /\ UpdatedRow(q, ebook'[Mine]) /\ ebook'[Next1] = ebook[Next1]
           /\ ebook' \in [EBookings -> EditRows]
  <1> DEFINE old == ebook[Mine]
             row == PlacesUpdated(q)
             d0  == CHOOSE d \in q.dates : TRUE
             new == IF q.dates = {} THEN row ELSE [row EXCEPT !.start = d0.start, !.end = d0.end]
  <1>1. ebook \in [EBookings -> EditRows] /\ old \in EditRows
    BY DEF EditInv, ETypeOK, EditRows, EBookings
  <1>2. ebook' = [ebook EXCEPT ![Mine] = new]
    BY DEF updateBookingWithinWindow
  <1>3. /\ row \in EditRows /\ row.status = old.status /\ row.leg = old.leg
        /\ row.chauffeur = old.chauffeur /\ row.start = old.start /\ row.end = old.end
        /\ row.pickup = IF q.pickup = "-" \/ q.pickup = q.seen.pickup THEN old.pickup ELSE q.pickup
        /\ row.drop = IF q.drop = q.seen.drop THEN old.drop ELSE q.drop
    BY <1>1 DEF EditRead, EditRows, PlacesUpdated
  <1> HIDE DEF row
  <1>4. UpdatedRow(q, new)
    <2>1. CASE q.dates = {}
      BY <1>3, <2>1 DEF UpdatedRow
    <2>2. CASE q.dates # {}
      <3>1. PICK t \in EStarts : q.dates = {[start |-> t, end |-> t + DayLength]}
        BY <2>2 DEF EditRead
      <3>2. d0 = [start |-> t, end |-> t + DayLength]
        BY <3>1
      <3>3. t \in Nat /\ t + DayLength \in Nat
        BY EAssumption DEF EAssumption
      <3> HIDE DEF d0
      <3>4. new = [row EXCEPT !.start = d0.start, !.end = d0.end] /\ d0.start = t
            /\ d0.end = t + DayLength
        BY <2>2, <3>2
      <3> HIDE DEF new
      <3>5. /\ new \in EditRows /\ new.status = row.status /\ new.leg = row.leg
            /\ new.chauffeur = row.chauffeur /\ new.start = t /\ new.end = t + DayLength
            /\ new.pickup = row.pickup /\ new.drop = row.drop
        BY <1>3, <3>3, <3>4 DEF EditRows
      <3> QED BY <1>3, <3>1, <3>5 DEF UpdatedRow
    <2> QED BY <2>1, <2>2
  <1> HIDE DEF new
  <1>5. ebook'[Mine] = new /\ ebook'[Next1] = ebook[Next1]
    BY <1>1, <1>2, EAssumption DEF EBookings, EAssumption
  <1>6. ebook' \in [EBookings -> EditRows]
    BY <1>1, <1>2, <1>4 DEF UpdatedRow
  <1> QED BY <1>4, <1>5, <1>6

(* An edit leaves the booking alone or writes what it asked for.           *)
LEMMA EditResult ==
    ASSUME EditInv, NEW r \in Requests, updateBooking(r)
    PROVE  /\ EditRead(ereq[r]) /\ ereq' = [ereq EXCEPT ![r] = Done]
           /\ UNCHANGED <<exts, charged, enow, told>>
           /\ \/ ebook' = ebook /\ raced' = raced
              \/ /\ UpdatedRow(ereq[r], ebook'[Mine]) /\ ebook'[Next1] = ebook[Next1]
                 /\ ebook' \in [EBookings -> EditRows]
                 /\ ebook[Mine].start = ereq[r].seen.start /\ AssertCanEdit(ereq[r])
                 /\ \A d \in ereq[r].dates : checkCarAvailability(Mine, d.start, d.end)
                 /\ raced \subseteq raced' /\ raced' \subseteq raced \cup {"place", "window"}
                 /\ <<ereq[r].seen.pickup, ereq[r].seen.drop>> # <<ebook[Mine].pickup, ebook[Mine].drop>>
                       => "place" \in raced'
                 /\ ereq[r].dates # {} /\ (\E x \in Requests : exts[x].status # "NONE")
                       => "window" \in raced'
  <1>1. EditRead(ereq[r])
    BY DEF updateBooking, EditInv, EditReads
  <1>2. ereq' = [ereq EXCEPT ![r] = Done] /\ UNCHANGED <<exts, charged, enow, told>>
    BY DEF updateBooking
  <1> DEFINE ok == /\ lockEditableBookingState(ereq[r]) /\ AssertCanEdit(ereq[r])
                   /\ \A d \in ereq[r].dates : checkCarAvailability(Mine, d.start, d.end)
  <1>3. CASE ~ok
    BY <1>1, <1>2, <1>3 DEF updateBooking
  <1>4. CASE ok
    <2>1. /\ ebook' = updateBookingWithinWindow(ereq[r])
          /\ raced' = raced
                \cup (IF <<ereq[r].seen.pickup, ereq[r].seen.drop>> # <<ebook[Mine].pickup, ebook[Mine].drop>>
                      THEN {"place"} ELSE {})
                \cup (IF ereq[r].dates # {} /\ \E x \in Requests : exts[x].status # "NONE"
                      THEN {"window"} ELSE {})
      BY <1>4 DEF updateBooking
    <2>2. /\ UpdatedRow(ereq[r], ebook'[Mine]) /\ ebook'[Next1] = ebook[Next1]
          /\ ebook' \in [EBookings -> EditRows]
      BY <1>1, <2>1, EditWrites
    <2>3. ebook[Mine].start = ereq[r].seen.start
      BY <1>4 DEF lockEditableBookingState
    <2> QED BY <1>1, <1>2, <1>4, <2>1, <2>2, <2>3
  <1> QED BY <1>3, <1>4

(* An edit keeps the turnaround, the chauffeur and the time that was paid. *)
LEMMA EditKeeps ==
    ASSUME EditInv, NEW r \in Requests, updateBooking(r)
    PROVE  EditInv'
  <1> DEFINE q == ereq[r]
  <1>1. /\ EditRead(q) /\ ereq' = [ereq EXCEPT ![r] = Done]
        /\ UNCHANGED <<exts, charged, enow, told>>
    BY EditResult
  <1>2. Done.state = "done"
    BY DEF Done
  <1>3. EditReads' /\ ereq'[r] = Done /\ \A s \in Requests \ {r} : ereq'[s] = ereq[s]
    BY <1>1, <1>2, RequestChange DEF EditInv
  <1>4. CASE ebook' = ebook /\ raced' = raced
    <2>1. ETypeOK'
      BY <1>1, <1>2, <1>3, <1>4 DEF EditInv, ETypeOK
    <2>2. ETurnaroundKept' /\ AssignedIsTold' /\ ExtensionCovered' /\ NoHourSoldTwice'
      BY <1>1, <1>4 DEF EditInv, ETurnaroundKept, AssignedIsTold, ExtensionCovered, NoHourSoldTwice
    <2>3. "extension" \notin raced' => ExtensionsInOrder'
      BY <1>1, <1>2, <1>3, <1>4, <2>1, OrderStays
    <2> QED BY <1>3, <2>1, <2>2, <2>3 DEF EditInv
  <1>5. CASE /\ UpdatedRow(q, ebook'[Mine]) /\ ebook'[Next1] = ebook[Next1]
             /\ ebook' \in [EBookings -> EditRows]
             /\ \A d \in q.dates : checkCarAvailability(Mine, d.start, d.end)
             /\ raced \subseteq raced' /\ raced' \subseteq raced \cup {"place", "window"}
             /\ q.dates # {} /\ (\E x \in Requests : exts[x].status # "NONE") => "window" \in raced'
    <2> DEFINE row == ebook'[Mine]
    <2>1. ETypeOK'
      BY <1>1, <1>2, <1>3, <1>5 DEF EditInv, ETypeOK, EditRows
    <2>2. AssignedIsTold'
      BY <1>1, <1>5 DEF EditInv, AssignedIsTold, UpdatedRow
    <2>3. /\ row.start \in Nat /\ row.end \in Nat /\ row.status = ebook[Mine].status
          /\ ebook[Next1].start \in Nat /\ ebook[Next1].end \in Nat
          /\ EBuffer \in Nat /\ DayLength \in Nat /\ Next1 \in EBookings \ {Mine}
      BY <1>5, EAssumption DEF UpdatedRow, EditRows, EAssumption, EditInv, ETypeOK, EBookings
    <2>4. ETurnaroundKept'
      <3>1. CASE q.dates = {}
        <4>1. row.start = ebook[Mine].start /\ row.end = ebook[Mine].end
          BY <1>5, <3>1 DEF UpdatedRow
        <4> QED BY <1>5, <2>3, <4>1 DEF EditInv, ETurnaroundKept
      <3>2. CASE q.dates # {}
        <4>1. PICK t \in EStarts : /\ q.dates = {[start |-> t, end |-> t + DayLength]}
                                   /\ row.start = t /\ row.end = t + DayLength
          BY <1>5, <3>2 DEF UpdatedRow
        <4>2. checkCarAvailability(Mine, row.start, row.end)
          BY <1>5, <4>1
        <4>3. ebook[Next1].status \in EBlocking =>
                ebook[Next1].start >= row.end + EBuffer \/ ebook[Next1].end <= row.start - EBuffer
          BY <2>3, <4>2 DEF checkCarAvailability, buildBufferedBookingInterval
        <4> HIDE DEF row
        <4>4. ebook[Next1].status \in EBlocking =>
                row.start >= ebook[Next1].end + EBuffer \/ ebook[Next1].start >= row.end + EBuffer
          BY <2>3, <4>3
        <4> QED BY <1>5, <2>3, <4>4 DEF ETurnaroundKept, row
      <3> QED BY <3>1, <3>2
    <2>5. NoHourSoldTwice'
      BY <1>1, <1>5 DEF EditInv, NoHourSoldTwice
    <2>6. ExtensionCovered'
      <3>1. CASE q.dates = {}
        <4>1. row.leg = ebook[Mine].leg /\ row.end = ebook[Mine].end
          BY <1>5, <3>1 DEF UpdatedRow
        <4> QED BY <1>1, <1>5, <4>1 DEF EditInv, ExtensionCovered
      <3>2. CASE q.dates # {}
        BY <1>1, <1>5, <3>2 DEF ExtensionCovered
      <3> QED BY <3>1, <3>2
    <2>7. row.leg = ebook[Mine].leg
      BY <1>5 DEF UpdatedRow
    <2>8. "extension" \notin raced' => ExtensionsInOrder'
      BY <1>1, <1>2, <1>3, <1>5, <2>1, <2>7, OrderStays
    <2> QED BY <1>3, <2>1, <2>2, <2>4, <2>5, <2>6, <2>8 DEF EditInv
  <1> QED BY <1>4, <1>5, EditResult

(* A cancellation, the start of the trip, a reservation of the car, a      *)
(* payment and time.                                                       *)
LEMMA EditOthersKeep ==
    ASSUME EditInv,
           \/ cancelMine \/ activateMine \/ ETick \/ \E s \in EOthers : reserveNext(s)
           \/ \E r \in Requests : payExtension(r)
           \/ UNCHANGED evars
    PROVE  EditInv'
  <1>1. ereq' = ereq /\ exts' = exts /\ raced' = raced /\ told' = told
    BY DEF cancelMine, activateMine, ETick, reserveNext, payExtension, evars
  <1>2. EditReads'
    <2>1. \A p \in charged' : p.ext \in Requests /\ exts[p.ext].status # "NONE"
      <3>1. CASE \E r \in Requests : payExtension(r)
        BY <3>1 DEF payExtension, EditInv, EditReads
      <3>2. CASE charged' = charged
        BY <3>2 DEF EditInv, EditReads
      <3> QED BY <3>1, <3>2 DEF cancelMine, activateMine, ETick, reserveNext, payExtension, evars
    <2> QED BY <1>1, <2>1 DEF EditInv, EditReads, EditRead, ExtendRead
  <1>3. ebook \in [EBookings -> EditRows] /\ Mine # Next1 /\ enow \in EInstants
    BY EAssumption DEF EditInv, ETypeOK, EditRows, EAssumption
  <1>4. /\ ebook' \in [EBookings -> EditRows] /\ enow' \in EInstants
        /\ ebook'[Mine].leg = ebook[Mine].leg /\ ebook'[Mine].end = ebook[Mine].end
        /\ ebook'[Mine].start = ebook[Mine].start /\ ebook'[Mine].chauffeur = ebook[Mine].chauffeur
        /\ ebook'[Mine].status \in EBlocking => ebook[Mine].status \in EBlocking
    <2>1. CASE cancelMine
      BY <1>3, <2>1 DEF cancelMine, EditRows, EBookings, EBlocking
    <2>2. CASE activateMine
      BY <1>3, <2>2 DEF activateMine, EditRows, EBookings, EBlocking
    <2>3. CASE \E s \in EOthers : reserveNext(s)
      <3>1. PICK s \in EOthers : reserveNext(s)
        BY <2>3
      <3>2. s \in Nat /\ s + DayLength \in Nat
        BY EAssumption DEF EAssumption
      <3> QED BY <1>3, <3>1, <3>2 DEF reserveNext, EditRows, EBookings, EBlocking
    <2>4. CASE ETick
      BY <1>3, <2>4 DEF ETick
    <2>5. CASE UNCHANGED <<ebook, enow>>
      BY <1>3, <2>5
    <2> QED BY <2>1, <2>2, <2>3, <2>4, <2>5 DEF payExtension, evars
  <1>5. ETypeOK'
    BY <1>1, <1>4 DEF EditInv, ETypeOK, EditRows
  <1>6. ETurnaroundKept'
    <2>1. CASE ebook'[Next1] = ebook[Next1]
      BY <1>4, <2>1 DEF EditInv, ETurnaroundKept
    <2>2. CASE \E s \in EOthers : reserveNext(s)
      <3>1. PICK s \in EOthers : reserveNext(s)
        BY <2>2
      <3>2. /\ ebook'[Next1].start = s /\ ebook'[Next1].end = s + DayLength
            /\ ebook'[Mine] = ebook[Mine]
        BY <1>3, <3>1 DEF reserveNext, EditRows, EBookings
      <3>3. /\ s \in Nat /\ DayLength \in Nat /\ EBuffer \in Nat /\ Mine \in EBookings \ {Next1}
            /\ ebook[Mine].start \in Nat /\ ebook[Mine].end \in Nat
        BY <1>3, EAssumption DEF EAssumption, EBookings, EditRows
      <3>4. checkCarAvailability(Next1, s, s + DayLength)
        BY <3>1 DEF reserveNext
      <3>5. ebook[Mine].status \in EBlocking =>
              \/ ebook[Mine].start >= s + DayLength + EBuffer
              \/ ebook[Mine].end <= s - EBuffer
        BY <3>3, <3>4 DEF checkCarAvailability, buildBufferedBookingInterval
      <3>6. ebook[Mine].status \in EBlocking =>
              \/ ebook[Mine].start >= s + DayLength + EBuffer
              \/ s >= ebook[Mine].end + EBuffer
        BY <3>3, <3>5
      <3> QED BY <3>2, <3>6 DEF ETurnaroundKept
    <2>3. CASE cancelMine \/ activateMine
      <3>1. ebook'[Next1] = ebook[Next1]
        BY <1>3, <2>3 DEF cancelMine, activateMine, EBookings
      <3> QED BY <2>1, <3>1
    <2> QED BY <2>1, <2>2, <2>3 DEF ETick, payExtension, evars
  <1>7. AssignedIsTold' /\ ExtensionCovered' /\ NoHourSoldTwice'
    BY <1>1, <1>4 DEF EditInv, AssignedIsTold, ExtensionCovered, NoHourSoldTwice
  <1>8. "extension" \notin raced' => ExtensionsInOrder'
    BY <1>1, <1>2, <1>4, <1>5, OrderStays
  <1> QED BY <1>2, <1>5, <1>6, <1>7, <1>8 DEF EditInv

(* An extension is read.                                                   *)
LEMMA ExtendReadKeeps ==
    ASSUME EditInv, NEW r \in Requests, readForExtension(r)
    PROVE  EditInv'
  <1> DEFINE from == extensionStartTime
             open == OpenExtensions(from)
  <1>1. /\ UNCHANGED <<ebook, exts, charged, enow, told, raced>> /\ ereq[r] = Fresh
    BY DEF readForExtension
  <1>2. PICK hours \in 1..maxHours(from), x \in IF open = {} THEN {r} ELSE open :
          ereq' = [ereq EXCEPT ![r] = [state |-> "extend", row |-> x, from |-> from,
                                       to |-> from + hours, seen |-> Rows(from)]]
    BY DEF readForExtension
  <1> DEFINE q == [state |-> "extend", row |-> x, from |-> from, to |-> from + hours,
                   seen |-> Rows(from)]
  <1>3. exts[r].status = "NONE"
    BY <1>1 DEF EditInv, EditReads, Fresh
  <1>4. StartsAfterPaid
    BY ExtensionStart DEF EditInv
  <1>5. from \in Nat /\ EMidnight \in Nat /\ hours \in Int /\ hours > 0 /\ from + hours <= EMidnight
    <2>1. from \in Nat /\ EMidnight \in Nat
      BY <1>4, EAssumption DEF StartsAfterPaid, EAssumption
    <2> HIDE DEF from
    <2> QED BY <2>1 DEF maxHours
  <1>6. /\ x \in Requests
        /\ x = r <=> exts[x].status = "NONE"
        /\ x = r <=> open = {}
        /\ x # r => exts[x].status = "PENDING" /\ exts[x].from = from
    BY <1>2, <1>3 DEF OpenExtensions
  <1> HIDE DEF from
  <1>7. ExtendRead(r, q) /\ q.state = "extend"
    BY <1>5, <1>6 DEF ExtendRead
  <1>8. EditReads' /\ ereq'[r] = q /\ \A s \in Requests \ {r} : ereq'[s] = ereq[s]
    <2> HIDE DEF q
    <2>1. ereq' = [ereq EXCEPT ![r] = q]
      BY <1>2 DEF q
    <2> QED BY <1>1, <1>3, <1>7, <2>1, RequestChange DEF EditInv
  <1>9. ETypeOK'
    BY <1>1, <1>7, <1>8 DEF EditInv, ETypeOK
  <1>10. ETurnaroundKept' /\ AssignedIsTold' /\ ExtensionCovered' /\ NoHourSoldTwice'
    BY <1>1 DEF EditInv, ETurnaroundKept, AssignedIsTold, ExtensionCovered, NoHourSoldTwice
  <1>11. ASSUME "extension" \notin raced' PROVE ExtensionsInOrder'
    <2>1. ExtensionsInOrder
      BY <1>1, <1>11 DEF EditInv
    <2>2. extensionStartTime' = extensionStartTime
      BY <1>1, <1>8, <1>9, ExtensionStartStays DEF EditInv
    <2>3. \A y \in Requests : exts[y].status \in {"NONE", "PENDING", "ACTIVE"}
      BY DEF EditInv, ETypeOK
    <2>4. \A y \in Requests : exts[y].status # "NONE" /\ exts[y].from = from => exts[y].status = "PENDING"
      BY <1>4, <1>5, <2>3 DEF StartsAfterPaid, from
    <2>5. \A s \in Rows(from) : s.status = "PENDING"
      BY <2>4 DEF Rows
    <2>6. IF x = r THEN Rows(from) = {}
          ELSE [id |-> x, status |-> "PENDING"] \in Rows(from) /\ exts[x].from = from
      <3>1. CASE x = r
        BY <1>6, <2>4, <3>1 DEF Rows, OpenExtensions
      <3>2. CASE x # r
        BY <1>6, <3>2 DEF Rows
      <3> QED BY <3>1, <3>2
    <2>7. /\ q.row = x /\ q.seen = Rows(from) /\ q.from = extensionStartTime
      BY DEF from
    <2> HIDE DEF q
    <2>8. ASSUME NEW s \in Requests, ereq'[s].state = "extend"
          PROVE  /\ \A t \in ereq'[s].seen : t.status = "PENDING"
                 /\ IF ereq'[s].row = s THEN ereq'[s].seen = {}
                    ELSE /\ [id |-> ereq'[s].row, status |-> "PENDING"] \in ereq'[s].seen
                         /\ exts[ereq'[s].row].from = ereq'[s].from
                 /\ \/ ereq'[s].from = extensionStartTime
                    \/ \E y \in Requests : exts[y].status = "ACTIVE" /\ exts[y].from = ereq'[s].from
      <3>1. CASE s = r
        BY <1>8, <2>5, <2>6, <2>7, <3>1 DEF from
      <3>2. CASE s # r
        <4>1. ereq'[s] = ereq[s]
          BY <1>8, <3>2
        <4> QED BY <2>1, <2>8, <4>1 DEF ExtensionsInOrder
      <3> QED BY <3>1, <3>2
    <2> QED BY <1>1, <2>1, <2>2, <2>8 DEF ExtensionsInOrder
  <1> QED BY <1>8, <1>9, <1>10, <1>11 DEF EditInv

(* The row a request writes, as long as nobody wrote over another's.       *)
LEMMA WrittenRow ==
    ASSUME EditInv, NEW r \in Requests, createExtension(r), "extension" \notin raced'
    PROVE  /\ ExtensionsInOrder /\ ereq[r].from = extensionStartTime
           /\ \A y \in Requests : exts[y].status = "PENDING" => y = ereq[r].row
           /\ exts[ereq[r].row].status \in {"NONE", "PENDING"}
  <1> DEFINE q == ereq[r]
  <1>1. q.state = "extend" /\ Rows(q.from) = q.seen /\ "extension" \notin raced
    BY DEF createExtension
  <1>2. ExtensionsInOrder
    BY <1>1 DEF EditInv
  <1>3. \A y \in Requests : exts[y].status # "NONE" /\ exts[y].from = q.from => exts[y].status = "PENDING"
    <2> TAKE y \in Requests
    <2> HAVE exts[y].status # "NONE" /\ exts[y].from = q.from
    <2> DEFINE s == [id |-> y, status |-> exts[y].status]
    <2>1. s \in q.seen
      BY <1>1 DEF Rows
    <2>2. \A t \in q.seen : t.status = "PENDING"
      BY <1>1, <1>2 DEF ExtensionsInOrder
    <2>3. s.status = "PENDING"
      <3> HIDE DEF s
      <3> QED BY <2>1, <2>2
    <2> QED BY <2>3
  <1>4. q.from = extensionStartTime
    BY <1>1, <1>2, <1>3 DEF ExtensionsInOrder
  <1>5. ExtendRead(r, q)
    BY <1>1 DEF EditInv, EditReads
  <1>6. CASE q.row = r
    <2>1. Rows(q.from) = {}
      BY <1>1, <1>2, <1>6 DEF ExtensionsInOrder
    <2>2. \A y \in Requests : exts[y].status = "PENDING" => FALSE
      <3> TAKE y \in Requests
      <3> HAVE exts[y].status = "PENDING"
      <3>1. exts[y].from = q.from
        BY <1>2, <1>4 DEF ExtensionsInOrder
      <3>2. [id |-> y, status |-> exts[y].status] \in Rows(q.from)
        BY <3>1 DEF Rows
      <3> QED BY <2>1, <3>2
    <2> QED BY <1>2, <1>4, <1>5, <1>6, <2>2 DEF ExtendRead
  <1>7. CASE q.row # r
    <2>1. [id |-> q.row, status |-> "PENDING"] \in Rows(q.from)
      BY <1>1, <1>2, <1>7 DEF ExtensionsInOrder
    <2>2. exts[q.row].status = "PENDING"
      BY <2>1 DEF Rows
    <2> QED BY <1>2, <1>4, <1>5, <2>2 DEF ExtensionsInOrder, ExtendRead
  <1> QED BY <1>6, <1>7

(* The row is made or written over.                                        *)
LEMMA CreateExtensionKeeps ==
    ASSUME EditInv, NEW r \in Requests, createExtension(r)
    PROVE  EditInv'
  <1> DEFINE q == ereq[r]
             row == [status |-> "PENDING", from |-> q.from, to |-> q.to, link |-> r]
  <1>1. /\ q.state = "extend" /\ exts' = [exts EXCEPT ![q.row] = row]
        /\ ereq' = [ereq EXCEPT ![r] = Done] /\ UNCHANGED <<ebook, charged, enow, told>>
        /\ raced \subseteq raced' /\ raced' \subseteq raced \cup {"extension"}
    BY DEF createExtension
  <1>2. ExtendRead(r, q)
    BY <1>1 DEF EditInv, EditReads
  <1>3. /\ q.row \in Requests /\ row \in ExtRows /\ row.status = "PENDING"
        /\ row.from < row.to /\ row.to <= EMidnight /\ row.from = q.from /\ row.to = q.to
    BY <1>2 DEF ExtendRead, ExtRows
  <1> HIDE DEF row
  <1>4. /\ exts' \in [Requests -> ExtRows] /\ exts'[q.row] = row
        /\ \A x \in Requests : x # q.row => exts'[x] = exts[x]
    BY <1>1, <1>3 DEF EditInv, EditReads
  <1>5. /\ ereq'[r] = Done /\ Done.state = "done" /\ DOMAIN ereq' = Requests
        /\ ereq' = [s \in Requests |-> ereq'[s]]
        /\ \A s \in Requests \ {r} : ereq'[s] = ereq[s]
    BY <1>1 DEF EditInv, EditReads, Done
  <1>6. ereq'[q.row].state = "done"
    BY <1>2, <1>3, <1>5 DEF ExtendRead, EditInv, EditReads
  <1>7. EditReads'
    <2>2. ASSUME NEW s \in Requests, ereq'[s].state = "extend" PROVE ExtendRead(s, ereq[s])' /\ s # r
      <3>1. s # r /\ ereq'[s] = ereq[s] /\ ExtendRead(s, ereq[s])
        BY <1>5, <2>2 DEF EditInv, EditReads
      <3>2. exts[ereq[s].row].status = "NONE" <=> exts'[ereq[s].row].status = "NONE"
        <4>1. CASE ereq[s].row # q.row
          BY <1>4, <3>1, <4>1 DEF ExtendRead
        <4>2. CASE ereq[s].row = q.row
          <5>1. q.row # s
            BY <1>3, <1>5, <1>6, <2>2
          <5>2. exts[q.row].status # "NONE"
            BY <3>1, <4>2, <5>1 DEF ExtendRead
          <5> QED BY <1>3, <1>4, <4>2, <5>2
        <4> QED BY <4>1, <4>2
      <3> QED BY <3>1, <3>2 DEF ExtendRead
    <2>3. \A s \in Requests : exts'[s].status # "NONE" => ereq'[s].state = "done"
      <3> TAKE s \in Requests
      <3>1. CASE s = q.row
        BY <1>6, <3>1
      <3>2. CASE s # q.row
        BY <1>4, <1>5, <3>2 DEF EditInv, EditReads
      <3> QED BY <3>1, <3>2
    <2>4. \A s \in Requests : /\ ereq'[s].state = "edit" => EditRead(ereq[s])'
                              /\ ereq'[s].state = "assign" => ereq'[s].chauffeur \in EStaff
      BY <1>5 DEF EditInv, EditReads, EditRead
    <2>5. \A p \in charged' : p.ext \in Requests /\ exts'[p.ext].status # "NONE"
      BY <1>1, <1>3, <1>4 DEF EditInv, EditReads
    <2> HIDE DEF q
    <2> QED BY <1>4, <1>5, <2>2, <2>3, <2>4, <2>5 DEF EditReads
  <1>8. ETypeOK'
    <2>1. \A s \in Requests : /\ exts'[s].status \in {"NONE", "PENDING", "ACTIVE"}
                              /\ exts'[s].status # "NONE" =>
                                    exts'[s].from < exts'[s].to /\ exts'[s].to <= EMidnight
      BY <1>3, <1>4 DEF EditInv, ETypeOK, ExtRows
    <2> QED BY <1>1, <1>5, <2>1 DEF EditInv, ETypeOK
  <1>9. ETurnaroundKept' /\ AssignedIsTold'
    BY <1>1 DEF EditInv, ETurnaroundKept, AssignedIsTold
  <1>10. ExtensionCovered'
    BY <1>1, <1>3, <1>4 DEF EditInv, ExtensionCovered
  <1>11. NoHourSoldTwice'
    BY <1>1, <1>3, <1>4 DEF EditInv, NoHourSoldTwice
  <1>12. ASSUME "extension" \notin raced' PROVE ExtensionsInOrder'
    <2>1. /\ ExtensionsInOrder /\ q.from = extensionStartTime
          /\ \A y \in Requests : exts[y].status = "PENDING" => y = q.row
          /\ exts[q.row].status \in {"NONE", "PENDING"}
      BY <1>12, WrittenRow
    <2>2. \A x \in Requests : /\ exts[x].status = "ACTIVE" <=> exts'[x].status = "ACTIVE"
                              /\ exts[x].status = "ACTIVE" => exts'[x] = exts[x]
      BY <1>3, <1>4, <2>1
    <2>3. extensionStartTime' = extensionStartTime
      BY <1>1, <1>7, <1>8, <2>2, ExtensionStartStays DEF EditInv
    <2>4. \A x \in Requests : exts'[x].status = "PENDING" => x = q.row
      BY <1>4, <2>1
    <2>5. exts'[q.row].from = extensionStartTime
      BY <1>3, <1>4, <2>1
    <2>6. ASSUME NEW s \in Requests, ereq'[s].state = "extend"
          PROVE  /\ \A t \in ereq'[s].seen : t.status = "PENDING"
                 /\ IF ereq'[s].row = s THEN ereq'[s].seen = {}
                    ELSE /\ [id |-> ereq'[s].row, status |-> "PENDING"] \in ereq'[s].seen
                         /\ exts'[ereq'[s].row].from = ereq'[s].from
                 /\ \/ ereq'[s].from = extensionStartTime
                    \/ \E y \in Requests : exts'[y].status = "ACTIVE" /\ exts'[y].from = ereq'[s].from
      <3>1. s # r /\ ereq'[s] = ereq[s] /\ ExtendRead(s, ereq[s])
        BY <1>5, <2>6 DEF EditInv, EditReads
      <3>2. ereq[s].row # s => exts'[ereq[s].row].from = exts[ereq[s].row].from
        <4>1. CASE ereq[s].row # q.row
          BY <1>4, <3>1, <4>1 DEF ExtendRead
        <4>2. CASE ereq[s].row = q.row /\ ereq[s].row # s
          <5>1. exts[q.row].status = "PENDING"
            BY <2>1, <3>1, <4>2 DEF ExtendRead
          <5>2. exts[q.row].from = extensionStartTime
            BY <1>3, <2>1, <5>1 DEF ExtensionsInOrder
          <5> QED BY <2>5, <4>2, <5>2
        <4> QED BY <4>1, <4>2
      <3>3. /\ \A t \in ereq[s].seen : t.status = "PENDING"
            /\ IF ereq[s].row = s THEN ereq[s].seen = {}
               ELSE /\ [id |-> ereq[s].row, status |-> "PENDING"] \in ereq[s].seen
                    /\ exts[ereq[s].row].from = ereq[s].from
            /\ \/ ereq[s].from = extensionStartTime
               \/ \E y \in Requests : exts[y].status = "ACTIVE" /\ exts[y].from = ereq[s].from
        BY <2>1, <2>6, <3>1 DEF ExtensionsInOrder
      <3> QED BY <2>2, <3>1, <3>2, <3>3
    <2> HIDE DEF q
    <2> QED BY <2>3, <2>4, <2>5, <2>6 DEF ExtensionsInOrder
  <1> QED BY <1>7, <1>8, <1>9, <1>10, <1>11, <1>12 DEF EditInv

(* A step that makes no extension and moves none.                          *)
LEMMA OrderMoves ==
    ASSUME ExtensionsInOrder, EditReads, ereq' = ereq,
           \A y \in Requests :
              /\ exts'[y].from = exts[y].from
              /\ exts'[y].status = "PENDING" => /\ exts[y].status = "PENDING"
                                               /\ exts[y].from = extensionStartTime',
           \A s \in Requests : ereq[s].state = "extend" =>
              \/ ereq[s].from = extensionStartTime'
              \/ \E y \in Requests : exts'[y].status = "ACTIVE" /\ exts'[y].from = ereq[s].from
    PROVE  ExtensionsInOrder'
  <1> DEFINE e == extensionStartTime'
  <1>1. \A y \in Requests : exts'[y].status = "PENDING" => exts'[y].from = e
    OBVIOUS
  <1>2. \A y, z \in Requests : exts'[y].status = "PENDING" /\ exts'[z].status = "PENDING" => y = z
    BY DEF ExtensionsInOrder
  <1>3. ASSUME NEW s \in Requests, ereq[s].state = "extend"
        PROVE  /\ \A t \in ereq[s].seen : t.status = "PENDING"
               /\ IF ereq[s].row = s THEN ereq[s].seen = {}
                  ELSE /\ [id |-> ereq[s].row, status |-> "PENDING"] \in ereq[s].seen
                       /\ exts'[ereq[s].row].from = ereq[s].from
    <2>1. ereq[s].row \in Requests
      BY <1>3 DEF EditReads, ExtendRead
    <2> QED BY <1>3, <2>1 DEF ExtensionsInOrder
  <1> QED BY <1>1, <1>2, <1>3 DEF ExtensionsInOrder

(* A payment of an extension lengthens the booking; the next one starts    *)
(* where it ends.                                                          *)
LEMMA ConfirmExtensionKeeps ==
    ASSUME EditInv, NEW p \in charged, confirmExtension(p)
    PROVE  EditInv'
  <1> DEFINE x   == p.ext
             old == ebook[Mine]
             row == [old EXCEPT !.leg = Advance(@, exts[x].to), !.end = Advance(@, exts[x].to)]
  <1>1. /\ exts' = [exts EXCEPT ![x].status = "ACTIVE"] /\ ebook' = [ebook EXCEPT ![Mine] = row]
        /\ UNCHANGED <<ereq, charged, enow, told, raced>>
        /\ exts[x].status \in {"PENDING", "ACTIVE"}
        /\ ~(old.status \in EBlocking /\ Excludes(Mine, row.start, row.end))
    BY DEF confirmExtension
  <1>2. x \in Requests /\ exts[x] \in ExtRows /\ exts[x].to \in Nat
    BY DEF EditInv, EditReads, ExtRows
  <1>3. ebook \in [EBookings -> EditRows] /\ old \in EditRows /\ Mine # Next1
    BY EAssumption DEF EditInv, ETypeOK, EditRows, EBookings, EAssumption
  <1>4. \A n \in Nat : LET m == Advance(n, exts[x].to) IN m \in Nat /\ m >= n /\ m >= exts[x].to
    <2> TAKE n \in Nat
    <2>1. PICK N \in Nat : n <= N /\ exts[x].to <= N
      BY <1>2
    <2>2. {n, exts[x].to} \subseteq Nat /\ \A k \in {n, exts[x].to} : k <= N
      BY <1>2, <2>1
    <2> DEFINE m == Max({n, exts[x].to})
    <2>3. m \in {n, exts[x].to} /\ \A k \in {n, exts[x].to} : k <= m
      BY <2>2, SetTop
    <2> HIDE DEF m
    <2>4. m \in Nat /\ m >= n /\ m >= exts[x].to
      BY <1>2, <2>3
    <2> QED BY <2>4 DEF Advance, m
  <1>5. /\ row \in EditRows /\ row.status = old.status /\ row.start = old.start
        /\ row.chauffeur = old.chauffeur
        /\ row.leg >= old.leg /\ row.leg >= exts[x].to
        /\ row.end >= old.end /\ row.end >= exts[x].to
    <2> DEFINE l == Advance(old.leg, exts[x].to)
               e == Advance(old.end, exts[x].to)
    <2>1. old.leg \in Nat /\ old.end \in Nat
      BY <1>3 DEF EditRows
    <2>2. l \in Nat /\ l >= old.leg /\ l >= exts[x].to /\ e \in Nat /\ e >= old.end /\ e >= exts[x].to
      BY <1>4, <2>1
    <2>3. row = [old EXCEPT !.leg = l, !.end = e]
      OBVIOUS
    <2> HIDE DEF l, e, row
    <2> QED BY <1>3, <2>2, <2>3 DEF EditRows
  <1> HIDE DEF row
  <1>6. /\ ebook' \in [EBookings -> EditRows] /\ ebook'[Mine] = row /\ ebook'[Next1] = ebook[Next1]
    BY <1>1, <1>3, <1>5 DEF EBookings
  <1>7. /\ exts' \in [Requests -> ExtRows] /\ exts'[x].status = "ACTIVE"
        /\ exts'[x].from = exts[x].from /\ exts'[x].to = exts[x].to
        /\ \A y \in Requests \ {x} : exts'[y] = exts[y]
    BY <1>1, <1>2 DEF EditInv, EditReads, ExtRows
  <1>8. \A y \in Requests : /\ exts'[y].status = "NONE" <=> exts[y].status = "NONE"
                            /\ exts'[y].from = exts[y].from /\ exts'[y].to = exts[y].to
    BY <1>1, <1>7
  <1>9. EditReads'
    <2>1. \A s \in Requests : ereq[s].state = "extend" => ExtendRead(s, ereq[s])'
      <3> TAKE s \in Requests
      <3> HAVE ereq[s].state = "extend"
      <3>1. ExtendRead(s, ereq[s])
        BY DEF EditInv, EditReads
      <3> QED BY <1>1, <1>8, <3>1 DEF ExtendRead
    <2>2. \A s \in Requests : ereq[s].state = "edit" => EditRead(ereq[s])'
      BY <1>1 DEF EditInv, EditReads, EditRead
    <2> QED BY <1>1, <1>7, <1>8, <2>1, <2>2 DEF EditInv, EditReads
  <1>10. ETypeOK'
    <2>1. \A s \in Requests : exts'[s].status \in {"NONE", "PENDING", "ACTIVE"}
      BY <1>7 DEF EditInv, ETypeOK
    <2> QED BY <1>1, <1>6, <1>8, <2>1 DEF EditInv, ETypeOK, EditRows
  <1>11. ETurnaroundKept'
    <2> SUFFICES ASSUME row.status \in EBlocking, ebook[Next1].status \in EBlocking
                 PROVE  row.start >= ebook[Next1].end + EBuffer \/ ebook[Next1].start >= row.end + EBuffer
      BY <1>6 DEF ETurnaroundKept
    <2>1. ~(row.start < ebook[Next1].end + EBuffer /\ ebook[Next1].start < row.end + EBuffer)
      <3>1. Next1 \in EBookings \ {Mine}
        BY <1>3 DEF EBookings
      <3> QED BY <1>1, <1>5, <3>1 DEF Excludes
    <2>2. /\ row.start \in Nat /\ row.end \in Nat /\ EBuffer \in Nat
          /\ ebook[Next1].start \in Nat /\ ebook[Next1].end \in Nat
      BY <1>3, <1>5, EAssumption DEF EditRows, EBookings, EAssumption
    <2> QED BY <2>1, <2>2
  <1>12. AssignedIsTold'
    BY <1>1, <1>5, <1>6 DEF EditInv, AssignedIsTold
  <1>13. ExtensionCovered'
    <2> SUFFICES ASSUME NEW y \in Requests, exts'[y].status = "ACTIVE", "window" \notin raced
                 PROVE  row.end >= exts'[y].to /\ row.leg >= exts'[y].to
      BY <1>1, <1>6 DEF ExtensionCovered
    <2>1. CASE y = x
      BY <1>5, <1>7, <2>1
    <2>2. CASE y # x
      <3>1. old.end >= exts[y].to /\ old.leg >= exts[y].to /\ exts'[y].to = exts[y].to
        BY <1>7, <2>2 DEF EditInv, ExtensionCovered
      <3>2. /\ old.end \in Nat /\ old.leg \in Nat /\ row.end \in Nat /\ row.leg \in Nat
            /\ exts[y].to \in Nat
        BY <1>3, <1>5 DEF EditRows, EditInv, EditReads, ExtRows
      <3> QED BY <1>5, <3>1, <3>2
    <2> QED BY <2>1, <2>2
  <1>14. CASE exts[x].status = "ACTIVE"
    <2>1. \A y \in Requests : exts'[y].status = exts[y].status
      BY <1>7, <1>14
    <2>2. NoHourSoldTwice'
      BY <1>1, <1>8, <2>1 DEF EditInv, NoHourSoldTwice
    <2>3. PaidEnds # {}
      BY <1>2, <1>14 DEF PaidEnds
    <2>4. extensionStartTime' = extensionStartTime
      BY <1>8, <1>9, <1>10, <2>1, <2>3, ExtensionStartStays DEF EditInv
    <2>5. "extension" \notin raced' => ExtensionsInOrder'
      <3>1. SUFFICES ASSUME "extension" \notin raced PROVE ExtensionsInOrder'
        BY <1>1
      <3>2. ExtensionsInOrder
        BY <3>1 DEF EditInv
      <3>3. \A s \in Requests : ereq[s].state = "extend" =>
              \/ ereq[s].from = extensionStartTime
              \/ \E y \in Requests : exts'[y].status = "ACTIVE" /\ exts'[y].from = ereq[s].from
        <4> TAKE s \in Requests
        <4> HAVE ereq[s].state = "extend"
        <4>1. CASE ereq[s].from = extensionStartTime
          BY <4>1
        <4>2. ASSUME NEW y \in Requests, exts[y].status = "ACTIVE", exts[y].from = ereq[s].from
              PROVE  exts'[y].status = "ACTIVE" /\ exts'[y].from = ereq[s].from
          BY <1>8, <2>1, <4>2
        <4> QED BY <3>2, <4>1, <4>2 DEF ExtensionsInOrder
      <3>4. \A y \in Requests : exts'[y].status = "PENDING" =>
              exts[y].status = "PENDING" /\ exts[y].from = extensionStartTime
        BY <2>1, <3>2 DEF ExtensionsInOrder
      <3> QED BY <1>1, <1>8, <2>4, <3>2, <3>3, <3>4, OrderMoves DEF EditInv
    <2> QED BY <1>9, <1>10, <1>11, <1>12, <1>13, <2>2, <2>5 DEF EditInv
  <1>15. CASE exts[x].status = "PENDING"
    <2>1. StartsAfterPaid /\ StartsAfterPaid'
      BY <1>9, <1>10, ExtensionStart, ExtensionStartNext DEF EditInv
    <2>2. exts[x].from < exts[x].to /\ exts[x].from \in Nat
      BY <1>2, <1>15 DEF EditInv, ETypeOK, ExtRows
    <2>3. "extension" \notin raced => ExtensionsInOrder
      BY DEF EditInv
    <2>4. "extension" \notin raced => \A y \in Requests : y # x /\ exts[y].status = "ACTIVE" =>
                                         exts[x].from >= exts[y].to
      BY <1>2, <1>15, <2>1, <2>3 DEF ExtensionsInOrder, StartsAfterPaid
    <2>5. NoHourSoldTwice'
      <3> SUFFICES ASSUME NEW y \in Requests, NEW z \in Requests, y # z, "extension" \notin raced,
                          exts'[y].status = "ACTIVE", exts'[z].status = "ACTIVE"
                   PROVE  exts[y].from >= exts[z].to \/ exts[z].from >= exts[y].to
        BY <1>1, <1>8 DEF NoHourSoldTwice
      <3>1. CASE y = x
        BY <1>7, <2>4, <3>1
      <3>2. CASE z = x
        BY <1>7, <2>4, <3>2
      <3>3. CASE y # x /\ z # x
        BY <1>7, <3>3 DEF EditInv, NoHourSoldTwice
      <3> QED BY <3>1, <3>2, <3>3
    <2>6. ASSUME "extension" \notin raced PROVE ExtensionsInOrder'
      <3>1. ExtensionsInOrder
        BY <2>3, <2>6
      <3>2. \A y \in Requests : exts'[y].status # "PENDING"
        BY <1>2, <1>7, <1>15, <3>1 DEF ExtensionsInOrder
      <3>3. exts[x].from = extensionStartTime
        BY <1>2, <1>15, <3>1 DEF ExtensionsInOrder
      <3>5. ASSUME NEW s \in Requests, ereq[s].state = "extend"
            PROVE  \E y \in Requests : exts'[y].status = "ACTIVE" /\ exts'[y].from = ereq[s].from
        <4>1. CASE ereq[s].from = extensionStartTime
          BY <1>2, <1>7, <3>3, <4>1
        <4>2. CASE \E y \in Requests : exts[y].status = "ACTIVE" /\ exts[y].from = ereq[s].from
          BY <1>7, <1>8, <4>2
        <4> QED BY <3>1, <3>5, <4>1, <4>2 DEF ExtensionsInOrder
      <3> QED BY <1>1, <1>8, <3>1, <3>2, <3>5, OrderMoves DEF EditInv
    <2>7. "extension" \notin raced' => ExtensionsInOrder'
      BY <1>1, <2>6
    <2> QED BY <1>9, <1>10, <1>11, <1>12, <1>13, <2>5, <2>7 DEF EditInv
  <1> QED BY <1>1, <1>14, <1>15

(* At first the booking is confirmed, and nobody has asked for anything.   *)
LEMMA EditInit == EInit => EditInv
  <1> SUFFICES ASSUME EInit PROVE EditInv
    OBVIOUS
  <1> DEFINE s == Max(EStarts)
             p == CHOOSE q \in EPlaces : TRUE
  <1>1. s \in Nat /\ s + DayLength \in Nat
    <2>1. PICK N \in Nat : \A t \in EStarts : t <= N
      BY EAssumption, FiniteBounded DEF EAssumption
    <2>2. s \in EStarts
      BY <2>1, EAssumption, SetTop DEF EAssumption
    <2> QED BY <2>2, EAssumption DEF EAssumption
  <1>2. p \in EPlaces /\ told \in EStaff
    BY EAssumption DEF EAssumption, EInit
  <1>3. enow \in EInstants
    <2>1. EInstants \subseteq Nat /\ EInstants # {}
      BY EAssumption DEF EAssumption
    <2> QED BY <2>1, SetBottom DEF EInit
  <1>4. ebook = [b \in EBookings |->
              [status |-> IF b = Mine THEN "CONFIRMED" ELSE "NONE", start |-> s,
               end |-> s + DayLength, leg |-> s + DayLength, pickup |-> p, drop |-> p,
               chauffeur |-> told]]
    BY DEF EInit
  <1> HIDE DEF s, p
  <1>5. /\ ebook \in [EBookings -> EditRows] /\ ebook[Next1].status = "NONE"
        /\ ebook[Mine].chauffeur = told
    BY <1>1, <1>2, <1>4, EAssumption DEF EditRows, EBookings, EBlocking, EAssumption
  <1>6. /\ ereq = [r \in Requests |-> Fresh] /\ exts = [r \in Requests |-> NoExt]
        /\ charged = {} /\ raced = {}
    BY DEF EInit
  <1>7. \A r \in Requests : ereq[r].state = "new" /\ exts[r].status = "NONE"
    BY <1>6 DEF Fresh, NoExt
  <1>8. ETypeOK
    BY <1>2, <1>3, <1>5, <1>6, <1>7 DEF ETypeOK, EditRows
  <1>9. EditReads
    <2>1. exts \in [Requests -> ExtRows]
      BY <1>6 DEF NoExt, ExtRows
    <2> QED BY <1>6, <1>7, <2>1 DEF EditReads
  <1>10. ETurnaroundKept /\ AssignedIsTold /\ ExtensionCovered /\ NoHourSoldTwice
    BY <1>5, <1>7 DEF ETurnaroundKept, AssignedIsTold, ExtensionCovered, NoHourSoldTwice, EBlocking
  <1>11. ExtensionsInOrder
    BY <1>7 DEF ExtensionsInOrder
  <1> QED BY <1>8, <1>9, <1>10, <1>11 DEF EditInv

(* Every step keeps the booking and its extensions in order.               *)
LEMMA EditStep == EditInv /\ [ENext]_evars => EditInv'
  <1> SUFFICES ASSUME EditInv, [ENext]_evars PROVE EditInv'
    OBVIOUS
  <1>1. CASE \E r \in Requests : updateBookingInternal(r)
    BY <1>1, EditReadKeeps
  <1>2. CASE \E r \in Requests : updateBooking(r)
    BY <1>2, EditKeeps
  <1>3. CASE \E r \in Requests : readForAssignment(r) \/ assignChauffeur(r)
    BY <1>3, AssignKeeps
  <1>4. CASE \E r \in Requests : readForExtension(r)
    BY <1>4, ExtendReadKeeps
  <1>5. CASE \E r \in Requests : createExtension(r)
    BY <1>5, CreateExtensionKeeps
  <1>6. CASE \E p \in charged : confirmExtension(p)
    BY <1>6, ConfirmExtensionKeeps
  <1>7. CASE \/ cancelMine \/ activateMine \/ ETick \/ \E s \in EOthers : reserveNext(s)
             \/ \E r \in Requests : payExtension(r)
             \/ UNCHANGED evars
    BY <1>7, EditOthersKeep
  <1> QED BY <1>1, <1>2, <1>3, <1>4, <1>5, <1>6, <1>7 DEF ENext

(* What a single step may not do to the pickup time, the round trip and an *)
(* extension that was paid.                                                *)
StartMove ==
    ebook'[Mine].start # ebook[Mine].start =>
        /\ enow + EditCutoff < ebook[Mine].start
        /\ enow + EditCutoff < ebook'[Mine].start

RoundTripMove ==
    \A r \in Requests :
       (ereq[r].state = "edit" /\ ereq'[r] = Done /\ ereq[r].same = "yes" /\ ebook' # ebook)
           => ebook'[Mine].pickup = ebook'[Mine].drop \/ "place" \in raced'

PaidMove ==
    \A x \in Requests : exts[x].status = "ACTIVE" =>
        exts'[x].status = "ACTIVE" \/ "extension" \in raced'

(* Who moves the booking, who ends an edit, who changes an extension.      *)
LEMMA WhoMoves ==
    ASSUME EditInv, [ENext]_evars
    PROVE  /\ ebook'[Mine].start # ebook[Mine].start => \E r \in Requests : updateBooking(r)
           /\ \A r \in Requests : ereq[r].state = "edit" /\ ereq'[r] = Done => updateBooking(r)
           /\ \A x \in Requests : exts[x].status = "ACTIVE" /\ exts'[x].status # "ACTIVE" =>
                 \E r \in Requests : createExtension(r)
  <1>1. /\ ebook \in [EBookings -> EditRows] /\ Mine # Next1 /\ Mine \in EBookings
        /\ exts \in [Requests -> ExtRows] /\ DOMAIN ereq = Requests
        /\ \A p \in charged : p.ext \in Requests
    BY EAssumption DEF EditInv, ETypeOK, EditRows, EBookings, EAssumption, EditReads
  <1>2. CASE \E r \in Requests : updateBooking(r)
    <2>1. PICK r \in Requests : updateBooking(r)
      BY <1>2
    <2>2. exts' = exts /\ \A s \in Requests \ {r} : ereq'[s] = ereq[s]
      BY <2>1 DEF updateBooking
    <2>3. \A s \in Requests : ereq[s].state = "edit" /\ ereq'[s] = Done => s = r
      BY <2>2 DEF Done
    <2> QED BY <1>2, <2>1, <2>2, <2>3
  <1>3. CASE \E r \in Requests : createExtension(r)
    <2>1. PICK r \in Requests : createExtension(r)
      BY <1>3
    <2>2. /\ ebook' = ebook /\ ereq[r].state = "extend"
          /\ \A s \in Requests \ {r} : ereq'[s] = ereq[s]
      BY <2>1 DEF createExtension
    <2> QED BY <1>3, <2>2 DEF Done
  <1>4. CASE \E r \in Requests : \/ updateBookingInternal(r) \/ readForAssignment(r)
                                 \/ readForExtension(r) \/ payExtension(r)
    <2>1. PICK r \in Requests : \/ updateBookingInternal(r) \/ readForAssignment(r)
                                \/ readForExtension(r) \/ payExtension(r)
      BY <1>4
    <2>2. ebook' = ebook /\ exts' = exts
      BY <2>1 DEF updateBookingInternal, readForAssignment, readForExtension, payExtension
    <2>3. /\ \A s \in Requests \ {r} : ereq'[s] = ereq[s]
          /\ ereq' = ereq \/ ereq[r] = Fresh
      <3>1. CASE payExtension(r)
        BY <3>1 DEF payExtension
      <3>2. CASE updateBookingInternal(r)
        BY <3>2 DEF updateBookingInternal
      <3>3. CASE readForAssignment(r)
        BY <3>3 DEF readForAssignment
      <3>4. CASE readForExtension(r)
        BY <3>4 DEF readForExtension
      <3> QED BY <2>1, <3>1, <3>2, <3>3, <3>4
    <2>4. \A s \in Requests : ereq[s].state = "edit" => ereq'[s] = ereq[s]
      BY <2>3 DEF Fresh
    <2> QED BY <2>2, <2>4 DEF Done
  <1>5. CASE \E r \in Requests : assignChauffeur(r)
    <2>1. PICK r \in Requests : assignChauffeur(r)
      BY <1>5
    <2>2. /\ exts' = exts /\ ereq[r].state = "assign"
          /\ \A s \in Requests \ {r} : ereq'[s] = ereq[s]
      BY <2>1 DEF assignChauffeur
    <2>3. ebook'[Mine].start = ebook[Mine].start
      BY <1>1, <2>1 DEF assignChauffeur, EditRows
    <2> QED BY <2>2, <2>3 DEF Done
  <1>6. CASE \E p \in charged : confirmExtension(p)
    <2>1. PICK p \in charged : confirmExtension(p)
      BY <1>6
    <2>2. ereq' = ereq /\ \A x \in Requests : exts[x].status = "ACTIVE" => exts'[x].status = "ACTIVE"
      BY <1>1, <2>1 DEF confirmExtension, ExtRows
    <2>3. ebook'[Mine].start = ebook[Mine].start
      BY <1>1, <2>1 DEF confirmExtension, EditRows
    <2> QED BY <2>2, <2>3 DEF Done
  <1>7. CASE \/ cancelMine \/ activateMine \/ ETick \/ UNCHANGED evars
             \/ \E s \in EOthers : reserveNext(s)
    <2>1. ereq' = ereq /\ exts' = exts
      BY <1>7 DEF cancelMine, activateMine, ETick, reserveNext, evars
    <2>2. ebook'[Mine].start = ebook[Mine].start
      BY <1>1, <1>7 DEF cancelMine, activateMine, ETick, reserveNext, evars, EditRows
    <2> QED BY <2>1, <2>2 DEF Done
  <1> QED BY <1>2, <1>3, <1>4, <1>5, <1>6, <1>7 DEF ENext

(* A booking is moved before the cutoff of the start it had and of the one *)
(* it gets.                                                                *)
LEMMA MovesInTime == EditInv /\ [ENext]_evars => StartMove
  <1> SUFFICES ASSUME EditInv, [ENext]_evars, ebook'[Mine].start # ebook[Mine].start
               PROVE  /\ enow + EditCutoff < ebook[Mine].start
                      /\ enow + EditCutoff < ebook'[Mine].start
    BY DEF StartMove
  <1>1. PICK r \in Requests : updateBooking(r)
    BY WhoMoves
  <1> DEFINE q == ereq[r]
             S == {q.seen.start} \cup {d.start : d \in q.dates}
  <1>2. /\ UpdatedRow(q, ebook'[Mine]) /\ EditRead(q)
        /\ ebook[Mine].start = q.seen.start /\ AssertCanEdit(q)
    BY <1>1, EditResult
  <1>3. PICK t \in EStarts : q.dates = {[start |-> t, end |-> t + DayLength]} /\ ebook'[Mine].start = t
    BY <1>2 DEF UpdatedRow
  <1>4. /\ t \in Nat /\ ebook[Mine].start \in Nat /\ enow \in Nat /\ EditCutoff \in Nat
    BY EAssumption DEF EAssumption, EditInv, ETypeOK, EBookings
  <1>5. S = {ebook[Mine].start, t}
    BY <1>2, <1>3
  <1>6. Min(S) <= ebook[Mine].start /\ Min(S) <= t /\ Min(S) \in Nat
    <2> HIDE DEF S
    <2>1. S \subseteq Nat /\ S # {}
      BY <1>4, <1>5
    <2>2. Min(S) \in S /\ \A x \in S : Min(S) <= x
      BY <2>1, SetBottom
    <2> QED BY <1>4, <1>5, <2>1, <2>2
  <1>7. enow < Min(S) - EditCutoff
    BY <1>2 DEF AssertCanEdit, isWithinWindow, EffectiveStart, getModificationCutoffAt
  <1> HIDE DEF S
  <1> QED BY <1>3, <1>4, <1>6, <1>7

(* A round trip stays one.                                                 *)
LEMMA RoundTripMoves == EditInv /\ [ENext]_evars => RoundTripMove
  <1> SUFFICES ASSUME EditInv, [ENext]_evars, NEW r \in Requests, ereq[r].state = "edit",
                      ereq'[r] = Done, ereq[r].same = "yes", ebook' # ebook, "place" \notin raced'
               PROVE  ebook'[Mine].pickup = ebook'[Mine].drop
    BY DEF RoundTripMove
  <1> DEFINE q == ereq[r]
  <1>1. updateBooking(r)
    BY WhoMoves
  <1>2. /\ UpdatedRow(q, ebook'[Mine]) /\ EditRead(q)
        /\ q.seen.pickup = ebook[Mine].pickup /\ q.seen.drop = ebook[Mine].drop
    BY <1>1, EditResult
  <1> QED BY <1>2 DEF UpdatedRow, EditRead

(* An extension that was paid stays paid.                                  *)
LEMMA PaidStaysPaid == EditInv /\ [ENext]_evars => PaidMove
  <1> SUFFICES ASSUME EditInv, [ENext]_evars, NEW x \in Requests, exts[x].status = "ACTIVE",
                      exts'[x].status # "ACTIVE", "extension" \notin raced'
               PROVE  FALSE
    BY DEF PaidMove
  <1>1. PICK r \in Requests : createExtension(r)
    BY WhoMoves
  <1>2. exts[ereq[r].row].status \in {"NONE", "PENDING"}
    BY <1>1, WrittenRow
  <1>3. x # ereq[r].row
    BY <1>2
  <1>4. exts \in [Requests -> ExtRows]
    BY DEF EditInv, EditReads
  <1>5. exts'[x] = exts[x]
    BY <1>1, <1>3, <1>4 DEF createExtension
  <1> QED BY <1>5

(***************************************************************************)
(* However the edits, assignments and extensions of a booking overlap, the *)
(* car has its turnaround, the chauffeur of the booking was told, a move   *)
(* is in time for both starts, and round trip, paid extensions and paid    *)
(* hours are kept unless an address, the pickup time or an extension was   *)
(* changed between a request's read and its write (updateBookingInternal,  *)
(* assignChauffeur, createExtension, confirmFromPayment).                  *)
(***************************************************************************)
THEOREM EditsStaySound == ESpec => EditsSound
  <1>1. ESpec => []EditInv
    BY EditInit, EditStep, PTL DEF ESpec
  <1>2. EditInv => ETypeOK /\ ETurnaroundKept /\ AssignedIsTold /\ ExtensionCovered /\ NoHourSoldTwice
    BY DEF EditInv
  <1>3. ESpec => MovedInTime
    BY <1>1, MovesInTime, PTL DEF MovedInTime, StartMove, ESpec
  <1>4. ESpec => RoundTripKept
    BY <1>1, RoundTripMoves, PTL DEF RoundTripKept, RoundTripMove, ESpec
  <1>5. ESpec => PaidExtensionStays
    BY <1>1, PaidStaysPaid, PTL DEF PaidExtensionStays, PaidMove, ESpec
  <1> QED BY <1>1, <1>2, <1>3, <1>4, <1>5, PTL DEF EditsSound

-----------------------------------------------------------------------------
(* BookingLegs: calendar arithmetic.                                       *)

(* Day and time of day of a count of minutes.                               *)
LEMMA DayAndTime ==
  ASSUME NEW d \in Int, NEW m \in Int, 0 <= m, m < DayL
  PROVE  (DayL * d + m) \div DayL = d /\ (DayL * d + m) % DayL = m
BY DEF DayL, HourL

(* A quotient rounded up, from the multiples it lies between.               *)
LEMMA CeilIs ==
  ASSUME NEW n \in Int, NEW x \in Int, DayL * (n - 1) < x, x <= DayL * n
  PROVE  CeilDiv(x, DayL) = n
<1>1. -x \in Int /\ DayL * (-n) <= -x /\ -x < DayL * (-n) + DayL
  BY DEF DayL, HourL
<1>2. PICK m \in Int : m = -x - DayL * (-n)
  BY DEF DayL, HourL
<1>3. 0 <= m /\ m < DayL /\ -x = DayL * (-n) + m
  BY <1>1, <1>2 DEF DayL, HourL
<1>4. (-x) \div DayL = -n
  BY <1>3, DayAndTime
<1> QED BY <1>4 DEF CeilDiv

(* The larger of two numbers.                                               *)
LEMMA LargerIs ==
  ASSUME NEW x \in Int, NEW y \in Int
  PROVE  Larger(x, y) \in Int /\ Larger(x, y) = IF x >= y THEN x ELSE y
BY DEF Larger

(* What a request has in its fields.                                        *)
LEMMA RequestIs ==
  ASSUME NEW r \in LRequests
  PROVE  /\ r.type \in {"DAY", "NIGHT", "FULL_DAY", "AIRPORT_PICKUP"}
         /\ r.zone \in {0, 60} /\ r.start \in Nat /\ r.end \in Nat /\ r.now \in Nat
         /\ r.arrival \in Nat /\ r.drive \in Nat /\ (r.arrival = 0 \/ r.arrival + 1 >= r.now)
         /\ parsePickupTime(r.pickup) \in Int
         /\ 0 <= parsePickupTime(r.pickup) /\ parsePickupTime(r.pickup) <= 1380
<1>1. r \in [type: {"DAY", "NIGHT", "FULL_DAY", "AIRPORT_PICKUP"}, zone: {0, 60},
             start: Nat, end: Nat, pickup: [hour: 1..12, pm: BOOLEAN], now: Nat,
             arrival: Nat, drive: Nat]
  BY LAssumption DEF LAssumption
<1>2. r.pickup \in [hour: 1..12, pm: BOOLEAN]
  BY <1>1
<1>3. r.pickup.hour \in 1..12
  BY <1>2
<1>4. PICK hour \in 1..12 : hour = r.pickup.hour
  BY <1>3
<1>5. parsePickupTime(r.pickup) \in {60 * (hour + 12), 0, 60 * hour} /\ (hour = 12 => parsePickupTime(r.pickup) \in {0, 60 * hour})
  BY <1>4 DEF parsePickupTime, HourL
<1>6. hour # 12 => 60 * (hour + 12) <= 1380
  BY <1>4
<1> QED BY <1>1, <1>4, <1>5, <1>6, LAssumption DEF LAssumption

(* setHours: the same local day, at the time asked for.                     *)
LEMMA AtLocalIs ==
  ASSUME NEW r, r.zone \in {0, 60}, NEW t \in Nat, NEW m \in Int
  PROVE  /\ LocalDay(r, t) \in Nat
         /\ AtLocal(r, t, m) = DayL * LocalDay(r, t) - r.zone + m
<1>1. PICK x \in Nat : x = t + r.zone
  OBVIOUS
<1>2. PICK q \in Nat, y \in Int : q = x \div 1440 /\ y = x % 1440
  OBVIOUS
<1>3. x = 1440 * q + y
  BY <1>2
<1>4. LocalDay(r, t) = q /\ LocalTime(r, t) = y
  BY <1>1, <1>2 DEF LocalDay, LocalTime, DayL, HourL
<1>5. AtLocal(r, t, m) = t - y + m
  BY <1>4 DEF AtLocal
<1> QED BY <1>1, <1>3, <1>4, <1>5 DEF DayL, HourL

-----------------------------------------------------------------------------
(* Legs of one kind: one a day, from c to d minutes after midnight UTC.     *)
Daily(legs, n, a, c, d) ==
    /\ n \in Nat \ {0} /\ Len(legs) = n /\ DOMAIN legs = 1..n
    /\ \A i \in 1..n : /\ legs[i].start = DayL * (a + i - 1) + c
                       /\ legs[i].end = DayL * (a + i - 1) + d

(* What LegsRight says of the legs of an accepted request.                  *)
WellCut(r, w, legs) ==
    /\ legs # <<>> /\ w.start < w.end
    /\ Len(legs) = DaysAsked(r) /\ Len(legs) = calculateLegCount(r.type, w)
    /\ r.type # "AIRPORT_PICKUP" =>
         /\ legs[1].start = w.start + r.zone
         /\ legs[Len(legs)].end = w.end + r.zone
         /\ \A i \in 1..(Len(legs) - 1) : legs[i].end <= legs[i + 1].start
    /\ r.zone = 60 => resolveEstimatedQuantity(r) = Len(legs)
    /\ \A i \in DOMAIN legs : legs[i].start >= r.now

(* Legs that are daily, as many as asked, and begin and end with the window *)
(* are well cut.                                                            *)
LEMMA DailyIsCut ==
  ASSUME NEW r \in LRequests, NEW w, NEW legs, NEW n, NEW a \in Int, NEW c \in Int, NEW d \in Int,
         Daily(legs, n, a, c, d), d <= c + DayL,
         w.start = DayL * a + c - r.zone, w.end = DayL * (a + n - 1) + d - r.zone,
         w.start < w.end, w.start >= r.now,
         n = DaysAsked(r), n = calculateLegCount(r.type, w),
         r.zone = 60 => resolveEstimatedQuantity(r) = n
  PROVE  WellCut(r, w, legs)
<1>1. n \in Nat \ {0} /\ r.zone \in {0, 60} /\ r.now \in Nat /\ Len(legs) = n
  BY RequestIs DEF Daily
<1>2. legs # <<>>
  BY <1>1
<1>0. DayL = 1440
  BY DEF DayL, HourL
<1>7. PICK z \in Int : z = r.zone
  BY <1>1
<1>8. ASSUME NEW i \in 1..n
      PROVE  /\ legs[i].start = 1440 * (a + i - 1) + c
             /\ legs[i].end = 1440 * (a + i - 1) + d
  BY <1>0 DEF Daily
<1>3. legs[1].start = w.start + r.zone
  <2>1. 1 \in 1..n
    BY <1>1
  <2>2. legs[1].start = 1440 * (a + 1 - 1) + c
    BY <1>8, <2>1
  <2>3. w.start = 1440 * a + c - z
    BY <1>0, <1>7
  <2> QED BY <1>7, <2>2, <2>3
<1>4. legs[Len(legs)].end = w.end + r.zone
  <2>1. n \in 1..n
    BY <1>1
  <2>2. legs[n].end = 1440 * (a + n - 1) + d
    BY <1>8, <2>1
  <2>3. w.end = 1440 * (a + n - 1) + d - z
    BY <1>0, <1>7
  <2> QED BY <1>1, <1>7, <2>2, <2>3
<1>5. ASSUME NEW i \in 1..(n - 1) PROVE legs[i].end <= legs[i + 1].start
  <2>1. i \in 1..n /\ i + 1 \in 1..n
    BY <1>1
  <2>2. /\ legs[i].end = 1440 * (a + i - 1) + d
        /\ legs[i + 1].start = 1440 * (a + (i + 1) - 1) + c
    BY <1>8, <2>1
  <2> QED BY <1>0, <1>1, <2>2
<1>6. ASSUME NEW i \in DOMAIN legs PROVE legs[i].start >= r.now
  <2>1. i \in 1..n
    BY DEF Daily
  <2>2. legs[i].start = 1440 * (a + i - 1) + c
    BY <1>8, <2>1
  <2>3. PICK from \in Nat : from = r.now
    BY <1>1
  <2>4. 1440 * a + c - z >= from /\ z >= 0
    <3>1. w.start = 1440 * a + c - z /\ w.start >= from
      BY <1>0, <1>7, <2>3
    <3>2. z >= 0
      BY <1>1, <1>7
    <3> QED BY <3>1, <3>2
  <2>5. 1440 * (a + i - 1) + c >= from
    BY <1>1, <2>1, <2>4
  <2> QED BY <2>2, <2>3, <2>5
<1> QED BY <1>1, <1>2, <1>3, <1>4, <1>5, <1>6 DEF WellCut

(* The agent hands the two local midnights over as a window.                *)
LEMMA EstimateWindow ==
  ASSUME NEW r \in LRequests, r.zone = 60
  PROVE  /\ LocalDay(r, r.start) \in Nat /\ LocalDay(r, r.end) \in Nat
         /\ AtLocal(r, r.start, 0) = DayL * (LocalDay(r, r.start) - 1) + 1380
         /\ AtLocal(r, r.end, 0) = DayL * (LocalDay(r, r.end) - 1) + 1380
BY RequestIs, AtLocalIs DEF DayL, HourL

(* No end but a midnight is moved.                                          *)
LEMMA EffectiveEnd ==
  ASSUME NEW w, NEW d \in Int, NEW m \in Int, 0 < m, m < DayL, w.end = DayL * d + m
  PROVE  getEffectiveEndDate(w) = w.end /\ UTCDay(w.end) = d
<1>1. (DayL * d + m) % DayL = m /\ (DayL * d + m) \div DayL = d
  BY DayAndTime
<1> QED BY <1>1 DEF getEffectiveEndDate, UTCDay

-----------------------------------------------------------------------------
(* Each type of booking.                                                    *)

(* The times of a leg.                                                      *)
LEMMA LegIs ==
  ASSUME NEW date, NEW from, NEW to
  PROVE  LegOf(date, from, to).start = from /\ LegOf(date, from, to).end = to
BY DEF LegOf

(* An accepted request by day is well cut.                                  *)
LEMMA DayLegs ==
  ASSUME NEW r \in LRequests, r.type = "DAY",
         NEW w, w = normalizeBookingTimeWindow(r), validateDates(r, w)
  PROVE  WellCut(r, w, generateLegs(r, w))
<1>0. DayL = 1440 /\ HourL = 60
  BY DEF DayL, HourL
<1>1. PICK z \in {0, 60} : z = r.zone
  BY RequestIs
<1>2. PICK p \in Int : p = parsePickupTime(r.pickup) /\ 0 <= p /\ p <= 1380
  BY RequestIs
<1>3. PICK a \in Nat, b \in Nat : a = LocalDay(r, r.start) /\ b = LocalDay(r, r.end)
  BY RequestIs, AtLocalIs
<1>4. /\ AtLocal(r, r.start, p) = 1440 * a - z + p
      /\ AtLocal(r, r.end, p + 12 * HourL) = 1440 * b - z + (p + 720)
  <2>1. r.zone \in {0, 60} /\ r.start \in Nat /\ r.end \in Nat
    BY RequestIs
  <2>2. p + 12 * HourL \in Int /\ p + 12 * HourL = p + 720
    BY <1>0, <1>2
  <2>3. AtLocal(r, r.start, p) = DayL * a - z + p
    BY <1>1, <1>2, <1>3, <2>1, AtLocalIs
  <2>4. AtLocal(r, r.end, p + 12 * HourL) = DayL * b - z + (p + 12 * HourL)
    BY <1>1, <1>3, <2>1, <2>2, AtLocalIs
  <2> QED BY <1>0, <2>2, <2>3, <2>4
<1>5. w.start = 1440 * a - z + p /\ w.end = 1440 * b - z + (p + 720)
  BY <1>2, <1>4 DEF normalizeBookingTimeWindow, WindowStart, WindowEnd
<1>6. w.start < w.end /\ w.start >= r.now /\ 420 <= p /\ p <= 660
  <2>1. /\ w.end > w.start /\ w.start >= r.now
        /\ LocalTime(r, w.start) >= 420 /\ LocalTime(r, w.start) <= 660
    BY <1>0 DEF validateDates, validateNonAirportDates, validateBookingTypeStartWindow,
                isTimeWithinWindow
  <2>2. w.start + r.zone = DayL * a + p
    BY <1>0, <1>1, <1>5
  <2>3. LocalTime(r, w.start) = p
    BY <1>0, <1>2, <2>2, DayAndTime DEF LocalTime
  <2> QED BY <2>1, <2>3
<1>7. b >= a
  BY <1>5, <1>6, <1>1, <1>2
<1>8. UTCDay(w.start) = a /\ UTCDay(w.end) = b /\ getEffectiveEndDate(w) = w.end
  <2>1. w.start = DayL * a + (p - z) /\ w.end = DayL * b + (p + 720 - z)
    BY <1>0, <1>1, <1>2, <1>5
  <2>2. UTCDay(w.start) = a
    BY <1>0, <1>1, <1>2, <1>6, <2>1, DayAndTime DEF UTCDay
  <2>3. PICK m \in Int : m = p + 720 - z
    BY <1>1, <1>2
  <2>4. 0 < m /\ m < DayL /\ w.end = DayL * b + m
    BY <1>0, <1>1, <1>2, <1>6, <2>1, <2>3
  <2> QED BY <2>2, <2>4, EffectiveEnd
<1>9. PICK n \in Nat : n = b - a + 1
  BY <1>7
<1>10. PICK days : days = [i \in 1..n |-> DayL * (a + i - 1)]
  OBVIOUS
<1>11. getDayLegDates(w) = days
  BY <1>8, <1>9, <1>10 DEF getDayLegDates
<1>12. DOMAIN days = 1..n /\ Len(days) = n
  BY <1>10
<1>13. PICK legs : legs = generateLegs(r, w)
  OBVIOUS
<1>14. legs = [i \in 1..n |-> LegOf(days[i], days[i] + p, days[i] + p + 12 * HourL)]
  BY <1>2, <1>11, <1>12, <1>13 DEF generateLegs, generateDayLegs
<1>15. Daily(legs, n, a, p, p + 720)
  <2>1. Len(legs) = n /\ DOMAIN legs = 1..n
    BY <1>14
  <2>2. ASSUME NEW i \in 1..n
        PROVE  /\ legs[i].start = DayL * (a + i - 1) + p
               /\ legs[i].end = DayL * (a + i - 1) + (p + 720)
    <3>1. PICK day \in Int : day = DayL * (a + i - 1)
      BY <1>0
    <3>2. legs[i] = LegOf(day, day + p, day + p + 12 * HourL)
      BY <1>10, <1>14, <3>1
    <3> QED BY <1>0, <1>2, <3>1, <3>2, LegIs
  <2> QED BY <1>7, <1>9, <2>1, <2>2 DEF Daily
<1>16. DaysAsked(r) = n /\ calculateLegCount(r.type, w) = n
  BY <1>3, <1>9, <1>11, <1>12 DEF DaysAsked, calculateLegCount
<1>17. r.zone = 60 => resolveEstimatedQuantity(r) = n
  <2> SUFFICES ASSUME r.zone = 60 PROVE resolveEstimatedQuantity(r) = n
    OBVIOUS
  <2>1. PICK x : x = [start |-> AtLocal(r, r.start, 0), end |-> AtLocal(r, r.end, 0)]
    OBVIOUS
  <2>2. x.start = DayL * (a - 1) + 1380 /\ x.end = DayL * (b - 1) + 1380
    BY <1>3, <2>1, EstimateWindow
  <2>3. UTCDay(x.start) = a - 1 /\ UTCDay(x.end) = b - 1 /\ getEffectiveEndDate(x) = x.end
    <3>1. UTCDay(x.start) = a - 1
      BY <1>0, <2>2, DayAndTime DEF UTCDay
    <3> QED BY <1>0, <2>2, <3>1, EffectiveEnd
  <2>4. getDayLegDates(x) = [i \in 1..n |-> DayL * ((a - 1) + i - 1)]
    <3>1. (b - 1) - (a - 1) + 1 = n
      BY <1>9
    <3> QED BY <2>3, <3>1 DEF getDayLegDates
  <2>5. Len(getDayLegDates(x)) = n
    BY <2>4
  <2> QED BY <2>1, <2>5 DEF resolveEstimatedQuantity, calculateLegCount
<1>18. /\ w.start = DayL * a + p - r.zone
       /\ w.end = DayL * (a + n - 1) + (p + 720) - r.zone
  BY <1>0, <1>1, <1>2, <1>5, <1>9
<1>19. p + 720 \in Int /\ p + 720 <= p + DayL
  BY <1>0, <1>2
<1> QED BY <1>2, <1>3, <1>6, <1>13, <1>15, <1>16, <1>17, <1>18, <1>19, DailyIsCut

(* Nights asked for: at least one.                                          *)
LEMMA NightsAre ==
  ASSUME NEW a \in Int, NEW b \in Int
  PROVE  Larger(1, b - a) = (IF b > a THEN b - a ELSE 1) /\ Larger(1, b - a) \in Nat \ {0}
BY DEF Larger

(* An accepted request for nights is well cut, in the hours of the          *)
(* service's zone.                                                          *)
LEMMA NightLegs ==
  ASSUME NEW r \in LRequests, r.type = "NIGHT",
         NEW w, w = normalizeBookingTimeWindow(r), validateDates(r, w)
  PROVE  WellCut(r, w, generateLegs(r, w))
<1>0. DayL = 1440 /\ HourL = 60
  BY DEF DayL, HourL
<1>1. PICK z \in {0, 60} : z = r.zone
  BY RequestIs
<1>2. PICK a \in Nat, b \in Nat : a = LocalDay(r, r.start) /\ b = LocalDay(r, r.end)
  BY RequestIs, AtLocalIs
<1>3. /\ AtLocal(r, r.start, 23 * HourL) = 1440 * a - z + 1380
      /\ AtLocal(r, r.end, 5 * HourL) = 1440 * b - z + 300
  <2>1. r.zone \in {0, 60} /\ r.start \in Nat /\ r.end \in Nat
    BY RequestIs
  <2>2. 23 * HourL = 1380 /\ 5 * HourL = 300
    BY <1>0
  <2>3. AtLocal(r, r.start, 1380) = DayL * a - z + 1380
    BY <1>1, <1>2, <2>1, AtLocalIs
  <2>4. AtLocal(r, r.end, 300) = DayL * b - z + 300
    BY <1>1, <1>2, <2>1, AtLocalIs
  <2> QED BY <1>0, <2>2, <2>3, <2>4
<1>4. w.start = 1440 * a - z + 1380
  BY <1>3 DEF normalizeBookingTimeWindow, WindowStart
<1>5. w.end = IF 1440 * b - z + 300 <= 1440 * a - z + 1380
              THEN 1440 * (b + 1) - z + 300 ELSE 1440 * b - z + 300
  <2>1. PICK e \in Int : e = 1440 * b - z + 300
    BY <1>1
  <2>2. WindowStart(r) = 1440 * a - z + 1380
    BY <1>3 DEF WindowStart
  <2>3. NightEnd(r) = IF e <= 1440 * a - z + 1380 THEN e + DayL ELSE e
    BY <1>3, <2>1, <2>2 DEF NightEnd
  <2>4. w.end = NightEnd(r)
    BY DEF normalizeBookingTimeWindow, WindowEnd
  <2> QED BY <1>0, <1>1, <2>1, <2>3, <2>4
<1>6. w.start < w.end /\ w.start >= r.now
  BY DEF validateDates, validateNonAirportDates
<1>7. PICK n \in Nat \ {0} : n = Larger(1, b - a) /\ n = IF b > a THEN b - a ELSE 1
  BY NightsAre
<1>8. b >= a /\ w.end = 1440 * (a + n) - z + 300
  <2>1. PICK e \in Int, s \in Int : e = w.end /\ s = w.start
    BY <1>1, <1>4, <1>5
  <2>2. s < e
    BY <1>6, <2>1
  <2>3. s = 1440 * a - z + 1380
    BY <1>4, <2>1
  <2>4. CASE b > a
    <3>1. e = 1440 * b - z + 300
      BY <1>1, <1>5, <2>1, <2>4
    <3> QED BY <1>1, <1>7, <2>1, <2>4, <3>1
  <2>5. CASE b <= a
    <3>1. e = 1440 * (b + 1) - z + 300
      BY <1>1, <1>5, <2>1, <2>5
    <3>2. b = a
      BY <1>1, <2>2, <2>3, <2>5, <3>1
    <3> QED BY <1>1, <1>7, <2>1, <3>1, <3>2
  <2> QED BY <2>4, <2>5
<1>9. calculateNightLegCount(w) = n
  <2>1. PICK m \in Int : m = 300 - z
    BY <1>1
  <2>2. 0 < m /\ m < DayL /\ w.end = DayL * (a + n) + m
    BY <1>0, <1>1, <1>8, <2>1
  <2>3. getEffectiveEndDate(w) = w.end
    BY <2>2, EffectiveEnd
  <2>4. PICK span \in Int : span = w.end - w.start
    BY <1>1, <1>4, <1>8
  <2>5. span = 1440 * n - 1080
    BY <1>1, <1>4, <1>8, <2>4
  <2>6. CeilDiv(span, DayL) = n
    BY <1>0, <2>5, CeilIs
  <2>7. Larger(1, n) = n
    BY DEF Larger
  <2> QED BY <2>3, <2>4, <2>6, <2>7 DEF calculateNightLegCount
<1>10. PICK legs : legs = generateLegs(r, w)
  OBVIOUS
<1>11. legs = [i \in 1..n |-> LegOf(w.start + DayL * (i - 1),
                                   AtUTC(w.start + DayL * (i - 1), 23 * HourL),
                                   AtUTC(w.start + DayL * (i - 1), DayL + 5 * HourL))]
  BY <1>9, <1>10 DEF generateLegs, generateNightLegs
<1>12. Daily(legs, n, a, 1380, 1740)
  <2>1. Len(legs) = n /\ DOMAIN legs = 1..n
    BY <1>11
  <2>2. ASSUME NEW i \in 1..n
        PROVE  /\ legs[i].start = DayL * (a + i - 1) + 1380
               /\ legs[i].end = DayL * (a + i - 1) + 1740
    <3>1. PICK night \in Int, day \in Int : night = w.start + DayL * (i - 1) /\ day = a + i - 1
      BY <1>0, <1>1, <1>4
    <3>2. PICK m \in Int : m = 1380 - z
      BY <1>1
    <3>3. night = DayL * day + m /\ 0 <= m /\ m < DayL
      BY <1>0, <1>1, <1>4, <3>1, <3>2
    <3>4. UTCDay(night) = day
      BY <3>3, DayAndTime DEF UTCDay
    <3>5. legs[i] = LegOf(night, AtUTC(night, 23 * HourL), AtUTC(night, DayL + 5 * HourL))
      BY <1>11, <3>1
    <3>6. AtUTC(night, 23 * HourL) = DayL * day + 1380 /\ AtUTC(night, DayL + 5 * HourL) = DayL * day + 1740
      BY <1>0, <3>4 DEF AtUTC
    <3> QED BY <3>1, <3>5, <3>6, LegIs
  <2> QED BY <1>7, <2>1, <2>2 DEF Daily
<1>13. DaysAsked(r) = n /\ calculateLegCount(r.type, w) = n
  BY <1>2, <1>7, <1>9, NightsAre DEF DaysAsked, calculateLegCount
<1>14. r.zone = 60 => resolveEstimatedQuantity(r) = n
  <2> SUFFICES ASSUME r.zone = 60 PROVE resolveEstimatedQuantity(r) = n
    OBVIOUS
  <2>1. PICK x : x = [start |-> AtLocal(r, r.start, 0), end |-> AtLocal(r, r.end, 0)]
    OBVIOUS
  <2>2. x.start = DayL * (a - 1) + 1380 /\ x.end = DayL * (b - 1) + 1380
    BY <1>2, <2>1, EstimateWindow
  <2>3. getEffectiveEndDate(x) = x.end
    <3>1. PICK d \in Int : d = b - 1
      OBVIOUS
    <3>2. x.end = DayL * d + 1380 /\ 0 < 1380 /\ 1380 < DayL
      BY <1>0, <2>2, <3>1
    <3> QED BY <3>2, EffectiveEnd
  <2>4. PICK span \in Int : span = x.end - x.start /\ span = 1440 * (b - a)
    <3>1. PICK from \in Int, to \in Int :
            from = 1440 * (a - 1) + 1380 /\ to = 1440 * (b - 1) + 1380
      OBVIOUS
    <3>2. x.start = from /\ x.end = to
      BY <1>0, <2>2, <3>1
    <3> QED BY <3>1, <3>2
  <2>5. span = 1440 * (b - a)
    BY <2>4
  <2>6. CeilDiv(span, DayL) = b - a
    BY <1>0, <2>5, CeilIs
  <2>7. calculateNightLegCount(x) = n
    BY <1>7, <2>3, <2>4, <2>6, NightsAre DEF calculateNightLegCount
  <2> QED BY <2>1, <2>7 DEF resolveEstimatedQuantity, calculateLegCount
<1>15. /\ w.start = DayL * a + 1380 - r.zone
       /\ w.end = DayL * (a + n - 1) + 1740 - r.zone
  BY <1>0, <1>1, <1>4, <1>7, <1>8
<1>16. 1740 <= 1380 + DayL
  BY <1>0
<1> QED BY <1>6, <1>10, <1>12, <1>13, <1>14, <1>15, <1>16, DailyIsCut

(* An accepted request for full days is well cut.                           *)
LEMMA FullDayLegs ==
  ASSUME NEW r \in LRequests, r.type = "FULL_DAY",
         NEW w, w = normalizeBookingTimeWindow(r), validateDates(r, w)
  PROVE  WellCut(r, w, generateLegs(r, w))
<1>0. DayL = 1440 /\ HourL = 60
  BY DEF DayL, HourL
<1>1. PICK z \in {0, 60} : z = r.zone
  BY RequestIs
<1>2. PICK p \in Int : p = parsePickupTime(r.pickup) /\ 0 <= p /\ p <= 1380
  BY RequestIs
<1>3. PICK a \in Nat, b \in Nat : a = LocalDay(r, r.start) /\ b = LocalDay(r, r.end)
  BY RequestIs, AtLocalIs
<1>4. AtLocal(r, r.start, p) = 1440 * a - z + p
  <2>1. r.zone \in {0, 60} /\ r.start \in Nat
    BY RequestIs
  <2>2. AtLocal(r, r.start, p) = DayL * a - z + p
    BY <1>1, <1>2, <1>3, <2>1, AtLocalIs
  <2> QED BY <1>0, <2>2
<1>5. PICK n \in Nat \ {0} : n = Larger(1, b - a) /\ n = IF b > a THEN b - a ELSE 1
  BY NightsAre
<1>6. DaySpan(r) = n
  BY <1>3, <1>5, NightsAre DEF DaySpan
<1>7. w.start = 1440 * a - z + p /\ w.end = 1440 * (a + n) - z + p
  <2>1. WindowStart(r) = 1440 * a - z + p
    BY <1>2, <1>4 DEF WindowStart
  <2>2. WindowEnd(r) = 1440 * a - z + p + DayL * n
    BY <1>6, <2>1 DEF WindowEnd
  <2> QED BY <1>0, <1>1, <1>2, <2>1, <2>2 DEF normalizeBookingTimeWindow
<1>8. w.start < w.end /\ w.start >= r.now /\ 360 <= p
  <2>1. /\ w.end > w.start /\ w.start >= r.now /\ LocalTime(r, w.start) >= 360
    BY <1>0 DEF validateDates, validateNonAirportDates, validateBookingTypeStartWindow,
                isTimeWithinWindow
  <2>2. w.start + r.zone = DayL * a + p
    BY <1>0, <1>1, <1>7
  <2>3. LocalTime(r, w.start) = p
    BY <1>0, <1>2, <2>2, DayAndTime DEF LocalTime
  <2> QED BY <2>1, <2>3
<1>9. PICK m \in Int : m = p - z
  BY <1>1
<1>10. 0 < m /\ m < DayL /\ w.start = DayL * a + m /\ w.end = DayL * (a + n) + m
  BY <1>0, <1>1, <1>2, <1>7, <1>8, <1>9
<1>11. UTCDay(w.start) = a
  BY <1>10, DayAndTime DEF UTCDay
<1>12. getEffectiveEndDate(w) = w.end
  BY <1>10, EffectiveEnd
<1>13. PICK base \in Int : base = DayL * a + p
  BY <1>0
<1>14. AtUTC(w.start, p) = base
  BY <1>11, <1>13 DEF AtUTC
<1>15. calculateFullDayLegCount(w, base) = n /\ calculateFullDayLegCount(w, w.start) = n
  <2>1. PICK s \in Int, t \in Int : s = w.end - base /\ t = w.end - w.start
    BY <1>0, <1>10, <1>13
  <2>2. s = 1440 * n - z /\ t = 1440 * n
    BY <1>0, <1>1, <1>9, <1>10, <1>13, <2>1
  <2>3. CeilDiv(s, DayL) = n /\ CeilDiv(t, DayL) = n
    BY <1>0, <1>1, <2>2, CeilIs
  <2>4. Larger(1, n) = n
    BY DEF Larger
  <2> QED BY <1>12, <2>1, <2>3, <2>4 DEF calculateFullDayLegCount
<1>16. PICK legs : legs = generateLegs(r, w)
  OBVIOUS
<1>17. legs = [i \in 1..n |-> LegOf(base + DayL * (i - 1), base + DayL * (i - 1), base + DayL * i)]
  BY <1>2, <1>14, <1>15, <1>16 DEF generateLegs, generateFullDayLegs
<1>18. Daily(legs, n, a, p, p + 1440)
  <2>1. Len(legs) = n /\ DOMAIN legs = 1..n
    BY <1>17
  <2>2. ASSUME NEW i \in 1..n
        PROVE  /\ legs[i].start = DayL * (a + i - 1) + p
               /\ legs[i].end = DayL * (a + i - 1) + (p + 1440)
    <3>1. PICK from \in Int, to \in Int : from = base + DayL * (i - 1) /\ to = base + DayL * i
      BY <1>0
    <3>2. legs[i] = LegOf(from, from, to)
      BY <1>17, <3>1
    <3>3. from = DayL * (a + i - 1) + p /\ to = DayL * (a + i - 1) + (p + 1440)
      BY <1>0, <1>13, <3>1
    <3> QED BY <3>2, <3>3, LegIs
  <2> QED BY <1>5, <2>1, <2>2 DEF Daily
<1>19. DaysAsked(r) = n /\ calculateLegCount(r.type, w) = n
  BY <1>3, <1>5, <1>15, NightsAre DEF DaysAsked, calculateLegCount
<1>20. r.zone = 60 => resolveEstimatedQuantity(r) = n
  <2> SUFFICES ASSUME r.zone = 60 PROVE resolveEstimatedQuantity(r) = n
    OBVIOUS
  <2>1. PICK x : x = [start |-> AtLocal(r, r.start, 0), end |-> AtLocal(r, r.end, 0)]
    OBVIOUS
  <2>2. x.start = DayL * (a - 1) + 1380 /\ x.end = DayL * (b - 1) + 1380
    BY <1>3, <2>1, EstimateWindow
  <2>3. getEffectiveEndDate(x) = x.end
    <3>1. PICK d \in Int : d = b - 1
      OBVIOUS
    <3>2. x.end = DayL * d + 1380 /\ 0 < 1380 /\ 1380 < DayL
      BY <1>0, <2>2, <3>1
    <3> QED BY <3>2, EffectiveEnd
  <2>4. PICK span \in Int : span = x.end - x.start /\ span = 1440 * (b - a)
    <3>1. PICK from \in Int, to \in Int :
            from = 1440 * (a - 1) + 1380 /\ to = 1440 * (b - 1) + 1380
      OBVIOUS
    <3>2. x.start = from /\ x.end = to
      BY <1>0, <2>2, <3>1
    <3> QED BY <3>1, <3>2
  <2>5. span = 1440 * (b - a)
    BY <2>4
  <2>6. CeilDiv(span, DayL) = b - a
    BY <1>0, <2>5, CeilIs
  <2>7. calculateFullDayLegCount(x, x.start) = n
    BY <1>5, <2>3, <2>4, <2>6, NightsAre DEF calculateFullDayLegCount
  <2> QED BY <2>1, <2>7 DEF resolveEstimatedQuantity, calculateLegCount
<1>21. /\ w.start = DayL * a + p - r.zone
       /\ w.end = DayL * (a + n - 1) + (p + 1440) - r.zone
  BY <1>0, <1>1, <1>2, <1>5, <1>7
<1>22. p + 1440 \in Int /\ p + 1440 <= p + DayL
  BY <1>0
<1> QED BY <1>8, <1>16, <1>18, <1>19, <1>20, <1>21, <1>22, DailyIsCut

(* An accepted airport pickup is well cut.                                  *)
LEMMA AirportLegs ==
  ASSUME NEW r \in LRequests, r.type = "AIRPORT_PICKUP",
         NEW w, w = normalizeBookingTimeWindow(r), validateDates(r, w)
  PROVE  WellCut(r, w, generateLegs(r, w))
<1>1. PICK s \in Nat, now \in Nat, land \in Nat : s = r.start /\ now = r.now /\ land = r.arrival
  BY RequestIs
<1>2. w.start = s /\ s < w.end /\ s >= now + 60
  BY <1>1 DEF normalizeBookingTimeWindow, WindowStart, validateDates,
              validateAirportPickupAdvanceNotice, HourL
<1>3. PICK from \in Nat : from = (IF land = 0 THEN s ELSE land) + 40
  OBVIOUS
<1>4. from >= now
  <2>1. land = 0 \/ land + 1 >= now
    BY <1>1, RequestIs
  <2> QED BY <1>2, <1>3, <2>1
<1>5. PICK to : generateLegs(r, w) = <<LegOf(s, from, to)>>
  BY <1>1, <1>2, <1>3 DEF generateLegs, generateAirportPickupLegs
<1>6. PICK legs : legs = generateLegs(r, w)
  OBVIOUS
<1>7. Len(legs) = 1 /\ DOMAIN legs = {1} /\ legs # <<>> /\ legs[1] = LegOf(s, from, to)
  BY <1>5, <1>6
<1>8. legs[1].start = from
  BY <1>7, LegIs
<1>9. DaysAsked(r) = 1 /\ calculateLegCount(r.type, w) = 1 /\ resolveEstimatedQuantity(r) = 1
  BY DEF DaysAsked, calculateLegCount, resolveEstimatedQuantity
<1> QED BY <1>1, <1>2, <1>4, <1>6, <1>7, <1>8, <1>9 DEF WellCut

(* Every request has a window.                                              *)
LEMMA EveryWindow ==
  ASSUME NEW r \in LRequests, NEW w, w = normalizeBookingTimeWindow(r)
  PROVE  w.start \in Int /\ w.end \in Int
<1>0. DayL = 1440 /\ HourL = 60
  BY DEF DayL, HourL
<1>1. PICK z \in {0, 60}, p \in Int, s \in Nat, e \in Nat :
        z = r.zone /\ p = parsePickupTime(r.pickup) /\ s = r.start /\ e = r.end
  BY RequestIs
<1>2. PICK a \in Nat, b \in Nat : a = LocalDay(r, r.start) /\ b = LocalDay(r, r.end)
  BY <1>1, AtLocalIs
<1>3. ASSUME NEW m \in Int PROVE AtLocal(r, s, m) \in Int /\ AtLocal(r, e, m) \in Int
  <2>1. AtLocal(r, s, m) = DayL * a - z + m /\ AtLocal(r, e, m) = DayL * b - z + m
    BY <1>1, <1>2, AtLocalIs
  <2> QED BY <1>0, <2>1
<1>4. 23 * HourL = 1380 /\ 5 * HourL = 300 /\ p + 12 * HourL = p + 720
  BY <1>0
<1>5. WindowStart(r) \in Int
  BY <1>1, <1>3, <1>4 DEF WindowStart
<1>6. NightEnd(r) \in Int
  <2>1. PICK t \in Int : t = AtLocal(r, e, 300)
    BY <1>3
  <2> QED BY <1>0, <1>1, <1>4, <2>1 DEF NightEnd
<1>7. DaySpan(r) \in Int
  BY <1>2, NightsAre DEF DaySpan
<1>8. WindowEnd(r) \in Int
  <2>1. AtLocal(r, e, p + 720) \in Int
    BY <1>3
  <2>2. WindowStart(r) + DayL * DaySpan(r) \in Int
    BY <1>0, <1>5, <1>7
  <2> QED BY <1>1, <1>4, <1>6, <2>1, <2>2 DEF WindowEnd
<1> QED BY <1>5, <1>8 DEF normalizeBookingTimeWindow

(* A leg ends after it starts, whether or not the request is accepted.      *)
Forward(legs) == \A i \in DOMAIN legs : legs[i].start < legs[i].end

(* The legs of every request end after they start.                          *)
LEMMA EveryLegForward ==
  ASSUME NEW r \in LRequests, NEW w, w = normalizeBookingTimeWindow(r)
  PROVE  Forward(generateLegs(r, w))
<1>0. DayL = 1440 /\ HourL = 60
  BY DEF DayL, HourL
<1>1. PICK s \in Int, e \in Int : s = w.start /\ e = w.end
  BY EveryWindow
<1>2. PICK p \in Int : p = parsePickupTime(r.pickup)
  BY RequestIs
<1>3. PICK x \in Int : x = getEffectiveEndDate(w)
  BY <1>1 DEF getEffectiveEndDate, Larger
<1>4. PICK legs : legs = generateLegs(r, w)
  OBVIOUS
<1>5. CASE r.type = "DAY"
  <2>1. PICK a \in Int, n \in Int : a = UTCDay(s) /\ n = UTCDay(x) - UTCDay(s) + 1
    BY <1>0 DEF UTCDay
  <2>2. PICK days : days = [i \in 1..n |-> DayL * (a + i - 1)]
    OBVIOUS
  <2>3. getDayLegDates(w) = days /\ DOMAIN days = 1..n
    BY <1>1, <1>3, <2>1, <2>2 DEF getDayLegDates
  <2>4. legs = [i \in 1..n |-> LegOf(days[i], days[i] + p, days[i] + p + 12 * HourL)]
    BY <1>2, <1>4, <1>5, <2>3 DEF generateLegs, generateDayLegs
  <2>5. ASSUME NEW i \in 1..n PROVE legs[i].start < legs[i].end
    <3>1. PICK day \in Int : day = DayL * (a + i - 1)
      BY <1>0
    <3>2. legs[i] = LegOf(day, day + p, day + p + 12 * HourL)
      BY <2>2, <2>4, <3>1
    <3> QED BY <1>0, <3>2, LegIs
  <2> QED BY <1>4, <2>4, <2>5 DEF Forward
<1>6. CASE r.type = "NIGHT"
  <2>1. PICK n : n = calculateNightLegCount(w)
    OBVIOUS
  <2>2. n \in Int
    <3>1. PICK y \in Int : y = CeilDiv(x - s, DayL)
      BY <1>0 DEF CeilDiv
    <3> QED BY <1>1, <1>3, <2>1, <3>1 DEF calculateNightLegCount, Larger
  <2>3. legs = [i \in 1..n |-> LegOf(s + DayL * (i - 1), AtUTC(s + DayL * (i - 1), 23 * HourL),
                                     AtUTC(s + DayL * (i - 1), DayL + 5 * HourL))]
    BY <1>1, <1>4, <1>6, <2>1 DEF generateLegs, generateNightLegs
  <2>4. ASSUME NEW i \in 1..n PROVE legs[i].start < legs[i].end
    <3>1. PICK night \in Int : night = s + DayL * (i - 1)
      BY <1>0, <2>2
    <3>2. PICK day \in Int : day = UTCDay(night)
      BY <1>0 DEF UTCDay
    <3>3. legs[i] = LegOf(night, AtUTC(night, 23 * HourL), AtUTC(night, DayL + 5 * HourL))
      BY <2>3, <3>1
    <3>4. AtUTC(night, 23 * HourL) = 1440 * day + 1380 /\ AtUTC(night, DayL + 5 * HourL) = 1440 * day + 1740
      BY <1>0, <3>2 DEF AtUTC
    <3> QED BY <3>3, <3>4, LegIs
  <2> QED BY <1>4, <2>3, <2>4 DEF Forward
<1>7. CASE r.type = "FULL_DAY"
  <2>1. PICK base \in Int : base = AtUTC(w.start, p)
    BY <1>0, <1>1 DEF AtUTC, UTCDay
  <2>2. PICK n : n = calculateFullDayLegCount(w, base)
    OBVIOUS
  <2>3. n \in Int
    <3>1. PICK y \in Int : y = CeilDiv(x - base, DayL)
      BY <1>0 DEF CeilDiv
    <3> QED BY <1>3, <2>2, <3>1 DEF calculateFullDayLegCount, Larger
  <2>4. legs = [i \in 1..n |-> LegOf(base + DayL * (i - 1), base + DayL * (i - 1), base + DayL * i)]
    BY <1>2, <1>4, <1>7, <2>1, <2>2 DEF generateLegs, generateFullDayLegs
  <2>5. ASSUME NEW i \in 1..n PROVE legs[i].start < legs[i].end
    <3>1. PICK from \in Int, to \in Int : from = base + 1440 * (i - 1) /\ to = base + 1440 * i
      BY <2>3
    <3>2. legs[i] = LegOf(from, from, to)
      BY <1>0, <2>4, <3>1
    <3> QED BY <3>1, <3>2, LegIs
  <2> QED BY <1>4, <2>4, <2>5 DEF Forward
<1>8. CASE r.type = "AIRPORT_PICKUP"
  <2>1. PICK land \in Nat, drive \in Nat : land = r.arrival /\ drive = r.drive
    BY RequestIs
  <2>2. PICK from \in Int : from = (IF land = 0 THEN s ELSE land) + 40
    OBVIOUS
  <2>3. PICK long \in Nat : long = ((IF drive = 0 THEN 120 ELSE drive) * 12) \div 10 /\ long > 0
    <3>1. PICK y \in Nat : y = (IF drive = 0 THEN 120 ELSE drive) /\ y > 0
      OBVIOUS
    <3>2. (y * 12) \div 10 \in Nat /\ (y * 12) \div 10 > 0
      BY <3>1
    <3> QED BY <3>1, <3>2
  <2>4. legs = <<LegOf(w.start, from, from + long)>>
    BY <1>1, <1>4, <1>8, <2>1, <2>2, <2>3 DEF generateLegs, generateAirportPickupLegs
  <2>5. DOMAIN legs = {1} /\ legs[1] = LegOf(w.start, from, from + long)
    BY <2>4
  <2>6. legs[1].start = from /\ legs[1].end = from + long
    BY <2>5, LegIs
  <2>7. legs[1].start < legs[1].end
    BY <2>2, <2>3, <2>6
  <2> QED BY <1>4, <2>5, <2>7 DEF Forward
<1> QED BY <1>5, <1>6, <1>7, <1>8, RequestIs

(* BookingLegService and BookingValidationService.validateDates: a request  *)
(* that is accepted is cut into the legs LegsRight describes.               *)
LEMMA AcceptedIsWellCut ==
  ASSUME NEW r \in LRequests, NEW w, w = normalizeBookingTimeWindow(r), validateDates(r, w)
  PROVE  WellCut(r, w, generateLegs(r, w))
BY RequestIs, DayLegs, NightLegs, FullDayLegs, AirportLegs

(* What is known of an answer.                                              *)
Answered ==
    /\ lreq \in LRequests
    /\ Forward(lans.legs)
    /\ lans.accepted => WellCut(lreq, lans.window, lans.legs)

(* The legs of every accepted booking are the days or nights asked for, one *)
(* after the other, ahead of the customer, as many as calculateLegCount and *)
(* the agent's estimate say (BookingLegService.generateLegs), whatever the  *)
(* request and in both zones.                                               *)
THEOREM LegsStayRight == LSpec => []LegsRight
<1>1. LInit => Answered
  <2> SUFFICES ASSUME LInit PROVE Answered
    OBVIOUS
  <2>1. lans.legs = <<>> /\ lans.accepted = FALSE /\ lreq \in LRequests
    BY DEF LInit, Unanswered
  <2>2. DOMAIN lans.legs = {}
    BY <2>1
  <2> QED BY <2>1, <2>2 DEF Answered, Forward
<1>2. Answered /\ [LNext]_lvars => Answered'
  <2> SUFFICES ASSUME Answered, [LNext]_lvars PROVE Answered'
    OBVIOUS
  <2>1. CASE UNCHANGED lvars
    BY <2>1 DEF Answered, lvars
  <2>2. CASE createLegs
    <3>1. PICK r \in LRequests : r = lreq /\ r = lreq'
      BY <2>2 DEF createLegs, Answered
    <3>2. PICK w : w = normalizeBookingTimeWindow(r)
      OBVIOUS
    <3>3. lans' = [accepted |-> validateDates(r, w), window |-> w, legs |-> generateLegs(r, w)]
      BY <2>2, <3>1, <3>2 DEF createLegs
    <3>4. lans'.accepted = validateDates(r, w) /\ lans'.window = w /\ lans'.legs = generateLegs(r, w)
      BY <3>3
    <3>5. Forward(generateLegs(r, w))
      BY <3>2, EveryLegForward
    <3>6. validateDates(r, w) => WellCut(r, w, generateLegs(r, w))
      BY <3>2, AcceptedIsWellCut
    <3> QED BY <3>1, <3>4, <3>5, <3>6 DEF Answered
  <2> QED BY <2>1, <2>2 DEF LNext
<1>3. Answered => LegsRight
  <2> SUFFICES ASSUME Answered PROVE LegsRight
    OBVIOUS
  <2>1. lreq \in LRequests /\ lreq.zone \in {0, 60}
    BY RequestIs DEF Answered
  <2>2. LTypeOK
    BY DEF Answered, Forward, WellCut, LTypeOK
  <2>3. PaysTheDaysAsked
    BY DEF Answered, WellCut, PaysTheDaysAsked
  <2>4. LegsSpanWindow
    BY DEF Answered, WellCut, LegsSpanWindow
  <2>5. EstimateCountsLegs
    BY DEF Answered, WellCut, EstimateCountsLegs
  <2>6. AcceptedIsAhead
    BY DEF Answered, WellCut, AcceptedIsAhead
  <2> QED BY <2>2, <2>3, <2>4, <2>5, <2>6 DEF LegsRight
<1> QED BY <1>1, <1>2, <1>3, PTL DEF LSpec

-----------------------------------------------------------------------------
(* BookingPrice: sums of amounts and the largest of them.                   *)

(* A number on each element of a finite set is largest somewhere.           *)
LEMMA ArgMax ==
    ASSUME NEW S, IsFiniteSet(S), S # {}, NEW f \in [S -> Int]
    PROVE  \E x \in S : \A y \in S : f[y] <= f[x]
  <1> DEFINE Top(s) == \E x \in s : \A y \in s : f[y] <= f[x]
             T == {n \in Nat : \A s \in SUBSET S : s # {} /\ Cardinality(s) <= n => Top(s)}
  <1>1. \A s \in SUBSET S : IsFiniteSet(s) /\ Cardinality(s) \in Nat
    BY FS_Subset, FS_CardinalityType
  <1>2. 0 \in T
    <2>1. \A s \in SUBSET S : Cardinality(s) <= 0 => s = {}
      BY <1>1, FS_EmptySet
    <2> QED BY <2>1
  <1>3. ASSUME NEW n \in T PROVE n + 1 \in T
    <2>1. ASSUME NEW s \in SUBSET S, Cardinality(s) <= n + 1, s # {} PROVE Top(s)
      <3> DEFINE x == Pick(s)
                 t == s \ {x}
      <3>1. x \in s
        BY <2>1, PickIn
      <3>2. t \in SUBSET S /\ Cardinality(t) <= n
        BY <1>1, <2>1, <3>1, FS_RemoveElement
      <3> HIDE DEF x
      <3>3. CASE t = {}
        <4>1. \A y \in s : f[y] <= f[x]
          BY <3>1, <3>3
        <4> QED BY <3>1, <4>1
      <3>4. CASE t # {}
        <4>1. PICK z \in t : \A y \in t : f[y] <= f[z]
          BY <3>2, <3>4
        <4>2. CASE f[x] <= f[z]
          <5>1. z \in s /\ \A y \in s : f[y] <= f[z]
            BY <4>1, <4>2
          <5> QED BY <5>1
        <4>3. CASE ~ (f[x] <= f[z])
          <5>1. \A y \in s : f[y] <= f[x]
            BY <3>1, <4>1, <4>3
          <5> QED BY <3>1, <5>1
        <4> QED BY <4>2, <4>3
      <3> QED BY <3>3, <3>4
    <2>2. n + 1 \in Nat
      OBVIOUS
    <2> HIDE DEF Top
    <2> QED BY <2>1, <2>2
  <1>4. T = Nat
    <2> HIDE DEF T
    <2>1. T \subseteq Nat
      BY DEF T
    <2> QED BY <1>2, <1>3, <2>1, NatInd
  <1> QED BY <1>1, <1>4

(* g falls by the term of whichever element is taken off.                   *)
Takes(g, w, S) == \A s \in SUBSET S : \A x \in s : g[s] = w[x] + g[s \ {x}]

(* Of a sum, any element may be taken off first.                            *)
LEMMA SumRemove ==
    ASSUME NEW S, IsFiniteSet(S), NEW w \in [S -> Nat],
           NEW g \in [SUBSET S -> Nat], SumEq(g, w, SUBSET S)
    PROVE  Takes(g, w, S)
  <1> DEFINE Any(s) == \A x \in s : g[s] = w[x] + g[s \ {x}]
             T == {n \in Nat : \A s \in SUBSET S : Cardinality(s) <= n => Any(s)}
  <1>1. \A s \in SUBSET S : IsFiniteSet(s) /\ Cardinality(s) \in Nat
    BY FS_Subset, FS_CardinalityType
  <1>2. 0 \in T
    <2>1. \A s \in SUBSET S : Cardinality(s) <= 0 => s = {}
      BY <1>1, FS_EmptySet
    <2> QED BY <2>1
  <1>3. ASSUME NEW n \in T PROVE n + 1 \in T
    <2>1. ASSUME NEW s \in SUBSET S, Cardinality(s) <= n + 1, NEW x \in s
          PROVE  g[s] = w[x] + g[s \ {x}]
      <3>1. PICK y : y = Pick(s)
        OBVIOUS
      <3>2. y \in s
        BY <3>1, PickIn
      <3>3. g[s] = w[y] + g[s \ {y}]
        BY <3>1 DEF SumEq
      <3>4. CASE x = y
        BY <3>3, <3>4
      <3>5. CASE x # y
        <4>0. ASSUME NEW z \in s PROVE s \ {z} \in SUBSET S /\ Cardinality(s \ {z}) <= n
          <5>1. Cardinality(s \ {z}) = Cardinality(s) - 1
            BY <1>1, FS_RemoveElement
          <5> QED BY <1>1, <2>1, <5>1
        <4>1. /\ s \ {x} \in SUBSET S /\ Cardinality(s \ {x}) <= n /\ y \in s \ {x}
              /\ s \ {y} \in SUBSET S /\ Cardinality(s \ {y}) <= n /\ x \in s \ {y}
          BY <3>2, <3>5, <4>0
        <4>2. Any(s \ {x}) /\ Any(s \ {y})
          BY <4>1
        <4>3. /\ g[s \ {x}] = w[y] + g[(s \ {x}) \ {y}]
              /\ g[s \ {y}] = w[x] + g[(s \ {y}) \ {x}]
          BY <4>1, <4>2
        <4>4. PICK t \in SUBSET S : t = (s \ {x}) \ {y} /\ t = (s \ {y}) \ {x}
          OBVIOUS
        <4>5. w[x] \in Nat /\ w[y] \in Nat /\ g[t] \in Nat
          BY <3>2
        <4>6. g[s \ {x}] = w[y] + g[t] /\ g[s \ {y}] = w[x] + g[t]
          BY <4>3, <4>4
        <4>7. PICK a \in Nat, b \in Nat, c \in Nat : a = w[x] /\ b = w[y] /\ c = g[t]
          BY <4>5
        <4>8. g[s] = b + (a + c) /\ g[s \ {x}] = b + c
          BY <3>3, <4>6, <4>7
        <4>9. b + (a + c) = a + (b + c)
          BY <4>7
        <4> QED BY <4>7, <4>8, <4>9
      <3> QED BY <3>4, <3>5
    <2>2. n + 1 \in Nat
      OBVIOUS
    <2>3. \A s \in SUBSET S : Cardinality(s) <= n + 1 => Any(s)
      BY <2>1
    <2> HIDE DEF Any
    <2> QED BY <2>2, <2>3
  <1>4. T = Nat
    <2> HIDE DEF T
    <2>1. T \subseteq Nat
      BY DEF T
    <2> QED BY <1>2, <1>3, <2>1, NatInd
  <1>5. \A s \in SUBSET S : Any(s)
    <2> HIDE DEF Any
    <2>1. \A s \in SUBSET S : Cardinality(s) \in T
      BY <1>1, <1>4
    <2> QED BY <1>1, <2>1
  <1> QED BY <1>5 DEF Takes

(* SumOf is such a sum.                                                     *)
LEMMA SumIs ==
    ASSUME NEW S, IsFiniteSet(S), NEW w \in [S -> Nat]
    PROVE  \E g \in [SUBSET S -> Nat] : SumEq(g, w, SUBSET S) /\ SumOf(w) = g[S]
  <1> DEFINE IsFold(it) == it = [s \in SUBSET S |->
                              IF s = {} THEN 0
                              ELSE LET x == CHOOSE x \in s : TRUE IN w[x] + it[s \ {x}]]
             fold == CHOOSE it : IsFold(it)
  <1>1. SumOf(w) = fold[S]
    <2>1. DOMAIN w = S
      OBVIOUS
    <2> QED BY <2>1 DEF SumOf, MapThenSumSet, MapThenFoldSet
  <1>3. \A s \in SUBSET S : s # {} => Pick(s) \in s
    BY PickIn
  <1>4. PICK g \in [SUBSET S -> Nat] : SumEq(g, w, SUBSET S)
    BY SumExists
  <1>5. g = [s \in SUBSET S |-> g[s]]
    BY <1>4
  <1>6. IsFold(g)
    <2>1. \A s \in SUBSET S :
            g[s] = IF s = {} THEN 0 ELSE LET x == CHOOSE x \in s : TRUE IN w[x] + g[s \ {x}]
      BY <1>3, <1>4 DEF SumEq, Pick
    <2> QED BY <1>5, <2>1
  <1>7. IsFold(fold)
    <2> HIDE DEF IsFold
    <2> QED BY <1>6
  <1> HIDE DEF fold
  <1>8. fold = [s \in SUBSET S |-> IF s = {} THEN 0 ELSE w[Pick(s)] + fold[s \ {Pick(s)}]]
    BY <1>3, <1>7 DEF Pick
  <1> HIDE DEF IsFold
  <1>9. SumEq(fold, w, SUBSET S)
    BY <1>8 DEF SumEq
  <1>10. fold[S] = g[S]
    BY <1>4, <1>9, SumUnique
  <1> QED BY <1>1, <1>4, <1>10

(* A sum is a number, and no term of it is more.                            *)
LEMMA SumOfNat ==
    ASSUME NEW S, IsFiniteSet(S), NEW w \in [S -> Nat]
    PROVE  /\ SumOf(w) \in Nat
           /\ \A x \in S : w[x] <= SumOf(w)
           /\ S = {} => SumOf(w) = 0
  <1>1. PICK g \in [SUBSET S -> Nat] : SumEq(g, w, SUBSET S) /\ SumOf(w) = g[S]
    BY SumIs
  <1>2. ASSUME NEW x \in S PROVE w[x] <= SumOf(w)
    <2>1. g[S] = w[x] + g[S \ {x}]
      BY <1>1, SumRemove DEF Takes
    <2>2. g[S \ {x}] \in Nat /\ w[x] \in Nat
      OBVIOUS
    <2> QED BY <1>1, <2>1, <2>2
  <1>3. S = {} => g[S] = 0
    BY <1>1 DEF SumEq
  <1> QED BY <1>1, <1>2, <1>3

(* Larger terms make a larger sum.                                          *)
LEMMA SumMono ==
    ASSUME NEW S, IsFiniteSet(S), NEW w \in [S -> Nat], NEW v \in [S -> Nat],
           \A x \in S : w[x] <= v[x]
    PROVE  SumOf(w) <= SumOf(v)
  <1>1. PICK g \in [SUBSET S -> Nat] : SumEq(g, w, SUBSET S) /\ SumOf(w) = g[S]
    BY SumIs
  <1>2. PICK h \in [SUBSET S -> Nat] : SumEq(h, v, SUBSET S) /\ SumOf(v) = h[S]
    BY SumIs
  <1> DEFINE T == {n \in Nat : \A s \in SUBSET S : Cardinality(s) <= n => g[s] <= h[s]}
  <1>3. \A s \in SUBSET S : IsFiniteSet(s) /\ Cardinality(s) \in Nat
    BY FS_Subset, FS_CardinalityType
  <1>4. g[{}] = 0 /\ h[{}] = 0
    BY <1>1, <1>2 DEF SumEq
  <1>5. 0 \in T
    <2>1. \A s \in SUBSET S : Cardinality(s) <= 0 => s = {}
      BY <1>3, FS_EmptySet
    <2>2. g[{}] <= h[{}]
      BY <1>4
    <2> QED BY <2>1, <2>2
  <1>6. ASSUME NEW n \in T PROVE n + 1 \in T
    <2>1. ASSUME NEW s \in SUBSET S, Cardinality(s) <= n + 1, s # {} PROVE g[s] <= h[s]
      <3>1. PICK x : x = Pick(s)
        OBVIOUS
      <3>2. x \in s
        BY <2>1, <3>1, PickIn
      <3>3. PICK t \in SUBSET S : t = s \ {x}
        OBVIOUS
      <3>4. Cardinality(t) <= n
        <4>1. Cardinality(t) = Cardinality(s) - 1
          BY <1>3, <3>2, <3>3, FS_RemoveElement
        <4> QED BY <1>3, <2>1, <4>1
      <3>5. g[s] = w[x] + g[t] /\ h[s] = v[x] + h[t]
        BY <1>1, <1>2, <2>1, <3>1, <3>3 DEF SumEq
      <3>6. /\ g[t] \in Nat /\ h[t] \in Nat /\ w[x] \in Nat /\ v[x] \in Nat
            /\ g[t] <= h[t] /\ w[x] <= v[x]
        BY <3>2, <3>4
      <3> QED BY <3>5, <3>6
    <2>2. \A s \in SUBSET S : Cardinality(s) <= n + 1 => g[s] <= h[s]
      <3>1. g[{}] <= h[{}]
        BY <1>4
      <3> QED BY <2>1, <3>1
    <2>3. n + 1 \in Nat
      OBVIOUS
    <2> QED BY <2>2, <2>3
  <1>7. T = Nat
    <2> HIDE DEF T
    <2>1. T \subseteq Nat
      BY DEF T
    <2> QED BY <1>5, <1>6, <2>1, NatInd
  <1>8. Cardinality(S) \in T
    BY <1>3, <1>7
  <1> QED BY <1>1, <1>2, <1>3, <1>8

(* A sum of equal terms.                                                    *)
LEMMA SumConst ==
    ASSUME NEW S, IsFiniteSet(S), NEW c \in Nat, NEW w \in [S -> Nat], \A x \in S : w[x] = c
    PROVE  SumOf(w) = Cardinality(S) * c
  <1>1. PICK g \in [SUBSET S -> Nat] : SumEq(g, w, SUBSET S) /\ SumOf(w) = g[S]
    BY SumIs
  <1> DEFINE T == {n \in Nat : \A s \in SUBSET S : Cardinality(s) = n => g[s] = n * c}
  <1>3. \A s \in SUBSET S : IsFiniteSet(s) /\ Cardinality(s) \in Nat
    BY FS_Subset, FS_CardinalityType
  <1>5. 0 \in T
    <2>1. \A s \in SUBSET S : Cardinality(s) = 0 => s = {}
      BY <1>3, FS_EmptySet
    <2>2. g[{}] = 0
      BY <1>1 DEF SumEq
    <2>3. 0 * c = 0
      OBVIOUS
    <2> QED BY <2>1, <2>2, <2>3
  <1>6. ASSUME NEW n \in T PROVE n + 1 \in T
    <2>1. ASSUME NEW s \in SUBSET S, Cardinality(s) = n + 1 PROVE g[s] = (n + 1) * c
      <3>0. s # {}
        <4>1. Cardinality(s) # 0
          BY <2>1
        <4> QED BY <4>1, FS_EmptySet
      <3>1. PICK x : x = Pick(s)
        OBVIOUS
      <3>2. x \in s
        BY <3>0, <3>1, PickIn
      <3>3. PICK t \in SUBSET S : t = s \ {x}
        OBVIOUS
      <3>4. Cardinality(t) = n
        <4>1. Cardinality(t) = Cardinality(s) - 1
          BY <1>3, <3>2, <3>3, FS_RemoveElement
        <4> QED BY <2>1, <4>1
      <3>5. g[s] = c + g[t]
        BY <1>1, <3>0, <3>1, <3>2, <3>3 DEF SumEq
      <3>6. g[t] = n * c
        BY <3>4
      <3>7. c + n * c = (n + 1) * c
        OBVIOUS
      <3> QED BY <3>5, <3>6, <3>7
    <2>3. n + 1 \in Nat
      OBVIOUS
    <2> QED BY <2>1, <2>3
  <1>7. T = Nat
    <2> HIDE DEF T
    <2>1. T \subseteq Nat
      BY DEF T
    <2> QED BY <1>5, <1>6, <2>1, NatInd
  <1>8. Cardinality(S) \in T
    BY <1>3, <1>7
  <1> QED BY <1>1, <1>3, <1>8

(* A sum over a part is what the sum over the whole has for it.             *)
LEMMA SumPart ==
    ASSUME NEW S, IsFiniteSet(S), NEW w \in [S -> Nat],
           NEW g \in [SUBSET S -> Nat], SumEq(g, w, SUBSET S),
           NEW s \in SUBSET S, NEW v \in [s -> Nat], \A x \in s : v[x] = w[x]
    PROVE  SumOf(v) = g[s]
  <1>1. IsFiniteSet(s)
    BY FS_Subset
  <1>2. PICK h \in [SUBSET s -> Nat] : SumEq(h, v, SUBSET s) /\ SumOf(v) = h[s]
    BY <1>1, SumIs
  <1>3. SumEq(g, v, SUBSET s)
    <2>1. ASSUME NEW t \in SUBSET s
          PROVE  g[t] = IF t = {} THEN 0 ELSE v[Pick(t)] + g[t \ {Pick(t)}]
      <3>1. g[t] = IF t = {} THEN 0 ELSE w[Pick(t)] + g[t \ {Pick(t)}]
        BY DEF SumEq
      <3>2. t # {} => Pick(t) \in s
        BY PickIn
      <3> QED BY <3>1, <3>2
    <2> QED BY <2>1 DEF SumEq
  <1> QED BY <1>1, <1>2, <1>3, SumUnique

(* A sum follows the one term that changes.                                 *)
LEMMA SumChange ==
    ASSUME NEW K, IsFiniteSet(K), NEW p \in [K -> Nat], NEW q \in [K -> Nat],
           NEW b \in K, NEW c \in Nat, SameBut(p, q, b, K), q[b] = c + p[b]
    PROVE  SumOf(q) = SumOf(p) + c
  <1>1. PICK gp \in [SUBSET K -> Nat] : SumEq(gp, p, SUBSET K) /\ SumOf(p) = gp[K]
    BY SumIs
  <1>2. PICK gq \in [SUBSET K -> Nat] : SumEq(gq, q, SUBSET K) /\ SumOf(q) = gq[K]
    BY SumIs
  <1>3. gq[K] = gp[K] + IF b \in K THEN q[b] - p[b] ELSE 0
    BY <1>1, <1>2, SumDelta, SMTT(60)
  <1>4. gp[K] \in Nat /\ gq[K] \in Nat /\ q[b] \in Nat /\ p[b] \in Nat
    OBVIOUS
  <1> QED BY <1>1, <1>2, <1>3, <1>4

(* v gives the sums of the terms w of S that have the same key.             *)
Groups(v, w, key, S, K) ==
    \A k \in K : v[k] = SumOf([i \in {j \in S : key[j] = k} |-> w[i]])

(* Grouping the terms does not change a sum.                                *)
LEMMA SumParts ==
    ASSUME NEW S, IsFiniteSet(S), NEW w \in [S -> Nat], NEW K, IsFiniteSet(K),
           NEW key \in [S -> K], NEW v \in [K -> Nat], Groups(v, w, key, S, K)
    PROVE  SumOf(v) = SumOf(w)
  <1>1. PICK g \in [SUBSET S -> Nat] : SumEq(g, w, SUBSET S) /\ SumOf(w) = g[S]
    BY SumIs
  <1>0. \A s \in SUBSET S : \A x \in s : g[s] = w[x] + g[s \ {x}]
    <2>1. /\ IsFiniteSet(S) /\ w \in [S -> Nat] /\ g \in [SUBSET S -> Nat]
          /\ SumEq(g, w, SUBSET S)
      BY <1>1
    <2>2. Takes(g, w, S)
      BY <2>1, SumRemove, SMTT(60)
    <2> QED BY <2>2 DEF Takes
  <1> DEFINE Part(k) == {j \in S : key[j] = k}
             V(s) == [k \in K |-> g[s \cap Part(k)]]
             T == {n \in Nat : \A s \in SUBSET S : Cardinality(s) <= n => SumOf(V(s)) = g[s]}
  <1>2. \A s \in SUBSET S : IsFiniteSet(s) /\ Cardinality(s) \in Nat
    BY FS_Subset, FS_CardinalityType
  <1>3. \A s \in SUBSET S : V(s) \in [K -> Nat]
    OBVIOUS
  <1>4. SumOf(V({})) = g[{}]
    <2>1. g[{}] = 0
      BY <1>1 DEF SumEq
    <2>2. \A k \in K : V({})[k] = 0
      BY <2>1
    <2>3. SumOf(V({})) = Cardinality(K) * 0
      <3>1. PICK u \in [K -> Nat] : u = V({})
        BY <1>3
      <3> HIDE DEF V
      <3>2. \A k \in K : u[k] = 0
        BY <2>2, <3>1
      <3>3. SumOf(u) = Cardinality(K) * 0
        BY <3>2, SumConst
      <3> QED BY <3>1, <3>3
    <2>4. Cardinality(K) * 0 = 0
      BY FS_CardinalityType
    <2> QED BY <2>1, <2>3, <2>4
  <1>5. 0 \in T
    <2>1. \A s \in SUBSET S : Cardinality(s) <= 0 => s = {}
      BY <1>2, FS_EmptySet
    <2> HIDE DEF V
    <2> QED BY <1>4, <2>1
  <1>6. ASSUME NEW n \in T PROVE n + 1 \in T
    <2>1. ASSUME NEW s \in SUBSET S, Cardinality(s) <= n + 1, s # {} PROVE SumOf(V(s)) = g[s]
      <3>1. PICK x : x = Pick(s)
        OBVIOUS
      <3>2. x \in s
        BY <2>1, <3>1, PickIn
      <3>3. PICK t \in SUBSET S : t = s \ {x}
        OBVIOUS
      <3>4. Cardinality(t) <= n
        <4>1. Cardinality(t) = Cardinality(s) - 1
          BY <1>2, <3>2, <3>3, FS_RemoveElement
        <4> QED BY <1>2, <2>1, <4>1
      <3>5. g[s] = w[x] + g[t]
        BY <1>1, <2>1, <3>1, <3>3 DEF SumEq
      <3>6. PICK b \in K : b = key[x]
        BY <3>2
      <3>7. g[s \cap Part(b)] = w[x] + g[t \cap Part(b)]
        <4>1. PICK sb \in SUBSET S : sb = s \cap Part(b)
          OBVIOUS
        <4>2. x \in sb /\ sb \ {x} = t \cap Part(b)
          BY <3>2, <3>3, <3>6, <4>1
        <4>3. g[sb] = w[x] + g[sb \ {x}]
          BY <1>0, <4>2
        <4> QED BY <4>1, <4>2, <4>3
      <3>8. \A k \in K \ {b} : s \cap Part(k) = t \cap Part(k)
        BY <3>3, <3>6
      <3>9. PICK p \in [K -> Nat], q \in [K -> Nat] : p = V(t) /\ q = V(s)
        BY <1>3
      <3>10. SameBut(p, q, b, K) /\ q[b] = w[x] + p[b]
        BY <3>7, <3>8, <3>9 DEF SameBut
      <3>11. SumOf(p) = g[t]
        BY <3>4, <3>9
      <3> HIDE DEF V, Part
      <3>12. w[x] \in Nat
        BY <3>2
      <3>13. SumOf(q) = SumOf(p) + w[x]
        BY <3>10, <3>12, SumChange
      <3>14. g[t] \in Nat
        OBVIOUS
      <3> QED BY <3>5, <3>9, <3>11, <3>12, <3>13, <3>14
    <2> HIDE DEF V
    <2>2. \A s \in SUBSET S : Cardinality(s) <= n + 1 => SumOf(V(s)) = g[s]
      BY <1>4, <2>1
    <2>3. n + 1 \in Nat
      OBVIOUS
    <2> QED BY <2>2, <2>3
  <1>7. T = Nat
    <2> HIDE DEF T
    <2>1. T \subseteq Nat
      BY DEF T
    <2> QED BY <1>5, <1>6, <2>1, NatInd
  <1>8. SumOf(V(S)) = g[S]
    <2> HIDE DEF V
    <2>1. Cardinality(S) \in T
      BY <1>2, <1>7
    <2> QED BY <1>2, <2>1
  <1>9. V(S) = v
    <2>1. ASSUME NEW k \in K PROVE v[k] = g[S \cap Part(k)]
      <3>1. PICK s \in SUBSET S : s = Part(k) /\ s = S \cap Part(k)
        OBVIOUS
      <3>2. PICK u : u = [i \in s |-> w[i]]
        OBVIOUS
      <3>3. u \in [s -> Nat] /\ \A i \in s : u[i] = w[i]
        BY <3>2
      <3>4. v[k] = SumOf(u)
        BY <3>1, <3>2 DEF Groups
      <3>5. SumOf(u) = g[s]
        <4>1. /\ IsFiniteSet(S) /\ w \in [S -> Nat] /\ g \in [SUBSET S -> Nat]
              /\ SumEq(g, w, SUBSET S) /\ s \in SUBSET S /\ u \in [s -> Nat]
              /\ \A i \in s : u[i] = w[i]
          BY <1>1, <3>3
        <4> QED BY <4>1, SumPart, SMTT(60)
      <3> QED BY <3>1, <3>4, <3>5
    <2> QED BY <2>1
  <1> QED BY <1>1, <1>8, <1>9

-----------------------------------------------------------------------------
(* BookingPrice: percentages and the best promotion.                        *)

(* A percentage of an amount is an amount, and grows with it.               *)
LEMMA PercentGrows ==
    ASSUME NEW x \in Nat, NEW y \in Nat, NEW p \in Nat, x <= y
    PROVE  Percent(x, p) \in Nat /\ Percent(y, p) \in Nat /\ Percent(x, p) <= Percent(y, p)
  <1>1. PICK d \in Nat : y = x + d
    <2>1. y - x \in Nat /\ y = x + (y - x)
      OBVIOUS
    <2> QED BY <2>1
  <1>2. y * p = x * p + d * p
    BY <1>1
  <1>3. x * p \in Nat /\ d * p \in Nat
    OBVIOUS
  <1>4. PICK a \in Nat, b \in Nat : a = x * p /\ b = d * p
    BY <1>3
  <1>5. y * p = a + b
    BY <1>2, <1>4
  <1>6. a \div 100 \in Nat /\ (a + b) \div 100 \in Nat /\ a \div 100 <= (a + b) \div 100
    OBVIOUS
  <1> QED BY <1>4, <1>5, <1>6 DEF Percent

(* Rates are whole hundreds: percentages of one compare as the percents do. *)
LEMMA PercentCompares ==
    ASSUME NEW r \in Nat, r > 0, r % 100 = 0, NEW a \in Nat, NEW b \in Nat
    PROVE  /\ Percent(r, a) > Percent(r, b) <=> a > b
           /\ Percent(r, a) = Percent(r, b) <=> a = b
  <1>1. PICK k \in Nat : r = 100 * k /\ k >= 1
    <2>1. r \div 100 \in Nat /\ r = 100 * (r \div 100) /\ r \div 100 >= 1
      OBVIOUS
    <2> QED BY <2>1
  <1>2. ASSUME NEW c \in Nat PROVE Percent(r, c) = k * c /\ k * c \in Nat
    <2>1. r * c = 100 * (k * c)
      BY <1>1
    <2>2. PICK m \in Nat : m = k * c
      OBVIOUS
    <2>3. (100 * m) \div 100 = m
      OBVIOUS
    <2> QED BY <2>1, <2>2, <2>3 DEF Percent
  <1>3. ASSUME NEW c \in Nat, NEW d \in Nat, c > d PROVE k * c > k * d
    <2>1. PICK e \in Nat : c = d + e /\ e >= 1
      <3>1. c - d \in Nat /\ c = d + (c - d) /\ c - d >= 1
        BY <1>3
      <3> QED BY <3>1
    <2>2. k * c = k * d + k * e
      BY <2>1
    <2>3. PICK f \in Nat, h \in Nat : k = f + 1 /\ e = h + 1
      <3>1. k - 1 \in Nat /\ k = (k - 1) + 1 /\ e - 1 \in Nat /\ e = (e - 1) + 1
        BY <1>1, <2>1
      <3> QED BY <3>1
    <2>4. k * e = f * h + f + h + 1 /\ f * h \in Nat
      BY <2>3
    <2>5. PICK m \in Nat, n \in Nat : m = k * d /\ n = f * h
      BY <2>4
    <2> QED BY <2>2, <2>4, <2>5
  <1>4. /\ a > b => k * a > k * b
        /\ b > a => k * b > k * a
        /\ a = b => k * a = k * b
        /\ a > b \/ b > a \/ a = b
    BY <1>3
  <1>5. PICK m \in Nat, n \in Nat : m = k * a /\ n = k * b /\ m = Percent(r, a) /\ n = Percent(r, b)
    BY <1>2
  <1>6. /\ a > b => m > n
        /\ b > a => n > m
        /\ a = b => m = n
    BY <1>4, <1>5
  <1>7. (m > n <=> a > b) /\ (m = n <=> a = b)
    BY <1>4, <1>6
  <1> QED BY <1>5, <1>7

(* The promotions one request may choose from.                              *)
PromoChoices(cands) ==
    /\ IsFiniteSet(cands)
    /\ \A p \in cands : p.id \in Nat \ {0} /\ p.percent \in Nat
    /\ \A p, o \in cands : p.id = o.id => p = o

(* The larger percent, the later of equals.                                 *)
Better(p, o) == o.percent < p.percent \/ (o.percent = p.percent /\ o.id < p.id)

(* Which is a comparison of numbers.                                        *)
LEMMA BetterIs ==
    ASSUME NEW p, NEW o, NEW a \in Nat, NEW b \in Nat, NEW i \in Nat, NEW j \in Nat,
           a = p.percent, b = o.percent, i = p.id, j = o.id
    PROVE  Better(p, o) <=> b < a \/ (b = a /\ j < i)
  BY DEF Better

(* So is the code's, of the discounts it works out.                         *)
LEMMA BeatsIs ==
    ASSUME NEW p, NEW o, NEW r, NEW m \in Nat, NEW n \in Nat, NEW i \in Nat, NEW j \in Nat,
           computeDiscountAmount(p, r) = m, computeDiscountAmount(o, r) = n, i = p.id, j = o.id
    PROVE  Beats(p, o, r) <=> n < m \/ (n = m /\ j < i)
  BY DEF Beats

(* p is the best of cands.                                                  *)
BestOf(p, cands) == p \in cands /\ \A o \in cands \ {p} : Better(p, o)

(* One of the choices is the best.                                          *)
LEMMA BestExists ==
    ASSUME NEW cands, PromoChoices(cands), cands # {}
    PROVE  \E p \in cands : BestOf(p, cands)
  <1> DEFINE f == [p \in cands |-> p.percent]
  <1>1. IsFiniteSet(cands) /\ f \in [cands -> Int]
    BY DEF PromoChoices
  <1>2. PICK x \in cands : \A y \in cands : f[y] <= f[x]
    <2> HIDE DEF f
    <2> QED BY <1>1, ArgMax
  <1>3. PICK tops : tops = {p \in cands : p.percent = x.percent}
    OBVIOUS
  <1>4. PICK h : h = [p \in tops |-> p.id]
    OBVIOUS
  <1>5. IsFiniteSet(tops) /\ tops # {} /\ h \in [tops -> Int]
    <2>1. tops \subseteq cands /\ x \in tops
      BY <1>3
    <2>2. IsFiniteSet(tops)
      BY <1>1, <2>1, FS_Subset
    <2> QED BY <1>4, <2>1, <2>2 DEF PromoChoices
  <1>6. PICK y \in tops : \A z \in tops : h[z] <= h[y]
    BY <1>5, ArgMax
  <1>7. y \in cands /\ y.percent = x.percent
    BY <1>3, <1>6
  <1>8. ASSUME NEW o \in cands \ {y}
        PROVE  Better(y, o)
    <2>0. PICK a \in Nat, b \in Nat, i \in Nat, j \in Nat :
             a = y.percent /\ b = o.percent /\ i = y.id /\ j = o.id
      BY <1>7 DEF PromoChoices
    <2>1. b <= a
      BY <1>2, <1>7, <2>0
    <2>5. Better(y, o) <=> b < a \/ (b = a /\ j < i)
      BY <2>0, BetterIs
    <2>2. CASE o.percent = y.percent
      <3>1. o \in tops
        BY <1>3, <1>7, <2>2
      <3>2. j <= i /\ j # i
        BY <1>4, <1>6, <1>7, <2>0, <3>1 DEF PromoChoices
      <3> QED BY <2>0, <2>2, <2>5, <3>2
    <2>3. CASE o.percent # y.percent
      <3>1. b < a
        BY <2>0, <2>1, <2>3
      <3> QED BY <2>5, <3>1
    <2> QED BY <2>2, <2>3
  <1> QED BY <1>7, <1>8 DEF BestOf

(* chooseBestPromotion takes it.                                            *)
LEMMA BestChosen ==
    ASSUME NEW cands, PromoChoices(cands), cands # {}, NEW r \in Nat, r > 0, r % 100 = 0
    PROVE  BestOf(chooseBestPromotion(cands, r), cands)
  <1>1. ASSUME NEW p \in cands, NEW o \in cands
        PROVE  Beats(p, o, r) <=> Better(p, o)
    <2>1. PICK a \in Nat, b \in Nat, i \in Nat, j \in Nat :
             a = p.percent /\ b = o.percent /\ i = p.id /\ j = o.id
      BY DEF PromoChoices
    <2>2. PICK m \in Nat, n \in Nat : m = Percent(r, a) /\ n = Percent(r, b)
      <3>1. r <= r
        OBVIOUS
      <3>2. Percent(r, a) \in Nat /\ Percent(r, b) \in Nat
        BY <3>1, PercentGrows
      <3> QED BY <3>2
    <2>3. (m > n <=> a > b) /\ (m = n <=> a = b)
      BY <2>2, PercentCompares
    <2>4. computeDiscountAmount(p, r) = m /\ computeDiscountAmount(o, r) = n
      BY <2>1, <2>2 DEF computeDiscountAmount
    <2>5. Beats(p, o, r) <=> n < m \/ (n = m /\ j < i)
      BY <2>1, <2>2, <2>4, BeatsIs
    <2>6. Better(p, o) <=> b < a \/ (b = a /\ j < i)
      BY <2>1, BetterIs
    <2>7. (n < m \/ (n = m /\ j < i)) <=> (b < a \/ (b = a /\ j < i))
      BY <2>3
    <2> QED BY <2>5, <2>6, <2>7
  <1> DEFINE Wins(p) == \A best \in cands \ {p} : Beats(p, best, r)
  <1>2. ASSUME NEW p \in cands PROVE Wins(p) <=> BestOf(p, cands)
    <2>1. \A o \in cands \ {p} : Beats(p, o, r) <=> Better(p, o)
      BY <1>1
    <2> QED BY <2>1 DEF BestOf
  <1>3. PICK p \in cands : Wins(p)
    BY <1>2, BestExists
  <1>4. PICK c : c = CHOOSE x \in cands : Wins(x)
    OBVIOUS
  <1>5. c = chooseBestPromotion(cands, r)
    BY <1>4 DEF chooseBestPromotion
  <1> HIDE DEF Wins
  <1>6. c \in cands /\ Wins(c)
    BY <1>3, <1>4
  <1> QED BY <1>2, <1>5, <1>6

-----------------------------------------------------------------------------
(* BookingPrice: the price of a leg.                                        *)

(* The smallest and the largest of a finite set of numbers.                 *)
LEMMA MinMax ==
    ASSUME NEW S, IsFiniteSet(S), S # {}, S \subseteq Int
    PROVE  /\ Min(S) \in S /\ \A y \in S : Min(S) <= y
           /\ Max(S) \in S /\ \A y \in S : y <= Max(S)
  <1>1. PICK f : f = [x \in S |-> x]
    OBVIOUS
  <1>2. PICK h : h = [x \in S |-> 0 - x]
    OBVIOUS
  <1>3. f \in [S -> Int] /\ h \in [S -> Int]
    BY <1>1, <1>2
  <1>4. PICK x \in S : \A y \in S : f[y] <= f[x]
    BY <1>3, ArgMax
  <1>5. PICK z \in S : \A y \in S : h[y] <= h[z]
    BY <1>3, ArgMax
  <1>6. \A y \in S : y <= x
    BY <1>1, <1>4
  <1>7. \A y \in S : z <= y
    <2>1. ASSUME NEW y \in S PROVE z <= y
      <3>1. 0 - y <= 0 - z
        BY <1>2, <1>5
      <3>2. y \in Int /\ z \in Int
        OBVIOUS
      <3> QED BY <3>1, <3>2
    <2> QED BY <2>1
  <1>8. PICK mx : mx = CHOOSE a \in S : \A y \in S : a >= y
    OBVIOUS
  <1>9. PICK mn : mn = CHOOSE a \in S : \A y \in S : a <= y
    OBVIOUS
  <1>10. \A a, y \in S : a >= y <=> y <= a
    OBVIOUS
  <1>11. mx \in S /\ \A y \in S : mx >= y
    BY <1>6, <1>8, <1>10
  <1>12. mn \in S /\ \A y \in S : mn <= y
    BY <1>7, <1>9
  <1>13. mx = Max(S) /\ mn = Min(S)
    BY <1>8, <1>9 DEF Max, Min
  <1> QED BY <1>10, <1>11, <1>12, <1>13

(* What is assumed of one request.                                          *)
Asked(q) ==
    /\ Len(q.legs) \in Nat \ {0} /\ DOMAIN q.legs = 1..Len(q.legs)
    /\ \A i \in DOMAIN q.legs : /\ q.legs[i].start \in Int /\ q.legs[i].end \in Int
                                /\ q.legs[i].start < q.legs[i].end
    /\ q.car.rates[q.type] \in Nat /\ q.car.rates[q.type] >= Naira
    /\ q.car.rates[q.type] % 100 = 0
    /\ q.car.fuel \in Nat /\ q.credits \in Nat /\ q.balance \in Nat /\ q.referral \in Nat
    /\ IsFiniteSet(q.promos)
    /\ \A p \in q.promos : /\ p.id \in Nat \ {0} /\ p.percent \in Nat
                           /\ p.start \in Int /\ p.end \in Int
    /\ \A p, o \in q.promos : p.id = o.id => p = o

(* Every request is such a request.                                         *)
LEMMA AllAsked == ASSUME NEW q \in PQuotes PROVE Asked(q)
  BY PriceAssumption DEF Asked

(* The window holds every leg.                                              *)
LEMMA WindowHolds ==
    ASSUME NEW q, Asked(q), NEW i \in DOMAIN q.legs
    PROVE  LET w == getBookingWindow(q.legs)
           IN  /\ w.start \in Int /\ w.end \in Int
               /\ w.start <= q.legs[i].start /\ q.legs[i].end <= w.end /\ w.start < w.end
  <1>1. PICK n \in Nat : n = Len(q.legs) /\ DOMAIN q.legs = 1..n /\ IsFiniteSet(1..n)
    <2>1. PICK n \in Nat : n = Len(q.legs) /\ DOMAIN q.legs = 1..n
      BY DEF Asked
    <2>2. IsFiniteSet(1..n)
      BY FS_Interval
    <2> QED BY <2>1, <2>2
  <1>2. PICK A : A = {q.legs[j].start : j \in DOMAIN q.legs}
    OBVIOUS
  <1>3. PICK B : B = {q.legs[j].end : j \in DOMAIN q.legs}
    OBVIOUS
  <1>4. IsFiniteSet(A) /\ IsFiniteSet(B)
    <2>1. PICK fa : fa = [j \in 1..n |-> q.legs[j].start]
      OBVIOUS
    <2>2. PICK fb : fb = [j \in 1..n |-> q.legs[j].end]
      OBVIOUS
    <2>3. fa \in Surjection(1..n, A) /\ fb \in Surjection(1..n, B)
      BY <1>1, <1>2, <1>3, <2>1, <2>2 DEF Surjection
    <2> QED BY <1>1, <2>3, FS_Surjection
  <1>5. A \subseteq Int /\ B \subseteq Int
    BY <1>2, <1>3 DEF Asked
  <1>6. q.legs[i].start \in A /\ q.legs[i].end \in B
    BY <1>2, <1>3
  <1>7. Min(A) \in Int /\ Min(A) <= q.legs[i].start
    BY <1>4, <1>5, <1>6, MinMax
  <1>8. Max(B) \in Int /\ q.legs[i].end <= Max(B)
    BY <1>4, <1>5, <1>6, MinMax
  <1>9. PICK w : w = getBookingWindow(q.legs)
    OBVIOUS
  <1>10. w.start = Min(A) /\ w.end = Max(B)
    BY <1>2, <1>3, <1>9 DEF getBookingWindow
  <1>11. PICK a \in Int, b \in Int : a = q.legs[i].start /\ b = q.legs[i].end /\ a < b
    BY DEF Asked
  <1>12. PICK c \in Int, d \in Int : c = w.start /\ d = w.end
    BY <1>7, <1>8, <1>10
  <1>13. c <= a /\ b <= d
    BY <1>7, <1>8, <1>10, <1>11, <1>12
  <1>14. c <= a /\ b <= d /\ c < d
    BY <1>11, <1>13
  <1> QED BY <1>9, <1>11, <1>12, <1>14

(* Of the promotions loaded, those of a leg are all that were for it.       *)
LEMMA LoadedForLeg ==
    ASSUME NEW q, Asked(q), NEW i \in DOMAIN q.legs, ~q.outage
    PROVE  {p \in loadOverlappingPromotions(q) : intervalsOverlap(p, q.legs[i])}
             = {p \in q.promos : /\ p.active /\ p.car \in {q.car.id, "fleet"}
                                 /\ intervalsOverlap(p, q.legs[i])}
  <1>1. PICK w : w = getBookingWindow(q.legs)
    OBVIOUS
  <1>2. PICK a \in Int, b \in Int, c \in Int, d \in Int :
           /\ a = q.legs[i].start /\ b = q.legs[i].end /\ c = w.start /\ d = w.end
           /\ c <= a /\ b <= d /\ c < d
    BY <1>1, WindowHolds DEF Asked
  <1>3. loadOverlappingPromotions(q)
          = {p \in q.promos : /\ p.active /\ p.car \in {q.car.id, "fleet"}
                              /\ intervalsOverlap(p, w)}
    <2>1. ~(w.end <= w.start)
      BY <1>2
    <2> QED BY <1>1, <2>1 DEF loadOverlappingPromotions
  <1>4. ASSUME NEW p \in q.promos, intervalsOverlap(p, q.legs[i])
        PROVE  intervalsOverlap(p, w)
    <2>1. PICK s \in Int, e \in Int : s = p.start /\ e = p.end
      BY DEF Asked
    <2>2. s < b /\ e > a
      BY <1>2, <1>4, <2>1 DEF intervalsOverlap
    <2>3. s < d /\ e > c
      BY <1>2, <2>2
    <2> QED BY <1>2, <2>1, <2>3 DEF intervalsOverlap
  <1> QED BY <1>3, <1>4

(* Which promotions may price a leg: the car's own, or else the fleet's.    *)
ForLeg(q, leg) ==
    LET live == {p \in q.promos : /\ p.active /\ p.car \in {q.car.id, "fleet"}
                                  /\ intervalsOverlap(p, leg)}
        own  == {p \in live : p.car = q.car.id}
    IN  IF own # {} THEN own ELSE live

(* They are the candidates the code selects.                                *)
LEMMA CandidatesForLeg ==
    ASSUME NEW q, Asked(q), NEW i \in DOMAIN q.legs, ~q.outage
    PROVE  getSelectionCandidates({p \in loadOverlappingPromotions(q) :
                                     intervalsOverlap(p, q.legs[i])}, q.car.id)
             = ForLeg(q, q.legs[i])
  <1>1. PICK live : live = {p \in q.promos : /\ p.active /\ p.car \in {q.car.id, "fleet"}
                                             /\ intervalsOverlap(p, q.legs[i])}
    OBVIOUS
  <1>2. {p \in loadOverlappingPromotions(q) : intervalsOverlap(p, q.legs[i])} = live
    BY <1>1, LoadedForLeg
  <1>3. PICK own : own = {p \in live : p.car = q.car.id}
    OBVIOUS
  <1>4. ForLeg(q, q.legs[i]) = IF own # {} THEN own ELSE live
    BY <1>1, <1>3 DEF ForLeg
  <1>5. getSelectionCandidates(live, q.car.id)
          = IF own # {} THEN own ELSE {p \in live : p.car = "fleet"}
    BY <1>3 DEF getSelectionCandidates
  <1>6. own = {} => {p \in live : p.car = "fleet"} = live
    BY <1>1, <1>3
  <1> QED BY <1>2, <1>4, <1>5, <1>6

(* What is promised of the price of a leg.                                  *)
LegPrice(q, e, leg) ==
    /\ e.base = getRateForBookingType(q) /\ e.base \in Nat
    /\ e.price \in Naira..e.base
    /\ e.promo \in q.promos \cup {NoPromo}
    /\ ~q.outage =>
         IF ForLeg(q, leg) = {} THEN e.promo = NoPromo /\ e.price = e.base
         ELSE BestOf(e.promo, ForLeg(q, leg))

(* A discounted price stays between one naira and the rate.                 *)
LEMMA DiscountKeeps ==
    ASSUME NEW r \in Nat, r >= Naira, NEW p, p.percent \in Nat
    PROVE  applyPromotionDiscount(r, p) \in Naira..r
  <1>1. r <= r
    OBVIOUS
  <1>2. PICK c \in Nat : c = p.percent
    OBVIOUS
  <1>3. Percent(r, c) \in Nat
    BY <1>1, PercentGrows
  <1>4. PICK d \in Nat : d = Percent(r, c)
    BY <1>3
  <1>5. Naira \in Nat
    BY PriceAssumption
  <1>6. AtLeast(Naira, r - d) \in Naira..r
    BY <1>5 DEF AtLeast
  <1> QED BY <1>2, <1>4, <1>6 DEF applyPromotionDiscount

(* No promotion is the absent one.                                          *)
LEMMA PromoIsOne ==
    ASSUME NEW q, Asked(q), NEW p \in q.promos
    PROVE  p # NoPromo /\ p.id # NoPromo.id /\ p.percent \in Nat
  BY DEF Asked, NoPromo

(* The code prices every leg so.                                            *)
LEMMA LegIsPriced ==
    ASSUME NEW q, Asked(q), NEW i \in DOMAIN q.legs
    PROVE  LET prices == calculateLegPrices(q, loadOverlappingPromotions(q))
           IN  DOMAIN prices = DOMAIN q.legs /\ LegPrice(q, prices[i], q.legs[i])
  <1>1. PICK prices : prices = calculateLegPrices(q, loadOverlappingPromotions(q))
    OBVIOUS
  <1>2. PICK r : r = getRateForBookingType(q)
    OBVIOUS
  <1>3. r \in Nat /\ r >= Naira /\ r % 100 = 0 /\ r > 0
    <2>1. r \in Nat /\ r >= Naira /\ r % 100 = 0
      BY <1>2 DEF Asked, getRateForBookingType
    <2>2. Naira \in Nat \ {0}
      BY PriceAssumption
    <2> QED BY <2>1, <2>2
  <1>4. PICK cands : cands = getSelectionCandidates(
            {p \in loadOverlappingPromotions(q) : intervalsOverlap(p, q.legs[i])}, q.car.id)
    OBVIOUS
  <1>5. PICK p : p = chooseBestPromotion(cands, r)
    OBVIOUS
  <1>6. DOMAIN prices = DOMAIN q.legs
    BY <1>1 DEF calculateLegPrices
  <1>7. prices[i] = [base |-> r, promo |-> p,
                     price |-> IF p = NoPromo THEN r ELSE applyPromotionDiscount(r, p)]
    BY <1>1, <1>2, <1>4, <1>5 DEF calculateLegPrices, resolveBestPromotionForInterval
  <1>8. loadOverlappingPromotions(q) \subseteq q.promos
    BY DEF loadOverlappingPromotions
  <1>9. cands \subseteq q.promos
    BY <1>4, <1>8 DEF getSelectionCandidates
  <1>10. PromoChoices(cands)
    <2>1. IsFiniteSet(cands)
      BY <1>9, FS_Subset DEF Asked
    <2> QED BY <1>9, <2>1 DEF PromoChoices, Asked
  <1>11. cands = {} => p = NoPromo
    BY <1>5 DEF chooseBestPromotion
  <1>12. cands # {} => BestOf(p, cands)
    BY <1>3, <1>5, <1>10, BestChosen
  <1>13. p \in q.promos \cup {NoPromo}
    BY <1>9, <1>11, <1>12 DEF BestOf
  <1>14. ~q.outage => cands = ForLeg(q, q.legs[i])
    BY <1>4, CandidatesForLeg
  <1>15. prices[i].price \in Naira..r
    <2>1. CASE p = NoPromo
      <3>1. Naira \in Nat
        BY PriceAssumption
      <3> QED BY <1>3, <1>7, <2>1, <3>1
    <2>2. CASE p # NoPromo
      <3>1. p.percent \in Nat
        BY <1>13, <2>2, PromoIsOne
      <3>2. applyPromotionDiscount(r, p) \in Naira..r
        BY <1>3, <3>1, DiscountKeeps
      <3> QED BY <1>7, <2>2, <3>2
    <2> QED BY <2>1, <2>2
  <1>16. ~q.outage =>
           IF ForLeg(q, q.legs[i]) = {} THEN p = NoPromo /\ prices[i].price = r
           ELSE BestOf(p, ForLeg(q, q.legs[i]))
    <2>1. p = NoPromo => prices[i].price = r
      BY <1>7
    <2> QED BY <1>11, <1>12, <1>14, <2>1
  <1>17. prices[i].base = r /\ prices[i].promo = p
    BY <1>7
  <1>18. LegPrice(q, prices[i], q.legs[i])
    BY <1>2, <1>3, <1>13, <1>15, <1>16, <1>17 DEF LegPrice
  <1> QED BY <1>1, <1>6, <1>18

-----------------------------------------------------------------------------
(* BookingPrice: the cost of a booking.                                     *)

(* Every leg is priced.                                                     *)
LegPrices(q, prices) ==
    /\ DOMAIN prices = DOMAIN q.legs
    /\ \A i \in DOMAIN q.legs : LegPrice(q, prices[i], q.legs[i])

(* What is known of the cost before the discounts.                          *)
CostKnown(c) ==
    /\ c.net \in Nat /\ c.compareNet \in Nat /\ Naira <= c.net /\ c.net <= c.compareNet
    /\ c.security \in Nat /\ c.fuel \in Nat /\ c.commission \in Nat
    /\ c.fee = Percent(c.net + c.fuel, PRates.fee) /\ c.fee \in Nat
    /\ c.payout = c.net + c.security - c.commission

(* The rental costs at least a naira and at most what it would undiscounted. *)
LEMMA RentalBounded ==
    ASSUME NEW q, Asked(q), NEW prices, LegPrices(q, prices)
    PROVE  LET c == costBeforeDiscounts(q, prices)
           IN  /\ c.net \in Nat /\ c.compareNet \in Nat
               /\ Naira <= c.net /\ c.net <= c.compareNet
  <1>1. PICK S : S = DOMAIN prices
    OBVIOUS
  <1>2. PICK w : w = [i \in S |-> prices[i].price]
    OBVIOUS
  <1>3. PICK v : v = [i \in S |-> prices[i].base]
    OBVIOUS
  <1>4. IsFiniteSet(S) /\ 1 \in S
    <2>1. PICK n \in Nat \ {0} : DOMAIN q.legs = 1..n
      BY DEF Asked
    <2>2. IsFiniteSet(1..n)
      BY FS_Interval
    <2>3. 1 \in 1..n
      OBVIOUS
    <2> QED BY <1>1, <2>1, <2>2, <2>3 DEF LegPrices
  <1>5. ASSUME NEW i \in S
        PROVE  w[i] \in Nat /\ v[i] \in Nat /\ Naira <= w[i] /\ w[i] <= v[i]
    <2>1. PICK b \in Nat : b = prices[i].base
      BY <1>1 DEF LegPrices, LegPrice
    <2>2. prices[i].price \in Naira..b
      BY <1>1, <2>1 DEF LegPrices, LegPrice
    <2>3. Naira \in Nat
      BY PriceAssumption
    <2> QED BY <1>2, <1>3, <2>1, <2>2, <2>3
  <1>6. w \in [S -> Nat] /\ v \in [S -> Nat]
    BY <1>2, <1>3, <1>5
  <1>7. SumOf(w) \in Nat /\ SumOf(v) \in Nat /\ w[1] <= SumOf(w)
    BY <1>4, <1>6, SumOfNat
  <1>8. SumOf(w) <= SumOf(v)
    BY <1>4, <1>5, <1>6, SumMono
  <1>9. Naira <= SumOf(w)
    <2>1. PICK a \in Nat : a = w[1] /\ Naira <= a
      BY <1>4, <1>5
    <2>2. Naira \in Nat
      BY PriceAssumption
    <2> QED BY <1>7, <2>1, <2>2
  <1>10. PICK c : c = costBeforeDiscounts(q, prices)
    OBVIOUS
  <1>11. c.net = SumOf(w) /\ c.compareNet = SumOf(v)
    BY <1>1, <1>2, <1>3, <1>10 DEF costBeforeDiscounts
  <1> QED BY <1>7, <1>8, <1>9, <1>10, <1>11

(* The add-ons, the fee, the commission and the owner's share.              *)
LEMMA CostIsKnown ==
    ASSUME NEW q, Asked(q), NEW prices, LegPrices(q, prices)
    PROVE  CostKnown(costBeforeDiscounts(q, prices))
  <1>1. PICK c : c = costBeforeDiscounts(q, prices)
    OBVIOUS
  <1>2. /\ c.net \in Nat /\ c.compareNet \in Nat
        /\ Naira <= c.net /\ c.net <= c.compareNet
    BY <1>1, RentalBounded
  <1>3. PRates.security \in Nat /\ PRates.fee \in Nat /\ PRates.commission \in Nat
    BY PriceAssumption
  <1>4. c.security \in Nat
    <2>1. c.security = IF q.security THEN PRates.security * Len(q.legs) ELSE 0
      BY <1>1 DEF costBeforeDiscounts
    <2>2. Len(q.legs) \in Nat
      BY DEF Asked
    <2>3. PRates.security * Len(q.legs) \in Nat
      BY <1>3, <2>2
    <2> QED BY <2>1, <2>3
  <1>5. c.fuel \in Nat
    <2>1. c.fuel = calculateFuelUpgradeCost(q)
      BY <1>1 DEF costBeforeDiscounts
    <2>2. q.car.fuel \in Nat
      BY DEF Asked
    <2> QED BY <2>1, <2>2 DEF calculateFuelUpgradeCost
  <1>6. PICK net \in Nat, fuel \in Nat : net = c.net /\ fuel = c.fuel
    BY <1>2, <1>5
  <1>7. c.commission = Percent(net, PRates.commission) /\ c.fee = Percent(net + fuel, PRates.fee)
    <2>1. /\ c.commission = Percent(c.net, PRates.commission)
          /\ c.fee = Percent(c.net + c.fuel, PRates.fee)
      BY <1>1 DEF costBeforeDiscounts
    <2> QED BY <1>6, <2>1
  <1>8. c.commission \in Nat /\ c.fee \in Nat
    <2>1. net <= net /\ net + fuel <= net + fuel /\ net + fuel \in Nat
      OBVIOUS
    <2> QED BY <1>3, <1>7, <2>1, PercentGrows
  <1>9. c.payout = c.net + c.security - c.commission
    <2>1. c.payout = fleetOwnerPayout(c.net, c.security, c.commission)
      BY <1>1 DEF costBeforeDiscounts
    <2> QED BY <2>1 DEF fleetOwnerPayout
  <1> QED BY <1>1, <1>2, <1>4, <1>5, <1>6, <1>7, <1>8, <1>9 DEF CostKnown

(* What is known of the cost after the discounts.                           *)
PaidKnown(d, sub, wanted, balance) ==
    /\ d.referral \in Nat /\ d.credits \in Nat /\ d.after \in Nat /\ d.vat \in Nat
    /\ d.after = sub - d.referral - d.credits
    /\ Naira <= d.after /\ d.after <= sub
    /\ d.credits <= AtMost(wanted, balance)
    /\ d.vat = Percent(d.after, PRates.vat) /\ d.total = d.after + d.vat

(* A discount leaves a naira.                                               *)
LEMMA DiscountLeaves ==
    ASSUME NEW discount \in Nat, NEW left \in Nat, Naira <= left
    PROVE  LET a == applyDiscount(discount, left)
           IN  a \in Nat /\ Naira <= left - a
  <1>1. Naira \in Nat
    BY PriceAssumption
  <1> QED BY <1>1 DEF applyDiscount, AtMost, AtLeast

(* So do the credits, which are no more than asked for or had.              *)
LEMMA CreditsLeave ==
    ASSUME NEW wanted \in Nat, NEW balance \in Nat, NEW left \in Nat, Naira <= left
    PROVE  LET a == calculateEffectiveCredits(wanted, balance, left)
           IN  a \in Nat /\ Naira <= left - a /\ a <= AtMost(wanted, balance)
  <1>1. Naira \in Nat
    BY PriceAssumption
  <1> QED BY <1>1 DEF calculateEffectiveCredits, AtMost, AtLeast

(* The discounts leave at least a naira to pay.                             *)
LEMMA PaidIsKnown ==
    ASSUME NEW sub \in Nat, Naira <= sub, NEW referral \in Nat,
           NEW wanted \in Nat, NEW balance \in Nat
    PROVE  PaidKnown(costAfterDiscounts(sub, referral, wanted, balance), sub, wanted, balance)
  <1>1. PICK d : d = costAfterDiscounts(sub, referral, wanted, balance)
    OBVIOUS
  <1>2. PICK a : a = applyDiscount(referral, sub)
    OBVIOUS
  <1>3. a \in Nat /\ Naira <= sub - a
    BY <1>2, DiscountLeaves
  <1>4. Naira \in Nat
    BY PriceAssumption
  <1>5. PICK left \in Nat : left = sub - a /\ Naira <= left
    BY <1>3, <1>4
  <1>6. PICK b : b = calculateEffectiveCredits(wanted, balance, left)
    OBVIOUS
  <1>7. b \in Nat /\ Naira <= left - b /\ b <= AtMost(wanted, balance)
    BY <1>5, <1>6, CreditsLeave
  <1>8. PICK after \in Nat : after = left - b /\ Naira <= after
    BY <1>4, <1>7
  <1>9. PICK vat : vat = Percent(after, PRates.vat)
    OBVIOUS
  <1>10. vat \in Nat
    <2>1. after <= after /\ PRates.vat \in Nat
      BY PriceAssumption
    <2> QED BY <1>9, <2>1, PercentGrows
  <1>11. d = [referral |-> a, credits |-> b, after |-> after, vat |-> vat, total |-> after + vat]
    BY <1>1, <1>2, <1>5, <1>6, <1>8, <1>9 DEF costAfterDiscounts
  <1>12. /\ d.referral = a /\ d.credits = b /\ d.after = after /\ d.vat = vat
         /\ d.total = after + vat
    BY <1>11
  <1>13. after = sub - a - b /\ after <= sub
    BY <1>3, <1>5, <1>7, <1>8
  <1> HIDE DEF AtMost
  <1> QED BY <1>1, <1>3, <1>7, <1>8, <1>9, <1>10, <1>12, <1>13 DEF PaidKnown

(* The total never exceeds what is compared with it.                        *)
LEMMA NeverDearer ==
    ASSUME NEW c, CostKnown(c), NEW d, NEW wanted, NEW balance,
           PaidKnown(d, subtotalBeforeDiscounts(c), wanted, balance)
    PROVE  compareAtTotal(c) \in Nat /\ d.total \in Nat /\ d.total <= compareAtTotal(c)
  <1>1. PICK net \in Nat, cnet \in Nat, sec \in Nat, fuel \in Nat, fee \in Nat, after \in Nat,
             vat \in Nat :
           /\ net = c.net /\ cnet = c.compareNet /\ sec = c.security /\ fuel = c.fuel
           /\ fee = c.fee /\ after = d.after /\ vat = d.vat /\ net <= cnet
    BY DEF CostKnown, PaidKnown
  <1>2. PRates.fee \in Nat /\ PRates.vat \in Nat
    BY PriceAssumption
  <1>3. PICK cfee \in Nat : cfee = Percent(cnet + fuel, PRates.fee) /\ fee <= cfee
    <2>1. net + fuel \in Nat /\ cnet + fuel \in Nat /\ net + fuel <= cnet + fuel
      BY <1>1
    <2>2. fee = Percent(net + fuel, PRates.fee)
      BY <1>1 DEF CostKnown
    <2> QED BY <1>2, <2>1, <2>2, PercentGrows
  <1>4. PICK sub \in Nat : sub = cnet + sec + fuel + cfee
    OBVIOUS
  <1>5. after <= sub
    <2>1. subtotalBeforeDiscounts(c) = net + sec + fuel + fee
      BY <1>1 DEF subtotalBeforeDiscounts
    <2>2. after <= net + sec + fuel + fee
      BY <1>1, <2>1 DEF PaidKnown
    <2>3. net + sec + fuel + fee <= sub
      BY <1>1, <1>3, <1>4
    <2>4. net + sec + fuel + fee \in Nat
      OBVIOUS
    <2> QED BY <2>2, <2>3, <2>4
  <1>6. PICK cvat \in Nat : cvat = Percent(sub, PRates.vat) /\ vat <= cvat
    <2>1. vat = Percent(after, PRates.vat)
      BY <1>1 DEF PaidKnown
    <2> QED BY <1>2, <1>5, <2>1, PercentGrows
  <1>7. compareAtTotal(c) = sub + cvat
    BY <1>1, <1>3, <1>4, <1>6 DEF compareAtTotal
  <1>8. d.total = after + vat
    BY <1>1 DEF PaidKnown
  <1>9. after + vat <= sub + cvat
    BY <1>5, <1>6
  <1> QED BY <1>7, <1>8, <1>9

-----------------------------------------------------------------------------
(* BookingPrice: the lines of the preview.                                  *)

(* What is known of the legs' prices where the lines are made of them.      *)
LinesOf(prices, n) ==
    /\ n \in Nat /\ DOMAIN prices = 1..n /\ Len(prices) = n
    /\ \A i \in 1..n : /\ prices[i].price \in Nat
                       /\ (prices[i].promo = NoPromo <=> prices[i].promo.id = NoPromo.id)

(* They are, of the prices of the legs.                                     *)
LEMMA LegsMakeLines ==
    ASSUME NEW q, Asked(q)
    PROVE  LET prices == calculateLegPrices(q, loadOverlappingPromotions(q))
           IN  LegPrices(q, prices) /\ LinesOf(prices, Len(q.legs))
  <1>1. PICK prices : prices = calculateLegPrices(q, loadOverlappingPromotions(q))
    OBVIOUS
  <1>2. LegPrices(q, prices)
    <2>1. ASSUME NEW i \in DOMAIN q.legs
          PROVE  DOMAIN prices = DOMAIN q.legs /\ LegPrice(q, prices[i], q.legs[i])
      BY <1>1, LegIsPriced
    <2>2. DOMAIN prices = DOMAIN q.legs
      BY <1>1 DEF calculateLegPrices
    <2> QED BY <2>1, <2>2 DEF LegPrices
  <1>3. PICK n \in Nat : n = Len(q.legs) /\ DOMAIN q.legs = 1..n
    BY DEF Asked
  <1>4. Len(prices) = n
    <2>1. PICK T : T = {prices[i] : i \in 1..n}
      OBVIOUS
    <2>2. prices = [i \in 1..n |-> prices[i]]
      BY <1>1, <1>3 DEF calculateLegPrices
    <2>3. prices \in [1..n -> T]
      BY <2>1, <2>2
    <2>4. prices \in Seq(T)
      BY <2>3
    <2>5. DOMAIN prices = 1..Len(prices) /\ Len(prices) \in Nat
      BY <2>4
    <2>6. DOMAIN prices = 1..n
      BY <2>2
    <2>7. PICK l \in Nat : l = Len(prices) /\ 1..l = 1..n
      BY <2>5, <2>6
    <2>8. Cardinality(1..l) = l /\ Cardinality(1..n) = n
      BY FS_Interval
    <2> QED BY <2>7, <2>8
  <1>5. ASSUME NEW i \in 1..n
        PROVE  /\ prices[i].price \in Nat
               /\ (prices[i].promo = NoPromo <=> prices[i].promo.id = NoPromo.id)
    <2>1. LegPrice(q, prices[i], q.legs[i])
      BY <1>2, <1>3 DEF LegPrices
    <2>2. prices[i].price \in Nat
      <3>1. PICK b \in Nat : b = prices[i].base /\ prices[i].price \in Naira..b
        BY <2>1 DEF LegPrice
      <3>2. Naira \in Nat
        BY PriceAssumption
      <3> QED BY <3>1, <3>2
    <2>3. PICK p : p = prices[i].promo /\ p \in q.promos \cup {NoPromo}
      BY <2>1 DEF LegPrice
    <2>4. p = NoPromo <=> p.id = NoPromo.id
      BY <2>3, PromoIsOne
    <2> QED BY <2>2, <2>3, <2>4
  <1>6. LinesOf(prices, n)
    BY <1>2, <1>3, <1>4, <1>5 DEF LinesOf, LegPrices
  <1> QED BY <1>1, <1>2, <1>3, <1>6

(* The legs of one line.                                                    *)
Line(prices, k) == {i \in DOMAIN prices : SegmentKey(prices[i]) = k}
Keys(prices) == {SegmentKey(prices[i]) : i \in DOMAIN prices}

(* A line counts its legs and adds their prices, which are all the same.    *)
LEMMA LineIs ==
    ASSUME NEW prices, NEW n, LinesOf(prices, n), NEW k \in Keys(prices)
    PROVE  LET seg == buildSegments(prices)[k]
           IN  /\ IsFiniteSet(Line(prices, k)) /\ Line(prices, k) # {}
               /\ seg.units = Cardinality(Line(prices, k)) /\ seg.units \in Nat
               /\ seg.unit \in Nat /\ seg.total \in Nat
               /\ seg.total = SumOf([i \in Line(prices, k) |-> prices[i].price])
               /\ seg.total = seg.units * seg.unit
               /\ \A i \in Line(prices, k) : (seg.promo <=> prices[i].promo # NoPromo)
  <1>1. PICK G : G = Line(prices, k)
    OBVIOUS
  <1>2. IsFiniteSet(G) /\ G # {} /\ G \subseteq 1..n /\ G \subseteq Int
    <2>1. G \subseteq 1..n /\ G # {}
      BY <1>1 DEF Line, Keys, LinesOf
    <2>2. IsFiniteSet(1..n)
      BY FS_Interval DEF LinesOf
    <2>3. IsFiniteSet(G)
      BY <2>1, <2>2, FS_Subset
    <2> QED BY <2>1, <2>3 DEF LinesOf
  <1>3. PICK m \in G : m = Min(G)
    BY <1>2, MinMax
  <1>4. PICK f : f = [i \in G |-> prices[i].price]
    OBVIOUS
  <1>5. PICK seg : seg = buildSegments(prices)[k]
    OBVIOUS
  <1>6. seg = [promo |-> prices[m].promo # NoPromo, units |-> Cardinality(G),
               unit |-> prices[m].price, total |-> SumOf(f)]
    <2>1. G = {i \in DOMAIN prices : SegmentKey(prices[i]) = k}
      BY <1>1 DEF Line
    <2>2. k \in {SegmentKey(prices[i]) : i \in DOMAIN prices}
      BY DEF Keys
    <2> QED BY <1>3, <1>4, <1>5, <2>1, <2>2 DEF buildSegments
  <1>7. ASSUME NEW i \in G
        PROVE  /\ prices[i].price = prices[m].price
               /\ prices[i].promo.id = prices[m].promo.id
    <2>1. SegmentKey(prices[i]) = SegmentKey(prices[m])
      BY <1>1, <1>3 DEF Line
    <2>2. /\ prices[i].price = SegmentKey(prices[i])[3]
          /\ prices[i].promo.id = SegmentKey(prices[i])[1]
          /\ prices[m].price = SegmentKey(prices[m])[3]
          /\ prices[m].promo.id = SegmentKey(prices[m])[1]
      BY DEF SegmentKey
    <2> QED BY <2>1, <2>2
  <1>8. PICK c \in Nat : c = prices[m].price
    BY <1>2, <1>3 DEF LinesOf
  <1>9. f \in [G -> Nat] /\ \A i \in G : f[i] = c
    BY <1>4, <1>7, <1>8
  <1>10. SumOf(f) = Cardinality(G) * c /\ SumOf(f) \in Nat /\ Cardinality(G) \in Nat
    BY <1>2, <1>9, SumConst, SumOfNat, FS_CardinalityType
  <1>11. /\ seg.units = Cardinality(G) /\ seg.unit = c /\ seg.total = SumOf(f)
         /\ (seg.promo <=> prices[m].promo # NoPromo)
    BY <1>6, <1>8
  <1>12. \A i \in G : (seg.promo <=> prices[i].promo # NoPromo)
    <2>1. ASSUME NEW i \in G PROVE prices[i].promo = NoPromo <=> prices[m].promo = NoPromo
      <3>1. /\ (prices[i].promo = NoPromo <=> prices[i].promo.id = NoPromo.id)
            /\ (prices[m].promo = NoPromo <=> prices[m].promo.id = NoPromo.id)
        BY <1>2, <1>3 DEF LinesOf
      <3> QED BY <1>7, <3>1
    <2> QED BY <1>11, <2>1
  <1> QED BY <1>1, <1>2, <1>4, <1>5, <1>10, <1>11, <1>12

(* The lines add up to the rental.                                          *)
LEMMA LinesAddUp ==
    ASSUME NEW prices, NEW n, LinesOf(prices, n)
    PROVE  LET segs == buildSegments(prices)
           IN  /\ DOMAIN segs = Keys(prices)
               /\ SumOf([k \in DOMAIN segs |-> segs[k].total])
                    = SumOf([i \in DOMAIN prices |-> prices[i].price])
               /\ SumOf([k \in DOMAIN segs |-> segs[k].units]) = n
  <1>1. PICK segs : segs = buildSegments(prices)
    OBVIOUS
  <1>2. PICK K : K = Keys(prices)
    OBVIOUS
  <1>3. PICK S : S = DOMAIN prices
    OBVIOUS
  <1>4. IsFiniteSet(S) /\ S = 1..n /\ Cardinality(S) = n /\ n \in Nat
    <2>1. S = 1..n /\ n \in Nat
      BY <1>3 DEF LinesOf
    <2>2. PICK m \in Nat : m = n
      BY <2>1
    <2>3. IsFiniteSet(1..m) /\ Cardinality(1..m) = m
      BY FS_Interval
    <2> QED BY <2>1, <2>2, <2>3
  <1>5. PICK key : key = [i \in S |-> SegmentKey(prices[i])]
    OBVIOUS
  <1>6. key \in Surjection(S, K) /\ key \in [S -> K]
    BY <1>2, <1>3, <1>5 DEF Keys, Surjection
  <1>7. IsFiniteSet(K)
    BY <1>4, <1>6, FS_Surjection
  <1>8. DOMAIN segs = K
    BY <1>1, <1>2 DEF buildSegments, Keys
  <1>9. \A k \in K : {j \in S : key[j] = k} = Line(prices, k)
    BY <1>3, <1>5 DEF Line
  <1>10. PICK w : w = [i \in S |-> prices[i].price]
    OBVIOUS
  <1>11. w \in [S -> Nat]
    BY <1>4, <1>10 DEF LinesOf
  <1>12. PICK v : v = [k \in K |-> segs[k].total]
    OBVIOUS
  <1>13. ASSUME NEW k \in K
         PROVE  /\ IsFiniteSet(Line(prices, k))
                /\ segs[k].units = Cardinality(Line(prices, k)) /\ segs[k].units \in Nat
                /\ segs[k].total \in Nat
                /\ segs[k].total = SumOf([i \in Line(prices, k) |-> prices[i].price])
    BY <1>1, <1>2, LineIs
  <1>14. v \in [K -> Nat]
    BY <1>12, <1>13
  <1>15. Groups(v, w, key, S, K)
    <2>1. ASSUME NEW k \in K PROVE v[k] = SumOf([i \in {j \in S : key[j] = k} |-> w[i]])
      <3>1. Line(prices, k) \subseteq S
        BY <1>3 DEF Line
      <3>2. [i \in Line(prices, k) |-> prices[i].price] = [i \in Line(prices, k) |-> w[i]]
        BY <1>10, <3>1
      <3>3. v[k] = SumOf([i \in Line(prices, k) |-> w[i]])
        BY <1>12, <1>13, <3>2
      <3> QED BY <1>9, <3>3
    <2> QED BY <2>1 DEF Groups
  <1>16. SumOf(v) = SumOf(w)
    BY <1>4, <1>6, <1>7, <1>11, <1>14, <1>15, SumParts
  <1>17. PICK one : one = [i \in S |-> 1]
    OBVIOUS
  <1>18. PICK u : u = [k \in K |-> segs[k].units]
    OBVIOUS
  <1>19. one \in [S -> Nat] /\ u \in [K -> Nat]
    BY <1>13, <1>17, <1>18
  <1>20. Groups(u, one, key, S, K)
    <2>1. ASSUME NEW k \in K PROVE u[k] = SumOf([i \in {j \in S : key[j] = k} |-> one[i]])
      <3>1. PICK G : G = Line(prices, k) /\ G \subseteq S /\ IsFiniteSet(G)
        BY <1>3, <1>13 DEF Line
      <3>2. PICK f : f = [i \in G |-> one[i]]
        OBVIOUS
      <3>3. f \in [G -> Nat] /\ \A i \in G : f[i] = 1
        BY <1>17, <3>1, <3>2
      <3>4. SumOf(f) = Cardinality(G) * 1
        BY <3>1, <3>3, SumConst
      <3>5. Cardinality(G) \in Nat
        BY <3>1, FS_CardinalityType
      <3>6. u[k] = Cardinality(G)
        BY <1>13, <1>18, <3>1
      <3>7. Cardinality(G) * 1 = Cardinality(G)
        BY <3>5
      <3>8. u[k] = SumOf(f)
        BY <3>4, <3>6, <3>7
      <3> QED BY <1>9, <3>1, <3>2, <3>8
    <2> QED BY <2>1 DEF Groups
  <1>21. SumOf(u) = SumOf(one)
    BY <1>4, <1>6, <1>7, <1>19, <1>20, SumParts
  <1>22. SumOf(one) = n
    <2>1. \A i \in S : one[i] = 1
      BY <1>17
    <2>2. SumOf(one) = Cardinality(S) * 1
      BY <1>4, <1>19, <2>1, SumConst
    <2> QED BY <1>4, <2>2
  <1> QED BY <1>1, <1>2, <1>3, <1>8, <1>10, <1>12, <1>16, <1>18, <1>21, <1>22

(* The coverage shown is that of the lines.                                 *)
LEMMA CoverageShown ==
    ASSUME NEW prices, NEW n, LinesOf(prices, n), n > 0
    PROVE  LET segs == buildSegments(prices)
           IN  computeCoverage(prices)
                 = IF \A k \in DOMAIN segs : ~segs[k].promo THEN "NONE"
                   ELSE IF \A k \in DOMAIN segs : segs[k].promo THEN "FULL"
                   ELSE "PARTIAL"
  <1>1. PICK segs : segs = buildSegments(prices)
    OBVIOUS
  <1>2. DOMAIN segs = Keys(prices)
    BY <1>1, LinesAddUp
  <1>3. ASSUME NEW k \in Keys(prices), NEW i \in Line(prices, k)
        PROVE  segs[k].promo <=> prices[i].promo # NoPromo
    BY <1>1, LineIs
  <1>4. PICK D : D = Discounted(prices)
    OBVIOUS
  <1>5. PICK m \in Nat : m = n /\ DOMAIN prices = 1..m /\ Len(prices) = m
    BY DEF LinesOf
  <1>6. D \subseteq 1..m /\ \A i \in 1..m : (i \in D <=> prices[i].promo # NoPromo)
    BY <1>4, <1>5 DEF Discounted
  <1>7. IsFiniteSet(1..m) /\ Cardinality(1..m) = m
    BY FS_Interval
  <1>8. /\ IsFiniteSet(D) /\ Cardinality(D) \in Nat
        /\ (Cardinality(D) = 0 <=> D = {})
        /\ (Cardinality(D) = m <=> D = 1..m)
    BY <1>6, <1>7, FS_Subset, FS_CardinalityType, FS_EmptySet
  <1>9. \A i \in 1..m : SegmentKey(prices[i]) \in Keys(prices) /\ i \in Line(prices, SegmentKey(prices[i]))
    BY <1>5 DEF Keys, Line
  <1>10. \A k \in Keys(prices) : \E i \in 1..m : i \in Line(prices, k)
    BY <1>5 DEF Keys, Line
  <1>11. (\A k \in DOMAIN segs : ~segs[k].promo) <=> D = {}
    <2>1. ASSUME D = {}, NEW k \in DOMAIN segs PROVE ~segs[k].promo
      <3>1. PICK i \in 1..m : i \in Line(prices, k)
        BY <1>2, <1>10
      <3> QED BY <1>2, <1>3, <1>6, <2>1, <3>1
    <2>2. ASSUME \A k \in DOMAIN segs : ~segs[k].promo, NEW i \in D PROVE FALSE
      <3>1. i \in 1..m /\ prices[i].promo # NoPromo
        BY <1>6
      <3>2. PICK k \in Keys(prices) : i \in Line(prices, k)
        BY <1>9, <3>1
      <3> QED BY <1>2, <1>3, <2>2, <3>1, <3>2
    <2> QED BY <2>1, <2>2
  <1>12. (\A k \in DOMAIN segs : segs[k].promo) <=> D = 1..m
    <2>1. ASSUME D = 1..m, NEW k \in DOMAIN segs PROVE segs[k].promo
      <3>1. PICK i \in 1..m : i \in Line(prices, k)
        BY <1>2, <1>10
      <3> QED BY <1>2, <1>3, <1>6, <2>1, <3>1
    <2>2. ASSUME \A k \in DOMAIN segs : segs[k].promo, NEW i \in 1..m PROVE i \in D
      <3>2. PICK k \in Keys(prices) : i \in Line(prices, k)
        BY <1>9
      <3> QED BY <1>2, <1>3, <1>6, <2>2, <3>2
    <2> QED BY <1>6, <2>1, <2>2
  <1>13. computeCoverage(prices) = IF D = {} THEN "NONE" ELSE IF D = 1..m THEN "FULL" ELSE "PARTIAL"
    BY <1>4, <1>5, <1>8 DEF computeCoverage
  <1> QED BY <1>1, <1>11, <1>12, <1>13

-----------------------------------------------------------------------------
(* BookingPrice: the preview.                                               *)

(* What is known of an answer: its cost, what is paid of it and its lines.  *)
AnswerOf(q, a) ==
    LET prices == a.before.prices
        n      == Len(q.legs)
        segs   == buildSegments(prices)
    IN  /\ n \in Nat /\ n > 0 /\ DOMAIN q.legs = 1..n
        /\ LegPrices(q, prices) /\ LinesOf(prices, n) /\ CostKnown(a.before)
        /\ a.before.net = SumOf([i \in DOMAIN prices |-> prices[i].price])
        /\ PaidKnown(a.paid, subtotalBeforeDiscounts(a.before), q.credits, q.balance)
        /\ a.shown.segments = segs
        /\ a.shown.coverage = computeCoverage(prices)
        /\ a.shown.compareAt = compareAtTotal(a.before)
        /\ a.shown.savings = AtLeast(0, a.shown.compareAt - a.paid.total)

(* The preview answers so.                                                  *)
LEMMA PreviewAnswers ==
    ASSUME NEW q, Asked(q), pask = q, preview
    PROVE  AnswerOf(q, pans') /\ pask' = q
  <1>1. PICK prices : prices = calculateLegPrices(q, loadOverlappingPromotions(q))
    OBVIOUS
  <1>2. PICK c : c = costBeforeDiscounts(q, prices)
    OBVIOUS
  <1>3. LegPrices(q, prices) /\ LinesOf(prices, Len(q.legs))
    BY <1>1, LegsMakeLines
  <1>4. CostKnown(c)
    BY <1>2, <1>3, CostIsKnown
  <1>5. c.prices = prices /\ c.net = SumOf([i \in DOMAIN prices |-> prices[i].price])
    BY <1>2 DEF costBeforeDiscounts
  <1>6. PICK sub \in Nat : sub = subtotalBeforeDiscounts(c) /\ Naira <= sub
    <2>1. PICK net \in Nat, sec \in Nat, fuel \in Nat, fee \in Nat :
             net = c.net /\ sec = c.security /\ fuel = c.fuel /\ fee = c.fee /\ Naira <= net
      BY <1>4 DEF CostKnown
    <2>2. subtotalBeforeDiscounts(c) = net + sec + fuel + fee
      BY <2>1 DEF subtotalBeforeDiscounts
    <2>3. Naira \in Nat
      BY PriceAssumption
    <2>4. net + sec + fuel + fee \in Nat /\ Naira <= net + sec + fuel + fee
      BY <2>1, <2>3
    <2> QED BY <2>2, <2>4
  <1>7. /\ calculateBookingCost(q, 0, 0)
             = [before |-> c, paid |-> costAfterDiscounts(sub, 0, q.credits, 0)]
        /\ calculateBookingCost(q, q.referral, q.balance)
             = [before |-> c, paid |-> costAfterDiscounts(sub, q.referral, q.credits, q.balance)]
    BY <1>1, <1>2, <1>6 DEF calculateBookingCost
  <1>8. PICK wanted \in Nat, balance \in Nat, referral \in Nat :
           wanted = q.credits /\ balance = q.balance /\ referral = q.referral
    BY DEF Asked
  <1>9. PaidKnown(costAfterDiscounts(sub, 0, wanted, 0), sub, wanted, balance)
    <2>1. PaidKnown(costAfterDiscounts(sub, 0, wanted, 0), sub, wanted, 0)
      BY <1>6, PaidIsKnown
    <2>2. PICK d : d = costAfterDiscounts(sub, 0, wanted, 0)
      OBVIOUS
    <2>3. d.credits <= AtMost(wanted, 0) /\ d.credits \in Nat
      BY <2>1, <2>2 DEF PaidKnown
    <2>4. AtMost(wanted, 0) <= AtMost(wanted, balance) /\ AtMost(wanted, 0) \in Nat
          /\ AtMost(wanted, balance) \in Nat
      BY DEF AtMost
    <2> HIDE DEF AtMost
    <2>5. d.credits <= AtMost(wanted, balance)
      BY <2>3, <2>4
    <2> QED BY <2>1, <2>2, <2>5 DEF PaidKnown
  <1>10. PaidKnown(costAfterDiscounts(sub, referral, wanted, balance), sub, wanted, balance)
    BY <1>6, PaidIsKnown
  <1>11. PICK d : /\ d = IF q.referral > 0 \/ q.balance > 0
                         THEN costAfterDiscounts(sub, q.referral, q.credits, q.balance)
                         ELSE costAfterDiscounts(sub, 0, q.credits, 0)
    OBVIOUS
  <1>12. PaidKnown(d, sub, q.credits, q.balance)
    BY <1>8, <1>9, <1>10, <1>11
  <1>13. PICK f : f = [before |-> c, paid |-> d]
    OBVIOUS
  <1>14. pans' = [before |-> f.before, paid |-> f.paid, shown |-> mapFinancials(f)] /\ pask' = q
    <2>1. (IF q.referral > 0 \/ q.balance > 0
           THEN calculateBookingCost(q, q.referral, q.balance)
           ELSE calculateBookingCost(q, 0, 0)) = f
      BY <1>7, <1>11, <1>13
    <2> QED BY <2>1 DEF preview
  <1>15. f.before = c /\ f.paid = d
    BY <1>13
  <1>16. mapFinancials(f) = [segments |-> buildSegments(c.prices),
                             coverage |-> computeCoverage(c.prices),
                             compareAt |-> compareAtTotal(c),
                             savings |-> AtLeast(0, compareAtTotal(c) - d.total)]
    BY <1>15 DEF mapFinancials
  <1>17. PICK a : a = pans'
    OBVIOUS
  <1>18. PICK m : m = mapFinancials(f)
    OBVIOUS
  <1>19. a = [before |-> c, paid |-> d, shown |-> m]
    BY <1>14, <1>15, <1>17, <1>18
  <1>20. a.before = c /\ a.paid = d /\ a.shown = m
    BY <1>19
  <1>21. /\ m.segments = buildSegments(prices) /\ m.coverage = computeCoverage(prices)
         /\ m.compareAt = compareAtTotal(c)
         /\ m.savings = AtLeast(0, m.compareAt - d.total)
    BY <1>5, <1>16, <1>18
  <1>22. Len(q.legs) \in Nat /\ Len(q.legs) > 0 /\ DOMAIN q.legs = 1..Len(q.legs)
    BY DEF Asked
  <1>23. AnswerOf(q, a)
    BY <1>3, <1>4, <1>5, <1>6, <1>12, <1>20, <1>21, <1>22 DEF AnswerOf
  <1> QED BY <1>14, <1>17, <1>23

(* Each leg's price lies between a naira and the rate.                      *)
LEMMA AnswerTyped ==
    ASSUME NEW q, NEW a, AnswerOf(q, a)
    PROVE  /\ Len(a.before.prices) = Len(q.legs)
           /\ \A i \in DOMAIN a.before.prices :
                a.before.prices[i].price \in Naira..getRateForBookingType(q)
  BY DEF AnswerOf, LinesOf, LegPrices, LegPrice

(* Each leg carries the best promotion.                                     *)
LEMMA AnswerBest ==
    ASSUME NEW q, pask' = q, NEW a, AnswerOf(q, a), pans' = a
    PROVE  BestPromotionApplied'
  <1>1. ASSUME ~q.outage, NEW i \in DOMAIN a.before.prices
        PROVE  LET elig == ForLeg(q, q.legs[i])
                   p    == a.before.prices[i].promo
               IN  IF elig = {}
                   THEN p = NoPromo /\ a.before.prices[i].price = getRateForBookingType(q)
                   ELSE BestOf(p, elig)
    BY <1>1 DEF AnswerOf, LegPrices, LegPrice
  <1>2. \A i \in DOMAIN q.legs : EligiblePromos(pask.legs[i])' = ForLeg(q, q.legs[i])
    BY DEF EligiblePromos, ForLeg
  <1>3. DOMAIN a.before.prices = DOMAIN q.legs
    BY DEF AnswerOf, LegPrices
  <1> QED BY <1>1, <1>2, <1>3 DEF BestPromotionApplied, BestOf, Better

(* What is paid is what is shared out, less the discounts.                  *)
LEMMA AnswerConserves ==
    ASSUME NEW q, NEW a, AnswerOf(q, a)
    PROVE  a.paid.total - a.paid.vat =
             a.before.payout + a.before.commission + a.before.fee + a.before.fuel
             - a.paid.referral - a.paid.credits
  <1>1. PICK c, d : c = a.before /\ d = a.paid
    OBVIOUS
  <1>2. CostKnown(c) /\ PaidKnown(d, subtotalBeforeDiscounts(c), q.credits, q.balance)
    BY <1>1 DEF AnswerOf
  <1>3. PICK net \in Nat, sec \in Nat, fuel \in Nat, fee \in Nat, com \in Nat :
           /\ net = c.net /\ sec = c.security /\ fuel = c.fuel /\ fee = c.fee
           /\ com = c.commission /\ c.payout = c.net + c.security - c.commission
    BY <1>2 DEF CostKnown
  <1>4. PICK ref \in Nat, cred \in Nat, after \in Nat, vat \in Nat :
           ref = d.referral /\ cred = d.credits /\ after = d.after /\ vat = d.vat
    BY <1>2 DEF PaidKnown
  <1>5. after = net + sec + fuel + fee - ref - cred
    BY <1>2, <1>3, <1>4 DEF PaidKnown, subtotalBeforeDiscounts
  <1>6. d.total = after + vat /\ c.payout = net + sec - com
    BY <1>2, <1>3, <1>4 DEF PaidKnown
  <1>7. (after + vat) - vat = (net + sec - com) + com + fee + fuel - ref - cred
    BY <1>5
  <1> QED BY <1>1, <1>3, <1>4, <1>6, <1>7

(* The lines shown add up, and so do the savings.                           *)
LEMMA AnswerAddsUp ==
    ASSUME NEW q, NEW a, AnswerOf(q, a)
    PROVE  LET segs == a.shown.segments
           IN  /\ SumOf([k \in DOMAIN segs |-> segs[k].total]) = a.before.net
               /\ SumOf([k \in DOMAIN segs |-> segs[k].units]) = Len(q.legs)
               /\ \A k \in DOMAIN segs : segs[k].total = segs[k].units * segs[k].unit
               /\ a.shown.coverage = IF \A k \in DOMAIN segs : ~segs[k].promo THEN "NONE"
                                     ELSE IF \A k \in DOMAIN segs : segs[k].promo THEN "FULL"
                                     ELSE "PARTIAL"
               /\ a.shown.savings = a.shown.compareAt - a.paid.total
  <1>1. PICK prices, n, segs : /\ prices = a.before.prices /\ n = Len(q.legs)
                               /\ segs = a.shown.segments
    OBVIOUS
  <1>2. /\ LinesOf(prices, n) /\ n > 0 /\ segs = buildSegments(prices)
        /\ a.shown.coverage = computeCoverage(prices)
        /\ a.before.net = SumOf([i \in DOMAIN prices |-> prices[i].price])
    BY <1>1 DEF AnswerOf
  <1>3. /\ DOMAIN segs = Keys(prices)
        /\ SumOf([k \in DOMAIN segs |-> segs[k].total])
             = SumOf([i \in DOMAIN prices |-> prices[i].price])
        /\ SumOf([k \in DOMAIN segs |-> segs[k].units]) = n
    BY <1>2, LinesAddUp
  <1>4. \A k \in DOMAIN segs : segs[k].total = segs[k].units * segs[k].unit
    <2>1. ASSUME NEW k \in Keys(prices) PROVE segs[k].total = segs[k].units * segs[k].unit
      BY <1>2, LineIs
    <2> QED BY <1>3, <2>1
  <1>5. a.shown.coverage = IF \A k \in DOMAIN segs : ~segs[k].promo THEN "NONE"
                           ELSE IF \A k \in DOMAIN segs : segs[k].promo THEN "FULL"
                           ELSE "PARTIAL"
    BY <1>2, CoverageShown
  <1>6. a.shown.savings = a.shown.compareAt - a.paid.total
    <2>1. PICK c, d, wanted, balance :
             c = a.before /\ d = a.paid /\ wanted = q.credits /\ balance = q.balance
      OBVIOUS
    <2>2. CostKnown(c) /\ PaidKnown(d, subtotalBeforeDiscounts(c), wanted, balance)
      BY <2>1 DEF AnswerOf
    <2>3. compareAtTotal(c) \in Nat /\ d.total \in Nat /\ d.total <= compareAtTotal(c)
      BY <2>2, NeverDearer
    <2>4. PICK x \in Nat, y \in Nat : x = compareAtTotal(c) /\ y = d.total /\ y <= x
      BY <2>3
    <2>5. a.shown.compareAt = x /\ a.shown.savings = AtLeast(0, x - y)
      BY <2>1, <2>4 DEF AnswerOf
    <2>6. AtLeast(0, x - y) = x - y
      BY <2>4 DEF AtLeast
    <2> QED BY <2>1, <2>4, <2>5, <2>6
  <1> QED BY <1>1, <1>2, <1>3, <1>4, <1>5, <1>6

(* A preview's answer is a right one.                                       *)
LEMMA PreviewIsRight ==
    ASSUME pask \in PQuotes, preview
    PROVE  PriceRight' /\ pask' \in PQuotes
  <1>1. PICK q : q = pask
    OBVIOUS
  <1>2. Asked(q)
    BY <1>1, AllAsked
  <1>3. AnswerOf(q, pans') /\ pask' = q
    BY <1>1, <1>2, PreviewAnswers
  <1>4. PICK a : a = pans' /\ AnswerOf(q, a)
    BY <1>3
  <1>5. QuoteTypeOK'
    BY <1>3, <1>4, AnswerTyped DEF QuoteTypeOK, getRateForBookingType
  <1>6. BestPromotionApplied'
    BY <1>3, <1>4, AnswerBest
  <1>7. MoneyConserved'
    BY <1>4, AnswerConserves DEF MoneyConserved
  <1>8. StillPayable'
    <2>1. PaidKnown(a.paid, subtotalBeforeDiscounts(a.before), q.credits, q.balance)
      BY <1>4 DEF AnswerOf
    <2>2. Naira <= a.paid.after /\ a.paid.after \in Nat
          /\ a.paid.credits <= AtMost(q.credits, q.balance)
      BY <2>1 DEF PaidKnown
    <2>3. a.paid.after >= Naira
      BY <2>2, PriceAssumption
    <2> QED BY <1>3, <1>4, <2>2, <2>3 DEF StillPayable
  <1>9. SegmentsAddUp'
    BY <1>3, <1>4, AnswerAddsUp DEF SegmentsAddUp
  <1> QED BY <1>1, <1>3, <1>5, <1>6, <1>7, <1>8, <1>9 DEF PriceRight

(***************************************************************************)
(* Every price is made of the best promotions, is shared out without loss, *)
(* leaves at least a naira to pay, and is the sum of the lines shown for   *)
(* it, whatever the legs, the promotions, the rates and the discounts are  *)
(* (BookingCalculationService, PromotionService and                        *)
(* BookingPricingPreviewService).                                          *)
(***************************************************************************)
THEOREM PriceStaysRight == QuoteSpec => []PriceRight
  <1> DEFINE Inv == pask \in PQuotes /\ PriceRight
  <1>1. QuoteInit => Inv
    BY DEF QuoteInit, PriceRight, QuoteTypeOK, BestPromotionApplied, MoneyConserved,
           StillPayable, SegmentsAddUp, Priced
  <1>2. Inv /\ [QuoteNext]_quoteVars => Inv'
    <2>1. ASSUME Inv, preview PROVE Inv'
      BY <2>1, PreviewIsRight
    <2>2. ASSUME Inv, UNCHANGED quoteVars PROVE Inv'
      <3>1. pask' = pask /\ pans' = pans
        BY <2>2 DEF quoteVars
      <3>2. QuoteTypeOK'
        BY <2>2, <3>1 DEF PriceRight, QuoteTypeOK, Priced
      <3>3. BestPromotionApplied'
        <4>1. PICK q, a : q = pask /\ q = pask' /\ a = pans /\ a = pans'
          BY <3>1
        <4>2. ASSUME NEW i
              PROVE  /\ EligiblePromos(pask.legs[i]) = ForLeg(q, q.legs[i])
                     /\ EligiblePromos(pask.legs[i])' = ForLeg(q, q.legs[i])
          BY <4>1 DEF EligiblePromos, ForLeg
        <4>3. BestPromotionApplied
          BY <2>2 DEF PriceRight
        <4> QED BY <4>1, <4>2, <4>3 DEF BestPromotionApplied, Priced, Unpriced
      <3>4. MoneyConserved'
        BY <2>2, <3>1 DEF PriceRight, MoneyConserved, Priced
      <3>5. StillPayable'
        BY <2>2, <3>1 DEF PriceRight, StillPayable, Priced
      <3>6. SegmentsAddUp'
        BY <2>2, <3>1 DEF PriceRight, SegmentsAddUp, Priced
      <3> QED BY <2>2, <3>1, <3>2, <3>3, <3>4, <3>5, <3>6 DEF PriceRight
    <2> QED BY <2>1, <2>2 DEF QuoteNext
  <1> QED BY <1>1, <1>2, PTL DEF QuoteSpec

=============================================================================
