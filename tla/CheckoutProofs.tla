--------------------------- MODULE CheckoutProofs ---------------------------
(***************************************************************************)
(* TLAPS proofs about Checkout, for any number of calls, handlers, retries *)
(* and faults.                                                             *)
(*                                                                         *)
(* A cancelled reservation was not paid because three clocks agree: a call *)
(* reaches its checkpoint before the reservation it made can expire        *)
(* (ClockInv), whoever has a link has one that closes no later than the    *)
(* reservation expires (LinkInv, IdemInv), and a handler that found no     *)
(* payment for an expired reservation still finds none when it cancels     *)
(* (TaskInv).  IdInv says that ids of claims are never given out twice.    *)
(***************************************************************************)
EXTENDS Checkout, FiniteSetTheorems, TLAPS

(* A call that has made a booking and not answered yet.                     *)
Dealing(c) == call[c].pc \in {"post", "checkpoint", "complete"}

(* Its claim and its booking are its own.                                   *)
IdInv ==
    /\ idem.id <= idem.last
    /\ \A c \in Callers : call[c].id <= idem.last /\ (call[c].pc = "create" => call[c].id # 0)
    /\ \A c \in Callers : Dealing(c) =>
          /\ call[c].id # 0
          /\ call[c].booking \in Bookings
          /\ booking[call[c].booking].status # "NONE"
          /\ idem.id = call[c].id => idem.booking = call[c].booking
    /\ \A c, d \in Callers :
          Dealing(c) /\ Dealing(d) /\ call[c].booking = call[d].booking => c = d
    /\ idem.booking # 0 => booking[idem.booking].status # "NONE"
    /\ idem.id = 0 => idem.booking = 0

(* A link is made once, and whoever has it cannot use it after the          *)
(* reservation has expired.                                                 *)
LinkInv ==
    /\ \A b \in Bookings :
          /\ link[b].posts <= 1
          /\ booking[b].status = "NONE" => link[b].posts = 0
          /\ link[b].sent => link[b].posts = 1 /\ link[b].left <= booking[b].left
    /\ \A c \in Callers :
          /\ call[c].pc = "post" => link[call[c].booking].posts = 0
          /\ call[c].pc \in {"checkpoint", "complete"} => link[call[c].booking].posts = 1
          /\ call[c].pc = "complete" =>
                link[call[c].booking].left <= booking[call[c].booking].left

(* The same of the link in a stored answer.                                 *)
IdemInv ==
    idem.response \/ idem.state = "COMPLETED" =>
        /\ idem.booking # 0
        /\ link[idem.booking].posts = 1
        /\ link[idem.booking].left <= booking[idem.booking].left

(* A call that is still paying is younger than its reservation's session.   *)
ClockInv ==
    \A c \in Callers :
        /\ call[c].pc \in {"idle", "claim", "create"} => call[c].time = 0
        /\ Paying(c) => Session <= booking[call[c].booking].left + call[c].time

Uncharged(b) == charge[b].status \in {"NONE", "FAILED"}

(* What a handler found out still holds.                                    *)
TaskOK(h) ==
    /\ task[h].pc # "idle" => task[h].booking \in Bookings
    /\ task[h].pc \in {"lookup", "cancel"} =>
          /\ booking[task[h].booking].status # "NONE"
          /\ booking[task[h].booking].left = 0
    /\ task[h].pc = "cancel" => Uncharged(task[h].booking)
    /\ task[h].pc = "record" /\ task[h].verdict = "SUCCESSFUL" =>
          charge[task[h].booking].status = "SUCCESSFUL"
    /\ task[h].pc = "confirm" => charge[task[h].booking].status = "SUCCESSFUL"

TaskInv == \A h \in Handlers : TaskOK(h)

(* A cancelled reservation has expired and is not paid; a recorded payment  *)
(* was made.                                                                *)
MoneyInv ==
    \A b \in Bookings :
        /\ booking[b].status = "CANCELLED" => booking[b].left = 0 /\ Uncharged(b)
        /\ payment[b] = "SUCCESSFUL" => charge[b].status = "SUCCESSFUL"
        /\ booking[b].status = "CONFIRMED" => charge[b].status = "SUCCESSFUL"

Created == {b \in Bookings : booking[b].status # "NONE"}

(* The row without a booking has not been counted yet.                      *)
KeyInv == Cardinality(Created) <= cleanups + (IF idem.booking = 0 THEN 0 ELSE 1)

CheckoutInv ==
    TypeOK /\ IdInv /\ LinkInv /\ IdemInv /\ ClockInv /\ TaskInv /\ MoneyInv /\ KeyInv

-----------------------------------------------------------------------------
(* What a step may do without touching a booking, a link or a call that     *)
(* deals with one.                                                          *)

(* The row is the same one, with no answer it did not have before ...       *)
SameIds == idem'.id = idem.id /\ idem'.last = idem.last /\ idem'.booking = idem.booking

SameRow ==
    /\ SameIds
    /\ idem'.response \/ idem'.state = "COMPLETED" =>
          idem.response \/ idem.state = "COMPLETED"

(* ... or it is deleted or new.                                             *)
FreshRow ==
    /\ idem'.id \in {0, idem.last + 1} /\ idem'.id <= idem'.last
    /\ idem'.last \in Nat /\ idem.last <= idem'.last
    /\ idem'.booking = 0 /\ ~idem'.response /\ idem'.state = "PROCESSING"

(* The call keeps its claim and its booking as long as it deals with one,  *)
(* and starts no such dealing.                                              *)
Tracks(d) ==
    /\ call'[d].id <= idem'.last
    /\ call'[d].pc = "create" => call'[d].id # 0
    /\ Dealing(d)' => Dealing(d) /\ call'[d].id = call[d].id /\ call'[d].booking = call[d].booking

(* The call does what it did, or is not, or no longer, about a booking.     *)
Aside(d) ==
    \/ call'[d] = call[d]
    \/ /\ call'[d].pc \in {"idle", "claim", "create", "release"}
       /\ call'[d].id <= idem'.last
       /\ call'[d].pc = "create" => call'[d].id # 0
       /\ call'[d].pc # "release" => call'[d].time = 0

(* The numbers a step compares.                                             *)
Numbers ==
    /\ {idem.id, idem.last, idem.booking, idem.age} \subseteq Nat
    /\ idem.booking # 0 => idem.booking \in Bookings
    /\ \A b \in Bookings :
          {booking[b].left, link[b].left, link[b].posts, charge[b].tries} \subseteq Nat
    /\ \A c \in Callers :
          {call[c].id, call[c].booking, call[c].attempt, call[c].time} \subseteq Nat

(* What the types say of the clocks and counters.                           *)
LEMMA TypedNumbers == ASSUME TypeOK PROVE Numbers
<1>1. /\ {idem.id, idem.last, idem.booking, idem.age} \subseteq Nat
      /\ idem.booking # 0 => idem.booking \in Bookings
  BY CheckoutAssumption DEF CheckoutAssumption, TypeOK, IdemRows, Bookings
<1>2. ASSUME NEW b \in Bookings
      PROVE  {booking[b].left, link[b].left, link[b].posts, charge[b].tries} \subseteq Nat
  BY CheckoutAssumption DEF CheckoutAssumption, TypeOK, BookingRows, Links, Charges
<1>3. ASSUME NEW c \in Callers
      PROVE  {call[c].id, call[c].booking, call[c].attempt, call[c].time} \subseteq Nat
  BY CheckoutAssumption DEF CheckoutAssumption, TypeOK, CallStates
<1> QED BY <1>1, <1>2, <1>3 DEF Numbers

(* A step that makes no new claim but a fresh one keeps the ids in order.   *)
LEMMA TracksKeeps ==
    ASSUME CheckoutInv, SameIds \/ FreshRow, \A d \in Callers : Tracks(d),
           \A b \in Bookings : booking[b].status # "NONE" => booking'[b].status # "NONE"
    PROVE  IdInv'
<1>0. Numbers BY TypedNumbers DEF CheckoutInv
<1>1. idem'.id <= idem'.last /\ (idem'.id = 0 => idem'.booking = 0)
  BY <1>0 DEF CheckoutInv, IdInv, SameIds, FreshRow, Numbers
<1>2. idem'.booking # 0 => booking'[idem'.booking].status # "NONE"
  BY <1>0 DEF CheckoutInv, IdInv, SameIds, FreshRow, Numbers
<1>3. \A d \in Callers : Dealing(d) /\ idem'.id = call[d].id => SameIds
  BY <1>0 DEF CheckoutInv, IdInv, FreshRow, Numbers
<1> QED BY <1>1, <1>2, <1>3 DEF CheckoutInv, IdInv, SameIds, Tracks

(* A step of a call that touches neither bookings nor links keeps the four  *)
(* parts.                                                                   *)
LEMMA AsideKeeps ==
    ASSUME CheckoutInv, UNCHANGED <<booking, link>>, SameRow \/ FreshRow,
           \A d \in Callers : Aside(d)
    PROVE  IdInv' /\ LinkInv' /\ IdemInv' /\ ClockInv'
<1>0. Numbers BY TypedNumbers DEF CheckoutInv
<1>1. IdInv'
  <2>1. idem.last <= idem'.last /\ idem'.last \in Nat
    BY <1>0 DEF SameRow, SameIds, FreshRow, Numbers
  <2>2. \A d \in Callers : Tracks(d)
    BY <1>0, <2>1 DEF CheckoutInv, IdInv, Dealing, Aside, Tracks, Numbers
  <2> QED BY <2>2, TracksKeeps DEF SameRow
<1>2. LinkInv'
  BY DEF CheckoutInv, LinkInv, Aside
<1>3. IdemInv'
  BY DEF CheckoutInv, IdemInv, SameRow, SameIds, FreshRow
<1>4. ClockInv'
  BY DEF CheckoutInv, ClockInv, Paying, Aside
<1> QED BY <1>1, <1>2, <1>3, <1>4

(* A step that leaves bookings, charges and handlers alone.                 *)
LEMMA MoneyAside ==
    ASSUME CheckoutInv, UNCHANGED <<booking, payment, charge, task>>
    PROVE  TaskInv' /\ MoneyInv' /\ Created' = Created
  BY DEF CheckoutInv, TaskInv, TaskOK, MoneyInv, Uncharged, Created

(* The bookings made are finitely many.                                     *)
LEMMA CreatedFinite == IsFiniteSet(Created) /\ Cardinality(Created) \in Nat
<1>1. IsFiniteSet(Bookings) BY CheckoutAssumption, FS_Interval DEF CheckoutAssumption, Bookings
<1>2. Created \subseteq Bookings BY DEF Created
<1> QED BY <1>1, <1>2, FS_Subset, FS_CardinalityType

(* A new row is of an age.                                                  *)
LEMMA ZeroAge == 0 \in 0..Retention
  BY CheckoutAssumption DEF CheckoutAssumption

-----------------------------------------------------------------------------
(* The steps of a call that leave bookings and links alone.                 *)

(* GoTo and Ends change one call, and only where it stands.                 *)
LEMMA GoToKeeps ==
    ASSUME TypeOK, NEW c \in Callers, NEW pc, GoTo(c, pc),
           pc \in {"idle", "claim", "create", "post", "checkpoint", "complete", "release"}
    PROVE  /\ call' \in [Callers -> CallStates]
           /\ call'[c].pc = pc /\ call'[c].id = call[c].id
           /\ call'[c].booking = call[c].booking /\ call'[c].time = call[c].time
           /\ \A d \in Callers : d # c => call'[d] = call[d]
  BY DEF TypeOK, GoTo, CallStates

(* A call that ends becomes idle and leaves the others alone.               *)
LEMMA EndsKeeps ==
    ASSUME TypeOK, NEW c \in Callers, Ends(c)
    PROVE  /\ call' \in [Callers -> CallStates]
           /\ call'[c] = IdleCall
           /\ \A d \in Callers : d # c => call'[d] = call[d]
<1>1. IdleCall \in CallStates
  BY CheckoutAssumption DEF CheckoutAssumption, IdleCall, CallStates
<1> QED BY <1>1 DEF TypeOK, Ends

(* A deleted row is a fresh one.                                            *)
LEMMA DeletedIsFresh ==
    ASSUME TypeOK, idem' = DeletedRow
    PROVE  idem' \in IdemRows /\ FreshRow
<1>1. idem.last \in 0..MaxClaims BY DEF TypeOK, IdemRows
<1>2. idem' = [id |-> 0, last |-> idem.last, state |-> "PROCESSING", booking |-> 0,
               response |-> FALSE, age |-> 0]
  BY DEF DeletedRow, NoIdem
<1>3. idem' \in IdemRows
  BY <1>1, <1>2, CheckoutAssumption DEF CheckoutAssumption, IdemRows
<1>4. FreshRow BY <1>1, <1>2, CheckoutAssumption DEF CheckoutAssumption, FreshRow
<1> QED BY <1>3, <1>4

(* A call that only moves on or ends, with the row as it is.                *)
LEMMA MovesOn ==
    ASSUME CheckoutInv, NEW c \in Callers,
           UNCHANGED <<booking, payment, link, charge, task, cleanups>>,
           faults' \in 0..MaxFaults,
           \/ Ends(c)
           \/ GoTo(c, "release")
           \/ GoTo(c, "claim") /\ call[c].pc = "idle",
           idem' \in IdemRows, SameRow \/ (FreshRow /\ idem.booking = 0)
    PROVE  CheckoutInv'
<1>1. TypeOK'
  BY GoToKeeps, EndsKeeps DEF CheckoutInv, TypeOK
<1>2. ASSUME NEW d \in Callers PROVE Aside(d)
  <2>0. Numbers BY TypedNumbers DEF CheckoutInv
  <2>1. IdleCall.id = 0 /\ IdleCall.pc = "idle" /\ IdleCall.time = 0
    BY DEF IdleCall
  <2>2. call[d].id <= idem'.last /\ 0 <= idem'.last
    BY <2>0 DEF CheckoutInv, IdInv, SameRow, SameIds, FreshRow, Numbers
  <2>3. call[c].pc = "idle" => call[c].time = 0
    BY DEF CheckoutInv, ClockInv
  <2>4. TypeOK BY DEF CheckoutInv
  <2>5. CASE Ends(c) BY <2>1, <2>2, <2>4, <2>5, EndsKeeps DEF Aside
  <2>6. CASE GoTo(c, "release") BY <2>2, <2>4, <2>6, GoToKeeps DEF Aside
  <2>7. CASE GoTo(c, "claim") /\ call[c].pc = "idle"
    BY <2>2, <2>3, <2>4, <2>7, GoToKeeps DEF Aside
  <2> QED BY <2>5, <2>6, <2>7
<1>3. IdInv' /\ LinkInv' /\ IdemInv' /\ ClockInv' BY <1>2, AsideKeeps
<1>4. TaskInv' /\ MoneyInv' /\ Created' = Created BY MoneyAside
<1>5. KeyInv' BY <1>4 DEF CheckoutInv, KeyInv, SameRow, SameIds, FreshRow
<1> QED BY <1>1, <1>3, <1>4, <1>5 DEF CheckoutInv

(* The steps of a call that touch neither bookings nor links keep the       *)
(* invariant.                                                               *)
LEMMA StepsAside ==
    ASSUME CheckoutInv, NEW c \in Callers,
           \/ StartCall(c) \/ ClaimInProgress(c) \/ ResumeClaim(c) \/ CreationFails(c)
           \/ releaseIdempotencyClaim(c) \/ PaymentIntentFailed(c)
           \/ SyncFails(c) \/ CrashCaller(c)
    PROVE  CheckoutInv'
<1> USE DEF StartCall, ClaimInProgress, ResumeClaim, resumeBookingPayment, CreationFails,
            releaseIdempotencyClaim, PaymentIntentFailed, SyncFails, CrashCaller
<1>0. TypeOK /\ idem \in IdemRows /\ faults \in 0..MaxFaults /\ MaxFaults \in Nat
  BY CheckoutAssumption DEF CheckoutAssumption, CheckoutInv, TypeOK
<1>1. UNCHANGED <<booking, payment, link, charge, task, cleanups>> OBVIOUS
<1>2. faults' \in 0..MaxFaults BY <1>0 DEF Fault
<1>3. \/ Ends(c)
      \/ GoTo(c, "release")
      \/ GoTo(c, "claim") /\ call[c].pc = "idle"
  OBVIOUS
<1>4. \/ UNCHANGED idem
      \/ idem' = [idem EXCEPT !.age = 0]
      \/ idem' = DeletedRow /\ idem.booking = 0
  BY DEF MayAttach
<1>5. idem' = [idem EXCEPT !.age = 0] => idem' \in IdemRows /\ SameRow
  BY <1>0, CheckoutAssumption DEF CheckoutAssumption, IdemRows, SameRow, SameIds
<1>6. UNCHANGED idem => idem' \in IdemRows /\ SameRow BY <1>0 DEF SameRow, SameIds
<1>7. idem' = DeletedRow => idem' \in IdemRows /\ FreshRow BY <1>0, DeletedIsFresh
<1> HIDE DEF StartCall, ClaimInProgress, ResumeClaim, resumeBookingPayment, CreationFails,
             releaseIdempotencyClaim, PaymentIntentFailed, SyncFails, CrashCaller
<1>8. idem' \in IdemRows /\ (SameRow \/ (FreshRow /\ idem.booking = 0))
  BY <1>4, <1>5, <1>6, <1>7
<1> QED BY <1>1, <1>2, <1>3, <1>8, MovesOn

(* A claim that deletes an abandoned row and tries again, or gives up.      *)
LEMMA TakeOverStep ==
    ASSUME CheckoutInv, NEW c \in Callers, TakeOver(c)
    PROVE  CheckoutInv'
<1>0. TypeOK /\ Numbers BY TypedNumbers DEF CheckoutInv
<1>1. idem' \in IdemRows /\ FreshRow /\ idem.booking = 0
  BY <1>0, DeletedIsFresh DEF TakeOver
<1>2. CASE call[c].attempt < Attempts
  <2>1. call' = [call EXCEPT ![c] = [call[c] EXCEPT !.attempt = call[c].attempt + 1]]
    BY <1>2 DEF TakeOver
  <2>2. call' \in [Callers -> CallStates]
    BY <1>0, <1>2, <2>1, CheckoutAssumption DEF CheckoutAssumption, TypeOK, CallStates, Numbers
  <2>3. /\ call'[c].pc = "claim" /\ call'[c].id = call[c].id /\ call'[c].time = call[c].time
        /\ \A d \in Callers : d # c => call'[d] = call[d]
    BY <1>0, <2>1 DEF TakeOver, TypeOK, CallStates
  <2>4. call[c].time = 0 /\ call[c].id <= idem.last
    BY DEF CheckoutInv, ClockInv, IdInv, TakeOver
  <2>5. \A d \in Callers : Aside(d)
    BY <1>0, <1>1, <2>3, <2>4 DEF Aside, FreshRow, Numbers
  <2>6. TypeOK' BY <1>0, <1>1, <2>2 DEF TakeOver, TypeOK
  <2>7. UNCHANGED <<booking, payment, link, charge, task, cleanups>> BY DEF TakeOver
  <2>8. IdInv' /\ LinkInv' /\ IdemInv' /\ ClockInv' BY <1>1, <2>5, <2>7, AsideKeeps
  <2>9. TaskInv' /\ MoneyInv' /\ Created' = Created BY <2>7, MoneyAside
  <2>10. KeyInv' BY <1>1, <2>7, <2>9 DEF CheckoutInv, KeyInv, FreshRow
  <2> QED BY <2>6, <2>8, <2>9, <2>10 DEF CheckoutInv
<1>3. CASE ~(call[c].attempt < Attempts)
  <2>1. Ends(c) BY <1>3 DEF TakeOver, Ends
  <2>2. faults' \in 0..MaxFaults BY <1>0 DEF TakeOver, TypeOK
  <2> QED BY <1>1, <2>1, <2>2, MovesOn DEF TakeOver
<1> QED BY <1>2, <1>3

(* A claim that creates the row.                                            *)
LEMMA ClaimKeyStep ==
    ASSUME CheckoutInv, NEW c \in Callers, ClaimKey(c)
    PROVE  CheckoutInv'
<1>0. TypeOK /\ Numbers BY TypedNumbers DEF CheckoutInv
<1>1. idem' = [id |-> idem.last + 1, last |-> idem.last + 1, state |-> "PROCESSING",
               booking |-> 0, response |-> FALSE, age |-> 0]
  BY DEF ClaimKey, NoIdem
<1>2. idem' \in IdemRows
  <2>1. idem.last + 1 \in 0..MaxClaims
    BY <1>0, CheckoutAssumption DEF CheckoutAssumption, ClaimKey, Numbers
  <2> QED BY <1>1, <2>1, CheckoutAssumption DEF CheckoutAssumption, IdemRows
<1>3. FreshRow BY <1>0, <1>1 DEF FreshRow, Numbers
<1>4. call' \in [Callers -> CallStates]
  <2>1. idem.last + 1 \in 0..MaxClaims
    BY <1>0, CheckoutAssumption DEF CheckoutAssumption, ClaimKey, Numbers
  <2>2. call' = [call EXCEPT ![c].pc = "create", ![c].id = idem.last + 1] BY DEF ClaimKey
  <2> QED BY <1>0, <2>1, <2>2 DEF TypeOK, CallStates
<1>5. /\ call'[c].pc = "create" /\ call'[c].id = idem.last + 1 /\ call'[c].time = call[c].time
      /\ \A d \in Callers : d # c => call'[d] = call[d]
  BY <1>0 DEF TypeOK, CallStates, ClaimKey
<1>6. call[c].time = 0 BY DEF CheckoutInv, ClockInv, ClaimKey
<1>7. \A d \in Callers : Aside(d) BY <1>0, <1>1, <1>5, <1>6 DEF Aside, Numbers
<1>8. TypeOK' BY <1>0, <1>2, <1>4 DEF ClaimKey, TypeOK
<1>9. UNCHANGED <<booking, payment, link, charge, task, cleanups>> BY DEF ClaimKey
<1>10. IdInv' /\ LinkInv' /\ IdemInv' /\ ClockInv' BY <1>3, <1>7, <1>9, AsideKeeps
<1>11. TaskInv' /\ MoneyInv' /\ Created' = Created BY <1>9, MoneyAside
<1>12. idem.booking = 0 BY DEF CheckoutInv, IdInv, ClaimKey
<1>13. KeyInv' BY <1>1, <1>9, <1>11, <1>12 DEF CheckoutInv, KeyInv
<1> QED BY <1>8, <1>10, <1>11, <1>13 DEF CheckoutInv

(* The job in the night counts the row it deletes.                          *)
LEMMA CleanupStep ==
    ASSUME CheckoutInv, cleanupExpiredRecords
    PROVE  CheckoutInv'
<1>0. TypeOK BY DEF CheckoutInv
<1>1. idem' \in IdemRows /\ FreshRow BY <1>0, DeletedIsFresh DEF cleanupExpiredRecords
<1>2. \A d \in Callers : Aside(d) BY DEF Aside, cleanupExpiredRecords
<1>3. TypeOK' BY <1>0, <1>1 DEF cleanupExpiredRecords, TypeOK
<1>4. IdInv' /\ LinkInv' /\ IdemInv' /\ ClockInv'
  BY <1>1, <1>2, AsideKeeps DEF cleanupExpiredRecords
<1>5. TaskInv' /\ MoneyInv' /\ Created' = Created BY MoneyAside DEF cleanupExpiredRecords
<1>6. Cardinality(Created) \in Nat BY CreatedFinite
<1>7. KeyInv'
  BY <1>0, <1>1, <1>5, <1>6 DEF CheckoutInv, KeyInv, FreshRow, cleanupExpiredRecords, TypeOK
<1> QED BY <1>3, <1>4, <1>5, <1>7 DEF CheckoutInv

-----------------------------------------------------------------------------
(* The steps of a call that deal with a booking or a link.                  *)

(* The answer with the link of b, to the call that made it or to a later    *)
(* one.                                                                     *)
LEMMA AnswerStep ==
    ASSUME CheckoutInv, NEW c \in Callers, NEW b \in Bookings,
           idem' = Completed, Sends(b), Ends(c), idem.booking = b,
           link[b].posts = 1, link[b].left <= booking[b].left,
           UNCHANGED <<booking, payment, charge, task, cleanups, faults>>
    PROVE  CheckoutInv'
<1>0. TypeOK /\ Numbers BY TypedNumbers DEF CheckoutInv
<1>1. idem' \in IdemRows /\ SameIds
  <2>1. idem \in IdemRows BY <1>0 DEF TypeOK
  <2>2. [idem EXCEPT !.state = "COMPLETED", !.age = 0] \in IdemRows
    BY <2>1, ZeroAge DEF IdemRows
  <2> QED BY <2>1, <2>2 DEF Completed, SameIds, IdemRows
<1>2. /\ call' \in [Callers -> CallStates]
      /\ call'[c].pc = "idle" /\ call'[c].id = 0 /\ call'[c].time = 0
      /\ \A d \in Callers : d # c => call'[d] = call[d]
  BY <1>0, EndsKeeps DEF IdleCall
<1>3. /\ link' \in [Bookings -> Links]
      /\ \A a \in Bookings : /\ link'[a].posts = link[a].posts /\ link'[a].left = link[a].left
                             /\ link'[a].sent => link[a].sent \/ a = b
  BY <1>0 DEF TypeOK, Links, Sends
<1>4. TypeOK' BY <1>0, <1>1, <1>2, <1>3 DEF TypeOK
<1>5. IdInv'
  <2>1. \A d \in Callers : Tracks(d)
    BY <1>0, <1>1, <1>2 DEF CheckoutInv, IdInv, Tracks, Dealing, SameIds, Numbers
  <2> QED BY <1>1, <2>1, TracksKeeps
<1>6. LinkInv'
  <2>1. \A d \in Callers : call'[d].pc \in {"post", "checkpoint", "complete"} =>
                               call'[d] = call[d] /\ call[d].booking \in Bookings
    BY <1>2 DEF CheckoutInv, IdInv, Dealing
  <2> QED BY <1>3, <2>1 DEF CheckoutInv, LinkInv
<1>7. IdemInv' BY <1>0, <1>1, <1>3 DEF IdemInv, SameIds, Bookings
<1>8. ClockInv' BY <1>2 DEF CheckoutInv, ClockInv, Paying
<1>9. TaskInv' /\ MoneyInv' /\ Created' = Created BY MoneyAside
<1>10. KeyInv' BY <1>1, <1>9 DEF CheckoutInv, KeyInv, SameIds
<1> QED BY <1>4, <1>5, <1>6, <1>7, <1>8, <1>9, <1>10 DEF CheckoutInv

(* So does a call that is answered from the row.                            *)
LEMMA ReplayStep ==
    ASSUME CheckoutInv, NEW c \in Callers, Replay(c)
    PROVE  CheckoutInv'
<1>1. /\ idem.booking \in Bookings
      /\ link[idem.booking].posts = 1
      /\ link[idem.booking].left <= booking[idem.booking].left
  BY TypedNumbers DEF CheckoutInv, IdemInv, Numbers, Replay
<1> QED BY <1>1, AnswerStep DEF Replay

(* So does completing the row with the link.                                *)
LEMMA CompleteStep ==
    ASSUME CheckoutInv, NEW c \in Callers, complete(c)
    PROVE  CheckoutInv'
<1>0. /\ call[c].booking \in Bookings
      /\ link[call[c].booking].posts = 1
      /\ link[call[c].booking].left <= booking[call[c].booking].left
  BY DEF CheckoutInv, IdInv, LinkInv, Dealing, complete
<1>1. CASE idem.id = call[c].id
  <2>1. idem.booking = call[c].booking BY <1>1 DEF CheckoutInv, IdInv, Dealing, complete
  <2> QED BY <1>0, <1>1, <2>1, AnswerStep DEF complete
<1>2. CASE idem.id # call[c].id
  <2>1. idem' \in IdemRows /\ SameRow BY <1>2 DEF complete, CheckoutInv, TypeOK, SameRow, SameIds
  <2>2. GoTo(c, "release") /\ UNCHANGED <<booking, payment, link, charge, task, cleanups>>
    BY <1>2 DEF complete
  <2>3. faults' \in 0..MaxFaults BY DEF complete, CheckoutInv, TypeOK
  <2> QED BY <2>1, <2>2, <2>3, MovesOn
<1> QED BY <1>1, <1>2

(* The link is the booking's first, and nobody has it yet.                  *)
LEMMA PostStep ==
    ASSUME CheckoutInv, NEW c \in Callers, createPaymentIntent(c)
    PROVE  CheckoutInv'
<1> DEFINE b == call[c].booking
<1>0. TypeOK /\ Numbers BY TypedNumbers DEF CheckoutInv
<1>1. b \in Bookings /\ link[b].posts = 0 /\ booking[b].status # "NONE"
  BY DEF CheckoutInv, IdInv, LinkInv, Dealing, createPaymentIntent
<1>2. /\ link' \in [Bookings -> Links]
      /\ link'[b].posts = 1 /\ link'[b].sent = link[b].sent
      /\ \A a \in Bookings : a # b => link'[a] = link[a]
  BY <1>0, <1>1, CheckoutAssumption
     DEF CheckoutAssumption, TypeOK, Links, createPaymentIntent, Numbers
<1>3. /\ call' \in [Callers -> CallStates]
      /\ call'[c].pc \in {"checkpoint", "release"} /\ call'[c].id = call[c].id
      /\ call'[c].booking = b /\ call'[c].time = call[c].time
      /\ \A d \in Callers : d # c => call'[d] = call[d]
  <2>1. GoTo(c, "checkpoint") \/ GoTo(c, "release") BY DEF createPaymentIntent
  <2> QED BY <1>0, <2>1, GoToKeeps
<1>4. faults' \in 0..MaxFaults
  BY <1>0, CheckoutAssumption DEF CheckoutAssumption, TypeOK, createPaymentIntent, Fault
<1>5. UNCHANGED <<idem, booking, payment, charge, task, cleanups>> BY DEF createPaymentIntent
<1>6. call[c].pc = "post" BY DEF createPaymentIntent
<1>7. TypeOK' BY <1>0, <1>2, <1>3, <1>4, <1>5 DEF TypeOK
<1>8. IdInv'
  <2>1. \A d \in Callers : Tracks(d)
    BY <1>3, <1>5, <1>6 DEF CheckoutInv, IdInv, Tracks, Dealing
  <2> QED BY <1>5, <2>1, TracksKeeps DEF SameIds
<1>9. \A d \in Callers : Dealing(d)' /\ d # c =>
          Dealing(d) /\ call'[d] = call[d] /\ call[d].booking \in Bookings \ {b}
  BY <1>1, <1>3, <1>6 DEF CheckoutInv, IdInv, Dealing
<1>10. LinkInv'
  <2>1. ~link[b].sent BY <1>1 DEF CheckoutInv, LinkInv
  <2>2. ASSUME NEW a \in Bookings
        PROVE  /\ link'[a].posts <= 1
               /\ booking'[a].status = "NONE" => link'[a].posts = 0
               /\ link'[a].sent => link'[a].posts = 1 /\ link'[a].left <= booking'[a].left
    BY <1>1, <1>2, <1>5, <2>1 DEF CheckoutInv, LinkInv
  <2>3. ASSUME NEW d \in Callers
        PROVE  /\ call'[d].pc = "post" => link'[call'[d].booking].posts = 0
               /\ call'[d].pc \in {"checkpoint", "complete"} =>
                      link'[call'[d].booking].posts = 1
               /\ call'[d].pc = "complete" =>
                      link'[call'[d].booking].left <= booking'[call'[d].booking].left
    <3>1. CASE d = c BY <1>2, <1>3, <3>1
    <3>2. CASE d # c BY <1>2, <1>5, <1>9, <3>2 DEF CheckoutInv, LinkInv, Dealing
    <3> QED BY <3>1, <3>2
  <2> QED BY <2>2, <2>3 DEF LinkInv
<1>11. IdemInv'
  <2>1. idem.response \/ idem.state = "COMPLETED" => idem.booking \in Bookings \ {b}
    BY <1>0, <1>1 DEF CheckoutInv, IdemInv, Numbers
  <2> QED BY <1>2, <1>5, <2>1 DEF CheckoutInv, IdemInv
<1>12. ClockInv' BY <1>3, <1>5, <1>6 DEF CheckoutInv, ClockInv, Paying
<1>13. TaskInv' /\ MoneyInv' /\ Created' = Created BY <1>5, MoneyAside
<1>14. KeyInv' BY <1>5, <1>13 DEF CheckoutInv, KeyInv
<1> QED BY <1>7, <1>8, <1>10, <1>11, <1>12, <1>13, <1>14 DEF CheckoutInv

(* The checkpoint sets the end of the session; the reservation has not      *)
(* expired, so that no handler counts on it.                                *)
LEMMA CheckpointStep ==
    ASSUME CheckoutInv, NEW c \in Callers, checkpointPaymentResult(c)
    PROVE  CheckoutInv'
<1> DEFINE b == call[c].booking
<1>0. TypeOK /\ Numbers BY TypedNumbers DEF CheckoutInv
<1>1. call[c].pc = "checkpoint" /\ b \in Bookings /\ link[b].posts = 1
  BY DEF CheckoutInv, IdInv, LinkInv, Dealing, checkpointPaymentResult
<1>2. CASE ~MayCheckpoint(c)
  <2>1. idem' \in IdemRows /\ SameRow
    BY <1>0, <1>2 DEF checkpointPaymentResult, TypeOK, SameRow, SameIds
  <2>2. GoTo(c, "release") /\ UNCHANGED <<booking, payment, link, charge, task, cleanups>>
    BY <1>2 DEF checkpointPaymentResult
  <2>3. faults' \in 0..MaxFaults BY <1>0 DEF checkpointPaymentResult, TypeOK
  <2> QED BY <2>1, <2>2, <2>3, MovesOn
<1>3. CASE MayCheckpoint(c)
  <2>1. idem' \in IdemRows /\ SameIds /\ idem'.booking = b
    <3>1. idem' = [idem EXCEPT !.response = TRUE, !.age = 0]
      BY <1>3 DEF checkpointPaymentResult
    <3> QED BY <1>0, <1>3, <3>1, ZeroAge DEF TypeOK, IdemRows, SameIds, MayCheckpoint
  <2>2. /\ booking' \in [Bookings -> BookingRows]
        /\ booking'[b].left = link[b].left /\ booking'[b].status = booking[b].status
        /\ \A a \in Bookings : a # b => booking'[a] = booking[a]
    <3>1. link[b].left \in 0..Session BY <1>0, <1>1 DEF TypeOK, Links
    <3>2. booking' = [booking EXCEPT ![b].left = link[b].left]
      BY <1>3 DEF checkpointPaymentResult
    <3> QED BY <1>0, <1>1, <3>1, <3>2 DEF TypeOK, BookingRows
  <2>3. /\ call' \in [Callers -> CallStates]
        /\ call'[c].pc = "complete" /\ call'[c].id = call[c].id
        /\ call'[c].booking = b /\ call'[c].time = call[c].time
        /\ \A d \in Callers : d # c => call'[d] = call[d]
    BY <1>0, <1>3, GoToKeeps DEF checkpointPaymentResult
  <2>4. UNCHANGED <<payment, link, charge, task, cleanups, faults>>
    BY DEF checkpointPaymentResult
  <2>5. TypeOK' BY <1>0, <2>1, <2>2, <2>3, <2>4 DEF TypeOK
  <2>6. IdInv'
    <3>1. \A d \in Callers : Tracks(d)
      BY <1>1, <2>1, <2>3 DEF CheckoutInv, IdInv, Tracks, Dealing, SameIds
    <3> QED BY <2>1, <2>2, <3>1, TracksKeeps
  <2>7. \A d \in Callers : Dealing(d)' /\ d # c =>
            Dealing(d) /\ call'[d] = call[d] /\ call[d].booking \in Bookings \ {b}
    BY <1>1, <2>3 DEF CheckoutInv, IdInv, Dealing
  <2>8. LinkInv'
    <3>0. link[b].left <= booking'[b].left BY <1>0, <1>1, <2>2 DEF Numbers
    <3>1. ASSUME NEW a \in Bookings
          PROVE  /\ link'[a].posts <= 1
                 /\ booking'[a].status = "NONE" => link'[a].posts = 0
                 /\ link'[a].sent => link'[a].posts = 1 /\ link'[a].left <= booking'[a].left
      BY <2>2, <2>4, <3>0 DEF CheckoutInv, LinkInv
    <3>2. ASSUME NEW d \in Callers
          PROVE  /\ call'[d].pc = "post" => link'[call'[d].booking].posts = 0
                 /\ call'[d].pc \in {"checkpoint", "complete"} =>
                        link'[call'[d].booking].posts = 1
                 /\ call'[d].pc = "complete" =>
                        link'[call'[d].booking].left <= booking'[call'[d].booking].left
      <4>1. CASE d = c BY <1>1, <2>3, <2>4, <3>0, <4>1
      <4>2. CASE d # c BY <2>2, <2>4, <2>7, <4>2 DEF CheckoutInv, LinkInv, Dealing
      <4> QED BY <4>1, <4>2
    <3> QED BY <3>1, <3>2 DEF LinkInv
  <2>9. IdemInv' BY <1>0, <1>1, <2>1, <2>2, <2>4 DEF IdemInv, Numbers, Bookings
  <2>10. ClockInv'
    BY <2>2, <2>3, <2>7 DEF CheckoutInv, ClockInv, Paying, Dealing
  <2>11. booking[b].left # 0
    BY <1>0, <1>1, CheckoutAssumption, PromptAssumption
       DEF CheckoutAssumption, PromptAssumption, CheckoutInv, ClockInv, Paying, Numbers,
           TypeOK, CallStates
  <2>12. TaskInv'
    BY <2>2, <2>4, <2>11 DEF CheckoutInv, TaskInv, TaskOK, Uncharged
  <2>13. MoneyInv'
    BY <2>2, <2>4, <2>11 DEF CheckoutInv, MoneyInv, Uncharged
  <2>14. Created' = Created BY <2>2 DEF Created
  <2>15. KeyInv' BY <2>1, <2>4, <2>14 DEF CheckoutInv, KeyInv, SameIds
  <2> QED BY <2>5, <2>6, <2>8, <2>9, <2>10, <2>12, <2>13, <2>15 DEF CheckoutInv
<1> QED BY <1>2, <1>3

(* A new booking: nobody deals with it yet, and its claim has no other.     *)
LEMMA CreateStep ==
    ASSUME CheckoutInv, NEW c \in Callers, createBookingWithPayment(c)
    PROVE  CheckoutInv'
<1>0. TypeOK /\ Numbers BY TypedNumbers DEF CheckoutInv
<1>1. PICK b \in Bookings :
        /\ NextBooking(b)
        /\ booking' = [booking EXCEPT ![b] = [status |-> "PENDING", left |-> Session]]
        /\ idem' = [idem EXCEPT !.booking = b, !.age = 0]
        /\ call' = [call EXCEPT ![c].pc = "post", ![c].booking = b]
  BY DEF createBookingWithPayment
<1>2. /\ call[c].pc = "create" /\ MayAttach(c)
      /\ UNCHANGED <<payment, link, charge, task, cleanups, faults>>
  BY DEF createBookingWithPayment
<1>3. booking[b].status = "NONE" /\ b \in Nat \ {0}
  BY <1>1, CheckoutAssumption DEF CheckoutAssumption, NextBooking, Bookings
<1>4. /\ idem' \in IdemRows
      /\ idem'.id = idem.id /\ idem'.last = idem.last /\ idem'.booking = b
      /\ idem'.response = idem.response /\ idem'.state = idem.state
  <2>1. b \in 0..MaxBookings BY DEF Bookings
  <2> QED BY <1>0, <1>1, <2>1, ZeroAge DEF TypeOK, IdemRows
<1>5. /\ booking' \in [Bookings -> BookingRows]
      /\ booking'[b].status = "PENDING" /\ booking'[b].left = Session
      /\ \A a \in Bookings : a # b => booking'[a] = booking[a]
  BY <1>0, <1>1, CheckoutAssumption DEF CheckoutAssumption, TypeOK, BookingRows
<1>6. /\ call' \in [Callers -> CallStates]
      /\ call'[c].pc = "post" /\ call'[c].id = call[c].id
      /\ call'[c].booking = b /\ call'[c].time = call[c].time
      /\ \A d \in Callers : d # c => call'[d] = call[d]
  <2>1. b \in 0..MaxBookings BY DEF Bookings
  <2> QED BY <1>0, <1>1, <2>1 DEF TypeOK, CallStates
<1>7. TypeOK' BY <1>0, <1>2, <1>4, <1>5, <1>6 DEF TypeOK
<1>8. /\ call[c].id # 0 /\ call[c].time = 0
      /\ idem.id = call[c].id /\ idem.booking = 0 /\ ~(idem.response \/ idem.state = "COMPLETED")
  BY <1>2 DEF CheckoutInv, IdInv, ClockInv, IdemInv, MayAttach
<1>9. \A d \in Callers : Dealing(d)' /\ d # c =>
          Dealing(d) /\ call'[d] = call[d] /\ call[d].booking \in Bookings \ {b}
  BY <1>3, <1>6 DEF CheckoutInv, IdInv, Dealing
<1>10. IdInv'
  <2>1. \A d \in Callers : Dealing(d) => idem.id # call[d].id
    BY <1>3, <1>8, CheckoutAssumption DEF CheckoutAssumption, CheckoutInv, IdInv, Bookings
  <2>2. idem'.id <= idem'.last /\ idem'.id # 0 /\ booking'[idem'.booking].status # "NONE"
    BY <1>4, <1>5, <1>8 DEF CheckoutInv, IdInv
  <2>3. \A d \in Callers : call'[d].id <= idem'.last /\ (call'[d].pc = "create" => call'[d].id # 0)
    BY <1>4, <1>6 DEF CheckoutInv, IdInv
  <2>4. ASSUME NEW d \in Callers, Dealing(d)'
        PROVE  /\ call'[d].id # 0 /\ call'[d].booking \in Bookings
               /\ booking'[call'[d].booking].status # "NONE"
               /\ idem'.id = call'[d].id => idem'.booking = call'[d].booking
    <3>1. CASE d = c BY <1>4, <1>5, <1>6, <1>8, <3>1
    <3>2. CASE d # c BY <1>4, <1>5, <1>9, <2>1, <2>4, <3>2 DEF CheckoutInv, IdInv
    <3> QED BY <3>1, <3>2
  <2>5. \A d, e \in Callers :
            Dealing(d)' /\ Dealing(e)' /\ call'[d].booking = call'[e].booking => d = e
    BY <1>6, <1>9 DEF CheckoutInv, IdInv
  <2> QED BY <2>2, <2>3, <2>4, <2>5 DEF IdInv
<1>11. LinkInv'
  <2>1. link[b].posts = 0 /\ ~link[b].sent BY <1>3 DEF CheckoutInv, LinkInv
  <2>2. ASSUME NEW a \in Bookings
        PROVE  /\ link'[a].posts <= 1
               /\ booking'[a].status = "NONE" => link'[a].posts = 0
               /\ link'[a].sent => link'[a].posts = 1 /\ link'[a].left <= booking'[a].left
    BY <1>2, <1>5, <2>1 DEF CheckoutInv, LinkInv
  <2>3. ASSUME NEW d \in Callers
        PROVE  /\ call'[d].pc = "post" => link'[call'[d].booking].posts = 0
               /\ call'[d].pc \in {"checkpoint", "complete"} =>
                      link'[call'[d].booking].posts = 1
               /\ call'[d].pc = "complete" =>
                      link'[call'[d].booking].left <= booking'[call'[d].booking].left
    <3>1. CASE d = c BY <1>2, <1>6, <2>1, <3>1
    <3>2. CASE d # c BY <1>2, <1>5, <1>9, <3>2 DEF CheckoutInv, LinkInv, Dealing
    <3> QED BY <3>1, <3>2
  <2> QED BY <2>2, <2>3 DEF LinkInv
<1>12. IdemInv' BY <1>4, <1>8 DEF IdemInv
<1>13. ClockInv'
  <2>1. Session <= Session + 0 BY CheckoutAssumption DEF CheckoutAssumption
  <2> QED BY <1>5, <1>6, <1>8, <1>9, <2>1 DEF CheckoutInv, ClockInv, Paying, Dealing
<1>14. TaskInv' BY <1>2, <1>3, <1>5 DEF CheckoutInv, TaskInv, TaskOK, Uncharged
<1>15. MoneyInv' BY <1>2, <1>5 DEF CheckoutInv, MoneyInv, Uncharged
<1>16. KeyInv'
  <2>1. Created' = Created \cup {b} /\ b \notin Created BY <1>3, <1>5 DEF Created
  <2>2. Cardinality(Created') = Cardinality(Created) + 1
    BY <2>1, CreatedFinite, FS_AddElement
  <2>3. Cardinality(Created) <= cleanups /\ cleanups \in Nat
    BY <1>0, <1>8 DEF CheckoutInv, KeyInv, TypeOK
  <2> QED BY <1>2, <1>3, <1>4, <2>2, <2>3, CreatedFinite DEF KeyInv
<1> QED BY <1>7, <1>10, <1>11, <1>12, <1>13, <1>14, <1>15, <1>16 DEF CheckoutInv

-----------------------------------------------------------------------------
(* Time, the provider and the handlers.                                     *)

(* A countdown falls by one, and stops at zero.                             *)
LEMMA LessFacts ==
    ASSUME NEW n \in Nat
    PROVE  /\ Less(n) \in Nat /\ Less(n) <= n /\ n <= Less(n) + 1
           /\ n = 0 => Less(n) = 0
           /\ \A m \in Nat : n <= m => Less(n) <= Less(m)
  BY DEF Less

(* Both countdowns go on together, and a call that is paying grows older    *)
(* just as fast.                                                            *)
LEMMA TickStep ==
    ASSUME CheckoutInv, Tick
    PROVE  CheckoutInv'
<1>0. TypeOK /\ Numbers BY TypedNumbers DEF CheckoutInv
<1>1. idem' \in IdemRows /\ SameRow
  <2>1. idem' = [idem EXCEPT !.age = IF idem.id # 0 /\ idem.age < Retention
                                     THEN idem.age + 1 ELSE idem.age]
    BY DEF Tick
  <2>2. (IF idem.id # 0 /\ idem.age < Retention THEN idem.age + 1 ELSE idem.age) \in 0..Retention
    BY <1>0, CheckoutAssumption DEF CheckoutAssumption, TypeOK, IdemRows
  <2> QED BY <1>0, <2>1, <2>2 DEF TypeOK, IdemRows, SameRow, SameIds
<1>2. /\ booking' \in [Bookings -> BookingRows]
      /\ \A a \in Bookings : /\ booking'[a].status = booking[a].status
                             /\ booking'[a].left = Less(booking[a].left)
  <2>1. \A n \in 0..Session : Less(n) \in 0..Session
    BY CheckoutAssumption DEF CheckoutAssumption, Less
  <2> QED BY <1>0, <2>1 DEF Tick, TypeOK, BookingRows
<1>3. /\ link' \in [Bookings -> Links]
      /\ \A a \in Bookings : /\ link'[a].posts = link[a].posts /\ link'[a].sent = link[a].sent
                             /\ link'[a].left = Less(link[a].left)
  <2>1. \A n \in 0..Session : Less(n) \in 0..Session
    BY CheckoutAssumption DEF CheckoutAssumption, Less
  <2> QED BY <1>0, <2>1 DEF Tick, TypeOK, Links
<1>4. /\ call' \in [Callers -> CallStates]
      /\ \A d \in Callers :
            /\ call'[d].pc = call[d].pc /\ call'[d].id = call[d].id
            /\ call'[d].booking = call[d].booking
            /\ IF Paying(d) THEN call'[d].time = call[d].time + 1 /\ call[d].time < MaxCall
               ELSE call'[d].time = call[d].time
  <2>1. \A d \in Callers : Paying(d) => call[d].time + 1 \in 0..MaxCall /\ call[d].time < MaxCall
    BY <1>0, CheckoutAssumption DEF CheckoutAssumption, Tick, Numbers
  <2> QED BY <1>0, <2>1 DEF Tick, TypeOK, CallStates
<1>5. UNCHANGED <<payment, charge, task, cleanups, faults>> BY DEF Tick
<1>6. TypeOK' BY <1>0, <1>1, <1>2, <1>3, <1>4, <1>5 DEF TypeOK
<1>7. IdInv'
  <2>1. \A d \in Callers : Tracks(d)
    BY <1>1, <1>4 DEF CheckoutInv, IdInv, Tracks, Dealing, SameRow, SameIds
  <2> QED BY <1>1, <1>2, <2>1, TracksKeeps DEF SameRow
<1>8. \A a \in Bookings : link[a].left <= booking[a].left => link'[a].left <= booking'[a].left
  BY <1>0, <1>2, <1>3, LessFacts DEF Numbers
<1>9. LinkInv'
  <2>1. \A d \in Callers : Dealing(d) => call[d].booking \in Bookings
    BY DEF CheckoutInv, IdInv
  <2> QED BY <1>2, <1>3, <1>4, <1>8, <2>1 DEF CheckoutInv, LinkInv, Dealing
<1>10. IdemInv'
  BY <1>0, <1>1, <1>3, <1>8 DEF CheckoutInv, IdemInv, SameRow, SameIds, Numbers
<1>11. ClockInv'
  <2>1. ASSUME NEW d \in Callers, Paying(d)
        PROVE  Session <= booking'[call'[d].booking].left + call'[d].time
    <3>1. call[d].booking \in Bookings BY <2>1 DEF CheckoutInv, IdInv, Dealing, Paying
    <3>2. Session <= booking[call[d].booking].left + call[d].time
      BY <2>1 DEF CheckoutInv, ClockInv
    <3>3. booking[call[d].booking].left <= booking'[call[d].booking].left + 1
      BY <1>0, <1>2, <3>1, LessFacts DEF Numbers
    <3>4. booking'[call[d].booking].left \in Nat BY <1>0, <1>2, <3>1, LessFacts DEF Numbers
    <3> QED BY <1>0, <1>4, <2>1, <3>1, <3>2, <3>3, <3>4, CheckoutAssumption
            DEF CheckoutAssumption, Numbers
  <2> QED BY <1>4, <2>1 DEF CheckoutInv, ClockInv, Paying
<1>12. \A a \in Bookings : booking[a].left = 0 => booking'[a].left = 0
  BY <1>0, <1>2, LessFacts DEF Numbers
<1>13. TaskInv' BY <1>2, <1>5, <1>12 DEF CheckoutInv, TaskInv, TaskOK, Uncharged
<1>14. MoneyInv' BY <1>2, <1>5, <1>12 DEF CheckoutInv, MoneyInv, Uncharged
<1>15. Created' = Created BY <1>2 DEF Created
<1>16. KeyInv' BY <1>1, <1>5, <1>15 DEF CheckoutInv, KeyInv, SameRow, SameIds
<1> QED BY <1>6, <1>7, <1>9, <1>10, <1>11, <1>13, <1>14, <1>16 DEF CheckoutInv

(* A step that changes at most the status of bookings there are.            *)
LEMMA CallsAside ==
    ASSUME CheckoutInv, UNCHANGED <<idem, link, call, cleanups>>,
           \A a \in Bookings :
              /\ booking'[a].left = booking[a].left
              /\ booking'[a].status = "NONE" <=> booking[a].status = "NONE"
    PROVE  IdInv' /\ LinkInv' /\ IdemInv' /\ ClockInv' /\ KeyInv'
<1>0. Numbers BY TypedNumbers DEF CheckoutInv
<1>1. \A d \in Callers : Dealing(d) => call[d].booking \in Bookings BY DEF CheckoutInv, IdInv
<1>2. IdInv' BY <1>0, <1>1 DEF CheckoutInv, IdInv, Dealing, Numbers
<1>3. LinkInv' BY <1>1 DEF CheckoutInv, LinkInv, Dealing
<1>4. IdemInv' BY <1>0 DEF CheckoutInv, IdemInv, Numbers
<1>5. ClockInv' BY <1>1 DEF CheckoutInv, ClockInv, Paying, Dealing
<1>6. Created' = Created BY DEF Created
<1>7. KeyInv' BY <1>6 DEF CheckoutInv, KeyInv
<1> QED BY <1>2, <1>3, <1>4, <1>5, <1>7

(* A charge can begin only where no handler and no status counts on there   *)
(* being none: whoever has an open link has a reservation that is alive.    *)
LEMMA BeginChargeStep ==
    ASSUME CheckoutInv, NEW b \in Bookings, BeginCharge(b)
    PROVE  CheckoutInv'
<1>0. TypeOK /\ Numbers BY TypedNumbers DEF CheckoutInv
<1>1. /\ charge' \in [Bookings -> Charges]
      /\ \A a \in Bookings : a # b => charge'[a] = charge[a]
  BY <1>0, CheckoutAssumption DEF CheckoutAssumption, TypeOK, Charges, BeginCharge, Numbers
<1>2. charge[b].status # "SUCCESSFUL" BY DEF BeginCharge
<1>3. booking[b].left # 0
  BY <1>0 DEF BeginCharge, CheckoutInv, LinkInv, Numbers
<1>4. UNCHANGED <<idem, booking, payment, link, call, task, cleanups, faults>> BY DEF BeginCharge
<1>5. TypeOK' BY <1>0, <1>1, <1>4 DEF TypeOK
<1>6. TaskInv' BY <1>1, <1>2, <1>3, <1>4 DEF CheckoutInv, TaskInv, TaskOK, Uncharged
<1>7. MoneyInv' BY <1>1, <1>2, <1>3, <1>4 DEF CheckoutInv, MoneyInv, Uncharged
<1> QED BY <1>4, <1>5, <1>6, <1>7, CallsAside DEF CheckoutInv

(* A charge that the provider settles keeps the invariant.                  *)
LEMMA SettleChargeStep ==
    ASSUME CheckoutInv, NEW b \in Bookings, SettleCharge(b)
    PROVE  CheckoutInv'
<1>0. TypeOK BY DEF CheckoutInv
<1>1. /\ charge' \in [Bookings -> Charges]
      /\ \A a \in Bookings : a # b => charge'[a] = charge[a]
  BY <1>0 DEF TypeOK, Charges, SettleCharge
<1>2. charge[b].status = "PENDING" BY DEF SettleCharge
<1>3. UNCHANGED <<idem, booking, payment, link, call, task, cleanups, faults>> BY DEF SettleCharge
<1>4. TypeOK' BY <1>0, <1>1, <1>3 DEF TypeOK
<1>5. TaskInv' BY <1>1, <1>2, <1>3 DEF CheckoutInv, TaskInv, TaskOK, Uncharged
<1>6. MoneyInv' BY <1>1, <1>2, <1>3 DEF CheckoutInv, MoneyInv, Uncharged
<1> QED BY <1>3, <1>4, <1>5, <1>6, CallsAside DEF CheckoutInv

(* What one handler does leaves the others where they are.                  *)
OnlyTask(h) ==
    task' \in [Handlers -> TaskStates] /\ \A g \in Handlers : g # h => task'[g] = task[g]

(* A handler that is done becomes idle and leaves the rest alone.           *)
LEMMA TaskDoneFacts ==
    ASSUME TypeOK, NEW h \in Handlers, TaskDone(h)
    PROVE  OnlyTask(h) /\ task'[h].pc = "idle"
<1>1. IdleTask \in TaskStates /\ IdleTask.pc = "idle"
  BY CheckoutAssumption DEF CheckoutAssumption, IdleTask, TaskStates, Verdicts
<1> QED BY <1>1 DEF TypeOK, OnlyTask, TaskDone

(* A handler that takes up or drops a task, or learns something of it.      *)
LEMMA TaskStep ==
    ASSUME CheckoutInv, NEW h \in Handlers, OnlyTask(h), TaskOK(h)', faults' \in 0..MaxFaults,
           UNCHANGED <<idem, booking, payment, link, charge, call, cleanups>>
    PROVE  CheckoutInv'
<1>1. TypeOK' BY DEF CheckoutInv, TypeOK, OnlyTask
<1>2. TaskInv' BY DEF CheckoutInv, TaskInv, TaskOK, Uncharged, OnlyTask
<1>3. MoneyInv' BY DEF CheckoutInv, MoneyInv, Uncharged
<1>4. IdInv' /\ LinkInv' /\ IdemInv' /\ ClockInv' /\ KeyInv' BY CallsAside
<1> QED BY <1>1, <1>2, <1>3, <1>4 DEF CheckoutInv

(* A handler that begins keeps the invariant.                               *)
LEMMA TaskBegins ==
    ASSUME CheckoutInv, NEW h \in Handlers, NEW b \in Bookings,
           \/ processVerifiedCharge(h, b) \/ reconcilePendingPayments(h, b)
           \/ reconcileExpiredReservation(h, b)
    PROVE  CheckoutInv'
<1>0. TypeOK /\ b \in 0..MaxBookings BY DEF CheckoutInv, Bookings
<1>1. UNCHANGED <<idem, booking, payment, link, charge, call, cleanups, faults>>
  BY DEF processVerifiedCharge, reconcilePendingPayments, reconcileExpiredReservation
<1>2. faults' \in 0..MaxFaults BY <1>0, <1>1 DEF TypeOK
<1>3. CASE processVerifiedCharge(h, b)
  <2>1. PICK v \in Verified(b) :
            task' = [task EXCEPT ![h] = [pc |-> "record", booking |-> b, verdict |-> v]]
    BY <1>3 DEF processVerifiedCharge
  <2>2. v \in Verdicts /\ (v = "SUCCESSFUL" => charge[b].status = "SUCCESSFUL")
    BY <2>1 DEF Verified, Verdicts
  <2>3. OnlyTask(h) BY <1>0, <2>1, <2>2 DEF TypeOK, OnlyTask, TaskStates
  <2>4. task'[h] = [pc |-> "record", booking |-> b, verdict |-> v] BY <1>0, <2>1 DEF TypeOK
  <2>5. TaskOK(h)' BY <1>1, <2>2, <2>4 DEF TaskOK
  <2> QED BY <1>1, <1>2, <2>3, <2>5, TaskStep
<1>4. CASE reconcilePendingPayments(h, b)
  <2>1. /\ task' = [task EXCEPT ![h] = [pc |-> "confirm", booking |-> b,
                                        verdict |-> "SUCCESSFUL"]]
        /\ payment[b] = "SUCCESSFUL"
    BY <1>4 DEF reconcilePendingPayments
  <2>2. charge[b].status = "SUCCESSFUL" BY <2>1 DEF CheckoutInv, MoneyInv
  <2>3. OnlyTask(h) BY <1>0, <2>1 DEF TypeOK, OnlyTask, TaskStates, Verdicts
  <2>4. task'[h] = [pc |-> "confirm", booking |-> b, verdict |-> "SUCCESSFUL"]
    BY <1>0, <2>1 DEF TypeOK
  <2>5. TaskOK(h)' BY <1>1, <2>2, <2>4 DEF TaskOK
  <2> QED BY <1>1, <1>2, <2>3, <2>5, TaskStep
<1>5. CASE reconcileExpiredReservation(h, b)
  <2> DEFINE t == [IdleTask EXCEPT !.pc = "lookup", !.booking = b]
  <2>1. task' = [task EXCEPT ![h] = t] /\ booking[b].status = "PENDING" /\ booking[b].left = 0
    BY <1>5 DEF reconcileExpiredReservation, Expired
  <2>2. IdleTask \in TaskStates
    BY CheckoutAssumption DEF CheckoutAssumption, IdleTask, TaskStates, Verdicts
  <2>3. t \in TaskStates /\ t.pc = "lookup" /\ t.booking = b
    BY <1>0, <2>2 DEF TaskStates
  <2>4. OnlyTask(h) /\ task'[h] = t BY <1>0, <2>1, <2>3 DEF TypeOK, OnlyTask
  <2>5. TaskOK(h)' BY <1>1, <2>1, <2>3, <2>4 DEF TaskOK
  <2> QED BY <1>1, <1>2, <2>4, <2>5, TaskStep
<1> QED BY <1>3, <1>4, <1>5

(* The provider has no charge, or only failed ones, for a reservation that  *)
(* has expired, or it has the money.                                        *)
LEMMA LookupStep ==
    ASSUME CheckoutInv, NEW h \in Handlers, reconcileReservation(h)
    PROVE  CheckoutInv'
<1> DEFINE b == task[h].booking
<1>0. /\ TypeOK /\ faults' \in 0..MaxFaults
      /\ UNCHANGED <<idem, booking, payment, link, charge, call, cleanups>>
  BY DEF CheckoutInv, TypeOK, reconcileReservation
<1>1. /\ b \in Bookings /\ booking[b].status # "NONE" /\ booking[b].left = 0
  BY DEF CheckoutInv, TaskInv, TaskOK, reconcileReservation
<1>2. CASE /\ charge[b].status \in {"SUCCESSFUL", "MISMATCH"}
           /\ task' = [task EXCEPT ![h].pc = "record", ![h].verdict = charge[b].status]
  <2>1. OnlyTask(h) BY <1>0, <1>2 DEF TypeOK, OnlyTask, TaskStates, Verdicts
  <2>2. task'[h].pc = "record" /\ task'[h].booking = b /\ task'[h].verdict = charge[b].status
    BY <1>0, <1>2 DEF TypeOK, TaskStates
  <2>3. TaskOK(h)' BY <1>0, <1>1, <2>2 DEF TaskOK
  <2> QED BY <1>0, <2>1, <2>3, TaskStep
<1>3. CASE Releases(charge[b].status) /\ task' = [task EXCEPT ![h].pc = "cancel"]
  <2>1. OnlyTask(h) BY <1>0, <1>3 DEF TypeOK, OnlyTask, TaskStates
  <2>2. task'[h].pc = "cancel" /\ task'[h].booking = b BY <1>0, <1>3 DEF TypeOK, TaskStates
  <2>3. TaskOK(h)' BY <1>0, <1>1, <1>3, <2>2 DEF TaskOK, Uncharged, Releases
  <2> QED BY <1>0, <2>1, <2>3, TaskStep
<1>4. CASE TaskDone(h)
  <2>1. OnlyTask(h) /\ task'[h].pc = "idle" BY <1>0, <1>4, TaskDoneFacts
  <2>2. TaskOK(h)' BY <2>1 DEF TaskOK
  <2> QED BY <1>0, <2>1, <2>2, TaskStep
<1> QED BY <1>2, <1>3, <1>4 DEF reconcileReservation

(* So does one that fails.                                                  *)
LEMMA TaskFailsStep ==
    ASSUME CheckoutInv, NEW h \in Handlers, TaskFails(h)
    PROVE  CheckoutInv'
<1>0. /\ TypeOK /\ faults' \in 0..MaxFaults
      /\ UNCHANGED <<idem, booking, payment, link, charge, call, cleanups>>
  BY CheckoutAssumption DEF CheckoutAssumption, CheckoutInv, TypeOK, TaskFails, Fault
<1>1. OnlyTask(h) /\ task'[h].pc = "idle" BY <1>0, TaskDoneFacts DEF TaskFails
<1>2. TaskOK(h)' BY <1>1 DEF TaskOK
<1> QED BY <1>0, <1>1, <1>2, TaskStep

(* The Payment row says what the charge was, and a confirmation follows     *)
(* only a charge that was paid.                                             *)
LEMMA RecordStep ==
    ASSUME CheckoutInv, NEW h \in Handlers, findOrCreatePayment(h)
    PROVE  CheckoutInv'
<1> DEFINE b == task[h].booking
<1>0. TypeOK /\ task[h].pc = "record" /\ b \in Bookings
  BY DEF CheckoutInv, TaskInv, TaskOK, findOrCreatePayment
<1>1. UNCHANGED <<idem, booking, link, charge, call, cleanups, faults>>
  BY DEF findOrCreatePayment
<1>2. payment' = IF payment[b] = "NONE" THEN [payment EXCEPT ![b] = task[h].verdict] ELSE payment
  BY DEF findOrCreatePayment
<1>3. task[h].verdict \in Verdicts BY <1>0 DEF TypeOK, TaskStates
<1>4. /\ payment' \in [Bookings -> {"NONE"} \cup Verdicts]
      /\ payment'[b] = "SUCCESSFUL" => charge[b].status = "SUCCESSFUL"
      /\ \A a \in Bookings : a # b => payment'[a] = payment[a]
  BY <1>0, <1>2, <1>3 DEF TypeOK, CheckoutInv, MoneyInv, TaskInv, TaskOK
<1>5. OnlyTask(h) /\ TaskOK(h)'
  <2>1. CASE payment'[b] = "SUCCESSFUL"
    <3>1. task' = [task EXCEPT ![h].pc = "confirm"] BY <2>1 DEF findOrCreatePayment
    <3>2. OnlyTask(h) /\ task'[h].pc = "confirm" /\ task'[h].booking = b
      BY <1>0, <3>1 DEF TypeOK, OnlyTask, TaskStates
    <3> QED BY <1>0, <1>1, <1>4, <2>1, <3>2 DEF TaskOK
  <2>2. CASE payment'[b] # "SUCCESSFUL"
    <3>1. OnlyTask(h) /\ task'[h].pc = "idle"
      BY <1>0, <2>2, TaskDoneFacts DEF findOrCreatePayment
    <3> QED BY <3>1 DEF TaskOK
  <2> QED BY <2>1, <2>2
<1>6. TypeOK' BY <1>0, <1>1, <1>4, <1>5 DEF TypeOK, OnlyTask
<1>7. TaskInv' BY <1>1, <1>5 DEF CheckoutInv, TaskInv, TaskOK, Uncharged, OnlyTask
<1>8. MoneyInv' BY <1>1, <1>4 DEF CheckoutInv, MoneyInv, Uncharged
<1>9. IdInv' /\ LinkInv' /\ IdemInv' /\ ClockInv' /\ KeyInv' BY <1>1, CallsAside
<1> QED BY <1>6, <1>7, <1>8, <1>9 DEF CheckoutInv

(* A handler that gives a pending booking a final status and is done.       *)
LEMMA StatusStep ==
    ASSUME CheckoutInv, NEW h \in Handlers, NEW b \in Bookings, NEW s,
           UNCHANGED <<idem, payment, link, charge, call, cleanups, faults>>, TaskDone(h),
           booking[b].status = "PENDING", booking' = [booking EXCEPT ![b].status = s],
           \/ s = "CONFIRMED" /\ charge[b].status = "SUCCESSFUL"
           \/ s = "CANCELLED" /\ booking[b].left = 0 /\ Uncharged(b)
    PROVE  CheckoutInv'
<1>0. TypeOK BY DEF CheckoutInv
<1>1. /\ booking' \in [Bookings -> BookingRows]
      /\ booking'[b].status = s /\ booking'[b].left = booking[b].left
      /\ \A a \in Bookings : a # b => booking'[a] = booking[a]
  BY <1>0 DEF TypeOK, BookingRows
<1>2. OnlyTask(h) /\ task'[h].pc = "idle" BY <1>0, TaskDoneFacts
<1>3. TypeOK' BY <1>0, <1>1, <1>2 DEF TypeOK, OnlyTask
<1>4. TaskInv' BY <1>1, <1>2 DEF CheckoutInv, TaskInv, TaskOK, Uncharged, OnlyTask
<1>5. MoneyInv' BY <1>1 DEF CheckoutInv, MoneyInv, Uncharged
<1>6. IdInv' /\ LinkInv' /\ IdemInv' /\ ClockInv' /\ KeyInv' BY <1>1, CallsAside
<1> QED BY <1>3, <1>4, <1>5, <1>6 DEF CheckoutInv

(* ... or leaves it as it is.                                               *)
LEMMA NoStatusStep ==
    ASSUME CheckoutInv, NEW h \in Handlers, TaskDone(h),
           UNCHANGED <<idem, booking, payment, link, charge, call, cleanups, faults>>
    PROVE  CheckoutInv'
<1>1. OnlyTask(h) /\ task'[h].pc = "idle" BY TaskDoneFacts DEF CheckoutInv
<1>2. TaskOK(h)' BY <1>1 DEF TaskOK
<1>3. faults' \in 0..MaxFaults BY DEF CheckoutInv, TypeOK
<1> QED BY <1>1, <1>2, <1>3, TaskStep

(* So does a confirmation from a payment.                                   *)
LEMMA ConfirmStep ==
    ASSUME CheckoutInv, NEW h \in Handlers, confirmFromPayment(h)
    PROVE  CheckoutInv'
<1>1. task[h].booking \in Bookings /\ charge[task[h].booking].status = "SUCCESSFUL"
  BY DEF CheckoutInv, TaskInv, TaskOK, confirmFromPayment
<1>2. CASE ConfirmWhere(task[h].booking)
  BY <1>1, <1>2, StatusStep DEF confirmFromPayment, ConfirmWhere
<1>3. CASE ~ConfirmWhere(task[h].booking)
  BY <1>3, NoStatusStep DEF confirmFromPayment
<1> QED BY <1>2, <1>3

(* So does the cancellation of an expired reservation.                      *)
LEMMA CancelStep ==
    ASSUME CheckoutInv, NEW h \in Handlers, cancelExpiredReservation(h)
    PROVE  CheckoutInv'
<1>1. task[h].booking \in Bookings /\ Uncharged(task[h].booking)
  BY DEF CheckoutInv, TaskInv, TaskOK, cancelExpiredReservation
<1>2. CASE MayCancel(task[h].booking)
  BY <1>1, <1>2, StatusStep DEF cancelExpiredReservation, MayCancel, Expired
<1>3. CASE ~MayCancel(task[h].booking)
  BY <1>3, NoStatusStep DEF cancelExpiredReservation
<1> QED BY <1>2, <1>3

-----------------------------------------------------------------------------
(* The theorems.                                                            *)

(* CheckoutInv holds in the beginning.                                      *)
LEMMA InitHolds == Init => CheckoutInv
<1> SUFFICES ASSUME Init PROVE CheckoutInv
  OBVIOUS
<1>1. /\ \A b \in Bookings : /\ booking[b].status = "NONE" /\ booking[b].left = 0
                             /\ payment[b] = "NONE" /\ charge[b].status = "NONE"
                             /\ link[b].posts = 0 /\ link[b].left = 0 /\ ~link[b].sent
      /\ \A c \in Callers : call[c].pc = "idle" /\ call[c].id = 0 /\ call[c].time = 0
      /\ \A h \in Handlers : task[h].pc = "idle"
      /\ idem.id = 0 /\ idem.last = 0 /\ idem.booking = 0
      /\ ~idem.response /\ idem.state = "PROCESSING"
  BY DEF Init, NoIdem, IdleCall, IdleTask
<1>2. TypeOK
  <2>1. NoIdem \in IdemRows /\ IdleCall \in CallStates
    BY CheckoutAssumption DEF CheckoutAssumption, NoIdem, IdleCall, IdemRows, CallStates
  <2>2. IdleTask \in TaskStates
    BY CheckoutAssumption DEF CheckoutAssumption, IdleTask, TaskStates, Verdicts
  <2>3. /\ [status |-> "NONE", left |-> 0] \in BookingRows
        /\ [posts |-> 0, left |-> 0, sent |-> FALSE] \in Links
        /\ [tries |-> 0, status |-> "NONE"] \in Charges
    BY CheckoutAssumption DEF CheckoutAssumption, BookingRows, Links, Charges
  <2>4. 0 \in Nat /\ 0 \in 0..MaxFaults BY CheckoutAssumption DEF CheckoutAssumption
  <2> QED BY <2>1, <2>2, <2>3, <2>4 DEF Init, TypeOK
<1>3. IdInv BY <1>1 DEF IdInv, Dealing
<1>4. LinkInv /\ IdemInv /\ ClockInv BY <1>1 DEF LinkInv, IdemInv, ClockInv, Paying
<1>5. TaskInv /\ MoneyInv BY <1>1 DEF TaskInv, TaskOK, MoneyInv
<1>6. KeyInv
  <2>1. Created = {} BY <1>1 DEF Created
  <2> QED BY <1>1, <2>1, FS_EmptySet DEF KeyInv, Init
<1> QED BY <1>2, <1>3, <1>4, <1>5, <1>6 DEF CheckoutInv

(* Every step keeps it.                                                     *)
LEMMA StepHolds == CheckoutInv /\ [Next]_vars => CheckoutInv'
<1> SUFFICES ASSUME CheckoutInv, [Next]_vars PROVE CheckoutInv'
  OBVIOUS
<1>1. ASSUME NEW c \in Callers,
             StartCall(c) \/ CallerStep(c) \/ SyncFails(c) \/ CrashCaller(c)
      PROVE  CheckoutInv'
  <2>1. CASE \/ StartCall(c) \/ ClaimInProgress(c) \/ ResumeClaim(c) \/ CreationFails(c)
             \/ releaseIdempotencyClaim(c) \/ PaymentIntentFailed(c)
             \/ SyncFails(c) \/ CrashCaller(c)
    BY <2>1, StepsAside
  <2>2. CASE ClaimKey(c) BY <2>2, ClaimKeyStep
  <2>3. CASE Replay(c) BY <2>3, ReplayStep
  <2>4. CASE TakeOver(c) BY <2>4, TakeOverStep
  <2>5. CASE createBookingWithPayment(c) BY <2>5, CreateStep
  <2>6. CASE createPaymentIntent(c) BY <2>6, PostStep
  <2>7. CASE checkpointPaymentResult(c) BY <2>7, CheckpointStep
  <2>8. CASE complete(c) BY <2>8, CompleteStep
  <2> QED BY <1>1, <2>1, <2>2, <2>3, <2>4, <2>5, <2>6, <2>7, <2>8 DEF CallerStep
<1>2. ASSUME NEW h \in Handlers, HandlerStep(h) \/ TaskFails(h)
      PROVE  CheckoutInv'
  BY <1>2, RecordStep, ConfirmStep, LookupStep, CancelStep, TaskFailsStep DEF HandlerStep
<1>3. ASSUME NEW b \in Bookings, BeginCharge(b) \/ SettleCharge(b)
      PROVE  CheckoutInv'
  BY <1>3, BeginChargeStep, SettleChargeStep
<1>4. ASSUME NEW h \in Handlers, NEW b \in Bookings,
             \/ processVerifiedCharge(h, b) \/ reconcilePendingPayments(h, b)
             \/ reconcileExpiredReservation(h, b)
      PROVE  CheckoutInv'
  BY <1>4, TaskBegins
<1>5. CASE UNCHANGED vars
  <2>1. /\ UNCHANGED <<idem, booking, payment, link, charge, call, cleanups>>
        /\ task' = task /\ faults' = faults
    BY <1>5 DEF vars
  <2>2. TypeOK' BY <2>1 DEF CheckoutInv, TypeOK
  <2>3. TaskInv' /\ MoneyInv' BY <2>1, MoneyAside
  <2>4. IdInv' /\ LinkInv' /\ IdemInv' /\ ClockInv' /\ KeyInv' BY <2>1, CallsAside
  <2> QED BY <2>2, <2>3, <2>4 DEF CheckoutInv
<1> QED BY <1>1, <1>2, <1>3, <1>4, <1>5, CleanupStep, TickStep DEF Next

(* The inductive invariant holds of every reachable state.                  *)
THEOREM CheckoutInvariant == Spec => []CheckoutInv
  BY InitHolds, StepHolds, PTL DEF Spec

(* Every variable keeps its type, with any number of calls and handlers.    *)
THEOREM CheckoutTypes == Spec => []TypeOK
<1>1. CheckoutInv => TypeOK BY DEF CheckoutInv
<1> QED BY <1>1, CheckoutInvariant, PTL

(* One booking for a key, however many calls repeat the request, however    *)
(* they overlap and wherever they die (claim, attachBooking, release).      *)
THEOREM KeyMakesOneBooking == Spec => []OneBookingPerKey
<1>1. CheckoutInv => OneBookingPerKey
  <2> SUFFICES ASSUME CheckoutInv PROVE OneBookingPerKey
    OBVIOUS
  <2>1. cleanups \in Nat BY DEF CheckoutInv, TypeOK
  <2> QED BY <2>1, CreatedFinite DEF CheckoutInv, KeyInv, Created, OneBookingPerKey
<1> QED BY <1>1, CheckoutInvariant, PTL

(* A booking gets at most one checkout link (createPaymentIntent).          *)
THEOREM LinkIsMadeOnce == Spec => []OneCheckout
<1>1. CheckoutInv => OneCheckout BY DEF CheckoutInv, LinkInv, OneCheckout
<1> QED BY <1>1, CheckoutInvariant, PTL

(* A reservation that cancelExpiredReservation cancelled was not paid and   *)
(* cannot be paid any more, if a call is quicker than a payment session.    *)
THEOREM CancelledIsNeverPaid == Spec => []CancelledIsUnpaid
<1>1. CheckoutInv => CancelledIsUnpaid
  BY DEF CheckoutInv, MoneyInv, Uncharged, CancelledIsUnpaid
<1> QED BY <1>1, CheckoutInvariant, PTL

(* What confirmFromPayment confirmed was paid.                              *)
THEOREM ConfirmedWasPaid == Spec => []ConfirmedIsPaid
<1>1. CheckoutInv => ConfirmedIsPaid BY DEF CheckoutInv, MoneyInv, ConfirmedIsPaid
<1> QED BY <1>1, CheckoutInvariant, PTL

(***************************************************************************)
(* A key makes one booking and a booking one checkout link, with any       *)
(* number of overlapping calls (claim, attachBooking,                      *)
(* resumeBookingPayment).                                                  *)
(***************************************************************************)
THEOREM KeyIsUsedOnce == Spec => []OnePerKey
<1>1. TypeOK /\ OneBookingPerKey /\ OneCheckout => OnePerKey
    BY DEF OnePerKey
<1> QED BY CheckoutTypes, KeyMakesOneBooking, LinkIsMadeOnce, <1>1, PTL

(***************************************************************************)
(* No reservation that was or can be paid is cancelled and none is         *)
(* confirmed unpaid, if calls are quicker than a payment session           *)
(* (cancelExpiredReservation, confirmFromPayment).                         *)
(***************************************************************************)
THEOREM MoneyDecides == Spec => []PaymentDecides
<1>1. CancelledIsUnpaid /\ ConfirmedIsPaid => PaymentDecides
    BY DEF PaymentDecides
<1> QED BY CancelledIsNeverPaid, ConfirmedWasPaid, <1>1, PTL

=============================================================================
