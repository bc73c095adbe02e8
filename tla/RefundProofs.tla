---------------------------- MODULE RefundProofs ----------------------------
(***************************************************************************)
(* Theorems about refunds that hold for any number of payments, requests   *)
(* and reconcilers, any delays and any number of faults.                   *)
(***************************************************************************)
EXTENDS Refund, TLAPS

DomainStatuses == {"UNPAID", "PAID", "REFUND_PROCESSING"} \cup Terminal

-----------------------------------------------------------------------------
(* Types. *)

(* The initial state has its types.                                         *)
LEMMA InitType == Init => TypeOK
  <1>1. 0 \in 0..HandOff /\ 0 \in 0..Sla /\ 0 \in 0..MaxFaults
    BY RefundAssumption DEF RefundAssumption
  <1>2. NewRow \in Rows /\ NoProviderRefund \in ProviderRefunds
        /\ IdleReq \in ReqStates /\ IdleRec \in RecStates
    BY <1>1 DEF NewRow, Rows, NoProviderRefund, ProviderRefunds, IdleReq, ReqStates,
       IdleRec, RecStates, Sizes, Found
  <1> QED BY <1>1, <1>2 DEF Init, TypeOK

(* A payment in hand is a payment, a refund id in hand an id.               *)
HandsOk ==
    /\ \A q \in Requesters :
         /\ req[q].pc # "idle" => req[q].payment \in Payments
         /\ req[q].known => req[q].pc = "uncertain"
    /\ \A r \in Reconcilers :
         /\ rec[r].pc \notin {"idle", "batch"} => rec[r].payment \in Payments
         /\ rec[r].pc \in {"webhook", "adopt", "reread", "fetch", "record", "finalize"}
            => rec[r].id \in RefundIds
         /\ rec[r].pc = "finalize" => rec[r].found \in {"SUCCEEDED", "FAILED"}

(* Every refund id the code knows is one the provider knows.                *)
IdsExist ==
    /\ \A p \in Payments : row[p].providerId # NoRefund =>
          refund[row[p].providerId].state # "NONE"
    /\ \A q \in Requesters :
          req[q].pc = "persist" \/ (req[q].pc = "uncertain" /\ req[q].known) =>
          refund[<<req[q].payment, "own">>].state # "NONE"
    /\ \A r \in Reconcilers :
         /\ \A s \in rec[r].todo : s.providerId # NoRefund =>
               refund[s.providerId].state # "NONE"
         /\ rec[r].pc \in {"webhook", "adopt", "reread", "fetch"} =>
               refund[rec[r].id].state # "NONE"

(* Whatever requestManualReview writes is a row.                            *)
LEMMA ReviewTypes ==
    ASSUME TypeOK, NEW p \in Payments, requestManualReview(p)
    PROVE  row' \in [Payments -> Rows] /\ emails' \in [Payments -> Nat]
  <1>1. row[p] \in Rows /\ emails[p] \in Nat
    BY DEF TypeOK
  <1>2. \A x \in Rows : [x EXCEPT !.reviewed = TRUE] \in Rows
    BY DEF Rows
  <1> QED BY <1>1, <1>2 DEF requestManualReview, TypeOK

(* Whatever finalize writes are rows.                                       *)
LEMMA FinalizeTypes ==
    ASSUME TypeOK, NEW p \in Payments, NEW s \in Terminal, finalize(p, s)
    PROVE  /\ row' \in [Payments -> Rows]
           /\ domain' \in [Payments -> DomainStatuses]
           /\ emails' \in [Payments -> Nat]
  <1>1. row[p] \in Rows /\ domain[p] \in DomainStatuses /\ emails[p] \in Nat
    BY DEF TypeOK, DomainStatuses
  <1>2. \A x \in Rows : [x EXCEPT !.reviewed = TRUE] \in Rows /\ [x EXCEPT !.status = s] \in Rows
    BY DEF Rows, Terminal
  <1>3. CASE FinalizeWhere(p) /\ ~DomainOpen(p)
    BY <1>3, ReviewTypes DEF finalize, TypeOK, DomainStatuses
  <1>4. CASE ~(FinalizeWhere(p) /\ ~DomainOpen(p))
    <2>1. row' = [row EXCEPT ![p].status = IF FinalizeWhere(p) THEN s ELSE @]
          /\ domain' = [domain EXCEPT ![p] = IF FinalizeWhere(p) THEN s ELSE @]
          /\ UNCHANGED emails
      BY <1>4 DEF finalize
    <2>2. [row[p] EXCEPT !.status = IF FinalizeWhere(p) THEN s ELSE @] \in Rows
      BY <1>1, <1>2 DEF Rows
    <2> QED BY <1>1, <2>1, <2>2 DEF TypeOK, DomainStatuses
  <1> QED BY <1>3, <1>4

(* A check leaves rows.                                                    *)
LEMMA CheckTypes ==
    ASSUME TypeOK, NEW p \in Payments, NEW failed \in BOOLEAN, recordProviderCheck(p, failed)
    PROVE  row' \in [Payments -> Rows]
  <1>1. row[p] \in Rows /\ HandOff \in Nat
    BY RefundAssumption DEF TypeOK, RefundAssumption
  <1>2. AtMost(row[p].failures + 1, HandOff) \in 0..HandOff /\ 0 \in 0..HandOff
    BY <1>1 DEF Rows, AtMost
  <1>3. \A x \in Rows, n \in 0..HandOff : [x EXCEPT !.failures = n] \in Rows
    BY DEF Rows
  <1> QED BY <1>1, <1>2, <1>3 DEF recordProviderCheck, TypeOK

(* The outcome of a check with an answer is a final status.                 *)
LEMMA OutcomeTerminal == ASSUME NEW r PROVE Outcome(r) \in Terminal
  BY DEF Outcome, Terminal

(* Every action of a request keeps the types.                               *)
LEMMA RequesterType ==
    ASSUME TypeOK, HandsOk, NEW q \in Requesters,
           \/ \E p \in Payments, size \in Sizes : initiateRefund(q, p, size)
           \/ RequesterStep(q) \/ RequesterFault(q)
    PROVE  TypeOK'
  <1> DEFINE k == req[q]  p == req[q].payment
  <1>0. /\ k \in ReqStates /\ IdleReq \in ReqStates
        /\ 0 \in 0..HandOff /\ 0 \in 0..Sla /\ MaxFaults \in Nat
    BY RefundAssumption DEF TypeOK, IdleReq, ReqStates, Sizes, RefundAssumption
  <1>1. \A x \in ReqStates, pc \in {"idle", "reserve", "post", "persist", "reject", "uncertain"} :
           [x EXCEPT !.pc = pc] \in ReqStates
    BY DEF ReqStates
  <1>2. \A x \in Rows :
          /\ [x EXCEPT !.status = "REFUND_PROCESSING", !.failures = 0, !.reviewed = FALSE] \in Rows
          /\ \A i \in RefundIds \cup {NoRefund} :
               /\ [x EXCEPT !.providerId = i] \in Rows
               /\ [x EXCEPT !.status = "REFUND_ERROR", !.providerId = i] \in Rows
    BY <1>0 DEF Rows, InProgress
  <1>3. ReqEnds(q) => req' \in [Requesters -> ReqStates]
    BY <1>0 DEF ReqEnds, TypeOK
  <1>4. \A pc \in {"reserve", "post", "persist", "reject", "uncertain"} :
           ReqGoTo(q, pc) => req' \in [Requesters -> ReqStates]
    BY <1>0, <1>1 DEF ReqGoTo, TypeOK
  <1>5. Fault => faults' \in 0..MaxFaults
    BY <1>0 DEF Fault, TypeOK
  <1>6. ASSUME p \in Payments, Accepted(p, k.size)
        PROVE  refund' \in [RefundIds -> ProviderRefunds] /\ posts' \in [Payments -> Nat]
    <2>1. k.size \in Sizes /\ posts[p] \in Nat
      BY <1>0, <1>6 DEF TypeOK, ReqStates
    <2>2. PICK s \in {"PENDING", "SUCCEEDED", "FAILED"} :
             refund' = [refund EXCEPT ![<<p, "own">>] = [state |-> s, size |-> k.size]]
      BY <1>6 DEF Accepted
    <2>3. [state |-> s, size |-> k.size] \in ProviderRefunds
      BY <2>1 DEF ProviderRefunds
    <2>4. refund' \in [RefundIds -> ProviderRefunds]
      BY <2>2, <2>3 DEF TypeOK
    <2> QED BY <1>6, <2>1, <2>4 DEF Accepted, TypeOK
  <1>7. ASSUME NEW p2 \in Payments, NEW size \in Sizes, initiateRefund(q, p2, size)
        PROVE  TypeOK'
    <2>1. [pc |-> "reserve", payment |-> p2, size |-> size, known |-> FALSE] \in ReqStates
      BY DEF ReqStates
    <2> QED BY <1>7, <2>1 DEF initiateRefund, TypeOK
  <1>8. CASE reserveRefund(q)
    <2>1. p \in Payments /\ row[p] \in Rows
      BY <1>8 DEF reserveRefund, HandsOk, TypeOK
    <2>2. CASE ReserveWhere(p) /\ DomainOpen(p)
      <3>1. /\ row' = [row EXCEPT ![p].status = "REFUND_PROCESSING",
                                  ![p].failures = 0, ![p].reviewed = FALSE]
            /\ domain' = [domain EXCEPT ![p] = "REFUND_PROCESSING"]
            /\ age' = [age EXCEPT ![p] = 0] /\ emails' = [emails EXCEPT ![p] = 0]
            /\ ReqGoTo(q, "post") /\ UNCHANGED <<refund, rec, posts, faults>>
        BY <1>8, <2>2 DEF reserveRefund
      <3>2. row' \in [Payments -> Rows]
        <4>1. row' = [row EXCEPT ![p] = [row[p] EXCEPT !.status = "REFUND_PROCESSING",
                                            !.failures = 0, !.reviewed = FALSE]]
          BY <2>1, <3>1 DEF TypeOK, Rows
        <4>2. [row[p] EXCEPT !.status = "REFUND_PROCESSING",
                             !.failures = 0, !.reviewed = FALSE] \in Rows
          BY <1>2, <2>1
        <4> QED BY <4>1, <4>2 DEF TypeOK
      <3>3. domain' \in [Payments -> DomainStatuses] /\ age' \in [Payments -> 0..Sla]
            /\ emails' \in [Payments -> Nat]
        BY <1>0, <3>1 DEF TypeOK, DomainStatuses
      <3> QED BY <1>4, <3>1, <3>2, <3>3 DEF TypeOK, DomainStatuses
    <2>3. CASE ~(ReserveWhere(p) /\ DomainOpen(p))
      BY <1>3, <1>8, <2>3 DEF reserveRefund, TypeOK
    <2> QED BY <2>2, <2>3
  <1>9. CASE PostAccepted(q)
    BY <1>4, <1>6, <1>9 DEF PostAccepted, HandsOk, TypeOK
  <1>10. CASE PostLost(q)
    BY <1>4, <1>5, <1>6, <1>10 DEF PostLost, HandsOk, TypeOK
  <1>11. CASE PostRejected(q)
    BY <1>4, <1>11 DEF PostRejected, TypeOK
  <1>12. CASE PersistRefundId(q)
    <2>1. p \in Payments /\ row[p] \in Rows /\ <<p, "own">> \in RefundIds
      BY <1>12 DEF PersistRefundId, HandsOk, TypeOK, RefundIds, Kinds
    <2>2. row' \in [Payments -> Rows]
      BY <1>2, <1>12, <2>1 DEF PersistRefundId, TypeOK
    <2> QED BY <1>3, <1>12, <2>2 DEF PersistRefundId, TypeOK
  <1>13. CASE FinalizeRejected(q)
    <2>1. p \in Payments /\ "REFUND_FAILED" \in Terminal
      BY <1>13 DEF FinalizeRejected, HandsOk, Terminal
    <2>2. /\ row' \in [Payments -> Rows] /\ domain' \in [Payments -> DomainStatuses]
          /\ emails' \in [Payments -> Nat]
      BY <1>13, <2>1, FinalizeTypes DEF FinalizeRejected
    <2> QED BY <1>3, <1>13, <2>2 DEF FinalizeRejected, TypeOK, DomainStatuses
  <1>14. CASE markRefundUncertain(q)
    <2>1. p \in Payments /\ row[p] \in Rows /\ <<p, "own">> \in RefundIds
      BY <1>14 DEF markRefundUncertain, HandsOk, TypeOK, RefundIds, Kinds
    <2>2. row' \in [Payments -> Rows]
      <3>1. CASE StillProcessing(p)
        <4> DEFINE i == IF k.known THEN <<p, "own">> ELSE row[p].providerId
        <4>1. i \in RefundIds \cup {NoRefund}
          BY <2>1 DEF Rows
        <4>2. row' = [row EXCEPT ![p] = [row[p] EXCEPT !.status = "REFUND_ERROR",
                                                        !.providerId = i]]
          BY <1>14, <2>1, <3>1 DEF markRefundUncertain, TypeOK, Rows
        <4>3. [row[p] EXCEPT !.status = "REFUND_ERROR", !.providerId = i] \in Rows
          BY <1>2, <2>1, <4>1
        <4> QED BY <4>2, <4>3 DEF TypeOK
      <3>2. CASE ~StillProcessing(p)
        BY <1>14, <3>2 DEF markRefundUncertain, TypeOK
      <3> QED BY <3>1, <3>2
    <2> QED BY <1>3, <1>14, <2>2 DEF markRefundUncertain, TypeOK
  <1>15. CASE HandleResultError(q)
    <2>1. [k EXCEPT !.pc = "uncertain", !.known = k.pc = "persist"] \in ReqStates
      BY <1>0 DEF ReqStates
    <2>2. req' \in [Requesters -> ReqStates]
      BY <1>15, <2>1 DEF HandleResultError, TypeOK
    <2> QED BY <1>5, <1>15, <2>2 DEF HandleResultError, TypeOK
  <1>16. CASE CrashRequester(q)
    BY <1>3, <1>5, <1>16 DEF CrashRequester, TypeOK
  <1> QED BY <1>7, <1>8, <1>9, <1>10, <1>11, <1>12, <1>13, <1>14, <1>15, <1>16
          DEF RequesterStep, RequesterFault

RecPcs == {"idle", "batch", "webhook", "adopt", "reread", "fetch",
           "record", "recordFailure", "finalize", "review"}

(* Moving a call on, or ending it, keeps the calls' types.                  *)
LEMMA RecMoves ==
    ASSUME TypeOK, NEW r \in Reconcilers
    PROVE  /\ RecDone(r) => rec' \in [Reconcilers -> RecStates]
           /\ \A pc \in RecPcs : RecGoTo(r, pc) => rec' \in [Reconcilers -> RecStates]
           /\ IdleRec \in RecStates
           /\ rec[r] \in RecStates
           /\ \A p \in Payments : row[p] \in Rows /\ Snapshot(p) \in Snapshots
  <1>1. rec[r] \in RecStates /\ 0 \in 0..HandOff
    BY RefundAssumption DEF TypeOK, RefundAssumption
  <1>2. IdleRec \in RecStates
    BY <1>1 DEF IdleRec, RecStates, Found, Sizes
  <1>3. [IdleRec EXCEPT !.pc = "batch", !.todo = rec[r].todo] \in RecStates
    BY <1>1, <1>2 DEF RecStates
  <1>4. \A pc \in RecPcs : [rec[r] EXCEPT !.pc = pc] \in RecStates
    BY <1>1 DEF RecStates, RecPcs
  <1>5. RecDone(r) => rec' \in [Reconcilers -> RecStates]
    BY <1>2, <1>3 DEF RecDone, TypeOK
  <1>6. \A pc \in RecPcs : RecGoTo(r, pc) => rec' \in [Reconcilers -> RecStates]
    BY <1>4 DEF RecGoTo, TypeOK
  <1>7. \A p \in Payments : row[p] \in Rows /\ Snapshot(p) \in Snapshots
    BY DEF TypeOK, Rows, Snapshot, Snapshots
  <1> QED BY <1>1, <1>2, <1>5, <1>6, <1>7

(* Every action of a reconciler keeps the types.                            *)
LEMMA ReconcilerType ==
    ASSUME TypeOK, HandsOk, IdsExist, NEW r \in Reconcilers,
           \/ reconcileProcessingRefunds(r)
           \/ \E i \in RefundIds : RefundWebhook(r, i)
           \/ \E p \in Payments, i \in RefundIds : AdminReconciles(r, p, i)
           \/ ReconcilerStep(r) \/ ReconcilerFault(r)
    PROVE  TypeOK'
  <1> DEFINE k == rec[r]  p == rec[r].payment
  <1>0. /\ k \in RecStates /\ IdleRec \in RecStates
        /\ \A x \in Payments : row[x] \in Rows /\ Snapshot(x) \in Snapshots
        /\ RecDone(r) => rec' \in [Reconcilers -> RecStates]
        /\ \A pc \in RecPcs : RecGoTo(r, pc) => rec' \in [Reconcilers -> RecStates]
    BY RecMoves
  <1>1. Fault => faults' \in 0..MaxFaults
    BY RefundAssumption DEF Fault, TypeOK, RefundAssumption
  <1>2. CASE reconcileProcessingRefunds(r)
    <2>1. PICK b \in SUBSET Payments :
             rec' = [rec EXCEPT ![r].pc = "batch", ![r].todo = {Snapshot(x) : x \in b}]
      BY <1>2 DEF reconcileProcessingRefunds
    <2>2. {Snapshot(x) : x \in b} \in SUBSET Snapshots
      BY <1>0
    <2>3. [k EXCEPT !.pc = "batch", !.todo = {Snapshot(x) : x \in b}] \in RecStates
      BY <1>0, <2>2 DEF RecStates
    <2>4. rec' \in [Reconcilers -> RecStates]
      BY <2>1, <2>3 DEF TypeOK
    <2> QED BY <1>2, <2>4 DEF reconcileProcessingRefunds, TypeOK
  <1>3. ASSUME NEW x \in Payments, NEW i \in RefundIds,
               rec' = [rec EXCEPT ![r].pc = "webhook", ![r].payment = x, ![r].id = i]
        PROVE  rec' \in [Reconcilers -> RecStates]
    <2>1. [k EXCEPT !.pc = "webhook", !.payment = x, !.id = i] \in RecStates
      BY <1>0 DEF RecStates
    <2> QED BY <1>3, <2>1 DEF TypeOK
  <1>4. ASSUME NEW i \in RefundIds, RefundWebhook(r, i)
        PROVE  TypeOK'
    <2>1. i[1] \in Payments
      BY DEF RefundIds
    <2> QED BY <1>3, <1>4, <2>1 DEF RefundWebhook, TypeOK
  <1>5. ASSUME NEW x \in Payments, NEW i \in RefundIds, AdminReconciles(r, x, i)
        PROVE  TypeOK'
    BY <1>3, <1>5 DEF AdminReconciles, TypeOK
  <1>6. CASE NextOfBatch(r)
    <2>1. PICK s \in k.todo : rec' = [rec EXCEPT ![r] =
              [IdleRec EXCEPT !.pc = IF s.providerId = NoRefund THEN "review" ELSE "fetch",
                              !.todo = k.todo \ {s}, !.payment = s.payment,
                              !.id = s.providerId, !.failures = s.failures]]
      BY <1>6 DEF NextOfBatch
    <2>2. s \in Snapshots /\ k.todo \ {s} \in SUBSET Snapshots
      BY <1>0 DEF RecStates
    <2>3. [IdleRec EXCEPT !.pc = IF s.providerId = NoRefund THEN "review" ELSE "fetch",
                          !.todo = k.todo \ {s}, !.payment = s.payment,
                          !.id = s.providerId, !.failures = s.failures] \in RecStates
      BY <1>0, <2>2 DEF RecStates, Snapshots
    <2>4. rec' \in [Reconcilers -> RecStates]
      BY <2>1, <2>3 DEF TypeOK
    <2> QED BY <1>6, <2>4 DEF NextOfBatch, TypeOK
  <1>7. ASSUME NEW n \in 0..HandOff, NEW pc \in RecPcs,
               rec' = [rec EXCEPT ![r].failures = n, ![r].pc = pc]
        PROVE  rec' \in [Reconcilers -> RecStates]
    <2>1. [k EXCEPT !.failures = n, !.pc = pc] \in RecStates
      BY <1>0 DEF RecStates, RecPcs
    <2> QED BY <1>7, <2>1 DEF TypeOK
  <1>8. CASE reconcileWebhookRefund(r)
    <2>1. p \in Payments /\ row[p].failures \in 0..HandOff
      BY <1>0, <1>8 DEF reconcileWebhookRefund, HandsOk, Rows
    <2>2. CASE row[p].status \in Terminal
      BY <1>0, <1>8, <2>2 DEF reconcileWebhookRefund, TypeOK, Terminal
    <2>3. CASE row[p].status = "SUCCESSFUL"
      <3>1. row[p].status \notin Terminal /\ "review" \in RecPcs
        BY <2>3 DEF Terminal, RecPcs
      <3> QED BY <1>0, <1>8, <2>3, <3>1 DEF reconcileWebhookRefund, TypeOK
    <2>4. CASE row[p].status \notin Terminal /\ row[p].status # "SUCCESSFUL"
      <3> DEFINE pc == CASE row[p].providerId = NoRefund -> "adopt"
                         [] row[p].providerId = k.id -> "fetch"
                         [] OTHER -> "review"
      <3>1. pc \in RecPcs
        BY DEF RecPcs
      <3>2. rec' = [rec EXCEPT ![r].failures = row[p].failures, ![r].pc = pc]
        BY <1>8, <2>4 DEF reconcileWebhookRefund
      <3>3. rec' \in [Reconcilers -> RecStates]
        <4> HIDE DEF pc
        <4> QED BY <1>7, <2>1, <3>1, <3>2
      <3> QED BY <1>8, <3>3 DEF reconcileWebhookRefund, TypeOK
    <2> QED BY <2>2, <2>3, <2>4
  <1>9. CASE AdoptRefundId(r)
    <2>1. p \in Payments /\ k.id \in RefundIds
      BY <1>9 DEF AdoptRefundId, HandsOk
    <2>2. [row[p] EXCEPT !.providerId = k.id] \in Rows
      BY <1>0, <2>1 DEF Rows
    <2>3. row' \in [Payments -> Rows]
      BY <1>9, <2>1, <2>2 DEF AdoptRefundId, TypeOK
    <2>4. rec' \in [Reconcilers -> RecStates]
      BY <1>0, <1>9 DEF AdoptRefundId, RecPcs
    <2> QED BY <1>9, <2>3, <2>4 DEF AdoptRefundId, TypeOK
  <1>10. CASE RereadPayment(r)
    <2>1. p \in Payments /\ row[p].failures \in 0..HandOff
      BY <1>0, <1>10 DEF RereadPayment, HandsOk, Rows
    <2>2. CASE row[p].status \notin InProgress
      BY <1>0, <1>10, <2>2 DEF RereadPayment, TypeOK
    <2>3. CASE row[p].status \in InProgress
      <3> DEFINE pc == IF row[p].providerId = k.id THEN "fetch" ELSE "review"
      <3>1. pc \in RecPcs
        BY DEF RecPcs
      <3>2. rec' = [rec EXCEPT ![r].failures = row[p].failures, ![r].pc = pc]
        BY <1>10, <2>3 DEF RereadPayment
      <3>3. rec' \in [Reconcilers -> RecStates]
        <4> HIDE DEF pc
        <4> QED BY <1>7, <2>1, <3>1, <3>2
      <3> QED BY <1>10, <3>3 DEF RereadPayment, TypeOK
    <2> QED BY <2>2, <2>3
  <1>11. CASE FetchRefund(r)
    <2>1. /\ k.id \in RefundIds /\ refund[k.id] \in ProviderRefunds
          /\ refund[k.id].state # "NONE"
      BY <1>11 DEF FetchRefund, HandsOk, IdsExist, TypeOK
    <2>2. refund[k.id].state \in Found /\ refund[k.id].size \in Sizes
      BY <2>1 DEF ProviderRefunds, Found
    <2>3. [k EXCEPT !.pc = "record", !.found = refund[k.id].state,
                    !.size = refund[k.id].size] \in RecStates
      BY <1>0, <2>2 DEF RecStates
    <2>4. rec' \in [Reconcilers -> RecStates]
      <3>1. CASE Belongs(p, k.id)
        BY <1>11, <2>3, <3>1 DEF FetchRefund, TypeOK
      <3>2. CASE ~Belongs(p, k.id)
        BY <1>0, <1>11, <3>2 DEF FetchRefund, RecPcs
      <3> QED BY <3>1, <3>2
    <2> QED BY <1>11, <2>4 DEF FetchRefund, TypeOK
  <1>12. CASE FetchOdd(r)
    <2>1. [k EXCEPT !.pc = "record", !.found = "UNKNOWN"] \in RecStates
      BY <1>0 DEF RecStates, Found
    <2>2. rec' \in [Reconcilers -> RecStates]
      BY <1>0, <1>12, <2>1 DEF FetchOdd, RecPcs, TypeOK
    <2> QED BY <1>1, <1>12, <2>2 DEF FetchOdd, TypeOK
  <1>13. CASE FetchFails(r)
    <2>1. rec' \in [Reconcilers -> RecStates]
      BY <1>0, <1>13 DEF FetchFails, RecPcs
    <2> QED BY <1>1, <1>13, <2>1 DEF FetchFails, TypeOK
  <1>14. CASE RecordCheck(r)
    <2>1. p \in Payments /\ (k.found = "UNKNOWN") \in BOOLEAN
      BY <1>14 DEF RecordCheck, HandsOk
    <2>2. row' \in [Payments -> Rows]
      BY <1>14, <2>1, CheckTypes DEF RecordCheck
    <2>3. rec' \in [Reconcilers -> RecStates]
      BY <1>0, <1>14 DEF RecordCheck, RecPcs
    <2> QED BY <1>14, <2>2, <2>3 DEF RecordCheck, TypeOK
  <1>15. CASE handleFetchFailure(r)
    <2>1. p \in Payments
      BY <1>15 DEF handleFetchFailure, HandsOk
    <2>2. row' \in [Payments -> Rows]
      BY <1>15, <2>1, CheckTypes DEF handleFetchFailure
    <2>3. rec' \in [Reconcilers -> RecStates]
      BY <1>0, <1>15 DEF handleFetchFailure, RecPcs
    <2> QED BY <1>15, <2>2, <2>3 DEF handleFetchFailure, TypeOK
  <1>16. CASE FinalizeRefund(r)
    <2>1. p \in Payments
      BY <1>16 DEF FinalizeRefund, HandsOk
    <2>2. /\ row' \in [Payments -> Rows] /\ domain' \in [Payments -> DomainStatuses]
          /\ emails' \in [Payments -> Nat]
      BY <1>16, <2>1, FinalizeTypes, OutcomeTerminal DEF FinalizeRefund
    <2> QED BY <1>0, <1>16, <2>2 DEF FinalizeRefund, TypeOK, DomainStatuses
  <1>17. CASE HandOver(r)
    <2>1. p \in Payments
      BY <1>17 DEF HandOver, HandsOk
    <2>2. row' \in [Payments -> Rows] /\ emails' \in [Payments -> Nat]
      BY <1>17, <2>1, ReviewTypes DEF HandOver
    <2> QED BY <1>0, <1>17, <2>2 DEF HandOver, TypeOK
  <1>18. CASE ReconcileError(r)
    BY <1>0, <1>1, <1>18 DEF ReconcileError, TypeOK
  <1>19. CASE CrashReconciler(r)
    <2>1. rec' \in [Reconcilers -> RecStates]
      BY <1>0, <1>19 DEF CrashReconciler, TypeOK
    <2> QED BY <1>1, <1>19, <2>1 DEF CrashReconciler, TypeOK
  <1> QED BY <1>2, <1>4, <1>5, <1>6, <1>8, <1>9, <1>10, <1>11, <1>12, <1>13, <1>14, <1>15,
          <1>16, <1>17, <1>18, <1>19 DEF ReconcilerStep, ReconcilerFault

(* Every step keeps the types.                                              *)
LEMMA NextType ==
    ASSUME TypeOK, HandsOk, IdsExist, Next
    PROVE  TypeOK'
  <1>1. ASSUME NEW p \in Payments, confirmFromPayment(p) \/ cancelBooking(p)
        PROVE  TypeOK'
    BY <1>1 DEF confirmFromPayment, cancelBooking, TypeOK
  <1>2. ASSUME NEW p \in Payments, NEW size \in Sizes, DeskRefund(p, size)
        PROVE  TypeOK'
    <2>1. [state |-> "PENDING", size |-> size] \in ProviderRefunds
      BY DEF ProviderRefunds
    <2> QED BY <1>2, <2>1 DEF DeskRefund, TypeOK
  <1>3. ASSUME NEW i \in RefundIds, ProviderSettles(i)
        PROVE  TypeOK'
    <2>1. PICK s \in {"SUCCEEDED", "FAILED"} : refund' = [refund EXCEPT ![i].state = s]
      BY <1>3 DEF ProviderSettles
    <2>2. [refund[i] EXCEPT !.state = s] \in ProviderRefunds
      BY DEF TypeOK, ProviderRefunds
    <2>3. refund' \in [RefundIds -> ProviderRefunds]
      BY <2>1, <2>2 DEF TypeOK
    <2> QED BY <1>3, <2>3 DEF ProviderSettles, TypeOK
  <1>4. CASE Tick
    <2>1. \A p \in Payments : age[p] \in 0..Sla /\ AtMost(age[p] + 1, Sla) \in 0..Sla
      BY RefundAssumption DEF RefundAssumption, TypeOK, AtMost
    <2> QED BY <1>4, <2>1 DEF Tick, TypeOK
  <1> QED BY <1>1, <1>2, <1>3, <1>4, RequesterType, ReconcilerType DEF Next

-----------------------------------------------------------------------------
(* What the calls hold. *)

(* Every step keeps what requests and reconcilers have in hand.             *)
LEMMA NextHands ==
    ASSUME TypeOK, HandsOk, Next
    PROVE  HandsOk'
  <1>1. ASSUME NEW q \in Requesters, NEW p \in Payments, NEW size \in Sizes,
               initiateRefund(q, p, size)
        PROVE  HandsOk'
    BY <1>1 DEF initiateRefund, HandsOk, TypeOK
  <1>2. ASSUME NEW q \in Requesters, RequesterStep(q)
        PROVE  HandsOk'
    <2>1. \/ ReqEnds(q)
          \/ /\ req[q].pc \in {"reserve", "post"}
             /\ \E pc \in {"post", "persist", "reject", "uncertain"} : ReqGoTo(q, pc)
      BY <1>2 DEF RequesterStep, reserveRefund, PostAccepted, PostLost, PostRejected,
         PersistRefundId, FinalizeRejected, markRefundUncertain
    <2>2. req[q].pc # "idle" /\ UNCHANGED rec
      BY <1>2 DEF RequesterStep, reserveRefund, PostAccepted, PostLost, PostRejected,
         PersistRefundId, FinalizeRejected, markRefundUncertain
    <2> QED BY <2>1, <2>2 DEF HandsOk, ReqEnds, ReqGoTo, IdleReq, TypeOK, ReqStates
  <1>3. ASSUME NEW q \in Requesters, RequesterFault(q)
        PROVE  HandsOk'
    BY <1>3 DEF RequesterFault, HandleResultError, CrashRequester, HandsOk, ReqEnds, IdleReq,
       TypeOK, ReqStates
  <1>4. ASSUME NEW r \in Reconcilers, UNCHANGED req,
               \/ RecDone(r)
               \/ rec' = [rec EXCEPT ![r] = IdleRec]
               \/ RecGoTo(r, "review") /\ rec[r].pc \notin {"idle", "batch"}
               \/ RecGoTo(r, "recordFailure") /\ rec[r].pc = "fetch"
               \/ RecGoTo(r, "fetch") /\ rec[r].pc = "adopt"
               \/ RecGoTo(r, "reread") /\ rec[r].pc = "adopt"
               \/ RecGoTo(r, "finalize") /\ rec[r].pc = "record"
                     /\ rec[r].found \in {"SUCCEEDED", "FAILED"}
        PROVE  HandsOk'
    <2>1. CASE RecDone(r) \/ rec' = [rec EXCEPT ![r] = IdleRec]
      <3>1. IdleRec.pc = "idle" /\ [IdleRec EXCEPT !.pc = "batch", !.todo = rec[r].todo].pc = "batch"
        BY DEF IdleRec
      <3>2. rec'[r].pc \in {"idle", "batch"} /\ \A o \in Reconcilers \ {r} : rec'[o] = rec[o]
        BY <2>1, <3>1 DEF RecDone, TypeOK
      <3> QED BY <1>4, <3>2 DEF HandsOk
    <2>2. ASSUME NEW pc \in RecPcs, RecGoTo(r, pc)
          PROVE  /\ rec'[r] = [rec[r] EXCEPT !.pc = pc]
                 /\ rec'[r].pc = pc /\ rec'[r].payment = rec[r].payment
                 /\ rec'[r].id = rec[r].id /\ rec'[r].found = rec[r].found
                 /\ \A o \in Reconcilers \ {r} : rec'[o] = rec[o]
      BY <2>2 DEF RecGoTo, TypeOK, RecStates
    <2>3. CASE RecGoTo(r, "review") /\ rec[r].pc \notin {"idle", "batch"}
      BY <1>4, <2>2, <2>3 DEF HandsOk, RecPcs
    <2>4. CASE rec[r].pc = "fetch" /\ RecGoTo(r, "recordFailure")
      BY <1>4, <2>2, <2>4 DEF HandsOk, RecPcs
    <2>5. CASE rec[r].pc = "adopt" /\ (RecGoTo(r, "fetch") \/ RecGoTo(r, "reread"))
      BY <1>4, <2>2, <2>5 DEF HandsOk, RecPcs
    <2>6. CASE /\ RecGoTo(r, "finalize") /\ rec[r].pc = "record"
               /\ rec[r].found \in {"SUCCEEDED", "FAILED"}
      BY <1>4, <2>2, <2>6 DEF HandsOk, RecPcs
    <2> QED BY <1>4, <2>1, <2>3, <2>4, <2>5, <2>6
  <1>5. ASSUME NEW r \in Reconcilers, reconcileProcessingRefunds(r)
        PROVE  HandsOk'
    BY <1>5 DEF reconcileProcessingRefunds, HandsOk, TypeOK, RecStates
  <1>6. ASSUME NEW r \in Reconcilers, NEW i \in RefundIds, RefundWebhook(r, i)
        PROVE  HandsOk'
    <2>1. i[1] \in Payments
      BY DEF RefundIds
    <2> QED BY <1>6, <2>1 DEF RefundWebhook, HandsOk, TypeOK, RecStates
  <1>7. ASSUME NEW r \in Reconcilers, NEW p \in Payments, NEW i \in RefundIds,
               AdminReconciles(r, p, i)
        PROVE  HandsOk'
    BY <1>7 DEF AdminReconciles, HandsOk, TypeOK, RecStates
  <1>8. ASSUME NEW r \in Reconcilers, NextOfBatch(r)
        PROVE  HandsOk'
    <2>1. PICK s \in rec[r].todo : rec' = [rec EXCEPT ![r] =
              [IdleRec EXCEPT !.pc = IF s.providerId = NoRefund THEN "review" ELSE "fetch",
                              !.todo = rec[r].todo \ {s}, !.payment = s.payment,
                              !.id = s.providerId, !.failures = s.failures]]
      BY <1>8 DEF NextOfBatch
    <2>2. s \in Snapshots
      BY DEF TypeOK, RecStates
    <2> QED BY <1>8, <2>1, <2>2 DEF NextOfBatch, HandsOk, TypeOK, Snapshots, IdleRec
  <1>9. ASSUME NEW r \in Reconcilers, reconcileWebhookRefund(r) \/ RereadPayment(r)
        PROVE  HandsOk'
    <2> DEFINE p == rec[r].payment
    <2>1. rec[r].pc \in {"webhook", "reread"} /\ UNCHANGED req
      BY <1>9 DEF reconcileWebhookRefund, RereadPayment
    <2>2. \/ RecDone(r) \/ RecGoTo(r, "review")
          \/ \E pc \in {"adopt", "fetch", "review"} :
                rec' = [rec EXCEPT ![r].failures = row[p].failures, ![r].pc = pc]
      BY <1>9 DEF reconcileWebhookRefund, RereadPayment
    <2>3. ASSUME NEW pc \in {"adopt", "fetch", "review"},
                 rec' = [rec EXCEPT ![r].failures = row[p].failures, ![r].pc = pc]
          PROVE  HandsOk'
      BY <2>1, <2>3 DEF HandsOk, TypeOK, RecStates
    <2> QED BY <1>4, <2>1, <2>2, <2>3
  <1>10. ASSUME NEW r \in Reconcilers, AdoptRefundId(r)
         PROVE  HandsOk'
    BY <1>4, <1>10 DEF AdoptRefundId
  <1>11. ASSUME NEW r \in Reconcilers, FetchRefund(r) \/ FetchOdd(r) \/ FetchFails(r)
         PROVE  HandsOk'
    <2>1. rec[r].pc = "fetch" /\ UNCHANGED req
      BY <1>11 DEF FetchRefund, FetchOdd, FetchFails
    <2>2. CASE RecGoTo(r, "review") \/ RecGoTo(r, "recordFailure")
      BY <1>4, <2>1, <2>2
    <2>3. ASSUME NEW f, NEW z,
                 rec' = [rec EXCEPT ![r].pc = "record", ![r].found = f, ![r].size = z]
          PROVE  HandsOk'
      BY <2>1, <2>3 DEF HandsOk, TypeOK, RecStates
    <2>4. CASE rec' = [rec EXCEPT ![r].pc = "record", ![r].found = "UNKNOWN"]
      BY <2>1, <2>4 DEF HandsOk, TypeOK, RecStates
    <2> QED BY <1>11, <2>2, <2>3, <2>4 DEF FetchRefund, FetchOdd, FetchFails
  <1>12. ASSUME NEW r \in Reconcilers, RecordCheck(r) \/ handleFetchFailure(r)
         PROVE  HandsOk'
    <2>1. rec[r].pc \in {"record", "recordFailure"} /\ UNCHANGED req
      BY <1>12 DEF RecordCheck, handleFetchFailure
    <2>2. \/ RecDone(r) \/ RecGoTo(r, "review")
          \/ /\ RecGoTo(r, "finalize") /\ rec[r].pc = "record"
             /\ rec[r].found \in {"SUCCEEDED", "FAILED"}
      BY <1>12 DEF RecordCheck, handleFetchFailure
    <2> QED BY <1>4, <2>1, <2>2
  <1>13. ASSUME NEW r \in Reconcilers,
                FinalizeRefund(r) \/ HandOver(r) \/ ReconcileError(r) \/ CrashReconciler(r)
         PROVE  HandsOk'
    BY <1>4, <1>13 DEF FinalizeRefund, HandOver, ReconcileError, CrashReconciler
  <1>14. CASE UNCHANGED <<req, rec>>
    BY <1>14 DEF HandsOk
  <1> QED BY <1>1, <1>2, <1>3, <1>5, <1>6, <1>7, <1>8, <1>9, <1>10, <1>11, <1>12, <1>13, <1>14
          DEF Next, ReconcilerStep, ReconcilerFault, confirmFromPayment, cancelBooking,
              DeskRefund, ProviderSettles, Tick

(* A refund the provider knows stays known.                                 *)
LEMMA RefundsStay ==
    ASSUME TypeOK, HandsOk, Next
    PROVE  \A i \in RefundIds : refund[i].state # "NONE" => refund'[i].state # "NONE"
  <1>1. ASSUME NEW q \in Requesters, PostAccepted(q) \/ PostLost(q)
        PROVE  \A i \in RefundIds : refund[i].state # "NONE" => refund'[i].state # "NONE"
    BY <1>1 DEF PostAccepted, PostLost, Accepted, TypeOK
  <1>2. ASSUME NEW p \in Payments, NEW size \in Sizes, DeskRefund(p, size)
        PROVE  \A i \in RefundIds : refund[i].state # "NONE" => refund'[i].state # "NONE"
    BY <1>2 DEF DeskRefund, TypeOK
  <1>3. ASSUME NEW j \in RefundIds, ProviderSettles(j)
        PROVE  \A i \in RefundIds : refund[i].state # "NONE" => refund'[i].state # "NONE"
    BY <1>3 DEF ProviderSettles, TypeOK, ProviderRefunds
  <1>4. CASE UNCHANGED refund
    BY <1>4
  <1>5. ASSUME NEW q \in Requesters, RequesterStep(q) \/ RequesterFault(q)
        PROVE  PostAccepted(q) \/ PostLost(q) \/ UNCHANGED refund
    BY <1>5 DEF RequesterStep, RequesterFault, reserveRefund, PostRejected, PersistRefundId,
       FinalizeRejected, markRefundUncertain, HandleResultError, CrashRequester
  <1>6. ASSUME NEW q \in Requesters, NEW p \in Payments, NEW size \in Sizes,
               initiateRefund(q, p, size)
        PROVE  UNCHANGED refund
    BY <1>6 DEF initiateRefund
  <1>7. ASSUME NEW r \in Reconcilers, ReconcilerStep(r) \/ ReconcilerFault(r)
        PROVE  UNCHANGED refund
    BY <1>7 DEF ReconcilerStep, ReconcilerFault, NextOfBatch, reconcileWebhookRefund,
       AdoptRefundId, RereadPayment, FetchRefund, RecordCheck, handleFetchFailure,
       FinalizeRefund, HandOver, FetchOdd, FetchFails, ReconcileError, CrashReconciler
  <1>8. ASSUME NEW r \in Reconcilers,
               \/ reconcileProcessingRefunds(r)
               \/ \E i \in RefundIds : RefundWebhook(r, i)
               \/ \E p \in Payments, i \in RefundIds : AdminReconciles(r, p, i)
        PROVE  UNCHANGED refund
    BY <1>8 DEF reconcileProcessingRefunds, RefundWebhook, AdminReconciles
  <1>9. ASSUME NEW p \in Payments, confirmFromPayment(p) \/ cancelBooking(p)
        PROVE  UNCHANGED refund
    BY <1>9 DEF confirmFromPayment, cancelBooking
  <1>10. Tick => UNCHANGED refund
    BY DEF Tick
  <1> QED BY <1>1, <1>2, <1>3, <1>4, <1>5, <1>6, <1>7, <1>8, <1>9, <1>10 DEF Next

(* finalize, review and check leave the refund id alone.                    *)
LEMMA IdsKept ==
    ASSUME TypeOK, NEW p \in Payments, NEW s, NEW failed,
           \/ finalize(p, s) \/ requestManualReview(p) \/ recordProviderCheck(p, failed)
    PROVE  \A x \in Payments : row'[x].providerId = row[x].providerId
  <1>1. \A x \in Payments : row[x] \in Rows
    BY DEF TypeOK
  <1> QED BY <1>1 DEF TypeOK, Rows, finalize, requestManualReview, recordProviderCheck

(* Every step keeps the ids known to the provider.                          *)
LEMMA NextIds ==
    ASSUME TypeOK, HandsOk, IdsExist, Next
    PROVE  IdsExist'
  <1>0. \A i \in RefundIds : refund[i].state # "NONE" => refund'[i].state # "NONE"
    BY RefundsStay
  <1>1. \A p \in Payments : row[p] \in Rows
    BY DEF TypeOK
  <1>2. ASSUME NEW p \in Payments, row'[p].providerId # NoRefund
        PROVE  refund'[row'[p].providerId].state # "NONE"
    <2>1. CASE row'[p].providerId = row[p].providerId
      BY <1>0, <1>1, <1>2, <2>1 DEF IdsExist, Rows
    <2>2. ASSUME NEW q \in Requesters, PersistRefundId(q)
          PROVE  row'[p].providerId = row[p].providerId
                 \/ (row'[p].providerId = <<p, "own">> /\ refund[<<p, "own">>].state # "NONE")
      BY <1>1, <2>2 DEF PersistRefundId, IdsExist, TypeOK, Rows
    <2>3. ASSUME NEW q \in Requesters, markRefundUncertain(q)
          PROVE  row'[p].providerId = row[p].providerId
                 \/ (row'[p].providerId = <<p, "own">> /\ refund[<<p, "own">>].state # "NONE")
      <3>1. CASE p # req[q].payment \/ ~StillProcessing(req[q].payment)
        BY <2>3, <3>1 DEF markRefundUncertain, TypeOK
      <3>2. CASE p = req[q].payment /\ StillProcessing(req[q].payment)
        <4>1. row'[p].providerId = IF req[q].known THEN <<p, "own">> ELSE row[p].providerId
          BY <1>1, <2>3, <3>2 DEF markRefundUncertain, TypeOK, Rows
        <4> QED BY <2>3, <3>2, <4>1 DEF markRefundUncertain, IdsExist
      <3> QED BY <3>1, <3>2
    <2>4. ASSUME NEW r \in Reconcilers, AdoptRefundId(r)
          PROVE  row'[p].providerId = row[p].providerId
                 \/ (row'[p].providerId = rec[r].id /\ rec[r].id \in RefundIds
                     /\ refund[rec[r].id].state # "NONE")
      BY <1>1, <2>4 DEF AdoptRefundId, IdsExist, HandsOk, TypeOK, Rows
    <2>5. ASSUME NEW q \in Requesters, reserveRefund(q)
          PROVE  row'[p].providerId = row[p].providerId
      BY <1>1, <2>5 DEF reserveRefund, TypeOK, Rows
    <2>6. ASSUME NEW q \in Requesters, FinalizeRejected(q)
          PROVE  row'[p].providerId = row[p].providerId
      BY <2>6, IdsKept DEF FinalizeRejected, HandsOk
    <2>7. ASSUME NEW r \in Reconcilers,
                 RecordCheck(r) \/ handleFetchFailure(r) \/ FinalizeRefund(r) \/ HandOver(r)
          PROVE  row'[p].providerId = row[p].providerId
      BY <2>7, IdsKept DEF RecordCheck, handleFetchFailure, FinalizeRefund, HandOver, HandsOk
    <2>8. <<p, "own">> \in RefundIds
      BY DEF RefundIds, Kinds
    <2>9. CASE UNCHANGED row
      BY <2>1, <2>9
    <2> QED BY <1>0, <2>1, <2>2, <2>3, <2>4, <2>5, <2>6, <2>7, <2>8, <2>9
            DEF Next, initiateRefund, RequesterStep, RequesterFault,
          PostAccepted, PostLost, PostRejected, HandleResultError, CrashRequester,
          reconcileProcessingRefunds, RefundWebhook, AdminReconciles, ReconcilerStep,
          ReconcilerFault, NextOfBatch, reconcileWebhookRefund, RereadPayment, FetchRefund,
          FetchOdd, FetchFails, ReconcileError, CrashReconciler,
          confirmFromPayment, cancelBooking, DeskRefund, ProviderSettles, Tick
  <1> DEFINE Holding(k) == k.pc = "persist" \/ (k.pc = "uncertain" /\ k.known)
  <1>3. ASSUME NEW q \in Requesters, Holding(req'[q])
        PROVE  refund'[<<req'[q].payment, "own">>].state # "NONE"
    <2>0. req[q] \in ReqStates
      BY DEF TypeOK
    <2>1. CASE req'[q] = req[q]
      <3>1. req[q].payment \in Payments
        BY <1>3, <2>1 DEF HandsOk
      <3>2. <<req[q].payment, "own">> \in RefundIds
        BY <3>1 DEF RefundIds, Kinds
      <3> QED BY <1>0, <1>3, <2>1, <3>2 DEF IdsExist
    <2>2. ASSUME NEW o \in Requesters, PostAccepted(o)
          PROVE  req'[q] = req[q] \/ refund'[<<req'[q].payment, "own">>].state # "NONE"
      <3>1. req[o].payment \in Payments /\ <<req[o].payment, "own">> \in RefundIds
        BY <2>2 DEF PostAccepted, HandsOk, RefundIds, Kinds
      <3>2. refund'[<<req[o].payment, "own">>].state # "NONE"
        BY <2>2, <3>1 DEF PostAccepted, Accepted, TypeOK
      <3>3. q = o => req'[q].payment = req[o].payment
        BY <2>0, <2>2 DEF PostAccepted, ReqGoTo, TypeOK, ReqStates
      <3> QED BY <2>2, <3>2, <3>3 DEF PostAccepted, ReqGoTo, TypeOK
    <2>3. ASSUME NEW o \in Requesters, HandleResultError(o)
          PROVE  req'[q] = req[q]
                 \/ (req[q].pc = "persist" /\ req'[q].payment = req[q].payment)
      BY <1>3, <2>0, <2>3 DEF HandleResultError, TypeOK, ReqStates
    <2>4. ASSUME NEW o \in Requesters,
                 \/ ReqEnds(o)
                 \/ ReqGoTo(o, "post") \/ ReqGoTo(o, "reject")
                 \/ ReqGoTo(o, "uncertain") /\ req[o].pc = "post"
                 \/ \E p \in Payments, size \in Sizes : initiateRefund(o, p, size)
          PROVE  req'[q] = req[q]
      BY <1>3, <2>0, <2>4 DEF ReqEnds, ReqGoTo, initiateRefund, IdleReq, HandsOk, TypeOK,
         ReqStates
    <2>5. CASE \E o \in Requesters : HandleResultError(o)
      <3>1. req[q].pc = "persist" => <<req[q].payment, "own">> \in RefundIds
        BY DEF HandsOk, RefundIds, Kinds
      <3> QED BY <1>0, <2>1, <2>3, <2>5, <3>1 DEF IdsExist
    <2>6. CASE UNCHANGED req
      BY <2>1, <2>6
    <2>7. \/ UNCHANGED req
          \/ \E o \in Requesters :
               \/ PostAccepted(o) \/ HandleResultError(o)
               \/ ReqEnds(o) \/ ReqGoTo(o, "post") \/ ReqGoTo(o, "reject")
               \/ ReqGoTo(o, "uncertain") /\ req[o].pc = "post"
               \/ \E p \in Payments, size \in Sizes : initiateRefund(o, p, size)
      <3>1. ASSUME NEW o \in Requesters, RequesterStep(o) \/ RequesterFault(o)
            PROVE  \/ PostAccepted(o) \/ HandleResultError(o)
                   \/ ReqEnds(o) \/ ReqGoTo(o, "post") \/ ReqGoTo(o, "reject")
                   \/ ReqGoTo(o, "uncertain") /\ req[o].pc = "post"
        BY <3>1 DEF RequesterStep, RequesterFault, reserveRefund, PostLost, PostRejected,
           PersistRefundId, FinalizeRejected, markRefundUncertain, CrashRequester
      <3>2. ASSUME NEW o \in Reconcilers, ReconcilerStep(o) \/ ReconcilerFault(o)
            PROVE  UNCHANGED req
        BY <3>2 DEF ReconcilerStep, ReconcilerFault, NextOfBatch, reconcileWebhookRefund,
           AdoptRefundId, RereadPayment, FetchRefund, RecordCheck, handleFetchFailure,
           FinalizeRefund, HandOver, FetchOdd, FetchFails, ReconcileError, CrashReconciler
      <3>3. ASSUME NEW o \in Reconcilers,
                   \/ reconcileProcessingRefunds(o)
                   \/ \E i \in RefundIds : RefundWebhook(o, i)
                   \/ \E p \in Payments, i \in RefundIds : AdminReconciles(o, p, i)
            PROVE  UNCHANGED req
        BY <3>3 DEF reconcileProcessingRefunds, RefundWebhook, AdminReconciles
      <3>4. ASSUME NEW p \in Payments,
                   \/ confirmFromPayment(p) \/ cancelBooking(p)
                   \/ \E size \in Sizes : DeskRefund(p, size)
            PROVE  UNCHANGED req
        BY <3>4 DEF confirmFromPayment, cancelBooking, DeskRefund
      <3>5. ASSUME NEW i \in RefundIds, ProviderSettles(i) PROVE UNCHANGED req
        BY <3>5 DEF ProviderSettles
      <3>6. Tick => UNCHANGED req
        BY DEF Tick
      <3> QED BY <3>1, <3>2, <3>3, <3>4, <3>5, <3>6 DEF Next
    <2> QED BY <2>1, <2>2, <2>4, <2>5, <2>6, <2>7
  <1> DEFINE RecOk(k) ==
        /\ \A s \in k.todo : s.providerId # NoRefund => refund[s.providerId].state # "NONE"
        /\ k.pc \in {"webhook", "adopt", "reread", "fetch"} => refund[k.id].state # "NONE"
  <1>4. ASSUME NEW r \in Reconcilers
        PROVE  RecOk(rec'[r])
    <2>0. rec[r] \in RecStates /\ RecOk(rec[r]) /\ rec[r].todo \subseteq Snapshots
      BY DEF TypeOK, IdsExist, RecStates
    <2>1. CASE rec'[r] = rec[r]
      BY <2>0, <2>1
    <2>2. ASSUME NEW o \in Reconcilers, reconcileProcessingRefunds(o)
          PROVE  RecOk(rec'[r])
      <3>1. PICK b \in SUBSET Payments :
               rec' = [rec EXCEPT ![o].pc = "batch", ![o].todo = {Snapshot(p) : p \in b}]
        BY <2>2 DEF reconcileProcessingRefunds
      <3>2. \A s \in {Snapshot(p) : p \in b} :
               s.providerId # NoRefund => refund[s.providerId].state # "NONE"
        BY DEF Snapshot, IdsExist
      <3>3. r = o => rec'[r].todo = {Snapshot(p) : p \in b} /\ rec'[r].pc = "batch"
        BY <2>0, <3>1 DEF TypeOK, RecStates
      <3>4. r # o => rec'[r] = rec[r]
        BY <3>1 DEF TypeOK
      <3> QED BY <2>1, <3>2, <3>3, <3>4
    <2>3. ASSUME NEW o \in Reconcilers, NEW p \in Payments, NEW i \in RefundIds,
                 refund[i].state # "NONE",
                 rec' = [rec EXCEPT ![o].pc = "webhook", ![o].payment = p, ![o].id = i]
          PROVE  RecOk(rec'[r])
      <3>1. r = o => rec'[r].todo = rec[r].todo /\ rec'[r].id = i
        BY <2>0, <2>3 DEF TypeOK, RecStates
      <3>2. r # o => rec'[r] = rec[r]
        BY <2>3 DEF TypeOK
      <3> QED BY <2>0, <2>1, <2>3, <3>1, <3>2
    <2>4. ASSUME NEW o \in Reconcilers, NextOfBatch(o)
          PROVE  RecOk(rec'[r])
      <3>1. PICK s \in rec[o].todo : rec' = [rec EXCEPT ![o] =
              [IdleRec EXCEPT !.pc = IF s.providerId = NoRefund THEN "review" ELSE "fetch",
                              !.todo = rec[o].todo \ {s}, !.payment = s.payment,
                              !.id = s.providerId, !.failures = s.failures]]
        BY <2>4 DEF NextOfBatch
      <3>2. r = o => /\ rec'[r].todo = rec[r].todo \ {s} /\ rec'[r].id = s.providerId
                     /\ rec'[r].pc = IF s.providerId = NoRefund THEN "review" ELSE "fetch"
        BY <3>1 DEF TypeOK, IdleRec
      <3>3. r # o => rec'[r] = rec[r]
        BY <3>1 DEF TypeOK
      <3> QED BY <2>0, <2>1, <3>2, <3>3
    <2>5. ASSUME NEW o \in Reconcilers, RecDone(o) \/ rec' = [rec EXCEPT ![o] = IdleRec]
          PROVE  RecOk(rec'[r])
      <3>1. r = o => rec'[r].todo \subseteq rec[r].todo /\ rec'[r].pc \in {"idle", "batch"}
        <4>1. /\ IdleRec.todo = {} /\ IdleRec.pc = "idle"
              /\ [IdleRec EXCEPT !.pc = "batch", !.todo = rec[r].todo].todo = rec[r].todo
              /\ [IdleRec EXCEPT !.pc = "batch", !.todo = rec[r].todo].pc = "batch"
          BY DEF IdleRec
        <4> QED BY <2>5, <4>1 DEF RecDone, TypeOK
      <3>2. r # o => rec'[r] = rec[r]
        BY <2>5 DEF RecDone, TypeOK
      <3> QED BY <2>0, <2>1, <3>1, <3>2
    <2>6. ASSUME NEW o \in Reconcilers,
                 r = o => /\ rec'[r].todo = rec[r].todo /\ rec'[r].id = rec[r].id
                          /\ \/ rec[r].pc \in {"webhook", "adopt", "reread", "fetch"}
                             \/ rec'[r].pc \notin {"webhook", "adopt", "reread", "fetch"},
                 r # o => rec'[r] = rec[r]
          PROVE  RecOk(rec'[r])
      BY <2>0, <2>1, <2>6
    <2>7. ASSUME NEW o \in Reconcilers, NEW pc \in RecPcs, RecGoTo(o, pc),
                 \/ rec[o].pc \in {"webhook", "adopt", "reread", "fetch"}
                 \/ pc \notin {"webhook", "adopt", "reread", "fetch"}
          PROVE  RecOk(rec'[r])
      <3>1. /\ r = o => /\ rec'[r].todo = rec[r].todo /\ rec'[r].id = rec[r].id
                        /\ rec'[r].pc = pc
            /\ r # o => rec'[r] = rec[r]
        BY <2>0, <2>7 DEF RecGoTo, TypeOK, RecStates
      <3> QED BY <2>6, <2>7, <3>1
    <2>8. ASSUME NEW o \in Reconcilers, reconcileWebhookRefund(o) \/ RereadPayment(o)
          PROVE  RecOk(rec'[r])
      <3>1. rec[o].pc \in {"webhook", "reread"}
        BY <2>8 DEF reconcileWebhookRefund, RereadPayment
      <3>2. \/ RecDone(o) \/ RecGoTo(o, "review")
            \/ \E n, pc : rec' = [rec EXCEPT ![o].failures = n, ![o].pc = pc]
        BY <2>8 DEF reconcileWebhookRefund, RereadPayment
      <3>3. CASE RecDone(o) \/ RecGoTo(o, "review")
        BY <2>5, <2>7, <3>1, <3>3 DEF RecPcs
      <3>4. ASSUME NEW n, NEW pc, rec' = [rec EXCEPT ![o].failures = n, ![o].pc = pc]
            PROVE  RecOk(rec'[r])
        <4>1. /\ r = o => rec'[r].todo = rec[r].todo /\ rec'[r].id = rec[r].id
              /\ r # o => rec'[r] = rec[r]
          BY <2>0, <3>4 DEF TypeOK, RecStates
        <4> QED BY <2>6, <3>1, <4>1
      <3> QED BY <3>2, <3>3, <3>4
    <2>9. ASSUME NEW o \in Reconcilers, FetchRefund(o) \/ FetchOdd(o) \/ FetchFails(o)
          PROVE  RecOk(rec'[r])
      <3>1. rec[o].pc = "fetch"
        BY <2>9 DEF FetchRefund, FetchOdd, FetchFails
      <3>2. /\ r = o => rec'[r].todo = rec[r].todo /\ rec'[r].id = rec[r].id
            /\ r # o => rec'[r] = rec[r]
        BY <2>0, <2>9 DEF FetchRefund, FetchOdd, FetchFails, RecGoTo, TypeOK, RecStates
      <3> QED BY <2>6, <3>1, <3>2
    <2>10. ASSUME NEW o \in Reconcilers,
                  \/ AdoptRefundId(o) \/ RecordCheck(o) \/ handleFetchFailure(o)
                  \/ FinalizeRefund(o) \/ HandOver(o) \/ ReconcileError(o) \/ CrashReconciler(o)
           PROVE  RecOk(rec'[r])
      <3>1. \/ RecDone(o) \/ rec' = [rec EXCEPT ![o] = IdleRec]
            \/ /\ rec[o].pc = "adopt"
               /\ RecGoTo(o, "fetch") \/ RecGoTo(o, "reread")
            \/ RecGoTo(o, "review") \/ RecGoTo(o, "finalize")
        BY <2>10 DEF AdoptRefundId, RecordCheck, handleFetchFailure, FinalizeRefund, HandOver,
           ReconcileError, CrashReconciler
      <3> QED BY <2>5, <2>7, <3>1 DEF RecPcs
    <2>11. ASSUME NEW o \in Reconcilers, NEW i \in RefundIds, RefundWebhook(o, i)
           PROVE  RecOk(rec'[r])
      <3>1. i[1] \in Payments
        BY DEF RefundIds
      <3> QED BY <2>3, <2>11, <3>1 DEF RefundWebhook
    <2>12. ASSUME NEW o \in Reconcilers, NEW p \in Payments, NEW i \in RefundIds,
                  AdminReconciles(o, p, i)
           PROVE  RecOk(rec'[r])
      <3>1. refund[i].state # "NONE"
        BY <2>12, RefundAssumption DEF AdminReconciles, IdsExist, RefundAssumption
      <3> QED BY <2>3, <2>12, <3>1 DEF AdminReconciles
    <2>13. CASE UNCHANGED rec
      BY <2>1, <2>13
    <2> HIDE DEF RecOk
    <2> QED BY <2>2, <2>4, <2>8, <2>9, <2>10, <2>11, <2>12, <2>13
            DEF Next, initiateRefund, RequesterStep, RequesterFault, reserveRefund,
          PostAccepted, PostLost, PostRejected, PersistRefundId, FinalizeRejected,
          markRefundUncertain, HandleResultError, CrashRequester, ReconcilerStep,
          ReconcilerFault, confirmFromPayment, cancelBooking, DeskRefund, ProviderSettles, Tick
  <1>5. ASSUME NEW r \in Reconcilers
        PROVE  /\ \A s \in rec'[r].todo : s.providerId # NoRefund =>
                     refund'[s.providerId].state # "NONE"
               /\ rec'[r].pc \in {"webhook", "adopt", "reread", "fetch"} =>
                     refund'[rec'[r].id].state # "NONE"
    <2>1. TypeOK' /\ HandsOk'
      BY NextType, NextHands
    <2>2. /\ \A s \in rec'[r].todo : s.providerId \in RefundIds \cup {NoRefund}
          /\ rec'[r].pc \in {"webhook", "adopt", "reread", "fetch"} => rec'[r].id \in RefundIds
      BY <2>1 DEF TypeOK, HandsOk, RecStates, Snapshots
    <2> QED BY <1>0, <1>4, <2>2
  <1> QED BY <1>2, <1>3, <1>5 DEF IdsExist

-----------------------------------------------------------------------------
(* The payment and its booking move together. *)

(* What a step may do to a payment, its booking or extension and the        *)
(* hand-over.                                                               *)
Kept(p) ==
    /\ row'[p].status = row[p].status /\ row'[p].reviewed = row[p].reviewed
    /\ domain'[p] = domain[p] /\ emails'[p] = emails[p]
DomainMoves(p) ==
    /\ row'[p] = row[p] /\ emails'[p] = emails[p]
    /\ domain[p] \in {"UNPAID", "PAID"} /\ domain'[p] \in {"PAID", "REFUND_PROCESSING"}
    /\ domain[p] = "UNPAID" => domain'[p] = "PAID"
Reviewed(p) ==
    /\ row'[p].status = row[p].status /\ ~row[p].reviewed /\ row'[p].reviewed
    /\ domain'[p] = domain[p] /\ emails'[p] = emails[p] + 1
Reserved(p) ==
    /\ row[p].status = "SUCCESSFUL" /\ row'[p].status = "REFUND_PROCESSING"
    /\ domain'[p] = "REFUND_PROCESSING" /\ ~row'[p].reviewed /\ emails'[p] = 0
Uncertain(p) ==
    /\ row[p].status = "REFUND_PROCESSING" /\ row'[p].status = "REFUND_ERROR"
    /\ row'[p].reviewed = row[p].reviewed /\ domain'[p] = domain[p] /\ emails'[p] = emails[p]
Finished(p, s) ==
    /\ row[p].status \in InProgress /\ s \in Terminal
    /\ row'[p].status = s /\ domain'[p] = s
    /\ row'[p].reviewed = row[p].reviewed /\ emails'[p] = emails[p]

RowStep(p) ==
    \/ Kept(p) \/ DomainMoves(p) \/ Reviewed(p) \/ Reserved(p) \/ Uncertain(p)
    \/ \E q \in Requesters : /\ req[q].pc = "reject" /\ req[q].payment = p
                             /\ Finished(p, "REFUND_FAILED")
    \/ \E r \in Reconcilers : /\ rec[r].pc = "finalize" /\ rec[r].payment = p
                              /\ Finished(p, Outcome(r))

(* requestManualReview marks one payment, or does nothing.                  *)
LEMMA ReviewEffect ==
    ASSUME TypeOK, NEW p \in Payments, NEW x \in Payments, requestManualReview(p),
           UNCHANGED domain
    PROVE  Kept(x) \/ Reviewed(x)
  <1>1. row[x] \in Rows
    BY DEF TypeOK
  <1> QED BY <1>1 DEF requestManualReview, ReviewWhere, Kept, Reviewed, TypeOK, Rows

(* finalize moves both records, or asks for a review, or does nothing.      *)
LEMMA FinalizeEffect ==
    ASSUME TypeOK, NEW p \in Payments, NEW x \in Payments, NEW s \in Terminal, finalize(p, s)
    PROVE  Kept(x) \/ Reviewed(x) \/ (x = p /\ Finished(x, s))
  <1>1. row[x] \in Rows
    BY DEF TypeOK
  <1>2. CASE FinalizeWhere(p) /\ ~DomainOpen(p)
    BY <1>2, ReviewEffect DEF finalize
  <1>3. CASE FinalizeWhere(p) /\ DomainOpen(p)
    BY <1>1, <1>3 DEF finalize, FinalizeWhere, Kept, Finished, TypeOK, Rows
  <1>4. CASE ~FinalizeWhere(p)
    <2>1. /\ row' = [row EXCEPT ![p].status = row[p].status]
          /\ domain' = [domain EXCEPT ![p] = domain[p]] /\ UNCHANGED emails
      BY <1>4 DEF finalize
    <2> QED BY <1>1, <2>1 DEF Kept, TypeOK, Rows
  <1> QED BY <1>2, <1>3, <1>4

(* Every step is one of these, for every payment.                           *)
LEMMA RowStepHolds ==
    ASSUME TypeOK, HandsOk, Next, NEW p \in Payments
    PROVE  RowStep(p)
  <1>0. row[p] \in Rows
    BY DEF TypeOK
  <1>1. ASSUME NEW q \in Requesters, reserveRefund(q)
        PROVE  RowStep(p)
    <2>1. CASE p # req[q].payment
      BY <1>1, <2>1 DEF reserveRefund, RowStep, Kept, TypeOK
    <2>2. CASE p = req[q].payment /\ ReserveWhere(p) /\ DomainOpen(p)
      BY <1>0, <1>1, <2>2 DEF reserveRefund, ReserveWhere, RowStep, Reserved, TypeOK, Rows
    <2>3. CASE p = req[q].payment /\ ~(ReserveWhere(p) /\ DomainOpen(p))
      BY <1>1, <2>3 DEF reserveRefund, RowStep, Kept
    <2> QED BY <2>1, <2>2, <2>3
  <1>2. ASSUME NEW q \in Requesters, PersistRefundId(q)
        PROVE  RowStep(p)
    BY <1>0, <1>2 DEF PersistRefundId, RowStep, Kept, TypeOK, Rows
  <1>3. ASSUME NEW q \in Requesters, FinalizeRejected(q)
        PROVE  RowStep(p)
    <2>1. req[q].payment \in Payments /\ "REFUND_FAILED" \in Terminal /\ req[q].pc = "reject"
      BY <1>3 DEF FinalizeRejected, HandsOk, Terminal
    <2> QED BY <1>3, <2>1, FinalizeEffect DEF FinalizeRejected, RowStep
  <1>4. ASSUME NEW q \in Requesters, markRefundUncertain(q)
        PROVE  RowStep(p)
    <2>1. CASE p # req[q].payment \/ ~StillProcessing(req[q].payment)
      BY <1>4, <2>1 DEF markRefundUncertain, RowStep, Kept, TypeOK
    <2>2. CASE p = req[q].payment /\ StillProcessing(req[q].payment)
      <3>1. row'[p].status = "REFUND_ERROR" /\ row'[p].reviewed = row[p].reviewed
        BY <1>0, <1>4, <2>2 DEF markRefundUncertain, TypeOK, Rows
      <3> QED BY <1>4, <2>2, <3>1 DEF markRefundUncertain, StillProcessing, RowStep, Uncertain
    <2> QED BY <2>1, <2>2
  <1>5. ASSUME NEW r \in Reconcilers, AdoptRefundId(r)
        PROVE  RowStep(p)
    BY <1>0, <1>5 DEF AdoptRefundId, RowStep, Kept, TypeOK, Rows
  <1>6. ASSUME NEW r \in Reconcilers, RecordCheck(r) \/ handleFetchFailure(r)
        PROVE  RowStep(p)
    <2>1. UNCHANGED <<domain, emails>>
      BY <1>6 DEF RecordCheck, handleFetchFailure
    <2>2. \E failed : recordProviderCheck(rec[r].payment, failed)
      BY <1>6 DEF RecordCheck, handleFetchFailure
    <2>3. row'[p].status = row[p].status /\ row'[p].reviewed = row[p].reviewed
      BY <1>0, <2>2 DEF recordProviderCheck, TypeOK, Rows
    <2> QED BY <2>1, <2>3 DEF RowStep, Kept
  <1>7. ASSUME NEW r \in Reconcilers, FinalizeRefund(r)
        PROVE  RowStep(p)
    <2>1. rec[r].payment \in Payments /\ rec[r].pc = "finalize" /\ Outcome(r) \in Terminal
      BY <1>7, OutcomeTerminal DEF FinalizeRefund, HandsOk
    <2> QED BY <1>7, <2>1, FinalizeEffect DEF FinalizeRefund, RowStep
  <1>8. ASSUME NEW r \in Reconcilers, HandOver(r)
        PROVE  RowStep(p)
    <2>1. rec[r].payment \in Payments /\ requestManualReview(rec[r].payment) /\ UNCHANGED domain
      BY <1>8 DEF HandOver, HandsOk
    <2> QED BY <2>1, ReviewEffect DEF RowStep
  <1>9. ASSUME NEW x \in Payments, confirmFromPayment(x) \/ cancelBooking(x)
        PROVE  RowStep(p)
    BY <1>9 DEF confirmFromPayment, cancelBooking, RowStep, Kept, DomainMoves, TypeOK
  <1>10. CASE UNCHANGED <<row, domain, emails>>
    BY <1>10 DEF RowStep, Kept
  <1> QED BY <1>1, <1>2, <1>3, <1>4, <1>5, <1>6, <1>7, <1>8, <1>9, <1>10
          DEF Next, initiateRefund, RequesterStep, RequesterFault,
          PostAccepted, PostLost, PostRejected, HandleResultError, CrashRequester,
          reconcileProcessingRefunds, RefundWebhook, AdminReconciles, ReconcilerStep,
          ReconcilerFault, NextOfBatch, reconcileWebhookRefund, RereadPayment, FetchRefund,
          FetchOdd, FetchFails, ReconcileError, CrashReconciler, DeskRefund, ProviderSettles, Tick

-----------------------------------------------------------------------------
(* The reservation. *)

(* The request has reserved the payment.                                    *)
Past(q, p) ==
    /\ req[q].pc \in {"post", "persist", "reject", "uncertain"}
    /\ req[q].payment = p

(* At most one request gets past the reservation of a payment, and until it *)
(* has an answer the provider knows of no refund of its own.                *)
PostInv ==
    \A p \in Payments :
        /\ \A q \in Requesters : Past(q, p) => row[p].status # "SUCCESSFUL"
        /\ \A q1, q2 \in Requesters : Past(q1, p) /\ Past(q2, p) => q1 = q2
        /\ row[p].status = "SUCCESSFUL" => posts[p] = 0
        /\ \A q \in Requesters : Past(q, p) /\ req[q].pc \in {"post", "reject"} => posts[p] = 0
        /\ posts[p] <= 1
        /\ posts[p] = 0 => refund[<<p, "own">>].state = "NONE"

(* What a step does to the requests.                                        *)
LEMMA ReqMoves ==
    ASSUME Next
    PROVE  \/ UNCHANGED req
           \/ \E o \in Requesters :
                \/ \E p \in Payments, size \in Sizes : initiateRefund(o, p, size)
                \/ reserveRefund(o) \/ ReqEnds(o) \/ HandleResultError(o)
                \/ \E pc \in {"persist", "reject", "uncertain"} :
                      req[o].pc = "post" /\ ReqGoTo(o, pc)
  BY DEF Next, RequesterStep, RequesterFault, PostAccepted, PostLost, PostRejected,
     PersistRefundId, FinalizeRejected, markRefundUncertain, CrashRequester,
     reconcileProcessingRefunds, RefundWebhook, AdminReconciles, ReconcilerStep,
     ReconcilerFault, NextOfBatch, reconcileWebhookRefund, AdoptRefundId, RereadPayment,
     FetchRefund, RecordCheck, handleFetchFailure, FinalizeRefund, HandOver,
     FetchOdd, FetchFails, ReconcileError, CrashReconciler,
     confirmFromPayment, cancelBooking, DeskRefund, ProviderSettles, Tick

(* What a step does to the requests past their reservation.                 *)
LEMMA PastStep ==
    ASSUME TypeOK, HandsOk, Next
    PROVE  \/ \A q \in Requesters, p \in Payments : Past(q, p)' =>
                 Past(q, p) /\ (req'[q].pc \in {"post", "reject"} => req[q].pc \in {"post", "reject"})
           \/ /\ \E q \in Requesters : reserveRefund(q)
              /\ UNCHANGED <<refund, posts>>
  <1> DEFINE Fewer == \A q \in Requesters, p \in Payments : Past(q, p)' =>
                 Past(q, p) /\ (req'[q].pc \in {"post", "reject"} => req[q].pc \in {"post", "reject"})
  <1>0. \A q \in Requesters : req[q] \in ReqStates
    BY DEF TypeOK
  <1>1. ASSUME NEW o \in Requesters, NEW p \in Payments, NEW size \in Sizes,
               initiateRefund(o, p, size)
        PROVE  Fewer
    BY <1>0, <1>1 DEF initiateRefund, Past, TypeOK, ReqStates
  <1>2. ASSUME NEW o \in Requesters, ReqEnds(o)
        PROVE  Fewer
    BY <1>0, <1>2 DEF ReqEnds, IdleReq, Past, TypeOK, ReqStates
  <1>3. ASSUME NEW o \in Requesters, req[o].pc = "post", NEW pc \in {"persist", "reject", "uncertain"},
               ReqGoTo(o, pc)
        PROVE  Fewer
    BY <1>0, <1>3 DEF ReqGoTo, Past, TypeOK, ReqStates
  <1>4. ASSUME NEW o \in Requesters, HandleResultError(o)
        PROVE  Fewer
    BY <1>0, <1>4 DEF HandleResultError, Past, TypeOK, ReqStates
  <1>5. ASSUME UNCHANGED req
        PROVE  Fewer
    BY <1>5 DEF Past
  <1>6. ASSUME NEW o \in Requesters, reserveRefund(o)
        PROVE  UNCHANGED <<refund, posts>>
    BY <1>6 DEF reserveRefund
  <1> HIDE DEF Fewer
  <1>7. \/ UNCHANGED req
        \/ \E o \in Requesters :
             \/ \E p \in Payments, size \in Sizes : initiateRefund(o, p, size)
             \/ reserveRefund(o) \/ ReqEnds(o) \/ HandleResultError(o)
             \/ \E pc \in {"persist", "reject", "uncertain"} :
                   req[o].pc = "post" /\ ReqGoTo(o, pc)
    BY ReqMoves
  <1>8. Fewer \/ \E q \in Requesters : reserveRefund(q)
    <2>1. CASE UNCHANGED req
      BY <1>5, <2>1
    <2>2. ASSUME NEW o \in Requesters,
                 \/ \E p \in Payments, size \in Sizes : initiateRefund(o, p, size)
                 \/ ReqEnds(o) \/ HandleResultError(o)
                 \/ \E pc \in {"persist", "reject", "uncertain"} :
                       req[o].pc = "post" /\ ReqGoTo(o, pc)
          PROVE  Fewer
      BY <1>1, <1>2, <1>3, <1>4, <2>2
    <2> QED BY <1>7, <2>1, <2>2
  <1>9. CASE Fewer
    BY <1>9 DEF Fewer
  <1> QED BY <1>6, <1>8, <1>9

(* What a step does to the provider's refunds.                              *)
LEMMA PostStep ==
    ASSUME TypeOK, HandsOk, Next
    PROVE  \/ UNCHANGED <<refund, posts>>
           \/ \E q \in Requesters :
                /\ req[q].pc = "post" /\ Accepted(req[q].payment, req[q].size)
                /\ ReqGoTo(q, "persist") \/ ReqGoTo(q, "uncertain")
                /\ UNCHANGED row
           \/ /\ UNCHANGED <<posts, req, row>>
              /\ \E p \in Payments, z \in Sizes :
                    /\ refund[<<p, "desk">>].state = "NONE"
                    /\ refund' = [refund EXCEPT ![<<p, "desk">>] =
                                    [state |-> "PENDING", size |-> z]]
           \/ /\ UNCHANGED <<posts, req, row>>
              /\ \E i \in RefundIds, t \in {"SUCCEEDED", "FAILED"} :
                    /\ refund[i].state = "PENDING"
                    /\ refund' = [refund EXCEPT ![i].state = t]
  <1>1. ASSUME NEW i \in RefundIds, ProviderSettles(i)
        PROVE  /\ UNCHANGED <<posts, req, row>>
               /\ \E t \in {"SUCCEEDED", "FAILED"} :
                    /\ refund[i].state = "PENDING"
                    /\ refund' = [refund EXCEPT ![i].state = t]
    BY <1>1 DEF ProviderSettles
  <1>2. ASSUME NEW p \in Payments, NEW z \in Sizes, DeskRefund(p, z)
        PROVE  /\ UNCHANGED <<posts, req, row>>
               /\ refund[<<p, "desk">>].state = "NONE"
               /\ refund' = [refund EXCEPT ![<<p, "desk">>] = [state |-> "PENDING", size |-> z]]
    BY <1>2 DEF DeskRefund
  <1>3. ASSUME NEW q \in Requesters, PostAccepted(q) \/ PostLost(q)
        PROVE  \/ UNCHANGED <<refund, posts>>
               \/ /\ req[q].pc = "post" /\ Accepted(req[q].payment, req[q].size)
                  /\ ReqGoTo(q, "persist") \/ ReqGoTo(q, "uncertain")
                  /\ UNCHANGED row
    BY <1>3 DEF PostAccepted, PostLost
  <1>4. ASSUME NEW q \in Requesters, RequesterStep(q) \/ RequesterFault(q)
        PROVE  UNCHANGED <<refund, posts>> \/ PostAccepted(q) \/ PostLost(q)
    BY <1>4 DEF RequesterStep, RequesterFault, reserveRefund, PostRejected, PersistRefundId,
       FinalizeRejected, markRefundUncertain, HandleResultError, CrashRequester
  <1>5. ASSUME NEW r \in Reconcilers, ReconcilerStep(r) \/ ReconcilerFault(r)
        PROVE  UNCHANGED <<refund, posts>>
    BY <1>5 DEF ReconcilerStep, ReconcilerFault, NextOfBatch, reconcileWebhookRefund,
       AdoptRefundId, RereadPayment, FetchRefund, RecordCheck, handleFetchFailure,
       FinalizeRefund, HandOver, FetchOdd, FetchFails, ReconcileError, CrashReconciler
  <1>6. \/ UNCHANGED <<refund, posts>>
        \/ \E q \in Requesters : PostAccepted(q) \/ PostLost(q)
        \/ \E p \in Payments, z \in Sizes : DeskRefund(p, z)
        \/ \E i \in RefundIds : ProviderSettles(i)
    BY <1>4, <1>5 DEF Next, initiateRefund, reconcileProcessingRefunds, RefundWebhook,
       AdminReconciles, confirmFromPayment, cancelBooking, Tick
  <1> QED BY <1>1, <1>2, <1>3, <1>6

(* Every step keeps the reservation exclusive.                              *)
LEMMA NextPost ==
    ASSUME TypeOK, HandsOk, PostInv, Next
    PROVE  PostInv'
  <1>0. \A p \in Payments : RowStep(p) /\ row[p] \in Rows /\ posts[p] \in Nat
    BY RowStepHolds DEF TypeOK
  <1>1. \A p \in Payments : row'[p].status = "SUCCESSFUL" => row[p].status = "SUCCESSFUL"
    <2> SUFFICES ASSUME NEW p \in Payments, row'[p].status = "SUCCESSFUL"
                 PROVE  row[p].status = "SUCCESSFUL"
      OBVIOUS
    <2>1. "SUCCESSFUL" \notin Terminal
      BY DEF Terminal
    <2> QED BY <1>0, <2>1 DEF RowStep, Kept, DomainMoves, Reviewed, Reserved, Uncertain, Finished
  <1>2. CASE \E q \in Requesters : reserveRefund(q)
    <2>1. PICK o \in Requesters : reserveRefund(o)
      BY <1>2
    <2>2. CASE ReqEnds(o)
      <3>1. \A q \in Requesters, p \in Payments : Past(q, p)' => Past(q, p) /\ req'[q] = req[q]
        BY <2>2 DEF ReqEnds, IdleReq, Past, TypeOK
      <3>2. UNCHANGED <<refund, posts>>
        BY <2>1 DEF reserveRefund
      <3> QED BY <1>1, <3>1, <3>2 DEF PostInv
    <2>3. CASE ReserveWhere(req[o].payment) /\ DomainOpen(req[o].payment)
      <3> DEFINE p0 == req[o].payment
      <3>1. /\ p0 \in Payments /\ row[p0].status = "SUCCESSFUL"
            /\ row'[p0].status = "REFUND_PROCESSING"
            /\ ReqGoTo(o, "post") /\ UNCHANGED <<refund, posts>>
        BY <1>0, <2>1, <2>3 DEF reserveRefund, HandsOk, ReserveWhere, TypeOK, Rows
      <3>2. \A q \in Requesters, p \in Payments :
               Past(q, p)' => \/ q = o /\ p = p0
                              \/ q # o /\ Past(q, p) /\ req'[q] = req[q]
        BY <3>1 DEF ReqGoTo, Past, TypeOK, ReqStates
      <3>3. \A q \in Requesters : ~Past(q, p0)
        BY <3>1 DEF PostInv
      <3>4. posts[p0] = 0
        BY <3>1 DEF PostInv
      <3> HIDE DEF p0
      <3>5. ASSUME NEW p \in Payments
            PROVE  /\ \A q \in Requesters : Past(q, p)' => row'[p].status # "SUCCESSFUL"
                   /\ \A q1, q2 \in Requesters : Past(q1, p)' /\ Past(q2, p)' => q1 = q2
                   /\ row'[p].status = "SUCCESSFUL" => posts'[p] = 0
                   /\ \A q \in Requesters :
                        Past(q, p)' /\ req'[q].pc \in {"post", "reject"} => posts'[p] = 0
                   /\ posts'[p] <= 1
                   /\ posts'[p] = 0 => refund'[<<p, "own">>].state = "NONE"
        <4>1. CASE p = p0
          BY <3>1, <3>2, <3>3, <3>4, <4>1 DEF PostInv
        <4>2. CASE p # p0
          BY <1>1, <3>1, <3>2, <4>2 DEF PostInv
        <4> QED BY <4>1, <4>2
      <3> QED BY <3>5 DEF PostInv
    <2> QED BY <2>1, <2>2, <2>3 DEF reserveRefund
  <1>3. ASSUME \A q \in Requesters, p \in Payments : Past(q, p)' =>
                 Past(q, p) /\ (req'[q].pc \in {"post", "reject"} => req[q].pc \in {"post", "reject"})
        PROVE  PostInv'
    <2>1. CASE UNCHANGED <<refund, posts>>
      BY <1>1, <1>3, <2>1 DEF PostInv
    <2>2. ASSUME NEW o \in Requesters, req[o].pc = "post",
                 Accepted(req[o].payment, req[o].size),
                 ReqGoTo(o, "persist") \/ ReqGoTo(o, "uncertain"), UNCHANGED row
          PROVE  PostInv'
      <3>0. PICK p0 \in Payments : p0 = req[o].payment
        BY <2>2 DEF HandsOk
      <3>1. p0 \in Payments /\ Past(o, p0) /\ posts[p0] = 0
        BY <2>2, <3>0 DEF Past, PostInv
      <3>2. /\ posts'[p0] = 1 /\ \A p \in Payments \ {p0} : posts'[p] = posts[p]
            /\ \A p \in Payments \ {p0} : refund'[<<p, "own">>] = refund[<<p, "own">>]
        BY <2>2, <3>0, <3>1 DEF Accepted, TypeOK, RefundIds, Kinds
      <3>3. row[p0].status # "SUCCESSFUL"
        BY <3>1 DEF PostInv
      <3>4. \A q \in Requesters : Past(q, p0)' => q = o /\ req'[q].pc \notin {"post", "reject"}
        <4>1. req'[o].pc \in {"persist", "uncertain"}
          BY <2>2 DEF ReqGoTo, TypeOK, ReqStates
        <4>2. \A q \in Requesters : Past(q, p0)' => q = o
          BY <1>3, <3>1 DEF PostInv
        <4> QED BY <4>1, <4>2
      <3>5. ASSUME NEW p \in Payments
            PROVE  /\ \A q \in Requesters : Past(q, p)' => row'[p].status # "SUCCESSFUL"
                   /\ \A q1, q2 \in Requesters : Past(q1, p)' /\ Past(q2, p)' => q1 = q2
                   /\ row'[p].status = "SUCCESSFUL" => posts'[p] = 0
                   /\ \A q \in Requesters :
                        Past(q, p)' /\ req'[q].pc \in {"post", "reject"} => posts'[p] = 0
                   /\ posts'[p] <= 1
                   /\ posts'[p] = 0 => refund'[<<p, "own">>].state = "NONE"
        <4>1. CASE p = p0
          BY <2>2, <3>1, <3>2, <3>3, <3>4, <4>1
        <4>2. CASE p # p0
          BY <1>1, <1>3, <2>2, <3>2, <4>2 DEF PostInv
        <4> QED BY <4>1, <4>2
      <3> QED BY <3>5 DEF PostInv
    <2>3. ASSUME UNCHANGED <<posts, req, row>>,
                 \A p \in Payments : refund[<<p, "own">>].state = "NONE" =>
                                        refund'[<<p, "own">>].state = "NONE"
          PROVE  PostInv'
      BY <2>3 DEF PostInv, Past
    <2>4. ASSUME NEW p1 \in Payments, NEW z \in Sizes, UNCHANGED <<posts, req, row>>,
                 refund' = [refund EXCEPT ![<<p1, "desk">>] = [state |-> "PENDING", size |-> z]]
          PROVE  PostInv'
      <3>1. \A p \in Payments : refund'[<<p, "own">>] = refund[<<p, "own">>]
        BY <2>4 DEF TypeOK, RefundIds, Kinds
      <3> QED BY <2>3, <2>4, <3>1
    <2>5. ASSUME NEW i \in RefundIds, NEW t \in {"SUCCEEDED", "FAILED"},
                 UNCHANGED <<posts, req, row>>, refund[i].state = "PENDING",
                 refund' = [refund EXCEPT ![i].state = t]
          PROVE  PostInv'
      <3>1. \A p \in Payments : refund[<<p, "own">>].state = "NONE" =>
                                   refund'[<<p, "own">>].state = "NONE"
        BY <2>5 DEF TypeOK, RefundIds, Kinds
      <3> QED BY <2>3, <2>5, <3>1
    <2> QED BY <2>1, <2>2, <2>4, <2>5, PostStep
  <1> QED BY <1>2, <1>3, PastStep

-----------------------------------------------------------------------------
(* Answers. *)

(* A final answer that a reconciler is about to write is still what the     *)
(* provider says of a refund of this payment.                               *)
AnswersReal ==
    \A r \in Reconcilers :
        rec[r].pc \in {"record", "finalize"} /\ rec[r].found \in {"SUCCEEDED", "FAILED"} =>
        /\ rec[r].id \in RefundIds /\ rec[r].id[1] = rec[r].payment
        /\ refund[rec[r].id].state = rec[r].found /\ refund[rec[r].id].size = rec[r].size

(* A refund the provider has finished does not change.                      *)
LEMMA FinishedStays ==
    ASSUME TypeOK, HandsOk, PostInv, Next, NEW i \in RefundIds,
           refund[i].state \in {"SUCCEEDED", "FAILED"}
    PROVE  refund'[i] = refund[i]
  <1>1. ASSUME NEW q \in Requesters, req[q].pc = "post",
               Accepted(req[q].payment, req[q].size)
        PROVE  refund'[i] = refund[i]
    <2>1. req[q].payment \in Payments /\ Past(q, req[q].payment)
      BY <1>1 DEF HandsOk, Past
    <2>2. refund[<<req[q].payment, "own">>].state = "NONE"
      BY <1>1, <2>1 DEF PostInv
    <2> QED BY <1>1, <2>2 DEF Accepted, TypeOK
  <1>2. ASSUME NEW p \in Payments, NEW z \in Sizes, refund[<<p, "desk">>].state = "NONE",
               refund' = [refund EXCEPT ![<<p, "desk">>] = [state |-> "PENDING", size |-> z]]
        PROVE  refund'[i] = refund[i]
    BY <1>2 DEF TypeOK
  <1>3. ASSUME NEW j \in RefundIds, NEW t, refund[j].state = "PENDING",
               refund' = [refund EXCEPT ![j].state = t]
        PROVE  refund'[i] = refund[i]
    BY <1>3 DEF TypeOK
  <1> QED BY <1>1, <1>2, <1>3, PostStep

(* What a step does to a reconciler that holds an answer.                   *)
LEMMA AnswerStep ==
    ASSUME TypeOK, HandsOk, IdsExist, Next, NEW r \in Reconcilers,
           rec'[r].pc \in {"record", "finalize"}, rec'[r].found \in {"SUCCEEDED", "FAILED"}
    PROVE  /\ rec'[r].id = rec[r].id /\ rec'[r].payment = rec[r].payment
           /\ \/ /\ rec[r].pc \in {"record", "finalize"}
                 /\ rec'[r].found = rec[r].found /\ rec'[r].size = rec[r].size
              \/ /\ rec[r].pc = "fetch" /\ Belongs(rec[r].payment, rec[r].id)
                 /\ rec'[r].found = refund[rec[r].id].state
                 /\ rec'[r].size = refund[rec[r].id].size
  <1> DEFINE Goal ==
           /\ rec'[r].id = rec[r].id /\ rec'[r].payment = rec[r].payment
           /\ \/ /\ rec[r].pc \in {"record", "finalize"}
                 /\ rec'[r].found = rec[r].found /\ rec'[r].size = rec[r].size
              \/ /\ rec[r].pc = "fetch" /\ Belongs(rec[r].payment, rec[r].id)
                 /\ rec'[r].found = refund[rec[r].id].state
                 /\ rec'[r].size = refund[rec[r].id].size
  <1>0. rec[r] \in RecStates
    BY DEF TypeOK
  <1>1. ASSUME rec'[r] = rec[r]
        PROVE  Goal
    BY <1>1
  <1>2. ASSUME NEW o \in Reconcilers,
               RecDone(o) \/ rec' = [rec EXCEPT ![o] = IdleRec]
        PROVE  Goal
    <2>1. /\ IdleRec.pc = "idle"
          /\ [IdleRec EXCEPT !.pc = "batch", !.todo = rec[o].todo].pc = "batch"
      BY DEF IdleRec
    <2>2. r # o
      BY <1>2, <2>1 DEF RecDone, TypeOK
    <2>3. rec'[r] = rec[r]
      BY <1>2, <2>2 DEF RecDone, TypeOK
    <2> QED BY <1>1, <2>3
  <1>3. ASSUME NEW o \in Reconcilers, NEW pc \in RecPcs \ {"record", "finalize"}, RecGoTo(o, pc)
        PROVE  Goal
    <2>1. r # o
      BY <1>0, <1>3 DEF RecGoTo, TypeOK, RecStates
    <2>2. rec'[r] = rec[r]
      BY <1>3, <2>1 DEF RecGoTo, TypeOK
    <2> QED BY <1>1, <2>2
  <1>4. ASSUME NEW o \in Reconcilers, NEW n, NEW pc \in RecPcs \ {"record", "finalize"},
               rec' = [rec EXCEPT ![o].failures = n, ![o].pc = pc]
        PROVE  Goal
    <2>1. r # o
      BY <1>0, <1>4 DEF TypeOK, RecStates
    <2>2. rec'[r] = rec[r]
      BY <1>4, <2>1 DEF TypeOK
    <2> QED BY <1>1, <2>2
  <1>5. ASSUME NEW o \in Reconcilers, reconcileProcessingRefunds(o)
        PROVE  Goal
    BY <1>0, <1>1, <1>5 DEF reconcileProcessingRefunds, TypeOK, RecStates
  <1>6. ASSUME NEW o \in Reconcilers, NEW x, NEW i,
               rec' = [rec EXCEPT ![o].pc = "webhook", ![o].payment = x, ![o].id = i]
        PROVE  Goal
    BY <1>0, <1>1, <1>6 DEF TypeOK, RecStates
  <1>7. ASSUME NEW o \in Reconcilers, NextOfBatch(o)
        PROVE  Goal
    BY <1>1, <1>7 DEF NextOfBatch, TypeOK, IdleRec
  <1>8. ASSUME NEW o \in Reconcilers, reconcileWebhookRefund(o) \/ RereadPayment(o)
        PROVE  Goal
    <2>1. \/ RecDone(o) \/ RecGoTo(o, "review")
          \/ \E n, pc : /\ pc \in {"adopt", "fetch", "review"}
                        /\ rec' = [rec EXCEPT ![o].failures = n, ![o].pc = pc]
      BY <1>8 DEF reconcileWebhookRefund, RereadPayment
    <2> QED BY <1>2, <1>3, <1>4, <2>1 DEF RecPcs
  <1>9. ASSUME NEW o \in Reconcilers, FetchRefund(o)
        PROVE  Goal
    <2>1. CASE r # o
      BY <1>1, <1>9, <2>1 DEF FetchRefund, RecGoTo, TypeOK
    <2>2. CASE r = o /\ Belongs(rec[o].payment, rec[o].id)
      BY <1>0, <1>9, <2>2 DEF FetchRefund, TypeOK, RecStates
    <2>3. CASE ~Belongs(rec[o].payment, rec[o].id)
      BY <1>3, <1>9, <2>3 DEF FetchRefund, RecPcs
    <2> QED BY <2>1, <2>2, <2>3
  <1>10. ASSUME NEW o \in Reconcilers, FetchOdd(o)
         PROVE  Goal
    <2>1. CASE RecGoTo(o, "review")
      BY <1>3, <2>1 DEF RecPcs
    <2>2. CASE rec' = [rec EXCEPT ![o].pc = "record", ![o].found = "UNKNOWN"]
      BY <1>0, <1>1, <2>2 DEF TypeOK, RecStates
    <2> QED BY <1>10, <2>1, <2>2 DEF FetchOdd
  <1>11. ASSUME NEW o \in Reconcilers, RecordCheck(o)
         PROVE  Goal
    <2>1. CASE RecGoTo(o, "finalize")
      BY <1>0, <1>1, <1>11, <2>1 DEF RecordCheck, RecGoTo, TypeOK, RecStates
    <2>2. CASE RecDone(o) \/ RecGoTo(o, "review")
      BY <1>2, <1>3, <2>2 DEF RecPcs
    <2> QED BY <1>11, <2>1, <2>2 DEF RecordCheck
  <1>12. ASSUME NEW o \in Reconcilers,
                \/ AdoptRefundId(o) \/ FetchFails(o) \/ handleFetchFailure(o)
                \/ FinalizeRefund(o) \/ HandOver(o) \/ ReconcileError(o) \/ CrashReconciler(o)
         PROVE  Goal
    <2>1. \/ RecDone(o) \/ rec' = [rec EXCEPT ![o] = IdleRec]
          \/ \E pc \in {"fetch", "reread", "recordFailure", "review"} : RecGoTo(o, pc)
      BY <1>12 DEF AdoptRefundId, FetchFails, handleFetchFailure, FinalizeRefund, HandOver,
         ReconcileError, CrashReconciler
    <2> QED BY <1>2, <1>3, <2>1 DEF RecPcs
  <1>13. ASSUME UNCHANGED rec
         PROVE  Goal
    BY <1>1, <1>13
  <1> HIDE DEF Goal
  <1>14. ASSUME NEW q \in Requesters,
                \/ \E p \in Payments, size \in Sizes : initiateRefund(q, p, size)
                \/ RequesterStep(q) \/ RequesterFault(q)
         PROVE  UNCHANGED rec
    BY <1>14 DEF initiateRefund, RequesterStep, RequesterFault, reserveRefund, PostAccepted,
       PostLost, PostRejected, PersistRefundId, FinalizeRejected, markRefundUncertain,
       HandleResultError, CrashRequester
  <1>15. ASSUME NEW o \in Reconcilers, ReconcilerStep(o) \/ ReconcilerFault(o)
         PROVE  Goal
    BY <1>7, <1>8, <1>9, <1>10, <1>11, <1>12, <1>15 DEF ReconcilerStep, ReconcilerFault
  <1>16. ASSUME NEW o \in Reconcilers, NEW x \in Payments, NEW i \in RefundIds,
                AdminReconciles(o, x, i)
         PROVE  Goal
    BY <1>6, <1>16 DEF AdminReconciles
  <1>17. ASSUME NEW o \in Reconcilers, NEW i \in RefundIds, RefundWebhook(o, i)
         PROVE  Goal
    <2>1. \E x : rec' = [rec EXCEPT ![o].pc = "webhook", ![o].payment = x, ![o].id = i]
      BY <1>17 DEF RefundWebhook
    <2> QED BY <1>6, <2>1
  <1>18. Goal
    BY <1>5, <1>13, <1>14, <1>15, <1>16, <1>17 DEF Next, confirmFromPayment, cancelBooking,
       DeskRefund, ProviderSettles, Tick
  <1> QED BY <1>18 DEF Goal

(* Every step keeps the answers real.                                       *)
LEMMA NextAnswers ==
    ASSUME TypeOK, HandsOk, IdsExist, PostInv, AnswersReal, Next
    PROVE  AnswersReal'
  <1> SUFFICES ASSUME NEW r \in Reconcilers, rec'[r].pc \in {"record", "finalize"},
                      rec'[r].found \in {"SUCCEEDED", "FAILED"}
               PROVE  /\ rec'[r].id \in RefundIds /\ rec'[r].id[1] = rec'[r].payment
                      /\ refund'[rec'[r].id].state = rec'[r].found
                      /\ refund'[rec'[r].id].size = rec'[r].size
    BY DEF AnswersReal
  <1>1. /\ rec[r].id \in RefundIds /\ rec[r].id[1] = rec[r].payment
        /\ refund[rec[r].id].state = rec'[r].found /\ refund[rec[r].id].size = rec'[r].size
        /\ rec'[r].id = rec[r].id /\ rec'[r].payment = rec[r].payment
    BY AnswerStep DEF AnswersReal, HandsOk, Belongs
  <1>2. refund'[rec[r].id] = refund[rec[r].id]
    BY <1>1, FinishedStays
  <1> QED BY <1>1, <1>2

-----------------------------------------------------------------------------
(* The invariant and the theorems. *)

(* A refund that was not handed over has no hand-over behind it.            *)
EmailInv ==
    \A p \in Payments : emails[p] <= 1 /\ (~row[p].reviewed => emails[p] = 0)

RefundInv ==
    /\ TypeOK /\ HandsOk /\ IdsExist /\ PostInv /\ AnswersReal
    /\ BooksAgree /\ EmailInv /\ RefundedIsReal

(* The initial state satisfies the invariant.                               *)
LEMMA RefundInvInit == Init => RefundInv
  <1> SUFFICES ASSUME Init PROVE RefundInv
    OBVIOUS
  <1>1. TypeOK
    BY InitType
  <1>2. HandsOk /\ AnswersReal
    BY DEF Init, HandsOk, AnswersReal, IdleReq, IdleRec
  <1>3. IdsExist
    BY DEF Init, IdsExist, IdleReq, IdleRec, NewRow
  <1>4. PostInv
    BY DEF Init, PostInv, Past, IdleReq, NoProviderRefund, RefundIds, Kinds
  <1>5. BooksAgree /\ EmailInv /\ RefundedIsReal
    BY DEF Init, NewRow, BooksAgree, EmailInv, RefundedIsReal, InProgress, Terminal, Sizes
  <1> QED BY <1>1, <1>2, <1>3, <1>4, <1>5 DEF RefundInv

(* Every step keeps the two records in agreement.                           *)
LEMMA NextBooks ==
    ASSUME TypeOK, HandsOk, BooksAgree, Next
    PROVE  BooksAgree'
  <1> SUFFICES ASSUME NEW p \in Payments
               PROVE  /\ row'[p].status \in InProgress => domain'[p] = "REFUND_PROCESSING"
                      /\ row'[p].status \in Terminal => domain'[p] = row'[p].status
    BY DEF BooksAgree
  <1>1. RowStep(p)
    BY RowStepHolds
  <1>2. /\ row[p].status \in InProgress => domain[p] = "REFUND_PROCESSING"
        /\ row[p].status \in Terminal => domain[p] = row[p].status
    BY DEF BooksAgree
  <1>3. \A s : Finished(p, s) => row'[p].status \in Terminal /\ domain'[p] = row'[p].status
    BY DEF Finished
  <1> QED BY <1>1, <1>2, <1>3 DEF RowStep, Kept, DomainMoves, Reviewed, Reserved, Uncertain,
          InProgress, Terminal

(* Every step keeps a hand-over from being repeated.                        *)
LEMMA NextEmails ==
    ASSUME TypeOK, HandsOk, EmailInv, Next
    PROVE  EmailInv'
  <1> SUFFICES ASSUME NEW p \in Payments
               PROVE  emails'[p] <= 1 /\ (~row'[p].reviewed => emails'[p] = 0)
    BY DEF EmailInv
  <1>1. RowStep(p)
    BY RowStepHolds
  <1>2. emails[p] \in Nat /\ emails[p] <= 1 /\ (~row[p].reviewed => emails[p] = 0)
    BY DEF EmailInv, TypeOK
  <1>3. \A s : Finished(p, s) => row'[p].reviewed = row[p].reviewed /\ emails'[p] = emails[p]
    BY DEF Finished
  <1> QED BY <1>1, <1>2, <1>3 DEF RowStep, Kept, DomainMoves, Reviewed, Reserved, Uncertain

(* Every step keeps a finished refund real.                                 *)
LEMMA NextReal ==
    ASSUME TypeOK, HandsOk, PostInv, AnswersReal, RefundedIsReal, Next
    PROVE  RefundedIsReal'
  <1> DEFINE Done(z) == IF z = "full" THEN "REFUNDED" ELSE "PARTIALLY_REFUNDED"
  <1> SUFFICES ASSUME NEW p \in Payments, NEW z \in Sizes, row'[p].status = Done(z)
               PROVE  \E k \in Kinds : /\ refund'[<<p, k>>].state = "SUCCEEDED"
                                       /\ refund'[<<p, k>>].size = z
    BY DEF RefundedIsReal
  <1>1. CASE row'[p].status = row[p].status
    <2>0. \E k \in Kinds : refund[<<p, k>>].state = "SUCCEEDED" /\ refund[<<p, k>>].size = z
      <3>1. row[p].status = IF z = "full" THEN "REFUNDED" ELSE "PARTIALLY_REFUNDED"
        BY <1>1
      <3> QED BY <3>1, Zenon DEF RefundedIsReal
    <2>1. PICK k \in Kinds : refund[<<p, k>>].state = "SUCCEEDED" /\ refund[<<p, k>>].size = z
      BY <2>0
    <2>2. <<p, k>> \in RefundIds
      BY DEF RefundIds
    <2>3. refund'[<<p, k>>] = refund[<<p, k>>]
      BY <2>1, <2>2, FinishedStays
    <2> QED BY <2>1, <2>3
  <1>2. ASSUME NEW r \in Reconcilers, rec[r].pc = "finalize", rec[r].payment = p,
               Finished(p, Outcome(r))
        PROVE  \E k \in Kinds : refund'[<<p, k>>].state = "SUCCEEDED" /\ refund'[<<p, k>>].size = z
    <2>1. Outcome(r) = Done(z) /\ rec[r] \in RecStates
      BY <1>2 DEF Finished, TypeOK
    <2>2. rec[r].found = "SUCCEEDED" /\ rec[r].size = z
      <3>1. rec[r].found \in {"SUCCEEDED", "FAILED"} /\ rec[r].size \in Sizes
        BY <1>2, <2>1 DEF HandsOk, RecStates
      <3>2. rec[r].found = "FAILED" => Outcome(r) = "REFUND_FAILED"
        BY DEF Outcome
      <3>3. rec[r].found # "FAILED" /\ rec[r].size = "full" => Outcome(r) = "REFUNDED"
        BY DEF Outcome
      <3>4. rec[r].found # "FAILED" /\ rec[r].size # "full" => Outcome(r) = "PARTIALLY_REFUNDED"
        BY DEF Outcome
      <3> QED BY <2>1, <3>1, <3>2, <3>3, <3>4 DEF Sizes
    <2>3. /\ rec[r].id \in RefundIds /\ rec[r].id[1] = p
          /\ refund[rec[r].id].state = "SUCCEEDED" /\ refund[rec[r].id].size = z
      BY <1>2, <2>2 DEF AnswersReal
    <2>4. PICK k \in Kinds : rec[r].id = <<p, k>>
      BY <2>3 DEF RefundIds
    <2>5. refund'[rec[r].id] = refund[rec[r].id]
      BY <2>3, FinishedStays
    <2> QED BY <2>3, <2>4, <2>5
  <1>3. row'[p].status \notin {"REFUND_PROCESSING", "REFUND_ERROR", "REFUND_FAILED"}
    OBVIOUS
  <1> HIDE DEF Done
  <1>4. RowStep(p)
    BY RowStepHolds
  <1> QED BY <1>1, <1>2, <1>3, <1>4
          DEF RowStep, Kept, DomainMoves, Reviewed, Reserved, Uncertain, Finished

(* Every step keeps the invariant.                                          *)
LEMMA RefundInvStep == RefundInv /\ [Next]_vars => RefundInv'
  <1>1. CASE UNCHANGED vars
    <2>1. TypeOK' = TypeOK /\ HandsOk' = HandsOk
      BY <1>1 DEF vars, TypeOK, HandsOk
    <2>2. IdsExist' = IdsExist
      BY <1>1 DEF vars, IdsExist
    <2>3. PostInv' = PostInv
      BY <1>1 DEF vars, PostInv, Past
    <2>4. AnswersReal' = AnswersReal
      BY <1>1 DEF vars, AnswersReal
    <2>5. BooksAgree' = BooksAgree /\ EmailInv' = EmailInv
      BY <1>1 DEF vars, BooksAgree, EmailInv
    <2>6. RefundedIsReal' = RefundedIsReal
      BY <1>1 DEF vars, RefundedIsReal
    <2> QED BY <2>1, <2>2, <2>3, <2>4, <2>5, <2>6 DEF RefundInv
  <1>2. ASSUME RefundInv, Next
        PROVE  RefundInv'
    BY <1>2, NextType, NextHands, NextIds, NextPost, NextAnswers, NextBooks, NextEmails, NextReal
       DEF RefundInv
  <1> QED BY <1>1, <1>2

(***************************************************************************)
(* The inductive invariant: types; what a call holds is real (HandsOk,     *)
(* IdsExist); one request per reservation (PostInv); a final answer still  *)
(* holds when it is written (AnswersReal); both records agree; a review is *)
(* asked for once; a refunded payment was refunded.                        *)
(***************************************************************************)
THEOREM RefundInvariant == Spec => []RefundInv
  BY RefundInvInit, RefundInvStep, PTL DEF Spec

(***************************************************************************)
(* Every value a call writes or holds has its type; the status finalize    *)
(* writes to payment and booking is a terminal one.                        *)
(***************************************************************************)
THEOREM RefundTypes == Spec => []TypeOK
  <1>1. RefundInv => TypeOK
    BY DEF RefundInv
  <1> QED BY <1>1, RefundInvariant, PTL

(***************************************************************************)
(* Payment and booking or extension tell the same story, so the hand-over  *)
(* for a mismatch in finalize is dead code for bookings that only          *)
(* confirmFromPayment, cancelBooking and the refund itself change.         *)
(***************************************************************************)
THEOREM RefundBooksAgree == Spec => []BooksAgree
  <1>1. RefundInv => BooksAgree
    BY DEF RefundInv
  <1> QED BY <1>1, RefundInvariant, PTL

(***************************************************************************)
(* However many refund requests race for a payment, whatever becomes of    *)
(* their answers, the provider accepts at most one (reserveRefund).        *)
(***************************************************************************)
THEOREM AtMostOneRefund == Spec => []OneRefund
  <1>1. RefundInv => OneRefund
    BY DEF RefundInv, PostInv, OneRefund
  <1> QED BY <1>1, RefundInvariant, PTL

(***************************************************************************)
(* A person is asked about a refund at most once, by any number of         *)
(* reconcilers and requests (requestManualReview).                         *)
(***************************************************************************)
THEOREM AskedOnce == Spec => []HandedOverOnce
  <1>1. RefundInv => HandedOverOnce
    BY DEF RefundInv, EmailInv, HandedOverOnce
  <1> QED BY <1>1, RefundInvariant, PTL

(***************************************************************************)
(* A payment is REFUNDED or PARTIALLY_REFUNDED only when the provider      *)
(* completed a refund of that size for this payment, although the answer   *)
(* is written after the call and other reconcilers write too               *)
(* (reconcilePayment, getMismatchReason, finalize).                        *)
(***************************************************************************)
THEOREM RefundedMeansRefunded == Spec => []RefundedIsReal
  <1>1. RefundInv => RefundedIsReal
    BY DEF RefundInv
  <1> QED BY <1>1, RefundInvariant, PTL

(***************************************************************************)
(* No late request, reconciler, webhook, admin or confirmation changes a   *)
(* finished refund or its booking (the where clauses of reserveRefund,     *)
(* finalize, markRefundUncertain and confirmFromPayment).                  *)
(***************************************************************************)
THEOREM FinishedForGood == Spec => TerminalIsFinal
  <1> DEFINE Final == \A p \in Payments : row[p].status \in Terminal =>
                          row'[p].status = row[p].status /\ domain'[p] = domain[p]
  <1>1. RefundInv /\ [Next]_vars => [Final]_vars
    <2> SUFFICES ASSUME RefundInv, Next, NEW p \in Payments, row[p].status \in Terminal
                 PROVE  row'[p].status = row[p].status /\ domain'[p] = domain[p]
      BY DEF Final
    <2>1. RowStep(p)
      BY RowStepHolds DEF RefundInv
    <2>2. domain[p] \in Terminal
      BY DEF RefundInv, BooksAgree
    <2> QED BY <2>1, <2>2 DEF RowStep, Kept, DomainMoves, Reviewed, Reserved, Uncertain,
            Finished, InProgress, Terminal
  <1> QED BY <1>1, RefundInvariant, PTL DEF Spec, TerminalIsFinal

-----------------------------------------------------------------------------
(* REFUND_FAILED. *)

(* Nobody refunds other payments than DeskPayments by hand, and a failed    *)
(* refund has no request left that could still post it.                     *)
NoDeskRefund == \A p \in Payments \ DeskPayments : refund[<<p, "desk">>].state = "NONE"

NoPoster ==
    \A p \in Payments \ DeskPayments, q \in Requesters :
        row[p].status = "REFUND_FAILED" /\ req[q].payment = p => req[q].pc # "post"

FailInv == NoDeskRefund /\ NoPoster /\ RefundFailedIsReal

(* Only a refund made by hand is one.                                       *)
LEMMA NextDesk ==
    ASSUME TypeOK, HandsOk, NoDeskRefund, Next
    PROVE  NoDeskRefund'
  <1> SUFFICES ASSUME NEW p \in Payments \ DeskPayments
               PROVE  refund'[<<p, "desk">>].state = "NONE"
    BY DEF NoDeskRefund
  <1>0. refund[<<p, "desk">>].state = "NONE" /\ <<p, "desk">> \in RefundIds
    BY DEF NoDeskRefund, RefundIds, Kinds
  <1>1. ASSUME NEW q \in Requesters, PostAccepted(q) \/ PostLost(q)
        PROVE  refund'[<<p, "desk">>].state = "NONE"
    BY <1>0, <1>1 DEF PostAccepted, PostLost, Accepted, TypeOK
  <1>2. ASSUME NEW x \in Payments, NEW z \in Sizes, DeskRefund(x, z)
        PROVE  refund'[<<p, "desk">>].state = "NONE"
    BY <1>0, <1>2 DEF DeskRefund, TypeOK
  <1>3. ASSUME NEW j \in RefundIds, ProviderSettles(j)
        PROVE  refund'[<<p, "desk">>].state = "NONE"
    BY <1>0, <1>3 DEF ProviderSettles, TypeOK
  <1>4. ASSUME NEW q \in Requesters, RequesterStep(q) \/ RequesterFault(q)
        PROVE  UNCHANGED refund \/ PostAccepted(q) \/ PostLost(q)
    BY <1>4 DEF RequesterStep, RequesterFault, reserveRefund, PostRejected, PersistRefundId,
       FinalizeRejected, markRefundUncertain, HandleResultError, CrashRequester
  <1>5. ASSUME NEW r \in Reconcilers, ReconcilerStep(r) \/ ReconcilerFault(r)
        PROVE  UNCHANGED refund
    BY <1>5 DEF ReconcilerStep, ReconcilerFault, NextOfBatch, reconcileWebhookRefund,
       AdoptRefundId, RereadPayment, FetchRefund, RecordCheck, handleFetchFailure,
       FinalizeRefund, HandOver, FetchOdd, FetchFails, ReconcileError, CrashReconciler
  <1>6. \/ UNCHANGED refund
        \/ \E q \in Requesters : PostAccepted(q) \/ PostLost(q)
        \/ \E x \in Payments, z \in Sizes : DeskRefund(x, z)
        \/ \E j \in RefundIds : ProviderSettles(j)
    BY <1>4, <1>5 DEF Next, initiateRefund, reconcileProcessingRefunds, RefundWebhook,
       AdminReconciles, confirmFromPayment, cancelBooking, Tick
  <1> QED BY <1>0, <1>1, <1>2, <1>3, <1>6

(* A request about to post was so before, or reserves the payment now.      *)
LEMMA PosterStep ==
    ASSUME TypeOK, HandsOk, Next, NEW q \in Requesters, NEW p \in Payments,
           req'[q].pc = "post", req'[q].payment = p
    PROVE  \/ req'[q] = req[q]
           \/ row'[p].status = "REFUND_PROCESSING"
  <1>0. \A o \in Requesters : req[o] \in ReqStates
    BY DEF TypeOK
  <1>1. ASSUME NEW o \in Requesters, NEW x \in Payments, NEW size \in Sizes,
               initiateRefund(o, x, size)
        PROVE  req'[q] = req[q]
    BY <1>0, <1>1 DEF initiateRefund, TypeOK, ReqStates
  <1>2. ASSUME NEW o \in Requesters, ReqEnds(o)
        PROVE  req'[q] = req[q]
    BY <1>0, <1>2 DEF ReqEnds, IdleReq, TypeOK
  <1>3. ASSUME NEW o \in Requesters, NEW pc \in {"persist", "reject", "uncertain"},
               ReqGoTo(o, pc)
        PROVE  req'[q] = req[q]
    BY <1>0, <1>3 DEF ReqGoTo, TypeOK, ReqStates
  <1>4. ASSUME NEW o \in Requesters, HandleResultError(o)
        PROVE  req'[q] = req[q]
    BY <1>0, <1>4 DEF HandleResultError, TypeOK, ReqStates
  <1>5. ASSUME NEW o \in Requesters, reserveRefund(o)
        PROVE  req'[q] = req[q] \/ row'[p].status = "REFUND_PROCESSING"
    <2>1. CASE o # q
      BY <1>0, <1>5, <2>1 DEF reserveRefund, ReqEnds, ReqGoTo, TypeOK
    <2>2. CASE o = q /\ ReqEnds(o)
      BY <1>2, <2>2
    <2>3. CASE o = q /\ ReqGoTo(o, "post") /\ ReserveWhere(req[q].payment)
               /\ DomainOpen(req[q].payment)
      <3>1. req[q].payment = p
        BY <1>0, <2>3 DEF ReqGoTo, TypeOK, ReqStates
      <3>2. row[p] \in Rows
        BY DEF TypeOK
      <3> QED BY <1>5, <2>3, <3>1, <3>2 DEF reserveRefund, TypeOK, Rows
    <2> QED BY <1>5, <2>1, <2>2, <2>3 DEF reserveRefund
  <1>6. \/ UNCHANGED req
        \/ \E o \in Requesters :
             \/ \E x \in Payments, size \in Sizes : initiateRefund(o, x, size)
             \/ reserveRefund(o) \/ ReqEnds(o) \/ HandleResultError(o)
             \/ \E pc \in {"persist", "reject", "uncertain"} : ReqGoTo(o, pc)
    BY ReqMoves
  <1>7. CASE UNCHANGED req
    BY <1>7
  <1> QED BY <1>1, <1>2, <1>3, <1>4, <1>5, <1>6, <1>7

(* How a refund came to fail: a request was refused and the provider has    *)
(* nothing, or the provider's own record says so.                           *)
LEMMA HowFailed ==
    ASSUME RefundInv, FailInv, Next, NEW p \in Payments \ DeskPayments,
           row'[p].status = "REFUND_FAILED"
    PROVE  /\ refund[<<p, "own">>].state \in {"NONE", "FAILED"}
           /\ \A q \in Requesters : req[q].payment = p => req[q].pc # "post"
  <1>0. /\ TypeOK /\ HandsOk /\ PostInv /\ AnswersReal
        /\ RowStep(p) /\ <<p, "own">> \in RefundIds /\ "own" \in Kinds
    BY RowStepHolds DEF RefundInv, RefundIds, Kinds
  <1>1. CASE row[p].status = "REFUND_FAILED"
    BY <1>0, <1>1 DEF FailInv, NoPoster, RefundFailedIsReal
  <1>2. ASSUME NEW o \in Requesters, req[o].pc = "reject", req[o].payment = p
        PROVE  /\ refund[<<p, "own">>].state = "NONE"
               /\ \A q \in Requesters : req[q].payment = p => req[q].pc # "post"
    <2>1. Past(o, p)
      BY <1>2 DEF Past
    <2>2. ASSUME NEW q \in Requesters, req[q].payment = p, req[q].pc = "post"
          PROVE  FALSE
      <3>1. Past(q, p)
        BY <2>2 DEF Past
      <3> QED BY <1>0, <1>2, <2>1, <2>2, <3>1 DEF PostInv
    <2> QED BY <1>0, <1>2, <2>1, <2>2 DEF PostInv
  <1>3. ASSUME NEW r \in Reconcilers, rec[r].pc = "finalize", rec[r].payment = p,
               Finished(p, Outcome(r))
        PROVE  /\ refund[<<p, "own">>].state = "FAILED"
               /\ \A q \in Requesters : req[q].payment = p => req[q].pc # "post"
    <2>1. rec[r].found = "FAILED"
      <3>1. Outcome(r) = "REFUND_FAILED"
        BY <1>3 DEF Finished
      <3> QED BY <3>1 DEF Outcome
    <2>2. /\ rec[r].id \in RefundIds /\ rec[r].id[1] = p
          /\ refund[rec[r].id].state = "FAILED"
      BY <1>0, <1>3, <2>1 DEF AnswersReal
    <2>3. rec[r].id = <<p, "own">>
      <3>1. PICK k \in Kinds : rec[r].id = <<p, k>>
        BY <2>2 DEF RefundIds
      <3>2. k # "desk"
        BY <2>2, <3>1 DEF FailInv, NoDeskRefund
      <3> QED BY <3>1, <3>2 DEF Kinds
    <2>4. ASSUME NEW q \in Requesters, req[q].payment = p, req[q].pc = "post"
          PROVE  FALSE
      <3>1. Past(q, p)
        BY <2>4 DEF Past
      <3> QED BY <1>0, <2>2, <2>3, <2>4, <3>1 DEF PostInv
    <2> QED BY <2>2, <2>3, <2>4
  <1>4. CASE row[p].status # "REFUND_FAILED"
    <2>1. \/ \E o \in Requesters : req[o].pc = "reject" /\ req[o].payment = p
          \/ \E r \in Reconcilers : /\ rec[r].pc = "finalize" /\ rec[r].payment = p
                                    /\ Finished(p, Outcome(r))
      BY <1>0, <1>4 DEF RowStep, Kept, DomainMoves, Reviewed, Reserved, Uncertain
    <2> QED BY <1>2, <1>3, <2>1
  <1> QED BY <1>1, <1>4

(* The invariant of failed refunds is kept by every action.                 *)
LEMMA NextFailed ==
    ASSUME RefundInv, FailInv, Next
    PROVE  FailInv'
  <1>0. TypeOK /\ HandsOk /\ PostInv
    BY DEF RefundInv
  <1>1. NoDeskRefund'
    BY <1>0, NextDesk DEF FailInv
  <1>2. ASSUME NEW p \in Payments \ DeskPayments, NEW q \in Requesters,
               row'[p].status = "REFUND_FAILED", req'[q].payment = p
        PROVE  req'[q].pc # "post"
    BY <1>0, <1>2, PosterStep, HowFailed
  <1>3. ASSUME NEW p \in Payments \ DeskPayments, row'[p].status = "REFUND_FAILED"
        PROVE  refund'[<<p, "own">>].state \in {"NONE", "FAILED"}
    <2>0. /\ refund[<<p, "own">>].state \in {"NONE", "FAILED"} /\ <<p, "own">> \in RefundIds
          /\ \A q \in Requesters : req[q].payment = p => req[q].pc # "post"
      BY <1>3, HowFailed DEF RefundIds, Kinds
    <2>1. ASSUME NEW q \in Requesters, req[q].pc = "post",
                 Accepted(req[q].payment, req[q].size)
          PROVE  refund'[<<p, "own">>] = refund[<<p, "own">>]
      BY <1>0, <2>0, <2>1 DEF Accepted, TypeOK
    <2>2. ASSUME NEW x \in Payments, NEW z \in Sizes,
                 refund' = [refund EXCEPT ![<<x, "desk">>] = [state |-> "PENDING", size |-> z]]
          PROVE  refund'[<<p, "own">>] = refund[<<p, "own">>]
      BY <1>0, <2>0, <2>2 DEF TypeOK
    <2>3. ASSUME NEW j \in RefundIds, NEW t, refund[j].state = "PENDING",
                 refund' = [refund EXCEPT ![j].state = t]
          PROVE  refund'[<<p, "own">>] = refund[<<p, "own">>]
      BY <1>0, <2>0, <2>3 DEF TypeOK
    <2> QED BY <1>0, <2>0, <2>1, <2>2, <2>3, PostStep
  <1>4. RefundFailedIsReal'
    BY <1>1, <1>3 DEF RefundFailedIsReal, NoDeskRefund, Kinds
  <1> QED BY <1>1, <1>2, <1>4 DEF FailInv, NoPoster

(***************************************************************************)
(* A refund is REFUND_FAILED only when the provider has none of this       *)
(* payment, or a failed one: neither a lost answer nor a late request can  *)
(* make it untrue (executeRefund, markRefundUncertain, finalize).          *)
(***************************************************************************)
THEOREM RefundFailedMeansFailed == Spec => []RefundFailedIsReal
  <1>1. Init => FailInv
    BY DEF Init, FailInv, NoDeskRefund, NoPoster, RefundFailedIsReal, IdleReq, NewRow,
       NoProviderRefund, RefundIds, Kinds
  <1>2. RefundInv /\ FailInv /\ [Next]_vars => FailInv'
    <2> SUFFICES ASSUME RefundInv, FailInv, [Next]_vars PROVE FailInv'
      OBVIOUS
    <2>1. CASE UNCHANGED vars
      BY <2>1 DEF vars, FailInv, NoDeskRefund, NoPoster, RefundFailedIsReal
    <2> QED BY <2>1, NextFailed
  <1>3. FailInv => RefundFailedIsReal
    BY DEF FailInv
  <1> QED BY <1>1, <1>2, <1>3, RefundInvariant, PTL DEF Spec

(***************************************************************************)
(* However requests, cron, webhooks and admins race, the provider accepts  *)
(* one refund from the code and a person is asked once (reserveRefund,     *)
(* requestManualReview).                                                   *)
(***************************************************************************)
THEOREM RefundedOnce == Spec => []RefundOnce
<1>1. OneRefund /\ HandedOverOnce => RefundOnce
    BY DEF RefundOnce
<1> QED BY AtMostOneRefund, AskedOnce, <1>1, PTL

(***************************************************************************)
(* The two records of a refund have their types and tell the same story    *)
(* (finalize, reserveRefund).                                              *)
(***************************************************************************)
THEOREM RefundBooksTyped == Spec => []RefundBooks
<1>1. TypeOK /\ BooksAgree => RefundBooks
    BY DEF RefundBooks
<1> QED BY RefundTypes, RefundBooksAgree, <1>1, PTL

(***************************************************************************)
(* What the books call refunded was refunded, and what they call failed    *)
(* was not, for any number of requests and reconcilers (finalize).         *)
(***************************************************************************)
THEOREM OutcomesAreReal == Spec => []OutcomeIsReal
<1>1. RefundedIsReal /\ RefundFailedIsReal => OutcomeIsReal
    BY DEF OutcomeIsReal
<1> QED BY RefundedMeansRefunded, RefundFailedMeansFailed, <1>1, PTL

=============================================================================
