---------------------------- MODULE PayoutProofs ----------------------------
(***************************************************************************)
(* Theorems about payouts that hold for any number of workers, reconcilers,*)
(* redriven calls, faults and bank changes, however slow a call is; the    *)
(* last three are about calls that do not outlast their lease, or about    *)
(* what the ones that do leave behind.                                     *)
(***************************************************************************)
EXTENDS Payout, TLAPS

Txns == [status: TxnStatuses, account: AnyAccount,
         lease: Procs \cup {Nobody}, leaseLeft: 0..Lease, graceLeft: 0..Grace]

ProcStates == [pc: {"idle", "record", "claim", "lookup", "apply", "post", "succeed", "fail"},
               account: AnyAccount, snap: Snapshots, found: Transfers]

(* What the statements leave of the row and the books, whoever runs them. *)
LEMMA FinalizeEffect ==
    ASSUME TypeOK, NEW p \in Procs, NEW status \in Terminal, finalizePayoutStatus(p, status)
    PROVE  \/ UNCHANGED <<txn, overall, notice>>
           \/ /\ txn.status = "PROCESSING" /\ txn'.status = status /\ txn' \in Txns
              /\ overall' = status /\ notice' = status
  <1>1. txn \in Txns /\ 0 \in 0..Lease
    BY PayoutAssumption DEF TypeOK, Txns, PayoutAssumption
  <1>2. [Unleased(txn) EXCEPT !.status = status] \in Txns
        /\ [Unleased(txn) EXCEPT !.status = status].status = status
    BY <1>1 DEF Unleased, Txns, TxnStatuses
  <1> QED BY <1>2 DEF finalizePayoutStatus, Holds

(* Giving up the lease leaves the status alone.                             *)
LEMMA UnleasedEffect ==
    ASSUME TypeOK
    PROVE  Unleased(txn) \in Txns /\ Unleased(txn).status = txn.status
  <1>1. txn \in Txns /\ 0 \in 0..Lease
    BY PayoutAssumption DEF TypeOK, Txns, PayoutAssumption
  <1> QED BY <1>1 DEF Unleased, Txns

(* The row and the books move together: every action is one of these.      *)
BooksStep ==
    \/ /\ txn'.status = txn.status /\ UNCHANGED <<overall, notice>>
    \/ /\ txn.status = "NONE" /\ txn'.status = "PENDING_DISBURSEMENT"
       /\ UNCHANGED <<overall, notice>>
    \/ /\ txn.status # "PAID_OUT" /\ txn'.status = "PROCESSING"
       /\ UNCHANGED <<overall, notice>>
    \/ /\ txn.status = "PROCESSING" /\ txn'.status = "PROCESSING"
       /\ UNCHANGED notice
    \/ /\ txn.status = "PROCESSING" /\ txn'.status = "FAILED"
       /\ overall' = "FAILED" /\ notice' = "FAILED"
    \/ /\ txn.status = "PROCESSING" /\ txn'.status = "PAID_OUT"
       /\ overall' = "PAID_OUT" /\ notice' = "PAID_OUT"
       /\ \E p \in Procs : proc[p].pc = "apply" /\ proc[p].found.state = "SUCCESSFUL"

(* Every action moves the row and the books together.                       *)
LEMMA BooksStepHolds ==
    ASSUME TypeOK, Next
    PROVE  BooksStep
  <1>0. txn \in Txns
    BY DEF TypeOK, Txns
  <1>1. ASSUME NEW w \in Workers, createOrUpdatePayoutTransaction(w)
        PROVE  BooksStep
    <2>1. txn' = Recorded(proc[w].account) /\ UNCHANGED <<overall, notice>>
      BY <1>1 DEF createOrUpdatePayoutTransaction
    <2>2. txn'.status = IF txn.status = "NONE" THEN "PENDING_DISBURSEMENT" ELSE txn.status
      BY <1>0, <2>1 DEF Recorded, Txns
    <2> QED BY <2>1, <2>2 DEF BooksStep
  <1>2. ASSUME NEW w \in Workers, claimPayoutProcessing(w)
        PROVE  BooksStep
    <2>1. UNCHANGED <<overall, notice>>
      BY <1>2 DEF claimPayoutProcessing
    <2>2. CASE UNCHANGED txn
      BY <2>1, <2>2 DEF BooksStep
    <2>3. CASE Claimable /\ txn' = [txn EXCEPT !.status = "PROCESSING", !.lease = w,
                                               !.leaseLeft = Lease, !.graceLeft = Grace]
      BY <1>0, <2>1, <2>3 DEF BooksStep, Claimable, Txns
    <2> QED BY <1>2, <2>2, <2>3 DEF claimPayoutProcessing
  <1>3. ASSUME NEW w \in Workers, handleSuccessfulPayout(w)
        PROVE  BooksStep
    <2>1. UNCHANGED notice /\ AcceptedPayout(w)
      BY <1>3 DEF handleSuccessfulPayout
    <2>2. CASE Holds(w)
      <3>1. txn'.status = txn.status /\ txn.status = "PROCESSING"
        BY <2>1, <2>2, UnleasedEffect DEF AcceptedPayout, Holds
      <3> QED BY <2>1, <3>1 DEF BooksStep
    <2>3. CASE ~Holds(w)
      BY <2>1, <2>3 DEF AcceptedPayout, BooksStep
    <2> QED BY <2>2, <2>3
  <1>4. ASSUME NEW w \in Workers, handleFailedPayout(w)
        PROVE  BooksStep
    BY <1>4, FinalizeEffect DEF handleFailedPayout, BooksStep, Procs, Terminal
  <1>5. ASSUME NEW r \in Reconcilers, reconcilePayout(r)
        PROVE  BooksStep
    <2>1. UNCHANGED <<overall, notice>> /\ txn'.status = txn.status
      BY <1>0, <1>5 DEF reconcilePayout, Txns
    <2> QED BY <2>1 DEF BooksStep
  <1>6. ASSUME NEW p \in Procs, reconcileClaimedTransfer(p)
        PROVE  BooksStep
    <2>1. CASE releasePayoutProcessingLease(p)
      <3>1. UNCHANGED <<overall, notice>> /\ txn'.status = txn.status
        BY <2>1, UnleasedEffect DEF releasePayoutProcessingLease
      <3> QED BY <3>1 DEF BooksStep
    <2>2. CASE finalizePayoutStatus(p, "FAILED")
      BY <2>2, FinalizeEffect DEF BooksStep, Terminal
    <2>3. CASE /\ proc[p].pc = "apply" /\ proc[p].found.state = "SUCCESSFUL"
               /\ finalizePayoutStatus(p, "PAID_OUT")
      BY <2>3, FinalizeEffect DEF BooksStep, Terminal
    <2> QED BY <1>6, <2>1, <2>2, <2>3 DEF reconcileClaimedTransfer, TransferSucceeded
  <1>7. ASSUME Tick
        PROVE  BooksStep
    BY <1>0, <1>7 DEF Tick, BooksStep, Txns
  <1>8. CASE UNCHANGED <<txn, overall, notice>>
    BY <1>8 DEF BooksStep
  <1> QED BY <1>1, <1>2, <1>3, <1>4, <1>5, <1>6, <1>7, <1>8 DEF Next, Call, Crash, StartPayout,
          PostLost, PostTransfer, StartReconcile, findTransferByReference, ProviderSettles,
          ChangeBankDetails

-----------------------------------------------------------------------------
(* Types. *)

(* The initial state has its types.                                         *)
LEMMA InitType == Init => TypeOK
  BY PayoutAssumption DEF PayoutAssumption, Init, TypeOK, AnyAccount, TxnStatuses, Terminal,
     Procs, Transfers, NoTransfer, ProviderStates, IdleProc, NoSnapshot, Snapshots

(* Every action keeps the row a row.                                        *)
LEMMA TxnType ==
    ASSUME TypeOK, Next
    PROVE  txn' \in Txns
  <1>0. /\ txn \in Txns /\ Lease \in Nat /\ Grace \in Nat /\ Lease \in 0..Lease
        /\ Grace \in 0..Grace
    BY PayoutAssumption DEF TypeOK, Txns, PayoutAssumption
  <1>1. ASSUME NEW w \in Workers, createOrUpdatePayoutTransaction(w)
        PROVE  txn' \in Txns
    <2>1. proc[w].account \in AnyAccount
      BY DEF TypeOK, Procs
    <2> QED BY <1>0, <1>1, <2>1 DEF createOrUpdatePayoutTransaction, Recorded, Txns, TxnStatuses
  <1>2. ASSUME NEW w \in Workers, claimPayoutProcessing(w)
        PROVE  txn' \in Txns
    <2>1. w \in Procs
      BY DEF Procs
    <2> QED BY <1>0, <1>2, <2>1 DEF claimPayoutProcessing, Txns, TxnStatuses
  <1>3. ASSUME NEW w \in Workers, handleSuccessfulPayout(w)
        PROVE  txn' \in Txns
    BY <1>0, <1>3, UnleasedEffect DEF handleSuccessfulPayout, AcceptedPayout
  <1>4. ASSUME NEW w \in Workers, handleFailedPayout(w)
        PROVE  txn' \in Txns
    BY <1>0, <1>4, FinalizeEffect DEF handleFailedPayout, Procs, Terminal
  <1>5. ASSUME NEW r \in Reconcilers, reconcilePayout(r)
        PROVE  txn' \in Txns
    <2>1. r \in Procs
      BY DEF Procs
    <2> QED BY <1>0, <1>5, <2>1 DEF reconcilePayout, Txns
  <1>6. ASSUME NEW p \in Procs, reconcileClaimedTransfer(p)
        PROVE  txn' \in Txns
    BY <1>0, <1>6, UnleasedEffect, FinalizeEffect DEF reconcileClaimedTransfer,
       releasePayoutProcessingLease, Terminal
  <1>7. ASSUME Tick
        PROVE  txn' \in Txns
    <2>1. Minus1(txn.leaseLeft) \in 0..Lease /\ Minus1(txn.graceLeft) \in 0..Grace
      BY <1>0 DEF Minus1, Txns
    <2> QED BY <1>0, <1>7, <2>1 DEF Tick, Txns
  <1>8. CASE UNCHANGED txn
    BY <1>0, <1>8
  <1> QED BY <1>1, <1>2, <1>3, <1>4, <1>5, <1>6, <1>7, <1>8 DEF Next, Call, Crash, StartPayout,
          PostLost, PostTransfer, StartReconcile, findTransferByReference, ProviderSettles,
          ChangeBankDetails

(* A caller's own record: it ends, moves on, or remembers what it read. *)
LEMMA ProcUpdate ==
    ASSUME TypeOK, NEW p \in Procs, NEW k \in ProcStates, proc' = [proc EXCEPT ![p] = k]
    PROVE  proc' \in [Procs -> ProcStates]
  BY DEF TypeOK, ProcStates

(* A call that ends keeps the types of all calls.                           *)
LEMMA EndsType ==
    ASSUME TypeOK, NEW p \in Procs, Ends(p)
    PROVE  proc' \in [Procs -> ProcStates]
  <1>1. IdleProc \in ProcStates
    BY DEF IdleProc, ProcStates, AnyAccount, NoSnapshot, Snapshots, TxnStatuses, NoTransfer,
       Transfers, ProviderStates
  <1> QED BY <1>1, ProcUpdate DEF Ends

(* So does a call that goes on.                                             *)
LEMMA GoToType ==
    ASSUME TypeOK, NEW p \in Procs,
           NEW pc \in {"lookup", "apply", "post", "succeed", "fail"}, GoTo(p, pc)
    PROVE  proc' \in [Procs -> ProcStates]
  <1> DEFINE k == [proc[p] EXCEPT !.pc = pc]
  <1>1. proc[p] \in ProcStates /\ k \in ProcStates
    BY DEF TypeOK, ProcStates
  <1>2. proc' = [proc EXCEPT ![p] = k]
    BY DEF GoTo
  <1> HIDE DEF k
  <1> QED BY <1>1, <1>2, ProcUpdate

(* What a call reads of a row is a snapshot.                                *)
LEMMA SnapshotType ==
    ASSUME NEW t \in Txns
    PROVE  Snapshot(t) \in Snapshots
  BY DEF Snapshot, Snapshots, Txns

(* Every action keeps the types of the calls.                               *)
LEMMA ProcType ==
    ASSUME TypeOK, Next, txn' \in Txns
    PROVE  proc' \in [Procs -> ProcStates]
  <1>0. /\ \A p \in Procs : proc[p] \in ProcStates
        /\ txn \in Txns /\ bank \in AnyAccount /\ transfer \in Transfers
        /\ Workers \subseteq Procs /\ Reconcilers \subseteq Procs
    BY DEF TypeOK, ProcStates, Txns, Procs
  <1>1. ASSUME NEW w \in Workers, StartPayout(w)
        PROVE  proc' \in [Procs -> ProcStates]
    <2> DEFINE k == [proc[w] EXCEPT !.pc = "record", !.account = bank]
    <2>1. k \in ProcStates /\ w \in Procs
      BY <1>0 DEF ProcStates
    <2>2. (proc' = proc) \/ proc' = [proc EXCEPT ![w] = k]
      BY <1>1 DEF StartPayout
    <2> HIDE DEF k
    <2> QED BY <2>1, <2>2, ProcUpdate DEF TypeOK, ProcStates
  <1>2. ASSUME NEW p \in Procs, NEW t \in Txns,
               proc' = [proc EXCEPT ![p].pc = "claim", ![p].snap = Snapshot(t)]
        PROVE  proc' \in [Procs -> ProcStates]
    <2> DEFINE k == [proc[p] EXCEPT !.pc = "claim", !.snap = Snapshot(t)]
    <2>1. k \in ProcStates
      BY <1>0, SnapshotType DEF ProcStates
    <2>2. proc' = [proc EXCEPT ![p] = k]
      BY <1>2
    <2> HIDE DEF k
    <2> QED BY <2>1, <2>2, ProcUpdate
  <1>3. ASSUME NEW w \in Workers, createOrUpdatePayoutTransaction(w)
        PROVE  proc' \in [Procs -> ProcStates]
    BY <1>0, <1>2, <1>3 DEF createOrUpdatePayoutTransaction
  <1>4. ASSUME NEW r \in Reconcilers, StartReconcile(r)
        PROVE  proc' \in [Procs -> ProcStates]
    BY <1>0, <1>2, <1>4 DEF StartReconcile
  <1>5. ASSUME NEW w \in Workers, claimPayoutProcessing(w)
        PROVE  proc' \in [Procs -> ProcStates]
    BY <1>0, <1>5, EndsType, GoToType DEF claimPayoutProcessing, Returns, Throws, AfterClaim
  <1>6. ASSUME NEW w \in Workers, PostTransfer(w) \/ PostLost(w) \/ handleSuccessfulPayout(w)
                                  \/ handleFailedPayout(w)
        PROVE  proc' \in [Procs -> ProcStates]
    BY <1>0, <1>6, EndsType, GoToType DEF PostTransfer, PostLost, Refused, Throws, Returns,
       handleSuccessfulPayout, AcceptedPayout, handleFailedPayout
  <1>7. ASSUME NEW r \in Reconcilers, reconcilePayout(r)
        PROVE  proc' \in [Procs -> ProcStates]
    BY <1>0, <1>7, EndsType, GoToType DEF reconcilePayout
  <1>8. ASSUME NEW p \in Procs, findTransferByReference(p)
        PROVE  proc' \in [Procs -> ProcStates]
    <2> DEFINE k == [proc[p] EXCEPT !.pc = "apply", !.found = transfer]
    <2>1. k \in ProcStates
      BY <1>0 DEF ProcStates
    <2>2. GoTo(p, "post") \/ proc' = [proc EXCEPT ![p] = k]
      BY <1>8 DEF findTransferByReference
    <2> HIDE DEF k
    <2> QED BY <2>1, <2>2, ProcUpdate, GoToType
  <1>9. ASSUME NEW p \in Procs, reconcileClaimedTransfer(p) \/ Crash(p)
        PROVE  proc' \in [Procs -> ProcStates]
    BY <1>9, EndsType DEF reconcileClaimedTransfer, Crash, Returns, Throws
  <1>10. CASE UNCHANGED proc
    BY <1>10 DEF TypeOK, ProcStates
  <1> QED BY <1>1, <1>3, <1>4, <1>5, <1>6, <1>7, <1>8, <1>9, <1>10 DEF Next, Call,
          ProviderSettles, ChangeBankDetails, Tick

(* The provider never takes back a completed transfer.                      *)
LEMMA TransferType ==
    ASSUME TypeOK, Next
    PROVE  /\ transfer' \in Transfers
           /\ transfer.state = "SUCCESSFUL" => transfer'.state = "SUCCESSFUL"
  <1>0. /\ transfer \in Transfers
        /\ \A w \in Workers : NewTransfer(w) \in Transfers
    BY DEF TypeOK, Procs, Transfers, ProviderStates, NewTransfer
  <1>1. ASSUME NEW w \in Workers, PostTransfer(w) \/ PostLost(w)
        PROVE  /\ transfer' \in Transfers
               /\ transfer.state = "SUCCESSFUL" => transfer'.state = "SUCCESSFUL"
    BY <1>0, <1>1 DEF PostTransfer, PostLost
  <1>2. ASSUME ProviderSettles
        PROVE  /\ transfer' \in Transfers
               /\ transfer.state = "SUCCESSFUL" => transfer'.state = "SUCCESSFUL"
    BY <1>0, <1>2 DEF ProviderSettles, Transfers, ProviderStates
  <1>3. CASE UNCHANGED transfer
    BY <1>0, <1>3
  <1> QED BY <1>1, <1>2, <1>3 DEF Next, Call, Crash, StartPayout, StartReconcile,
          createOrUpdatePayoutTransaction, claimPayoutProcessing, handleSuccessfulPayout,
          handleFailedPayout, reconcilePayout, findTransferByReference,
          reconcileClaimedTransfer, ChangeBankDetails, Tick

(* The counters stay within their bounds.                                   *)
LEMMA CounterType ==
    ASSUME TypeOK, Next
    PROVE  /\ calls' \in 0..MaxCalls /\ faults' \in 0..MaxFaults
           /\ changes' \in 0..MaxBankChanges
  <1>0. MaxCalls \in Nat /\ MaxFaults \in Nat /\ MaxBankChanges \in Nat
    BY PayoutAssumption DEF PayoutAssumption
  <1>1. /\ calls' = calls \/ (calls < MaxCalls /\ calls' = calls + 1)
        /\ faults' = faults \/ (faults < MaxFaults /\ faults' = faults + 1)
        /\ changes' = changes \/ (changes < MaxBankChanges /\ changes' = changes + 1)
    BY DEF Next, Call, Crash, StartPayout, StartReconcile, Fault, PostTransfer, PostLost,
       createOrUpdatePayoutTransaction, claimPayoutProcessing, handleSuccessfulPayout,
       handleFailedPayout, reconcilePayout, findTransferByReference, ProviderSettles,
       reconcileClaimedTransfer, ChangeBankDetails, Tick
  <1>2. calls \in 0..MaxCalls /\ faults \in 0..MaxFaults /\ changes \in 0..MaxBankChanges
    BY DEF TypeOK
  <1> QED BY <1>0, <1>1, <1>2

(* The books, the notice, the bank details and the outbox event. *)
LEMMA BooksType ==
    ASSUME TypeOK, Next
    PROVE  /\ overall' \in {"NONE", "PROCESSING"} \cup Terminal
           /\ notice' \in {"NONE"} \cup Terminal
  <1>0. overall \in {"NONE", "PROCESSING"} \cup Terminal /\ notice \in {"NONE"} \cup Terminal
    BY DEF TypeOK
  <1>1. ASSUME NEW w \in Workers, handleSuccessfulPayout(w)
        PROVE  notice' = notice /\ overall' \in {overall, "PROCESSING"}
    BY <1>1 DEF handleSuccessfulPayout, AcceptedPayout
  <1>2. ASSUME NEW p \in Procs, handleFailedPayout(p) \/ reconcileClaimedTransfer(p)
        PROVE  /\ overall' \in {overall} \cup Terminal
               /\ notice' \in {notice} \cup Terminal
    BY <1>2 DEF handleFailedPayout, reconcileClaimedTransfer, finalizePayoutStatus,
       releasePayoutProcessingLease, Terminal
  <1>3. CASE UNCHANGED <<overall, notice>>
    BY <1>0, <1>3
  <1> QED BY <1>0, <1>1, <1>2, <1>3 DEF Next, Call, Crash, StartPayout, StartReconcile, Procs,
          PostTransfer, PostLost, createOrUpdatePayoutTransaction, claimPayoutProcessing,
          reconcilePayout, findTransferByReference, ProviderSettles, ChangeBankDetails, Tick

(* The bank details and the outbox event keep their types.                  *)
LEMMA BankType ==
    ASSUME TypeOK, Next
    PROVE  bank' \in AnyAccount /\ delivery' \in {"open", "done"}
  <1>0. bank \in AnyAccount /\ delivery \in {"open", "done"}
    BY DEF TypeOK
  <1>1. bank' = bank \/ bank' \in AnyAccount
    BY DEF Next, Call, Crash, StartPayout, StartReconcile, PostTransfer, PostLost,
       createOrUpdatePayoutTransaction, claimPayoutProcessing, handleSuccessfulPayout,
       handleFailedPayout, reconcilePayout, findTransferByReference, ProviderSettles,
       reconcileClaimedTransfer, ChangeBankDetails, Tick
  <1>2. delivery' = delivery \/ delivery' \in {delivery, "done"}
    BY DEF Next, Call, Crash, StartPayout, StartReconcile, PostTransfer, PostLost, Refused,
       createOrUpdatePayoutTransaction, claimPayoutProcessing, handleSuccessfulPayout,
       handleFailedPayout, reconcilePayout, findTransferByReference, ProviderSettles,
       reconcileClaimedTransfer, ChangeBankDetails, Tick, Returns, Throws, AcceptedPayout
  <1> QED BY <1>0, <1>1, <1>2

(* Every step keeps the types.                                              *)
LEMMA TypeStep == TypeOK /\ [Next]_vars => TypeOK'
  <1> SUFFICES ASSUME TypeOK, [Next]_vars PROVE TypeOK'
    OBVIOUS
  <1>1. CASE Next
    <2>1. txn' \in Txns
      BY <1>1, TxnType
    <2>2. proc' \in [Procs -> ProcStates]
      BY <1>1, <2>1, ProcType
    <2> QED BY <1>1, <2>1, <2>2, TransferType, CounterType, BooksType, BankType
            DEF TypeOK, Txns, ProcStates
  <1>2. CASE UNCHANGED vars
    BY <1>2 DEF vars, TypeOK
  <1> QED BY <1>1, <1>2

(***************************************************************************)
(* Every call, lookup, late write and crash of the payout code leaves each *)
(* variable of the model in its type.                                      *)
(***************************************************************************)
THEOREM PayoutTypes == Spec => []TypeOK
  <1>1. Init => TypeOK
    BY InitType
  <1>2. TypeOK /\ [Next]_vars => TypeOK'
    BY TypeStep
  <1> QED BY <1>1, <1>2, PTL DEF Spec

-----------------------------------------------------------------------------
(* PAID_OUT is written from an answer of the provider that the caller has   *)
(* kept; the answer stays true because a completed transfer stays completed.*)

FoundIsReal ==
    \A p \in Procs : proc[p].found.state = "SUCCESSFUL" => transfer.state = "SUCCESSFUL"

(* Only the lookup changes what a caller has found, to what is there. *)
LEMMA FoundStep ==
    ASSUME TypeOK, Next, NEW p \in Procs
    PROVE  proc'[p].found \in {proc[p].found, NoTransfer, transfer}
  <1>0. proc \in [Procs -> ProcStates] /\ Workers \subseteq Procs /\ Reconcilers \subseteq Procs
    BY DEF TypeOK, ProcStates, Procs
  <1>1. ASSUME NEW q \in Procs, Ends(q)
        PROVE  proc'[p].found \in {proc[p].found, NoTransfer, transfer}
    BY <1>0, <1>1 DEF Ends, IdleProc
  <1>2. ASSUME NEW q \in Procs, NEW pc, GoTo(q, pc)
        PROVE  proc'[p].found \in {proc[p].found, NoTransfer, transfer}
    BY <1>0, <1>2 DEF GoTo, ProcStates
  <1>3. ASSUME NEW w \in Workers, StartPayout(w)
        PROVE  proc'[p].found = proc[p].found
    BY <1>0, <1>3 DEF StartPayout, ProcStates
  <1>4. ASSUME NEW q \in Procs, createOrUpdatePayoutTransaction(q) \/ StartReconcile(q)
        PROVE  proc'[p].found = proc[p].found
    BY <1>0, <1>4 DEF createOrUpdatePayoutTransaction, StartReconcile, ProcStates
  <1>5. ASSUME NEW q \in Procs, findTransferByReference(q)
        PROVE  proc'[p].found \in {proc[p].found, NoTransfer, transfer}
    <2>1. CASE GoTo(q, "post")
      BY <1>2, <2>1
    <2>2. CASE proc' = [proc EXCEPT ![q].pc = "apply", ![q].found = transfer]
      BY <1>0, <2>2 DEF ProcStates
    <2> QED BY <1>5, <2>1, <2>2 DEF findTransferByReference
  <1>6. ASSUME NEW q \in Procs,
               \/ claimPayoutProcessing(q) \/ PostTransfer(q) \/ PostLost(q)
               \/ handleSuccessfulPayout(q) \/ handleFailedPayout(q) \/ reconcilePayout(q)
               \/ reconcileClaimedTransfer(q) \/ Crash(q)
        PROVE  Ends(q) \/ \E pc \in {"lookup", "post", "succeed", "fail"} : GoTo(q, pc)
    BY <1>6 DEF claimPayoutProcessing, PostTransfer, PostLost, Refused, AfterClaim,
       handleSuccessfulPayout, AcceptedPayout, handleFailedPayout, reconcilePayout,
       reconcileClaimedTransfer, Crash, Returns, Throws
  <1>7. CASE UNCHANGED proc
    BY <1>7
  <1> QED BY <1>0, <1>1, <1>2, <1>3, <1>4, <1>5, <1>6, <1>7 DEF Next, Call, ProviderSettles,
          ChangeBankDetails, Tick

(* A SUCCESSFUL answer in hand stays true however old it gets.              *)
LEMMA FoundIsRealStep ==
    ASSUME TypeOK, FoundIsReal, Next
    PROVE  FoundIsReal'
  <1> SUFFICES ASSUME NEW p \in Procs, proc'[p].found.state = "SUCCESSFUL"
               PROVE  transfer'.state = "SUCCESSFUL"
    BY DEF FoundIsReal
  <1>1. proc'[p].found \in {proc[p].found, NoTransfer, transfer}
    BY FoundStep
  <1>2. transfer.state = "SUCCESSFUL"
    BY <1>1 DEF FoundIsReal, NoTransfer
  <1> QED BY <1>2, TransferType

(* The invariant from which the properties of a settled payout follow. *)
PayInv == TypeOK /\ FoundIsReal /\ PaidOutIsReal /\ SettledConsistently

(* The inductive invariant holds initially.                                 *)
LEMMA PayInvInit == Init => PayInv
  <1> SUFFICES ASSUME Init PROVE PayInv
    OBVIOUS
  <1>1. TypeOK
    BY InitType
  <1> QED BY <1>1 DEF Init, PayInv, FoundIsReal, PaidOutIsReal, SettledConsistently, IdleProc,
          NoTransfer, Terminal

(* The inductive invariant is preserved by every step.                      *)
LEMMA PayInvStep == PayInv /\ [Next]_vars => PayInv'
  <1> SUFFICES ASSUME PayInv, [Next]_vars PROVE PayInv'
    OBVIOUS
  <1>1. CASE Next
    <2>0. TypeOK /\ FoundIsReal /\ PaidOutIsReal /\ SettledConsistently
      BY DEF PayInv
    <2>1. TypeOK' /\ FoundIsReal'
      BY <1>1, <2>0, TypeStep, FoundIsRealStep
    <2>2. BooksStep /\ (transfer.state = "SUCCESSFUL" => transfer'.state = "SUCCESSFUL")
      BY <1>1, <2>0, BooksStepHolds, TransferType
    <2>3. PaidOutIsReal'
      BY <2>0, <2>2 DEF BooksStep, PaidOutIsReal, FoundIsReal
    <2>4. SettledConsistently'
      BY <2>0, <2>2 DEF BooksStep, SettledConsistently, Terminal
    <2> QED BY <2>1, <2>3, <2>4 DEF PayInv
  <1>2. CASE UNCHANGED vars
    BY <1>2, TypeStep DEF vars, PayInv, FoundIsReal, PaidOutIsReal, SettledConsistently
  <1> QED BY <1>1, <1>2

(***************************************************************************)
(* The invariant of the payout code: what a caller remembers of the        *)
(* provider's answer never overstates it, and a settled row agrees with    *)
(* the provider, the booking and the notice.                               *)
(***************************************************************************)
THEOREM PayoutInvariant == Spec => []PayInv
  BY PayInvInit, PayInvStep, PTL DEF Spec

(***************************************************************************)
(* A payout is PAID_OUT only when the provider completed the transfer, for *)
(* any number of concurrent workers and reconcilers and calls of any       *)
(* duration (reconcileClaimedTransfer, finalizePayoutStatus).              *)
(***************************************************************************)
THEOREM PaidOutMeansPaid == Spec => []PaidOutIsReal
  <1>1. PayInv => PaidOutIsReal
    BY DEF PayInv
  <1> QED BY <1>1, PayoutInvariant, PTL

(***************************************************************************)
(* The booking's overall payout status and the notice to the fleet owner   *)
(* agree with a settled payout (finalizePayoutStatus writes all three under*)
(* the lease, handleSuccessfulPayout is fenced by it).                     *)
(***************************************************************************)
THEOREM SettledBooksAgree == Spec => []SettledConsistently
  <1>1. PayInv => SettledConsistently
    BY DEF PayInv
  <1> QED BY <1>1, PayoutInvariant, PTL

(***************************************************************************)
(* No retry, webhook, admin request or late write reopens a paid out payout*)
(* (the where clauses of claimPayoutProcessing, reconcilePayout and        *)
(* finalizePayoutStatus).                                                  *)
(***************************************************************************)
THEOREM PaidOutStays == Spec => PaidOutIsFinal
  <1>1. TypeOK /\ [Next]_vars => [txn.status = "PAID_OUT" => txn'.status = "PAID_OUT"]_vars
    <2> SUFFICES ASSUME TypeOK, Next
                 PROVE  txn.status = "PAID_OUT" => txn'.status = "PAID_OUT"
      OBVIOUS
    <2> QED BY BooksStepHolds DEF BooksStep
  <1> QED BY <1>1, PayoutTypes, PTL DEF Spec, PaidOutIsFinal

-----------------------------------------------------------------------------
(* A call that is prompt cannot lose its lease: time stands still while it  *)
(* runs, so the lease it took has all of its time left.                     *)

UnderLease == {"lookup", "apply", "post", "succeed", "fail"}

(* A prompt call that went past its claim holds the lease, and one that     *)
(* read a row not yet PROCESSING finds no expired lease when it claims.     *)
KeepsLease(p) == proc[p].pc \in UnderLease => Holds(p) /\ txn.leaseLeft = Lease

ReadIsFresh(p) ==
    proc[p].pc = "claim" /\ proc[p].snap.status # "PROCESSING" /\ txn.status = "PROCESSING"
        => LeaseFree \/ txn.leaseLeft = Lease

LeaseInv == \A p \in Procs \ Slow : KeepsLease(p) /\ (p \in Workers => ReadIsFresh(p))

(* The three things a statement does to the lease. *)
LeaseStays ==
    /\ txn'.lease = txn.lease /\ txn'.leaseLeft = txn.leaseLeft
    /\ \/ txn'.status = txn.status
       \/ txn.status = "NONE" /\ txn'.status = "PENDING_DISBURSEMENT"

LeaseTaken(q) ==
    /\ txn.status = "PROCESSING" => LeaseFree \/ LeaseExpired
    /\ txn'.status = "PROCESSING" /\ txn'.lease = q /\ txn'.leaseLeft = Lease

LeaseGiven(q) == Holds(q) /\ txn'.lease = Nobody /\ txn'.leaseLeft = 0

(* None of them harms a prompt call that stands still. *)
LEMMA LeaseBystander ==
    ASSUME TypeOK, LeaseInv, NEW p \in Procs \ Slow, NEW q \in Procs, p # q,
           proc'[p] = proc[p], LeaseStays \/ LeaseTaken(q) \/ LeaseGiven(q)
    PROVE  KeepsLease(p)' /\ (p \in Workers => ReadIsFresh(p)')
  <1>0. /\ KeepsLease(p) /\ (p \in Workers => ReadIsFresh(p))
        /\ Nobody \notin Procs /\ Lease # 0
    BY PayoutAssumption DEF LeaseInv, PayoutAssumption, Procs
  <1>1. CASE LeaseStays
    BY <1>0, <1>1 DEF LeaseStays, KeepsLease, ReadIsFresh, Holds, LeaseFree
  <1>2. CASE LeaseTaken(q)
    BY <1>0, <1>2 DEF LeaseTaken, KeepsLease, ReadIsFresh, Holds, LeaseFree, LeaseExpired
  <1>3. CASE LeaseGiven(q)
    BY <1>0, <1>3 DEF LeaseGiven, KeepsLease, ReadIsFresh, Holds, LeaseFree
  <1> QED BY <1>1, <1>2, <1>3

(* A call that ends is idle, and no other call notices. *)
LEMMA EndsEffect ==
    ASSUME TypeOK, NEW q \in Procs, Ends(q)
    PROVE  proc'[q].pc = "idle" /\ \A p \in Procs \ {q} : proc'[p] = proc[p]
  BY DEF TypeOK, Ends, IdleProc

(* A call that goes on keeps what it read, and no other call notices. *)
LEMMA GoToEffect ==
    ASSUME TypeOK, NEW q \in Procs, NEW pc, GoTo(q, pc)
    PROVE  proc'[q].pc = pc /\ \A p \in Procs \ {q} : proc'[p] = proc[p]
  <1>1. proc \in [Procs -> ProcStates]
    BY DEF TypeOK, ProcStates
  <1> QED BY <1>1 DEF GoTo, ProcStates

(* What the end of a call does to the lease. *)
LEMMA EndsLease ==
    ASSUME TypeOK, LeaseInv, NEW q \in Procs, Ends(q), LeaseStays \/ LeaseGiven(q)
    PROVE  LeaseInv'
  <1> SUFFICES ASSUME NEW p \in Procs \ Slow
               PROVE  KeepsLease(p)' /\ (p \in Workers => ReadIsFresh(p)')
    BY DEF LeaseInv
  <1>1. CASE p = q
    BY <1>1, EndsEffect DEF KeepsLease, ReadIsFresh, UnderLease
  <1>2. CASE p # q
    BY <1>2, EndsEffect, LeaseBystander
  <1> QED BY <1>1, <1>2

(* A call that goes on without touching the row keeps the lease it had.     *)
LEMMA GoToLease ==
    ASSUME TypeOK, LeaseInv, NEW q \in Procs, NEW pc \in UnderLease, GoTo(q, pc),
           \/ LeaseTaken(q)
           \/ UNCHANGED txn /\ proc[q].pc \in UnderLease
    PROVE  LeaseInv'
  <1> SUFFICES ASSUME NEW p \in Procs \ Slow
               PROVE  KeepsLease(p)' /\ (p \in Workers => ReadIsFresh(p)')
    BY DEF LeaseInv
  <1>1. CASE p = q
    <2>1. proc'[q].pc = pc /\ pc # "claim"
      BY GoToEffect DEF UnderLease
    <2>2. KeepsLease(q)'
      BY <1>1 DEF LeaseInv, KeepsLease, LeaseTaken, Holds
    <2> QED BY <1>1, <2>1, <2>2 DEF ReadIsFresh
  <1>2. CASE p # q
    <2>1. LeaseStays \/ LeaseTaken(q)
      BY DEF LeaseStays
    <2> QED BY <1>2, <2>1, GoToEffect, LeaseBystander
  <1> QED BY <1>1, <1>2

(* Settling the payout gives the lease up, if the call still has it. *)
LEMMA FinalizeLease ==
    ASSUME TypeOK, NEW p \in Procs, NEW status, finalizePayoutStatus(p, status)
    PROVE  LeaseStays \/ LeaseGiven(p)
  <1>1. txn \in Txns
    BY DEF TypeOK, Txns
  <1> QED BY <1>1 DEF finalizePayoutStatus, Unleased, Txns, LeaseStays, LeaseGiven

(* So does giving up the lease and nothing else. *)
LEMMA UnleasedLease ==
    ASSUME TypeOK, NEW p \in Procs, txn' = IF Holds(p) THEN Unleased(txn) ELSE txn
    PROVE  LeaseStays \/ LeaseGiven(p)
  <1>1. txn \in Txns
    BY DEF TypeOK, Txns
  <1> QED BY <1>1 DEF Unleased, Txns, LeaseStays, LeaseGiven

(* Every action keeps the lease of a prompt call.                           *)
LEMMA LeaseInvStep ==
    ASSUME TypeOK, LeaseInv, Next
    PROVE  LeaseInv'
  <1>0. /\ proc \in [Procs -> ProcStates] /\ txn \in Txns
        /\ Workers \subseteq Procs /\ Reconcilers \subseteq Procs
        /\ Workers \cap Reconcilers = {}
    BY PayoutAssumption DEF TypeOK, ProcStates, Txns, Procs, PayoutAssumption
  <1>1. ASSUME NEW w \in Workers, StartPayout(w)
        PROVE  LeaseInv'
    <2> SUFFICES ASSUME NEW p \in Procs \ Slow
                 PROVE  KeepsLease(p)' /\ (p \in Workers => ReadIsFresh(p)')
      BY DEF LeaseInv
    <2>1. UNCHANGED txn /\ (proc'[p] = proc[p] \/ proc'[p].pc = "record")
      BY <1>0, <1>1 DEF StartPayout, ProcStates
    <2> QED BY <2>1 DEF LeaseInv, KeepsLease, ReadIsFresh, UnderLease, Holds, LeaseFree
  <1>2. ASSUME NEW w \in Workers, createOrUpdatePayoutTransaction(w)
        PROVE  LeaseInv'
    <2> SUFFICES ASSUME NEW p \in Procs \ Slow
                 PROVE  KeepsLease(p)' /\ (p \in Workers => ReadIsFresh(p)')
      BY DEF LeaseInv
    <2>1. txn' = Recorded(proc[w].account)
          /\ proc' = [proc EXCEPT ![w].pc = "claim", ![w].snap = Snapshot(txn')]
      BY <1>2 DEF createOrUpdatePayoutTransaction
    <2>2. LeaseStays
      BY <1>0, <2>1 DEF Recorded, LeaseStays, Txns
    <2>3. CASE p = w
      <3>1. proc'[w].pc = "claim" /\ proc'[w].snap = Snapshot(txn')
        BY <1>0, <2>1 DEF ProcStates
      <3> QED BY <2>3, <3>1 DEF KeepsLease, ReadIsFresh, UnderLease, Snapshot
    <2>4. CASE p # w
      <3>1. proc'[p] = proc[p]
        BY <1>0, <2>1, <2>4
      <3> QED BY <1>0, <2>2, <2>4, <3>1, LeaseBystander
    <2> QED BY <2>3, <2>4
  <1>3. ASSUME NEW w \in Workers, claimPayoutProcessing(w)
        PROVE  LeaseInv'
    <2>1. CASE Ends(w) /\ UNCHANGED txn
      BY <1>0, <2>1, EndsLease DEF LeaseStays
    <2>2. CASE /\ Claimable /\ GoTo(w, AfterClaim(proc[w].snap))
               /\ txn' = [txn EXCEPT !.status = "PROCESSING", !.lease = w,
                                     !.leaseLeft = Lease, !.graceLeft = Grace]
      <3>1. LeaseTaken(w)
        BY <1>0, <2>2 DEF LeaseTaken, Claimable, Txns
      <3>2. AfterClaim(proc[w].snap) \in UnderLease
        BY DEF AfterClaim, UnderLease
      <3> QED BY <1>0, <2>2, <3>1, <3>2, GoToLease
    <2> QED BY <1>3, <2>1, <2>2 DEF claimPayoutProcessing, Returns, Throws
  <1>4. ASSUME NEW w \in Workers, PostTransfer(w) \/ PostLost(w)
        PROVE  LeaseInv'
    <2>1. UNCHANGED txn /\ proc[w].pc \in UnderLease
      BY <1>4 DEF PostTransfer, PostLost, UnderLease
    <2>2. Ends(w) \/ \E pc \in UnderLease : GoTo(w, pc)
      BY <1>4 DEF PostTransfer, PostLost, Refused, Throws, UnderLease
    <2> QED BY <1>0, <2>1, <2>2, EndsLease, GoToLease DEF LeaseStays
  <1>5. ASSUME NEW w \in Workers, handleSuccessfulPayout(w)
        PROVE  LeaseInv'
    <2>1. Ends(w) /\ txn' = IF Holds(w) THEN Unleased(txn) ELSE txn
      BY <1>5 DEF handleSuccessfulPayout, AcceptedPayout, Returns, Throws
    <2> QED BY <1>0, <2>1, UnleasedLease, EndsLease
  <1>6. ASSUME NEW w \in Workers, handleFailedPayout(w)
        PROVE  LeaseInv'
    <2>1. Ends(w) /\ finalizePayoutStatus(w, "FAILED")
      BY <1>6 DEF handleFailedPayout, Throws
    <2> QED BY <1>0, <2>1, FinalizeLease, EndsLease
  <1>7. ASSUME NEW r \in Reconcilers, StartReconcile(r)
        PROVE  LeaseInv'
    <2> SUFFICES ASSUME NEW p \in Procs \ Slow
                 PROVE  KeepsLease(p)' /\ (p \in Workers => ReadIsFresh(p)')
      BY DEF LeaseInv
    <2>1. UNCHANGED txn /\ (proc'[p] = proc[p] \/ (p = r /\ proc'[p].pc = "claim"))
      BY <1>0, <1>7 DEF StartReconcile, ProcStates
    <2> QED BY <1>0, <2>1 DEF LeaseInv, KeepsLease, ReadIsFresh, UnderLease, Holds, LeaseFree
  <1>8. ASSUME NEW r \in Reconcilers, reconcilePayout(r)
        PROVE  LeaseInv'
    <2>1. CASE Ends(r) /\ UNCHANGED txn
      BY <1>0, <2>1, EndsLease DEF LeaseStays
    <2>2. CASE /\ txn.status = "PROCESSING" /\ (LeaseFree \/ LeaseExpired)
               /\ txn' = [txn EXCEPT !.lease = r, !.leaseLeft = Lease] /\ GoTo(r, "lookup")
      <3>1. LeaseTaken(r) /\ "lookup" \in UnderLease
        BY <1>0, <2>2 DEF LeaseTaken, Txns, UnderLease
      <3> QED BY <1>0, <2>2, <3>1, GoToLease
    <2> QED BY <1>8, <2>1, <2>2 DEF reconcilePayout
  <1>9. ASSUME NEW q \in Procs, findTransferByReference(q)
        PROVE  LeaseInv'
    <2> SUFFICES ASSUME NEW p \in Procs \ Slow
                 PROVE  KeepsLease(p)' /\ (p \in Workers => ReadIsFresh(p)')
      BY DEF LeaseInv
    <2>1. /\ UNCHANGED txn
          /\ \/ proc'[p] = proc[p]
             \/ proc[p].pc = "lookup" /\ proc'[p].pc \in {"post", "apply"}
      BY <1>0, <1>9 DEF findTransferByReference, GoTo, ProcStates
    <2> QED BY <2>1 DEF LeaseInv, KeepsLease, ReadIsFresh, UnderLease, Holds, LeaseFree
  <1>10. ASSUME NEW q \in Procs, reconcileClaimedTransfer(q)
         PROVE  LeaseInv'
    <2>1. Ends(q)
      BY <1>10 DEF reconcileClaimedTransfer, Returns, Throws
    <2>2. LeaseStays \/ LeaseGiven(q)
      BY <1>10, FinalizeLease, UnleasedLease DEF reconcileClaimedTransfer,
         releasePayoutProcessingLease
    <2> QED BY <2>1, <2>2, EndsLease
  <1>11. ASSUME NEW q \in Procs, Crash(q)
         PROVE  LeaseInv'
    BY <1>11, EndsLease DEF Crash, Throws, LeaseStays
  <1>12. ASSUME Tick
         PROVE  LeaseInv'
    BY <1>12 DEF Tick, LeaseInv, KeepsLease, ReadIsFresh, UnderLease
  <1>13. CASE UNCHANGED <<txn, proc>>
    BY <1>13 DEF LeaseInv, KeepsLease, ReadIsFresh, Holds, LeaseFree
  <1> QED BY <1>1, <1>2, <1>3, <1>4, <1>5, <1>6, <1>7, <1>8, <1>9, <1>10, <1>11, <1>12, <1>13
          DEF Next, Call, ProviderSettles, ChangeBankDetails

(***************************************************************************)
(* A prompt call past its claim holds a lease with all of its time left,   *)
(* however slow the calls beside it are.                                   *)
(***************************************************************************)
THEOREM PromptCallsKeepLease == Spec => []LeaseInv
  <1>1. Init => LeaseInv
    BY DEF Init, LeaseInv, KeepsLease, ReadIsFresh, IdleProc, UnderLease
  <1>2. TypeOK /\ LeaseInv /\ [Next]_vars => LeaseInv'
    <2> SUFFICES ASSUME TypeOK, LeaseInv, [Next]_vars PROVE LeaseInv'
      OBVIOUS
    <2>1. CASE UNCHANGED vars
      BY <2>1 DEF vars, LeaseInv, KeepsLease, ReadIsFresh, Holds, LeaseFree
    <2> QED BY <2>1, LeaseInvStep
  <1> QED BY <1>1, <1>2, PayoutTypes, PTL DEF Spec

(***************************************************************************)
(* "Concurrent or stale-redriven workers cannot call the provider while    *)
(* that lease is active": a worker whose call does not outlast its lease   *)
(* holds it when it posts (claimPayoutProcessing, initiatePayout).         *)
(***************************************************************************)
THEOREM PostsHoldLease == Spec => []PostsUnderLease
  <1>1. LeaseInv => PostsUnderLease
    BY DEF LeaseInv, KeepsLease, UnderLease, PostsUnderLease, Procs
  <1> QED BY <1>1, PromptCallsKeepLease, PTL

(***************************************************************************)
(* A prompt worker that takes over an expired lease looks the reference up *)
(* before it may post (shouldReconcile in claimPayoutProcessing).          *)
(***************************************************************************)
THEOREM TakeoverLooksUp == Spec => ExpiredLeaseReconciledFirst
  <1>1. TypeOK /\ LeaseInv /\ [Next]_vars =>
            [\A w \in Workers \ Slow :
                txn.status = "PROCESSING" /\ txn.lease # w /\ txn'.lease = w =>
                    proc'[w].pc = "lookup"]_vars
    <2> SUFFICES ASSUME TypeOK, LeaseInv, Next, NEW w \in Workers \ Slow,
                        txn.status = "PROCESSING", txn.lease # w, txn'.lease = w
                 PROVE  proc'[w].pc = "lookup"
      OBVIOUS
    <2>0. /\ txn \in Txns /\ Workers \subseteq Procs /\ w \notin Reconcilers /\ w # Nobody
          /\ Lease # 0
      BY PayoutAssumption DEF TypeOK, Txns, Procs, PayoutAssumption
    <2>1. claimPayoutProcessing(w)
      <3>1. ASSUME NEW q \in Workers, createOrUpdatePayoutTransaction(q)
            PROVE  txn'.lease = txn.lease
        BY <2>0, <3>1 DEF createOrUpdatePayoutTransaction, Recorded, Txns
      <3>2. ASSUME NEW q \in Workers, claimPayoutProcessing(q)
            PROVE  txn'.lease \in {txn.lease, q} /\ (txn'.lease = txn.lease \/ txn'.lease = q)
        BY <2>0, <3>2 DEF claimPayoutProcessing, Txns
      <3>3. ASSUME NEW q \in Procs, handleSuccessfulPayout(q) \/ handleFailedPayout(q)
                                    \/ reconcileClaimedTransfer(q)
            PROVE  txn'.lease \in {txn.lease, Nobody}
        <4>1. LeaseStays \/ LeaseGiven(q)
          BY <3>3, FinalizeLease, UnleasedLease DEF handleSuccessfulPayout, AcceptedPayout,
             handleFailedPayout, reconcileClaimedTransfer, releasePayoutProcessingLease
        <4> QED BY <4>1 DEF LeaseStays, LeaseGiven
      <3>4. ASSUME NEW r \in Reconcilers, reconcilePayout(r)
            PROVE  txn'.lease \in {txn.lease, r}
        BY <2>0, <3>4 DEF reconcilePayout, Txns
      <3>5. ASSUME Tick PROVE txn'.lease = txn.lease
        BY <2>0, <3>5 DEF Tick, Txns
      <3>6. CASE UNCHANGED txn
        BY <3>6
      <3> QED BY <2>0, <3>1, <3>2, <3>3, <3>4, <3>5, <3>6 DEF Next, Call, Crash, StartPayout,
              PostLost, PostTransfer, StartReconcile, findTransferByReference, ProviderSettles,
              ChangeBankDetails
    <2>2. /\ proc[w].pc = "claim" /\ Claimable /\ GoTo(w, AfterClaim(proc[w].snap))
      BY <2>1 DEF claimPayoutProcessing
    <2>3. proc[w].snap.status = "PROCESSING"
      BY <2>0, <2>2 DEF LeaseInv, ReadIsFresh, Claimable, LeaseExpired, LeaseFree
    <2> QED BY <2>0, <2>2, <2>3, GoToEffect DEF AfterClaim
  <1> QED BY <1>1, PayoutTypes, PromptCallsKeepLease, PTL DEF Spec, ExpiredLeaseReconciledFirst

-----------------------------------------------------------------------------
(* FAILED is written after a refusal or from a lookup.  A refusal stays     *)
(* true while the call holds the lease: whoever posts meanwhile has lost    *)
(* his.                                                                     *)

NoneOrLate == transfer.state \in {"NONE", "FAILED"} \/ transfer.late

RefusalStands == \A w \in Workers : proc[w].pc = "fail" /\ Holds(w) => NoneOrLate

FailureIsReal == \A p \in Procs : proc[p].found.state = "FAILED" => transfer.state = "FAILED"

FailInv == RefusalStands /\ FailureIsReal /\ FailedIsReal

(* What happens to the provider's record: nobody posts twice, and what was  *)
(* posted without the lease is marked late.                                 *)
TransferStep ==
    \/ UNCHANGED transfer
    \/ \E w \in Workers :
          /\ proc[w].pc = "post" /\ proc'[w].pc # "fail"
          /\ transfer.state = "NONE" /\ transfer' = NewTransfer(w)
          /\ UNCHANGED txn /\ \A p \in Procs \ {w} : proc'[p] = proc[p]
    \/ /\ transfer.state = "NEW" /\ transfer'.state # "NONE" /\ transfer'.late = transfer.late
       /\ UNCHANGED <<txn, proc>>

(* Every action changes the provider's record in one of these ways.         *)
LEMMA TransferStepHolds ==
    ASSUME TypeOK, Next
    PROVE  TransferStep
  <1>0. transfer \in Transfers /\ Workers \subseteq Procs
    BY DEF TypeOK, Procs
  <1>1. ASSUME NEW w \in Workers, PostTransfer(w) \/ PostLost(w)
        PROVE  TransferStep
    <2>1. CASE UNCHANGED transfer
      BY <2>1 DEF TransferStep
    <2>2. CASE transfer' # transfer
      <3>1. /\ proc[w].pc = "post" /\ transfer.state = "NONE" /\ transfer' = NewTransfer(w)
            /\ UNCHANGED txn /\ (Ends(w) \/ GoTo(w, "succeed"))
        BY <1>1, <2>2 DEF PostTransfer, PostLost, Throws
      <3>2. proc'[w].pc # "fail" /\ \A p \in Procs \ {w} : proc'[p] = proc[p]
        BY <1>0, <3>1, EndsEffect, GoToEffect
      <3> QED BY <3>1, <3>2 DEF TransferStep
    <2> QED BY <2>1, <2>2
  <1>2. ASSUME ProviderSettles
        PROVE  TransferStep
    <2>1. transfer'.late = transfer.late /\ transfer'.state \in {"SUCCESSFUL", "FAILED"}
      BY <1>0, <1>2 DEF ProviderSettles, Transfers
    <2> QED BY <1>2, <2>1 DEF ProviderSettles, TransferStep
  <1>3. CASE UNCHANGED transfer
    BY <1>3 DEF TransferStep
  <1> QED BY <1>1, <1>2, <1>3 DEF Next, Call, Crash, StartPayout, StartReconcile,
          createOrUpdatePayoutTransaction, claimPayoutProcessing, handleSuccessfulPayout,
          handleFailedPayout, reconcilePayout, findTransferByReference,
          reconcileClaimedTransfer, ChangeBankDetails, Tick

(* A FAILED answer in hand stays true however old it gets.                  *)
LEMMA FailureIsRealStep ==
    ASSUME TypeOK, FailureIsReal, Next
    PROVE  FailureIsReal'
  <1> SUFFICES ASSUME NEW p \in Procs, proc'[p].found.state = "FAILED"
               PROVE  transfer'.state = "FAILED"
    BY DEF FailureIsReal
  <1>1. transfer.state = "FAILED"
    BY FoundStep DEF FailureIsReal, NoTransfer
  <1> QED BY <1>1, TransferStepHolds DEF TransferStep

(* A record that is none, failed or late stays so while nobody who holds    *)
(* the lease posts.                                                         *)
LEMMA LateStays ==
    ASSUME TypeOK, TransferStep, NoneOrLate,
           \A w \in Workers : proc[w].pc = "post" => ~Holds(w)
    PROVE  NoneOrLate'
  <1>1. CASE UNCHANGED transfer
    BY <1>1 DEF NoneOrLate
  <1>2. ASSUME NEW w \in Workers, proc[w].pc = "post", transfer' = NewTransfer(w)
        PROVE  NoneOrLate'
    BY <1>2 DEF NoneOrLate, NewTransfer
  <1>3. CASE transfer.state = "NEW" /\ transfer'.late = transfer.late
    BY <1>3 DEF NoneOrLate
  <1> QED BY <1>1, <1>2, <1>3 DEF TransferStep

(* How a worker comes to hold a refusal: the provider had nothing.          *)
LEMMA RefusalStep ==
    ASSUME DuplicateReply = "CONFLICT", TypeOK, Next, NEW w \in Workers,
           proc'[w].pc = "fail", Holds(w)'
    PROVE  \/ proc[w].pc = "fail" /\ Holds(w)
           \/ transfer.state = "NONE" /\ UNCHANGED transfer
  <1>0. /\ proc \in [Procs -> ProcStates] /\ txn \in Txns
        /\ Workers \subseteq Procs /\ Reconcilers \subseteq Procs
        /\ Workers \cap Reconcilers = {} /\ Nobody \notin Procs
    BY PayoutAssumption DEF TypeOK, ProcStates, Txns, Procs, PayoutAssumption
  <1>1. ASSUME NEW q \in Workers, PostTransfer(q)
        PROVE  \/ proc[w].pc = "fail" /\ Holds(w)
               \/ transfer.state = "NONE" /\ UNCHANGED transfer
    <2>1. UNCHANGED txn
      BY <1>1 DEF PostTransfer
    <2>2. CASE q = w
      BY <1>0, <1>1, <2>2, EndsEffect, GoToEffect DEF PostTransfer, Throws, Refused
    <2>3. CASE q # w
      <3>1. Ends(q) \/ \E pc \in {"succeed", "fail"} : GoTo(q, pc)
        BY <1>1 DEF PostTransfer, Throws, Refused
      <3>2. proc'[w] = proc[w]
        BY <1>0, <2>3, <3>1, EndsEffect, GoToEffect
      <3> QED BY <2>1, <3>2 DEF Holds
    <2> QED BY <2>2, <2>3
  <1>2. ASSUME NEW q \in Procs, Ends(q), LeaseStays \/ LeaseGiven(q)
        PROVE  proc[w].pc = "fail" /\ Holds(w)
    <2>1. w # q /\ proc'[w] = proc[w]
      BY <1>0, <1>2, EndsEffect
    <2> QED BY <1>0, <1>2, <2>1 DEF LeaseStays, LeaseGiven, Holds
  <1>3. ASSUME NEW q \in Procs, NEW pc \in {"lookup", "post"}, GoTo(q, pc),
               UNCHANGED txn \/ txn'.lease = q
        PROVE  proc[w].pc = "fail" /\ Holds(w)
    <2>1. w # q /\ proc'[w] = proc[w]
      BY <1>0, <1>3, GoToEffect
    <2> QED BY <1>0, <1>3, <2>1 DEF Holds
  <1>4. ASSUME NEW q \in Workers, StartPayout(q) \/ createOrUpdatePayoutTransaction(q)
        PROVE  proc[w].pc = "fail" /\ Holds(w)
    <2>1. proc'[w] = proc[w] \/ proc'[w].pc \in {"record", "claim"}
      BY <1>0, <1>4 DEF StartPayout, createOrUpdatePayoutTransaction, ProcStates
    <2>2. /\ txn'.lease = txn.lease
          /\ txn'.status = txn.status \/ txn'.status = "PENDING_DISBURSEMENT"
      BY <1>0, <1>4 DEF StartPayout, createOrUpdatePayoutTransaction, Recorded, Txns
    <2> QED BY <2>1, <2>2 DEF Holds
  <1>5. ASSUME NEW q \in Workers, claimPayoutProcessing(q)
        PROVE  proc[w].pc = "fail" /\ Holds(w)
    <2>1. CASE Ends(q) /\ UNCHANGED txn
      BY <1>0, <1>2, <2>1 DEF LeaseStays
    <2>2. CASE /\ GoTo(q, AfterClaim(proc[q].snap))
               /\ txn' = [txn EXCEPT !.status = "PROCESSING", !.lease = q,
                                     !.leaseLeft = Lease, !.graceLeft = Grace]
      <3>1. AfterClaim(proc[q].snap) \in {"lookup", "post"} /\ txn'.lease = q
        BY <1>0, <2>2 DEF AfterClaim, Txns
      <3> QED BY <1>0, <1>3, <2>2, <3>1
    <2> QED BY <1>5, <2>1, <2>2 DEF claimPayoutProcessing, Returns, Throws
  <1>6. ASSUME NEW q \in Procs, \/ handleSuccessfulPayout(q) \/ handleFailedPayout(q)
                                \/ reconcileClaimedTransfer(q) \/ Crash(q) \/ PostLost(q)
        PROVE  proc[w].pc = "fail" /\ Holds(w)
    <2>1. Ends(q)
      BY <1>6 DEF handleSuccessfulPayout, AcceptedPayout, handleFailedPayout, Returns, Throws,
         reconcileClaimedTransfer, Crash, PostLost
    <2>2. LeaseStays \/ LeaseGiven(q)
      BY <1>6, FinalizeLease, UnleasedLease DEF handleSuccessfulPayout, AcceptedPayout,
         handleFailedPayout, reconcileClaimedTransfer, releasePayoutProcessingLease, Crash,
         PostLost, LeaseStays
    <2> QED BY <1>2, <2>1, <2>2
  <1>7. ASSUME NEW r \in Reconcilers, StartReconcile(r) \/ reconcilePayout(r)
        PROVE  proc[w].pc = "fail" /\ Holds(w)
    <2>1. w # r
      BY <1>0
    <2>2. proc'[w] = proc[w]
      BY <1>0, <1>7, <2>1 DEF StartReconcile, reconcilePayout, Ends, GoTo
    <2>3. txn'.status = txn.status /\ txn'.lease \in {txn.lease, r}
      BY <1>0, <1>7 DEF StartReconcile, reconcilePayout, Txns
    <2> QED BY <2>1, <2>2, <2>3 DEF Holds
  <1>8. ASSUME NEW q \in Procs, findTransferByReference(q)
        PROVE  proc[w].pc = "fail" /\ Holds(w)
    <2>1. UNCHANGED txn /\ (proc'[w] = proc[w] \/ proc'[w].pc \in {"post", "apply"})
      BY <1>0, <1>8 DEF findTransferByReference, GoTo, ProcStates
    <2> QED BY <2>1 DEF Holds
  <1>9. ASSUME Tick
        PROVE  proc[w].pc = "fail" /\ Holds(w)
    BY <1>0, <1>9 DEF Tick, Holds, Txns
  <1>10. CASE UNCHANGED <<txn, proc>>
    BY <1>10 DEF Holds
  <1> QED BY <1>0, <1>1, <1>4, <1>5, <1>6, <1>7, <1>8, <1>9, <1>10 DEF Next, Call,
          ProviderSettles, ChangeBankDetails

(* How a payout comes to be FAILED: after a refusal, or from an answer.     *)
LEMMA FailedStep ==
    ASSUME TypeOK, Next, txn.status # "FAILED", txn'.status = "FAILED"
    PROVE  /\ UNCHANGED transfer
           /\ \E p \in Procs : \/ p \in Workers /\ proc[p].pc = "fail" /\ Holds(p)
                               \/ proc[p].found.state = "FAILED"
  <1>0. txn \in Txns /\ Workers \subseteq Procs
    BY DEF TypeOK, Txns, Procs
  <1>1. ASSUME NEW w \in Workers, handleFailedPayout(w)
        PROVE  UNCHANGED transfer /\ proc[w].pc = "fail" /\ Holds(w)
    BY <1>1 DEF handleFailedPayout, finalizePayoutStatus
  <1>2. ASSUME NEW p \in Procs, reconcileClaimedTransfer(p)
        PROVE  UNCHANGED transfer /\ proc[p].found.state = "FAILED"
    <2>1. UNCHANGED transfer
      BY <1>2 DEF reconcileClaimedTransfer
    <2>2. CASE releasePayoutProcessingLease(p)
      BY <2>2, UnleasedEffect DEF releasePayoutProcessingLease
    <2>3. CASE finalizePayoutStatus(p, "PAID_OUT")
      BY <2>3, FinalizeEffect DEF Terminal
    <2> QED BY <1>2, <2>1, <2>2, <2>3 DEF reconcileClaimedTransfer, TransferFailed
  <1>3. ASSUME NEW w \in Workers, createOrUpdatePayoutTransaction(w)
        PROVE  FALSE
    BY <1>0, <1>3 DEF createOrUpdatePayoutTransaction, Recorded, Txns
  <1>4. ASSUME NEW w \in Workers, claimPayoutProcessing(w)
        PROVE  FALSE
    BY <1>0, <1>4 DEF claimPayoutProcessing, Txns
  <1>5. ASSUME NEW w \in Workers, handleSuccessfulPayout(w)
        PROVE  FALSE
    BY <1>5, UnleasedEffect DEF handleSuccessfulPayout, AcceptedPayout
  <1>6. ASSUME NEW r \in Reconcilers, reconcilePayout(r)
        PROVE  FALSE
    BY <1>0, <1>6 DEF reconcilePayout, Txns
  <1>7. ASSUME Tick
        PROVE  FALSE
    BY <1>0, <1>7 DEF Tick, Txns
  <1>8. CASE UNCHANGED txn
    BY <1>8
  <1> QED BY <1>0, <1>1, <1>2, <1>3, <1>4, <1>5, <1>6, <1>7, <1>8 DEF Next, Call, Crash,
          StartPayout, PostLost, PostTransfer, StartReconcile, findTransferByReference,
          ProviderSettles, ChangeBankDetails

(* The invariant is preserved by every action. *)
LEMMA FailInvStep ==
    ASSUME DuplicateReply = "CONFLICT", TypeOK, FailInv, Next
    PROVE  FailInv'
  <1>0. TransferStep /\ FailureIsReal'
    BY TransferStepHolds, FailureIsRealStep DEF FailInv
  <1>1. ASSUME NEW w \in Workers, proc'[w].pc = "fail", Holds(w)'
        PROVE  NoneOrLate'
    <2>1. CASE proc[w].pc = "fail" /\ Holds(w)
      <3>1. NoneOrLate /\ \A v \in Workers : proc[v].pc = "post" => ~Holds(v)
        BY <2>1 DEF FailInv, RefusalStands, Holds
      <3> QED BY <1>0, <3>1, LateStays
    <2>2. CASE transfer.state = "NONE" /\ UNCHANGED transfer
      BY <2>2 DEF NoneOrLate
    <2> QED BY <1>1, <2>1, <2>2, RefusalStep
  <1>2. ASSUME txn'.status = "FAILED"
        PROVE  NoneOrLate'
    <2>1. CASE txn.status = "FAILED"
      <3>1. NoneOrLate /\ \A v \in Workers : ~Holds(v)
        BY <2>1 DEF FailInv, FailedIsReal, NoneOrLate, Holds
      <3> QED BY <1>0, <3>1, LateStays
    <2>2. CASE txn.status # "FAILED"
      <3>1. UNCHANGED transfer /\ NoneOrLate
        BY <1>2, <2>2, FailedStep DEF FailInv, RefusalStands, FailureIsReal, NoneOrLate
      <3> QED BY <3>1 DEF NoneOrLate
    <2> QED BY <2>1, <2>2
  <1> QED BY <1>0, <1>1, <1>2 DEF FailInv, RefusalStands, FailedIsReal, NoneOrLate

(***************************************************************************)
(* FAILED never hides a live or completed transfer except one that a call  *)
(* posted after it had lost its lease, when the provider answers a known   *)
(* reference with a conflict (handleFailedPayout, finalizePayoutStatus).   *)
(***************************************************************************)
THEOREM FailedMeansFailed ==
    ASSUME DuplicateReply = "CONFLICT"
    PROVE  Spec => []FailedIsReal
  <1>1. Init => FailInv
    BY DEF Init, FailInv, RefusalStands, FailureIsReal, FailedIsReal, IdleProc, NoTransfer, Procs
  <1>2. TypeOK /\ FailInv /\ [Next]_vars => FailInv'
    <2> SUFFICES ASSUME TypeOK, FailInv, [Next]_vars PROVE FailInv'
      OBVIOUS
    <2>1. CASE UNCHANGED vars
      BY <2>1 DEF vars, FailInv, RefusalStands, FailureIsReal, FailedIsReal, NoneOrLate, Holds
    <2> QED BY <2>1, FailInvStep
  <1>3. FailInv => FailedIsReal
    BY DEF FailInv
  <1> QED BY <1>1, <1>2, <1>3, PayoutTypes, PTL DEF Spec

(***************************************************************************)
(* When the provider answers a known reference with a conflict, the row,   *)
(* the booking and the notice say what it did, for any number of workers   *)
(* and reconcilers and calls of any duration (reconcileClaimedTransfer,    *)
(* finalizePayoutStatus, handleFailedPayout).                              *)
(***************************************************************************)
THEOREM PayoutBooksAreTrue ==
    ASSUME DuplicateReply = "CONFLICT"
    PROVE  Spec => []PayoutBooks
<1>1. TypeOK /\ PaidOutIsReal /\ FailedIsReal /\ SettledConsistently => PayoutBooks
    BY DEF PayoutBooks
<1> QED BY PayoutTypes, PaidOutMeansPaid, FailedMeansFailed, SettledBooksAgree, <1>1, PTL

(***************************************************************************)
(* No step reopens a payout that was paid out, and a prompt worker that    *)
(* takes over an expired lease looks the reference up first                *)
(* (finalizePayoutStatus, claimPayoutProcessing).                          *)
(***************************************************************************)
THEOREM PayoutStepsAreSafe == Spec => PayoutSteps
  BY PaidOutStays, TakeoverLooksUp DEF PayoutSteps

=============================================================================
