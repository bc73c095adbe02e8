------------------------------- MODULE Payout -------------------------------
(***************************************************************************)
(* The payout of one completed booking (src/modules/payment:               *)
(* payment.service, transfer-completed.handler, the payout half of         *)
(* admin-financial-operations and of payment-reconciliation).              *)
(*                                                                         *)
(* Outbox workers call initiatePayout, possibly several at once and again  *)
(* after a failure.  A call records the payout, claims a database lease on *)
(* it, asks Flutterwave for a transfer under a reference derived from the  *)
(* payout's id, and writes the outcome under the lease.  Reconcilers (the  *)
(* hourly cron, the transfer webhook, an admin) look the reference up and  *)
(* settle a payout that is PROCESSING.  Every statement and provider call  *)
(* is a step.                                                              *)
(*                                                                         *)
(* Every deadline is compared with the current time, so the clock is two   *)
(* countdowns: what is left of the lease and of the reconciliation grace   *)
(* period.  Amount and currency never change for a completed booking and   *)
(* are left out; a bank account stands for bank code and account number.   *)
(***************************************************************************)
EXTENDS Naturals, FiniteSets

CONSTANTS
    Workers,          \* outbox workers running initiatePayout
    Reconcilers,      \* runs of reconcilePayout
    Accounts,         \* bank accounts the fleet owner may have on file
    NoAccount,        \* no bank details, or not verified
    Nobody,           \* no lease
    Lease,            \* PAYOUT_PROCESSING_LEASE_MS, in clock units
    Grace,            \* PAYOUT_RECONCILIATION_GRACE_PERIOD_MS
    DuplicateReply,   \* what the provider answers to a known reference
    Slow,             \* workers and reconcilers whose calls may outlast the lease
    MaxCalls,         \* bound on initiatePayout calls (outbox and job retries)
    MaxFaults,        \* bound on crashes, failed calls and lost answers
    MaxBankChanges    \* bound on changes of the owner's bank details

ASSUME PayoutAssumption ==
    /\ Workers \cap Reconcilers = {}
    /\ Nobody \notin Workers \cup Reconcilers
    /\ NoAccount \notin Accounts
    /\ Lease \in Nat \ {0} /\ Grace \in Nat
    /\ DuplicateReply \in {"CONFLICT", "REJECTED"}
    /\ Slow \subseteq Workers \cup Reconcilers
    /\ {MaxCalls, MaxFaults, MaxBankChanges} \subseteq Nat

VARIABLES
    txn,       \* the PayoutTransaction row
    overall,   \* booking.overallPayoutStatus
    notice,    \* the payout status last put in the notification outbox
    bank,      \* the fleet owner's verified bank details
    transfer,  \* the provider's record for the payout's reference
    proc,      \* per worker and reconciler: where its call stands
    delivery,  \* the PAYOUT_PROCESSING outbox event: "open" or "done"
    calls, faults, changes

vars == <<txn, overall, notice, bank, transfer, proc, delivery, calls, faults, changes>>

Procs == Workers \cup Reconcilers

Terminal     == {"PAID_OUT", "FAILED"}
TxnStatuses  == {"NONE", "PENDING_DISBURSEMENT", "PROCESSING"} \cup Terminal
ProviderStates == {"NONE", "NEW", "SUCCESSFUL", "FAILED"}
AnyAccount   == Accounts \cup {NoAccount}

NoTransfer == [state |-> "NONE", account |-> NoAccount, late |-> FALSE]
NoSnapshot == [status |-> "NONE", account |-> NoAccount, leased |-> FALSE]
IdleProc   == [pc |-> "idle", account |-> NoAccount, snap |-> NoSnapshot,
               found |-> NoTransfer]

(* late: accepted from a call that had lost its lease (a history).          *)
Transfers == [state: ProviderStates, account: AnyAccount, late: BOOLEAN]
Snapshots == [status: TxnStatuses, account: AnyAccount, leased: BOOLEAN]

(***************************************************************************)
(* Every variable has its type: the row, the books and what each call of   *)
(* initiatePayout and reconcilePayout has in hand.                         *)
(***************************************************************************)
TypeOK ==
    /\ txn \in [status: TxnStatuses, account: AnyAccount,
                lease: Procs \cup {Nobody}, leaseLeft: 0..Lease, graceLeft: 0..Grace]
    /\ overall \in {"NONE", "PROCESSING"} \cup Terminal
    /\ notice \in {"NONE"} \cup Terminal
    /\ bank \in AnyAccount
    /\ transfer \in Transfers
    /\ proc \in [Procs -> [pc: {"idle", "record", "claim", "lookup", "apply",
                                "post", "succeed", "fail"},
                           account: AnyAccount, snap: Snapshots, found: Transfers]]
    /\ delivery \in {"open", "done"}
    /\ calls \in 0..MaxCalls /\ faults \in 0..MaxFaults /\ changes \in 0..MaxBankChanges

Init ==
    /\ txn = [status |-> "NONE", account |-> NoAccount, lease |-> Nobody,
              leaseLeft |-> 0, graceLeft |-> 0]
    /\ overall = "NONE"
    /\ notice = "NONE"
    /\ bank \in AnyAccount
    /\ transfer = NoTransfer
    /\ proc = [p \in Procs |-> IdleProc]
    /\ delivery = "open"
    /\ calls = 0 /\ faults = 0 /\ changes = 0

-----------------------------------------------------------------------------
(* Where a call goes next, and how it ends. *)

GoTo(p, pc) == proc' = [proc EXCEPT ![p].pc = pc]

Ends(p) == proc' = [proc EXCEPT ![p] = IdleProc]

(* A call that throws leaves the outbox event open. *)
Throws(p) == Ends(p) /\ UNCHANGED delivery

(* A call that returns completes the event, unless that write fails. *)
Returns(p) ==
    /\ Ends(p)
    /\ delivery' \in (IF p \in Workers THEN {delivery, "done"} ELSE {delivery})

Fault == faults < MaxFaults /\ faults' = faults + 1

Holds(p) == txn.status = "PROCESSING" /\ txn.lease = p

LeaseFree    == txn.lease = Nobody
LeaseExpired == txn.lease # Nobody /\ txn.leaseLeft = 0

-----------------------------------------------------------------------------
(* initiatePayout. *)

(* processPayoutForBooking and getVerifiedBankDetails.  The booking is      *)
(* COMPLETED and has an amount; without bank details the call throws.       *)
StartPayout(w) ==
    /\ proc[w].pc = "idle"
    /\ delivery = "open"
    /\ calls < MaxCalls
    /\ calls' = calls + 1
    /\ IF bank = NoAccount
         THEN UNCHANGED proc
         ELSE proc' = [proc EXCEPT ![w].pc = "record", ![w].account = bank]
    /\ UNCHANGED <<txn, overall, notice, bank, transfer, delivery, faults, changes>>

(* createOrUpdatePayoutTransaction: one row per booking; an existing row    *)
(* gets the latest bank details whatever its status.                        *)
Snapshot(t) == [status |-> t.status, account |-> t.account, leased |-> t.lease # Nobody]

Recorded(a) ==
    [txn EXCEPT !.status  = IF @ = "NONE" THEN "PENDING_DISBURSEMENT" ELSE @,
                !.account = a]

createOrUpdatePayoutTransaction(w) ==
    /\ proc[w].pc = "record"
    /\ txn' = Recorded(proc[w].account)
    /\ proc' = [proc EXCEPT ![w].pc = "claim", ![w].snap = Snapshot(txn')]
    /\ UNCHANGED <<overall, notice, bank, transfer, delivery, calls, faults, changes>>

(* claimPayoutProcessing: first the snapshot decides, then the update.      *)
AlreadyHandled(snap) ==
    snap.status = "PAID_OUT" \/ (snap.status = "PROCESSING" /\ ~snap.leased)

ClaimableAnyProcessing ==
    txn.status \in {"PENDING_DISBURSEMENT", "FAILED", "PROCESSING"}

Claimable ==
    \/ txn.status \in {"PENDING_DISBURSEMENT", "FAILED"}
    \/ txn.status = "PROCESSING" /\ LeaseExpired

(* Only a snapshot that was PROCESSING sends the call to the lookup. *)
AfterClaimNeverReconcile(snap) == "post"

AfterClaim(snap) == IF snap.status = "PROCESSING" THEN "lookup" ELSE "post"

claimPayoutProcessing(w) ==
    /\ proc[w].pc = "claim"
    /\ \/ /\ AlreadyHandled(proc[w].snap)
          /\ Returns(w)
          /\ UNCHANGED txn
       \/ /\ ~AlreadyHandled(proc[w].snap)
          /\ Claimable
          /\ txn' = [txn EXCEPT !.status = "PROCESSING", !.lease = w,
                                !.leaseLeft = Lease, !.graceLeft = Grace]
          /\ GoTo(w, AfterClaim(proc[w].snap))
          /\ UNCHANGED delivery
       \/ /\ ~AlreadyHandled(proc[w].snap)
          /\ ~Claimable
          /\ Throws(w)
          /\ UNCHANGED txn
    /\ UNCHANGED <<overall, notice, bank, transfer, calls, faults, changes>>

(* flutterwaveService.initiatePayout answers: accepted, refused (4xx), or   *)
(* a known reference.  A conflict is thrown, any other 4xx is a failure.    *)
Refused(w) == GoTo(w, "fail") /\ UNCHANGED delivery

NewTransfer(w) == [state |-> "NEW", account |-> proc[w].account, late |-> ~Holds(w)]

PostTransfer(w) ==
    /\ proc[w].pc = "post"
    /\ \/ /\ transfer.state = "NONE"
          /\ transfer' = NewTransfer(w)
          /\ GoTo(w, "succeed")
          /\ UNCHANGED delivery
       \/ /\ transfer.state = "NONE"
          /\ Refused(w)
          /\ UNCHANGED transfer
       \/ /\ transfer.state # "NONE"
          /\ IF DuplicateReply = "CONFLICT" THEN Throws(w) ELSE Refused(w)
          /\ UNCHANGED transfer
    /\ UNCHANGED <<txn, overall, notice, bank, calls, faults, changes>>

(* The answer is lost, or the request never arrived: the call throws and    *)
(* leaves its lease to expire.                                              *)
PostLostAsFailed(w) ==
    /\ proc[w].pc = "post"
    /\ transfer' \in {transfer,
                      IF transfer.state = "NONE"
                        THEN NewTransfer(w)
                        ELSE transfer}
    /\ GoTo(w, "fail")
    /\ Fault
    /\ UNCHANGED <<txn, overall, notice, bank, delivery, calls, changes>>

PostLost(w) ==
    /\ proc[w].pc = "post"
    /\ transfer' \in {transfer,
                      IF transfer.state = "NONE"
                        THEN NewTransfer(w)
                        ELSE transfer}
    /\ Throws(w)
    /\ Fault
    /\ UNCHANGED <<txn, overall, notice, bank, calls, changes>>

(* The writes under the lease. *)
Unleased(t) == [t EXCEPT !.lease = Nobody, !.leaseLeft = 0]

finalizePayoutStatus(p, status) ==
    IF Holds(p)
      THEN /\ txn' = [Unleased(txn) EXCEPT !.status = status]
           /\ overall' = status
           /\ notice' = status
      ELSE UNCHANGED <<txn, overall, notice>>

releasePayoutProcessingLease(p) ==
    /\ txn' = IF Holds(p) THEN Unleased(txn) ELSE txn
    /\ UNCHANGED <<overall, notice>>

(* handleSuccessfulPayout with status PROCESSING: accepted by the provider. *)
AcceptedPayout(w) ==
    IF Holds(w)
      THEN /\ txn' = Unleased(txn)
           /\ overall' = "PROCESSING"
           /\ Returns(w)
      ELSE /\ UNCHANGED <<txn, overall>>
           /\ Throws(w)

handleSuccessfulPayout(w) ==
    /\ proc[w].pc = "succeed"
    /\ AcceptedPayout(w)
    /\ UNCHANGED <<notice, bank, transfer, calls, faults, changes>>

handleFailedPayout(w) ==
    /\ proc[w].pc = "fail"
    /\ finalizePayoutStatus(w, "FAILED")
    /\ Throws(w)
    /\ UNCHANGED <<bank, transfer, calls, faults, changes>>

-----------------------------------------------------------------------------
(* Reconciliation, by a worker that took over an expired lease or by a      *)
(* reconciler.                                                              *)

(* reconcileProcessingPayouts selects after the grace period; the webhook   *)
(* comes once the provider settled the transfer, any number of times; an    *)
(* admin may ask for any PROCESSING payout.                                 *)
CronSelectsUnleased == txn.status = "PROCESSING" /\ txn.graceLeft = 0 /\ LeaseFree

CronSelects == txn.status = "PROCESSING" /\ txn.graceLeft = 0 /\ (LeaseFree \/ LeaseExpired)
WebhookComes == transfer.state \in {"SUCCESSFUL", "FAILED"} /\ txn.status \notin Terminal
AdminAsks == txn.status = "PROCESSING"

StartReconcile(r) ==
    /\ proc[r].pc = "idle"
    /\ CronSelects \/ WebhookComes \/ AdminAsks
    /\ proc' = [proc EXCEPT ![r].pc = "claim", ![r].snap = Snapshot(txn)]
    /\ UNCHANGED <<txn, overall, notice, bank, transfer, delivery, calls, faults, changes>>

(* reconcilePayout's claim keeps the reference and the grace period. *)
reconcilePayout(r) ==
    /\ proc[r].pc = "claim"
    /\ IF txn.status = "PROCESSING" /\ (LeaseFree \/ LeaseExpired)
         THEN /\ txn' = [txn EXCEPT !.lease = r, !.leaseLeft = Lease]
              /\ GoTo(r, "lookup")
         ELSE /\ Ends(r)
              /\ UNCHANGED txn
    /\ UNCHANGED <<overall, notice, bank, transfer, delivery, calls, faults, changes>>

(* findTransferByReference: a worker that finds nothing goes on to POST. *)
findTransferByReference(p) ==
    /\ proc[p].pc = "lookup"
    /\ IF p \in Workers /\ transfer.state = "NONE"
         THEN GoTo(p, "post")
         ELSE proc' = [proc EXCEPT ![p].pc = "apply", ![p].found = transfer]
    /\ UNCHANGED <<txn, overall, notice, bank, transfer, delivery, calls, faults, changes>>

(* getPayoutTransferMismatchReason compares with the snapshot's beneficiary. *)
Matches(p) == proc[p].found.account = proc[p].snap.account

(* Any other status of the transfer, or none, leaves the payout PROCESSING. *)
TransferFailed(p) == proc[p].found.state = "FAILED" /\ Matches(p)

TransferSucceeded(p) == proc[p].found.state = "SUCCESSFUL" /\ Matches(p)

reconcileClaimedTransfer(p) ==
    /\ proc[p].pc = "apply"
    /\ \/ /\ ~TransferFailed(p) /\ ~TransferSucceeded(p)
          /\ releasePayoutProcessingLease(p)
          /\ Returns(p)
       \/ /\ TransferFailed(p)
          /\ finalizePayoutStatus(p, "FAILED")
          /\ Returns(p)
       \/ /\ TransferSucceeded(p)
          /\ finalizePayoutStatus(p, "PAID_OUT")
          /\ IF Holds(p) THEN Returns(p) ELSE Throws(p)
    /\ UNCHANGED <<bank, transfer, calls, faults, changes>>

-----------------------------------------------------------------------------
(* Crashes and failed statements end a call where it stands. *)
Crash(p) ==
    /\ proc[p].pc # "idle"
    /\ Throws(p)
    /\ Fault
    /\ UNCHANGED <<txn, overall, notice, bank, transfer, calls, changes>>

ProviderSettles ==
    /\ transfer.state = "NEW"
    /\ transfer' \in {[transfer EXCEPT !.state = s] : s \in {"SUCCESSFUL", "FAILED"}}
    /\ UNCHANGED <<txn, overall, notice, bank, proc, delivery, calls, faults, changes>>

ChangeBankDetails ==
    /\ changes < MaxBankChanges
    /\ changes' = changes + 1
    /\ bank' \in AnyAccount \ {bank}
    /\ UNCHANGED <<txn, overall, notice, transfer, proc, delivery, calls, faults>>

Minus1(n) == IF n = 0 THEN 0 ELSE n - 1

(* A unit of time passes; only slow calls outlast the lease. *)
Tick ==
    /\ txn.leaseLeft > 0 \/ txn.graceLeft > 0
    /\ \A p \in Procs \ Slow : proc[p].pc = "idle"
    /\ txn' = [txn EXCEPT !.leaseLeft = Minus1(@), !.graceLeft = Minus1(@)]
    /\ UNCHANGED <<overall, notice, bank, transfer, proc, delivery, calls, faults, changes>>

Call(p) ==
    \/ p \in Workers /\ \/ createOrUpdatePayoutTransaction(p) \/ claimPayoutProcessing(p)
                        \/ PostTransfer(p) \/ handleSuccessfulPayout(p)
                        \/ handleFailedPayout(p)
    \/ p \in Reconcilers /\ reconcilePayout(p)
    \/ findTransferByReference(p)
    \/ reconcileClaimedTransfer(p)

Next ==
    \/ \E p \in Procs : Call(p) \/ Crash(p)
    \/ \E w \in Workers : StartPayout(w) \/ PostLost(w)
    \/ \E r \in Reconcilers : StartReconcile(r)
    \/ ProviderSettles \/ ChangeBankDetails \/ Tick

Spec == Init /\ [][Next]_vars

(* A started call goes on, the cron keeps selecting, the provider settles a *)
(* transfer it accepted and time passes however often reconcilers run.      *)
(* Webhooks, admins and retries of the outbox event may never come.         *)
Fairness ==
    /\ \A p \in Procs : WF_vars(Call(p))
    /\ \A r \in Reconcilers : WF_vars(CronSelects /\ StartReconcile(r))
    /\ WF_vars(ProviderSettles)
    /\ SF_vars(Tick)

FairSpec == Spec /\ Fairness

-----------------------------------------------------------------------------
(* What payouts promise. *)

(***************************************************************************)
(* PAID_OUT means the provider completed the transfer, although the row is *)
(* written from an answer that may be old by then, by a caller that may    *)
(* have lost its lease, after any number of redriven calls.                *)
(***************************************************************************)
PaidOutIsReal == txn.status = "PAID_OUT" => transfer.state = "SUCCESSFUL"

(***************************************************************************)
(* FAILED, which tells the fleet owner that no money moves and lets a new  *)
(* attempt start, means that the provider has no live or completed         *)
(* transfer under the reference, unless a call that had lost its lease     *)
(* posted it.                                                              *)
(***************************************************************************)
FailedIsReal ==
    txn.status = "FAILED" => transfer.state \in {"NONE", "FAILED"} \/ transfer.late

(***************************************************************************)
(* Once the payout is settled the booking's overall status and the notice  *)
(* to the fleet owner say the same, whatever late writes arrive.           *)
(***************************************************************************)
SettledConsistently ==
    txn.status \in Terminal => overall = txn.status /\ notice = txn.status

(***************************************************************************)
(* A payout that was paid out stays so: no retry, webhook or late failure  *)
(* reopens it.                                                             *)
(***************************************************************************)
PaidOutIsFinal == [][txn.status = "PAID_OUT" => txn'.status = "PAID_OUT"]_vars

(***************************************************************************)
(* "an expired lease is reconciled by that reference before another        *)
(* transfer is initiated": a worker that takes over a PROCESSING payout    *)
(* looks the reference up before it may POST.  For workers that claim      *)
(* promptly: the code decides from the row it read before the claim.       *)
(***************************************************************************)
ExpiredLeaseReconciledFirst ==
    [][\A w \in Workers \ Slow :
          txn.status = "PROCESSING" /\ txn.lease # w /\ txn'.lease = w =>
              proc'[w].pc = "lookup"]_vars

(***************************************************************************)
(* "Concurrent or stale-redriven workers cannot call the provider while    *)
(* that lease is active": whoever is about to POST holds the lease, if its *)
(* call does not outlast it, whatever slower calls do.                     *)
(***************************************************************************)
PostsUnderLease == \A w \in Workers \ Slow : proc[w].pc = "post" => Holds(w)

(***************************************************************************)
(* "a lost completion webhook cannot leave a payout permanently            *)
(* unresolved": a PROCESSING payout whose transfer the provider has        *)
(* accepted is eventually settled.                                         *)
(***************************************************************************)
AcceptedPayoutSettles ==
    (txn.status = "PROCESSING" /\ transfer.state # "NONE") ~> txn.status \in Terminal

(***************************************************************************)
(* The same as long as the row names the account the transfer went to:     *)
(* lost webhooks, lost answers, crashes and slow calls do not keep a       *)
(* payout from being settled, only a change of bank details does.          *)
(***************************************************************************)
StablePayoutSettles ==
    (txn.status = "PROCESSING" /\ transfer.state # "NONE")
    ~> (txn.status \in Terminal \/ txn.account # transfer.account)

(***************************************************************************)
(* What the three records say of a payout is what the provider did:        *)
(* PAID_OUT for a transfer it completed, FAILED for none that is live, and *)
(* the row, the booking and the owner's notice tell the same, whatever     *)
(* answers are lost or late (reconcileClaimedTransfer,                     *)
(* finalizePayoutStatus, handleFailedPayout).                              *)
(***************************************************************************)
PayoutBooks == TypeOK /\ PaidOutIsReal /\ FailedIsReal /\ SettledConsistently

(***************************************************************************)
(* What no step may do to a payout: reopen one that was paid out, or take  *)
(* over an expired lease and post again without looking the reference up   *)
(* first (claimPayoutProcessing, initiatePayout).                          *)
(***************************************************************************)
PayoutSteps == PaidOutIsFinal /\ ExpiredLeaseReconciledFirst

=============================================================================
