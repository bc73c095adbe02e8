------------------------- MODULE DomainOutboxProofs -------------------------
(***************************************************************************)
(* Theorems about the domain outbox, for any number of rows, dispatchers   *)
(* and workers and any delays that meet the module's assumptions, and      *)
(* about the notices its handlers write.                                   *)
(***************************************************************************)
EXTENDS DomainOutbox, NotificationRouting, TLAPS

(* The assumptions on the constants, one fact per constant. *)
LEMMA Constants ==
    /\ NoEvent \notin Events /\ NoWorker \notin Workers
    /\ MaxAttempts \in Nat /\ JobAttempts \in Nat /\ MaxClaims \in Nat
    /\ ProcessingStale \in Nat /\ ProcessingStale > 0
    /\ MaxPass \in Nat /\ DispatchStale \in Nat /\ MaxPass < DispatchStale
    /\ \A a \in Attempts : Backoff[a] \in Nat /\ Backoff[a] > 0
  BY EventsAssumption, BoundsAssumption, DelaysAssumption
  DEF EventsAssumption, BoundsAssumption, DelaysAssumption, Attempts

USE Constants

-----------------------------------------------------------------------------
(* The row updates keep the type of a row. *)

(* Each of the four writes to a row keeps it a row.                         *)
LEMMA RowUpdates ==
    ASSUME NEW r \in Rows, NEW t \in Nat, now \in Nat, NEW a \in Attempts,
           NEW terminal
    PROVE  /\ Claimed(r) \in Rows
           /\ CompletedRow(r) \in Rows
           /\ FailedRow(r, a, terminal) \in Rows
           /\ DispatchedRow(r, t) \in Rows
  <1> USE DEF Rows, Statuses, Retryable, InFlight, Settled
  <1>1. Claimed(r) \in Rows
    <2>1. r.attempts + 1 \in Nat
      OBVIOUS
    <2> QED BY <2>1 DEF Claimed
  <1>2. CompletedRow(r) \in Rows
    BY DEF CompletedRow
  <1>3. FailedRow(r, a, terminal) \in Rows
    <2>1. FailedStatus(a, terminal) \in Statuses
      BY DEF FailedStatus
    <2>2. now + Backoff[a] \in Nat
      OBVIOUS
    <2> QED BY <2>1, <2>2 DEF FailedRow
  <1>4. DispatchedRow(r, t) \in Rows
    <2>1. t + DispatchStale \in Nat
      OBVIOUS
    <2> QED BY <2>1 DEF DispatchedRow
  <1> QED BY <1>1, <1>2, <1>3, <1>4

(* The initial state has its types.                                         *)
LEMMA InitType == Init => TypeOK
  BY DEF Init, TypeOK, Rows, Statuses, Passes, IdlePass, Jobs, NoJob, Works,
         IdleWork

-----------------------------------------------------------------------------
(* Steps of a row, of a dispatcher and of the queue, as the invariants see  *)
(* them: every action of the specification is a combination of these.       *)

RowStep(r, r2) ==
    \/ r2 = r
    \/ /\ r.status = "ABSENT" /\ r2.status = "PENDING" /\ r2.attempts = 0
    \/ /\ r.status \in Retryable \cup InFlight /\ r2.status = "PROCESSING"
       /\ r2.attempts = r.attempts + 1 /\ r2.updatedAt = now
    \/ /\ r.status \in InFlight /\ r2.attempts = r.attempts /\ r2.updatedAt = now
       /\ \/ r2.status \in Settled
          \/ r2.status \in {"FAILED", "DISPATCHED"} /\ r2.nextAttemptAt > now

RowSteps == \A e \in Events : RowStep(row[e], row'[e])

(* A pass is never older than MaxPass.                                      *)
PassInv ==
    \A d \in Dispatchers : pass[d].pc # "idle" =>
        pass[d].startedAt <= now /\ now <= pass[d].startedAt + MaxPass

(* A pass ends, goes on with fewer snapshots, or starts with fresh ones. *)
PassStep(p, p2) ==
    \/ p2.pc = "idle"
    \/ /\ p.pc # "idle" /\ p2.pc # "idle" /\ p2.startedAt = p.startedAt
       /\ p2.todo \subseteq p.todo
    \/ /\ p.pc = "idle" /\ p2.pc = "scan" /\ p2.startedAt = now
       /\ \A s \in p2.todo : /\ s.attempts = row[s.event].attempts
                             /\ row[s.event].status # "ABSENT"

PassSteps == \A d \in Dispatchers : PassStep(pass[d], pass'[d])

(* The conjuncts of TypeOK that are about the dispatchers. *)
PassesOK ==
    /\ pass \in [Dispatchers -> Passes]
    /\ \A d \in Dispatchers : HoldsClaim(d) => Holding(d) \in JobIds

(* A job the queue does not know has no owner.                              *)
OwnedExists == \A j \in JobIds : job[j].state = "none" => job[j].owner = NoWorker

JobsKept ==
    /\ \A j \in JobIds : job'[j].state = "none" <=> job[j].state = "none"
    /\ OwnedExists'

(* markCompleted, markFailed and the update to DISPATCHED. *)
LEMMA MarkCompletedRow ==
    ASSUME TypeOK, NEW e \in Events, NEW a, markCompleted(e, a)
    PROVE  row' \in [Events -> Rows] /\ RowSteps
  <1>1. row[e] \in Rows /\ CompletedRow(row[e]) \in Rows
    BY DEF TypeOK, CompletedRow, Rows, Statuses, Settled
  <1>2. RowStep(row[e], CompletedRow(row[e])) \/ ~AtAttempt(row[e], a)
    BY <1>1 DEF RowStep, CompletedRow, AtAttempt, Settled, Rows
  <1>3. \A x \in Events : RowStep(row[x], row[x])
    BY DEF RowStep
  <1> QED BY <1>1, <1>2, <1>3 DEF markCompleted, TypeOK, RowSteps

(* markFailed moves the row as RowStep allows.                              *)
LEMMA MarkFailedRow ==
    ASSUME TypeOK, NEW e \in Events, NEW a \in Attempts, NEW terminal,
           markFailed(e, a, terminal)
    PROVE  row' \in [Events -> Rows] /\ RowSteps
  <1>1. row[e] \in Rows /\ FailedRow(row[e], a, terminal) \in Rows
    BY RowUpdates DEF TypeOK
  <1>2. FailedStatus(a, terminal) \in Settled \cup {"FAILED"}
    BY DEF FailedStatus, Settled
  <1>3. now \in Nat /\ now + Backoff[a] > now
    BY DEF TypeOK
  <1>4. RowStep(row[e], FailedRow(row[e], a, terminal)) \/ ~AtAttempt(row[e], a)
    BY <1>1, <1>2, <1>3 DEF RowStep, FailedRow, AtAttempt, Rows
  <1>5. \A x \in Events : RowStep(row[x], row[x])
    BY DEF RowStep
  <1> QED BY <1>1, <1>4, <1>5 DEF markFailed, TypeOK, RowSteps

(* The update after queue.add moves the row as RowStep allows.              *)
LEMMA MarkDispatchedRow ==
    ASSUME TypeOK, PassInv, NEW d \in Dispatchers, pass[d].pc # "idle",
           NEW e \in Events, markDispatched(e, pass[d].startedAt)
    PROVE  row' \in [Events -> Rows] /\ RowSteps
  <1>1. pass[d].startedAt \in Nat /\ now \in Nat /\ row[e] \in Rows
    BY DEF TypeOK, Passes
  <1>2. DispatchedRow(row[e], pass[d].startedAt) \in Rows
    <2>1. pass[d].startedAt + DispatchStale \in Nat
      BY <1>1
    <2> QED BY <1>1, <2>1 DEF DispatchedRow, Rows, Statuses, InFlight
  <1>3. pass[d].startedAt + DispatchStale > now
    BY <1>1 DEF PassInv
  <1>4. RowStep(row[e], DispatchedRow(row[e], pass[d].startedAt)) \/ row[e].status # "PROCESSING"
    BY <1>1, <1>3 DEF RowStep, DispatchedRow, InFlight, Rows
  <1>5. \A x \in Events : RowStep(row[x], row[x])
    BY DEF RowStep
  <1> QED BY <1>1, <1>2, <1>4, <1>5 DEF markDispatched, TypeOK, RowSteps

(* A claim: the where clause only matches a row that is not yet settled. *)
LEMMA ClaimedRow ==
    ASSUME TypeOK, NEW e \in Events, NEW st, NEW t,
           ClaimWhere(st, row[e], t), row' = [row EXCEPT ![e] = Claimed(@)]
    PROVE  row' \in [Events -> Rows] /\ RowSteps
  <1>1. row[e] \in Rows /\ Claimed(row[e]) \in Rows
    <2>1. row[e] \in Rows /\ row[e].attempts + 1 \in Nat /\ now \in Nat
      BY DEF TypeOK, Rows
    <2> QED BY <2>1 DEF Claimed, Rows, Statuses, InFlight
  <1>2. RowStep(row[e], Claimed(row[e]))
    BY <1>1 DEF RowStep, Claimed, ClaimWhere, Retryable, InFlight, Rows
  <1>3. \A x \in Events : RowStep(row[x], row[x])
    BY DEF RowStep
  <1> QED BY <1>1, <1>2, <1>3 DEF TypeOK, RowSteps

(* A step that leaves the rows alone is a row step.                         *)
LEMMA SameRows ==
    ASSUME TypeOK, row' = row
    PROVE  row' \in [Events -> Rows] /\ RowSteps
  BY DEF TypeOK, RowSteps, RowStep

(* The queue under a worker's return, throw and lock. *)
LEMMA DoingType ==
    ASSUME TypeOK, NEW w \in Workers, work[w].pc # "idle"
    PROVE  /\ Doing(w) \in JobIds
           /\ work[w].event \in Events /\ work[w].attempt \in Attempts
           /\ job[Doing(w)] \in Jobs
  BY DEF TypeOK, Doing, JobIds

(* Rewriting a job the queue knows keeps the queue.                         *)
LEMMA JobUpdate ==
    ASSUME TypeOK, OwnedExists, NEW j \in JobIds, NEW k \in Jobs,
           job' = [job EXCEPT ![j] = k],
           k.state = "none" <=> job[j].state = "none",
           k.state = "none" => k.owner = NoWorker
    PROVE  job' \in [JobIds -> Jobs] /\ JobsKept
  BY DEF TypeOK, OwnedExists, JobsKept

(* So does leaving the queue alone.                                         *)
LEMMA SameJobs ==
    ASSUME TypeOK, OwnedExists, job' = job
    PROVE  job' \in [JobIds -> Jobs] /\ JobsKept
  BY DEF TypeOK, OwnedExists, JobsKept

(* A finished job is one the queue has seen.                                *)
LEMMA FinishedJobType == FinishedJob \in Jobs /\ FinishedJob.state # "none"
  BY DEF FinishedJob, Jobs

(* A job handed back to the queue. *)
LEMMA WaitingJobType ==
    ASSUME NEW k \in Jobs, k.state # "none"
    PROVE  /\ Retried(k) \in Jobs /\ Retried(k).state = "waiting"
           /\ Unstalled(k) \in Jobs /\ Unstalled(k).state = "waiting"
  <1>1. k.made + 1 \in Nat /\ k.stalls + 1 \in Nat
    BY DEF Jobs
  <1> QED BY <1>1 DEF Jobs, Retried, Unstalled

(* A worker that returns keeps every known job known.                       *)
LEMMA JobReturnsStep ==
    ASSUME TypeOK, OwnedExists, NEW w \in Workers, work[w].pc # "idle", JobReturns(w)
    PROVE  job' \in [JobIds -> Jobs] /\ JobsKept
  <1>1. CASE job[Doing(w)].owner = w
    <2>1. job[Doing(w)].state # "none"
      BY <1>1, DoingType DEF OwnedExists
    <2> QED BY <1>1, <2>1, DoingType, FinishedJobType, JobUpdate DEF JobReturns
  <1>2. CASE job[Doing(w)].owner # w
    BY <1>2, SameJobs DEF JobReturns
  <1> QED BY <1>1, <1>2

(* So does one that throws, whether BullMQ retries or not.                  *)
LEMMA JobThrowsStep ==
    ASSUME TypeOK, OwnedExists, NEW w \in Workers, work[w].pc # "idle", JobThrows(w)
    PROVE  job' \in [JobIds -> Jobs] /\ JobsKept
  <1>1. CASE job[Doing(w)].owner = w
    <2>1. job[Doing(w)].state # "none"
      BY <1>1, DoingType DEF OwnedExists
    <2> DEFINE k == IF isFinalAttempt(Doing(w)) THEN FinishedJob
                                                ELSE Retried(job[Doing(w)])
    <2>2. job' = [job EXCEPT ![Doing(w)] = k]
      BY <1>1 DEF JobThrows
    <2>3. k \in Jobs /\ k.state # "none"
      BY <2>1, DoingType, WaitingJobType, FinishedJobType
    <2> HIDE DEF k
    <2> QED BY <2>1, <2>2, <2>3, DoingType, JobUpdate
  <1>2. CASE job[Doing(w)].owner # w
    BY <1>2, SameJobs DEF JobThrows
  <1> QED BY <1>1, <1>2

(* A dispatcher's own record under each kind of move. *)
LEMMA PassUpdate ==
    ASSUME TypeOK, NEW d \in Dispatchers, NEW p \in Passes,
           pass' = [pass EXCEPT ![d] = p],
           p.pc \in {"add", "mark", "fail"} => <<p.event, p.attempt>> \in JobIds,
           PassStep(pass[d], p)
    PROVE  PassesOK' /\ PassSteps
  <1>1. \A x \in Dispatchers : PassStep(pass[x], pass[x])
    BY DEF PassStep
  <1>2. PassSteps
    BY <1>1 DEF PassSteps, TypeOK
  <1>3. pass' \in [Dispatchers -> Passes]
    BY DEF TypeOK
  <1>4. \A x \in Dispatchers : HoldsClaim(x)' => Holding(x)' \in JobIds
    BY DEF TypeOK, HoldsClaim, Holding
  <1> QED BY <1>2, <1>3, <1>4 DEF PassesOK

(* A step that leaves the dispatchers alone is a pass step.                 *)
LEMMA SamePasses ==
    ASSUME TypeOK, pass' = pass
    PROVE  PassesOK' /\ PassSteps
  BY DEF TypeOK, PassesOK, HoldsClaim, Holding, PassSteps, PassStep

(* Taking the next snapshot of the loop is a pass step.                     *)
LEMMA AdvanceStep ==
    ASSUME TypeOK, NEW d \in Dispatchers, pass[d].pc = "scan",
           NEW s \in pass[d].todo,
           NEW pc \in {"scan", "add"}, NEW a \in 0..MaxClaims,
           pc = "add" <=> a # 0, Advance(d, pc, s, a)
    PROVE  PassesOK' /\ PassSteps
  <1>1. pass[d] \in Passes /\ s \in Snapshots /\ s.event \in Events
    BY DEF TypeOK, Passes, Snapshots
  <1> DEFINE p == [pc |-> pc, startedAt |-> pass[d].startedAt, todo |-> pass[d].todo \ {s},
                   event |-> IF a = 0 THEN NoEvent ELSE s.event, attempt |-> a]
  <1>2. p \in Passes
    BY <1>1 DEF Passes
  <1>3. pass' = [pass EXCEPT ![d] = p]
    BY DEF Advance
  <1>4. p.pc \in {"add", "mark", "fail"} => <<p.event, p.attempt>> \in JobIds
    BY <1>1, <1>2 DEF Passes, JobIds, Attempts
  <1>5. PassStep(pass[d], p)
    BY DEF PassStep
  <1> HIDE DEF p
  <1> QED BY <1>2, <1>3, <1>4, <1>5, PassUpdate

(* Going on with the claim in hand is a pass step.                          *)
LEMMA GoToStep ==
    ASSUME TypeOK, NEW d \in Dispatchers, HoldsClaim(d),
           NEW pc \in {"mark", "fail"}, GoTo(d, pc)
    PROVE  PassesOK' /\ PassSteps
  <1> DEFINE p == [pass[d] EXCEPT !.pc = pc]
  <1>1. pass[d] \in Passes /\ p \in Passes
    BY DEF TypeOK, Passes
  <1>2. pass' = [pass EXCEPT ![d] = p]
    BY DEF GoTo
  <1>3. <<p.event, p.attempt>> \in JobIds /\ PassStep(pass[d], p)
    BY <1>1 DEF TypeOK, HoldsClaim, PassStep, Passes
  <1> HIDE DEF p
  <1> QED BY <1>1, <1>2, <1>3, PassUpdate

(* Being done with the claim in hand is a pass step.                        *)
LEMMA NextEventStep ==
    ASSUME TypeOK, NEW d \in Dispatchers, HoldsClaim(d), NextEvent(d)
    PROVE  PassesOK' /\ PassSteps
  <1> DEFINE p == [pass[d] EXCEPT !.pc = "scan", !.event = NoEvent, !.attempt = 0]
  <1>0. 0 \in 0..MaxClaims
    OBVIOUS
  <1>1. pass[d] \in Passes /\ p \in Passes
    BY <1>0 DEF TypeOK, Passes
  <1>2. pass' = [pass EXCEPT ![d] = p]
    BY DEF NextEvent
  <1>3. p.pc = "scan" /\ PassStep(pass[d], p)
    BY <1>1 DEF HoldsClaim, PassStep, Passes
  <1> HIDE DEF p
  <1> QED BY <1>1, <1>2, <1>3, PassUpdate

(* Ending a pass, by its end or by a crash, is a pass step.                 *)
LEMMA EndPassStep ==
    ASSUME TypeOK, NEW d \in Dispatchers, pass' = [pass EXCEPT ![d] = IdlePass]
    PROVE  PassesOK' /\ PassSteps
  <1>1. IdlePass \in Passes /\ IdlePass.pc = "idle"
    BY DEF IdlePass, Passes
  <1>2. PassStep(pass[d], IdlePass)
    BY <1>1 DEF PassStep
  <1> QED BY <1>1, <1>2, PassUpdate

(* findMany starts a pass with well typed snapshots.                        *)
LEMMA StartPassStep ==
    ASSUME TypeOK, NEW d \in Dispatchers, StartPass(d)
    PROVE  PassesOK' /\ PassSteps
  <1>1. PICK b \in SUBSET Candidates : pass' = [pass EXCEPT ![d] =
              [pc |-> "scan", startedAt |-> now, todo |-> {Snapshot(e) : e \in b},
               event |-> NoEvent, attempt |-> 0]]
    BY DEF StartPass
  <1> DEFINE p == [pc |-> "scan", startedAt |-> now, todo |-> {Snapshot(e) : e \in b},
                   event |-> NoEvent, attempt |-> 0]
  <1>2. \A e \in b : /\ e \in Events /\ Snapshot(e) \in Snapshots
                     /\ Snapshot(e).event = e
                     /\ Snapshot(e).attempts = row[e].attempts
                     /\ row[e].status # "ABSENT"
    <2> TAKE e \in b
    <2>1. e \in Events /\ ClaimWhere(row[e].status, row[e], now)
      BY DEF Candidates
    <2>2. row[e] \in Rows
      BY <2>1 DEF TypeOK
    <2>3. row[e].status \in Retryable \cup InFlight /\ row[e].status # "ABSENT"
      BY <2>1 DEF ClaimWhere, Retryable, InFlight
    <2> QED BY <2>1, <2>2, <2>3 DEF Snapshot, Snapshots, Rows
  <1>3. p.todo \subseteq Snapshots
    BY <1>2
  <1>4. p \in Passes
    BY <1>3 DEF TypeOK, Passes
  <1>5. PassStep(pass[d], p)
    <2>1. \A s \in p.todo : s.attempts = row[s.event].attempts /\ row[s.event].status # "ABSENT"
      BY <1>2
    <2> QED BY <2>1 DEF PassStep, StartPass
  <1>6. p.pc = "scan" /\ pass' = [pass EXCEPT ![d] = p]
    BY <1>1
  <1> HIDE DEF p
  <1> QED BY <1>4, <1>5, <1>6, PassUpdate

-----------------------------------------------------------------------------
(* Every action, in terms of the steps above. *)

(* queue.add of the claim a dispatcher holds. *)
LEMMA EnqueuedStep ==
    ASSUME TypeOK, OwnedExists, NEW d \in Dispatchers, HoldsClaim(d),
           job' = Enqueued(Holding(d))
    PROVE  /\ job' \in [JobIds -> Jobs] /\ OwnedExists'
           /\ \A j \in JobIds : job[j].state # "none" => job'[j].state # "none"
           /\ \A j \in JobIds : job'[j].state # "none" =>
                  job[j].state # "none" \/ j = Holding(d)
  <1>1. Holding(d) \in JobIds
    BY DEF TypeOK, HoldsClaim, Holding
  <1> DEFINE k == [NoJob EXCEPT !.state = "waiting"]
  <1>2. k \in Jobs /\ k.state = "waiting"
    BY DEF NoJob, Jobs
  <1>3. job' = IF job[Holding(d)].state = "none" THEN [job EXCEPT ![Holding(d)] = k] ELSE job
    BY DEF Enqueued
  <1> HIDE DEF k
  <1> QED BY <1>1, <1>2, <1>3 DEF TypeOK, OwnedExists

(* Jobs only appear when a dispatcher in "add" enqueues the one it holds. *)
JobSteps ==
    /\ OwnedExists'
    /\ \A j \in JobIds : job[j].state # "none" => job'[j].state # "none"
    /\ \A j \in JobIds : job'[j].state # "none" =>
          \/ job[j].state # "none"
          \/ \E d \in Dispatchers : pass[d].pc = "add" /\ pass'[d].pc # "add" /\ Holding(d) = j

(* Keeping the queue is a step of the queue.                                *)
LEMMA KeptIsStep == JobsKept => JobSteps
  BY DEF JobsKept, JobSteps

(* The conjuncts of TypeOK that are about the workers. *)
WorksOK ==
    /\ work \in [Workers -> Works]
    /\ \A w \in Workers : work[w].pc # "idle" => Doing(w) \in JobIds

(* TypeOK put together from what the steps show.                            *)
LEMMA TypeParts ==
    ASSUME now' \in Nat, row' \in [Events -> Rows], PassesOK', WorksOK',
           job' \in [JobIds -> Jobs], applied' \subseteq Events, faults' \in Nat
    PROVE  TypeOK'
  BY DEF TypeOK, PassesOK, WorksOK, HoldsClaim, Holding, Doing

(* A step that leaves the workers alone keeps their types.                  *)
LEMMA SameWorks ==
    ASSUME TypeOK, work' = work
    PROVE  WorksOK'
  BY DEF TypeOK, WorksOK, Doing

(* What any step or fault of a dispatcher does to rows, passes and jobs.    *)
LEMMA DispatcherEffect ==
    ASSUME TypeOK, PassInv, OwnedExists, NEW d \in Dispatchers,
           DispatcherStep(d) \/ DispatcherFault(d)
    PROVE  TypeOK' /\ RowSteps /\ PassSteps /\ JobSteps
  <1>0. UNCHANGED <<now, work, applied>> /\ (faults' = faults \/ faults' = faults + 1)
    BY DEF DispatcherStep, DispatcherFault, StartPass, ClaimEvent, SkipEvent,
       dispatchEvent, MarkDispatched, MarkDispatchFailed, EndPass, ClaimError,
       DispatchError, MarkDispatchedError, MarkDispatchFailedError, CrashDispatcher, Fault
  <1>1. WorksOK' /\ now' \in Nat /\ applied' \subseteq Events
    BY <1>0, SameWorks DEF TypeOK
  <1>2. faults' \in Nat
    BY <1>0 DEF TypeOK
  <1>3. SUFFICES /\ row' \in [Events -> Rows] /\ RowSteps
                 /\ PassesOK' /\ PassSteps
                 /\ job' \in [JobIds -> Jobs] /\ JobSteps
    BY <1>1, <1>2, TypeParts
  <1>4. CASE StartPass(d)
    BY <1>4, StartPassStep, SameRows, SameJobs, KeptIsStep DEF StartPass
  <1>5. CASE ClaimEvent(d)
    <2>1. PICK s \in pass[d].todo :
              /\ pass[d].pc = "scan" /\ ClaimWhere(s.status, row[s.event], pass[d].startedAt)
              /\ s.attempts < MaxClaims
              /\ row' = [row EXCEPT ![s.event] = Claimed(@)]
              /\ Advance(d, "add", s, s.attempts + 1)
      BY <1>5 DEF ClaimEvent, NextInPass
    <2>2. s \in Snapshots /\ s.event \in Events /\ s.attempts \in Nat
      BY DEF TypeOK, Passes, Snapshots
    <2>3. s.attempts + 1 \in 0..MaxClaims /\ s.attempts + 1 # 0
      BY <2>1, <2>2
    <2> QED BY <1>5, <2>1, <2>2, <2>3, ClaimedRow, AdvanceStep, SameJobs, KeptIsStep
            DEF ClaimEvent
  <1>6. CASE SkipEvent(d)
    <2>1. PICK s \in pass[d].todo : pass[d].pc = "scan" /\ Advance(d, "scan", s, 0)
      BY <1>6 DEF SkipEvent, NextInPass
    <2>2. 0 \in 0..MaxClaims
      OBVIOUS
    <2> QED BY <1>6, <2>1, <2>2, SameRows, AdvanceStep, SameJobs, KeptIsStep DEF SkipEvent
  <1>7. CASE ClaimError(d)
    <2>1. PICK s \in pass[d].todo :
              /\ pass[d].pc = "scan" /\ Advance(d, "scan", s, 0)
              /\ \/ UNCHANGED row
                 \/ /\ ClaimWhere(s.status, row[s.event], pass[d].startedAt)
                    /\ row' = [row EXCEPT ![s.event] = Claimed(@)]
      BY <1>7 DEF ClaimError, NextInPass
    <2>2. s \in Snapshots /\ s.event \in Events
      BY DEF TypeOK, Passes, Snapshots
    <2>3. 0 \in 0..MaxClaims
      OBVIOUS
    <2> QED BY <1>7, <2>1, <2>2, <2>3, SameRows, ClaimedRow, AdvanceStep, SameJobs, KeptIsStep
            DEF ClaimError
  <1>8. ASSUME pass[d].pc = "add", job' = Enqueued(Holding(d)) \/ job' = job,
               NEW pc \in {"mark", "fail"}, GoTo(d, pc), row' = row
        PROVE  /\ row' \in [Events -> Rows] /\ RowSteps
               /\ PassesOK' /\ PassSteps
               /\ job' \in [JobIds -> Jobs] /\ JobSteps
    <2>1. HoldsClaim(d)
      BY <1>8 DEF HoldsClaim
    <2>2. pass[d] \in Passes /\ pass'[d].pc # "add"
      BY <1>8 DEF TypeOK, Passes, GoTo
    <2>3. job' \in [JobIds -> Jobs] /\ JobSteps
      <3>1. CASE job' = job
        BY <3>1, SameJobs, KeptIsStep
      <3>2. CASE job' = Enqueued(Holding(d))
        BY <1>8, <2>1, <2>2, <3>2, EnqueuedStep DEF JobSteps
      <3> QED BY <1>8, <3>1, <3>2
    <2> QED BY <1>8, <2>1, <2>3, SameRows, GoToStep
  <1>9. CASE dispatchEvent(d)
    BY <1>8, <1>9 DEF dispatchEvent
  <1>10. CASE DispatchError(d)
    BY <1>8, <1>10 DEF DispatchError
  <1>11. ASSUME HoldsClaim(d)
         PROVE  /\ pass[d].pc # "idle" /\ pass[d].event \in Events
                /\ pass[d].attempt \in Attempts
    BY <1>11 DEF TypeOK, HoldsClaim, JobIds
  <1>12. CASE MarkDispatched(d)
    <2>1. HoldsClaim(d)
      BY <1>12 DEF MarkDispatched, HoldsClaim
    <2> QED BY <1>11, <1>12, <2>1, MarkDispatchedRow, NextEventStep, SameJobs, KeptIsStep
            DEF MarkDispatched
  <1>13. CASE MarkDispatchedError(d)
    <2>1. HoldsClaim(d)
      BY <1>13 DEF MarkDispatchedError, HoldsClaim
    <2> QED BY <1>11, <1>13, <2>1, MarkDispatchedRow, SameRows, GoToStep, SameJobs, KeptIsStep
            DEF MarkDispatchedError
  <1>14. CASE MarkDispatchFailed(d)
    <2>1. HoldsClaim(d)
      BY <1>14 DEF MarkDispatchFailed, HoldsClaim
    <2> QED BY <1>11, <1>14, <2>1, MarkFailedRow, NextEventStep, SameJobs, KeptIsStep
            DEF MarkDispatchFailed
  <1>15. CASE MarkDispatchFailedError(d)
    <2>1. HoldsClaim(d)
      BY <1>15 DEF MarkDispatchFailedError, HoldsClaim
    <2> QED BY <1>11, <1>15, <2>1, MarkFailedRow, SameRows, NextEventStep, SameJobs, KeptIsStep
            DEF MarkDispatchFailedError
  <1>16. CASE EndPass(d)
    BY <1>16, EndPassStep, SameRows, SameJobs, KeptIsStep DEF EndPass
  <1>17. CASE CrashDispatcher(d)
    BY <1>17, EndPassStep, SameRows, SameJobs, KeptIsStep DEF CrashDispatcher
  <1> QED BY <1>4, <1>5, <1>6, <1>7, <1>9, <1>10, <1>12, <1>13, <1>14, <1>15, <1>16, <1>17
          DEF DispatcherStep, DispatcherFault

(* Rewriting one worker keeps the types of all.                             *)
LEMMA WorkUpdate ==
    ASSUME TypeOK, NEW w \in Workers, NEW k \in Works,
           work' = [work EXCEPT ![w] = k],
           k.pc # "idle" => <<k.event, k.attempt>> \in JobIds
    PROVE  WorksOK'
  <1>1. work' \in [Workers -> Works]
    BY DEF TypeOK
  <1>2. \A x \in Workers : work'[x].pc # "idle" => <<work'[x].event, work'[x].attempt>> \in JobIds
    BY DEF TypeOK
  <1> QED BY <1>1, <1>2 DEF WorksOK, Doing

(* So does a worker that becomes idle.                                      *)
LEMMA IdleWorkStep ==
    ASSUME TypeOK, NEW w \in Workers, work' = [work EXCEPT ![w] = IdleWork]
    PROVE  WorksOK'
  <1>1. IdleWork \in Works /\ IdleWork.pc = "idle"
    BY DEF IdleWork, Works
  <1> QED BY <1>1, WorkUpdate

(* So does one that goes on with its job.                                   *)
LEMMA AtStep ==
    ASSUME TypeOK, NEW w \in Workers, work[w].pc # "idle",
           NEW pc \in {"run", "complete", "failed", "fatal"}, At(w, pc)
    PROVE  WorksOK'
  <1> DEFINE k == [work[w] EXCEPT !.pc = pc]
  <1>1. work[w] \in Works /\ k \in Works
    BY DEF TypeOK, Works
  <1>2. work' = [work EXCEPT ![w] = k]
    BY DEF At
  <1>3. <<k.event, k.attempt>> \in JobIds
    BY <1>1 DEF TypeOK, Works
  <1> HIDE DEF k
  <1> QED BY <1>1, <1>2, <1>3, WorkUpdate

(* The row a worker marks, whatever it marks it. *)
MarksRow(w) ==
    \/ row' = row
    \/ markCompleted(work[w].event, work[w].attempt)
    \/ \E terminal \in BOOLEAN : markFailed(work[w].event, work[w].attempt, terminal)

(* A worker's write moves the row as RowStep allows.                        *)
LEMMA MarksRowStep ==
    ASSUME TypeOK, NEW w \in Workers, work[w].pc # "idle", MarksRow(w)
    PROVE  row' \in [Events -> Rows] /\ RowSteps
  BY DoingType, SameRows, MarkCompletedRow, MarkFailedRow DEF MarksRow

(* What any step or fault of a worker does to rows, passes and jobs.        *)
LEMMA WorkerEffect ==
    ASSUME TypeOK, OwnedExists, NEW w \in Workers,
           WorkerStep(w) \/ WorkerFault(w)
    PROVE  TypeOK' /\ RowSteps /\ PassSteps /\ JobSteps
  <1>0. UNCHANGED <<now, pass>> /\ (faults' = faults \/ faults' = faults + 1)
    BY DEF WorkerStep, WorkerFault, TakeJob, resolveExecutableEvent, OperationSucceeds,
       OperationThrows, OperationRefuses, MarkCompleted, MarkFailed, MarkFatal,
       ResolveError, MarkCompletedError, MarkFailedError, MarkFatalError, CrashWorker,
       LoseLock, Fault
  <1>1. PassesOK' /\ PassSteps /\ now' \in Nat /\ faults' \in Nat
    BY <1>0, SamePasses DEF TypeOK
  <1>2. applied' = applied \/ OperationSucceeds(w)
    BY DEF WorkerStep, WorkerFault, TakeJob, resolveExecutableEvent, OperationThrows, OperationRefuses, MarkCompleted, MarkFailed, MarkFatal,
       ResolveError, MarkCompletedError, MarkFailedError, MarkFatalError, CrashWorker,
       LoseLock
  <1>3. applied' \subseteq Events
    BY <1>2, DoingType DEF TypeOK, OperationSucceeds
  <1>4. SUFFICES /\ row' \in [Events -> Rows] /\ RowSteps /\ WorksOK'
                 /\ job' \in [JobIds -> Jobs] /\ JobSteps
    BY <1>1, <1>3, TypeParts
  <1>5. CASE TakeJob(w)
    <2>1. PICK j \in JobIds :
              /\ job[j].state = "waiting"
              /\ job' = [job EXCEPT ![j].state = "active", ![j].owner = w]
              /\ work' = [work EXCEPT ![w] = [pc |-> "resolve", event |-> j[1],
                                    attempt |-> j[2], final |-> isFinalAttempt(j)]]
      BY <1>5 DEF TakeJob
    <2> DEFINE k == [job[j] EXCEPT !.state = "active", !.owner = w]
               v == [pc |-> "resolve", event |-> j[1], attempt |-> j[2],
                     final |-> isFinalAttempt(j)]
    <2>2. job[j] \in Jobs /\ k \in Jobs /\ k.state = "active"
      BY DEF TypeOK, Jobs
    <2>3. job' = [job EXCEPT ![j] = k]
      BY <2>1
    <2>4. j = <<j[1], j[2]>> /\ j[1] \in Events /\ j[2] \in Attempts
      BY DEF JobIds
    <2>5. isFinalAttempt(j) \in BOOLEAN
      BY <2>2 DEF isFinalAttempt, Jobs
    <2>6. v \in Works /\ <<v.event, v.attempt>> \in JobIds
      BY <2>4, <2>5 DEF Works, Attempts
    <2>7. work' = [work EXCEPT ![w] = v]
      BY <2>1
    <2> HIDE DEF k, v
    <2>8. WorksOK'
      BY <2>6, <2>7, WorkUpdate
    <2>9. job' \in [JobIds -> Jobs] /\ JobSteps
      BY <2>1, <2>2, <2>3, JobUpdate, KeptIsStep
    <2> QED BY <1>5, <2>8, <2>9, SameRows DEF TakeJob
  <1>6. ASSUME work[w].pc # "idle", MarksRow(w), JobReturns(w) \/ JobThrows(w)
        PROVE  /\ row' \in [Events -> Rows] /\ RowSteps /\ WorksOK'
               /\ job' \in [JobIds -> Jobs] /\ JobSteps
    <2>1. work' = [work EXCEPT ![w] = IdleWork]
      BY <1>6 DEF JobReturns, JobThrows
    <2> QED BY <1>6, <2>1, MarksRowStep, IdleWorkStep, JobReturnsStep, JobThrowsStep,
               KeptIsStep
  <1>7. ASSUME work[w].pc # "idle", row' = row, job' = job,
               NEW pc \in {"run", "complete", "failed", "fatal"}, At(w, pc)
        PROVE  /\ row' \in [Events -> Rows] /\ RowSteps /\ WorksOK'
               /\ job' \in [JobIds -> Jobs] /\ JobSteps
    BY <1>7, AtStep, SameRows, SameJobs, KeptIsStep
  <1>8. CASE resolveExecutableEvent(w)
    BY <1>6, <1>7, <1>8 DEF resolveExecutableEvent, MarksRow
  <1>9. CASE ResolveError(w)
    BY <1>6, <1>9 DEF ResolveError, MarksRow
  <1>10. CASE OperationSucceeds(w)
    BY <1>7, <1>10 DEF OperationSucceeds
  <1>11. CASE OperationThrows(w)
    BY <1>6, <1>7, <1>11 DEF OperationThrows, MarksRow
  <1>12. CASE OperationRefuses(w)
    BY <1>7, <1>12 DEF OperationRefuses
  <1>13. CASE MarkCompleted(w) \/ MarkCompletedError(w)
    BY <1>6, <1>13 DEF MarkCompleted, MarkCompletedError, MarksRow
  <1>14. CASE MarkFailed(w) \/ MarkFailedError(w)
    BY <1>6, <1>14 DEF MarkFailed, MarkFailedError, MarksRow
  <1>15. CASE MarkFatal(w) \/ MarkFatalError(w)
    BY <1>6, <1>15 DEF MarkFatal, MarkFatalError, MarksRow
  <1>16. CASE CrashWorker(w)
    BY <1>16, SameRows, IdleWorkStep, SameJobs, KeptIsStep DEF CrashWorker
  <1>17. CASE LoseLock(w)
    <2> DEFINE k == [job[Doing(w)] EXCEPT !.owner = NoWorker]
    <2>1. Doing(w) \in JobIds /\ job[Doing(w)] \in Jobs /\ job[Doing(w)].owner = w
      BY <1>17, DoingType DEF LoseLock
    <2>2. k \in Jobs /\ k.state = job[Doing(w)].state /\ k.owner = NoWorker
      BY <2>1 DEF Jobs
    <2>3. job' = [job EXCEPT ![Doing(w)] = k]
      BY <1>17 DEF LoseLock
    <2> HIDE DEF k
    <2> QED BY <1>17, <2>1, <2>2, <2>3, JobUpdate, KeptIsStep, SameRows, SameWorks
            DEF LoseLock
  <1> QED BY <1>5, <1>8, <1>9, <1>10, <1>11, <1>12, <1>13, <1>14, <1>15, <1>16, <1>17
          DEF WorkerStep, WorkerFault

-----------------------------------------------------------------------------
(* The inductive invariant. *)

(* A row that moved on since a pass read it was written after the pass      *)
(* began, and if it can be claimed again, not before the pass's clock.      *)
SnapshotCurrent(s, t) ==
    LET r == row[s.event] IN
    /\ r.status # "ABSENT"
    /\ s.attempts <= r.attempts
    /\ s.attempts < r.attempts =>
          /\ r.updatedAt >= t
          /\ r.status \in Retryable \cup {"DISPATCHED"} => r.nextAttemptAt > t

(* So much a running pass knows of every row it is still to claim.          *)
SnapshotInv ==
    \A d \in Dispatchers : pass[d].pc # "idle" =>
        \A s \in pass[d].todo : SnapshotCurrent(s, pass[d].startedAt)

(* Attempt numbers in use never exceed the row's counter. *)
AttemptInv ==
    /\ \A e \in Events : row[e].status = "ABSENT" => row[e].attempts = 0
    /\ \A j \in JobIds : job[j].state # "none" => j[2] <= row[j[1]].attempts
    /\ \A d \in Dispatchers : HoldsClaim(d) => pass[d].attempt <= row[pass[d].event].attempts

(* The inductive invariant.                                                 *)
IInv == /\ TypeOK /\ PassInv /\ OwnedExists
        /\ SnapshotInv /\ AttemptInv /\ FreshDispatch

(* The inductive invariant holds initially.                                 *)
LEMMA InitIInv == Init => IInv
  <1> SUFFICES ASSUME Init PROVE IInv
    OBVIOUS
  <1>1. TypeOK
    BY InitType
  <1>2. \A d \in Dispatchers : pass[d].pc = "idle"
    BY DEF Init, IdlePass
  <1>3. \A j \in JobIds : job[j].state = "none" /\ job[j].owner = NoWorker
    BY DEF Init, NoJob
  <1>4. \A e \in Events : row[e].attempts = 0
    BY DEF Init
  <1> QED BY <1>1, <1>2, <1>3, <1>4 DEF IInv, PassInv, OwnedExists, SnapshotInv, AttemptInv,
          FreshDispatch, HoldsClaim

(* The three remaining actions. *)
LEMMA OtherEffect ==
    ASSUME TypeOK, OwnedExists,
           \/ \E e \in Events : createMany(e)
           \/ \E j \in JobIds : RecoverStalled(j)
           \/ Tick
    PROVE  TypeOK' /\ RowSteps /\ PassSteps /\ JobSteps
  <1>1. ASSUME NEW e \in Events, createMany(e)
        PROVE  TypeOK' /\ RowSteps /\ PassSteps /\ JobSteps
    <2> DEFINE r == [status |-> "PENDING", attempts |-> 0,
                     nextAttemptAt |-> now, updatedAt |-> now]
    <2>1. r \in Rows /\ RowStep(row[e], r)
      BY <1>1 DEF createMany, TypeOK, Rows, Statuses, Retryable, RowStep
    <2>2. row' = [row EXCEPT ![e] = r]
      BY <1>1 DEF createMany
    <2>3. \A x \in Events : RowStep(row[x], row[x])
      BY DEF RowStep
    <2> HIDE DEF r
    <2>4. row' \in [Events -> Rows] /\ RowSteps
      BY <2>1, <2>2, <2>3 DEF TypeOK, RowSteps
    <2>5. UNCHANGED <<now, pass, job, work, applied, faults>>
      BY <1>1 DEF createMany
    <2>6. now' \in Nat /\ applied' \subseteq Events /\ faults' \in Nat
      BY <2>5 DEF TypeOK
    <2> QED BY <2>4, <2>5, <2>6, SamePasses, SameJobs, SameWorks, KeptIsStep, TypeParts
  <1>2. ASSUME NEW j \in JobIds, RecoverStalled(j)
        PROVE  TypeOK' /\ RowSteps /\ PassSteps /\ JobSteps
    <2> DEFINE k == IF job[j].stalls >= MaxStalled THEN FinishedJob ELSE Unstalled(job[j])
    <2>1. job[j] \in Jobs /\ job[j].state = "active"
      BY <1>2 DEF RecoverStalled, TypeOK
    <2>2. k \in Jobs /\ k.state # "none"
      BY <2>1, FinishedJobType, WaitingJobType
    <2>3. job' = [job EXCEPT ![j] = k]
      BY <1>2 DEF RecoverStalled
    <2> HIDE DEF k
    <2>4. job' \in [JobIds -> Jobs] /\ JobSteps
      BY <2>1, <2>2, <2>3, JobUpdate, KeptIsStep
    <2>5. UNCHANGED <<now, row, pass, work, applied, faults>>
      BY <1>2 DEF RecoverStalled
    <2>6. now' \in Nat /\ applied' \subseteq Events /\ faults' \in Nat
      BY <2>5 DEF TypeOK
    <2> QED BY <2>4, <2>5, <2>6, SamePasses, SameRows, SameWorks, TypeParts
  <1>3. CASE Tick
    <2>1. UNCHANGED <<row, pass, job, work, applied, faults>> /\ now' = now + 1
      BY <1>3 DEF Tick
    <2>2. now' \in Nat /\ applied' \subseteq Events /\ faults' \in Nat
      BY <2>1 DEF TypeOK
    <2> QED BY <2>1, <2>2, SamePasses, SameRows, SameJobs, SameWorks, KeptIsStep, TypeParts
  <1> QED BY <1>1, <1>2, <1>3

(* What any step does to rows, passes and jobs.                             *)
LEMMA NextEffect ==
    ASSUME TypeOK, PassInv, OwnedExists, Next
    PROVE  TypeOK' /\ RowSteps /\ PassSteps /\ JobSteps
  BY DispatcherEffect, WorkerEffect, OtherEffect DEF Next

(* Time: a pass is never older than MaxPass. *)
LEMMA PassInvStep ==
    ASSUME TypeOK, TypeOK', PassInv, Next, PassSteps
    PROVE  PassInv' /\ now <= now'
  <1>1. (now' = now) \/ Tick
    BY DEF Next, DispatcherStep, DispatcherFault, StartPass, ClaimEvent, SkipEvent,
       dispatchEvent, MarkDispatched, MarkDispatchFailed, EndPass, ClaimError,
       DispatchError, MarkDispatchedError, MarkDispatchFailedError, CrashDispatcher,
       WorkerStep, WorkerFault, TakeJob, resolveExecutableEvent, OperationSucceeds,
       OperationThrows, OperationRefuses, MarkCompleted, MarkFailed, MarkFatal,
       ResolveError, MarkCompletedError, MarkFailedError, MarkFatalError, CrashWorker,
       LoseLock, RecoverStalled, createMany
  <1>2. now \in Nat /\ \A d \in Dispatchers : pass[d].startedAt \in Nat
    BY DEF TypeOK, Passes
  <1>3. CASE now' = now
    <2> SUFFICES ASSUME NEW d \in Dispatchers, pass'[d].pc # "idle"
                 PROVE  pass'[d].startedAt <= now /\ now <= pass'[d].startedAt + MaxPass
      BY <1>2, <1>3 DEF PassInv
    <2>1. PassStep(pass[d], pass'[d])
      BY DEF PassSteps
    <2> QED BY <1>2, <2>1 DEF PassInv, PassStep
  <1>4. CASE Tick
    BY <1>2, <1>4 DEF Tick, PassInv
  <1> QED BY <1>1, <1>3, <1>4

(* A row that moves on does so at the current time, after every pass began. *)
LEMMA SnapshotStep ==
    ASSUME TypeOK, TypeOK', PassInv, PassInv', SnapshotInv, RowSteps, PassSteps
    PROVE  SnapshotInv'
  <1> SUFFICES ASSUME NEW d \in Dispatchers, pass'[d].pc # "idle",
                      NEW s \in pass'[d].todo
               PROVE  SnapshotCurrent(s, pass[d].startedAt)'
    BY DEF SnapshotInv
  <1> DEFINE r == row[s.event]
             q == row'[s.event]
             t == pass'[d].startedAt
  <1>1. /\ s.event \in Events /\ s.attempts \in Nat /\ r \in Rows /\ q \in Rows
        /\ now \in Nat /\ t \in Nat
    BY DEF TypeOK, Passes, Snapshots
  <1>2. /\ t <= now /\ r.status # "ABSENT" /\ s.attempts <= r.attempts
        /\ s.attempts < r.attempts =>
              /\ r.updatedAt >= t
              /\ r.status \in Retryable \cup {"DISPATCHED"} => r.nextAttemptAt > t
    <2>1. CASE pass[d].pc # "idle" /\ t = pass[d].startedAt /\ s \in pass[d].todo
      BY <2>1 DEF SnapshotInv, SnapshotCurrent, PassInv
    <2>2. CASE t = now /\ s.attempts = r.attempts /\ r.status # "ABSENT"
      BY <1>1, <2>2
    <2> QED BY <2>1, <2>2 DEF PassSteps, PassStep
  <1>3. RowStep(r, q)
    BY <1>1 DEF RowSteps
  <1>4. /\ q.status # "ABSENT" /\ s.attempts <= q.attempts
        /\ s.attempts < q.attempts =>
              /\ q.updatedAt >= t
              /\ q.status \in Retryable \cup {"DISPATCHED"} => q.nextAttemptAt > t
    <2>1. CASE q = r
      BY <1>2, <2>1
    <2>2. CASE q # r
      <3>1. r.attempts \in Nat /\ q.attempts \in Nat /\ q.updatedAt \in Nat
            /\ q.nextAttemptAt \in Nat
        BY <1>1 DEF Rows
      <3> HIDE DEF r, q, t
      <3> QED BY <1>1, <1>2, <1>3, <2>2, <3>1 DEF RowStep, Retryable, Settled, InFlight
    <2> QED BY <2>1, <2>2
  <1> QED BY <1>4 DEF SnapshotCurrent

(* The attempts of a row never decrease.                                    *)
LEMMA RowMonotone ==
    ASSUME TypeOK, TypeOK', AttemptInv, RowSteps, NEW e \in Events
    PROVE  /\ row[e].attempts <= row'[e].attempts
           /\ row'[e].status = "ABSENT" => row'[e].attempts = 0
  <1>1. row[e].attempts \in Nat /\ row'[e].attempts \in Nat
    BY DEF TypeOK, Rows
  <1>2. RowStep(row[e], row'[e])
    BY DEF RowSteps
  <1> QED BY <1>1, <1>2 DEF RowStep, AttemptInv, Settled

(* A claim matches only when nobody claimed the row since the pass read it, *)
(* so the attempt it computes is the row's next one.                        *)
LEMMA ClaimIsFresh ==
    ASSUME TypeOK, PassInv, SnapshotInv, NEW d \in Dispatchers, ClaimEvent(d)
    PROVE  \E e \in Events :
              /\ pass'[d].pc = "add"
              /\ Holding(d)' = <<e, row[e].attempts + 1>>
              /\ row'[e].attempts = row[e].attempts + 1
              /\ \A x \in Dispatchers \ {d} : pass'[x] = pass[x]
              /\ job' = job
  <1>1. PICK s \in pass[d].todo :
            /\ pass[d].pc = "scan" /\ ClaimWhere(s.status, row[s.event], pass[d].startedAt)
            /\ row' = [row EXCEPT ![s.event] = Claimed(@)]
            /\ Advance(d, "add", s, s.attempts + 1)
    BY DEF ClaimEvent, NextInPass
  <1>2. /\ s.event \in Events /\ s.attempts \in Nat /\ row[s.event] \in Rows
        /\ pass[d].startedAt \in Nat /\ s.status \in Retryable \cup InFlight
    BY DEF TypeOK, Passes, Snapshots
  <1>3. SnapshotCurrent(s, pass[d].startedAt)
    BY <1>1 DEF SnapshotInv
  <1>4. s.attempts = row[s.event].attempts
    <2>1. /\ row[s.event].attempts \in Nat /\ row[s.event].updatedAt \in Nat
          /\ row[s.event].nextAttemptAt \in Nat
      BY <1>2 DEF Rows
    <2>2. ~(s.attempts < row[s.event].attempts)
      BY <1>1, <1>2, <1>3, <2>1 DEF SnapshotCurrent, ClaimWhere, Retryable
    <2> QED BY <1>2, <1>3, <2>1, <2>2 DEF SnapshotCurrent
  <1>5. row'[s.event].attempts = row[s.event].attempts + 1
    BY <1>1, <1>2 DEF TypeOK, Claimed, Rows
  <1>6. pass'[d].pc = "add" /\ pass'[d].event = s.event /\ pass'[d].attempt = s.attempts + 1
    BY <1>1, <1>2 DEF TypeOK, Advance
  <1>7. \A x \in Dispatchers \ {d} : pass'[x] = pass[x]
    BY <1>1 DEF TypeOK, Advance
  <1> QED BY <1>2, <1>4, <1>5, <1>6, <1>7 DEF Holding, ClaimEvent

(* Any other step leaves every dispatcher with the claim it had or none. *)
KeepsClaim(d) ==
    HoldsClaim(d)' => /\ HoldsClaim(d) /\ Holding(d)' = Holding(d)
                      /\ pass'[d].pc = "add" => pass[d].pc = "add"

(* Only ClaimEvent gives a dispatcher a new claim.                          *)
LEMMA OtherStepsKeepClaims ==
    ASSUME TypeOK, Next, NEW d \in Dispatchers, ~ClaimEvent(d)
    PROVE  KeepsClaim(d)
  <1>1. CASE pass' = pass
    BY <1>1 DEF KeepsClaim, HoldsClaim, Holding
  <1>2. ASSUME NEW x \in Dispatchers, DispatcherStep(x) \/ DispatcherFault(x)
        PROVE  KeepsClaim(d)
    <2>0. pass[d] \in Passes /\ pass[x] \in Passes
      BY DEF TypeOK
    <2>1. CASE d # x
      <3>1. pass'[d] = pass[d]
        BY <1>2, <2>1 DEF TypeOK, DispatcherStep, DispatcherFault, StartPass, ClaimEvent,
           SkipEvent, dispatchEvent, MarkDispatched, MarkDispatchFailed, EndPass, ClaimError,
           DispatchError, MarkDispatchedError, MarkDispatchFailedError, CrashDispatcher,
           Advance, GoTo, NextEvent
      <3> QED BY <3>1 DEF KeepsClaim, HoldsClaim, Holding
    <2>2. CASE d = x
      <3>1. CASE StartPass(d) \/ SkipEvent(d) \/ ClaimError(d)
        <4>1. pass'[d].pc = "scan"
          BY <3>1 DEF TypeOK, StartPass, SkipEvent, ClaimError, Advance
        <4> QED BY <4>1 DEF KeepsClaim, HoldsClaim
      <3>2. CASE MarkDispatched(d) \/ MarkDispatchFailed(d) \/ MarkDispatchFailedError(d)
        <4>1. NextEvent(d)
          BY <3>2 DEF MarkDispatched, MarkDispatchFailed, MarkDispatchFailedError
        <4>2. pass'[d].pc = "scan"
          BY <2>0, <4>1 DEF TypeOK, NextEvent, Passes
        <4> QED BY <4>2 DEF KeepsClaim, HoldsClaim
      <3>3. CASE EndPass(d) \/ CrashDispatcher(d)
        <4>1. pass'[d].pc = "idle"
          BY <3>3 DEF TypeOK, EndPass, CrashDispatcher, IdlePass
        <4> QED BY <4>1 DEF KeepsClaim, HoldsClaim
      <3>4. CASE dispatchEvent(d) \/ DispatchError(d) \/ MarkDispatchedError(d)
        <4>1. /\ pass[d].pc \in {"add", "mark"} /\ pass'[d].pc \in {"mark", "fail"}
              /\ pass'[d].event = pass[d].event /\ pass'[d].attempt = pass[d].attempt
          BY <2>0, <3>4 DEF TypeOK, dispatchEvent, DispatchError, MarkDispatchedError, GoTo,
             Passes
        <4> QED BY <4>1 DEF KeepsClaim, HoldsClaim, Holding
      <3> QED BY <1>2, <2>2, <3>1, <3>2, <3>3, <3>4 DEF DispatcherStep, DispatcherFault
    <2> QED BY <2>1, <2>2
  <1>3. (pass' = pass) \/ \E x \in Dispatchers : DispatcherStep(x) \/ DispatcherFault(x)
    BY DEF Next, WorkerStep, WorkerFault, TakeJob, resolveExecutableEvent, OperationSucceeds,
       OperationThrows, OperationRefuses, MarkCompleted, MarkFailed, MarkFatal,
       ResolveError, MarkCompletedError, MarkFailedError, MarkFatalError, CrashWorker,
       LoseLock, RecoverStalled, createMany, Tick
  <1> QED BY <1>1, <1>2, <1>3

(* A claim is fresh: its attempt is above every job and every other claim.  *)
LEMMA AttemptStep ==
    ASSUME IInv, Next, TypeOK', RowSteps, JobSteps
    PROVE  AttemptInv' /\ FreshDispatch'
  <1> USE DEF IInv
  <1>1. \A e \in Events : /\ row[e].attempts \in Nat /\ row'[e].attempts \in Nat
                          /\ row[e].attempts <= row'[e].attempts
                          /\ row'[e].status = "ABSENT" => row'[e].attempts = 0
    BY RowMonotone DEF TypeOK, Rows
  <1>2. \A d \in Dispatchers : HoldsClaim(d) =>
            /\ Holding(d) \in JobIds /\ pass[d].event \in Events /\ pass[d].attempt \in Attempts
            /\ pass[d].attempt <= row[pass[d].event].attempts
    BY DEF TypeOK, HoldsClaim, Holding, JobIds, AttemptInv
  <1>3. \A j \in JobIds : j[1] \in Events /\ j[2] \in Nat /\ j = <<j[1], j[2]>>
    BY DEF JobIds, Attempts
  <1>4. \A j \in JobIds : job'[j].state # "none" => j[2] <= row'[j[1]].attempts
    <2> SUFFICES ASSUME NEW j \in JobIds, job'[j].state # "none"
                 PROVE  j[2] <= row'[j[1]].attempts
      OBVIOUS
    <2>1. j[2] <= row[j[1]].attempts
      <3>1. CASE job[j].state # "none"
        BY <3>1 DEF AttemptInv
      <3>2. ASSUME NEW d \in Dispatchers, pass[d].pc = "add", Holding(d) = j
            PROVE  j[2] <= row[j[1]].attempts
        BY <1>2, <3>2 DEF HoldsClaim, Holding
      <3> QED BY <3>1, <3>2 DEF JobSteps
    <2> QED BY <1>1, <1>3, <2>1
  <1>5. CASE \E d \in Dispatchers : ClaimEvent(d)
    <2>1. PICK d \in Dispatchers : ClaimEvent(d)
      BY <1>5
    <2>2. PICK e \in Events :
              /\ pass'[d].pc = "add" /\ Holding(d)' = <<e, row[e].attempts + 1>>
              /\ row'[e].attempts = row[e].attempts + 1
              /\ \A x \in Dispatchers \ {d} : pass'[x] = pass[x]
              /\ job' = job
      BY <2>1, ClaimIsFresh
    <2>3. \A x \in Dispatchers \ {d} : /\ HoldsClaim(x)' <=> HoldsClaim(x)
                                       /\ Holding(x)' = Holding(x)
      BY <2>2 DEF HoldsClaim, Holding
    <2>4. HoldsClaim(d)' /\ pass'[d].event = e /\ pass'[d].attempt = row[e].attempts + 1
      BY <2>2 DEF HoldsClaim, Holding
    <2>5. \A x \in Dispatchers : HoldsClaim(x)' => pass'[x].attempt <= row'[pass'[x].event].attempts
      <3> SUFFICES ASSUME NEW x \in Dispatchers, HoldsClaim(x)'
                   PROVE  pass'[x].attempt <= row'[pass'[x].event].attempts
        OBVIOUS
      <3>1. CASE x = d
        BY <1>1, <2>2, <2>4, <3>1
      <3>2. CASE x # d
        <4>1. HoldsClaim(x) /\ pass'[x] = pass[x]
          BY <2>2, <2>3, <3>2
        <4>2. pass[x].event \in Events /\ pass[x].attempt \in Nat
              /\ pass[x].attempt <= row[pass[x].event].attempts
          BY <1>2, <4>1 DEF Attempts
        <4> QED BY <1>1, <4>1, <4>2
      <3> QED BY <3>1, <3>2
    <2>6. \A x \in Dispatchers \ {d} : HoldsClaim(x) => Holding(x) # <<e, row[e].attempts + 1>>
      <3> SUFFICES ASSUME NEW x \in Dispatchers \ {d}, HoldsClaim(x),
                          Holding(x) = <<e, row[e].attempts + 1>>
                   PROVE  FALSE
        OBVIOUS
      <3>1. pass[x].event = e /\ pass[x].attempt = row[e].attempts + 1
        BY DEF Holding
      <3>2. pass[x].attempt <= row[pass[x].event].attempts
        BY <1>2
      <3> QED BY <1>1, <3>1, <3>2
    <2>7. <<e, row[e].attempts + 1>> \in JobIds
      BY <2>2, <2>4 DEF TypeOK, HoldsClaim, Holding
    <2>8. job[<<e, row[e].attempts + 1>>].state = "none"
      BY <1>1, <2>7 DEF AttemptInv
    <2>9. \A x \in Dispatchers : pass'[x].pc = "add" => job'[Holding(x)'].state = "none"
      BY <2>2, <2>3, <2>8 DEF FreshDispatch, Holding
    <2>10. \A x, y \in Dispatchers :
              x # y /\ HoldsClaim(x)' /\ HoldsClaim(y)' => Holding(x)' # Holding(y)'
      BY <2>2, <2>3, <2>6 DEF FreshDispatch
    <2>11. FreshDispatch'
      BY <2>9, <2>10 DEF FreshDispatch
    <2> QED BY <1>1, <1>4, <2>5, <2>11 DEF AttemptInv
  <1>6. CASE \A d \in Dispatchers : ~ClaimEvent(d)
    <2>1. \A d \in Dispatchers : KeepsClaim(d)
      BY <1>6, OtherStepsKeepClaims
    <2>2. \A x \in Dispatchers : HoldsClaim(x)' => pass'[x].attempt <= row'[pass'[x].event].attempts
      <3> SUFFICES ASSUME NEW x \in Dispatchers, HoldsClaim(x)'
                   PROVE  pass'[x].attempt <= row'[pass'[x].event].attempts
        OBVIOUS
      <3>1. HoldsClaim(x) /\ pass'[x].event = pass[x].event /\ pass'[x].attempt = pass[x].attempt
        BY <2>1 DEF KeepsClaim, Holding
      <3>2. pass[x].event \in Events /\ pass[x].attempt \in Nat
            /\ pass[x].attempt <= row[pass[x].event].attempts
        BY <1>2, <3>1 DEF Attempts
      <3> QED BY <1>1, <3>1, <3>2
    <2>3. \A x \in Dispatchers : pass'[x].pc = "add" => job'[Holding(x)'].state = "none"
      <3> SUFFICES ASSUME NEW x \in Dispatchers, pass'[x].pc = "add",
                          job'[Holding(x)'].state # "none"
                   PROVE  FALSE
        OBVIOUS
      <3>1. HoldsClaim(x) /\ pass[x].pc = "add" /\ Holding(x)' = Holding(x)
        BY <2>1 DEF KeepsClaim, HoldsClaim
      <3>2. Holding(x) \in JobIds /\ job[Holding(x)].state = "none"
        BY <1>2, <3>1 DEF FreshDispatch
      <3>3. PICK d \in Dispatchers : pass[d].pc = "add" /\ pass'[d].pc # "add"
                                     /\ Holding(d) = Holding(x)
        BY <3>1, <3>2 DEF JobSteps
      <3> QED BY <3>1, <3>3 DEF FreshDispatch, HoldsClaim
    <2>4. FreshDispatch'
      BY <2>1, <2>3 DEF FreshDispatch, KeepsClaim
    <2> QED BY <1>1, <1>4, <2>2, <2>4 DEF AttemptInv
  <1> QED BY <1>5, <1>6

(* The inductive invariant is preserved by every step.                      *)
LEMMA NextIInv == IInv /\ [Next]_vars => IInv'
  <1> SUFFICES ASSUME IInv, [Next]_vars PROVE IInv'
    OBVIOUS
  <1>1. CASE Next
    <2>1. TypeOK' /\ RowSteps /\ PassSteps /\ JobSteps
      BY <1>1, NextEffect DEF IInv
    <2>2. PassInv'
      BY <1>1, <2>1, PassInvStep DEF IInv
    <2>3. SnapshotInv'
      BY <2>1, <2>2, SnapshotStep DEF IInv
    <2>4. AttemptInv' /\ FreshDispatch'
      BY <1>1, <2>1, AttemptStep
    <2> QED BY <2>1, <2>2, <2>3, <2>4 DEF IInv, JobSteps
  <1>2. CASE UNCHANGED vars
    BY <1>2 DEF vars, IInv, TypeOK, PassInv, OwnedExists, SnapshotInv, SnapshotCurrent,
       AttemptInv, FreshDispatch, HoldsClaim, Holding
  <1> QED BY <1>1, <1>2

(* The inductive invariant holds in every reachable state: what a           *)
(* dispatcher knows of a row from its snapshot is never newer than the row, *)
(* so that the attempt it computes is the one its claim wrote.              *)
THEOREM OutboxInvariant == Spec => []IInv
  BY InitIInv, NextIInv, PTL DEF Spec

(***************************************************************************)
(* Every reachable state is well typed.                                    *)
(***************************************************************************)
THEOREM OutboxTypes == Spec => []TypeOK
  <1>1. IInv => TypeOK
    BY DEF IInv
  <1> QED BY <1>1, OutboxInvariant, PTL

(***************************************************************************)
(* processEvent never builds a jobId the queue has already seen and no two *)
(* processes ever dispatch the same attempt of the same row, for any       *)
(* number of processes, rows, faults and retries, as long as a pass is     *)
(* shorter than the redrive delay.                                         *)
(***************************************************************************)
THEOREM DispatchIsFresh == Spec => []FreshDispatch
  <1>1. IInv => FreshDispatch
    BY DEF IInv
  <1> QED BY <1>1, OutboxInvariant, PTL

-----------------------------------------------------------------------------
(* The fence. *)

(* A fenced write changes its own row only, at its own attempt.             *)
LEMMA MarkChangesHeldRow ==
    ASSUME TypeOK, NEW e \in Events, NEW f \in Events, NEW a,
           markCompleted(f, a) \/ \E terminal \in BOOLEAN : markFailed(f, a, terminal),
           row'[e] # row[e]
    PROVE  e = f /\ row[e].attempts = a
  BY DEF markCompleted, markFailed, AtAttempt, TypeOK

(* Every step that settles a row or marks it failed holds its attempt.      *)
LEMMA FenceStep ==
    ASSUME IInv, Next, NEW e \in Events, row'[e] # row[e],
           row'[e].status \in Settled \cup {"FAILED"}
    PROVE  HeldAt(e, row[e].attempts)
  <1> USE DEF IInv
  <1>0. row[e] \in Rows
    BY DEF TypeOK
  <1>1. ASSUME NEW w \in Workers, work[w].pc \in {"complete", "failed", "fatal"}, MarksRow(w)
        PROVE  HeldAt(e, row[e].attempts)
    <2>1. work[w].event = e /\ work[w].attempt = row[e].attempts
      BY <1>1, DoingType, MarkChangesHeldRow DEF MarksRow
    <2> QED BY <1>1, <2>1 DEF HeldAt, Doing
  <1>2. ASSUME NEW w \in Workers, WorkerStep(w) \/ WorkerFault(w)
        PROVE  HeldAt(e, row[e].attempts)
    <2>1. CASE \/ MarkCompleted(w) \/ MarkCompletedError(w) \/ MarkFailed(w)
               \/ MarkFailedError(w) \/ MarkFatal(w) \/ MarkFatalError(w)
      BY <1>1, <2>1 DEF MarksRow, MarkCompleted, MarkCompletedError, MarkFailed,
         MarkFailedError, MarkFatal, MarkFatalError
    <2> QED BY <1>2, <2>1 DEF WorkerStep, WorkerFault, TakeJob, resolveExecutableEvent,
            OperationSucceeds, OperationThrows, OperationRefuses, ResolveError,
            CrashWorker, LoseLock
  <1>3. ASSUME NEW d \in Dispatchers, DispatcherStep(d) \/ DispatcherFault(d)
        PROVE  HeldAt(e, row[e].attempts)
    <2>1. CASE MarkDispatchFailed(d) \/ MarkDispatchFailedError(d)
      <3>1. pass[d].pc = "fail" /\ markFailed(pass[d].event, pass[d].attempt, FALSE)
        BY <2>1 DEF MarkDispatchFailed, MarkDispatchFailedError
      <3>2. pass[d].event \in Events
        BY <3>1 DEF TypeOK, JobIds
      <3>3. pass[d].event = e /\ pass[d].attempt = row[e].attempts
        BY <3>1, <3>2, MarkChangesHeldRow
      <3> QED BY <3>1, <3>3 DEF HeldAt, Holding
    <2>2. CASE MarkDispatched(d) \/ MarkDispatchedError(d)
      <3>1. markDispatched(pass[d].event, pass[d].startedAt)
        BY <2>2 DEF MarkDispatched, MarkDispatchedError
      <3>2. row'[e].status = "DISPATCHED"
        BY <1>0, <3>1 DEF markDispatched, DispatchedRow, TypeOK, Rows
      <3> QED BY <3>2 DEF Settled
    <2>3. CASE ClaimEvent(d) \/ ClaimError(d)
      <3>1. PICK f : row' = [row EXCEPT ![f] = Claimed(@)]
        BY <2>3 DEF ClaimEvent, ClaimError
      <3>2. row'[e].status = "PROCESSING"
        BY <1>0, <3>1 DEF Claimed, TypeOK, Rows
      <3> QED BY <3>2 DEF Settled
    <2> QED BY <1>3, <2>1, <2>2, <2>3 DEF DispatcherStep, DispatcherFault, StartPass,
            SkipEvent, dispatchEvent, DispatchError, EndPass, CrashDispatcher
  <1>4. ASSUME NEW f \in Events, createMany(f)
        PROVE  FALSE
    BY <1>4 DEF createMany, TypeOK, Settled
  <1> QED BY <1>2, <1>3, <1>4 DEF Next, RecoverStalled, Tick

(***************************************************************************)
(* A row is settled, dead-lettered or sent to a retry only by a holder of  *)
(* its current attempt: the write of a worker or dispatcher that was       *)
(* overtaken by a later attempt never lands.                               *)
(***************************************************************************)
THEOREM LateWritesAreFenced == Spec => FencedByAttempt
  <1>1. IInv /\ [Next]_vars =>
          [\A e \in Events :
             row'[e] # row[e] /\ row'[e].status \in Settled \cup {"FAILED"} =>
                 HeldAt(e, row[e].attempts)]_vars
    BY FenceStep
  <1> QED BY <1>1, OutboxInvariant, PTL DEF Spec, FencedByAttempt

-----------------------------------------------------------------------------
(* The outbox implements a durable delivery. *)

(* A busy worker works on a job that was enqueued, and it reports success   *)
(* only after the operation returned.                                       *)
WorkInv ==
    \A w \in Workers :
        /\ work[w].pc # "idle" => job[Doing(w)].state # "none"
        /\ work[w].pc = "complete" => work[w].event \in applied

(* Every step keeps what workers know of their jobs.                        *)
LEMMA WorkInvStep ==
    ASSUME IInv, WorkInv, Next, JobSteps
    PROVE  WorkInv'
  <1> USE DEF IInv
  <1>1. \A w \in Workers : work[w].pc # "idle" =>
            /\ Doing(w) \in JobIds /\ job'[Doing(w)].state # "none"
    BY DoingType DEF WorkInv, JobSteps
  <1>2. ASSUME work' = work, applied' = applied
        PROVE  WorkInv'
    BY <1>1, <1>2 DEF WorkInv, Doing
  <1>3. ASSUME NEW w \in Workers, WorkerStep(w) \/ WorkerFault(w)
        PROVE  WorkInv'
    <2>0. work[w] \in Works /\ (work[w].pc # "idle" => Doing(w) = <<work[w].event, work[w].attempt>>)
      BY DEF TypeOK, Doing
    <2>1. applied \subseteq applied'
      BY <1>3 DEF WorkerStep, WorkerFault, TakeJob, resolveExecutableEvent, OperationSucceeds,
         OperationThrows, OperationRefuses, MarkCompleted, MarkFailed, MarkFatal,
         ResolveError, MarkCompletedError, MarkFailedError, MarkFatalError, CrashWorker,
         LoseLock
    <2>2. ASSUME NEW k, work' = [work EXCEPT ![w] = k],
                 k.pc # "idle" => job'[<<k.event, k.attempt>>].state # "none",
                 k.pc = "complete" => k.event \in applied'
          PROVE  WorkInv'
      BY <1>1, <2>1, <2>2 DEF WorkInv, Doing, TypeOK
    <2>3. CASE work' = [work EXCEPT ![w] = IdleWork]
      BY <2>2, <2>3 DEF IdleWork
    <2>4. CASE TakeJob(w)
      <3>1. PICK j \in JobIds :
                /\ job[j].state = "waiting"
                /\ work' = [work EXCEPT ![w] = [pc |-> "resolve", event |-> j[1],
                                      attempt |-> j[2], final |-> isFinalAttempt(j)]]
        BY <2>4 DEF TakeJob
      <3>2. j = <<j[1], j[2]>> /\ job'[j].state # "none"
        BY <3>1 DEF JobIds, JobSteps
      <3> QED BY <2>2, <3>1, <3>2
    <2>5. ASSUME work[w].pc # "idle", NEW pc \in {"run", "complete", "failed", "fatal"},
                 At(w, pc), pc = "complete" => work[w].event \in applied'
          PROVE  WorkInv'
      <3> DEFINE k == [work[w] EXCEPT !.pc = pc]
      <3>1. k.pc = pc /\ k.event = work[w].event /\ k.attempt = work[w].attempt
        BY <2>0 DEF Works
      <3>2. work' = [work EXCEPT ![w] = k]
        BY <2>5 DEF At
      <3>3. job'[<<k.event, k.attempt>>].state # "none"
        BY <1>1, <2>0, <2>5, <3>1
      <3> HIDE DEF k
      <3> QED BY <2>2, <2>5, <3>1, <3>2, <3>3
    <2>6. CASE resolveExecutableEvent(w) \/ OperationThrows(w) \/ OperationRefuses(w)
      BY <2>3, <2>5, <2>6 DEF resolveExecutableEvent, OperationThrows, OperationRefuses,
         JobReturns, JobThrows
    <2>7. CASE OperationSucceeds(w)
      BY <2>5, <2>7 DEF OperationSucceeds
    <2>8. CASE LoseLock(w)
      BY <1>2, <2>8 DEF LoseLock
    <2> QED BY <1>3, <2>3, <2>4, <2>6, <2>7, <2>8 DEF WorkerStep, WorkerFault, MarkCompleted,
            MarkFailed, MarkFatal, ResolveError, MarkCompletedError, MarkFailedError,
            MarkFatalError, CrashWorker, JobReturns, JobThrows
  <1>4. (UNCHANGED <<work, applied>>) \/ \E w \in Workers : WorkerStep(w) \/ WorkerFault(w)
    BY DEF Next, DispatcherStep, DispatcherFault, StartPass, ClaimEvent, SkipEvent,
       dispatchEvent, MarkDispatched, MarkDispatchFailed, EndPass, ClaimError,
       DispatchError, MarkDispatchedError, MarkDispatchFailedError, CrashDispatcher,
       RecoverStalled, createMany, Tick
  <1> QED BY <1>2, <1>3, <1>4

(* A worker past its operation has applied it, and works on a job that the  *)
(* queue has accepted, in every reachable state.                            *)
THEOREM WorkInvariant == Spec => []WorkInv
  <1>1. Init => WorkInv
    BY DEF Init, WorkInv, IdleWork
  <1>2. IInv /\ WorkInv /\ [Next]_vars => WorkInv'
    <2> SUFFICES ASSUME IInv, WorkInv, [Next]_vars PROVE WorkInv'
      OBVIOUS
    <2>1. CASE Next
      BY <2>1, NextEffect, WorkInvStep DEF IInv
    <2>2. CASE UNCHANGED vars
      BY <2>2 DEF vars, WorkInv, Doing
    <2> QED BY <2>1, <2>2
  <1> QED BY <1>1, <1>2, OutboxInvariant, PTL DEF Spec

(* What each kind of row update means for the delivery. *)
LEMMA DeliveryKept ==
    ASSUME TypeOK, NEW e \in Events, NEW q \in Rows,
           row' = [row EXCEPT ![e] = q]
    PROVE  DeliveryState' = [DeliveryState EXCEPT ![e] = DeliveryOf(q.status)]
  BY DEF DeliveryState, TypeOK

(* The delivery only depends on the rows.                                   *)
LEMMA DeliverySame ==
    ASSUME row' = row
    PROVE  DeliveryState' = DeliveryState
  BY DEF DeliveryState

(* Marking a row DISPATCHED is a stutter of the delivery.                   *)
LEMMA DeliveryMarkDispatched ==
    ASSUME TypeOK, NEW e \in Events, NEW t \in Nat, markDispatched(e, t)
    PROVE  DeliveryState' = DeliveryState
  <1>1. CASE row[e].status = "PROCESSING"
    <2> DEFINE q == DispatchedRow(row[e], t)
    <2>1. row[e] \in Rows /\ now \in Nat /\ 1 \in Nat
      BY DEF TypeOK
    <2>2. q \in Rows /\ q.status = "DISPATCHED"
      <3>1. t + DispatchStale \in Nat
        OBVIOUS
      <3> QED BY <2>1, <3>1 DEF DispatchedRow, Rows, Statuses, InFlight
    <2>3. row' = [row EXCEPT ![e] = q]
      BY <1>1 DEF markDispatched
    <2>4. DeliveryOf(q.status) = DeliveryOf(row[e].status)
      BY <1>1, <2>2 DEF DeliveryOf
    <2> HIDE DEF q
    <2>5. DeliveryState' = [DeliveryState EXCEPT ![e] = DeliveryOf(q.status)]
      BY <2>2, <2>3, DeliveryKept
    <2> QED BY <2>4, <2>5 DEF DeliveryState
  <1>2. CASE row[e].status # "PROCESSING"
    BY <1>2, DeliverySame DEF markDispatched
  <1> QED BY <1>1, <1>2

(* So is a claim.                                                           *)
LEMMA DeliveryClaimed ==
    ASSUME TypeOK, NEW e \in Events, NEW st, NEW t,
           ClaimWhere(st, row[e], t), row' = [row EXCEPT ![e] = Claimed(@)]
    PROVE  DeliveryState' = DeliveryState
  <1> DEFINE q == Claimed(row[e])
  <1>1. row[e] \in Rows /\ row[e].attempts + 1 \in Nat /\ now \in Nat
    BY DEF TypeOK, Rows
  <1>2. q \in Rows /\ q.status = "PROCESSING"
    BY <1>1 DEF Claimed, Rows, Statuses, InFlight
  <1>3. row' = [row EXCEPT ![e] = q]
    OBVIOUS
  <1>4. DeliveryOf(q.status) = DeliveryOf(row[e].status)
    BY <1>2 DEF DeliveryOf, ClaimWhere, Retryable
  <1> HIDE DEF q
  <1>5. DeliveryState' = [DeliveryState EXCEPT ![e] = DeliveryOf(q.status)]
    BY <1>2, <1>3, DeliveryKept
  <1> QED BY <1>4, <1>5 DEF DeliveryState

(* markFailed is a stutter or drops the delivery.                           *)
LEMMA DeliveryMarkFailed ==
    ASSUME TypeOK, NEW e \in Events, NEW a \in Attempts, NEW terminal,
           markFailed(e, a, terminal), applied' = applied
    PROVE  DeliveryState' = DeliveryState \/ Delivery!Drop(e)
  <1>1. CASE AtAttempt(row[e], a)
    <2> DEFINE q == FailedRow(row[e], a, terminal)
    <2>1. q \in Rows /\ q.status = FailedStatus(a, terminal) /\ row[e] \in Rows
      BY RowUpdates DEF TypeOK, FailedRow, Rows
    <2>2. row' = [row EXCEPT ![e] = q]
      BY <1>1 DEF markFailed
    <2>3. DeliveryOf(row[e].status) = "open"
      BY <1>1 DEF AtAttempt, InFlight, DeliveryOf
    <2>4. DeliveryOf(q.status) \in {"open", "dropped"}
      BY <2>1 DEF FailedStatus, DeliveryOf
    <2> HIDE DEF q
    <2>5. DeliveryState' = [DeliveryState EXCEPT ![e] = DeliveryOf(q.status)]
      BY <2>1, <2>2, DeliveryKept
    <2>6. DeliveryState[e] = "open"
      BY <2>3 DEF DeliveryState
    <2> QED BY <2>4, <2>5, <2>6 DEF DeliveryState, Delivery!Drop
  <1>2. CASE ~AtAttempt(row[e], a)
    BY <1>2, DeliverySame DEF markFailed
  <1> QED BY <1>1, <1>2

(* markCompleted is a stutter or acknowledges the delivery.                 *)
LEMMA DeliveryMarkCompleted ==
    ASSUME TypeOK, NEW e \in Events, NEW a, e \in applied,
           markCompleted(e, a), applied' = applied
    PROVE  DeliveryState' = DeliveryState \/ Delivery!Acknowledge(e)
  <1>1. CASE AtAttempt(row[e], a)
    <2> DEFINE q == CompletedRow(row[e])
    <2>1. q \in Rows /\ q.status = "COMPLETED"
      BY DEF TypeOK, CompletedRow, Rows, Statuses, Settled
    <2>2. row' = [row EXCEPT ![e] = q]
      BY <1>1 DEF markCompleted
    <2>3. DeliveryOf(row[e].status) = "open" /\ DeliveryOf(q.status) = "acknowledged"
      BY <1>1, <2>1 DEF AtAttempt, InFlight, DeliveryOf
    <2> HIDE DEF q
    <2>4. DeliveryState' = [DeliveryState EXCEPT ![e] = DeliveryOf(q.status)]
      BY <2>1, <2>2, DeliveryKept
    <2>5. DeliveryState[e] = "open"
      BY <2>3 DEF DeliveryState
    <2> QED BY <2>3, <2>4, <2>5 DEF Delivery!Acknowledge
  <1>2. CASE ~AtAttempt(row[e], a)
    BY <1>2, DeliverySame DEF markCompleted
  <1> QED BY <1>1, <1>2

(* Every step of the outbox is a step or a stutter of the delivery.         *)
LEMMA DeliveryStep ==
    ASSUME IInv, WorkInv, Next
    PROVE  Delivery!Next \/ UNCHANGED Delivery!vars
  <1> USE DEF IInv
  <1> DEFINE Stutters == DeliveryState' = DeliveryState /\ applied' = applied
  <1>0. Stutters => UNCHANGED Delivery!vars
    BY DEF Delivery!vars
  <1>1. \A w \in Workers : work[w].pc # "idle" =>
            /\ work[w].event \in Events /\ work[w].attempt \in Attempts
            /\ DeliveryState[work[w].event] # "absent"
    <2> SUFFICES ASSUME NEW w \in Workers, work[w].pc # "idle"
                 PROVE  /\ work[w].event \in Events /\ work[w].attempt \in Attempts
                        /\ DeliveryState[work[w].event] # "absent"
      OBVIOUS
    <2>1. /\ Doing(w) \in JobIds /\ job[Doing(w)].state # "none"
          /\ work[w].event \in Events /\ work[w].attempt \in Attempts
      BY DoingType DEF WorkInv
    <2>2. work[w].attempt <= row[work[w].event].attempts
      BY <2>1 DEF AttemptInv, Doing
    <2>3. row[work[w].event].status # "ABSENT"
      BY <2>1, <2>2 DEF AttemptInv, Attempts
    <2> QED BY <2>1, <2>3 DEF DeliveryState, DeliveryOf
  <1>2. ASSUME NEW w \in Workers, WorkerStep(w) \/ WorkerFault(w)
        PROVE  Delivery!Next \/ Stutters
    <2>1. CASE OperationSucceeds(w)
      <3>1. /\ work[w].pc = "run" /\ row' = row
            /\ applied' = applied \cup {work[w].event}
        BY <2>1 DEF OperationSucceeds
      <3>2. DeliveryState' = DeliveryState
        BY <3>1, DeliverySame
      <3>3. Delivery!Apply(work[w].event) /\ work[w].event \in Events
        BY <1>1, <3>1, <3>2 DEF Delivery!Apply
      <3> QED BY <3>3 DEF Delivery!Next
    <2>2. CASE MarkCompleted(w) \/ MarkCompletedError(w)
      <3>1. /\ work[w].pc = "complete" /\ applied' = applied
            /\ row' = row \/ markCompleted(work[w].event, work[w].attempt)
        BY <2>2 DEF MarkCompleted, MarkCompletedError
      <3>2. work[w].event \in Events /\ work[w].event \in applied
        BY <1>1, <3>1 DEF WorkInv
      <3> QED BY <3>1, <3>2, DeliverySame, DeliveryMarkCompleted DEF Delivery!Next
    <2>3. CASE \/ MarkFailed(w) \/ MarkFailedError(w) \/ MarkFatal(w) \/ MarkFatalError(w)
      <3>1. /\ work[w].pc # "idle" /\ applied' = applied
            /\ \/ row' = row
               \/ \E terminal \in BOOLEAN : markFailed(work[w].event, work[w].attempt, terminal)
        BY <2>3 DEF MarkFailed, MarkFailedError, MarkFatal, MarkFatalError
      <3> QED BY <1>1, <3>1, DeliverySame, DeliveryMarkFailed DEF Delivery!Next
    <2>4. CASE row' = row /\ applied' = applied
      BY <2>4, DeliverySame
    <2> QED BY <1>2, <2>1, <2>2, <2>3, <2>4 DEF WorkerStep, WorkerFault, TakeJob,
            resolveExecutableEvent, OperationThrows, OperationRefuses, ResolveError,
            CrashWorker, LoseLock
  <1>3. ASSUME NEW d \in Dispatchers, DispatcherStep(d) \/ DispatcherFault(d)
        PROVE  Delivery!Next \/ Stutters
    <2>0. applied' = applied
      BY <1>3 DEF DispatcherStep, DispatcherFault, StartPass, ClaimEvent, SkipEvent,
         dispatchEvent, MarkDispatched, MarkDispatchFailed, EndPass, ClaimError,
         DispatchError, MarkDispatchedError, MarkDispatchFailedError, CrashDispatcher
    <2>1. CASE MarkDispatchFailed(d) \/ MarkDispatchFailedError(d)
      <3>1. /\ pass[d].pc = "fail"
            /\ row' = row \/ markFailed(pass[d].event, pass[d].attempt, FALSE)
        BY <2>1 DEF MarkDispatchFailed, MarkDispatchFailedError
      <3>2. pass[d].event \in Events /\ pass[d].attempt \in Attempts
        BY <3>1 DEF TypeOK, JobIds
      <3> QED BY <2>0, <3>1, <3>2, DeliverySame, DeliveryMarkFailed DEF Delivery!Next
    <2>2. CASE MarkDispatched(d) \/ MarkDispatchedError(d)
      <3>1. /\ pass[d].pc = "mark"
            /\ row' = row \/ markDispatched(pass[d].event, pass[d].startedAt)
        BY <2>2 DEF MarkDispatched, MarkDispatchedError
      <3>2. pass[d].event \in Events /\ pass[d].startedAt \in Nat
        BY <3>1 DEF TypeOK, JobIds, Passes
      <3> QED BY <2>0, <3>1, <3>2, DeliverySame, DeliveryMarkDispatched
    <2>3. CASE ClaimEvent(d) \/ ClaimError(d)
      <3>1. PICK s \in pass[d].todo :
                \/ row' = row
                \/ /\ ClaimWhere(s.status, row[s.event], pass[d].startedAt)
                   /\ row' = [row EXCEPT ![s.event] = Claimed(@)]
        BY <2>3 DEF ClaimEvent, ClaimError
      <3>2. s.event \in Events
        BY DEF TypeOK, Passes, Snapshots
      <3> QED BY <2>0, <3>1, <3>2, DeliverySame, DeliveryClaimed
    <2> QED BY <1>3, <2>0, <2>1, <2>2, <2>3, DeliverySame DEF DispatcherStep, DispatcherFault,
            StartPass, SkipEvent, dispatchEvent, DispatchError, EndPass, CrashDispatcher
  <1>4. ASSUME NEW e \in Events, createMany(e)
        PROVE  Delivery!Next
    <2> DEFINE q == [status |-> "PENDING", attempts |-> 0,
                     nextAttemptAt |-> now, updatedAt |-> now]
    <2>1. q \in Rows /\ DeliveryOf(q.status) = "open"
      BY DEF TypeOK, Rows, Statuses, Retryable, DeliveryOf
    <2>2. row' = [row EXCEPT ![e] = q] /\ row[e].status = "ABSENT" /\ applied' = applied
      BY <1>4 DEF createMany
    <2> HIDE DEF q
    <2>3. DeliveryState' = [DeliveryState EXCEPT ![e] = "open"]
      BY <2>1, <2>2, DeliveryKept
    <2>4. DeliveryState[e] = "absent"
      BY <2>2 DEF DeliveryState, DeliveryOf
    <2> QED BY <2>2, <2>3, <2>4 DEF Delivery!Submit, Delivery!Next
  <1>5. CASE (\E j \in JobIds : RecoverStalled(j)) \/ Tick
    <2>1. row' = row /\ applied' = applied
      BY <1>5 DEF RecoverStalled, Tick
    <2> QED BY <1>0, <2>1, DeliverySame
  <1> QED BY <1>0, <1>2, <1>3, <1>4, <1>5 DEF Next

(***************************************************************************)
(* The outbox implements the durable delivery a business transaction       *)
(* relies on: COMPLETED only after the operation returned successfully,    *)
(* COMPLETED and DEAD_LETTER final, nothing run that was not submitted,    *)
(* under every interleaving of crashes, lost locks, failed statements and  *)
(* late or duplicated jobs.                                                *)
(***************************************************************************)
THEOREM OutboxImplementsDelivery == Spec => ImplementsDelivery
  <1>1. Init => Delivery!Init
    <2> SUFFICES ASSUME Init PROVE Delivery!Init
      OBVIOUS
    <2>1. \A e \in Events : DeliveryOf(row[e].status) = "absent"
      BY DEF Init, DeliveryOf
    <2>2. DeliveryState = [e \in Events |-> "absent"]
      BY <2>1 DEF DeliveryState
    <2> QED BY <2>2 DEF Init, Delivery!Init
  <1>2. IInv /\ WorkInv /\ [Next]_vars => [Delivery!Next]_(Delivery!vars)
    <2>1. CASE UNCHANGED vars
      BY <2>1 DEF vars, Delivery!vars, DeliveryState
    <2> QED BY <2>1, DeliveryStep
  <1> QED BY <1>1, <1>2, OutboxInvariant, WorkInvariant, PTL
          DEF Spec, ImplementsDelivery, Delivery!Spec

-----------------------------------------------------------------------------
(* Prompt passes: nobody lets time pass with work in hand.  Then a row that  *)
(* is dispatched again was left by someone who met a fault.                  *)

(* A running pass began at this instant. *)
PassesNow ==
    \A d \in Dispatchers : pass[d].pc # "idle" => pass[d].startedAt = now

(* Whoever holds a claim holds the row's current attempt, and nobody else   *)
(* can claim the row; a claim being recorded has its job in the queue.      *)
ClaimsHeld ==
    \A d \in Dispatchers : HoldsClaim(d) =>
        /\ row[pass[d].event].attempts = pass[d].attempt
        /\ pass[d].event \notin Candidates
        /\ pass[d].pc = "mark" => job[Holding(d)].state # "none"

(* A job that is not over.                                                  *)
Open(j) == job[j].state \in {"waiting", "active"}

(* A job still in the queue keeps its row from being claimed again. *)
JobsTimely ==
    \A e \in Events : /\ row[e].status \in InFlight
                      /\ row[e].attempts \in Attempts
                      /\ Open(<<e, row[e].attempts>>)
                      => e \notin Candidates

(* A lock is held on an active job only, and its holder knows whether this  *)
(* is the job's last try.                                                   *)
LocksOk ==
    /\ \A j \in JobIds : job[j].owner # NoWorker => job[j].state = "active"
    /\ \A w \in Workers : work[w].pc # "idle" /\ job[Doing(w)].owner = w =>
          work[w].final = isFinalAttempt(Doing(w))

(* Somebody will still work on the delivery: the queue will hand the job    *)
(* out, a worker with the lock runs it, or a pass has the claim.            *)
Runs(w, j) == work[w].pc # "idle" /\ Doing(w) = j /\ job[j].owner = w

InQueue(j) == j \in JobIds /\ (job[j].state = "waiting" \/ \E w \in Workers : Runs(w, j))

InPass(j) == \E d \in Dispatchers : pass[d].pc \in {"add", "fail"} /\ Holding(d) = j

Served(e) == InQueue(<<e, row[e].attempts>>) \/ InPass(<<e, row[e].attempts>>)

(* A row that may be tried again has tries left; a row in flight that       *)
(* nobody serves has met a fault it has not been claimed for yet.           *)
BudgetOf(e) ==
    /\ row[e].attempts <= MaxAttempts + faults
    /\ row[e].status \in Retryable => row[e].attempts < MaxAttempts
    /\ row[e].status \in InFlight /\ ~Served(e) => row[e].attempts < MaxAttempts + faults

(* So for every row.                                                        *)
BudgetOk == \A e \in Events : BudgetOf(e)

(* The inductive invariant of prompt passes.                                *)
PromptInv ==
    /\ PassesNow /\ ClaimsHeld /\ JobsTimely /\ LocksOk
    /\ DispatchedMeansAccepted /\ BudgetOk

(* How a row moves when passes are prompt: a claim needs a due row, a retry *)
(* needs a try that is left, and DISPATCHED needs a job in the queue.       *)
RowMove(e) ==
    \/ row'[e] = row[e]
    \/ /\ row[e].status = "ABSENT" /\ row'[e].status = "PENDING" /\ row'[e].attempts = 0
    \/ /\ e \in Candidates /\ row'[e].status = "PROCESSING"
       /\ row'[e].attempts = row[e].attempts + 1 /\ row'[e].updatedAt = now
    \/ /\ row[e].status \in InFlight /\ row'[e].attempts = row[e].attempts
       /\ \/ row'[e].status \in Settled
          \/ /\ row'[e].status = "FAILED" /\ row'[e].nextAttemptAt > now
             /\ row'[e].attempts < MaxAttempts
    \/ /\ row[e].status = "PROCESSING" /\ row'[e].attempts = row[e].attempts
       /\ row'[e].status = "DISPATCHED" /\ row'[e].nextAttemptAt > now
       /\ row[e].attempts \in Attempts /\ job[<<e, row[e].attempts>>].state # "none"

RowMoves == \A e \in Events : RowMove(e)

(* A step that leaves the rows alone moves none of them.                    *)
LEMMA RowsStill == row' = row => RowMoves
  BY DEF RowMoves, RowMove

(* markCompleted moves its row as RowMove allows.                           *)
LEMMA CompletedMoves ==
    ASSUME TypeOK, NEW e \in Events, NEW a, markCompleted(e, a)
    PROVE  RowMoves
  <1>1. row[e] \in Rows
    BY DEF TypeOK
  <1>2. ASSUME AtAttempt(row[e], a)
        PROVE  RowMove(e)
    <2>1. row'[e] = CompletedRow(row[e])
      BY <1>2 DEF markCompleted, TypeOK
    <2> QED BY <1>1, <1>2, <2>1 DEF RowMove, CompletedRow, AtAttempt, Settled, Rows
  <1>3. \A x \in Events : row'[x] = row[x] \/ (x = e /\ AtAttempt(row[e], a))
    <2> SUFFICES ASSUME NEW x \in Events, ~(x = e /\ AtAttempt(row[e], a)) PROVE row'[x] = row[x]
      OBVIOUS
    <2>1. CASE x # e
      BY <2>1 DEF markCompleted, TypeOK
    <2>2. CASE ~(AtAttempt(row[e], a))
      BY <2>2 DEF markCompleted
    <2> QED BY <2>1, <2>2
  <1> QED BY <1>2, <1>3 DEF RowMoves, RowMove

(* markFailed only leaves a row to be retried while it has tries left.      *)
LEMMA FailedMoves ==
    ASSUME TypeOK, NEW e \in Events, NEW a \in Attempts, NEW terminal,
           markFailed(e, a, terminal)
    PROVE  RowMoves
  <1>1. row[e] \in Rows /\ now \in Nat
    BY DEF TypeOK
  <1>2. ASSUME AtAttempt(row[e], a)
        PROVE  RowMove(e)
    <2>1. row'[e] = FailedRow(row[e], a, terminal)
      BY <1>2 DEF markFailed, TypeOK
    <2>2. /\ row'[e].status = FailedStatus(a, terminal)
          /\ row'[e].attempts = row[e].attempts
          /\ row'[e].nextAttemptAt = now + Backoff[a]
      BY <1>1, <2>1 DEF FailedRow, Rows
    <2>3. now + Backoff[a] > now
      BY <1>1
    <2>4. \/ row'[e].status = "DEAD_LETTER"
          \/ row'[e].status = "FAILED" /\ a < MaxAttempts
      BY <2>2 DEF FailedStatus, Attempts
    <2> QED BY <1>2, <2>2, <2>3, <2>4 DEF RowMove, AtAttempt, Settled
  <1>3. \A x \in Events : row'[x] = row[x] \/ (x = e /\ AtAttempt(row[e], a))
    <2> SUFFICES ASSUME NEW x \in Events, ~(x = e /\ AtAttempt(row[e], a)) PROVE row'[x] = row[x]
      OBVIOUS
    <2>1. CASE x # e
      BY <2>1 DEF markFailed, TypeOK
    <2>2. CASE ~(AtAttempt(row[e], a))
      BY <2>2 DEF markFailed
    <2> QED BY <2>1, <2>2
  <1> QED BY <1>2, <1>3 DEF RowMoves, RowMove

(* The update after queue.add finds the row at the attempt that was added.  *)
LEMMA DispatchedMoves ==
    ASSUME TypeOK, PassInv, ClaimsHeld, NEW d \in Dispatchers, pass[d].pc = "mark",
           markDispatched(pass[d].event, pass[d].startedAt)
    PROVE  RowMoves
  <1> DEFINE e == pass[d].event
  <1>1. /\ e \in Events /\ pass[d].attempt \in Attempts /\ row[e] \in Rows
        /\ now \in Nat /\ pass[d].startedAt \in Nat
    BY DEF TypeOK, JobIds, Passes
  <1>2. pass[d].startedAt + DispatchStale > now
    BY <1>1 DEF PassInv
  <1>3. /\ row[e].attempts = pass[d].attempt
        /\ job[<<e, row[e].attempts>>].state # "none"
    BY DEF ClaimsHeld, HoldsClaim, Holding
  <1>4. ASSUME row[e].status = "PROCESSING"
        PROVE  RowMove(e)
    <2>1. row'[e] = DispatchedRow(row[e], pass[d].startedAt)
      BY <1>1, <1>4 DEF markDispatched, TypeOK
    <2>2. /\ row'[e].status = "DISPATCHED" /\ row'[e].attempts = row[e].attempts
          /\ row'[e].nextAttemptAt = pass[d].startedAt + DispatchStale
      BY <1>1, <2>1 DEF DispatchedRow, Rows
    <2> QED BY <1>1, <1>2, <1>3, <1>4, <2>2 DEF RowMove
  <1>5. \A x \in Events : row'[x] = row[x] \/ (x = e /\ row[e].status = "PROCESSING")
    <2> SUFFICES ASSUME NEW x \in Events, ~(x = e /\ row[e].status = "PROCESSING") PROVE row'[x] = row[x]
      OBVIOUS
    <2>1. CASE x # e
      BY <1>1, <2>1 DEF markDispatched, TypeOK
    <2>2. CASE ~(row[e].status = "PROCESSING")
      BY <2>2 DEF markDispatched
    <2> QED BY <2>1, <2>2
  <1> QED BY <1>4, <1>5 DEF RowMoves, RowMove

(* A claim matches the row the pass has read only while it is due.          *)
LEMMA ClaimMoves ==
    ASSUME TypeOK, PassesNow, NEW d \in Dispatchers, NEW s \in pass[d].todo,
           pass[d].pc = "scan", ClaimWhere(s.status, row[s.event], pass[d].startedAt),
           row' = [row EXCEPT ![s.event] = Claimed(@)]
    PROVE  RowMoves
  <1> DEFINE e == s.event
  <1>1. e \in Events /\ row[e] \in Rows
    BY DEF TypeOK, Passes, Snapshots
  <1>2. pass[d].startedAt = now
    BY DEF PassesNow
  <1>3. e \in Candidates
    BY <1>1, <1>2 DEF Candidates, ClaimWhere, Retryable
  <1>4. row'[e] = Claimed(row[e])
    BY <1>1 DEF TypeOK
  <1>5. RowMove(e)
    BY <1>1, <1>3, <1>4 DEF RowMove, Claimed, Rows
  <1>6. \A x \in Events : x # e => row'[x] = row[x]
    BY DEF TypeOK
  <1> QED BY <1>5, <1>6 DEF RowMoves, RowMove

(* Every step moves the rows as RowMove allows.                             *)
LEMMA RowsMove ==
    ASSUME TypeOK, PassInv, PassesNow, ClaimsHeld, Next
    PROVE  RowMoves
  <1>1. ASSUME NEW d \in Dispatchers, DispatcherStep(d) \/ DispatcherFault(d)
        PROVE  RowMoves
    <2>1. CASE ClaimEvent(d) \/ ClaimError(d)
      BY <2>1, ClaimMoves, RowsStill DEF ClaimEvent, ClaimError, NextInPass
    <2>2. CASE MarkDispatched(d) \/ MarkDispatchedError(d)
      BY <2>2, DispatchedMoves, RowsStill DEF MarkDispatched, MarkDispatchedError
    <2>3. CASE MarkDispatchFailed(d) \/ MarkDispatchFailedError(d)
      <3>1. pass[d].event \in Events /\ pass[d].attempt \in Attempts
        BY <2>3 DEF TypeOK, JobIds, MarkDispatchFailed, MarkDispatchFailedError
      <3> QED BY <2>3, <3>1, FailedMoves, RowsStill
              DEF MarkDispatchFailed, MarkDispatchFailedError
    <2>4. CASE \/ StartPass(d) \/ SkipEvent(d) \/ dispatchEvent(d) \/ EndPass(d)
               \/ DispatchError(d) \/ CrashDispatcher(d)
      <3>1. row' = row
        BY <2>4 DEF StartPass, SkipEvent, dispatchEvent, EndPass, DispatchError,
           CrashDispatcher
      <3> QED BY <3>1, RowsStill
    <2> QED BY <1>1, <2>1, <2>2, <2>3, <2>4 DEF DispatcherStep, DispatcherFault
  <1>2. ASSUME NEW w \in Workers, WorkerStep(w) \/ WorkerFault(w)
        PROVE  RowMoves
    <2>1. ASSUME work[w].pc # "idle", MarksRow(w)
          PROVE  RowMoves
      BY <2>1, DoingType, RowsStill, CompletedMoves, FailedMoves DEF MarksRow
    <2>2. CASE \/ MarkCompleted(w) \/ MarkCompletedError(w) \/ MarkFailed(w)
               \/ MarkFailedError(w) \/ MarkFatal(w) \/ MarkFatalError(w)
      <3>1. work[w].pc # "idle" /\ MarksRow(w)
        BY <2>2 DEF MarkCompleted, MarkCompletedError, MarkFailed, MarkFailedError,
           MarkFatal, MarkFatalError, MarksRow
      <3> QED BY <2>1, <3>1
    <2>3. CASE \/ TakeJob(w) \/ resolveExecutableEvent(w) \/ OperationSucceeds(w)
               \/ OperationThrows(w) \/ OperationRefuses(w) \/ ResolveError(w)
               \/ CrashWorker(w) \/ LoseLock(w)
      <3>1. row' = row
        BY <2>3 DEF TakeJob, resolveExecutableEvent, OperationSucceeds, OperationThrows,
           OperationRefuses, ResolveError, CrashWorker, LoseLock
      <3> QED BY <3>1, RowsStill
    <2> QED BY <1>2, <2>2, <2>3 DEF WorkerStep, WorkerFault
  <1>3. ASSUME NEW e \in Events, createMany(e)
        PROVE  RowMoves
    BY <1>3 DEF createMany, TypeOK, RowMoves, RowMove
  <1>4. ASSUME NEW j \in JobIds, RecoverStalled(j)
        PROVE  RowMoves
    BY <1>4, RowsStill DEF RecoverStalled
  <1>5. CASE Tick
    BY <1>5, RowsStill DEF Tick
  <1> QED BY <1>1, <1>2, <1>3, <1>4, <1>5 DEF Next

(* The clock only moves by a Tick.                                          *)
LEMMA ClockMoves ==
    ASSUME Next
    PROVE  now' = now \/ Tick
  BY DEF Next, DispatcherStep, DispatcherFault, StartPass, ClaimEvent, SkipEvent,
     dispatchEvent, MarkDispatched, MarkDispatchFailed, EndPass, ClaimError,
     DispatchError, MarkDispatchedError, MarkDispatchFailedError, CrashDispatcher,
     WorkerStep, WorkerFault, TakeJob, resolveExecutableEvent, OperationSucceeds,
     OperationThrows, OperationRefuses, MarkCompleted, MarkFailed, MarkFatal,
     ResolveError, MarkCompletedError, MarkFailedError, MarkFatalError, CrashWorker,
     LoseLock, RecoverStalled, createMany

(* A row that moves is not due again at the instant it moved, unless it was *)
(* only just inserted.                                                      *)
LEMMA DueAfter ==
    ASSUME TypeOK, TypeOK', NEW e \in Events, RowMove(e), now' = now
    PROVE  \/ row'[e] = row[e] /\ (e \in Candidates' <=> e \in Candidates)
           \/ /\ row[e].status = "ABSENT" /\ row'[e].status = "PENDING"
              /\ row'[e].attempts = 0
           \/ e \notin Candidates'
  <1>1. CASE row'[e] = row[e]
    BY <1>1 DEF Candidates
  <1>2. CASE row'[e] # row[e]
    <2>1. row'[e] \in Rows /\ now \in Nat
      BY DEF TypeOK
    <2>2. row'[e].updatedAt \in Nat /\ row'[e].nextAttemptAt \in Nat
      BY <2>1 DEF Rows
    <2>3. e \in Candidates' => ClaimWhere(row'[e].status, row'[e], now)
      BY DEF Candidates
    <2> QED BY <1>2, <2>1, <2>2, <2>3 DEF RowMove, ClaimWhere, Retryable, Settled
  <1> QED BY <1>1, <1>2

(* How a job moves in the queue. *)
JobMove(j) ==
    \/ job'[j] = job[j]
    \/ /\ job[j].state = "none" /\ job'[j].state = "waiting" /\ job'[j].owner = NoWorker
       /\ \E d \in Dispatchers : pass[d].pc = "add" /\ Holding(d) = j
    \/ /\ job[j].state = "waiting" /\ job'[j].state = "active" /\ job'[j].made = job[j].made
       /\ \E w \in Workers : work[w].pc = "idle" /\ job'[j].owner = w
    \/ /\ job[j].state = "active" /\ job'[j].owner = NoWorker

JobMoves == \A j \in JobIds : JobMove(j)

(* How a worker moves: it goes on, it stops, or it takes a job. *)
WorkMove(w) ==
    \/ work'[w].pc = "idle"
    \/ /\ work[w].pc # "idle" /\ work'[w].pc # "idle" /\ work'[w].final = work[w].final
       /\ Doing(w)' = Doing(w)
    \/ /\ work[w].pc = "idle" /\ Doing(w)' \in JobIds
       /\ job'[Doing(w)'].made = job[Doing(w)'].made
       /\ work'[w].final = isFinalAttempt(Doing(w)')

WorkMoves == \A w \in Workers : WorkMove(w)

(* Leaving the queue alone moves no job.                                    *)
LEMMA QueueStill == job' = job => JobMoves
  BY DEF JobMoves, JobMove

(* Leaving the workers alone moves none of them.                            *)
LEMMA WorkersStill == work' = work => WorkMoves
  BY DEF WorkMoves, WorkMove, Doing

(* One job rewritten is one job moved.                                      *)
LEMMA OneJobMoves ==
    ASSUME TypeOK, NEW j \in JobIds, NEW k, job' = [job EXCEPT ![j] = k],
           job'[j] = k => JobMove(j)
    PROVE  JobMoves
  BY DEF TypeOK, JobMoves, JobMove

(* One worker rewritten is one worker moved.                                *)
LEMMA OneWorkerMoves ==
    ASSUME TypeOK, NEW w \in Workers, NEW k, work' = [work EXCEPT ![w] = k],
           work'[w] = k => WorkMove(w)
    PROVE  WorkMoves
  <1>1. \A x \in Workers \ {w} : work'[x] = work[x]
    BY DEF TypeOK
  <1>2. \A x \in Workers \ {w} : WorkMove(x)
    BY <1>1 DEF WorkMove, Doing
  <1>3. work'[w] = k
    BY DEF TypeOK
  <1> QED BY <1>2, <1>3 DEF WorkMoves

(* queue.add moves the job it names, if the queue does not know it.         *)
LEMMA EnqueueMoves ==
    ASSUME TypeOK, NEW d \in Dispatchers, pass[d].pc = "add",
           job' = Enqueued(Holding(d)) \/ job' = job
    PROVE  JobMoves
  <1>1. Holding(d) \in JobIds
    BY DEF TypeOK, Holding
  <1> DEFINE k == [NoJob EXCEPT !.state = "waiting"]
  <1>2. k.state = "waiting" /\ k.owner = NoWorker
    BY DEF NoJob
  <1>3. CASE job[Holding(d)].state = "none" /\ job' = Enqueued(Holding(d))
    <2>1. job' = [job EXCEPT ![Holding(d)] = k]
      BY <1>3 DEF Enqueued
    <2>2. job'[Holding(d)] = k => JobMove(Holding(d))
      BY <1>2, <1>3 DEF JobMove
    <2> HIDE DEF k
    <2> QED BY <1>1, <2>1, <2>2, OneJobMoves
  <1>4. CASE job[Holding(d)].state # "none" \/ job' = job
    BY <1>4, QueueStill DEF Enqueued
  <1> QED BY <1>3, <1>4

(* A worker stops, whatever became of the job.                              *)
LEMMA ReturnMoves ==
    ASSUME TypeOK, LocksOk, NEW w \in Workers, work[w].pc # "idle",
           JobReturns(w) \/ JobThrows(w)
    PROVE  JobMoves /\ WorkMoves
  <1>1. Doing(w) \in JobIds /\ job[Doing(w)] \in Jobs
    BY DoingType
  <1>2. work' = [work EXCEPT ![w] = IdleWork]
    BY DEF JobReturns, JobThrows
  <1>3. IdleWork.pc = "idle"
    BY DEF IdleWork
  <1>4. work'[w] = IdleWork => WorkMove(w)
    BY <1>3 DEF WorkMove
  <1>5. WorkMoves
    BY <1>2, <1>4, OneWorkerMoves
  <1>6. CASE job[Doing(w)].owner # w
    BY <1>5, <1>6, QueueStill DEF JobReturns, JobThrows
  <1>7. CASE job[Doing(w)].owner = w
    <2>1. job[Doing(w)].state = "active"
      BY <1>1, <1>7 DEF LocksOk
    <2> DEFINE j == Doing(w)
    <2>2. FinishedJob.owner = NoWorker /\ Retried(job[j]).owner = NoWorker
      BY <1>1 DEF FinishedJob, Retried, Jobs
    <2>3. PICK k \in {FinishedJob, Retried(job[j])} : job' = [job EXCEPT ![j] = k]
      BY <1>7 DEF JobReturns, JobThrows
    <2>4. job'[j] = k => JobMove(j)
      BY <2>1, <2>2 DEF JobMove
    <2> HIDE DEF j
    <2>5. j \in JobIds
      BY <1>1 DEF j
    <2>6. JobMoves
      BY <2>3, <2>4, <2>5, OneJobMoves
    <2> QED BY <1>5, <2>6
  <1> QED BY <1>6, <1>7

(* A worker goes on with its job.                                           *)
LEMMA GoingOnMoves ==
    ASSUME TypeOK, NEW w \in Workers, work[w].pc # "idle", job' = job,
           NEW pc \in {"run", "complete", "failed", "fatal"}, At(w, pc)
    PROVE  JobMoves /\ WorkMoves
  <1> DEFINE k == [work[w] EXCEPT !.pc = pc]
  <1>1. work' = [work EXCEPT ![w] = k]
    BY DEF At
  <1>2. /\ k.pc = pc /\ k.final = work[w].final
        /\ k.event = work[w].event /\ k.attempt = work[w].attempt
    BY DEF TypeOK, Works
  <1>3. work'[w] = k => WorkMove(w)
    BY <1>2 DEF WorkMove, Doing
  <1> HIDE DEF k
  <1> QED BY <1>1, <1>3, OneWorkerMoves, QueueStill

(* A worker takes a waiting job.                                            *)
LEMMA TakeMoves ==
    ASSUME TypeOK, NEW w \in Workers, TakeJob(w)
    PROVE  JobMoves /\ WorkMoves
  <1>1. PICK j \in JobIds :
            /\ work[w].pc = "idle" /\ job[j].state = "waiting"
            /\ job' = [job EXCEPT ![j].state = "active", ![j].owner = w]
            /\ work' = [work EXCEPT ![w] = [pc |-> "resolve", event |-> j[1],
                                  attempt |-> j[2], final |-> isFinalAttempt(j)]]
    BY DEF TakeJob
  <1> DEFINE k == [job[j] EXCEPT !.state = "active", !.owner = w]
             v == [pc |-> "resolve", event |-> j[1], attempt |-> j[2],
                   final |-> isFinalAttempt(j)]
  <1>2. k.state = "active" /\ k.owner = w /\ k.made = job[j].made
    BY DEF TypeOK, Jobs
  <1>3. job' = [job EXCEPT ![j] = k] /\ work' = [work EXCEPT ![w] = v]
    BY <1>1
  <1>4. /\ v.pc = "resolve" /\ <<v.event, v.attempt>> = j
        /\ v.final = isFinalAttempt(j)
    BY DEF JobIds
  <1> HIDE DEF k, v
  <1>5. job'[j] = k /\ work'[w] = v
    BY <1>3 DEF TypeOK
  <1>6. JobMove(j)
    BY <1>1, <1>2, <1>5 DEF JobMove
  <1>7. WorkMove(w)
    BY <1>1, <1>2, <1>4, <1>5 DEF WorkMove, Doing
  <1> QED BY <1>3, <1>6, <1>7, OneJobMoves, OneWorkerMoves

(* Every step moves jobs and workers as said.                               *)
LEMMA QueueMoves ==
    ASSUME TypeOK, LocksOk, Next
    PROVE  JobMoves /\ WorkMoves
  <1>1. ASSUME NEW d \in Dispatchers, DispatcherStep(d) \/ DispatcherFault(d)
        PROVE  JobMoves /\ WorkMoves
    <2>1. work' = work
      BY <1>1 DEF DispatcherStep, DispatcherFault, StartPass, ClaimEvent, SkipEvent,
         dispatchEvent, MarkDispatched, MarkDispatchFailed, EndPass, ClaimError,
         DispatchError, MarkDispatchedError, MarkDispatchFailedError, CrashDispatcher
    <2>2. CASE dispatchEvent(d) \/ DispatchError(d)
      BY <2>1, <2>2, EnqueueMoves, WorkersStill DEF dispatchEvent, DispatchError
    <2>3. CASE ~(dispatchEvent(d) \/ DispatchError(d))
      <3>1. job' = job
        BY <1>1, <2>3 DEF DispatcherStep, DispatcherFault, StartPass, ClaimEvent, SkipEvent,
           MarkDispatched, MarkDispatchFailed, EndPass, ClaimError,
           MarkDispatchedError, MarkDispatchFailedError, CrashDispatcher
      <3> QED BY <2>1, <3>1, QueueStill, WorkersStill
    <2> QED BY <2>2, <2>3
  <1>2. ASSUME NEW w \in Workers, WorkerStep(w) \/ WorkerFault(w)
        PROVE  JobMoves /\ WorkMoves
    <2>1. CASE TakeJob(w)
      BY <2>1, TakeMoves
    <2>2. CASE work[w].pc # "idle" /\ (JobReturns(w) \/ JobThrows(w))
      BY <2>2, ReturnMoves
    <2>3. ASSUME work[w].pc # "idle", job' = job,
                 NEW pc \in {"run", "complete", "failed", "fatal"}, At(w, pc)
          PROVE  JobMoves /\ WorkMoves
      BY <2>3, GoingOnMoves
    <2>4. CASE CrashWorker(w)
      <3>1. IdleWork.pc = "idle"
        BY DEF IdleWork
      <3>2. work'[w] = IdleWork => WorkMove(w)
        BY <3>1 DEF WorkMove
      <3> QED BY <2>4, <3>2, OneWorkerMoves, QueueStill DEF CrashWorker
    <2>5. CASE LoseLock(w)
      <3> DEFINE k == [job[Doing(w)] EXCEPT !.owner = NoWorker]
      <3>1. Doing(w) \in JobIds /\ job[Doing(w)] \in Jobs /\ job[Doing(w)].owner = w
        BY <2>5, DoingType DEF LoseLock
      <3>2. job[Doing(w)].state = "active"
        BY <3>1 DEF LocksOk
      <3>3. k.owner = NoWorker
        BY <3>1 DEF Jobs
      <3>4. job' = [job EXCEPT ![Doing(w)] = k]
        BY <2>5 DEF LoseLock
      <3> HIDE DEF k
      <3>5. job'[Doing(w)] = k => JobMove(Doing(w))
        BY <3>2, <3>3 DEF JobMove
      <3>6. JobMoves
        BY <3>1, <3>4, <3>5, OneJobMoves
      <3> QED BY <2>5, <3>6, WorkersStill DEF LoseLock
    <2>6. CASE resolveExecutableEvent(w) \/ ResolveError(w)
      BY <2>2, <2>3, <2>6 DEF resolveExecutableEvent, ResolveError
    <2>7. CASE OperationSucceeds(w) \/ OperationThrows(w) \/ OperationRefuses(w)
      BY <2>2, <2>3, <2>7 DEF OperationSucceeds, OperationThrows, OperationRefuses
    <2>8. CASE \/ MarkCompleted(w) \/ MarkCompletedError(w) \/ MarkFailed(w)
               \/ MarkFailedError(w) \/ MarkFatal(w) \/ MarkFatalError(w)
      BY <2>2, <2>8 DEF MarkCompleted, MarkCompletedError, MarkFailed, MarkFailedError,
         MarkFatal, MarkFatalError
    <2> QED BY <1>2, <2>1, <2>4, <2>5, <2>6, <2>7, <2>8 DEF WorkerStep, WorkerFault
  <1>3. ASSUME NEW j \in JobIds, RecoverStalled(j)
        PROVE  JobMoves /\ WorkMoves
    <2> DEFINE k == IF job[j].stalls >= MaxStalled THEN FinishedJob ELSE Unstalled(job[j])
    <2>1. job[j] \in Jobs /\ job[j].state = "active"
      BY <1>3 DEF RecoverStalled, TypeOK
    <2>2. k.owner = NoWorker
      BY <2>1 DEF FinishedJob, Unstalled, Jobs
    <2>3. job' = [job EXCEPT ![j] = k] /\ work' = work
      BY <1>3 DEF RecoverStalled
    <2> HIDE DEF k
    <2>4. job'[j] = k => JobMove(j)
      BY <2>1, <2>2 DEF JobMove
    <2> QED BY <2>3, <2>4, OneJobMoves, WorkersStill
  <1>4. CASE (\E e \in Events : createMany(e)) \/ Tick
    BY <1>4, QueueStill, WorkersStill DEF createMany, Tick
  <1> QED BY <1>1, <1>2, <1>3, <1>4 DEF Next

(* Locks stay with active jobs, and their holders know the last try.        *)
LEMMA LocksStep ==
    ASSUME TypeOK, TypeOK', LocksOk, JobMoves, WorkMoves
    PROVE  LocksOk'
  <1>1. ASSUME NEW j \in JobIds, job'[j].owner # NoWorker
        PROVE  job'[j].state = "active"
    BY <1>1 DEF JobMoves, JobMove, LocksOk
  <1>2. ASSUME NEW w \in Workers, work'[w].pc # "idle", job'[Doing(w)'].owner = w
        PROVE  work'[w].final = (job'[Doing(w)'].made + 1 >= JobAttempts)
    <2> DEFINE j == Doing(w)'
    <2>1. j \in JobIds
      BY <1>2 DEF TypeOK, Doing
    <2>2. JobMove(j) /\ WorkMove(w)
      BY <2>1 DEF JobMoves, WorkMoves
    <2>3. CASE work[w].pc = "idle"
      BY <1>2, <2>2, <2>3 DEF WorkMove, isFinalAttempt
    <2>4. CASE work[w].pc # "idle"
      <3>1. j = Doing(w) /\ work'[w].final = work[w].final
        BY <1>2, <2>2, <2>4 DEF WorkMove
      <3>2. job'[j] = job[j]
        BY <1>2, <2>2, <2>4 DEF JobMove
      <3>3. work[w].final = isFinalAttempt(Doing(w))
        BY <1>2, <2>4, <3>1, <3>2 DEF LocksOk
      <3> QED BY <3>1, <3>2, <3>3 DEF isFinalAttempt
    <2> QED BY <2>3, <2>4
  <1>3. \A w \in Workers : work'[w].pc # "idle" /\ job'[Doing(w)'].owner = w =>
            work'[w].final = (job'[Doing(w)'].made + 1 >= JobAttempts)
    BY <1>2
  <1> QED BY <1>1, <1>3 DEF LocksOk, isFinalAttempt

(* Only a dispatcher that has just added its job goes on to record it.      *)
LEMMA AddedIsQueued ==
    ASSUME TypeOK, Next, NEW d \in Dispatchers, pass[d].pc # "mark", pass'[d].pc = "mark"
    PROVE  pass[d].pc = "add" /\ job' = Enqueued(Holding(d))
  <1>1. (pass' = pass) \/ \E x \in Dispatchers : DispatcherStep(x) \/ DispatcherFault(x)
    BY DEF Next, WorkerStep, WorkerFault, TakeJob, resolveExecutableEvent, OperationSucceeds,
       OperationThrows, OperationRefuses, MarkCompleted, MarkFailed, MarkFatal,
       ResolveError, MarkCompletedError, MarkFailedError, MarkFatalError, CrashWorker,
       LoseLock, RecoverStalled, createMany, Tick
  <1>2. PICK x \in Dispatchers : DispatcherStep(x) \/ DispatcherFault(x)
    BY <1>1
  <1>3. pass[d] \in Passes /\ pass[x] \in Passes
    BY DEF TypeOK
  <1>4. d = x
    <2>1. d # x => pass'[d] = pass[d]
      BY <1>2 DEF TypeOK, DispatcherStep, DispatcherFault, StartPass, ClaimEvent,
         SkipEvent, dispatchEvent, MarkDispatched, MarkDispatchFailed, EndPass, ClaimError,
         DispatchError, MarkDispatchedError, MarkDispatchFailedError, CrashDispatcher,
         Advance, GoTo, NextEvent
    <2> QED BY <2>1
  <1>5. ~(StartPass(d) \/ ClaimEvent(d) \/ SkipEvent(d) \/ ClaimError(d))
    BY DEF TypeOK, StartPass, ClaimEvent, SkipEvent, ClaimError, Advance
  <1>6. ~(MarkDispatched(d) \/ MarkDispatchFailed(d) \/ MarkDispatchFailedError(d))
    <2>1. NextEvent(d) => pass'[d].pc = "scan"
      BY <1>3 DEF TypeOK, NextEvent, Passes
    <2> QED BY <2>1 DEF MarkDispatched, MarkDispatchFailed, MarkDispatchFailedError
  <1>7. ~(EndPass(d) \/ CrashDispatcher(d))
    BY DEF TypeOK, EndPass, CrashDispatcher, IdlePass
  <1>8. ~(DispatchError(d) \/ MarkDispatchedError(d))
    BY <1>3 DEF TypeOK, DispatchError, MarkDispatchedError, GoTo, Passes
  <1>9. dispatchEvent(d)
    BY <1>2, <1>4, <1>5, <1>6, <1>7, <1>8 DEF DispatcherStep, DispatcherFault
  <1> QED BY <1>9 DEF dispatchEvent

(* A holder keeps its row at its attempt, and out of everybody's reach.     *)
LEMMA HeldStep ==
    ASSUME IInv, ClaimsHeld, Next, TypeOK', RowMoves, JobSteps, now' = now
    PROVE  ClaimsHeld'
  <1> USE DEF IInv
  <1> SUFFICES ASSUME NEW d \in Dispatchers, HoldsClaim(d)'
               PROVE  /\ row'[pass'[d].event].attempts = pass'[d].attempt
                      /\ pass'[d].event \notin Candidates'
                      /\ pass'[d].pc = "mark" => job'[Holding(d)'].state # "none"
    BY DEF ClaimsHeld
  <1>1. CASE ClaimEvent(d)
    <2>1. PICK e \in Events :
              /\ pass'[d].pc = "add" /\ Holding(d)' = <<e, row[e].attempts + 1>>
              /\ row'[e].attempts = row[e].attempts + 1
      BY <1>1, ClaimIsFresh
    <2>2. pass'[d].event = e /\ pass'[d].attempt = row[e].attempts + 1
      BY <2>1 DEF Holding
    <2>3. row[e].attempts \in Nat
      BY DEF TypeOK, Rows
    <2>4. e \notin Candidates'
      BY <2>1, <2>3, DueAfter DEF RowMoves
    <2> QED BY <2>1, <2>2, <2>4
  <1>2. CASE ~ClaimEvent(d)
    <2>1. HoldsClaim(d) /\ Holding(d)' = Holding(d)
      BY <1>2, OtherStepsKeepClaims DEF KeepsClaim
    <2> DEFINE e == pass[d].event
    <2>2. pass'[d].event = e /\ pass'[d].attempt = pass[d].attempt
      BY <2>1 DEF Holding
    <2>3. /\ e \in Events /\ pass[d].attempt \in Attempts /\ Holding(d) \in JobIds
          /\ row[e].attempts = pass[d].attempt /\ e \notin Candidates
      BY <2>1 DEF TypeOK, HoldsClaim, Holding, JobIds, ClaimsHeld
    <2>4. row[e].status # "ABSENT"
      BY <2>3 DEF AttemptInv, Attempts
    <2>5. row'[e].attempts = row[e].attempts
      BY <2>3, <2>4 DEF RowMoves, RowMove
    <2>6. e \notin Candidates'
      BY <2>3, <2>4, DueAfter DEF RowMoves
    <2>7. pass'[d].pc = "mark" => job'[Holding(d)].state # "none"
      <3> SUFFICES ASSUME pass'[d].pc = "mark" PROVE job'[Holding(d)].state # "none"
        OBVIOUS
      <3>1. CASE pass[d].pc = "mark"
        BY <2>1, <2>3, <3>1 DEF ClaimsHeld, JobSteps
      <3>2. CASE pass[d].pc # "mark"
        <4>1. job' = Enqueued(Holding(d))
          BY <3>2, AddedIsQueued
        <4> QED BY <2>3, <4>1 DEF TypeOK, Enqueued, NoJob
      <3> QED BY <3>1, <3>2
    <2> QED BY <2>1, <2>2, <2>3, <2>5, <2>6, <2>7
  <1> QED BY <1>1, <1>2

(* A job in the queue keeps its row from being due.                         *)
LEMMA TimelyStep ==
    ASSUME TypeOK, TypeOK', ClaimsHeld, JobsTimely, RowMoves, JobMoves, now' = now
    PROVE  JobsTimely'
  <1> SUFFICES ASSUME NEW e \in Events, row'[e].status \in InFlight,
                      row'[e].attempts \in Attempts,
                      job'[<<e, row'[e].attempts>>].state \in {"waiting", "active"}
               PROVE  e \notin Candidates'
    BY DEF JobsTimely, Open
  <1>1. CASE row'[e] = row[e] /\ (e \in Candidates' <=> e \in Candidates)
    <2> DEFINE j == <<e, row[e].attempts>>
    <2>1. j \in JobIds /\ job'[j].state \in {"waiting", "active"}
      BY <1>1 DEF JobIds
    <2>2. JobMove(j)
      BY <2>1 DEF JobMoves
    <2>3. CASE job[j].state \in {"waiting", "active"}
      BY <1>1, <2>3 DEF JobsTimely, Open
    <2>4. ASSUME NEW d \in Dispatchers, pass[d].pc = "add", Holding(d) = j
          PROVE  e \notin Candidates'
      BY <1>1, <2>4 DEF ClaimsHeld, HoldsClaim, Holding
    <2> QED BY <2>1, <2>2, <2>3, <2>4 DEF JobMove
  <1>2. CASE row'[e].status = "PENDING"
    BY <1>2 DEF InFlight
  <1> QED BY <1>1, <1>2, DueAfter DEF RowMoves

(* A row becomes DISPATCHED with its job in the queue, and jobs stay known. *)
LEMMA AcceptedStep ==
    ASSUME TypeOK, DispatchedMeansAccepted, RowMoves, JobSteps
    PROVE  DispatchedMeansAccepted'
  <1> SUFFICES ASSUME NEW e \in Events, row'[e].status = "DISPATCHED"
               PROVE  /\ row'[e].attempts \in Attempts
                      /\ job'[<<e, row'[e].attempts>>].state # "none"
    BY DEF DispatchedMeansAccepted
  <1>1. /\ row'[e].attempts = row[e].attempts /\ row[e].attempts \in Attempts
        /\ job[<<e, row[e].attempts>>].state # "none"
    BY DEF RowMoves, RowMove, DispatchedMeansAccepted, Settled
  <1>2. <<e, row[e].attempts>> \in JobIds
    BY <1>1 DEF JobIds
  <1> QED BY <1>1, <1>2 DEF JobSteps

(* A pass begins at this instant and lasts no longer.                       *)
LEMMA PassesNowStep ==
    ASSUME PassesNow, PassSteps, now' = now
    PROVE  PassesNow'
  BY DEF PassesNow, PassSteps, PassStep

-----------------------------------------------------------------------------
(* Who serves a delivery. *)

(* A due row in flight is served by nobody.                                 *)
LEMMA DueIsUnserved ==
    ASSUME TypeOK, ClaimsHeld, JobsTimely, LocksOk, NEW e \in Candidates,
           row[e].status \in InFlight
    PROVE  ~Served(e)
  <1> DEFINE j == <<e, row[e].attempts>>
  <1>1. e \in Events
    BY DEF Candidates
  <1>2. ASSUME InQueue(j)
        PROVE  FALSE
    <2>1. row[e].attempts \in Attempts /\ j \in JobIds
      BY <1>1, <1>2 DEF InQueue, JobIds
    <2>2. job[j].state \in {"waiting", "active"}
      BY <1>2, <2>1 DEF InQueue, Runs, LocksOk
    <2> QED BY <1>1, <2>1, <2>2 DEF JobsTimely, Open
  <1>3. ASSUME InPass(j)
        PROVE  FALSE
    BY <1>3 DEF InPass, ClaimsHeld, HoldsClaim, Holding
  <1> QED BY <1>2, <1>3 DEF Served

(* A worker that stops leaves every other job to whoever serves it.         *)
LEMMA OthersServed ==
    ASSUME TypeOK, NEW w \in Workers, work[w].pc # "idle", JobReturns(w) \/ JobThrows(w),
           NEW j, InQueue(j), ~Runs(w, j)
    PROVE  InQueue(j)'
  <1>1. Doing(w) \in JobIds /\ j \in JobIds
    BY DoingType DEF InQueue
  <1>2. \A x \in Workers \ {w} : work'[x] = work[x]
    BY DEF JobReturns, JobThrows, TypeOK
  <1>3. job'[j] = job[j]
    <2>1. CASE Doing(w) # j
      BY <1>1, <2>1 DEF JobReturns, JobThrows, TypeOK
    <2>2. CASE job[Doing(w)].owner # w
      BY <2>2 DEF JobReturns, JobThrows
    <2> QED BY <2>1, <2>2 DEF Runs
  <1>4. CASE job[j].state = "waiting"
    BY <1>1, <1>3, <1>4 DEF InQueue
  <1>5. ASSUME NEW x \in Workers, Runs(x, j)
        PROVE  InQueue(j)'
    <2>1. x # w
      BY <1>5
    <2>2. Runs(x, j)'
      BY <1>2, <1>3, <1>5, <2>1 DEF Runs, Doing
    <2> QED BY <1>1, <2>2 DEF InQueue
  <1> QED BY <1>4, <1>5 DEF InQueue

(* Without a fault, a delivery that stays in flight stays in the queue's or *)
(* a worker's hands.                                                        *)
LEMMA QueueKept ==
    ASSUME TypeOK, LocksOk, Next, faults' = faults, NEW e \in Events,
           row'[e].status \in InFlight, row'[e].attempts = row[e].attempts,
           row[e].status \in InFlight, InQueue(<<e, row[e].attempts>>)
    PROVE  InQueue(<<e, row[e].attempts>>)'
  <1> DEFINE a == row[e].attempts
             j == <<e, a>>
  <1>1. /\ j \in JobIds /\ job[j] \in Jobs /\ job[j].state \in {"waiting", "active"}
        /\ faults \in Nat /\ a \in Attempts
    BY DEF InQueue, Runs, LocksOk, TypeOK, JobIds
  <1>2. ASSUME work' = work, job'[j] = job[j]
        PROVE  InQueue(j)'
    BY <1>2 DEF InQueue, Runs, Doing
  <1>3. ASSUME NEW d \in Dispatchers, DispatcherStep(d) \/ DispatcherFault(d)
        PROVE  InQueue(j)'
    <2>1. work' = work /\ (job' = job \/ job' = Enqueued(Holding(d)))
      BY <1>3 DEF DispatcherStep, DispatcherFault, StartPass, ClaimEvent, SkipEvent,
         dispatchEvent, MarkDispatched, MarkDispatchFailed, EndPass, ClaimError,
         DispatchError, MarkDispatchedError, MarkDispatchFailedError, CrashDispatcher
    <2>2. job'[j] = job[j]
      BY <1>1, <2>1 DEF Enqueued, TypeOK
    <2> QED BY <1>2, <2>1, <2>2
  <1>4. ASSUME NEW k \in JobIds, RecoverStalled(k)
        PROVE  InQueue(j)'
    <2>1. work' = work
      BY <1>4 DEF RecoverStalled
    <2>2. CASE k # j
      <3>1. job'[j] = job[j]
        BY <1>4, <2>2 DEF RecoverStalled, TypeOK
      <3> QED BY <1>2, <2>1, <3>1
    <2>3. CASE k = j
      BY <1>4, <2>3 DEF RecoverStalled, InQueue, Runs
    <2> QED BY <2>2, <2>3
  <1>5. CASE (\E x \in Events : createMany(x)) \/ Tick
    BY <1>2, <1>5 DEF createMany, Tick
  <1>6. ASSUME NEW w \in Workers, WorkerStep(w) \/ WorkerFault(w)
        PROVE  InQueue(j)'
    <2>1. WorkerStep(w)
      <3>1. WorkerFault(w) => faults' = faults + 1
        BY DEF WorkerFault, ResolveError, MarkCompletedError, MarkFailedError,
           MarkFatalError, CrashWorker, LoseLock, Fault
      <3>2. faults + 1 # faults
        BY <1>1
      <3> QED BY <1>6, <3>1, <3>2
    <2>2. ASSUME work[w].pc # "idle", JobReturns(w) \/ JobThrows(w), ~Runs(w, j)
          PROVE  InQueue(j)'
      BY <2>2, OthersServed
    <2>3. ASSUME work[w].pc # "idle", job' = job,
                 NEW pc \in {"run", "complete", "failed", "fatal"}, At(w, pc)
          PROVE  InQueue(j)'
      <3>1. \A x \in Workers : /\ work[x].pc # "idle" => work'[x].pc # "idle"
                               /\ Doing(x)' = Doing(x)
        <4> TAKE x \in Workers
        <4>1. work[x] \in Works
          BY DEF TypeOK
        <4>2. work'[x] = IF x = w THEN [work[x] EXCEPT !.pc = pc] ELSE work[x]
          BY <2>3 DEF At, TypeOK
        <4> QED BY <4>1, <4>2 DEF Doing, Works
      <3>2. \A x \in Workers : Runs(x, j) => Runs(x, j)'
        BY <2>3, <3>1 DEF Runs
      <3> QED BY <2>3, <3>2 DEF InQueue
    <2>4. CASE TakeJob(w)
      <3>1. PICK k \in JobIds :
                /\ work[w].pc = "idle" /\ job[k].state = "waiting"
                /\ job' = [job EXCEPT ![k].state = "active", ![k].owner = w]
                /\ work' = [work EXCEPT ![w] = [pc |-> "resolve", event |-> k[1],
                                      attempt |-> k[2], final |-> isFinalAttempt(k)]]
        BY <2>4 DEF TakeJob
      <3>2. CASE k = j
        <4>1. job'[j].owner = w
          BY <1>1, <3>1, <3>2 DEF TypeOK, Jobs
        <4>2. work'[w].pc = "resolve" /\ Doing(w)' = j
          BY <3>1, <3>2 DEF TypeOK, Doing
        <4>3. Runs(w, j)'
          BY <4>1, <4>2 DEF Runs
        <4> QED BY <1>1, <4>3 DEF InQueue
      <3>3. CASE k # j
        <4>1. job'[j] = job[j]
          BY <1>1, <3>1, <3>3 DEF TypeOK
        <4>2. \A x \in Workers : Runs(x, j) => Runs(x, j)'
          BY <3>1, <4>1 DEF Runs, Doing, TypeOK
        <4> QED BY <4>1, <4>2 DEF InQueue
      <3> QED BY <3>2, <3>3
    <2>5. CASE resolveExecutableEvent(w)
      <3>1. ASSUME Runs(w, j)
            PROVE  AtAttempt(row[work[w].event], work[w].attempt)
        BY <3>1 DEF Runs, Doing, AtAttempt
      <3> QED BY <2>2, <2>3, <2>5, <3>1 DEF resolveExecutableEvent
    <2>6. CASE OperationSucceeds(w) \/ OperationRefuses(w)
      BY <2>3, <2>6 DEF OperationSucceeds, OperationRefuses
    <2>7. CASE OperationThrows(w)
      <3>1. CASE Runs(w, j) /\ ~work[w].final
        <4>1. Doing(w) = j /\ job[j].owner = w /\ ~isFinalAttempt(j)
          BY <2>7, <3>1 DEF Runs, LocksOk, OperationThrows
        <4>2. JobThrows(w)
          BY <2>7, <3>1 DEF OperationThrows
        <4>3. job' = [job EXCEPT ![j] = Retried(@)]
          BY <4>1, <4>2 DEF JobThrows
        <4>4. job'[j] = Retried(job[j])
          BY <1>1, <4>3 DEF TypeOK
        <4>5. job'[j].state = "waiting"
          BY <1>1, <4>4, WaitingJobType
        <4> QED BY <1>1, <4>5 DEF InQueue
      <3>2. CASE ~Runs(w, j) \/ work[w].final
        BY <2>2, <2>3, <2>7, <3>2 DEF OperationThrows
      <3> QED BY <3>1, <3>2
    <2>8. ASSUME Runs(w, j), \/ markCompleted(work[w].event, work[w].attempt)
                             \/ markFailed(work[w].event, work[w].attempt, TRUE)
                             \/ markFailed(work[w].event, work[w].attempt, FALSE)
          PROVE  FALSE
      <3>1. work[w].event = e /\ work[w].attempt = a
        BY <2>8 DEF Runs, Doing
      <3>2. AtAttempt(row[e], a) /\ row[e] \in Rows
        BY DEF AtAttempt, TypeOK
      <3>3. \/ row'[e] = CompletedRow(row[e])
            \/ row'[e] = FailedRow(row[e], a, TRUE)
            \/ row'[e] = FailedRow(row[e], a, FALSE)
        BY <2>8, <3>1, <3>2 DEF markCompleted, markFailed, TypeOK
      <3>4. row'[e].status \in {"COMPLETED", "DEAD_LETTER", "FAILED"}
        BY <3>2, <3>3 DEF CompletedRow, FailedRow, FailedStatus, Rows
      <3> QED BY <3>4 DEF InFlight
    <2>9. CASE MarkCompleted(w) \/ MarkFailed(w) \/ MarkFatal(w)
      BY <2>2, <2>8, <2>9 DEF MarkCompleted, MarkFailed, MarkFatal
    <2> QED BY <2>1, <2>4, <2>5, <2>6, <2>7, <2>9 DEF WorkerStep
  <1> QED BY <1>3, <1>4, <1>5, <1>6 DEF Next

(* Without a fault, a pass that has a claim in hand gives it up by putting  *)
(* its job in the queue or by marking the row.                              *)
LEMMA PassKept ==
    ASSUME IInv, ClaimsHeld, Next, faults' = faults, NEW e \in Events,
           row'[e].status \in InFlight, row'[e].attempts = row[e].attempts,
           row[e].status \in InFlight, InPass(<<e, row[e].attempts>>)
    PROVE  InPass(<<e, row[e].attempts>>)' \/ InQueue(<<e, row[e].attempts>>)'
  <1> DEFINE a == row[e].attempts
             j == <<e, a>>
  <1> USE DEF IInv
  <1>1. PICK d \in Dispatchers : pass[d].pc \in {"add", "fail"} /\ Holding(d) = j
    BY DEF InPass
  <1>2. /\ pass[d] \in Passes /\ pass[d].event = e /\ pass[d].attempt = a
        /\ j \in JobIds /\ a \in Attempts /\ faults \in Nat
    BY <1>1 DEF TypeOK, Holding, JobIds
  <1>3. ASSUME pass'[d] = pass[d]
        PROVE  InPass(j)'
    BY <1>1, <1>3 DEF InPass, Holding
  <1>4. ASSUME NEW x \in Dispatchers, DispatcherStep(x) \/ DispatcherFault(x)
        PROVE  InPass(j)' \/ InQueue(j)'
    <2>1. DispatcherStep(x)
      <3>1. DispatcherFault(x) => faults' = faults + 1
        BY DEF DispatcherFault, ClaimError, DispatchError, MarkDispatchedError,
           MarkDispatchFailedError, CrashDispatcher, Fault
      <3>2. faults + 1 # faults
        BY <1>2
      <3> QED BY <1>4, <3>1, <3>2
    <2>2. CASE x # d
      <3>1. pass'[d] = pass[d]
        BY <2>1, <2>2 DEF TypeOK, DispatcherStep, StartPass, ClaimEvent,
           SkipEvent, dispatchEvent, MarkDispatched, MarkDispatchFailed, EndPass,
           Advance, GoTo, NextEvent
      <3> QED BY <1>3, <3>1
    <2>3. CASE x = d /\ dispatchEvent(d)
      <3>1. job[j].state = "none" /\ job' = Enqueued(j)
        BY <1>1, <2>3 DEF dispatchEvent, FreshDispatch
      <3>2. job'[j].state = "waiting"
        BY <1>2, <3>1 DEF Enqueued, NoJob, TypeOK
      <3> QED BY <1>2, <3>2 DEF InQueue
    <2>4. CASE x = d /\ MarkDispatchFailed(d)
      <3>1. AtAttempt(row[e], a) /\ row[e] \in Rows
        BY DEF AtAttempt, TypeOK
      <3>2. row'[e] = FailedRow(row[e], a, FALSE)
        BY <1>2, <2>4, <3>1 DEF MarkDispatchFailed, markFailed, TypeOK
      <3>3. row'[e].status \in {"DEAD_LETTER", "FAILED"}
        BY <3>1, <3>2 DEF FailedRow, FailedStatus, Rows
      <3> QED BY <3>3 DEF InFlight
    <2>5. ~(StartPass(d) \/ ClaimEvent(d) \/ SkipEvent(d) \/ MarkDispatched(d) \/ EndPass(d))
      BY <1>1 DEF StartPass, ClaimEvent, SkipEvent, MarkDispatched, EndPass, NextInPass
    <2> QED BY <2>1, <2>2, <2>3, <2>4, <2>5 DEF DispatcherStep
  <1>5. (pass' = pass) \/ \E x \in Dispatchers : DispatcherStep(x) \/ DispatcherFault(x)
    BY DEF Next, WorkerStep, WorkerFault, TakeJob, resolveExecutableEvent, OperationSucceeds,
       OperationThrows, OperationRefuses, MarkCompleted, MarkFailed, MarkFatal,
       ResolveError, MarkCompletedError, MarkFailedError, MarkFatalError, CrashWorker,
       LoseLock, RecoverStalled, createMany, Tick
  <1> QED BY <1>3, <1>4, <1>5

(* A step meets one fault or none; none when it claims a row for a pass.    *)
LEMMA FaultsStep ==
    ASSUME Next
    PROVE  faults' = faults \/ faults' = faults + 1
  BY DEF Next, DispatcherStep, DispatcherFault, StartPass, ClaimEvent, SkipEvent,
     dispatchEvent, MarkDispatched, MarkDispatchFailed, EndPass, ClaimError,
     DispatchError, MarkDispatchedError, MarkDispatchFailedError, CrashDispatcher,
     WorkerStep, WorkerFault, TakeJob, resolveExecutableEvent, OperationSucceeds,
     OperationThrows, OperationRefuses, MarkCompleted, MarkFailed, MarkFatal,
     ResolveError, MarkCompletedError, MarkFailedError, MarkFatalError, CrashWorker,
     LoseLock, RecoverStalled, createMany, Tick, Fault

(* A claim without a fault is in the hands of the pass that made it.        *)
LEMMA ClaimIsServed ==
    ASSUME IInv, Next, TypeOK', faults' = faults, NEW e \in Events,
           row'[e].attempts = row[e].attempts + 1
    PROVE  Served(e)'
  <1> USE DEF IInv
  <1>1. row[e].attempts \in Nat /\ faults \in Nat /\ row[e].attempts # row'[e].attempts
    BY DEF TypeOK, Rows
  <1>2. ASSUME NEW d \in Dispatchers, ClaimEvent(d)
        PROVE  Served(e)'
    <2>1. PICK x \in Events :
              /\ pass'[d].pc = "add" /\ Holding(d)' = <<x, row[x].attempts + 1>>
              /\ row'[x].attempts = row[x].attempts + 1
      BY <1>2, ClaimIsFresh
    <2>2. PICK s \in pass[d].todo : /\ row' = [row EXCEPT ![s.event] = Claimed(@)]
                                    /\ Advance(d, "add", s, s.attempts + 1)
      BY <1>2 DEF ClaimEvent
    <2>3. s.event = e
      BY <1>1, <2>2 DEF TypeOK
    <2>4. s.event = x
      <3>1. row[x].attempts \in Nat /\ row'[x] # row[x]
        BY <2>1 DEF TypeOK, Rows
      <3> QED BY <2>2, <3>1 DEF TypeOK
    <2>5. Holding(d)' = <<e, row'[e].attempts>>
      BY <2>1, <2>3, <2>4
    <2> QED BY <2>1, <2>5 DEF Served, InPass
  <1>3. ASSUME NEW d \in Dispatchers, DispatcherStep(d) \/ DispatcherFault(d)
        PROVE  ClaimEvent(d)
    <2>1. DispatcherStep(d)
      <3>1. DispatcherFault(d) => faults' = faults + 1
        BY DEF DispatcherFault, ClaimError, DispatchError, MarkDispatchedError,
           MarkDispatchFailedError, CrashDispatcher, Fault
      <3>2. faults + 1 # faults
        BY <1>1
      <3> QED BY <1>3, <3>1, <3>2
    <2>2. ~(StartPass(d) \/ SkipEvent(d) \/ dispatchEvent(d) \/ EndPass(d))
      BY <1>1 DEF StartPass, SkipEvent, dispatchEvent, EndPass
    <2>3. ~MarkDispatched(d)
      <3>1. row[e] \in Rows
        BY DEF TypeOK
      <3>2. DispatchedRow(row[e], pass[d].startedAt).attempts = row[e].attempts
        BY <3>1 DEF DispatchedRow, Rows
      <3>3. markDispatched(pass[d].event, pass[d].startedAt) =>
                row'[e] \in {row[e], DispatchedRow(row[e], pass[d].startedAt)}
        BY DEF markDispatched, TypeOK
      <3> QED BY <1>1, <3>2, <3>3 DEF MarkDispatched
    <2>4. ~MarkDispatchFailed(d)
      <3>1. row[e] \in Rows
        BY DEF TypeOK
      <3>2. FailedRow(row[e], pass[d].attempt, FALSE).attempts = row[e].attempts
        BY <3>1 DEF FailedRow, Rows
      <3>3. markFailed(pass[d].event, pass[d].attempt, FALSE) =>
                row'[e] \in {row[e], FailedRow(row[e], pass[d].attempt, FALSE)}
        BY DEF markFailed, TypeOK
      <3> QED BY <1>1, <3>2, <3>3 DEF MarkDispatchFailed
    <2> QED BY <2>1, <2>2, <2>3, <2>4 DEF DispatcherStep
  <1>4. ASSUME NEW w \in Workers, WorkerStep(w) \/ WorkerFault(w)
        PROVE  FALSE
    <2>1. row[e] \in Rows
      BY DEF TypeOK
    <2>2. /\ CompletedRow(row[e]).attempts = row[e].attempts
          /\ \A terminal : FailedRow(row[e], work[w].attempt, terminal).attempts = row[e].attempts
      BY <2>1 DEF CompletedRow, FailedRow, Rows
    <2>3. markCompleted(work[w].event, work[w].attempt) =>
              row'[e] \in {row[e], CompletedRow(row[e])}
      BY DEF markCompleted, TypeOK
    <2>4. ASSUME NEW terminal, markFailed(work[w].event, work[w].attempt, terminal)
          PROVE  row'[e] \in {row[e], FailedRow(row[e], work[w].attempt, terminal)}
      BY <2>4 DEF markFailed, TypeOK
    <2>5. \/ row' = row
          \/ markCompleted(work[w].event, work[w].attempt)
          \/ markFailed(work[w].event, work[w].attempt, TRUE)
          \/ markFailed(work[w].event, work[w].attempt, FALSE)
      BY <1>4 DEF WorkerStep, WorkerFault, TakeJob, resolveExecutableEvent,
         OperationSucceeds, OperationThrows, OperationRefuses, MarkCompleted, MarkFailed,
         MarkFatal, ResolveError, MarkCompletedError, MarkFailedError, MarkFatalError,
         CrashWorker, LoseLock
    <2> QED BY <1>1, <2>2, <2>3, <2>4, <2>5
  <1>5. ~(\E x \in Events : createMany(x))
    <2> SUFFICES ASSUME NEW x \in Events, createMany(x) PROVE FALSE
      OBVIOUS
    <2>1. row'[e] = row[e] \/ row'[e].attempts = 0
      BY DEF createMany, TypeOK
    <2> QED BY <1>1, <2>1
  <1>6. ~Tick /\ ~\E j \in JobIds : RecoverStalled(j)
    BY <1>1 DEF Tick, RecoverStalled
  <1> QED BY <1>2, <1>3, <1>4, <1>5, <1>6 DEF Next

(* Each claim beyond MaxAttempts is paid for by a fault.                    *)
LEMMA BudgetStep ==
    ASSUME IInv, ClaimsHeld, JobsTimely, LocksOk, BudgetOk, Next, TypeOK', RowMoves
    PROVE  BudgetOk'
  <1> USE DEF IInv
  <1> SUFFICES ASSUME NEW e \in Events PROVE BudgetOf(e)'
    BY DEF BudgetOk
  <1>1. /\ row[e].attempts \in Nat /\ row'[e].attempts \in Nat
        /\ faults \in Nat /\ faults' \in Nat
    BY DEF TypeOK, Rows
  <1>2. faults' = faults \/ faults' = faults + 1
    BY FaultsStep
  <1>3. RowMove(e) /\ BudgetOf(e)
    BY DEF RowMoves, BudgetOk
  <1>4. e \in Candidates => row[e].attempts < MaxAttempts + faults
    <2>1. CASE row[e].status \in Retryable
      BY <1>1, <1>3, <2>1 DEF BudgetOf
    <2>2. CASE row[e].status \in InFlight
      BY <1>3, <2>2, DueIsUnserved DEF BudgetOf
    <2>3. e \in Candidates => row[e].status \in Retryable \cup InFlight
      BY DEF Candidates, ClaimWhere, Retryable, InFlight
    <2> QED BY <2>1, <2>2, <2>3
  <1>5. row'[e].attempts <= MaxAttempts + faults
    <2>1. CASE e \in Candidates /\ row'[e].attempts = row[e].attempts + 1
      BY <1>1, <1>4, <2>1
    <2>2. CASE row'[e].attempts = 0
      BY <1>1, <2>2
    <2>3. CASE row'[e].attempts = row[e].attempts
      BY <1>3, <2>3 DEF BudgetOf
    <2> QED BY <1>3, <2>1, <2>2, <2>3 DEF RowMove
  <1>6. row'[e].status \in Retryable => row'[e].attempts < MaxAttempts
    <2>1. 0 < MaxAttempts
      BY BoundsAssumption DEF BoundsAssumption
    <2> QED BY <1>3, <2>1 DEF RowMove, BudgetOf, Retryable, Settled
  <1>7. row'[e].status \in InFlight /\ ~Served(e)' => row'[e].attempts < MaxAttempts + faults'
    <2> SUFFICES ASSUME row'[e].status \in InFlight, ~Served(e)'
                 PROVE  row'[e].attempts < MaxAttempts + faults'
      OBVIOUS
    <2>1. CASE faults' = faults + 1
      BY <1>1, <1>5, <2>1
    <2>2. CASE faults' = faults
      <3>1. row'[e].attempts # row[e].attempts + 1
        BY <2>2, ClaimIsServed
      <3>2. /\ row[e].status \in InFlight
            /\ row'[e].attempts = row[e].attempts
        BY <1>3, <3>1 DEF RowMove, InFlight, Settled
      <3>3. ~Served(e)
        <4>1. ~InQueue(<<e, row[e].attempts>>)
          <5>1. ASSUME InQueue(<<e, row[e].attempts>>)
                PROVE  InQueue(<<e, row[e].attempts>>)'
            BY <2>2, <3>2, <5>1, QueueKept
          <5> QED BY <3>2, <5>1 DEF Served
        <4>2. ~InPass(<<e, row[e].attempts>>)
          <5>1. ASSUME InPass(<<e, row[e].attempts>>)
                PROVE  InPass(<<e, row[e].attempts>>)' \/ InQueue(<<e, row[e].attempts>>)'
            BY <2>2, <3>2, <5>1, PassKept
          <5> QED BY <3>2, <5>1 DEF Served
        <4> QED BY <4>1, <4>2 DEF Served
      <3> QED BY <1>3, <2>2, <3>2, <3>3 DEF BudgetOf
    <2> QED BY <1>2, <2>1, <2>2
  <1>8. row'[e].attempts <= MaxAttempts + faults'
    BY <1>1, <1>2, <1>5
  <1> QED BY <1>6, <1>7, <1>8 DEF BudgetOf

(* The initial state: nothing has been claimed or added.                    *)
LEMMA InitPrompt == Init => PromptInv
  <1> SUFFICES ASSUME Init PROVE PromptInv
    OBVIOUS
  <1>1. /\ \A d \in Dispatchers : pass[d].pc = "idle"
        /\ \A w \in Workers : work[w].pc = "idle"
        /\ \A j \in JobIds : job[j].state = "none" /\ job[j].owner = NoWorker
        /\ \A e \in Events : row[e].status = "ABSENT" /\ row[e].attempts = 0
        /\ faults = 0
    BY DEF Init, IdlePass, IdleWork, NoJob
  <1>2. PassesNow /\ ClaimsHeld /\ LocksOk
    BY <1>1 DEF PassesNow, ClaimsHeld, HoldsClaim, LocksOk
  <1>3. JobsTimely /\ DispatchedMeansAccepted
    BY <1>1 DEF JobsTimely, InFlight, DispatchedMeansAccepted
  <1>4. BudgetOk
    BY <1>1 DEF BudgetOk, BudgetOf, Retryable, InFlight
  <1> QED BY <1>2, <1>3, <1>4 DEF PromptInv

(* A prompt Tick finds nobody at work.                                      *)
LEMMA TickPrompt ==
    ASSUME Prompt, TypeOK, PromptInv, Tick
    PROVE  PromptInv'
  <1>1. /\ UNCHANGED <<row, pass, job, work, faults>>
        /\ \A d \in Dispatchers : pass[d].pc = "idle"
        /\ \A j \in JobIds : job[j].state \notin {"waiting", "active"}
    BY DEF Tick, Quiet
  <1>2. PassesNow' /\ ClaimsHeld'
    BY <1>1 DEF PassesNow, ClaimsHeld, HoldsClaim
  <1>3. JobsTimely'
    BY <1>1 DEF JobsTimely, Open, JobIds
  <1>4. LocksOk' /\ DispatchedMeansAccepted'
    BY <1>1 DEF PromptInv, LocksOk, Doing, isFinalAttempt, DispatchedMeansAccepted
  <1>5. BudgetOk'
    BY <1>1 DEF PromptInv, BudgetOk, BudgetOf, Served, InQueue, InPass, Runs, Doing, Holding
  <1> QED BY <1>2, <1>3, <1>4, <1>5 DEF PromptInv

(* Every step preserves the invariant of prompt passes.                     *)
LEMMA NextPrompt ==
    ASSUME Prompt, IInv, TypeOK', PromptInv, [Next]_vars
    PROVE  PromptInv'
  <1>1. CASE Next /\ now' = now
    <2>1. RowSteps /\ PassSteps /\ JobSteps
      BY <1>1, NextEffect DEF IInv
    <2>2. RowMoves /\ JobMoves /\ WorkMoves
      BY <1>1, RowsMove, QueueMoves DEF IInv, PromptInv
    <2>3. PassesNow'
      BY <1>1, <2>1, PassesNowStep DEF PromptInv
    <2>4. ClaimsHeld'
      BY <1>1, <2>1, <2>2, HeldStep DEF PromptInv
    <2>5. JobsTimely'
      BY <1>1, <2>2, TimelyStep DEF IInv, PromptInv
    <2>6. LocksOk' /\ DispatchedMeansAccepted'
      BY <2>1, <2>2, LocksStep, AcceptedStep DEF IInv, PromptInv
    <2>7. BudgetOk'
      BY <1>1, <2>2, BudgetStep DEF PromptInv
    <2> QED BY <2>3, <2>4, <2>5, <2>6, <2>7 DEF PromptInv
  <1>2. CASE Tick
    BY <1>2, TickPrompt DEF IInv
  <1>3. CASE UNCHANGED vars
    BY <1>3 DEF vars, PromptInv, PassesNow, ClaimsHeld, HoldsClaim, Holding, Candidates,
       JobsTimely, Open, LocksOk, Doing, isFinalAttempt, DispatchedMeansAccepted,
       BudgetOk, BudgetOf, Served, InQueue, InPass, Runs
  <1> QED BY <1>1, <1>2, <1>3, ClockMoves

(***************************************************************************)
(* With prompt passes a DISPATCHED row has the job of its current attempt  *)
(* in the queue (processPendingEvents), and no row is ever claimed more    *)
(* than MAX_ATTEMPTS times plus once per fault (markFailed), for any       *)
(* number of rows, dispatchers and workers, and any delays and faults.     *)
(***************************************************************************)
THEOREM DispatchesStaySound ==
    ASSUME Prompt
    PROVE  Spec => []DispatchSound
  <1>1. IInv => TypeOK
    BY DEF IInv
  <1>2. Spec => [](IInv /\ TypeOK)
    BY <1>1, OutboxInvariant, PTL
  <1>3. IInv /\ TypeOK' /\ PromptInv /\ [Next]_vars => PromptInv'
    BY NextPrompt
  <1>4. Spec => []PromptInv
    BY <1>2, <1>3, InitPrompt, PTL DEF Spec
  <1>5. TypeOK /\ PromptInv => DispatchSound
    BY DEF PromptInv, DispatchSound, BudgetOk, BudgetOf, RetryBudget
  <1> QED BY <1>2, <1>4, <1>5, PTL

-----------------------------------------------------------------------------
(* NotificationRouting: every row that a dispatched change is turned into   *)
(* reaches whom it is for.                                                  *)

(* A job that the processor can deliver on each of its channels.            *)
Arrives(j) == \A ch \in j.channels : Deliverable(j, ch)

(* What a builder owes: its jobs arrive, and all go to one party.           *)
Addressed(jobs, audience, recipient) ==
    \A j \in jobs : Arrives(j) /\ j.audience = audience /\ j.recipient = recipient

(* The fields of a job.                                                     *)
LEMMA JobIs ==
  ASSUME NEW type, NEW audience, NEW channels, NEW recipient, NEW contact, NEW kind, NEW status,
         NEW j \in Job(type, audience, channels, recipient, contact, kind, status)
  PROVE  /\ j = [type |-> type, audience |-> audience, channels |-> channels,
                 recipient |-> recipient, contact |-> contact, kind |-> kind,
                 status |-> status, completionLink |-> FALSE]
         /\ j.type = type /\ j.audience = audience /\ j.channels = channels
         /\ j.recipient = recipient /\ j.contact = contact /\ j.kind = kind
         /\ j.status = status
<1>1. j = [type |-> type, audience |-> audience, channels |-> channels,
           recipient |-> recipient, contact |-> contact, kind |-> kind,
           status |-> status, completionLink |-> FALSE]
  BY DEF Job
<1> QED BY <1>1

(* A builder makes at most one job of its arguments.                        *)
LEMMA OneJob ==
  ASSUME NEW type, NEW audience, NEW channels, NEW recipient, NEW contact, NEW kind, NEW status,
         NEW i \in Job(type, audience, channels, recipient, contact, kind, status),
         NEW j \in Job(type, audience, channels, recipient, contact, kind, status)
  PROVE  i = j
BY DEF Job

(* A channel is chosen only where the contact can be reached on it.         *)
LEMMA ChannelOf ==
  ASSUME NEW audience, NEW contact, NEW ch \in resolve(audience, contact)
  PROVE  \/ ch = "EMAIL" /\ contact.email
         \/ ch = "WHATSAPP" /\ contact.phone
         \/ ch = "PUSH" /\ audience = "CUSTOMER" /\ contact.userId
BY DEF resolve, deriveNotificationChannels

(* WhatsApp is left out where its template is not configured.               *)
LEMMA OptionalChannel ==
  ASSUME NEW channels, NEW template, NEW ch \in WithoutUnconfigured(channels, template)
  PROVE  ch \in channels /\ (ch = "WHATSAPP" => template \in RConfig)
BY DEF WithoutUnconfigured

(* What the customer's builders have in common: the e-mail template of each *)
(* one's type is written for its kind of data.                              *)
ForCustomers(type, kind) ==
    \/ /\ type \in {"BOOKING_UPDATED", "BOOKING_STATUS_CHANGE", "CHAUFFEUR_ASSIGNED"}
       /\ kind = "bookingStatus"
    \/ type = "BOOKING_CONFIRMED" /\ kind = "bookingConfirmed"
    \/ type = "BOOKING_EXTENSION_CONFIRMED" /\ kind = "bookingExtensionConfirmed"
    \/ type = "BOOKING_CANCELLED" /\ kind = "bookingCancelled"
    \/ /\ type \in {"BOOKING_REMINDER_START", "BOOKING_REMINDER_END"}
       /\ kind = "bookingReminder"

(* A job for a customer arrives on whichever of his channels it names.      *)
LEMMA CustomerJobArrives ==
  ASSUME NEW type, NEW kind, ForCustomers(type, kind), NEW contact,
         NEW channels \in SUBSET resolve("CUSTOMER", contact), NEW status
  PROVE  Addressed(Job(type, "CUSTOMER", channels, "client", contact, kind, status),
                   "CUSTOMER", "client")
<1> SUFFICES ASSUME NEW j \in Job(type, "CUSTOMER", channels, "client", contact, kind, status)
             PROVE  Arrives(j) /\ j.audience = "CUSTOMER" /\ j.recipient = "client"
  BY DEF Addressed
<1>1. /\ j.type = type /\ j.audience = "CUSTOMER" /\ j.channels = channels
      /\ j.recipient = "client" /\ j.contact = contact /\ j.kind = kind
  BY JobIs
<1>2. ASSUME NEW ch \in j.channels PROVE Deliverable(j, ch)
  <2>1. ch \in resolve("CUSTOMER", contact)
    BY <1>1
  <2>2. buildEmailHtml(j)
    BY <1>1 DEF buildEmailHtml, ForCustomers, FlightTypes
  <2>3. /\ getWhatsAppTemplateKey(type, "client")
             \in {"BookingConfirmation", "BookingExtensionConfirmation", "BookingCancellation",
                  "BookingStatusUpdate", "Reminder"}
    BY DEF getWhatsAppTemplateKey, ForCustomers, FlightTypes, ConflictType
  <2>4. contentSidMap(getWhatsAppTemplateKey(type, "client"))
    BY <2>3 DEF contentSidMap
  <2> QED BY <1>1, <2>1, <2>2, <2>3, <2>4, ChannelOf DEF Deliverable
<1> QED BY <1>1, <1>2 DEF Arrives

(* The e-mail template of a type is written for this kind of data and for   *)
(* this recipient.                                                          *)
Written(type, kind, recipient, status) ==
    \/ type = "FLEET_OWNER_NEW_BOOKING" /\ kind = "fleetOwnerNewBooking"
    \/ type = "BOOKING_CANCELLED" /\ kind = "bookingCancelled"
    \/ /\ type \in {"BOOKING_REMINDER_START", "BOOKING_REMINDER_END"}
       /\ kind = "bookingReminder" /\ recipient = "chauffeur"
    \/ /\ type = "REVIEW_RECEIVED" /\ kind = "reviewReceived"
       /\ recipient \in {"fleetOwner", "chauffeur"}
    \/ /\ type = "PAYOUT_STATUS_CHANGED" /\ kind = "payoutStatus"
       /\ recipient = IF status = "PAID_OUT" THEN "fleetOwner" ELSE "operations"
    \/ /\ type = "REFUND_STATUS_CHANGED" /\ kind = "refundStatus"
       /\ status \notin Refunded /\ recipient = "operations"
    \/ type \in FlightTypes /\ kind = "flightUpdate"

(* The contact has the address of every channel, and a WhatsApp message its *)
(* configured template.                                                     *)
Reached(channels, contact, type, recipient) ==
    \A ch \in channels :
        \/ ch = "EMAIL" /\ contact.email
        \/ /\ ch = "WHATSAPP" /\ contact.phone
           /\ getWhatsAppTemplateKey(type, recipient) # "none"
           /\ contentSidMap(getWhatsAppTemplateKey(type, recipient))

(* A job of somebody who is no customer.                                    *)
LEMMA StaffJobArrives ==
  ASSUME NEW type, NEW audience, NEW recipient, NEW kind, NEW contact,
         NEW status, NEW channels,
         Reached(channels, contact, type, recipient),
         Written(type, kind, recipient, status)
  PROVE  Addressed(Job(type, audience, channels, recipient, contact, kind, status),
                   audience, recipient)
<1> SUFFICES ASSUME NEW j \in Job(type, audience, channels, recipient, contact, kind, status)
             PROVE  Arrives(j) /\ j.audience = audience /\ j.recipient = recipient
  BY DEF Addressed
<1>1. /\ j.type = type /\ j.audience = audience /\ j.channels = channels
      /\ j.recipient = recipient /\ j.contact = contact /\ j.kind = kind
      /\ j.status = status
  BY JobIs
<1>2. buildEmailHtml(j)
  <2>1. type \in FlightTypes => buildEmailHtml(j)
    BY <1>1 DEF buildEmailHtml, FlightTypes, Written
  <2>2. type \notin FlightTypes => buildEmailHtml(j)
    BY <1>1 DEF buildEmailHtml, FlightTypes, Written
  <2> QED BY <2>1, <2>2
<1>3. ASSUME NEW ch \in j.channels PROVE Deliverable(j, ch)
  BY <1>1, <1>2, <1>3 DEF Deliverable, Reached
<1> QED BY <1>1, <1>3 DEF Arrives

-----------------------------------------------------------------------------
(* The builders.                                                            *)

(* So do the jobs the customers' builders make.                             *)
LEMMA SubsetJob ==
  ASSUME NEW type, NEW kind, ForCustomers(type, kind), NEW contact
  PROVE  Addressed(CustomerJob(type, contact, kind), "CUSTOMER", "client")
BY CustomerJobArrives DEF CustomerJob

(* Those are the jobs of these changes.                                     *)
LEMMA CustomerJobs ==
  ASSUME NEW c, NEW byStaff, NEW owner
  PROVE  /\ Addressed(buildBookingStatusChangeJobData(c), "CUSTOMER", "client")
         /\ Addressed(buildBookingUpdatedJobData(c, byStaff), "CUSTOMER", "client")
         /\ Addressed(buildChauffeurAssignedJobData(c), "CUSTOMER", "client")
         /\ Addressed(buildBookingConfirmedJobData(c, owner).customer, "CUSTOMER", "client")
         /\ Addressed(buildBookingCancellationJobData(c, owner).customer, "CUSTOMER", "client")
         /\ Addressed(buildBookingExtensionConfirmedJobData(c), "CUSTOMER", "client")
<1>1. Addressed(buildBookingStatusChangeJobData(c), "CUSTOMER", "client")
  <2>1. ForCustomers("BOOKING_STATUS_CHANGE", "bookingStatus")
    BY DEF ForCustomers
  <2> QED BY <2>1, SubsetJob DEF buildBookingStatusChangeJobData
<1>2. Addressed(buildBookingUpdatedJobData(c, byStaff), "CUSTOMER", "client")
  <2> DEFINE contact  == getCustomerDetails(c)
             channels == resolve("CUSTOMER", contact) \ (IF byStaff THEN {} ELSE {"PUSH"})
  <2>1. ForCustomers("BOOKING_UPDATED", "bookingStatus")
    BY DEF ForCustomers
  <2>2. channels \in SUBSET resolve("CUSTOMER", contact)
    OBVIOUS
  <2>3. buildBookingUpdatedJobData(c, byStaff)
          = Job("BOOKING_UPDATED", "CUSTOMER", channels, "client", contact, "bookingStatus", "-")
    BY DEF buildBookingUpdatedJobData
  <2> HIDE DEF channels, contact
  <2> QED BY <2>1, <2>2, <2>3, CustomerJobArrives
<1>3. Addressed(buildChauffeurAssignedJobData(c), "CUSTOMER", "client")
  <2>1. ForCustomers("CHAUFFEUR_ASSIGNED", "bookingStatus")
    BY DEF ForCustomers
  <2> QED BY <2>1, SubsetJob DEF buildChauffeurAssignedJobData
<1>4. Addressed(buildBookingConfirmedJobData(c, owner).customer, "CUSTOMER", "client")
  <2>1. ForCustomers("BOOKING_CONFIRMED", "bookingConfirmed")
    BY DEF ForCustomers
  <2> QED BY <2>1, SubsetJob DEF buildBookingConfirmedJobData
<1>5. Addressed(buildBookingCancellationJobData(c, owner).customer, "CUSTOMER", "client")
  <2>1. ForCustomers("BOOKING_CANCELLED", "bookingCancelled")
    BY DEF ForCustomers
  <2> QED BY <2>1, SubsetJob DEF buildBookingCancellationJobData
<1>6. Addressed(buildBookingExtensionConfirmedJobData(c), "CUSTOMER", "client")
  <2>1. ForCustomers("BOOKING_EXTENSION_CONFIRMED", "bookingExtensionConfirmed")
    BY DEF ForCustomers
  <2> QED BY <2>1, SubsetJob DEF buildBookingExtensionConfirmedJobData
<1> QED BY <1>1, <1>2, <1>3, <1>4, <1>5, <1>6

(* The channels of somebody who is no customer.                             *)
LEMMA StaffChannel ==
  ASSUME NEW audience, audience # "CUSTOMER", NEW contact, NEW type, NEW recipient,
         NEW template, getWhatsAppTemplateKey(type, recipient) = template,
         template \notin {"none", "flight", "payout", "refund"}
  PROVE  Reached(resolve(audience, contact), contact, type, recipient)
BY ChannelOf DEF Reached, contentSidMap

(* Staff are reached where the template of their WhatsApp message is        *)
(* configured, and by e-mail otherwise.                                     *)
LEMMA StaffOptional ==
  ASSUME NEW audience, audience # "CUSTOMER", NEW contact, NEW type, NEW recipient,
         NEW template \in {"flight", "payout", "refund"},
         getWhatsAppTemplateKey(type, recipient) = template
  PROVE  Reached(WithoutUnconfigured(resolve(audience, contact), template),
                 contact, type, recipient)
<1> SUFFICES ASSUME NEW ch \in WithoutUnconfigured(resolve(audience, contact), template)
             PROVE  \/ ch = "EMAIL" /\ contact.email
                    \/ /\ ch = "WHATSAPP" /\ contact.phone
                       /\ template # "none" /\ contentSidMap(template)
  BY DEF Reached
<1>1. ch \in resolve(audience, contact) /\ (ch = "WHATSAPP" => template \in RConfig)
  BY OptionalChannel
<1> QED BY <1>1, ChannelOf DEF contentSidMap

(* The owners' jobs of a confirmation and a cancellation arrive.            *)
LEMMA OwnerJobs ==
  ASSUME NEW c, NEW owner
  PROVE  /\ Addressed(buildBookingConfirmedJobData(c, owner).owner, "FLEET_OWNER", "fleetOwner")
         /\ Addressed(buildBookingCancellationJobData(c, owner).owner, "FLEET_OWNER", "fleetOwner")
<1>1. Addressed(OwnerJob("FLEET_OWNER_NEW_BOOKING", owner, "fleetOwnerNewBooking"),
                "FLEET_OWNER", "fleetOwner")
  <2>1. getWhatsAppTemplateKey("FLEET_OWNER_NEW_BOOKING", "fleetOwner")
          = "FleetOwnerBookingNotification"
    BY DEF getWhatsAppTemplateKey, FlightTypes, ConflictType
  <2>2. Written("FLEET_OWNER_NEW_BOOKING", "fleetOwnerNewBooking", "fleetOwner", "-")
    BY DEF Written
  <2>3. Reached(resolve("FLEET_OWNER", owner), owner, "FLEET_OWNER_NEW_BOOKING", "fleetOwner")
    BY <2>1, StaffChannel
  <2> QED BY <2>2, <2>3, StaffJobArrives DEF OwnerJob
<1>2. Addressed(OwnerJob("BOOKING_CANCELLED", owner, "bookingCancelled"),
                "FLEET_OWNER", "fleetOwner")
  <2>1. getWhatsAppTemplateKey("BOOKING_CANCELLED", "fleetOwner") = "BookingCancellation"
    BY DEF getWhatsAppTemplateKey, FlightTypes, ConflictType
  <2>2. Written("BOOKING_CANCELLED", "bookingCancelled", "fleetOwner", "-")
    BY DEF Written
  <2>3. Reached(resolve("FLEET_OWNER", owner), owner, "BOOKING_CANCELLED", "fleetOwner")
    BY <2>1, StaffChannel
  <2> QED BY <2>2, <2>3, StaffJobArrives DEF OwnerJob
<1> QED BY <1>1, <1>2 DEF buildBookingConfirmedJobData, buildBookingCancellationJobData

(* The jobs of reminders arrive, at the customer and at the chauffeur.      *)
LEMMA ReminderJobs ==
  ASSUME NEW type \in {"BOOKING_REMINDER_START", "BOOKING_REMINDER_END"},
         NEW c, NEW d
  PROVE  /\ Addressed(createReminderJobData(type, "client", getCustomerDetails(c)),
                      "CUSTOMER", "client")
         /\ Addressed(createReminderJobData(type, "chauffeur", d), "CHAUFFEUR", "chauffeur")
<1>1. Addressed(createReminderJobData(type, "client", getCustomerDetails(c)),
                "CUSTOMER", "client")
  <2>1. PICK contact : contact = getCustomerDetails(c)
    OBVIOUS
  <2>2. ForCustomers(type, "bookingReminder")
    BY DEF ForCustomers
  <2>3. Addressed(Job(type, "CUSTOMER", resolve("CUSTOMER", contact), "client", contact,
                      "bookingReminder", "-"), "CUSTOMER", "client")
    BY <2>2, CustomerJobArrives
  <2> QED BY <2>1, <2>3 DEF createReminderJobData
<1>2. Addressed(createReminderJobData(type, "chauffeur", d), "CHAUFFEUR", "chauffeur")
  <2>1. getWhatsAppTemplateKey(type, "chauffeur") = "Reminder"
    BY DEF getWhatsAppTemplateKey, FlightTypes, ConflictType
  <2>2. Written(type, "bookingReminder", "chauffeur", "-")
    BY DEF Written
  <2>3. Reached(resolve("CHAUFFEUR", d), d, type, "chauffeur")
    BY <2>1, StaffChannel
  <2> QED BY <2>2, <2>3, StaffJobArrives DEF createReminderJobData
<1> QED BY <1>1, <1>2

(* The job of a released reward arrives.                                    *)
LEMMA ReferralJobs ==
  Addressed(buildReferralRewardReleasedJobData, "CUSTOMER", "client")
<1> SUFFICES ASSUME NEW j \in buildReferralRewardReleasedJobData
             PROVE  Arrives(j) /\ j.audience = "CUSTOMER" /\ j.recipient = "client"
  BY DEF Addressed
<1>1. /\ j.audience = "CUSTOMER" /\ j.recipient = "client" /\ j.channels = {"PUSH"}
      /\ j.contact = [userId |-> TRUE, email |-> FALSE, phone |-> FALSE]
  BY JobIs DEF buildReferralRewardReleasedJobData
<1>2. j.contact.userId
  BY <1>1
<1> QED BY <1>1, <1>2 DEF Arrives, Deliverable

(* Operations is reached by e-mail.                                         *)
LEMMA OperationsReached ==
  ASSUME NEW type
  PROVE  Reached({"EMAIL"}, Operations, type, "operations")
<1>1. Operations.email
  BY DEF Operations
<1> QED BY <1>1 DEF Reached

(* The job of a payout's status arrives.                                    *)
LEMMA PayoutJobs ==
  ASSUME NEW status, NEW owner
  PROVE  \E audience, recipient :
            Addressed(buildPayoutStatusChangedJobData(status, owner), audience, recipient)
<1>1. CASE status = "PAID_OUT"
  <2>1. getWhatsAppTemplateKey("PAYOUT_STATUS_CHANGED", "fleetOwner") = "payout"
    BY DEF getWhatsAppTemplateKey, FlightTypes, ConflictType
  <2>2. Written("PAYOUT_STATUS_CHANGED", "payoutStatus", "fleetOwner", status)
    BY <1>1 DEF Written
  <2>3. PICK channels : channels = WithoutUnconfigured(resolve("FLEET_OWNER", owner), "payout")
    OBVIOUS
  <2>4. Reached(channels, owner, "PAYOUT_STATUS_CHANGED", "fleetOwner")
    BY <2>1, <2>3, StaffOptional
  <2>5. Addressed(Job("PAYOUT_STATUS_CHANGED", "FLEET_OWNER", channels, "fleetOwner", owner,
                      "payoutStatus", status), "FLEET_OWNER", "fleetOwner")
    BY <2>2, <2>4, StaffJobArrives
  <2> QED BY <1>1, <2>3, <2>5 DEF buildPayoutStatusChangedJobData
<1>2. CASE status # "PAID_OUT"
  <2>1. Written("PAYOUT_STATUS_CHANGED", "payoutStatus", "operations", status)
    BY <1>2 DEF Written
  <2>2. Addressed(Job("PAYOUT_STATUS_CHANGED", "OPERATIONS", {"EMAIL"}, "operations",
                      Operations, "payoutStatus", status), "OPERATIONS", "operations")
    BY <2>1, OperationsReached, StaffJobArrives
  <2> QED BY <1>2, <2>2 DEF buildPayoutStatusChangedJobData
<1> QED BY <1>1, <1>2

(* A refund's notice to the customer takes WhatsApp only when its template  *)
(* is configured.                                                           *)
LEMMA RefundedJobArrives ==
  ASSUME NEW status \in Refunded, NEW contact
  PROVE  Addressed(Job("REFUND_STATUS_CHANGED", "CUSTOMER",
                       WithoutUnconfigured(resolve("CUSTOMER", contact), "refund"),
                       "client", contact, "refundStatus", status), "CUSTOMER", "client")
<1>1. PICK channels : channels = WithoutUnconfigured(resolve("CUSTOMER", contact), "refund")
  OBVIOUS
<1> SUFFICES ASSUME NEW j \in Job("REFUND_STATUS_CHANGED", "CUSTOMER", channels,
                                  "client", contact, "refundStatus", status)
             PROVE  Arrives(j) /\ j.audience = "CUSTOMER" /\ j.recipient = "client"
  BY <1>1 DEF Addressed
<1>2. /\ j.type = "REFUND_STATUS_CHANGED" /\ j.audience = "CUSTOMER" /\ j.channels = channels
      /\ j.recipient = "client" /\ j.contact = contact /\ j.kind = "refundStatus"
      /\ j.status = status
  BY JobIs
<1>3. buildEmailHtml(j)
  BY <1>2 DEF buildEmailHtml, FlightTypes
<1>4. getWhatsAppTemplateKey("REFUND_STATUS_CHANGED", "client") = "refund"
  BY DEF getWhatsAppTemplateKey, FlightTypes, ConflictType
<1>5. ASSUME NEW ch \in channels PROVE Deliverable(j, ch)
  <2>1. ch \in resolve("CUSTOMER", contact) /\ (ch = "WHATSAPP" => "refund" \in RConfig)
    BY <1>1, OptionalChannel
  <2> QED BY <1>2, <1>3, <1>4, <2>1, ChannelOf DEF Deliverable, contentSidMap
<1> QED BY <1>2, <1>5 DEF Arrives

(* The job of a refund's status arrives.                                    *)
LEMMA RefundJobs ==
  ASSUME NEW status, NEW customer
  PROVE  \E audience, recipient :
            Addressed(buildRefundStatusChangedJobData(status, customer), audience, recipient)
<1>1. CASE status \in Refunded
  BY <1>1, RefundedJobArrives DEF buildRefundStatusChangedJobData
<1>2. CASE status \notin Refunded
  <2>1. Written("REFUND_STATUS_CHANGED", "refundStatus", "operations", status)
    BY <1>2 DEF Written
  <2>2. Addressed(Job("REFUND_STATUS_CHANGED", "OPERATIONS", {"EMAIL"}, "operations",
                      Operations, "refundStatus", status), "OPERATIONS", "operations")
    BY <2>1, OperationsReached, StaffJobArrives
  <2> QED BY <1>2, <2>2 DEF buildRefundStatusChangedJobData
<1> QED BY <1>1, <1>2

(* An owner and a chauffeur have an e-mail address.                         *)
LEMMA ReviewJobs ==
  ASSUME NEW owner \in Staff, NEW chauffeur \in Staff,
         NEW j \in buildReviewReceivedJobData(owner, chauffeur)
  PROVE  /\ Arrives(j)
         /\ \A i \in buildReviewReceivedJobData(owner, chauffeur) :
               i.recipient = j.recipient => i = j
<1>1. ASSUME NEW who \in Staff, NEW type PROVE \A r : Reached({"EMAIL"}, who, type, r)
  <2>1. who.email
    BY DEF Staff
  <2> QED BY <2>1 DEF Reached
<1>2. Addressed(Job("REVIEW_RECEIVED", "FLEET_OWNER", {"EMAIL"}, "fleetOwner", owner,
                    "reviewReceived", "-"), "FLEET_OWNER", "fleetOwner")
  <2>1. Written("REVIEW_RECEIVED", "reviewReceived", "fleetOwner", "-")
    BY DEF Written
  <2> QED BY <2>1, <1>1, StaffJobArrives
<1>3. Addressed(Job("REVIEW_RECEIVED", "CHAUFFEUR", {"EMAIL"}, "chauffeur", chauffeur,
                    "reviewReceived", "-"), "CHAUFFEUR", "chauffeur")
  <2>1. Written("REVIEW_RECEIVED", "reviewReceived", "chauffeur", "-")
    BY DEF Written
  <2> QED BY <2>1, <1>1, StaffJobArrives
<1>4. Arrives(j)
  BY <1>2, <1>3 DEF buildReviewReceivedJobData, Addressed
<1>5. ASSUME NEW i \in buildReviewReceivedJobData(owner, chauffeur), i.recipient = j.recipient
      PROVE  i = j
  <2>1. ASSUME NEW k \in buildReviewReceivedJobData(owner, chauffeur)
        PROVE  \/ /\ k.recipient = "fleetOwner"
                  /\ k \in Job("REVIEW_RECEIVED", "FLEET_OWNER", {"EMAIL"}, "fleetOwner", owner,
                               "reviewReceived", "-")
               \/ /\ k.recipient = "chauffeur"
                  /\ k \in Job("REVIEW_RECEIVED", "CHAUFFEUR", {"EMAIL"}, "chauffeur", chauffeur,
                               "reviewReceived", "-")
    BY <1>2, <1>3 DEF buildReviewReceivedJobData, Addressed
  <2> QED BY <2>1, <1>5, OneJob
<1> QED BY <1>4, <1>5

AudienceOf(recipient) ==
    CASE recipient = "client" -> "CUSTOMER"
      [] recipient = "fleetOwner" -> "FLEET_OWNER"
      [] recipient = "chauffeur" -> "CHAUFFEUR"

(* The jobs of a flight's changes arrive, at whichever party they are for.  *)
LEMMA FlightJobs ==
  ASSUME NEW type \in FlightTypes, NEW recipient \in {"client", "fleetOwner", "chauffeur"},
         NEW contacts, recipient = "client" => \A who \in contacts : who.userId
  PROVE  Addressed(buildFlightUpdateJobData(type, recipient, contacts),
                   AudienceOf(recipient), recipient)
<1>1. SUFFICES ASSUME NEW j \in buildFlightUpdateJobData(type, recipient, contacts)
               PROVE  Arrives(j) /\ j.audience = AudienceOf(recipient) /\ j.recipient = recipient
  BY DEF Addressed
<1>2. PICK who \in contacts :
         j \in Job(type, AudienceOf(recipient),
                   IF recipient = "client" THEN {"PUSH"}
                   ELSE WithoutUnconfigured(resolve(AudienceOf(recipient), who), "flight"),
                   recipient, who, "flightUpdate", "-")
  BY <1>1 DEF buildFlightUpdateJobData, AudienceOf
<1>3. CASE recipient = "client"
  <2>1. j \in Job(type, "CUSTOMER", {"PUSH"}, "client", who, "flightUpdate", "-")
    BY <1>2, <1>3 DEF AudienceOf
  <2>2. /\ j.audience = "CUSTOMER" /\ j.recipient = "client" /\ j.channels = {"PUSH"}
        /\ j.contact = who
    BY <2>1, JobIs
  <2>3. who.userId
    BY <1>3
  <2> QED BY <1>3, <2>2, <2>3 DEF Arrives, Deliverable, AudienceOf
<1>4. CASE recipient # "client"
  <2>1. PICK audience : audience = AudienceOf(recipient)
    OBVIOUS
  <2>2. audience # "CUSTOMER"
    BY <1>4, <2>1 DEF AudienceOf
  <2>3. PICK channels : channels = WithoutUnconfigured(resolve(audience, who), "flight")
    OBVIOUS
  <2>4. getWhatsAppTemplateKey(type, recipient) = "flight"
    BY DEF getWhatsAppTemplateKey, FlightTypes, ConflictType
  <2>5. Reached(channels, who, type, recipient)
    BY <2>2, <2>3, <2>4, StaffOptional
  <2>6. Written(type, "flightUpdate", recipient, "-")
    BY DEF Written
  <2>7. Addressed(Job(type, audience, channels, recipient, who, "flightUpdate", "-"),
                  audience, recipient)
    BY <2>5, <2>6, StaffJobArrives
  <2>8. j \in Job(type, audience, channels, recipient, who, "flightUpdate", "-")
    BY <1>2, <1>4, <2>1, <2>3
  <2> QED BY <2>1, <2>7, <2>8 DEF Addressed
<1> QED BY <1>3, <1>4

-----------------------------------------------------------------------------
(* The events of one change.                                                *)

(* What NoticesReach says of the events of one change.                      *)
Complete(change, customer, events) ==
    /\ \A e \in events : \A j \in e.job : Arrives(j)
    /\ \A e, f \in events : e.key = f.key => e = f
    /\ change \notin {"none", "payout", "refund", "review", "flight"} =>
         (customer <=> \E e \in events :
              e.inbox /\ \A j \in e.job : j.audience = "CUSTOMER")

(* Events that go to somebody else than the customer.                       *)
Aside(events) ==
    /\ \A e \in events : \A j \in e.job : Arrives(j)
    /\ \A e, f \in events : e.key = f.key => e = f
    /\ \A e \in events : ~(e.inbox /\ \A j \in e.job : j.audience = "CUSTOMER")

Separate(first, others) == \A e \in first, f \in others : e.key # f.key

(* The fields of an event, which has a job or an inbox row.                 *)
LEMMA EventIs ==
  ASSUME NEW jobs, NEW inboxRow \in BOOLEAN, NEW key, NEW e \in Event(jobs, inboxRow, key)
  PROVE  /\ e = [job |-> jobs, inbox |-> inboxRow, key |-> key]
         /\ e.job = jobs /\ e.inbox = inboxRow /\ e.key = key
         /\ jobs # {} \/ inboxRow
BY DEF Event

(* An event with an inbox row is always written.                            *)
LEMMA EventWritten ==
  ASSUME NEW jobs, NEW key
  PROVE  \E e \in Event(jobs, TRUE, key) : e.job = jobs /\ e.inbox = TRUE
<1>1. PICK yes \in BOOLEAN : yes = TRUE
  OBVIOUS
<1>2. PICK e : e = [job |-> jobs, inbox |-> yes, key |-> key]
  OBVIOUS
<1>3. e.job = jobs /\ e.inbox = yes
  BY <1>2
<1>4. e \in Event(jobs, TRUE, key)
  BY <1>1, <1>2 DEF Event
<1> QED BY <1>1, <1>3, <1>4

(* The event for the customer completes his change.                         *)
LEMMA CustomersEvent ==
  ASSUME NEW change, NEW customer \in BOOLEAN, NEW jobs, NEW key, NEW recipient,
         Addressed(jobs, "CUSTOMER", recipient)
  PROVE  Complete(change, customer, Event(jobs, customer, key))
<1>1. ASSUME NEW e \in Event(jobs, customer, key)
      PROVE  /\ \A j \in e.job : Arrives(j) /\ j.audience = "CUSTOMER"
             /\ e.inbox = customer
             /\ \A f \in Event(jobs, customer, key) : e = f
  BY <1>1, EventIs DEF Addressed
<1>2. customer => \E e \in Event(jobs, customer, key) :
                     e.inbox /\ \A j \in e.job : j.audience = "CUSTOMER"
  <2> SUFFICES ASSUME customer = TRUE
               PROVE  \E e \in Event(jobs, TRUE, key) :
                         e.inbox /\ \A j \in e.job : j.audience = "CUSTOMER"
    OBVIOUS
  <2>1. PICK e \in Event(jobs, TRUE, key) : e.job = jobs /\ e.inbox = TRUE
    BY EventWritten
  <2> QED BY <2>1 DEF Addressed
<1> QED BY <1>1, <1>2 DEF Complete

(* A customer's event and those of others that are told apart from it       *)
(* complete it together.                                                    *)
LEMMA CompleteTogether ==
  ASSUME NEW change, NEW customer, NEW first, NEW others,
         Complete(change, customer, first), Aside(others), Separate(first, others)
  PROVE  Complete(change, customer, first \cup others)
BY DEF Complete, Aside, Separate

(* An event without an inbox row is one for others.                         *)
LEMMA AsideEvent ==
  ASSUME NEW jobs, NEW key, \A j \in jobs : Arrives(j)
  PROVE  Aside(Event(jobs, FALSE, key))
<1>1. PICK no \in BOOLEAN : no = FALSE
  OBVIOUS
<1>2. ASSUME NEW e \in Event(jobs, no, key)
      PROVE  /\ \A j \in e.job : Arrives(j)
             /\ e.inbox = no
             /\ \A f \in Event(jobs, no, key) : e = f
  BY <1>2, EventIs
<1>3. Aside(Event(jobs, no, key))
  BY <1>1, <1>2 DEF Aside
<1> QED BY <1>1, <1>3

(* Equal sets of such events are one.                                       *)
LEMMA AsideUnion ==
  ASSUME NEW sets, \A s \in sets : Aside(s), \A s, t \in sets : s = t
  PROVE  Aside(UNION sets)
BY DEF Aside

(* The empty set is such a set, too.                                        *)
LEMMA AsideNothing == Aside({})
BY DEF Aside

(* At most one chauffeur, so at most one job for him.                       *)
LEMMA OneFlightJob ==
  ASSUME NEW type, NEW chauffeurs \in Chauffeurs,
         NEW i \in buildFlightUpdateJobData(type, "chauffeur", chauffeurs),
         NEW j \in buildFlightUpdateJobData(type, "chauffeur", chauffeurs)
  PROVE  i = j
<1>1. ASSUME NEW k \in buildFlightUpdateJobData(type, "chauffeur", chauffeurs)
      PROVE  \E who \in chauffeurs :
               k \in Job(type, "CHAUFFEUR",
                         WithoutUnconfigured(resolve("CHAUFFEUR", who), "flight"),
                         "chauffeur", who, "flightUpdate", "-")
  BY DEF buildFlightUpdateJobData
<1>2. \A p, q \in chauffeurs : p = q
  BY DEF Chauffeurs
<1> QED BY <1>1, <1>2, OneJob

(* The chauffeurs' briefing arrives, with and without a link to complete    *)
(* the trip.                                                                *)
LEMMA BriefingArrives ==
  ASSUME NEW chauffeurs,
         NEW j \in buildFlightUpdateJobData("FLIGHT_ASSIGNMENT_SNAPSHOT", "chauffeur", chauffeurs)
  PROVE  Arrives(j) /\ Arrives([j EXCEPT !.completionLink = TRUE])
<1>1. "FLIGHT_ASSIGNMENT_SNAPSHOT" \in FlightTypes
  BY DEF FlightTypes
<1>2. Arrives(j)
  BY <1>1, FlightJobs DEF Addressed
<1>3. PICK who, channels :
         j \in Job("FLIGHT_ASSIGNMENT_SNAPSHOT", "CHAUFFEUR", channels, "chauffeur", who,
                   "flightUpdate", "-")
  BY DEF buildFlightUpdateJobData
<1>4. PICK k : k = [j EXCEPT !.completionLink = TRUE]
  OBVIOUS
<1>5. j = [type |-> "FLIGHT_ASSIGNMENT_SNAPSHOT", audience |-> "CHAUFFEUR",
           channels |-> channels, recipient |-> "chauffeur", contact |-> who,
           kind |-> "flightUpdate", status |-> "-", completionLink |-> FALSE]
  BY <1>3, JobIs
<1>6. /\ k.type = j.type /\ k.audience = j.audience /\ k.channels = j.channels
      /\ k.recipient = j.recipient /\ k.contact = j.contact /\ k.kind = j.kind
      /\ k.status = j.status
  BY <1>4, <1>5
<1>7. ASSUME NEW ch \in k.channels PROVE Deliverable(k, ch)
  <2>1. Deliverable(j, ch)
    BY <1>2, <1>6 DEF Arrives
  <2>2. buildEmailHtml(j) <=> buildEmailHtml(k)
    BY <1>6 DEF buildEmailHtml
  <2> QED BY <1>6, <2>1, <2>2 DEF Deliverable
<1> QED BY <1>2, <1>4, <1>7 DEF Arrives

(* Events with different keys are told apart.                               *)
LEMMA SeparateKeys ==
  ASSUME NEW first, NEW others, NEW key, NEW another, key # another,
         \A e \in first : e.key = key, \A e \in others : e.key = another
  PROVE  Separate(first, others)
BY DEF Separate

(* Events have the key they are given.                                      *)
LEMMA KeyOf ==
  ASSUME NEW jobs, NEW flag \in BOOLEAN, NEW key
  PROVE  \A e \in Event(jobs, flag, key) : e.key = key
BY EventIs

(* So have the events for others.                                           *)
LEMMA AsideKey ==
  ASSUME NEW jobs, NEW key, NEW e \in Event(jobs, FALSE, key)
  PROVE  e.key = key
<1>1. PICK no \in BOOLEAN : no = FALSE
  OBVIOUS
<1>2. e \in Event(jobs, no, key)
  BY <1>1
<1> QED BY <1>2, EventIs

(* A change of status reaches whom it should.                               *)
LEMMA StatusComplete ==
  ASSUME NEW c \in Customers, NEW withLink \in BOOLEAN, NEW chauffeurs \in Chauffeurs
  PROVE  Complete("status", c.registered, BookingStatusChangedHandler(c, withLink, chauffeurs))
<1>1. c.registered \in BOOLEAN
  BY DEF Customers
<1>2. Complete("status", c.registered,
               Event(buildBookingStatusChangeJobData(c), c.registered, <<"booking-status">>))
  BY <1>1, CustomerJobs, CustomersEvent
<1>3. PICK jobs : jobs = buildFlightUpdateJobData("FLIGHT_ASSIGNMENT_SNAPSHOT", "chauffeur", chauffeurs)
  OBVIOUS
<1>4. PICK links : links = UNION {Event({[j EXCEPT !.completionLink = TRUE]}, FALSE,
                                        <<"airport-completion-link">>) : j \in jobs}
  OBVIOUS
<1>5. Aside(links)
  <2>1. \A j \in jobs : Aside(Event({[j EXCEPT !.completionLink = TRUE]}, FALSE,
                                    <<"airport-completion-link">>))
    BY <1>3, BriefingArrives, AsideEvent
  <2>2. \A i, j \in jobs : i = j
    BY <1>3, OneFlightJob
  <2>3. PICK sets : sets = {Event({[j EXCEPT !.completionLink = TRUE]}, FALSE,
                                  <<"airport-completion-link">>) : j \in jobs}
    OBVIOUS
  <2>4. (\A s \in sets : Aside(s)) /\ \A s, t \in sets : s = t
    BY <2>1, <2>2, <2>3
  <2> QED BY <1>4, <2>3, <2>4, AsideUnion
<1>6. \A e \in links : e.key = <<"airport-completion-link">>
  <2>1. ASSUME NEW e \in links PROVE e.key = <<"airport-completion-link">>
    <3>1. PICK j \in jobs : e \in Event({[j EXCEPT !.completionLink = TRUE]}, FALSE,
                                        <<"airport-completion-link">>)
      BY <1>4, <2>1
    <3> QED BY <3>1, AsideKey
  <2> QED BY <2>1
<1>7. \A e \in Event(buildBookingStatusChangeJobData(c), c.registered, <<"booking-status">>) :
         e.key = <<"booking-status">>
  BY <1>1, KeyOf
<1>8. Separate(Event(buildBookingStatusChangeJobData(c), c.registered, <<"booking-status">>), links)
  BY <1>6, <1>7 DEF Separate
<1>9. Complete("status", c.registered,
               Event(buildBookingStatusChangeJobData(c), c.registered, <<"booking-status">>)
                 \cup links)
  BY <1>2, <1>5, <1>8, CompleteTogether
<1>10. CASE withLink
  BY <1>3, <1>4, <1>9, <1>10 DEF BookingStatusChangedHandler
<1>11. CASE ~withLink
  BY <1>2, <1>11 DEF BookingStatusChangedHandler
<1> QED BY <1>10, <1>11

(* So does the assignment of a chauffeur.                                   *)
LEMMA AssignedComplete ==
  ASSUME NEW c \in Customers, NEW withFlight \in BOOLEAN, NEW chauffeurs \in Chauffeurs
  PROVE  Complete("assigned", c.registered, ChauffeurAssignedHandler(c, chauffeurs, withFlight))
<1>1. c.registered \in BOOLEAN
  BY DEF Customers
<1>2. PICK told : told = Event(buildChauffeurAssignedJobData(c), c.registered,
                               <<"chauffeur-assigned">>)
  OBVIOUS
<1>3. Complete("assigned", c.registered, told)
  BY <1>1, <1>2, CustomerJobs, CustomersEvent
<1>4. PICK jobs : jobs = buildFlightUpdateJobData("FLIGHT_ASSIGNMENT_SNAPSHOT", "chauffeur", chauffeurs)
  OBVIOUS
<1>5. PICK sets : sets = {Event({j}, FALSE, <<"flight-assignment">>) : j \in jobs}
  OBVIOUS
<1>6. Aside(UNION sets)
  <2>1. \A j \in jobs : Aside(Event({j}, FALSE, <<"flight-assignment">>))
    <3>1. ASSUME NEW j \in jobs PROVE Aside(Event({j}, FALSE, <<"flight-assignment">>))
      <4>1. Arrives(j)
        BY <1>4, BriefingArrives
      <4> QED BY <4>1, AsideEvent
    <3> QED BY <3>1
  <2>2. \A i, j \in jobs : i = j
    BY <1>4, OneFlightJob
  <2>3. (\A s \in sets : Aside(s)) /\ \A s, t \in sets : s = t
    BY <1>5, <2>1, <2>2
  <2> QED BY <2>3, AsideUnion
<1>7. Separate(told, UNION sets)
  <2>1. ASSUME NEW e \in UNION sets PROVE e.key = <<"flight-assignment">>
    <3>1. PICK j \in jobs : e \in Event({j}, FALSE, <<"flight-assignment">>)
      BY <1>5, <2>1
    <3> QED BY <3>1, AsideKey
  <2>2. \A e \in UNION sets : e.key = <<"flight-assignment">>
    BY <2>1
  <2>3. \A e \in told : e.key = <<"chauffeur-assigned">>
    BY <1>1, <1>2, KeyOf
  <2> QED BY <2>2, <2>3 DEF Separate
<1>8. Complete("assigned", c.registered, told \cup UNION sets)
  BY <1>3, <1>6, <1>7, CompleteTogether
<1>9. CASE withFlight
  BY <1>2, <1>4, <1>5, <1>8, <1>9 DEF ChauffeurAssignedHandler
<1>10. CASE ~withFlight
  BY <1>2, <1>3, <1>10 DEF ChauffeurAssignedHandler
<1> QED BY <1>9, <1>10

(* So do an edit and an extension.                                          *)
LEMMA CustomerChanges ==
  ASSUME NEW c \in Customers, NEW byStaff \in BOOLEAN
  PROVE  /\ Complete("updated", c.registered, BookingUpdatedHandler(c, byStaff))
         /\ Complete("extended", c.registered, BookingExtensionConfirmedHandler(c))
<1>1. c.registered \in BOOLEAN
  BY DEF Customers
<1> QED BY <1>1, CustomerJobs, CustomersEvent
        DEF BookingUpdatedHandler, BookingExtensionConfirmedHandler

(* What is written for customer and owner completes a change.               *)
LEMMA TwoPartiesComplete ==
  ASSUME NEW c \in Customers, NEW jobs, NEW name, NEW change,
         Addressed(jobs.customer, "CUSTOMER", "client"),
         Addressed(jobs.owner, "FLEET_OWNER", "fleetOwner")
  PROVE  Complete(change, c.registered, TwoParties(jobs, c.registered, name))
<1>1. c.registered \in BOOLEAN
  BY DEF Customers
<1>2. PICK told : told = Event(jobs.customer, c.registered, <<name, "client">>)
  OBVIOUS
<1>3. PICK also : also = Event(jobs.owner, FALSE, <<name, "fleet-owner">>)
  OBVIOUS
<1>4. Complete(change, c.registered, told)
  BY <1>1, <1>2, CustomersEvent
<1>5. Aside(also)
  <2>1. \A j \in jobs.owner : Arrives(j)
    BY DEF Addressed
  <2> QED BY <1>3, <2>1, AsideEvent
<1>6. Separate(told, also)
  <2>1. \A e \in told : e.key = <<name, "client">>
    BY <1>1, <1>2, KeyOf
  <2>2. \A e \in also : e.key = <<name, "fleet-owner">>
    BY <1>3, AsideKey
  <2> QED BY <2>1, <2>2 DEF Separate
<1>7. Complete(change, c.registered, told \cup also)
  BY <1>4, <1>5, <1>6, CompleteTogether
<1> QED BY <1>2, <1>3, <1>7 DEF TwoParties

(* It is written for a confirmation and a cancellation.                     *)
LEMMA TwoPartyChanges ==
  ASSUME NEW c \in Customers, NEW owner
  PROVE  /\ Complete("confirmed", c.registered, BookingConfirmedHandler(c, owner))
         /\ Complete("cancelled", c.registered, BookingCancellationHandler(c, owner))
<1>1. /\ Addressed(buildBookingConfirmedJobData(c, owner).customer, "CUSTOMER", "client")
      /\ Addressed(buildBookingConfirmedJobData(c, owner).owner, "FLEET_OWNER", "fleetOwner")
  BY CustomerJobs, OwnerJobs
<1>2. /\ Addressed(buildBookingCancellationJobData(c, owner).customer, "CUSTOMER", "client")
      /\ Addressed(buildBookingCancellationJobData(c, owner).owner, "FLEET_OWNER", "fleetOwner")
  BY CustomerJobs, OwnerJobs
<1>3. Complete("confirmed", c.registered, BookingConfirmedHandler(c, owner))
  BY <1>1, TwoPartiesComplete DEF BookingConfirmedHandler
<1>4. Complete("cancelled", c.registered, BookingCancellationHandler(c, owner))
  BY <1>2, TwoPartiesComplete DEF BookingCancellationHandler
<1> QED BY <1>3, <1>4

(* A chauffeur is a user, and users have an e-mail address: there is always *)
(* a job for him, so the row with his inbox flag never passes for the       *)
(* customer's.                                                              *)
LEMMA ChauffeurHasReminder ==
  ASSUME NEW type, NEW d \in Staff
  PROVE  createReminderJobData(type, "chauffeur", d) # {}
<1>1. d.email
  BY DEF Staff
<1>2. "EMAIL" \in resolve("CHAUFFEUR", d)
  BY <1>1 DEF resolve, deriveNotificationChannels
<1>3. PICK channels : channels = resolve("CHAUFFEUR", d)
  OBVIOUS
<1>4. Job(type, "CHAUFFEUR", channels, "chauffeur", d, "bookingReminder", "-") # {}
  BY <1>2, <1>3 DEF Job
<1> QED BY <1>3, <1>4 DEF createReminderJobData

(* A reminder reaches whom it should.                                       *)
LEMMA ReminderComplete ==
  ASSUME NEW c \in Customers, NEW chauffeurs \in Chauffeurs,
         NEW type \in {"BOOKING_REMINDER_START", "BOOKING_REMINDER_END"}
  PROVE  Complete("reminder", c.registered, BookingReminderHandler(type, c, chauffeurs))
<1>1. c.registered \in BOOLEAN /\ (chauffeurs # {}) \in BOOLEAN
  BY DEF Customers
<1>2. PICK jobs : jobs = buildBookingReminderJobData(type, c, chauffeurs)
  OBVIOUS
<1>3. PICK mine : mine = {j \in jobs : j.recipient = "client"}
  OBVIOUS
<1>4. PICK his : his = {j \in jobs : j.recipient = "chauffeur"}
  OBVIOUS
<1>5. ASSUME NEW j \in jobs
      PROVE  /\ Arrives(j)
             /\ \/ j.recipient = "client" /\ j.audience = "CUSTOMER"
                \/ j.recipient = "chauffeur" /\ j.audience = "CHAUFFEUR"
  <2>1. \/ j \in createReminderJobData(type, "client", getCustomerDetails(c))
        \/ \E d \in chauffeurs : j \in createReminderJobData(type, "chauffeur", d)
    BY <1>2 DEF buildBookingReminderJobData
  <2> QED BY <2>1, ReminderJobs DEF Addressed
<1>6. chauffeurs # {} => his # {}
  <2> SUFFICES ASSUME NEW d \in chauffeurs PROVE his # {}
    OBVIOUS
  <2>1. d \in Staff
    BY DEF Chauffeurs
  <2>2. PICK j : j \in createReminderJobData(type, "chauffeur", d)
    BY <2>1, ChauffeurHasReminder
  <2>3. j.recipient = "chauffeur"
    BY <2>2, ReminderJobs DEF Addressed
  <2>4. j \in jobs
    BY <1>2, <2>2 DEF buildBookingReminderJobData
  <2> QED BY <1>4, <2>3, <2>4
<1>7. Addressed(mine, "CUSTOMER", "client") /\ Addressed(his, "CHAUFFEUR", "chauffeur")
  BY <1>3, <1>4, <1>5 DEF Addressed
<1>8. PICK told : told = Event(mine, c.registered, <<"booking-reminder", "client", type>>)
  OBVIOUS
<1>9. PICK flag \in BOOLEAN : flag = (chauffeurs # {})
  OBVIOUS
<1>10. PICK also : also = Event(his, flag, <<"booking-reminder", "chauffeur", type>>)
  OBVIOUS
<1>11. Complete("reminder", c.registered, told)
  BY <1>1, <1>7, <1>8, CustomersEvent
<1>12. Aside(also)
  <2>1. ASSUME NEW e \in also
        PROVE  /\ e.job = his /\ e.inbox = flag
               /\ \A f \in also : e = f
    BY <1>10, <2>1, EventIs
  <2>2. ASSUME NEW e \in also PROVE ~(e.inbox /\ \A j \in e.job : j.audience = "CUSTOMER")
    <3> SUFFICES ASSUME e.inbox PROVE \E j \in e.job : j.audience # "CUSTOMER"
      OBVIOUS
    <3>1. flag
      BY <2>1
    <3>2. PICK j \in his : TRUE
      BY <1>6, <1>9, <3>1
    <3>3. j.audience = "CHAUFFEUR"
      BY <1>7 DEF Addressed
    <3> QED BY <2>1, <3>3
  <2>3. \A e \in also : \A j \in e.job : Arrives(j)
    BY <1>7, <2>1 DEF Addressed
  <2>4. \A e, f \in also : e.key = f.key => e = f
    BY <2>1
  <2> QED BY <2>2, <2>3, <2>4 DEF Aside
<1>13. Separate(told, also)
  <2>1. \A e \in told : e.key = <<"booking-reminder", "client", type>>
    BY <1>1, <1>8, KeyOf
  <2>2. \A e \in also : e.key = <<"booking-reminder", "chauffeur", type>>
    BY <1>9, <1>10, KeyOf
  <2> QED BY <2>1, <2>2 DEF Separate
<1>14. Complete("reminder", c.registered, told \cup also)
  BY <1>11, <1>12, <1>13, CompleteTogether
<1>15. BookingReminderHandler(type, c, chauffeurs) = told \cup also
  BY <1>2, <1>3, <1>4, <1>8, <1>9, <1>10 DEF BookingReminderHandler
<1> QED BY <1>14, <1>15

(* So do rewards, payouts and refunds.                                      *)
LEMMA MoneyComplete ==
  ASSUME NEW status, NEW owner, NEW customer
  PROVE  /\ Complete("referral", TRUE, ReferralRewardReleasedHandler)
         /\ Complete("payout", FALSE, PayoutStatusChangedHandler(status, owner))
         /\ Complete("refund", FALSE, RefundStatusChangedHandler(status, customer))
<1>1. Complete("referral", TRUE, ReferralRewardReleasedHandler)
  <2>1. PICK yes \in BOOLEAN : yes = TRUE
    OBVIOUS
  <2>2. Complete("referral", yes, Event(buildReferralRewardReleasedJobData, yes,
                                        <<"referral-reward-released">>))
    BY ReferralJobs, CustomersEvent
  <2> QED BY <2>1, <2>2 DEF ReferralRewardReleasedHandler
<1>2. ASSUME NEW events, Aside(events)
      PROVE  Complete("payout", FALSE, events) /\ Complete("refund", FALSE, events)
  BY <1>2 DEF Aside, Complete
<1>3. Aside(PayoutStatusChangedHandler(status, owner))
  <2>1. \A j \in buildPayoutStatusChangedJobData(status, owner) : Arrives(j)
    BY PayoutJobs DEF Addressed
  <2> QED BY <2>1, AsideEvent DEF PayoutStatusChangedHandler
<1>4. Aside(RefundStatusChangedHandler(status, customer))
  <2>1. \A j \in buildRefundStatusChangedJobData(status, customer) : Arrives(j)
    BY RefundJobs DEF Addressed
  <2> QED BY <2>1, AsideEvent DEF RefundStatusChangedHandler
<1> QED BY <1>1, <1>2, <1>3, <1>4

(* So does a review.                                                        *)
LEMMA ReviewComplete ==
  ASSUME NEW owner \in Staff, NEW chauffeur \in Staff
  PROVE  Complete("review", FALSE, ReviewReceivedHandler(owner, chauffeur))
<1>1. PICK jobs : jobs = buildReviewReceivedJobData(owner, chauffeur)
  OBVIOUS
<1>2. PICK events : events = ReviewReceivedHandler(owner, chauffeur)
  OBVIOUS
<1>3. PICK no \in BOOLEAN : no = FALSE
  OBVIOUS
<1>4. ASSUME NEW e \in events
      PROVE  \E j \in jobs : /\ e = [job |-> {j}, inbox |-> no,
                                     key |-> <<"review-received", j.recipient>>]
                             /\ e.job = {j} /\ e.key = <<"review-received", j.recipient>>
  <2>1. PICK j \in jobs : e \in Event({j}, no, <<"review-received", j.recipient>>)
    BY <1>1, <1>2, <1>3 DEF ReviewReceivedHandler
  <2> QED BY <2>1, EventIs
<1>5. \A i, j \in jobs : Arrives(j) /\ (i.recipient = j.recipient => i = j)
  BY <1>1, ReviewJobs
<1>6. ASSUME NEW e \in events, NEW f \in events, e.key = f.key PROVE e = f
  <2>1. PICK i \in jobs : /\ e = [job |-> {i}, inbox |-> no,
                                 key |-> <<"review-received", i.recipient>>]
                          /\ e.key = <<"review-received", i.recipient>>
    BY <1>4
  <2>2. PICK j \in jobs : /\ f = [job |-> {j}, inbox |-> no,
                                 key |-> <<"review-received", j.recipient>>]
                          /\ f.key = <<"review-received", j.recipient>>
    BY <1>4
  <2>3. i.recipient = j.recipient
    BY <1>6, <2>1, <2>2
  <2>4. i = j
    BY <1>5, <2>3
  <2> QED BY <2>1, <2>2, <2>4
<1>7. ASSUME NEW e \in events, NEW i \in e.job PROVE Arrives(i)
  <2>1. PICK j \in jobs : e.job = {j}
    BY <1>4
  <2>2. i = j
    BY <2>1
  <2> QED BY <1>5, <2>2
<1> QED BY <1>2, <1>6, <1>7 DEF Complete

(* The rows of one flight event: one for each booking and party, under a    *)
(* key that names both.                                                     *)
LEMMA FlightComplete ==
  ASSUME NEW c \in Customers, NEW owner \in Staff, NEW chauffeurs \in Chauffeurs,
         NEW n \in FlightNotifications, NEW bookings
  PROVE  Complete("flight", c.registered,
                  FlightStatusUpdatedHandler({n}, bookings, c, owner, chauffeurs))
<1>1. n.type \in FlightTypes
  BY DEF FlightNotifications, FlightTypes
<1>2. PICK yes \in BOOLEAN, no \in BOOLEAN : yes = TRUE /\ no = FALSE
  OBVIOUS
<1> DEFINE jobOf(r) == buildFlightUpdateJobData(n.type, r,
                           getFlightUpdateRecipient(r, c, owner, chauffeurs))
           RowsOf(b, r) == Event(jobOf(r), IF r = "client" THEN yes ELSE no, FlightKey(n, b, r))
<1>3. PICK events : events = FlightStatusUpdatedHandler({n}, bookings, c, owner, chauffeurs)
  OBVIOUS
<1>4. ASSUME NEW e \in events
      PROVE  \E b \in bookings, r \in {"client", "fleetOwner", "chauffeur"} :
                e \in RowsOf(b, r) /\ (r = "client" => c.registered)
  <2>0. e \in events
    BY <1>4
  <2>1. PICK b \in bookings :
           \/ e \in Event(jobOf("fleetOwner"), FALSE, FlightKey(n, b, "fleetOwner"))
           \/ e \in Event(jobOf("chauffeur"), FALSE, FlightKey(n, b, "chauffeur"))
           \/ /\ c.registered
              /\ e \in Event(jobOf("client"), TRUE, FlightKey(n, b, "client"))
    <3> HIDE DEF jobOf
    <3> DEFINE Part(m, b) ==
            (IF jobOf("fleetOwner") = {} THEN {}
             ELSE Event(jobOf("fleetOwner"), FALSE, FlightKey(m, b, "fleetOwner")))
            \cup (IF jobOf("chauffeur") = {} THEN {}
                  ELSE Event(jobOf("chauffeur"), FALSE, FlightKey(m, b, "chauffeur")))
            \cup (IF c.registered /\ m.forCustomer
                  THEN Event(jobOf("client"), TRUE, FlightKey(m, b, "client"))
                  ELSE {})
    <3>1. events = UNION {Part(m, b) : m \in {n}, b \in bookings}
      BY <1>3 DEF FlightStatusUpdatedHandler, jobOf
    <3>2. PICK m \in {n}, b \in bookings : e \in Part(m, b)
      <4> HIDE DEF Part
      <4> QED BY <2>0, <3>1
    <3>3. m = n
      OBVIOUS
    <3> QED BY <3>2, <3>3
  <2> HIDE DEF jobOf
  <2> QED BY <1>2, <2>1
<1>5. ASSUME NEW r \in {"client", "fleetOwner", "chauffeur"}, r = "client" => c.registered
      PROVE  \A j \in jobOf(r) : Arrives(j)
  <2>1. PICK contacts : contacts = getFlightUpdateRecipient(r, c, owner, chauffeurs)
    OBVIOUS
  <2>2. r = "client" => \A who \in contacts : who.userId
    <3> SUFFICES ASSUME r = "client", NEW who \in contacts PROVE who.userId
      OBVIOUS
    <3>1. contacts = {[userId |-> TRUE, email |-> FALSE, phone |-> FALSE]}
      BY <1>5, <2>1 DEF getFlightUpdateRecipient
    <3> QED BY <3>1
  <2>3. Addressed(buildFlightUpdateJobData(n.type, r, contacts), AudienceOf(r), r)
    BY <1>1, <2>2, FlightJobs
  <2> QED BY <2>1, <2>3 DEF Addressed
<1>6. ASSUME NEW b, NEW r, NEW e \in RowsOf(b, r)
      PROVE  /\ e = [job |-> jobOf(r), inbox |-> IF r = "client" THEN yes ELSE no,
                     key |-> FlightKey(n, b, r)]
             /\ e.job = jobOf(r) /\ e.key = FlightKey(n, b, r)
  <2> HIDE DEF jobOf
  <2>1. (IF r = "client" THEN yes ELSE no) \in BOOLEAN
    OBVIOUS
  <2> QED BY <2>1, EventIs
<1>7. ASSUME NEW e \in events
      PROVE  \E b \in bookings, r \in {"client", "fleetOwner", "chauffeur"} :
               /\ e = [job |-> jobOf(r), inbox |-> IF r = "client" THEN yes ELSE no,
                       key |-> FlightKey(n, b, r)]
               /\ e.key = FlightKey(n, b, r)
               /\ \A j \in e.job : Arrives(j)
  <2>1. PICK b \in bookings, r \in {"client", "fleetOwner", "chauffeur"} :
           e \in RowsOf(b, r) /\ (r = "client" => c.registered)
    BY <1>4
  <2>2. \A j \in jobOf(r) : Arrives(j)
    BY <1>5, <2>1
  <2> HIDE DEF jobOf, RowsOf
  <2> QED BY <1>6, <2>1, <2>2
<1> HIDE DEF jobOf
<1>8. \A e, f \in events : e.key = f.key => e = f
  <2> SUFFICES ASSUME NEW e \in events, NEW f \in events, e.key = f.key PROVE e = f
    OBVIOUS
  <2>1. PICK b, r : /\ e = [job |-> jobOf(r), inbox |-> IF r = "client" THEN yes ELSE no,
                            key |-> FlightKey(n, b, r)]
                    /\ e.key = FlightKey(n, b, r)
    BY <1>7
  <2>2. PICK a, q : /\ f = [job |-> jobOf(q), inbox |-> IF q = "client" THEN yes ELSE no,
                            key |-> FlightKey(n, a, q)]
                    /\ f.key = FlightKey(n, a, q)
    BY <1>7
  <2>3. a = b /\ q = r
    BY <2>1, <2>2 DEF FlightKey
  <2> QED BY <2>1, <2>2, <2>3
<1>9. \A e \in events : \A j \in e.job : Arrives(j)
  BY <1>7
<1> QED BY <1>3, <1>8, <1>9 DEF Complete

-----------------------------------------------------------------------------
(* One change at a time.                                                    *)

(* A change that is completed and routed reaches whom it should.            *)
LEMMA RoutedWell ==
  ASSUME NEW change, NEW customer, NEW events, Complete(change, customer, events),
         Route(change, customer, events)
  PROVE  NoticesReach'
<1>1. /\ routed'.change = change /\ routed'.customer = customer
      /\ routed'.events = events
  BY DEF Route
<1> QED BY <1>1 DEF NoticesReach, EveryJobDeliverable, KeysSeparateEvents,
                    InboxReflectsChange, Complete, Arrives

(* The changes of bookings do.                                              *)
LEMMA BookingChangesReach ==
  ASSUME routeBookingChange
  PROVE  NoticesReach'
<1>1. PICK c \in Customers, owner \in Staff, chauffeurs \in Chauffeurs, flag \in BOOLEAN,
           type \in {"BOOKING_REMINDER_START", "BOOKING_REMINDER_END"} :
        \/ Route("status", c.registered, BookingStatusChangedHandler(c, flag, chauffeurs))
        \/ Route("updated", c.registered, BookingUpdatedHandler(c, flag))
        \/ Route("assigned", c.registered, ChauffeurAssignedHandler(c, chauffeurs, flag))
        \/ Route("confirmed", c.registered, BookingConfirmedHandler(c, owner))
        \/ Route("cancelled", c.registered, BookingCancellationHandler(c, owner))
        \/ Route("extended", c.registered, BookingExtensionConfirmedHandler(c))
        \/ Route("reminder", c.registered, BookingReminderHandler(type, c, chauffeurs))
  BY DEF routeBookingChange
<1>2. CASE Route("status", c.registered, BookingStatusChangedHandler(c, flag, chauffeurs))
  BY <1>2, StatusComplete, RoutedWell
<1>3. CASE Route("updated", c.registered, BookingUpdatedHandler(c, flag))
  BY <1>3, CustomerChanges, RoutedWell
<1>4. CASE Route("assigned", c.registered, ChauffeurAssignedHandler(c, chauffeurs, flag))
  BY <1>4, AssignedComplete, RoutedWell
<1>5. CASE Route("confirmed", c.registered, BookingConfirmedHandler(c, owner))
  BY <1>5, TwoPartyChanges, RoutedWell
<1>6. CASE Route("cancelled", c.registered, BookingCancellationHandler(c, owner))
  BY <1>6, TwoPartyChanges, RoutedWell
<1>7. CASE Route("extended", c.registered, BookingExtensionConfirmedHandler(c))
  BY <1>7, CustomerChanges, RoutedWell
<1>8. CASE Route("reminder", c.registered, BookingReminderHandler(type, c, chauffeurs))
  BY <1>8, ReminderComplete, RoutedWell
<1> QED BY <1>1, <1>2, <1>3, <1>4, <1>5, <1>6, <1>7, <1>8

(* The changes of money do.                                                 *)
LEMMA MoneyChangesReach ==
  ASSUME routeMoneyChange
  PROVE  NoticesReach'
<1>1. PICK owner \in Staff, c \in Customers :
        \/ Route("referral", TRUE, ReferralRewardReleasedHandler)
        \/ \E status \in {"PAID_OUT", "FAILED"} :
              Route("payout", FALSE, PayoutStatusChangedHandler(status, owner))
        \/ \E status \in Refunded \cup {"REFUND_FAILED", "REFUND_REVIEW_REQUIRED"} :
              Route("refund", FALSE,
                    RefundStatusChangedHandler(status, getCustomerDetails(c)))
        \/ \E chauffeur \in Staff :
              Route("review", FALSE, ReviewReceivedHandler(owner, chauffeur))
  BY DEF routeMoneyChange
<1>2. CASE Route("referral", TRUE, ReferralRewardReleasedHandler)
  BY <1>2, MoneyComplete, RoutedWell
<1>3. ASSUME NEW status, Route("payout", FALSE, PayoutStatusChangedHandler(status, owner))
      PROVE  NoticesReach'
  BY <1>3, MoneyComplete, RoutedWell
<1>4. ASSUME NEW status,
             Route("refund", FALSE, RefundStatusChangedHandler(status, getCustomerDetails(c)))
      PROVE  NoticesReach'
  BY <1>4, MoneyComplete, RoutedWell
<1>5. ASSUME NEW chauffeur \in Staff,
             Route("review", FALSE, ReviewReceivedHandler(owner, chauffeur))
      PROVE  NoticesReach'
  BY <1>5, ReviewComplete, RoutedWell
<1> QED BY <1>1, <1>2, <1>3, <1>4, <1>5

(* The changes of flights do.                                               *)
LEMMA FlightChangesReach ==
  ASSUME routeFlightChange(FALSE)
  PROVE  NoticesReach'
<1>1. PICK c \in Customers, owner \in Staff, chauffeurs \in Chauffeurs,
           n \in FlightNotifications :
        Route("flight", c.registered,
              FlightStatusUpdatedHandler({n} \cup {}, RBookings, c, owner, chauffeurs))
  BY DEF routeFlightChange
<1>2. {n} \cup {} = {n}
  OBVIOUS
<1>3. Route("flight", c.registered,
            FlightStatusUpdatedHandler({n}, RBookings, c, owner, chauffeurs))
  BY <1>1, <1>2
<1> QED BY <1>3, FlightComplete, RoutedWell

(***************************************************************************)
(* Whatever change a handler of the outbox is given - for any number of    *)
(* bookings on a flight and any choice of configured WhatsApp templates -  *)
(* each job it writes can be delivered on every channel that               *)
(* deriveNotificationChannels gave it, no two of its rows share a dedupe   *)
(* key, and a registered customer's inbox has the change.                  *)
(***************************************************************************)
THEOREM NoticesStayReaching == RSpec => []NoticesReach
  <1>1. RInit => NoticesReach
    BY DEF RInit, NoticesReach, EveryJobDeliverable, KeysSeparateEvents, InboxReflectsChange
  <1>2. NoticesReach /\ [RNext]_rvars => NoticesReach'
    <2>1. ASSUME RNext PROVE NoticesReach'
      BY <2>1, BookingChangesReach, MoneyChangesReach, FlightChangesReach DEF RNext
    <2>2. ASSUME NoticesReach, UNCHANGED rvars PROVE NoticesReach'
      BY <2>2 DEF rvars, NoticesReach, EveryJobDeliverable, KeysSeparateEvents,
                  InboxReflectsChange
    <2> QED BY <2>1, <2>2
  <1> QED BY <1>1, <1>2, PTL DEF RSpec

=============================================================================
