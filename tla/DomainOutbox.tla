---------------------------- MODULE DomainOutbox ----------------------------
(***************************************************************************)
(* The transactional outbox that drives referral completion and payout     *)
(* processing (src/modules/domain-outbox).  A business transaction inserts *)
(* a row per event; any number of dispatcher processes poll the rows,      *)
(* claim them one by one and put an attempt-specific job on a BullMQ queue;*)
(* workers take the jobs, check that the row still is at their attempt,    *)
(* run the business operation and write the outcome back.                  *)
(*                                                                         *)
(* Every database statement, queue call and operation is one step, so all  *)
(* processes interleave between any two of them.  A process may die at any *)
(* point, a statement or call may fail with or without having taken        *)
(* effect, and a worker may lose its BullMQ lock while it still runs.      *)
(*                                                                         *)
(* Time is a counter of coarse units read by every process (one clock);    *)
(* ids, payloads, error texts and log lines are left out.                  *)
(***************************************************************************)
EXTENDS Integers, FiniteSets

CONSTANTS
    Events,           \* outbox rows: one per (eventType, aggregateId), see dedupeKey
    PayoutEvents,     \* the rows whose eventType is PAYOUT_PROCESSING
    Dispatchers,      \* processes running DomainOutboxScheduler
    Workers,          \* slots running DomainOutboxProcessor
    NoEvent,          \* "no row in hand"
    NoWorker,         \* "no worker holds the job's lock"
    Limit,            \* batch size of one pass (25 in the code)
    MaxAttempts,      \* MAX_ATTEMPTS
    JobAttempts,      \* JOB_ATTEMPTS, BullMQ tries of one job
    MaxStalled,       \* BullMQ's maxStalledCount
    ProcessingStale,  \* PROCESSING_STALE_AFTER_MS
    DispatchStale,    \* DISPATCH_STALE_AFTER_MS
    Backoff,          \* Backoff[a]: computeNextAttemptAt's delay after attempt a
    MaxPass,          \* longest a dispatcher spends in one pass
    Prompt,           \* TRUE: time only passes when nobody has work in hand
    MaxClaims,        \* bound on a row's attempts counter
    MaxFaults,        \* bound on crashes, failed statements and lost locks
    MaxTime           \* bound on the clock

ASSUME EventsAssumption ==
    /\ PayoutEvents \subseteq Events
    /\ NoEvent \notin Events
    /\ NoWorker \notin Workers

ASSUME BoundsAssumption ==
    /\ {Limit, MaxAttempts, JobAttempts, ProcessingStale, MaxClaims}
          \subseteq Nat \ {0}
    /\ {MaxStalled, MaxPass, MaxFaults, MaxTime} \subseteq Nat
    /\ Prompt \in BOOLEAN

(* The delays the code's constants must keep: a pass never lasts as long as *)
(* the redrive delay of a dispatched row, and a retry is never immediate.   *)
ASSUME DelaysAssumption ==
    /\ DispatchStale \in Nat /\ MaxPass < DispatchStale
    /\ Backoff \in [1..MaxClaims -> Nat \ {0}]

VARIABLES
    now,      \* the clock
    row,      \* DomainOutboxEvent rows
    pass,     \* per dispatcher: where its processPendingEvents call stands
    job,      \* BullMQ jobs, one per (row, attempt): the deterministic jobId
    work,     \* per worker: where its process(job) call stands
    applied,  \* rows whose business operation has returned successfully
    faults    \* number of faults so far

vars == <<now, row, pass, job, work, applied, faults>>

Attempts == 1..MaxClaims
JobIds   == Events \X Attempts

Retryable == {"PENDING", "FAILED"}
InFlight  == {"PROCESSING", "DISPATCHED"}
Settled   == {"COMPLETED", "DEAD_LETTER"}
Statuses  == {"ABSENT"} \cup Retryable \cup InFlight \cup Settled

(* What findMany returned for a row when the pass began. *)
Snapshots == [event: Events, status: Retryable \cup InFlight,
              attempts: Nat, nextAttemptAt: Nat]

IdlePass == [pc |-> "idle", startedAt |-> 0, todo |-> {},
             event |-> NoEvent, attempt |-> 0]
IdleWork == [pc |-> "idle", event |-> NoEvent, attempt |-> 0, final |-> FALSE]
FinishedJob == [state |-> "finished", made |-> 0, stalls |-> 0, owner |-> NoWorker]
NoJob    == [state |-> "none", made |-> 0, stalls |-> 0, owner |-> NoWorker]

Rows   == [status: Statuses, attempts: Nat, nextAttemptAt: Nat, updatedAt: Nat]
Passes == [pc: {"idle", "scan", "add", "mark", "fail"}, startedAt: Nat,
           todo: SUBSET Snapshots, event: Events \cup {NoEvent},
           attempt: 0..MaxClaims]
Jobs   == [state: {"none", "waiting", "active", "finished"},
           made: Nat, stalls: Nat, owner: Workers \cup {NoWorker}]
Works  == [pc: {"idle", "resolve", "run", "complete", "failed", "fatal"},
           event: Events \cup {NoEvent}, attempt: 0..MaxClaims, final: BOOLEAN]

(***************************************************************************)
(* Every variable has its type; a holder of a claim or of a job names a    *)
(* real row and a real attempt.                                            *)
(***************************************************************************)
TypeOK ==
    /\ now \in Nat
    /\ row \in [Events -> Rows]
    /\ pass \in [Dispatchers -> Passes]
    /\ job \in [JobIds -> Jobs]
    /\ work \in [Workers -> Works]
    /\ applied \subseteq Events
    /\ faults \in Nat
    /\ \A d \in Dispatchers : pass[d].pc \in {"add", "mark", "fail"} =>
            <<pass[d].event, pass[d].attempt>> \in JobIds
    /\ \A w \in Workers : work[w].pc # "idle" =>
            <<work[w].event, work[w].attempt>> \in JobIds

Init ==
    /\ now = 0
    /\ row = [e \in Events |-> [status |-> "ABSENT", attempts |-> 0,
                                nextAttemptAt |-> 0, updatedAt |-> 0]]
    /\ pass = [d \in Dispatchers |-> IdlePass]
    /\ job = [j \in JobIds |-> NoJob]
    /\ work = [w \in Workers |-> IdleWork]
    /\ applied = {}
    /\ faults = 0

-----------------------------------------------------------------------------
(* DomainOutboxService: the statements on a row. *)

(* createMany with skipDuplicates: a second insert of the same dedupeKey is *)
(* dropped.                                                                 *)
createMany(e) ==
    /\ row[e].status = "ABSENT"
    /\ row' = [row EXCEPT ![e] = [status |-> "PENDING", attempts |-> 0,
                                  nextAttemptAt |-> now, updatedAt |-> now]]
    /\ UNCHANGED <<now, pass, job, work, applied, faults>>

(* The where clause of the claim: the status class the snapshot was in, and *)
(* the deadline that goes with that class, tested against the pass's clock. *)
ClaimWhereNoRedrive(seenStatus, r, t) ==
    \/ /\ seenStatus \in Retryable
       /\ r.status \in Retryable
       /\ r.nextAttemptAt <= t
    \/ /\ seenStatus = "PROCESSING"
       /\ r.status = "PROCESSING"
       /\ r.updatedAt + ProcessingStale <= t

ClaimWhere(seenStatus, r, t) ==
    \/ /\ seenStatus \in Retryable
       /\ r.status \in Retryable
       /\ r.nextAttemptAt <= t
    \/ /\ seenStatus = "PROCESSING"
       /\ r.status = "PROCESSING"
       /\ r.updatedAt + ProcessingStale <= t
    \/ /\ seenStatus = "DISPATCHED"
       /\ r.status = "DISPATCHED"
       /\ r.nextAttemptAt <= t

Claimed(r) ==
    [r EXCEPT !.status = "PROCESSING", !.attempts = @ + 1, !.updatedAt = now]

(* The fence of resolveExecutableEvent, markCompleted and markFailed. *)
AtAttemptUnfenced(r, a) == r.status \in InFlight

AtAttempt(r, a) == r.attempts = a /\ r.status \in InFlight

CompletedRow(r) == [r EXCEPT !.status = "COMPLETED", !.updatedAt = now]

markCompleted(e, a) ==
    row' = IF AtAttempt(row[e], a)
             THEN [row EXCEPT ![e] = CompletedRow(@)]
             ELSE row

FailedStatus(a, terminal) ==
    IF terminal \/ a >= MaxAttempts THEN "DEAD_LETTER" ELSE "FAILED"

FailedRow(r, a, terminal) ==
    [r EXCEPT !.status = FailedStatus(a, terminal),
              !.nextAttemptAt = now + Backoff[a], !.updatedAt = now]

markFailed(e, a, terminal) ==
    row' = IF AtAttempt(row[e], a)
             THEN [row EXCEPT ![e] = FailedRow(@, a, terminal)]
             ELSE row

(* The update after queue.add: it tests the status and not the attempt. *)
DispatchedRow(r, startedAt) ==
    [r EXCEPT !.status = "DISPATCHED",
              !.nextAttemptAt = startedAt + DispatchStale, !.updatedAt = now]

markDispatched(e, startedAt) ==
    row' = IF row[e].status = "PROCESSING"
             THEN [row EXCEPT ![e] = DispatchedRow(@, startedAt)]
             ELSE row

Fault == faults < MaxFaults /\ faults' = faults + 1

-----------------------------------------------------------------------------
(* processPendingEvents / processEvent: one pass of a dispatcher. *)

Candidates == {e \in Events : ClaimWhere(row[e].status, row[e], now)}

Snapshot(e) == [event |-> e, status |-> row[e].status,
                attempts |-> row[e].attempts,
                nextAttemptAt |-> row[e].nextAttemptAt]

(* findMany: at most Limit candidates, those with the earliest deadlines. *)
Batch(b) ==
    /\ b \subseteq Candidates
    /\ \/ b = Candidates /\ Cardinality(b) <= Limit
       \/ /\ Cardinality(b) = Limit
          /\ \A e \in b, f \in Candidates \ b :
                row[e].nextAttemptAt <= row[f].nextAttemptAt

(* The cron fires while isProcessing is false.  A pass that finds nothing   *)
(* changes nothing and is a stuttering step.                                *)
StartPass(d) ==
    /\ pass[d].pc = "idle"
    /\ \E b \in SUBSET Candidates :
        /\ b # {} /\ Batch(b)
        /\ pass' = [pass EXCEPT ![d] =
              [pc |-> "scan", startedAt |-> now, todo |-> {Snapshot(e) : e \in b},
               event |-> NoEvent, attempt |-> 0]]
    /\ UNCHANGED <<now, row, job, work, applied, faults>>

(* The next snapshot of the loop: candidates come in deadline order. *)
NextInPass(d, s) ==
    /\ pass[d].pc = "scan"
    /\ s \in pass[d].todo
    /\ \A r \in pass[d].todo : s.nextAttemptAt <= r.nextAttemptAt

Advance(d, pc, s, a) ==
    pass' = [pass EXCEPT ![d] =
        [pc |-> pc, startedAt |-> pass[d].startedAt, todo |-> pass[d].todo \ {s},
         event |-> IF a = 0 THEN NoEvent ELSE s.event, attempt |-> a]]

(* The claim matched: currentAttempt is computed from the snapshot. *)
ClaimEventNoWhere(d) ==
    /\ \E s \in pass[d].todo :
        /\ NextInPass(d, s)
        /\ s.attempts < MaxClaims
        /\ row[s.event].attempts < MaxClaims
        /\ row' = [row EXCEPT ![s.event] = Claimed(@)]
        /\ Advance(d, "add", s, s.attempts + 1)
    /\ UNCHANGED <<now, job, work, applied, faults>>

ClaimEvent(d) ==
    /\ \E s \in pass[d].todo :
        /\ NextInPass(d, s)
        /\ ClaimWhere(s.status, row[s.event], pass[d].startedAt)
        /\ s.attempts < MaxClaims
        /\ row[s.event].attempts < MaxClaims
        /\ row' = [row EXCEPT ![s.event] = Claimed(@)]
        /\ Advance(d, "add", s, s.attempts + 1)
    /\ UNCHANGED <<now, job, work, applied, faults>>

(* Another process got there first: count = 0, the loop goes on. *)
SkipEvent(d) ==
    /\ \E s \in pass[d].todo :
        /\ NextInPass(d, s)
        /\ ~ClaimWhere(s.status, row[s.event], pass[d].startedAt)
        /\ Advance(d, "scan", s, 0)
    /\ UNCHANGED <<now, row, job, work, applied, faults>>

(* The claim statement fails, before or after it took effect; the loop logs *)
(* the error and goes on with the next snapshot.                            *)
ClaimError(d) ==
    /\ \E s \in pass[d].todo :
        /\ NextInPass(d, s)
        /\ Advance(d, "scan", s, 0)
        /\ \/ UNCHANGED row
           \/ /\ ClaimWhere(s.status, row[s.event], pass[d].startedAt)
              /\ row[s.event].attempts < MaxClaims
              /\ row' = [row EXCEPT ![s.event] = Claimed(@)]
    /\ Fault
    /\ UNCHANGED <<now, job, work, applied>>

(* queue.add: BullMQ ignores a job whose jobId is already known. *)
Enqueued(j) ==
    IF job[j].state = "none" THEN [job EXCEPT ![j] = [NoJob EXCEPT !.state = "waiting"]]
                             ELSE job

Holding(d) == <<pass[d].event, pass[d].attempt>>

GoTo(d, pc) == pass' = [pass EXCEPT ![d].pc = pc]

NextEvent(d) == pass' = [pass EXCEPT
    ![d].pc = "scan", ![d].event = NoEvent, ![d].attempt = 0]

dispatchEvent(d) ==
    /\ pass[d].pc = "add"
    /\ job' = Enqueued(Holding(d))
    /\ GoTo(d, "mark")
    /\ UNCHANGED <<now, row, work, applied, faults>>

(* queue.add throws, whether or not Redis accepted the job. *)
DispatchErrorSwallowed(d) ==
    /\ pass[d].pc = "add"
    /\ job' \in {job, Enqueued(Holding(d))}
    /\ GoTo(d, "mark")
    /\ Fault
    /\ UNCHANGED <<now, row, work, applied>>

DispatchError(d) ==
    /\ pass[d].pc = "add"
    /\ job' \in {job, Enqueued(Holding(d))}
    /\ GoTo(d, "fail")
    /\ Fault
    /\ UNCHANGED <<now, row, work, applied>>

MarkDispatched(d) ==
    /\ pass[d].pc = "mark"
    /\ markDispatched(pass[d].event, pass[d].startedAt)
    /\ NextEvent(d)
    /\ UNCHANGED <<now, job, work, applied, faults>>

(* The update fails: the catch block marks the attempt failed. *)
MarkDispatchedError(d) ==
    /\ pass[d].pc = "mark"
    /\ \/ UNCHANGED row
       \/ markDispatched(pass[d].event, pass[d].startedAt)
    /\ GoTo(d, "fail")
    /\ Fault
    /\ UNCHANGED <<now, job, work, applied>>

MarkDispatchFailed(d) ==
    /\ pass[d].pc = "fail"
    /\ markFailed(pass[d].event, pass[d].attempt, FALSE)
    /\ NextEvent(d)
    /\ UNCHANGED <<now, job, work, applied, faults>>

(* markFailed fails too: the loop of the pass logs it and goes on. *)
MarkDispatchFailedError(d) ==
    /\ pass[d].pc = "fail"
    /\ \/ UNCHANGED row
       \/ markFailed(pass[d].event, pass[d].attempt, FALSE)
    /\ NextEvent(d)
    /\ Fault
    /\ UNCHANGED <<now, job, work, applied>>

EndPass(d) ==
    /\ pass[d].pc = "scan"
    /\ pass[d].todo = {}
    /\ pass' = [pass EXCEPT ![d] = IdlePass]
    /\ UNCHANGED <<now, row, job, work, applied, faults>>

CrashDispatcher(d) ==
    /\ pass[d].pc # "idle"
    /\ pass' = [pass EXCEPT ![d] = IdlePass]
    /\ Fault
    /\ UNCHANGED <<now, row, job, work, applied>>

-----------------------------------------------------------------------------
(* DomainOutboxProcessor.process, and the BullMQ worker around it. *)

Doing(w) == <<work[w].event, work[w].attempt>>

(* isFinalAttempt: attemptsMade is what the job held when it was taken. *)
isFinalAttempt(j) == job[j].made + 1 >= JobAttempts

TakeJob(w) ==
    /\ work[w].pc = "idle"
    /\ \E j \in JobIds :
        /\ job[j].state = "waiting"
        /\ job' = [job EXCEPT ![j].state = "active", ![j].owner = w]
        /\ work' = [work EXCEPT ![w] = [pc |-> "resolve", event |-> j[1],
                                        attempt |-> j[2], final |-> isFinalAttempt(j)]]
    /\ UNCHANGED <<now, row, pass, applied, faults>>

(* process returned: BullMQ completes the job if the worker still holds it. *)
JobReturns(w) ==
    /\ job' = IF job[Doing(w)].owner = w
                THEN [job EXCEPT ![Doing(w)] = FinishedJob]
                ELSE job
    /\ work' = [work EXCEPT ![w] = IdleWork]

Retried(k) == [k EXCEPT !.state = "waiting", !.made = @ + 1, !.owner = NoWorker]
Unstalled(k) == [k EXCEPT !.state = "waiting", !.stalls = @ + 1, !.owner = NoWorker]

(* process threw: BullMQ retries the job until its attempts are used up. *)
JobThrows(w) ==
    /\ job' = IF job[Doing(w)].owner = w
                THEN [job EXCEPT ![Doing(w)] =
                        IF isFinalAttempt(Doing(w)) THEN FinishedJob ELSE Retried(@)]
                ELSE job
    /\ work' = [work EXCEPT ![w] = IdleWork]

At(w, pc) == work' = [work EXCEPT ![w].pc = pc]

resolveExecutableEvent(w) ==
    /\ work[w].pc = "resolve"
    /\ \/ /\ AtAttempt(row[work[w].event], work[w].attempt)
          /\ At(w, "run")
          /\ UNCHANGED job
       \/ /\ ~AtAttempt(row[work[w].event], work[w].attempt)
          /\ JobReturns(w)
    /\ UNCHANGED <<now, row, pass, applied, faults>>

(* resolveExecutableEvent is outside the try block: its error leaves the    *)
(* row alone.                                                               *)
ResolveError(w) ==
    /\ work[w].pc = "resolve"
    /\ JobThrows(w)
    /\ Fault
    /\ UNCHANGED <<now, row, pass, applied>>

OperationSucceeds(w) ==
    /\ work[w].pc = "run"
    /\ applied' = applied \cup {work[w].event}
    /\ At(w, "complete")
    /\ UNCHANGED <<now, row, pass, job, faults>>

(* The operation throws: only the job's last try touches the row. *)
OperationThrowsSwallowed(w) ==
    /\ work[w].pc = "run"
    /\ At(w, "complete")
    /\ UNCHANGED <<now, row, pass, job, applied, faults>>

OperationThrows(w) ==
    /\ work[w].pc = "run"
    /\ \/ work[w].final /\ At(w, "failed") /\ UNCHANGED job
       \/ ~work[w].final /\ JobThrows(w)
    /\ UNCHANGED <<now, row, pass, applied, faults>>

(* PayoutBookingNotFound / PayoutBookingNotCompleted. *)
OperationRefuses(w) ==
    /\ work[w].pc = "run"
    /\ work[w].event \in PayoutEvents
    /\ At(w, "fatal")
    /\ UNCHANGED <<now, row, pass, job, applied, faults>>

MarkCompleted(w) ==
    /\ work[w].pc = "complete"
    /\ markCompleted(work[w].event, work[w].attempt)
    /\ JobReturns(w)
    /\ UNCHANGED <<now, pass, applied, faults>>

(* markCompleted is outside the try block: the whole job is retried. *)
MarkCompletedError(w) ==
    /\ work[w].pc = "complete"
    /\ \/ UNCHANGED row
       \/ markCompleted(work[w].event, work[w].attempt)
    /\ JobThrows(w)
    /\ Fault
    /\ UNCHANGED <<now, pass, applied>>

MarkFailed(w) ==
    /\ work[w].pc = "failed"
    /\ markFailed(work[w].event, work[w].attempt, FALSE)
    /\ JobThrows(w)
    /\ UNCHANGED <<now, pass, applied, faults>>

(* Its error is logged; the operation's error is rethrown either way. *)
MarkFailedError(w) ==
    /\ work[w].pc = "failed"
    /\ \/ UNCHANGED row
       \/ markFailed(work[w].event, work[w].attempt, FALSE)
    /\ JobThrows(w)
    /\ Fault
    /\ UNCHANGED <<now, pass, applied>>

MarkFatal(w) ==
    /\ work[w].pc = "fatal"
    /\ markFailed(work[w].event, work[w].attempt, TRUE)
    /\ JobReturns(w)
    /\ UNCHANGED <<now, pass, applied, faults>>

MarkFatalError(w) ==
    /\ work[w].pc = "fatal"
    /\ \/ UNCHANGED row
       \/ markFailed(work[w].event, work[w].attempt, TRUE)
    /\ JobThrows(w)
    /\ Fault
    /\ UNCHANGED <<now, pass, applied>>

CrashWorker(w) ==
    /\ work[w].pc # "idle"
    /\ work' = [work EXCEPT ![w] = IdleWork]
    /\ Fault
    /\ UNCHANGED <<now, row, pass, job, applied>>

(* The lock expires under a worker that still runs (a blocked event loop). *)
LoseLock(w) ==
    /\ work[w].pc # "idle"
    /\ job[Doing(w)].owner = w
    /\ job' = [job EXCEPT ![Doing(w)].owner = NoWorker]
    /\ Fault
    /\ UNCHANGED <<now, row, pass, work, applied>>

(* BullMQ's stalled check: an active job nobody holds goes back to the      *)
(* queue, or fails once it has stalled more than maxStalledCount times.     *)
RecoverStalled(j) ==
    /\ job[j].state = "active"
    /\ job[j].owner \in Workers => work[job[j].owner].pc = "idle" \/ Doing(job[j].owner) # j
    /\ job' = [job EXCEPT ![j] =
        IF job[j].stalls >= MaxStalled THEN FinishedJob ELSE Unstalled(@)]
    /\ UNCHANGED <<now, row, pass, work, applied, faults>>

-----------------------------------------------------------------------------
(* The clock moves while some row waits for a deadline, never past the      *)
(* longest pass.  Prompt adds that nobody has anything left to do at this   *)
(* instant.                                                                 *)
AwaitsDeadline(e) ==
    \/ row[e].status \in Retryable \cup {"DISPATCHED"} /\ now < row[e].nextAttemptAt
    \/ row[e].status = "PROCESSING" /\ now < row[e].updatedAt + ProcessingStale

Quiet ==
    /\ \A d \in Dispatchers : pass[d].pc = "idle"
    /\ \A w \in Workers : work[w].pc = "idle"
    /\ \A j \in JobIds : job[j].state \notin {"waiting", "active"}
    /\ Candidates = {}

Tick ==
    /\ now < MaxTime
    /\ \E e \in Events : AwaitsDeadline(e)
    /\ \A d \in Dispatchers : pass[d].pc # "idle" => now < pass[d].startedAt + MaxPass
    /\ Prompt => Quiet
    /\ now' = now + 1
    /\ UNCHANGED <<row, pass, job, work, applied, faults>>

DispatcherStep(d) ==
    \/ StartPass(d) \/ ClaimEvent(d) \/ SkipEvent(d) \/ dispatchEvent(d)
    \/ MarkDispatched(d) \/ MarkDispatchFailed(d) \/ EndPass(d)

DispatcherFault(d) ==
    \/ ClaimError(d) \/ DispatchError(d) \/ MarkDispatchedError(d)
    \/ MarkDispatchFailedError(d) \/ CrashDispatcher(d)

WorkerStep(w) ==
    \/ TakeJob(w) \/ resolveExecutableEvent(w) \/ OperationSucceeds(w)
    \/ OperationThrows(w) \/ OperationRefuses(w) \/ MarkCompleted(w)
    \/ MarkFailed(w) \/ MarkFatal(w)

WorkerFault(w) ==
    \/ ResolveError(w) \/ MarkCompletedError(w) \/ MarkFailedError(w)
    \/ MarkFatalError(w) \/ CrashWorker(w) \/ LoseLock(w)

Next ==
    \/ \E e \in Events : createMany(e)
    \/ \E d \in Dispatchers : DispatcherStep(d) \/ DispatcherFault(d)
    \/ \E w \in Workers : WorkerStep(w) \/ WorkerFault(w)
    \/ \E j \in JobIds : RecoverStalled(j)
    \/ Tick

Spec == Init /\ [][Next]_vars

(* The cron fires every five seconds, an idle BullMQ worker takes a waiting *)
(* job, a running call ends, the stalled check runs and the clock advances. *)
(* Nothing is assumed about faults or about the outcome of an operation.    *)
Fairness ==
    /\ \A d \in Dispatchers : WF_vars(DispatcherStep(d))
    /\ \A w \in Workers : WF_vars(WorkerStep(w))
    /\ \A j \in JobIds : WF_vars(RecoverStalled(j))
    /\ WF_vars(Tick)

FairSpec == Spec /\ Fairness

-----------------------------------------------------------------------------
(* What the outbox promises. *)

(***************************************************************************)
(* The jobId built from a claim is never one the queue has already seen,   *)
(* and no two dispatchers ever hold the same (row, attempt): otherwise     *)
(* BullMQ would silently drop the job and the delivery would sit out the   *)
(* redrive delay.  The attempt in the jobId comes from the snapshot of the *)
(* pass, not from the row (processEvent, currentAttempt), and the claim    *)
(* does not compare the two.                                               *)
(***************************************************************************)
HoldsClaim(d) == pass[d].pc \in {"add", "mark", "fail"}

FreshDispatch ==
    /\ \A d \in Dispatchers : pass[d].pc = "add" => job[Holding(d)].state = "none"
    /\ \A d1, d2 \in Dispatchers :
          d1 # d2 /\ HoldsClaim(d1) /\ HoldsClaim(d2) => Holding(d1) # Holding(d2)

(***************************************************************************)
(* A row is only written off or retried by a holder of its current         *)
(* attempt: what a worker or a dispatcher left over from an earlier attempt*)
(* writes is ignored (the attempts fence of markCompleted and markFailed). *)
(***************************************************************************)
HeldAt(e, a) ==
    \/ \E w \in Workers : /\ work[w].pc \in {"complete", "failed", "fatal"}
                          /\ Doing(w) = <<e, a>>
    \/ \E d \in Dispatchers : pass[d].pc = "fail" /\ Holding(d) = <<e, a>>

FencedByAttempt ==
    [][\A e \in Events :
          row'[e] # row[e] /\ row'[e].status \in Settled \cup {"FAILED"} =>
              HeldAt(e, row[e].attempts)]_vars

(***************************************************************************)
(* "Redis acceptance marks a delivery DISPATCHED": a DISPATCHED row has    *)
(* had the job of its current attempt accepted by the queue.               *)
(***************************************************************************)
DispatchedMeansAccepted ==
    \A e \in Events : row[e].status = "DISPATCHED" =>
        row[e].attempts \in Attempts /\ job[<<e, row[e].attempts>>].state # "none"

(***************************************************************************)
(* MAX_ATTEMPTS is only overrun by faults: every claim of a row beyond     *)
(* MaxAttempts is paid for by a crash, a failed statement or a lost lock.  *)
(***************************************************************************)
RetryBudget == \A e \in Events : row[e].attempts <= MaxAttempts + faults

(***************************************************************************)
(* The outbox implements a durable delivery: COMPLETED only after the      *)
(* operation has returned successfully, and COMPLETED and DEAD_LETTER are  *)
(* final against every late or duplicated statement.                       *)
(***************************************************************************)
DeliveryOf(status) ==
    CASE status = "ABSENT"      -> "absent"
      [] status = "COMPLETED"   -> "acknowledged"
      [] status = "DEAD_LETTER" -> "dropped"
      [] OTHER                  -> "open"

DeliveryState == [e \in Events |-> DeliveryOf(row[e].status)]

Delivery == INSTANCE AbstractDelivery WITH delivery <- DeliveryState

ImplementsDelivery == Delivery!Spec

(***************************************************************************)
(* Every delivery ends COMPLETED or DEAD_LETTER, whatever crashes, failed  *)
(* statements and thrown operations it meets on the way.                   *)
(***************************************************************************)
EventuallySettled ==
    \A e \in Events : row[e].status # "ABSENT" ~> row[e].status \in Settled

(***************************************************************************)
(* Between two statements of a dispatcher the rows tell where a delivery   *)
(* stands: with prompt passes a row that says DISPATCHED has its job in    *)
(* the queue (processPendingEvents), and no row is claimed more often than *)
(* its attempts and the faults allow (markFailed), also when queue.add     *)
(* fails and then the statement that records it.                           *)
(***************************************************************************)
DispatchSound == TypeOK /\ DispatchedMeansAccepted /\ RetryBudget

=============================================================================
