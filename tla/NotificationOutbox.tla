------------------------- MODULE NotificationOutbox -------------------------
(***************************************************************************)
(* The notification outbox (src/modules/notification): create() writes the *)
(* rows a handler builds, in the caller's transaction or one by one; every *)
(* process polls the rows from a cron, claims them and puts one job per    *)
(* row on the notifications queue under a jobId derived from the row.      *)
(*                                                                         *)
(* A row's deadlines are flags instead of instants: due says that          *)
(* nextAttemptAt has passed, stale that updatedAt is older than            *)
(* processingStaleAfterMs.  A pass compares with the clock it read when it *)
(* began, so it keeps the rows whose deadline had passed then and loses    *)
(* one when somebody rewrites it.                                          *)
(***************************************************************************)
EXTENDS Integers, FiniteSets, Sequences, SequencesExt

CONSTANTS
    NRows,         \* dedupe keys
    Fanout,        \* the events one create() call without a transaction writes
    Invalid,       \* rows whose payload does not parse
    NProcesses,    \* processes running NotificationOutboxScheduler
    NLimit,        \* limit of one pass (25)
    NConcurrency,  \* processingConcurrency (5)
    NTicks,        \* maxConsecutiveTicks (5)
    NMaxAttempts,  \* maxAttempts (8)
    NMaxCalls,     \* bound on the runs of the caller of create()
    NMaxFaults     \* bound on failed statements and calls and on crashes

ASSUME NAssumption ==
    /\ Fanout \in Seq(NRows) /\ Invalid \subseteq NRows
    /\ IsFiniteSet(NRows) /\ IsFiniteSet(NProcesses)
    /\ {NLimit, NConcurrency, NTicks, NMaxAttempts} \subseteq Nat \ {0}
    /\ {NMaxCalls, NMaxFaults} \subseteq Nat

VARIABLES
    nrow,    \* NotificationOutboxEvent rows
    inbox,   \* NotificationInbox rows, by dedupe key
    call,    \* the create() call in progress: its next event, 0 when idle
    calls,   \* runs of the caller so far
    cron,    \* per process: the pass in progress
    accepted,\* per row: jobs the queue accepted under the row's jobId
    nfaults

nvars == <<nrow, inbox, call, calls, cron, accepted, nfaults>>

NOpen    == {"PENDING", "FAILED"}
NFinal   == {"DISPATCHED", "DEAD_LETTER"}
NStatus  == {"ABSENT", "PROCESSING"} \cup NOpen \cup NFinal
NoHand   == [pc |-> "none", attempt |-> 0]
IdleCron == [tick |-> 0, processed |-> 0, due |-> {}, stale |-> {},
             hand |-> [e \in NRows |-> NoHand]]

(* Outbox rows, their jobs and the processes that dispatch them are of     *)
(* their kinds (notification-outbox.service.ts).                           *)
NTypeOK ==
    /\ nrow \in [NRows -> [status: NStatus, attempts: Nat,
                           due: BOOLEAN, stale: BOOLEAN]]
    /\ inbox \subseteq NRows
    /\ call \in 0..Len(Fanout) /\ calls \in 0..NMaxCalls
    /\ cron \in [NProcesses ->
                   [tick: 0..NTicks, processed: 0..Cardinality(NRows),
                    due: SUBSET NRows, stale: SUBSET NRows,
                    hand: [NRows -> [pc: {"none", "todo", "add", "mark", "fail"},
                                     attempt: Nat]]]]
    /\ accepted \in [NRows -> Nat]
    /\ nfaults \in 0..NMaxFaults

(* c runs of the caller and f of the faults are spent, and the rows in done *)
(* are settled.                                                             *)
NInitWith(c, f, done) ==
    /\ nrow = [e \in NRows |->
                 [status |-> IF e \notin done THEN "ABSENT"
                             ELSE IF e \in Invalid THEN "DEAD_LETTER" ELSE "DISPATCHED",
                  attempts |-> IF e \in done THEN 1 ELSE 0,
                  due |-> TRUE, stale |-> FALSE]]
    /\ inbox = done
    /\ call = 0 /\ calls = c
    /\ cron = [p \in NProcesses |-> IdleCron]
    /\ accepted = [e \in NRows |-> IF e \in done \ Invalid THEN 1 ELSE 0]
    /\ nfaults = f

NInit == NInitWith(0, 0, {})

NFault == nfaults < NMaxFaults /\ nfaults' = nfaults + 1

-----------------------------------------------------------------------------
(* create() and writeEvent(). *)

(* writeEvent: both inserts skip a dedupeKey that is already there. *)
writeEvent(e) ==
    /\ inbox' = inbox \cup {e}
    /\ nrow' = IF nrow[e].status = "ABSENT"
                 THEN [nrow EXCEPT ![e].status = "PENDING"] ELSE nrow

(* The cron of the caller starts create() without a transaction. *)
create ==
    /\ call = 0 /\ calls < NMaxCalls /\ Fanout # <<>>
    /\ call' = 1 /\ calls' = calls + 1
    /\ UNCHANGED <<nrow, inbox, cron, accepted, nfaults>>

(* One event of the loop, in a transaction of its own ... *)
createEvent ==
    /\ call # 0
    /\ writeEvent(Fanout[call])
    /\ call' = IF call = Len(Fanout) THEN 0 ELSE call + 1
    /\ UNCHANGED <<calls, cron, accepted, nfaults>>

(* ... which may fail, and takes the rest of the call with it. *)
createAborts ==
    /\ call # 0 /\ NFault
    /\ call' = 0
    /\ UNCHANGED <<nrow, inbox, calls, cron, accepted>>

(* create() with a transaction: the rows appear together with the change. *)
createInTransaction ==
    \E E \in SUBSET {e \in NRows \ Range(Fanout) : nrow[e].status = "ABSENT"} :
        /\ E # {}
        /\ inbox' = inbox \cup E
        /\ nrow' = [e \in NRows |-> IF e \in E
                      THEN [nrow[e] EXCEPT !.status = "PENDING"] ELSE nrow[e]]
        /\ UNCHANGED <<call, calls, cron, accepted, nfaults>>

-----------------------------------------------------------------------------
(* NotificationOutboxScheduler and processPendingEvents. *)

InHand(p) == {e \in NRows : cron[p].hand[e].pc # "none"}

(* Without the takeover of claims that grew old. *)
CandidateOpenOnly(e) == nrow[e].status \in NOpen /\ nrow[e].due

Candidate(e) ==
    \/ nrow[e].status \in NOpen /\ nrow[e].due
    \/ nrow[e].status = "PROCESSING" /\ nrow[e].stale

(* One tick: the query, at most limit rows.  The in-flight guard keeps one  *)
(* loop per process: it only starts when the process is idle, and the next  *)
(* tick follows a tick that processed something.                            *)
AnotherTick(c) == c.processed > 0 /\ c.tick < NTicks

processNotificationOutbox(p) ==
    /\ InHand(p) = {}
    /\ IF cron[p].tick = 0 THEN \E e \in NRows : Candidate(e)
                           ELSE AnotherTick(cron[p])
    /\ \E E \in SUBSET {e \in NRows : Candidate(e)} :
         /\ Cardinality(E) <= NLimit
         /\ Cardinality(E) < NLimit => \A e \in NRows : Candidate(e) => e \in E
         /\ cron' = [cron EXCEPT ![p] =
              [tick |-> IF E = {} THEN 0 ELSE cron[p].tick + 1, processed |-> 0,
               due   |-> {e \in E : nrow[e].status \in NOpen},
               stale |-> {e \in E : nrow[e].status = "PROCESSING"},
               hand  |-> [e \in NRows |->
                  IF e \notin E THEN NoHand
                  ELSE [pc |-> "todo",
                        attempt |-> IF nrow[e].status = "PROCESSING"
                                      THEN nrow[e].attempts
                                      ELSE nrow[e].attempts + 1]]]]
    /\ UNCHANGED <<nrow, inbox, call, calls, accepted, nfaults>>

(* The loop ends after an empty tick or after maxConsecutiveTicks. *)
cronEnds(p) ==
    /\ cron[p].tick > 0 /\ InHand(p) = {}
    /\ cron[p].processed = 0 \/ cron[p].tick = NTicks
    /\ cron' = [cron EXCEPT ![p] = IdleCron]
    /\ UNCHANGED <<nrow, inbox, call, calls, accepted, nfaults>>

(* Everybody's view of a row's deadline after the row has been rewritten. *)
Forget(c, e, dueToo) ==
    [q \in NProcesses |-> [c[q] EXCEPT
        !.stale = @ \ {e}, !.due = IF dueToo THEN @ \ {e} ELSE @]]

Hand(c, p, e, h) == [c EXCEPT ![p].hand[e] = h]

(* The claim: a conditional update on status and deadline, which increments *)
(* attempts unless it takes over a stale PROCESSING row.                    *)
claimEvent(p, e) ==
    /\ cron[p].hand[e].pc = "todo"
    /\ Cardinality({f \in InHand(p) : cron[p].hand[f].pc # "todo"}) < NConcurrency
    /\ LET reclaim == e \in cron[p].stale /\ nrow[e].status = "PROCESSING"
           take    == e \in cron[p].due /\ nrow[e].status \in NOpen
       IN  IF reclaim \/ take
           THEN /\ nrow' = [nrow EXCEPT ![e] =
                     [nrow[e] EXCEPT !.status = "PROCESSING", !.stale = FALSE,
                        !.attempts = IF take THEN nrow[e].attempts + 1 ELSE @]]
                /\ cron' = Hand(Forget(cron, e, FALSE), p, e,
                     [pc |-> IF e \in Invalid THEN "fail" ELSE "add",
                      attempt |-> cron[p].hand[e].attempt])
           ELSE /\ cron' = Hand(cron, p, e, NoHand)
                /\ UNCHANGED nrow
    /\ UNCHANGED <<inbox, call, calls, accepted, nfaults>>

(* queue.add under jobId notification-outbox-<id>: the queue keeps the job  *)
(* for dispatchedJobRetentionSeconds and ignores a second add.              *)
EnqueueOnce(e) ==
    accepted' = [accepted EXCEPT ![e] = IF @ = 0 THEN 1 ELSE @]

(* enqueuePreparedNotification: succeeds, or fails with or without effect. *)
enqueuePreparedNotification(p, e) ==
    /\ cron[p].hand[e].pc = "add"
    /\ \/ /\ EnqueueOnce(e)
          /\ cron' = [cron EXCEPT ![p].hand[e].pc = "mark"]
          /\ UNCHANGED nfaults
       \/ /\ NFault
          /\ EnqueueOnce(e) \/ UNCHANGED accepted
          /\ cron' = [cron EXCEPT ![p].hand[e].pc = "fail"]
    /\ UNCHANGED <<nrow, inbox, call, calls>>

(* The row is marked DISPATCHED by id, whoever holds it by now; when the    *)
(* update fails the event goes through the catch block.                     *)
markDispatched(p, e) ==
    /\ cron[p].hand[e].pc = "mark"
    /\ \/ /\ nrow' = [nrow EXCEPT ![e] =
               [nrow[e] EXCEPT !.status = "DISPATCHED", !.stale = FALSE]]
          /\ cron' = [Hand(Forget(cron, e, FALSE), p, e, NoHand)
                        EXCEPT ![p].processed = @ + 1]
          /\ UNCHANGED nfaults
       \/ /\ NFault
          /\ cron' = [cron EXCEPT ![p].hand[e].pc = "fail"]
          /\ UNCHANGED nrow
    /\ UNCHANGED <<inbox, call, calls, accepted>>

resolveFailureStatusEarly(attempt) ==
    IF attempt + 1 >= NMaxAttempts THEN "DEAD_LETTER" ELSE "FAILED"

resolveFailureStatus(attempt) ==
    IF attempt >= NMaxAttempts THEN "DEAD_LETTER" ELSE "FAILED"

(* The catch block and the invalid payload: by id again.  When this update  *)
(* fails too the rejection is only logged and the row stays PROCESSING.     *)
recordFailure(p, e) ==
    /\ cron[p].hand[e].pc = "fail"
    /\ \/ /\ nrow' = [nrow EXCEPT ![e] =
               [nrow[e] EXCEPT
                  !.status = IF e \in Invalid THEN "DEAD_LETTER"
                             ELSE resolveFailureStatus(cron[p].hand[e].attempt),
                  !.due = FALSE, !.stale = FALSE]]
          /\ cron' = Hand(Forget(cron, e, TRUE), p, e, NoHand)
          /\ UNCHANGED nfaults
       \/ /\ NFault
          /\ cron' = Hand(cron, p, e, NoHand)
          /\ UNCHANGED nrow
    /\ UNCHANGED <<inbox, call, calls, accepted>>

processEvent(p, e) ==
    \/ claimEvent(p, e)
    \/ enqueuePreparedNotification(p, e)
    \/ markDispatched(p, e)
    \/ recordFailure(p, e)

(* The process dies: its pass is gone, its claims stay in the rows. *)
NCrash(p) ==
    /\ InHand(p) # {} /\ NFault
    /\ cron' = [cron EXCEPT ![p] = IdleCron]
    /\ UNCHANGED <<nrow, inbox, call, calls, accepted>>

(* Time: computeNextAttemptAt's back-off ends; a claim grows old. *)
backoffEnds(e) ==
    /\ nrow[e].status \in NOpen /\ ~nrow[e].due
    /\ nrow' = [nrow EXCEPT ![e].due = TRUE]
    /\ UNCHANGED <<inbox, call, calls, cron, accepted, nfaults>>

claimGrowsStale(e) ==
    /\ nrow[e].status = "PROCESSING" /\ ~nrow[e].stale
    /\ nrow' = [nrow EXCEPT ![e].stale = TRUE]
    /\ UNCHANGED <<inbox, call, calls, cron, accepted, nfaults>>

NStep(p) ==
    \/ processNotificationOutbox(p) \/ cronEnds(p)
    \/ \E e \in NRows : processEvent(p, e)

NNext ==
    \/ create \/ createEvent \/ createAborts \/ createInTransaction
    \/ \E p \in NProcesses : NStep(p) \/ NCrash(p)
    \/ \E e \in NRows : backoffEnds(e) \/ claimGrowsStale(e)

(* A process keeps running its cron and finishes its statements, time       *)
(* passes, and the caller's own cron runs again.                            *)
NFairness ==
    /\ \A p \in NProcesses : WF_nvars(NStep(p))
    /\ \A e \in NRows : WF_nvars(backoffEnds(e)) /\ WF_nvars(claimGrowsStale(e))
    /\ WF_nvars(create) /\ WF_nvars(createEvent)

NSpec == NInit /\ [][NNext]_nvars /\ NFairness

-----------------------------------------------------------------------------
(***************************************************************************)
(* However many processes reclaim a row and re-enqueue it, the queue       *)
(* accepts one job for it: one notification per row.                       *)
(***************************************************************************)
OneJobPerRow == \A e \in NRows : accepted[e] <= 1

(***************************************************************************)
(* A row says DISPATCHED only after its job was accepted, although the     *)
(* mark is written by id and a late process may write it over a newer      *)
(* claim; and a row is given up only when its payload is unreadable or its *)
(* attempts are used up.                                                   *)
(***************************************************************************)
RowTellsTheTruth ==
    \A e \in NRows :
        /\ nrow[e].status = "DISPATCHED" => accepted[e] = 1 /\ e \notin Invalid
        /\ nrow[e].status = "DEAD_LETTER" =>
              e \in Invalid \/ nrow[e].attempts >= NMaxAttempts

(***************************************************************************)
(* The retry budget.  A process that outlives its claim can turn a         *)
(* DEAD_LETTER row back to FAILED, because the catch block updates by id   *)
(* with the attempt it read; each other process can do so once, so         *)
(* attempts stays within maxAttempts plus one per other process.           *)
(***************************************************************************)
RetriesBounded ==
    \A e \in NRows :
        nrow[e].attempts <= NMaxAttempts + Cardinality(NProcesses) - 1

(***************************************************************************)
(* Every row that was written is handed to the queue or given up, whatever *)
(* fails or dies in between.                                               *)
(***************************************************************************)
RowsSettle ==
    LET Unsettled == {e \in NRows : /\ nrow[e].status \notin {"ABSENT", "DEAD_LETTER"}
                                   /\ accepted[e] = 0}
    IN  Unsettled # {} ~> Unsettled = {}

(***************************************************************************)
(* A create() call that failed between two of its events is completed by   *)
(* a later run of its caller: no event is stranded behind a duplicate.     *)
(***************************************************************************)
FanoutCompletes ==
    (call # 0 /\ NMaxCalls - calls >= NMaxFaults - nfaults) ~>
        (\A i \in DOMAIN Fanout : nrow[Fanout[i]].status # "ABSENT")

(***************************************************************************)
(* The rows of the notification outbox and the queue agree, although the   *)
(* marks are written by id and a process may outlive its claim: one job    *)
(* per row, DISPATCHED only for a job that was accepted, dead letters only *)
(* for a cause, attempts within their budget (processPendingEvents,        *)
(* resolveFailureStatus).                                                  *)
(***************************************************************************)
RowsSound == NTypeOK /\ OneJobPerRow /\ RowTellsTheTruth /\ RetriesBounded

=============================================================================
