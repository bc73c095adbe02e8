----------------------------- MODULE AgentInbox -----------------------------
(***************************************************************************)
(* One WhatsApp conversation of the booking agent, from the webhook to the *)
(* reply: deduplication of inbound messages, the job of each message, the  *)
(* processing lock of the conversation with its time to live, the session  *)
(* kept in Redis, and the nudge and clear jobs of an inactive customer.    *)
(*                                                                         *)
(* A worker may die between any two statements; its job is then picked up  *)
(* again, and its lock expires.  What the agent understands and answers is *)
(* AgentConversation; here a turn only adds its message to the session.    *)
(***************************************************************************)
EXTENDS Naturals

CONSTANTS
    Inbound,       \* the messages the customer sends
    NoMessage,
    Bodies,        \* what they may be, by message: text, handoff, reset, media, audio
    InJobTries,    \* WHATSAPP_DEFAULT_JOB_ATTEMPTS
    LockTTL,       \* WHATSAPP_PROCESSING_LOCK_TTL_MS
    NudgeDelay,    \* WHATSAPP_INACTIVITY_NUDGE_DELAY_MS
    ClearDelay,    \* WHATSAPP_INACTIVITY_CLEAR_DELAY_MS
    IMaxTime,
    IMaxFaults     \* bound on the faults of a behaviour

ASSUME InboxConstants ==
    /\ InJobTries \in Nat \ {0} /\ LockTTL \in Nat \ {0} /\ NoMessage \notin Inbound
    /\ NudgeDelay \in Nat /\ ClearDelay \in Nat /\ IMaxTime \in Nat /\ IMaxFaults \in Nat
    /\ Bodies \subseteq [Inbound -> {"text", "handoff", "reset", "media", "audio"}]

VARIABLES
    clockI,
    faultsI,   \* the faults that may still happen
    conv,      \* the conversation row: lastIn, status, lock (NoMessage is none), lockEnd
    msg,       \* the message rows, by message: status and the time of receipt
    body,      \* what each message is
    inhook,    \* the webhook calls that have created their row
    work,      \* the jobs, by message: state, tries, and the place of the worker
    session,   \* LangGraph state: the messages it has taken in, its stage, and
               \*   (history) whether it was cleared before
    nudge,     \* the inactivity jobs, one job id each: state, and the scheduling
    clear,     \*   time of the nudge they belong to
    sent,      \* the dedupe keys of the outbox rows
    overrun,   \* the messages whose lock was taken over while their worker ran
    disturbed  \* a call failed, or an inactivity job could not be removed

ivars == <<clockI, faultsI, conv, msg, body, inhook, work, session, nudge, clear,
           sent, overrun, disturbed>>

Stages    == {"awaiting_payment", "cancelled"}
NoSession == [turns |-> {}, stage |-> "none", cleared |-> FALSE]
clearState == [NoSession EXCEPT !.cleared = TRUE]
NoRow     == [status |-> "none", at |-> 0]
NoJob     == [state |-> "none", at |-> 0, idle |-> TRUE]
NoWork    == [state |-> "none", tries |-> 0, pc |-> "idle", loaded |-> NoSession,
              kind |-> "none", waited |-> 0, stage |-> "none", stalled |-> FALSE]

(* The dedupe keys of the outbox. *)
Answer(m, kind)      == [of |-> m, kind |-> kind, at |-> 0]
Inactivity(kind, at) == [of |-> NoMessage, kind |-> kind, at |-> at]

Fault(n) == faultsI >= n /\ faultsI' = faultsI - n /\ disturbed' = TRUE

isNudgeableStage(s) == s \in {"collecting", "presenting_options", "confirming", "awaiting_payment"}

-----------------------------------------------------------------------------
(* WhatsAppIngressService.handleInbound *)

upsertConversationForInbound == [conv EXCEPT !.lastIn = clockI, !.status = "ACTIVE"]
createInboundMessage(m)      == [msg EXCEPT ![m] = [status |-> "PENDING", at |-> clockI]]

(* A repeated webhook refreshes the conversation and stops at the unique   *)
(* dedupe key of the message.                                              *)
handleInbound(m) ==
    /\ conv' = upsertConversationForInbound
    /\ IF msg[m].status = "none"
       THEN /\ msg' = createInboundMessage(m)
            /\ inhook' = inhook \cup {m}
            /\ UNCHANGED <<faultsI, disturbed>>
       ELSE Fault(1) /\ UNCHANGED <<msg, inhook>>
    /\ UNCHANGED <<body, clockI, work, session, nudge, clear, sent, overrun>>

(* RECEIVED and QUEUED are one status, PENDING: markInboundMessageQueued is *)
(* not ordered with the worker and nothing reads what it writes.            *)
enqueueInbound(m) ==
    /\ m \in inhook
    /\ inhook' = inhook \ {m}
    /\ work' = [work EXCEPT ![m].state = "waiting"]
    /\ UNCHANGED <<body, clockI, faultsI, conv, msg, session, nudge, clear, sent, overrun, disturbed>>

(* The queue refuses the job: the row is deleted so that a redelivery is   *)
(* not taken for a duplicate; the deletion may fail as well.               *)
enqueueRefused(m) ==
    /\ m \in inhook
    /\ \E deleted \in BOOLEAN :
            /\ Fault(IF deleted THEN 1 ELSE 2)
            /\ msg' = IF deleted THEN [msg EXCEPT ![m] = NoRow] ELSE msg
    /\ inhook' = inhook \ {m}
    /\ UNCHANGED <<body, clockI, conv, work, session, nudge, clear, sent, overrun>>

-----------------------------------------------------------------------------
(* WhatsAppProcessor.processInbound *)

startInbound(m) ==
    /\ work[m].state = "waiting"
    /\ work' = [work EXCEPT ![m] = [NoWork EXCEPT !.state = "active", !.tries = work[m].tries + 1,
                                                  !.pc = "lock", !.waited = clockI,
                                                  !.stalled = work[m].stalled]]
    /\ UNCHANGED <<body, clockI, faultsI, conv, msg, inhook, session, nudge, clear, sent, overrun, disturbed>>

lockFree(m) == conv.lock = NoMessage \/ conv.lockEnd < clockI

(* The lock token is fresh for every attempt, so a message stands for it.  *)
acquireProcessingLock(m) ==
    /\ work[m].pc = "lock"
    /\ lockFree(m)
    /\ conv' = [conv EXCEPT !.lock = m, !.lockEnd = clockI + LockTTL]
    /\ overrun' = overrun \cup
            {n \in Inbound \ {m} :
                conv.lock = n /\ conv.lockEnd < clockI /\ work[n].pc \notin {"idle", "lock"}}
    /\ work' = [work EXCEPT ![m].pc = "load"]
    /\ UNCHANGED <<body, clockI, faultsI, msg, inhook, session, nudge, clear, sent, disturbed>>

Retry(w) == [NoWork EXCEPT !.state = IF w.tries < InJobTries THEN "waiting" ELSE "failed",
                           !.tries = w.tries, !.stalled = w.stalled]

(* acquireProcessingLockWithBackoff waits as long as a lock may last. *)
lockTimeout(m) ==
    /\ work[m].pc = "lock" /\ ~lockFree(m)
    /\ clockI >= work[m].waited + LockTTL
    /\ work' = [work EXCEPT ![m] = Retry(work[m])]
    /\ UNCHANGED <<body, clockI, faultsI, conv, msg, inhook, session, nudge, clear, sent, overrun, disturbed>>

releaseProcessingLock(m) ==
    [conv EXCEPT !.lock = IF conv.lock = m THEN NoMessage ELSE conv.lock]

(* A job that is running cannot be removed. *)
removeJobSafely(j) == IF j.state = "active" THEN j ELSE NoJob

(* A voice message is a text if it can be transcribed. *)
resolveInboundMessageContent(kind) == IF kind = "audio" THEN {"text", "media"} ELSE {kind}

(* The row is read, the inactivity jobs are cancelled and the session is   *)
(* loaded; the graph then works on what it loaded.                         *)
cancelAndLoad(m) ==
    /\ work[m].pc = "load"
    /\ nudge' = removeJobSafely(nudge)
    /\ clear' = removeJobSafely(clear)
    /\ disturbed' = (disturbed \/ nudge.state = "active" \/ clear.state = "active")
    /\ \E kind \in resolveInboundMessageContent(body[m]) :
            work' = [work EXCEPT ![m].pc = "graph", ![m].loaded = session, ![m].kind = kind]
    /\ UNCHANGED <<body, clockI, faultsI, conv, msg, inhook, session, sent, overrun>>

(* The session the graph leaves. *)
invoke(m, s) == [work[m].loaded EXCEPT !.turns = @ \cup {m}, !.stage = s]

(* The graph answers and its state is saved; or the graph or the save fails *)
(* and an apology is sent instead, which leaves no stage to follow up.  The *)
(* graph's own handoff ends in cancelled.                                   *)
decideLangGraph(m) ==
    /\ work[m].pc = "graph" /\ work[m].kind = "text"
    /\ \E s \in Stages :
            /\ session' = invoke(m, s)
            /\ work' = [work EXCEPT ![m].pc = "reply", ![m].stage = s]
    /\ UNCHANGED <<body, clockI, faultsI, conv, msg, inhook, nudge, clear, sent, overrun, disturbed>>

graphFailed(m) ==
    /\ work[m].pc = "graph" /\ work[m].kind = "text"
    /\ Fault(1)
    /\ work' = [work EXCEPT ![m].pc = "reply", ![m].stage = "error"]
    /\ UNCHANGED <<body, clockI, conv, msg, inhook, session, nudge, clear, sent, overrun>>

(* AGENT, RESET and media are answered without the graph; RESET clears the *)
(* session.                                                                *)
decideDirectly(m) ==
    /\ work[m].pc = "graph" /\ work[m].kind # "text"
    /\ session' = IF work[m].kind = "reset" THEN clearState ELSE session
    /\ work' = [work EXCEPT ![m].pc = "reply", ![m].stage = work[m].kind]
    /\ UNCHANGED <<body, clockI, faultsI, conv, msg, inhook, nudge, clear, sent, overrun, disturbed>>

(* clearState logs its failure and RESET is acknowledged all the same. *)
resetFailed(m) ==
    /\ work[m].pc = "graph" /\ work[m].kind = "reset"
    /\ Fault(1)
    /\ work' = [work EXCEPT ![m].pc = "reply", ![m].stage = "reset"]
    /\ UNCHANGED <<body, clockI, conv, msg, inhook, session, nudge, clear, sent, overrun>>

ReplyKey(m) == Answer(m, IF work[m].stage \in Stages THEN "langgraph" ELSE work[m].stage)

(* enqueueOutbound skips a key that exists.                                *)
enqueueReply(m) ==
    /\ work[m].pc = "reply"
    /\ sent' = sent \cup {ReplyKey(m)}
    /\ work' = [work EXCEPT ![m].pc = "finish"]
    /\ UNCHANGED <<body, clockI, faultsI, conv, msg, inhook, session, nudge, clear, overrun, disturbed>>

markInboundMessage(m, status) == [msg EXCEPT ![m].status = status]

markConversationHandoff(c) == [c EXCEPT !.status = "HANDOFF"]

(* The queue ignores a job whose id it still knows, finished ones included. *)
scheduleInactivityNudge ==
    IF nudge.state = "none" THEN [state |-> "delayed", at |-> clockI, idle |-> TRUE] ELSE nudge

finishInbound(m) ==
    /\ work[m].pc = "finish"
    /\ nudge' = IF isNudgeableStage(work[m].stage) THEN scheduleInactivityNudge ELSE nudge
    /\ msg' = markInboundMessage(m, "PROCESSED")
    /\ conv' = IF work[m].stage = "handoff" THEN markConversationHandoff(releaseProcessingLock(m))
                                            ELSE releaseProcessingLock(m)
    /\ work' = [work EXCEPT ![m] = [NoWork EXCEPT !.state = "done", !.tries = work[m].tries]]
    /\ UNCHANGED <<body, clockI, faultsI, inhook, session, clear, sent, overrun, disturbed>>

(* A statement throws: the message is marked, the lock released, and the   *)
(* job is tried again; what the attempt has saved and sent stays.          *)
inboundFailed(m) ==
    /\ work[m].pc \in {"load", "reply", "finish"}
    /\ Fault(1)
    /\ msg' = markInboundMessage(m, "FAILED")
    /\ conv' = releaseProcessingLock(m)
    /\ work' = [work EXCEPT ![m] = Retry(work[m])]
    /\ UNCHANGED <<body, clockI, inhook, session, nudge, clear, sent, overrun>>

(* The worker dies: nothing is marked or released, and the queue hands the *)
(* stalled job out again, once, without counting an attempt.               *)
workerDies(m) ==
    /\ work[m].state = "active"
    /\ Fault(1)
    /\ work' = [work EXCEPT ![m] = [NoWork EXCEPT !.state = IF work[m].stalled THEN "failed" ELSE "waiting",
                                                  !.tries = work[m].tries - 1, !.stalled = TRUE]]
    /\ UNCHANGED <<body, clockI, conv, msg, inhook, session, nudge, clear, sent, overrun>>

-----------------------------------------------------------------------------
(* Inactivity *)

(* The stage is read without the lock, and may have changed when the nudge *)
(* goes out.                                                               *)
nudgeDue ==
    /\ nudge.state = "delayed" /\ clockI >= nudge.at + NudgeDelay
    /\ nudge' = [nudge EXCEPT !.state = "active", !.idle = isNudgeableStage(session.stage)]
    /\ UNCHANGED <<body, clockI, faultsI, conv, msg, inhook, work, session, clear, sent, overrun, disturbed>>

(* The clear job is added once per id. *)
processInactivityNudge ==
    /\ nudge.state = "active"
    /\ nudge' = [nudge EXCEPT !.state = "done"]
    /\ IF nudge.idle
       THEN /\ sent' = sent \cup {Inactivity("nudge", nudge.at)}
            /\ clear' = IF clear.state = "none"
                        THEN [state |-> "delayed", at |-> nudge.at, idle |-> TRUE] ELSE clear
       ELSE UNCHANGED <<sent, clear>>
    /\ UNCHANGED <<body, clockI, faultsI, conv, msg, inhook, work, session, overrun, disturbed>>

neverResponded(j) == FALSE

respondedSince(j) == conv.lastIn > j.at

(* getConversationActivity: idle is what the check finds, the customer's   *)
(* next message may arrive before clearState.                              *)
clearDue ==
    /\ clear.state = "delayed" /\ clockI >= clear.at + NudgeDelay + ClearDelay
    /\ clear' = [clear EXCEPT !.state = "active", !.idle = ~respondedSince(clear)]
    /\ UNCHANGED <<body, clockI, faultsI, conv, msg, inhook, work, session, nudge, sent, overrun, disturbed>>

processInactivityClear ==
    /\ clear.state = "active"
    /\ clear' = [clear EXCEPT !.state = "done"]
    /\ IF clear.idle
       THEN session' = clearState /\ sent' = sent \cup {Inactivity("cleared", clear.at)}
       ELSE UNCHANGED <<session, sent>>
    /\ UNCHANGED <<body, clockI, faultsI, conv, msg, inhook, work, nudge, overrun, disturbed>>

(* A statement of an inactivity job throws, and the queue hands it out     *)
(* again; the nudge may be out, and the session cleared.  Or clearState    *)
(* fails, which is only logged.                                            *)
inactivityFailed ==
    /\ Fault(1)
    /\ \/ /\ nudge.state = "active"
          /\ nudge' = [nudge EXCEPT !.state = "delayed"]
          /\ sent' \in {sent, IF nudge.idle THEN sent \cup {Inactivity("nudge", nudge.at)} ELSE sent}
          /\ UNCHANGED <<clear, session>>
       \/ /\ clear.state = "active"
          /\ clear' = [clear EXCEPT !.state = "delayed"]
          /\ session' \in {session, IF clear.idle THEN clearState ELSE session}
          /\ UNCHANGED <<nudge, sent>>
       \/ /\ clear.state = "active" /\ clear.idle
          /\ clear' = [clear EXCEPT !.state = "done"]
          /\ sent' = sent \cup {Inactivity("cleared", clear.at)}
          /\ UNCHANGED <<nudge, session>>
    /\ UNCHANGED <<body, clockI, conv, msg, inhook, work, overrun>>

tickInbox ==
    /\ clockI < IMaxTime
    /\ clockI' = clockI + 1
    /\ UNCHANGED <<body, faultsI, conv, msg, inhook, work, session, nudge, clear, sent, overrun, disturbed>>

-----------------------------------------------------------------------------
(* The messages in done were answered at time 0 and their nudge is waiting. *)
IInitWith(now, faults, done) ==
    /\ clockI = now /\ faultsI = faults
    /\ conv = [lastIn |-> 0, status |-> "ACTIVE", lock |-> NoMessage, lockEnd |-> 0]
    /\ msg = [m \in Inbound |-> IF m \in done THEN [NoRow EXCEPT !.status = "PROCESSED"] ELSE NoRow]
    /\ body \in Bodies
    /\ \A m \in done : body[m] = "text"
    /\ inhook = {}
    /\ work = [m \in Inbound |->
                  IF m \in done THEN [NoWork EXCEPT !.state = "done", !.tries = 1] ELSE NoWork]
    /\ session = [NoSession EXCEPT !.turns = done,
                                   !.stage = IF done = {} THEN "none" ELSE "awaiting_payment"]
    /\ nudge = IF done = {} THEN NoJob ELSE [NoJob EXCEPT !.state = "delayed"]
    /\ clear = NoJob
    /\ sent = {Answer(m, "langgraph") : m \in done}
    /\ overrun = {} /\ disturbed = FALSE

IInit == IInitWith(0, IMaxFaults, {})

INext ==
    \/ \E m \in Inbound :
            \/ handleInbound(m) \/ enqueueInbound(m) \/ enqueueRefused(m)
            \/ startInbound(m) \/ acquireProcessingLock(m)
            \/ lockTimeout(m) \/ cancelAndLoad(m) \/ decideLangGraph(m) \/ graphFailed(m)
            \/ decideDirectly(m) \/ resetFailed(m) \/ enqueueReply(m) \/ finishInbound(m) \/ inboundFailed(m)
            \/ workerDies(m)
    \/ nudgeDue \/ processInactivityNudge \/ clearDue \/ processInactivityClear
    \/ inactivityFailed
    \/ tickInbox

ISpec == IInit /\ [][INext]_ivars

-----------------------------------------------------------------------------
(* Every row, job and key is of its kind; the lock names a message, and a  *)
(* job has not been tried more often than the queue tries it               *)
(* (whatsapp.processor.ts, whatsapp-persistence.service.ts).               *)
ITypeOK ==
    /\ clockI \in 0..IMaxTime /\ faultsI \in 0..IMaxFaults
    /\ conv.lock \in Inbound \cup {NoMessage} /\ conv.lastIn <= clockI
    /\ \A m \in Inbound :
            /\ work[m].tries <= InJobTries
            /\ (work[m].state = "active") <=> (work[m].pc # "idle")
    /\ session.turns \subseteq Inbound
    /\ nudge.at <= clockI /\ clear.at <= clockI

(* A turn the graph has answered is remembered by the session, whatever    *)
(* messages were processed beside it, unless the customer or inactivity    *)
(* reset it or a worker outran the time to live of the processing lock.    *)
TurnsRemembered ==
    overrun = {} /\ ~session.cleared =>
        \A m \in Inbound : Answer(m, "langgraph") \in sent => m \in session.turns

(* A message marked PROCESSED has an answer in the outbox, also when the   *)
(* graph failed or the attempt that answered it was not the last.          *)
ProcessedIsAnswered ==
    \A m \in Inbound : msg[m].status = "PROCESSED" => \E k \in sent : k.of = m

(* Inactivity clears a session only after a nudge was sent for it, and     *)
(* never when a message had come in between the nudge's scheduling and the *)
(* check.                                                                  *)
OnlySilentIsCleared ==
    [][clear'.state = "active" /\ clear'.idle /\ clear.state = "delayed" =>
           /\ Inactivity("nudge", clear.at) \in sent
           /\ \A m \in Inbound : msg[m].at <= clear.at]_ivars

Quiet == inhook = {} /\ \A m \in Inbound : work[m].state \in {"none", "done"}

(* A conversation left in a stage that waits for the customer has a nudge  *)
(* or a clear job to end it, when the graph answered every message, nothing *)
(* failed, no inactivity job was running while a message came in, and no   *)
(* worker outran its lock: that one would find the nudge of another turn   *)
(* already done when it schedules its own.                                 *)
IdleSessionWatched ==
    /\ Quiet /\ ~disturbed /\ overrun = {}
    /\ \A m \in Inbound : body[m] = "text"
    /\ session.stage \in {"collecting", "presenting_options", "confirming", "awaiting_payment"}
    => \E j \in {nudge, clear} : j.state \in {"delayed", "active"}

(***************************************************************************)
(* A message that came in is answered and its turn remembered, whatever    *)
(* other messages, retries and inactivity jobs run beside it, and only a   *)
(* customer who was nudged and stayed silent loses his session             *)
(* (processInbound, processInactivityNudge, processInactivityClear).       *)
(***************************************************************************)
InboxSound ==
    /\ [](ITypeOK /\ TurnsRemembered /\ ProcessedIsAnswered /\ IdleSessionWatched)
    /\ OnlySilentIsCleared

=============================================================================
