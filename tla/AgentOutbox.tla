---------------------------- MODULE AgentOutbox ----------------------------
(***************************************************************************)
(* The outbox row of one WhatsApp reply: enqueueOutbound creates the row   *)
(* and its job, for an inbound job that may run again after a failure;     *)
(* processOutbox claims the row, sends the message through Twilio and      *)
(* records the outcome.  The row and the queue count attempts and wait     *)
(* between them independently of each other.                               *)
(***************************************************************************)
EXTENDS Naturals

CONSTANTS
    OMaxAttempts,   \* WHATSAPP_OUTBOX_MAX_ATTEMPTS, of the row and of the job
    Contents,       \* what the row may hold: text, template, badTemplate, empty
    OCallers,       \* bound on the inbound attempts that enqueue the reply
    OMaxTime,
    OFaults         \* bound on failures of the queue, the database and the process

ASSUME OutboxConstants ==
    /\ OMaxAttempts \in Nat \ {0} /\ OCallers \in Nat /\ OMaxTime \in Nat /\ OFaults \in Nat
    /\ Contents \subseteq {"text", "template", "badTemplate", "empty"}

VARIABLES
    clockO,
    faultsO,    \* the faults that may still happen
    content,
    orow,       \* WhatsAppOutbox: status, attempts, next (nextAttemptAt), sid
    enq,       \* enqueueOutbound: pc, and how often it was called
    ojob,       \* the job: state, tries, due, stalled, and pc and claimTime of its worker
    onWire,     \* messages Twilio has onWire
    lost        \* history: what a fault left undone

ovars == <<clockO, faultsO, content, orow, enq, ojob, onWire, lost>>

NoOutbox  == [status |-> "none", attempts |-> 0, next |-> 0, sid |-> FALSE]
NoSendJob == [state |-> "none", tries |-> 0, due |-> 0, stalled |-> FALSE, pc |-> "idle", claimTime |-> 0]

FaultO(what) == faultsO > 0 /\ faultsO' = faultsO - 1 /\ lost' = lost \cup {what}

-----------------------------------------------------------------------------
(* WhatsAppSenderService.enqueueOutbound *)

createOutboundOutbox == [NoOutbox EXCEPT !.status = "PENDING", !.next = clockO]

(* The unique key makes a second call a success. *)
enqueueOutbound ==
    /\ enq.pc # "add" /\ enq.count < OCallers
    /\ IF orow.status = "none"
       THEN /\ orow' = createOutboundOutbox
            /\ enq' = [pc |-> "add", count |-> enq.count + 1]
       ELSE enq' = [pc |-> "ok", count |-> enq.count + 1] /\ UNCHANGED orow
    /\ UNCHANGED <<clockO, faultsO, content, ojob, onWire, lost>>

addOutboxJob ==
    /\ enq.pc = "add"
    /\ enq' = [enq EXCEPT !.pc = "ok"]
    /\ ojob' = [NoSendJob EXCEPT !.state = "waiting", !.due = clockO]
    /\ UNCHANGED <<clockO, faultsO, content, orow, onWire, lost>>

(* The queue refuses the job: the row must go, or the next call takes it   *)
(* for a duplicate.                                                        *)
addRefused ==
    /\ enq.pc = "add"
    /\ FaultO("add")
    /\ orow' = NoOutbox
    /\ enq' = [enq EXCEPT !.pc = "threw"]
    /\ UNCHANGED <<clockO, content, ojob, onWire>>

(* deleteOutbox fails as well, or the process ends after createOutbox.     *)
rowOrphaned ==
    /\ enq.pc = "add"
    /\ FaultO("orphan")
    /\ enq' = [enq EXCEPT !.pc = "threw"]
    /\ UNCHANGED <<clockO, content, orow, ojob, onWire>>

-----------------------------------------------------------------------------
(* processOutbox *)

retryDelayFromAttempts(attempts) == 2^attempts

(* In units of WHATSAPP_OUTBOX_BASE_RETRY_MS; the cap of 15 minutes is not *)
(* reached in five attempts.                                               *)
computeOutboxRetryDelayMs(attempts) ==
    2^((IF attempts = 0 THEN 1 ELSE IF attempts > OMaxAttempts THEN OMaxAttempts ELSE attempts) - 1)

(* The exponential backoff of the queue, from the failure on.              *)
queueBackoff(tries) == 2^(tries - 1)

startOutboxJob ==
    /\ ojob.state = "waiting" /\ clockO >= ojob.due
    /\ ojob' = [ojob EXCEPT !.state = "active", !.pc = "claim", !.tries = @ + 1]
    /\ UNCHANGED <<clockO, faultsO, content, orow, enq, onWire, lost>>

Ended(state) == [ojob EXCEPT !.state = state, !.pc = "idle"]

ThrowJob ==
    IF ojob.tries < OMaxAttempts
    THEN [ojob EXCEPT !.state = "waiting", !.pc = "idle", !.due = clockO + queueBackoff(ojob.tries)]
    ELSE Ended("failed")

claimable(now) ==
    ~orow.sid /\ (orow.status = "PENDING" \/ (orow.status = "FAILED" /\ orow.next <= now))

(* A row that is not claimed ends the job.                                 *)
claimOutboxForProcessing ==
    /\ ojob.pc = "claim"
    /\ IF claimable(clockO)
       THEN /\ orow' = [orow EXCEPT !.status = "PROCESSING", !.attempts = @ + 1]
            /\ ojob' = [ojob EXCEPT !.pc = "send", !.claimTime = clockO]
       ELSE ojob' = Ended("completed") /\ UNCHANGED orow
    /\ UNCHANGED <<clockO, faultsO, content, enq, onWire, lost>>

isDeadLetter == orow.attempts >= OMaxAttempts

(* A template needs a content SID, a free-form message a text or an image. *)
Sendable == content \in {"text", "template"}

sendViaTwilio ==
    /\ ojob.pc = "send" /\ Sendable
    /\ onWire' = onWire + 1
    /\ ojob' = [ojob EXCEPT !.pc = "sent"]
    /\ UNCHANGED <<clockO, faultsO, content, orow, enq, lost>>

(* Twilio refuses, or the row has nothing that can be sent. *)
sendFailed ==
    /\ ojob.pc = "send"
    /\ ojob' = [ojob EXCEPT !.pc = "failing"]
    /\ UNCHANGED <<clockO, faultsO, content, orow, enq, onWire, lost>>

(* The message is out and its error is not told, or recording it fails.    *)
markLost ==
    /\ ojob.pc \in {"send", "sent"} /\ Sendable
    /\ FaultO("mark")
    /\ onWire' = IF ojob.pc = "send" THEN onWire + 1 ELSE onWire
    /\ ojob' = [ojob EXCEPT !.pc = "failing"]
    /\ UNCHANGED <<clockO, content, orow, enq>>

markOutboxSent ==
    /\ ojob.pc = "sent"
    /\ orow' = [orow EXCEPT !.status = "SENT", !.sid = TRUE, !.next = clockO]
    /\ ojob' = Ended("completed")
    /\ UNCHANGED <<clockO, faultsO, content, enq, onWire, lost>>

markOutboxFailed ==
    /\ ojob.pc = "failing"
    /\ orow' = IF isDeadLetter THEN [orow EXCEPT !.status = "DEAD_LETTER"]
               ELSE [orow EXCEPT !.status = "FAILED",
                                 !.next = ojob.claimTime + computeOutboxRetryDelayMs(orow.attempts)]
    /\ ojob' = IF isDeadLetter THEN Ended("completed") ELSE ThrowJob
    /\ UNCHANGED <<clockO, faultsO, content, enq, onWire, lost>>

(* The claim or the record of a failure throws. *)
databaseFailed ==
    /\ ojob.pc \in {"claim", "failing"}
    /\ FaultO("database")
    /\ ojob' = ThrowJob
    /\ UNCHANGED <<clockO, content, orow, enq, onWire>>

(* The queue hands a stalled job out once more. *)
senderDies ==
    /\ ojob.state = "active"
    /\ FaultO(IF ojob.pc = "sent" THEN "mark" ELSE "database")
    /\ ojob' = IF ojob.stalled THEN Ended("failed")
               ELSE [ojob EXCEPT !.state = "waiting", !.pc = "idle", !.tries = @ - 1,
                                 !.due = clockO, !.stalled = TRUE]
    /\ UNCHANGED <<clockO, content, orow, enq, onWire>>

tickOutbox ==
    /\ clockO < OMaxTime
    /\ clockO' = clockO + 1
    /\ UNCHANGED <<faultsO, content, orow, enq, ojob, onWire, lost>>

-----------------------------------------------------------------------------
OInit ==
    /\ clockO = 0 /\ faultsO = OFaults /\ content \in Contents
    /\ orow = NoOutbox /\ enq = [pc |-> "idle", count |-> 0] /\ ojob = NoSendJob
    /\ onWire = 0 /\ lost = {}

ONext ==
    \/ enqueueOutbound \/ addOutboxJob \/ addRefused \/ rowOrphaned
    \/ startOutboxJob \/ claimOutboxForProcessing \/ sendViaTwilio \/ sendFailed \/ markLost
    \/ markOutboxSent \/ markOutboxFailed \/ databaseFailed \/ senderDies
    \/ tickOutbox

OSpec == OInit /\ [][ONext]_ovars

-----------------------------------------------------------------------------
(* A row is claimed no more often than its maximum, a row marked SENT has  *)
(* been sent by Twilio, and one that holds nothing sendable never is      *)
(* (whatsapp-sender.service.ts).                                           *)
OTypeOK ==
    /\ orow.attempts <= OMaxAttempts /\ ojob.tries <= OMaxAttempts
    /\ (orow.status = "SENT") <=> orow.sid
    /\ orow.sid => onWire > 0
    /\ onWire > 0 => content \notin {"badTemplate", "empty"}

(* The customer gets the reply once, whatever attempts and inbound retries *)
(* there were, unless recording a sent message failed (processOutbox).     *)
ReplySentOnce == "mark" \notin lost => onWire <= 1

(* When the queue hands a failed row out again its own waiting time is     *)
(* over: were it not, the job would end and the row stay FAILED            *)
(* (computeOutboxRetryDelayMs against WHATSAPP_OUTBOX_QUEUE_JOB_OPTIONS).  *)
RetryFindsRowDue ==
    ojob.pc = "claim" /\ orow.status = "FAILED" => orow.next <= clockO

(* When its job is over a row is SENT or DEAD_LETTER, unless the database  *)
(* or the process failed on the way: Twilio's failures alone cannot leave  *)
(* a row nobody will send.                                                 *)
JobEndsRowSettled ==
    ojob.state \in {"completed", "failed"} /\ lost \cap {"database", "mark"} = {} =>
        orow.status \in {"SENT", "DEAD_LETTER"}

(* An inbound attempt that believes its reply enqueued is right: the row   *)
(* has a job, unless a row was left without one by a failed deletion or a  *)
(* crash (enqueueOutbound).                                                *)
EnqueuedHasJob ==
    enq.pc = "ok" /\ "orphan" \notin lost => ojob.state # "none"

(***************************************************************************)
(* The row and the job of a reply agree through retries of both: the reply *)
(* is sent once, a retry finds its row due, a finished job leaves it       *)
(* settled, and an attempt that believes it enqueued is right              *)
(* (enqueueOutbound, processOutbox).                                       *)
(***************************************************************************)
RepliesSound ==
    /\ OTypeOK /\ ReplySentOnce /\ RetryFindsRowDue
    /\ JobEndsRowSettled /\ EnqueuedHasJob

=============================================================================
