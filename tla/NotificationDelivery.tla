------------------------ MODULE NotificationDelivery ------------------------
(***************************************************************************)
(* One job of the notifications queue in NotificationProcessor: its        *)
(* channels are tried one after the other, the channels that succeeded are *)
(* remembered in the job's progress, and the job is retried until all did. *)
(* Push goes to the tokens that are active when the worker reads them;     *)
(* users register and revoke tokens meanwhile.  Jobs are the ones the      *)
(* builders of NotificationRouting make.                                   *)
(***************************************************************************)
EXTENDS NotificationRouting

CONSTANTS
    DTokens,     \* push tokens (devices)
    DUsers,      \* users; the job is for Addressee
    Addressee,
    JobTries,    \* attempts of the queue's defaultJobOptions (3)
    DStalls,     \* BullMQ's maxStalledCount
    DMaxFaults,  \* bound on provider errors and crashes
    DMaxChanges  \* bound on what users do to their tokens and devices

ASSUME DAssumption ==
    /\ Addressee \in DUsers
    /\ JobTries \in Nat \ {0} /\ {DStalls, DMaxFaults, DMaxChanges} \subseteq Nat
    /\ DTokens \cap {"EMAIL", "WHATSAPP", "PUSH"} = {}

VARIABLES
    dj,       \* the BullMQ job
    drun,     \* the process() call on it
    tok,      \* UserPushToken rows
    gone,     \* tokens whose app Expo no longer knows
    link,     \* the booking's completion token: "valid" or "expired"
    copies,   \* per address: messages a provider accepted
    dfaults, dchanges

dvars == <<dj, drun, tok, gone, link, copies, dfaults, dchanges>>

Channels  == {"EMAIL", "WHATSAPP", "PUSH"}
Addresses == {"EMAIL", "WHATSAPP"} \cup DTokens
Outcomes  == {"none", "null", "ok", "retry", "fatal"}

(* The jobs delivered: a customer's with all three channels, the airport    *)
(* completion link of a chauffeur, a push-only reward and a schedule        *)
(* conflict notice for the owner.                                           *)
DJobs ==
    LET user == [userId |-> TRUE, email |-> TRUE, phone |-> TRUE]
    IN  buildBookingStatusChangeJobData(
            [registered |-> TRUE, email |-> TRUE, phone |-> TRUE, prefers |-> "both"])
        \cup {[j EXCEPT !.completionLink = TRUE] :
                j \in buildFlightUpdateJobData("FLIGHT_ASSIGNMENT_SNAPSHOT",
                                               "chauffeur", {user})}
        \cup buildReferralRewardReleasedJobData
        \cup buildFlightUpdateJobData(ConflictType, "fleetOwner", {user})

IdleRun == [pc |-> "idle", todo |-> {}, res |-> [ch \in Channels |-> "none"],
            tokens |-> {}, dead |-> {}]

(* The job of a notification, its channels and tokens are of their kinds   *)
(* (notification.processor.ts).                                            *)
DTypeOK ==
    /\ dj \in [job: DJobs, state: {"waiting", "active", "completed", "failed"},
               made: Nat, stalls: 0..(DStalls + 1),
               progress: SUBSET Channels, fatal: BOOLEAN]
    /\ drun \in [pc: {"idle", "link", "next", "push", "revoke", "finish"},
                 todo: SUBSET Channels, res: [Channels -> Outcomes],
                 tokens: SUBSET DTokens, dead: SUBSET DTokens]
    /\ drun.todo \cup dj.progress \subseteq dj.job.channels
    /\ tok \in [DTokens -> [owner: DUsers, active: BOOLEAN]]
    /\ gone \subseteq DTokens
    /\ link \in {"valid", "expired"}
    /\ copies \in [Addresses -> Nat]
    /\ dfaults \in 0..DMaxFaults /\ dchanges \in 0..DMaxChanges

(* The job is in the given state; the apps in g were removed before. *)
DInitWith(jobs, state, g) ==
    /\ \E j \in jobs :
         dj = [job |-> j, state |-> state, made |-> 0, stalls |-> 0,
               progress |-> {}, fatal |-> FALSE]
    /\ drun = IdleRun
    /\ tok = [t \in DTokens |-> [owner |-> Addressee, active |-> TRUE]]
    /\ gone = g /\ link = "valid"
    /\ copies = [a \in Addresses |-> 0]
    /\ dfaults = 0 /\ dchanges = 0

DInit ==
    \E g \in SUBSET DTokens :
        Cardinality(g) <= 1 /\ DInitWith(DJobs, "waiting", g)

DFault == dfaults < DMaxFaults /\ dfaults' = dfaults + 1
Count(as) == copies' = [a \in Addresses |-> IF a \in as THEN copies[a] + 1
                                            ELSE copies[a]]

-----------------------------------------------------------------------------
forgetSucceededChannels(progress) == {}

(* Starting a run: the channels that progress does not list. *)
getSucceededChannels(progress) == progress

(* The rejected variant: every channel, whatever the job names. *)
Todo == dj.job.channels \ getSucceededChannels(dj.progress)

process ==
    /\ dj.state = "waiting"
    /\ dj' = [dj EXCEPT !.state = "active"]
    /\ drun' = [IdleRun EXCEPT
                  !.pc = IF dj.job.completionLink THEN "link" ELSE "next",
                  !.todo = Todo]
    /\ UNCHANGED <<tok, gone, link, copies, dfaults, dchanges>>

FinishJob(state) ==
    /\ dj' = [dj EXCEPT !.state = state]
    /\ drun' = [drun EXCEPT !.pc = "idle"]

(* A link is only sent to a chauffeur and while its token is valid; anything *)
(* else is unrecoverable.                                                    *)
resolveAirportCompletionLink ==
    /\ drun.pc = "link"
    /\ IF dj.job.audience = "CHAUFFEUR" /\ dj.job.recipient = "chauffeur"
            /\ link = "valid" /\ dj.job.kind = "flightUpdate"
       THEN drun' = [drun EXCEPT !.pc = "next"] /\ UNCHANGED dj
       ELSE FinishJob("failed")
    /\ UNCHANGED <<tok, gone, link, copies, dfaults, dchanges>>

(* The channel in turn, in the order of the job's channel list. *)
Turn(ch) ==
    /\ drun.pc = "next" /\ ch \in drun.todo
    /\ ch = "WHATSAPP" => "EMAIL" \notin drun.todo
    /\ ch = "PUSH" => drun.todo = {"PUSH"}

Result(ch, outcome) ==
    drun' = [drun EXCEPT !.pc = "next", !.todo = @ \ {ch}, !.res[ch] = outcome]

(* A provider call: accepted, or an error with or without the message       *)
(* having gone out.                                                         *)
Provider(ch, address) ==
    \/ Count({address}) /\ Result(ch, "ok") /\ UNCHANGED dfaults
    \/ DFault /\ (Count({address}) \/ UNCHANGED copies) /\ Result(ch, "retry")

sendEmailNotification ==
    /\ Turn("EMAIL")
    /\ CASE ~dj.job.contact.email -> Result("EMAIL", "null") /\ UNCHANGED <<copies, dfaults>>
         [] dj.job.contact.email /\ ~buildEmailHtml(dj.job) ->
                Result("EMAIL", "retry") /\ UNCHANGED <<copies, dfaults>>
         [] OTHER -> Provider("EMAIL", "EMAIL")
    /\ UNCHANGED <<dj, tok, gone, link, dchanges>>

(* Without a template for the type and recipient nothing is sent and the    *)
(* channel succeeds.                                                        *)
sendWhatsAppNotification ==
    /\ Turn("WHATSAPP")
    /\ LET template == getWhatsAppTemplateKey(dj.job.type, dj.job.recipient)
       IN  CASE ~dj.job.contact.phone ->
                    Result("WHATSAPP", "null") /\ UNCHANGED <<copies, dfaults>>
             [] dj.job.contact.phone /\ template = "none" ->
                    Result("WHATSAPP", "ok") /\ UNCHANGED <<copies, dfaults>>
             [] dj.job.contact.phone /\ template # "none" /\ ~contentSidMap(template) ->
                    Result("WHATSAPP", "retry") /\ UNCHANGED <<copies, dfaults>>
             [] OTHER -> Provider("WHATSAPP", "WHATSAPP")
    /\ UNCHANGED <<dj, tok, gone, link, dchanges>>

getActiveTokensForUsers(u) == {t \in DTokens : tok[t].active /\ tok[t].owner = u}

(* sendPushNotification reads the tokens; without any the channel has no    *)
(* result.                                                                  *)
sendPushNotification ==
    /\ Turn("PUSH")
    /\ LET tokens == getActiveTokensForUsers(Addressee)
       IN  IF dj.job.audience # "CUSTOMER" \/ tokens = {}
           THEN Result("PUSH", "null")
           ELSE drun' = [drun EXCEPT !.pc = "push", !.tokens = tokens]
    /\ UNCHANGED <<dj, tok, gone, link, copies, dfaults, dchanges>>

(* isRetryableTicketError: the outcome of the channel from the errors that  *)
(* are not DeviceNotRegistered.                                             *)
PushOutcome(retryErrors, fatalErrors) ==
    IF retryErrors \cup fatalErrors = {} THEN "ok"
    ELSE IF retryErrors # {} THEN "retry" ELSE "fatal"

(* PushService: the tokens Expo no longer knows are reported dead; a chunk  *)
(* may fail as a whole, before or after it went out, and single tickets may *)
(* fail for good or for now.                                                *)
sendPushNotifications ==
    /\ drun.pc = "push"
    /\ \E failed \in SUBSET (drun.tokens \ gone) :
       \E fatal \in SUBSET ((drun.tokens \ gone) \ failed) :
         /\ IF failed \cup fatal = {} THEN UNCHANGED dfaults ELSE DFault
         /\ \/ Count((drun.tokens \ gone) \ (failed \cup fatal))
            \/ failed = drun.tokens \ gone /\ failed # {} /\ Count(failed)
         /\ drun' = [drun EXCEPT !.pc = "revoke", !.dead = drun.tokens \cap gone,
                       !.res["PUSH"] = PushOutcome(failed, fatal)]
         /\ dj' = [dj EXCEPT !.fatal = dj.fatal \/ fatal # {}]
    /\ UNCHANGED <<tok, gone, link, dchanges>>

(* revokeTokens, by token, whoever owns it by now; an error is only logged. *)
revokeTokens ==
    /\ drun.pc = "revoke"
    /\ \/ /\ tok' = [t \in DTokens |-> IF t \in drun.dead
                       THEN [tok[t] EXCEPT !.active = FALSE] ELSE tok[t]]
          /\ UNCHANGED dfaults
       \/ drun.dead # {} /\ DFault /\ UNCHANGED tok
    /\ drun' = [drun EXCEPT !.pc = "next", !.todo = @ \ {"PUSH"}]
    /\ UNCHANGED <<dj, gone, link, copies, dchanges>>

Failing(r) == {ch \in Channels : r.res[ch] \in {"retry", "fatal"}}

(* Retries stop early only when every failed channel is beyond retrying.    *)
StopsEarly(r) == \A ch \in Failing(r) : r.res[ch] = "fatal"

updateProgress ==
    /\ drun.pc = "next" /\ drun.todo = {}
    /\ dj' = [dj EXCEPT !.progress = @ \cup {ch \in Channels : drun.res[ch] = "ok"}]
    /\ drun' = [drun EXCEPT !.pc = "finish"]
    /\ UNCHANGED <<tok, gone, link, copies, dfaults, dchanges>>

(* Attempts are counted and limited by the queue's job options. *)
AttemptsAfter(made) == made + 1
LastAttempt(made) == AttemptsAfter(made) >= JobTries

(* The end of process() and what BullMQ makes of it. *)
processEnds ==
    /\ drun.pc = "finish"
    /\ IF Failing(drun) = {} THEN FinishJob("completed")
       ELSE /\ dj' = [dj EXCEPT !.made = AttemptsAfter(dj.made),
                        !.state = IF StopsEarly(drun) \/ LastAttempt(dj.made)
                                    THEN "failed" ELSE "waiting"]
            /\ drun' = IdleRun
    /\ UNCHANGED <<tok, gone, link, copies, dfaults, dchanges>>

(* The worker dies: BullMQ finds the job stalled and runs it again, once. *)
DCrash ==
    /\ drun.pc # "idle" /\ DFault
    /\ dj' = [dj EXCEPT !.stalls = @ + 1,
                        !.state = IF dj.stalls = DStalls THEN "failed" ELSE "waiting"]
    /\ drun' = IdleRun
    /\ UNCHANGED <<tok, gone, link, copies, dchanges>>

-----------------------------------------------------------------------------
(* PushTokenService: one transaction under an advisory lock per token.  The *)
(* app that registers is alive.                                             *)
registerToken(u, t) ==
    /\ dchanges < DMaxChanges /\ dchanges' = dchanges + 1
    /\ ~(tok[t].active /\ tok[t].owner # u)
    /\ tok' = [tok EXCEPT ![t] = [owner |-> u, active |-> TRUE]]
    /\ gone' = gone \ {t}
    /\ UNCHANGED <<dj, drun, link, copies, dfaults>>

revokeToken(u, t) ==
    /\ dchanges < DMaxChanges /\ dchanges' = dchanges + 1
    /\ tok[t].owner = u /\ tok[t].active
    /\ tok' = [tok EXCEPT ![t].active = FALSE]
    /\ UNCHANGED <<dj, drun, gone, link, copies, dfaults>>

(* An app is removed from its device: Expo will answer DeviceNotRegistered. *)
appRemoved(t) ==
    /\ dchanges < DMaxChanges /\ dchanges' = dchanges + 1
    /\ gone' = gone \cup {t}
    /\ UNCHANGED <<dj, drun, tok, link, copies, dfaults>>

linkExpires ==
    /\ dj.job.completionLink /\ link = "valid" /\ link' = "expired"
    /\ UNCHANGED <<dj, drun, tok, gone, copies, dfaults, dchanges>>

Worker ==
    \/ process \/ resolveAirportCompletionLink
    \/ sendEmailNotification \/ sendWhatsAppNotification
    \/ sendPushNotification \/ sendPushNotifications \/ revokeTokens
    \/ updateProgress \/ processEnds

DNext ==
    \/ Worker \/ DCrash \/ linkExpires
    \/ \E t \in DTokens :
          appRemoved(t) \/ \E u \in DUsers : registerToken(u, t) \/ revokeToken(u, t)

(* A worker takes a waiting job and a live process() call proceeds. *)
DFairness == WF_dvars(Worker)

DSpec == DInit /\ [][DNext]_dvars /\ DFairness

-----------------------------------------------------------------------------
(***************************************************************************)
(* A completed job reached its recipient: every channel was accepted by    *)
(* its provider, or nobody could be addressed on it (push without a        *)
(* registered device, or only devices that were gone when it was sent).    *)
(***************************************************************************)
CompletedMeansDelivered ==
    dj.state = "completed" =>
        /\ \A ch \in dj.job.channels \cap {"EMAIL", "WHATSAPP"} :
              ch \in dj.progress /\ copies[ch] > 0
        /\ "PUSH" \in dj.progress =>
              \E t \in DTokens : copies[t] > 0 \/ t \in gone \/ dchanges > 0

(***************************************************************************)
(* A channel recorded as succeeded is not served again, however often the  *)
(* job is retried for the sake of another channel.                         *)
(***************************************************************************)
SucceededNotRepeated ==
    [][\A a \in Addresses : copies'[a] # copies[a] =>
          (IF a \in DTokens THEN "PUSH" ELSE a) \notin dj.progress]_dvars

(***************************************************************************)
(* Duplicates are bounded: an address gets at most one copy per attempt    *)
(* that failed, one per run that stalled, and one of the attempt that is   *)
(* running or succeeded; so never more than JobTries + DStalls.            *)
(***************************************************************************)
CopiesBounded ==
    \A a \in Addresses :
        copies[a] <= dj.made + dj.stalls + (IF dj.state = "failed" THEN 0 ELSE 1)

(***************************************************************************)
(* The queue gives a job up only for a cause: a link that expired, a type  *)
(* without template, a provider that refuses for good, a worker that died  *)
(* too often, or an error in every single attempt.                         *)
(***************************************************************************)
GivenUpForCause ==
    dj.state = "failed" =>
        \/ link = "expired" \/ dj.fatal
        \/ \E ch \in dj.job.channels : ~Deliverable(dj.job, ch)
        \/ dj.stalls > DStalls
        \/ dfaults >= JobTries

(***************************************************************************)
(* Every queued notification ends: delivered or given up.                  *)
(***************************************************************************)
JobEnds == dj.state = "waiting" ~> dj.state \in {"completed", "failed"}

(***************************************************************************)
(* A retried job neither claims what it did not deliver nor repeats what   *)
(* it did: completed means delivered, a channel that succeeded is not      *)
(* served again, the copies are bounded, and a job is given up only for a  *)
(* cause (process, getSucceededChannels, sendPushNotification).            *)
(***************************************************************************)
DeliverySound ==
    /\ [](DTypeOK /\ CompletedMeansDelivered /\ CopiesBounded /\ GivenUpForCause)
    /\ SucceededNotRepeated

=============================================================================
