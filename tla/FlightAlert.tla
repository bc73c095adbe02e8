---------------------------- MODULE FlightAlert ----------------------------
(***************************************************************************)
(* The FlightAware alert of one flight with a paid airport booking: the    *)
(* confirmation queues a job, a cron queues another while none is enabled, *)
(* and FlightAwareAlertService claims the flight row, creates the alert at *)
(* FlightAware and records it, or removes what it created.                 *)
(*                                                                         *)
(* A claim is the instant alertProvisioningAt, here its number.  stale     *)
(* says that the claim is older than ALERT_PROVISIONING_STALE_MS, due that *)
(* alertLastAttemptAt is older than ALERT_RETRY_BACKOFF_MS.                *)
(***************************************************************************)
EXTENDS Integers, FiniteSets

CONSTANTS
    AJobs,        \* job ids: the confirmation's and one per 5-minute bucket
    FirstJob,     \* flight-alert-<flight>
    AlertTries,   \* attempts of the flight alerts queue (3)
    AMaxClaims,   \* bound on claims, and so on alerts
    AMaxFaults    \* bound on failed calls and crashes

ASSUME AAssumption ==
    /\ FirstJob \in AJobs
    /\ AlertTries \in Nat \ {0} /\ {AMaxClaims, AMaxFaults} \subseteq Nat

VARIABLES
    frow,     \* the alert columns of the Flight row
    ajob,     \* per job: its state and the getOrCreateFlightAlert call it runs
    live,     \* alerts that exist at FlightAware
    aclaims,  \* claims made so far
    afaults

avars == <<frow, ajob, live, aclaims, afaults>>

NoAlert == 0
Alerts  == 0..AMaxClaims

(* The flight row, its alert and the jobs that provision it are of their   *)
(* kinds (flightaware-alert.service.ts).                                   *)
ATypeOK ==
    /\ frow \in [alert: Alerts, enabled: BOOLEAN, claim: 0..AMaxClaims,
                 stale: BOOLEAN, due: BOOLEAN]
    /\ ajob \in [AJobs -> [state: {"none", "waiting", "active", "completed", "failed"},
                           made: 0..AlertTries,
                           pc: {"claim", "create", "persist", "undo", "release"},
                           claim: 0..AMaxClaims, created: Alerts]]
    /\ live \subseteq 1..AMaxClaims
    /\ aclaims \in 0..AMaxClaims /\ afaults \in 0..AMaxFaults

NoAlertJob == [state |-> "none", made |-> 0, pc |-> "claim", claim |-> 0, created |-> NoAlert]

AInit ==
    /\ frow = [alert |-> NoAlert, enabled |-> FALSE, claim |-> 0,
               stale |-> FALSE, due |-> TRUE]
    /\ ajob = [j \in AJobs |-> NoAlertJob]
    /\ live = {} /\ aclaims = 0 /\ afaults = 0

(* The alert exists and every job is done. *)
AProvisioned ==
    /\ frow = [alert |-> 1, enabled |-> TRUE, claim |-> 0, stale |-> FALSE, due |-> TRUE]
    /\ ajob = [j \in AJobs |-> [NoAlertJob EXCEPT !.state = "completed"]]
    /\ live = {1} /\ aclaims = 1 /\ afaults = 0

AFault == afaults < AMaxFaults /\ afaults' = afaults + 1

-----------------------------------------------------------------------------
(* The two producers. *)

AlertQueued(j) == ajob' = [ajob EXCEPT ![j] = [NoAlertJob EXCEPT !.state = "waiting"]]

(* queueFlightAlert, after a confirmation; a failed add is only logged. *)
queueFlightAlert ==
    /\ ajob[FirstJob].state = "none" /\ AlertQueued(FirstJob)
    /\ UNCHANGED <<frow, live, aclaims, afaults>>

(* The cron selects a flight without an enabled alert whose last attempt is *)
(* old enough; a job id lasts for one bucket.                               *)
MissingAlert == ~frow.enabled /\ frow.due

reconcileMissingAlerts(j) ==
    /\ j # FirstJob /\ ajob[j].state = "none"
    /\ MissingAlert
    /\ AlertQueued(j)
    /\ UNCHANGED <<frow, live, aclaims, afaults>>

-----------------------------------------------------------------------------
(* FlightAlertProcessor and getOrCreateFlightAlert. *)

AlertCall(j, pc) == ajob[j].state = "active" /\ ajob[j].pc = pc

(* The attempt of job j ends; a thrown error costs an attempt. *)
AlertThrows(j) ==
    ajob' = [ajob EXCEPT ![j] = [NoAlertJob EXCEPT
        !.made = ajob[j].made + 1,
        !.state = IF ajob[j].made + 1 = AlertTries THEN "failed" ELSE "waiting"]]

AlertReturns(j) == ajob' = [ajob EXCEPT ![j] = [ajob[j] EXCEPT !.state = "completed"]]

processAlertJob(j) ==
    /\ ajob[j].state = "waiting"
    /\ ajob' = [ajob EXCEPT ![j] = [ajob[j] EXCEPT !.state = "active", !.pc = "claim"]]
    /\ UNCHANGED <<frow, live, aclaims, afaults>>

(* Another call holds a claim that is not old yet. *)
ClaimHeld == frow.claim # 0 /\ ~frow.stale

(* The transaction under the advisory lock. *)
claimFlightAlert(j) ==
    /\ AlertCall(j, "claim")
    /\ CASE frow.enabled -> AlertReturns(j) /\ UNCHANGED <<frow, aclaims>>
         [] ~frow.enabled /\ ClaimHeld -> AlertThrows(j) /\ UNCHANGED <<frow, aclaims>>
         [] OTHER -> /\ aclaims < AMaxClaims /\ aclaims' = aclaims + 1
                     /\ frow' = [frow EXCEPT !.claim = aclaims + 1, !.stale = FALSE,
                                             !.due = FALSE]
                     /\ ajob' = [ajob EXCEPT ![j] = [ajob[j] EXCEPT
                                   !.pc = "create", !.claim = aclaims + 1]]
    /\ UNCHANGED <<live, afaults>>

(* POST /alerts: made and answered; refused; or made and the answer lost or *)
(* without a Location, so that nobody knows its id.                         *)
createFlightAlert(j) ==
    /\ AlertCall(j, "create")
    /\ \/ /\ live' = live \cup {ajob[j].claim}
          /\ ajob' = [ajob EXCEPT ![j] = [ajob[j] EXCEPT
                        !.pc = "persist", !.created = ajob[j].claim]]
          /\ UNCHANGED afaults
       \/ /\ AFault
          /\ live' \in {live, live \cup {ajob[j].claim}}
          /\ ajob' = [ajob EXCEPT ![j] = [ajob[j] EXCEPT !.pc = "release"]]
    /\ UNCHANGED <<frow, aclaims>>

(* The conditional update: only while the row still has this claim. *)
ClaimKept(j) == ~frow.enabled /\ frow.claim = ajob[j].claim

persistFlightAlert(j) ==
    /\ AlertCall(j, "persist")
    /\ \/ /\ ClaimKept(j)
          /\ frow' = [frow EXCEPT !.alert = ajob[j].created, !.enabled = TRUE,
                                  !.claim = 0, !.stale = FALSE]
          /\ AlertReturns(j) /\ UNCHANGED afaults
       \/ /\ ~ClaimKept(j) /\ UNCHANGED <<frow, afaults>>
          /\ ajob' = [ajob EXCEPT ![j] = [ajob[j] EXCEPT !.pc = "undo"]]
       \/ /\ AFault /\ UNCHANGED frow
          /\ ajob' = [ajob EXCEPT ![j] = [ajob[j] EXCEPT !.pc = "undo"]]
    /\ UNCHANGED <<live, aclaims>>

RemovedBoth(j) == {ajob[j].created, frow.alert}

(* disableFlightAlert of what was created; its error is only logged. *)
Removed(j) == {ajob[j].created}

disableFlightAlert(j) ==
    /\ AlertCall(j, "undo")
    /\ \/ live' = live \ Removed(j) /\ UNCHANGED afaults
       \/ AFault /\ UNCHANGED live
    /\ ajob' = [ajob EXCEPT ![j] = [ajob[j] EXCEPT !.pc = "release"]]
    /\ UNCHANGED <<frow, aclaims>>

(* The claim is given back, if the row still has it, and the error goes on. *)
releaseFlightAlertClaim(j) ==
    /\ AlertCall(j, "release")
    /\ \/ /\ frow' = IF frow.claim = ajob[j].claim
                       THEN [frow EXCEPT !.claim = 0, !.stale = FALSE] ELSE frow
          /\ UNCHANGED afaults
       \/ AFault /\ UNCHANGED frow
    /\ AlertThrows(j)
    /\ UNCHANGED <<live, aclaims>>

getOrCreateFlightAlert(j) ==
    \/ processAlertJob(j) \/ claimFlightAlert(j) \/ createFlightAlert(j)
    \/ persistFlightAlert(j) \/ disableFlightAlert(j) \/ releaseFlightAlertClaim(j)

(* The worker dies and the job is found stalled. *)
ACrash(j) ==
    /\ ajob[j].state = "active" /\ AFault
    /\ AlertThrows(j)
    /\ UNCHANGED <<frow, live, aclaims>>

(* Time: the claim grows old, the last attempt too. *)
claimAges ==
    /\ frow.claim # 0 /\ ~frow.stale
    /\ frow' = [frow EXCEPT !.stale = TRUE]
    /\ UNCHANGED <<ajob, live, aclaims, afaults>>

attemptAges ==
    /\ ~frow.due /\ frow' = [frow EXCEPT !.due = TRUE]
    /\ UNCHANGED <<ajob, live, aclaims, afaults>>

ANext ==
    \/ queueFlightAlert \/ claimAges \/ attemptAges
    \/ \E j \in AJobs : reconcileMissingAlerts(j) \/ getOrCreateFlightAlert(j) \/ ACrash(j)

(* The cron and the workers run on, and time passes. *)
AFairness ==
    /\ WF_avars(claimAges) /\ WF_avars(attemptAges)
    /\ \A j \in AJobs : WF_avars(reconcileMissingAlerts(j))
                        /\ WF_avars(getOrCreateFlightAlert(j))

ASpec == AInit /\ [][ANext]_avars /\ AFairness

-----------------------------------------------------------------------------
(***************************************************************************)
(* The alert the row calls enabled exists: a call that lost its claim      *)
(* never removes the alert of the call that took over.                     *)
(***************************************************************************)
EnabledAlertExists == frow.enabled => frow.alert \in live

(***************************************************************************)
(* FlightAware bills and reports every alert: one that neither the row nor *)
(* a call in progress knows of is the work of a fault, one each, however   *)
(* many calls overlap.                                                     *)
(***************************************************************************)
NoStrayAlerts ==
    Cardinality(live \ ({frow.alert} \cup {ajob[j].created : j \in AJobs})) <= afaults

(***************************************************************************)
(* A paid flight gets its alert: while the cron has buckets left and       *)
(* claims are not used up, a failed provisioning is taken up again.        *)
(***************************************************************************)
AlertArrives ==
    <>(frow.enabled \/ aclaims = AMaxClaims
       \/ \A j \in AJobs \ {FirstJob} : ajob[j].state \in {"completed", "failed"})

(***************************************************************************)
(* However many jobs provision the alert of a flight at once, and          *)
(* whichever of them loses its claim or its answer, the alert the row      *)
(* names exists, and the others are removed except one for each fault      *)
(* (getOrCreateFlightAlert).                                               *)
(***************************************************************************)
AlertsSound == ATypeOK /\ EnabledAlertExists /\ NoStrayAlerts

=============================================================================
