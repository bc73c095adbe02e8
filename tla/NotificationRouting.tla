------------------------ MODULE NotificationRouting ------------------------
(***************************************************************************)
(* Who is told about a change, on which channels, and under which dedupe   *)
(* key: NotificationService's builders and the outbox handlers, against    *)
(* what NotificationProcessor and its template mappers can deliver.        *)
(*                                                                         *)
(* A contact is reduced to whether it has a user id, an e-mail address and *)
(* a phone number; texts, subjects and template values are left out.  A    *)
(* builder returns the set of its jobs (empty for null).                   *)
(***************************************************************************)
EXTENDS Integers, FiniteSets

CONSTANTS
    RBookings,   \* ids of bookings that follow one flight
    RConfig      \* the optional WhatsApp templates that are configured:
                 \* a subset of {"flight", "payout", "refund"}

ASSUME RAssumption == RConfig \subseteq {"flight", "payout", "refund"}

VARIABLE routed  \* the change handled last, with the events built for it

rvars == <<routed>>

(* A customer is a registered user, whose e-mail address is mandatory, or a *)
(* guest, who leaves what he likes and may restrict the channels.           *)
Customers ==
    [registered: {TRUE}, email: {TRUE}, phone: BOOLEAN, prefers: {"both"}]
    \cup [registered: {FALSE}, email: BOOLEAN, phone: BOOLEAN,
          prefers: {"both", "WHATSAPP_ONLY", "EMAIL_ONLY"}]

(* Owners and chauffeurs are users. *)
Staff == [userId: {TRUE}, email: {TRUE}, phone: BOOLEAN]

getCustomerDetails(c) ==
    [userId |-> c.registered,
     email  |-> c.email /\ c.prefers # "WHATSAPP_ONLY",
     phone  |-> c.phone /\ c.prefers # "EMAIL_ONLY"]

deriveNotificationChannels(contact) ==
    {ch \in {"EMAIL", "WHATSAPP"} :
        IF ch = "EMAIL" THEN contact.email ELSE contact.phone}

resolve(audience, contact) ==
    deriveNotificationChannels(contact)
    \cup IF audience = "CUSTOMER" /\ contact.userId THEN {"PUSH"} ELSE {}

KeepsUnconfigured(channels, template) == channels

(* WhatsApp is dropped when its optional template is not configured. *)
WithoutUnconfigured(channels, template) ==
    IF template \in RConfig THEN channels ELSE channels \ {"WHATSAPP"}

Job(type, audience, channels, recipient, contact, kind, status) ==
    IF channels = {} THEN {}
    ELSE {[type |-> type, audience |-> audience, channels |-> channels,
           recipient |-> recipient, contact |-> contact, kind |-> kind,
           status |-> status, completionLink |-> FALSE]}

CustomerJob(type, contact, kind) ==
    Job(type, "CUSTOMER", resolve("CUSTOMER", contact), "client", contact, kind, "-")

OwnerJob(type, contact, kind) ==
    Job(type, "FLEET_OWNER", resolve("FLEET_OWNER", contact), "fleetOwner",
        contact, kind, "-")

buildBookingStatusChangeJobData(c) ==
    CustomerJob("BOOKING_STATUS_CHANGE", getCustomerDetails(c), "bookingStatus")

buildBookingUpdatedJobData(c, includePush) ==
    LET contact  == getCustomerDetails(c)
        channels == resolve("CUSTOMER", contact)
                      \ (IF includePush THEN {} ELSE {"PUSH"})
    IN  Job("BOOKING_UPDATED", "CUSTOMER", channels, "client", contact,
            "bookingStatus", "-")

buildChauffeurAssignedJobData(c) ==
    CustomerJob("CHAUFFEUR_ASSIGNED", getCustomerDetails(c), "bookingStatus")

buildBookingConfirmedJobData(c, owner) ==
    [customer |-> CustomerJob("BOOKING_CONFIRMED", getCustomerDetails(c),
                              "bookingConfirmed"),
     owner    |-> OwnerJob("FLEET_OWNER_NEW_BOOKING", owner, "fleetOwnerNewBooking")]

buildReferralRewardReleasedJobData ==
    Job("REFERRAL_REWARD_RELEASED", "CUSTOMER", {"PUSH"}, "client",
        [userId |-> TRUE, email |-> FALSE, phone |-> FALSE], "pushOnly", "-")

(* Operations is an e-mail address from the configuration. *)
Operations == [userId |-> FALSE, email |-> TRUE, phone |-> FALSE]

buildPayoutStatusChangedJobData(status, owner) ==
    IF status = "PAID_OUT"
    THEN Job("PAYOUT_STATUS_CHANGED", "FLEET_OWNER",
             WithoutUnconfigured(resolve("FLEET_OWNER", owner), "payout"),
             "fleetOwner", owner, "payoutStatus", status)
    ELSE Job("PAYOUT_STATUS_CHANGED", "OPERATIONS", {"EMAIL"}, "operations",
             Operations, "payoutStatus", status)

Refunded == {"REFUNDED", "PARTIALLY_REFUNDED"}

buildRefundStatusChangedJobData(status, customer) ==
    IF status \in Refunded
    THEN Job("REFUND_STATUS_CHANGED", "CUSTOMER",
             WithoutUnconfigured(resolve("CUSTOMER", customer), "refund"),
             "client", customer, "refundStatus", status)
    ELSE Job("REFUND_STATUS_CHANGED", "OPERATIONS", {"EMAIL"}, "operations",
             Operations, "refundStatus", status)

buildBookingExtensionConfirmedJobData(c) ==
    CustomerJob("BOOKING_EXTENSION_CONFIRMED", getCustomerDetails(c),
                "bookingExtensionConfirmed")

buildBookingCancellationJobData(c, owner) ==
    [customer |-> CustomerJob("BOOKING_CANCELLED", getCustomerDetails(c),
                              "bookingCancelled"),
     owner    |-> OwnerJob("BOOKING_CANCELLED", owner, "bookingCancelled")]

createReminderJobData(type, recipient, contact) ==
    LET audience == IF recipient = "client" THEN "CUSTOMER" ELSE "CHAUFFEUR"
    IN  Job(type, audience, resolve(audience, contact), recipient, contact,
            "bookingReminder", "-")

buildBookingReminderJobData(type, c, chauffeurs) ==
    createReminderJobData(type, "client", getCustomerDetails(c))
    \cup UNION {createReminderJobData(type, "chauffeur", d) : d \in chauffeurs}

buildReviewReceivedJobData(owner, chauffeur) ==
    Job("REVIEW_RECEIVED", "FLEET_OWNER", {"EMAIL"}, "fleetOwner", owner,
        "reviewReceived", "-")
    \cup Job("REVIEW_RECEIVED", "CHAUFFEUR", {"EMAIL"}, "chauffeur", chauffeur,
             "reviewReceived", "-")

(* getFlightUpdateRecipient: a customer needs a user id; of him only that   *)
(* is taken.  chauffeurs is empty or a singleton.                           *)
getFlightUpdateRecipient(recipient, c, owner, chauffeurs) ==
    CASE recipient = "client" ->
             IF c.registered
             THEN {[userId |-> TRUE, email |-> FALSE, phone |-> FALSE]} ELSE {}
      [] recipient = "fleetOwner" -> {owner}
      [] recipient = "chauffeur" -> chauffeurs

buildFlightUpdateJobData(type, recipient, contacts) ==
    LET audience == CASE recipient = "client" -> "CUSTOMER"
                      [] recipient = "fleetOwner" -> "FLEET_OWNER"
                      [] recipient = "chauffeur" -> "CHAUFFEUR"
    IN  UNION {Job(type, audience,
                   IF recipient = "client" THEN {"PUSH"}
                   ELSE WithoutUnconfigured(resolve(audience, contact), "flight"),
                   recipient, contact, "flightUpdate", "-") : contact \in contacts}

-----------------------------------------------------------------------------
(* The handlers.  An event has the job (or none), the inbox flag and its   *)
(* dedupe key; an event with neither is not written.                       *)

Event(job, inboxRow, key) ==
    IF job = {} /\ ~inboxRow THEN {}
    ELSE {[job |-> job, inbox |-> inboxRow, key |-> key]}

BookingStatusChangedHandler(c, withLink, chauffeurs) ==
    Event(buildBookingStatusChangeJobData(c), c.registered, <<"booking-status">>)
    \cup (IF withLink
          THEN UNION {Event({[j EXCEPT !.completionLink = TRUE]}, FALSE,
                            <<"airport-completion-link">>) :
                 j \in buildFlightUpdateJobData("FLIGHT_ASSIGNMENT_SNAPSHOT",
                                                "chauffeur", chauffeurs)}
          ELSE {})

BookingUpdatedHandler(c, byStaff) ==
    Event(buildBookingUpdatedJobData(c, byStaff), c.registered, <<"booking-updated">>)

(* A flight briefing goes with the assignment of an airport pickup. *)
ChauffeurAssignedHandler(c, chauffeurs, withFlight) ==
    Event(buildChauffeurAssignedJobData(c), c.registered, <<"chauffeur-assigned">>)
    \cup (IF withFlight
          THEN UNION {Event({j}, FALSE, <<"flight-assignment">>) :
                 j \in buildFlightUpdateJobData("FLIGHT_ASSIGNMENT_SNAPSHOT",
                                                "chauffeur", chauffeurs)}
          ELSE {})

TwoParties(jobs, inboxRow, name) ==
    Event(jobs.customer, inboxRow, <<name, "client">>)
    \cup Event(jobs.owner, FALSE, <<name, "fleet-owner">>)

BookingConfirmedHandler(c, owner) ==
    TwoParties(buildBookingConfirmedJobData(c, owner), c.registered,
               "booking-confirmed")

BookingCancellationHandler(c, owner) ==
    TwoParties(buildBookingCancellationJobData(c, owner), c.registered,
               "booking-cancelled")

BookingExtensionConfirmedHandler(c) ==
    Event(buildBookingExtensionConfirmedJobData(c), c.registered,
          <<"booking-extension-confirmed", "client">>)

(* Customer and chauffeur, each with an inbox row when he is a user. *)
BookingReminderHandler(type, c, chauffeurs) ==
    LET jobs == buildBookingReminderJobData(type, c, chauffeurs)
        of(recipient) == {j \in jobs : j.recipient = recipient}
    IN  Event(of("client"), c.registered, <<"booking-reminder", "client", type>>)
        \cup Event(of("chauffeur"), chauffeurs # {},
                   <<"booking-reminder", "chauffeur", type>>)

ReferralRewardReleasedHandler ==
    Event(buildReferralRewardReleasedJobData, TRUE, <<"referral-reward-released">>)

PayoutStatusChangedHandler(status, owner) ==
    Event(buildPayoutStatusChangedJobData(status, owner), FALSE,
          <<"payout-status", status>>)

RefundStatusChangedHandler(status, customer) ==
    Event(buildRefundStatusChangedJobData(status, customer), FALSE,
          <<"refund-status", status>>)

ReviewReceivedHandler(owner, chauffeur) ==
    UNION {Event({j}, FALSE, <<"review-received", j.recipient>>) :
             j \in buildReviewReceivedJobData(owner, chauffeur)}

(* Every notification of one flight event, for every booking of the flight: *)
(* owner, chauffeur and, when the notification has a text for him, the      *)
(* customer, who gets an inbox row as well.                                 *)
FlightKey(n, b, recipient) == <<"flight-update", n.type, b, recipient>>

FlightStatusUpdatedHandler(notifications, bookings, c, owner, chauffeurs) ==
    LET job(n, recipient) ==
            buildFlightUpdateJobData(n.type, recipient,
                getFlightUpdateRecipient(recipient, c, owner, chauffeurs))
    IN  UNION {
          (IF job(n, "fleetOwner") = {} THEN {}
           ELSE Event(job(n, "fleetOwner"), FALSE, FlightKey(n, b, "fleetOwner")))
          \cup (IF job(n, "chauffeur") = {} THEN {}
                ELSE Event(job(n, "chauffeur"), FALSE, FlightKey(n, b, "chauffeur")))
          \cup (IF c.registered /\ n.forCustomer
                THEN Event(job(n, "client"), TRUE, FlightKey(n, b, "client"))
                ELSE {})
          : n \in notifications, b \in bookings}

-----------------------------------------------------------------------------
(* What NotificationProcessor delivers. *)

FlightTypes ==
    {"FLIGHT_ARRIVED", "FLIGHT_DEPARTED", "FLIGHT_DELAYED", "FLIGHT_CANCELLED",
     "FLIGHT_DIVERTED", "FLIGHT_GATE_CHANGED", "FLIGHT_TERMINAL_CHANGED",
     "FLIGHT_DELAY_RECOVERED", "FLIGHT_REINSTATED", "FLIGHT_ASSIGNMENT_SNAPSHOT"}

ConflictType == "AIRPORT_SCHEDULE_CONFLICT"

(* buildEmailHtml: the template of the type, its kind of data, and the      *)
(* recipients it is written for; anything else throws.                      *)
buildEmailHtml(j) ==
    CASE j.type = "BOOKING_CONFIRMED" -> j.kind = "bookingConfirmed"
      [] j.type = "BOOKING_EXTENSION_CONFIRMED" ->
             j.kind = "bookingExtensionConfirmed"
      [] j.type = "FLEET_OWNER_NEW_BOOKING" -> j.kind = "fleetOwnerNewBooking"
      [] j.type = "BOOKING_CANCELLED" -> j.kind = "bookingCancelled"
      [] j.type \in {"BOOKING_UPDATED", "BOOKING_STATUS_CHANGE",
                     "CHAUFFEUR_ASSIGNED"} -> j.kind = "bookingStatus"
      [] j.type \in {"BOOKING_REMINDER_START", "BOOKING_REMINDER_END"} ->
             j.kind = "bookingReminder" /\ j.recipient \in {"client", "chauffeur"}
      [] j.type = "REVIEW_RECEIVED" ->
             j.kind = "reviewReceived" /\ j.recipient \in {"fleetOwner", "chauffeur"}
      [] j.type = "PAYOUT_STATUS_CHANGED" ->
             /\ j.kind = "payoutStatus"
             /\ j.recipient = IF j.status = "PAID_OUT" THEN "fleetOwner"
                                                       ELSE "operations"
      [] j.type = "REFUND_STATUS_CHANGED" ->
             /\ j.kind = "refundStatus"
             /\ j.recipient = IF j.status \in Refunded THEN "client"
                                                       ELSE "operations"
      [] j.type \in FlightTypes -> j.kind = "flightUpdate"
      [] OTHER -> FALSE

(* getWhatsAppTemplateKey: the first mapper that handles the type; "none"   *)
(* makes the channel succeed without a message.                             *)
getWhatsAppTemplateKey(type, recipient) ==
    CASE type = "BOOKING_CONFIRMED" -> "BookingConfirmation"
      [] type = "BOOKING_EXTENSION_CONFIRMED" -> "BookingExtensionConfirmation"
      [] type = "BOOKING_CANCELLED" /\ recipient \in {"client", "fleetOwner"} ->
             "BookingCancellation"
      [] type = "FLEET_OWNER_NEW_BOOKING" -> "FleetOwnerBookingNotification"
      [] type \in FlightTypes \cup {ConflictType} -> "flight"
      [] type = "PAYOUT_STATUS_CHANGED" /\ recipient = "fleetOwner" -> "payout"
      [] type = "REFUND_STATUS_CHANGED" /\ recipient = "client" -> "refund"
      [] type \in {"BOOKING_STATUS_CHANGE", "CHAUFFEUR_ASSIGNED",
                   "BOOKING_UPDATED"} -> "BookingStatusUpdate"
      [] type \in {"BOOKING_REMINDER_START", "BOOKING_REMINDER_END"}
            /\ recipient \in {"client", "chauffeur"} -> "Reminder"
      [] OTHER -> "none"

(* WhatsAppService.sendMessage needs the content SID of the template. *)
contentSidMap(template) ==
    template \in {"flight", "payout", "refund"} => template \in RConfig

Deliverable(j, ch) ==
    CASE ch = "EMAIL" -> j.contact.email /\ buildEmailHtml(j)
      [] ch = "WHATSAPP" ->
             LET template == getWhatsAppTemplateKey(j.type, j.recipient)
             IN  j.contact.phone /\ template # "none" /\ contentSidMap(template)
      [] ch = "PUSH" -> j.audience = "CUSTOMER" /\ j.contact.userId

-----------------------------------------------------------------------------
(* One handled change at a time. *)

Route(change, customer, events) ==
    /\ routed.change = "none"
    /\ routed' = [change |-> change, customer |-> customer, events |-> events]

RInit == routed = [change |-> "none", customer |-> FALSE, events |-> {}]

Chauffeurs == {{}} \cup {{d} : d \in Staff}

routeBookingChange ==
    \E c \in Customers, owner \in Staff, chauffeurs \in Chauffeurs,
       flag \in BOOLEAN, type \in {"BOOKING_REMINDER_START", "BOOKING_REMINDER_END"} :
        \/ Route("status", c.registered,
                 BookingStatusChangedHandler(c, flag, chauffeurs))
        \/ Route("updated", c.registered, BookingUpdatedHandler(c, flag))
        \/ Route("assigned", c.registered,
                 ChauffeurAssignedHandler(c, chauffeurs, flag))
        \/ Route("confirmed", c.registered, BookingConfirmedHandler(c, owner))
        \/ Route("cancelled", c.registered, BookingCancellationHandler(c, owner))
        \/ Route("extended", c.registered, BookingExtensionConfirmedHandler(c))
        \/ Route("reminder", c.registered,
                 BookingReminderHandler(type, c, chauffeurs))

routeMoneyChange ==
    \E owner \in Staff, c \in Customers :
        \/ Route("referral", TRUE, ReferralRewardReleasedHandler)
        \/ \E status \in {"PAID_OUT", "FAILED"} :
              Route("payout", FALSE, PayoutStatusChangedHandler(status, owner))
        \/ \E status \in Refunded \cup {"REFUND_FAILED", "REFUND_REVIEW_REQUIRED"} :
              Route("refund", FALSE,
                    RefundStatusChangedHandler(status, getCustomerDetails(c)))
        \/ \E chauffeur \in Staff :
              Route("review", FALSE, ReviewReceivedHandler(owner, chauffeur))

FlightNotifications ==
    {[type |-> t, forCustomer |-> t \in {"FLIGHT_CANCELLED", "FLIGHT_REINSTATED",
                                        "FLIGHT_DIVERTED"}] :
       t \in FlightTypes \ {"FLIGHT_ASSIGNMENT_SNAPSHOT"}}
    \cup {[type |-> t, forCustomer |-> TRUE] :
            t \in {"FLIGHT_DELAYED", "FLIGHT_DELAY_RECOVERED"}}

(* A webhook carries one status notification or up to three changes, and    *)
(* the conflict notice when a window could not be moved.                    *)
routeFlightChange(withConflict) ==
    \E c \in Customers, owner \in Staff, chauffeurs \in Chauffeurs,
       n \in FlightNotifications :
        Route("flight", c.registered,
              FlightStatusUpdatedHandler(
                 {n} \cup (IF withConflict
                           THEN {[type |-> ConflictType, forCustomer |-> FALSE]}
                           ELSE {}),
                 RBookings, c, owner, chauffeurs))

RNext == routeBookingChange \/ routeMoneyChange \/ routeFlightChange(FALSE)

RSpec == RInit /\ [][RNext]_rvars

-----------------------------------------------------------------------------
(***************************************************************************)
(* Every job a handler builds can be delivered on every channel it names:  *)
(* the processor finds a template for its type, kind and recipient, the    *)
(* contact has the address, the WhatsApp template is configured, and push  *)
(* is only asked for customers.  A job that breaks this is retried until   *)
(* its attempts are used up and reaches nobody.                            *)
(***************************************************************************)
EveryJobDeliverable ==
    \A e \in routed.events : \A j \in e.job : \A ch \in j.channels :
        Deliverable(j, ch)

(***************************************************************************)
(* The events of one change have different dedupe keys: skipDuplicates     *)
(* would silently drop one of two recipients otherwise.                    *)
(***************************************************************************)
KeysSeparateEvents ==
    \A e, f \in routed.events : e.key = f.key => e = f

(***************************************************************************)
(* A registered customer finds every booking change in his inbox, with or  *)
(* without a delivery channel, and a fan-out never addresses a guest's     *)
(* inbox.                                                                  *)
(***************************************************************************)
InboxReflectsChange ==
    routed.change \notin {"none", "payout", "refund", "review", "flight"} =>
        (routed.customer <=> \E e \in routed.events :
             e.inbox /\ \A j \in e.job : j.audience = "CUSTOMER")

(***************************************************************************)
(* What the processor's test says of operational flight updates, for the   *)
(* notice of a schedule conflict too: it is rendered for e-mail.           *)
(***************************************************************************)
ConflictNoticeDeliverable == EveryJobDeliverable

(***************************************************************************)
(* Every change reaches whom it concerns: each of its rows survives        *)
(* skipDuplicates, each job can be delivered on the channels it names, and *)
(* the customer's inbox has the change (the handlers of the notification   *)
(* service, deriveNotificationChannels, buildEmailHtml).                   *)
(***************************************************************************)
NoticesReach == EveryJobDeliverable /\ KeysSeparateEvents /\ InboxReflectsChange

=============================================================================
