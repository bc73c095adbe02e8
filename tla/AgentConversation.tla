-------------------------- MODULE AgentConversation --------------------------
(***************************************************************************)
(* The turns of one WhatsApp conversation: the LangGraph nodes extract,    *)
(* merge and route work out what a message asks for, search and            *)
(* createBooking do it, respond says it, and the session is saved before   *)
(* the reply is enqueued.  Other customers book the same cars and the      *)
(* owner changes the rate meanwhile; a worker that dies has its message    *)
(* run again from the session that was saved.                              *)
(*                                                                         *)
(* A draft has the dates (one value for dates, type and time), the two     *)
(* addresses and the wanted make and model; 0 is a field not given.  An    *)
(* address is a number as typed and that number + 10 once Google has       *)
(* normalised it.  What the language models understand is any of           *)
(* Understood.                                                             *)
(***************************************************************************)
EXTENDS Integers, FiniteSets

CONSTANTS
    Fleet,        \* the cars, numbers from 1
    TripDates,    \* the dates asked for, numbers from 1
    Verdicts,     \* Verdicts[p]: what Google may answer about address p
    PreviewExtra, \* PreviewExtra[d]: what the preview charges beyond the estimate
    LongPatches,  \* the draft patches the extractor may return
    MaxTexts,     \* bound on the customer's messages
    MaxSlips      \* bound on failures, crashes, rivals' bookings and rate changes

ASSUME ConversationConstants ==
    /\ Fleet \subseteq Nat \ {0} /\ TripDates \subseteq Nat \ {0}
    /\ DOMAIN PreviewExtra = TripDates /\ \A d \in TripDates : PreviewExtra[d] \in Nat
    /\ \A p \in DOMAIN Verdicts : p \in 1..9 /\ Verdicts[p] \subseteq {"valid", "invalid", "plain"}
    /\ MaxTexts \in Nat /\ MaxSlips \in Nat

VARIABLES
    chat,     \* the session saved in Redis
    node,     \* the node the running turn is at, "idle" between turns
    turn,     \* the graph's state of the running turn
    texts,    \* messages received: the last one's id, and its idempotency key
    made,     \* bookings: their idempotency key and what was requested
    quoted,   \* prices of cars told to the customer
    linked,   \* keys of the bookings whose payment link was sent
    taken,    \* <<car, date>> others have booked
    rateNow,
    slips,    \* disturbances that may still happen
    slipped,  \* history: messages whose turn a failure interrupted
    unsaid    \* history: messages whose turn was saved and whose reply was lost

cvars == <<chat, node, turn, texts, made, quoted, linked, taken, rateNow, slips, slipped, unsaid>>

DraftFields == {"dates", "pickup", "dropoff", "wants"}
AddressFields   == {"pickup", "dropoff"}
NoPatch     == [f \in {} |-> 0]

(* A patch gives some fields, perhaps as empty strings.                    *)
ASSUME PatchesAssumption ==
    \A p \in LongPatches :
        /\ DOMAIN p \subseteq DraftFields /\ \A f \in DOMAIN p : p[f] \in Nat
        /\ "dates" \in DOMAIN p => p["dates"] \in {0} \cup TripDates
        /\ \A a \in AddressFields \cap DOMAIN p : p[a] \in {0} \cup DOMAIN Verdicts
NoOption    == [car |-> 0, price |-> 0, dates |-> 0, pickup |-> 0]
NoDraft     == [f \in DraftFields |-> 0]

(* createDefaultLocationValidationState; createInitialState *)
Unchecked  == [a \in AddressFields |-> "unvalidated"]
createInitialState ==
    [draft |-> NoDraft, checked |-> Unchecked, stage |-> "greeting", available |-> {},
     shown |-> {}, selected |-> NoOption, alternatives |-> FALSE, booking |-> 0]

TalkStages == {"greeting", "collecting", "presenting_options", "confirming", "awaiting_payment", "cancelled"}

(* An extraction: intent, patch, the option hinted at, whether other cars  *)
(* are asked for, and whether its confidence reaches the threshold.        *)
Extraction(intent, patch, hint, others, sure) ==
    [intent |-> intent, patch |-> patch, hint |-> hint, others |-> others, sure |-> sure]
Plain(intent) == Extraction(intent, NoPatch, 0, FALSE, TRUE)
Understood ==
    {Plain(i) : i \in {"greeting", "reset", "confirm", "reject", "cancel", "unknown"}}
        \cup {Extraction("reject", NoPatch, 0, TRUE, TRUE)}
        \cup {Extraction("select_option", NoPatch, c, FALSE, TRUE) : c \in Fleet}
        \cup {Extraction("update_info", p, 0, FALSE, TRUE) : p \in LongPatches}
        \cup {Extraction("new_booking", p, 0, FALSE, TRUE) : p \in LongPatches \cup {NoPatch}}

(* A message is a button (a car's number or a name) with its title, or a text. *)
Messages ==
    {[button |-> c, text |-> "other"] : c \in Fleet}
        \cup {[button |-> -1, text |-> "yes"], [button |-> -2, text |-> "no"],
              [button |-> -3, text |-> "no"], [button |-> -4, text |-> "other"],
              [button |-> -5, text |-> "other"]}
        \cup {[button |-> 0, text |-> t] : t \in {"yes", "no", "cancel", "agent", "same", "other"}}

(* The turn: the session it works on, the message, what was extracted, and *)
(* error, link and the outbox items a node has already written.            *)
TurnOn(s, m) ==
    [s |-> s, said |-> m, heard |-> Plain("unknown"), error |-> FALSE, link |-> 0,
     written |-> FALSE, price |-> 0]
NoTurn == TurnOn(createInitialState, [button |-> 0, text |-> "other"])

(* LangGraphStateService.loadState and mergeWithExisting *)
mergeWithExisting(m) == TurnOn(chat, m)

-----------------------------------------------------------------------------
(* The control phrases: each kind of text stands for the phrases of one kind. *)
isLikelyAffirmativeControl(text) == text = "yes"
isLikelyNegativeControl(text) == text \in {"no", "cancel"}
isBareCancelControl(text) == text = "cancel"
isAgentRequestControl(text) == text = "agent"

(* LangGraphExtractorService.extract *)

BUTTON_RESULT_MAP(b) ==
    CASE b = -1 -> Plain("confirm")
      [] b = -2 -> Plain("reject")
      [] b = -3 -> Extraction("reject", NoPatch, 0, TRUE, TRUE)
      [] b = -4 -> Plain("cancel")
      [] b = -5 -> Plain("request_agent")
      [] OTHER  -> Plain("unknown")

(* A car's button only counts while the car is among the options shown. *)
handleInteractiveReply(b, shown) ==
    IF \E o \in shown : o.car = b
    THEN Extraction("select_option", [f \in {"wants"} |-> b], b, FALSE, TRUE)
    ELSE BUTTON_RESULT_MAP(b)

getDeterministicTextResult(text, stage) ==
    IF isAgentRequestControl(text) THEN {Plain("request_agent")}
    ELSE IF isBareCancelControl(text)
    THEN {Extraction("cancel", NoPatch, 0, FALSE, stage # "confirming")}
    ELSE IF stage = "confirming" /\ isLikelyAffirmativeControl(text) THEN {Plain("confirm")}
    ELSE IF stage = "confirming" /\ isLikelyNegativeControl(text) THEN {Plain("reject")}
    ELSE {}

extract(w) ==
    IF w.said.button # 0
    THEN {handleInteractiveReply(w.said.button, w.s.shown)}
    ELSE LET fixed == getDeterministicTextResult(w.said.text, w.s.stage)
         IN  IF fixed # {} THEN fixed ELSE Understood

(* ExtractNode.run when the model fails: the session starts over. *)
extractFailed(w) ==
    [w EXCEPT !.s = [createInitialState EXCEPT !.booking = w.s.booking], !.error = TRUE]

-----------------------------------------------------------------------------
(* MergeNode.run *)

shouldApplyDraftPatch(intent) ==
    intent \in {"provide_info", "update_info", "select_option", "new_booking"}

hasSameLocationInstruction(text) == text = "same"

applyDerivedDraftFields(draft, text) ==
    IF draft["dropoff"] = 0 /\ draft["pickup"] # 0 /\ hasSameLocationInstruction(text)
    THEN [draft EXCEPT !["dropoff"] = draft["pickup"]]
    ELSE draft

hasDraftChanged(old, new) == \E f \in {"dates", "pickup"} : old[f] # new[f]

nextLocationValidationOnDraftMerge(checked, old, new) ==
    [a \in AddressFields |-> IF old[a] # new[a] THEN "unvalidated" ELSE checked[a]]

(* mergePreferencesWithHint: the note "show_alternatives" stays. *)
mergePreferencesWithHint(s, x) == s.alternatives \/ x.others

mergeNode(w, x) ==
    LET s     == w.s
        given == [f \in DraftFields |->
                    IF shouldApplyDraftPatch(x.intent) /\ f \in DOMAIN x.patch
                    THEN x.patch[f] ELSE s.draft[f]]
        new   == applyDerivedDraftFields(given, w.said.text)
        moved == hasDraftChanged(s.draft, new)
    IN  [w EXCEPT !.heard = x,
                  !.s = [s EXCEPT !.draft = new,
                                  !.checked = nextLocationValidationOnDraftMerge(s.checked, s.draft, new),
                                  !.available = IF moved THEN {} ELSE s.available,
                                  !.shown = IF moved THEN {} ELSE s.shown,
                                  !.alternatives = mergePreferencesWithHint(s, x)]]

-----------------------------------------------------------------------------
(* RouteNode.run and its policy: the next node and the session *)

getMissingRequiredFields(draft) == {f \in {"dates", "pickup", "dropoff"} : draft[f] = 0}

To(next, s) == [next |-> next, s |-> s]

shouldClarifyCancelIntent(w) ==
    /\ w.s.stage = "confirming" /\ w.s.selected # NoOption
    /\ w.heard.intent = "cancel" /\ ~w.heard.sure
    /\ isBareCancelControl(w.said.text)

ClearOptions(s) == [s EXCEPT !.available = {}, !.shown = {}, !.selected = NoOption]

buildResetDecision(s) ==
    To("respond", [ClearOptions(s) EXCEPT !.stage = "greeting", !.draft = NoDraft, !.alternatives = FALSE])

buildNewBookingDecision(s, patch) ==
    To("respond", [ClearOptions(s) EXCEPT !.stage = "collecting",
                     !.draft = [f \in DraftFields |-> IF f \in DOMAIN patch THEN patch[f] ELSE 0]])

buildGreetingDecision(s) ==
    IF s.stage \in {"cancelled", "awaiting_payment"}
    THEN buildResetDecision(s)
    ELSE To("respond", [s EXCEPT !.stage = "greeting"])

(* resolveSelection looks the hint up among the available options. *)
resolveSelection(hint, options) == {o \in options : o.car = hint}

buildSelectionDecision(s, hint) ==
    {To("respond", [s EXCEPT !.stage = "confirming", !.selected = o]) :
        o \in resolveSelection(hint, s.available)}

buildRejectDecision(s, others) ==
    IF others /\ getMissingRequiredFields(s.draft) = {}
    THEN To("search", [ClearOptions(s) EXCEPT !.stage = "searching"])
    ELSE To("respond", [ClearOptions(s) EXCEPT !.stage = "collecting"])

(* The set is empty where the code's decision is null. *)
resolveIntentDecision(w) ==
    LET s == w.s
        x == w.heard
    IN  CASE x.intent = "request_agent" -> {To("handoff", s)}
          [] x.intent = "cancel" ->
                {To("respond", [s EXCEPT !.stage = IF shouldClarifyCancelIntent(w)
                                                   THEN "confirming" ELSE "cancelled"])}
          [] x.intent = "reset" -> {buildResetDecision(s)}
          [] x.intent = "new_booking" -> {buildNewBookingDecision(s, x.patch)}
          [] x.intent = "greeting" -> {buildGreetingDecision(s)}
          [] x.intent = "select_option" -> buildSelectionDecision(s, x.hint)
          [] x.intent = "confirm" -> IF s.selected # NoOption THEN {To("create_booking", s)} ELSE {}
          [] x.intent = "reject" -> {buildRejectDecision(s, x.others)}
          [] OTHER -> {}

getDeterministicStageGuard(w) ==
    IF w.s.stage # "confirming" \/ w.s.selected = NoOption THEN {}
    ELSE CASE isLikelyAffirmativeControl(w.said.text) -> {To("create_booking", w.s)}
           [] isLikelyNegativeControl(w.said.text) ->
                {To("respond", [w.s EXCEPT !.stage = "collecting", !.selected = NoOption, !.available = {}])}
           [] OTHER -> {}

resolveFallbackDecision(s) ==
    IF getMissingRequiredFields(s.draft) # {} THEN To("respond", [s EXCEPT !.stage = "collecting"])
    ELSE IF s.available = {} THEN To("search", [s EXCEPT !.stage = "searching"])
    ELSE To("respond", [s EXCEPT !.stage = "presenting_options"])

resolveRouteDecision(w) ==
    LET first == resolveIntentDecision(w)
        guard == getDeterministicStageGuard(w)
    IN  CHOOSE d \in (IF first # {} THEN first
                      ELSE IF guard # {} THEN guard ELSE {resolveFallbackDecision(w.s)}) : TRUE

(* The early check of a pickup address looks at the draft before the decision. *)
earlyPickupValidation(w, d) ==
    /\ w.heard.intent \notin {"new_booking", "reset", "greeting", "cancel", "request_agent"}
    /\ d.next = "respond" /\ d.s.stage = "collecting"
    /\ w.s.draft["pickup"] # 0 /\ w.s.checked["pickup"] = "unvalidated"

routeNode(w) ==
    IF w.error THEN To("respond", [w.s EXCEPT !.stage = "greeting"])
    ELSE LET d == resolveRouteDecision(w)
         IN  IF earlyPickupValidation(w, d) THEN [d EXCEPT !.next = "search"] ELSE d

-----------------------------------------------------------------------------
(* LangGraphGraphService: a message starts a turn, and the nodes that do   *)
(* not await anything but a model run as one step.                         *)

World == <<made, quoted, linked, taken, rateNow, unsaid>>

Slip == slips > 0 /\ slips' = slips - 1

(* What interrupts a turn that has made its booking keeps the link back. *)
LinkAtRisk == IF \E b \in made : b.text = texts THEN slipped \cup {texts} ELSE slipped

receive(m) ==
    /\ node = "idle" /\ texts < MaxTexts
    /\ texts' = texts + 1
    /\ turn' = mergeWithExisting(m)
    /\ node' = "extract"
    /\ UNCHANGED <<chat, slips, slipped>> /\ UNCHANGED World

Understand(w) ==
    LET d == routeNode(w)
    IN  node' = d.next /\ turn' = [w EXCEPT !.s = d.s]

extractNode ==
    /\ node = "extract"
    /\ \E x \in extract(turn) : Understand(mergeNode(turn, x))
    /\ UNCHANGED <<chat, texts, slips, slipped>> /\ UNCHANGED World

extractNodeFailed ==
    /\ node = "extract" /\ turn.said.button = 0
    /\ getDeterministicTextResult(turn.said.text, turn.s.stage) = {}
    /\ Slip
    /\ Understand(mergeNode(extractFailed(turn), Plain("unknown")))
    /\ UNCHANGED <<chat, texts, slipped>> /\ UNCHANGED World

-----------------------------------------------------------------------------
(* SearchNode.run *)

Raw(p) == IF p > 10 THEN p - 10 ELSE p

(* validateAndNormalizePickupLocation and -DropoffLocation: how an address *)
(* that still has to be checked turns out, for one answer v of Google.     *)
normalized(p, v) == IF v = "valid" THEN Raw(p) + 10 ELSE p

status(v) == IF v = "plain" THEN "unvalidated" ELSE v

shouldValidateLocationField(s, a) == s.draft[a] # 0 /\ s.checked[a] = "unvalidated"

validateAndNormalizePickupLocation(s) ==
    IF ~shouldValidateLocationField(s, "pickup") THEN {s}
    ELSE {LET p    == normalized(s.draft["pickup"], v)
              same == s.draft["dropoff"] = s.draft["pickup"] /\ v = "valid"
          IN  [s EXCEPT !.draft["pickup"] = p, !.draft["dropoff"] = IF same THEN p ELSE @,
                        !.checked["pickup"] = status(v),
                        !.checked["dropoff"] = IF same THEN "valid" ELSE @] :
            v \in Verdicts[Raw(s.draft["pickup"])]}

validateAndNormalizeDropoffLocation(s) ==
    LET pickup == s.draft["pickup"]
        drop   == s.draft["dropoff"]
        like   == s.checked["pickup"]
    IN  IF pickup = 0 \/ drop = 0 THEN {s}
        ELSE IF pickup = drop /\ like \in {"valid", "invalid"}
        THEN {[s EXCEPT !.checked["dropoff"] = like]}
        ELSE IF ~shouldValidateLocationField(s, "dropoff") THEN {s}
        ELSE {[s EXCEPT !.draft["dropoff"] = normalized(drop, v), !.checked["dropoff"] = status(v)] :
                v \in Verdicts[Raw(drop)]}

validateAndNormalizeLocations(s) ==
    UNION {validateAndNormalizeDropoffLocation(t) : t \in validateAndNormalizePickupLocation(s)}

(* An address found invalid just now: the node writes the reply itself. *)
newlyInvalid(s, t) ==
    \/ s.checked["pickup"] # "invalid" /\ t.checked["pickup"] = "invalid"
    \/ /\ shouldValidateLocationField(s, "dropoff") /\ t.checked["dropoff"] = "invalid"
       /\ t.draft["pickup"] = t.draft["dropoff"] => t.checked["pickup"] = "unvalidated"

buildInvalidLocationResult(w, t) == [w EXCEPT !.s = [t EXCEPT !.stage = "collecting"], !.written = TRUE]

shouldBlockSearchForInvalidLocation(t) ==
    \E a \in AddressFields : t.draft[a] # 0 /\ t.checked[a] = "invalid"

FreeCars(d) == {c \in Fleet : <<c, d>> \notin taken /\ ~\E b \in made : b.car = c /\ b.dates = d}

(* searchVehiclesFromExtracted: exact matches, or else the others. *)
Option(c, draft) == [car |-> c, price |-> rateNow, dates |-> draft["dates"], pickup |-> draft["pickup"]]
exactMatches(draft, excluded) ==
    {Option(c, draft) : c \in {c \in FreeCars(draft["dates"]) \ excluded : draft["wants"] \in {0, c}}}
searchVehiclesFromExtracted(draft, excluded) ==
    LET exact == exactMatches(draft, excluded)
    IN  IF exact # {} THEN exact
        ELSE {Option(c, draft) : c \in FreeCars(draft["dates"]) \ excluded}

shouldSuppressAlternatives(t) ==
    exactMatches(t.draft, {}) = {} /\ t.draft["wants"] # 0 /\ ~t.alternatives

Collecting(t) == [t EXCEPT !.stage = "collecting", !.available = {}, !.shown = {}]

searchNode ==
    /\ node = "search" /\ node' = "respond"
    /\ \E t \in validateAndNormalizeLocations(turn.s) :
         turn' = IF newlyInvalid(turn.s, t)
                 THEN buildInvalidLocationResult(turn, t)
                 ELSE IF \/ shouldBlockSearchForInvalidLocation(t)
                         \/ getMissingRequiredFields(t.draft) # {}
                         \/ shouldSuppressAlternatives(t)
                 THEN [turn EXCEPT !.s = Collecting(t)]
                 ELSE LET found == searchVehiclesFromExtracted(t.draft, {})
                      IN  [turn EXCEPT !.s = [t EXCEPT !.available = found, !.shown = found,
                                                !.stage = IF found = {} THEN "collecting"
                                                          ELSE "presenting_options"]]
    /\ UNCHANGED <<chat, texts, slips, slipped>> /\ UNCHANGED World

searchNodeFailed ==
    /\ node = "search" /\ Slip
    /\ node' = "respond"
    /\ turn' = [turn EXCEPT !.s = Collecting(@), !.error = TRUE]
    /\ UNCHANGED <<chat, texts, slipped>> /\ UNCHANGED World

-----------------------------------------------------------------------------
(* CreateBookingNode.run *)

Preview(dates) == rateNow + PreviewExtra[dates]

Respond(w) == node' = "respond" /\ turn' = w

validateDraftBeforeBookingCreation(draft) == draft["dates"] # 0

neverDiffers(price, option) == FALSE
priceDiffers(price, option) == price # option.price

createBookingNode ==
    /\ node = "create_booking"
    /\ LET s == turn.s
       IN  IF ~validateDraftBeforeBookingCreation(s.draft)
           THEN Respond([turn EXCEPT !.s.stage = "collecting", !.error = TRUE])
           ELSE LET price == Preview(s.draft["dates"])
                IN  IF priceDiffers(price, s.selected)
                    THEN Respond([turn EXCEPT !.s.stage = "confirming", !.s.selected.price = price])
                    ELSE node' = "create" /\ turn' = [turn EXCEPT !.price = price]
    /\ UNCHANGED <<chat, texts, slips, slipped>> /\ UNCHANGED World

createBookingNodeFailed ==
    /\ node \in {"create_booking", "create"} /\ Slip
    /\ Respond([turn EXCEPT !.s.stage = "confirming", !.error = TRUE])
    /\ slipped' = LinkAtRisk
    /\ UNCHANGED <<chat, texts>> /\ UNCHANGED World

(* fetchFreshOptionsForDraft, which gives no options when it fails *)
fetchFreshOptionsForDraft(draft, car) == searchVehiclesFromExtracted(draft, {car})

unavailable(s, fresh) ==
    [s EXCEPT !.selected = NoOption, !.available = fresh, !.shown = fresh,
              !.stage = IF fresh = {} THEN "collecting" ELSE "presenting_options"]

idempotencyKey == texts

buildBookingInputFromDraft(s, price) ==
    [key |-> idempotencyKey, car |-> s.selected.car, dates |-> s.draft["dates"],
     pickup |-> s.draft["pickup"], dropoff |-> s.draft["dropoff"], price |-> price, text |-> texts]

mapIdempotencyError(w) == [w EXCEPT !.s.stage = "confirming"]

bookingCreated(w, key) == [w EXCEPT !.s.stage = "awaiting_payment", !.s.booking = key, !.link = key]

(* BookingCreationService.createBooking, as Checkout models it: a key that *)
(* is known answers with its booking, if the request is the same.          *)
requestBooking ==
    /\ node = "create"
    /\ LET s       == turn.s
           request == buildBookingInputFromDraft(s, turn.price)
           known   == {b \in made : b.key = request.key}
           free    == request.car \in FreeCars(request.dates)
       IN  \/ known = {request} /\ Respond(bookingCreated(turn, request.key)) /\ UNCHANGED made
           \/ /\ known # {} /\ known # {request}
              /\ Respond(mapIdempotencyError(turn)) /\ UNCHANGED made
           \/ /\ known = {} /\ ~free
              /\ Respond([turn EXCEPT !.s = unavailable(s, fetchFreshOptionsForDraft(s.draft, request.car))])
              /\ UNCHANGED made
           \/ /\ known = {} /\ free /\ turn.price # Preview(request.dates)
              /\ Respond([turn EXCEPT !.s.stage = "confirming", !.error = TRUE]) /\ UNCHANGED made
           \/ /\ known = {} /\ free /\ turn.price = Preview(request.dates)
              /\ made' = made \cup {request} /\ Respond(bookingCreated(turn, request.key))
    /\ UNCHANGED <<chat, texts, slips, slipped, quoted, linked, taken, rateNow, unsaid>>

fetchFreshOptionsFailed ==
    /\ node = "create" /\ Slip
    /\ ~\E b \in made : b.key = idempotencyKey
    /\ turn.s.selected.car \notin FreeCars(turn.s.draft["dates"])
    /\ Respond([turn EXCEPT !.s = unavailable(turn.s, {})])
    /\ UNCHANGED <<chat, texts, slipped>> /\ UNCHANGED World

-----------------------------------------------------------------------------
(* HandoffNode.run, RespondNode.run, saveState and the reply *)

handoffNode ==
    /\ node = "handoff"
    /\ Respond([turn EXCEPT !.s.stage = "cancelled", !.written = TRUE])
    /\ UNCHANGED <<chat, texts, slips, slipped>> /\ UNCHANGED World

Quote(o) == [car |-> o.car, price |-> o.price]

(* getDeterministicResponse: the cards of the options, or the summary of   *)
(* the selected car; an error or a question about cancelling comes first.  *)
buildVehicleCards(s) == IF s.stage = "presenting_options" THEN {Quote(o) : o \in s.available} ELSE {}

buildConfirmingResponse(w) ==
    IF \/ w.s.stage # "confirming" \/ w.s.selected = NoOption
       \/ shouldClarifyCancelIntent(w) \/ w.error
    THEN {} ELSE {Quote(w.s.selected)}

generateResponse(w) ==
    IF w.written THEN {} ELSE buildVehicleCards(w.s) \cup buildConfirmingResponse(w)

buildOutboxItems(w) == IF w.s.stage = "awaiting_payment" /\ w.link # 0 THEN {w.link} ELSE {}

saveState ==
    /\ node = "respond" /\ node' = "reply"
    /\ chat' = turn.s
    /\ UNCHANGED <<turn, texts, slips, slipped>> /\ UNCHANGED World

(* The three attempts fail: the turn is answered with an error. *)
saveStateFailed ==
    /\ node = "respond" /\ Slip
    /\ node' = "idle" /\ turn' = NoTurn
    /\ slipped' = slipped \cup {texts}
    /\ UNCHANGED <<chat, texts>> /\ UNCHANGED World

sendReply ==
    /\ node = "reply"
    /\ quoted' = quoted \cup generateResponse(turn)
    /\ linked' = linked \cup buildOutboxItems(turn)
    /\ node' = "idle" /\ turn' = NoTurn
    /\ UNCHANGED <<chat, texts, made, taken, rateNow, slips, slipped, unsaid>>

(* The worker dies and the job runs again.  After the save the message     *)
(* meets the session it has itself changed; a text that is left to the     *)
(* model may be understood otherwise.                                      *)
agentDies ==
    /\ node # "idle" /\ Slip
    /\ node' = "extract" /\ turn' = mergeWithExisting(turn.said)
    /\ slipped' = IF node = "reply" \/ turn.said.button = 0 THEN slipped \cup {texts} ELSE slipped
    /\ unsaid' = IF node = "reply" THEN unsaid \cup {texts} ELSE unsaid
    /\ UNCHANGED <<chat, texts, made, quoted, linked, taken, rateNow>>

(* Others act just before the node that would notice: availability and the *)
(* rate are read nowhere else.                                             *)
rivalBooks ==
    /\ node \in {"search", "create"} /\ Slip
    /\ \E d \in TripDates : \E c \in FreeCars(d) : taken' = taken \cup {<<c, d>>}
    /\ UNCHANGED <<chat, node, turn, texts, made, quoted, linked, rateNow, slipped, unsaid>>

rateChanges ==
    /\ node \in {"search", "create_booking", "create"} /\ Slip
    /\ rateNow' = rateNow + 1
    /\ slipped' = LinkAtRisk
    /\ UNCHANGED <<chat, node, turn, texts, made, quoted, linked, taken, unsaid>>

-----------------------------------------------------------------------------
CInitWith(s, n, k) ==
    /\ chat = s /\ node = "idle" /\ turn = NoTurn /\ texts = n
    /\ made = {} /\ quoted = {Quote(o) : o \in s.available} /\ linked = {} /\ taken = {}
    /\ rateNow = 1 /\ slips = k /\ slipped = {} /\ unsaid = {}

CInit == CInitWith(createInitialState, 0, MaxSlips)

CNext ==
    \/ \E m \in Messages : receive(m)
    \/ extractNode \/ extractNodeFailed \/ searchNode \/ searchNodeFailed
    \/ createBookingNode \/ createBookingNodeFailed \/ requestBooking \/ fetchFreshOptionsFailed
    \/ handoffNode \/ saveState \/ saveStateFailed \/ sendReply
    \/ agentDies \/ rivalBooks \/ rateChanges

CSpec == CInit /\ [][CNext]_cvars

-----------------------------------------------------------------------------
(* Type correctness of the session, and every stage it can be saved in is  *)
(* backed by what the stage talks about: confirming by a selected option,  *)
(* presenting_options by options, awaiting_payment by a booking.           *)
StageBacked ==
    /\ chat.stage \in TalkStages /\ DOMAIN chat.draft = DraftFields
    /\ node \in {"idle", "extract", "search", "create_booking", "create", "handoff", "respond", "reply"}
    /\ chat.stage = "confirming" => chat.selected # NoOption
    /\ chat.stage = "presenting_options" => chat.available # {}
    /\ chat.stage = "awaiting_payment" => \E b \in made : b.key = chat.booking

(* The options a saved session offers, and those whose buttons it accepts, *)
(* were searched for the dates and the pickup address of its draft         *)
(* (hasDraftChanged clears them).                                          *)
OptionsAreForDraft ==
    \A o \in chat.available \cup chat.shown :
        o.dates = chat.draft["dates"] /\ o.pickup = chat.draft["pickup"]

(* A booking is made at a price the customer was told for that car, unless *)
(* a crash kept back the reply of a turn already saved: the preview is     *)
(* compared with the option before the booking is created, and a new price *)
(* has to be confirmed.                                                    *)
BookedAtToldPrice ==
    \A b \in made : \/ [car |-> b.car, price |-> b.price] \in quoted
                    \/ \E m \in unsaid : m <= b.text

(* A message creates at most one booking, however often its job runs: the  *)
(* idempotency key is the message's.                                       *)
OneBookingPerMessage == \A a, b \in made : a.text = b.text => a = b

(* Between turns the payment link of every booking has been sent, unless   *)
(* the session could not be saved, the rate changed during the turn or the *)
(* worker died when the model or the saved session could mislead the rerun. *)
LinkReachesCustomer ==
    node = "idle" => \A b \in made : b.key \in linked \/ b.text \in slipped

(***************************************************************************)
(* What the session saves and books is what the customer saw: options for  *)
(* his draft, a price he was told, one booking per message and the link to *)
(* pay it, whatever the model understands and however often a turn is run  *)
(* again (resolveRouteDecision, the nodes of the graph, saveState).        *)
(***************************************************************************)
TalkSound ==
    /\ StageBacked /\ OptionsAreForDraft /\ BookedAtToldPrice
    /\ OneBookingPerMessage /\ LinkReachesCustomer

=============================================================================
