--------------------------- MODULE MessagingProofs ---------------------------
(***************************************************************************)
(* Theorems about the notification outbox and its deliveries, the flight   *)
(* alert, the replies, the conversations and the inbox of the booking      *)
(* agent that hold for any rows, processes, jobs, devices, attempts,       *)
(* delays and messages.                                                    *)
(***************************************************************************)
EXTENDS NotificationOutbox, NotificationDelivery, FlightAlert, AgentOutbox, AgentConversation, AgentInbox,
        FiniteSetTheorems, TLAPS

-----------------------------------------------------------------------------
(* The notification outbox.                                                *)

Passes == [tick: 0..NTicks, processed: 0..Cardinality(NRows),
           due: SUBSET NRows, stale: SUBSET NRows,
           hand: [NRows -> [pc: {"none", "todo", "add", "mark", "fail"}, attempt: Nat]]]

(* A process that has claimed a row and not yet let go of it.               *)
Working == {"add", "mark", "fail"}

(* What a pass c still knows of a row e: the attempt it read is the one    *)
(* the claim makes, as long as nobody rewrote the row, and no later one    *)
(* than the row's after it.                                                *)
HandOk(c, e) ==
    /\ e \in c.due => nrow[e].status # "ABSENT" /\ e \notin c.stale
    /\ c.hand[e].pc = "todo" =>
          /\ e \in c.due /\ nrow[e].status \in NOpen => c.hand[e].attempt = nrow[e].attempts + 1
          /\ e \in c.stale => /\ nrow[e].status = "PROCESSING"
                              /\ c.hand[e].attempt = nrow[e].attempts
    /\ c.hand[e].pc \in Working => c.hand[e].attempt <= nrow[e].attempts
    /\ c.hand[e].pc \in {"add", "mark"} => e \notin Invalid
    /\ c.hand[e].pc = "mark" => accepted[e] = 1

(* Every process knows that much of every row.                              *)
HandsOk == \A p \in NProcesses, e \in NRows : HandOk(cron[p], e)

(* A pass settles a row once.                                              *)
PassesCount ==
    \A p \in NProcesses : cron[p].processed + Cardinality(InHand(p)) <= Cardinality(NRows)

(* The processes whose failure would open a row again.                     *)
LowHands(e) == {p \in NProcesses : /\ cron[p].hand[e].pc \in Working
                                   /\ cron[p].hand[e].attempt < NMaxAttempts}

(* Past its attempts a row is only opened again by processes that are left. *)
Budget ==
    \A e \in NRows : nrow[e].attempts >= NMaxAttempts =>
        nrow[e].attempts + Cardinality(LowHands(e)) + (IF nrow[e].status \in NOpen THEN 1 ELSE 0)
            <= NMaxAttempts + Cardinality(NProcesses) - 1

(* A row that was not written has not been tried.                          *)
UnwrittenUntried == \A e \in NRows : nrow[e].status = "ABSENT" => nrow[e].attempts = 0

(* The inductive invariant of the outbox rows.                              *)
RowsInv ==
    /\ NTypeOK /\ OneJobPerRow /\ RowTellsTheTruth
    /\ HandsOk /\ PassesCount /\ Budget /\ UnwrittenUntried

Hands == [pc: {"none", "todo", "add", "mark", "fail"}, attempt: Nat]

(* The variables that RowsSound speaks about have their types.              *)
LEMMA RowTypes ==
    ASSUME NTypeOK
    PROVE  /\ cron \in [NProcesses -> Passes]
           /\ \A e \in NRows : /\ nrow[e].status \in NStatus /\ nrow[e].attempts \in Nat
                               /\ nrow[e].due \in BOOLEAN /\ nrow[e].stale \in BOOLEAN
           /\ \A p \in NProcesses, e \in NRows :
                 /\ cron[p].hand[e] \in Hands /\ cron[p].hand[e].attempt \in Nat
                 /\ cron[p].hand[e].pc \in {"none", "todo", "add", "mark", "fail"}
           /\ NMaxAttempts \in Nat \ {0} /\ IsFiniteSet(NRows) /\ IsFiniteSet(NProcesses)
           /\ Cardinality(NRows) \in Nat /\ Cardinality(NProcesses) \in Nat
  <1>1. cron \in [NProcesses -> Passes]
    BY DEF NTypeOK, Passes
  <1>2. \A e \in NRows : /\ nrow[e].status \in NStatus /\ nrow[e].attempts \in Nat
                         /\ nrow[e].due \in BOOLEAN /\ nrow[e].stale \in BOOLEAN
    BY DEF NTypeOK
  <1>3. \A p \in NProcesses, e \in NRows :
           /\ cron[p].hand[e] \in Hands /\ cron[p].hand[e].attempt \in Nat
           /\ cron[p].hand[e].pc \in {"none", "todo", "add", "mark", "fail"}
    BY DEF NTypeOK, Hands
  <1>4. /\ NMaxAttempts \in Nat \ {0} /\ IsFiniteSet(NRows) /\ IsFiniteSet(NProcesses)
        /\ Cardinality(NRows) \in Nat /\ Cardinality(NProcesses) \in Nat
    BY NAssumption, FS_CardinalityType DEF NAssumption
  <1> QED BY <1>1, <1>2, <1>3, <1>4

(* What Forget and Hand do to the passes.                                  *)
Forgetting(c, e, g) ==
    /\ g \in [NProcesses -> Passes]
    /\ \A q \in NProcesses : /\ g[q].hand = c[q].hand /\ g[q].tick = c[q].tick
                             /\ g[q].processed = c[q].processed
                             /\ g[q].stale = c[q].stale \ {e}

(* Forgetting a row changes what a process holds of that row only.          *)
LEMMA ForgetDoes ==
    ASSUME NEW c \in [NProcesses -> Passes], NEW e \in NRows
    PROVE  /\ Forgetting(c, e, Forget(c, e, FALSE))
           /\ \A q \in NProcesses : Forget(c, e, FALSE)[q].due = c[q].due
           /\ Forgetting(c, e, Forget(c, e, TRUE))
           /\ \A q \in NProcesses : Forget(c, e, TRUE)[q].due = c[q].due \ {e}
  BY DEF Forget, Forgetting, Passes

(* Rewriting what one process holds of one row changes nothing else.        *)
LEMMA HandDoes ==
    ASSUME NEW c \in [NProcesses -> Passes], NEW p \in NProcesses, NEW e \in NRows, NEW h \in Hands
    PROVE  /\ Hand(c, p, e, h) \in [NProcesses -> Passes]
           /\ Hand(c, p, e, h)[p].hand[e] = h
           /\ \A f \in NRows \ {e} : Hand(c, p, e, h)[p].hand[f] = c[p].hand[f]
           /\ \A q \in NProcesses \ {p} : Hand(c, p, e, h)[q] = c[q]
           /\ Hand(c, p, e, h)[p].due = c[p].due /\ Hand(c, p, e, h)[p].stale = c[p].stale
           /\ Hand(c, p, e, h)[p].tick = c[p].tick
           /\ Hand(c, p, e, h)[p].processed = c[p].processed
  BY DEF Hand, Passes, Hands

(* The rows in hand and the low hands are finite sets.                     *)
LEMMA HandSets ==
    ASSUME NTypeOK
    PROVE  /\ \A p : /\ InHand(p) \subseteq NRows /\ IsFiniteSet(InHand(p))
                     /\ Cardinality(InHand(p)) \in Nat
           /\ \A e : /\ LowHands(e) \subseteq NProcesses /\ IsFiniteSet(LowHands(e))
                     /\ Cardinality(LowHands(e)) \in Nat
  <1>1. \A p : InHand(p) \subseteq NRows
    BY DEF InHand
  <1>2. \A e : LowHands(e) \subseteq NProcesses
    BY DEF LowHands
  <1>3. ASSUME NEW S, S \subseteq NRows \/ S \subseteq NProcesses
        PROVE  IsFiniteSet(S) /\ Cardinality(S) \in Nat
    BY <1>3, RowTypes, FS_Subset, FS_CardinalityType
  <1> QED BY <1>1, <1>2, <1>3

(* A pass counts a row it settles when it lets go of it, and starts again  *)
(* from none.                                                              *)
LEMMA CountStays ==
    ASSUME NTypeOK, PassesCount, NTypeOK',
           \A p \in NProcesses :
              \/ cron'[p].processed = 0
              \/ cron'[p].processed = cron[p].processed /\ InHand(p)' \subseteq InHand(p)
              \/ /\ cron'[p].processed = cron[p].processed + 1
                 /\ \E e \in InHand(p) : InHand(p)' \subseteq InHand(p) \ {e}
    PROVE  PassesCount'
  <1> SUFFICES ASSUME NEW p \in NProcesses
               PROVE  cron'[p].processed + Cardinality(InHand(p)') <= Cardinality(NRows)
    BY DEF PassesCount
  <1> DEFINE S == InHand(p)
             T == InHand(p)'
  <1>1. S \subseteq NRows /\ T \subseteq NRows /\ IsFiniteSet(S) /\ Cardinality(S) \in Nat
    BY HandSets DEF InHand
  <1>2. IsFiniteSet(NRows) /\ Cardinality(NRows) \in Nat /\ cron[p].processed \in Nat
    BY RowTypes DEF NTypeOK
  <1>3. Cardinality(T) \in Nat /\ Cardinality(T) <= Cardinality(NRows)
    BY <1>1, <1>2, FS_Subset, FS_CardinalityType
  <1>4. cron[p].processed + Cardinality(S) <= Cardinality(NRows)
    BY DEF PassesCount
  <1>5. CASE cron'[p].processed = 0
    BY <1>3, <1>5, <1>2
  <1>6. CASE cron'[p].processed = cron[p].processed /\ T \subseteq S
    <2>1. Cardinality(T) <= Cardinality(S)
      BY <1>1, <1>6, FS_Subset
    <2> QED BY <2>1, <1>6, <1>1, <1>2, <1>3, <1>4
  <1>7. ASSUME NEW e \in S, cron'[p].processed = cron[p].processed + 1, T \subseteq S \ {e}
        PROVE  cron'[p].processed + Cardinality(T) <= Cardinality(NRows)
    <2>1. IsFiniteSet(S \ {e}) /\ Cardinality(S \ {e}) = Cardinality(S) - 1
      BY <1>1, FS_RemoveElement
    <2>2. Cardinality(T) <= Cardinality(S) - 1
      BY <2>1, <1>7, FS_Subset
    <2> HIDE DEF S, T
    <2> QED BY <2>2, <1>7, <1>1, <1>2, <1>3, <1>4
  <1> QED BY <1>5, <1>6, <1>7

(* The budget of a row: the attempts it has made, the failures that would  *)
(* open it again, and whether it is open.                                  *)
LEMMA BudgetStays ==
    ASSUME NTypeOK, Budget, NTypeOK',
           \A e \in NRows :
              /\ nrow'[e].attempts = nrow[e].attempts
              /\ LowHands(e)' \subseteq LowHands(e)
              /\ nrow'[e].status \in NOpen /\ nrow[e].status \notin NOpen =>
                    LowHands(e)' # LowHands(e) \/ nrow[e].attempts < NMaxAttempts
    PROVE  Budget'
  <1> SUFFICES ASSUME NEW e \in NRows, nrow[e].attempts >= NMaxAttempts
               PROVE  nrow[e].attempts + Cardinality(LowHands(e)')
                        + (IF nrow'[e].status \in NOpen THEN 1 ELSE 0)
                          <= NMaxAttempts + Cardinality(NProcesses) - 1
    BY DEF Budget
  <1> DEFINE L == LowHands(e)
             M == LowHands(e)'
             l == Cardinality(L)
             m == Cardinality(M)
  <1>1. M \subseteq L /\ IsFiniteSet(L) /\ l \in Nat
    BY HandSets
  <1>2. m \in Nat /\ m <= l /\ (M # L => m < l)
    <2>1. m \in Nat /\ m <= l
      BY <1>1, FS_Subset, FS_CardinalityType
    <2>2. m = l => M = L
      BY <1>1, FS_Subset
    <2> QED BY <1>1, <2>1, <2>2
  <1>3. nrow[e].attempts + l + (IF nrow[e].status \in NOpen THEN 1 ELSE 0)
           <= NMaxAttempts + Cardinality(NProcesses) - 1
    BY DEF Budget
  <1>4. /\ nrow[e].attempts \in Nat /\ NMaxAttempts \in Nat /\ Cardinality(NProcesses) \in Nat
    BY RowTypes
  <1>5. nrow'[e].status \in NOpen /\ nrow[e].status \notin NOpen => M # L
    BY <1>4
  <1> HIDE DEF L, M, l, m
  <1>6. nrow[e].attempts + m + (IF nrow'[e].status \in NOpen THEN 1 ELSE 0)
           <= NMaxAttempts + Cardinality(NProcesses) - 1
    BY <1>1, <1>2, <1>3, <1>4, <1>5
  <1> QED BY <1>6 DEF m, M

(* A step that leaves the passes and only writes rows or ages them.        *)
LEMMA RowsWritten ==
    ASSUME RowsInv, NTypeOK', cron' = cron, accepted' = accepted,
           \A e \in NRows : /\ nrow'[e].attempts = nrow[e].attempts
                            /\ \/ nrow'[e].status = nrow[e].status
                               \/ nrow[e].status = "ABSENT" /\ nrow'[e].status = "PENDING"
    PROVE  RowsInv'
  <1>1. OneJobPerRow' /\ RowTellsTheTruth'
    BY DEF RowsInv, OneJobPerRow, RowTellsTheTruth
  <1>2. HandsOk'
    <2> SUFFICES ASSUME NEW p \in NProcesses, NEW e \in NRows PROVE HandOk(cron[p], e)'
      BY DEF HandsOk
    <2>1. HandOk(cron[p], e)
      BY DEF RowsInv, HandsOk
    <2> QED BY <2>1 DEF HandOk, NOpen
  <1>3. PassesCount'
    BY CountStays DEF RowsInv, InHand
  <1>4. \A e \in NRows : LowHands(e)' = LowHands(e)
    BY DEF LowHands
  <1>5. \A e \in NRows : nrow[e].status = "ABSENT" => nrow[e].attempts < NMaxAttempts
    BY RowTypes DEF RowsInv, UnwrittenUntried
  <1>6. Budget'
    BY <1>4, <1>5, BudgetStays DEF RowsInv
  <1>7. UnwrittenUntried'
    BY DEF RowsInv, UnwrittenUntried
  <1> QED BY <1>1, <1>2, <1>3, <1>6, <1>7 DEF RowsInv

(* A step that leaves every row but e alone.                               *)
Apart(e) ==
    \A f \in NRows \ {e} :
        /\ nrow'[f] = nrow[f] /\ accepted'[f] = accepted[f]
        /\ \A q \in NProcesses : /\ cron'[q].hand[f] = cron[q].hand[f]
                                 /\ f \in cron'[q].due <=> f \in cron[q].due
                                 /\ f \in cron'[q].stale <=> f \in cron[q].stale

(* A step of one event: what it owes for its own row.                      *)
LEMMA RowStep ==
    ASSUME RowsInv, NTypeOK', NEW e \in NRows, Apart(e),
           \A q \in NProcesses : HandOk(cron[q], e)',
           accepted'[e] <= 1,
           nrow'[e].status = "DISPATCHED" => accepted'[e] = 1 /\ e \notin Invalid,
           nrow'[e].status = "DEAD_LETTER" => e \in Invalid \/ nrow'[e].attempts >= NMaxAttempts,
           nrow'[e].status # "ABSENT", PassesCount', Budget'
    PROVE  RowsInv'
  <1>1. HandsOk'
    <2> SUFFICES ASSUME NEW q \in NProcesses, NEW f \in NRows, f # e PROVE HandOk(cron[q], f)'
      BY DEF HandsOk
    <2>1. HandOk(cron[q], f)
      BY DEF RowsInv, HandsOk
    <2>2. /\ nrow'[f] = nrow[f] /\ accepted'[f] = accepted[f]
          /\ cron'[q].hand[f] = cron[q].hand[f]
          /\ f \in cron'[q].due <=> f \in cron[q].due
          /\ f \in cron'[q].stale <=> f \in cron[q].stale
      BY DEF Apart
    <2> QED BY <2>1, <2>2 DEF HandOk
  <1>2. OneJobPerRow' /\ RowTellsTheTruth' /\ UnwrittenUntried'
    BY DEF RowsInv, OneJobPerRow, RowTellsTheTruth, UnwrittenUntried, Apart
  <1> QED BY <1>1, <1>2 DEF RowsInv

(* Apart from row e the hands of the passes are the same hands.            *)
LEMMA ApartHands ==
    ASSUME NEW e \in NRows, Apart(e)
    PROVE  /\ \A f \in NRows \ {e} : LowHands(f)' = LowHands(f)
           /\ \A q \in NProcesses : InHand(q)' \subseteq InHand(q) \cup {e}
  BY DEF Apart, LowHands, InHand

(* A pass that ends, by itself or with its process.                        *)
LEMMA PassEnds ==
    ASSUME RowsInv, NEW p \in NProcesses, cron' = [cron EXCEPT ![p] = IdleCron],
           nrow' = nrow, accepted' = accepted, inbox' = inbox, call' = call, calls' = calls,
           nfaults' \in 0..NMaxFaults
    PROVE  RowsInv'
  <1>1. NTypeOK /\ cron \in [NProcesses -> Passes]
    BY RowTypes DEF RowsInv
  <1>2. IdleCron \in Passes
    BY <1>1, RowTypes, NAssumption DEF IdleCron, Passes, NoHand, NAssumption
  <1>3. cron' \in [NProcesses -> Passes] /\ cron'[p] = IdleCron
        /\ \A q \in NProcesses \ {p} : cron'[q] = cron[q]
    BY <1>1, <1>2
  <1>4. NTypeOK'
    BY <1>1, <1>3 DEF NTypeOK, Passes
  <1>5. \A e \in NRows : IdleCron.hand[e].pc = "none" /\ e \notin IdleCron.due /\ e \notin IdleCron.stale
    BY DEF IdleCron, NoHand
  <1>6. IdleCron.processed = 0
    BY DEF IdleCron
  <1>7. HandsOk'
    <2> SUFFICES ASSUME NEW q \in NProcesses, NEW f \in NRows PROVE HandOk(cron[q], f)'
      BY DEF HandsOk
    <2>1. CASE q = p
      BY <2>1, <1>3, <1>5 DEF HandOk, Working
    <2>2. CASE q # p
      BY <2>2, <1>3 DEF RowsInv, HandsOk, HandOk
    <2> QED BY <2>1, <2>2
  <1>8. PassesCount'
    BY <1>1, <1>3, <1>4, <1>6, CountStays DEF RowsInv, InHand
  <1>9. \A e \in NRows : LowHands(e)' \subseteq LowHands(e)
    BY <1>3, <1>5 DEF LowHands, Working
  <1>10. Budget'
    BY <1>1, <1>4, <1>9, BudgetStays DEF RowsInv
  <1>11. OneJobPerRow' /\ RowTellsTheTruth' /\ UnwrittenUntried'
    BY DEF RowsInv, OneJobPerRow, RowTellsTheTruth, UnwrittenUntried
  <1> QED BY <1>4, <1>7, <1>8, <1>10, <1>11 DEF RowsInv

(* The query of a tick: a pass takes what was due or stale in one instant. *)
LEMMA QueryStep ==
    ASSUME RowsInv, NEW p \in NProcesses, processNotificationOutbox(p)
    PROVE  RowsInv'
  <1>1. NTypeOK /\ cron \in [NProcesses -> Passes]
    BY RowTypes DEF RowsInv
  <1>2. PICK E \in SUBSET {e \in NRows : Candidate(e)} :
         /\ Cardinality(E) <= NLimit
         /\ Cardinality(E) < NLimit => \A e \in NRows : Candidate(e) => e \in E
         /\ cron' = [cron EXCEPT ![p] =
              [tick |-> IF E = {} THEN 0 ELSE cron[p].tick + 1, processed |-> 0,
               due   |-> {e \in E : nrow[e].status \in NOpen},
               stale |-> {e \in E : nrow[e].status = "PROCESSING"},
               hand  |-> [e \in NRows |->
                  IF e \notin E THEN NoHand
                  ELSE [pc |-> "todo",
                        attempt |-> IF nrow[e].status = "PROCESSING"
                                      THEN nrow[e].attempts
                                      ELSE nrow[e].attempts + 1]]]]
    BY DEF processNotificationOutbox
  <1> DEFINE H == [e \in NRows |->
                     IF e \notin E THEN NoHand
                     ELSE [pc |-> "todo",
                           attempt |-> IF nrow[e].status = "PROCESSING"
                                         THEN nrow[e].attempts
                                         ELSE nrow[e].attempts + 1]]
             D == {e \in E : nrow[e].status \in NOpen}
             S == {e \in E : nrow[e].status = "PROCESSING"}
             t == IF E = {} THEN 0 ELSE cron[p].tick + 1
             C == [tick |-> t, processed |-> 0, due |-> D, stale |-> S, hand |-> H]
  <1>3. nrow' = nrow /\ accepted' = accepted /\ inbox' = inbox /\ call' = call
        /\ calls' = calls /\ nfaults' = nfaults
    BY DEF processNotificationOutbox
  <1>4. cron[p].tick \in 0..NTicks /\ NTicks \in Nat \ {0}
    BY <1>1, NAssumption DEF Passes, NAssumption
  <1>5. t \in 0..NTicks
    <2>1. cron[p].tick = 0 \/ cron[p].tick < NTicks
      BY DEF processNotificationOutbox, AnotherTick
    <2> QED BY <2>1, <1>4
  <1>6. /\ \A e \in NRows : H[e] \in Hands
        /\ \A e \in E : H[e].pc = "todo"
                        /\ H[e].attempt = IF nrow[e].status = "PROCESSING"
                                            THEN nrow[e].attempts ELSE nrow[e].attempts + 1
        /\ \A e \in NRows \ E : H[e].pc = "none"
    BY <1>1, <1>2, RowTypes DEF Hands, NoHand
  <1>7. H \in [NRows -> Hands]
    BY <1>6
  <1>8. /\ D \subseteq NRows /\ S \subseteq NRows /\ D \cap S = {}
        /\ \A e \in D : e \in E /\ nrow[e].status \in NOpen
        /\ \A e \in S : e \in E /\ nrow[e].status = "PROCESSING"
    BY <1>2 DEF NOpen
  <1> HIDE DEF H, D, S, t
  <1>9. C \in Passes /\ C.due = D /\ C.stale = S /\ C.hand = H /\ C.processed = 0
    BY <1>5, <1>7, <1>8, RowTypes, <1>1 DEF Passes, Hands
  <1>10. cron' = [cron EXCEPT ![p] = C]
    BY <1>2 DEF H, D, S, t
  <1> HIDE DEF C
  <1>11. cron' \in [NProcesses -> Passes] /\ cron'[p] = C
         /\ \A q \in NProcesses \ {p} : cron'[q] = cron[q]
    BY <1>1, <1>9, <1>10
  <1>12. NTypeOK'
    BY <1>1, <1>3, <1>11 DEF NTypeOK, Passes
  <1>13. HandsOk'
    <2> SUFFICES ASSUME NEW q \in NProcesses, NEW f \in NRows PROVE HandOk(cron[q], f)'
      BY DEF HandsOk
    <2>1. CASE q = p
      <3>1. cron'[q].due = D /\ cron'[q].stale = S /\ cron'[q].hand = H
        BY <2>1, <1>9, <1>11
      <3>2. f \in D => nrow[f].status # "ABSENT" /\ f \notin S
                       /\ H[f].attempt = nrow[f].attempts + 1
        BY <1>6, <1>8 DEF NOpen
      <3>3. f \in S => nrow[f].status = "PROCESSING" /\ H[f].attempt = nrow[f].attempts
        BY <1>6, <1>8
      <3>4. H[f].pc \notin Working /\ H[f].pc \notin {"add", "mark"} /\ H[f].pc # "mark"
        BY <1>6 DEF Working
      <3> QED BY <3>1, <3>2, <3>3, <3>4, <1>3 DEF HandOk
    <2>2. CASE q # p
      BY <2>2, <1>3, <1>11 DEF RowsInv, HandsOk, HandOk
    <2> QED BY <2>1, <2>2
  <1>14. PassesCount'
    BY <1>1, <1>9, <1>11, <1>12, CountStays DEF RowsInv, InHand
  <1>15. \A e \in NRows : LowHands(e)' \subseteq LowHands(e)
    BY <1>6, <1>9, <1>11 DEF LowHands, Working
  <1>16. Budget'
    BY <1>1, <1>3, <1>12, <1>15, BudgetStays DEF RowsInv
  <1>17. OneJobPerRow' /\ RowTellsTheTruth' /\ UnwrittenUntried'
    BY <1>3 DEF RowsInv, OneJobPerRow, RowTellsTheTruth, UnwrittenUntried
  <1> QED BY <1>12, <1>13, <1>14, <1>16, <1>17 DEF RowsInv

(* What Hand after Forget does, the form every event step has.             *)
LEMMA LetGo ==
    ASSUME NTypeOK, NEW p \in NProcesses, NEW e \in NRows, NEW h \in Hands,
           NEW g, Forgetting(cron, e, g), NEW c, c = Hand(g, p, e, h)
    PROVE  /\ c \in [NProcesses -> Passes]
           /\ c[p].hand[e] = h
           /\ \A q \in NProcesses : /\ c[q].processed = cron[q].processed
                                    /\ c[q].tick = cron[q].tick
                                    /\ c[q].stale = cron[q].stale \ {e}
                                    /\ c[q].due = g[q].due
                                    /\ q # p => c[q].hand = cron[q].hand
                                    /\ \A f \in NRows \ {e} : c[q].hand[f] = cron[q].hand[f]
  <1>1. g \in [NProcesses -> Passes]
        /\ \A q \in NProcesses :
             /\ g[q].hand = cron[q].hand /\ g[q].tick = cron[q].tick
             /\ g[q].processed = cron[q].processed /\ g[q].stale = cron[q].stale \ {e}
    BY DEF Forgetting
  <1>2. /\ c \in [NProcesses -> Passes] /\ c[p].hand[e] = h
        /\ \A f \in NRows \ {e} : c[p].hand[f] = g[p].hand[f]
        /\ \A q \in NProcesses \ {p} : c[q] = g[q]
        /\ c[p].due = g[p].due /\ c[p].stale = g[p].stale
        /\ c[p].tick = g[p].tick /\ c[p].processed = g[p].processed
    BY <1>1, HandDoes
  <1>3. ASSUME NEW q \in NProcesses
        PROVE  /\ c[q].processed = cron[q].processed
               /\ c[q].tick = cron[q].tick
               /\ c[q].stale = cron[q].stale \ {e}
               /\ c[q].due = g[q].due
               /\ q # p => c[q].hand = cron[q].hand
               /\ \A f \in NRows \ {e} : c[q].hand[f] = cron[q].hand[f]
    <2>1. CASE q = p
      BY <2>1, <1>1, <1>2
    <2>2. CASE q # p
      BY <2>2, <1>1, <1>2
    <2> QED BY <2>1, <2>2
  <1> QED BY <1>2, <1>3

(* What a rewrite of status, deadline and attempts leaves of a row.        *)
NRowRecords == [status: NStatus, attempts: Nat, due: BOOLEAN, stale: BOOLEAN]

Rewrites(x, s, n, y) ==
    \/ y = [x EXCEPT !.status = s, !.stale = FALSE, !.attempts = n]
    \/ y = [x EXCEPT !.status = s, !.stale = FALSE] /\ n = x.attempts
    \/ y = [x EXCEPT !.status = s, !.due = FALSE, !.stale = FALSE] /\ n = x.attempts

(* A rewritten row is a row with the new status and attempts.               *)
LEMMA RowRewritten ==
    ASSUME NEW x \in NRowRecords, NEW s \in NStatus, NEW n \in Nat, NEW y, Rewrites(x, s, n, y)
    PROVE  y \in NRowRecords /\ y.status = s /\ y.attempts = n
  BY DEF NRowRecords, Rewrites

(* The claim: the attempt in hand is the attempt of the row, and the last  *)
(* one it may make cannot open the row again.                              *)
LEMMA ClaimStep ==
    ASSUME RowsInv, NEW p \in NProcesses, NEW e \in NRows, claimEvent(p, e)
    PROVE  RowsInv'
  <1> DEFINE reclaim == e \in cron[p].stale /\ nrow[e].status = "PROCESSING"
             take    == e \in cron[p].due /\ nrow[e].status \in NOpen
             h       == [pc |-> IF e \in Invalid THEN "fail" ELSE "add",
                         attempt |-> cron[p].hand[e].attempt]
             r       == [nrow[e] EXCEPT !.status = "PROCESSING", !.stale = FALSE,
                           !.attempts = IF take THEN nrow[e].attempts + 1 ELSE @]
  <1>1. /\ NTypeOK /\ cron \in [NProcesses -> Passes] /\ nrow \in [NRows -> NRowRecords]
        /\ \A q \in NProcesses, f \in NRows : HandOk(cron[q], f)
        /\ nrow[e].attempts \in Nat /\ NMaxAttempts \in Nat /\ Cardinality(NProcesses) \in Nat
        /\ cron[p].hand[e].attempt \in Nat
    BY RowTypes DEF RowsInv, HandsOk, NTypeOK, NRowRecords
  <1>2. cron[p].hand[e].pc = "todo"
    BY DEF claimEvent
  <1>3. inbox' = inbox /\ call' = call /\ calls' = calls /\ accepted' = accepted /\ nfaults' = nfaults
    BY DEF claimEvent
  <1>4. \/ /\ reclaim \/ take
           /\ nrow' = [nrow EXCEPT ![e] = r]
           /\ cron' = Hand(Forget(cron, e, FALSE), p, e, h)
        \/ /\ ~(reclaim \/ take)
           /\ cron' = Hand(cron, p, e, NoHand) /\ nrow' = nrow
    BY DEF claimEvent
  <1>5. NoHand \in Hands /\ NoHand.pc = "none"
    BY DEF NoHand, Hands
  <1>6. /\ h \in Hands /\ h.attempt = cron[p].hand[e].attempt /\ h.pc \in {"fail", "add"}
        /\ h.pc = "add" => e \notin Invalid
    BY <1>1 DEF Hands
  <1> DEFINE n == IF take THEN nrow[e].attempts + 1 ELSE nrow[e].attempts
  <1>7. /\ r \in NRowRecords /\ r.status = "PROCESSING"
        /\ r.attempts = IF take THEN nrow[e].attempts + 1 ELSE nrow[e].attempts
    <2>1. n \in Nat /\ nrow[e] \in NRowRecords /\ "PROCESSING" \in NStatus
      BY <1>1 DEF NStatus, NRowRecords
    <2>2. Rewrites(nrow[e], "PROCESSING", n, r)
      BY Zenon DEF Rewrites
    <2> HIDE DEF n, r
    <2>3. r \in NRowRecords /\ r.status = "PROCESSING" /\ r.attempts = n
      BY <2>1, <2>2, RowRewritten
    <2> QED BY <2>3 DEF n
  <1> HIDE DEF h, r
  <1>8. CASE /\ reclaim \/ take
             /\ nrow' = [nrow EXCEPT ![e] = r]
             /\ cron' = Hand(Forget(cron, e, FALSE), p, e, h)
    <2>1. /\ cron' \in [NProcesses -> Passes]
          /\ cron'[p].hand[e] = h
          /\ \A q \in NProcesses : /\ cron'[q].processed = cron[q].processed
                                   /\ cron'[q].stale = cron[q].stale \ {e}
                                   /\ cron'[q].due = cron[q].due
                                   /\ q # p => cron'[q].hand = cron[q].hand
                                   /\ \A f \in NRows \ {e} : cron'[q].hand[f] = cron[q].hand[f]
      <3> DEFINE g == Forget(cron, e, FALSE)
      <3>1. Forgetting(cron, e, g) /\ \A q \in NProcesses : g[q].due = cron[q].due
        BY <1>1, ForgetDoes
      <3> HIDE DEF g
      <3>2. cron' = Hand(g, p, e, h)
        BY <1>8 DEF g
      <3> QED BY <3>1, <3>2, <1>1, <1>6, LetGo
    <2>2. nrow'[e] = r /\ \A f \in NRows \ {e} : nrow'[f] = nrow[f]
      BY <1>1, <1>8
    <2>3. NTypeOK'
      <3>1. nrow' \in [NRows -> NRowRecords]
        BY <1>1, <1>7, <1>8
      <3> QED BY <3>1, <2>1, <1>1, <1>3 DEF NTypeOK, Passes, NRowRecords
    <2>4. Apart(e)
      BY <2>1, <2>2, <1>3 DEF Apart
    <2>5. h.attempt = r.attempts
      <3>1. CASE take
        BY <3>1, <1>1, <1>2, <1>6, <1>7 DEF HandOk
      <3>2. CASE ~take
        BY <3>2, <1>8, <1>1, <1>2, <1>6, <1>7 DEF HandOk
      <3> QED BY <3>1, <3>2
    <2>6. ASSUME NEW q \in NProcesses PROVE HandOk(cron[q], e)'
      <3>1. e \in cron'[q].due => e \in cron[q].due
        BY <2>1
      <3>2. e \notin cron'[q].stale /\ nrow'[e].status = "PROCESSING"
        BY <2>1, <2>2, <1>7
      <3>3. CASE q = p
        BY <3>1, <3>2, <3>3, <2>1, <2>2, <2>5, <1>6, <1>1, <1>7 DEF HandOk, NOpen, Working
      <3>4. CASE q # p
        <4>1. HandOk(cron[q], e) /\ cron'[q].hand = cron[q].hand
          BY <3>4, <1>1, <2>1
        <4>2. nrow'[e].attempts \in Nat /\ nrow'[e].attempts >= nrow[e].attempts
          BY <2>2, <1>1, <1>7
        <4>3. cron[q].hand[e].attempt \in Nat
          BY <1>1, RowTypes
        <4> QED BY <4>1, <4>2, <4>3, <3>1, <3>2, <1>1, <1>3 DEF HandOk, NOpen
      <3> QED BY <3>3, <3>4
    <2>7. PassesCount'
      <3>1. \A q \in NProcesses : InHand(q)' \subseteq InHand(q)
        BY <2>1, <1>2, <1>6 DEF InHand
      <3> QED BY <3>1, <2>1, <2>3, <1>1, CountStays DEF RowsInv
    <2>8. Budget'
      <3> DEFINE L == LowHands(e)
                 M == LowHands(e)'
                 a == nrow[e].attempts
      <3>1. /\ IsFiniteSet(L) /\ Cardinality(L) \in Nat /\ p \notin L /\ p \in NProcesses
            /\ IsFiniteSet(NProcesses) /\ M \subseteq NProcesses
        BY <1>1, <1>2, HandSets, RowTypes DEF LowHands, Working
      <3>6. Cardinality(M) \in Nat /\ r.attempts \in Nat
        <4> HIDE DEF M
        <4>1. Cardinality(M) \in Nat
          BY <3>1, FS_Subset, FS_CardinalityType
        <4> QED BY <4>1, <1>7 DEF NRowRecords
      <3>2. r.attempts >= NMaxAttempts => M = L /\ p \notin M
        <4>1. SUFFICES ASSUME r.attempts >= NMaxAttempts PROVE M = L /\ p \notin M
          OBVIOUS
        <4>2. p \notin M
          <5>1. ~(cron'[p].hand[e].attempt < NMaxAttempts)
            BY <4>1, <2>1, <2>5, <1>1, <1>6
          <5> QED BY <5>1 DEF LowHands
        <4>3. \A q \in NProcesses \ {p} : q \in M <=> q \in L
          BY <2>1 DEF LowHands
        <4>4. M \subseteq NProcesses /\ L \subseteq NProcesses /\ p \notin L
          BY <3>1 DEF LowHands
        <4> HIDE DEF M, L
        <4> QED BY <4>2, <4>3, <4>4
      <3>3. r.attempts >= NMaxAttempts => r.attempts + Cardinality(M) <= NMaxAttempts + Cardinality(NProcesses) - 1
        <4>1. CASE a >= NMaxAttempts
          <5>1. a + Cardinality(L) + (IF nrow[e].status \in NOpen THEN 1 ELSE 0)
                  <= NMaxAttempts + Cardinality(NProcesses) - 1
            BY <4>1 DEF RowsInv, Budget
          <5>2. r.attempts = IF take THEN a + 1 ELSE a
            BY <1>7
          <5> HIDE DEF L, M
          <5>3. CASE take
            BY <5>1, <5>2, <5>3, <3>1, <3>2, <1>1
          <5>4. CASE ~take
            <6>1. r.attempts = a
              BY <5>2, <5>4
            <6> HIDE DEF a, take
            <6>2. (IF nrow[e].status \in NOpen THEN 1 ELSE 0) \in {0, 1}
              OBVIOUS
            <6> QED BY <5>1, <6>1, <6>2, <3>1, <3>2, <1>1 DEF a
          <5> QED BY <5>3, <5>4
        <4>2. CASE a < NMaxAttempts
          <5>1. r.attempts <= NMaxAttempts
            BY <4>2, <1>1, <1>7
          <5>2. ASSUME r.attempts >= NMaxAttempts
                PROVE  Cardinality(M) <= Cardinality(NProcesses) - 1
            <6>1. M \subseteq NProcesses \ {p}
              BY <5>2, <3>1, <3>2
            <6>2. IsFiniteSet(NProcesses \ {p}) /\ Cardinality(NProcesses \ {p}) = Cardinality(NProcesses) - 1
              BY <3>1, FS_RemoveElement
            <6> HIDE DEF M
            <6> QED BY <6>1, <6>2, FS_Subset
          <5>3. r.attempts \in Nat /\ Cardinality(M) \in Nat
            BY <3>6
          <5> HIDE DEF M
          <5> QED BY <5>1, <5>2, <5>3, <1>1
        <4> QED BY <4>1, <4>2, <1>1
      <3>4. ASSUME NEW f \in NRows, f # e
            PROVE  nrow'[f] = nrow[f] /\ LowHands(f)' = LowHands(f)
        BY <3>4, <2>2, <2>4, ApartHands
      <3>5. ASSUME NEW f \in NRows, nrow'[f].attempts >= NMaxAttempts
            PROVE  nrow'[f].attempts + Cardinality(LowHands(f)')
                     + (IF nrow'[f].status \in NOpen THEN 1 ELSE 0)
                       <= NMaxAttempts + Cardinality(NProcesses) - 1
        <4>1. CASE f = e
          <5>1. nrow'[f].status \notin NOpen /\ nrow'[f].attempts = r.attempts
            BY <4>1, <2>2, <1>7 DEF NOpen
          <5>2. Cardinality(M) \in Nat /\ r.attempts \in Nat
            BY <3>6
          <5> HIDE DEF M
          <5>3. r.attempts + Cardinality(M) + 0 <= NMaxAttempts + Cardinality(NProcesses) - 1
            BY <5>1, <5>2, <3>3, <3>5, <1>1
          <5> QED BY <4>1, <5>1, <5>3 DEF M
        <4>2. CASE f # e
          <5>1. nrow'[f] = nrow[f] /\ LowHands(f)' = LowHands(f)
            BY <4>2, <3>4
          <5> QED BY <5>1, <3>5 DEF RowsInv, Budget
        <4> QED BY <4>1, <4>2
      <3> QED BY <3>5 DEF Budget
    <2>9. /\ accepted'[e] <= 1 /\ nrow'[e].status \notin {"DISPATCHED", "DEAD_LETTER", "ABSENT"}
      BY <1>3, <1>7, <2>2 DEF RowsInv, OneJobPerRow
    <2> QED BY <2>3, <2>4, <2>6, <2>7, <2>8, <2>9, RowStep
  <1>9. CASE ~(reclaim \/ take) /\ cron' = Hand(cron, p, e, NoHand) /\ nrow' = nrow
    <2>1. /\ cron' \in [NProcesses -> Passes]
          /\ cron'[p].hand[e].pc = "none"
          /\ \A q \in NProcesses : /\ cron'[q].processed = cron[q].processed
                                   /\ cron'[q].stale = cron[q].stale
                                   /\ cron'[q].due = cron[q].due
                                   /\ q # p => cron'[q].hand = cron[q].hand
                                   /\ \A f \in NRows \ {e} : cron'[q].hand[f] = cron[q].hand[f]
      <3>1. /\ cron' \in [NProcesses -> Passes]
            /\ cron'[p].hand[e] = NoHand
            /\ \A f \in NRows \ {e} : cron'[p].hand[f] = cron[p].hand[f]
            /\ \A q \in NProcesses \ {p} : cron'[q] = cron[q]
            /\ cron'[p].due = cron[p].due /\ cron'[p].stale = cron[p].stale
            /\ cron'[p].processed = cron[p].processed
        BY <1>1, <1>5, <1>9, HandDoes
      <3> QED BY <3>1, <1>5
    <2>2. NTypeOK'
      BY <2>1, <1>1, <1>3, <1>9 DEF NTypeOK, Passes
    <2>3. HandsOk'
      <3> SUFFICES ASSUME NEW q \in NProcesses, NEW f \in NRows PROVE HandOk(cron[q], f)'
        BY DEF HandsOk
      <3>1. CASE q = p /\ f = e
        BY <3>1, <2>1, <1>1, <1>9 DEF HandOk, Working
      <3>2. CASE ~(q = p /\ f = e)
        <4>1. cron'[q].hand[f] = cron[q].hand[f] /\ HandOk(cron[q], f)
          BY <3>2, <2>1, <1>1
        <4> QED BY <4>1, <2>1, <1>3, <1>9 DEF HandOk
      <3> QED BY <3>1, <3>2
    <2>4. \A q \in NProcesses : InHand(q)' \subseteq InHand(q)
      BY <2>1 DEF InHand
    <2>5. PassesCount'
      BY <2>4, <2>1, <2>2, <1>1, CountStays DEF RowsInv
    <2>6. \A f \in NRows : LowHands(f)' \subseteq LowHands(f)
      BY <2>1 DEF LowHands, Working
    <2>7. Budget'
      BY <2>6, <2>2, <1>1, <1>9, BudgetStays DEF RowsInv
    <2>8. OneJobPerRow' /\ RowTellsTheTruth' /\ UnwrittenUntried'
      BY <1>3, <1>9 DEF RowsInv, OneJobPerRow, RowTellsTheTruth, UnwrittenUntried
    <2> QED BY <2>2, <2>3, <2>5, <2>7, <2>8 DEF RowsInv
  <1> HIDE DEF reclaim, take
  <1> QED BY <1>4, <1>8, <1>9

(* What one hand of a pass becomes when only that hand changes.            *)
HandBecomes(p, e, h) ==
    /\ cron' \in [NProcesses -> Passes] /\ cron'[p].hand[e] = h
    /\ \A q \in NProcesses : /\ cron'[q].processed = cron[q].processed
                             /\ cron'[q].tick = cron[q].tick
                             /\ cron'[q].stale = cron[q].stale
                             /\ cron'[q].due = cron[q].due
                             /\ q # p => cron'[q].hand = cron[q].hand
                             /\ \A f \in NRows \ {e} : cron'[q].hand[f] = cron[q].hand[f]

(* A process that moves on changes its own hands only.                      *)
LEMMA OneHand ==
    ASSUME NTypeOK, NEW p \in NProcesses, NEW e \in NRows, NEW h \in Hands,
           cron' = Hand(cron, p, e, h)
    PROVE  HandBecomes(p, e, h)
  <1>1. cron \in [NProcesses -> Passes] /\ cron[p].hand[e] \in Hands
    BY RowTypes
  <1>2. /\ cron' \in [NProcesses -> Passes]
        /\ cron'[p].hand[e] = h
        /\ \A f \in NRows \ {e} : cron'[p].hand[f] = cron[p].hand[f]
        /\ \A q \in NProcesses \ {p} : cron'[q] = cron[q]
        /\ cron'[p].due = cron[p].due /\ cron'[p].stale = cron[p].stale
        /\ cron'[p].tick = cron[p].tick /\ cron'[p].processed = cron[p].processed
    BY <1>1, HandDoes
  <1> QED BY <1>2 DEF HandBecomes

(* A step that changes one hand and no row: what the hand says has to hold *)
(* of the row, and it may not become a low hand.                           *)
LEMMA HandStep ==
    ASSUME RowsInv, NEW p \in NProcesses, NEW e \in NRows, NEW h \in Hands, HandBecomes(p, e, h),
           nrow' = nrow, inbox' = inbox, call' = call, calls' = calls,
           nfaults' \in 0..NMaxFaults, accepted' \in [NRows -> Nat],
           \A f \in NRows : \/ accepted'[f] = accepted[f]
                            \/ accepted[f] = 0 /\ accepted'[f] = 1 /\ f = e,
           cron[p].hand[e].pc \in Working,
           h.pc \in {"none", "mark", "fail"}, h.pc # "none" => h.attempt = cron[p].hand[e].attempt,
           h.pc = "mark" => accepted'[e] = 1 /\ e \notin Invalid
    PROVE  RowsInv'
  <1>1. NTypeOK /\ \A q \in NProcesses, f \in NRows : HandOk(cron[q], f)
    BY DEF RowsInv, HandsOk
  <1>2. NTypeOK'
    BY <1>1 DEF NTypeOK, Passes, HandBecomes
  <1>3. ASSUME NEW q \in NProcesses, NEW f \in NRows PROVE HandOk(cron[q], f)'
    <2>1. accepted[f] = 1 => accepted'[f] = 1
      OBVIOUS
    <2>2. /\ HandOk(cron[q], f)
          /\ f \in cron'[q].due <=> f \in cron[q].due
          /\ f \in cron'[q].stale <=> f \in cron[q].stale
      BY <1>1 DEF HandBecomes
    <2>3. CASE q = p /\ f = e
      BY <2>2, <2>3 DEF HandOk, Working, HandBecomes
    <2>4. CASE ~(q = p /\ f = e)
      <3>1. cron'[q].hand[f] = cron[q].hand[f]
        BY <2>4 DEF HandBecomes
      <3> QED BY <2>1, <2>2, <3>1 DEF HandOk
    <2> QED BY <2>3, <2>4
  <1>4. /\ \A f \in NRows : LowHands(f)' \subseteq LowHands(f)
        /\ \A q \in NProcesses : InHand(q)' \subseteq InHand(q)
    <2>1. ASSUME NEW f \in NRows, NEW q \in NProcesses
          PROVE  /\ q \in LowHands(f)' => q \in LowHands(f)
                 /\ f \in InHand(q)' => f \in InHand(q)
      <3>1. CASE q = p /\ f = e
        BY <3>1 DEF LowHands, InHand, HandBecomes, Working
      <3>2. CASE ~(q = p /\ f = e)
        <4>1. cron'[q].hand[f] = cron[q].hand[f]
          BY <3>2 DEF HandBecomes
        <4> QED BY <4>1 DEF LowHands, InHand
      <3> QED BY <3>1, <3>2
    <2>2. /\ \A f : LowHands(f)' \subseteq NProcesses
          /\ \A q : InHand(q)' \subseteq NRows
      BY DEF LowHands, InHand
    <2> QED BY <2>1, <2>2
  <1>5. PassesCount'
    BY <1>1, <1>2, <1>4, CountStays DEF RowsInv, HandBecomes
  <1>6. Budget'
    BY <1>1, <1>2, <1>4, BudgetStays DEF RowsInv
  <1>7. OneJobPerRow' /\ RowTellsTheTruth' /\ UnwrittenUntried'
    <2>1. \A f \in NRows : accepted'[f] <= 1 /\ (accepted[f] = 1 => accepted'[f] = 1)
      BY DEF RowsInv, OneJobPerRow
    <2> QED BY <2>1 DEF RowsInv, OneJobPerRow, RowTellsTheTruth, UnwrittenUntried
  <1> QED BY <1>2, <1>3, <1>5, <1>6, <1>7 DEF RowsInv, HandsOk

(* queue.add under the jobId of the row: accepted at most once.            *)
LEMMA EnqueueStep ==
    ASSUME RowsInv, NEW p \in NProcesses, NEW e \in NRows, enqueuePreparedNotification(p, e)
    PROVE  RowsInv'
  <1>1. NTypeOK /\ cron[p].hand[e] \in Hands /\ HandOk(cron[p], e)
    BY RowTypes DEF RowsInv, HandsOk
  <1>2. cron[p].hand[e].pc = "add" /\ nrow' = nrow /\ inbox' = inbox /\ call' = call /\ calls' = calls
    BY DEF enqueuePreparedNotification
  <1>3. accepted \in [NRows -> Nat] /\ nfaults \in 0..NMaxFaults /\ NMaxFaults \in Nat
    BY <1>1, NAssumption DEF NTypeOK, NAssumption
  <1>4. accepted[e] \in Nat /\ accepted[e] <= 1
    BY <1>1, <1>3 DEF RowsInv, OneJobPerRow
  <1>5. EnqueueOnce(e) => /\ accepted' \in [NRows -> Nat] /\ accepted'[e] = 1
                          /\ accepted[e] # 0 => accepted' = accepted
                          /\ \A f \in NRows \ {e} : accepted'[f] = accepted[f]
    BY <1>3, <1>4 DEF EnqueueOnce
  <1>6. e \notin Invalid /\ cron[p].hand[e].pc \in Working
    BY <1>1, <1>2 DEF HandOk, Working
  <1>7. ASSUME NEW h \in Hands, HandBecomes(p, e, h), h.pc \in {"mark", "fail"},
               h.attempt = cron[p].hand[e].attempt,
               EnqueueOnce(e) \/ (h.pc = "fail" /\ accepted' = accepted),
               nfaults' \in 0..NMaxFaults
        PROVE  RowsInv'
    <2>1. accepted' \in [NRows -> Nat]
      BY <1>3, <1>5, <1>7
    <2>2. \A f \in NRows : \/ accepted'[f] = accepted[f]
                           \/ accepted[f] = 0 /\ accepted'[f] = 1 /\ f = e
      <3>1. CASE accepted' = accepted
        BY <3>1
      <3>2. CASE EnqueueOnce(e) /\ accepted[e] = 0
        BY <3>2, <1>5
      <3> QED BY <3>1, <3>2, <1>5, <1>7
    <2>3. h.pc = "mark" => accepted'[e] = 1
      BY <1>5, <1>7
    <2>4. h.pc \in {"none", "mark", "fail"}
      BY <1>7
    <2> QED BY <1>2, <1>6, <1>7, <2>1, <2>2, <2>3, <2>4, HandStep
  <1>8. CASE EnqueueOnce(e) /\ cron' = [cron EXCEPT ![p].hand[e].pc = "mark"] /\ nfaults' = nfaults
    <2> DEFINE h == [cron[p].hand[e] EXCEPT !.pc = "mark"]
    <2>1. h \in Hands /\ h.pc = "mark" /\ h.attempt = cron[p].hand[e].attempt
      BY <1>1 DEF Hands
    <2>2. cron' = Hand(cron, p, e, h)
      BY <1>1, <1>8 DEF Hand
    <2>3. HandBecomes(p, e, h)
      BY <1>1, <2>2, <2>1, OneHand
    <2> HIDE DEF h
    <2> QED BY <1>3, <1>7, <1>8, <2>1, <2>3
  <1>9. CASE /\ NFault /\ (EnqueueOnce(e) \/ accepted' = accepted)
             /\ cron' = [cron EXCEPT ![p].hand[e].pc = "fail"]
    <2> DEFINE h == [cron[p].hand[e] EXCEPT !.pc = "fail"]
    <2>1. h \in Hands /\ h.pc = "fail" /\ h.attempt = cron[p].hand[e].attempt
      BY <1>1 DEF Hands
    <2>2. cron' = Hand(cron, p, e, h)
      BY <1>1, <1>9 DEF Hand
    <2>3. HandBecomes(p, e, h)
      BY <1>1, <2>2, <2>1, OneHand
    <2>4. nfaults' \in 0..NMaxFaults
      BY <1>9, <1>3 DEF NFault
    <2> HIDE DEF h
    <2> QED BY <1>7, <1>9, <2>1, <2>3, <2>4
  <1> QED BY <1>8, <1>9 DEF enqueuePreparedNotification

(* The mark: written by id, after the job was accepted.                    *)
LEMMA MarkStep ==
    ASSUME RowsInv, NEW p \in NProcesses, NEW e \in NRows, markDispatched(p, e)
    PROVE  RowsInv'
  <1>1. /\ NTypeOK /\ cron[p].hand[e] \in Hands /\ nrow \in [NRows -> NRowRecords]
        /\ cron \in [NProcesses -> Passes] /\ nrow[e].attempts \in Nat
        /\ \A q \in NProcesses, f \in NRows : HandOk(cron[q], f)
    BY RowTypes DEF RowsInv, HandsOk, NTypeOK, NRowRecords
  <1>2. cron[p].hand[e].pc = "mark" /\ inbox' = inbox /\ call' = call /\ calls' = calls /\ accepted' = accepted
    BY DEF markDispatched
  <1>3. accepted[e] = 1 /\ e \notin Invalid /\ cron[p].hand[e].pc \in Working
    BY <1>1, <1>2 DEF HandOk, Working
  <1>4. nfaults \in 0..NMaxFaults /\ NMaxFaults \in Nat /\ accepted \in [NRows -> Nat]
    BY <1>1, NAssumption DEF NTypeOK, NAssumption
  <1>5. CASE /\ nrow' = [nrow EXCEPT ![e] = [nrow[e] EXCEPT !.status = "DISPATCHED", !.stale = FALSE]]
             /\ cron' = [Hand(Forget(cron, e, FALSE), p, e, NoHand) EXCEPT ![p].processed = @ + 1]
             /\ nfaults' = nfaults
    <2> DEFINE r == [nrow[e] EXCEPT !.status = "DISPATCHED", !.stale = FALSE]
               g == Forget(cron, e, FALSE)
               c == Hand(g, p, e, NoHand)
    <2>1. r \in NRowRecords /\ r.status = "DISPATCHED" /\ r.attempts = nrow[e].attempts
      <3>1. nrow[e] \in NRowRecords /\ "DISPATCHED" \in NStatus
        BY <1>1 DEF NStatus, NFinal
      <3>2. Rewrites(nrow[e], "DISPATCHED", nrow[e].attempts, r)
        BY Zenon DEF Rewrites
      <3> HIDE DEF r
      <3> QED BY <3>1, <3>2, <1>1, RowRewritten
    <2>2. Forgetting(cron, e, g) /\ \A q \in NProcesses : g[q].due = cron[q].due
      BY <1>1, ForgetDoes
    <2>3. NoHand \in Hands /\ NoHand.pc = "none"
      BY DEF NoHand, Hands
    <2>4. nrow' = [nrow EXCEPT ![e] = r] /\ cron' = [c EXCEPT ![p].processed = @ + 1]
      BY <1>5
    <2> HIDE DEF r, g
    <2>5. c = Hand(g, p, e, NoHand)
      OBVIOUS
    <2> HIDE DEF c
    <2>6. /\ c \in [NProcesses -> Passes]
          /\ c[p].hand[e] = NoHand
          /\ \A q \in NProcesses : /\ c[q].processed = cron[q].processed
                                   /\ c[q].stale = cron[q].stale \ {e}
                                   /\ c[q].due = g[q].due
                                   /\ q # p => c[q].hand = cron[q].hand
                                   /\ \A f \in NRows \ {e} : c[q].hand[f] = cron[q].hand[f]
      BY <1>1, <2>2, <2>3, <2>5, LetGo
    <2>7. cron[p].processed + 1 \in 0..Cardinality(NRows)
      <3>1. /\ IsFiniteSet(InHand(p)) /\ Cardinality(InHand(p)) \in Nat /\ e \in InHand(p)
            /\ cron[p].processed \in 0..Cardinality(NRows) /\ Cardinality(NRows) \in Nat
        BY <1>1, <1>2, HandSets, RowTypes DEF InHand, Passes
      <3>2. Cardinality(InHand(p)) # 0
        BY <3>1, FS_EmptySet
      <3>3. cron[p].processed + Cardinality(InHand(p)) <= Cardinality(NRows)
        BY DEF RowsInv, PassesCount
      <3> QED BY <3>1, <3>2, <3>3
    <2>8. /\ cron' \in [NProcesses -> Passes] /\ cron'[p].hand[e] = NoHand
          /\ cron'[p].processed = cron[p].processed + 1
          /\ \A q \in NProcesses : /\ q # p => cron'[q].processed = cron[q].processed
                                   /\ cron'[q].stale = cron[q].stale \ {e}
                                   /\ cron'[q].due = cron[q].due
                                   /\ q # p => cron'[q].hand = cron[q].hand
                                   /\ \A f \in NRows \ {e} : cron'[q].hand[f] = cron[q].hand[f]
      <3>1. cron' \in [NProcesses -> Passes]
        <4>1. c[p] \in Passes /\ c[p].processed + 1 \in 0..Cardinality(NRows)
          BY <2>6, <2>7
        <4>2. [c[p] EXCEPT !.processed = @ + 1] \in Passes
          BY <4>1 DEF Passes
        <4> QED BY <4>2, <2>4, <2>6
      <3>2. /\ cron'[p].hand = c[p].hand /\ cron'[p].stale = c[p].stale /\ cron'[p].due = c[p].due
            /\ cron'[p].processed = c[p].processed + 1
            /\ \A q \in NProcesses \ {p} : cron'[q] = c[q]
        BY <2>4, <2>6 DEF Passes
      <3> QED BY <3>1, <3>2, <2>2, <2>6
    <2>9. nrow'[e] = r /\ (\A f \in NRows \ {e} : nrow'[f] = nrow[f])
          /\ nrow' \in [NRows -> NRowRecords]
      BY <1>1, <2>1, <2>4
    <2>10. NTypeOK'
      BY <2>8, <2>9, <1>1, <1>2, <1>5 DEF NTypeOK, Passes, NRowRecords
    <2>11. Apart(e)
      BY <2>8, <2>9, <1>2 DEF Apart
    <2>12. ASSUME NEW q \in NProcesses PROVE HandOk(cron[q], e)'
      <3>1. /\ e \notin cron'[q].stale /\ nrow'[e].status = "DISPATCHED"
            /\ nrow'[e].attempts = nrow[e].attempts
        BY <2>1, <2>8, <2>9
      <3>2. CASE q = p
        BY <3>1, <3>2, <2>3, <2>8 DEF HandOk, Working
      <3>3. CASE q # p
        <4>1. HandOk(cron[q], e) /\ cron'[q].hand = cron[q].hand
          BY <3>3, <1>1, <2>8
        <4> QED BY <4>1, <3>1, <1>2 DEF HandOk, NOpen
      <3> QED BY <3>2, <3>3
    <2>13. PassesCount'
      <3>1. \A q \in NProcesses \ {p} : InHand(q)' \subseteq InHand(q)
        BY <2>8 DEF InHand
      <3>2. e \in InHand(p) /\ InHand(p)' \subseteq InHand(p) \ {e}
        BY <2>3, <2>8, <1>2 DEF InHand
      <3> QED BY <3>1, <3>2, <2>8, <2>10, <1>1, CountStays DEF RowsInv
    <2>14. Budget'
      <3>1. \A f \in NRows : LowHands(f)' \subseteq LowHands(f)
        <4>1. LowHands(e)' \subseteq LowHands(e)
          BY <2>3, <2>8 DEF LowHands, Working
        <4> QED BY <4>1, <2>11, ApartHands
      <3>2. \A f \in NRows : /\ nrow'[f].attempts = nrow[f].attempts
                             /\ nrow'[f].status \in NOpen => nrow[f].status \in NOpen
        BY <2>1, <2>9 DEF NOpen
      <3> QED BY <3>1, <3>2, <2>10, <1>1, BudgetStays DEF RowsInv
    <2>15. /\ accepted'[e] <= 1 /\ accepted'[e] = 1
           /\ nrow'[e].status # "DEAD_LETTER" /\ nrow'[e].status # "ABSENT"
      BY <1>2, <1>3, <2>1, <2>9
    <2> QED BY <1>3, <2>10, <2>11, <2>12, <2>13, <2>14, <2>15, RowStep
  <1>6. CASE NFault /\ cron' = [cron EXCEPT ![p].hand[e].pc = "fail"] /\ nrow' = nrow
    <2> DEFINE h == [cron[p].hand[e] EXCEPT !.pc = "fail"]
    <2>1. h \in Hands /\ h.pc = "fail" /\ h.attempt = cron[p].hand[e].attempt
      BY <1>1 DEF Hands
    <2>2. cron' = Hand(cron, p, e, h)
      BY <1>1, <1>6 DEF Hand
    <2>3. HandBecomes(p, e, h)
      BY <1>1, <2>2, <2>1, OneHand
    <2>4. nfaults' \in 0..NMaxFaults
      BY <1>6, <1>4 DEF NFault
    <2>5. h.pc \in {"none", "mark", "fail"} /\ h.pc # "mark" /\ accepted' \in [NRows -> Nat]
          /\ \A f \in NRows : accepted'[f] = accepted[f]
      BY <2>1, <1>2, <1>4
    <2> HIDE DEF h
    <2> QED BY <1>2, <1>3, <1>6, <2>1, <2>3, <2>4, <2>5, HandStep
  <1> QED BY <1>5, <1>6 DEF markDispatched

(* The catch block: by id, with the attempt in hand.  A hand that opens a  *)
(* row again was a low hand and is none afterwards.                        *)
LEMMA FailureStep ==
    ASSUME RowsInv, NEW p \in NProcesses, NEW e \in NRows, recordFailure(p, e)
    PROVE  RowsInv'
  <1> DEFINE s == IF e \in Invalid THEN "DEAD_LETTER"
                  ELSE resolveFailureStatus(cron[p].hand[e].attempt)
  <1>1. /\ NTypeOK /\ cron[p].hand[e] \in Hands /\ nrow \in [NRows -> NRowRecords]
        /\ cron \in [NProcesses -> Passes] /\ nrow[e].attempts \in Nat
        /\ cron[p].hand[e].attempt \in Nat /\ NMaxAttempts \in Nat
        /\ \A q \in NProcesses, f \in NRows : HandOk(cron[q], f)
    BY RowTypes DEF RowsInv, HandsOk, NTypeOK, NRowRecords
  <1>2. cron[p].hand[e].pc = "fail" /\ inbox' = inbox /\ call' = call /\ calls' = calls /\ accepted' = accepted
    BY DEF recordFailure
  <1>3. cron[p].hand[e].pc \in Working /\ cron[p].hand[e].attempt <= nrow[e].attempts
    BY <1>1, <1>2 DEF HandOk, Working
  <1>4. nfaults \in 0..NMaxFaults /\ NMaxFaults \in Nat /\ accepted \in [NRows -> Nat]
    BY <1>1, NAssumption DEF NTypeOK, NAssumption
  <1>5. /\ s \in {"DEAD_LETTER", "FAILED"}
        /\ s = "DEAD_LETTER" => e \in Invalid \/ nrow[e].attempts >= NMaxAttempts
        /\ s = "FAILED" => cron[p].hand[e].attempt < NMaxAttempts
    BY <1>1, <1>3 DEF resolveFailureStatus
  <1>6. NoHand \in Hands /\ NoHand.pc = "none"
    BY DEF NoHand, Hands
  <1>7. CASE /\ nrow' = [nrow EXCEPT ![e] = [nrow[e] EXCEPT !.status = s, !.due = FALSE, !.stale = FALSE]]
             /\ cron' = Hand(Forget(cron, e, TRUE), p, e, NoHand)
             /\ nfaults' = nfaults
    <2> HIDE DEF s
    <2> DEFINE r == [nrow[e] EXCEPT !.status = s, !.due = FALSE, !.stale = FALSE]
               g == Forget(cron, e, TRUE)
    <2>1. r \in NRowRecords /\ r.status = s /\ r.attempts = nrow[e].attempts
      <3>1. nrow[e] \in NRowRecords /\ s \in NStatus
        BY <1>1, <1>5 DEF NStatus, NFinal, NOpen
      <3>2. Rewrites(nrow[e], s, nrow[e].attempts, r)
        BY Zenon DEF Rewrites
      <3> HIDE DEF r
      <3> QED BY <3>1, <3>2, <1>1, RowRewritten
    <2>2. Forgetting(cron, e, g) /\ \A q \in NProcesses : g[q].due = cron[q].due \ {e}
      BY <1>1, ForgetDoes
    <2>4. nrow' = [nrow EXCEPT ![e] = r] /\ cron' = Hand(g, p, e, NoHand)
      BY <1>7
    <2> HIDE DEF r, g
    <2>8. /\ cron' \in [NProcesses -> Passes]
          /\ cron'[p].hand[e] = NoHand
          /\ \A q \in NProcesses : /\ cron'[q].processed = cron[q].processed
                                   /\ cron'[q].stale = cron[q].stale \ {e}
                                   /\ cron'[q].due = cron[q].due \ {e}
                                   /\ q # p => cron'[q].hand = cron[q].hand
                                   /\ \A f \in NRows \ {e} : cron'[q].hand[f] = cron[q].hand[f]
      <3>1. /\ cron' \in [NProcesses -> Passes]
            /\ cron'[p].hand[e] = NoHand
            /\ \A q \in NProcesses : /\ cron'[q].processed = cron[q].processed
                                     /\ cron'[q].stale = cron[q].stale \ {e}
                                     /\ cron'[q].due = g[q].due
                                     /\ q # p => cron'[q].hand = cron[q].hand
                                     /\ \A f \in NRows \ {e} : cron'[q].hand[f] = cron[q].hand[f]
        BY <1>1, <1>6, <2>2, <2>4, LetGo
      <3> QED BY <3>1, <2>2
    <2>9. nrow'[e] = r /\ (\A f \in NRows \ {e} : nrow'[f] = nrow[f])
          /\ nrow' \in [NRows -> NRowRecords]
      BY <1>1, <2>1, <2>4
    <2>10. NTypeOK'
      BY <2>8, <2>9, <1>1, <1>2, <1>7 DEF NTypeOK, Passes, NRowRecords
    <2>11. Apart(e)
      BY <2>8, <2>9, <1>2 DEF Apart
    <2>12. ASSUME NEW q \in NProcesses PROVE HandOk(cron[q], e)'
      <3>1. /\ e \notin cron'[q].stale /\ e \notin cron'[q].due
            /\ nrow'[e].attempts = nrow[e].attempts
        BY <2>1, <2>8, <2>9
      <3>2. CASE q = p
        BY <3>1, <3>2, <1>6, <2>8 DEF HandOk, Working
      <3>3. CASE q # p
        <4>1. HandOk(cron[q], e) /\ cron'[q].hand = cron[q].hand
          BY <3>3, <1>1, <2>8
        <4> QED BY <4>1, <3>1, <1>2 DEF HandOk
      <3> QED BY <3>2, <3>3
    <2>13. PassesCount'
      <3>1. \A q \in NProcesses : InHand(q)' \subseteq InHand(q)
        <4>1. \A q \in NProcesses \ {p} : InHand(q)' \subseteq InHand(q)
          BY <2>8 DEF InHand
        <4>2. InHand(p)' \subseteq InHand(p)
          BY <1>6, <2>8 DEF InHand
        <4> QED BY <4>1, <4>2
      <3> QED BY <3>1, <2>8, <2>10, <1>1, CountStays DEF RowsInv
    <2>14. Budget'
      <3>1. \A f \in NRows : LowHands(f)' \subseteq LowHands(f)
        <4>1. LowHands(e)' \subseteq LowHands(e)
          BY <1>6, <2>8 DEF LowHands, Working
        <4> QED BY <4>1, <2>11, ApartHands
      <3>2. nrow'[e].status \in NOpen => LowHands(e)' # LowHands(e)
        <4>1. SUFFICES ASSUME s \in NOpen PROVE LowHands(e)' # LowHands(e)
          BY <2>1, <2>9
        <4>2. p \in LowHands(e)
          BY <4>1, <1>3, <1>5 DEF LowHands, NOpen
        <4>3. p \notin LowHands(e)'
          BY <1>6, <2>8 DEF LowHands, Working
        <4> QED BY <4>2, <4>3
      <3>3. \A f \in NRows \ {e} : nrow'[f] = nrow[f]
        BY <2>9
      <3>4. nrow'[e].attempts = nrow[e].attempts
        BY <2>1, <2>9
      <3> QED BY <3>1, <3>2, <3>3, <3>4, <2>10, <1>1, BudgetStays DEF RowsInv
    <2>15. /\ accepted'[e] <= 1
           /\ nrow'[e].status # "DISPATCHED" /\ nrow'[e].status # "ABSENT"
           /\ nrow'[e].status = "DEAD_LETTER" => e \in Invalid \/ nrow'[e].attempts >= NMaxAttempts
      BY <1>2, <1>5, <2>1, <2>9 DEF RowsInv, OneJobPerRow
    <2> QED BY <2>10, <2>11, <2>12, <2>13, <2>14, <2>15, RowStep
  <1>8. CASE NFault /\ cron' = Hand(cron, p, e, NoHand) /\ nrow' = nrow
    <2>1. HandBecomes(p, e, NoHand)
      BY <1>1, <1>6, <1>8, OneHand
    <2>2. nfaults' \in 0..NMaxFaults
      BY <1>8, <1>4 DEF NFault
    <2>3. NoHand.pc \in {"none", "mark", "fail"} /\ NoHand.pc # "mark" /\ accepted' \in [NRows -> Nat]
          /\ \A f \in NRows : accepted'[f] = accepted[f]
      BY <1>6, <1>2, <1>4
    <2> QED BY <1>2, <1>3, <1>6, <1>8, <2>1, <2>2, <2>3, HandStep
  <1> QED BY <1>7, <1>8 DEF recordFailure

(* The invariant of the outbox rows holds initially.                        *)
LEMMA RowsInit == NInit => RowsInv
  <1> SUFFICES ASSUME NInit PROVE RowsInv
    OBVIOUS
  <1>1. /\ nrow = [e \in NRows |-> [status |-> "ABSENT", attempts |-> 0, due |-> TRUE, stale |-> FALSE]]
        /\ inbox = {} /\ call = 0 /\ calls = 0 /\ cron = [p \in NProcesses |-> IdleCron]
        /\ accepted = [e \in NRows |-> 0] /\ nfaults = 0
    BY DEF NInit, NInitWith
  <1>2. /\ NMaxAttempts \in Nat \ {0} /\ NMaxCalls \in Nat /\ NMaxFaults \in Nat /\ NTicks \in Nat
        /\ Cardinality(NRows) \in Nat /\ Len(Fanout) \in Nat
    BY NAssumption, FS_CardinalityType DEF NAssumption
  <1>3. IdleCron \in Passes /\ IdleCron.processed = 0
        /\ \A e \in NRows : IdleCron.hand[e].pc = "none" /\ e \notin IdleCron.due /\ e \notin IdleCron.stale
    BY <1>2 DEF IdleCron, Passes, NoHand
  <1>4. \A p \in NProcesses : cron[p] = IdleCron
    BY <1>1
  <1>5. NTypeOK
    <2>1. cron \in [NProcesses -> Passes] /\ nrow \in [NRows -> NRowRecords]
      BY <1>1, <1>3 DEF NRowRecords, NStatus
    <2> QED BY <2>1, <1>1, <1>2 DEF NTypeOK, Passes, NRowRecords
  <1>6. HandsOk
    BY <1>3, <1>4 DEF HandsOk, HandOk, Working
  <1>7. PassesCount
    <2>1. \A p \in NProcesses : InHand(p) = {}
      BY <1>3, <1>4 DEF InHand
    <2>2. \A p \in NProcesses : cron[p].processed + Cardinality(InHand(p)) = 0
      BY <2>1, <1>3, <1>4, FS_EmptySet
    <2> QED BY <2>2, <1>2 DEF PassesCount
  <1>8. Budget /\ OneJobPerRow /\ RowTellsTheTruth /\ UnwrittenUntried
    BY <1>1, <1>2 DEF Budget, OneJobPerRow, RowTellsTheTruth, UnwrittenUntried
  <1> QED BY <1>5, <1>6, <1>7, <1>8 DEF RowsInv

(* The steps that only write rows or let time pass.                        *)
LEMMA WriteStep ==
    ASSUME RowsInv,
           \/ create \/ createEvent \/ createAborts \/ createInTransaction
           \/ \E e \in NRows : backoffEnds(e) \/ claimGrowsStale(e)
           \/ UNCHANGED nvars
    PROVE  RowsInv'
  <1>1. /\ NTypeOK /\ nrow \in [NRows -> NRowRecords] /\ Len(Fanout) \in Nat
        /\ \A i \in 1..Len(Fanout) : Fanout[i] \in NRows
        /\ NMaxCalls \in Nat /\ NMaxFaults \in Nat
    BY NAssumption DEF RowsInv, NTypeOK, NRowRecords, NAssumption
  <1>2. cron' = cron /\ accepted' = accepted
    BY DEF create, createEvent, createAborts, createInTransaction, backoffEnds, claimGrowsStale, nvars
  <1>3. ASSUME NEW e \in NRows, nrow' = [nrow EXCEPT ![e].status = "PENDING"], nrow[e].status = "ABSENT"
        PROVE  /\ nrow' \in [NRows -> NRowRecords]
               /\ \A f \in NRows : /\ nrow'[f].attempts = nrow[f].attempts
                                   /\ \/ nrow'[f].status = nrow[f].status
                                      \/ nrow[f].status = "ABSENT" /\ nrow'[f].status = "PENDING"
    BY <1>1, <1>3 DEF NRowRecords, NStatus, NOpen
  <1>4. CASE createEvent
    <2>1. Fanout[call] \in NRows /\ call \in 1..Len(Fanout)
      BY <1>1, <1>4 DEF createEvent, NTypeOK
    <2>2. /\ nrow' \in [NRows -> NRowRecords]
          /\ \A f \in NRows : /\ nrow'[f].attempts = nrow[f].attempts
                              /\ \/ nrow'[f].status = nrow[f].status
                                 \/ nrow[f].status = "ABSENT" /\ nrow'[f].status = "PENDING"
      <3>1. CASE nrow[Fanout[call]].status = "ABSENT"
        BY <3>1, <2>1, <1>3, <1>4 DEF createEvent, writeEvent
      <3>2. CASE nrow[Fanout[call]].status # "ABSENT"
        BY <3>2, <1>1, <1>4 DEF createEvent, writeEvent
      <3> QED BY <3>1, <3>2
    <2>3. inbox' \subseteq NRows /\ call' \in 0..Len(Fanout) /\ calls' = calls /\ nfaults' = nfaults
      BY <2>1, <1>1, <1>4 DEF createEvent, writeEvent, NTypeOK
    <2>4. NTypeOK'
      BY <2>2, <2>3, <1>1, <1>2 DEF NTypeOK, NRowRecords
    <2> QED BY <2>2, <2>4, <1>2, RowsWritten
  <1>5. CASE createInTransaction
    <2>1. PICK E \in SUBSET {e \in NRows \ Range(Fanout) : nrow[e].status = "ABSENT"} :
             /\ E # {}
             /\ inbox' = inbox \cup E
             /\ nrow' = [e \in NRows |-> IF e \in E
                           THEN [nrow[e] EXCEPT !.status = "PENDING"] ELSE nrow[e]]
             /\ UNCHANGED <<call, calls, cron, accepted, nfaults>>
      BY <1>5 DEF createInTransaction
    <2>2. ASSUME NEW e \in NRows
          PROVE  /\ nrow'[e] \in NRowRecords /\ nrow'[e].attempts = nrow[e].attempts
                 /\ \/ nrow'[e].status = nrow[e].status
                    \/ nrow[e].status = "ABSENT" /\ nrow'[e].status = "PENDING"
      <3> DEFINE x == nrow[e]
      <3>1. x \in NRowRecords
        BY <1>1
      <3>2. nrow'[e] = IF e \in E THEN [x EXCEPT !.status = "PENDING"] ELSE x
        BY <2>1
      <3>3. e \in E => x.status = "ABSENT"
        BY <2>1
      <3> HIDE DEF x
      <3>4. /\ nrow'[e] \in NRowRecords /\ nrow'[e].attempts = x.attempts
            /\ \/ nrow'[e].status = x.status
               \/ x.status = "ABSENT" /\ nrow'[e].status = "PENDING"
        BY <3>1, <3>2, <3>3 DEF NRowRecords, NStatus, NOpen
      <3> QED BY <3>4 DEF x
    <2>3. nrow' \in [NRows -> NRowRecords]
      <3>1. nrow' = [e \in NRows |-> nrow'[e]]
        BY <2>1
      <3> QED BY <3>1, <2>2
    <2>4. NTypeOK'
      BY <2>1, <2>3, <1>1 DEF NTypeOK, NRowRecords
    <2> QED BY <2>2, <2>4, <1>2, RowsWritten
  <1>6. ASSUME NEW e \in NRows, backoffEnds(e) \/ claimGrowsStale(e)
        PROVE  RowsInv'
    <2>1. /\ nrow' \in [NRows -> NRowRecords]
          /\ \A f \in NRows : nrow'[f].attempts = nrow[f].attempts /\ nrow'[f].status = nrow[f].status
      <3>1. CASE backoffEnds(e)
        BY <3>1, <1>1 DEF backoffEnds, NRowRecords
      <3>2. CASE claimGrowsStale(e)
        BY <3>2, <1>1 DEF claimGrowsStale, NRowRecords
      <3> QED BY <3>1, <3>2, <1>6
    <2>2. NTypeOK'
      BY <2>1, <1>1, <1>6 DEF NTypeOK, NRowRecords, backoffEnds, claimGrowsStale
    <2> QED BY <2>1, <2>2, <1>2, RowsWritten
  <1>7. CASE create \/ createAborts \/ UNCHANGED nvars
    <2>1. nrow' = nrow /\ inbox' = inbox /\ call' \in 0..Len(Fanout) /\ calls' \in 0..NMaxCalls
          /\ nfaults' \in 0..NMaxFaults
      <3>1. CASE create
        <4>1. Fanout # <<>> => Len(Fanout) > 0
          BY NAssumption DEF NAssumption
        <4> QED BY <4>1, <3>1, <1>1 DEF create, NTypeOK
      <3>2. CASE createAborts
        BY <3>2, <1>1 DEF createAborts, NFault, NTypeOK
      <3>3. CASE UNCHANGED nvars
        BY <3>3, <1>1 DEF nvars, NTypeOK
      <3> QED BY <3>1, <3>2, <3>3, <1>7
    <2>2. NTypeOK'
      BY <2>1, <1>1, <1>2 DEF NTypeOK
    <2> QED BY <2>1, <2>2, <1>2, RowsWritten
  <1> QED BY <1>4, <1>5, <1>6, <1>7

(* Every step preserves the invariant of the outbox rows.                   *)
LEMMA RowsNext == RowsInv /\ [NNext]_nvars => RowsInv'
  <1> SUFFICES ASSUME RowsInv, [NNext]_nvars PROVE RowsInv'
    OBVIOUS
  <1>1. nfaults \in 0..NMaxFaults /\ NMaxFaults \in Nat
    BY NAssumption DEF RowsInv, NTypeOK, NAssumption
  <1>2. ASSUME NEW p \in NProcesses, cronEnds(p) \/ NCrash(p) PROVE RowsInv'
    <2>1. /\ cron' = [cron EXCEPT ![p] = IdleCron]
          /\ nrow' = nrow /\ accepted' = accepted /\ inbox' = inbox /\ call' = call /\ calls' = calls
          /\ nfaults' \in 0..NMaxFaults
      BY <1>1, <1>2 DEF cronEnds, NCrash, NFault
    <2> QED BY <2>1, PassEnds
  <1>3. ASSUME NEW p \in NProcesses, NEW e \in NRows, processEvent(p, e) PROVE RowsInv'
    BY <1>3, ClaimStep, EnqueueStep, MarkStep, FailureStep DEF processEvent
  <1>4. ASSUME NEW p \in NProcesses, NStep(p) \/ NCrash(p) PROVE RowsInv'
    BY <1>2, <1>3, <1>4, QueryStep DEF NStep
  <1>5. CASE NNext
    BY <1>4, <1>5, WriteStep DEF NNext
  <1>6. CASE UNCHANGED nvars
    BY <1>6, WriteStep
  <1> QED BY <1>5, <1>6

(***************************************************************************)
(* However many processes poll the outbox and however long their claims    *)
(* outlive them, a row has at most one job, says DISPATCHED only for a job *)
(* that was accepted, is given up only for a cause, and makes at most      *)
(* maxAttempts attempts and one for every other process (RowsSound;        *)
(* processPendingEvents, claimEvent, markDispatched, the catch block of    *)
(* processEvent, resolveFailureStatus).                                    *)
(***************************************************************************)
THEOREM RowsStaySound == NSpec => []RowsSound
  <1>1. NInit => RowsInv
    BY RowsInit
  <1>2. RowsInv /\ [NNext]_nvars => RowsInv'
    BY RowsNext
  <1>3. RowsInv => RowsSound
    <2> SUFFICES ASSUME RowsInv PROVE RetriesBounded
      BY DEF RowsInv, RowsSound
    <2> SUFFICES ASSUME NEW e \in NRows
                 PROVE  nrow[e].attempts <= NMaxAttempts + Cardinality(NProcesses) - 1
      BY DEF RetriesBounded
    <2>1. /\ nrow[e].attempts \in Nat /\ NMaxAttempts \in Nat /\ Cardinality(NProcesses) \in Nat
          /\ Cardinality(LowHands(e)) \in Nat
      BY RowTypes, HandSets DEF RowsInv
    <2>2. (IF nrow[e].status \in NOpen THEN 1 ELSE 0) \in {0, 1}
      OBVIOUS
    <2>3. CASE nrow[e].attempts >= NMaxAttempts
      BY <2>1, <2>2, <2>3 DEF RowsInv, Budget
    <2>4. CASE nrow[e].attempts < NMaxAttempts
      BY <2>1, <2>4
    <2> QED BY <2>1, <2>3, <2>4
  <1> QED BY <1>1, <1>2, <1>3, PTL DEF NSpec

-----------------------------------------------------------------------------
(* The flight alert.                                                       *)

AlertJobs == [state: {"none", "waiting", "active", "completed", "failed"}, made: 0..AlertTries,
              pc: {"claim", "create", "persist", "undo", "release"},
              claim: 0..AMaxClaims, created: Alerts]

FlightRows == [alert: Alerts, enabled: BOOLEAN, claim: 0..AMaxClaims, stale: BOOLEAN, due: BOOLEAN]

(* The jobs between their claim and their end, and those among them whose  *)
(* call still knows the alert it created.                                  *)
Claiming(x) == x.state = "active" /\ x.pc # "claim"
Creating(x) == x.state = "active" /\ x.pc \in {"persist", "undo"}

(* A claim in use was taken and is not the alert of the row.                *)
AlertJobOk(x) ==
    /\ x.state \in {"waiting", "active"} => x.made < AlertTries
    /\ Claiming(x) => x.claim \in 1..aclaims /\ frow.alert # x.claim
    /\ Creating(x) => x.created = x.claim
    /\ Creating(x) /\ x.pc = "persist" => x.created \in live

(* No two calls use the same claim.                                         *)
ClaimsDiffer ==
    \A i, j \in AJobs : i # j /\ Claiming(ajob[i]) /\ Claiming(ajob[j]) =>
        ajob[i].claim # ajob[j].claim

(* The row of the flight names an alert that is live, or none.              *)
FlightRowOk ==
    /\ frow.alert <= aclaims
    /\ ~frow.enabled => frow.alert = NoAlert
    /\ frow.enabled => frow.alert \in live

(* Nobody that still acts knows these.                                     *)
Known == {frow.alert} \cup {ajob[j].created : j \in {i \in AJobs : Creating(ajob[i])}}
Stray == live \ Known

(* Each of them is the price of a fault.                                    *)
StraysPaid == Cardinality(Stray) <= afaults

(* The inductive invariant of the alerts.                                   *)
AlertInv ==
    /\ ATypeOK /\ ClaimsDiffer /\ FlightRowOk /\ StraysPaid
    /\ \A j \in AJobs : AlertJobOk(ajob[j])

(* The fields of a flight row and of an alert job have their types.         *)
LEMMA AlertTypes ==
    ASSUME ATypeOK
    PROVE  /\ ajob \in [AJobs -> AlertJobs] /\ frow \in FlightRows
           /\ live \subseteq 1..AMaxClaims /\ IsFiniteSet(live)
           /\ aclaims \in Nat /\ afaults \in Nat /\ AMaxClaims \in Nat /\ AMaxFaults \in Nat
           /\ AlertTries \in Nat \ {0} /\ FirstJob \in AJobs
           /\ aclaims \in 0..AMaxClaims /\ afaults \in 0..AMaxFaults
           /\ frow.alert \in Nat
  <1>1. /\ ajob \in [AJobs -> AlertJobs] /\ frow \in FlightRows
        /\ live \subseteq 1..AMaxClaims /\ aclaims \in 0..AMaxClaims /\ afaults \in 0..AMaxFaults
    BY DEF ATypeOK, AlertJobs, FlightRows
  <1>2. /\ AMaxClaims \in Nat /\ AMaxFaults \in Nat /\ AlertTries \in Nat \ {0} /\ FirstJob \in AJobs
    BY AAssumption DEF AAssumption
  <1>3. IsFiniteSet(live)
    <2>1. 1 \in Int /\ AMaxClaims \in Int
      BY <1>2
    <2>2. IsFiniteSet(1..AMaxClaims)
      BY <2>1, FS_Interval
    <2> QED BY <1>1, <2>2, FS_Subset
  <1> QED BY <1>1, <1>2, <1>3 DEF FlightRows, Alerts

(* When job j becomes y, at most one alert is known to nobody any more:    *)
(* none, or k at the price of a fault.                                     *)
StrayCost(j, y, k, n) ==
    \A a \in live' : a # frow'.alert /\ (Creating(y) => a # y.created) =>
        \/ a \in live /\ a # frow.alert /\ (Creating(ajob[j]) => a # ajob[j].created)
        \/ n = 1 /\ a = k

(* A step of one job: the others keep their claims and what they created,  *)
(* and an alert nobody knows of any more costs a fault.                    *)
LEMMA AlertStep ==
    ASSUME AlertInv, NEW j \in AJobs, NEW y \in AlertJobs, ajob' = [ajob EXCEPT ![j] = y],
           frow' \in FlightRows, live' \subseteq 1..AMaxClaims,
           aclaims' \in 0..AMaxClaims, aclaims' >= aclaims, afaults' \in 0..AMaxFaults,
           Claiming(y) => \/ Claiming(ajob[j]) /\ y.claim = ajob[j].claim
                          \/ y.claim = aclaims + 1,
           AlertJobOk(y)',
           \/ frow'.alert = frow.alert
           \/ Claiming(ajob[j]) /\ frow'.alert = ajob[j].claim,
           \/ live \subseteq live'
           \/ Claiming(ajob[j]) /\ live \ {ajob[j].claim} \subseteq live',
           FlightRowOk', NEW k, NEW n \in {0, 1}, afaults' = afaults + n, StrayCost(j, y, k, n)
    PROVE  AlertInv'
  <1>1. /\ ATypeOK /\ ClaimsDiffer /\ FlightRowOk /\ StraysPaid
        /\ ajob \in [AJobs -> AlertJobs] /\ \A i \in AJobs : AlertJobOk(ajob[i])
        /\ aclaims \in Nat /\ AMaxClaims \in Nat /\ aclaims' \in Nat
        /\ \A i \in AJobs : ajob[i].claim \in Nat
    <2>1. ATypeOK
      BY DEF AlertInv
    <2>2. ajob \in [AJobs -> AlertJobs] /\ aclaims \in Nat /\ AMaxClaims \in Nat
      BY <2>1, AlertTypes
    <2> QED BY <2>1, <2>2 DEF AlertInv, AlertJobs
  <1>2. /\ ajob' \in [AJobs -> AlertJobs] /\ ajob'[j] = y
        /\ \A i \in AJobs \ {j} : ajob'[i] = ajob[i]
    BY <1>1
  <1>3. ATypeOK'
    BY <1>2 DEF ATypeOK, AlertJobs, FlightRows
  <1>4. ClaimsDiffer'
    <2> SUFFICES ASSUME NEW i \in AJobs, NEW l \in AJobs, i # l, Claiming(ajob'[i]), Claiming(ajob'[l])
                 PROVE  ajob'[i].claim # ajob'[l].claim
      BY DEF ClaimsDiffer
    <2>1. ASSUME NEW x \in AJobs, x # j, Claiming(ajob[x]), Claiming(y)
          PROVE  ajob[x].claim # y.claim
      <3>1. ajob[x].claim <= aclaims
        BY <1>1, <2>1 DEF AlertJobOk
      <3>2. Claiming(ajob[j]) => ajob[x].claim # ajob[j].claim
        BY <1>1, <2>1 DEF ClaimsDiffer
      <3> QED BY <3>1, <3>2, <2>1, <1>1
    <2>2. CASE i = j
      BY <2>2, <2>1, <1>2
    <2>3. CASE l = j
      BY <2>3, <2>1, <1>2
    <2>4. CASE i # j /\ l # j
      BY <2>4, <1>1, <1>2 DEF ClaimsDiffer
    <2> QED BY <2>2, <2>3, <2>4
  <1>5. ASSUME NEW i \in AJobs PROVE AlertJobOk(ajob[i])'
    <2>1. CASE i = j
      BY <2>1, <1>2 DEF AlertJobOk
    <2>2. CASE i # j
      <3> DEFINE x == ajob[i]
      <3>1. /\ AlertJobOk(x) /\ ajob'[i] = x /\ x.claim \in Nat
            /\ Claiming(x) /\ Claiming(ajob[j]) => x.claim # ajob[j].claim
        BY <2>2, <1>1, <1>2 DEF ClaimsDiffer
      <3>2. Creating(x) => Claiming(x)
        BY DEF Creating, Claiming
      <3> HIDE DEF x
      <3>3. Claiming(x) => x.claim \in 1..aclaims' /\ frow'.alert # x.claim
        BY <3>1, <1>1 DEF AlertJobOk
      <3>4. Creating(x) /\ x.pc = "persist" => x.created \in live'
        BY <3>1, <3>2 DEF AlertJobOk
      <3> QED BY <3>1, <3>3, <3>4 DEF AlertJobOk
    <2> QED BY <2>1, <2>2
  <1>6. StraysPaid'
    <2> DEFINE S == Stray
               T == Stray'
    <2>1. IsFiniteSet(S) /\ Cardinality(S) \in Nat /\ Cardinality(S) <= afaults /\ afaults \in Nat
      <3>1. S \subseteq live
        BY DEF Stray
      <3> QED BY <3>1, <1>1, AlertTypes, FS_Subset, FS_CardinalityType DEF StraysPaid
    <2>2. ASSUME NEW a \in T, ~(n = 1 /\ a = k) PROVE a \in S
      <3>1. a \in live' /\ a # frow'.alert /\ \A i \in AJobs : Creating(ajob'[i]) => a # ajob'[i].created
        BY DEF Stray, Known
      <3>2. Creating(y) => a # y.created
        BY <3>1, <1>2
      <3>3. a \in live /\ a # frow.alert /\ (Creating(ajob[j]) => a # ajob[j].created)
        BY <3>1, <3>2, <2>2 DEF StrayCost
      <3>4. \A i \in AJobs \ {j} : Creating(ajob[i]) => a # ajob[i].created
        BY <3>1, <1>2
      <3> QED BY <3>3, <3>4 DEF Stray, Known
    <2>3. T \subseteq S \cup {k} /\ (n = 0 => T \subseteq S)
      BY <2>2
    <2> HIDE DEF S, T
    <2>4. IsFiniteSet(S \cup {k}) /\ Cardinality(S \cup {k}) <= Cardinality(S) + 1
          /\ Cardinality(S \cup {k}) \in Nat
      <3>1. /\ IsFiniteSet(S \cup {k})
            /\ Cardinality(S \cup {k}) = IF k \in S THEN Cardinality(S) ELSE Cardinality(S) + 1
        BY <2>1, FS_AddElement
      <3> QED BY <3>1, <2>1
    <2>5. Cardinality(T) \in Nat /\ Cardinality(T) <= Cardinality(S \cup {k})
          /\ (n = 0 => Cardinality(T) <= Cardinality(S))
      BY <2>1, <2>3, <2>4, FS_Subset, FS_CardinalityType
    <2>6. Cardinality(T) <= afaults + n
      BY <2>1, <2>4, <2>5
    <2> QED BY <2>6 DEF StraysPaid, T
  <1> QED BY <1>3, <1>4, <1>5, <1>6 DEF AlertInv

(* The jobs as their steps leave them: thrown, returned, moved on.         *)
LEMMA AlertThrown ==
    ASSUME AlertInv, NEW j \in AJobs, ajob[j].state = "active", AlertThrows(j)
    PROVE  \E y \in AlertJobs : /\ ajob' = [ajob EXCEPT ![j] = y] /\ ~Claiming(y)
                                /\ y.state \in {"waiting", "failed"}
                                /\ y.state = "waiting" => y.made < AlertTries
  <1> DEFINE m == ajob[j].made + 1
             s == IF m = AlertTries THEN "failed" ELSE "waiting"
             y == [NoAlertJob EXCEPT !.made = m, !.state = s]
  <1>1. ajob[j].made \in Nat /\ ajob[j].made < AlertTries /\ AlertTries \in Nat /\ AMaxClaims \in Nat
    <2>1. AlertJobOk(ajob[j]) /\ ATypeOK
      BY DEF AlertInv
    <2>2. ajob[j].made \in 0..AlertTries
      BY <2>1, AlertTypes DEF AlertJobs
    <2> QED BY <2>1, <2>2, AlertTypes DEF AlertJobOk
  <1>2. m \in 0..AlertTries /\ s \in {"failed", "waiting"} /\ (s = "waiting" => m < AlertTries)
    BY <1>1
  <1>3. ajob' = [ajob EXCEPT ![j] = y]
    BY DEF AlertThrows
  <1> HIDE DEF m, s
  <1>4. y \in AlertJobs /\ y.state = s /\ y.made = m /\ y.pc = "claim"
    <2>1. NoAlertJob \in AlertJobs /\ NoAlertJob.pc = "claim"
      BY <1>1 DEF NoAlertJob, AlertJobs, Alerts, NoAlert
    <2> QED BY <2>1, <1>2 DEF AlertJobs
  <1> HIDE DEF y
  <1>5. ~Claiming(y)
    BY <1>4 DEF Claiming
  <1> QED BY <1>2, <1>3, <1>4, <1>5

(* The moves of an alert job give alert jobs.                               *)
LEMMA AlertMoved ==
    ASSUME NEW x \in AlertJobs
    PROVE  /\ [x EXCEPT !.state = "completed"] \in AlertJobs
           /\ [x EXCEPT !.state = "completed"].state = "completed"
           /\ [x EXCEPT !.state = "active", !.pc = "claim"] \in AlertJobs
           /\ [x EXCEPT !.state = "active", !.pc = "claim"].state = "active"
           /\ [x EXCEPT !.state = "active", !.pc = "claim"].pc = "claim"
           /\ [x EXCEPT !.state = "active", !.pc = "claim"].made = x.made
           /\ \A q \in {"undo", "release"} :
                /\ [x EXCEPT !.pc = q] \in AlertJobs /\ [x EXCEPT !.pc = q].pc = q
                /\ [x EXCEPT !.pc = q].state = x.state /\ [x EXCEPT !.pc = q].made = x.made
                /\ [x EXCEPT !.pc = q].claim = x.claim /\ [x EXCEPT !.pc = q].created = x.created
  BY DEF AlertJobs, Alerts

(* A step of a job that makes no claim and moves no alert.                 *)
LEMMA QuietStep ==
    ASSUME AlertInv, NEW j \in AJobs, NEW y \in AlertJobs, ajob' = [ajob EXCEPT ![j] = y],
           UNCHANGED <<live, aclaims, afaults>>,
           frow' \in FlightRows, frow'.alert = frow.alert, frow'.enabled = frow.enabled,
           ~Claiming(y), y.state \in {"waiting", "active"} => y.made < AlertTries,
           ~Creating(ajob[j])
    PROVE  AlertInv'
  <1>1. ATypeOK /\ FlightRowOk
    BY DEF AlertInv
  <1>2. live' \subseteq 1..AMaxClaims /\ aclaims' \in 0..AMaxClaims /\ afaults' \in 0..AMaxFaults
        /\ aclaims' >= aclaims /\ afaults' = afaults + 0 /\ live \subseteq live'
    BY <1>1, AlertTypes
  <1>3. AlertJobOk(y)'
    BY DEF AlertJobOk, Claiming, Creating
  <1>4. FlightRowOk'
    BY <1>1 DEF FlightRowOk
  <1>5. StrayCost(j, y, 0, 0)
    BY DEF StrayCost
  <1> QED BY <1>2, <1>3, <1>4, <1>5, AlertStep

(* A job that dies or gives up forgets what it created: a fault.           *)
LEMMA ThrownStep ==
    ASSUME AlertInv, NEW j \in AJobs, ajob[j].state = "active", AlertThrows(j),
           UNCHANGED <<live, aclaims>>, frow' \in FlightRows,
           frow'.alert = frow.alert, frow'.enabled = frow.enabled,
           \/ AFault
           \/ afaults' = afaults /\ ~Creating(ajob[j])
    PROVE  AlertInv'
  <1>1. ATypeOK /\ FlightRowOk
    BY DEF AlertInv
  <1>2. PICK y \in AlertJobs : /\ ajob' = [ajob EXCEPT ![j] = y] /\ ~Claiming(y)
                               /\ y.state \in {"waiting", "failed"}
                               /\ y.state = "waiting" => y.made < AlertTries
    BY AlertThrown
  <1>3. y.state \in {"waiting", "active"} => y.made < AlertTries
    BY <1>2
  <1>4. CASE afaults' = afaults /\ ~Creating(ajob[j])
    BY <1>2, <1>3, <1>4, QuietStep
  <1>5. CASE AFault
    <2>1. live' \subseteq 1..AMaxClaims /\ aclaims' \in 0..AMaxClaims /\ afaults' \in 0..AMaxFaults
          /\ aclaims' >= aclaims /\ afaults' = afaults + 1 /\ live \subseteq live'
      BY <1>1, <1>5, AlertTypes DEF AFault
    <2>2. AlertJobOk(y)'
      BY <1>2, <1>3 DEF AlertJobOk, Claiming, Creating
    <2>3. FlightRowOk'
      BY <1>1 DEF FlightRowOk
    <2>4. StrayCost(j, y, ajob[j].created, 1)
      BY DEF StrayCost
    <2> QED BY <1>2, <2>1, <2>2, <2>3, <2>4, AlertStep
  <1> QED BY <1>4, <1>5

(* The producers and the clock.                                            *)
LEMMA AlertQueuedStep ==
    ASSUME AlertInv, queueFlightAlert \/ \E j \in AJobs : reconcileMissingAlerts(j)
    PROVE  AlertInv'
  <1>1. ATypeOK /\ FirstJob \in AJobs /\ AlertTries \in Nat \ {0} /\ frow \in FlightRows
        /\ AMaxClaims \in Nat
    BY AlertTypes DEF AlertInv
  <1>2. PICK j \in AJobs : /\ ajob[j].state = "none" /\ AlertQueued(j)
                           /\ UNCHANGED <<frow, live, aclaims, afaults>>
    BY <1>1 DEF queueFlightAlert, reconcileMissingAlerts
  <1> DEFINE y == [NoAlertJob EXCEPT !.state = "waiting"]
  <1>3. y \in AlertJobs /\ y.state = "waiting" /\ y.made = 0
    <2>1. NoAlertJob \in AlertJobs /\ NoAlertJob.made = 0
      BY <1>1 DEF NoAlertJob, AlertJobs, Alerts, NoAlert
    <2> QED BY <2>1 DEF AlertJobs
  <1>4. ajob' = [ajob EXCEPT ![j] = y]
    BY <1>2 DEF AlertQueued
  <1> HIDE DEF y
  <1>5. ~Claiming(y) /\ ~Creating(ajob[j])
    BY <1>2, <1>3 DEF Claiming, Creating
  <1>6. /\ y.state \in {"waiting", "active"} => y.made < AlertTries
        /\ frow' \in FlightRows /\ frow'.alert = frow.alert /\ frow'.enabled = frow.enabled
        /\ UNCHANGED <<live, aclaims, afaults>>
    BY <1>1, <1>2, <1>3
  <1> QED BY <1>3, <1>4, <1>5, <1>6, QuietStep

(* A Tick only makes claims older.                                          *)
LEMMA AlertAges ==
    ASSUME AlertInv, claimAges \/ attemptAges \/ UNCHANGED avars
    PROVE  AlertInv'
  <1>1. ATypeOK /\ frow \in FlightRows /\ ajob \in [AJobs -> AlertJobs]
    BY AlertTypes DEF AlertInv
  <1>2. /\ frow' \in FlightRows /\ frow'.alert = frow.alert /\ frow'.enabled = frow.enabled
        /\ UNCHANGED <<ajob, live, aclaims, afaults>>
    BY <1>1 DEF claimAges, attemptAges, avars, FlightRows
  <1>3. ATypeOK'
    BY <1>1, <1>2 DEF ATypeOK, FlightRows
  <1>4. ClaimsDiffer' /\ FlightRowOk'
    BY <1>2 DEF AlertInv, ClaimsDiffer, FlightRowOk
  <1>5. ASSUME NEW j \in AJobs PROVE AlertJobOk(ajob[j])'
    BY <1>2 DEF AlertInv, AlertJobOk
  <1>6. Known' = Known
    BY <1>2 DEF Known
  <1>7. StraysPaid'
    BY <1>2, <1>6 DEF AlertInv, StraysPaid, Stray
  <1> QED BY <1>3, <1>4, <1>5, <1>7 DEF AlertInv

(* What a flight row keeps when its claim changes hands.                   *)
LEMMA FlightRowMoved ==
    ASSUME NEW r \in FlightRows
    PROVE  /\ \A c \in 0..AMaxClaims :
                /\ [r EXCEPT !.claim = c, !.stale = FALSE, !.due = FALSE] \in FlightRows
                /\ [r EXCEPT !.claim = c, !.stale = FALSE, !.due = FALSE].alert = r.alert
                /\ [r EXCEPT !.claim = c, !.stale = FALSE, !.due = FALSE].enabled = r.enabled
                /\ [r EXCEPT !.claim = c, !.stale = FALSE] \in FlightRows
                /\ [r EXCEPT !.claim = c, !.stale = FALSE].alert = r.alert
                /\ [r EXCEPT !.claim = c, !.stale = FALSE].enabled = r.enabled
           /\ \A a \in Alerts, c \in 0..AMaxClaims :
                /\ [r EXCEPT !.alert = a, !.enabled = TRUE, !.claim = c, !.stale = FALSE] \in FlightRows
                /\ [r EXCEPT !.alert = a, !.enabled = TRUE, !.claim = c, !.stale = FALSE].alert = a
                /\ [r EXCEPT !.alert = a, !.enabled = TRUE, !.claim = c, !.stale = FALSE].enabled
  BY DEF FlightRows

(* A job of an alert: started, and its claim under the advisory lock.      *)
LEMMA AlertStarts ==
    ASSUME AlertInv, NEW j \in AJobs, processAlertJob(j)
    PROVE  AlertInv'
  <1>1. ATypeOK /\ frow \in FlightRows /\ ajob[j] \in AlertJobs /\ AlertJobOk(ajob[j])
    BY AlertTypes DEF AlertInv
  <1> DEFINE x == ajob[j]
             y == [x EXCEPT !.state = "active", !.pc = "claim"]
  <1>2. y \in AlertJobs /\ y.state = "active" /\ y.pc = "claim" /\ y.made = x.made
    BY <1>1, AlertMoved
  <1>3. ajob' = [ajob EXCEPT ![j] = y] /\ UNCHANGED <<frow, live, aclaims, afaults>> /\ x.state = "waiting"
    BY DEF processAlertJob
  <1> HIDE DEF x, y
  <1>4. ~Claiming(y) /\ ~Creating(x)
    BY <1>2, <1>3 DEF Claiming, Creating
  <1>5. y.state \in {"waiting", "active"} => y.made < AlertTries
    BY <1>1, <1>2, <1>3 DEF AlertJobOk, x
  <1> QED BY <1>1, <1>2, <1>3, <1>4, <1>5, QuietStep DEF x

(* claimFlightAlert takes a claim that differs from every claim in use.     *)
LEMMA AlertClaims ==
    ASSUME AlertInv, NEW j \in AJobs, claimFlightAlert(j)
    PROVE  AlertInv'
  <1>1. /\ ATypeOK /\ FlightRowOk /\ frow \in FlightRows /\ ajob[j] \in AlertJobs /\ AlertJobOk(ajob[j])
        /\ live \subseteq 1..AMaxClaims /\ aclaims \in Nat /\ AMaxClaims \in Nat /\ frow.alert \in Nat
        /\ afaults \in 0..AMaxFaults /\ AMaxFaults \in Nat /\ NoAlert = 0
    BY AlertTypes DEF AlertInv, NoAlert
  <1>2. ajob[j].state = "active" /\ ajob[j].pc = "claim" /\ live' = live /\ afaults' = afaults
    BY DEF claimFlightAlert, AlertCall
  <1>3. ~Claiming(ajob[j]) /\ ~Creating(ajob[j])
    BY <1>2 DEF Claiming, Creating
  <1>4. CASE AlertReturns(j) /\ UNCHANGED <<frow, aclaims>>
    <2> DEFINE y == [ajob[j] EXCEPT !.state = "completed"]
    <2>1. y \in AlertJobs /\ y.state = "completed" /\ ajob' = [ajob EXCEPT ![j] = y]
      BY <1>1, <1>4, AlertMoved DEF AlertReturns
    <2> HIDE DEF y
    <2>2. ~Claiming(y)
      BY <2>1 DEF Claiming
    <2> QED BY <1>1, <1>2, <1>3, <1>4, <2>1, <2>2, QuietStep
  <1>5. CASE AlertThrows(j) /\ UNCHANGED <<frow, aclaims>>
    BY <1>1, <1>2, <1>3, <1>5, ThrownStep
  <1>6. CASE /\ ~frow.enabled /\ aclaims < AMaxClaims /\ aclaims' = aclaims + 1
             /\ frow' = [frow EXCEPT !.claim = aclaims + 1, !.stale = FALSE, !.due = FALSE]
             /\ ajob' = [ajob EXCEPT ![j] = [ajob[j] EXCEPT !.pc = "create", !.claim = aclaims + 1]]
    <2> DEFINE c == aclaims + 1
               r == [frow EXCEPT !.claim = c, !.stale = FALSE, !.due = FALSE]
    <2>9. PICK y : y = [ajob[j] EXCEPT !.pc = "create", !.claim = c]
      OBVIOUS
    <2>1. c \in 0..AMaxClaims /\ c \in 1..c /\ frow.alert # c /\ c >= aclaims
      BY <1>1, <1>6 DEF FlightRowOk
    <2>2. frow' = r /\ ajob' = [ajob EXCEPT ![j] = y] /\ aclaims' = c
      BY <1>6, <2>9
    <2> HIDE DEF c
    <2>3. /\ y \in AlertJobs /\ y.pc = "create" /\ y.claim = c
          /\ y.made = ajob[j].made /\ y.state = ajob[j].state
      <3> DEFINE x == ajob[j]
      <3>1. x \in AlertJobs /\ y = [x EXCEPT !.pc = "create", !.claim = c]
        BY <1>1, <2>9
      <3> HIDE DEF x
      <3>2. /\ y \in AlertJobs /\ y.pc = "create" /\ y.claim = c
            /\ y.made = x.made /\ y.state = x.state
        BY <3>1, <2>1 DEF AlertJobs
      <3> QED BY <3>2 DEF x
    <2>4. r \in FlightRows /\ r.alert = frow.alert /\ r.enabled = frow.enabled
      BY <1>1, <2>1, FlightRowMoved
    <2> HIDE DEF r
    <2>5. AlertJobOk(y)'
      <3>1. ~Creating(y) /\ y.made < AlertTries
        BY <2>3, <1>1, <1>2 DEF Creating, AlertJobOk
      <3>2. y.claim \in 1..aclaims' /\ frow'.alert # y.claim
        BY <2>1, <2>2, <2>3, <2>4
      <3> QED BY <3>1, <3>2 DEF AlertJobOk
    <2>6. FlightRowOk'
      BY <2>1, <2>2, <2>4, <1>1, <1>2 DEF FlightRowOk
    <2>7. StrayCost(j, y, 0, 0)
      BY <1>2, <1>3, <2>2, <2>4 DEF StrayCost
    <2>8. y.claim = aclaims + 1 /\ afaults' = afaults + 0 /\ frow' \in FlightRows
          /\ frow'.alert = frow.alert /\ aclaims' \in 0..AMaxClaims /\ aclaims' >= aclaims
          /\ live' \subseteq 1..AMaxClaims /\ live \subseteq live' /\ afaults' \in 0..AMaxFaults
          /\ y \in AlertJobs /\ ajob' = [ajob EXCEPT ![j] = y]
      BY <1>1, <1>2, <2>1, <2>2, <2>3, <2>4 DEF c
    <2> QED BY <2>5, <2>6, <2>7, <2>8, AlertStep
  <1> QED BY <1>4, <1>5, <1>6 DEF claimFlightAlert

(* POST /alerts: the call knows the alert it created, unless its answer is *)
(* lost.                                                                   *)
LEMMA AlertCreates ==
    ASSUME AlertInv, NEW j \in AJobs, createFlightAlert(j)
    PROVE  AlertInv'
  <1>1. /\ ATypeOK /\ FlightRowOk /\ frow \in FlightRows /\ ajob[j] \in AlertJobs /\ AlertJobOk(ajob[j])
        /\ live \subseteq 1..AMaxClaims /\ aclaims \in Nat /\ AMaxClaims \in Nat
        /\ aclaims \in 0..AMaxClaims /\ afaults \in 0..AMaxFaults /\ AMaxFaults \in Nat
    BY AlertTypes DEF AlertInv
  <1>2. /\ ajob[j].state = "active" /\ ajob[j].pc = "create" /\ frow' = frow /\ aclaims' = aclaims
        /\ Claiming(ajob[j]) /\ ~Creating(ajob[j])
    BY DEF createFlightAlert, AlertCall, Claiming, Creating
  <1>3. /\ ajob[j].claim \in 1..aclaims /\ frow.alert # ajob[j].claim /\ ajob[j].made < AlertTries
        /\ ajob[j].claim \in 1..AMaxClaims /\ ajob[j].claim \in Alerts
    BY <1>1, <1>2 DEF AlertJobOk, Alerts
  <1> DEFINE x == ajob[j]
  <1>4. FlightRowOk /\ (live \subseteq live' => FlightRowOk')
    BY <1>1, <1>2 DEF FlightRowOk
  <1>5. CASE /\ live' = live \cup {x.claim}
             /\ ajob' = [ajob EXCEPT ![j] = [x EXCEPT !.pc = "persist", !.created = x.claim]]
             /\ afaults' = afaults
    <2>1. PICK y : y = [x EXCEPT !.pc = "persist", !.created = x.claim]
      OBVIOUS
    <2> HIDE DEF x
    <2>2. /\ y \in AlertJobs /\ y.pc = "persist" /\ y.created = x.claim /\ y.claim = x.claim
          /\ y.made = x.made /\ y.state = x.state
      BY <1>1, <1>3, <2>1 DEF AlertJobs, x
    <2>3. /\ ajob' = [ajob EXCEPT ![j] = y] /\ live' \subseteq 1..AMaxClaims /\ live \subseteq live'
          /\ frow' \in FlightRows /\ frow'.alert = frow.alert
          /\ aclaims' \in 0..AMaxClaims /\ aclaims' >= aclaims /\ afaults' \in 0..AMaxFaults
          /\ afaults' = afaults + 0
          /\ Claiming(ajob[j]) /\ y.claim = ajob[j].claim
      BY <1>1, <1>2, <1>3, <1>5, <2>1, <2>2 DEF x
    <2>4. AlertJobOk(y)'
      <3>1. /\ y.made < AlertTries /\ y.claim \in 1..aclaims' /\ frow'.alert # y.claim
            /\ y.created = y.claim /\ y.created \in live'
        BY <1>2, <1>3, <1>5, <2>2 DEF x
      <3> QED BY <3>1 DEF AlertJobOk
    <2>5. StrayCost(j, y, 0, 0)
      <3>1. Creating(y)
        BY <2>2, <1>2 DEF Creating, x
      <3> QED BY <3>1, <2>2, <1>2, <1>5 DEF StrayCost
    <2> QED BY <1>4, <2>2, <2>3, <2>4, <2>5, AlertStep
  <1>6. CASE /\ AFault /\ live' \in {live, live \cup {x.claim}}
             /\ ajob' = [ajob EXCEPT ![j] = [x EXCEPT !.pc = "release"]]
    <2>1. PICK y : y = [x EXCEPT !.pc = "release"]
      OBVIOUS
    <2> HIDE DEF x
    <2>2. /\ y \in AlertJobs /\ y.pc = "release" /\ y.claim = x.claim
          /\ y.made = x.made /\ y.state = x.state
      BY <1>1, <2>1, AlertMoved DEF x
    <2>3. /\ ajob' = [ajob EXCEPT ![j] = y] /\ live' \subseteq 1..AMaxClaims /\ live \subseteq live'
          /\ frow' \in FlightRows /\ frow'.alert = frow.alert
          /\ aclaims' \in 0..AMaxClaims /\ aclaims' >= aclaims /\ afaults' \in 0..AMaxFaults
          /\ afaults' = afaults + 1
          /\ Claiming(ajob[j]) /\ y.claim = ajob[j].claim
      BY <1>1, <1>2, <1>3, <1>6, <2>1, <2>2 DEF x, AFault
    <2>4. AlertJobOk(y)'
      <3>1. y.made < AlertTries /\ y.claim \in 1..aclaims' /\ frow'.alert # y.claim /\ ~Creating(y)
        BY <1>2, <1>3, <2>2 DEF x, Creating
      <3> QED BY <3>1 DEF AlertJobOk
    <2>5. StrayCost(j, y, x.claim, 1)
      BY <1>2, <1>6 DEF StrayCost, x
    <2> QED BY <1>4, <2>2, <2>3, <2>4, <2>5, AlertStep
  <1> QED BY <1>5, <1>6 DEF createFlightAlert

(* The row takes the alert of the call that still has its claim; any other *)
(* call goes to remove what it created.                                    *)
LEMMA AlertPersists ==
    ASSUME AlertInv, NEW j \in AJobs, persistFlightAlert(j)
    PROVE  AlertInv'
  <1>1. /\ ATypeOK /\ FlightRowOk /\ frow \in FlightRows /\ ajob[j] \in AlertJobs /\ AlertJobOk(ajob[j])
        /\ live \subseteq 1..AMaxClaims /\ aclaims \in Nat /\ AMaxClaims \in Nat
        /\ aclaims \in 0..AMaxClaims /\ afaults \in 0..AMaxFaults /\ AMaxFaults \in Nat /\ NoAlert = 0
    BY AlertTypes DEF AlertInv, NoAlert
  <1>2. /\ ajob[j].state = "active" /\ ajob[j].pc = "persist" /\ live' = live /\ aclaims' = aclaims
        /\ Claiming(ajob[j]) /\ Creating(ajob[j])
    BY DEF persistFlightAlert, AlertCall, Claiming, Creating
  <1>3. /\ ajob[j].claim \in 1..aclaims /\ frow.alert # ajob[j].claim /\ ajob[j].made < AlertTries
        /\ ajob[j].created = ajob[j].claim /\ ajob[j].created \in live
    BY <1>1, <1>2 DEF AlertJobOk
  <1> DEFINE x == ajob[j]
  <1>4. CASE /\ ClaimKept(j) /\ afaults' = afaults /\ AlertReturns(j)
             /\ frow' = [frow EXCEPT !.alert = x.created, !.enabled = TRUE, !.claim = 0, !.stale = FALSE]
    <2>1. PICK y : y = [x EXCEPT !.state = "completed"]
      OBVIOUS
    <2>2. y \in AlertJobs /\ y.state = "completed"
      BY <1>1, <2>1, AlertMoved
    <2>3. frow' \in FlightRows /\ frow'.alert = x.created /\ frow'.enabled
      <3>1. x.created \in Alerts /\ 0 \in 0..AMaxClaims
        BY <1>1 DEF AlertJobs
      <3> HIDE DEF x
      <3> QED BY <3>1, <1>1, <1>4 DEF FlightRows
    <2>4. /\ ajob' = [ajob EXCEPT ![j] = y] /\ live' \subseteq 1..AMaxClaims /\ live \subseteq live'
          /\ Claiming(ajob[j]) /\ frow'.alert = ajob[j].claim
          /\ aclaims' \in 0..AMaxClaims /\ aclaims' >= aclaims /\ afaults' \in 0..AMaxFaults
          /\ afaults' = afaults + 0
      BY <1>1, <1>2, <1>3, <1>4, <2>1, <2>3 DEF AlertReturns
    <2>5. ~Claiming(y) /\ ~Creating(y)
      BY <2>2 DEF Claiming, Creating
    <2>6. AlertJobOk(y)'
      BY <2>2, <2>5 DEF AlertJobOk
    <2>7. FlightRowOk'
      BY <2>3, <1>2, <1>3 DEF FlightRowOk
    <2>8. StrayCost(j, y, 0, 0)
      <3>1. frow.alert \notin live
        BY <1>1, <1>4 DEF FlightRowOk, ClaimKept
      <3> QED BY <3>1, <2>3, <1>2 DEF StrayCost
    <2> QED BY <2>2, <2>3, <2>4, <2>5, <2>6, <2>7, <2>8, AlertStep
  <1>5. CASE /\ frow' = frow /\ ajob' = [ajob EXCEPT ![j] = [x EXCEPT !.pc = "undo"]]
             /\ afaults' = afaults \/ AFault
    <2>1. PICK y : y = [x EXCEPT !.pc = "undo"]
      OBVIOUS
    <2> HIDE DEF x
    <2>2. /\ y \in AlertJobs /\ y.pc = "undo" /\ y.claim = x.claim /\ y.created = x.created
          /\ y.made = x.made /\ y.state = x.state
      BY <1>1, <2>1, AlertMoved DEF x
    <2>3. /\ ajob' = [ajob EXCEPT ![j] = y] /\ live' \subseteq 1..AMaxClaims /\ live \subseteq live'
          /\ frow' \in FlightRows /\ frow'.alert = frow.alert
          /\ aclaims' \in 0..AMaxClaims /\ aclaims' >= aclaims /\ afaults' \in 0..AMaxFaults
          /\ Claiming(ajob[j]) /\ y.claim = ajob[j].claim
      BY <1>1, <1>2, <1>3, <1>5, <2>1, <2>2 DEF x, AFault
    <2>4. AlertJobOk(y)'
      <3>1. y.made < AlertTries /\ y.claim \in 1..aclaims' /\ frow'.alert # y.claim
            /\ y.created = y.claim /\ y.pc # "persist"
        BY <1>2, <1>3, <1>5, <2>2 DEF x
      <3> QED BY <3>1 DEF AlertJobOk
    <2>5. FlightRowOk'
      BY <1>1, <1>2, <1>5 DEF FlightRowOk
    <2>6. Creating(y) /\ y.created = ajob[j].created
      BY <1>2, <2>2 DEF Creating, x
    <2>7. StrayCost(j, y, 0, 0) /\ StrayCost(j, y, 0, 1)
      BY <1>2, <1>5, <2>6 DEF StrayCost
    <2>8. PICK n \in {0, 1} : afaults' = afaults + n
      BY <1>1, <1>5 DEF AFault
    <2>9. StrayCost(j, y, 0, n)
      BY <2>7, <2>8
    <2> QED BY <2>2, <2>3, <2>4, <2>5, <2>8, <2>9, AlertStep
  <1> QED BY <1>4, <1>5 DEF persistFlightAlert

(* The removal of what was created: of that alert only.                    *)
LEMMA AlertRemoves ==
    ASSUME AlertInv, NEW j \in AJobs, disableFlightAlert(j)
    PROVE  AlertInv'
  <1>1. /\ ATypeOK /\ FlightRowOk /\ frow \in FlightRows /\ ajob[j] \in AlertJobs /\ AlertJobOk(ajob[j])
        /\ live \subseteq 1..AMaxClaims /\ aclaims \in Nat /\ AMaxClaims \in Nat
        /\ aclaims \in 0..AMaxClaims /\ afaults \in 0..AMaxFaults /\ AMaxFaults \in Nat
    BY AlertTypes DEF AlertInv
  <1>2. /\ ajob[j].state = "active" /\ ajob[j].pc = "undo" /\ frow' = frow /\ aclaims' = aclaims
        /\ Claiming(ajob[j]) /\ Creating(ajob[j])
    BY DEF disableFlightAlert, AlertCall, Claiming, Creating
  <1>3. /\ ajob[j].claim \in 1..aclaims /\ frow.alert # ajob[j].claim /\ ajob[j].made < AlertTries
        /\ ajob[j].created = ajob[j].claim
    BY <1>1, <1>2 DEF AlertJobOk
  <1> DEFINE x == ajob[j]
  <1>4. /\ ajob' = [ajob EXCEPT ![j] = [x EXCEPT !.pc = "release"]]
        /\ \/ live' = live \ {x.created} /\ afaults' = afaults
           \/ AFault /\ live' = live
    BY DEF disableFlightAlert, Removed
  <1>5. PICK y : y = [x EXCEPT !.pc = "release"]
    OBVIOUS
  <1> HIDE DEF x
  <1>6. /\ y \in AlertJobs /\ y.pc = "release" /\ y.claim = x.claim /\ y.created = x.created
        /\ y.made = x.made /\ y.state = x.state
    BY <1>1, <1>5, AlertMoved DEF x
  <1>7. /\ ajob' = [ajob EXCEPT ![j] = y] /\ live' \subseteq 1..AMaxClaims
        /\ live \ {ajob[j].claim} \subseteq live'
        /\ frow' \in FlightRows /\ frow'.alert = frow.alert
        /\ aclaims' \in 0..AMaxClaims /\ aclaims' >= aclaims /\ afaults' \in 0..AMaxFaults
        /\ Claiming(ajob[j]) /\ y.claim = ajob[j].claim
    BY <1>1, <1>2, <1>3, <1>4, <1>5, <1>6 DEF x, AFault
  <1>8. AlertJobOk(y)'
    <2>1. y.made < AlertTries /\ y.claim \in 1..aclaims' /\ frow'.alert # y.claim /\ ~Creating(y)
      BY <1>2, <1>3, <1>6 DEF x, Creating
    <2> QED BY <2>1 DEF AlertJobOk
  <1>9. FlightRowOk'
    BY <1>1, <1>2, <1>3, <1>4 DEF FlightRowOk, x
  <1>10. CASE live' = live \ {x.created} /\ afaults' = afaults
    <2>1. StrayCost(j, y, 0, 0) /\ afaults' = afaults + 0
      BY <1>1, <1>2, <1>10 DEF StrayCost, x
    <2> QED BY <2>1, <1>6, <1>7, <1>8, <1>9, AlertStep
  <1>11. CASE AFault /\ live' = live
    <2>1. StrayCost(j, y, x.created, 1) /\ afaults' = afaults + 1
      BY <1>2, <1>11 DEF StrayCost, AFault, x
    <2> QED BY <2>1, <1>6, <1>7, <1>8, <1>9, AlertStep
  <1> QED BY <1>4, <1>10, <1>11

(* The claim given back, or lost with its worker.                          *)
LEMMA AlertReleases ==
    ASSUME AlertInv, NEW j \in AJobs, releaseFlightAlertClaim(j) \/ ACrash(j)
    PROVE  AlertInv'
  <1>1. ATypeOK /\ frow \in FlightRows /\ 0 \in 0..AMaxClaims
    BY AlertTypes DEF AlertInv
  <1>2. CASE ACrash(j)
    BY <1>1, <1>2, ThrownStep DEF ACrash
  <1>3. CASE releaseFlightAlertClaim(j)
    <2>1. /\ ajob[j].state = "active" /\ AlertThrows(j) /\ UNCHANGED <<live, aclaims>>
          /\ ~Creating(ajob[j]) /\ (afaults' = afaults \/ AFault)
      BY <1>3 DEF releaseFlightAlertClaim, AlertCall, Creating
    <2>2. frow' \in FlightRows /\ frow'.alert = frow.alert /\ frow'.enabled = frow.enabled
      <3>1. frow' = [frow EXCEPT !.claim = 0, !.stale = FALSE] \/ frow' = frow
        BY <1>3 DEF releaseFlightAlertClaim
      <3> QED BY <3>1, <1>1 DEF FlightRows
    <2> QED BY <2>1, <2>2, ThrownStep
  <1> QED BY <1>2, <1>3

(* The invariant of the alerts holds initially.                             *)
LEMMA AlertInit == AInit => AlertInv
  <1> SUFFICES ASSUME AInit PROVE AlertInv
    OBVIOUS
  <1>1. /\ AMaxClaims \in Nat /\ AMaxFaults \in Nat /\ AlertTries \in Nat \ {0}
    BY AAssumption DEF AAssumption
  <1>2. /\ frow = [alert |-> 0, enabled |-> FALSE, claim |-> 0, stale |-> FALSE, due |-> TRUE]
        /\ \A j \in AJobs : ajob[j] = NoAlertJob /\ ajob[j].state = "none"
        /\ ajob = [j \in AJobs |-> NoAlertJob]
        /\ live = {} /\ aclaims = 0 /\ afaults = 0
    BY DEF AInit, NoAlertJob, NoAlert
  <1>3. NoAlertJob \in AlertJobs
    BY <1>1 DEF NoAlertJob, AlertJobs, Alerts, NoAlert
  <1>4. ATypeOK
    <2>1. ajob \in [AJobs -> AlertJobs] /\ frow \in FlightRows
      BY <1>1, <1>2, <1>3 DEF FlightRows, Alerts
    <2> QED BY <2>1, <1>1, <1>2 DEF ATypeOK, AlertJobs, FlightRows
  <1>5. \A j \in AJobs : ~Claiming(ajob[j]) /\ AlertJobOk(ajob[j])
    BY <1>2 DEF Claiming, Creating, AlertJobOk
  <1>6. ClaimsDiffer /\ FlightRowOk
    BY <1>2, <1>5 DEF ClaimsDiffer, FlightRowOk, NoAlert
  <1>7. Stray = {}
    BY <1>2 DEF Stray
  <1>8. StraysPaid
    BY <1>2, <1>7, FS_EmptySet DEF StraysPaid
  <1> QED BY <1>4, <1>5, <1>6, <1>8 DEF AlertInv

(***************************************************************************)
(* However many jobs provision the alert of a flight at once, the alert    *)
(* the row names exists at FlightAware, and every other one is removed     *)
(* except one for each failed call or crash (AlertsSound;                  *)
(* getOrCreateFlightAlert, persistFlightAlert, disableFlightAlert).        *)
(***************************************************************************)
THEOREM AlertsStaySound == ASpec => []AlertsSound
  <1>1. AInit => AlertInv
    BY AlertInit
  <1>2. AlertInv /\ [ANext]_avars => AlertInv'
    BY AlertQueuedStep, AlertAges, AlertStarts, AlertClaims, AlertCreates, AlertPersists,
       AlertRemoves, AlertReleases DEF ANext, getOrCreateFlightAlert
  <1>3. AlertInv => AlertsSound
    <2> SUFFICES ASSUME AlertInv PROVE AlertsSound
      OBVIOUS
    <2>1. ATypeOK /\ EnabledAlertExists
      BY DEF AlertInv, FlightRowOk, EnabledAlertExists
    <2>2. NoStrayAlerts
      <3> DEFINE N == live \ ({frow.alert} \cup {ajob[j].created : j \in AJobs})
                 S == Stray
      <3>1. N \subseteq S /\ S \subseteq live
        BY DEF Stray, Known
      <3>2. IsFiniteSet(S) /\ Cardinality(S) \in Nat /\ Cardinality(S) <= afaults /\ afaults \in Nat
        BY <2>1, <3>1, AlertTypes, FS_Subset, FS_CardinalityType DEF AlertInv, StraysPaid
      <3> HIDE DEF N, S
      <3>3. Cardinality(N) \in Nat /\ Cardinality(N) <= Cardinality(S)
        BY <3>1, <3>2, FS_Subset, FS_CardinalityType
      <3> QED BY <3>2, <3>3 DEF NoStrayAlerts, N
    <2> QED BY <2>1, <2>2 DEF AlertsSound
  <1> QED BY <1>1, <1>2, <1>3, PTL DEF ASpec

-----------------------------------------------------------------------------
(* The replies of the booking agent.                                       *)

ReplyRows == [status: {"none", "PENDING", "PROCESSING", "SENT", "FAILED", "DEAD_LETTER"},
              attempts: 0..OMaxAttempts, next: Nat, sid: BOOLEAN]

SendJobs == [state: {"none", "waiting", "active", "completed", "failed"},
             tries: 0..OMaxAttempts, due: Nat, stalled: BOOLEAN,
             pc: {"idle", "claim", "send", "sent", "failing"}, claimTime: Nat]

ReplyTypes ==
    /\ orow \in ReplyRows /\ ojob \in SendJobs
    /\ enq \in [pc: {"idle", "add", "ok", "threw"}, count: Nat]
    /\ clockO \in Nat /\ onWire \in Nat

(* What the row of a reply tells of its attempts and of the wire.           *)
ReplyRowOk ==
    /\ (orow.status = "SENT") <=> orow.sid
    /\ orow.status \in {"none", "PENDING"} => orow.attempts = 0
    /\ orow.status = "FAILED" => orow.attempts < OMaxAttempts
    /\ orow.sid => onWire > 0
    /\ onWire > 0 => Sendable

(* A job has a row, and a row its job once the call that wrote it returned. *)
EnqueueOk ==
    /\ enq.pc = "add" => orow.status = "PENDING" /\ ojob.state = "none"
    /\ ojob.state # "none" => orow.status # "none"
    /\ orow.status # "none" /\ enq.pc # "add" /\ "orphan" \notin lost => ojob.state # "none"
    /\ enq.pc = "ok" => orow.status # "none"

(* The waiting time of the queue covers the one of the row, because the    *)
(* row has made no more attempts than the job.                             *)
SendJobOk ==
    /\ (ojob.state = "active") <=> (ojob.pc # "idle")
    /\ ojob.state = "waiting" => ojob.tries < OMaxAttempts
    /\ ojob.state = "active" => ojob.tries > 0
    /\ ojob.pc \in {"send", "sent", "failing"} =>
          /\ orow.status = "PROCESSING" /\ ojob.claimTime <= clockO
          /\ orow.attempts > 0 /\ orow.attempts <= ojob.tries
    /\ ojob.state = "waiting" /\ orow.status = "FAILED" =>
          orow.next <= ojob.due /\ orow.attempts <= ojob.tries
    /\ ojob.pc = "claim" /\ orow.status = "FAILED" =>
          orow.next <= clockO /\ orow.attempts < ojob.tries

(* Without a failure of the database or the process the row and the job    *)
(* count alike, and a job that is not over has a row to send.              *)
Unbroken == lost \cap {"database", "mark"} = {}

CountsAgree == Unbroken =>
    /\ ojob.state = "waiting" => orow.status \in {"PENDING", "FAILED"} /\ orow.attempts = ojob.tries
    /\ ojob.pc = "claim" => orow.status \in {"PENDING", "FAILED"} /\ orow.attempts + 1 = ojob.tries
    /\ ojob.pc \in {"send", "sent", "failing"} => orow.attempts = ojob.tries
    /\ ojob.state \in {"completed", "failed"} => orow.status \in {"SENT", "DEAD_LETTER"}

(* A reply is on the wire once unless the write that records it failed.     *)
WireOk ==
    /\ ojob.pc = "sent" => onWire > 0
    /\ "mark" \notin lost => onWire = IF ojob.pc = "sent" \/ orow.status = "SENT" THEN 1 ELSE 0

(* The inductive invariant of the replies.                                  *)
ReplyInv == ReplyTypes /\ ReplyRowOk /\ EnqueueOk /\ SendJobOk /\ CountsAgree /\ WireOk

(* Waiting times are numbers and grow with the attempts: 2^a is the number *)
(* of subsets of a set of a elements.                                      *)
LEMMA PowerGrows ==
    ASSUME NEW a \in Nat, NEW b \in Nat, a <= b
    PROVE  2^a \in Nat /\ 2^a <= 2^b
  <1>1. IsFiniteSet(1..a) /\ IsFiniteSet(1..b) /\ Cardinality(1..a) = a /\ Cardinality(1..b) = b
    BY FS_Interval
  <1>2. /\ IsFiniteSet(SUBSET (1..a)) /\ IsFiniteSet(SUBSET (1..b))
        /\ Cardinality(SUBSET (1..a)) = 2^a /\ Cardinality(SUBSET (1..b)) = 2^b
    BY <1>1, FS_SUBSET
  <1>3. SUBSET (1..a) \subseteq SUBSET (1..b)
    <2>1. 1..a \subseteq 1..b
      OBVIOUS
    <2> QED BY <2>1
  <1>4. Cardinality(SUBSET (1..a)) <= Cardinality(SUBSET (1..b))
    BY <1>2, <1>3, FS_Subset
  <1>5. Cardinality(SUBSET (1..a)) \in Nat
    BY <1>2, FS_CardinalityType
  <1> QED BY <1>2, <1>4, <1>5

(* The fields of a reply row and of its job have their types.               *)
LEMMA ReplyTyped ==
    ASSUME ReplyTypes
    PROVE  /\ OMaxAttempts \in Nat \ {0}
           /\ orow.attempts \in Nat /\ orow.attempts <= OMaxAttempts /\ orow.next \in Nat
           /\ orow.sid \in BOOLEAN
           /\ ojob.tries \in Nat /\ ojob.tries <= OMaxAttempts /\ ojob.due \in Nat
           /\ ojob.claimTime \in Nat /\ clockO \in Nat /\ onWire \in Nat
  BY OutboxConstants DEF OutboxConstants, ReplyTypes, ReplyRows, SendJobs

(* A job that throws: it waits as long as the queue's backoff says, or has *)
(* used up its tries.                                                      *)
LEMMA ReplyThrows ==
    ASSUME ReplyTypes, SendJobOk, ojob.state = "active"
    PROVE  /\ ThrowJob \in SendJobs /\ ThrowJob.pc = "idle" /\ ThrowJob.tries = ojob.tries
           /\ \/ /\ ojob.tries < OMaxAttempts /\ ThrowJob.state = "waiting"
                 /\ ThrowJob.due = clockO + 2^(ojob.tries - 1) /\ 2^(ojob.tries - 1) \in Nat
              \/ ojob.tries = OMaxAttempts /\ ThrowJob.state = "failed"
  <1>1. /\ ojob \in SendJobs /\ ojob.tries \in Nat \ {0} /\ ojob.tries <= OMaxAttempts
        /\ OMaxAttempts \in Nat /\ clockO \in Nat
    BY ReplyTyped DEF ReplyTypes, SendJobOk
  <1>2. ojob.tries - 1 \in Nat /\ 2^(ojob.tries - 1) \in Nat
    BY <1>1, PowerGrows
  <1>3. CASE ojob.tries < OMaxAttempts
    <2> DEFINE d == clockO + 2^(ojob.tries - 1)
    <2>1. d \in Nat
      BY <1>1, <1>2
    <2>2. ThrowJob = [ojob EXCEPT !.state = "waiting", !.pc = "idle", !.due = d]
      BY <1>3 DEF ThrowJob, queueBackoff
    <2> HIDE DEF d
    <2>3. /\ ThrowJob \in SendJobs /\ ThrowJob.pc = "idle" /\ ThrowJob.tries = ojob.tries
          /\ ThrowJob.state = "waiting" /\ ThrowJob.due = d
      BY <1>1, <2>1, <2>2 DEF SendJobs
    <2> QED BY <2>3, <1>2, <1>3 DEF d
  <1>4. CASE ojob.tries = OMaxAttempts
    <2>1. ThrowJob = [ojob EXCEPT !.state = "failed", !.pc = "idle"]
      BY <1>1, <1>4 DEF ThrowJob, Ended
    <2> QED BY <2>1, <1>1, <1>4 DEF SendJobs
  <1> QED BY <1>1, <1>3, <1>4

(* A job that has ended is a job.                                           *)
LEMMA ReplyEnds ==
    ASSUME ReplyTypes, NEW s \in {"completed", "failed"}
    PROVE  Ended(s) \in SendJobs /\ Ended(s).state = s /\ Ended(s).pc = "idle"
  BY DEF ReplyTypes, SendJobs, Ended

(* enqueueOutbound, its job and its failures.                              *)
LEMMA ReplyEnqueued ==
    ASSUME ReplyInv, enqueueOutbound \/ addOutboxJob \/ addRefused \/ rowOrphaned
    PROVE  ReplyInv'
  <1>1. /\ ReplyTypes /\ orow \in ReplyRows /\ ojob \in SendJobs /\ clockO \in Nat
        /\ enq \in [pc: {"idle", "add", "ok", "threw"}, count: Nat]
        /\ OMaxAttempts \in Nat \ {0}
    BY ReplyTyped DEF ReplyInv, ReplyTypes
  <1>2. ReplyRowOk /\ EnqueueOk /\ SendJobOk /\ CountsAgree /\ WireOk
    BY DEF ReplyInv
  <1>3. /\ NoOutbox \in ReplyRows /\ NoOutbox.status = "none" /\ NoOutbox.attempts = 0 /\ NoOutbox.sid = FALSE
        /\ NoSendJob \in SendJobs /\ NoSendJob.tries = 0 /\ NoSendJob.pc = "idle" /\ NoSendJob.state = "none"
    BY <1>1 DEF NoOutbox, NoSendJob, ReplyRows, SendJobs
  <1>4. CASE enqueueOutbound /\ orow.status = "none"
    <2>1. orow' = [NoOutbox EXCEPT !.status = "PENDING", !.next = clockO]
          /\ enq' = [pc |-> "add", count |-> enq.count + 1]
          /\ UNCHANGED <<clockO, faultsO, content, ojob, onWire, lost>>
      BY <1>4 DEF enqueueOutbound, createOutboundOutbox
    <2>2. orow' \in ReplyRows /\ orow'.status = "PENDING" /\ orow'.attempts = 0 /\ orow'.sid = FALSE
      BY <1>1, <1>3, <2>1 DEF ReplyRows
    <2>3. ReplyTypes'
      BY <1>1, <2>1, <2>2 DEF ReplyTypes
    <2>4. ojob.state = "none" /\ ojob.pc = "idle"
      BY <1>1, <1>2, <1>4 DEF EnqueueOk, SendJobOk
    <2>5. ReplyRowOk' /\ EnqueueOk' /\ SendJobOk'
      BY <1>2, <2>1, <2>2, <2>4 DEF ReplyRowOk, EnqueueOk, SendJobOk, Sendable
    <2>6. CountsAgree' /\ WireOk'
      BY <1>2, <1>4, <2>1, <2>2, <2>4 DEF CountsAgree, WireOk
    <2> QED BY <2>3, <2>5, <2>6 DEF ReplyInv
  <1>5. CASE enqueueOutbound /\ orow.status # "none"
    <2>1. /\ enq' = [pc |-> "ok", count |-> enq.count + 1] /\ enq.pc # "add"
          /\ UNCHANGED <<clockO, faultsO, content, orow, ojob, onWire, lost>>
      BY <1>5 DEF enqueueOutbound
    <2>2. ReplyTypes'
      BY <1>1, <2>1 DEF ReplyTypes
    <2>3. ReplyRowOk' /\ SendJobOk' /\ EnqueueOk'
      BY <1>2, <1>5, <2>1 DEF ReplyRowOk, EnqueueOk, SendJobOk, Sendable
    <2>4. CountsAgree' /\ WireOk'
      BY <1>2, <2>1 DEF CountsAgree, WireOk, Unbroken
    <2> QED BY <2>2, <2>3, <2>4 DEF ReplyInv
  <1>6. CASE addOutboxJob
    <2>1. /\ enq.pc = "add" /\ enq' = [enq EXCEPT !.pc = "ok"]
          /\ ojob' = [NoSendJob EXCEPT !.state = "waiting", !.due = clockO]
          /\ UNCHANGED <<clockO, faultsO, content, orow, onWire, lost>>
      BY <1>6 DEF addOutboxJob
    <2>2. ojob' \in SendJobs /\ ojob'.state = "waiting" /\ ojob'.pc = "idle" /\ ojob'.tries = 0
      BY <1>1, <1>3, <2>1 DEF SendJobs
    <2>3. ReplyTypes' /\ enq'.pc = "ok"
      BY <1>1, <2>1, <2>2 DEF ReplyTypes
    <2>4. orow.status = "PENDING" /\ ojob.state = "none" /\ ojob.pc = "idle" /\ orow.attempts = 0
      BY <1>1, <1>2, <2>1 DEF EnqueueOk, SendJobOk, ReplyRowOk
    <2>5. ReplyRowOk' /\ EnqueueOk' /\ SendJobOk'
      BY <1>1, <1>2, <2>1, <2>2, <2>3, <2>4 DEF ReplyRowOk, EnqueueOk, SendJobOk, Sendable
    <2>6. CountsAgree' /\ WireOk'
      BY <1>2, <2>1, <2>2, <2>4 DEF CountsAgree, WireOk
    <2> QED BY <2>3, <2>5, <2>6 DEF ReplyInv
  <1>7. CASE addRefused
    <2>1. /\ enq.pc = "add" /\ enq' = [enq EXCEPT !.pc = "threw"] /\ orow' = NoOutbox
          /\ lost' = lost \cup {"add"}
          /\ UNCHANGED <<clockO, content, ojob, onWire>>
      BY <1>7 DEF addRefused, FaultO
    <2>2. ReplyTypes' /\ enq'.pc = "threw" /\ orow'.status = "none" /\ orow'.attempts = 0 /\ orow'.sid = FALSE
      BY <1>1, <1>3, <2>1 DEF ReplyTypes
    <2>4. orow.status = "PENDING" /\ ojob.state = "none" /\ ojob.pc = "idle"
      BY <1>1, <1>2, <2>1 DEF EnqueueOk, SendJobOk
    <2>5. ReplyRowOk' /\ EnqueueOk' /\ SendJobOk'
      BY <1>1, <1>2, <2>1, <2>2, <2>4 DEF ReplyRowOk, EnqueueOk, SendJobOk, Sendable
    <2>6. CountsAgree' /\ WireOk'
      BY <1>2, <2>1, <2>2, <2>4 DEF CountsAgree, WireOk
    <2> QED BY <2>2, <2>5, <2>6 DEF ReplyInv
  <1>8. CASE rowOrphaned
    <2>1. /\ enq.pc = "add" /\ enq' = [enq EXCEPT !.pc = "threw"]
          /\ lost' = lost \cup {"orphan"}
          /\ UNCHANGED <<clockO, content, orow, ojob, onWire>>
      BY <1>8 DEF rowOrphaned, FaultO
    <2>2. ReplyTypes' /\ enq'.pc = "threw"
      BY <1>1, <2>1 DEF ReplyTypes
    <2>4. orow.status = "PENDING" /\ ojob.state = "none" /\ ojob.pc = "idle"
      BY <1>1, <1>2, <2>1 DEF EnqueueOk, SendJobOk
    <2>5. ReplyRowOk' /\ EnqueueOk' /\ SendJobOk'
      BY <1>1, <1>2, <2>1, <2>2, <2>4 DEF ReplyRowOk, EnqueueOk, SendJobOk, Sendable
    <2>6. CountsAgree' /\ WireOk'
      BY <1>2, <2>1, <2>2, <2>4 DEF CountsAgree, WireOk
    <2> QED BY <2>2, <2>5, <2>6 DEF ReplyInv
  <1>9. orow.status = "none" \/ orow.status # "none"
    OBVIOUS
  <1> QED BY <1>4, <1>5, <1>6, <1>7, <1>8, <1>9

(* A step of the job leaves the enqueuing alone.                           *)
LEMMA JobMoves ==
    ASSUME ReplyInv, enq' = enq, ojob.state # "none", ojob'.state # "none", orow'.status # "none",
           ReplyTypes', ReplyRowOk', SendJobOk', CountsAgree', WireOk'
    PROVE  ReplyInv'
  BY DEF ReplyInv, EnqueueOk

(* What a job that is active or waiting knows.                             *)
LEMMA ReplyFacts ==
    ASSUME ReplyInv
    PROVE  /\ ReplyTypes /\ orow \in ReplyRows /\ ojob \in SendJobs /\ clockO \in Nat /\ onWire \in Nat
           /\ enq \in [pc: {"idle", "add", "ok", "threw"}, count: Nat]
           /\ OMaxAttempts \in Nat \ {0}
           /\ orow.attempts \in Nat /\ orow.attempts <= OMaxAttempts /\ orow.next \in Nat
           /\ ojob.tries \in Nat /\ ojob.tries <= OMaxAttempts /\ ojob.due \in Nat
           /\ ReplyRowOk /\ EnqueueOk /\ SendJobOk /\ CountsAgree /\ WireOk
           /\ ojob.pc # "idle" => ojob.state = "active"
           /\ ojob.state # "none" => orow.status # "none"
  <1>1. /\ ReplyTypes /\ ReplyRowOk /\ EnqueueOk /\ SendJobOk /\ CountsAgree /\ WireOk
        /\ orow \in ReplyRows /\ ojob \in SendJobs /\ clockO \in Nat /\ onWire \in Nat
        /\ enq \in [pc: {"idle", "add", "ok", "threw"}, count: Nat]
    BY DEF ReplyInv, ReplyTypes
  <1> QED BY <1>1, ReplyTyped DEF SendJobOk, EnqueueOk

(* The queue starts a job, Twilio answers it, or time passes.              *)
LEMMA ReplySteps ==
    ASSUME ReplyInv, startOutboxJob \/ sendViaTwilio \/ sendFailed \/ markLost
    PROVE  ReplyInv'
  <1>1. /\ ReplyTypes /\ orow \in ReplyRows /\ ojob \in SendJobs /\ clockO \in Nat /\ onWire \in Nat
        /\ enq \in [pc: {"idle", "add", "ok", "threw"}, count: Nat]
        /\ ojob.tries \in Nat /\ OMaxAttempts \in Nat
        /\ ojob.pc # "idle" => ojob.state = "active"
        /\ ojob.state # "none" => orow.status # "none"
    BY ReplyFacts
  <1>2. ReplyRowOk /\ SendJobOk /\ CountsAgree /\ WireOk
    BY ReplyFacts
  <1>3. CASE startOutboxJob
    <2>1. /\ ojob.state = "waiting" /\ clockO >= ojob.due
          /\ ojob' = [ojob EXCEPT !.state = "active", !.pc = "claim", !.tries = @ + 1]
          /\ UNCHANGED <<clockO, faultsO, content, orow, enq, onWire, lost>>
      BY <1>3 DEF startOutboxJob
    <2>2. ojob.tries < OMaxAttempts /\ ojob.pc = "idle"
      BY <2>1, <1>1, <1>2 DEF SendJobOk
    <2>3. ojob' \in SendJobs /\ ojob'.state = "active" /\ ojob'.pc = "claim" /\ ojob'.tries = ojob.tries + 1
      <3> DEFINE n == ojob.tries + 1
      <3>1. n \in 0..OMaxAttempts /\ ojob' = [ojob EXCEPT !.state = "active", !.pc = "claim", !.tries = n]
        BY <2>1, <2>2, <1>1
      <3> HIDE DEF n
      <3>2. ojob' \in SendJobs /\ ojob'.state = "active" /\ ojob'.pc = "claim" /\ ojob'.tries = n
        BY <3>1, <1>1 DEF SendJobs
      <3> QED BY <3>2 DEF n
    <2>4. ReplyTypes' /\ ReplyRowOk'
      BY <2>1, <2>3, <1>1, <1>2 DEF ReplyTypes, ReplyRowOk, Sendable
    <2>5. SendJobOk'
      <3>1. orow.status = "FAILED" => orow.next <= clockO /\ orow.attempts < ojob.tries + 1
        BY <2>1, <1>1, <1>2, ReplyFacts DEF SendJobOk
      <3> QED BY <3>1, <2>1, <2>3, <1>1 DEF SendJobOk
    <2>6. CountsAgree' /\ WireOk'
      BY <2>1, <2>2, <2>3, <1>2 DEF CountsAgree, WireOk, Unbroken
    <2> QED BY <2>1, <2>3, <2>4, <2>5, <2>6, <1>1, JobMoves
  <1>4. CASE sendViaTwilio
    <2>1. /\ ojob.pc = "send" /\ Sendable /\ onWire' = onWire + 1
          /\ ojob' = [ojob EXCEPT !.pc = "sent"]
          /\ UNCHANGED <<clockO, faultsO, content, orow, enq, lost>>
      BY <1>4 DEF sendViaTwilio
    <2>2. /\ ojob' \in SendJobs /\ ojob'.state = ojob.state /\ ojob'.pc = "sent" /\ ojob'.tries = ojob.tries
          /\ ojob'.claimTime = ojob.claimTime /\ ojob.state = "active" /\ orow.status = "PROCESSING"
      BY <2>1, <1>1, <1>2 DEF SendJobs, SendJobOk
    <2>3. ReplyTypes' /\ ReplyRowOk' /\ SendJobOk'
      BY <2>1, <2>2, <1>1, <1>2 DEF ReplyTypes, ReplyRowOk, Sendable, SendJobOk
    <2>4. CountsAgree' /\ WireOk'
      BY <2>1, <2>2, <1>1, <1>2 DEF CountsAgree, WireOk, Unbroken
    <2> QED BY <2>1, <2>2, <2>3, <2>4, <1>1, JobMoves
  <1>5. CASE sendFailed
    <2>1. /\ ojob.pc = "send" /\ ojob' = [ojob EXCEPT !.pc = "failing"]
          /\ UNCHANGED <<clockO, faultsO, content, orow, enq, onWire, lost>>
      BY <1>5 DEF sendFailed
    <2>2. /\ ojob' \in SendJobs /\ ojob'.state = ojob.state /\ ojob'.pc = "failing" /\ ojob'.tries = ojob.tries
          /\ ojob'.claimTime = ojob.claimTime /\ ojob.state = "active" /\ orow.status = "PROCESSING"
      BY <2>1, <1>1, <1>2 DEF SendJobs, SendJobOk
    <2>3. ReplyTypes' /\ ReplyRowOk' /\ SendJobOk'
      BY <2>1, <2>2, <1>1, <1>2 DEF ReplyTypes, ReplyRowOk, Sendable, SendJobOk
    <2>4. CountsAgree' /\ WireOk'
      BY <2>1, <2>2, <1>1, <1>2 DEF CountsAgree, WireOk, Unbroken
    <2> QED BY <2>1, <2>2, <2>3, <2>4, <1>1, JobMoves
  <1>6. CASE markLost
    <2>1. /\ ojob.pc \in {"send", "sent"} /\ Sendable /\ ojob' = [ojob EXCEPT !.pc = "failing"]
          /\ onWire' = IF ojob.pc = "send" THEN onWire + 1 ELSE onWire
          /\ lost' = lost \cup {"mark"}
          /\ UNCHANGED <<clockO, content, orow, enq>>
      BY <1>6 DEF markLost, FaultO
    <2>2. /\ ojob' \in SendJobs /\ ojob'.state = ojob.state /\ ojob'.pc = "failing" /\ ojob'.tries = ojob.tries
          /\ ojob'.claimTime = ojob.claimTime /\ ojob.state = "active" /\ orow.status = "PROCESSING"
      BY <2>1, <1>1, <1>2 DEF SendJobs, SendJobOk
    <2>3. onWire' \in Nat /\ onWire' >= onWire
      BY <2>1, <1>1
    <2>4. ReplyTypes' /\ ReplyRowOk' /\ SendJobOk'
      BY <2>1, <2>2, <2>3, <1>1, <1>2 DEF ReplyTypes, ReplyRowOk, Sendable, SendJobOk
    <2>5. CountsAgree' /\ WireOk'
      BY <2>1, <2>2 DEF CountsAgree, WireOk, Unbroken
    <2> QED BY <2>1, <2>2, <2>4, <2>5, <1>1, JobMoves
  <1> QED BY <1>3, <1>4, <1>5, <1>6

(* The claim: a row that is not claimed is settled, or something broke.    *)
LEMMA ReplyClaims ==
    ASSUME ReplyInv, claimOutboxForProcessing
    PROVE  ReplyInv'
  <1>1. /\ ReplyTypes /\ orow \in ReplyRows /\ ojob \in SendJobs /\ clockO \in Nat /\ onWire \in Nat
        /\ enq \in [pc: {"idle", "add", "ok", "threw"}, count: Nat]
        /\ ojob.tries \in Nat /\ OMaxAttempts \in Nat \ {0}
        /\ orow.attempts \in Nat /\ orow.next \in Nat
        /\ ojob.pc # "idle" => ojob.state = "active"
        /\ ojob.state # "none" => orow.status # "none"
    BY ReplyFacts
  <1>2. ReplyRowOk /\ SendJobOk /\ CountsAgree /\ WireOk
    BY ReplyFacts
  <1>3. /\ ojob.pc = "claim" /\ ojob.state = "active" /\ ojob.tries > 0
        /\ UNCHANGED <<clockO, faultsO, content, enq, onWire, lost>>
    BY <1>1, <1>2 DEF claimOutboxForProcessing, SendJobOk
  <1>4. CASE claimable(clockO)
    <2>1. /\ orow' = [orow EXCEPT !.status = "PROCESSING", !.attempts = @ + 1]
          /\ ojob' = [ojob EXCEPT !.pc = "send", !.claimTime = clockO]
      BY <1>4 DEF claimOutboxForProcessing
    <2>2. /\ ~orow.sid /\ orow.status \in {"PENDING", "FAILED"}
          /\ orow.attempts < OMaxAttempts /\ orow.attempts < ojob.tries
      BY <1>1, <1>2, <1>3, <1>4 DEF claimable, ReplyRowOk, SendJobOk
    <2>3. /\ orow' \in ReplyRows /\ orow'.status = "PROCESSING" /\ orow'.attempts = orow.attempts + 1
          /\ orow'.sid = orow.sid
      <3> DEFINE n == orow.attempts + 1
      <3>1. n \in 0..OMaxAttempts /\ orow' = [orow EXCEPT !.status = "PROCESSING", !.attempts = n]
        BY <2>1, <2>2, <1>1
      <3> HIDE DEF n
      <3>2. orow' \in ReplyRows /\ orow'.status = "PROCESSING" /\ orow'.attempts = n /\ orow'.sid = orow.sid
        BY <3>1, <1>1 DEF ReplyRows
      <3> QED BY <3>2 DEF n
    <2>4. /\ ojob' \in SendJobs /\ ojob'.state = ojob.state /\ ojob'.pc = "send"
          /\ ojob'.tries = ojob.tries /\ ojob'.claimTime = clockO
      BY <1>1, <2>1 DEF SendJobs
    <2>5. ReplyTypes' /\ ReplyRowOk'
      BY <1>1, <1>2, <1>3, <2>2, <2>3, <2>4 DEF ReplyTypes, ReplyRowOk, Sendable
    <2>6. SendJobOk'
      BY <1>1, <1>3, <2>2, <2>3, <2>4 DEF SendJobOk
    <2>7. CountsAgree' /\ WireOk'
      BY <1>1, <1>2, <1>3, <2>2, <2>3, <2>4 DEF CountsAgree, WireOk, Unbroken
    <2> QED BY <1>3, <2>3, <2>4, <2>5, <2>6, <2>7, JobMoves
  <1>5. CASE ~claimable(clockO)
    <2>1. ojob' = Ended("completed") /\ orow' = orow
      BY <1>5 DEF claimOutboxForProcessing
    <2>2. ojob' \in SendJobs /\ ojob'.state = "completed" /\ ojob'.pc = "idle"
      BY <1>1, <2>1, ReplyEnds
    <2>3. ReplyTypes' /\ ReplyRowOk' /\ SendJobOk'
      BY <1>1, <1>2, <1>3, <2>1, <2>2 DEF ReplyTypes, ReplyRowOk, Sendable, SendJobOk
    <2>4. ~Unbroken
      BY <1>1, <1>2, <1>3, <1>5 DEF CountsAgree, SendJobOk, ReplyRowOk, claimable
    <2>5. CountsAgree' /\ WireOk'
      BY <1>2, <1>3, <2>1, <2>2, <2>4 DEF CountsAgree, WireOk, Unbroken
    <2> QED BY <1>1, <1>3, <2>1, <2>2, <2>3, <2>5, JobMoves
  <1> QED BY <1>4, <1>5

(* The outcome recorded: SENT, or a failure with the row's own waiting     *)
(* time, no longer than the queue's.                                       *)
LEMMA ReplySettles ==
    ASSUME ReplyInv, markOutboxSent \/ markOutboxFailed
    PROVE  ReplyInv'
  <1>1. /\ ReplyTypes /\ orow \in ReplyRows /\ ojob \in SendJobs /\ clockO \in Nat /\ onWire \in Nat
        /\ enq \in [pc: {"idle", "add", "ok", "threw"}, count: Nat]
        /\ ojob.tries \in Nat /\ ojob.tries <= OMaxAttempts /\ OMaxAttempts \in Nat \ {0}
        /\ orow.attempts \in Nat /\ orow.next \in Nat /\ ojob.claimTime \in Nat
        /\ ojob.pc # "idle" => ojob.state = "active"
        /\ ojob.state # "none" => orow.status # "none"
    BY ReplyFacts, ReplyTyped
  <1>2. ReplyRowOk /\ SendJobOk /\ CountsAgree /\ WireOk
    BY ReplyFacts
  <1>3. CASE markOutboxSent
    <2>1. /\ ojob.pc = "sent" /\ orow' = [orow EXCEPT !.status = "SENT", !.sid = TRUE, !.next = clockO]
          /\ ojob' = Ended("completed")
          /\ UNCHANGED <<clockO, faultsO, content, enq, onWire, lost>>
      BY <1>3 DEF markOutboxSent
    <2>2. orow' \in ReplyRows /\ orow'.status = "SENT" /\ orow'.sid /\ orow'.attempts = orow.attempts
      BY <1>1, <2>1 DEF ReplyRows
    <2>3. ojob' \in SendJobs /\ ojob'.state = "completed" /\ ojob'.pc = "idle"
      BY <1>1, <2>1, ReplyEnds
    <2>4. ReplyTypes' /\ ReplyRowOk' /\ SendJobOk'
      BY <1>1, <1>2, <2>1, <2>2, <2>3 DEF ReplyTypes, ReplyRowOk, Sendable, SendJobOk, WireOk
    <2>5. CountsAgree' /\ WireOk'
      BY <1>2, <2>1, <2>2, <2>3 DEF CountsAgree, WireOk, Unbroken
    <2> QED BY <1>1, <2>1, <2>2, <2>3, <2>4, <2>5, JobMoves
  <1>4. CASE markOutboxFailed
    <2>1. /\ ojob.pc = "failing" /\ UNCHANGED <<clockO, faultsO, content, enq, onWire, lost>>
      BY <1>4 DEF markOutboxFailed
    <2>2. /\ ojob.state = "active" /\ orow.status = "PROCESSING" /\ ~orow.sid
          /\ orow.attempts > 0 /\ orow.attempts <= ojob.tries /\ ojob.claimTime <= clockO
      BY <1>1, <1>2, <2>1 DEF SendJobOk, ReplyRowOk
    <2>3. CASE isDeadLetter
      <3>1. orow' = [orow EXCEPT !.status = "DEAD_LETTER"] /\ ojob' = Ended("completed")
        BY <1>4, <2>3 DEF markOutboxFailed
      <3>2. orow' \in ReplyRows /\ orow'.status = "DEAD_LETTER" /\ orow'.sid = orow.sid
        BY <1>1, <3>1 DEF ReplyRows
      <3>3. ojob' \in SendJobs /\ ojob'.state = "completed" /\ ojob'.pc = "idle"
        BY <1>1, <3>1, ReplyEnds
      <3>4. ReplyTypes' /\ ReplyRowOk' /\ SendJobOk'
        BY <1>1, <1>2, <2>1, <2>2, <3>2, <3>3 DEF ReplyTypes, ReplyRowOk, Sendable, SendJobOk
      <3>5. CountsAgree' /\ WireOk'
        BY <1>2, <2>1, <2>2, <3>2, <3>3 DEF CountsAgree, WireOk, Unbroken
      <3> QED BY <1>1, <2>1, <2>2, <3>2, <3>3, <3>4, <3>5, JobMoves
    <2>4. CASE ~isDeadLetter
      <3> DEFINE d == 2^(orow.attempts - 1)
                 n == ojob.claimTime + d
      <3>1. orow.attempts < OMaxAttempts
        BY <2>4, <1>1 DEF isDeadLetter
      <3>2. computeOutboxRetryDelayMs(orow.attempts) = d
        <4>1. (IF orow.attempts = 0 THEN 1
               ELSE IF orow.attempts > OMaxAttempts THEN OMaxAttempts ELSE orow.attempts) = orow.attempts
          BY <1>1, <2>2, <3>1
        <4> QED BY <4>1 DEF computeOutboxRetryDelayMs
      <3>3. d \in Nat /\ d <= 2^(ojob.tries - 1)
        <4>1. orow.attempts - 1 \in Nat /\ ojob.tries - 1 \in Nat /\ orow.attempts - 1 <= ojob.tries - 1
          BY <1>1, <2>2
        <4> QED BY <4>1, PowerGrows
      <3>4. orow' = [orow EXCEPT !.status = "FAILED", !.next = n] /\ ojob' = ThrowJob
        BY <1>4, <2>4, <3>2 DEF markOutboxFailed
      <3>5. n \in Nat
        BY <1>1, <3>3
      <3> HIDE DEF n, d
      <3>6. /\ orow' \in ReplyRows /\ orow'.status = "FAILED" /\ orow'.sid = orow.sid
            /\ orow'.attempts = orow.attempts /\ orow'.next = n
        BY <1>1, <3>4, <3>5 DEF ReplyRows
      <3>7. /\ ojob' \in SendJobs /\ ojob'.pc = "idle" /\ ojob'.tries = ojob.tries
            /\ \/ /\ ojob.tries < OMaxAttempts /\ ojob'.state = "waiting"
                  /\ ojob'.due = clockO + 2^(ojob.tries - 1) /\ 2^(ojob.tries - 1) \in Nat
               \/ ojob.tries = OMaxAttempts /\ ojob'.state = "failed"
        BY <1>1, <1>2, <2>2, <3>4, ReplyThrows
      <3>8. ojob'.state = "waiting" => n <= ojob'.due
        <4> HIDE DEF d
        <4> QED BY <3>3, <3>7, <1>1, <2>2 DEF n
      <3>9. ReplyTypes' /\ ReplyRowOk'
        BY <1>1, <1>2, <2>1, <2>2, <3>1, <3>6, <3>7 DEF ReplyTypes, ReplyRowOk, Sendable
      <3>10. SendJobOk'
        BY <1>1, <2>2, <3>6, <3>7, <3>8 DEF SendJobOk
      <3>11. Unbroken => orow.attempts = ojob.tries
        BY <1>2, <2>1 DEF CountsAgree
      <3>12. CountsAgree'
        BY <2>1, <3>1, <3>6, <3>7, <3>11, <1>1 DEF CountsAgree, Unbroken
      <3>13. WireOk'
        BY <1>2, <2>1, <2>2, <3>6, <3>7 DEF WireOk
      <3>14. ojob'.state # "none"
        BY <3>7
      <3> QED BY <1>1, <2>1, <2>2, <3>6, <3>9, <3>10, <3>12, <3>13, <3>14, JobMoves
    <2> QED BY <2>3, <2>4
  <1> QED BY <1>3, <1>4

(* The database or the process fails: the job is tried again, the row may  *)
(* stay PROCESSING.                                                        *)
LEMMA ReplyBreaks ==
    ASSUME ReplyInv, databaseFailed \/ senderDies
    PROVE  ReplyInv'
  <1>1. /\ ReplyTypes /\ orow \in ReplyRows /\ ojob \in SendJobs /\ clockO \in Nat /\ onWire \in Nat
        /\ enq \in [pc: {"idle", "add", "ok", "threw"}, count: Nat]
        /\ ojob.tries \in Nat /\ ojob.tries <= OMaxAttempts /\ OMaxAttempts \in Nat \ {0}
        /\ orow.attempts \in Nat /\ orow.next \in Nat
        /\ ojob.pc # "idle" => ojob.state = "active"
        /\ ojob.state # "none" => orow.status # "none"
    BY ReplyFacts
  <1>2. ReplyRowOk /\ SendJobOk /\ CountsAgree /\ WireOk
    BY ReplyFacts
  <1>3. CASE databaseFailed
    <2>1. /\ ojob.pc \in {"claim", "failing"} /\ ojob.state = "active" /\ lost' = lost \cup {"database"}
          /\ ojob' = ThrowJob /\ UNCHANGED <<clockO, content, orow, enq, onWire>>
      BY <1>1, <1>3 DEF databaseFailed, FaultO
    <2>2. /\ ojob' \in SendJobs /\ ojob'.pc = "idle" /\ ojob'.tries = ojob.tries
          /\ \/ /\ ojob.tries < OMaxAttempts /\ ojob'.state = "waiting"
                /\ ojob'.due = clockO + 2^(ojob.tries - 1) /\ 2^(ojob.tries - 1) \in Nat
             \/ ojob.tries = OMaxAttempts /\ ojob'.state = "failed"
      BY <1>1, <1>2, <2>1, ReplyThrows
    <2>3. ojob'.state = "waiting" => ojob'.due >= clockO
      BY <1>1, <2>2
    <2>4. ReplyTypes' /\ ReplyRowOk'
      BY <1>1, <1>2, <2>1, <2>2 DEF ReplyTypes, ReplyRowOk, Sendable
    <2>5. SendJobOk'
      <3>1. ojob.pc = "failing" => orow.status = "PROCESSING"
        BY <1>2 DEF SendJobOk
      <3>2. orow.status = "FAILED" /\ ojob'.state = "waiting" =>
               orow.next <= ojob'.due /\ orow.attempts <= ojob'.tries
        <4> SUFFICES ASSUME orow.status = "FAILED", ojob'.state = "waiting"
                     PROVE  orow.next <= ojob'.due /\ orow.attempts <= ojob'.tries
          OBVIOUS
        <4>1. orow.next <= clockO /\ orow.attempts < ojob.tries
          BY <1>2, <2>1, <3>1 DEF SendJobOk
        <4>2. ojob'.due \in Nat
          BY <2>2 DEF SendJobs
        <4> QED BY <4>1, <4>2, <2>2, <2>3, <1>1
      <3> QED BY <3>2, <2>1, <2>2 DEF SendJobOk
    <2>6. CountsAgree' /\ WireOk'
      BY <1>2, <2>1, <2>2 DEF CountsAgree, WireOk, Unbroken
    <2> QED BY <1>1, <2>1, <2>2, <2>4, <2>5, <2>6, JobMoves
  <1>4. CASE senderDies
    <2>1. /\ ojob.state = "active" /\ lost' = lost \cup {IF ojob.pc = "sent" THEN "mark" ELSE "database"}
          /\ UNCHANGED <<clockO, content, orow, enq, onWire>>
      BY <1>4 DEF senderDies, FaultO
    <2>2. /\ ojob' \in SendJobs /\ ojob'.pc = "idle"
          /\ \/ ojob'.state = "failed"
             \/ ojob'.state = "waiting" /\ ojob'.tries = ojob.tries - 1 /\ ojob'.due = clockO
      <3>1. CASE ojob.stalled
        <4>1. ojob' = Ended("failed")
          BY <1>4, <3>1 DEF senderDies
        <4> QED BY <4>1, <1>1, ReplyEnds
      <3>2. CASE ~ojob.stalled
        <4> DEFINE n == ojob.tries - 1
        <4>1. n \in 0..OMaxAttempts
          BY <1>1, <1>2, <2>1 DEF SendJobOk
        <4>2. ojob' = [ojob EXCEPT !.state = "waiting", !.pc = "idle", !.tries = n,
                                   !.due = clockO, !.stalled = TRUE]
          BY <1>4, <3>2 DEF senderDies
        <4> HIDE DEF n
        <4>3. ojob' \in SendJobs /\ ojob'.pc = "idle" /\ ojob'.state = "waiting" /\ ojob'.tries = n
              /\ ojob'.due = clockO
          BY <1>1, <4>1, <4>2 DEF SendJobs
        <4> QED BY <4>3 DEF n
      <3> QED BY <3>1, <3>2
    <2>3. ReplyTypes' /\ ReplyRowOk'
      BY <1>1, <1>2, <2>1, <2>2 DEF ReplyTypes, ReplyRowOk, Sendable
    <2>4. SendJobOk'
      <3>1. orow.status = "FAILED" => orow.next <= clockO /\ orow.attempts < ojob.tries
        <4>1. ojob.pc \in {"claim", "send", "sent", "failing"}
          BY <1>1, <1>2, <2>1 DEF SendJobOk, SendJobs
        <4> QED BY <4>1, <1>2 DEF SendJobOk
      <3>2. ojob'.state = "waiting" => ojob'.tries < OMaxAttempts
        BY <2>2, <1>1
      <3> QED BY <3>1, <3>2, <2>1, <2>2, <1>1 DEF SendJobOk
    <2>5. CountsAgree'
      BY <2>1 DEF CountsAgree, Unbroken
    <2>6. WireOk'
      BY <1>2, <2>1, <2>2 DEF WireOk
    <2>7. ojob'.state # "none"
      BY <2>2
    <2> QED BY <1>1, <2>1, <2>3, <2>4, <2>5, <2>6, <2>7, JobMoves
  <1> QED BY <1>3, <1>4

(* Time only brings a deferred try nearer.                                  *)
LEMMA ReplyTicks ==
    ASSUME ReplyInv, tickOutbox \/ UNCHANGED ovars
    PROVE  ReplyInv'
  <1>1. /\ clockO' \in Nat /\ clockO' >= clockO /\ clockO \in Nat
        /\ UNCHANGED <<faultsO, content, orow, enq, ojob, onWire, lost>>
        /\ orow.next \in Nat /\ ojob.claimTime \in Nat
    BY ReplyFacts, ReplyTyped DEF tickOutbox, ovars
  <1>2. ReplyTypes' /\ ReplyRowOk' /\ EnqueueOk' /\ WireOk' /\ CountsAgree'
    BY <1>1 DEF ReplyInv, ReplyTypes, ReplyRowOk, EnqueueOk, WireOk, CountsAgree, Sendable, Unbroken
  <1>3. SendJobOk'
    BY <1>1 DEF ReplyInv, SendJobOk
  <1> QED BY <1>2, <1>3 DEF ReplyInv

(* The invariant of the replies holds initially.                            *)
LEMMA ReplyInit == OInit => ReplyInv
  <1> SUFFICES ASSUME OInit PROVE ReplyInv
    OBVIOUS
  <1>1. OMaxAttempts \in Nat
    BY OutboxConstants DEF OutboxConstants
  <1>2. /\ NoOutbox \in ReplyRows /\ NoOutbox.status = "none" /\ NoOutbox.attempts = 0 /\ NoOutbox.sid = FALSE
        /\ NoSendJob \in SendJobs /\ NoSendJob.tries = 0 /\ NoSendJob.pc = "idle" /\ NoSendJob.state = "none"
    BY <1>1 DEF NoOutbox, NoSendJob, ReplyRows, SendJobs
  <1>3. /\ orow = NoOutbox /\ ojob = NoSendJob /\ enq = [pc |-> "idle", count |-> 0]
        /\ clockO = 0 /\ onWire = 0 /\ lost = {}
    BY DEF OInit
  <1>4. ReplyTypes /\ ReplyRowOk /\ EnqueueOk
    BY <1>2, <1>3 DEF ReplyTypes, ReplyRowOk, EnqueueOk
  <1>5. SendJobOk /\ CountsAgree /\ WireOk
    BY <1>2, <1>3 DEF SendJobOk, CountsAgree, WireOk
  <1> QED BY <1>4, <1>5 DEF ReplyInv

(***************************************************************************)
(* Whatever Twilio, the queue, the database and the process do: a reply is *)
(* sent once unless its mark is lost, a retry of the queue finds the row   *)
(* due, a job that is over has settled its row unless the database failed, *)
(* and what an inbound attempt takes for enqueued has a job (RepliesSound; *)
(* enqueueOutbound, processOutbox, computeOutboxRetryDelayMs).             *)
(***************************************************************************)
THEOREM RepliesStaySound == OSpec => []RepliesSound
  <1>1. OInit => ReplyInv
    BY ReplyInit
  <1>2. ReplyInv /\ [ONext]_ovars => ReplyInv'
    BY ReplyEnqueued, ReplySteps, ReplyClaims, ReplySettles, ReplyBreaks, ReplyTicks DEF ONext
  <1>3. ReplyInv => RepliesSound
    <2> SUFFICES ASSUME ReplyInv PROVE RepliesSound
      OBVIOUS
    <2>1. /\ ReplyRowOk /\ EnqueueOk /\ SendJobOk /\ CountsAgree /\ WireOk
          /\ orow.attempts <= OMaxAttempts /\ ojob.tries <= OMaxAttempts /\ onWire \in Nat
      BY ReplyFacts
    <2>2. OTypeOK /\ ReplySentOnce
      BY <2>1 DEF OTypeOK, ReplySentOnce, ReplyRowOk, WireOk, Sendable
    <2>3. RetryFindsRowDue /\ EnqueuedHasJob
      BY <2>1 DEF RetryFindsRowDue, EnqueuedHasJob, SendJobOk, EnqueueOk
    <2>4. JobEndsRowSettled
      BY <2>1 DEF JobEndsRowSettled, CountsAgree, Unbroken
    <2> QED BY <2>2, <2>3, <2>4 DEF RepliesSound
  <1> QED BY <1>1, <1>2, <1>3, PTL DEF OSpec

-----------------------------------------------------------------------------
(* The WhatsApp conversation.                                              *)

DraftPlaces == {0} \cup DOMAIN Verdicts \cup {p + 10 : p \in DOMAIN Verdicts}

Drafts == {d \in [DraftFields -> Nat] :
             /\ d["dates"] \in {0} \cup TripDates
             /\ d["pickup"] \in DraftPlaces /\ d["dropoff"] \in DraftPlaces}

Options == [car: Fleet, price: Nat, dates: TripDates, pickup: DraftPlaces]

Sessions == [draft: Drafts, checked: [AddressFields -> {"unvalidated", "valid", "invalid"}],
             stage: TalkStages \cup {"searching"}, available: SUBSET Options,
             shown: SUBSET Options, selected: Options \cup {NoOption},
             alternatives: BOOLEAN, booking: Nat]

Patches == {NoPatch} \cup LongPatches \cup {[f \in {"wants"} |-> c] : c \in Fleet}

Intents == {"greeting", "reset", "confirm", "reject", "cancel", "unknown", "request_agent",
            "select_option", "update_info", "new_booking"}

Extractions == [intent: Intents, patch: Patches, hint: Nat, others: BOOLEAN, sure: BOOLEAN]

Turns == [s: Sessions, said: Messages, heard: Extractions, error: BOOLEAN, link: Nat,
          written: BOOLEAN, price: Nat]

Booked == [key: Nat, car: Fleet, dates: TripDates, pickup: DraftPlaces, dropoff: DraftPlaces,
           price: Nat, text: Nat]

(* What is kept of a conversation has its type.                            *)
TalkTypes ==
    /\ chat \in Sessions /\ turn \in Turns /\ texts \in Nat /\ rateNow \in Nat
    /\ node \in {"idle", "extract", "search", "create_booking", "create", "handoff", "respond", "reply"}
    /\ made \subseteq Booked /\ unsaid \subseteq 0..texts

(* Options are offered for the dates and the pickup of the draft, and the  *)
(* buttons are those of the options.                                       *)
Offers(s) ==
    /\ s.shown = s.available
    /\ \A o \in s.available : o.dates = s.draft["dates"] /\ o.pickup = s.draft["pickup"]

(* A stage a session may be saved in has behind it what it talks about.    *)
Backing(s, bookings) ==
    /\ s.stage \in TalkStages
    /\ s.stage = "confirming" => s.selected # NoOption
    /\ s.stage = "presenting_options" => s.available # {}
    /\ s.stage = "awaiting_payment" => \E b \in bookings : b.key = s.booking

(* The session that is saved.                                              *)
ChatFits == Offers(chat) /\ Backing(chat, made)

(* The session the running turn works on, node by node.                    *)
TurnFits ==
    /\ node = "extract" => turn = TurnOn(chat, turn.said)
    /\ node # "idle" => texts # 0 /\ Offers(turn.s)
    /\ node = "search" => \/ turn.s.available = {}
                          \/ turn.s.draft["pickup"] = 0 \/ turn.s.draft["dropoff"] = 0
    /\ node \in {"search", "create_booking", "create", "handoff"} => turn.link = 0 /\ ~turn.written
    /\ node \in {"create_booking", "create"} =>
          turn.s.selected # NoOption /\ turn.heard.intent = "confirm" /\ ~turn.error
    /\ node = "create" => turn.price = turn.s.selected.price /\ turn.s.draft["dates"] # 0
    /\ node = "respond" => Backing(turn.s, made)
    /\ node = "reply" => chat = turn.s

(* The options a session may sell: those on offer and the one selected.    *)
Sellable(s) == s.available \cup ({s.selected} \ {NoOption})

Told(s, prices) == \A o \in Sellable(s) : Quote(o) \in prices

(* Unless a reply was lost, the customer knows the price of everything the *)
(* session may sell, at the latest with the reply that is being prepared.  *)
PricesTold ==
    unsaid = {} =>
        /\ node # "reply" => Told(chat, quoted)
        /\ node \in {"search", "create_booking", "create", "handoff"} => Told(turn.s, quoted)
        /\ node \in {"respond", "reply"} =>
              Told(turn.s, quoted \cup generateResponse(turn))

(* A booking has the key of its message.                                   *)
KeysOfTexts == \A b \in made : b.key = b.text /\ b.text \in 1..texts

(* What the turn of a button comes to in session s.                        *)
RunAgain(s, m) ==
    routeNode(mergeNode(TurnOn(s, m), handleInteractiveReply(m.button, s.shown)))

(* While the turn of a button is about to book, it is that turn still.     *)
ButtonsRepeat ==
    node \in {"create_booking", "create"} /\ turn.said.button # 0 =>
        RunAgain(chat, turn.said) = To("create_booking", turn.s)

(* A turn that comes to d asks, at this rate, for the booking b.            *)
Repeats(d, rate, b) ==
    /\ d.next = "create_booking" /\ d.s.draft["dates"] # 0
    /\ rate + PreviewExtra[d.s.draft["dates"]] = d.s.selected.price
    /\ b.car = d.s.selected.car /\ b.price = d.s.selected.price
    /\ \A f \in {"dates", "pickup", "dropoff"} : b[f] = d.s.draft[f]

(* A booking whose link was not sent and whose turn nothing interrupted is *)
(* the running turn's: it holds the link, or comes to the booking again.   *)
LinkAhead(b) ==
    /\ b.text = texts
    /\ node \in {"extract", "create_booking", "create", "respond", "reply"}
    /\ node \in {"respond", "reply"} => turn.link = b.key /\ turn.s.stage = "awaiting_payment"
    /\ node \notin {"respond", "reply"} => turn.said.button # 0
    /\ node # "reply" /\ turn.said.button # 0 => Repeats(RunAgain(chat, turn.said), rateNow, b)

LinksAhead == \A b \in made : b.key \in linked \/ b.text \in slipped \/ LinkAhead(b)

(* The inductive invariant of the conversation.                             *)
TalkInv ==
    /\ TalkTypes /\ ChatFits /\ TurnFits /\ PricesTold
    /\ KeysOfTexts /\ OneBookingPerMessage /\ BookedAtToldPrice
    /\ ButtonsRepeat /\ LinksAhead


(* The fields of sessions have their types.                                 *)
LEMMA SessionFields ==
    ASSUME NEW s \in Sessions
    PROVE  /\ s.draft \in Drafts /\ s.available \subseteq Options /\ s.shown \subseteq Options
           /\ s.selected \in Options \cup {NoOption} /\ s.booking \in Nat
           /\ s.stage \in TalkStages \cup {"searching"} /\ s.alternatives \in BOOLEAN
           /\ s.checked \in [AddressFields -> {"unvalidated", "valid", "invalid"}]
           /\ s = [draft |-> s.draft, checked |-> s.checked, stage |-> s.stage,
                   available |-> s.available, shown |-> s.shown, selected |-> s.selected,
                   alternatives |-> s.alternatives, booking |-> s.booking]
  BY DEF Sessions

(* The fields of turns do too.                                              *)
LEMMA TurnFields ==
    ASSUME NEW w \in Turns
    PROVE  /\ w.s \in Sessions /\ w.said \in Messages /\ w.heard \in Extractions
           /\ w.error \in BOOLEAN /\ w.link \in Nat /\ w.written \in BOOLEAN /\ w.price \in Nat
           /\ w = [s |-> w.s, said |-> w.said, heard |-> w.heard, error |-> w.error,
                   link |-> w.link, written |-> w.written, price |-> w.price]
  BY DEF Turns

(* A draft has four fields.                                                 *)
LEMMA DraftFacts ==
    ASSUME NEW d \in Drafts
    PROVE  /\ d = [f \in DraftFields |-> d[f]] /\ \A f \in DraftFields : d[f] \in Nat
           /\ DOMAIN d = DraftFields
           /\ d["dates"] \in {0} \cup TripDates
           /\ d["pickup"] \in DraftPlaces /\ d["dropoff"] \in DraftPlaces
  BY DEF Drafts, DraftFields

(* A car that is offered is one of the fleet, which NoOption is not.        *)
LEMMA OptionFacts ==
    ASSUME NEW o \in Options
    PROVE  /\ o # NoOption /\ o.car \in Fleet /\ o.car \in Nat /\ o.car # 0 /\ o.price \in Nat
           /\ o.dates \in TripDates /\ o.dates \in Nat /\ o.dates # 0 /\ o.pickup \in DraftPlaces
           /\ \A p \in Nat : /\ [o EXCEPT !.price = p] \in Options
                             /\ [o EXCEPT !.price = p].price = p
                             /\ [o EXCEPT !.price = p].car = o.car
  BY ConversationConstants DEF Options, NoOption, ConversationConstants

(* What is understood of a message fills the fields of a draft.            *)
LEMMA PatchFacts ==
    ASSUME NEW x \in Extractions
    PROVE  /\ \A f \in DOMAIN x.patch : x.patch[f] \in Nat
           /\ "dates" \in DOMAIN x.patch => x.patch["dates"] \in {0} \cup TripDates
           /\ \A a \in AddressFields \cap DOMAIN x.patch : x.patch[a] \in DraftPlaces
           /\ x.others \in BOOLEAN
  <1>1. x.patch \in Patches /\ x.others \in BOOLEAN
    BY DEF Extractions
  <1>2. CASE x.patch = NoPatch
    <2>1. DOMAIN x.patch = {}
      BY <1>2 DEF NoPatch
    <2> QED BY <1>1, <2>1
  <1>3. CASE x.patch \in LongPatches
    BY <1>1, <1>3, PatchesAssumption DEF PatchesAssumption, DraftPlaces
  <1>4. CASE \E c \in Fleet : x.patch = [f \in {"wants"} |-> c]
    BY <1>1, <1>4, ConversationConstants DEF ConversationConstants, AddressFields
  <1> QED BY <1>1, <1>2, <1>3, <1>4 DEF Patches

(* The draft after a merge.                                                 *)
LEMMA MergedDraft ==
    ASSUME NEW d \in Drafts, NEW x \in Extractions, NEW text
    PROVE  LET given == [f \in DraftFields |->
                           IF shouldApplyDraftPatch(x.intent) /\ f \in DOMAIN x.patch
                           THEN x.patch[f] ELSE d[f]]
           IN  applyDerivedDraftFields(given, text) \in Drafts
  <1> DEFINE given == [f \in DraftFields |->
                         IF shouldApplyDraftPatch(x.intent) /\ f \in DOMAIN x.patch
                         THEN x.patch[f] ELSE d[f]]
  <1>1. given \in Drafts
    <2>1. \A f \in DraftFields : given[f] \in Nat
      BY PatchFacts, DraftFacts
    <2>2. given["dates"] \in {0} \cup TripDates
      BY PatchFacts, DraftFacts DEF DraftFields
    <2>3. given["pickup"] \in DraftPlaces /\ given["dropoff"] \in DraftPlaces
      BY PatchFacts, DraftFacts DEF DraftFields, AddressFields
    <2> HIDE DEF given
    <2>4. given \in [DraftFields -> Nat]
      BY <2>1 DEF given
    <2> QED BY <2>2, <2>3, <2>4 DEF Drafts
  <1> HIDE DEF given
  <1>2. [given EXCEPT !["dropoff"] = given["pickup"]] \in Drafts
    BY <1>1 DEF Drafts, DraftFields
  <1>3. applyDerivedDraftFields(given, text) \in Drafts
    BY <1>1, <1>2 DEF applyDerivedDraftFields
  <1> QED BY <1>3 DEF given

(* A merge keeps what the options are for, or drops them.                  *)
LEMMA MergeFits ==
    ASSUME NEW w \in Turns, NEW x \in Extractions, Offers(w.s)
    PROVE  LET m == mergeNode(w, x)
           IN  /\ m \in Turns /\ Offers(m.s) /\ m.heard = x
               /\ m.said = w.said /\ m.error = w.error /\ m.link = w.link
               /\ m.written = w.written
               /\ m.s.stage = w.s.stage /\ m.s.selected = w.s.selected
               /\ m.s.booking = w.s.booking /\ m.s.available \subseteq w.s.available
  <1> DEFINE s     == w.s
             given == [f \in DraftFields |->
                         IF shouldApplyDraftPatch(x.intent) /\ f \in DOMAIN x.patch
                         THEN x.patch[f] ELSE s.draft[f]]
             new   == applyDerivedDraftFields(given, w.said.text)
             moved == hasDraftChanged(s.draft, new)
             ck    == nextLocationValidationOnDraftMerge(s.checked, s.draft, new)
             t     == [s EXCEPT !.draft = new, !.checked = ck,
                                !.available = IF moved THEN {} ELSE s.available,
                                !.shown = IF moved THEN {} ELSE s.shown,
                                !.alternatives = mergePreferencesWithHint(s, x)]
  <1>1. s \in Sessions /\ s.draft \in Drafts
    BY TurnFields, SessionFields
  <1>2. new \in Drafts
    BY <1>1, MergedDraft
  <1>3. mergeNode(w, x) = [w EXCEPT !.heard = x, !.s = t]
    BY DEF mergeNode
  <1>4. ck \in [AddressFields -> {"unvalidated", "valid", "invalid"}]
    BY <1>1, SessionFields DEF nextLocationValidationOnDraftMerge
  <1>5. moved \in BOOLEAN /\ mergePreferencesWithHint(s, x) \in BOOLEAN
    BY <1>1, SessionFields, PatchFacts DEF mergePreferencesWithHint, hasDraftChanged
  <1>6. ~moved => new["dates"] = s.draft["dates"] /\ new["pickup"] = s.draft["pickup"]
    BY DEF hasDraftChanged
  <1> HIDE DEF given, new, moved, ck
  <1>7. /\ t.draft = new /\ t.stage = s.stage /\ t.selected = s.selected /\ t.booking = s.booking
        /\ t.available = (IF moved THEN {} ELSE s.available)
        /\ t.shown = (IF moved THEN {} ELSE s.shown) /\ t \in Sessions
    BY <1>1, <1>2, <1>4, <1>5, SessionFields DEF Sessions
  <1> HIDE DEF t
  <1>8. Offers(t)
    BY <1>5, <1>6, <1>7 DEF Offers
  <1>9. [w EXCEPT !.heard = x, !.s = t] \in Turns
    BY <1>7, TurnFields DEF Turns
  <1>10. t.available \subseteq s.available
    BY <1>5, <1>7
  <1> QED BY <1>3, <1>7, <1>8, <1>9, <1>10, TurnFields

(* The extractions there are.                                               *)
LEMMA PlainBuilt == \A i \in Intents : Plain(i) \in Extractions /\ Plain(i).intent = i
  BY DEF Plain, Extraction, Extractions, Patches, Intents

(* The extractions of the control phrases and buttons are extractions.     *)
LEMMA ControlsBuilt ==
    /\ Extraction("reject", NoPatch, 0, TRUE, TRUE) \in Extractions
    /\ Extraction("reject", NoPatch, 0, TRUE, TRUE).intent = "reject"
    /\ Extraction("cancel", NoPatch, 0, FALSE, FALSE) \in Extractions
    /\ Extraction("cancel", NoPatch, 0, FALSE, FALSE).intent = "cancel"
    /\ Extraction("cancel", NoPatch, 0, FALSE, TRUE) \in Extractions
    /\ Extraction("cancel", NoPatch, 0, FALSE, TRUE).intent = "cancel"
  <1>1. NoPatch \in Patches
    BY DEF Patches
  <1>2. /\ Extraction("reject", NoPatch, 0, TRUE, TRUE) \in Extractions
        /\ Extraction("reject", NoPatch, 0, TRUE, TRUE).intent = "reject"
    BY <1>1 DEF Extraction, Extractions, Intents
  <1>3. /\ Extraction("cancel", NoPatch, 0, FALSE, FALSE) \in Extractions
        /\ Extraction("cancel", NoPatch, 0, FALSE, FALSE).intent = "cancel"
    BY <1>1 DEF Extraction, Extractions, Intents
  <1>4. /\ Extraction("cancel", NoPatch, 0, FALSE, TRUE) \in Extractions
        /\ Extraction("cancel", NoPatch, 0, FALSE, TRUE).intent = "cancel"
    BY <1>1 DEF Extraction, Extractions, Intents
  <1> QED BY <1>2, <1>3, <1>4

(* So are those that carry a patch or a choice of car.                     *)
LEMMA PatchesBuilt ==
    /\ \A p \in Patches : /\ Extraction("update_info", p, 0, FALSE, TRUE) \in Extractions
                          /\ Extraction("new_booking", p, 0, FALSE, TRUE) \in Extractions
    /\ \A c \in Fleet : /\ Extraction("select_option", NoPatch, c, FALSE, TRUE) \in Extractions
                        /\ Extraction("select_option", [f \in {"wants"} |-> c], c, FALSE, TRUE) \in Extractions
  <1>1. Fleet \subseteq Nat
    BY ConversationConstants DEF ConversationConstants
  <1>2. NoPatch \in Patches /\ \A c \in Fleet : [f \in {"wants"} |-> c] \in Patches
    BY DEF Patches
  <1>3. ASSUME NEW p \in Patches
        PROVE  /\ Extraction("update_info", p, 0, FALSE, TRUE) \in Extractions
               /\ Extraction("new_booking", p, 0, FALSE, TRUE) \in Extractions
    BY DEF Extraction, Extractions, Intents
  <1>4. ASSUME NEW p \in Patches, NEW c \in Nat
        PROVE  Extraction("select_option", p, c, FALSE, TRUE) \in Extractions
    BY DEF Extraction, Extractions, Intents
  <1>5. ASSUME NEW c \in Fleet
        PROVE  /\ Extraction("select_option", NoPatch, c, FALSE, TRUE) \in Extractions
               /\ Extraction("select_option", [f \in {"wants"} |-> c], c, FALSE, TRUE) \in Extractions
    BY <1>1, <1>2, <1>4
  <1> QED BY <1>3, <1>5

(* What the extractor returns is typed, and a control phrase in the         *)
(* confirming stage is always understood as one.                           *)
Controls(text) == isLikelyAffirmativeControl(text) \/ isLikelyNegativeControl(text)

(* What a message may be understood as is an extraction; where a price     *)
(* waits to be confirmed, a control phrase is understood as an answer to   *)
(* that.                                                                   *)
LEMMA ExtractedFits ==
    ASSUME NEW w \in Turns, NEW x \in extract(w)
    PROVE  /\ x \in Extractions
           /\ w.s.stage = "confirming" /\ Controls(w.said.text) =>
                 x.intent \in {"confirm", "reject", "cancel"}
  <1> DEFINE m == w.said
  <1>1. Fleet \subseteq Nat \ {0}
    BY ConversationConstants DEF ConversationConstants
  <1>2. /\ NoPatch \in Patches /\ LongPatches \subseteq Patches
        /\ \A c \in Fleet : [f \in {"wants"} |-> c] \in Patches
    BY DEF Patches
  <1>3. m \in Messages /\ \A o \in w.s.shown : o.car \in Fleet
    BY TurnFields, SessionFields, OptionFacts
  <1> HIDE DEF m
  <1>4. CASE m.button # 0
    <2>1. x = handleInteractiveReply(m.button, w.s.shown)
      BY <1>4 DEF extract, m
    <2>2. CASE \E o \in w.s.shown : o.car = m.button
      <3>1. m.button \in Fleet /\ x = Extraction("select_option", [f \in {"wants"} |-> m.button], m.button, FALSE, TRUE)
        BY <1>3, <2>1, <2>2 DEF handleInteractiveReply
      <3>2. m.text = "other"
        BY <1>1, <1>3, <3>1 DEF Messages
      <3>3. x \in Extractions
        BY <3>1, PatchesBuilt
      <3> QED BY <3>2, <3>3 DEF Controls, isLikelyAffirmativeControl, isLikelyNegativeControl, m
    <2>3. CASE ~\E o \in w.s.shown : o.car = m.button
      <3>1. x = BUTTON_RESULT_MAP(m.button)
        BY <2>1, <2>3 DEF handleInteractiveReply
      <3>2. x \in Extractions
        BY <3>1, PlainBuilt, ControlsBuilt DEF BUTTON_RESULT_MAP, Intents
      <3>3. Controls(m.text) => m.button \in {-1, -2, -3}
        BY <1>1, <1>3, <1>4 DEF Controls, isLikelyAffirmativeControl, isLikelyNegativeControl, Messages
      <3>4. m.button \in {-1, -2, -3} => x.intent \in {"confirm", "reject"}
        <4>1. m.button = -1 => x = Plain("confirm")
          BY <3>1 DEF BUTTON_RESULT_MAP
        <4>2. m.button = -2 => x = Plain("reject")
          BY <3>1 DEF BUTTON_RESULT_MAP
        <4>3. m.button = -3 => x = Extraction("reject", NoPatch, 0, TRUE, TRUE)
          BY <3>1 DEF BUTTON_RESULT_MAP
        <4>4. Plain("confirm").intent = "confirm" /\ Plain("reject").intent = "reject"
          BY PlainBuilt DEF Intents
        <4>5. Extraction("reject", NoPatch, 0, TRUE, TRUE).intent = "reject"
          BY ControlsBuilt
        <4> QED BY <4>1, <4>2, <4>3, <4>4, <4>5
      <3> QED BY <3>2, <3>3, <3>4 DEF m
    <2> QED BY <2>2, <2>3
  <1>5. CASE m.button = 0
    <2> DEFINE fixed == getDeterministicTextResult(m.text, w.s.stage)
    <2>1. x \in (IF fixed # {} THEN fixed ELSE Understood)
      BY <1>5 DEF extract, m
    <2>2. fixed \subseteq Extractions
      <3>1. /\ w.s.stage = "confirming" => (w.s.stage # "confirming") = FALSE
            /\ w.s.stage # "confirming" => (w.s.stage # "confirming") = TRUE
        OBVIOUS
      <3>2. Extraction("cancel", NoPatch, 0, FALSE, w.s.stage # "confirming") \in Extractions
        BY <3>1, ControlsBuilt
      <3>3. \A i \in {"request_agent", "confirm", "reject"} : {Plain(i)} \subseteq Extractions
        BY PlainBuilt DEF Intents
      <3> QED BY <3>2, <3>3
              DEF getDeterministicTextResult, isLikelyAffirmativeControl, isLikelyNegativeControl,
                  isAgentRequestControl, isBareCancelControl
    <2>3. Understood \subseteq Extractions
      <3>1. \A i \in {"greeting", "reset", "confirm", "reject", "cancel", "unknown"} : Plain(i) \in Extractions
        BY PlainBuilt DEF Intents
      <3>2. \A c \in Fleet : Extraction("select_option", NoPatch, c, FALSE, TRUE) \in Extractions
        BY PatchesBuilt
      <3>3. \A p \in LongPatches \cup {NoPatch} :
               /\ Extraction("update_info", p, 0, FALSE, TRUE) \in Extractions
               /\ Extraction("new_booking", p, 0, FALSE, TRUE) \in Extractions
        BY <1>2, PatchesBuilt
      <3>4. Extraction("reject", NoPatch, 0, TRUE, TRUE) \in Extractions
        BY ControlsBuilt
      <3> QED BY <3>1, <3>2, <3>3, <3>4 DEF Understood
    <2>4. w.s.stage = "confirming" /\ Controls(m.text) =>
             fixed # {} /\ \A y \in fixed : y.intent \in {"confirm", "reject", "cancel"}
      <3>1. w.s.stage = "confirming" =>
               Extraction("cancel", NoPatch, 0, FALSE, w.s.stage # "confirming").intent = "cancel"
        BY ControlsBuilt
      <3>2. Plain("confirm").intent = "confirm" /\ Plain("reject").intent = "reject"
        BY PlainBuilt DEF Intents
      <3>3. CASE m.text = "cancel"
        BY <3>1, <3>3 DEF getDeterministicTextResult, isAgentRequestControl, isBareCancelControl
      <3>4. CASE m.text = "yes"
        BY <3>2, <3>4 DEF getDeterministicTextResult, isLikelyAffirmativeControl,
                          isAgentRequestControl, isBareCancelControl
      <3>5. CASE m.text = "no"
        BY <3>2, <3>5 DEF getDeterministicTextResult, isLikelyAffirmativeControl,
                          isLikelyNegativeControl, isAgentRequestControl, isBareCancelControl
      <3> QED BY <3>3, <3>4, <3>5 DEF Controls, isLikelyAffirmativeControl, isLikelyNegativeControl
    <2> HIDE DEF fixed
    <2> QED BY <2>1, <2>2, <2>3, <2>4 DEF m
  <1> QED BY <1>4, <1>5

(* What the router may decide: the session still fits what it offers, and  *)
(* sells nothing new; a stage to be saved has its backing; a search starts *)
(* without options, or ends without because the draft misses an address.   *)
RouteEnds == {"search", "create_booking", "handoff", "respond"}

Decided(w, d) ==
    /\ d = To(d.next, d.s) /\ d.next \in RouteEnds
    /\ d.s \in Sessions /\ Offers(d.s) /\ d.s.booking = w.s.booking
    /\ Sellable(d.s) \subseteq Sellable(w.s)
    /\ d.next = "search" => \/ d.s.available = {}
                            \/ d.s.draft["pickup"] = 0 \/ d.s.draft["dropoff"] = 0
    /\ d.next = "create_booking" => /\ d.s = w.s /\ w.s.selected # NoOption
                                    /\ w.heard.intent = "confirm"
    /\ d.next = "respond" => /\ d.s.stage \in TalkStages \ {"awaiting_payment"}
                             /\ d.s.stage = "confirming" => d.s.selected # NoOption
                             /\ d.s.stage = "presenting_options" => d.s.available # {}
    /\ d.next = "respond" /\ d.s.stage = "collecting" /\ w.heard.intent # "new_booking" =>
          \/ d.s.available = {} \/ d.s.draft["pickup"] = 0 \/ d.s.draft["dropoff"] = 0

(* A session without options is a session.                                 *)
LEMMA Cleared ==
    ASSUME NEW s \in Sessions
    PROVE  LET c == ClearOptions(s)
           IN  /\ c \in Sessions /\ c.available = {} /\ c.shown = {} /\ c.selected = NoOption
               /\ c.draft = s.draft /\ c.stage = s.stage /\ c.booking = s.booking
               /\ c.checked = s.checked /\ c.alternatives = s.alternatives
  BY DEF ClearOptions, Sessions

(* A session with another stage is a session.                               *)
LEMMA Staged ==
    ASSUME NEW s \in Sessions, NEW g \in TalkStages \cup {"searching"}
    PROVE  LET t == [s EXCEPT !.stage = g]
           IN  /\ t \in Sessions /\ t.stage = g /\ t.available = s.available /\ t.shown = s.shown
               /\ t.selected = s.selected /\ t.draft = s.draft /\ t.booking = s.booking
               /\ t.checked = s.checked /\ t.alternatives = s.alternatives
               /\ Sellable(t) = Sellable(s) /\ (Offers(s) => Offers(t))
  <1> DEFINE t == [s EXCEPT !.stage = g]
  <1>1. /\ t \in Sessions /\ t.stage = g /\ t.available = s.available /\ t.shown = s.shown
        /\ t.selected = s.selected /\ t.draft = s.draft /\ t.booking = s.booking
        /\ t.checked = s.checked /\ t.alternatives = s.alternatives
    BY DEF Sessions
  <1> HIDE DEF t
  <1>2. Sellable(t) = Sellable(s) /\ (Offers(s) => Offers(t))
    BY <1>1 DEF Sellable, Offers
  <1> QED BY <1>1, <1>2 DEF t

(* A decision that drops all options fits, whatever its draft.             *)
LEMMA ClearDecided ==
    ASSUME NEW w \in Turns, NEW t \in Sessions, NEW n \in {"search", "respond"},
           t.available = {}, t.shown = {}, t.selected = NoOption, t.booking = w.s.booking,
           n = "respond" => t.stage \in {"greeting", "collecting"}
    PROVE  Decided(w, To(n, t))
  <1> DEFINE d == To(n, t)
  <1>1. d.next = n /\ d.s = t /\ d = To(d.next, d.s)
    BY DEF To
  <1>2. Offers(t) /\ Sellable(t) = {}
    BY DEF Offers, Sellable
  <1> HIDE DEF d
  <1> QED BY <1>1, <1>2 DEF Decided, RouteEnds, TalkStages, d

(* A decision that only sets the stage fits.                                *)
LEMMA StageDecided ==
    ASSUME NEW w \in Turns, Offers(w.s), NEW g \in TalkStages \ {"awaiting_payment"},
           g = "confirming" => w.s.selected # NoOption,
           g = "presenting_options" => w.s.available # {},
           g = "collecting" => \/ w.s.available = {}
                               \/ w.s.draft["pickup"] = 0 \/ w.s.draft["dropoff"] = 0
    PROVE  Decided(w, To("respond", [w.s EXCEPT !.stage = g]))
  <1> DEFINE t == [w.s EXCEPT !.stage = g]
             d == To("respond", t)
  <1>1. d.next = "respond" /\ d.s = t /\ d = To(d.next, d.s)
    BY DEF To
  <1>2. /\ t \in Sessions /\ t.stage = g /\ t.available = w.s.available /\ t.shown = w.s.shown
        /\ t.selected = w.s.selected /\ t.draft = w.s.draft /\ t.booking = w.s.booking
        /\ Sellable(t) = Sellable(w.s) /\ Offers(t)
    BY TurnFields, Staged
  <1> HIDE DEF t, d
  <1> QED BY <1>1, <1>2 DEF Decided, RouteEnds, d, t

(* Starting over fits.                                                      *)
LEMMA ResetDecided ==
    ASSUME NEW w \in Turns
    PROVE  Decided(w, buildResetDecision(w.s))
  <1> DEFINE c == ClearOptions(w.s)
             t == [c EXCEPT !.stage = "greeting", !.draft = NoDraft, !.alternatives = FALSE]
  <1>1. NoDraft \in Drafts
    BY DEF NoDraft, Drafts, DraftFields, DraftPlaces
  <1>2. /\ c \in Sessions /\ c.available = {} /\ c.shown = {} /\ c.selected = NoOption
        /\ c.booking = w.s.booking
    BY TurnFields, Cleared
  <1> HIDE DEF c
  <1>3. /\ t \in Sessions /\ t.available = {} /\ t.shown = {} /\ t.selected = NoOption
        /\ t.booking = w.s.booking /\ t.stage = "greeting"
    BY <1>1, <1>2 DEF Sessions, TalkStages
  <1> HIDE DEF t
  <1>4. Decided(w, To("respond", t))
    BY <1>3, ClearDecided
  <1> QED BY <1>4 DEF buildResetDecision, t, c

(* A new booking starts from a draft that has only the patch.              *)
LEMMA NewBookingDecided ==
    ASSUME NEW w \in Turns
    PROVE  Decided(w, buildNewBookingDecision(w.s, w.heard.patch))
  <1> DEFINE c     == ClearOptions(w.s)
             patch == w.heard.patch
             dr    == [f \in DraftFields |-> IF f \in DOMAIN patch THEN patch[f] ELSE 0]
             t     == [c EXCEPT !.stage = "collecting", !.draft = dr]
  <1>1. dr \in Drafts
    <2>1. \A f \in DraftFields : dr[f] \in Nat
      BY TurnFields, PatchFacts
    <2>2. /\ dr["dates"] \in {0} \cup TripDates
          /\ dr["pickup"] \in DraftPlaces /\ dr["dropoff"] \in DraftPlaces
      BY TurnFields, PatchFacts DEF DraftFields, AddressFields, DraftPlaces
    <2>3. dr = [f \in DraftFields |-> dr[f]]
      OBVIOUS
    <2> HIDE DEF dr
    <2> QED BY <2>1, <2>2, <2>3 DEF Drafts
  <1>2. /\ c \in Sessions /\ c.available = {} /\ c.shown = {} /\ c.selected = NoOption
        /\ c.booking = w.s.booking
    BY TurnFields, Cleared
  <1> HIDE DEF c, dr
  <1>3. /\ t \in Sessions /\ t.available = {} /\ t.shown = {} /\ t.selected = NoOption
        /\ t.booking = w.s.booking /\ t.stage = "collecting"
    BY <1>1, <1>2 DEF Sessions, TalkStages
  <1> HIDE DEF t
  <1>4. Decided(w, To("respond", t))
    BY <1>3, ClearDecided
  <1> QED BY <1>4 DEF buildNewBookingDecision, t, c, dr

(* Selecting takes one of the options on offer.                             *)
LEMMA SelectionDecided ==
    ASSUME NEW w \in Turns, Offers(w.s), NEW d \in buildSelectionDecision(w.s, w.heard.hint)
    PROVE  Decided(w, d)
  <1>1. PICK o \in w.s.available :
           d = To("respond", [w.s EXCEPT !.stage = "confirming", !.selected = o])
    BY DEF buildSelectionDecision, resolveSelection
  <1> DEFINE t == [w.s EXCEPT !.stage = "confirming", !.selected = o]
  <1>2. o \in Options /\ o # NoOption
    BY TurnFields, SessionFields, OptionFacts
  <1>3. /\ t \in Sessions /\ t.stage = "confirming" /\ t.available = w.s.available
        /\ t.shown = w.s.shown /\ t.selected = o /\ t.draft = w.s.draft /\ t.booking = w.s.booking
    BY <1>2, TurnFields DEF Sessions, TalkStages
  <1> HIDE DEF t
  <1>4. Offers(t) /\ Sellable(t) \subseteq Sellable(w.s)
    BY <1>3 DEF Offers, Sellable
  <1>5. d.next = "respond" /\ d.s = t /\ d = To(d.next, d.s)
    BY <1>1 DEF To, t
  <1> QED BY <1>2, <1>3, <1>4, <1>5 DEF Decided, RouteEnds, TalkStages

(* Turning down what is offered drops the options.                         *)
LEMMA RejectDecided ==
    ASSUME NEW w \in Turns
    PROVE  Decided(w, buildRejectDecision(w.s, w.heard.others))
  <1> DEFINE c == ClearOptions(w.s)
  <1>1. /\ c \in Sessions /\ c.available = {} /\ c.shown = {} /\ c.selected = NoOption
        /\ c.booking = w.s.booking
    BY TurnFields, Cleared
  <1> HIDE DEF c
  <1>2. ASSUME NEW g \in {"searching", "collecting"}
        PROVE  LET t == [c EXCEPT !.stage = g]
               IN  /\ t \in Sessions /\ t.available = {} /\ t.shown = {} /\ t.selected = NoOption
                   /\ t.booking = w.s.booking /\ t.stage = g
    BY <1>1, Staged DEF TalkStages
  <1>3. Decided(w, To("search", [c EXCEPT !.stage = "searching"]))
    BY <1>2, ClearDecided
  <1>4. Decided(w, To("respond", [c EXCEPT !.stage = "collecting"]))
    BY <1>2, ClearDecided
  <1> QED BY <1>3, <1>4 DEF buildRejectDecision, c

(* Without an intent that decides, what the draft misses does.              *)
LEMMA FallbackDecided ==
    ASSUME NEW w \in Turns, Offers(w.s)
    PROVE  Decided(w, resolveFallbackDecision(w.s))
  <1> DEFINE s == w.s
  <1>1. s \in Sessions /\ \A o \in s.available : o.dates # 0
    BY TurnFields, SessionFields, OptionFacts
  <1>2. CASE getMissingRequiredFields(s.draft) # {}
    <2>1. s.available = {} \/ s.draft["pickup"] = 0 \/ s.draft["dropoff"] = 0
      BY <1>1, <1>2 DEF getMissingRequiredFields, Offers
    <2>2. Decided(w, To("respond", [s EXCEPT !.stage = "collecting"]))
      BY <2>1, StageDecided DEF TalkStages
    <2> QED BY <1>2, <2>2 DEF resolveFallbackDecision
  <1>3. CASE getMissingRequiredFields(s.draft) = {} /\ s.available = {}
    <2> DEFINE t == [s EXCEPT !.stage = "searching"]
               d == To("search", t)
    <2>1. /\ t \in Sessions /\ t.available = {} /\ t.booking = s.booking
          /\ Sellable(t) = Sellable(s) /\ Offers(t)
      BY <1>1, <1>3, Staged
    <2>2. d.next = "search" /\ d.s = t /\ d = To(d.next, d.s)
      BY DEF To
    <2> HIDE DEF t, d
    <2>3. Decided(w, d)
      BY <2>1, <2>2 DEF Decided, RouteEnds
    <2> QED BY <1>3, <2>3 DEF resolveFallbackDecision, d, t
  <1>4. CASE getMissingRequiredFields(s.draft) = {} /\ s.available # {}
    <2>1. Decided(w, To("respond", [s EXCEPT !.stage = "presenting_options"]))
      BY <1>4, StageDecided DEF TalkStages
    <2> QED BY <1>4, <2>1 DEF resolveFallbackDecision
  <1> QED BY <1>2, <1>3, <1>4

(* Every decision an intent leads to fits.                                  *)
LEMMA IntentDecided ==
    ASSUME NEW w \in Turns, Offers(w.s), NEW d \in resolveIntentDecision(w)
    PROVE  Decided(w, d)
  <1> DEFINE s == w.s
             x == w.heard
  <1>1. CASE x.intent = "request_agent"
    <2>1. d = To("handoff", s)
      BY <1>1 DEF resolveIntentDecision
    <2>2. d.next = "handoff" /\ d.s = s /\ d = To(d.next, d.s)
      BY <2>1 DEF To
    <2> QED BY <2>2, TurnFields DEF Decided, RouteEnds
  <1>2. CASE x.intent = "cancel"
    <2> DEFINE g == IF shouldClarifyCancelIntent(w) THEN "confirming" ELSE "cancelled"
    <2>1. d = To("respond", [s EXCEPT !.stage = g])
      BY <1>2 DEF resolveIntentDecision
    <2>2. g \in {"confirming", "cancelled"} /\ (g = "confirming" => w.s.selected # NoOption)
      BY DEF shouldClarifyCancelIntent
    <2> HIDE DEF g
    <2> QED BY <2>1, <2>2, StageDecided DEF TalkStages
  <1>3. CASE x.intent = "reset"
    BY <1>3, ResetDecided DEF resolveIntentDecision
  <1>4. CASE x.intent = "new_booking"
    BY <1>4, NewBookingDecided DEF resolveIntentDecision
  <1>5. CASE x.intent = "greeting"
    <2>1. d = buildGreetingDecision(s)
      BY <1>5 DEF resolveIntentDecision
    <2>2. CASE s.stage \in {"cancelled", "awaiting_payment"}
      BY <2>1, <2>2, ResetDecided DEF buildGreetingDecision
    <2>3. CASE s.stage \notin {"cancelled", "awaiting_payment"}
      BY <2>1, <2>3, StageDecided DEF buildGreetingDecision, TalkStages
    <2> QED BY <2>2, <2>3
  <1>6. CASE x.intent = "select_option"
    <2>1. d \in buildSelectionDecision(s, x.hint)
      BY <1>6 DEF resolveIntentDecision
    <2> QED BY <2>1, SelectionDecided
  <1>7. CASE x.intent = "confirm"
    <2>1. d = To("create_booking", s) /\ s.selected # NoOption
      BY <1>7 DEF resolveIntentDecision
    <2>2. d.next = "create_booking" /\ d.s = s /\ d = To(d.next, d.s)
      BY <2>1 DEF To
    <2> QED BY <1>7, <2>1, <2>2, TurnFields DEF Decided, RouteEnds
  <1>8. CASE x.intent = "reject"
    BY <1>8, RejectDecided DEF resolveIntentDecision
  <1>9. CASE x.intent \notin {"request_agent", "cancel", "reset", "new_booking", "greeting",
                              "select_option", "confirm", "reject"}
    BY <1>9 DEF resolveIntentDecision
  <1> QED BY <1>1, <1>2, <1>3, <1>4, <1>5, <1>6, <1>7, <1>8, <1>9

(* In the confirming stage the intent of a control phrase decides, so that  *)
(* the guard of the stage is never asked.                                   *)
Settles(w) ==
    w.s.stage = "confirming" /\ Controls(w.said.text) =>
        w.heard.intent \in {"confirm", "reject", "cancel"}

(* The decision taken fits, whichever rule takes it.                       *)
LEMMA RouteDecided ==
    ASSUME NEW w \in Turns, Offers(w.s), Settles(w)
    PROVE  Decided(w, resolveRouteDecision(w))
  <1> DEFINE first == resolveIntentDecision(w)
             guard == getDeterministicStageGuard(w)
             ends  == IF first # {} THEN first
                      ELSE IF guard # {} THEN guard ELSE {resolveFallbackDecision(w.s)}
  <1>1. first = {} => guard = {}
    <2>1. CASE w.s.stage # "confirming" \/ w.s.selected = NoOption
      BY <2>1 DEF getDeterministicStageGuard
    <2>2. CASE w.s.stage = "confirming" /\ w.s.selected # NoOption /\ ~Controls(w.said.text)
      BY <2>2 DEF getDeterministicStageGuard, Controls
    <2>3. CASE w.s.stage = "confirming" /\ w.s.selected # NoOption /\ Controls(w.said.text)
      <3>1. w.heard.intent \in {"confirm", "reject", "cancel"}
        BY <2>3 DEF Settles
      <3>2. first # {}
        BY <2>3, <3>1 DEF resolveIntentDecision
      <3> QED BY <3>2
    <2> QED BY <2>1, <2>2, <2>3
  <1>2. ends # {} /\ \A d \in ends : Decided(w, d)
    BY <1>1, IntentDecided, FallbackDecided
  <1> HIDE DEF first, guard
  <1>3. (CHOOSE d \in ends : TRUE) \in ends
    BY <1>2
  <1>4. resolveRouteDecision(w) = CHOOSE d \in ends : TRUE
    BY DEF resolveRouteDecision, first, guard
  <1> QED BY <1>2, <1>3, <1>4

(* The route node decides, or answers with the error.                       *)
LEMMA RouteFits ==
    ASSUME NEW w \in Turns, Offers(w.s), Settles(w) \/ w.error
    PROVE  Decided(w, routeNode(w)) /\ (w.error => routeNode(w).next = "respond")
  <1>1. CASE w.error
    <2>1. routeNode(w) = To("respond", [w.s EXCEPT !.stage = "greeting"])
      BY <1>1 DEF routeNode
    <2>2. routeNode(w).next = "respond"
      BY <2>1 DEF To
    <2> QED BY <2>1, <2>2, StageDecided DEF TalkStages
  <1>2. CASE ~w.error
    <2> DEFINE d == resolveRouteDecision(w)
    <2>1. Decided(w, d)
      BY <1>2, RouteDecided
    <2> HIDE DEF d
    <2>2. CASE earlyPickupValidation(w, d)
      <3> DEFINE e == [d EXCEPT !.next = "search"]
      <3>1. routeNode(w) = e
        BY <1>2, <2>2 DEF routeNode, d
      <3>2. d = To(d.next, d.s) /\ e.next = "search" /\ e.s = d.s /\ e = To(e.next, e.s)
        BY <2>1 DEF Decided, To
      <3>3. d.next = "respond" /\ d.s.stage = "collecting" /\ w.heard.intent # "new_booking"
        BY <2>2 DEF earlyPickupValidation
      <3> HIDE DEF e
      <3> QED BY <1>2, <2>1, <3>1, <3>2, <3>3 DEF Decided, RouteEnds
    <2>3. CASE ~earlyPickupValidation(w, d)
      BY <1>2, <2>1, <2>3 DEF routeNode, d
    <2> QED BY <2>2, <2>3
  <1> QED BY <1>1, <1>2

(* What the search makes of the addresses: the pickup an option was made   *)
(* for is only replaced in a session that is searched anew.                *)
Searched(s, t) ==
    /\ t \in Sessions /\ t.stage = s.stage /\ t.selected = s.selected /\ t.booking = s.booking
    /\ t.available = s.available /\ t.shown = s.shown
    /\ t.draft["dates"] = s.draft["dates"]

(* A checked address is normalised only if it is found to be valid.        *)
LEMMA StatusFits ==
    ASSUME NEW p \in DraftPlaces, p # 0, NEW v \in Verdicts[Raw(p)]
    PROVE  /\ status(v) \in {"unvalidated", "valid", "invalid"}
           /\ normalized(p, v) \in DraftPlaces
           /\ status(v) = "invalid" => normalized(p, v) = p
  <1>1. Raw(p) \in DOMAIN Verdicts /\ Raw(p) + 10 \in DraftPlaces
    BY ConversationConstants DEF ConversationConstants, DraftPlaces, Raw
  <1>2. v \in {"valid", "invalid", "plain"}
    BY <1>1, ConversationConstants DEF ConversationConstants
  <1> QED BY <1>1, <1>2 DEF status, normalized

(* The check of the pickup address changes the draft in nothing but the    *)
(* addresses.                                                              *)
LEMMA PickupFits ==
    ASSUME NEW s \in Sessions, NEW u \in validateAndNormalizePickupLocation(s)
    PROVE  /\ Searched(s, u)
           /\ s.draft["dropoff"] = 0 =>
                 /\ u.draft["dropoff"] = 0
                 /\ \/ u.draft["pickup"] = s.draft["pickup"]
                    \/ u.checked["pickup"] # "invalid"
           /\ s.draft["pickup"] = 0 => u = s
  <1>1. CASE ~shouldValidateLocationField(s, "pickup")
    <2>1. u = s
      BY <1>1 DEF validateAndNormalizePickupLocation
    <2> QED BY <2>1 DEF Searched
  <1>2. CASE shouldValidateLocationField(s, "pickup")
    <2> DEFINE pick == s.draft["pickup"]
    <2>1. PICK v \in Verdicts[Raw(pick)] :
             LET p    == normalized(pick, v)
                 same == s.draft["dropoff"] = pick /\ v = "valid"
             IN  u = [s EXCEPT !.draft["pickup"] = p, !.draft["dropoff"] = IF same THEN p ELSE @,
                               !.checked["pickup"] = status(v),
                               !.checked["dropoff"] = IF same THEN "valid" ELSE @]
      BY <1>2 DEF validateAndNormalizePickupLocation
    <2>2. s.draft \in Drafts /\ pick \in DraftPlaces /\ pick # 0
      BY <1>2, SessionFields, DraftFacts DEF shouldValidateLocationField
    <2> DEFINE n  == normalized(pick, v)
               sm == s.draft["dropoff"] = pick /\ v = "valid"
               dr == [s.draft EXCEPT !["pickup"] = n, !["dropoff"] = IF sm THEN n ELSE @]
               ck == [s.checked EXCEPT !["pickup"] = status(v), !["dropoff"] = IF sm THEN "valid" ELSE @]
    <2>3. /\ n \in DraftPlaces /\ status(v) \in {"unvalidated", "valid", "invalid"}
          /\ status(v) = "invalid" => n = pick
      BY <2>2, StatusFits
    <2>4. n \in Nat
      BY <2>3, ConversationConstants DEF ConversationConstants, DraftPlaces
    <2>5. u = [s EXCEPT !.draft = dr, !.checked = ck]
      <3>1. CASE sm
        BY <2>1, <3>1
      <3>2. CASE ~sm
        BY <2>1, <3>2, <2>2, SessionFields DEF Drafts, DraftFields, AddressFields
      <3> QED BY <3>1, <3>2
    <2>6. sm \in BOOLEAN /\ (s.draft["dropoff"] = 0 => ~sm)
      BY <2>2
    <2> HIDE DEF n, sm
    <2>7. /\ dr \in Drafts /\ dr["dates"] = s.draft["dates"] /\ dr["pickup"] = n
          /\ ~sm => dr["dropoff"] = s.draft["dropoff"]
      BY <2>2, <2>3, <2>4, <2>6 DEF Drafts, DraftFields
    <2>8. /\ ck \in [AddressFields -> {"unvalidated", "valid", "invalid"}]
          /\ ck["pickup"] = status(v)
      BY <2>3, <2>6, SessionFields DEF AddressFields
    <2> HIDE DEF dr, ck
    <2>9. /\ u \in Sessions /\ u.draft = dr /\ u.checked = ck /\ u.stage = s.stage
          /\ u.selected = s.selected /\ u.booking = s.booking
          /\ u.available = s.available /\ u.shown = s.shown
      BY <2>5, <2>7, <2>8 DEF Sessions
    <2> QED BY <2>2, <2>3, <2>6, <2>7, <2>8, <2>9 DEF Searched
  <1> QED BY <1>1, <1>2

(* Nor does that of the dropoff, which leaves the pickup as it is.         *)
LEMMA DropoffFits ==
    ASSUME NEW u \in Sessions, NEW t \in validateAndNormalizeDropoffLocation(u)
    PROVE  /\ Searched(u, t) /\ t.draft["pickup"] = u.draft["pickup"]
           /\ u.draft["pickup"] = 0 \/ u.draft["dropoff"] = 0 => t = u
  <1> DEFINE pickup == u.draft["pickup"]
             drop   == u.draft["dropoff"]
             like   == u.checked["pickup"]
  <1>1. CASE pickup = 0 \/ drop = 0
    <2>1. t = u
      BY <1>1 DEF validateAndNormalizeDropoffLocation
    <2> QED BY <2>1 DEF Searched
  <1>2. CASE ~(pickup = 0 \/ drop = 0) /\ pickup = drop /\ like \in {"valid", "invalid"}
    <2>1. t = [u EXCEPT !.checked["dropoff"] = like]
      BY <1>2 DEF validateAndNormalizeDropoffLocation
    <2> DEFINE ck == [u.checked EXCEPT !["dropoff"] = like]
    <2>2. ck \in [AddressFields -> {"unvalidated", "valid", "invalid"}]
      BY <1>2, SessionFields DEF AddressFields
    <2>3. t = [u EXCEPT !.checked = ck]
      BY <2>1
    <2> HIDE DEF ck
    <2> QED BY <1>2, <2>2, <2>3 DEF Searched, Sessions
  <1>3. CASE /\ ~(pickup = 0 \/ drop = 0) /\ ~(pickup = drop /\ like \in {"valid", "invalid"})
             /\ ~shouldValidateLocationField(u, "dropoff")
    <2>1. t = u
      BY <1>3 DEF validateAndNormalizeDropoffLocation
    <2> QED BY <1>3, <2>1 DEF Searched
  <1>4. CASE /\ ~(pickup = 0 \/ drop = 0) /\ ~(pickup = drop /\ like \in {"valid", "invalid"})
             /\ shouldValidateLocationField(u, "dropoff")
    <2>1. PICK v \in Verdicts[Raw(drop)] :
             t = [u EXCEPT !.draft["dropoff"] = normalized(drop, v), !.checked["dropoff"] = status(v)]
      BY <1>4 DEF validateAndNormalizeDropoffLocation
    <2> DEFINE n  == normalized(drop, v)
               dr == [u.draft EXCEPT !["dropoff"] = n]
               ck == [u.checked EXCEPT !["dropoff"] = status(v)]
    <2>2. n \in DraftPlaces /\ status(v) \in {"unvalidated", "valid", "invalid"} /\ n \in Nat
      BY <1>4, SessionFields, DraftFacts, StatusFits, ConversationConstants
         DEF ConversationConstants, DraftPlaces
    <2>3. t = [u EXCEPT !.draft = dr, !.checked = ck]
      BY <2>1
    <2> HIDE DEF n
    <2>4. dr \in Drafts /\ dr["pickup"] = pickup /\ dr["dates"] = u.draft["dates"]
      BY <2>2, SessionFields DEF Drafts, DraftFields
    <2>5. ck \in [AddressFields -> {"unvalidated", "valid", "invalid"}]
      BY <2>2, SessionFields DEF AddressFields
    <2> HIDE DEF dr, ck
    <2> QED BY <1>4, <2>3, <2>4, <2>5 DEF Searched, Sessions
  <1> QED BY <1>1, <1>2, <1>3, <1>4

(* What both checks leave; options that are kept still have their pickup.  *)
LEMMA AddressesFit ==
    ASSUME NEW s \in Sessions, NEW t \in validateAndNormalizeLocations(s),
           \/ s.available = {} \/ s.draft["pickup"] = 0 \/ s.draft["dropoff"] = 0
    PROVE  /\ Searched(s, t)
           /\ newlyInvalid(s, t) => s.available = {} \/ t.draft["pickup"] = s.draft["pickup"]
  <1>1. PICK u \in validateAndNormalizePickupLocation(s) : t \in validateAndNormalizeDropoffLocation(u)
    BY DEF validateAndNormalizeLocations
  <1>2. Searched(s, u) /\ u \in Sessions
    BY PickupFits DEF Searched
  <1>3. Searched(u, t)
    BY <1>1, <1>2, DropoffFits
  <1>4. Searched(s, t)
    BY <1>2, <1>3 DEF Searched
  <1>5. CASE s.draft["pickup"] = 0
    <2>1. u = s
      BY <1>5, PickupFits
    <2>2. t = u
      BY <1>1, <1>2, <1>5, <2>1, DropoffFits
    <2> QED BY <1>4, <2>1, <2>2
  <1>6. CASE s.draft["dropoff"] = 0
    <2>1. /\ u.draft["dropoff"] = 0
          /\ u.draft["pickup"] = s.draft["pickup"] \/ u.checked["pickup"] # "invalid"
      BY <1>6, PickupFits
    <2>2. t = u
      BY <1>1, <1>2, <2>1, DropoffFits
    <2>3. newlyInvalid(s, t) => t.checked["pickup"] = "invalid"
      BY <1>6 DEF newlyInvalid, shouldValidateLocationField
    <2> QED BY <1>4, <2>1, <2>2, <2>3
  <1> QED BY <1>4, <1>5, <1>6

(* What a step that makes no booking keeps of them.                         *)
LEMMA BookingsKept ==
    ASSUME TalkInv, made' = made, texts' \in Nat, texts <= texts',
           quoted \subseteq quoted', unsaid \subseteq unsaid'
    PROVE  KeysOfTexts' /\ OneBookingPerMessage' /\ BookedAtToldPrice'
  <1>1. texts \in Nat
    BY DEF TalkInv, TalkTypes
  <1>2. \A b \in made : b.text \in 1..texts => b.text \in 1..texts'
    BY <1>1
  <1>3. KeysOfTexts'
    BY <1>2 DEF TalkInv, KeysOfTexts
  <1>4. OneBookingPerMessage'
    BY DEF TalkInv, OneBookingPerMessage
  <1>5. BookedAtToldPrice'
    BY DEF TalkInv, BookedAtToldPrice
  <1> QED BY <1>3, <1>4, <1>5

(* What a step that neither makes a booking nor starts a turn keeps of the  *)
(* links.                                                                   *)
LEMMA LinksKept ==
    ASSUME TalkInv, made' = made, linked \subseteq linked', slipped \subseteq slipped',
           \A b \in made : LinkAhead(b) => \/ b.key \in linked' \/ b.text \in slipped'
                                           \/ LinkAhead(b)'
    PROVE  LinksAhead'
  BY DEF TalkInv, LinksAhead

(* Nothing is said at first.                                                *)
LEMMA StartTyped == createInitialState \in Sessions /\ NoTurn \in Turns
  <1>1. NoDraft \in Drafts
    BY DEF NoDraft, Drafts, DraftFields, DraftPlaces
  <1>2. createInitialState \in Sessions
    BY <1>1 DEF createInitialState, Sessions, Unchecked, TalkStages
  <1>3. Plain("unknown") \in Extractions
    BY PlainBuilt DEF Intents
  <1>4. [button |-> 0, text |-> "other"] \in Messages
    BY DEF Messages
  <1>5. NoTurn \in Turns
    BY <1>2, <1>3, <1>4 DEF NoTurn, TurnOn, Turns
  <1> QED BY <1>2, <1>5

(* A message starts a turn on the saved session.                            *)
LEMMA TurnOnTyped ==
    ASSUME NEW s \in Sessions, NEW m \in Messages
    PROVE  LET w == TurnOn(s, m)
           IN  /\ w \in Turns /\ w.s = s /\ w.said = m /\ w.link = 0 /\ w.written = FALSE
               /\ w.error = FALSE
  <1>1. Plain("unknown") \in Extractions
    BY PlainBuilt DEF Intents
  <1> QED BY <1>1 DEF TurnOn, Turns

(* The invariant holds at first.                                           *)
LEMMA TalkStarts == CInit => TalkInv
  <1> SUFFICES ASSUME CInit PROVE TalkInv
    OBVIOUS
  <1>1. /\ chat = createInitialState /\ node = "idle" /\ turn = NoTurn /\ texts = 0
        /\ made = {} /\ linked = {} /\ rateNow = 1 /\ unsaid = {}
    BY DEF CInit, CInitWith
  <1>2. TalkTypes
    BY <1>1, StartTyped DEF TalkTypes
  <1>3. Offers(chat) /\ Backing(chat, made) /\ Sellable(chat) = {}
    BY <1>1 DEF Offers, Backing, Sellable, createInitialState, TalkStages
  <1>4. TurnFits /\ PricesTold
    BY <1>1, <1>3 DEF TurnFits, PricesTold, Told
  <1>5. KeysOfTexts /\ OneBookingPerMessage /\ BookedAtToldPrice /\ ButtonsRepeat /\ LinksAhead
    BY <1>1 DEF KeysOfTexts, OneBookingPerMessage, BookedAtToldPrice, ButtonsRepeat, LinksAhead
  <1> QED BY <1>2, <1>3, <1>4, <1>5 DEF TalkInv, ChatFits

(* A turn that starts works on the session as it was saved.                 *)
LEMMA TurnStarts ==
    ASSUME TalkInv, turn' = TurnOn(chat, turn'.said), turn'.said \in Messages, node' = "extract",
           chat' = chat, made' = made, quoted' = quoted, rateNow' = rateNow,
           texts' \in Nat, texts' # 0, texts <= texts', unsaid' \subseteq 0..texts',
           unsaid \subseteq unsaid', unsaid' = {} => node # "reply"
    PROVE  /\ TalkTypes' /\ ChatFits' /\ TurnFits' /\ PricesTold' /\ KeysOfTexts'
           /\ OneBookingPerMessage' /\ BookedAtToldPrice' /\ ButtonsRepeat'
  <1>1. chat \in Sessions /\ Offers(chat) /\ Backing(chat, made) /\ made \subseteq Booked /\ rateNow \in Nat
    BY DEF TalkInv, TalkTypes, ChatFits
  <1>2. turn' \in Turns /\ turn'.s = chat
    <2>1. \A m \in Messages : TurnOn(chat, m) \in Turns
      BY <1>1, TurnOnTyped
    <2>2. turn'.s = chat
      BY DEF TurnOn
    <2> QED BY <2>1, <2>2
  <1>3. TalkTypes'
    BY <1>1, <1>2 DEF TalkTypes
  <1>4. ChatFits' /\ TurnFits'
    BY <1>1, <1>2 DEF ChatFits, TurnFits, Offers
  <1>5. PricesTold'
    BY DEF TalkInv, PricesTold
  <1>6. ButtonsRepeat'
    BY DEF ButtonsRepeat
  <1> QED BY <1>3, <1>4, <1>5, <1>6, BookingsKept

(* A message is received between turns.                                    *)
LEMMA ReceiveKeeps ==
    ASSUME TalkInv, NEW m \in Messages, receive(m)
    PROVE  TalkInv'
  <1>1. /\ node = "idle" /\ texts' = texts + 1 /\ turn' = TurnOn(chat, m) /\ node' = "extract"
        /\ chat' = chat /\ made' = made /\ quoted' = quoted /\ rateNow' = rateNow
        /\ unsaid' = unsaid /\ linked' = linked /\ slipped' = slipped
    BY DEF receive, World, mergeWithExisting
  <1>2. chat \in Sessions /\ texts \in Nat /\ unsaid \subseteq 0..texts
    BY DEF TalkInv, TalkTypes
  <1>3. turn'.said = m
    BY <1>1, <1>2, TurnOnTyped
  <1>4. /\ TalkTypes' /\ ChatFits' /\ TurnFits' /\ PricesTold' /\ KeysOfTexts'
        /\ OneBookingPerMessage' /\ BookedAtToldPrice' /\ ButtonsRepeat'
    <2>1. texts' \in Nat /\ texts' # 0 /\ texts <= texts' /\ unsaid' \subseteq 0..texts'
      BY <1>1, <1>2
    <2> QED BY <1>1, <1>3, <2>1, TurnStarts
  <1>5. LinksAhead'
    BY <1>1, LinksKept DEF LinkAhead
  <1> QED BY <1>4, <1>5 DEF TalkInv

(* A worker that dies leaves the saved session and the message to run      *)
(* again.                                                                  *)
LEMMA DiesKeeps ==
    ASSUME TalkInv, agentDies
    PROVE  TalkInv'
  <1>1. /\ node # "idle" /\ node' = "extract" /\ turn' = TurnOn(chat, turn.said)
        /\ slipped' = (IF node = "reply" \/ turn.said.button = 0 THEN slipped \cup {texts} ELSE slipped)
        /\ unsaid' = (IF node = "reply" THEN unsaid \cup {texts} ELSE unsaid)
        /\ chat' = chat /\ texts' = texts /\ made' = made /\ quoted' = quoted
        /\ linked' = linked /\ rateNow' = rateNow
    BY DEF agentDies, mergeWithExisting
  <1>2. /\ chat \in Sessions /\ texts \in Nat /\ unsaid \subseteq 0..texts /\ turn.said \in Messages
        /\ texts # 0
    BY <1>1, TurnFields DEF TalkInv, TalkTypes, TurnFits
  <1>3. turn'.said = turn.said
    BY <1>1, <1>2, TurnOnTyped
  <1>4. /\ TalkTypes' /\ ChatFits' /\ TurnFits' /\ PricesTold' /\ KeysOfTexts'
        /\ OneBookingPerMessage' /\ BookedAtToldPrice' /\ ButtonsRepeat'
    <2>1. unsaid' \subseteq 0..texts' /\ unsaid \subseteq unsaid' /\ (unsaid' = {} => node # "reply")
      BY <1>1, <1>2
    <2> QED BY <1>1, <1>2, <1>3, <2>1, TurnStarts
  <1>5. ASSUME NEW b \in made, LinkAhead(b)
        PROVE  b.text \in slipped' \/ LinkAhead(b)'
    BY <1>1, <1>3, <1>5 DEF LinkAhead
  <1>6. LinksAhead'
    BY <1>1, <1>5, LinksKept
  <1> QED BY <1>4, <1>6 DEF TalkInv

(* The message is understood, merged and routed.                            *)
LEMMA UnderstandFits ==
    ASSUME TalkInv, node = "extract", NEW w \in Turns, NEW x \in Extractions,
           w.said = turn.said, w.link = 0, w.written = FALSE,
           Offers(w.s), Sellable(w.s) \subseteq Sellable(chat), w.s.booking = chat.booking,
           w.error \/ Settles(mergeNode(w, x)),
           turn.said.button # 0 => /\ w = TurnOn(chat, turn.said)
                                   /\ x = handleInteractiveReply(turn.said.button, chat.shown),
           Understand(mergeNode(w, x)),
           chat' = chat, texts' = texts, made' = made, quoted' = quoted, linked' = linked,
           rateNow' = rateNow, slipped' = slipped, unsaid' = unsaid
    PROVE  TalkInv'
  <1> DEFINE m == mergeNode(w, x)
             d == routeNode(m)
  <1>1. /\ m \in Turns /\ Offers(m.s) /\ m.heard = x /\ m.said = w.said /\ m.error = w.error
        /\ m.link = 0 /\ m.written = FALSE /\ m.s.selected = w.s.selected
        /\ m.s.booking = w.s.booking /\ m.s.available \subseteq w.s.available
    BY MergeFits
  <1>2. Decided(m, d) /\ (m.error => d.next = "respond")
    BY <1>1, RouteFits
  <1>3. node' = d.next /\ turn' = [m EXCEPT !.s = d.s]
    BY DEF Understand
  <1>4. turn.said.button # 0 => d = RunAgain(chat, turn.said)
    BY DEF RunAgain
  <1> HIDE DEF m, d
  <1>5. /\ d = To(d.next, d.s) /\ d.next \in RouteEnds /\ d.s \in Sessions /\ Offers(d.s)
        /\ d.s.booking = chat.booking /\ Sellable(d.s) \subseteq Sellable(chat)
    BY <1>1, <1>2 DEF Decided, Sellable
  <1>6. /\ turn' \in Turns /\ turn'.s = d.s /\ turn'.said = turn.said /\ turn'.heard = m.heard
        /\ turn'.error = m.error /\ turn'.link = 0 /\ turn'.written = FALSE
    BY <1>1, <1>3, <1>5, TurnFields DEF Turns
  <1>7. /\ chat \in Sessions /\ texts \in Nat /\ texts # 0 /\ rateNow \in Nat /\ made \subseteq Booked
        /\ unsaid \subseteq 0..texts /\ Offers(chat) /\ Backing(chat, made)
    BY DEF TalkInv, TalkTypes, ChatFits, TurnFits
  <1>8. TalkTypes' /\ ChatFits'
    BY <1>3, <1>5, <1>6, <1>7 DEF TalkTypes, ChatFits, RouteEnds
  <1>9. TurnFits'
    <2>1. d.next = "respond" => Backing(d.s, made)
      BY <1>2 DEF Decided, Backing
    <2>2. d.next = "create_booking" => d.s.selected # NoOption /\ m.heard.intent = "confirm" /\ ~m.error
      BY <1>2 DEF Decided
    <2>3. d.next = "search" => \/ d.s.available = {}
                               \/ d.s.draft["pickup"] = 0 \/ d.s.draft["dropoff"] = 0
      BY <1>2 DEF Decided
    <2> QED BY <1>3, <1>5, <1>6, <1>7, <2>1, <2>2, <2>3 DEF TurnFits, RouteEnds
  <1>10. PricesTold'
    <2>1. unsaid = {} => Told(chat, quoted)
      BY DEF TalkInv, PricesTold
    <2>2. unsaid = {} => Told(d.s, quoted)
      BY <1>5, <2>1 DEF Told
    <2> QED BY <1>3, <1>6, <2>1, <2>2 DEF PricesTold, Told
  <1>11. KeysOfTexts' /\ OneBookingPerMessage' /\ BookedAtToldPrice'
    BY <1>7, BookingsKept
  <1>12. ButtonsRepeat'
    BY <1>3, <1>4, <1>5, <1>6 DEF ButtonsRepeat, RouteEnds
  <1>13. LinksAhead'
    <2>1. ASSUME NEW b \in made, LinkAhead(b)
          PROVE  LinkAhead(b)'
      <3>1. turn.said.button # 0 /\ Repeats(RunAgain(chat, turn.said), rateNow, b) /\ b.text = texts
        BY <2>1 DEF LinkAhead
      <3>2. d.next = "create_booking"
        BY <1>4, <3>1 DEF Repeats
      <3> QED BY <1>3, <1>6, <3>1, <3>2 DEF LinkAhead
    <2> QED BY <2>1, LinksKept
  <1> QED BY <1>8, <1>9, <1>10, <1>11, <1>12, <1>13 DEF TalkInv

(* The message is understood from the session that was saved.              *)
LEMMA ExtractKeeps ==
    ASSUME TalkInv, extractNode
    PROVE  TalkInv'
  <1>1. PICK x \in extract(turn) : Understand(mergeNode(turn, x))
    BY DEF extractNode
  <1>2. /\ node = "extract" /\ chat' = chat /\ texts' = texts /\ made' = made /\ quoted' = quoted
        /\ linked' = linked /\ rateNow' = rateNow /\ slipped' = slipped /\ unsaid' = unsaid
    BY DEF extractNode, World
  <1>3. turn \in Turns /\ turn = TurnOn(chat, turn.said) /\ chat \in Sessions /\ Offers(chat)
    BY <1>2 DEF TalkInv, TalkTypes, TurnFits, ChatFits
  <1>4. turn.s = chat /\ turn.link = 0 /\ turn.written = FALSE
    BY <1>3 DEF TurnOn
  <1>5. x \in Extractions
    BY <1>3, ExtractedFits
  <1>6. Settles(mergeNode(turn, x))
    <2>1. /\ mergeNode(turn, x).s.stage = turn.s.stage /\ mergeNode(turn, x).said = turn.said
          /\ mergeNode(turn, x).heard = x
      BY <1>3, <1>4, <1>5, MergeFits
    <2> QED BY <1>3, <2>1, ExtractedFits DEF Settles
  <1>7. turn.said.button # 0 => x = handleInteractiveReply(turn.said.button, chat.shown)
    BY <1>1, <1>4 DEF extract
  <1> QED BY <1>1, <1>2, <1>3, <1>4, <1>5, <1>6, <1>7, UnderstandFits

(* When the model fails, the session starts over but for its booking.      *)
LEMMA ExtractFailedKeeps ==
    ASSUME TalkInv, extractNodeFailed
    PROVE  TalkInv'
  <1> DEFINE w == extractFailed(turn)
             x == Plain("unknown")
             t == [createInitialState EXCEPT !.booking = turn.s.booking]
  <1>1. /\ node = "extract" /\ chat' = chat /\ texts' = texts /\ made' = made /\ quoted' = quoted
        /\ linked' = linked /\ rateNow' = rateNow /\ slipped' = slipped /\ unsaid' = unsaid
        /\ turn.said.button = 0 /\ Understand(mergeNode(w, x))
    BY DEF extractNodeFailed, World
  <1>2. turn \in Turns /\ turn = TurnOn(chat, turn.said) /\ chat \in Sessions
    BY <1>1 DEF TalkInv, TalkTypes, TurnFits
  <1>3. turn.s = chat /\ turn.link = 0 /\ turn.written = FALSE
    BY <1>2 DEF TurnOn
  <1>4. x \in Extractions
    BY PlainBuilt DEF Intents
  <1>5. /\ t \in Sessions /\ t.available = {} /\ t.shown = {} /\ t.selected = NoOption
        /\ t.booking = chat.booking
    BY <1>2, <1>3, SessionFields, StartTyped DEF Sessions, createInitialState
  <1>6. w = [turn EXCEPT !.s = t, !.error = TRUE]
    BY DEF extractFailed
  <1> HIDE DEF t, w, x
  <1>7. /\ w \in Turns /\ w.s = t /\ w.said = turn.said /\ w.link = 0 /\ w.written = FALSE /\ w.error
    BY <1>2, <1>3, <1>5, <1>6 DEF Turns
  <1>8. Offers(w.s) /\ Sellable(w.s) \subseteq Sellable(chat)
    BY <1>5, <1>7 DEF Offers, Sellable
  <1> QED BY <1>1, <1>4, <1>5, <1>7, <1>8, UnderstandFits

(* A node that ends the turn without a booking.                             *)
LEMMA AnswerKeeps ==
    ASSUME TalkInv, node \notin {"idle", "reply"}, node' = "respond",
           turn' \in Turns, Offers(turn'.s), Backing(turn'.s, made),
           unsaid = {} => Told(turn'.s, quoted \cup generateResponse(turn')),
           chat' = chat, texts' = texts, made' = made, quoted' = quoted, linked' = linked,
           rateNow' = rateNow, unsaid' = unsaid, slipped \subseteq slipped',
           \A b \in made : LinkAhead(b) => b.text \in slipped' \/ LinkAhead(b)'
    PROVE  TalkInv'
  <1>1. /\ chat \in Sessions /\ texts \in Nat /\ texts # 0 /\ rateNow \in Nat /\ made \subseteq Booked
        /\ unsaid \subseteq 0..texts /\ Offers(chat) /\ Backing(chat, made)
    BY DEF TalkInv, TalkTypes, ChatFits, TurnFits
  <1>2. TalkTypes' /\ ChatFits' /\ TurnFits'
    BY <1>1 DEF TalkTypes, ChatFits, TurnFits
  <1>3. PricesTold'
    <2>1. unsaid = {} => Told(chat, quoted)
      BY DEF TalkInv, PricesTold
    <2> QED BY <2>1 DEF PricesTold
  <1>4. KeysOfTexts' /\ OneBookingPerMessage' /\ BookedAtToldPrice'
    BY <1>1, BookingsKept
  <1>5. ButtonsRepeat'
    BY DEF ButtonsRepeat
  <1>6. LinksAhead'
    BY LinksKept
  <1> QED BY <1>2, <1>3, <1>4, <1>5, <1>6 DEF TalkInv

(* The options a search finds are for the dates and the pickup it was      *)
(* asked for, at the present rate.                                         *)
LEMMA FoundFits ==
    ASSUME NEW d \in Drafts, d["dates"] # 0, rateNow \in Nat, NEW e
    PROVE  LET found == searchVehiclesFromExtracted(d, e)
           IN  /\ found \subseteq Options
               /\ \A o \in found : o.dates = d["dates"] /\ o.pickup = d["pickup"]
  <1>1. d["dates"] \in TripDates /\ d["pickup"] \in DraftPlaces
    BY DraftFacts
  <1>2. ASSUME NEW c \in Fleet
        PROVE  /\ Option(c, d) \in Options
               /\ Option(c, d).dates = d["dates"] /\ Option(c, d).pickup = d["pickup"]
    BY <1>1 DEF Option, Options
  <1>3. \A o \in searchVehiclesFromExtracted(d, e) : \E c \in Fleet : o = Option(c, d)
    BY DEF searchVehiclesFromExtracted, exactMatches, FreeCars
  <1> QED BY <1>2, <1>3

(* The search answers with what it found or with what it misses.            *)
LEMMA CollectingFits ==
    ASSUME NEW t \in Sessions
    PROVE  LET c == Collecting(t)
           IN  /\ c \in Sessions /\ c.available = {} /\ c.shown = {} /\ c.stage = "collecting"
               /\ c.selected = t.selected /\ c.booking = t.booking /\ Offers(c)
               /\ Sellable(c) \subseteq Sellable(t)
  <1> DEFINE c == Collecting(t)
  <1>1. /\ c \in Sessions /\ c.available = {} /\ c.shown = {} /\ c.stage = "collecting"
        /\ c.selected = t.selected /\ c.booking = t.booking
    BY DEF Collecting, Sessions, TalkStages
  <1> HIDE DEF c
  <1>2. Offers(c) /\ Sellable(c) \subseteq Sellable(t)
    BY <1>1 DEF Offers, Sellable
  <1> QED BY <1>1, <1>2 DEF c

(* The search checks the addresses and answers with what it finds.         *)
LEMMA SearchKeeps ==
    ASSUME TalkInv, searchNode
    PROVE  TalkInv'
  <1> DEFINE s == turn.s
             plain(t) == ~newlyInvalid(s, t)
             found(t) == searchVehiclesFromExtracted(t.draft, {})
  <1>1. PICK t \in validateAndNormalizeLocations(s) :
           turn' = IF newlyInvalid(s, t)
                   THEN buildInvalidLocationResult(turn, t)
                   ELSE IF \/ shouldBlockSearchForInvalidLocation(t)
                           \/ getMissingRequiredFields(t.draft) # {}
                           \/ shouldSuppressAlternatives(t)
                   THEN [turn EXCEPT !.s = Collecting(t)]
                   ELSE [turn EXCEPT !.s = [t EXCEPT !.available = found(t), !.shown = found(t),
                                                !.stage = IF found(t) = {} THEN "collecting"
                                                          ELSE "presenting_options"]]
    BY DEF searchNode
  <1>2. /\ node = "search" /\ node' = "respond" /\ chat' = chat /\ texts' = texts /\ made' = made
        /\ quoted' = quoted /\ linked' = linked /\ rateNow' = rateNow /\ slipped' = slipped
        /\ unsaid' = unsaid
    BY DEF searchNode, World
  <1>3. /\ turn \in Turns /\ s \in Sessions /\ Offers(s) /\ turn.written = FALSE /\ rateNow \in Nat
        /\ s.available = {} \/ s.draft["pickup"] = 0 \/ s.draft["dropoff"] = 0
    BY <1>2, TurnFields DEF TalkInv, TalkTypes, TurnFits
  <1>4. unsaid = {} => Told(s, quoted)
    BY <1>2 DEF TalkInv, PricesTold
  <1>5. Searched(s, t) /\ (newlyInvalid(s, t) => s.available = {} \/ t.draft["pickup"] = s.draft["pickup"])
    BY <1>3, AddressesFit
  <1>6. t \in Sessions /\ Sellable(t) = Sellable(s)
    BY <1>5 DEF Searched, Sellable
  <1>7. \A b \in made : ~LinkAhead(b)
    BY <1>2 DEF LinkAhead
  <1>8. CASE newlyInvalid(s, t)
    <2> DEFINE c == [t EXCEPT !.stage = "collecting"]
    <2>1. /\ c \in Sessions /\ c.stage = "collecting" /\ c.available = t.available
          /\ c.shown = t.shown /\ c.draft = t.draft /\ Sellable(c) = Sellable(t)
      BY <1>6, Staged DEF TalkStages
    <2>2. turn' = [turn EXCEPT !.s = c, !.written = TRUE]
      BY <1>1, <1>8 DEF buildInvalidLocationResult
    <2> HIDE DEF c
    <2>3. turn' \in Turns /\ turn'.s = c
      BY <1>3, <2>1, <2>2 DEF Turns
    <2>4. Offers(c)
      BY <1>3, <1>5, <1>8, <2>1 DEF Offers, Searched
    <2>5. Backing(c, made)
      BY <2>1 DEF Backing, TalkStages
    <2>6. unsaid = {} => Told(c, quoted \cup generateResponse(turn'))
      BY <1>4, <1>6, <2>1 DEF Told
    <2> QED BY <1>2, <1>7, <2>3, <2>4, <2>5, <2>6, AnswerKeeps
  <1>9. CASE turn' = [turn EXCEPT !.s = Collecting(t)]
    <2> DEFINE c == Collecting(t)
    <2>1. /\ c \in Sessions /\ c.available = {} /\ c.stage = "collecting"
          /\ Offers(c) /\ Sellable(c) \subseteq Sellable(t)
      BY <1>6, CollectingFits
    <2> HIDE DEF c
    <2>2. turn' = [turn EXCEPT !.s = c]
      BY <1>9 DEF c
    <2>3. turn' \in Turns /\ turn'.s = c
      BY <1>3, <2>1, <2>2 DEF Turns
    <2>4. Backing(c, made)
      BY <2>1 DEF Backing, TalkStages
    <2>5. unsaid = {} => Told(c, quoted \cup generateResponse(turn'))
      BY <1>4, <1>6, <2>1 DEF Told
    <2> QED BY <1>2, <1>7, <2>1, <2>3, <2>4, <2>5, AnswerKeeps
  <1>10. CASE /\ getMissingRequiredFields(t.draft) = {}
              /\ turn' = [turn EXCEPT !.s = [t EXCEPT !.available = found(t), !.shown = found(t),
                                                !.stage = IF found(t) = {} THEN "collecting"
                                                          ELSE "presenting_options"]]
    <2> DEFINE fd == found(t)
               g  == IF fd = {} THEN "collecting" ELSE "presenting_options"
               c  == [t EXCEPT !.available = fd, !.shown = fd, !.stage = g]
    <2>1. t.draft \in Drafts /\ t.draft["dates"] # 0
      BY <1>6, <1>10, SessionFields DEF getMissingRequiredFields
    <2>2. fd \subseteq Options /\ \A o \in fd : o.dates = t.draft["dates"] /\ o.pickup = t.draft["pickup"]
      BY <1>3, <2>1, FoundFits
    <2> HIDE DEF fd
    <2>3. g \in {"collecting", "presenting_options"} /\ (g = "presenting_options" => fd # {})
          /\ (fd # {} => g = "presenting_options")
      OBVIOUS
    <2> HIDE DEF g
    <2>4. /\ c \in Sessions /\ c.available = fd /\ c.shown = fd /\ c.stage = g
          /\ c.selected = t.selected /\ c.draft = t.draft
      BY <1>6, <2>2, <2>3 DEF Sessions, TalkStages
    <2>5. turn' = [turn EXCEPT !.s = c]
      BY <1>10 DEF fd, g
    <2> HIDE DEF c
    <2>6. turn' \in Turns /\ turn'.s = c /\ turn'.written = FALSE
      BY <1>3, <2>4, <2>5 DEF Turns
    <2>7. Offers(c) /\ Backing(c, made)
      BY <2>2, <2>3, <2>4 DEF Offers, Backing, TalkStages
    <2>8. \A o \in fd : Quote(o) \in generateResponse(turn')
      BY <2>3, <2>4, <2>6 DEF generateResponse, buildVehicleCards
    <2>9. unsaid = {} => Told(c, quoted \cup generateResponse(turn'))
      BY <1>4, <1>5, <2>4, <2>8 DEF Told, Sellable, Searched
    <2> QED BY <1>2, <1>7, <2>6, <2>7, <2>9, AnswerKeeps
  <1> QED BY <1>1, <1>8, <1>9, <1>10

(* A search that fails offers nothing.                                     *)
LEMMA SearchFailedKeeps ==
    ASSUME TalkInv, searchNodeFailed
    PROVE  TalkInv'
  <1> DEFINE c == Collecting(turn.s)
  <1>1. /\ node = "search" /\ node' = "respond" /\ chat' = chat /\ texts' = texts /\ made' = made
        /\ quoted' = quoted /\ linked' = linked /\ rateNow' = rateNow /\ slipped' = slipped
        /\ unsaid' = unsaid /\ turn' = [turn EXCEPT !.s = c, !.error = TRUE]
    BY DEF searchNodeFailed, World
  <1>2. turn \in Turns /\ turn.s \in Sessions /\ (unsaid = {} => Told(turn.s, quoted))
    BY <1>1, TurnFields DEF TalkInv, TalkTypes, PricesTold
  <1>3. /\ c \in Sessions /\ c.available = {} /\ c.stage = "collecting"
        /\ Offers(c) /\ Sellable(c) \subseteq Sellable(turn.s)
    BY <1>2, CollectingFits
  <1> HIDE DEF c
  <1>4. turn' \in Turns /\ turn'.s = c
    BY <1>1, <1>2, <1>3 DEF Turns
  <1>5. Backing(c, made)
    BY <1>3 DEF Backing, TalkStages
  <1>6. unsaid = {} => Told(c, quoted \cup generateResponse(turn'))
    BY <1>2, <1>3 DEF Told
  <1>7. \A b \in made : ~LinkAhead(b)
    BY <1>1 DEF LinkAhead
  <1> QED BY <1>1, <1>3, <1>4, <1>5, <1>6, <1>7, AnswerKeeps

(* Handing over to an agent ends the conversation.                         *)
LEMMA HandoffKeeps ==
    ASSUME TalkInv, handoffNode
    PROVE  TalkInv'
  <1> DEFINE c == [turn.s EXCEPT !.stage = "cancelled"]
  <1>1. /\ node = "handoff" /\ node' = "respond" /\ chat' = chat /\ texts' = texts /\ made' = made
        /\ quoted' = quoted /\ linked' = linked /\ rateNow' = rateNow /\ slipped' = slipped
        /\ unsaid' = unsaid /\ turn' = [turn EXCEPT !.s = c, !.written = TRUE]
    BY DEF handoffNode, World, Respond
  <1>2. /\ turn \in Turns /\ turn.s \in Sessions /\ Offers(turn.s)
        /\ unsaid = {} => Told(turn.s, quoted)
    BY <1>1, TurnFields DEF TalkInv, TalkTypes, PricesTold, TurnFits
  <1>3. /\ c \in Sessions /\ c.stage = "cancelled" /\ Offers(c) /\ Sellable(c) = Sellable(turn.s)
    BY <1>2, Staged DEF TalkStages
  <1> HIDE DEF c
  <1>4. turn' \in Turns /\ turn'.s = c
    BY <1>1, <1>2, <1>3 DEF Turns
  <1>5. Backing(c, made)
    BY <1>3 DEF Backing, TalkStages
  <1>6. unsaid = {} => Told(c, quoted \cup generateResponse(turn'))
    BY <1>2, <1>3 DEF Told
  <1>7. \A b \in made : ~LinkAhead(b)
    BY <1>1 DEF LinkAhead
  <1> QED BY <1>1, <1>3, <1>4, <1>5, <1>6, <1>7, AnswerKeeps

(* A step that leaves the conversation alone.                               *)
LEMMA OthersKeep ==
    ASSUME TalkInv, rateNow' \in Nat, slipped \subseteq slipped',
           chat' = chat, node' = node, turn' = turn, texts' = texts, made' = made,
           quoted' = quoted, linked' = linked, unsaid' = unsaid,
           \A b \in made : LinkAhead(b) => b.text \in slipped' \/ LinkAhead(b)'
    PROVE  TalkInv'
  <1>1. TalkTypes' /\ ChatFits'
    BY DEF TalkInv, TalkTypes, ChatFits
  <1>2. TurnFits'
    BY DEF TalkInv, TurnFits
  <1>3. PricesTold'
    BY DEF TalkInv, PricesTold
  <1>4. KeysOfTexts' /\ OneBookingPerMessage' /\ BookedAtToldPrice'
    BY DEF TalkInv, KeysOfTexts, OneBookingPerMessage, BookedAtToldPrice
  <1>5. ButtonsRepeat'
    BY DEF TalkInv, ButtonsRepeat
  <1>6. LinksAhead'
    BY LinksKept
  <1> QED BY <1>1, <1>2, <1>3, <1>4, <1>5, <1>6 DEF TalkInv

(* A rival takes a car.                                                     *)
LEMMA RivalKeeps ==
    ASSUME TalkInv, rivalBooks
    PROVE  TalkInv'
  <1>1. /\ chat' = chat /\ node' = node /\ turn' = turn /\ texts' = texts /\ made' = made
        /\ quoted' = quoted /\ linked' = linked /\ unsaid' = unsaid /\ rateNow' = rateNow
        /\ slipped' = slipped
    BY DEF rivalBooks
  <1>2. rateNow' \in Nat
    BY <1>1 DEF TalkInv, TalkTypes
  <1>3. \A b \in made : LinkAhead(b) => LinkAhead(b)'
    BY <1>1 DEF LinkAhead
  <1> QED BY <1>1, <1>2, <1>3, OthersKeep

(* A change of the rate puts the link of a booking just made at risk.       *)
LEMMA RateKeeps ==
    ASSUME TalkInv, rateChanges
    PROVE  TalkInv'
  <1>1. /\ chat' = chat /\ node' = node /\ turn' = turn /\ texts' = texts /\ made' = made
        /\ quoted' = quoted /\ linked' = linked /\ unsaid' = unsaid /\ rateNow' = rateNow + 1
        /\ slipped' = LinkAtRisk
    BY DEF rateChanges
  <1>2. rateNow' \in Nat
    BY <1>1 DEF TalkInv, TalkTypes
  <1>3. slipped \subseteq slipped' /\ \A b \in made : LinkAhead(b) => b.text \in slipped'
    BY <1>1 DEF LinkAhead, LinkAtRisk
  <1> QED BY <1>1, <1>2, <1>3, OthersKeep

(* What a step that changes nothing keeps.                                  *)
LEMMA TalkStutters ==
    ASSUME TalkInv, UNCHANGED cvars
    PROVE  TalkInv'
  <1>1. /\ chat' = chat /\ node' = node /\ turn' = turn /\ texts' = texts /\ made' = made
        /\ quoted' = quoted /\ linked' = linked /\ unsaid' = unsaid /\ rateNow' = rateNow
        /\ slipped' = slipped
    BY DEF cvars
  <1>2. rateNow' \in Nat
    BY <1>1 DEF TalkInv, TalkTypes
  <1>3. \A b \in made : LinkAhead(b) => LinkAhead(b)'
    BY <1>1 DEF LinkAhead
  <1> QED BY <1>1, <1>2, <1>3, OthersKeep

(* The state in which a turn is about to book.                              *)
LEMMA AboutToBook ==
    ASSUME TalkInv, node \in {"create_booking", "create"}
    PROVE  /\ turn \in Turns /\ turn.s \in Sessions /\ Offers(turn.s)
           /\ turn.s.selected \in Options /\ turn.heard.intent = "confirm" /\ turn.error = FALSE
           /\ turn.written = FALSE /\ turn.link = 0
           /\ rateNow \in Nat /\ texts \in Nat /\ texts # 0
           /\ unsaid = {} => Told(turn.s, quoted)
           /\ turn.said.button # 0 => RunAgain(chat, turn.said) = To("create_booking", turn.s)
  <1>1. turn \in Turns /\ turn.s \in Sessions /\ rateNow \in Nat /\ texts \in Nat
    BY TurnFields DEF TalkInv, TalkTypes
  <1>2. /\ Offers(turn.s) /\ turn.s.selected # NoOption /\ turn.heard.intent = "confirm"
        /\ ~turn.error /\ ~turn.written /\ turn.link = 0 /\ texts # 0
    BY DEF TalkInv, TurnFits
  <1>3. turn.s.selected \in Options
    BY <1>1, <1>2, SessionFields
  <1>4. turn.error = FALSE /\ turn.written = FALSE
    BY <1>1, <1>2, TurnFields
  <1>5. unsaid = {} => Told(turn.s, quoted)
    BY DEF TalkInv, PricesTold
  <1>6. turn.said.button # 0 => RunAgain(chat, turn.said) = To("create_booking", turn.s)
    BY DEF TalkInv, ButtonsRepeat
  <1> QED BY <1>1, <1>2, <1>3, <1>4, <1>5, <1>6

(* A turn that has its booking behind it asks for that very booking again.  *)
LEMMA AskedAgain ==
    ASSUME TalkInv, node \in {"create_booking", "create"}, NEW b \in made, LinkAhead(b)
    PROVE  /\ turn.s.draft["dates"] # 0
           /\ rateNow + PreviewExtra[turn.s.draft["dates"]] = turn.s.selected.price
           /\ b.car = turn.s.selected.car /\ b.price = turn.s.selected.price
           /\ b.dates = turn.s.draft["dates"] /\ b.pickup = turn.s.draft["pickup"]
           /\ b.dropoff = turn.s.draft["dropoff"]
           /\ b.text = texts /\ b.key = texts
  <1>1. turn.said.button # 0 /\ Repeats(RunAgain(chat, turn.said), rateNow, b) /\ b.text = texts
    BY DEF LinkAhead
  <1>2. Repeats(To("create_booking", turn.s), rateNow, b)
    BY <1>1, AboutToBook
  <1>3. b.key = texts
    BY <1>1 DEF TalkInv, KeysOfTexts
  <1>4. To("create_booking", turn.s).s = turn.s
    BY DEF To
  <1>5. \A f \in {"dates", "pickup", "dropoff"} : b[f] = turn.s.draft[f]
    BY <1>2, <1>4 DEF Repeats
  <1>6. b["dates"] = turn.s.draft["dates"] /\ b["pickup"] = turn.s.draft["pickup"]
        /\ b["dropoff"] = turn.s.draft["dropoff"]
    BY <1>5
  <1> QED BY <1>1, <1>2, <1>3, <1>4, <1>6 DEF Repeats

(* The price shown is compared with a fresh one before anything is booked.  *)
LEMMA CreateBookingKeeps ==
    ASSUME TalkInv, createBookingNode
    PROVE  TalkInv'
  <1> DEFINE s == turn.s
             p == Preview(s.draft["dates"])
  <1>1. /\ node = "create_booking" /\ chat' = chat /\ texts' = texts /\ made' = made
        /\ quoted' = quoted /\ linked' = linked /\ rateNow' = rateNow /\ slipped' = slipped
        /\ unsaid' = unsaid
    BY DEF createBookingNode, World
  <1>2. /\ turn \in Turns /\ s \in Sessions /\ Offers(s)
        /\ s.selected \in Options /\ turn.heard.intent = "confirm" /\ turn.error = FALSE
        /\ turn.written = FALSE /\ turn.link = 0
        /\ rateNow \in Nat /\ texts \in Nat /\ texts # 0
        /\ unsaid = {} => Told(s, quoted)
        /\ turn.said.button # 0 => RunAgain(chat, turn.said) = To("create_booking", s)
    BY <1>1, AboutToBook
  <1>3. s.draft \in Drafts /\ s.draft["dates"] \in {0} \cup TripDates
    BY <1>2, SessionFields, DraftFacts
  <1>4. CASE s.draft["dates"] = 0
    <2> DEFINE c == [s EXCEPT !.stage = "collecting"]
    <2>1. /\ c \in Sessions /\ c.stage = "collecting" /\ Offers(c) /\ Sellable(c) = Sellable(s)
      BY <1>2, Staged DEF TalkStages
    <2>2. node' = "respond" /\ turn' = [turn EXCEPT !.s = c, !.error = TRUE]
      BY <1>4 DEF createBookingNode, Respond, validateDraftBeforeBookingCreation
    <2> HIDE DEF c
    <2>3. turn' \in Turns /\ turn'.s = c
      BY <1>2, <2>1, <2>2 DEF Turns
    <2>4. Backing(c, made)
      BY <2>1 DEF Backing, TalkStages
    <2>5. unsaid = {} => Told(c, quoted \cup generateResponse(turn'))
      BY <1>2, <2>1 DEF Told
    <2>6. \A b \in made : ~LinkAhead(b)
      BY <1>1, <1>4, AskedAgain
    <2> QED BY <1>1, <2>1, <2>2, <2>3, <2>4, <2>5, <2>6, AnswerKeeps
  <1>5. CASE s.draft["dates"] # 0 /\ p # s.selected.price
    <2> DEFINE o == [s.selected EXCEPT !.price = p]
               c == [s EXCEPT !.stage = "confirming", !.selected = o]
    <2>1. p \in Nat
      <3>1. PreviewExtra[s.draft["dates"]] \in Nat
        BY <1>3, <1>5, ConversationConstants DEF ConversationConstants
      <3> QED BY <1>2, <3>1 DEF Preview
    <2>2. o \in Options
      BY <1>2, <2>1, OptionFacts
    <2>3. node' = "respond" /\ turn' = [turn EXCEPT !.s.stage = "confirming", !.s.selected.price = p]
      BY <1>5 DEF createBookingNode, Respond, validateDraftBeforeBookingCreation, priceDiffers
    <2>4. turn' = [turn EXCEPT !.s = c]
      BY <1>2, <2>3 DEF Turns, Sessions
    <2> HIDE DEF o
    <2>5. /\ c \in Sessions /\ c.stage = "confirming" /\ c.selected = o
          /\ c.available = s.available /\ c.shown = s.shown /\ c.draft = s.draft
      BY <1>2, <2>2 DEF Sessions, TalkStages
    <2> HIDE DEF c
    <2>6. /\ turn' \in Turns /\ turn'.s = c /\ turn'.heard = turn.heard /\ turn'.error = FALSE
          /\ turn'.written = FALSE
      BY <1>2, <2>4, <2>5 DEF Turns
    <2>7. Offers(c)
      BY <1>2, <2>5 DEF Offers
    <2>8. Backing(c, made)
      BY <2>2, <2>5, OptionFacts DEF Backing, TalkStages
    <2>9. Quote(o) \in generateResponse(turn')
      BY <1>2, <2>2, <2>5, <2>6, OptionFacts
         DEF generateResponse, buildConfirmingResponse, shouldClarifyCancelIntent
    <2>10. unsaid = {} => Told(c, quoted \cup generateResponse(turn'))
      BY <1>2, <2>5, <2>9 DEF Told, Sellable
    <2>11. \A b \in made : ~LinkAhead(b)
      BY <1>1, <1>5, AskedAgain DEF Preview
    <2> QED BY <1>1, <2>3, <2>6, <2>7, <2>8, <2>10, <2>11, AnswerKeeps
  <1>6. CASE s.draft["dates"] # 0 /\ p = s.selected.price
    <2>1. node' = "create" /\ turn' = [turn EXCEPT !.price = p]
      BY <1>6 DEF createBookingNode, validateDraftBeforeBookingCreation, priceDiffers
    <2>2. p \in Nat
      BY <1>2, <1>6, OptionFacts
    <2>3. /\ turn' \in Turns /\ turn'.s = s /\ turn'.said = turn.said /\ turn'.heard = turn.heard
          /\ turn'.error = FALSE /\ turn'.written = FALSE /\ turn'.link = 0
          /\ turn'.price = s.selected.price
      BY <1>2, <1>6, <2>1, <2>2 DEF Turns
    <2> HIDE DEF s, p
    <2>4. /\ chat \in Sessions /\ made \subseteq Booked /\ unsaid \subseteq 0..texts
          /\ Offers(chat) /\ Backing(chat, made)
      BY DEF TalkInv, TalkTypes, ChatFits
    <2>5. TalkTypes' /\ ChatFits'
      BY <1>1, <1>2, <2>1, <2>3, <2>4 DEF TalkTypes, ChatFits
    <2>6. TurnFits'
      BY <1>1, <1>2, <1>6, <2>1, <2>3, OptionFacts DEF TurnFits
    <2>7. PricesTold'
      BY <1>1, <1>2, <2>1, <2>3 DEF TalkInv, PricesTold
    <2>8. KeysOfTexts' /\ OneBookingPerMessage' /\ BookedAtToldPrice'
      BY <1>1, <1>2, BookingsKept
    <2>9. ButtonsRepeat'
      BY <1>1, <1>2, <2>1, <2>3 DEF ButtonsRepeat
    <2>10. \A b \in made : LinkAhead(b) => LinkAhead(b)'
      BY <1>1, <2>1, <2>3 DEF LinkAhead
    <2>11. LinksAhead'
      BY <1>1, <2>10, LinksKept
    <2> QED BY <2>5, <2>6, <2>7, <2>8, <2>9, <2>11 DEF TalkInv
  <1> QED BY <1>4, <1>5, <1>6

(* A failure while booking asks to confirm again.                           *)
LEMMA CreateFailedKeeps ==
    ASSUME TalkInv, createBookingNodeFailed
    PROVE  TalkInv'
  <1> DEFINE c == [turn.s EXCEPT !.stage = "confirming"]
  <1>1. /\ node \in {"create_booking", "create"} /\ node' = "respond" /\ chat' = chat
        /\ texts' = texts /\ made' = made /\ quoted' = quoted /\ linked' = linked
        /\ rateNow' = rateNow /\ slipped' = LinkAtRisk /\ unsaid' = unsaid
        /\ turn' = [turn EXCEPT !.s.stage = "confirming", !.error = TRUE]
    BY DEF createBookingNodeFailed, World, Respond
  <1>2. /\ turn \in Turns /\ turn.s \in Sessions /\ Offers(turn.s) /\ turn.s.selected \in Options
        /\ unsaid = {} => Told(turn.s, quoted)
    BY <1>1, AboutToBook
  <1>3. /\ c \in Sessions /\ c.stage = "confirming" /\ Offers(c) /\ Sellable(c) = Sellable(turn.s)
        /\ c.selected = turn.s.selected
    BY <1>2, Staged DEF TalkStages
  <1>4. turn' = [turn EXCEPT !.s = c, !.error = TRUE]
    BY <1>1, <1>2 DEF Turns
  <1> HIDE DEF c
  <1>5. turn' \in Turns /\ turn'.s = c
    BY <1>2, <1>3, <1>4 DEF Turns
  <1>6. Backing(c, made)
    BY <1>2, <1>3, OptionFacts DEF Backing, TalkStages
  <1>7. unsaid = {} => Told(c, quoted \cup generateResponse(turn'))
    BY <1>2, <1>3 DEF Told
  <1>8. slipped \subseteq slipped' /\ \A b \in made : LinkAhead(b) => b.text \in slipped'
    BY <1>1 DEF LinkAhead, LinkAtRisk
  <1> QED BY <1>1, <1>3, <1>5, <1>6, <1>7, <1>8, AnswerKeeps

(* The booking is made, or was: the link is at hand.                        *)
LEMMA CreatedFits ==
    ASSUME NEW w \in Turns, NEW k \in Nat
    PROVE  LET v == bookingCreated(w, k)
           IN  /\ v \in Turns /\ v.said = w.said /\ v.link = k /\ v.s \in Sessions
               /\ v.s.stage = "awaiting_payment" /\ v.s.booking = k
               /\ Offers(w.s) => Offers(v.s)
               /\ Sellable(v.s) = Sellable(w.s)
  <1> DEFINE c == [w.s EXCEPT !.stage = "awaiting_payment", !.booking = k]
  <1>1. bookingCreated(w, k) = [w EXCEPT !.s = c, !.link = k]
    BY DEF bookingCreated, Turns, Sessions
  <1>2. /\ c \in Sessions /\ c.stage = "awaiting_payment" /\ c.booking = k
        /\ c.available = w.s.available /\ c.shown = w.s.shown /\ c.draft = w.s.draft
        /\ c.selected = w.s.selected
    BY TurnFields DEF Sessions, TalkStages
  <1> HIDE DEF c
  <1>3. (Offers(w.s) => Offers(c)) /\ Sellable(c) = Sellable(w.s)
    BY <1>2 DEF Offers, Sellable
  <1>4. /\ [w EXCEPT !.s = c, !.link = k] \in Turns
        /\ [w EXCEPT !.s = c, !.link = k].s = c
        /\ [w EXCEPT !.s = c, !.link = k].said = w.said
        /\ [w EXCEPT !.s = c, !.link = k].link = k
    BY <1>2 DEF Turns
  <1> QED BY <1>1, <1>2, <1>3, <1>4

(* Where the car is gone, the other free cars are offered.                  *)
LEMMA UnavailableFits ==
    ASSUME NEW s \in Sessions, NEW fresh \in SUBSET Options,
           \A o \in fresh : o.dates = s.draft["dates"] /\ o.pickup = s.draft["pickup"]
    PROVE  LET c == unavailable(s, fresh)
           IN  /\ c \in Sessions /\ c.available = fresh /\ c.selected = NoOption
               /\ c.stage \in {"collecting", "presenting_options"}
               /\ c.stage = "presenting_options" <=> fresh # {}
               /\ Offers(c) /\ Sellable(c) = fresh
  <1> DEFINE g == IF fresh = {} THEN "collecting" ELSE "presenting_options"
             c == [s EXCEPT !.selected = NoOption, !.available = fresh, !.shown = fresh, !.stage = g]
  <1>1. unavailable(s, fresh) = c
    BY DEF unavailable
  <1>2. g \in {"collecting", "presenting_options"} /\ (g = "presenting_options" <=> fresh # {})
    OBVIOUS
  <1> HIDE DEF g
  <1>3. /\ c \in Sessions /\ c.available = fresh /\ c.shown = fresh /\ c.selected = NoOption
        /\ c.stage = g /\ c.draft = s.draft
    BY <1>2 DEF Sessions, TalkStages
  <1> HIDE DEF c
  <1>4. Offers(c) /\ Sellable(c) = fresh
    BY <1>3 DEF Offers, Sellable
  <1> QED BY <1>1, <1>2, <1>3, <1>4

(* The turn answers that the car is gone.                                   *)
LEMMA UnavailableKeeps ==
    ASSUME TalkInv, node = "create", node' = "respond", NEW fresh \in SUBSET Options,
           \A o \in fresh : o.dates = turn.s.draft["dates"] /\ o.pickup = turn.s.draft["pickup"],
           ~\E b \in made : b.key = texts,
           turn' = [turn EXCEPT !.s = unavailable(turn.s, fresh)],
           chat' = chat, texts' = texts, made' = made, quoted' = quoted, linked' = linked,
           rateNow' = rateNow, unsaid' = unsaid, slipped' = slipped
    PROVE  TalkInv'
  <1> DEFINE c == unavailable(turn.s, fresh)
  <1>1. turn \in Turns /\ turn.s \in Sessions /\ turn.written = FALSE
    BY AboutToBook
  <1>2. /\ c \in Sessions /\ c.available = fresh /\ c.selected = NoOption
        /\ c.stage \in {"collecting", "presenting_options"}
        /\ c.stage = "presenting_options" <=> fresh # {}
        /\ Offers(c) /\ Sellable(c) = fresh
    BY <1>1, UnavailableFits
  <1> HIDE DEF c
  <1>3. turn' = [turn EXCEPT !.s = c]
    BY DEF c
  <1>4. turn' \in Turns /\ turn'.s = c /\ turn'.written = FALSE
    BY <1>1, <1>2, <1>3 DEF Turns
  <1>5. Backing(c, made)
    BY <1>2 DEF Backing, TalkStages
  <1>6. \A o \in fresh : Quote(o) \in generateResponse(turn')
    BY <1>2, <1>4 DEF generateResponse, buildVehicleCards
  <1>7. unsaid = {} => Told(c, quoted \cup generateResponse(turn'))
    BY <1>2, <1>6 DEF Told
  <1>8. \A b \in made : ~LinkAhead(b)
    BY AskedAgain
  <1> QED BY <1>2, <1>4, <1>5, <1>7, <1>8, AnswerKeeps

(* The other free cars cannot be found: none is offered.                    *)
LEMMA FreshFailedKeeps ==
    ASSUME TalkInv, fetchFreshOptionsFailed
    PROVE  TalkInv'
  <1>1. /\ node = "create" /\ node' = "respond" /\ ~\E b \in made : b.key = texts
        /\ turn' = [turn EXCEPT !.s = unavailable(turn.s, {})]
        /\ chat' = chat /\ texts' = texts /\ made' = made /\ quoted' = quoted /\ linked' = linked
        /\ rateNow' = rateNow /\ unsaid' = unsaid /\ slipped' = slipped
    BY DEF fetchFreshOptionsFailed, World, Respond, idempotencyKey
  <1> QED BY <1>1, UnavailableKeeps

(* A turn that was told no asks the customer to confirm again.              *)
LEMMA ConfirmAgainKeeps ==
    ASSUME TalkInv, node = "create", node' = "respond", NEW e \in BOOLEAN,
           \A b \in made : ~LinkAhead(b),
           turn' = [turn EXCEPT !.s = [turn.s EXCEPT !.stage = "confirming"], !.error = e],
           chat' = chat, texts' = texts, made' = made, quoted' = quoted, linked' = linked,
           rateNow' = rateNow, unsaid' = unsaid, slipped' = slipped
    PROVE  TalkInv'
  <1> DEFINE c == [turn.s EXCEPT !.stage = "confirming"]
  <1>1. /\ turn \in Turns /\ turn.s \in Sessions /\ Offers(turn.s) /\ turn.s.selected \in Options
        /\ unsaid = {} => Told(turn.s, quoted)
    BY AboutToBook
  <1>2. /\ c \in Sessions /\ c.stage = "confirming" /\ Offers(c) /\ Sellable(c) = Sellable(turn.s)
        /\ c.selected = turn.s.selected
    BY <1>1, Staged DEF TalkStages
  <1> HIDE DEF c
  <1>3. turn' = [turn EXCEPT !.s = c, !.error = e]
    BY DEF c
  <1>4. turn' \in Turns /\ turn'.s = c
    BY <1>1, <1>2, <1>3 DEF Turns
  <1>5. Backing(c, made)
    BY <1>1, <1>2, OptionFacts DEF Backing, TalkStages
  <1>6. unsaid = {} => Told(c, quoted \cup generateResponse(turn'))
    BY <1>1, <1>2 DEF Told
  <1> QED BY <1>2, <1>4, <1>5, <1>6, AnswerKeeps

(* What a turn asks for.                                                    *)
LEMMA RequestFits ==
    ASSUME TalkInv, node = "create"
    PROVE  LET r == buildBookingInputFromDraft(turn.s, turn.price)
           IN  /\ r \in Booked /\ r.key = texts /\ r.text = texts
               /\ r.car = turn.s.selected.car /\ r.price = turn.s.selected.price
               /\ r.dates = turn.s.draft["dates"] /\ r.pickup = turn.s.draft["pickup"]
               /\ r.dropoff = turn.s.draft["dropoff"]
               /\ turn.price = turn.s.selected.price /\ turn.s.draft["dates"] # 0
               /\ turn.s.draft["dates"] \in TripDates
  <1>1. turn.s.selected \in Options /\ turn.s \in Sessions /\ texts \in Nat
    BY AboutToBook
  <1>2. turn.price = turn.s.selected.price /\ turn.s.draft["dates"] # 0
    BY DEF TalkInv, TurnFits
  <1>3. turn.s.selected.car \in Fleet /\ turn.s.selected.price \in Nat
    BY <1>1, OptionFacts
  <1>4. /\ turn.s.draft["dates"] \in TripDates
        /\ turn.s.draft["pickup"] \in DraftPlaces /\ turn.s.draft["dropoff"] \in DraftPlaces
    BY <1>1, <1>2, SessionFields, DraftFacts
  <1> QED BY <1>1, <1>2, <1>3, <1>4 DEF buildBookingInputFromDraft, Booked, idempotencyKey

(* The key of the message is known: its booking is the one asked for, or    *)
(* the link of no booking waits for this turn.                              *)
LEMMA KnownKey ==
    ASSUME TalkInv, node = "create", NEW b \in made, LinkAhead(b)
    PROVE  {a \in made : a.key = texts} = {buildBookingInputFromDraft(turn.s, turn.price)}
  <1> DEFINE r == buildBookingInputFromDraft(turn.s, turn.price)
  <1>1. /\ r \in Booked /\ r.key = texts /\ r.text = texts
        /\ r.car = turn.s.selected.car /\ r.price = turn.s.selected.price
        /\ r.dates = turn.s.draft["dates"] /\ r.pickup = turn.s.draft["pickup"]
        /\ r.dropoff = turn.s.draft["dropoff"]
    BY RequestFits
  <1> HIDE DEF r
  <1>2. b \in Booked
    BY DEF TalkInv, TalkTypes
  <1>3. b = r
    BY <1>1, <1>2, AskedAgain DEF Booked
  <1>4. \A a \in made : a.key = texts => a = b
    BY AskedAgain DEF TalkInv, KeysOfTexts, OneBookingPerMessage
  <1>5. b.key = texts
    BY AskedAgain
  <1>6. {a \in made : a.key = texts} = {b}
    BY <1>4, <1>5
  <1> QED BY <1>3, <1>6 DEF r

(* The key is answered with its booking.                                    *)
LEMMA AnsweredKeeps ==
    ASSUME TalkInv, node = "create", node' = "respond",
           turn' = bookingCreated(turn, texts), \E b \in made : b.key = texts,
           chat' = chat, texts' = texts, made' = made, quoted' = quoted, linked' = linked,
           rateNow' = rateNow, unsaid' = unsaid, slipped' = slipped
    PROVE  TalkInv'
  <1>1. /\ turn \in Turns /\ turn.s \in Sessions /\ Offers(turn.s) /\ texts \in Nat
        /\ unsaid = {} => Told(turn.s, quoted)
    BY AboutToBook
  <1>2. /\ turn' \in Turns /\ turn'.said = turn.said /\ turn'.link = texts
        /\ turn'.s.stage = "awaiting_payment" /\ turn'.s.booking = texts
        /\ Offers(turn'.s) /\ Sellable(turn'.s) = Sellable(turn.s)
    BY <1>1, CreatedFits
  <1>3. Backing(turn'.s, made)
    BY <1>2 DEF Backing, TalkStages
  <1>4. unsaid = {} => Told(turn'.s, quoted \cup generateResponse(turn'))
    BY <1>1, <1>2 DEF Told
  <1>5. \A b \in made : LinkAhead(b) => LinkAhead(b)'
    <2> SUFFICES ASSUME NEW b \in made, LinkAhead(b)
                 PROVE  LinkAhead(b)'
      OBVIOUS
    <2>1. b.key = texts
      BY AskedAgain
    <2> QED BY <1>2, <2>1 DEF LinkAhead
  <1> QED BY <1>2, <1>3, <1>4, <1>5, AnswerKeeps

(* The booking is made, at a price the customer was told.                   *)
LEMMA MadeKeeps ==
    ASSUME TalkInv, node = "create", node' = "respond",
           turn' = bookingCreated(turn, texts), ~\E b \in made : b.key = texts,
           turn.price = Preview(turn.s.draft["dates"]),
           made' = made \cup {buildBookingInputFromDraft(turn.s, turn.price)},
           chat' = chat, texts' = texts, quoted' = quoted, linked' = linked,
           rateNow' = rateNow, unsaid' = unsaid, slipped' = slipped
    PROVE  TalkInv'
  <1>1. PICK r \in Booked :
              /\ r = buildBookingInputFromDraft(turn.s, turn.price)
              /\ r.key = texts /\ r.text = texts
              /\ r.car = turn.s.selected.car /\ r.price = turn.s.selected.price
              /\ r.dates = turn.s.draft["dates"] /\ r.pickup = turn.s.draft["pickup"]
              /\ r.dropoff = turn.s.draft["dropoff"]
              /\ turn.price = turn.s.selected.price /\ turn.s.draft["dates"] # 0
    BY RequestFits
  <1>2. made' = made \cup {r}
    BY <1>1
  <1>3. /\ turn \in Turns /\ turn.s \in Sessions /\ Offers(turn.s) /\ texts \in Nat /\ texts # 0
        /\ rateNow \in Nat /\ turn.s.selected \in Options
        /\ unsaid = {} => Told(turn.s, quoted)
        /\ turn.said.button # 0 => RunAgain(chat, turn.said) = To("create_booking", turn.s)
    BY AboutToBook
  <1>4. /\ turn' \in Turns /\ turn'.said = turn.said /\ turn'.link = texts
        /\ turn'.s.stage = "awaiting_payment" /\ turn'.s.booking = texts
        /\ Offers(turn'.s) /\ Sellable(turn'.s) = Sellable(turn.s)
    BY <1>3, CreatedFits
  <1>5. /\ chat \in Sessions /\ made \subseteq Booked /\ unsaid \subseteq 0..texts
        /\ Offers(chat) /\ Backing(chat, made)
    BY DEF TalkInv, TalkTypes, ChatFits
  <1>6. TalkTypes' /\ ChatFits'
    <2>1. Backing(chat, made')
      BY <1>2, <1>5 DEF Backing
    <2> QED BY <1>1, <1>2, <1>3, <1>4, <1>5, <2>1 DEF TalkTypes, ChatFits
  <1>7. TurnFits'
    <2>1. \E b \in made' : b.key = texts
      BY <1>1, <1>2
    <2>2. Backing(turn'.s, made')
      BY <1>4, <2>1 DEF Backing, TalkStages
    <2> QED BY <1>3, <1>4, <2>2 DEF TurnFits
  <1>8. PricesTold'
    <2>1. unsaid = {} => Told(chat, quoted)
      BY DEF TalkInv, PricesTold
    <2> QED BY <1>3, <1>4, <2>1 DEF PricesTold, Told
  <1>9. KeysOfTexts'
    BY <1>1, <1>2, <1>3 DEF TalkInv, KeysOfTexts
  <1>10. OneBookingPerMessage'
    BY <1>1, <1>2 DEF TalkInv, KeysOfTexts, OneBookingPerMessage
  <1>11. BookedAtToldPrice'
    <2>1. [car |-> r.car, price |-> r.price] \in quoted \/ \E m \in unsaid : m <= r.text
      <3>1. CASE unsaid = {}
        <4>1. turn.s.selected \in Sellable(turn.s)
          BY <1>3, OptionFacts DEF Sellable
        <4>2. Quote(turn.s.selected) \in quoted
          BY <1>3, <3>1, <4>1 DEF Told
        <4> QED BY <1>1, <4>2 DEF Quote
      <3>2. CASE unsaid # {}
        <4>1. PICK m \in unsaid : TRUE
          BY <3>2
        <4>2. m \in 0..texts
          BY <1>5
        <4>3. m <= r.text
          BY <1>1, <1>3, <4>2
        <4> QED BY <4>3
      <3> QED BY <3>1, <3>2
    <2> QED BY <1>2, <2>1 DEF TalkInv, BookedAtToldPrice
  <1>12. ButtonsRepeat'
    BY DEF ButtonsRepeat
  <1>13. LinksAhead'
    <2>1. LinkAhead(r)'
      <3>1. turn.said.button # 0 => Repeats(RunAgain(chat, turn.said), rateNow, r)
        <4>1. /\ To("create_booking", turn.s).next = "create_booking"
              /\ To("create_booking", turn.s).s = turn.s
          BY DEF To
        <4>2. rateNow + PreviewExtra[turn.s.draft["dates"]] = turn.s.selected.price
          BY <1>1 DEF Preview
        <4>3. \A f \in {"dates", "pickup", "dropoff"} : r[f] = turn.s.draft[f]
          BY <1>1
        <4>4. Repeats(To("create_booking", turn.s), rateNow, r)
          BY <1>1, <4>1, <4>2, <4>3 DEF Repeats
        <4> QED BY <1>3, <4>4
      <3> QED BY <1>1, <1>4, <3>1 DEF LinkAhead
    <2>2. \A b \in made : ~LinkAhead(b)
      BY AskedAgain
    <2> QED BY <1>2, <2>1, <2>2 DEF TalkInv, LinksAhead
  <1> QED BY <1>6, <1>7, <1>8, <1>9, <1>10, <1>11, <1>12, <1>13 DEF TalkInv

(* The request for a booking, whatever the answer.                          *)
LEMMA RequestKeeps ==
    ASSUME TalkInv, requestBooking
    PROVE  TalkInv'
  <1> DEFINE s     == turn.s
             r     == buildBookingInputFromDraft(s, turn.price)
             known == {b \in made : b.key = r.key}
             free  == r.car \in FreeCars(r.dates)
             fresh == fetchFreshOptionsForDraft(s.draft, r.car)
  <1>1. /\ node = "create" /\ chat' = chat /\ texts' = texts /\ quoted' = quoted
        /\ linked' = linked /\ rateNow' = rateNow /\ unsaid' = unsaid /\ slipped' = slipped
    BY DEF requestBooking
  <1>2. \/ known = {r} /\ Respond(bookingCreated(turn, r.key)) /\ UNCHANGED made
        \/ known # {} /\ known # {r} /\ Respond(mapIdempotencyError(turn)) /\ UNCHANGED made
        \/ /\ known = {} /\ ~free
           /\ Respond([turn EXCEPT !.s = unavailable(s, fresh)]) /\ UNCHANGED made
        \/ /\ known = {} /\ free /\ turn.price # Preview(r.dates)
           /\ Respond([turn EXCEPT !.s.stage = "confirming", !.error = TRUE]) /\ UNCHANGED made
        \/ /\ known = {} /\ free /\ turn.price = Preview(r.dates)
           /\ made' = made \cup {r} /\ Respond(bookingCreated(turn, r.key))
    BY DEF requestBooking
  <1>3. /\ r.key = texts /\ r.dates = s.draft["dates"] /\ s.draft["dates"] # 0
    BY <1>1, RequestFits
  <1>4. /\ turn \in Turns /\ s \in Sessions /\ s.draft \in Drafts /\ rateNow \in Nat
        /\ turn.error = FALSE
    BY <1>1, AboutToBook, SessionFields
  <1>5. known # {r} => \A b \in made : ~LinkAhead(b)
    BY <1>1, <1>3, KnownKey
  <1>6. known = {} => ~\E b \in made : b.key = texts
    BY <1>3
  <1>7. CASE known = {r} /\ Respond(bookingCreated(turn, r.key)) /\ UNCHANGED made
    <2>1. \E b \in made : b.key = texts
      BY <1>3, <1>7
    <2> QED BY <1>1, <1>3, <1>7, <2>1, AnsweredKeeps DEF Respond
  <1>8. CASE known # {} /\ known # {r} /\ Respond(mapIdempotencyError(turn)) /\ UNCHANGED made
    <2>1. mapIdempotencyError(turn)
            = [turn EXCEPT !.s = [turn.s EXCEPT !.stage = "confirming"], !.error = FALSE]
      BY <1>4 DEF mapIdempotencyError, Turns
    <2> QED BY <1>1, <1>5, <1>8, <2>1, ConfirmAgainKeeps DEF Respond
  <1>9. CASE /\ known = {} /\ ~free
             /\ Respond([turn EXCEPT !.s = unavailable(s, fresh)]) /\ UNCHANGED made
    <2>1. fresh \subseteq Options
          /\ \A o \in fresh : o.dates = s.draft["dates"] /\ o.pickup = s.draft["pickup"]
      BY <1>3, <1>4, FoundFits DEF fetchFreshOptionsForDraft
    <2> QED BY <1>1, <1>6, <1>9, <2>1, UnavailableKeeps DEF Respond
  <1>10. CASE /\ known = {} /\ free /\ turn.price # Preview(r.dates)
              /\ Respond([turn EXCEPT !.s.stage = "confirming", !.error = TRUE]) /\ UNCHANGED made
    <2>1. [turn EXCEPT !.s.stage = "confirming", !.error = TRUE]
            = [turn EXCEPT !.s = [turn.s EXCEPT !.stage = "confirming"], !.error = TRUE]
      BY <1>4 DEF Turns
    <2>2. \A b \in made : ~LinkAhead(b)
      BY <1>5, <1>10
    <2> QED BY <1>1, <1>10, <2>1, <2>2, ConfirmAgainKeeps DEF Respond
  <1>11. CASE /\ known = {} /\ free /\ turn.price = Preview(r.dates)
              /\ made' = made \cup {r} /\ Respond(bookingCreated(turn, r.key))
    BY <1>1, <1>3, <1>6, <1>11, MadeKeeps DEF Respond
  <1> QED BY <1>2, <1>7, <1>8, <1>9, <1>10, <1>11

(* The session is saved before the reply is sent.                           *)
LEMMA SaveKeeps ==
    ASSUME TalkInv, saveState
    PROVE  TalkInv'
  <1>1. /\ node = "respond" /\ node' = "reply" /\ chat' = turn.s /\ turn' = turn
        /\ texts' = texts /\ made' = made /\ quoted' = quoted /\ linked' = linked
        /\ rateNow' = rateNow /\ unsaid' = unsaid /\ slipped' = slipped
    BY DEF saveState, World
  <1>2. /\ turn \in Turns /\ turn.s \in Sessions /\ texts \in Nat /\ texts # 0 /\ rateNow \in Nat
        /\ made \subseteq Booked /\ unsaid \subseteq 0..texts
        /\ Offers(turn.s) /\ Backing(turn.s, made)
    BY <1>1, TurnFields DEF TalkInv, TalkTypes, TurnFits
  <1>3. TalkTypes' /\ ChatFits' /\ TurnFits'
    BY <1>1, <1>2 DEF TalkTypes, ChatFits, TurnFits
  <1>4. PricesTold'
    BY <1>1 DEF TalkInv, PricesTold
  <1>5. KeysOfTexts' /\ OneBookingPerMessage' /\ BookedAtToldPrice'
    BY <1>1, <1>2, BookingsKept
  <1>6. ButtonsRepeat'
    BY <1>1 DEF ButtonsRepeat
  <1>7. \A b \in made : LinkAhead(b) => LinkAhead(b)'
    BY <1>1 DEF LinkAhead
  <1>8. LinksAhead'
    BY <1>1, <1>7, LinksKept
  <1> QED BY <1>3, <1>4, <1>5, <1>6, <1>8 DEF TalkInv

(* A turn that ends leaves the saved session as it is.                      *)
LEMMA TurnEnds ==
    ASSUME TalkInv, node' = "idle", turn' = NoTurn, chat' = chat, texts' = texts, made' = made,
           quoted \subseteq quoted', rateNow' = rateNow, unsaid' = unsaid,
           unsaid = {} => Told(chat, quoted'),
           linked \subseteq linked', slipped \subseteq slipped',
           \A b \in made : LinkAhead(b) => b.key \in linked' \/ b.text \in slipped'
    PROVE  TalkInv'
  <1>1. /\ chat \in Sessions /\ texts \in Nat /\ rateNow \in Nat /\ made \subseteq Booked
        /\ unsaid \subseteq 0..texts /\ Offers(chat) /\ Backing(chat, made)
    BY DEF TalkInv, TalkTypes, ChatFits
  <1>2. TalkTypes' /\ ChatFits' /\ TurnFits'
    BY <1>1, StartTyped DEF TalkTypes, ChatFits, TurnFits
  <1>3. PricesTold'
    BY DEF PricesTold
  <1>4. KeysOfTexts' /\ OneBookingPerMessage' /\ BookedAtToldPrice'
    BY <1>1, BookingsKept
  <1>5. ButtonsRepeat'
    BY DEF ButtonsRepeat
  <1>6. LinksAhead'
    BY LinksKept
  <1> QED BY <1>2, <1>3, <1>4, <1>5, <1>6 DEF TalkInv

(* A session that cannot be saved interrupts the turn.                      *)
LEMMA SaveFailedKeeps ==
    ASSUME TalkInv, saveStateFailed
    PROVE  TalkInv'
  <1>1. /\ node = "respond" /\ node' = "idle" /\ chat' = chat /\ turn' = NoTurn
        /\ texts' = texts /\ made' = made /\ quoted' = quoted /\ linked' = linked
        /\ rateNow' = rateNow /\ unsaid' = unsaid /\ slipped' = slipped \cup {texts}
    BY DEF saveStateFailed, World
  <1>2. unsaid = {} => Told(chat, quoted)
    BY <1>1 DEF TalkInv, PricesTold
  <1>3. \A b \in made : LinkAhead(b) => b.text \in slipped'
    BY <1>1 DEF LinkAhead
  <1> QED BY <1>1, <1>2, <1>3, TurnEnds

(* The reply tells the prices and brings the link.                          *)
LEMMA ReplyKeeps ==
    ASSUME TalkInv, sendReply
    PROVE  TalkInv'
  <1>1. /\ node = "reply" /\ node' = "idle" /\ chat' = chat /\ turn' = NoTurn
        /\ texts' = texts /\ made' = made /\ quoted' = quoted \cup generateResponse(turn)
        /\ linked' = linked \cup buildOutboxItems(turn)
        /\ rateNow' = rateNow /\ unsaid' = unsaid /\ slipped' = slipped
    BY DEF sendReply
  <1>2. unsaid = {} => Told(chat, quoted')
    <2>1. chat = turn.s
      BY <1>1 DEF TalkInv, TurnFits
    <2> QED BY <1>1, <2>1 DEF TalkInv, PricesTold
  <1>3. ASSUME NEW b \in made, LinkAhead(b)
        PROVE  b.key \in linked'
    <2>1. turn.link = b.key /\ turn.s.stage = "awaiting_payment"
      BY <1>1, <1>3 DEF LinkAhead
    <2>2. texts \in Nat /\ b.key \in 1..texts
      BY DEF TalkInv, KeysOfTexts, TalkTypes
    <2>3. b.key # 0
      BY <2>2
    <2> QED BY <1>1, <2>1, <2>3 DEF buildOutboxItems
  <1> QED BY <1>1, <1>2, <1>3, TurnEnds

-----------------------------------------------------------------------------
(* Every step of the conversation keeps the invariant.                      *)
LEMMA TalkStepKeeps == TalkInv /\ [CNext]_cvars => TalkInv'
  <1> SUFFICES ASSUME TalkInv, [CNext]_cvars
               PROVE  TalkInv'
    OBVIOUS
  <1>1. CASE \E m \in Messages : receive(m)
    BY <1>1, ReceiveKeeps
  <1>2. CASE extractNode \/ extractNodeFailed \/ searchNode \/ searchNodeFailed
    BY <1>2, ExtractKeeps, ExtractFailedKeeps, SearchKeeps, SearchFailedKeeps
  <1>3. CASE \/ createBookingNode \/ createBookingNodeFailed
             \/ requestBooking \/ fetchFreshOptionsFailed
    BY <1>3, CreateBookingKeeps, CreateFailedKeeps, RequestKeeps, FreshFailedKeeps
  <1>4. CASE handoffNode \/ saveState \/ saveStateFailed \/ sendReply
    BY <1>4, HandoffKeeps, SaveKeeps, SaveFailedKeeps, ReplyKeeps
  <1>5. CASE agentDies \/ rivalBooks \/ rateChanges
    BY <1>5, DiesKeeps, RivalKeeps, RateKeeps
  <1>6. CASE UNCHANGED cvars
    BY <1>6, TalkStutters
  <1> QED BY <1>1, <1>2, <1>3, <1>4, <1>5, <1>6 DEF CNext

(* The invariant holds what the customer relies on.                         *)
LEMMA TalkInvSuffices == TalkInv => TalkSound
  <1> SUFFICES ASSUME TalkInv PROVE TalkSound
    OBVIOUS
  <1>1. chat \in Sessions /\ Offers(chat) /\ Backing(chat, made)
    BY DEF TalkInv, TalkTypes, ChatFits
  <1>2. DOMAIN chat.draft = DraftFields
    BY <1>1, SessionFields, DraftFacts
  <1>3. StageBacked
    BY <1>1, <1>2 DEF StageBacked, Backing, TalkInv, TalkTypes
  <1>4. OptionsAreForDraft
    BY <1>1 DEF OptionsAreForDraft, Offers
  <1>5. LinkReachesCustomer
    BY DEF LinkReachesCustomer, TalkInv, LinksAhead, LinkAhead
  <1> QED BY <1>3, <1>4, <1>5 DEF TalkSound, TalkInv

(* For every fleet, calendar and verdict of Google, whatever the model     *)
(* understands and wherever a turn is interrupted: saved stages have behind *)
(* them what they talk about, options are for the draft, bookings are at a  *)
(* price that was told, a message books once, and the link of a booking     *)
(* reaches the customer (resolveRouteDecision, CreateBookingNode.run,       *)
(* saveState).                                                              *)
THEOREM TalkStaysSound == CSpec => []TalkSound
  <1>1. CInit => TalkInv
    BY TalkStarts
  <1>2. TalkInv /\ [CNext]_cvars => TalkInv'
    BY TalkStepKeeps
  <1>3. TalkInv => TalkSound
    BY TalkInvSuffices
  <1> QED BY <1>1, <1>2, <1>3, PTL DEF CSpec

-----------------------------------------------------------------------------
(* The inbox of the booking agent.                                         *)

InboxKinds == {"text", "handoff", "reset", "media", "audio"}
JobStates  == {"none", "waiting", "active", "done", "failed"}
JobPlaces  == {"idle", "lock", "load", "graph", "reply", "finish"}

Talks == [turns: SUBSET Inbound, stage: {"none"} \cup Stages, cleared: BOOLEAN]

InboxJobs ==
    [state: JobStates, tries: 0..InJobTries, pc: JobPlaces, loaded: Talks,
     kind: {"none"} \cup InboxKinds, waited: Nat,
     stage: {"none", "error"} \cup InboxKinds \cup Stages, stalled: BOOLEAN]

SilenceJobs == [state: {"none", "delayed", "active", "done"}, at: Nat, idle: BOOLEAN]

InboxRows == [status: {"none", "PENDING", "PROCESSED", "FAILED"}, at: Nat]

Conversations == [lastIn: Nat, status: {"ACTIVE", "HANDOFF"},
                  lock: Inbound \cup {NoMessage}, lockEnd: Nat]

(* What is kept of the inbox has its type, and no time lies ahead.         *)
InboxTypes ==
    /\ clockI \in 0..IMaxTime /\ faultsI \in 0..IMaxFaults
    /\ conv \in Conversations /\ conv.lastIn <= clockI
    /\ msg \in [Inbound -> InboxRows] /\ body \in [Inbound -> InboxKinds]
    /\ inhook \subseteq Inbound /\ work \in [Inbound -> InboxJobs] /\ session \in Talks
    /\ nudge \in SilenceJobs /\ nudge.at <= clockI
    /\ clear \in SilenceJobs /\ clear.at <= clockI
    /\ overrun \subseteq Inbound /\ disturbed \in BOOLEAN

(* A job runs for a message that has a row, is tried within its limit, and *)
(* is told apart from the graph's turns by the stage it answers with.      *)
InboxJobOk(w) ==
    /\ w.state = "active" <=> w.pc # "idle"
    /\ w.state = "waiting" => w.tries < InJobTries
    /\ w.state = "active" => w.tries >= 1
    /\ w.state = "none" => w = NoWork

InboxJobsOk == \A m \in Inbound : InboxJobOk(work[m])

RowsBehindJobs ==
    \A m \in Inbound :
        /\ m \in inhook => work[m].state = "none"
        /\ m \in inhook \/ work[m].state # "none" => msg[m].status # "none"
        /\ msg[m].at <= conv.lastIn

(* A text is left to the graph.                                            *)
KindsRight ==
    \A m \in Inbound : work[m].pc = "graph" => work[m].kind \in resolveInboundMessageContent(body[m])

(* What is finished has been answered.                                     *)
FinishedIsAnswered ==
    \A m \in Inbound : work[m].pc = "finish" \/ msg[m].status = "PROCESSED" => \E k \in sent : k.of = m

(* Who is past the lock holds it, as long as nobody outran it.             *)
LockHeld ==
    overrun = {} =>
        \A m \in Inbound : work[m].pc \in {"load", "graph", "reply", "finish"} => conv.lock = m

Answered == {m \in Inbound : Answer(m, "langgraph") \in sent}

(* The session, and what the graph has loaded of it, has the turns that    *)
(* were answered, and the one that is about to be.                         *)
TurnsKept ==
    overrun = {} =>
        /\ ~session.cleared => Answered \subseteq session.turns
        /\ \A m \in Inbound :
              /\ work[m].pc = "graph" /\ ~work[m].loaded.cleared => Answered \subseteq work[m].loaded.turns
              /\ work[m].pc = "reply" /\ work[m].stage \in Stages /\ ~session.cleared => m \in session.turns

NudgedBeforeCleared == clear.state # "none" => Inactivity("nudge", clear.at) \in sent

Undisturbed == ~disturbed /\ overrun = {} /\ \A m \in Inbound : body[m] = "text"

PastLoad(m) == work[m].pc \in {"graph", "reply", "finish"}

(* A message that has yet to cancel the inactivity jobs, or never will.    *)
Upcoming(m) == m \in inhook \/ work[m].state \in {"waiting", "failed"} \/ work[m].pc \in {"lock", "load"}

Live(j) == j.state \in {"delayed", "active"}

Spoken(j) == Live(j) /\ conv.lastIn > j.at => \E m \in Inbound : Upcoming(m)

(* Undisturbed, a turn has no inactivity job beside it; a stage that waits *)
(* for the customer has one, or a message under way; and a message that    *)
(* came in after a job was scheduled is under way still.                   *)
SilenceWatched ==
    Undisturbed =>
        /\ \A m \in Inbound : PastLoad(m) =>
              /\ nudge.state = "none" /\ clear.state = "none"
              /\ work[m].pc # "graph" => work[m].stage = session.stage
        /\ Live(nudge) => clear.state = "none"
        /\ nudge.state = "active" /\ isNudgeableStage(session.stage) => nudge.idle
        /\ (\A m \in Inbound : ~PastLoad(m)) /\ isNudgeableStage(session.stage) =>
              Live(nudge) \/ Live(clear) \/ \E m \in Inbound : Upcoming(m)
        /\ Spoken(nudge) /\ Spoken(clear)
        /\ clear.state = "active" /\ ~clear.idle => \E m \in Inbound : Upcoming(m)

(* The inductive invariant of the inbox.                                   *)
InboxInv ==
    /\ InboxTypes /\ InboxJobsOk /\ RowsBehindJobs /\ KindsRight /\ FinishedIsAnswered
    /\ LockHeld /\ TurnsKept /\ NudgedBeforeCleared /\ SilenceWatched

(* The fields of what is kept have their types.                            *)
LEMMA InboxFields ==
    ASSUME InboxTypes
    PROVE  /\ clockI \in Nat /\ conv.lastIn \in Nat /\ conv.lastIn <= clockI
           /\ conv.lock \in Inbound \cup {NoMessage} /\ conv.lockEnd \in Nat
           /\ nudge.at \in Nat /\ nudge.at <= clockI /\ clear.at \in Nat /\ clear.at <= clockI
           /\ \A m \in Inbound : msg[m].at \in Nat /\ work[m] \in InboxJobs
  <1>1. /\ clockI \in Nat /\ conv \in Conversations /\ conv.lastIn <= clockI
        /\ nudge \in SilenceJobs /\ clear \in SilenceJobs /\ nudge.at <= clockI /\ clear.at <= clockI
        /\ \A m \in Inbound : msg[m] \in InboxRows /\ work[m] \in InboxJobs
    BY InboxConstants DEF InboxTypes, InboxConstants
  <1> QED BY <1>1 DEF Conversations, SilenceJobs, InboxRows


(* A job that changes leaves the others alone.                             *)
LEMMA JobSet ==
    ASSUME InboxTypes, NEW m \in Inbound, NEW w \in InboxJobs, work' = [work EXCEPT ![m] = w]
    PROVE  /\ work' \in [Inbound -> InboxJobs] /\ work'[m] = w
           /\ \A n \in Inbound : n # m => work'[n] = work[n]
  BY DEF InboxTypes

(* A job that has not begun is one.                                        *)
LEMMA NoWorkFits ==
    NoWork \in InboxJobs /\ NoWork.pc = "idle" /\ NoWork.state = "none" /\ NoSession \in Talks
  <1>1. NoSession \in Talks
    BY DEF NoSession, Talks, Stages
  <1>2. 0 \in 0..InJobTries
    BY InboxConstants DEF InboxConstants
  <1> QED BY <1>1, <1>2 DEF NoWork, InboxJobs, JobStates, JobPlaces

(* The fields of a job have their types.                                   *)
LEMMA JobFields ==
    ASSUME NEW w \in InboxJobs
    PROVE  /\ w.state \in JobStates /\ w.tries \in 0..InJobTries /\ w.pc \in JobPlaces
           /\ w.loaded \in Talks /\ w.kind \in {"none"} \cup InboxKinds /\ w.waited \in Nat
           /\ w.stage \in {"none", "error"} \cup InboxKinds \cup Stages /\ w.stalled \in BOOLEAN
  BY DEF InboxJobs

(* What a failed attempt becomes.                                          *)
LEMMA RetryFits ==
    ASSUME NEW w \in InboxJobs
    PROVE  /\ Retry(w) \in InboxJobs /\ InboxJobOk(Retry(w)) /\ Retry(w).pc = "idle"
           /\ Retry(w).state \in {"waiting", "failed"}
  <1> DEFINE g == IF w.tries < InJobTries THEN "waiting" ELSE "failed"
             r == [NoWork EXCEPT !.state = g, !.tries = w.tries, !.stalled = w.stalled]
  <1>1. Retry(w) = r
    BY DEF Retry
  <1>2. g \in JobStates /\ g \in {"waiting", "failed"} /\ (g = "waiting" => w.tries < InJobTries)
    BY DEF JobStates
  <1> HIDE DEF g
  <1>3. r \in InboxJobs /\ r.pc = "idle" /\ r.state = g /\ r.tries = w.tries
    BY <1>2, JobFields, NoWorkFits DEF InboxJobs
  <1> HIDE DEF r
  <1> QED BY <1>1, <1>2, <1>3 DEF InboxJobOk

(* Jobs stay right when one of them becomes another that is.               *)
LEMMA JobsOkStep ==
    ASSUME InboxInv, NEW m \in Inbound, NEW w \in InboxJobs, work' = [work EXCEPT ![m] = w],
           InboxJobOk(w)
    PROVE  InboxJobsOk'
  <1>1. work'[m] = w /\ \A n \in Inbound : n # m => work'[n] = work[n]
    BY JobSet DEF InboxInv
  <1>2. \A n \in Inbound : InboxJobOk(work'[n])
    BY <1>1 DEF InboxInv, InboxJobsOk
  <1> QED BY <1>2 DEF InboxJobsOk, InboxJobOk

(* Rows stay behind their jobs while no job begins unannounced and no row  *)
(* is deleted.                                                             *)
LEMMA RowsStep ==
    ASSUME InboxInv, conv'.lastIn \in Nat, conv.lastIn <= conv'.lastIn,
           \A n \in Inbound : /\ n \in inhook' => n \in inhook
                              /\ work'[n].state = work[n].state \/ work[n].state # "none"
                                    \/ (n \in inhook /\ n \notin inhook')
                              /\ \/ msg'[n] = msg[n]
                                 \/ msg'[n].at = msg[n].at /\ msg'[n].status # "none"
    PROVE  RowsBehindJobs'
  <1> SUFFICES ASSUME NEW n \in Inbound
               PROVE  /\ n \in inhook' => work'[n].state = "none"
                      /\ n \in inhook' \/ work'[n].state # "none" => msg'[n].status # "none"
                      /\ msg'[n].at <= conv'.lastIn
    BY DEF RowsBehindJobs
  <1>1. /\ n \in inhook => work[n].state = "none"
        /\ n \in inhook \/ work[n].state # "none" => msg[n].status # "none"
        /\ msg[n].at <= conv.lastIn
    BY DEF InboxInv, RowsBehindJobs
  <1>2. msg[n].at \in Nat /\ conv.lastIn \in Nat
    BY DEF InboxInv, InboxTypes, InboxRows, Conversations
  <1> QED BY <1>1, <1>2

(* A text stays with the graph while no other job gets there.              *)
LEMMA KindsStep ==
    ASSUME InboxInv, body' = body,
           \A n \in Inbound : work'[n].pc = "graph" =>
              \/ work'[n] = work[n]
              \/ work'[n].kind \in resolveInboundMessageContent(body[n])
    PROVE  KindsRight'
  BY DEF InboxInv, KindsRight, resolveInboundMessageContent

(* What is finished stays answered while nothing more is finished.         *)
LEMMA FinishedStep ==
    ASSUME InboxInv, sent \subseteq sent',
           \A n \in Inbound : /\ work'[n].pc = "finish" => work[n].pc = "finish"
                              /\ msg'[n].status = "PROCESSED" => msg[n].status = "PROCESSED"
    PROVE  FinishedIsAnswered'
  BY DEF InboxInv, FinishedIsAnswered

(* The lock stays held while nobody else gets past it.                     *)
LEMMA LockStep ==
    ASSUME InboxInv, overrun' = overrun,
           \A n \in Inbound : work'[n].pc \in {"load", "graph", "reply", "finish"} =>
              /\ work[n].pc \in {"load", "graph", "reply", "finish"}
              /\ conv.lock = n => conv'.lock = n
    PROVE  LockHeld'
  BY DEF InboxInv, LockHeld

(* The turns stay with the session while no job moves to the graph, or on  *)
(* from it with a stage of its own.                                        *)
LEMMA TurnsStep ==
    ASSUME InboxInv, overrun \subseteq overrun', sent' = sent, session' = session,
           \A n \in Inbound : \/ work'[n] = work[n] \/ work'[n].pc \notin {"graph", "reply"}
                              \/ work'[n].pc = "reply" /\ work'[n].stage \notin Stages
    PROVE  TurnsKept'
  <1> SUFFICES ASSUME overrun' = {}
               PROVE  /\ ~session'.cleared => Answered' \subseteq session'.turns
                      /\ \A n \in Inbound :
                           /\ work'[n].pc = "graph" /\ ~work'[n].loaded.cleared =>
                                 Answered' \subseteq work'[n].loaded.turns
                           /\ work'[n].pc = "reply" /\ work'[n].stage \in Stages /\ ~session'.cleared =>
                                 n \in session'.turns
    BY DEF TurnsKept
  <1>1. overrun = {} /\ Answered' = Answered
    BY DEF Answered
  <1> QED BY <1>1 DEF InboxInv, TurnsKept

(* The nudge stays before the clear job while none is added.               *)
LEMMA NudgedStep ==
    ASSUME InboxInv, sent \subseteq sent', clear'.state # "none" => clear.state # "none" /\ clear'.at = clear.at
    PROVE  NudgedBeforeCleared'
  BY DEF InboxInv, NudgedBeforeCleared

(* Once disturbed, nothing is said of the inactivity jobs.                 *)
LEMMA DisturbedStep ==
    ASSUME disturbed' = TRUE
    PROVE  SilenceWatched'
  BY DEF SilenceWatched, Undisturbed

(* The inactivity jobs keep their watch while no turn gets past the load,  *)
(* none ends, and no message stops being under way.                        *)
LEMMA SilenceStep ==
    ASSUME InboxInv, body' = body, overrun \subseteq overrun', disturbed' = disturbed,
           session' = session, nudge' = nudge, clear' = clear,
           \A n \in Inbound : PastLoad(n) <=> PastLoad(n)',
           \A n \in Inbound : PastLoad(n) => work'[n].stage = work[n].stage
                                             /\ (work'[n].pc # "graph" => work[n].pc # "graph"),
           \A n \in Inbound : Upcoming(n) => Upcoming(n)',
           conv'.lastIn = conv.lastIn \/ \E n \in Inbound : Upcoming(n)'
    PROVE  SilenceWatched'
  <1> SUFFICES ASSUME Undisturbed'
               PROVE  SilenceWatched'
    BY DEF SilenceWatched
  <1>1. Undisturbed
    BY DEF Undisturbed
  <1>2. (\E n \in Inbound : Upcoming(n)) => \E n \in Inbound : Upcoming(n)'
    OBVIOUS
  <1>3. /\ \A n \in Inbound : PastLoad(n) =>
              /\ nudge.state = "none" /\ clear.state = "none"
              /\ work[n].pc # "graph" => work[n].stage = session.stage
        /\ Live(nudge) => clear.state = "none"
        /\ nudge.state = "active" /\ isNudgeableStage(session.stage) => nudge.idle
        /\ (\A n \in Inbound : ~PastLoad(n)) /\ isNudgeableStage(session.stage) =>
              Live(nudge) \/ Live(clear) \/ \E n \in Inbound : Upcoming(n)
        /\ Spoken(nudge) /\ Spoken(clear)
        /\ clear.state = "active" /\ ~clear.idle => \E n \in Inbound : Upcoming(n)
    BY <1>1 DEF InboxInv, SilenceWatched
  <1>4. Spoken(nudge)' /\ Spoken(clear)'
    BY <1>2, <1>3 DEF Spoken, Live
  <1>5. \A n \in Inbound : PastLoad(n)' =>
              /\ nudge'.state = "none" /\ clear'.state = "none"
              /\ work'[n].pc # "graph" => work'[n].stage = session'.stage
    BY <1>3
  <1>6. (\A n \in Inbound : ~PastLoad(n)') /\ isNudgeableStage(session'.stage) =>
              Live(nudge') \/ Live(clear') \/ \E n \in Inbound : Upcoming(n)'
    BY <1>2, <1>3
  <1> QED BY <1>2, <1>3, <1>4, <1>5, <1>6 DEF SilenceWatched, Live

(* The invariant holds before any message.                                 *)
LEMMA InboxStartsSound == IInit => InboxInv
  <1> SUFFICES ASSUME IInit PROVE InboxInv
    OBVIOUS
  <1>1. /\ clockI = 0 /\ faultsI = IMaxFaults
        /\ conv = [lastIn |-> 0, status |-> "ACTIVE", lock |-> NoMessage, lockEnd |-> 0]
        /\ msg = [m \in Inbound |-> NoRow] /\ body \in Bodies /\ inhook = {}
        /\ work = [m \in Inbound |-> NoWork]
        /\ session = [NoSession EXCEPT !.turns = {}, !.stage = "none"]
        /\ nudge = NoJob /\ clear = NoJob /\ sent = {} /\ overrun = {} /\ disturbed = FALSE
    BY DEF IInit, IInitWith
  <1>2. /\ \A m \in Inbound : work[m] = NoWork /\ msg[m] = NoRow
        /\ session.turns = {} /\ session.stage = "none" /\ session \in Talks
    BY <1>1 DEF NoSession, Talks
  <1>3. InboxTypes
    <2>1. NoRow \in InboxRows /\ NoJob \in SilenceJobs /\ NoJob.at = 0 /\ conv \in Conversations
      BY <1>1 DEF NoRow, NoJob, InboxRows, SilenceJobs, Conversations
    <2>2. body \in [Inbound -> InboxKinds]
      BY <1>1, InboxConstants DEF InboxConstants, InboxKinds
    <2>3. 0 \in 0..IMaxTime /\ IMaxFaults \in 0..IMaxFaults
      BY InboxConstants DEF InboxConstants
    <2>4. /\ msg \in [Inbound -> InboxRows] /\ work \in [Inbound -> InboxJobs]
          /\ clockI \in 0..IMaxTime /\ faultsI \in 0..IMaxFaults
          /\ nudge \in SilenceJobs /\ nudge.at <= clockI /\ clear \in SilenceJobs /\ clear.at <= clockI
          /\ conv.lastIn <= clockI /\ disturbed \in BOOLEAN
      <3>1. msg \in [Inbound -> InboxRows] /\ work \in [Inbound -> InboxJobs]
        BY <1>1, <2>1, NoWorkFits
      <3>2. clockI \in 0..IMaxTime /\ faultsI \in 0..IMaxFaults /\ disturbed \in BOOLEAN
        BY <1>1, <2>3
      <3>3. nudge.at = 0 /\ clear.at = 0 /\ clockI = 0 /\ conv.lastIn = 0
        BY <1>1, <2>1
      <3> QED BY <1>1, <2>1, <3>1, <3>2, <3>3
    <2> QED BY <1>1, <1>2, <2>1, <2>2, <2>4 DEF InboxTypes
  <1>4. InboxJobsOk
    BY <1>2, NoWorkFits, InboxConstants DEF InboxJobsOk, InboxJobOk, InboxConstants
  <1>5. RowsBehindJobs
    <2>1. conv.lastIn = 0 /\ inhook = {} /\ \A m \in Inbound : msg[m].at = 0 /\ work[m].state = "none"
      BY <1>1, <1>2, NoWorkFits DEF NoRow
    <2> SUFFICES ASSUME NEW m \in Inbound
                 PROVE  msg[m].at <= conv.lastIn /\ m \notin inhook /\ work[m].state = "none"
      BY DEF RowsBehindJobs
    <2>2. msg[m].at = 0 /\ conv.lastIn = 0
      BY <2>1
    <2> QED BY <2>1, <2>2
  <1>6. KindsRight /\ FinishedIsAnswered /\ LockHeld
    BY <1>2, NoWorkFits DEF KindsRight, FinishedIsAnswered, LockHeld, NoRow
  <1>7. TurnsKept
    BY <1>1, <1>2, NoWorkFits DEF TurnsKept, Answered
  <1>8. NudgedBeforeCleared
    BY <1>1 DEF NudgedBeforeCleared, NoJob
  <1>9. SilenceWatched
    BY <1>1, <1>2, NoWorkFits DEF SilenceWatched, PastLoad, Live, Spoken, NoJob, isNudgeableStage
  <1> QED BY <1>3, <1>4, <1>5, <1>6, <1>7, <1>8, <1>9 DEF InboxInv

(* A fault costs one of those left and disturbs.                           *)
LEMMA FaultFits ==
    ASSUME InboxTypes, NEW n \in {1, 2}, Fault(n)
    PROVE  faultsI' \in 0..IMaxFaults /\ disturbed' = TRUE
  <1>1. faultsI \in 0..IMaxFaults /\ faultsI >= n /\ faultsI' = faultsI - n /\ disturbed' = TRUE
    BY DEF Fault, InboxTypes
  <1> QED BY <1>1, InboxConstants DEF InboxConstants

(* A message comes in, for the first time or again.                        *)
LEMMA HandleKeeps ==
    ASSUME InboxInv, NEW m \in Inbound, handleInbound(m)
    PROVE  InboxInv'
  <1>1. /\ conv' = [conv EXCEPT !.lastIn = clockI, !.status = "ACTIVE"]
        /\ body' = body /\ clockI' = clockI /\ work' = work /\ session' = session /\ nudge' = nudge
        /\ clear' = clear /\ sent' = sent /\ overrun' = overrun
    BY DEF handleInbound, upsertConversationForInbound
  <1>2. InboxTypes
    BY DEF InboxInv
  <1>3. /\ conv' \in Conversations /\ conv'.lastIn = clockI /\ conv'.lock = conv.lock
        /\ conv.lastIn <= clockI /\ conv.lastIn \in Nat /\ clockI \in Nat
    BY <1>1, <1>2, InboxFields DEF InboxTypes, Conversations
  <1>4. CASE /\ msg[m].status = "none" /\ msg' = createInboundMessage(m) /\ inhook' = inhook \cup {m}
             /\ UNCHANGED <<faultsI, disturbed>>
    <2>1. /\ msg' \in [Inbound -> InboxRows] /\ msg'[m].status = "PENDING" /\ msg'[m].at = clockI
          /\ \A n \in Inbound : n # m => msg'[n] = msg[n]
      BY <1>2, <1>3, <1>4 DEF createInboundMessage, InboxTypes, InboxRows
    <2>2. InboxTypes'
      BY <1>1, <1>2, <1>3, <1>4, <2>1 DEF InboxTypes
    <2>3. InboxJobsOk' /\ KindsRight' /\ LockHeld'
      BY <1>1, <1>3 DEF InboxInv, InboxJobsOk, InboxJobOk, KindsRight, LockHeld
    <2>4. RowsBehindJobs'
      <3> SUFFICES ASSUME NEW n \in Inbound
                   PROVE  /\ n \in inhook' => work'[n].state = "none"
                          /\ n \in inhook' \/ work'[n].state # "none" => msg'[n].status # "none"
                          /\ msg'[n].at <= conv'.lastIn
        BY DEF RowsBehindJobs
      <3>1. /\ n \in inhook => work[n].state = "none"
            /\ n \in inhook \/ work[n].state # "none" => msg[n].status # "none"
            /\ msg[n].at <= conv.lastIn /\ msg[n].at \in Nat
        BY <1>2 DEF InboxInv, RowsBehindJobs, InboxTypes, InboxRows
      <3>2. CASE n = m
        BY <1>1, <1>3, <1>4, <2>1, <3>1, <3>2
      <3>3. CASE n # m
        BY <1>1, <1>3, <1>4, <2>1, <3>1, <3>3
      <3> QED BY <3>2, <3>3
    <2>5. FinishedIsAnswered'
      <3>1. \A n \in Inbound : msg'[n].status = "PROCESSED" => msg[n].status = "PROCESSED"
        BY <2>1
      <3> QED BY <1>1, <3>1, FinishedStep
    <2>6. TurnsKept' /\ NudgedBeforeCleared'
      BY <1>1, TurnsStep, NudgedStep
    <2>7. SilenceWatched'
      <3>1. \A n \in Inbound : Upcoming(n) => Upcoming(n)'
        BY <1>1, <1>4 DEF Upcoming
      <3>2. Upcoming(m)'
        BY <1>4 DEF Upcoming
      <3> QED BY <1>1, <1>4, <3>1, <3>2, SilenceStep DEF PastLoad
    <2> QED BY <2>2, <2>3, <2>4, <2>5, <2>6, <2>7 DEF InboxInv
  <1>5. CASE Fault(1) /\ UNCHANGED <<msg, inhook>>
    <2>1. faultsI' \in 0..IMaxFaults /\ disturbed' = TRUE
      BY <1>2, <1>5, FaultFits
    <2>2. InboxTypes'
      BY <1>1, <1>2, <1>3, <1>5, <2>1 DEF InboxTypes
    <2>3. InboxJobsOk' /\ KindsRight' /\ LockHeld'
      BY <1>1, <1>3 DEF InboxInv, InboxJobsOk, InboxJobOk, KindsRight, LockHeld
    <2>4. RowsBehindJobs'
      BY <1>1, <1>3, <1>5, RowsStep
    <2>5. FinishedIsAnswered' /\ TurnsKept' /\ NudgedBeforeCleared' /\ SilenceWatched'
      BY <1>1, <1>5, <2>1, FinishedStep, TurnsStep, NudgedStep, DisturbedStep
    <2> QED BY <2>2, <2>3, <2>4, <2>5 DEF InboxInv
  <1> QED BY <1>4, <1>5 DEF handleInbound

(* Its job is queued.                                                      *)
LEMMA EnqueueKeeps ==
    ASSUME InboxInv, NEW m \in Inbound, enqueueInbound(m)
    PROVE  InboxInv'
  <1> DEFINE w == [NoWork EXCEPT !.state = "waiting"]
  <1>1. /\ m \in inhook /\ inhook' = inhook \ {m}
        /\ work' = [work EXCEPT ![m] = [work[m] EXCEPT !.state = "waiting"]]
        /\ body' = body /\ clockI' = clockI /\ faultsI' = faultsI /\ conv' = conv /\ msg' = msg
        /\ session' = session /\ nudge' = nudge /\ clear' = clear /\ sent' = sent
        /\ overrun' = overrun /\ disturbed' = disturbed
    BY DEF enqueueInbound
  <1>2. InboxTypes /\ work[m] \in InboxJobs /\ conv.lastIn \in Nat
    BY DEF InboxInv, InboxTypes, Conversations
  <1>3. work[m].state = "none" /\ work[m] = NoWork /\ work[m].pc = "idle"
    BY <1>1, NoWorkFits DEF InboxInv, RowsBehindJobs, InboxJobsOk, InboxJobOk
  <1>4. w \in InboxJobs /\ w.state = "waiting" /\ w.pc = "idle" /\ w.tries = 0
    BY NoWorkFits DEF InboxJobs, JobStates, NoWork
  <1>5. work' = [work EXCEPT ![m] = w]
    BY <1>1, <1>3
  <1> HIDE DEF w
  <1>6. InboxJobOk(w)
    BY <1>4, InboxConstants DEF InboxJobOk, InboxConstants
  <1>7. work'[m] = w /\ work' \in [Inbound -> InboxJobs] /\ \A n \in Inbound : n # m => work'[n] = work[n]
    BY <1>2, <1>4, <1>5, JobSet
  <1>8. InboxTypes'
    BY <1>1, <1>2, <1>7 DEF InboxTypes
  <1>9. InboxJobsOk'
    BY <1>4, <1>5, <1>6, JobsOkStep
  <1>10. RowsBehindJobs'
    BY <1>1, <1>2, <1>7, RowsStep
  <1>11. \A n \in Inbound : work'[n] = work[n] \/ (work'[n].pc = "idle" /\ work[n].pc = "idle")
    BY <1>3, <1>4, <1>7
  <1>12. KindsRight' /\ FinishedIsAnswered' /\ LockHeld' /\ TurnsKept' /\ NudgedBeforeCleared'
    BY <1>1, <1>11, KindsStep, FinishedStep, LockStep, TurnsStep, NudgedStep
  <1>13. SilenceWatched'
    <2>1. \A n \in Inbound : Upcoming(n) => Upcoming(n)'
      BY <1>1, <1>3, <1>4, <1>7 DEF Upcoming
    <2>2. \A n \in Inbound : /\ PastLoad(n) <=> PastLoad(n)'
                             /\ PastLoad(n) => work'[n].stage = work[n].stage
                                               /\ (work'[n].pc # "graph" => work[n].pc # "graph")
      BY <1>11 DEF PastLoad
    <2> QED BY <1>1, <2>1, <2>2, SilenceStep
  <1> QED BY <1>8, <1>9, <1>10, <1>12, <1>13 DEF InboxInv

(* What holds of types, jobs and rows, when one job moves.                 *)
LEMMA JobStep ==
    ASSUME InboxInv, NEW m \in Inbound, NEW w \in InboxJobs, InboxJobOk(w), w.state # "none",
           work[m].state # "none", work' = [work EXCEPT ![m] = w],
           clockI' = clockI, body' = body, inhook' = inhook,
           conv' \in Conversations, conv'.lastIn = conv.lastIn,
           msg' \in [Inbound -> InboxRows],
           \A n \in Inbound : msg'[n] = msg[n] \/ (msg'[n].at = msg[n].at /\ msg'[n].status # "none"),
           faultsI' \in 0..IMaxFaults, disturbed' \in BOOLEAN, session' \in Talks,
           nudge' \in SilenceJobs, nudge'.at <= clockI, clear' \in SilenceJobs, clear'.at <= clockI,
           overrun' \subseteq Inbound
    PROVE  /\ InboxTypes' /\ InboxJobsOk' /\ RowsBehindJobs' /\ work'[m] = w
           /\ \A n \in Inbound : n # m => work'[n] = work[n]
  <1>1. InboxTypes
    BY DEF InboxInv
  <1>2. /\ work' \in [Inbound -> InboxJobs] /\ work'[m] = w
        /\ \A n \in Inbound : n # m => work'[n] = work[n]
    BY <1>1, JobSet
  <1>3. InboxTypes'
    BY <1>1, <1>2, InboxFields DEF InboxTypes
  <1>4. InboxJobsOk'
    BY JobsOkStep
  <1>5. conv'.lastIn \in Nat /\ conv.lastIn <= conv'.lastIn
    BY <1>1, InboxFields
  <1>6. RowsBehindJobs'
    BY <1>2, <1>5, RowsStep
  <1> QED BY <1>2, <1>3, <1>4, <1>6

(* The rows and the conversation as they are.                              *)
LEMMA InboxTyped ==
    ASSUME InboxInv
    PROVE  /\ conv \in Conversations /\ msg \in [Inbound -> InboxRows] /\ faultsI \in 0..IMaxFaults
           /\ disturbed \in BOOLEAN /\ session \in Talks
           /\ nudge \in SilenceJobs /\ nudge.at <= clockI /\ clear \in SilenceJobs /\ clear.at <= clockI
           /\ overrun \subseteq Inbound /\ InboxTypes
           /\ \A m \in Inbound : work[m] \in InboxJobs /\ InboxJobOk(work[m])
  BY DEF InboxInv, InboxTypes, InboxJobsOk

(* The queue refuses the job.                                              *)
LEMMA RefusedKeeps ==
    ASSUME InboxInv, NEW m \in Inbound, enqueueRefused(m)
    PROVE  InboxInv'
  <1>1. /\ m \in inhook /\ inhook' = inhook \ {m} /\ work' = work /\ conv' = conv
        /\ body' = body /\ clockI' = clockI /\ session' = session /\ nudge' = nudge
        /\ clear' = clear /\ sent' = sent /\ overrun' = overrun
        /\ msg' = [msg EXCEPT ![m] = NoRow] \/ msg' = msg
        /\ Fault(1) \/ Fault(2)
    BY DEF enqueueRefused
  <1>2. InboxTypes /\ conv.lastIn \in Nat
    BY InboxTyped, InboxFields
  <1>3. faultsI' \in 0..IMaxFaults /\ disturbed' = TRUE
    BY <1>1, <1>2, FaultFits
  <1>4. NoRow \in InboxRows /\ NoRow.at = 0 /\ NoRow.status = "none"
    BY DEF NoRow, InboxRows
  <1>5. /\ msg' \in [Inbound -> InboxRows]
        /\ \A n \in Inbound : msg'[n] = msg[n] \/ (n = m /\ msg'[n].at = 0 /\ msg'[n].status = "none")
    BY <1>1, <1>2, <1>4 DEF InboxTypes
  <1>6. InboxTypes'
    BY <1>1, <1>2, <1>3, <1>5 DEF InboxTypes
  <1>7. InboxJobsOk' /\ KindsRight' /\ LockHeld'
    BY <1>1 DEF InboxInv, InboxJobsOk, InboxJobOk, KindsRight, LockHeld
  <1>8. RowsBehindJobs'
    <2>1. work[m].state = "none"
      BY <1>1 DEF InboxInv, RowsBehindJobs
    <2> SUFFICES ASSUME NEW n \in Inbound
                 PROVE  /\ n \in inhook' => work'[n].state = "none"
                        /\ n \in inhook' \/ work'[n].state # "none" => msg'[n].status # "none"
                        /\ msg'[n].at <= conv'.lastIn
      BY DEF RowsBehindJobs
    <2>2. /\ n \in inhook => work[n].state = "none"
          /\ n \in inhook \/ work[n].state # "none" => msg[n].status # "none"
          /\ msg[n].at <= conv.lastIn
      BY DEF InboxInv, RowsBehindJobs
    <2>3. CASE msg'[n] = msg[n]
      BY <1>1, <2>2, <2>3
    <2>4. CASE n = m /\ msg'[n].at = 0 /\ msg'[n].status = "none"
      BY <1>1, <1>2, <2>1, <2>4
    <2> QED BY <1>5, <2>3, <2>4
  <1>9. FinishedIsAnswered' /\ TurnsKept' /\ NudgedBeforeCleared' /\ SilenceWatched'
    <2>1. \A n \in Inbound : msg'[n].status = "PROCESSED" => msg[n].status = "PROCESSED"
      BY <1>5
    <2> QED BY <1>1, <1>3, <2>1, FinishedStep, TurnsStep, NudgedStep, DisturbedStep
  <1> QED BY <1>6, <1>7, <1>8, <1>9 DEF InboxInv

(* A worker takes the job.                                                 *)
LEMMA StartKeeps ==
    ASSUME InboxInv, NEW m \in Inbound, startInbound(m)
    PROVE  InboxInv'
  <1>1. PICK w : /\ w = [NoWork EXCEPT !.state = "active", !.tries = work[m].tries + 1, !.pc = "lock",
                                       !.waited = clockI, !.stalled = work[m].stalled]
                 /\ work' = [work EXCEPT ![m] = w]
    BY DEF startInbound
  <1>2. /\ work[m].state = "waiting" /\ inhook' = inhook /\ conv' = conv /\ msg' = msg
        /\ body' = body /\ clockI' = clockI /\ faultsI' = faultsI /\ session' = session /\ nudge' = nudge
        /\ clear' = clear /\ sent' = sent /\ overrun' = overrun /\ disturbed' = disturbed
    BY DEF startInbound
  <1>3. /\ work[m] \in InboxJobs /\ work[m].tries < InJobTries /\ work[m].pc = "idle" /\ clockI \in Nat
        /\ work[m].tries \in 0..InJobTries /\ work[m].stalled \in BOOLEAN
    BY <1>2, InboxTyped, InboxFields, JobFields DEF InboxJobOk
  <1>4. PICK t \in 1..InJobTries : t = work[m].tries + 1
    BY <1>3, InboxConstants DEF InboxConstants
  <1>5. /\ w \in InboxJobs /\ w.state = "active" /\ w.pc = "lock" /\ w.tries = t
    <2>1. t \in 0..InJobTries
      BY InboxConstants DEF InboxConstants
    <2> QED BY <1>1, <1>3, <1>4, <2>1, NoWorkFits DEF InboxJobs, JobStates, JobPlaces
  <1>6. InboxJobOk(w)
    BY <1>5, InboxConstants DEF InboxJobOk, InboxConstants
  <1>7. /\ InboxTypes' /\ InboxJobsOk' /\ RowsBehindJobs' /\ work'[m] = w
        /\ \A n \in Inbound : n # m => work'[n] = work[n]
    BY <1>1, <1>2, <1>5, <1>6, InboxTyped, JobStep
  <1>8. \A n \in Inbound :
            \/ work'[n] = work[n]
            \/ n = m /\ work'[n].pc = "lock" /\ work[n].pc = "idle" /\ work'[n].state = "active"
    BY <1>3, <1>5, <1>7
  <1>9. KindsRight' /\ FinishedIsAnswered' /\ LockHeld' /\ TurnsKept' /\ NudgedBeforeCleared'
    BY <1>2, <1>8, KindsStep, FinishedStep, LockStep, TurnsStep, NudgedStep
  <1>10. SilenceWatched'
    <2>1. \A n \in Inbound : Upcoming(n) => Upcoming(n)'
      BY <1>2, <1>8 DEF Upcoming
    <2>2. \A n \in Inbound : /\ PastLoad(n) <=> PastLoad(n)'
                             /\ PastLoad(n) => work'[n].stage = work[n].stage
                                               /\ (work'[n].pc # "graph" => work[n].pc # "graph")
      BY <1>8 DEF PastLoad
    <2> QED BY <1>2, <2>1, <2>2, SilenceStep
  <1> QED BY <1>7, <1>9, <1>10 DEF InboxInv

(* The processing lock is taken.                                           *)
LEMMA AcquireKeeps ==
    ASSUME InboxInv, NEW m \in Inbound, acquireProcessingLock(m)
    PROVE  InboxInv'
  <1>1. PICK w : w = [work[m] EXCEPT !.pc = "load"] /\ work' = [work EXCEPT ![m] = w]
    BY DEF acquireProcessingLock
  <1>2. /\ work[m].pc = "lock" /\ lockFree(m) /\ conv' = [conv EXCEPT !.lock = m, !.lockEnd = clockI + LockTTL]
        /\ overrun' = overrun \cup
              {n \in Inbound \ {m} :
                  conv.lock = n /\ conv.lockEnd < clockI /\ work[n].pc \notin {"idle", "lock"}}
        /\ inhook' = inhook /\ msg' = msg /\ body' = body /\ clockI' = clockI /\ faultsI' = faultsI
        /\ session' = session /\ nudge' = nudge /\ clear' = clear /\ sent' = sent /\ disturbed' = disturbed
    BY DEF acquireProcessingLock
  <1>3. work[m] \in InboxJobs /\ InboxJobOk(work[m]) /\ conv \in Conversations /\ clockI \in Nat
    BY InboxTyped, InboxFields
  <1>4. work[m].state = "active"
    BY <1>2, <1>3 DEF InboxJobOk
  <1>5. /\ w \in InboxJobs /\ w.state = "active" /\ w.pc = "load" /\ w.tries = work[m].tries
    BY <1>1, <1>3, <1>4 DEF InboxJobs, JobPlaces
  <1>6. InboxJobOk(w)
    BY <1>3, <1>4, <1>5 DEF InboxJobOk
  <1>7. /\ conv' \in Conversations /\ conv'.lastIn = conv.lastIn /\ conv'.lock = m
    <2>1. clockI + LockTTL \in Nat
      BY <1>3, InboxConstants DEF InboxConstants
    <2> QED BY <1>2, <1>3, <2>1 DEF Conversations
  <1>8. overrun \subseteq overrun' /\ overrun' \subseteq Inbound
    BY <1>2, InboxTyped
  <1>9. /\ InboxTypes' /\ InboxJobsOk' /\ RowsBehindJobs' /\ work'[m] = w
        /\ \A n \in Inbound : n # m => work'[n] = work[n]
    BY <1>1, <1>2, <1>4, <1>5, <1>6, <1>7, <1>8, InboxTyped, JobStep
  <1>10. \A n \in Inbound :
            \/ work'[n] = work[n]
            \/ n = m /\ work'[n].pc = "load" /\ work[n].pc = "lock"
    BY <1>2, <1>5, <1>9
  <1>11. KindsRight' /\ FinishedIsAnswered' /\ TurnsKept' /\ NudgedBeforeCleared'
    BY <1>2, <1>8, <1>10, KindsStep, FinishedStep, TurnsStep, NudgedStep
  <1>12. LockHeld'
    <2> SUFFICES ASSUME overrun' = {}, NEW n \in Inbound, n # m,
                        work'[n].pc \in {"load", "graph", "reply", "finish"}
                 PROVE  FALSE
      BY <1>7 DEF LockHeld
    <2>1. work[n].pc \in {"load", "graph", "reply", "finish"}
      BY <1>9
    <2>2. conv.lock = n
      BY <1>8, <2>1 DEF InboxInv, LockHeld
    <2>3. n # NoMessage
      BY InboxConstants DEF InboxConstants
    <2>4. conv.lockEnd < clockI
      BY <1>2, <2>2, <2>3 DEF lockFree
    <2>5. n \in overrun'
      BY <1>2, <2>1, <2>2, <2>4
    <2> QED BY <2>5
  <1>13. SilenceWatched'
    <2>1. \A n \in Inbound : Upcoming(n) => Upcoming(n)'
      BY <1>2, <1>10 DEF Upcoming
    <2>2. \A n \in Inbound : /\ PastLoad(n) <=> PastLoad(n)'
                             /\ PastLoad(n) => work'[n].stage = work[n].stage
                                               /\ (work'[n].pc # "graph" => work[n].pc # "graph")
      BY <1>10 DEF PastLoad
    <2> QED BY <1>2, <1>7, <1>8, <2>1, <2>2, SilenceStep
  <1> QED BY <1>9, <1>11, <1>12, <1>13 DEF InboxInv

(* The lock is waited for in vain.                                         *)
LEMMA LockTimeoutKeeps ==
    ASSUME InboxInv, NEW m \in Inbound, lockTimeout(m)
    PROVE  InboxInv'
  <1>1. /\ work[m].pc = "lock" /\ work' = [work EXCEPT ![m] = Retry(work[m])]
        /\ inhook' = inhook /\ msg' = msg /\ body' = body /\ clockI' = clockI /\ faultsI' = faultsI
        /\ conv' = conv /\ overrun' = overrun
        /\ session' = session /\ nudge' = nudge /\ clear' = clear /\ sent' = sent /\ disturbed' = disturbed
    BY DEF lockTimeout
  <1>2. work[m] \in InboxJobs /\ InboxJobOk(work[m])
    BY InboxTyped
  <1>3. work[m].state = "active"
    BY <1>1, <1>2 DEF InboxJobOk
  <1>4. PICK w \in InboxJobs : /\ w = Retry(work[m]) /\ InboxJobOk(w) /\ w.pc = "idle"
                               /\ w.state \in {"waiting", "failed"}
    BY <1>2, RetryFits
  <1>5. /\ InboxTypes' /\ InboxJobsOk' /\ RowsBehindJobs' /\ work'[m] = w
        /\ \A n \in Inbound : n # m => work'[n] = work[n]
    BY <1>1, <1>3, <1>4, InboxTyped, JobStep
  <1>6. \A n \in Inbound :
            \/ work'[n] = work[n]
            \/ n = m /\ work'[n].pc = "idle" /\ work[n].pc = "lock" /\ work'[n].state \in {"waiting", "failed"}
    BY <1>1, <1>4, <1>5
  <1>7. KindsRight' /\ FinishedIsAnswered' /\ LockHeld' /\ TurnsKept' /\ NudgedBeforeCleared'
    BY <1>1, <1>6, KindsStep, FinishedStep, LockStep, TurnsStep, NudgedStep
  <1>8. SilenceWatched'
    <2>1. \A n \in Inbound : Upcoming(n) => Upcoming(n)'
      BY <1>1, <1>6 DEF Upcoming
    <2>2. \A n \in Inbound : /\ PastLoad(n) <=> PastLoad(n)'
                             /\ PastLoad(n) => work'[n].stage = work[n].stage
                                               /\ (work'[n].pc # "graph" => work[n].pc # "graph")
      BY <1>6 DEF PastLoad
    <2> QED BY <1>1, <2>1, <2>2, SilenceStep
  <1> QED BY <1>5, <1>7, <1>8 DEF InboxInv

(* The inactivity jobs are cancelled and the session is loaded.            *)
LEMMA LoadKeeps ==
    ASSUME InboxInv, NEW m \in Inbound, cancelAndLoad(m)
    PROVE  InboxInv'
  <1>1. /\ work[m].pc = "load" /\ nudge' = removeJobSafely(nudge) /\ clear' = removeJobSafely(clear)
        /\ disturbed' = (disturbed \/ nudge.state = "active" \/ clear.state = "active")
        /\ inhook' = inhook /\ msg' = msg /\ body' = body /\ clockI' = clockI /\ faultsI' = faultsI
        /\ conv' = conv /\ overrun' = overrun /\ session' = session /\ sent' = sent
    BY DEF cancelAndLoad
  <1>2. work[m] \in InboxJobs /\ InboxJobOk(work[m]) /\ session \in Talks /\ InboxTypes
    BY InboxTyped
  <1>3. work[m].state = "active"
    BY <1>1, <1>2 DEF InboxJobOk
  <1>4. PICK kind \in resolveInboundMessageContent(body[m]) :
            work' = [work EXCEPT ![m].pc = "graph", ![m].loaded = session, ![m].kind = kind]
    BY DEF cancelAndLoad
  <1>5. kind \in InboxKinds
    <2>1. body[m] \in InboxKinds
      BY <1>2 DEF InboxTypes
    <2> QED BY <2>1 DEF InboxKinds, resolveInboundMessageContent
  <1>6. PICK w : w = [work[m] EXCEPT !.pc = "graph", !.loaded = session, !.kind = kind]
    OBVIOUS
  <1>7. work' = [work EXCEPT ![m] = w]
    BY <1>2, <1>4, <1>6 DEF InboxTypes, InboxJobs
  <1>8. /\ w \in InboxJobs /\ w.state = "active" /\ w.pc = "graph" /\ w.tries = work[m].tries
        /\ w.loaded = session /\ w.kind = kind
    BY <1>2, <1>3, <1>5, <1>6 DEF InboxJobs, JobPlaces
  <1>9. InboxJobOk(w)
    BY <1>2, <1>3, <1>8 DEF InboxJobOk
  <1>10. /\ nudge' \in SilenceJobs /\ nudge'.at <= clockI /\ clear' \in SilenceJobs /\ clear'.at <= clockI
         /\ (nudge' = nudge /\ nudge.state = "active") \/ nudge' = NoJob
         /\ (clear' = clear /\ clear.state = "active") \/ clear' = NoJob
    <2>1. NoJob \in SilenceJobs /\ NoJob.at = 0 /\ clockI \in Nat
      BY <1>2, InboxFields DEF NoJob, SilenceJobs
    <2>2. 0 <= clockI
      BY <2>1
    <2> QED BY <1>1, <2>1, <2>2, InboxTyped DEF removeJobSafely
  <1>11. disturbed' \in BOOLEAN
    BY <1>1
  <1>12. /\ InboxTypes' /\ InboxJobsOk' /\ RowsBehindJobs' /\ work'[m] = w
         /\ \A n \in Inbound : n # m => work'[n] = work[n]
    BY <1>1, <1>3, <1>7, <1>8, <1>9, <1>10, <1>11, InboxTyped, JobStep
  <1>13. \A n \in Inbound :
            \/ work'[n] = work[n]
            \/ n = m /\ work'[n].pc = "graph" /\ work[n].pc = "load" /\ work'[n].kind = kind
    BY <1>1, <1>8, <1>12
  <1>14. KindsRight' /\ FinishedIsAnswered' /\ LockHeld'
    BY <1>1, <1>4, <1>13, KindsStep, FinishedStep, LockStep
  <1>15. NudgedBeforeCleared'
    BY <1>1, <1>10, NudgedStep DEF NoJob
  <1>16. TurnsKept'
    <2> SUFFICES ASSUME overrun' = {}
                 PROVE  /\ ~session'.cleared => Answered' \subseteq session'.turns
                        /\ \A n \in Inbound :
                             /\ work'[n].pc = "graph" /\ ~work'[n].loaded.cleared =>
                                   Answered' \subseteq work'[n].loaded.turns
                             /\ work'[n].pc = "reply" /\ work'[n].stage \in Stages /\ ~session'.cleared =>
                                   n \in session'.turns
      BY DEF TurnsKept
    <2>1. overrun = {} /\ Answered' = Answered
      BY <1>1 DEF Answered
    <2>2. /\ ~session.cleared => Answered \subseteq session.turns
          /\ \A n \in Inbound :
               /\ work[n].pc = "graph" /\ ~work[n].loaded.cleared => Answered \subseteq work[n].loaded.turns
               /\ work[n].pc = "reply" /\ work[n].stage \in Stages /\ ~session.cleared => n \in session.turns
      BY <2>1 DEF InboxInv, TurnsKept
    <2> QED BY <1>1, <1>8, <1>12, <2>1, <2>2
  <1>17. SilenceWatched'
    <2> SUFFICES ASSUME Undisturbed'
                 PROVE  SilenceWatched'
      BY DEF SilenceWatched
    <2>1. Undisturbed /\ nudge.state # "active" /\ clear.state # "active"
      BY <1>1 DEF Undisturbed
    <2>2. nudge'.state = "none" /\ clear'.state = "none"
      BY <1>10, <2>1 DEF NoJob
    <2>3. \A n \in Inbound : PastLoad(n)' => (work'[n].pc # "graph" => work'[n].stage = session'.stage)
      BY <1>1, <1>13, <2>1 DEF PastLoad, InboxInv, SilenceWatched
    <2>4. PastLoad(m)'
      BY <1>8, <1>12 DEF PastLoad
    <2> QED BY <2>2, <2>3, <2>4 DEF SilenceWatched, Spoken, Live
  <1> QED BY <1>12, <1>14, <1>15, <1>16, <1>17 DEF InboxInv

(* Nobody else is past the lock with the one who holds it.                 *)
LEMMA LockAlone ==
    ASSUME InboxInv, overrun = {}, NEW m \in Inbound, NEW n \in Inbound, m # n,
           work[m].pc \in {"load", "graph", "reply", "finish"}
    PROVE  work[n].pc \notin {"load", "graph", "reply", "finish"}
  BY DEF InboxInv, LockHeld

(* The graph answers and its state is saved.                               *)
LEMMA GraphKeeps ==
    ASSUME InboxInv, NEW m \in Inbound, decideLangGraph(m)
    PROVE  InboxInv'
  <1>1. PICK s \in Stages :
            /\ session' = invoke(m, s)
            /\ work' = [work EXCEPT ![m].pc = "reply", ![m].stage = s]
    BY DEF decideLangGraph
  <1>2. /\ work[m].pc = "graph" /\ inhook' = inhook /\ msg' = msg /\ body' = body /\ clockI' = clockI
        /\ faultsI' = faultsI /\ conv' = conv /\ overrun' = overrun /\ sent' = sent
        /\ nudge' = nudge /\ clear' = clear /\ disturbed' = disturbed
    BY DEF decideLangGraph
  <1>3. work[m] \in InboxJobs /\ InboxJobOk(work[m]) /\ InboxTypes /\ work[m].loaded \in Talks
    BY InboxTyped, JobFields
  <1>4. work[m].state = "active"
    BY <1>2, <1>3 DEF InboxJobOk
  <1>5. PICK w : w = [work[m] EXCEPT !.pc = "reply", !.stage = s]
    OBVIOUS
  <1>6. work' = [work EXCEPT ![m] = w]
    BY <1>1, <1>3, <1>5 DEF InboxTypes, InboxJobs
  <1>7. /\ w \in InboxJobs /\ w.state = "active" /\ w.pc = "reply" /\ w.tries = work[m].tries
        /\ w.stage = s
    BY <1>3, <1>4, <1>5 DEF InboxJobs, JobPlaces
  <1>8. InboxJobOk(w)
    BY <1>3, <1>4, <1>7 DEF InboxJobOk
  <1>9. /\ session' \in Talks /\ session'.stage = s /\ session'.cleared = work[m].loaded.cleared
        /\ session'.turns = work[m].loaded.turns \cup {m}
    BY <1>1, <1>3 DEF invoke, Talks
  <1>10. /\ InboxTypes' /\ InboxJobsOk' /\ RowsBehindJobs' /\ work'[m] = w
         /\ \A n \in Inbound : n # m => work'[n] = work[n]
    BY <1>2, <1>4, <1>6, <1>7, <1>8, <1>9, InboxTyped, JobStep
  <1>11. \A n \in Inbound :
            \/ work'[n] = work[n]
            \/ n = m /\ work'[n].pc = "reply" /\ work[n].pc = "graph"
    BY <1>2, <1>7, <1>10
  <1>12. KindsRight' /\ FinishedIsAnswered' /\ LockHeld' /\ NudgedBeforeCleared'
    BY <1>2, <1>11, KindsStep, FinishedStep, LockStep, NudgedStep
  <1>13. TurnsKept'
    <2> SUFFICES ASSUME overrun' = {}
                 PROVE  /\ ~session'.cleared => Answered' \subseteq session'.turns
                        /\ \A n \in Inbound :
                             /\ work'[n].pc = "graph" /\ ~work'[n].loaded.cleared =>
                                   Answered' \subseteq work'[n].loaded.turns
                             /\ work'[n].pc = "reply" /\ work'[n].stage \in Stages /\ ~session'.cleared =>
                                   n \in session'.turns
      BY DEF TurnsKept
    <2>1. overrun = {} /\ Answered' = Answered
      BY <1>2 DEF Answered
    <2>2. ~work[m].loaded.cleared => Answered \subseteq work[m].loaded.turns
      BY <1>2, <2>1 DEF InboxInv, TurnsKept
    <2>3. \A n \in Inbound : n # m => work'[n].pc \notin {"graph", "reply"}
      BY <1>2, <1>10, <2>1, LockAlone
    <2> QED BY <1>7, <1>9, <1>10, <2>1, <2>2, <2>3
  <1>14. SilenceWatched'
    <2> SUFFICES ASSUME Undisturbed'
                 PROVE  SilenceWatched'
      BY DEF SilenceWatched
    <2>1. Undisturbed /\ overrun = {}
      BY <1>2 DEF Undisturbed
    <2>2. PastLoad(m) /\ PastLoad(m)'
      BY <1>2, <1>7, <1>10 DEF PastLoad
    <2>3. nudge'.state = "none" /\ clear'.state = "none"
      BY <1>2, <2>1, <2>2 DEF InboxInv, SilenceWatched
    <2>4. \A n \in Inbound : PastLoad(n)' => n = m
      BY <1>2, <1>10, <2>1, LockAlone DEF PastLoad
    <2>5. work'[m].stage = session'.stage
      BY <1>7, <1>9, <1>10
    <2> QED BY <2>2, <2>3, <2>4, <2>5 DEF SilenceWatched, Spoken, Live
  <1> QED BY <1>10, <1>12, <1>13, <1>14 DEF InboxInv

(* The graph fails, or a RESET does, and is answered all the same.         *)
LEMMA GraphFailedKeeps ==
    ASSUME InboxInv, NEW m \in Inbound, graphFailed(m) \/ resetFailed(m)
    PROVE  InboxInv'
  <1>1. PICK s \in {"error", "reset"} : work' = [work EXCEPT ![m].pc = "reply", ![m].stage = s]
    BY DEF graphFailed, resetFailed
  <1>2. /\ work[m].pc = "graph" /\ inhook' = inhook /\ msg' = msg /\ body' = body /\ clockI' = clockI
        /\ conv' = conv /\ overrun' = overrun /\ sent' = sent
        /\ nudge' = nudge /\ clear' = clear /\ session' = session /\ Fault(1)
    BY DEF graphFailed, resetFailed
  <1>3. work[m] \in InboxJobs /\ InboxJobOk(work[m]) /\ InboxTypes
    BY InboxTyped
  <1>4. work[m].state = "active"
    BY <1>2, <1>3 DEF InboxJobOk
  <1>5. PICK w : w = [work[m] EXCEPT !.pc = "reply", !.stage = s]
    OBVIOUS
  <1>6. work' = [work EXCEPT ![m] = w]
    BY <1>1, <1>3, <1>5 DEF InboxTypes, InboxJobs
  <1>7. /\ w \in InboxJobs /\ w.state = "active" /\ w.pc = "reply" /\ w.tries = work[m].tries
        /\ w.stage = s
    BY <1>3, <1>4, <1>5 DEF InboxJobs, JobPlaces, InboxKinds
  <1>8. InboxJobOk(w)
    BY <1>3, <1>4, <1>7 DEF InboxJobOk
  <1>9. faultsI' \in 0..IMaxFaults /\ disturbed' = TRUE
    BY <1>2, <1>3, FaultFits
  <1>10. /\ InboxTypes' /\ InboxJobsOk' /\ RowsBehindJobs' /\ work'[m] = w
         /\ \A n \in Inbound : n # m => work'[n] = work[n]
    BY <1>2, <1>4, <1>6, <1>7, <1>8, <1>9, InboxTyped, JobStep
  <1>11. \A n \in Inbound :
            \/ work'[n] = work[n]
            \/ n = m /\ work'[n].pc = "reply" /\ work[n].pc = "graph" /\ work'[n].stage \notin Stages
    BY <1>2, <1>7, <1>10 DEF Stages
  <1>12. KindsRight' /\ FinishedIsAnswered' /\ LockHeld' /\ TurnsKept' /\ NudgedBeforeCleared'
    BY <1>2, <1>11, KindsStep, FinishedStep, LockStep, TurnsStep, NudgedStep
  <1> QED BY <1>9, <1>10, <1>12, DisturbedStep DEF InboxInv

(* A message that is no text is answered without the graph.                *)
LEMMA DirectKeeps ==
    ASSUME InboxInv, NEW m \in Inbound, decideDirectly(m)
    PROVE  InboxInv'
  <1>1. /\ work[m].pc = "graph" /\ work[m].kind # "text"
        /\ session' = IF work[m].kind = "reset" THEN clearState ELSE session
        /\ work' = [work EXCEPT ![m].pc = "reply", ![m].stage = work[m].kind]
        /\ inhook' = inhook /\ msg' = msg /\ body' = body /\ clockI' = clockI
        /\ faultsI' = faultsI /\ conv' = conv /\ overrun' = overrun /\ sent' = sent
        /\ nudge' = nudge /\ clear' = clear /\ disturbed' = disturbed
    BY DEF decideDirectly
  <1>2. work[m] \in InboxJobs /\ InboxJobOk(work[m]) /\ InboxTypes /\ session \in Talks
    BY InboxTyped
  <1>3. work[m].state = "active"
    BY <1>1, <1>2 DEF InboxJobOk
  <1>4. PICK k \in InboxKinds : k = work[m].kind /\ k \notin Stages /\ body[m] # "text"
    <2>1. work[m].kind \in resolveInboundMessageContent(body[m]) /\ body[m] \in InboxKinds
      BY <1>1, <1>2 DEF InboxInv, KindsRight, InboxTypes
    <2> QED BY <1>1, <2>1 DEF resolveInboundMessageContent, InboxKinds, Stages
  <1>5. PICK w : w = [work[m] EXCEPT !.pc = "reply", !.stage = k]
    OBVIOUS
  <1>6. work' = [work EXCEPT ![m] = w]
    BY <1>1, <1>2, <1>4, <1>5 DEF InboxTypes, InboxJobs
  <1>7. /\ w \in InboxJobs /\ w.state = "active" /\ w.pc = "reply" /\ w.tries = work[m].tries
        /\ w.stage = k
    BY <1>2, <1>3, <1>5 DEF InboxJobs, JobPlaces
  <1>8. InboxJobOk(w)
    BY <1>2, <1>3, <1>7 DEF InboxJobOk
  <1>9. session' \in Talks /\ (session' = session \/ session'.cleared)
    BY <1>1, <1>2, NoWorkFits DEF clearState, Talks, NoSession
  <1>10. /\ InboxTypes' /\ InboxJobsOk' /\ RowsBehindJobs' /\ work'[m] = w
         /\ \A n \in Inbound : n # m => work'[n] = work[n]
    BY <1>1, <1>3, <1>6, <1>7, <1>8, <1>9, InboxTyped, JobStep
  <1>11. \A n \in Inbound :
            \/ work'[n] = work[n]
            \/ n = m /\ work'[n].pc = "reply" /\ work[n].pc = "graph" /\ work'[n].stage \notin Stages
    BY <1>1, <1>4, <1>7, <1>10
  <1>12. KindsRight' /\ FinishedIsAnswered' /\ LockHeld' /\ NudgedBeforeCleared'
    BY <1>1, <1>11, KindsStep, FinishedStep, LockStep, NudgedStep
  <1>13. TurnsKept'
    <2> SUFFICES ASSUME overrun' = {}
                 PROVE  /\ ~session'.cleared => Answered' \subseteq session'.turns
                        /\ \A n \in Inbound :
                             /\ work'[n].pc = "graph" /\ ~work'[n].loaded.cleared =>
                                   Answered' \subseteq work'[n].loaded.turns
                             /\ work'[n].pc = "reply" /\ work'[n].stage \in Stages /\ ~session'.cleared =>
                                   n \in session'.turns
      BY DEF TurnsKept
    <2>1. overrun = {} /\ Answered' = Answered
      BY <1>1 DEF Answered
    <2>2. /\ ~session.cleared => Answered \subseteq session.turns
          /\ \A n \in Inbound :
               /\ work[n].pc = "graph" /\ ~work[n].loaded.cleared => Answered \subseteq work[n].loaded.turns
               /\ work[n].pc = "reply" /\ work[n].stage \in Stages /\ ~session.cleared => n \in session.turns
      BY <2>1 DEF InboxInv, TurnsKept
    <2> QED BY <1>9, <1>11, <2>1, <2>2
  <1>14. SilenceWatched'
    BY <1>1, <1>4 DEF SilenceWatched, Undisturbed
  <1> QED BY <1>10, <1>12, <1>13, <1>14 DEF InboxInv

(* The answer is put into the outbox.                                      *)
LEMMA InboxReplyKeeps ==
    ASSUME InboxInv, NEW m \in Inbound, enqueueReply(m)
    PROVE  InboxInv'
  <1>1. PICK w : w = [work[m] EXCEPT !.pc = "finish"] /\ work' = [work EXCEPT ![m] = w]
    BY DEF enqueueReply
  <1>2. /\ work[m].pc = "reply" /\ sent' = sent \cup {ReplyKey(m)}
        /\ inhook' = inhook /\ msg' = msg /\ body' = body /\ clockI' = clockI
        /\ faultsI' = faultsI /\ conv' = conv /\ overrun' = overrun /\ session' = session
        /\ nudge' = nudge /\ clear' = clear /\ disturbed' = disturbed
    BY DEF enqueueReply
  <1>3. work[m] \in InboxJobs /\ InboxJobOk(work[m]) /\ InboxTypes
    BY InboxTyped
  <1>4. work[m].state = "active"
    BY <1>2, <1>3 DEF InboxJobOk
  <1>5. /\ w \in InboxJobs /\ w.state = "active" /\ w.pc = "finish" /\ w.tries = work[m].tries
        /\ w.stage = work[m].stage
    BY <1>1, <1>3, <1>4 DEF InboxJobs, JobPlaces
  <1>6. InboxJobOk(w)
    BY <1>3, <1>4, <1>5 DEF InboxJobOk
  <1>7. /\ InboxTypes' /\ InboxJobsOk' /\ RowsBehindJobs' /\ work'[m] = w
        /\ \A n \in Inbound : n # m => work'[n] = work[n]
    BY <1>1, <1>2, <1>4, <1>5, <1>6, InboxTyped, JobStep
  <1>8. \A n \in Inbound :
            \/ work'[n] = work[n]
            \/ /\ n = m /\ work'[n].pc = "finish" /\ work[n].pc = "reply"
               /\ work'[n].stage = work[n].stage /\ work'[n].state = work[n].state
    BY <1>2, <1>4, <1>5, <1>7
  <1>9. KindsRight' /\ LockHeld' /\ NudgedBeforeCleared'
    BY <1>2, <1>8, KindsStep, LockStep, NudgedStep
  <1>10. ReplyKey(m).of = m /\ (ReplyKey(m).kind = "langgraph" => work[m].stage \in Stages)
    <2>1. work[m].stage # "langgraph"
      BY <1>3, JobFields DEF InboxKinds, Stages
    <2> QED BY <2>1 DEF ReplyKey, Answer
  <1>11. FinishedIsAnswered'
    <2> SUFFICES ASSUME NEW n \in Inbound, work'[n].pc = "finish" \/ msg'[n].status = "PROCESSED"
                 PROVE  \E k \in sent' : k.of = n
      BY DEF FinishedIsAnswered
    <2>1. CASE n = m
      BY <1>2, <1>10, <2>1
    <2>2. CASE n # m
      BY <1>2, <1>7, <2>2 DEF InboxInv, FinishedIsAnswered
    <2> QED BY <2>1, <2>2
  <1>12. TurnsKept'
    <2> SUFFICES ASSUME overrun' = {}
                 PROVE  /\ ~session'.cleared => Answered' \subseteq session'.turns
                        /\ \A n \in Inbound :
                             /\ work'[n].pc = "graph" /\ ~work'[n].loaded.cleared =>
                                   Answered' \subseteq work'[n].loaded.turns
                             /\ work'[n].pc = "reply" /\ work'[n].stage \in Stages /\ ~session'.cleared =>
                                   n \in session'.turns
      BY DEF TurnsKept
    <2>1. overrun = {}
      BY <1>2
    <2>2. /\ ~session.cleared => Answered \subseteq session.turns
          /\ work[m].stage \in Stages /\ ~session.cleared => m \in session.turns
      BY <1>2, <2>1 DEF InboxInv, TurnsKept
    <2>3. \A n \in Inbound : work'[n].pc \notin {"graph", "reply"}
      BY <1>2, <1>5, <1>7, <2>1, LockAlone
    <2>4. \A n \in Answered' : n \in Answered \/ (n = m /\ work[m].stage \in Stages)
      <3> TAKE n \in Answered'
      <3>1. n \in Inbound /\ Answer(n, "langgraph") \in sent \cup {ReplyKey(m)}
        BY <1>2 DEF Answered
      <3>2. CASE Answer(n, "langgraph") = ReplyKey(m)
        BY <1>10, <3>2 DEF Answer
      <3> QED BY <3>1, <3>2 DEF Answered
    <2> QED BY <1>2, <2>2, <2>3, <2>4
  <1>13. SilenceWatched'
    <2>1. \A n \in Inbound : Upcoming(n) => Upcoming(n)'
      BY <1>2, <1>8 DEF Upcoming
    <2>2. \A n \in Inbound : /\ PastLoad(n) <=> PastLoad(n)'
                             /\ PastLoad(n) => work'[n].stage = work[n].stage
                                               /\ (work'[n].pc # "graph" => work[n].pc # "graph")
      BY <1>8 DEF PastLoad
    <2> QED BY <1>2, <2>1, <2>2, SilenceStep
  <1> QED BY <1>7, <1>9, <1>11, <1>12, <1>13 DEF InboxInv

(* Releasing the lock leaves it with everybody else.                       *)
LEMMA ReleaseFits ==
    ASSUME InboxInv, NEW m \in Inbound
    PROVE  /\ releaseProcessingLock(m) \in Conversations /\ releaseProcessingLock(m).lastIn = conv.lastIn
           /\ \A n \in Inbound : n # m /\ conv.lock = n => releaseProcessingLock(m).lock = n
  BY InboxTyped DEF releaseProcessingLock, Conversations

(* A message is marked.                                                    *)
LEMMA MarkFits ==
    ASSUME InboxInv, NEW m \in Inbound, NEW s \in {"PROCESSED", "FAILED"}
    PROVE  /\ markInboundMessage(m, s) \in [Inbound -> InboxRows] /\ markInboundMessage(m, s)[m].status = s
           /\ markInboundMessage(m, s)[m].at = msg[m].at
           /\ \A n \in Inbound : n # m => markInboundMessage(m, s)[n] = msg[n]
  <1>1. msg \in [Inbound -> InboxRows]
    BY InboxTyped
  <1> QED BY <1>1 DEF markInboundMessage, InboxRows

(* A job that is over for now, whoever it was.                             *)
LEMMA OverStep ==
    ASSUME InboxInv, NEW m \in Inbound, NEW w \in InboxJobs, w.pc = "idle",
           work' = [work EXCEPT ![m] = w], body' = body, overrun' = overrun, sent' = sent,
           session' = session, clear' = clear,
           \A n \in Inbound : n # m /\ conv.lock = n => conv'.lock = n,
           \A n \in Inbound : msg'[n].status = "PROCESSED" => msg[n].status = "PROCESSED" \/ work[n].pc = "finish"
    PROVE  KindsRight' /\ FinishedIsAnswered' /\ LockHeld' /\ TurnsKept' /\ NudgedBeforeCleared'
  <1>1. work'[m] = w /\ \A n \in Inbound : n # m => work'[n] = work[n]
    BY InboxTyped, JobSet
  <1>2. \A n \in Inbound : (n # m /\ work'[n] = work[n]) \/ work'[n].pc = "idle"
    BY <1>1
  <1>3. KindsRight' /\ LockHeld' /\ TurnsKept' /\ NudgedBeforeCleared'
    BY <1>2, KindsStep, LockStep, TurnsStep, NudgedStep
  <1>4. FinishedIsAnswered'
    BY <1>2 DEF InboxInv, FinishedIsAnswered
  <1> QED BY <1>3, <1>4

(* The turn is over.                                                       *)
LEMMA FinishKeeps ==
    ASSUME InboxInv, NEW m \in Inbound, finishInbound(m)
    PROVE  InboxInv'
  <1>1. PICK w : w = [NoWork EXCEPT !.state = "done", !.tries = work[m].tries] /\ work' = [work EXCEPT ![m] = w]
    BY DEF finishInbound
  <1>2. /\ work[m].pc = "finish" /\ msg' = markInboundMessage(m, "PROCESSED")
        /\ nudge' = IF isNudgeableStage(work[m].stage) THEN scheduleInactivityNudge ELSE nudge
        /\ conv' = IF work[m].stage = "handoff" THEN markConversationHandoff(releaseProcessingLock(m))
                                                ELSE releaseProcessingLock(m)
        /\ inhook' = inhook /\ body' = body /\ clockI' = clockI
        /\ faultsI' = faultsI /\ overrun' = overrun /\ session' = session
        /\ clear' = clear /\ disturbed' = disturbed /\ sent' = sent
    BY DEF finishInbound
  <1>3. work[m] \in InboxJobs /\ InboxJobOk(work[m]) /\ InboxTypes /\ work[m].tries \in 0..InJobTries
    BY InboxTyped, JobFields
  <1>4. work[m].state = "active"
    BY <1>2, <1>3 DEF InboxJobOk
  <1>5. /\ w \in InboxJobs /\ w.state = "done" /\ w.pc = "idle"
    BY <1>1, <1>3, NoWorkFits DEF InboxJobs, JobStates
  <1>6. InboxJobOk(w)
    BY <1>5 DEF InboxJobOk
  <1>7. /\ conv' \in Conversations /\ conv'.lastIn = conv.lastIn
        /\ \A n \in Inbound : n # m /\ conv.lock = n => conv'.lock = n
    BY <1>2, ReleaseFits DEF markConversationHandoff, Conversations
  <1>8. /\ msg' \in [Inbound -> InboxRows]
        /\ \A n \in Inbound : msg'[n] = msg[n] \/ (n = m /\ msg'[n].at = msg[n].at /\ msg'[n].status = "PROCESSED")
    BY <1>2, MarkFits
  <1>9. nudge' \in SilenceJobs /\ nudge'.at <= clockI
    <2>1. clockI \in Nat /\ clockI <= clockI
      BY <1>3, InboxFields
    <2> QED BY <1>2, <2>1, InboxTyped DEF scheduleInactivityNudge, SilenceJobs
  <1>10. /\ InboxTypes' /\ InboxJobsOk' /\ RowsBehindJobs' /\ work'[m] = w
         /\ \A n \in Inbound : n # m => work'[n] = work[n]
    BY <1>1, <1>2, <1>4, <1>5, <1>6, <1>7, <1>8, <1>9, InboxTyped, JobStep
  <1>11. KindsRight' /\ FinishedIsAnswered' /\ LockHeld' /\ TurnsKept' /\ NudgedBeforeCleared'
    BY <1>1, <1>2, <1>5, <1>7, <1>8, OverStep
  <1>12. SilenceWatched'
    <2> SUFFICES ASSUME Undisturbed'
                 PROVE  SilenceWatched'
      BY DEF SilenceWatched
    <2>1. Undisturbed /\ overrun = {} /\ PastLoad(m)
      BY <1>2 DEF Undisturbed, PastLoad
    <2>2. nudge.state = "none" /\ clear.state = "none" /\ work[m].stage = session.stage
      BY <1>2, <2>1 DEF InboxInv, SilenceWatched
    <2>3. \A n \in Inbound : ~PastLoad(n)'
      BY <1>2, <1>5, <1>10, <2>1, LockAlone DEF PastLoad
    <2>4. CASE isNudgeableStage(session.stage)
      <3>1. nudge'.state = "delayed" /\ nudge'.at = clockI
        BY <1>2, <2>2, <2>4 DEF scheduleInactivityNudge
      <3>2. conv'.lastIn <= nudge'.at /\ conv'.lastIn \in Nat /\ nudge'.at \in Nat
        BY <1>3, <1>7, <3>1, InboxFields
      <3>3. ~(conv'.lastIn > nudge'.at)
        BY <3>2
      <3> QED BY <1>2, <2>2, <2>3, <3>1, <3>3 DEF SilenceWatched, Spoken, Live
    <2>5. CASE ~isNudgeableStage(session.stage)
      <3>1. nudge' = nudge /\ clear' = clear
        BY <1>2, <2>2, <2>5
      <3> QED BY <1>2, <2>2, <2>3, <2>5, <3>1 DEF SilenceWatched, Spoken, Live, isNudgeableStage
    <2> QED BY <2>4, <2>5
  <1> QED BY <1>10, <1>11, <1>12 DEF InboxInv

(* A statement of the job throws.                                          *)
LEMMA FailedKeeps ==
    ASSUME InboxInv, NEW m \in Inbound, inboundFailed(m)
    PROVE  InboxInv'
  <1>1. /\ work[m].pc \in {"load", "reply", "finish"} /\ work' = [work EXCEPT ![m] = Retry(work[m])]
        /\ msg' = markInboundMessage(m, "FAILED") /\ conv' = releaseProcessingLock(m) /\ Fault(1)
        /\ inhook' = inhook /\ body' = body /\ clockI' = clockI
        /\ overrun' = overrun /\ session' = session
        /\ nudge' = nudge /\ clear' = clear /\ sent' = sent
    BY DEF inboundFailed
  <1>2. work[m] \in InboxJobs /\ InboxJobOk(work[m]) /\ InboxTypes
    BY InboxTyped
  <1>3. work[m].state = "active"
    BY <1>1, <1>2 DEF InboxJobOk
  <1>4. PICK w \in InboxJobs : /\ w = Retry(work[m]) /\ InboxJobOk(w) /\ w.pc = "idle"
                               /\ w.state \in {"waiting", "failed"}
    BY <1>2, RetryFits
  <1>5. faultsI' \in 0..IMaxFaults /\ disturbed' = TRUE
    BY <1>1, <1>2, FaultFits
  <1>6. /\ msg' \in [Inbound -> InboxRows]
        /\ \A n \in Inbound : msg'[n] = msg[n] \/ (n = m /\ msg'[n].at = msg[n].at /\ msg'[n].status = "FAILED")
    BY <1>1, MarkFits
  <1>7. /\ conv' \in Conversations /\ conv'.lastIn = conv.lastIn
        /\ \A n \in Inbound : n # m /\ conv.lock = n => conv'.lock = n
    BY <1>1, ReleaseFits
  <1>8. InboxTypes' /\ InboxJobsOk' /\ RowsBehindJobs'
    BY <1>1, <1>3, <1>4, <1>5, <1>6, <1>7, InboxTyped, JobStep
  <1>9. \A n \in Inbound : msg'[n].status = "PROCESSED" => msg[n].status = "PROCESSED"
    BY <1>6
  <1>10. KindsRight' /\ FinishedIsAnswered' /\ LockHeld' /\ TurnsKept' /\ NudgedBeforeCleared'
    BY <1>1, <1>4, <1>7, <1>9, OverStep
  <1> QED BY <1>5, <1>8, <1>10, DisturbedStep DEF InboxInv

(* The worker dies.                                                        *)
LEMMA InboxDiesKeeps ==
    ASSUME InboxInv, NEW m \in Inbound, workerDies(m)
    PROVE  InboxInv'
  <1>1. /\ work[m].state = "active" /\ msg' = msg /\ conv' = conv /\ Fault(1)
        /\ inhook' = inhook /\ body' = body /\ clockI' = clockI
        /\ overrun' = overrun /\ session' = session
        /\ nudge' = nudge /\ clear' = clear /\ sent' = sent
    BY DEF workerDies
  <1>2. PICK g \in {"failed", "waiting"} :
            work' = [work EXCEPT ![m] = [NoWork EXCEPT !.state = g, !.tries = work[m].tries - 1, !.stalled = TRUE]]
    BY DEF workerDies
  <1>3. work[m] \in InboxJobs /\ InboxJobOk(work[m]) /\ InboxTypes /\ work[m].tries \in 0..InJobTries
    BY InboxTyped, JobFields
  <1>4. work[m].tries >= 1
    BY <1>1, <1>3 DEF InboxJobOk
  <1>5. PICK t \in 0..(InJobTries - 1) : t = work[m].tries - 1
    BY <1>3, <1>4, InboxConstants DEF InboxConstants
  <1>6. t \in 0..InJobTries /\ t < InJobTries
    BY <1>5, InboxConstants DEF InboxConstants
  <1>7. PICK w : w = [NoWork EXCEPT !.state = g, !.tries = t, !.stalled = TRUE]
    OBVIOUS
  <1>8. w \in InboxJobs /\ w.pc = "idle" /\ w.state = g /\ w.tries = t
    BY <1>6, <1>7, NoWorkFits DEF InboxJobs, JobStates
  <1>9. work' = [work EXCEPT ![m] = w]
    BY <1>2, <1>5, <1>7
  <1>10. InboxJobOk(w)
    BY <1>6, <1>8 DEF InboxJobOk
  <1>11. faultsI' \in 0..IMaxFaults /\ disturbed' = TRUE
    BY <1>1, <1>3, FaultFits
  <1>12. InboxTypes' /\ InboxJobsOk' /\ RowsBehindJobs'
    BY <1>1, <1>8, <1>9, <1>10, <1>11, InboxTyped, JobStep
  <1>13. KindsRight' /\ FinishedIsAnswered' /\ LockHeld' /\ TurnsKept' /\ NudgedBeforeCleared'
    BY <1>1, <1>8, <1>9, OverStep
  <1> QED BY <1>11, <1>12, <1>13, DisturbedStep DEF InboxInv

(* What holds of types, jobs and rows, when no message moves.              *)
LEMMA SilentStep ==
    ASSUME InboxInv, body' = body, conv' = conv, msg' = msg, inhook' = inhook, work' = work,
           overrun' = overrun, clockI' \in 0..IMaxTime, clockI <= clockI',
           faultsI' \in 0..IMaxFaults, disturbed' \in BOOLEAN, session' \in Talks,
           nudge' \in SilenceJobs, nudge'.at <= clockI, clear' \in SilenceJobs, clear'.at <= clockI,
           sent \subseteq sent'
    PROVE  /\ InboxTypes' /\ InboxJobsOk' /\ RowsBehindJobs' /\ KindsRight' /\ FinishedIsAnswered'
           /\ LockHeld'
  <1>1. InboxTypes
    BY InboxTyped
  <1>2. clockI' \in Nat /\ conv.lastIn <= clockI' /\ nudge'.at <= clockI' /\ clear'.at <= clockI'
    <2>1. nudge'.at \in Nat /\ clear'.at \in Nat /\ clockI' \in Nat
      BY InboxConstants DEF InboxConstants, SilenceJobs
    <2> QED BY <1>1, <2>1, InboxFields
  <1>3. InboxTypes'
    BY <1>1, <1>2 DEF InboxTypes
  <1>4. InboxJobsOk' /\ RowsBehindJobs' /\ LockHeld'
    BY DEF InboxInv, InboxJobsOk, InboxJobOk, RowsBehindJobs, LockHeld
  <1>5. KindsRight' /\ FinishedIsAnswered'
    BY KindsStep, FinishedStep
  <1> QED BY <1>3, <1>4, <1>5

(* A key that is no turn's answer leaves the turns as they are; clearing   *)
(* the session does too.                                                   *)
LEMMA SilentTurns ==
    ASSUME InboxInv, work' = work, overrun' = overrun, session' = session \/ session'.cleared,
           NEW k, k.of = NoMessage, sent' = sent \/ sent' = sent \cup {k}
    PROVE  TurnsKept'
  <1> SUFFICES ASSUME overrun' = {}
               PROVE  /\ ~session'.cleared => Answered' \subseteq session'.turns
                      /\ \A n \in Inbound :
                           /\ work'[n].pc = "graph" /\ ~work'[n].loaded.cleared =>
                                 Answered' \subseteq work'[n].loaded.turns
                           /\ work'[n].pc = "reply" /\ work'[n].stage \in Stages /\ ~session'.cleared =>
                                 n \in session'.turns
    BY DEF TurnsKept
  <1>1. \A n \in Inbound : Answer(n, "langgraph") # k
    BY InboxConstants DEF Answer, InboxConstants
  <1>2. overrun = {} /\ Answered' = Answered
    BY <1>1 DEF Answered
  <1>3. /\ ~session.cleared => Answered \subseteq session.turns
        /\ \A n \in Inbound :
             /\ work[n].pc = "graph" /\ ~work[n].loaded.cleared => Answered \subseteq work[n].loaded.turns
             /\ work[n].pc = "reply" /\ work[n].stage \in Stages /\ ~session.cleared => n \in session.turns
    BY <1>2 DEF InboxInv, TurnsKept
  <1> QED BY <1>2, <1>3

(* While an inactivity job lives, no turn is past the load.                *)
LEMMA NoTurnBeside ==
    ASSUME InboxInv, Undisturbed, nudge.state # "none" \/ clear.state # "none"
    PROVE  \A n \in Inbound : ~PastLoad(n)
  BY DEF InboxInv, SilenceWatched

(* The nudge is due.                                                       *)
LEMMA NudgeDueKeeps == InboxInv /\ nudgeDue => InboxInv'
  <1> SUFFICES ASSUME InboxInv, nudgeDue PROVE InboxInv'
    OBVIOUS
  <1>1. /\ nudge.state = "delayed"
        /\ nudge' = [nudge EXCEPT !.state = "active", !.idle = isNudgeableStage(session.stage)]
        /\ inhook' = inhook /\ msg' = msg /\ body' = body /\ clockI' = clockI /\ conv' = conv
        /\ faultsI' = faultsI /\ overrun' = overrun /\ session' = session /\ work' = work
        /\ clear' = clear /\ disturbed' = disturbed /\ sent' = sent
    BY DEF nudgeDue
  <1>2. /\ clockI \in 0..IMaxTime /\ clockI <= clockI /\ nudge \in SilenceJobs
    BY InboxTyped, InboxFields DEF InboxTypes
  <1>3. /\ nudge' \in SilenceJobs /\ nudge'.at = nudge.at /\ nudge'.state = "active"
        /\ (isNudgeableStage(session.stage) => nudge'.idle)
    <2> DEFINE waits == isNudgeableStage(session.stage)
    <2>0. waits \in BOOLEAN
      BY DEF isNudgeableStage
    <2> HIDE DEF waits
    <2>1. PICK i \in BOOLEAN : i = waits
      BY <2>0
    <2>2. nudge' = [nudge EXCEPT !.state = "active", !.idle = i]
      BY <1>1, <2>1 DEF waits
    <2> QED BY <1>2, <2>1, <2>2 DEF SilenceJobs, waits
  <1>4. /\ InboxTypes' /\ InboxJobsOk' /\ RowsBehindJobs' /\ KindsRight' /\ FinishedIsAnswered'
        /\ LockHeld'
    BY <1>1, <1>2, <1>3, InboxTyped, SilentStep
  <1>5. TurnsKept' /\ NudgedBeforeCleared'
    BY <1>1, TurnsStep, NudgedStep
  <1>6. SilenceWatched'
    <2> SUFFICES ASSUME Undisturbed'
                 PROVE  SilenceWatched'
      BY DEF SilenceWatched
    <2>1. Undisturbed
      BY <1>1 DEF Undisturbed
    <2>2. \A n \in Inbound : ~PastLoad(n)'
      BY <1>1, <2>1, NoTurnBeside DEF PastLoad
    <2>3. Live(nudge) /\ clear.state = "none" /\ Spoken(nudge)
      BY <1>1, <2>1 DEF InboxInv, SilenceWatched, Live
    <2>4. (\E n \in Inbound : Upcoming(n)) => \E n \in Inbound : Upcoming(n)'
      BY <1>1 DEF Upcoming
    <2>5. Live(nudge') /\ Spoken(nudge)' /\ clear'.state = "none"
      BY <1>1, <1>3, <2>3, <2>4 DEF Live, Spoken
    <2> QED BY <1>1, <1>3, <2>2, <2>5 DEF SilenceWatched, Spoken, Live
  <1> QED BY <1>4, <1>5, <1>6 DEF InboxInv

(* The nudge goes out, and the clear job is added.                         *)
LEMMA NudgeKeeps == InboxInv /\ processInactivityNudge => InboxInv'
  <1> SUFFICES ASSUME InboxInv, processInactivityNudge PROVE InboxInv'
    OBVIOUS
  <1> DEFINE k == Inactivity("nudge", nudge.at)
  <1>1. /\ nudge.state = "active" /\ nudge' = [nudge EXCEPT !.state = "done"]
        /\ inhook' = inhook /\ msg' = msg /\ body' = body /\ clockI' = clockI /\ conv' = conv
        /\ faultsI' = faultsI /\ overrun' = overrun /\ session' = session /\ work' = work
        /\ disturbed' = disturbed
    BY DEF processInactivityNudge
  <1>2. /\ nudge.idle => /\ sent' = sent \cup {k}
                         /\ clear' = IF clear.state = "none"
                                     THEN [state |-> "delayed", at |-> nudge.at, idle |-> TRUE] ELSE clear
        /\ ~nudge.idle => sent' = sent /\ clear' = clear
    BY DEF processInactivityNudge
  <1>3. /\ clockI \in 0..IMaxTime /\ clockI <= clockI /\ nudge \in SilenceJobs /\ nudge.idle \in BOOLEAN
        /\ nudge.at \in Nat /\ nudge.at <= clockI
    BY InboxTyped, InboxFields DEF InboxTypes, SilenceJobs
  <1>4. nudge' \in SilenceJobs /\ nudge'.at = nudge.at /\ nudge'.state = "done"
    BY <1>1, <1>3 DEF SilenceJobs
  <1>5. clear' \in SilenceJobs /\ clear'.at <= clockI
    <2>1. clear' = clear \/ clear' = [state |-> "delayed", at |-> nudge.at, idle |-> TRUE]
      BY <1>2, <1>3
    <2>2. CASE clear' = clear
      BY <2>2, InboxTyped
    <2>3. CASE clear' = [state |-> "delayed", at |-> nudge.at, idle |-> TRUE]
      BY <1>3, <2>3 DEF SilenceJobs
    <2> QED BY <2>1, <2>2, <2>3
  <1>6. k.of = NoMessage /\ sent \subseteq sent'
    BY <1>2, <1>3 DEF Inactivity
  <1>7. /\ InboxTypes' /\ InboxJobsOk' /\ RowsBehindJobs' /\ KindsRight' /\ FinishedIsAnswered'
        /\ LockHeld'
    BY <1>1, <1>3, <1>4, <1>5, <1>6, InboxTyped, SilentStep
  <1>8. TurnsKept'
    <2>1. sent' = sent \/ sent' = sent \cup {k}
      BY <1>2, <1>3
    <2> HIDE DEF k
    <2> QED BY <1>1, <1>6, <2>1, SilentTurns
  <1>9. NudgedBeforeCleared'
    <2>1. CASE clear' = clear
      BY <1>6, <2>1, NudgedStep
    <2>2. CASE clear' # clear
      <3>1. clear'.at = nudge.at /\ k \in sent'
        BY <1>2, <1>3, <2>2
      <3> QED BY <3>1 DEF NudgedBeforeCleared
    <2> QED BY <2>1, <2>2
  <1>10. SilenceWatched'
    <2> SUFFICES ASSUME Undisturbed'
                 PROVE  SilenceWatched'
      BY DEF SilenceWatched
    <2>1. Undisturbed
      BY <1>1 DEF Undisturbed
    <2>2. \A n \in Inbound : ~PastLoad(n)'
      BY <1>1, <2>1, NoTurnBeside DEF PastLoad
    <2>3. /\ Live(nudge) /\ clear.state = "none" /\ Spoken(nudge)
          /\ (isNudgeableStage(session.stage) => nudge.idle)
      BY <1>1, <2>1 DEF InboxInv, SilenceWatched, Live
    <2>4. (\E n \in Inbound : Upcoming(n)) => \E n \in Inbound : Upcoming(n)'
      BY <1>1 DEF Upcoming
    <2>5. ~Live(nudge')
      BY <1>4 DEF Live
    <2>6. CASE nudge.idle
      <3>1. clear'.state = "delayed" /\ clear'.at = nudge.at
        BY <1>2, <2>3, <2>6
      <3>2. Spoken(clear)'
        BY <1>1, <2>3, <2>4, <3>1 DEF Spoken, Live
      <3> QED BY <1>1, <1>4, <2>2, <2>5, <3>1, <3>2 DEF SilenceWatched, Spoken, Live
    <2>7. CASE ~nudge.idle
      <3>1. clear'.state = "none" /\ ~isNudgeableStage(session'.stage)
        BY <1>1, <1>2, <2>3, <2>7
      <3> QED BY <1>4, <2>2, <2>5, <3>1 DEF SilenceWatched, Spoken, Live
    <2> QED BY <1>3, <2>6, <2>7
  <1> QED BY <1>7, <1>8, <1>9, <1>10 DEF InboxInv

(* The clear job is due.                                                   *)
LEMMA ClearDueKeeps == InboxInv /\ clearDue => InboxInv'
  <1> SUFFICES ASSUME InboxInv, clearDue PROVE InboxInv'
    OBVIOUS
  <1>1. /\ clear.state = "delayed"
        /\ clear' = [clear EXCEPT !.state = "active", !.idle = ~respondedSince(clear)]
        /\ inhook' = inhook /\ msg' = msg /\ body' = body /\ clockI' = clockI /\ conv' = conv
        /\ faultsI' = faultsI /\ overrun' = overrun /\ session' = session /\ work' = work
        /\ nudge' = nudge /\ disturbed' = disturbed /\ sent' = sent
    BY DEF clearDue
  <1>2. /\ clockI \in 0..IMaxTime /\ clockI <= clockI /\ clear \in SilenceJobs
    BY InboxTyped, InboxFields DEF InboxTypes
  <1>3. /\ clear' \in SilenceJobs /\ clear'.at = clear.at /\ clear'.state = "active"
        /\ (~clear'.idle => conv.lastIn > clear.at)
    <2>1. PICK i \in BOOLEAN : i = ~(conv.lastIn > clear.at)
      OBVIOUS
    <2>2. clear' = [clear EXCEPT !.state = "active", !.idle = i]
      BY <1>1, <2>1 DEF respondedSince
    <2> QED BY <1>2, <2>1, <2>2 DEF SilenceJobs
  <1>4. /\ InboxTypes' /\ InboxJobsOk' /\ RowsBehindJobs' /\ KindsRight' /\ FinishedIsAnswered'
        /\ LockHeld'
    BY <1>1, <1>2, <1>3, InboxTyped, SilentStep
  <1>5. TurnsKept' /\ NudgedBeforeCleared'
    BY <1>1, <1>3, TurnsStep, NudgedStep
  <1>6. SilenceWatched'
    <2> SUFFICES ASSUME Undisturbed'
                 PROVE  SilenceWatched'
      BY DEF SilenceWatched
    <2>1. Undisturbed
      BY <1>1 DEF Undisturbed
    <2>2. \A n \in Inbound : ~PastLoad(n)'
      BY <1>1, <2>1, NoTurnBeside DEF PastLoad
    <2>3. ~Live(nudge) /\ Live(clear) /\ Spoken(clear)
      BY <1>1, <2>1 DEF InboxInv, SilenceWatched, Live
    <2>4. (\E n \in Inbound : Upcoming(n)) => \E n \in Inbound : Upcoming(n)'
      BY <1>1 DEF Upcoming
    <2>5. /\ Live(clear') /\ Spoken(clear)' /\ ~Live(nudge')
          /\ ~clear'.idle => \E n \in Inbound : Upcoming(n)'
      BY <1>1, <1>3, <2>3, <2>4 DEF Live, Spoken
    <2> QED BY <1>1, <1>3, <2>2, <2>5 DEF SilenceWatched, Spoken, Live
  <1> QED BY <1>4, <1>5, <1>6 DEF InboxInv

(* The session is cleared, unless the customer has spoken.                 *)
LEMMA ClearKeeps == InboxInv /\ processInactivityClear => InboxInv'
  <1> SUFFICES ASSUME InboxInv, processInactivityClear PROVE InboxInv'
    OBVIOUS
  <1> DEFINE k == Inactivity("cleared", clear.at)
  <1>1. /\ clear.state = "active" /\ clear' = [clear EXCEPT !.state = "done"]
        /\ inhook' = inhook /\ msg' = msg /\ body' = body /\ clockI' = clockI /\ conv' = conv
        /\ faultsI' = faultsI /\ overrun' = overrun /\ nudge' = nudge /\ work' = work
        /\ disturbed' = disturbed
    BY DEF processInactivityClear
  <1>2. /\ clear.idle => session' = clearState /\ sent' = sent \cup {k}
        /\ ~clear.idle => session' = session /\ sent' = sent
    BY DEF processInactivityClear
  <1>3. /\ clockI \in 0..IMaxTime /\ clockI <= clockI /\ clear \in SilenceJobs /\ clear.idle \in BOOLEAN
    BY InboxTyped, InboxFields DEF InboxTypes, SilenceJobs
  <1>4. clear' \in SilenceJobs /\ clear'.at = clear.at /\ clear'.state = "done"
    BY <1>1, <1>3 DEF SilenceJobs
  <1>5. /\ session' \in Talks /\ (session' = session \/ session'.cleared)
        /\ clear.idle => session'.stage = "none"
    BY <1>2, <1>3, InboxTyped, NoWorkFits DEF clearState, Talks, NoSession
  <1>6. k.of = NoMessage /\ sent \subseteq sent'
    BY <1>2, <1>3 DEF Inactivity
  <1>7. /\ InboxTypes' /\ InboxJobsOk' /\ RowsBehindJobs' /\ KindsRight' /\ FinishedIsAnswered'
        /\ LockHeld'
    BY <1>1, <1>3, <1>4, <1>5, <1>6, InboxTyped, SilentStep
  <1>8. TurnsKept'
    <2>1. sent' = sent \/ sent' = sent \cup {k}
      BY <1>2, <1>3
    <2> HIDE DEF k
    <2> QED BY <1>1, <1>5, <1>6, <2>1, SilentTurns
  <1>9. NudgedBeforeCleared'
    BY <1>1, <1>4, <1>6, NudgedStep
  <1>10. SilenceWatched'
    <2> SUFFICES ASSUME Undisturbed'
                 PROVE  SilenceWatched'
      BY DEF SilenceWatched
    <2>1. Undisturbed
      BY <1>1 DEF Undisturbed
    <2>2. \A n \in Inbound : ~PastLoad(n)'
      BY <1>1, <2>1, NoTurnBeside DEF PastLoad
    <2>3. ~Live(nudge) /\ (~clear.idle => \E n \in Inbound : Upcoming(n))
      BY <1>1, <2>1 DEF InboxInv, SilenceWatched, Live
    <2>4. (\E n \in Inbound : Upcoming(n)) => \E n \in Inbound : Upcoming(n)'
      BY <1>1 DEF Upcoming
    <2>5. ~Live(nudge') /\ ~Live(clear') /\ nudge'.state # "active" /\ clear'.state # "active"
      BY <1>1, <1>4, <2>3 DEF Live
    <2>6. isNudgeableStage(session'.stage) => \E n \in Inbound : Upcoming(n)'
      BY <1>3, <1>5, <2>3, <2>4 DEF isNudgeableStage
    <2> QED BY <2>2, <2>5, <2>6 DEF SilenceWatched, Spoken
  <1> QED BY <1>7, <1>8, <1>9, <1>10 DEF InboxInv

(* A statement of an inactivity job throws.                                *)
LEMMA SilenceFailedKeeps == InboxInv /\ inactivityFailed => InboxInv'
  <1> SUFFICES ASSUME InboxInv, inactivityFailed PROVE InboxInv'
    OBVIOUS
  <1>1. /\ inhook' = inhook /\ msg' = msg /\ body' = body /\ clockI' = clockI /\ conv' = conv
        /\ overrun' = overrun /\ work' = work /\ Fault(1)
    BY DEF inactivityFailed
  <1>2. /\ clockI \in 0..IMaxTime /\ clockI <= clockI /\ nudge \in SilenceJobs /\ clear \in SilenceJobs
    BY InboxTyped, InboxFields DEF InboxTypes
  <1>3. faultsI' \in 0..IMaxFaults /\ disturbed' = TRUE
    BY <1>1, InboxTyped, FaultFits
  <1>4. PICK k : k.of = NoMessage /\ (sent' = sent \/ sent' = sent \cup {k})
    <2>1. Inactivity("nudge", nudge.at).of = NoMessage /\ Inactivity("cleared", clear.at).of = NoMessage
      BY DEF Inactivity
    <2>2. \/ sent' = sent \/ sent' = sent \cup {Inactivity("nudge", nudge.at)}
          \/ sent' = sent \cup {Inactivity("cleared", clear.at)}
      BY DEF inactivityFailed
    <2> QED BY <2>1, <2>2
  <1>5. /\ nudge' \in SilenceJobs /\ nudge'.at = nudge.at /\ clear' \in SilenceJobs /\ clear'.at = clear.at
        /\ (clear' = clear \/ clear.state = "active")
    <2>1. \/ nudge' = [nudge EXCEPT !.state = "delayed"] /\ clear' = clear
          \/ nudge' = nudge /\ clear' = [clear EXCEPT !.state = "delayed"] /\ clear.state = "active"
          \/ nudge' = nudge /\ clear' = [clear EXCEPT !.state = "done"] /\ clear.state = "active"
      BY DEF inactivityFailed
    <2> QED BY <1>2, <2>1 DEF SilenceJobs
  <1>6. session' \in Talks /\ (session' = session \/ session'.cleared)
    <2>1. session' = session \/ session' = clearState
      BY DEF inactivityFailed
    <2>2. clearState \in Talks /\ clearState.cleared
      BY NoWorkFits DEF clearState, Talks, NoSession
    <2> QED BY <2>1, <2>2, InboxTyped
  <1>7. /\ InboxTypes' /\ InboxJobsOk' /\ RowsBehindJobs' /\ KindsRight' /\ FinishedIsAnswered'
        /\ LockHeld'
    BY <1>1, <1>2, <1>3, <1>4, <1>5, <1>6, InboxTyped, SilentStep
  <1>8. TurnsKept'
    BY <1>1, <1>4, <1>6, SilentTurns
  <1>9. NudgedBeforeCleared'
    BY <1>4, <1>5, NudgedStep
  <1> QED BY <1>3, <1>7, <1>8, <1>9, DisturbedStep DEF InboxInv

(* Time passes, or nothing happens.                                        *)
LEMMA InboxWaits == InboxInv /\ (tickInbox \/ UNCHANGED ivars) => InboxInv'
  <1> SUFFICES ASSUME InboxInv, tickInbox \/ UNCHANGED ivars PROVE InboxInv'
    OBVIOUS
  <1>1. /\ inhook' = inhook /\ msg' = msg /\ body' = body /\ conv' = conv
        /\ overrun' = overrun /\ work' = work /\ faultsI' = faultsI /\ session' = session
        /\ nudge' = nudge /\ clear' = clear /\ sent' = sent /\ disturbed' = disturbed
    BY DEF tickInbox, ivars
  <1>2. clockI' \in 0..IMaxTime /\ clockI <= clockI'
    BY InboxTyped, InboxConstants DEF InboxTypes, InboxConstants, tickInbox, ivars
  <1>3. /\ InboxTypes' /\ InboxJobsOk' /\ RowsBehindJobs' /\ KindsRight' /\ FinishedIsAnswered'
        /\ LockHeld'
    BY <1>1, <1>2, InboxTyped, SilentStep
  <1>4. TurnsKept' /\ NudgedBeforeCleared'
    BY <1>1, TurnsStep, NudgedStep
  <1>5. SilenceWatched'
    BY <1>1, SilenceStep DEF PastLoad, Upcoming
  <1> QED BY <1>3, <1>4, <1>5 DEF InboxInv

(* Every step of the inbox keeps the invariant.                            *)
LEMMA InboxStepKeeps == InboxInv /\ [INext]_ivars => InboxInv'
  <1> SUFFICES ASSUME InboxInv, [INext]_ivars PROVE InboxInv'
    OBVIOUS
  <1>1. ASSUME NEW m \in Inbound,
               \/ handleInbound(m) \/ enqueueInbound(m) \/ enqueueRefused(m)
               \/ startInbound(m) \/ acquireProcessingLock(m)
               \/ lockTimeout(m) \/ cancelAndLoad(m)
        PROVE  InboxInv'
    BY <1>1, HandleKeeps, EnqueueKeeps, RefusedKeeps, StartKeeps, AcquireKeeps, LockTimeoutKeeps, LoadKeeps
  <1>2. ASSUME NEW m \in Inbound,
               \/ decideLangGraph(m) \/ graphFailed(m) \/ decideDirectly(m) \/ resetFailed(m)
               \/ enqueueReply(m) \/ finishInbound(m) \/ inboundFailed(m) \/ workerDies(m)
        PROVE  InboxInv'
    BY <1>2, GraphKeeps, GraphFailedKeeps, DirectKeeps, InboxReplyKeeps, FinishKeeps, FailedKeeps, InboxDiesKeeps
  <1>3. ASSUME \/ nudgeDue \/ processInactivityNudge \/ clearDue \/ processInactivityClear
               \/ inactivityFailed \/ tickInbox \/ UNCHANGED ivars
        PROVE  InboxInv'
    BY <1>3, NudgeDueKeeps, NudgeKeeps, ClearDueKeeps, ClearKeeps, SilenceFailedKeeps, InboxWaits
  <1> QED BY <1>1, <1>2, <1>3 DEF INext

(* The invariant says what the inbox promises of its states.               *)
LEMMA InboxInvSays ==
    InboxInv => ITypeOK /\ TurnsRemembered /\ ProcessedIsAnswered /\ IdleSessionWatched
  <1> SUFFICES ASSUME InboxInv
               PROVE  ITypeOK /\ TurnsRemembered /\ ProcessedIsAnswered /\ IdleSessionWatched
    OBVIOUS
  <1>1. ITypeOK
    <2>1. ASSUME NEW m \in Inbound
          PROVE  work[m].tries <= InJobTries /\ (work[m].state = "active" <=> work[m].pc # "idle")
      <3>1. work[m] \in InboxJobs /\ InboxJobOk(work[m])
        BY InboxTyped
      <3>2. work[m].tries \in 0..InJobTries
        BY <3>1, JobFields
      <3> QED BY <3>1, <3>2, InboxConstants DEF InboxJobOk, InboxConstants
    <2>2. session.turns \subseteq Inbound
      BY InboxTyped DEF Talks
    <2> QED BY <2>1, <2>2, InboxTyped, InboxFields DEF ITypeOK, InboxTypes
  <1>2. TurnsRemembered
    BY DEF InboxInv, TurnsKept, TurnsRemembered, Answered
  <1>3. ProcessedIsAnswered
    BY DEF InboxInv, FinishedIsAnswered, ProcessedIsAnswered
  <1>4. IdleSessionWatched
    <2> SUFFICES ASSUME Quiet, Undisturbed, isNudgeableStage(session.stage)
                 PROVE  \E j \in {nudge, clear} : j.state \in {"delayed", "active"}
      BY DEF IdleSessionWatched, Undisturbed, isNudgeableStage
    <2>1. \A m \in Inbound : work[m].state \in {"none", "done"} /\ m \notin inhook /\ work[m].pc = "idle"
      BY InboxTyped DEF Quiet, InboxJobOk
    <2>2. \A m \in Inbound : ~PastLoad(m) /\ ~Upcoming(m)
      BY <2>1 DEF PastLoad, Upcoming
    <2>3. Live(nudge) \/ Live(clear)
      BY <2>2 DEF InboxInv, SilenceWatched
    <2> QED BY <2>3 DEF Live
  <1> QED BY <1>1, <1>2, <1>3, <1>4

(* Only the due clear job begins to clear.                                 *)
LEMMA ClearBegins ==
    ASSUME [INext]_ivars, clear'.state = "active", clear.state = "delayed"
    PROVE  clearDue
  <1>1. ~(UNCHANGED clear)
    OBVIOUS
  <1>2. ASSUME NEW m \in Inbound, cancelAndLoad(m) PROVE FALSE
    BY <1>2 DEF cancelAndLoad, removeJobSafely, NoJob
  <1>3. ~processInactivityNudge /\ ~processInactivityClear /\ ~inactivityFailed
    BY DEF processInactivityNudge, processInactivityClear, inactivityFailed
  <1>4. ~nudgeDue /\ ~tickInbox /\ ~(UNCHANGED ivars)
    BY <1>1 DEF nudgeDue, tickInbox, ivars
  <1>5. ASSUME NEW m \in Inbound,
               \/ handleInbound(m) \/ enqueueInbound(m) \/ enqueueRefused(m)
               \/ startInbound(m) \/ acquireProcessingLock(m) \/ lockTimeout(m)
        PROVE  FALSE
    BY <1>1, <1>5 DEF handleInbound, enqueueInbound, enqueueRefused, startInbound, acquireProcessingLock,
                      lockTimeout
  <1>6. ASSUME NEW m \in Inbound,
               \/ decideLangGraph(m) \/ graphFailed(m) \/ decideDirectly(m) \/ resetFailed(m)
               \/ enqueueReply(m) \/ finishInbound(m) \/ inboundFailed(m) \/ workerDies(m)
        PROVE  FALSE
    BY <1>1, <1>6 DEF decideLangGraph, graphFailed, decideDirectly, resetFailed, enqueueReply, finishInbound,
                      inboundFailed, workerDies
  <1> QED BY <1>2, <1>3, <1>4, <1>5, <1>6 DEF INext

(* A message that came in after the nudge's scheduling is seen by the      *)
(* check: no message row is younger than the conversation's last message.  *)
LEMMA OnlySilentStep ==
    InboxInv /\ [INext]_ivars =>
        [clear'.state = "active" /\ clear'.idle /\ clear.state = "delayed" =>
             /\ Inactivity("nudge", clear.at) \in sent
             /\ \A m \in Inbound : msg[m].at <= clear.at]_ivars
  <1> SUFFICES ASSUME InboxInv, [INext]_ivars, clear'.state = "active", clear'.idle, clear.state = "delayed"
               PROVE  /\ Inactivity("nudge", clear.at) \in sent
                      /\ \A m \in Inbound : msg[m].at <= clear.at
    OBVIOUS
  <1>1. clearDue
    BY ClearBegins
  <1>2. conv.lastIn <= clear.at /\ conv.lastIn \in Nat /\ clear.at \in Nat /\ \A m \in Inbound : msg[m].at \in Nat
    <2>1. clear \in SilenceJobs
      BY InboxTyped
    <2>2. ~respondedSince(clear)
      BY <1>1, <2>1 DEF clearDue, SilenceJobs
    <2> QED BY <2>2, InboxTyped, InboxFields DEF respondedSince
  <1>3. \A m \in Inbound : msg[m].at <= conv.lastIn
    BY DEF InboxInv, RowsBehindJobs
  <1>4. Inactivity("nudge", clear.at) \in sent
    BY DEF InboxInv, NudgedBeforeCleared
  <1> QED BY <1>2, <1>3, <1>4

(* A message that came in is answered and its turn remembered, whatever    *)
(* other messages, retries and inactivity jobs run beside it, and only a   *)
(* customer who was nudged and stayed silent loses his session             *)
(* (processInbound, processInactivityNudge, processInactivityClear).       *)
THEOREM InboxStaysSound == ISpec => InboxSound
  <1>1. IInit => InboxInv
    BY InboxStartsSound
  <1>2. InboxInv /\ [INext]_ivars => InboxInv'
    BY InboxStepKeeps
  <1>3. InboxInv => ITypeOK /\ TurnsRemembered /\ ProcessedIsAnswered /\ IdleSessionWatched
    BY InboxInvSays
  <1>4. ISpec => []InboxInv
    BY <1>1, <1>2, PTL DEF ISpec
  <1>5. ISpec => OnlySilentIsCleared
    BY <1>4, OnlySilentStep, PTL DEF ISpec, OnlySilentIsCleared
  <1> QED BY <1>3, <1>4, <1>5, PTL DEF InboxSound

-----------------------------------------------------------------------------
(* The delivery of a notification.                                         *)

QueueJobs ==
    [job: DJobs, state: {"waiting", "active", "completed", "failed"}, made: Nat,
     stalls: 0..(DStalls + 1), progress: SUBSET Channels, fatal: BOOLEAN]

QueueRuns ==
    [pc: {"idle", "link", "next", "push", "revoke", "finish"}, todo: SUBSET Channels,
     res: [Channels -> Outcomes], tokens: SUBSET DTokens, dead: SUBSET DTokens]

(* What a builder makes is addressed on the channels it names.             *)
JobFits(j) ==
    /\ j.channels \subseteq Channels
    /\ "EMAIL" \in j.channels => j.contact.email
    /\ "WHATSAPP" \in j.channels =>
          j.contact.phone /\ getWhatsAppTemplateKey(j.type, j.recipient) # "none"
    /\ j.completionLink => j.audience = "CHAUFFEUR" /\ j.recipient = "chauffeur" /\ j.kind = "flightUpdate"

Running == drun.pc # "idle"

(* A run serves what the progress does not list, each channel once.        *)
RunFits ==
    /\ Running <=> dj.state = "active"
    /\ dj.state # "failed" => dj.stalls <= DStalls
    /\ Running => \A ch \in Channels :
          /\ ch \in drun.todo => ch \notin dj.progress
          /\ drun.res[ch] # "none" => ch \in dj.job.channels
          /\ ch \in dj.job.channels => ch \in drun.todo \cup dj.progress \/ drun.res[ch] # "none"
          /\ drun.res[ch] = "null" => ch = "PUSH"
    /\ drun.pc \in {"push", "revoke"} => drun.todo = {"PUSH"}
    /\ drun.pc = "link" => dj.job.completionLink
    /\ drun.pc = "push" => drun.tokens # {}
    /\ drun.pc = "revoke" => drun.res["PUSH"] # "none"
    /\ drun.pc = "finish" => drun.todo = {} /\ \A ch \in Channels : drun.res[ch] = "ok" => ch \in dj.progress

Succeeded(ch) == ch \in dj.progress \/ (Running /\ drun.res[ch] = "ok")

(* A channel that succeeded has sent something, or had nobody to send to.  *)
SuccessIsSent ==
    /\ \A ch \in {"EMAIL", "WHATSAPP"} : Succeeded(ch) => copies[ch] > 0
    /\ Succeeded("PUSH") => \E t \in DTokens : copies[t] > 0 \/ t \in gone \/ dchanges > 0

CompletedIsServed ==
    dj.state = "completed" => \A ch \in dj.job.channels \cap {"EMAIL", "WHATSAPP"} : ch \in dj.progress

ChannelOf(a) == IF a \in DTokens THEN "PUSH" ELSE a

(* The attempt that runs, or succeeded, may have served the address.       *)
MayHaveSent(a) ==
    \/ dj.state = "completed"
    \/ /\ dj.state = "active" /\ drun.pc # "link"
       /\ ChannelOf(a) \notin drun.todo \/ drun.pc = "revoke"

CopiesCounted ==
    \A a \in Addresses : copies[a] <= dj.made + dj.stalls + (IF MayHaveSent(a) THEN 1 ELSE 0)

Undeliverable(j) == \E ch \in j.channels : ~Deliverable(j, ch)

(* An attempt fails of a fault, or there is a cause that does not go away. *)
FailuresCaused ==
    /\ Running => \A ch \in Channels : drun.res[ch] = "fatal" => dj.fatal
    /\ \/ dj.fatal
       \/ Undeliverable(dj.job)
       \/ dfaults >= dj.made + (IF Running /\ Failing(drun) # {} THEN 1 ELSE 0)

(* The inductive invariant of the delivery.                                *)
DeliveryInv ==
    /\ DTypeOK /\ RunFits /\ SuccessIsSent /\ CompletedIsServed
    /\ CopiesCounted /\ FailuresCaused /\ GivenUpForCause

(* The jobs have their contacts and templates.                             *)
LEMMA JobsFit == \A j \in DJobs : JobFits(j)
  <1> DEFINE user == [userId |-> TRUE, email |-> TRUE, phone |-> TRUE]
             c == [registered |-> TRUE, email |-> TRUE, phone |-> TRUE, prefers |-> "both"]
             J(type, audience, channels, recipient, contact, kind) ==
                 [type |-> type, audience |-> audience, channels |-> channels,
                  recipient |-> recipient, contact |-> contact, kind |-> kind,
                  status |-> "-", completionLink |-> FALSE]
  <1>1. \A j \in buildBookingStatusChangeJobData(c) : JobFits(j)
    <2>1. getCustomerDetails(c) = user
      BY DEF getCustomerDetails
    <2>2. resolve("CUSTOMER", user) \subseteq Channels
      BY DEF resolve, deriveNotificationChannels, Channels
    <2>3. \A j \in buildBookingStatusChangeJobData(c) :
              j = J("BOOKING_STATUS_CHANGE", "CUSTOMER", resolve("CUSTOMER", user), "client", user, "bookingStatus")
      BY <2>1 DEF buildBookingStatusChangeJobData, CustomerJob, Job
    <2> QED BY <2>2, <2>3 DEF JobFits, getWhatsAppTemplateKey, FlightTypes, ConflictType
  <1>2. ASSUME NEW type \in {"FLIGHT_ASSIGNMENT_SNAPSHOT", ConflictType},
               NEW recipient \in {"chauffeur", "fleetOwner"},
               NEW j \in buildFlightUpdateJobData(type, recipient, {user})
        PROVE  /\ JobFits(j) /\ j.recipient = recipient /\ j.kind = "flightUpdate"
               /\ recipient = "chauffeur" => j.audience = "CHAUFFEUR"
               /\ JobFits([j EXCEPT !.completionLink = TRUE]) \/ recipient # "chauffeur"
    <2>1. PICK audience \in {"FLEET_OWNER", "CHAUFFEUR"} :
              /\ recipient = "chauffeur" => audience = "CHAUFFEUR"
              /\ j = J(type, audience, WithoutUnconfigured(resolve(audience, user), "flight"), recipient,
                       user, "flightUpdate")
      BY <1>2 DEF buildFlightUpdateJobData, Job
    <2>2. WithoutUnconfigured(resolve(audience, user), "flight") \subseteq Channels
      BY DEF WithoutUnconfigured, resolve, deriveNotificationChannels, Channels
    <2>3. getWhatsAppTemplateKey(type, recipient) = "flight"
      BY <1>2 DEF getWhatsAppTemplateKey, FlightTypes, ConflictType
    <2>4. /\ j.type = type /\ j.audience = audience /\ j.recipient = recipient /\ j.contact = user
          /\ j.channels \subseteq Channels /\ j.kind = "flightUpdate" /\ ~j.completionLink
      BY <2>1, <2>2
    <2>5. PICK k : k = [j EXCEPT !.completionLink = TRUE]
      OBVIOUS
    <2>6. /\ k.type = type /\ k.audience = audience /\ k.recipient = recipient /\ k.contact = user
          /\ k.channels \subseteq Channels /\ k.kind = "flightUpdate"
      BY <2>1, <2>2, <2>5
    <2>7. JobFits(j)
      BY <2>3, <2>4 DEF JobFits
    <2>8. recipient = "chauffeur" => JobFits(k)
      BY <2>1, <2>3, <2>6 DEF JobFits
    <2> QED BY <2>1, <2>4, <2>5, <2>7, <2>8
  <1>3. \A j \in buildReferralRewardReleasedJobData : JobFits(j)
    BY DEF buildReferralRewardReleasedJobData, Job, JobFits, Channels
  <1> QED BY <1>1, <1>2, <1>3 DEF DJobs

(* What is kept of the delivery has its type.                              *)
LEMMA DeliveryTyped ==
    DTypeOK <=>
        /\ dj \in QueueJobs /\ drun \in QueueRuns /\ drun.todo \cup dj.progress \subseteq dj.job.channels
        /\ tok \in [DTokens -> [owner: DUsers, active: BOOLEAN]] /\ gone \subseteq DTokens
        /\ link \in {"valid", "expired"} /\ copies \in [Addresses -> Nat]
        /\ dfaults \in 0..DMaxFaults /\ dchanges \in 0..DMaxChanges
  BY DEF DTypeOK, QueueJobs, QueueRuns

(* The same of the state after a step.                                     *)
LEMMA DeliveryTypedNext ==
    DTypeOK' <=>
        /\ dj' \in QueueJobs /\ drun' \in QueueRuns /\ drun'.todo \cup dj'.progress \subseteq dj'.job.channels
        /\ tok' \in [DTokens -> [owner: DUsers, active: BOOLEAN]] /\ gone' \subseteq DTokens
        /\ link' \in {"valid", "expired"} /\ copies' \in [Addresses -> Nat]
        /\ dfaults' \in 0..DMaxFaults /\ dchanges' \in 0..DMaxChanges
  BY DEF DTypeOK, QueueJobs, QueueRuns

(* The fields of the job and of the run have theirs.                       *)
LEMMA DeliveryFields ==
    ASSUME DTypeOK
    PROVE  /\ dj.job \in DJobs /\ JobFits(dj.job) /\ dj.made \in Nat /\ dj.stalls \in 0..(DStalls + 1)
           /\ dj.stalls \in Nat /\ DStalls \in Nat
           /\ dj.progress \subseteq Channels /\ dj.fatal \in BOOLEAN
           /\ dj.state \in {"waiting", "active", "completed", "failed"}
           /\ drun.pc \in {"idle", "link", "next", "push", "revoke", "finish"}
           /\ drun.todo \subseteq Channels /\ drun.res \in [Channels -> Outcomes]
           /\ drun.tokens \subseteq DTokens /\ drun.dead \subseteq DTokens
           /\ dfaults \in Nat /\ dchanges \in Nat
  <1>1. /\ dj \in QueueJobs /\ drun \in QueueRuns /\ DStalls \in Nat /\ DMaxFaults \in Nat
        /\ DMaxChanges \in Nat /\ dfaults \in 0..DMaxFaults /\ dchanges \in 0..DMaxChanges
    BY DeliveryTyped, DAssumption DEF DAssumption
  <1>2. dj.job \in DJobs /\ dj.made \in Nat /\ dj.stalls \in 0..(DStalls + 1)
    BY <1>1 DEF QueueJobs
  <1>3. dj.stalls \in Nat /\ dfaults \in Nat /\ dchanges \in Nat
    BY <1>1, <1>2
  <1> QED BY <1>1, <1>2, <1>3, JobsFit DEF QueueJobs, QueueRuns

(* A run that has not begun is one.                                        *)
LEMMA IdleFits ==
    /\ IdleRun \in QueueRuns /\ IdleRun.pc = "idle" /\ IdleRun.todo = {}
    /\ \A ch \in Channels : IdleRun.res[ch] = "none"
  BY DEF IdleRun, QueueRuns, Outcomes

(* Names of channels are no tokens.                                        *)
LEMMA AddressesApart ==
    /\ "EMAIL" \in Addresses /\ "WHATSAPP" \in Addresses /\ "EMAIL" \notin DTokens /\ "WHATSAPP" \notin DTokens
    /\ ChannelOf("EMAIL") = "EMAIL" /\ ChannelOf("WHATSAPP") = "WHATSAPP"
    /\ DTokens \subseteq Addresses /\ \A t \in DTokens : ChannelOf(t) = "PUSH"
    /\ \A a \in Addresses : a \in DTokens \/ a \in {"EMAIL", "WHATSAPP"}
  BY DAssumption DEF DAssumption, Addresses, ChannelOf

(* The invariant holds of a job that waits.                                *)
LEMMA DeliveryStartsSound == DInit => DeliveryInv
  <1> SUFFICES ASSUME DInit PROVE DeliveryInv
    OBVIOUS
  <1>1. PICK j \in DJobs, g \in SUBSET DTokens : 
          /\ dj = [job |-> j, state |-> "waiting", made |-> 0, stalls |-> 0,
                   progress |-> {}, fatal |-> FALSE]
          /\ drun = IdleRun /\ tok = [t \in DTokens |-> [owner |-> Addressee, active |-> TRUE]]
          /\ gone = g /\ link = "valid" /\ copies = [a \in Addresses |-> 0]
          /\ dfaults = 0 /\ dchanges = 0
    BY DEF DInit, DInitWith
  <1>2. DStalls \in Nat /\ DMaxFaults \in Nat /\ DMaxChanges \in Nat /\ Addressee \in DUsers /\ JobTries \in Nat \ {0}
    BY DAssumption DEF DAssumption
  <1>3. /\ dj \in QueueJobs /\ dj.made = 0 /\ dj.stalls = 0 /\ dj.progress = {} /\ dj.state = "waiting"
        /\ dj.job = j
    <2>1. 0 \in 0..(DStalls + 1)
      BY <1>2
    <2> QED BY <1>1, <2>1 DEF QueueJobs
  <1>4. DTypeOK
    <2>1. copies \in [Addresses -> Nat] /\ tok \in [DTokens -> [owner: DUsers, active: BOOLEAN]]
      BY <1>1, <1>2
    <2>2. dfaults \in 0..DMaxFaults /\ dchanges \in 0..DMaxChanges
      BY <1>1, <1>2
    <2>3. drun \in QueueRuns /\ drun.todo \cup dj.progress \subseteq dj.job.channels
      BY <1>1, <1>3, IdleFits
    <2> QED BY <1>1, <1>3, <2>1, <2>2, <2>3, DeliveryTyped
  <1>5. RunFits
    BY <1>1, <1>2, <1>3, IdleFits DEF RunFits, Running
  <1>6. SuccessIsSent /\ CompletedIsServed
    BY <1>1, <1>3, IdleFits DEF SuccessIsSent, CompletedIsServed, Succeeded, Running
  <1>7. CopiesCounted
    <2>1. ~Running /\ \A a \in Addresses : copies[a] = 0 /\ ~MayHaveSent(a)
      BY <1>1, <1>3, IdleFits DEF MayHaveSent, Running
    <2> QED BY <1>3, <2>1 DEF CopiesCounted
  <1>8. FailuresCaused /\ GivenUpForCause
    BY <1>1, <1>3, IdleFits DEF FailuresCaused, GivenUpForCause, Running
  <1> QED BY <1>4, <1>5, <1>6, <1>7, <1>8 DEF DeliveryInv

(* The outcome of a channel.                                               *)
LEMMA ResultFits ==
    ASSUME drun \in QueueRuns, NEW ch \in Channels, NEW outcome \in Outcomes, Result(ch, outcome)
    PROVE  /\ drun' \in QueueRuns /\ drun'.pc = "next" /\ drun'.todo = drun.todo \ {ch}
           /\ drun'.res[ch] = outcome /\ \A c \in Channels : c # ch => drun'.res[c] = drun.res[c]
  BY DEF Result, QueueRuns

(* A channel has had its turn.                                             *)
LEMMA ServeKeeps ==
    ASSUME DeliveryInv, NEW ch \in Channels, Turn(ch), NEW outcome \in {"null", "ok", "retry"},
           Result(ch, outcome), dj' = dj, tok' = tok, gone' = gone, link' = link, dchanges' = dchanges,
           copies' \in [Addresses -> Nat], dfaults' \in 0..DMaxFaults, dfaults <= dfaults',
           \A a \in Addresses : \/ copies'[a] = copies[a]
                                \/ ch # "PUSH" /\ a = ch /\ copies'[a] = copies[a] + 1,
           outcome = "null" => ch = "PUSH",
           outcome = "ok" => ch # "PUSH" /\ copies'[ch] > 0,
           outcome = "retry" => ~Deliverable(dj.job, ch) \/ dfaults' >= dfaults + 1
    PROVE  DeliveryInv'
  <1>1. /\ DTypeOK /\ RunFits /\ SuccessIsSent /\ CompletedIsServed
        /\ CopiesCounted /\ FailuresCaused /\ GivenUpForCause
    BY DEF DeliveryInv
  <1>2. /\ dj \in QueueJobs /\ drun \in QueueRuns /\ drun.todo \cup dj.progress \subseteq dj.job.channels
        /\ copies \in [Addresses -> Nat] /\ dfaults \in Nat /\ dfaults' \in Nat /\ dj.made \in Nat
        /\ dj.stalls \in Nat /\ DMaxFaults \in Nat
    BY <1>1, DeliveryTyped, DeliveryFields, DAssumption DEF DAssumption
  <1>3. drun.pc = "next" /\ ch \in drun.todo
    BY DEF Turn
  <1>4. /\ drun' \in QueueRuns /\ drun'.pc = "next" /\ drun'.todo = drun.todo \ {ch}
        /\ drun'.res[ch] = outcome /\ \A c \in Channels : c # ch => drun'.res[c] = drun.res[c]
    BY <1>2, ResultFits DEF Outcomes
  <1>5. dj.state = "active" /\ Running /\ Running'
    BY <1>1, <1>3, <1>4 DEF RunFits, Running
  <1>6. ch \in dj.job.channels /\ ch \notin dj.progress
    BY <1>1, <1>2, <1>3, <1>5 DEF RunFits
  <1>7. DTypeOK'
    BY <1>1, <1>2, <1>4, DeliveryTyped, DeliveryTypedNext
  <1>8. RunFits'
    <2>1. dj'.state # "failed" => dj'.stalls <= DStalls
      BY <1>1 DEF RunFits
    <2> SUFFICES ASSUME NEW c \in Channels
                 PROVE  /\ c \in drun'.todo => c \notin dj'.progress
                        /\ drun'.res[c] # "none" => c \in dj'.job.channels
                        /\ c \in dj'.job.channels => c \in drun'.todo \cup dj'.progress \/ drun'.res[c] # "none"
                        /\ drun'.res[c] = "null" => c = "PUSH"
      BY <1>4, <1>5, <2>1 DEF RunFits, Running
    <2>2. /\ c \in drun.todo => c \notin dj.progress
          /\ drun.res[c] # "none" => c \in dj.job.channels
          /\ c \in dj.job.channels => c \in drun.todo \cup dj.progress \/ drun.res[c] # "none"
          /\ drun.res[c] = "null" => c = "PUSH"
      BY <1>1, <1>5 DEF RunFits
    <2>3. CASE c = ch
      BY <1>4, <1>6, <2>3
    <2>4. CASE c # ch
      BY <1>4, <2>2, <2>4
    <2> QED BY <2>3, <2>4
  <1>9. SuccessIsSent'
    <2>1. \A a \in Addresses : copies'[a] >= copies[a] /\ copies[a] \in Nat /\ copies'[a] \in Nat
      BY <1>2
    <2>2. \A c \in Channels : Succeeded(c)' => Succeeded(c) \/ (c = ch /\ outcome = "ok")
      BY <1>4, <1>5 DEF Succeeded
    <2>3. ASSUME NEW c \in {"EMAIL", "WHATSAPP"}, Succeeded(c)'
          PROVE  copies'[c] > 0
      <3>1. c \in Channels /\ c \in Addresses
        BY AddressesApart DEF Channels
      <3>2. CASE Succeeded(c)
        <4>1. copies[c] > 0
          BY <1>1, <3>2 DEF SuccessIsSent
        <4> QED BY <2>1, <3>1, <4>1
      <3>3. CASE c = ch /\ outcome = "ok"
        BY <3>3
      <3> QED BY <2>2, <2>3, <3>1, <3>2, <3>3
    <2>4. ASSUME Succeeded("PUSH")'
          PROVE  \E t \in DTokens : copies'[t] > 0 \/ t \in gone' \/ dchanges' > 0
      <3>1. Succeeded("PUSH")
        BY <2>2, <2>4 DEF Channels
      <3>2. PICK t \in DTokens : copies[t] > 0 \/ t \in gone \/ dchanges > 0
        BY <1>1, <3>1 DEF SuccessIsSent
      <3>3. t \in Addresses
        BY AddressesApart
      <3> QED BY <2>1, <3>2, <3>3
    <2> QED BY <2>3, <2>4 DEF SuccessIsSent
  <1>10. CompletedIsServed'
    BY <1>5 DEF CompletedIsServed
  <1>11. CopiesCounted'
    <2> SUFFICES ASSUME NEW a \in Addresses
                 PROVE  copies'[a] <= dj'.made + dj'.stalls + (IF MayHaveSent(a)' THEN 1 ELSE 0)
      BY DEF CopiesCounted
    <2>1. copies[a] <= dj.made + dj.stalls + (IF MayHaveSent(a) THEN 1 ELSE 0)
      BY <1>1 DEF CopiesCounted
    <2>2. copies[a] \in Nat /\ copies'[a] \in Nat
      BY <1>2
    <2>3. CASE copies'[a] = copies[a]
      <3>1. MayHaveSent(a) => MayHaveSent(a)'
        BY <1>3, <1>4, <1>5 DEF MayHaveSent, ChannelOf
      <3> QED BY <1>2, <2>1, <2>2, <2>3, <3>1
    <2>4. CASE ch # "PUSH" /\ a = ch /\ copies'[a] = copies[a] + 1
      <3>1. ChannelOf(a) = a
        BY <2>4, AddressesApart DEF Channels
      <3>2. ~MayHaveSent(a) /\ MayHaveSent(a)'
        BY <1>3, <1>4, <1>5, <2>4, <3>1 DEF MayHaveSent, ChannelOf
      <3> QED BY <1>2, <2>1, <2>2, <2>4, <3>2
    <2> QED BY <2>3, <2>4
  <1>12. FailuresCaused'
    <2>1. \A c \in Channels : drun'.res[c] = "fatal" => dj'.fatal
      BY <1>1, <1>4, <1>5 DEF FailuresCaused
    <2>2. Failing(drun)' # {} => Failing(drun) # {} \/ outcome = "retry"
      BY <1>4 DEF Failing
    <2>3. CASE dj.fatal \/ Undeliverable(dj.job)
      BY <2>1, <2>3 DEF FailuresCaused
    <2>4. CASE ~(dj.fatal \/ Undeliverable(dj.job))
      <3>1. dfaults >= dj.made + (IF Failing(drun) # {} THEN 1 ELSE 0)
        BY <1>1, <1>5, <2>4 DEF FailuresCaused
      <3>2. outcome = "retry" => dfaults' >= dfaults + 1
        BY <1>6, <2>4 DEF Undeliverable
      <3>3. dfaults' >= dj.made + (IF Failing(drun)' # {} THEN 1 ELSE 0)
        BY <1>2, <2>2, <3>1, <3>2
      <3> QED BY <1>5, <2>1, <3>3 DEF FailuresCaused
    <2> QED BY <2>3, <2>4
  <1>13. GivenUpForCause'
    BY <1>5 DEF GivenUpForCause
  <1> QED BY <1>7, <1>8, <1>9, <1>10, <1>11, <1>12, <1>13 DEF DeliveryInv

(* A call to a provider.                                                   *)
LEMMA ProviderKeeps ==
    ASSUME DeliveryInv, NEW ch \in {"EMAIL", "WHATSAPP"}, Turn(ch),
           dj' = dj, tok' = tok, gone' = gone, link' = link, dchanges' = dchanges,
           \/ Result(ch, "retry") /\ ~Deliverable(dj.job, ch) /\ UNCHANGED <<copies, dfaults>>
           \/ Provider(ch, ch)
    PROVE  DeliveryInv'
  <1>1. /\ copies \in [Addresses -> Nat] /\ dfaults \in 0..DMaxFaults /\ DMaxFaults \in Nat /\ ch \in Channels
        /\ ch \in Addresses /\ dfaults <= dfaults
    BY DeliveryTyped, DAssumption, AddressesApart DEF DeliveryInv, DAssumption, Channels
  <1>2. Count({ch}) => /\ copies' \in [Addresses -> Nat] /\ copies'[ch] = copies[ch] + 1 /\ copies'[ch] > 0
                       /\ \A a \in Addresses : a # ch => copies'[a] = copies[a]
    BY <1>1 DEF Count
  <1>3. DFault => dfaults' \in 0..DMaxFaults /\ dfaults' >= dfaults + 1 /\ dfaults <= dfaults'
    BY <1>1 DEF DFault
  <1>4. CASE Result(ch, "retry") /\ ~Deliverable(dj.job, ch) /\ UNCHANGED <<copies, dfaults>>
    BY <1>1, <1>4, ServeKeeps
  <1>5. CASE Count({ch}) /\ Result(ch, "ok") /\ UNCHANGED dfaults
    BY <1>1, <1>2, <1>5, ServeKeeps
  <1>6. CASE DFault /\ (Count({ch}) \/ UNCHANGED copies) /\ Result(ch, "retry")
    BY <1>1, <1>2, <1>3, <1>6, ServeKeeps
  <1> QED BY <1>4, <1>5, <1>6 DEF Provider

(* A channel that has its turn is one the job names.                       *)
LEMMA TurnNamed ==
    ASSUME DeliveryInv, NEW ch, Turn(ch)
    PROVE  ch \in dj.job.channels /\ JobFits(dj.job)
  BY DeliveryTyped, DeliveryFields DEF DeliveryInv, Turn

(* The e-mail is sent.                                                     *)
LEMMA EmailKeeps == DeliveryInv /\ sendEmailNotification => DeliveryInv'
  <1> SUFFICES ASSUME DeliveryInv, sendEmailNotification PROVE DeliveryInv'
    OBVIOUS
  <1>1. Turn("EMAIL") /\ UNCHANGED <<dj, tok, gone, link, dchanges>>
    BY DEF sendEmailNotification
  <1>2. dj.job.contact.email
    BY <1>1, TurnNamed DEF JobFits
  <1>3. \/ ~buildEmailHtml(dj.job) /\ Result("EMAIL", "retry") /\ UNCHANGED <<copies, dfaults>>
        \/ Provider("EMAIL", "EMAIL")
    BY <1>2 DEF sendEmailNotification
  <1>4. ~buildEmailHtml(dj.job) => ~Deliverable(dj.job, "EMAIL")
    BY DEF Deliverable
  <1> QED BY <1>1, <1>3, <1>4, ProviderKeeps

(* The WhatsApp message is sent.                                           *)
LEMMA WhatsAppKeeps == DeliveryInv /\ sendWhatsAppNotification => DeliveryInv'
  <1> SUFFICES ASSUME DeliveryInv, sendWhatsAppNotification PROVE DeliveryInv'
    OBVIOUS
  <1> DEFINE template == getWhatsAppTemplateKey(dj.job.type, dj.job.recipient)
  <1>1. Turn("WHATSAPP") /\ UNCHANGED <<dj, tok, gone, link, dchanges>>
    BY DEF sendWhatsAppNotification
  <1>2. dj.job.contact.phone /\ template # "none"
    BY <1>1, TurnNamed DEF JobFits
  <1>3. \/ ~contentSidMap(template) /\ Result("WHATSAPP", "retry") /\ UNCHANGED <<copies, dfaults>>
        \/ Provider("WHATSAPP", "WHATSAPP")
    BY <1>2 DEF sendWhatsAppNotification
  <1>4. ~contentSidMap(template) => ~Deliverable(dj.job, "WHATSAPP")
    BY DEF Deliverable
  <1> QED BY <1>1, <1>3, <1>4, ProviderKeeps

(* A job begins.                                                           *)
LEMMA ProcessKeeps == DeliveryInv /\ process => DeliveryInv'
  <1> SUFFICES ASSUME DeliveryInv, process PROVE DeliveryInv'
    OBVIOUS
  <1>1. /\ DTypeOK /\ RunFits /\ SuccessIsSent /\ CompletedIsServed
        /\ CopiesCounted /\ FailuresCaused /\ GivenUpForCause
    BY DEF DeliveryInv
  <1>2. /\ dj.state = "waiting" /\ dj' = [dj EXCEPT !.state = "active"] /\ tok' = tok /\ gone' = gone
        /\ link' = link /\ copies' = copies /\ dfaults' = dfaults /\ dchanges' = dchanges
    BY DEF process
  <1>3. PICK pc \in {"link", "next"}, todo \in SUBSET Channels :
            /\ pc = "link" => dj.job.completionLink
            /\ todo = dj.job.channels \ dj.progress /\ drun' = [IdleRun EXCEPT !.pc = pc, !.todo = todo]
    <2>1. dj.job.channels \subseteq Channels
      BY <1>1, DeliveryFields DEF JobFits
    <2> QED BY <2>1 DEF process, Todo, getSucceededChannels
  <1>4. /\ dj \in QueueJobs /\ drun.todo \cup dj.progress \subseteq dj.job.channels /\ copies \in [Addresses -> Nat]
        /\ dj.made \in Nat /\ dj.stalls \in Nat
    BY <1>1, DeliveryTyped, DeliveryFields
  <1>5. /\ dj' \in QueueJobs /\ dj'.job = dj.job /\ dj'.progress = dj.progress /\ dj'.state = "active"
        /\ dj'.made = dj.made /\ dj'.stalls = dj.stalls /\ dj'.fatal = dj.fatal
    BY <1>2, <1>4 DEF QueueJobs
  <1>6. /\ drun' \in QueueRuns /\ drun'.pc = pc /\ drun'.todo = todo
        /\ \A ch \in Channels : drun'.res[ch] = "none"
    BY <1>3, IdleFits DEF QueueRuns
  <1>7. Running' /\ ~Running
    BY <1>1, <1>2, <1>3, <1>6 DEF Running, RunFits
  <1>8. DTypeOK'
    BY <1>1, <1>2, <1>3, <1>4, <1>5, <1>6, DeliveryTyped, DeliveryTypedNext
  <1>9. RunFits'
    BY <1>1, <1>2, <1>3, <1>5, <1>6, <1>7 DEF RunFits, Running
  <1>10. SuccessIsSent' /\ CompletedIsServed'
    <2>1. \A ch \in Channels : Succeeded(ch)' => Succeeded(ch)
      BY <1>5, <1>6 DEF Succeeded
    <2> QED BY <1>1, <1>2, <1>5, <2>1 DEF SuccessIsSent, CompletedIsServed, Channels
  <1>11. CopiesCounted'
    <2> SUFFICES ASSUME NEW a \in Addresses
                 PROVE  copies'[a] <= dj'.made + dj'.stalls + (IF MayHaveSent(a)' THEN 1 ELSE 0)
      BY DEF CopiesCounted
    <2>1. copies[a] <= dj.made + dj.stalls + (IF MayHaveSent(a) THEN 1 ELSE 0) /\ ~MayHaveSent(a)
      BY <1>1, <1>2 DEF CopiesCounted, MayHaveSent
    <2> QED BY <1>2, <1>4, <1>5, <2>1
  <1>12. FailuresCaused'
    <2>1. Failing(drun)' = {} /\ \A ch \in Channels : drun'.res[ch] # "fatal"
      BY <1>6 DEF Failing
    <2> QED BY <1>1, <1>2, <1>5, <1>7, <2>1 DEF FailuresCaused
  <1>13. GivenUpForCause'
    BY <1>5 DEF GivenUpForCause
  <1> QED BY <1>8, <1>9, <1>10, <1>11, <1>12, <1>13 DEF DeliveryInv

(* A run goes on to its channels, or to the devices of one.                *)
LEMMA RunMoves ==
    ASSUME DeliveryInv, drun.pc \in {"link", "next"}, drun' \in QueueRuns, drun'.pc \in {"next", "push"},
           drun'.todo = drun.todo, drun'.res = drun.res,
           drun'.pc = "push" => drun.todo = {"PUSH"} /\ drun'.tokens # {},
           UNCHANGED <<dj, tok, gone, link, copies, dfaults, dchanges>>
    PROVE  DeliveryInv'
  <1>1. /\ DTypeOK /\ RunFits /\ SuccessIsSent /\ CompletedIsServed
        /\ CopiesCounted /\ FailuresCaused /\ GivenUpForCause
    BY DEF DeliveryInv
  <1>2. Running /\ Running' /\ dj.state = "active"
    BY <1>1 DEF Running, RunFits
  <1>3. DTypeOK'
    BY <1>1, DeliveryTyped, DeliveryTypedNext
  <1>4. RunFits'
    BY <1>1, <1>2 DEF RunFits, Running
  <1>5. SuccessIsSent' /\ CompletedIsServed'
    <2>1. \A ch \in Channels : Succeeded(ch)' => Succeeded(ch)
      BY <1>2 DEF Succeeded
    <2> QED BY <1>1, <2>1 DEF SuccessIsSent, CompletedIsServed, Channels
  <1>6. CopiesCounted'
    <2> SUFFICES ASSUME NEW a \in Addresses
                 PROVE  copies'[a] <= dj'.made + dj'.stalls + (IF MayHaveSent(a)' THEN 1 ELSE 0)
      BY DEF CopiesCounted
    <2>1. copies[a] <= dj.made + dj.stalls + (IF MayHaveSent(a) THEN 1 ELSE 0)
      BY <1>1 DEF CopiesCounted
    <2>2. MayHaveSent(a) => MayHaveSent(a)'
      BY <1>2 DEF MayHaveSent, ChannelOf
    <2>3. copies[a] \in Nat /\ dj.made \in Nat /\ dj.stalls \in Nat
      BY <1>1, DeliveryTyped, DeliveryFields
    <2> QED BY <2>1, <2>2, <2>3
  <1>7. FailuresCaused'
    <2>1. Failing(drun)' = Failing(drun)
      BY DEF Failing
    <2> QED BY <1>1, <1>2, <2>1 DEF FailuresCaused
  <1>8. GivenUpForCause'
    BY <1>2 DEF GivenUpForCause
  <1> QED BY <1>3, <1>4, <1>5, <1>6, <1>7, <1>8 DEF DeliveryInv

(* The link of an airport completion is looked up.                         *)
LEMMA LinkKeeps == DeliveryInv /\ resolveAirportCompletionLink => DeliveryInv'
  <1> SUFFICES ASSUME DeliveryInv, resolveAirportCompletionLink PROVE DeliveryInv'
    OBVIOUS
  <1>1. /\ DTypeOK /\ RunFits /\ SuccessIsSent /\ CompletedIsServed
        /\ CopiesCounted /\ FailuresCaused /\ GivenUpForCause
    BY DEF DeliveryInv
  <1>2. /\ drun.pc = "link" /\ tok' = tok /\ gone' = gone
        /\ link' = link /\ copies' = copies /\ dfaults' = dfaults /\ dchanges' = dchanges
    BY DEF resolveAirportCompletionLink
  <1>3. /\ dj \in QueueJobs /\ drun \in QueueRuns /\ dj.made \in Nat /\ dj.stalls \in Nat
        /\ drun.todo \cup dj.progress \subseteq dj.job.channels /\ copies \in [Addresses -> Nat]
    BY <1>1, DeliveryTyped, DeliveryFields
  <1>4. CASE drun' = [drun EXCEPT !.pc = "next"] /\ UNCHANGED dj
    <2>1. drun' \in QueueRuns /\ drun'.pc = "next" /\ drun'.todo = drun.todo /\ drun'.res = drun.res
      BY <1>3, <1>4 DEF QueueRuns
    <2> QED BY <1>2, <1>4, <2>1, RunMoves
  <1>5. CASE FinishJob("failed")
    <2>1. /\ drun' \in QueueRuns /\ drun'.pc = "idle" /\ drun'.todo = drun.todo
          /\ dj' \in QueueJobs /\ dj'.job = dj.job /\ dj'.progress = dj.progress /\ dj'.state = "failed"
          /\ dj'.made = dj.made /\ dj'.stalls = dj.stalls /\ dj'.fatal = dj.fatal
      BY <1>3, <1>5 DEF FinishJob, QueueJobs, QueueRuns
    <2>2. ~Running'
      BY <2>1 DEF Running
    <2>3. DTypeOK'
      BY <1>1, <1>2, <1>3, <2>1, DeliveryTyped, DeliveryTypedNext
    <2>4. RunFits'
      BY <2>1, <2>2 DEF RunFits
    <2>5. SuccessIsSent' /\ CompletedIsServed'
      <3>1. \A ch \in Channels : Succeeded(ch)' => Succeeded(ch)
        BY <2>1, <2>2 DEF Succeeded
      <3> QED BY <1>1, <1>2, <2>1, <3>1 DEF SuccessIsSent, CompletedIsServed, Channels
    <2>6. CopiesCounted'
      <3> SUFFICES ASSUME NEW a \in Addresses
                   PROVE  copies'[a] <= dj'.made + dj'.stalls + (IF MayHaveSent(a)' THEN 1 ELSE 0)
        BY DEF CopiesCounted
      <3>1. copies[a] <= dj.made + dj.stalls + (IF MayHaveSent(a) THEN 1 ELSE 0)
        BY <1>1 DEF CopiesCounted
      <3>2. ~MayHaveSent(a)
        BY <1>1, <1>2 DEF MayHaveSent, RunFits, Running
      <3> QED BY <1>2, <1>3, <2>1, <3>1, <3>2
    <2>7. FailuresCaused'
      <3>1. \/ dj.fatal
            \/ Undeliverable(dj.job)
            \/ dfaults >= dj.made
        BY <1>1, <1>3, DeliveryFields DEF FailuresCaused
      <3> QED BY <1>2, <1>3, <2>1, <2>2, <3>1, DeliveryFields DEF FailuresCaused
    <2>8. GivenUpForCause'
      <3>1. JobFits(dj.job) /\ dj.job.completionLink
        BY <1>1, <1>2, DeliveryFields DEF RunFits
      <3>2. link # "valid"
        <4>1. drun'.pc # "next"
          BY <2>1
        <4>2. ~(drun' = [drun EXCEPT !.pc = "next"])
          BY <1>3, <4>1 DEF QueueRuns
        <4> QED BY <3>1, <4>2 DEF resolveAirportCompletionLink, JobFits
      <3>3. link' = "expired"
        BY <1>1, <1>2, <3>2, DeliveryTyped
      <3> QED BY <3>3 DEF GivenUpForCause
    <2> QED BY <2>3, <2>4, <2>5, <2>6, <2>7, <2>8 DEF DeliveryInv
  <1> QED BY <1>4, <1>5 DEF resolveAirportCompletionLink

(* The devices are read.                                                   *)
LEMMA PushReadKeeps == DeliveryInv /\ sendPushNotification => DeliveryInv'
  <1> SUFFICES ASSUME DeliveryInv, sendPushNotification PROVE DeliveryInv'
    OBVIOUS
  <1> DEFINE tokens == getActiveTokensForUsers(Addressee)
  <1>1. Turn("PUSH") /\ UNCHANGED <<dj, tok, gone, link, copies, dfaults, dchanges>>
    BY DEF sendPushNotification
  <1>2. /\ copies \in [Addresses -> Nat] /\ dfaults \in 0..DMaxFaults /\ DMaxFaults \in Nat
        /\ drun \in QueueRuns /\ "PUSH" \in Channels /\ dfaults <= dfaults
    BY DeliveryTyped, DAssumption DEF DeliveryInv, DAssumption, Channels
  <1>3. CASE Result("PUSH", "null")
    BY <1>1, <1>2, <1>3, ServeKeeps
  <1>4. CASE tokens # {} /\ drun' = [drun EXCEPT !.pc = "push", !.tokens = tokens]
    <2>1. tokens \in SUBSET DTokens /\ drun.pc = "next" /\ drun.todo = {"PUSH"}
      BY <1>1 DEF getActiveTokensForUsers, Turn
    <2> HIDE DEF tokens
    <2>2. /\ drun' \in QueueRuns /\ drun'.pc = "push" /\ drun'.todo = drun.todo /\ drun'.res = drun.res
          /\ drun'.tokens = tokens
      BY <1>2, <1>4, <2>1 DEF QueueRuns
    <2> QED BY <1>1, <1>4, <2>1, <2>2, RunMoves
  <1> QED BY <1>3, <1>4 DEF sendPushNotification

(* The messages go to Expo.                                                *)
LEMMA PushKeeps == DeliveryInv /\ sendPushNotifications => DeliveryInv'
  <1> SUFFICES ASSUME DeliveryInv, sendPushNotifications PROVE DeliveryInv'
    OBVIOUS
  <1>1. /\ DTypeOK /\ RunFits /\ SuccessIsSent /\ CompletedIsServed
        /\ CopiesCounted /\ FailuresCaused /\ GivenUpForCause
    BY DEF DeliveryInv
  <1>2. /\ drun.pc = "push" /\ tok' = tok /\ gone' = gone /\ link' = link /\ dchanges' = dchanges
    BY DEF sendPushNotifications
  <1>3. /\ dj \in QueueJobs /\ drun \in QueueRuns /\ dj.made \in Nat /\ dj.stalls \in Nat
        /\ drun.todo \cup dj.progress \subseteq dj.job.channels /\ copies \in [Addresses -> Nat]
        /\ dfaults \in 0..DMaxFaults /\ DMaxFaults \in Nat /\ drun.tokens \subseteq DTokens
        /\ dj.fatal \in BOOLEAN /\ "PUSH" \in Channels
    BY <1>1, DeliveryTyped, DeliveryFields, DAssumption DEF DAssumption, Channels
  <1>4. PICK failed \in SUBSET (drun.tokens \ gone), fatal \in SUBSET (drun.tokens \ gone) :
          /\ IF failed \cup fatal = {} THEN UNCHANGED dfaults ELSE DFault
          /\ \/ Count((drun.tokens \ gone) \ (failed \cup fatal))
             \/ failed = drun.tokens \ gone /\ failed # {} /\ Count(failed)
          /\ drun' = [drun EXCEPT !.pc = "revoke", !.dead = drun.tokens \cap gone,
                        !.res["PUSH"] = PushOutcome(failed, fatal)]
          /\ dj' = [dj EXCEPT !.fatal = dj.fatal \/ fatal # {}]
    BY DEF sendPushNotifications
  <1>5. PICK reached \in SUBSET (drun.tokens \ gone) :
          Count(reached) /\ (failed \cup fatal = {} => reached = drun.tokens \ gone)
    BY <1>4
  <1>6. PICK outcome \in {"ok", "retry", "fatal"} :
          /\ outcome = PushOutcome(failed, fatal)
          /\ outcome = "ok" => failed \cup fatal = {}
          /\ outcome = "fatal" => fatal # {}
          /\ outcome # "ok" => failed \cup fatal # {}
    BY DEF PushOutcome
  <1>7. PICK broken \in BOOLEAN : broken = (dj.fatal \/ fatal # {})
    BY <1>3
  <1>8. /\ dj' \in QueueJobs /\ dj'.job = dj.job /\ dj'.progress = dj.progress /\ dj'.state = dj.state
        /\ dj'.made = dj.made /\ dj'.stalls = dj.stalls /\ dj'.fatal = broken
    BY <1>3, <1>4, <1>7 DEF QueueJobs
  <1>9. /\ drun' \in QueueRuns /\ drun'.pc = "revoke" /\ drun'.todo = drun.todo /\ drun'.res["PUSH"] = outcome
        /\ \A c \in Channels : c # "PUSH" => drun'.res[c] = drun.res[c]
    <2>1. drun' = [drun EXCEPT !.pc = "revoke", !.dead = drun.tokens \cap gone, !.res["PUSH"] = outcome]
      BY <1>4, <1>6
    <2>2. outcome \in Outcomes
      BY DEF Outcomes
    <2> QED BY <1>3, <2>1, <2>2 DEF QueueRuns
  <1>10. /\ copies' \in [Addresses -> Nat]
         /\ \A a \in Addresses : copies'[a] = IF a \in reached THEN copies[a] + 1 ELSE copies[a]
    BY <1>3, <1>5 DEF Count
  <1>11. dfaults' \in 0..DMaxFaults /\ dfaults' >= dfaults /\ (outcome # "ok" => dfaults' >= dfaults + 1)
    BY <1>3, <1>4, <1>6 DEF DFault
  <1>12. drun.todo = {"PUSH"} /\ Running /\ Running' /\ dj.state = "active" /\ drun.tokens # {}
    BY <1>1, <1>2, <1>9 DEF RunFits, Running
  <1>13. DTypeOK'
    BY <1>1, <1>2, <1>3, <1>8, <1>9, <1>10, <1>11, DeliveryTyped, DeliveryTypedNext
  <1>14. RunFits'
    <2>1. "PUSH" \in dj.job.channels /\ outcome # "none" /\ outcome # "null"
      BY <1>3, <1>12
    <2>2. dj'.state # "failed" => dj'.stalls <= DStalls
      BY <1>1, <1>8 DEF RunFits
    <2>3. \A c \in Channels :
                 /\ c \in drun'.todo => c \notin dj'.progress
                 /\ drun'.res[c] # "none" => c \in dj'.job.channels
                 /\ c \in dj'.job.channels => c \in drun'.todo \cup dj'.progress \/ drun'.res[c] # "none"
                 /\ drun'.res[c] = "null" => c = "PUSH"
      BY <1>1, <1>8, <1>9, <1>12, <2>1 DEF RunFits
    <2> QED BY <1>8, <1>9, <1>12, <2>1, <2>2, <2>3 DEF RunFits, Running
  <1>15. SuccessIsSent'
    <2>1. ASSUME NEW c \in {"EMAIL", "WHATSAPP"}, Succeeded(c)' PROVE copies'[c] > 0
      <3>1. Succeeded(c) /\ c \in Addresses /\ c \notin DTokens
        BY <1>8, <1>9, <1>12, <2>1, AddressesApart DEF Succeeded, Channels
      <3>2. c \notin reached
        BY <1>3, <3>1
      <3> QED BY <1>1, <1>10, <3>1, <3>2 DEF SuccessIsSent
    <2>2. ASSUME Succeeded("PUSH")' PROVE \E t \in DTokens : copies'[t] > 0 \/ t \in gone' \/ dchanges' > 0
      <3>1. CASE "PUSH" \in dj.progress
        <4>1. PICK t \in DTokens : copies[t] > 0 \/ t \in gone \/ dchanges > 0
          BY <1>1, <3>1 DEF SuccessIsSent, Succeeded
        <4>2. copies'[t] >= copies[t] /\ copies[t] \in Nat /\ copies'[t] \in Nat
          BY <1>3, <1>10, AddressesApart
        <4> QED BY <1>2, <4>1, <4>2
      <3>2. CASE outcome = "ok"
        <4>1. PICK t \in drun.tokens : TRUE
          BY <1>12
        <4>2. CASE t \in gone
          BY <1>2, <1>3, <4>2
        <4>3. CASE t \notin gone
          <5>1. t \in reached /\ t \in DTokens /\ t \in Addresses
            BY <1>3, <1>5, <1>6, <3>2, <4>3, AddressesApart
          <5>2. copies'[t] > 0
            BY <1>3, <1>10, <5>1
          <5> QED BY <5>1, <5>2
        <4> QED BY <4>2, <4>3
      <3> QED BY <1>8, <1>9, <2>2, <3>1, <3>2 DEF Succeeded
    <2> QED BY <2>1, <2>2 DEF SuccessIsSent
  <1>16. CompletedIsServed'
    BY <1>8, <1>12 DEF CompletedIsServed
  <1>17. CopiesCounted'
    <2> SUFFICES ASSUME NEW a \in Addresses
                 PROVE  copies'[a] <= dj'.made + dj'.stalls + (IF MayHaveSent(a)' THEN 1 ELSE 0)
      BY DEF CopiesCounted
    <2>1. copies[a] <= dj.made + dj.stalls + (IF MayHaveSent(a) THEN 1 ELSE 0) /\ copies[a] \in Nat
      BY <1>1, <1>3 DEF CopiesCounted
    <2>2. MayHaveSent(a)'
      BY <1>8, <1>9, <1>12 DEF MayHaveSent
    <2>3. CASE a \in reached
      <3>1. ~MayHaveSent(a)
        BY <1>2, <1>3, <1>12, <2>3 DEF MayHaveSent, ChannelOf
      <3> QED BY <1>3, <1>8, <1>10, <2>1, <2>2, <2>3, <3>1
    <2>4. CASE a \notin reached
      BY <1>3, <1>8, <1>10, <2>1, <2>2, <2>4
    <2> QED BY <2>3, <2>4
  <1>18. FailuresCaused'
    <2>1. \A c \in Channels : drun'.res[c] = "fatal" => dj'.fatal
      BY <1>1, <1>6, <1>7, <1>8, <1>9, <1>12 DEF FailuresCaused
    <2>2. Failing(drun)' # {} => Failing(drun) # {} \/ outcome # "ok"
      BY <1>9 DEF Failing
    <2>3. CASE dj.fatal \/ Undeliverable(dj.job)
      BY <1>7, <1>8, <2>1, <2>3 DEF FailuresCaused
    <2>4. CASE ~(dj.fatal \/ Undeliverable(dj.job))
      <3>1. dfaults >= dj.made + (IF Failing(drun) # {} THEN 1 ELSE 0)
        BY <1>1, <1>12, <2>4 DEF FailuresCaused
      <3>2. dfaults' >= dj.made + (IF Failing(drun)' # {} THEN 1 ELSE 0)
        BY <1>3, <1>11, <2>2, <3>1
      <3> QED BY <1>8, <1>12, <2>1, <3>2 DEF FailuresCaused
    <2> QED BY <2>3, <2>4
  <1>19. GivenUpForCause'
    BY <1>8, <1>12 DEF GivenUpForCause
  <1> QED BY <1>13, <1>14, <1>15, <1>16, <1>17, <1>18, <1>19 DEF DeliveryInv


(* What the invariant says of a state, with the kinds of its parts.        *)
LEMMA DeliveryFacts ==
    ASSUME DeliveryInv
    PROVE  /\ DTypeOK /\ RunFits /\ SuccessIsSent /\ CompletedIsServed
           /\ CopiesCounted /\ FailuresCaused /\ GivenUpForCause
           /\ dj \in QueueJobs /\ drun \in QueueRuns /\ dj.made \in Nat /\ dj.stalls \in Nat
           /\ drun.todo \cup dj.progress \subseteq dj.job.channels /\ copies \in [Addresses -> Nat]
           /\ \A a \in Addresses : copies[a] \in Nat
           /\ dfaults \in 0..DMaxFaults /\ DMaxFaults \in Nat /\ dfaults \in Nat /\ dchanges \in Nat
           /\ dj.fatal \in BOOLEAN /\ dj.stalls \in 0..(DStalls + 1) /\ DStalls \in Nat
           /\ JobTries \in Nat
  BY DeliveryTyped, DeliveryFields, DAssumption DEF DAssumption, DeliveryInv

(* The dead tokens are revoked.                                            *)
LEMMA RevokeKeeps == DeliveryInv /\ revokeTokens => DeliveryInv'
  <1> SUFFICES ASSUME DeliveryInv, revokeTokens PROVE DeliveryInv'
    OBVIOUS
  <1>1. /\ drun.pc = "revoke" /\ dj' = dj /\ gone' = gone /\ link' = link /\ copies' = copies
        /\ dchanges' = dchanges
    BY DEF revokeTokens
  <1>2. tok' \in [DTokens -> [owner: DUsers, active: BOOLEAN]]
    <2>1. tok \in [DTokens -> [owner: DUsers, active: BOOLEAN]]
      BY DeliveryFacts, DeliveryTyped
    <2>2. CASE UNCHANGED tok
      BY <2>1, <2>2
    <2>3. CASE tok' = [t \in DTokens |-> IF t \in drun.dead
                         THEN [tok[t] EXCEPT !.active = FALSE] ELSE tok[t]]
      <3>1. \A t \in DTokens : [tok[t] EXCEPT !.active = FALSE] \in [owner: DUsers, active: BOOLEAN]
        BY <2>1
      <3> QED BY <2>1, <2>3, <3>1
    <2> QED BY <2>2, <2>3 DEF revokeTokens
  <1>3. dfaults' \in 0..DMaxFaults /\ dfaults' >= dfaults
    BY DeliveryFacts DEF revokeTokens, DFault
  <1>4. drun' \in QueueRuns /\ drun'.pc = "next" /\ drun'.res = drun.res /\ drun'.todo = {}
    <2>1. drun \in QueueRuns /\ drun.todo = {"PUSH"}
      BY <1>1, DeliveryFacts DEF RunFits
    <2> QED BY <2>1 DEF revokeTokens, QueueRuns
  <1>5. Running /\ Running' /\ dj.state = "active" /\ drun.todo = {"PUSH"} /\ drun.res["PUSH"] # "none"
    BY <1>1, <1>4, DeliveryFacts DEF RunFits, Running
  <1>6. DTypeOK'
    BY <1>1, <1>2, <1>3, <1>4, DeliveryFacts, DeliveryTyped, DeliveryTypedNext
  <1>7. RunFits'
    BY <1>1, <1>4, <1>5, DeliveryFacts DEF RunFits, Running
  <1>8. SuccessIsSent' /\ CompletedIsServed'
    <2>1. \A ch \in Channels : Succeeded(ch)' => Succeeded(ch)
      BY <1>1, <1>4, <1>5 DEF Succeeded
    <2> QED BY <1>1, <2>1, DeliveryFacts DEF SuccessIsSent, CompletedIsServed, Channels
  <1>9. CopiesCounted'
    <2>1. \A a \in Addresses : MayHaveSent(a)'
      BY <1>1, <1>4, <1>5 DEF MayHaveSent
    <2>2. \A a \in Addresses : copies[a] <= dj.made + dj.stalls + 1
      BY DeliveryFacts DEF CopiesCounted
    <2> QED BY <1>1, <2>1, <2>2 DEF CopiesCounted
  <1>10. FailuresCaused'
    <2>1. Failing(drun)' = Failing(drun)
      BY <1>4 DEF Failing
    <2>2. \A ch \in Channels : drun'.res[ch] = "fatal" => dj'.fatal
      BY <1>1, <1>4, <1>5, DeliveryFacts DEF FailuresCaused
    <2>3. CASE dj.fatal \/ Undeliverable(dj.job)
      BY <1>1, <2>2, <2>3 DEF FailuresCaused
    <2>4. CASE ~(dj.fatal \/ Undeliverable(dj.job))
      <3>1. dfaults >= dj.made + (IF Failing(drun) # {} THEN 1 ELSE 0)
        BY <1>5, <2>4, DeliveryFacts DEF FailuresCaused
      <3>2. dfaults' >= dj.made + (IF Failing(drun)' # {} THEN 1 ELSE 0)
        BY <1>3, <2>1, <3>1, DeliveryFacts
      <3> QED BY <1>1, <1>5, <2>2, <3>2 DEF FailuresCaused
    <2> QED BY <2>3, <2>4
  <1>11. GivenUpForCause'
    BY <1>1, <1>5 DEF GivenUpForCause
  <1> QED BY <1>6, <1>7, <1>8, <1>9, <1>10, <1>11 DEF DeliveryInv

(* The channels that succeeded are remembered.                             *)
LEMMA ProgressKeeps == DeliveryInv /\ updateProgress => DeliveryInv'
  <1> SUFFICES ASSUME DeliveryInv, updateProgress PROVE DeliveryInv'
    OBVIOUS
  <1>1. /\ drun.pc = "next" /\ drun.todo = {} /\ tok' = tok /\ gone' = gone /\ link' = link
        /\ copies' = copies /\ dfaults' = dfaults /\ dchanges' = dchanges
    BY DEF updateProgress
  <1>2. PICK ok \in SUBSET Channels : ok = {ch \in Channels : drun.res[ch] = "ok"}
    OBVIOUS
  <1>3. Running /\ dj.state = "active"
    BY <1>1, DeliveryFacts DEF RunFits, Running
  <1>4. ok \subseteq dj.job.channels
    BY <1>2, <1>3, DeliveryFacts DEF RunFits
  <1>5. /\ dj' \in QueueJobs /\ dj'.job = dj.job /\ dj'.progress = dj.progress \cup ok /\ dj'.state = "active"
        /\ dj'.made = dj.made /\ dj'.stalls = dj.stalls /\ dj'.fatal = dj.fatal
    <2>1. dj' = [dj EXCEPT !.progress = dj.progress \cup ok] /\ dj \in QueueJobs
      BY <1>2, DeliveryFacts DEF updateProgress
    <2> QED BY <1>3, <2>1 DEF QueueJobs
  <1>6. drun' \in QueueRuns /\ drun'.pc = "finish" /\ drun'.res = drun.res /\ drun'.todo = {}
    <2>1. drun \in QueueRuns
      BY DeliveryFacts
    <2> QED BY <1>1, <2>1 DEF updateProgress, QueueRuns
  <1>7. Running'
    BY <1>6 DEF Running
  <1>8. DTypeOK'
    BY <1>1, <1>4, <1>5, <1>6, DeliveryFacts, DeliveryTyped, DeliveryTypedNext
  <1>9. RunFits'
    <2>1. dj'.state # "failed" => dj'.stalls <= DStalls
      BY <1>3, <1>5, DeliveryFacts DEF RunFits
    <2>2. \A ch \in Channels :
             /\ drun'.res[ch] # "none" => ch \in dj'.job.channels
             /\ ch \in dj'.job.channels => ch \in drun'.todo \cup dj'.progress \/ drun'.res[ch] # "none"
             /\ drun'.res[ch] = "null" => ch = "PUSH"
             /\ drun'.res[ch] = "ok" => ch \in dj'.progress
      BY <1>1, <1>2, <1>3, <1>5, <1>6, DeliveryFacts DEF RunFits
    <2> QED BY <1>5, <1>6, <1>7, <2>1, <2>2 DEF RunFits
  <1>10. SuccessIsSent' /\ CompletedIsServed'
    <2>1. \A ch \in Channels : Succeeded(ch)' => Succeeded(ch)
      BY <1>2, <1>3, <1>5, <1>6 DEF Succeeded
    <2> QED BY <1>1, <1>5, <2>1, DeliveryFacts DEF SuccessIsSent, CompletedIsServed, Channels
  <1>11. CopiesCounted'
    <2>1. \A a \in Addresses : MayHaveSent(a)'
      BY <1>5, <1>6 DEF MayHaveSent
    <2>2. \A a \in Addresses : copies[a] <= dj.made + dj.stalls + 1
      BY DeliveryFacts DEF CopiesCounted
    <2> QED BY <1>1, <1>5, <2>1, <2>2 DEF CopiesCounted
  <1>12. FailuresCaused'
    <2>1. Failing(drun)' = Failing(drun)
      BY <1>6 DEF Failing
    <2> QED BY <1>1, <1>3, <1>5, <1>6, <1>7, <2>1, DeliveryFacts DEF FailuresCaused
  <1>13. GivenUpForCause'
    BY <1>5 DEF GivenUpForCause
  <1> QED BY <1>8, <1>9, <1>10, <1>11, <1>12, <1>13 DEF DeliveryInv

(* A run leaves its job to the queue, which counts it.                     *)
LEMMA LeavingKeeps ==
    ASSUME DeliveryInv, Running, drun' \in QueueRuns, drun'.pc = "idle",
           drun'.todo \subseteq drun.todo, dj' \in QueueJobs, dj'.job = dj.job, dj'.progress = dj.progress,
           dj'.state \in {"waiting", "failed"}, dj'.fatal = dj.fatal,
           dj'.state # "failed" => dj'.stalls <= DStalls,
           dj'.made + dj'.stalls = dj.made + dj.stalls + 1,
           dj.fatal \/ Undeliverable(dj.job) \/ dfaults' >= dj'.made,
           dfaults' \in 0..DMaxFaults, GivenUpForCause',
           UNCHANGED <<tok, gone, link, copies, dchanges>>
    PROVE  DeliveryInv'
  <1>1. ~Running' /\ dj'.state # "active" /\ dj'.state # "completed"
    BY DEF Running
  <1>2. DTypeOK'
    BY DeliveryFacts, DeliveryTyped, DeliveryTypedNext
  <1>3. RunFits'
    BY <1>1 DEF RunFits, Running
  <1>4. SuccessIsSent' /\ CompletedIsServed'
    <2>1. \A ch \in Channels : Succeeded(ch)' => Succeeded(ch)
      BY <1>1 DEF Succeeded
    <2> QED BY <1>1, <2>1, DeliveryFacts DEF SuccessIsSent, CompletedIsServed, Channels
  <1>5. CopiesCounted'
    <2>1. \A a \in Addresses : copies[a] <= dj.made + dj.stalls + 1
      BY DeliveryFacts DEF CopiesCounted
    <2>2. \A a \in Addresses : ~MayHaveSent(a)'
      BY <1>1 DEF MayHaveSent
    <2>3. dj'.made + dj'.stalls + 0 = dj'.made + dj'.stalls
      BY DEF QueueJobs
    <2> QED BY <2>1, <2>2, <2>3 DEF CopiesCounted
  <1>6. FailuresCaused'
    <2>1. dj'.made + 0 = dj'.made
      BY DEF QueueJobs
    <2> QED BY <1>1, <2>1 DEF FailuresCaused
  <1> QED BY <1>2, <1>3, <1>4, <1>5, <1>6 DEF DeliveryInv

(* The run ends and the queue decides.                                     *)
LEMMA ProcessEndKeeps == DeliveryInv /\ processEnds => DeliveryInv'
  <1> SUFFICES ASSUME DeliveryInv, processEnds PROVE DeliveryInv'
    OBVIOUS
  <1>1. /\ drun.pc = "finish" /\ tok' = tok /\ gone' = gone /\ link' = link
        /\ copies' = copies /\ dfaults' = dfaults /\ dchanges' = dchanges
    BY DEF processEnds
  <1>2. Running /\ dj.state = "active" /\ drun.todo = {}
    BY <1>1, DeliveryFacts DEF RunFits, Running
  <1>3. CASE Failing(drun) = {} /\ FinishJob("completed")
    <2>1. /\ drun' \in QueueRuns /\ drun'.pc = "idle" /\ drun'.todo = {}
          /\ dj' \in QueueJobs /\ dj'.job = dj.job /\ dj'.progress = dj.progress /\ dj'.state = "completed"
          /\ dj'.made = dj.made /\ dj'.stalls = dj.stalls /\ dj'.fatal = dj.fatal
      <3>1. drun \in QueueRuns /\ dj \in QueueJobs
        BY DeliveryFacts
      <3> QED BY <1>2, <1>3, <3>1 DEF FinishJob, QueueJobs, QueueRuns
    <2>2. ~Running'
      BY <2>1 DEF Running
    <2>3. DTypeOK'
      BY <1>1, <1>2, <2>1, DeliveryFacts, DeliveryTyped, DeliveryTypedNext
    <2>4. RunFits'
      <3>1. dj'.stalls <= DStalls
        BY <1>2, <2>1, DeliveryFacts DEF RunFits
      <3> QED BY <2>1, <2>2, <3>1 DEF RunFits
    <2>5. SuccessIsSent'
      <3>1. \A ch \in Channels : Succeeded(ch)' => Succeeded(ch)
        BY <2>1, <2>2 DEF Succeeded
      <3> QED BY <1>1, <3>1, DeliveryFacts DEF SuccessIsSent, Channels
    <2>6. CompletedIsServed'
      <3> SUFFICES ASSUME NEW ch \in dj.job.channels \cap {"EMAIL", "WHATSAPP"} PROVE ch \in dj.progress
        BY <2>1 DEF CompletedIsServed
      <3>1. ch \in Channels /\ drun.res[ch] \in Outcomes
        BY DeliveryFacts DEF Channels, QueueRuns
      <3>2. drun.res[ch] \notin {"retry", "fatal", "null"}
        BY <1>2, <1>3, <3>1, DeliveryFacts DEF Failing, RunFits
      <3>3. drun.res[ch] # "none" => drun.res[ch] = "ok"
        BY <3>1, <3>2 DEF Outcomes
      <3> QED BY <1>1, <1>2, <3>1, <3>3, DeliveryFacts DEF RunFits
    <2>7. CopiesCounted'
      <3>1. \A a \in Addresses : MayHaveSent(a)'
        BY <2>1 DEF MayHaveSent
      <3>2. \A a \in Addresses : copies[a] <= dj.made + dj.stalls + 1
        BY DeliveryFacts DEF CopiesCounted
      <3> QED BY <1>1, <2>1, <3>1, <3>2 DEF CopiesCounted
    <2>8. FailuresCaused'
      <3>1. \/ dj.fatal
            \/ Undeliverable(dj.job)
            \/ dfaults >= dj.made
        BY <1>2, <1>3, DeliveryFacts DEF FailuresCaused
      <3>2. dj.made + 0 = dj.made
        BY DeliveryFacts
      <3> QED BY <1>1, <2>1, <2>2, <3>1, <3>2 DEF FailuresCaused
    <2>9. GivenUpForCause'
      BY <2>1 DEF GivenUpForCause
    <2> QED BY <2>3, <2>4, <2>5, <2>6, <2>7, <2>8, <2>9 DEF DeliveryInv
  <1>4. CASE /\ Failing(drun) # {}
             /\ dj' = [dj EXCEPT !.made = AttemptsAfter(dj.made),
                         !.state = IF StopsEarly(drun) \/ LastAttempt(dj.made) THEN "failed" ELSE "waiting"]
             /\ drun' = IdleRun
    <2>1. PICK state \in {"waiting", "failed"} :
              /\ state = IF StopsEarly(drun) \/ LastAttempt(dj.made) THEN "failed" ELSE "waiting"
              /\ dj' = [dj EXCEPT !.made = dj.made + 1, !.state = state]
      BY <1>4 DEF AttemptsAfter
    <2>2. /\ dj' \in QueueJobs /\ dj'.job = dj.job /\ dj'.progress = dj.progress /\ dj'.state = state
          /\ dj'.made = dj.made + 1 /\ dj'.stalls = dj.stalls /\ dj'.fatal = dj.fatal
      <3>1. dj \in QueueJobs /\ dj.made + 1 \in Nat
        BY DeliveryFacts
      <3> QED BY <2>1, <3>1 DEF QueueJobs
    <2>3. drun' \in QueueRuns /\ drun'.pc = "idle" /\ drun'.todo \subseteq drun.todo
      BY <1>4, IdleFits
    <2>4. dj'.stalls <= DStalls
      BY <1>2, <2>2, DeliveryFacts DEF RunFits
    <2>5. dj'.made + dj'.stalls = dj.made + dj.stalls + 1
      BY <2>2, DeliveryFacts
    <2>6. \/ dj.fatal
          \/ Undeliverable(dj.job)
          \/ dfaults' >= dj'.made
      BY <1>1, <1>2, <1>4, <2>2, DeliveryFacts DEF FailuresCaused
    <2>7. GivenUpForCause'
      <3> SUFFICES ASSUME state = "failed" PROVE GivenUpForCause'
        BY <2>2 DEF GivenUpForCause
      <3>1. CASE dj.fatal
        BY <2>2, <3>1 DEF GivenUpForCause
      <3>2. CASE Undeliverable(dj.job)
        BY <2>2, <3>2 DEF GivenUpForCause, Undeliverable
      <3>3. CASE ~dj.fatal /\ ~Undeliverable(dj.job)
        <4>1. dfaults' >= dj.made + 1
          BY <2>2, <2>6, <3>3
        <4>2. ~StopsEarly(drun)
          BY <1>2, <1>4, <3>3, DeliveryFacts DEF StopsEarly, Failing, FailuresCaused
        <4>3. LastAttempt(dj.made)
          BY <2>1, <4>2
        <4>4. dj.made + 1 >= JobTries
          BY <4>3 DEF LastAttempt, AttemptsAfter
        <4>5. dfaults' >= JobTries
          BY <1>1, <4>1, <4>4, DeliveryFacts
        <4> QED BY <4>5 DEF GivenUpForCause
      <3> QED BY <3>1, <3>2, <3>3
    <2> QED BY <1>1, <1>2, <2>2, <2>3, <2>4, <2>5, <2>6, <2>7, DeliveryFacts, LeavingKeeps
  <1> QED BY <1>3, <1>4 DEF processEnds

(* The worker dies.                                                        *)
LEMMA DieKeeps == DeliveryInv /\ DCrash => DeliveryInv'
  <1> SUFFICES ASSUME DeliveryInv, DCrash PROVE DeliveryInv'
    OBVIOUS
  <1>1. /\ drun.pc # "idle" /\ drun' = IdleRun /\ tok' = tok /\ gone' = gone /\ link' = link
        /\ copies' = copies /\ dchanges' = dchanges
    BY DEF DCrash
  <1>2. Running /\ dj.state = "active"
    BY <1>1, DeliveryFacts DEF RunFits, Running
  <1>3. dj.stalls \in 0..DStalls
    BY <1>2, DeliveryFacts DEF RunFits
  <1>4. dfaults' \in 0..DMaxFaults /\ dfaults' >= dfaults + 1
    BY DeliveryFacts DEF DCrash, DFault
  <1>5. PICK state \in {"waiting", "failed"} :
            /\ state = IF dj.stalls = DStalls THEN "failed" ELSE "waiting"
            /\ dj' = [dj EXCEPT !.stalls = dj.stalls + 1, !.state = state]
    BY DEF DCrash
  <1>6. /\ dj' \in QueueJobs /\ dj'.job = dj.job /\ dj'.progress = dj.progress /\ dj'.state = state
        /\ dj'.made = dj.made /\ dj'.stalls = dj.stalls + 1 /\ dj'.fatal = dj.fatal
    <2>1. dj \in QueueJobs /\ dj.stalls + 1 \in 0..(DStalls + 1)
      BY <1>3, DeliveryFacts
    <2> QED BY <1>5, <2>1 DEF QueueJobs
  <1>7. drun' \in QueueRuns /\ drun'.pc = "idle" /\ drun'.todo \subseteq drun.todo
    BY <1>1, IdleFits
  <1>8. dj'.state # "failed" => dj'.stalls <= DStalls
    BY <1>3, <1>5, <1>6, DeliveryFacts
  <1>9. dj'.made + dj'.stalls = dj.made + dj.stalls + 1
    BY <1>6, DeliveryFacts
  <1>10. \/ dj.fatal
         \/ Undeliverable(dj.job)
         \/ dfaults' >= dj'.made
    <2>1. CASE dfaults >= dj.made + (IF Running /\ Failing(drun) # {} THEN 1 ELSE 0)
      BY <1>4, <1>6, <2>1, DeliveryFacts
    <2> QED BY <2>1, DeliveryFacts DEF FailuresCaused
  <1>11. GivenUpForCause'
    <2>1. state = "failed" => dj'.stalls > DStalls
      BY <1>3, <1>5, <1>6, DeliveryFacts
    <2> QED BY <1>6, <2>1 DEF GivenUpForCause
  <1> QED BY <1>1, <1>2, <1>4, <1>6, <1>7, <1>8, <1>9, <1>10, <1>11, LeavingKeeps

(* What users and time do to tokens, devices and links.                    *)
LEMMA OutsideKeeps ==
    ASSUME DeliveryInv, UNCHANGED <<dj, drun, copies, dfaults>>,
           tok' \in [DTokens -> [owner: DUsers, active: BOOLEAN]], gone' \subseteq DTokens,
           link' = link \/ link' = "expired", dchanges' \in 0..DMaxChanges, dchanges' >= dchanges,
           gone \subseteq gone' \/ dchanges' > 0
    PROVE  DeliveryInv'
  <1>1. DTypeOK'
    <2>1. link' \in {"valid", "expired"}
      BY DeliveryFacts, DeliveryTyped
    <2> QED BY <2>1, DeliveryFacts, DeliveryTyped, DeliveryTypedNext
  <1>2. RunFits'
    BY DeliveryFacts DEF RunFits, Running
  <1>3. SuccessIsSent' /\ CompletedIsServed'
    <2>1. \A ch \in Channels : Succeeded(ch)' => Succeeded(ch)
      BY DEF Succeeded, Running
    <2>2. ASSUME Succeeded("PUSH")' PROVE \E t \in DTokens : copies'[t] > 0 \/ t \in gone' \/ dchanges' > 0
      <3>1. PICK t \in DTokens : copies[t] > 0 \/ t \in gone \/ dchanges > 0
        BY <2>1, <2>2, DeliveryFacts DEF SuccessIsSent, Channels
      <3>2. dchanges > 0 => dchanges' > 0
        <4>1. DMaxChanges \in Nat
          BY DAssumption DEF DAssumption
        <4> QED BY <4>1, DeliveryFacts
      <3> QED BY <3>1, <3>2
    <2> QED BY <2>1, <2>2, DeliveryFacts DEF SuccessIsSent, CompletedIsServed, Channels
  <1>4. CopiesCounted'
    <2>1. \A a \in Addresses : MayHaveSent(a)' <=> MayHaveSent(a)
      BY DEF MayHaveSent
    <2> QED BY <2>1, DeliveryFacts DEF CopiesCounted
  <1>5. FailuresCaused'
    <2>1. (Failing(drun)' = Failing(drun)) /\ (Running' <=> Running)
      BY DEF Failing, Running
    <2> QED BY <2>1, DeliveryFacts DEF FailuresCaused
  <1>6. GivenUpForCause'
    BY DeliveryFacts DEF GivenUpForCause
  <1> QED BY <1>1, <1>2, <1>3, <1>4, <1>5, <1>6 DEF DeliveryInv

(* Users register and revoke tokens and remove apps; a link expires.       *)
LEMMA UsersKeep ==
    ASSUME DeliveryInv, NEW t \in DTokens, NEW u \in DUsers,
           linkExpires \/ appRemoved(t) \/ registerToken(u, t) \/ revokeToken(u, t)
    PROVE  DeliveryInv'
  <1>1. /\ tok \in [DTokens -> [owner: DUsers, active: BOOLEAN]] /\ gone \subseteq DTokens
        /\ dchanges \in 0..DMaxChanges /\ DMaxChanges \in Nat /\ dchanges >= dchanges
    BY DeliveryFacts, DeliveryTyped, DAssumption DEF DAssumption
  <1>2. dchanges < DMaxChanges /\ dchanges' = dchanges + 1 =>
            dchanges' \in 0..DMaxChanges /\ dchanges' >= dchanges /\ dchanges' > 0
    BY <1>1
  <1>3. CASE linkExpires
    BY <1>1, <1>3, OutsideKeeps DEF linkExpires
  <1>4. CASE appRemoved(t)
    BY <1>1, <1>2, <1>4, OutsideKeeps DEF appRemoved
  <1>5. CASE registerToken(u, t)
    <2>1. tok' \in [DTokens -> [owner: DUsers, active: BOOLEAN]]
      BY <1>1, <1>5 DEF registerToken
    <2> QED BY <1>1, <1>2, <1>5, <2>1, OutsideKeeps DEF registerToken
  <1>6. CASE revokeToken(u, t)
    <2>1. tok' \in [DTokens -> [owner: DUsers, active: BOOLEAN]]
      BY <1>1, <1>6 DEF revokeToken
    <2> QED BY <1>1, <1>2, <1>6, <2>1, OutsideKeeps DEF revokeToken
  <1> QED BY <1>3, <1>4, <1>5, <1>6

(* A link expires.                                                         *)
LEMMA ExpiryKeeps == DeliveryInv /\ linkExpires => DeliveryInv'
  <1> SUFFICES ASSUME DeliveryInv, linkExpires PROVE DeliveryInv'
    OBVIOUS
  <1>1. /\ tok \in [DTokens -> [owner: DUsers, active: BOOLEAN]] /\ gone \subseteq DTokens
        /\ dchanges \in 0..DMaxChanges /\ dchanges >= dchanges
    BY DeliveryFacts, DeliveryTyped
  <1> QED BY <1>1, OutsideKeeps DEF linkExpires

(* An app is removed.                                                      *)
LEMMA RemovalKeeps == ASSUME DeliveryInv, NEW t \in DTokens, appRemoved(t) PROVE DeliveryInv'
  BY UsersKeep, DAssumption DEF DAssumption

(* Every step keeps the invariant.                                         *)
LEMMA NoticeKept == DeliveryInv /\ [DNext]_dvars => DeliveryInv'
  <1> SUFFICES ASSUME DeliveryInv, [DNext]_dvars PROVE DeliveryInv'
    OBVIOUS
  <1>1. CASE Worker
    BY <1>1, ProcessKeeps, LinkKeeps, EmailKeeps, WhatsAppKeeps, PushReadKeeps, PushKeeps, RevokeKeeps,
       ProgressKeeps, ProcessEndKeeps DEF Worker
  <1>2. CASE DCrash
    BY <1>2, DieKeeps
  <1>3. CASE linkExpires
    BY <1>3, ExpiryKeeps
  <1>4. CASE \E t \in DTokens : appRemoved(t) \/ \E u \in DUsers : registerToken(u, t) \/ revokeToken(u, t)
    BY <1>4, UsersKeep, RemovalKeeps
  <1>5. CASE UNCHANGED dvars
    <2>1. /\ tok \in [DTokens -> [owner: DUsers, active: BOOLEAN]] /\ gone \subseteq DTokens
          /\ dchanges \in 0..DMaxChanges /\ dchanges >= dchanges
      BY DeliveryFacts, DeliveryTyped
    <2> QED BY <1>5, <2>1, OutsideKeeps DEF dvars
  <1> QED BY <1>1, <1>2, <1>3, <1>4, <1>5 DEF DNext

(* What the invariant promises.                                            *)
LEMMA DeliveryPromised == DeliveryInv => DTypeOK /\ CompletedMeansDelivered /\ CopiesBounded /\ GivenUpForCause
  <1> SUFFICES ASSUME DeliveryInv PROVE CompletedMeansDelivered /\ CopiesBounded
    BY DEF DeliveryInv
  <1>1. CompletedMeansDelivered
    BY DeliveryFacts DEF CompletedMeansDelivered, SuccessIsSent, CompletedIsServed, Succeeded
  <1>2. CopiesBounded
    <2> SUFFICES ASSUME NEW a \in Addresses
                 PROVE  copies[a] <= dj.made + dj.stalls + (IF dj.state = "failed" THEN 0 ELSE 1)
      BY DEF CopiesBounded
    <2>1. copies[a] <= dj.made + dj.stalls + (IF MayHaveSent(a) THEN 1 ELSE 0)
      BY DeliveryFacts DEF CopiesCounted
    <2>2. dj.state = "failed" => ~MayHaveSent(a)
      BY DEF MayHaveSent
    <2> QED BY <2>1, <2>2, DeliveryFacts
  <1> QED BY <1>1, <1>2

(* A step serves only a channel that the progress does not list.           *)
LEMMA ServesTheRest ==
    ASSUME DeliveryInv, [DNext]_dvars, NEW a \in Addresses, copies'[a] # copies[a]
    PROVE  (IF a \in DTokens THEN "PUSH" ELSE a) \notin dj.progress
  <1> DEFINE once(ch) == Turn(ch) \/ (ch = "PUSH" /\ drun.pc = "push")
  <1>1. ASSUME NEW ch \in Channels, once(ch) PROVE ch \notin dj.progress
    <2>1. ch \in drun.todo /\ Running
      BY <1>1, DeliveryFacts DEF Turn, RunFits, Running
    <2> QED BY <1>1, <2>1, DeliveryFacts DEF RunFits
  <1>2. CASE sendEmailNotification
    <2>1. Turn("EMAIL") /\ Provider("EMAIL", "EMAIL")
      BY <1>2 DEF sendEmailNotification
    <2>2. a = "EMAIL"
      BY <2>1 DEF Provider, Count
    <2> QED BY <1>1, <2>1, <2>2, AddressesApart DEF Channels
  <1>3. CASE sendWhatsAppNotification
    <2>1. Turn("WHATSAPP") /\ Provider("WHATSAPP", "WHATSAPP")
      BY <1>3 DEF sendWhatsAppNotification
    <2>2. a = "WHATSAPP"
      BY <2>1 DEF Provider, Count
    <2> QED BY <1>1, <2>1, <2>2, AddressesApart DEF Channels
  <1>4. CASE sendPushNotifications
    <2>1. drun.pc = "push" /\ drun.tokens \subseteq DTokens
      BY <1>4, DeliveryFacts, DeliveryFields DEF sendPushNotifications
    <2>2. a \in drun.tokens
      BY <1>4 DEF sendPushNotifications, Count
    <2> QED BY <1>1, <2>1, <2>2 DEF Channels
  <1>5. CASE ~(sendEmailNotification \/ sendWhatsAppNotification \/ sendPushNotifications)
    <2>1. copies' = copies
      BY <1>5 DEF DNext, Worker, dvars, process, resolveAirportCompletionLink, sendPushNotification,
                  revokeTokens, updateProgress, processEnds, DCrash, linkExpires, appRemoved,
                  registerToken, revokeToken
    <2> QED BY <2>1
  <1> QED BY <1>2, <1>3, <1>4, <1>5

(***************************************************************************)
(* A retried notification neither claims what it did not deliver nor       *)
(* repeats what it did, whatever the providers answer, the users do to     *)
(* their devices and the worker survives (NotificationProcessor.process,   *)
(* getSucceededChannels, sendPushNotification, BullMQ's retries).          *)
(***************************************************************************)
THEOREM DeliveryStaysSound == DSpec => DeliverySound
  <1>1. DInit => DeliveryInv
    BY DeliveryStartsSound
  <1>2. DeliveryInv /\ [DNext]_dvars => DeliveryInv'
    BY NoticeKept
  <1>3. DeliveryInv => DTypeOK /\ CompletedMeansDelivered /\ CopiesBounded /\ GivenUpForCause
    BY DeliveryPromised
  <1>4. DeliveryInv /\ [DNext]_dvars =>
            [\A a \in Addresses : copies'[a] # copies[a] =>
                (IF a \in DTokens THEN "PUSH" ELSE a) \notin dj.progress]_dvars
    BY ServesTheRest
  <1> QED BY <1>1, <1>2, <1>3, <1>4, PTL DEF DSpec, DeliverySound, SucceededNotRepeated

=============================================================================
