-------------------------- MODULE CarApprovalProofs --------------------------
(***************************************************************************)
(* TLAPS proofs about CarApproval, for any number of files, of open        *)
(* transactions, requests and faults.                                      *)
(*                                                                         *)
(* Every transaction that changes a file of the car holds the car's lock   *)
(* when it commits (LocksOk), and no two hold the same lock (Exclusive).   *)
(* So a verdict read under the lock is true until it is committed          *)
(* (VerdictInv), and the listing agrees with the files.                    *)
(***************************************************************************)
EXTENDS CarApproval, TLAPS

(* A review takes the lock of its file, then that of the car or the user.   *)
TwoLocks(x, p) ==
    \/ x.todo = {x.on, p} /\ x.held = {}
    \/ x.todo = {p} /\ x.held = {x.on}
    \/ x.todo = {} /\ x.held = {x.on, p}

LocksOk(x) ==
    /\ x.op = "idle" => x.todo = {} /\ x.held = {}
    /\ x.op = "cover" => x.on \in Images /\ x.todo \subseteq Images /\ x.held \subseteq Images
    /\ x.op = "reject" => x.on \in Files
    /\ x.op = "replace" => x.on \in CarFiles
    /\ x.op = "approve" => x.on \in Files \cup {TheCar}
    /\ x.op = "approve" /\ x.on = TheCar =>
          \/ x.todo = {TheCar} /\ x.held = {}
          \/ x.todo = {} /\ x.held = {TheCar}
    /\ x.op \in {"approve", "reject", "replace"} /\ x.on \in CarFiles => TwoLocks(x, TheCar)
    /\ x.op \in {"approve", "reject"} /\ x.on \in UserDocs =>
          TwoLocks(x, TheUser) \/ (x.op = "approve" /\ x.todo = {} /\ x.held = {x.on})

Exclusive == \A t, u \in Reviews : t # u => vtx[t].held \cap vtx[u].held = {}

LockInv == VTypeOK /\ (\A t \in Reviews : LocksOk(vtx[t])) /\ Exclusive

-----------------------------------------------------------------------------
(* Every step leaves the transactions as they are, or changes one of them   *)
(* in one of these ways.                                                    *)
Sets(t, x) == vtx' = [vtx EXCEPT ![t] = x]

(* A transaction that is not open has its type and no locks.                *)
LEMMA ClosedType == Closed \in TxRow /\ LocksOk(Closed)
BY VAssumption DEF Closed, Begun, TxRow, LocksOk, VRows

(* Changing one transaction keeps the locks exclusive if the locks it gains *)
(* are held by nobody else.                                                 *)
LEMMA OneChanges ==
    ASSUME LockInv, NEW t \in Reviews, NEW x \in TxRow, LocksOk(x), Sets(t, x),
           \A u \in Reviews \ {t} : x.held \cap vtx[u].held = {}
    PROVE  /\ vtx' \in [Reviews -> TxRow]
           /\ (\A u \in Reviews : LocksOk(vtx[u]))'
           /\ Exclusive'
<1>1. /\ vtx' \in [Reviews -> TxRow] /\ vtx'[t] = x
      /\ \A u \in Reviews \ {t} : vtx'[u] = vtx[u]
  BY DEF Sets, LockInv, VTypeOK
<1>2. \A u \in Reviews : LocksOk(vtx'[u])
  BY <1>1 DEF LockInv
<1>3. \A u, w \in Reviews : u # w => vtx'[u].held \cap vtx'[w].held = {}
  BY <1>1 DEF LockInv, Exclusive
<1> QED BY <1>1, <1>2, <1>3 DEF Exclusive

-----------------------------------------------------------------------------
(* Opening, locking and closing a transaction. *)
OpensWith(t, x) ==
    /\ Sets(t, x) /\ x \in TxRow /\ LocksOk(x) /\ x.held = {}

(* Opening a transaction keeps types and locks.                             *)
LEMMA OpenTx ==
    ASSUME LockInv, NEW t \in Reviews, NEW x, OpensWith(t, x)
    PROVE  /\ vtx' \in [Reviews -> TxRow]
           /\ (\A u \in Reviews : LocksOk(vtx[u]))'
           /\ Exclusive'
<1>1. \A u \in Reviews \ {t} : x.held \cap vtx[u].held = {}
  BY DEF OpensWith
<1> QED BY <1>1, OneChanges DEF OpensWith

(* So does closing one, which releases its locks.                           *)
LEMMA CloseTx ==
    ASSUME LockInv, NEW t \in Reviews, Sets(t, Closed)
    PROVE  /\ vtx' \in [Reviews -> TxRow]
           /\ (\A u \in Reviews : LocksOk(vtx[u]))'
           /\ Exclusive'
<1>1. Closed.held = {}
  BY DEF Closed, Begun
<1> QED BY <1>1, ClosedType, OpenTx DEF OpensWith

(* A decision about a file or a car opens with the locks of the row and its *)
(* parent.                                                                  *)
LEMMA OpensLocks ==
    ASSUME LockInv, NEW t \in Reviews, NEW op \in {"approve", "reject"}, NEW r \in VRows, NEW rows,
           Opens(t, op, r, rows),
           \/ r \in Files /\ rows = {r, Parent(r)}
           \/ op = "approve" /\ r = TheCar /\ rows = {TheCar}
    PROVE  /\ vtx' \in [Reviews -> TxRow]
           /\ (\A u \in Reviews : LocksOk(vtx[u]))'
           /\ Exclusive'
<1> DEFINE x == Begun(op, r, rows, 0, 0)
<1>1. Sets(t, x)
  BY DEF Opens, Sets
<1>2. x = [op |-> op, on |-> r, todo |-> rows, held |-> {}, verdict |-> "unread",
           old |-> 0, new |-> 0, clears |-> {}]
  BY DEF Begun
<1>3. x \in TxRow
  BY <1>2 DEF TxRow, VRows, Parent
<1>4. LocksOk(x)
  BY <1>2, VAssumption DEF LocksOk, TwoLocks, Parent, VRows, Files
<1> QED BY <1>1, <1>2, <1>3, <1>4, OpenTx DEF OpensWith

(* A replacement opens without locks.                                       *)
LEMMA BegunReplacement ==
    ASSUME NEW r \in CarFiles, NEW old \in Nat, NEW new \in Nat
    PROVE  /\ Begun("replace", r, {r, TheCar}, old, new) \in TxRow
           /\ LocksOk(Begun("replace", r, {r, TheCar}, old, new))
           /\ Begun("replace", r, {r, TheCar}, old, new).held = {}
<1>1. r \in VRows /\ {r, TheCar} \subseteq VRows
  BY DEF VRows, Files
<1> QED BY <1>1, VAssumption DEF Begun, TxRow, LocksOk, TwoLocks, Files

(* It keeps types and locks.                                                *)
LEMMA ReplacesLocks ==
    ASSUME LockInv, NEW t \in Reviews, NEW r \in CarFiles, Replaces(t, r)
    PROVE  /\ vtx' \in [Reviews -> TxRow]
           /\ (\A u \in Reviews : LocksOk(vtx[u]))'
           /\ Exclusive'
<1> DEFINE x == Begun("replace", r, {r, TheCar}, file[r].url, vops + 1)
<1>1. Sets(t, x)
  BY DEF Replaces, Sets
<1>2. file[r].url \in Nat /\ vops + 1 \in Nat
  BY VAssumption DEF LockInv, VTypeOK, Files, FileRow
<1>3. x \in TxRow /\ LocksOk(x) /\ x.held = {}
  BY <1>2, BegunReplacement
<1> HIDE DEF x
<1> QED BY <1>1, <1>3, OpenTx DEF OpensWith

(* So does a change of the cover image.                                     *)
LEMMA CoverLocks ==
    ASSUME LockInv, NEW t \in Reviews, NEW i \in Images, setCoverImage(t, i)
    PROVE  /\ vtx' \in [Reviews -> TxRow]
           /\ (\A u \in Reviews : LocksOk(vtx[u]))'
           /\ Exclusive'
<1> DEFINE x == Begun("cover", i, {}, 0, 0)
<1>1. Sets(t, x)
  BY DEF setCoverImage, Opens, Sets
<1>2. x = [op |-> "cover", on |-> i, todo |-> {}, held |-> {}, verdict |-> "unread",
           old |-> 0, new |-> 0, clears |-> {}]
  BY DEF Begun
<1>3. x \in TxRow /\ LocksOk(x)
  BY <1>2 DEF TxRow, VRows, Files, CarFiles, LocksOk
<1> QED BY <1>1, <1>2, <1>3, OpenTx DEF OpensWith

(* A row that is locked was free, so the locks stay exclusive.              *)
LEMMA LockRowLocks ==
    ASSUME LockInv, NEW t \in Reviews, NEW r \in VRows, lockRow(t, r)
    PROVE  /\ vtx' \in [Reviews -> TxRow]
           /\ (\A u \in Reviews : LocksOk(vtx[u]))'
           /\ Exclusive'
<1> DEFINE y == vtx[t]
           x == [y EXCEPT !.todo = @ \ {r}, !.held = @ \cup {r},
                          !.clears = IF y.op = "cover" /\ r # y.on
                                       THEN @ \cup (cover \cap {r}) ELSE @]
<1>1. y \in TxRow /\ LocksOk(y) /\ cover \subseteq Images
  BY DEF LockInv, VTypeOK
<1>2. Sets(t, x)
  BY DEF lockRow, Sets, LockInv, VTypeOK
<1>3. /\ x.op = y.op /\ x.on = y.on /\ x.todo = y.todo \ {r} /\ x.held = y.held \cup {r}
      /\ x.verdict = y.verdict
  BY <1>1 DEF TxRow
<1>4. x \in TxRow
  BY <1>1 DEF TxRow
<1>5. Turn(y, r)
  BY DEF lockRow
<1>6. LocksOk(x)
  BY <1>1, <1>3, <1>5, VAssumption DEF LocksOk, TwoLocks, Turn, Files, CarFiles
<1>7. \A u \in Reviews \ {t} : r \notin vtx[u].held
  BY <1>5 DEF lockRow, Waits
<1>8. \A u \in Reviews \ {t} : x.held \cap vtx[u].held = {}
  BY <1>3, <1>7 DEF LockInv, Exclusive
<1> QED BY <1>2, <1>4, <1>6, <1>8, OneChanges

(* The steps that only read keep the locks.                                 *)
LEMMA ReadLocks ==
    ASSUME LockInv, NEW t \in Reviews, clearOtherCovers(t) \/ readCarReview(t) \/ countUserDocs(t)
    PROVE  /\ vtx' \in [Reviews -> TxRow]
           /\ (\A u \in Reviews : LocksOk(vtx[u]))'
           /\ Exclusive'
<1> DEFINE y == vtx[t]
<1>1. y \in TxRow /\ LocksOk(y) /\ cover \subseteq Images
  BY DEF LockInv, VTypeOK
<1>2. CASE clearOtherCovers(t)
  <2> DEFINE x == [y EXCEPT !.todo = cover \cup {y.on}, !.verdict = "full"]
  <2>1. Sets(t, x)
    BY <1>2 DEF clearOtherCovers, Sets, LockInv, VTypeOK
  <2>2. x \in TxRow /\ x.held = y.held
    BY <1>1 DEF TxRow, VRows, Files, CarFiles
  <2>3. LocksOk(x)
    BY <1>1, <1>2 DEF LocksOk, clearOtherCovers, TxRow
  <2>4. \A u \in Reviews \ {t} : x.held \cap vtx[u].held = {}
    BY <2>2 DEF LockInv, Exclusive
  <2> HIDE DEF x
  <2> QED BY <2>1, <2>2, <2>3, <2>4, OneChanges
<1>3. CASE readCarReview(t)
  <2> DEFINE v == IF FullyReviewed(Written(y)) THEN "full" ELSE "open"
             x == [y EXCEPT !.verdict = v]
  <2>1. Sets(t, x)
    BY <1>3 DEF readCarReview, Sets, LockInv, VTypeOK
  <2>2. x \in TxRow /\ x.held = y.held
    BY <1>1 DEF TxRow
  <2>3. LocksOk(x)
    BY <1>1 DEF LocksOk, TwoLocks, TxRow
  <2>4. \A u \in Reviews \ {t} : x.held \cap vtx[u].held = {}
    BY <2>2 DEF LockInv, Exclusive
  <2> HIDE DEF x
  <2> QED BY <2>1, <2>2, <2>3, <2>4, OneChanges
<1>4. CASE countUserDocs(t)
  <2> DEFINE full == Resolved(Written(y), UserDocs)
             x == [y EXCEPT !.verdict = IF full THEN "full" ELSE "open",
                            !.todo = IF full THEN @ ELSE {}]
  <2>1. Sets(t, x)
    BY <1>4 DEF countUserDocs, Sets, LockInv, VTypeOK
  <2>2. x \in TxRow /\ x.held = y.held /\ x.op = y.op /\ x.on = y.on /\ x.todo \in {y.todo, {}}
    BY <1>1 DEF TxRow
  <2>3. y.op = "approve" /\ y.todo = {TheUser}
    BY <1>4 DEF countUserDocs
  <2>4. LocksOk(x)
    BY <1>1, <2>2, <2>3, VAssumption DEF LocksOk, TwoLocks, Files
  <2>5. \A u \in Reviews \ {t} : x.held \cap vtx[u].held = {}
    BY <2>2 DEF LockInv, Exclusive
  <2> HIDE DEF x
  <2> QED BY <2>1, <2>2, <2>4, <2>5, OneChanges
<1> QED BY <1>2, <1>3, <1>4

-----------------------------------------------------------------------------
(* The types of the other variables, action by action. *)
Types ==
    /\ file \in [Files -> FileRow]
    /\ cover \subseteq Images
    /\ listing \in {"PENDING", "APPROVED", "DELETED"}
    /\ chauffeur \in {"PENDING", "APPROVED", "REJECTED"}
    /\ objects \subseteq Files \X Nat
    /\ vops \in 0..VMaxOps /\ vfaults \in 0..VMaxFaults
    /\ unsure \subseteq Files /\ crossed \subseteq {"cover", "user"}

(* Writing a status to some rows leaves the others and all objects alone.   *)
LEMMA WithStatusType ==
    ASSUME file \in [Files -> FileRow], NEW rows, NEW s \in DocumentStatus
    PROVE  /\ WithStatus(rows, s) \in [Files -> FileRow]
           /\ \A r \in Files : WithStatus(rows, s)[r].status =
                                  IF r \in rows THEN s ELSE file[r].status
           /\ \A r \in Files : WithStatus(rows, s)[r].url = file[r].url
BY DEF WithStatus, FileRow

(* The steps that open a transaction keep the types.                        *)
LEMMA OpeningTypes ==
    ASSUME LockInv, NEW t \in Reviews,
           \/ \E r \in Files : reviewFile(t, "approve", r) \/ reviewFile(t, "reject", r)
           \/ \E r \in CarFiles : replaceRejectedFile(t, r)
           \/ \E i \in Images : setCoverImage(t, i)
           \/ approveCar(t)
    PROVE  Types'
<1>1. Types /\ vops < VMaxOps /\ vops' = vops + 1
      /\ UNCHANGED <<file, cover, listing, chauffeur, vfaults, unsure, crossed>>
  BY DEF LockInv, VTypeOK, Types, reviewFile, replaceRejectedFile, Replaces, setCoverImage,
         approveCar, Opens
<1>2. objects' \subseteq Files \X Nat
  <2>1. CASE UNCHANGED objects
    BY <1>1, <2>1 DEF Types
  <2>2. CASE \E r \in CarFiles : objects' = objects \cup {<<r, vops + 1>>}
    BY <1>1, <2>2, VAssumption DEF Types, Files
  <2> QED BY <2>1, <2>2 DEF reviewFile, replaceRejectedFile, setCoverImage, approveCar
<1>3. vops' \in 0..VMaxOps
  BY <1>1, VAssumption DEF Types
<1> QED BY <1>1, <1>2, <1>3 DEF Types

(* The steps inside a transaction keep the types.                           *)
LEMMA ReadingTypes ==
    ASSUME LockInv, NEW t \in Reviews,
           \/ \E r \in VRows : lockRow(t, r)
           \/ clearOtherCovers(t) \/ readCarReview(t) \/ countUserDocs(t) \/ refuseReplacement(t)
    PROVE  Types'
BY DEF LockInv, VTypeOK, Types, lockRow, clearOtherCovers, readCarReview, countUserDocs,
       refuseReplacement

(* What a decision has to do besides its own row.                           *)
LEMMA CrossesType ==
    ASSUME NEW t \in Reviews
    PROVE  Crosses(t) \subseteq {"cover", "user"}
BY DEF Crosses

(* A replacement stores its number, which is a natural number.              *)
LEMMA CommittingTypes ==
    ASSUME LockInv, NEW t \in Reviews,
           commitApproval(t) \/ commitRejection(t) \/ commitReplacement(t) \/ commitCover(t)
           \/ rollBack(t)
    PROVE  Types'
<1>1. Types /\ vtx[t] \in TxRow /\ LocksOk(vtx[t])
  BY DEF LockInv, VTypeOK, Types
<1>2. CASE commitApproval(t)
  <2>1. file' \in [Files -> FileRow]
    BY <1>1, <1>2, WithStatusType DEF commitApproval, Written, Types, DocumentStatus
  <2>2. crossed' \subseteq {"cover", "user"}
    BY <1>1, <1>2, CrossesType DEF commitApproval, Note, Types
  <2>3. listing' \in {"PENDING", "APPROVED", "DELETED"}
        /\ chauffeur' \in {"PENDING", "APPROVED", "REJECTED"}
    BY <1>1, <1>2 DEF commitApproval, Types
  <2> QED BY <1>1, <1>2, <2>1, <2>2, <2>3 DEF commitApproval, Note, Types
<1>3. CASE commitRejection(t)
  <2>1. file' \in [Files -> FileRow]
    BY <1>1, <1>3, WithStatusType DEF commitRejection, Types, DocumentStatus
  <2>2. crossed' \subseteq {"cover", "user"}
    BY <1>1, <1>3, CrossesType DEF commitRejection, Note, Types
  <2>3. listing' \in {"PENDING", "APPROVED", "DELETED"}
        /\ chauffeur' \in {"PENDING", "APPROVED", "REJECTED"}
        /\ cover' \subseteq Images
    BY <1>1, <1>3 DEF commitRejection, Types, CarDemoted, UserRejected, CoversLeft
  <2> QED BY <1>1, <1>3, <2>1, <2>2, <2>3 DEF commitRejection, Note, Types
<1>4. CASE commitReplacement(t)
  <2>1. vtx[t].on \in CarFiles /\ vtx[t].new \in Nat
    BY <1>1, <1>4 DEF commitReplacement, Done, LocksOk, TxRow
  <2>2. file' \in [Files -> FileRow]
    BY <1>1, <1>4, <2>1 DEF commitReplacement, Types, FileRow, DocumentStatus
  <2>3. crossed' \subseteq {"cover", "user"}
    BY <1>1, <1>4, CrossesType DEF commitReplacement, Types
  <2>4. listing' \in {"PENDING", "APPROVED", "DELETED"}
    BY <1>1, <1>4 DEF commitReplacement, Types, CarDemoted
  <2>5. objects' \subseteq Files \X Nat /\ unsure' \subseteq Files
    BY <1>1, <1>4, <2>1 DEF commitReplacement, Types, Files
  <2>6. vfaults' \in 0..VMaxFaults
    BY <1>1, <1>4, VAssumption DEF commitReplacement, Types
  <2> QED BY <1>1, <1>4, <2>2, <2>3, <2>4, <2>5, <2>6 DEF commitReplacement, Types
<1>5. CASE commitCover(t)
  <2>1. vtx[t].on \in Images
    BY <1>1, <1>5 DEF commitCover, Done, LocksOk
  <2>2. crossed' \subseteq {"cover", "user"}
    BY <1>1, <1>5, CrossesType DEF commitCover, Note, Types
  <2> QED BY <1>1, <1>5, <2>1, <2>2 DEF commitCover, Note, Types
<1>6. CASE rollBack(t)
  <2>1. vfaults' \in 0..VMaxFaults
    BY <1>1, <1>6, VAssumption DEF rollBack, Types
  <2> QED BY <1>1, <1>6, <2>1 DEF rollBack, Types
<1> QED BY <1>2, <1>3, <1>4, <1>5, <1>6

(* Creating a car and cleaning up after a failure keep the types.           *)
LEMMA CreationTypes ==
    ASSUME LockInv, persistUploadedCarAssets \/ cleanupFailedCreate
    PROVE  Types'
<1>1. Types
  BY DEF LockInv, VTypeOK, Types
<1>2. CASE persistUploadedCarAssets
  <2>1. file' \in [Files -> FileRow]
    BY <1>1, <1>2, WithStatusType DEF persistUploadedCarAssets, Types, DocumentStatus
  <2> QED BY <1>1, <1>2, <2>1 DEF persistUploadedCarAssets, Types
<1>3. CASE cleanupFailedCreate
  <2>1. vfaults' \in 0..VMaxFaults
    BY <1>1, <1>3, VAssumption DEF cleanupFailedCreate, Types
  <2> QED BY <1>1, <1>3, <2>1 DEF cleanupFailedCreate, Types
<1> QED BY <1>2, <1>3

-----------------------------------------------------------------------------
(* The transactions keep to their lock order, and the locks are exclusive.  *)
Opening(t) ==
    \/ \E r \in Files : reviewFile(t, "approve", r) \/ reviewFile(t, "reject", r)
    \/ \E r \in CarFiles : replaceRejectedFile(t, r)
    \/ \E i \in Images : setCoverImage(t, i)
    \/ approveCar(t)

Closing(t) ==
    \/ refuseReplacement(t) \/ commitApproval(t) \/ commitRejection(t)
    \/ commitReplacement(t) \/ commitCover(t) \/ rollBack(t)

(* The steps that open a transaction keep the locks.                        *)
LEMMA OpeningLocks ==
    ASSUME LockInv, NEW t \in Reviews, Opening(t)
    PROVE  /\ vtx' \in [Reviews -> TxRow]
           /\ (\A u \in Reviews : LocksOk(vtx[u]))'
           /\ Exclusive'
<1>1. CASE \E r \in Files : reviewFile(t, "approve", r) \/ reviewFile(t, "reject", r)
  <2>1. PICK r \in Files, op \in {"approve", "reject"} : Opens(t, op, r, {r, Parent(r)})
    BY <1>1 DEF reviewFile
  <2>2. r \in VRows
    BY DEF VRows
  <2> QED BY <2>1, <2>2, OpensLocks
<1>2. CASE \E r \in CarFiles : replaceRejectedFile(t, r)
  BY <1>2, ReplacesLocks DEF replaceRejectedFile
<1>3. CASE \E i \in Images : setCoverImage(t, i)
  BY <1>3, CoverLocks
<1>4. CASE approveCar(t)
  <2>1. TheCar \in VRows /\ Opens(t, "approve", TheCar, {TheCar})
    BY <1>4 DEF approveCar, VRows
  <2> QED BY <2>1, OpensLocks
<1> QED BY <1>1, <1>2, <1>3, <1>4 DEF Opening

(* The steps that end one keep the locks.                                   *)
LEMMA ClosingLocks ==
    ASSUME LockInv, NEW t \in Reviews, Closing(t)
    PROVE  /\ vtx' \in [Reviews -> TxRow]
           /\ (\A u \in Reviews : LocksOk(vtx[u]))'
           /\ Exclusive'
<1>1. Sets(t, Closed)
  BY DEF Closing, refuseReplacement, commitApproval, commitRejection, commitReplacement,
         commitCover, rollBack, Done, Sets
<1> QED BY <1>1, CloseTx

(* LockInv holds in the beginning.                                          *)
LEMMA LockInit == VInit => LockInv
<1> SUFFICES ASSUME VInit PROVE LockInv
  OBVIOUS
<1>1. vtx \in [Reviews -> TxRow] /\ \A t \in Reviews : LocksOk(vtx[t]) /\ vtx[t].held = {}
  BY ClosedType DEF VInit, VInitWith, Closed, Begun
<1>2. Types
  BY VAssumption DEF VInit, VInitWith, Types, FileRow, DocumentStatus
<1> QED BY <1>1, <1>2 DEF LockInv, VTypeOK, Types, Exclusive

(* Every step keeps it.                                                     *)
LEMMA LockStep == LockInv /\ [VNext]_vvars => LockInv'
<1> SUFFICES ASSUME LockInv, [VNext]_vvars PROVE LockInv'
  OBVIOUS
<1>0. ASSUME Types', vtx' \in [Reviews -> TxRow], (\A u \in Reviews : LocksOk(vtx[u]))',
             Exclusive'
      PROVE  LockInv'
  BY <1>0 DEF LockInv, VTypeOK, Types
<1>1. CASE persistUploadedCarAssets \/ cleanupFailedCreate
  <2>1. UNCHANGED vtx
    BY <1>1 DEF persistUploadedCarAssets, cleanupFailedCreate
  <2> QED BY <1>0, <1>1, <2>1, CreationTypes DEF LockInv, VTypeOK, Exclusive, LocksOk, TwoLocks
<1>2. ASSUME NEW t \in Reviews, Opening(t) PROVE LockInv'
  BY <1>0, <1>2, OpeningLocks, OpeningTypes DEF Opening
<1>3. ASSUME NEW t \in Reviews, NEW r \in VRows, lockRow(t, r) PROVE LockInv'
  BY <1>0, <1>3, LockRowLocks, ReadingTypes
<1>4. ASSUME NEW t \in Reviews, clearOtherCovers(t) \/ readCarReview(t) \/ countUserDocs(t)
      PROVE LockInv'
  BY <1>0, <1>4, ReadLocks, ReadingTypes
<1>5. ASSUME NEW t \in Reviews, Closing(t) PROVE LockInv'
  BY <1>0, <1>5, ClosingLocks, CommittingTypes, ReadingTypes DEF Closing
<1>6. CASE UNCHANGED vvars
  BY <1>6 DEF vvars, LockInv, VTypeOK, Exclusive, LocksOk, TwoLocks
<1> QED BY <1>1, <1>2, <1>3, <1>4, <1>5, <1>6 DEF VNext, Opening, Closing

(***************************************************************************)
(* Every reachable state is well typed, for any number of files and of     *)
(* open transactions (car-approval.service.ts).                            *)
(***************************************************************************)
THEOREM VettingTypes == VSpec => []VTypeOK
<1>1. LockInv => VTypeOK
  BY DEF LockInv
<1> QED BY LockInit, LockStep, <1>1, PTL DEF VSpec

-----------------------------------------------------------------------------
(* What an approval has read under the lock of the car is still so.         *)
VerdictInv ==
    \A t \in Reviews : vtx[t].op = "approve" /\ vtx[t].on \notin UserDocs =>
        /\ vtx[t].verdict = "full" => TheCar \in vtx[t].held /\ FullyReviewed(Written(vtx[t]))
        /\ vtx[t].verdict = "open" => TheCar \in vtx[t].held /\ ~FullyReviewed(Written(vtx[t]))

AgreeInv == VerdictInv /\ ListedIsReviewed /\ ReviewedIsListed

(* The review depends on the statuses of the car's files only.              *)
LEMMA ReviewDepends ==
    ASSUME NEW f, NEW g, \A r \in CarFiles : f[r].status = g[r].status
    PROVE  FullyReviewed(f) <=> FullyReviewed(g)
BY DEF FullyReviewed, Resolved, CarFiles

(* An approval never makes a reviewed car unreviewed.                       *)
LEMMA ApprovalHelps ==
    ASSUME LockInv, NEW x, FullyReviewed(file)
    PROVE  FullyReviewed(Written(x))
<1>1. \A r \in CarFiles : Written(x)[r].status \in {file[r].status, "APPROVED"}
  BY DEF Written, WithStatus, Files, LockInv, VTypeOK, FileRow
<1>2. Resolved(Written(x), CarFiles)
  BY <1>1 DEF FullyReviewed, Resolved, Unresolved
<1>3. \E i \in Images : Written(x)[i].status = "APPROVED"
  BY <1>1 DEF FullyReviewed, CarFiles
<1>4. \A d \in CarDocs : Written(x)[d].status = "APPROVED"
  BY <1>1 DEF FullyReviewed, CarFiles
<1> QED BY <1>2, <1>3, <1>4 DEF FullyReviewed

(* A step that changes no status of the car's files changes no verdict.     *)
LEMMA SameReview ==
    ASSUME LockInv, LockInv', \A r \in CarFiles : file'[r].status = file[r].status
    PROVE  /\ FullyReviewed(file') <=> FullyReviewed(file)
           /\ \A u \in Reviews : vtx'[u].on = vtx[u].on =>
                 (FullyReviewed(Written(vtx[u]))' <=> FullyReviewed(Written(vtx[u])))
<1>1. FullyReviewed(file') <=> FullyReviewed(file)
  BY ReviewDepends
<1>2. ASSUME NEW u \in Reviews, vtx'[u].on = vtx[u].on
      PROVE  FullyReviewed(Written(vtx[u]))' <=> FullyReviewed(Written(vtx[u]))
  <2> DEFINE f == Written(vtx[u])
             g == [r \in Files |-> IF r \in {vtx'[u].on}
                                     THEN [status |-> "APPROVED", url |-> file'[r].url]
                                     ELSE file'[r]]
  <2>1. FullyReviewed(Written(vtx[u]))' <=> FullyReviewed(g)
    BY DEF Written, WithStatus, FullyReviewed, Resolved
  <2>2. \A r \in CarFiles : f[r].status = g[r].status
    BY <1>2 DEF Written, WithStatus, Files
  <2>3. FullyReviewed(f) <=> FullyReviewed(g)
    BY <2>2, ReviewDepends
  <2> QED BY <2>1, <2>3
<1> QED BY <1>1, <1>2

(* A step that leaves the car's files and listing alone, and in which no    *)
(* transaction gets a verdict, keeps the agreement.                         *)
LEMMA QuietStep ==
    ASSUME LockInv, LockInv', AgreeInv, \A r \in CarFiles : file'[r].status = file[r].status,
           listing' = listing,
           \A u \in Reviews :
              \/ vtx'[u].op # "approve" \/ vtx'[u].on \in UserDocs \/ vtx'[u].verdict = "unread"
              \/ /\ vtx'[u].op = vtx[u].op /\ vtx'[u].on = vtx[u].on
                 /\ vtx'[u].verdict = vtx[u].verdict /\ vtx[u].held \subseteq vtx'[u].held
    PROVE  AgreeInv'
<1>1. ListedIsReviewed' /\ ReviewedIsListed'
  BY SameReview DEF AgreeInv, ListedIsReviewed, ReviewedIsListed
<1>2. ASSUME NEW u \in Reviews, vtx'[u].op = "approve", vtx'[u].on \notin UserDocs
      PROVE  /\ vtx'[u].verdict = "full" =>
                   TheCar \in vtx'[u].held /\ FullyReviewed(Written(vtx[u]))'
             /\ vtx'[u].verdict = "open" =>
                   TheCar \in vtx'[u].held /\ ~FullyReviewed(Written(vtx[u]))'
  <2>1. CASE vtx'[u].verdict = "unread"
    BY <2>1
  <2>2. CASE /\ vtx'[u].op = vtx[u].op /\ vtx'[u].on = vtx[u].on
             /\ vtx'[u].verdict = vtx[u].verdict /\ vtx[u].held \subseteq vtx'[u].held
    BY <1>2, <2>2, SameReview DEF AgreeInv, VerdictInv
  <2> QED BY <1>2, <2>1, <2>2
<1>3. VerdictInv'
  BY <1>2 DEF VerdictInv
<1> QED BY <1>1, <1>3 DEF AgreeInv

(* Nobody else has a verdict while a transaction holds the car.             *)
LEMMA NoOtherVerdict ==
    ASSUME LockInv, AgreeInv, NEW t \in Reviews, TheCar \in vtx[t].held,
           NEW u \in Reviews \ {t}, vtx[u].op = "approve", vtx[u].on \notin UserDocs
    PROVE  vtx[u].verdict = "unread"
<1>1. TheCar \notin vtx[u].held
  BY DEF LockInv, Exclusive
<1>2. vtx[u].verdict \in {"unread", "full", "open"}
  BY DEF LockInv, VTypeOK, TxRow
<1> QED BY <1>1, <1>2 DEF AgreeInv, VerdictInv

(* What closing leaves of the transactions.                                 *)
LEMMA ClosedShape ==
    ASSUME LockInv, NEW t \in Reviews, vtx' = [vtx EXCEPT ![t] = Closed]
    PROVE  /\ vtx'[t].op = "idle" /\ \A u \in Reviews \ {t} : vtx'[u] = vtx[u]
BY DEF LockInv, VTypeOK, Closed, Begun

(* A commit under the lock of the car leaves no verdict behind.             *)
LEMMA LastVerdict ==
    ASSUME LockInv, AgreeInv, NEW t \in Reviews, TheCar \in vtx[t].held,
           vtx' = [vtx EXCEPT ![t] = Closed]
    PROVE  VerdictInv'
<1>1. ASSUME NEW u \in Reviews, vtx'[u].op = "approve", vtx'[u].on \notin UserDocs
      PROVE  vtx'[u].verdict = "unread"
  <2>1. u # t /\ vtx'[u] = vtx[u]
    BY <1>1, ClosedShape
  <2> QED BY <1>1, <2>1, NoOtherVerdict
<1> QED BY <1>1 DEF VerdictInv

(* An opened transaction has no lock and no verdict.                        *)
LEMMA BegunShape ==
    ASSUME LockInv, NEW t \in Reviews, NEW op, NEW r, NEW rows, NEW old, NEW new,
           vtx' = [vtx EXCEPT ![t] = Begun(op, r, rows, old, new)]
    PROVE  /\ vtx'[t].verdict = "unread" /\ vtx'[t].held = {}
           /\ \A u \in Reviews \ {t} : vtx'[u] = vtx[u]
BY DEF LockInv, VTypeOK, Begun

(* What opening leaves of the transactions.                                 *)
LEMMA OpeningShape ==
    ASSUME LockInv, NEW t \in Reviews, Opening(t)
    PROVE  /\ vtx'[t].verdict = "unread" /\ vtx'[t].held = {}
           /\ \A u \in Reviews \ {t} : vtx'[u] = vtx[u]
<1>1. CASE \E r \in Files : reviewFile(t, "approve", r) \/ reviewFile(t, "reject", r)
  <2>1. PICK r \in Files, op \in {"approve", "reject"} : reviewFile(t, op, r)
    BY <1>1
  <2>2. vtx' = [vtx EXCEPT ![t] = Begun(op, r, {r, Parent(r)}, 0, 0)]
    BY <2>1 DEF reviewFile, Opens
  <2> QED BY <2>2, BegunShape
<1>2. CASE \E r \in CarFiles : replaceRejectedFile(t, r)
  <2>1. PICK r \in CarFiles : replaceRejectedFile(t, r)
    BY <1>2
  <2>2. vtx' = [vtx EXCEPT ![t] = Begun("replace", r, {r, TheCar}, file[r].url, vops + 1)]
    BY <2>1 DEF replaceRejectedFile, Replaces
  <2> QED BY <2>2, BegunShape
<1>3. CASE \E i \in Images : setCoverImage(t, i)
  <2>1. PICK i \in Images : setCoverImage(t, i)
    BY <1>3
  <2>2. vtx' = [vtx EXCEPT ![t] = Begun("cover", i, {}, 0, 0)]
    BY <2>1 DEF setCoverImage, Opens
  <2> QED BY <2>2, BegunShape
<1>4. CASE approveCar(t)
  BY <1>4, BegunShape DEF approveCar, Opens
<1> QED BY <1>1, <1>2, <1>3, <1>4 DEF Opening

(* Opening a transaction keeps listing and review in agreement.             *)
LEMMA OpeningAgrees ==
    ASSUME LockInv, LockInv', AgreeInv, NEW t \in Reviews, Opening(t)
    PROVE  AgreeInv'
<1>1. vtx'[t].verdict = "unread" /\ \A u \in Reviews \ {t} : vtx'[u] = vtx[u]
  BY OpeningShape
<1>2. UNCHANGED <<file, listing>>
  BY DEF Opening, reviewFile, replaceRejectedFile, Replaces, setCoverImage, approveCar
<1> QED BY <1>1, <1>2, QuietStep

(* So does taking a lock.                                                   *)
LEMMA LockingAgrees ==
    ASSUME LockInv, LockInv', AgreeInv, NEW t \in Reviews, NEW r \in VRows, lockRow(t, r)
    PROVE  AgreeInv'
<1>1. /\ vtx'[t].op = vtx[t].op /\ vtx'[t].on = vtx[t].on /\ vtx'[t].verdict = vtx[t].verdict
      /\ vtx[t].held \subseteq vtx'[t].held
      /\ \A u \in Reviews \ {t} : vtx'[u] = vtx[u]
  BY DEF lockRow, LockInv, VTypeOK, TxRow
<1>2. UNCHANGED <<file, listing>>
  BY DEF lockRow
<1> QED BY <1>1, <1>2, QuietStep

(* So does what a transaction reads, and the clearing of other covers.      *)
LEMMA ReadingAgrees ==
    ASSUME LockInv, LockInv', AgreeInv, NEW t \in Reviews,
           clearOtherCovers(t) \/ readCarReview(t) \/ countUserDocs(t)
    PROVE  AgreeInv'
<1>0. vtx[t] \in TxRow /\ LocksOk(vtx[t])
  BY DEF LockInv, VTypeOK
<1>1. CASE clearOtherCovers(t)
  <2>1. vtx'[t].op = "cover" /\ \A u \in Reviews \ {t} : vtx'[u] = vtx[u]
    BY <1>1 DEF clearOtherCovers, LockInv, VTypeOK, TxRow
  <2> QED BY <1>1, <2>1, QuietStep DEF clearOtherCovers
<1>2. CASE countUserDocs(t)
  <2>1. vtx[t].op = "approve" /\ vtx[t].todo = {TheUser}
    BY <1>2 DEF countUserDocs
  <2>2. vtx[t].on \in UserDocs
    BY <1>0, <2>1, VAssumption DEF LocksOk, TwoLocks, Files
  <2>3. vtx'[t].on \in UserDocs /\ \A u \in Reviews \ {t} : vtx'[u] = vtx[u]
    BY <1>2, <2>2 DEF countUserDocs, LockInv, VTypeOK, TxRow
  <2> QED BY <1>2, <2>3, QuietStep DEF countUserDocs
<1>3. CASE readCarReview(t)
  <2>1. /\ vtx'[t].op = vtx[t].op /\ vtx'[t].on = vtx[t].on /\ vtx'[t].held = vtx[t].held
        /\ vtx'[t].verdict = IF FullyReviewed(Written(vtx[t])) THEN "full" ELSE "open"
        /\ TheCar \in vtx[t].held
        /\ \A u \in Reviews \ {t} : vtx'[u] = vtx[u]
    BY <1>3 DEF readCarReview, LockInv, VTypeOK, TxRow
  <2>2. UNCHANGED <<file, listing>>
    BY <1>3 DEF readCarReview
  <2>3. ListedIsReviewed' /\ ReviewedIsListed'
    BY <2>2 DEF AgreeInv, ListedIsReviewed, ReviewedIsListed, FullyReviewed, Resolved
  <2>4. \A u \in Reviews : FullyReviewed(Written(vtx[u]))' <=> FullyReviewed(Written(vtx[u]))
    BY <2>1, <2>2, SameReview
  <2>5. VerdictInv'
    BY <2>1, <2>4 DEF AgreeInv, VerdictInv
  <2> QED BY <2>3, <2>5 DEF AgreeInv
<1> QED BY <1>1, <1>2, <1>3

(* Commits.  Those that touch the car's files hold its lock.                *)
LEMMA ClosingAgrees ==
    ASSUME LockInv, LockInv', AgreeInv, NEW t \in Reviews, Closing(t)
    PROVE  AgreeInv'
<1> DEFINE x == vtx[t]
<1>0. x \in TxRow /\ LocksOk(x) /\ vtx' = [vtx EXCEPT ![t] = Closed]
      /\ file \in [Files -> FileRow]
  BY DEF LockInv, VTypeOK, Closing, refuseReplacement, commitApproval, commitRejection,
         commitReplacement, commitCover, rollBack, Done
<1>1. vtx'[t].op = "idle" /\ \A u \in Reviews \ {t} : vtx'[u] = vtx[u]
  BY <1>0, ClosedShape
<1>2. ASSUME \A r \in CarFiles : file'[r].status = file[r].status, listing' = listing
      PROVE  AgreeInv'
  BY <1>1, <1>2, QuietStep
<1>3. CASE refuseReplacement(t) \/ rollBack(t) \/ commitCover(t)
  BY <1>2, <1>3 DEF refuseReplacement, rollBack, commitCover
<1>4. CASE commitApproval(t)
  <2>1. x.op = "approve" /\ x.todo = {} /\ x.verdict # "unread"
    BY <1>4 DEF commitApproval, Done
  <2>2. CASE x.on \in UserDocs
    <3>1. TheCar \notin x.held
      BY <1>0, <2>1, <2>2, VAssumption DEF LocksOk, TwoLocks, Files
    <3>2. \A r \in CarFiles : file'[r].status = file[r].status
      BY <1>0, <1>4, <2>2, VAssumption DEF commitApproval, Written, WithStatus, Files
    <3> QED BY <1>2, <1>4, <3>1, <3>2 DEF commitApproval
  <2>3. CASE x.on \notin UserDocs
    <3>1. TheCar \in x.held
      BY <1>0, <2>1, <2>3, VAssumption DEF LocksOk, TwoLocks, Files
    <3>2. VerdictInv'
      BY <1>0, <3>1, LastVerdict
    <3>3. file' = Written(x)
      BY <1>4 DEF commitApproval
    <3>4. CASE x.verdict = "full"
      <4>1. FullyReviewed(file') /\ listing' = "APPROVED"
        BY <1>4, <2>1, <2>3, <3>1, <3>3, <3>4 DEF AgreeInv, VerdictInv, commitApproval
      <4> QED BY <3>2, <4>1 DEF AgreeInv, ListedIsReviewed, ReviewedIsListed, FullyReviewed,
                                Resolved
    <3>5. CASE x.verdict = "open"
      <4>1. ~FullyReviewed(file') /\ listing' = listing
        BY <1>4, <2>1, <2>3, <3>1, <3>3, <3>5 DEF AgreeInv, VerdictInv, commitApproval
      <4>2. ~FullyReviewed(file)
        BY <3>3, <4>1, ApprovalHelps
      <4> QED BY <3>2, <4>1, <4>2 DEF AgreeInv, ListedIsReviewed, ReviewedIsListed
    <3> QED BY <1>0, <2>1, <3>4, <3>5 DEF TxRow
  <2> QED BY <2>2, <2>3
<1>5. CASE commitRejection(t)
  <2>1. x.op = "reject" /\ x.todo = {} /\ x.on \in Files
    BY <1>0, <1>5 DEF commitRejection, Done, LocksOk
  <2>2. CASE x.on \in UserDocs
    <3>1. TheCar \notin x.held
      BY <1>0, <2>1, <2>2, VAssumption DEF LocksOk, TwoLocks, Files
    <3>2. \A r \in CarFiles : file'[r].status = file[r].status
      BY <1>0, <1>5, <2>2, VAssumption DEF commitRejection, WithStatus, Files
    <3> QED BY <1>2, <1>5, <3>1, <3>2 DEF commitRejection, CarDemoted
  <2>3. CASE x.on \in CarFiles
    <3>1. TheCar \in x.held
      BY <1>0, <2>1, <2>3 DEF LocksOk, TwoLocks
    <3>2. VerdictInv'
      BY <1>0, <3>1, LastVerdict
    <3>3. file'[x.on].status = "REJECTED" /\ listing' = "PENDING"
      BY <1>5, <2>1, <3>1 DEF commitRejection, CarDemoted, WithStatus
    <3>4. ~FullyReviewed(file')
      BY <2>3, <3>3 DEF FullyReviewed, Resolved, Unresolved
    <3> QED BY <3>2, <3>3, <3>4 DEF AgreeInv, ListedIsReviewed, ReviewedIsListed
  <2> QED BY <2>1, <2>2, <2>3 DEF Files
<1>6. CASE commitReplacement(t)
  <2>1. x.op = "replace" /\ x.todo = {} /\ x.on \in CarFiles
    BY <1>0, <1>6 DEF commitReplacement, Done, LocksOk
  <2>2. TheCar \in x.held
    BY <1>0, <2>1 DEF LocksOk, TwoLocks
  <2>3. VerdictInv'
    BY <1>0, <2>2, LastVerdict
  <2>4. file'[x.on].status = "PENDING" /\ listing' = "PENDING"
    BY <1>0, <1>6, <2>1, <2>2 DEF commitReplacement, CarDemoted, Files
  <2>5. ~FullyReviewed(file')
    BY <2>1, <2>4 DEF FullyReviewed, Resolved, Unresolved
  <2> QED BY <2>3, <2>4, <2>5 DEF AgreeInv, ListedIsReviewed, ReviewedIsListed
<1> QED BY <1>3, <1>4, <1>5, <1>6 DEF Closing

(* Creation and its cleanup happen while nobody has the car.                *)
LEMMA CreationAgrees ==
    ASSUME LockInv, LockInv', AgreeInv, persistUploadedCarAssets \/ cleanupFailedCreate
    PROVE  AgreeInv'
<1>1. UNCHANGED vtx /\ \A t \in Reviews : TheCar \notin vtx[t].held
  BY DEF persistUploadedCarAssets, cleanupFailedCreate, CarFree
<1>2. VerdictInv'
  <2>1. ASSUME NEW t \in Reviews, vtx[t].op = "approve", vtx[t].on \notin UserDocs
        PROVE  vtx[t].verdict \notin {"full", "open"}
    BY <1>1, <2>1 DEF AgreeInv, VerdictInv
  <2> QED BY <1>1, <2>1 DEF VerdictInv
<1>3. \A i \in Images : file'[i].status # "APPROVED"
  <2>1. file \in [Files -> FileRow] /\ Images \subseteq CarFiles /\ CarFiles \subseteq Files
    BY DEF LockInv, VTypeOK, Files, CarFiles
  <2> QED BY <2>1 DEF persistUploadedCarAssets, cleanupFailedCreate, WithStatus
<1>4. listing' # "APPROVED" /\ ~FullyReviewed(file')
  BY <1>3 DEF persistUploadedCarAssets, cleanupFailedCreate, FullyReviewed
<1> QED BY <1>2, <1>4 DEF AgreeInv, ListedIsReviewed, ReviewedIsListed

(* AgreeInv holds in the beginning.                                         *)
LEMMA AgreeInit == VInit => AgreeInv
<1> SUFFICES ASSUME VInit PROVE AgreeInv
  OBVIOUS
<1>1. \A t \in Reviews : vtx[t].op = "idle"
  BY DEF VInit, VInitWith, Closed, Begun
<1>2. \A i \in Images : file[i].status # "APPROVED"
  BY DEF VInit, VInitWith, Files, CarFiles
<1> QED BY <1>1, <1>2 DEF AgreeInv, VerdictInv, ListedIsReviewed, ReviewedIsListed,
                          FullyReviewed, VInit, VInitWith

(* Every step keeps it.                                                     *)
LEMMA AgreeStep == LockInv /\ LockInv' /\ AgreeInv /\ [VNext]_vvars => AgreeInv'
<1> SUFFICES ASSUME LockInv, LockInv', AgreeInv, [VNext]_vvars PROVE AgreeInv'
  OBVIOUS
<1>1. CASE persistUploadedCarAssets \/ cleanupFailedCreate
  BY <1>1, CreationAgrees
<1>2. ASSUME NEW t \in Reviews, Opening(t) PROVE AgreeInv'
  BY <1>2, OpeningAgrees
<1>3. ASSUME NEW t \in Reviews, NEW r \in VRows, lockRow(t, r) PROVE AgreeInv'
  BY <1>3, LockingAgrees
<1>4. ASSUME NEW t \in Reviews, clearOtherCovers(t) \/ readCarReview(t) \/ countUserDocs(t)
      PROVE AgreeInv'
  BY <1>4, ReadingAgrees
<1>5. ASSUME NEW t \in Reviews, Closing(t) PROVE AgreeInv'
  BY <1>5, ClosingAgrees
<1>6. CASE UNCHANGED vvars
  <2>1. UNCHANGED <<file, listing, vtx>>
    BY <1>6 DEF vvars
  <2> QED BY <2>1, QuietStep
<1> QED BY <1>1, <1>2, <1>3, <1>4, <1>5, <1>6 DEF VNext, Opening, Closing

(***************************************************************************)
(* A listed car has everything approved: no approval that was read before  *)
(* a rejection or a replacement is written after it                        *)
(* (approveCarIfFullyReviewed).                                            *)
(***************************************************************************)
THEOREM ListedCarsReviewed == VSpec => []ListedIsReviewed
<1>1. LockInv /\ AgreeInv => ListedIsReviewed
  BY DEF AgreeInv
<1> QED BY LockInit, LockStep, AgreeInit, AgreeStep, <1>1, PTL DEF VSpec

(***************************************************************************)
(* A car whose files are all approved is listed, whoever approved the last *)
(* of them and how many approvals overlapped (approveImage,                *)
(* approveDocument, approveCar).                                           *)
(***************************************************************************)
THEOREM ReviewedCarsListed == VSpec => []ReviewedIsListed
<1>1. LockInv /\ AgreeInv => ReviewedIsListed
  BY DEF AgreeInv
<1> QED BY LockInit, LockStep, AgreeInit, AgreeStep, <1>1, PTL DEF VSpec

-----------------------------------------------------------------------------
(* Nobody waits for a circle.  Who holds the car or the user has all its    *)
(* locks; who waits for a file waits for one that lacks the car or the user *)
(* at most.                                                                 *)
LEMMA OuterHolderIsDone ==
    ASSUME LockInv, NEW t \in Moderating, NEW p \in {TheCar, TheUser}, p \in vtx[t].held
    PROVE  \A r \in VRows : ~Turn(vtx[t], r)
<1>1. LocksOk(vtx[t]) /\ vtx[t].op \in {"approve", "reject", "replace"}
  BY DEF LockInv, Moderating
<1>2. vtx[t].todo = {}
  BY <1>1, VAssumption DEF LocksOk, TwoLocks, Files
<1> QED BY <1>2 DEF Turn

(* A decision that holds a lock only waits for the car or the user.         *)
LEMMA HolderAsksOuter ==
    ASSUME LockInv, NEW t \in Moderating, NEW h \in vtx[t].held, NEW r \in VRows,
           Turn(vtx[t], r)
    PROVE  r \in {TheCar, TheUser}
<1>1. LocksOk(vtx[t]) /\ vtx[t].op \in {"approve", "reject", "replace"}
  BY DEF LockInv, Moderating
<1>2. r \in vtx[t].todo
  BY DEF Turn
<1> QED BY <1>1, <1>2, VAssumption DEF LocksOk, TwoLocks, Files

(***************************************************************************)
(* Approvals, rejections and replacements never deadlock with each other,  *)
(* however many are open (the lock order of rejectImage, rejectDocument    *)
(* and replaceRejectedFile).                                               *)
(***************************************************************************)
THEOREM NoLockCycle == VSpec => []SomebodyGoesOn
<1>1. LockInv => SomebodyGoesOn
  <2> SUFFICES ASSUME LockInv, NEW S \in SUBSET Moderating, S # {}
               PROVE  \E t \in S : \A u \in S, r \in VRows : ~Waits(t, u, r)
    BY DEF SomebodyGoesOn
  <2>1. CASE \E t \in S, p \in {TheCar, TheUser} : p \in vtx[t].held
    <3>1. PICK t \in S, p \in {TheCar, TheUser} : p \in vtx[t].held
      BY <2>1
    <3>2. \A r \in VRows : ~Turn(vtx[t], r)
      BY <3>1, OuterHolderIsDone
    <3> QED BY <3>2 DEF Waits
  <2>2. CASE /\ \A u \in S, p \in {TheCar, TheUser} : p \notin vtx[u].held
             /\ \E t \in S : vtx[t].held # {}
    <3>1. PICK t \in S : vtx[t].held # {}
      BY <2>2
    <3>2. PICK h \in vtx[t].held : TRUE
      BY <3>1
    <3>3. \A r \in VRows : Turn(vtx[t], r) => r \in {TheCar, TheUser}
      BY <3>1, <3>2, HolderAsksOuter
    <3> QED BY <2>2, <3>3 DEF Waits
  <2>3. CASE \A u \in S : vtx[u].held = {}
    BY <2>3 DEF Waits
  <2> QED BY <2>1, <2>2, <2>3
<1> QED BY LockInit, LockStep, <1>1, PTL DEF VSpec

-----------------------------------------------------------------------------
(* The row a replacement has locked is a rejected one.                      *)
RejectedInv ==
    \A t \in Reviews : vtx[t].op = "replace" /\ vtx[t].on \in vtx[t].held =>
        file[vtx[t].on].status = "REJECTED"

(* A file changes under its lock only.                                      *)
LEMMA ChangesUnderLock ==
    ASSUME LockInv, NEW t \in Reviews, Closing(t), NEW r \in Files, file'[r] # file[r]
    PROVE  r = vtx[t].on /\ r \in vtx[t].held
<1>0. vtx[t] \in TxRow /\ LocksOk(vtx[t]) /\ file \in [Files -> FileRow]
  BY DEF LockInv, VTypeOK
<1>1. r = vtx[t].on /\ vtx[t].todo = {} /\ vtx[t].op \in {"approve", "reject", "replace"}
  BY <1>0 DEF Closing, refuseReplacement, commitApproval, commitRejection, commitReplacement,
              commitCover, rollBack, Done, Written, WithStatus
<1> QED BY <1>0, <1>1, VAssumption DEF LocksOk, TwoLocks, Files

(* RejectedInv holds in the beginning.                                      *)
LEMMA RejectedInit == VInit => RejectedInv
BY DEF VInit, VInitWith, RejectedInv, Closed, Begun

(* A step that changes neither files nor locks of replacements.             *)
LEMMA RejectedKept ==
    ASSUME RejectedInv, UNCHANGED file,
           \A u \in Reviews : \/ vtx'[u].op # "replace" \/ vtx'[u].held = {}
                              \/ /\ vtx'[u].op = vtx[u].op /\ vtx'[u].on = vtx[u].on
                                 /\ vtx'[u].held = vtx[u].held
    PROVE  RejectedInv'
BY DEF RejectedInv

(* Every step keeps it.                                                     *)
LEMMA RejectedStep == LockInv /\ RejectedInv /\ [VNext]_vvars => RejectedInv'
<1> SUFFICES ASSUME LockInv, RejectedInv, [VNext]_vvars PROVE RejectedInv'
  OBVIOUS
<1>0. file \in [Files -> FileRow] /\ vtx \in [Reviews -> TxRow] /\ \A t \in Reviews : LocksOk(vtx[t])
  BY DEF LockInv, VTypeOK
<1>1. CASE persistUploadedCarAssets
  <2>1. UNCHANGED vtx /\ \A r \in CarFiles : file[r].status = "NONE"
    BY <1>1 DEF persistUploadedCarAssets
  <2>2. \A t \in Reviews : ~(vtx[t].op = "replace" /\ vtx[t].on \in vtx[t].held)
    BY <1>0, <2>1 DEF RejectedInv, LocksOk
  <2> QED BY <2>1, <2>2 DEF RejectedInv
<1>2. CASE cleanupFailedCreate
  BY <1>2, RejectedKept DEF cleanupFailedCreate
<1>3. ASSUME NEW t \in Reviews, Opening(t) PROVE RejectedInv'
  <2>1. UNCHANGED file
    BY <1>3 DEF Opening, reviewFile, replaceRejectedFile, Replaces, setCoverImage, approveCar
  <2>2. vtx'[t].held = {} /\ \A u \in Reviews \ {t} : vtx'[u] = vtx[u]
    BY <1>3, OpeningShape
  <2> QED BY <2>1, <2>2, RejectedKept
<1>4. ASSUME NEW t \in Reviews, NEW r \in VRows, lockRow(t, r) PROVE RejectedInv'
  <2>1. /\ vtx'[t].op = vtx[t].op /\ vtx'[t].on = vtx[t].on
        /\ vtx'[t].held = vtx[t].held \cup {r}
        /\ \A u \in Reviews \ {t} : vtx'[u] = vtx[u]
    BY <1>0, <1>4 DEF lockRow, TxRow
  <2>2. UNCHANGED file /\ (vtx[t].op = "replace" /\ r = vtx[t].on => file[r].status = "REJECTED")
    BY <1>4 DEF lockRow, Finds
  <2> QED BY <2>1, <2>2 DEF RejectedInv
<1>5. ASSUME NEW t \in Reviews, clearOtherCovers(t) \/ readCarReview(t) \/ countUserDocs(t)
      PROVE RejectedInv'
  <2>1. vtx'[t].op # "replace" /\ \A u \in Reviews \ {t} : vtx'[u] = vtx[u]
    BY <1>0, <1>5 DEF clearOtherCovers, readCarReview, countUserDocs, TxRow
  <2>2. UNCHANGED file
    BY <1>5 DEF clearOtherCovers, readCarReview, countUserDocs
  <2> QED BY <2>1, <2>2, RejectedKept
<1>6. ASSUME NEW t \in Reviews, Closing(t) PROVE RejectedInv'
  <2>1. vtx' = [vtx EXCEPT ![t] = Closed]
    BY <1>6 DEF Closing, refuseReplacement, commitApproval, commitRejection,
                commitReplacement, commitCover, rollBack, Done
  <2>2. vtx'[t].op = "idle" /\ \A u \in Reviews \ {t} : vtx'[u] = vtx[u]
    BY <2>1, ClosedShape
  <2>3. ASSUME NEW u \in Reviews \ {t}, vtx[u].op = "replace", vtx[u].on \in vtx[u].held
        PROVE  file'[vtx[u].on] = file[vtx[u].on]
    <3>1. vtx[u].on \in Files
      BY <1>0, <2>3 DEF LocksOk, Files
    <3>2. vtx[u].on \notin vtx[t].held
      BY <2>3 DEF LockInv, Exclusive
    <3> QED BY <1>6, <3>1, <3>2, ChangesUnderLock
  <2> QED BY <2>2, <2>3 DEF RejectedInv
<1>7. CASE UNCHANGED vvars
  BY <1>7, RejectedKept DEF vvars
<1> QED BY <1>1, <1>2, <1>3, <1>4, <1>5, <1>6, <1>7 DEF VNext, Opening, Closing

(* A step leaves an approved file approved, or rejects it.                  *)
LEMMA ApprovalKept ==
    ASSUME LockInv, RejectedInv, VNext, NEW r \in Files, file[r].status = "APPROVED"
    PROVE  file'[r].status \in {"APPROVED", "REJECTED"}
<1>0. file \in [Files -> FileRow] /\ vtx \in [Reviews -> TxRow] /\ \A t \in Reviews : LocksOk(vtx[t])
  BY DEF LockInv, VTypeOK
<1>1. CASE UNCHANGED file
  BY <1>1
<1>2. CASE persistUploadedCarAssets
  BY <1>0, <1>2 DEF persistUploadedCarAssets, WithStatus
<1>3. ASSUME NEW t \in Reviews, commitApproval(t) PROVE file'[r].status \in {"APPROVED", "REJECTED"}
  BY <1>0, <1>3 DEF commitApproval, Written, WithStatus
<1>4. ASSUME NEW t \in Reviews, commitRejection(t) PROVE file'[r].status \in {"APPROVED", "REJECTED"}
  BY <1>0, <1>4 DEF commitRejection, WithStatus
<1>5. ASSUME NEW t \in Reviews, commitReplacement(t)
      PROVE file'[r].status \in {"APPROVED", "REJECTED"}
  <2>1. vtx[t].op = "replace" /\ vtx[t].todo = {} /\ vtx[t].on \in CarFiles
    BY <1>0, <1>5 DEF commitReplacement, Done, LocksOk
  <2>2. vtx[t].on \in vtx[t].held
    BY <1>0, <2>1 DEF LocksOk, TwoLocks
  <2>3. file[vtx[t].on].status = "REJECTED"
    BY <2>1, <2>2 DEF RejectedInv
  <2>4. r # vtx[t].on
    BY <2>3
  <2> QED BY <1>0, <1>5, <2>4 DEF commitReplacement
<1>6. ~UNCHANGED file => persistUploadedCarAssets \/ \E t \in Reviews :
                            commitApproval(t) \/ commitRejection(t) \/ commitReplacement(t)
  BY DEF VNext, cleanupFailedCreate, reviewFile, replaceRejectedFile, Replaces, setCoverImage,
         approveCar, clearOtherCovers, lockRow, refuseReplacement, readCarReview,
         countUserDocs, commitCover, rollBack
<1> QED BY <1>1, <1>2, <1>3, <1>4, <1>5, <1>6

(***************************************************************************)
(* An approved file changes by a rejection only, even if a replacement of  *)
(* its rejected version was under way when it was approved                 *)
(* (replaceRejectedFile).                                                  *)
(***************************************************************************)
THEOREM ApprovalsStand == VSpec => ApprovalStands
<1>1. LockInv /\ RejectedInv /\ [VNext]_vvars =>
        [\A r \in Files : file[r].status = "APPROVED" =>
            file'[r].status \in {"APPROVED", "REJECTED"}]_vvars
  BY ApprovalKept
<1> QED BY LockInit, LockStep, RejectedInit, RejectedStep, <1>1, PTL DEF VSpec, ApprovalStands

-----------------------------------------------------------------------------
(* Stored objects.  A reviewed file has been uploaded, and a deleted car has *)
(* none; the objects of open replacements are numbered apart from each       *)
(* other and from what the rows name.                                        *)
Replacing == {t \in Reviews : vtx[t].op = "replace"}

UploadInv ==
    /\ listing = "DELETED" => \A r \in CarFiles : file[r].status = "NONE"
    /\ \A t \in Reviews : vtx[t].op \in {"approve", "reject", "replace"} /\ vtx[t].on \in CarFiles
                            => file[vtx[t].on].status # "NONE"

NumberInv ==
    /\ \A r \in Files : file[r].url <= vops
    /\ \A t \in Replacing : vtx[t].new <= vops /\ vtx[t].old <= vops
    /\ \A t \in Replacing, r \in Files : file[r].url # vtx[t].new
    /\ \A t, u \in Replacing : vtx[u].old # vtx[t].new
    /\ \A t, u \in Replacing : t # u => vtx[u].new # vtx[t].new

StoreInv ==
    /\ UploadInv /\ NumberInv /\ FilesKept
    /\ \A t \in Replacing : <<vtx[t].on, vtx[t].new>> \in objects

(* StoreInv holds in the beginning.                                         *)
LEMMA StoreInit == VInit => StoreInv
<1> SUFFICES ASSUME VInit PROVE StoreInv
  OBVIOUS
<1>1. \A t \in Reviews : vtx[t].op = "idle"
  BY DEF VInit, VInitWith, Closed, Begun
<1>2. Replacing = {}
  BY <1>1 DEF Replacing
<1>3. \A r \in Files : file[r].url = 0 /\ <<r, file[r].url>> \in objects
  BY DEF VInit, VInitWith
<1>4. UploadInv
  BY <1>1 DEF UploadInv, VInit, VInitWith
<1>5. NumberInv
  BY <1>2, <1>3 DEF NumberInv, VInit, VInitWith
<1>6. FilesKept
  BY <1>3 DEF FilesKept, Files
<1> QED BY <1>2, <1>4, <1>5, <1>6 DEF StoreInv

(* A step in which transactions close or go on.                             *)
GoesOn(u) ==
    \/ vtx'[u].op \in {"idle", "cover"}
    \/ /\ vtx'[u].op = vtx[u].op /\ vtx'[u].on = vtx[u].on
       /\ vtx'[u].old = vtx[u].old /\ vtx'[u].new = vtx[u].new

(* Replacements under way keep their row and objects while others move.     *)
LEMMA StillReplacing ==
    ASSUME \A u \in Reviews : GoesOn(u)
    PROVE  /\ Replacing' \subseteq Replacing
           /\ \A u \in Replacing' : /\ vtx'[u].on = vtx[u].on /\ vtx'[u].old = vtx[u].old
                                     /\ vtx'[u].new = vtx[u].new
BY DEF GoesOn, Replacing

(* Steps that keep the numbers of the files and the objects that are named. *)
LEMMA StoreKept ==
    ASSUME StoreInv, \A u \in Reviews : GoesOn(u), UNCHANGED vops,
           \A r \in Files : file'[r].url = file[r].url,
           \A r \in CarFiles : file[r].status # "NONE" => file'[r].status # "NONE",
           unsure' = unsure,
           listing' = "DELETED" => listing = "DELETED" /\ \A r \in CarFiles : file'[r].status = "NONE",
           listing = "DELETED" => listing' = "DELETED",
           \A r \in Files : <<r, file[r].url>> \in objects => <<r, file[r].url>> \in objects',
           \A u \in Replacing' : <<vtx[u].on, vtx[u].new>> \in objects'
    PROVE  StoreInv'
<1>1. /\ Replacing' \subseteq Replacing
      /\ \A u \in Replacing' : /\ vtx'[u].on = vtx[u].on /\ vtx'[u].old = vtx[u].old
                                /\ vtx'[u].new = vtx[u].new
  BY StillReplacing
<1>2. UploadInv'
  BY DEF StoreInv, UploadInv, GoesOn
<1>3. NumberInv'
  <2>1. NumberInv
    BY DEF StoreInv
  <2>2. \A r \in Files : file'[r].url <= vops'
    BY <2>1 DEF NumberInv
  <2>3. \A t \in Replacing' : vtx'[t].new <= vops' /\ vtx'[t].old <= vops'
    BY <1>1, <2>1 DEF NumberInv
  <2>4. \A t \in Replacing', r \in Files : file'[r].url # vtx'[t].new
    BY <1>1, <2>1 DEF NumberInv
  <2>5. \A t, u \in Replacing' : vtx'[u].old # vtx'[t].new /\ (t # u => vtx'[u].new # vtx'[t].new)
    BY <1>1, <2>1 DEF NumberInv
  <2> QED BY <2>2, <2>3, <2>4, <2>5 DEF NumberInv
<1>4. FilesKept'
  BY DEF StoreInv, FilesKept, Files
<1>5. \A t \in Replacing' : <<vtx'[t].on, vtx'[t].new>> \in objects'
  BY <1>1
<1> QED BY <1>2, <1>3, <1>4, <1>5 DEF StoreInv

(* Locks and reads inside a transaction keep the objects.                   *)
LEMMA LockingKeepsFiles ==
    ASSUME LockInv, StoreInv, NEW t \in Reviews,
           \/ \E r \in VRows : lockRow(t, r)
           \/ clearOtherCovers(t) \/ readCarReview(t) \/ countUserDocs(t)
    PROVE  StoreInv'
<1>1. vtx \in [Reviews -> TxRow]
  BY DEF LockInv, VTypeOK
<1>2. \A u \in Reviews : GoesOn(u)
  <2>1. CASE \E r \in VRows : lockRow(t, r)
    <3>1. PICK r \in VRows : lockRow(t, r)
      BY <2>1
    <3>2. /\ vtx'[t].op = vtx[t].op /\ vtx'[t].on = vtx[t].on /\ vtx'[t].old = vtx[t].old
          /\ vtx'[t].new = vtx[t].new /\ \A u \in Reviews \ {t} : vtx'[u] = vtx[u]
      BY <1>1, <3>1 DEF lockRow, TxRow
    <3> QED BY <3>2 DEF GoesOn
  <2>2. CASE clearOtherCovers(t) \/ readCarReview(t)
    BY <1>1, <2>2 DEF clearOtherCovers, readCarReview, GoesOn, TxRow
  <2>3. CASE countUserDocs(t)
    BY <1>1, <2>3 DEF countUserDocs, GoesOn, TxRow
  <2> QED BY <2>1, <2>2, <2>3
<1>3. UNCHANGED <<file, listing, objects, vops, unsure>>
  BY DEF lockRow, clearOtherCovers, readCarReview, countUserDocs
<1>4. \A u \in Replacing' : <<vtx[u].on, vtx[u].new>> \in objects'
  BY <1>2, <1>3, StillReplacing DEF StoreInv
<1> QED BY <1>2, <1>3, <1>4, StoreKept DEF StoreInv, UploadInv

(* A transaction that closes may remove the object it stored.               *)
LEMMA FailingKeepsFiles ==
    ASSUME LockInv, StoreInv, NEW t \in Reviews,
           refuseReplacement(t) \/ rollBack(t) \/ commitCover(t)
    PROVE  StoreInv'
<1>1. vtx' = [vtx EXCEPT ![t] = Closed]
  BY DEF refuseReplacement, rollBack, commitCover, Done
<1>2. vtx'[t].op = "idle" /\ \A u \in Reviews \ {t} : vtx'[u] = vtx[u]
  BY <1>1, ClosedShape
<1>3. UNCHANGED <<file, listing, vops, unsure>>
  BY DEF refuseReplacement, rollBack, commitCover, Note
<1>4. objects' = objects \/ (t \in Replacing /\ objects' = objects \ {<<vtx[t].on, vtx[t].new>>})
  <2>1. CASE refuseReplacement(t)
    <3>1. vtx[t].op = "replace"
      BY <2>1 DEF refuseReplacement, Finds
    <3> QED BY <2>1, <3>1 DEF refuseReplacement, Replacing
  <2>2. CASE rollBack(t)
    BY <2>2 DEF rollBack, Replacing
  <2>3. CASE commitCover(t)
    BY <2>3 DEF commitCover
  <2> QED BY <2>1, <2>2, <2>3
<1>5. \A u \in Reviews : GoesOn(u)
  BY <1>2 DEF GoesOn
<1>6. t \notin Replacing' /\ Replacing' \subseteq Replacing
  BY <1>2, <1>5, StillReplacing DEF Replacing
<1>7. \A r \in Files : <<r, file[r].url>> \in objects => <<r, file[r].url>> \in objects'
  BY <1>4 DEF StoreInv, NumberInv
<1>8. \A u \in Replacing' : <<vtx[u].on, vtx[u].new>> \in objects'
  BY <1>4, <1>6 DEF StoreInv, NumberInv
<1> QED BY <1>3, <1>5, <1>7, <1>8, StoreKept DEF StoreInv, UploadInv

(* Decisions keep them.                                                     *)
LEMMA DecisionKeepsFiles ==
    ASSUME LockInv, AgreeInv, StoreInv, NEW t \in Reviews, commitApproval(t) \/ commitRejection(t)
    PROVE  StoreInv'
<1> DEFINE x == vtx[t]
<1>0. file \in [Files -> FileRow] /\ x \in TxRow /\ LocksOk(x)
  BY DEF LockInv, VTypeOK
<1>1. vtx' = [vtx EXCEPT ![t] = Closed] /\ x.op \in {"approve", "reject"} /\ x.todo = {}
  BY DEF commitApproval, commitRejection, Done
<1>2. vtx'[t].op = "idle" /\ \A u \in Reviews \ {t} : vtx'[u] = vtx[u]
  BY <1>1, ClosedShape
<1>3. UNCHANGED <<objects, vops, unsure>>
  BY DEF commitApproval, commitRejection, Note
<1>4. \A u \in Reviews : GoesOn(u)
  BY <1>2 DEF GoesOn
<1>5. /\ \A r \in Files : file'[r].url = file[r].url
      /\ \A r \in Files : r # x.on => file'[r] = file[r]
      /\ \A r \in Files : file[r].status # "NONE" => file'[r].status # "NONE"
  BY <1>0 DEF commitApproval, commitRejection, Written, WithStatus
<1>6. listing = "DELETED" => x.on \notin CarFiles
  BY <1>1 DEF StoreInv, UploadInv
<1>7. listing = "DELETED" => ~FullyReviewed(Written(x))
  <2> SUFFICES ASSUME listing = "DELETED" PROVE ~FullyReviewed(Written(x))
    OBVIOUS
  <2>1. \A i \in Images : Written(x)[i].status = file[i].status
    BY <1>0, <1>6 DEF Written, WithStatus, CarFiles, Files
  <2>2. \A i \in Images : file[i].status = "NONE"
    BY DEF StoreInv, UploadInv, CarFiles
  <2> QED BY <2>1, <2>2 DEF FullyReviewed
<1>8. listing = "DELETED" => listing' = "DELETED"
  <2>1. CASE commitApproval(t)
    <3>1. x.op = "approve"
      BY <2>1 DEF commitApproval, Done
    <3>2. x.on \in UserDocs => TheCar \notin x.held
      BY <1>0, <1>1, <3>1, VAssumption DEF LocksOk, TwoLocks, Files
    <3> QED BY <1>7, <2>1, <3>1, <3>2 DEF commitApproval, AgreeInv, VerdictInv
  <2>2. CASE commitRejection(t)
    <3>1. x.op = "reject" /\ x.on \in Files
      BY <1>0, <2>2 DEF commitRejection, Done, LocksOk
    <3>2. x.on \in UserDocs => TheCar \notin x.held
      BY <1>0, <1>1, <3>1, VAssumption DEF LocksOk, TwoLocks, Files
    <3> QED BY <1>6, <2>2, <3>1, <3>2 DEF commitRejection, CarDemoted, Files
  <2> QED BY <2>1, <2>2
<1>9. listing' = "DELETED" => listing = "DELETED" /\ \A r \in CarFiles : file'[r].status = "NONE"
  <2>1. listing' = "DELETED" => listing = "DELETED"
    BY DEF commitApproval, commitRejection, CarDemoted
  <2> QED BY <1>5, <1>6, <2>1 DEF StoreInv, UploadInv, Files
<1>10. \A u \in Replacing' : <<vtx[u].on, vtx[u].new>> \in objects'
  BY <1>3, <1>4, StillReplacing DEF StoreInv
<1> QED BY <1>3, <1>4, <1>5, <1>8, <1>9, <1>10, StoreKept DEF Files

(* Creating a car and cleaning up after a failure keep them.                *)
LEMMA CreationKeepsFiles ==
    ASSUME LockInv, StoreInv, persistUploadedCarAssets \/ cleanupFailedCreate
    PROVE  StoreInv'
<1>0. file \in [Files -> FileRow] /\ \A t \in Reviews : LocksOk(vtx[t])
  BY DEF LockInv, VTypeOK
<1>1. CASE persistUploadedCarAssets
  <2>1. /\ UNCHANGED <<vtx, listing, objects, vops, unsure>> /\ listing = "PENDING"
        /\ \A r \in Files : file'[r].url = file[r].url
        /\ \A r \in Files : file[r].status # "NONE" => file'[r].status # "NONE"
    BY <1>0, <1>1 DEF persistUploadedCarAssets, WithStatus
  <2>2. (\A u \in Reviews : GoesOn(u)) /\ Replacing' = Replacing
    BY <2>1 DEF GoesOn, Replacing
  <2> QED BY <2>1, <2>2, StoreKept DEF StoreInv, Files
<1>2. CASE cleanupFailedCreate
  <2>1. /\ UNCHANGED <<vtx, file, vops>> /\ listing' = "DELETED"
        /\ \A r \in CarFiles : file[r].status = "NONE"
    BY <1>2 DEF cleanupFailedCreate
  <2>2. Replacing = {} /\ Replacing' = {}
    BY <1>0, <2>1 DEF StoreInv, UploadInv, Replacing, LocksOk
  <2>3. UploadInv'
    BY <2>1 DEF StoreInv, UploadInv
  <2>4. NumberInv'
    BY <2>1, <2>2 DEF StoreInv, NumberInv
  <2> QED BY <2>1, <2>2, <2>3, <2>4 DEF StoreInv, FilesKept
<1> QED BY <1>1, <1>2

(* The committed replacement's number is named by the row from now on.      *)
LEMMA ReplacementKeepsFiles ==
    ASSUME LockInv, StoreInv, NEW t \in Reviews, commitReplacement(t)
    PROVE  StoreInv'
<1> DEFINE x == vtx[t]
<1>0. file \in [Files -> FileRow] /\ x \in TxRow /\ LocksOk(x)
  BY DEF LockInv, VTypeOK
<1>1. vtx' = [vtx EXCEPT ![t] = Closed] /\ x.op = "replace" /\ x.on \in CarFiles /\ t \in Replacing
      /\ x.on \in Files
  BY <1>0 DEF commitReplacement, Done, LocksOk, Replacing, Files
<1>2. vtx'[t].op = "idle" /\ \A u \in Reviews \ {t} : vtx'[u] = vtx[u]
  BY <1>1, ClosedShape
<1>3. /\ file' = [file EXCEPT ![x.on] = [status |-> "PENDING", url |-> x.new]]
      /\ UNCHANGED vops /\ TheCar \in x.held
      /\ listing' = "PENDING"
  BY <1>0, <1>1 DEF commitReplacement, Done, LocksOk, TwoLocks, CarDemoted
<1>4. /\ file'[x.on].url = x.new /\ file'[x.on].status = "PENDING"
      /\ \A r \in Files : r # x.on => file'[r] = file[r]
  BY <1>0, <1>1, <1>3
<1>5. Replacing' = Replacing \ {t} /\ \A u \in Replacing' : u # t /\ vtx'[u] = vtx[u]
  BY <1>2 DEF Replacing
<1>6. UploadInv'
  BY <1>2, <1>3, <1>4 DEF StoreInv, UploadInv, Files
<1>7. NumberInv'
  <2>1. NumberInv
    BY DEF StoreInv
  <2>2. \A r \in Files : file'[r].url <= vops'
    BY <1>1, <1>3, <1>4, <2>1 DEF NumberInv
  <2>3. \A u \in Replacing' : vtx'[u].new <= vops' /\ vtx'[u].old <= vops'
    BY <1>3, <1>5, <2>1 DEF NumberInv
  <2>4. \A u \in Replacing', r \in Files : file'[r].url # vtx'[u].new
    BY <1>1, <1>4, <1>5, <2>1 DEF NumberInv
  <2>5. \A u, w \in Replacing' : vtx'[u].old # vtx'[w].new /\ (w # u => vtx'[u].new # vtx'[w].new)
    BY <1>5, <2>1 DEF NumberInv
  <2> QED BY <2>2, <2>3, <2>4, <2>5 DEF NumberInv
<1>8. /\ unsure \subseteq unsure'
      /\ \/ objects' \in {objects, objects \ {<<x.on, x.old>>}}
         \/ objects' = objects \ {<<x.on, x.new>>} /\ x.on \in unsure'
  BY DEF commitReplacement
<1>9. FilesKept'
  <2>1. ASSUME NEW r \in CarFiles \ unsure' PROVE <<r, file'[r].url>> \in objects'
    <3>1. CASE r = x.on
      <4>1. <<x.on, x.new>> \in objects /\ x.old # x.new
        BY <1>1 DEF StoreInv, NumberInv
      <4> QED BY <1>4, <1>8, <2>1, <3>1, <4>1
    <3>2. CASE r # x.on
      <4>1. listing # "DELETED"
        BY <1>1 DEF StoreInv, UploadInv
      <4>2. <<r, file[r].url>> \in objects
        BY <1>8, <2>1, <4>1 DEF StoreInv, FilesKept
      <4> QED BY <1>4, <1>8, <2>1, <3>2, <4>2 DEF Files
    <3> QED BY <3>1, <3>2
  <2> QED BY <2>1 DEF FilesKept
<1>10. \A u \in Replacing' : <<vtx'[u].on, vtx'[u].new>> \in objects'
  <2>1. ASSUME NEW u \in Replacing' PROVE <<vtx'[u].on, vtx'[u].new>> \in objects'
    <3>1. u \in Replacing /\ u # t /\ vtx'[u] = vtx[u] /\ <<vtx[u].on, vtx[u].new>> \in objects
      BY <1>5, <2>1 DEF StoreInv
    <3>2. vtx[u].new # x.old /\ vtx[u].new # x.new
      BY <1>1, <3>1 DEF StoreInv, NumberInv
    <3> QED BY <1>8, <3>1, <3>2
  <2> QED BY <2>1
<1> QED BY <1>6, <1>7, <1>9, <1>10 DEF StoreInv

(* A new replacement takes a number nobody has.                             *)
LEMMA OpeningKeepsFiles ==
    ASSUME LockInv, StoreInv, NEW t \in Reviews, Opening(t)
    PROVE  StoreInv'
<1>0. file \in [Files -> FileRow] /\ vtx \in [Reviews -> TxRow] /\ vops \in Nat
  BY VAssumption DEF LockInv, VTypeOK
<1>1. /\ UNCHANGED <<file, listing, unsure>> /\ vops' = vops + 1 /\ vtx[t].op = "idle"
      /\ objects \subseteq objects'
  BY DEF Opening, reviewFile, replaceRejectedFile, Replaces, setCoverImage, approveCar, Opens
<1>2. \A u \in Reviews \ {t} : vtx'[u] = vtx[u]
  BY OpeningShape
<1>3. \/ \E r \in CarFiles : replaceRejectedFile(t, r)
      \/ /\ vtx'[t].op # "replace"
         /\ vtx'[t].op \in {"approve", "reject"} /\ vtx'[t].on \in CarFiles =>
                file[vtx'[t].on].status # "NONE"
  <2>1. CASE \E r \in Files : reviewFile(t, "approve", r) \/ reviewFile(t, "reject", r)
    <3>1. PICK r \in Files, op \in {"approve", "reject"} : reviewFile(t, op, r)
      BY <2>1
    <3>2. vtx'[t].op = op /\ vtx'[t].on = r /\ file[r].status # "NONE"
      BY <1>0, <3>1 DEF reviewFile, Opens, Begun
    <3> QED BY <3>2
  <2>2. CASE \E i \in Images : setCoverImage(t, i)
    <3>1. vtx'[t].op = "cover"
      BY <1>0, <2>2 DEF setCoverImage, Opens, Begun
    <3> QED BY <3>1
  <2>3. CASE approveCar(t)
    <3>1. vtx'[t].op = "approve" /\ vtx'[t].on = TheCar
      BY <1>0, <2>3 DEF approveCar, Opens, Begun
    <3> QED BY <3>1, VAssumption DEF Files
  <2> QED BY <2>1, <2>2, <2>3 DEF Opening
<1>4. FilesKept'
  BY <1>1 DEF StoreInv, FilesKept
<1>5. CASE \E r \in CarFiles : replaceRejectedFile(t, r)
  <2>1. PICK r \in CarFiles : replaceRejectedFile(t, r)
    BY <1>5
  <2>2. /\ vtx'[t].op = "replace" /\ vtx'[t].on = r /\ vtx'[t].old = file[r].url
        /\ vtx'[t].new = vops + 1 /\ file[r].status = "REJECTED"
        /\ <<r, vops + 1>> \in objects'
    BY <1>0, <2>1 DEF replaceRejectedFile, Replaces, Begun
  <2>3. /\ Replacing' = Replacing \cup {t} /\ t \notin Replacing
        /\ \A u \in Replacing : vtx'[u] = vtx[u]
    BY <1>1, <1>2, <2>2 DEF Replacing
  <2>4. UploadInv'
    BY <1>1, <1>2, <2>2 DEF StoreInv, UploadInv
  <2>5. NumberInv'
    <3>1. NumberInv /\ r \in Files
      BY DEF StoreInv, Files
    <3>2. \A f \in Files : file[f].url \in Nat /\ file[f].url <= vops
      BY <1>0, <3>1 DEF NumberInv, FileRow
    <3>3. \A u \in Replacing : vtx[u].new \in Nat /\ vtx[u].old \in Nat
                               /\ vtx[u].new <= vops /\ vtx[u].old <= vops
      BY <1>0, <3>1 DEF NumberInv, TxRow, Replacing
    <3>4. \A f \in Files : file'[f].url <= vops'
      BY <1>0, <1>1, <3>2
    <3>5. \A u \in Replacing' : vtx'[u].new <= vops' /\ vtx'[u].old <= vops'
      BY <1>0, <1>1, <2>2, <2>3, <3>1, <3>2, <3>3
    <3>6. \A u \in Replacing', f \in Files : file'[f].url # vtx'[u].new
      BY <1>0, <1>1, <2>2, <2>3, <3>1, <3>2 DEF NumberInv
    <3>7. \A u, w \in Replacing' : vtx'[w].old # vtx'[u].new
      BY <1>0, <2>2, <2>3, <3>1, <3>2, <3>3 DEF NumberInv
    <3>8. \A u, w \in Replacing' : u # w => vtx'[w].new # vtx'[u].new
      BY <1>0, <2>2, <2>3, <3>1, <3>3 DEF NumberInv
    <3> QED BY <3>4, <3>5, <3>6, <3>7, <3>8 DEF NumberInv
  <2>6. \A u \in Replacing' : <<vtx'[u].on, vtx'[u].new>> \in objects'
    BY <1>1, <2>2, <2>3 DEF StoreInv
  <2> QED BY <1>4, <2>4, <2>5, <2>6 DEF StoreInv
<1>6. CASE /\ vtx'[t].op # "replace"
           /\ vtx'[t].op \in {"approve", "reject"} /\ vtx'[t].on \in CarFiles =>
                  file[vtx'[t].on].status # "NONE"
  <2>1. Replacing' = Replacing /\ \A u \in Replacing : vtx'[u] = vtx[u]
    BY <1>1, <1>2, <1>6 DEF Replacing
  <2>2. UploadInv'
    BY <1>1, <1>2, <1>6 DEF StoreInv, UploadInv
  <2>3. NumberInv'
    <3>1. NumberInv
      BY DEF StoreInv
    <3>2. \A f \in Files : file'[f].url <= vops'
      <4>1. \A f \in Files : file[f].url \in Nat /\ file[f].url <= vops
        BY <1>0, <3>1 DEF NumberInv, FileRow
      <4> QED BY <1>0, <1>1, <4>1
    <3>3. \A u \in Replacing' : vtx'[u].new <= vops' /\ vtx'[u].old <= vops'
      <4>1. \A u \in Replacing : vtx[u].new \in Nat /\ vtx[u].old \in Nat
        BY <1>0 DEF TxRow, Replacing
      <4> QED BY <1>0, <1>1, <2>1, <3>1, <4>1 DEF NumberInv
    <3>4. /\ \A u \in Replacing', r \in Files : file'[r].url # vtx'[u].new
          /\ \A u, w \in Replacing' : vtx'[w].old # vtx'[u].new
          /\ \A u, w \in Replacing' : u # w => vtx'[w].new # vtx'[u].new
      BY <1>1, <2>1, <3>1 DEF NumberInv
    <3> QED BY <3>2, <3>3, <3>4 DEF NumberInv
  <2>4. \A u \in Replacing' : <<vtx'[u].on, vtx'[u].new>> \in objects'
    BY <1>1, <2>1 DEF StoreInv
  <2> QED BY <1>4, <2>2, <2>3, <2>4 DEF StoreInv
<1> QED BY <1>3, <1>5, <1>6

(* Every step keeps StoreInv.                                               *)
LEMMA StoreStep == LockInv /\ AgreeInv /\ StoreInv /\ [VNext]_vvars => StoreInv'
<1> SUFFICES ASSUME LockInv, AgreeInv, StoreInv, [VNext]_vvars PROVE StoreInv'
  OBVIOUS
<1>1. CASE persistUploadedCarAssets \/ cleanupFailedCreate
  BY <1>1, CreationKeepsFiles
<1>2. ASSUME NEW t \in Reviews, Opening(t) PROVE StoreInv'
  BY <1>2, OpeningKeepsFiles
<1>3. ASSUME NEW t \in Reviews,
             \/ \E r \in VRows : lockRow(t, r)
             \/ clearOtherCovers(t) \/ readCarReview(t) \/ countUserDocs(t)
      PROVE  StoreInv'
  BY <1>3, LockingKeepsFiles
<1>4. ASSUME NEW t \in Reviews, Closing(t) PROVE StoreInv'
  BY <1>4, FailingKeepsFiles, DecisionKeepsFiles, ReplacementKeepsFiles DEF Closing
<1>5. CASE UNCHANGED vvars
  BY <1>5 DEF vvars, StoreInv, UploadInv, NumberInv, FilesKept, Replacing
<1> QED BY <1>1, <1>2, <1>3, <1>4, <1>5 DEF VNext, Opening, Closing

(***************************************************************************)
(* The object a row of the car names is in storage, for any number of      *)
(* replacements of the same file at the same time and any failures, unless *)
(* the answer to a commit was lost (replaceRejectedFile,                   *)
(* deleteReplacedObject).                                                  *)
(***************************************************************************)
THEOREM NamedFilesKept == VSpec => []FilesKept
<1>1. StoreInv => FilesKept
  BY DEF StoreInv
<1> QED BY LockInit, LockStep, AgreeInit, AgreeStep, StoreInit, StoreStep, <1>1, PTL DEF VSpec

(***************************************************************************)
(* A car is listed exactly while all its files are approved, for any       *)
(* number of files and of open transactions (approveCarIfFullyReviewed).   *)
(***************************************************************************)
THEOREM ListingIsRight == VSpec => []ListingAgrees
<1>1. VTypeOK /\ ListedIsReviewed /\ ReviewedIsListed => ListingAgrees
    BY DEF ListingAgrees
<1> QED BY VettingTypes, ListedCarsReviewed, ReviewedCarsListed, <1>1, PTL

=============================================================================
