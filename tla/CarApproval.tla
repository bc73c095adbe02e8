---------------------------- MODULE CarApproval -----------------------------
(***************************************************************************)
(* The vetting of a car and of its chauffeur: administrators approve and   *)
(* reject images and documents (CarApprovalService,                        *)
(* DocumentApprovalService), the owner replaces rejected files             *)
(* (CarService), and the car is listed while all of it is approved.        *)
(*                                                                         *)
(* A transaction takes one row lock per step and reads what others have    *)
(* committed (READ COMMITTED) and what it wrote itself; its writes take    *)
(* effect when it commits.  Car and chauffeur are rows, too.               *)
(***************************************************************************)
EXTENDS Integers, FiniteSets

CONSTANTS
    Images,     \* VehicleImage rows of the car
    CarDocs,    \* its documents, one of each required type
    UserDocs,   \* DocumentApproval rows of the chauffeur
    TheCar, TheUser,
    Reviews,    \* transactions that may be open at the same time
    VMaxOps,    \* bound on the requests
    VMaxFaults  \* bound on transactions that fail

CarFiles == Images \cup CarDocs
Files    == CarFiles \cup UserDocs
VRows    == Files \cup {TheCar, TheUser}

ASSUME VAssumption ==
    /\ Images \cap CarDocs = {} /\ CarFiles \cap UserDocs = {}
    /\ TheCar \notin Files /\ TheUser \notin Files /\ TheCar # TheUser
    /\ VMaxOps \in Nat /\ VMaxFaults \in Nat

VARIABLES
    file,      \* per file: its status and the number of its stored object
    cover,     \* images with isPrimary
    listing,   \* Car.approvalStatus, or DELETED
    chauffeur, \* User.chauffeurApprovalStatus
    vtx,       \* open transactions
    objects,   \* stored objects: <<file, number>>
    vops, vfaults,
    unsure,    \* history: replacements that were committed but not acknowledged
    crossed    \* history: "cover" or "user" when two decisions about it overlapped

vvars == <<file, cover, listing, chauffeur, vtx, objects, vops, vfaults, unsure, crossed>>

DocumentStatus == {"NONE", "PENDING", "APPROVED", "REJECTED"}
Unresolved     == {"PENDING", "REJECTED"}
FileRow        == [status: DocumentStatus, url: Nat]
Begun(op, r, rows, old, new) ==
    [op |-> op, on |-> r, todo |-> rows, held |-> {}, verdict |-> "unread", old |-> old,
     new |-> new, clears |-> {}]
Closed == Begun("idle", TheCar, {}, 0, 0)
TxRow  == [op: {"idle", "approve", "reject", "replace", "cover"}, on: VRows, todo: SUBSET VRows,
           held: SUBSET VRows, verdict: {"unread", "full", "open"}, old: Nat, new: Nat,
           clears: SUBSET Images]

(* The rows, transactions and stored objects of the vetting are of their   *)
(* kinds, and only images are covers (car-approval.service.ts).            *)
VTypeOK ==
    /\ file \in [Files -> FileRow]
    /\ cover \subseteq Images
    /\ listing \in {"PENDING", "APPROVED", "DELETED"}
    /\ chauffeur \in {"PENDING", "APPROVED", "REJECTED"}
    /\ vtx \in [Reviews -> TxRow]
    /\ objects \subseteq Files \X Nat
    /\ vops \in 0..VMaxOps /\ vfaults \in 0..VMaxFaults
    /\ unsure \subseteq Files /\ crossed \subseteq {"cover", "user"}

(* createCarShell has made the car, and the chauffeur's documents, if there *)
(* are any, are uploaded; or there is no car.                               *)
VInitWith(ops, docs, car) ==
    /\ file = [r \in Files |-> [status |-> IF r \in docs THEN "PENDING" ELSE "NONE",
                                url |-> 0]]
    /\ cover = {} /\ listing = car /\ chauffeur = "PENDING"
    /\ vtx = [t \in Reviews |-> Closed]
    /\ objects = Files \X {0}
    /\ vops = ops /\ vfaults = 0 /\ unsure = {} /\ crossed = {}

VInit == VInitWith(0, UserDocs, "PENDING")

-----------------------------------------------------------------------------
(* The rows with the status of some of them changed. *)
WithStatus(rows, s) ==
    [r \in Files |-> IF r \in rows THEN [status |-> s, url |-> file[r].url] ELSE file[r]]

(* createCar, after the shell: the files are uploaded and their rows        *)
(* inserted, which waits for whoever locks the car; or the car is deleted.  *)
CarFree == \A t \in Reviews : TheCar \notin vtx[t].held

persistUploadedCarAssets ==
    /\ listing = "PENDING" /\ CarFree
    /\ \A r \in CarFiles : file[r].status = "NONE"
    /\ file' = WithStatus(CarFiles, "PENDING")
    /\ UNCHANGED <<cover, listing, chauffeur, vtx, objects, vops, vfaults, unsure, crossed>>

cleanupFailedCreate ==
    /\ listing = "PENDING" /\ CarFree
    /\ \A r \in CarFiles : file[r].status = "NONE"
    /\ vfaults < VMaxFaults /\ vfaults' = vfaults + 1
    /\ listing' = "DELETED"
    /\ objects' = {o \in objects : o[1] \notin CarFiles}
    /\ UNCHANGED <<file, cover, chauffeur, vtx, vops, unsure, crossed>>

-----------------------------------------------------------------------------
(* Requests.  The file's row is locked first, then the car or the user.     *)
Opens(t, op, r, rows) ==
    /\ vtx[t].op = "idle"
    /\ vops < VMaxOps /\ vops' = vops + 1
    /\ vtx' = [vtx EXCEPT ![t] = Begun(op, r, rows, 0, 0)]

Parent(r) == IF r \in UserDocs THEN TheUser ELSE TheCar

(* approveImage, approveDocument, rejectImage, rejectDocument *)
reviewFile(t, op, r) ==
    /\ file[r].status # "NONE"
    /\ Opens(t, op, r, {r, Parent(r)})
    /\ UNCHANGED <<file, cover, listing, chauffeur, objects, vfaults, unsure, crossed>>

approveCar(t) ==
    /\ listing # "DELETED"
    /\ Opens(t, "approve", TheCar, {TheCar})
    /\ UNCHANGED <<file, cover, listing, chauffeur, objects, vfaults, unsure, crossed>>

(* replaceRejectedFile up to its transaction: the row is read and the new   *)
(* object stored.                                                           *)
Replaces(t, r) ==
    /\ file[r].status = "REJECTED"
    /\ vtx[t].op = "idle"
    /\ vops < VMaxOps /\ vops' = vops + 1
    /\ vtx' = [vtx EXCEPT ![t] = Begun("replace", r, {r, TheCar}, file[r].url, vops + 1)]
    /\ UNCHANGED <<file, cover, listing, chauffeur, vfaults, unsure, crossed>>

replaceRejectedFile(t, r) == Replaces(t, r) /\ objects' = objects \cup {<<r, vops + 1>>}

(* setCoverImage: the target is found approved; the statement that clears   *)
(* the other covers sees those of its start, and locks them before the      *)
(* target.                                                                  *)
setCoverImage(t, i) ==
    /\ file[i].status = "APPROVED"
    /\ Opens(t, "cover", i, {})
    /\ UNCHANGED <<file, cover, listing, chauffeur, objects, vfaults, unsure, crossed>>

clearOtherCovers(t) ==
    /\ vtx[t].op = "cover" /\ vtx[t].verdict = "unread"
    /\ vtx' = [vtx EXCEPT ![t].todo = cover \cup {vtx[t].on}, ![t].verdict = "full"]
    /\ UNCHANGED <<file, cover, listing, chauffeur, objects, vops, vfaults, unsure, crossed>>

-----------------------------------------------------------------------------
(* Row locks.  Turn says which of its rows a transaction asks for next.     *)
TurnCarFirst(x, r) ==
    /\ r \in x.todo
    /\ r = x.on => IF x.op = "replace" THEN x.todo = {r} ELSE x.todo \cap Files \subseteq {r}
    /\ x.op # "replace" /\ r \in {TheCar, TheUser} => x.todo \cap Files = {}

Turn(x, r) ==
    /\ r \in x.todo
    /\ r = x.on => x.todo \cap Files \subseteq {r}
    /\ r \in {TheCar, TheUser} => x.todo \cap Files = {}

Waits(t, u, r) == t # u /\ Turn(vtx[t], r) /\ r \in vtx[u].held

(* The update of a replacement finds its row only while it is rejected.     *)
FindsAny(x, r) == TRUE

Finds(x, r) == x.op = "replace" /\ r = x.on => file[r].status = "REJECTED"

(* The chauffeur is updated only if no document was found unresolved.       *)
lockRow(t, r) ==
    /\ Turn(vtx[t], r)
    /\ \A u \in Reviews : ~Waits(t, u, r)
    /\ Finds(vtx[t], r)
    /\ r = TheUser /\ vtx[t].op = "approve" => vtx[t].verdict = "full"
    /\ vtx' = [vtx EXCEPT ![t].todo = @ \ {r}, ![t].held = @ \cup {r},
                          ![t].clears = IF vtx[t].op = "cover" /\ r # vtx[t].on
                                          THEN @ \cup (cover \cap {r}) ELSE @]
    /\ UNCHANGED <<file, cover, listing, chauffeur, objects, vops, vfaults, unsure, crossed>>

(* FileNotRejectedException: the new object is removed again.               *)
refuseReplacement(t) ==
    /\ \E r \in Files : /\ Turn(vtx[t], r) /\ \A u \in Reviews : ~Waits(t, u, r)
                        /\ ~Finds(vtx[t], r)
    /\ vtx' = [vtx EXCEPT ![t] = Closed]
    /\ objects' = objects \ {<<vtx[t].on, vtx[t].new>>}
    /\ UNCHANGED <<file, cover, listing, chauffeur, vops, vfaults, unsure, crossed>>

-----------------------------------------------------------------------------
(* The reviews of approveCarIfFullyReviewed, under the lock of the car, and *)
(* of approveChauffeurIfFullyReviewed, which has no lock yet.               *)
Written(x) == WithStatus({x.on}, "APPROVED")

Resolved(f, rows) == \A r \in rows : f[r].status \notin Unresolved

FullyReviewed(f) ==
    /\ Resolved(f, CarFiles)
    /\ \E i \in Images : f[i].status = "APPROVED"
    /\ \A d \in CarDocs : f[d].status = "APPROVED"

readBeforeLock(t) ==
    /\ vtx[t].op = "approve" /\ vtx[t].verdict = "unread"
    /\ vtx[t].todo = {TheCar}
    /\ vtx' = [vtx EXCEPT ![t].verdict =
                   IF FullyReviewed(Written(vtx[t])) THEN "full" ELSE "open"]
    /\ UNCHANGED <<file, cover, listing, chauffeur, objects, vops, vfaults, unsure, crossed>>

readCarReview(t) ==
    /\ vtx[t].op = "approve" /\ vtx[t].verdict = "unread"
    /\ TheCar \in vtx[t].held
    /\ vtx' = [vtx EXCEPT ![t].verdict =
                   IF FullyReviewed(Written(vtx[t])) THEN "full" ELSE "open"]
    /\ UNCHANGED <<file, cover, listing, chauffeur, objects, vops, vfaults, unsure, crossed>>

countUserDocs(t) ==
    /\ vtx[t].op = "approve" /\ vtx[t].verdict = "unread"
    /\ vtx[t].todo = {TheUser}
    /\ LET full == Resolved(Written(vtx[t]), UserDocs)
       IN  vtx' = [vtx EXCEPT ![t].verdict = IF full THEN "full" ELSE "open",
                              ![t].todo = IF full THEN @ ELSE {}]
    /\ UNCHANGED <<file, cover, listing, chauffeur, objects, vops, vfaults, unsure, crossed>>

-----------------------------------------------------------------------------
(* Commits.  What overlapped is kept for the properties.                    *)
Done(t, op) ==
    /\ vtx[t].op = op /\ vtx[t].todo = {}
    /\ op \in {"approve", "cover"} => vtx[t].verdict # "unread"
    /\ vtx' = [vtx EXCEPT ![t] = Closed]

Crosses(t) ==
    {c \in {"cover", "user"} : \E u \in Reviews \ {t} :
        \/ c = "cover" /\ vtx[u].op = "cover" /\ vtx[t].op \in {"cover", "reject"}
        \/ c = "user" /\ vtx[u].op # "idle" /\ vtx[u].on \in UserDocs /\ vtx[t].on \in UserDocs}

Note(t) == crossed' = crossed \cup Crosses(t) /\ UNCHANGED <<vops, vfaults>>

commitApproval(t) ==
    /\ Done(t, "approve")
    /\ file' = Written(vtx[t])
    /\ listing' = IF TheCar \in vtx[t].held /\ vtx[t].verdict = "full" THEN "APPROVED"
                  ELSE listing
    /\ chauffeur' = IF TheUser \in vtx[t].held THEN "APPROVED" ELSE chauffeur
    /\ Note(t) /\ UNCHANGED <<cover, objects, unsure>>

CarDemoted(t) == IF TheCar \in vtx[t].held THEN "PENDING" ELSE listing

CoversLeft(t) == cover \ {vtx[t].on}

UserRejected(t) == IF TheUser \in vtx[t].held THEN "REJECTED" ELSE chauffeur

commitRejection(t) ==
    /\ Done(t, "reject")
    /\ file' = WithStatus({vtx[t].on}, "REJECTED")
    /\ listing' = CarDemoted(t)
    /\ cover' = CoversLeft(t)
    /\ chauffeur' = UserRejected(t)
    /\ Note(t) /\ UNCHANGED <<objects, unsure>>

(* The replaced object is deleted afterwards, as far as that succeeds; if   *)
(* the answer to the commit is lost, the new one is.                        *)
commitReplacement(t) ==
    LET x == vtx[t]
    IN  /\ Done(t, "replace")
        /\ file' = [file EXCEPT ![x.on] = [status |-> "PENDING", url |-> x.new]]
        /\ listing' = CarDemoted(t)
        /\ \/ objects' \in {objects, objects \ {<<x.on, x.old>>}} /\ UNCHANGED <<unsure, vfaults>>
           \/ /\ vfaults < VMaxFaults /\ vfaults' = vfaults + 1
              /\ objects' = objects \ {<<x.on, x.new>>}
              /\ unsure' = unsure \cup {x.on}
        /\ crossed' = crossed \cup Crosses(t)
        /\ UNCHANGED <<cover, chauffeur, vops>>

commitCover(t) ==
    /\ Done(t, "cover")
    /\ cover' = (cover \ vtx[t].clears) \cup {vtx[t].on}
    /\ Note(t) /\ UNCHANGED <<file, listing, chauffeur, objects, unsure>>

(* A statement fails, the transaction times out, or the process dies.       *)
rollBack(t) ==
    /\ vtx[t].op # "idle"
    /\ vfaults < VMaxFaults /\ vfaults' = vfaults + 1
    /\ vtx' = [vtx EXCEPT ![t] = Closed]
    /\ \/ UNCHANGED objects
       \/ vtx[t].op = "replace" /\ objects' = objects \ {<<vtx[t].on, vtx[t].new>>}
    /\ UNCHANGED <<file, cover, listing, chauffeur, vops, unsure, crossed>>

-----------------------------------------------------------------------------
VNext ==
    \/ persistUploadedCarAssets \/ cleanupFailedCreate
    \/ \E t \in Reviews :
        \/ \E r \in Files : reviewFile(t, "approve", r) \/ reviewFile(t, "reject", r)
        \/ \E r \in CarFiles : replaceRejectedFile(t, r)
        \/ \E i \in Images : setCoverImage(t, i)
        \/ approveCar(t) \/ clearOtherCovers(t)
        \/ \E r \in VRows : lockRow(t, r)
        \/ refuseReplacement(t) \/ readCarReview(t) \/ countUserDocs(t)
        \/ commitApproval(t) \/ commitRejection(t) \/ commitReplacement(t) \/ commitCover(t)
        \/ rollBack(t)

VSpec == VInit /\ [][VNext]_vvars

-----------------------------------------------------------------------------
(* What the vetting promises. *)

(***************************************************************************)
(* A car in the public search has every image and document approved, and   *)
(* has some: no approval that was computed before a rejection or a         *)
(* replacement may be written after it (approveCarIfFullyReviewed), and an *)
(* empty car is not approved.                                              *)
(***************************************************************************)
ListedIsReviewed == listing = "APPROVED" => FullyReviewed(file)

(***************************************************************************)
(* Approving the last files lists the car, also when two administrators    *)
(* approve the last two at once and neither sees what the other has not    *)
(* yet committed (approveImage, approveDocument).                          *)
(***************************************************************************)
ReviewedIsListed == FullyReviewed(file) => listing = "APPROVED"

(***************************************************************************)
(* Approvals, rejections and replacements never wait for each other in a   *)
(* circle: among any of them, one can go on (the lock order that           *)
(* rejectImage and replaceRejectedFile describe).                          *)
(***************************************************************************)
Moderating == {t \in Reviews : vtx[t].op \in {"approve", "reject", "replace"}}

SomebodyGoesOn ==
    \A S \in SUBSET Moderating :
        S # {} => \E t \in S : \A u \in S, r \in VRows : ~Waits(t, u, r)

(***************************************************************************)
(* A replacement never undoes an approval that came between its reading of *)
(* the row and its write: approved files change by rejection only          *)
(* (replaceRejectedFile).                                                  *)
(***************************************************************************)
ApprovalStands ==
    [][\A r \in Files : file[r].status = "APPROVED" =>
            file'[r].status \in {"APPROVED", "REJECTED"}]_vvars

(***************************************************************************)
(* The file a row names is in storage, whatever fails in a replacement and *)
(* whoever replaces it at the same time, as long as the answer to its      *)
(* commit arrives (replaceRejectedFile, deleteReplacedObject).             *)
(***************************************************************************)
FilesKept ==
    listing # "DELETED" => \A r \in CarFiles \ unsure : <<r, file[r].url>> \in objects

(***************************************************************************)
(* A car has one cover image at most, an approved one, unless setCoverImage*)
(* overlapped with another of its calls or with a rejection.               *)
(***************************************************************************)
OneApprovedCover ==
    "cover" \in crossed \/ /\ Cardinality(cover) <= 1
                           /\ \A i \in cover : file[i].status = "APPROVED"

(***************************************************************************)
(* An approved chauffeur has no rejected and no unseen document, unless    *)
(* decisions about two of them overlapped (approveDocument, rejectDocument,*)
(* which lock no common row before they count).                            *)
(***************************************************************************)
ChauffeurVetted ==
    chauffeur = "APPROVED" => "user" \in crossed \/ Resolved(file, UserDocs)

(***************************************************************************)
(* A car is in the public search exactly while all its files are approved, *)
(* however approvals, rejections and replacements of several               *)
(* administrators and the owner overlap (approveCarIfFullyReviewed,        *)
(* rejectImage, replaceRejectedFile).                                      *)
(***************************************************************************)
ListingAgrees == VTypeOK /\ ListedIsReviewed /\ ReviewedIsListed

(***************************************************************************)
(* What was decided about a file stays with that file: its object is kept, *)
(* a replacement undoes no approval, and covers and chauffeurs are         *)
(* approved ones unless two calls without a common lock overlapped         *)
(* (replaceRejectedFile, setCoverImage, approveDocument).                  *)
(***************************************************************************)
VettingKept ==
    /\ [](FilesKept /\ OneApprovedCover /\ ChauffeurVetted)
    /\ ApprovalStands

=============================================================================
