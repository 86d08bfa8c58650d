------------------------------ MODULE PhotoWork ------------------------------
(***************************************************************************)
(* A property and its photos: packages/domain/src/property and the         *)
(* repositories of packages/database/src/property-repositories.ts.         *)
(*                                                                         *)
(* A call of a service is a chain of phases: every statement it sends is a *)
(* step of its own and anything may happen in between.  A photo's row is   *)
(* moved by compare and set on its status, never once its deletion was     *)
(* asked for.  A call that throws, and a process that dies, end the call   *)
(* where it stands (CallEnds of Workspace).                                *)
(*                                                                         *)
(* A file is what the checks tell of it; the two derivatives are named by  *)
(* the file they were made from.  Nothing moves a photo to DELETED yet.    *)
(***************************************************************************)
EXTENDS Naturals, FiniteSets

CONSTANTS
  Caller,     \* calls being served at once
  Photo,      \* identifiers a photo may get, as they sort
  File,       \* what a customer may put under the upload URL
  WrongType,  \* files refused for their type or size
  Infected,   \* files the scanner flags
  WrongShape, \* files refused for their dimensions
  MaxPhotos,  \* maxAssetsPerProperty
  Room,       \* what the analysis may see on a photo, by the rank of the room
  Unsafe,     \* of those, what carries a blocking safety finding
  Order,      \* the priorities a reviewer may give
  MinScenes,  \* MIN_STORYBOARD_SCENES
  Seconds,    \* the requested duration of the video
  Shortest, Longest, \* the bounds a composition is asked to keep
  MaxRevision \* bound: refreshes stop here

None == "none"

ASSUME PhotoAssumption ==
  /\ None \notin File
  /\ WrongType \cup Infected \cup WrongShape \subseteq File
  /\ IsFiniteSet(Photo) /\ Photo \subseteq Nat
  /\ Unsafe \subseteq Room
  /\ Room \cup Order \subseteq Nat \ {0}
  /\ MaxPhotos \in Nat /\ MaxRevision \in Nat
  /\ {MinScenes, Seconds, Shortest, Longest} \subseteq Nat \ {0}

VARIABLES
  property, \* the property's status
  object,   \* a photo's objects in the bucket, by variant
  photo,    \* media_assets
  analysis, \* asset_analyses, by the photo analysed
  board,    \* the video project and its storyboard_scenes
  call      \* what each call is doing, with what it remembers

photoRows  == <<property, photo>>
reviewRows == <<analysis, board>>
vars == <<photoRows, object, reviewRows, call>>

Idle == [at |-> "IDLE"]
At(c, phase) == call[c].at = phase
Goes(c, to)  == call' = [call EXCEPT ![c] = to]
Ends(c)      == Goes(c, Idle)

NoPhoto   == [status |-> "NONE", leaving |-> FALSE, key |-> "original", sha |-> None]
NoObjects == [original |-> None, normalized |-> None, thumbnail |-> None]

ACTIVE_STATUSES == {"PENDING_UPLOAD", "UPLOADED", "SCANNING", "PROCESSING", "READY"}
AWAITING_UPLOAD == {"PENDING_UPLOAD", "FAILED"}

countActiveByProperty == Cardinality({p \in Photo : photo[p].status \in ACTIVE_STATUSES})

\* Mutated form of IsCurrent: the row's status is not compared.
IsUndeleted(p, expected) == ~ photo[p].leaving

\* What updateIfCurrent asks of the row.
IsCurrent(p, expected) == photo[p].status = expected /\ ~ photo[p].leaving

updateIfCurrent(p, expected, row) ==
  photo' = IF IsCurrent(p, expected) THEN [photo EXCEPT ![p] = row] ELSE photo

\* A step of a call that owns the photo's lifecycle while its CAS succeeds.
Moves(c, expected, status, next) ==
  LET p == call[c].on
  IN  /\ updateIfCurrent(p, expected, [photo[p] EXCEPT !.status = status])
      /\ IF IsCurrent(p, expected) THEN Goes(c, next) ELSE Ends(c)
      /\ UNCHANGED <<property, object, reviewRows>>

\* reject, quarantine and fail: the same move, and the call is over.
Refuses(c, expected, status) == Moves(c, expected, status, Idle)

--------------------------------------------------------------------------------
(* Offering a photo.                                                            *)

\* An identifier no row and no call has.
Fresh(p) == photo[p] = NoPhoto /\ \A c \in Caller : call[c].at = "CREATE" => call[c].on # p

\* requestUpload counts, and creates the row afterwards.
RequestUpload(c, p) ==
  /\ At(c, "IDLE") /\ Fresh(p)
  /\ property = "ACTIVE"
  /\ countActiveByProperty < MaxPhotos
  /\ Goes(c, [at |-> "CREATE", on |-> p])
  /\ UNCHANGED <<photoRows, object, reviewRows>>

CreateAsset(c) ==
  /\ At(c, "CREATE")
  /\ photo' = [photo EXCEPT ![call[c].on] = [NoPhoto EXCEPT !.status = "PENDING_UPLOAD"]]
  /\ Ends(c)
  /\ UNCHANGED <<property, object, reviewRows>>

\* The customer's own PUT under a signed URL, as often as its life allows.
Upload(p, file) ==
  /\ photo[p] # NoPhoto
  /\ object' = [object EXCEPT ![p].original = file]
  /\ UNCHANGED <<photoRows, reviewRows, call>>

\* retryUpload reads the row, and resets it if it is still as it was read.
RetryUpload(c, p) ==
  /\ At(c, "IDLE")
  /\ photo[p].status \in AWAITING_UPLOAD
  /\ Goes(c, [at |-> "RESET", on |-> p, was |-> photo[p].status])
  /\ UNCHANGED <<photoRows, object, reviewRows>>

ResetUpload(c) == At(c, "RESET") /\ Moves(c, call[c].was, "PENDING_UPLOAD", Idle)

--------------------------------------------------------------------------------
(* completeUpload: the bytes are read once and checked as they were read.       *)

ReadUpload(c, p) ==
  /\ At(c, "IDLE")
  /\ photo[p].status \in AWAITING_UPLOAD
  /\ object[p].original # None
  /\ Goes(c, [at |-> "RECEIVE", on |-> p, was |-> photo[p].status, file |-> object[p].original])
  /\ UNCHANGED <<photoRows, object, reviewRows>>

With(c, phase) == [at |-> phase, on |-> call[c].on, file |-> call[c].file]

Receive(c) == At(c, "RECEIVE") /\ Moves(c, call[c].was, "UPLOADED", With(c, "SNIFF"))

Sniff(c) ==
  /\ At(c, "SNIFF")
  /\ IF call[c].file \in WrongType
     THEN Refuses(c, "UPLOADED", "REJECTED")
     ELSE Moves(c, "UPLOADED", "SCANNING", With(c, "SCAN"))

Scan(c) ==
  /\ At(c, "SCAN")
  /\ \/ Refuses(c, "SCANNING", "FAILED")
     \/ IF call[c].file \in Infected
        THEN Refuses(c, "SCANNING", "QUARANTINED")
        ELSE Moves(c, "SCANNING", "PROCESSING", With(c, "PROCESS"))

Process(c) ==
  /\ At(c, "PROCESS")
  /\ \/ Refuses(c, "PROCESSING", "FAILED")
     \/ IF call[c].file \in WrongShape
        THEN Refuses(c, "PROCESSING", "REJECTED")
        ELSE /\ Goes(c, With(c, "STORE"))
             /\ UNCHANGED <<photoRows, object, reviewRows>>

Derivative == {"normalized", "thumbnail"}

\* The two puts, one after the other; their keys are the photo's.
Store(c) ==
  LET variant == IF At(c, "STORE") THEN "normalized" ELSE "thumbnail"
  IN  /\ At(c, "STORE") \/ At(c, "STORE_THUMBNAIL")
      /\ object' = [object EXCEPT ![call[c].on][variant] = call[c].file]
      /\ Goes(c, With(c, IF At(c, "STORE") THEN "STORE_THUMBNAIL" ELSE "FINISH"))
      /\ UNCHANGED <<photoRows, reviewRows>>

Finish(c) ==
  LET p == call[c].on
  IN  /\ At(c, "FINISH")
      /\ updateIfCurrent(p, "PROCESSING", [photo[p] EXCEPT
           !.status = "READY", !.key = "normalized", !.sha = call[c].file])
      /\ IF IsCurrent(p, "PROCESSING") THEN Ends(c) ELSE Goes(c, [at |-> "DISCARD", on |-> p])
      /\ UNCHANGED <<property, object, reviewRows>>

\* discardUnreferencedDerivatives: only the recorded wish to delete the photo
\* permits it.  The row cannot change after that, so reading it and deleting are
\* one step; each of the deletions may fail.
Discard(c) ==
  LET p == call[c].on
  IN  /\ At(c, "DISCARD")
      /\ \E gone \in SUBSET Derivative :
           object' = IF photo[p].leaving
                     THEN [object EXCEPT ![p] = [v \in DOMAIN @ |->
                             IF v \in gone /\ v # photo[p].key THEN None ELSE @[v]]]
                     ELSE object
      /\ Ends(c)
      /\ UNCHANGED <<photoRows, reviewRows>>

--------------------------------------------------------------------------------
(* Deleting a photo, and the property with all of them.                         *)

Leave(p) ==
  photo' = IF photo[p] # NoPhoto /\ ~ photo[p].leaving
           THEN [photo EXCEPT ![p].status = "DELETION_PENDING", ![p].leaving = TRUE]
           ELSE photo

\* requestDeletion: one conditional update; an answer of "already" is a success.
RequestDeletion(p) ==
  /\ photo[p] # NoPhoto
  /\ Leave(p)
  /\ UNCHANGED <<property, object, reviewRows, call>>

\* remove: the status first, by compare and set; then the photos listed after.
MarkDeleted(c) ==
  /\ At(c, "IDLE") /\ property = "ACTIVE"
  /\ property' = "DELETED"
  /\ Goes(c, [at |-> "LIST"])
  /\ UNCHANGED <<photo, object, reviewRows>>

ListPhotos(c) ==
  /\ At(c, "LIST")
  /\ Goes(c, [at |-> "REMOVE", left |->
       {p \in Photo : photo[p].status \notin {"NONE", "DELETION_PENDING"}}])
  /\ UNCHANGED <<photoRows, object, reviewRows>>

RemovePhoto(c, p) ==
  /\ At(c, "REMOVE") /\ p \in call[c].left
  /\ Leave(p)
  /\ Goes(c, IF call[c].left = {p} THEN Idle ELSE [at |-> "REMOVE", left |-> call[c].left \ {p}])
  /\ UNCHANGED <<property, object, reviewRows>>
===============================================================================
