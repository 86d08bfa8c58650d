---------------------------- MODULE WorkspaceProofs ----------------------------
(***************************************************************************)
(* The rows of a property's photos, analyses and storyboard, and the proof  *)
(* that a rejection takes its photo out and that a fresh storyboard is the  *)
(* current one, for every number of photos and calls; and what the order    *)
(* and the seconds of the scenes promise, for every set of photos.          *)
(***************************************************************************)
EXTENDS WorkspaceProperties, FiniteSetTheorems, TLAPS

-----------------------------------------------------------------------------
(***************************************************************************)
(* The rows.                                                               *)
(***************************************************************************)

PropertyStatuses == {"ACTIVE", "DELETED"}

PhotoStatuses ==
  {"NONE", "PENDING_UPLOAD", "UPLOADED", "SCANNING", "PROCESSING", "READY", "FAILED",
   "REJECTED", "QUARANTINED", "DELETION_PENDING"}

PhotoRows ==
  [status : PhotoStatuses, leaving : BOOLEAN, key : {"original", "normalized"},
   sha : File \cup {None}]

\* The objects of a photo: what was uploaded, and the two images made of it.
Objects ==
  [original : File \cup {None}, normalized : File \cup {None}, thumbnail : File \cup {None}]

AnalysisRows ==
  [status : {"NONE", "PENDING", "SUCCEEDED", "FAILED"}, room : Room \cup {Absent},
   override : Room \cup {Absent}, order : Order \cup {Absent},
   review : {"UNREVIEWED", "APPROVED", "REJECTED"}, revision : Nat]

\* What a composition is made of: at most one input of each photo.
Inputs ==
  [photo : Photo, revision : Nat, room : Room \cup {Absent}, order : Order \cup {Absent},
   suggested : Nat]

Readings ==
  {inputs \in SUBSET Inputs :
     IsFiniteSet(inputs) /\ \A a, b \in inputs : a.photo = b.photo => a = b}

\* The scenes of a board and its fingerprint are of one reading, if of any.
Composed(inputs) ==
  [composed |-> TRUE, scenes |-> ScenesOf(inputs),
   fingerprint |-> computeCompositionFingerprint(inputs)]

Boards == {NoBoard} \cup {Composed(inputs) : inputs \in Readings}

-----------------------------------------------------------------------------
(***************************************************************************)
(* What a call remembers between two of its statements.                    *)
(***************************************************************************)

Offering ==
  [at : {"CREATE"}, on : Photo] \cup [at : {"RESET"}, on : Photo, was : AWAITING_UPLOAD]

Receiving == [at : {"RECEIVE"}, on : Photo, was : AWAITING_UPLOAD, file : File]

Checking ==
  [at : {"SNIFF", "SCAN", "PROCESS", "STORE", "STORE_THUMBNAIL", "FINISH"},
   on : Photo, file : File]

Removing == [at : {"DISCARD"}, on : Photo] \cup [at : {"REMOVE"}, left : SUBSET Photo]

Reserving == [at : {"RESERVE", "INSERT"}, on : Photo, refresh : BOOLEAN]

Seeing == [at : {"CLEAR", "ANALYSE"}, on : Photo, refresh : BOOLEAN, revision : Nat]

\* A review begins on a row that carries no decision.
Undecided == {row \in AnalysisRows : row.review = "UNREVIEWED"}

Reviewing ==
  [at : {"REVIEW"}, on : Photo, row : Undecided]
    \cup [at : {"DECIDE"}, on : Photo, row : Undecided, was : PhotoStatuses \ {"NONE"}]

Saving == [at : {"SAVE"}, inputs : Readings]

Call ==
  [at : {"IDLE", "LIST"}] \cup Offering \cup Receiving \cup Checking \cup Removing
    \cup Reserving \cup Seeing \cup Reviewing \cup Saving

TypeOK ==
  /\ property \in PropertyStatuses
  /\ object \in [Photo -> Objects]
  /\ photo \in [Photo -> PhotoRows]
  /\ analysis \in [Photo -> AnalysisRows]
  /\ board \in Boards
  /\ call \in [Caller -> Call]

LEMMA Remembers ==
  ASSUME NEW k \in Call
  PROVE  /\ k.at \in {"CREATE", "RESET"} => k \in Offering
         /\ k.at = "RECEIVE" => k \in Receiving
         /\ k.at \in {"SNIFF", "SCAN", "PROCESS", "STORE", "STORE_THUMBNAIL", "FINISH"}
              => k \in Checking
         /\ k.at \in {"DISCARD", "REMOVE"} => k \in Removing
         /\ k.at \in {"RESERVE", "INSERT"} => k \in Reserving
         /\ k.at \in {"CLEAR", "ANALYSE"} => k \in Seeing
         /\ k.at \in {"REVIEW", "DECIDE"} => k \in Reviewing
         /\ k.at = "SAVE" => k \in Saving
<1>1. \/ k \in [at : {"IDLE", "LIST"}] \/ k \in Offering \/ k \in Receiving \/ k \in Checking
      \/ k \in Removing \/ k \in Reserving \/ k \in Seeing \/ k \in Reviewing \/ k \in Saving
  BY DEF Call
<1>2. /\ k \in [at : {"IDLE", "LIST"}] => k.at \in {"IDLE", "LIST"}
      /\ k \in Offering => k.at \in {"CREATE", "RESET"}
      /\ k \in Receiving => k.at = "RECEIVE"
      /\ k \in Checking => k.at \in {"SNIFF", "SCAN", "PROCESS", "STORE", "STORE_THUMBNAIL", "FINISH"}
      /\ k \in Removing => k.at \in {"DISCARD", "REMOVE"}
  BY DEF Offering, Receiving, Checking, Removing
<1>3. /\ k \in Reserving => k.at \in {"RESERVE", "INSERT"}
      /\ k \in Seeing => k.at \in {"CLEAR", "ANALYSE"}
      /\ k \in Reviewing => k.at \in {"REVIEW", "DECIDE"}
      /\ k \in Saving => k.at = "SAVE"
  BY DEF Reserving, Seeing, Reviewing, Saving
<1>4. QED BY <1>1, <1>2, <1>3, SMTT(60)

LEMMA BlankRows ==
  /\ NoPhoto \in PhotoRows /\ NoPhoto.status = "NONE"
  /\ NoObjects \in Objects
  /\ NoAnalysis \in AnalysisRows
  /\ NoAnalysis.status = "NONE" /\ NoAnalysis.review = "UNREVIEWED"
  /\ NoBoard \in Boards
  /\ Idle \in Call /\ Idle.at = "IDLE"
<1>1. NoPhoto \in PhotoRows /\ NoPhoto.status = "NONE"
  BY DEF NoPhoto, PhotoRows, PhotoStatuses
<1>2. NoObjects \in Objects BY DEF NoObjects, Objects
<1>3. /\ NoAnalysis \in AnalysisRows
      /\ NoAnalysis.status = "NONE" /\ NoAnalysis.review = "UNREVIEWED"
  BY DEF NoAnalysis, AnalysisRows
<1>4. NoBoard \in Boards BY DEF Boards
<1>5. Idle \in Call /\ Idle.at = "IDLE" BY DEF Idle, Call
<1>6. QED BY <1>1, <1>2, <1>3, <1>4, <1>5

\* A reserved row carries no decision.
LEMMA ReservedRows ==
  ASSUME NEW revision \in Nat
  PROVE  /\ Reserved(revision) \in AnalysisRows
         /\ Reserved(revision).status = "PENDING"
         /\ Reserved(revision).review = "UNREVIEWED"
BY BlankRows DEF Reserved, AnalysisRows

-----------------------------------------------------------------------------
(***************************************************************************)
(* The inductive invariant.                                                *)
(***************************************************************************)

Out == {"REJECTED", "DELETION_PENDING"}
ReviewPhases == {"RESERVE", "INSERT", "CLEAR", "ANALYSE", "REVIEW", "DECIDE"}

\* The row a call is about to create is nobody else's.
NewRowsAreNew ==
  \A c \in Caller : call[c].at = "CREATE" =>
    /\ photo[call[c].on] = NoPhoto
    /\ \A d \in Caller \ {c} : call[d].at = "CREATE" => call[d].on # call[c].on

\* A photo once created keeps a row.
BlankMeansAbsent == \A p \in Photo : photo[p].status = "NONE" => photo[p] = NoPhoto

AnalysedPhotosExist ==
  /\ \A p \in Photo : analysis[p].status # "NONE" => photo[p].status # "NONE"
  /\ \A c \in Caller : call[c].at \in ReviewPhases => photo[call[c].on].status # "NONE"

IInv ==
  /\ TypeOK
  /\ NewRowsAreNew
  /\ BlankMeansAbsent
  /\ AnalysedPhotosExist
  /\ RejectionTakesThePhotoOut

-----------------------------------------------------------------------------
(***************************************************************************)
(* What every step does to each kind of row.                               *)
(***************************************************************************)

\* A photo's row never goes blank, and a photo that is out stays out.
PhotosAdvance ==
  /\ photo' \in [Photo -> PhotoRows]
  /\ \A p \in Photo :
       /\ photo[p].status # "NONE" => photo'[p].status # "NONE"
       /\ photo[p].status \in Out => photo'[p].status \in Out
       /\ photo'[p].status = "NONE" => photo'[p] = NoPhoto

NoRowIsNew == \A p \in Photo : photo[p] = NoPhoto => photo'[p] = NoPhoto

\* One call goes on, on a photo it may work on.
CallStep(c) ==
  /\ call' \in [Caller -> Call]
  /\ \A d \in Caller \ {c} : call'[d] = call[d]
  /\ call'[c].at = "CREATE" => Fresh(call'[c].on)
  /\ call'[c].at \in ReviewPhases => photo[call'[c].on].status # "NONE"

\* A decision to reject is only ever new together with the photo's status.
AnalysesAdvance ==
  /\ analysis' \in [Photo -> AnalysisRows]
  /\ \A p \in Photo :
       /\ analysis'[p].status # "NONE" => photo[p].status # "NONE"
       /\ analysis'[p].review = "REJECTED" =>
            analysis[p].review = "REJECTED" \/ photo'[p].status \in Out

BoardAdvances == board' \in Boards

LEMMA UnwrittenRowsAdvance ==
  ASSUME IInv
  PROVE  /\ UNCHANGED photo => PhotosAdvance /\ NoRowIsNew
         /\ UNCHANGED analysis => AnalysesAdvance
         /\ UNCHANGED board => BoardAdvances
<1>1. UNCHANGED photo => PhotosAdvance /\ NoRowIsNew
  BY DEF IInv, TypeOK, BlankMeansAbsent, PhotosAdvance, NoRowIsNew
<1>2. UNCHANGED analysis => AnalysesAdvance
  BY DEF IInv, TypeOK, AnalysedPhotosExist, AnalysesAdvance
<1>3. UNCHANGED board => BoardAdvances
  BY DEF IInv, TypeOK, BoardAdvances
<1>4. QED BY <1>1, <1>2, <1>3

\* A compare and set on the status of a photo that is not out, or is to stay out.
LEMMA UpdatingAdvances ==
  ASSUME IInv, NEW p \in Photo, NEW expected, expected # "NONE",
         NEW row \in PhotoRows, row.status # "NONE",
         expected \in Out => row.status \in Out,
         updateIfCurrent(p, expected, row)
  PROVE  PhotosAdvance /\ NoRowIsNew
<1>1. CASE ~ IsCurrent(p, expected)
  BY <1>1, UnwrittenRowsAdvance DEF updateIfCurrent
<1>2. CASE IsCurrent(p, expected)
  <2>1. photo' = [photo EXCEPT ![p] = row] /\ photo[p].status = expected
    BY <1>2 DEF updateIfCurrent, IsCurrent
  <2>2. photo[p] # NoPhoto BY <2>1, BlankRows
  <2>3. photo \in [Photo -> PhotoRows] /\ BlankMeansAbsent BY DEF IInv, TypeOK
  <2>4. photo'[p] = row /\ \A q \in Photo \ {p} : photo'[q] = photo[q]
    BY <2>1, <2>3
  <2>5. photo' \in [Photo -> PhotoRows] BY <2>1, <2>3
  <2>6. PhotosAdvance BY <2>1, <2>3, <2>4, <2>5 DEF PhotosAdvance, BlankMeansAbsent
  <2>7. NoRowIsNew BY <2>2, <2>4 DEF NoRowIsNew
  <2>8. QED BY <2>6, <2>7
<1>3. QED BY <1>1, <1>2

\* A row with another status is a row.
LEMMA MovedRows ==
  ASSUME NEW row \in PhotoRows, NEW status \in PhotoStatuses
  PROVE  /\ [row EXCEPT !.status = status] \in PhotoRows
         /\ [row EXCEPT !.status = status].status = status
BY DEF PhotoRows

\* A deletion takes the photo out.
LEMMA LeavingAdvances ==
  ASSUME IInv, NEW p \in Photo, Leave(p)
  PROVE  PhotosAdvance /\ NoRowIsNew
<1>1. CASE photo' = photo BY <1>1, UnwrittenRowsAdvance
<1>2. CASE photo[p] # NoPhoto /\ ~ photo[p].leaving
  <2>1. photo \in [Photo -> PhotoRows] /\ BlankMeansAbsent BY DEF IInv, TypeOK
  <2>2. photo' = [photo EXCEPT ![p].status = "DELETION_PENDING", ![p].leaving = TRUE]
    BY <1>2 DEF Leave
  <2>3. photo'[p].status = "DELETION_PENDING" /\ \A q \in Photo \ {p} : photo'[q] = photo[q]
    BY <2>1, <2>2 DEF PhotoRows
  <2>4. photo'[p] \in PhotoRows
    <3>1. photo'[p] = [status |-> "DELETION_PENDING", leaving |-> TRUE,
                       key |-> photo[p].key, sha |-> photo[p].sha]
      BY <2>1, <2>2 DEF PhotoRows
    <3>2. photo[p].key \in {"original", "normalized"} /\ photo[p].sha \in File \cup {None}
      BY <2>1 DEF PhotoRows
    <3>3. QED BY <3>1, <3>2 DEF PhotoRows, PhotoStatuses
  <2>5. photo' \in [Photo -> PhotoRows] BY <2>1, <2>2, <2>3, <2>4
  <2>6. PhotosAdvance BY <2>1, <2>3, <2>5 DEF PhotosAdvance, BlankMeansAbsent, Out
  <2>7. NoRowIsNew BY <1>2, <2>3 DEF NoRowIsNew
  <2>8. QED BY <2>6, <2>7
<1>3. QED BY <1>1, <1>2 DEF Leave

\* A call that goes on with something a call may remember.
LEMMA Going ==
  ASSUME IInv, NEW c \in Caller, NEW k \in Call, Goes(c, k),
         k.at = "CREATE" => Fresh(k.on),
         k.at \in ReviewPhases => photo[k.on].status # "NONE"
  PROVE  CallStep(c)
<1>1. call \in [Caller -> Call] BY DEF IInv, TypeOK
<1>2. call'[c] = k /\ \A d \in Caller \ {c} : call'[d] = call[d]
  BY <1>1 DEF Goes
<1>3. call' \in [Caller -> Call] BY <1>1 DEF Goes
<1>4. QED BY <1>2, <1>3 DEF CallStep

LEMMA Ending == ASSUME IInv, NEW c \in Caller, Ends(c) PROVE CallStep(c)
BY Going, BlankRows DEF Ends, ReviewPhases

\* A step that creates no row keeps the invariant.
LEMMA StepKeepsTheInvariant ==
  ASSUME IInv,
         (\E c \in Caller : CallStep(c)) \/ UNCHANGED call,
         property' \in PropertyStatuses, object' \in [Photo -> Objects],
         PhotosAdvance, NoRowIsNew, AnalysesAdvance, BoardAdvances
  PROVE  IInv'
<1>1. call' \in [Caller -> Call] BY DEF IInv, TypeOK, CallStep
<1>2. TypeOK' BY <1>1 DEF TypeOK, PhotosAdvance, AnalysesAdvance, BoardAdvances
<1>3. BlankMeansAbsent' BY DEF PhotosAdvance, BlankMeansAbsent
<1>4. RejectionTakesThePhotoOut'
  BY DEF IInv, RejectionTakesThePhotoOut, PhotosAdvance, AnalysesAdvance, Out
<1>5. NewRowsAreNew'
  <2>1. CASE UNCHANGED call
    <3>1. ASSUME NEW c \in Caller, call'[c].at = "CREATE"
          PROVE  photo'[call'[c].on] = NoPhoto
      <4>1. call[c].on \in Photo
        BY <2>1, <3>1, Remembers DEF IInv, TypeOK, Offering
      <4>2. QED BY <2>1, <3>1, <4>1 DEF IInv, NewRowsAreNew, NoRowIsNew
    <3>2. QED BY <2>1, <3>1 DEF IInv, NewRowsAreNew
  <2>2. ASSUME NEW c \in Caller, CallStep(c) PROVE NewRowsAreNew'
    <3>1. ASSUME NEW d \in Caller, call'[d].at = "CREATE"
          PROVE  photo'[call'[d].on] = NoPhoto
      <4>1. call'[d].on \in Photo BY <1>1, <3>1, Remembers DEF Offering
      <4>2. photo[call'[d].on] = NoPhoto
        BY <2>2, <3>1 DEF IInv, NewRowsAreNew, CallStep, Fresh
      <4>3. QED BY <4>1, <4>2 DEF NoRowIsNew
    <3>2. ASSUME NEW d \in Caller, NEW e \in Caller \ {d},
                 call'[d].at = "CREATE", call'[e].at = "CREATE"
          PROVE  call'[e].on # call'[d].on
      <4>1. CASE d = c
        BY <2>2, <3>2, <4>1 DEF CallStep, Fresh
      <4>2. CASE e = c
        BY <2>2, <3>2, <4>2 DEF CallStep, Fresh
      <4>3. CASE d # c /\ e # c
        BY <2>2, <3>2, <4>3 DEF CallStep, IInv, NewRowsAreNew
      <4>4. QED BY <4>1, <4>2, <4>3
    <3>3. QED BY <3>1, <3>2 DEF NewRowsAreNew
  <2>3. QED BY <2>1, <2>2
<1>6. AnalysedPhotosExist'
  <2>1. \A p \in Photo : analysis'[p].status # "NONE" => photo'[p].status # "NONE"
    BY DEF AnalysesAdvance, PhotosAdvance
  <2>2. ASSUME NEW d \in Caller, call'[d].at \in ReviewPhases
        PROVE  photo'[call'[d].on].status # "NONE"
    <3>1. call'[d].on \in Photo
      BY <1>1, <2>2, Remembers DEF ReviewPhases, Reserving, Seeing, Reviewing
    <3>2. photo[call'[d].on].status # "NONE"
      BY <2>2 DEF IInv, AnalysedPhotosExist, CallStep
    <3>3. QED BY <3>1, <3>2 DEF PhotosAdvance
  <2>3. QED BY <2>1, <2>2 DEF AnalysedPhotosExist
<1>7. QED BY <1>2, <1>3, <1>4, <1>5, <1>6 DEF IInv, BoardAdvances

-----------------------------------------------------------------------------
(***************************************************************************)
(* The steps.                                                              *)
(***************************************************************************)

\* A step that writes nothing but what its call remembers.
LEMMA OnlyTheCall ==
  ASSUME IInv, NEW c \in Caller, CallStep(c), UNCHANGED <<photoRows, object, reviewRows>>
  PROVE  IInv'
BY UnwrittenRowsAdvance, StepKeepsTheInvariant DEF IInv, TypeOK, photoRows, reviewRows

\* A call begins on what it reads.
LEMMA BeginningKeeps ==
  ASSUME IInv, NEW c \in Caller, NEW p \in Photo, CallBegins(c, p)
  PROVE  IInv'
<1>0. /\ photo[p] \in PhotoRows /\ analysis[p] \in AnalysisRows /\ object[p] \in Objects
      /\ AnalysedPhotosExist
  BY DEF IInv, TypeOK
<1>1. CASE RequestUpload(c, p)
  <2>1. [at |-> "CREATE", on |-> p] \in Call BY DEF Call, Offering
  <2>2. CallStep(c) BY <1>1, <2>1, Going DEF RequestUpload, ReviewPhases
  <2>3. QED BY <1>1, <2>2, OnlyTheCall DEF RequestUpload
<1>2. CASE RetryUpload(c, p)
  <2>1. [at |-> "RESET", on |-> p, was |-> photo[p].status] \in Call
    BY <1>2 DEF RetryUpload, Call, Offering
  <2>2. CallStep(c) BY <1>2, <2>1, Going DEF RetryUpload, ReviewPhases
  <2>3. QED BY <1>2, <2>2, OnlyTheCall DEF RetryUpload
<1>3. CASE ReadUpload(c, p)
  <2>1. object[p].original \in File BY <1>0, <1>3 DEF ReadUpload, Objects
  <2>2. [at |-> "RECEIVE", on |-> p, was |-> photo[p].status, file |-> object[p].original] \in Call
    BY <1>3, <2>1 DEF ReadUpload, Call, Receiving
  <2>3. CallStep(c) BY <1>3, <2>2, Going DEF ReadUpload, ReviewPhases
  <2>4. QED BY <1>3, <2>3, OnlyTheCall DEF ReadUpload
<1>4. ASSUME NEW refresh \in BOOLEAN, Analyze(c, p, refresh) PROVE IInv'
  <2>1. [at |-> "RESERVE", on |-> p, refresh |-> refresh] \in Call BY DEF Call, Reserving
  <2>2. photo[p].status # "NONE" BY <1>4 DEF Analyze
  <2>3. CallStep(c) BY <1>4, <2>1, <2>2, Going DEF Analyze
  <2>4. QED BY <1>4, <2>3, OnlyTheCall DEF Analyze
<1>5. CASE Review(c, p)
  <2>1. [at |-> "REVIEW", on |-> p, row |-> analysis[p]] \in Call
    BY <1>0, <1>5 DEF Review, Call, Reviewing, Undecided
  <2>2. photo[p].status # "NONE" BY <1>0, <1>5 DEF Review, AnalysedPhotosExist
  <2>3. CallStep(c) BY <1>5, <2>1, <2>2, Going DEF Review
  <2>4. QED BY <1>5, <2>3, OnlyTheCall DEF Review
<1>6. QED BY <1>1, <1>2, <1>3, <1>4, <1>5 DEF CallBegins

\* The one step that creates a row.
LEMMA CreatingKeeps ==
  ASSUME IInv, NEW c \in Caller, CreateAsset(c)
  PROVE  IInv'
<1> DEFINE p == call[c].on
<1>1. p \in Photo /\ photo[p] = NoPhoto
  BY Remembers DEF CreateAsset, At, IInv, TypeOK, Offering, NewRowsAreNew
<1>2. PICK row \in PhotoRows :
        row.status = "PENDING_UPLOAD" /\ photo' = [photo EXCEPT ![p] = row]
  BY BlankRows, MovedRows DEF CreateAsset, PhotoStatuses
<1>3. photo \in [Photo -> PhotoRows] BY DEF IInv, TypeOK
<1>4. photo'[p] = row /\ \A q \in Photo \ {p} : photo'[q] = photo[q]
  BY <1>1, <1>2, <1>3
<1>5. photo[p].status = "NONE" /\ analysis[p].status = "NONE"
  BY <1>1, BlankRows DEF IInv, AnalysedPhotosExist
<1>6. PhotosAdvance
  BY <1>1, <1>2, <1>3, <1>4, <1>5 DEF PhotosAdvance, IInv, BlankMeansAbsent, Out
<1>7. CallStep(c) BY Ending DEF CreateAsset
<1>8. call' = [call EXCEPT ![c] = Idle] /\ call'[c].at = "IDLE"
  BY BlankRows DEF CreateAsset, Ends, Goes, IInv, TypeOK
<1>9. TypeOK' BY <1>6, <1>7 DEF CreateAsset, IInv, TypeOK, CallStep, PhotosAdvance, reviewRows
<1>10. BlankMeansAbsent' BY <1>6 DEF PhotosAdvance, BlankMeansAbsent
<1>11. NewRowsAreNew'
  <2>1. ASSUME NEW d \in Caller, call'[d].at = "CREATE"
        PROVE  /\ d # c /\ call'[d] = call[d]
               /\ call[d].on # p /\ call[d].on \in Photo
    <3>1. d # c /\ call'[d] = call[d] BY <1>7, <1>8, <2>1 DEF CallStep
    <3>2. call[d].on # p BY <2>1, <3>1 DEF CreateAsset, At, IInv, NewRowsAreNew
    <3>3. call[d].on \in Photo BY <2>1, <3>1, Remembers DEF IInv, TypeOK, Offering
    <3>4. QED BY <3>1, <3>2, <3>3
  <2>2. QED BY <1>4, <2>1 DEF IInv, NewRowsAreNew
<1>12. AnalysedPhotosExist'
  <2>1. \A q \in Photo : photo[q].status # "NONE" => photo'[q].status # "NONE"
    BY <1>6 DEF PhotosAdvance
  <2>2. \A q \in Photo : analysis'[q].status # "NONE" => photo'[q].status # "NONE"
    BY <2>1 DEF CreateAsset, reviewRows, IInv, AnalysedPhotosExist
  <2>3. ASSUME NEW d \in Caller, call'[d].at \in ReviewPhases
        PROVE  photo'[call'[d].on].status # "NONE"
    <3>1. d # c /\ call'[d] = call[d] BY <1>7, <1>8, <2>3 DEF CallStep, ReviewPhases
    <3>2. call[d].on \in Photo
      BY <2>3, <3>1, Remembers DEF IInv, TypeOK, ReviewPhases, Reserving, Seeing, Reviewing
    <3>3. QED BY <2>1, <2>3, <3>1, <3>2 DEF IInv, AnalysedPhotosExist
  <2>4. QED BY <2>2, <2>3 DEF AnalysedPhotosExist
<1>13. RejectionTakesThePhotoOut'
  BY <1>6 DEF CreateAsset, reviewRows, IInv, RejectionTakesThePhotoOut, PhotosAdvance, Out
<1>14. QED BY <1>9, <1>10, <1>11, <1>12, <1>13 DEF IInv

\* A call that owns a photo's lifecycle moves it, or ends.
LEMMA MovingKeeps ==
  ASSUME IInv, NEW c \in Caller, NEW expected, NEW status \in PhotoStatuses, NEW next \in Call,
         call[c].on \in Photo, expected # "NONE", expected \notin Out, status # "NONE",
         next.at # "CREATE", next.at \notin ReviewPhases,
         Moves(c, expected, status, next)
  PROVE  IInv'
<1> DEFINE p == call[c].on
<1>1. photo[p] \in PhotoRows BY DEF IInv, TypeOK
<1>2. PhotosAdvance /\ NoRowIsNew BY <1>1, MovedRows, UpdatingAdvances DEF Moves
<1>3. CallStep(c) BY Going, Ending DEF Moves
<1>4. QED
  BY <1>2, <1>3, UnwrittenRowsAdvance, StepKeepsTheInvariant DEF Moves, reviewRows, IInv, TypeOK

\* An upload that is being checked.
LEMMA CheckingGoesOn ==
  ASSUME IInv, NEW c \in Caller, call[c] \in Receiving \cup Checking,
         NEW phase \in {"SNIFF", "SCAN", "PROCESS", "STORE", "STORE_THUMBNAIL", "FINISH"}
  PROVE  /\ call[c].on \in Photo /\ call[c].file \in File
         /\ With(c, phase) \in Call
         /\ With(c, phase).at # "CREATE" /\ With(c, phase).at \notin ReviewPhases
<1>1. call[c].on \in Photo /\ call[c].file \in File BY DEF Receiving, Checking
<1>2. With(c, phase) \in Call BY <1>1 DEF With, Call, Checking
<1>3. With(c, phase).at = phase BY DEF With
<1>4. QED BY <1>1, <1>2, <1>3 DEF ReviewPhases

LEMMA UploadingKeeps ==
  ASSUME IInv, NEW c \in Caller, UploadGoesOn(c)
  PROVE  IInv'
<1> DEFINE k == call[c]
<1>0. k \in Call BY DEF IInv, TypeOK
<1>a. /\ "REJECTED" \in PhotoStatuses /\ "QUARANTINED" \in PhotoStatuses
      /\ "FAILED" \in PhotoStatuses /\ "UPLOADED" \in PhotoStatuses
      /\ "SCANNING" \in PhotoStatuses /\ "PROCESSING" \in PhotoStatuses
      /\ \A status \in {"UPLOADED", "SCANNING", "PROCESSING"} : status \notin Out
      /\ Idle \in Call /\ Idle.at # "CREATE" /\ Idle.at \notin ReviewPhases
  BY BlankRows DEF PhotoStatuses, ReviewPhases, Out
<1>1. CASE CreateAsset(c) BY <1>1, CreatingKeeps
<1>2. CASE ResetUpload(c)
  <2>1. k \in Offering /\ k.at = "RESET" BY <1>0, <1>2, Remembers DEF ResetUpload, At
  <2>2. k.on \in Photo /\ k.was \in AWAITING_UPLOAD BY <2>1 DEF Offering
  <2>3. QED
    BY <1>2, <1>a, <2>2, MovingKeeps DEF ResetUpload, AWAITING_UPLOAD, Out, PhotoStatuses
<1>3. CASE Receive(c)
  <2>1. k \in Receiving BY <1>0, <1>3, Remembers DEF Receive, At
  <2>2. k.on \in Photo /\ k.was \in AWAITING_UPLOAD BY <2>1 DEF Receiving
  <2>3. /\ With(c, "SNIFF") \in Call
        /\ With(c, "SNIFF").at # "CREATE" /\ With(c, "SNIFF").at \notin ReviewPhases
    BY <2>1, CheckingGoesOn
  <2>4. k.was # "NONE" /\ k.was \notin Out BY <2>2 DEF AWAITING_UPLOAD, Out
  <2>5. Moves(c, k.was, "UPLOADED", With(c, "SNIFF")) BY <1>3 DEF Receive
  <2>6. QED BY <1>a, <2>2, <2>3, <2>4, <2>5, MovingKeeps
<1>4. CASE Sniff(c)
  <2>1. k \in Checking BY <1>0, <1>4, Remembers DEF Sniff, At
  <2>2. /\ k.on \in Photo /\ With(c, "SCAN") \in Call
        /\ With(c, "SCAN").at # "CREATE" /\ With(c, "SCAN").at \notin ReviewPhases
    BY <2>1, CheckingGoesOn
  <2>3. CASE Refuses(c, "UPLOADED", "REJECTED")
    BY <1>a, <2>2, <2>3, MovingKeeps DEF Refuses, Out
  <2>4. CASE Moves(c, "UPLOADED", "SCANNING", With(c, "SCAN"))
    BY <1>a, <2>2, <2>4, MovingKeeps
  <2>5. QED BY <1>4, <2>3, <2>4 DEF Sniff
<1>5. CASE Scan(c)
  <2>1. k \in Checking BY <1>0, <1>5, Remembers DEF Scan, At
  <2>2. /\ k.on \in Photo /\ With(c, "PROCESS") \in Call
        /\ With(c, "PROCESS").at # "CREATE" /\ With(c, "PROCESS").at \notin ReviewPhases
    BY <2>1, CheckingGoesOn
  <2>3. CASE Refuses(c, "SCANNING", "FAILED") \/ Refuses(c, "SCANNING", "QUARANTINED")
    BY <1>a, <2>2, <2>3, MovingKeeps DEF Refuses, Out
  <2>4. CASE Moves(c, "SCANNING", "PROCESSING", With(c, "PROCESS"))
    BY <1>a, <2>2, <2>4, MovingKeeps
  <2>5. QED BY <1>5, <2>3, <2>4 DEF Scan
<1>6. CASE Process(c)
  <2>1. k \in Checking BY <1>0, <1>6, Remembers DEF Process, At
  <2>2. /\ k.on \in Photo /\ With(c, "STORE") \in Call
        /\ With(c, "STORE").at # "CREATE" /\ With(c, "STORE").at \notin ReviewPhases
    BY <2>1, CheckingGoesOn
  <2>3. CASE Refuses(c, "PROCESSING", "FAILED") \/ Refuses(c, "PROCESSING", "REJECTED")
    BY <1>a, <2>2, <2>3, MovingKeeps DEF Refuses, Out
  <2>4. CASE Goes(c, With(c, "STORE")) /\ UNCHANGED <<photoRows, object, reviewRows>>
    <3>1. CallStep(c) BY <2>2, <2>4, Going DEF ReviewPhases
    <3>2. QED BY <2>4, <3>1, OnlyTheCall
  <2>5. QED BY <1>6, <2>3, <2>4 DEF Process
<1>7. CASE Store(c)
  <2>1. k \in Checking BY <1>0, <1>7, Remembers DEF Store, At
  <2>2. /\ k.on \in Photo /\ k.file \in File
        /\ \A phase \in {"STORE_THUMBNAIL", "FINISH"} :
             /\ With(c, phase) \in Call
             /\ With(c, phase).at # "CREATE" /\ With(c, phase).at \notin ReviewPhases
    BY <2>1, CheckingGoesOn
  <2>3. CallStep(c) BY <1>7, <2>2, Going DEF Store, ReviewPhases
  <2>4. object' \in [Photo -> Objects]
    <3>1. PICK variant \in {"normalized", "thumbnail"} :
            object' = [object EXCEPT ![k.on][variant] = k.file]
      BY <1>7 DEF Store
    <3>2. QED BY <2>2, <3>1 DEF IInv, TypeOK, Objects
  <2>5. QED
    BY <1>7, <2>3, <2>4, UnwrittenRowsAdvance, StepKeepsTheInvariant
    DEF Store, photoRows, reviewRows, IInv, TypeOK
<1>8. CASE Finish(c)
  <2>1. k \in Checking BY <1>0, <1>8, Remembers DEF Finish, At
  <2>2. k.on \in Photo /\ k.file \in File BY <2>1 DEF Checking
  <2>3. CallStep(c)
    <3>1. [at |-> "DISCARD", on |-> k.on] \in Call BY <2>2 DEF Call, Removing
    <3>2. QED BY <1>8, <3>1, Going, Ending DEF Finish, ReviewPhases
  <2>4. PICK row \in PhotoRows :
          row.status = "READY" /\ updateIfCurrent(k.on, "PROCESSING", row)
    <3>1. photo[k.on] \in PhotoRows BY <2>2 DEF IInv, TypeOK
    <3>2. LET row == [photo[k.on] EXCEPT
                        !.status = "READY", !.key = "normalized", !.sha = k.file]
          IN  row \in PhotoRows /\ row.status = "READY"
      BY <2>2, <3>1 DEF PhotoRows, PhotoStatuses
    <3>3. QED BY <1>8, <3>2 DEF Finish
  <2>5. PhotosAdvance /\ NoRowIsNew BY <2>2, <2>4, UpdatingAdvances DEF Out
  <2>6. QED
    BY <1>8, <2>3, <2>5, UnwrittenRowsAdvance, StepKeepsTheInvariant
    DEF Finish, reviewRows, IInv, TypeOK
<1>9. CASE Discard(c)
  <2>1. k.on \in Photo BY <1>0, <1>9, Remembers DEF Discard, At, Removing
  <2>2. CallStep(c) BY <1>9, Ending DEF Discard
  <2>3. object' \in [Photo -> Objects]
    <3>1. PICK gone : object' = IF photo[k.on].leaving
                     THEN [object EXCEPT ![k.on] = [v \in DOMAIN @ |->
                             IF v \in gone /\ v # photo[k.on].key THEN None ELSE @[v]]]
                     ELSE object
      BY <1>9 DEF Discard
    <3>2. object[k.on] \in Objects /\ object \in [Photo -> Objects] BY <2>1 DEF IInv, TypeOK
    <3>3. [v \in DOMAIN object[k.on] |->
             IF v \in gone /\ v # photo[k.on].key THEN None ELSE object[k.on][v]] \in Objects
      BY <3>2 DEF Objects
    <3>4. QED BY <2>1, <3>1, <3>2, <3>3
  <2>4. QED
    BY <1>9, <2>2, <2>3, UnwrittenRowsAdvance, StepKeepsTheInvariant
    DEF Discard, photoRows, reviewRows, IInv, TypeOK
<1>10. QED
  BY <1>1, <1>2, <1>3, <1>4, <1>5, <1>6, <1>7, <1>8, <1>9 DEF UploadGoesOn

\* A row written to asset_analyses that is no new rejection.
LEMMA WritingAdvances ==
  ASSUME IInv, NEW p \in Photo, photo[p].status # "NONE",
         NEW row \in AnalysisRows, WriteAnalysis(p, row),
         row.review = "REJECTED" => photo'[p].status \in Out
  PROVE  AnalysesAdvance
<1>1. analysis \in [Photo -> AnalysisRows] BY DEF IInv, TypeOK
<1>2. analysis'[p] = row /\ \A q \in Photo \ {p} : analysis'[q] = analysis[q]
  BY <1>1 DEF WriteAnalysis
<1>3. analysis' \in [Photo -> AnalysisRows] BY <1>1 DEF WriteAnalysis
<1>4. QED BY <1>2, <1>3 DEF AnalysesAdvance, IInv, AnalysedPhotosExist

\* A call on an analysis: its photo exists, and it may only go on or end.
LEMMA AnalysingKeeps ==
  ASSUME IInv, NEW c \in Caller,
         ReserveLook(c) \/ ReserveInsert(c) \/ ReserveClear(c) \/ Analysed(c)
  PROVE  IInv'
<1> DEFINE k == call[c]
           p == call[c].on
<1>0. k \in Call /\ analysis \in [Photo -> AnalysisRows] BY DEF IInv, TypeOK
<1>1. CASE ReserveLook(c)
  <2>1. k \in Reserving BY <1>0, <1>1, Remembers DEF ReserveLook, At
  <2>2. p \in Photo /\ k.refresh \in BOOLEAN BY <2>1 DEF Reserving
  <2>3. photo[p].status # "NONE"
    BY <1>1 DEF ReserveLook, At, IInv, AnalysedPhotosExist, ReviewPhases
  <2>4. analysis[p].revision \in Nat BY <1>0, <2>2 DEF AnalysisRows
  <2>5. [k EXCEPT !.at = "INSERT"] \in Call /\ [k EXCEPT !.at = "INSERT"].on = p
        /\ [k EXCEPT !.at = "INSERT"].at = "INSERT"
    BY <2>1 DEF Reserving, Call
  <2>6. [Analysing(c, analysis[p].revision) EXCEPT !.at = "CLEAR"] \in Call
        /\ [Analysing(c, analysis[p].revision) EXCEPT !.at = "CLEAR"].on = p
        /\ [Analysing(c, analysis[p].revision) EXCEPT !.at = "CLEAR"].at = "CLEAR"
    <3>1. Analysing(c, analysis[p].revision) \in Seeing
          /\ Analysing(c, analysis[p].revision).on = p
      BY <2>2, <2>4 DEF Analysing, Seeing
    <3>2. QED BY <3>1 DEF Seeing, Call
  <2>7. CallStep(c)
    <3>1. CASE Goes(c, [k EXCEPT !.at = "INSERT"])
      BY <2>3, <2>5, <3>1, Going
    <3>2. CASE Goes(c, [Analysing(c, analysis[p].revision) EXCEPT !.at = "CLEAR"])
      BY <2>3, <2>6, <3>2, Going
    <3>3. CASE Ends(c) BY <3>3, Ending
    <3>4. QED BY <1>1, <3>1, <3>2, <3>3 DEF ReserveLook
  <2>8. QED BY <1>1, <2>7, OnlyTheCall DEF ReserveLook
<1>2. CASE ReserveInsert(c)
  <2>1. k \in Reserving BY <1>0, <1>2, Remembers DEF ReserveInsert, At
  <2>2. p \in Photo /\ k.refresh \in BOOLEAN BY <2>1 DEF Reserving
  <2>3. photo[p].status # "NONE"
    BY <1>2 DEF ReserveInsert, At, IInv, AnalysedPhotosExist, ReviewPhases
  <2>4. ASSUME NEW revision \in Nat
        PROVE  /\ Analysing(c, revision) \in Call /\ Analysing(c, revision).on = p
               /\ Analysing(c, revision).at = "ANALYSE"
    BY <2>2 DEF Analysing, Seeing, Call
  <2>5. analysis[p].revision \in Nat BY <1>0, <2>2 DEF AnalysisRows
  <2>6. CallStep(c)
    <3>1. ASSUME NEW revision \in Nat, Goes(c, Analysing(c, revision)) PROVE CallStep(c)
      BY <2>3, <2>4, <3>1, Going
    <3>2. CASE Ends(c) BY <3>2, Ending
    <3>3. QED BY <1>2, <2>5, <3>1, <3>2 DEF ReserveInsert
  <2>7. AnalysesAdvance
    <3>1. CASE UNCHANGED analysis BY <3>1, UnwrittenRowsAdvance
    <3>2. CASE WriteAnalysis(p, Reserved(1))
      BY <2>2, <2>3, <3>2, ReservedRows, WritingAdvances
    <3>3. QED BY <1>2, <3>1, <3>2 DEF ReserveInsert
  <2>8. QED
    BY <1>2, <2>6, <2>7, UnwrittenRowsAdvance, StepKeepsTheInvariant
    DEF ReserveInsert, photoRows, IInv, TypeOK
<1>3. CASE ReserveClear(c)
  <2>1. k \in Seeing BY <1>0, <1>3, Remembers DEF ReserveClear, At
  <2>2. p \in Photo /\ k.revision \in Nat BY <2>1 DEF Seeing
  <2>3. photo[p].status # "NONE"
    BY <1>3 DEF ReserveClear, At, IInv, AnalysedPhotosExist, ReviewPhases
  <2>4. [k EXCEPT !.at = "ANALYSE"] \in Call /\ [k EXCEPT !.at = "ANALYSE"].on = p
        /\ [k EXCEPT !.at = "ANALYSE"].at = "ANALYSE"
    BY <2>1 DEF Seeing, Call
  <2>5. CallStep(c) BY <1>3, <2>3, <2>4, Going DEF ReserveClear
  <2>6. AnalysesAdvance
    BY <1>3, <2>2, <2>3, ReservedRows, WritingAdvances DEF ReserveClear
  <2>7. QED
    BY <1>3, <2>5, <2>6, UnwrittenRowsAdvance, StepKeepsTheInvariant
    DEF ReserveClear, photoRows, IInv, TypeOK
<1>4. CASE Analysed(c)
  <2>1. k \in Seeing BY <1>0, <1>4, Remembers DEF Analysed, At
  <2>2. p \in Photo /\ k.revision \in Nat BY <2>1 DEF Seeing
  <2>3. photo[p].status # "NONE"
    BY <1>4 DEF Analysed, At, IInv, AnalysedPhotosExist, ReviewPhases
  <2>4. CallStep(c) BY <1>4, Ending DEF Analysed
  <2>5. ASSUME NEW revision \in Nat, NEW room \in Room
        PROVE  LET seen == [Reserved(revision) EXCEPT !.status = "SUCCEEDED", !.room = room]
               IN  seen \in AnalysisRows /\ seen.review = "UNREVIEWED"
    <3>1. Reserved(revision) \in AnalysisRows /\ Reserved(revision).review = "UNREVIEWED"
      BY ReservedRows
    <3>2. QED BY <3>1 DEF AnalysisRows
  <2>6. AnalysesAdvance
    <3>1. CASE WriteAnalysis(p, [Reserved(k.revision) EXCEPT !.status = "FAILED"])
      <4>1. LET failed == [Reserved(k.revision) EXCEPT !.status = "FAILED"]
            IN  failed \in AnalysisRows /\ failed.review = "UNREVIEWED"
        BY <2>2, ReservedRows DEF AnalysisRows
      <4>2. QED BY <2>2, <2>3, <3>1, <4>1, WritingAdvances
    <3>2. ASSUME NEW revision \in Nat, NEW room \in Room,
                 WriteAnalysis(p, [Reserved(revision) EXCEPT !.status = "SUCCEEDED", !.room = room])
          PROVE  AnalysesAdvance
      BY <2>2, <2>3, <2>5, <3>2, WritingAdvances
    <3>3. (IF k.refresh THEN k.revision + 1 ELSE k.revision) \in Nat BY <2>2
    <3>4. QED BY <1>4, <3>1, <3>2, <3>3 DEF Analysed
  <2>7. QED
    BY <1>4, <2>4, <2>6, UnwrittenRowsAdvance, StepKeepsTheInvariant
    DEF Analysed, photoRows, IInv, TypeOK
<1>5. QED BY <1>1, <1>2, <1>3, <1>4

\* A review that decides: only a rejection writes one, and the photo with it.
LEMMA DecidingKeeps ==
  ASSUME IInv, NEW c \in Caller, ReadPhoto(c) \/ Approve(c) \/ Reject(c) \/ Correct(c)
  PROVE  IInv'
<1> DEFINE k == call[c]
           p == call[c].on
<1>0. k \in Call BY DEF IInv, TypeOK
<1>1. CASE ReadPhoto(c)
  <2>1. k \in Reviewing BY <1>0, <1>1, Remembers DEF ReadPhoto, At
  <2>2. p \in Photo /\ k.row \in Undecided BY <2>1 DEF Reviewing
  <2>3. photo[p].status # "NONE"
    BY <1>1 DEF ReadPhoto, At, IInv, AnalysedPhotosExist, ReviewPhases
  <2>4. photo[p].status \in PhotoStatuses \ {"NONE"}
    BY <2>2, <2>3 DEF IInv, TypeOK, PhotoRows
  <2>5. [at |-> "DECIDE", on |-> p, row |-> k.row, was |-> photo[p].status] \in Call
    BY <2>2, <2>4 DEF Call, Reviewing
  <2>6. CallStep(c) BY <1>1, <2>3, <2>5, Going DEF ReadPhoto
  <2>7. QED BY <1>1, <2>6, OnlyTheCall DEF ReadPhoto
<1>2. ASSUME At(c, "DECIDE")
      PROVE  /\ p \in Photo /\ k.row \in AnalysisRows /\ k.row.review = "UNREVIEWED"
             /\ k.was # "NONE" /\ photo[p].status # "NONE"
             /\ \A room \in Room \cup {Absent}, order \in Order \cup {Absent} :
                  LET row == [k.row EXCEPT !.override = room, !.order = order]
                  IN  row \in AnalysisRows /\ row.review = "UNREVIEWED"
             /\ LET row == [k.row EXCEPT !.review = "APPROVED"]
                IN  row \in AnalysisRows /\ row.review = "APPROVED"
             /\ [k.row EXCEPT !.review = "REJECTED"] \in AnalysisRows
  <2>1. k \in Reviewing /\ k.at = "DECIDE" BY <1>0, <1>2, Remembers DEF At
  <2>2. p \in Photo /\ k.row \in Undecided /\ k.was # "NONE" BY <2>1 DEF Reviewing
  <2>3. photo[p].status # "NONE"
    BY <2>1 DEF IInv, AnalysedPhotosExist, ReviewPhases
  <2>4. k.row \in AnalysisRows /\ k.row.review = "UNREVIEWED" BY <2>2 DEF Undecided
  <2>5. QED BY <2>2, <2>3, <2>4 DEF AnalysisRows
<1>3. CASE Approve(c)
  <2>1. CallStep(c) BY <1>3, Ending DEF Approve
  <2>2. AnalysesAdvance BY <1>2, <1>3, WritingAdvances DEF Approve
  <2>3. QED
    BY <1>3, <2>1, <2>2, UnwrittenRowsAdvance, StepKeepsTheInvariant
    DEF Approve, photoRows, IInv, TypeOK
<1>4. CASE Correct(c)
  <2>1. CallStep(c) BY <1>4, Ending DEF Correct
  <2>2. AnalysesAdvance BY <1>2, <1>4, WritingAdvances DEF Correct
  <2>3. QED
    BY <1>4, <2>1, <2>2, UnwrittenRowsAdvance, StepKeepsTheInvariant
    DEF Correct, photoRows, IInv, TypeOK
<1>5. CASE Reject(c)
  <2>1. CallStep(c) BY <1>5, Ending DEF Reject
  <2>2. CASE ~ IsCurrent(p, k.was)
    BY <1>5, <2>1, <2>2, UnwrittenRowsAdvance, StepKeepsTheInvariant
    DEF Reject, IInv, TypeOK
  <2>3. CASE IsCurrent(p, k.was)
    <3>1. photo[p] \in PhotoRows /\ photo \in [Photo -> PhotoRows]
      BY <1>2, <1>5 DEF Reject, IInv, TypeOK
    <3>2. PICK row \in PhotoRows :
            row.status = "REJECTED" /\ updateIfCurrent(p, k.was, row)
      BY <1>5, <2>3, <3>1, MovedRows DEF Reject, PhotoStatuses
    <3>3. PhotosAdvance /\ NoRowIsNew
      BY <1>2, <1>5, <3>2, UpdatingAdvances DEF Reject, Out
    <3>4. photo'[p].status \in Out
      BY <1>2, <1>5, <2>3, <3>1, <3>2 DEF updateIfCurrent, Reject, Out
    <3>5. AnalysesAdvance
      BY <1>2, <1>5, <2>3, <3>4, WritingAdvances DEF Reject
    <3>6. QED
      BY <1>5, <2>1, <3>3, <3>5, UnwrittenRowsAdvance, StepKeepsTheInvariant
      DEF Reject, IInv, TypeOK
  <2>4. QED BY <2>2, <2>3
<1>6. QED BY <1>1, <1>3, <1>4, <1>5

\* What a composition reads.
LEMMA EligibleInputs ==
  ASSUME TypeOK
  PROVE  selectEligibleAnalyses \in Readings
<1> DEFINE approved ==
             {q \in Photo : analysis[q].status = "SUCCEEDED" /\ analysis[q].review = "APPROVED"}
<1>1. ASSUME NEW p \in Photo PROVE Input(p) \in Inputs /\ Input(p).photo = p
  <2>1. analysis[p] \in AnalysisRows BY DEF TypeOK
  <2>2. /\ analysis[p].revision \in Nat /\ analysis[p].order \in Order \cup {Absent}
        /\ analysis[p].override \in Room \cup {Absent} /\ analysis[p].room \in Room \cup {Absent}
    BY <2>1 DEF AnalysisRows
  <2>3. effectiveRoomType(analysis[p]) \in Room \cup {Absent}
    BY <2>2 DEF effectiveRoomType
  <2>4. roomOrderRank(analysis[p].room) \in Nat
    BY <2>2, PhotoAssumption DEF roomOrderRank, ROOM_ORDER_LENGTH
  <2>5. QED BY <2>2, <2>3, <2>4 DEF Input, Inputs
<1>2. selectEligibleAnalyses = {Input(p) : p \in approved} BY DEF selectEligibleAnalyses
<1>3. IsFiniteSet(approved) BY PhotoAssumption, FS_Subset
<1>4. IsFiniteSet({Input(p) : p \in approved})
  <2> DEFINE f == [p \in approved |-> Input(p)]
  <2> HIDE DEF approved
  <2>1. f \in Surjection(approved, {Input(p) : p \in approved}) BY DEF Surjection
  <2> QED BY <1>3, <2>1, FS_Surjection
<1>5. QED BY <1>1, <1>2, <1>4 DEF Readings

\* What is done to the property, and its storyboard.
LEMMA PropertyCallKeeps ==
  ASSUME IInv, NEW c \in Caller, PropertyCall(c)
  PROVE  IInv'
<1>0. call[c] \in Call BY DEF IInv, TypeOK
<1>1. CASE MarkDeleted(c)
  <2>1. [at |-> "LIST"] \in Call BY DEF Call
  <2>2. CallStep(c) BY <1>1, <2>1, Going DEF MarkDeleted, ReviewPhases
  <2>3. QED
    BY <1>1, <2>2, UnwrittenRowsAdvance, StepKeepsTheInvariant
    DEF MarkDeleted, reviewRows, IInv, TypeOK, PropertyStatuses
<1>2. CASE ListPhotos(c)
  <2>1. ASSUME NEW left \in SUBSET Photo PROVE [at |-> "REMOVE", left |-> left] \in Call
    BY DEF Call, Removing
  <2>2. CallStep(c) BY <1>2, <2>1, Going DEF ListPhotos, ReviewPhases
  <2>3. QED BY <1>2, <2>2, OnlyTheCall DEF ListPhotos
<1>3. ASSUME NEW p \in Photo, RemovePhoto(c, p) PROVE IInv'
  <2>1. call[c].left \subseteq Photo
    BY <1>0, <1>3, Remembers DEF RemovePhoto, At, Removing
  <2>2. [at |-> "REMOVE", left |-> call[c].left \ {p}] \in Call
    BY <2>1 DEF Call, Removing
  <2>3. CallStep(c)
    <3>1. CASE Goes(c, Idle) BY <3>1, Ending DEF Ends
    <3>2. CASE Goes(c, [at |-> "REMOVE", left |-> call[c].left \ {p}])
      BY <2>2, <3>2, Going DEF ReviewPhases
    <3>3. QED BY <1>3, <3>1, <3>2 DEF RemovePhoto
  <2>4. PhotosAdvance /\ NoRowIsNew BY <1>3, LeavingAdvances DEF RemovePhoto
  <2>5. QED
    BY <1>3, <2>3, <2>4, UnwrittenRowsAdvance, StepKeepsTheInvariant
    DEF RemovePhoto, reviewRows, IInv, TypeOK
<1>4. CASE Compose(c)
  <2>1. [at |-> "SAVE", inputs |-> selectEligibleAnalyses] \in Call
    BY EligibleInputs DEF Call, Saving, IInv
  <2>2. CallStep(c) BY <1>4, <2>1, Going DEF Compose, ReviewPhases
  <2>3. QED BY <1>4, <2>2, OnlyTheCall DEF Compose
<1>5. CASE SaveComposition(c)
  <2>1. call[c].inputs \in Readings
    BY <1>0, <1>5, Remembers DEF SaveComposition, At, Saving
  <2>2. BoardAdvances
    BY <1>5, <2>1 DEF SaveComposition, BoardAdvances, Boards, Composed
  <2>3. CallStep(c) BY <1>5, Ending DEF SaveComposition
  <2>4. QED
    BY <1>5, <2>2, <2>3, UnwrittenRowsAdvance, StepKeepsTheInvariant
    DEF SaveComposition, photoRows, IInv, TypeOK
<1>6. QED BY <1>1, <1>2, <1>3, <1>4, <1>5 DEF PropertyCall

\* What a customer does in one statement.
LEMMA CustomerStepKeeps ==
  ASSUME IInv, NEW p \in Photo, CustomerStep(p)
  PROVE  IInv'
<1>1. CASE RequestDeletion(p)
  <2>1. PhotosAdvance /\ NoRowIsNew BY <1>1, LeavingAdvances DEF RequestDeletion
  <2>2. QED
    BY <1>1, <2>1, UnwrittenRowsAdvance, StepKeepsTheInvariant
    DEF RequestDeletion, reviewRows, IInv, TypeOK
<1>2. ASSUME NEW file \in File, Upload(p, file) PROVE IInv'
  <2>1. object' \in [Photo -> Objects] BY <1>2 DEF Upload, IInv, TypeOK, Objects
  <2>2. QED
    BY <1>2, <2>1, UnwrittenRowsAdvance, StepKeepsTheInvariant
    DEF Upload, photoRows, reviewRows, IInv, TypeOK
<1>3. QED BY <1>1, <1>2 DEF CustomerStep

-----------------------------------------------------------------------------
(***************************************************************************)
(* The theorems.                                                           *)
(***************************************************************************)

\* The rows are of their kinds, a photo's row never goes blank and is never created
\* twice, and what is analysed has a photo.
THEOREM Invariant == Spec => []IInv
<1>1. Init => IInv
  <2>1. SUFFICES ASSUME Init PROVE IInv OBVIOUS
  <2>2. TypeOK BY <2>1, BlankRows DEF Init, TypeOK, PropertyStatuses
  <2>3. /\ \A c \in Caller : call[c].at = "IDLE"
        /\ \A p \in Photo : photo[p] = NoPhoto /\ analysis[p].status = "NONE"
                            /\ analysis[p].review = "UNREVIEWED"
    BY <2>1, BlankRows DEF Init
  <2>4. QED
    BY <2>2, <2>3 DEF IInv, NewRowsAreNew, BlankMeansAbsent, AnalysedPhotosExist, ReviewPhases,
       RejectionTakesThePhotoOut
<1>2. IInv /\ [Next]_vars => IInv'
  <2>1. SUFFICES ASSUME IInv, [Next]_vars PROVE IInv' OBVIOUS
  <2>2. ASSUME NEW c \in Caller, UploadGoesOn(c) PROVE IInv' BY <2>1, <2>2, UploadingKeeps
  <2>3. ASSUME NEW c \in Caller, ReviewGoesOn(c) PROVE IInv'
    BY <2>1, <2>3, AnalysingKeeps, DecidingKeeps DEF ReviewGoesOn
  <2>4. ASSUME NEW c \in Caller, PropertyCall(c) PROVE IInv' BY <2>1, <2>4, PropertyCallKeeps
  <2>5. ASSUME NEW c \in Caller, CallEnds(c) PROVE IInv'
    BY <2>1, <2>5, Ending, OnlyTheCall DEF CallEnds
  <2>6. ASSUME NEW c \in Caller, NEW p \in Photo, CallBegins(c, p) PROVE IInv'
    BY <2>1, <2>6, BeginningKeeps
  <2>7. ASSUME NEW p \in Photo, CustomerStep(p) PROVE IInv' BY <2>1, <2>7, CustomerStepKeeps
  <2>8. CASE UNCHANGED vars
    BY <2>1, <2>8, UnwrittenRowsAdvance, StepKeepsTheInvariant
    DEF vars, photoRows, reviewRows, IInv, TypeOK
  <2>9. QED BY <2>1, <2>2, <2>3, <2>4, <2>5, <2>6, <2>7, <2>8 DEF Next
<1>3. QED BY <1>1, <1>2, PTL DEF Spec

\* An analysis that says REJECTED is about a photo that is out, whatever was read
\* before and written after (reject of analysis-service.ts, with the blind writes
\* of updateAnalysis).
THEOREM RejectionsHold == Spec => []RejectionTakesThePhotoOut
<1>1. IInv => RejectionTakesThePhotoOut BY DEF IInv
<1>2. QED BY <1>1, Invariant, PTL

-----------------------------------------------------------------------------
(***************************************************************************)
(* What photos promise.                                                    *)
(***************************************************************************)

\* From the first move of its row until its last a completion is alone with its
\* photo: only FAILED would let another one in, and only its owner writes that.
CheckingPhases == {"SNIFF", "SCAN", "PROCESS", "STORE", "STORE_THUMBNAIL", "FINISH"}
Unfinished == {"UPLOADED", "SCANNING", "PROCESSING", "REJECTED", "DELETION_PENDING"}

Checks(c) == call[c].at \in CheckingPhases

CheckersAreAlone ==
  \A c, d \in Caller : c # d /\ Checks(c) /\ Checks(d) => call[c].on # call[d].on

\* What a completion has checked and stored so far.
CheckFits(c) ==
  LET p    == call[c].on
      file == call[c].file
  IN  Checks(c) =>
        /\ photo[p].status \in Unfinished
        /\ call[c].at # "SNIFF" => file \notin WrongType
        /\ call[c].at \notin {"SNIFF", "SCAN"} => file \notin Infected
        /\ call[c].at \in {"STORE", "STORE_THUMBNAIL", "FINISH"} => file \notin WrongShape
        /\ call[c].at \in {"STORE_THUMBNAIL", "FINISH"} =>
             photo[p].leaving \/ object[p].normalized = file
        /\ call[c].at = "FINISH" => photo[p].leaving \/ object[p].thumbnail = file

\* A READY photo shows one good file in both forms, and only deletion is final.
RowFits(p) ==
  /\ photo[p].leaving <=> photo[p].status = "DELETION_PENDING"
  /\ photo[p].status = "READY" =>
       object[p].normalized \in Good /\ object[p].thumbnail = object[p].normalized

OfferInv ==
  /\ CheckersAreAlone
  /\ \A c \in Caller : CheckFits(c)
  /\ \A p \in Photo : RowFits(p)

\* A step of the contract, or none.
Promise ==
  [\E p \in Photo : Contract!Offer(p) \/ Contract!Refuse(p) \/ Contract!Delete(p)]_(Contract!promised)

\* What the contract sees of a photo.
SeenAsBefore(p) ==
  /\ StandingOf(photo'[p].status) = StandingOf(photo[p].status)
  /\ Shown(p, "normalized")' = Shown(p, "normalized")
  /\ Shown(p, "thumbnail")' = Shown(p, "thumbnail")

LEMMA NothingSeen ==
  ASSUME \A p \in Photo : SeenAsBefore(p)
  PROVE  Promise
BY DEF SeenAsBefore, Promise, Contract!promised

\* One photo is offered, refused or deleted.
LEMMA OneSeen ==
  ASSUME NEW p \in Photo,
         \A q \in Photo \ {p} : SeenAsBefore(q),
         \/ /\ StandingOf(photo[p].status) = "AWAITED"
            /\ photo'[p].status = "READY"
            /\ object'[p].normalized \in Good
            /\ object'[p].thumbnail = object'[p].normalized
         \/ /\ StandingOf(photo[p].status) \in {"AWAITED", "OFFERED"}
            /\ photo'[p].status \in {"REJECTED", "QUARANTINED"}
         \/ /\ StandingOf(photo[p].status) # "LEAVING"
            /\ photo'[p].status = "DELETION_PENDING"
  PROVE  Promise
<1> DEFINE standing == [q \in Photo |-> StandingOf(photo[q].status)]
           image == [q \in Photo |-> Shown(q, "normalized")]
           small == [q \in Photo |-> Shown(q, "thumbnail")]
<1>1. /\ standing' = [standing EXCEPT ![p] = StandingOf(photo'[p].status)]
      /\ image' = [image EXCEPT ![p] = Shown(p, "normalized")']
      /\ small' = [small EXCEPT ![p] = Shown(p, "thumbnail")']
  BY DEF SeenAsBefore
<1>2. CASE photo'[p].status = "READY"
  <2>1. /\ Shown(p, "normalized")' = object'[p].normalized
        /\ Shown(p, "thumbnail")' = object'[p].normalized
        /\ StandingOf(photo'[p].status) = "OFFERED"
    BY <1>2 DEF Shown, StandingOf
  <2>2. standing[p] = "AWAITED" /\ object'[p].normalized \in Good
    BY <1>2 DEF StandingOf
  <2>3. Contract!Offer(p)
    BY <1>1, <2>1, <2>2 DEF Contract!Offer
  <2> QED BY <2>3 DEF Promise
<1>3. CASE photo'[p].status # "READY"
  <2>1. Shown(p, "normalized")' = "none" /\ Shown(p, "thumbnail")' = "none"
    BY <1>3 DEF Shown, None
  <2>2. CASE photo'[p].status \in {"REJECTED", "QUARANTINED"}
    <3>1. StandingOf(photo'[p].status) = "REFUSED"
      BY <2>2 DEF StandingOf
    <3>2. standing[p] \in {"AWAITED", "OFFERED"}
      BY <2>2
    <3>3. Contract!Refuse(p)
      BY <1>1, <2>1, <3>1, <3>2 DEF Contract!Refuse, Contract!GoesAway
    <3> QED BY <3>3 DEF Promise
  <2>3. CASE photo'[p].status = "DELETION_PENDING"
    <3>1. StandingOf(photo'[p].status) = "LEAVING"
      BY <2>3 DEF StandingOf
    <3>2. standing[p] # "LEAVING"
      BY <2>3
    <3>3. Contract!Delete(p)
      BY <1>1, <2>1, <3>1, <3>2 DEF Contract!Delete, Contract!GoesAway
    <3> QED BY <3>3 DEF Promise
  <2> QED BY <1>3, <2>2, <2>3
<1> QED BY <1>2, <1>3

\* What a step of others leaves to a completion that goes on after it.
LEMMA StillFits ==
  ASSUME IInv, NEW c \in Caller, CheckFits(c), call'[c] = call[c],
         Checks(c) =>
           LET p == call[c].on
           IN  /\ photo'[p].status \in Unfinished
               /\ photo[p].leaving => photo'[p].leaving
               /\ \/ photo'[p].leaving
                  \/ /\ object'[p].normalized = object[p].normalized
                     /\ object'[p].thumbnail = object[p].thumbnail
  PROVE  CheckFits(c)'
BY DEF CheckFits, Checks

\* The photo a completion is about.
LEMMA CheckedPhoto ==
  ASSUME IInv, NEW c \in Caller, Checks(c)
  PROVE  call[c].on \in Photo /\ call[c].file \in File
BY Remembers DEF IInv, TypeOK, Checks, CheckingPhases, Checking

\* A step that moves no row and no derivative of a photo that stays.
LEMMA UnseenKeeps ==
  ASSUME IInv, OfferInv,
         \A d \in Caller : call'[d] = call[d] \/ call'[d].at \notin CheckingPhases,
         UNCHANGED photo,
         \A p \in Photo : \/ photo[p].leaving
                          \/ /\ object'[p].normalized = object[p].normalized
                             /\ object'[p].thumbnail = object[p].thumbnail
  PROVE  OfferInv' /\ Promise
<1>1. CheckersAreAlone'
  BY DEF OfferInv, CheckersAreAlone, Checks
<1>2. ASSUME NEW d \in Caller
      PROVE  CheckFits(d)'
  <2>1. CASE call'[d].at \notin CheckingPhases
    BY <2>1 DEF CheckFits, Checks
  <2>2. CASE call'[d] = call[d]
    <3>1. CheckFits(d) BY DEF OfferInv
    <3>2. Checks(d) => photo[call[d].on].status \in Unfinished BY <3>1 DEF CheckFits
    <3> QED BY <2>2, <3>1, <3>2, StillFits, CheckedPhoto
  <2> QED BY <2>1, <2>2
<1>3. ASSUME NEW p \in Photo
      PROVE  RowFits(p)' /\ SeenAsBefore(p)
  <2>1. RowFits(p) BY DEF OfferInv
  <2> QED BY <2>1 DEF RowFits, SeenAsBefore, Shown
<1> QED BY <1>1, <1>2, <1>3, NothingSeen DEF OfferInv

\* A step that moves one row, and not to READY.
LEMMA RowMoves ==
  ASSUME IInv, OfferInv, NEW p \in Photo, NEW row \in PhotoRows,
         \A d \in Caller : call'[d] = call[d] \/ call'[d].at \notin CheckingPhases,
         UNCHANGED object,
         photo' = [photo EXCEPT ![p] = row],
         row.leaving <=> row.status = "DELETION_PENDING",
         ~ photo[p].leaving,
         \A d \in Caller : call'[d] = call[d] /\ Checks(d) /\ call[d].on = p
                             => row.status \in Unfinished,
         \/ row.status = "DELETION_PENDING"
         \/ row.status \in {"REJECTED", "QUARANTINED"}
         \/ /\ StandingOf(photo[p].status) = "AWAITED"
            /\ StandingOf(row.status) = "AWAITED"
  PROVE  OfferInv' /\ Promise
<1>1. CheckersAreAlone'
  BY DEF OfferInv, CheckersAreAlone, Checks
<1>2. photo'[p] = row /\ \A q \in Photo \ {p} : photo'[q] = photo[q]
  BY DEF IInv, TypeOK
<1>3. ASSUME NEW d \in Caller
      PROVE  CheckFits(d)'
  <2>1. CASE call'[d].at \notin CheckingPhases
    BY <2>1 DEF CheckFits, Checks
  <2>2. CASE call'[d] = call[d]
    <3>1. CheckFits(d) BY DEF OfferInv
    <3>2. Checks(d) => photo'[call[d].on].status \in Unfinished
      BY <1>2, <2>2, <3>1, CheckedPhoto DEF CheckFits
    <3>3. Checks(d) => (photo[call[d].on].leaving => photo'[call[d].on].leaving)
      BY <1>2, CheckedPhoto
    <3> QED BY <2>2, <3>1, <3>2, <3>3, StillFits
  <2> QED BY <2>1, <2>2
<1>4. row.status # "READY"
  BY DEF StandingOf
<1>5. ASSUME NEW q \in Photo
      PROVE  RowFits(q)'
  <2>1. RowFits(q) BY DEF OfferInv
  <2> QED BY <1>2, <1>4, <2>1 DEF RowFits
<1>6. \A q \in Photo \ {p} : SeenAsBefore(q)
  BY <1>2 DEF SeenAsBefore, Shown
<1>7. photo[p].status # "DELETION_PENDING" /\ photo[p].status \in PhotoStatuses
  BY DEF OfferInv, RowFits, IInv, TypeOK, PhotoRows
<1>8. StandingOf(photo[p].status) # "LEAVING"
  BY <1>7 DEF StandingOf, PhotoStatuses
<1>9. Promise
  <2>1. CASE row.status = "DELETION_PENDING"
    BY <1>2, <1>6, <1>8, <2>1, OneSeen
  <2>2. CASE row.status \in {"REJECTED", "QUARANTINED"}
    <3>1. CASE StandingOf(photo[p].status) \in {"AWAITED", "OFFERED"}
      BY <1>2, <1>6, <2>2, <3>1, OneSeen
    <3>2. CASE StandingOf(photo[p].status) \notin {"AWAITED", "OFFERED"}
      <4>1. photo[p].status \in {"REJECTED", "QUARANTINED"}
        BY <1>7, <3>2 DEF StandingOf, PhotoStatuses
      <4>2. SeenAsBefore(p)
        BY <1>2, <2>2, <4>1 DEF SeenAsBefore, StandingOf, Shown
      <4> QED BY <1>6, <4>2, NothingSeen
    <3> QED BY <3>1, <3>2
  <2>3. CASE StandingOf(photo[p].status) = "AWAITED" /\ StandingOf(row.status) = "AWAITED"
    <3>1. photo[p].status # "READY" BY <2>3 DEF StandingOf
    <3>2. SeenAsBefore(p)
      BY <1>2, <1>4, <2>3, <3>1 DEF SeenAsBefore, Shown
    <3> QED BY <1>6, <3>2, NothingSeen
  <2> QED BY <2>1, <2>2, <2>3
<1> QED BY <1>1, <1>3, <1>5, <1>9 DEF OfferInv

\* A completion goes on with the same file.
LEMMA CheckGoesOn ==
  ASSUME IInv, OfferInv, NEW c \in Caller, NEW p \in Photo, NEW phase \in CheckingPhases,
         call[c].on = p,
         Checks(c) \/ photo[p].status \in AWAITING_UPLOAD,
         Goes(c, With(c, phase)),
         photo' \in [Photo -> PhotoRows],
         \A q \in Photo \ {p} : photo'[q] = photo[q] /\ object'[q] = object[q],
         \/ photo'[p] = photo[p] /\ Checks(c)
         \/ /\ photo[p].status \in {"PENDING_UPLOAD", "FAILED", "UPLOADED", "SCANNING"}
            /\ photo'[p].status \in {"UPLOADED", "SCANNING", "PROCESSING"}
            /\ ~ photo[p].leaving /\ ~ photo'[p].leaving,
         phase # "SNIFF" => call[c].file \notin WrongType,
         phase \notin {"SNIFF", "SCAN"} => call[c].file \notin Infected,
         phase \in {"STORE", "STORE_THUMBNAIL", "FINISH"} => call[c].file \notin WrongShape,
         phase \in {"STORE_THUMBNAIL", "FINISH"} =>
           photo'[p].leaving \/ object'[p].normalized = call[c].file,
         phase = "FINISH" => photo'[p].leaving \/ object'[p].thumbnail = call[c].file
  PROVE  OfferInv' /\ Promise
<1>1. /\ call'[c] = [at |-> phase, on |-> p, file |-> call[c].file]
      /\ \A d \in Caller \ {c} : call'[d] = call[d]
  BY DEF Goes, With, IInv, TypeOK
<1>2. \A d \in Caller \ {c} : Checks(d) => call[d].on # p
  <2> SUFFICES ASSUME NEW d \in Caller \ {c}, Checks(d), call[d].on = p
               PROVE  FALSE
    OBVIOUS
  <2>1. photo[p].status \in Unfinished
    BY DEF OfferInv, CheckFits
  <2>2. ~ Checks(c)
    BY DEF OfferInv, CheckersAreAlone
  <2> QED BY <2>1, <2>2 DEF AWAITING_UPLOAD, Unfinished
<1>3. CheckersAreAlone'
  BY <1>1, <1>2 DEF OfferInv, CheckersAreAlone, Checks
<1>4. Checks(c) => photo[p].status \in Unfinished
  BY DEF OfferInv, CheckFits
<1>5. photo'[p].status \in Unfinished
  BY <1>4 DEF Unfinished
<1>6. CheckFits(c)'
  BY <1>1, <1>5 DEF CheckFits
<1>7. ASSUME NEW d \in Caller \ {c}
      PROVE  CheckFits(d)'
  <2>1. CheckFits(d) /\ call'[d] = call[d] BY <1>1 DEF OfferInv
  <2>2. Checks(d) => call[d].on \in Photo \ {p} /\ photo[call[d].on].status \in Unfinished
    BY <1>2, <2>1, CheckedPhoto DEF CheckFits
  <2> QED BY <2>1, <2>2, StillFits
<1>8. RowFits(p) BY DEF OfferInv
<1>9. RowFits(p)' /\ SeenAsBefore(p)
  <2>1. CASE photo'[p] = photo[p] /\ Checks(c)
    <3>1. photo[p].status # "READY" BY <1>4, <2>1 DEF Unfinished
    <3> QED BY <1>8, <2>1, <3>1 DEF RowFits, SeenAsBefore, Shown
  <2>2. CASE /\ photo[p].status \in {"PENDING_UPLOAD", "FAILED", "UPLOADED", "SCANNING"}
             /\ photo'[p].status \in {"UPLOADED", "SCANNING", "PROCESSING"}
             /\ ~ photo[p].leaving /\ ~ photo'[p].leaving
    BY <2>2 DEF RowFits, SeenAsBefore, Shown, StandingOf
  <2> QED BY <2>1, <2>2
<1>10. \A q \in Photo \ {p} : RowFits(q)' /\ SeenAsBefore(q)
  BY DEF OfferInv, RowFits, SeenAsBefore, Shown
<1>11. Promise BY <1>9, <1>10, NothingSeen
<1> QED BY <1>3, <1>6, <1>7, <1>9, <1>10, <1>11 DEF OfferInv

\* A row with another status, and the rest of it as it was.
LEMMA RowWith ==
  ASSUME IInv, NEW p \in Photo, NEW status \in PhotoStatuses
  PROVE  \E row \in PhotoRows :
           /\ row = [photo[p] EXCEPT !.status = status]
           /\ row.status = status /\ row.leaving = photo[p].leaving
<1>1. photo[p] \in PhotoRows
  BY DEF IInv, TypeOK
<1>2. [photo[p] EXCEPT !.status = status].leaving = photo[p].leaving
  BY <1>1 DEF PhotoRows
<1> QED BY <1>1, <1>2, MovedRows

\* It is written while the photo's status is the one expected.
LEMMA Moved ==
  ASSUME IInv, NEW p \in Photo, NEW expected, NEW row \in PhotoRows,
         row.leaving = photo[p].leaving,
         IsCurrent(p, expected), updateIfCurrent(p, expected, row)
  PROVE  /\ photo[p].status = expected /\ ~ photo[p].leaving /\ row.leaving = FALSE
         /\ photo' = [photo EXCEPT ![p] = row]
<1>1. photo[p].leaving \in BOOLEAN
  BY DEF IInv, TypeOK, PhotoRows
<1>2. photo[p].status = expected /\ ~ photo[p].leaving
  BY DEF IsCurrent
<1>3. photo' = [photo EXCEPT ![p] = row]
  BY DEF updateIfCurrent
<1> QED BY <1>1, <1>2, <1>3

\* A call that is over checks nothing.
LEMMA Over ==
  ASSUME IInv, NEW c \in Caller, Ends(c)
  PROVE  \A d \in Caller : call'[d] = call[d] \/ call'[d].at \notin CheckingPhases
BY BlankRows DEF Ends, Goes, CheckingPhases, IInv, TypeOK

\* A call that goes on with anything but a check.
LEMMA Elsewhere ==
  ASSUME IInv, NEW c \in Caller, NEW k, k.at \notin CheckingPhases, Goes(c, k)
  PROVE  \A d \in Caller : call'[d] = call[d] \/ call'[d].at \notin CheckingPhases
BY DEF Goes, IInv, TypeOK

\* A move whose photo is no longer as it was expected only ends the call.
LEMMA MissingFits ==
  ASSUME IInv, OfferInv, NEW c \in Caller, NEW expected, NEW status, NEW next,
         Moves(c, expected, status, next), ~ IsCurrent(call[c].on, expected)
  PROVE  OfferInv' /\ Promise
<1>1. Ends(c) /\ UNCHANGED <<photo, object>>
  BY DEF Moves, updateIfCurrent
<1> QED BY <1>1, Over, UnseenKeeps

\* The move that ends a call: refused, or back to awaiting an upload.
LEMMA LastMoveFits ==
  ASSUME IInv, OfferInv, NEW c \in Caller, call[c].on \in Photo,
         NEW expected \in {"PENDING_UPLOAD", "FAILED", "UPLOADED", "SCANNING", "PROCESSING"},
         NEW status \in {"REJECTED", "QUARANTINED", "FAILED", "PENDING_UPLOAD"},
         Checks(c) \/ expected \in AWAITING_UPLOAD,
         Moves(c, expected, status, Idle)
  PROVE  OfferInv' /\ Promise
<1>a. PICK p \in Photo : p = call[c].on
  OBVIOUS
<1>b. status \in PhotoStatuses
  BY DEF PhotoStatuses
<1>c. PICK row \in PhotoRows :
        /\ row = [photo[p] EXCEPT !.status = status]
        /\ row.status = status /\ row.leaving = photo[p].leaving
  BY <1>b, RowWith
<1>0. p \in Photo /\ p = call[c].on /\ row = [photo[p] EXCEPT !.status = status]
  BY <1>a, <1>c
<1>1. CASE ~ IsCurrent(p, expected)
  BY <1>0, <1>1, MissingFits
<1>2. CASE IsCurrent(p, expected)
  <2>1. Ends(c) /\ UNCHANGED object /\ updateIfCurrent(p, expected, row)
    BY <1>0, <1>2 DEF Moves, Ends
  <2>2. /\ photo[p].status = expected /\ ~ photo[p].leaving
        /\ row \in PhotoRows /\ row.status = status /\ row.leaving = FALSE
        /\ photo' = [photo EXCEPT ![p] = row]
    <3>1. p \in Photo /\ row \in PhotoRows /\ row.status = status
          /\ row.leaving = photo[p].leaving
      BY <1>a, <1>c
    <3>2. updateIfCurrent(p, expected, row)
      BY <2>1
    <3>3. /\ photo[p].status = expected /\ ~ photo[p].leaving /\ row.leaving = FALSE
          /\ photo' = [photo EXCEPT ![p] = row]
      BY <1>2, <3>1, <3>2, Moved
    <3> QED BY <3>1, <3>3
  <2>3. ASSUME NEW d \in Caller, call'[d] = call[d], Checks(d), call[d].on = p
        PROVE  FALSE
    <3>1. d # c
      <4>1. call'[c] = Idle
        BY <2>1 DEF Ends, Goes, IInv, TypeOK
      <4> QED BY <2>3, <4>1, BlankRows DEF Checks, CheckingPhases
    <3>2. ~ Checks(c)
      BY <1>0, <2>3, <3>1 DEF OfferInv, CheckersAreAlone
    <3>3. photo[p].status \in Unfinished
      BY <2>3 DEF OfferInv, CheckFits
    <3> QED BY <2>2, <3>2, <3>3 DEF AWAITING_UPLOAD, Unfinished
  <2>4. StandingOf(expected) = "AWAITED"
    BY DEF StandingOf
  <2>5. status \in {"REJECTED", "QUARANTINED"} \/ StandingOf(status) = "AWAITED"
    BY DEF StandingOf
  <2> QED BY <1>0, <2>1, <2>2, <2>3, <2>4, <2>5, Over, RowMoves
<1> QED BY <1>1, <1>2

\* A completion moves its photo and goes on.
LEMMA NextMoveFits ==
  ASSUME IInv, OfferInv, NEW c \in Caller, call[c].on \in Photo,
         NEW expected \in {"PENDING_UPLOAD", "FAILED", "UPLOADED", "SCANNING"},
         NEW status \in {"UPLOADED", "SCANNING", "PROCESSING"},
         NEW phase \in {"SNIFF", "SCAN", "PROCESS"},
         Checks(c) \/ expected \in AWAITING_UPLOAD,
         phase # "SNIFF" => call[c].file \notin WrongType,
         phase = "PROCESS" => call[c].file \notin Infected,
         Moves(c, expected, status, With(c, phase))
  PROVE  OfferInv' /\ Promise
<1>a. PICK p \in Photo : p = call[c].on
  OBVIOUS
<1>b. status \in PhotoStatuses
  BY DEF PhotoStatuses
<1>c. PICK row \in PhotoRows :
        /\ row = [photo[p] EXCEPT !.status = status]
        /\ row.status = status /\ row.leaving = photo[p].leaving
  BY <1>b, RowWith
<1>0. p \in Photo /\ p = call[c].on /\ row = [photo[p] EXCEPT !.status = status]
  BY <1>a, <1>c
<1>1. CASE ~ IsCurrent(p, expected)
  BY <1>0, <1>1, MissingFits
<1>2. CASE IsCurrent(p, expected)
  <2>1. Goes(c, With(c, phase)) /\ UNCHANGED object /\ updateIfCurrent(p, expected, row)
    BY <1>0, <1>2 DEF Moves
  <2>2. /\ photo[p].status = expected /\ ~ photo[p].leaving
        /\ row \in PhotoRows /\ row.status = status /\ row.leaving = FALSE
        /\ photo' = [photo EXCEPT ![p] = row]
    <3>1. p \in Photo /\ row \in PhotoRows /\ row.status = status
          /\ row.leaving = photo[p].leaving
      BY <1>a, <1>c
    <3>2. updateIfCurrent(p, expected, row)
      BY <2>1
    <3>3. /\ photo[p].status = expected /\ ~ photo[p].leaving /\ row.leaving = FALSE
          /\ photo' = [photo EXCEPT ![p] = row]
      BY <1>2, <3>1, <3>2, Moved
    <3> QED BY <3>1, <3>3
  <2>3. /\ photo' \in [Photo -> PhotoRows] /\ photo'[p] = row
        /\ \A q \in Photo \ {p} : photo'[q] = photo[q]
    BY <1>0, <2>2 DEF IInv, TypeOK
  <2>4. phase \in CheckingPhases /\ phase \notin {"STORE", "STORE_THUMBNAIL", "FINISH"}
    BY DEF CheckingPhases
  <2> QED BY <1>0, <2>1, <2>2, <2>3, <2>4, CheckGoesOn
<1> QED BY <1>1, <1>2

\* A photo is taken out for good.
LEMMA LeavingFits ==
  ASSUME IInv, OfferInv, NEW p \in Photo, Leave(p), UNCHANGED object,
         \A d \in Caller : call'[d] = call[d] \/ call'[d].at \notin CheckingPhases
  PROVE  OfferInv' /\ Promise
<1>1. CASE photo' = photo
  BY <1>1, UnseenKeeps
<1>2. CASE photo[p] # NoPhoto /\ ~ photo[p].leaving
  <2>1. photo[p] \in PhotoRows BY DEF IInv, TypeOK
  <2> DEFINE row == [status |-> "DELETION_PENDING", leaving |-> TRUE, key |-> photo[p].key,
                     sha |-> photo[p].sha]
  <2>2. row \in PhotoRows
    BY <2>1 DEF PhotoRows, PhotoStatuses
  <2>3. photo' = [photo EXCEPT ![p] = row]
    BY <1>2, <2>1 DEF Leave, PhotoRows, IInv, TypeOK
  <2>4. row.leaving /\ row.status = "DELETION_PENDING" /\ row.status \in Unfinished
    BY DEF Unfinished
  <2> HIDE DEF row
  <2> QED BY <1>2, <2>2, <2>3, <2>4, RowMoves
<1> QED BY <1>1, <1>2 DEF Leave

LEMMA UploadingFits ==
  ASSUME IInv, OfferInv, NEW c \in Caller, UploadGoesOn(c)
  PROVE  OfferInv' /\ Promise
<1> DEFINE k == call[c]
<1>0. k \in Call BY DEF IInv, TypeOK
<1>1. CASE CreateAsset(c)
  <2> DEFINE p == call[c].on
             row == [NoPhoto EXCEPT !.status = "PENDING_UPLOAD"]
  <2>1. p \in Photo /\ photo[p] = NoPhoto
    BY <1>0, <1>1, Remembers DEF CreateAsset, At, Offering, IInv, NewRowsAreNew
  <2>2. /\ row \in PhotoRows /\ row.status = "PENDING_UPLOAD" /\ row.leaving = FALSE
        /\ photo[p].leaving = FALSE /\ photo[p].status = "NONE"
    <3>1. NoPhoto.leaving = FALSE /\ NoPhoto.status = "NONE" BY DEF NoPhoto
    <3>2. row \in PhotoRows /\ row.status = "PENDING_UPLOAD" BY BlankRows, MovedRows DEF PhotoStatuses
    <3>3. row.leaving = FALSE BY <3>1, BlankRows DEF PhotoRows
    <3> QED BY <2>1, <3>1, <3>2, <3>3
  <2>3. /\ photo' = [photo EXCEPT ![p] = row] /\ UNCHANGED object /\ Ends(c)
        /\ StandingOf("NONE") = "AWAITED" /\ StandingOf("PENDING_UPLOAD") = "AWAITED"
    BY <1>1 DEF CreateAsset, StandingOf
  <2>4. \A d \in Caller : Checks(d) => call[d].on # p
    BY <2>2 DEF OfferInv, CheckFits, Unfinished
  <2> HIDE DEF p, row
  <2> QED BY <2>1, <2>2, <2>3, <2>4, Over, RowMoves
<1>2. CASE ResetUpload(c)
  <2>1. k.on \in Photo /\ k.was \in AWAITING_UPLOAD
    BY <1>0, <1>2, Remembers DEF ResetUpload, At, Offering
  <2> QED BY <1>2, <2>1, LastMoveFits DEF ResetUpload, AWAITING_UPLOAD
<1>3. CASE Receive(c)
  <2>1. k.on \in Photo /\ k.was \in AWAITING_UPLOAD
    BY <1>0, <1>3, Remembers DEF Receive, At, Receiving
  <2> QED BY <1>3, <2>1, NextMoveFits DEF Receive, AWAITING_UPLOAD
<1>4. CASE Sniff(c)
  <2>1. Checks(c) BY <1>4 DEF Sniff, At, Checks, CheckingPhases
  <2>2. CASE Refuses(c, "UPLOADED", "REJECTED")
    BY <2>1, <2>2, CheckedPhoto, LastMoveFits DEF Refuses
  <2>3. CASE call[c].file \notin WrongType /\ Moves(c, "UPLOADED", "SCANNING", With(c, "SCAN"))
    BY <2>1, <2>3, CheckedPhoto, NextMoveFits
  <2> QED BY <1>4, <2>2, <2>3 DEF Sniff
<1>5. CASE Scan(c)
  <2>1. Checks(c) BY <1>5 DEF Scan, At, Checks, CheckingPhases
  <2>2. call[c].file \notin WrongType
    BY <1>5, <2>1 DEF Scan, At, OfferInv, CheckFits
  <2>3. CASE Refuses(c, "SCANNING", "FAILED") \/ Refuses(c, "SCANNING", "QUARANTINED")
    BY <2>1, <2>3, CheckedPhoto, LastMoveFits DEF Refuses
  <2>4. CASE /\ call[c].file \notin Infected
             /\ Moves(c, "SCANNING", "PROCESSING", With(c, "PROCESS"))
    BY <2>1, <2>2, <2>4, CheckedPhoto, NextMoveFits
  <2> QED BY <1>5, <2>3, <2>4 DEF Scan
<1>6. CASE Process(c)
  <2>1. Checks(c) BY <1>6 DEF Process, At, Checks, CheckingPhases
  <2>2. call[c].file \notin WrongType /\ call[c].file \notin Infected
    BY <1>6, <2>1 DEF Process, At, OfferInv, CheckFits
  <2>3. CASE Refuses(c, "PROCESSING", "FAILED") \/ Refuses(c, "PROCESSING", "REJECTED")
    BY <2>1, <2>3, CheckedPhoto, LastMoveFits DEF Refuses
  <2>4. CASE /\ call[c].file \notin WrongShape
             /\ Goes(c, With(c, "STORE"))
             /\ UNCHANGED <<photoRows, object, reviewRows>>
    BY <2>1, <2>2, <2>4, CheckedPhoto, CheckGoesOn DEF photoRows, CheckingPhases, IInv, TypeOK
  <2> QED BY <1>6, <2>3, <2>4 DEF Process
<1>7. CASE Store(c)
  <2>1. Checks(c) BY <1>7 DEF Store, At, Checks, CheckingPhases
  <2>2. /\ call[c].file \notin WrongType /\ call[c].file \notin Infected
        /\ call[c].file \notin WrongShape
        /\ At(c, "STORE_THUMBNAIL") =>
             photo[call[c].on].leaving \/ object[call[c].on].normalized = call[c].file
    BY <1>7, <2>1 DEF Store, At, OfferInv, CheckFits
  <2>3. call[c].on \in Photo /\ object \in [Photo -> Objects] /\ photo' = photo
        /\ photo \in [Photo -> PhotoRows]
    BY <1>7, <2>1, CheckedPhoto DEF Store, photoRows, IInv, TypeOK
  <2>4. CASE At(c, "STORE")
    <3>1. /\ object' = [object EXCEPT ![call[c].on].normalized = call[c].file]
          /\ Goes(c, With(c, "STORE_THUMBNAIL"))
      BY <1>7, <2>3, <2>4 DEF Store, Objects
    <3>2. /\ object'[call[c].on].normalized = call[c].file
          /\ \A q \in Photo \ {call[c].on} : object'[q] = object[q]
      BY <2>3, <3>1 DEF Objects
    <3> QED BY <2>1, <2>2, <2>3, <3>1, <3>2, CheckGoesOn DEF CheckingPhases
  <2>5. CASE At(c, "STORE_THUMBNAIL")
    <3>1. /\ object' = [object EXCEPT ![call[c].on].thumbnail = call[c].file]
          /\ Goes(c, With(c, "FINISH"))
      BY <1>7, <2>3, <2>5 DEF Store, At, Objects
    <3>2. /\ object'[call[c].on].thumbnail = call[c].file
          /\ object'[call[c].on].normalized = object[call[c].on].normalized
          /\ \A q \in Photo \ {call[c].on} : object'[q] = object[q]
      BY <2>3, <3>1 DEF Objects
    <3> QED BY <2>1, <2>2, <2>3, <2>5, <3>1, <3>2, CheckGoesOn DEF CheckingPhases
  <2> QED BY <1>7, <2>4, <2>5 DEF Store
<1>8. CASE Finish(c)
  <2> DEFINE p == call[c].on
             row == [photo[p] EXCEPT !.status = "READY", !.key = "normalized",
                                     !.sha = call[c].file]
  <2>1. Checks(c) BY <1>8 DEF Finish, At, Checks, CheckingPhases
  <2>2. /\ p \in Photo /\ call[c].file \in File /\ photo[p] \in PhotoRows
        /\ photo \in [Photo -> PhotoRows]
    BY <2>1, CheckedPhoto DEF IInv, TypeOK
  <2>3. CASE ~ IsCurrent(p, "PROCESSING")
    <3>1. Goes(c, [at |-> "DISCARD", on |-> p]) /\ UNCHANGED <<photo, object>>
      BY <1>8, <2>3 DEF Finish, updateIfCurrent
    <3>2. [at |-> "DISCARD", on |-> p].at \notin CheckingPhases
      BY DEF CheckingPhases
    <3> QED BY <3>1, <3>2, Elsewhere, UnseenKeeps
  <2>4. CASE IsCurrent(p, "PROCESSING")
    <3>1. Ends(c) /\ UNCHANGED object /\ photo' = [photo EXCEPT ![p] = row]
      BY <1>8, <2>4 DEF Finish, updateIfCurrent
    <3>2. photo[p].status = "PROCESSING" /\ photo[p].leaving = FALSE
      BY <2>2, <2>4 DEF IsCurrent, PhotoRows
    <3>3. row.status = "READY" /\ row.leaving = FALSE
      BY <2>2, <3>2 DEF PhotoRows
    <3>4. /\ object[p].normalized = call[c].file /\ object[p].thumbnail = call[c].file
          /\ call[c].file \in Good
      BY <1>8, <2>1, <2>2, <3>2 DEF Finish, At, OfferInv, CheckFits, Good
    <3> HIDE DEF row
    <3>5. photo'[p] = row /\ \A q \in Photo \ {p} : photo'[q] = photo[q]
      BY <2>2, <3>1
    <3>6. ASSUME NEW d \in Caller
          PROVE  CheckFits(d)'
      <4>1. CASE d = c
        <5>1. call'[c] = Idle BY <3>1 DEF Ends, Goes, IInv, TypeOK
        <5> QED BY <4>1, <5>1, BlankRows DEF CheckFits, Checks, CheckingPhases
      <4>2. CASE d # c
        <5>1. call'[d] = call[d] /\ CheckFits(d)
          BY <3>1, <4>2 DEF Ends, Goes, OfferInv, IInv, TypeOK
        <5>2. Checks(d) => /\ call[d].on \in Photo \ {p}
                           /\ photo[call[d].on].status \in Unfinished
          BY <2>1, <4>2, <5>1, CheckedPhoto DEF OfferInv, CheckersAreAlone, CheckFits
        <5> QED BY <3>1, <3>5, <5>1, <5>2, StillFits
      <4> QED BY <4>1, <4>2
    <3>7. CheckersAreAlone'
      BY <3>1, Over DEF OfferInv, CheckersAreAlone, Checks
    <3>8. ASSUME NEW q \in Photo
          PROVE  RowFits(q)'
      <4>1. RowFits(q) BY DEF OfferInv
      <4> QED BY <3>1, <3>3, <3>4, <3>5, <4>1 DEF RowFits
    <3>9. \A q \in Photo \ {p} : SeenAsBefore(q)
      BY <3>1, <3>5 DEF SeenAsBefore, Shown
    <3>10. StandingOf(photo[p].status) = "AWAITED"
      BY <3>2 DEF StandingOf
    <3>11. Promise
      <4>1. object'[p].normalized \in Good /\ object'[p].thumbnail = object'[p].normalized
        BY <3>1, <3>4
      <4> HIDE DEF p
      <4> QED BY <2>2, <3>3, <3>5, <3>9, <3>10, <4>1, OneSeen
    <3> QED BY <3>6, <3>7, <3>8, <3>11 DEF OfferInv
  <2> QED BY <2>3, <2>4
<1>9. CASE Discard(c)
  <2>1. call[c].on \in Photo
    BY <1>0, <1>9, Remembers DEF Discard, At, Removing
  <2>2. Ends(c) /\ UNCHANGED photo
    BY <1>9 DEF Discard, photoRows
  <2>3. \A p \in Photo : photo[p].leaving \/ object'[p] = object[p]
    BY <1>9, <2>1 DEF Discard, IInv, TypeOK
  <2> QED BY <2>2, <2>3, Over, UnseenKeeps
<1> QED BY <1>1, <1>2, <1>3, <1>4, <1>5, <1>6, <1>7, <1>8, <1>9 DEF UploadGoesOn

LEMMA BeginningFits ==
  ASSUME IInv, OfferInv, NEW c \in Caller, NEW p \in Photo, CallBegins(c, p)
  PROVE  OfferInv' /\ Promise
<1>1. PICK k : k.at \notin CheckingPhases /\ Goes(c, k) /\ UNCHANGED <<photo, object>>
  <2>1. CASE RequestUpload(c, p)
    <3>1. [at |-> "CREATE", on |-> p].at \notin CheckingPhases BY DEF CheckingPhases
    <3> QED BY <2>1, <3>1 DEF RequestUpload, photoRows
  <2>2. CASE RetryUpload(c, p)
    <3>1. [at |-> "RESET", on |-> p, was |-> photo[p].status].at \notin CheckingPhases
      BY DEF CheckingPhases
    <3> QED BY <2>2, <3>1 DEF RetryUpload, photoRows
  <2>3. CASE ReadUpload(c, p)
    <3>1. [at |-> "RECEIVE", on |-> p, was |-> photo[p].status,
           file |-> object[p].original].at \notin CheckingPhases
      BY DEF CheckingPhases
    <3> QED BY <2>3, <3>1 DEF ReadUpload, photoRows
  <2>4. ASSUME NEW refresh, Analyze(c, p, refresh)
        PROVE  \E k : k.at \notin CheckingPhases /\ Goes(c, k) /\ UNCHANGED <<photo, object>>
    <3>1. [at |-> "RESERVE", on |-> p, refresh |-> refresh].at \notin CheckingPhases
      BY DEF CheckingPhases
    <3> QED BY <2>4, <3>1 DEF Analyze, photoRows
  <2>5. CASE Review(c, p)
    <3>1. [at |-> "REVIEW", on |-> p, row |-> analysis[p]].at \notin CheckingPhases
      BY DEF CheckingPhases
    <3> QED BY <2>5, <3>1 DEF Review, photoRows
  <2> QED BY <2>1, <2>2, <2>3, <2>4, <2>5 DEF CallBegins
<1> QED BY <1>1, Elsewhere, UnseenKeeps

LEMMA ReviewingFits ==
  ASSUME IInv, OfferInv, NEW c \in Caller, ReviewGoesOn(c)
  PROVE  OfferInv' /\ Promise
<1> DEFINE k == call[c]
<1>0. k \in Call BY DEF IInv, TypeOK
<1>1. CASE Reject(c)
  <2>1. k \in Reviewing /\ k.at = "DECIDE" BY <1>0, <1>1, Remembers DEF Reject, At
  <2>2. PICK p \in Photo : p = call[c].on BY <2>1 DEF Reviewing
  <2>3. CASE ~ IsCurrent(p, k.was)
    BY <1>1, <2>2, <2>3, Over, UnseenKeeps DEF Reject
  <2>4. CASE IsCurrent(p, k.was)
    <3>0. "REJECTED" \in PhotoStatuses BY DEF PhotoStatuses
    <3>1. PICK row \in PhotoRows :
            /\ row = [photo[p] EXCEPT !.status = "REJECTED"]
            /\ row.status = "REJECTED" /\ row.leaving = photo[p].leaving
      BY <3>0, RowWith
    <3>2. Ends(c) /\ UNCHANGED object /\ updateIfCurrent(p, k.was, row)
      BY <1>1, <2>2, <2>4, <3>1 DEF Reject
    <3>3. "REJECTED" \in Unfinished BY DEF Unfinished
    <3>4. /\ ~ photo[p].leaving
          /\ row \in PhotoRows /\ row.status = "REJECTED" /\ row.leaving = FALSE
          /\ photo' = [photo EXCEPT ![p] = row]
      BY <2>4, <3>1, <3>2, Moved
    <3> QED BY <3>2, <3>3, <3>4, Over, RowMoves
  <2> QED BY <2>3, <2>4
<1>2. CASE ReserveInsert(c) \/ ReserveLook(c) \/ ReserveClear(c) \/ ReadPhoto(c)
           \/ Analysed(c) \/ Approve(c) \/ Correct(c)
  <2>1. UNCHANGED <<photo, object>>
    BY <1>2 DEF ReserveInsert, ReserveLook, ReserveClear, ReadPhoto, Analysed, Approve, Correct,
       photoRows
  <2>2. (\E phase : phase \notin CheckingPhases /\ \E r : Goes(c, r) /\ r.at = phase) \/ Ends(c)
    <3>1. CASE Analysed(c) \/ Approve(c) \/ Correct(c)
      BY <3>1 DEF Analysed, Approve, Correct
    <3>2. CASE ReserveLook(c)
      <4>1. [call[c] EXCEPT !.at = "INSERT"].at = "INSERT"
        BY <1>0, <3>2, Remembers DEF ReserveLook, At, Reserving
      <4>2. \A revision : [Analysing(c, revision) EXCEPT !.at = "CLEAR"].at = "CLEAR"
        BY DEF Analysing
      <4>3. \/ Goes(c, [call[c] EXCEPT !.at = "INSERT"])
            \/ Goes(c, [Analysing(c, analysis[call[c].on].revision) EXCEPT !.at = "CLEAR"])
            \/ Ends(c)
        BY <3>2 DEF ReserveLook
      <4> QED BY <4>1, <4>2, <4>3 DEF CheckingPhases
    <3>3. CASE ReserveInsert(c)
      <4>1. \A revision : Analysing(c, revision).at = "ANALYSE"
        BY DEF Analysing
      <4>2. Ends(c) \/ \E revision : Goes(c, Analysing(c, revision))
        BY <3>3 DEF ReserveInsert
      <4> QED BY <4>1, <4>2 DEF CheckingPhases
    <3>4. CASE ReserveClear(c)
      <4>1. [call[c] EXCEPT !.at = "ANALYSE"].at = "ANALYSE"
        BY <1>0, <3>4, Remembers DEF ReserveClear, At, Seeing
      <4> QED BY <3>4, <4>1 DEF ReserveClear, CheckingPhases
    <3>5. CASE ReadPhoto(c)
      <4>1. [at |-> "DECIDE", on |-> k.on, row |-> k.row, was |-> photo[k.on].status].at = "DECIDE"
        OBVIOUS
      <4> QED BY <3>5, <4>1 DEF ReadPhoto, CheckingPhases
    <3> QED BY <1>2, <3>1, <3>2, <3>3, <3>4, <3>5
  <2> QED BY <2>1, <2>2, Over, Elsewhere, UnseenKeeps
<1> QED BY <1>1, <1>2 DEF ReviewGoesOn

LEMMA PropertyCallFits ==
  ASSUME IInv, OfferInv, NEW c \in Caller, PropertyCall(c) \/ CallEnds(c)
  PROVE  OfferInv' /\ Promise
<1>1. CASE MarkDeleted(c)
  <2>1. [at |-> "LIST"].at \notin CheckingPhases BY DEF CheckingPhases
  <2> QED BY <1>1, <2>1, Elsewhere, UnseenKeeps DEF MarkDeleted
<1>2. CASE ListPhotos(c)
  <2>1. \A left : [at |-> "REMOVE", left |-> left].at \notin CheckingPhases BY DEF CheckingPhases
  <2>2. PICK left : Goes(c, [at |-> "REMOVE", left |-> left])
    BY <1>2 DEF ListPhotos
  <2> QED BY <1>2, <2>1, <2>2, Elsewhere, UnseenKeeps DEF ListPhotos, photoRows
<1>3. ASSUME NEW p \in Photo, RemovePhoto(c, p)
      PROVE  OfferInv' /\ Promise
  <2>1. \A left : [at |-> "REMOVE", left |-> left].at \notin CheckingPhases BY DEF CheckingPhases
  <2>2. Ends(c) \/ \E left : Goes(c, [at |-> "REMOVE", left |-> left])
    BY <1>3 DEF RemovePhoto, Ends
  <2>3. \A d \in Caller : call'[d] = call[d] \/ call'[d].at \notin CheckingPhases
    BY <2>1, <2>2, Over, Elsewhere
  <2> QED BY <1>3, <2>3, LeavingFits DEF RemovePhoto
<1>4. CASE Compose(c)
  <2>1. [at |-> "SAVE", inputs |-> selectEligibleAnalyses].at \notin CheckingPhases
    BY DEF CheckingPhases
  <2> QED BY <1>4, <2>1, Elsewhere, UnseenKeeps DEF Compose, photoRows
<1>5. CASE SaveComposition(c) \/ CallEnds(c)
  BY <1>5, Over, UnseenKeeps DEF SaveComposition, CallEnds, photoRows
<1> QED BY <1>1, <1>2, <1>3, <1>4, <1>5 DEF PropertyCall

LEMMA CustomerStepFits ==
  ASSUME IInv, OfferInv, NEW p \in Photo, CustomerStep(p)
  PROVE  OfferInv' /\ Promise
<1>1. CASE RequestDeletion(p)
  BY <1>1, LeavingFits DEF RequestDeletion
<1>2. ASSUME NEW file \in File, Upload(p, file)
      PROVE  OfferInv' /\ Promise
  <2>1. \A q \in Photo : /\ object'[q].normalized = object[q].normalized
                         /\ object'[q].thumbnail = object[q].thumbnail
    BY <1>2 DEF Upload, IInv, TypeOK, Objects
  <2> QED BY <1>2, <2>1, UnseenKeeps DEF Upload, photoRows
<1> QED BY <1>1, <1>2 DEF CustomerStep

\* A READY photo shows, in both forms, one file that passed every check; what was
\* refused is not READY again and what is being deleted stays so: however the
\* statements of completions, retries, reviews, deletions and cleanups of any
\* number of calls interleave (asset-service.ts over updateIfCurrent).
THEOREM PhotosAreKept == Spec => PhotosKeepTheirContract
<1>1. Init => OfferInv /\ Contract!ContractInit
  <2> SUFFICES ASSUME Init PROVE OfferInv /\ Contract!ContractInit
    OBVIOUS
  <2>1. /\ \A c \in Caller : call[c].at = "IDLE"
        /\ \A p \in Photo : photo[p].status = "NONE" /\ photo[p].leaving = FALSE
    BY BlankRows DEF Init, NoPhoto
  <2>2. OfferInv
    BY <2>1 DEF OfferInv, CheckersAreAlone, CheckFits, Checks, CheckingPhases, RowFits
  <2>3. Contract!ContractInit
    BY <2>1 DEF Contract!ContractInit, StandingOf, Shown, None
  <2> QED BY <2>2, <2>3
<1>2. IInv /\ OfferInv /\ [Next]_vars => OfferInv' /\ Promise
  <2> SUFFICES ASSUME IInv, OfferInv, [Next]_vars PROVE OfferInv' /\ Promise
    OBVIOUS
  <2>1. CASE UNCHANGED vars
    BY <2>1, UnseenKeeps DEF vars, photoRows
  <2> QED
    BY <2>1, UploadingFits, ReviewingFits, PropertyCallFits, BeginningFits, CustomerStepFits
       DEF Next
<1> QED BY <1>1, <1>2, Invariant, PTL
        DEF Spec, PhotosKeepTheirContract, Contract!ContractSpec, Promise

-----------------------------------------------------------------------------
(***************************************************************************)
(* The order and the seconds of the scenes.                                *)
(***************************************************************************)

\* What the two rules are given.
Ranked == [order : Nat \cup {Absent}, room : Nat \cup {Absent}, suggested : Nat \cup {Absent},
           photo : Nat, revision : Nat]

\* The keys are numbers, and what is decided about two photos leaves one of three.
LEMMA Keys ==
  ASSUME NEW a \in Ranked, NEW b \in Ranked
  PROVE  /\ primaryKey(a) \in Int /\ rankOf(a.room) \in Int
         /\ a.suggested \in Int /\ a.photo \in Nat
         /\ ~ Decided(a, b) /\ ~ Decided(b, a) <=>
              /\ primaryKey(a) = primaryKey(b) /\ Explicit(a) = Explicit(b)
              /\ rankOf(a.room) = rankOf(b.room)
<1>1. \A x \in Ranked : /\ primaryKey(x) \in Int /\ rankOf(x.room) \in Int
                        /\ x.suggested \in Int /\ x.photo \in Nat
  BY DEF Ranked, primaryKey, rankOf, Absent, FALLBACK_RANK
<1>2. CASE primaryKey(a) # primaryKey(b)
  BY <1>1, <1>2 DEF Decided
<1>3. CASE primaryKey(a) = primaryKey(b) /\ (Explicit(a) # Explicit(b))
  BY <1>1, <1>3 DEF Decided, Explicit
<1>4. CASE primaryKey(a) = primaryKey(b) /\ (Explicit(a) = Explicit(b))
  BY <1>1, <1>4 DEF Decided
<1>5. QED BY <1>1, <1>2, <1>3, <1>4

\* What is decided is a strict order, and what is left open stays so between others.
LEMMA DecisionsAreOrdered ==
  ASSUME NEW a \in Ranked, NEW b \in Ranked, NEW c \in Ranked
  PROVE  /\ ~ (Decided(a, b) /\ Decided(b, a))
         /\ Decided(a, b) /\ ~ Decided(c, b) => Decided(a, c)
<1>1. \A x \in Ranked : primaryKey(x) \in Int /\ rankOf(x.room) \in Int BY Keys
<1>2. ~ (Decided(a, b) /\ Decided(b, a)) BY <1>1 DEF Decided
<1>3. ASSUME Decided(a, b), ~ Decided(c, b) PROVE Decided(a, c)
  <2>1. primaryKey(a) <= primaryKey(b) /\ primaryKey(b) <= primaryKey(c)
    BY <1>1, <1>3 DEF Decided
  <2>2. CASE primaryKey(a) < primaryKey(b) \/ primaryKey(b) < primaryKey(c)
    BY <1>1, <2>1, <2>2 DEF Decided
  <2>3. CASE primaryKey(a) = primaryKey(b) /\ primaryKey(b) = primaryKey(c)
    BY <1>1, <1>3, <2>3 DEF Decided, Explicit
  <2>4. QED BY <1>1, <2>1, <2>2, <2>3
<1>4. QED BY <1>2, <1>3

\* The comparison of two photos leaves nothing to the order they arrive in: it is
\* a strict order, and two different photos are always told apart, although a
\* priority, a room and a missing suggestion share one scale (orderScenes).
THEOREM ScenesHaveOneOrder ==
  /\ \A a \in Ranked : ~ Precedes(a, a)
  /\ \A a, b \in Ranked : a.photo # b.photo => Precedes(a, b) \/ Precedes(b, a)
  /\ \A a, b, c \in Ranked : Precedes(a, b) /\ Precedes(b, c) => Precedes(a, c)
<1>1. \A a \in Ranked : ~ Precedes(a, a)
  BY Keys, DecisionsAreOrdered DEF Precedes, SuggestedBefore
<1>2. ASSUME NEW a \in Ranked, NEW b \in Ranked, a.photo # b.photo
      PROVE  Precedes(a, b) \/ Precedes(b, a)
  <2>1. \/ SuggestedBefore(a.suggested, b.suggested)
        \/ SuggestedBefore(b.suggested, a.suggested)
        \/ a.suggested = b.suggested
    BY Keys DEF SuggestedBefore
  <2>2. a.photo < b.photo \/ b.photo < a.photo BY <1>2, Keys
  <2>3. QED BY <2>1, <2>2 DEF Precedes
<1>3. ASSUME NEW a \in Ranked, NEW b \in Ranked, NEW c \in Ranked,
             Precedes(a, b), Precedes(b, c)
      PROVE  Precedes(a, c)
  <2>1. ~ Decided(b, a) /\ ~ Decided(c, b)
    BY <1>3, DecisionsAreOrdered DEF Precedes
  <2>2. CASE Decided(a, b) BY <2>1, <2>2, DecisionsAreOrdered DEF Precedes
  <2>3. CASE ~ Decided(a, b) /\ Decided(b, c)
    <3>1. Decided(a, c)
      <4>1. CASE Decided(c, a) BY <2>1, <2>3, <4>1, DecisionsAreOrdered
      <4>2. CASE ~ Decided(c, a) /\ ~ Decided(a, c)
        BY <2>1, <2>3, <4>2, Keys, DecisionsAreOrdered DEF Decided
      <4>3. QED BY <4>1, <4>2
    <3>2. QED BY <3>1 DEF Precedes
  <2>4. CASE ~ Decided(a, b) /\ ~ Decided(b, c)
    <3>1. ~ Decided(c, a)
      BY <2>1, <2>4, DecisionsAreOrdered
    <3>2. \/ SuggestedBefore(a.suggested, c.suggested)
          \/ a.suggested = c.suggested /\ a.photo < c.photo
      <4>1. /\ \/ SuggestedBefore(a.suggested, b.suggested)
               \/ a.suggested = b.suggested /\ a.photo < b.photo
            /\ \/ SuggestedBefore(b.suggested, c.suggested)
               \/ b.suggested = c.suggested /\ b.photo < c.photo
        BY <1>3, <2>4 DEF Precedes
      <4>2. QED BY <4>1, Keys DEF SuggestedBefore
    <3>3. QED BY <3>1, <3>2 DEF Precedes
  <2>5. QED BY <2>2, <2>3, <2>4
<1>4. QED BY <1>1, <1>2, <1>3

\* An input that precedes another has the earlier position.
LEMMA PositionsFollow ==
  ASSUME NEW inputs, inputs \subseteq Ranked, IsFiniteSet(inputs),
         NEW a \in inputs, NEW b \in inputs, Precedes(a, b)
  PROVE  positionIn(inputs, a) < positionIn(inputs, b)
<1> DEFINE before(i) == {other \in inputs : Precedes(other, i)}
<1>1. before(a) \subseteq before(b) BY ScenesHaveOneOrder
<1>2. a \in before(b) /\ a \notin before(a) BY ScenesHaveOneOrder
<1>3. IsFiniteSet(before(b)) BY FS_Subset
<1>4. before(a) # before(b) BY <1>2
<1>5. /\ Cardinality(before(a)) \in Nat /\ Cardinality(before(b)) \in Nat
      /\ Cardinality(before(a)) < Cardinality(before(b))
  <2>1. IsFiniteSet(before(a)) BY <1>1, <1>3, FS_Subset
  <2> HIDE DEF before
  <2>2. Cardinality(before(a)) \in Nat /\ Cardinality(before(b)) \in Nat
    BY <1>3, <2>1, FS_CardinalityType
  <2>3. QED BY <1>1, <1>3, <1>4, <2>2, FS_Subset
<1>6. QED BY <1>5 DEF positionIn

\* Two inputs that the digest does not tell apart.
Alike(a, i) ==
  a.photo = i.photo /\ a.revision = i.revision /\ a.room = i.room /\ a.order = i.order

LEMMA SameDigest ==
  ASSUME NEW A, NEW B, computeCompositionFingerprint(A) = computeCompositionFingerprint(B)
  PROVE  /\ \A i \in A : \E a \in B : Alike(a, i)
         /\ \A a \in B : \E i \in A : Alike(a, i)
<1> DEFINE D(x) == [photo |-> x.photo, revision |-> x.revision, room |-> x.room, order |-> x.order]
<1>1. {D(i) : i \in A} = {D(a) : a \in B} BY DEF computeCompositionFingerprint
<1>2. \A x, y : D(x) = D(y) => Alike(x, y) /\ Alike(y, x)
  <2> SUFFICES ASSUME NEW x, NEW y, D(x) = D(y) PROVE Alike(x, y) /\ Alike(y, x)
    OBVIOUS
  <2>1. /\ D(x).photo = D(y).photo /\ D(x).revision = D(y).revision
        /\ D(x).room = D(y).room /\ D(x).order = D(y).order
    OBVIOUS
  <2>2. QED BY <2>1 DEF Alike
<1> HIDE DEF D
<1>3. \A i \in A : D(i) \in {D(a) : a \in B} BY <1>1
<1>4. \A a \in B : D(a) \in {D(i) : i \in A} BY <1>1
<1>5. QED BY <1>2, <1>3, <1>4

\* What is decided about two inputs is in the digest.
LEMMA DigestDecides ==
  ASSUME NEW a, NEW b, NEW i, NEW j, Decided(a, b),
         i.room = a.room, i.order = a.order, j.room = b.room, j.order = b.order
  PROVE  Decided(i, j)
BY DEF Decided, primaryKey, Explicit

\* A storyboard that reads as fresh shows the photos approved now, each as it is
\* analysed and corrected now, in the order that priorities and rooms ask for now:
\* the digest holds everything that decides it, except the analyser's suggestion
\* (freshnessOf of storyboard-service.ts, with saveComposition and fingerprint.ts).
THEOREM FreshStoryboards == Spec => []FreshStoryboardIsCurrent
<1>1. IInv => FreshStoryboardIsCurrent
  <2> SUFFICES ASSUME IInv, isFresh PROVE FreshStoryboardIsCurrent
    BY DEF FreshStoryboardIsCurrent
  <2> DEFINE now == selectEligibleAnalyses
  <2>1. now \in Readings BY EligibleInputs DEF IInv
  <2>2. PICK inputs \in Readings : board = Composed(inputs)
    BY DEF IInv, TypeOK, Boards, isFresh, NoBoard
  <2>3. computeCompositionFingerprint(inputs) = computeCompositionFingerprint(now)
        /\ board.scenes = ScenesOf(inputs)
    BY <2>2 DEF isFresh, Composed
  <2> HIDE DEF now
  <2>4. /\ \A i \in inputs : \E a \in now : Alike(a, i)
        /\ \A a \in now : \E i \in inputs : Alike(a, i)
    BY <2>3, SameDigest
  <2>6. {Shows(scene) : scene \in board.scenes} = {Shows(input) : input \in now}
    <3>1. \A i \in inputs : Shows(Scene(inputs, i)) = Shows(i) BY DEF Scene, Shows
    <3>2. {Shows(scene) : scene \in board.scenes} = {Shows(i) : i \in inputs}
      BY <2>3, <3>1 DEF ScenesOf
    <3>3. \A a \in now, i \in inputs : Alike(a, i) => Shows(a) = Shows(i)
      BY DEF Alike, Shows
    <3>4. QED BY <2>4, <3>2, <3>3
  <2>7. ASSUME NEW s \in board.scenes, NEW t \in board.scenes, NEW a \in now, NEW b \in now,
               a.photo = s.photo, b.photo = t.photo, Decided(a, b)
        PROVE  s.position < t.position
    <3>1. PICK i \in inputs : s = Scene(inputs, i) BY <2>3 DEF ScenesOf
    <3>2. PICK j \in inputs : t = Scene(inputs, j) BY <2>3 DEF ScenesOf
    <3>3. s.photo = i.photo /\ t.photo = j.photo /\ s.position = positionIn(inputs, i)
          /\ t.position = positionIn(inputs, j)
      BY <3>1, <3>2 DEF Scene
    <3>4. i.room = a.room /\ i.order = a.order
      BY <2>1, <2>4, <2>7, <3>3 DEF Readings, Alike
    <3>5. j.room = b.room /\ j.order = b.order
      BY <2>1, <2>4, <2>7, <3>3 DEF Readings, Alike
    <3>6. Precedes(i, j) BY <2>7, <3>4, <3>5, DigestDecides DEF Precedes
    <3>7. inputs \subseteq Ranked /\ IsFiniteSet(inputs)
      BY PhotoAssumption DEF Readings, Inputs, Ranked
    <3>8. QED BY <3>3, <3>6, <3>7, PositionsFollow
  <2>8. QED BY <2>6, <2>7 DEF FreshStoryboardIsCurrent, now
<1>2. QED BY <1>1, Invariant, PTL

\* The seconds given to the first scenes together.
SecondsOfTheFirst(k, scenes, total) ==
  k * (total \div scenes) + (IF k <= total % scenes THEN k ELSE total % scenes)

\* An allocation that is not refused keeps every scene within its bounds and fills
\* the requested time exactly: the first scenes have together what the next one
\* then adds to, none have nothing, all have the total (allocateDurations).
THEOREM ScenesFillTheVideo ==
  ASSUME NEW scenes \in Nat \ {0}, NEW total \in Nat \ {0},
         NEW shortest \in Nat \ {0}, NEW longest \in Nat \ {0},
         Allocatable(scenes, total, shortest, longest)
  PROVE  LET seconds == allocateDurations(scenes, total)
         IN  /\ \A i \in 1 .. scenes : shortest <= seconds[i] /\ seconds[i] <= longest
             /\ SecondsOfTheFirst(0, scenes, total) = 0
             /\ \A i \in 1 .. scenes : SecondsOfTheFirst(i, scenes, total)
                                         = SecondsOfTheFirst(i - 1, scenes, total) + seconds[i]
             /\ SecondsOfTheFirst(scenes, scenes, total) = total
<1> DEFINE base == total \div scenes
           left == total % scenes
<1>1. base \in Nat /\ left \in Nat /\ left < scenes /\ total = scenes * base + left
  OBVIOUS
<1>2. shortest <= base
  <2>1. scenes * shortest < scenes * (base + 1)
    BY <1>1 DEF Allocatable
  <2>2. QED BY <1>1, <2>1
<1>3. base <= longest /\ (left > 0 => base + 1 <= longest)
  <2>1. scenes * base <= scenes * longest /\ (left > 0 => scenes * base < scenes * longest)
    BY <1>1 DEF Allocatable
  <2>2. QED BY <1>1, <2>1
<1> HIDE DEF base, left
<1>4. ASSUME NEW i \in 1 .. scenes
      PROVE  allocateDurations(scenes, total)[i] = base + (IF i <= left THEN 1 ELSE 0)
  BY DEF allocateDurations, base, left
<1>5. ASSUME NEW i \in 1 .. scenes
      PROVE  SecondsOfTheFirst(i, scenes, total)
               = SecondsOfTheFirst(i - 1, scenes, total) + allocateDurations(scenes, total)[i]
  <2>1. /\ SecondsOfTheFirst(i, scenes, total) = i * base + (IF i <= left THEN i ELSE left)
        /\ SecondsOfTheFirst(i - 1, scenes, total)
             = (i - 1) * base + (IF i - 1 <= left THEN i - 1 ELSE left)
    BY DEF SecondsOfTheFirst, base, left
  <2>2. i * base = (i - 1) * base + base BY <1>1
  <2>3. QED BY <1>1, <1>4, <2>1, <2>2
<1>6. SecondsOfTheFirst(0, scenes, total) = 0
  BY <1>1 DEF SecondsOfTheFirst, base, left
<1>7. SecondsOfTheFirst(scenes, scenes, total) = total
  BY <1>1 DEF SecondsOfTheFirst, base, left
<1>8. QED BY <1>1, <1>2, <1>3, <1>4, <1>5, <1>6, <1>7
===============================================================================
