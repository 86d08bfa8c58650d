------------------------------- MODULE Workspace -------------------------------
(***************************************************************************)
(* A property's photos, their analyses and its storyboard, worked on by    *)
(* several calls at once.                                                  *)
(***************************************************************************)
EXTENDS PhotoReview

Init ==
  /\ property = "ACTIVE"
  /\ object = [p \in Photo |-> NoObjects]
  /\ photo = [p \in Photo |-> NoPhoto]
  /\ analysis = [p \in Photo |-> NoAnalysis]
  /\ board = NoBoard
  /\ call = [c \in Caller |-> Idle]

\* A statement fails, a check refuses, the process dies: nothing is undone.
CallEnds(c) == ~ At(c, "IDLE") /\ Ends(c) /\ UNCHANGED <<photoRows, object, reviewRows>>

Refreshable(p) == analysis[p].revision < MaxRevision

CallBegins(c, p) ==
  \/ RequestUpload(c, p)
  \/ RetryUpload(c, p)
  \/ ReadUpload(c, p)
  \/ Analyze(c, p, FALSE)
  \/ Refreshable(p) /\ Analyze(c, p, TRUE)
  \/ Review(c, p)

UploadGoesOn(c) ==
  \/ CreateAsset(c)
  \/ ResetUpload(c)
  \/ Receive(c)
  \/ Sniff(c)
  \/ Scan(c)
  \/ Process(c)
  \/ Store(c)
  \/ Finish(c)
  \/ Discard(c)

ReviewGoesOn(c) ==
  \/ ReserveLook(c)
  \/ ReserveInsert(c)
  \/ ReserveClear(c)
  \/ Analysed(c)
  \/ ReadPhoto(c)
  \/ Approve(c)
  \/ Reject(c)
  \/ Correct(c)

PropertyCall(c) ==
  \/ MarkDeleted(c)
  \/ ListPhotos(c)
  \/ \E p \in Photo : RemovePhoto(c, p)
  \/ Compose(c)
  \/ SaveComposition(c)

CustomerStep(p) ==
  \/ RequestDeletion(p)
  \/ \E file \in File : Upload(p, file)

Next ==
  \/ \E c \in Caller :
       \/ UploadGoesOn(c)
       \/ ReviewGoesOn(c)
       \/ PropertyCall(c)
       \/ CallEnds(c)
       \/ \E p \in Photo : CallBegins(c, p)
  \/ \E p \in Photo : CustomerStep(p)

Spec == Init /\ [][Next]_vars
===============================================================================
