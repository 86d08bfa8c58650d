-------------------------- MODULE WorkspaceProperties --------------------------
(***************************************************************************)
(* What must hold of a property's photos and storyboard.                   *)
(***************************************************************************)
EXTENDS Workspace

StandingOf(status) ==
  CASE status = "READY"                                    -> "OFFERED"
    [] status \in {"REJECTED", "QUARANTINED"}              -> "REFUSED"
    [] status \in {"DELETION_PENDING", "DELETED"}          -> "LEAVING"
    [] OTHER                                               -> "AWAITED"

Shown(p, variant) == IF photo[p].status = "READY" THEN object[p][variant] ELSE None

Good == File \ (WrongType \cup Infected \cup WrongShape)

Contract == INSTANCE PhotoContract WITH
  standing <- [p \in Photo |-> StandingOf(photo[p].status)],
  image    <- [p \in Photo |-> Shown(p, "normalized")],
  small    <- [p \in Photo |-> Shown(p, "thumbnail")]

\* A READY photo shows, in both derivatives, one file that passed the scanner and
\* every check, whatever the customer puts under the upload URL meanwhile and
\* whatever another completion, retry, review or cleanup of the same photo does;
\* a refused photo is never READY again, and one whose deletion was asked for
\* stays DELETION_PENDING (asset-service.ts, the updateIfCurrent of
\* property-repositories.ts).
PhotosKeepTheirContract == Contract!ContractSpec

\* An analysis that says REJECTED is about a photo that is out: the decision and
\* the photo's status commit together, and no blind write of another reviewer or
\* analyser brings one back without the other (analysis-service.ts reject).
RejectionTakesThePhotoOut ==
  \A p \in Photo :
    analysis[p].review = "REJECTED" => photo[p].status \in {"REJECTED", "DELETION_PENDING"}

Shows(row) == [photo |-> row.photo, room |-> row.room, revision |-> row.revision]

\* A storyboard that reads as fresh shows exactly the photos approved now, each as
\* it is analysed and corrected now, and in the order that their priorities and
\* rooms ask for now: however compositions race with each other, and although a
\* correction, a lost decision or a failed refresh moves what decides the order
\* without moving the revision.  Only what the analyser's own suggestion decides
\* is excepted, which is in no digest (storyboard-service.ts compose, freshnessOf;
\* fingerprint.ts; ordering.ts).
FreshStoryboardIsCurrent ==
  isFresh =>
    LET now == selectEligibleAnalyses
    IN  /\ {Shows(scene) : scene \in board.scenes} = {Shows(input) : input \in now}
        /\ \A s, t \in board.scenes : \A a, b \in now :
             a.photo = s.photo /\ b.photo = t.photo /\ Decided(a, b) => s.position < t.position

\* A reviewer's decision, and the corrections frozen with it, stand until a refresh
\* clears them: nothing else moves a row that carries a decision
\* (analysis-service.ts approve, correct).
DecisionIsImmutable ==
  [][\A p \in Photo :
       analysis[p].review # "UNREVIEWED" /\ analysis'[p] # analysis[p]
         => analysis'[p].status = "PENDING"]_vars
===============================================================================
