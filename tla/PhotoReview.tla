------------------------------ MODULE PhotoReview ------------------------------
(***************************************************************************)
(* What is seen on a photo, what a reviewer says of it, and the storyboard *)
(* made of the approved ones: packages/domain/src/analysis and             *)
(* packages/domain/src/storyboard, with their repositories.                *)
(*                                                                         *)
(* asset_analyses is written whole, from the row as the call read it, with *)
(* no condition (updateAnalysis): the last writer wins.  A reserved row has *)
(* nothing left but its revision, so that is all its call remembers.       *)
(*                                                                         *)
(* A room stands for everything the analysis found, its flags included.    *)
(***************************************************************************)
EXTENDS PhotoWork, StoryboardPlan

NoAnalysis ==
  [status |-> "NONE", room |-> Absent, override |-> Absent, order |-> Absent,
   review |-> "UNREVIEWED", revision |-> 0]

\* A row as it is reserved: result, review and correction are cleared.
Reserved(revision) == [NoAnalysis EXCEPT !.status = "PENDING", !.revision = revision]

\* updateAnalysis: by identity alone.
WriteAnalysis(p, row) == analysis' = [analysis EXCEPT ![p] = row]

--------------------------------------------------------------------------------
(* Analysing.                                                                   *)

\* analyzeAsset: a READY photo; a result already there is the answer.
Analyze(c, p, refresh) ==
  /\ At(c, "IDLE")
  /\ photo[p].status = "READY"
  /\ Goes(c, [at |-> "RESERVE", on |-> p, refresh |-> refresh])
  /\ UNCHANGED <<photoRows, object, reviewRows>>

Analysing(c, revision) ==
  [at |-> "ANALYSE", on |-> call[c].on, refresh |-> call[c].refresh, revision |-> revision]

\* reserve reads the row first.
ReserveLook(c) ==
  LET row == analysis[call[c].on]
  IN  /\ At(c, "RESERVE")
      /\ CASE row.status = "NONE" -> Goes(c, [call[c] EXCEPT !.at = "INSERT"])
           [] row.status = "SUCCEEDED" /\ ~ call[c].refresh -> Ends(c)
           [] OTHER -> Goes(c, [Analysing(c, row.revision) EXCEPT !.at = "CLEAR"])
      /\ UNCHANGED <<photoRows, object, reviewRows>>

\* One row per photo: the loser of two inserts adopts the winner's row.
ReserveInsert(c) ==
  LET p == call[c].on
  IN  /\ At(c, "INSERT")
      /\ IF analysis[p].status = "NONE"
         THEN WriteAnalysis(p, Reserved(1)) /\ Goes(c, Analysing(c, 1))
         ELSE /\ UNCHANGED analysis
              /\ IF analysis[p].status = "SUCCEEDED" THEN Ends(c)
                 ELSE Goes(c, Analysing(c, analysis[p].revision))
      /\ UNCHANGED <<photoRows, object, board>>

ReserveClear(c) ==
  /\ At(c, "CLEAR")
  /\ WriteAnalysis(call[c].on, Reserved(call[c].revision))
  /\ Goes(c, [call[c] EXCEPT !.at = "ANALYSE"])
  /\ UNCHANGED <<photoRows, object, board>>

\* The stored image is read and the provider asked; either may fail, and the
\* failure is written over the row as it was reserved.
Analysed(c) ==
  LET p == call[c].on
      revision == IF call[c].refresh THEN call[c].revision + 1 ELSE call[c].revision
  IN  /\ At(c, "ANALYSE")
      /\ \/ WriteAnalysis(p, [Reserved(call[c].revision) EXCEPT !.status = "FAILED"])
         \/ /\ object[p].normalized # None
            /\ \E room \in Room :
                 WriteAnalysis(p, [Reserved(revision) EXCEPT !.status = "SUCCEEDED", !.room = room])
      /\ Ends(c)
      /\ UNCHANGED <<photoRows, object, board>>

--------------------------------------------------------------------------------
(* Reviewing.                                                                   *)

\* requireReviewable: the analysis, then the photo, in two reads.
Review(c, p) ==
  /\ At(c, "IDLE")
  /\ analysis[p].status = "SUCCEEDED" /\ analysis[p].review = "UNREVIEWED"
  /\ Goes(c, [at |-> "REVIEW", on |-> p, row |-> analysis[p]])
  /\ UNCHANGED <<photoRows, object, reviewRows>>

ReadPhoto(c) ==
  LET p == call[c].on
  IN  /\ At(c, "REVIEW")
      /\ Goes(c, [at |-> "DECIDE", on |-> p, row |-> call[c].row, was |-> photo[p].status])
      /\ UNCHANGED <<photoRows, object, reviewRows>>

hasBlockingFlag(row) == row.room \in Unsafe

Approve(c) ==
  /\ At(c, "DECIDE")
  /\ ~ hasBlockingFlag(call[c].row)
  /\ WriteAnalysis(call[c].on, [call[c].row EXCEPT !.review = "APPROVED"])
  /\ Ends(c)
  /\ UNCHANGED <<photoRows, object, board>>

\* Mutated form of Reject: the decision and the photo are written one by one.
RejectApart(c) ==
  LET p == call[c].on
  IN  /\ At(c, "DECIDE")
      /\ \/ /\ WriteAnalysis(p, [call[c].row EXCEPT !.review = "REJECTED"])
            /\ UNCHANGED photo
         \/ /\ updateIfCurrent(p, call[c].was, [photo[p] EXCEPT !.status = "REJECTED"])
            /\ UNCHANGED analysis
      /\ Ends(c)
      /\ UNCHANGED <<property, object, board>>

\* reject: the decision and the photo's status in one transaction, which is
\* rolled back when the photo is no longer as it was read.
Reject(c) ==
  LET p == call[c].on
  IN  /\ At(c, "DECIDE")
      /\ IF IsCurrent(p, call[c].was)
         THEN /\ WriteAnalysis(p, [call[c].row EXCEPT !.review = "REJECTED"])
              /\ updateIfCurrent(p, call[c].was, [photo[p] EXCEPT !.status = "REJECTED"])
         ELSE UNCHANGED <<analysis, photo>>
      /\ Ends(c)
      /\ UNCHANGED <<property, object, board>>

\* correct: a room and a priority beside the analyser's own; the same pair is no
\* change.
Correct(c) ==
  /\ At(c, "DECIDE")
  /\ \E room \in Room \cup {Absent}, order \in Order \cup {Absent} :
       /\ room # call[c].row.override \/ order # call[c].row.order
       /\ WriteAnalysis(call[c].on, [call[c].row EXCEPT !.override = room, !.order = order])
  /\ Ends(c)
  /\ UNCHANGED <<photoRows, object, board>>

--------------------------------------------------------------------------------
(* The storyboard.                                                              *)

effectiveRoomType(row) == IF row.override # Absent THEN row.override ELSE row.room

\* selectEligibleAnalyses: the five facts a composition is made of.  The suggestion
\* is the analyser's, whatever a reviewer made of its room.
Input(p) ==
  [photo |-> p, revision |-> analysis[p].revision, room |-> effectiveRoomType(analysis[p]),
   order |-> analysis[p].order, suggested |-> roomOrderRank(analysis[p].room)]

selectEligibleAnalyses ==
  {Input(p) : p \in {q \in Photo : analysis[q].status = "SUCCEEDED" /\ analysis[q].review = "APPROVED"}}

\* The rows of storyboard_scenes: each photo at its place, with its seconds.
Scene(inputs, input) ==
  LET position == positionIn(inputs, input)
  IN  [photo |-> input.photo, room |-> input.room, revision |-> input.revision,
       position |-> position,
       seconds |-> allocateDurations(Cardinality(inputs), Seconds)[position]]

ScenesOf(inputs) == {Scene(inputs, input) : input \in inputs}

\* Mutated form of computeCompositionFingerprint: a priority is not in the digest.
FingerprintWithoutPriority(inputs) ==
  {[photo |-> i.photo, revision |-> i.revision, room |-> i.room] : i \in inputs}

\* The digest: of four of the five facts, as a set.
computeCompositionFingerprint(inputs) ==
  {[photo |-> i.photo, revision |-> i.revision, room |-> i.room, order |-> i.order] : i \in inputs}

NoBoard == [composed |-> FALSE, scenes |-> {}, fingerprint |-> {}]

\* freshnessOf: derived each time, never stored.
isFresh ==
  board.composed /\ board.fingerprint = computeCompositionFingerprint(selectEligibleAnalyses)

\* compose reads the approved analyses in one query; too few of them and an
\* impossible duration end the call, as a refused prompt does (CallEnds).
Compose(c) ==
  /\ At(c, "IDLE")
  /\ Cardinality(selectEligibleAnalyses) >= MinScenes
  /\ Allocatable(Cardinality(selectEligibleAnalyses), Seconds, Shortest, Longest)
  /\ Goes(c, [at |-> "SAVE", inputs |-> selectEligibleAnalyses])
  /\ UNCHANGED <<photoRows, object, reviewRows>>

\* saveComposition: the project's row is locked, the scenes are replaced and the
\* fingerprint written in one commit.
SaveComposition(c) ==
  /\ At(c, "SAVE")
  /\ board' = [composed |-> TRUE, scenes |-> ScenesOf(call[c].inputs),
               fingerprint |-> computeCompositionFingerprint(call[c].inputs)]
  /\ Ends(c)
  /\ UNCHANGED <<photoRows, object, analysis>>
===============================================================================
