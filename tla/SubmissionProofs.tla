--------------------------- MODULE SubmissionProofs ---------------------------
(***************************************************************************)
(* Proofs about paid calls.  First AttemptSubmission, for every set of     *)
(* workers, attempts and jobs and every budget; then the gate before a     *)
(* call and the prices under it, for every contract, rate, cycle and route *)
(* policy.                                                                 *)
(***************************************************************************)
EXTENDS SubmissionProperties, PaidSubmissionGate, FiniteSetTheorems, WellFoundedInduction, TLAPS

(***************************************************************************)
(* The inductive invariant.  What ties the three places together that know *)
(* something of a call, the row, the provider and a worker's memory, is    *)
(* that only a row that crossed the boundary has a call, and that a worker *)
(* in the middle of sending is alone with such a row.                      *)
(***************************************************************************)

\* The attempt is past the provider boundary: it was armed.
Crossed(a) == state[a] \notin {"ABSENT", "QUEUED", "CANCELLED_PRE_SUBMISSION"}

\* The two columns of a row explain each other.
RowsCohere ==
  \A a \in Attempt :
    IF state[a] = "ABSENT" THEN certainty[a] = "PRE_SUBMISSION"
    ELSE state[a] \in CompatibleStates[certainty[a]]

\* A call is made once, for an armed attempt, and recorded as what it was.
CallsFollowRows ==
  \A a \in Attempt :
    /\ posts[a] = IF call[a] = "NONE" THEN 0 ELSE 1
    /\ call[a] # "NONE" => Crossed(a)
    /\ certainty[a] = "ACCEPTED" => call[a] = "ACCEPTED"
    /\ certainty[a] = "DEFINITIVELY_REJECTED" =>
         /\ call[a] \in {"RETRYABLE", "TERMINAL", "LOST"}
         /\ state[a] = IF call[a] = "TERMINAL" THEN "FAILED_TERMINAL" ELSE "FAILED_RETRYABLE"

\* The worker is between the arm and the record of the attempt it is at.
Sending(w) == pass[w].phase \in {"ARMED", "SENT", "RECORDING"}

PassFollowsRow(w) ==
  Sending(w) =>
    /\ pass[w].todo # {}
    /\ Crossed(At(w))
    /\ pass[w].phase = "ARMED" => call[At(w)] = "NONE"
    /\ pass[w].phase = "SENT" => call[At(w)] # "NONE"
    /\ pass[w].phase = "RECORDING" =>
         /\ pass[w].answer \in Answers
         /\ pass[w].answer # "UNKNOWN" => pass[w].answer = call[At(w)]

PassesFollowRows ==
  /\ \A w \in Worker : PassFollowsRow(w)
  /\ \A v, w \in Worker : v # w /\ Sending(v) /\ Sending(w) => At(v) # At(w)

Coherent == TypeOK /\ RowsCohere /\ CallsFollowRows /\ PassesFollowRows

-----------------------------------------------------------------------------
(***************************************************************************)
(* Finite sets of attempts.                                                *)
(***************************************************************************)

\* The attempts of the cycle are finitely many.
LEMMA AttemptsFinite == IsFiniteSet(Attempt) /\ IsFiniteSet({}) /\ Cardinality({}) = 0
BY FS_Interval, FS_EmptySet, SizesAssumption DEF Attempt

\* Of a nonempty family of sets of attempts, one has no other below it.
LEMMA MinimalSet ==
  ASSUME NEW F \in SUBSET SUBSET Attempt, F # {}
  PROVE  \E X \in F : \A Y \in F : Y \subseteq X => Y = X
<1>1. FiniteSubsetsOf(Attempt) = SUBSET Attempt
  BY AttemptsFinite, FS_FiniteSubsetsOfFinite
<1>2. IsWellFoundedOn(StrictSubsetOrdering(Attempt), SUBSET Attempt)
  BY <1>1, FS_StrictSubsetOrderingWellFounded
<1>3. \E X \in F : \A Y \in F : <<Y, X>> \notin StrictSubsetOrdering(Attempt)
  BY <1>2, WFMin
<1>4. QED
  BY <1>3 DEF StrictSubsetOrdering

\* Oldest and Latest choose a member of every nonempty set of attempts: the
\* one with the fewest attempts before it, or after it.
LEMMA OldestIsMember ==
  ASSUME NEW S \in SUBSET Attempt, S # {}
  PROVE  Oldest(S) \in S
<1> DEFINE Below(a) == {b \in Attempt : b <= a}
           F == {Below(a) : a \in S}
<1>0. F \in SUBSET SUBSET Attempt /\ F # {}
  OBVIOUS
<1> HIDE DEF F
<1>1. PICK X \in F : \A Y \in F : Y \subseteq X => Y = X
  BY <1>0, MinimalSet
<1> USE DEF F
<1>2. PICK a \in S : X = Below(a)
  BY <1>1
<1>3. ASSUME NEW b \in S
      PROVE  a <= b
  <2>1. CASE b < a
    <3>1. Below(b) \subseteq Below(a)
      BY <2>1, SizesAssumption DEF Attempt
    <3>2. Below(b) = Below(a)
      BY <3>1, <1>1, <1>2
    <3>3. a \in Below(a) /\ a \notin Below(b)
      BY <2>1, SizesAssumption DEF Attempt
    <3>4. QED
      BY <3>2, <3>3
  <2>2. QED
    BY <2>1, SizesAssumption DEF Attempt
<1>4. QED
  BY <1>3 DEF Oldest

LEMMA LatestIsMember ==
  ASSUME NEW S \in SUBSET Attempt, S # {}
  PROVE  Latest(S) \in S
<1> DEFINE Above(a) == {b \in Attempt : a <= b}
           F == {Above(a) : a \in S}
<1>0. F \in SUBSET SUBSET Attempt /\ F # {}
  OBVIOUS
<1> HIDE DEF F
<1>1. PICK X \in F : \A Y \in F : Y \subseteq X => Y = X
  BY <1>0, MinimalSet
<1> USE DEF F
<1>2. PICK a \in S : X = Above(a)
  BY <1>1
<1>3. ASSUME NEW b \in S
      PROVE  b <= a
  <2>1. CASE a < b
    <3>1. Above(b) \subseteq Above(a)
      BY <2>1, SizesAssumption DEF Attempt
    <3>2. Above(b) = Above(a)
      BY <3>1, <1>1, <1>2
    <3>3. a \in Above(a) /\ a \notin Above(b)
      BY <2>1, SizesAssumption DEF Attempt
    <3>4. QED
      BY <3>2, <3>3
  <2>2. QED
    BY <2>1, SizesAssumption DEF Attempt
<1>4. QED
  BY <1>3 DEF Latest

\* A worker with something left to do is at one of the attempts.
LEMMA AtIsAttempt ==
  ASSUME TypeOK, NEW w \in Worker, pass[w].todo # {}
  PROVE  At(w) \in Attempt
<1>1. pass[w].todo \in SUBSET Attempt
  BY DEF TypeOK, Pass
<1>2. QED
  BY <1>1, OldestIsMember DEF At

\* The window a pass reads, and where the next pass would start.
LEMMA WindowType ==
  ASSUME NEW n
  PROVE  Candidates(n) \in SUBSET Attempt /\ NextCursor(Candidates(n)) \in 0..Attempts
<1>1. Candidates(n) \in SUBSET Attempt
  BY DEF Candidates, Batch
<1> DEFINE S == Candidates(n)
<1> HIDE DEF S
<1>2. S = {} => NextCursor(S) = 0
  BY AttemptsFinite, SizesAssumption DEF NextCursor
<1>3. S # {} => Latest(S) \in Attempt
  BY <1>1, LatestIsMember DEF S
<1>4. NextCursor(S) \in 0..Attempts
  BY <1>2, <1>3, SizesAssumption DEF NextCursor, Attempt
<1>5. QED
  BY <1>1, <1>4 DEF S

-----------------------------------------------------------------------------
(***************************************************************************)
(* Types.                                                                  *)
(***************************************************************************)

\* A worker's step leaves its memory well formed.
LEMMA PassTypeStep ==
  ASSUME TypeOK, PassesFollowRows, NEW w \in Worker, Submits(w) \/ Crash(w)
  PROVE  pass' \in [Worker -> Pass]
<1> USE SizesAssumption DEF Remembers
<1>0. 0 \in 0..(RECORD_TRIES - 1) /\ RECORD_TRIES \in Int
  BY DEF RECORD_TRIES
<1>1. pass[w] \in Pass /\ pass[w].todo \subseteq Attempt
  BY DEF TypeOK, Pass
<1>2. Sending(w) => pass[w].todo # {}
  BY DEF PassesFollowRows, PassFollowsRow
<1>3. pass[w].todo # {} => At(w) \in Attempt /\ JobOf[At(w)] \in Job
  BY AtIsAttempt
<1>4. ASSUME NEW m \in Pass, Remembers(w, m)
      PROVE  pass' \in [Worker -> Pass]
  BY <1>4 DEF TypeOK
<1>5. Left(w) \in SUBSET Attempt
  BY <1>1 DEF Left
<1>6. CASE BeginPass(w)
  <2>1. PropertyDeletedAttempts \in SUBSET Attempt
    BY DEF PropertyDeletedAttempts, Batch
  <2>2. QED
    BY <1>1, <1>4, <1>6, <2>1 DEF BeginPass, Pass
<1>7. CASE EndDeleted(w) \/ EndRefused(w) \/ EndDeletedSince(w)
  BY <1>1, <1>3, <1>4, <1>5, <1>7 DEF EndDeleted, EndRefused, EndDeletedSince, Turn, EndsHere, Pass
<1>8. CASE LeaveDeleted(w) \/ SkipAttempt(w) \/ PassOver(w)
  BY <1>1, <1>4, <1>5, <1>8 DEF LeaveDeleted, SkipAttempt, PassOver, Pass
<1>9. CASE ReadWindow(w)
  BY <1>1, <1>4, <1>9, WindowType DEF ReadWindow, Pass
<1>10. CASE Arm(w) \/ Post(w) \/ EndPass(w)
  BY <1>1, <1>4, <1>10 DEF Arm, Post, EndPass, Pass
<1>11. CASE SendFails(w) \/ HearAnswer(w) \/ HearNothing(w)
  <2>1. PICK answer \in Answers : Hears(w, answer)
    BY <1>11 DEF SendFails, HearAnswer, HearNothing, Answers
  <2>2. [pass[w] EXCEPT !.phase = "RECORDING", !.answer = answer, !.tries = 0] \in Pass
    BY <1>0, <1>1 DEF Pass
  <2>3. QED
    BY <1>4, <2>1, <2>2 DEF Hears
<1>12. ASSUME NEW stopped \in {"NO", "REFUSED", "UNRECORDED"}, Sending(w), MovesOn(w, stopped)
       PROVE  pass' \in [Worker -> Pass]
  <2>1. PICK cursor \in 0..Attempts, ending \in SUBSET Job :
          Remembers(w, [pass[w] EXCEPT !.phase = "WINDOW", !.todo = Left(w), !.stopped = stopped,
                                       !.cursor = cursor, !.ending = ending,
                                       !.answer = "NONE", !.tries = 0])
    <3> DEFINE cursor == IF stopped = "NO" THEN pass[w].cursor ELSE At(w)
               ending == IF pass[w].answer \in {"RETRYABLE", "TERMINAL"}
                         THEN pass[w].ending \cup {JobOf[At(w)]} ELSE pass[w].ending
    <3>1. At(w) \in Attempt /\ JobOf[At(w)] \in Job
      BY <1>2, <1>3, <1>12
    <3>2. cursor \in 0..Attempts
      BY <1>1, <3>1 DEF Attempt, Pass
    <3>3. ending \in SUBSET Job
      BY <1>1, <3>1 DEF Pass
    <3>4. QED
      BY <1>12, <3>2, <3>3 DEF MovesOn
  <2>2. [pass[w] EXCEPT !.phase = "WINDOW", !.todo = Left(w), !.stopped = stopped,
                        !.cursor = cursor, !.ending = ending,
                        !.answer = "NONE", !.tries = 0] \in Pass
    BY <1>0, <1>1, <1>5 DEF Pass
  <2>3. QED
    BY <1>4, <2>1, <2>2
<1>13. ASSUME Sending(w), TryAgain(w)
       PROVE  pass' \in [Worker -> Pass]
  <2>1. CASE pass[w].tries + 1 < RECORD_TRIES
    <3>1. [pass[w] EXCEPT !.tries = @ + 1] \in Pass
      BY <1>0, <1>1, <2>1 DEF Pass
    <3>2. QED
      BY <1>4, <1>13, <2>1, <3>1 DEF TryAgain
  <2>2. QED
    BY <1>12, <1>13, <2>1 DEF TryAgain
<1>14. CASE RecordApplied(w) \/ RecordReplayed(w) \/ RecordRefused(w) \/ RecordThrew(w)
  BY <1>12, <1>13, <1>14 DEF RecordApplied, RecordReplayed, RecordRefused, RecordThrew, Sending
<1>15. CASE Crash(w)
  <2>1. NoPass \in Pass
    BY <1>0 DEF NoPass, Pass
  <2>2. QED
    BY <1>4, <1>15, <2>1 DEF Crash
<1>16. QED
  BY <1>6, <1>7, <1>8, <1>9, <1>10, <1>11, <1>14, <1>15 DEF Submits

\* The states and answers the actions write are states of the tables.
LEMMA Vocabularies ==
  /\ {"QUEUED", "SUBMITTING", "CANCELLED_PRE_SUBMISSION", "RECONCILIATION_EXHAUSTED"}
       \subseteq AttemptStates
  /\ {"RESERVED", "RECONCILIATION_HOLD", "CONSUMED", "RELEASED"} \subseteq ReservationStates
  /\ \A from \in AttemptStates : AttemptTransitions[from] \subseteq AttemptStates
  /\ "ABSENT" \notin AttemptStates
BY DEF AttemptStates, AttemptTransitions, ReservationStates, ReservationTransitions

\* An outcome is written as a state and a certainty that explain each other.
LEMMA Outcomes ==
  ASSUME NEW answer \in Answers
  PROVE  /\ StateOf(answer) \in AttemptStates
         /\ StateOf(answer) \notin {"ABSENT", "QUEUED", "CANCELLED_PRE_SUBMISSION"}
         /\ CertaintyOf(answer) \in SubmissionCertainty
         /\ StateOf(answer) \in CompatibleStates[CertaintyOf(answer)]
         /\ CertaintyOf(answer) = "ACCEPTED" => answer = "ACCEPTED"
         /\ CertaintyOf(answer) = "DEFINITIVELY_REJECTED" => answer \in {"RETRYABLE", "TERMINAL"}
         /\ answer = "TERMINAL" => StateOf(answer) = "FAILED_TERMINAL"
         /\ answer = "RETRYABLE" => StateOf(answer) = "FAILED_RETRYABLE"
BY DEF Answers, StateOf, CertaintyOf, AttemptStates, AttemptTransitions, SubmissionCertainty,
       CompatibleStates

\* Recording is about an attempt of the cycle, with an answer there is.
LEMMA RecordingType ==
  ASSUME TypeOK, PassesFollowRows, NEW w \in Worker, Sending(w)
  PROVE  /\ At(w) \in Attempt
         /\ pass[w].phase = "RECORDING" => pass[w].answer \in Answers
BY AtIsAttempt DEF PassesFollowRows, PassFollowsRow

\* A worker's step keeps the types.
LEMMA WorkerTypeStep ==
  ASSUME TypeOK, PassesFollowRows, NEW w \in Worker, Submits(w) \/ Crash(w)
  PROVE  TypeOK'
<1> USE SizesAssumption, Vocabularies
<1>1. pass' \in [Worker -> Pass]
  BY PassTypeStep
<1>2. CASE EndsHere(w) /\ pass[w].todo # {}
  BY <1>1, <1>2, AtIsAttempt DEF EndsHere, CancelBeforeSubmission, TypeOK, jobVars, callVars
<1>3. CASE EndDeleted(w) \/ EndRefused(w) \/ EndDeletedSince(w)
  BY <1>2, <1>3 DEF EndDeleted, EndRefused, EndDeletedSince, Turn
<1>4. CASE Arm(w)
  <2>1. At(w) \in Attempt
    BY <1>4, AtIsAttempt DEF Arm, Turn
  <2>2. 0 \in 0..Window
    BY PolicyAssumption
  <2>3. QED
    BY <1>1, <1>4, <2>1, <2>2 DEF Arm, TypeOK, jobVars, callVars
<1>5. CASE Post(w)
  <2>1. At(w) \in Attempt
    BY <1>5, RecordingType DEF Post, Sending
  <2>2. QED
    BY <1>1, <1>5, <2>1 DEF Post, TypeOK, rowVars, jobVars
<1>6. CASE RecordApplied(w)
  <2>1. At(w) \in Attempt /\ pass[w].answer \in Answers
    BY <1>6, RecordingType DEF RecordApplied, Sending
  <2>2. JobOf[At(w)] \in Job
    BY <2>1
  <2>3. QED
    BY <1>1, <1>6, <2>1, <2>2, Outcomes DEF RecordApplied, OutcomeWritten, TypeOK, callVars
<1>7. CASE UNCHANGED <<rowVars, jobVars, callVars>> /\ crashes' \in 0..MaxCrashes
  BY <1>1, <1>7 DEF TypeOK, rowVars, jobVars, callVars
<1>8. CASE Crash(w)
  BY <1>7, <1>8 DEF Crash, TypeOK
<1>9. CASE RowsUnchanged
  BY <1>7, <1>9 DEF RowsUnchanged, TypeOK
<1>10. QED
  BY <1>3, <1>4, <1>5, <1>6, <1>8, <1>9 DEF Submits, BeginPass, LeaveDeleted, ReadWindow,
     SkipAttempt, PassOver, SendFails, HearAnswer, HearNothing, RecordReplayed, RecordRefused,
     RecordThrew, EndPass

\* The other steps keep the types.
LEMMA OtherTypeStep ==
  ASSUME TypeOK, RowsCohere,
         \/ \E a \in Attempt : Maintains(a) \/ Others(a)
         \/ \E j \in Job : SettleFailure(j) \/ DeleteProperty(j)
         \/ Tick
  PROVE  TypeOK'
<1> USE SizesAssumption, Vocabularies
<1>1. ASSUME NEW a \in Attempt, SweepStale(a)
      PROVE  TypeOK'
  <2>1. "UNKNOWN" \in Answers /\ JobOf[a] \in Job
    BY DEF Answers
  <2>2. QED
    BY <1>1, <2>1, Outcomes DEF SweepStale, OutcomeWritten, TypeOK, callVars
<1>2. ASSUME NEW a \in Attempt, NEW c \in {"ACCEPTED", "RETRYABLE", "TERMINAL", "EXHAUSTED"}
      PROVE  HeldAfter(a, c) \in ReservationStates /\ JobOf[a] \in Job
  BY <1>2 DEF HeldAfter, TypeOK
<1>3. ASSUME NEW a \in Attempt, Resolve(a)
      PROVE  TypeOK'
  <2>1. PICK c \in {"ACCEPTED", "RETRYABLE", "TERMINAL"} :
          /\ state' = [state EXCEPT ![a] = StateOf(c)]
          /\ certainty' = [certainty EXCEPT ![a] = CertaintyOf(c)]
          /\ reservation' = [reservation EXCEPT ![JobOf[a]] = HeldAfter(a, c)]
    BY <1>3 DEF Resolve, Evidence
  <2>2. c \in Answers
    BY DEF Answers
  <2>3. QED
    BY <1>2, <1>3, <2>1, <2>2, Outcomes DEF Resolve, TypeOK, callVars
<1>4. ASSUME NEW a \in Attempt, Exhaust(a)
      PROVE  TypeOK'
  BY <1>2, <1>4 DEF Exhaust, TypeOK, callVars
<1>5. ASSUME NEW a \in Attempt, ProviderDecides(a)
      PROVE  TypeOK'
  BY <1>5 DEF ProviderDecides, TypeOK, rowVars, jobVars
<1>6. ASSUME NEW a \in Attempt, Admit(a)
      PROVE  TypeOK'
  BY <1>6 DEF Admit, TypeOK, jobVars, callVars
<1>7. ASSUME NEW a \in Attempt, Execute(a)
      PROVE  TypeOK'
  BY <1>7 DEF Execute, RowsCohere, TypeOK, jobVars, callVars
<1>8. ASSUME NEW j \in Job, SettleFailure(j)
      PROVE  TypeOK'
  BY <1>8 DEF SettleFailure, TypeOK, rowVars, callVars
<1>9. ASSUME NEW j \in Job, DeleteProperty(j)
      PROVE  TypeOK'
  BY <1>9 DEF DeleteProperty, TypeOK, rowVars, callVars
<1>10. CASE Tick
  BY <1>10, PolicyAssumption DEF Tick, TypeOK, jobVars, callVars
<1>11. QED
  BY <1>1, <1>3, <1>4, <1>5, <1>6, <1>7, <1>8, <1>9, <1>10 DEF Maintains, Others

-----------------------------------------------------------------------------
(***************************************************************************)
(* Rows and calls.                                                         *)
(***************************************************************************)

\* What the state of a coherent row says of its certainty.
LEMMA RowFacts ==
  ASSUME TypeOK, RowsCohere, NEW a \in Attempt
  PROVE  /\ state[a] \in {"ABSENT", "QUEUED", "SUBMITTING", "CANCELLED_PRE_SUBMISSION"}
              <=> certainty[a] = "PRE_SUBMISSION"
         /\ state[a] \in {"RECONCILIATION_PENDING", "RECONCILIATION_EXHAUSTED"}
              <=> certainty[a] = "SUBMISSION_UNKNOWN"
         /\ certainty[a] \in SubmissionCertainty
BY DEF TypeOK, RowsCohere, CompatibleStates, SubmissionCertainty

\* What a row that crossed the boundary keeps.
RowsRemember ==
  \A a \in Attempt : Crossed(a) => Crossed(a)'

\* A worker's step.
LEMMA WorkerRowsStep ==
  ASSUME Coherent, NEW w \in Worker, Submits(w) \/ Crash(w)
  PROVE  RowsCohere' /\ CallsFollowRows' /\ RowsRemember
<1> USE DEF Coherent
<1>1. CASE EndsHere(w) /\ pass[w].todo # {}
  <2>1. At(w) \in Attempt /\ state[At(w)] = "QUEUED" /\ certainty[At(w)] = "PRE_SUBMISSION"
    BY <1>1, AtIsAttempt, RowFacts DEF EndsHere, CancelBeforeSubmission
  <2>2. /\ state' = [state EXCEPT ![At(w)] = "CANCELLED_PRE_SUBMISSION"]
        /\ UNCHANGED <<certainty, call, posts>>
    BY <1>1 DEF EndsHere, CancelBeforeSubmission, callVars
  <2>3. QED
    BY <2>1, <2>2 DEF TypeOK, RowsCohere, CallsFollowRows, RowsRemember, Crossed, CompatibleStates
<1>2. CASE EndDeleted(w) \/ EndRefused(w) \/ EndDeletedSince(w)
  BY <1>1, <1>2 DEF EndDeleted, EndRefused, EndDeletedSince, Turn
<1>3. CASE Arm(w)
  <2>1. At(w) \in Attempt /\ state[At(w)] = "QUEUED" /\ certainty[At(w)] = "PRE_SUBMISSION"
    BY <1>3, AtIsAttempt, RowFacts DEF Arm, Turn, GatePermits
  <2>2. state' = [state EXCEPT ![At(w)] = "SUBMITTING"] /\ UNCHANGED <<certainty, call, posts>>
    BY <1>3 DEF Arm, callVars
  <2>3. QED
    BY <2>1, <2>2 DEF TypeOK, RowsCohere, CallsFollowRows, RowsRemember, Crossed, CompatibleStates
<1>4. CASE Post(w)
  <2>1. At(w) \in Attempt /\ Crossed(At(w)) /\ call[At(w)] = "NONE"
    BY <1>4, RecordingType DEF Post, Sending, PassesFollowRows, PassFollowsRow
  <2>2. certainty[At(w)] \notin {"ACCEPTED", "DEFINITIVELY_REJECTED"} /\ posts[At(w)] = 0
    BY <2>1 DEF CallsFollowRows
  <2>3. /\ posts' = [posts EXCEPT ![At(w)] = 1]
        /\ call' = [call EXCEPT ![At(w)] = "SENT"]
        /\ UNCHANGED <<state, certainty>>
    BY <1>4, <2>2 DEF Post, rowVars
  <2>4. QED
    BY <2>1, <2>2, <2>3 DEF TypeOK, RowsCohere, CallsFollowRows, RowsRemember, Crossed
<1>5. CASE RecordApplied(w)
  <2> DEFINE a == At(w)
             answer == pass[w].answer
  <2>1. a \in Attempt /\ answer \in Answers /\ (answer # "UNKNOWN" => answer = call[a])
    BY <1>5, RecordingType DEF RecordApplied, Sending, PassesFollowRows, PassFollowsRow
  <2>2. /\ state' = [state EXCEPT ![a] = StateOf(answer)]
        /\ certainty' = [certainty EXCEPT ![a] = CertaintyOf(answer)]
        /\ UNCHANGED <<call, posts>>
    BY <1>5 DEF RecordApplied, OutcomeWritten, callVars
  <2> HIDE DEF a, answer
  <2>3. QED
    BY <2>1, <2>2, Outcomes
       DEF TypeOK, RowsCohere, CallsFollowRows, RowsRemember, Crossed, Answers
<1>6. CASE UNCHANGED <<rowVars, callVars>>
  BY <1>6 DEF RowsCohere, CallsFollowRows, RowsRemember, Crossed, rowVars, callVars
<1>7. QED
  BY <1>2, <1>3, <1>4, <1>5, <1>6 DEF Submits, Crash, RowsUnchanged, BeginPass, LeaveDeleted,
     ReadWindow, SkipAttempt, PassOver, SendFails, HearAnswer, HearNothing, RecordReplayed,
     RecordRefused, RecordThrew, EndPass

\* Any other step.
LEMMA OtherRowsStep ==
  ASSUME Coherent,
         \/ \E a \in Attempt : Maintains(a) \/ Others(a)
         \/ \E j \in Job : SettleFailure(j) \/ DeleteProperty(j)
         \/ Tick
  PROVE  RowsCohere' /\ CallsFollowRows' /\ RowsRemember
<1> USE DEF Coherent
<1>1. ASSUME NEW a \in Attempt, SweepStale(a)
      PROVE  RowsCohere' /\ CallsFollowRows' /\ RowsRemember
  <2>1. /\ state' = [state EXCEPT ![a] = StateOf("UNKNOWN")]
        /\ certainty' = [certainty EXCEPT ![a] = CertaintyOf("UNKNOWN")]
        /\ UNCHANGED <<call, posts>>
    BY <1>1 DEF SweepStale, OutcomeWritten, callVars
  <2>2. "UNKNOWN" \in Answers
    BY DEF Answers
  <2>3. QED
    BY <2>1, <2>2, Outcomes DEF TypeOK, RowsCohere, CallsFollowRows, RowsRemember, Crossed
<1>2. ASSUME NEW a \in Attempt, Resolve(a)
      PROVE  RowsCohere' /\ CallsFollowRows' /\ RowsRemember
  <2>1. PICK c \in {"ACCEPTED", "RETRYABLE", "TERMINAL"} :
          /\ c = call[a] \/ (call[a] = "LOST" /\ c = "RETRYABLE")
          /\ state' = [state EXCEPT ![a] = StateOf(c)]
          /\ certainty' = [certainty EXCEPT ![a] = CertaintyOf(c)]
    BY <1>2 DEF Resolve, Evidence
  <2>2. c \in Answers /\ UNCHANGED <<call, posts>>
    BY <1>2 DEF Answers, Resolve, callVars
  <2>3. QED
    BY <2>1, <2>2, Outcomes DEF TypeOK, RowsCohere, CallsFollowRows, RowsRemember, Crossed
<1>3. ASSUME NEW a \in Attempt, Exhaust(a)
      PROVE  RowsCohere' /\ CallsFollowRows' /\ RowsRemember
  <2>1. certainty[a] = "SUBMISSION_UNKNOWN"
    BY <1>3, RowFacts DEF Exhaust
  <2>2. QED
    BY <1>3, <2>1 DEF Exhaust, TypeOK, RowsCohere, CallsFollowRows, RowsRemember, Crossed,
                      CompatibleStates, callVars
<1>4. ASSUME NEW a \in Attempt, ProviderDecides(a)
      PROVE  RowsCohere' /\ CallsFollowRows' /\ RowsRemember
  BY <1>4, SizesAssumption DEF ProviderDecides, TypeOK, RowsCohere, CallsFollowRows, RowsRemember,
     Crossed, rowVars
<1>5. ASSUME NEW a \in Attempt, Admit(a)
      PROVE  RowsCohere' /\ CallsFollowRows' /\ RowsRemember
  BY <1>5 DEF Admit, TypeOK, RowsCohere, CallsFollowRows, RowsRemember, Crossed,
              CompatibleStates, callVars
<1>6. ASSUME NEW a \in Attempt, Execute(a)
      PROVE  RowsCohere' /\ CallsFollowRows' /\ RowsRemember
  <2>1. state[a] \in CompatibleStates["ACCEPTED"]
    BY <1>6 DEF Execute, RowsCohere
  <2>2. PICK to : to \in AttemptTransitions[state[a]] /\ state' = [state EXCEPT ![a] = to]
    BY <1>6 DEF Execute
  <2>3. to \in CompatibleStates["ACCEPTED"] /\ CompatibleStates["ACCEPTED"] \cap
          {"ABSENT", "QUEUED", "CANCELLED_PRE_SUBMISSION"} = {}
    BY <2>1, <2>2 DEF AttemptTransitions, CompatibleStates
  <2>4. QED
    BY <1>6, <2>2, <2>3 DEF Execute, TypeOK, RowsCohere, CallsFollowRows, RowsRemember, Crossed,
                            callVars
<1>7. ASSUME UNCHANGED <<state, certainty, call, posts>>
      PROVE  RowsCohere' /\ CallsFollowRows' /\ RowsRemember
  BY <1>7 DEF RowsCohere, CallsFollowRows, RowsRemember, Crossed
<1>8. QED
  BY <1>1, <1>2, <1>3, <1>4, <1>5, <1>6, <1>7 DEF Maintains, Others, SettleFailure, DeleteProperty,
     Tick, rowVars, callVars

-----------------------------------------------------------------------------
(***************************************************************************)
(* Passes: a worker in the middle of sending has an armed row to itself.   *)
(***************************************************************************)

\* A worker's step leaves every pass consistent with the rows.
LEMMA WorkerPassesStep ==
  ASSUME Coherent, RowsRemember, NEW w \in Worker, Submits(w) \/ Crash(w)
  PROVE  PassesFollowRows'
<1> USE DEF Coherent
<1>1. pass[w] \in Pass
  BY DEF TypeOK
<1>2. ASSUME NEW v \in Worker, v # w
      PROVE  pass'[v] = pass[v] /\ At(v)' = At(v) /\ Sending(v)' = Sending(v)
  BY <1>2 DEF Submits, Crash, BeginPass, EndDeleted, LeaveDeleted, ReadWindow, SkipAttempt,
     PassOver, EndRefused, EndDeletedSince, EndsHere, Arm, Post, SendFails, HearAnswer, HearNothing,
     Hears, RecordApplied, RecordReplayed, RecordRefused, RecordThrew, MovesOn, TryAgain, EndPass,
     Remembers, TypeOK, At, Sending
<1>3. ASSUME NEW v \in Worker, v # w, Sending(v)
      PROVE  call'[At(v)] = call[At(v)] /\ Crossed(At(v))'
  <2>1. At(v) \in Attempt /\ Crossed(At(v))
    BY <1>3, RecordingType DEF PassesFollowRows, PassFollowsRow
  <2>2. CASE Post(w)
    <3>1. Sending(w) /\ At(w) # At(v)
      BY <1>3, <2>2 DEF Post, Sending, PassesFollowRows
    <3>2. QED
      BY <1>2, <1>3, <2>1, <2>2, <3>1 DEF Post, TypeOK, RowsRemember, Crossed
  <2>3. CASE ~Post(w)
    <3>1. UNCHANGED call
      BY <2>3 DEF Submits, Crash, RowsUnchanged, BeginPass, EndDeleted, LeaveDeleted, ReadWindow,
         SkipAttempt, PassOver, EndRefused, EndDeletedSince, EndsHere, Arm, SendFails, HearAnswer,
         HearNothing, RecordApplied, RecordReplayed, RecordRefused, RecordThrew, EndPass, callVars
    <3>2. QED
      BY <1>2, <1>3, <2>1, <3>1 DEF RowsRemember, Crossed
  <2>4. QED
    BY <2>2, <2>3
<1>4. ASSUME NEW v \in Worker, v # w
      PROVE  PassFollowsRow(v)'
  BY <1>2, <1>3, <1>4 DEF PassesFollowRows, PassFollowsRow, Crossed
<1>5. ASSUME Sending(w)' => /\ PassFollowsRow(w)'
                            /\ \A v \in Worker : v # w /\ Sending(v) => At(v) # At(w)'
      PROVE  PassesFollowRows'
  BY <1>2, <1>4, <1>5 DEF PassesFollowRows, PassFollowsRow
<1>6. ASSUME ~Sending(w)'
      PROVE  PassesFollowRows'
  BY <1>5, <1>6
\* The worker stays with the attempt it is sending.
<1>7. ASSUME Sending(w), At(w)' = At(w), pass'[w].todo = pass[w].todo, PassFollowsRow(w)'
      PROVE  PassesFollowRows'
  BY <1>5, <1>7 DEF PassesFollowRows
<1>8. Sending(w) => /\ pass[w].todo # {}
                    /\ At(w) \in Attempt /\ Crossed(At(w))
                    /\ state'[At(w)] \notin {"ABSENT", "QUEUED", "CANCELLED_PRE_SUBMISSION"}
  BY RecordingType DEF PassesFollowRows, PassFollowsRow, RowsRemember, Crossed
<1>9. CASE BeginPass(w) \/ EndDeleted(w) \/ LeaveDeleted(w) \/ ReadWindow(w) \/ SkipAttempt(w)
           \/ PassOver(w) \/ EndRefused(w) \/ EndDeletedSince(w) \/ EndPass(w) \/ Crash(w)
  <2>1. CASE BeginPass(w) \/ ReadWindow(w) \/ EndPass(w) \/ Crash(w)
    <3>1. CASE BeginPass(w)
      <4>1. pass'[w].phase = "ENDING"
        BY <1>1, <3>1 DEF BeginPass, Remembers, TypeOK, Pass
      <4>2. QED
        BY <1>6, <4>1 DEF Sending
    <3>2. CASE ReadWindow(w)
      <4>1. pass'[w].phase = "WINDOW"
        BY <1>1, <3>2 DEF ReadWindow, Remembers, TypeOK, Pass
      <4>2. QED
        BY <1>6, <4>1 DEF Sending
    <3>3. CASE EndPass(w)
      <4>1. pass'[w].phase = "IDLE"
        BY <1>1, <3>3 DEF EndPass, Remembers, TypeOK, Pass
      <4>2. QED
        BY <1>6, <4>1 DEF Sending
    <3>4. CASE Crash(w)
      <4>1. pass'[w].phase = "IDLE"
        BY <3>4 DEF Crash, Remembers, NoPass, TypeOK
      <4>2. QED
        BY <1>6, <4>1 DEF Sending
    <3>5. QED
      BY <2>1, <3>1, <3>2, <3>3, <3>4
  <2>2. CASE LeaveDeleted(w) \/ SkipAttempt(w) \/ PassOver(w)
    <3>1. ~Sending(w)'
      BY <1>1, <2>2 DEF LeaveDeleted, SkipAttempt, PassOver, Turn, Remembers, Sending,
         TypeOK, Pass
    <3>2. QED
      BY <1>6, <3>1
  <2>3. CASE EndDeleted(w) \/ EndRefused(w) \/ EndDeletedSince(w)
    <3>1. EndsHere(w) /\ pass[w].phase \in {"ENDING", "WINDOW"}
      BY <2>3 DEF EndDeleted, EndRefused, EndDeletedSince, Turn
    <3>2. ~Sending(w)'
      BY <1>1, <3>1 DEF EndsHere, Remembers, Sending, TypeOK, Pass
    <3>3. QED
      BY <1>6, <3>2
  <2>4. QED
    BY <1>9, <2>1, <2>2, <2>3
<1>10. CASE Arm(w)
  <2>1. /\ pass'[w] = [pass[w] EXCEPT !.phase = "ARMED"]
        /\ pass[w].todo # {}
        /\ state[At(w)] = "QUEUED"
        /\ state' = [state EXCEPT ![At(w)] = "SUBMITTING"]
        /\ UNCHANGED call
    BY <1>10 DEF Arm, Turn, GatePermits, Remembers, TypeOK, callVars
  <2>2. At(w)' = At(w) /\ pass'[w].todo = pass[w].todo /\ pass'[w].phase = "ARMED"
    BY <1>1, <2>1 DEF At, Pass
  <2>3. At(w) \in Attempt /\ ~Crossed(At(w)) /\ call[At(w)] = "NONE"
    BY <2>1, AtIsAttempt DEF Crossed, CallsFollowRows
  <2>4. PassFollowsRow(w)'
    BY <2>1, <2>2, <2>3 DEF PassFollowsRow, Crossed, TypeOK
  <2>5. ASSUME NEW v \in Worker, v # w, Sending(v)
        PROVE  At(v) # At(w)'
    BY <2>2, <2>3, <2>5 DEF PassesFollowRows, PassFollowsRow
  <2>6. QED
    BY <1>5, <2>4, <2>5
<1>11. CASE Post(w)
  <2>1. /\ pass'[w] = [pass[w] EXCEPT !.phase = "SENT"]
        /\ call' = [call EXCEPT ![At(w)] = "SENT"]
        /\ Sending(w)
    BY <1>11 DEF Post, Remembers, TypeOK, Sending
  <2>2. At(w)' = At(w) /\ pass'[w].todo = pass[w].todo /\ pass'[w].phase = "SENT"
    BY <1>1, <2>1 DEF At, Pass
  <2>3. PassFollowsRow(w)'
    BY <1>8, <2>1, <2>2 DEF PassFollowsRow, Crossed, TypeOK
  <2>4. QED
    BY <1>7, <2>1, <2>2, <2>3
<1>12. CASE SendFails(w) \/ HearAnswer(w) \/ HearNothing(w)
  <2>1. PICK answer \in Answers : Hears(w, answer) /\ (answer # "UNKNOWN" => answer = call[At(w)])
    BY <1>12 DEF SendFails, HearAnswer, HearNothing, Answers
  <2>2. Sending(w) /\ UNCHANGED <<state, call>>
    BY <1>12 DEF SendFails, HearAnswer, HearNothing, Sending, RowsUnchanged, rowVars, callVars
  <2>3. pass'[w] = [pass[w] EXCEPT !.phase = "RECORDING", !.answer = answer, !.tries = 0]
    BY <2>1 DEF Hears, Remembers, TypeOK
  <2>4. /\ At(w)' = At(w) /\ pass'[w].todo = pass[w].todo
        /\ pass'[w].phase = "RECORDING" /\ pass'[w].answer = answer
    BY <1>1, <2>3 DEF At, Pass
  <2>5. PassFollowsRow(w)'
    BY <1>8, <2>1, <2>2, <2>4 DEF PassFollowsRow, Crossed
  <2>6. QED
    BY <1>7, <2>2, <2>4, <2>5
<1>13. ASSUME NEW stopped, MovesOn(w, stopped)
       PROVE  PassesFollowRows'
  <2>1. ~Sending(w)'
    BY <1>1, <1>13 DEF MovesOn, Remembers, Sending, TypeOK, Pass
  <2>2. QED
    BY <1>6, <2>1
<1>14. ASSUME pass[w].phase = "RECORDING", TryAgain(w), UNCHANGED call
       PROVE  PassesFollowRows'
  <2>1. CASE pass[w].tries + 1 < RECORD_TRIES
    <3>1. pass'[w] = [pass[w] EXCEPT !.tries = pass[w].tries + 1]
      BY <1>14, <2>1 DEF TryAgain, Remembers, TypeOK
    <3>2. /\ At(w)' = At(w) /\ pass'[w].todo = pass[w].todo
          /\ pass'[w].phase = "RECORDING" /\ pass'[w].answer = pass[w].answer
      BY <1>1, <1>14, <3>1 DEF At, Pass
    <3>3. Sending(w) /\ PassFollowsRow(w)
      BY <1>14 DEF Sending, PassesFollowRows
    <3>4. PassFollowsRow(w)'
      BY <1>8, <1>14, <3>2, <3>3 DEF PassFollowsRow, Crossed
    <3>5. QED
      BY <1>7, <3>2, <3>3, <3>4
  <2>2. QED
    BY <1>13, <1>14, <2>1 DEF TryAgain
<1>15. CASE RecordApplied(w) \/ RecordReplayed(w) \/ RecordRefused(w) \/ RecordThrew(w)
  BY <1>13, <1>14, <1>15 DEF RecordApplied, RecordReplayed, RecordRefused, RecordThrew,
     RowsUnchanged, callVars
<1>16. QED
  BY <1>9, <1>10, <1>11, <1>12, <1>15 DEF Submits

\* The provider decides only calls nobody has heard of yet.
LEMMA OtherPassesStep ==
  ASSUME Coherent, RowsRemember,
         \/ \E a \in Attempt : Maintains(a) \/ Others(a)
         \/ \E j \in Job : SettleFailure(j) \/ DeleteProperty(j)
         \/ Tick
  PROVE  PassesFollowRows'
<1> USE DEF Coherent
<1>1. UNCHANGED pass
  BY DEF Maintains, Others, SweepStale, Resolve, Exhaust, ProviderDecides, Admit, Execute,
     SettleFailure, DeleteProperty, Tick
<1>2. ASSUME NEW a \in Attempt
      PROVE  call'[a] = call[a] \/ (call[a] = "SENT" /\ call'[a] # "NONE")
  BY <1>2, SizesAssumption DEF Maintains, Others, SweepStale, Resolve, Exhaust, ProviderDecides,
     Admit, Execute, SettleFailure, DeleteProperty, Tick, TypeOK, callVars
<1>3. ASSUME NEW w \in Worker
      PROVE  PassFollowsRow(w)' /\ At(w)' = At(w) /\ Sending(w)' = Sending(w)
  <2>1. At(w)' = At(w) /\ Sending(w)' = Sending(w) /\ pass'[w] = pass[w]
    BY <1>1 DEF At, Sending
  <2>2. CASE Sending(w)
    <3>1. /\ At(w) \in Attempt /\ PassFollowsRow(w)
          /\ state'[At(w)] \notin {"ABSENT", "QUEUED", "CANCELLED_PRE_SUBMISSION"}
      BY <2>2, RecordingType DEF PassesFollowRows, PassFollowsRow, RowsRemember, Crossed
    <3>2. \/ call'[At(w)] = call[At(w)]
          \/ call[At(w)] = "SENT" /\ call'[At(w)] # "NONE"
      BY <1>2, <3>1
    <3>3. QED
      BY <2>1, <2>2, <3>1, <3>2 DEF PassFollowsRow, Crossed, Answers
  <2>3. QED
    BY <2>1, <2>2 DEF PassFollowsRow
<1>4. QED
  BY <1>3 DEF PassesFollowRows

-----------------------------------------------------------------------------
(***************************************************************************)
(* The invariant.                                                          *)
(***************************************************************************)

LEMMA InitCoherent == Init => Coherent
<1> SUFFICES ASSUME Init PROVE Coherent
  OBVIOUS
<1> USE SizesAssumption, PolicyAssumption
<1>1. NoPass \in Pass /\ NoPass.phase = "IDLE"
  BY DEF NoPass, Pass, RECORD_TRIES
<1>2. TypeOK
  BY <1>1, Vocabularies DEF Init, TypeOK, SubmissionCertainty
<1>3. RowsCohere /\ CallsFollowRows
  BY DEF Init, RowsCohere, CallsFollowRows
<1>4. PassesFollowRows
  BY <1>1 DEF Init, PassesFollowRows, PassFollowsRow, Sending
<1>5. QED
  BY <1>2, <1>3, <1>4 DEF Coherent

LEMMA StepCoherent == Coherent /\ [Next]_vars => Coherent'
<1> SUFFICES ASSUME Coherent, [Next]_vars PROVE Coherent'
  OBVIOUS
<1>1. ASSUME NEW w \in Worker, Submits(w) \/ Crash(w)
      PROVE  Coherent'
  BY <1>1, WorkerTypeStep, WorkerRowsStep, WorkerPassesStep DEF Coherent
<1>2. CASE \/ \E a \in Attempt : Maintains(a) \/ Others(a)
           \/ \E j \in Job : SettleFailure(j) \/ DeleteProperty(j)
           \/ Tick
  BY <1>2, OtherTypeStep, OtherRowsStep, OtherPassesStep DEF Coherent
<1>3. CASE UNCHANGED vars
  BY <1>3 DEF Coherent, TypeOK, RowsCohere, CallsFollowRows, PassesFollowRows, PassFollowsRow,
     Sending, At, Crossed, vars, rowVars, jobVars, callVars
<1>4. QED
  BY <1>1, <1>2, <1>3 DEF Next

\* The rows, the provider and the workers' memories agree in every state.
LEMMA AlwaysCoherent == Spec => []Coherent
BY InitCoherent, StepCoherent, PTL DEF Spec

\* Whatever the workers, their crashes, the provider and the other passes do,
\* the rows and the memories of the passes stay within their vocabularies.
THEOREM TypeCorrect == Spec => []TypeOK
<1>1. Coherent => TypeOK
  BY DEF Coherent
<1>2. QED
  BY <1>1, AlwaysCoherent, PTL

-----------------------------------------------------------------------------
(***************************************************************************)
(* The contract of paid calls.                                             *)
(***************************************************************************)

Kept == [Paid!ContractNext]_(Paid!contractVars)

SamePermits == \A b \in Attempt : PermitOf(b)' = PermitOf(b)
SameCalls == posts' = posts /\ \A b \in Attempt : FactOf(b)' = FactOf(b)
SameBeliefs == \A b \in Attempt : BeliefOf(b)' = BeliefOf(b)

\* The contract counts as the Safety Guard does.
LEMMA SameCount == \A S : Paid!Cardinality(S) = Cardinality(S)
BY DEF Paid!Cardinality, Cardinality

\* Nothing the contract speaks of changes.
LEMMA Stutters ==
  ASSUME SamePermits, SameCalls, SameBeliefs
  PROVE  Kept
BY DEF Kept, SamePermits, SameCalls, SameBeliefs, Paid!contractVars

\* What is on record of a call becomes known, or known to be unknown.
LEMMA Believes ==
  ASSUME NEW a \in Attempt, SamePermits, SameCalls, PermitOf(a) = "GRANTED",
         \A b \in Attempt \ {a} : BeliefOf(b)' = BeliefOf(b),
         \/ BeliefOf(a) = "NONE" /\ BeliefOf(a)' = "UNKNOWN"
         \/ /\ BeliefOf(a) \in {"NONE", "UNKNOWN"}
            /\ FactOf(a) \in {"TAKEN", "NOT_TAKEN"}
            /\ BeliefOf(a)' = FactOf(a)
  PROVE  Kept
<1>1. Paid!Believe(a)
  BY DEF SamePermits, SameCalls, Paid!Believe
<1>2. QED
  BY <1>1 DEF Kept, Paid!ContractNext

\* The attempts the Safety Guard counts are those the contract may have to pay.
LEMMA ExposureIsMayBePaid ==
  ASSUME TypeOK, RowsCohere, NEW a \in Attempt
  PROVE  CostExposed(a) <=> a \in Paid!MayBePaid
<1>1. a \in Paid!MayBePaid <=> PermitOf(a) = "GRANTED" /\ BeliefOf(a) # "NOT_TAKEN"
  BY DEF Paid!MayBePaid
<1>2. BeliefOf(a) = "NOT_TAKEN" <=> certainty[a] = "DEFINITIVELY_REJECTED"
  BY RowFacts DEF BeliefOf, SubmissionCertainty
<1>3. PermitOf(a) = "GRANTED" <=> Crossed(a)
  BY DEF PermitOf, Crossed
<1>4. certainty[a] # "DEFINITIVELY_REJECTED" => (Crossed(a) <=> CostExposed(a))
  BY RowFacts DEF Crossed, CostExposed, AlwaysCostExposed, SubmissionCertainty
<1>5. QED
  BY <1>1, <1>2, <1>3, <1>4 DEF CostExposed

\* A worker's step keeps the contract.
LEMMA WorkerKeepsContract ==
  ASSUME Coherent, NEW w \in Worker, Submits(w) \/ Crash(w)
  PROVE  Kept
<1> USE DEF Coherent
<1>1. CASE EndsHere(w) /\ pass[w].todo # {}
  <2>1. At(w) \in Attempt /\ state[At(w)] = "QUEUED"
    BY <1>1, AtIsAttempt DEF EndsHere, CancelBeforeSubmission
  <2>2. /\ state' = [state EXCEPT ![At(w)] = "CANCELLED_PRE_SUBMISSION"]
        /\ UNCHANGED <<certainty, call, posts>>
    BY <1>1 DEF EndsHere, CancelBeforeSubmission, callVars
  <2>3. Paid!Withdraw(At(w))
    BY <2>1, <2>2 DEF Paid!Withdraw, PermitOf, FactOf, BeliefOf, TypeOK
  <2>4. QED
    BY <2>1, <2>3 DEF Kept, Paid!ContractNext
<1>2. CASE EndDeleted(w) \/ EndRefused(w) \/ EndDeletedSince(w)
  BY <1>1, <1>2 DEF EndDeleted, EndRefused, EndDeletedSince, Turn
<1>3. CASE Arm(w)
  <2> DEFINE a == At(w)
  <2>1. a \in Attempt /\ state[a] = "QUEUED" /\ Affordable(a)
    BY <1>3, AtIsAttempt DEF Arm, Turn, GatePermits
  <2>2. state' = [state EXCEPT ![a] = "SUBMITTING"] /\ UNCHANGED <<certainty, call, posts>>
    BY <1>3 DEF Arm, callVars
  <2>3. ~CostExposed(a)
    BY <2>1, RowFacts DEF CostExposed, AlwaysCostExposed
  <2>4. OthersExposed(a) = Paid!MayBePaid
    <3>1. Paid!MayBePaid \subseteq Attempt
      BY DEF Paid!MayBePaid
    <3>2. QED
      BY <2>1, <2>3, <3>1, ExposureIsMayBePaid DEF OthersExposed
  <2>5. Cardinality(Paid!MayBePaid) < Budget
    <3>1. IsFiniteSet(Paid!MayBePaid)
      BY AttemptsFinite, FS_Subset DEF Paid!MayBePaid
    <3>2. Cardinality(Paid!MayBePaid) \in Nat
      BY <3>1, FS_CardinalityType
    <3>3. QED
      BY <2>1, <2>4, <3>2, SizesAssumption DEF Affordable
  <2> HIDE DEF a
  <2>6. /\ PermitOf(a) = "OPEN" /\ SameCalls /\ SameBeliefs
        /\ \A b \in Attempt : PermitOf(b)' = IF b = a THEN "GRANTED" ELSE PermitOf(b)
    BY <2>1, <2>2 DEF SameCalls, SameBeliefs, PermitOf, FactOf, BeliefOf, TypeOK
  <2>7. Paid!Grant(a)
    BY <2>1, <2>5, <2>6, SameCount DEF Paid!Grant, SameCalls, SameBeliefs
  <2>8. QED
    BY <2>1, <2>7 DEF Kept, Paid!ContractNext
<1>4. CASE Post(w)
  <2> DEFINE a == At(w)
  <2>1. a \in Attempt /\ Crossed(a) /\ call[a] = "NONE"
    BY <1>4, RecordingType DEF Post, Sending, PassesFollowRows, PassFollowsRow
  <2>2. certainty[a] # "DEFINITIVELY_REJECTED" /\ posts[a] = 0
    BY <2>1 DEF CallsFollowRows
  <2>3. /\ posts' = [posts EXCEPT ![a] = 1]
        /\ call' = [call EXCEPT ![a] = "SENT"]
        /\ UNCHANGED <<state, certainty>>
    BY <1>4, <2>2 DEF Post, rowVars
  <2>4. PermitOf(a) = "GRANTED" /\ BeliefOf(a) # "NOT_TAKEN"
    BY <2>1, <2>2, RowFacts DEF PermitOf, BeliefOf, Crossed, SubmissionCertainty
  <2> HIDE DEF a
  <2>5. Paid!Make(a)
    BY <2>1, <2>2, <2>3, <2>4 DEF Paid!Make, PermitOf, FactOf, BeliefOf, TypeOK
  <2>6. QED
    BY <2>1, <2>5 DEF Kept, Paid!ContractNext
<1>5. CASE RecordApplied(w)
  <2>1. PICK a \in Attempt, answer \in Answers :
          /\ a = At(w)
          /\ answer = pass[w].answer
          /\ answer # "UNKNOWN" => answer = call[a]
    BY <1>5, RecordingType DEF RecordApplied, Sending, PassesFollowRows, PassFollowsRow
  <2>2. state[a] = "SUBMITTING" /\ certainty[a] = "PRE_SUBMISSION"
    BY <1>5, <2>1 DEF RecordApplied, Applies
  <2>3. /\ state' = [state EXCEPT ![a] = StateOf(answer)]
        /\ certainty' = [certainty EXCEPT ![a] = CertaintyOf(answer)]
        /\ UNCHANGED <<call, posts>>
    BY <1>5, <2>1 DEF RecordApplied, OutcomeWritten, callVars
  <2>4. SamePermits /\ SameCalls /\ PermitOf(a) = "GRANTED"
    BY <2>1, <2>2, <2>3, Outcomes DEF SamePermits, SameCalls, PermitOf, FactOf, TypeOK
  <2>5. \A b \in Attempt \ {a} : BeliefOf(b)' = BeliefOf(b)
    BY <2>1, <2>3 DEF BeliefOf, TypeOK
  <2>6. BeliefOf(a) = "NONE" /\ certainty'[a] = CertaintyOf(answer)
    BY <2>1, <2>2, <2>3 DEF BeliefOf, TypeOK
  <2>7. CASE answer = "UNKNOWN"
    <3>1. BeliefOf(a)' = "UNKNOWN"
      BY <2>6, <2>7 DEF BeliefOf, CertaintyOf
    <3>2. QED
      BY <2>1, <2>4, <2>5, <2>6, <3>1, Believes
  <2>8. CASE answer # "UNKNOWN"
    <3>1. BeliefOf(a)' = FactOf(a) /\ FactOf(a) \in {"TAKEN", "NOT_TAKEN"}
      BY <2>1, <2>6, <2>8 DEF BeliefOf, FactOf, CertaintyOf, Answers
    <3>2. QED
      BY <2>1, <2>4, <2>5, <2>6, <3>1, Believes
  <2>9. QED
    BY <2>7, <2>8
<1>6. CASE UNCHANGED <<rowVars, callVars>>
  BY <1>6, Stutters DEF SamePermits, SameCalls, SameBeliefs, PermitOf, FactOf, BeliefOf,
                        rowVars, callVars
<1>7. QED
  BY <1>2, <1>3, <1>4, <1>5, <1>6 DEF Submits, Crash, RowsUnchanged, BeginPass, LeaveDeleted,
     ReadWindow, SkipAttempt, PassOver, SendFails, HearAnswer, HearNothing, RecordReplayed,
     RecordRefused, RecordThrew, EndPass

\* Any other step keeps the contract.
LEMMA OtherKeepsContract ==
  ASSUME Coherent,
         \/ \E a \in Attempt : Maintains(a) \/ Others(a)
         \/ \E j \in Job : SettleFailure(j) \/ DeleteProperty(j)
         \/ Tick
  PROVE  Kept
<1> USE DEF Coherent
<1>1. ASSUME NEW a \in Attempt, SweepStale(a)
      PROVE  Kept
  <2>1. state[a] = "SUBMITTING" /\ certainty[a] = "PRE_SUBMISSION"
    BY <1>1 DEF SweepStale, Applies
  <2>2. /\ state' = [state EXCEPT ![a] = "RECONCILIATION_PENDING"]
        /\ certainty' = [certainty EXCEPT ![a] = "SUBMISSION_UNKNOWN"]
        /\ UNCHANGED <<call, posts>>
    BY <1>1 DEF SweepStale, OutcomeWritten, StateOf, CertaintyOf, callVars
  <2>3. SamePermits /\ SameCalls /\ PermitOf(a) = "GRANTED"
    BY <2>1, <2>2 DEF SamePermits, SameCalls, PermitOf, FactOf, TypeOK
  <2>4. /\ \A b \in Attempt \ {a} : BeliefOf(b)' = BeliefOf(b)
        /\ BeliefOf(a) = "NONE" /\ BeliefOf(a)' = "UNKNOWN"
    BY <2>1, <2>2 DEF BeliefOf, TypeOK
  <2>5. QED
    BY <2>3, <2>4, Believes
<1>2. ASSUME NEW a \in Attempt, Resolve(a)
      PROVE  Kept
  <2>1. state[a] = "RECONCILIATION_PENDING" /\ certainty[a] = "SUBMISSION_UNKNOWN"
    BY <1>2, RowFacts DEF Resolve
  <2>2. PICK c \in {"ACCEPTED", "RETRYABLE", "TERMINAL"} :
          /\ c = call[a] \/ (call[a] = "LOST" /\ c = "RETRYABLE")
          /\ state' = [state EXCEPT ![a] = StateOf(c)]
          /\ certainty' = [certainty EXCEPT ![a] = CertaintyOf(c)]
    BY <1>2 DEF Resolve, Evidence
  <2>3. c \in Answers /\ UNCHANGED <<call, posts>>
    BY <1>2 DEF Answers, Resolve, callVars
  <2>4. SamePermits /\ SameCalls /\ PermitOf(a) = "GRANTED"
    BY <2>1, <2>2, <2>3, Outcomes DEF SamePermits, SameCalls, PermitOf, FactOf, TypeOK
  <2>5. /\ \A b \in Attempt \ {a} : BeliefOf(b)' = BeliefOf(b)
        /\ BeliefOf(a) = "UNKNOWN" /\ certainty'[a] = CertaintyOf(c)
    BY <2>1, <2>2 DEF BeliefOf, TypeOK
  <2>6. BeliefOf(a)' = FactOf(a) /\ FactOf(a) \in {"TAKEN", "NOT_TAKEN"}
    BY <2>2, <2>5 DEF BeliefOf, FactOf, CertaintyOf
  <2>7. QED
    BY <2>4, <2>5, <2>6, Believes
<1>3. ASSUME NEW a \in Attempt, ProviderDecides(a)
      PROVE  Kept
  <2>1. PICK fate \in Fates : call' = [call EXCEPT ![a] = fate]
    BY <1>3 DEF ProviderDecides
  <2>2. /\ FactOf(a) = "PENDING" /\ FactOf(a)' \in {"TAKEN", "NOT_TAKEN"}
        /\ \A b \in Attempt \ {a} : FactOf(b)' = FactOf(b)
        /\ SamePermits /\ SameBeliefs /\ posts' = posts
    BY <1>3, <2>1, SizesAssumption DEF ProviderDecides, SamePermits, SameBeliefs, PermitOf, FactOf,
       BeliefOf, TypeOK, rowVars
  <2>3. Paid!Decide(a)
    BY <2>2 DEF Paid!Decide, SamePermits, SameBeliefs
  <2>4. QED
    BY <2>3 DEF Kept, Paid!ContractNext
<1>4. ASSUME NEW a \in Attempt, NEW to, state' = [state EXCEPT ![a] = to],
             UNCHANGED <<certainty, call, posts>>, PermitOf(a)' = PermitOf(a)
      PROVE  Kept
  BY <1>4, Stutters DEF SamePermits, SameCalls, SameBeliefs, PermitOf, FactOf, BeliefOf, TypeOK
<1>5. ASSUME NEW a \in Attempt, Exhaust(a)
      PROVE  Kept
  BY <1>4, <1>5 DEF Exhaust, PermitOf, TypeOK, callVars
<1>6. ASSUME NEW a \in Attempt, Admit(a)
      PROVE  Kept
  BY <1>4, <1>6 DEF Admit, PermitOf, TypeOK, callVars
<1>7. ASSUME NEW a \in Attempt, Execute(a)
      PROVE  Kept
  <2>1. state[a] \in CompatibleStates["ACCEPTED"]
    BY <1>7 DEF Execute, RowsCohere
  <2>2. PICK to : to \in AttemptTransitions[state[a]] /\ state' = [state EXCEPT ![a] = to]
    BY <1>7 DEF Execute
  <2>3. to \notin {"ABSENT", "QUEUED", "CANCELLED_PRE_SUBMISSION"}
    BY <2>1, <2>2 DEF AttemptTransitions, CompatibleStates
  <2>4. PermitOf(a)' = PermitOf(a)
    BY <2>1, <2>2, <2>3 DEF PermitOf, CompatibleStates, TypeOK
  <2>5. QED
    BY <1>4, <1>7, <2>2, <2>4 DEF Execute, callVars
<1>8. ASSUME UNCHANGED <<state, certainty, call, posts>>
      PROVE  Kept
  BY <1>8, Stutters DEF SamePermits, SameCalls, SameBeliefs, PermitOf, FactOf, BeliefOf
<1>9. QED
  BY <1>1, <1>2, <1>3, <1>5, <1>6, <1>7, <1>8 DEF Maintains, Others, SettleFailure, DeleteProperty,
     Tick, rowVars, callVars

LEMMA StepKeepsContract == Coherent /\ [Next]_vars => Kept
<1> SUFFICES ASSUME Coherent, [Next]_vars PROVE Kept
  OBVIOUS
<1>1. CASE UNCHANGED vars
  BY <1>1, Stutters DEF SamePermits, SameCalls, SameBeliefs, PermitOf, FactOf, BeliefOf,
                        vars, rowVars, callVars
<1>2. QED
  BY <1>1, WorkerKeepsContract, OtherKeepsContract DEF Next

\* Submission keeps the contract of paid calls: whatever workers, crashes, late
\* answers and maintenance do, a call is made at most once, only after the
\* cycle had room for it, and is never recorded as what it was not.
THEOREM ContractKept == Spec => PaidContract
<1>1. Init => Paid!ContractInit
  BY DEF Init, Paid!ContractInit, PermitOf, FactOf, BeliefOf
<1>2. QED
  BY <1>1, StepKeepsContract, AlwaysCoherent, PTL DEF Spec, PaidContract, Paid!Contract, Kept

-----------------------------------------------------------------------------
(***************************************************************************)
(* The budget.  The contract alone keeps its exposure within it: only a    *)
(* grant adds a call to those that may have to be paid.                    *)
(***************************************************************************)

ExposureFits == Cardinality(Paid!MayBePaid) <= Budget

LEMMA MayBePaidFinite == IsFiniteSet(Paid!MayBePaid) /\ Cardinality(Paid!MayBePaid) \in Nat
BY AttemptsFinite, FS_Subset, FS_CardinalityType DEF Paid!MayBePaid

LEMMA ExposureStep ==
  ASSUME ExposureFits, Kept
  PROVE  ExposureFits'
<1> DEFINE S == Paid!MayBePaid
<1>1. S \in SUBSET Attempt /\ S' \in SUBSET Attempt
  BY DEF Paid!MayBePaid
<1>2. IsFiniteSet(S) /\ Cardinality(S) \in Nat /\ IsFiniteSet(S') /\ Cardinality(S') \in Nat
  BY <1>1, AttemptsFinite, FS_Subset, FS_CardinalityType
<1>3. \A b \in Attempt : b \in S <=> PermitOf(b) = "GRANTED" /\ BeliefOf(b) # "NOT_TAKEN"
  BY DEF Paid!MayBePaid
<1>4. \A b \in Attempt : b \in S' <=> PermitOf(b)' = "GRANTED" /\ BeliefOf(b)' # "NOT_TAKEN"
  BY DEF Paid!MayBePaid
<1>5. Cardinality(S) <= Budget
  BY DEF ExposureFits
<1> HIDE DEF S
<1>6. ASSUME S' \subseteq S
      PROVE  Cardinality(S') <= Budget
  BY <1>2, <1>5, <1>6, FS_Subset, SizesAssumption
<1>7. ASSUME NEW c \in Attempt, Paid!Grant(c)
      PROVE  Cardinality(S') <= Budget
  <2>1. /\ PermitOf(c) = "OPEN"
        /\ \A b \in Attempt \ {c} : PermitOf(b)' = PermitOf(b)
        /\ \A b \in Attempt : BeliefOf(b)' = BeliefOf(b)
    BY <1>7 DEF Paid!Grant
  <2>2. Cardinality(S) < Budget
    BY <1>7, SameCount DEF Paid!Grant, S
  <2>3. c \notin S /\ S' \subseteq S \cup {c}
    BY <1>1, <1>3, <1>4, <2>1
  <2>4. IsFiniteSet(S \cup {c}) /\ Cardinality(S \cup {c}) = Cardinality(S) + 1
    BY <1>2, <2>3, FS_AddElement
  <2>5. Cardinality(S') <= Cardinality(S \cup {c})
    BY <2>3, <2>4, FS_Subset
  <2>6. QED
    BY <1>2, <2>2, <2>4, <2>5, SizesAssumption
<1>8. ASSUME NEW c \in Attempt, Paid!Withdraw(c)
      PROVE  S' \subseteq S
  <2>1. /\ PermitOf(c)' = "WITHDRAWN"
        /\ \A b \in Attempt \ {c} : PermitOf(b)' = PermitOf(b)
        /\ \A b \in Attempt : BeliefOf(b)' = BeliefOf(b)
    BY <1>8 DEF Paid!Withdraw
  <2>2. QED
    BY <1>1, <1>3, <1>4, <2>1
<1>9. ASSUME NEW c \in Attempt, Paid!Make(c) \/ Paid!Decide(c)
      PROVE  S' \subseteq S
  <2>1. \A b \in Attempt : PermitOf(b)' = PermitOf(b) /\ BeliefOf(b)' = BeliefOf(b)
    BY <1>9 DEF Paid!Make, Paid!Decide
  <2>2. QED
    BY <1>1, <1>3, <1>4, <2>1
<1>10. ASSUME NEW c \in Attempt, Paid!Believe(c)
       PROVE  S' \subseteq S
  <2>1. /\ BeliefOf(c) \in {"NONE", "UNKNOWN"}
        /\ \A b \in Attempt \ {c} : BeliefOf(b)' = BeliefOf(b)
        /\ \A b \in Attempt : PermitOf(b)' = PermitOf(b)
    BY <1>10 DEF Paid!Believe
  <2>2. QED
    BY <1>1, <1>3, <1>4, <2>1
<1>11. ASSUME UNCHANGED Paid!contractVars
       PROVE  S' \subseteq S
  <2>1. \A b \in Attempt : PermitOf(b)' = PermitOf(b) /\ BeliefOf(b)' = BeliefOf(b)
    BY <1>11 DEF Paid!contractVars
  <2>2. QED
    BY <1>1, <1>3, <1>4, <2>1
<1>12. Cardinality(S') <= Budget
  BY <1>6, <1>7, <1>8, <1>9, <1>10, <1>11 DEF Kept, Paid!ContractNext
<1>13. QED
  BY <1>12 DEF ExposureFits, S

LEMMA AlwaysExposureFits == Spec => []ExposureFits
<1>1. Init => ExposureFits
  <2> SUFFICES ASSUME Init PROVE ExposureFits
    OBVIOUS
  <2>1. Paid!MayBePaid = {}
    BY DEF Init, Paid!MayBePaid, PermitOf
  <2>2. QED
    BY <2>1, AttemptsFinite, SizesAssumption DEF ExposureFits
<1>2. Coherent /\ ExposureFits /\ [Next]_vars => ExposureFits'
  BY StepKeepsContract, ExposureStep
<1>3. QED
  BY <1>1, <1>2, AlwaysCoherent, PTL DEF Spec

\* The calls the provider took never outnumber what the cycle can pay for,
\* however answers were lost, given up on or refused.
THEOREM BilledFits == Spec => []BilledCallsFit
<1>1. Coherent /\ ExposureFits => BilledCallsFit
  <2> SUFFICES ASSUME Coherent, ExposureFits PROVE BilledCallsFit
    OBVIOUS
  <2> DEFINE Billed == {a \in Attempt : call[a] = "ACCEPTED"}
  <2>1. Billed \subseteq Paid!MayBePaid
    <3>1. ASSUME NEW a \in Billed
          PROVE  Crossed(a) /\ certainty[a] # "DEFINITIVELY_REJECTED"
      BY <3>1 DEF Coherent, CallsFollowRows
    <3>2. ASSUME NEW a \in Billed
          PROVE  PermitOf(a) = "GRANTED" /\ BeliefOf(a) # "NOT_TAKEN"
      BY <3>1, <3>2, RowFacts DEF Coherent, PermitOf, BeliefOf, Crossed, SubmissionCertainty
    <3>3. QED
      BY <3>2 DEF Paid!MayBePaid
  <2>2. IsFiniteSet(Billed) /\ Cardinality(Billed) \in Nat
        /\ Cardinality(Billed) <= Cardinality(Paid!MayBePaid)
    BY <2>1, MayBePaidFinite, FS_Subset, FS_CardinalityType
  <2>3. QED
    BY <2>2, MayBePaidFinite, SizesAssumption DEF ExposureFits, BilledCallsFit
<1>2. QED
  BY <1>1, AlwaysCoherent, AlwaysExposureFits, PTL

-----------------------------------------------------------------------------
(***************************************************************************)
(* Refused answers.                                                        *)
(***************************************************************************)

\* A definite answer the record does not agree with came too late.
LEMMA RefusedMeansGivenUp ==
  ASSUME Coherent, NEW a \in Attempt, Crossed(a), ~Applies(a),
         call[a] \in {"ACCEPTED", "RETRYABLE", "TERMINAL"}, ~MatchesRecord(a, call[a])
  PROVE  certainty[a] = "SUBMISSION_UNKNOWN"
<1>1. certainty[a] # "PRE_SUBMISSION"
  BY RowFacts DEF Coherent, Crossed, Applies
<1>2. state[a] \in CompatibleStates[certainty[a]]
  BY DEF Coherent, RowsCohere, Crossed
<1>3. certainty[a] # "ACCEPTED"
  BY <1>2 DEF Coherent, CallsFollowRows, MatchesRecord, CertaintyOf
<1>4. certainty[a] # "DEFINITIVELY_REJECTED"
  BY <1>2 DEF Coherent, CallsFollowRows, MatchesRecord, CertaintyOf, StateOf
<1>5. QED
  BY <1>1, <1>3, <1>4, RowFacts DEF Coherent, SubmissionCertainty

\* A definite answer is refused only because maintenance had given the attempt
\* up: offered again after it was recorded, it is always a replay.
THEOREM RefusedOnlyAsLate == Spec => AnswerRefusedOnlyAsLate
<1> DEFINE Late == \A w \in Worker :
                     /\ pass[w].stopped = "NO"
                     /\ pass'[w].stopped = "REFUSED"
                     /\ pass[w].answer # "UNKNOWN"
                     => certainty[At(w)] = "SUBMISSION_UNKNOWN"
<1>1. Coherent /\ [Next]_vars => Late
  <2> SUFFICES ASSUME Coherent, [Next]_vars, NEW w \in Worker,
                      pass[w].stopped = "NO", pass'[w].stopped = "REFUSED",
                      pass[w].answer # "UNKNOWN"
               PROVE  certainty[At(w)] = "SUBMISSION_UNKNOWN"
    OBVIOUS
  <2>1. pass[w] \in Pass /\ pass'[w] # pass[w]
    BY DEF Coherent, TypeOK
  <2>2. Submits(w) \/ Crash(w)
    <3>1. ASSUME NEW v \in Worker, v # w, Submits(v) \/ Crash(v)
          PROVE  pass'[w] = pass[w]
      BY <3>1 DEF Submits, Crash, BeginPass, EndDeleted, LeaveDeleted, ReadWindow, SkipAttempt,
         PassOver, EndRefused, EndDeletedSince, EndsHere, Arm, Post, SendFails, HearAnswer,
         HearNothing, Hears, RecordApplied, RecordReplayed, RecordRefused, RecordThrew, MovesOn,
         TryAgain, EndPass, Remembers, Coherent, TypeOK
    <3>2. QED
      BY <2>1, <3>1 DEF Next, Maintains, Others, SweepStale, Resolve, Exhaust, ProviderDecides,
         Admit, Execute, SettleFailure, DeleteProperty, Tick, vars
  <2>3. ASSUME NEW stopped, MovesOn(w, stopped)
        PROVE  stopped = "REFUSED"
    BY <2>1, <2>3 DEF MovesOn, Remembers, Coherent, TypeOK, Pass
  <2>4. ~TryAgain(w)
    <3>1. ASSUME pass' = [pass EXCEPT ![w] = [pass[w] EXCEPT !.tries = pass[w].tries + 1]]
          PROVE  FALSE
      BY <2>1, <3>1 DEF Coherent, TypeOK, Pass
    <3>2. QED
      BY <2>3, <3>1 DEF TryAgain, Remembers
  <2>5. CASE RecordRefused(w)
    <3>1. At(w) \in Attempt /\ Crossed(At(w)) /\ pass[w].answer = call[At(w)]
          /\ pass[w].answer \in Answers
      BY <2>5, RecordingType DEF RecordRefused, Sending, Coherent, PassesFollowRows, PassFollowsRow
    <3>2. QED
      BY <2>5, <3>1, RefusedMeansGivenUp DEF RecordRefused, Answers
  <2>6. CASE RecordApplied(w) \/ RecordReplayed(w) \/ RecordThrew(w)
    BY <2>3, <2>4, <2>6 DEF RecordApplied, RecordReplayed, RecordThrew
  \* No other step sets stopped to REFUSED.
  <2>7. ~BeginPass(w)
    BY <2>1 DEF BeginPass, Remembers, Coherent, TypeOK, Pass
  <2>8. ~EndPass(w)
    BY <2>1 DEF EndPass, Remembers, Coherent, TypeOK, Pass
  <2>9. ~ReadWindow(w)
    BY <2>1 DEF ReadWindow, Remembers, Coherent, TypeOK, Pass
  <2>10. ~Crash(w)
    BY <2>1 DEF Crash, NoPass, Remembers, Coherent, TypeOK, Pass
  <2>11. ~LeaveDeleted(w)
    BY <2>1 DEF LeaveDeleted, Remembers, Coherent, TypeOK, Pass
  <2>12. ~SkipAttempt(w)
    BY <2>1 DEF SkipAttempt, Remembers, Coherent, TypeOK, Pass
  <2>13. ~PassOver(w)
    BY <2>1 DEF PassOver, Remembers, Coherent, TypeOK, Pass
  <2>14. ~Arm(w)
    BY <2>1 DEF Arm, Remembers, Coherent, TypeOK, Pass
  <2>15. ~Post(w)
    BY <2>1 DEF Post, Remembers, Coherent, TypeOK, Pass
  <2>16. ~EndDeleted(w)
    BY <2>1 DEF EndDeleted, EndsHere, Remembers, Coherent, TypeOK, Pass
  <2>17. ~EndRefused(w)
    BY <2>1 DEF EndRefused, EndsHere, Remembers, Coherent, TypeOK, Pass
  <2>18. ~EndDeletedSince(w)
    BY <2>1 DEF EndDeletedSince, EndsHere, Remembers, Coherent, TypeOK, Pass
  <2>19. ASSUME NEW answer, Hears(w, answer)
         PROVE  FALSE
    <3>1. pass'[w] = [pass[w] EXCEPT !.phase = "RECORDING", !.answer = answer, !.tries = 0]
      BY <2>19, SMT DEF Hears, Remembers, Coherent, TypeOK
    <3>2. pass'[w].stopped = pass[w].stopped
      BY <3>1, <2>1 DEF Pass
    <3>3. QED
      BY <3>2
  <2>20. ~(SendFails(w) \/ HearAnswer(w) \/ HearNothing(w))
    BY <2>19 DEF SendFails, HearAnswer, HearNothing
  <2>21. QED
    BY <2>2, <2>5, <2>6, <2>7, <2>8, <2>9, <2>10, <2>11, <2>12, <2>13, <2>14, <2>15,
       <2>16, <2>17, <2>18, <2>20 DEF Submits
<1>2. QED
  BY <1>1, AlwaysCoherent, PTL DEF Spec, AnswerRefusedOnlyAsLate

-----------------------------------------------------------------------------
(***************************************************************************)
(* The hold.                                                               *)
(***************************************************************************)

\* While an attempt of a first video is unresolved, its Unit is not free for
\* another call.
UnknownIsHeld ==
  \A b \in Attempt :
    state[b] = "RECONCILIATION_PENDING" /\ JobOf[b] \notin Revising
      => reservation[JobOf[b]] # "RESERVED"

\* A step that makes no attempt uncertain and frees no Unit keeps the hold.
LEMMA HoldStays ==
  ASSUME UnknownIsHeld,
         \A b \in Attempt : state'[b] = "RECONCILIATION_PENDING"
                              => state[b] = "RECONCILIATION_PENDING",
         \A j \in Job \ Revising : reservation'[j] = "RESERVED" => reservation[j] = "RESERVED"
  PROVE  UnknownIsHeld'
BY SizesAssumption DEF UnknownIsHeld

\* An uncertain outcome takes the hold with it.
LEMMA OutcomeHolds ==
  ASSUME Coherent, UnknownIsHeld, NEW a \in Attempt, NEW answer \in Answers,
         OutcomeWritten(a, answer)
  PROVE  UnknownIsHeld'
<1> USE SizesAssumption
<1>1. state \in [Attempt -> AttemptStates \cup {"ABSENT"}] /\ reservation \in [Job -> ReservationStates]
  BY DEF Coherent, TypeOK
<1>2. CASE answer = "UNKNOWN"
  <2>1. JobOf[a] \in Job /\ reservation'[JobOf[a]] # "RESERVED"
    BY <1>1, <1>2 DEF OutcomeWritten
  <2>2. \A j \in Job : reservation'[j] = "RESERVED" => reservation[j] = "RESERVED"
    BY <1>1, <1>2 DEF OutcomeWritten
  <2>3. \A b \in Attempt \ {a} : state'[b] = state[b]
    BY <1>1 DEF OutcomeWritten
  <2> QED BY <2>1, <2>2, <2>3 DEF UnknownIsHeld
<1>3. CASE answer # "UNKNOWN"
  <2>1. StateOf(answer) # "RECONCILIATION_PENDING"
    BY <1>3 DEF StateOf, Answers
  <2>2. reservation' = reservation
    BY <1>3 DEF OutcomeWritten
  <2> QED BY <1>1, <2>1, <2>2, HoldStays DEF OutcomeWritten
<1> QED BY <1>2, <1>3

\* A conclusion lifts the hold only when no other attempt of the job is uncertain.
LEMMA ConclusionHolds ==
  ASSUME Coherent, UnknownIsHeld, NEW a \in Attempt, state[a] = "RECONCILIATION_PENDING",
         NEW conclusion, NEW to, to # "RECONCILIATION_PENDING",
         state' = [state EXCEPT ![a] = to],
         reservation' = [reservation EXCEPT ![JobOf[a]] = HeldAfter(a, conclusion)]
  PROVE  UnknownIsHeld'
<1> USE SizesAssumption
<1>1. state \in [Attempt -> AttemptStates \cup {"ABSENT"}] /\ reservation \in [Job -> ReservationStates]
  BY DEF Coherent, TypeOK
<1>2. ASSUME NEW b \in Attempt, state'[b] = "RECONCILIATION_PENDING", JobOf[b] \notin Revising
      PROVE  reservation'[JobOf[b]] # "RESERVED"
  <2>1. b # a /\ state[b] = "RECONCILIATION_PENDING" /\ reservation[JobOf[b]] # "RESERVED"
    BY <1>1, <1>2 DEF UnknownIsHeld
  <2>2. CASE JobOf[b] = JobOf[a]
    <3>1. OtherPendingUnknown(a)
      BY <2>1, <2>2 DEF OtherPendingUnknown, AttemptsOf
    <3>2. HeldAfter(a, conclusion) # "RESERVED"
      BY <2>1, <2>2, <3>1 DEF HeldAfter
    <3> QED BY <1>1, <2>2, <3>2
  <2>3. CASE JobOf[b] # JobOf[a]
    BY <1>1, <2>1, <2>3
  <2> QED BY <2>2, <2>3
<1> QED BY <1>2 DEF UnknownIsHeld

\* A worker's step keeps the hold.
LEMMA WorkerHoldStep ==
  ASSUME Coherent, UnknownIsHeld, NEW w \in Worker, Submits(w) \/ Crash(w)
  PROVE  UnknownIsHeld'
<1> USE SizesAssumption
<1>1. CASE RecordApplied(w)
  <2>1. At(w) \in Attempt /\ pass[w].answer \in Answers
    BY <1>1, RecordingType DEF RecordApplied, Sending, Coherent
  <2>2. OutcomeWritten(At(w), pass[w].answer)
    BY <1>1 DEF RecordApplied
  <2> QED BY <2>1, <2>2, OutcomeHolds
<1>2. ASSUME NEW a, NEW s, s # "RECONCILIATION_PENDING", state' = [state EXCEPT ![a] = s],
             UNCHANGED reservation
      PROVE  UnknownIsHeld'
  BY <1>2, HoldStays DEF Coherent, TypeOK
<1>3. CASE EndsHere(w)
  BY <1>2, <1>3 DEF EndsHere, CancelBeforeSubmission, jobVars
<1>4. CASE Arm(w)
  BY <1>2, <1>4 DEF Arm, jobVars
<1>5. CASE UNCHANGED <<state, reservation>>
  BY <1>5, HoldStays
<1> QED
  BY <1>1, <1>3, <1>4, <1>5 DEF Submits, Crash, RowsUnchanged, BeginPass, EndDeleted, LeaveDeleted,
     ReadWindow, SkipAttempt, PassOver, EndRefused, EndDeletedSince, Post, SendFails, HearAnswer,
     HearNothing, RecordReplayed, RecordRefused, RecordThrew, EndPass, rowVars, jobVars

\* Any step keeps the hold.
LEMMA HoldStep == Coherent /\ UnknownIsHeld /\ [Next]_vars => UnknownIsHeld'
<1> SUFFICES ASSUME Coherent, UnknownIsHeld, [Next]_vars
             PROVE  UnknownIsHeld'
  OBVIOUS
<1> USE SizesAssumption
<1>1. ASSUME NEW w \in Worker, Submits(w) \/ Crash(w)
      PROVE  UnknownIsHeld'
  BY <1>1, WorkerHoldStep
<1>2. ASSUME NEW a \in Attempt, SweepStale(a)
      PROVE  UnknownIsHeld'
  BY <1>2, OutcomeHolds DEF SweepStale, Answers
<1>3. ASSUME NEW a \in Attempt, Resolve(a)
      PROVE  UnknownIsHeld'
  <2>1. PICK c \in Evidence(a) :
          /\ state' = [state EXCEPT ![a] = StateOf(c)]
          /\ reservation' = [reservation EXCEPT ![JobOf[a]] = HeldAfter(a, c)]
    BY <1>3 DEF Resolve
  <2>2. StateOf(c) # "RECONCILIATION_PENDING"
    BY <2>1 DEF Evidence, StateOf
  <2>3. state[a] = "RECONCILIATION_PENDING"
    BY <1>3 DEF Resolve
  <2> QED BY <2>1, <2>2, <2>3, ConclusionHolds
<1>4. ASSUME NEW a \in Attempt, Exhaust(a)
      PROVE  UnknownIsHeld'
  BY <1>4, ConclusionHolds DEF Exhaust
<1>5. ASSUME NEW a \in Attempt, Admit(a) \/ Execute(a)
      PROVE  UnknownIsHeld'
  <2>1. PICK s : s # "RECONCILIATION_PENDING" /\ state' = [state EXCEPT ![a] = s]
    <3>1. CASE Admit(a)
      BY <3>1 DEF Admit
    <3>2. CASE Execute(a)
      <4>1. state[a] \in CompatibleStates["ACCEPTED"]
        BY <3>2 DEF Execute, Coherent, RowsCohere
      <4>2. PICK to : to \in AttemptTransitions[state[a]] /\ state' = [state EXCEPT ![a] = to]
        BY <3>2 DEF Execute
      <4>3. to # "RECONCILIATION_PENDING"
        BY <4>1, <4>2 DEF AttemptTransitions, CompatibleStates
      <4> QED BY <4>2, <4>3
    <3> QED BY <1>5, <3>1, <3>2
  <2>2. reservation' = reservation
    BY <1>5 DEF Admit, Execute, jobVars
  <2>3. \A b \in Attempt : state'[b] = "RECONCILIATION_PENDING"
                            => state[b] = "RECONCILIATION_PENDING"
    BY <2>1 DEF Coherent, TypeOK
  <2> QED BY <2>2, <2>3, HoldStays
<1>6. ASSUME NEW j \in Job, SettleFailure(j)
      PROVE  UnknownIsHeld'
  BY <1>6, HoldStays DEF SettleFailure, rowVars, Coherent, TypeOK
<1>7. CASE UNCHANGED <<state, reservation>>
  BY <1>7, HoldStays
<1> QED
  BY <1>1, <1>2, <1>3, <1>4, <1>5, <1>6, <1>7 DEF Next, Maintains, Others, ProviderDecides,
     DeleteProperty, Tick, vars, rowVars, jobVars

\* Only the arm brings a queued attempt to the provider boundary.
LEMMA OnlyTheArmSubmits ==
  ASSUME Coherent, [Next]_vars, NEW a \in Attempt, state[a] = "QUEUED", state'[a] = "SUBMITTING"
  PROVE  GatePermits(a)
<1> USE SizesAssumption
<1>1. state \in [Attempt -> AttemptStates \cup {"ABSENT"}]
  BY DEF Coherent, TypeOK
<1>2. ASSUME NEW b, NEW s, state' = [state EXCEPT ![b] = s], s # "SUBMITTING"
      PROVE  FALSE
  BY <1>1, <1>2
<1>3. ASSUME NEW b \in Attempt, NEW answer \in Answers, OutcomeWritten(b, answer)
      PROVE  FALSE
  BY <1>2, <1>3 DEF OutcomeWritten, StateOf, Answers
<1>4. ASSUME NEW w \in Worker, Submits(w) \/ Crash(w)
      PROVE  GatePermits(a)
  <2>1. CASE Arm(w)
    <3>1. a = At(w)
      BY <1>1, <2>1 DEF Arm
    <3> QED BY <2>1, <3>1 DEF Arm
  <2>2. CASE RecordApplied(w)
    BY <1>3, <2>2, RecordingType DEF RecordApplied, Sending, Coherent
  <2>3. CASE EndsHere(w)
    BY <1>2, <2>3 DEF EndsHere, CancelBeforeSubmission
  <2>4. CASE UNCHANGED state
    BY <2>4
  <2> QED
    BY <1>4, <2>1, <2>2, <2>3, <2>4 DEF Submits, Crash, RowsUnchanged, BeginPass, EndDeleted,
       LeaveDeleted, ReadWindow, SkipAttempt, PassOver, EndRefused, EndDeletedSince, Post,
       SendFails, HearAnswer, HearNothing, RecordReplayed, RecordRefused, RecordThrew, EndPass,
       rowVars
<1>5. ASSUME NEW b \in Attempt, Maintains(b)
      PROVE  FALSE
  <2>1. CASE SweepStale(b)
    BY <1>3, <2>1 DEF SweepStale, Answers
  <2>2. CASE Resolve(b)
    <3>1. PICK c \in Evidence(b) : state' = [state EXCEPT ![b] = StateOf(c)]
      BY <2>2 DEF Resolve
    <3>2. StateOf(c) # "SUBMITTING"
      BY <3>1 DEF Evidence, StateOf
    <3> QED BY <1>2, <3>1, <3>2
  <2>3. CASE Exhaust(b)
    BY <1>2, <2>3 DEF Exhaust
  <2> QED BY <1>5, <2>1, <2>2, <2>3 DEF Maintains
<1>6. ASSUME NEW b \in Attempt, Others(b)
      PROVE  FALSE
  <2>1. CASE Admit(b)
    BY <1>2, <2>1 DEF Admit
  <2>2. CASE Execute(b)
    <3>1. state[b] # "QUEUED"
      BY <2>2, RowFacts DEF Execute, Coherent
    <3> QED BY <1>1, <2>2, <3>1 DEF Execute
  <2>3. CASE ProviderDecides(b)
    BY <2>3 DEF ProviderDecides, rowVars
  <2> QED BY <1>6, <2>1, <2>2, <2>3 DEF Others
<1> QED
  BY <1>4, <1>5, <1>6 DEF Next, SettleFailure, DeleteProperty, Tick, vars, rowVars

\* While a call of a first video is unresolved, no other call is permitted for
\* it: the hold taken with the uncertainty lasts until the last one is resolved,
\* whoever resolves, exhausts or settles them and in whatever order.
THEOREM NothingIntoUncertainty == Spec => NoCallIntoUncertainty
<1>1. Init => UnknownIsHeld
  BY DEF Init, UnknownIsHeld
<1>2. Coherent /\ UnknownIsHeld /\ [Next]_vars
        => [\A a \in Attempt :
              /\ state[a] = "QUEUED"
              /\ state'[a] = "SUBMITTING"
              /\ JobOf[a] \notin Revising
              => \A b \in AttemptsOf(JobOf[a]) : state[b] # "RECONCILIATION_PENDING"]_vars
  <2> SUFFICES ASSUME Coherent, UnknownIsHeld, [Next]_vars, NEW a \in Attempt,
                      state[a] = "QUEUED", state'[a] = "SUBMITTING", JobOf[a] \notin Revising,
                      NEW b \in AttemptsOf(JobOf[a])
               PROVE  state[b] # "RECONCILIATION_PENDING"
    OBVIOUS
  <2>1. reservation[JobOf[a]] = "RESERVED"
    BY OnlyTheArmSubmits DEF GatePermits, Fundable
  <2> QED BY <2>1 DEF UnknownIsHeld, AttemptsOf
<1> QED BY <1>1, <1>2, HoldStep, AlwaysCoherent, PTL DEF Spec, NoCallIntoUncertainty

--------------------------------------------------------------------------------
(***************************************************************************)
(* What the gate and the prices under it promise.                          *)
(***************************************************************************)

\* Nearest is off by half a unit at most.
LEMMA NearestIsNear ==
  ASSUME NEW amount \in Nat, NEW size \in Nat, size > 0
  PROVE  /\ Nearest(amount, size) \in Nat
         /\ 2 * amount - size < 2 * (Nearest(amount, size) * size)
         /\ 2 * (Nearest(amount, size) * size) <= 2 * amount + size
<1> DEFINE q == amount \div size
           r == amount % size
<1>1. q \in Nat /\ r \in Nat /\ r < size /\ amount = size * q + r
  OBVIOUS
<1>2. (q + 1) * size = size * q + size /\ q * size = size * q
  BY <1>1
<1> QED BY <1>1, <1>2 DEF Nearest

LEMMA MagnitudeIsNat ==
  ASSUME NEW n \in Int
  PROVE  Magnitude(n) \in Nat /\ (n # 0 => Magnitude(n) > 0)
BY DEF Magnitude

\* Rounding is to the nearest whole amount, with either sign: whatever is
\* multiplied and divided, the result times the denominator misses the product
\* by half the denominator at most (units.ts mulDivBig).
THEOREM RoundedToTheNearest ==
  ASSUME NEW value \in Int, NEW numerator \in Int, NEW denominator \in Nat \ {0}
  PROVE  LET result == mulDiv(value, numerator, denominator)
         IN  /\ result \in Int
             /\ 2 * Magnitude(result * denominator - value * numerator) <= denominator
<1> DEFINE product == value * numerator
           size == Nearest(Magnitude(product), denominator)
           result == mulDiv(value, numerator, denominator)
<1>1. product \in Int /\ Magnitude(product) \in Nat
  BY MagnitudeIsNat
<1>2. Magnitude(denominator) = denominator
  BY DEF Magnitude
<1>3. result = IF product < 0 THEN -size ELSE size
  BY <1>1, <1>2 DEF mulDiv
<1>4. /\ size \in Nat
      /\ 2 * Magnitude(product) - denominator < 2 * (size * denominator)
      /\ 2 * (size * denominator) <= 2 * Magnitude(product) + denominator
  BY <1>1, NearestIsNear
<1> HIDE DEF product, size, result
<1>5. result \in Int
  BY <1>3, <1>4
<1>6. CASE product < 0
  <2>1. result * denominator = -(size * denominator)
    BY <1>3, <1>4, <1>6
  <2>2. Magnitude(product) = -product
    BY <1>6 DEF Magnitude
  <2> DEFINE paid == size * denominator
  <2>3. paid \in Int
    BY <1>4
  <2> HIDE DEF paid
  <2>4. 2 * Magnitude(-paid - product) <= denominator
    BY <1>1, <1>4, <2>2, <2>3 DEF Magnitude, paid
  <2> QED BY <1>5, <2>1, <2>4 DEF paid, product, result
<1>7. CASE ~ (product < 0)
  <2>1. result = size
    BY <1>3, <1>7
  <2>2. Magnitude(product) = product
    BY <1>1, <1>7 DEF Magnitude
  <2> DEFINE paid == size * denominator
  <2>3. paid \in Int
    BY <1>4
  <2> HIDE DEF paid
  <2>4. 2 * Magnitude(paid - product) <= denominator
    BY <1>1, <1>4, <2>2, <2>3 DEF Magnitude, paid
  <2> QED BY <1>5, <2>1, <2>4 DEF paid, product, result
<1> QED BY <1>6, <1>7

LEMMA ShareOfAnAmount ==
  ASSUME NEW amount \in Nat, NEW rate \in Nat
  PROVE  /\ applyBps(amount, rate) \in Nat
         /\ 2 * (amount * rate) - 10000 < 20000 * applyBps(amount, rate)
         /\ 20000 * applyBps(amount, rate) <= 2 * (amount * rate) + 10000
<1> DEFINE product == amount * rate
<1>1. product \in Nat
  OBVIOUS
<1>2. applyBps(amount, rate) = Nearest(product, 10000)
  BY <1>1 DEF applyBps, mulDiv, Magnitude, ONE_HUNDRED_PERCENT_BPS
<1> HIDE DEF product
<1>3. /\ Nearest(product, 10000) \in Nat
      /\ 2 * product - 10000 < 2 * (Nearest(product, 10000) * 10000)
      /\ 2 * (Nearest(product, 10000) * 10000) <= 2 * product + 10000
  BY <1>1, NearestIsNear
<1> QED BY <1>1, <1>2, <1>3 DEF product

LEMMA ShareOfAProduct ==
  ASSUME NEW amount \in Nat, NEW rate \in Nat, NEW product, product = amount * rate
  PROVE  /\ applyBps(amount, rate) \in Nat
         /\ 2 * product - 10000 < 20000 * applyBps(amount, rate)
         /\ 20000 * applyBps(amount, rate) <= 2 * product + 10000
BY ShareOfAnAmount

LEMMA FifthOfAnAmount ==
  ASSUME NEW amount \in Nat
  PROVE  /\ applyBps(amount, 2000) \in Nat
         /\ 4000 * amount - 10000 < 20000 * applyBps(amount, 2000)
         /\ 20000 * applyBps(amount, 2000) <= 4000 * amount + 10000
BY ShareOfAnAmount

\* The Safety Guard's two floors never cross, so its three answers are three
\* bands of the projected profit, in one order, at every revenue
\* (safety-guard.ts evaluateSafetyGuard).
THEOREM FloorsAreOrdered ==
  ASSUME NEW revenue \in Nat, NEW profit \in Int
  PROVE  /\ safetyGuardThresholds(revenue).hardPause <= safetyGuardThresholds(revenue).warning
         /\ evaluateSafetyGuard(revenue, profit) # "HARD_PAUSE"
              <=> profit >= safetyGuardThresholds(revenue).hardPause
         /\ evaluateSafetyGuard(revenue, profit) = "SAFE"
              <=> profit >= safetyGuardThresholds(revenue).warning
<1>1. /\ applyBps(revenue, 2500) \in Nat
      /\ 5000 * revenue - 10000 < 20000 * applyBps(revenue, 2500)
  BY ShareOfAnAmount
<1>2. /\ applyBps(revenue, 2000) \in Nat
      /\ 20000 * applyBps(revenue, 2000) <= 4000 * revenue + 10000
  BY ShareOfAnAmount
<1>3. maxYen(15000, applyBps(revenue, 2000)) <= maxYen(20000, applyBps(revenue, 2500))
  BY <1>1, <1>2 DEF maxYen
<1>4. /\ maxYen(15000, applyBps(revenue, 2000)) \in Nat
      /\ maxYen(20000, applyBps(revenue, 2500)) \in Nat
  BY <1>1, <1>2 DEF maxYen
<1> QED BY <1>3, <1>4 DEF safetyGuardThresholds, evaluateSafetyGuard

\* A cycle that earns more never pauses for it: the floor rises slower than the
\* revenue, so a purchase cannot stop a submission the guard let through, and only
\* a cancellation can (safety-guard.ts safetyGuardThresholds; revenue.ts).
THEOREM EarningMoreNeverPauses ==
  ASSUME NEW revenue \in Nat, NEW more \in Nat, NEW exposure \in Nat,
         evaluateSafetyGuard(revenue, revenue - exposure) # "HARD_PAUSE"
  PROVE  evaluateSafetyGuard(revenue + more, revenue + more - exposure) # "HARD_PAUSE"
<1>a. /\ applyBps(revenue, 2000) \in Nat
      /\ 4000 * revenue - 10000 < 20000 * applyBps(revenue, 2000)
  BY FifthOfAnAmount
<1>b. revenue + more \in Nat
  OBVIOUS
<1>c. /\ applyBps(revenue + more, 2000) \in Nat
      /\ 20000 * applyBps(revenue + more, 2000) <= 4000 * (revenue + more) + 10000
  BY <1>b, FifthOfAnAmount
<1> DEFINE before == applyBps(revenue, 2000)
           after == applyBps(revenue + more, 2000)
<1>1. before \in Nat /\ 4000 * revenue - 10000 < 20000 * before
  BY <1>a
<1>2. after \in Nat /\ 20000 * after <= 4000 * (revenue + more) + 10000
  BY <1>c
<1> HIDE DEF before, after
<1>3. after <= before + more
  BY <1>1, <1>2
<1>4. revenue - exposure >= maxYen(15000, before)
  BY FloorsAreOrdered DEF safetyGuardThresholds, before
<1>5. revenue + more - exposure >= maxYen(15000, after)
  BY <1>1, <1>2, <1>3, <1>4 DEF maxYen
<1> QED BY <1>5, FloorsAreOrdered DEF safetyGuardThresholds, after

--------------------------------------------------------------------------------
(* Costs.                                                                       *)

LEMMA LeastIsLeast ==
  ASSUME NEW S \in SUBSET Nat, S # {}
  PROVE  Least(S) \in S /\ \A y \in S : Least(S) <= y
<1>1. \E x \in S : \A y \in S : ~ (<<y, x>> \in OpToRel(<, Nat))
  BY NatLessThanWellFounded, WFMin
<1>2. \A x \in Nat, y \in Nat : <<y, x>> \in OpToRel(<, Nat) <=> y < x
  BY DEF OpToRel
<1>3. \E x \in S : \A y \in S : x <= y
  <2>1. PICK x \in S : \A y \in S : ~ (<<y, x>> \in OpToRel(<, Nat))
    BY <1>1
  <2>2. ASSUME NEW y \in S  PROVE  x <= y
    <3>1. ~ (y < x)
      BY <1>2, <2>1
    <3> QED BY <3>1
  <2> QED BY <2>2
<1> QED BY <1>3 DEF Least

\* What the provider bills is never shorter than what is asked for, and of the
\* lengths it sells it is the shortest that is long enough
\* (provider-cost-calculator.ts resolveBillableDurationSeconds).
THEOREM BilledIsLongEnough ==
  ASSUME NEW policy \in BillableDurationPolicy, NEW requested \in Int,
         resolveBillableDurationSeconds(policy, requested).ok
  PROVE  LET billed == resolveBillableDurationSeconds(policy, requested).value
         IN  /\ requested > 0 /\ billed \in Nat /\ billed >= requested
             /\ policy.kind = "CONTINUOUS" => billed = requested
             /\ policy.kind = "DISCRETE" =>
                  /\ billed \in policy.supported
                  /\ \A s \in policy.supported : s >= requested => billed <= s
<1>1. requested > 0
  BY DEF resolveBillableDurationSeconds, Failure
<1>2. CASE policy.kind = "CONTINUOUS"
  <2>1. resolveBillableDurationSeconds(policy, requested).value = requested
    BY <1>1, <1>2 DEF resolveBillableDurationSeconds, Failure, Ok
  <2> QED BY <1>1, <1>2, <2>1
<1>3. CASE policy.kind # "CONTINUOUS"
  <2> DEFINE sufficient == {s \in policy.supported : s >= requested}
  <2>1. policy.kind = "DISCRETE" /\ policy.supported \in SUBSET Nat
    BY <1>3 DEF BillableDurationPolicy
  <2>2. /\ sufficient # {}
        /\ resolveBillableDurationSeconds(policy, requested).value = Least(sufficient)
    BY <1>1, <1>3 DEF resolveBillableDurationSeconds, Failure, Ok
  <2>3. /\ Least(sufficient) \in sufficient
        /\ \A y \in sufficient : Least(sufficient) <= y
    BY <2>1, <2>2, LeastIsLeast
  <2> QED BY <1>1, <1>3, <2>1, <2>2, <2>3
<1> QED BY <1>2, <1>3

LEMMA ElementOfSeq ==
  ASSUME NEW S, NEW seq \in Seq(S), NEW i \in DOMAIN seq
  PROVE  seq[i] \in S
OBVIOUS

\* The stable price of any billed length is an amount, by every rule.
LEMMA PricesAreAmounts ==
  ASSUME NEW rule \in DurationBillingRule, NEW seconds \in Nat,
         priceForBillableDuration(rule, seconds).ok
  PROVE  priceForBillableDuration(rule, seconds).value \in Nat
<1>1. seconds > 0
  BY DEF priceForBillableDuration, Failure
<1>2. CASE rule.kind = "PER_SECOND"
  <2>1. rule.price \in Nat
    BY <1>2 DEF DurationBillingRule
  <2>2. mulDiv(rule.price, seconds, 1) \in Nat
    <3> DEFINE amount == rule.price * seconds
    <3>1. amount \in Nat
      BY <2>1
    <3>2. mulDiv(rule.price, seconds, 1) = Nearest(amount, 1)
      BY <3>1 DEF mulDiv, Magnitude
    <3> HIDE DEF amount
    <3>3. Nearest(amount, 1) \in Nat
      BY <3>1, NearestIsNear
    <3> QED BY <3>2, <3>3
  <2>3. priceForBillableDuration(rule, seconds).value = mulDiv(rule.price, seconds, 1)
    BY <1>1, <1>2 DEF priceForBillableDuration, Ok
  <2> QED BY <2>2, <2>3
<1>3. CASE rule.kind = "FIXED_DURATION"
  <2>1. rule.price \in Nat
    BY <1>3 DEF DurationBillingRule
  <2>2. priceForBillableDuration(rule, seconds).value = rule.price
    BY <1>1, <1>3 DEF priceForBillableDuration, Ok, Failure
  <2> QED BY <2>1, <2>2
<1>4. CASE rule.kind = "DURATION_BUCKET"
  <2> DEFINE fitting == {i \in DOMAIN rule.buckets : seconds <= rule.buckets[i].upTo}
  <2>1. rule.buckets \in Seq([upTo : Nat, price : Nat])
    BY <1>4 DEF DurationBillingRule
  <2>2. /\ fitting # {}
        /\ priceForBillableDuration(rule, seconds).value = rule.buckets[Least(fitting)].price
    BY <1>1, <1>4 DEF priceForBillableDuration, Ok, Failure
  <2>3. fitting \in SUBSET Nat
    BY <2>1
  <2>4. Least(fitting) \in DOMAIN rule.buckets
    BY <2>2, <2>3, LeastIsLeast
  <2> HIDE DEF fitting
  <2>5. rule.buckets[Least(fitting)] \in [upTo : Nat, price : Nat]
    BY <2>1, <2>4, ElementOfSeq
  <2> QED BY <2>2, <2>5
<1> QED BY <1>2, <1>3, <1>4 DEF DurationBillingRule

LEMMA BufferOnTop ==
  ASSUME NEW stable \in Nat, NEW buffer \in Nat
  PROVE  LET planned == applyBps(stable, 10000 + buffer)
         IN  /\ planned \in Nat
             /\ 2 * (stable * (10000 + buffer)) <= 20000 * planned + 10000
             /\ stable <= planned
<1> DEFINE rate == 10000 + buffer
           product == stable * rate
           extra == stable * buffer
           planned == applyBps(stable, rate)
<1>1. rate \in Nat /\ extra \in Nat /\ product = 10000 * stable + extra
  OBVIOUS
<1> HIDE DEF rate, product, extra, planned
<1>2. /\ planned \in Nat
      /\ 2 * product - 10000 < 20000 * planned
      /\ 20000 * planned <= 2 * product + 10000
  BY <1>1, ShareOfAProduct DEF product, planned
<1>3. stable <= planned /\ 2 * product <= 20000 * planned + 10000
  BY <1>1, <1>2
<1> QED BY <1>2, <1>3 DEF product, planned, rate

\* The cost a clip is planned at is never below its stable price, and the buffer
\* on top is what it says to half a micro-dollar: no rounding eats it
\* (provider-cost-calculator.ts estimateProviderCost).
THEOREM PlanningCoversStable ==
  ASSUME NEW contract, contract.stable.rule \in DurationBillingRule \cup {None},
         contract.billableDuration \in BillableDurationPolicy,
         NEW buffer \in Nat, NEW requested \in Int,
         estimateProviderCost(contract, buffer, requested).ok
  PROVE  LET cost == estimateProviderCost(contract, buffer, requested).value
         IN  /\ cost.billable >= requested
             /\ cost.stable \in Nat /\ cost.planning \in Nat
             /\ cost.planning >= cost.stable
             /\ 20000 * cost.planning + 10000 >= 2 * (cost.stable * (10000 + buffer))
<1> DEFINE rule == contract.stable.rule
           billable == resolveBillableDurationSeconds(contract.billableDuration, requested)
           price == priceForBillableDuration(rule, billable.value)
           cost == estimateProviderCost(contract, buffer, requested).value
<1>1. rule # None /\ billable.ok /\ price.ok
  BY DEF estimateProviderCost, Failure
<1>2. cost = [billable |-> billable.value, stable |-> price.value,
              planning |-> applyBps(price.value, 10000 + buffer)]
  BY <1>1 DEF estimateProviderCost, Ok, ONE_HUNDRED_PERCENT_BPS
<1>3. billable.value \in Nat /\ billable.value >= requested
  BY <1>1, BilledIsLongEnough
<1>4. rule \in DurationBillingRule
  BY <1>1
<1>5. price.value \in Nat
  BY <1>1, <1>3, <1>4, PricesAreAmounts
<1>6. /\ applyBps(price.value, 10000 + buffer) \in Nat
      /\ 2 * (price.value * (10000 + buffer))
           <= 20000 * applyBps(price.value, 10000 + buffer) + 10000
      /\ price.value <= applyBps(price.value, 10000 + buffer)
  <2> HIDE DEF price
  <2> QED BY <1>5, BufferOnTop
<1>7. /\ cost.billable = billable.value /\ cost.stable = price.value
      /\ cost.planning = applyBps(price.value, 10000 + buffer)
  BY <1>2
<1> HIDE DEF rule, billable, price
<1> QED BY <1>3, <1>5, <1>6, <1>7

--------------------------------------------------------------------------------
(* The gate.                                                                    *)

\* The query that loads the other attempts of a cycle drops exactly the ones the
\* classification would call NONE: nothing that may cost money is filtered away
\* before it is judged (exposure.ts; paid-submission-authorization-repository.ts
\* loadExposure).
THEOREM NothingCostlyIsFiltered ==
  ASSUME NEW orchestration,
         NEW known \in {"PRE_SUBMISSION", "ACCEPTED", "SUBMISSION_UNKNOWN",
                        "DEFINITIVELY_REJECTED"}
  PROVE  isPotentiallyCostExposed(orchestration, known)
           <=> classifyProviderCostExposure(orchestration, known) # "NONE"
BY DEF isPotentiallyCostExposed, classifyProviderCostExposure,
       ALWAYS_COST_EXPOSED_ATTEMPT_STATES, COST_BEARING_SUBMISSION_CERTAINTIES

LEMMA Authorized ==
  ASSUME NEW db, NEW contracts, NEW policy, NEW id, NEW at, NEW prepared,
         authorize(db, contracts, policy, id, at, prepared).kind = "AUTHORIZED"
  PROVE  /\ AttemptRefusal(db.attempt[id]) = None
         /\ ReservationRefusal(db.attempt[id], db.job, db.reservation) = None
         /\ PricingRefusal(db, contracts, id, at) = None
         /\ RouteRefusal(db, policy, id) = None
         /\ GuardRefusal(db, contracts, id) = None
         /\ sourceFailure(db.source, prepared) = None
         /\ LET armed == armProviderBoundaryWithin(db, id, db.attempt[id].version)
            IN  /\ armed.kind = "ARMED"
                /\ authorize(db, contracts, policy, id, at, prepared).db = armed.db
<1> DEFINE decision == evaluatePaidSubmissionGate(db, contracts, policy, id, at)
           armed == armProviderBoundaryWithin(db, id, decision.version)
           result == authorize(db, contracts, policy, id, at, prepared)
<1>1. decision.kind = "PERMITTED"
  <2>1. CASE decision.kind # "PERMITTED"
    <3>1. result.kind = decision.kind
      BY <2>1 DEF authorize
    <3>2. decision.kind # "AUTHORIZED"
      BY DEF evaluatePaidSubmissionGate, Refused
    <3> QED BY <3>1, <3>2
  <2> QED BY <2>1
<1>2. /\ AttemptRefusal(db.attempt[id]) = None
      /\ ReservationRefusal(db.attempt[id], db.job, db.reservation) = None
      /\ PricingRefusal(db, contracts, id, at) = None
      /\ RouteRefusal(db, policy, id) = None
      /\ GuardRefusal(db, contracts, id) = None
      /\ decision.version = db.attempt[id].version
  BY <1>1 DEF evaluatePaidSubmissionGate, Refused
<1>3. sourceFailure(db.source, prepared) = None
  BY <1>1 DEF authorize
<1>4. armed.kind = "ARMED" /\ result.db = armed.db
  BY <1>1, <1>3 DEF authorize
<1> QED BY <1>2, <1>3, <1>4

\* Every reason one of the parts below can refuse with; None is none of them.
Reasons == UNION {AttemptArmabilityFailure, ReservationAuthorizationFailure,
                  PricingAuthorizationFailure, SafetyGuardAuthorizationFailure,
                  SourceAuthorizationFailure}

\* A call is paid for only while the cycle, this call included, still earns its
\* hard-pause floor, and only when every attempt that may cost something could be
\* priced; unknown revenue authorizes nothing (gate.ts evaluatePaidSubmissionGate).
THEOREM PaidWithinTheFloor ==
  ASSUME None \notin Reasons, NEW db, NEW contracts, NEW policy, NEW id, NEW at, NEW prepared,
         authorize(db, contracts, policy, id, at, prepared).kind = "AUTHORIZED"
  PROVE  LET revenue == billingCycleRevenueYen(db.period)
             planned == CostOf(db, contracts, id).yen
         IN  /\ \A a \in Exposed(db, id) : CostOf(db, contracts, a).ok
             /\ revenue # None
             /\ ~ (revenue - totalProviderCostExposureYen(db, contracts, id, planned)
                     < safetyGuardThresholds(revenue).hardPause)
<1>1. GuardRefusal(db, contracts, id) = None
  BY Authorized
<1> DEFINE revenue == billingCycleRevenueYen(db.period)
           planned == CostOf(db, contracts, id).yen
           profit == revenue - totalProviderCostExposureYen(db, contracts, id, planned)
<1>2. /\ ExposureVerified(db, contracts, id)
      /\ revenue # None
      /\ evaluateSafetyGuard(revenue, profit) # "HARD_PAUSE"
  BY <1>1 DEF GuardRefusal, Reasons,
         PricingAuthorizationFailure, SafetyGuardAuthorizationFailure
<1> HIDE DEF revenue, profit
<1>3. ~ (profit < safetyGuardThresholds(revenue).hardPause)
  BY <1>2, Zenon DEF evaluateSafetyGuard
<1> QED BY <1>2, <1>3, Zenon DEF ExposureVerified, revenue, profit

\* A call is paid for only for a waiting attempt nobody submitted, on a held
\* reservation (a spent one funds revisions alone) of this attempt's job, from the
\* photo the call was prepared with, on a property nobody deleted; and then the
\* attempt alone moves (gate.ts; paid-submission-service.ts authorize).
THEOREM PaidOnlyWhenHeld ==
  ASSUME None \notin Reasons, NEW db, NEW contracts, NEW policy, NEW id, NEW at, NEW prepared,
         db.reservation.state \in {"RESERVING", "RESERVED", "CONSUMED", "RELEASED",
                                  "RECONCILIATION_HOLD"},
         authorize(db, contracts, policy, id, at, prepared).kind = "AUTHORIZED"
  PROVE  LET row == db.attempt[id]
         IN  /\ row.state = "QUEUED" /\ CertaintyOfRow(row) = "PRE_SUBMISSION"
             /\ row.job = db.reservation.job
             /\ \/ db.reservation.state = "RESERVED"
                \/ db.reservation.state = "CONSUMED" /\ row.requestKind = "USER_REGENERATION"
             /\ db.reservation.units = db.job.units
             /\ ~ db.source.propertyDeleted
             /\ prepared = <<db.source.asset.storageKey, db.source.asset.mimeType,
                            db.source.asset.sha256>>
             /\ authorize(db, contracts, policy, id, at, prepared).db
                  = [db EXCEPT !.attempt[id].state = "SUBMITTING", !.attempt[id].version = @ + 1]
<1> DEFINE row == db.attempt[id]
<1>1. /\ AttemptRefusal(row) = None
      /\ ReservationRefusal(row, db.job, db.reservation) = None
      /\ sourceFailure(db.source, prepared) = None
      /\ armProviderBoundaryWithin(db, id, row.version).kind = "ARMED"
      /\ authorize(db, contracts, policy, id, at, prepared).db
          = armProviderBoundaryWithin(db, id, row.version).db
  BY Authorized
<1>2. row.state = "QUEUED" /\ CertaintyOfRow(row) = "PRE_SUBMISSION"
  <2>1. NON_ARMABLE_STATE_REASON(row.state) \in Reasons
    BY DEF NON_ARMABLE_STATE_REASON, Reasons, AttemptArmabilityFailure
  <2>2. NON_ARMABLE_CERTAINTY_REASON(CertaintyOfRow(row)) \in Reasons
    BY DEF NON_ARMABLE_CERTAINTY_REASON, Reasons, AttemptArmabilityFailure
  <2> QED BY <1>1, <2>1, <2>2 DEF AttemptRefusal
<1>3. /\ db.reservation.job = db.job.id /\ row.job = db.job.id
      /\ RESERVATION_ADMISSIBILITY(db.reservation.state, row.requestKind) = None
      /\ db.reservation.units = db.job.units
  BY <1>1 DEF ReservationRefusal, Reasons, ReservationAuthorizationFailure
<1>4. \/ db.reservation.state = "RESERVED"
      \/ db.reservation.state = "CONSUMED" /\ row.requestKind = "USER_REGENERATION"
  BY <1>3 DEF RESERVATION_ADMISSIBILITY, Reasons, ReservationAuthorizationFailure
<1>5. /\ ~ db.source.propertyDeleted
      /\ prepared = <<db.source.asset.storageKey, db.source.asset.mimeType,
                     db.source.asset.sha256>>
  BY <1>1 DEF sourceFailure, Reasons, SourceAuthorizationFailure
<1>6. armProviderBoundaryWithin(db, id, row.version).db
        = [db EXCEPT !.attempt[id].state = "SUBMITTING", !.attempt[id].version = @ + 1]
  BY <1>1 DEF armProviderBoundaryWithin
<1> QED BY <1>1, <1>2, <1>3, <1>4, <1>5, <1>6

\* The cost a call is authorized at is the one today's code derives, from a contract
\* that may be paid for at this moment, for the tier of the job and the duration of
\* the attempt, at a stored rate: nothing in the stored decision is believed
\* (pricing-integrity.ts verifyPersistedPricingSnapshot).
THEOREM PaidAtTheContractsPrice ==
  ASSUME None \notin Reasons, NEW db, NEW contracts, NEW policy, NEW id, NEW at, NEW prepared,
         authorize(db, contracts, policy, id, at, prepared).kind = "AUTHORIZED"
  PROVE  LET row      == db.attempt[id]
             stored   == db.snapshot[id]
             contract == contractFor(contracts, stored)
             fx       == db.rate[stored.fxSnapshotId]
             derived  == createPricingSnapshot(contract,
                                               riskProfileKeyForQualityTier(db.job.qualityTier),
                                               row.duration, stored.effectiveAt, fx)
         IN  /\ evaluatePaidSubmissionPricingEligibility(contract, at).ok
             /\ validateFxSnapshot(fx).ok
             /\ derived.ok /\ stored = derived.value
             /\ CostOf(db, contracts, id)
                  = Verified(convertMicroUsdToYen(derived.value.planningCost, fx).value)
<1> DEFINE row      == db.attempt[id]
           stored   == db.snapshot[id]
           contract == contractFor(contracts, stored)
           eligible == evaluatePaidSubmissionPricingEligibility(contract, at)
           fx       == loadFxSnapshot(db.rate, stored.fxSnapshotId)
           verified == verifyPersistedPricingSnapshot(stored, contract, fx)
           derived  == createPricingSnapshot(contract, stored.riskProfileKey,
                                             stored.requestedSeconds, stored.effectiveAt, fx)
           cost     == CostOf(db, contracts, id)
<1>1. PricingRefusal(db, contracts, id, at) = None
  BY Authorized
<1>2. stored # None /\ BindingValid(row, db.job, stored)
  BY <1>1 DEF PricingRefusal, Reasons, PricingAuthorizationFailure
<1>3. eligible.ok
  <2>1. ~ eligible.ok => eligible.reason \in Reasons
    BY DEF evaluatePaidSubmissionPricingEligibility, Failure, Ok, Reasons,
           PricingAuthorizationFailure
  <2> HIDE DEF eligible
  <2>2. ~ eligible.ok => PricingRefusal(db, contracts, id, at) = eligible.reason
    BY <1>2 DEF PricingRefusal, eligible
  <2> QED BY <1>1, <2>1, <2>2
<1>4. ~ verified.ok => verified.reason \in Reasons
  BY DEF verifyPersistedPricingSnapshot, Failure, Reasons, PricingAuthorizationFailure
<1> HIDE DEF verified
<1>5. \/ ~ cost.ok /\ cost.reason \in Reasons
      \/ /\ stored.fxSnapshotId # None /\ fx # None /\ verified.ok
         /\ cost = Verified(convertMicroUsdToYen(verified.value.planningCost, fx).value)
  <2>1. cost = verifiedPlanningCostYen(db.rate, contracts, stored)
    BY <1>2 DEF CostOf
  <2>2. cost = IF stored.fxSnapshotId = None THEN Unverified("PRICING_FX_SNAPSHOT_MISSING")
               ELSE IF fx = None THEN Unverified("PRICING_FX_SNAPSHOT_INVALID")
               ELSE IF verified.ok
                    THEN Verified(convertMicroUsdToYen(verified.value.planningCost, fx).value)
                    ELSE Unverified(verified.reason)
    BY <2>1, Zenon DEF verifiedPlanningCostYen, verified
  <2> HIDE DEF cost, fx
  <2> QED BY <1>4, <2>2 DEF Unverified, Reasons, PricingAuthorizationFailure
<1>6. cost.ok
  <2> HIDE DEF cost, eligible
  <2>1. ~ cost.ok => PricingRefusal(db, contracts, id, at) = cost.reason
    BY <1>2, <1>3 DEF PricingRefusal, cost, eligible
  <2>2. CASE ~ cost.ok /\ cost.reason \in Reasons
    BY <1>1, <2>1, <2>2
  <2>3. CASE cost = Verified(convertMicroUsdToYen(verified.value.planningCost, fx).value)
    BY <2>3 DEF Verified
  <2> QED BY <1>5, <2>2, <2>3
<1>7. /\ fx # None /\ verified.ok
      /\ cost = Verified(convertMicroUsdToYen(verified.value.planningCost, fx).value)
  BY <1>5, <1>6
<1>8. fx = db.rate[stored.fxSnapshotId] /\ validateFxSnapshot(fx).ok
  BY <1>7 DEF loadFxSnapshot
<1>9. derived.ok /\ derived.value = stored /\ verified = derived
  BY <1>7 DEF verifyPersistedPricingSnapshot, verified, Failure
<1>10. /\ stored.riskProfileKey = riskProfileKeyForQualityTier(db.job.qualityTier)
       /\ stored.requestedSeconds = row.duration
  BY <1>2 DEF BindingValid
<1> HIDE DEF eligible, cost, fx
<1> QED BY <1>3, <1>7, <1>8, <1>9, <1>10 DEF eligible, cost

\* A call just authorized is exposure to the next gate of its cycle, in flight and
\* at the price it was authorized at, although nothing has been answered yet: two
\* calls of one cycle are never each paid for as if the other were not
\* (exposure.ts; loadExposure).
THEOREM TheNextOneCountsIt ==
  ASSUME None \notin Reasons, NEW db, NEW contracts, NEW policy, NEW id, NEW at, NEW prepared,
         {"attempt", "cycle", "snapshot", "rate"} \subseteq DOMAIN db,
         id \in db.cycle, db.cycle \subseteq DOMAIN db.attempt,
         {"state", "version", "certainty"} \subseteq DOMAIN db.attempt[id],
         authorize(db, contracts, policy, id, at, prepared).kind = "AUTHORIZED",
         NEW other \in db.cycle \ {id}
  PROVE  LET after == authorize(db, contracts, policy, id, at, prepared).db
             row == after.attempt[id]
         IN  /\ Exposed(after, other) = Exposed(db, other) \cup {id}
             /\ classifyProviderCostExposure(row.state, CertaintyOfRow(row)) = "IN_FLIGHT"
             /\ CostOf(after, contracts, id) = CostOf(db, contracts, id)
<1> DEFINE after == authorize(db, contracts, policy, id, at, prepared).db
           before == db.attempt[id]
           row == after.attempt[id]
<1>1. /\ AttemptRefusal(before) = None
      /\ armProviderBoundaryWithin(db, id, before.version).kind = "ARMED"
      /\ after = armProviderBoundaryWithin(db, id, before.version).db
  BY Authorized
<1>2. CertaintyOfRow(before) = "PRE_SUBMISSION"
  <2>1. NON_ARMABLE_STATE_REASON(before.state) \in Reasons
    BY DEF NON_ARMABLE_STATE_REASON, Reasons, AttemptArmabilityFailure
  <2>2. NON_ARMABLE_CERTAINTY_REASON(CertaintyOfRow(before)) \in Reasons
    BY DEF NON_ARMABLE_CERTAINTY_REASON, Reasons, AttemptArmabilityFailure
  <2> QED BY <1>1, <2>1, <2>2 DEF AttemptRefusal
<1>3. after = [db EXCEPT !.attempt[id].state = "SUBMITTING", !.attempt[id].version = @ + 1]
  BY <1>1 DEF armProviderBoundaryWithin
<1> HIDE DEF after
<1>4. /\ after.cycle = db.cycle /\ after.snapshot = db.snapshot /\ after.rate = db.rate
      /\ \A a \in db.cycle \ {id} : after.attempt[a] = db.attempt[a]
  BY <1>3
<1>5. row.state = "SUBMITTING" /\ row.certainty = before.certainty
  BY <1>3
<1>6. CertaintyOfRow(row) = "PRE_SUBMISSION"
  BY <1>2, <1>5 DEF CertaintyOfRow
<1>7. isPotentiallyCostExposed(row.state, CertaintyOfRow(row))
  BY <1>5, <1>6 DEF isPotentiallyCostExposed, ALWAYS_COST_EXPOSED_ATTEMPT_STATES
<1>8. Exposed(after, other) = Exposed(db, other) \cup {id}
  BY <1>4, <1>7 DEF Exposed
<1>9. classifyProviderCostExposure(row.state, CertaintyOfRow(row)) = "IN_FLIGHT"
  BY <1>5, <1>6 DEF classifyProviderCostExposure
<1>10. CostOf(after, contracts, id) = CostOf(db, contracts, id)
  BY <1>4 DEF CostOf
<1> QED BY <1>8, <1>9, <1>10 DEF after

================================================================================
