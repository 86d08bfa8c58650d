------------------------------ MODULE MediaProofs ------------------------------
(***************************************************************************)
(* The media workers, for every number of them and whatever a download, an *)
(* encode or a disclosure may bring: what their rows may hold, that a lease *)
(* which still runs is respected, that no pass can meet rows its next       *)
(* transaction throws on, that a resolved verdict had its consequence, and  *)
(* that the workers implement MediaContract.                                *)
(***************************************************************************)
EXTENDS MediaProperties, TLAPS

-----------------------------------------------------------------------------
(***************************************************************************)
(* The rows.                                                               *)
(***************************************************************************)

Takes == ClipTake \cup MasterTake \cup VideoTake

\* A receipt: the digest and the size an object was verified with, or none yet.
Receipts == [source : {"none", "provider"} \cup Takes, take : {"none"} \cup Takes]

AttemptStates ==
  INGESTIBLE \cup {"NONE", "QUEUED", "OUTPUT_VERIFIED", "FAILED_RETRYABLE",
                   "FAILED_TERMINAL", "CANCELLED_PRE_SUBMISSION"}

AttemptRows == [state : AttemptStates, receipt : Receipts]

\* A row of leased work, by the statuses its table knows.
WorkRow(final) ==
  [status : {"NONE", "PENDING", "RUNNING"} \cup final,
   holder : Worker \cup {Nobody}, expired : BOOLEAN]

Resolutions == {"RECOVERY_ADMITTED", "INITIAL_FAILURE_SETTLED", "OBSOLETE"}

JudgingRows   == WorkRow(Verdicts)
ResolvingRows == WorkRow(Resolutions)
ComposingRows == WorkRow({"OUTPUT_VERIFIED", "BLOCKED"})
CheckingRows  == WorkRow(Verdicts)

RequestStates == {"GENERATING", "DELIVERED", "FAILED_TERMINAL"}

JobRows ==
  [state : {"GENERATING", "COMPOSITION_PENDING", "COMPOSING", "DELIVERABLE_VALIDATING",
            "DELIVERABLE_READY", "FAILED_TERMINAL"},
   unit  : {"RESERVED", "RELEASED", "CONSUMED"}]

Plans == [attempt : Attempt \cup {"none"}, source : Receipts, executable : BOOLEAN]

CompositionReceipts == [video : Receipts, master : Receipts]

-----------------------------------------------------------------------------
(***************************************************************************)
(* What a worker remembers between two steps of a pass.                    *)
(***************************************************************************)

Polls == [at : {"POLL"}, on : Attempt, seen : INGESTIBLE]

Completions ==
  [at : {"COMPLETE"}, on : Attempt,
   answer : {"SUCCEEDED", "FAILED_RETRYABLE", "FAILED_TERMINAL"}]

Transfers ==
  [at : {"BEGIN", "TRANSFER"}, on : Attempt]
    \cup [at : {"COMMIT"}, on : Attempt, bytes : Receipts]
    \cup [at : {"VERIFY"}, on : Attempt, receipt : Receipts]

Judgements ==
  [at : {"JUDGE"}, on : Attempt, expects : Receipts]
    \cup [at : {"JUDGED"}, on : Attempt, verdict : Verdicts \cup {"RETRYABLE_FAILURE"}]

Dispositions == {"OBSOLETE", "RECONCILE_RECOVERY", "SETTLE_EXHAUSTED", "ADMIT_RECOVERY"}

\* A claim is only ever attempted of a row that was seen to be due.
Claims ==
  [at : {"CLAIM"}, on : Attempt, row : {row \in ResolvingRows : Claimable(row)},
   todo : Dispositions]

Resolving == [at : Dispositions \cup {"ADMIT", "ADMITTED", "RELEASE"}, on : Attempt]

Composing ==
  [at : {"PROBE", "PROBE_MASTER", "FETCH", "COMPOSE"}]
    \cup [at : {"STORE_MASTER"}, bytes : Receipts]
    \cup [at : {"DISCLOSE"}, copy : Receipts]
    \cup [at : {"STORE_VIDEO"}, copy : Receipts, bytes : Receipts]

BlockCodes ==
  {"PLAN_REFUSED", "SOURCE_INTEGRITY_MISMATCH", "CLEAN_MASTER_SIZE_LIMIT_EXCEEDED",
   "CLEAN_MASTER_UNUSABLE", "OUTPUT_SIZE_LIMIT_EXCEEDED"}

Composed ==
  [at : {"FINALIZE"}, video : Receipts, master : Receipts]
    \cup [at : {"BLOCK"}, code : BlockCodes]

Checks ==
  [at : {"CHECK"}, expects : Receipts]
    \cup [at : {"CHECKED"}, verdict : Verdicts \cup {"RETRYABLE_FAILURE"}]
    \cup [at : {"SHOW"}]

Pass ==
  [at : {"IDLE"}] \cup Polls \cup Completions \cup Transfers \cup Judgements \cup Claims
    \cup Resolving \cup Composing \cup Composed \cup Checks

-----------------------------------------------------------------------------
(***************************************************************************)
(* The type invariant.                                                     *)
(***************************************************************************)

ClipTypeOK ==
  /\ attempt \in [Attempt -> AttemptRows]
  /\ judging \in [Attempt -> JudgingRows]
  /\ resolving \in [Attempt -> ResolvingRows]

JobTypeOK ==
  /\ request \in RequestStates
  /\ job \in JobRows

VideoTypeOK ==
  /\ plan \in Plans
  /\ composing \in ComposingRows
  /\ receipts \in CompositionReceipts
  /\ checking \in CheckingRows
  /\ shown \in Receipts

TypeOK ==
  /\ stored \in [Object -> Receipts]
  /\ ClipTypeOK
  /\ JobTypeOK
  /\ VideoTypeOK
  /\ pass \in [Worker -> Pass]

LEMMA NothingIsAReceipt == Nothing \in Receipts /\ NoReceipts \in CompositionReceipts
BY DEF Nothing, Bytes, Receipts, NoReceipts, CompositionReceipts

LEMMA TakesMakeReceipts ==
  ASSUME NEW source \in {"none", "provider"} \cup Takes, NEW take \in Takes
  PROVE  Bytes(source, take) \in Receipts
BY DEF Bytes, Receipts

\* The forms of a work row.
LEMMA RowForms ==
  ASSUME NEW final, NEW w \in Worker
  PROVE  /\ NoRow \in WorkRow(final)
         /\ ClaimedBy(w) \in WorkRow(final)
         /\ Released \in WorkRow(final)
         /\ \A as \in final : Settled(as) \in WorkRow(final)
         /\ \A row \in WorkRow(final) :
              /\ TimedOut(row) \in WorkRow(final)
              /\ \A to \in WorkRow(final) : Written(row, w, to) \in WorkRow(final)
<1>1. \A row \in WorkRow(final) : TimedOut(row) \in WorkRow(final)
  BY DEF TimedOut, WorkRow
<1>2. \A row \in WorkRow(final) : \A to \in WorkRow(final) : Written(row, w, to) \in WorkRow(final)
  BY DEF Written
<1>3. \A as \in final : Settled(as) \in WorkRow(final)
  BY DEF Settled, WorkRow
<1>4. NoRow \in WorkRow(final) /\ ClaimedBy(w) \in WorkRow(final) /\ Released \in WorkRow(final)
  BY DEF NoRow, ClaimedBy, Released, WorkRow
<1>5. QED BY <1>1, <1>2, <1>3, <1>4

\* What a worker remembers at each phase.
LEMMA Remembers ==
  ASSUME NEW p \in Pass
  PROVE  /\ p.at = "POLL" => p \in Polls
         /\ p.at = "COMPLETE" => p \in Completions
         /\ p.at \in {"BEGIN", "TRANSFER", "COMMIT", "VERIFY"} => p \in Transfers
         /\ p.at \in {"JUDGE", "JUDGED"} => p \in Judgements
         /\ p.at = "CLAIM" => p \in Claims
         /\ p.at \in Dispositions \cup {"ADMIT", "ADMITTED", "RELEASE"} => p \in Resolving
         /\ p.at \in {"STORE_MASTER", "DISCLOSE", "STORE_VIDEO"} => p \in Composing
         /\ p.at \in {"FINALIZE", "BLOCK"} => p \in Composed
         /\ p.at \in {"CHECK", "CHECKED"} => p \in Checks
<1>1. \/ p \in [at : {"IDLE"}] \/ p \in Polls \/ p \in Completions \/ p \in Transfers
      \/ p \in Judgements \/ p \in Claims \/ p \in Resolving \/ p \in Composing
      \/ p \in Composed \/ p \in Checks
  BY DEF Pass
<1>2. /\ p \in [at : {"IDLE"}] => p.at = "IDLE"
      /\ p \in Polls => p.at = "POLL"
      /\ p \in Completions => p.at = "COMPLETE"
      /\ p \in Transfers => p.at \in {"BEGIN", "TRANSFER", "COMMIT", "VERIFY"}
      /\ p \in Judgements => p.at \in {"JUDGE", "JUDGED"}
  BY DEF Polls, Completions, Transfers, Judgements
<1>3. /\ p \in Claims => p.at = "CLAIM"
      /\ p \in Resolving => p.at \in Dispositions \cup {"ADMIT", "ADMITTED", "RELEASE"}
      /\ p \in Composing => p.at \in {"PROBE", "PROBE_MASTER", "FETCH", "COMPOSE",
                                      "STORE_MASTER", "DISCLOSE", "STORE_VIDEO"}
      /\ p \in Composed => p.at \in {"FINALIZE", "BLOCK"}
      /\ p \in Checks => p.at \in {"CHECK", "CHECKED", "SHOW"}
  BY DEF Claims, Resolving, Composing, Composed, Checks
<1>4. QED BY <1>1, <1>2, <1>3, SMTT(60) DEF Dispositions

-----------------------------------------------------------------------------
(***************************************************************************)
(* The steps of a pass.                                                    *)
(***************************************************************************)

\* A worker that goes on with something a worker may remember.
LEMMA GoingOn ==
  ASSUME NEW passes \in [Worker -> Pass], NEW w \in Worker, NEW p \in Pass
  PROVE  [passes EXCEPT ![w] = p] \in [Worker -> Pass]
OBVIOUS

\* Ingestion: what is polled, staged, stored and recorded.
LEMMA IngestionIsTyped ==
  ASSUME TypeOK, NEW w \in Worker
  PROVE  /\ \A a \in Attempt : LoadPollingContext(w, a) => TypeOK'
         /\ Poll(w) => TypeOK'
         /\ Complete(w) => TypeOK'
         /\ Begin(w) => TypeOK'
         /\ Transfer(w) => TypeOK'
         /\ Commit(w) => TypeOK'
         /\ Verify(w) => TypeOK'
<1> DEFINE p == pass[w]
<1>0. p \in Pass /\ pass \in [Worker -> Pass] BY DEF TypeOK
<1>1. ASSUME NEW a \in Attempt, LoadPollingContext(w, a) PROVE TypeOK'
  <2>1. [at |-> "POLL", on |-> a, seen |-> attempt[a].state] \in Pass
    BY <1>1 DEF LoadPollingContext, Pass, Polls
  <2>2. pass' \in [Worker -> Pass]
    BY <1>0, <1>1, <2>1 DEF LoadPollingContext, Goes
  <2>3. QED
    BY <1>1, <2>2 DEF LoadPollingContext, TypeOK, ClipTypeOK, JobTypeOK, VideoTypeOK,
       clipRows, jobRows, videoRows
<1>2. ASSUME Poll(w) PROVE TypeOK'
  <2>1. p \in Polls BY <1>0, <1>2, Remembers DEF Poll, At
  <2>2. \A answer \in {"SUCCEEDED", "FAILED_RETRYABLE", "FAILED_TERMINAL"} :
          [at |-> "COMPLETE", on |-> p.on, answer |-> answer] \in Pass
    BY <2>1 DEF Pass, Polls, Completions
  <2>3. [at |-> "BEGIN", on |-> p.on] \in Pass /\ [at |-> "TRANSFER", on |-> p.on] \in Pass
    BY <2>1 DEF Pass, Polls, Transfers
  <2>4. pass' \in [Worker -> Pass]
    BY <1>0, <1>2, <2>2, <2>3, GoingOn DEF Poll, Goes
  <2>5. QED
    BY <1>2, <2>4 DEF Poll, TypeOK, ClipTypeOK, JobTypeOK, VideoTypeOK,
       clipRows, jobRows, videoRows
<1>3. ASSUME Complete(w) PROVE TypeOK'
  <2>1. p \in Completions BY <1>0, <1>3, Remembers DEF Complete, At
  <2>2. attempt' \in [Attempt -> AttemptRows]
    BY <1>3, <2>1 DEF Complete, TypeOK, ClipTypeOK, AttemptRows, AttemptStates, INGESTIBLE,
       Completions
  <2>3. [at |-> "BEGIN", on |-> p.on] \in Pass /\ Idle \in Pass
    BY <2>1 DEF Pass, Completions, Transfers, Idle
  <2>4. pass' \in [Worker -> Pass]
    BY <1>0, <1>3, <2>3, GoingOn DEF Complete, Goes, Ends
  <2>5. QED
    BY <1>3, <2>2, <2>4 DEF Complete, TypeOK, ClipTypeOK, JobTypeOK, VideoTypeOK,
       jobRows, videoRows
<1>4. ASSUME Begin(w) PROVE TypeOK'
  <2>1. p \in Transfers /\ p.on \in Attempt
    BY <1>0, <1>4, Remembers DEF Begin, At, Transfers
  <2>2. attempt' \in [Attempt -> AttemptRows]
    BY <1>4, <2>1 DEF Begin, TypeOK, ClipTypeOK, AttemptRows, AttemptStates, INGESTIBLE
  <2>3. [at |-> "TRANSFER", on |-> p.on] \in Pass /\ Idle \in Pass
    BY <2>1 DEF Pass, Transfers, Idle
  <2>4. pass' \in [Worker -> Pass]
    BY <1>0, <1>4, <2>3, GoingOn DEF Begin, Goes, Ends
  <2>5. QED
    BY <1>4, <2>2, <2>4 DEF Begin, TypeOK, ClipTypeOK, JobTypeOK, VideoTypeOK,
       jobRows, videoRows
<1>5. ASSUME Transfer(w) PROVE TypeOK'
  <2>1. p \in Transfers /\ p.on \in Attempt
    BY <1>0, <1>5, Remembers DEF Transfer, At, Transfers
  <2>2. ASSUME NEW take \in ClipTake
        PROVE  [at |-> "COMMIT", on |-> p.on, bytes |-> Bytes("provider", take)] \in Pass
    BY <2>1, TakesMakeReceipts DEF Pass, Transfers, Takes
  <2>3. pass' \in [Worker -> Pass]
    BY <1>0, <1>5, <2>2, GoingOn DEF Transfer, Goes
  <2>4. QED
    BY <1>5, <2>3 DEF Transfer, TypeOK, ClipTypeOK, JobTypeOK, VideoTypeOK,
       clipRows, jobRows, videoRows
<1>6. ASSUME Commit(w) PROVE TypeOK'
  <2>1. p \in Transfers /\ p.on \in Attempt /\ p.bytes \in Receipts /\ p.on \in Object
    BY <1>0, <1>6, Remembers DEF Commit, At, Transfers, Object
  <2>2. stored' \in [Object -> Receipts]
    BY <1>6, <2>1 DEF Commit, PutIfAbsent, TypeOK
  <2>3. [at |-> "VERIFY", on |-> p.on, receipt |-> stored'[p.on]] \in Pass
    BY <2>1, <2>2 DEF Pass, Transfers
  <2>4. pass' \in [Worker -> Pass]
    BY <1>0, <1>6, <2>3, GoingOn DEF Commit, Goes
  <2>5. QED
    BY <1>6, <2>2, <2>4 DEF Commit, TypeOK, ClipTypeOK, JobTypeOK, VideoTypeOK,
       clipRows, jobRows, videoRows
<1>7. ASSUME Verify(w) PROVE TypeOK'
  <2>1. p \in Transfers /\ p.on \in Attempt /\ p.receipt \in Receipts
    BY <1>0, <1>7, Remembers DEF Verify, At, Transfers
  <2>2. attempt' \in [Attempt -> AttemptRows]
    BY <1>7, <2>1 DEF Verify, TypeOK, ClipTypeOK, AttemptRows, AttemptStates
  <2>3. Idle \in Pass BY DEF Pass, Idle
  <2>4. pass' \in [Worker -> Pass]
    BY <1>0, <1>7, <2>3, GoingOn DEF Verify, Goes, Ends
  <2>5. QED
    BY <1>7, <2>2, <2>4 DEF Verify, TypeOK, ClipTypeOK, JobTypeOK, VideoTypeOK,
       jobRows, videoRows
<1>8. QED BY <1>1, <1>2, <1>3, <1>4, <1>5, <1>6, <1>7

\* A write of a claim leaves a row of its table.
LEMMA WrittenRows ==
  ASSUME NEW final, NEW rows \in [Attempt -> WorkRow(final)], NEW a \in Attempt,
         NEW w \in Worker, NEW to \in WorkRow(final)
  PROVE  [rows EXCEPT ![a] = Written(@, w, to)] \in [Attempt -> WorkRow(final)]
BY DEF Written

\* Judging: the claim, the verdict, and the write of it.
LEMMA JudgingIsTyped ==
  ASSUME TypeOK, NEW w \in Worker
  PROVE  /\ \A a \in Attempt : JudgeClaim(w, a) => TypeOK'
         /\ Judge(w) => TypeOK'
         /\ JudgeWrite(w) => TypeOK'
<1> DEFINE p == pass[w]
<1>0. /\ p \in Pass /\ pass \in [Worker -> Pass] /\ Idle \in Pass
      /\ judging \in [Attempt -> WorkRow(Verdicts)]
  BY DEF TypeOK, ClipTypeOK, JudgingRows, Pass, Idle
<1>1. ASSUME NEW a \in Attempt, JudgeClaim(w, a) PROVE TypeOK'
  <2>1. attempt[a].receipt \in Receipts BY DEF TypeOK, ClipTypeOK, AttemptRows
  <2>2. [at |-> "JUDGE", on |-> a, expects |-> attempt[a].receipt] \in Pass
    BY <2>1 DEF Pass, Judgements
  <2>3. pass' \in [Worker -> Pass]
    BY <1>0, <1>1, <2>2, GoingOn DEF JudgeClaim, Goes
  <2>4. judging' \in [Attempt -> WorkRow(Verdicts)]
    BY <1>0, <1>1, RowForms DEF JudgeClaim
  <2>5. QED
    BY <1>1, <2>3, <2>4 DEF JudgeClaim, TypeOK, ClipTypeOK, JobTypeOK, VideoTypeOK,
       JudgingRows, jobRows, videoRows
<1>2. ASSUME Judge(w) PROVE TypeOK'
  <2>1. p.on \in Attempt BY <1>0, <1>2, Remembers DEF Judge, At, Judgements
  <2>2. \A v \in {"RETRYABLE_FAILURE", Verdict(stored[p.on], p.expects)} :
          v \in Verdicts \cup {"RETRYABLE_FAILURE"}
    BY DEF Verdict, Verdicts, BadVerdicts
  <2>3. \A v \in Verdicts \cup {"RETRYABLE_FAILURE"} :
          [at |-> "JUDGED", on |-> p.on, verdict |-> v] \in Pass
    BY <2>1 DEF Pass, Judgements
  <2>4. pass' \in [Worker -> Pass]
    BY <1>0, <1>2, <2>2, <2>3, GoingOn DEF Judge, Goes
  <2>5. QED
    BY <1>2, <2>4 DEF Judge, TypeOK, ClipTypeOK, JobTypeOK, VideoTypeOK,
       clipRows, jobRows, videoRows
<1>3. ASSUME JudgeWrite(w) PROVE TypeOK'
  <2>1. p.on \in Attempt BY <1>0, <1>3, Remembers DEF JudgeWrite, At, Judgements
  <2>2. (IF p.verdict \in Verdicts THEN Settled(p.verdict) ELSE Released) \in WorkRow(Verdicts)
    BY RowForms
  <2>3. judging' \in [Attempt -> WorkRow(Verdicts)]
    BY <1>0, <1>3, <2>1, <2>2, WrittenRows DEF JudgeWrite
  <2>4. pass' \in [Worker -> Pass]
    BY <1>0, <1>3, GoingOn DEF JudgeWrite, Goes, Ends
  <2>5. QED
    BY <1>3, <2>3, <2>4 DEF JudgeWrite, TypeOK, ClipTypeOK, JobTypeOK, VideoTypeOK,
       JudgingRows, jobRows, videoRows
<1>4. QED BY <1>1, <1>2, <1>3

\* Resolving: the look, the claim, and the three ways a bad verdict ends.
LEMMA ResolvingIsTyped ==
  ASSUME TypeOK, NEW w \in Worker
  PROVE  /\ \A a \in Attempt : ResolveLook(w, a) => TypeOK'
         /\ ResolveClaim(w) => TypeOK'
         /\ Resolve(w) => TypeOK'
         /\ Release(w) => TypeOK'
         /\ PlanRecovery(w) => TypeOK'
         /\ AdmitRecovery(w) => TypeOK'
         /\ SettleExhausted(w) => TypeOK'
<1> DEFINE p == pass[w]
<1>0. /\ p \in Pass /\ pass \in [Worker -> Pass] /\ Idle \in Pass
      /\ resolving \in [Attempt -> WorkRow(Resolutions)]
  BY DEF TypeOK, ClipTypeOK, ResolvingRows, Pass, Idle
<1>1. ASSUME NEW a \in Attempt, ResolveLook(w, a) PROVE TypeOK'
  <2>1. classify(a) \in Dispositions BY DEF classify, Dispositions
  <2>2. resolving[a] \in {row \in ResolvingRows : Claimable(row)}
    BY <1>0, <1>1 DEF ResolveLook, ResolvingRows
  <2>3. [at |-> "CLAIM", on |-> a, row |-> resolving[a], todo |-> classify(a)] \in Pass
    BY <2>1, <2>2 DEF Pass, Claims
  <2>4. pass' \in [Worker -> Pass]
    BY <1>0, <1>1, <2>3, GoingOn DEF ResolveLook, Goes
  <2>5. QED
    BY <1>1, <2>4 DEF ResolveLook, TypeOK, ClipTypeOK, JobTypeOK, VideoTypeOK,
       clipRows, jobRows, videoRows
<1>2. ASSUME ResolveClaim(w) PROVE TypeOK'
  <2>1. p.on \in Attempt /\ p.todo \in Dispositions
    BY <1>0, <1>2, Remembers DEF ResolveClaim, At, Claims
  <2>2. [at |-> p.todo, on |-> p.on] \in Pass BY <2>1 DEF Pass, Resolving
  <2>3. pass' \in [Worker -> Pass]
    BY <1>0, <1>2, <2>2, GoingOn DEF ResolveClaim, Goes, Ends
  <2>4. resolving' \in [Attempt -> WorkRow(Resolutions)]
    BY <1>0, <1>2, <2>1, RowForms DEF ResolveClaim
  <2>5. QED
    BY <1>2, <2>3, <2>4 DEF ResolveClaim, TypeOK, ClipTypeOK, JobTypeOK, VideoTypeOK,
       ResolvingRows, jobRows, videoRows
<1>3. ASSUME Resolve(w) PROVE TypeOK'
  <2>1. p.on \in Attempt
    BY <1>0, <1>3, Remembers DEF Resolve, At, Resolving, Dispositions
  <2>2. Settled("OBSOLETE") \in WorkRow(Resolutions)
        /\ Settled("RECOVERY_ADMITTED") \in WorkRow(Resolutions)
    BY RowForms DEF Resolutions
  <2>3. resolving' \in [Attempt -> WorkRow(Resolutions)]
    BY <1>0, <1>3, <2>1, <2>2, WrittenRows DEF Resolve, WriteResolution
  <2>4. pass' \in [Worker -> Pass] BY <1>0, <1>3, GoingOn DEF Resolve, Goes, Ends
  <2>5. QED
    BY <1>3, <2>3, <2>4 DEF Resolve, TypeOK, ClipTypeOK, JobTypeOK, VideoTypeOK,
       ResolvingRows, jobRows, videoRows
<1>4. ASSUME Release(w) PROVE TypeOK'
  <2>1. p.on \in Attempt
    BY <1>0, <1>4, Remembers DEF Release, At, Resolving
  <2>2. resolving' \in [Attempt -> WorkRow(Resolutions)]
    BY <1>0, <1>4, <2>1, RowForms, WrittenRows DEF Release, WriteResolution
  <2>3. pass' \in [Worker -> Pass] BY <1>0, <1>4, GoingOn DEF Release, Goes, Ends
  <2>4. QED
    BY <1>4, <2>2, <2>3 DEF Release, TypeOK, ClipTypeOK, JobTypeOK, VideoTypeOK,
       ResolvingRows, jobRows, videoRows
<1>5. ASSUME PlanRecovery(w) PROVE TypeOK'
  <2>1. p.on \in Attempt
    BY <1>0, <1>5, Remembers DEF PlanRecovery, At, Resolving, Dispositions
  <2>2. \A next \in {"ADMIT", "RELEASE"} : [at |-> next, on |-> p.on] \in Pass
    BY <2>1 DEF Pass, Resolving
  <2>3. pass' \in [Worker -> Pass]
    BY <1>0, <1>5, <2>2, GoingOn DEF PlanRecovery, Goes
  <2>4. QED
    BY <1>5, <2>3 DEF PlanRecovery, TypeOK, ClipTypeOK, JobTypeOK, VideoTypeOK,
       clipRows, jobRows, videoRows
<1>6. ASSUME AdmitRecovery(w) PROVE TypeOK'
  <2>1. p.on \in Attempt
    BY <1>0, <1>6, Remembers DEF AdmitRecovery, At, Resolving
  <2>2. \A next \in {"ADMITTED", "RELEASE"} : [at |-> next, on |-> p.on] \in Pass
    BY <2>1 DEF Pass, Resolving
  <2>3. pass' \in [Worker -> Pass]
    BY <1>0, <1>6, <2>2, GoingOn DEF AdmitRecovery, Goes
  <2>4. attempt' \in [Attempt -> AttemptRows]
    <3>1. NewAttempt("QUEUED") \in AttemptRows
      BY NothingIsAReceipt DEF NewAttempt, AttemptRows, AttemptStates
    <3>2. QED BY <1>6, <3>1 DEF AdmitRecovery, TypeOK, ClipTypeOK
  <2>5. QED
    BY <1>6, <2>3, <2>4 DEF AdmitRecovery, TypeOK, ClipTypeOK, JobTypeOK, VideoTypeOK,
       jobRows, videoRows
<1>7. ASSUME SettleExhausted(w) PROVE TypeOK'
  <2>1. p.on \in Attempt
    BY <1>0, <1>7, Remembers DEF SettleExhausted, At, Resolving, Dispositions
  <2>2. [at |-> "RELEASE", on |-> p.on] \in Pass BY <2>1 DEF Pass, Resolving
  <2>3. pass' \in [Worker -> Pass]
    BY <1>0, <1>7, <2>2, GoingOn DEF SettleExhausted, Goes, Ends
  <2>4. Settled("INITIAL_FAILURE_SETTLED") \in WorkRow(Resolutions)
    BY RowForms DEF Resolutions
  <2>5. resolving' \in [Attempt -> WorkRow(Resolutions)]
    BY <1>0, <1>7, <2>1, <2>4, WrittenRows DEF SettleExhausted, WriteResolution
  <2>6. JobTypeOK'
    BY <1>7 DEF SettleExhausted, JobFails, TypeOK, JobTypeOK, JobRows, RequestStates
  <2>7. QED
    BY <1>7, <2>3, <2>5, <2>6 DEF SettleExhausted, TypeOK, ClipTypeOK, VideoTypeOK,
       ResolvingRows, videoRows
<1>8. QED BY <1>1, <1>2, <1>3, <1>4, <1>5, <1>6, <1>7

\* Composition: what is probed, encoded, disclosed, stored and recorded.
LEMMA CompositionIsTyped ==
  ASSUME TypeOK, NEW w \in Worker
  PROVE  /\ ComposeClaim(w) => TypeOK'
         /\ ProbeVideo(w) => TypeOK'
         /\ ProbeMaster(w) => TypeOK'
         /\ FetchMaster(w) => TypeOK'
         /\ Compose(w) => TypeOK'
         /\ StoreMaster(w) => TypeOK'
         /\ Disclose(w) => TypeOK'
         /\ StoreVideo(w) => TypeOK'
         /\ DeferComposition(w) => TypeOK'
         /\ FinalizeComposition(w) => TypeOK'
         /\ BlockComposition(w) => TypeOK'
<1> DEFINE p == pass[w]
<1>0. /\ p \in Pass /\ pass \in [Worker -> Pass] /\ Idle \in Pass
      /\ stored \in [Object -> Receipts] /\ "master" \in Object /\ "video" \in Object
      /\ job \in JobRows
      /\ composing \in ComposingRows
  BY DEF TypeOK, VideoTypeOK, JobTypeOK, Pass, Idle, Object
<1>a. \A code \in BlockCodes : [at |-> "BLOCK", code |-> code] \in Pass
  BY DEF Pass, Composed
<1>b. \A phase \in {"PROBE", "PROBE_MASTER", "FETCH", "COMPOSE"} : [at |-> phase] \in Pass
  BY DEF Pass, Composing
<1>c. \A copy \in Receipts : [at |-> "DISCLOSE", copy |-> copy] \in Pass
  BY DEF Pass, Composing
<1>d. \A video, master \in Receipts :
        [at |-> "FINALIZE", video |-> video, master |-> master] \in Pass
  BY DEF Pass, Composed
<1>e. \A bytes \in Receipts : \A key \in Object :
        [stored EXCEPT ![key] = bytes] \in [Object -> Receipts]
  BY <1>0
<1>1. ASSUME ComposeClaim(w) PROVE TypeOK'
  <2>1. pass' \in [Worker -> Pass]
    BY <1>0, <1>1, <1>a, <1>b, GoingOn DEF ComposeClaim, Goes, BlockCodes
  <2>2. composing' \in ComposingRows
    BY <1>1, RowForms DEF ComposeClaim, ComposingRows
  <2>3. job' \in JobRows BY <1>0, <1>1 DEF ComposeClaim, JobRows
  <2>4. QED
    BY <1>1, <2>1, <2>2, <2>3 DEF ComposeClaim, TypeOK, ClipTypeOK, JobTypeOK, VideoTypeOK, clipRows
<1>2. ASSUME ProbeVideo(w) PROVE TypeOK'
  <2>1. pass' \in [Worker -> Pass]
    BY <1>0, <1>2, <1>b, GoingOn DEF ProbeVideo, Goes
  <2>2. QED
    BY <1>2, <2>1 DEF ProbeVideo, TypeOK, ClipTypeOK, JobTypeOK, VideoTypeOK,
       clipRows, jobRows, videoRows
<1>3. ASSUME ProbeMaster(w) PROVE TypeOK'
  <2>1. pass' \in [Worker -> Pass]
    BY <1>0, <1>3, <1>d, GoingOn DEF ProbeMaster, Goes, Ends
  <2>2. QED
    BY <1>3, <2>1 DEF ProbeMaster, TypeOK, ClipTypeOK, JobTypeOK, VideoTypeOK,
       clipRows, jobRows, videoRows
<1>4. ASSUME FetchMaster(w) PROVE TypeOK'
  <2>1. pass' \in [Worker -> Pass]
    BY <1>0, <1>4, <1>b, <1>c, GoingOn DEF FetchMaster, Goes
  <2>2. QED
    BY <1>4, <2>1 DEF FetchMaster, TypeOK, ClipTypeOK, JobTypeOK, VideoTypeOK,
       clipRows, jobRows, videoRows
<1>5. ASSUME Compose(w) PROVE TypeOK'
  <2>1. plan.source.take \in {"none", "provider"} \cup Takes
    BY DEF TypeOK, VideoTypeOK, Plans, Receipts
  <2>2. ASSUME NEW take \in MasterTake
        PROVE  [at |-> "STORE_MASTER", bytes |-> Bytes(plan.source.take, take)] \in Pass
    BY <2>1, TakesMakeReceipts DEF Pass, Composing, Takes
  <2>3. pass' \in [Worker -> Pass]
    BY <1>0, <1>5, <1>a, <2>2, GoingOn DEF Compose, composeCleanMaster, Goes, BlockCodes
  <2>4. QED
    BY <1>5, <2>3 DEF Compose, TypeOK, ClipTypeOK, JobTypeOK, VideoTypeOK,
       clipRows, jobRows, videoRows
<1>6. ASSUME StoreMaster(w) PROVE TypeOK'
  <2>1. p.bytes \in Receipts
    BY <1>0, <1>6, Remembers DEF StoreMaster, At, Composing
  <2>2. stored' \in [Object -> Receipts]
    BY <1>0, <1>6, <1>e, <2>1 DEF StoreMaster, PutIfAbsent
  <2>3. pass' \in [Worker -> Pass]
    BY <1>0, <1>6, <1>a, <1>c, <2>2, GoingOn DEF StoreMaster, Goes, BlockCodes
  <2>4. QED
    BY <1>6, <2>2, <2>3 DEF StoreMaster, TypeOK, ClipTypeOK, JobTypeOK, VideoTypeOK,
       clipRows, jobRows, videoRows
<1>7. ASSUME Disclose(w) PROVE TypeOK'
  <2>1. p.copy \in Receipts
    BY <1>0, <1>7, Remembers DEF Disclose, At, Composing
  <2>2. ASSUME NEW take \in VideoTake
        PROVE  [at |-> "STORE_VIDEO", copy |-> p.copy, bytes |-> Bytes(p.copy.take, take)] \in Pass
    <3>1. p.copy.take \in {"none", "provider"} \cup Takes BY <2>1 DEF Receipts
    <3>2. Bytes(p.copy.take, take) \in Receipts BY <3>1, TakesMakeReceipts DEF Takes
    <3>3. QED BY <2>1, <3>2 DEF Pass, Composing
  <2>3. pass' \in [Worker -> Pass]
    BY <1>0, <1>7, <1>a, <2>2, GoingOn DEF Disclose, applyDisclosure, Goes, BlockCodes
  <2>4. QED
    BY <1>7, <2>3 DEF Disclose, TypeOK, ClipTypeOK, JobTypeOK, VideoTypeOK,
       clipRows, jobRows, videoRows
<1>8. ASSUME StoreVideo(w) PROVE TypeOK'
  <2>1. p.copy \in Receipts /\ p.bytes \in Receipts
    BY <1>0, <1>8, Remembers DEF StoreVideo, At, Composing
  <2>2. stored' \in [Object -> Receipts]
    BY <1>0, <1>8, <1>e, <2>1 DEF StoreVideo, PutIfAbsent
  <2>3. pass' \in [Worker -> Pass]
    BY <1>0, <1>8, <1>a, <1>d, <2>1, <2>2, GoingOn DEF StoreVideo, Goes, BlockCodes
  <2>4. QED
    BY <1>8, <2>2, <2>3 DEF StoreVideo, TypeOK, ClipTypeOK, JobTypeOK, VideoTypeOK,
       clipRows, jobRows, videoRows
<1>9. ASSUME DeferComposition(w) PROVE TypeOK'
  <2>1. composing' \in ComposingRows
    BY <1>0, <1>9, RowForms DEF DeferComposition, ComposingRows
  <2>2. pass' \in [Worker -> Pass] BY <1>0, <1>9, GoingOn DEF DeferComposition, Goes, Ends
  <2>3. QED
    BY <1>9, <2>1, <2>2 DEF DeferComposition, TypeOK, ClipTypeOK, JobTypeOK, VideoTypeOK,
       clipRows, jobRows
<1>10. ASSUME FinalizeComposition(w) PROVE TypeOK'
  <2>1. p.video \in Receipts /\ p.master \in Receipts
    BY <1>0, <1>10, Remembers DEF FinalizeComposition, At, Composed
  <2>2. composing' \in ComposingRows
    BY <1>0, <1>10, RowForms DEF FinalizeComposition, ComposingRows
  <2>3. receipts' \in CompositionReceipts
    BY <1>10, <2>1 DEF FinalizeComposition, CompositionReceipts, TypeOK, VideoTypeOK
  <2>4. job' \in JobRows BY <1>0, <1>10 DEF FinalizeComposition, JobRows
  <2>5. pass' \in [Worker -> Pass]
    BY <1>0, <1>10, GoingOn DEF FinalizeComposition, Goes, Ends
  <2>6. QED
    BY <1>10, <2>2, <2>3, <2>4, <2>5 DEF FinalizeComposition, TypeOK, ClipTypeOK, JobTypeOK,
       VideoTypeOK, clipRows
<1>11. ASSUME BlockComposition(w) PROVE TypeOK'
  <2>1. composing' \in ComposingRows
    BY <1>0, <1>11, RowForms DEF BlockComposition, ComposingRows
  <2>2. job' \in JobRows BY <1>0, <1>11 DEF BlockComposition, JobFails, JobRows
  <2>3. pass' \in [Worker -> Pass]
    BY <1>0, <1>11, GoingOn DEF BlockComposition, Goes, Ends
  <2>4. QED
    BY <1>11, <2>1, <2>2, <2>3 DEF BlockComposition, TypeOK, ClipTypeOK, JobTypeOK,
       VideoTypeOK, clipRows
<1>12. QED BY <1>1, <1>2, <1>3, <1>4, <1>5, <1>6, <1>7, <1>8, <1>9, <1>10, <1>11

\* Validation and publication.
LEMMA CheckingIsTyped ==
  ASSUME TypeOK, NEW w \in Worker
  PROVE  /\ CheckClaim(w) => TypeOK'
         /\ Check(w) => TypeOK'
         /\ FinalizeValid(w) => TypeOK'
         /\ FinalizeInvalid(w) => TypeOK'
         /\ DeferValidation(w) => TypeOK'
         /\ PublishDeliverable(w) => TypeOK'
<1> DEFINE p == pass[w]
<1>0. /\ p \in Pass /\ pass \in [Worker -> Pass] /\ Idle \in Pass
      /\ checking \in CheckingRows /\ job \in JobRows
      /\ receipts.video \in Receipts /\ shown \in Receipts
  BY DEF TypeOK, VideoTypeOK, JobTypeOK, Pass, Idle, CompositionReceipts
<1>a. [at |-> "SHOW"] \in Pass /\ [at |-> "CHECK", expects |-> receipts.video] \in Pass
  BY <1>0 DEF Pass, Checks
<1>1. ASSUME CheckClaim(w) PROVE TypeOK'
  <2>1. pass' \in [Worker -> Pass]
    BY <1>0, <1>1, <1>a, GoingOn DEF CheckClaim, Goes
  <2>2. checking' \in CheckingRows
    BY <1>0, <1>1, RowForms DEF CheckClaim, CheckingRows
  <2>3. QED
    BY <1>1, <2>1, <2>2 DEF CheckClaim, TypeOK, ClipTypeOK, JobTypeOK, VideoTypeOK,
       clipRows, jobRows
<1>2. ASSUME Check(w) PROVE TypeOK'
  <2>1. \A v \in {"RETRYABLE_FAILURE", Verdict(stored["video"], p.expects)} :
          v \in Verdicts \cup {"RETRYABLE_FAILURE"}
    BY DEF Verdict, Verdicts, BadVerdicts
  <2>2. \A v \in Verdicts \cup {"RETRYABLE_FAILURE"} :
          [at |-> "CHECKED", verdict |-> v] \in Pass
    BY DEF Pass, Checks
  <2>3. pass' \in [Worker -> Pass]
    BY <1>0, <1>2, <2>1, <2>2, GoingOn DEF Check, Goes
  <2>4. QED
    BY <1>2, <2>3 DEF Check, TypeOK, ClipTypeOK, JobTypeOK, VideoTypeOK,
       clipRows, jobRows, videoRows
<1>3. ASSUME FinalizeValid(w) PROVE TypeOK'
  <2>1. pass' \in [Worker -> Pass]
    BY <1>0, <1>3, <1>a, GoingOn DEF FinalizeValid, Goes, Ends
  <2>2. checking' \in CheckingRows
    BY <1>0, <1>3, RowForms DEF FinalizeValid, CheckingRows, Verdicts
  <2>3. QED
    BY <1>3, <2>1, <2>2 DEF FinalizeValid, TypeOK, ClipTypeOK, JobTypeOK, VideoTypeOK,
       clipRows, jobRows
<1>4. ASSUME FinalizeInvalid(w) PROVE TypeOK'
  <2>1. checking' \in CheckingRows
    BY <1>0, <1>4, RowForms DEF FinalizeInvalid, CheckingRows, Verdicts
  <2>2. job' \in JobRows BY <1>0, <1>4 DEF FinalizeInvalid, JobFails, JobRows
  <2>3. pass' \in [Worker -> Pass]
    BY <1>0, <1>4, GoingOn DEF FinalizeInvalid, Goes, Ends
  <2>4. QED
    BY <1>4, <2>1, <2>2, <2>3 DEF FinalizeInvalid, TypeOK, ClipTypeOK, JobTypeOK,
       VideoTypeOK, clipRows
<1>5. ASSUME DeferValidation(w) PROVE TypeOK'
  <2>1. checking' \in CheckingRows
    BY <1>0, <1>5, RowForms DEF DeferValidation, CheckingRows
  <2>2. pass' \in [Worker -> Pass] BY <1>0, <1>5, GoingOn DEF DeferValidation, Goes, Ends
  <2>3. QED
    BY <1>5, <2>1, <2>2 DEF DeferValidation, TypeOK, ClipTypeOK, JobTypeOK, VideoTypeOK,
       clipRows, jobRows
<1>6. ASSUME PublishDeliverable(w) PROVE TypeOK'
  <2>1. job' \in JobRows BY <1>0, <1>6 DEF PublishDeliverable, JobFails, JobRows
  <2>2. shown' \in Receipts BY <1>0, <1>6 DEF PublishDeliverable
  <2>3. pass' \in [Worker -> Pass]
    BY <1>0, <1>6, GoingOn DEF PublishDeliverable, Goes, Ends
  <2>4. QED
    BY <1>6, <2>1, <2>2, <2>3 DEF PublishDeliverable, TypeOK, ClipTypeOK, JobTypeOK,
       VideoTypeOK, clipRows
<1>7. QED BY <1>1, <1>2, <1>3, <1>4, <1>5, <1>6

\* What the clock and the rest of the job do.
LEMMA OtherStepsAreTyped ==
  ASSUME TypeOK
  PROVE  /\ \A w \in Worker : PassEnds(w) => TypeOK'
         /\ LeaseExpires => TypeOK'
         /\ RecoverySubmitted => TypeOK'
         /\ JobEnds => TypeOK'
         /\ RequestCloses => TypeOK'
         /\ \A a \in Attempt : ClipIsPlanned(a) => TypeOK'
<1>1. ASSUME NEW w \in Worker, PassEnds(w) PROVE TypeOK'
  <2>1. pass' \in [Worker -> Pass]
    BY <1>1 DEF PassEnds, Goes, Ends, TypeOK, Pass, Idle
  <2>2. QED
    BY <1>1, <2>1 DEF PassEnds, TypeOK, ClipTypeOK, JobTypeOK, VideoTypeOK,
       clipRows, jobRows, videoRows
<1>2. ASSUME LeaseExpires PROVE TypeOK'
  <2>1. judging' \in [Attempt -> JudgingRows]
    BY <1>2 DEF LeaseExpires, TimedOut, TypeOK, ClipTypeOK, JudgingRows, WorkRow
  <2>2. resolving' \in [Attempt -> ResolvingRows]
    BY <1>2 DEF LeaseExpires, TimedOut, TypeOK, ClipTypeOK, ResolvingRows, WorkRow
  <2>3. composing' \in ComposingRows
    BY <1>2 DEF LeaseExpires, TimedOut, TypeOK, VideoTypeOK, ComposingRows, WorkRow
  <2>4. checking' \in CheckingRows
    BY <1>2 DEF LeaseExpires, TimedOut, TypeOK, VideoTypeOK, CheckingRows, WorkRow
  <2>5. UNCHANGED <<stored, attempt, jobRows, plan, receipts, shown, pass>>
    BY <1>2 DEF LeaseExpires
  <2>6. QED
    BY <2>1, <2>2, <2>3, <2>4, <2>5 DEF TypeOK, ClipTypeOK, JobTypeOK, VideoTypeOK, jobRows
<1>3. ASSUME RecoverySubmitted PROVE TypeOK'
  <2>1. attempt' \in [Attempt -> AttemptRows]
    BY <1>3 DEF RecoverySubmitted, TypeOK, ClipTypeOK, AttemptRows, AttemptStates, INGESTIBLE, Attempt
  <2>2. QED
    BY <1>3, <2>1 DEF RecoverySubmitted, TypeOK, ClipTypeOK, JobTypeOK, VideoTypeOK,
       jobRows, videoRows
<1>4. ASSUME JobEnds PROVE TypeOK'
  <2>1. job' \in JobRows BY <1>4 DEF JobEnds, JobFails, JobRows
  <2>2. QED
    BY <1>4, <2>1 DEF JobEnds, TypeOK, ClipTypeOK, JobTypeOK, VideoTypeOK, clipRows, videoRows
<1>5. ASSUME RequestCloses PROVE TypeOK'
  <2>1. attempt' \in [Attempt -> AttemptRows]
    <3>1. NewAttempt("CANCELLED_PRE_SUBMISSION") \in AttemptRows
      BY NothingIsAReceipt DEF NewAttempt, AttemptRows, AttemptStates
    <3>2. QED BY <1>5, <3>1 DEF RequestCloses, TypeOK, ClipTypeOK
  <2>2. QED
    BY <1>5, <2>1 DEF RequestCloses, TypeOK, ClipTypeOK, JobTypeOK, RequestStates, VideoTypeOK,
       videoRows
<1>6. ASSUME NEW a \in Attempt, ClipIsPlanned(a) PROVE TypeOK'
  <2>1. attempt[a].receipt \in Receipts BY DEF TypeOK, ClipTypeOK, AttemptRows
  <2>2. plan' \in Plans BY <1>6, <2>1 DEF ClipIsPlanned, Plans
  <2>3. job' \in JobRows BY <1>6 DEF ClipIsPlanned, TypeOK, JobTypeOK, JobRows
  <2>4. QED
    BY <1>6, <2>2, <2>3 DEF ClipIsPlanned, TypeOK, ClipTypeOK, JobTypeOK, RequestStates,
       VideoTypeOK, clipRows
<1>7. QED BY <1>1, <1>2, <1>3, <1>4, <1>5, <1>6

\* The rows and what the workers remember are always of their kinds; a claim that
\* is about to be made is of a row that was seen to be due.
THEOREM Typed == Spec => []TypeOK
<1>1. Init => TypeOK
  <2>1. SUFFICES ASSUME Init PROVE TypeOK OBVIOUS
  <2>2. ClipTypeOK
    BY <2>1, NothingIsAReceipt DEF Init, ClipTypeOK, NewAttempt, AttemptRows, AttemptStates, INGESTIBLE,
       JudgingRows, ResolvingRows, WorkRow, NoRow
  <2>3. VideoTypeOK
    BY <2>1, NothingIsAReceipt DEF Init, VideoTypeOK, Plans, NoPlan, ComposingRows, CheckingRows,
       WorkRow, NoRow
  <2>4. JobTypeOK BY <2>1 DEF Init, JobTypeOK, RequestStates, JobRows
  <2>5. pass \in [Worker -> Pass] BY <2>1 DEF Init, Pass, Idle
  <2>6. QED BY <2>1, <2>2, <2>3, <2>4, <2>5, NothingIsAReceipt DEF Init, TypeOK
<1>2. TypeOK /\ [Next]_vars => TypeOK'
  <2>1. SUFFICES ASSUME TypeOK, [Next]_vars PROVE TypeOK' OBVIOUS
  <2>2. ASSUME NEW w \in Worker, TakesUp(w) PROVE TypeOK'
    BY <2>1, <2>2, IngestionIsTyped, JudgingIsTyped, ResolvingIsTyped, CompositionIsTyped,
       CheckingIsTyped DEF TakesUp
  <2>3. ASSUME NEW w \in Worker, WorksOnClip(w) PROVE TypeOK'
    BY <2>1, <2>3, IngestionIsTyped, JudgingIsTyped, ResolvingIsTyped DEF WorksOnClip
  <2>4. ASSUME NEW w \in Worker, WorksOnVideo(w) PROVE TypeOK'
    BY <2>1, <2>4, CompositionIsTyped, CheckingIsTyped DEF WorksOnVideo
  <2>5. ASSUME ElsewhereInTheJob PROVE TypeOK'
    BY <2>1, <2>5, OtherStepsAreTyped DEF ElsewhereInTheJob
  <2>6. CASE UNCHANGED vars
    BY <2>1, <2>6 DEF vars, clipRows, jobRows, videoRows, TypeOK, ClipTypeOK, JobTypeOK, VideoTypeOK
  <2>7. QED BY <2>1, <2>2, <2>3, <2>4, <2>5, <2>6, OtherStepsAreTyped DEF Next
<1>3. QED BY <1>1, <1>2, PTL DEF Spec

-----------------------------------------------------------------------------
(***************************************************************************)
(* A lease that still runs is respected.                                   *)
(***************************************************************************)

\* What LeaseIsRespected asks of one row in one step.
Kept(row, new) ==
  Running(row) /\ new # row =>
    new = TimedOut(row) \/ pass'[row.holder] # pass[row.holder]

\* A write under a claim is its holder's own step.
LEMMA WritingKeeps ==
  ASSUME NEW w \in Worker, pass'[w] # pass[w], NEW row, NEW new
  PROVE  /\ HeldBy(row, w) => Kept(row, new)
         /\ \A to : Kept(row, Written(row, w, to))
BY DEF Kept, HeldBy, Written

\* A claim is made of a row that is free, or whose lease has run out; a row that
\* stays as it is is kept.
LEMMA ClaimingKeeps ==
  ASSUME NEW row, NEW new, Claimable(row) \/ new = row \/ new = TimedOut(row)
  PROVE  Kept(row, new)
BY DEF Claimable, Running, Kept

JudgingKept   == \A a \in Attempt : Kept(judging[a], judging'[a])
ResolvingKept == \A a \in Attempt : Kept(resolving[a], resolving'[a])
ComposingKept == Kept(composing, composing')
CheckingKept  == Kept(checking, checking')

\* The steps that write the row of a verdict.
LEMMA VerdictRowsAreKept ==
  ASSUME TypeOK, NEW w \in Worker
  PROVE  /\ \A a \in Attempt : JudgeClaim(w, a) => JudgingKept
         /\ JudgeWrite(w) => JudgingKept
<1>1. ASSUME NEW a \in Attempt, JudgeClaim(w, a) PROVE JudgingKept
  <2>1. Claimable(judging[a]) /\ \A b \in Attempt : b # a => judging'[b] = judging[b]
    BY <1>1 DEF JudgeClaim, TypeOK, ClipTypeOK
  <2>2. QED BY <2>1, ClaimingKeeps DEF JudgingKept
<1>2. ASSUME JudgeWrite(w) PROVE JudgingKept
  <2>1. pass'[w] # pass[w] BY <1>2 DEF JudgeWrite, At, Ends, Goes, Idle, TypeOK
  <2>2. PICK to : judging' = [judging EXCEPT ![pass[w].on] = Written(@, w, to)]
    BY <1>2 DEF JudgeWrite
  <2>3. \A b \in Attempt : judging'[b] = judging[b] \/ judging'[b] = Written(judging[b], w, to)
    BY <2>2 DEF TypeOK, ClipTypeOK
  <2>4. QED BY <2>1, <2>3, WritingKeeps, ClaimingKeeps DEF JudgingKept
<1>3. QED BY <1>1, <1>2

\* The steps that write the row of a resolution.
LEMMA ResolutionRowsAreKept ==
  ASSUME TypeOK, NEW w \in Worker
  PROVE  /\ ResolveClaim(w) => ResolvingKept
         /\ Resolve(w) => ResolvingKept
         /\ Release(w) => ResolvingKept
         /\ SettleExhausted(w) => ResolvingKept
<1>0. ASSUME NEW to, WriteResolution(w, to), pass'[w] # pass[w] PROVE ResolvingKept
  <2>1. \A b \in Attempt : resolving'[b] = resolving[b]
                           \/ resolving'[b] = Written(resolving[b], w, to)
    BY <1>0 DEF WriteResolution, TypeOK, ClipTypeOK
  <2>2. QED BY <1>0, <2>1, WritingKeeps, ClaimingKeeps DEF ResolvingKept
<1>1. ASSUME ResolveClaim(w) PROVE ResolvingKept
  <2>1. pass[w] \in Claims BY <1>1, Remembers DEF ResolveClaim, At, TypeOK
  <2>2. Claimable(pass[w].row) BY <2>1 DEF Claims
  <2>3. \A b \in Attempt : resolving'[b] = resolving[b] \/ Claimable(resolving[b])
    BY <1>1, <2>2 DEF ResolveClaim, TypeOK, ClipTypeOK
  <2>4. QED BY <2>3, ClaimingKeeps DEF ResolvingKept
<1>2. ASSUME Resolve(w) PROVE ResolvingKept
  <2>1. pass'[w] # pass[w] BY <1>2 DEF Resolve, At, Ends, Goes, Idle, TypeOK
  <2>2. \E to : WriteResolution(w, to) BY <1>2 DEF Resolve
  <2>3. QED BY <1>0, <2>1, <2>2
<1>3. ASSUME Release(w) PROVE ResolvingKept
  <2>1. pass'[w] # pass[w] BY <1>3 DEF Release, At, Ends, Goes, Idle, TypeOK
  <2>2. \E to : WriteResolution(w, to) BY <1>3 DEF Release
  <2>3. QED BY <1>0, <2>1, <2>2
<1>4. ASSUME SettleExhausted(w) PROVE ResolvingKept
  <2>1. pass'[w] # pass[w] BY <1>4 DEF SettleExhausted, At, Ends, Goes, Idle, TypeOK
  <2>2. (\E to : WriteResolution(w, to)) \/ resolving' = resolving
    BY <1>4 DEF SettleExhausted
  <2>3. QED BY <1>0, <2>1, <2>2, ClaimingKeeps DEF ResolvingKept
<1>5. QED BY <1>1, <1>2, <1>3, <1>4

\* The steps that write the row of a composition.
LEMMA CompositionRowIsKept ==
  ASSUME TypeOK, NEW w \in Worker
  PROVE  /\ ComposeClaim(w) => ComposingKept
         /\ DeferComposition(w) => ComposingKept
         /\ FinalizeComposition(w) => ComposingKept
         /\ BlockComposition(w) => ComposingKept
<1>1. ASSUME ComposeClaim(w) PROVE ComposingKept
  BY <1>1, ClaimingKeeps DEF ComposeClaim, ComposingKept
<1>2. ASSUME DeferComposition(w) PROVE ComposingKept
  <2>1. pass'[w] # pass[w]
    BY <1>2 DEF DeferComposition, Composition, Ends, Goes, Idle, TypeOK
  <2>2. QED BY <1>2, <2>1, WritingKeeps DEF DeferComposition, ComposingKept
<1>3. ASSUME FinalizeComposition(w) PROVE ComposingKept
  <2>1. pass'[w] # pass[w]
    BY <1>3 DEF FinalizeComposition, At, Ends, Goes, Idle, TypeOK
  <2>2. QED
    BY <1>3, <2>1, WritingKeeps, ClaimingKeeps DEF FinalizeComposition, ComposingKept
<1>4. ASSUME BlockComposition(w) PROVE ComposingKept
  <2>1. pass'[w] # pass[w]
    BY <1>4 DEF BlockComposition, At, Ends, Goes, Idle, TypeOK
  <2>2. QED
    BY <1>4, <2>1, WritingKeeps, ClaimingKeeps DEF BlockComposition, ComposingKept
<1>5. QED BY <1>1, <1>2, <1>3, <1>4

\* The steps that write the row of a deliverable's validation.
LEMMA CheckingRowIsKept ==
  ASSUME TypeOK, NEW w \in Worker
  PROVE  /\ CheckClaim(w) => CheckingKept
         /\ FinalizeValid(w) => CheckingKept
         /\ FinalizeInvalid(w) => CheckingKept
         /\ DeferValidation(w) => CheckingKept
<1>1. ASSUME CheckClaim(w) PROVE CheckingKept
  BY <1>1, ClaimingKeeps DEF CheckClaim, CheckingKept
<1>2. ASSUME FinalizeValid(w) PROVE CheckingKept
  <2>1. pass'[w] # pass[w] BY <1>2 DEF FinalizeValid, At, Ends, Goes, Idle, TypeOK
  <2>2. QED
    BY <1>2, <2>1, WritingKeeps, ClaimingKeeps DEF FinalizeValid, CheckHeld, CheckingKept
<1>3. ASSUME FinalizeInvalid(w) PROVE CheckingKept
  <2>1. pass'[w] # pass[w] BY <1>3 DEF FinalizeInvalid, At, Ends, Goes, Idle, TypeOK
  <2>2. QED
    BY <1>3, <2>1, WritingKeeps, ClaimingKeeps DEF FinalizeInvalid, CheckHeld, CheckingKept
<1>4. ASSUME DeferValidation(w) PROVE CheckingKept
  <2>1. pass'[w] # pass[w] BY <1>4 DEF DeferValidation, At, Ends, Goes, Idle, TypeOK
  <2>2. QED BY <1>4, <2>1, WritingKeeps DEF DeferValidation, CheckingKept
<1>5. QED BY <1>1, <1>2, <1>3, <1>4

RowsKept == JudgingKept /\ ResolvingKept /\ ComposingKept /\ CheckingKept

LEMMA UnwrittenRowsAreKept ==
  /\ UNCHANGED judging => JudgingKept
  /\ UNCHANGED resolving => ResolvingKept
  /\ UNCHANGED composing => ComposingKept
  /\ UNCHANGED checking => CheckingKept
BY ClaimingKeeps DEF JudgingKept, ResolvingKept, ComposingKept, CheckingKept

\* A pass that begins.
LEMMA TakingUpKeeps ==
  ASSUME TypeOK, NEW w \in Worker, TakesUp(w)
  PROVE  RowsKept
<1>1. ASSUME NEW a \in Attempt, LoadPollingContext(w, a) \/ ResolveLook(w, a) PROVE RowsKept
  BY <1>1, UnwrittenRowsAreKept DEF LoadPollingContext, ResolveLook, clipRows, videoRows, RowsKept
<1>2. ASSUME NEW a \in Attempt, JudgeClaim(w, a) PROVE RowsKept
  BY <1>2, UnwrittenRowsAreKept, VerdictRowsAreKept DEF JudgeClaim, videoRows, RowsKept
<1>3. CASE ComposeClaim(w)
  BY <1>3, UnwrittenRowsAreKept, CompositionRowIsKept DEF ComposeClaim, clipRows, RowsKept
<1>4. CASE CheckClaim(w)
  BY <1>4, UnwrittenRowsAreKept, CheckingRowIsKept DEF CheckClaim, clipRows, RowsKept
<1>5. QED BY <1>1, <1>2, <1>3, <1>4 DEF TakesUp

\* A step on a clip.
LEMMA WorkingOnClipKeeps ==
  ASSUME TypeOK, NEW w \in Worker, WorksOnClip(w)
  PROVE  RowsKept
<1>1. CASE Poll(w) \/ Transfer(w) \/ Commit(w) \/ Judge(w) \/ PlanRecovery(w)
  BY <1>1, UnwrittenRowsAreKept
     DEF Poll, Transfer, Commit, Judge, PlanRecovery, clipRows, videoRows, RowsKept
<1>2. CASE Complete(w) \/ Begin(w) \/ Verify(w) \/ AdmitRecovery(w)
  BY <1>2, UnwrittenRowsAreKept
     DEF Complete, Begin, Verify, AdmitRecovery, videoRows, RowsKept
<1>3. CASE JudgeWrite(w)
  BY <1>3, UnwrittenRowsAreKept, VerdictRowsAreKept DEF JudgeWrite, videoRows, RowsKept
<1>4. CASE ResolveClaim(w) \/ Resolve(w) \/ Release(w) \/ SettleExhausted(w)
  <2>1. UNCHANGED <<judging, composing, checking>>
    BY <1>4 DEF ResolveClaim, Resolve, Release, SettleExhausted, videoRows
  <2>2. ResolvingKept BY <1>4, ResolutionRowsAreKept
  <2>3. QED BY <2>1, <2>2, UnwrittenRowsAreKept DEF RowsKept
<1>5. QED BY <1>1, <1>2, <1>3, <1>4 DEF WorksOnClip

\* A step on the video.
LEMMA WorkingOnVideoKeeps ==
  ASSUME TypeOK, NEW w \in Worker, WorksOnVideo(w)
  PROVE  RowsKept
<1>1. CASE ProbeVideo(w) \/ ProbeMaster(w) \/ FetchMaster(w) \/ Compose(w) \/ StoreMaster(w)
           \/ Disclose(w) \/ StoreVideo(w) \/ Check(w)
  BY <1>1, UnwrittenRowsAreKept
     DEF ProbeVideo, ProbeMaster, FetchMaster, Compose, StoreMaster, Disclose, StoreVideo, Check,
         clipRows, videoRows, RowsKept
<1>2. CASE DeferComposition(w) \/ FinalizeComposition(w) \/ BlockComposition(w)
  <2>1. UNCHANGED <<judging, resolving, checking>>
    BY <1>2 DEF DeferComposition, FinalizeComposition, BlockComposition, clipRows
  <2>2. ComposingKept BY <1>2, CompositionRowIsKept
  <2>3. QED BY <2>1, <2>2, UnwrittenRowsAreKept DEF RowsKept
<1>3. CASE FinalizeValid(w) \/ FinalizeInvalid(w) \/ DeferValidation(w)
  <2>1. UNCHANGED <<judging, resolving, composing>>
    BY <1>3 DEF FinalizeValid, FinalizeInvalid, DeferValidation, clipRows
  <2>2. CheckingKept BY <1>3, CheckingRowIsKept
  <2>3. QED BY <2>1, <2>2, UnwrittenRowsAreKept DEF RowsKept
<1>4. CASE PublishDeliverable(w)
  BY <1>4, UnwrittenRowsAreKept DEF PublishDeliverable, clipRows, RowsKept
<1>5. QED BY <1>1, <1>2, <1>3, <1>4 DEF WorksOnVideo

\* The clock runs a lease out and does no more to a row.
LEMMA ExpiringKeeps ==
  ASSUME TypeOK, LeaseExpires
  PROVE  RowsKept
<1>1. \A a \in Attempt : judging'[a] = judging[a] \/ judging'[a] = TimedOut(judging[a])
  BY DEF LeaseExpires, TypeOK, ClipTypeOK
<1>2. \A a \in Attempt : resolving'[a] = resolving[a] \/ resolving'[a] = TimedOut(resolving[a])
  BY DEF LeaseExpires, TypeOK, ClipTypeOK
<1>3. /\ composing' = composing \/ composing' = TimedOut(composing)
      /\ checking' = checking \/ checking' = TimedOut(checking)
  BY DEF LeaseExpires
<1>4. QED
  BY <1>1, <1>2, <1>3, ClaimingKeeps
  DEF RowsKept, JudgingKept, ResolvingKept, ComposingKept, CheckingKept

\* A worker whose lease has run out never writes over its successor, in any of the
\* four tables of leased work: a row under a lease that still runs is changed by
\* its holder or by the clock (the guarded writes of the media validation, the
\* media failure resolution, the composition and the deliverable validation).
THEOREM LeasesAreRespected == Spec => LeaseIsRespected
<1>1. TypeOK /\ [Next]_vars => [RowsKept]_vars
  <2>1. SUFFICES ASSUME TypeOK, Next PROVE RowsKept OBVIOUS
  <2>2. ASSUME NEW w \in Worker, PassEnds(w) PROVE RowsKept
    BY <2>2, UnwrittenRowsAreKept DEF PassEnds, clipRows, videoRows, RowsKept
  <2>3. ASSUME ElsewhereInTheJob PROVE RowsKept
    BY <2>3, UnwrittenRowsAreKept
    DEF ElsewhereInTheJob, RecoverySubmitted, JobEnds, RequestCloses, ClipIsPlanned,
        clipRows, videoRows, RowsKept
  <2>4. QED
    BY <2>1, <2>2, <2>3, TakingUpKeeps, WorkingOnClipKeeps, WorkingOnVideoKeeps, ExpiringKeeps
    DEF Next
<1>2. ASSUME RowsKept, NEW k \in DOMAIN WorkRows
      PROVE  Running(WorkRows[k]) /\ WorkRows'[k] # WorkRows[k] =>
               WorkRows'[k] = TimedOut(WorkRows[k])
                 \/ pass'[WorkRows[k].holder] # pass[WorkRows[k].holder]
  <2>1. Kept(WorkRows[k], WorkRows'[k])
    BY <1>2 DEF RowsKept, JudgingKept, ResolvingKept, ComposingKept, CheckingKept, WorkRows, Attempt
  <2>2. QED BY <2>1 DEF Kept
<1>3. [RowsKept]_vars =>
        [\A k \in DOMAIN WorkRows :
           LET row == WorkRows[k] IN
           Running(row) /\ WorkRows'[k] # row =>
             WorkRows'[k] = TimedOut(row) \/ pass'[row.holder] # pass[row.holder]]_vars
  BY <1>2
<1>4. QED BY <1>1, <1>3, Typed, PTL DEF Spec, LeaseIsRespected

-----------------------------------------------------------------------------
(***************************************************************************)
(* What the rows, the bucket and the passes owe each other.                *)
(***************************************************************************)

\* What a probe finds of the very bytes that were recorded.
Truth(bytes) == IF bytes.take \in Sound THEN "VALID" ELSE "INVALID_MEDIA"

\* What a provider's output may come to in the bucket.
ClipBytes == {Bytes("provider", take) : take \in ClipTake}

VerifiedAs(row, object) ==
  /\ row.state = "OUTPUT_VERIFIED" => row.receipt = object /\ object # Nothing
  /\ row.state # "OUTPUT_VERIFIED" => row.receipt = Nothing

JudgedAs(row, object) ==
  row.status \in Verdicts => row.status = Truth(object)

\* A clip's receipt is of the stored object, and its verdict is of that receipt.
ClipRowFits(row, verdict, object) ==
  /\ VerifiedAs(row, object)
  /\ JudgedAs(verdict, object)
  /\ verdict.status # "NONE" => row.state = "OUTPUT_VERIFIED"

ClipsFit == \A a \in Attempt : ClipRowFits(attempt[a], judging[a], stored[a])

\* What a pass on a clip remembers is still so.
ClipMemory(p, objects, attempts) ==
  /\ p.at = "COMMIT" => p.bytes \in ClipBytes
  /\ p.at = "VERIFY" => p.receipt = objects[p.on] /\ objects[p.on] # Nothing
  /\ p.at = "JUDGE" =>
       attempts[p.on].state = "OUTPUT_VERIFIED" /\ p.expects = objects[p.on]
  /\ p.at = "JUDGED" =>
       /\ attempts[p.on].state = "OUTPUT_VERIFIED"
       /\ p.verdict \in Verdicts => p.verdict = Truth(objects[p.on])

ClipPassesFit == \A w \in Worker : ClipMemory(pass[w], stored, attempt)

ClipInv == ClipsFit /\ ClipPassesFit

-----------------------------------------------------------------------------
Recovered(attempts) == attempts["recovery"].state # "NONE"

\* What a disposition was decided on, which no later step takes back.
Decided(a, todo, attempts, state) ==
  /\ todo = "OBSOLETE" => state # "GENERATING"
  /\ todo = "RECONCILE_RECOVERY" => a = "first" /\ Recovered(attempts)
  /\ todo = "ADMIT_RECOVERY" => a = "first"
  /\ todo = "SETTLE_EXHAUSTED" => a = "recovery"

ResolvingPhases == {"CLAIM", "ADMIT", "ADMITTED", "RELEASE"} \cup Dispositions

ResolvingMemory(p, judgings, attempts, state) ==
  /\ p.at \in ResolvingPhases => judgings[p.on].status \in BadVerdicts
  /\ p.at = "CLAIM" => Decided(p.on, p.todo, attempts, state)
  /\ p.at \in Dispositions => Decided(p.on, p.at, attempts, state)
  /\ p.at \in {"ADMIT", "ADMITTED"} => p.on = "first"
  /\ p.at = "ADMITTED" => Recovered(attempts)

ResolvingPassesFit ==
  \A w \in Worker : ResolvingMemory(pass[w], judging, attempt, request)

ResolvingInv == VerdictsAreActedOn /\ ResolvingPassesFit

-----------------------------------------------------------------------------
PlanFits ==
  /\ plan = NoPlan <=> request # "DELIVERED"
  /\ plan # NoPlan =>
       /\ plan.attempt \in Attempt
       /\ stored[plan.attempt] = plan.source
       /\ judging[plan.attempt].status = "VALID"

ObjectsFit == stored["video"] # Nothing => stored["master"] # Nothing

ReceiptsFit ==
  /\ composing.status = "OUTPUT_VERIFIED" =>
       /\ receipts = [video |-> stored["video"], master |-> stored["master"]]
       /\ stored["video"] # Nothing
  /\ composing.status # "OUTPUT_VERIFIED" => receipts = NoReceipts
  /\ job.state \in {"DELIVERABLE_VALIDATING", "DELIVERABLE_READY"} =>
       composing.status = "OUTPUT_VERIFIED"

CheckFits ==
  /\ checking.status # "NONE" => composing.status = "OUTPUT_VERIFIED"
  /\ JudgedAs(checking, stored["video"])

VideoMemory(p, objects, frozen, composition) ==
  /\ p.at \in Composition => frozen # NoPlan
  /\ p.at = "STORE_MASTER" =>
       p.bytes \in {Bytes(frozen.source.take, take) : take \in MasterTake}
  /\ p.at \in {"DISCLOSE", "STORE_VIDEO"} =>
       p.copy = objects["master"] /\ objects["master"] # Nothing
  /\ p.at = "STORE_VIDEO" =>
       /\ p.copy.take \in Sound
       /\ p.bytes \in {Bytes(p.copy.take, take) : take \in VideoTake}
  /\ p.at = "PROBE_MASTER" => objects["video"] # Nothing
  /\ p.at = "FINALIZE" =>
       /\ p.video = objects["video"] /\ p.master = objects["master"]
       /\ objects["video"] # Nothing
  /\ p.at \in {"CHECK", "CHECKED"} => composition.status = "OUTPUT_VERIFIED"
  /\ p.at = "CHECK" => p.expects = objects["video"] /\ objects["video"] # Nothing
  /\ p.at = "CHECKED" /\ p.verdict \in Verdicts => p.verdict = Truth(objects["video"])

VideoPassesFit ==
  \A w \in Worker : VideoMemory(pass[w], stored, plan, composing)

VideoInv == PlanFits /\ ObjectsFit /\ ReceiptsFit /\ CheckFits /\ VideoPassesFit

-----------------------------------------------------------------------------
(***************************************************************************)
(* Who writes what.                                                        *)
(***************************************************************************)

WritesObjects == \E w \in Worker : Commit(w) \/ StoreMaster(w) \/ StoreVideo(w)

WritesAttempts ==
  \/ \E w \in Worker : Complete(w) \/ Begin(w) \/ Verify(w) \/ AdmitRecovery(w)
  \/ RecoverySubmitted \/ RequestCloses

WritesVerdicts ==
  \/ \E w \in Worker : JudgeWrite(w) \/ \E a \in Attempt : JudgeClaim(w, a)
  \/ LeaseExpires

WritesResolutions ==
  \/ \E w \in Worker : ResolveClaim(w) \/ Resolve(w) \/ Release(w) \/ SettleExhausted(w)
  \/ LeaseExpires

PlansClip == \E a \in Attempt : ClipIsPlanned(a)

WritesRequest == PlansClip \/ RequestCloses \/ \E w \in Worker : SettleExhausted(w)

WritesJob ==
  \/ PlansClip \/ JobEnds
  \/ \E w \in Worker :
       \/ SettleExhausted(w) \/ ComposeClaim(w) \/ FinalizeComposition(w)
       \/ BlockComposition(w) \/ FinalizeInvalid(w) \/ PublishDeliverable(w)

WritesComposing ==
  \/ \E w \in Worker :
       ComposeClaim(w) \/ DeferComposition(w) \/ FinalizeComposition(w) \/ BlockComposition(w)
  \/ LeaseExpires

WritesReceipts == \E w \in Worker : FinalizeComposition(w)

WritesChecking ==
  \/ \E w \in Worker :
       CheckClaim(w) \/ FinalizeValid(w) \/ FinalizeInvalid(w) \/ DeferValidation(w)
  \/ LeaseExpires

WritesShown == \E w \in Worker : PublishDeliverable(w)

ClipRowsWritten ==
  /\ UNCHANGED stored \/ WritesObjects
  /\ UNCHANGED attempt \/ WritesAttempts
  /\ UNCHANGED judging \/ WritesVerdicts
  /\ UNCHANGED resolving \/ WritesResolutions

JobRowsWritten ==
  /\ UNCHANGED request \/ WritesRequest
  /\ UNCHANGED job \/ WritesJob
  /\ UNCHANGED plan \/ PlansClip

VideoRowsWritten ==
  /\ UNCHANGED composing \/ WritesComposing
  /\ UNCHANGED receipts \/ WritesReceipts
  /\ UNCHANGED checking \/ WritesChecking
  /\ UNCHANGED shown \/ WritesShown

LEMMA TakingUpWrites ==
  ASSUME NEW w \in Worker, TakesUp(w)
  PROVE  ClipRowsWritten /\ JobRowsWritten /\ VideoRowsWritten
<1>1. ASSUME NEW a \in Attempt, LoadPollingContext(w, a) \/ ResolveLook(w, a)
      PROVE  ClipRowsWritten /\ JobRowsWritten /\ VideoRowsWritten
  BY <1>1 DEF LoadPollingContext, ResolveLook, clipRows, jobRows, videoRows,
     ClipRowsWritten, JobRowsWritten, VideoRowsWritten
<1>2. ASSUME NEW a \in Attempt, JudgeClaim(w, a)
      PROVE  ClipRowsWritten /\ JobRowsWritten /\ VideoRowsWritten
  <2>1. WritesVerdicts BY <1>2 DEF WritesVerdicts
  <2>2. QED
    BY <1>2, <2>1 DEF JudgeClaim, jobRows, videoRows,
       ClipRowsWritten, JobRowsWritten, VideoRowsWritten
<1>3. CASE ComposeClaim(w)
  <2>1. WritesJob /\ WritesComposing BY <1>3 DEF WritesJob, WritesComposing
  <2>2. QED
    BY <1>3, <2>1 DEF ComposeClaim, clipRows,
       ClipRowsWritten, JobRowsWritten, VideoRowsWritten
<1>4. CASE CheckClaim(w)
  <2>1. WritesChecking BY <1>4 DEF WritesChecking
  <2>2. QED
    BY <1>4, <2>1 DEF CheckClaim, clipRows, jobRows,
       ClipRowsWritten, JobRowsWritten, VideoRowsWritten
<1>5. QED BY <1>1, <1>2, <1>3, <1>4 DEF TakesUp

LEMMA WorkingOnClipWrites ==
  ASSUME NEW w \in Worker, WorksOnClip(w)
  PROVE  ClipRowsWritten /\ JobRowsWritten /\ VideoRowsWritten
<1>1. CASE Poll(w) \/ Transfer(w) \/ Judge(w) \/ PlanRecovery(w)
  BY <1>1 DEF Poll, Transfer, Judge, PlanRecovery, clipRows, jobRows, videoRows,
     ClipRowsWritten, JobRowsWritten, VideoRowsWritten
<1>2. CASE Commit(w)
  <2>1. WritesObjects BY <1>2 DEF WritesObjects
  <2>2. QED
    BY <1>2, <2>1 DEF Commit, clipRows, jobRows, videoRows,
       ClipRowsWritten, JobRowsWritten, VideoRowsWritten
<1>3. CASE Complete(w) \/ Begin(w) \/ Verify(w) \/ AdmitRecovery(w)
  <2>1. WritesAttempts BY <1>3 DEF WritesAttempts
  <2>2. UNCHANGED <<stored, judging, resolving, jobRows, videoRows>>
    BY <1>3 DEF Complete, Begin, Verify, AdmitRecovery
  <2>3. QED
    BY <2>1, <2>2 DEF jobRows, videoRows, ClipRowsWritten, JobRowsWritten, VideoRowsWritten
<1>4. CASE JudgeWrite(w)
  <2>1. WritesVerdicts BY <1>4 DEF WritesVerdicts
  <2>2. QED
    BY <1>4, <2>1 DEF JudgeWrite, jobRows, videoRows,
       ClipRowsWritten, JobRowsWritten, VideoRowsWritten
<1>5. CASE ResolveClaim(w) \/ Resolve(w) \/ Release(w)
  <2>1. WritesResolutions BY <1>5 DEF WritesResolutions
  <2>2. UNCHANGED <<stored, attempt, judging, jobRows, videoRows>>
    BY <1>5 DEF ResolveClaim, Resolve, Release
  <2>3. QED
    BY <2>1, <2>2 DEF jobRows, videoRows, ClipRowsWritten, JobRowsWritten, VideoRowsWritten
<1>6. CASE SettleExhausted(w)
  <2>1. WritesResolutions /\ WritesRequest /\ WritesJob
    BY <1>6 DEF WritesResolutions, WritesRequest, WritesJob
  <2>2. UNCHANGED <<stored, attempt, judging, videoRows>> BY <1>6 DEF SettleExhausted
  <2>3. QED
    BY <2>1, <2>2 DEF videoRows, ClipRowsWritten, JobRowsWritten, VideoRowsWritten
<1>7. QED BY <1>1, <1>2, <1>3, <1>4, <1>5, <1>6 DEF WorksOnClip

LEMMA WorkingOnVideoWrites ==
  ASSUME NEW w \in Worker, WorksOnVideo(w)
  PROVE  ClipRowsWritten /\ JobRowsWritten /\ VideoRowsWritten
<1>1. CASE ProbeVideo(w) \/ ProbeMaster(w) \/ FetchMaster(w) \/ Compose(w) \/ Disclose(w)
           \/ Check(w)
  <2>1. UNCHANGED <<stored, clipRows, jobRows, videoRows>>
    BY <1>1 DEF ProbeVideo, ProbeMaster, FetchMaster, Compose, Disclose, Check
  <2>2. QED
    BY <2>1 DEF clipRows, jobRows, videoRows, ClipRowsWritten, JobRowsWritten, VideoRowsWritten
<1>2. CASE StoreMaster(w) \/ StoreVideo(w)
  <2>1. WritesObjects BY <1>2 DEF WritesObjects
  <2>2. UNCHANGED <<clipRows, jobRows, videoRows>> BY <1>2 DEF StoreMaster, StoreVideo
  <2>3. QED
    BY <2>1, <2>2 DEF clipRows, jobRows, videoRows,
       ClipRowsWritten, JobRowsWritten, VideoRowsWritten
<1>3. CASE DeferComposition(w) \/ FinalizeComposition(w) \/ BlockComposition(w)
  <2>1. WritesComposing BY <1>3 DEF WritesComposing
  <2>2. UNCHANGED <<stored, clipRows, request, plan, checking, shown>>
    BY <1>3 DEF DeferComposition, FinalizeComposition, BlockComposition, jobRows
  <2>3. UNCHANGED job \/ WritesJob
    BY <1>3 DEF DeferComposition, jobRows, WritesJob
  <2>4. UNCHANGED receipts \/ WritesReceipts
    BY <1>3 DEF DeferComposition, BlockComposition, WritesReceipts
  <2>5. QED
    BY <2>1, <2>2, <2>3, <2>4 DEF clipRows, ClipRowsWritten, JobRowsWritten, VideoRowsWritten
<1>4. CASE FinalizeValid(w) \/ FinalizeInvalid(w) \/ DeferValidation(w)
  <2>1. WritesChecking BY <1>4 DEF WritesChecking
  <2>2. UNCHANGED <<stored, clipRows, request, plan, composing, receipts, shown>>
    BY <1>4 DEF FinalizeValid, FinalizeInvalid, DeferValidation, jobRows
  <2>3. UNCHANGED job \/ WritesJob
    BY <1>4 DEF FinalizeValid, DeferValidation, jobRows, WritesJob
  <2>4. QED
    BY <2>1, <2>2, <2>3 DEF clipRows, ClipRowsWritten, JobRowsWritten, VideoRowsWritten
<1>5. CASE PublishDeliverable(w)
  <2>1. WritesJob /\ WritesShown BY <1>5 DEF WritesJob, WritesShown
  <2>2. UNCHANGED <<stored, clipRows, request, plan, composing, receipts, checking>>
    BY <1>5 DEF PublishDeliverable
  <2>3. QED
    BY <2>1, <2>2 DEF clipRows, ClipRowsWritten, JobRowsWritten, VideoRowsWritten
<1>6. QED BY <1>1, <1>2, <1>3, <1>4, <1>5 DEF WorksOnVideo

\* Every row is written by the steps named for it and by no other.
LEMMA Writers ==
  ASSUME Next
  PROVE  ClipRowsWritten /\ JobRowsWritten /\ VideoRowsWritten
<1>1. ASSUME NEW w \in Worker, PassEnds(w)
      PROVE  ClipRowsWritten /\ JobRowsWritten /\ VideoRowsWritten
  BY <1>1 DEF PassEnds, clipRows, jobRows, videoRows,
     ClipRowsWritten, JobRowsWritten, VideoRowsWritten
<1>2. CASE LeaseExpires
  <2>1. WritesVerdicts /\ WritesResolutions /\ WritesComposing /\ WritesChecking
    BY <1>2 DEF WritesVerdicts, WritesResolutions, WritesComposing, WritesChecking
  <2>2. UNCHANGED <<stored, attempt, jobRows, plan, receipts, shown>> BY <1>2 DEF LeaseExpires
  <2>3. QED
    BY <2>1, <2>2 DEF jobRows, ClipRowsWritten, JobRowsWritten, VideoRowsWritten
<1>3. CASE RecoverySubmitted
  BY <1>3 DEF RecoverySubmitted, jobRows, videoRows, WritesAttempts,
     ClipRowsWritten, JobRowsWritten, VideoRowsWritten
<1>4. CASE JobEnds
  BY <1>4 DEF JobEnds, clipRows, videoRows, WritesJob,
     ClipRowsWritten, JobRowsWritten, VideoRowsWritten
<1>5. CASE RequestCloses
  BY <1>5 DEF RequestCloses, videoRows, WritesAttempts, WritesRequest,
     ClipRowsWritten, JobRowsWritten, VideoRowsWritten
<1>6. CASE PlansClip
  <2>1. WritesRequest /\ WritesJob BY <1>6 DEF WritesRequest, WritesJob
  <2>2. UNCHANGED <<stored, clipRows, composing, receipts, checking, shown>>
    BY <1>6 DEF PlansClip, ClipIsPlanned
  <2>3. QED
    BY <1>6, <2>1, <2>2 DEF clipRows, ClipRowsWritten, JobRowsWritten, VideoRowsWritten
<1>7. QED
  BY <1>1, <1>2, <1>3, <1>4, <1>5, <1>6, TakingUpWrites, WorkingOnClipWrites,
     WorkingOnVideoWrites DEF Next, ElsewhereInTheJob, PlansClip

-----------------------------------------------------------------------------
(***************************************************************************)
(* What a step may do to an object, to a clip's row and to its verdict.     *)
(***************************************************************************)

ObjectsStay == \A key \in Object : stored[key] # Nothing => stored'[key] = stored[key]

RecoveryIsAdmitted ==
  \E w \in Worker : At(w, "ADMIT") /\ RecoveryEligible(pass[w].on)

\* One step of an attempt: it stays; or moves on unverified; or is verified with the
\* receipt a worker brings.
AttemptMoves(a) ==
  \/ attempt'[a] = attempt[a]
  \/ /\ attempt[a].state # "OUTPUT_VERIFIED" /\ attempt'[a].state # "OUTPUT_VERIFIED"
     /\ attempt'[a].state # "NONE"
     /\ attempt[a].state = "NONE" => a = "recovery" /\ RecoveryIsAdmitted
     /\ attempt'[a].receipt \in {attempt[a].receipt, Nothing}
  \/ /\ attempt[a].state = "OUTPUT_INGESTING"
     /\ \E w \in Worker :
          /\ At(w, "VERIFY") /\ pass[w].on = a
          /\ attempt'[a] = [state |-> "OUTPUT_VERIFIED", receipt |-> pass[w].receipt]

\* One step of a verdict's row: its status stays; or it is claimed or put back; or
\* it takes the verdict a worker brings.
VerdictMoves(a) ==
  \/ judging'[a].status = judging[a].status
  \/ /\ judging[a].status \notin Verdicts /\ judging'[a].status \in {"RUNNING", "PENDING"}
     /\ judging[a].status = "NONE" => attempt[a].state = "OUTPUT_VERIFIED"
  \/ /\ judging[a].status = "RUNNING"
     /\ \E w \in Worker :
          /\ At(w, "JUDGED") /\ pass[w].on = a /\ pass[w].verdict \in Verdicts
          /\ judging'[a].status = pass[w].verdict

LEMMA PutKeeps ==
  ASSUME TypeOK, NEW key \in Object, NEW bytes, PutIfAbsent(key, bytes)
  PROVE  ObjectsStay
BY DEF PutIfAbsent, ObjectsStay, TypeOK

\* An object once stored never changes.
LEMMA StoredObjectsStay ==
  ASSUME TypeOK, Next
  PROVE  ObjectsStay
<1>1. ASSUME NEW w \in Worker, Commit(w) PROVE ObjectsStay
  <2>1. pass[w].on \in Object
    BY <1>1, Remembers DEF Commit, At, TypeOK, Transfers, Object
  <2>2. QED BY <1>1, <2>1, PutKeeps DEF Commit
<1>2. ASSUME NEW w \in Worker, StoreMaster(w) PROVE ObjectsStay
  <2>1. UNCHANGED stored \/ PutIfAbsent("master", pass[w].bytes) BY <1>2 DEF StoreMaster
  <2>2. QED BY <2>1, PutKeeps DEF Object, ObjectsStay
<1>3. ASSUME NEW w \in Worker, StoreVideo(w) PROVE ObjectsStay
  <2>1. UNCHANGED stored \/ PutIfAbsent("video", pass[w].bytes) BY <1>3 DEF StoreVideo
  <2>2. QED BY <2>1, PutKeeps DEF Object, ObjectsStay
<1>4. UNCHANGED stored => ObjectsStay BY DEF ObjectsStay
<1>5. QED BY <1>1, <1>2, <1>3, <1>4, Writers DEF ClipRowsWritten, WritesObjects

LEMMA AttemptSteps ==
  ASSUME TypeOK, Next
  PROVE  \A a \in Attempt : AttemptMoves(a)
<1> DEFINE Moves == \A a \in Attempt : AttemptMoves(a)
<1>0. attempt \in [Attempt -> AttemptRows] BY DEF TypeOK, ClipTypeOK
<1>1. ASSUME NEW w \in Worker, Complete(w) PROVE Moves
  <2>1. pass[w] \in Completions BY <1>1, Remembers DEF Complete, At, TypeOK
  <2>2. pass[w].on \in Attempt /\ pass[w].answer # "OUTPUT_VERIFIED" /\ pass[w].answer # "NONE"
    BY <2>1 DEF Completions
  <2>3. CASE attempt' = attempt BY <2>3 DEF AttemptMoves
  <2>4. CASE attempt' # attempt
    <3>1. decideProviderCompletion(attempt[pass[w].on].state, pass[w].answer) = "APPLY"
      BY <1>1, <2>4 DEF Complete
    <3>2. attempt[pass[w].on].state = "PROCESSING"
      BY <3>1 DEF decideProviderCompletion
    <3>3. PICK to \in {"PROVIDER_SUCCEEDED", pass[w].answer} :
            attempt' = [attempt EXCEPT ![pass[w].on].state = to]
      BY <1>1, <3>1 DEF Complete
    <3>4. QED BY <1>0, <2>2, <3>2, <3>3 DEF AttemptMoves, AttemptRows
  <2>5. QED BY <2>3, <2>4
<1>2. ASSUME NEW w \in Worker, Begin(w) PROVE Moves
  <2>1. pass[w].on \in Attempt BY <1>2, Remembers DEF Begin, At, TypeOK, Transfers
  <2>2. QED BY <1>0, <1>2, <2>1 DEF Begin, AttemptMoves, AttemptRows
<1>3. ASSUME NEW w \in Worker, Verify(w) PROVE Moves
  <2>1. pass[w].on \in Attempt BY <1>3, Remembers DEF Verify, At, TypeOK, Transfers
  <2>2. At(w, "VERIFY") BY <1>3 DEF Verify
  <2>3. QED BY <1>0, <1>3, <2>1, <2>2 DEF Verify, AttemptMoves
<1>4. ASSUME NEW w \in Worker, AdmitRecovery(w) PROVE Moves
  <2>1. CASE attempt' = attempt BY <2>1 DEF AttemptMoves
  <2>2. CASE attempt' # attempt
    <3>1. attempt' = [attempt EXCEPT !["recovery"] = NewAttempt("QUEUED")]
      BY <1>4, <2>2 DEF AdmitRecovery
    <3>2. attempt["recovery"].state = "NONE"
      BY <1>4, <2>2 DEF AdmitRecovery, RecoveryEligible, HasRecovery
    <3>3. RecoveryIsAdmitted BY <1>4, <2>2 DEF AdmitRecovery, RecoveryIsAdmitted
    <3>4. QED BY <1>0, <3>1, <3>2, <3>3 DEF AttemptMoves, NewAttempt
  <2>3. QED BY <2>1, <2>2
<1>5. CASE RecoverySubmitted
  <2>1. attempt["recovery"].state = "QUEUED" BY <1>5 DEF RecoverySubmitted
  <2>2. PICK state \in {"PROCESSING", "FAILED_TERMINAL"} :
          attempt' = [attempt EXCEPT !["recovery"].state = state]
    BY <1>5 DEF RecoverySubmitted
  <2>3. QED BY <1>0, <2>1, <2>2 DEF AttemptMoves, AttemptRows
<1>6. CASE RequestCloses
  BY <1>6 DEF RequestCloses, AttemptMoves, NewAttempt
<1>7. UNCHANGED attempt => Moves BY DEF AttemptMoves
<1>8. QED
  BY <1>1, <1>2, <1>3, <1>4, <1>5, <1>6, <1>7, Writers DEF ClipRowsWritten, WritesAttempts

LEMMA VerdictSteps ==
  ASSUME TypeOK, Next
  PROVE  \A a \in Attempt : VerdictMoves(a)
<1> DEFINE Moves == \A a \in Attempt : VerdictMoves(a)
<1>0. judging \in [Attempt -> JudgingRows] BY DEF TypeOK, ClipTypeOK
<1>1. ASSUME NEW w \in Worker, JudgeWrite(w) PROVE Moves
  <2>1. pass[w].on \in Attempt BY <1>1, Remembers DEF JudgeWrite, At, TypeOK, Judgements
  <2>2. \A a \in Attempt : a # pass[w].on => judging'[a] = judging[a]
    BY <1>0, <1>1, <2>1 DEF JudgeWrite
  <2>3. judging'[pass[w].on] =
          Written(judging[pass[w].on], w,
                  IF pass[w].verdict \in Verdicts THEN Settled(pass[w].verdict) ELSE Released)
    BY <1>0, <1>1, <2>1 DEF JudgeWrite
  <2>4. At(w, "JUDGED") BY <1>1 DEF JudgeWrite
  <2>5. VerdictMoves(pass[w].on)
    BY <2>1, <2>3, <2>4
    DEF Written, HeldBy, Settled, Released, VerdictMoves, Verdicts, BadVerdicts
  <2>6. QED BY <2>2, <2>5 DEF VerdictMoves
<1>2. ASSUME NEW w \in Worker, NEW b \in Attempt, JudgeClaim(w, b) PROVE Moves
  <2>1. \A a \in Attempt : a # b => judging'[a] = judging[a]
    BY <1>0, <1>2 DEF JudgeClaim
  <2>2. judging'[b].status = "RUNNING" /\ judging[b].status \notin Verdicts
    BY <1>0, <1>2 DEF JudgeClaim, ClaimedBy, Claimable, Verdicts, BadVerdicts
  <2>3. attempt[b].state = "OUTPUT_VERIFIED" BY <1>2 DEF JudgeClaim
  <2>4. QED BY <2>1, <2>2, <2>3 DEF VerdictMoves
<1>3. CASE LeaseExpires
  <2>1. \A a \in Attempt : judging'[a] = judging[a] \/ judging'[a] = TimedOut(judging[a])
    BY <1>0, <1>3 DEF LeaseExpires
  <2>2. \A a \in Attempt : TimedOut(judging[a]).status = judging[a].status
    BY <1>0 DEF TimedOut, JudgingRows, WorkRow
  <2>3. QED BY <2>1, <2>2 DEF VerdictMoves
<1>4. UNCHANGED judging => Moves BY DEF VerdictMoves
<1>5. QED BY <1>1, <1>2, <1>3, <1>4, Writers DEF ClipRowsWritten, WritesVerdicts

-----------------------------------------------------------------------------
(***************************************************************************)
(* Which steps lead into which phases.                                     *)
(***************************************************************************)

ClipPhases  == {"COMMIT", "VERIFY", "JUDGE", "JUDGED"}
VideoPhases == Composition \cup {"FINALIZE", "BLOCK", "CHECK", "CHECKED"}

ClipGoes(w) == Transfer(w) \/ Commit(w) \/ Judge(w) \/ \E a \in Attempt : JudgeClaim(w, a)

ResolvingGoes(w) ==
  \/ \E a \in Attempt : ResolveLook(w, a)
  \/ ResolveClaim(w) \/ PlanRecovery(w) \/ AdmitRecovery(w) \/ SettleExhausted(w)

VideoGoes(w) ==
  \/ ComposeClaim(w) \/ ProbeVideo(w) \/ ProbeMaster(w) \/ FetchMaster(w) \/ Compose(w)
  \/ StoreMaster(w) \/ Disclose(w) \/ StoreVideo(w) \/ CheckClaim(w) \/ Check(w)

OthersStay(w) == \A v \in Worker : v # w => pass'[v] = pass[v]

PassGoes(w) ==
  /\ OthersStay(w)
  /\ pass'[w].at \in ClipPhases => ClipGoes(w)
  /\ pass'[w].at \in ResolvingPhases => ResolvingGoes(w)
  /\ pass'[w].at \in VideoPhases => VideoGoes(w)

LEMMA GoesOn ==
  ASSUME TypeOK, NEW w \in Worker, NEW to, Goes(w, to)
  PROVE  pass'[w] = to /\ OthersStay(w)
BY DEF Goes, TypeOK, OthersStay

\* A pass that ends, or goes on to a phase that remembers nothing of the rows.
LEMMA GoesElsewhere ==
  ASSUME TypeOK, NEW w \in Worker, NEW to, Goes(w, to),
         to.at \in {"IDLE", "POLL", "COMPLETE", "BEGIN", "TRANSFER", "SHOW"}
  PROVE  PassGoes(w)
<1>1. pass'[w].at \in {"IDLE", "POLL", "COMPLETE", "BEGIN", "TRANSFER", "SHOW"} BY GoesOn
<1>2. QED
  BY <1>1, GoesOn DEF PassGoes, ClipPhases, ResolvingPhases, Dispositions, VideoPhases, Composition

LEMMA EndsElsewhere ==
  ASSUME TypeOK, NEW w \in Worker, Ends(w)
  PROVE  PassGoes(w)
<1>1. Goes(w, Idle) /\ Idle.at = "IDLE" BY DEF Ends, Idle
<1>2. QED BY <1>1, GoesElsewhere

\* The phases of the three kinds of pass are told apart.
LEMMA PhasesApart ==
  /\ ClipPhases \cap ResolvingPhases = {}
  /\ ClipPhases \cap VideoPhases = {}
  /\ ResolvingPhases \cap VideoPhases = {}
BY DEF ClipPhases, ResolvingPhases, Dispositions, VideoPhases, Composition

LEMMA TakingUpGoes ==
  ASSUME TypeOK, NEW w \in Worker, TakesUp(w)
  PROVE  PassGoes(w)
<1>1. ASSUME NEW a \in Attempt, LoadPollingContext(w, a) PROVE PassGoes(w)
  <2>1. Goes(w, [at |-> "POLL", on |-> a, seen |-> attempt[a].state])
    BY <1>1 DEF LoadPollingContext
  <2>2. QED BY <2>1, GoesElsewhere
<1>2. ASSUME NEW a \in Attempt, JudgeClaim(w, a) PROVE PassGoes(w)
  <2>1. Goes(w, [at |-> "JUDGE", on |-> a, expects |-> attempt[a].receipt])
    BY <1>2 DEF JudgeClaim
  <2>2. pass'[w].at = "JUDGE" BY <2>1, GoesOn
  <2>3. QED BY <1>2, <2>1, <2>2, GoesOn, PhasesApart DEF PassGoes, ClipGoes, ClipPhases
<1>3. ASSUME NEW a \in Attempt, ResolveLook(w, a) PROVE PassGoes(w)
  <2>1. Goes(w, [at |-> "CLAIM", on |-> a, row |-> resolving[a], todo |-> classify(a)])
    BY <1>3 DEF ResolveLook
  <2>2. pass'[w].at = "CLAIM" BY <2>1, GoesOn
  <2>3. QED
    BY <1>3, <2>1, <2>2, GoesOn, PhasesApart DEF PassGoes, ResolvingGoes, ResolvingPhases
<1>4. ASSUME ComposeClaim(w) PROVE PassGoes(w)
  <2>1. PICK to \in {[at |-> "PROBE"], [at |-> "BLOCK", code |-> "PLAN_REFUSED"]} : Goes(w, to)
    BY <1>4 DEF ComposeClaim
  <2>2. pass'[w].at \in {"PROBE", "BLOCK"} BY <2>1, GoesOn
  <2>3. QED
    BY <1>4, <2>1, <2>2, GoesOn, PhasesApart DEF PassGoes, VideoGoes, VideoPhases, Composition
<1>5. ASSUME CheckClaim(w) PROVE PassGoes(w)
  <2>1. CASE Goes(w, [at |-> "SHOW"]) BY <2>1, GoesElsewhere
  <2>2. CASE Goes(w, [at |-> "CHECK", expects |-> receipts.video])
    <3>1. pass'[w].at = "CHECK" BY <2>2, GoesOn
    <3>2. QED BY <1>5, <2>2, <3>1, GoesOn, PhasesApart DEF PassGoes, VideoGoes, VideoPhases
  <2>3. QED BY <1>5, <2>1, <2>2 DEF CheckClaim
<1>6. QED BY <1>1, <1>2, <1>3, <1>4, <1>5 DEF TakesUp

LEMMA WorkingOnClipGoes ==
  ASSUME TypeOK, NEW w \in Worker, WorksOnClip(w)
  PROVE  PassGoes(w)
<1>1. ASSUME Poll(w) PROVE PassGoes(w)
  <2>1. PICK to : Goes(w, to) /\ to.at \in {"COMPLETE", "BEGIN", "TRANSFER"}
    BY <1>1 DEF Poll
  <2>2. QED BY <2>1, GoesElsewhere
<1>2. ASSUME Complete(w) PROVE PassGoes(w)
  <2>1. (\E to : Goes(w, to) /\ to.at = "BEGIN") \/ Ends(w) BY <1>2 DEF Complete
  <2>2. QED BY <2>1, GoesElsewhere, EndsElsewhere
<1>3. ASSUME Begin(w) PROVE PassGoes(w)
  <2>1. (\E to : Goes(w, to) /\ to.at = "TRANSFER") \/ Ends(w) BY <1>3 DEF Begin
  <2>2. QED BY <2>1, GoesElsewhere, EndsElsewhere
<1>4. ASSUME Transfer(w) \/ Commit(w) \/ Judge(w) PROVE PassGoes(w)
  <2>0. OthersStay(w)
    BY <1>4 DEF Transfer, Commit, Judge, Goes, OthersStay, TypeOK
  <2>1. /\ Transfer(w) => pass'[w].at = "COMMIT"
        /\ Commit(w) => pass'[w].at = "VERIFY"
        /\ Judge(w) => pass'[w].at = "JUDGED"
    BY DEF Transfer, Commit, Judge, Goes, TypeOK
  <2>2. pass'[w].at \in ClipPhases BY <1>4, <2>1 DEF ClipPhases
  <2>3. QED BY <1>4, <2>0, <2>2, PhasesApart DEF PassGoes, ClipGoes
<1>5. ASSUME Verify(w) \/ JudgeWrite(w) \/ Resolve(w) \/ Release(w) PROVE PassGoes(w)
  BY <1>5, EndsElsewhere DEF Verify, JudgeWrite, Resolve, Release
<1>6. ASSUME ResolveClaim(w) PROVE PassGoes(w)
  <2>1. CASE Ends(w) BY <2>1, EndsElsewhere
  <2>2. CASE ~ Ends(w)
    <3>1. Goes(w, [at |-> pass[w].todo, on |-> pass[w].on]) BY <1>6, <2>2 DEF ResolveClaim
    <3>2. pass[w] \in Claims BY <1>6, Remembers DEF ResolveClaim, At, TypeOK
    <3>3. pass'[w].at \in ResolvingPhases
      BY <3>1, <3>2, GoesOn DEF Claims, ResolvingPhases
    <3>4. QED BY <1>6, <3>1, <3>3, GoesOn, PhasesApart DEF PassGoes, ResolvingGoes
  <2>3. QED BY <2>1, <2>2
<1>7. ASSUME PlanRecovery(w) \/ AdmitRecovery(w) PROVE PassGoes(w)
  <2>1. PICK to : Goes(w, to) /\ to.at \in {"ADMIT", "RELEASE", "ADMITTED"}
    BY <1>7 DEF PlanRecovery, AdmitRecovery
  <2>2. pass'[w].at \in ResolvingPhases BY <2>1, GoesOn DEF ResolvingPhases
  <2>3. QED BY <1>7, <2>1, <2>2, GoesOn, PhasesApart DEF PassGoes, ResolvingGoes
<1>8. ASSUME SettleExhausted(w) PROVE PassGoes(w)
  <2>1. CASE Ends(w) BY <2>1, EndsElsewhere
  <2>2. CASE ~ Ends(w)
    <3>1. Goes(w, [at |-> "RELEASE", on |-> pass[w].on]) BY <1>8, <2>2 DEF SettleExhausted
    <3>2. pass'[w].at \in ResolvingPhases BY <3>1, GoesOn DEF ResolvingPhases
    <3>3. QED BY <1>8, <3>1, <3>2, GoesOn, PhasesApart DEF PassGoes, ResolvingGoes
  <2>3. QED BY <2>1, <2>2
<1>9. QED
  BY <1>1, <1>2, <1>3, <1>4, <1>5, <1>6, <1>7, <1>8 DEF WorksOnClip

LEMMA WorkingOnVideoGoes ==
  ASSUME TypeOK, NEW w \in Worker, WorksOnVideo(w)
  PROVE  PassGoes(w)
<1>1. ASSUME pass'[w].at \in VideoPhases, OthersStay(w), VideoGoes(w) PROVE PassGoes(w)
  BY <1>1, PhasesApart DEF PassGoes
<1>2. ASSUME ProbeVideo(w) \/ FetchMaster(w) \/ Compose(w) PROVE PassGoes(w)
  <2>1. OthersStay(w)
    BY <1>2 DEF ProbeVideo, FetchMaster, Compose, Goes, OthersStay, TypeOK
  <2>2. /\ ProbeVideo(w) => pass'[w].at \in {"FETCH", "PROBE_MASTER"}
        /\ FetchMaster(w) => pass'[w].at \in {"COMPOSE", "DISCLOSE"}
        /\ Compose(w) => pass'[w].at \in {"BLOCK", "STORE_MASTER"}
    BY DEF ProbeVideo, FetchMaster, Compose, Goes, TypeOK
  <2>3. pass'[w].at \in VideoPhases BY <1>2, <2>2 DEF VideoPhases, Composition
  <2>4. QED BY <1>1, <1>2, <2>1, <2>3 DEF VideoGoes
<1>3. ASSUME StoreMaster(w) \/ Disclose(w) PROVE PassGoes(w)
  <2>1. OthersStay(w) BY <1>3 DEF StoreMaster, Disclose, Goes, OthersStay, TypeOK
  <2>2. /\ StoreMaster(w) => pass'[w].at \in {"BLOCK", "DISCLOSE"}
        /\ Disclose(w) => pass'[w].at \in {"BLOCK", "STORE_VIDEO"}
    BY DEF StoreMaster, Disclose, Goes, TypeOK
  <2>3. pass'[w].at \in VideoPhases BY <1>3, <2>2 DEF VideoPhases, Composition
  <2>4. QED BY <1>1, <1>3, <2>1, <2>3 DEF VideoGoes
<1>4. ASSUME ProbeMaster(w) PROVE PassGoes(w)
  <2>1. CASE Ends(w) BY <2>1, EndsElsewhere
  <2>2. CASE ~ Ends(w)
    <3>1. OthersStay(w) /\ pass'[w].at = "FINALIZE"
      BY <1>4, <2>2 DEF ProbeMaster, Goes, OthersStay, TypeOK
    <3>2. QED BY <1>1, <1>4, <3>1 DEF VideoGoes, VideoPhases
  <2>3. QED BY <2>1, <2>2
<1>5. ASSUME StoreVideo(w) \/ Check(w) PROVE PassGoes(w)
  <2>1. OthersStay(w) BY <1>5 DEF StoreVideo, Check, Goes, OthersStay, TypeOK
  <2>2. /\ StoreVideo(w) => pass'[w].at \in {"BLOCK", "FINALIZE"}
        /\ Check(w) => pass'[w].at = "CHECKED"
    BY DEF StoreVideo, Check, Goes, TypeOK
  <2>3. pass'[w].at \in VideoPhases BY <1>5, <2>2 DEF VideoPhases
  <2>4. QED BY <1>1, <1>5, <2>1, <2>3 DEF VideoGoes
<1>6. ASSUME \/ DeferComposition(w) \/ FinalizeComposition(w) \/ BlockComposition(w)
             \/ FinalizeInvalid(w) \/ DeferValidation(w) \/ PublishDeliverable(w)
      PROVE PassGoes(w)
  BY <1>6, EndsElsewhere DEF DeferComposition, FinalizeComposition, BlockComposition,
     FinalizeInvalid, DeferValidation, PublishDeliverable
<1>7. ASSUME FinalizeValid(w) PROVE PassGoes(w)
  <2>1. Ends(w) \/ \E to : Goes(w, to) /\ to.at = "SHOW" BY <1>7 DEF FinalizeValid
  <2>2. QED BY <2>1, GoesElsewhere, EndsElsewhere
<1>8. QED BY <1>2, <1>3, <1>4, <1>5, <1>6, <1>7 DEF WorksOnVideo

\* A step is one worker's, who goes on as its phase has it, or nobody's.
LEMMA Passes ==
  ASSUME TypeOK, Next
  PROVE  UNCHANGED pass \/ \E w \in Worker : PassGoes(w)
<1>1. ASSUME NEW w \in Worker, PassEnds(w) PROVE PassGoes(w)
  BY <1>1, EndsElsewhere DEF PassEnds
<1>2. LeaseExpires \/ ElsewhereInTheJob => UNCHANGED pass
  BY DEF LeaseExpires, ElsewhereInTheJob, RecoverySubmitted, JobEnds, RequestCloses, ClipIsPlanned
<1>3. QED
  BY <1>1, <1>2, TakingUpGoes, WorkingOnClipGoes, WorkingOnVideoGoes DEF Next

-----------------------------------------------------------------------------
(***************************************************************************)
(* Clips: a receipt is of the stored object, a verdict of the receipt.      *)
(***************************************************************************)

\* What a pass remembers of a clip outlives every step.
LEMMA ClipMemoryStays ==
  ASSUME TypeOK, ClipInv, Next, NEW p \in Pass, ClipMemory(p, stored, attempt)
  PROVE  ClipMemory(p, stored', attempt')
<1>1. /\ p.at \in {"VERIFY"} => p.on \in Attempt
      /\ p.at \in {"JUDGE", "JUDGED"} => p.on \in Attempt
  BY Remembers DEF Transfers, Judgements
<1>2. \A a \in Attempt : /\ a \in Object
                         /\ stored[a] # Nothing => stored'[a] = stored[a]
  BY StoredObjectsStay DEF ObjectsStay, Object
<1>3. \A a \in Attempt : attempt[a].state = "OUTPUT_VERIFIED" => attempt'[a] = attempt[a]
  BY AttemptSteps DEF AttemptMoves
<1>4. \A a \in Attempt : attempt[a].state = "OUTPUT_VERIFIED" => stored[a] # Nothing
  BY DEF ClipInv, ClipsFit, ClipRowFits, VerifiedAs
<1>5. QED BY <1>1, <1>2, <1>3, <1>4 DEF ClipMemory

\* What a worker that goes on then remembers of a clip is so.
LEMMA ClipGoesRemembering ==
  ASSUME TypeOK, ClipInv, Next, NEW w \in Worker, ClipGoes(w)
  PROVE  ClipMemory(pass'[w], stored', attempt')
<1> DEFINE p == pass[w]
<1>0. p \in Pass /\ ClipMemory(p, stored, attempt) BY DEF TypeOK, ClipInv, ClipPassesFit
<1>1. CASE Transfer(w)
  <2>1. PICK take \in ClipTake :
          pass'[w] = [at |-> "COMMIT", on |-> p.on, bytes |-> Bytes("provider", take)]
    BY <1>1 DEF Transfer, Goes, TypeOK
  <2>2. QED BY <2>1 DEF ClipMemory, ClipBytes
<1>2. CASE Commit(w)
  <2>1. p \in Transfers /\ p.at = "COMMIT" BY <1>0, <1>2, Remembers DEF Commit, At
  <2>2. p.on \in Object /\ p.bytes \in ClipBytes
    BY <1>0, <2>1 DEF Transfers, ClipMemory, Object
  <2>3. p.bytes # Nothing BY <2>2, MediaAssumption DEF ClipBytes, Bytes, Nothing
  <2>4. stored'[p.on] # Nothing BY <1>2, <2>2, <2>3 DEF Commit, PutIfAbsent, TypeOK
  <2>5. pass'[w] = [at |-> "VERIFY", on |-> p.on, receipt |-> stored'[p.on]]
    BY <1>2 DEF Commit, Goes, TypeOK
  <2>6. QED BY <2>4, <2>5 DEF ClipMemory
<1>3. CASE Judge(w)
  <2>1. p \in Judgements /\ p.at = "JUDGE" BY <1>0, <1>3, Remembers DEF Judge, At
  <2>2. p.on \in Attempt BY <2>1 DEF Judgements
  <2>3. attempt[p.on].state = "OUTPUT_VERIFIED" /\ p.expects = stored[p.on]
    BY <1>0, <2>1 DEF ClipMemory
  <2>4. stored[p.on] # Nothing
    BY <2>2, <2>3 DEF ClipInv, ClipsFit, ClipRowFits, VerifiedAs
  <2>5. UNCHANGED <<stored, attempt>> BY <1>3 DEF Judge, clipRows
  <2>6. PICK verdict \in {"RETRYABLE_FAILURE", Verdict(stored[p.on], p.expects)} :
          pass'[w] = [at |-> "JUDGED", on |-> p.on, verdict |-> verdict]
    BY <1>3 DEF Judge, Goes, TypeOK
  <2>7. Verdict(stored[p.on], p.expects) = Truth(stored[p.on])
    BY <2>3, <2>4 DEF Verdict, Playable, Truth
  <2>8. QED BY <2>3, <2>5, <2>6, <2>7 DEF ClipMemory, Verdicts, BadVerdicts
<1>4. ASSUME NEW a \in Attempt, JudgeClaim(w, a)
      PROVE  ClipMemory(pass'[w], stored', attempt')
  <2>1. pass'[w] = [at |-> "JUDGE", on |-> a, expects |-> attempt[a].receipt]
    BY <1>4 DEF JudgeClaim, Goes, TypeOK
  <2>2. attempt[a].state = "OUTPUT_VERIFIED" /\ attempt[a].receipt = stored[a]
    BY <1>4 DEF JudgeClaim, ClipInv, ClipsFit, ClipRowFits, VerifiedAs
  <2>3. UNCHANGED <<stored, attempt>> BY <1>4 DEF JudgeClaim
  <2>4. QED BY <2>1, <2>2, <2>3 DEF ClipMemory
<1>5. QED BY <1>1, <1>2, <1>3, <1>4 DEF ClipGoes

LEMMA ClipPassesStayFit ==
  ASSUME TypeOK, ClipInv, Next
  PROVE  \A v \in Worker : ClipMemory(pass'[v], stored', attempt')
<1>1. \A v \in Worker : ClipMemory(pass[v], stored', attempt')
  BY ClipMemoryStays DEF ClipInv, ClipPassesFit, TypeOK
<1>2. ASSUME NEW w \in Worker, PassGoes(w), NEW v \in Worker
      PROVE  ClipMemory(pass'[v], stored', attempt')
  <2>1. CASE v # w BY <1>1, <1>2, <2>1 DEF PassGoes, OthersStay
  <2>2. CASE v = w /\ pass'[w].at \in ClipPhases
    BY <1>2, <2>2, ClipGoesRemembering DEF PassGoes
  <2>3. CASE v = w /\ pass'[w].at \notin ClipPhases
    BY <2>3 DEF ClipMemory, ClipPhases
  <2>4. QED BY <2>1, <2>2, <2>3
<1>3. QED BY <1>1, <1>2, Passes

LEMMA ClipsStayFit ==
  ASSUME TypeOK, ClipInv, Next, NEW a \in Attempt
  PROVE  ClipRowFits(attempt'[a], judging'[a], stored'[a])
<1>0. a \in Object BY DEF Object
<1>1. ClipRowFits(attempt[a], judging[a], stored[a]) BY DEF ClipInv, ClipsFit
<1>2. stored[a] # Nothing => stored'[a] = stored[a]
  BY <1>0, StoredObjectsStay DEF ObjectsStay
<1>3. VerifiedAs(attempt'[a], stored'[a])
  <2>1. CASE attempt'[a] = attempt[a] BY <1>1, <1>2, <2>1 DEF ClipRowFits, VerifiedAs
  <2>2. CASE /\ attempt[a].state # "OUTPUT_VERIFIED" /\ attempt'[a].state # "OUTPUT_VERIFIED"
             /\ attempt'[a].receipt \in {attempt[a].receipt, Nothing}
    BY <1>1, <2>2 DEF ClipRowFits, VerifiedAs
  <2>3. ASSUME NEW w \in Worker, At(w, "VERIFY"), pass[w].on = a,
               attempt'[a] = [state |-> "OUTPUT_VERIFIED", receipt |-> pass[w].receipt]
        PROVE  VerifiedAs(attempt'[a], stored'[a])
    <3>1. pass[w].receipt = stored[a] /\ stored[a] # Nothing
      BY <2>3 DEF ClipInv, ClipPassesFit, ClipMemory, At
    <3>2. QED BY <1>2, <2>3, <3>1 DEF VerifiedAs
  <2>4. QED BY <2>1, <2>2, <2>3, AttemptSteps DEF AttemptMoves
<1>4. attempt[a].state = "OUTPUT_VERIFIED" =>
        /\ attempt'[a].state = "OUTPUT_VERIFIED"
        /\ stored'[a] = stored[a]
  BY <1>1, <1>2, AttemptSteps DEF AttemptMoves, ClipRowFits, VerifiedAs
<1>5. /\ JudgedAs(judging'[a], stored'[a])
      /\ judging'[a].status # "NONE" => attempt'[a].state = "OUTPUT_VERIFIED"
  <2>1. CASE judging'[a].status = judging[a].status
    BY <1>1, <1>4, <2>1 DEF ClipRowFits, JudgedAs, Verdicts, BadVerdicts
  <2>2. CASE /\ judging[a].status \notin Verdicts /\ judging'[a].status \in {"RUNNING", "PENDING"}
             /\ judging[a].status = "NONE" => attempt[a].state = "OUTPUT_VERIFIED"
    BY <1>1, <1>4, <2>2 DEF ClipRowFits, JudgedAs, Verdicts, BadVerdicts
  <2>3. ASSUME judging[a].status = "RUNNING", NEW w \in Worker,
               At(w, "JUDGED"), pass[w].on = a, pass[w].verdict \in Verdicts,
               judging'[a].status = pass[w].verdict
        PROVE  /\ JudgedAs(judging'[a], stored'[a])
               /\ judging'[a].status # "NONE" => attempt'[a].state = "OUTPUT_VERIFIED"
    <3>1. judging'[a].status = Truth(stored[a]) /\ attempt[a].state = "OUTPUT_VERIFIED"
      BY <2>3 DEF ClipInv, ClipPassesFit, ClipMemory, At
    <3>2. QED BY <1>4, <3>1 DEF JudgedAs
  <2>4. QED BY <2>1, <2>2, <2>3, VerdictSteps DEF VerdictMoves
<1>6. QED BY <1>3, <1>5 DEF ClipRowFits

\* Every receipt of a clip is of the object as it is stored, and every verdict is
\* of that receipt, however passes interleave and end.
LEMMA ClipInvariant == Spec => []ClipInv
<1>1. Init => ClipInv
  <2>1. SUFFICES ASSUME Init PROVE ClipInv OBVIOUS
  <2>2. ClipsFit
    BY <2>1 DEF Init, ClipsFit, ClipRowFits, VerifiedAs, JudgedAs, NewAttempt, NoRow,
       Verdicts, BadVerdicts
  <2>3. ClipPassesFit BY <2>1 DEF Init, ClipPassesFit, ClipMemory, Idle
  <2>4. QED BY <2>2, <2>3 DEF ClipInv
<1>2. TypeOK /\ ClipInv /\ [Next]_vars => ClipInv'
  <2>1. SUFFICES ASSUME TypeOK, ClipInv, [Next]_vars PROVE ClipInv' OBVIOUS
  <2>2. CASE Next
    <3>1. ClipsFit' BY <2>1, <2>2, ClipsStayFit DEF ClipsFit
    <3>2. ClipPassesFit' BY <2>1, <2>2, ClipPassesStayFit DEF ClipPassesFit
    <3>3. QED BY <3>1, <3>2 DEF ClipInv
  <2>3. CASE UNCHANGED vars
    BY <2>1, <2>3 DEF vars, clipRows, ClipInv, ClipsFit, ClipPassesFit
  <2>4. QED BY <2>1, <2>2, <2>3
<1>3. QED BY <1>1, <1>2, Typed, PTL DEF Spec

-----------------------------------------------------------------------------
(***************************************************************************)
(* Resolutions: a bad verdict that was resolved had its consequence.        *)
(***************************************************************************)

\* A request that is over, and a job that failed, stay so.
LEMMA EndsStay ==
  ASSUME TypeOK, Next
  PROVE  /\ request # "GENERATING" => request' = request
         /\ job.state = "FAILED_TERMINAL" => job' = job
<1>1. request # "GENERATING" => request' = request
  <2>1. ASSUME NEW w \in Worker, SettleExhausted(w)
        PROVE  request # "GENERATING" => request' = request
    BY <2>1 DEF SettleExhausted
  <2>2. RequestCloses \/ PlansClip => request = "GENERATING"
    BY DEF RequestCloses, PlansClip, ClipIsPlanned
  <2>3. QED BY <2>1, <2>2, Writers DEF JobRowsWritten, WritesRequest
<1>2. job.state = "FAILED_TERMINAL" => job' = job
  <2>1. ASSUME NEW w \in Worker, SettleExhausted(w) \/ ComposeClaim(w) \/ FinalizeComposition(w)
        PROVE  job.state = "FAILED_TERMINAL" => job' = job
    BY <2>1 DEF SettleExhausted, ComposeClaim, FinalizeComposition
  <2>2. ASSUME NEW w \in Worker, BlockComposition(w) \/ FinalizeInvalid(w) \/ PublishDeliverable(w)
        PROVE  job.state = "FAILED_TERMINAL" => job' = job
    BY <2>2 DEF BlockComposition, FinalizeInvalid, CheckHeld, PublishDeliverable
  <2>3. PlansClip \/ JobEnds => job.state = "GENERATING"
    BY DEF PlansClip, ClipIsPlanned, JobEnds
  <2>4. QED BY <2>1, <2>2, <2>3, Writers DEF JobRowsWritten, WritesJob
<1>3. QED BY <1>1, <1>2

LEMMA BadVerdictStays ==
  ASSUME TypeOK, Next, NEW a \in Attempt, judging[a].status \in BadVerdicts
  PROVE  judging'[a].status = judging[a].status
BY VerdictSteps DEF VerdictMoves, Verdicts, BadVerdicts

LEMMA RecoveryStays ==
  ASSUME TypeOK, Next
  PROVE  Recovered(attempt) => Recovered(attempt')
<1>1. \/ attempt'["recovery"] = attempt["recovery"]
      \/ attempt'["recovery"].state # "NONE"
      \/ \E r : attempt'["recovery"] = [state |-> "OUTPUT_VERIFIED", receipt |-> r]
  BY AttemptSteps DEF AttemptMoves, Attempt
<1>2. \A r : [state |-> "OUTPUT_VERIFIED", receipt |-> r].state # "NONE" OBVIOUS
<1>3. QED BY <1>1, <1>2 DEF Recovered

\* What a disposition was decided on is never taken back.
LEMMA ResolvingMemoryStays ==
  ASSUME TypeOK, Next, NEW p \in Pass, ResolvingMemory(p, judging, attempt, request)
  PROVE  ResolvingMemory(p, judging', attempt', request')
<1>1. p.at \in ResolvingPhases => p.on \in Attempt
  BY Remembers DEF ResolvingPhases, Claims, Resolving
<1>2. p.at \in ResolvingPhases => judging'[p.on].status \in BadVerdicts
  BY <1>1, BadVerdictStays DEF ResolvingMemory
<1>3. \A a, todo : Decided(a, todo, attempt, request) => Decided(a, todo, attempt', request')
  BY RecoveryStays, EndsStay DEF Decided
<1>4. QED BY <1>2, <1>3, RecoveryStays DEF ResolvingMemory

LEMMA ResolvingGoesRemembering ==
  ASSUME TypeOK, ResolvingInv, Next, NEW w \in Worker, ResolvingGoes(w)
  PROVE  ResolvingMemory(pass'[w], judging', attempt', request')
<1> DEFINE p == pass[w]
<1>0. p \in Pass /\ ResolvingMemory(p, judging, attempt, request)
  BY DEF TypeOK, ResolvingInv, ResolvingPassesFit
<1>1. ASSUME NEW q, q.at \in ResolvingPhases, pass'[w] = q, q.on \in Attempt,
             judging[q.on].status \in BadVerdicts,
             q.at = "CLAIM" => Decided(q.on, q.todo, attempt', request'),
             q.at \in Dispositions => Decided(q.on, q.at, attempt', request'),
             q.at \in {"ADMIT", "ADMITTED"} => q.on = "first",
             q.at = "ADMITTED" => Recovered(attempt')
      PROVE  ResolvingMemory(pass'[w], judging', attempt', request')
  BY <1>1, BadVerdictStays DEF ResolvingMemory
<1>2. ASSUME NEW a \in Attempt, ResolveLook(w, a)
      PROVE  ResolvingMemory(pass'[w], judging', attempt', request')
  <2>1. pass'[w] = [at |-> "CLAIM", on |-> a, row |-> resolving[a], todo |-> classify(a)]
    BY <1>2 DEF ResolveLook, Goes, TypeOK
  <2>2. Decided(a, classify(a), attempt, request)
    BY DEF classify, Decided, Newest, HasRecovery, Recovered, Attempt
  <2>3. UNCHANGED <<judging, attempt, request>> BY <1>2 DEF ResolveLook, clipRows, jobRows
  <2>4. judging[a].status \in BadVerdicts BY <1>2 DEF ResolveLook
  <2>5. QED BY <2>1, <2>2, <2>3, <2>4 DEF ResolvingMemory, Dispositions
<1>3. CASE ResolveClaim(w)
  <2>1. p \in Claims /\ p.at = "CLAIM" BY <1>0, <1>3, Remembers DEF ResolveClaim, At
  <2>2. /\ p.on \in Attempt /\ p.todo \in Dispositions
        /\ judging[p.on].status \in BadVerdicts
        /\ Decided(p.on, p.todo, attempt, request)
    BY <1>0, <2>1 DEF Claims, ResolvingMemory, ResolvingPhases
  <2>3. UNCHANGED <<judging, attempt, request>> BY <1>3 DEF ResolveClaim, jobRows
  <2>4. pass'[w] = [at |-> p.todo, on |-> p.on] \/ pass'[w] = Idle
    BY <1>3 DEF ResolveClaim, Ends, Goes, TypeOK
  <2>5. QED
    BY <2>2, <2>3, <2>4 DEF ResolvingMemory, Idle, ResolvingPhases, Dispositions
<1>4. CASE PlanRecovery(w)
  <2>1. p \in Resolving /\ p.at = "ADMIT_RECOVERY"
    BY <1>0, <1>4, Remembers DEF PlanRecovery, At, Dispositions
  <2>2. p.on \in Attempt /\ p.on = "first" /\ judging[p.on].status \in BadVerdicts
    BY <1>0, <2>1 DEF Resolving, ResolvingMemory, ResolvingPhases, Dispositions, Decided
  <2>3. UNCHANGED <<judging, attempt, request>> BY <1>4 DEF PlanRecovery, clipRows, jobRows
  <2>4. PICK next \in {"ADMIT", "RELEASE"} : pass'[w] = [at |-> next, on |-> p.on]
    BY <1>4 DEF PlanRecovery, Goes, TypeOK
  <2>5. QED BY <2>2, <2>3, <2>4 DEF ResolvingMemory, Dispositions
<1>5. CASE AdmitRecovery(w)
  <2>1. p \in Resolving /\ p.at = "ADMIT" BY <1>0, <1>5, Remembers DEF AdmitRecovery, At
  <2>2. p.on \in Attempt /\ p.on = "first" /\ judging[p.on].status \in BadVerdicts
    BY <1>0, <2>1 DEF Resolving, ResolvingMemory, ResolvingPhases
  <2>3. UNCHANGED judging BY <1>5 DEF AdmitRecovery
  <2>4. \/ pass'[w] = [at |-> "RELEASE", on |-> p.on]
        \/ /\ pass'[w] = [at |-> "ADMITTED", on |-> p.on]
           /\ attempt' = [attempt EXCEPT !["recovery"] = NewAttempt("QUEUED")]
    BY <1>5 DEF AdmitRecovery, Goes, TypeOK
  <2>5. attempt' = [attempt EXCEPT !["recovery"] = NewAttempt("QUEUED")] => Recovered(attempt')
    BY DEF TypeOK, ClipTypeOK, Attempt, Recovered, NewAttempt
  <2>6. QED BY <2>2, <2>3, <2>4, <2>5 DEF ResolvingMemory, Dispositions
<1>6. CASE SettleExhausted(w)
  <2>1. p \in Resolving /\ p.at = "SETTLE_EXHAUSTED"
    BY <1>0, <1>6, Remembers DEF SettleExhausted, At, Dispositions
  <2>2. p.on \in Attempt /\ judging[p.on].status \in BadVerdicts
    BY <1>0, <2>1 DEF Resolving, ResolvingMemory, ResolvingPhases, Dispositions
  <2>3. UNCHANGED judging BY <1>6 DEF SettleExhausted
  <2>4. pass'[w] = [at |-> "RELEASE", on |-> p.on] \/ pass'[w] = Idle
    BY <1>6 DEF SettleExhausted, Ends, Goes, TypeOK
  <2>5. QED
    BY <2>2, <2>3, <2>4 DEF ResolvingMemory, Idle, ResolvingPhases, Dispositions
<1>7. QED BY <1>2, <1>3, <1>4, <1>5, <1>6 DEF ResolvingGoes

LEMMA ResolvingPassesStayFit ==
  ASSUME TypeOK, ResolvingInv, Next
  PROVE  \A v \in Worker : ResolvingMemory(pass'[v], judging', attempt', request')
<1>1. \A v \in Worker : ResolvingMemory(pass[v], judging', attempt', request')
  BY ResolvingMemoryStays DEF ResolvingInv, ResolvingPassesFit, TypeOK
<1>2. ASSUME NEW w \in Worker, PassGoes(w), NEW v \in Worker
      PROVE  ResolvingMemory(pass'[v], judging', attempt', request')
  <2>1. CASE v # w BY <1>1, <1>2, <2>1 DEF PassGoes, OthersStay
  <2>2. CASE v = w /\ pass'[w].at \in ResolvingPhases
    BY <1>2, <2>2, ResolvingGoesRemembering DEF PassGoes
  <2>3. CASE v = w /\ pass'[w].at \notin ResolvingPhases
    BY <2>3 DEF ResolvingMemory, ResolvingPhases
  <2>4. QED BY <2>1, <2>2, <2>3
<1>3. QED BY <1>1, <1>2, Passes

\* One step of a resolution's row: its status stays; or a worker writes what its
\* phase has decided.
ResolutionMoves(a) ==
  \/ resolving'[a].status = resolving[a].status
  \/ \E w \in Worker :
       /\ pass[w].on = a
       /\ \/ At(w, "CLAIM") /\ resolving'[a].status = "RUNNING"
          \/ At(w, "RELEASE") /\ resolving'[a].status = "PENDING"
          \/ At(w, "OBSOLETE") /\ resolving'[a].status = "OBSOLETE"
          \/ /\ At(w, "RECONCILE_RECOVERY") \/ At(w, "ADMITTED")
             /\ resolving'[a].status = "RECOVERY_ADMITTED"
          \/ /\ At(w, "SETTLE_EXHAUSTED") /\ resolving'[a].status = "INITIAL_FAILURE_SETTLED"
             /\ request' = "FAILED_TERMINAL"
             /\ job' = [state |-> "FAILED_TERMINAL", unit |-> "RELEASED"]

LEMMA WritingResolves ==
  ASSUME TypeOK, NEW w \in Worker, NEW to, WriteResolution(w, to), pass[w].on \in Attempt,
         NEW a \in Attempt
  PROVE  \/ resolving'[a] = resolving[a]
         \/ pass[w].on = a /\ resolving'[a] = to
BY DEF WriteResolution, Written, TypeOK, ClipTypeOK

LEMMA ResolutionSteps ==
  ASSUME TypeOK, Next, NEW a \in Attempt
  PROVE  ResolutionMoves(a)
<1>0. resolving \in [Attempt -> ResolvingRows] BY DEF TypeOK, ClipTypeOK
<1>1. ASSUME NEW w \in Worker, ResolveClaim(w) PROVE ResolutionMoves(a)
  <2>1. At(w, "CLAIM") BY <1>1 DEF ResolveClaim
  <2>2. pass[w].on \in Attempt BY <2>1, Remembers DEF At, TypeOK, Claims
  <2>3. \/ resolving'[a] = resolving[a]
        \/ pass[w].on = a /\ resolving'[a] = ClaimedBy(w)
    BY <1>0, <1>1, <2>2 DEF ResolveClaim
  <2>4. QED BY <2>1, <2>3 DEF ClaimedBy, ResolutionMoves
<1>2. ASSUME NEW w \in Worker, Resolve(w) \/ Release(w) PROVE ResolutionMoves(a)
  <2>1. PICK to :
          /\ WriteResolution(w, to)
          /\ \/ At(w, "RELEASE") /\ to.status = "PENDING"
             \/ At(w, "OBSOLETE") /\ to.status = "OBSOLETE"
             \/ /\ At(w, "RECONCILE_RECOVERY") \/ At(w, "ADMITTED")
                /\ to.status = "RECOVERY_ADMITTED"
    BY <1>2 DEF Resolve, Release, Settled, Released
  <2>2. pass[w].on \in Attempt
    BY <2>1, Remembers DEF At, TypeOK, Resolving, Dispositions
  <2>3. \/ resolving'[a] = resolving[a]
        \/ pass[w].on = a /\ resolving'[a] = to
    BY <2>1, <2>2, WritingResolves
  <2>4. QED BY <2>1, <2>3 DEF ResolutionMoves
<1>3. ASSUME NEW w \in Worker, SettleExhausted(w) PROVE ResolutionMoves(a)
  <2>1. CASE resolving' = resolving BY <2>1 DEF ResolutionMoves
  <2>2. CASE resolving' # resolving
    <3>1. /\ WriteResolution(w, Settled("INITIAL_FAILURE_SETTLED"))
          /\ At(w, "SETTLE_EXHAUSTED")
          /\ request' = "FAILED_TERMINAL" /\ JobFails("RELEASED")
      BY <1>3, <2>2 DEF SettleExhausted
    <3>2. pass[w].on \in Attempt
      BY <3>1, Remembers DEF At, TypeOK, Resolving, Dispositions
    <3>3. \/ resolving'[a] = resolving[a]
          \/ pass[w].on = a /\ resolving'[a] = Settled("INITIAL_FAILURE_SETTLED")
      BY <3>1, <3>2, WritingResolves
    <3>4. QED BY <3>1, <3>3 DEF Settled, JobFails, ResolutionMoves
  <2>3. QED BY <2>1, <2>2
<1>4. CASE LeaseExpires
  <2>1. resolving'[a] = resolving[a] \/ resolving'[a] = TimedOut(resolving[a])
    BY <1>0, <1>4 DEF LeaseExpires
  <2>2. TimedOut(resolving[a]).status = resolving[a].status
    BY <1>0 DEF TimedOut, ResolvingRows, WorkRow
  <2>3. QED BY <2>1, <2>2 DEF ResolutionMoves
<1>5. UNCHANGED resolving => ResolutionMoves(a) BY DEF ResolutionMoves
<1>6. QED
  BY <1>1, <1>2, <1>3, <1>4, <1>5, Writers DEF ClipRowsWritten, WritesResolutions

\* What one resolution's row says of the rest.
ActedOn(a, status, judgings, attempts, requested, ended) ==
  /\ status = "RECOVERY_ADMITTED" => a = "first" /\ Recovered(attempts)
  /\ status = "OBSOLETE" => requested # "GENERATING"
  /\ status = "INITIAL_FAILURE_SETTLED" =>
       /\ a = "recovery" /\ requested = "FAILED_TERMINAL"
       /\ ended = [state |-> "FAILED_TERMINAL", unit |-> "RELEASED"]
  /\ status # "NONE" => judgings[a].status \in BadVerdicts

LEMMA ActedOnInParts ==
  VerdictsAreActedOn <=>
    /\ \A a \in Attempt : ActedOn(a, resolving[a].status, judging, attempt, request, job)
    /\ Recovered(attempt) => judging["first"].status \in BadVerdicts
BY DEF VerdictsAreActedOn, ActedOn, Recovered, HasRecovery, Attempt

LEMMA ResolutionStaysActedOn ==
  ASSUME TypeOK, ResolvingInv, Next, NEW a \in Attempt
  PROVE  ActedOn(a, resolving'[a].status, judging', attempt', request', job')
<1>1. ActedOn(a, resolving[a].status, judging, attempt, request, job)
  BY ActedOnInParts DEF ResolvingInv
<1>2. CASE resolving'[a].status = resolving[a].status
  <2>1. resolving[a].status # "NONE" => judging'[a].status \in BadVerdicts
    BY <1>1, BadVerdictStays DEF ActedOn
  <2>2. QED BY <1>1, <1>2, <2>1, RecoveryStays, EndsStay DEF ActedOn
<1>3. ASSUME NEW w \in Worker, pass[w].on = a, pass[w].at \in ResolvingPhases,
             resolving'[a].status # "NONE",
             resolving'[a].status = "RECOVERY_ADMITTED" =>
               pass[w].at \in {"RECONCILE_RECOVERY", "ADMITTED"},
             resolving'[a].status = "OBSOLETE" => pass[w].at = "OBSOLETE",
             resolving'[a].status = "INITIAL_FAILURE_SETTLED" =>
               /\ pass[w].at = "SETTLE_EXHAUSTED"
               /\ request' = "FAILED_TERMINAL"
               /\ job' = [state |-> "FAILED_TERMINAL", unit |-> "RELEASED"]
      PROVE  ActedOn(a, resolving'[a].status, judging', attempt', request', job')
  <2>1. ResolvingMemory(pass[w], judging, attempt, request)
    BY DEF ResolvingInv, ResolvingPassesFit
  <2>2. judging'[a].status \in BadVerdicts
    BY <1>3, <2>1, BadVerdictStays DEF ResolvingMemory
  <2>3. pass[w].at \in {"RECONCILE_RECOVERY", "ADMITTED"} => a = "first" /\ Recovered(attempt)
    BY <1>3, <2>1 DEF ResolvingMemory, Decided, Dispositions
  <2>4. pass[w].at = "OBSOLETE" => request # "GENERATING"
    BY <2>1 DEF ResolvingMemory, Decided, Dispositions
  <2>5. pass[w].at = "SETTLE_EXHAUSTED" => a = "recovery"
    BY <1>3, <2>1 DEF ResolvingMemory, Decided, Dispositions
  <2>6. QED BY <1>3, <2>2, <2>3, <2>4, <2>5, RecoveryStays, EndsStay DEF ActedOn
<1>4. QED
  BY <1>2, <1>3, ResolutionSteps DEF ResolutionMoves, At, ResolvingPhases, Dispositions

LEMMA RecoveryStaysReasoned ==
  ASSUME TypeOK, ResolvingInv, Next, Recovered(attempt')
  PROVE  judging'["first"].status \in BadVerdicts
<1>1. "first" \in Attempt /\ "recovery" \in Attempt BY DEF Attempt
<1>2. CASE Recovered(attempt) BY <1>1, <1>2, ActedOnInParts, BadVerdictStays DEF ResolvingInv
<1>3. CASE ~ Recovered(attempt)
  <2>1. RecoveryIsAdmitted
    BY <1>1, <1>3, AttemptSteps DEF AttemptMoves, Recovered
  <2>2. PICK w \in Worker : At(w, "ADMIT") /\ RecoveryEligible(pass[w].on)
    BY <2>1 DEF RecoveryIsAdmitted
  <2>3. pass[w].on = "first"
    BY <2>2 DEF ResolvingInv, ResolvingPassesFit, ResolvingMemory, At
  <2>4. judging["first"].status \in BadVerdicts BY <2>2, <2>3 DEF RecoveryEligible
  <2>5. QED BY <1>1, <2>4, BadVerdictStays
<1>4. QED BY <1>2, <1>3

\* A bad verdict that was resolved had its consequence, whichever worker resolved it
\* and on whatever it had seen: the recovery exists, the failure is settled with the
\* job and the Unit, or the request is over (Transaction H).
THEOREM ResolvedIsActedOn == Spec => []VerdictsAreActedOn
<1>1. Init => ResolvingInv
  <2>1. SUFFICES ASSUME Init PROVE ResolvingInv OBVIOUS
  <2>2. VerdictsAreActedOn
    BY <2>1 DEF Init, VerdictsAreActedOn, HasRecovery, NewAttempt, NoRow, Attempt
  <2>3. ResolvingPassesFit
    BY <2>1 DEF Init, ResolvingPassesFit, ResolvingMemory, Idle, ResolvingPhases, Dispositions
  <2>4. QED BY <2>2, <2>3 DEF ResolvingInv
<1>2. TypeOK /\ ResolvingInv /\ [Next]_vars => ResolvingInv'
  <2>1. SUFFICES ASSUME TypeOK, ResolvingInv, [Next]_vars PROVE ResolvingInv' OBVIOUS
  <2>2. CASE Next
    <3>1. ResolvingPassesFit' BY <2>1, <2>2, ResolvingPassesStayFit DEF ResolvingPassesFit
    <3>2. \A a \in Attempt : ActedOn(a, resolving'[a].status, judging', attempt', request', job')
      BY <2>1, <2>2, ResolutionStaysActedOn
    <3>3. Recovered(attempt') => judging'["first"].status \in BadVerdicts
      BY <2>1, <2>2, RecoveryStaysReasoned
    <3>4. VerdictsAreActedOn'
      BY <3>2, <3>3 DEF VerdictsAreActedOn, ActedOn, Recovered, HasRecovery, Attempt
    <3>5. QED BY <3>1, <3>4 DEF ResolvingInv
  <2>3. CASE UNCHANGED vars
    BY <2>1, <2>3
    DEF vars, clipRows, jobRows, ResolvingInv, VerdictsAreActedOn, HasRecovery, ResolvingPassesFit
  <2>4. QED BY <2>1, <2>2, <2>3
<1>3. ResolvingInv => VerdictsAreActedOn BY DEF ResolvingInv
<1>4. QED BY <1>1, <1>2, <1>3, Typed, PTL DEF Spec

-----------------------------------------------------------------------------
(***************************************************************************)
(* The video: its plan, its objects, its receipts and its check.            *)
(***************************************************************************)

\* One step of the composition's row, with what it recorded.
CompositionMoves ==
  \/ composing'.status = composing.status /\ receipts' = receipts
  \/ /\ composing.status # "OUTPUT_VERIFIED" /\ composing'.status # "OUTPUT_VERIFIED"
     /\ receipts' = receipts
  \/ /\ composing.status # "OUTPUT_VERIFIED" /\ composing'.status = "OUTPUT_VERIFIED"
     /\ \E w \in Worker :
          /\ At(w, "FINALIZE")
          /\ receipts' = [video |-> pass[w].video, master |-> pass[w].master]

\* One step of the check's row: its status stays; or it is claimed or put back; or it
\* takes the verdict a worker brings.
CheckMoves ==
  \/ checking'.status = checking.status
  \/ /\ checking.status \notin Verdicts /\ checking'.status \in {"RUNNING", "PENDING"}
     /\ checking.status = "NONE" => job.state = "DELIVERABLE_VALIDATING"
  \/ /\ checking.status = "RUNNING"
     /\ \E w \in Worker :
          /\ At(w, "CHECKED") /\ pass[w].verdict \in Verdicts
          /\ checking'.status = pass[w].verdict

LEMMA CompositionSteps ==
  ASSUME TypeOK, Next
  PROVE  CompositionMoves
<1>0. composing \in ComposingRows BY DEF TypeOK, VideoTypeOK
<1>1. ASSUME NEW w \in Worker, FinalizeComposition(w) PROVE CompositionMoves
  <2>1. CASE HeldBy(composing, w) /\ job.state = "COMPOSING"
    BY <1>1, <2>1 DEF FinalizeComposition, HeldBy, Settled, CompositionMoves
  <2>2. CASE ~ (HeldBy(composing, w) /\ job.state = "COMPOSING")
    BY <1>1, <2>2 DEF FinalizeComposition, CompositionMoves
  <2>3. QED BY <2>1, <2>2
<1>2. ASSUME NEW w \in Worker, ComposeClaim(w) PROVE CompositionMoves
  BY <1>2 DEF ComposeClaim, Claimable, ClaimedBy, CompositionMoves
<1>3. ASSUME NEW w \in Worker, DeferComposition(w) PROVE CompositionMoves
  BY <1>3 DEF DeferComposition, Written, HeldBy, Released, CompositionMoves
<1>4. ASSUME NEW w \in Worker, BlockComposition(w) PROVE CompositionMoves
  BY <1>4 DEF BlockComposition, HeldBy, Settled, CompositionMoves
<1>5. CASE LeaseExpires
  BY <1>0, <1>5 DEF LeaseExpires, TimedOut, ComposingRows, WorkRow, CompositionMoves
<1>6. CASE UNCHANGED <<composing, receipts>> BY <1>6 DEF CompositionMoves
<1>7. QED
  BY <1>1, <1>2, <1>3, <1>4, <1>5, <1>6, Writers
  DEF VideoRowsWritten, WritesComposing, WritesReceipts

LEMMA CheckSteps ==
  ASSUME TypeOK, Next
  PROVE  CheckMoves
<1>0. checking \in CheckingRows BY DEF TypeOK, VideoTypeOK
<1>1. ASSUME NEW w \in Worker, CheckClaim(w) PROVE CheckMoves
  BY <1>1 DEF CheckClaim, Claimable, ClaimedBy, CheckMoves, Verdicts, BadVerdicts
<1>2. ASSUME NEW w \in Worker, FinalizeValid(w) PROVE CheckMoves
  <2>1. At(w, "CHECKED") /\ pass[w].verdict = "VALID" BY <1>2 DEF FinalizeValid
  <2>2. \/ checking' = checking
        \/ checking.status = "RUNNING" /\ checking'.status = "VALID"
    BY <1>2 DEF FinalizeValid, CheckHeld, HeldBy, Settled
  <2>3. QED BY <2>1, <2>2 DEF CheckMoves, Verdicts
<1>3. ASSUME NEW w \in Worker, FinalizeInvalid(w) PROVE CheckMoves
  <2>1. At(w, "CHECKED") /\ pass[w].verdict \in BadVerdicts BY <1>3 DEF FinalizeInvalid
  <2>2. \/ checking' = checking
        \/ checking.status = "RUNNING" /\ checking'.status = pass[w].verdict
    BY <1>3 DEF FinalizeInvalid, CheckHeld, HeldBy, Settled
  <2>3. QED BY <2>1, <2>2 DEF CheckMoves, Verdicts
<1>4. ASSUME NEW w \in Worker, DeferValidation(w) PROVE CheckMoves
  BY <1>4 DEF DeferValidation, Written, HeldBy, Released, CheckMoves, Verdicts, BadVerdicts
<1>5. CASE LeaseExpires
  BY <1>0, <1>5 DEF LeaseExpires, TimedOut, CheckingRows, WorkRow, CheckMoves
<1>6. CASE UNCHANGED checking BY <1>6 DEF CheckMoves
<1>7. QED
  BY <1>1, <1>2, <1>3, <1>4, <1>5, <1>6, Writers DEF VideoRowsWritten, WritesChecking

\* A job is only ever checked or shown of a composition that is recorded.
LEMMA JobIsComposedFirst ==
  ASSUME TypeOK, Next, job'.state \in {"DELIVERABLE_VALIDATING", "DELIVERABLE_READY"}
  PROVE  \/ job.state \in {"DELIVERABLE_VALIDATING", "DELIVERABLE_READY"}
         \/ composing'.status = "OUTPUT_VERIFIED"
<1>0. job \in JobRows BY DEF TypeOK, JobTypeOK
<1> DEFINE Goal == \/ job.state \in {"DELIVERABLE_VALIDATING", "DELIVERABLE_READY"}
                   \/ composing'.status = "OUTPUT_VERIFIED"
<1>1. ASSUME NEW w \in Worker, SettleExhausted(w) PROVE Goal
  BY <1>1 DEF SettleExhausted, JobFails
<1>2. ASSUME NEW w \in Worker, ComposeClaim(w) PROVE Goal
  BY <1>0, <1>2 DEF ComposeClaim, JobRows
<1>3. ASSUME NEW w \in Worker, FinalizeComposition(w) PROVE Goal
  BY <1>3 DEF FinalizeComposition, Settled
<1>4. ASSUME NEW w \in Worker, BlockComposition(w) \/ FinalizeInvalid(w) PROVE Goal
  BY <1>4 DEF BlockComposition, FinalizeInvalid, JobFails
<1>5. ASSUME NEW w \in Worker, PublishDeliverable(w) PROVE Goal
  BY <1>5 DEF PublishDeliverable, JobFails
<1>6. CASE JobEnds BY <1>6 DEF JobEnds, JobFails
<1>7. CASE PlansClip BY <1>0, <1>7 DEF PlansClip, ClipIsPlanned, JobRows
<1>8. QED
  BY <1>1, <1>2, <1>3, <1>4, <1>5, <1>6, <1>7, Writers DEF JobRowsWritten, WritesJob

\* A plan once frozen stays, and a delivered request has one.
LEMMA PlanStays ==
  ASSUME PlanFits, Next, plan # NoPlan
  PROVE  plan' = plan
<1>1. ~ PlansClip BY DEF PlansClip, ClipIsPlanned, PlanFits
<1>2. QED BY <1>1, Writers DEF JobRowsWritten

LEMMA PlanStaysFit ==
  ASSUME TypeOK, ClipInv, PlanFits, Next
  PROVE  PlanFits'
<1>1. CASE PlansClip
  <2>1. PICK a \in Attempt : ClipIsPlanned(a) BY <1>1 DEF PlansClip
  <2>2. PICK executable \in BOOLEAN :
          plan' = [attempt |-> a, source |-> attempt[a].receipt, executable |-> executable]
    BY <2>1 DEF ClipIsPlanned
  <2>3. request' = "DELIVERED" /\ UNCHANGED <<stored, judging>> /\ judging[a].status = "VALID"
    BY <2>1 DEF ClipIsPlanned, clipRows
  <2>4. attempt[a].receipt = stored[a]
    BY <2>3 DEF ClipInv, ClipsFit, ClipRowFits, VerifiedAs
  <2>5. plan' # NoPlan BY <2>2 DEF NoPlan, Attempt
  <2>6. QED BY <2>2, <2>3, <2>4, <2>5 DEF PlanFits
<1>2. CASE ~ PlansClip
  <2>1. plan' = plan BY <1>2, Writers DEF JobRowsWritten
  <2>2. request # "DELIVERED" <=> request' # "DELIVERED"
    <3>1. ASSUME NEW w \in Worker, SettleExhausted(w)
          PROVE  request # "DELIVERED" <=> request' # "DELIVERED"
      BY <3>1 DEF SettleExhausted
    <3>2. RequestCloses => (request # "DELIVERED" <=> request' # "DELIVERED")
      BY DEF RequestCloses
    <3>3. QED BY <1>2, <3>1, <3>2, Writers DEF JobRowsWritten, WritesRequest
  <2>3. ASSUME plan # NoPlan
        PROVE  /\ stored'[plan.attempt] = stored[plan.attempt]
               /\ judging'[plan.attempt].status = "VALID"
    <3>1. plan.attempt \in Attempt /\ judging[plan.attempt].status = "VALID"
      BY <2>3 DEF PlanFits
    <3>2. stored[plan.attempt] # Nothing
      BY <3>1 DEF ClipInv, ClipsFit, ClipRowFits, VerifiedAs
    <3>3. stored'[plan.attempt] = stored[plan.attempt]
      BY <3>1, <3>2, StoredObjectsStay DEF ObjectsStay, Object
    <3>4. judging'[plan.attempt].status = "VALID"
      BY <3>1, VerdictSteps DEF VerdictMoves, Verdicts
    <3>5. QED BY <3>3, <3>4
  <2>4. QED BY <2>1, <2>2, <2>3 DEF PlanFits
<1>3. QED BY <1>1, <1>2

\* What a pass remembers of the video outlives every step.
LEMMA VideoMemoryStays ==
  ASSUME TypeOK, VideoInv, Next, NEW p \in Pass, VideoMemory(p, stored, plan, composing)
  PROVE  VideoMemory(p, stored', plan', composing')
<1>1. /\ stored["master"] # Nothing => stored'["master"] = stored["master"]
      /\ stored["video"] # Nothing => stored'["video"] = stored["video"]
  BY StoredObjectsStay DEF ObjectsStay, Object
<1>2. stored["video"] # Nothing => stored["master"] # Nothing BY DEF VideoInv, ObjectsFit
<1>3. plan # NoPlan => plan' = plan BY PlanStays DEF VideoInv
<1>4. composing.status = "OUTPUT_VERIFIED" =>
        composing'.status = "OUTPUT_VERIFIED" /\ stored["video"] # Nothing
  BY CompositionSteps DEF CompositionMoves, VideoInv, ReceiptsFit
<1>5. p.at = "STORE_MASTER" => p.at \in Composition BY DEF Composition
<1>6. QED BY <1>1, <1>2, <1>3, <1>4, <1>5 DEF VideoMemory

\* What a worker that goes on then remembers of the video is so.
LEMMA VideoGoesRemembering ==
  ASSUME TypeOK, ClipInv, VideoInv, Next, NEW w \in Worker, VideoGoes(w)
  PROVE  VideoMemory(pass'[w], stored', plan', composing')
<1> DEFINE p == pass[w]
<1>0. VideoMemory(p, stored, plan, composing) BY DEF VideoInv, VideoPassesFit
<1>1. CASE ComposeClaim(w)
  <2>1. plan # NoPlan /\ plan' = plan BY <1>1 DEF ComposeClaim
  <2>2. \/ pass'[w] = [at |-> "PROBE"]
        \/ pass'[w] = [at |-> "BLOCK", code |-> "PLAN_REFUSED"]
    BY <1>1 DEF ComposeClaim, Goes, TypeOK
  <2>3. QED BY <2>1, <2>2 DEF VideoMemory, Composition
<1>2. CASE ProbeVideo(w)
  <2>1. plan # NoPlan BY <1>0, <1>2 DEF ProbeVideo, At, VideoMemory, Composition
  <2>2. UNCHANGED <<stored, plan, composing>> BY <1>2 DEF ProbeVideo, videoRows
  <2>3. \/ pass'[w] = [at |-> "FETCH"]
        \/ pass'[w] = [at |-> "PROBE_MASTER"] /\ stored["video"] # Nothing
    BY <1>2 DEF ProbeVideo, Goes, TypeOK
  <2>4. QED BY <2>1, <2>2, <2>3 DEF VideoMemory, Composition
<1>3. CASE ProbeMaster(w)
  <2>1. plan # NoPlan /\ stored["video"] # Nothing
    BY <1>0, <1>3 DEF ProbeMaster, At, VideoMemory, Composition
  <2>2. UNCHANGED <<stored, plan, composing>> BY <1>3 DEF ProbeMaster, videoRows
  <2>3. \/ pass'[w] = [at |-> "FINALIZE", video |-> stored["video"], master |-> stored["master"]]
        \/ pass'[w] = Idle
    BY <1>3 DEF ProbeMaster, Ends, Goes, TypeOK
  <2>4. QED BY <2>1, <2>2, <2>3 DEF VideoMemory, Composition, Idle
<1>4. CASE FetchMaster(w)
  <2>1. plan # NoPlan BY <1>0, <1>4 DEF FetchMaster, At, VideoMemory, Composition
  <2>2. UNCHANGED <<stored, plan, composing>> BY <1>4 DEF FetchMaster, videoRows
  <2>3. \/ pass'[w] = [at |-> "COMPOSE"]
        \/ /\ pass'[w] = [at |-> "DISCLOSE", copy |-> stored["master"]]
           /\ stored["master"] # Nothing
    BY <1>4 DEF FetchMaster, Goes, TypeOK
  <2>4. QED BY <2>1, <2>2, <2>3 DEF VideoMemory, Composition
<1>5. CASE Compose(w)
  <2>1. plan # NoPlan BY <1>0, <1>5 DEF Compose, At, VideoMemory, Composition
  <2>2. UNCHANGED <<stored, plan, composing>> BY <1>5 DEF Compose, videoRows
  <2>3. CASE pass'[w] = [at |-> "BLOCK", code |-> "SOURCE_INTEGRITY_MISMATCH"]
    BY <2>3 DEF VideoMemory, Composition
  <2>4. ASSUME NEW take \in MasterTake,
               pass'[w] = [at |-> "STORE_MASTER", bytes |-> Bytes(plan.source.take, take)]
        PROVE  VideoMemory(pass'[w], stored', plan', composing')
    BY <2>1, <2>2, <2>4 DEF VideoMemory
  <2>5. \/ pass'[w] = [at |-> "BLOCK", code |-> "SOURCE_INTEGRITY_MISMATCH"]
        \/ \E take \in MasterTake :
             pass'[w] = [at |-> "STORE_MASTER", bytes |-> Bytes(plan.source.take, take)]
    BY <1>5 DEF Compose, composeCleanMaster, Goes, TypeOK
  <2>6. QED BY <2>3, <2>4, <2>5
<1>6. CASE StoreMaster(w)
  <2>1. /\ plan # NoPlan /\ p.at = "STORE_MASTER"
        /\ p.bytes \in {Bytes(plan.source.take, take) : take \in MasterTake}
    BY <1>0, <1>6 DEF StoreMaster, At, VideoMemory, Composition
  <2>2. UNCHANGED <<plan, composing>> BY <1>6 DEF StoreMaster, videoRows
  <2>3. p.bytes # Nothing BY <2>1, MediaAssumption DEF Bytes, Nothing
  <2>4. "master" \in Object BY DEF Object
  <2>5. \/ pass'[w] = [at |-> "BLOCK", code |-> "CLEAN_MASTER_SIZE_LIMIT_EXCEEDED"]
        \/ /\ stored' = stored /\ stored["master"] # Nothing
           /\ pass'[w] = [at |-> "DISCLOSE", copy |-> stored["master"]]
        \/ /\ PutIfAbsent("master", p.bytes)
           /\ pass'[w] = [at |-> "DISCLOSE", copy |-> stored'["master"]]
    BY <1>6 DEF StoreMaster, Goes, TypeOK
  <2>6. PutIfAbsent("master", p.bytes) => stored'["master"] # Nothing
    BY <2>3, <2>4 DEF PutIfAbsent, TypeOK
  <2>7. QED BY <2>1, <2>2, <2>5, <2>6 DEF VideoMemory, Composition
<1>7. CASE Disclose(w)
  <2>1. /\ plan # NoPlan
        /\ p.copy = stored["master"] /\ stored["master"] # Nothing
    BY <1>0, <1>7 DEF Disclose, At, VideoMemory, Composition
  <2>2. UNCHANGED <<stored, plan, composing>> BY <1>7 DEF Disclose, videoRows
  <2>3. CASE pass'[w] = [at |-> "BLOCK", code |-> "CLEAN_MASTER_UNUSABLE"]
    BY <2>3 DEF VideoMemory, Composition
  <2>4. ASSUME NEW take \in VideoTake, p.copy.take \in Sound,
               pass'[w] = [at |-> "STORE_VIDEO", copy |-> p.copy, bytes |-> Bytes(p.copy.take, take)]
        PROVE  VideoMemory(pass'[w], stored', plan', composing')
    BY <2>1, <2>2, <2>4 DEF VideoMemory
  <2>5. \/ pass'[w] = [at |-> "BLOCK", code |-> "CLEAN_MASTER_UNUSABLE"]
        \/ /\ p.copy.take \in Sound
           /\ \E take \in VideoTake :
                pass'[w] = [at |-> "STORE_VIDEO", copy |-> p.copy,
                            bytes |-> Bytes(p.copy.take, take)]
    BY <1>7 DEF Disclose, inspect, Playable, applyDisclosure, Goes, TypeOK
  <2>6. QED BY <2>3, <2>4, <2>5
<1>8. CASE StoreVideo(w)
  <2>1. /\ plan # NoPlan
        /\ p.copy = stored["master"] /\ stored["master"] # Nothing
        /\ p.bytes \in {Bytes(p.copy.take, take) : take \in VideoTake}
    BY <1>0, <1>8 DEF StoreVideo, At, VideoMemory, Composition
  <2>2. UNCHANGED <<plan, composing>> BY <1>8 DEF StoreVideo, videoRows
  <2>3. p.bytes # Nothing BY <2>1, MediaAssumption DEF Bytes, Nothing
  <2>4. "master" \in Object /\ "video" \in Object BY DEF Object
  <2>5. \/ pass'[w] = [at |-> "BLOCK", code |-> "OUTPUT_SIZE_LIMIT_EXCEEDED"]
        \/ /\ PutIfAbsent("video", p.bytes)
           /\ pass'[w] = [at |-> "FINALIZE", video |-> stored'["video"], master |-> p.copy]
    BY <1>8 DEF StoreVideo, Goes, TypeOK
  <2>6. PutIfAbsent("video", p.bytes) =>
          stored'["video"] # Nothing /\ stored'["master"] = stored["master"]
    BY <2>3, <2>4 DEF PutIfAbsent, TypeOK
  <2>7. QED BY <2>1, <2>2, <2>5, <2>6 DEF VideoMemory, Composition
<1>9. CASE CheckClaim(w)
  <2>1. composing.status = "OUTPUT_VERIFIED"
    BY <1>9 DEF CheckClaim, VideoInv, ReceiptsFit
  <2>2. receipts.video = stored["video"] /\ stored["video"] # Nothing
    BY <2>1 DEF VideoInv, ReceiptsFit
  <2>3. UNCHANGED <<stored, plan, composing>> BY <1>9 DEF CheckClaim
  <2>4. pass'[w] = [at |-> "SHOW"] \/ pass'[w] = [at |-> "CHECK", expects |-> receipts.video]
    BY <1>9 DEF CheckClaim, Goes, TypeOK
  <2>5. QED BY <2>1, <2>2, <2>3, <2>4 DEF VideoMemory, Composition
<1>10. CASE Check(w)
  <2>1. /\ composing.status = "OUTPUT_VERIFIED"
        /\ p.expects = stored["video"] /\ stored["video"] # Nothing
    BY <1>0, <1>10 DEF Check, At, VideoMemory
  <2>2. Verdict(stored["video"], p.expects) = Truth(stored["video"])
    BY <2>1 DEF Verdict, Playable, Truth
  <2>3. UNCHANGED <<stored, plan, composing>> BY <1>10 DEF Check, videoRows
  <2>4. PICK verdict \in {"RETRYABLE_FAILURE", Verdict(stored["video"], p.expects)} :
          pass'[w] = [at |-> "CHECKED", verdict |-> verdict]
    BY <1>10 DEF Check, Goes, TypeOK
  <2>5. QED
    BY <2>1, <2>2, <2>3, <2>4 DEF VideoMemory, Composition, Verdicts, BadVerdicts
<1>11. QED
  BY <1>1, <1>2, <1>3, <1>4, <1>5, <1>6, <1>7, <1>8, <1>9, <1>10 DEF VideoGoes

LEMMA VideoPassesStayFit ==
  ASSUME TypeOK, ClipInv, VideoInv, Next
  PROVE  \A v \in Worker : VideoMemory(pass'[v], stored', plan', composing')
<1>1. \A v \in Worker : VideoMemory(pass[v], stored', plan', composing')
  BY VideoMemoryStays DEF VideoInv, VideoPassesFit, TypeOK
<1>2. ASSUME NEW w \in Worker, PassGoes(w), NEW v \in Worker
      PROVE  VideoMemory(pass'[v], stored', plan', composing')
  <2>1. CASE v # w BY <1>1, <1>2, <2>1 DEF PassGoes, OthersStay
  <2>2. CASE v = w /\ pass'[w].at \in VideoPhases
    BY <1>2, <2>2, VideoGoesRemembering DEF PassGoes
  <2>3. CASE v = w /\ pass'[w].at \notin VideoPhases
    BY <2>3 DEF VideoMemory, VideoPhases, Composition
  <2>4. QED BY <2>1, <2>2, <2>3
<1>3. QED BY <1>1, <1>2, Passes

\* A video is only ever stored over a stored Clean Master.
LEMMA ObjectsStayFit ==
  ASSUME TypeOK, VideoInv, Next, stored'["video"] # Nothing
  PROVE  stored'["master"] # Nothing
<1>0. /\ stored["master"] # Nothing => stored'["master"] = stored["master"]
      /\ "master" \in Object /\ "video" \in Object
  BY StoredObjectsStay DEF ObjectsStay, Object
<1>1. CASE stored["video"] # Nothing BY <1>0, <1>1 DEF VideoInv, ObjectsFit
<1>2. CASE stored["video"] = Nothing
  <2>1. ASSUME NEW w \in Worker, Commit(w) PROVE FALSE
    <3>1. pass[w].on \in Attempt BY <2>1, Remembers DEF Commit, At, TypeOK, Transfers
    <3>2. stored'["video"] = stored["video"]
      BY <1>0, <2>1, <3>1 DEF Commit, PutIfAbsent, TypeOK, Attempt
    <3>3. QED BY <1>2, <3>2
  <2>2. ASSUME NEW w \in Worker, StoreMaster(w) PROVE FALSE
    <3>1. stored'["video"] = stored["video"]
      BY <1>0, <2>2 DEF StoreMaster, PutIfAbsent, TypeOK
    <3>2. QED BY <1>2, <3>1
  <2>3. ASSUME NEW w \in Worker, StoreVideo(w) PROVE stored["master"] # Nothing
    BY <2>3 DEF StoreVideo, At, VideoInv, VideoPassesFit, VideoMemory
  <2>4. WritesObjects BY <1>2, Writers DEF ClipRowsWritten
  <2>5. QED BY <1>0, <2>1, <2>2, <2>3, <2>4 DEF WritesObjects
<1>3. QED BY <1>1, <1>2

LEMMA ReceiptsStayFit ==
  ASSUME TypeOK, VideoInv, Next
  PROVE  ReceiptsFit'
<1>1. /\ stored["master"] # Nothing => stored'["master"] = stored["master"]
      /\ stored["video"] # Nothing => stored'["video"] = stored["video"]
      /\ stored["video"] # Nothing => stored["master"] # Nothing
  BY StoredObjectsStay DEF ObjectsStay, Object, VideoInv, ObjectsFit
<1>2. ReceiptsFit BY DEF VideoInv
<1>3. /\ composing'.status = "OUTPUT_VERIFIED" =>
           /\ receipts' = [video |-> stored'["video"], master |-> stored'["master"]]
           /\ stored'["video"] # Nothing
      /\ composing'.status # "OUTPUT_VERIFIED" => receipts' = NoReceipts
      /\ composing.status = "OUTPUT_VERIFIED" => composing'.status = "OUTPUT_VERIFIED"
  <2>1. CASE composing'.status = composing.status /\ receipts' = receipts
    BY <1>1, <1>2, <2>1 DEF ReceiptsFit
  <2>2. CASE /\ composing.status # "OUTPUT_VERIFIED" /\ composing'.status # "OUTPUT_VERIFIED"
             /\ receipts' = receipts
    BY <1>2, <2>2 DEF ReceiptsFit
  <2>3. ASSUME composing.status # "OUTPUT_VERIFIED", composing'.status = "OUTPUT_VERIFIED",
               NEW w \in Worker, At(w, "FINALIZE"),
               receipts' = [video |-> pass[w].video, master |-> pass[w].master]
        PROVE  /\ receipts' = [video |-> stored'["video"], master |-> stored'["master"]]
               /\ stored'["video"] # Nothing
    <3>1. /\ pass[w].video = stored["video"] /\ pass[w].master = stored["master"]
          /\ stored["video"] # Nothing
      BY <2>3 DEF VideoInv, VideoPassesFit, VideoMemory, At
    <3>2. QED BY <1>1, <2>3, <3>1
  <2>4. QED BY <2>1, <2>2, <2>3, CompositionSteps DEF CompositionMoves
<1>4. job'.state \in {"DELIVERABLE_VALIDATING", "DELIVERABLE_READY"} =>
        composing'.status = "OUTPUT_VERIFIED"
  BY <1>2, <1>3, JobIsComposedFirst DEF ReceiptsFit
<1>5. QED BY <1>3, <1>4 DEF ReceiptsFit

LEMMA CheckStaysFit ==
  ASSUME TypeOK, VideoInv, Next
  PROVE  CheckFits'
<1>1. composing.status = "OUTPUT_VERIFIED" =>
        composing'.status = "OUTPUT_VERIFIED" /\ stored'["video"] = stored["video"]
  <2>1. stored["video"] # Nothing => stored'["video"] = stored["video"]
    BY StoredObjectsStay DEF ObjectsStay, Object
  <2>2. QED BY <2>1, CompositionSteps DEF CompositionMoves, VideoInv, ReceiptsFit
<1>2. CheckFits /\ ReceiptsFit BY DEF VideoInv
<1>3. CASE checking'.status = checking.status
  BY <1>1, <1>2, <1>3 DEF CheckFits, JudgedAs, Verdicts, BadVerdicts
<1>4. CASE /\ checking.status \notin Verdicts /\ checking'.status \in {"RUNNING", "PENDING"}
           /\ checking.status = "NONE" => job.state = "DELIVERABLE_VALIDATING"
  BY <1>1, <1>2, <1>4 DEF CheckFits, ReceiptsFit, JudgedAs, Verdicts, BadVerdicts
<1>5. ASSUME checking.status = "RUNNING", NEW w \in Worker, At(w, "CHECKED"),
             pass[w].verdict \in Verdicts, checking'.status = pass[w].verdict
      PROVE  CheckFits'
  <2>1. pass[w].verdict = Truth(stored["video"])
    BY <1>5 DEF VideoInv, VideoPassesFit, VideoMemory, At
  <2>2. QED BY <1>1, <1>2, <1>5, <2>1 DEF CheckFits, JudgedAs
<1>6. QED BY <1>3, <1>4, <1>5, CheckSteps DEF CheckMoves

\* The plan is of the clip that was judged valid, the records of a video and its
\* Clean Master are of the stored objects, and its verdict is of them.
LEMMA VideoInvariant == Spec => []VideoInv
<1>1. Init => VideoInv
  <2>1. SUFFICES ASSUME Init PROVE VideoInv OBVIOUS
  <2>2. PlanFits /\ ObjectsFit /\ ReceiptsFit /\ CheckFits
    BY <2>1 DEF Init, PlanFits, ObjectsFit, ReceiptsFit, CheckFits, JudgedAs, NoRow, Object,
       Verdicts, BadVerdicts
  <2>3. VideoPassesFit BY <2>1 DEF Init, VideoPassesFit, VideoMemory, Idle, Composition
  <2>4. QED BY <2>2, <2>3 DEF VideoInv
<1>2. TypeOK /\ ClipInv /\ VideoInv /\ [Next]_vars => VideoInv'
  <2>1. SUFFICES ASSUME TypeOK, ClipInv, VideoInv, [Next]_vars PROVE VideoInv' OBVIOUS
  <2>2. CASE Next
    <3>1. PlanFits' BY <2>1, <2>2, PlanStaysFit DEF VideoInv
    <3>2. ObjectsFit' BY <2>1, <2>2, ObjectsStayFit DEF ObjectsFit
    <3>3. ReceiptsFit' BY <2>1, <2>2, ReceiptsStayFit
    <3>4. CheckFits' BY <2>1, <2>2, CheckStaysFit
    <3>5. VideoPassesFit' BY <2>1, <2>2, VideoPassesStayFit DEF VideoPassesFit
    <3>6. QED BY <3>1, <3>2, <3>3, <3>4, <3>5 DEF VideoInv
  <2>3. CASE UNCHANGED vars
    BY <2>1, <2>3
    DEF vars, clipRows, jobRows, videoRows, VideoInv, PlanFits, ObjectsFit, ReceiptsFit,
        CheckFits, VideoPassesFit
  <2>4. QED BY <2>1, <2>2, <2>3
<1>3. QED BY <1>1, <1>2, Typed, ClipInvariant, PTL DEF Spec

\* No worker, at any phase of any pass, however old, can meet rows or objects that
\* make its next transaction throw: the receipts of a clip and of a video that were
\* recorded under another pass are the ones it brings, the Clean Master is there under
\* a stored video, what it judges is what was recorded, its verdict is the one already
\* given, and rows and sources still are what the plan froze.
THEOREM NothingEverContradicts == Spec => []NothingContradicts
<1>1. TypeOK /\ ClipInv /\ VideoInv => NothingContradicts
  <2>1. SUFFICES ASSUME TypeOK, ClipInv, VideoInv PROVE NothingContradicts OBVIOUS
  <2>2. ASSUME NEW w \in Worker PROVE ~ ConflictingOutput(pass[w])
    <3>1. SUFFICES ASSUME pass[w].at = "VERIFY",
                          attempt[pass[w].on].state = "OUTPUT_VERIFIED"
                   PROVE  attempt[pass[w].on].receipt = pass[w].receipt
      BY DEF ConflictingOutput
    <3>2. pass[w].on \in Attempt BY <2>1, <2>2, <3>1, Remembers DEF TypeOK, Transfers
    <3>3. attempt[pass[w].on].receipt = stored[pass[w].on]
      BY <2>1, <3>1, <3>2 DEF ClipInv, ClipsFit, ClipRowFits, VerifiedAs
    <3>4. QED BY <2>1, <2>2, <3>1, <3>3 DEF ClipInv, ClipPassesFit, ClipMemory
  <2>3. ASSUME NEW w \in Worker PROVE ~ OutputReceiptConflict(pass[w])
    BY <2>1, <2>3 DEF OutputReceiptConflict, VideoInv, ReceiptsFit, VideoPassesFit, VideoMemory
  <2>4. ASSUME NEW w \in Worker PROVE ~ CleanMasterMissing(pass[w])
    BY <2>1, <2>4 DEF CleanMasterMissing, VideoInv, ObjectsFit, VideoPassesFit, VideoMemory
  <2>5. ASSUME NEW w \in Worker PROVE ~ ValidationReceiptConflict(pass[w])
    BY <2>1, <2>5 DEF ValidationReceiptConflict, VideoInv, ReceiptsFit, VideoPassesFit, VideoMemory
  <2>6. ASSUME NEW w \in Worker PROVE ~ ValidationVerdictConflict(pass[w])
    BY <2>1, <2>6 DEF ValidationVerdictConflict, VideoInv, CheckFits, JudgedAs,
                      VideoPassesFit, VideoMemory
  <2>7. ~ CompositionNotProven
    BY <2>1 DEF CompositionNotProven, VideoInv, ReceiptsFit, ObjectsFit
  <2>8. ~ SourceIntegrityMismatch
    BY <2>1 DEF SourceIntegrityMismatch, VideoInv, PlanFits
  <2>9. ~ PlanSourceDisagreement
    <3>1. SUFFICES ASSUME plan # NoPlan
                   PROVE  /\ attempt[plan.attempt].receipt = plan.source
                          /\ judging[plan.attempt].status = "VALID"
      BY DEF PlanSourceDisagreement
    <3>2. /\ plan.attempt \in Attempt /\ stored[plan.attempt] = plan.source
          /\ judging[plan.attempt].status = "VALID"
      BY <2>1, <3>1 DEF VideoInv, PlanFits
    <3>3. attempt[plan.attempt].receipt = stored[plan.attempt]
      BY <2>1, <3>2 DEF ClipInv, ClipsFit, ClipRowFits, VerifiedAs
    <3>4. QED BY <3>2, <3>3
  <2>10. QED BY <2>2, <2>3, <2>4, <2>5, <2>6, <2>7, <2>8, <2>9 DEF NothingContradicts
<1>2. QED BY <1>1, Typed, ClipInvariant, VideoInvariant, PTL

-----------------------------------------------------------------------------
(***************************************************************************)
(* The workers implement MediaContract.                                     *)
(***************************************************************************)

ReceiptOf ==
  [key \in Object |->
     CASE key = "master" -> receipts.master
       [] key = "video"  -> receipts.video
       [] OTHER          -> attempt[key].receipt]

VerdictOf ==
  [key \in Attempt \cup {"video"} |->
     FinalVerdict(IF key = "video" THEN checking ELSE judging[key])]

Promised ==
  \/ Contract!Store \/ Contract!Record \/ Contract!Judge \/ Contract!Show
  \/ UNCHANGED Contract!promised

\* The contract's names are this module's.
LEMMA ContractNames ==
  /\ Contract!Nothing = Nothing
  /\ Contract!Clip = Attempt
  /\ \A source, take : Contract!Bytes(source, take) = Bytes(source, take)
BY DEF Contract!Nothing, Contract!Clip, Contract!Bytes, Nothing, Attempt, Bytes

\* What the contract sees of each key.
LEMMA ContractViews ==
  /\ DOMAIN ReceiptOf = Object
  /\ \A a \in Attempt : ReceiptOf[a] = attempt[a].receipt
  /\ ReceiptOf["master"] = receipts.master /\ ReceiptOf["video"] = receipts.video
  /\ DOMAIN VerdictOf = Attempt \cup {"video"}
  /\ \A a \in Attempt : VerdictOf[a] = FinalVerdict(judging[a])
  /\ VerdictOf["video"] = FinalVerdict(checking)
BY DEF ReceiptOf, VerdictOf, Object, Attempt

\* A step that shows the contract nothing new.
LEMMA NothingNew ==
  ASSUME UNCHANGED <<stored, receipts, shown>>,
         \A a \in Attempt : attempt'[a].receipt = attempt[a].receipt,
         \A a \in Attempt : FinalVerdict(judging'[a]) = FinalVerdict(judging[a]),
         FinalVerdict(checking') = FinalVerdict(checking)
  PROVE  Promised
<1>1. ReceiptOf' = ReceiptOf BY DEF ReceiptOf, Object
<1>2. VerdictOf' = VerdictOf BY DEF VerdictOf
<1>3. UNCHANGED Contract!promised
  BY <1>1, <1>2 DEF Contract!promised, ReceiptOf, VerdictOf
<1>4. QED BY <1>3 DEF Promised

\* An object stored under a free key is one the contract allows.
LEMMA StoringIsPromised ==
  ASSUME TypeOK, NEW key \in Object, NEW bytes, PutIfAbsent(key, bytes),
         UNCHANGED <<clipRows, videoRows>>,
         stored[key] = Nothing => bytes \in Contract!Makes(key)
  PROVE  Promised
<1>1. UNCHANGED <<attempt, judging, receipts, checking, shown>> BY DEF clipRows, videoRows
<1>2. CASE stored[key] # Nothing
  <2>1. stored' = stored BY <1>2 DEF PutIfAbsent
  <2>2. QED BY <1>1, <2>1, NothingNew
<1>3. CASE stored[key] = Nothing
  <2>1. stored' = [stored EXCEPT ![key] = bytes] BY <1>3 DEF PutIfAbsent
  <2>2. UNCHANGED <<ReceiptOf, VerdictOf, shown>> BY <1>1 DEF ReceiptOf, VerdictOf
  <2>3. DOMAIN stored = Object BY DEF TypeOK
  <2>4. Contract!Store
    BY <1>3, <2>1, <2>2, <2>3, ContractNames DEF Contract!Store, ReceiptOf, VerdictOf
  <2>5. QED BY <2>4 DEF Promised
<1>4. QED BY <1>2, <1>3

\* A receipt recorded is of the objects as they are stored, once.
LEMMA RecordingIsPromised ==
  ASSUME NEW keys \in {{a} : a \in Attempt} \cup {{"master", "video"}},
         \A key \in keys : ReceiptOf[key] = Nothing /\ stored[key] # Nothing,
         ReceiptOf' = [key \in Object |-> IF key \in keys THEN stored[key] ELSE ReceiptOf[key]],
         UNCHANGED <<stored, VerdictOf, shown>>
  PROVE  Promised
<1>1. keys \in {{c} : c \in Contract!Clip} \cup {{"master", "video"}} BY ContractNames
<1>2. Contract!Record
  BY <1>1, ContractNames, ContractViews DEF Contract!Record, ReceiptOf, VerdictOf
<1>3. QED BY <1>2 DEF Promised

\* A verdict is given once, of the receipt.
LEMMA JudgingIsPromised ==
  ASSUME NEW key \in Attempt \cup {"video"},
         VerdictOf[key] = "NONE", ReceiptOf[key] # Nothing,
         VerdictOf' = [VerdictOf EXCEPT ![key] = Truth(ReceiptOf[key])],
         UNCHANGED <<stored, ReceiptOf, shown>>
  PROVE  Promised
<1>1. Contract!Judge
  BY ContractNames, ContractViews DEF Contract!Judge, ReceiptOf, VerdictOf, Truth
<1>2. QED BY <1>1 DEF Promised

\* What the contract lets be made under each kind of key.
LEMMA MakesOfClip ==
  ASSUME NEW a \in Attempt, NEW take \in ClipTake
  PROVE  Bytes("provider", take) \in Contract!Makes(a)
<1>1. a \in Contract!Clip /\ a # "master" /\ a # "video" BY ContractNames DEF Attempt
<1>2. Contract!Makes(a) = {Contract!Bytes("provider", t) : t \in ClipTake}
  BY <1>1 DEF Contract!Makes
<1>3. Contract!Bytes("provider", take) \in Contract!Makes(a) BY <1>2
<1>4. QED BY <1>3, ContractNames

LEMMA MakesOfMaster ==
  ASSUME NEW a \in Attempt, NEW take \in MasterTake, take \notin Huge, VerdictOf[a] = "VALID"
  PROVE  Bytes(ReceiptOf[a].take, take) \in Contract!Makes("master")
<1>1. a \in Contract!Clip /\ "master" \notin Contract!Clip BY ContractNames DEF Attempt
<1>2. Contract!Makes("master") =
        {Contract!Bytes(ReceiptOf[c].take, t) :
           c \in {d \in Contract!Clip : VerdictOf[d] = "VALID"}, t \in MasterTake \ Huge}
  BY <1>1 DEF Contract!Makes, ReceiptOf, VerdictOf
<1>3. Contract!Bytes(ReceiptOf[a].take, take) \in Contract!Makes("master") BY <1>1, <1>2
<1>4. QED BY <1>3, ContractNames

LEMMA MakesOfVideo ==
  ASSUME NEW take \in VideoTake, take \notin Huge, stored["master"].take \in Sound
  PROVE  Bytes(stored["master"].take, take) \in Contract!Makes("video")
<1>1. "video" \notin Contract!Clip BY ContractNames DEF Attempt
<1>2. Contract!Makes("video") =
        {Contract!Bytes(stored["master"].take, t) :
           t \in {u \in VideoTake \ Huge : stored["master"].take \in Sound}}
  BY <1>1 DEF Contract!Makes
<1>3. Contract!Bytes(stored["master"].take, take) \in Contract!Makes("video") BY <1>2
<1>4. QED BY <1>3, ContractNames

\* What is stored is what the contract lets be made: a clip as a provider sent it, a
\* Clean Master of a clip judged valid, a video of the stored Clean Master.
LEMMA StoresArePromised ==
  ASSUME TypeOK, ClipInv, VideoInv, NEW w \in Worker
  PROVE  /\ Commit(w) => Promised
         /\ StoreMaster(w) => Promised
         /\ StoreVideo(w) => Promised
<1> DEFINE p == pass[w]
<1>1. ASSUME Commit(w) PROVE Promised
  <2>1. p.on \in Attempt BY <1>1, Remembers DEF Commit, At, TypeOK, Transfers
  <2>2. p.bytes \in ClipBytes
    BY <1>1 DEF Commit, At, ClipInv, ClipPassesFit, ClipMemory
  <2>3. p.bytes \in Contract!Makes(p.on)
    <3>1. PICK take \in ClipTake : p.bytes = Bytes("provider", take) BY <2>2 DEF ClipBytes
    <3>2. QED BY <2>1, <3>1, MakesOfClip
  <2>4. p.on \in Object BY <2>1 DEF Object
  <2>5. PutIfAbsent(p.on, p.bytes) /\ UNCHANGED <<clipRows, videoRows>> BY <1>1 DEF Commit
  <2>6. QED BY <2>3, <2>4, <2>5, StoringIsPromised
<1>2. ASSUME StoreMaster(w) PROVE Promised
  <2>1. /\ plan # NoPlan
        /\ p.bytes \in {Bytes(plan.source.take, take) : take \in MasterTake}
    BY <1>2 DEF StoreMaster, At, VideoInv, VideoPassesFit, VideoMemory, Composition
  <2>2. UNCHANGED <<clipRows, videoRows>> BY <1>2 DEF StoreMaster
  <2>3. CASE stored' = stored
    <3>1. UNCHANGED <<stored, attempt, judging, receipts, checking, shown>>
      BY <2>2, <2>3 DEF clipRows, videoRows
    <3>2. QED BY <3>1, NothingNew
  <2>4. CASE stored' # stored
    <3>1. p.bytes.take \notin Huge /\ PutIfAbsent("master", p.bytes)
      BY <1>2, <2>4 DEF StoreMaster
    <3>2. PICK take \in MasterTake : p.bytes = Bytes(plan.source.take, take) BY <2>1
    <3>3. take \notin Huge BY <3>1, <3>2 DEF Bytes
    <3>4. /\ plan.attempt \in Attempt /\ judging[plan.attempt].status = "VALID"
          /\ stored[plan.attempt] = plan.source
      BY <2>1 DEF VideoInv, PlanFits
    <3>5. attempt[plan.attempt].receipt = plan.source
      BY <3>4 DEF ClipInv, ClipsFit, ClipRowFits, VerifiedAs
    <3>6. ReceiptOf[plan.attempt] = plan.source /\ VerdictOf[plan.attempt] = "VALID"
      BY <3>4, <3>5, ContractViews DEF FinalVerdict, Verdicts
    <3>7. p.bytes \in Contract!Makes("master")
      BY <3>2, <3>3, <3>4, <3>6, MakesOfMaster
    <3>8. "master" \in Object BY DEF Object
    <3>9. QED BY <2>2, <3>1, <3>7, <3>8, StoringIsPromised
  <2>5. QED BY <2>3, <2>4
<1>3. ASSUME StoreVideo(w) PROVE Promised
  <2>1. /\ p.copy = stored["master"] /\ p.copy.take \in Sound
        /\ p.bytes \in {Bytes(p.copy.take, take) : take \in VideoTake}
    BY <1>3 DEF StoreVideo, At, VideoInv, VideoPassesFit, VideoMemory
  <2>2. UNCHANGED <<clipRows, videoRows>> BY <1>3 DEF StoreVideo, jobRows
  <2>3. CASE stored' = stored
    <3>1. UNCHANGED <<stored, attempt, judging, receipts, checking, shown>>
      BY <2>2, <2>3 DEF clipRows, videoRows
    <3>2. QED BY <3>1, NothingNew
  <2>4. CASE stored' # stored
    <3>1. p.bytes.take \notin Huge /\ PutIfAbsent("video", p.bytes)
      BY <1>3, <2>4 DEF StoreVideo
    <3>2. PICK take \in VideoTake : p.bytes = Bytes(p.copy.take, take) BY <2>1
    <3>3. take \notin Huge BY <3>1, <3>2 DEF Bytes
    <3>4. p.bytes \in Contract!Makes("video") BY <2>1, <3>2, <3>3, MakesOfVideo
    <3>5. "video" \in Object BY DEF Object
    <3>6. QED BY <2>2, <3>1, <3>4, <3>5, StoringIsPromised
  <2>5. QED BY <2>3, <2>4
<1>4. QED BY <1>1, <1>2, <1>3

\* The steps of an attempt: only the verification shows the contract a receipt.
LEMMA AttemptsArePromised ==
  ASSUME TypeOK, ClipInv
  PROVE  /\ \A w \in Worker : Complete(w) \/ Begin(w) \/ AdmitRecovery(w) \/ Verify(w) => Promised
         /\ RecoverySubmitted => Promised
         /\ RequestCloses => Promised
<1>0. /\ attempt \in [Attempt -> AttemptRows]
      /\ \A a \in Attempt : attempt[a].state # "OUTPUT_VERIFIED" => attempt[a].receipt = Nothing
  BY DEF TypeOK, ClipTypeOK, ClipInv, ClipsFit, ClipRowFits, VerifiedAs
<1> DEFINE SameReceipts == \A a \in Attempt : attempt'[a].receipt = attempt[a].receipt
<1>1. ASSUME NEW w \in Worker, Complete(w) PROVE Promised
  <2>1. SameReceipts BY <1>0, <1>1 DEF Complete, AttemptRows
  <2>2. UNCHANGED <<stored, judging, receipts, checking, shown>> BY <1>1 DEF Complete, videoRows
  <2>3. QED BY <2>1, <2>2, NothingNew
<1>2. ASSUME NEW w \in Worker, Begin(w) PROVE Promised
  <2>1. SameReceipts BY <1>0, <1>2 DEF Begin, AttemptRows
  <2>2. UNCHANGED <<stored, judging, receipts, checking, shown>> BY <1>2 DEF Begin, videoRows
  <2>3. QED BY <2>1, <2>2, NothingNew
<1>3. ASSUME NEW w \in Worker, AdmitRecovery(w) PROVE Promised
  <2>1. SameReceipts
    <3>1. CASE attempt' = attempt BY <3>1
    <3>2. CASE attempt' # attempt
      <4>1. attempt' = [attempt EXCEPT !["recovery"] = NewAttempt("QUEUED")]
        BY <1>3, <3>2 DEF AdmitRecovery
      <4>2. attempt["recovery"].state = "NONE"
        BY <1>3, <3>2 DEF AdmitRecovery, RecoveryEligible, HasRecovery
      <4>3. QED BY <1>0, <4>1, <4>2 DEF NewAttempt
    <3>3. QED BY <3>1, <3>2
  <2>2. UNCHANGED <<stored, judging, receipts, checking, shown>>
    BY <1>3 DEF AdmitRecovery, videoRows
  <2>3. QED BY <2>1, <2>2, NothingNew
<1>4. ASSUME RecoverySubmitted PROVE Promised
  <2>1. SameReceipts BY <1>0, <1>4 DEF RecoverySubmitted, AttemptRows
  <2>2. UNCHANGED <<stored, judging, receipts, checking, shown>>
    BY <1>4 DEF RecoverySubmitted, videoRows
  <2>3. QED BY <2>1, <2>2, NothingNew
<1>5. ASSUME RequestCloses PROVE Promised
  <2>1. SameReceipts BY <1>0, <1>5 DEF RequestCloses, NewAttempt
  <2>2. UNCHANGED <<stored, judging, receipts, checking, shown>>
    BY <1>5 DEF RequestCloses, videoRows
  <2>3. QED BY <2>1, <2>2, NothingNew
<1>6. ASSUME NEW w \in Worker, Verify(w) PROVE Promised
  <2> DEFINE a == pass[w].on
  <2>0. UNCHANGED <<stored, judging, receipts, checking, shown>> BY <1>6 DEF Verify, videoRows
  <2>1. CASE attempt' = attempt BY <2>0, <2>1, NothingNew
  <2>2. CASE attempt' # attempt
    <3>1. /\ attempt[a].state = "OUTPUT_INGESTING"
          /\ attempt' = [attempt EXCEPT ![a] =
                           [state |-> "OUTPUT_VERIFIED", receipt |-> pass[w].receipt]]
      BY <1>6, <2>2 DEF Verify
    <3>2. a \in Attempt BY <1>6, Remembers DEF Verify, At, TypeOK, Transfers
    <3>3. pass[w].receipt = stored[a] /\ stored[a] # Nothing
      BY <1>6 DEF Verify, At, ClipInv, ClipPassesFit, ClipMemory
    <3>4. ReceiptOf[a] = Nothing BY <1>0, <3>1, <3>2, ContractViews
    <3>5. /\ attempt'[a].receipt = stored[a]
          /\ \A b \in Attempt : b # a => attempt'[b] = attempt[b]
      BY <1>0, <3>1, <3>2, <3>3
    <3>6. \A key \in Object :
            ReceiptOf'[key] = IF key \in {a} THEN stored[key] ELSE ReceiptOf[key]
      BY <2>0, <3>2, <3>5 DEF ReceiptOf, Object, Attempt
    <3>7. ReceiptOf' = [key \in Object |-> IF key \in {a} THEN stored[key] ELSE ReceiptOf[key]]
      BY <3>6 DEF ReceiptOf
    <3>8. UNCHANGED <<stored, VerdictOf, shown>> BY <2>0 DEF VerdictOf
    <3>9. {a} \in {{b} : b \in Attempt} BY <3>2
    <3>10. QED BY <3>3, <3>4, <3>7, <3>8, <3>9, RecordingIsPromised
  <2>3. QED BY <2>1, <2>2
<1>7. QED BY <1>1, <1>2, <1>3, <1>4, <1>5, <1>6

\* The steps of a clip's verdict: a claim and a lease that runs out show nothing.
LEMMA VerdictsArePromised ==
  ASSUME TypeOK, ClipInv, NEW w \in Worker
  PROVE  /\ \A a \in Attempt : JudgeClaim(w, a) => Promised
         /\ JudgeWrite(w) => Promised
<1>0. judging \in [Attempt -> JudgingRows] BY DEF TypeOK, ClipTypeOK
<1>1. ASSUME NEW a \in Attempt, JudgeClaim(w, a) PROVE Promised
  <2>1. \A b \in Attempt : FinalVerdict(judging'[b]) = FinalVerdict(judging[b])
    BY <1>0, <1>1
    DEF JudgeClaim, FinalVerdict, Claimable, ClaimedBy, Verdicts, BadVerdicts
  <2>2. UNCHANGED <<stored, attempt, receipts, checking, shown>> BY <1>1 DEF JudgeClaim, videoRows
  <2>3. QED BY <2>1, <2>2, NothingNew
<1>2. ASSUME JudgeWrite(w) PROVE Promised
  <2> DEFINE p == pass[w]
             a == p.on
  <2>0. UNCHANGED <<stored, attempt, receipts, checking, shown>> BY <1>2 DEF JudgeWrite, videoRows
  <2>1. a \in Attempt BY <1>2, Remembers DEF JudgeWrite, At, TypeOK, Judgements
  <2>2. /\ \A b \in Attempt : b # a => judging'[b] = judging[b]
        /\ judging'[a] = Written(judging[a], w, IF p.verdict \in Verdicts
                                                THEN Settled(p.verdict) ELSE Released)
    BY <1>0, <1>2, <2>1 DEF JudgeWrite
  <2>3. CASE HeldBy(judging[a], w) /\ p.verdict \in Verdicts
    <3>1. p.verdict = Truth(stored[a]) /\ attempt[a].state = "OUTPUT_VERIFIED"
      BY <1>2, <2>3 DEF JudgeWrite, At, ClipInv, ClipPassesFit, ClipMemory
    <3>2. attempt[a].receipt = stored[a] /\ stored[a] # Nothing
      BY <2>1, <3>1 DEF ClipInv, ClipsFit, ClipRowFits, VerifiedAs
    <3>3. FinalVerdict(judging[a]) = "NONE" /\ FinalVerdict(judging'[a]) = Truth(stored[a])
      BY <2>2, <2>3, <3>1
      DEF HeldBy, Written, Settled, FinalVerdict, Verdicts, BadVerdicts
    <3>4. VerdictOf[a] = "NONE" /\ ReceiptOf[a] = stored[a] BY <2>1, <3>2, <3>3, ContractViews
    <3>5. \A key \in Attempt \cup {"video"} :
            VerdictOf'[key] = IF key = a THEN Truth(stored[a]) ELSE VerdictOf[key]
      BY <2>0, <2>1, <2>2, <3>3 DEF VerdictOf, Attempt
    <3>6. VerdictOf' = [VerdictOf EXCEPT ![a] = Truth(ReceiptOf[a])]
      BY <2>1, <3>4, <3>5 DEF VerdictOf
    <3>7. UNCHANGED <<stored, ReceiptOf, shown>> BY <2>0 DEF ReceiptOf
    <3>8. QED BY <2>1, <3>2, <3>4, <3>6, <3>7, JudgingIsPromised
  <2>4. CASE ~ (HeldBy(judging[a], w) /\ p.verdict \in Verdicts)
    <3>1. FinalVerdict(judging'[a]) = FinalVerdict(judging[a])
      BY <2>2, <2>4 DEF HeldBy, Written, Released, FinalVerdict, Verdicts, BadVerdicts
    <3>2. QED BY <2>0, <2>2, <3>1, NothingNew
  <2>5. QED BY <2>3, <2>4
<1>3. QED BY <1>1, <1>2

\* The receipts of a video and its Clean Master are recorded together, once.
LEMMA CompositionIsPromised ==
  ASSUME TypeOK, VideoInv, NEW w \in Worker
  PROVE  /\ ComposeClaim(w) => Promised
         /\ DeferComposition(w) => Promised
         /\ BlockComposition(w) => Promised
         /\ FinalizeComposition(w) => Promised
<1>1. ComposeClaim(w) \/ DeferComposition(w) \/ BlockComposition(w) =>
        UNCHANGED <<stored, attempt, judging, receipts, checking, shown>>
  BY DEF ComposeClaim, DeferComposition, BlockComposition, clipRows
<1>2. ASSUME FinalizeComposition(w) PROVE Promised
  <2> DEFINE p    == pass[w]
             keys == {"master", "video"}
  <2>0. UNCHANGED <<stored, attempt, judging, checking, shown>>
    BY <1>2 DEF FinalizeComposition, clipRows
  <2>1. CASE receipts' = receipts BY <2>0, <2>1, NothingNew
  <2>2. CASE receipts' # receipts
    <3>1. HeldBy(composing, w) /\ receipts' = [video |-> p.video, master |-> p.master]
      BY <1>2, <2>2 DEF FinalizeComposition
    <3>2. /\ p.video = stored["video"] /\ p.master = stored["master"]
          /\ stored["video"] # Nothing /\ stored["master"] # Nothing
      BY <1>2 DEF FinalizeComposition, At, VideoInv, VideoPassesFit, VideoMemory, ObjectsFit
    <3>3. receipts = NoReceipts BY <3>1 DEF HeldBy, VideoInv, ReceiptsFit
    <3>4. ReceiptOf["master"] = Nothing /\ ReceiptOf["video"] = Nothing
      BY <3>3, ContractViews DEF NoReceipts
    <3>5. receipts'.video = stored["video"] /\ receipts'.master = stored["master"]
      BY <3>1, <3>2
    <3>6. \A key \in Object :
            ReceiptOf'[key] = IF key \in keys THEN stored[key] ELSE ReceiptOf[key]
      BY <2>0, <3>5 DEF ReceiptOf, Object, Attempt
    <3>7. ReceiptOf' = [key \in Object |-> IF key \in keys THEN stored[key] ELSE ReceiptOf[key]]
      BY <3>6 DEF ReceiptOf
    <3>8. UNCHANGED <<stored, VerdictOf, shown>> BY <2>0 DEF VerdictOf
    <3>9. \A key \in keys : ReceiptOf[key] = Nothing /\ stored[key] # Nothing BY <3>2, <3>4
    <3>10. keys \in {{a} : a \in Attempt} \cup {{"master", "video"}} OBVIOUS
    <3> HIDE DEF keys
    <3>11. QED BY <3>7, <3>8, <3>9, <3>10, RecordingIsPromised
  <2>3. QED BY <2>1, <2>2
<1>3. QED BY <1>1, <1>2, NothingNew

\* A held check of a video that gives a verdict gives the true one, once.
LEMMA CheckIsTrue ==
  ASSUME VideoInv, NEW w \in Worker, At(w, "CHECKED"), pass[w].verdict \in Verdicts,
         HeldBy(checking, w), checking' = Settled(pass[w].verdict),
         UNCHANGED <<stored, attempt, judging, receipts, shown>>
  PROVE  Promised
<1>1. /\ composing.status = "OUTPUT_VERIFIED"
      /\ pass[w].verdict = Truth(stored["video"])
  BY DEF At, VideoInv, VideoPassesFit, VideoMemory
<1>2. receipts.video = stored["video"] /\ stored["video"] # Nothing
  BY <1>1 DEF VideoInv, ReceiptsFit
<1>3. FinalVerdict(checking) = "NONE" /\ FinalVerdict(checking') = Truth(stored["video"])
  BY <1>1 DEF HeldBy, Settled, FinalVerdict, Verdicts, BadVerdicts
<1>4. VerdictOf["video"] = "NONE" /\ ReceiptOf["video"] = stored["video"]
  BY <1>2, <1>3, ContractViews
<1>5. \A key \in Attempt \cup {"video"} :
        VerdictOf'[key] = IF key = "video" THEN Truth(stored["video"]) ELSE VerdictOf[key]
  BY <1>3 DEF VerdictOf, Attempt
<1>6. VerdictOf' = [VerdictOf EXCEPT !["video"] = Truth(ReceiptOf["video"])]
  BY <1>4, <1>5 DEF VerdictOf
<1>7. UNCHANGED <<stored, ReceiptOf, shown>> BY DEF ReceiptOf
<1>8. QED BY <1>2, <1>4, <1>6, <1>7, JudgingIsPromised

LEMMA CheckingIsPromised ==
  ASSUME TypeOK, VideoInv, NEW w \in Worker
  PROVE  /\ CheckClaim(w) => Promised
         /\ FinalizeValid(w) => Promised
         /\ FinalizeInvalid(w) => Promised
         /\ DeferValidation(w) => Promised
         /\ PublishDeliverable(w) => Promised
<1>1. ASSUME CheckClaim(w) \/ DeferValidation(w) PROVE Promised
  <2>1. UNCHANGED <<stored, attempt, judging, receipts, shown>>
    BY <1>1 DEF CheckClaim, DeferValidation, clipRows
  <2>2. FinalVerdict(checking') = FinalVerdict(checking)
    BY <1>1 DEF CheckClaim, DeferValidation, Claimable, ClaimedBy, Written, HeldBy, Released,
       FinalVerdict, Verdicts, BadVerdicts
  <2>3. QED BY <2>1, <2>2, NothingNew
<1>2. ASSUME FinalizeValid(w) PROVE Promised
  <2>1. UNCHANGED <<stored, attempt, judging, receipts, shown>>
    BY <1>2 DEF FinalizeValid, clipRows
  <2>2. CASE CheckHeld(w)
    BY <1>2, <2>1, <2>2, CheckIsTrue DEF FinalizeValid, CheckHeld, Verdicts
  <2>3. CASE ~ CheckHeld(w) BY <1>2, <2>1, <2>3, NothingNew DEF FinalizeValid
  <2>4. QED BY <2>2, <2>3
<1>3. ASSUME FinalizeInvalid(w) PROVE Promised
  <2>1. UNCHANGED <<stored, attempt, judging, receipts, shown>>
    BY <1>3 DEF FinalizeInvalid, clipRows
  <2>2. CASE CheckHeld(w)
    BY <1>3, <2>1, <2>2, CheckIsTrue DEF FinalizeInvalid, CheckHeld, Verdicts
  <2>3. CASE ~ CheckHeld(w) BY <1>3, <2>1, <2>3, NothingNew DEF FinalizeInvalid
  <2>4. QED BY <2>2, <2>3
<1>4. ASSUME PublishDeliverable(w) PROVE Promised
  <2>1. UNCHANGED <<stored, attempt, judging, receipts, checking>>
    BY <1>4 DEF PublishDeliverable, clipRows
  <2>2. CASE shown' = shown BY <2>1, <2>2, NothingNew
  <2>3. CASE shown' # shown
    <3>1. checking.status = "VALID" /\ shown = Nothing /\ shown' = receipts.video
      BY <1>4, <2>3 DEF PublishDeliverable
    <3>2. VerdictOf["video"] = "VALID" /\ ReceiptOf["video"] = receipts.video
      BY <3>1, ContractViews DEF FinalVerdict, Verdicts
    <3>3. UNCHANGED <<stored, ReceiptOf, VerdictOf>> BY <2>1 DEF ReceiptOf, VerdictOf
    <3>4. Contract!Show
      BY <3>1, <3>2, <3>3, ContractNames DEF Contract!Show, ReceiptOf, VerdictOf
    <3>5. QED BY <3>4 DEF Promised
  <2>4. QED BY <2>2, <2>3
<1>5. QED BY <1>1, <1>2, <1>3, <1>4

\* A step that writes only what the contract does not see.
LEMMA UnseenIsPromised ==
  ASSUME UNCHANGED <<stored, attempt, judging, receipts, checking, shown>>
  PROVE  Promised
BY NothingNew

\* Every step is one of the contract's, or shows it nothing.
LEMMA StepsArePromised ==
  ASSUME TypeOK, ClipInv, VideoInv, [Next]_vars
  PROVE  Promised
<1>1. ASSUME NEW w \in Worker, TakesUp(w) PROVE Promised
  <2>1. ASSUME NEW a \in Attempt, LoadPollingContext(w, a) \/ ResolveLook(w, a) PROVE Promised
    BY <2>1, UnseenIsPromised DEF LoadPollingContext, ResolveLook, clipRows, videoRows
  <2>2. QED
    BY <1>1, <2>1, VerdictsArePromised, CompositionIsPromised, CheckingIsPromised DEF TakesUp
<1>2. ASSUME NEW w \in Worker, WorksOnClip(w) PROVE Promised
  <2>1. CASE Poll(w) \/ Transfer(w) \/ Judge(w) \/ PlanRecovery(w)
    BY <2>1, UnseenIsPromised DEF Poll, Transfer, Judge, PlanRecovery, clipRows, videoRows
  <2>2. CASE ResolveClaim(w) \/ Resolve(w) \/ Release(w) \/ SettleExhausted(w)
    BY <2>2, UnseenIsPromised DEF ResolveClaim, Resolve, Release, SettleExhausted, videoRows
  <2>3. QED
    BY <1>2, <2>1, <2>2, StoresArePromised, AttemptsArePromised, VerdictsArePromised
    DEF WorksOnClip
<1>3. ASSUME NEW w \in Worker, WorksOnVideo(w) PROVE Promised
  <2>1. CASE ProbeVideo(w) \/ ProbeMaster(w) \/ FetchMaster(w) \/ Compose(w) \/ Disclose(w)
             \/ Check(w)
    BY <2>1, UnseenIsPromised
    DEF ProbeVideo, ProbeMaster, FetchMaster, Compose, Disclose, Check, clipRows, videoRows
  <2>2. QED
    BY <1>3, <2>1, StoresArePromised, CompositionIsPromised, CheckingIsPromised DEF WorksOnVideo
<1>4. ASSUME NEW w \in Worker, PassEnds(w) PROVE Promised
  BY <1>4, UnseenIsPromised DEF PassEnds, clipRows, videoRows
<1>5. CASE LeaseExpires
  <2>1. UNCHANGED <<stored, attempt, receipts, shown>> BY <1>5 DEF LeaseExpires
  <2>2. /\ judging \in [Attempt -> JudgingRows] /\ checking \in CheckingRows
        /\ \A a \in Attempt : judging'[a] = judging[a] \/ judging'[a] = TimedOut(judging[a])
        /\ checking' = checking \/ checking' = TimedOut(checking)
    BY <1>5 DEF LeaseExpires, TypeOK, ClipTypeOK, VideoTypeOK
  <2>3. \A a \in Attempt : FinalVerdict(judging'[a]) = FinalVerdict(judging[a])
    BY <2>2 DEF TimedOut, FinalVerdict, JudgingRows, WorkRow
  <2>4. FinalVerdict(checking') = FinalVerdict(checking)
    BY <2>2 DEF TimedOut, FinalVerdict, CheckingRows, WorkRow
  <2>5. QED BY <2>1, <2>3, <2>4, NothingNew
<1>6. CASE JobEnds BY <1>6, UnseenIsPromised DEF JobEnds, clipRows, videoRows
<1>7. CASE PlansClip
  BY <1>7, UnseenIsPromised DEF PlansClip, ClipIsPlanned, clipRows
<1>8. CASE UNCHANGED vars BY <1>8, UnseenIsPromised DEF vars, clipRows, videoRows
<1>9. QED
  BY <1>1, <1>2, <1>3, <1>4, <1>5, <1>6, <1>7, <1>8, AttemptsArePromised
  DEF Next, ElsewhereInTheJob, PlansClip

\* The workers implement MediaContract, for every number of them and whatever comes
\* from a download, an encode or a disclosure: an object is stored once, a receipt is
\* recorded once and of the stored bytes, a verdict is given once and is true, and what
\* is shown was judged valid (Transactions B, H, J1, J2 and G).
THEOREM ContractKept == Spec => MediaKeepsItsContract
<1>1. Init => Contract!ContractInit
  BY ContractNames
  DEF Init, Contract!ContractInit, Object, Attempt, NewAttempt, NoRow, NoReceipts, FinalVerdict,
      Verdicts, BadVerdicts
<1>2. TypeOK /\ ClipInv /\ VideoInv /\ [Next]_vars =>
        [Contract!Store \/ Contract!Record \/ Contract!Judge \/ Contract!Show]_(Contract!promised)
  BY StepsArePromised DEF Promised
<1>3. QED
  BY <1>1, <1>2, Typed, ClipInvariant, VideoInvariant, PTL
  DEF Spec, MediaKeepsItsContract, Contract!ContractSpec
===============================================================================
