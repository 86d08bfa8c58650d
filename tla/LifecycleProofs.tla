--------------------------- MODULE LifecycleProofs ---------------------------
(***************************************************************************)
(* Proofs about the generation order, for any set of scenes and any bounds *)
(* on requests and versions.                                               *)
(***************************************************************************)
EXTENDS LifecycleProperties, FiniteSetTheorems, TLAPS

USE BoundsAssumption DEF BoundsAssumption

\* The vocabularies, as the sets the transactions write into.
LEMMA Vocabularies ==
  /\ {"RESERVED", "GENERATING", "SCENES_READY", "COMPOSITION_PENDING", "COMPOSING",
      "DELIVERABLE_VALIDATING", "DELIVERABLE_READY", "FAILED_TERMINAL"} \subseteq JobStates
  /\ {"RESERVED", "RECONCILIATION_HOLD", "CONSUMED", "RELEASED"} \subseteq ReservationStates
  /\ {"PENDING", "GENERATING", "READY", "REVISING", "FAILED_TERMINAL", "CANCELLED"}
       \subseteq SceneStates
  /\ {"PENDING", "GENERATING", "DELIVERED", "FAILED_TERMINAL", "CANCELLED"}
       \subseteq RequestStates
  /\ {"QUEUED", "SUBMITTING", "PROCESSING", "RECONCILIATION_PENDING", "PROVIDER_SUCCEEDED",
      "OUTPUT_INGESTING", "OUTPUT_VERIFIED", "FAILED_RETRYABLE", "FAILED_TERMINAL",
      "RECONCILIATION_EXHAUSTED", "CANCELLED_PRE_SUBMISSION"} \subseteq AttemptStates
BY DEF JobStates, ReservationStates, SceneStates, RequestStates, AttemptStates,
       JobTransitions, ReservationTransitions, SceneTransitions, RequestTransitions,
       AttemptTransitions

\* The names of requests and attempts stay within their sets.
LEMMA Names ==
  /\ \A r \in Request : SceneOf(r) \in Scene /\ r[2] \in 1..MaxRequests
  /\ \A r \in Request : Primary(r) \in Attempt /\ Recovery(r) \in Attempt
  /\ \A a \in Attempt : RequestOf(a) \in Request
  /\ \A s \in Scene : <<s, 1>> \in Request
BY DEF Request, Attempt, SceneOf, Primary, Recovery, RequestOf

-----------------------------------------------------------------------------
(***************************************************************************)
(* Type correctness.                                                       *)
(***************************************************************************)

\* Failing a first video and rolling back a revision keep the types.
LEMMA SettlementTypes ==
  ASSUME TypeOK, NEW r \in Request,
         FailInitial(r) \/ RollBackRevision(r, "FAILED_TERMINAL")
  PROVE  /\ request' \in [Request -> RequestStates \cup {"ABSENT"}]
         /\ scene' \in [Scene -> SceneStates \cup {"ABSENT"}]
         /\ job' \in JobStates \cup {"ABSENT"}
         /\ reservation' \in ReservationStates \cup {"ABSENT"}
         /\ current' = current /\ deleted' = deleted /\ delivered' = delivered
<1> USE Vocabularies, Names
<1>1. CASE FailInitial(r)
  BY <1>1 DEF FailInitial, TypeOK
<1>2. CASE RollBackRevision(r, "FAILED_TERMINAL")
  BY <1>2 DEF RollBackRevision, TypeOK
<1>3. QED
  BY <1>1, <1>2

\* Every step of the workers on one attempt keeps the types.
LEMMA AttemptStepTypes ==
  ASSUME TypeOK, NEW a \in Attempt, AttemptStep(a)
  PROVE  TypeOK'
<1> USE Vocabularies, Names
<1>1. CASE Arm(a)
  BY <1>1 DEF Arm, AttemptMoves, OnlyAttemptChanges, TypeOK,
              jobVars, sceneVars, versionVars
<1>2. CASE EndQueuedAttempt(a)
  BY <1>2 DEF EndQueuedAttempt, AttemptMoves, OnlyAttemptChanges, TypeOK,
              jobVars, sceneVars, versionVars
<1>3. CASE RecordOutcome(a)
  BY <1>3 DEF RecordOutcome, AttemptMoves, OnlyAttemptChanges, TypeOK,
              jobVars, sceneVars, versionVars
<1>4. CASE EnterUncertainty(a)
  BY <1>4 DEF EnterUncertainty, AttemptMoves, TypeOK, sceneVars, versionVars
<1>5. ASSUME NEW to \in {"PROCESSING", "FAILED_RETRYABLE", "FAILED_TERMINAL",
                          "RECONCILIATION_EXHAUSTED"}, Reconcile(a, to)
      PROVE  TypeOK'
  BY <1>5 DEF Reconcile, ReservationAfter, AttemptMoves, TypeOK, sceneVars, versionVars
<1>6. CASE Resolve(a)
  BY <1>5, <1>6 DEF Resolve
<1>7. CASE Exhaust(a)
  BY <1>5, <1>7 DEF Exhaust
<1>8. CASE Complete(a)
  BY <1>8 DEF Complete, AttemptMoves, OnlyAttemptChanges, TypeOK,
              jobVars, sceneVars, versionVars
<1>9. CASE BeginIngestion(a)
  BY <1>9 DEF BeginIngestion, AttemptMoves, OnlyAttemptChanges, TypeOK,
              jobVars, sceneVars, versionVars
<1>10. CASE VerifyOutput(a)
  BY <1>10 DEF VerifyOutput, AttemptMoves, OnlyAttemptChanges, TypeOK,
               jobVars, sceneVars, versionVars
<1>11. CASE JudgeMedia(a)
  BY <1>11 DEF JudgeMedia, TypeOK, jobVars, sceneVars, versionVars
<1>12. CASE ClaimFailure(a)
  BY <1>12 DEF ClaimFailure, TypeOK, jobVars, sceneVars, versionVars
<1>13. CASE AdmitRecovery(a)
  BY <1>13 DEF AdmitRecovery, OnlyAttemptChanges, TypeOK, jobVars, sceneVars, versionVars
<1>14. CASE ResolveWork(a)
  BY <1>14 DEF ResolveWork, TypeOK, jobVars, sceneVars, versionVars
<1>15. CASE SettleExhausted(a)
  <2>1. /\ FailInitial(RequestOf(a)) \/ RollBackRevision(RequestOf(a), "FAILED_TERMINAL")
        /\ RequestOf(a) \in Request
    BY <1>15 DEF SettleExhausted
  <2>2. /\ work' = [work EXCEPT ![a] = "RESOLVED"]
        /\ UNCHANGED <<attempt, verdict, newest, composition, validation, inputs>>
    BY <1>15 DEF SettleExhausted, versionVars
  <2> QED
    BY <2>1, <2>2, SettlementTypes DEF TypeOK
<1> QED
  BY <1>1, <1>2, <1>3, <1>4, <1>6, <1>7, <1>8, <1>9, <1>10, <1>11, <1>12, <1>13,
     <1>14, <1>15 DEF AttemptStep

\* Every step of the workers on one request keeps the types.
LEMMA RequestStepTypes ==
  ASSUME TypeOK, NEW r \in Request, RequestStep(r)
  PROVE  TypeOK'
<1> USE Vocabularies, Names
<1>1. CASE AdmitRegenerationAttempt(r)
  BY <1>1 DEF AdmitRegenerationAttempt, TypeOK, jobVars, versionVars
<1>2. CASE Deliver(r)
  BY <1>2 DEF Deliver, TypeOK, attemptVars, versionVars
<1>3. CASE SettleAttemptFailure(r)
  <2>1. UNCHANGED <<attempt, verdict, work, newest, composition, validation, inputs>>
    BY <1>3 DEF SettleAttemptFailure, attemptVars, versionVars
  <2>2. FailInitial(r) \/ RollBackRevision(r, "FAILED_TERMINAL")
    BY <1>3 DEF SettleAttemptFailure
  <2> QED
    BY <2>1, <2>2, SettlementTypes DEF TypeOK
<1> QED
  BY <1>1, <1>2, <1>3 DEF RequestStep

\* Every step of the workers on the job and its versions keeps the types.
LEMMA JobStepTypes ==
  ASSUME TypeOK, JobStep
  PROVE  TypeOK'
<1> USE Vocabularies, Names
<1>1. CASE Launch
  BY <1>1 DEF Launch, TypeOK, versionVars
<1>2. CASE EndUnlaunchableJob
  BY <1>2 DEF EndUnlaunchableJob, RestUnchanged, TypeOK, sceneVars, attemptVars, versionVars
<1>3. CASE EndLaunchedJob
  BY <1>3 DEF EndLaunchedJob, RestUnchanged, TypeOK, sceneVars, attemptVars, versionVars
<1>4. ASSUME NEW s \in Scene, CloseFailedScene(s)
      PROVE  TypeOK'
  <2>1. ClosedSceneState(s) \in SceneStates
    BY DEF ClosedSceneState
  <2>2. /\ UNCHANGED <<job, reservation, current, deleted, delivered, verdict, work,
                       newest, composition, validation, inputs>>
        /\ scene' = [scene EXCEPT ![s] = ClosedSceneState(s)]
    BY <1>4 DEF CloseFailedScene, jobVars, versionVars
  <2>3. request' \in [Request -> RequestStates \cup {"ABSENT"}]
    BY <1>4 DEF CloseFailedScene, TypeOK
  <2>4. attempt' \in [Attempt -> AttemptStates \cup {"ABSENT"}]
    <3>1. CASE UNCHANGED attempt
      BY <3>1 DEF TypeOK
    <3>2. CASE attempt' = [a \in Attempt |->
                             IF RequestOf(a) = <<s, 1>> /\ attempt[a] = "QUEUED"
                             THEN "CANCELLED_PRE_SUBMISSION" ELSE attempt[a]]
      BY <3>2 DEF TypeOK
    <3> QED
      BY <1>4, <3>1, <3>2 DEF CloseFailedScene
  <2> QED
    BY <2>1, <2>2, <2>3, <2>4 DEF TypeOK
<1>5. CASE Plan
  <2>1. newest + 1 \in Version /\ newest + 1 \in 0..MaxVersions
    BY <1>5 DEF Plan, TypeOK, Version
  <2> QED
    BY <1>5, <2>1 DEF Plan, TypeOK, sceneVars, attemptVars
<1>6. CASE ClaimComposition
  BY <1>6 DEF ClaimComposition, TypeOK, sceneVars, attemptVars
<1>7. CASE FinishComposition
  BY <1>7 DEF FinishComposition, TypeOK, sceneVars, attemptVars
<1>8. CASE BlockComposition
  BY <1>8 DEF BlockComposition, SettleFailedDeliverable, TypeOK, sceneVars, attemptVars
<1>9. CASE ClaimValidation
  BY <1>9 DEF ClaimValidation, ValidationMoves, TypeOK, jobVars, sceneVars, attemptVars
<1>10. CASE FinalizeValid
  BY <1>10 DEF FinalizeValid, ValidationMoves, TypeOK, jobVars, sceneVars, attemptVars
<1>11. CASE FinalizeInvalid
  BY <1>11 DEF FinalizeInvalid, ValidationMoves, SettleFailedDeliverable, TypeOK,
               sceneVars, attemptVars
<1>12. ASSUME NEW v \in Version, Publish(v)
       PROVE  TypeOK'
  BY <1>12 DEF Publish, SettleFailedDeliverable, RestUnchanged, TypeOK, Version,
               sceneVars, attemptVars, versionVars
<1> QED
  BY <1>1, <1>2, <1>3, <1>4, <1>5, <1>6, <1>7, <1>8, <1>9, <1>10, <1>11, <1>12 DEF JobStep

\* Every step of the customer keeps the types.
LEMMA CustomerTypes ==
  ASSUME TypeOK, Customer
  PROVE  TypeOK'
<1> USE Vocabularies, Names
<1>1. CASE Start
  BY <1>1 DEF Start, TypeOK, attemptVars, versionVars
<1>2. CASE DeleteProperty
  BY <1>2 DEF DeleteProperty, TypeOK, jobVars, sceneVars, attemptVars, versionVars
<1>3. ASSUME NEW r \in Request, AdmitRegeneration(r)
      PROVE  TypeOK'
  BY <1>3 DEF AdmitRegeneration, ReopenedJobState, TypeOK, attemptVars, versionVars
<1>4. ASSUME NEW r \in Request, RollBackPendingRegeneration(r)
      PROVE  TypeOK'
  BY <1>4 DEF RollBackPendingRegeneration, RollBackRevision, TypeOK,
              attemptVars, versionVars
<1> QED
  BY <1>1, <1>2, <1>3, <1>4 DEF Customer

LEMMA StutterTypes ==
  ASSUME TypeOK, UNCHANGED vars
  PROVE  TypeOK'
BY DEF TypeOK, vars, jobVars, sceneVars, attemptVars, versionVars

LEMMA InitTypes == Init => TypeOK
<1> SUFFICES ASSUME Init PROVE TypeOK
  OBVIOUS
<1>1. [s \in Scene |-> 0] \in [Scene -> 0..MaxRequests]
  OBVIOUS
<1>2. inputs \in [Version -> [Scene -> 0..MaxRequests]]
  BY <1>1 DEF Init
<1>3. /\ scene \in [Scene -> SceneStates \cup {"ABSENT"}]
      /\ request \in [Request -> RequestStates \cup {"ABSENT"}]
      /\ attempt \in [Attempt -> AttemptStates \cup {"ABSENT"}]
      /\ verdict \in [Attempt -> {"NONE", "VALID", "INVALID"}]
      /\ work \in [Attempt -> {"NONE", "OPEN", "RESOLVED"}]
  BY DEF Init
<1>4. /\ composition
           \in [Version -> {"ABSENT", "PLANNED", "RUNNING", "OUTPUT_VERIFIED", "BLOCKED"}]
      /\ validation \in [Version -> {"NONE", "RUNNING", "VALID", "INVALID"}]
      /\ current \in 0..MaxVersions /\ newest \in 0..MaxVersions
  BY DEF Init
<1>5. delivered \in [Scene -> 0..MaxRequests]
  BY <1>1 DEF Init
<1>6. /\ job \in JobStates \cup {"ABSENT"}
      /\ reservation \in ReservationStates \cup {"ABSENT"}
      /\ deleted \in BOOLEAN
  BY DEF Init
<1> QED
  BY <1>2, <1>3, <1>4, <1>5, <1>6 DEF TypeOK

\* Whatever the workers, the customer and the provider do, every row holds a
\* state of its own vocabulary.
THEOREM TypeCorrect == Spec => []TypeOK
<1>1. TypeOK /\ [Next]_vars => TypeOK'
  BY AttemptStepTypes, RequestStepTypes, JobStepTypes, CustomerTypes, StutterTypes
  DEF Next
<1> QED
  BY InitTypes, <1>1, PTL DEF Spec
-----------------------------------------------------------------------------
(***************************************************************************)
(* The Unit follows the video.  The invariant speaks of the job row, the   *)
(* reservation and the pointer alone, and is inductive with the types: no  *)
(* transaction needs to know what the attempts are doing to keep it.       *)
(***************************************************************************)

LEMMA SameJobSameUnit ==
  ASSUME UnitFollowsVideo, UNCHANGED jobVars
  PROVE  UnitFollowsVideo'
BY DEF UnitFollowsVideo, AssemblyStates, Held, jobVars

\* A first video's failure gives the Unit back.
LEMMA FailInitialKeepsUnit ==
  ASSUME UnitFollowsVideo, NEW r, FailInitial(r), current = 0
  PROVE  UnitFollowsVideo'
BY DEF FailInitial, UnitFollowsVideo, AssemblyStates, Held

\* A revision's failure touches neither the Unit nor the pointer.
LEMMA RollBackKeepsUnit ==
  ASSUME UnitFollowsVideo, NEW r, NEW to, RollBackRevision(r, to),
         reservation = "CONSUMED", job = "GENERATING"
  PROVE  UnitFollowsVideo'
BY DEF RollBackRevision, UnitFollowsVideo, AssemblyStates, Held

\* A failed composition or validation settles into one of the two.
LEMMA CycleFailureKeepsUnit ==
  ASSUME UnitFollowsVideo, SettleFailedDeliverable, job \in AssemblyStates
  PROVE  UnitFollowsVideo'
BY DEF SettleFailedDeliverable, CycleFunded, UnitFollowsVideo, AssemblyStates, Held

LEMMA AttemptStepKeepsUnit ==
  ASSUME TypeOK, UnitFollowsVideo, NEW a \in Attempt, AttemptStep(a)
  PROVE  UnitFollowsVideo'
<1>1. CASE \/ Arm(a) \/ EndQueuedAttempt(a) \/ RecordOutcome(a) \/ Complete(a)
           \/ BeginIngestion(a) \/ VerifyOutput(a) \/ JudgeMedia(a) \/ ClaimFailure(a)
           \/ AdmitRecovery(a) \/ ResolveWork(a)
  <2>1. UNCHANGED jobVars
    BY <1>1 DEF Arm, EndQueuedAttempt, RecordOutcome, Complete, BeginIngestion,
                VerifyOutput, JudgeMedia, ClaimFailure, AdmitRecovery, ResolveWork,
                OnlyAttemptChanges
  <2> QED
    BY <2>1, SameJobSameUnit
<1>2. CASE EnterUncertainty(a)
  BY <1>2 DEF EnterUncertainty, UnitFollowsVideo, AssemblyStates, Held
<1>3. ASSUME NEW to, Reconcile(a, to)
      PROVE  UnitFollowsVideo'
  <2>1. UNCHANGED <<job, current>> /\ reservation' = ReservationAfter(a, to)
    BY <1>3 DEF Reconcile
  <2>2. CASE reservation # "RECONCILIATION_HOLD"
    BY <2>1, <2>2, SameJobSameUnit DEF ReservationAfter, jobVars
  <2>3. CASE reservation = "RECONCILIATION_HOLD"
    <3>1. reservation' \in {"RECONCILIATION_HOLD", "RESERVED", "RELEASED"}
      BY <2>1, <2>3 DEF ReservationAfter
    <3> QED
      BY <2>1, <2>3, <3>1 DEF UnitFollowsVideo, AssemblyStates, Held
  <2> QED
    BY <2>2, <2>3
<1>4. CASE Resolve(a)
  BY <1>3, <1>4 DEF Resolve
<1>5. CASE Exhaust(a)
  BY <1>3, <1>5 DEF Exhaust
<1>6. CASE SettleExhausted(a)
  <2> DEFINE r == RequestOf(a)
  <2>1. CASE IsInitial(r)
    BY <1>6, <2>1, FailInitialKeepsUnit
    DEF SettleExhausted, ExhaustedShape, InitialShape
  <2>2. CASE ~IsInitial(r)
    BY <1>6, <2>2, RollBackKeepsUnit
    DEF SettleExhausted, ExhaustedShape, ExhaustedDue
  <2> QED
    BY <2>1, <2>2
<1> QED
  BY <1>1, <1>2, <1>4, <1>5, <1>6 DEF AttemptStep

LEMMA RequestStepKeepsUnit ==
  ASSUME TypeOK, UnitFollowsVideo, NEW r \in Request, RequestStep(r)
  PROVE  UnitFollowsVideo'
<1>1. CASE AdmitRegenerationAttempt(r)
  BY <1>1, SameJobSameUnit DEF AdmitRegenerationAttempt
<1>2. CASE Deliver(r)
  BY <1>2 DEF Deliver, DeliveryDue, UnitFollowsVideo, AssemblyStates, Held
<1>3. CASE SettleAttemptFailure(r)
  <2>1. CASE IsInitial(r)
    BY <1>3, <2>1, FailInitialKeepsUnit
    DEF SettleAttemptFailure, FailureShape, InitialShape
  <2>2. CASE ~IsInitial(r)
    BY <1>3, <2>2, RollBackKeepsUnit DEF SettleAttemptFailure, FailureShape, FailureDue
  <2> QED
    BY <2>1, <2>2
<1> QED
  BY <1>1, <1>2, <1>3 DEF RequestStep

LEMMA JobStepKeepsUnit ==
  ASSUME TypeOK, UnitFollowsVideo, JobStep
  PROVE  UnitFollowsVideo'
<1> USE DEF UnitFollowsVideo, AssemblyStates, Held
<1>1. CASE Launch
  BY <1>1 DEF Launch
<1>2. CASE EndUnlaunchableJob
  BY <1>2 DEF EndUnlaunchableJob
<1>3. CASE EndLaunchedJob
  BY <1>3 DEF EndLaunchedJob
<1>4. CASE (\E s \in Scene : CloseFailedScene(s)) \/ ClaimValidation \/ FinalizeValid
  BY <1>4, SameJobSameUnit DEF CloseFailedScene, ClaimValidation, FinalizeValid
<1>5. CASE Plan
  BY <1>5 DEF Plan
<1>6. CASE ClaimComposition
  BY <1>6 DEF ClaimComposition
<1>7. CASE FinishComposition
  BY <1>7 DEF FinishComposition
<1>8. CASE BlockComposition
  BY <1>8, CycleFailureKeepsUnit DEF BlockComposition
<1>9. CASE FinalizeInvalid
  BY <1>9, CycleFailureKeepsUnit DEF FinalizeInvalid, ValidationMoves
<1>10. ASSUME NEW v \in Version, Publish(v)
       PROVE  UnitFollowsVideo'
  <2>1. job = "DELIVERABLE_VALIDATING" /\ v # 0
    BY <1>10 DEF Publish, Publishable, Version
  <2>2. CASE current = 0 /\ deleted
    BY <1>10, <2>1, <2>2, CycleFailureKeepsUnit DEF Publish
  <2>3. CASE ~(current = 0 /\ deleted)
    BY <1>10, <2>1, <2>3 DEF Publish
  <2> QED
    BY <2>2, <2>3
<1> QED
  BY <1>1, <1>2, <1>3, <1>4, <1>5, <1>6, <1>7, <1>8, <1>9, <1>10 DEF JobStep

LEMMA CustomerKeepsUnit ==
  ASSUME TypeOK, UnitFollowsVideo, Customer
  PROVE  UnitFollowsVideo'
<1>1. CASE Start
  BY <1>1 DEF Start, UnitFollowsVideo, AssemblyStates, Held
<1>2. CASE DeleteProperty
  BY <1>2, SameJobSameUnit DEF DeleteProperty
<1>3. ASSUME NEW r \in Request, AdmitRegeneration(r)
      PROVE  UnitFollowsVideo'
  BY <1>3 DEF AdmitRegeneration, RegenerationAllowed, ReopenedJobState,
              UnitFollowsVideo, AssemblyStates, Held
<1>4. ASSUME NEW r \in Request, RollBackPendingRegeneration(r)
      PROVE  UnitFollowsVideo'
  BY <1>4, RollBackKeepsUnit DEF RollBackPendingRegeneration
<1> QED
  BY <1>1, <1>2, <1>3, <1>4 DEF Customer

LEMMA UnitInductive == TypeOK /\ UnitFollowsVideo /\ [Next]_vars => UnitFollowsVideo'
<1>1. ASSUME UnitFollowsVideo, UNCHANGED vars
      PROVE  UnitFollowsVideo'
  BY <1>1, SameJobSameUnit DEF vars
<1> QED
  BY <1>1, AttemptStepKeepsUnit, RequestStepKeepsUnit, JobStepKeepsUnit, CustomerKeepsUnit
  DEF Next

\* The Video Unit is spent exactly while the customer holds a video, held only
\* while a first one is being made, and given back by every job that failed:
\* over the eight transactions that write the reservation, the job and the
\* pointer, in any order.
THEOREM UnitIsHonest == Spec => []UnitFollowsVideo
<1>1. Init => UnitFollowsVideo
  BY DEF Init, UnitFollowsVideo, AssemblyStates, Held
<1> QED
  BY <1>1, UnitInductive, TypeCorrect, PTL DEF Spec
-----------------------------------------------------------------------------
(***************************************************************************)
(* The order implements its contract.  The mapping reads the job row, the  *)
(* reservation and the pointer, so every action is judged by what it does  *)
(* to these three, under UnitFollowsVideo before the step.                 *)
(***************************************************************************)

Promised == [Contract!Next]_(Contract!contractVars)

LEMMA SameJobSamePromise ==
  ASSUME UNCHANGED jobVars
  PROVE  Promised
BY DEF Promised, Contract!contractVars, UnitOfOrder, PhaseOfOrder, jobVars

LEMMA FailInitialGivesUp ==
  ASSUME TypeOK, UnitFollowsVideo, NEW r, FailInitial(r), current = 0, job = "GENERATING"
  PROVE  Promised
<1>1. UnitOfOrder \in {"HELD", "RETURNED"} /\ PhaseOfOrder = "MAKING"
  BY DEF UnitFollowsVideo, UnitOfOrder, PhaseOfOrder
<1>2. UnitOfOrder' = "RETURNED" /\ PhaseOfOrder' = "GONE" /\ current' = current
  BY DEF FailInitial, UnitOfOrder, PhaseOfOrder
<1> QED
  BY <1>1, <1>2 DEF Promised, Contract!Next, Contract!GiveUp

LEMMA RollBackKeepsOld ==
  ASSUME NEW r, NEW to, RollBackRevision(r, to), current # 0, job = "GENERATING"
  PROVE  Promised
<1>1. PhaseOfOrder = "REVISING"
  BY DEF PhaseOfOrder
<1>2. PhaseOfOrder' = "SHOWN" /\ UnitOfOrder' = UnitOfOrder /\ current' = current
  BY DEF RollBackRevision, UnitOfOrder, PhaseOfOrder
<1> QED
  BY <1>1, <1>2 DEF Promised, Contract!Next, Contract!KeepOld

LEMMA CycleFailureIsPromised ==
  ASSUME SettleFailedDeliverable, job \in AssemblyStates
  PROVE  Promised
<1>1. CASE current = 0
  <2>1. UnitOfOrder = "HELD" /\ PhaseOfOrder = "MAKING"
    BY <1>1 DEF SettleFailedDeliverable, CycleFunded, UnitOfOrder, PhaseOfOrder,
                AssemblyStates
  <2>2. UnitOfOrder' = "RETURNED" /\ PhaseOfOrder' = "GONE" /\ current' = current
    BY <1>1 DEF SettleFailedDeliverable, UnitOfOrder, PhaseOfOrder
  <2> QED
    BY <2>1, <2>2 DEF Promised, Contract!Next, Contract!GiveUp
<1>2. CASE current # 0
  <2>1. PhaseOfOrder = "REVISING"
    BY <1>2 DEF PhaseOfOrder, AssemblyStates
  <2>2. PhaseOfOrder' = "SHOWN" /\ UnitOfOrder' = UnitOfOrder /\ current' = current
    BY <1>2 DEF SettleFailedDeliverable, UnitOfOrder, PhaseOfOrder
  <2> QED
    BY <2>1, <2>2 DEF Promised, Contract!Next, Contract!KeepOld
<1> QED
  BY <1>1, <1>2

LEMMA AttemptStepIsPromised ==
  ASSUME TypeOK, UnitFollowsVideo, NEW a \in Attempt, AttemptStep(a)
  PROVE  Promised
<1>1. CASE \/ Arm(a) \/ EndQueuedAttempt(a) \/ RecordOutcome(a) \/ Complete(a)
           \/ BeginIngestion(a) \/ VerifyOutput(a) \/ JudgeMedia(a) \/ ClaimFailure(a)
           \/ AdmitRecovery(a) \/ ResolveWork(a)
  <2>1. UNCHANGED jobVars
    BY <1>1 DEF Arm, EndQueuedAttempt, RecordOutcome, Complete, BeginIngestion,
                VerifyOutput, JudgeMedia, ClaimFailure, AdmitRecovery, ResolveWork,
                OnlyAttemptChanges
  <2> QED
    BY <2>1, SameJobSamePromise
<1>2. CASE EnterUncertainty(a)
  <2>1. UnitOfOrder' = UnitOfOrder /\ PhaseOfOrder' = PhaseOfOrder /\ current' = current
    BY <1>2 DEF EnterUncertainty, UnitOfOrder, PhaseOfOrder
  <2> QED
    BY <2>1 DEF Promised, Contract!contractVars
<1>3. ASSUME NEW to, Reconcile(a, to)
      PROVE  Promised
  <2>1. /\ PhaseOfOrder' = PhaseOfOrder /\ current' = current
        /\ reservation' = ReservationAfter(a, to)
    BY <1>3 DEF Reconcile, PhaseOfOrder
  <2>2. CASE reservation' = reservation
    BY <2>1, <2>2 DEF Promised, Contract!contractVars, UnitOfOrder
  <2>3. CASE reservation = "RECONCILIATION_HOLD" /\ reservation' = "RESERVED"
    BY <2>1, <2>3 DEF Promised, Contract!contractVars, UnitOfOrder
  <2>4. CASE reservation = "RECONCILIATION_HOLD" /\ reservation' = "RELEASED"
    <3>1. PhaseOfOrder = "MAKING"
      BY <2>4 DEF UnitFollowsVideo, Held, AssemblyStates, PhaseOfOrder
    <3>2. UnitOfOrder = "HELD" /\ UnitOfOrder' = "RETURNED"
      BY <2>4 DEF UnitOfOrder
    <3> QED
      BY <2>1, <3>1, <3>2 DEF Promised, Contract!Next, Contract!Return
  <2> QED
    BY <2>1, <2>2, <2>3, <2>4 DEF ReservationAfter
<1>4. CASE Resolve(a)
  BY <1>3, <1>4 DEF Resolve
<1>5. CASE Exhaust(a)
  BY <1>3, <1>5 DEF Exhaust
<1>6. CASE SettleExhausted(a)
  <2> DEFINE r == RequestOf(a)
  <2>1. CASE IsInitial(r)
    BY <1>6, <2>1, FailInitialGivesUp
    DEF SettleExhausted, ExhaustedDue, ExhaustedShape, InitialShape
  <2>2. CASE ~IsInitial(r)
    BY <1>6, <2>2, RollBackKeepsOld
    DEF SettleExhausted, ExhaustedDue, ExhaustedShape, RevisionShape
  <2> QED
    BY <2>1, <2>2
<1> QED
  BY <1>1, <1>2, <1>4, <1>5, <1>6 DEF AttemptStep

LEMMA RequestStepIsPromised ==
  ASSUME TypeOK, UnitFollowsVideo, NEW r \in Request, RequestStep(r)
  PROVE  Promised
<1>1. CASE AdmitRegenerationAttempt(r)
  BY <1>1, SameJobSamePromise DEF AdmitRegenerationAttempt
<1>2. CASE Deliver(r)
  <2>1. UnitOfOrder' = UnitOfOrder /\ PhaseOfOrder' = PhaseOfOrder /\ current' = current
    BY <1>2 DEF Deliver, DeliveryDue, UnitOfOrder, PhaseOfOrder
  <2> QED
    BY <2>1 DEF Promised, Contract!contractVars
<1>3. CASE SettleAttemptFailure(r)
  <2>1. CASE IsInitial(r)
    BY <1>3, <2>1, FailInitialGivesUp
    DEF SettleAttemptFailure, FailureDue, FailureShape, InitialShape
  <2>2. CASE ~IsInitial(r)
    BY <1>3, <2>2, RollBackKeepsOld
    DEF SettleAttemptFailure, FailureDue, FailureShape, RevisionShape
  <2> QED
    BY <2>1, <2>2
<1> QED
  BY <1>1, <1>2, <1>3 DEF RequestStep

LEMMA JobStepIsPromised ==
  ASSUME TypeOK, UnitFollowsVideo, JobStep
  PROVE  Promised
<1>1. CASE Launch \/ Plan \/ ClaimComposition \/ FinishComposition
  <2>1. UnitOfOrder' = UnitOfOrder /\ PhaseOfOrder' = PhaseOfOrder /\ current' = current
    BY <1>1 DEF Launch, Plan, ClaimComposition, FinishComposition, UnitOfOrder, PhaseOfOrder
  <2> QED
    BY <2>1 DEF Promised, Contract!contractVars
<1>2. CASE EndUnlaunchableJob \/ EndLaunchedJob
  <2>1. UnitOfOrder = "HELD" /\ PhaseOfOrder = "MAKING"
    BY <1>2 DEF EndUnlaunchableJob, EndLaunchedJob, UnitFollowsVideo, UnitOfOrder, PhaseOfOrder
  <2>2. UnitOfOrder' = "RETURNED" /\ PhaseOfOrder' = "GONE" /\ current' = current
    BY <1>2 DEF EndUnlaunchableJob, EndLaunchedJob, UnitOfOrder, PhaseOfOrder
  <2> QED
    BY <2>1, <2>2 DEF Promised, Contract!Next, Contract!GiveUp
<1>3. CASE (\E s \in Scene : CloseFailedScene(s)) \/ ClaimValidation \/ FinalizeValid
  BY <1>3, SameJobSamePromise DEF CloseFailedScene, ClaimValidation, FinalizeValid
<1>4. CASE BlockComposition
  BY <1>4, CycleFailureIsPromised DEF BlockComposition, AssemblyStates
<1>5. CASE FinalizeInvalid
  BY <1>5, CycleFailureIsPromised DEF FinalizeInvalid, ValidationMoves, AssemblyStates
<1>6. ASSUME NEW v \in Version, Publish(v)
      PROVE  Promised
  <2>1. job = "DELIVERABLE_VALIDATING" /\ v \in Nat \ {0} /\ v > current /\ CycleFunded
    BY <1>6 DEF Publish, Publishable, Version
  <2>2. CASE current = 0 /\ deleted
    BY <1>6, <2>1, <2>2, CycleFailureIsPromised DEF Publish, AssemblyStates
  <2>3. CASE current = 0 /\ ~deleted
    <3>1. UnitOfOrder = "HELD" /\ PhaseOfOrder = "MAKING"
      BY <2>1, <2>3 DEF CycleFunded, UnitOfOrder, PhaseOfOrder
    <3>2. UnitOfOrder' = "SPENT" /\ PhaseOfOrder' = "SHOWN" /\ current' = v
      BY <1>6, <2>3 DEF Publish, UnitOfOrder, PhaseOfOrder
    <3> QED
      BY <2>1, <3>1, <3>2 DEF Promised, Contract!Next, Contract!Show
  <2>4. CASE current # 0
    <3>1. UnitOfOrder = "SPENT" /\ PhaseOfOrder = "REVISING"
      BY <2>1, <2>4 DEF CycleFunded, UnitOfOrder, PhaseOfOrder
    <3>2. UnitOfOrder' = "SPENT" /\ PhaseOfOrder' = "SHOWN" /\ current' = v
      BY <1>6, <2>4 DEF Publish, UnitOfOrder, PhaseOfOrder
    <3> QED
      BY <2>1, <3>1, <3>2 DEF Promised, Contract!Next, Contract!Improve
  <2> QED
    BY <2>2, <2>3, <2>4
<1> QED
  BY <1>1, <1>2, <1>3, <1>4, <1>5, <1>6 DEF JobStep

LEMMA CustomerIsPromised ==
  ASSUME TypeOK, UnitFollowsVideo, Customer
  PROVE  Promised
<1>1. CASE Start
  <2>1. UnitOfOrder = "NONE" /\ PhaseOfOrder = "NONE" /\ current = 0
    BY <1>1 DEF Start, UnitFollowsVideo, UnitOfOrder, PhaseOfOrder
  <2>2. UnitOfOrder' = "HELD" /\ PhaseOfOrder' = "MAKING" /\ current' = current
    BY <1>1, <2>1 DEF Start, UnitOfOrder, PhaseOfOrder
  <2> QED
    BY <2>1, <2>2 DEF Promised, Contract!Next, Contract!Order
<1>2. CASE DeleteProperty
  BY <1>2, SameJobSamePromise DEF DeleteProperty
<1>3. ASSUME NEW r \in Request, AdmitRegeneration(r)
      PROVE  Promised
  <2>1. PhaseOfOrder = "SHOWN" /\ PhaseOfOrder' = "REVISING"
    BY <1>3 DEF AdmitRegeneration, RegenerationAllowed, ReopenedJobState, PhaseOfOrder
  <2>2. UnitOfOrder' = UnitOfOrder /\ current' = current
    BY <1>3 DEF AdmitRegeneration, UnitOfOrder
  <2> QED
    BY <2>1, <2>2 DEF Promised, Contract!Next, Contract!Revise
<1>4. ASSUME NEW r \in Request, RollBackPendingRegeneration(r)
      PROVE  Promised
  BY <1>4, RollBackKeepsOld DEF RollBackPendingRegeneration, RevisionShape
<1> QED
  BY <1>1, <1>2, <1>3, <1>4 DEF Customer

\* The order keeps its contract: every step of every worker, the customer and
\* the provider is a step of VideoOrderContract or changes nothing in it.
THEOREM ContractKept == Spec => ImplementsContract
<1>1. Init => Contract!Init
  BY DEF Init, Contract!Init, UnitOfOrder, PhaseOfOrder
<1>2. TypeOK /\ UnitFollowsVideo /\ [Next]_vars => Promised
  <2>1. ASSUME UNCHANGED vars PROVE Promised
    BY <2>1, SameJobSamePromise DEF vars
  <2> QED
    BY <2>1, AttemptStepIsPromised, RequestStepIsPromised, JobStepIsPromised,
       CustomerIsPromised DEF Next
<1> QED
  BY <1>1, <1>2, TypeCorrect, UnitIsHonest, PTL
  DEF Spec, ImplementsContract, Contract!Spec, Promised
-----------------------------------------------------------------------------
(***************************************************************************)
(* The customer's video is whole.  AssembledFromDeliveredScenes is not     *)
(* inductive: a publication names its version by a claim made earlier, and *)
(* only the history of the versions says that a version proved valid and   *)
(* newer than the customer's is the newest one.                            *)
(***************************************************************************)

PlanStates == {"COMPOSITION_PENDING", "COMPOSING", "DELIVERABLE_VALIDATING"}

VersionHistory ==
  /\ \A v \in Version : v > newest => validation[v] = "NONE"
  /\ \A v \in Version : validation[v] = "VALID" =>
       /\ composition[v] = "OUTPUT_VERIFIED"
       /\ \/ v <= current
          \/ job = "FAILED_TERMINAL"
          \/ v = newest /\ job = "DELIVERABLE_VALIDATING"
  /\ job \in {"COMPOSITION_PENDING", "COMPOSING"} => validation[newest] = "NONE"

VersionsInv == TypeOK /\ AssembledFromDeliveredScenes /\ VersionHistory

\* While a version is planned, composed or validated it is a version.
LEMMA NewestIsVersion ==
  ASSUME VersionsInv, job \in PlanStates
  PROVE  newest \in Version /\ newest > current
BY DEF VersionsInv, AssembledFromDeliveredScenes, AssemblyStates, PlanStates, TypeOK, Version

\* A step that writes no version and moves no job within its plan.
LEMMA OtherRowsKeepVersions ==
  ASSUME VersionsInv, TypeOK', UNCHANGED <<current, versionVars>>,
         delivered' = delivered \/ job \notin PlanStates,
         job' = job \/ ( /\ job' \notin PlanStates
                         /\ job \notin {"DELIVERABLE_VALIDATING", "FAILED_TERMINAL"} )
  PROVE  VersionsInv'
<1>1. /\ current' = current /\ newest' = newest /\ composition' = composition
      /\ validation' = validation /\ inputs' = inputs
  BY DEF versionVars
<1>2. AssembledFromDeliveredScenes'
  BY <1>1 DEF VersionsInv, AssembledFromDeliveredScenes, AssemblyStates, PlanStates
<1>3. VersionHistory'
  BY <1>1 DEF VersionsInv, VersionHistory, PlanStates
<1> QED
  BY <1>2, <1>3 DEF VersionsInv

\* A cycle that fails drops its own version, never the one the customer holds.
LEMMA DroppedVersion ==
  ASSUME VersionsInv, TypeOK', job \in {"COMPOSING", "DELIVERABLE_VALIDATING"},
         SettleFailedDeliverable,
         UNCHANGED <<newest, inputs, delivered>>,
         \/ /\ job = "COMPOSING"
            /\ composition' = [composition EXCEPT ![newest] = "BLOCKED"]
            /\ validation' = validation
         \/ /\ validation[newest] = "RUNNING"
            /\ validation' = [validation EXCEPT ![newest] = "INVALID"]
            /\ composition' = composition
  PROVE  VersionsInv'
<1>1. newest \in Version /\ newest > current /\ current \in Nat
  BY NewestIsVersion DEF PlanStates, VersionsInv, TypeOK
<1>2. current' = current /\ job' \in {"FAILED_TERMINAL", "DELIVERABLE_READY"}
  BY DEF SettleFailedDeliverable
<1>3. \A v \in Version : v # newest => /\ composition'[v] = composition[v]
                                       /\ validation'[v] = validation[v]
  BY DEF VersionsInv, TypeOK
<1>4. validation'[newest] # "VALID"
  BY <1>1 DEF VersionsInv, TypeOK, VersionHistory
<1>5. AssembledFromDeliveredScenes'
  BY <1>1, <1>2, <1>3 DEF VersionsInv, AssembledFromDeliveredScenes, AssemblyStates,
                          TypeOK, Version
<1>6. VersionHistory'
  <2>1. \A v \in Version : v > newest => validation'[v] = "NONE"
    BY <1>3 DEF VersionsInv, VersionHistory, Version, TypeOK
  <2>2. ASSUME NEW v \in Version, validation'[v] = "VALID"
        PROVE  composition'[v] = "OUTPUT_VERIFIED" /\ v <= current
    BY <1>3, <1>4, <2>2 DEF VersionsInv, VersionHistory
  <2> QED
    BY <1>2, <2>1, <2>2 DEF VersionHistory
<1> QED
  BY <1>5, <1>6 DEF VersionsInv

LEMMA AttemptStepKeepsVersions ==
  ASSUME VersionsInv, TypeOK', NEW a \in Attempt, AttemptStep(a)
  PROVE  VersionsInv'
<1>1. UNCHANGED <<current, delivered, versionVars>>
  BY DEF AttemptStep, Arm, EndQueuedAttempt, RecordOutcome, EnterUncertainty, Resolve,
         Exhaust, Reconcile, Complete, BeginIngestion, VerifyOutput, JudgeMedia,
         ClaimFailure, AdmitRecovery, ResolveWork, SettleExhausted, FailInitial,
         RollBackRevision, OnlyAttemptChanges, jobVars, sceneVars
<1>2. job' = job \/ (job = "GENERATING" /\ job' \in {"FAILED_TERMINAL", "DELIVERABLE_READY"})
  BY DEF AttemptStep, Arm, EndQueuedAttempt, RecordOutcome, EnterUncertainty, Resolve,
         Exhaust, Reconcile, Complete, BeginIngestion, VerifyOutput, JudgeMedia,
         ClaimFailure, AdmitRecovery, ResolveWork, SettleExhausted, ExhaustedDue,
         FailInitial, RollBackRevision, OnlyAttemptChanges, jobVars
<1> QED
  BY <1>1, <1>2, OtherRowsKeepVersions DEF PlanStates

LEMMA RequestStepKeepsVersions ==
  ASSUME VersionsInv, TypeOK', NEW r \in Request, RequestStep(r)
  PROVE  VersionsInv'
<1>1. CASE AdmitRegenerationAttempt(r)
  BY <1>1, OtherRowsKeepVersions DEF AdmitRegenerationAttempt, jobVars
<1>2. CASE Deliver(r)
  BY <1>2, OtherRowsKeepVersions DEF Deliver, DeliveryDue, PlanStates
<1>3. CASE SettleAttemptFailure(r)
  <2>1. /\ UNCHANGED <<current, delivered, versionVars>>
        /\ job = "GENERATING" /\ job' \in {"FAILED_TERMINAL", "DELIVERABLE_READY"}
    BY <1>3 DEF SettleAttemptFailure, FailureDue, FailInitial, RollBackRevision
  <2> QED
    BY <2>1, OtherRowsKeepVersions DEF PlanStates
<1> QED
  BY <1>1, <1>2, <1>3 DEF RequestStep

LEMMA CustomerKeepsVersions ==
  ASSUME VersionsInv, TypeOK', Customer
  PROVE  VersionsInv'
<1>1. CASE Start
  BY <1>1, OtherRowsKeepVersions DEF Start, PlanStates
<1>2. CASE DeleteProperty
  BY <1>2, OtherRowsKeepVersions DEF DeleteProperty, jobVars, sceneVars
<1>3. ASSUME NEW r \in Request, AdmitRegeneration(r)
      PROVE  VersionsInv'
  BY <1>3, OtherRowsKeepVersions
  DEF AdmitRegeneration, RegenerationAllowed, ReopenedJobState, PlanStates
<1>4. ASSUME NEW r \in Request, RollBackPendingRegeneration(r)
      PROVE  VersionsInv'
  BY <1>4, OtherRowsKeepVersions
  DEF RollBackPendingRegeneration, RollBackRevision, PlanStates
<1> QED
  BY <1>1, <1>2, <1>3, <1>4 DEF Customer

LEMMA PlanKeepsVersions ==
  ASSUME VersionsInv, TypeOK', Plan
  PROVE  VersionsInv'
<1>1. /\ newest' = newest + 1 /\ newest \in Nat /\ newest + 1 \in Version
      /\ current <= newest /\ current' = current /\ current \in Nat
      /\ job = "SCENES_READY" /\ job' = "COMPOSITION_PENDING"
      /\ validation' = validation /\ delivered' = delivered
  BY DEF Plan, VersionsInv, AssembledFromDeliveredScenes, TypeOK, Version, sceneVars
<1>2. /\ composition'[newest + 1] = "PLANNED"
      /\ inputs'[newest + 1] = delivered
      /\ \A v \in Version : v # newest + 1 => composition'[v] = composition[v]
  BY <1>1 DEF Plan, VersionsInv, TypeOK
<1>3. validation[newest + 1] = "NONE"
  BY <1>1 DEF VersionsInv, VersionHistory
<1>4. AssembledFromDeliveredScenes'
  BY <1>1, <1>2 DEF VersionsInv, AssembledFromDeliveredScenes, AssemblyStates, TypeOK, Version
<1>5. VersionHistory'
  BY <1>1, <1>2, <1>3 DEF VersionsInv, VersionHistory, Version
<1> QED
  BY <1>4, <1>5 DEF VersionsInv

\* Claims and good verdicts advance the newest version alone.
LEMMA ProgressKeepsVersions ==
  ASSUME VersionsInv, TypeOK',
         ClaimComposition \/ FinishComposition \/ ClaimValidation \/ FinalizeValid
  PROVE  VersionsInv'
<1>1. job \in PlanStates /\ newest \in Version /\ newest > current /\ current \in Nat
  <2>1. job \in PlanStates
    BY DEF ClaimComposition, FinishComposition, ClaimValidation, FinalizeValid,
           ValidationMoves, PlanStates
  <2> QED
    BY <2>1, NewestIsVersion DEF VersionsInv, TypeOK
<1>2. UNCHANGED <<current, delivered, newest, inputs>>
  BY DEF ClaimComposition, FinishComposition, ClaimValidation, FinalizeValid, jobVars, sceneVars
<1>3. CASE ClaimComposition
  <2>1. /\ job = "COMPOSITION_PENDING" /\ job' = "COMPOSING" /\ validation' = validation
        /\ composition' = [composition EXCEPT ![newest] = "RUNNING"]
    BY <1>3 DEF ClaimComposition
  <2>2. AssembledFromDeliveredScenes'
    BY <1>1, <1>2, <2>1 DEF VersionsInv, AssembledFromDeliveredScenes, AssemblyStates, TypeOK
  <2>3. VersionHistory'
    BY <1>1, <1>2, <2>1 DEF VersionsInv, VersionHistory, TypeOK
  <2> QED
    BY <2>2, <2>3 DEF VersionsInv
<1>4. CASE FinishComposition
  <2>1. /\ job = "COMPOSING" /\ job' = "DELIVERABLE_VALIDATING" /\ validation' = validation
        /\ composition' = [composition EXCEPT ![newest] = "OUTPUT_VERIFIED"]
    BY <1>4 DEF FinishComposition
  <2>2. AssembledFromDeliveredScenes'
    BY <1>1, <1>2, <2>1
    DEF VersionsInv, AssembledFromDeliveredScenes, VersionHistory, AssemblyStates, TypeOK
  <2>3. VersionHistory'
    BY <1>1, <1>2, <2>1 DEF VersionsInv, VersionHistory, TypeOK
  <2> QED
    BY <2>2, <2>3 DEF VersionsInv
<1>5. CASE ClaimValidation \/ FinalizeValid
  <2> PICK to \in {"RUNNING", "VALID"} :
        /\ job = "DELIVERABLE_VALIDATING" /\ job' = job
        /\ composition[newest] = "OUTPUT_VERIFIED" /\ composition' = composition
        /\ validation' = [validation EXCEPT ![newest] = to]
    BY <1>5 DEF ClaimValidation, FinalizeValid, ValidationMoves, jobVars
  <2>2. AssembledFromDeliveredScenes'
    BY <1>1, <1>2 DEF VersionsInv, AssembledFromDeliveredScenes, AssemblyStates, TypeOK
  <2>3. VersionHistory'
    BY <1>1, <1>2 DEF VersionsInv, VersionHistory, TypeOK
  <2> QED
    BY <2>2, <2>3 DEF VersionsInv
<1> QED
  BY <1>3, <1>4, <1>5

\* A publication names the newest version, whichever claim it rests on.
LEMMA PublishKeepsVersions ==
  ASSUME VersionsInv, TypeOK', NEW v \in Version, Publish(v)
  PROVE  /\ VersionsInv'
         /\ current' \in {current, v}
         /\ v > current /\ validation[v] = "VALID" /\ inputs[v] = delivered
<1>1. /\ job = "DELIVERABLE_VALIDATING" /\ validation[v] = "VALID" /\ v > current
      /\ v \in Nat /\ current \in Nat
  BY DEF Publish, Publishable, VersionsInv, TypeOK, Version
<1>2. v = newest /\ composition[v] = "OUTPUT_VERIFIED" /\ inputs[v] = delivered
  BY <1>1 DEF VersionsInv, VersionHistory, AssembledFromDeliveredScenes, AssemblyStates
<1>3. /\ newest' = newest /\ composition' = composition
      /\ validation' = validation /\ inputs' = inputs
  BY DEF Publish, RestUnchanged, versionVars
<1>4. CASE current = 0 /\ deleted
  <2>1. current' = current /\ job' = "FAILED_TERMINAL"
    BY <1>4 DEF Publish, SettleFailedDeliverable
  <2>2. AssembledFromDeliveredScenes'
    BY <1>4, <2>1 DEF AssembledFromDeliveredScenes, AssemblyStates
  <2>3. VersionHistory'
    BY <1>3, <2>1 DEF VersionsInv, VersionHistory
  <2> QED
    BY <1>1, <1>2, <2>1, <2>2, <2>3 DEF VersionsInv
<1>5. CASE ~(current = 0 /\ deleted)
  <2>1. current' = v /\ job' = "DELIVERABLE_READY"
    BY <1>5 DEF Publish
  <2>2. AssembledFromDeliveredScenes'
    BY <1>1, <1>2, <1>3, <2>1 DEF AssembledFromDeliveredScenes, AssemblyStates
  <2>3. VersionHistory'
    BY <1>1, <1>2, <1>3, <2>1 DEF VersionsInv, VersionHistory, Version
  <2> QED
    BY <1>1, <1>2, <2>1, <2>2, <2>3 DEF VersionsInv
<1> QED
  BY <1>4, <1>5

LEMMA JobStepKeepsVersions ==
  ASSUME VersionsInv, TypeOK', JobStep
  PROVE  VersionsInv'
<1>1. CASE Launch
  BY <1>1, OtherRowsKeepVersions DEF Launch, PlanStates
<1>2. CASE EndUnlaunchableJob \/ EndLaunchedJob
  BY <1>2, OtherRowsKeepVersions
  DEF EndUnlaunchableJob, EndLaunchedJob, RestUnchanged, sceneVars, PlanStates
<1>3. CASE \E s \in Scene : CloseFailedScene(s)
  BY <1>3, OtherRowsKeepVersions DEF CloseFailedScene, jobVars
<1>4. CASE BlockComposition
  BY <1>4, DroppedVersion DEF BlockComposition, sceneVars
<1>5. CASE FinalizeInvalid
  BY <1>5, DroppedVersion DEF FinalizeInvalid, ValidationMoves, sceneVars
<1> QED
  BY <1>1, <1>2, <1>3, <1>4, <1>5, PlanKeepsVersions, ProgressKeepsVersions,
     PublishKeepsVersions DEF JobStep

LEMMA VersionsInductive == VersionsInv /\ TypeOK' /\ [Next]_vars => VersionsInv'
<1> SUFFICES ASSUME VersionsInv, TypeOK', [Next]_vars PROVE VersionsInv'
  OBVIOUS
<1>1. ASSUME UNCHANGED vars PROVE VersionsInv'
  BY <1>1, OtherRowsKeepVersions DEF vars, jobVars, sceneVars
<1> QED
  BY <1>1, AttemptStepKeepsVersions, RequestStepKeepsVersions, JobStepKeepsVersions,
     CustomerKeepsVersions DEF Next

LEMMA VersionsInvariant == Spec => []VersionsInv
<1>1. Init => VersionsInv
  BY InitTypes
  DEF Init, VersionsInv, AssembledFromDeliveredScenes, VersionHistory, AssemblyStates
<1> QED
  BY <1>1, VersionsInductive, TypeCorrect, PTL DEF Spec

\* The video a customer holds was composed and proved valid, and the plan in
\* execution froze exactly what the scenes deliver, whatever deliveries,
\* deletions, endings and dropped versions came in between.
THEOREM VideoIsWhole == Spec => []AssembledFromDeliveredScenes
BY VersionsInvariant, PTL DEF VersionsInv

\* The pointer moves with a publication alone.
LEMMA OnlyPublishMovesVideo ==
  ASSUME Next, current' # current
  PROVE  \E v \in Version : Publish(v)
<1>1. ~Customer
  BY DEF Customer, Start, DeleteProperty, AdmitRegeneration, RollBackPendingRegeneration,
         RollBackRevision, jobVars
<1>2. ASSUME NEW a \in Attempt PROVE ~AttemptStep(a)
  BY DEF AttemptStep, Arm, EndQueuedAttempt, RecordOutcome, EnterUncertainty, Resolve,
         Exhaust, Reconcile, Complete, BeginIngestion, VerifyOutput, JudgeMedia,
         ClaimFailure, AdmitRecovery, ResolveWork, SettleExhausted, FailInitial,
         RollBackRevision, OnlyAttemptChanges, jobVars
<1>3. ASSUME NEW r \in Request PROVE ~RequestStep(r)
  BY DEF RequestStep, AdmitRegenerationAttempt, Deliver, SettleAttemptFailure,
         FailInitial, RollBackRevision, jobVars
<1>4. ASSUME JobStep PROVE \E v \in Version : Publish(v)
  BY <1>4 DEF JobStep, Launch, EndUnlaunchableJob, EndLaunchedJob, CloseFailedScene, Plan,
     ClaimComposition, FinishComposition, BlockComposition, ClaimValidation,
     FinalizeValid, FinalizeInvalid, SettleFailedDeliverable, jobVars
<1> QED
  BY <1>1, <1>2, <1>3, <1>4 DEF Next

\* What the customer holds is replaced only by something newer, valid and
\* composed of what the scenes deliver, and the Unit it cost stays spent.
THEOREM VideoIsKept == Spec => CustomerKeepsVideo
<1> DEFINE Keeps ==
      /\ current' >= current
      /\ current # 0 => reservation' = "CONSUMED"
      /\ current' # current =>
           validation[current'] = "VALID" /\ inputs[current'] = delivered'
<1>1. VersionsInv /\ UnitFollowsVideo /\ TypeOK' /\ UnitFollowsVideo' /\ [Next]_vars
        => Keeps
  <2> SUFFICES ASSUME VersionsInv, UnitFollowsVideo, TypeOK', UnitFollowsVideo', [Next]_vars
               PROVE  Keeps
    OBVIOUS
  <2>1. current \in Nat
    BY DEF VersionsInv, TypeOK
  <2>2. CASE current' = current
    BY <2>1, <2>2 DEF UnitFollowsVideo
  <2>3. CASE current' # current
    <3>1. PICK v \in Version : Publish(v)
      BY <2>3, OnlyPublishMovesVideo DEF vars, jobVars
    <3>2. current' = v /\ v > current /\ validation[v] = "VALID" /\ inputs[v] = delivered
      BY <2>3, <3>1, PublishKeepsVersions
    <3>3. delivered' = delivered
      BY <3>1 DEF Publish, RestUnchanged, sceneVars
    <3>4. v \in Nat
      BY DEF Version
    <3>5. reservation' = "CONSUMED"
      BY <2>1, <3>2, <3>4 DEF UnitFollowsVideo
    <3> QED
      BY <2>1, <3>2, <3>3, <3>4, <3>5
  <2> QED
    BY <2>2, <2>3
<1> QED
  BY <1>1, VersionsInvariant, UnitIsHonest, TypeCorrect, PTL DEF Spec, CustomerKeepsVideo
-----------------------------------------------------------------------------
(***************************************************************************)
(* The rows of an order agree with each other.  Each part below relates    *)
(* two tables that different transactions write.                           *)
(***************************************************************************)

\* The states some transaction writes, of the wider vocabularies.
InUse ==
  /\ job \in {"ABSENT", "RESERVED", "GENERATING", "DELIVERABLE_READY", "FAILED_TERMINAL"}
               \cup AssemblyStates
  /\ reservation \in {"ABSENT", "RESERVED", "RECONCILIATION_HOLD", "CONSUMED", "RELEASED"}

\* The scenes are where the job says they are.
ScenesFitJob ==
  \A s \in Scene :
    /\ job = "ABSENT" => scene[s] = "ABSENT"
    /\ job = "RESERVED" => scene[s] = "PENDING"
    /\ job = "GENERATING" /\ current = 0 => scene[s] \in {"GENERATING", "READY"}
    /\ job = "GENERATING" /\ current # 0 => scene[s] \in {"READY", "REVISING"}
    /\ job \in {"DELIVERABLE_READY"} \cup AssemblyStates => scene[s] = "READY"
    /\ job = "FAILED_TERMINAL" =>
         scene[s] \in {"PENDING", "GENERATING", "READY", "FAILED_TERMINAL", "CANCELLED"}

\* The scenes that have a delivered clip.
Shown == {"READY", "REVISING"}

\* A scene that shows a clip points at a delivered request; any other scene is
\* where its INITIAL request is, the only one it has.
RequestsFit(s) ==
  /\ scene[s] \in Shown =>
       /\ delivered[s] # 0
       /\ request[<<s, delivered[s]>>] = "DELIVERED"
       /\ request[<<s, 1>>] = "DELIVERED"
  /\ scene[s] \notin Shown =>
       /\ delivered[s] = 0
       /\ request[<<s, 1>>] = scene[s]
       /\ \A r \in Request : SceneOf(r) = s /\ ~IsInitial(r) => request[r] = "ABSENT"

RequestsFitScene == \A s \in Scene : RequestsFit(s)

\* At most one revision is open, in the one scene that is revised, and a job
\* generates behind a video for that revision alone.
RevisionsFitJob ==
  /\ \A r \in OpenRegenerations : scene[SceneOf(r)] = "REVISING"
  /\ \A r, q \in OpenRegenerations : r = q
  /\ \A s \in Scene : scene[s] = "REVISING" => \E r \in OpenRegenerations : SceneOf(r) = s
  /\ job = "GENERATING" /\ current # 0 => OpenRegenerations # {}

\* The attempts of a request are as far as the request is; a recovery was
\* admitted only behind a clip that failed its validation.
AttemptsFit(r) ==
  /\ request[r] \in {"ABSENT", "PENDING", "CANCELLED"} => attempt[Primary(r)] = "ABSENT"
  /\ request[r] = "GENERATING" => attempt[Primary(r)] # "ABSENT"
  /\ request[r] = "DELIVERED" =>
       attempt[Newest(r)] = "OUTPUT_VERIFIED" /\ verdict[Newest(r)] = "VALID"
  /\ request[r] = "FAILED_TERMINAL" => NothingUnfinished(r)
  /\ attempt[Recovery(r)] # "ABSENT" => verdict[Primary(r)] = "INVALID"

AttemptsFitRequest == \A r \in Request : AttemptsFit(r)

\* Verdicts are about stored clips, work rows about failed ones.
VerdictFits(a) ==
  /\ verdict[a] # "NONE" => attempt[a] = "OUTPUT_VERIFIED"
  /\ work[a] # "NONE" => verdict[a] = "INVALID"

VerdictsFitOutput == \A a \in Attempt : VerdictFits(a)

SceneRows   == InUse /\ ScenesFitJob /\ RequestsFitScene /\ RevisionsFitJob
AttemptRows == AttemptsFitRequest /\ VerdictsFitOutput
MoneyRows   == HoldHasReason /\ ReturnedUnitMeansFailure

RowsInv == TypeOK /\ UnitFollowsVideo /\ SceneRows /\ AttemptRows /\ MoneyRows

\* What identifies requests and attempts.
LEMMA Keys ==
  /\ \A r \in Request : r = <<SceneOf(r), r[2]>>
  /\ \A r \in Request : IsInitial(r) <=> r = <<SceneOf(r), 1>>
  /\ \A s \in Scene : /\ <<s, 1>> \in Request
                      /\ SceneOf(<<s, 1>>) = s /\ IsInitial(<<s, 1>>)
  /\ \A s \in Scene : \A n \in 1..MaxRequests :
       <<s, n>> \in Request /\ SceneOf(<<s, n>>) = s /\ <<s, n>>[2] = n
  /\ \A r \in Request : RequestOf(Primary(r)) = r /\ RequestOf(Recovery(r)) = r
  /\ \A r, q \in Request : Primary(r) # Recovery(q)
  /\ \A a \in Attempt : a \in AttemptsOf(RequestOf(a))
<1>1. \A r \in Request : r = <<SceneOf(r), r[2]>>
  BY DEF Request, SceneOf
<1>2. \A r \in Request : IsInitial(r) <=> r = <<SceneOf(r), 1>>
  BY <1>1 DEF IsInitial
<1>3. \A s \in Scene : \A n \in 1..MaxRequests :
        <<s, n>> \in Request /\ SceneOf(<<s, n>>) = s /\ <<s, n>>[2] = n
  BY DEF Request, SceneOf
<1>4. \A s \in Scene : /\ <<s, 1>> \in Request
                       /\ SceneOf(<<s, 1>>) = s /\ IsInitial(<<s, 1>>)
  <2>1. 1 \in 1..MaxRequests
    BY BoundsAssumption
  <2>2. ASSUME NEW s \in Scene
        PROVE  <<s, 1>> \in Request /\ SceneOf(<<s, 1>>) = s /\ <<s, 1>>[2] = 1
    BY <1>3, <2>1
  <2> QED
    BY <2>2 DEF IsInitial
<1>5. \A r \in Request : RequestOf(Primary(r)) = r /\ RequestOf(Recovery(r)) = r
  BY DEF RequestOf, Primary, Recovery
<1>6. \A r, q \in Request : Primary(r) # Recovery(q)
  BY DEF Primary, Recovery
<1>7. \A a \in Attempt : a \in AttemptsOf(RequestOf(a))
  BY DEF Attempt, RequestOf, AttemptsOf, Primary, Recovery
<1> QED
  BY <1>1, <1>2, <1>3, <1>4, <1>5, <1>6, <1>7

\* Where an open revision is, everything else is at rest.
LEMMA OpenRevisionPlace ==
  ASSUME RowsInv, NEW r \in OpenRegenerations
  PROVE  /\ RevisionShape(r) /\ job = "GENERATING" /\ reservation = "CONSUMED"
         /\ r \in Request /\ scene[SceneOf(r)] = "REVISING"
<1> USE Names, Keys
<1> DEFINE s == SceneOf(r)
<1>1. r \in Request /\ ~IsInitial(r) /\ request[r] \in OpenRequestStates
  BY DEF OpenRegenerations
<1>2. s \in Scene /\ scene[s] = "REVISING"
  BY <1>1 DEF RowsInv, SceneRows, RevisionsFitJob
<1>3. job = "GENERATING" /\ current # 0
  BY <1>2 DEF RowsInv, SceneRows, ScenesFitJob, InUse
<1>4. reservation = "CONSUMED"
  BY <1>3 DEF RowsInv, UnitFollowsVideo
<1>5. delivered[s] \in 1..MaxRequests /\ request[<<s, delivered[s]>>] = "DELIVERED"
  <2>1. delivered[s] \in 0..MaxRequests
    BY <1>2 DEF RowsInv, TypeOK
  <2>2. delivered[s] # 0 /\ request[<<s, delivered[s]>>] = "DELIVERED"
    BY <1>2 DEF RowsInv, SceneRows, RequestsFitScene, RequestsFit, Shown
  <2> QED
    BY <2>1, <2>2
<1>6. delivered[s] # r[2]
  BY <1>1, <1>2, <1>5 DEF OpenRequestStates
<1>7. DeliveredPredecessor(s)
  BY <1>2, <1>5 DEF DeliveredPredecessor, RequestsOf
<1>8. OthersReady(s)
  <2> SUFFICES ASSUME NEW t \in Scene \ {s} PROVE scene[t] = "READY"
    BY DEF OthersReady
  <2>1. scene[t] \in {"READY", "REVISING"}
    BY <1>3 DEF RowsInv, SceneRows, ScenesFitJob
  <2>2. scene[t] # "REVISING"
    BY DEF RowsInv, SceneRows, RevisionsFitJob
  <2> QED
    BY <2>1, <2>2
<1>9. OpenRegenerations \subseteq {r}
  BY DEF RowsInv, SceneRows, RevisionsFitJob
<1> QED
  BY <1>1, <1>2, <1>3, <1>4, <1>6, <1>7, <1>8, <1>9 DEF RevisionShape

\* Where an INITIAL request is being generated, a first video is, or its job
\* has failed.
LEMMA InitialRequestPlace ==
  ASSUME RowsInv, NEW r \in Request, IsInitial(r), request[r] = "GENERATING"
  PROVE  InitialShape(r) /\ job \in {"GENERATING", "FAILED_TERMINAL"}
<1> USE Names, Keys
<1> DEFINE s == SceneOf(r)
<1>1. s \in Scene /\ scene[s] = "GENERATING" /\ delivered[s] = 0
  <2>1. s \in Scene /\ r = <<s, 1>>
    OBVIOUS
  <2>2. request[<<s, 1>>] = "GENERATING"
    BY <2>1
  <2> QED
    BY <2>1, <2>2 DEF RowsInv, SceneRows, RequestsFitScene, RequestsFit, Shown
<1>2. job \in {"GENERATING", "FAILED_TERMINAL"} /\ current = 0
  BY <1>1 DEF RowsInv, SceneRows, ScenesFitJob, InUse, UnitFollowsVideo
<1> QED
  BY <1>1, <1>2 DEF InitialShape

\* An attempt that can still move is the newest one of a request that is being
\* generated, and the request has no other such attempt.
LEMMA ActiveAttemptPlace ==
  ASSUME RowsInv, NEW a \in Attempt, attempt[a] \in ActiveAttemptStates
  PROVE  /\ request[RequestOf(a)] = "GENERATING" /\ a = Newest(RequestOf(a))
         /\ \A b \in AttemptsOf(RequestOf(a)) : b # a =>
              attempt[b] \in {"ABSENT", "OUTPUT_VERIFIED"}
         /\ verdict[a] = "NONE" /\ work[a] = "NONE"
<1> USE Names, Keys
<1> DEFINE r == RequestOf(a)
<1>1. r \in Request /\ a \in {Primary(r), Recovery(r)}
  BY DEF AttemptsOf
<1>2. verdict[a] = "NONE" /\ work[a] = "NONE"
  BY DEF RowsInv, AttemptRows, VerdictsFitOutput, VerdictFits, ActiveAttemptStates
<1>3. a = Newest(r)
  BY <1>1, <1>2 DEF RowsInv, AttemptRows, AttemptsFitRequest, AttemptsFit, Newest, ActiveAttemptStates
<1>4. request[r] \in RequestStates \cup {"ABSENT"}
  BY <1>1 DEF RowsInv, TypeOK
<1>5. attempt[Recovery(r)] # "ABSENT" => attempt[Primary(r)] = "OUTPUT_VERIFIED"
  BY <1>1 DEF RowsInv, AttemptRows, AttemptsFitRequest, AttemptsFit, VerdictsFitOutput, VerdictFits
<1>6. attempt[Primary(r)] # "ABSENT"
  BY <1>1, <1>5 DEF ActiveAttemptStates
<1>7. request[r] \notin {"ABSENT", "PENDING", "CANCELLED"}
  BY <1>1, <1>6 DEF RowsInv, AttemptRows, AttemptsFitRequest, AttemptsFit
<1>8. request[r] # "DELIVERED"
  BY <1>1, <1>3 DEF RowsInv, AttemptRows, AttemptsFitRequest, AttemptsFit, ActiveAttemptStates
<1>9. request[r] # "FAILED_TERMINAL"
  BY <1>1 DEF RowsInv, AttemptRows, AttemptsFitRequest, AttemptsFit, ActiveAttemptStates,
              NothingUnfinished, AttemptsOf, TerminalAttemptStates
<1>10. request[r] = "GENERATING"
  BY <1>4, <1>7, <1>8, <1>9 DEF RequestStates, RequestTransitions
<1>11. \A b \in AttemptsOf(r) : b # a => attempt[b] \in {"ABSENT", "OUTPUT_VERIFIED"}
  BY <1>1, <1>3, <1>5 DEF AttemptsOf, Newest
<1> QED
  BY <1>2, <1>3, <1>10, <1>11
-----------------------------------------------------------------------------
(* What each transaction does to the scenes, their requests and the job.     *)

LEMMA InUseInductive ==
  ASSUME RowsInv, [Next]_vars
  PROVE  InUse'
<1> USE DEF RowsInv, SceneRows, InUse, AssemblyStates
<1>1. ASSUME NEW r, FailInitial(r) PROVE InUse'
  BY <1>1 DEF FailInitial
<1>2. ASSUME NEW r, NEW to, RollBackRevision(r, to) PROVE InUse'
  BY <1>2 DEF RollBackRevision
<1>3. ASSUME NEW a \in Attempt, AttemptStep(a) PROVE InUse'
  <2>1. CASE SettleExhausted(a)
    BY <1>1, <1>2, <2>1 DEF SettleExhausted
  <2>2. CASE ~SettleExhausted(a)
    <3>1. job' = job
      BY <1>3, <2>2 DEF AttemptStep, Arm, EndQueuedAttempt, RecordOutcome, EnterUncertainty,
           Resolve, Exhaust, Reconcile, Complete, BeginIngestion, VerifyOutput, JudgeMedia,
           ClaimFailure, AdmitRecovery, ResolveWork, OnlyAttemptChanges, jobVars
    <3>2. reservation' \in {reservation, "RECONCILIATION_HOLD", "RESERVED", "RELEASED"}
      BY <1>3, <2>2 DEF AttemptStep, Arm, EndQueuedAttempt, RecordOutcome, EnterUncertainty,
           Resolve, Exhaust, Reconcile, ReservationAfter, Complete, BeginIngestion,
           VerifyOutput, JudgeMedia, ClaimFailure, AdmitRecovery, ResolveWork,
           OnlyAttemptChanges, jobVars
    <3> QED
      BY <3>1, <3>2
  <2> QED
    BY <2>1, <2>2
<1>4. ASSUME NEW r \in Request, RequestStep(r) PROVE InUse'
  BY <1>1, <1>2, <1>4
  DEF RequestStep, AdmitRegenerationAttempt, Deliver, SettleAttemptFailure, jobVars
<1>5. CASE JobStep
  BY <1>5 DEF JobStep, Launch, EndUnlaunchableJob, EndLaunchedJob, CloseFailedScene, Plan,
     ClaimComposition, FinishComposition, BlockComposition, ClaimValidation,
     FinalizeValid, FinalizeInvalid, Publish, SettleFailedDeliverable, jobVars
<1>6. CASE Customer
  BY <1>2, <1>6 DEF Customer, Start, DeleteProperty, AdmitRegeneration, ReopenedJobState,
     RollBackPendingRegeneration, jobVars
<1>7. CASE UNCHANGED vars
  BY <1>7 DEF vars, jobVars
<1> QED
  BY <1>3, <1>4, <1>5, <1>6, <1>7 DEF Next

\* The job moves among states in which its scenes stand alike.
LEMMA JobMovesAlone ==
  ASSUME RowsInv, UNCHANGED sceneVars,
         \/ job' = job /\ current' = current
         \/ /\ job \in AssemblyStates
            /\ job' \in {"DELIVERABLE_READY", "FAILED_TERMINAL"} \cup AssemblyStates
         \/ job \in {"RESERVED", "GENERATING"} /\ current = 0 /\ job' = "FAILED_TERMINAL"
  PROVE  ScenesFitJob' /\ RequestsFitScene' /\ RevisionsFitJob'
<1>1. UNCHANGED <<scene, delivered, request>>
  BY DEF sceneVars
<1>2. ScenesFitJob'
  BY <1>1 DEF RowsInv, SceneRows, ScenesFitJob, AssemblyStates
<1>3. RequestsFitScene'
  BY <1>1 DEF RowsInv, SceneRows, RequestsFitScene, RequestsFit
<1>4. OpenRegenerations' = OpenRegenerations
  BY <1>1 DEF OpenRegenerations
<1>5. job' = "GENERATING" /\ current' # 0 => job = "GENERATING" /\ current # 0
  BY DEF AssemblyStates
<1>6. RevisionsFitJob'
  BY <1>1, <1>4, <1>5 DEF RowsInv, SceneRows, RevisionsFitJob
<1> QED
  BY <1>2, <1>3, <1>6

\* A start finds no row of the order.
LEMMA NothingStarted ==
  ASSUME RowsInv, job = "ABSENT"
  PROVE  /\ \A s \in Scene : scene[s] = "ABSENT" /\ delivered[s] = 0
         /\ \A r \in Request : request[r] = "ABSENT"
<1> USE Names, Keys
<1>1. \A s \in Scene : scene[s] = "ABSENT" /\ delivered[s] = 0
  BY DEF RowsInv, SceneRows, ScenesFitJob, RequestsFitScene, RequestsFit, Shown
<1>2. ASSUME NEW r \in Request PROVE request[r] = "ABSENT"
  <2>1. CASE IsInitial(r)
    <3>1. r = <<SceneOf(r), 1>>
      BY <2>1
    <3>2. request[<<SceneOf(r), 1>>] = scene[SceneOf(r)]
      BY <1>1 DEF RowsInv, SceneRows, RequestsFitScene, RequestsFit, Shown
    <3>3. SceneOf(r) \in Scene
      OBVIOUS
    <3>4. scene[SceneOf(r)] = "ABSENT"
      BY <1>1, <3>3
    <3>5. request[r] = request[<<SceneOf(r), 1>>]
      BY <3>1
    <3> QED
      BY <3>2, <3>4, <3>5
  <2>2. CASE ~IsInitial(r)
    <3>1. SceneOf(r) \in Scene /\ scene[SceneOf(r)] = "ABSENT"
      BY <1>1
    <3> QED
      BY <2>2, <3>1 DEF RowsInv, SceneRows, RequestsFitScene, RequestsFit, Shown
  <2> QED
    BY <2>1, <2>2
<1> QED
  BY <1>1, <1>2

LEMMA StartScenes ==
  ASSUME RowsInv, Start
  PROVE  ScenesFitJob' /\ RequestsFitScene' /\ RevisionsFitJob'
<1> USE Names, Keys, NothingStarted
<1>1. /\ job = "ABSENT" /\ job' = "RESERVED" /\ delivered' = delivered
      /\ \A s \in Scene : scene'[s] = "PENDING"
      /\ \A r \in Request : request'[r] = IF IsInitial(r) THEN "PENDING" ELSE "ABSENT"
  BY DEF Start
<1>2. ScenesFitJob'
  BY <1>1 DEF ScenesFitJob, AssemblyStates
<1>3. RequestsFitScene'
  BY <1>1 DEF RequestsFitScene, RequestsFit, Shown
<1>4. OpenRegenerations' = {}
  BY <1>1 DEF OpenRegenerations, OpenRequestStates
<1>5. RevisionsFitJob'
  BY <1>1, <1>4 DEF RevisionsFitJob
<1> QED
  BY <1>2, <1>3, <1>5

LEMMA LaunchScenes ==
  ASSUME RowsInv, Launch
  PROVE  ScenesFitJob' /\ RequestsFitScene' /\ RevisionsFitJob'
<1> USE Names, Keys
<1>1. current = 0
  BY DEF Launch, RowsInv, UnitFollowsVideo
<1>2. /\ job' = "GENERATING" /\ delivered' = delivered /\ current' = current
      /\ \A s \in Scene : scene[s] = "PENDING" /\ scene'[s] = "GENERATING"
      /\ \A r \in Request : request'[r] = IF IsInitial(r) THEN "GENERATING" ELSE "ABSENT"
  BY DEF Launch, StartShape
<1>3. ScenesFitJob'
  BY <1>1, <1>2 DEF ScenesFitJob, AssemblyStates
<1>4. \A s \in Scene : delivered[s] = 0
  BY <1>2 DEF RowsInv, SceneRows, RequestsFitScene, RequestsFit, Shown
<1>5. RequestsFitScene'
  BY <1>2, <1>4 DEF RequestsFitScene, RequestsFit, Shown
<1>6. OpenRegenerations' = {}
  BY <1>2 DEF OpenRegenerations, OpenRequestStates
<1>7. RevisionsFitJob'
  BY <1>1, <1>2, <1>6 DEF RevisionsFitJob
<1> QED
  BY <1>3, <1>5, <1>7

\* A step that writes one request leaves the other scenes' requests in place.
LEMMA OtherScenesFit ==
  ASSUME RowsInv, NEW r \in Request, NEW to, request' = [request EXCEPT ![r] = to],
         NEW t \in Scene, t # SceneOf(r), scene'[t] = scene[t], delivered'[t] = delivered[t]
  PROVE  RequestsFit(t)'
<1>1. /\ delivered[t] \in 0..MaxRequests
      /\ \A q \in Request : q # r => request'[q] = request[q]
  BY DEF RowsInv, TypeOK
<1>2. \A n \in 1..MaxRequests : <<t, n>> \in Request /\ <<t, n>> # r
  BY Keys
<1>3. <<t, 1>> \in Request /\ <<t, 1>> # r
  BY Keys
<1>4. request'[<<t, 1>>] = request[<<t, 1>>]
  BY <1>1, <1>3
<1>5. delivered[t] # 0 => request'[<<t, delivered[t]>>] = request[<<t, delivered[t]>>]
  BY <1>1, <1>2
<1>6. RequestsFit(t)
  BY DEF RowsInv, SceneRows, RequestsFitScene
<1>7. CASE scene[t] \in Shown
  BY <1>4, <1>5, <1>6, <1>7 DEF RequestsFit
<1>8. CASE scene[t] \notin Shown
  <2>1. \A q \in Request : SceneOf(q) = t => request'[q] = request[q]
    BY <1>1
  <2> QED
    BY <1>4, <1>6, <1>8, <2>1 DEF RequestsFit
<1> QED
  BY <1>7, <1>8

\* One INITIAL request and its scene end together, in a job that has failed or
\* fails with them.
LEMMA InitialRequestEnds ==
  ASSUME RowsInv, NEW r \in Request, IsInitial(r), scene[SceneOf(r)] \notin Shown,
         job \in {"GENERATING", "FAILED_TERMINAL"}, current = 0, job' = "FAILED_TERMINAL",
         UNCHANGED <<current, delivered>>,
         NEW to \in {"FAILED_TERMINAL", "CANCELLED"},
         request' = [request EXCEPT ![r] = to],
         scene' = [scene EXCEPT ![SceneOf(r)] = to]
  PROVE  ScenesFitJob' /\ RequestsFitScene' /\ RevisionsFitJob'
<1> USE Names, Keys
<1> DEFINE s == SceneOf(r)
<1>1. /\ s \in Scene /\ r = <<s, 1>> /\ scene'[s] = to /\ request'[r] = to
      /\ \A t \in Scene : t # s => scene'[t] = scene[t]
      /\ \A q \in Request : q # r => request'[q] = request[q]
  BY DEF RowsInv, TypeOK
<1>2. ScenesFitJob'
  BY <1>1 DEF RowsInv, SceneRows, ScenesFitJob, AssemblyStates
<1>3. RequestsFit(s)'
  BY <1>1 DEF RowsInv, SceneRows, RequestsFitScene, RequestsFit, Shown
<1>4. RequestsFitScene'
  BY <1>1, <1>3, OtherScenesFit DEF RequestsFitScene
<1>5. OpenRegenerations' = OpenRegenerations
  BY <1>1 DEF OpenRegenerations
<1>6. \A t \in Scene : scene'[t] # "REVISING"
  BY <1>2 DEF ScenesFitJob
<1>7. OpenRegenerations = {}
  BY DEF RowsInv, SceneRows, RevisionsFitJob, ScenesFitJob, OpenRegenerations
<1>8. RevisionsFitJob'
  BY <1>5, <1>6, <1>7 DEF RevisionsFitJob
<1> QED
  BY <1>2, <1>4, <1>8

\* Transaction L closes a scene with the request it stands on.
LEMMA CloseScenes ==
  ASSUME RowsInv, NEW s \in Scene, CloseFailedScene(s)
  PROVE  ScenesFitJob' /\ RequestsFitScene' /\ RevisionsFitJob'
<1> DEFINE r == <<s, 1>>
<1>1. r \in Request /\ IsInitial(r) /\ SceneOf(r) = s
  BY Keys
<1>2. /\ job = "FAILED_TERMINAL" /\ job' = job /\ scene[s] \in {"PENDING", "GENERATING"}
      /\ scene' = [scene EXCEPT ![s] = ClosedSceneState(s)]
      /\ UNCHANGED <<current, delivered>>
  BY DEF CloseFailedScene, ClosableScene, jobVars
<1>3. current = 0 /\ request[r] = scene[s]
  BY <1>2 DEF RowsInv, UnitFollowsVideo, SceneRows, RequestsFitScene, RequestsFit, Shown
<1>4. \/ /\ request[r] = "PENDING" /\ request' = [request EXCEPT ![r] = "CANCELLED"]
         /\ ClosedSceneState(s) = "CANCELLED"
      \/ /\ request[r] = "GENERATING" /\ request' = [request EXCEPT ![r] = "FAILED_TERMINAL"]
         /\ ClosedSceneState(s) = "FAILED_TERMINAL"
  BY <1>3 DEF CloseFailedScene, ClosedSceneState
<1>5. PICK to \in {"FAILED_TERMINAL", "CANCELLED"} :
        request' = [request EXCEPT ![r] = to] /\ ClosedSceneState(s) = to
  BY <1>4
<1>6. scene[SceneOf(r)] \notin Shown /\ scene' = [scene EXCEPT ![SceneOf(r)] = to]
  BY <1>1, <1>2, <1>5 DEF Shown
<1> HIDE DEF r
<1> QED
  BY <1>1, <1>2, <1>3, <1>5, <1>6, InitialRequestEnds

\* A first video fails with the request that failed.
LEMMA FailScenes ==
  ASSUME RowsInv, NEW r \in Request, IsInitial(r), request[r] = "GENERATING", FailInitial(r)
  PROVE  ScenesFitJob' /\ RequestsFitScene' /\ RevisionsFitJob'
<1>1. InitialShape(r) /\ job \in {"GENERATING", "FAILED_TERMINAL"}
  BY InitialRequestPlace
<1>2. scene[SceneOf(r)] \notin Shown /\ current = 0
  BY <1>1 DEF InitialShape, Shown
<1>3. /\ job' = "FAILED_TERMINAL" /\ UNCHANGED <<current, delivered>>
      /\ request' = [request EXCEPT ![r] = "FAILED_TERMINAL"]
      /\ scene' = [scene EXCEPT ![SceneOf(r)] = "FAILED_TERMINAL"]
  BY DEF FailInitial
<1> QED
  BY <1>1, <1>2, <1>3, InitialRequestEnds

\* A revision that ends without a clip leaves its scene on the earlier one.
LEMMA RollBackScenes ==
  ASSUME RowsInv, NEW r \in OpenRegenerations,
         NEW to \in {"FAILED_TERMINAL", "CANCELLED"}, RollBackRevision(r, to)
  PROVE  ScenesFitJob' /\ RequestsFitScene' /\ RevisionsFitJob'
<1> DEFINE s == SceneOf(r)
<1>1. /\ RevisionShape(r) /\ r \in Request /\ scene[s] = "REVISING" /\ s \in Scene
  BY OpenRevisionPlace, Names
<1>2. /\ job' = "DELIVERABLE_READY" /\ delivered' = delivered /\ current' = current
      /\ scene'[s] = "READY" /\ request'[r] = to
      /\ \A t \in Scene : t # s => scene'[t] = scene[t]
      /\ \A q \in Request : q # r => request'[q] = request[q]
      /\ request' = [request EXCEPT ![r] = to]
  BY <1>1 DEF RollBackRevision, RowsInv, TypeOK
<1>3. \A t \in Scene : scene'[t] = "READY"
  BY <1>1, <1>2 DEF RevisionShape, OthersReady
<1>4. ScenesFitJob'
  BY <1>2, <1>3 DEF ScenesFitJob, AssemblyStates
<1>5. RequestsFit(s)'
  <2>1. delivered[s] # 0 /\ request[<<s, delivered[s]>>] = "DELIVERED" /\ request[<<s, 1>>] = "DELIVERED"
    BY <1>1 DEF RowsInv, SceneRows, RequestsFitScene, RequestsFit, Shown
  <2>2. delivered[s] \in 1..MaxRequests
    BY <1>1, <2>1 DEF RowsInv, TypeOK
  <2>3. request[r] # "DELIVERED"
    BY DEF OpenRegenerations, OpenRequestStates
  <2>4. <<s, delivered[s]>> \in Request /\ <<s, 1>> \in Request
    BY <1>1, <2>2, Keys
  <2>5. <<s, delivered[s]>> # r /\ <<s, 1>> # r
    BY <2>1, <2>3
  <2>6. request'[<<s, delivered[s]>>] = "DELIVERED" /\ request'[<<s, 1>>] = "DELIVERED"
    BY <1>2, <2>1, <2>4, <2>5
  <2> QED
    BY <1>2, <2>1, <2>6 DEF RequestsFit, Shown
<1>6. RequestsFitScene'
  BY <1>1, <1>2, <1>5, OtherScenesFit DEF RequestsFitScene
<1>7. OpenRegenerations' = {}
  <2>1. OpenRegenerations \subseteq {r}
    BY <1>1 DEF RevisionShape
  <2> QED
    BY <1>2, <2>1 DEF OpenRegenerations, OpenRequestStates
<1>8. RevisionsFitJob'
  BY <1>2, <1>3, <1>7 DEF RevisionsFitJob
<1> QED
  BY <1>4, <1>6, <1>8

\* A delivery shows the clip of the request that made it.
LEMMA DeliverScenes ==
  ASSUME RowsInv, NEW r \in Request, Deliver(r)
  PROVE  ScenesFitJob' /\ RequestsFitScene' /\ RevisionsFitJob'
<1> DEFINE s == SceneOf(r)
<1>1. s \in Scene /\ r[2] \in 1..MaxRequests /\ r = <<s, r[2]>>
  BY Names, Keys
<1>2. /\ request[r] = "GENERATING" /\ job = "GENERATING" /\ current' = current
      /\ request' = [request EXCEPT ![r] = "DELIVERED"]
      /\ request'[r] = "DELIVERED" /\ scene'[s] = "READY" /\ delivered'[s] = r[2]
      /\ \A t \in Scene : t # s => scene'[t] = scene[t] /\ delivered'[t] = delivered[t]
      /\ \A q \in Request : q # r => request'[q] = request[q]
      /\ job' = IF OthersReady(s) THEN "SCENES_READY" ELSE job
  BY <1>1 DEF Deliver, DeliveryDue, RowsInv, TypeOK
<1>3. /\ IsInitial(r) => InitialShape(r)
      /\ ~IsInitial(r) => r \in OpenRegenerations /\ RevisionShape(r)
  <2>1. CASE IsInitial(r)
    BY <1>2, <2>1, InitialRequestPlace
  <2>2. CASE ~IsInitial(r)
    <3>1. r \in OpenRegenerations
      BY <1>2, <2>2 DEF OpenRegenerations, OpenRequestStates
    <3> QED
      BY <2>2, <3>1, OpenRevisionPlace
  <2> QED
    BY <2>1, <2>2
<1>4. ScenesFitJob'
  <2>1. CASE OthersReady(s)
    BY <1>2, <2>1 DEF OthersReady, ScenesFitJob, AssemblyStates
  <2>2. CASE ~OthersReady(s)
    <3>1. current = 0
      BY <1>3, <2>2 DEF InitialShape, RevisionShape
    <3> QED
      BY <1>2, <2>2, <3>1 DEF RowsInv, SceneRows, ScenesFitJob, AssemblyStates
  <2> QED
    BY <2>1, <2>2
<1>5. RequestsFit(s)'
  <2>1. request'[<<s, delivered'[s]>>] = "DELIVERED"
    BY <1>1, <1>2
  <2>2. request'[<<s, 1>>] = "DELIVERED"
    <3>1. CASE IsInitial(r)
      BY <1>1, <1>2, <3>1, Keys
    <3>2. CASE ~IsInitial(r)
      <4>1. request[<<s, 1>>] = "DELIVERED"
        BY <1>1, <1>3, <3>2
        DEF RevisionShape, RowsInv, SceneRows, RequestsFitScene, RequestsFit, Shown
      <4>2. <<s, 1>> # r /\ <<s, 1>> \in Request
        BY <1>1, <3>2, Keys
      <4> QED
        BY <1>2, <4>1, <4>2
    <3> QED
      BY <3>1, <3>2
  <2> QED
    BY <1>1, <1>2, <2>1, <2>2 DEF RequestsFit, Shown
<1>6. RequestsFitScene'
  BY <1>1, <1>2, <1>5, OtherScenesFit DEF RequestsFitScene
<1>7. OpenRegenerations \subseteq {r}
  <2>1. CASE IsInitial(r)
    <3>1. \A t \in Scene : scene[t] # "REVISING"
      BY <1>2, <1>3, <2>1 DEF InitialShape, RowsInv, SceneRows, ScenesFitJob
    <3> QED
      BY <3>1, Names DEF RowsInv, SceneRows, RevisionsFitJob, OpenRegenerations
  <2>2. CASE ~IsInitial(r)
    BY <1>3, <2>2 DEF RevisionShape
  <2> QED
    BY <2>1, <2>2
<1>8. OpenRegenerations' = {}
  BY <1>2, <1>7 DEF OpenRegenerations, OpenRequestStates
<1>9. /\ \A t \in Scene : scene'[t] # "REVISING"
      /\ job' = "GENERATING" => current = 0
  BY <1>2, <1>3, <1>4 DEF InitialShape, RevisionShape, OthersReady, ScenesFitJob, AssemblyStates
<1>10. RevisionsFitJob'
  BY <1>2, <1>8, <1>9 DEF RevisionsFitJob
<1> QED
  BY <1>4, <1>6, <1>10

\* A revision is opened on a video at rest, in one scene.
LEMMA ReviseScenes ==
  ASSUME RowsInv, NEW r \in Request, AdmitRegeneration(r)
  PROVE  ScenesFitJob' /\ RequestsFitScene' /\ RevisionsFitJob'
<1> DEFINE s == SceneOf(r)
<1>1. s \in Scene /\ r = <<s, r[2]>>
  BY Names, Keys
<1>2. /\ job = "DELIVERABLE_READY" /\ current # 0 /\ OpenRegenerations = {}
      /\ scene[s] = "READY" /\ request[r] = "ABSENT"
      /\ job' = "GENERATING" /\ current' = current /\ delivered' = delivered
      /\ request' = [request EXCEPT ![r] = "PENDING"]
      /\ request'[r] = "PENDING" /\ scene'[s] = "REVISING"
      /\ \A t \in Scene : t # s => scene'[t] = scene[t]
      /\ \A q \in Request : q # r => request'[q] = request[q]
  BY <1>1 DEF AdmitRegeneration, RegenerationAllowed, ReopenedJobState, RowsInv, TypeOK
<1>3. ScenesFitJob'
  BY <1>2 DEF RowsInv, SceneRows, ScenesFitJob, AssemblyStates
<1>4. delivered[s] # 0 /\ request[<<s, delivered[s]>>] = "DELIVERED" /\ request[<<s, 1>>] = "DELIVERED"
  BY <1>1, <1>2 DEF RowsInv, SceneRows, RequestsFitScene, RequestsFit, Shown
<1>5. RequestsFit(s)'
  <2>1. delivered[s] \in 1..MaxRequests
    BY <1>1, <1>4 DEF RowsInv, TypeOK
  <2>2. <<s, delivered[s]>> \in Request /\ <<s, 1>> \in Request
    BY <1>1, <2>1, Keys
  <2>3. <<s, delivered[s]>> # r /\ <<s, 1>> # r
    BY <1>2, <1>4
  <2>4. request'[<<s, delivered[s]>>] = "DELIVERED" /\ request'[<<s, 1>>] = "DELIVERED"
    BY <1>2, <1>4, <2>2, <2>3
  <2> QED
    BY <1>2, <1>4, <2>4 DEF RequestsFit, Shown
<1>6. RequestsFitScene'
  BY <1>1, <1>2, <1>5, OtherScenesFit DEF RequestsFitScene
<1>7. ~IsInitial(r)
  BY <1>2, <1>4, Keys
<1>8. OpenRegenerations' = {r}
  BY <1>2, <1>7 DEF OpenRegenerations, OpenRequestStates
<1>9. \A t \in Scene : t # s => scene'[t] = "READY"
  BY <1>2 DEF RowsInv, SceneRows, ScenesFitJob
<1>10. RevisionsFitJob'
  BY <1>1, <1>2, <1>8, <1>9 DEF RevisionsFitJob
<1> QED
  BY <1>3, <1>6, <1>10

\* The admission of a revision's attempt changes no scene.
LEMMA StartRevisionScenes ==
  ASSUME RowsInv, NEW r \in Request, AdmitRegenerationAttempt(r)
  PROVE  ScenesFitJob' /\ RequestsFitScene' /\ RevisionsFitJob'
<1> DEFINE s == SceneOf(r)
<1>1. s \in Scene
  BY Names
<1>2. /\ ~IsInitial(r) /\ request[r] = "PENDING"
      /\ job' = job /\ current' = current /\ scene' = scene /\ delivered' = delivered
      /\ request' = [request EXCEPT ![r] = "GENERATING"] /\ request'[r] = "GENERATING"
      /\ \A q \in Request : q # r => request'[q] = request[q]
  BY DEF AdmitRegenerationAttempt, jobVars, RowsInv, TypeOK
<1>3. r \in OpenRegenerations
  BY <1>2 DEF OpenRegenerations, OpenRequestStates
<1>4. scene[s] = "REVISING"
  BY <1>3, OpenRevisionPlace
<1>5. ScenesFitJob'
  BY <1>2 DEF RowsInv, SceneRows, ScenesFitJob
<1>6. RequestsFit(s)'
  <2>1. delivered[s] # 0 /\ request[<<s, delivered[s]>>] = "DELIVERED" /\ request[<<s, 1>>] = "DELIVERED"
    BY <1>1, <1>4 DEF RowsInv, SceneRows, RequestsFitScene, RequestsFit, Shown
  <2>2. delivered[s] \in 1..MaxRequests
    BY <1>1, <2>1 DEF RowsInv, TypeOK
  <2>3. <<s, delivered[s]>> \in Request /\ <<s, 1>> \in Request
    BY <1>1, <2>2, Keys
  <2>4. <<s, delivered[s]>> # r /\ <<s, 1>> # r
    BY <1>2, <2>1
  <2>5. request'[<<s, delivered[s]>>] = "DELIVERED" /\ request'[<<s, 1>>] = "DELIVERED"
    BY <1>2, <2>1, <2>3, <2>4
  <2> QED
    BY <1>2, <1>4, <2>1, <2>5 DEF RequestsFit, Shown
<1>7. RequestsFitScene'
  BY <1>1, <1>2, <1>6, OtherScenesFit DEF RequestsFitScene
<1>8. OpenRegenerations' = OpenRegenerations
  BY <1>2 DEF OpenRegenerations, OpenRequestStates
<1>9. RevisionsFitJob'
  BY <1>2, <1>8 DEF RowsInv, SceneRows, RevisionsFitJob
<1> QED
  BY <1>5, <1>7, <1>9

\* Every step keeps the scenes, their requests and the job together.
LEMMA SceneRowsInductive ==
  ASSUME RowsInv, [Next]_vars
  PROVE  SceneRows'
<1> DEFINE Fit == ScenesFitJob /\ RequestsFitScene /\ RevisionsFitJob
<1>1. ASSUME NEW a \in Attempt, AttemptStep(a) PROVE Fit'
  <2>1. CASE SettleExhausted(a)
    <3> DEFINE r == RequestOf(a)
    <3>1. r \in Request /\ request[r] = "GENERATING"
      BY <2>1, Names DEF SettleExhausted, ExhaustedDue, Disposition
    <3>2. CASE IsInitial(r)
      BY <2>1, <3>1, <3>2, FailScenes DEF SettleExhausted
    <3>3. CASE ~IsInitial(r)
      <4>1. r \in OpenRegenerations /\ RollBackRevision(r, "FAILED_TERMINAL")
        BY <2>1, <3>1, <3>3 DEF SettleExhausted, OpenRegenerations, OpenRequestStates
      <4> QED
        BY <4>1, RollBackScenes
    <3> QED
      BY <3>2, <3>3
  <2>2. CASE ~SettleExhausted(a)
    <3>1. UNCHANGED <<job, current, sceneVars>>
      BY <1>1, <2>2 DEF AttemptStep, Arm, EndQueuedAttempt, RecordOutcome, EnterUncertainty,
           Resolve, Exhaust, Reconcile, Complete, BeginIngestion, VerifyOutput, JudgeMedia,
           ClaimFailure, AdmitRecovery, ResolveWork, OnlyAttemptChanges, jobVars
    <3> QED
      BY <3>1, JobMovesAlone
  <2> QED
    BY <2>1, <2>2
<1>2. ASSUME NEW r \in Request, RequestStep(r) PROVE Fit'
  <2>1. CASE SettleAttemptFailure(r)
    <3>1. CASE IsInitial(r)
      BY <2>1, <3>1, FailScenes DEF SettleAttemptFailure, FailureDue
    <3>2. CASE ~IsInitial(r)
      <4>1. r \in OpenRegenerations /\ RollBackRevision(r, "FAILED_TERMINAL")
        BY <2>1, <3>2 DEF SettleAttemptFailure, FailureDue, OpenRegenerations, OpenRequestStates
      <4> QED
        BY <4>1, RollBackScenes
    <3> QED
      BY <3>1, <3>2
  <2> QED
    BY <1>2, <2>1, DeliverScenes, StartRevisionScenes DEF RequestStep
<1>3. ASSUME JobStep PROVE Fit'
  <2>1. CASE Launch
    BY <2>1, LaunchScenes
  <2>2. CASE \E s \in Scene : CloseFailedScene(s)
    BY <2>2, CloseScenes
  <2>3. CASE EndUnlaunchableJob
    <3>1. UNCHANGED sceneVars /\ job = "RESERVED" /\ job' = "FAILED_TERMINAL" /\ current = 0
      BY <2>3 DEF EndUnlaunchableJob, RestUnchanged, RowsInv, UnitFollowsVideo
    <3> QED
      BY <3>1, JobMovesAlone
  <2>4. CASE EndLaunchedJob
    <3>1. /\ UNCHANGED sceneVars /\ job' = "FAILED_TERMINAL" /\ current = 0
          /\ job \in {"GENERATING"} \cup AssemblyStates
      BY <2>4 DEF EndLaunchedJob, RestUnchanged, AssemblyStates
    <3> QED
      BY <3>1, JobMovesAlone
  <2>5. CASE \/ Plan \/ ClaimComposition \/ FinishComposition \/ BlockComposition
             \/ ClaimValidation \/ FinalizeValid \/ FinalizeInvalid
             \/ \E v \in Version : Publish(v)
    <3>1. /\ UNCHANGED sceneVars /\ job \in AssemblyStates
          /\ job' \in {"DELIVERABLE_READY", "FAILED_TERMINAL"} \cup AssemblyStates
      BY <2>5 DEF Plan, ClaimComposition, FinishComposition, BlockComposition,
           ClaimValidation, FinalizeValid, FinalizeInvalid, ValidationMoves, Publish,
           Publishable, SettleFailedDeliverable, RestUnchanged, AssemblyStates, jobVars
    <3> QED
      BY <3>1, JobMovesAlone
  <2> QED
    BY <1>3, <2>1, <2>2, <2>3, <2>4, <2>5 DEF JobStep
<1>4. ASSUME Customer PROVE Fit'
  <2>1. CASE Start
    BY <2>1, StartScenes
  <2>2. CASE DeleteProperty
    BY <2>2, JobMovesAlone DEF DeleteProperty, jobVars
  <2>3. ASSUME NEW r \in Request, AdmitRegeneration(r) PROVE Fit'
    BY <2>3, ReviseScenes
  <2>4. ASSUME NEW r \in Request, RollBackPendingRegeneration(r) PROVE Fit'
    BY <2>4, RollBackScenes DEF RollBackPendingRegeneration, OpenRegenerations, OpenRequestStates
  <2> QED
    BY <1>4, <2>1, <2>2, <2>3, <2>4 DEF Customer
<1>5. ASSUME UNCHANGED vars PROVE Fit'
  BY <1>5, JobMovesAlone DEF vars, jobVars
<1> QED
  BY <1>1, <1>2, <1>3, <1>4, <1>5, InUseInductive DEF Next, SceneRows

-----------------------------------------------------------------------------
(* What each transaction does to the attempts and what hangs on them.        *)

\* A request none of whose own rows a step writes.
LEMMA OtherRequestsFit ==
  ASSUME AttemptRows, NEW r \in Request, request'[r] = request[r],
         \A b \in AttemptsOf(r) : attempt'[b] = attempt[b] /\ verdict'[b] = verdict[b]
  PROVE  AttemptsFit(r)'
BY DEF AttemptRows, AttemptsFitRequest, AttemptsFit, Newest, NothingUnfinished, AttemptsOf

\* A request of which only its state changes.
LEMMA RequestMoveKeepsAttempts ==
  ASSUME RowsInv, NEW r \in Request, NEW to, request' = [request EXCEPT ![r] = to],
         UNCHANGED <<attempt, verdict>>,
         \/ to = "PENDING" /\ attempt[Primary(r)] = "ABSENT"
         \/ to = "CANCELLED" /\ attempt[Primary(r)] = "ABSENT"
         \/ /\ to = "DELIVERED"
            /\ attempt[Newest(r)] = "OUTPUT_VERIFIED" /\ verdict[Newest(r)] = "VALID"
         \/ to = "FAILED_TERMINAL" /\ NothingUnfinished(r)
  PROVE  AttemptsFitRequest'
<1>1. /\ request'[r] = to /\ attempt' = attempt /\ verdict' = verdict
      /\ \A q \in Request : q # r => request'[q] = request[q]
  BY DEF RowsInv, TypeOK
<1>2. AttemptsFit(r)'
  BY <1>1 DEF RowsInv, AttemptRows, AttemptsFitRequest, AttemptsFit, Newest, NothingUnfinished
<1>3. ASSUME NEW q \in Request, q # r PROVE AttemptsFit(q)'
  BY <1>1, <1>3, OtherRequestsFit DEF RowsInv
<1> QED
  BY <1>2, <1>3 DEF AttemptsFitRequest

LEMMA SameAttempts ==
  ASSUME AttemptRows, UNCHANGED <<request, attemptVars>>
  PROVE  AttemptRows'
BY DEF AttemptRows, AttemptsFitRequest, AttemptsFit, VerdictsFitOutput, VerdictFits,
       Newest, NothingUnfinished, attemptVars

LEMMA SameVerdicts ==
  ASSUME AttemptRows, UNCHANGED attemptVars
  PROVE  VerdictsFitOutput'
BY DEF AttemptRows, VerdictsFitOutput, VerdictFits, attemptVars

\* An attempt that can still move moves: its request is being generated.
LEMMA AttemptMoveKeepsAttempts ==
  ASSUME RowsInv, NEW a \in Attempt, attempt[a] \in ActiveAttemptStates,
         NEW to, to # "ABSENT", attempt' = [attempt EXCEPT ![a] = to],
         UNCHANGED <<request, verdict, work>>
  PROVE  AttemptRows'
<1> DEFINE r == RequestOf(a)
<1>1. /\ r \in Request /\ a \in AttemptsOf(r)
      /\ request[r] = "GENERATING" /\ verdict[a] = "NONE" /\ work[a] = "NONE"
  BY Names, Keys, ActiveAttemptPlace
<1>2. /\ attempt'[a] = to /\ \A b \in Attempt : b # a => attempt'[b] = attempt[b]
      /\ request' = request /\ verdict' = verdict /\ work' = work
  BY DEF RowsInv, TypeOK
<1>3. AttemptsFit(r)'
  <2>1. AttemptsFit(r)
    BY <1>1 DEF RowsInv, AttemptRows, AttemptsFitRequest
  <2>2. /\ attempt'[Primary(r)] = "ABSENT" => attempt[Primary(r)] = "ABSENT"
        /\ attempt'[Recovery(r)] # "ABSENT" => attempt[Recovery(r)] # "ABSENT"
    BY <1>1, <1>2, Names DEF ActiveAttemptStates
  <2> QED
    BY <1>1, <1>2, <2>1, <2>2 DEF AttemptsFit
<1>4. ASSUME NEW q \in Request, q # r PROVE AttemptsFit(q)'
  <2>1. a \notin AttemptsOf(q) /\ AttemptsOf(q) \subseteq Attempt
    BY <1>4, Names, Keys DEF AttemptsOf
  <2> QED
    BY <1>2, <2>1, OtherRequestsFit DEF RowsInv
<1>5. VerdictsFitOutput'
  BY <1>1, <1>2 DEF RowsInv, AttemptRows, VerdictsFitOutput, VerdictFits
<1> QED
  BY <1>3, <1>4, <1>5 DEF AttemptRows, AttemptsFitRequest

\* The first verdict of a clip; nothing rested on its absence.
LEMMA JudgeKeepsAttempts ==
  ASSUME RowsInv, NEW a \in Attempt, JudgeMedia(a)
  PROVE  AttemptRows'
<1>1. PICK v \in {"VALID", "INVALID"} : verdict' = [verdict EXCEPT ![a] = v]
  BY DEF JudgeMedia
<1>2. /\ attempt[a] = "OUTPUT_VERIFIED" /\ verdict[a] = "NONE" /\ verdict'[a] = v
      /\ \A b \in Attempt : b # a => verdict'[b] = verdict[b]
      /\ attempt' = attempt /\ request' = request /\ work' = work
  BY <1>1 DEF JudgeMedia, sceneVars, RowsInv, TypeOK
<1>3. ASSUME NEW r \in Request PROVE AttemptsFit(r)'
  <2>1. AttemptsFit(r)
    BY DEF RowsInv, AttemptRows, AttemptsFitRequest
  <2>2. Newest(r)' = Newest(r) /\ Newest(r) \in Attempt /\ NothingUnfinished(r)' = NothingUnfinished(r)
    BY <1>2, Names DEF Newest, NothingUnfinished
  <2>3. request[r] = "DELIVERED" => verdict'[Newest(r)] = "VALID"
    BY <1>2, <2>1, <2>2 DEF AttemptsFit
  <2>4. attempt[Recovery(r)] # "ABSENT" => verdict'[Primary(r)] = "INVALID"
    BY <1>2, <2>1, Names DEF AttemptsFit
  <2> QED
    BY <1>2, <2>1, <2>2, <2>3, <2>4 DEF AttemptsFit
<1>4. VerdictsFitOutput'
  BY <1>2 DEF RowsInv, AttemptRows, VerdictsFitOutput, VerdictFits
<1> QED
  BY <1>3, <1>4 DEF AttemptRows, AttemptsFitRequest

\* The work row of a clip that failed its validation.
LEMMA WorkKeepsAttempts ==
  ASSUME RowsInv, NEW a \in Attempt, verdict[a] = "INVALID", NEW to,
         work' = [work EXCEPT ![a] = to], UNCHANGED <<attempt, verdict>>
  PROVE  VerdictsFitOutput'
BY DEF RowsInv, TypeOK, AttemptRows, VerdictsFitOutput, VerdictFits

\* The one recovery of a request is admitted behind a clip that failed.
LEMMA RecoveryKeepsAttempts ==
  ASSUME RowsInv, NEW a \in Attempt, AdmitRecovery(a)
  PROVE  AttemptRows'
<1> DEFINE r == RequestOf(a)
           b == Recovery(r)
<1>1. /\ r \in Request /\ b \in Attempt /\ a = Primary(r) /\ a = Newest(r) /\ a # b
      /\ request[r] = "GENERATING" /\ work[a] = "OPEN"
  BY Names, Keys DEF AdmitRecovery, RecoveryDue
<1>2. attempt[b] = "ABSENT"
  BY <1>1 DEF Newest
<1>3. /\ verdict[a] = "INVALID" /\ attempt[a] = "OUTPUT_VERIFIED"
      /\ verdict[b] = "NONE" /\ work[b] = "NONE"
  BY <1>1, <1>2 DEF RowsInv, AttemptRows, VerdictsFitOutput, VerdictFits
<1>4. /\ attempt'[b] = "QUEUED" /\ \A c \in Attempt : c # b => attempt'[c] = attempt[c]
      /\ request' = request /\ verdict' = verdict /\ work' = work
  BY <1>1 DEF AdmitRecovery, OnlyAttemptChanges, sceneVars, RowsInv, TypeOK
<1>5. AttemptsFit(r)'
  BY <1>1, <1>3, <1>4 DEF AttemptsFit
<1>6. ASSUME NEW q \in Request, q # r PROVE AttemptsFit(q)'
  <2>1. b \notin AttemptsOf(q) /\ AttemptsOf(q) \subseteq Attempt
    BY <1>6, <1>1, Names, Keys DEF AttemptsOf
  <2> QED
    BY <1>4, <2>1, OtherRequestsFit DEF RowsInv
<1>7. VerdictsFitOutput'
  BY <1>3, <1>4 DEF RowsInv, AttemptRows, VerdictsFitOutput, VerdictFits
<1> QED
  BY <1>5, <1>6, <1>7 DEF AttemptRows, AttemptsFitRequest

\* A request without a PRIMARY attempt has no attempt at all.
LEMMA NothingAttempted ==
  ASSUME RowsInv, NEW r \in Request, attempt[Primary(r)] = "ABSENT"
  PROVE  \A b \in AttemptsOf(r) : attempt[b] = "ABSENT" /\ verdict[b] = "NONE" /\ work[b] = "NONE"
<1>1. attempt[Recovery(r)] = "ABSENT"
  BY Names DEF RowsInv, AttemptRows, AttemptsFitRequest, AttemptsFit, VerdictsFitOutput, VerdictFits
<1> QED
  BY <1>1, Names DEF RowsInv, AttemptRows, VerdictsFitOutput, VerdictFits, AttemptsOf

\* A revision's first attempt.
LEMMA StartRevisionKeepsAttempts ==
  ASSUME RowsInv, NEW r \in Request, AdmitRegenerationAttempt(r)
  PROVE  AttemptRows'
<1> DEFINE a == Primary(r)
<1>1. /\ a \in Attempt /\ Recovery(r) # a
      /\ \A b \in AttemptsOf(r) : attempt[b] = "ABSENT" /\ verdict[b] = "NONE" /\ work[b] = "NONE"
  BY Names, Keys, NothingAttempted DEF AdmitRegenerationAttempt, AttemptsOf
<1>2. /\ attempt'[a] = "QUEUED" /\ \A b \in Attempt : b # a => attempt'[b] = attempt[b]
      /\ request'[r] = "GENERATING" /\ \A q \in Request : q # r => request'[q] = request[q]
      /\ verdict' = verdict /\ work' = work
  BY <1>1 DEF AdmitRegenerationAttempt, RowsInv, TypeOK
<1>3. AttemptsFit(r)'
  BY <1>1, <1>2, Names DEF AttemptsFit, AttemptsOf
<1>4. ASSUME NEW q \in Request, q # r PROVE AttemptsFit(q)'
  <2>1. a \notin AttemptsOf(q) /\ AttemptsOf(q) \subseteq Attempt
    BY <1>4, Names, Keys DEF AttemptsOf
  <2> QED
    BY <1>2, <1>4, <2>1, OtherRequestsFit DEF RowsInv
<1>5. VerdictsFitOutput'
  BY <1>1, <1>2 DEF RowsInv, AttemptRows, VerdictsFitOutput, VerdictFits, AttemptsOf
<1> QED
  BY <1>3, <1>4, <1>5 DEF AttemptRows, AttemptsFitRequest

\* The launch admits the first attempt of every scene.
LEMMA LaunchKeepsAttempts ==
  ASSUME RowsInv, Launch
  PROVE  AttemptRows'
<1>1. \A a \in Attempt : attempt[a] = "ABSENT" /\ verdict[a] = "NONE" /\ work[a] = "NONE"
  BY DEF Launch, StartShape, RowsInv, AttemptRows, VerdictsFitOutput, VerdictFits
<1>2. /\ verdict' = verdict /\ work' = work
      /\ \A a \in Attempt :
           attempt'[a] = IF a = Primary(RequestOf(a)) /\ IsInitial(RequestOf(a))
                         THEN "QUEUED" ELSE "ABSENT"
      /\ \A r \in Request : request'[r] = IF IsInitial(r) THEN "GENERATING" ELSE "ABSENT"
  BY <1>1 DEF Launch, StartShape
<1>3. ASSUME NEW r \in Request PROVE AttemptsFit(r)'
  <2>1. /\ attempt'[Primary(r)] = IF IsInitial(r) THEN "QUEUED" ELSE "ABSENT"
        /\ attempt'[Recovery(r)] = "ABSENT"
    BY <1>2, Names, Keys
  <2> QED
    BY <1>2, <2>1 DEF AttemptsFit
<1>4. VerdictsFitOutput'
  BY <1>1, <1>2 DEF VerdictsFitOutput, VerdictFits
<1> QED
  BY <1>3, <1>4 DEF AttemptRows, AttemptsFitRequest

\* Transaction L closes a request and ends what was still queued for it.
LEMMA CloseKeepsAttempts ==
  ASSUME RowsInv, NEW s \in Scene, CloseFailedScene(s)
  PROVE  AttemptRows'
<1> DEFINE r == <<s, 1>>
<1>1. r \in Request
  BY Keys
<1>2. verdict' = verdict /\ work' = work
  BY DEF CloseFailedScene
<1>3. CASE /\ request[r] = "PENDING"
           /\ request' = [request EXCEPT ![r] = "CANCELLED"]
           /\ UNCHANGED attempt
  <2>1. attempt[Primary(r)] = "ABSENT"
    BY <1>1, <1>3 DEF RowsInv, AttemptRows, AttemptsFitRequest, AttemptsFit
  <2>2. AttemptsFitRequest'
    BY <1>1, <1>2, <1>3, <2>1, RequestMoveKeepsAttempts
  <2> QED
    BY <1>2, <1>3, <2>2, SameVerdicts DEF RowsInv, AttemptRows, attemptVars
<1>4. CASE /\ request[r] = "GENERATING"
           /\ NothingAtProvider(r)
           /\ request' = [request EXCEPT ![r] = "FAILED_TERMINAL"]
           /\ attempt' = [a \in Attempt |->
                            IF RequestOf(a) = r /\ attempt[a] = "QUEUED"
                            THEN "CANCELLED_PRE_SUBMISSION" ELSE attempt[a]]
  <2>1. /\ request'[r] = "FAILED_TERMINAL" /\ \A q \in Request : q # r => request'[q] = request[q]
        /\ \A a \in Attempt : attempt'[a] = IF RequestOf(a) = r /\ attempt[a] = "QUEUED"
                                            THEN "CANCELLED_PRE_SUBMISSION" ELSE attempt[a]
    BY <1>1, <1>4 DEF RowsInv, TypeOK
  <2>2. AttemptsFit(r)'
    <3>1. NothingUnfinished(r)'
      <4>1. ASSUME NEW b \in AttemptsOf(r)
            PROVE  attempt'[b] \in TerminalAttemptStates \cup {"ABSENT"}
        <5>1. b \in Attempt /\ RequestOf(b) = r
          BY <1>1, Names, Keys DEF AttemptsOf
        <5>2. attempt[b] \in TerminalAttemptStates \cup {"ABSENT", "QUEUED"}
          BY <1>4 DEF NothingAtProvider
        <5> QED
          BY <2>1, <5>1, <5>2 DEF TerminalAttemptStates
      <4> QED
        BY <4>1 DEF NothingUnfinished, AttemptsOf
    <3>2. attempt'[Recovery(r)] # "ABSENT" => attempt[Recovery(r)] # "ABSENT"
      BY <1>1, <2>1, Names
    <3> QED
      BY <1>1, <1>2, <2>1, <3>1, <3>2
      DEF RowsInv, AttemptRows, AttemptsFitRequest, AttemptsFit
  <2>3. ASSUME NEW q \in Request, q # r PROVE AttemptsFit(q)'
    <3>1. \A b \in AttemptsOf(q) : attempt'[b] = attempt[b] /\ verdict'[b] = verdict[b]
      BY <1>2, <2>1, <2>3, Names, Keys DEF AttemptsOf
    <3> QED
      BY <2>1, <2>3, <3>1, OtherRequestsFit DEF RowsInv
  <2>4. VerdictsFitOutput'
    BY <1>2, <2>1 DEF RowsInv, AttemptRows, VerdictsFitOutput, VerdictFits
  <2> QED
    BY <2>2, <2>3, <2>4 DEF AttemptRows, AttemptsFitRequest
<1> QED
  BY <1>3, <1>4 DEF CloseFailedScene

\* A start finds no attempt of the order.
LEMMA StartKeepsAttempts ==
  ASSUME RowsInv, Start
  PROVE  AttemptRows'
<1>1. /\ \A r \in Request : request[r] = "ABSENT" /\ request'[r] \in {"ABSENT", "PENDING"}
      /\ UNCHANGED attemptVars
  BY NothingStarted DEF Start
<1>2. AttemptsFitRequest'
  BY <1>1 DEF RowsInv, AttemptRows, AttemptsFitRequest, AttemptsFit, attemptVars
<1> QED
  BY <1>1, <1>2, SameVerdicts DEF RowsInv, AttemptRows

\* A recovery that failed too leaves its request with nothing unfinished.
LEMMA ExhaustedIsOver ==
  ASSUME RowsInv, NEW a \in Attempt, ExhaustedDue(a)
  PROVE  LET r == RequestOf(a)
         IN r \in Request /\ request[r] = "GENERATING" /\ NothingUnfinished(r)
            /\ verdict[a] = "INVALID" /\ a = Newest(r) /\ attempt[a] = "OUTPUT_VERIFIED"
<1> DEFINE r == RequestOf(a)
<1>1. r \in Request /\ request[r] = "GENERATING" /\ a = Newest(r) /\ a = Recovery(r) /\ work[a] = "OPEN"
  BY Names DEF ExhaustedDue, Disposition
<1>2. verdict[a] = "INVALID" /\ attempt[a] = "OUTPUT_VERIFIED"
  BY <1>1 DEF RowsInv, AttemptRows, VerdictsFitOutput, VerdictFits
<1>3. attempt[Primary(r)] = "OUTPUT_VERIFIED"
  BY <1>1, <1>2, Names
  DEF RowsInv, AttemptRows, AttemptsFitRequest, AttemptsFit, VerdictsFitOutput, VerdictFits
<1> QED
  BY <1>1, <1>2, <1>3 DEF NothingUnfinished, AttemptsOf, TerminalAttemptStates

\* Every step keeps the attempts, their verdicts and their requests together.
LEMMA AttemptRowsInductive ==
  ASSUME RowsInv, [Next]_vars
  PROVE  AttemptRows'
<1>1. ASSUME NEW a \in Attempt, AttemptStep(a) PROVE AttemptRows'
  <2>1. CASE \/ Arm(a) \/ EndQueuedAttempt(a) \/ RecordOutcome(a) \/ EnterUncertainty(a)
             \/ Resolve(a) \/ Exhaust(a) \/ Complete(a) \/ BeginIngestion(a) \/ VerifyOutput(a)
    <3>1. attempt[a] \in ActiveAttemptStates /\ UNCHANGED <<request, verdict, work>>
      BY <2>1 DEF Arm, EndQueuedAttempt, RecordOutcome, EnterUncertainty, Resolve, Exhaust,
         Reconcile, Complete, BeginIngestion, VerifyOutput, AttemptMoves, OnlyAttemptChanges,
         ActiveAttemptStates, sceneVars
    <3>2. PICK to : to # "ABSENT" /\ attempt' = [attempt EXCEPT ![a] = to]
      BY <2>1 DEF Arm, EndQueuedAttempt, RecordOutcome, EnterUncertainty, Resolve, Exhaust,
         Reconcile, Complete, BeginIngestion, VerifyOutput, AttemptMoves
    <3> QED
      BY <3>1, <3>2, AttemptMoveKeepsAttempts
  <2>2. CASE JudgeMedia(a)
    BY <2>2, JudgeKeepsAttempts
  <2>3. CASE AdmitRecovery(a)
    BY <2>3, RecoveryKeepsAttempts
  <2>4. CASE ClaimFailure(a) \/ ResolveWork(a)
    <3>1. /\ verdict[a] = "INVALID" /\ UNCHANGED <<request, attempt, verdict>>
          /\ \E to : work' = [work EXCEPT ![a] = to]
      BY <2>4 DEF ClaimFailure, ResolveWork, sceneVars, RowsInv, AttemptRows,
         VerdictsFitOutput, VerdictFits
    <3>2. AttemptsFitRequest'
      BY <3>1 DEF RowsInv, AttemptRows, AttemptsFitRequest, AttemptsFit, Newest, NothingUnfinished
    <3> QED
      BY <3>1, <3>2, WorkKeepsAttempts DEF AttemptRows
  <2>5. CASE SettleExhausted(a)
    <3> DEFINE r == RequestOf(a)
    <3>1. r \in Request /\ NothingUnfinished(r) /\ verdict[a] = "INVALID"
      BY <2>5, ExhaustedIsOver DEF SettleExhausted
    <3>2. /\ request' = [request EXCEPT ![r] = "FAILED_TERMINAL"]
          /\ UNCHANGED <<attempt, verdict>> /\ work' = [work EXCEPT ![a] = "RESOLVED"]
      BY <2>5 DEF SettleExhausted, FailInitial, RollBackRevision
    <3> QED
      BY <3>1, <3>2, RequestMoveKeepsAttempts, WorkKeepsAttempts DEF AttemptRows
  <2> QED
    BY <1>1, <2>1, <2>2, <2>3, <2>4, <2>5 DEF AttemptStep
<1>2. ASSUME NEW r \in Request, RequestStep(r) PROVE AttemptRows'
  <2>1. CASE Deliver(r)
    BY <2>1, RequestMoveKeepsAttempts, SameVerdicts
    DEF Deliver, DeliveryDue, RowsInv, AttemptRows, attemptVars
  <2>2. CASE SettleAttemptFailure(r)
    <3>1. /\ request' = [request EXCEPT ![r] = "FAILED_TERMINAL"] /\ UNCHANGED attemptVars
          /\ NothingUnfinished(r)
      BY <2>2 DEF SettleAttemptFailure, FailInitial, RollBackRevision, FailureDue,
         AttemptsOver, NothingUnfinished
    <3> QED
      BY <3>1, RequestMoveKeepsAttempts, SameVerdicts DEF RowsInv, AttemptRows, attemptVars
  <2> QED
    BY <1>2, <2>1, <2>2, StartRevisionKeepsAttempts DEF RequestStep
<1>3. ASSUME JobStep PROVE AttemptRows'
  <2>1. CASE ~Launch /\ ~(\E s \in Scene : CloseFailedScene(s))
    <3>1. UNCHANGED <<request, attemptVars>>
      BY <1>3, <2>1 DEF JobStep, EndUnlaunchableJob, EndLaunchedJob, Plan, ClaimComposition,
         FinishComposition, BlockComposition, ClaimValidation, FinalizeValid, FinalizeInvalid,
         Publish, RestUnchanged, sceneVars
    <3> QED
      BY <3>1, SameAttempts DEF RowsInv
  <2> QED
    BY <2>1, LaunchKeepsAttempts, CloseKeepsAttempts
<1>4. ASSUME Customer PROVE AttemptRows'
  <2>1. CASE DeleteProperty
    BY <2>1, SameAttempts DEF DeleteProperty, sceneVars, RowsInv
  <2>2. ASSUME NEW r \in Request, AdmitRegeneration(r) PROVE AttemptRows'
    <3>1. request[r] = "ABSENT" /\ request' = [request EXCEPT ![r] = "PENDING"] /\ UNCHANGED attemptVars
      BY <2>2 DEF AdmitRegeneration, RegenerationAllowed
    <3>2. attempt[Primary(r)] = "ABSENT"
      BY <3>1 DEF RowsInv, AttemptRows, AttemptsFitRequest, AttemptsFit
    <3> QED
      BY <3>1, <3>2, RequestMoveKeepsAttempts, SameVerdicts DEF RowsInv, AttemptRows, attemptVars
  <2>3. ASSUME NEW r \in Request, RollBackPendingRegeneration(r) PROVE AttemptRows'
    <3>1. PICK to \in {"CANCELLED", "FAILED_TERMINAL"} : request' = [request EXCEPT ![r] = to]
      BY <2>3 DEF RollBackPendingRegeneration, RollBackRevision
    <3>2. UNCHANGED attemptVars /\ NothingUnfinished(r) /\ attempt[Primary(r)] = "ABSENT"
      BY <2>3 DEF RollBackPendingRegeneration, NothingUnfinished, AttemptsOf
    <3> QED
      BY <3>1, <3>2, RequestMoveKeepsAttempts, SameVerdicts DEF RowsInv, AttemptRows, attemptVars
  <2> QED
    BY <1>4, <2>1, <2>2, <2>3, StartKeepsAttempts DEF Customer
<1>5. ASSUME UNCHANGED vars PROVE AttemptRows'
  BY <1>5, SameAttempts DEF vars, sceneVars, RowsInv
<1> QED
  BY <1>1, <1>2, <1>3, <1>4, <1>5 DEF Next

-----------------------------------------------------------------------------
(* What each transaction does to the Unit.                                   *)

\* An attempt that can still move belongs to a job that is generating or failed.
LEMMA ActiveJobPlace ==
  ASSUME RowsInv, NEW a \in Attempt, attempt[a] \in ActiveAttemptStates
  PROVE  LET r == RequestOf(a)
         IN /\ job \in {"GENERATING", "FAILED_TERMINAL"}
            /\ IsInitial(r) => current = 0 /\ reservation # "CONSUMED"
            /\ ~IsInitial(r) => job = "GENERATING" /\ current # 0 /\ reservation = "CONSUMED"
<1> DEFINE r == RequestOf(a)
<1>1. r \in Request /\ request[r] = "GENERATING"
  BY Names, ActiveAttemptPlace
<1>2. CASE IsInitial(r)
  BY <1>1, <1>2, InitialRequestPlace DEF InitialShape, RowsInv, UnitFollowsVideo
<1>3. CASE ~IsInitial(r)
  <2>1. r \in OpenRegenerations
    BY <1>1, <1>3 DEF OpenRegenerations, OpenRequestStates
  <2> QED
    BY <1>3, <2>1, OpenRevisionPlace DEF RevisionShape
<1> QED
  BY <1>2, <1>3

\* While one first clip is missing, a scene other than the one delivered is.
LEMMA BusyScene ==
  ASSUME RowsInv, NEW r \in Request, IsInitial(r),
         NEW q \in Request, IsInitial(q), request[q] = "GENERATING", q # r
  PROVE  ~OthersReady(SceneOf(r))
<1>1. scene[SceneOf(q)] = "GENERATING"
  BY InitialRequestPlace DEF InitialShape
<1>2. SceneOf(q) # SceneOf(r)
  BY Keys
<1> QED
  BY <1>1, <1>2, Names DEF OthersReady

\* A step of attempts whose request is open cannot make a failed request whole.
LEMMA FailureStaysDue ==
  ASSUME RowsInv, NEW q \in Request, FailureDue(q), job' = job, request'[q] = request[q],
         \A b \in AttemptsOf(q) : attempt'[b] = attempt[b]
  PROVE  FailureDue(q)'
BY DEF FailureDue, AttemptsOver, Newest, AttemptsOf

\* Nothing of what the Unit depends on moves, or what was due stays due.
LEMMA SameMoney ==
  ASSUME RowsInv, UNCHANGED <<reservation, current>>,
         \A b \in Attempt :
           attempt'[b] = "RECONCILIATION_PENDING" <=> attempt[b] = "RECONCILIATION_PENDING",
         \A q \in Request : IsInitial(q) /\ FailureDue(q) /\ reservation = "RELEASED" =>
           job' = "FAILED_TERMINAL" \/ FailureDue(q)',
         job = "FAILED_TERMINAL" => job' = "FAILED_TERMINAL",
         job' \in AssemblyStates /\ current = 0 => reservation = "RESERVED"
  PROVE  MoneyRows'
BY DEF RowsInv, MoneyRows, HoldHasReason, ReturnedUnitMeansFailure

\* An attempt that moves within what is certain.
LEMMA CertainMoveKeepsMoney ==
  ASSUME RowsInv, NEW a \in Attempt, NEW to,
         attempt[a] \in ActiveAttemptStates \ {"RECONCILIATION_PENDING"},
         to # "RECONCILIATION_PENDING", attempt' = [attempt EXCEPT ![a] = to],
         UNCHANGED <<jobVars, request>>
  PROVE  MoneyRows'
<1>1. /\ attempt'[a] = to /\ \A b \in Attempt : b # a => attempt'[b] = attempt[b]
      /\ job' = job /\ reservation' = reservation /\ current' = current /\ request' = request
  BY DEF RowsInv, TypeOK, jobVars
<1>2. ASSUME NEW q \in Request, FailureDue(q) PROVE FailureDue(q)'
  <2>1. a \notin AttemptsOf(q) /\ AttemptsOf(q) \subseteq Attempt
    BY <1>2, Names DEF FailureDue, AttemptsOver, TerminalAttemptStates, ActiveAttemptStates, AttemptsOf
  <2> QED
    BY <1>1, <1>2, <2>1, FailureStaysDue
<1>3. job \in AssemblyStates /\ current = 0 => reservation = "RESERVED"
  BY DEF RowsInv, MoneyRows, ReturnedUnitMeansFailure
<1> QED
  BY <1>1, <1>2, <1>3, SameMoney

\* Uncertainty puts a held Unit on hold.
LEMMA UncertaintyKeepsMoney ==
  ASSUME RowsInv, NEW a \in Attempt, EnterUncertainty(a)
  PROVE  MoneyRows'
<1>1. /\ attempt[a] = "SUBMITTING" /\ attempt'[a] = "RECONCILIATION_PENDING"
      /\ \A b \in Attempt : b # a => attempt'[b] = attempt[b]
      /\ job' = job /\ current' = current /\ request' = request
      /\ reservation' = IF reservation = "RESERVED" THEN "RECONCILIATION_HOLD" ELSE reservation
  BY DEF EnterUncertainty, AttemptMoves, sceneVars, RowsInv, TypeOK
<1>2. /\ job \in {"GENERATING", "FAILED_TERMINAL"}
      /\ IsInitial(RequestOf(a)) => reservation # "CONSUMED"
  BY <1>1, ActiveJobPlace DEF ActiveAttemptStates
<1>3. reservation \in {"RESERVED", "RECONCILIATION_HOLD", "CONSUMED", "RELEASED"}
  BY <1>2 DEF RowsInv, SceneRows, InUse, UnitFollowsVideo
<1>4. HoldHasReason'
  <2>1. \E b \in Attempt : attempt'[b] = "RECONCILIATION_PENDING"
    BY <1>1
  <2>2. ASSUME NEW b \in Attempt, attempt'[b] = "RECONCILIATION_PENDING", IsInitial(RequestOf(b))
        PROVE  reservation' \in {"RECONCILIATION_HOLD", "RELEASED"}
    BY <1>1, <1>2, <1>3, <2>2 DEF RowsInv, MoneyRows, HoldHasReason
  <2> QED
    BY <2>1, <2>2 DEF HoldHasReason
<1>5. ReturnedUnitMeansFailure'
  <2>1. ASSUME NEW q \in Request, FailureDue(q) PROVE FailureDue(q)'
    <3>1. a \notin AttemptsOf(q) /\ AttemptsOf(q) \subseteq Attempt
      BY <1>1, <2>1, Names DEF FailureDue, AttemptsOver, TerminalAttemptStates, AttemptsOf
    <3> QED
      BY <1>1, <2>1, <3>1, FailureStaysDue
  <2>2. job' \notin AssemblyStates
    BY <1>1, <1>2 DEF AssemblyStates
  <2> QED
    BY <1>1, <2>1, <2>2 DEF RowsInv, MoneyRows, ReturnedUnitMeansFailure
<1> QED
  BY <1>4, <1>5 DEF MoneyRows

\* An answer restores a hold, keeps it for another uncertain attempt, or gives
\* the Unit back behind the request that failed with the answer.
LEMMA ReconcileKeepsMoney ==
  ASSUME RowsInv, NEW a \in Attempt,
         NEW to \in {"PROCESSING", "FAILED_RETRYABLE", "FAILED_TERMINAL",
                     "RECONCILIATION_EXHAUSTED"},
         Reconcile(a, to)
  PROVE  MoneyRows'
<1> DEFINE r == RequestOf(a)
<1>1. /\ attempt[a] = "RECONCILIATION_PENDING" /\ attempt'[a] = to
      /\ \A b \in Attempt : b # a => attempt'[b] = attempt[b]
      /\ job' = job /\ current' = current /\ request' = request
      /\ reservation' = ReservationAfter(a, to)
  BY DEF Reconcile, AttemptMoves, sceneVars, RowsInv, TypeOK
<1>2. /\ r \in Request /\ request[r] = "GENERATING" /\ a = Newest(r) /\ a \in AttemptsOf(r)
      /\ \A b \in AttemptsOf(r) : b # a => attempt[b] \in {"ABSENT", "OUTPUT_VERIFIED"}
  BY <1>1, Names, Keys, ActiveAttemptPlace DEF ActiveAttemptStates
<1>3. /\ job \in {"GENERATING", "FAILED_TERMINAL"}
      /\ IsInitial(r) => current = 0 /\ reservation # "CONSUMED"
      /\ ~IsInitial(r) => job = "GENERATING" /\ current # 0 /\ reservation = "CONSUMED"
  BY <1>1, ActiveJobPlace DEF ActiveAttemptStates
<1>4. job' \notin AssemblyStates
  BY <1>1, <1>3 DEF AssemblyStates
<1>5. CASE reservation # "RECONCILIATION_HOLD"
  <2>1. reservation' = reservation
    BY <1>1, <1>5 DEF ReservationAfter
  <2>2. ASSUME NEW q \in Request, FailureDue(q) PROVE FailureDue(q)'
    <3>1. a \notin AttemptsOf(q) /\ AttemptsOf(q) \subseteq Attempt
      BY <1>1, <2>2, Names DEF FailureDue, AttemptsOver, TerminalAttemptStates, AttemptsOf
    <3> QED
      BY <1>1, <2>2, <3>1, FailureStaysDue
  <2>3. HoldHasReason'
    BY <1>1, <1>5, <2>1 DEF RowsInv, MoneyRows, HoldHasReason
  <2>4. ReturnedUnitMeansFailure'
    BY <1>1, <1>4, <2>1, <2>2 DEF RowsInv, MoneyRows, ReturnedUnitMeansFailure
  <2> QED
    BY <2>3, <2>4 DEF MoneyRows
<1>6. CASE reservation = "RECONCILIATION_HOLD" /\ to \notin {"PROCESSING", "FAILED_RETRYABLE"}
  <2>1. reservation' = "RELEASED" /\ to \in EndedWithoutOutput
    BY <1>1, <1>6 DEF ReservationAfter, EndedWithoutOutput, TerminalAttemptStates
  <2>2. IsInitial(r) /\ job = "GENERATING"
    BY <1>3, <1>6 DEF RowsInv, UnitFollowsVideo
  <2>3. \A b \in AttemptsOf(r) : attempt'[b] \in TerminalAttemptStates \cup {"ABSENT"}
    <3>1. AttemptsOf(r) \subseteq Attempt
      BY <1>2, Names DEF AttemptsOf
    <3> QED
      BY <1>1, <1>2, <2>1, <3>1 DEF TerminalAttemptStates, EndedWithoutOutput
  <2>4. Newest(r)' = a
    BY <1>1, <1>2, <2>1, Names, Keys DEF Newest, EndedWithoutOutput, TerminalAttemptStates
  <2>5. FailureDue(r)'
    BY <1>1, <1>2, <2>1, <2>2, <2>3, <2>4 DEF FailureDue, AttemptsOver, AttemptsOf
  <2> QED
    BY <1>2, <1>4, <2>1, <2>2, <2>5 DEF MoneyRows, HoldHasReason, ReturnedUnitMeansFailure
<1>7. CASE reservation = "RECONCILIATION_HOLD" /\ to \in {"PROCESSING", "FAILED_RETRYABLE"}
  <2>1. CASE OtherPendingUnknown(a)
    <3>1. reservation' = "RECONCILIATION_HOLD"
      BY <1>1, <1>7, <2>1 DEF ReservationAfter
    <3>2. \E b \in Attempt : attempt'[b] = "RECONCILIATION_PENDING"
      BY <1>1, <2>1 DEF OtherPendingUnknown
    <3> QED
      BY <1>4, <3>1, <3>2 DEF MoneyRows, HoldHasReason, ReturnedUnitMeansFailure
  <2>2. CASE ~OtherPendingUnknown(a)
    <3>1. reservation' = "RESERVED"
      BY <1>1, <1>7, <2>2 DEF ReservationAfter
    <3>2. \A b \in Attempt : attempt'[b] # "RECONCILIATION_PENDING"
      BY <1>1, <1>7, <2>2 DEF OtherPendingUnknown
    <3> QED
      BY <1>4, <3>1, <3>2 DEF MoneyRows, HoldHasReason, ReturnedUnitMeansFailure
  <2> QED
    BY <2>1, <2>2
<1> QED
  BY <1>5, <1>6, <1>7

\* Where no first video is uncertain, a Unit may be spent or plainly held.
LEMMA SettledMoney ==
  ASSUME \/ reservation' = "RELEASED" /\ job' = "FAILED_TERMINAL"
         \/ /\ reservation' \in {"CONSUMED", "RESERVED"}
            /\ reservation' = "CONSUMED" /\ job' \in AssemblyStates => current' # 0
            /\ \A a \in Attempt : IsInitial(RequestOf(a)) => attempt'[a] # "RECONCILIATION_PENDING"
  PROVE  MoneyRows'
BY DEF MoneyRows, HoldHasReason, ReturnedUnitMeansFailure, AssemblyStates

\* Behind a video no first clip is uncertain any more.
LEMMA SpentIsCertain ==
  ASSUME RowsInv, current # 0 \/ job \in AssemblyStates
  PROVE  /\ \A a \in Attempt : IsInitial(RequestOf(a)) => attempt[a] # "RECONCILIATION_PENDING"
         /\ current # 0 => reservation = "CONSUMED"
<1>1. ASSUME NEW a \in Attempt, IsInitial(RequestOf(a)), attempt[a] = "RECONCILIATION_PENDING"
      PROVE  FALSE
  BY <1>1, ActiveJobPlace DEF ActiveAttemptStates, AssemblyStates
<1> QED
  BY <1>1 DEF RowsInv, UnitFollowsVideo

\* The last clip of a first video is delivered under a plainly held Unit.
LEMMA DeliverKeepsMoney ==
  ASSUME RowsInv, NEW r \in Request, Deliver(r)
  PROVE  MoneyRows'
<1>1. /\ request[r] = "GENERATING" /\ job = "GENERATING" /\ attempt[Newest(r)] = "OUTPUT_VERIFIED"
      /\ job' = IF OthersReady(SceneOf(r)) THEN "SCENES_READY" ELSE job
      /\ reservation' = reservation /\ current' = current
      /\ attempt' = attempt /\ verdict' = verdict
      /\ \A q \in Request : q # r => request'[q] = request[q]
  BY DEF Deliver, DeliveryDue, attemptVars, RowsInv, TypeOK
<1>2. CASE current # 0
  <2>1. reservation' = "CONSUMED" /\ current' # 0
    BY <1>1, <1>2, SpentIsCertain
  <2> QED
    BY <1>1, <1>2, <2>1, SpentIsCertain, SettledMoney
<1>3. CASE current = 0
  <2>1. IsInitial(r)
    <3>1. ~IsInitial(r) => r \in OpenRegenerations
      BY <1>1 DEF OpenRegenerations, OpenRequestStates
    <3> QED
      BY <1>3, <3>1, OpenRevisionPlace DEF RevisionShape
  <2>2. ASSUME NEW q \in Request, IsInitial(q), FailureDue(q)
        PROVE  FailureDue(q)' /\ ~OthersReady(SceneOf(r))
    <3>1. q # r /\ request[q] = "GENERATING"
      BY <1>1, <2>2 DEF FailureDue, AttemptsOver, EndedWithoutOutput
    <3>2. ~OthersReady(SceneOf(r))
      BY <2>1, <2>2, <3>1, BusyScene
    <3> QED
      BY <1>1, <2>2, <3>1, <3>2, FailureStaysDue
  <2>3. ASSUME NEW a \in Attempt, attempt[a] = "RECONCILIATION_PENDING"
        PROVE  ~OthersReady(SceneOf(r))
    <3> DEFINE q == RequestOf(a)
    <3>1. q \in Request /\ request[q] = "GENERATING" /\ a = Newest(q) /\ IsInitial(q)
      BY <1>3, <2>3, Names, ActiveAttemptPlace, ActiveJobPlace DEF ActiveAttemptStates
    <3>2. q # r
      BY <1>1, <2>3, <3>1
    <3> QED
      BY <2>1, <3>1, <3>2, BusyScene
  <2>4. OthersReady(SceneOf(r)) => reservation = "RESERVED"
    <3>1. reservation \in {"RESERVED", "RECONCILIATION_HOLD", "RELEASED"}
      BY <1>1, <1>3 DEF RowsInv, SceneRows, InUse, UnitFollowsVideo
    <3> QED
      BY <1>1, <2>2, <2>3, <3>1
      DEF RowsInv, MoneyRows, HoldHasReason, ReturnedUnitMeansFailure
  <2>5. job' \in AssemblyStates => OthersReady(SceneOf(r))
    BY <1>1 DEF AssemblyStates
  <2> QED
    BY <1>1, <2>2, <2>4, <2>5, SameMoney
<1> QED
  BY <1>2, <1>3

\* Every step keeps the Unit and what it was held or given back for together.
LEMMA MoneyRowsInductive ==
  ASSUME RowsInv, [Next]_vars
  PROVE  MoneyRows'
<1>1. job \in AssemblyStates /\ current = 0 => reservation = "RESERVED"
  BY DEF RowsInv, MoneyRows, ReturnedUnitMeansFailure
<1>2. ASSUME NEW r \in Request, request[r] = "GENERATING", job = "GENERATING",
             \/ IsInitial(r) /\ FailInitial(r)
             \/ ~IsInitial(r) /\ RollBackRevision(r, "FAILED_TERMINAL")
                /\ UNCHANGED attempt
      PROVE  MoneyRows'
  <2>1. CASE IsInitial(r)
    BY <1>2, <2>1, SettledMoney DEF FailInitial
  <2>2. CASE ~IsInitial(r)
    <3>1. r \in OpenRegenerations
      BY <1>2, <2>2 DEF OpenRegenerations, OpenRequestStates
    <3>2. current # 0 /\ reservation = "CONSUMED"
      BY <3>1, OpenRevisionPlace DEF RevisionShape
    <3>3. reservation' = "CONSUMED" /\ current' # 0 /\ UNCHANGED attempt
      BY <1>2, <2>2, <3>2 DEF RollBackRevision
    <3> QED
      BY <3>2, <3>3, SpentIsCertain, SettledMoney
  <2> QED
    BY <2>1, <2>2
<1>3. ASSUME NEW a \in Attempt, AttemptStep(a) PROVE MoneyRows'
  <2>1. CASE \/ Arm(a) \/ EndQueuedAttempt(a) \/ RecordOutcome(a)
             \/ Complete(a) \/ BeginIngestion(a) \/ VerifyOutput(a)
    <3>1. /\ attempt[a] \in ActiveAttemptStates \ {"RECONCILIATION_PENDING"}
          /\ UNCHANGED <<jobVars, request>>
      BY <2>1 DEF Arm, EndQueuedAttempt, RecordOutcome, Complete, BeginIngestion,
         VerifyOutput, AttemptMoves, OnlyAttemptChanges, ActiveAttemptStates, sceneVars
    <3>2. PICK to : to # "RECONCILIATION_PENDING" /\ attempt' = [attempt EXCEPT ![a] = to]
      BY <2>1 DEF Arm, EndQueuedAttempt, RecordOutcome, Complete, BeginIngestion,
         VerifyOutput, AttemptMoves
    <3> QED
      BY <3>1, <3>2, CertainMoveKeepsMoney
  <2>2. CASE Resolve(a) \/ Exhaust(a)
    BY <2>2, ReconcileKeepsMoney DEF Resolve, Exhaust
  <2>3. CASE JudgeMedia(a) \/ ClaimFailure(a) \/ ResolveWork(a)
    <3>1. UNCHANGED <<jobVars, request, attempt>>
      BY <2>3 DEF JudgeMedia, ClaimFailure, ResolveWork, sceneVars
    <3> QED
      BY <1>1, <3>1, FailureStaysDue, SameMoney DEF jobVars
  <2>4. CASE AdmitRecovery(a)
    <3> DEFINE r == RequestOf(a)
    <3>1. /\ r \in Request /\ a = Newest(r) /\ a = Primary(r) /\ work[a] = "OPEN"
          /\ Recovery(r) \in Attempt /\ Recovery(r) # a
      BY <2>4, Names, Keys DEF AdmitRecovery, RecoveryDue
    <3>2. attempt[a] = "OUTPUT_VERIFIED" /\ attempt[Recovery(r)] = "ABSENT"
      BY <3>1 DEF RowsInv, AttemptRows, VerdictsFitOutput, VerdictFits, Newest
    <3>3. /\ attempt'[Recovery(r)] = "QUEUED"
          /\ \A b \in Attempt : b # Recovery(r) => attempt'[b] = attempt[b]
          /\ UNCHANGED <<jobVars, request>>
      BY <2>4, <3>1 DEF AdmitRecovery, OnlyAttemptChanges, sceneVars, RowsInv, TypeOK
    <3>4. ASSUME NEW q \in Request, FailureDue(q) PROVE FailureDue(q)'
      <4>1. q # r
        BY <3>1, <3>2, <3>4 DEF FailureDue, AttemptsOver, EndedWithoutOutput
      <4>2. Recovery(r) \notin AttemptsOf(q) /\ AttemptsOf(q) \subseteq Attempt
        BY <3>1, <4>1, Names, Keys DEF AttemptsOf
      <4> QED
        BY <3>3, <3>4, <4>2, FailureStaysDue DEF jobVars
    <3> QED
      BY <1>1, <3>2, <3>3, <3>4, SameMoney DEF jobVars
  <2>5. CASE SettleExhausted(a)
    BY <1>2, <2>5, Names DEF SettleExhausted, ExhaustedDue, Disposition
  <2> QED
    BY <1>3, <2>1, <2>2, <2>3, <2>4, <2>5, UncertaintyKeepsMoney DEF AttemptStep
<1>4. ASSUME NEW r \in Request, RequestStep(r) PROVE MoneyRows'
  <2>1. CASE SettleAttemptFailure(r)
    BY <1>2, <2>1 DEF SettleAttemptFailure, FailureDue, attemptVars
  <2>2. CASE AdmitRegenerationAttempt(r)
    <3>1. r \in OpenRegenerations
      BY <2>2 DEF AdmitRegenerationAttempt, OpenRegenerations, OpenRequestStates
    <3>2. current # 0 /\ reservation = "CONSUMED"
      BY <3>1, OpenRevisionPlace DEF RevisionShape
    <3>3. /\ reservation' = "CONSUMED" /\ current' # 0
          /\ \A b \in Attempt : attempt'[b] \in {attempt[b], "QUEUED"}
      BY <2>2, <3>2 DEF AdmitRegenerationAttempt, jobVars, RowsInv, TypeOK
    <3> QED
      BY <3>2, <3>3, SpentIsCertain, SettledMoney
  <2> QED
    BY <1>4, <2>1, <2>2, DeliverKeepsMoney DEF RequestStep
<1>5. ASSUME JobStep PROVE MoneyRows'
  <2>1. CASE Launch
    <3>1. /\ reservation' = "RESERVED"
          /\ \A a \in Attempt : attempt'[a] \in {"ABSENT", "QUEUED"}
      BY <2>1 DEF Launch, StartShape
    <3> QED
      BY <3>1, SettledMoney
  <2>2. CASE EndUnlaunchableJob \/ EndLaunchedJob
    BY <2>2, SettledMoney DEF EndUnlaunchableJob, EndLaunchedJob
  <2>3. ASSUME NEW s \in Scene, CloseFailedScene(s) PROVE MoneyRows'
    BY <2>3, SettledMoney DEF CloseFailedScene, ClosableScene, jobVars, RowsInv, UnitFollowsVideo
  <2>4. CASE \/ Plan \/ ClaimComposition \/ FinishComposition \/ BlockComposition
             \/ ClaimValidation \/ FinalizeValid \/ FinalizeInvalid
             \/ \E v \in Version : Publish(v)
    <3>1. job \in AssemblyStates /\ UNCHANGED attempt
      BY <2>4 DEF Plan, ClaimComposition, FinishComposition, BlockComposition,
           ClaimValidation, FinalizeValid, FinalizeInvalid, ValidationMoves, Publish,
           Publishable, RestUnchanged, AssemblyStates, attemptVars
    <3>2. \/ UNCHANGED <<reservation, current>> /\ job' \in AssemblyStates
          \/ SettleFailedDeliverable
          \/ reservation' = "CONSUMED" /\ current' # 0
      BY <2>4 DEF Plan, ClaimComposition, FinishComposition, BlockComposition,
           ClaimValidation, FinalizeValid, FinalizeInvalid, ValidationMoves, Publish,
           AssemblyStates, jobVars, Version
    <3>3. \/ reservation' = "RELEASED" /\ job' = "FAILED_TERMINAL"
          \/ reservation' = "CONSUMED" /\ current' # 0
          \/ reservation' = "RESERVED"
      BY <1>1, <3>1, <3>2, SpentIsCertain DEF SettleFailedDeliverable
    <3> QED
      BY <3>1, <3>3, SpentIsCertain, SettledMoney
  <2> QED
    BY <1>5, <2>1, <2>2, <2>3, <2>4 DEF JobStep
<1>6. ASSUME Customer PROVE MoneyRows'
  <2>1. CASE Start
    <3>1. /\ reservation' = "RESERVED" /\ UNCHANGED attempt
          /\ \A r \in Request : request[r] = "ABSENT"
      BY <2>1, NothingStarted DEF Start, attemptVars
    <3>2. \A a \in Attempt : attempt[a] # "RECONCILIATION_PENDING"
      BY <3>1, Names, ActiveAttemptPlace DEF ActiveAttemptStates
    <3> QED
      BY <3>1, <3>2, SettledMoney
  <2>2. CASE DeleteProperty
    BY <1>1, <2>2, FailureStaysDue, SameMoney DEF DeleteProperty, jobVars, sceneVars, attemptVars
  <2>3. ASSUME NEW r \in Request, AdmitRegeneration(r) \/ RollBackPendingRegeneration(r)
        PROVE  MoneyRows'
    <3>1. /\ current # 0 /\ reservation = "CONSUMED" /\ current' # 0
          /\ UNCHANGED <<reservation, attempt>>
      BY <2>3 DEF AdmitRegeneration, RegenerationAllowed, RollBackPendingRegeneration,
         RollBackRevision, RevisionShape, attemptVars
    <3> QED
      BY <3>1, SpentIsCertain, SettledMoney
  <2> QED
    BY <1>6, <2>1, <2>2, <2>3 DEF Customer
<1>7. ASSUME UNCHANGED vars PROVE MoneyRows'
  BY <1>1, <1>7, FailureStaysDue, SameMoney DEF vars, jobVars, sceneVars, attemptVars
<1> QED
  BY <1>3, <1>4, <1>5, <1>6, <1>7 DEF Next

\* The rows of an order fit together in every state.
LEMMA RowsInvariant == Spec => []RowsInv
<1>1. Init => RowsInv
  <2> SUFFICES ASSUME Init PROVE RowsInv
    OBVIOUS
  <2>1. TypeOK
    BY InitTypes
  <2>2. SceneRows
    BY Names, Keys
    DEF Init, SceneRows, InUse, ScenesFitJob, RequestsFitScene, RequestsFit, RevisionsFitJob,
        Shown, AssemblyStates, OpenRegenerations, OpenRequestStates
  <2>3. AttemptRows
    BY Names DEF Init, AttemptRows, AttemptsFitRequest, AttemptsFit, VerdictsFitOutput, VerdictFits
  <2>4. UnitFollowsVideo /\ MoneyRows
    BY Names DEF Init, MoneyRows, HoldHasReason, ReturnedUnitMeansFailure, UnitFollowsVideo,
       AssemblyStates, Held
  <2> QED
    BY <2>1, <2>2, <2>3, <2>4 DEF RowsInv
<1>2. RowsInv /\ TypeOK' /\ UnitFollowsVideo' /\ [Next]_vars => RowsInv'
  BY SceneRowsInductive, AttemptRowsInductive, MoneyRowsInductive DEF RowsInv
<1> QED
  BY <1>1, <1>2, TypeCorrect, UnitIsHonest, PTL DEF Spec

-----------------------------------------------------------------------------
(***************************************************************************)
(* What the rows say together.                                             *)
(***************************************************************************)

\* A Unit is on hold for an open uncertain submission of a first video, and no
\* such submission is open under a plainly reserved Unit, however holds and
\* answers of several attempts interleave (EnterUncertainty, Reconcile).
THEOREM HoldsAreReasoned == Spec => []HoldHasReason
BY RowsInvariant, PTL DEF RowsInv, MoneyRows

\* A job whose Unit reconciliation gave back has failed or fails at Transaction
\* K, and no first video is assembled under anything but a plainly held Unit.
THEOREM ReturnedUnitsFail == Spec => []ReturnedUnitMeansFailure
BY RowsInvariant, PTL DEF RowsInv, MoneyRows

\* At most one scene is revised at a time, by one open request, exactly while
\* the job generates behind a video (AdmitRegeneration, H, K, the rollback).
THEOREM OneRevision == Spec => []OneRevisionAtATime
<1>1. RowsInv => OneRevisionAtATime
  <2> SUFFICES ASSUME RowsInv PROVE OneRevisionAtATime
    OBVIOUS
  <2>1. Cardinality(OpenRegenerations) <= 1
    <3>1. CASE OpenRegenerations = {}
      BY <3>1, FS_EmptySet
    <3>2. CASE OpenRegenerations # {}
      <4>1. PICK r \in OpenRegenerations : TRUE
        BY <3>2
      <4>2. OpenRegenerations = {r}
        BY <4>1 DEF RowsInv, SceneRows, RevisionsFitJob
      <4>3. Cardinality({r}) = 1
        BY FS_Singleton
      <4> QED
        BY <4>2, <4>3
    <3> QED
      BY <3>1, <3>2
  <2>2. {s \in Scene : scene[s] = "REVISING"} = {SceneOf(r) : r \in OpenRegenerations}
    <3>1. \A r \in OpenRegenerations : SceneOf(r) \in Scene /\ scene[SceneOf(r)] = "REVISING"
      BY Names DEF RowsInv, SceneRows, RevisionsFitJob, OpenRegenerations
    <3>2. \A s \in Scene : scene[s] = "REVISING" => \E r \in OpenRegenerations : SceneOf(r) = s
      BY DEF RowsInv, SceneRows, RevisionsFitJob
    <3> QED
      BY <3>1, <3>2
  <2>3. ASSUME NEW r \in OpenRegenerations
        PROVE  RevisionShape(r) /\ job = "GENERATING" /\ current # 0
    BY OpenRevisionPlace DEF RevisionShape
  <2>4. job = "GENERATING" /\ current # 0 => OpenRegenerations # {}
    BY DEF RowsInv, SceneRows, RevisionsFitJob
  <2> QED
    BY <2>1, <2>2, <2>3, <2>4 DEF OneRevisionAtATime
<1> QED
  BY <1>1, RowsInvariant, PTL

\* Work that can still cost money belongs to the newest attempt of an open
\* request, in a job that is generating or has failed.
THEOREM NothingInFlight == Spec => []NothingInFlightBehindAVideo
<1>1. RowsInv => NothingInFlightBehindAVideo
  BY ActiveAttemptPlace, ActiveJobPlace DEF NothingInFlightBehindAVideo
<1> QED
  BY <1>1, RowsInvariant, PTL

\* An open request that is being generated has the shape its settlement asks for.
LEMMA SettlementShape ==
  ASSUME RowsInv, NEW r \in Request, request[r] = "GENERATING", job = "GENERATING"
  PROVE  /\ FailureShape(r)
         /\ reservation # "RELEASED" => ExhaustedShape(r)
         /\ DeliveryShape(r)
<1>1. CASE IsInitial(r)
  <2>1. InitialShape(r)
    BY <1>1, InitialRequestPlace
  <2>2. reservation \in {"RESERVED", "RECONCILIATION_HOLD", "RELEASED"}
    BY <2>1 DEF InitialShape, RowsInv, SceneRows, InUse, UnitFollowsVideo
  <2> QED
    BY <1>1, <2>1, <2>2
    DEF FailureShape, ExhaustedShape, HeldOrReturned, DeliveryShape, InitialShape, WorkingState
<1>2. CASE ~IsInitial(r)
  <2>1. r \in OpenRegenerations
    BY <1>2 DEF OpenRegenerations, OpenRequestStates
  <2>2. RevisionShape(r) /\ reservation = "CONSUMED" /\ SceneOf(r) \in Scene
    BY <2>1, OpenRevisionPlace, Names
  <2>3. delivered[SceneOf(r)] # 0
    BY <2>2 DEF RevisionShape, RowsInv, SceneRows, RequestsFitScene, RequestsFit, Shown
  <2> QED
    BY <1>2, <2>2, <2>3
    DEF FailureShape, ExhaustedShape, DeliveryShape, RevisionShape, WorkingState
<1> QED
  BY <1>1, <1>2

\* A ready scene stands on a delivered, stored and valid clip.
LEMMA ReadySceneProved ==
  ASSUME RowsInv, NEW s \in Scene, scene[s] = "READY"
  PROVE  SceneProved(s) /\ DeliveredPredecessor(s)
<1>1. delivered[s] # 0 /\ request[<<s, delivered[s]>>] = "DELIVERED"
  BY DEF RowsInv, SceneRows, RequestsFitScene, RequestsFit, Shown
<1>2. delivered[s] \in 1..MaxRequests
  BY <1>1 DEF RowsInv, TypeOK
<1>3. PICK r \in Request : SceneOf(r) = s /\ r[2] = delivered[s] /\ request[r] = "DELIVERED"
  BY <1>1, <1>2, Keys
<1>4. attempt[Newest(r)] = "OUTPUT_VERIFIED" /\ verdict[Newest(r)] = "VALID"
  BY <1>3 DEF RowsInv, AttemptRows, AttemptsFitRequest, AttemptsFit
<1> QED
  BY <1>3, <1>4 DEF SceneProved, DeliveredPredecessor, RequestsOf

\* Whatever is due finds the rows it asks for: no delivery, settlement, plan or
\* publication throws one of the conflicts the repositories check for, after
\* any interleaving of the passes.
THEOREM DueIsNeverRefused == Spec => []NothingDueIsRefused
<1>1. RowsInv => NothingDueIsRefused
  <2> SUFFICES ASSUME RowsInv PROVE NothingDueIsRefused
    OBVIOUS
  <2>1. ASSUME NEW r \in Request, DeliveryDue(r) PROVE DeliveryShape(r)
    BY <2>1, SettlementShape DEF DeliveryDue
  <2>2. ASSUME NEW r \in Request, FailureDue(r) PROVE FailureShape(r)
    BY <2>2, SettlementShape DEF FailureDue
  <2>3. ASSUME NEW a \in Attempt, ExhaustedDue(a), reservation # "RELEASED"
        PROVE  ExhaustedShape(RequestOf(a))
    BY <2>3, SettlementShape, Names DEF ExhaustedDue, Disposition
  <2>4. job \in AssemblyStates =>
          /\ current = 0 => reservation = "RESERVED"
          /\ current # 0 => reservation = "CONSUMED"
          /\ \A s \in Scene : scene[s] = "READY"
    BY DEF RowsInv, MoneyRows, ReturnedUnitMeansFailure, UnitFollowsVideo, SceneRows, ScenesFitJob
  <2>5. job = "SCENES_READY" => PlanFunded /\ \A s \in Scene : SceneProved(s)
    BY <2>4, ReadySceneProved DEF PlanFunded, AssemblyStates
  <2>6. job \in {"COMPOSING", "DELIVERABLE_VALIDATING"} => CycleFunded
    BY <2>4 DEF CycleFunded, AssemblyStates
  <2> QED
    BY <2>1, <2>2, <2>3, <2>5, <2>6 DEF NothingDueIsRefused
<1> QED
  BY <1>1, RowsInvariant, PTL

\* The gate reads neither the request's state nor the job's, and still no
\* attempt crosses the provider boundary for work that is over (Arm).
THEOREM ArmedForLiveWork == Spec => ArmedOnlyForLiveWork
<1> DEFINE Live(a) == /\ request[RequestOf(a)] = "GENERATING"
                      /\ job = "GENERATING"
                      /\ ~deleted
           Armed == \A a \in Attempt :
                      attempt[a] = "QUEUED" /\ attempt'[a] = "SUBMITTING" => Live(a)
<1>1. RowsInv /\ [Next]_vars => Armed
  <2> SUFFICES ASSUME RowsInv, [Next]_vars, NEW a \in Attempt,
                      attempt[a] = "QUEUED", attempt'[a] = "SUBMITTING"
               PROVE  Live(a)
    OBVIOUS
  <2>1. Arm(a)
    <3>1. ASSUME NEW b \in Attempt, AttemptStep(b) PROVE Arm(a)
      BY <3>1 DEF AttemptStep, Arm, EndQueuedAttempt, RecordOutcome, EnterUncertainty,
         Resolve, Exhaust, Reconcile, Complete, BeginIngestion, VerifyOutput, JudgeMedia,
         ClaimFailure, AdmitRecovery, ResolveWork, SettleExhausted, AttemptMoves,
         RowsInv, TypeOK
    <3>2. ASSUME NEW r \in Request, RequestStep(r) PROVE FALSE
      BY <3>2 DEF RequestStep, AdmitRegenerationAttempt, Deliver, SettleAttemptFailure,
         attemptVars, RowsInv, TypeOK
    <3>3. ~JobStep
      BY DEF JobStep, Launch, EndUnlaunchableJob, EndLaunchedJob, CloseFailedScene, Plan,
         ClaimComposition, FinishComposition, BlockComposition, ClaimValidation,
         FinalizeValid, FinalizeInvalid, Publish, RestUnchanged, attemptVars
    <3>4. ~Customer
      BY DEF Customer, Start, DeleteProperty, AdmitRegeneration, RollBackPendingRegeneration,
         attemptVars
    <3>5. ~UNCHANGED vars
      BY DEF vars, attemptVars
    <3> QED
      BY <3>1, <3>2, <3>3, <3>4, <3>5 DEF Next
  <2>2. Fundable(RequestOf(a)) /\ ~deleted
    BY <2>1 DEF Arm
  <2>3. request[RequestOf(a)] = "GENERATING" /\ job \in {"GENERATING", "FAILED_TERMINAL"}
    BY ActiveAttemptPlace, ActiveJobPlace DEF ActiveAttemptStates
  <2>4. job # "FAILED_TERMINAL"
    BY <2>2 DEF Fundable, RowsInv, UnitFollowsVideo
  <2> QED
    BY <2>2, <2>3, <2>4
<1> QED
  BY <1>1, RowsInvariant, PTL DEF Spec, ArmedOnlyForLiveWork
-----------------------------------------------------------------------------
(***************************************************************************)
(* A version that was dropped stays settled.  FailureSettled reads the     *)
(* pointer and the job of today: it is the version history, and the fact   *)
(* that a failed first video ended its job for good, that make it last.    *)
(***************************************************************************)

DroppedFirstVideoFails ==
  current = 0 => \A v \in Version :
    composition[v] = "BLOCKED" \/ validation[v] = "INVALID" => job = "FAILED_TERMINAL"

\* A job that failed does not move again, whatever runs late for it.
LEMMA FailedIsFinal ==
  ASSUME RowsInv, [Next]_vars, job = "FAILED_TERMINAL"
  PROVE  job' = job
<1>1. ASSUME NEW a \in Attempt, AttemptStep(a) PROVE job' = job
  BY <1>1 DEF AttemptStep, Arm, EndQueuedAttempt, RecordOutcome, EnterUncertainty,
     Resolve, Exhaust, Reconcile, Complete, BeginIngestion, VerifyOutput, JudgeMedia,
     ClaimFailure, AdmitRecovery, ResolveWork, SettleExhausted, ExhaustedDue,
     OnlyAttemptChanges, jobVars
<1>2. ASSUME NEW r \in Request, RequestStep(r) PROVE job' = job
  BY <1>2 DEF RequestStep, AdmitRegenerationAttempt, Deliver, DeliveryDue,
     SettleAttemptFailure, FailureDue, jobVars
<1>3. ASSUME JobStep PROVE job' = job
  BY <1>3 DEF JobStep, Launch, EndUnlaunchableJob, EndLaunchedJob, CloseFailedScene, Plan,
     ClaimComposition, FinishComposition, BlockComposition, ClaimValidation,
     FinalizeValid, FinalizeInvalid, ValidationMoves, Publish, Publishable, jobVars
<1>4. ASSUME Customer PROVE job' = job
  BY <1>4 DEF Customer, Start, DeleteProperty, AdmitRegeneration, RegenerationAllowed,
     RollBackPendingRegeneration, jobVars
<1> QED
  BY <1>1, <1>2, <1>3, <1>4 DEF Next, vars, jobVars

\* Versions are written by the worker of the job alone.
LEMMA VersionsMove ==
  ASSUME Next, ~UNCHANGED <<composition, validation>>
  PROVE  \/ Plan \/ ClaimComposition \/ FinishComposition \/ BlockComposition
         \/ ClaimValidation \/ FinalizeValid \/ FinalizeInvalid
<1>1. ASSUME NEW a \in Attempt PROVE ~AttemptStep(a)
  BY DEF AttemptStep, Arm, EndQueuedAttempt, RecordOutcome, EnterUncertainty,
     Resolve, Exhaust, Reconcile, Complete, BeginIngestion, VerifyOutput, JudgeMedia,
     ClaimFailure, AdmitRecovery, ResolveWork, SettleExhausted, OnlyAttemptChanges, versionVars
<1>2. ASSUME NEW r \in Request PROVE ~RequestStep(r)
  BY DEF RequestStep, AdmitRegenerationAttempt, Deliver, SettleAttemptFailure, versionVars
<1>3. ~Customer
  BY DEF Customer, Start, DeleteProperty, AdmitRegeneration, RollBackPendingRegeneration,
     versionVars
<1> QED
  BY <1>1, <1>2, <1>3 DEF Next, JobStep, Launch, EndUnlaunchableJob, EndLaunchedJob,
     CloseFailedScene, Publish, RestUnchanged, versionVars

LEMMA DroppedFirstVideoInductive ==
  ASSUME RowsInv, DroppedFirstVideoFails, VersionsInv, [Next]_vars, current' = 0
  PROVE  \A v \in Version :
           composition'[v] = "BLOCKED" \/ validation'[v] = "INVALID" => job' = "FAILED_TERMINAL"
<1>1. current = 0
  <2>1. ASSUME current' # current PROVE FALSE
    <3>1. PICK v \in Version : Publish(v)
      BY <2>1, OnlyPublishMovesVideo DEF vars, jobVars
    <3> QED
      BY <2>1, <3>1 DEF Publish, SettleFailedDeliverable, Version
  <2> QED
    BY <2>1
<1>2. CASE job = "FAILED_TERMINAL"
  BY <1>2, FailedIsFinal
<1>3. CASE job # "FAILED_TERMINAL" /\ UNCHANGED <<composition, validation>>
  BY <1>1, <1>3 DEF DroppedFirstVideoFails
<1>4. CASE job # "FAILED_TERMINAL" /\ ~UNCHANGED <<composition, validation>>
  <2>1. \/ Plan \/ ClaimComposition \/ FinishComposition \/ BlockComposition
        \/ ClaimValidation \/ FinalizeValid \/ FinalizeInvalid
    BY <1>4, VersionsMove DEF vars, versionVars
  <2>2. CASE BlockComposition \/ FinalizeInvalid
    BY <1>1, <2>2 DEF BlockComposition, FinalizeInvalid, SettleFailedDeliverable
  <2>3. CASE ~BlockComposition /\ ~FinalizeInvalid
    <3>1. \A v \in Version :
            /\ composition'[v] \in {composition[v], "PLANNED", "RUNNING", "OUTPUT_VERIFIED"}
            /\ validation'[v] \in {validation[v], "RUNNING", "VALID"}
      BY <2>1, <2>3 DEF Plan, ClaimComposition, FinishComposition, ClaimValidation,
         FinalizeValid, ValidationMoves, RowsInv, TypeOK
    <3> QED
      BY <1>1, <1>4, <3>1 DEF DroppedFirstVideoFails
  <2> QED
    BY <2>2, <2>3
<1> QED
  BY <1>2, <1>3, <1>4

\* The replay of a blocked composition or an invalid verdict finds its
\* settlement, through every later revision (isDeliverableFailureSettled).
THEOREM DroppedStaysSettled == Spec => []FailedVersionsStaySettled
<1>1. Init => DroppedFirstVideoFails
  BY DEF Init, DroppedFirstVideoFails
<1>2. RowsInv /\ VersionsInv /\ DroppedFirstVideoFails /\ [Next]_vars => DroppedFirstVideoFails'
  BY DroppedFirstVideoInductive DEF DroppedFirstVideoFails
<1>3. RowsInv /\ VersionsInv /\ DroppedFirstVideoFails => FailedVersionsStaySettled
  <2> SUFFICES ASSUME RowsInv, VersionsInv, DroppedFirstVideoFails, NEW v \in Version
               PROVE  /\ composition[v] = "BLOCKED" => FailureSettled(v, "COMPOSING")
                      /\ validation[v] = "INVALID" => FailureSettled(v, "DELIVERABLE_VALIDATING")
    BY DEF FailedVersionsStaySettled
  <2>1. CASE current = 0
    BY <2>1 DEF DroppedFirstVideoFails, FailureSettled, RowsInv, UnitFollowsVideo
  <2>2. CASE current # 0
    BY <2>2 DEF FailureSettled, RowsInv, UnitFollowsVideo, VersionsInv,
       AssembledFromDeliveredScenes
  <2> QED
    BY <2>1, <2>2
<1> QED
  BY <1>1, <1>2, <1>3, RowsInvariant, VersionsInvariant, PTL DEF Spec
-----------------------------------------------------------------------------
(***************************************************************************)
(* A job at rest can be revised again.                                     *)
(***************************************************************************)

DeliveredRevisions(s) ==
  {r \in RequestsOf(s) : ~IsInitial(r) /\ request[r] = "DELIVERED"}

\* An open revision was admitted under a right that is still there.
RightsFitRevisions ==
  /\ \A s \in Scene : Cardinality(DeliveredRevisions(s)) <= MaxUserRegenerations
  /\ \A r \in OpenRegenerations :
       Cardinality(DeliveredRevisions(SceneOf(r))) < MaxUserRegenerations

LEMMA RequestsAreFinite ==
  ASSUME NEW s \in Scene
  PROVE  IsFiniteSet(DeliveredRevisions(s)) /\ Cardinality(DeliveredRevisions(s)) \in Nat
<1>1. IsFiniteSet({s} \X (1..MaxRequests))
  <2>1. IsFiniteSet({s})
    BY FS_Singleton
  <2>2. 1 \in Int /\ MaxRequests \in Int
    BY BoundsAssumption DEF BoundsAssumption
  <2>3. IsFiniteSet(1..MaxRequests)
    BY <2>2, FS_Interval
  <2> QED
    BY <2>1, <2>3, FS_Product
<1>2. DeliveredRevisions(s) \subseteq {s} \X (1..MaxRequests)
  BY DEF DeliveredRevisions, RequestsOf, Request, SceneOf
<1>3. IsFiniteSet(DeliveredRevisions(s))
  BY <1>1, <1>2, FS_Subset
<1> QED
  BY <1>3, FS_CardinalityType

\* A step that neither delivers nor opens a revision.
LEMMA OtherStepsKeepRights ==
  ASSUME RightsFitRevisions,
         \A r \in Request : ~IsInitial(r) =>
           /\ request'[r] = "DELIVERED" <=> request[r] = "DELIVERED"
           /\ request'[r] \in OpenRequestStates => request[r] \in OpenRequestStates
  PROVE  RightsFitRevisions'
<1>1. \A s \in Scene : DeliveredRevisions(s)' = DeliveredRevisions(s)
  BY DEF DeliveredRevisions, RequestsOf
<1>2. OpenRegenerations' \subseteq OpenRegenerations
  BY DEF OpenRegenerations
<1> QED
  BY <1>1, <1>2, Names DEF RightsFitRevisions, OpenRegenerations

LEMMA DeliverKeepsRights ==
  ASSUME RowsInv, RightsFitRevisions, NEW r \in Request, Deliver(r)
  PROVE  RightsFitRevisions'
<1> DEFINE s == SceneOf(r)
<1>1. /\ s \in Scene /\ request[r] = "GENERATING" /\ request'[r] = "DELIVERED"
      /\ \A q \in Request : q # r => request'[q] = request[q]
  BY Names DEF Deliver, DeliveryDue, RowsInv, TypeOK
<1>2. CASE IsInitial(r)
  BY <1>1, <1>2, OtherStepsKeepRights
<1>3. CASE ~IsInitial(r)
  <2>1. r \in OpenRegenerations /\ OpenRegenerations \subseteq {r}
    <3>1. r \in OpenRegenerations
      BY <1>1, <1>3 DEF OpenRegenerations, OpenRequestStates
    <3> QED
      BY <3>1, OpenRevisionPlace DEF RevisionShape
  <2>2. OpenRegenerations' = {}
    BY <1>1, <2>1 DEF OpenRegenerations, OpenRequestStates
  <2>3. DeliveredRevisions(s)' = DeliveredRevisions(s) \cup {r}
    BY <1>1, <1>3 DEF DeliveredRevisions, RequestsOf
  <2>4. Cardinality(DeliveredRevisions(s) \cup {r}) = Cardinality(DeliveredRevisions(s)) + 1
    <3>1. r \notin DeliveredRevisions(s)
      BY <1>1 DEF DeliveredRevisions
    <3> QED
      BY <1>1, <3>1, RequestsAreFinite, FS_AddElement
  <2>5. Cardinality(DeliveredRevisions(s)) < MaxUserRegenerations
    BY <2>1 DEF RightsFitRevisions
  <2>6. ASSUME NEW t \in Scene, t # s PROVE DeliveredRevisions(t)' = DeliveredRevisions(t)
    BY <1>1, <2>6 DEF DeliveredRevisions, RequestsOf
  <2>7. Cardinality(DeliveredRevisions(s)') <= MaxUserRegenerations
    BY <1>1, <2>3, <2>4, <2>5, RequestsAreFinite DEF MaxUserRegenerations
  <2> QED
    BY <2>2, <2>6, <2>7 DEF RightsFitRevisions
<1> QED
  BY <1>2, <1>3

LEMMA ReviseKeepsRights ==
  ASSUME RowsInv, RightsFitRevisions, NEW r \in Request, AdmitRegeneration(r)
  PROVE  RightsFitRevisions'
<1>1. /\ request[r] = "ABSENT" /\ request'[r] = "PENDING" /\ RegenerationsLeft(SceneOf(r))
      /\ \A q \in Request : q # r => request'[q] = request[q]
      /\ OpenRegenerations = {}
  BY DEF AdmitRegeneration, RegenerationAllowed, RowsInv, TypeOK
<1>2. \A s \in Scene : DeliveredRevisions(s)' = DeliveredRevisions(s)
  BY <1>1 DEF DeliveredRevisions, RequestsOf
<1>3. OpenRegenerations' \subseteq {r}
  BY <1>1 DEF OpenRegenerations
<1>4. Cardinality(DeliveredRevisions(SceneOf(r))) < MaxUserRegenerations
  BY <1>1 DEF RegenerationsLeft, DeliveredRevisions
<1> QED
  BY <1>2, <1>3, <1>4, Names DEF RightsFitRevisions

LEMMA RightsInductive == RowsInv /\ RightsFitRevisions /\ [Next]_vars => RightsFitRevisions'
<1> SUFFICES ASSUME RowsInv, RightsFitRevisions, [Next]_vars PROVE RightsFitRevisions'
  OBVIOUS
<1> DEFINE Same == \A r \in Request : ~IsInitial(r) =>
                     /\ request'[r] = "DELIVERED" <=> request[r] = "DELIVERED"
                     /\ request'[r] \in OpenRequestStates => request[r] \in OpenRequestStates
<1>1. ASSUME NEW r \in Request, NEW to \in {"FAILED_TERMINAL", "CANCELLED"},
             request[r] \in OpenRequestStates, request' = [request EXCEPT ![r] = to]
      PROVE  Same
  BY <1>1 DEF RowsInv, TypeOK, OpenRequestStates
<1>2. ASSUME NEW a \in Attempt, AttemptStep(a) PROVE Same
  <2>1. CASE SettleExhausted(a)
    BY <1>1, <2>1, Names DEF SettleExhausted, ExhaustedDue, Disposition, FailInitial,
       RollBackRevision, OpenRequestStates
  <2>2. CASE ~SettleExhausted(a)
    BY <1>2, <2>2 DEF AttemptStep, Arm, EndQueuedAttempt, RecordOutcome, EnterUncertainty,
       Resolve, Exhaust, Reconcile, Complete, BeginIngestion, VerifyOutput, JudgeMedia,
       ClaimFailure, AdmitRecovery, ResolveWork, OnlyAttemptChanges, sceneVars
  <2> QED
    BY <2>1, <2>2
<1>3. ASSUME NEW r \in Request, AdmitRegenerationAttempt(r) \/ SettleAttemptFailure(r) PROVE Same
  <2>1. CASE AdmitRegenerationAttempt(r)
    BY <2>1 DEF AdmitRegenerationAttempt, OpenRequestStates, RowsInv, TypeOK
  <2>2. CASE SettleAttemptFailure(r)
    BY <1>1, <2>2 DEF SettleAttemptFailure, FailureDue, FailInitial, RollBackRevision,
       OpenRequestStates
  <2> QED
    BY <1>3, <2>1, <2>2
<1>4. ASSUME JobStep PROVE Same
  <2>1. CASE Launch
    BY <2>1 DEF Launch
  <2>2. ASSUME NEW s \in Scene, CloseFailedScene(s) PROVE Same
    BY <2>2, Keys DEF CloseFailedScene, RowsInv, TypeOK
  <2>3. CASE ~Launch /\ ~(\E s \in Scene : CloseFailedScene(s))
    BY <1>4, <2>3 DEF JobStep, EndUnlaunchableJob, EndLaunchedJob, Plan, ClaimComposition,
       FinishComposition, BlockComposition, ClaimValidation, FinalizeValid, FinalizeInvalid,
       Publish, RestUnchanged, sceneVars
  <2> QED
    BY <2>1, <2>2, <2>3
<1>5. ASSUME NEW r \in Request, RollBackPendingRegeneration(r) PROVE Same
  BY <1>1, <1>5 DEF RollBackPendingRegeneration, RollBackRevision, OpenRequestStates
<1>6. ASSUME Start \/ DeleteProperty \/ UNCHANGED vars PROVE Same
  BY <1>6 DEF Start, DeleteProperty, vars, sceneVars
<1> QED
  BY <1>2, <1>3, <1>4, <1>5, <1>6, OtherStepsKeepRights, DeliverKeepsRights, ReviseKeepsRights
  DEF Next, Customer, RequestStep

\* A job at rest can be revised again on every scene that has a right left,
\* whatever revisions failed before, and no scene ever exceeds its rights.
THEOREM RevisionsRemain == Spec => []RevisionsStayPossible
<1>1. Init => RightsFitRevisions
  <2> SUFFICES ASSUME Init PROVE RightsFitRevisions
    OBVIOUS
  <2>1. OpenRegenerations = {} /\ \A s \in Scene : DeliveredRevisions(s) = {}
    BY DEF Init, OpenRegenerations, OpenRequestStates, DeliveredRevisions, RequestsOf
  <2> QED
    BY <2>1, FS_EmptySet DEF RightsFitRevisions, MaxUserRegenerations
<1>2. RowsInv /\ RightsFitRevisions => RevisionsStayPossible
  <2> SUFFICES ASSUME RowsInv, RightsFitRevisions PROVE RevisionsStayPossible
    OBVIOUS
  <2>1. ASSUME job = "DELIVERABLE_READY", NEW r \in Request,
               Cardinality(DeliveredRevisions(SceneOf(r))) < MaxUserRegenerations,
               request[r] = "ABSENT",
               \A q \in RequestsOf(SceneOf(r)) : q[2] < r[2] => request[q] # "ABSENT"
        PROVE  RegenerationAllowed(r)
    <3>1. current # 0 /\ reservation = "CONSUMED"
      BY <2>1 DEF RowsInv, UnitFollowsVideo
    <3>2. OpenRegenerations = {}
      BY <2>1, OpenRevisionPlace
    <3>3. scene[SceneOf(r)] = "READY" /\ DeliveredPredecessor(SceneOf(r))
      BY <2>1, Names, ReadySceneProved DEF RowsInv, SceneRows, ScenesFitJob
    <3>4. RegenerationsLeft(SceneOf(r))
      BY <2>1 DEF RegenerationsLeft, DeliveredRevisions
    <3> QED
      BY <2>1, <3>1, <3>2, <3>3, <3>4 DEF RegenerationAllowed
  <2> QED
    BY <2>1 DEF RevisionsStayPossible, RightsFitRevisions, DeliveredRevisions
<1> QED
  BY <1>1, <1>2, RightsInductive, RowsInvariant, PTL DEF Spec

-----------------------------------------------------------------------------
(***************************************************************************)
(* Every write is a move of the closed tables, although each repository    *)
(* writes its states with SQL of its own.                                  *)
(***************************************************************************)

\* The moves the transactions make.
LEMMA TableMoves ==
  /\ "GENERATING" \in JobTransitions["RESERVED"]
  /\ \A s \in {"SCENES_READY", "DELIVERABLE_READY", "FAILED_TERMINAL"} :
       s \in JobTransitions["GENERATING"]
  /\ "COMPOSITION_PENDING" \in JobTransitions["SCENES_READY"]
  /\ "COMPOSING" \in JobTransitions["COMPOSITION_PENDING"]
  /\ \A s \in {"DELIVERABLE_VALIDATING", "DELIVERABLE_READY", "FAILED_TERMINAL"} :
       s \in JobTransitions["COMPOSING"]
  /\ "DELIVERABLE_READY" \in JobTransitions["DELIVERABLE_VALIDATING"]
  /\ \A s \in {"RESERVED", "SCENES_READY", "COMPOSITION_PENDING", "DELIVERABLE_VALIDATING"} :
       "FAILED_TERMINAL" \in JobTransitions[s]
  /\ \A s \in {"RECONCILIATION_HOLD", "CONSUMED", "RELEASED"} :
       s \in ReservationTransitions["RESERVED"]
  /\ \A s \in {"RESERVED", "CONSUMED", "RELEASED"} :
       s \in ReservationTransitions["RECONCILIATION_HOLD"]
  /\ \A s \in {"GENERATING", "CANCELLED", "FAILED_TERMINAL"} : s \in SceneTransitions["PENDING"]
  /\ \A s \in {"READY", "FAILED_TERMINAL"} : s \in SceneTransitions["GENERATING"]
  /\ "REVISING" \in SceneTransitions["READY"] /\ "READY" \in SceneTransitions["REVISING"]
  /\ \A s \in {"GENERATING", "CANCELLED", "FAILED_TERMINAL"} : s \in RequestTransitions["PENDING"]
  /\ \A s \in {"DELIVERED", "FAILED_TERMINAL"} : s \in RequestTransitions["GENERATING"]
  /\ \A s \in {"SUBMITTING", "CANCELLED_PRE_SUBMISSION"} : s \in AttemptTransitions["QUEUED"]
  /\ \A s \in {"PROCESSING", "FAILED_RETRYABLE", "FAILED_TERMINAL", "RECONCILIATION_PENDING"} :
       s \in AttemptTransitions["SUBMITTING"]
  /\ \A s \in {"PROVIDER_SUCCEEDED", "FAILED_RETRYABLE", "FAILED_TERMINAL"} :
       s \in AttemptTransitions["PROCESSING"]
  /\ \A s \in {"PROCESSING", "FAILED_RETRYABLE", "FAILED_TERMINAL", "RECONCILIATION_EXHAUSTED"} :
       s \in AttemptTransitions["RECONCILIATION_PENDING"]
  /\ "OUTPUT_INGESTING" \in AttemptTransitions["PROVIDER_SUCCEEDED"]
  /\ "OUTPUT_VERIFIED" \in AttemptTransitions["OUTPUT_INGESTING"]
BY DEF JobTransitions, ReservationTransitions, SceneTransitions, RequestTransitions,
       AttemptTransitions

JobMoves == \/ Moves(JobTransitions, job, job', {"RESERVED"})
            \/ job = "DELIVERABLE_READY" /\ job' = "GENERATING"
UnitMoves == Moves(ReservationTransitions, reservation, reservation', {"RESERVED"})
SceneMoves == \A s \in Scene : Moves(SceneTransitions, scene[s], scene'[s], {"PENDING"})
RequestMoves ==
  \A r \in Request : Moves(RequestTransitions, request[r], request'[r], {"PENDING"})
AttemptsMove ==
  \A a \in Attempt : Moves(AttemptTransitions, attempt[a], attempt'[a], {"QUEUED"})

AllMoves == JobMoves /\ UnitMoves /\ SceneMoves /\ RequestMoves /\ AttemptsMove

\* A request of a first video ends, and its scene, job and Unit with it.
LEMMA FailInitialMoves ==
  ASSUME RowsInv, NEW r \in Request, IsInitial(r), request[r] = "GENERATING",
         job = "GENERATING", FailInitial(r), UNCHANGED attempt
  PROVE  AllMoves
<1>1. FailureShape(r)
  BY SettlementShape
<1>2. reservation \in {"RESERVED", "RECONCILIATION_HOLD", "RELEASED"} /\ scene[SceneOf(r)] = "GENERATING"
  BY <1>1 DEF FailureShape, InitialShape, HeldOrReturned
<1>3. JobMoves /\ UnitMoves
  BY <1>2, TableMoves DEF FailInitial, JobMoves, UnitMoves, Moves
<1>4. SceneMoves
  BY <1>2, TableMoves DEF FailInitial, SceneMoves, Moves, RowsInv, TypeOK
<1>5. RequestMoves /\ AttemptsMove
  BY TableMoves DEF FailInitial, RequestMoves, AttemptsMove, Moves, RowsInv, TypeOK
<1> QED
  BY <1>3, <1>4, <1>5 DEF AllMoves

\* A revision ends, and its scene and job go back to what was shown.
LEMMA RollBackMoves ==
  ASSUME RowsInv, NEW r \in OpenRegenerations, NEW to \in {"FAILED_TERMINAL", "CANCELLED"},
         to = "CANCELLED" => request[r] = "PENDING",
         RollBackRevision(r, to), UNCHANGED attempt
  PROVE  AllMoves
<1>1. job = "GENERATING" /\ scene[SceneOf(r)] = "REVISING" /\ request[r] \in {"PENDING", "GENERATING"}
  BY OpenRevisionPlace DEF OpenRegenerations, OpenRequestStates
<1>2. JobMoves /\ UnitMoves
  BY <1>1, TableMoves DEF RollBackRevision, JobMoves, UnitMoves, Moves
<1>3. SceneMoves
  BY <1>1, TableMoves DEF RollBackRevision, SceneMoves, Moves, RowsInv, TypeOK
<1>4. RequestMoves /\ AttemptsMove
  BY <1>1, TableMoves DEF RollBackRevision, RequestMoves, AttemptsMove, Moves, RowsInv, TypeOK
<1> QED
  BY <1>2, <1>3, <1>4 DEF AllMoves

LEMMA SettlementMoves ==
  ASSUME RowsInv, NEW r \in Request, request[r] = "GENERATING", job = "GENERATING",
         IF IsInitial(r) THEN FailInitial(r) ELSE RollBackRevision(r, "FAILED_TERMINAL"),
         UNCHANGED attempt
  PROVE  AllMoves
<1>1. CASE IsInitial(r)
  BY <1>1, FailInitialMoves
<1>2. CASE ~IsInitial(r)
  <2>1. r \in OpenRegenerations
    BY <1>2 DEF OpenRegenerations, OpenRequestStates
  <2> QED
    BY <1>2, <2>1, RollBackMoves
<1> QED
  BY <1>1, <1>2

LEMMA AttemptStepMoves ==
  ASSUME RowsInv, NEW a \in Attempt, AttemptStep(a)
  PROVE  AllMoves
<1>1. CASE SettleExhausted(a)
  BY <1>1, Names, SettlementMoves DEF SettleExhausted, ExhaustedDue, Disposition
<1>2. CASE ~SettleExhausted(a)
  <2>1. UNCHANGED <<job, scene, request>>
    BY <1>2 DEF AttemptStep, Arm, EndQueuedAttempt, RecordOutcome, EnterUncertainty,
       Resolve, Exhaust, Reconcile, Complete, BeginIngestion, VerifyOutput, JudgeMedia,
       ClaimFailure, AdmitRecovery, ResolveWork, OnlyAttemptChanges, jobVars, sceneVars
  <2>2. JobMoves /\ SceneMoves /\ RequestMoves
    BY <2>1 DEF JobMoves, SceneMoves, RequestMoves, Moves
  <2>3. UnitMoves
    <3>1. \/ reservation' = reservation
          \/ reservation = "RESERVED" /\ reservation' = "RECONCILIATION_HOLD"
          \/ reservation = "RECONCILIATION_HOLD" /\ reservation' \in {"RESERVED", "RELEASED"}
      BY <1>2 DEF AttemptStep, Arm, EndQueuedAttempt, RecordOutcome, EnterUncertainty,
         Resolve, Exhaust, Reconcile, ReservationAfter, Complete, BeginIngestion,
         VerifyOutput, JudgeMedia, ClaimFailure, AdmitRecovery, ResolveWork,
         OnlyAttemptChanges, jobVars
    <3> QED
      BY <3>1, TableMoves DEF UnitMoves, Moves
  <2>4. CASE AdmitRecovery(a)
    <3>1. attempt[Recovery(RequestOf(a))] = "ABSENT"
      BY <2>4, Keys, Names DEF AdmitRecovery, RecoveryDue, Newest
    <3>2. AttemptsMove
      BY <2>4, <3>1 DEF AdmitRecovery, AttemptsMove, Moves, RowsInv, TypeOK
    <3> QED
      BY <2>2, <2>3, <3>2 DEF AllMoves
  <2>5. CASE JudgeMedia(a) \/ ClaimFailure(a) \/ ResolveWork(a)
    <3>1. UNCHANGED attempt
      BY <2>5 DEF JudgeMedia, ClaimFailure, ResolveWork
    <3> QED
      BY <2>2, <2>3, <3>1 DEF AllMoves, AttemptsMove, Moves
  <2>6. CASE \/ Arm(a) \/ EndQueuedAttempt(a) \/ RecordOutcome(a) \/ EnterUncertainty(a)
             \/ Resolve(a) \/ Exhaust(a) \/ Complete(a) \/ BeginIngestion(a) \/ VerifyOutput(a)
    <3>1. PICK to : /\ attempt' = [attempt EXCEPT ![a] = to]
                    /\ attempt[a] # "ABSENT" /\ to \in AttemptTransitions[attempt[a]]
      BY <2>6, TableMoves DEF Arm, EndQueuedAttempt, RecordOutcome, EnterUncertainty,
         Resolve, Exhaust, Reconcile, Complete, BeginIngestion, VerifyOutput, AttemptMoves
    <3>2. AttemptsMove
      BY <3>1 DEF AttemptsMove, Moves, RowsInv, TypeOK
    <3> QED
      BY <2>2, <2>3, <3>2 DEF AllMoves
  <2> QED
    BY <1>2, <2>4, <2>5, <2>6 DEF AttemptStep
<1> QED
  BY <1>1, <1>2

LEMMA RequestStepMoves ==
  ASSUME RowsInv, NEW r \in Request, RequestStep(r)
  PROVE  AllMoves
<1>1. CASE SettleAttemptFailure(r)
  BY <1>1, SettlementMoves DEF SettleAttemptFailure, FailureDue, attemptVars
<1>2. CASE AdmitRegenerationAttempt(r)
  <2>1. UNCHANGED <<job, reservation, scene>> /\ request[r] = "PENDING" /\ attempt[Primary(r)] = "ABSENT"
    BY <1>2 DEF AdmitRegenerationAttempt, jobVars, AttemptsOf
  <2>2. RequestMoves
    BY <1>2, <2>1, TableMoves DEF AdmitRegenerationAttempt, RequestMoves, Moves, RowsInv, TypeOK
  <2>3. AttemptsMove
    BY <1>2, <2>1 DEF AdmitRegenerationAttempt, AttemptsMove, Moves, RowsInv, TypeOK
  <2> QED
    BY <2>1, <2>2, <2>3 DEF AllMoves, JobMoves, UnitMoves, SceneMoves, Moves
<1>3. CASE Deliver(r)
  <2>1. /\ job = "GENERATING" /\ job' \in {job, "SCENES_READY"} /\ request[r] = "GENERATING"
        /\ scene[SceneOf(r)] \in {"GENERATING", "REVISING"}
        /\ request' = [request EXCEPT ![r] = "DELIVERED"]
        /\ scene' = [scene EXCEPT ![SceneOf(r)] = "READY"]
        /\ UNCHANGED <<reservation, attempt>>
    BY <1>3 DEF Deliver, DeliveryDue, DeliveryShape, WorkingState, attemptVars
  <2>2. JobMoves /\ UnitMoves /\ AttemptsMove
    BY <2>1, TableMoves DEF JobMoves, UnitMoves, AttemptsMove, Moves
  <2>3. SceneMoves /\ RequestMoves
    BY <2>1, TableMoves DEF SceneMoves, RequestMoves, Moves, RowsInv, TypeOK
  <2> QED
    BY <2>2, <2>3 DEF AllMoves
<1> QED
  BY <1>1, <1>2, <1>3 DEF RequestStep

LEMMA JobStepMoves ==
  ASSUME RowsInv, JobStep
  PROVE  AllMoves
<1>1. CASE Launch
  <2>1. /\ job = "RESERVED" /\ job' = "GENERATING" /\ reservation' = reservation
        /\ \A s \in Scene : scene[s] = "PENDING" /\ scene'[s] = "GENERATING"
        /\ \A r \in Request : \/ request'[r] = request[r]
                              \/ request[r] = "PENDING" /\ request'[r] = "GENERATING"
        /\ \A a \in Attempt : attempt[a] = "ABSENT" /\ attempt'[a] \in {"ABSENT", "QUEUED"}
    BY <1>1 DEF Launch, StartShape
  <2> QED
    BY <2>1, TableMoves
    DEF AllMoves, JobMoves, UnitMoves, SceneMoves, RequestMoves, AttemptsMove, Moves
<1>2. ASSUME NEW s \in Scene, CloseFailedScene(s) PROVE AllMoves
  <2> DEFINE r == <<s, 1>>
  <2>1. r \in Request
    BY Keys
  <2>2. /\ UNCHANGED <<job, reservation>> /\ scene[s] \in {"PENDING", "GENERATING"}
        /\ scene' = [scene EXCEPT ![s] = ClosedSceneState(s)]
        /\ ClosedSceneState(s) \in {"CANCELLED", "FAILED_TERMINAL"}
        /\ ClosedSceneState(s) = "CANCELLED" => scene[s] = "PENDING"
    BY <1>2 DEF CloseFailedScene, ClosableScene, ClosedSceneState, jobVars
  <2>3. SceneMoves
    BY <2>2, TableMoves DEF SceneMoves, Moves, RowsInv, TypeOK
  <2>4. RequestMoves
    <3>1. \/ request[r] = "PENDING" /\ request' = [request EXCEPT ![r] = "CANCELLED"]
          \/ request[r] = "GENERATING" /\ request' = [request EXCEPT ![r] = "FAILED_TERMINAL"]
      BY <1>2 DEF CloseFailedScene
    <3> QED
      BY <2>1, <3>1, TableMoves DEF RequestMoves, Moves, RowsInv, TypeOK
  <2>5. AttemptsMove
    <3>1. \A a \in Attempt : \/ attempt'[a] = attempt[a]
                             \/ attempt[a] = "QUEUED" /\ attempt'[a] = "CANCELLED_PRE_SUBMISSION"
      BY <1>2 DEF CloseFailedScene
    <3> QED
      BY <3>1, TableMoves DEF AttemptsMove, Moves
  <2> QED
    BY <2>2, <2>3, <2>4, <2>5 DEF AllMoves, JobMoves, UnitMoves, Moves
<1>3. CASE ~Launch /\ ~(\E s \in Scene : CloseFailedScene(s))
  <2>1. UNCHANGED <<scene, request, attempt>>
    BY <1>3 DEF JobStep, EndUnlaunchableJob, EndLaunchedJob, Plan, ClaimComposition,
       FinishComposition, BlockComposition, ClaimValidation, FinalizeValid, FinalizeInvalid,
       Publish, RestUnchanged, sceneVars, attemptVars
  <2>2. \/ job' = job
        \/ job = "RESERVED" /\ job' = "FAILED_TERMINAL"
        \/ job \in {"GENERATING", "SCENES_READY", "COMPOSITION_PENDING"} /\ job' = "FAILED_TERMINAL"
        \/ job = "SCENES_READY" /\ job' = "COMPOSITION_PENDING"
        \/ job = "COMPOSITION_PENDING" /\ job' = "COMPOSING"
        \/ job = "COMPOSING" /\ job' = "DELIVERABLE_VALIDATING"
        \/ job \in {"COMPOSING", "DELIVERABLE_VALIDATING"}
             /\ job' \in {"FAILED_TERMINAL", "DELIVERABLE_READY"}
    BY <1>3 DEF JobStep, EndUnlaunchableJob, EndLaunchedJob, Plan, ClaimComposition,
       FinishComposition, BlockComposition, ClaimValidation, FinalizeValid, FinalizeInvalid,
       ValidationMoves, Publish, Publishable, SettleFailedDeliverable, jobVars
  <2>3. \/ reservation' = reservation
        \/ reservation \in {"RESERVED", "RECONCILIATION_HOLD"}
             /\ reservation' \in {"RELEASED", "CONSUMED"}
    BY <1>3 DEF JobStep, EndUnlaunchableJob, EndLaunchedJob, Plan, ClaimComposition,
       FinishComposition, BlockComposition, ClaimValidation, FinalizeValid, FinalizeInvalid,
       Publish, SettleFailedDeliverable, CycleFunded, jobVars
  <2>4. JobMoves
    BY <2>2, TableMoves DEF JobMoves, Moves
  <2>5. UnitMoves
    BY <2>3, TableMoves DEF UnitMoves, Moves
  <2> QED
    BY <2>1, <2>4, <2>5 DEF AllMoves, SceneMoves, RequestMoves, AttemptsMove, Moves
<1> QED
  BY <1>1, <1>2, <1>3

LEMMA CustomerMoves ==
  ASSUME RowsInv, Customer
  PROVE  AllMoves
<1>1. CASE Start
  <2>1. /\ job = "ABSENT" /\ job' = "RESERVED" /\ reservation' = "RESERVED" /\ UNCHANGED attempt
        /\ \A s \in Scene : scene[s] = "ABSENT" /\ scene'[s] = "PENDING"
        /\ \A r \in Request : request[r] = "ABSENT" /\ request'[r] \in {"ABSENT", "PENDING"}
    BY <1>1, NothingStarted DEF Start, attemptVars
  <2>2. reservation = "ABSENT"
    BY <2>1 DEF RowsInv, UnitFollowsVideo
  <2> QED
    BY <2>1, <2>2
    DEF AllMoves, JobMoves, UnitMoves, SceneMoves, RequestMoves, AttemptsMove, Moves
<1>2. CASE DeleteProperty
  BY <1>2 DEF DeleteProperty, jobVars, sceneVars, attemptVars,
     AllMoves, JobMoves, UnitMoves, SceneMoves, RequestMoves, AttemptsMove, Moves
<1>3. ASSUME NEW r \in Request, AdmitRegeneration(r) PROVE AllMoves
  <2>1. /\ job = "DELIVERABLE_READY" /\ job' = "GENERATING" /\ UNCHANGED <<reservation, attempt>>
        /\ scene[SceneOf(r)] = "READY" /\ scene' = [scene EXCEPT ![SceneOf(r)] = "REVISING"]
        /\ request[r] = "ABSENT" /\ request' = [request EXCEPT ![r] = "PENDING"]
    BY <1>3 DEF AdmitRegeneration, RegenerationAllowed, ReopenedJobState, attemptVars
  <2>2. SceneMoves /\ RequestMoves
    BY <2>1, TableMoves DEF SceneMoves, RequestMoves, Moves, RowsInv, TypeOK
  <2> QED
    BY <2>1, <2>2 DEF AllMoves, JobMoves, UnitMoves, AttemptsMove, Moves
<1>4. ASSUME NEW r \in Request, RollBackPendingRegeneration(r) PROVE AllMoves
  <2>1. PICK to \in {"CANCELLED", "FAILED_TERMINAL"} : RollBackRevision(r, to)
    BY <1>4 DEF RollBackPendingRegeneration
  <2>2. r \in OpenRegenerations /\ request[r] = "PENDING" /\ UNCHANGED attempt
    BY <1>4 DEF RollBackPendingRegeneration, OpenRegenerations, OpenRequestStates, attemptVars
  <2> QED
    BY <2>1, <2>2, RollBackMoves
<1> QED
  BY <1>1, <1>2, <1>3, <1>4 DEF Customer

\* Every state any transaction writes is one the closed tables of
\* state-machines.ts allow from the state it found, in every interleaving.
THEOREM TransitionsAreLegal == Spec => LegalTransitions
<1>1. RowsInv /\ [Next]_vars => AllMoves
  <2>1. ASSUME UNCHANGED vars PROVE AllMoves
    BY <2>1 DEF vars, jobVars, sceneVars, attemptVars,
       AllMoves, JobMoves, UnitMoves, SceneMoves, RequestMoves, AttemptsMove, Moves
  <2> QED
    BY <2>1, AttemptStepMoves, RequestStepMoves, JobStepMoves, CustomerMoves DEF Next
<1> QED
  BY <1>1, RowsInvariant, PTL
  DEF Spec, LegalTransitions, AllMoves, JobMoves, UnitMoves, SceneMoves, RequestMoves, AttemptsMove

=============================================================================
