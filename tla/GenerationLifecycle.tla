------------------------- MODULE GenerationLifecycle -------------------------
(***************************************************************************)
(* One generation order, from the customer's start to the published video  *)
(* and its later revisions: the generation job with its reservation (one   *)
(* Video Unit set), its scenes, their requests, the attempts made for each *)
(* request, and the deliverable versions composed from the scenes.         *)
(*                                                                         *)
(* The state is the committed content of the database.  Every action is    *)
(* one transaction of packages/database/src, atomic because each of them   *)
(* takes the organization's cost-admission lock or locks the rows it reads *)
(* (cost-admission-lock.ts).  The interleaving of the actions is therefore *)
(* the interleaving of the workers' passes: launch, submission, provider   *)
(* output, reconciliation maintenance, media validation, and Transactions  *)
(* C, F, G, H, I, J, K and L, in any order and with any of them late.      *)
(*                                                                         *)
(* A row that does not exist is "ABSENT" (a media verdict or a failure     *)
(* work row: "NONE").  Row versions, leases, clocks, prices and file names *)
(* are left out: the compare-and-set guards re-read the same state the     *)
(* action's guard names.                                                   *)
(***************************************************************************)
EXTENDS GenerationTables, Naturals, FiniteSets

CONSTANTS
  Scene,         \* the scenes of the order
  MaxRequests,   \* bound: requests one scene may ever have (the first is INITIAL)
  MaxVersions    \* bound: deliverable versions the job may ever have

ASSUME BoundsAssumption ==
  /\ MaxRequests \in Nat \ {0}
  /\ MaxVersions \in Nat \ {0}

(***************************************************************************)
(* Request <<s, n>> is the n-th request of scene s: n = 1 is the INITIAL   *)
(* one, created by the start, and every later one a USER_REGENERATION.     *)
(* Attempt <<r, 1>> is r's PRIMARY attempt and <<r, 2>> its one            *)
(* SYSTEM_RECOVERY (MAX_AUTOMATIC_MEDIA_RECOVERY_ATTEMPTS_PER_REQUEST).    *)
(***************************************************************************)
Request == Scene \X (1..MaxRequests)
Attempt == Request \X {1, 2}

SceneOf(r)   == r[1]
IsInitial(r) == r[2] = 1
Primary(r)   == <<r, 1>>
Recovery(r)  == <<r, 2>>
RequestOf(a) == a[1]
AttemptsOf(r) == {Primary(r), Recovery(r)}
RequestsOf(s) == {r \in Request : SceneOf(r) = s}

Version == 1..MaxVersions

VARIABLES
  job,          \* GenerationJob.state
  reservation,  \* GenerationReservation.state of the job
  current,      \* ordinal of currentDeliverableVersionId, 0 when null
  deleted,      \* whether the order's Property is DELETED
  scene,        \* GenerationScene.state per scene
  delivered,    \* n of the request currentDeliveredRequestId names, 0 when null
  request,      \* SceneGenerationRequest.state per request
  attempt,      \* SceneGeneration.orchestrationState per attempt
  verdict,      \* media validation of an attempt's output: NONE, VALID, INVALID
  work,         \* media-failure resolution row of an attempt: NONE, OPEN, RESOLVED
  newest,       \* highest deliverable version ordinal, 0 when there is none
  composition,  \* per version: PLANNED (no work row), RUNNING, OUTPUT_VERIFIED, BLOCKED
  validation,   \* per version: NONE, RUNNING, VALID, INVALID
  inputs        \* per version: the request of each scene its plan froze

jobVars     == <<job, reservation, current>>
sceneVars   == <<scene, delivered, request>>
attemptVars == <<attempt, verdict, work>>
versionVars == <<newest, composition, validation, inputs>>
vars == <<jobVars, deleted, sceneVars, attemptVars, versionVars>>

TypeOK ==
  /\ job \in JobStates \cup {"ABSENT"}
  /\ reservation \in ReservationStates \cup {"ABSENT"}
  /\ current \in 0..MaxVersions
  /\ deleted \in BOOLEAN
  /\ scene \in [Scene -> SceneStates \cup {"ABSENT"}]
  /\ delivered \in [Scene -> 0..MaxRequests]
  /\ request \in [Request -> RequestStates \cup {"ABSENT"}]
  /\ attempt \in [Attempt -> AttemptStates \cup {"ABSENT"}]
  /\ verdict \in [Attempt -> {"NONE", "VALID", "INVALID"}]
  /\ work \in [Attempt -> {"NONE", "OPEN", "RESOLVED"}]
  /\ newest \in 0..MaxVersions
  /\ composition \in [Version -> {"ABSENT", "PLANNED", "RUNNING", "OUTPUT_VERIFIED", "BLOCKED"}]
  /\ validation \in [Version -> {"NONE", "RUNNING", "VALID", "INVALID"}]
  /\ inputs \in [Version -> [Scene -> 0..MaxRequests]]

Init ==
  /\ job = "ABSENT"
  /\ reservation = "ABSENT"
  /\ current = 0
  /\ deleted = FALSE
  /\ scene = [s \in Scene |-> "ABSENT"]
  /\ delivered = [s \in Scene |-> 0]
  /\ request = [r \in Request |-> "ABSENT"]
  /\ attempt = [a \in Attempt |-> "ABSENT"]
  /\ verdict = [a \in Attempt |-> "NONE"]
  /\ work = [a \in Attempt |-> "NONE"]
  /\ newest = 0
  /\ composition = [v \in Version |-> "ABSENT"]
  /\ validation = [v \in Version |-> "NONE"]
  /\ inputs = [v \in Version |-> [s \in Scene |-> 0]]

-----------------------------------------------------------------------------
(***************************************************************************)
(* Reads the transactions share.                                           *)
(***************************************************************************)

\* MAX(attemptOrdinal): the attempt of r no later one superseded.
Newest(r) == IF attempt[Recovery(r)] = "ABSENT" THEN Primary(r) ELSE Recovery(r)

\* The scene state a request of this kind works in.
WorkingState(r) == IF IsInitial(r) THEN "GENERATING" ELSE "REVISING"

\* The request the scene's delivery pointer names is a delivered one.
DeliveredPredecessor(s) ==
  \E r \in RequestsOf(s) : r[2] = delivered[s] /\ request[r] = "DELIVERED"

\* Some request to revise a scene of this job, other than r, is still open.
OpenRegenerations == {r \in Request : ~IsInitial(r) /\ request[r] \in OpenRequestStates}

OthersReady(s) == \A t \in Scene \ {s} : scene[t] = "READY"

\* Every row but the job's is as it was.
RestUnchanged == UNCHANGED <<deleted, sceneVars, attemptVars, versionVars>>

-----------------------------------------------------------------------------
(***************************************************************************)
(* Start, launch and the endings before assembly.                          *)
(***************************************************************************)

\* startWithin: job, reservation, scenes and INITIAL requests in one commit.
\* CREATED -> RESERVING -> RESERVED happens inside it.
Start ==
  /\ job = "ABSENT"
  /\ ~deleted
  /\ job' = "RESERVED"
  /\ reservation' = "RESERVED"
  /\ scene' = [s \in Scene |-> "PENDING"]
  /\ request' = [r \in Request |-> IF IsInitial(r) THEN "PENDING" ELSE request[r]]
  /\ UNCHANGED <<current, deleted, delivered, attemptVars, versionVars>>

\* markDeleted: a property is deleted at any time, whatever runs for it.
DeleteProperty ==
  /\ ~deleted
  /\ deleted' = TRUE
  /\ UNCHANGED <<jobVars, sceneVars, attemptVars, versionVars>>

\* scenesOfStartShape: every scene PENDING with one untouched INITIAL request.
StartShape ==
  /\ \A s \in Scene : scene[s] = "PENDING"
  /\ \A r \in Request : request[r] = IF IsInitial(r) THEN "PENDING" ELSE "ABSENT"
  /\ \A a \in Attempt : attempt[a] = "ABSENT"

\* launchWithin, once the organization has a free place and this job is next:
\* the job and its scenes start, and each scene's PRIMARY attempt is admitted.
Launch ==
  /\ job = "RESERVED"
  /\ reservation = "RESERVED"
  /\ ~deleted
  /\ StartShape
  /\ job' = "GENERATING"
  /\ scene' = [s \in Scene |-> "GENERATING"]
  /\ request' = [r \in Request |-> IF IsInitial(r) THEN "GENERATING" ELSE request[r]]
  /\ attempt' = [a \in Attempt |->
                   IF a = Primary(RequestOf(a)) /\ IsInitial(RequestOf(a))
                   THEN "QUEUED" ELSE attempt[a]]
  /\ UNCHANGED <<reservation, current, deleted, delivered, verdict, work, versionVars>>

\* decideUnlaunchableJobEnding: a waiting job ends because its property is
\* deleted or because the facts it froze can never be launched (which of the
\* two is not told apart), and its Unit returns.
EndUnlaunchableJob ==
  /\ job = "RESERVED"
  /\ reservation = "RESERVED"
  /\ \A a \in Attempt : attempt[a] = "ABSENT"
  /\ job' = "FAILED_TERMINAL"
  /\ reservation' = "RELEASED"
  /\ UNCHANGED current
  /\ RestUnchanged

\* decideLaunchedJobEnding: a first video of a deleted property is given up
\* before it is assembled.
EndLaunchedJob ==
  /\ job \in {"GENERATING", "SCENES_READY", "COMPOSITION_PENDING"}
  /\ current = 0
  /\ reservation = "RESERVED"
  /\ deleted
  /\ job' = "FAILED_TERMINAL"
  /\ reservation' = "RELEASED"
  /\ UNCHANGED current
  /\ RestUnchanged

-----------------------------------------------------------------------------
(***************************************************************************)
(* An attempt: submission, uncertainty, completion, transfer, verdict.     *)
(***************************************************************************)

AttemptMoves(a, from, to) ==
  /\ attempt[a] = from
  /\ attempt' = [attempt EXCEPT ![a] = to]

OnlyAttemptChanges ==
  UNCHANGED <<jobVars, deleted, sceneVars, verdict, work, versionVars>>

\* Mutated form of Fundable: any reservation row will do.
FundableByAnyReservation(r) == reservation # "RECONCILIATION_HOLD"

\* evaluatePaidSubmissionGate: what a paid submission may be funded by.  The
\* gate reads neither the job's state nor the request's.
Fundable(r) ==
  \/ reservation = "RESERVED"
  \/ reservation = "CONSUMED" /\ ~IsInitial(r)

\* authorize: the gate, the source lock (a deleted property is refused) and
\* armProviderBoundaryWithin in one transaction.  The provider call follows it.
Arm(a) ==
  /\ Fundable(RequestOf(a))
  /\ ~deleted
  /\ AttemptMoves(a, "QUEUED", "SUBMITTING")
  /\ OnlyAttemptChanges

\* Mutated form of EndQueuedAttempt: the request vocabulary's word is written.
EndQueuedAttemptAsCancelled(a) ==
  /\ AttemptMoves(a, "QUEUED", "CANCELLED")
  /\ OnlyAttemptChanges

\* endPreparationRefusal and endPropertyDeletedAttempt: a queued attempt that
\* can never be sent is ended before submission.
EndQueuedAttempt(a) ==
  /\ AttemptMoves(a, "QUEUED", "CANCELLED_PRE_SUBMISSION")
  /\ OnlyAttemptChanges

\* The provider's answer to the submission is recorded, accepted or rejected.
RecordOutcome(a) ==
  /\ \E to \in {"PROCESSING", "FAILED_RETRYABLE", "FAILED_TERMINAL"} :
        AttemptMoves(a, "SUBMITTING", to)
  /\ OnlyAttemptChanges

\* The outcome is unknown, or the attempt was found stale at the boundary:
\* uncertainty begins and a held Unit is put on hold with it.
EnterUncertainty(a) ==
  /\ AttemptMoves(a, "SUBMITTING", "RECONCILIATION_PENDING")
  /\ reservation' = IF reservation = "RESERVED" THEN "RECONCILIATION_HOLD" ELSE reservation
  /\ UNCHANGED <<job, current, deleted, sceneVars, verdict, work, versionVars>>

OtherPendingUnknown(a) ==
  \E b \in Attempt \ {a} : attempt[b] = "RECONCILIATION_PENDING"

\* Mutated forms of ReservationAfter: the other uncertain attempts of the hold
\* are not counted; evidence of a running submission gives the Unit back.
ReservationAfterOneAnswer(a, to) ==
  IF reservation # "RECONCILIATION_HOLD" THEN reservation
  ELSE IF to \in {"PROCESSING", "FAILED_RETRYABLE"} THEN "RESERVED" ELSE "RELEASED"

ReservationAfterAnyAnswer(a, to) ==
  IF reservation = "RECONCILIATION_HOLD" THEN "RELEASED" ELSE reservation

\* Mutated form of ReservationAfter: the hold is given back, never restored.
ReservationAfterGivingUpOnly(a, to) ==
  IF reservation = "RECONCILIATION_HOLD" /\ to \notin {"PROCESSING", "FAILED_RETRYABLE"}
  THEN "RELEASED" ELSE reservation

\* reservationActionFor, given what the resolved attempt turned into.
ReservationAfter(a, to) ==
  IF reservation # "RECONCILIATION_HOLD" THEN reservation
  ELSE IF to \notin {"PROCESSING", "FAILED_RETRYABLE"} THEN "RELEASED"
  ELSE IF OtherPendingUnknown(a) THEN reservation ELSE "RESERVED"

\* Reconciliation of one uncertain attempt: resolve with evidence, or exhaust
\* at the deadline.
Reconcile(a, to) ==
  /\ AttemptMoves(a, "RECONCILIATION_PENDING", to)
  /\ reservation' = ReservationAfter(a, to)
  /\ UNCHANGED <<job, current, deleted, sceneVars, verdict, work, versionVars>>

Resolve(a) ==
  \E to \in {"PROCESSING", "FAILED_RETRYABLE", "FAILED_TERMINAL"} : Reconcile(a, to)

Exhaust(a) == Reconcile(a, "RECONCILIATION_EXHAUSTED")

\* decideProviderCompletion: the provider reported success or failure.
Complete(a) ==
  /\ \E to \in {"PROVIDER_SUCCEEDED", "FAILED_RETRYABLE", "FAILED_TERMINAL"} :
        AttemptMoves(a, "PROCESSING", to)
  /\ OnlyAttemptChanges

\* decideBeginOutputIngestion.
BeginIngestion(a) ==
  /\ AttemptMoves(a, "PROVIDER_SUCCEEDED", "OUTPUT_INGESTING")
  /\ OnlyAttemptChanges

\* decideFinalizeOutputVerification: the clip is stored under its receipt.
VerifyOutput(a) ==
  /\ AttemptMoves(a, "OUTPUT_INGESTING", "OUTPUT_VERIFIED")
  /\ OnlyAttemptChanges

\* The media validation of a verified output reaches its verdict.  It looks at
\* the attempt alone, whatever has become of its request.
JudgeMedia(a) ==
  /\ attempt[a] = "OUTPUT_VERIFIED"
  /\ verdict[a] = "NONE"
  /\ \E v \in {"VALID", "INVALID"} : verdict' = [verdict EXCEPT ![a] = v]
  /\ UNCHANGED <<jobVars, deleted, sceneVars, attempt, work, versionVars>>

-----------------------------------------------------------------------------
(***************************************************************************)
(* Transaction F: a validated clip is delivered to its scene.              *)
(***************************************************************************)

\* The clip F may deliver: the newest attempt of an open request, proved valid.
DeliveryDue(r) ==
  /\ job = "GENERATING"
  /\ attempt[Newest(r)] = "OUTPUT_VERIFIED"
  /\ verdict[Newest(r)] = "VALID"
  /\ request[r] = "GENERATING"

\* What F then requires of the scene.  Anything else is a defect it throws
\* (SCENE_STATE_CONFLICT, REGENERATION_PREDECESSOR_MISSING,
\* DELIVERY_POINTER_CONFLICT, PARTIAL_DELIVERY_STATE).
DeliveryShape(r) ==
  LET s == SceneOf(r)
  IN /\ scene[s] = WorkingState(r)
     /\ IsInitial(r) \/ delivered[s] # 0
     /\ delivered[s] # 0 => DeliveredPredecessor(s)

\* deliverValidatedScene.
Deliver(r) ==
  LET s == SceneOf(r)
  IN /\ DeliveryDue(r)
     /\ DeliveryShape(r)
     /\ request' = [request EXCEPT ![r] = "DELIVERED"]
     /\ scene' = [scene EXCEPT ![s] = "READY"]
     /\ delivered' = [delivered EXCEPT ![s] = r[2]]
     /\ job' = IF OthersReady(s) THEN "SCENES_READY" ELSE job
     /\ UNCHANGED <<reservation, current, deleted, attemptVars, versionVars>>

\* classifyAlreadyApplied: what F answers about r before it judges anything.
DeliveryReplay(r) ==
  LET s == SceneOf(r)
  IN IF request[r] = "DELIVERED" /\ delivered[s] = r[2] /\ scene[s] = "READY"
     THEN "ALREADY_APPLIED"
     ELSE IF request[r] = "DELIVERED" \/ delivered[s] = r[2] THEN "PARTIAL" ELSE "NO"

(***************************************************************************)
(* The two ways a request ends without a clip share their effect: a first  *)
(* video fails and gives its Unit back, a revision rolls back to the video *)
(* the customer already holds.                                             *)
(***************************************************************************)

InitialShape(r) ==
  /\ scene[SceneOf(r)] = "GENERATING"
  /\ delivered[SceneOf(r)] = 0
  /\ current = 0

RevisionShape(r) ==
  /\ scene[SceneOf(r)] = "REVISING"
  /\ delivered[SceneOf(r)] # r[2]
  /\ DeliveredPredecessor(SceneOf(r))
  /\ current # 0
  /\ OthersReady(SceneOf(r))
  /\ OpenRegenerations \subseteq {r}

\* settleWithin's INITIAL branch and settleInitial: the Unit comes back.
FailInitial(r) ==
  /\ request' = [request EXCEPT ![r] = "FAILED_TERMINAL"]
  /\ scene' = [scene EXCEPT ![SceneOf(r)] = "FAILED_TERMINAL"]
  /\ job' = "FAILED_TERMINAL"
  /\ reservation' = "RELEASED"
  /\ UNCHANGED <<current, deleted, delivered>>

\* Mutated form of RollBackRevision: the scene stays where it was.
RollBackRevisionOfJobAlone(r, to) ==
  /\ request' = [request EXCEPT ![r] = to]
  /\ job' = "DELIVERABLE_READY"
  /\ UNCHANGED <<reservation, current, deleted, scene, delivered>>

\* rollBackRegeneration: both delivered pointers and the spent Unit stay.
RollBackRevision(r, to) ==
  /\ request' = [request EXCEPT ![r] = to]
  /\ scene' = [scene EXCEPT ![SceneOf(r)] = "READY"]
  /\ job' = "DELIVERABLE_READY"
  /\ UNCHANGED <<reservation, current, deleted, delivered>>

\* Mutated form of HeldOrReturned: a Unit reconciliation already gave back is
\* not expected.
HeldOnly == reservation \in {"RESERVED", "RECONCILIATION_HOLD"}

\* The reservation K may settle a first video under: still held, or given back
\* by the reconciliation that gave the attempt up.
HeldOrReturned == reservation \in {"RESERVED", "RECONCILIATION_HOLD", "RELEASED"}

\* Transaction K: every attempt of the request is over and the newest ended
\* without output.
AttemptsOver(r) ==
  /\ attempt[Newest(r)] \in EndedWithoutOutput
  /\ \A a \in AttemptsOf(r) : attempt[a] \in TerminalAttemptStates \cup {"ABSENT"}

FailureDue(r) ==
  /\ request[r] = "GENERATING"
  /\ AttemptsOver(r)
  /\ job = "GENERATING"

\* What decideAttemptFailureSettlement then requires; otherwise it refuses
\* (SHAPE_CONFLICT, RESERVATION_NOT_SETTLEABLE) and nothing else settles r.
FailureShape(r) ==
  IF IsInitial(r)
  THEN InitialShape(r) /\ HeldOrReturned
  ELSE RevisionShape(r) /\ reservation = "CONSUMED"

\* settleWithin.
SettleAttemptFailure(r) ==
  /\ FailureDue(r)
  /\ FailureShape(r)
  /\ IF IsInitial(r) THEN FailInitial(r) ELSE RollBackRevision(r, "FAILED_TERMINAL")
  /\ UNCHANGED <<attemptVars, versionVars>>

\* decideFailedJobSceneClosure: an open scene of a failed job, its INITIAL
\* request the only one it ever had.
ClosableScene(s) ==
  /\ job = "FAILED_TERMINAL"
  /\ scene[s] \in {"PENDING", "GENERATING"}
  /\ delivered[s] = 0
  /\ \A r \in RequestsOf(s) : ~IsInitial(r) => request[r] = "ABSENT"

\* Mutated form of NothingAtProvider: a queued attempt blocks the closure too.
NothingUnfinished(r) ==
  \A a \in AttemptsOf(r) : attempt[a] \in TerminalAttemptStates \cup {"ABSENT"}

\* No attempt of r is in flight at the provider.
NothingAtProvider(r) ==
  \A a \in AttemptsOf(r) : attempt[a] \in TerminalAttemptStates \cup {"ABSENT", "QUEUED"}

\* Mutated form of ClosedSceneState: a scene that had started is cancelled.
CancelledSceneState(s) == "CANCELLED"

\* A scene nothing was admitted for is cancelled, any other one fails.
ClosedSceneState(s) ==
  IF scene[s] = "PENDING" /\ request[<<s, 1>>] = "PENDING"
  THEN "CANCELLED" ELSE "FAILED_TERMINAL"

\* Transaction L, closeWithin: the open scenes of a failed job close, except
\* while one of their attempts is in flight at the provider.
CloseFailedScene(s) ==
  LET r == <<s, 1>>
  IN /\ ClosableScene(s)
     /\ scene' = [scene EXCEPT ![s] = ClosedSceneState(s)]
     /\ \/ /\ request[r] = "PENDING"
           /\ \A a \in AttemptsOf(r) : attempt[a] = "ABSENT"
           /\ request' = [request EXCEPT ![r] = "CANCELLED"]
           /\ UNCHANGED attempt
        \/ /\ request[r] = "GENERATING"
           /\ NothingAtProvider(r)
           /\ request' = [request EXCEPT ![r] = "FAILED_TERMINAL"]
           /\ attempt' = [a \in Attempt |->
                            IF RequestOf(a) = r /\ attempt[a] = "QUEUED"
                            THEN "CANCELLED_PRE_SUBMISSION" ELSE attempt[a]]
     /\ UNCHANGED <<jobVars, deleted, delivered, verdict, work, versionVars>>

-----------------------------------------------------------------------------
(***************************************************************************)
(* Transaction H: what a clip that failed its media validation leads to.   *)
(***************************************************************************)

\* Mutated form of Disposition: a recovery already admitted is not recognised.
DispositionOfTheFirst(a) ==
  LET r == RequestOf(a)
  IN IF request[r] # "GENERATING" THEN "OBSOLETE"
     ELSE IF a = Recovery(r) THEN "SETTLE_EXHAUSTED" ELSE "ADMIT_RECOVERY"

\* classify: what a claimed failure needs, and nothing when there is none.
Disposition(a) ==
  LET r == RequestOf(a)
  IN IF request[r] # "GENERATING" THEN "OBSOLETE"
     ELSE IF a # Newest(r) THEN "RECONCILE_RECOVERY"
     ELSE IF a = Recovery(r) THEN "SETTLE_EXHAUSTED" ELSE "ADMIT_RECOVERY"

\* claim: the failure gets its work row.  A later claim changes its lease alone.
ClaimFailure(a) ==
  /\ attempt[a] = "OUTPUT_VERIFIED"
  /\ verdict[a] = "INVALID"
  /\ work[a] = "NONE"
  /\ work' = [work EXCEPT ![a] = "OPEN"]
  /\ UNCHANGED <<jobVars, deleted, sceneVars, attempt, verdict, versionVars>>

\* Mutated form of RecoveryDue: the job and its scene are not read.
RecoveryDueByAttempt(a) ==
  LET r == RequestOf(a)
  IN work[a] = "OPEN" /\ a = Primary(r) /\ a = Newest(r)

\* What admitAutomaticMediaRecovery asks of the failed attempt, its request,
\* its job and its scene.
RecoveryDue(a) ==
  LET r == RequestOf(a)
      s == SceneOf(r)
  IN /\ work[a] = "OPEN"
     /\ a = Primary(r)
     /\ a = Newest(r)
     /\ request[r] = "GENERATING"
     /\ job = "GENERATING"
     /\ scene[s] = WorkingState(r)
     /\ IsInitial(r) \/ DeliveredPredecessor(s)

\* admitAutomaticMediaRecovery: the one automatic retry.  A transaction of its
\* own: a crash after it leaves the work row open.
AdmitRecovery(a) ==
  /\ RecoveryDue(a)
  /\ attempt' = [attempt EXCEPT ![Recovery(RequestOf(a))] = "QUEUED"]
  /\ OnlyAttemptChanges

\* resolveRecoveryAdmitted and resolveObsolete.
ResolveWork(a) ==
  /\ work[a] = "OPEN"
  /\ Disposition(a) \in {"RECONCILE_RECOVERY", "OBSOLETE"}
  /\ work' = [work EXCEPT ![a] = "RESOLVED"]
  /\ UNCHANGED <<jobVars, deleted, sceneVars, attempt, verdict, versionVars>>

\* The recovery of an open request failed its validation too.
ExhaustedDue(a) ==
  /\ work[a] = "OPEN"
  /\ Disposition(a) = "SETTLE_EXHAUSTED"
  /\ job = "GENERATING"

\* What settleInitial and rollBackRegeneration then require; they answer
\* NOT_EXHAUSTED or throw (DELIVERED_PREDECESSOR_MISBOUND,
\* CONCURRENT_REVISION_AMBIGUOUS) otherwise.
ExhaustedShape(r) ==
  IF IsInitial(r)
  THEN InitialShape(r) /\ reservation \in {"RESERVED", "RECONCILIATION_HOLD"}
  ELSE RevisionShape(r) /\ reservation = "CONSUMED"

\* settleExhaustedMediaFailure.
SettleExhausted(a) ==
  LET r == RequestOf(a)
  IN /\ ExhaustedDue(a)
     /\ ExhaustedShape(r)
     /\ IF IsInitial(r) THEN FailInitial(r) ELSE RollBackRevision(r, "FAILED_TERMINAL")
     /\ work' = [work EXCEPT ![a] = "RESOLVED"]
     /\ UNCHANGED <<attempt, verdict, versionVars>>

-----------------------------------------------------------------------------
(***************************************************************************)
(* Transactions I and J: the plan of a deliverable and its composition.    *)
(***************************************************************************)

\* proveSceneInput: the scene stands READY on a delivered, verified, valid clip.
SceneProved(s) ==
  /\ scene[s] = "READY"
  /\ \E r \in RequestsOf(s) :
       /\ r[2] = delivered[s]
       /\ request[r] = "DELIVERED"
       /\ attempt[Newest(r)] = "OUTPUT_VERIFIED"
       /\ verdict[Newest(r)] = "VALID"

\* The two composition cycles: a first video under its hold, a replacement
\* under a spent Unit.
PlanFunded ==
  \/ current = 0 /\ reservation = "RESERVED"
  \/ current # 0 /\ reservation = "CONSUMED"

\* admitCompositionPlan: the next version freezes what every scene delivers now.
Plan ==
  /\ job = "SCENES_READY"
  /\ PlanFunded
  /\ \A s \in Scene : SceneProved(s)
  /\ newest < MaxVersions
  /\ newest' = newest + 1
  /\ composition' = [composition EXCEPT ![newest + 1] = "PLANNED"]
  /\ inputs' = [inputs EXCEPT ![newest + 1] = delivered]
  /\ job' = "COMPOSITION_PENDING"
  /\ UNCHANGED <<reservation, current, deleted, sceneVars, attemptVars, validation>>

\* existingPlan: what I answers when the job it is asked to plan already is
\* COMPOSITION_PENDING (a retried pass, or a second worker that lost the race).
PlanReplay ==
  IF /\ newest # 0
     /\ IF current = 0 THEN newest = 1 ELSE newest = current + 1
  THEN "ALREADY_PLANNED" ELSE "PARTIAL_PLAN_STATE"

\* Mutated form of ExecutablePlan: the plan's own replay rule is applied here.
ExecutableNextPlan ==
  IF current = 0 THEN newest = 1 ELSE newest = current + 1

\* assertPendingCycleVersion.
ExecutablePlan ==
  IF current = 0 THEN newest = 1 ELSE newest # current

\* claimCompositionWork, first claim: the work row and the job start together.
\* Later claims of the same row change its lease alone.
ClaimComposition ==
  /\ job = "COMPOSITION_PENDING"
  /\ newest # 0
  /\ composition[newest] = "PLANNED"
  /\ ExecutablePlan
  /\ composition' = [composition EXCEPT ![newest] = "RUNNING"]
  /\ job' = "COMPOSING"
  /\ UNCHANGED <<reservation, current, deleted, sceneVars, attemptVars, newest, validation, inputs>>

\* finalizeComposition.
FinishComposition ==
  /\ job = "COMPOSING"
  /\ newest # 0
  /\ composition[newest] = "RUNNING"
  /\ composition' = [composition EXCEPT ![newest] = "OUTPUT_VERIFIED"]
  /\ job' = "DELIVERABLE_VALIDATING"
  /\ UNCHANGED <<reservation, current, deleted, sceneVars, attemptVars, newest, validation, inputs>>

\* Mutated forms of SettleFailedDeliverable: the job fails and nothing is given
\* back; a replacement that fails takes the earlier video's Unit with it; a
\* replacement's job is left where the cycle failed.
SettleJobAlone ==
  /\ job' = IF current = 0 THEN "FAILED_TERMINAL" ELSE "DELIVERABLE_READY"
  /\ UNCHANGED <<reservation, current>>

SettleAsFirstVideo ==
  /\ job' = "FAILED_TERMINAL"
  /\ reservation' = "RELEASED"
  /\ UNCHANGED current

SettleFirstVideosAlone ==
  IF current = 0 THEN SettleAsFirstVideo ELSE UNCHANGED jobVars

\* The reservation agrees with the job, so that a failed cycle can be settled
\* and a verified one published (RESERVATION_NOT_SETTLEABLE,
\* RESERVATION_NOT_CONSUMABLE and PARTIAL_PUBLICATION_STATE otherwise).
CycleFunded ==
  IF current = 0
  THEN reservation \in {"RESERVED", "RECONCILIATION_HOLD"}
  ELSE reservation = "CONSUMED"

\* settleFailedDeliverable: a first video fails and its Unit returns; a
\* replacement is dropped and the customer keeps the video they have.
SettleFailedDeliverable ==
  /\ CycleFunded
  /\ IF current = 0
     THEN job' = "FAILED_TERMINAL" /\ reservation' = "RELEASED"
     ELSE job' = "DELIVERABLE_READY" /\ UNCHANGED reservation
  /\ UNCHANGED current

\* isDeliverableFailureSettled: what a replay of v's terminal row must find.
FailureSettled(v, failedIn) ==
  IF current = 0
  THEN job = "FAILED_TERMINAL" /\ reservation = "RELEASED"
  ELSE reservation = "CONSUMED" /\ ~(v = newest /\ job = failedIn)

\* blockComposition, with the settlement it commits.
BlockComposition ==
  /\ job = "COMPOSING"
  /\ newest # 0
  /\ composition[newest] = "RUNNING"
  /\ composition' = [composition EXCEPT ![newest] = "BLOCKED"]
  /\ SettleFailedDeliverable
  /\ UNCHANGED <<deleted, sceneVars, attemptVars, newest, validation, inputs>>

-----------------------------------------------------------------------------
(***************************************************************************)
(* Transaction G: the composed video is validated and published.           *)
(***************************************************************************)

ValidationMoves(from, to) ==
  /\ job = "DELIVERABLE_VALIDATING"
  /\ newest # 0
  /\ composition[newest] = "OUTPUT_VERIFIED"
  /\ validation[newest] = from
  /\ validation' = [validation EXCEPT ![newest] = to]

\* claimDeliverableValidation, first claim.
ClaimValidation ==
  /\ ValidationMoves("NONE", "RUNNING")
  /\ UNCHANGED <<jobVars, deleted, sceneVars, attemptVars, newest, composition, inputs>>

\* finalizeValid.  Publication is a later transaction.
FinalizeValid ==
  /\ ValidationMoves("RUNNING", "VALID")
  /\ UNCHANGED <<jobVars, deleted, sceneVars, attemptVars, newest, composition, inputs>>

\* finalizeTerminalVerdict, with the settlement it commits.
FinalizeInvalid ==
  /\ ValidationMoves("RUNNING", "INVALID")
  /\ SettleFailedDeliverable
  /\ UNCHANGED <<deleted, sceneVars, attemptVars, newest, composition, inputs>>

\* Mutated forms of Publishable: a verdict that is not in yet will do; a claim
\* that outlived its own publication is not refused.
PublishableUnlessInvalid(v) ==
  /\ job = "DELIVERABLE_VALIDATING"
  /\ composition[v] = "OUTPUT_VERIFIED"
  /\ validation[v] # "INVALID"
  /\ v > current

PublishableAgain(v) ==
  /\ job = "DELIVERABLE_VALIDATING"
  /\ validation[v] = "VALID"

\* The version a validation claim named, still proved and newer than the video
\* the customer holds.
Publishable(v) ==
  /\ job = "DELIVERABLE_VALIDATING"
  /\ validation[v] = "VALID"
  /\ v > current

\* publishDeliverable: a first video consumes the Unit, a replacement moves the
\* pointer alone, and a first video of a deleted property is settled instead.
Publish(v) ==
  /\ Publishable(v)
  /\ CycleFunded
  /\ IF current = 0 /\ deleted
     THEN SettleFailedDeliverable
     ELSE /\ job' = "DELIVERABLE_READY"
          /\ reservation' = "CONSUMED"
          /\ current' = v
  /\ RestUnchanged

-----------------------------------------------------------------------------
(***************************************************************************)
(* The customer's revisions.                                               *)
(***************************************************************************)

\* Mutated form of RegenerationsLeft: one too many is allowed.
RegenerationsLeftOffByOne(s) ==
  Cardinality({r \in RequestsOf(s) : ~IsInitial(r) /\ request[r] = "DELIVERED"})
    <= MaxUserRegenerations

\* nextUserRegenerationOrdinal is not null: delivered regenerations only count.
RegenerationsLeft(s) ==
  Cardinality({r \in RequestsOf(s) : ~IsInitial(r) /\ request[r] = "DELIVERED"})
    < MaxUserRegenerations

\* What admitUserRegeneration asks of the job, the scene and the earlier requests.
RegenerationAllowed(r) ==
  LET s == SceneOf(r)
  IN /\ job = "DELIVERABLE_READY"
     /\ current # 0
     /\ reservation = "CONSUMED"
     /\ OpenRegenerations = {}
     /\ scene[s] = "READY"
     /\ DeliveredPredecessor(s)
     /\ RegenerationsLeft(s)
     /\ request[r] = "ABSENT"
     /\ \A q \in RequestsOf(s) : q[2] < r[2] => request[q] # "ABSENT"

\* Mutated form of ReopenedJobState: the job reopens with the first attempt only.
UnopenedJobState == "DELIVERABLE_READY"

\* DELIVERABLE_READY -> REVISING -> GENERATING, both in the admission's commit.
ReopenedJobState == "GENERATING"

\* admitUserRegeneration: the request is created and its scene and job reopen.
AdmitRegeneration(r) ==
  /\ RegenerationAllowed(r)
  /\ request' = [request EXCEPT ![r] = "PENDING"]
  /\ scene' = [scene EXCEPT ![SceneOf(r)] = "REVISING"]
  /\ job' = ReopenedJobState
  /\ UNCHANGED <<reservation, current, deleted, delivered, attemptVars, versionVars>>

\* admit (Transaction C) for a pending regeneration: its PRIMARY attempt.
AdmitRegenerationAttempt(r) ==
  /\ ~IsInitial(r)
  /\ request[r] = "PENDING"
  /\ \A a \in AttemptsOf(r) : attempt[a] = "ABSENT"
  /\ request' = [request EXCEPT ![r] = "GENERATING"]
  /\ attempt' = [attempt EXCEPT ![Primary(r)] = "QUEUED"]
  /\ UNCHANGED <<jobVars, deleted, scene, delivered, verdict, work, versionVars>>

\* rollBackPendingUserRegeneration: a revision nothing was admitted for.
RollBackPendingRegeneration(r) ==
  /\ ~IsInitial(r)
  /\ request[r] = "PENDING"
  /\ \A a \in AttemptsOf(r) : attempt[a] = "ABSENT"
  /\ job = "GENERATING"
  /\ RevisionShape(r)
  /\ reservation = "CONSUMED"
  /\ \E to \in {"CANCELLED", "FAILED_TERMINAL"} : RollBackRevision(r, to)
  /\ UNCHANGED <<attemptVars, versionVars>>

-----------------------------------------------------------------------------
\* What a customer or an outside clerk may do; nothing obliges them to.
Customer ==
  \/ Start
  \/ DeleteProperty
  \/ \E r \in Request : AdmitRegeneration(r) \/ RollBackPendingRegeneration(r)

\* Steps of the workers on one attempt.
AttemptStep(a) ==
  \/ Arm(a) \/ EndQueuedAttempt(a) \/ RecordOutcome(a) \/ EnterUncertainty(a)
  \/ Resolve(a) \/ Exhaust(a) \/ Complete(a) \/ BeginIngestion(a)
  \/ VerifyOutput(a) \/ JudgeMedia(a)
  \/ ClaimFailure(a) \/ AdmitRecovery(a) \/ ResolveWork(a) \/ SettleExhausted(a)

\* Steps of the workers on one request.
RequestStep(r) ==
  AdmitRegenerationAttempt(r) \/ Deliver(r) \/ SettleAttemptFailure(r)

\* Steps of the workers on the job and its versions.
JobStep ==
  \/ Launch \/ EndUnlaunchableJob \/ EndLaunchedJob
  \/ \E s \in Scene : CloseFailedScene(s)
  \/ Plan \/ ClaimComposition \/ FinishComposition \/ BlockComposition
  \/ ClaimValidation \/ FinalizeValid \/ FinalizeInvalid
  \/ \E v \in Version : Publish(v)

Next ==
  \/ Customer
  \/ \E a \in Attempt : AttemptStep(a)
  \/ \E r \in Request : RequestStep(r)
  \/ JobStep

Spec == Init /\ [][Next]_vars
=============================================================================
