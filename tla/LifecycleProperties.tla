------------------------- MODULE LifecycleProperties -------------------------
(***************************************************************************)
(* What a generation order must keep, whatever the interleaving of the     *)
(* workers, the customer and the provider.  Each property is about rows    *)
(* that different transactions write.                                      *)
(***************************************************************************)
EXTENDS GenerationLifecycle

Held == {"RESERVED", "RECONCILIATION_HOLD"}

\* The states of a job whose scenes are all delivered and being assembled.
AssemblyStates ==
  {"SCENES_READY", "COMPOSITION_PENDING", "COMPOSING", "DELIVERABLE_VALIDATING"}

-----------------------------------------------------------------------------
(***************************************************************************)
(* Safety.                                                                 *)
(***************************************************************************)

\* A Unit is spent exactly while the customer holds a video, it is held only
\* while a first video is still being made, a failed job has given it back,
\* and a job at rest has a video.  Eight transactions write the reservation,
\* the job and the pointer.
UnitFollowsVideo ==
  /\ current # 0 <=> reservation = "CONSUMED"
  /\ job = "ABSENT" <=> reservation = "ABSENT"
  /\ reservation \in Held => job \in {"RESERVED", "GENERATING"} \cup AssemblyStates
  /\ job = "FAILED_TERMINAL" => reservation = "RELEASED"
  /\ job = "DELIVERABLE_READY" => current # 0

\* A Unit that reconciliation gave back belongs to a job that cannot go on:
\* a request of it is over without a clip and waits for Transaction K.  The
\* job never renders on for free, and a first video is assembled only under a
\* Unit that is plainly reserved: no attempt of it is uncertain any more.
ReturnedUnitMeansFailure ==
  /\ reservation = "RELEASED" =>
       \/ job = "FAILED_TERMINAL"
       \/ \E r \in Request : IsInitial(r) /\ FailureDue(r)
  /\ job \in AssemblyStates /\ current = 0 => reservation = "RESERVED"

\* The Unit is on hold exactly while an uncertain submission of a first video
\* is open: no hold without a reason, and no uncertain attempt whose Unit is
\* plainly reserved.  Holds and releases come from different attempts.
HoldHasReason ==
  /\ reservation = "RECONCILIATION_HOLD" =>
       \E a \in Attempt : attempt[a] = "RECONCILIATION_PENDING"
  /\ \A a \in Attempt :
       attempt[a] = "RECONCILIATION_PENDING" /\ IsInitial(RequestOf(a)) =>
         reservation \in {"RECONCILIATION_HOLD", "RELEASED"}

\* A job that revises a video revises one scene of it, and a job at rest or in
\* assembly revises none: what H and K rest on when they give the earlier
\* video back.
OneRevisionAtATime ==
  LET revising == {s \in Scene : scene[s] = "REVISING"}
  IN /\ Cardinality(OpenRegenerations) <= 1
     /\ revising = {SceneOf(r) : r \in OpenRegenerations}
     /\ OpenRegenerations # {} <=> job = "GENERATING" /\ current # 0
     /\ \A r \in OpenRegenerations : RevisionShape(r)

\* No transaction that is due meets rows it refuses as contradictory: a valid
\* clip can be delivered, a failed request settled, an exhausted recovery
\* settled or left to K, a finished scene set planned, a cycle settled or
\* published.  A refusal here would strand the job for good.
NothingDueIsRefused ==
  /\ \A r \in Request : DeliveryDue(r) => DeliveryShape(r)
  /\ \A r \in Request : FailureDue(r) => FailureShape(r)
  /\ \A a \in Attempt :
       ExhaustedDue(a) /\ reservation # "RELEASED" => ExhaustedShape(RequestOf(a))
  /\ job = "SCENES_READY" => PlanFunded /\ \A s \in Scene : SceneProved(s)
  /\ job \in {"COMPOSING", "DELIVERABLE_VALIDATING"} => CycleFunded

\* A version whose composition or validation ended badly finds its settlement
\* durable for ever after, through every later revision: the replay of its
\* terminal row never throws SETTLEMENT_INCOMPLETE.
FailedVersionsStaySettled ==
  \A v \in Version :
    /\ composition[v] = "BLOCKED" => FailureSettled(v, "COMPOSING")
    /\ validation[v] = "INVALID" => FailureSettled(v, "DELIVERABLE_VALIDATING")

\* The video the customer holds was composed and proved valid, is never newer
\* than the newest plan, and the plan being executed froze exactly the clips
\* the scenes deliver now.
AssembledFromDeliveredScenes ==
  /\ current # 0 =>
       /\ current <= newest
       /\ composition[current] = "OUTPUT_VERIFIED"
       /\ validation[current] = "VALID"
  /\ job \in AssemblyStates \ {"SCENES_READY"} =>
       newest > current /\ inputs[newest] = delivered
  /\ job = "COMPOSITION_PENDING" => composition[newest] = "PLANNED"
  /\ job = "COMPOSING" => composition[newest] = "RUNNING"
  /\ job = "DELIVERABLE_VALIDATING" => validation[newest] \in {"NONE", "RUNNING", "VALID"}

\* Paid work is never left running behind a video: an attempt that can still
\* cost money is the newest of an open request of a job that is generating, or
\* the job has failed and Transaction L waits for it.
NothingInFlightBehindAVideo ==
  \A a \in Attempt : attempt[a] \in ActiveAttemptStates =>
    LET r == RequestOf(a)
    IN /\ request[r] = "GENERATING"
       /\ a = Newest(r)
       /\ job \in {"GENERATING", "FAILED_TERMINAL"}

\* A job at rest can always be revised again: on every scene that has a
\* regeneration right left (a failed or cancelled one spends none), whatever
\* revisions of it and of the other scenes failed before.  Never more than
\* MaxUserRegenerations are delivered.
RevisionsStayPossible ==
  LET spent(s) ==
        Cardinality({r \in RequestsOf(s) : ~IsInitial(r) /\ request[r] = "DELIVERED"})
  IN /\ \A s \in Scene : spent(s) <= MaxUserRegenerations
     /\ job = "DELIVERABLE_READY" =>
          \A r \in Request :
            /\ spent(SceneOf(r)) < MaxUserRegenerations
            /\ request[r] = "ABSENT"
            /\ \A q \in RequestsOf(SceneOf(r)) : q[2] < r[2] => request[q] # "ABSENT"
            => RegenerationAllowed(r)

-----------------------------------------------------------------------------
(***************************************************************************)
(* What a step may never do.                                               *)
(***************************************************************************)

Moves(table, from, to, births) ==
  to = from \/ IF from = "ABSENT" THEN to \in births ELSE to \in table[from]

\* Every state any transaction writes, with SQL of its own, is one the closed
\* tables of state-machines.ts allow from the state it found.  A start commits
\* CREATED -> RESERVING -> RESERVED and a revision's admission
\* DELIVERABLE_READY -> REVISING -> GENERATING, two moves in one step.
LegalTransitions ==
  [][ /\ \/ Moves(JobTransitions, job, job', {"RESERVED"})
         \/ job = "DELIVERABLE_READY" /\ job' = "GENERATING"
      /\ Moves(ReservationTransitions, reservation, reservation', {"RESERVED"})
      /\ \A s \in Scene : Moves(SceneTransitions, scene[s], scene'[s], {"PENDING"})
      /\ \A r \in Request : Moves(RequestTransitions, request[r], request'[r], {"PENDING"})
      /\ \A a \in Attempt : Moves(AttemptTransitions, attempt[a], attempt'[a], {"QUEUED"})
    ]_vars

\* The video the customer holds is replaced only by a newer one proved valid,
\* composed of the clips its scenes deliver, and is never taken away; the Unit
\* it cost stays spent.
CustomerKeepsVideo ==
  [][ /\ current' >= current
      /\ current # 0 => reservation' = "CONSUMED"
      /\ current' # current =>
           validation[current'] = "VALID" /\ inputs[current'] = delivered'
    ]_vars

\* An attempt crosses the provider boundary only for work that can still be
\* used: its request and its job are generating and its property is kept.  The
\* gate itself reads neither the request's nor the job's state.
ArmedOnlyForLiveWork ==
  [][ \A a \in Attempt :
        attempt[a] = "QUEUED" /\ attempt'[a] = "SUBMITTING" =>
          /\ request[RequestOf(a)] = "GENERATING"
          /\ job = "GENERATING"
          /\ ~deleted
    ]_vars

-----------------------------------------------------------------------------
(***************************************************************************)
(* What the order promises, and the order as its rows show it.             *)
(***************************************************************************)

UnitOfOrder ==
  CASE reservation = "ABSENT"   -> "NONE"
    [] reservation = "CONSUMED" -> "SPENT"
    [] reservation = "RELEASED" -> "RETURNED"
    [] OTHER                    -> "HELD"

PhaseOfOrder ==
  CASE job = "ABSENT"            -> "NONE"
    [] job = "FAILED_TERMINAL"   -> "GONE"
    [] job = "DELIVERABLE_READY" -> "SHOWN"
    [] OTHER                     -> IF current = 0 THEN "MAKING" ELSE "REVISING"

Contract == INSTANCE VideoOrderContract
  WITH unit <- UnitOfOrder, phase <- PhaseOfOrder, video <- current

\* Every step of every worker, in any order, is a step of the contract or
\* changes nothing the customer is promised.
ImplementsContract == Contract!Spec

-----------------------------------------------------------------------------
(***************************************************************************)
(* What must eventually happen.  The workers run every pass again and      *)
(* again, and each pass offers every due row, so a step that only needs    *)
(* the database is weakly fair for every row (WorkerFairness).  The stale  *)
(* sweep bounds SUBMITTING and the reconciliation deadline bounds          *)
(* RECONCILIATION_PENDING, whatever the provider does.  A step that needs  *)
(* an answer of the provider, the object storage or the video tools is     *)
(* retried without limit, so it is fair only if that answer comes:         *)
(* ExternalAnswers, assumed where a property needs it.  Nothing obliges    *)
(* the customer, a launch (it waits for a free place) or the arming of a   *)
(* queued attempt (the gate may refuse it for as long as the               *)
(* organization's cost limits do).                                         *)
(***************************************************************************)

WorkerFairness ==
  /\ \A a \in Attempt :
       /\ WF_vars(RecordOutcome(a) \/ EnterUncertainty(a))
       /\ WF_vars(Resolve(a) \/ Exhaust(a))
       /\ WF_vars(ClaimFailure(a))
       /\ WF_vars(AdmitRecovery(a))
       /\ WF_vars(ResolveWork(a))
       /\ WF_vars(SettleExhausted(a))
  /\ \A r \in Request : WF_vars(Deliver(r)) /\ WF_vars(SettleAttemptFailure(r))
  /\ \A s \in Scene : WF_vars(CloseFailedScene(s))
  /\ WF_vars(Plan)
  /\ WF_vars(ClaimComposition)
  /\ WF_vars(ClaimValidation)
  /\ WF_vars(\E v \in Version : Publish(v))

ExternalAnswers ==
  /\ \A a \in Attempt :
       /\ WF_vars(Complete(a))
       /\ WF_vars(BeginIngestion(a))
       /\ WF_vars(VerifyOutput(a))
  /\ WF_vars(FinishComposition \/ BlockComposition)
  /\ WF_vars(FinalizeValid \/ FinalizeInvalid)

FairSpec == Spec /\ WorkerFairness

\* Every scene and request of a failed job closes, whichever of its attempts
\* were queued, uncertain or running when it failed, if the answers come.
FailedJobCloses ==
  ExternalAnswers =>
    (job = "FAILED_TERMINAL" ~>
       /\ \A s \in Scene : scene[s] \in {"READY", "FAILED_TERMINAL", "CANCELLED"}
       /\ \A r \in Request : request[r] \notin OpenRequestStates)

\* A Unit on hold does not stay on hold: it is reserved again, given back, or
\* spent, whatever the uncertain attempts turn out to be.
HoldEnds == reservation = "RECONCILIATION_HOLD" ~> reservation # "RECONCILIATION_HOLD"

\* A request all of whose attempts ended without a clip is settled, also when
\* reconciliation gave its Unit back first.
FailedRequestSettles ==
  \A r \in Request :
    (request[r] = "GENERATING" /\ AttemptsOver(r)) ~> (request[r] # "GENERATING")

\* A clip that failed its validation leads to its one recovery or to the end of
\* its request, and its work row is resolved, also when the job failed first or
\* the worker stopped between the admission and the resolution.
MediaFailureResolves ==
  \A a \in Attempt : verdict[a] = "INVALID" ~> work[a] = "RESOLVED"

\* A job whose scenes are all delivered comes to rest: published, rolled back
\* to the earlier video, or failed; also after earlier versions were dropped
\* and left a gap in the ordinals, if the answers come.
AssemblyEnds ==
  ExternalAnswers =>
    (job \in AssemblyStates /\ (job = "SCENES_READY" => newest < MaxVersions)
       ~> job \in {"DELIVERABLE_READY", "FAILED_TERMINAL"})

-----------------------------------------------------------------------------
(***************************************************************************)
(* What comments of the code say and the code does not keep.               *)
(***************************************************************************)

\* deliverable-composition-repository.ts:413-417: a planned cycle is "exactly
\* one ordinal after the current version", so a job that is
\* COMPOSITION_PENDING finds its plan.  A replacement that was composed and
\* dropped (ADR-0082) leaves a gap, and a replay of Transaction I then throws
\* PARTIAL_PLAN_STATE over a sound plan.
PendingPlanIsFound == job = "COMPOSITION_PENDING" => PlanReplay = "ALREADY_PLANNED"

\* validated-scene-delivery-repository.ts:435-436: "A delivered request whose
\* Scene does not point at it ... [is] impossible after Transaction F".  Every
\* delivered regeneration leaves its predecessor in just that state, and a
\* replay of the earlier delivery throws PARTIAL_DELIVERY_STATE.
DeliveryIsNeverPartial == \A r \in Request : DeliveryReplay(r) # "PARTIAL"
=============================================================================
