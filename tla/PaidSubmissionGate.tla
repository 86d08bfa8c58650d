-------------------------- MODULE PaidSubmissionGate --------------------------
(***************************************************************************)
(* Whether one attempt may be paid for: packages/domain/src/authorization  *)
(* and packages/database/src/paid-submission-authorization-repository.ts.  *)
(* AttemptSubmission counts every planned cost as one; here the costs are  *)
(* yen, derived again from the stored cost decision of every attempt.      *)
(*                                                                         *)
(* One call reads everything, decides and arms inside one transaction that *)
(* holds the cycle's cost-admission lock, the reservation and the source,  *)
(* so the gate is a function of the rows it finds.  The rows are those of  *)
(* one organization:                                                       *)
(*                                                                         *)
(*   attempt      id -> the attempt with its request's facts               *)
(*   snapshot     id -> the cost decision stored for the attempt, or None  *)
(*   job, reservation   the attempt's job and its job's reservation or None *)
(*   rate         id -> exchange rate, or None                             *)
(*   cycle        the attempts whose reservation draws on the same cycle   *)
(*   period       what the cycle's organization pays, or None              *)
(*   source       the attempt's photo, or None, and its property's state   *)
(***************************************************************************)
EXTENDS ProviderPricing, Functions

--------------------------------------------------------------------------------
(* Why a call may be refused.                                                   *)

AttemptArmabilityFailure ==
  {"ATTEMPT_STATE_NOT_QUEUED", "ATTEMPT_ALREADY_SUBMITTED", "ATTEMPT_SUBMISSION_UNCERTAIN",
   "ATTEMPT_CERTAINTY_NOT_PRE_SUBMISSION", "ATTEMPT_FACTS_INCOMPLETE",
   "REQUEST_REGENERATION_ORDINAL_INVALID"}

ReservationAuthorizationFailure ==
  {"RESERVATION_MISSING", "RESERVATION_NOT_HELD", "RESERVATION_CONSUMED",
   "RESERVATION_RELEASED", "RESERVATION_ON_RECONCILIATION_HOLD", "RESERVATION_JOB_MISMATCH",
   "RESERVATION_UNDER_RESERVED", "RESERVATION_HIGH_QUALITY_MISMATCH"}

PricingAuthorizationFailure ==
  {"PRICING_CONTRACT_MISSING", "PRICING_CONTRACT_UNVERIFIED", "PRICING_CONTRACT_EXPIRED",
   "PRICING_CONTRACT_PROMOTIONAL_ONLY", "PRICING_CONTRACT_NOT_YET_EFFECTIVE",
   "PRICING_SNAPSHOT_MISSING", "PRICING_SNAPSHOT_NOT_FOR_ATTEMPT",
   "PRICING_SNAPSHOT_BINDING_INVALID", "PRICING_CONTRACT_FINGERPRINT_MISMATCH",
   "PRICING_SNAPSHOT_NOT_REPRODUCIBLE", "PRICING_FX_SNAPSHOT_MISSING",
   "PRICING_FX_SNAPSHOT_INVALID", "PRICING_EXPOSURE_SNAPSHOT_INVALID"}

SafetyGuardAuthorizationFailure ==
  {"HARD_PAUSE_PROJECTED_PROFIT_BELOW_FLOOR", "BILLING_CYCLE_REVENUE_UNAVAILABLE"}

SourceAuthorizationFailure ==
  {"ASSET_NOT_FOUND", "PROPERTY_DELETED", "ASSET_SOURCE_CHANGED", "ASSET_NOT_READY",
   "ASSET_UPLOAD_FAILED", "ASSET_UNRECOVERABLE", "ASSET_FORMAT_UNSUPPORTED",
   "ASSET_SOURCE_UNIDENTIFIABLE"}

--------------------------------------------------------------------------------
(* What an attempt may still cost.                                              *)

ALWAYS_COST_EXPOSED_ATTEMPT_STATES ==
  {"SUBMITTING", "PROCESSING", "PROVIDER_SUCCEEDED", "OUTPUT_INGESTING",
   "RECONCILIATION_PENDING", "RECONCILIATION_EXHAUSTED"}

COST_BEARING_SUBMISSION_CERTAINTIES == {"ACCEPTED", "SUBMISSION_UNKNOWN"}

\* The filter of the query that loads the other attempts of a cycle.
isPotentiallyCostExposed(state, certainty) ==
  /\ certainty # "DEFINITIVELY_REJECTED"
  /\ \/ state \in ALWAYS_COST_EXPOSED_ATTEMPT_STATES
     \/ certainty \in COST_BEARING_SUBMISSION_CERTAINTIES

classifyProviderCostExposure(state, certainty) ==
  IF certainty = "DEFINITIVELY_REJECTED" THEN "NONE"
  ELSE CASE state \in {"RECONCILIATION_PENDING", "RECONCILIATION_EXHAUSTED"} -> "UNCERTAIN"
         [] state \in {"SUBMITTING", "PROCESSING", "PROVIDER_SUCCEEDED", "OUTPUT_INGESTING"}
              -> "IN_FLIGHT"
         [] OTHER -> CASE certainty = "PRE_SUBMISSION" -> "NONE"
                       [] certainty = "ACCEPTED"       -> "SETTLED_ESTIMATED"
                       [] OTHER                        -> "UNCERTAIN"

\* A row from before the column existed reads as never submitted.
CertaintyOfRow(row) == IF row.certainty = None THEN "PRE_SUBMISSION" ELSE row.certainty

--------------------------------------------------------------------------------
(* The stored cost decision, derived again.                                     *)

\* An identity that is not the seven strings names no contract.
contractFor(contracts, stored) ==
  IF stored.identity = None THEN None ELSE findByIdentity(contracts, stored.identity)

Verified(cost)     == [ok |-> TRUE, yen |-> cost]
Unverified(reason) == [ok |-> FALSE, reason |-> reason]

\* What is stored must be what the code would store today, field for field.
verifyPersistedPricingSnapshot(stored, contract, fx) ==
  IF contract = None THEN Failure("PRICING_CONTRACT_MISSING")
  ELSE IF providerPricingContractFingerprint(contract) # stored.contractFingerprint
       THEN Failure("PRICING_CONTRACT_FINGERPRINT_MISMATCH")
  ELSE IF stored.riskProfileKey \notin DOMAIN RiskBufferBps
       THEN Failure("PRICING_SNAPSHOT_NOT_REPRODUCIBLE")
  ELSE IF \/ stored.effectiveAt < contract.effectiveFrom
          \/ contract.effectiveUntil # None /\ stored.effectiveAt >= contract.effectiveUntil
       THEN Failure("PRICING_SNAPSHOT_NOT_REPRODUCIBLE")
  ELSE LET derived == createPricingSnapshot(contract, stored.riskProfileKey,
                                            stored.requestedSeconds, stored.effectiveAt, fx)
       IN  IF derived.ok /\ derived.value = stored THEN derived
           ELSE Failure("PRICING_SNAPSHOT_NOT_REPRODUCIBLE")

\* A rate that no longer passes its own validation is no rate.
loadFxSnapshot(rates, id) ==
  IF rates[id] = None THEN None
  ELSE IF validateFxSnapshot(rates[id]).ok THEN rates[id] ELSE None

verifiedPlanningCostYen(rates, contracts, stored) ==
  IF stored.fxSnapshotId = None THEN Unverified("PRICING_FX_SNAPSHOT_MISSING")
  ELSE LET fx == loadFxSnapshot(rates, stored.fxSnapshotId)
       IN  IF fx = None THEN Unverified("PRICING_FX_SNAPSHOT_INVALID")
           ELSE LET verified == verifyPersistedPricingSnapshot(
                                  stored, contractFor(contracts, stored), fx)
                IN  IF verified.ok
                    THEN Verified(convertMicroUsdToYen(verified.value.planningCost, fx).value)
                    ELSE Unverified(verified.reason)

--------------------------------------------------------------------------------
(* What the cycle is exposed to, and what it earns.                             *)

\* The other attempts of the cycle that may cost something.
Exposed(db, id) ==
  {a \in db.cycle \ {id} :
     isPotentiallyCostExposed(db.attempt[a].state, CertaintyOfRow(db.attempt[a]))}

CostOf(db, contracts, a) ==
  IF db.snapshot[a] = None THEN Unverified("PRICING_SNAPSHOT_MISSING")
  ELSE verifiedPlanningCostYen(db.rate, contracts, db.snapshot[a])

\* One of them that cannot be priced makes the whole sum unknown.
ExposureVerified(db, contracts, id) == \A a \in Exposed(db, id) : CostOf(db, contracts, a).ok

ExposureIn(db, contracts, id, category) ==
  SumFunction([a \in {a \in Exposed(db, id) :
                        /\ classifyProviderCostExposure(db.attempt[a].state,
                                                        CertaintyOfRow(db.attempt[a])) = category
                        /\ CostOf(db, contracts, a).ok} |-> CostOf(db, contracts, a).yen])

totalProviderCostExposureYen(db, contracts, id, planned) ==
    ExposureIn(db, contracts, id, "SETTLED_ESTIMATED")
  + ExposureIn(db, contracts, id, "UNCERTAIN")
  + ExposureIn(db, contracts, id, "IN_FLIGHT")
  + planned

\* What the plan costs by the month and what was bought on top; the price of an
\* enterprise plan is agreed, not known here.
billingCycleRevenueYen(period) ==
  IF period = None \/ period.planKey = "enterprise" THEN None
  ELSE period.monthlyPriceYenExTax
       + SumFunction([p \in {p \in DOMAIN period.purchase : ~ period.purchase[p].cancelled}
                        |-> period.purchase[p].priceYenExTax])

\* The larger of a sum and a share of the revenue.
safetyGuardThresholds(revenue) ==
  [warning   |-> maxYen(20000, applyBps(revenue, 2500)),
   hardPause |-> maxYen(15000, applyBps(revenue, 2000))]

evaluateSafetyGuard(revenue, profit) ==
  IF profit < safetyGuardThresholds(revenue).hardPause THEN "HARD_PAUSE"
  ELSE IF profit < safetyGuardThresholds(revenue).warning THEN "WARNING"
  ELSE "SAFE"

--------------------------------------------------------------------------------
(* Routes.                                                                      *)

\* A policy lists its qualities and, in order, its routes; a policy outside
\* production has a route for each quality and no other.
defineRoutePolicy(policy) ==
  policy.tiers = {policy.routes[i].qualityTier : i \in DOMAIN policy.routes}

\* The first route of this quality, provider, key and model, and then each fact
\* that could still differ from it, in this order.
authorizeRoute(policy, facts) ==
  LET Narrow(I, field, value) == {i \in I : policy.routes[i][field] = value}
      tier     == IF facts.qualityTier \in policy.tiers
                  THEN Narrow(DOMAIN policy.routes, "qualityTier", facts.qualityTier) ELSE {}
      provider == Narrow(tier, "providerName", facts.providerName)
      key      == Narrow(provider, "requestModelKey", facts.requestModelKey)
      model    == Narrow(key, "providerModelId", facts.providerModelId)
      route    == policy.routes[Least(model)]
  IN  IF tier = {} THEN Failure("QUALITY_TIER_ROUTE_NOT_AUTHORIZED")
      ELSE IF provider = {} THEN Failure("PROVIDER_NOT_AUTHORIZED")
      ELSE IF key = {} THEN Failure("MODEL_KEY_NOT_AUTHORIZED")
      ELSE IF model = {} THEN Failure("PROVIDER_MODEL_ID_NOT_AUTHORIZED")
      ELSE IF route.nativeTier # facts.nativeTier THEN Failure("NATIVE_TIER_NOT_AUTHORIZED")
      ELSE IF facts.target \notin route.targets THEN Failure("TARGET_RESOLUTION_NOT_AUTHORIZED")
      ELSE IF route.generationMode # facts.generationMode
           THEN Failure("GENERATION_MODE_NOT_AUTHORIZED")
      ELSE IF route.audioMode # facts.audioMode THEN Failure("AUDIO_MODE_NOT_AUTHORIZED")
      ELSE Ok(route)

--------------------------------------------------------------------------------
(* The gate.  Each part answers None, or why it refuses.                        *)

NON_ARMABLE_STATE_REASON(state) ==
  CASE state \in {"SUBMITTING", "PROCESSING", "PROVIDER_SUCCEEDED", "OUTPUT_INGESTING",
                  "OUTPUT_VERIFIED"}                                -> "ATTEMPT_ALREADY_SUBMITTED"
    [] state \in {"RECONCILIATION_PENDING", "RECONCILIATION_EXHAUSTED"}
                                                                    -> "ATTEMPT_SUBMISSION_UNCERTAIN"
    [] OTHER                                                        -> "ATTEMPT_STATE_NOT_QUEUED"

NON_ARMABLE_CERTAINTY_REASON(certainty) ==
  CASE certainty = "ACCEPTED"           -> "ATTEMPT_ALREADY_SUBMITTED"
    [] certainty = "SUBMISSION_UNKNOWN" -> "ATTEMPT_SUBMISSION_UNCERTAIN"
    [] OTHER                            -> "ATTEMPT_CERTAINTY_NOT_PRE_SUBMISSION"

\* A revision has an ordinal, a first video's request has none.
OrdinalCoherent(row) == (row.requestKind = "USER_REGENERATION") <=> (row.ordinal # None)

AttemptRefusal(row) ==
  IF row.state # "QUEUED" THEN NON_ARMABLE_STATE_REASON(row.state)
  ELSE IF CertaintyOfRow(row) # "PRE_SUBMISSION" THEN NON_ARMABLE_CERTAINTY_REASON(CertaintyOfRow(row))
  ELSE IF None \in {row.modelKey, row.nativeTier, row.target, row.duration, row.contractKey}
       THEN "ATTEMPT_FACTS_INCOMPLETE"
  ELSE IF ~ OrdinalCoherent(row) THEN "REQUEST_REGENERATION_ORDINAL_INVALID"
  ELSE None

RESERVATION_ADMISSIBILITY(state, kind) ==
  CASE state = "RESERVED"            -> None
    [] state = "CONSUMED"            -> IF kind = "USER_REGENERATION" THEN None
                                        ELSE "RESERVATION_CONSUMED"
    [] state = "RESERVING"           -> "RESERVATION_NOT_HELD"
    [] state = "RELEASED"            -> "RESERVATION_RELEASED"
    [] state = "RECONCILIATION_HOLD" -> "RESERVATION_ON_RECONCILIATION_HOLD"

ReservationRefusal(row, job, reservation) ==
  IF reservation = None THEN "RESERVATION_MISSING"
  ELSE IF reservation.job # job.id \/ row.job # job.id THEN "RESERVATION_JOB_MISMATCH"
  ELSE IF RESERVATION_ADMISSIBILITY(reservation.state, row.requestKind) # None
       THEN RESERVATION_ADMISSIBILITY(reservation.state, row.requestKind)
  ELSE IF reservation.units # job.units THEN "RESERVATION_UNDER_RESERVED"
  ELSE IF reservation.highQualityUnits # job.highQualityUnits
       THEN "RESERVATION_HIGH_QUALITY_MISMATCH"
  ELSE None

\* The stored decision is about this attempt.
BindingValid(row, job, stored) ==
  /\ stored.provider = row.providerName
  /\ stored.contractKey = row.contractKey
  /\ stored.requestedSeconds = row.duration
  /\ stored.riskProfileKey = riskProfileKeyForQualityTier(job.qualityTier)

\* A contract without a rate is refused for the contract first.
PricingRefusal(db, contracts, id, at) ==
  LET stored   == db.snapshot[id]
      eligible == evaluatePaidSubmissionPricingEligibility(contractFor(contracts, stored), at)
      cost     == CostOf(db, contracts, id)
  IN  IF stored = None THEN "PRICING_SNAPSHOT_NOT_FOR_ATTEMPT"
      ELSE IF ~ BindingValid(db.attempt[id], db.job, stored)
           THEN "PRICING_SNAPSHOT_BINDING_INVALID"
      ELSE IF ~ eligible.ok THEN eligible.reason
      ELSE IF ~ cost.ok THEN cost.reason
      ELSE None

RouteFacts(db, id) ==
  LET row == db.attempt[id]
  IN  [qualityTier     |-> db.job.qualityTier,
       providerName    |-> row.providerName,
       providerModelId |-> row.providerModelId,
       requestModelKey |-> row.modelKey,
       nativeTier      |-> row.nativeTier,
       target          |-> row.target,
       generationMode  |-> db.snapshot[id].identity.generationMode,
       audioMode       |-> db.snapshot[id].identity.audioMode]

RouteRefusal(db, policy, id) ==
  LET route == authorizeRoute(policy, RouteFacts(db, id))
  IN  IF route.ok THEN None ELSE route.reason

\* Unknown revenue and unknown exposure both refuse.
GuardRefusal(db, contracts, id) ==
  LET revenue == billingCycleRevenueYen(db.period)
      profit  == revenue - totalProviderCostExposureYen(db, contracts, id,
                                                        CostOf(db, contracts, id).yen)
  IN  IF ~ ExposureVerified(db, contracts, id) THEN "PRICING_EXPOSURE_SNAPSHOT_INVALID"
      ELSE IF revenue = None THEN "BILLING_CYCLE_REVENUE_UNAVAILABLE"
      ELSE IF evaluateSafetyGuard(revenue, profit) = "HARD_PAUSE"
           THEN "HARD_PAUSE_PROJECTED_PROFIT_BELOW_FLOOR"
      ELSE None

Refused(kind, reason) == [kind |-> kind, reason |-> reason]

evaluatePaidSubmissionGate(db, contracts, policy, id, at) ==
  LET row         == db.attempt[id]
      attempt     == AttemptRefusal(row)
      reservation == ReservationRefusal(row, db.job, db.reservation)
      pricing     == PricingRefusal(db, contracts, id, at)
      route       == RouteRefusal(db, policy, id)
      guard       == GuardRefusal(db, contracts, id)
  IN  IF attempt # None THEN Refused("ATTEMPT_NOT_ARMABLE", attempt)
      ELSE IF reservation # None THEN Refused("RESERVATION_INVALID", reservation)
      ELSE IF pricing # None THEN Refused("PRICING_INELIGIBLE", pricing)
      ELSE IF route # None THEN Refused("ROUTING_NOT_AUTHORIZED", route)
      ELSE IF guard = "PRICING_EXPOSURE_SNAPSHOT_INVALID"
           THEN Refused("PRICING_INELIGIBLE", guard)
      ELSE IF guard # None THEN Refused("SAFETY_GUARD_HARD_PAUSE", guard)
      ELSE [kind |-> "PERMITTED", version |-> row.version]

--------------------------------------------------------------------------------
(* The source and the boundary.                                                 *)

ASSET_EXECUTABILITY(status) ==
  CASE status = "READY"                                                 -> None
    [] status \in {"PENDING_UPLOAD", "UPLOADED", "SCANNING", "PROCESSING"} -> "ASSET_NOT_READY"
    [] status = "FAILED"                                                -> "ASSET_UPLOAD_FAILED"
    [] OTHER                                                            -> "ASSET_UNRECOVERABLE"

\* Its stored photo can be read as one normalized image of a known digest.
classifyExecutionSource(asset) ==
  IF asset.deletionRequested THEN "ASSET_UNRECOVERABLE"
  ELSE IF ASSET_EXECUTABILITY(asset.status) # None THEN ASSET_EXECUTABILITY(asset.status)
  ELSE IF asset.mimeType # "image/jpeg" \/ asset.storageKey = None
       THEN "ASSET_FORMAT_UNSUPPORTED"
  ELSE IF asset.sha256 = None THEN "ASSET_SOURCE_UNIDENTIFIABLE"
  ELSE None

\* The photo the call was prepared from is still the one that is stored.
sourceFailure(source, prepared) ==
  IF source = None THEN "ASSET_NOT_FOUND"
  ELSE IF source.propertyDeleted THEN "PROPERTY_DELETED"
  ELSE IF classifyExecutionSource(source.asset) # None THEN classifyExecutionSource(source.asset)
  ELSE IF <<source.asset.storageKey, source.asset.mimeType, source.asset.sha256>> # prepared
       THEN "ASSET_SOURCE_CHANGED"
  ELSE None

\* Asked at the admission of an attempt and once more at the boundary, where the
\* row already carries its contract.
checkPricingBinding(row, tier, stored) ==
  /\ stored.provider = row.providerName
  /\ row.modelKey # None /\ stored.identity.pricingModelKey = row.modelKey
  /\ stored.requestedSeconds = row.duration
  /\ stored.identity.nativeTier = row.nativeTier
  /\ stored.identity.generationMode = "image-to-video"
  /\ stored.identity.audioMode = "none"
  /\ stored.riskProfileKey = riskProfileKeyForQualityTier(tier)

armProviderBoundaryWithin(db, id, version) ==
  LET row == db.attempt[id]
  IN  IF \/ db.snapshot[id] = None
         \/ db.snapshot[id].identity = None
         \/ None \in {row.contractKey, row.duration, row.nativeTier}
         \/ ~ checkPricingBinding(row, db.job.qualityTier, db.snapshot[id])
         \/ db.snapshot[id].contractKey # row.contractKey
      THEN [kind |-> "REFUSED_BY_BOUNDARY", db |-> db]
      ELSE IF row.state # "QUEUED" \/ row.version # version THEN [kind |-> "LOST", db |-> db]
      ELSE [kind |-> "ARMED",
            db   |-> [db EXCEPT !.attempt[id].state = "SUBMITTING",
                                !.attempt[id].version = @ + 1]]

\* One call: what it answers, and the rows it leaves.
authorize(db, contracts, policy, id, at, prepared) ==
  LET decision == evaluatePaidSubmissionGate(db, contracts, policy, id, at)
      source   == sourceFailure(db.source, prepared)
      armed    == armProviderBoundaryWithin(db, id, decision.version)
      Answers(kind, reason) == [kind |-> kind, reason |-> reason, db |-> db]
  IN  IF decision.kind # "PERMITTED" THEN Answers(decision.kind, decision.reason)
      ELSE IF source # None THEN Answers("SOURCE_INVALID", source)
      ELSE CASE armed.kind = "LOST"  -> Answers("LOST_CONCURRENCY", None)
             [] armed.kind = "ARMED" -> [kind |-> "AUTHORIZED", reason |-> None, db |-> armed.db]
             [] OTHER -> Answers("PRICING_INELIGIBLE", "PRICING_SNAPSHOT_BINDING_INVALID")
===============================================================================
