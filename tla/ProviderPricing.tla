---------------------------- MODULE ProviderPricing ----------------------------
(***************************************************************************)
(* What one clip is planned to cost: packages/domain/src/pricing.  Amounts *)
(* are whole micro-dollars or whole yen, rates whole basis points, moments *)
(* whole milliseconds.  Every product and quotient is exact and rounded     *)
(* once; an amount that is not a safe integer of JavaScript throws, and the *)
(* operators say what the ones that do not throw are.                       *)
(*                                                                         *)
(* A contract, a risk profile, a rate and a snapshot are records with the   *)
(* fields the code's types have.                                           *)
(***************************************************************************)
EXTENDS Integers, Sequences

CONSTANT None

ONE_HUNDRED_PERCENT_BPS == 10000
MICRO_USD_PER_USD       == 1000000

Ok(value)       == [ok |-> TRUE, value |-> value]
Failure(reason) == [ok |-> FALSE, reason |-> reason]

Magnitude(n) == IF n < 0 THEN -n ELSE n
Least(S)     == CHOOSE x \in S : \A y \in S : x <= y

--------------------------------------------------------------------------------
(* Arithmetic.                                                                  *)

\* How often `size` goes into `amount`, to the nearest, a half counting as one.
Nearest(amount, size) ==
  LET whole == amount \div size
  IN  IF 2 * (amount % size) >= size THEN whole + 1 ELSE whole

\* The product over the denominator, half away from zero.
mulDiv(value, numerator, denominator) ==
  LET product == value * numerator
      size    == Nearest(Magnitude(product), Magnitude(denominator))
  IN  IF (product < 0) # (denominator < 0) THEN -size ELSE size

applyBps(amount, rate) == mulDiv(amount, rate, ONE_HUNDRED_PERCENT_BPS)

scaleYenByRate(amount, numerator, denominator, scale) ==
  mulDiv(amount, numerator, denominator * scale)

roundYenToNearestHundred(amount) == mulDiv(mulDiv(amount, 1, 100), 100, 1)

\* Math.ceil of a hundredth, times a hundred.
roundYenUpToHundred(amount) == -((-amount) \div 100) * 100

maxYen(a, b) == IF a >= b THEN a ELSE b

--------------------------------------------------------------------------------
(* What a provider charges.                                                     *)

DurationBillingRule ==
       [kind : {"PER_SECOND"}, price : Nat]
  \cup [kind : {"FIXED_DURATION"}, seconds : Nat, price : Nat]
  \cup [kind : {"DURATION_BUCKET"}, buckets : Seq([upTo : Nat, price : Nat])]

BillableDurationPolicy ==
       [kind : {"CONTINUOUS"}, minSeconds : Nat, maxSeconds : Nat]
  \cup [kind : {"DISCRETE"}, supported : SUBSET Nat]

\* The seconds the provider bills for: what was asked for, or the smallest
\* length it sells that is long enough.
resolveBillableDurationSeconds(policy, requested) ==
  IF requested <= 0 THEN Failure("DURATION_NOT_A_POSITIVE_INTEGER")
  ELSE IF policy.kind = "CONTINUOUS"
       THEN IF requested < policy.minSeconds \/ requested > policy.maxSeconds
            THEN Failure("DURATION_NOT_SUPPORTED_BY_PROVIDER") ELSE Ok(requested)
       ELSE LET sufficient == {s \in policy.supported : s >= requested}
            IN  IF sufficient = {} THEN Failure("DURATION_NOT_SUPPORTED_BY_PROVIDER")
                ELSE Ok(Least(sufficient))

\* The stable price of a billed length; buckets are tried in their order.
priceForBillableDuration(rule, seconds) ==
  IF seconds <= 0 THEN Failure("DURATION_NOT_A_POSITIVE_INTEGER")
  ELSE CASE rule.kind = "PER_SECOND" -> Ok(mulDiv(rule.price, seconds, 1))
         [] rule.kind = "FIXED_DURATION" ->
              IF seconds = rule.seconds THEN Ok(rule.price)
              ELSE Failure("DURATION_NOT_SUPPORTED_BY_PROVIDER")
         [] rule.kind = "DURATION_BUCKET" ->
              LET fitting == {i \in DOMAIN rule.buckets : seconds <= rule.buckets[i].upTo}
              IN  IF fitting = {} THEN Failure("DURATION_NOT_SUPPORTED_BY_PROVIDER")
                  ELSE Ok(rule.buckets[Least(fitting)].price)

RiskBufferBps == [NORMAL_AI |-> 3000, HIGH_QUALITY_AI |-> 5000]

riskProfileKeyForQualityTier(tier) ==
  IF tier = "HIGH_QUALITY" THEN "HIGH_QUALITY_AI" ELSE "NORMAL_AI"

--------------------------------------------------------------------------------
(* Contracts.                                                                   *)

\* A segment of the key escapes the separator, so the joined text tells apart
\* exactly what the tuple of the seven dimensions does.
providerPricingContractKey(identity) ==
  <<identity.provider, identity.pricingModelKey, identity.generationMode, identity.nativeTier,
    identity.audioMode, identity.durationBillingRuleId, identity.pricingVersion>>

\* Every rule and list is written behind its kind or its length, so nothing of a
\* contract can change without its fingerprint.
providerPricingContractFingerprint(contract) ==
  <<providerPricingContractKey(contract.identity), contract.stable, contract.billableDuration,
    contract.promotion, contract.effectiveFrom, contract.effectiveUntil>>

\* The promotion is never looked at: a price to plan with is a stable one.
evaluatePaidSubmissionPricingEligibility(contract, at) ==
  IF contract = None THEN Failure("PRICING_CONTRACT_MISSING")
  ELSE IF contract.stable.verification = "UNVERIFIED" THEN Failure("PRICING_CONTRACT_UNVERIFIED")
  ELSE IF contract.stable.verification = "EXPIRED" THEN Failure("PRICING_CONTRACT_EXPIRED")
  ELSE IF contract.stable.rule = None THEN Failure("PRICING_CONTRACT_PROMOTIONAL_ONLY")
  ELSE IF at < contract.effectiveFrom THEN Failure("PRICING_CONTRACT_NOT_YET_EFFECTIVE")
  ELSE IF contract.effectiveUntil # None /\ at >= contract.effectiveUntil
       THEN Failure("PRICING_CONTRACT_EXPIRED")
  ELSE Ok(contract)

\* A catalogue with two contracts of one identity cannot be loaded.
indexByKey(contracts) ==
  \A a, b \in contracts :
    providerPricingContractKey(a.identity) = providerPricingContractKey(b.identity) => a = b

findByIdentity(contracts, identity) ==
  LET found == {c \in contracts :
                  providerPricingContractKey(c.identity) = providerPricingContractKey(identity)}
  IN  IF found = {} THEN None ELSE CHOOSE c \in found : TRUE

--------------------------------------------------------------------------------
(* Estimates, rates and snapshots.                                              *)

\* The stable price of what is billed, and that price with the buffer on top.
estimateProviderCost(contract, buffer, requested) ==
  IF contract.stable.rule = None THEN Failure("PRICING_CONTRACT_PROMOTIONAL_ONLY")
  ELSE LET billable == resolveBillableDurationSeconds(contract.billableDuration, requested)
       IN  IF ~ billable.ok THEN billable
           ELSE LET price == priceForBillableDuration(contract.stable.rule, billable.value)
                IN  IF ~ price.ok THEN price
                    ELSE Ok([billable |-> billable.value, stable |-> price.value,
                             planning |-> applyBps(price.value,
                                                   ONE_HUNDRED_PERCENT_BPS + buffer)])

validateFxSnapshot(fx) ==
  CASE fx.base # "USD" \/ fx.quote # "JPY"            -> Failure("FX_SNAPSHOT_CURRENCY_MISMATCH")
    [] fx.rateNumerator <= 0 \/ fx.rateDenominator <= 0 -> Failure("FX_SNAPSHOT_RATE_INVALID")
    [] OTHER                                          -> Ok(fx)

\* One rounding over denominator and scale together.
convertMicroUsdToYen(amount, fx) ==
  IF ~ validateFxSnapshot(fx).ok THEN validateFxSnapshot(fx)
  ELSE Ok(scaleYenByRate(amount, fx.rateNumerator, fx.rateDenominator, MICRO_USD_PER_USD))

\* The buffer and the stable price are taken from the code's own tables, never
\* from the caller.
createPricingSnapshot(contract, riskProfileKey, requested, effectiveAt, fx) ==
  LET estimate == estimateProviderCost(contract, RiskBufferBps[riskProfileKey], requested)
  IN  IF ~ estimate.ok THEN estimate
      ELSE IF fx # None /\ ~ validateFxSnapshot(fx).ok THEN validateFxSnapshot(fx)
      ELSE Ok([pricingVersion       |-> contract.identity.pricingVersion,
               provider             |-> contract.identity.provider,
               identity             |-> contract.identity,
               contractKey          |-> providerPricingContractKey(contract.identity),
               contractFingerprint  |-> providerPricingContractFingerprint(contract),
               stablePriceReference |-> contract.stable.rule,
               riskProfileKey       |-> riskProfileKey,
               riskBufferBps        |-> RiskBufferBps[riskProfileKey],
               requestedSeconds     |-> requested,
               billableSeconds      |-> estimate.value.billable,
               stableCost           |-> estimate.value.stable,
               planningCost         |-> estimate.value.planning,
               effectiveAt          |-> effectiveAt,
               fxSnapshotId         |-> IF fx = None THEN None ELSE fx.id])

--------------------------------------------------------------------------------
(* What the customer pays.                                                      *)

\* The nearest hundred yen, or the next one up, and never below what is safe.
finalizeCustomerPrice(raw, minimumSafe) ==
  IF raw < minimumSafe THEN Failure("ROUNDED_PRICE_WOULD_BE_UNPROFITABLE")
  ELSE IF roundYenToNearestHundred(raw) >= minimumSafe THEN Ok(roundYenToNearestHundred(raw))
  ELSE IF roundYenUpToHundred(raw) < minimumSafe THEN Failure("ROUNDED_PRICE_WOULD_BE_UNPROFITABLE")
  ELSE Ok(roundYenUpToHundred(raw))

AddOnMultiplierBps == [NORMAL |-> 12000, HIGH_QUALITY |-> 15000]

addOnPackagePrice(plan, kind, units, minimumSafe) ==
  IF units <= 0 THEN Failure("QUANTITY_NOT_A_POSITIVE_INTEGER")
  ELSE IF kind = "HIGH_QUALITY" /\ ~ plan.highQualityAddOnAvailable
       THEN Failure("HIGH_QUALITY_ADD_ON_NOT_AVAILABLE_ON_PLAN")
  ELSE finalizeCustomerPrice(
         mulDiv(plan.monthlyPriceYenExTax, AddOnMultiplierBps[kind] * units,
                plan.includedVideoUnits * ONE_HUNDRED_PERCENT_BPS),
         minimumSafe)

===============================================================================
