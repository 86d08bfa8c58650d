------------------------------ MODULE UnitFunding ------------------------------
(***************************************************************************)
(* What an organization's Units come from, computed and stored nowhere:    *)
(* the renewal periods of a subscription (entitlement/subscription.ts),    *)
(* the plan's pools and the purchased blocks a reservation is funded from  *)
(* (entitlement/allocation.ts), and what a purchase may be cancelled for   *)
(* (entitlement/unit-purchase-cancellation.ts).                            *)
(*                                                                         *)
(* Instants are numbered days.  The calendar is MonthStart: its n-th entry *)
(* is the first day of month n, and of the month after the last known one, *)
(* so a subscription anchored on the last day of a long month meets        *)
(* shorter ones, as real calendars make it.                                *)
(***************************************************************************)
EXTENDS Integers, Sequences, FiniteSets

CONSTANTS
  MonthStart,      \* first day of each month, months numbered from 1
  Plan,            \* the catalog: plan key -> entitlements of one period
  RefundWindow     \* CUSTOMER_MISTAKE_REFUND_WINDOW_MS, in days

ASSUME CalendarAssumption ==
  /\ MonthStart \in Seq(Nat)
  /\ \A m, n \in DOMAIN MonthStart : m < n => MonthStart[m] < MonthStart[n]
  /\ RefundWindow \in Nat

PlanFacts ==
  [baseUnits : Nat, includedHighQualityUnits : Nat, concurrentJobs : Nat \ {0},
   normalPackage : Nat \ {0}, highQualityPackage : Nat]

ASSUME CatalogAssumption == \A key \in DOMAIN Plan : Plan[key] \in PlanFacts

Tier == {"NORMAL", "HIGH_QUALITY"}

Smaller(a, b) == IF a < b THEN a ELSE b
Larger(a, b)  == IF a < b THEN b ELSE a

--------------------------------------------------------------------------------
(* The calendar.                                                                *)

Month == 1..(Len(MonthStart) - 1)

DaysOf(m) == MonthStart[m + 1] - MonthStart[m]

\* The instant of day d of month m, both numbered from 1.
Instant(m, d) == MonthStart[m] + d - 1

MonthOf(at) == CHOOSE m \in Month : MonthStart[m] <= at /\ at < MonthStart[m + 1]
DayOf(at) == at - MonthStart[MonthOf(at)] + 1

\* Always from the anchor, never from the month before: a clamped month does
\* not move the ones after it.
addUtcMonthsClamped(anchor, months) ==
  LET m == MonthOf(anchor) + months
  IN  Instant(m, Smaller(DayOf(anchor), DaysOf(m)))

renewalPeriodBounds(anchor, index) ==
  [index    |-> index,
   startsAt |-> addUtcMonthsClamped(anchor, index),
   endsAt   |-> addUtcMonthsClamped(anchor, index + 1)]

\* Mutated form of renewalPeriodAt: the month's own period, begun or not.
RenewalPeriodOfTheMonth(anchor, at) ==
  renewalPeriodBounds(anchor, MonthOf(at) - MonthOf(anchor))

\* For an instant not before the anchor; earlier there is no period.
renewalPeriodAt(anchor, at) ==
  LET monthsApart == MonthOf(at) - MonthOf(anchor)
      candidate   == renewalPeriodBounds(anchor, monthsApart)
  IN  IF candidate.startsAt <= at THEN candidate
      ELSE renewalPeriodBounds(anchor, monthsApart - 1)

Covers(bounds, at) == bounds.startsAt <= at /\ at < bounds.endsAt

--------------------------------------------------------------------------------
(* Funding.  A balance is what is left of the pools of one period:              *)
(* [base, highQuality, blocks], a block being [id, quality, left, purchasedAt]. *)

SECONDS_PER_VIDEO_UNIT == 30
MAX_SUPPORTED_SCENE_SECONDS == 90

requiredUnitsFor(seconds) ==
  (seconds + SECONDS_PER_VIDEO_UNIT - 1) \div SECONDS_PER_VIDEO_UNIT

DurationSupported(seconds) == seconds \in 1..MAX_SUPPORTED_SCENE_SECONDS

occupiesEntitlement(reservation) == reservation \in {"RESERVED", "CONSUMED"}

\* Oldest first; the id decides between two of the same instant.
Precedes(b, c) ==
  \/ b.purchasedAt < c.purchasedAt
  \/ b.purchasedAt = c.purchasedAt /\ b.id < c.id

fifoEligibleBlocks(balance, quality) ==
  {b \in balance.blocks : b.quality = quality /\ b.left > 0}

BaseEligible(balance, quality) ==
  Larger(0, IF quality = "HIGH_QUALITY"
              THEN Smaller(balance.base, balance.highQuality)
              ELSE balance.base)

FromBase(balance, quality, units) == Smaller(units, BaseEligible(balance, quality))

\* The Units some blocks have left: a Unit is its block and a number.
LeftOf(blocks) == Cardinality(UNION {{b} \X (1..b.left) : b \in blocks})

\* What each block still has to give when the older ones have given their all.
FromBlock(balance, quality, units, b) ==
  LET blocks == fifoEligibleBlocks(balance, quality)
      needed == units - FromBase(balance, quality, units)
                  - LeftOf({c \in blocks : Precedes(c, b)})
  IN  Larger(0, Smaller(needed, b.left))

Sufficient(balance, quality, units) ==
  units <= BaseEligible(balance, quality) + LeftOf(fifoEligibleBlocks(balance, quality))

\* The allocation of each source: 0 is the plan, any other id a block.
planUnitAllocation(balance, quality, units, sources) ==
  [s \in sources |->
     IF s = 0 THEN FromBase(balance, quality, units)
     ELSE IF \E b \in fifoEligibleBlocks(balance, quality) : b.id = s
          THEN FromBlock(balance, quality, units,
                 CHOOSE b \in fifoEligibleBlocks(balance, quality) : b.id = s)
          ELSE 0]

\* The Units of one package a plan sells, 0 where it sells none.
addOnPackageUnits(planKey, quality) ==
  IF quality = "NORMAL" THEN Plan[planKey].normalPackage
                        ELSE Plan[planKey].highQualityPackage

--------------------------------------------------------------------------------
(* Cancelling a purchase: VTAVISION's own mistake is never refused, the        *)
(* customer's only within the window and before any Unit was drawn.             *)

\* Mutated form of cancellationRefusal: the window alone decides.
CancellationRefusalByWindow(fault, readAt, approvedAt, drawn) ==
  IF fault # "VTAVISION" /\ readAt > approvedAt + RefundWindow
    THEN "REFUND_WINDOW_PASSED" ELSE "NONE"

cancellationRefusal(fault, readAt, approvedAt, drawn) ==
  IF fault = "VTAVISION" THEN "NONE"
  ELSE IF readAt > approvedAt + RefundWindow THEN "REFUND_WINDOW_PASSED"
  ELSE IF drawn > 0 THEN "UNITS_USED" ELSE "NONE"
================================================================================
