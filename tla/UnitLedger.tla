------------------------------ MODULE UnitLedger ------------------------------
(***************************************************************************)
(* One organization's Units: the periods a subscription opens, the blocks  *)
(* bought and cancelled, the jobs started on them, and what happens to a   *)
(* job's reservation until it is spent or returned.                        *)
(*                                                                         *)
(* A Client is a process inside one database transaction: a web request,   *)
(* an operator command or a worker's pass.  A transaction takes its locks  *)
(* one at a time, in the order its code takes them (LocksOf), and waits    *)
(* where another holds one it cannot share: advisory locks and FOR UPDATE  *)
(* are exclusive, FOR SHARE is shared, all are kept to the commit.  It      *)
(* decides on what it reads when it has the last one, and writes by that   *)
(* decision in a later step, so the locks alone keep the decision true.  A *)
(* refusal is a transaction that ends and writes nothing.                  *)
(*                                                                         *)
(* A job's work between its launch and the check of its video is one state *)
(* here, and so is its revision, which spends no Unit; GenerationLifecycle  *)
(* is about those parts.                                                   *)
(***************************************************************************)
EXTENDS UnitFunding

CONSTANTS
  Client,          \* database transactions running side by side
  Project,         \* video projects of the organization
  Property,        \* its properties, numbered in id order
  PropertyOf,      \* the property of each project
  OrderOf,         \* [quality, seconds] of each project's storyboard
  Key,             \* idempotency keys of the starts
  KeysOf,          \* those the starts of each project come with
  PurchaseKey,     \* idempotency keys of the purchases
  Wanted,          \* qualities of the packages customers buy
  Offer,           \* subscriptions that may be provisioned
  Jobs,            \* bound: jobs ever started
  Purchases,       \* bound: packages ever bought
  FirstDay, LastDay   \* bound: the clock

Job == 1..Jobs
Purchase == 1..Purchases
Source == 0..Purchases       \* 0 is the plan's own Units
Day == FirstDay..LastDay
Idle == [kind |-> "IDLE"]
NoSubscription == [planKey |-> "NONE"]

ASSUME LedgerAssumption ==
  /\ Jobs \in Nat /\ Purchases \in Nat
  /\ FirstDay \in Nat /\ LastDay \in Nat /\ FirstDay <= LastDay
  /\ IsFiniteSet(Client)
  /\ Property \subseteq Nat /\ IsFiniteSet(Property) /\ Wanted \subseteq Tier
  /\ PropertyOf \in [Project -> Property]
  /\ KeysOf \in [Project -> SUBSET Key]
  /\ OrderOf \in [Project -> [quality : Tier, seconds : Nat \ {0}]]
  /\ \A offer \in Offer : offer.planKey \in DOMAIN Plan /\ offer.anchorAt \in Nat

\* The calendar reaches over the clock: a contract begins in one of its months,
\* and the month after the last instant is known.
ASSUME ClockAssumption ==
  /\ Len(MonthStart) > 1
  /\ MonthStart[1] <= FirstDay /\ LastDay < MonthStart[Len(MonthStart) - 1]
  /\ \A offer \in Offer : MonthStart[1] <= offer.anchorAt

VARIABLES
  clock,
  subscription,   \* OrganizationSubscription, never changed once written
  opened,         \* UnitEntitlementPeriod rows, by renewal index
  purchase,       \* UnitPurchase with its UnitAddOnBlock, in insertion order
  job,            \* GenerationJob with its reservation and allocations
  deleted,        \* properties in DELETED
  approver,       \* whether the buyer's membership row still exists
  request,        \* what each transaction is asked to do, with what it read
  held            \* how many of its locks each transaction has

ledger == <<subscription, opened, purchase, job>>
people == <<deleted, approver>>
vars == <<clock, ledger, people, request, held>>

--------------------------------------------------------------------------------
(* Rows.                                                                        *)

Started == DOMAIN job
Bought  == DOMAIN purchase

PropertyOfJob(j) == PropertyOf[job[j].project]
QualityOf(j)     == OrderOf[job[j].project].quality

JOB_STATES_HOLDING_A_PLACE == {"GENERATING", "DELIVERABLE_VALIDATING"}
JOB_STATES_BEFORE_ASSEMBLY == {"GENERATING"}
JOB_STATES_ENDED_WITHOUT_A_VIDEO == {"FAILED_TERMINAL"}

holdsItsProject(j) ==
  \/ job[j].state \notin JOB_STATES_ENDED_WITHOUT_A_VIDEO
  \/ job[j].reservation # "RELEASED"

HoldsAPlace(j) == job[j].state \in JOB_STATES_HOLDING_A_PLACE

\* A first video's Unit is still held; a revision's was spent on the first one.
IsFirstVideo(j) == job[j].reservation = "RESERVED"

Bounds(index) == renewalPeriodBounds(subscription.anchorAt, index)

\* findPeriodContaining: the opened periods that cover an instant; more than
\* one is an INTERNAL_ERROR.
PeriodsContaining(at) == {i \in opened : Covers(Bounds(i), at)}
PeriodContaining(at)  == CHOOSE i \in opened : Covers(Bounds(i), at)

\* Units of one source the jobs of a set have been allocated and not got back: a
\* Unit is its job and a number.
UnitsDrawn(jobs, s) ==
  UNION {{j} \X (1..job[j].allocated[s]) :
           j \in {i \in jobs : occupiesEntitlement(job[i].reservation)}}

Drawn(jobs, s) == Cardinality(UnitsDrawn(jobs, s))

JobsOfPeriod(i) == {j \in Started : job[j].period = i}

Withdrawn(u) == purchase[u].cancelled # "NO"

periodEntitlementBalance(i) ==
  LET plan == Plan[subscription.planKey]
      jobs == JobsOfPeriod(i)
  IN  [base        |-> plan.baseUnits - Drawn(jobs, 0),
       highQuality |-> plan.includedHighQualityUnits
                         - Drawn({j \in jobs : QualityOf(j) = "HIGH_QUALITY"}, 0),
       blocks      |->
         {[id          |-> u,
           quality     |-> purchase[u].quality,
           left        |-> IF Withdrawn(u) THEN 0
                           ELSE purchase[u].units - Drawn(Started, u),
           purchasedAt |-> purchase[u].approvedAt] :
          u \in {v \in Bought : purchase[v].period = i}}]

--------------------------------------------------------------------------------
(* Locks.  A lock is <<what, which, mode>>: "X" excludes, "S" shares.           *)

Exclusive(what, which) == <<what, which, "X">>
Shared(what, which)    == <<what, which, "S">>

\* A statement that reads and locks nothing: it excludes nobody.
Reading(what) == Shared(what, "organization")

Conflict(l, m) == l[1] = m[1] /\ l[2] = m[2] /\ (l[3] = "X" \/ m[3] = "X")

\* Mutated forms of StartLocks: starts of one project, or of one period, no longer
\* wait for each other.
StartLocksWithoutProject(r) ==
  <<Exclusive("cost", r.period), Shared("property", PropertyOf[r.project])>>
StartLocksWithoutPeriod(r) ==
  <<Exclusive("project-start", r.project), Shared("property", PropertyOf[r.project])>>

\* startWithin: the project, the period, then the video project with its
\* Property.  The lock on the new reservation's own id is left out: nobody else
\* names that id.
StartLocks(r) ==
  <<Exclusive("project-start", r.project), Exclusive("cost", r.period),
    Shared("property", PropertyOf[r.project])>>

ApproveLocks(r) ==
  <<Exclusive("cost", r.period), Shared("membership", "approver")>>

CancelLocks(r) == <<Exclusive("cost", purchase[r.purchase].period)>>

\* Mutated form of LaunchLocks: the places are counted under no lock.
LaunchLocksWithoutQueue(r) ==
  <<Reading("places"), Reading("turn"), Shared("property", PropertyOfJob(r.job)),
    Shared("reservation", r.job), Exclusive("job", r.job)>>

\* launchWithin counts the places taken and reads whose turn it is, each in a
\* statement of its own, then takes the Property before the reservation.
LaunchLocks(r) ==
  <<Exclusive("job-launch", "organization"), Reading("places"), Reading("turn"),
    Shared("property", PropertyOfJob(r.job)), Shared("reservation", r.job),
    Exclusive("job", r.job)>>

\* Mutated form of EndLocks: the job first.
EndLocksFromTheJob(r) ==
  <<Exclusive("cost", job[r.job].period), Exclusive("job", r.job),
    Exclusive("reservation", r.job), Shared("property", PropertyOfJob(r.job))>>

\* An ending and a publication take the reservation before the Property.
EndLocks(r) ==
  <<Exclusive("cost", job[r.job].period), Exclusive("reservation", r.job),
    Shared("property", PropertyOfJob(r.job)), Exclusive("job", r.job)>>

PublishLocks(r) == EndLocks(r)

\* A failure's settlement does not ask for the Property.
FailLocks(r) ==
  <<Exclusive("cost", job[r.job].period), Exclusive("reservation", r.job),
    Exclusive("job", r.job)>>

DeleteLocks(r) == <<Exclusive("property", r.property)>>

\* Removing a member releases the member's properties: the membership row, then
\* the properties in id order, here all of them.
RemoveLocks(r) ==
  <<Exclusive("membership", "approver")>> \o
    [n \in 1..Cardinality(Property) |->
       Exclusive("property",
         CHOOSE p \in Property : Cardinality({q \in Property : q < p}) = n - 1)]

LocksOf(r) ==
  CASE r.kind = "START"   -> StartLocks(r)
    [] r.kind = "APPROVE" -> ApproveLocks(r)
    [] r.kind = "CANCEL"  -> CancelLocks(r)
    [] r.kind = "LAUNCH"  -> LaunchLocks(r)
    [] r.kind = "PUBLISH" -> PublishLocks(r)
    [] r.kind = "FAIL"    -> FailLocks(r)
    [] r.kind = "END_WAITING"  -> EndLocks(r)
    [] r.kind = "END_LAUNCHED" -> EndLocks(r)
    [] r.kind = "DELETE"  -> DeleteLocks(r)
    [] r.kind = "REMOVE"  -> RemoveLocks(r)

Active(c) == request[c].kind # "IDLE"
NextLock(c) == LocksOf(request[c])[held[c] + 1]

HeldBy(c) ==
  IF Active(c) THEN {LocksOf(request[c])[n] : n \in 1..held[c]} ELSE {}

WaitsFor(c, d) ==
  /\ c # d
  /\ Active(c)
  /\ held[c] < Len(LocksOf(request[c]))
  /\ \E l \in HeldBy(d) : Conflict(NextLock(c), l)

--------------------------------------------------------------------------------
Init ==
  /\ clock = FirstDay
  /\ subscription = NoSubscription
  /\ opened = {}
  /\ purchase = << >>
  /\ job = << >>
  /\ deleted = {}
  /\ approver = TRUE
  /\ request = [c \in Client |-> Idle]
  /\ held = [c \in Client |-> 0]

Tick ==
  /\ clock < LastDay
  /\ clock' = clock + 1
  /\ UNCHANGED <<ledger, people, request, held>>

\* The operator's provisioning: the first contract stays, a second one with
\* other facts is a CONFLICT and changes nothing.
Provision(offer) ==
  /\ subscription = NoSubscription
  /\ subscription' = offer
  /\ UNCHANGED <<clock, opened, purchase, job, people, request, held>>

--------------------------------------------------------------------------------
(* Asking.                                                                      *)

Ask(c, r) ==
  /\ ~Active(c)
  /\ request' = [request EXCEPT ![c] = r]
  /\ UNCHANGED <<clock, people, held>>

SubscriptionStarted == subscription # NoSubscription /\ subscription.anchorAt <= clock

\* renewEntitlementPeriod, under the period-opening lock: the period of the
\* instant is opened unless it already is.  It finds no other in its way:
\* RenewalFindsItsPeriod.
Renewed(at) == opened \cup {renewalPeriodAt(subscription.anchorAt, at).index}

findStarted(p, k) == \E j \in Started : job[j].project = p /\ job[j].key = k
findHolding(p)    == \E j \in Started : job[j].project = p /\ holdsItsProject(j)
findByKey(k)      == \E u \in Bought : purchase[u].key = k

\* GenerationStartService.start: what it can refuse early, the period, then the
\* transaction with the instant it read.
AskStart(c, p, k) ==
  /\ PropertyOf[p] \notin deleted
  /\ ~findStarted(p, k) /\ ~findHolding(p)
  /\ DurationSupported(OrderOf[p].seconds)
  /\ SubscriptionStarted
  /\ Ask(c, [kind |-> "START", project |-> p, key |-> k, at |-> clock,
             period |-> renewalPeriodAt(subscription.anchorAt, clock).index,
             seen |-> [s \in Source |-> 0]])
  /\ opened' = Renewed(clock)
  /\ UNCHANGED <<subscription, purchase, job>>

\* unitPurchaseRefusal, on the facts as they are now and the caller's instant.
PurchaseRefused(quality, at, planKey) ==
  \/ ~approver
  \/ subscription = NoSubscription
  \/ at < subscription.anchorAt
  \/ planKey = "enterprise"
  \/ subscription.channel # "SALES_ASSISTED"
  \/ addOnPackageUnits(planKey, quality) = 0

\* UnitPurchaseService.approve.
AskApprove(c, quality, k) ==
  /\ ~findByKey(k)
  /\ subscription # NoSubscription
  /\ ~PurchaseRefused(quality, clock, subscription.planKey)
  /\ Ask(c, [kind |-> "APPROVE", quality |-> quality, key |-> k, at |-> clock,
             period |-> renewalPeriodAt(subscription.anchorAt, clock).index])
  /\ opened' = Renewed(clock)
  /\ UNCHANGED <<subscription, purchase, job>>

\* cancel-unit-purchase: now() in the transaction is the instant it began.
AskCancel(c, u, fault) ==
  /\ u \in Bought
  /\ Ask(c, [kind |-> "CANCEL", purchase |-> u, fault |-> fault, at |-> clock])
  /\ UNCHANGED ledger

\* A worker's pass picked the job: findJobLaunchCandidates and its peers.
AskLaunch(c, j) ==
  /\ job[j].state = "RESERVED"
  /\ PropertyOfJob(j) \notin deleted
  /\ Ask(c, [kind |-> "LAUNCH", job |-> j])
  /\ UNCHANGED ledger

AskEndWaiting(c, j) ==
  /\ job[j].state = "RESERVED"
  /\ PropertyOfJob(j) \in deleted
  /\ Ask(c, [kind |-> "END_WAITING", job |-> j])
  /\ UNCHANGED ledger

AskEndLaunched(c, j) ==
  /\ job[j].state \in JOB_STATES_BEFORE_ASSEMBLY /\ IsFirstVideo(j)
  /\ PropertyOfJob(j) \in deleted
  /\ Ask(c, [kind |-> "END_LAUNCHED", job |-> j])
  /\ UNCHANGED ledger

AskPublish(c, j) ==
  /\ job[j].state = "DELIVERABLE_VALIDATING"
  /\ Ask(c, [kind |-> "PUBLISH", job |-> j, seen |-> FALSE])
  /\ UNCHANGED ledger

AskFail(c, j) ==
  /\ HoldsAPlace(j) /\ IsFirstVideo(j)
  /\ Ask(c, [kind |-> "FAIL", job |-> j])
  /\ UNCHANGED ledger

AskDelete(c, p) ==
  /\ p \notin deleted
  /\ Ask(c, [kind |-> "DELETE", property |-> p])
  /\ UNCHANGED ledger

AskRemove(c) ==
  /\ approver
  /\ Ask(c, [kind |-> "REMOVE"])
  /\ UNCHANGED ledger

--------------------------------------------------------------------------------
(* Locking.                                                                     *)

Obtainable(c) == \A d \in Client \ {c} : ~WaitsFor(c, d)

PlacesHeld == Cardinality({j \in Started : HoldsAPlace(j)})
PlaceFree  == PlacesHeld < Plan[subscription.planKey].concurrentJobs

Launchable == {j \in Started : job[j].state = "RESERVED" /\ PropertyOfJob(j) \notin deleted}
NextToLaunch(j) == \A i \in Launchable : j <= i

\* What ends a launch under the job-launch lock, before it has any row: AT_LIMIT,
\* or NOT_NEXT.
HeldBack(c) ==
  \/ NextLock(c) = Reading("places") /\ ~PlaceFree
  \/ NextLock(c) = Reading("turn") /\ ~NextToLaunch(request[c].job)

TakeLock(c) ==
  /\ Active(c)
  /\ held[c] < Len(LocksOf(request[c])) - 1
  /\ Obtainable(c)
  /\ ~HeldBack(c)
  /\ held' = [held EXCEPT ![c] = @ + 1]
  /\ UNCHANGED <<clock, ledger, people, request>>

--------------------------------------------------------------------------------
(* Deciding: the last lock, and what is read under all of them.                 *)

\* Transactions that have decided and not yet written: they count against the
\* bounds Jobs and Purchases.
Decided(c) == Active(c) /\ held[c] = Len(LocksOf(request[c]))
ToWrite(kind) == Cardinality({c \in Client : request[c].kind = kind /\ Decided(c)})

StartRefused(r) ==
  LET order == OrderOf[r.project] IN
  \/ Len(job) + ToWrite("START") >= Jobs
  \/ PropertyOf[r.project] \in deleted
  \/ findStarted(r.project, r.key)
  \/ findHolding(r.project)
  \/ ~Sufficient(periodEntitlementBalance(r.period), order.quality,
                 requiredUnitsFor(order.seconds))

AllocationFor(r) ==
  planUnitAllocation(periodEntitlementBalance(r.period), OrderOf[r.project].quality,
                     requiredUnitsFor(OrderOf[r.project].seconds), Source)

ApproveRefused(r) ==
  \/ Len(purchase) + ToWrite("APPROVE") >= Purchases
  \/ findByKey(r.key)
  \/ PurchaseRefused(r.quality, r.at, subscription.planKey)

\* A card's purchase (another channel) is never cancelled here.
CancelRefused(r) ==
  \/ Withdrawn(r.purchase)
  \/ subscription.channel # "SALES_ASSISTED"
  \/ cancellationRefusal(r.fault, r.at, purchase[r.purchase].approvedAt,
                         Drawn(Started, r.purchase)) # "NONE"

\* decideJobLaunch, under the rows' locks.
decideJobLaunch(j) ==
  /\ job[j].state = "RESERVED"
  /\ PropertyOfJob(j) \notin deleted
  /\ IsFirstVideo(j)

PublicationDue(j) ==
  job[j].state = "DELIVERABLE_VALIDATING" /\ IsFirstVideo(j)

SettlementDue(j) == HoldsAPlace(j) /\ IsFirstVideo(j)

\* decideUnlaunchableJobEnding: a waiting job no launch will ever take.  (The other
\* cause, frozen facts no provider route renders, ends it the same way.)
decideUnlaunchableJobEnding(j) ==
  /\ job[j].state = "RESERVED"
  /\ IsFirstVideo(j)
  /\ PropertyOfJob(j) \in deleted

\* A running job whose Property is gone, before anything is assembled.
decideLaunchedJobEnding(j) ==
  /\ job[j].state \in JOB_STATES_BEFORE_ASSEMBLY
  /\ IsFirstVideo(j)
  /\ PropertyOfJob(j) \in deleted

GoesOn(r) ==
  CASE r.kind = "START"   -> ~StartRefused(r)
    [] r.kind = "APPROVE" -> ~ApproveRefused(r)
    [] r.kind = "CANCEL"  -> ~CancelRefused(r)
    [] r.kind = "LAUNCH"  -> decideJobLaunch(r.job)
    [] r.kind = "PUBLISH" -> PublicationDue(r.job)
    [] r.kind = "FAIL"    -> SettlementDue(r.job)
    [] r.kind = "END_WAITING"  -> decideUnlaunchableJobEnding(r.job)
    [] r.kind = "END_LAUNCHED" -> decideLaunchedJobEnding(r.job)
    [] r.kind \in {"DELETE", "REMOVE"} -> TRUE

\* What a transaction keeps of what it read, to write by: the allocation of a
\* start, whether a publication found the Property gone.
Remembering(r) ==
  CASE r.kind = "START"   -> [r EXCEPT !.seen = AllocationFor(r)]
    [] r.kind = "PUBLISH" -> [r EXCEPT !.seen = PropertyOfJob(r.job) \in deleted]
    [] OTHER -> r

\* The last lock is granted.
Granted(c) ==
  /\ Active(c)
  /\ held[c] = Len(LocksOf(request[c])) - 1
  /\ Obtainable(c)

Decide(c) ==
  /\ Granted(c)
  /\ GoesOn(request[c])
  /\ request' = [request EXCEPT ![c] = Remembering(@)]
  /\ held' = [held EXCEPT ![c] = @ + 1]
  /\ UNCHANGED <<clock, ledger, people>>

Finish(c) ==
  /\ request' = [request EXCEPT ![c] = Idle]
  /\ held' = [held EXCEPT ![c] = 0]
  /\ UNCHANGED clock

\* A purchase with the same key was written meanwhile in another period, under
\* another cost lock: the unique index refuses the row, and the purchase found by
\* the key is the answer.
KeyTaken(c) == request[c].kind = "APPROVE" /\ findByKey(request[c].key)

\* A transaction that has nothing to do, or may not do it, ends.
Refuse(c) ==
  /\ \/ Granted(c) /\ ~GoesOn(request[c])
     \/ Active(c) /\ ~Decided(c) /\ HeldBack(c)
     \/ Decided(c) /\ KeyTaken(c)
  /\ Finish(c)
  /\ UNCHANGED <<ledger, people>>

--------------------------------------------------------------------------------
(* Writing, by what was decided.                                                *)

Writes(c, kind) ==
  /\ request[c].kind = kind
  /\ Decided(c)
  /\ Finish(c)

\* The job, its reservation and its frozen allocations, all in RESERVED.
StartedJob(r) ==
  [project     |-> r.project,
   key         |-> r.key,
   state       |-> "RESERVED",
   reservation |-> "RESERVED",
   period      |-> r.period,
   allocated   |-> r.seen]

WriteStart(c) ==
  /\ Writes(c, "START")
  /\ job' = Append(job, StartedJob(request[c]))
  /\ UNCHANGED <<subscription, opened, purchase, people>>

BoughtPackage(r) ==
  [period     |-> r.period,
   quality    |-> r.quality,
   key        |-> r.key,
   units      |-> addOnPackageUnits(subscription.planKey, r.quality),
   approvedAt |-> r.at,
   cancelled  |-> "NO"]

WriteApprove(c) ==
  /\ Writes(c, "APPROVE")
  /\ ~KeyTaken(c)
  /\ purchase' = Append(purchase, BoughtPackage(request[c]))
  /\ UNCHANGED <<subscription, opened, job, people>>

WriteCancel(c) ==
  /\ Writes(c, "CANCEL")
  /\ purchase' = [purchase EXCEPT ![request[c].purchase].cancelled = request[c].fault]
  /\ UNCHANGED <<subscription, opened, job, people>>

JobBecomes(j, state, reservation) ==
  /\ job' = [job EXCEPT ![j].state = state, ![j].reservation = reservation]
  /\ UNCHANGED <<subscription, opened, purchase, people>>

WriteLaunch(c) ==
  /\ Writes(c, "LAUNCH")
  /\ JobBecomes(request[c].job, "GENERATING", "RESERVED")

\* The video of a property deleted meanwhile is settled as failed.
WritePublish(c) ==
  /\ Writes(c, "PUBLISH")
  /\ IF request[c].seen
     THEN JobBecomes(request[c].job, "FAILED_TERMINAL", "RELEASED")
     ELSE JobBecomes(request[c].job, "DELIVERABLE_READY", "CONSUMED")

WriteFail(c) ==
  /\ Writes(c, "FAIL")
  /\ JobBecomes(request[c].job, "FAILED_TERMINAL", "RELEASED")

WriteEndWaiting(c) ==
  /\ Writes(c, "END_WAITING")
  /\ JobBecomes(request[c].job, "FAILED_TERMINAL", "RELEASED")

WriteEndLaunched(c) ==
  /\ Writes(c, "END_LAUNCHED")
  /\ JobBecomes(request[c].job, "FAILED_TERMINAL", "RELEASED")

WriteDelete(c) ==
  /\ Writes(c, "DELETE")
  /\ deleted' = deleted \cup {request[c].property}
  /\ UNCHANGED <<ledger, approver>>

WriteRemove(c) ==
  /\ Writes(c, "REMOVE")
  /\ approver' = FALSE
  /\ UNCHANGED <<ledger, deleted>>

\* The other parts of the pipeline brought the job's video to its check.
Assembled(j) ==
  /\ job[j].state = "GENERATING"
  /\ IsFirstVideo(j)
  /\ job' = [job EXCEPT ![j].state = "DELIVERABLE_VALIDATING"]
  /\ UNCHANGED <<clock, subscription, opened, purchase, people, request, held>>

\* A revision of the finished video: it holds a place that no launch gave it, and
\* ends with that video or a better one.
Revise(j) ==
  /\ \/ job[j].state = "DELIVERABLE_READY"
        /\ job' = [job EXCEPT ![j].state = "GENERATING"]
     \/ job[j].state = "GENERATING" /\ ~IsFirstVideo(j)
        /\ job' = [job EXCEPT ![j].state = "DELIVERABLE_READY"]
  /\ UNCHANGED <<clock, subscription, opened, purchase, people, request, held>>

Asking(c) ==
  \/ \E p \in Project : \E k \in KeysOf[p] : AskStart(c, p, k)
  \/ \E q \in Wanted, k \in PurchaseKey : AskApprove(c, q, k)
  \/ \E u \in Bought, f \in {"VTAVISION", "CUSTOMER"} : AskCancel(c, u, f)
  \/ \E j \in Started : \/ AskLaunch(c, j) \/ AskEndWaiting(c, j) \/ AskEndLaunched(c, j)
                        \/ AskPublish(c, j) \/ AskFail(c, j)
  \/ \E p \in Property : AskDelete(c, p)
  \/ AskRemove(c)

Writing(c) ==
  \/ WriteStart(c) \/ WriteApprove(c) \/ WriteCancel(c)
  \/ WriteLaunch(c) \/ WritePublish(c) \/ WriteFail(c)
  \/ WriteEndWaiting(c) \/ WriteEndLaunched(c)
  \/ WriteDelete(c) \/ WriteRemove(c)

Next ==
  \/ Tick
  \/ \E offer \in Offer : Provision(offer)
  \/ \E j \in Started : Assembled(j) \/ Revise(j)
  \/ \E c \in Client : Asking(c) \/ TakeLock(c) \/ Decide(c) \/ Refuse(c) \/ Writing(c)

Spec == Init /\ [][Next]_vars
================================================================================
