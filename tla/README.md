# Verification of the real-estate walkthrough video platform

TLA+ models, TLC runs and TLAPS proofs for this repository: a multi-tenant
service that turns the photos of a property into a narrated video, pays video
providers per clip, and charges its customers in Video Units. Paths below are
relative to the repository root.

What can go wrong here is rarely inside one function. About a dozen worker
passes, several people of one organization and an unreliable provider move the
same rows in any order; each step is a statement or a transaction that decides
on what it reads. The models are about those rows and those steps.

## 1. Inventory

### Components, their state, their operations

| Component | State | Operations (transactions in bold) | What makes it correct | Model |
| --- | --- | --- | --- | --- |
| Transition tables (`packages/domain/src/orchestration`) | none: five closed tables | `canTransition*` | every state any transaction writes is a legal move | `GenerationTables` |
| Start (`startWithin`, ADR-0087) | job, reservation, scenes, INITIAL requests | **start** | one job per project, its Units held in the same commit | `GenerationLifecycle`, `UnitLedger` |
| Launch (`job-launch`, ADR-0095) | job, scenes, requests, PRIMARY attempts | **launch** | concurrency limit, oldest first; only a job of the start's shape | both |
| Endings (ADR-0099, 0100, 0102) | job, reservation | **end unlaunchable**, **end launched** | the Units return once, never from under an assembly | both |
| Attempt admission and arm (`authorization`) | attempt | **C admit**, **arm** | no paid call for work nobody can use, none beyond the Safety Guard | `AttemptSubmission`, `PaidSubmissionGate` |
| Submission (`attempt-submission`, `submission`) | attempt, reservation | **record outcome**, **stale sweep**, **end queued attempt** | at most one provider call per attempt; uncertainty holds the Unit | `AttemptSubmission` |
| Reconciliation | attempt, reservation | **resolve**, **exhaust** | the hold ends, and only when no attempt is uncertain | `GenerationLifecycle` |
| Completion, provider output | attempt, stored clip | **complete**, **begin ingestion**, **verify output** | the receipt is about these bytes | `ClipWork` |
| Media validation lifecycle | validation row | **claim**, **finalize valid / invalid**, **defer** | one verdict, fenced by its lease | `LeasedWork`, `ClipWork` |
| Scene delivery | request, scene, pointer, job | **F deliver** | newest attempt only; the last scene moves the job | `GenerationLifecycle` |
| Media failure resolution, recovery | work row, attempt, and all of K's | **H claim / resolve / settle**, **admit recovery** | one recovery; every failure resolved | `GenerationLifecycle`, `ClipWork` |
| Attempt failure settlement | request, scene, job, reservation | **K settle** | a first video fails with its Unit, a revision rolls back | `GenerationLifecycle` |
| Failed-job closure | scene, request, queued attempts | **L close** | everything of a failed job ends, nothing at a provider is forgotten | `GenerationLifecycle` |
| Composition plan | version, inputs, job | **I admit plan** | the plan freezes exactly what the scenes deliver | `GenerationLifecycle` |
| Composition execution | work row, receipts, job | **J1 claim**, **J2 finalize / block / defer** | one artifact per version, of the stored Clean Master | `VideoWork` |
| Deliverable settlement (ADR-0082) | job, reservation | inside J2 and G | first video: job fails, Units back; replacement: earlier video stays | `GenerationLifecycle` |
| Deliverable validation, publication | validation, pointer, job, reservation | **G claim / finalize / publish** | a valid, newer video, paid exactly once | `VideoWork`, `GenerationLifecycle` |
| Revisions (`admitUserRegeneration`, ...) | request, scene, job | **admit**, **roll back pending** | two delivered revisions per scene, one open at a time | `GenerationLifecycle` |
| Locks (cost admission, launch, project start, rows) | advisory and row locks | taken by every money transaction | what they serialize; no circle of waits | `UnitLedger` |
| Units, purchases, subscriptions (`entitlement`) | periods, blocks, allocations | **provision**, **renew**, **reserve**, **purchase**, **cancel** | no Unit twice, nothing paid back that a video keeps | `UnitFunding`, `UnitLedger` |
| Pricing and the paid-submission gate | cost decisions per attempt | estimate, authorize | exact integer money; no call below the floor | `ProviderPricing`, `PaidSubmissionGate` |
| Property and assets | property, photo, objects | upload, complete, retry, delete | a READY photo shows one checked file | `PhotoWork` |
| Analysis and review | analysis row | reserve, analyse, refresh, approve, reject, correct | a rejection takes its photo out | `PhotoReview` |
| Storyboard | project, scenes, fingerprint | compose, freshness | a fresh storyboard shows what is approved now, in the order decided now | `PhotoReview`, `StoryboardPlan` |
| Identity, organizations, groups | memberships, grants, invitations, groups, assignments | invite, **accept**, **change role**, **remove**, **grant**, **group changes**, **assign** | an owner always remains; no way around the ceiling on delegation | `Authority`, `Membership` |
| Second factor | factor, recovery codes, session | set up, **enable**, **accept**, **count**, **replace**, **disable** | a code works once | `SecondFactor` |
| Object storage | files of a shared folder | put, stream in parts, read, delete | an object appears whole, in one step | `ObjectFolder` |
| Providers, media tools, web, ops, worker loops | external or I/O | | | environment of the others |

`PROJECT.json` lists every component with its files and what is modelled of it.

### How they interact

Nothing calls across: a transaction leaves rows in a state that makes another
pass's query find them. The development pipeline runs the passes in a fixed
cycle, production runs them independently, and the code claims correctness for
every order, which is what is checked here. The money rows (reservation,
attempt, job) are serialized per organization by the cost-admission lock; the
rest by row locks, by leases, by compare-and-set on a status or a state
version, and in the photo review by nothing at all.

### Hard behaviours

Unknown submission outcomes and holds shared by several attempts; terminal
answers that free the Unit while siblings still run; late clips and late
verdicts; workers that go on after their lease ran out; downloads and encodes
that never give the same bytes twice; a property deleted, a member removed or a
purchase cancelled at any moment; a crash between the admission of a recovery
and the resolution of its work row; dropped replacement versions and the gaps
they leave; replays of transactions already applied; rows written back whole
from an earlier read; a customer who uploads over a file while it is checked.
The hazards, each at its line, are in `PROJECT.json`.

## 2. The modules

| Module | What it is |
| --- | --- |
| `GenerationTables` | the closed vocabularies and transition tables |
| `GenerationLifecycle` | one order: job, reservation, scenes, requests, attempts, verdicts, work rows, versions, and one action per transaction |
| `VideoOrderContract` | what an order promises its customer, in three variables |
| `LifecycleProperties`, `MCGenerationLifecycle`, `LifecycleProofs` | its properties, refinement mapping and fairness; the symmetry of the scenes; theorems |
| `AttemptSubmission` | the attempts of one billing cycle: submission passes of several workers, the provider, the sweep and the deadline, at the grain of single transactions and sends |
| `PaidCallContract` | what is promised of a call that costs money, in four variables |
| `SubmissionProperties`, `MCAttemptSubmission`, `SubmissionProofs` | likewise for submission |
| `UnitFunding` | renewal periods, pools, allocation and refunds, as operators |
| `UnitLedger` | one organization's Units and jobs under ten kinds of transaction that take their locks one at a time |
| `UnitAccountContract` | lots and orders: what a customer is promised of the Units paid for |
| `UnitLedgerProperties`, `MCUnitLedger`, `UnitLedgerProofs` | its properties and refinement mapping; the small plan, calendar and storyboards; theorems |
| `LeasedWork` | a work row taken in turns under a lease, the shape of four tables |
| `MediaRecords`, `ClipWork`, `VideoWork`, `MediaPipeline` | the media workers' rows; a clip's phases; a video's phases; their composition with faults and fairness |
| `MediaContract` | what is promised of clips, Clean Masters and videos, whoever makes them |
| `MediaProperties`, `MCMedia`, `MediaProofs` | likewise for the media workers |
| `PhotoWork`, `PhotoReview`, `Workspace` | a property's photos; their analyses and storyboard; their composition |
| `PhotoContract` | what a photo promises while it is offered |
| `StoryboardPlan` | the order and the seconds of the scenes, as operators |
| `WorkspaceProperties`, `MCWorkspace`, `WorkspaceProofs` | likewise for the workspace |
| `ProviderPricing`, `PaidSubmissionGate` | the cost of a clip; whether it may be paid for (theorems in `SubmissionProofs`) |
| `Authority`, `Membership`, `MembershipProperties`, `MembershipProofs` | roles and ceilings; members, grants and groups under concurrent calls; what must hold; theorems |
| `SecondFactor`, `SecondFactorProofs` | a second factor used from several sign-ins; theorems |
| `ObjectFolder`, `ObjectStoreContract`, `ObjectFolderProofs` | the object store on a shared folder, file operation by file operation; what it promises; the proof that it does |

The components meet in shared rows, each modelled where it is decided and
reduced to its committed effect elsewhere. `GenerationLifecycle` has every
transaction over one order. `AttemptSubmission` opens up its paid calls: what a
worker remembers between its transactions, and what the provider really did.
`MediaPipeline` opens up what follows: every transfer, verdict and encode of one
clip and one video, under leases. `UnitLedger` opens up its money: several
orders, the periods and blocks that fund them, and the locks. What is detailed
in one is a step of the environment in the others (`Admit`, `Execute`,
`SettleFailure` in submission; `ClipIsPlanned`, `RecoverySubmitted`, `JobEnds`,
`RequestCloses` in the media pipeline).

### From code to `GenerationLifecycle`

State is the committed content of the database. `job`, `reservation`, `scene`,
`request` and `attempt` are the state columns of the five tables of the same
names; `current` is the ordinal behind `currentDeliverableVersionId`,
`delivered` the request behind `currentDeliveredRequestId`, `verdict` the media
validation of an attempt, `work` its failure-resolution row, and `newest`,
`composition`, `validation` and `inputs` the deliverable versions with their
composition and validation rows and their frozen inputs.

Requests and attempts are numbered as the code numbers them: request `<<s, n>>`
is the n-th of scene `s` (the first is the INITIAL one), and attempt `<<r, 1>>`
is the PRIMARY attempt of `r`, `<<r, 2>>` its single SYSTEM_RECOVERY.

Each action is one transaction with every write it commits. For instance
`SettleFailedDeliverable` is not an action: it is a conjunct of the three
actions whose transactions call it (`BlockComposition`, `FinalizeInvalid`,
`Publish` of a deleted property's first video). Where the code first asks
whether a row is a candidate and then throws if the rows contradict each other,
the two conditions are two operators: `FailureDue` and `FailureShape`,
`DeliveryDue` and `DeliveryShape`, and so on. `NothingDueIsRefused` says that
the second follows from the first in every reachable state.

Left out: row versions (the guards re-read the same state the compare-and-set
names), clocks, prices and event rows; leases and byte identities are in
`MediaPipeline`, the concurrency limit of launches and the funding in
`UnitLedger`. The provider is external: any answer, late or never.

`AdmitRegeneration`, `AdmitRegenerationAttempt` and
`RollBackPendingRegeneration` are repository operations no service of the
repository calls yet; they are modelled because every transaction after them is
written for the rows they leave.

### From code to `AttemptSubmission`

`state`, `certainty` and `reservation` are columns; `open` says which jobs are
`GENERATING`, `deleted` which properties are. `call` is what the provider made
of a request and `posts` how often it was sent: neither is known to the program.
`pass[w]` is everything a worker's `runOnce` holds in memory: the rest of its
batch, its cursor, the jobs it knows will fail, why it stopped, and the answer
it has not recorded yet.

| Code | Actions |
| --- | --- |
| `runOnce`, first loop (`findPropertyDeletedAttempts`, `#endPropertyDeleted`) | `BeginPass`, `EndDeleted`, `LeaveDeleted` |
| `runOnce`, second loop (`findSubmissionCandidates`, the cursor) | `ReadWindow`, `SkipAttempt`, `EndPass` |
| `#submit` up to the gate (`prepareQueuedGeneration`, `#refused`) | `PassOver`, `EndRefused`, `EndDeletedSince` |
| `authorize` (gate, source lock, `armProviderBoundaryWithin`) | `Arm` |
| `#send` | `Post`, `SendFails`, `HearAnswer`, `HearNothing` |
| `#record` with `decideSubmissionOutcome` and `apply` | `RecordApplied`, `RecordReplayed`, `RecordRefused`, `RecordThrew` |
| reconciliation maintenance and resolution | `SweepStale`, `Exhaust`, `Resolve` |

A transaction is one action because each of them first takes the cost-admission
lock of the organization and cycle. What happens between two transactions of a
worker, the send above all, is separate steps: everything else may happen
there, and the worker may die there (`Crash`).

Abstracted: a planning cost is one unit and the revenue leaves room for
`Budget` of them, the same for the whole cycle; instants are ages in ticks
since the boundary was entered, up to the frozen deadline; preparation is a
choice of its three answers (passes, refused for good, may pass later);
`Resolve` records evidence only if it is true of the provider, which is the
operator's duty and not the code's; a sender that refuses by itself is told as
a provider that refused. `Fates` narrows what a run lets the provider do.

### From code to `UnitLedger`

A `Client` is one database transaction: `request[c]` is what it was asked with
what it read before, `held[c]` how many of its locks it has. `LocksOf` lists,
per kind of transaction and in the code's order, the advisory locks (cost
admission, job launch, project start) and the rows it locks, with their mode; a
transaction takes the next one when nobody holds it in a mode that excludes it,
decides when it has the last, and writes in a later step. The kinds are start,
purchase, its cancellation, launch, publication, the two endings, the job's
failure, the deletion of a property and the removal of a member; provisioning a
subscription and the clock are steps of their own. Periods are opened by whoever
needs them first, as the code does.

Left out: collisions of `hashtext`; the reservation-admission lock on a job's
own id; the terms the customer confirmed, and a storyboard changed between
confirmation and start; facts no video can be rendered from (the lifecycle ends
those jobs). A revision is the reopening and the closing of its job. A purchase
locks its buyer's membership alone, as `approve` does: the buyer's grants and
groups may change meanwhile. `limit.ts` calls its way of counting revisions
provisional; the model follows it.

### From code to `MediaPipeline`

`pass[w]` is what worker `w` holds in memory, its phase above all; everything
else is rows and the bucket. A phase ends at a database transaction or at a call
to the provider, the storage or a media tool. Bytes are known by what they were
made from and by a `take`: two downloads, encodes or disclosures give different
takes, of which some are unsound or too large. A receipt stands for digest and
size.

| Code | Actions |
| --- | --- |
| `createProviderOutputRunner`, `recordProviderCompletion`, `beginOutputIngestion`, the transfer, `finalizeOutputVerification` | `LoadPollingContext`, `Poll`, `Complete`, `Begin`, `Transfer`, `Commit`, `Verify` |
| media validation lifecycle | `JudgeClaim`, `Judge`, `JudgeWrite` |
| media failure resolution with `createAutomaticMediaRecoveryRepository` | `ResolveLook`, `ResolveClaim`, `PlanRecovery`, `AdmitRecovery`, `Resolve`, `Release`, `SettleExhausted` |
| composition execution (`probeExistingOutput`, `#finalizeStored`, `#masterInHand`, `#deliverFrom`) | `ComposeClaim`, `ProbeVideo`, `ProbeMaster`, `FetchMaster`, `Compose`, `StoreMaster`, `Disclose`, `StoreVideo`, `FinalizeComposition`, `BlockComposition`, `DeferComposition` |
| deliverable validation and publication | `CheckClaim`, `Check`, `FinalizeValid`, `FinalizeInvalid`, `DeferValidation`, `PublishDeliverable` |

`PassEnds` is a crash, an error, or an answer that ends the pass with nothing
written; an answer that is lost after its effect is the step followed by
`PassEnds`. `LeaseExpires` may come under a working holder at any time, and the
holder goes on. A conflict the code reports as a refusal and writes nothing
(`COMPOSITION_BLOCK_CONFLICT` can really occur: two passes that block one
composition for different reasons) is a step that writes nothing. Left out:
retry delays and the exact times of leases; replacements of a published video
(the lifecycle has them); batches, whose candidates are independent here.

### From code to `Workspace`

Every statement of a service call is a step: `call[c]` is where the call stands
and what it read. `photo` rows are written by `updateIfCurrent`, a
compare-and-set on the status; `analysis` rows by `updateAnalysis`, whole and
with no condition; a rejection and a save of a composition are transactions.
The customer's upload goes straight to the bucket under the signed address, at
any time the address is known. A file is what the checks tell of it, a room what
the analysis saw, safety findings included; the two derivatives are named by the
file they are made from. Rooms are their ranks in `ROOM_ORDER`.

A composition's input is the five facts of `selectEligibleAnalyses`: photo,
revision, effective room, the customer's priority and the analyser's suggestion.
What is saved of it are two different things: the scenes, placed and timed by
the two pure rules of `StoryboardPlan` (the comparator of `orderScenes` over all
five facts, and `allocateDurations`), and the digest, of four facts as a set,
without the suggestion and without an order.

Left out: expiry of signed addresses, duplicates and perceptual hashes, reach of
the actor (`Membership`), prompts, and the edited fields of property and
project.

### From code to `Membership`

`call[c]` is a service call with the authority it read when it began, and the
locks it holds. The transactions of `repositories.ts` lock the owners' rows in
the order of their identifiers, a member's row, or a group's row, each a step,
then write and commit in one. Foreign keys wait for a locked row. Role
templates, the grant ceilings and the checks under the lock are operators
(`Authority`, `permissionCeiling`, `memberCeiling`).

Left out: names and renaming, e-mail addresses, tokens and slugs, the audit rows
of refusals. Reading a role, the grants and the groups is one step. The roles
that `lockGroup` reads are not themselves locked in the code, and not here.

### From code to the pure rules

`ProviderPricing` is the arithmetic of `units.ts` (exact products, one rounding,
half away from zero), the billing of durations, exchange, the risk buffer, cost
estimates, snapshots and eligibility; the catalog is a parameter. Amounts that
are not safe integers of JavaScript throw, and are left out.
`PaidSubmissionGate` is the paid-submission authorization as a function of the
rows it reads under its locks, in its order of refusals; an enterprise contract
has no known revenue there, as in the code. `AttemptSubmission` uses its
outline: every cost counts as one.

### From code to `SecondFactor`

`request[c]` is a web request: the session it came with, what the gate of
`apps/web/src/lib/mfa.ts` read, what the service read, then one transaction of
`mfa-repository.ts`, which locks the session and the factor. Codes are told by
their secret and time step, or their sheet and place. One user; random draws
never repeat and no code is by chance another one; sealing and audit rows are
left out. A session that expires is over for new requests only, as `Live` says
of the running ones. Two first factors created at once collide on their key:
that request ends with nothing written.

### From code to `ObjectFolder`

`shared-folder-storage.ts` as it uses the file system: a write goes to a staging
file piece by piece, then takes the key's name by rename (replacing) or by link
(not replacing); a reader opens the file and reads what it opened. An upload in
parts (`s3-staging-sink.ts`, `streaming-transfer.ts`) ends by assembling its
parts into such a write. `CallEnds` stops any call between two file operations,
also after the object is published and before the caller hears of it. Left out:
names left behind in staging, signed addresses, byte ranges, permissions. A lost
upload's abort and the reading of the winner's object are one with its refusal.

## 3. What is checked

| Run | Bounds | Shows |
| --- | --- | --- |
| `lifecycle` | 2 scenes, 2 requests per scene, 3 versions, symmetric scenes | type correctness, eight safety invariants, three action properties, and the refinement of `VideoOrderContract` |
| `revisions` | 1 scene, 4 requests, 4 versions | revision rights survive failed, cancelled and dropped revisions |
| `lifecycle_liveness` | 2 scenes, 2 requests, 3 versions | holds end, failed requests settle, failed clips resolve, with the workers' passes alone; failed jobs close and assemblies end if external answers come |
| `submission_races` | 2 symmetric workers, 2 attempts of 2 jobs (one a revision), room for 1 call, 1 crash, window of 1 | no second send, no unaffordable arm, no false record, nothing billed beyond the room, no recorded answer refused |
| `submission_backlog` | 1 worker, 3 attempts of one job, window of 2, room for 3 | no call of a first video is armed while another one is uncertain |
| `submission_turns` | 1 worker, 2 attempts of 2 jobs, window of 1, 1 crash | every waiting attempt gets its turn, every uncertainty ends |
| `units` | 2 transactions at once, 2 projects of one property, 2 jobs, 1 purchase, 2 idempotency keys (one project can be restarted), a plan of 2 Units with 1 high-quality and 1 place, a calendar with a month too short | the account, the places and the projects stay right, nobody waits in a circle |
| `media` | 2 workers, 1 clip and its recovery, 1 video; 2 takes of a clip, 3 of a master, 3 of a video | the refinement of `MediaContract`, four more properties, and that the job is decided |
| `workspace` | 2 symmetric calls, 2 photos, 4 kinds of file, 3 rooms (one unsafe) of which each photo can be 2, 1 priority, 2 revisions of an analysis, a video of 2 scenes and 9 seconds | the refinement of `PhotoContract`, rejections, freshness |
| `plan_replay`, `delivery_replay` | 1 scene, 3 requests, 3 versions | two comments of the code that its behaviour contradicts |
| `review_race` | 2 symmetric calls, 1 photo, 1 kind of file, 2 rooms | a comment on the immutability of decisions that the code contradicts |

Deadlock checking is off where the system really stops: an order at a published
video or a closed failed job, a media pipeline likewise, a ledger at the end of
its clock with its jobs ended, a workspace whose property is deleted. It is on in
the runs of submission, whose workers begin another pass for ever.

Why the bounds are enough. Two scenes are needed for everything that is about
"another scene": siblings uncertain at once, a job that fails while another
scene runs, two revisions of different scenes; scenes never interact beyond
pairwise counts. Two requests per scene give a first video and a revision on
each scene, hence up to three versions with one of them dropped; three
regenerations of one scene (the `revisions` run) reach the limit of two
delivered ones with a failed one between. The two recoveries of one request,
and all eleven attempt states, are always there.

For submission, two attempts are enough for a race over one place in the
budget, and two workers for one over one attempt; a stale threshold of one tick
under a window of two leaves an instant before the sweep, one between sweep and
deadline, and one after. Three attempts of one job in windows of two (the
backlog run) let a hold be taken, lifted and taken again around a third
attempt, and make a window full, so that the cursor moves. The races allow the
provider to take or refuse a request; requests that are lost or may be retried
are in the other two runs.

For the ledger, two transactions meet in every pair of kinds, and every race of
this code is one of two decisions on one row. The plan has the Units of one
normal video and not of the high-quality one, which starts only with a bought
package as well; the second start is refused for want of Units, or finds what a
failed job returned. The clock passes from the last day of a clamped month into
the next period. Three transactions in a circle are what `NoCircularWait` could
miss at two clients; `NoCircle` proves it for any number.

For the media workers, one worker beside a second one that took its row over is
the race of every lease; a third would only lose as the second did. One clip
with its recovery, one master and one video are every object a job's first video
has. For the workspace, two calls and the customer are the reviewer, the second
reviewer or the completion, and the bytes changed under them. Everything that
can be done with one photo is done with the first. Rules that relate photos, the
order of scenes and their digest, need two: the second comes when the first
stands approved, and once it is shown everything that can be said of it is said
(`SecondIsReviewed`, an action constraint: the first photo, the uploads and the
deletions rest meanwhile). Its two rooms are one before the first photo's and
the same one, and the priority ranks behind both (`TwoRoomsEach`), so that a
correction, a priority or a new analysis swaps the two scenes or leaves them
tied. That any number of photos behaves so is proved.

### The properties

`UnitFollowsVideo`, `ReturnedUnitMeansFailure` and `HoldHasReason` are about
the money: where the Unit is, given everything else. `OneRevisionAtATime`,
`NothingDueIsRefused` and `FailedVersionsStaySettled` say that the refusals the
transactions throw as defects never strand an order.
`AssembledFromDeliveredScenes` and `CustomerKeepsVideo` are about the video the
customer holds, `NothingInFlightBehindAVideo` and `ArmedOnlyForLiveWork` about
paid work nobody would use. `LegalTransitions` ties the SQL of some twenty
repositories to the closed tables. `ImplementsContract` is the refinement.

`PaidContract` says of every attempt what must hold of a call that costs money:
permitted only with room for it, made at most once and never after it was
withdrawn, and never recorded as the opposite of what the provider did, while
answers are lost, late, repeated or given up on. `BilledCallsFit` is the
consequence the business cares about, stated over the provider's own facts.
`NoCallIntoUncertainty` is what the hold is for. `AnswerRefusedOnlyAsLate` is
about the three tries: the code stops a pass on a refusal, so a refusal must
mean that the sweep had given the attempt up. `EveryAttemptGetsATurn` is about
the window and its cursor, `UncertaintyEnds` about attempts whose worker died.

`NoUnitSpentTwice` is about two readers of one balance, `AccountContract` about
all of an account's life: an order is funded in full from open lots or not at
all, its Units are spent or come back once, and a purchase paid back for the
customer's own mistake never funded a video that kept its Units.
`OneHoldingJobPerProject`, `PlacesWithinLimit` and `RenewalFindsItsPeriod` are
what the project, launch and period locks are for; `NoCircularWait` is what the
order of all the locks is for, and holds only because some are shared.

`MediaKeepsItsContract` says that whatever two passes make of one object, the
first one stored stands and every record is of it, a verdict is given once and
is true of the bytes, and what is shown was made from the recorded master.
`NothingContradicts` is the other side, one predicate for each error the
transactions throw at a contradiction, named after its code: a second recording
of a clip or of a composition with other bytes, a stored video without its Clean
Master, a check or a verdict of other bytes than those recorded, a video to be
checked whose composition is not proven, a plan whose rows or whose object no
longer are what it froze. None can come, so no pass, however old, is stopped by one.
`VerdictsAreActedOn` ties the resolution rows to their consequences,
`LeaseIsRespected` is the fence, `JobIsDecided` says that no half-made object
or lost claim is left that no sweep takes up again.

`PhotosKeepTheirContract` is about the six statements of a completion over
bytes that may change between them, `RejectionTakesThePhotoOut` about two rows
written beside blind writes. `FreshStoryboardIsCurrent` relates three things that
are computed apart: a storyboard whose stored digest equals the digest of the
analyses approved now shows the same photos at the same revisions in the same
rooms, and wherever priorities and rooms decide between two photos now, their
scenes stand in that order. It compares with the analyses, not with the stored
digest: a digest without the priority breaks it, by one correction after a
composition. It claims nothing of what the analyser's suggestion alone decides;
see the fourth remark on the comments below.

### Fairness

The workers repeat every pass for ever and each pass offers every due row, so a
step that needs only the database is weakly fair per row (`WorkerFairness`).
Two clocks belong to it: the stale sweep turns every old SUBMITTING into an
outcome, and the reconciliation deadline ends every RECONCILIATION_PENDING.
Steps that wait for the provider, the storage or the video tools are retried
without limit in the code, so they are fair only where a property assumes it
(`ExternalAnswers`, the antecedent of `FailedJobCloses` and `AssemblyEnds`). Nothing is assumed of the customer, of a launch (it waits
for a free place) or of the arming of a queued attempt (the gate may refuse it
for as long as cost limits do).

For submission: workers keep running passes and a send returns or times out, so
a worker's next step is weakly fair; time passes; the maintenance pass reaches
every stale and every due attempt. The code reaches them in batches, oldest
first, and one candidate whose transaction always throws would end every pass
before the ones behind it; fairness per attempt assumes there is none. The
provider owes nothing, nor does the operator who could resolve an attempt.

For the media workers (`FairSpec`): every worker's loop sweeps again and takes
its steps; a lease ends; the transactions of the rest of the job that are due
come. Faults (a pass that ends half-way, a storage or planner that refuses for
now, a lease too short for its holder) do not go on for ever, `<>[][~Fault]`:
the code retries without limit and promises nothing under endless failure.
`JobIsDecided` says nothing of an attempt the provider never ends, which
reconciliation and Transaction K do elsewhere. The ledger and the workspace have
no liveness property: their calls are made by people.

### What the code and its comments disagree on

1. `deliverable-composition-repository.ts:413-417`: "Exactly one ordinal after the
   current version. Phase 5A has no failed-composition or retry lifecycle, so a
   pending cycle produces exactly one new version and any gap is a plan nobody can
   account for. A later phase that introduces retry history must revisit this
   deliberately rather than widening it by accident." ADR-0082 is such a later
   phase and the rule was not revisited: its dropped replacements leave gaps; the plan after one is executed correctly, but a replay of
   Transaction I over it throws `PARTIAL_PLAN_STATE` (`plan_replay`).
2. `validated-scene-delivery-repository.ts:436-437`: "A delivered request whose
   Scene does not point at it, or a Scene pointing at a request that never
   delivered, are both impossible after Transaction F." Every delivered revision leaves its
   predecessor so, and a replay of the predecessor's delivery throws
   `PARTIAL_DELIVERY_STATE` (`delivery_replay`).
3. `analysis-service.ts:331-333` says that a decision is immutable for the
   revision it is made against. `requireReviewable` reads the row and
   `updateAnalysis` writes it back whole by its id: of two reviewers who read it
   undecided, the second replaces or clears the decision of the first, and an
   approval over a rejection leaves the analysis APPROVED beside a REJECTED
   photo (`review_race`). What survives, and is proved, is the other half: an
   analysis that says REJECTED has its photo out.

The first two need a replayed call and write nothing; the third writes.

A fourth remark has no run of its own. `suggestedOrder` is in no digest but is the
comparator's last rule before the photo's id (`ordering.ts:118`).
`fingerprint.test.ts:67-69` says that it "cannot move without `roomType` or
`analysisRevision` moving too", `docs/phase-3-completion.md:310-311` that "it never
breaks a tie in practice". It is the rank of the analyser's own room, so once two
photos are corrected to one room nothing else breaks their tie; and it can move
under an unmoved digest, because a second result at the same revision (a duplicate
analysis that ends late, or a plain analysis after a refresh that failed) may name
another room beneath the same correction. In these modules the stricter statement,
that a fresh storyboard has the very scenes composing now would save, fails by that
sequence: analysed twice at revision 1, corrected, approved, composed, overwritten
by the slower analysis, corrected to the same room and approved again. It needs an
analyser that answers differently of one photo, which the deterministic one shipped
here never does. `FreshStoryboardIsCurrent` therefore excepts what the suggestion
alone decides, and nothing else.

## 4. What is proved

### The lifecycle

`LifecycleProofs` proves, for every set of scenes and all bounds, from the
single assumption that the two bounds are positive naturals:

| Theorem | Statement |
| --- | --- |
| `TypeCorrect` | `Spec => []TypeOK` |
| `UnitIsHonest` | `Spec => []UnitFollowsVideo` |
| `ContractKept` | `Spec => ImplementsContract` |
| `VideoIsWhole` | `Spec => []AssembledFromDeliveredScenes` |
| `VideoIsKept` | `Spec => CustomerKeepsVideo` |
| `HoldsAreReasoned` | `Spec => []HoldHasReason` |
| `ReturnedUnitsFail` | `Spec => []ReturnedUnitMeansFailure` |
| `OneRevision` | `Spec => []OneRevisionAtATime` |
| `NothingInFlight` | `Spec => []NothingInFlightBehindAVideo` |
| `DueIsNeverRefused` | `Spec => []NothingDueIsRefused` |
| `DroppedStaysSettled` | `Spec => []FailedVersionsStaySettled` |
| `RevisionsRemain` | `Spec => []RevisionsStayPossible` |
| `TransitionsAreLegal` | `Spec => LegalTransitions` |
| `ArmedForLiveWork` | `Spec => ArmedOnlyForLiveWork` |

`TypeOK` and `UnitFollowsVideo` are inductive as they stand; the latter needs
types and the guards of the eight transactions that write the reservation. The
refinement then holds step by step: each action is a step of the contract or a
stutter, given `UnitFollowsVideo` in the state it starts from (that is what
makes a revision's rollback a `KeepOld` and never a `GiveUp`).

`AssembledFromDeliveredScenes` is not inductive. A publication names its
version by a claim made earlier, and nothing in the rows it reads says that
this version is the newest. `VersionHistory` supplies what is missing: no
version above the newest has a verdict, and a version proved valid is not newer
than the customer's, or its job failed, or it is the newest of a job under
validation. The conjunction, `VersionsInv`, is inductive; `VideoIsKept` follows
from it, because only a publication moves the pointer.

None of the invariants about scenes, requests, attempts and the reservation is
inductive alone: a hold is released by a transaction that reads one attempt, and
only the rest of the rows says that no other attempt is uncertain. `RowsInv` is
the conjunction that is, one part for each pair of tables that different
transactions write: where the scenes are by the job (`ScenesFitJob`), which
request a scene shows (`RequestsFitScene`), that a job behind a video revises
exactly one scene (`RevisionsFitJob`), how far the attempts of a request are
(`AttemptsFitRequest`), what verdicts and work rows are about
(`VerdictsFitOutput`), and what the Unit says of both (`MoneyRows`). TLC checked
every part on the bounds of the runs before it was proved. Each transaction has
one lemma per part it can disturb. `OneRevisionAtATime`, `NothingDueIsRefused`
and `NothingInFlightBehindAVideo` then follow from `RowsInv` in one state: the
shapes that the transactions demand under their locks are consequences of the
rows they were found due by. `FailedVersionsStaySettled` and
`RevisionsStayPossible` have small invariants of their own on top (the first
dropped version failed its job or left the customer an older video; the rights
a scene has spent are the revisions it delivered). The two action properties
follow from `RowsInv`: a transition that the closed tables forbid would start
from rows it excludes. Only liveness stays with TLC.

### Submission

`SubmissionProofs` proves, for any number of workers, attempts, jobs and
crashes, any budget, batch size and deadlines with a stale threshold before the
window (`PolicyAssumption`, which the configuration validator enforces), and
from `SizesAssumption`:

| Theorem | Statement |
| --- | --- |
| `TypeCorrect` | `Spec => []TypeOK` |
| `ContractKept` | `Spec => PaidContract` |
| `BilledFits` | `Spec => []BilledCallsFit` |
| `RefusedOnlyAsLate` | `Spec => AnswerRefusedOnlyAsLate` |
| `NothingIntoUncertainty` | `Spec => NoCallIntoUncertainty` |

The inductive invariant is `Coherent`, four named parts. `RowsCohere` ties
state to certainty by the table the code checks replays with.
`CallsFollowRows` ties both to the provider: a request left only for an armed
attempt, and a certainty that claims to know agrees with what happened.
`PassesFollowRows` ties a worker's memory to the rows: an attempt it is sending
was armed, belongs to no other worker, and the answer it still has to record is
the provider's, unless it heard none. This third part is what makes the send
safe although the worker reads nothing after its arm: whatever the sweep or the
deadline did to the row, they never gave it back to a queue.

`ContractKept` then goes action by action. The arm needs that the attempts the
code counts as exposed are the ones the contract calls possibly paid
(`CostExposed` under `RowsCohere`); the records need `CallsFollowRows` and
`PassesFollowRows`. `BilledFits` follows from an invariant of the contract:
the calls possibly paid never outnumber the budget, because only an arm adds
one and beliefs only remove them. `RefusedOnlyAsLate` follows from the same
invariant: an attempt with a definite record agrees with every definite answer.

`NothingIntoUncertainty` needs one more invariant, `UnknownIsHeld`: while an
attempt of a first video is unresolved its Unit is not `RESERVED`. Whoever makes
the attempt uncertain takes the hold in the same commit, and a conclusion lifts
it only after counting the siblings.

Only model-checked, being liveness: `EveryAttemptGetsATurn` and
`UncertaintyEnds`.

### The media workers

`MediaProofs`, for any number of workers and any takes:

| Theorem | Statement |
| --- | --- |
| `Typed` | `Spec => []TypeOK` |
| `LeasesAreRespected` | `Spec => LeaseIsRespected` |
| `ResolvedIsActedOn` | `Spec => []VerdictsAreActedOn` |
| `NothingEverContradicts` | `Spec => []NothingContradicts` |
| `ContractKept` | `Spec => MediaKeepsItsContract` |

`TypeOK` includes the one fact the fence needs beyond types: a worker that is
about to claim a resolution row saw that row due (`Claims`). Then each action
that writes one of the four tables either writes only under `HeldBy`, hence is
its holder's own step, or claims a row that is `Claimable`, hence not running,
or is the clock.

A worker writes what it remembers, perhaps long after its lease ran out, so the
other two invariants are inductive only with what memories can hold.
`ClipInv` says that the receipt of a clip is of the stored object, that its
verdict is the truth about that object, and that every pass on the clip
remembers the object as it is: objects are stored once, and the first one stays.
`ResolvingInv` says that what a disposition was decided on is never taken back
(a verdict stays bad, a recovery stays admitted, a request that is over stays
over), so a late resolution is still right. `VideoInv` says the same for the plan, the Clean
Master, the video and its check, and that a stored video has its master.
`NothingContradicts` follows from `ClipInv` and `VideoInv`. For the
refinement, every action is paired with the one promise it keeps: storing an
object, recording a receipt, giving a verdict, or none of them; the receipt and the
verdict that are written are those of the object by the two invariants. Only
model-checked, being liveness: `JobIsDecided`.

### The ledger of Units

`UnitLedgerProofs`, for any number of transactions, jobs, purchases, projects
and properties, any catalog and any calendar:

| Theorem | Statement |
| --- | --- |
| `LedgerTypes` | `Spec => []TypeOK` |
| `OneHolding` | `Spec => []OneHoldingJobPerProject` |
| `PlacesAreKept` | `Spec => []PlacesWithinLimit` |
| `PeriodFound` | `Spec => []RenewalFindsItsPeriod` |
| `UnitsSpentOnce` | `Spec => []NoUnitSpentTwice` |
| `NoCircle` | `Spec => []NoCircularWait` |
| `AccountKept` | `Spec => AccountContract` |

from the catalog's and the calendar's types, finitely many transactions and
properties, and `ClockAssumption`: contracts begin, and the clock runs, within
the months the calendar knows.

A transaction decides when it has its last lock and writes in a later step, so
every invariant rests on what its locks keep still meanwhile. `LocksExclude`
says that two transactions do not both hold a lock one of them holds
exclusively; `DecisionsHold` that what a transaction decided by is still so: a
start still finds its project free and its key unused, a launch its job waiting
and a place free, an ending its job where it was. For each action of any
transaction there is one lemma per decision it could disturb, and there the
lock that excludes it is named. `LockInv` joins both to the types and to what
requests and rows are (`RequestsFit`, `RowsFit`, `PeriodsFit`, `PurchasesFit`,
`PlacesFit`), and to the two properties on projects and places, which are not
inductive without them.

`SpendInv` adds the Units. `StartsFit`: what a decided start has planned still
fits what is left. Two starts exclude each other by the cost-admission lock;
an ending or a cancellation between the decision and the write can only give
back. `AllocationsFit`: the parts a job drew are of blocks of its own period
and quality. The Units drawn are counted as a set of pairs of job and number,
so that what a balance loses is a union and no sum has to be unfolded. That one
period covers an instant, and only one, is a fact about the calendar with its
clamped months (`PeriodIsFound`, `PeriodIsAlone`).

`NoCircularWait` needs no lock protocol at run time, only an order: each lock
has a rank, and `LocksOf` lists a transaction's locks with rising ranks. A
Property's row alone has two: a launch takes it before the reservation, an
ending after. Held shared, it ranks low, because only an exclusive lock waits
for it and no transaction asks for that with a reservation in hand; waited for
shared, it ranks high. Of a set of waiting transactions, the one whose next
lock ranks highest waits for none of the others.

`AccountKept` is the refinement of `UnitAccountContract`. `SpendInv` already
says that what a start drew was left; `AccountInv` adds what the contract asks
beyond that. `OpenFit`: a decided start's allocation adds up to the whole order
and comes from blocks still open. It adds up because the eligible blocks stand
in line, by purchase and then by id: each gives what those before it could not
(`FilledInLine`, by the smallest prefix that would not), and
`requiredUnitsFor`'s Units were seen to be there. The blocks stay open because
a cancellation takes the lock of the same period. `CancelsFit`: a decided
cancellation finds its purchase open and, for the customer's own mistake,
untouched, since the starts of that period wait. Then one lemma per promise
(`GrantStep`, `TakeStep`, `SettleStep`, `WithdrawStep`) and one per action that
keeps it; what a lot has out is what the jobs drew of one source
(`OutIsDrawn`).

### The workspace

`WorkspaceProofs`, for any number of photos and calls:

| Theorem | Statement |
| --- | --- |
| `Invariant` | `Spec => []IInv` |
| `RejectionsHold` | `Spec => []RejectionTakesThePhotoOut` |
| `FreshStoryboards` | `Spec => []FreshStoryboardIsCurrent` |
| `PhotosAreKept` | `Spec => PhotosKeepTheirContract` |
| `ScenesHaveOneOrder` | `orderScenes` compares by a strict total order |
| `ScenesFillTheVideo` | `allocateDurations` keeps to the bounds and adds up |

`RejectionTakesThePhotoOut` is not inductive: a blind write could bring back a
rejection, were there a call that remembers a rejected row. `Reviewing` says
there is none (a review begins on an undecided row), `AnalysedPhotosExist` that
a call in review is about a photo that exists, and `NewRowsAreNew` that no
completion starts a row over. The sum of the seconds is stated without
recursion, by what the first k scenes have.

Freshness is about two readings of the analyses, that of the saved composition
and that of now. Its invariant is that a board is `Composed` of one reading, in
which every photo stands once (`Boards`, `Readings`); that needs scenes and
digest written in one commit. Equal digests of two readings pair their inputs by
the four digested facts (`SameDigest`). What priorities and rooms decide between
two inputs reads none but these (`DigestDecides`), so it is decided in the saved
reading as it is now; and in one reading the positions follow the comparator
(`PositionsFollow`, by the finite sets of predecessors, from
`DecisionsAreOrdered`).

`PhotosAreKept` is a refinement: every step of the workspace offers, refuses or
deletes one photo of the contract, or leaves all of them alone. Its second
invariant, `OfferInv`, says why the statements of a completion need no lock. A
completion is alone with its photo from the first move of its row to the last
(`CheckersAreAlone`): only PENDING_UPLOAD and FAILED let another one in, and
while it is at work no one else writes them. `CheckFits` is what a completion
has passed and stored at each of its statements, `RowFits` that a READY row
shows one good file in both forms and that only a deletion is for good.

### Membership

`MembershipProofs`, for any number of members, groups, properties and calls; two
calls in full have more states than a run explores in minutes, so these are
proved instead of run:

| Theorem | Statement |
| --- | --- |
| `OwnerAlwaysRemains` | `Spec => []OwnerRemains` |
| `NothingIsLeftBehind` | `Spec => []NothingOutlivesItsOwner` |
| `CeilingHolds` | `Spec => CeilingIsRespected` |
| `MfaIsManaged` | `Spec => MfaChangedByAManager` |
| `AssigningIsDelegating`, `EffectivePermissionsAreBounded` | about the role templates and ceilings |

The inductive invariant adds to types `MemberLocks` (a row under `FOR UPDATE` has
one holder, who knows the role it locked) and `GroupLocks` (writers of one group
exclude each other and its sharers). Two owners who leave at once lock the
owners' rows in the same order, so the second counts after the first.

### Pricing and the gate

`SubmissionProofs` also has, for every contract, rate, cycle and policy, with no assumption
beyond the types of the amounts, the theorems of the pure rules: rounding is to the nearest
(`RoundedToTheNearest`), billed durations are long enough (`BilledIsLongEnough`),
the planning cost covers the stable price (`PlanningCoversStable`), the guard's
floors are ordered and more revenue never pauses (`FloorsAreOrdered`,
`EarningMoreNeverPauses`), the database's filter drops only what counts as
nothing (`NothingCostlyIsFiltered`), and an authorized call is within the floor,
held, at the contract's price and counted by the next one (`PaidWithinTheFloor`,
`PaidOnlyWhenHeld`, `PaidAtTheContractsPrice`, `TheNextOneCountsIt`). The pure
rules have no run: these theorems are their check.

### The second factor

`SecondFactorProofs`, for any number of sign-ins, requests, secrets and sheets:
`CodesAreAcceptedOnce`, `WrongCodesEndASignIn`, `NoOldRecoveryCode` and
`PassingSpendsACode`. The inductive invariant says that a secret or a sheet was
drawn for one factor only (`DrawnForOne`), that the steps spent of the present
secret are not above its `lastUsedStep` (`SpentInOrder`), that the codes that
work were not spent (`UnusedSheet`), and what each request carries (`Carried`).

### The object store

`ObjectFolderProofs.KeepsThePromise`: the shared folder implements
`ObjectStoreContract`, for any number of keys, files and calls. The inductive
invariant says that a file being written has one writer and no name
(`WritersAreAlone`), holds a prefix of what it was asked to store
(`WrittenSoFar`), and that a reader has a prefix of the file it opened
(`ReadSoFar`). A call asks, in the contract, from its commit until it publishes.

## 5. Not modelled, and why

- The legacy generation path (`generation/*`, `generation-execution-repository`):
  the orchestration replaced it. Progress views are read models.
- Adapters of video and AI providers: mapping of foreign statuses and payloads;
  here a provider is whatever may answer.
- Web pages and operator commands beyond the second factor's gate: request
  handling and rendering over the services.
- Disclosure texts, prompts, model catalogs, profitability reports,
  observability: data and wording no property tells apart.
- Sign-in, passwords, tokens, e-mail: cryptography and I/O.
- The maintenance pass over a batch in which one candidate always throws (a
  listed hazard): the fairness used here is per attempt.

## 6. Plan

Every safety property of the passing runs is a theorem, and so is each refinement;
what is left to TLC is liveness. Next:

1. The hazards that neither a run nor a theorem covers: the maintenance pass over
   a batch in which one candidate always throws, and the replay of a rollback,
   which `alreadyRolledBack` recognises by rows a later revision changes. The
   two others without a run are proved in section 4: one code for two requests
   (`SecondFactorProofs`) and two owners who leave at once (`MembershipProofs`).
2. What follows from the contracts alone, stated over their own variables: that
   no lot of `UnitAccountContract` is ever overdrawn, nor one that was paid back
   drawn again.
