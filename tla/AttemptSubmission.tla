-------------------------- MODULE AttemptSubmission --------------------------
(***************************************************************************)
(* The paid calls of one organization's billing cycle: how a queued        *)
(* attempt is authorized, sent to the provider at most once, and how what  *)
(* the provider did with it comes to be known, or is given up.             *)
(*                                                                         *)
(* Three kinds of actor meet here.  A worker runs submission passes        *)
(* (attempt-submission/runner.ts): it keeps a window of attempts, a cursor *)
(* and the answer it has not recorded yet in memory, and loses them when   *)
(* it crashes.  The provider takes, refuses or never receives a request,   *)
(* at any time after it left.  The other passes move the same rows: the    *)
(* reconciliation maintenance, the settlement of failures, the execution   *)
(* of accepted work.                                                       *)
(*                                                                         *)
(* Each transaction is one action: all of them take the cost-admission     *)
(* lock of the organization and cycle first (cost-admission-lock.ts), so   *)
(* the cycle is the unit of atomicity.  What a worker does outside a       *)
(* transaction, sending and waiting, is a step of its own.                 *)
(*                                                                         *)
(* Prices are left out: every attempt's planning cost is one unit and the  *)
(* cycle's revenue leaves room for Budget of them.  Instants are left out  *)
(* too: age counts the ticks since an attempt entered the boundary, up to  *)
(* Window, which is all that the deadlines frozen from it compare with.    *)
(***************************************************************************)
EXTENDS GenerationTables, Integers, FiniteSets

CONSTANTS
  Worker,      \* processes running submission passes
  Attempts,    \* bound: attempts of the cycle, numbered in createdAt order
  Job,         \* the cycle's generation jobs
  JobOf,       \* the job of each attempt
  Revising,    \* jobs whose attempts are USER_REGENERATION on a spent Unit
  Limit,       \* the batch size of a pass
  Budget,      \* calls the Safety Guard has room for
  Stale,       \* staleSubmittingAfterMs, in ticks
  Window,      \* reconciliationWindowMs, in ticks
  Fates,       \* what may become of a request at the provider
  MaxCrashes   \* bound: crashes of workers

Attempt == 1..Attempts

RECORD_TRIES == 3

\* ReconciliationPolicy.validate: stale strictly before the deadline.
ASSUME PolicyAssumption ==
  /\ Stale \in Nat \ {0}
  /\ Window \in Nat
  /\ Stale < Window

ASSUME SizesAssumption ==
  /\ Attempts \in Nat
  /\ Limit \in Nat \ {0}
  /\ Budget \in Nat
  /\ MaxCrashes \in Nat
  /\ JobOf \in [Attempt -> Job]
  /\ Revising \subseteq Job
  /\ Fates \subseteq {"ACCEPTED", "RETRYABLE", "TERMINAL", "LOST"}

VARIABLES
  state,        \* SceneGeneration.orchestrationState, "ABSENT" before admission
  certainty,    \* SceneGeneration.submissionCertainty
  age,          \* ticks since submissionBoundaryEnteredAt, while it matters
  open,         \* jobs in GENERATING, the requests of their attempts with them
  reservation,  \* GenerationReservation.state of each job
  deleted,      \* jobs whose Property is DELETED
  call,         \* what became of the request at the provider
  posts,        \* how often it was sent
  pass,         \* per worker, the memory of its pass
  crashes

rowVars == <<state, certainty, age>>
jobVars == <<open, reservation, deleted>>
callVars == <<call, posts>>
vars == <<rowVars, jobVars, callVars, pass, crashes>>

SubmissionCertainty ==
  {"PRE_SUBMISSION", "ACCEPTED", "DEFINITIVELY_REJECTED", "SUBMISSION_UNKNOWN"}

Answers == {"ACCEPTED", "RETRYABLE", "TERMINAL", "UNKNOWN"}

(***************************************************************************)
(* A pass: ENDING works off the attempts of deleted Properties, WINDOW     *)
(* the candidates.  In ARMED the attempt is armed and not sent, in SENT    *)
(* its answer is awaited, in RECORDING the answer waits to be recorded.    *)
(* The attempt a worker is at is the oldest one left in todo.              *)
(***************************************************************************)
Pass ==
  [phase : {"IDLE", "ENDING", "WINDOW", "ARMED", "SENT", "RECORDING"},
   todo : SUBSET Attempt,
   cursor : 0..Attempts,                       \* 0: from the oldest
   stopped : {"NO", "REFUSED", "UNRECORDED"},  \* why nothing more is sent
   ending : SUBSET Job,                        \* jobs that will fail
   answer : Answers \cup {"NONE"},
   tries : 0..(RECORD_TRIES - 1)]

NoPass ==
  [phase |-> "IDLE", todo |-> {}, cursor |-> 0, stopped |-> "NO", ending |-> {},
   answer |-> "NONE", tries |-> 0]

TypeOK ==
  /\ state \in [Attempt -> AttemptStates \cup {"ABSENT"}]
  /\ certainty \in [Attempt -> SubmissionCertainty]
  /\ age \in [Attempt -> 0..Window]
  /\ open \in SUBSET Job
  /\ reservation \in [Job -> ReservationStates]
  /\ deleted \in SUBSET Job
  /\ call \in [Attempt -> {"NONE", "SENT", "ACCEPTED", "RETRYABLE", "TERMINAL", "LOST"}]
  /\ posts \in [Attempt -> Nat]
  /\ pass \in [Worker -> Pass]
  /\ crashes \in 0..MaxCrashes

\* The jobs are launched; their attempts are admitted as their scenes need them.
Init ==
  /\ state = [a \in Attempt |-> "ABSENT"]
  /\ certainty = [a \in Attempt |-> "PRE_SUBMISSION"]
  /\ age = [a \in Attempt |-> 0]
  /\ open = Job
  /\ reservation = [j \in Job |-> IF j \in Revising THEN "CONSUMED" ELSE "RESERVED"]
  /\ deleted = {}
  /\ call = [a \in Attempt |-> "NONE"]
  /\ posts = [a \in Attempt |-> 0]
  /\ pass = [w \in Worker |-> NoPass]
  /\ crashes = 0

-----------------------------------------------------------------------------
(***************************************************************************)
(* What the passes read.                                                   *)
(***************************************************************************)

Oldest(S) == CHOOSE a \in S : \A b \in S : a <= b
Latest(S) == CHOOSE a \in S : \A b \in S : b <= a

\* ORDER BY createdAt, id LIMIT Limit.
Batch(S) == {a \in S : Cardinality({b \in S : b < a}) < Limit}

\* The attempt the worker is at.
At(w) == Oldest(pass[w].todo)

AttemptsOf(j) == {a \in Attempt : JobOf[a] = j}

WaitingToBeSent(a) == state[a] = "QUEUED" /\ JobOf[a] \in open

\* findPropertyDeletedAttempts: the oldest one of each job.
PropertyDeletedAttempts ==
  Batch({a \in Attempt :
           /\ WaitingToBeSent(a)
           /\ JobOf[a] \in deleted
           /\ \A b \in AttemptsOf(JobOf[a]) : WaitingToBeSent(b) => a <= b})

\* findSubmissionCandidates.
Candidates(after) ==
  Batch({a \in Attempt : WaitingToBeSent(a) /\ JobOf[a] \notin deleted /\ a > after})

\* States that carry cost whatever the certainty says.
AlwaysCostExposed ==
  {"SUBMITTING", "PROCESSING", "PROVIDER_SUCCEEDED", "OUTPUT_INGESTING",
   "RECONCILIATION_PENDING", "RECONCILIATION_EXHAUSTED"}

\* Mutated form of CostExposed: giving up on an answer reads as a refund.
CostExposedUntilGivenUp(a) ==
  /\ state[a] # "RECONCILIATION_EXHAUSTED"
  /\ certainty[a] # "DEFINITIVELY_REJECTED"
  /\ state[a] \in AlwaysCostExposed \/ certainty[a] = "ACCEPTED"

\* classifyProviderCostExposure: the attempts it puts in any bucket but NONE.
CostExposed(a) ==
  /\ certainty[a] # "DEFINITIVELY_REJECTED"
  /\ \/ state[a] \in AlwaysCostExposed
     \/ certainty[a] \in {"ACCEPTED", "SUBMISSION_UNKNOWN"}

OthersExposed(a) == {b \in Attempt \ {a} : CostExposed(b)}

\* The Safety Guard: loadExposure of the others, and the candidate.
Affordable(a) == Cardinality(OthersExposed(a)) + 1 <= Budget

\* RESERVATION_ADMISSIBILITY: CONSUMED is for a regeneration only.
Fundable(a) ==
  LET held == reservation[JobOf[a]]
  IN held = "RESERVED" \/ (held = "CONSUMED" /\ JobOf[a] \in Revising)

\* evaluatePaidSubmissionGate, on rows read under the lock.
GatePermits(a) == state[a] = "QUEUED" /\ Fundable(a) /\ Affordable(a)

-----------------------------------------------------------------------------
(***************************************************************************)
(* A worker's pass: runOnce.                                               *)
(***************************************************************************)

RowsUnchanged == UNCHANGED <<rowVars, jobVars, callVars, crashes>>

Remembers(w, memory) == pass' = [pass EXCEPT ![w] = memory]

\* The worker is done with the attempt it is at.
Left(w) == pass[w].todo \ {At(w)}

\* The pass begins with the attempts whose Property was deleted.
BeginPass(w) ==
  /\ pass[w].phase = "IDLE"
  /\ Remembers(w, [pass[w] EXCEPT !.phase = "ENDING", !.todo = PropertyDeletedAttempts,
                                  !.stopped = "NO", !.ending = {}])
  /\ RowsUnchanged

\* Mutated form of CancelBeforeSubmission: the state is not compared again.
CancelWithoutCompare(a) == state' = [state EXCEPT ![a] = "CANCELLED_PRE_SUBMISSION"]

\* cancelBeforeSubmission, the compare-and-set of both endings.
CancelBeforeSubmission(a) ==
  /\ state[a] = "QUEUED"
  /\ state' = [state EXCEPT ![a] = "CANCELLED_PRE_SUBMISSION"]

\* An attempt is ended before submission, and its job will fail with it.
EndsHere(w) ==
  /\ CancelBeforeSubmission(At(w))
  /\ Remembers(w, [pass[w] EXCEPT !.todo = Left(w), !.ending = @ \cup {JobOf[At(w)]}])
  /\ UNCHANGED <<certainty, age, jobVars, callVars, crashes>>

\* endPropertyDeletedAttempt of an attempt the pass began with.
EndDeleted(w) ==
  /\ pass[w].phase = "ENDING"
  /\ pass[w].todo # {}
  /\ JobOf[At(w)] \in deleted
  /\ EndsHere(w)

\* The attempt moved meanwhile, or its ending threw: nothing is written.
LeaveDeleted(w) ==
  /\ pass[w].phase = "ENDING"
  /\ pass[w].todo # {}
  /\ Remembers(w, [pass[w] EXCEPT !.todo = Left(w)])
  /\ RowsUnchanged

\* Mutated form of NextCursor: every pass starts from the oldest.
NextCursorFromOldest(window) == 0

\* Where the next pass starts: after the last attempt of a full window.
NextCursor(window) == IF Cardinality(window) = Limit THEN Latest(window) ELSE 0

\* Then the window after the cursor is read, and the cursor moves.
ReadWindow(w) ==
  /\ pass[w].phase = "ENDING"
  /\ pass[w].todo = {}
  /\ LET window == Candidates(pass[w].cursor)
     IN Remembers(w, [pass[w] EXCEPT !.phase = "WINDOW", !.todo = window,
                                     !.cursor = NextCursor(window)])
  /\ RowsUnchanged

\* An attempt of the window is taken up, unless the pass stopped or its job
\* will fail.
Turn(w, a) ==
  /\ pass[w].phase = "WINDOW"
  /\ pass[w].todo # {}
  /\ a = At(w)
  /\ pass[w].stopped = "NO"
  /\ JobOf[a] \notin pass[w].ending

SkipAttempt(w) ==
  /\ pass[w].phase = "WINDOW"
  /\ pass[w].todo # {}
  /\ ~Turn(w, At(w))
  /\ Remembers(w, [pass[w] EXCEPT !.todo = Left(w)])
  /\ RowsUnchanged

\* Nothing is written: another provider's attempt, preparation that may still
\* pass, a stale source URL, the gate's refusal, a row that moved, or a throw.
PassOver(w) ==
  /\ Turn(w, At(w))
  /\ Remembers(w, [pass[w] EXCEPT !.todo = Left(w)])
  /\ RowsUnchanged

\* endPreparationRefusal: preparation refused it for good.
EndRefused(w) ==
  /\ Turn(w, At(w))
  /\ EndsHere(w)

\* The gate's source lock finds the Property deleted since discovery.
EndDeletedSince(w) ==
  /\ Turn(w, At(w))
  /\ GatePermits(At(w))
  /\ JobOf[At(w)] \in deleted
  /\ EndsHere(w)

\* authorize: gate, source lock and armProviderBoundaryWithin in one commit.
Arm(w) ==
  LET a == At(w)
  IN /\ Turn(w, a)
     /\ GatePermits(a)
     /\ JobOf[a] \notin deleted
     /\ state' = [state EXCEPT ![a] = "SUBMITTING"]
     /\ age' = [age EXCEPT ![a] = 0]
     /\ Remembers(w, [pass[w] EXCEPT !.phase = "ARMED"])
     /\ UNCHANGED <<certainty, jobVars, callVars, crashes>>

Hears(w, answer) ==
  Remembers(w, [pass[w] EXCEPT !.phase = "RECORDING", !.answer = answer, !.tries = 0])

\* The one POST leaves.  Nothing is read again after the arm.
Post(w) ==
  /\ pass[w].phase = "ARMED"
  /\ posts' = [posts EXCEPT ![At(w)] = @ + 1]
  /\ call' = [call EXCEPT ![At(w)] = "SENT"]
  /\ Remembers(w, [pass[w] EXCEPT !.phase = "SENT"])
  /\ UNCHANGED <<rowVars, jobVars, crashes>>

\* The sender threw or answered something malformed before anything left.
SendFails(w) ==
  /\ pass[w].phase = "ARMED"
  /\ Hears(w, "UNKNOWN")
  /\ RowsUnchanged

\* The provider's answer arrives.
HearAnswer(w) ==
  /\ pass[w].phase = "SENT"
  /\ call[At(w)] \in {"ACCEPTED", "RETRYABLE", "TERMINAL"}
  /\ Hears(w, call[At(w)])
  /\ RowsUnchanged

\* It does not arrive, or cannot be read: the request's fate is not known.
HearNothing(w) ==
  /\ pass[w].phase = "SENT"
  /\ Hears(w, "UNKNOWN")
  /\ RowsUnchanged

-----------------------------------------------------------------------------
(***************************************************************************)
(* Recording an answer: submission/service.ts and submission/outcome.ts.   *)
(***************************************************************************)

\* writeFor: the certainty and the state an answer is recorded as.
CertaintyOf(answer) ==
  [ACCEPTED |-> "ACCEPTED", RETRYABLE |-> "DEFINITIVELY_REJECTED",
   TERMINAL |-> "DEFINITIVELY_REJECTED", UNKNOWN |-> "SUBMISSION_UNKNOWN"][answer]

StateOf(answer) ==
  [ACCEPTED |-> "PROCESSING", RETRYABLE |-> "FAILED_RETRYABLE",
   TERMINAL |-> "FAILED_TERMINAL", UNKNOWN |-> "RECONCILIATION_PENDING"][answer]

\* STATES_COMPATIBLE_WITH_CERTAINTY.
CompatibleStates ==
  [PRE_SUBMISSION |-> {"QUEUED", "SUBMITTING", "CANCELLED_PRE_SUBMISSION"},
   ACCEPTED |-> {"PROCESSING", "PROVIDER_SUCCEEDED", "OUTPUT_INGESTING",
                 "OUTPUT_VERIFIED", "FAILED_RETRYABLE", "FAILED_TERMINAL"},
   DEFINITIVELY_REJECTED |-> {"FAILED_RETRYABLE", "FAILED_TERMINAL"},
   SUBMISSION_UNKNOWN |-> {"RECONCILIATION_PENDING", "RECONCILIATION_EXHAUSTED"}]

\* Mutated form of MatchesRecord: the attempt must still be where it landed.
MatchesLandingState(a, answer) ==
  certainty[a] = CertaintyOf(answer) /\ state[a] = StateOf(answer)

\* matchesRecord: what is on file says the same of the provider.  An attempt is
\* sent once, so an acceptance names the one reference there is.
MatchesRecord(a, answer) ==
  /\ certainty[a] = CertaintyOf(answer)
  /\ state[a] \in CompatibleStates[certainty[a]]
  /\ certainty[a] = "DEFINITIVELY_REJECTED" => state[a] = StateOf(answer)

\* decideSubmissionOutcome.
Applies(a) == state[a] = "SUBMITTING" /\ certainty[a] = "PRE_SUBMISSION"

\* apply: the row and, when the outcome is unknown, the hold of its Unit.
OutcomeWritten(a, answer) ==
  /\ state' = [state EXCEPT ![a] = StateOf(answer)]
  /\ certainty' = [certainty EXCEPT ![a] = CertaintyOf(answer)]
  /\ reservation' =
       IF answer = "UNKNOWN" /\ reservation[JobOf[a]] = "RESERVED"
       THEN [reservation EXCEPT ![JobOf[a]] = "RECONCILIATION_HOLD"]
       ELSE reservation

\* The pass moves on from the attempt it sent.  A stop moves the cursor to it.
MovesOn(w, stopped) ==
  Remembers(w, [pass[w] EXCEPT
    !.phase = "WINDOW",
    !.todo = Left(w),
    !.stopped = stopped,
    !.cursor = IF stopped = "NO" THEN @ ELSE At(w),
    !.ending = IF pass[w].answer \in {"RETRYABLE", "TERMINAL"}
               THEN @ \cup {JobOf[At(w)]} ELSE @,
    !.answer = "NONE",
    !.tries = 0])

\* Mutated form of TryAgain: one try too many.
TryAgainOnceMore(w) ==
  IF pass[w].tries < RECORD_TRIES
  THEN Remembers(w, [pass[w] EXCEPT !.tries = @ + 1])
  ELSE MovesOn(w, "UNRECORDED")

\* A try to record threw; after the last one the pass stops.
TryAgain(w) ==
  IF pass[w].tries + 1 < RECORD_TRIES
  THEN Remembers(w, [pass[w] EXCEPT !.tries = @ + 1])
  ELSE MovesOn(w, "UNRECORDED")

\* recordObservation applies the answer, and its own answer is heard or lost.
RecordApplied(w) ==
  /\ pass[w].phase = "RECORDING"
  /\ Applies(At(w))
  /\ OutcomeWritten(At(w), pass[w].answer)
  /\ MovesOn(w, "NO") \/ TryAgain(w)
  /\ UNCHANGED <<age, open, deleted, callVars, crashes>>

\* The answer is on file already: a replay writes nothing.
RecordReplayed(w) ==
  /\ pass[w].phase = "RECORDING"
  /\ ~Applies(At(w))
  /\ MatchesRecord(At(w), pass[w].answer)
  /\ MovesOn(w, "NO")
  /\ RowsUnchanged

\* The record says otherwise: CONFLICT or NOT_AT_BOUNDARY stops the pass.
RecordRefused(w) ==
  /\ pass[w].phase = "RECORDING"
  /\ ~Applies(At(w))
  /\ ~MatchesRecord(At(w), pass[w].answer)
  /\ MovesOn(w, "REFUSED")
  /\ RowsUnchanged

\* The transaction did not commit.
RecordThrew(w) ==
  /\ pass[w].phase = "RECORDING"
  /\ TryAgain(w)
  /\ RowsUnchanged

EndPass(w) ==
  /\ pass[w].phase = "WINDOW"
  /\ pass[w].todo = {}
  /\ Remembers(w, [pass[w] EXCEPT !.phase = "IDLE"])
  /\ RowsUnchanged

\* The process dies, wherever it was: a pass is memory only.
Crash(w) ==
  /\ crashes < MaxCrashes
  /\ pass[w] # NoPass
  /\ Remembers(w, NoPass)
  /\ crashes' = crashes + 1
  /\ UNCHANGED <<rowVars, jobVars, callVars>>

-----------------------------------------------------------------------------
(***************************************************************************)
(* The provider, time, and the other passes over the same rows.            *)
(***************************************************************************)

\* A request that left is taken, refused or lost, whoever still waits for it.  A
\* sender that refuses on its own, before anything leaves, is told as a refusal.
ProviderDecides(a) ==
  /\ call[a] = "SENT"
  /\ \E fate \in Fates : call' = [call EXCEPT ![a] = fate]
  /\ UNCHANGED <<rowVars, jobVars, posts, pass, crashes>>

Unresolved(a) == state[a] \in {"SUBMITTING", "RECONCILIATION_PENDING"}

Tick ==
  /\ \E a \in Attempt : Unresolved(a) /\ age[a] < Window
  /\ age' = [a \in Attempt |-> IF Unresolved(a) /\ age[a] < Window THEN age[a] + 1 ELSE age[a]]
  /\ UNCHANGED <<state, certainty, jobVars, callVars, pass, crashes>>

\* Mutated form of SweepStale: only where a Unit can be put on hold.
SweepStaleOfReservedUnits(a) ==
  /\ Applies(a)
  /\ age[a] >= Stale
  /\ reservation[JobOf[a]] = "RESERVED"
  /\ OutcomeWritten(a, "UNKNOWN")
  /\ UNCHANGED <<age, open, deleted, callVars, pass, crashes>>

\* enterUncertaintyForStaleSubmitting of the maintenance pass.
SweepStale(a) ==
  /\ Applies(a)
  /\ age[a] >= Stale
  /\ OutcomeWritten(a, "UNKNOWN")
  /\ UNCHANGED <<age, open, deleted, callVars, pass, crashes>>

OtherPendingUnknown(a) ==
  \E b \in AttemptsOf(JobOf[a]) \ {a} : state[b] = "RECONCILIATION_PENDING"

\* Mutated form of HeldAfter: a sibling still unknown does not keep the hold.
HeldAfterOneAnswer(a, conclusion) ==
  LET held == reservation[JobOf[a]]
  IN IF held # "RECONCILIATION_HOLD" THEN held
     ELSE IF conclusion \in {"TERMINAL", "EXHAUSTED"} THEN "RELEASED" ELSE "RESERVED"

\* reservationActionFor.
HeldAfter(a, conclusion) ==
  LET held == reservation[JobOf[a]]
  IN IF held # "RECONCILIATION_HOLD" THEN held
     ELSE IF conclusion \in {"TERMINAL", "EXHAUSTED"} THEN "RELEASED"
     ELSE IF OtherPendingUnknown(a) THEN held ELSE "RESERVED"

\* What an investigation of the provider can establish about a call.
Evidence(a) ==
  CASE call[a] \in {"ACCEPTED", "RETRYABLE", "TERMINAL"} -> {call[a]}
    [] call[a] = "LOST" -> {"RETRYABLE"}
    [] OTHER -> {}

\* resolveReconciliation, before the deadline.
Resolve(a) ==
  /\ state[a] = "RECONCILIATION_PENDING"
  /\ age[a] < Window
  /\ \E conclusion \in Evidence(a) :
        /\ state' = [state EXCEPT ![a] = StateOf(conclusion)]
        /\ certainty' = [certainty EXCEPT ![a] = CertaintyOf(conclusion)]
        /\ reservation' = [reservation EXCEPT ![JobOf[a]] = HeldAfter(a, conclusion)]
  /\ UNCHANGED <<age, open, deleted, callVars, pass, crashes>>

\* exhaustReconciliation, from the deadline on: what the provider did stays unknown.
Exhaust(a) ==
  /\ state[a] = "RECONCILIATION_PENDING"
  /\ age[a] = Window
  /\ state' = [state EXCEPT ![a] = "RECONCILIATION_EXHAUSTED"]
  /\ reservation' = [reservation EXCEPT ![JobOf[a]] = HeldAfter(a, "EXHAUSTED")]
  /\ UNCHANGED <<certainty, age, open, deleted, callVars, pass, crashes>>

\* admitAttemptWithin, for a scene of a generating job.
Admit(a) ==
  /\ state[a] = "ABSENT"
  /\ JobOf[a] \in open
  /\ state' = [state EXCEPT ![a] = "QUEUED"]
  /\ UNCHANGED <<certainty, age, jobVars, callVars, pass, crashes>>

\* Provider output and Transaction H move accepted work on; see GenerationLifecycle.
Execute(a) ==
  /\ certainty[a] = "ACCEPTED"
  /\ \E to \in AttemptTransitions[state[a]] : state' = [state EXCEPT ![a] = to]
  /\ UNCHANGED <<certainty, age, jobVars, callVars, pass, crashes>>

\* Transaction K: a job with an attempt that ended without output leaves
\* GENERATING, and a first video gives its Unit back.
SettleFailure(j) ==
  /\ j \in open
  /\ \E a \in AttemptsOf(j) : state[a] \in EndedWithoutOutput
  /\ open' = open \ {j}
  /\ reservation' = IF j \in Revising THEN reservation ELSE [reservation EXCEPT ![j] = "RELEASED"]
  /\ UNCHANGED <<rowVars, deleted, callVars, pass, crashes>>

DeleteProperty(j) ==
  /\ j \notin deleted
  /\ deleted' = deleted \cup {j}
  /\ UNCHANGED <<rowVars, open, reservation, callVars, pass, crashes>>

-----------------------------------------------------------------------------
Submits(w) ==
  \/ BeginPass(w) \/ EndDeleted(w) \/ LeaveDeleted(w) \/ ReadWindow(w)
  \/ SkipAttempt(w) \/ PassOver(w) \/ EndRefused(w) \/ EndDeletedSince(w)
  \/ Arm(w) \/ Post(w) \/ SendFails(w) \/ HearAnswer(w) \/ HearNothing(w)
  \/ RecordApplied(w) \/ RecordReplayed(w) \/ RecordRefused(w) \/ RecordThrew(w)
  \/ EndPass(w)

Maintains(a) == SweepStale(a) \/ Resolve(a) \/ Exhaust(a)

Others(a) == ProviderDecides(a) \/ Admit(a) \/ Execute(a)

Next ==
  \/ \E w \in Worker : Submits(w) \/ Crash(w)
  \/ \E a \in Attempt : Maintains(a) \/ Others(a)
  \/ \E j \in Job : SettleFailure(j) \/ DeleteProperty(j)
  \/ Tick

Spec == Init /\ [][Next]_vars

\* The passes keep being run and time passes; the provider owes nothing.
Fairness ==
  /\ WF_vars(Tick)
  /\ \A w \in Worker : WF_vars(Submits(w))
  /\ \A a \in Attempt : WF_vars(SweepStale(a)) /\ WF_vars(Exhaust(a))

FairSpec == Spec /\ Fairness
=============================================================================
