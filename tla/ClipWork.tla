------------------------------- MODULE ClipWork -------------------------------
(***************************************************************************)
(* What happens to one scene's clip once a provider has accepted the       *)
(* request for it: polled and ingested into the bucket (Transaction B),    *)
(* judged, and, if it is no good, recovered once or settled (H).           *)
(*                                                                         *)
(* A worker's pass is a chain of phases; between two of them anything may  *)
(* happen.  A provider may answer a poll with anything, twice differently. *)
(* Every answer or failure that ends a pass with nothing written is        *)
(* PassEnds of MediaPipeline, and so is a crash.                           *)
(***************************************************************************)
EXTENDS MediaRecords

NewAttempt(state) == [state |-> state, receipt |-> Nothing]

HasRecovery == attempt["recovery"].state # "NONE"
Newest(a)   == a = "recovery" \/ ~ HasRecovery

--------------------------------------------------------------------------------
(* Ingestion: no lease; the attempt's own state is the claim.                   *)

INGESTIBLE == {"PROCESSING", "PROVIDER_SUCCEEDED", "OUTPUT_INGESTING"}
SUCCESS_REPLAY_STATES == {"PROVIDER_SUCCEEDED", "OUTPUT_INGESTING", "OUTPUT_VERIFIED"}

LoadPollingContext(w, a) ==
  /\ At(w, "IDLE")
  /\ attempt[a].state \in INGESTIBLE
  /\ Goes(w, [at |-> "POLL", on |-> a, seen |-> attempt[a].state])
  /\ UNCHANGED <<stored, clipRows, jobRows, videoRows>>

\* A completion goes on to be recorded; a recorded success must be confirmed by
\* the provider before its output is fetched.
Poll(w) ==
  LET p == pass[w]
  IN  /\ At(w, "POLL")
      /\ \/ /\ p.seen = "PROCESSING"
            /\ \E answer \in {"SUCCEEDED", "FAILED_RETRYABLE", "FAILED_TERMINAL"} :
                 Goes(w, [at |-> "COMPLETE", on |-> p.on, answer |-> answer])
         \/ /\ p.seen = "PROVIDER_SUCCEEDED"
            /\ Goes(w, [at |-> "BEGIN", on |-> p.on])
         \/ /\ p.seen = "OUTPUT_INGESTING"
            /\ Goes(w, [at |-> "TRANSFER", on |-> p.on])
      /\ UNCHANGED <<stored, clipRows, jobRows, videoRows>>

decideProviderCompletion(state, answer) ==
  CASE answer = "SUCCEEDED" /\ state \in SUCCESS_REPLAY_STATES -> "REPLAY"
    [] answer # "SUCCEEDED" /\ state = answer                  -> "REPLAY"
    [] state = "PROCESSING"                                    -> "APPLY"
    [] OTHER                                                   -> "CONFLICT"

\* recordProviderCompletion; a success is followed by the claim of its ingestion.
Complete(w) ==
  LET p == pass[w]
      decision == decideProviderCompletion(attempt[p.on].state, p.answer)
  IN  /\ At(w, "COMPLETE")
      /\ attempt' =
           IF decision # "APPLY" THEN attempt
           ELSE [attempt EXCEPT ![p.on].state =
                   IF p.answer = "SUCCEEDED" THEN "PROVIDER_SUCCEEDED" ELSE p.answer]
      /\ IF p.answer = "SUCCEEDED" /\ decision # "CONFLICT"
         THEN Goes(w, [at |-> "BEGIN", on |-> p.on])
         ELSE Ends(w)
      /\ UNCHANGED <<stored, judging, resolving, jobRows, videoRows>>

\* beginOutputIngestion: only the pass that applied it transfers.
Begin(w) ==
  LET p == pass[w]
  IN  /\ At(w, "BEGIN")
      /\ IF attempt[p.on].state = "PROVIDER_SUCCEEDED"
         THEN /\ attempt' = [attempt EXCEPT ![p.on].state = "OUTPUT_INGESTING"]
              /\ Goes(w, [at |-> "TRANSFER", on |-> p.on])
         ELSE UNCHANGED attempt /\ Ends(w)
      /\ UNCHANGED <<stored, judging, resolving, jobRows, videoRows>>

\* The stream is hashed as it is staged; too long or empty ends the pass.
Transfer(w) ==
  /\ At(w, "TRANSFER")
  /\ \E take \in ClipTake :
       Goes(w, [at |-> "COMMIT", on |-> pass[w].on, bytes |-> Bytes("provider", take)])
  /\ UNCHANGED <<stored, clipRows, jobRows, videoRows>>

\* Mutated form of Commit: a key already taken is answered with the receipt of
\* the bytes this worker staged.
CommitOwnReceipt(w) ==
  LET p == pass[w]
  IN  /\ At(w, "COMMIT")
      /\ PutIfAbsent(p.on, p.bytes)
      /\ Goes(w, [at |-> "VERIFY", on |-> p.on, receipt |-> p.bytes])
      /\ UNCHANGED <<clipRows, jobRows, videoRows>>

\* The upload is completed if the key is free; if not, the winner is read and
\* its receipt is the answer.  An answer lost on the way ends the pass.
Commit(w) ==
  LET p == pass[w]
  IN  /\ At(w, "COMMIT")
      /\ PutIfAbsent(p.on, p.bytes)
      /\ Goes(w, [at |-> "VERIFY", on |-> p.on, receipt |-> stored'[p.on]])
      /\ UNCHANGED <<clipRows, jobRows, videoRows>>

\* finalizeOutputVerification
Verify(w) ==
  LET p == pass[w]
  IN  /\ At(w, "VERIFY")
      /\ attempt' =
           IF attempt[p.on].state = "OUTPUT_INGESTING"
           THEN [attempt EXCEPT ![p.on] = [state |-> "OUTPUT_VERIFIED", receipt |-> p.receipt]]
           ELSE attempt
      /\ Ends(w)
      /\ UNCHANGED <<stored, judging, resolving, jobRows, videoRows>>

--------------------------------------------------------------------------------
(* Judging the clip.                                                            *)

\* The row is created, or taken over by a compare and set on its version: one
\* step, for nothing a claim depends on beside the row ever changes again.
JudgeClaim(w, a) ==
  /\ At(w, "IDLE")
  /\ attempt[a].state = "OUTPUT_VERIFIED"
  /\ Claimable(judging[a])
  /\ judging' = [judging EXCEPT ![a] = ClaimedBy(w)]
  /\ Goes(w, [at |-> "JUDGE", on |-> a, expects |-> attempt[a].receipt])
  /\ UNCHANGED <<stored, attempt, resolving, jobRows, videoRows>>

\* The object is copied, measured and probed; storage or the probe may fail.
Judge(w) ==
  LET p == pass[w]
  IN  /\ At(w, "JUDGE")
      /\ \E verdict \in {"RETRYABLE_FAILURE", Verdict(stored[p.on], p.expects)} :
           Goes(w, [at |-> "JUDGED", on |-> p.on, verdict |-> verdict])
      /\ UNCHANGED <<stored, clipRows, jobRows, videoRows>>

JudgeWrite(w) ==
  LET p == pass[w]
  IN  /\ At(w, "JUDGED")
      /\ judging' = [judging EXCEPT ![p.on] =
                       Written(@, w, IF p.verdict \in Verdicts THEN Settled(p.verdict)
                                     ELSE Released)]
      /\ Ends(w)
      /\ UNCHANGED <<stored, attempt, resolving, jobRows, videoRows>>

--------------------------------------------------------------------------------
(* Resolving a bad verdict.                                                     *)

classify(a) ==
  CASE request # "GENERATING" -> "OBSOLETE"
    [] ~ Newest(a)            -> "RECONCILE_RECOVERY"
    [] a = "recovery"         -> "SETTLE_EXHAUSTED"
    [] OTHER                  -> "ADMIT_RECOVERY"

\* The claim reads its context with no lock and writes by compare and set, so
\* what it is to do was decided on rows that may since have moved.  (A row that
\* came back to the same value has another version in the code, and fails the
\* claim there.)
ResolveLook(w, a) ==
  /\ At(w, "IDLE")
  /\ judging[a].status \in BadVerdicts
  /\ Claimable(resolving[a])
  /\ Goes(w, [at |-> "CLAIM", on |-> a, row |-> resolving[a], todo |-> classify(a)])
  /\ UNCHANGED <<stored, clipRows, jobRows, videoRows>>

ResolveClaim(w) ==
  LET p == pass[w]
  IN  /\ At(w, "CLAIM")
      /\ IF resolving[p.on] = p.row
         THEN /\ resolving' = [resolving EXCEPT ![p.on] = ClaimedBy(w)]
              /\ Goes(w, [at |-> p.todo, on |-> p.on])
         ELSE UNCHANGED resolving /\ Ends(w)
      /\ UNCHANGED <<stored, attempt, judging, jobRows, videoRows>>

\* guardedWrite
WriteResolution(w, to) ==
  resolving' = [resolving EXCEPT ![pass[w].on] = Written(@, w, to)]

\* resolveObsolete, resolveRecoveryAdmitted
Resolve(w) ==
  /\ \/ At(w, "OBSOLETE") /\ WriteResolution(w, Settled("OBSOLETE"))
     \/ /\ At(w, "RECONCILE_RECOVERY") \/ At(w, "ADMITTED")
        /\ WriteResolution(w, Settled("RECOVERY_ADMITTED"))
  /\ Ends(w)
  /\ UNCHANGED <<stored, attempt, judging, jobRows, videoRows>>

\* release, and the defer of a plan refused: due again later.
Release(w) ==
  /\ At(w, "RELEASE")
  /\ WriteResolution(w, Released)
  /\ Ends(w)
  /\ UNCHANGED <<stored, attempt, judging, jobRows, videoRows>>

\* The planner prices the recovery; no plan, and a planner that throws, put the
\* work back.
PlanRecovery(w) ==
  /\ At(w, "ADMIT_RECOVERY")
  /\ \E next \in {"ADMIT", "RELEASE"} : Goes(w, [at |-> next, on |-> pass[w].on])
  /\ UNCHANGED <<stored, clipRows, jobRows, videoRows>>

\* automaticMediaRecoveryAllowed and the state checks, under the chain's locks.
RecoveryEligible(a) ==
  /\ judging[a].status \in BadVerdicts
  /\ attempt[a].state = "OUTPUT_VERIFIED"
  /\ ~ HasRecovery
  /\ request = "GENERATING"
  /\ job.state = "GENERATING"

\* Mutated form of AdmitRecovery: a refused admission is resolved all the same.
AdmitRecoveryUnheard(w) ==
  LET p == pass[w]
  IN  /\ At(w, "ADMIT")
      /\ attempt' = IF RecoveryEligible(p.on)
                    THEN [attempt EXCEPT !["recovery"] = NewAttempt("QUEUED")]
                    ELSE attempt
      /\ Goes(w, [at |-> "ADMITTED", on |-> p.on])
      /\ UNCHANGED <<stored, judging, resolving, jobRows, videoRows>>

\* The admission is a transaction of its own, and the resolution another: the
\* row is written after the recovery exists, if the claim is still held.
AdmitRecovery(w) ==
  LET p == pass[w]
  IN  /\ At(w, "ADMIT")
      /\ IF RecoveryEligible(p.on)
         THEN /\ attempt' = [attempt EXCEPT !["recovery"] = NewAttempt("QUEUED")]
              /\ Goes(w, [at |-> "ADMITTED", on |-> p.on])
         ELSE UNCHANGED attempt /\ Goes(w, [at |-> "RELEASE", on |-> p.on])
      /\ UNCHANGED <<stored, judging, resolving, jobRows, videoRows>>

\* settleExhaustedMediaFailure for a first request: a claim that is lost, or rows
\* that say otherwise, leave everything as it is and put the work back.
SettleExhausted(w) ==
  LET p == pass[w]
      exhausted ==
        /\ HeldBy(resolving[p.on], w)
        /\ judging[p.on].status \in BadVerdicts
        /\ p.on = "recovery"
        /\ request = "GENERATING"
        /\ job = [state |-> "GENERATING", unit |-> "RESERVED"]
  IN  /\ At(w, "SETTLE_EXHAUSTED")
      /\ IF exhausted
         THEN /\ request' = "FAILED_TERMINAL"
              /\ JobFails("RELEASED")
              /\ WriteResolution(w, Settled("INITIAL_FAILURE_SETTLED"))
              /\ Ends(w)
         ELSE /\ UNCHANGED <<request, job, resolving>>
              /\ IF resolving[p.on].status = "INITIAL_FAILURE_SETTLED" THEN Ends(w)
                 ELSE Goes(w, [at |-> "RELEASE", on |-> p.on])
      /\ UNCHANGED <<stored, attempt, judging, videoRows>>

--------------------------------------------------------------------------------
(* What other parts of the system do to these rows (GenerationLifecycle and     *)
(* AttemptSubmission are about them).                                           *)

\* The recovery's submission: accepted by a provider, or over.
RecoverySubmitted ==
  /\ attempt["recovery"].state = "QUEUED"
  /\ \E state \in {"PROCESSING", "FAILED_TERMINAL"} :
       attempt' = [attempt EXCEPT !["recovery"].state = state]
  /\ UNCHANGED <<stored, judging, resolving, jobRows, videoRows, pass>>

\* Transaction K: this scene's request, or another one of the job, is out of
\* attempts.
JobEnds ==
  /\ job.state = "GENERATING"
  /\ JobFails("RELEASED")
  /\ UNCHANGED <<stored, clipRows, request, videoRows, pass>>

\* Transaction L: the open request of a failed job is closed once no provider
\* holds an attempt of it; one not yet submitted is cancelled.
RequestCloses ==
  /\ request = "GENERATING" /\ job.state = "FAILED_TERMINAL"
  /\ \A a \in Attempt : attempt[a].state \notin INGESTIBLE
  /\ request' = "FAILED_TERMINAL"
  /\ attempt' = [a \in Attempt |-> IF attempt[a].state = "QUEUED"
                                  THEN NewAttempt("CANCELLED_PRE_SUBMISSION") ELSE attempt[a]]
  /\ UNCHANGED <<stored, judging, resolving, job, videoRows, pass>>

\* Transactions F and I: the newest attempt's valid clip is delivered and, when
\* the other scenes have theirs, the plan of the video is frozen.
ClipIsPlanned(a) ==
  /\ request = "GENERATING" /\ job.state = "GENERATING"
  /\ Newest(a) /\ judging[a].status = "VALID"
  /\ request' = "DELIVERED"
  /\ job' = [job EXCEPT !.state = "COMPOSITION_PENDING"]
  /\ \E executable \in BOOLEAN :
       plan' = [attempt |-> a, source |-> attempt[a].receipt, executable |-> executable]
  /\ UNCHANGED <<stored, clipRows, composing, receipts, checking, shown, pass>>
===============================================================================
