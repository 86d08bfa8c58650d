----------------------------- MODULE MediaPipeline -----------------------------
(***************************************************************************)
(* The media workers of one clip and one video, side by side: any worker   *)
(* takes any work, leases expire while their holder still runs, and a pass *)
(* may end anywhere.                                                       *)
(***************************************************************************)
EXTENDS ClipWork, VideoWork

Init ==
  /\ stored = [key \in Object |-> Nothing]
  /\ attempt = [a \in Attempt |->
                  NewAttempt(IF a = "first" THEN "PROCESSING" ELSE "NONE")]
  /\ judging = [a \in Attempt |-> NoRow]
  /\ resolving = [a \in Attempt |-> NoRow]
  /\ request = "GENERATING"
  /\ job = [state |-> "GENERATING", unit |-> "RESERVED"]
  /\ plan = NoPlan
  /\ composing = NoRow /\ checking = NoRow
  /\ receipts = NoReceipts
  /\ shown = Nothing
  /\ pass = [w \in Worker |-> Idle]

\* A crash, a call that fails, or an answer that ends the pass with nothing
\* written: what the worker knew is gone, what it wrote and claimed stays.
PassEnds(w) ==
  /\ ~ At(w, "IDLE")
  /\ Ends(w)
  /\ UNCHANGED <<stored, clipRows, jobRows, videoRows>>

WorkRows ==
  [judgeFirst |-> judging["first"],     judgeRecovery |-> judging["recovery"],
   resolveFirst |-> resolving["first"], resolveRecovery |-> resolving["recovery"],
   compose |-> composing,               check |-> checking]

LeaseExpires ==
  /\ \/ /\ \E a \in Attempt :
             \/ /\ Running(judging[a])
                /\ judging' = [judging EXCEPT ![a] = TimedOut(@)] /\ UNCHANGED resolving
             \/ /\ Running(resolving[a])
                /\ resolving' = [resolving EXCEPT ![a] = TimedOut(@)] /\ UNCHANGED judging
        /\ UNCHANGED <<composing, checking>>
     \/ /\ \/ /\ Running(composing)
              /\ composing' = TimedOut(composing) /\ UNCHANGED checking
           \/ /\ Running(checking)
              /\ checking' = TimedOut(checking) /\ UNCHANGED composing
        /\ UNCHANGED <<judging, resolving>>
  /\ UNCHANGED <<stored, attempt, jobRows, plan, receipts, shown, pass>>

TakesUp(w) ==
  \/ \E a \in Attempt : LoadPollingContext(w, a) \/ JudgeClaim(w, a) \/ ResolveLook(w, a)
  \/ ComposeClaim(w) \/ CheckClaim(w)

WorksOnClip(w) ==
  \/ Poll(w) \/ Complete(w) \/ Begin(w) \/ Transfer(w) \/ Commit(w) \/ Verify(w)
  \/ Judge(w) \/ JudgeWrite(w)
  \/ ResolveClaim(w) \/ Resolve(w) \/ Release(w) \/ PlanRecovery(w)
  \/ AdmitRecovery(w) \/ SettleExhausted(w)

WorksOnVideo(w) ==
  \/ ProbeVideo(w) \/ ProbeMaster(w) \/ FetchMaster(w) \/ Compose(w) \/ StoreMaster(w)
  \/ Disclose(w) \/ StoreVideo(w) \/ DeferComposition(w) \/ FinalizeComposition(w)
  \/ BlockComposition(w)
  \/ Check(w) \/ FinalizeValid(w) \/ FinalizeInvalid(w) \/ DeferValidation(w)
  \/ PublishDeliverable(w)

ElsewhereInTheJob ==
  RecoverySubmitted \/ JobEnds \/ RequestCloses \/ \E a \in Attempt : ClipIsPlanned(a)

Next ==
  \/ \E w \in Worker : TakesUp(w) \/ WorksOnClip(w) \/ WorksOnVideo(w) \/ PassEnds(w)
  \/ LeaseExpires
  \/ ElsewhereInTheJob

Spec == Init /\ [][Next]_vars

\* What keeps a pass from its end: it stops half-way, storage or the planner
\* refuses for now, or its lease is too short for it.
Fault ==
  \/ \E w \in Worker :
       \/ PassEnds(w) \/ DeferComposition(w)
       \/ Judge(w) /\ pass'[w].verdict = "RETRYABLE_FAILURE"
       \/ Check(w) /\ pass'[w].verdict = "RETRYABLE_FAILURE"
       \/ PlanRecovery(w) /\ pass'[w].at = "RELEASE"
  \/ LeaseExpires /\ \E k \in DOMAIN WorkRows :
       WorkRows[k] # WorkRows'[k] /\ ~ At(WorkRows[k].holder, "IDLE")

\* Every worker's loop sweeps again after a pause and takes its steps, and the
\* rest of the job does what is due; faults do not go on for ever.
FairSpec ==
  /\ Spec
  /\ \A w \in Worker : WF_vars(TakesUp(w) \/ WorksOnClip(w) \/ WorksOnVideo(w))
  /\ WF_vars(LeaseExpires)
  /\ WF_vars(RecoverySubmitted \/ RequestCloses \/ \E a \in Attempt : ClipIsPlanned(a))
  /\ <>[][~ Fault]_vars
===============================================================================
