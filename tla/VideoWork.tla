------------------------------- MODULE VideoWork -------------------------------
(***************************************************************************)
(* What happens to the job's first video once its plan is frozen: composed *)
(* into a Clean Master, disclosed, stored and recorded (Transactions J1    *)
(* and J2), then checked against its receipt and its plan, and shown       *)
(* (Transaction G).                                                        *)
(*                                                                         *)
(* A pass may be resumed by another worker at any point from what the      *)
(* bucket holds: a stored video, a stored master, or neither.              *)
(***************************************************************************)
EXTENDS MediaRecords

Composition == {"PROBE", "PROBE_MASTER", "FETCH", "COMPOSE", "STORE_MASTER",
                "DISCLOSE", "STORE_VIDEO"}

--------------------------------------------------------------------------------
(* Composition.                                                                 *)

\* claimCompositionWork: the first claim moves the job, a later one takes over a
\* row that is due.  deterministicRefusal looks at the plan alone.
ComposeClaim(w) ==
  /\ At(w, "IDLE")
  /\ plan # NoPlan
  /\ Claimable(composing)
  /\ job.state = IF composing = NoRow THEN "COMPOSITION_PENDING" ELSE "COMPOSING"
  /\ composing' = ClaimedBy(w)
  /\ job' = [job EXCEPT !.state = "COMPOSING"]
  /\ Goes(w, IF plan.executable THEN [at |-> "PROBE"]
             ELSE [at |-> "BLOCK", code |-> "PLAN_REFUSED"])
  /\ UNCHANGED <<stored, clipRows, request, plan, receipts, checking, shown>>

\* probeExistingOutput: a video an earlier pass stored is never made again.
ProbeVideo(w) ==
  /\ At(w, "PROBE")
  /\ Goes(w, [at |-> IF stored["video"] = Nothing THEN "FETCH" ELSE "PROBE_MASTER"])
  /\ UNCHANGED <<stored, clipRows, jobRows, videoRows>>

\* finalizeStored: no master under a stored video is CLEAN_MASTER_MISSING.
ProbeMaster(w) ==
  /\ At(w, "PROBE_MASTER")
  /\ IF stored["master"] = Nothing THEN Ends(w)
     ELSE Goes(w, [at |-> "FINALIZE", video |-> stored["video"], master |-> stored["master"]])
  /\ UNCHANGED <<stored, clipRows, jobRows, videoRows>>

FetchMaster(w) ==
  /\ At(w, "FETCH")
  /\ Goes(w, IF stored["master"] = Nothing THEN [at |-> "COMPOSE"]
             ELSE [at |-> "DISCLOSE", copy |-> stored["master"]])
  /\ UNCHANGED <<stored, clipRows, jobRows, videoRows>>

\* The composer encodes the clips of the plan, and no two encodes are alike.
composeCleanMaster(source) == {Bytes(source.take, take) : take \in MasterTake}

\* The Clean Master inspector reads one frame size and one rate, or calls it unusable.
inspect(master) == Playable(master)

\* The video is drawn on a master and on nothing else.
applyDisclosure(master) == {Bytes(master.take, take) : take \in VideoTake}

\* The sources are copied and measured against the plan, then encoded.
Compose(w) ==
  /\ At(w, "COMPOSE")
  /\ stored[plan.attempt] # Nothing
  /\ IF stored[plan.attempt] # plan.source
     THEN Goes(w, [at |-> "BLOCK", code |-> "SOURCE_INTEGRITY_MISMATCH"])
     ELSE \E bytes \in composeCleanMaster(plan.source) :
            Goes(w, [at |-> "STORE_MASTER", bytes |-> bytes])
  /\ UNCHANGED <<stored, clipRows, jobRows, videoRows>>

\* Mutated form of StoreMaster: the worker goes by the master it encoded, whatever
\* is stored.
StoreMasterKeepOwn(w) ==
  LET bytes == pass[w].bytes
  IN  /\ At(w, "STORE_MASTER")
      /\ IF bytes.take \in Huge
         THEN /\ UNCHANGED stored
              /\ Goes(w, [at |-> "BLOCK", code |-> "CLEAN_MASTER_SIZE_LIMIT_EXCEEDED"])
         ELSE /\ PutIfAbsent("master", bytes)
              /\ Goes(w, [at |-> "DISCLOSE", copy |-> bytes])
      /\ UNCHANGED <<clipRows, jobRows, videoRows>>

\* CleanMasterStore.publish: one already stored is used, whatever this encode
\* made; one too large is only fatal where there is none.
StoreMaster(w) ==
  LET bytes == pass[w].bytes
  IN  /\ At(w, "STORE_MASTER")
      /\ IF bytes.take \in Huge
         THEN /\ UNCHANGED stored
              /\ Goes(w, IF stored["master"] = Nothing
                         THEN [at |-> "BLOCK", code |-> "CLEAN_MASTER_SIZE_LIMIT_EXCEEDED"]
                         ELSE [at |-> "DISCLOSE", copy |-> stored["master"]])
         ELSE /\ PutIfAbsent("master", bytes)
              /\ Goes(w, [at |-> "DISCLOSE", copy |-> stored'["master"]])
      /\ UNCHANGED <<clipRows, jobRows, videoRows>>

\* deliverFrom: the stored copy is inspected, and the disclosure drawn on it.
Disclose(w) ==
  LET copy == pass[w].copy
  IN  /\ At(w, "DISCLOSE")
      /\ IF ~ inspect(copy)
         THEN Goes(w, [at |-> "BLOCK", code |-> "CLEAN_MASTER_UNUSABLE"])
         ELSE \E bytes \in applyDisclosure(copy) :
                Goes(w, [at |-> "STORE_VIDEO", copy |-> copy, bytes |-> bytes])
      /\ UNCHANGED <<stored, clipRows, jobRows, videoRows>>

\* publish: the receipt is of the object under the key, whoever put it there.
StoreVideo(w) ==
  LET p == pass[w]
  IN  /\ At(w, "STORE_VIDEO")
      /\ IF p.bytes.take \in Huge
         THEN UNCHANGED stored /\ Goes(w, [at |-> "BLOCK", code |-> "OUTPUT_SIZE_LIMIT_EXCEEDED"])
         ELSE /\ PutIfAbsent("video", p.bytes)
              /\ Goes(w, [at |-> "FINALIZE", video |-> stored'["video"], master |-> p.copy])
      /\ UNCHANGED <<clipRows, jobRows, videoRows>>

\* Storage, a source or the composer failed in a way that may pass.
DeferComposition(w) ==
  /\ pass[w].at \in Composition
  /\ composing' = Written(composing, w, Released)
  /\ Ends(w)
  /\ UNCHANGED <<stored, clipRows, jobRows, plan, receipts, checking, shown>>

\* finalizeComposition; a row already OUTPUT_VERIFIED is only compared with.
FinalizeComposition(w) ==
  LET p == pass[w]
  IN  /\ At(w, "FINALIZE")
      /\ IF HeldBy(composing, w) /\ job.state = "COMPOSING"
         THEN /\ composing' = Settled("OUTPUT_VERIFIED")
              /\ receipts' = [video |-> p.video, master |-> p.master]
              /\ job' = [job EXCEPT !.state = "DELIVERABLE_VALIDATING"]
         ELSE UNCHANGED <<composing, receipts, job>>
      /\ Ends(w)
      /\ UNCHANGED <<stored, clipRows, request, plan, checking, shown>>

\* Mutated form of BlockComposition: the block is recorded and the job is not
\* settled with it.
BlockCompositionOnly(w) ==
  /\ At(w, "BLOCK")
  /\ composing' = Written(composing, w, Settled("BLOCKED"))
  /\ Ends(w)
  /\ UNCHANGED <<stored, clipRows, jobRows, plan, receipts, checking, shown>>

\* blockComposition settles the job with the row.  A second block under another
\* code is refused as COMPOSITION_BLOCK_CONFLICT and writes nothing.
BlockComposition(w) ==
  /\ At(w, "BLOCK")
  /\ IF HeldBy(composing, w) /\ job.state = "COMPOSING"
     THEN composing' = Settled("BLOCKED") /\ JobFails("RELEASED")
     ELSE UNCHANGED <<composing, job>>
  /\ Ends(w)
  /\ UNCHANGED <<stored, clipRows, request, plan, receipts, checking, shown>>

--------------------------------------------------------------------------------
(* Validation and publication.                                                  *)

\* claimDeliverableValidation: a VALID row whose video is not shown yet is
\* published, not checked again.
CheckClaim(w) ==
  /\ At(w, "IDLE")
  /\ job.state = "DELIVERABLE_VALIDATING"
  /\ IF checking.status = "VALID"
     THEN UNCHANGED checking /\ Goes(w, [at |-> "SHOW"])
     ELSE /\ Claimable(checking)
          /\ checking' = ClaimedBy(w)
          /\ Goes(w, [at |-> "CHECK", expects |-> receipts.video])
  /\ UNCHANGED <<stored, clipRows, jobRows, plan, composing, receipts, shown>>

\* Validated like a clip; dimensions or a duration off the plan are invalid too.
Check(w) ==
  /\ At(w, "CHECK")
  /\ \E verdict \in {"RETRYABLE_FAILURE", Verdict(stored["video"], pass[w].expects)} :
       Goes(w, [at |-> "CHECKED", verdict |-> verdict])
  /\ UNCHANGED <<stored, clipRows, jobRows, videoRows>>

CheckHeld(w) == HeldBy(checking, w) /\ job.state = "DELIVERABLE_VALIDATING"

\* finalizeValid: a pass that lost its claim to one that found the same publishes.
FinalizeValid(w) ==
  /\ At(w, "CHECKED") /\ pass[w].verdict = "VALID"
  /\ checking' = IF CheckHeld(w) THEN Settled("VALID") ELSE checking
  /\ IF CheckHeld(w) \/ checking.status = "VALID" THEN Goes(w, [at |-> "SHOW"]) ELSE Ends(w)
  /\ UNCHANGED <<stored, clipRows, jobRows, plan, composing, receipts, shown>>

\* finalizeTerminalVerdict: the verdict and the failed job are one commit.
FinalizeInvalid(w) ==
  /\ At(w, "CHECKED") /\ pass[w].verdict \in BadVerdicts
  /\ IF CheckHeld(w)
     THEN checking' = Settled(pass[w].verdict) /\ JobFails("RELEASED")
     ELSE UNCHANGED <<checking, job>>
  /\ Ends(w)
  /\ UNCHANGED <<stored, clipRows, request, plan, composing, receipts, shown>>

DeferValidation(w) ==
  /\ At(w, "CHECKED") /\ pass[w].verdict = "RETRYABLE_FAILURE"
  /\ checking' = Written(checking, w, Released)
  /\ Ends(w)
  /\ UNCHANGED <<stored, clipRows, jobRows, plan, composing, receipts, shown>>

\* publishDeliverable, for whoever comes: the rows decide, not the claim.  A
\* Property deleted meanwhile ends the job without its video.
PublishDeliverable(w) ==
  /\ At(w, "SHOW")
  /\ IF job.state = "DELIVERABLE_VALIDATING" /\ checking.status = "VALID" /\ shown = Nothing
     THEN \/ /\ job' = [state |-> "DELIVERABLE_READY", unit |-> "CONSUMED"]
             /\ shown' = receipts.video
          \/ JobFails("RELEASED") /\ UNCHANGED shown
     ELSE UNCHANGED <<job, shown>>
  /\ Ends(w)
  /\ UNCHANGED <<stored, clipRows, request, plan, composing, receipts, checking>>
===============================================================================
