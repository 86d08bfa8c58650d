---------------------------- MODULE MediaProperties ----------------------------
(* What must hold of the media workers, however their passes interleave, end  *)
(* and start again.                                                           *)
EXTENDS MediaPipeline

FinalVerdict(row) == IF row.status \in Verdicts THEN row.status ELSE "NONE"

\* The contract sees the receipts and verdicts of the four kinds of row as one.
Contract ==
  INSTANCE MediaContract WITH
    receipt <- [key \in Object |->
                  CASE key = "master" -> receipts.master
                    [] key = "video"  -> receipts.video
                    [] OTHER          -> attempt[key].receipt],
    verdict <- [key \in Attempt \cup {"video"} |->
                  FinalVerdict(IF key = "video" THEN checking ELSE judging[key])]

\* The workers implement MediaContract: two transfers of one output, two encodes
\* of one master, a lost answer, a lost lease or a crash never leave a record of
\* bytes that are not the stored ones, a second verdict, or a video whose Clean
\* Master is not the recorded one.
MediaKeepsItsContract == Contract!ContractSpec

--------------------------------------------------------------------------------
(* What makes a transaction throw, or a pass end the work as one whose bytes are  *)
(* not what was recorded; p is the memory of a pass.                              *)

\* A clip verified already, and not by the bytes this pass brings.
ConflictingOutput(p) ==
  /\ p.at = "VERIFY" /\ attempt[p.on].state = "OUTPUT_VERIFIED"
  /\ attempt[p.on].receipt # p.receipt

\* A composition finalized already, with other receipts.
OutputReceiptConflict(p) ==
  /\ p.at = "FINALIZE" /\ composing.status = "OUTPUT_VERIFIED"
  /\ receipts # [video |-> p.video, master |-> p.master]

CleanMasterMissing(p) == p.at = "PROBE_MASTER" /\ stored["master"] = Nothing

\* The bytes this pass judges are not those the composition recorded.
ValidationReceiptConflict(p) == p.at = "CHECK" /\ p.expects # receipts.video

\* One video judged twice, and not alike.
ValidationVerdictConflict(p) ==
  /\ p.at = "CHECKED" /\ p.verdict \in Verdicts /\ checking.status \in Verdicts
  /\ checking.status # p.verdict

\* A video to be judged whose composition never verified it, or without its receipts.
CompositionNotProven ==
  /\ job.state = "DELIVERABLE_VALIDATING"
  /\ \/ composing.status # "OUTPUT_VERIFIED"
     \/ receipts.video = Nothing \/ receipts.master = Nothing

\* The rows the plan names no longer say what it froze.
PlanSourceDisagreement ==
  /\ plan # NoPlan
  /\ \/ attempt[plan.attempt].receipt # plan.source
     \/ judging[plan.attempt].status # "VALID"

SourceIntegrityMismatch == plan # NoPlan /\ stored[plan.attempt] # plan.source

\* No worker, at any phase of any pass, however old, can meet rows or objects that
\* make its next transaction throw: CONFLICTING_OUTPUT at the second recording of a
\* clip, OUTPUT_RECEIPT_CONFLICT and CLEAN_MASTER_RECEIPT_CONFLICT at that of a
\* video, CLEAN_MASTER_MISSING under a stored video, VALIDATION_RECEIPT_CONFLICT and
\* VALIDATION_VERDICT_CONFLICT at its judgement, COMPOSITION_NOT_VERIFIED and
\* CLEAN_MASTER_NOT_RECORDED before it, PLAN_SOURCE_DISAGREEMENT at the claim of a
\* plan and SOURCE_INTEGRITY_MISMATCH at its sources.
NothingContradicts ==
  /\ \A w \in Worker :
       /\ ~ ConflictingOutput(pass[w])
       /\ ~ OutputReceiptConflict(pass[w])
       /\ ~ CleanMasterMissing(pass[w])
       /\ ~ ValidationReceiptConflict(pass[w])
       /\ ~ ValidationVerdictConflict(pass[w])
  /\ ~ CompositionNotProven
  /\ ~ PlanSourceDisagreement
  /\ ~ SourceIntegrityMismatch

\* A bad verdict that was resolved had its consequence: the recovery it claims
\* exists, the failure it claims is settled with the job and the Unit, and one
\* set aside belongs to a request that is over.  A recovery is only ever made
\* of a first attempt judged bad.
VerdictsAreActedOn ==
  \A a \in Attempt :
    /\ resolving[a].status = "RECOVERY_ADMITTED" => a = "first" /\ HasRecovery
    /\ resolving[a].status = "OBSOLETE" => request # "GENERATING"
    /\ resolving[a].status = "INITIAL_FAILURE_SETTLED" =>
         /\ a = "recovery" /\ request = "FAILED_TERMINAL"
         /\ job = [state |-> "FAILED_TERMINAL", unit |-> "RELEASED"]
    /\ resolving[a].status # "NONE" => judging[a].status \in BadVerdicts
    /\ HasRecovery => judging["first"].status \in BadVerdicts

\* A worker whose lease has run out never writes over its successor: a row under
\* a lease that still runs changes by its holder's own step, or by the clock.
LeaseIsRespected ==
  [][\A k \in DOMAIN WorkRows :
       LET row == WorkRows[k] IN
       Running(row) /\ WorkRows'[k] # row =>
         WorkRows'[k] = TimedOut(row) \/ pass'[row.holder] # pass[row.holder]]_vars

\* Under FairSpec a job is decided, whatever crashed, expired or was refused on
\* the way: shown or failed, or its clip's newest attempt has failed and waits for
\* Transaction K.  No verdict, claim or half-made object is left that no sweep
\* takes up again.
JobIsDecided ==
  <>(\/ job.state \in {"DELIVERABLE_READY", "FAILED_TERMINAL"}
     \/ \E a \in Attempt :
          Newest(a) /\ attempt[a].state \in {"FAILED_RETRYABLE", "FAILED_TERMINAL"})
===============================================================================
