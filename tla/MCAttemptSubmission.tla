-------------------------- MODULE MCAttemptSubmission --------------------------
(* The jobs of the small instances: two calls of one first video, or a third  *)
(* call that revises another one.                                             *)
EXTENDS SubmissionProperties, TLC

OneJob == [a \in Attempt |-> "first"]
TwoJobs == [a \in Attempt |-> IF a = Attempts THEN "revised" ELSE "first"]

WorkerPermutations == Permutations(Worker)
================================================================================
