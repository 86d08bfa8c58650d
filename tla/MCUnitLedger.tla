----------------------------- MODULE MCUnitLedger -----------------------------
(* A plan whose pools are smaller than two videos need, and a calendar whose *)
(* second month is too short for the day the contract began on: the clock    *)
(* runs over the last day of its second period and the first of its third.   *)
EXTENDS UnitLedgerProperties, TLC

Calendar == <<0, 2, 3, 5, 7>>

Catalog ==
  [premium |-> [baseUnits |-> 2, includedHighQualityUnits |-> 1, concurrentJobs |-> 1,
                normalPackage |-> 1, highQualityPackage |-> 1]]

Contracts == {[planKey |-> "premium", channel |-> "SALES_ASSISTED", anchorAt |-> 1]}

OneProperty == [p \in Project |-> 1]

Storyboards ==
  [p \in Project |-> IF p = "flat" THEN [quality |-> "HIGH_QUALITY", seconds |-> 60]
                                   ELSE [quality |-> "NORMAL", seconds |-> 31]]

\* Only the flat can be started a second time, once its first job has failed.
RestartsOfTheFlat ==
  [p \in Project |-> IF p = "flat" THEN Key ELSE {CHOOSE k \in Key : TRUE}]

Interchangeable == Permutations(Client)
===============================================================================
