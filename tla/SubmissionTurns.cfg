SPECIFICATION FairSpec
CONSTANTS
  w1 = w1
  Worker = {w1}
  Attempts = 2
  Job = {"first", "revised"}
  Revising = {"revised"}
  JobOf <- TwoJobs
  Limit = 1
  Budget = 2
  Stale = 1
  Window = 2
  Fates = {"RETRYABLE", "LOST"}
  MaxCrashes = 1
PROPERTIES
  EveryAttemptGetsATurn
  UncertaintyEnds
