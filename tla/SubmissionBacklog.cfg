SPECIFICATION Spec
CONSTANTS
  w1 = w1
  Worker = {w1}
  Attempts = 3
  Job = {"first"}
  Revising = {}
  JobOf <- OneJob
  Limit = 2
  Budget = 3
  Stale = 1
  Window = 2
  Fates = {"RETRYABLE"}
  MaxCrashes = 0
PROPERTY
  NoCallIntoUncertainty
