SPECIFICATION Spec
CONSTANTS
  w1 = w1
  w2 = w2
  Worker = {w1, w2}
  Attempts = 2
  Job = {"first", "revised"}
  Revising = {"revised"}
  JobOf <- TwoJobs
  Limit = 1
  Budget = 1
  Stale = 1
  Window = 2
  Fates = {"ACCEPTED", "TERMINAL"}
  MaxCrashes = 1
SYMMETRY WorkerPermutations
INVARIANTS
  TypeOK
  BilledCallsFit
PROPERTIES
  PaidContract
  AnswerRefusedOnlyAsLate
