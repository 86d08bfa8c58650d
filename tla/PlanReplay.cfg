SPECIFICATION Spec
CONSTANTS
  s1 = s1
  Scene = {s1}
  MaxRequests = 3
  MaxVersions = 3
CHECK_DEADLOCK FALSE
INVARIANT PendingPlanIsFound
