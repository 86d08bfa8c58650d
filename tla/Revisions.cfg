SPECIFICATION Spec
CONSTANTS
  s1 = s1
  Scene = {s1}
  MaxRequests = 4
  MaxVersions = 4
CHECK_DEADLOCK FALSE
INVARIANTS
  RevisionsStayPossible
