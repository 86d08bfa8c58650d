SPECIFICATION FairSpec
CONSTANTS
  s1 = s1
  s2 = s2
  Scene = {s1, s2}
  MaxRequests = 2
  MaxVersions = 3
CHECK_DEADLOCK FALSE
PROPERTIES
  HoldEnds
  FailedRequestSettles
  MediaFailureResolves
  FailedJobCloses
  AssemblyEnds
