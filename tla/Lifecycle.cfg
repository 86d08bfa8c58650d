SPECIFICATION Spec
CONSTANTS
  s1 = s1
  s2 = s2
  Scene = {s1, s2}
  MaxRequests = 2
  MaxVersions = 3
SYMMETRY ScenePermutations
CHECK_DEADLOCK FALSE
INVARIANTS
  TypeOK
  UnitFollowsVideo
  ReturnedUnitMeansFailure
  HoldHasReason
  OneRevisionAtATime
  NothingDueIsRefused
  FailedVersionsStaySettled
  AssembledFromDeliveredScenes
  NothingInFlightBehindAVideo
PROPERTIES
  LegalTransitions
  CustomerKeepsVideo
  ArmedOnlyForLiveWork
  ImplementsContract
