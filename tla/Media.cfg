SPECIFICATION FairSpec
CONSTANTS
  w1 = w1
  w2 = w2
  Worker = {w1, w2}
  ClipTake = {"good clip", "bad clip"}
  MasterTake = {"good master", "unusable master", "huge master"}
  VideoTake = {"good video", "off-plan video", "huge video"}
  Sound = {"good clip", "good master", "good video"}
  Huge = {"huge master", "huge video"}
CHECK_DEADLOCK FALSE
INVARIANTS
  NothingContradicts
  VerdictsAreActedOn
PROPERTIES
  MediaKeepsItsContract
  LeaseIsRespected
  JobIsDecided
