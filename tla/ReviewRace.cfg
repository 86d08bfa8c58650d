\* Two reviewers of one analysis, both of whom read it undecided.
SPECIFICATION Spec
CONSTANTS
  c1 = c1
  c2 = c2
  Caller = {c1, c2}
  Photo = {1}
  File = {"fine"}
  WrongType = {}
  Infected = {}
  WrongShape = {}
  MaxPhotos = 1
  Room = {6, 15}
  Unsafe = {15}
  Order = {9}
  MinScenes = 1
  Seconds = 5
  Shortest = 3
  Longest = 5
  MaxRevision = 2
CHECK_DEADLOCK FALSE
SYMMETRY CallerPermutations
PROPERTY
  DecisionIsImmutable
