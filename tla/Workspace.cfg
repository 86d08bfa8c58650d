SPECIFICATION Spec
CONSTANTS
  c1 = c1
  c2 = c2
  Caller = {c1, c2}
  Photo = {1, 2}
  File = {"fine", "long", "infected", "tiny"}
  WrongType = {"long"}
  Infected = {"infected"}
  WrongShape = {"tiny"}
  MaxPhotos = 2
  Room = {3, 6, 15}
  Unsafe = {15}
  Order = {9}
  MinScenes = 2
  Seconds = 9
  Shortest = 3
  Longest = 5
  MaxRevision = 2
CHECK_DEADLOCK FALSE
SYMMETRY CallerPermutations
ACTION_CONSTRAINTS
  SecondIsReviewed
  TwoRoomsEach
INVARIANTS
  RejectionTakesThePhotoOut
  FreshStoryboardIsCurrent
PROPERTY
  PhotosKeepTheirContract
