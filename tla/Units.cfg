SPECIFICATION Spec
CONSTANTS
  c1 = c1
  c2 = c2
  Client = {c1, c2}
  Project = {"flat", "house"}
  Property = {1}
  k1 = k1
  k2 = k2
  Key = {k1, k2}
  KeysOf <- RestartsOfTheFlat
  PurchaseKey = {"order"}
  PropertyOf <- OneProperty
  OrderOf <- Storyboards
  Wanted = {"HIGH_QUALITY"}
  Offer <- Contracts
  MonthStart <- Calendar
  Plan <- Catalog
  RefundWindow = 0
  Jobs = 2
  Purchases = 1
  FirstDay = 3
  LastDay = 4
SYMMETRY Interchangeable
CHECK_DEADLOCK FALSE
INVARIANTS
  NoUnitSpentTwice
  OneHoldingJobPerProject
  PlacesWithinLimit
  NoCircularWait
  RenewalFindsItsPeriod
PROPERTIES
  AccountContract
