SPECIFICATION Spec
CONSTANTS
  Arn = {1, 2, 3, 4, 5, 6}
  StoreKinds = {"memory", "sqlite"}
  ConfiguredSizes <- Sizes
  DefaultSize = 3
  NoToken = NoToken
  BadToken = BadToken
  MaxInserted = 2
  MaxDeleted = 2
INVARIANT ShiftsBounded
