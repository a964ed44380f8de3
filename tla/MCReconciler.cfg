SPECIFICATION Spec
CONSTANTS
  Hashes = {h1,h2}
  NoHash = NoHash
  MaxRows = 2
  MaxTb = 2
  AccountSlots = 1
  Refusable = {h1,h2}
  MaxAdds = 2
  Foreign = {}
  MaxSlots = 1
  ArrConfigured = TRUE
  ListGaps = FALSE
  MaxCrashes = 1
CHECK_DEADLOCK FALSE
SYMMETRY Symmetry
INVARIANT TypeOK RefIsOwnRelease
PROPERTY FollowsLifecycle
