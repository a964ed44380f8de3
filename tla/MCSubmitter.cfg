SPECIFICATION FairSpec
CONSTANTS
  Hashes = {h1, h2}
  NoHash = NoHash
  MaxRows = 2
  MaxTb = 2
  AccountSlots = 1
  Refusable = {h2}
  MaxAdds = 2
  Foreign = {}
  MaxSlots = 1
  Nameless = {h2}
  StoreMayFail = TRUE
  MaxCrashes = 1
CHECK_DEADLOCK FALSE
INVARIANT TypeOK SlotBound Budget RefIsOwnRelease
PROPERTY OnlyVerdictsFail FollowsLifecycle QueueDrains
