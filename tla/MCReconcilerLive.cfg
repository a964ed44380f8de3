SPECIFICATION LiveSpec
CONSTANTS
  Hashes = {h1}
  NoHash = NoHash
  MaxRows = 1
  MaxTb = 2
  AccountSlots = 1
  Refusable = {}
  MaxAdds = 2
  Foreign = {}
  MaxSlots = 1
  ArrConfigured = TRUE
  ListGaps = TRUE
  MaxCrashes = 0
CHECK_DEADLOCK FALSE
PROPERTY LeftoversReaped FailuresPushed SlotsReleased
