SPECIFICATION PushFairSpec
CONSTANTS
  N = 2
  Records = {r1, r2}
  Reliable = {2}
  Interval = 2
  Grace = 3
  Refresh = 2
  MaxFailures = 2
  MaxCrashes = 1
CHECK_DEADLOCK FALSE
INVARIANT PushTypeOK
PROPERTIES GivenUpIsUntracked TrackedIsSettled UntrackedIsGivenUp
