SPECIFICATION Spec
CONSTANTS
  Size = 5
  Rates = {0, 1, 2}
  Policies <- MCPolicies
  MaxTime = 7
  MaxMissed = 1
  MaxRestarts = 1
  MaxActivations = 2
CHECK_DEADLOCK FALSE
INVARIANTS TypeOK CrawlIsCaught
PROPERTIES StallIsStall StalledIsCaught FastIsKept NudgesSpaced
