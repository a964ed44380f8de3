SPECIFICATION FairSpec
CONSTANTS
  known = known
  other = other
  unknown = unknown
  Files = {known, other, unknown}
  Size <- MCSize
  Longest = 2
  Parallel = 2
  MaxLinkRetries = 1
  IdleWatchdog = TRUE
CHECK_DEADLOCK FALSE
INVARIANT TypeOK DoneIsWhole CountsWhatIsThere
PROPERTY DownloadReturns
