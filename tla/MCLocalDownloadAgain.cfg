SPECIFICATION Spec
CONSTANTS
  h1 = h1
  h2 = h2
  h3 = h3
  Hashes = {h1}
  NoHash = NoHash
  MaxRows = 1
  MaxTb = 1
  Tops <- MCTops
  ParallelTorrents = 1
  MaxAdds = 1
  MaxLocalAttempts = 2
  Deletable = {}
  Workers = {w1}
  MaxCrashes = 0
CHECK_DEADLOCK FALSE
INVARIANT CompleteHasContent
