SPECIFICATION Spec
CONSTANTS
  h1 = h1
  h2 = h2
  h3 = h3
  Hashes = {h2}
  NoHash = NoHash
  MaxRows = 2
  MaxTb = 2
  Tops <- MCTops
  ParallelTorrents = 2
  MaxAdds = 2
  MaxLocalAttempts = 2
  Deletable = {h2}
  Workers = {w1, w2}
  MaxCrashes = 1
CHECK_DEADLOCK FALSE
INVARIANTS TypeOK Exclusive
PROPERTIES CompletedInPlace CompleteIsFinal
