SPECIFICATION FairSpec
CONSTANTS
  h1 = h1
  h2 = h2
  h3 = h3
  Hashes = {h1, h3}
  NoHash = NoHash
  MaxRows = 2
  MaxTb = 2
  Tops <- MCTops
  ParallelTorrents = 1
  MaxAdds = 2
  MaxLocalAttempts = 2
  Deletable = {}
  Workers = {w1}
  MaxCrashes = 0
CHECK_DEADLOCK FALSE
PROPERTY DownloadsEnd
