SPECIFICATION DGFairSpec
CONSTANTS
  t1 = t1
  t2 = t2
  t3 = t3
  Torrents = {t1, t2, t3}
  NoTorrent = NoTorrent
  SizeOf <- MCSizeOf
  Capacity = 4
  MinFreeSpace = 1
  ParallelTorrents = 2
  MayNotMeasure = TRUE
  MaxFaults = 1
CHECK_DEADLOCK FALSE
INVARIANTS DGTypeOK RunningFits
PROPERTY GateOpens
