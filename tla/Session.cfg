SPECIFICATION FairSpec
CONSTANTS
  f1 = f1
  f2 = f2
  missing = missing
  Cpus = {c1, c2}
  NoCpu = NoCpu
  Configs <- MCConfigs
  Files = {f1, f2, missing}
  Inode <- MCInode
  Ios <- MCIos
  Calls <- MCCalls
  Uids = {1, 2}
  RingMax = 2
  MaxRecords <- MCRecords
  MaxTime <- MCTime
  SeriesSize = 2
  WordSize = 1024
  IntSize = 64
  NsPerMs = 1
  Buckets = 2
  HeatBias = 1
INVARIANTS TypeOK AnalysisDefined SeriesValid SeriesCountIos DistributionComplete RatesAreShares JoinIsRelational OpsCountEveryIo HeatmapComplete
PROPERTY FinishesAfterSigint
