SPECIFICATION Spec
CONSTANTS
  Iocbs = {i1, i2}
  EventCacheMax = 2
  RingMax = 2
  QuantileFilter = FALSE
  WordSize = 32
  OtherMax = 1
  MaxTime = 7
INVARIANT SeriesInOrder
SYMMETRY IocbSymmetry
