SPECIFICATION Spec
CONSTANTS
  Iocbs = {i1, i2}
  EventCacheMax = 1
  RingMax = 1
  QuantileFilter = TRUE
  WordSize = 32
  OtherMax = 1
  MaxTime = 6
INVARIANTS TypeOK RecordOfItsCall StagesBounded RowsAligned
SYMMETRY IocbSymmetry
