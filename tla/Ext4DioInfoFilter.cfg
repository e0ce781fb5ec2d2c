SPECIFICATION Spec
CONSTANTS
  r1 = r1
  r2 = r2
  h1 = h1
  h2 = h2
  Iocbs = {i1}
  Dios = {d1, d2}
  NoDio = NoDio
  Requests = {r1, r2}
  Hctx <- MCHctx
  Drive <- MCDrive
  EventCacheMax = 2
  DioFilterMax = 2
  RqCacheMax = 2
  RingMax = 6
  UsingFilter = TRUE
  ScsiErrors = FALSE
  MaxTime = 3
INVARIANT NeverFatal
SYMMETRY AddressSymmetry
