SPECIFICATION Spec
CONSTANTS
  r1 = r1
  r2 = r2
  h1 = h1
  h2 = h2
  Iocbs = {i1}
  Dios = {d1, d2}
  NoDio = NoDio
  Requests = {r1, r2}
  Hctx <- MCHctx
  Drive <- MCDrive
  EventCacheMax = 1
  DioFilterMax = 1
  RqCacheMax = 1
  RingMax = 1
  UsingFilter = FALSE
  ScsiErrors = TRUE
  MaxTime = 3
INVARIANTS TypeOK JoinSound JoinComplete RowsComplete KeysLeakOnRefusal DisksAnnounced
SYMMETRY AddressSymmetry
