SPECIFICATION Spec
CONSTANTS
  r1 = r1
  r2 = r2
  r3 = r3
  Bios = {b1, b2}
  Requests = {r1, r2, r3}
  Elevator <- MCElevator
  Drive <- MCDrive
  BioPassMax = 1
  RqCacheMax = 1
  RingMax = 1
  UsingFilter = FALSE
  DriverBusy = TRUE
  Splits = TRUE
  MaxTime = 6
INVARIANTS TypeOK CacheFresh ReportedOnce
