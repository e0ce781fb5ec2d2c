SPECIFICATION SpecAll
CONSTANTS
  r1 = r1
  r2 = r2
  r3 = r3
  Bios = {b1}
  Requests = {r1, r2, r3}
  Elevator <- MCElevator
  Drive <- MCDrive
  BioPassMax = 1
  RqCacheMax = 3
  RingMax = 2
  UsingFilter = FALSE
  DriverBusy = TRUE
  Splits = FALSE
  MaxTime = 11
  WordSize = 64
  Garbage <- MCGarbage
INVARIANTS OneLife TimelineOrdered NoBlindSpot EveryIoAccounted RowTelescopes OneRowPerLife
PROPERTY IoReportsSpec
