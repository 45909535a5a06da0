\* One host on SQLite: two gunicorn workers and the replacement of one of them.
SPECIFICATION Spec
CONSTANTS
  Run = {r1, r2}
  Media = {m1}
  Boot = {b1, b2, b3}
  Host = {h1}
  Pid = {p1, p2, p3}
  NoRun = NoRun
  NoMedia = NoMedia
  NoBoot = NoBoot
  NoPlace = NoPlace
  Warmup = Warmup
  Threads = 1
  Workers = 2
  SerialWrites = TRUE
  ReusePids = FALSE
  JobsAge = FALSE
  Contention = FALSE
  UploadDeletes = FALSE
SYMMETRY Symmetry
INVARIANTS
  TypeOK
  OneRunPerUpload
  LiveWorkKeepsItsRow
  NoRowIsLeftHanging
  SweepLeavesNoOrphan
PROPERTIES
  NoResurrection
  ImplementsLifecycle
CHECK_DEADLOCK FALSE
