\* A process dies between the admission's commit and the enqueue.
SPECIFICATION Spec
CONSTANTS
  Run = {r1}
  Media = {m1}
  Boot = {b1, b2}
  Host = {h1}
  Pid = {p1, p2}
  NoRun = NoRun
  NoMedia = NoMedia
  NoBoot = NoBoot
  NoPlace = NoPlace
  Warmup = Warmup
  Threads = 2
  Workers = 2
  SerialWrites = TRUE
  ReusePids = FALSE
  JobsAge = FALSE
  Contention = FALSE
  UploadDeletes = FALSE
INVARIANTS
  SweepUnblocksUploads
CHECK_DEADLOCK FALSE
