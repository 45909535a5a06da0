\* Two runs of an upload under fairness: whatever crashes, every job ends.
SPECIFICATION FairSpec
CONSTANTS
  Run = {r1, r2}
  Media = {m1}
  Boot = {b1, b2}
  Host = {h1}
  Pid = {p1, p2}
  NoRun = NoRun
  NoMedia = NoMedia
  NoBoot = NoBoot
  NoPlace = NoPlace
  Warmup = Warmup
  Threads = 1
  Workers = 2
  SerialWrites = TRUE
  ReusePids = FALSE
  JobsAge = FALSE
  Contention = FALSE
  UploadDeletes = FALSE
PROPERTIES
  EveryJobEnds
CHECK_DEADLOCK FALSE
