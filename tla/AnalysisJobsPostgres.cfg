\* Two containers on one PostgreSQL database, with stale jobs, exhausted lock retries
\* and uploads deleted while they are analysed.
SPECIFICATION Spec
CONSTANTS
  Run = {r1, r2}
  Media = {m1}
  Boot = {b1, b2}
  Host = {h1, h2}
  Pid = {p1}
  NoRun = NoRun
  NoMedia = NoMedia
  NoBoot = NoBoot
  NoPlace = NoPlace
  Warmup = Warmup
  Threads = 2
  Workers = 2
  SerialWrites = FALSE
  ReusePids = FALSE
  JobsAge = TRUE
  Contention = TRUE
  UploadDeletes = TRUE
SYMMETRY Symmetry
INVARIANTS
  LiveRowsAreOwned
  OneInferencePerProcess
PROPERTIES
  OnlyStaleForeignWorkIsTaken
CHECK_DEADLOCK FALSE
