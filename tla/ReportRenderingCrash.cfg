\* Three calls and crashes: the lock is always handed on.
SPECIFICATION FairSpec
CONSTANTS
  Call = {c1, c2, c3}
  Proc = {p1}
  NoCall = NoCall
  NoProc = NoProc
  NoReport = NoReport
  Crashes = TRUE
  Deletes = FALSE
  Contention = FALSE
PROPERTIES
  EveryCallEnds
CHECK_DEADLOCK FALSE
