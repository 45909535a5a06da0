\* The hook and two POSTs in two processes, with a delete of the analysis and errors.
SPECIFICATION Spec
CONSTANTS
  Call = {c1, c2, c3}
  Proc = {p1, p2}
  NoCall = NoCall
  NoProc = NoProc
  NoReport = NoReport
  Crashes = FALSE
  Deletes = TRUE
  Contention = TRUE
SYMMETRY Symmetry
VIEW View
INVARIANTS
  TypeOK
  OneRenderPerProcess
  RowHasItsFile
  SettledReportIsTrue
  GeneratingIsNotAbandoned
  ReadyMeansAReport
CHECK_DEADLOCK FALSE
