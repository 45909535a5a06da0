\* Three requests with the same bytes, deletes of what they stored, crashes.
SPECIFICATION Spec
CONSTANTS
  Upload = {u1, u2, u3}
  NoMedia = NoMedia
  Crashes = TRUE
SYMMETRY Symmetry
INVARIANTS
  TypeOK
  RowsHaveTheirBytes
  NoStrayFile
  NoUnprobedRow
  NoSecondCopy
CHECK_DEADLOCK FALSE
