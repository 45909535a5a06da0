\* Three requests of any kind over one account, with faults between statements.
SPECIFICATION Spec
CONSTANTS
  Requests = {c1, c2, c3}
  Second = 2
  Leeway = 2
  LinkLife = 4
  MaxTime = 4
SYMMETRY Symmetry
INVARIANTS
  TypeOK
  OneLiveLink
  SessionsEndWithTheReset
  AccessFollowsThePassword
CHECK_DEADLOCK FALSE
