\* Two commands at a time, an editing user and three seconds, one of them shared.
CONSTANTS
  Procs = {p1, p2}
  MaxEdits = 1
  MaxStamp = 3
  Aborts = TRUE
  None = None
  Empty = Empty
  Partial = Partial
SPECIFICATION Spec
CONSTRAINT FewShared
SYMMETRY ProcSymmetry
CHECK_DEADLOCK FALSE
INVARIANT TypeOK
PROPERTIES
  NothingLost
  RollbackRestores
