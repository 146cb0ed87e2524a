\* One user who backs up once and rolls back twice.
CONSTANTS
  Procs = {p1}
  MaxEdits = 1
  MaxStamp = 3
  Aborts = FALSE
  None = None
  Empty = Empty
  Partial = Partial
SPECIFICATION Spec
CHECK_DEADLOCK FALSE
PROPERTY RestoresUsersBackup
