\* Two operations beside each other and beside other programs, on two devices.
CONSTANTS
  home = home
  usb = usb
  a = a
  b = b
  c1 = c1
  c2 = c2
  c3 = c3
  Paths <- MCPaths
  Contents = {c1, c2, c3}
  Tree <- MCTree
  Searched <- MCSearched
  Dir = Dir
  Nothing = Nothing
  QueueSize = 1
  MaxOps = 2
  MaxEdits = 1
  MaxSources = 1
SPECIFICATION Spec
CHECK_DEADLOCK FALSE
INVARIANTS
  TypeOK
  IndexComplete
PROPERTIES
  FilesKept
  NeverOverwrites
  EveryOperationReported
