\* The assistant and the shortcuts in one shell that crashes and restarts.
CONSTANTS
  MaxMessages = 2
  MaxCommands = 2
SPECIFICATION ShellSpec
CHECK_DEADLOCK FALSE
INVARIANTS
  TypeOK
  SavedOnlyWithConsent
  WipedStaysWiped
  RepliesBelong
  SavedIsPrefix
  ShortcutsOnceInOrder
  NoShortcutMissed
  BusyWithLatest
PROPERTIES
  AnswersEnd
  LatestShortcutArrives
