\* The panel, a second root shell, the guard and the session; systemctl may fail and a
\* crash may cut anything short and leave pacman locked, so that pacman -S fails too.
CONSTANTS
  Commands = {c1, c2}
  Guard = Guard
  Timer = Timer
  NoJob = NoJob
  Dialog = Dialog
  mesa = mesa
  drv = drv
  Packages <- MCPackages
  Factory <- MCFactory
  Recommended <- MCRecommended
  Broken = {}
  Uses = {"apply"}
  Faults = {"systemctl", "crash"}
  GuardHome = TRUE
  Exclusive = FALSE
  MaxApplies = 2
  MaxBoots = 2
SPECIFICATION PanelSpec
CHECK_DEADLOCK FALSE
INVARIANTS
  PanelHonest
  PanelWaitsForApply
PROPERTIES
  PanelAnswers
  GuardSettles
