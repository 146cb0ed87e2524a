\* A user who logs in twice in one boot, with a switch applied in between.
CONSTANTS
  Commands = {c1}
  Guard = Guard
  Timer = Timer
  mesa = mesa
  drv = drv
  Packages <- MCPackages
  Factory <- MCFactory
  Recommended <- MCRecommended
  Broken = {}
  Uses = {"apply"}
  Faults = {}
  GuardHome = TRUE
  Exclusive = FALSE
  MaxApplies = 1
  MaxBoots = 2
SPECIFICATION Spec
CHECK_DEADLOCK FALSE
PROPERTY ConfirmedByLaterBoot
