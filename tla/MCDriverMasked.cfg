\* One driver-apply whose pacman call fails.
CONSTANTS
  Commands = {c1}
  Guard = Guard
  Timer = Timer
  mesa = mesa
  drv = drv
  Packages <- MCPackages
  Factory <- MCFactory
  Recommended <- MCRecommended
  Broken = {}
  Uses = {"apply"}
  Faults = {"install"}
  GuardHome = TRUE
  Exclusive = FALSE
  MaxApplies = 1
  MaxBoots = 2
SPECIFICATION Spec
CHECK_DEADLOCK FALSE
PROPERTY StagedMeansInstalled
