\* The same with the guard as packaged: no User= and no HOME in its environment.
CONSTANTS
  Commands = {c1}
  Guard = Guard
  Timer = Timer
  mesa = mesa
  drv = drv
  Packages <- MCPackages
  Factory <- MCFactory
  Recommended <- MCRecommended
  Broken <- MCBroken
  Uses = {"apply"}
  Faults = {}
  GuardHome = FALSE
  Exclusive = FALSE
  MaxApplies = 1
  MaxBoots = 2
SPECIFICATION FairSpec
CHECK_DEADLOCK FALSE
PROPERTY GuardSettles
