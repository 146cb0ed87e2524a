\* One command at a time, with crashes and every fault: the promise of DriverSwitch.
CONSTANTS
  Commands = {c1}
  Guard = Guard
  Timer = Timer
  mesa = mesa
  drv = drv
  Packages <- MCPackages
  Factory <- MCFactory
  Recommended <- MCRecommended
  Broken = {}
  Uses = {"apply", "confirm", "rollback"}
  Faults = {"query", "install", "remove", "mkinitcpio", "systemctl", "crash", "timeout"}
  GuardHome = TRUE
  Exclusive = TRUE
  MaxApplies = 3
  MaxBoots = 2
SPECIFICATION Spec
CHECK_DEADLOCK FALSE
PROPERTY KeepsPromise
