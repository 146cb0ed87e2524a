\* Two root shells, the guard and the session, with crashes and every fault.
CONSTANTS
  Commands = {c1, c2}
  Guard = Guard
  Timer = Timer
  mesa = mesa
  drv = drv
  Packages <- MCPackages
  Factory <- MCFactory
  Recommended <- MCRecommended
  Broken = {}
  Uses = {"apply", "confirm", "rollback"}
  Faults = {"query", "install", "remove", "mkinitcpio", "systemctl", "crash", "timeout"}
  GuardHome = TRUE
  Exclusive = FALSE
  MaxApplies = 2
  MaxBoots = 2
SPECIFICATION Spec
CONSTRAINT WhileClean
SYMMETRY CommandSymmetry
CHECK_DEADLOCK FALSE
INVARIANTS
  TypeOK
  SwitchIsTracked
  FreshSwitchNotConfirmed
  BaselineKept
  GuardArmed
