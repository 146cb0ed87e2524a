--------------------------- MODULE MCDriverWizard ---------------------------
(* Instances of DriverWizard for TLC: one package (mesa) is already there  *)
(* and one (drv) is new, so a rollback must tell them apart.               *)
EXTENDS DriverWizard, TLC

CONSTANTS mesa, drv

MCPackages    == {mesa, drv}
MCFactory     == {mesa}
MCRecommended == {mesa, drv}
MCBroken      == {drv}
CommandSymmetry == Permutations(Commands)

\* The safety invariants speak of clean histories: do not explore past the first other one.
WhileClean == clean
=============================================================================
