---------------------------- MODULE DriverSwitch ----------------------------
(***************************************************************************)
(* What the Driver Wizard promises (docs/gpu-driver-manager.md, "Rollback  *)
(* Model"): a switch is staged over a baseline, of which it records what   *)
(* the package query answers, and it leaves that state in one of two ways, *)
(* confirmed with everything it installed, or rolled back to what was      *)
(* recorded, which is the baseline when the record is whole.  A switch     *)
(* begun on top of another one is promised nothing, `void`; one begun      *)
(* afresh after it is again.                                               *)
(***************************************************************************)
CONSTANTS Packages, Factory, Recommended

VARIABLES
  phase,       \* of the latest switch, among Phases
  installed,   \* the packages of the machine
  base,        \* those installed when the switch began
  kept         \* those of them it recorded, to be kept by a rollback

vars == <<phase, installed, base, kept>>

Phases == {"settled", "staged", "confirmed", "void"}

Init ==
  /\ phase = "settled"
  /\ installed = Factory /\ base = Factory /\ kept = Factory

\* Between two switches everything there is is baseline, and recorded.
Settle == phase' = "settled" /\ base' = installed /\ kept' = installed

Stage ==
  /\ phase = "settled" /\ phase' = "staged"
  /\ base' = installed
  /\ kept' \in SUBSET installed
  /\ UNCHANGED installed

\* Packages of the switch come in, also after an early confirmation.
Install ==
  /\ phase \in {"staged", "confirmed"}
  /\ installed \subseteq installed'
  /\ installed' \subseteq installed \cup Recommended
  /\ UNCHANGED <<phase, base, kept>>

\* Only a switch nobody confirmed loses packages: those of its target it has not recorded.
Remove ==
  /\ phase = "staged"
  /\ installed' \subseteq installed
  /\ installed \ installed' \subseteq Recommended \ kept
  /\ UNCHANGED <<phase, base, kept>>

Confirm ==
  /\ phase = "staged" /\ phase' = "confirmed"
  /\ UNCHANGED <<installed, base, kept>>

Keep == phase = "confirmed" /\ Settle /\ UNCHANGED installed

\* A whole record (kept = base) makes this the baseline again.
RolledBack ==
  /\ phase = "staged"
  /\ installed = base \ (Recommended \ kept)
  /\ Settle /\ UNCHANGED installed

Void ==
  /\ phase' = "void"
  /\ installed' \subseteq Packages /\ base' \subseteq Packages /\ kept' \subseteq Packages

\* A switch is begun when none is pending: what is installed is its baseline.
Restart == phase = "void" /\ Settle /\ UNCHANGED installed

Next ==
  \/ Stage \/ Install \/ Remove \/ Confirm \/ Keep \/ RolledBack
  \/ Void \/ Restart

Spec == Init /\ [][Next]_vars
=============================================================================
