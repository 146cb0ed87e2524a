----------------------------- MODULE DiskInstall -----------------------------
(***************************************************************************)
(* What installing to a disk promises (docs/building.md, the path "Install *)
(* uNexus OS to disk"): a disk stays as it is until an install on it was   *)
(* asked for and is running; an install on another disk writes to it only  *)
(* if an earlier one left it mounted and a signal leads this one astray;   *)
(* and success is told of the disk that was asked for, once it is          *)
(* installed.                                                              *)
(***************************************************************************)
CONSTANTS Disks, NoDisk

VARIABLES
  asked,     \* the disks an install was asked for
  current,   \* the one being installed
  state,     \* state[d], among "untouched", "partial", "installed" and "altered"
  left,      \* disks that installs have left mounted
  astray,    \* a signal took the current disk away from under its install
  told       \* the disk success is told of

vars == <<asked, current, state, left, astray, told>>

Init ==
  /\ asked = {}
  /\ current = NoDisk
  /\ state = [d \in Disks |-> "untouched"]
  /\ left = {} /\ astray = FALSE
  /\ told = NoDisk

\* What an install may write to besides its own disk.
Reached == IF astray THEN left \ {current} ELSE {}

Alters(disks) ==
  /\ disks \subseteq Reached
  /\ state' = [d \in Disks |-> IF d \in disks THEN "altered" ELSE state[d]]

Ask(d) ==
  /\ asked' = asked \cup {d}
  /\ UNCHANGED <<current, state, left, astray, told>>

Begin(d) ==
  /\ d \in asked /\ current = NoDisk /\ told = NoDisk
  /\ current' = d
  /\ UNCHANGED <<asked, state, left, astray, told>>

Erase ==
  /\ current # NoDisk
  /\ state' = [state EXCEPT ![current] = "partial"]
  /\ UNCHANGED <<asked, current, left, astray, told>>

Complete ==
  /\ current # NoDisk /\ ~astray /\ state[current] = "partial"
  /\ state' = [state EXCEPT ![current] = "installed"]
  /\ UNCHANGED <<asked, current, left, astray, told>>

Alter ==
  /\ current # NoDisk
  /\ \E disks \in SUBSET left : Alters(disks)
  /\ UNCHANGED <<asked, current, left, astray, told>>

\* Unmounting may fail, and then the current disk is left mounted.
Unmount == left' \subseteq left \cup ({current} \ {NoDisk})

Signal ==
  /\ current # NoDisk
  /\ Unmount
  /\ astray' \in BOOLEAN /\ (astray => astray')
  /\ UNCHANGED <<asked, current, state, told>>

Succeed ==
  /\ current # NoDisk /\ state[current] = "installed"
  /\ told' = current /\ current' = NoDisk
  /\ Unmount /\ astray' = FALSE
  /\ UNCHANGED <<asked, state>>

Fail ==
  /\ current # NoDisk /\ current' = NoDisk
  /\ Unmount /\ astray' = FALSE
  /\ \E disks \in SUBSET left : Alters(disks)
  /\ UNCHANGED <<asked, told>>

Return ==
  /\ told' = NoDisk
  /\ UNCHANGED <<asked, current, state, left, astray>>

Next ==
  \/ \E d \in Disks : Ask(d) \/ Begin(d)
  \/ Erase \/ Complete \/ Alter \/ Signal \/ Succeed \/ Fail \/ Return

Spec == Init /\ [][Next]_vars
=============================================================================
