--------------------------- MODULE MCConfigBackup ---------------------------
(* ConfigBackup for TLC: the processes are interchangeable.                *)
EXTENDS ConfigBackup, TLC

ProcSymmetry == Permutations(Procs)

\* Bound: only the second second is shared, and then it is the last.
FewShared == crowded \subseteq {2} /\ (now = 3 => crowded = {})
=============================================================================
