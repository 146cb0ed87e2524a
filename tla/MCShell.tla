------------------------------- MODULE MCShell -------------------------------
(* The bounds of the run of Shell are in its configuration.                *)
EXTENDS Shell
=============================================================================
