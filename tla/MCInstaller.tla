----------------------------- MODULE MCInstaller -----------------------------
EXTENDS Installer, TLC

CONSTANTS d1, d2

MCDisks == {d1, d2}

=============================================================================
