---------------------------- MODULE MCDriverPanel ----------------------------
(* The panel and another shell over DriverWizard, for TLC.                 *)
EXTENDS DriverPanel

CONSTANTS mesa, drv

MCPackages    == {mesa, drv}
MCFactory     == {mesa}
MCRecommended == {mesa, drv}
=============================================================================
