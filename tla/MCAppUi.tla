--------------------------------- MODULE MCAppUi ---------------------------------
(* The instances of AppUi that TLC checks.                                  *)
EXTENDS AppUi

CONSTANTS b1, b2
================================================================================
