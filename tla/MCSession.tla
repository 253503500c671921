--------------------------------- MODULE MCSession ---------------------------------
(* The instances of Session that TLC checks.                                *)
EXTENDS Session

CONSTANTS n1, n2
================================================================================
