------------------------------ MODULE MCClientStore ------------------------------
(* The instances of ClientStore that TLC checks.                            *)
EXTENDS ClientStore, TLC

CONSTANTS b1, b2, n1

\* Both buffers on one network.
OneShared == (b1 :> n1) @@ (b2 :> n1)
================================================================================
