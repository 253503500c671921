------------------------------ MODULE MCConnection ------------------------------
(* The instances of Connection that TLC checks.                             *)
EXTENDS Connection
================================================================================
