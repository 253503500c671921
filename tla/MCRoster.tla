--------------------------------- MODULE MCRoster ---------------------------------
(* The instances of Roster that TLC checks.                                 *)
EXTENDS Roster, TLC

CONSTANTS alice, bob, carol, c1, c2

Symmetry == Permutations({alice, bob, carol}) \cup Permutations({c1, c2})
================================================================================
