-------------------------------- MODULE MCComposer --------------------------------
(* An instance of Composer: a few words, which are interchangeable. *)
EXTENDS Composer, TLC

Symmetry == Permutations(Word)
================================================================================
