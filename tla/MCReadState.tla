------------------------------- MODULE MCReadState -------------------------------
(* ReadState for TLC. *)
EXTENDS ReadState, TLC

CONSTANTS b1, b2, n1, n2

\* Each buffer on a network of its own.
OneEach == (b1 :> n1) @@ (b2 :> n2)

\* The buffers exchanged together with their networks.
Exchange == {f \in Permutations(Buffer \cup Network) : f[b1] = b2 /\ f[n1] = n2}

================================================================================
