-------------------------------- MODULE MCLogView --------------------------------
(* LogView for TLC: every other message wraps, the first one is from the day before. *)
EXTENDS LogView

MCHeight == [i \in Id |-> 1 + (i % 2)]
MCDay    == [i \in Id |-> IF i = 1 THEN 1 ELSE 2]

================================================================================
