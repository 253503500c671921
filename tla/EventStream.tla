------------------------------ MODULE EventStream ------------------------------
(***************************************************************************)
(* What QuasselConnection.events() promises its consumer: a SessionReady   *)
(* if the handshake succeeds, then protocol events, then exactly one       *)
(* terminal Disconnected, then the end of the iterator.  A consumer may    *)
(* stop listening at any time, so no step is required to happen here.      *)
(***************************************************************************)
EXTENDS Sequences

CONSTANT Payload   \* the kinds of protocol event between the two ends

VARIABLES stream,  \* every event the iterator has yielded so far
          ended    \* TRUE once the iterator is exhausted (StopAsyncIteration)

vars == <<stream, ended>>

Ready == "ready"
Disconnected == "disconnected"

Terminated == stream # <<>> /\ stream[Len(stream)] = Disconnected

Init == stream = <<>> /\ ended = FALSE

\* SessionReady is the first event or never comes.
Open ==
  /\ stream = <<>>
  /\ stream' = <<Ready>>
  /\ UNCHANGED ended

Deliver(e) ==
  /\ stream # <<>> /\ ~Terminated
  /\ stream' = Append(stream, e)
  /\ UNCHANGED ended

\* The one terminal event: from any point of the stream, once.
Terminate ==
  /\ ~Terminated
  /\ stream' = Append(stream, Disconnected)
  /\ UNCHANGED ended

\* The iterator never stops without having said so.
Stop ==
  /\ Terminated
  /\ ended' = TRUE
  /\ UNCHANGED stream

Next == Open \/ (\E e \in Payload : Deliver(e)) \/ Terminate \/ Stop

Spec == Init /\ [][Next]_vars
================================================================================
