------------------------------- MODULE SessionProofs -------------------------------
(***************************************************************************)
(* Proofs about Session for any finite set of networks, any networks left  *)
(* over from an earlier session and any number of events.                  *)
(***************************************************************************)
EXTENDS Session, SequenceTheorems, FiniteSetTheorems, TLAPS

--------------------------------------------------------------------------------
(* Sequences of client events and of names.                                    *)

\* The order in which a set of networks is requested: each of them, once.
LEMMA OrderOfNetworks ==
  ASSUME NEW ids \in SUBSET Network
  PROVE  /\ SetToSeq(ids) \in Seq(ids) /\ Len(SetToSeq(ids)) = Cardinality(ids)
         /\ Cardinality(ids) \in Nat
         /\ IsInjective(SetToSeq(ids))
         /\ \A n \in ids : \E i \in 1..Cardinality(ids) : SetToSeq(ids)[i] = n
<1> DEFINE size == Cardinality(ids)
           f == SetToSeq(ids)
<1>1. IsFiniteSet(ids) /\ size \in Nat /\ ExistsBijection(1..size, ids)
  BY NetworkAssumption, FS_Subset, FS_CardinalityType
<1>2. \E g \in [1..size -> ids] : IsInjective(g)
  BY <1>1 DEF ExistsBijection, Bijection, Injection
<1>3. f \in [1..size -> ids] /\ IsInjective(f)
  BY <1>2, Zenon DEF SetToSeq
<1>4. Cardinality(1..size) = size
  BY <1>1, FS_Interval
<1> HIDE DEF size, f
<1>5. f \in Injection(1..size, ids)
  BY <1>3 DEF Injection
<1>6. f \in Surjection(1..size, ids)
  BY <1>1, <1>4, <1>5, FS_Injection DEF size
<1>7. f \in Seq(ids) /\ Len(f) = size
  BY <1>1, <1>3
<1>8. \A n \in ids : \E i \in 1..size : f[i] = n
  BY <1>6 DEF Surjection
<1> QED
  BY <1>1, <1>3, <1>7, <1>8 DEF size, f

LEMMA NamesAreDistinct == \A n \in Network : n # "BufferSyncer"
  BY NetworkAssumption

\* What seed_from_session emits, and what the fan-out will request.
LEMMA SessionReadyTypes ==
  ASSUME NEW ids \in SUBSET Network, TypeOK, SessionReady(ids)
  PROVE  TypeOK'
<1> DEFINE added == [i \in 1..Cardinality(ids) |-> Added(SetToSeq(ids)[i])]
<1>1. /\ SetToSeq(ids) \in Seq(Network) /\ Cardinality(ids) \in Nat
      /\ \A i \in 1..Cardinality(ids) : SetToSeq(ids)[i] \in Network
  BY OrderOfNetworks
<1>2. added \in Seq(ClientEvent)
  <2>1. \A i \in 1..Cardinality(ids) : Added(SetToSeq(ids)[i]) \in ClientEvent
    BY <1>1 DEF ClientEvent
  <2> QED
    BY <1>1, <2>1
<1>3. <<Opened>> \o added \in Seq(ClientEvent)
  <2>1. <<Opened>> \in Seq(ClientEvent)
    BY DEF ClientEvent
  <2> QED
    BY <1>2, <2>1, ConcatProperties
<1>4. <<"BufferSyncer">> \o SetToSeq(ids) \in Seq({"BufferSyncer"} \cup Network)
  BY <1>1
<1> HIDE DEF added
<1>5. pending' \in Seq(ClientEvent) /\ emitted' \in Seq(ClientEvent) /\ pc' = "drain"
  BY <1>3, ConcatProperties DEF SessionReady, Emit, TypeOK, added
<1>6. stream' \in Seq({"ready", "frame", "disconnected"}) /\ ended' = ended
  BY DEF SessionReady, Proto!Open, Proto!Ready
<1> QED
  BY <1>4, <1>5, <1>6 DEF SessionReady, TypeOK, KeepRequests, asked

LEMMA FrameTypes ==
  ASSUME TypeOK, Frame
  PROVE  /\ stream' \in Seq({"ready", "frame", "disconnected"}) /\ ended' \in BOOLEAN
         /\ link' \in {"open", "closed", "early"}
         /\ current' \in ClientEvent /\ todo' \in Seq({"BufferSyncer"} \cup Network)
         /\ announced' \subseteq Network /\ seeded' \in BOOLEAN /\ requested' \subseteq Network
         /\ out' \in Seq(ClientEvent) /\ sent' \in Seq({"BufferSyncer"} \cup Network)
  BY DEF Frame, KeepRequests, asked, TypeOK, Proto!Deliver

LEMMA EmitTypes ==
  ASSUME TypeOK, NEW events \in Seq(ClientEvent), Emit(events)
  PROVE  /\ pending' \in Seq(ClientEvent) /\ emitted' \in Seq(ClientEvent)
         /\ pc' = "drain"
  BY ConcatProperties DEF Emit, TypeOK

LEMMA EventTypes ==
  /\ Opened \in ClientEvent /\ Message \in ClientEvent /\ Disconnected \in ClientEvent
  /\ \A n \in Network : Added(n) \in ClientEvent
  /\ <<>> \in Seq(ClientEvent) /\ <<Message>> \in Seq(ClientEvent)
  /\ <<Disconnected>> \in Seq(ClientEvent)
  /\ \A n \in Network : <<Added(n)>> \o <<>> \in Seq(ClientEvent)
  /\ \A n \in Network : <<Added(n)>> \o <<Message>> \in Seq(ClientEvent)
<1>1. /\ Opened \in ClientEvent /\ Message \in ClientEvent /\ Disconnected \in ClientEvent
      /\ \A n \in Network : Added(n) \in ClientEvent
  BY DEF ClientEvent
<1> QED
  BY <1>1, ConcatProperties

--------------------------------------------------------------------------------
(* Types.                                                                      *)

LEMMA DispatchTyped == ASSUME TypeOK, Dispatch PROVE TypeOK'
<1>1. ASSUME NEW ids \in SUBSET Network, SessionReady(ids) PROVE TypeOK'
  BY <1>1, SessionReadyTypes
<1>2. ASSUME NEW n \in Network, NetworkCreated(n) \/ NetworkFrame(n) \/ NetworkRemoved(n)
      PROVE  TypeOK'
  <2>1. Frame
    BY <1>2 DEF NetworkCreated, NetworkFrame, NetworkRemoved
  <2>2. networks' \subseteq Network /\ objects' \subseteq Network /\ bare' \subseteq Network
        /\ removed' \subseteq Network
    BY <1>2 DEF NetworkCreated, NetworkFrame, NetworkRemoved, Appear, TypeOK
  <2>3. \E events \in Seq(ClientEvent) : Emit(events)
    BY <1>2, EventTypes DEF NetworkCreated, NetworkFrame, NetworkRemoved, Appear
  <2> QED
    BY <2>1, <2>2, <2>3, FrameTypes, EmitTypes DEF TypeOK
<1>3. CASE OtherFrame
  <2>1. Frame /\ UNCHANGED <<networks, objects, bare, removed>>
    BY <1>3 DEF OtherFrame
  <2>2. \E events \in Seq(ClientEvent) : Emit(events)
    BY <1>3, EventTypes DEF OtherFrame
  <2> QED
    BY <2>1, <2>2, FrameTypes, EmitTypes DEF TypeOK
<1>4. CASE DispatcherRaises
  <2>1. stream' \in Seq({"ready", "frame", "disconnected"})
    <3>1. CASE Proto!Open
      BY <3>1 DEF Proto!Open, Proto!Ready
    <3>2. CASE Proto!Deliver("frame")
      BY <3>2 DEF Proto!Deliver, TypeOK
    <3> QED
      BY <1>4, <3>1, <3>2 DEF DispatcherRaises
  <2>2. ended' \in BOOLEAN
    BY <1>4, Zenon DEF DispatcherRaises, Proto!Open, Proto!Deliver, TypeOK
  <2>3. out' \in Seq(ClientEvent) /\ pc' = "closing"
    BY <1>4, EventTypes DEF DispatcherRaises, Conclude, TypeOK
  <2>4. pending' \in Seq(ClientEvent)
    BY <1>4, EventTypes, Zenon DEF DispatcherRaises
  <2> QED
    BY <1>4, <2>1, <2>2, <2>3, <2>4 DEF DispatcherRaises, KeepRequests, asked, store, TypeOK
<1>5. CASE ProtoDisconnected
  <2>1. /\ stream' \in Seq({"ready", "frame", "disconnected"}) /\ ended' \in BOOLEAN
    BY <1>5 DEF ProtoDisconnected, Proto!Terminate, Proto!Disconnected, TypeOK
  <2>2. pending' \in Seq(ClientEvent) /\ emitted' \in Seq(ClientEvent) /\ pc' = "drain"
    BY <1>5, EventTypes, EmitTypes DEF ProtoDisconnected
  <2> QED
    BY <1>5, <2>1, <2>2 DEF ProtoDisconnected, KeepRequests, asked, store, TypeOK
<1> QED
  BY <1>1, <1>2, <1>3, <1>4, <1>5 DEF Dispatch

\* Only a NetworkAdded carries a network.
LEMMA AddedHasNetwork ==
  ASSUME NEW e \in ClientEvent, e.kind = "NetworkAdded"
  PROVE  e.network \in Network /\ e = Added(e.network)
  BY DEF ClientEvent, Opened, Message, Disconnected, Added, Event

LEMMA HeadTypes ==
  ASSUME NEW S, NEW q \in Seq(S), q # <<>>
  PROVE  Head(q) \in S /\ Tail(q) \in Seq(S)
  OBVIOUS

\* Where events() is suspended bounds what it has in hand: a request is made only
\* for the network just announced, the fan-out has something to request, and the
\* next frame is awaited with nothing left to yield or to request.
ControlInv ==
  /\ pc = "requesting" => current.kind = "NetworkAdded"
  /\ pc = "fanout" => todo # <<>> /\ pending = <<>>
  /\ pc = "next" => todo = <<>> /\ pending = <<>>

LEMMA DrainTyped == ASSUME TypeOK, ControlInv, Drain PROVE TypeOK'
<1> USE DEF TypeOK, store, asked
<1>1. CASE YieldPending
  <2>1. NextPending \in ClientEvent /\ pending' \in Seq(ClientEvent)
    BY <1>1, HeadTypes DEF YieldPending, NextPending
  <2>2. out' \in Seq(ClientEvent)
    BY <1>1, <2>1 DEF YieldPending
  <2> QED
    BY <1>1, <2>1, <2>2 DEF YieldPending
<1>2. CASE AfterYield
  <2>1. seeded' \in BOOLEAN
    BY <1>2, Zenon DEF AfterYield
  <2>2. requested' \subseteq Network /\ pc' \in {"drain", "requesting"}
    BY <1>2, AddedHasNetwork DEF AfterYield, Covered, Remember
  <2> QED
    BY <1>2, <2>1, <2>2 DEF AfterYield
<1>3. CASE RequestWritten
  <2>1. current.network \in Network
    BY <1>3, AddedHasNetwork DEF RequestWritten, ControlInv
  <2>2. sent' = Append(sent, current.network) /\ bare' \subseteq Network
    BY <1>3 DEF RequestWritten, Written
  <2> QED
    BY <1>3, <2>1, <2>2 DEF RequestWritten
<1>4. CASE RequestFails
  BY <1>4 DEF RequestFails
<1>5. CASE Drained
  BY <1>5 DEF Drained
<1> QED
  BY <1>1, <1>2, <1>3, <1>4, <1>5 DEF Drain

LEMMA FanoutTyped == ASSUME TypeOK, ControlInv, Fanout PROVE TypeOK'
<1> USE DEF TypeOK, store, asked
<1>1. CASE FanoutWritten
  <2>1. /\ Head(todo) \in {"BufferSyncer"} \cup Network
        /\ Tail(todo) \in Seq({"BufferSyncer"} \cup Network)
    BY <1>1, HeadTypes DEF FanoutWritten, ControlInv
  <2>2. sent' = Append(sent, Head(todo)) /\ bare' \subseteq Network /\ todo' = Tail(todo)
    BY <1>1 DEF FanoutWritten, Written
  <2> QED
    BY <1>1, <2>1, <2>2 DEF FanoutWritten
<1>2. CASE FanoutFails
  <2>1. out' \in Seq(ClientEvent) /\ pc' = "closing"
    BY <1>2, EventTypes DEF FanoutFails, Conclude
  <2> QED
    BY <1>2, <2>1 DEF FanoutFails
<1>3. CASE CloseLink
  BY <1>3 DEF CloseLink
<1> QED
  BY <1>1, <1>2, <1>3 DEF Fanout

LEMMA OtherTyped ==
  ASSUME TypeOK, Leak("requesting") \/ Leak("fanout") \/ Close \/ UNCHANGED vars
  PROVE  TypeOK'
  BY DEF Leak, Close, vars, TypeOK, store, asked

LEMMA ControlStep == ASSUME TypeOK, ControlInv, [Next]_vars PROVE ControlInv'
<1> USE DEF ControlInv
<1>1. ASSUME Dispatch PROVE pc' \in {"drain", "closing"}
  BY <1>1 DEF Dispatch, SessionReady, NetworkCreated, NetworkFrame, NetworkRemoved, Appear,
              OtherFrame, DispatcherRaises, ProtoDisconnected, Emit, Conclude
<1>2. ASSUME Drain, pc' \notin {"drain", "yielded"} PROVE ControlInv'
  BY <1>2 DEF Drain, YieldPending, AfterYield, RequestWritten, RequestFails, Drained
<1>3. ASSUME Fanout PROVE ControlInv'
  BY <1>3 DEF Fanout, FanoutWritten, FanoutFails, Conclude, CloseLink
<1>4. ASSUME Leak("requesting") \/ Leak("fanout") \/ Close \/ UNCHANGED vars PROVE ControlInv'
  BY <1>4 DEF Leak, Close, vars
<1> QED
  BY <1>1, <1>2, <1>3, <1>4 DEF Next

\* Every reachable state is well typed.
THEOREM Typed == Spec => [](TypeOK /\ ControlInv)
<1>1. Init => TypeOK /\ ControlInv
  <2> SUFFICES ASSUME Init PROVE TypeOK /\ ControlInv
    OBVIOUS
  <2>1. ended \in BOOLEAN /\ seeded \in BOOLEAN
    BY Zenon DEF Init, Proto!Init
  <2> QED
    BY <2>1, EventTypes, LeftoverAssumption DEF Init, Proto!Init, TypeOK, ControlInv
<1>2. TypeOK /\ ControlInv /\ [Next]_vars => TypeOK' /\ ControlInv'
  BY DispatchTyped, DrainTyped, FanoutTyped, OtherTyped, ControlStep DEF Next
<1> QED
  BY <1>1, <1>2, PTL DEF Spec

LEMMA Regroup ==
  \A S : \A q, r, t \in Seq(S) : (q \o r) \o t = q \o (r \o t)
  BY ConcatAssociative

LEMMA LastOfAppend ==
  ASSUME NEW S, NEW q \in Seq(S), NEW e \in S
  PROVE  Append(q, e) # <<>> /\ Last(Append(q, e)) = e /\ Front(Append(q, e)) = q
<1>1. Append(q, e) \in Seq(S) /\ Len(Append(q, e)) = Len(q) + 1
  OBVIOUS
<1>2. Front(Append(q, e)) \in Seq(S) /\ Len(Front(Append(q, e))) = Len(q)
      /\ \A i \in 1..Len(q) : Front(Append(q, e))[i] = q[i]
  BY <1>1 DEF Front
<1>3. Front(Append(q, e)) = q
  BY <1>2, SeqEqual
<1> QED
  BY <1>1, <1>3 DEF Last

--------------------------------------------------------------------------------
(* What is emitted, what is yielded.                                           *)

LEMMA KindsDiffer ==
  /\ Opened # Disconnected /\ Message # Opened /\ Message # Disconnected
  /\ \A n \in Network : Added(n) # Opened /\ Added(n) # Disconnected
<1>1. \A n \in Network : Added(n).kind = "NetworkAdded"
  BY DEF Added, Event
<1>2. Opened.kind = "SessionOpened" /\ Message.kind = "other"
      /\ Disconnected.kind = "ClientDisconnected"
  BY DEF Opened, Message, Disconnected
<1> QED
  BY <1>1, <1>2

\* A sequence of events of the session between its two ends.
Inner(events) == \A i \in 1..Len(events) : events[i] \notin {Opened, Disconnected}

\* What the dispatcher makes of the connection's next event.
Emits(events) ==
  /\ pc = "next" /\ Emit(events) /\ UNCHANGED out
  /\ \/ /\ stream = <<>> /\ stream' = <<"ready">>
        /\ \E added \in Seq(ClientEvent) : Inner(added) /\ events = <<Opened>> \o added
     \/ /\ stream # <<>> /\ ~Proto!Terminated /\ stream' = Append(stream, "frame")
        /\ Inner(events)
     \/ /\ ~Proto!Terminated /\ stream' = Append(stream, "disconnected")
        /\ events = <<Disconnected>>

LEMMA DispatchShape ==
  ASSUME TypeOK, Dispatch
  PROVE  DispatcherRaises \/ \E events \in Seq(ClientEvent) : Emits(events)
<1>1. ASSUME NEW ids \in SUBSET Network, SessionReady(ids)
      PROVE  \E events \in Seq(ClientEvent) : Emits(events)
  <2> DEFINE added == [i \in 1..Cardinality(ids) |-> Added(SetToSeq(ids)[i])]
  <2>1. /\ Cardinality(ids) \in Nat
        /\ \A i \in 1..Cardinality(ids) : SetToSeq(ids)[i] \in Network
    BY OrderOfNetworks
  <2>2. \A i \in 1..Cardinality(ids) : /\ Added(SetToSeq(ids)[i]) \in ClientEvent
                                       /\ Added(SetToSeq(ids)[i]) \notin {Opened, Disconnected}
    BY <2>1, EventTypes, KindsDiffer
  <2>3. added \in Seq(ClientEvent) /\ Len(added) = Cardinality(ids)
    BY <2>1, <2>2
  <2>4. Inner(added)
    BY <2>2, <2>3 DEF Inner
  <2> HIDE DEF added
  <2>5. <<Opened>> \o added \in Seq(ClientEvent)
    BY <2>3, EventTypes, ConcatProperties
  <2>6. Emit(<<Opened>> \o added)
    BY <1>1 DEF SessionReady, added
  <2>7. pc = "next" /\ UNCHANGED out /\ stream = <<>> /\ stream' = <<"ready">>
    BY <1>1 DEF SessionReady, Waiting, Proto!Open, Proto!Ready
  <2> QED
    BY <2>3, <2>4, <2>5, <2>6, <2>7 DEF Emits
<1>2. ASSUME Frame, NEW events \in Seq(ClientEvent), Inner(events), Emit(events)
      PROVE  Emits(events)
  BY <1>2 DEF Emits, Frame, Waiting, Proto!Deliver
<1>3. /\ Inner(<<>>) /\ Inner(<<Message>>)
      /\ \A n \in Network : Inner(<<Added(n)>> \o <<>>) /\ Inner(<<Added(n)>> \o <<Message>>)
  BY KindsDiffer DEF Inner
<1>4. ASSUME NEW n \in Network, NetworkCreated(n) \/ NetworkFrame(n) \/ NetworkRemoved(n)
      PROVE  Frame /\ \E events \in Seq(ClientEvent) : Inner(events) /\ Emit(events)
  BY <1>3, <1>4, EventTypes DEF NetworkCreated, NetworkFrame, NetworkRemoved, Appear
<1>5. CASE OtherFrame
  BY <1>3, <1>5, EventTypes, <1>2 DEF OtherFrame
<1>6. CASE ProtoDisconnected
  BY <1>6, EventTypes DEF ProtoDisconnected, Emits, Proto!Terminate, Proto!Disconnected
<1> QED
  BY <1>1, <1>2, <1>4, <1>5, <1>6 DEF Dispatch

\* What has been emitted is what has been yielded and what is pending, and a
\* terminal event of our own comes after all of it.
FaithfulInv ==
  /\ pc \notin {"closing", "done"} => emitted = out \o pending
  /\ pc = "closing" => out = Append(emitted, Disconnected)
  /\ pc = "done" => out \in {emitted, Append(emitted, Disconnected)}

LEMMA FaithfulStep ==
  ASSUME TypeOK, ControlInv, FaithfulInv, [Next]_vars
  PROVE  FaithfulInv'
<1> USE DEF FaithfulInv
<1>0. out \in Seq(ClientEvent) /\ pending \in Seq(ClientEvent)
  BY DEF TypeOK
<1>1. ASSUME NEW events \in Seq(ClientEvent), Emits(events) PROVE FaithfulInv'
  <2>1. emitted = out \o pending /\ pc' = "drain" /\ out' = out
        /\ pending' = pending \o events /\ emitted' = emitted \o events
    BY <1>1 DEF Emits, Emit
  <2>2. (out \o pending) \o events = out \o (pending \o events)
    BY <1>0, Regroup
  <2> QED
    BY <2>1, <2>2
<1>2. ASSUME Conclude, pc \in {"next", "fanout"}, emitted' = emitted PROVE FaithfulInv'
  <2>1. emitted = out
    BY <1>2, ConcatEmptySeq DEF ControlInv, TypeOK
  <2> QED
    BY <1>2, <2>1 DEF Conclude
<1>3. CASE YieldPending
  <2>1. pending = <<Head(pending)>> \o Tail(pending) /\ Head(pending) \in ClientEvent
        /\ Tail(pending) \in Seq(ClientEvent)
    BY <1>3 DEF YieldPending, TypeOK
  <2>2. out' = out \o <<Head(pending)>> /\ pending' = Tail(pending)
    BY <1>3, <2>1, AppendIsConcat DEF YieldPending, NextPending, TypeOK
  <2>3. out \o (<<Head(pending)>> \o Tail(pending)) = (out \o <<Head(pending)>>) \o Tail(pending)
    <3>1. <<Head(pending)>> \in Seq(ClientEvent)
      BY <2>1
    <3> QED
      BY <1>0, <2>1, <3>1, Regroup
  <2> QED
    BY <1>3, <2>1, <2>2, <2>3 DEF YieldPending
<1>4. CASE AfterYield
  BY <1>4 DEF AfterYield
<1>5. CASE RequestWritten \/ RequestFails
  BY <1>5 DEF RequestWritten, RequestFails
<1>6. CASE Drained
  BY <1>6, ConcatEmptySeq DEF Drained, TypeOK
<1>7. CASE FanoutWritten
  BY <1>7 DEF FanoutWritten
<1>8. CASE CloseLink
  BY <1>8 DEF CloseLink
<1>9. CASE Leak("requesting") \/ Leak("fanout") \/ Close \/ UNCHANGED vars
  BY <1>9 DEF Leak, Close, vars
<1> QED
  BY <1>1, <1>2, <1>3, <1>4, <1>5, <1>6, <1>7, <1>8, <1>9, DispatchShape
  DEF Next, Drain, Fanout, DispatcherRaises, FanoutFails, Waiting

LEMMA FaithfulHolds == Spec => []FaithfulInv
<1>1. Init => FaithfulInv
  BY DEF Init, FaithfulInv
<1>2. TypeOK /\ ControlInv /\ FaithfulInv /\ [Next]_vars => FaithfulInv'
  BY FaithfulStep
<1> QED
  BY <1>1, <1>2, Typed, PTL DEF Spec

\* Every event the dispatcher emitted reaches the consumer, in order and before
\* the next frame is read (client.py, events()).
THEOREM EventsReachConsumer == Spec => []EventsFaithful
<1>1. ASSUME TypeOK, ControlInv, FaithfulInv PROVE EventsFaithful
  <2>1. CASE pc \notin {"closing", "done"}
    <3>1. emitted = out \o pending
      BY <2>1, <1>1 DEF FaithfulInv
    <3>2. IsPrefix(out, emitted)
      BY <1>1, <3>1 DEF IsPrefix, TypeOK
    <3>3. pc = "next" => out = emitted
      BY <1>1, <3>1, ConcatEmptySeq DEF ControlInv, TypeOK
    <3> QED
      BY <3>2, <3>3 DEF EventsFaithful
  <2>2. CASE pc \in {"closing", "done"}
    <3>1. IsPrefix(emitted, emitted)
      BY <1>1, SubSeqFull DEF IsPrefix, TypeOK
    <3>2. ASSUME out = Append(emitted, Disconnected)
          PROVE  out # <<>> /\ Last(out) = Disconnected /\ Front(out) = emitted
      BY <1>1, <3>2, EventTypes, LastOfAppend DEF TypeOK
    <3> QED
      BY <1>1, <2>2, <3>1, <3>2 DEF FaithfulInv, EventsFaithful
  <2> QED
    BY <2>1, <2>2
<1> QED
  BY <1>1, Typed, FaithfulHolds, PTL

--------------------------------------------------------------------------------
(* The refinement: the client's events keep the promise the connection's keep. *)

\* SessionOpened opens it or never comes, and ClientDisconnected ends it.
WellFormed(events) ==
  /\ \A i \in 1..Len(events) : events[i] = Opened => i = 1
  /\ \A i \in 1..Len(events) : events[i] = Disconnected => i = Len(events)
  /\ events # <<>> /\ events[1] # Opened => events = <<Disconnected>>

Concluded(events) == events # <<>> /\ events[Len(events)] = Disconnected

\* While the client follows the connection the two streams begin and end together.
StreamInv ==
  /\ WellFormed(emitted)
  /\ pc \in {"next", "fanout"} => ~Proto!Terminated
  /\ pc \notin {"closing", "done"} =>
       /\ emitted = <<>> <=> stream = <<>>
       /\ Concluded(emitted) <=> Proto!Terminated
  /\ pc = "closing" => ~Concluded(emitted)
  /\ pc = "done" => Concluded(out) /\ (out # emitted => ~Concluded(emitted))

LEMMA WellFormedConcat ==
  ASSUME NEW q \in Seq(ClientEvent), NEW events \in Seq(ClientEvent),
         WellFormed(q), ~Concluded(q), Inner(events), q # <<>> \/ events = <<>>
  PROVE  WellFormed(q \o events) /\ ~Concluded(q \o events)
  BY DEF WellFormed, Concluded, Inner

LEMMA WellFormedTerminate ==
  ASSUME NEW q \in Seq(ClientEvent), WellFormed(q), ~Concluded(q)
  PROVE  /\ WellFormed(Append(q, Disconnected)) /\ Concluded(Append(q, Disconnected))
         /\ Append(q, Disconnected) = q \o <<Disconnected>>
<1>1. Disconnected \in ClientEvent /\ Disconnected # Opened
  BY EventTypes, KindsDiffer
<1>2. /\ Append(q, Disconnected) # <<>> /\ Len(Append(q, Disconnected)) = Len(q) + 1
      /\ \A i \in 1..Len(q) : Append(q, Disconnected)[i] = q[i]
      /\ Append(q, Disconnected)[Len(q) + 1] = Disconnected
      /\ Append(q, Disconnected) = q \o <<Disconnected>>
  BY <1>1, AppendProperties, AppendIsConcat
<1>3. q = <<>> => Append(q, Disconnected) = <<Disconnected>>
  BY <1>1
<1>4. Len(q) \in Nat /\ (q # <<>> => Len(q) > 0)
  OBVIOUS
<1> QED
  BY <1>1, <1>2, <1>3, <1>4 DEF WellFormed, Concluded

LEMMA WellFormedOpening ==
  ASSUME NEW added \in Seq(ClientEvent), Inner(added)
  PROVE  /\ WellFormed(<<Opened>> \o added) /\ ~Concluded(<<Opened>> \o added)
         /\ <<Opened>> \o added # <<>>
<1>1. Opened \in ClientEvent /\ Disconnected # Opened
  BY EventTypes, KindsDiffer
<1> QED
  BY <1>1 DEF WellFormed, Concluded, Inner
LEMMA StreamStep ==
  ASSUME TypeOK, ControlInv, FaithfulInv, StreamInv, [Next]_vars
  PROVE  StreamInv'
<1>0. /\ emitted \in Seq(ClientEvent) /\ out \in Seq(ClientEvent)
      /\ stream \in Seq({"ready", "frame", "disconnected"})
  BY DEF TypeOK
<1>1. ASSUME NEW events \in Seq(ClientEvent), Emits(events) PROVE StreamInv'
  <2>1. /\ pc = "next" /\ pc' = "drain" /\ emitted' = emitted \o events
        /\ WellFormed(emitted) /\ ~Concluded(emitted)
        /\ emitted = <<>> <=> stream = <<>>
    BY <1>1 DEF Emits, Emit, StreamInv
  <2> SUFFICES /\ WellFormed(emitted') /\ emitted' # <<>> /\ stream' # <<>>
               /\ Concluded(emitted') <=> Proto!Terminated'
    BY <2>1 DEF StreamInv
  <2>2. CASE stream = <<>> /\ stream' = <<"ready">>
             /\ \E added \in Seq(ClientEvent) : Inner(added) /\ events = <<Opened>> \o added
    <3>1. emitted' = events
      BY <2>1, <2>2, ConcatEmptySeq
    <3>2. WellFormed(events) /\ ~Concluded(events) /\ events # <<>>
      BY <2>2, WellFormedOpening
    <3>3. stream' # <<>> /\ ~Proto!Terminated'
      BY <2>2 DEF Proto!Terminated, Proto!Disconnected
    <3> QED
      BY <3>1, <3>2, <3>3
  <2>3. CASE stream # <<>> /\ ~Proto!Terminated /\ stream' = Append(stream, "frame")
             /\ Inner(events)
    <3>1. WellFormed(emitted') /\ ~Concluded(emitted') /\ emitted' # <<>>
      BY <1>0, <2>1, <2>3, WellFormedConcat, ConcatProperties, EmptySeq
    <3>2. stream' # <<>> /\ ~Proto!Terminated'
      BY <1>0, <2>3 DEF Proto!Terminated, Proto!Disconnected
    <3> QED
      BY <3>1, <3>2
  <2>4. CASE ~Proto!Terminated /\ stream' = Append(stream, "disconnected")
             /\ events = <<Disconnected>>
    <3>1. WellFormed(emitted') /\ Concluded(emitted')
      BY <1>0, <2>1, <2>4, WellFormedTerminate
    <3>2. stream' # <<>> /\ Proto!Terminated'
      BY <1>0, <2>4 DEF Proto!Terminated, Proto!Disconnected
    <3> QED
      BY <3>1, <3>2 DEF Concluded
  <2> QED
    BY <1>1, <2>2, <2>3, <2>4 DEF Emits
<1>2. ASSUME Conclude, pc \in {"next", "fanout"}, emitted' = emitted PROVE StreamInv'
  BY <1>2 DEF Conclude, StreamInv, WellFormed, Concluded
<1>3. ASSUME UNCHANGED <<stream, emitted>>, pc \notin {"closing", "done"},
             pc' \notin {"closing", "done", "next"}, pc' = "fanout" => pc = "fanout"
      PROVE  StreamInv'
  BY <1>3 DEF StreamInv, Proto!Terminated
<1>4. CASE Drained
  <2>1. out = emitted /\ UNCHANGED <<stream, emitted, out>> /\ pc = "drain"
        /\ pc' \in {"done", "fanout", "next"} /\ (pc' = "done" <=> Proto!Terminated)
    BY <1>0, <1>4, ConcatEmptySeq DEF Drained, FaithfulInv
  <2> QED
    BY <2>1 DEF StreamInv, Proto!Terminated
<1>5. CASE CloseLink
  <2>1. out = Append(emitted, Disconnected) /\ UNCHANGED <<stream, emitted, out>>
        /\ pc = "closing" /\ pc' = "done"
    BY <1>5 DEF CloseLink, FaithfulInv
  <2>2. Concluded(out)
    BY <1>0, <2>1, WellFormedTerminate DEF StreamInv
  <2> QED
    BY <2>1, <2>2 DEF StreamInv
<1>6. CASE YieldPending
  BY <1>3, <1>6 DEF YieldPending
<1>7. CASE AfterYield
  BY <1>3, <1>7 DEF AfterYield
<1>8. CASE RequestWritten \/ RequestFails \/ FanoutWritten
  BY <1>3, <1>8 DEF RequestWritten, RequestFails, FanoutWritten
<1>9. CASE Leak("requesting") \/ Leak("fanout")
  BY <1>3, <1>9 DEF Leak
<1>10. CASE Close \/ UNCHANGED vars
  BY <1>10 DEF Close, vars, StreamInv, Proto!Terminated
<1> QED
  BY <1>1, <1>2, <1>4, <1>5, <1>6, <1>7, <1>8, <1>9, <1>10, DispatchShape
  DEF Next, Drain, Fanout, DispatcherRaises, FanoutFails, Waiting

LEMMA StreamHolds == Spec => []StreamInv
<1>1. Init => StreamInv
  BY DEF Init, StreamInv, WellFormed, Concluded, Proto!Init, Proto!Terminated
<1>2. TypeOK /\ ControlInv /\ FaithfulInv /\ StreamInv /\ [Next]_vars => StreamInv'
  BY StreamStep
<1> QED
  BY <1>1, <1>2, Typed, FaithfulHolds, PTL DEF Spec

\* The promise's stream, event by event.
StreamEvent(e) == CASE e = Opened -> "ready" [] e = Disconnected -> "disconnected"
                    [] OTHER -> "event"

LEMMA StreamEventValues ==
  /\ StreamEvent(Opened) = "ready" /\ StreamEvent(Disconnected) = "disconnected"
  /\ \A e : e \notin {Opened, Disconnected} => StreamEvent(e) = "event"
  BY KindsDiffer DEF StreamEvent

LEMMA AsStreamValues ==
  ASSUME NEW q \in Seq(ClientEvent)
  PROVE  /\ AsStream(q) \in Seq({"ready", "disconnected", "event"})
         /\ Len(AsStream(q)) = Len(q)
         /\ \A i \in 1..Len(q) : AsStream(q)[i] = StreamEvent(q[i])
<1>1. \A i \in 1..Len(q) : StreamEvent(q[i]) \in {"ready", "disconnected", "event"}
  BY DEF StreamEvent
<1>2. AsStream(q) = [i \in 1..Len(q) |-> StreamEvent(q[i])]
  BY DEF AsStream, StreamEvent
<1> HIDE DEF AsStream
<1> QED
  BY <1>1, <1>2

LEMMA AsStreamAppend ==
  ASSUME NEW q \in Seq(ClientEvent), NEW e \in ClientEvent
  PROVE  AsStream(Append(q, e)) = Append(AsStream(q), StreamEvent(e))
<1> DEFINE S == {"ready", "disconnected", "event"}
           r == Append(q, e)
<1>1. r \in Seq(ClientEvent) /\ Len(r) = Len(q) + 1 /\ r[Len(q) + 1] = e
      /\ \A i \in 1..Len(q) : r[i] = q[i]
  OBVIOUS
<1> HIDE DEF r
<1>2. StreamEvent(e) \in S
  BY DEF StreamEvent
<1>3. /\ AsStream(q) \in Seq(S) /\ Len(AsStream(q)) = Len(q)
      /\ AsStream(r) \in Seq(S) /\ Len(AsStream(r)) = Len(q) + 1
      /\ \A i \in 1..Len(q) : AsStream(q)[i] = StreamEvent(q[i])
      /\ \A i \in 1..(Len(q) + 1) : AsStream(r)[i] = StreamEvent(r[i])
  BY <1>1, AsStreamValues
<1>4. /\ Append(AsStream(q), StreamEvent(e)) \in Seq(S)
      /\ Len(Append(AsStream(q), StreamEvent(e))) = Len(q) + 1
      /\ \A i \in 1..Len(q) : Append(AsStream(q), StreamEvent(e))[i] = AsStream(q)[i]
      /\ Append(AsStream(q), StreamEvent(e))[Len(q) + 1] = StreamEvent(e)
  BY <1>2, <1>3, AppendProperties
<1> HIDE DEF S
<1>5. \A i \in 1..(Len(q) + 1) : AsStream(r)[i] = Append(AsStream(q), StreamEvent(e))[i]
  BY <1>1, <1>3, <1>4
<1> QED
  BY <1>3, <1>4, <1>5, SeqEqual DEF r
\* The step of the promise that yielding the next event of a well-formed session is.
LEMMA YieldRefines ==
  ASSUME NEW q \in Seq(ClientEvent), NEW e \in ClientEvent, NEW rest \in Seq(ClientEvent),
         WellFormed(q \o (<<e>> \o rest))
  PROVE  /\ e = Opened => q = <<>>
         /\ ~Concluded(q)
         /\ e \notin {Opened, Disconnected} => q # <<>>
<1> DEFINE all == q \o (<<e>> \o rest)
<1>1. /\ Len(all) = Len(q) + 1 + Len(rest) /\ Len(q) \in Nat /\ Len(rest) \in Nat
      /\ \A i \in 1..Len(q) : all[i] = q[i]
      /\ all[Len(q) + 1] = e
  OBVIOUS
<1>2. q # <<>> => Len(q) # 0
  OBVIOUS
<1>3. q = <<>> => Len(q) = 0
  OBVIOUS
<1>4. WellFormed(all)
  OBVIOUS
<1> HIDE DEF all
<1>5. Len(<<Disconnected>>) = 1 /\ <<Disconnected>>[1] = Disconnected
  OBVIOUS
<1> QED
  BY <1>1, <1>2, <1>3, <1>4, <1>5 DEF WellFormed, Concluded

LEMMA PromiseTerminated ==
  ASSUME NEW q \in Seq(ClientEvent)
  PROVE  /\ AsStream(q) = <<>> <=> q = <<>>
         /\ AsStream(q) # <<>> /\ AsStream(q)[Len(AsStream(q))] = "disconnected" <=> Concluded(q)
<1>1. /\ AsStream(q) \in Seq({"ready", "disconnected", "event"}) /\ Len(AsStream(q)) = Len(q)
      /\ \A i \in 1..Len(q) : AsStream(q)[i] = StreamEvent(q[i])
  BY AsStreamValues
<1>2. Len(q) \in Nat /\ (q = <<>> <=> Len(q) = 0)
  OBVIOUS
<1>3. AsStream(q) = <<>> <=> Len(AsStream(q)) = 0
  BY <1>1
<1>4. \A e : StreamEvent(e) = "disconnected" <=> e = Disconnected
  BY KindsDiffer DEF StreamEvent
<1> QED
  BY <1>1, <1>2, <1>3, <1>4 DEF Concluded

LEMMA RefinesPromise ==
  ASSUME TypeOK, ControlInv, FaithfulInv, StreamInv, [Next]_vars
  PROVE  [Promise!Next]_(Promise!vars)
<1> USE DEF Promise!Next, Promise!vars
<1>0. /\ emitted \in Seq(ClientEvent) /\ out \in Seq(ClientEvent)
      /\ pending \in Seq(ClientEvent)
      /\ AsStream(out) = <<>> <=> out = <<>>
      /\ Promise!Terminated <=> Concluded(out)
  BY PromiseTerminated DEF TypeOK, Promise!Terminated, Promise!Disconnected
<1>1. ASSUME UNCHANGED out, pc # "done", pc' # "done" PROVE UNCHANGED Promise!vars
  BY <1>1
<1>2. ASSUME Conclude, pc \in {"next", "fanout"} PROVE Promise!Terminate
  <2>1. emitted = out /\ ~Concluded(out)
    BY <1>0, <1>2, ConcatEmptySeq DEF ControlInv, FaithfulInv, StreamInv
  <2>2. AsStream(out') = Append(AsStream(out), "disconnected")
    BY <1>0, <1>2, AsStreamAppend, EventTypes, StreamEventValues DEF Conclude
  <2>3. pc # "done" /\ pc' # "done"
    BY <1>2 DEF Conclude
  <2> QED
    BY <1>0, <2>1, <2>2, <2>3 DEF Promise!Terminate, Promise!Disconnected
<1>3. CASE YieldPending
  <2> DEFINE e == Head(pending)
  <2>1. e \in ClientEvent /\ Tail(pending) \in Seq(ClientEvent)
        /\ pending = <<e>> \o Tail(pending)
    BY <1>0, <1>3 DEF YieldPending
  <2>2. emitted = out \o pending /\ out' = Append(out, e) /\ pc # "done" /\ pc' # "done"
    BY <1>3 DEF YieldPending, NextPending, FaithfulInv
  <2> HIDE DEF e
  <2>3. /\ e = Opened => out = <<>>
        /\ ~Concluded(out)
        /\ e \notin {Opened, Disconnected} => out # <<>>
    BY <1>0, <2>1, <2>2, YieldRefines DEF StreamInv
  <2>4. AsStream(out') = Append(AsStream(out), StreamEvent(e))
    BY <1>0, <2>1, <2>2, AsStreamAppend
  <2>5. CASE e = Opened
    <3>1. AsStream(out) = <<>> /\ AsStream(out') = Append(<<>>, "ready")
      BY <1>0, <2>3, <2>4, <2>5, StreamEventValues, Zenon
    <3>2. Append(<<>>, "ready") = <<"ready">>
      OBVIOUS
    <3> QED
      BY <2>2, <3>1, <3>2 DEF Promise!Open, Promise!Ready
  <2>6. CASE e = Disconnected
    <3>1. AsStream(out') = Append(AsStream(out), "disconnected")
      BY <2>4, <2>6, StreamEventValues
    <3> QED
      BY <1>0, <2>2, <2>3, <3>1 DEF Promise!Terminate, Promise!Disconnected
  <2>7. CASE e \notin {Opened, Disconnected}
    <3>1. AsStream(out') = Append(AsStream(out), "event")
      BY <2>4, <2>7, StreamEventValues
    <3>2. Promise!Deliver("event")
      BY <1>0, <2>2, <2>3, <2>7, <3>1 DEF Promise!Deliver
    <3> QED
      BY <3>2
  <2> QED
    BY <2>5, <2>6, <2>7
<1>4. ASSUME UNCHANGED out, pc' = "done", Concluded(out) PROVE Promise!Stop
  BY <1>0, <1>4 DEF Promise!Stop
<1>5. CASE Drained
  <2>1. /\ UNCHANGED out /\ pc # "done" /\ out = emitted
        /\ pc' = "done" => Proto!Terminated
    BY <1>0, <1>5, ConcatEmptySeq DEF Drained, FaithfulInv
  <2>2. pc' = "done" => Concluded(out)
    BY <1>5, <2>1 DEF Drained, StreamInv
  <2> QED
    BY <1>1, <1>4, <2>1, <2>2
<1>6. CASE CloseLink
  <2>1. UNCHANGED out /\ pc' = "done" /\ Concluded(out)
    BY <1>0, <1>6, WellFormedTerminate DEF CloseLink, FaithfulInv, StreamInv
  <2> QED
    BY <1>4, <2>1
<1>7. CASE Close \/ UNCHANGED vars
  BY <1>7 DEF Close, vars
<1>8. ASSUME NEW events, Emits(events) PROVE UNCHANGED Promise!vars
  BY <1>1, <1>8 DEF Emits, Emit
<1>9. CASE AfterYield \/ RequestWritten \/ RequestFails \/ FanoutWritten
           \/ Leak("requesting") \/ Leak("fanout")
  BY <1>1, <1>9 DEF AfterYield, RequestWritten, RequestFails, FanoutWritten, Leak
<1> QED
  BY <1>2, <1>3, <1>5, <1>6, <1>7, <1>8, <1>9, DispatchShape
  DEF Next, Drain, Fanout, DispatcherRaises, FanoutFails, Waiting

\* client.py:137-144: however the connection, the dispatcher or the fan-out
\* fails, the client's iterator keeps the promise the connection's keeps.
THEOREM KeepsPromise == Spec => ImplementsEventStream
<1>1. Init => Promise!Init
  <2> SUFFICES ASSUME Init PROVE Promise!Init
    OBVIOUS
  <2>1. AsStream(out) = <<>>
    BY PromiseTerminated, EventTypes DEF Init
  <2> QED
    BY <2>1 DEF Init, Promise!Init
<1>2. TypeOK /\ ControlInv /\ FaithfulInv /\ StreamInv /\ [Next]_vars
        => [Promise!Next]_(Promise!vars)
  BY RefinesPromise
<1> QED
  BY <1>1, <1>2, Typed, FaithfulHolds, StreamHolds, PTL
  DEF Spec, ImplementsEventStream, Promise!Spec
--------------------------------------------------------------------------------
(* The requests: at most one for a name, and none forgotten.                   *)

In(x, q) == \E i \in 1..Len(q) : q[i] = x
Once(q) == \A i, j \in 1..Len(q) : q[i] = q[j] => i = j

LEMMA InAppend ==
  ASSUME NEW S, NEW q \in Seq(S), NEW e \in S
  PROVE  /\ \A x : In(x, Append(q, e)) <=> In(x, q) \/ x = e
         /\ Once(q) /\ ~In(e, q) => Once(Append(q, e))
<1>1. /\ Len(q) \in Nat /\ Len(Append(q, e)) = Len(q) + 1
      /\ \A i \in 1..Len(q) : Append(q, e)[i] = q[i]
      /\ Append(q, e)[Len(q) + 1] = e
  BY AppendProperties, LenProperties
<1>2. \A i : i \in 1..(Len(q) + 1) <=> i \in 1..Len(q) \/ i = Len(q) + 1
  BY <1>1
<1>3. \A x : In(x, Append(q, e)) <=> In(x, q) \/ x = e
  BY <1>1, <1>2 DEF In
<1>4. Once(q) /\ ~In(e, q) => Once(Append(q, e))
  BY <1>1, <1>2 DEF In, Once
<1> QED
  BY <1>3, <1>4

LEMMA InTail ==
  ASSUME NEW S, NEW q \in Seq(S), q # <<>>
  PROVE  /\ \A x : In(x, q) <=> x = Head(q) \/ In(x, Tail(q))
         /\ Once(q) => Once(Tail(q)) /\ ~In(Head(q), Tail(q))
<1>1. /\ Len(q) \in Nat \ {0} /\ Len(Tail(q)) = Len(q) - 1
      /\ \A i \in 1..Len(Tail(q)) : Tail(q)[i] = q[i + 1]
      /\ Head(q) = q[1]
  OBVIOUS
<1>2. \A i \in 1..Len(q) : i = 1 \/ i - 1 \in 1..Len(Tail(q))
  BY <1>1
<1>3. \A i \in 1..Len(Tail(q)) : i + 1 \in 1..Len(q) /\ i + 1 # 1
  BY <1>1
<1>4. ASSUME NEW x PROVE In(x, q) <=> x = Head(q) \/ In(x, Tail(q))
  <2>1. ASSUME NEW i \in 1..Len(q), q[i] = x PROVE x = Head(q) \/ In(x, Tail(q))
    BY <1>1, <1>2, <2>1 DEF In
  <2>2. ASSUME x = Head(q) \/ In(x, Tail(q)) PROVE In(x, q)
    BY <1>1, <1>3, <2>2 DEF In
  <2> QED
    BY <2>1, <2>2 DEF In
<1>5. ASSUME Once(q) PROVE Once(Tail(q)) /\ ~In(Head(q), Tail(q))
  BY <1>1, <1>3, <1>5 DEF In, Once
<1> QED
  BY <1>4, <1>5

LEMMA InConcat ==
  ASSUME NEW S, NEW q \in Seq(S), NEW r \in Seq(S)
  PROVE  \A x : In(x, q \o r) <=> In(x, q) \/ In(x, r)
<1>1. /\ Len(q) \in Nat /\ Len(r) \in Nat /\ Len(q \o r) = Len(q) + Len(r)
      /\ \A i \in 1..Len(q) : (q \o r)[i] = q[i]
      /\ \A i \in 1..Len(r) : (q \o r)[Len(q) + i] = r[i]
  OBVIOUS
<1>2. \A i \in 1..(Len(q) + Len(r)) : i \in 1..Len(q) \/ i - Len(q) \in 1..Len(r)
  BY <1>1
<1>3. \A i \in 1..Len(r) : Len(q) + i \in 1..(Len(q) + Len(r))
  BY <1>1
<1>4. \A i \in 1..Len(q) : i \in 1..(Len(q) + Len(r))
  BY <1>1
<1> SUFFICES ASSUME NEW x PROVE In(x, q \o r) <=> In(x, q) \/ In(x, r)
  OBVIOUS
<1>5. ASSUME NEW i \in 1..Len(q \o r), (q \o r)[i] = x PROVE In(x, q) \/ In(x, r)
  <2>1. CASE i \in 1..Len(q)
    BY <1>1, <1>5, <2>1 DEF In
  <2>2. CASE i - Len(q) \in 1..Len(r)
    <3>1. Len(q) + (i - Len(q)) = i
      BY <1>1
    <3> QED
      BY <1>1, <1>5, <2>2, <3>1 DEF In
  <2> QED
    BY <1>1, <1>2, <1>5, <2>1, <2>2
<1>6. ASSUME NEW i \in 1..Len(q), q[i] = x PROVE In(x, q \o r)
  BY <1>1, <1>4, <1>6 DEF In
<1>7. ASSUME NEW i \in 1..Len(r), r[i] = x PROVE In(x, q \o r)
  BY <1>1, <1>3, <1>7 DEF In
<1> QED
  BY <1>5, <1>6, <1>7 DEF In

LEMMA InSmall ==
  /\ \A x : ~In(x, <<>>)
  /\ \A x, e : In(x, <<e>>) <=> x = e
  /\ Once(<<>>) /\ \A e : Once(<<e>>)
  BY DEF In, Once

LEMMA AddedIsInjective ==
  /\ \A n, m : Added(n) = Added(m) => n = m
  /\ \A n : Added(n) \notin {Opened, Message, Disconnected} /\ Added(n).kind = "NetworkAdded"
           /\ Added(n).network = n
<1>1. \A n : Added(n).kind = "NetworkAdded" /\ Added(n).network = n
  BY DEF Added, Event
<1>2. Opened.kind = "SessionOpened" /\ Message.kind = "other"
      /\ Disconnected.kind = "ClientDisconnected"
  BY DEF Opened, Message, Disconnected
<1> QED
  BY <1>1, <1>2

\* What the fan-out will request, and what is announced, when a session opens.
LEMMA OpeningContents ==
  ASSUME NEW ids \in SUBSET Network
  PROVE  LET added == [i \in 1..Cardinality(ids) |-> Added(SetToSeq(ids)[i])]
             fanout == <<"BufferSyncer">> \o SetToSeq(ids)
         IN  /\ \A n \in Network : In(Added(n), <<>> \o (<<Opened>> \o added)) => n \in ids
             /\ Once(fanout)
             /\ \A n \in Network : In(n, fanout) <=> n \in ids
<1> DEFINE size == Cardinality(ids)
           f == SetToSeq(ids)
           added == [i \in 1..size |-> Added(f[i])]
           fanout == <<"BufferSyncer">> \o f
<1>1. /\ f \in Seq(Network) /\ Len(f) = size /\ size \in Nat /\ IsInjective(f)
      /\ \A i \in 1..size : f[i] \in ids
      /\ \A n \in ids : \E i \in 1..size : f[i] = n
  BY OrderOfNetworks
<1> HIDE DEF f, size
<1>2. added \in Seq(ClientEvent) /\ Len(added) = size /\ \A i \in 1..size : added[i] = Added(f[i])
  <2>1. \A i \in 1..size : Added(f[i]) \in ClientEvent
    BY <1>1, EventTypes
  <2> QED
    BY <1>1, <2>1
<1> HIDE DEF added
<1>3. \A n \in Network : In(Added(n), added) => n \in ids
  BY <1>1, <1>2, AddedIsInjective DEF In
<1>4. <<Opened>> \in Seq(ClientEvent) /\ <<Opened>> \o added \in Seq(ClientEvent)
  BY <1>2, EventTypes
<1>5. <<>> \o (<<Opened>> \o added) = <<Opened>> \o added
  BY <1>4, ConcatEmptySeq
<1>6. \A n \in Network : In(Added(n), <<Opened>> \o added) => n \in ids
  BY <1>2, <1>3, <1>4, InConcat, InSmall, AddedIsInjective
<1>7. \A n \in Network : In(n, fanout) <=> n \in ids
  <2>1. <<"BufferSyncer">> \in Seq({"BufferSyncer"} \cup Network)
        /\ f \in Seq({"BufferSyncer"} \cup Network)
    BY <1>1
  <2>2. \A n \in Network : In(n, f) <=> n \in ids
    BY <1>1 DEF In
  <2>3. \A x : In(x, fanout) <=> In(x, <<"BufferSyncer">>) \/ In(x, f)
    BY <2>1, InConcat, Zenon
  <2> QED
    BY <2>2, <2>3, InSmall, NamesAreDistinct, Zenon
<1>8. Once(fanout)
  <2>1. /\ Len(fanout) = size + 1 /\ fanout[1] = "BufferSyncer"
        /\ \A i \in 2..(size + 1) : fanout[i] = f[i - 1]
    BY <1>1
  <2>2. \A i \in 2..(size + 1) : i - 1 \in 1..size /\ f[i - 1] \in Network
    BY <1>1
  <2>3. \A i, j \in 1..size : f[i] = f[j] => i = j
    BY <1>1 DEF IsInjective
  <2>4. \A i \in 2..(size + 1) : fanout[i] # "BufferSyncer"
    BY <2>1, <2>2, NamesAreDistinct
  <2> HIDE DEF fanout
  <2>5. ASSUME NEW i \in 1..(size + 1), NEW j \in 1..(size + 1), fanout[i] = fanout[j]
        PROVE  i = j
    <3>1. CASE i \in 2..(size + 1) /\ j \in 2..(size + 1)
      <4>1. i - 1 = j - 1
        BY <2>1, <2>2, <2>3, <2>5, <3>1
      <4> QED
        BY <3>1, <4>1
    <3>2. CASE i = 1 \/ j = 1
      BY <1>1, <2>1, <2>4, <2>5, <3>2
    <3> QED
      BY <1>1, <3>1, <3>2
  <2> QED
    BY <2>1, <2>5 DEF Once
<1> QED
  BY <1>5, <1>6, <1>7, <1>8 DEF added, fanout, f, size
Name == {"BufferSyncer"} \cup Network

\* What the client knows of the networks: those covered and gone have been removed,
\* and only a network in the state is announced.
KnownInv ==
  /\ stream = <<>> => /\ pc = "next" /\ sent = <<>> /\ ~seeded
                      /\ announced = {} /\ bare = {} /\ removed = {}
  /\ seeded => announced \subseteq requested
  /\ Covered \ networks \subseteq removed
  /\ bare \subseteq networks
  /\ \A n \in Network : In(Added(n), pending) => n \in networks
  /\ pc \in {"yielded", "requesting"} => \A n \in Network : current = Added(n) => n \in networks

\* No name is written or queued twice, and every one of them is covered.
AskedInv ==
  /\ Once(sent) /\ Once(todo)
  /\ \A x \in Name : ~(In(x, sent) /\ In(x, todo))
  /\ \A n \in Network : In(n, sent) \/ In(n, todo) => n \in Covered
  /\ pc = "requesting" => /\ current.network \in Covered
                          /\ ~In(current.network, sent) /\ ~In(current.network, todo)

\* A network whose object was never asked for has its request still to come.
DueInv ==
  pc # "leaked" => \A n \in bare \ removed :
    \/ In(n, todo)
    \/ pc = "requesting" /\ current = Added(n)
    \/ pc = "yielded" /\ current = Added(n) /\ n \notin Covered
    \/ In(Added(n), pending) /\ n \notin Covered

RequestInv == KnownInv /\ AskedInv /\ DueInv

\* Two kinds of step leave all of it alone.
LEMMA RequestUnchanged ==
  ASSUME RequestInv, UNCHANGED <<pending, current, todo, store, asked, sent>>,
         \/ pc' \in {pc, "leaked"} \/ pc \notin {"yielded", "requesting", "leaked"},
         pc' \in {"yielded", "requesting"} => pc' = pc,
         pc = "next" => pc' = "next", stream' = stream
  PROVE  RequestInv'
<1> USE DEF store, asked
<1>1. Covered' = Covered
  BY DEF Covered
<1>2. KnownInv'
  BY <1>1 DEF RequestInv, KnownInv
<1>3. AskedInv'
  BY <1>1 DEF RequestInv, AskedInv
<1>4. DueInv'
  BY <1>1 DEF RequestInv, DueInv
<1> QED
  BY <1>2, <1>3, <1>4 DEF RequestInv

LEMMA OpeningRequests ==
  ASSUME TypeOK, ControlInv, RequestInv, NEW ids \in SUBSET Network, SessionReady(ids)
  PROVE  RequestInv'
<1>1. /\ pc = "next" /\ pending = <<>> /\ stream = <<>> /\ stream' = <<"ready">>
      /\ pc' = "drain" /\ sent = <<>> /\ ~seeded /\ removed = {}
      /\ announced' = ids /\ networks' = networks \cup ids /\ bare' = ids
      /\ UNCHANGED <<asked, sent, current, removed>>
      /\ todo' = <<"BufferSyncer">> \o SetToSeq(ids)
  BY DEF SessionReady, Waiting, Emit, KeepRequests, Proto!Open, Proto!Ready, ControlInv,
         RequestInv, KnownInv
<1>2. pending' = <<>> \o (<<Opened>> \o [i \in 1..Cardinality(ids) |-> Added(SetToSeq(ids)[i])])
  BY <1>1 DEF SessionReady, Emit
<1>3. /\ \A n \in Network : In(Added(n), pending') => n \in ids
      /\ Once(todo')
      /\ \A n \in Network : In(n, todo') <=> n \in ids
  BY <1>1, <1>2, OpeningContents
<1>4. Covered' = ids /\ ~seeded' /\ sent' = <<>> /\ removed' = {}
  BY <1>1 DEF Covered, asked
<1>5. KnownInv'
  BY <1>1, <1>3, <1>4 DEF KnownInv
<1>6. AskedInv'
  BY <1>1, <1>3, <1>4, InSmall DEF AskedInv
<1>7. DueInv'
  BY <1>1, <1>3 DEF DueInv
<1> QED
  BY <1>5, <1>6, <1>7 DEF RequestInv

\* Nothing is due when the next frame is awaited.
LEMMA NothingDue ==
  ASSUME ControlInv, RequestInv, pc = "next"
  PROVE  bare \subseteq removed
  BY InSmall DEF ControlInv, RequestInv, DueInv

LEMMA FrameRequests ==
  ASSUME TypeOK, ControlInv, RequestInv, Frame, NEW n,
         \/ n \in Network /\ (NetworkCreated(n) \/ NetworkFrame(n) \/ NetworkRemoved(n))
         \/ OtherFrame
  PROVE  RequestInv'
<1>1. /\ pc = "next" /\ pending = <<>> /\ todo = <<>> /\ stream # <<>> /\ stream' # <<>>
      /\ UNCHANGED <<announced, seeded, requested, sent, current, todo>>
      /\ bare \subseteq removed
  <2>1. Waiting /\ Proto!Deliver("frame")
    BY DEF Frame
  <2>2. stream' # <<>>
    <3>1. stream \in Seq({"ready", "frame", "disconnected"}) /\ stream' = Append(stream, "frame")
      BY <2>1 DEF Proto!Deliver, TypeOK
    <3> QED
      BY <3>1
  <2> QED
    BY <2>1, <2>2, NothingDue DEF Frame, Waiting, Proto!Deliver, ControlInv, KeepRequests, asked
<1>2. Covered' = Covered
  BY <1>1 DEF Covered
<1>3. ASSUME pc' = "drain" PROVE AskedInv'
  BY <1>1, <1>2, <1>3 DEF RequestInv, AskedInv
<1>4. ASSUME NEW events \in Seq(ClientEvent), Emit(events) PROVE pending' = events /\ pc' = "drain"
  BY <1>1, <1>4, ConcatEmptySeq DEF Emit
<1>5. ASSUME NEW events \in {<<>>, <<Message>>}, Emit(events), removed \subseteq removed',
             networks' \subseteq networks, networks \ networks' \subseteq removed',
             bare' \subseteq bare \cap networks'
      PROVE  RequestInv'
  <2>1. pc' = "drain" /\ pending' = events
    BY <1>4, <1>5, EventTypes
  <2>2. \A m \in Network : ~In(Added(m), pending')
    BY <1>5, <2>1, InSmall, AddedIsInjective
  <2>3. KnownInv'
    BY <1>1, <1>2, <1>5, <2>1, <2>2 DEF RequestInv, KnownInv
  <2>4. DueInv'
    BY <1>1, <1>5 DEF DueInv
  <2> QED
    BY <1>3, <2>1, <2>3, <2>4 DEF RequestInv
<1>6. ASSUME NEW rest \in {<<>>, <<Message>>}, n \in Network, n \notin networks, Appear(n, rest)
      PROVE  RequestInv'
  <2>1. pc' = "drain" /\ pending' = <<Added(n)>> \o rest
    BY <1>4, <1>6, EventTypes DEF Appear
  <2>2. \A m \in Network : In(Added(m), pending') <=> m = n
    <3>1. <<Added(n)>> \in Seq(ClientEvent) /\ rest \in Seq(ClientEvent)
      <4>1. Added(n) \in ClientEvent
        BY <1>6, EventTypes
      <4>2. rest \in Seq(ClientEvent)
        BY <1>6, EventTypes, Zenon
      <4> QED
        BY <4>1, <4>2
    <3>2. \A x : In(x, pending') <=> In(x, <<Added(n)>>) \/ In(x, rest)
      BY <2>1, <3>1, InConcat
    <3> QED
      BY <1>6, <3>2, InSmall, AddedIsInjective
  <2>3. /\ networks' = networks \cup {n} /\ bare' = bare \cup {n} /\ removed' = removed
    BY <1>6 DEF Appear
  <2>4. KnownInv'
    BY <1>1, <1>2, <2>1, <2>2, <2>3 DEF RequestInv, KnownInv
  <2>5. DueInv'
    <3>1. n \notin removed => n \notin Covered
      BY <1>6 DEF RequestInv, KnownInv
    <3> QED
      BY <1>1, <1>2, <1>6, <2>2, <2>3, <3>1 DEF DueInv
  <2> QED
    BY <1>3, <2>1, <2>4, <2>5 DEF RequestInv
<1>7. bare \subseteq networks
  BY DEF RequestInv, KnownInv
<1>8. CASE n \in Network /\ NetworkCreated(n)
  BY <1>5, <1>6, <1>7, <1>8 DEF NetworkCreated
<1>9. CASE n \in Network /\ NetworkFrame(n)
  BY <1>5, <1>6, <1>7, <1>9 DEF NetworkFrame
<1>10. CASE NetworkRemoved(n)
  BY <1>5, <1>7, <1>10 DEF NetworkRemoved
<1>11. CASE OtherFrame
  BY <1>5, <1>7, <1>11 DEF OtherFrame
<1> QED
  BY <1>8, <1>9, <1>10, <1>11
LEMMA DispatchRequests ==
  ASSUME TypeOK, ControlInv, RequestInv, Dispatch
  PROVE  RequestInv'
<1>1. ASSUME NEW ids \in SUBSET Network, SessionReady(ids) PROVE RequestInv'
  BY <1>1, OpeningRequests
<1>2. ASSUME NEW n \in Network, NetworkCreated(n) \/ NetworkFrame(n) \/ NetworkRemoved(n)
      PROVE  RequestInv'
  BY <1>2, FrameRequests DEF NetworkCreated, NetworkFrame, NetworkRemoved
<1>3. CASE OtherFrame
  BY <1>3, FrameRequests DEF OtherFrame
<1>4. ASSUME pc = "next", UNCHANGED <<current, todo, store, asked, sent>>, stream' # <<>>,
             pc' \in {"drain", "closing"}, \A n \in Network : ~In(Added(n), pending')
      PROVE  RequestInv'
  <2>1. Covered' = Covered
    BY <1>4 DEF Covered, asked, store
  <2>2. bare \subseteq removed
    BY <1>4, NothingDue
  <2>3. KnownInv'
    BY <1>4, <2>1 DEF RequestInv, KnownInv, asked, store
  <2>4. AskedInv'
    BY <1>4, <2>1 DEF RequestInv, AskedInv, asked, store
  <2>5. DueInv'
    BY <1>4, <2>2 DEF DueInv, store
  <2> QED
    BY <2>3, <2>4, <2>5 DEF RequestInv
<1>5. CASE DispatcherRaises
  <2>1. \A n \in Network : ~In(Added(n), pending')
    BY <1>5, InSmall, AddedIsInjective DEF DispatcherRaises
  <2>2. stream' # <<>>
    <3>1. CASE Proto!Open
      BY <3>1 DEF Proto!Open
    <3>2. CASE Proto!Deliver("frame")
      <4>1. stream \in Seq({"ready", "frame", "disconnected"}) /\ stream' = Append(stream, "frame")
        BY <3>2 DEF Proto!Deliver, TypeOK
      <4> QED
        BY <4>1
    <3> QED
      BY <1>5, <3>1, <3>2 DEF DispatcherRaises
  <2> QED
    BY <1>4, <1>5, <2>1, <2>2 DEF DispatcherRaises, Waiting, Conclude, KeepRequests
<1>6. CASE ProtoDisconnected
  <2>1. pending' = <<Disconnected>>
    BY <1>6, ConcatEmptySeq, EventTypes DEF ProtoDisconnected, Emit, ControlInv
  <2>2. \A n \in Network : ~In(Added(n), pending')
    BY <2>1, InSmall, AddedIsInjective
  <2>3. stream' # <<>>
    <3>1. stream \in Seq({"ready", "frame", "disconnected"})
          /\ stream' = Append(stream, "disconnected")
      BY <1>6 DEF ProtoDisconnected, Proto!Terminate, Proto!Disconnected, TypeOK
    <3> QED
      BY <3>1
  <2> QED
    BY <1>4, <1>6, <2>2, <2>3 DEF ProtoDisconnected, Emit, KeepRequests
<1> QED
  BY <1>1, <1>2, <1>3, <1>5, <1>6 DEF Dispatch

LEMMA YieldRequests ==
  ASSUME TypeOK, ControlInv, RequestInv, YieldPending
  PROVE  RequestInv'
<1>1. /\ pc = "drain" /\ pc' = "yielded" /\ current' = Head(pending) /\ pending' = Tail(pending)
      /\ UNCHANGED <<stream, todo, announced, networks, bare, removed, seeded, requested, sent>>
  BY DEF YieldPending, NextPending, store, asked
<1>2. Covered' = Covered
  BY <1>1 DEF Covered
<1>3. \A x : In(x, pending) <=> x = current' \/ In(x, pending')
  BY <1>1, InTail DEF YieldPending, TypeOK
<1>4. KnownInv'
  BY <1>1, <1>2, <1>3 DEF RequestInv, KnownInv
<1>5. AskedInv'
  BY <1>1, <1>2 DEF RequestInv, AskedInv
<1>6. DueInv'
  BY <1>1, <1>2, <1>3 DEF RequestInv, DueInv, TypeOK
<1> QED
  BY <1>4, <1>5, <1>6 DEF RequestInv

LEMMA AfterYieldRequests ==
  ASSUME TypeOK, ControlInv, RequestInv, AfterYield
  PROVE  RequestInv'
<1>1. /\ pc = "yielded" /\ pc' \in {"drain", "requesting"}
      /\ UNCHANGED <<stream, pending, current, todo, announced, networks, bare, removed, sent>>
  BY DEF AfterYield, store
<1>2. CASE current.kind # "NetworkAdded"
  <2>1. UNCHANGED <<seeded, requested>> /\ pc' = "drain" /\ \A n : current # Added(n)
    BY <1>2, AddedIsInjective DEF AfterYield, asked
  <2>2. Covered' = Covered
    BY <1>1, <2>1 DEF Covered
  <2>3. KnownInv' /\ AskedInv'
    BY <1>1, <2>1, <2>2 DEF RequestInv, KnownInv, AskedInv
  <2>4. DueInv'
    BY <1>1, <2>1, <2>2 DEF RequestInv, DueInv
  <2> QED
    BY <2>3, <2>4 DEF RequestInv
<1>3. CASE current.kind = "NetworkAdded"
  <2> DEFINE n == current.network
  <2>1. n \in Network /\ current = Added(n) /\ \A m : current = Added(m) => m = n
    BY <1>3, AddedHasNetwork, AddedIsInjective DEF TypeOK
  <2>2. seeded' = TRUE /\ requested' = Covered \cup {n}
        /\ pc' = IF n \in Covered THEN "drain" ELSE "requesting"
    BY <1>3 DEF AfterYield, Remember
  <2> HIDE DEF n
  <2>3. Covered' = Covered \cup {n}
    BY <2>2 DEF Covered
  <2>4. n \in networks /\ announced \subseteq Covered
    BY <1>1, <2>1 DEF RequestInv, KnownInv, Covered
  <2>5. stream # <<>> /\ stream' # <<>>
    BY <1>1 DEF RequestInv, KnownInv
  <2>6. KnownInv'
    BY <1>1, <2>1, <2>2, <2>3, <2>4, <2>5 DEF RequestInv, KnownInv
  <2>7. n \notin Covered => ~In(n, sent) /\ ~In(n, todo)
    BY <2>1 DEF RequestInv, AskedInv
  <2>8. AskedInv'
    BY <1>1, <2>2, <2>3, <2>7 DEF RequestInv, AskedInv, n
  <2>9. DueInv'
    <3> SUFFICES ASSUME NEW m \in bare \ removed
                 PROVE  \/ In(m, todo)
                        \/ pc' = "requesting" /\ current = Added(m)
                        \/ In(Added(m), pending) /\ m \notin Covered'
      BY <1>1 DEF DueInv
    <3>1. \/ In(m, todo)
          \/ current = Added(m) /\ m \notin Covered
          \/ In(Added(m), pending) /\ m \notin Covered
      BY <1>1 DEF RequestInv, DueInv
    <3> QED
      BY <2>1, <2>2, <2>3, <3>1
  <2> QED
    BY <2>6, <2>8, <2>9 DEF RequestInv
<1> QED
  BY <1>2, <1>3

LEMMA WriteRequests ==
  ASSUME TypeOK, ControlInv, RequestInv,
         RequestWritten \/ RequestFails \/ FanoutWritten
  PROVE  RequestInv'
<1>0. sent \in Seq(Name) /\ todo \in Seq(Name)
  BY DEF TypeOK, Name
<1>1. /\ UNCHANGED <<stream, pending, current, announced, networks, removed, seeded, requested>>
      /\ pc' \in {"drain", "fanout"} /\ pc \in {"requesting", "fanout"}
  BY DEF RequestWritten, RequestFails, FanoutWritten, asked
<1>2. Covered' = Covered
  BY <1>1 DEF Covered
<1>3. stream' # <<>>
  BY <1>1 DEF RequestInv, KnownInv
<1>4. ASSUME bare' \subseteq bare PROVE KnownInv'
  BY <1>1, <1>2, <1>3, <1>4 DEF RequestInv, KnownInv
<1>5. CASE RequestWritten \/ RequestFails
  <2> DEFINE n == current.network
  <2>1. n \in Network /\ current = Added(n) /\ \A m : current = Added(m) => m = n
    BY <1>5, AddedHasNetwork, AddedIsInjective DEF TypeOK, ControlInv, RequestWritten, RequestFails
  <2>2. /\ pc = "requesting" /\ pc' = "drain" /\ todo' = todo /\ bare' = bare \ {n}
        /\ sent' = Append(sent, n) \/ sent' = sent
    BY <1>5 DEF RequestWritten, RequestFails, Written
  <2>3. n \in Covered /\ ~In(n, sent) /\ ~In(n, todo)
    BY <2>2 DEF RequestInv, AskedInv
  <2> HIDE DEF n
  <2>4. /\ \A x : In(x, sent') => In(x, sent) \/ x = n
        /\ Once(sent')
    <3>1. n \in Name /\ Once(sent)
      BY <2>1 DEF Name, RequestInv, AskedInv
    <3>2. \A x : In(x, Append(sent, n)) <=> In(x, sent) \/ x = n
      BY <1>0, <3>1, InAppend
    <3>3. Once(Append(sent, n))
      BY <1>0, <2>3, <3>1, InAppend
    <3> QED
      BY <2>2, <3>1, <3>2, <3>3
  <2>5. AskedInv'
    BY <1>2, <2>2, <2>3, <2>4 DEF RequestInv, AskedInv
  <2>6. DueInv'
    BY <1>1, <1>2, <2>1, <2>2 DEF RequestInv, DueInv
  <2> QED
    BY <1>4, <2>2, <2>5, <2>6 DEF RequestInv
<1>6. CASE FanoutWritten
  <2> DEFINE h == Head(todo)
  <2>1. todo # <<>> /\ h \in Name
    BY <1>0, <1>6, HeadTypes DEF FanoutWritten, ControlInv
  <2>2. /\ pc = "fanout" /\ todo' = Tail(todo) /\ sent' = Append(sent, h) /\ bare' = bare \ {h}
    BY <1>6 DEF FanoutWritten, Written
  <2>3. /\ \A x : In(x, todo) <=> x = h \/ In(x, todo')
        /\ Once(todo') /\ ~In(h, todo')
    BY <1>0, <2>1, <2>2, InTail DEF RequestInv, AskedInv
  <2> HIDE DEF h
  <2>4. /\ \A x : In(x, sent') <=> In(x, sent) \/ x = h
        /\ Once(sent')
    BY <1>0, <2>1, <2>2, <2>3, InAppend DEF RequestInv, AskedInv
  <2>5. AskedInv'
    BY <1>1, <1>2, <2>1, <2>3, <2>4 DEF RequestInv, AskedInv
  <2>6. DueInv'
    BY <1>1, <1>2, <2>2, <2>3 DEF RequestInv, DueInv
  <2> QED
    BY <1>4, <2>2, <2>5, <2>6 DEF RequestInv
<1> QED
  BY <1>5, <1>6

LEMMA RequestStep ==
  ASSUME TypeOK, ControlInv, RequestInv, [Next]_vars
  PROVE  RequestInv'
<1>1. CASE Drained
  BY <1>1, RequestUnchanged DEF Drained
<1>2. CASE FanoutFails
  BY <1>2, RequestUnchanged DEF FanoutFails, Conclude
<1>3. CASE CloseLink
  BY <1>3, RequestUnchanged DEF CloseLink
<1>4. CASE Leak("requesting") \/ Leak("fanout")
  BY <1>4, RequestUnchanged DEF Leak
<1>5. CASE Close \/ UNCHANGED vars
  BY <1>5, RequestUnchanged DEF Close, vars
<1> QED
  BY <1>1, <1>2, <1>3, <1>4, <1>5, DispatchRequests, YieldRequests, AfterYieldRequests,
     WriteRequests
  DEF Next, Drain, Fanout

\* client.py:117-120: no name is ever requested twice, and when the next frame is
\* awaited every network that appeared in this session has been asked for, except
\* one that is back after having been removed.
THEOREM EveryNetworkRequestedOnce == Spec => []RequestedExactlyOnce
<1>1. Init => RequestInv
  BY InSmall DEF Init, RequestInv, KnownInv, AskedInv, DueInv, Covered, Message, Proto!Init,
     Added, Event
<1>2. TypeOK /\ ControlInv /\ RequestInv /\ [Next]_vars => RequestInv'
  BY RequestStep
<1>3. ASSUME TypeOK, ControlInv, RequestInv PROVE RequestedExactlyOnce
  <2>1. pc = "next" => bare \subseteq removed
    BY <1>3, NothingDue
  <2>2. \A i, j \in DOMAIN sent : i # j => sent[i] # sent[j]
    BY <1>3 DEF RequestInv, AskedInv, Once, TypeOK
  <2> QED
    BY <2>1, <2>2 DEF RequestedExactlyOnce
<1> QED
  BY <1>1, <1>2, <1>3, Typed, PTL DEF Spec
================================================================================
