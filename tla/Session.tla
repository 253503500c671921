---------------------------------- MODULE Session ----------------------------------
(***************************************************************************)
(* QuasselClient.events() (client/client.py): it iterates the connection,  *)
(* which is here only what EventStream promises, hands every protocol      *)
(* event to the dispatcher, yields the client events the dispatcher put    *)
(* into _pending_events one by one, and asks the core for the state of     *)
(* every network: the fan-out at SessionReady, and a request of its own    *)
(* for a network that appears later.  The owner may close() at any time.   *)
(***************************************************************************)
EXTENDS Naturals, Sequences, FiniteSets, SequencesExt

CONSTANTS
  Network,     \* the NetworkIds
  Leftover,    \* the networks of a reused ClientState, {} in the first session
  MaxEvents    \* bound: how many events the connection yields

\* A NetworkId is an int32, so there are finitely many; it is not a class name.
ASSUME NetworkAssumption == IsFiniteSet(Network) /\ "BufferSyncer" \notin Network
ASSUME LeftoverAssumption == Leftover \subseteq Network
ASSUME MaxEventsAssumption == MaxEvents \in Nat

VARIABLES
  stream,    \* what the connection has yielded
  ended,     \* the connection's iterator is exhausted
  link,      \* "open", "closed" by the owner or by us, "early" before SessionReady
  pc,        \* where events() is suspended
  pending,   \* self._pending_events
  current,   \* the client event last yielded
  todo,      \* what the fan-out has still to request
  announced, \* state.session.network_ids
  networks,  \* the keys of state.networks
  objects,   \* the Network objects in the dispatcher's registry
  seeded,    \* self._networks_requested is not None
  requested, \* self._networks_requested
  out,       \* every client event yielded, in order
  sent,      \* every InitRequest written, in order
  emitted,   \* history: every event the dispatcher emitted before it failed
  bare,      \* history: networks whose present object was never asked for
  removed    \* history: networks that have been removed

asked   == <<seeded, requested>>
store   == <<announced, networks, objects, bare, removed>>
vars == <<stream, ended, link, pc, pending, current, todo, store, asked,
          out, sent, emitted>>

\* The connection, as Connection implements it.
Proto == INSTANCE EventStream WITH Payload <- {"frame"}

Event(kind, n) == [kind |-> kind, network |-> n]
Added(n)     == Event("NetworkAdded", n)
Opened       == [kind |-> "SessionOpened"]
Message      == [kind |-> "other"]
Disconnected == [kind |-> "ClientDisconnected"]

Init ==
  /\ Proto!Init /\ link = "open"
  /\ pc = "next" /\ pending = <<>> /\ current = Message /\ todo = <<>>
  /\ announced = {} /\ networks = Leftover /\ objects = {} /\ seeded = FALSE /\ requested = {}
  /\ out = <<>> /\ sent = <<>> /\ emitted = <<>> /\ bare = {} /\ removed = {}

--------------------------------------------------------------------------------
(* The next event of the connection, up to the first yield.  The definitions   *)
(* marked "Mutant" are not part of the model: each is a plausible bug that one *)
(* of the properties must detect.                                             *)

Emit(events) ==
  /\ pending' = pending \o events
  /\ emitted' = emitted \o events
  /\ pc' = "drain"

Waiting == pc = "next" /\ Len(stream) < MaxEvents
KeepRequests == UNCHANGED <<asked, sent, current>>

\* seed_from_session: the session's networks are registered anew, those of the
\* last session stay in the state.
SessionReady(ids) ==
  /\ Waiting /\ Proto!Open
  /\ announced' = ids
  /\ networks' = networks \cup ids
  /\ objects' = ids /\ bare' = ids
  /\ todo' = <<"BufferSyncer">> \o SetToSeq(ids)
  /\ Emit(<<Opened>> \o [i \in 1..Cardinality(ids) |-> Added(SetToSeq(ids)[i])])
  /\ KeepRequests /\ UNCHANGED <<link, out, removed>>

Frame == Waiting /\ Proto!Deliver("frame") /\ KeepRequests /\ UNCHANGED <<link, out, todo, announced>>

\* A new Network object enters the state and is announced, before what the frame
\* itself makes of it.
Appear(n, rest) ==
  /\ networks' = networks \cup {n}
  /\ objects' = objects \cup {n}
  /\ bare' = bare \cup {n}
  /\ Emit(<<Added(n)>> \o rest)
  /\ UNCHANGED removed

NetworkCreated(n) ==
  /\ Frame
  /\ IF n \in networks THEN Emit(<<>>) /\ UNCHANGED <<networks, objects, bare, removed>>
                       ELSE Appear(n, <<>>)

\* Sync or InitData for a Network: _lookup_or_create and _link_new_object, then
\* a NetworkUpdated or nothing.  A network the state knows from the last session
\* keeps its old object there, and the new one is not announced.
NetworkFrame(n) ==
  /\ Frame
  /\ \E rest \in {<<>>, <<Message>>} :
       IF n \notin networks THEN Appear(n, rest)
       ELSE /\ objects' = objects \cup {n}
            /\ Emit(rest)
            /\ UNCHANGED <<networks, bare, removed>>

NetworkRemoved(n) ==
  /\ Frame
  /\ IF n \in networks
     THEN /\ networks' = networks \ {n} /\ objects' = objects \ {n}
          /\ bare' = bare \ {n} /\ removed' = removed \cup {n}
          /\ Emit(<<Message>>)
     ELSE Emit(<<>>) /\ UNCHANGED <<networks, objects, bare, removed>>

\* A frame that makes one event, or none (heartbeats, InitRequests, unknown calls).
OtherFrame ==
  /\ Frame
  /\ Emit(<<Message>>) \/ Emit(<<>>)
  /\ UNCHANGED <<networks, objects, bare, removed>>

\* Mutant of Conclude: close() and return without a word.
ConcludeSilently == pc' = "closing" /\ UNCHANGED out

\* A terminal event of our own; close() follows when the consumer comes back.
Conclude == pc' = "closing" /\ out' = Append(out, Disconnected)

\* The dispatcher raises, perhaps after emitting an event: the broad except
\* reports it, and what is pending is never yielded.
DispatcherRaises ==
  /\ Waiting /\ (Proto!Open \/ Proto!Deliver("frame"))
  /\ pending' \in {<<>>, <<Message>>}
  /\ Conclude
  /\ KeepRequests /\ UNCHANGED <<link, todo, store, emitted>>

\* The connection's terminal event becomes ours.
ProtoDisconnected ==
  /\ pc = "next" /\ Proto!Terminate
  /\ Emit(<<Disconnected>>)
  /\ KeepRequests /\ UNCHANGED <<link, out, todo, store>>

--------------------------------------------------------------------------------
(* Draining _pending_events.                                                *)

\* Mutant of NextPending: pop() for pop(0).
NextPendingLast == pending[Len(pending)]

NextPending == Head(pending)

YieldPending ==
  /\ pc = "drain" /\ pending # <<>>
  /\ current' = NextPending
  /\ out' = Append(out, NextPending)
  /\ pending' = IF NextPending = Head(pending) THEN Tail(pending) ELSE Front(pending)
  /\ pc' = "yielded"
  /\ UNCHANGED <<stream, ended, link, todo, store, asked, sent, emitted>>

\* Mutant of Covered: every network the state knows is.
CoveredByState == networks

\* The networks that need no request of their own: seeded, on first use, with
\* those the fan-out covers.
Covered == IF seeded THEN requested ELSE announced

Remember(n) == requested' = Covered \cup {n}

\* _maybe_request_network_init, when the consumer comes back.
AfterYield ==
  /\ pc = "yielded"
  /\ IF current.kind # "NetworkAdded"
     THEN pc' = "drain" /\ UNCHANGED asked
     ELSE /\ seeded' = TRUE
          /\ IF current.network \in Covered
             THEN pc' = "drain" /\ requested' = Covered
             ELSE pc' = "requesting" /\ Remember(current.network)
  /\ UNCHANGED <<stream, ended, link, pending, current, todo, store, out, sent, emitted>>

\* send() raises the errors that the callers catch, or, once close() came before
\* SessionReady, the assertion on the writer, which nobody catches.
MayWrite == link # "closed"
MayLeak  == link = "early"

Written(name) == sent' = Append(sent, name) /\ bare' = bare \ {name}

Leak(at) ==
  /\ pc = at /\ MayLeak
  /\ pc' = "leaked"
  /\ UNCHANGED <<stream, ended, link, pending, current, todo, store, asked,
                 out, sent, emitted>>

RequestWritten ==
  /\ pc = "requesting" /\ MayWrite
  /\ Written(current.network)
  /\ pc' = "drain"
  /\ UNCHANGED <<stream, ended, link, pending, current, todo, announced, networks,
                 objects, removed, asked, out, emitted>>

\* Logged, not fatal.
RequestFails ==
  /\ pc = "requesting"
  /\ bare' = bare \ {current.network}
  /\ pc' = "drain"
  /\ UNCHANGED <<stream, ended, link, pending, current, todo, announced, networks,
                 objects, removed, asked, out, sent, emitted>>

\* Nothing is pending: return after the terminal event, fan out after
\* SessionReady, go on otherwise.
Drained ==
  /\ pc = "drain" /\ pending = <<>>
  /\ pc' = IF Proto!Terminated THEN "done" ELSE IF todo # <<>> THEN "fanout" ELSE "next"
  /\ UNCHANGED <<stream, ended, link, pending, current, todo, store, asked,
                 out, sent, emitted>>

--------------------------------------------------------------------------------
(* The fan-out and the end.                                                 *)

FanoutWritten ==
  /\ pc = "fanout" /\ MayWrite
  /\ Written(Head(todo))
  /\ todo' = Tail(todo)
  /\ pc' = IF Tail(todo) = <<>> THEN "drain" ELSE "fanout"
  /\ UNCHANGED <<stream, ended, link, pending, current, announced, networks, objects,
                 removed, asked, out, emitted>>

FanoutFails ==
  /\ pc = "fanout"
  /\ Conclude
  /\ UNCHANGED <<stream, ended, link, pending, current, todo, store, asked, sent, emitted>>

\* The consumer comes back after our own terminal event: close() and return.
CloseLink ==
  /\ pc = "closing"
  /\ link' = IF link = "open" THEN "closed" ELSE link
  /\ pc' = "done"
  /\ UNCHANGED <<stream, ended, pending, current, todo, store, asked, out, sent, emitted>>

\* close(), by the owner.
Close ==
  /\ link = "open"
  /\ link' = IF stream = <<>> THEN "early" ELSE "closed"
  /\ UNCHANGED <<stream, ended, pc, pending, current, todo, store, asked,
                 out, sent, emitted>>

Dispatch ==
  \/ \E ids \in SUBSET Network : SessionReady(ids)
  \/ \E n \in Network : NetworkCreated(n) \/ NetworkFrame(n) \/ NetworkRemoved(n)
  \/ OtherFrame \/ DispatcherRaises \/ ProtoDisconnected

Drain == YieldPending \/ AfterYield \/ RequestWritten \/ RequestFails \/ Drained

Fanout == FanoutWritten \/ FanoutFails \/ CloseLink

Next == Dispatch \/ Drain \/ Fanout \/ Leak("requesting") \/ Leak("fanout") \/ Close

Spec == Init /\ [][Next]_vars

--------------------------------------------------------------------------------
(* Properties.                                                              *)

ClientEvent == {Opened, Message, Disconnected} \cup {Added(n) : n \in Network}

\* Type invariant of every variable.
TypeOK ==
  /\ stream \in Seq({"ready", "frame", "disconnected"}) /\ ended \in BOOLEAN
  /\ link \in {"open", "closed", "early"}
  /\ pc \in {"next", "drain", "yielded", "requesting", "fanout", "closing", "done", "leaked"}
  /\ pending \in Seq(ClientEvent) /\ current \in ClientEvent
  /\ todo \in Seq({"BufferSyncer"} \cup Network)
  /\ announced \subseteq Network /\ networks \subseteq Network /\ objects \subseteq Network
  /\ seeded \in BOOLEAN /\ requested \subseteq Network
  /\ out \in Seq(ClientEvent) /\ emitted \in Seq(ClientEvent)
  /\ sent \in Seq({"BufferSyncer"} \cup Network)
  /\ bare \subseteq Network /\ removed \subseteq Network

\* client.py:137-144: however the connection, the dispatcher or the fan-out
\* fails, the client's iterator keeps the promise the connection's keeps, with
\* SessionOpened and ClientDisconnected at its ends.  (An assertion that leaks,
\* after a close() during the handshake, is not an end of the iterator here.)
AsStream(events) ==
  [i \in DOMAIN events |->
     CASE events[i] = Opened -> "ready" [] events[i] = Disconnected -> "disconnected"
       [] OTHER -> "event"]
Promise == INSTANCE EventStream
             WITH stream <- AsStream(out), ended <- (pc = "done"), Payload <- {"event"}
ImplementsEventStream == Promise!Spec

\* Every event the dispatcher emitted reaches the consumer, in order and before
\* the next frame is read: only a terminal event of our own cuts the stream.
EventsFaithful ==
  /\ \/ IsPrefix(out, emitted)
     \/ out # <<>> /\ Last(out) = Disconnected /\ IsPrefix(Front(out), emitted)
  /\ pc = "next" => out = emitted

\* client.py:117-120: a network that appears mid-session is asked for once and
\* those of the fan-out get no extra request; and when the next frame is awaited
\* every network that appeared in this session has been asked for, so that its
\* name and roster populate, except one that is back after having been removed.
RequestedExactlyOnce ==
  /\ \A i, j \in DOMAIN sent : i # j => sent[i] # sent[j]
  /\ pc = "next" => bare \subseteq removed
================================================================================
