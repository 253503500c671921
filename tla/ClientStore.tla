------------------------------- MODULE ClientStore -------------------------------
(***************************************************************************)
(* The buffers, message histories and backlog latches of ClientState, as   *)
(* the Dispatcher maintains them from the frames of the core, and          *)
(* QuasselClient.request_backlog, which runs in other tasks.  One          *)
(* ClientState survives reconnects; the core goes on while we are away.    *)
(*                                                                         *)
(* The core is external.  It numbers messages in the order it stores them, *)
(* handles requests in order, and its connection is a pair of FIFO queues  *)
(* that a disconnect empties.                                              *)
(***************************************************************************)
EXTENDS Integers, Sequences, FiniteSets, SequencesExt

CONSTANTS
  Buffer,       \* the BufferIds the core ever uses
  Network,      \* the NetworkIds the core ever uses
  NetworkOf,    \* BufferInfo.network_id
  Limit,        \* the `limit` of requestBacklog
  Cap,          \* max_messages_per_buffer; 0 is "no cap"
  MaxId,        \* bound: how many messages the core stores
  MaxQueue,     \* bound: how many frames are on their way to the client
  MaxSessions   \* bound: how many times the client connects

ASSUME NetworkOfAssumption == NetworkOf \in [Buffer -> Network]
ASSUME BoundsAssumption ==
  /\ Limit \in Nat \ {0} /\ Cap \in Nat
  /\ MaxId \in Nat /\ MaxQueue \in Nat /\ MaxSessions \in Nat

VARIABLES
  \* the core
  coreNetworks, \* its networks
  coreBuffers,  \* its buffers
  log,          \* the ids it has stored for each buffer
  lastId,       \* the last id it gave
  \* the connection
  up,           \* a session is established
  sessions,     \* how many sessions there have been
  inbox,        \* frames on their way to the client
  requests,     \* requestBacklog calls on their way to the core
  \* ClientState
  networks,     \* the keys of networks
  buffers,      \* the keys of buffers
  histories,    \* the keys of messages
  messages,     \* the ids of each message list, in order
  latched,      \* backlog_requested
  \* request_backlog
  sending,      \* the buffers whose request is suspended in send()
  \* history
  view,         \* the buffers according to the events emitted so far
  answered      \* the buffers whose backlog arrived in this session

core    == <<coreNetworks, coreBuffers, log, lastId>>
session == <<up, sessions>>
store   == <<networks, buffers, histories, messages>>
vars == <<core, session, inbox, requests, store, latched, sending, view, answered>>

MessageFrame(b, id)   == [kind |-> "displayMsg", buffer |-> b, id |-> id]
BacklogFrame(b, ids)  == [kind |-> "receiveBacklog", buffer |-> b, ids |-> ids]
RemoveFrame(b)        == [kind |-> "removeBuffer", buffer |-> b]
NetworkFrame(k, n)    == [kind |-> k, network |-> n]

BuffersOf(n) == {b \in Buffer : NetworkOf[b] = n}

Init ==
  /\ coreNetworks = Network /\ coreBuffers = {}
  /\ log = [b \in Buffer |-> {}] /\ lastId = 0
  /\ up = FALSE /\ sessions = 0
  /\ inbox = <<>> /\ requests = <<>>
  /\ networks = {} /\ buffers = {} /\ histories = {}
  /\ messages = [b \in Buffer |-> <<>>]
  /\ latched = {} /\ sending = {}
  /\ view = {} /\ answered = {}

--------------------------------------------------------------------------------
(* The core.                                                                *)

Room == Len(inbox) < MaxQueue
Tell(frame) == inbox' = IF up THEN Append(inbox, frame) ELSE inbox

CoreOnly == UNCHANGED <<session, store, latched, sending, view, answered>>

\* A message is stored and shown; the first one of a buffer creates the buffer.
CoreMessage(b) ==
  /\ NetworkOf[b] \in coreNetworks /\ lastId < MaxId /\ Room
  /\ lastId' = lastId + 1
  /\ coreBuffers' = coreBuffers \cup {b}
  /\ log' = [log EXCEPT ![b] = @ \cup {lastId + 1}]
  /\ Tell(MessageFrame(b, lastId + 1))
  /\ CoreOnly /\ UNCHANGED <<coreNetworks, requests>>

\* removeBuffer, or the losing side of mergeBuffersPermanently.
CoreRemoveBuffer(b) ==
  /\ b \in coreBuffers /\ Room
  /\ coreBuffers' = coreBuffers \ {b}
  /\ log' = [log EXCEPT ![b] = {}]
  /\ Tell(RemoveFrame(b))
  /\ CoreOnly /\ UNCHANGED <<coreNetworks, lastId, requests>>

CoreRemoveNetwork(n) ==
  /\ n \in coreNetworks /\ Room
  /\ coreNetworks' = coreNetworks \ {n}
  /\ coreBuffers' = coreBuffers \ BuffersOf(n)
  /\ log' = [b \in Buffer |-> IF b \in BuffersOf(n) THEN {} ELSE log[b]]
  /\ Tell(NetworkFrame("networkRemoved", n))
  /\ CoreOnly /\ UNCHANGED <<lastId, requests>>

CoreCreateNetwork(n) ==
  /\ n \notin coreNetworks /\ Room
  /\ coreNetworks' = coreNetworks \cup {n}
  /\ Tell(NetworkFrame("networkCreated", n))
  /\ CoreOnly /\ UNCHANGED <<coreBuffers, log, lastId, requests>>

\* The most recent Limit ids of a buffer.
Newest(ids) == {x \in ids : Cardinality({y \in ids : y > x}) < Limit}

CoreServe ==
  /\ up /\ requests # <<>> /\ Room
  /\ Tell(BacklogFrame(Head(requests), Newest(log[Head(requests)])))
  /\ requests' = Tail(requests)
  /\ CoreOnly /\ UNCHANGED core

--------------------------------------------------------------------------------
(* The dispatcher.  The definitions marked "Mutant" are not part of the model: *)
(* each is a plausible bug that one of the properties must detect.            *)

\* Mutant of Trim: `del list[len - cap]` for the slice.
TrimOneEntry(s) ==
  IF Cap > 0 /\ Len(s) > Cap THEN RemoveAt(s, Len(s) - Cap + 1) ELSE s

\* `del list[: len - cap]`: the newest Cap entries stay.
Trim(s) == IF Cap > 0 /\ Len(s) > Cap THEN SubSeq(s, Len(s) - Cap + 1, Len(s)) ELSE s

\* Mutant of SeedLatches: the latches of the last session survive.
SeedLatchesKept == latched' = latched

SeedLatches == latched' = {}

\* A handshake succeeded: seed_from_session on the state of the last session.
\* By then close() has ended every send() of the old connection.
Connect ==
  /\ ~up /\ sessions < MaxSessions /\ sending = {}
  /\ up' = TRUE /\ sessions' = sessions + 1
  /\ SeedLatches
  /\ networks' = networks \cup coreNetworks
  /\ buffers' = buffers \cup coreBuffers
  /\ histories' = histories \cup coreBuffers
  /\ view' = view \cup coreBuffers
  /\ answered' = {}
  /\ UNCHANGED <<core, inbox, requests, messages, sending>>

\* The connection is lost with everything on it.
Disconnect ==
  /\ up
  /\ up' = FALSE
  /\ inbox' = <<>> /\ requests' = <<>>
  /\ UNCHANGED <<core, sessions, store, latched, sending, view, answered>>

Receive(kind) ==
  /\ inbox # <<>> /\ Head(inbox).kind = kind
  /\ inbox' = Tail(inbox)
  /\ UNCHANGED <<core, session, requests, sending>>

Appended(b, id) == Trim(Append(messages[b], id))

AnnounceNew(b) == view' = view \cup {b}

\* displayMsg: a first message creates its buffer (BufferAdded), then
\* the message is appended as it comes.
ReceiveMessage ==
  /\ Receive("displayMsg")
  /\ LET b == Head(inbox).buffer IN
       /\ buffers' = buffers \cup {b}
       /\ histories' = histories \cup {b}
       /\ messages' = [messages EXCEPT ![b] = Appended(b, Head(inbox).id)]
       /\ AnnounceNew(b)
  /\ UNCHANGED <<networks, latched, answered>>

\* `list.sort`: entry k is the one with k - 1 entries before it; equal ids keep
\* their order.
Before(s, i, j) == s[i] < s[j] \/ (s[i] = s[j] /\ i < j)
Place(s, i) == 1 + Cardinality({j \in DOMAIN s : Before(s, j, i)})
Sorted(s) == [k \in DOMAIN s |-> s[CHOOSE i \in DOMAIN s : Place(s, i) = k]]

\* Mutant of Merged: the reply is appended without deduplication.
MergedWithDuplicates(s, ids) == Trim(Sorted(s \o SetToSeq(ids)))

\* Known ids are dropped, the rest is added and the list is sorted.
Merged(s, ids) == Trim(Sorted(s \o SetToSeq(ids \ Range(s))))

\* Mutant of BacklogTarget: a late reply resurrects its buffer's history.
BacklogTargetAny(b) == TRUE

BacklogTarget(b) == b \in buffers

\* receiveBacklog and _merge_backlog; a reply for a buffer that is gone only
\* releases its latch.
ReceiveBacklog ==
  /\ Receive("receiveBacklog")
  /\ LET b == Head(inbox).buffer IN
       IF BacklogTarget(b)
       THEN /\ histories' = histories \cup {b}
            /\ messages' = [messages EXCEPT ![b] = Merged(@, Head(inbox).ids)]
            /\ answered' = answered \cup {b}
            /\ UNCHANGED latched
       ELSE /\ latched' = latched \ {b}
            /\ UNCHANGED <<histories, messages, answered>>
  /\ UNCHANGED <<networks, buffers, view>>

\* Deleting buffers and their message lists, with one BufferRemoved for each.
Drop(gone) ==
  /\ buffers' = buffers \ gone
  /\ histories' = histories \ gone
  /\ messages' = [b \in Buffer |-> IF b \in gone THEN <<>> ELSE messages[b]]
  /\ view' = view \ gone

\* The removal drained by _drain_buffer_syncer_pending: the latch stays.
ReceiveRemove ==
  /\ Receive("removeBuffer")
  /\ Drop({Head(inbox).buffer} \cap buffers)
  /\ UNCHANGED <<networks, latched, answered>>

Doomed(n) == BuffersOf(n) \cap buffers

\* networkRemoved of an unknown network is ignored.
ReceiveNetworkRemoved ==
  /\ Receive("networkRemoved")
  /\ LET n == Head(inbox).network IN
       IF n \in networks
       THEN /\ networks' = networks \ {n}
            /\ Drop(Doomed(n))
            /\ latched' = latched \ Doomed(n)
       ELSE UNCHANGED <<store, latched, view>>
  /\ UNCHANGED answered

ReceiveNetworkCreated ==
  /\ Receive("networkCreated")
  /\ networks' = networks \cup {Head(inbox).network}
  /\ UNCHANGED <<buffers, histories, messages, latched, view, answered>>

--------------------------------------------------------------------------------
(* request_backlog.                                                         *)

RequestOnly == UNCHANGED <<core, session, inbox, store, view, answered>>

Claim(b) == latched' = latched \cup {b}

\* The latch is claimed, and the frame handed to the transport, before the
\* first await.  A connection that is not CONNECTED raises at once and the
\* latch is released again, which changes nothing; a lost connection that
\* nobody has closed yet swallows the frame.
RequestBacklog(b) ==
  /\ b \in buffers \ latched /\ sessions > 0
  /\ Claim(b)
  /\ sending' = sending \cup {b}
  /\ requests' = IF up THEN Append(requests, b) ELSE requests
  /\ RequestOnly

\* drain() returned, or the task was cancelled while it waited.
RequestSent(b) ==
  /\ b \in sending
  /\ sending' = sending \ {b}
  /\ RequestOnly /\ UNCHANGED <<requests, latched>>

\* drain() raised: only a lost connection makes it.
RequestFails(b) ==
  /\ b \in sending /\ ~up
  /\ sending' = sending \ {b}
  /\ latched' = latched \ {b}
  /\ RequestOnly /\ UNCHANGED requests

--------------------------------------------------------------------------------

Core ==
  \/ \E b \in Buffer : CoreMessage(b) \/ CoreRemoveBuffer(b)
  \/ \E n \in Network : CoreRemoveNetwork(n) \/ CoreCreateNetwork(n)
  \/ CoreServe

Dispatcher ==
  \/ Connect \/ Disconnect
  \/ ReceiveMessage \/ ReceiveBacklog \/ ReceiveRemove
  \/ ReceiveNetworkRemoved \/ ReceiveNetworkCreated

Requester == \E b \in Buffer : RequestBacklog(b) \/ RequestSent(b) \/ RequestFails(b)

Next == Core \/ Dispatcher \/ Requester

Spec == Init /\ [][Next]_vars

--------------------------------------------------------------------------------
(* Properties.                                                              *)

Frame ==
  [kind : {"displayMsg"}, buffer : Buffer, id : Nat]
    \cup [kind : {"receiveBacklog"}, buffer : Buffer, ids : SUBSET Nat]
    \cup [kind : {"removeBuffer"}, buffer : Buffer]
    \cup [kind : {"networkRemoved", "networkCreated"}, network : Network]

\* Type invariant of every variable.
ControlTypeOK ==
  /\ coreNetworks \subseteq Network /\ coreBuffers \subseteq Buffer
  /\ log \in [Buffer -> SUBSET Nat] /\ lastId \in Nat
  /\ up \in BOOLEAN /\ sessions \in Nat
  /\ inbox \in Seq(Frame) /\ requests \in Seq(Buffer)
  /\ networks \subseteq Network /\ buffers \subseteq Buffer /\ histories \subseteq Buffer
  /\ latched \subseteq Buffer /\ sending \subseteq Buffer
  /\ view \subseteq Buffer /\ answered \subseteq Buffer
TypeOK == ControlTypeOK /\ messages \in [Buffer -> Seq(Nat)]

\* Every history is sorted, free of duplicates and within the retention cap,
\* although live messages are appended unchecked and backlog replies race with
\* them and with reconnects.
HistorySorted ==
  \A b \in Buffer :
    /\ \A i, j \in DOMAIN messages[b] : i < j => messages[b][i] < messages[b][j]
    /\ Cap > 0 => Len(messages[b]) <= Cap

\* A message list exists for exactly the known buffers, and the BufferAdded and
\* BufferRemoved events describe exactly them.
StoreConsistent == histories = buffers /\ view = buffers

InFlight(b) ==
  \/ \E i \in DOMAIN requests : requests[i] = b
  \/ \E i \in DOMAIN inbox : inbox[i].kind = "receiveBacklog" /\ inbox[i].buffer = b

\* A latch is never stranded: on a live connection a latched buffer has its
\* reply, or the request or the reply is on its way.
LatchNotStranded == up => \A b \in latched : b \in answered \/ InFlight(b)

\* When nothing is on its way, the client knows exactly the core's networks
\* and buffers: "canonical view of the current Quassel session" (state.py:42).
CanonicalView ==
  up /\ inbox = <<>> => networks = coreNetworks /\ buffers = coreBuffers

\* A history whose backlog has arrived has no hole: of the ids the core holds,
\* none is missing between the oldest and the newest one shown.
NoHole(b) ==
  LET shown == Range(messages[b])
  IN \A id \in log[b] : (\E x, y \in shown : x < id /\ id < y) => id \in shown

\* In the first session of a ClientState it mirrors the core: nothing the core
\* dropped is left, and live traffic and backlog always meet without a hole.
\* (Neither is true after a reconnect: what vanished in between is kept, and
\* dispatcher.py:177-179, "safely fill the gap since the disconnect", holds only
\* up to `Limit` missed messages.)
FirstSessionMirrors ==
  sessions = 1 => CanonicalView /\ \A b \in coreBuffers : NoHole(b)
================================================================================
