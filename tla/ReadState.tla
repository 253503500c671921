-------------------------------- MODULE ReadState --------------------------------
(***************************************************************************)
(* What the user has read: the markers of ClientState.read_markers, placed *)
(* from the message log or with an empty line, and the last-seen positions *)
(* reported when a buffer is left.  Both go to the core as requests of     *)
(* workers, and the core's marker lines come back with the BufferSyncer's  *)
(* InitData (app/app.py, app/widgets/message_log.py, sync/buffer_syncer.py,*)
(* sync/dispatcher.py, client/client.py).                                  *)
(*                                                                         *)
(* As in AppUi a frame is one step of the client, bridge included.  The    *)
(* log has a queue of its own: an Enter waits there as the id of the row.  *)
(* BufferSyncer.last_seen_by_buffer is written and never read: left out.   *)
(***************************************************************************)
EXTENDS Naturals, Sequences, FiniteSets

CONSTANTS
  Buffer,      \* the BufferIds
  NoBuffer,    \* None
  Network,     \* the NetworkIds
  NetworkOf,   \* the network of each buffer
  MaxId,       \* bound: message ids are 1 .. MaxId
  MaxActs,     \* bound: how many things the user does
  MaxMoves,    \* bound: how many markers other clients move, buffers and networks they remove
  MaxSessions, \* bound
  MaxWire,     \* bound: requests and frames in flight
  MaxQueue     \* bound: nothing is posted by core or user while this many messages wait

ASSUME NoBufferAssumption == NoBuffer \notin Buffer
ASSUME NetworkOfAssumption == NetworkOf \in [Buffer -> Network]
ASSUME BoundsAssumption ==
  {MaxId, MaxActs, MaxMoves, MaxSessions, MaxWire, MaxQueue} \subseteq Nat

Id     == 1 .. MaxId
NoId   == 0          \* a missing key; -1 on the wire for a marker line
AnyId  == {NoId} \cup Id

BuffersOf(n) == {b \in Buffer : NetworkOf[b] = n}

VARIABLES
  stored,    \* the messages the core stored for each buffer, removed ones included
  coreLine,  \* its marker line of each buffer
  toCore, toClient,
  gone,      \* the buffers removed from the core
  networks,  \* the networks it has
  link,      \* "starting", "open" or "down"
  buffers,   \* the keys of state.buffers
  messages,  \* state.messages, the ids of each buffer
  markers,   \* state.read_markers
  lines,     \* the BufferSyncer's marker_lines_by_buffer
  latched,   \* state.backlog_requested
  lost,      \* connection_lost
  active,    \* active_buffer_id
  debounce,  \* a debounce task is sleeping
  inbox,     \* the app's message queue
  workers,   \* requests whose workers have not run yet
  shown,     \* the log's _active_buffer
  rows,      \* the ids of its message rows
  up,        \* its view has been scrolled up from the newest row
  selected,  \* the log's own queue: the ids of rows selected with Enter
  own,       \* history: buffers whose marker the user placed last, over this link
  drawn,     \* history: the ids that were the newest row of a log whose end was shown
  crossed,   \* history: the log was switched while a selection waited for it
  blind,     \* history: a line was reported as seen that SeenWasDrawnOrDue does not excuse
  nextId, sessions, acts, moves

core    == <<stored, coreLine, gone, networks>>
wire    == <<toCore, toClient>>
state   == <<buffers, messages, markers, lines, latched>>
log     == <<shown, rows, up, selected>>
history == <<own, drawn, crossed, blind>>
bounds  == <<nextId, sessions, acts, moves>>
vars == <<core, wire, link, state, lost, active, debounce, inbox, workers, log,
          history, bounds>>

Nothing == [b \in Buffer |-> NoId]
Newest(ids) == CHOOSE i \in ids : \A j \in ids : j <= i

Init ==
  /\ stored = [b \in Buffer |-> {}] /\ coreLine = Nothing
  /\ toCore = <<>> /\ toClient = <<>> /\ gone = {} /\ networks = Network
  /\ link = "starting"
  /\ buffers = {} /\ messages = [b \in Buffer |-> {}]
  /\ markers = Nothing /\ lines = Nothing /\ latched = {}
  /\ lost = FALSE /\ active = NoBuffer /\ debounce = FALSE
  /\ inbox = <<>> /\ workers = <<>>
  /\ shown = NoBuffer /\ rows = {} /\ up = FALSE /\ selected = <<>>
  /\ own = {} /\ drawn = {} /\ crossed = FALSE /\ blind = FALSE
  /\ nextId = 1 /\ sessions = 1 /\ acts = 0 /\ moves = 0

\* Messages of the app, requests to the core and frames from it.
ActiveUpdated(b) == [kind |-> "ActiveBufferUpdated", buffer |-> b]
Selected(b)      == [kind |-> "BufferSelected", buffer |-> b]
Placed(b, id)    == [kind |-> "ReadMarkerPlaced", buffer |-> b, id |-> id]
ToLatest         == [kind |-> "MarkerToLatestRequested"]
Ended            == [kind |-> "SessionEnded"]
Request(k, b, id) == [kind |-> k, buffer |-> b, id |-> id]
Seen(b, id)      == Request("requestSetLastSeenMsg", b, id)
Line(b, id)      == Request("requestSetMarkerLine", b, id)
Backlog(b)       == Request("requestBacklog", b, NoId)
InitRequest      == Request("InitRequest", NoBuffer, NoId)

--------------------------------------------------------------------------------
(* The core and its other clients.                                             *)

Flows(queue) == Len(queue) < MaxWire
Room(queue)  == Len(queue) < MaxQueue
Broadcast(frame) ==
  IF link = "open" THEN Flows(toClient) /\ toClient' = Append(toClient, frame)
                   ELSE UNCHANGED toClient

CoreOnly == UNCHANGED <<link, state, lost, active, debounce, inbox, workers, log,
                        drawn, crossed, blind, sessions, acts>>

Store(b) ==
  /\ b \notin gone /\ nextId <= MaxId
  /\ stored' = [stored EXCEPT ![b] = @ \cup {nextId}]
  /\ nextId' = nextId + 1
  /\ Broadcast([kind |-> "displayMsg", buffer |-> b, id |-> nextId])
  /\ CoreOnly /\ UNCHANGED <<coreLine, toCore, gone, networks, own, moves>>

OtherMovesLine(b, id) ==
  /\ moves < MaxMoves /\ moves' = moves + 1
  /\ b \notin gone /\ id \in stored[b]
  /\ coreLine' = [coreLine EXCEPT ![b] = id]
  /\ own' = own \ {b}
  /\ Broadcast([kind |-> "setMarkerLine", buffer |-> b, id |-> id])
  /\ CoreOnly /\ UNCHANGED <<stored, toCore, gone, networks, nextId>>

\* The buffers go from the core with their marker lines.
Forget(removed) ==
  /\ moves < MaxMoves /\ moves' = moves + 1
  /\ gone' = gone \cup removed
  /\ coreLine' = [b \in Buffer |-> IF b \in removed THEN NoId ELSE coreLine[b]]
  /\ own' = own \ removed
  /\ CoreOnly /\ UNCHANGED <<stored, toCore, nextId>>

OtherRemoves(b) ==
  /\ b \notin gone /\ Forget({b})
  /\ Broadcast([kind |-> "removeBuffer", buffer |-> b])
  /\ UNCHANGED networks

OtherRemovesNetwork(n) ==
  /\ n \in networks /\ networks' = networks \ {n}
  /\ Forget(BuffersOf(n))
  /\ Broadcast([kind |-> "networkRemoved", network |-> n])

\* Requests are served in order; those for a removed buffer have no effect, and
\* the core's last-seen positions never come back to the user.
Reply(r) ==
  CASE r.kind = "InitRequest" -> <<[kind |-> "InitData", lines |-> coreLine]>>
    [] r.kind = "requestBacklog" ->
         <<[kind |-> "receiveBacklog", buffer |-> r.buffer,
            ids |-> IF r.buffer \in gone THEN {} ELSE stored[r.buffer]]>>
    [] r.kind = "requestSetMarkerLine" /\ r.buffer \notin gone ->
         <<[kind |-> "setMarkerLine", buffer |-> r.buffer, id |-> r.id]>>
    [] OTHER -> <<>>

Serve ==
  /\ link = "open" /\ toCore # <<>> /\ Flows(toClient)
  /\ LET r == Head(toCore)
     IN /\ coreLine' = IF r.kind = "requestSetMarkerLine" /\ r.buffer \notin gone
                       THEN [coreLine EXCEPT ![r.buffer] = r.id] ELSE coreLine
        /\ toClient' = toClient \o Reply(r)
  /\ toCore' = Tail(toCore)
  /\ CoreOnly /\ UNCHANGED <<stored, gone, networks, own, nextId, moves>>

Drop ==
  /\ link = "open" /\ sessions < MaxSessions
  /\ link' = "down" /\ toCore' = <<>> /\ toClient' = <<>>
  /\ inbox' = Append(inbox, Ended)
  /\ own' = {}
  /\ UNCHANGED <<core, state, lost, active, debounce, workers, log, drawn, crossed,
                 blind, bounds>>

--------------------------------------------------------------------------------
(* The client: the dispatcher and the bridge.                                  *)

Post(messagesForApp) == inbox' = inbox \o messagesForApp
Optional(condition, message) == IF condition THEN <<message>> ELSE <<>>

\* _pick_default_buffer: the first buffer with messages, else any, else None.
Pick(known, filled) ==
  IF known \cap filled # {} THEN known \cap filled
  ELSE IF known # {} THEN known ELSE {NoBuffer}
Filled == {b \in Buffer : messages'[b] # {}}

\* seed_from_session over the kept state, the fan-out's InitRequest and the
\* bridge's SessionOpened.  Workers start at once, a handshake takes many turns.
SessionOpens ==
  /\ link = "starting" /\ workers = <<>> /\ Room(inbox)
  /\ link' = "open"
  /\ buffers' = buffers \cup (Buffer \ gone)
  /\ lines' = Nothing /\ latched' = {}
  /\ toCore' = <<InitRequest>>
  /\ UNCHANGED <<messages, markers>>
  /\ active' \in IF active # NoBuffer THEN {active} ELSE Pick(buffers', Filled)
  /\ Post(Optional(active' # NoBuffer, ActiveUpdated(active')))
  /\ UNCHANGED <<core, toClient, lost, debounce, workers, log, history, bounds>>

\* Mutant of Adopt: the core's line always wins.
AdoptAll(theirs) ==
  [b \in Buffer |-> IF theirs[b] # NoId THEN theirs[b] ELSE markers[b]]

\* _seed_read_markers
Adopt(theirs) ==
  [b \in Buffer |-> IF markers[b] = NoId THEN theirs[b] ELSE markers[b]]

\* The base InitData handler, then _seed_read_markers.
InitDataFrame(f) ==
  /\ lines' = [b \in Buffer |-> IF f.lines[b] # NoId THEN f.lines[b] ELSE lines[b]]
  /\ markers' = Adopt(lines')
  /\ UNCHANGED <<buffers, messages, latched, active, inbox, debounce>>

SetMarkerLine(f) ==
  /\ lines' = [lines EXCEPT ![f.buffer] = f.id]
  /\ UNCHANGED <<buffers, messages, markers, latched, active, inbox, debounce>>

\* Mutant of Schedule: no redraw for a line in the active buffer.
ScheduleNone(b) == debounce

\* _schedule_active_refresh
Schedule(b) == debounce \/ b = active

DisplayMsg(f) ==
  /\ messages' = [messages EXCEPT ![f.buffer] = @ \cup {f.id}]
  /\ debounce' = Schedule(f.buffer)
  /\ UNCHANGED <<buffers, markers, lines, latched, active, inbox>>

\* _merge_backlog, and the bridge's BacklogReceived
ReceiveBacklog(f) ==
  LET known == f.buffer \in buffers
      fresh == f.ids \ messages[f.buffer]
  IN /\ latched' = IF known THEN latched ELSE latched \ {f.buffer}
     /\ messages' = IF known THEN [messages EXCEPT ![f.buffer] = @ \cup f.ids]
                             ELSE messages
     /\ Post(Optional(known /\ f.buffer = active /\ fresh # {}, ActiveUpdated(f.buffer)))
     /\ UNCHANGED <<buffers, markers, lines, active, debounce>>

Without(map, removed, nothing) ==
  [b \in Buffer |-> IF b \in removed THEN nothing ELSE map[b]]

\* Out of state.buffers and state.messages, and the bridge's _handle_buffer_removed
\* for each: the first to name the active buffer picks again.
Vanish(removed) ==
  /\ buffers' = buffers \ removed
  /\ messages' = Without(messages, removed, {})
  /\ active' \in IF active \in removed THEN Pick(buffers', Filled) ELSE {active}
  /\ Post(Optional(active \in removed, ActiveUpdated(active')))
  /\ UNCHANGED debounce

\* The slot and the drain.  Neither the marker nor the latch of the buffer is
\* dropped.
RemoveBuffer(f) ==
  /\ Vanish({f.buffer})
  /\ lines' = [lines EXCEPT ![f.buffer] = NoId]
  /\ UNCHANGED <<markers, latched>>

\* _handle_network_removed: the markers and latches of its buffers go too, the
\* BufferSyncer's lines stay.
NetworkRemovedFrame(f) ==
  LET doomed == buffers \cap BuffersOf(f.network)
  IN /\ Vanish(doomed)
     /\ markers' = Without(markers, doomed, NoId)
     /\ latched' = latched \ doomed
     /\ UNCHANGED lines

Frame(f) ==
  \/ f.kind = "InitData" /\ InitDataFrame(f)
  \/ f.kind = "setMarkerLine" /\ SetMarkerLine(f)
  \/ f.kind = "displayMsg" /\ DisplayMsg(f)
  \/ f.kind = "receiveBacklog" /\ ReceiveBacklog(f)
  \/ f.kind = "removeBuffer" /\ RemoveBuffer(f)
  \/ f.kind = "networkRemoved" /\ NetworkRemovedFrame(f)

HandleFrame ==
  /\ link = "open" /\ toClient # <<>> /\ Room(inbox)
  /\ Frame(Head(toClient))
  /\ toClient' = Tail(toClient)
  /\ UNCHANGED <<core, toCore, link, lost, workers, log, history, bounds>>

\* _debounced_active_refresh
DebounceFires ==
  /\ debounce /\ debounce' = FALSE
  /\ Post(<<ActiveUpdated(active)>>)
  /\ UNCHANGED <<core, wire, link, state, lost, active, workers, log, history, bounds>>

--------------------------------------------------------------------------------
(* The app: one message of its queue at a time.                                *)

\* run_worker: nothing is queued for a core that is known to be gone.
Start(requests) == workers' = IF lost THEN workers ELSE workers \o requests

\* The end of the log is on the screen.
AtTail(ids) == IF ids = {} THEN {} ELSE {Newest(ids)}

\* set_active_buffer of the log, then the backlog request; None only clears the rows.
\* A refresh keeps a view that was scrolled up in its place, all else shows the end.
OnActiveUpdated(m) ==
  /\ shown' = IF m.buffer = NoBuffer THEN shown ELSE m.buffer
  /\ rows' = IF m.buffer = NoBuffer THEN {} ELSE messages[m.buffer]
  /\ up' = (up /\ m.buffer = shown /\ rows' # {})
  /\ drawn' = IF up' THEN drawn ELSE drawn \cup AtTail(rows')
  /\ crossed' = (crossed \/ (selected # <<>> /\ shown' # shown))
  /\ Start(Optional(m.buffer # NoBuffer, Backlog(m.buffer)))
  /\ inbox' = Tail(inbox)
  /\ UNCHANGED <<markers, active, own, blind, lost>>

\* messages[-1].msg_id
LastSeen(b) == Newest(messages[b])

\* A line will be drawn: a redraw is scheduled or waits in the queue.
Due(b) == debounce \/ \E i \in 1 .. Len(inbox) : inbox[i] = ActiveUpdated(b)

\* It is below the view of a reader who scrolled up.
BelowView(b) == up /\ shown = b

\* _on_buffer_selected, _set_active_buffer and _report_last_seen.
OnSelected(m) ==
  LET left    == active
      reports == m.buffer # left /\ left # NoBuffer /\ messages[left] # {}
  IN /\ active' = m.buffer
     /\ inbox' = Tail(inbox) \o Optional(m.buffer # left, ActiveUpdated(m.buffer))
     /\ IF reports THEN /\ Start(<<Seen(left, LastSeen(left))>>)
                        /\ blind' = (blind \/ (link = "open" /\ LastSeen(left) \notin drawn
                                               /\ ~Due(left) /\ ~BelowView(left)))
                   ELSE UNCHANGED <<workers, blind>>
     /\ UNCHANGED <<markers, shown, rows, up, own, drawn, crossed, lost>>

\* Mutant of Target: the marker goes to the buffer that is active by now.
ActiveTarget(m) == active

Target(m) == m.buffer

\* Mutant of MarkerRequest: the marker stays on this side.
KeepMarker(b, id) == <<>>

\* _sync_marker_to_core
MarkerRequest(b, id) == <<Line(b, id)>>

Mark(b, id) ==
  /\ markers' = [markers EXCEPT ![b] = id]
  /\ Start(MarkerRequest(b, id))
  /\ own' = IF link = "open" /\ ~lost /\ b \notin gone THEN own \cup {b} ELSE own

\* _on_read_marker_placed
OnPlaced(m) ==
  /\ Mark(Target(m), m.id)
  /\ inbox' = Tail(inbox) \o Optional(m.buffer = active, ActiveUpdated(m.buffer))
  /\ UNCHANGED <<active, shown, rows, up, drawn, crossed, blind, lost>>

\* _on_marker_to_latest_requested
OnToLatest ==
  /\ IF active # NoBuffer /\ messages[active] # {}
     THEN /\ Mark(active, Newest(messages[active]))
          /\ inbox' = Append(Tail(inbox), ActiveUpdated(active))
     ELSE /\ inbox' = Tail(inbox)
          /\ UNCHANGED <<markers, workers, own>>
  /\ UNCHANGED <<active, shown, rows, up, drawn, crossed, blind, lost>>

\* _enter_disconnected_state
OnEnded ==
  /\ lost' = TRUE /\ inbox' = Tail(inbox)
  /\ UNCHANGED <<markers, active, workers, shown, rows, up, own, drawn, crossed, blind>>

AppHandles ==
  /\ inbox # <<>>
  /\ LET m == Head(inbox) IN
       \/ m.kind = "ActiveBufferUpdated" /\ OnActiveUpdated(m)
       \/ m.kind = "BufferSelected" /\ OnSelected(m)
       \/ m.kind = "ReadMarkerPlaced" /\ OnPlaced(m)
       \/ m.kind = "MarkerToLatestRequested" /\ OnToLatest
       \/ m.kind = "SessionEnded" /\ OnEnded
  /\ UNCHANGED <<core, wire, link, buffers, messages, lines, latched, debounce,
                 selected, bounds>>

\* on_option_list_option_selected, in the log's own task: the buffer is the one
\* shown now.
LogHandles ==
  /\ selected # <<>> /\ selected' = Tail(selected)
  /\ Post(Optional(shown # NoBuffer, Placed(shown, Head(selected))))
  /\ UNCHANGED <<core, wire, link, state, lost, active, debounce, workers, shown, rows,
                 up, history, bounds>>

\* _send_last_seen, _send_marker_line, request_backlog: a failed send is logged
\* and forgotten, a latched buffer is not asked for again.
WorkerRuns ==
  /\ workers # <<>>
  /\ LET r    == Head(workers)
         asks == r.kind = "requestBacklog"
         goes == link = "open" /\ ~(asks /\ r.buffer \in latched)
     IN /\ goes => Flows(toCore)
        /\ toCore' = IF goes THEN Append(toCore, r) ELSE toCore
        /\ latched' = IF asks /\ goes THEN latched \cup {r.buffer} ELSE latched
  /\ workers' = Tail(workers)
  /\ UNCHANGED <<core, toClient, link, buffers, messages, markers, lines, lost, active,
                 debounce, inbox, log, history, bounds>>

--------------------------------------------------------------------------------
(* The user.                                                                   *)

Act ==
  /\ acts < MaxActs /\ acts' = acts + 1
  /\ UNCHANGED <<core, wire, state, active, shown, rows, own, blind, nextId, moves>>

Presses(message) ==
  /\ Act /\ Room(inbox) /\ inbox' = Append(inbox, message)
  /\ UNCHANGED <<link, lost, debounce, workers, up, selected, drawn, crossed, sessions>>

\* A click in the tree or alt+up/down; an empty Enter.
UserSelects(b) == b \in buffers /\ b # active /\ Presses(Selected(b))
UserMarksLatest == Presses(ToLatest)

\* Enter on a row of the log: action_select posts the id of the row to the log.
UserSelectsRow(id) ==
  /\ Act /\ Room(selected) /\ id \in rows
  /\ selected' = Append(selected, id)
  /\ UNCHANGED <<link, lost, debounce, inbox, workers, up, drawn, crossed, sessions>>

\* Up from the end of the log, or back down to it.
UserScrolls ==
  /\ Act /\ rows # {}
  /\ up' = ~up
  /\ drawn' = IF up' THEN drawn ELSE drawn \cup AtTail(rows)
  /\ UNCHANGED <<link, lost, debounce, inbox, workers, selected, crossed, sessions>>

\* Ctrl+R: action_reconnect.  Starting the new bridge exclusively cancels the
\* old one with its redraw, and the workers of the same group.
UserReconnects ==
  /\ lost /\ link = "down" /\ sessions < MaxSessions
  /\ link' = "starting" /\ lost' = FALSE /\ sessions' = sessions + 1
  /\ debounce' = FALSE /\ workers' = <<>>
  /\ UNCHANGED <<core, wire, state, active, inbox, log, history, nextId, acts, moves>>

--------------------------------------------------------------------------------

Next ==
  \/ \E b \in Buffer : Store(b) \/ OtherRemoves(b) \/ UserSelects(b)
  \/ \E b \in Buffer, id \in Id : OtherMovesLine(b, id)
  \/ \E n \in Network : OtherRemovesNetwork(n)
  \/ \E id \in Id : UserSelectsRow(id)
  \/ Serve \/ Drop \/ SessionOpens \/ HandleFrame \/ DebounceFires
  \/ AppHandles \/ LogHandles \/ WorkerRuns
  \/ UserMarksLatest \/ UserScrolls \/ UserReconnects

Spec == Init /\ [][Next]_vars

\* Every variable has a value of its sort.
TypeOK ==
  /\ stored \in [Buffer -> SUBSET Id] /\ messages \in [Buffer -> SUBSET Id]
  /\ {coreLine, markers, lines} \subseteq [Buffer -> AnyId]
  /\ {gone, buffers, latched, own} \subseteq SUBSET Buffer /\ networks \subseteq Network
  /\ {active, shown} \subseteq Buffer \cup {NoBuffer}
  /\ link \in {"starting", "open", "down"}
  /\ {lost, debounce, up, crossed, blind} \subseteq BOOLEAN
  /\ {rows, drawn} \subseteq SUBSET Id
  /\ \A i \in 1 .. Len(selected) : selected[i] \in Id
  /\ nextId \in 1 .. MaxId + 1

Underway == workers \o toCore

\* A marker the user placed over the present link, and that no other client moved
\* since, is the core's as soon as no request for it is underway: the last of
\* several placements wins on both sides.
MarkersReachCore ==
  \A b \in own :
    \/ \E i \in 1 .. Len(Underway) :
         Underway[i].kind = "requestSetMarkerLine" /\ Underway[i].buffer = b
    \/ coreLine[b] = markers[b]

\* A marker of a buffer, here and at the core, names a message the core stored for
\* that buffer, which may have been removed since, unless the log was switched while
\* an Enter waited in its queue.
Belongs(b, id) == id = NoId \/ id \in stored[b]

MarkersBelong ==
  \/ crossed
  \/ \A b \in Buffer : Belongs(b, markers[b]) /\ Belongs(b, coreLine[b])

\* A line that is reported as seen over an open link has been the newest one on the
\* screen, or a redraw of its buffer was due (the 50 ms of the debounce), or the
\* reader had scrolled up in that buffer: set_active_buffer keeps his view in place
\* and _report_last_seen reports the newest line all the same.
SeenWasDrawnOrDue == ~blind

\* A marker that is set is replaced only when the app handles a placement of the
\* user, and taken away only with the network of its buffer: neither a late InitData,
\* a new session's, the core's setMarkerLine nor the removal of the buffer touches it.
MarkersAreTheUsers ==
  [][\A b \in Buffer :
       markers[b] # NoId /\ markers'[b] # markers[b] =>
         \/ inbox # <<>> /\ Head(inbox).kind \in {"ReadMarkerPlaced",
                                                  "MarkerToLatestRequested"}
         \/ /\ markers'[b] = NoId /\ toClient # <<>>
            /\ Head(toClient).kind = "networkRemoved"
            /\ Head(toClient).network = NetworkOf[b]]_vars

================================================================================
