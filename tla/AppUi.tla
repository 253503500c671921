---------------------------------- MODULE AppUi ----------------------------------
(***************************************************************************)
(* The terminal user interface as two actors that share the pointer        *)
(* active_buffer_id: the ClientBridge task, which turns the events of the  *)
(* client into messages for the app (app/bridge.py), and the QuasselApp,   *)
(* which handles its message queue one by one (app/app.py) and tells the   *)
(* BufferTree and the MessageLog what to show (app/widgets).  Moving the   *)
(* tree's cursor is echoed to the app, through the tree's own queue, as a  *)
(* selection like a click.                                                 *)
(*                                                                         *)
(* The dispatcher applies a whole frame to ClientState before the bridge   *)
(* sees its events, and the bridge handles them without suspending: a      *)
(* frame is one step.  The widgets are mounted throughout.                 *)
(***************************************************************************)
EXTENDS Naturals, Sequences, FiniteSets

CONSTANTS
  Buffer,     \* the BufferIds
  NoBuffer,   \* None
  MaxFrames,  \* bound: how many frames and disconnects the core causes
  MaxActs,    \* bound: how many things the user does
  MaxQueue    \* bound: neither does anything while this many messages wait

ASSUME NoBufferAssumption == NoBuffer \notin Buffer
ASSUME BoundsAssumption == MaxFrames \in Nat /\ MaxActs \in Nat /\ MaxQueue \in Nat

VARIABLES
  buffers,   \* the keys of state.buffers
  content,   \* those with messages
  bridge,    \* "starting", "open" after SessionOpened, or "ended"
  first,     \* _presession_fatal: this is the first bridge
  ever,      \* _ever_active
  debounce,  \* a debounce task is sleeping
  active,    \* active_buffer_id
  lost,      \* connection_lost
  exited,    \* the app has exited
  inbox,     \* the app's message queue
  echoes,    \* the tree's message queue: selected nodes
  leaves,    \* the buffers the tree lists
  hint,      \* the tree's _active_hint
  log,       \* the buffer the MessageLog shows, NoBuffer when it is cleared
  activity,  \* the app's buffer_activity
  mirror,    \* the tree's copy of it
  undrawn,   \* history: the most important line of a buffer not drawn yet
  dead,      \* history: the pointer was moved to a buffer that is gone
  cancelled, \* history: a scheduled redraw was cancelled and none came since
  raced,     \* history: an echo moved the pointer
  frames, acts

store   == <<buffers, content>>
feed    == <<bridge, first, ever>>
widgets == <<leaves, hint, log>>
marks   == <<activity, mirror>>
history == <<undrawn, dead, cancelled, raced>>
bounds  == <<frames, acts>>
vars == <<store, feed, debounce, active, lost, exited, inbox, echoes, widgets,
          marks, history, bounds>>

Level == {"none", "quiet", "message", "highlight"}
Rank(level) == CASE level = "none" -> 0 [] level = "quiet" -> 1
                 [] level = "message" -> 2 [] OTHER -> 3
Higher(a, b) == IF Rank(a) < Rank(b) THEN b ELSE a

NoMarks == [b \in Buffer |-> "none"]

Init ==
  /\ buffers = {} /\ content = {}
  /\ bridge = "starting" /\ first = TRUE /\ ever = FALSE
  /\ debounce = FALSE /\ active = NoBuffer /\ lost = FALSE /\ exited = FALSE
  /\ inbox = <<>> /\ echoes = <<>>
  /\ leaves = {} /\ hint = NoBuffer /\ log = NoBuffer
  /\ activity = NoMarks /\ mirror = NoMarks /\ undrawn = NoMarks
  /\ dead = FALSE /\ cancelled = FALSE /\ raced = FALSE
  /\ frames = 0 /\ acts = 0

ListUpdated         == [kind |-> "BufferListUpdated"]
ActiveUpdated(b)    == [kind |-> "ActiveBufferUpdated", buffer |-> b]
Activity(b, level)  == [kind |-> "BufferActivity", buffer |-> b, level |-> level]
Selected(b, origin) == [kind |-> "BufferSelected", buffer |-> b, origin |-> origin]
Ended(fatal)        == [kind |-> "SessionEnded", fatal |-> fatal]
Key(action)         == [kind |-> action]

Optional(condition, message) == IF condition THEN <<message>> ELSE <<>>

--------------------------------------------------------------------------------
(* The bridge.  The definitions marked "Mutant" are not part of the model: each *)
(* is a plausible bug that one of the properties must detect.                  *)

Room == Len(inbox) + Len(echoes) < MaxQueue

Frame ==
  /\ ~exited /\ frames < MaxFrames /\ Room
  /\ frames' = frames + 1
  /\ UNCHANGED <<first, lost, exited, echoes, widgets, marks, cancelled, raced, acts>>

Post(messages) == inbox' = inbox \o messages

\* _pick_default_buffer: the first buffer with messages, else any, else None.
DefaultPicks ==
  IF content' # {} THEN content' ELSE IF buffers' # {} THEN buffers' ELSE {NoBuffer}

\* seed_from_session, then SessionOpened and the events of the seed: a kept
\* active buffer is refreshed, otherwise one is picked.
SessionOpened(ids) ==
  /\ Frame /\ bridge = "starting"
  /\ bridge' = "open"
  /\ buffers' = buffers \cup ids
  /\ content' = content
  /\ active' \in IF active # NoBuffer THEN {active} ELSE DefaultPicks
  /\ ever' = (ever \/ active' # NoBuffer)
  /\ Post(<<ListUpdated>> \o Optional(active' # NoBuffer, ActiveUpdated(active'))
                          \o <<ListUpdated>>)
  /\ UNCHANGED <<debounce, undrawn, dead>>

Live == Frame /\ bridge = "open" /\ UNCHANGED bridge

\* Mutant of ColdStart: any message in another buffer takes the pointer there.
AlwaysCold(pointer) == TRUE

ColdStart(pointer) == pointer = NoBuffer /\ ~ever

NeedsMark(level) == level # "quiet"

\* Mutant of Schedule: no redraw for a line in the active buffer.
ScheduleNone(b) == UNCHANGED debounce

\* _schedule_active_refresh
Schedule(b) == debounce' = (debounce \/ b = active')

\* MessageReceived, after BufferAdded when the buffer is new.  "quiet" is our own
\* line; a line in the active buffer is due to be drawn, not to be marked.
MessageReceived(b, level) ==
  /\ Live
  /\ buffers' = buffers \cup {b}
  /\ content' = content \cup {b}
  /\ \E pick \in DefaultPicks :
       LET picks   == b \notin buffers /\ active = NoBuffer
           pointer == IF picks THEN pick ELSE active
           cold    == ColdStart(pointer)
       IN /\ active' = IF cold THEN b ELSE pointer
          /\ ever' = (ever \/ cold \/ (b \notin buffers /\ pointer # NoBuffer))
          /\ Post(Optional(b \notin buffers, ListUpdated)
                    \o Optional(picks, ActiveUpdated(pointer))
                    \o Optional(cold, ActiveUpdated(b))
                    \o Optional(b # active' /\ NeedsMark(level), Activity(b, level)))
  /\ Schedule(b)
  /\ undrawn' = [undrawn EXCEPT ![b] = Higher(@, IF b = active' THEN "quiet" ELSE level)]
  /\ UNCHANGED dead

\* BacklogReceived with new lines.
BacklogReceived(b) ==
  /\ Live /\ b \in buffers
  /\ content' = content \cup {b}
  /\ undrawn' = [undrawn EXCEPT ![b] = Higher(@, "quiet")]
  /\ Post(Optional(b = active, ActiveUpdated(b)))
  /\ UNCHANGED <<buffers, ever, debounce, active, dead>>

\* BufferRenamed and the Network events: the active buffer is never unset here
\* while there are buffers, so the default pick has nothing to do.
ListChanged ==
  /\ Live
  /\ Post(<<ListUpdated>>)
  /\ UNCHANGED <<store, ever, debounce, active, undrawn, dead>>

\* Mutant of Repaired: the pointer stays on the removed buffer.
RepairedNot(gone) == {active}

\* _handle_buffer_removed: where the pointer goes when these buffers are gone.
Repaired(gone) == IF active \in gone THEN DefaultPicks ELSE {active}

\* BufferRemoved, or the BufferRemoved events of a removed network.
BuffersRemoved(gone) ==
  /\ Live /\ gone # {} /\ gone \subseteq buffers
  /\ buffers' = buffers \ gone
  /\ content' = content \ gone
  /\ active' \in Repaired(gone)
  /\ Post(<<ListUpdated>> \o Optional(active \in gone, ActiveUpdated(active')) \o <<ListUpdated>>)
  /\ undrawn' = [b \in Buffer |-> IF b \in gone THEN "none" ELSE undrawn[b]]
  /\ dead' = (dead /\ active \notin gone)
  /\ UNCHANGED <<ever, debounce>>

\* ClientDisconnected: fatal before the first session only.
Disconnected ==
  /\ Frame /\ bridge \in {"starting", "open"}
  /\ bridge' = "ended"
  /\ Post(<<Ended(bridge = "starting" /\ first)>>)
  /\ UNCHANGED <<store, ever, debounce, active, undrawn, dead>>

\* _debounced_active_refresh, also while run() waits for it at the end.
DebounceFires ==
  /\ ~exited /\ debounce
  /\ debounce' = FALSE
  /\ Post(<<ActiveUpdated(active)>>)
  /\ UNCHANGED <<store, feed, active, lost, exited, echoes, widgets, marks, history, bounds>>

--------------------------------------------------------------------------------
(* The app and its widgets.                                                 *)

Handle(kind) ==
  /\ ~exited /\ inbox # <<>> /\ Head(inbox).kind = kind
  /\ UNCHANGED <<store, bounds>>

Rest == Tail(inbox)

\* select_node posts NodeSelected, which the tree forwards as BufferSelected.
SelectNode(b, listed) ==
  echoes' = IF b \in listed THEN Append(echoes, Selected(b, "echo")) ELSE echoes

\* sync_activity and refresh_from_state.
OnListUpdated ==
  /\ Handle("BufferListUpdated")
  /\ mirror' = activity
  /\ leaves' = buffers
  /\ SelectNode(hint, buffers)
  /\ inbox' = Rest
  /\ UNCHANGED <<feed, debounce, active, lost, exited, hint, log, activity, history>>

Consumed(marked, b) == [x \in Buffer |-> IF x = b THEN "none" ELSE marked[x]]

\* The log is rebuilt, the tree's cursor follows, the unread indicator goes.
OnActiveUpdated ==
  /\ Handle("ActiveBufferUpdated")
  /\ LET b == Head(inbox).buffer IN
       /\ log' = b
       /\ hint' = b
       /\ SelectNode(b, leaves)
       /\ activity' = Consumed(activity, b)
       /\ mirror' = Consumed(mirror, b)
       /\ undrawn' = [x \in Buffer |-> IF x = b THEN "none" ELSE undrawn[x]]
  /\ cancelled' = FALSE
  /\ inbox' = Rest
  /\ UNCHANGED <<feed, debounce, active, lost, exited, leaves, dead, raced>>

\* Mutant of Marked: the last message decides, a highlight does not stick.
MarkedLatest(old, level) == level

Marked(old, level) == IF old = "highlight" THEN old ELSE level

OnActivity ==
  /\ Handle("BufferActivity")
  /\ LET b == Head(inbox).buffer
         mark == Marked(activity[b], Head(inbox).level)
     IN IF b = active
        THEN UNCHANGED marks
        ELSE /\ activity' = [activity EXCEPT ![b] = mark]
             /\ mirror' = [mirror EXCEPT ![b] = mark]
  /\ inbox' = Rest
  /\ UNCHANGED <<feed, debounce, active, lost, exited, echoes, widgets, history>>

\* _set_active_buffer
SetActive(b) ==
  /\ active' = b
  /\ inbox' = Append(Rest, ActiveUpdated(b))
  /\ dead' = (b \notin buffers)

\* Mutant of Stays: every selection is acted on.
NeverStays(b) == FALSE

\* The early return that breaks the feedback loop.
Stays(b) == b = active

OnSelected ==
  /\ Handle("BufferSelected")
  /\ IF Stays(Head(inbox).buffer)
     THEN inbox' = Rest /\ UNCHANGED <<active, dead, raced>>
     ELSE /\ SetActive(Head(inbox).buffer)
          /\ raced' = (raced \/ (Head(inbox).origin = "echo" /\ active # Head(inbox).buffer))
  /\ UNCHANGED <<feed, debounce, lost, exited, echoes, widgets, marks, undrawn, cancelled>>

\* alt+up and alt+down.  With at most three buffers either neighbour is any
\* other one.
OnCycle ==
  /\ Handle("cycle")
  /\ IF buffers = {}
     THEN inbox' = Rest /\ UNCHANGED <<active, dead>>
     ELSE \E b \in buffers : (b = active => buffers = {b}) /\ SetActive(b)
  /\ UNCHANGED <<feed, debounce, lost, exited, echoes, widgets, marks, undrawn,
                 cancelled, raced>>

\* A fatal end exits, any other puts the app into the disconnected state.
OnSessionEnded ==
  /\ Handle("SessionEnded")
  /\ IF Head(inbox).fatal
     THEN exited' = TRUE /\ UNCHANGED lost
     ELSE lost' = TRUE /\ UNCHANGED exited
  /\ inbox' = Rest
  /\ UNCHANGED <<feed, debounce, active, echoes, widgets, marks, history>>

\* action_reconnect: the old worker is cancelled with its debounce task, a new
\* bridge starts over the same state and the same pointer.
OnReconnect ==
  /\ Handle("reconnect")
  /\ IF lost
     THEN /\ bridge' = "starting" /\ first' = FALSE /\ ever' = FALSE
          /\ lost' = FALSE
          /\ debounce' = FALSE
          /\ cancelled' = (cancelled \/ debounce)
     ELSE UNCHANGED <<feed, lost, debounce, cancelled>>
  /\ inbox' = Rest
  /\ UNCHANGED <<active, exited, echoes, widgets, marks, undrawn, dead, raced>>

\* on_tree_node_selected
TreeForwards ==
  /\ ~exited /\ echoes # <<>>
  /\ inbox' = Append(inbox, Head(echoes))
  /\ echoes' = Tail(echoes)
  /\ UNCHANGED <<store, feed, debounce, active, lost, exited, widgets, marks, history, bounds>>

--------------------------------------------------------------------------------
(* The user.                                                                *)

Act ==
  /\ ~exited /\ acts < MaxActs /\ Room
  /\ acts' = acts + 1
  /\ UNCHANGED <<store, feed, debounce, active, lost, exited, widgets, marks, history, frames>>

Click(b) ==
  /\ Act /\ b \in leaves
  /\ echoes' = Append(echoes, Selected(b, "click"))
  /\ UNCHANGED inbox

Press(action) == Act /\ inbox' = Append(inbox, Key(action)) /\ UNCHANGED echoes

--------------------------------------------------------------------------------

Bridge ==
  \/ \E ids \in SUBSET Buffer : SessionOpened(ids) \/ BuffersRemoved(ids)
  \/ \E b \in Buffer : BacklogReceived(b)
  \/ \E b \in Buffer, level \in Level \ {"none"} : MessageReceived(b, level)
  \/ ListChanged \/ Disconnected

App ==
  \/ OnListUpdated \/ OnActiveUpdated \/ OnActivity \/ OnSelected
  \/ OnCycle \/ OnSessionEnded \/ OnReconnect

User == (\E b \in Buffer : Click(b)) \/ Press("cycle") \/ Press("reconnect")

Next == Bridge \/ DebounceFires \/ App \/ TreeForwards \/ User

\* The event loop keeps running the app's and the tree's message pumps and the
\* debounce timer; neither the core nor the user has to do anything.
Spec == Init /\ [][Next]_vars /\ WF_vars(App) /\ WF_vars(TreeForwards) /\ WF_vars(DebounceFires)

--------------------------------------------------------------------------------
(* Properties.                                                              *)

Pointer == Buffer \cup {NoBuffer}

\* Type invariant of every variable but the two queues, and of what they carry.
TypeOK ==
  /\ buffers \subseteq Buffer /\ content \subseteq buffers
  /\ bridge \in {"starting", "open", "ended"} /\ first \in BOOLEAN /\ ever \in BOOLEAN
  /\ debounce \in BOOLEAN /\ lost \in BOOLEAN /\ exited \in BOOLEAN
  /\ active \in Pointer /\ hint \in Pointer /\ log \in Pointer /\ leaves \subseteq Buffer
  /\ activity \in [Buffer -> Level \ {"quiet"}] /\ mirror \in [Buffer -> Level \ {"quiet"}]
  /\ undrawn \in [Buffer -> Level]
  /\ dead \in BOOLEAN /\ cancelled \in BOOLEAN /\ raced \in BOOLEAN
  /\ frames \in Nat /\ acts \in Nat
  /\ \A i \in DOMAIN inbox :
       inbox[i].kind = "ActiveBufferUpdated" => inbox[i].buffer \in Pointer
  /\ \A i \in DOMAIN echoes : echoes[i].buffer \in Buffer

Quiet == inbox = <<>> /\ echoes = <<>>
Settled == Quiet /\ ~debounce

\* bridge.py:238-248: the pointer never rests on "a dead id with stale
\* scrollback", and is unset only when there is no buffer, unless the user (or an
\* echo) selected a buffer that was removed a moment ago.
ActiveKnown ==
  \/ active \in buffers
  \/ active = NoBuffer /\ (buffers = {} \/ bridge # "open")
  \/ dead

\* app.py:266-278: when nothing is left to handle, log, tree cursor and pointer
\* agree and every line of the shown buffer is drawn, unless reconnecting
\* cancelled the redraw.
ScreenCurrent ==
  Settled /\ ~exited =>
    /\ log = active /\ hint = active /\ leaves = buffers
    /\ active # NoBuffer /\ ~cancelled => undrawn[active] = "none"

\* bridge.py:273-275, app.py:301-309: when nothing is left to handle, a line that
\* came for another buffer and was not drawn since is marked, a highlight as
\* such; the buffer on screen is not marked; the sidebar shows exactly the marks.
UnreadMarked ==
  Settled /\ ~exited =>
    /\ \A b \in Buffer \ {active} :
         undrawn[b] \in {"message", "highlight"} => Rank(undrawn[b]) <= Rank(activity[b])
    /\ active # NoBuffer => activity[active] = "none"
    /\ mirror = activity

\* bridge.py:145-148: no event of the core moves the user off a buffer that still
\* exists; only a selection or a cycling key does.
PointerStays ==
  [][frames' # frames /\ active \in buffers' => active' = active]_vars

\* buffer_tree.py:99-103: moving the cursor is "one idempotent round-trip, not a
\* loop": the interface comes to rest unless an echo has moved the pointer.
SettlesUnlessRaced == <>[]Quiet \/ <>exited \/ <>raced
================================================================================
