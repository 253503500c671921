# A verification project for quasseltui

quasseltui is a terminal client for a Quassel core, the always-on half of a
distributed IRC client. This directory holds TLA+ modules that model its core
logic, TLC configurations that check them on small instances, and proofs that
TLAPS checks for every value of the constants. `PROJECT.json` lists the
components, the runs, the source lines behind every definition, the mutants that
show each property can fail, the findings, the hazards and the theorems.

    tlc -config Connection_safety.cfg MCConnection      a run
    tlapm ConnectionProofs.tla                          a proof

Contents: 1 the system, 2 modules and code, 3 runs and bounds, 4 fairness,
5 proofs, 6 disagreements between code and text, 7 assumptions,
8 not modelled, 9 the plan.

## 1. The system

Everything runs in one process on one asyncio event loop. A task gives up control
only at an `await` (or, in an async generator, a `yield`), so what can go wrong
is what happens at those points. Paths below are under `src/quasseltui/`.

| Part | Keeps | Does | Talks to |
|---|---|---|---|
| **Connection** `protocol/connection.py`, with `probe`, `transport`, `framing`, `handshake` | state, closed flag, reader and writer, session, count of decode failures | probe, TLS upgrade, handshake, receive loop, `send`, `close` | the core over a socket; its consumer through the generator `events()` |
| **Client** `client/client.py` | pending events, the set of networks already requested | `events()`: dispatches each frame, yields client events, fans out InitRequests; `send_input`, `request_backlog`, `close` | iterates the connection; is iterated by the bridge; called by the app |
| **State and dispatcher** `client/state.py`, `sync/dispatcher.py`, `sync/backlog_manager.py`, `sync/buffer_syncer.py` | networks, buffers, message lists, backlog latches; all of it survives a reconnect | applies a frame, emits events, reseeds from a new session | called synchronously by the client; read by the app |
| **IRC objects** `sync/network.py`, `irc_channel.py`, `irc_user.py`, `base.py` | users, channels, rosters, the registry of objects by name | joins, parts, quits, renames, InitData, disconnects | called by the dispatcher |
| **Codec** `qt/*`, `protocol/usertypes.py`, `protocol/signalproxy.py` | nothing; a nesting guard while reading | reads and writes Qt variants, user types and the SignalProxy envelope | called by the connection |
| **Bridge** `app/bridge.py` | phase of the session, a debounce task | turns client events into app messages, repairs the shared active buffer | iterates the client; writes the app's pointer and queue |
| **App and widgets** `app/app.py`, `app/widgets/*` | active buffer, connection_lost, unread marks, what log and tree show | handles one message at a time; switches, redraws, reconnects | the widgets through their own queues |
| **Input bar** `app/widgets/input_bar.py` | text, history, draft; in the app the stash | submission, browsing, restoring a failed line | the app, and through it the client |
| **Read markers** in `app/app.py`, `app/widgets/message_log.py`, `sync/buffer_syncer.py`, `sync/dispatcher.py` | a marker per buffer here and at the core, reports and requests on their way | places markers, reports what was seen, adopts the core's marker lines | the log, the app's workers, the core |
| **Message log** `app/widgets/message_log.py` | the rows of a list, cursor, scroll position | tears the list down and rebuilds it under a reader | the app; Textual's `OptionList` |
| **Command line, configuration** `cli.py`, `config.py` | the settings of one run | merges flags, config, environment and prompt; makes the handshake, alone or through the connection; chooses the exit code | everything above |
| **Text, demo data** `util/text.py`, `app/demo_data.py` | nothing | format | none |

What is hard, and what makes each part correct:

- **Connection.** Three tasks share it: the driver of `events()`, the owner who
  may `close()` while the driver is suspended anywhere, and whoever calls
  `send()`. The core may be slow, silent, stalled, hostile to the protocol or
  gone. Correct means: one terminal event, always, and an end; no password on a
  plaintext socket once TLS was asked for; no frame lost, doubled or reordered
  around the skipping of undecodable ones; heartbeats answered without waiting
  for the consumer; the socket released.
- **Client.** It adds a second generator on top of the first, its own writes, and
  a queue between dispatcher and consumer. Correct means: it keeps the promise
  the connection keeps, loses no event and asks for each network once.
- **State.** Live messages, backlog replies, removals, suspended requests and
  reconnects overtake each other. Correct means: histories sorted, without
  duplicates and capped, lists for exactly the known buffers, and no buffer that
  can never get its backlog.
- **IRC objects.** One membership is stored three times and told in several
  different frames, before or after the snapshot that InitData is. Correct
  means: when everything is handled the client has the core's users and rosters.
- **Codec.** Messages carry no lengths of their own fields. Correct means: both
  sides lay them out alike, the reader gives back what was meant or refuses,
  and what is echoed is what came.
- **Bridge, app, widgets.** Two tasks write one pointer; marks, redraws and the
  echoes of cursor moves travel in three queues and a timer. Correct means: the
  pointer never rests on a dead buffer, the core never moves the user, and at
  rest the screen agrees with the state.
- **Input bar.** Enter, its handling, the send, its failure, the disconnect and
  Ctrl+R are steps of different tasks. Correct means: no typed word is lost.
- **Read markers.** A marker is set here at once and at the core by a worker, while
  an InitData, another client, a removal or a reconnect may say something else.
  Correct means: both sides end with what the user placed last, on a message of
  that buffer, and what is reported as read has been on the screen, is about to be
  drawn, or lies below the view of a reader who has scrolled up.
- **Message log.** Rows, lines and messages are three ways to count, and every
  refresh starts from an empty list. Correct means: the reader's place and cursor
  survive it, and the cursor is always on a message.
- **Command line.** Four sources of settings and two ways to make the handshake.
  Correct means: silence never weakens TLS, the exit code tells what happened, and
  a command that was given a duration keeps to it.

The hazards in `PROJECT.json` name the line where each of these bites and the
property that would notice.

How a frame travels, and where the modules cut:

    core -> socket -> [Connection | Wire] -> [Session] -> dispatcher [ClientStore, Roster]
         -> client events -> bridge and app [AppUi] -> screen
    keys -> input bar [Composer] -> client.send_input -> Connection.send -> core
         -> message log [LogView] -> markers, reports [ReadState] -> workers -> core
    shell -> settings, handshake, exit code [Commands]

## 2. Modules and code

Each definition is mapped to its lines in `PROJECT.json`. Definitions commented
"Mutant of X" are never part of a specification; they are plausible bugs, used
to show that the property can fail. Variables that no code holds are commented
"history" (or "bound").

**EventStream** is the abstract promise of an event generator: `ready` first or
never, payload, exactly one terminal `disconnected`, then the end.

**Connection** is `QuasselConnection`. `pc` is the `await` or `yield` at which
`events()` is suspended; every action is the code between two of them, with all
its error exits. `ConnectOk` .. `SessionInit` are the handshake, `ReadHeader` ..
`ReplyFails` the receive loop with its skip path and its heartbeat reply,
`Cleanup`/`CleanupDone` and `Close`/`CloseDone` the two callers of the same
clean-up, `Abort` a cancellation, `Send`/`Sent` another task's `send()`. The core
is the environment: a frame's kind is chosen when it is read. It implements
EventStream (`ImplementsEventStream`).

**Session** is `QuasselClient.events()` over *any* connection that implements
EventStream (it instantiates that module, not Connection), so the two compose
through the abstract specification. It has the pending queue, the fan-out, the
request for a network created later, `_networks_requested`, a dispatcher that may
raise, writes that may fail and the owner's `close()`. It implements EventStream
again, one level up.

**ClientStore** is `ClientState` with the dispatcher's handlers for displayMsg,
receiveBacklog, removeBuffer, networkRemoved and networkCreated, the reseeding
of a reused state, and `request_backlog` suspended in its send. The core next to
it stores messages and answers requests in order; a disconnect empties both
directions.

**Roster** is one IRC network: `Network.users` and `channels`, the registry of
`IrcUser` and `IrcChannel` objects and the rosters, under joins, parts, quits,
nick changes (both frames a change arrives as), IRC disconnects and the InitData.
`leftEarly` remembers the channels we left ourselves before our nick was known; a
part carries for this purpose whether it is ours, which no handler reads.

**Negotiation** is the end of the handshake as operators: what the two sides use
(`PeerFeatures`, and `CoreFeatures` of the external core), and the layouts that follow.
`KnownCore` is the set of cores: one that understands feature lists names what it
supports or names nothing, an older one has only bits.

**Wire** is the codec as operators, over Negotiation: `Decode`, `Encode`, the readers
and writers of variants and user types. Its small state machine is a core
that picks a feature set and builds a frame item by item, so that TLC
enumerates every frame of the instance. The reference the reader is compared
with, `Meaning`, is defined on the structure of a value, without a stream.
This module is recursive and has no theorems.

**AppUi** is the bridge as one actor and the app, tree and timer as others, with
the three queues between them. The bridge handles all events of one frame without
suspending, so a frame is one step.

**Composer** is the input bar, the app's handlers for a line, for the end of the
session and for Ctrl+R, and the client's end of a session as the app meets it.

**ReadState** is one marker and its way to the core. The app's queue, the log's
own queue (where an Enter waits as the id of a row), the workers of the app and
both directions of the wire are sequences; `Serve` is a core that keeps a marker
line per buffer, echoes `setMarkerLine` and answers the InitRequest, and other
clients may move lines and remove buffers or whole networks. `SessionOpens`, `InitDataFrame`,
`SetMarkerLine`, `DisplayMsg`, `ReceiveBacklog`, `RemoveBuffer` and
`NetworkRemovedFrame` are the frames,
`OnPlaced` and `OnToLatest` the two ways of placing a marker, `OnSelected` the
report on leaving a buffer, `WorkerRuns` the request that goes out or is dropped.
`up` is whether the reader has scrolled away from the end of the log: a refresh then
keeps his place (`message_log.py:149-167`), and only the newest row of a log whose
end is shown counts as `drawn`.

**LogView** is the list of the message log: `Rows` is `_rebuild`, from the history,
the marker and the date to the sequence of options. It is the set of the rows
(`RowSet`) laid out in the order in which the loop appends them (`InOrder`, by
`Slot`), and the lines above a row are counted as Textual's `_lines` are, by their
number (`LinesOf`, `FirstLine`): so no definition needs recursion or a fold. `Refresh` and
`Switch` are the two halves of `set_active_buffer`; `Anchor`/`RestoreAnchor`,
`FocusRow` and `LandsOn` are the helpers that translate between messages, rows
and lines. Histories are sets of ids in the order of the ids; when they change is
ClientStore's subject, when the app redraws is AppUi's.

**Commands** is one run of `quasseltui`: `ResolveFromFlags`, `ResolveFromFile`,
`Credentials` and `Prompt` are the settings, `Connect` .. `Receive` the handshake as
`login-only` and `probe-only` make it themselves and as the others make it through
the connection, and `DirectCode`/`EventCode` the exit codes of the two. A setting
is the place it came from, a reason is a kind, a phase and which of the words the
code looks for the core's text has (`Words`): rejects, an unknown MsgType
(`protocol/messages.py:502`) and the error of the frames that break a session
(`Breaks`) are quoted in reasons.

`MCx` modules give constants their values; `xProofs` modules hold theorems,
`WidgetProofs` those of Composer and of LogView. It extends both, which is why the
specification of the latter is named `LogInit`, `LogNext`, `LogSpec`.

## 3. Runs and bounds

| Run | States | What it shows |
|---|---:|---|
| `connection_safety` | 345,697 | 9 properties below, all interleavings of driver, owner, sender and core |
| `store_reconnect` | 667,511 | histories, latches and events over two sessions of one state |
| `roster_exact` | 1,179,501 | users, rosters and registry agree with the core |
| `session_stream` | 134,424 | the client's generator, faithful and without repeated requests |
| `ui_screen` | 1,091,516 | pointer, screen and marks; the interface comes to rest |
| `wire_frames` | 98,495 | reading, refusing, writing back, negotiation |
| `composer_draft` | 2,178,094 | no word lost; one stash per disconnect |
| `read_marks` | 6,822,734 | markers here and at the core, what counts as seen |
| `log_reader` | 38,122 | the reader's place and cursor over rebuilds, clicks and focus |
| `commands_cli` | 145,948 | where the password may go, exit codes, timed commands |
| `roster_early`, `composer_swallow` | | two disagreements, section 6 |

Bounds, and why the interesting cases fit:

- **Connection**: `MaxDecodeFailures = 2` (the code has 5) is the smallest
  limit at which a run can be interrupted by a good frame; 11 units from the core
  are a whole handshake (5 with TLS) and three complete frames after it, or four
  units of handshake without TLS and three frames and a half.
- **ClientStore**: two buffers on one network, so that the removal of the network
  takes several buffers and one may go alone first; `Limit = 2`, `Cap = 3`, four
  messages: the cap bites, a reply overlaps live messages, and a reply can miss
  some. Two sessions are one reconnect. Two frames in flight are enough to put a removal or a live message
  in front of or behind a reply.
- **Roster**: three nicks (us, one who stays, one who renames), two channels, so
  that a user can leave one and be kept by the other; four changes by the core
  with up to four frames waiting, the InitData among them. Nicks and channels are
  symmetric.
- **Session**: one network left over from an earlier session and one new; six
  events of the connection are ready, four frames and the end.
- **AppUi**: two buffers, the one shown and another (with at most three the code's
  cycling order does not matter); four frames or disconnects, two user actions,
  three waiting messages.
- **Wire**: `MaxNesting = 2`, so that the second level is the last that is
  accepted and the third is refused; every header times two more variants out of
  14 kinds, chosen to be each a trap (nulls with payload, an odd string, an
  oversized length, dates out of range, nested lists, user types); 11 cores: all
  features, none, each one missing, silent ones, legacy ones.
- **Composer**: two words and blanks, `HistoryLimit = 2`, two messages per queue.
  A draft and a failed line, or two failed lines, compete for one bar; a third
  submission (a resubmitted entry is one) makes the history forget.
- **ReadState**: two (symmetric) buffers, each on a network of its own, two messages,
  two things the user does and one that another client does, one frame and one request in flight, two
  sessions. Two actions are a placement overtaken by another, by a switch or by a
  report; two messages in one buffer are an older and a newer marker, in two
  buffers a marker that could land on the wrong one.
- **LogView**: four messages of alternating heights, the first from the day
  before, a screen of three lines and a cap of three, two dates. Four messages and
  their separators are more than twice the screen, so there are places that are
  neither top nor tail; the fourth message evicts.
- **Commands** has no bounds but the sets its settings are drawn from: one name
  for a server that is in the file and one for a server that is not.

`CHECK_DEADLOCK FALSE` is set where the system really stops: iterators end, apps
exit, frames and budgets are bounded.

What the properties say is in the comment above each. In short:

- Connection: `CredentialsProtected`, `DeliveryFaithful`, `DesyncDetected`,
  `HeartbeatAnswered`, `ReleasesSocket`, `WriterPresent`,
  `ImplementsEventStream`, `IterationEnds` (liveness). `ReleasesSocket` and
  `IterationEnds` are about a consumer that iterates to the end. The client does
  not: see `composer_swallow`.
- ClientStore: `HistorySorted` (sorted, without duplicates, capped),
  `StoreConsistent`, `LatchNotStranded`, `FirstSessionMirrors`: the store mirrors
  the core and a history has no hole. It is stated for the first session, because
  both are false in later ones (section 6).
- Roster: `RostersExactOnceKnown`, the client's visible users are the core's, and so
  are all channels but one that we left ourselves before our nick was known; `CopiesAgree`, the copies of the membership agree at every moment.
- Session: `EventsFaithful`, `RequestedExactlyOnce`, `ImplementsEventStream`.
- AppUi: `ActiveKnown`, `ScreenCurrent`, `UnreadMarked`, `PointerStays` (an action
  property), `SettlesUnlessRaced` (liveness).
- Wire: `FramesUnderstood`, `MessagesInSync`, `RoundTrip`, `EchoExact`.
- Composer: `DraftKept`, `StashOnlyWhileLost`.
- ReadState: `MarkersReachCore`, `MarkersBelong`, `SeenWasDrawnOrDue`,
  `MarkersAreTheUsers` (an action property).
- LogView: `CursorOnMessage`, `ReaderStays` and `CursorAppearsOnScreen` (action
  properties).
- Commands: `PasswordProtected`, `ExitCodeTells`, `TimedCommandsEnd` (liveness).

`TypeOK` is an invariant of the runs of Connection and Composer, and a theorem states
it there and in ClientStore, Session, Roster, AppUi and ReadState (`Typed`). In the
other modules it is there to tell the sort of every variable.

## 4. Fairness

- **Connection** `FairSpec`: weak fairness of the driver as a whole. asyncio keeps
  scheduling a task that can run and fires timers that are due, and every await
  of the driver has a deadline, which is why `ReadFails`, `HandshakeTimeout` and
  `ReplyFails` are always possible where they are. The consumer is assumed to ask
  for the next event. Nothing is assumed of the core, the owner or the sender.
- **AppUi** `Spec`: weak fairness of the app's message pump, of the tree's and of
  the debounce timer: all three belong to the event loop. Neither the core nor
  the user has to do anything.
- **Commands** `Spec`: weak fairness of `Settle`, the settings, which need no core
  (a user who is prompted answers or aborts), and of `Elapses`, the timer of
  `asyncio.wait_for`. The core owes nothing, and no step of the handshake is fair.
- The other modules state safety only. Composer has no fairness on purpose:
  whether `drain()` ever returns is the peer's choice.

## 5. Proofs

All theorems hold for every value of the constants that satisfies the named
assumptions of the module: a positive decode limit, history limit and backlog limit,
`NoBuffer` and `NoNick` not a buffer or a nick, a screen of three lines or more,
messages no higher than it and dated in the order of their ids, finitely many networks with
"BufferSyncer" not the name of one, every buffer on a network, features offered that
exist and cores that are known ones, bounds that are naturals. Since the bounds are parameters too, the theorems hold for runs of any
length. Cap 0 is allowed and means, as in the code, no cap; LogView wants a positive one, and a cap of `MaxId` or more is none there.

| Theorem | States | Argument |
|---|---|---|
| ConnectionProofs!TypeCorrect | `TypeOK` | inductive as it stands |
| EventsKeepPromise | `ImplementsEventStream` | `StreamInv` relates where the driver is to what it has yielded: nothing before the handshake is over, something that is not terminal while live, a terminal last event while ending. With it every step of Connection is an EventStream step or a stutter |
| NoPlaintextCredentials | `CredentialsProtected` | `SecureInv`: with TLS on, the socket is encrypted from ClientInit on |
| ExhaustionReleasesSocket | `ReleasesSocket` | `SocketInv`: references are held exactly while the socket is open, until somebody closes; where that close came decides what may remain |
| SendFindsWriter | `WriterPresent` | a conjunct of `SocketInv` |
| DesyncIsDetected | `DesyncDetected` | `CountInv` says the counter is the length of the run of bad frames that ends the wire; `GiveUpInv` that a live loop is below the limit |
| DeliversEveryFrame, AnswersBeforeDelivery | `DeliveryFaithful`, `HeartbeatAnswered` | `DeliveryInv`: between two frames everything read is delivered and every heartbeat answered (`Even`); while a reply is due exactly the last frame, a heartbeat, is missing (`Behind`). The frames of a sequence are compared as the set of the numbered ones, so that an append adds one element (`CountAppend`) |
| NegotiationSettles | `MessagesInSync` | for every core, by how it announces its features; `LayoutTells` says that a layout gives away the features it was made with. It is about Negotiation, without a specification: Wire chooses its cores from `KnownCore` and keeps them |
| ClientStoreProofs!ControlTyped | `ControlTypeOK` | all variables but the message lists: the lemmas on histories need it first |
| StoreStaysConsistent | `StoreConsistent` | inductive with the typing |
| LatchesAreExcused | `LatchNotStranded` | inductive with the typing; the lemmas follow a request and its reply through the two queues, `ServeKeepsInFlight` across them |
| Typed, HistoriesSorted | `TypeOK`, `HistorySorted` | `OrderInv`: no id is newer than the core's last, and a live message is newer than what its buffer shows and what any frame before it brings, so that appending it unchecked keeps the order. Lemmas show that `Sorted`, which gives every element its place, is a sorted permutation, and that trimming keeps the newest |
| FirstSessionComplete | `FirstSessionMirrors` | `FirstInv`, which the end of the session leaves as "no hole": the last frame on its way that adds or removes a network or a buffer decides whether the core has it (`Adds`); what is shown or carried reaches up to the core's newest id, or the rest is coming behind it (`Reaches`); and what the core holds of a buffer whose removal is underway is newer than all that is shown (`Fresh`), so that a re-created buffer does not join its predecessor's history |
| SessionProofs!Typed | `TypeOK` | with `ControlInv`, what `events()` has in hand at each await |
| EventsReachConsumer | `EventsFaithful` | `FaithfulInv`: emitted is yielded and then pending, until a terminal event of its own |
| KeepsPromise | `ImplementsEventStream` | `StreamInv`: the client's stream and the connection's begin and end together, and what is emitted is well formed. Only EventStream is known of the connection, so this and EventsKeepPromise compose |
| EveryNetworkRequestedOnce | `RequestedExactlyOnce` | `RequestInv`: what is covered and gone has been removed (`KnownInv`), what was sent or is queued is covered and nowhere twice (`AskedInv`), and a network without a request is in one of four places from which it will get one (`DueInv`) |
| RosterProofs!Typed | `TypeOK` | with the sort of the frames on their way |
| ClientOnTheWay | `Inv` | the client agrees with a *view* (`Agrees`), what the frames handled so far describe, and the frames still on their way lead that view to the core's state (`Leads`, a sequence of views in which `Moves` says what each frame may tell and does). A frame sent extends the sequence, a frame handled takes its first view off |
| RostersFollowTheCore | `RostersExactOnceKnown` | with nothing on its way the view is the core's state; the two differ at most in channels of `leftEarly`, and other users' early parts are told like any others |
| NoGhosts | `CopiesAgree` | the members of a view are its users, and the client agrees with one |
| AppUiProofs!PointerKnown | `ActiveKnown` | `PointerInv` adds that the buffers with messages are known ones: without it a repair could pick anything |
| CoreNeverHijacks | `PointerStays` | action by action from the same |
| AppUiProofs!Typed | `TypeOK` | with the sorts of both queues |
| ScreenFollowsPointer, NothingMissed | `ScreenCurrent`, `UnreadMarked` | `Owed` says of any queue what it still owes the screen: the last redraw that waits is of the pointer's buffer, or none waits and it is shown; an undrawn line of it has a redraw coming; an undrawn line elsewhere has its mark, or the mark waits; a mark on the pointer's buffer has the redraw that takes it. The bridge appends to the queue, the app takes its head, and lemmas say what both do to `Owed` |
| WidgetProofs!TypeCorrect | `TypeOK` | with `RememberResult`, what the history holds after a submission |
| StashIsForOneDisconnect | `StashOnlyWhileLost` | inductive as it stands |
| WordsAreKept | `DraftKept` | from the two above: without them a stash that is dropped at a reconnect, or an unsubmitted draft overwritten by the stash, would break it. `Held` lists where a word can be and each action moves it from one place to another or to `given` |
| LogStaysOnMessages | `CursorOnMessage` | `LogInv`, with the typing: the list shows what was kept at some earlier time, and what is gone since was pushed out by `Cap` newer messages (`Shown`, `PushedOut`). The cursor is found again by its message (`RowOfFacts`), a late click is tested against the list as it is, and every way of scrolling ends between 0 and the last place (`AnchorOnList`, `MoveCursorFacts`). What a list looks like is `RowsWellLaid`: separators and the marker take a line each, a separator stands right above a message, and there is one marker. `LogInv` serves the next two theorems as well, which need `Shown` |
| CursorIsSeen | `CursorAppearsOnScreen` | `TopMessageFacts`: above the tail, the first message at or below the top of the view, or else the last above it, is on the screen, since at most a marker and a separator stand above a message and `View >= 3`; at the tail it is the last message (`BelowLastMessage`), and `MoveCursorFacts` says it of keys and clicks |
| ReaderStaysThere | `ReaderStays` | A reader above the tail has at least one line more below the message at the top than the screen shows. `OneLineLost`: of the lines from a message that stays to the end, a rebuild takes away one at most, the marker's, because the messages below stay (`PushedOut`) and each day that begins among them still does. So the old place still exists, except where the list has become too short above it. The count is a comparison of sets of lines by an injection, with no induction over rows |
| CommandsProofs!PasswordIsProtected | `PasswordProtected` | `Inv` adds `Consent` and `WireEarned`: `noTls` and `insecure` are set only if asked, and the wire is no weaker than they allow. Merging a section, the one leaf with many cases, is a lemma |
| ExitCodesTell | `ExitCodeTells` | `Told`: nothing has an end before the run is over. `CodesAgree` compares the two tables of the code with the documented one, for every ending with any words, `FailsTold` takes it to every action that fails |
| ReadStateProofs!MarkersDoBelong | `MarkersBelong` | `Held` says where ids come from: a message list, every frame, request, message and worker that names a buffer carries an id the core stored for it, removed or not, and, until a switch crosses an Enter, the rows and the selections waiting belong to the buffer shown. Lemmas say what appending and taking a head do to each queue |
| MarkersStayTheUsers | `MarkersAreTheUsers` | action by action; the InitData adopts a line only where there is none, and the networkRemoved, the one frame that takes markers, takes those of its own network's buffers |
| ReadStateProofs!Typed | `TypeOK` | `WellTyped` adds the sorts of the queues, whether or not an Enter was crossed |
| SeenIsDrawnOrDue | `SeenWasDrawnOrDue` | `DrawnInv`: while the link is open the newest line of the active buffer has been on the screen at the end of the log, or its redraw is scheduled or waits, or the log shows that buffer to a reader who scrolled up (`Displayed`). To carry it over a redraw that waits, `Follows` says that in the queue no redraw of another buffer comes after the last one of the active buffer |
| PlacementsReachCore | `MarkersReachCore` | `MarkerInv`: the last request underway for a marker, the workers' after those on the wire, asks for what the client shows; with none underway the core has it. It needs `EndedInv`: the end of a session waits at most once and is handled before the next one starts; and `GoneInv`: a networkRemoved on its way, which takes markers, is about buffers the core no longer has |

The invariants are inductive only together with the typing, and the typing of the
queues in particular: that every frame or message that waits is one the sender
builds is what a step that takes a head relies on. Theorems with the name `Typed`
are proved first and cited by the others.

Only model-checked:

- the liveness properties `IterationEnds`, `SettlesUnlessRaced` and
  `TimedCommandsEnd`: fairness is an ENABLED of the actions, which the prover cannot
  reason about;
- Wire (`FramesUnderstood`, `RoundTrip`, `EchoExact`): its
  operators are recursive over the structure of a value, and what they compute for
  every value would take an induction over it.

All safety properties that passing runs of the other nine modules check are theorems.

## 6. Where code and text disagree

Two are runs that TLC finds violated, with the quotation in `PROJECT.json`.

1. `composer_swallow` (bug). `QuasselClient.events()` returns after the
   connection's `Disconnected` (`client/client.py:193`) and so never resumes the
   connection's generator, whose `await self._cleanup()` stands behind that yield.
   The connection keeps its state CONNECTED and its socket open until Ctrl+R or
   unmount. A line handled before `SessionEnded` is written and lost without the
   promised `QuasselError`; a peer that has stopped reading then blocks the app's
   message pump in `drain()`, with nobody to close the socket.
2. `roster_early` (bug). Our own part, handled before the network's InitData told
   us our nick, is not recognised as ours: the channel stays with its members.

The others are facts that the models reach, and premises of the properties name
them; no run of their own reports them.

- Connection. `close()` during the TCP connect: the driver goes on from CLOSED
  through the handshake to CONNECTED, although `protocol/connection.py:119-120`
  says an earlier state is never re-entered, and the connection never closes the
  socket (`ReleasesSocket` excepts it).
- ClientStore. After missing more than `limit` messages a reconnect leaves a hole
  that "the gap is re-fetched" (the repository's `README.md:76`) promises not to; `seed_from_session`
  only adds, so that a buffer or network the core dropped while the client was away
  stays in the "canonical view" (hence the premise of `FirstSessionMirrors`). A
  buffer removed after its backlog arrived keeps its latch, so one created later
  under the same id could not ask for its history, which
  `sync/dispatcher.py:704-705` prevents in the other order; `LatchNotStranded`
  counts such a buffer as answered.
- AppUi. One switch of the buffer while a redraw of the old one is queued: two
  cursor echoes undo each other for ever, although `buffer_tree.py:99-103` and
  `app.py:326-330` promise one round trip (`SettlesUnlessRaced` has it as premise).
- ReadState. An Enter that waits in the log's queue while the log is switched puts
  the marker of the new buffer on a message of the old one, here and at the core
  (`MarkersBelong` excepts `crossed`). What is reported as seen may not have been on
  the screen in two ways, and `SeenWasDrawnOrDue` says that there is no third: a line
  that arrives in the active buffer and is left within the 50 ms of the debounce was
  never drawn; and a reader who has scrolled up keeps his place while lines arrive
  below it (`message_log.py:149-167`), the newest of which `_report_last_seen`
  (`app.py:496-510`) reports when he leaves. A buffer removed on its own keeps its
  marker here, one removed with its network (`sync/dispatcher.py:455`) does not. The docstring of `ReadMarkerPlaced` (`app/messages.py:96-105`) still says
  that markers are in memory only; the app sends them to the core, which keeps them.
- LogView. `CursorAppearsOnScreen` needs a screen of at least three lines: a
  separator and a marker can fill a smaller one.
- Commands. `_stream_disconnect_exit_code` calls its codes "login-only-compatible"
  (`cli.py:963`). They are not for a TLS handshake that fails (`login-only` 4,
  `stream-only` and `dump-state` 2), nor for a setup reject (6 against 4 in answer
  to the login), nor for a rejected ClientInit whose text has the words the code
  looks for in its own reasons ("tls" with "plaintext" gives 5, "not configured" 6,
  instead of 3). The same words, or "rejected clientinit" (3), are matched wherever
  else a reason quotes the core: a setup reject, an unknown MsgType
  (`protocol/messages.py:502`), a message that does not decode, and the last error of
  a run of undecodable frames (`protocol/connection.py:583-593`), which would be 4. In `login-only` itself a login reject out of turn is 4 instead of
  7, and a connection reset, which is not a `QuasselError`, is a traceback with
  exit code 1. `Differs` lists where the codes may differ; a login reject is 7 for
  `stream-only` and `dump-state` whatever its text says, because its type is asked
  first. Two more: the timed commands exit with 0 when their
  duration elapses during the handshake, and `login-only` and `probe-only` have no
  deadline over the handshake at all, so that `TimedCommandsEnd` is about the
  other two only.

## 7. Assumptions of the models

- The core (all modules) is external: modelled from what the code expects of it,
  the tests and the docs. It sends each change once and in order. In Roster, when
  we part a channel, its users stay visible to the core until they quit. In
  ClientStore, ids grow in the order messages are stored and requests are served
  in order.
- Connection: frames are their kinds (decodable or not, heartbeat, reply, other);
  `peer_features` is data the control does not read. Calls of `send()` from
  several tasks put whole frames into the transport before they await, so one
  sender stands for all. After a `close()` the driver may go on to a payload
  although the reader is gone; what escapes decoding unforeseen ends as `Abort` does.
- Session: `close()` is possible at every await; the cancellation of the
  generator itself is not modelled. A network left over from an earlier session
  and absent from this one is not asked for if it is announced again, since the
  state still has it; `RequestedExactlyOnce` does not count it as missing. An assertion that escapes after a `close()` in
  the handshake is the state `leaked`.
- AppUi: the widgets are mounted throughout; a client factory is present; several
  refreshes of the list in a row are one; Textual's cursor move posts
  `NodeSelected`, as `buffer_tree.py:99-103` says.
- Wire: one cell per primitive; reading a cell at another width counts as
  failure, which is coarser than the bytes: a misaligned read might by chance
  succeed. The item-count limits, trailing NULs, value widths inside a cell and the
  handshake's maps are left out. `MessagesInSync` says exactly for which cores the
  sides agree: those that have LongMessageId and, if they name no features,
  support all that were offered.
- Composer: each word is typed once; a disabled bar takes no keys; the bar is
  mounted and a client present; whether there is a known active buffer is an
  arbitrary choice when the line is handled (AppUi follows the pointer); Ctrl+R's
  `close()` is one step with what follows; demo mode is left out. Textual's
  `Input` and its queues are external.
- ReadState: the client handles a frame in one step, bridge included, as in AppUi;
  workers run in the order they were started and have all ended when a new session
  opens, which takes many turns of the loop; the InitData names every buffer with a
  line. The core applies the last marker line it gets and tells it to every client.
  The view is at the end of the log or above it; where above is LogView's subject.
- LogView: the width does not change, so a message keeps its height; Textual scrolls
  just as far as a highlighted row needs, and its line cache is up to date when it
  is asked; the core numbers messages in the order of their times.
- Commands: the core may send any message at any time; an unconfigured core, a
  rejection and a setup reject are messages like the others. The core's text holds
  the words of one test of the exit code, or of none. What the timed commands close
  after their time is up is left out.

## 8. Not modelled

- Terminal text and demo data: formatting and constants. The widths, wording and
  colours of the log, and the time in which its first mount falls.
- `--cafile`, `--connect-timeout` and what the commands print; `ui-demo`.
- Handshake maps to data classes: the order and failures are in Connection and
  Commands; the conversion fills in defaults and text.
- Topic, modes, away state, identities and renames of buffers: assignments of data
  that nothing else depends on.
- The tabs of several networks in the tree, the nicklist, the notices.

## 9. The plan

The modules, most important first; all exist.

1. EventStream and Connection with proofs: everything rests on them.
2. ClientStore with proofs: the data the user sees.
3. Session over EventStream, with proofs: composes with 1.
4. Roster with proofs: the membership cascades.
5. AppUi with proofs: composes with 3 through the frame-as-one-step bridge.
6. Negotiation with a proof, and Wire: the codec as operators against a structural
   reference.
7. Composer with proofs: composes AppUi's disconnects with Connection's end.
8. ReadState with proofs: joins AppUi's queues with ClientStore's core.
9. LogView with proofs: the reader's side of a redraw.
10. Commands with proofs: what a run of the program does around all this.

Proved: every safety property of 1 to 5 and 7 to 10, and `MessagesInSync` of 6
(section 5). Left:

11. Handshake maps: pure operators against reference definitions, next to Wire.

Abstract specifications: EventStream, implemented twice. A register per buffer that
two writers set and that is read back eventually would be one for the markers.
Hazards that no property covers carry a note in `PROJECT.json`.
