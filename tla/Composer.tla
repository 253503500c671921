--------------------------------- MODULE Composer ---------------------------------
(***************************************************************************)
(* The path of a typed line: the InputBar with its history                 *)
(* (app/widgets/input_bar.py), the app that sends the line, puts it back   *)
(* when that fails, stashes it over a disconnect and reconnects            *)
(* (app/app.py), and the client's send_input.                              *)
(*                                                                         *)
(* Enter captures the text in an Input.Submitted that waits in the bar's   *)
(* own queue, behind the keys already there; the app handles one message   *)
(* at a time, and none while a send drains.  A text is a sequence of       *)
(* words, each typed once, so that every one of them can be followed.      *)
(***************************************************************************)
EXTENDS Naturals, Sequences, SequencesExt

CONSTANTS
  Word,          \* what the user types
  Blank,         \* white space
  HistoryLimit,  \* _HISTORY_LIMIT
  MaxQueue       \* bound: how many messages wait in one queue

ASSUME BlankAssumption == Blank \notin Word
ASSUME LimitAssumption == HistoryLimit \in Nat \ {0}
ASSUME MaxQueueAssumption == MaxQueue \in Nat

VARIABLES
  value,      \* the text in the bar
  recall,     \* _history
  index,      \* _history_index, 0 when not browsing
  stash,      \* _history_stash
  submitted,  \* the bar's queue: the texts of Input.Submitted
  inbox,      \* the app's queue
  pump,       \* the app: "idle", "sending" a line, or "exited"
  line,       \* the line being sent
  lost,       \* connection_lost; the bar is disabled with it
  pending,    \* _pending_input
  bridge,     \* "first" or "again" until the session opens, "open", "ended"
  connected,  \* the connection's state is CONNECTED
  typed,      \* history: the words typed so far
  given,      \* history: the words that the user's own keys gave up
  swallowed   \* history: a line was written after the session had ended

bar     == <<value, recall, index, stash>>
app     == <<pump, line, lost, pending>>
core    == <<bridge, connected>>
history == <<typed, given, swallowed>>
vars == <<bar, submitted, inbox, app, core, history>>

Empty == <<>>
NoWords == {}
Words(text) == Range(text) \cap Word
WordsIn(texts) == UNION {Words(t) : t \in Range(texts)}
IsBlank(text) == text # Empty /\ Words(text) = NoWords

Line(text) == [kind |-> "LineSubmitted", text |-> text]
Ended(fatal) == [kind |-> "SessionEnded", fatal |-> fatal]
CtrlR == [kind |-> "reconnect"]

Init ==
  /\ value = Empty /\ recall = <<>> /\ index = 0 /\ stash = Empty
  /\ submitted = <<>> /\ inbox = <<>>
  /\ pump = "idle" /\ line = Empty /\ lost = FALSE /\ pending = Empty
  /\ bridge = "first" /\ connected = FALSE
  /\ typed = NoWords /\ given = NoWords /\ swallowed = FALSE

--------------------------------------------------------------------------------
(* The bar.  The definitions marked "Mutant" are not part of the model: each *)
(* is a plausible bug that one of the properties must detect.                *)

\* A disabled bar takes no keys.
Key == /\ pump # "exited" /\ ~lost
       /\ UNCHANGED <<recall, inbox, app, core, swallowed>>

GiveUp(words) == given' = given \cup words /\ UNCHANGED typed

Type(w) ==
  /\ Key
  /\ IF w = Blank THEN value = Empty ELSE w \notin typed
  /\ value' = Append(value, w)
  /\ typed' = typed \cup ({w} \cap Word)
  /\ UNCHANGED <<index, stash, submitted, given>>

Erase ==
  /\ Key /\ value # Empty
  /\ value' = Empty
  /\ GiveUp(Words(value))
  /\ UNCHANGED <<index, stash, submitted>>

\* Enter: the text is captured, the bar is cleared later.
PressEnter ==
  /\ Key /\ Len(submitted) < MaxQueue
  /\ submitted' = Append(submitted, value)
  /\ UNCHANGED <<value, index, stash, typed, given>>

\* action_history_prev: the draft is stashed when browsing begins; an edited
\* entry is not.
HistoryPrev ==
  /\ Key /\ recall # <<>>
  /\ index' = IF index = 0 THEN Len(recall) ELSE IF index > 1 THEN index - 1 ELSE 1
  /\ stash' = IF index = 0 THEN value ELSE stash
  /\ value' = recall[index']
  /\ GiveUp(IF index = 0 THEN NoWords ELSE Words(value))
  /\ UNCHANGED submitted

\* action_history_next: past the newest entry the draft comes back.
HistoryNext ==
  /\ Key /\ index # 0
  /\ index' = IF index < Len(recall) THEN index + 1 ELSE 0
  /\ value' = IF index' = 0 THEN stash ELSE recall[index']
  /\ GiveUp(Words(value))
  /\ UNCHANGED <<stash, submitted>>

\* Mutant of Remember: the limit is looked at before the line is added.
RememberThenSome(text) ==
  recall' = IF recall # <<>> /\ Last(recall) = text THEN recall
            ELSE LET excess == IF Len(recall) > HistoryLimit THEN Len(recall) - HistoryLimit ELSE 0
                 IN SubSeq(Append(recall, text), excess + 1, Len(recall) + 1)

\* _remember: not twice in a row, and the newest HistoryLimit only.
Remember(text) ==
  recall' = IF recall # <<>> /\ Last(recall) = text THEN recall
            ELSE LET all == Append(recall, text)
                     excess == IF Len(all) > HistoryLimit THEN Len(all) - HistoryLimit ELSE 0
                 IN SubSeq(all, excess + 1, Len(all))

\* The draft that browsing would give back.
Draft == IF index = 0 THEN Empty ELSE stash

\* What a call of _remember pushes out, and the draft of the browsing it ends.
Forgotten ==
  Words(Draft) \cup
  (WordsIn(recall) \ WordsIn(recall'))

\* on_input_submitted: an empty Enter moves the read marker, a blank one only
\* clears the bar, and so does a line, which goes to the app.
InputSubmitted ==
  /\ pump # "exited" /\ submitted # <<>> /\ Len(inbox) < MaxQueue
  /\ submitted' = Tail(submitted)
  /\ LET text == Head(submitted)
         late == Words(value) \ Words(text)
     IN \/ /\ text = Empty
           /\ UNCHANGED <<bar, inbox, given>>
        \/ /\ IsBlank(text)
           /\ value' = Empty
           /\ given' = given \cup late
           /\ UNCHANGED <<recall, index, stash, inbox>>
        \/ /\ Words(text) # NoWords
           /\ value' = Empty
           /\ Remember(text)
           /\ index' = 0 /\ stash' = Empty
           /\ given' = given \cup late \cup Forgotten
           /\ inbox' = Append(inbox, Line(text))
  /\ UNCHANGED <<app, core, typed, swallowed>>

--------------------------------------------------------------------------------
(* The app.                                                                 *)

Handle(kind) ==
  /\ pump = "idle" /\ inbox # <<>> /\ Head(inbox).kind = kind
  /\ inbox' = Tail(inbox)
  /\ UNCHANGED <<recall, index, stash, submitted, typed>>

\* Mutant of Restore: the line is put back whatever the bar holds.
RestoreOver(text) == value' = text /\ UNCHANGED pending

\* _restore_input: into an empty bar, or into the stash once the connection is
\* lost; else the line stays in the history only.
Restore(text) ==
  IF lost THEN /\ pending' = IF pending = Empty THEN text ELSE pending
               /\ UNCHANGED value
  ELSE /\ value' = IF value = Empty THEN text ELSE value
       /\ UNCHANGED pending

\* Whether a line can be sent to the active buffer, which AppUi follows: there
\* may be none, and it may be gone, whenever a line is handled.
MaySend(known) == known /\ connected

LineRefused ==
  /\ Handle("LineSubmitted") /\ \E known \in BOOLEAN : ~MaySend(known)
  /\ Restore(Head(inbox).text)
  /\ UNCHANGED <<pump, line, lost, core, given, swallowed>>

\* The frame is handed to the transport, and the app waits for drain().
LineWritten ==
  /\ Handle("LineSubmitted") /\ \E known \in BOOLEAN : MaySend(known)
  /\ pump' = "sending" /\ line' = Head(inbox).text
  /\ swallowed' = (swallowed \/ bridge = "ended")
  /\ UNCHANGED <<value, lost, pending, core, given>>

Drained ==
  /\ pump = "sending"
  /\ pump' = "idle" /\ line' = Empty
  /\ UNCHANGED <<bar, submitted, inbox, lost, pending, core, history>>

\* drain() raises: the socket broke, whatever the bridge knows of it.
DrainFails ==
  /\ pump = "sending"
  /\ pump' = "idle" /\ line' = Empty
  /\ Restore(line)
  /\ UNCHANGED <<recall, index, stash, submitted, inbox, lost, core, history>>

Stash == IF value = Empty THEN UNCHANGED <<value, pending>>
                          ELSE value' = Empty /\ pending' = value

\* _on_session_ended and _enter_disconnected_state
SessionEnded ==
  /\ Handle("SessionEnded")
  /\ \/ /\ Head(inbox).fatal
        /\ pump' = "exited"
        /\ UNCHANGED <<value, lost, pending>>
     \/ /\ ~Head(inbox).fatal /\ ~lost
        /\ lost' = TRUE
        /\ Stash
        /\ UNCHANGED pump
     \/ /\ ~Head(inbox).fatal /\ lost
        /\ UNCHANGED <<value, lost, pending, pump>>
  /\ UNCHANGED <<line, core, given, swallowed>>

\* Mutant of Unstash: what was stashed stays in the stash.
UnstashKeeping ==
  /\ value' = IF pending # Empty /\ value = Empty THEN pending ELSE value
  /\ UNCHANGED pending

Unstash ==
  /\ value' = IF pending # Empty /\ value = Empty THEN pending ELSE value
  /\ pending' = Empty

\* action_reconnect: the old client is closed and a new one takes over.
Reconnect ==
  /\ Handle("reconnect")
  /\ IF lost THEN /\ connected' = FALSE /\ bridge' = "again"
                  /\ lost' = FALSE
                  /\ Unstash
             ELSE UNCHANGED <<connected, bridge, lost, value, pending>>
  /\ UNCHANGED <<pump, line, given, swallowed>>

PressCtrlR ==
  /\ pump # "exited" /\ Len(inbox) < MaxQueue
  /\ inbox' = Append(inbox, CtrlR)
  /\ UNCHANGED <<bar, submitted, app, core, history>>

--------------------------------------------------------------------------------
(* The bridge and the client behind it.                                     *)

Behind == pump # "exited" /\ UNCHANGED <<bar, submitted, app, history>>

Opens ==
  /\ Behind /\ bridge \in {"first", "again"}
  /\ bridge' = "open" /\ connected' = TRUE
  /\ UNCHANGED inbox

\* The terminal ClientDisconnected.  QuasselClient.events() returns after the
\* connection's own Disconnected without resuming the connection's generator,
\* whose _cleanup() therefore never runs; it only closes the connection itself
\* when the dispatcher or the fan-out failed.
Ends ==
  /\ Behind /\ bridge # "ended" /\ Len(inbox) < MaxQueue
  /\ bridge' = "ended"
  /\ connected' \in {connected, FALSE}
  /\ inbox' = Append(inbox, Ended(bridge = "first"))

Bar == \/ \E w \in Word \cup {Blank} : Type(w)
       \/ Erase \/ PressEnter \/ HistoryPrev \/ HistoryNext \/ InputSubmitted
App == LineRefused \/ LineWritten \/ Drained \/ DrainFails \/ SessionEnded \/ Reconnect \/ PressCtrlR
Client == Opens \/ Ends

Next == Bar \/ App \/ Client

Spec == Init /\ [][Next]_vars

--------------------------------------------------------------------------------
(* Properties.                                                              *)

Text == Seq(Word \cup {Blank})
Message == [kind : {"LineSubmitted"}, text : Text] \cup [kind : {"SessionEnded"}, fatal : BOOLEAN]
             \cup {CtrlR}

\* Type invariant of every variable.
TypeOK ==
  /\ value \in Text /\ stash \in Text /\ pending \in Text /\ line \in Text
  /\ recall \in Seq(Text) /\ Len(recall) <= HistoryLimit /\ index \in 0..Len(recall)
  /\ submitted \in Seq(Text) /\ inbox \in Seq(Message)
  /\ pump \in {"idle", "sending", "exited"} /\ lost \in BOOLEAN
  /\ bridge \in {"first", "again", "open", "ended"} /\ connected \in BOOLEAN
  /\ typed \subseteq Word /\ given \subseteq Word /\ swallowed \in BOOLEAN

\* What the user can still bring back: in the bar, by browsing, or by Ctrl+R.
Reachable ==
  Words(value) \cup Words(Draft) \cup Words(pending) \cup WordsIn(recall) \cup WordsIn(submitted)

\* However submissions, failed sends, disconnects, reconnects and browsing
\* interleave, no word is lost but by a key of the user's: an erasure, an edited
\* history entry left, a draft left behind by submitting another line, words
\* typed between Enter and its handling, and lines beyond the history limit.
DraftKept == typed \subseteq Reachable \cup given

\* The stash belongs to one disconnect: while the connection is lost the bar
\* shows its placeholder, which needs an empty value, and once it is back
\* nothing is left over to resurface at the next one.
StashOnlyWhileLost == IF lost THEN value = Empty ELSE pending = Empty

\* client.py:249-252: send_input raises if "the socket [is] gone before
\* send_input ran", so that no line is written after the session has ended.
RefusedWhenGone == ~swallowed
================================================================================
