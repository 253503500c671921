------------------------------- MODULE AppUiProofs -------------------------------
(***************************************************************************)
(* What TLAPS proves of AppUi for any buffers, any traffic and any user:   *)
(* where the pointer rests and who moves it, that the screen follows it,   *)
(* and that no line goes both undrawn and unmarked.                        *)
(***************************************************************************)
EXTENDS AppUi, SequenceTheorems, TLAPS

\* The known buffers are buffers, and those with messages are known.
StoreTyped == buffers \subseteq Buffer /\ content \subseteq buffers

\* The inductive invariant: without the typing a repaired pointer could point
\* anywhere.
PointerInv == StoreTyped /\ ActiveKnown

LEMMA PicksKnown ==
  ASSUME content' \subseteq buffers'
  PROVE  \A pick \in DefaultPicks : pick \in buffers' \/ (pick = NoBuffer /\ buffers' = {})
  BY DEF DefaultPicks

LEMMA InitPointer == Init => PointerInv
  BY DEF Init, PointerInv, StoreTyped, ActiveKnown

\* Every step of the core keeps the pointer on a buffer that exists.
LEMMA BridgeKeepsPointer ==
  ASSUME PointerInv, Bridge
  PROVE  PointerInv'
<1>1. ASSUME NEW ids \in SUBSET Buffer, SessionOpened(ids) PROVE PointerInv'
  <2>1. StoreTyped'
    BY <1>1 DEF SessionOpened, PointerInv, StoreTyped
  <2>2. ActiveKnown'
    BY <1>1, <2>1, PicksKnown DEF SessionOpened, PointerInv, StoreTyped, ActiveKnown
  <2> QED BY <2>1, <2>2 DEF PointerInv
<1>2. ASSUME NEW ids \in SUBSET Buffer, BuffersRemoved(ids) PROVE PointerInv'
  <2>1. StoreTyped'
    BY <1>2 DEF BuffersRemoved, PointerInv, StoreTyped
  <2>2. CASE active \in ids
    <3>1. active' \in DefaultPicks
      BY <1>2, <2>2 DEF BuffersRemoved, Repaired
    <3> QED BY <2>1, <3>1, PicksKnown DEF PointerInv, StoreTyped, ActiveKnown
  <2>3. CASE active \notin ids
    <3>1. active' = active /\ (dead => dead') /\ bridge' = bridge /\ buffers' = buffers \ ids
      BY <1>2, <2>3 DEF BuffersRemoved, Repaired, Live, PointerInv, ActiveKnown
    <3> QED BY <2>1, <2>3, <3>1 DEF PointerInv, ActiveKnown
  <2> QED BY <2>2, <2>3
<1>3. ASSUME NEW b \in Buffer, BacklogReceived(b) PROVE PointerInv'
  BY <1>3 DEF BacklogReceived, Live, PointerInv, StoreTyped, ActiveKnown
<1>4. ASSUME NEW b \in Buffer, NEW level \in Level \ {"none"}, MessageReceived(b, level)
      PROVE  PointerInv'
  <2>1. StoreTyped'
    BY <1>4 DEF MessageReceived, PointerInv, StoreTyped
  <2>2. PICK pick \in DefaultPicks :
          active' = LET pointer == IF b \notin buffers /\ active = NoBuffer
                                   THEN pick ELSE active
                    IN IF ColdStart(pointer) THEN b ELSE pointer
    BY <1>4 DEF MessageReceived
  <2>3. buffers' = buffers \cup {b} /\ bridge' = bridge /\ bridge = "open" /\ dead' = dead
    BY <1>4 DEF MessageReceived, Live
  <2>4. pick \in buffers'
    BY <2>1, <2>2, <2>3, PicksKnown DEF StoreTyped
  <2> QED BY <2>1, <2>2, <2>3, <2>4 DEF PointerInv, ActiveKnown
<1>5. CASE ListChanged
  BY <1>5 DEF ListChanged, Live, store, PointerInv, StoreTyped, ActiveKnown
<1>6. CASE Disconnected
  BY <1>6 DEF Disconnected, store, PointerInv, StoreTyped, ActiveKnown
<1> QED BY <1>1, <1>2, <1>3, <1>4, <1>5, <1>6 DEF Bridge

\* A step of the app moves the pointer only by SetActive, which remembers whether
\* the buffer was gone.
LEMMA AppKeepsPointer ==
  ASSUME PointerInv, App
  PROVE  PointerInv'
<1>1. UNCHANGED store
  BY DEF App, OnListUpdated, OnActiveUpdated, OnActivity, OnSelected, OnCycle,
         OnSessionEnded, OnReconnect, Handle
<1>2. ASSUME NEW b, SetActive(b) PROVE active' \in buffers' \/ dead'
  BY <1>1, <1>2 DEF SetActive, store
<1>3. ASSUME UNCHANGED <<active, dead>>, bridge' = bridge \/ bridge' # "open" PROVE ActiveKnown'
  BY <1>1, <1>3 DEF PointerInv, ActiveKnown, store
<1>4. ASSUME OnListUpdated PROVE ActiveKnown'
  BY <1>3, <1>4 DEF OnListUpdated, feed, history
<1>5. ASSUME OnActiveUpdated PROVE ActiveKnown'
  BY <1>3, <1>5 DEF OnActiveUpdated, feed
<1>6. ASSUME OnActivity PROVE ActiveKnown'
  BY <1>3, <1>6 DEF OnActivity, feed, history
<1>7. ASSUME OnSelected PROVE ActiveKnown'
  BY <1>2, <1>3, <1>7 DEF OnSelected, feed, ActiveKnown
<1>8. ASSUME OnCycle PROVE ActiveKnown'
  BY <1>2, <1>3, <1>8 DEF OnCycle, feed, ActiveKnown
<1>9. ASSUME OnSessionEnded PROVE ActiveKnown'
  BY <1>3, <1>9 DEF OnSessionEnded, feed, history
<1>10. ASSUME OnReconnect PROVE ActiveKnown'
  BY <1>3, <1>10 DEF OnReconnect, feed
<1>11. ActiveKnown'
  BY <1>4, <1>5, <1>6, <1>7, <1>8, <1>9, <1>10 DEF App
<1> QED BY <1>1, <1>11 DEF PointerInv, StoreTyped, store

LEMMA RestKeepsPointer ==
  ASSUME PointerInv, DebounceFires \/ TreeForwards \/ User \/ UNCHANGED vars
  PROVE  PointerInv'
<1>1. UNCHANGED <<store, active, bridge, dead>>
  BY DEF DebounceFires, TreeForwards, User, Click, Press, Act, vars, feed, history
<1> QED BY <1>1 DEF PointerInv, StoreTyped, ActiveKnown, store

\* The pointer rests on an existing buffer, or on none when there is none, unless
\* a buffer was selected that was gone: whatever the core and the user do.
THEOREM PointerKnown == Spec => []ActiveKnown
<1>1. PointerInv /\ [Next]_vars => PointerInv'
  BY BridgeKeepsPointer, AppKeepsPointer, RestKeepsPointer DEF Next
<1>2. PointerInv => ActiveKnown
  BY DEF PointerInv
<1> QED BY InitPointer, <1>1, <1>2, PTL DEF Spec

\* No event of the core moves the pointer off a buffer that still exists.
THEOREM CoreNeverHijacks == Spec => PointerStays
<1>1. ASSUME PointerInv, [Next]_vars, frames' # frames, active \in buffers'
      PROVE  active' = active
  <2>1. Bridge
    <3>1. frames' = frames => FALSE
      BY <1>1
    <3>2. ~App
      BY <3>1 DEF App, OnListUpdated, OnActiveUpdated, OnActivity, OnSelected, OnCycle,
                  OnSessionEnded, OnReconnect, Handle, bounds
    <3>3. ~DebounceFires /\ ~TreeForwards /\ ~User /\ ~UNCHANGED vars
      BY <3>1 DEF DebounceFires, TreeForwards, User, Click, Press, Act, vars, bounds
    <3> QED BY <1>1, <3>2, <3>3 DEF Next
  <2>2. StoreTyped'
    BY <1>1, <2>1, BridgeKeepsPointer DEF PointerInv
  <2>3. active # NoBuffer
    BY <1>1, <2>2, NoBufferAssumption DEF StoreTyped
  <2>4. ASSUME NEW ids \in SUBSET Buffer, SessionOpened(ids) PROVE active' = active
    BY <2>3, <2>4 DEF SessionOpened
  <2>5. ASSUME NEW ids \in SUBSET Buffer, BuffersRemoved(ids) PROVE active' = active
    BY <1>1, <2>5 DEF BuffersRemoved, Repaired
  <2>6. ASSUME NEW b \in Buffer, NEW level \in Level \ {"none"}, MessageReceived(b, level)
        PROVE  active' = active
    BY <2>3, <2>6 DEF MessageReceived, ColdStart
  <2>7. ASSUME (\E b \in Buffer : BacklogReceived(b)) \/ ListChanged \/ Disconnected
        PROVE  active' = active
    BY <2>7 DEF BacklogReceived, ListChanged, Disconnected
  <2> QED BY <2>1, <2>4, <2>5, <2>6, <2>7 DEF Bridge
<1>2. PointerInv /\ [Next]_vars => PointerInv'
  BY BridgeKeepsPointer, AppKeepsPointer, RestKeepsPointer DEF Next
<1>3. PointerInv /\ PointerInv' /\ [Next]_vars
        => [frames' # frames /\ active \in buffers' => active' = active]_vars
  BY <1>1
<1> QED BY InitPointer, <1>2, <1>3, PTL DEF Spec, PointerStays

--------------------------------------------------------------------------------
(* What the queues carry.                                                   *)

Unread == {"message", "highlight"}

Echo == {Selected(b, origin) : b \in Buffer, origin \in {"echo", "click"}}

Message ==
  {ListUpdated} \cup {ActiveUpdated(b) : b \in Pointer}
    \cup {Activity(b, level) : b \in Buffer, level \in Unread} \cup Echo
    \cup {Ended(fatal) : fatal \in BOOLEAN} \cup {Key(action) : action \in {"cycle", "reconnect"}}

QueuesTyped == inbox \in Seq(Message) /\ echoes \in Seq(Echo)

\* Every variable but the queues.
StateTyped ==
  /\ buffers \subseteq Buffer /\ content \subseteq buffers
  /\ bridge \in {"starting", "open", "ended"} /\ first \in BOOLEAN /\ ever \in BOOLEAN
  /\ debounce \in BOOLEAN /\ lost \in BOOLEAN /\ exited \in BOOLEAN
  /\ active \in Pointer /\ hint \in Pointer /\ log \in Pointer /\ leaves \subseteq Buffer
  /\ activity \in [Buffer -> Level \ {"quiet"}] /\ mirror \in [Buffer -> Level \ {"quiet"}]
  /\ undrawn \in [Buffer -> Level]
  /\ dead \in BOOLEAN /\ cancelled \in BOOLEAN /\ raced \in BOOLEAN
  /\ frames \in Nat /\ acts \in Nat

Typing == StateTyped /\ QueuesTyped

LEMMA KindsOfMessages ==
  ASSUME NEW x \in Message
  PROVE  /\ x.kind = "BufferListUpdated" => x = ListUpdated
         /\ x.kind = "ActiveBufferUpdated" => x.buffer \in Pointer /\ x = ActiveUpdated(x.buffer)
         /\ x.kind = "BufferActivity" =>
              x.buffer \in Buffer /\ x.level \in Unread /\ x = Activity(x.buffer, x.level)
         /\ x.kind = "BufferSelected" => x.buffer \in Buffer
         /\ x.kind = "SessionEnded" => x.fatal \in BOOLEAN
<1>1. CASE x = ListUpdated
  BY <1>1 DEF ListUpdated
<1>2. CASE \E b \in Pointer : x = ActiveUpdated(b)
  BY <1>2 DEF ActiveUpdated
<1>3. CASE \E b \in Buffer, level \in Unread : x = Activity(b, level)
  BY <1>3 DEF Activity
<1>4. CASE x \in Echo
  BY <1>4 DEF Echo, Selected
<1>5. CASE \E fatal \in BOOLEAN : x = Ended(fatal)
  BY <1>5 DEF Ended
<1>6. CASE \E action \in {"cycle", "reconnect"} : x = Key(action)
  BY <1>6 DEF Key
<1> QED BY <1>1, <1>2, <1>3, <1>4, <1>5, <1>6 DEF Message

LEMMA MessagesTyped ==
  /\ ListUpdated \in Message
  /\ \A b \in Pointer : ActiveUpdated(b) \in Message
  /\ \A b \in Buffer, level \in Unread : Activity(b, level) \in Message
  /\ \A fatal \in BOOLEAN : Ended(fatal) \in Message
  /\ Key("cycle") \in Message /\ Key("reconnect") \in Message
  /\ Echo \subseteq Message
  BY DEF Message

LEMMA TypingIsTypeOK == Typing => TypeOK
<1> SUFFICES ASSUME Typing PROVE TypeOK
  OBVIOUS
<1>1. \A i \in DOMAIN inbox :
        inbox[i].kind = "ActiveBufferUpdated" => inbox[i].buffer \in Pointer
  <2> SUFFICES ASSUME NEW i \in DOMAIN inbox, inbox[i].kind = "ActiveBufferUpdated"
               PROVE  inbox[i].buffer \in Pointer
    OBVIOUS
  <2>1. inbox[i] \in Message
    BY ElementOfSeq DEF Typing, QueuesTyped
  <2> QED BY <2>1, KindsOfMessages
<1>2. \A i \in DOMAIN echoes : echoes[i].buffer \in Buffer
  <2> SUFFICES ASSUME NEW i \in DOMAIN echoes PROVE echoes[i].buffer \in Buffer
    OBVIOUS
  <2>1. echoes[i] \in Echo
    BY ElementOfSeq DEF Typing, QueuesTyped
  <2> QED BY <2>1 DEF Echo, Selected
<1> QED BY <1>1, <1>2 DEF Typing, StateTyped, TypeOK

LEMMA OptionalTyped ==
  ASSUME NEW condition, NEW message, condition => message \in Message
  PROVE  Optional(condition, message) \in Seq(Message)
  BY DEF Optional

LEMMA PicksTyped ==
  ASSUME content' \subseteq buffers', buffers' \subseteq Buffer
  PROVE  DefaultPicks \subseteq Pointer
  BY DEF DefaultPicks, Pointer

LEMMA HigherTyped ==
  ASSUME NEW a \in Level, NEW b \in Level
  PROVE  Higher(a, b) \in Level
  BY DEF Higher

LEMMA InitTyped == Init => Typing
<1> SUFFICES ASSUME Init PROVE Typing
  OBVIOUS
<1>1. NoMarks \in [Buffer -> Level \ {"quiet"}] /\ NoMarks \in [Buffer -> Level]
  BY DEF NoMarks, Level
<1>2. QueuesTyped
  BY DEF Init, QueuesTyped
<1>3. StateTyped
  BY <1>1 DEF Init, StateTyped, Pointer
<1> QED BY <1>2, <1>3 DEF Typing

LEMMA BridgeTyped ==
  ASSUME Typing, Bridge
  PROVE  Typing'
<1> USE DEF Typing
<1>0. ASSUME Frame PROVE
        UNCHANGED <<first, lost, exited, echoes, leaves, hint, log, activity, mirror,
                    cancelled, raced, acts>> /\ frames' \in Nat
  BY <1>0 DEF Frame, widgets, marks, StateTyped
<1>1. ASSUME NEW m \in Seq(Message), Post(m), UNCHANGED echoes PROVE QueuesTyped'
  BY <1>1, ConcatProperties DEF Post, QueuesTyped
<1>2. ASSUME NEW ids \in SUBSET Buffer, SessionOpened(ids) PROVE Typing'
  <2>1. buffers' \subseteq Buffer /\ content' \subseteq buffers'
    BY <1>2 DEF SessionOpened, StateTyped
  <2>2. active' \in Pointer
    BY <1>2, <2>1, PicksTyped DEF SessionOpened, StateTyped
  <2>3. ever' \in BOOLEAN
    BY <1>2, Zenon DEF SessionOpened, StateTyped
  <2>4. StateTyped'
    BY <1>2, <1>0, <2>1, <2>2, <2>3 DEF SessionOpened, StateTyped
  <2> DEFINE o == Optional(active' # NoBuffer, ActiveUpdated(active'))
  <2>5. o \in Seq(Message)
    BY <2>2, OptionalTyped, MessagesTyped
  <2>6. <<ListUpdated>> \o o \o <<ListUpdated>> \in Seq(Message)
    BY <2>5, MessagesTyped, ConcatProperties
  <2>7. QueuesTyped'
    BY <1>2, <1>0, <1>1, <2>6 DEF SessionOpened
  <2> QED BY <2>4, <2>7
<1>3. ASSUME NEW ids \in SUBSET Buffer, BuffersRemoved(ids) PROVE Typing'
  <2>1. buffers' \subseteq Buffer /\ content' \subseteq buffers'
    BY <1>3 DEF BuffersRemoved, StateTyped
  <2>2. active' \in Pointer
    BY <1>3, <2>1, PicksTyped DEF BuffersRemoved, Repaired, StateTyped
  <2>3. dead' \in BOOLEAN
    BY <1>3, Zenon DEF BuffersRemoved, StateTyped
  <2>4. undrawn' \in [Buffer -> Level]
    BY <1>3 DEF BuffersRemoved, StateTyped, Level
  <2>5. StateTyped'
    BY <1>3, <1>0, <2>1, <2>2, <2>3, <2>4 DEF BuffersRemoved, Live, StateTyped
  <2> DEFINE o == Optional(active \in ids, ActiveUpdated(active'))
  <2>6. o \in Seq(Message)
    BY <2>2, OptionalTyped, MessagesTyped
  <2>7. <<ListUpdated>> \o o \o <<ListUpdated>> \in Seq(Message)
    BY <2>6, MessagesTyped, ConcatProperties
  <2>8. QueuesTyped'
    BY <1>3, <1>0, <1>1, <2>7 DEF BuffersRemoved, Live
  <2> QED BY <2>5, <2>8
<1>4. ASSUME NEW b \in Buffer, BacklogReceived(b) PROVE Typing'
  <2>1. Higher(undrawn[b], "quiet") \in Level
    BY HigherTyped DEF StateTyped, Level
  <2>2. undrawn' \in [Buffer -> Level]
    BY <1>4, <2>1 DEF BacklogReceived, StateTyped
  <2>3. StateTyped'
    BY <1>4, <1>0, <2>2 DEF BacklogReceived, Live, StateTyped
  <2>4. Optional(b = active, ActiveUpdated(b)) \in Seq(Message)
    BY OptionalTyped, MessagesTyped DEF Pointer
  <2>5. QueuesTyped'
    BY <1>4, <1>0, <1>1, <2>4 DEF BacklogReceived, Live
  <2> QED BY <2>3, <2>5
<1>5. ASSUME NEW b \in Buffer, NEW level \in Level \ {"none"}, MessageReceived(b, level)
      PROVE  Typing'
  <2>1. buffers' \subseteq Buffer /\ content' \subseteq buffers'
    BY <1>5 DEF MessageReceived, StateTyped
  <2>2. PICK pick \in DefaultPicks :
          LET picks   == b \notin buffers /\ active = NoBuffer
              pointer == IF picks THEN pick ELSE active
              cold    == ColdStart(pointer)
          IN /\ active' = IF cold THEN b ELSE pointer
             /\ ever' = (ever \/ cold \/ (b \notin buffers /\ pointer # NoBuffer))
             /\ Post(Optional(b \notin buffers, ListUpdated)
                       \o Optional(picks, ActiveUpdated(pointer))
                       \o Optional(cold, ActiveUpdated(b))
                       \o Optional(b # active' /\ NeedsMark(level), Activity(b, level)))
    BY <1>5 DEF MessageReceived
  <2> DEFINE picks   == b \notin buffers /\ active = NoBuffer
             pointer == IF picks THEN pick ELSE active
             cold    == ColdStart(pointer)
  <2>3. pointer \in Pointer
    BY <2>1, PicksTyped DEF StateTyped
  <2>4. active' \in Pointer
    BY <2>2, <2>3 DEF Pointer
  <2>5. ever' \in BOOLEAN
    BY <2>2, Zenon DEF StateTyped
  <2>6. debounce' \in BOOLEAN
    BY <1>5, Zenon DEF MessageReceived, Schedule, StateTyped
  <2>7. undrawn' \in [Buffer -> Level]
    <3>1. Higher(undrawn[b], IF b = active' THEN "quiet" ELSE level) \in Level
      BY HigherTyped DEF StateTyped, Level
    <3> QED BY <1>5, <3>1 DEF MessageReceived, StateTyped
  <2>8. StateTyped'
    BY <1>5, <1>0, <2>1, <2>4, <2>5, <2>6, <2>7 DEF MessageReceived, Live, StateTyped
  <2> DEFINE o1 == Optional(b \notin buffers, ListUpdated)
             o2 == Optional(picks, ActiveUpdated(pointer))
             o3 == Optional(cold, ActiveUpdated(b))
             o4 == Optional(b # active' /\ NeedsMark(level), Activity(b, level))
  <2>9. o1 \in Seq(Message) /\ o2 \in Seq(Message) /\ o3 \in Seq(Message)
    BY <2>3, OptionalTyped, MessagesTyped DEF Pointer
  <2>10. o4 \in Seq(Message)
    <3>1. NeedsMark(level) => level \in Unread
      BY DEF NeedsMark, Level, Unread
    <3> QED BY <3>1, OptionalTyped, MessagesTyped
  <2>11. o1 \o o2 \o o3 \o o4 \in Seq(Message)
    <3> HIDE DEF o1, o2, o3, o4
    <3> QED BY <2>9, <2>10, ConcatProperties
  <2>12. QueuesTyped'
    BY <1>5, <1>0, <1>1, <2>2, <2>11 DEF MessageReceived, Live
  <2> QED BY <2>8, <2>12
<1>6. CASE ListChanged
  <2>1. <<ListUpdated>> \in Seq(Message)
    BY MessagesTyped
  <2>2. QueuesTyped'
    BY <1>6, <1>0, <1>1, <2>1 DEF ListChanged, Live
  <2> QED BY <1>6, <1>0, <2>2 DEF ListChanged, Live, store, StateTyped
<1>7. CASE Disconnected
  <2>1. (bridge = "starting" /\ first) \in BOOLEAN
    OBVIOUS
  <2>2. <<Ended(bridge = "starting" /\ first)>> \in Seq(Message)
    <3>1. \A fatal \in BOOLEAN : <<Ended(fatal)>> \in Seq(Message)
      BY MessagesTyped
    <3> QED BY <2>1, <3>1, Zenon
  <2>3. QueuesTyped'
    BY <1>7, <1>0, <1>1, <2>2 DEF Disconnected
  <2> QED BY <1>7, <1>0, <2>3 DEF Disconnected, store, StateTyped
<1> QED BY <1>2, <1>3, <1>4, <1>5, <1>6, <1>7 DEF Bridge

LEMMA AppTyped ==
  ASSUME Typing, App
  PROVE  Typing'
<1> USE DEF Typing
<1>1. ASSUME NEW kind, Handle(kind) PROVE
        /\ UNCHANGED <<buffers, content, frames, acts>>
        /\ Head(inbox).kind = kind /\ Head(inbox) \in Message /\ Rest \in Seq(Message)
  BY <1>1, HeadTailProperties DEF Handle, store, bounds, Rest, QueuesTyped
<1>2. ASSUME NEW b, NEW listed \in SUBSET Buffer, SelectNode(b, listed)
      PROVE  echoes' \in Seq(Echo)
  <2>1. CASE b \in listed
    <3>1. Selected(b, "echo") \in Echo
      BY <2>1 DEF Echo
    <3>2. echoes' = Append(echoes, Selected(b, "echo"))
      BY <1>2, <2>1 DEF SelectNode
    <3> QED BY <3>1, <3>2, AppendProperties DEF QueuesTyped
  <2>2. CASE b \notin listed
    BY <1>2, <2>2 DEF SelectNode, QueuesTyped
  <2> QED BY <2>1, <2>2
<1>3. CASE OnListUpdated
  <2>1. echoes' \in Seq(Echo) /\ leaves' \subseteq Buffer /\ mirror' = activity
    BY <1>2, <1>3 DEF OnListUpdated, StateTyped
  <2> QED BY <1>1, <1>3, <2>1 DEF OnListUpdated, feed, history, StateTyped, QueuesTyped
<1>4. CASE OnActiveUpdated
  <2> DEFINE b == Head(inbox).buffer
  <2>1. b \in Pointer
    BY <1>1, <1>4, KindsOfMessages DEF OnActiveUpdated
  <2>2. echoes' \in Seq(Echo)
    BY <1>2, <1>4 DEF OnActiveUpdated, StateTyped
  <2>3. /\ Consumed(activity, b) \in [Buffer -> Level \ {"quiet"}]
        /\ Consumed(mirror, b) \in [Buffer -> Level \ {"quiet"}]
        /\ [x \in Buffer |-> IF x = b THEN "none" ELSE undrawn[x]] \in [Buffer -> Level]
    BY DEF StateTyped, Consumed, Level
  <2> QED BY <1>1, <1>4, <2>1, <2>2, <2>3 DEF OnActiveUpdated, feed, StateTyped, QueuesTyped
<1>5. CASE OnActivity
  <2> DEFINE b    == Head(inbox).buffer
             mark == Marked(activity[b], Head(inbox).level)
  <2>1. b \in Buffer /\ Head(inbox).level \in Unread
    BY <1>1, <1>5, KindsOfMessages DEF OnActivity
  <2>2. mark \in Level \ {"quiet"}
    BY <2>1 DEF Marked, StateTyped, Unread, Level
  <2>3. \/ UNCHANGED marks
        \/ activity' = [activity EXCEPT ![b] = mark] /\ mirror' = [mirror EXCEPT ![b] = mark]
    BY <1>5 DEF OnActivity
  <2>4. activity' \in [Buffer -> Level \ {"quiet"}] /\ mirror' \in [Buffer -> Level \ {"quiet"}]
    BY <2>2, <2>3 DEF marks, StateTyped
  <2> QED BY <1>1, <1>5, <2>4 DEF OnActivity, feed, history, widgets, StateTyped, QueuesTyped
<1>6. ASSUME NEW b \in Buffer, NEW kind, Handle(kind), SetActive(b)
      PROVE  active' \in Pointer /\ dead' \in BOOLEAN /\ inbox' \in Seq(Message)
  <2>1. ActiveUpdated(b) \in Message
    BY MessagesTyped DEF Pointer
  <2>2. dead' \in BOOLEAN
    BY <1>6, Zenon DEF SetActive
  <2> QED BY <1>1, <1>6, <2>1, <2>2, AppendProperties DEF SetActive, Pointer
<1>7. CASE OnSelected
  <2>1. Head(inbox).buffer \in Buffer
    BY <1>1, <1>7, KindsOfMessages DEF OnSelected
  <2>2. active' \in Pointer /\ dead' \in BOOLEAN /\ inbox' \in Seq(Message)
    BY <1>1, <1>6, <1>7, <2>1 DEF OnSelected, StateTyped
  <2>3. raced' \in BOOLEAN
    BY <1>7, Zenon DEF OnSelected, StateTyped
  <2> QED BY <1>1, <1>7, <2>2, <2>3 DEF OnSelected, feed, widgets, marks, StateTyped, QueuesTyped
<1>8. CASE OnCycle
  <2>1. active' \in Pointer /\ dead' \in BOOLEAN /\ inbox' \in Seq(Message)
    BY <1>1, <1>6, <1>8 DEF OnCycle, StateTyped
  <2> QED BY <1>1, <1>8, <2>1 DEF OnCycle, feed, widgets, marks, StateTyped, QueuesTyped
<1>9. CASE OnSessionEnded
  BY <1>1, <1>9 DEF OnSessionEnded, feed, widgets, marks, history, StateTyped, QueuesTyped
<1>10. CASE OnReconnect
  <2>1. cancelled' \in BOOLEAN
    BY <1>10, Zenon DEF OnReconnect, StateTyped
  <2> QED BY <1>1, <1>10, <2>1 DEF OnReconnect, feed, widgets, marks, StateTyped, QueuesTyped
<1> QED BY <1>3, <1>4, <1>5, <1>7, <1>8, <1>9, <1>10 DEF App

LEMMA RestTyped ==
  ASSUME Typing, DebounceFires \/ TreeForwards \/ User \/ UNCHANGED vars
  PROVE  Typing'
<1> USE DEF Typing
<1>1. CASE DebounceFires
  <2>1. <<ActiveUpdated(active)>> \in Seq(Message)
    BY MessagesTyped DEF StateTyped
  <2>2. QueuesTyped'
    BY <1>1, <2>1, ConcatProperties DEF DebounceFires, Post, QueuesTyped
  <2> QED BY <1>1, <2>2 DEF DebounceFires, store, feed, widgets, marks, history, bounds, StateTyped
<1>2. CASE TreeForwards
  <2>1. Head(echoes) \in Message /\ Tail(echoes) \in Seq(Echo)
    BY <1>2, HeadTailProperties, MessagesTyped DEF TreeForwards, QueuesTyped
  <2>2. QueuesTyped'
    BY <1>2, <2>1, AppendProperties DEF TreeForwards, QueuesTyped
  <2> QED BY <1>2, <2>2 DEF TreeForwards, store, feed, widgets, marks, history, bounds, StateTyped
<1>3. ASSUME Act PROVE StateTyped'
  BY <1>3 DEF Act, store, feed, widgets, marks, history, StateTyped
<1>4. ASSUME NEW b \in Buffer, Click(b) PROVE Typing'
  <2>1. Selected(b, "click") \in Echo
    BY DEF Echo
  <2> QED BY <1>3, <1>4, <2>1, AppendProperties DEF Click, QueuesTyped
<1>5. ASSUME Press("cycle") \/ Press("reconnect") PROVE Typing'
  <2>1. ASSUME NEW action, Key(action) \in Message, Press(action) PROVE Typing'
    BY <1>3, <2>1, AppendProperties DEF Press, QueuesTyped
  <2> QED BY <1>5, <2>1, MessagesTyped
<1>6. CASE UNCHANGED vars
  BY <1>6 DEF vars, store, feed, widgets, marks, history, bounds, StateTyped, QueuesTyped
<1> QED BY <1>1, <1>2, <1>4, <1>5, <1>6 DEF User

\* Whatever the core and the user do, every variable keeps its type and both
\* queues carry only messages of their kind, about buffers.
THEOREM Typed == Spec => [](TypeOK /\ QueuesTyped)
<1>1. Typing /\ [Next]_vars => Typing'
  BY BridgeTyped, AppTyped, RestTyped DEF Next
<1>2. Typing => TypeOK /\ QueuesTyped
  BY TypingIsTypeOK DEF Typing
<1> QED BY InitTyped, <1>1, <1>2, PTL DEF Spec

--------------------------------------------------------------------------------
(* What is still owed to the screen while messages wait, for any queue.      *)

Has(queue, message) == \E i \in DOMAIN queue : queue[i] = message

NoUpdate(queue) == \A i \in DOMAIN queue : queue[i].kind # "ActiveBufferUpdated"

\* The last redraw that waits is of buffer b.
EndsShowing(queue, b) ==
  \E i \in DOMAIN queue :
    /\ queue[i] = ActiveUpdated(b)
    /\ \A j \in DOMAIN queue : j > i => queue[j].kind # "ActiveBufferUpdated"

\* The screen shows the pointer's buffer, or the last redraw will.
Follows(queue) == (NoUpdate(queue) /\ log = active /\ hint = active) \/ EndsShowing(queue, active)

\* The tree lists the known buffers, or a refresh waits.
Listed(queue) == leaves = buffers \/ Has(queue, ListUpdated)

\* A line of the pointer's buffer that is not drawn has a redraw coming, unless
\* a reconnect took it away.
Drawn(queue) ==
  active # NoBuffer /\ undrawn[active] # "none"
    => debounce \/ cancelled \/ Has(queue, ActiveUpdated(active))

\* The pointer's buffer is unmarked, or the redraw that takes its mark waits.
Clean(queue) ==
  active # NoBuffer /\ activity[active] # "none" => Has(queue, ActiveUpdated(active))

\* The mark of b, set or on its way, is no lower than its most important line.
Covered(queue, b) ==
  \/ Rank(undrawn[b]) <= Rank(activity[b])
  \/ \E level \in Unread : Has(queue, Activity(b, level)) /\ Rank(undrawn[b]) <= Rank(level)

\* A line worth a mark is marked or will be; while its buffer is the pointer's,
\* where a mark would be dropped, the redraw that shows the line is waiting.
Due(queue) ==
  \A b \in Buffer :
    undrawn[b] \in Unread => Has(queue, ActiveUpdated(b)) \/ (b # active /\ Covered(queue, b))

Owed(queue) ==
  /\ Follows(queue) /\ Listed(queue) /\ Drawn(queue)
  /\ Clean(queue) /\ Due(queue) /\ mirror = activity

LEMMA HasConcat ==
  ASSUME NEW q \in Seq(Message), NEW m \in Seq(Message), NEW x, Has(q, x) \/ Has(m, x)
  PROVE  Has(q \o m, x)
<1>1. CASE Has(q, x)
  <2>1. PICK i \in 1..Len(q) : q[i] = x
    BY <1>1 DEF Has
  <2>2. i \in DOMAIN (q \o m) /\ (q \o m)[i] = x
    BY <2>1, ConcatProperties
  <2> QED BY <2>2 DEF Has
<1>2. CASE Has(m, x)
  <2>1. PICK i \in 1..Len(m) : m[i] = x
    BY <1>2 DEF Has
  <2>2. i + Len(q) \in DOMAIN (q \o m) /\ (q \o m)[i + Len(q)] = x
    BY <2>1, ConcatProperties
  <2> QED BY <2>2 DEF Has
<1> QED BY <1>1, <1>2

LEMMA NoUpdateConcat ==
  ASSUME NEW q \in Seq(Message), NEW m \in Seq(Message), NoUpdate(q), NoUpdate(m)
  PROVE  NoUpdate(q \o m)
<1> SUFFICES ASSUME NEW i \in DOMAIN (q \o m) PROVE (q \o m)[i].kind # "ActiveBufferUpdated"
  BY DEF NoUpdate
<1>1. i \in 1..(Len(q) + Len(m)) /\ (q \o m)[i] = IF i <= Len(q) THEN q[i] ELSE m[i - Len(q)]
  BY ConcatProperties
<1>2. CASE i <= Len(q)
  BY <1>1, <1>2 DEF NoUpdate
<1>3. CASE i > Len(q)
  BY <1>1, <1>3 DEF NoUpdate
<1> QED BY <1>1, <1>2, <1>3

LEMMA EndsConcat ==
  ASSUME NEW q \in Seq(Message), NEW m \in Seq(Message), NEW b,
         EndsShowing(m, b) \/ (EndsShowing(q, b) /\ NoUpdate(m))
  PROVE  EndsShowing(q \o m, b)
<1>1. /\ DOMAIN (q \o m) = 1..(Len(q) + Len(m))
      /\ \A i \in 1..(Len(q) + Len(m)) :
           (q \o m)[i] = IF i <= Len(q) THEN q[i] ELSE m[i - Len(q)]
  BY ConcatProperties
<1>2. CASE EndsShowing(m, b)
  <2>1. PICK i \in 1..Len(m) :
          m[i] = ActiveUpdated(b) /\ \A j \in 1..Len(m) : j > i => m[j].kind # "ActiveBufferUpdated"
    BY <1>2 DEF EndsShowing
  <2>2. i + Len(q) \in DOMAIN (q \o m) /\ (q \o m)[i + Len(q)] = ActiveUpdated(b)
    BY <1>1, <2>1
  <2>3. ASSUME NEW j \in DOMAIN (q \o m), j > i + Len(q)
        PROVE  (q \o m)[j].kind # "ActiveBufferUpdated"
    <3>1. j - Len(q) \in 1..Len(m) /\ j - Len(q) > i /\ (q \o m)[j] = m[j - Len(q)]
      BY <1>1, <2>1, <2>3
    <3> QED BY <2>1, <3>1
  <2> QED BY <2>2, <2>3 DEF EndsShowing
<1>3. CASE EndsShowing(q, b) /\ NoUpdate(m)
  <2>1. PICK i \in 1..Len(q) :
          q[i] = ActiveUpdated(b) /\ \A j \in 1..Len(q) : j > i => q[j].kind # "ActiveBufferUpdated"
    BY <1>3 DEF EndsShowing
  <2>2. i \in DOMAIN (q \o m) /\ (q \o m)[i] = ActiveUpdated(b)
    BY <1>1, <2>1
  <2>3. ASSUME NEW j \in DOMAIN (q \o m), j > i
        PROVE  (q \o m)[j].kind # "ActiveBufferUpdated"
    <3>1. CASE j <= Len(q)
      BY <1>1, <2>1, <2>3, <3>1
    <3>2. CASE j > Len(q)
      <4>1. j - Len(q) \in DOMAIN m /\ (q \o m)[j] = m[j - Len(q)]
        BY <1>1, <2>3, <3>2
      <4> QED BY <1>3, <4>1 DEF NoUpdate
    <3> QED BY <1>1, <2>3, <3>1, <3>2
  <2> QED BY <2>2, <2>3 DEF EndsShowing
<1> QED BY <1>2, <1>3

LEMMA EndsHas ==
  ASSUME NEW q, NEW b, EndsShowing(q, b)
  PROVE  Has(q, ActiveUpdated(b))
  BY DEF EndsShowing, Has

LEMMA HasTail ==
  ASSUME NEW q \in Seq(Message), q # <<>>, NEW x, Has(q, x)
  PROVE  x = Head(q) \/ Has(Tail(q), x)
<1>1. PICK i \in 1..Len(q) : q[i] = x
  BY DEF Has
<1>2. CASE i = 1
  BY <1>1, <1>2, HeadTailProperties
<1>3. CASE i # 1
  <2>1. i - 1 \in DOMAIN Tail(q) /\ Tail(q)[i - 1] = q[i]
    BY <1>1, <1>3, HeadTailProperties
  <2> QED BY <1>1, <2>1 DEF Has
<1> QED BY <1>2, <1>3

LEMMA NoUpdateTail ==
  ASSUME NEW q \in Seq(Message), q # <<>>, NoUpdate(q)
  PROVE  NoUpdate(Tail(q))
<1> SUFFICES ASSUME NEW i \in DOMAIN Tail(q) PROVE Tail(q)[i].kind # "ActiveBufferUpdated"
  BY DEF NoUpdate
<1>1. i + 1 \in DOMAIN q /\ Tail(q)[i] = q[i + 1]
  BY HeadTailProperties
<1> QED BY <1>1 DEF NoUpdate

\* When the head is taken the last redraw is still there, unless it was the head.
LEMMA EndsTail ==
  ASSUME NEW q \in Seq(Message), q # <<>>, NEW b, EndsShowing(q, b)
  PROVE  EndsShowing(Tail(q), b) \/ (Head(q) = ActiveUpdated(b) /\ NoUpdate(Tail(q)))
<1>1. PICK i \in 1..Len(q) :
        q[i] = ActiveUpdated(b) /\ \A j \in 1..Len(q) : j > i => q[j].kind # "ActiveBufferUpdated"
  BY DEF EndsShowing
<1>2. /\ Head(q) = q[1] /\ DOMAIN Tail(q) = 1..(Len(q) - 1)
      /\ \A j \in 1..(Len(q) - 1) : Tail(q)[j] = q[j + 1]
  BY HeadTailProperties
<1>3. CASE i = 1
  <2>1. NoUpdate(Tail(q))
    <3> SUFFICES ASSUME NEW j \in 1..(Len(q) - 1) PROVE Tail(q)[j].kind # "ActiveBufferUpdated"
      BY <1>2 DEF NoUpdate
    <3> QED BY <1>1, <1>2, <1>3
  <2> QED BY <1>1, <1>2, <1>3, <2>1
<1>4. CASE i # 1
  <2>1. i - 1 \in DOMAIN Tail(q) /\ Tail(q)[i - 1] = ActiveUpdated(b)
    BY <1>1, <1>2, <1>4
  <2>2. ASSUME NEW j \in DOMAIN Tail(q), j > i - 1
        PROVE  Tail(q)[j].kind # "ActiveBufferUpdated"
    <3>1. j + 1 \in 1..Len(q) /\ j + 1 > i /\ Tail(q)[j] = q[j + 1]
      BY <1>2, <2>2
    <3> QED BY <1>1, <3>1
  <2> QED BY <2>1, <2>2 DEF EndsShowing
<1> QED BY <1>3, <1>4

\* Messages posted behind a queue keep what is owed, if they show the new pointer
\* wherever the pointer moved and mark whatever line came for another buffer.
LEMMA Posted ==
  ASSUME Typing, NEW q \in Seq(Message), NEW m \in Seq(Message), Owed(q),
         inbox' = q \o m, UNCHANGED <<leaves, hint, log, activity, mirror>>,
         EndsShowing(m, active') \/ (NoUpdate(m) /\ active' = active),
         buffers' = buffers \/ Has(m, ListUpdated),
         \/ active' = NoBuffer \/ undrawn'[active'] = "none"
         \/ debounce' \/ cancelled' \/ Has(m, ActiveUpdated(active'))
         \/ /\ active' = active /\ undrawn'[active] = undrawn[active]
            /\ debounce \/ cancelled => debounce' \/ cancelled',
         \A b \in Buffer : undrawn'[b] \in Unread =>
           \/ undrawn'[b] = undrawn[b]
           \/ b # active' /\ Has(m, Activity(b, undrawn'[b]))
  PROVE  Owed(inbox)'
<1>1. \A x : Has(q, x) \/ Has(m, x) => Has(inbox', x)
  BY HasConcat
<1>2. active' = active \/ Has(m, ActiveUpdated(active'))
  BY EndsHas
<1>3. Follows(inbox)'
  <2>1. CASE EndsShowing(m, active')
    <3>1. EndsShowing(inbox', active')
      BY <2>1, EndsConcat
    <3> QED BY <3>1 DEF Follows, EndsShowing, ActiveUpdated
  <2>2. CASE NoUpdate(m) /\ active' = active
    <3>1. CASE EndsShowing(q, active)
      <4>1. EndsShowing(inbox', active')
        BY <2>2, <3>1, EndsConcat
      <4> QED BY <4>1 DEF Follows, EndsShowing, ActiveUpdated
    <3>2. CASE NoUpdate(q) /\ log = active /\ hint = active
      <4>1. NoUpdate(inbox')
        BY <2>2, <3>2, NoUpdateConcat
      <4> QED BY <2>2, <3>2, <4>1 DEF Follows, NoUpdate
    <3> QED BY <3>1, <3>2 DEF Owed, Follows
  <2> QED BY <2>1, <2>2
<1>4. Listed(inbox)'
  BY <1>1 DEF Owed, Listed, Has, ListUpdated
<1>5. Drawn(inbox)'
  <2>1. active' # NoBuffer /\ undrawn'[active'] # "none"
          => debounce' \/ cancelled' \/ Has(inbox', ActiveUpdated(active'))
    BY <1>1 DEF Owed, Drawn
  <2> QED BY <2>1 DEF Drawn, Has, ActiveUpdated
<1>6. Clean(inbox)'
  <2>1. active' # NoBuffer /\ activity'[active'] # "none" => Has(inbox', ActiveUpdated(active'))
    BY <1>1, <1>2 DEF Owed, Clean
  <2> QED BY <2>1 DEF Clean, Has, ActiveUpdated
<1>7. Due(inbox)'
  <2> SUFFICES ASSUME NEW b \in Buffer, undrawn'[b] \in Unread
               PROVE  Has(inbox', ActiveUpdated(b)) \/ (b # active' /\ Covered(inbox, b)')
    BY DEF Due, Has, ActiveUpdated
  <2>1. ASSUME NEW level \in Unread, Has(inbox', Activity(b, level)),
               Rank(undrawn'[b]) <= Rank(level)
        PROVE  Covered(inbox, b)'
    BY <2>1 DEF Covered, Has, Activity, Rank
  <2>2. CASE undrawn'[b] = undrawn[b] /\ Has(q, ActiveUpdated(b))
    BY <1>1, <2>2
  <2>3. CASE undrawn'[b] = undrawn[b] /\ b # active /\ Covered(q, b)
    <3>1. CASE Rank(undrawn[b]) <= Rank(activity[b])
      <4>1. Covered(inbox, b)'
        BY <2>3, <3>1 DEF Covered, Rank
      <4> QED BY <1>1, <1>2, <2>3, <4>1
    <3>2. ASSUME NEW level \in Unread, Has(q, Activity(b, level)), Rank(undrawn[b]) <= Rank(level)
          PROVE  Has(inbox', ActiveUpdated(b)) \/ (b # active' /\ Covered(inbox, b)')
      <4>1. Has(inbox', Activity(b, level))
        BY <1>1, <3>2
      <4>2. Covered(inbox, b)'
        BY <2>1, <2>3, <3>2, <4>1
      <4> QED BY <1>1, <1>2, <2>3, <4>2
    <3> QED BY <2>3, <3>1, <3>2 DEF Covered
  <2>4. CASE b # active' /\ Has(m, Activity(b, undrawn'[b]))
    <3>1. Has(inbox', Activity(b, undrawn'[b]))
      BY <1>1, <2>4
    <3>2. Rank(undrawn'[b]) <= Rank(undrawn'[b])
      BY DEF Rank
    <3> QED BY <2>1, <2>4, <3>1, <3>2
  <2> QED BY <2>2, <2>3, <2>4 DEF Owed, Due
<1> QED BY <1>3, <1>4, <1>5, <1>6, <1>7 DEF Owed

\* Taking the head of the queue keeps whatever that message did not carry.
LEMMA Taken ==
  ASSUME Typing, Owed(inbox), inbox # <<>>
  PROVE  /\ Rest \in Seq(Message)
         /\ Head(inbox).kind # "ActiveBufferUpdated" => Follows(Rest) /\ Drawn(Rest) /\ Clean(Rest)
         /\ Head(inbox).kind # "BufferListUpdated" => Listed(Rest)
         /\ Head(inbox).kind \notin {"ActiveBufferUpdated", "BufferActivity"} => Due(Rest)
<1>1. inbox \in Seq(Message) /\ Rest = Tail(inbox) /\ Rest \in Seq(Message)
  BY HeadTailProperties DEF Typing, QueuesTyped, Rest
<1>2. \A x : Has(inbox, x) => x = Head(inbox) \/ Has(Rest, x)
  BY <1>1, HasTail
<1>3. \A b : ActiveUpdated(b).kind = "ActiveBufferUpdated"
  BY DEF ActiveUpdated
<1>4. \A b, level : Activity(b, level).kind = "BufferActivity"
  BY DEF Activity
<1>5. ASSUME Head(inbox).kind # "ActiveBufferUpdated" PROVE Follows(Rest) /\ Drawn(Rest) /\ Clean(Rest)
  <2>1. Follows(Rest)
    BY <1>1, <1>3, <1>5, NoUpdateTail, EndsTail DEF Owed, Follows
  <2> QED BY <1>2, <1>3, <1>5, <2>1 DEF Owed, Drawn, Clean
<1>6. ASSUME Head(inbox).kind # "BufferListUpdated" PROVE Listed(Rest)
  BY <1>2, <1>6 DEF Owed, Listed, ListUpdated
<1>7. ASSUME Head(inbox).kind \notin {"ActiveBufferUpdated", "BufferActivity"} PROVE Due(Rest)
  BY <1>2, <1>3, <1>4, <1>7 DEF Owed, Due, Covered
<1> QED BY <1>1, <1>5, <1>6, <1>7

LEMMA OptionalPosts ==
  ASSUME NEW condition, NEW x
  PROVE  /\ condition => Has(Optional(condition, x), x)
         /\ ~condition \/ x.kind # "ActiveBufferUpdated" => NoUpdate(Optional(condition, x))
         /\ ~condition => Optional(condition, x) = <<>>
  BY DEF Optional, Has, NoUpdate

LEMMA RedrawPosts ==
  ASSUME NEW b
  PROVE  EndsShowing(<<ActiveUpdated(b)>>, b) /\ EndsShowing(Optional(TRUE, ActiveUpdated(b)), b)
  BY DEF EndsShowing, ActiveUpdated, Optional

LEMMA InitOwed == Init => Owed(inbox)
<1> SUFFICES ASSUME Init PROVE Owed(inbox)
  OBVIOUS
<1>1. Follows(inbox)
  BY DEF Init, Follows, NoUpdate
<1>2. Due(inbox)
  BY DEF Init, Due, NoMarks, Unread
<1> QED BY <1>1, <1>2 DEF Init, Owed, Listed, Drawn, Clean

\* ListUpdated, a redraw of the new pointer if it moved, ListUpdated: what a new
\* session and a removal post.
LEMMA AroundRedraw ==
  ASSUME NEW b \in Pointer, NEW condition
  PROVE  LET m == <<ListUpdated>> \o Optional(condition, ActiveUpdated(b)) \o <<ListUpdated>>
         IN  /\ m \in Seq(Message) /\ Has(m, ListUpdated)
             /\ condition => EndsShowing(m, b)
             /\ ~condition => NoUpdate(m)
<1> DEFINE o == Optional(condition, ActiveUpdated(b))
           m == <<ListUpdated>> \o o \o <<ListUpdated>>
<1>1. o \in Seq(Message) /\ <<ListUpdated>> \in Seq(Message)
  BY OptionalTyped, MessagesTyped
<1>2. <<ListUpdated>> \o o \in Seq(Message)
  BY <1>1, ConcatProperties
<1>3. Has(<<ListUpdated>>, ListUpdated) /\ NoUpdate(<<ListUpdated>>)
  BY DEF Has, NoUpdate, ListUpdated
<1>4. m \in Seq(Message) /\ Has(m, ListUpdated)
  BY <1>1, <1>2, <1>3, ConcatProperties, HasConcat
<1>5. ASSUME condition PROVE EndsShowing(m, b)
  <2>1. EndsShowing(o, b)
    BY <1>5, RedrawPosts DEF Optional
  <2>2. EndsShowing(<<ListUpdated>> \o o, b)
    BY <1>1, <2>1, EndsConcat
  <2> QED BY <1>1, <1>2, <1>3, <2>2, EndsConcat
<1>6. ASSUME ~condition PROVE NoUpdate(m)
  <2>1. NoUpdate(o)
    BY <1>6, OptionalPosts
  <2>2. NoUpdate(<<ListUpdated>> \o o)
    BY <1>1, <1>3, <2>1, NoUpdateConcat
  <2> QED BY <1>1, <1>2, <1>3, <2>2, NoUpdateConcat
<1> QED BY <1>4, <1>5, <1>6

LEMMA OpenedOwed ==
  ASSUME Typing, Typing', Owed(inbox), NEW ids \in SUBSET Buffer, SessionOpened(ids)
  PROVE  Owed(inbox)'
<1> DEFINE m == <<ListUpdated>> \o Optional(active' # NoBuffer, ActiveUpdated(active'))
                  \o <<ListUpdated>>
<1>1. active' \in Pointer /\ inbox \in Seq(Message)
  BY DEF Typing, StateTyped, QueuesTyped
<1>2. /\ m \in Seq(Message) /\ Has(m, ListUpdated)
      /\ active' # NoBuffer => EndsShowing(m, active')
      /\ active' = NoBuffer => NoUpdate(m)
  BY <1>1, AroundRedraw
<1>3. inbox' = inbox \o m
  BY DEF SessionOpened, Post
<1>4. active # NoBuffer => active' = active
  BY DEF SessionOpened
<1>5. UNCHANGED <<leaves, hint, log, activity, mirror, undrawn>>
  BY DEF SessionOpened, Frame, widgets, marks
<1>6. active' = NoBuffer \/ Has(m, ActiveUpdated(active'))
  BY <1>2, EndsHas
<1> HIDE DEF m
<1> QED BY <1>1, <1>2, <1>3, <1>4, <1>5, <1>6, Posted

LEMMA RemovedOwed ==
  ASSUME Typing, Typing', Owed(inbox), NEW ids \in SUBSET Buffer, BuffersRemoved(ids)
  PROVE  Owed(inbox)'
<1> DEFINE m == <<ListUpdated>> \o Optional(active \in ids, ActiveUpdated(active'))
                  \o <<ListUpdated>>
<1>1. active' \in Pointer /\ inbox \in Seq(Message)
  BY DEF Typing, StateTyped, QueuesTyped
<1>2. /\ m \in Seq(Message) /\ Has(m, ListUpdated)
      /\ active \in ids => EndsShowing(m, active')
      /\ active \notin ids => NoUpdate(m)
  BY <1>1, AroundRedraw
<1>3. inbox' = inbox \o m /\ (active \notin ids => active' = active)
  BY DEF BuffersRemoved, Post, Repaired
<1>4. UNCHANGED <<leaves, hint, log, activity, mirror, debounce, cancelled>>
  BY DEF BuffersRemoved, Live, Frame, widgets, marks
<1>5. \A b \in Buffer : undrawn'[b] = "none" \/ undrawn'[b] = undrawn[b]
  BY DEF BuffersRemoved
<1>6. active \in ids => Has(m, ActiveUpdated(active'))
  BY <1>2, EndsHas
<1>7. \/ active' = NoBuffer \/ undrawn'[active'] = "none"
      \/ debounce' \/ cancelled' \/ Has(m, ActiveUpdated(active'))
      \/ /\ active' = active /\ undrawn'[active] = undrawn[active]
         /\ debounce \/ cancelled => debounce' \/ cancelled'
  BY <1>1, <1>3, <1>4, <1>5, <1>6 DEF Pointer
<1>8. \A b \in Buffer : undrawn'[b] \in Unread =>
         undrawn'[b] = undrawn[b] \/ (b # active' /\ Has(m, Activity(b, undrawn'[b])))
  BY <1>5 DEF Unread
<1> HIDE DEF m
<1> QED BY <1>1, <1>2, <1>3, <1>4, <1>7, <1>8, Posted

LEMMA BacklogOwed ==
  ASSUME Typing, Typing', Owed(inbox), NEW b \in Buffer, BacklogReceived(b)
  PROVE  Owed(inbox)'
<1> DEFINE m == Optional(b = active, ActiveUpdated(b))
<1>1. inbox \in Seq(Message) /\ m \in Seq(Message) /\ inbox' = inbox \o m
  BY OptionalTyped, MessagesTyped DEF BacklogReceived, Post, Typing, QueuesTyped, Pointer
<1>2. UNCHANGED <<leaves, hint, log, activity, mirror, debounce, cancelled, active, buffers>>
  BY DEF BacklogReceived, Live, Frame, widgets, marks
<1>3. b = active => EndsShowing(m, active')
  BY <1>2, RedrawPosts DEF Optional
<1>4. b # active => NoUpdate(m)
  BY OptionalPosts
<1>5. undrawn' = [undrawn EXCEPT ![b] = Higher(undrawn[b], "quiet")] /\ undrawn \in [Buffer -> Level]
  BY DEF BacklogReceived, Typing, StateTyped
<1>6. b = active => Has(m, ActiveUpdated(active'))
  BY <1>3, EndsHas
<1>7. b # active /\ active \in Buffer => undrawn'[active] = undrawn[active]
  BY <1>5
<1>8. active \in Buffer \cup {NoBuffer}
  BY DEF Typing, StateTyped, Pointer
<1>9. \A x \in Buffer : undrawn'[x] \in Unread => undrawn'[x] = undrawn[x]
  BY <1>5 DEF Higher, Unread
<1> HIDE DEF m
<1> QED BY <1>1, <1>2, <1>3, <1>4, <1>6, <1>7, <1>8, <1>9, Posted

\* A line of the pointer's buffer schedules a redraw, one of another buffer posts
\* its mark, and a pointer that it moved is shown last.
LEMMA MessageOwed ==
  ASSUME Typing, Typing', Owed(inbox), NEW b \in Buffer, NEW level \in Level \ {"none"},
         MessageReceived(b, level)
  PROVE  Owed(inbox)'
<1>1. PICK pick \in DefaultPicks :
        LET picks   == b \notin buffers /\ active = NoBuffer
            pointer == IF picks THEN pick ELSE active
            cold    == ColdStart(pointer)
        IN /\ active' = IF cold THEN b ELSE pointer
           /\ ever' = (ever \/ cold \/ (b \notin buffers /\ pointer # NoBuffer))
           /\ Post(Optional(b \notin buffers, ListUpdated)
                     \o Optional(picks, ActiveUpdated(pointer))
                     \o Optional(cold, ActiveUpdated(b))
                     \o Optional(b # active' /\ NeedsMark(level), Activity(b, level)))
  BY DEF MessageReceived
<1> DEFINE picks   == b \notin buffers /\ active = NoBuffer
           pointer == IF picks THEN pick ELSE active
           cold    == ColdStart(pointer)
           o1 == Optional(b \notin buffers, ListUpdated)
           o2 == Optional(picks, ActiveUpdated(pointer))
           o3 == Optional(cold, ActiveUpdated(b))
           o4 == Optional(b # active' /\ NeedsMark(level), Activity(b, level))
           m  == o1 \o o2 \o o3 \o o4
<1>2. inbox' = inbox \o m /\ inbox \in Seq(Message)
  BY <1>1 DEF Post, Typing, QueuesTyped
<1>3. active' = IF cold THEN b ELSE pointer
  BY <1>1
<1>4. pointer \in Pointer /\ active \in Pointer
  BY PicksTyped DEF Typing, StateTyped
<1>5. o1 \in Seq(Message) /\ o2 \in Seq(Message) /\ o3 \in Seq(Message) /\ o4 \in Seq(Message)
  <2>1. NeedsMark(level) => level \in Unread
    BY DEF NeedsMark, Level, Unread
  <2> QED BY <1>4, <2>1, OptionalTyped, MessagesTyped DEF Pointer
<1>6. /\ NoUpdate(o1) /\ NoUpdate(o4)
      /\ ~picks => NoUpdate(o2)
      /\ ~cold => NoUpdate(o3)
  BY OptionalPosts DEF ListUpdated, Activity
<1>7. (picks => EndsShowing(o2, pointer)) /\ (cold => EndsShowing(o3, b))
  <2>1. picks => o2 = <<ActiveUpdated(pointer)>>
    BY DEF Optional
  <2>2. cold => o3 = <<ActiveUpdated(b)>>
    BY DEF Optional
  <2> QED BY <2>1, <2>2, RedrawPosts
<1>8. /\ b \notin buffers => Has(o1, ListUpdated)
      /\ b # active' /\ NeedsMark(level) => Has(o4, Activity(b, level))
  BY OptionalPosts
<1>9. ~picks => pointer = active
  OBVIOUS
<1> HIDE DEF o1, o2, o3, o4, picks, pointer, cold
<1>10. o1 \o o2 \in Seq(Message) /\ o1 \o o2 \o o3 \in Seq(Message) /\ m \in Seq(Message)
  BY <1>5, ConcatProperties
<1>11. EndsShowing(m, active') \/ (NoUpdate(m) /\ active' = active)
  <2>1. CASE cold
    <3>1. EndsShowing(o1 \o o2 \o o3, b)
      BY <1>5, <1>7, <1>10, <2>1, EndsConcat
    <3> QED BY <1>3, <1>5, <1>6, <1>10, <2>1, <3>1, EndsConcat
  <2>2. CASE ~cold /\ picks
    <3>1. EndsShowing(o1 \o o2, pointer)
      BY <1>5, <1>7, <2>2, EndsConcat
    <3>2. EndsShowing(o1 \o o2 \o o3, pointer)
      BY <1>5, <1>6, <1>10, <2>2, <3>1, EndsConcat
    <3> QED BY <1>3, <1>5, <1>6, <1>10, <2>2, <3>2, EndsConcat
  <2>3. CASE ~cold /\ ~picks
    <3>1. NoUpdate(o1 \o o2)
      BY <1>5, <1>6, <2>3, NoUpdateConcat
    <3>2. NoUpdate(o1 \o o2 \o o3)
      BY <1>5, <1>6, <1>10, <2>3, <3>1, NoUpdateConcat
    <3> QED BY <1>3, <1>5, <1>6, <1>9, <1>10, <2>3, <3>2, NoUpdateConcat
  <2> QED BY <2>1, <2>2, <2>3
<1>12. buffers' = buffers \/ Has(m, ListUpdated)
  <2>1. buffers' = buffers \cup {b}
    BY DEF MessageReceived
  <2>2. CASE b \notin buffers
    BY <1>5, <1>8, <1>10, <2>2, HasConcat
  <2> QED BY <2>1, <2>2
<1>13. /\ undrawn' = [undrawn EXCEPT ![b] = Higher(undrawn[b], IF b = active' THEN "quiet" ELSE level)]
       /\ undrawn \in [Buffer -> Level]
  BY DEF MessageReceived, Typing, StateTyped
<1>14. \A x \in Buffer : undrawn'[x] \in Unread =>
         undrawn'[x] = undrawn[x] \/ (x # active' /\ Has(m, Activity(x, undrawn'[x])))
  <2> SUFFICES ASSUME undrawn'[b] \in Unread, undrawn'[b] # undrawn[b]
               PROVE  b # active' /\ Has(m, Activity(b, undrawn'[b]))
    BY <1>13
  <2>1. b # active' /\ undrawn'[b] = level /\ NeedsMark(level)
    BY <1>13 DEF Higher, Unread, NeedsMark
  <2> QED BY <1>5, <1>8, <1>10, <2>1, HasConcat
<1>15. UNCHANGED <<leaves, hint, log, activity, mirror, cancelled>>
  BY DEF MessageReceived, Live, Frame, widgets, marks
<1>16. (debounce \/ b = active') => debounce'
  BY DEF MessageReceived, Schedule
<1>17. \/ active' = NoBuffer \/ undrawn'[active'] = "none"
       \/ debounce' \/ cancelled' \/ Has(m, ActiveUpdated(active'))
       \/ /\ active' = active /\ undrawn'[active] = undrawn[active]
          /\ debounce \/ cancelled => debounce' \/ cancelled'
  <2>1. CASE EndsShowing(m, active')
    BY <2>1, EndsHas
  <2>2. CASE active' = active
    BY <1>4, <1>13, <1>15, <1>16, <2>2 DEF Pointer
  <2> QED BY <1>11, <2>1, <2>2
<1> HIDE DEF m
<1> QED BY <1>2, <1>10, <1>11, <1>12, <1>14, <1>15, <1>17, Posted

\* A step that posts only what is no redraw and touches nothing else that is owed.
LEMMA PlainPostOwed ==
  ASSUME Typing, NEW q \in Seq(Message), Owed(q), NEW x \in Message,
         x.kind # "ActiveBufferUpdated", inbox' = q \o <<x>> \/ inbox' = q,
         UNCHANGED <<buffers, leaves, hint, log, activity, mirror, active, undrawn>>,
         debounce \/ cancelled => debounce' \/ cancelled'
  PROVE  Owed(inbox)'
<1>1. PICK m \in {<<x>>, <<>>} : inbox' = q \o m
  BY ConcatEmptySeq
<1>2. m \in Seq(Message) /\ NoUpdate(m)
  <2>1. CASE m = <<x>>
    BY <2>1 DEF NoUpdate
  <2>2. CASE m = <<>>
    BY <2>2 DEF NoUpdate
  <2> QED BY <2>1, <2>2
<1> QED BY <1>1, <1>2, Posted

LEMMA BridgeOwed ==
  ASSUME Typing, Typing', Owed(inbox), Bridge
  PROVE  Owed(inbox)'
<1>1. inbox \in Seq(Message)
  BY DEF Typing, QueuesTyped
<1>2. ASSUME ListChanged PROVE Owed(inbox)'
  <2>1. inbox' = inbox \o <<ListUpdated>>
    BY <1>2 DEF ListChanged, Post
  <2>2. UNCHANGED <<buffers, leaves, hint, log, activity, mirror, active, undrawn, debounce, cancelled>>
    BY <1>2 DEF ListChanged, Live, Frame, widgets, marks, store
  <2>3. ListUpdated \in Message /\ ListUpdated.kind # "ActiveBufferUpdated"
    BY MessagesTyped DEF ListUpdated
  <2> QED BY <1>1, <2>1, <2>2, <2>3, PlainPostOwed
<1>3. ASSUME Disconnected PROVE Owed(inbox)'
  <2>1. PICK fatal \in BOOLEAN : inbox' = inbox \o <<Ended(fatal)>>
    BY <1>3, Zenon DEF Disconnected, Post
  <2>2. UNCHANGED <<buffers, leaves, hint, log, activity, mirror, active, undrawn, debounce, cancelled>>
    BY <1>3 DEF Disconnected, Frame, widgets, marks, store
  <2>3. Ended(fatal) \in Message /\ Ended(fatal).kind # "ActiveBufferUpdated"
    BY MessagesTyped DEF Ended
  <2> QED BY <1>1, <2>1, <2>2, <2>3, PlainPostOwed
<1> QED BY <1>2, <1>3, OpenedOwed, RemovedOwed, BacklogOwed, MessageOwed DEF Bridge

LEMMA RestOwed ==
  ASSUME Typing, Typing', Owed(inbox), DebounceFires \/ TreeForwards \/ User \/ UNCHANGED vars
  PROVE  Owed(inbox)'
<1>1. inbox \in Seq(Message) /\ echoes \in Seq(Echo)
  BY DEF Typing, QueuesTyped
<1>2. CASE DebounceFires
  <2> DEFINE m == <<ActiveUpdated(active)>>
  <2>1. m \in Seq(Message) /\ inbox' = inbox \o m
    BY <1>2, MessagesTyped DEF DebounceFires, Post, Typing, StateTyped
  <2>2. UNCHANGED <<buffers, leaves, hint, log, activity, mirror, active, undrawn>>
    BY <1>2 DEF DebounceFires, store, widgets, marks, history
  <2>3. EndsShowing(m, active') /\ Has(m, ActiveUpdated(active'))
    BY <2>2, RedrawPosts, EndsHas
  <2> HIDE DEF m
  <2> QED BY <1>1, <2>1, <2>2, <2>3, Posted
<1>3. CASE TreeForwards
  <2>1. Head(echoes) \in Echo /\ inbox' = Append(inbox, Head(echoes))
    BY <1>1, <1>3, HeadTailProperties DEF TreeForwards
  <2>2. Head(echoes) \in Message /\ Head(echoes).kind # "ActiveBufferUpdated"
    <3>1. \A x \in Echo : x.kind # "ActiveBufferUpdated"
      BY DEF Echo, Selected
    <3> QED BY <2>1, <3>1, MessagesTyped
  <2>3. inbox' = inbox \o <<Head(echoes)>>
    BY <1>1, <2>1, <2>2, AppendIsConcat
  <2>4. UNCHANGED <<buffers, leaves, hint, log, activity, mirror, active, undrawn, debounce, cancelled>>
    BY <1>3 DEF TreeForwards, store, widgets, marks, history
  <2> QED BY <1>1, <2>2, <2>3, <2>4, PlainPostOwed
<1>4. ASSUME NEW x \in Message, x.kind # "ActiveBufferUpdated", Act,
             inbox' = Append(inbox, x) \/ inbox' = inbox
      PROVE  Owed(inbox)'
  <2>1. UNCHANGED <<buffers, leaves, hint, log, activity, mirror, active, undrawn, debounce, cancelled>>
    BY <1>4 DEF Act, store, widgets, marks, history
  <2>2. inbox' = inbox \o <<x>> \/ inbox' = inbox
    BY <1>1, <1>4, AppendIsConcat
  <2> QED BY <1>1, <1>4, <2>1, <2>2, PlainPostOwed
<1>5. CASE User
  <2>1. /\ Key("cycle") \in Message /\ Key("cycle").kind # "ActiveBufferUpdated"
        /\ Key("reconnect") \in Message /\ Key("reconnect").kind # "ActiveBufferUpdated"
    BY MessagesTyped DEF Key
  <2> QED BY <1>4, <1>5, <2>1 DEF User, Click, Press
<1>6. CASE UNCHANGED vars
  <2>1. UNCHANGED <<inbox, buffers, leaves, hint, log, activity, mirror, active, undrawn, debounce, cancelled>>
    BY <1>6 DEF vars, store, widgets, marks, history
  <2>2. ListUpdated \in Message /\ ListUpdated.kind # "ActiveBufferUpdated"
    BY MessagesTyped DEF ListUpdated
  <2> QED BY <1>1, <2>1, <2>2, PlainPostOwed
<1> QED BY <1>2, <1>3, <1>5, <1>6

\* The tree is rebuilt from the store and copies the marks.
LEMMA ListHandledOwed ==
  ASSUME Typing, Owed(inbox), OnListUpdated
  PROVE  Owed(inbox)'
<1>1. inbox # <<>> /\ Head(inbox).kind = "BufferListUpdated" /\ UNCHANGED buffers
  BY DEF OnListUpdated, Handle, store
<1>2. /\ inbox' = Rest /\ leaves' = buffers /\ mirror' = activity
      /\ UNCHANGED <<debounce, active, hint, log, activity, undrawn, cancelled>>
  BY DEF OnListUpdated, history
<1>3. Follows(Rest) /\ Drawn(Rest) /\ Clean(Rest) /\ Due(Rest)
  BY <1>1, Taken
<1>4. Follows(inbox)' /\ Drawn(inbox)' /\ Clean(inbox)'
  BY <1>2, <1>3 DEF Follows, Drawn, Clean, NoUpdate, EndsShowing, Has, ActiveUpdated
<1>5. Due(inbox)'
  BY <1>2, <1>3 DEF Due, Covered, Has, ActiveUpdated, Activity, Rank
<1> QED BY <1>1, <1>2, <1>4, <1>5 DEF Owed, Listed

\* The redraw of b pays what was owed to b, and b was the pointer's or the last
\* redraw is still to come.
LEMMA RedrawHandledOwed ==
  ASSUME Typing, Owed(inbox), OnActiveUpdated
  PROVE  Owed(inbox)'
<1> DEFINE b == Head(inbox).buffer
<1>1. inbox # <<>> /\ inbox \in Seq(Message) /\ Head(inbox).kind = "ActiveBufferUpdated"
  BY DEF OnActiveUpdated, Handle, Typing, QueuesTyped
<1>2. Head(inbox) = ActiveUpdated(b)
  BY <1>1, HeadTailProperties, KindsOfMessages
<1>3. /\ inbox' = Rest /\ log' = b /\ hint' = b
      /\ activity' = Consumed(activity, b) /\ mirror' = Consumed(mirror, b)
      /\ undrawn' = [x \in Buffer |-> IF x = b THEN "none" ELSE undrawn[x]]
      /\ UNCHANGED <<buffers, debounce, active, leaves>>
  BY DEF OnActiveUpdated, Handle, store
<1>4. \A x : Has(inbox, x) => x = Head(inbox) \/ Has(Rest, x)
  BY <1>1, HasTail DEF Rest
<1>5. EndsShowing(Rest, active) \/ (b = active /\ NoUpdate(Rest))
  <2>1. ~NoUpdate(inbox)
    BY <1>1 DEF NoUpdate
  <2>2. EndsShowing(inbox, active)
    BY <2>1 DEF Owed, Follows
  <2>3. EndsShowing(Rest, active) \/ (Head(inbox) = ActiveUpdated(active) /\ NoUpdate(Rest))
    BY <1>1, <2>2, EndsTail DEF Rest
  <2> QED BY <2>3 DEF ActiveUpdated
<1>6. b # active => Has(Rest, ActiveUpdated(active))
  BY <1>5, EndsHas
<1>7. Follows(inbox)'
  BY <1>3, <1>5 DEF Follows, NoUpdate, EndsShowing, ActiveUpdated
<1>8. Listed(inbox)'
  BY <1>1, <1>3, Taken DEF Listed, Has, ListUpdated
<1>9. active \in Buffer \cup {NoBuffer}
  BY DEF Typing, StateTyped, Pointer
<1>10. Drawn(inbox)' /\ Clean(inbox)'
  BY <1>3, <1>6, <1>9 DEF Drawn, Clean, Has, ActiveUpdated, Consumed
<1>11. Due(inbox)'
  <2> SUFFICES ASSUME NEW x \in Buffer, undrawn'[x] \in Unread
               PROVE  Has(inbox', ActiveUpdated(x)) \/ (x # active' /\ Covered(inbox, x)')
    BY DEF Due, Has, ActiveUpdated
  <2>1. x # b /\ undrawn'[x] = undrawn[x] /\ activity'[x] = activity[x]
    BY <1>3 DEF Unread, Consumed
  <2>2. ActiveUpdated(x) # Head(inbox) /\ \A level : Activity(x, level) # Head(inbox)
    BY <1>2, <2>1 DEF ActiveUpdated, Activity
  <2>3. CASE Has(inbox, ActiveUpdated(x))
    BY <1>3, <1>4, <2>2, <2>3
  <2>4. CASE x # active /\ Covered(inbox, x)
    <3>1. Rank(undrawn[x]) <= Rank(activity[x]) => Covered(inbox, x)'
      BY <2>1 DEF Covered, Rank
    <3>2. ASSUME NEW level \in Unread, Has(inbox, Activity(x, level)),
                 Rank(undrawn[x]) <= Rank(level)
          PROVE  Covered(inbox, x)'
      <4>1. Has(inbox', Activity(x, level))
        BY <1>3, <1>4, <2>2, <3>2
      <4> QED BY <2>1, <3>2, <4>1 DEF Covered, Has, Activity, Rank
    <3> QED BY <1>3, <2>4, <3>1, <3>2 DEF Covered
  <2> QED BY <2>1, <2>3, <2>4 DEF Owed, Due
<1>12. mirror' = activity'
  BY <1>3 DEF Owed
<1> QED BY <1>7, <1>8, <1>10, <1>11, <1>12 DEF Owed

\* A mark that arrives never lowers the one there is; one for the pointer's buffer
\* is dropped while a redraw of it waits or nothing is left to mark.
LEMMA ActivityHandledOwed ==
  ASSUME Typing, Owed(inbox), OnActivity
  PROVE  Owed(inbox)'
<1> DEFINE b == Head(inbox).buffer
           l == Head(inbox).level
           mark == Marked(activity[b], l)
<1>1. inbox # <<>> /\ inbox \in Seq(Message) /\ Head(inbox).kind = "BufferActivity"
  BY DEF OnActivity, Handle, Typing, QueuesTyped
<1>2. Head(inbox) = Activity(b, l) /\ b \in Buffer /\ l \in Unread
  BY <1>1, HeadTailProperties, KindsOfMessages
<1>3. /\ inbox' = Rest
      /\ UNCHANGED <<buffers, debounce, active, leaves, hint, log, undrawn, cancelled>>
  BY DEF OnActivity, Handle, store, widgets, history
<1>4. IF b = active THEN activity' = activity /\ mirror' = mirror
      ELSE activity' = [activity EXCEPT ![b] = mark] /\ mirror' = [mirror EXCEPT ![b] = mark]
  BY DEF OnActivity, marks
<1>5. activity \in [Buffer -> Level \ {"quiet"}] /\ active \in Buffer \cup {NoBuffer}
  BY DEF Typing, StateTyped, Pointer
<1>6. \A x : Has(inbox, x) => x = Head(inbox) \/ Has(Rest, x)
  BY <1>1, HasTail DEF Rest
<1>7. Follows(Rest) /\ Drawn(Rest) /\ Clean(Rest) /\ Listed(Rest)
  BY <1>1, Taken
<1>8. Follows(inbox)' /\ Drawn(inbox)' /\ Listed(inbox)'
  BY <1>3, <1>7 DEF Follows, Drawn, Listed, NoUpdate, EndsShowing, Has, ActiveUpdated, ListUpdated
<1>9. active # NoBuffer => activity'[active] = activity[active]
  BY <1>4, <1>5
<1>10. Clean(inbox)'
  BY <1>3, <1>7, <1>9 DEF Clean, Has, ActiveUpdated
<1>11. Rank(activity[b]) <= Rank(mark) /\ Rank(l) <= Rank(mark)
  BY <1>2, <1>5 DEF Marked, Rank, Level, Unread
<1>12. Due(inbox)'
  <2> SUFFICES ASSUME NEW x \in Buffer, undrawn[x] \in Unread
               PROVE  Has(inbox', ActiveUpdated(x)) \/ (x # active /\ Covered(inbox, x)')
    BY <1>3 DEF Due, Has, ActiveUpdated
  <2>1. CASE Has(inbox, ActiveUpdated(x))
    <3>1. ActiveUpdated(x) # Head(inbox)
      BY <1>1 DEF ActiveUpdated
    <3> QED BY <1>3, <1>6, <2>1, <3>1
  <2>2. CASE x # active /\ Covered(inbox, x)
    <3> HIDE DEF mark
    <3>1. x = b => activity'[x] = mark
      BY <1>4, <1>5, <2>2
    <3>2. x # b => activity'[x] = activity[x]
      BY <1>4, <1>5
    <3>3. Rank(undrawn[x]) \in Nat /\ \A level : Rank(level) \in Nat
      BY DEF Rank
    <3>4. ASSUME Rank(undrawn[x]) <= Rank(activity'[x]) PROVE Covered(inbox, x)'
      BY <1>3, <3>4 DEF Covered, Rank
    <3>5. ASSUME Rank(undrawn[x]) <= Rank(activity[x]) PROVE Covered(inbox, x)'
      <4>1. Rank(activity[x]) <= Rank(activity'[x])
        BY <1>11, <3>1, <3>2, <3>3
      <4> QED BY <3>3, <3>4, <3>5, <4>1
    <3>6. ASSUME NEW level \in Unread, Has(inbox, Activity(x, level)),
                 Rank(undrawn[x]) <= Rank(level)
          PROVE  Covered(inbox, x)'
      <4>1. CASE Activity(x, level) = Head(inbox)
        <5>1. x = b /\ level = l
          BY <1>2, <4>1 DEF Activity
        <5>2. Rank(level) <= Rank(activity'[x])
          BY <1>11, <3>1, <5>1
        <5> QED BY <3>3, <3>4, <3>6, <5>2
      <4>2. CASE Has(Rest, Activity(x, level))
        BY <1>3, <3>6, <4>2 DEF Covered, Has, Activity, Rank
      <4> QED BY <1>6, <3>6, <4>1, <4>2
    <3> QED BY <2>2, <3>5, <3>6 DEF Covered
  <2> QED BY <2>1, <2>2 DEF Owed, Due
<1>13. mirror' = activity'
  BY <1>4 DEF Owed
<1> QED BY <1>8, <1>10, <1>12, <1>13 DEF Owed

LEMMA AppOwed ==
  ASSUME Typing, Typing', Owed(inbox), App
  PROVE  Owed(inbox)'
<1>1. ASSUME NEW kind \in {"BufferSelected", "cycle", "SessionEnded", "reconnect"}, Handle(kind)
      PROVE  Owed(Rest) /\ Rest \in Seq(Message) /\ UNCHANGED buffers
  BY <1>1, Taken DEF Owed, Handle, store
<1>2. ListUpdated \in Message /\ ListUpdated.kind # "ActiveBufferUpdated"
  BY MessagesTyped DEF ListUpdated
<1>3. ASSUME NEW kind \in {"BufferSelected", "cycle"}, Handle(kind), NEW b \in Buffer, SetActive(b),
             UNCHANGED <<leaves, hint, log, activity, mirror, undrawn>>
      PROVE  Owed(inbox)'
  <2> DEFINE m == <<ActiveUpdated(b)>>
  <2>1. m \in Seq(Message) /\ ActiveUpdated(b) \in Message
    BY MessagesTyped DEF Pointer
  <2>2. Owed(Rest) /\ Rest \in Seq(Message) /\ UNCHANGED buffers
    BY <1>1, <1>3
  <2>3. inbox' = Rest \o m /\ active' = b
    BY <1>3, <2>1, <2>2, AppendIsConcat DEF SetActive
  <2>4. EndsShowing(m, active') /\ Has(m, ActiveUpdated(active'))
    BY <2>3, RedrawPosts, EndsHas
  <2> HIDE DEF m
  <2> QED BY <1>3, <2>1, <2>2, <2>3, <2>4, Posted
<1>4. CASE OnSelected
  <2>1. UNCHANGED <<leaves, hint, log, activity, mirror, undrawn, debounce, cancelled>>
    BY <1>4 DEF OnSelected, widgets, marks
  <2>2. Handle("BufferSelected") /\ Head(inbox).buffer \in Buffer
    BY <1>4, HeadTailProperties, KindsOfMessages DEF OnSelected, Handle, Typing, QueuesTyped
  <2>3. SetActive(Head(inbox).buffer) \/ (inbox' = Rest /\ active' = active)
    BY <1>4 DEF OnSelected
  <2>4. CASE SetActive(Head(inbox).buffer)
    BY <1>3, <2>1, <2>2, <2>4
  <2>5. CASE inbox' = Rest /\ active' = active
    <3>1. Owed(Rest) /\ Rest \in Seq(Message) /\ UNCHANGED buffers
      BY <1>1, <2>2
    <3> QED BY <1>2, <2>1, <2>5, <3>1, PlainPostOwed
  <2> QED BY <2>3, <2>4, <2>5
<1>5. CASE OnCycle
  <2>1. UNCHANGED <<leaves, hint, log, activity, mirror, undrawn, debounce, cancelled>>
    BY <1>5 DEF OnCycle, widgets, marks
  <2>2. Handle("cycle") /\ buffers \subseteq Buffer
    BY <1>5 DEF OnCycle, Typing, StateTyped
  <2>3. (\E b \in Buffer : SetActive(b)) \/ (inbox' = Rest /\ active' = active)
    BY <1>5, <2>2 DEF OnCycle
  <2>4. CASE \E b \in Buffer : SetActive(b)
    BY <1>3, <2>1, <2>2, <2>4
  <2>5. CASE inbox' = Rest /\ active' = active
    <3>1. Owed(Rest) /\ Rest \in Seq(Message) /\ UNCHANGED buffers
      BY <1>1, <2>2
    <3> QED BY <1>2, <2>1, <2>5, <3>1, PlainPostOwed
  <2> QED BY <2>3, <2>4, <2>5
<1>6. CASE OnSessionEnded \/ OnReconnect
  <2>1. /\ UNCHANGED <<leaves, hint, log, activity, mirror, undrawn, active>> /\ inbox' = Rest
        /\ debounce \/ cancelled => debounce' \/ cancelled'
    BY <1>6 DEF OnSessionEnded, OnReconnect, widgets, marks, history
  <2>2. Owed(Rest) /\ Rest \in Seq(Message) /\ UNCHANGED buffers
    BY <1>1, <1>6 DEF OnSessionEnded, OnReconnect
  <2> QED BY <1>2, <2>1, <2>2, PlainPostOwed
<1> QED BY <1>4, <1>5, <1>6, ListHandledOwed, RedrawHandledOwed, ActivityHandledOwed DEF App

LEMMA OwedInvariant == Spec => [](Typing /\ Owed(inbox))
<1>1. Init => Typing /\ Owed(inbox)
  BY InitTyped, InitOwed
<1>2. Typing /\ [Next]_vars => Typing'
  BY BridgeTyped, AppTyped, RestTyped DEF Next
<1>3. Typing /\ Owed(inbox) /\ [Next]_vars => Typing' /\ Owed(inbox)'
  BY <1>2, BridgeOwed, AppOwed, RestOwed DEF Next
<1> QED BY <1>1, <1>3, PTL DEF Spec

\* When every message is handled, the log, the tree's cursor and the pointer agree,
\* the tree lists the buffers, and the shown buffer is drawn to its last line,
\* unless a reconnect cancelled the redraw: for any buffers, traffic and user.
THEOREM ScreenFollowsPointer == Spec => []ScreenCurrent
<1>1. Typing /\ Owed(inbox) => ScreenCurrent
  BY DEF ScreenCurrent, Settled, Quiet, Owed, Follows, Listed, Drawn, EndsShowing, Has
<1> QED BY OwedInvariant, <1>1, PTL

\* When every message is handled, no line that came for another buffer is both
\* undrawn and unmarked, and the sidebar's copy of the marks is the app's.
THEOREM NothingMissed == Spec => []UnreadMarked
<1>1. Typing /\ Owed(inbox) => UnreadMarked
  BY DEF UnreadMarked, Settled, Quiet, Owed, Clean, Due, Covered, Has, Unread
<1> QED BY OwedInvariant, <1>1, PTL
================================================================================
