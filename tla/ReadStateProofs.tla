---------------------------- MODULE ReadStateProofs ------------------------------
(***************************************************************************)
(* What TLAPS proves of ReadState for any buffers, any number of messages  *)
(* and any order of the core's, the app's and the user's steps: a marker   *)
(* names a message of its own buffer, only the user replaces one, the last *)
(* placement reaches the core, and nothing counts as seen that was neither *)
(* drawn nor due.                                                          *)
(***************************************************************************)
EXTENDS ReadState, SequenceTheorems, WellFoundedInduction, TLAPS

USE BoundsAssumption, NetworkOfAssumption

\* Ids are bounded, so there is a newest one.
LEMMA NewestIsOne == ASSUME NEW ids \in SUBSET AnyId, ids # {} PROVE Newest(ids) \in ids
<1> DEFINE T == {MaxId - i : i \in ids}
<1>1. MaxId \in Nat /\ \A i \in ids : i \in Nat /\ i <= MaxId
  BY DEF AnyId, Id, NoId
<1>2. T \subseteq Nat /\ T # {}
  <2>1. \A i \in ids : MaxId - i \in Nat
    BY <1>1
  <2> QED
    BY <2>1, Zenon
<1>3. \E x \in T : \A y \in T : <<y, x>> \notin OpToRel(<, Nat)
  BY <1>2, WFMin, NatLessThanWellFounded
<1>4. PICK x \in T : \A y \in T : <<y, x>> \notin OpToRel(<, Nat)
  BY <1>3
<1>5. \A y \in T : ~(y < x)
  BY <1>2, <1>4 DEF OpToRel
<1>6. PICK i \in ids : x = MaxId - i
  BY <1>4
<1>7. \A j \in ids : j <= i
  <2> SUFFICES ASSUME NEW j \in ids PROVE j <= i
    OBVIOUS
  <2>1. ~(MaxId - j < MaxId - i)
    BY <1>5, <1>6, Zenon
  <2> QED
    BY <1>1, <2>1
<1> QED
  BY <1>7 DEF Newest

--------------------------------------------------------------------------------
(* Sequences over a set.                                                       *)

LEMMA SeqGrows == ASSUME NEW S, NEW T, S \subseteq T, NEW q \in Seq(S) PROVE q \in Seq(T)
  OBVIOUS

LEMMA SeqAppend == ASSUME NEW S, NEW q \in Seq(S), NEW e \in S PROVE Append(q, e) \in Seq(S)
  OBVIOUS

LEMMA SeqConcat == ASSUME NEW S, NEW q \in Seq(S), NEW r \in Seq(S) PROVE q \o r \in Seq(S)
  OBVIOUS

LEMMA SeqHead ==
  ASSUME NEW S, NEW q \in Seq(S), q # <<>> PROVE Head(q) \in S /\ Tail(q) \in Seq(S)
  OBVIOUS

LEMMA SeqOptional ==
  ASSUME NEW S, NEW condition \in BOOLEAN, NEW e, condition => e \in S
  PROVE  Optional(condition, e) \in Seq(S)
<1>1. condition => <<e>> \in Seq(S)
  OBVIOUS
<1> QED
  BY <1>1 DEF Optional

--------------------------------------------------------------------------------
(* The invariant: every place a marker can be in, or come from, holds ids that *)
(* belong to its buffer.                                                       *)

Own(b) == {i \in AnyId : Belongs(b, i)}

GoodRequest ==
  {r \in [kind : {"requestSetMarkerLine"}, buffer : Buffer, id : AnyId] :
     r.id \in Own(r.buffer)}
    \cup [kind : {"requestBacklog", "requestSetLastSeenMsg"}, buffer : Buffer, id : AnyId]
    \cup [kind : {"InitRequest"}, buffer : {NoBuffer}, id : {NoId}]

GoodFrame ==
  {f \in [kind : {"displayMsg", "setMarkerLine"}, buffer : Buffer, id : AnyId] :
     f.id \in Own(f.buffer)}
    \cup {f \in [kind : {"receiveBacklog"}, buffer : Buffer, ids : SUBSET AnyId] :
            f.ids \subseteq Own(f.buffer)}
    \cup {f \in [kind : {"InitData"}, lines : [Buffer -> AnyId]] :
            \A b \in Buffer : f.lines[b] \in Own(b)}
    \cup [kind : {"removeBuffer"}, buffer : Buffer]
    \cup [kind : {"networkRemoved"}, network : Network]

GoodMessage ==
  {m \in [kind : {"ReadMarkerPlaced"}, buffer : Buffer, id : AnyId] : m.id \in Own(m.buffer)}
    \cup [kind : {"ActiveBufferUpdated", "BufferSelected"}, buffer : Buffer \cup {NoBuffer}]
    \cup [kind : {"MarkerToLatestRequested", "SessionEnded"}]

ShownId == {i \in AnyId : shown \in Buffer /\ i \in Own(shown)}

Sorts ==
  /\ stored \in [Buffer -> SUBSET AnyId] /\ messages \in [Buffer -> SUBSET AnyId]
  /\ coreLine \in [Buffer -> AnyId] /\ markers \in [Buffer -> AnyId]
  /\ lines \in [Buffer -> AnyId]
  /\ active \in Buffer \cup {NoBuffer} /\ shown \in Buffer \cup {NoBuffer}
  /\ buffers \subseteq Buffer /\ nextId \in Nat

Kept ==
  \A b \in Buffer : /\ messages[b] \subseteq Own(b) /\ stored[b] \subseteq Own(b)
                    /\ coreLine[b] \in Own(b)
                    /\ markers[b] \in Own(b) /\ lines[b] \in Own(b)

Wires  == /\ toCore \in Seq(GoodRequest) /\ workers \in Seq(GoodRequest)
          /\ toClient \in Seq(GoodFrame)
Queues == inbox \in Seq(GoodMessage) /\ selected \in Seq(ShownId) /\ rows \subseteq ShownId

Held == Sorts /\ Kept /\ Wires /\ Queues

LEMMA HeldBelongs == Held => MarkersBelong
  BY DEF Held, Kept, Own, MarkersBelong

\* What belongs to a buffer goes on to: messages are only added.
Grows == \A b \in Buffer, i \in AnyId : Belongs(b, i) => Belongs(b, i)'

LEMMA SetsGrow ==
  ASSUME Grows
  PROVE  /\ \A b \in Buffer : Own(b) \subseteq Own(b)'
         /\ GoodRequest \subseteq GoodRequest' /\ GoodFrame \subseteq GoodFrame'
         /\ GoodMessage \subseteq GoodMessage'
         /\ shown' = shown => ShownId \subseteq ShownId'
<1>1. \A b \in Buffer : Own(b) \subseteq Own(b)'
  BY DEF Grows, Own
<1>2. GoodRequest \subseteq GoodRequest'
  BY <1>1 DEF GoodRequest
<1>3. GoodFrame \subseteq GoodFrame'
  BY <1>1 DEF GoodFrame
<1>4. GoodMessage \subseteq GoodMessage'
  BY <1>1 DEF GoodMessage
<1>5. shown' = shown => ShownId \subseteq ShownId'
  BY <1>1 DEF ShownId
<1> QED
  BY <1>1, <1>2, <1>3, <1>4, <1>5

\* A step that leaves the core's messages alone moves nothing in or out of the sets.
LEMMA SetsStay ==
  ASSUME UNCHANGED stored
  PROVE  /\ Grows /\ \A b : Own(b)' = Own(b)
         /\ GoodRequest' = GoodRequest /\ GoodFrame' = GoodFrame
         /\ GoodMessage' = GoodMessage /\ (shown' = shown => ShownId' = ShownId)
<1>1. \A b, i : Belongs(b, i)' <=> Belongs(b, i)
  BY DEF Belongs
<1>2. \A b : Own(b)' = Own(b)
  BY <1>1 DEF Own
<1> QED
  BY <1>1, <1>2 DEF Grows, GoodRequest, GoodFrame, GoodMessage, ShownId

\* The queues keep what they hold.
LEMMA QueuesGrow ==
  ASSUME Held, Grows
  PROVE  /\ toCore \in Seq(GoodRequest') /\ workers \in Seq(GoodRequest')
         /\ toClient \in Seq(GoodFrame') /\ inbox \in Seq(GoodMessage')
         /\ shown' = shown => selected \in Seq(ShownId') /\ rows \subseteq ShownId'
  BY SetsGrow, SeqGrows DEF Held, Wires, Queues

LEMMA InitHeld == Init => Held
<1> SUFFICES ASSUME Init PROVE Held
  OBVIOUS
<1>1. Sorts
  BY DEF Init, Sorts, Nothing, AnyId, NoId
<1>2. Kept
  BY DEF Init, Kept, Own, Belongs, Nothing, AnyId, NoId
<1>3. \A S : <<>> \in Seq(S)
  OBVIOUS
<1> QED
  BY <1>1, <1>2, <1>3 DEF Init, Held, Wires, Queues

--------------------------------------------------------------------------------
(* The core and its other clients.                                             *)

\* What Broadcast sends.
LEMMA BroadcastHeld ==
  ASSUME Held, Grows, NEW frame, Broadcast(frame), frame \in GoodFrame'
  PROVE  toClient' \in Seq(GoodFrame')
<1>1. toClient \in Seq(GoodFrame')
  BY QueuesGrow
<1> QED
  BY <1>1, SeqAppend DEF Broadcast

\* A step of the core's that leaves the client's state alone.
LEMMA CoreStep ==
  ASSUME Held, Grows, CoreOnly, Sorts', toClient' \in Seq(GoodFrame'),
         toCore' \in Seq(GoodRequest'),
         \A b \in Buffer : stored'[b] \subseteq Own(b)' /\ coreLine'[b] \in Own(b)'
  PROVE  Held'
<1>1. UNCHANGED <<messages, markers, lines, inbox, workers, shown, rows, selected>>
  BY DEF CoreOnly, state, log
<1>2. Kept'
  BY <1>1, SetsGrow DEF Held, Kept
<1>3. Wires' /\ Queues'
  BY <1>1, QueuesGrow DEF Wires, Queues
<1> QED
  BY <1>2, <1>3 DEF Held

LEMMA StoreHeld == ASSUME Held, NEW b \in Buffer, Store(b) PROVE Held'
<1>1. nextId \in AnyId /\ nextId' \in Nat
  BY DEF Held, Sorts, Store, AnyId, Id, NoId
<1>2. stored' \in [Buffer -> SUBSET AnyId] /\ nextId \in stored'[b]
  BY <1>1 DEF Held, Sorts, Store
<1>3. Grows
  BY <1>2 DEF Held, Sorts, Store, Grows, Belongs
<1>4. Sorts'
  BY <1>1, <1>2 DEF Held, Sorts, Store, CoreOnly, state, log
<1>5. [kind |-> "displayMsg", buffer |-> b, id |-> nextId] \in GoodFrame'
  <2>1. nextId \in Own(b)'
    BY <1>1, <1>2 DEF Own, Belongs
  <2> QED
    BY <1>1, <2>1 DEF GoodFrame
<1>6. toClient' \in Seq(GoodFrame')
  BY <1>3, <1>5, BroadcastHeld DEF Store
<1>7. toCore' \in Seq(GoodRequest')
  BY <1>3, QueuesGrow DEF Store
<1>8. \A c \in Buffer : stored'[c] \subseteq Own(c)' /\ coreLine'[c] \in Own(c)'
  <2>1. \A c \in Buffer : stored'[c] \subseteq Own(c)'
    BY <1>2 DEF Own, Belongs
  <2> QED
    BY <1>3, <2>1, SetsGrow DEF Store, Held, Kept
<1> QED
  BY <1>3, <1>4, <1>6, <1>7, <1>8, CoreStep DEF Store

LEMMA OtherMovesLineHeld ==
  ASSUME Held, NEW b \in Buffer, NEW id \in Id, OtherMovesLine(b, id) PROVE Held'
<1>1. Grows /\ UNCHANGED <<stored, gone>>
  BY SetsStay DEF OtherMovesLine
<1>2. id \in Own(b) /\ id \in AnyId
  BY DEF OtherMovesLine, Own, Belongs, AnyId
<1>3. Sorts'
  BY <1>2 DEF Held, Sorts, OtherMovesLine, CoreOnly, state, log
<1>4. [kind |-> "setMarkerLine", buffer |-> b, id |-> id] \in GoodFrame'
  BY <1>1, <1>2, SetsGrow DEF GoodFrame
<1>5. toClient' \in Seq(GoodFrame')
  BY <1>1, <1>4, BroadcastHeld DEF OtherMovesLine
<1>6. toCore' \in Seq(GoodRequest')
  BY <1>1, QueuesGrow DEF OtherMovesLine
<1>7. \A c \in Buffer : stored'[c] \subseteq Own(c)' /\ coreLine'[c] \in Own(c)'
  <2>1. coreLine' = [coreLine EXCEPT ![b] = id]
    BY DEF OtherMovesLine
  <2> QED
    BY <1>1, <1>2, <2>1, SetsGrow DEF Held, Kept, Sorts
<1> QED
  BY <1>1, <1>3, <1>5, <1>6, <1>7, CoreStep DEF OtherMovesLine

\* Buffers go from the core: what it stored for them still belongs to them.
LEMMA ForgetHeld ==
  ASSUME Held, NEW removed \in SUBSET Buffer, Forget(removed),
         NEW frame \in GoodFrame, Broadcast(frame)
  PROVE  Held'
<1>1. UNCHANGED stored /\ Grows
  BY SetsStay DEF Forget
<1>2. Sorts'
  BY DEF Held, Sorts, Forget, CoreOnly, state, log, AnyId
<1>3. toClient' \in Seq(GoodFrame')
  BY <1>1, SetsStay, BroadcastHeld
<1>4. toCore' \in Seq(GoodRequest')
  BY <1>1, QueuesGrow DEF Forget
<1>5. \A c \in Buffer : stored'[c] \subseteq Own(c)' /\ coreLine'[c] \in Own(c)'
  <2>1. \A c \in Buffer : NoId \in Own(c)
    BY DEF Own, Belongs, AnyId
  <2>2. \A c \in Buffer : coreLine'[c] = NoId \/ coreLine'[c] = coreLine[c]
    BY DEF Forget
  <2> QED
    BY <1>1, <2>1, <2>2, SetsStay DEF Held, Kept
<1> QED
  BY <1>1, <1>2, <1>3, <1>4, <1>5, CoreStep DEF Forget

LEMMA OtherRemovesHeld == ASSUME Held, NEW b \in Buffer, OtherRemoves(b) PROVE Held'
<1>1. [kind |-> "removeBuffer", buffer |-> b] \in GoodFrame
  BY DEF GoodFrame
<1> QED
  BY <1>1, ForgetHeld DEF OtherRemoves

LEMMA OtherRemovesNetworkHeld ==
  ASSUME Held, NEW n \in Network, OtherRemovesNetwork(n) PROVE Held'
<1>1. [kind |-> "networkRemoved", network |-> n] \in GoodFrame
  BY DEF GoodFrame
<1>2. BuffersOf(n) \in SUBSET Buffer
  BY DEF BuffersOf
<1> QED
  BY <1>1, <1>2, ForgetHeld DEF OtherRemovesNetwork

\* A reply is made of what the core has and of what it was sent.
LEMMA ReplyGood ==
  ASSUME Held, NEW r \in GoodRequest
  PROVE  Reply(r) \in Seq(GoodFrame)
<1>1. CASE r.kind = "InitRequest"
  <2>1. [kind |-> "InitData", lines |-> coreLine] \in GoodFrame
    BY DEF GoodFrame, Held, Sorts, Kept
  <2> QED
    BY <1>1, <2>1 DEF Reply
<1>2. CASE r.kind = "requestBacklog"
  <2>1. r.buffer \in Buffer
    BY <1>2 DEF GoodRequest
  <2> DEFINE ids == IF r.buffer \in gone THEN {} ELSE stored[r.buffer]
  <2>2. ids \subseteq AnyId /\ ids \subseteq Own(r.buffer)
    BY <2>1 DEF Held, Sorts, Kept
  <2>3. [kind |-> "receiveBacklog", buffer |-> r.buffer, ids |-> ids] \in GoodFrame
    BY <2>1, <2>2 DEF GoodFrame
  <2> QED
    BY <1>2, <2>3 DEF Reply
<1>3. CASE r.kind = "requestSetMarkerLine" /\ r.buffer \notin gone
  <2>1. [kind |-> "setMarkerLine", buffer |-> r.buffer, id |-> r.id] \in GoodFrame
    BY <1>3 DEF GoodFrame, GoodRequest
  <2> QED
    BY <1>3, <2>1 DEF Reply
<1>4. CASE r.kind \notin {"InitRequest", "requestBacklog"}
           /\ ~(r.kind = "requestSetMarkerLine" /\ r.buffer \notin gone)
  BY <1>4 DEF Reply
<1> QED
  BY <1>1, <1>2, <1>3, <1>4

LEMMA ServeHeld == ASSUME Held, Serve PROVE Held'
<1> DEFINE r == Head(toCore)
<1>1. UNCHANGED <<stored, gone>> /\ Grows
  BY SetsStay DEF Serve
<1>2. r \in GoodRequest /\ Tail(toCore) \in Seq(GoodRequest)
  BY SeqHead DEF Serve, Held, Wires
<1>3. toClient' = toClient \o Reply(r)
  BY DEF Serve
<1>4. toClient' \in Seq(GoodFrame')
  <2>1. toClient \in Seq(GoodFrame) /\ Reply(r) \in Seq(GoodFrame)
    BY <1>1, <1>2, ReplyGood DEF Held, Wires
  <2>2. toClient \o Reply(r) \in Seq(GoodFrame)
    BY <2>1, SeqConcat
  <2> QED
    BY <1>1, <1>3, <2>2, SetsStay
<1>5. toCore' \in Seq(GoodRequest')
  BY <1>1, <1>2, SetsStay DEF Serve
<1>6. /\ coreLine' \in [Buffer -> AnyId]
      /\ \A c \in Buffer : coreLine'[c] \in Own(c)
  <2>1. CASE r.kind = "requestSetMarkerLine" /\ r.buffer \notin gone
    <3>1. r.buffer \in Buffer /\ r.id \in AnyId /\ r.id \in Own(r.buffer)
      BY <1>2, <2>1 DEF GoodRequest
    <3>2. coreLine' = [coreLine EXCEPT ![r.buffer] = r.id]
      BY <2>1 DEF Serve
    <3> HIDE DEF r
    <3> QED
      BY <3>1, <3>2 DEF Held, Sorts, Kept
  <2>2. CASE ~(r.kind = "requestSetMarkerLine" /\ r.buffer \notin gone)
    BY <2>2 DEF Serve, Held, Sorts, Kept
  <2> QED
    BY <2>1, <2>2
<1>7. Sorts'
  BY <1>6 DEF Held, Sorts, Serve, CoreOnly, state, log
<1>8. \A c \in Buffer : stored'[c] \subseteq Own(c)' /\ coreLine'[c] \in Own(c)'
  BY <1>1, <1>6, SetsStay DEF Held, Kept
<1> QED
  BY <1>1, <1>4, <1>5, <1>7, <1>8, CoreStep DEF Serve

LEMMA DropHeld == ASSUME Held, Drop PROVE Held'
<1>1. UNCHANGED <<core, state, active, workers, log, nextId>>
  BY DEF Drop, bounds
<1>2. Grows /\ UNCHANGED <<stored, gone>>
  BY <1>1, SetsStay DEF core
<1>3. Ended \in GoodMessage /\ inbox' = Append(inbox, Ended)
  BY DEF Drop, Ended, GoodMessage
<1>4. inbox' \in Seq(GoodMessage)
  BY <1>3, SeqAppend DEF Held, Queues
<1>5. toCore' = <<>> /\ toClient' = <<>>
  BY DEF Drop
<1>6. Sorts'
  BY <1>1 DEF Held, Sorts, core, state, log
<1>7. Kept'
  BY <1>1, <1>2, SetsStay DEF Held, Kept, core, state
<1>8. Wires' /\ Queues'
  <2>1. workers' = workers /\ selected' = selected /\ rows' = rows /\ shown' = shown
    BY <1>1 DEF log
  <2>2. inbox' \in Seq(GoodMessage')
    BY <1>2, <1>4, SetsStay
  <2>3. \A S : <<>> \in Seq(S)
    OBVIOUS
  <2> QED
    BY <1>2, <1>5, <2>1, <2>2, <2>3, QueuesGrow DEF Wires, Queues
<1> QED
  BY <1>6, <1>7, <1>8 DEF Held

--------------------------------------------------------------------------------
(* The client.  Its steps leave the core's messages alone.                     *)

LEMMA QueuesStay ==
  ASSUME Held, UNCHANGED stored
  PROVE  /\ toCore \in Seq(GoodRequest') /\ workers \in Seq(GoodRequest')
         /\ toClient \in Seq(GoodFrame') /\ inbox \in Seq(GoodMessage')
         /\ shown' = shown => selected \in Seq(ShownId') /\ rows \subseteq ShownId'
  BY QueuesGrow, SetsStay

LEMMA UpdatedGood ==
  ASSUME NEW b \in Buffer \cup {NoBuffer} PROVE ActiveUpdated(b) \in GoodMessage
  BY DEF ActiveUpdated, GoodMessage

LEMMA PickTyped ==
  ASSUME NEW known \in SUBSET Buffer, NEW filled
  PROVE  Pick(known, filled) \subseteq Buffer \cup {NoBuffer}
  BY DEF Pick

LEMMA SessionOpensHeld == ASSUME Held, SessionOpens PROVE Held'
<1>1. UNCHANGED <<stored, gone, coreLine, toClient, workers, shown, rows, selected, nextId,
                  messages, markers>>
  BY DEF SessionOpens, core, log, bounds
<1>2. buffers' \subseteq Buffer
  BY DEF SessionOpens, Held, Sorts
<1>3. active' \in Buffer \cup {NoBuffer}
  <2>1. active' \in {active} \/ active' \in Pick(buffers', Filled)
    BY DEF SessionOpens
  <2> QED
    BY <1>2, <2>1, PickTyped DEF Held, Sorts
<1>4. inbox' \in Seq(GoodMessage')
  <2>1. Optional(active' # NoBuffer, ActiveUpdated(active')) \in Seq(GoodMessage)
    BY <1>3, UpdatedGood, SeqOptional
  <2>2. inbox' \in Seq(GoodMessage)
    BY <2>1, SeqConcat DEF SessionOpens, Post, Held, Queues
  <2> QED
    BY <1>1, <2>2, SetsStay
<1>5. toCore' \in Seq(GoodRequest')
  <2>1. InitRequest \in GoodRequest
    BY DEF InitRequest, Request, GoodRequest
  <2>2. toCore' \in Seq(GoodRequest)
    BY <2>1 DEF SessionOpens
  <2> QED
    BY <1>1, <2>2, SetsStay
<1>6. lines' \in [Buffer -> AnyId] /\ \A b \in Buffer : lines'[b] \in Own(b)
  BY DEF SessionOpens, Nothing, Own, Belongs, AnyId
<1>7. Sorts' /\ Kept'
  BY <1>1, <1>2, <1>3, <1>6, SetsStay DEF Held, Sorts, Kept
<1>8. Wires' /\ Queues'
  BY <1>1, <1>4, <1>5, QueuesStay DEF Wires, Queues
<1> QED
  BY <1>7, <1>8 DEF Held

\* Buffers that vanish from the client leave the others as they are.
LEMMA VanishHeld ==
  ASSUME Held, NEW removed \in SUBSET Buffer, Vanish(removed)
  PROVE  /\ messages' \in [Buffer -> SUBSET AnyId]
         /\ \A b \in Buffer : messages'[b] \subseteq Own(b)
         /\ active' \in Buffer \cup {NoBuffer} /\ buffers' \subseteq Buffer
         /\ inbox' \in Seq(GoodMessage)
<1>1. /\ messages' \in [Buffer -> SUBSET AnyId]
      /\ \A b \in Buffer : messages'[b] \subseteq Own(b)
  BY DEF Vanish, Without, Held, Sorts, Kept
<1>2. buffers' \subseteq Buffer
  BY DEF Vanish, Held, Sorts
<1>3. active' \in Buffer \cup {NoBuffer}
  <2>1. active' \in {active} \/ active' \in Pick(buffers', Filled)
    BY DEF Vanish
  <2> QED
    BY <1>2, <2>1, PickTyped DEF Held, Sorts
<1>4. inbox' \in Seq(GoodMessage)
  <2>1. Optional(active \in removed, ActiveUpdated(active')) \in Seq(GoodMessage)
    <3>1. ActiveUpdated(active') \in GoodMessage
      BY <1>3, UpdatedGood
    <3>2. <<ActiveUpdated(active')>> \in Seq(GoodMessage) /\ <<>> \in Seq(GoodMessage)
      BY <3>1
    <3> QED
      BY <3>2 DEF Optional
  <2> QED
    BY <2>1, SeqConcat DEF Vanish, Post, Held, Queues
<1> QED
  BY <1>1, <1>2, <1>3, <1>4

\* A frame keeps what belongs to each buffer, and posts at most a redraw.
LEMMA FrameHeld ==
  ASSUME Held, NEW f \in GoodFrame, Frame(f)
  PROVE  /\ messages' \in [Buffer -> SUBSET AnyId]
         /\ markers' \in [Buffer -> AnyId] /\ lines' \in [Buffer -> AnyId]
         /\ \A b \in Buffer : /\ messages'[b] \subseteq Own(b)
                              /\ markers'[b] \in Own(b) /\ lines'[b] \in Own(b)
         /\ active' \in Buffer \cup {NoBuffer} /\ buffers' \subseteq Buffer
         /\ inbox' \in Seq(GoodMessage)
<1>1. CASE f.kind = "InitData" /\ InitDataFrame(f)
  <2>1. f.lines \in [Buffer -> AnyId] /\ \A b \in Buffer : f.lines[b] \in Own(b)
    BY <1>1 DEF GoodFrame
  <2>2. lines' \in [Buffer -> AnyId] /\ \A b \in Buffer : lines'[b] \in Own(b)
    BY <1>1, <2>1 DEF InitDataFrame, Held, Sorts, Kept
  <2>3. markers' \in [Buffer -> AnyId] /\ \A b \in Buffer : markers'[b] \in Own(b)
    BY <1>1, <2>2 DEF InitDataFrame, Adopt, Held, Sorts, Kept
  <2> QED
    BY <1>1, <2>2, <2>3 DEF InitDataFrame, Held, Sorts, Kept, Queues
<1>2. CASE f.kind = "setMarkerLine" /\ SetMarkerLine(f)
  <2>1. f.buffer \in Buffer /\ f.id \in AnyId /\ f.id \in Own(f.buffer)
    BY <1>2 DEF GoodFrame
  <2> QED
    BY <1>2, <2>1 DEF SetMarkerLine, Held, Sorts, Kept, Queues
<1>3. CASE f.kind = "displayMsg" /\ DisplayMsg(f)
  <2>1. f.buffer \in Buffer /\ f.id \in AnyId /\ f.id \in Own(f.buffer)
    BY <1>3 DEF GoodFrame
  <2>2. messages' = [messages EXCEPT ![f.buffer] = messages[f.buffer] \cup {f.id}]
    BY <1>3 DEF DisplayMsg
  <2> QED
    BY <1>3, <2>1, <2>2 DEF DisplayMsg, Held, Sorts, Kept, Queues
<1>4. CASE f.kind = "receiveBacklog" /\ ReceiveBacklog(f)
  <2>1. f.buffer \in Buffer /\ f.ids \subseteq AnyId /\ f.ids \subseteq Own(f.buffer)
    BY <1>4 DEF GoodFrame
  <2>2. \/ messages' = messages
        \/ messages' = [messages EXCEPT ![f.buffer] = messages[f.buffer] \cup f.ids]
    BY <1>4 DEF ReceiveBacklog
  <2>3. /\ messages' \in [Buffer -> SUBSET AnyId]
        /\ \A b \in Buffer : messages'[b] \subseteq Own(b)
    BY <2>1, <2>2 DEF Held, Sorts, Kept
  <2>4. inbox' \in Seq(GoodMessage)
    <3> DEFINE due == f.buffer \in buffers /\ f.buffer = active
                        /\ f.ids \ messages[f.buffer] # {}
    <3>1. ActiveUpdated(f.buffer) \in GoodMessage
      BY <2>1, UpdatedGood
    <3>2. Optional(due, ActiveUpdated(f.buffer)) \in Seq(GoodMessage)
      BY <3>1, SeqOptional
    <3>3. inbox' = inbox \o Optional(due, ActiveUpdated(f.buffer))
      BY <1>4 DEF ReceiveBacklog, Post
    <3> QED
      BY <3>2, <3>3, SeqConcat DEF Held, Queues
  <2> QED
    BY <1>4, <2>3, <2>4 DEF ReceiveBacklog, Held, Sorts, Kept
<1>5. CASE f.kind = "removeBuffer" /\ RemoveBuffer(f)
  <2>1. f.buffer \in Buffer /\ Vanish({f.buffer})
    BY <1>5 DEF GoodFrame, RemoveBuffer
  <2>2. lines' \in [Buffer -> AnyId] /\ \A b \in Buffer : lines'[b] \in Own(b)
    <3>1. NoId \in AnyId /\ \A b : NoId \in Own(b)
      BY DEF AnyId, Own, Belongs
    <3> QED
      BY <1>5, <2>1, <3>1 DEF RemoveBuffer, Held, Sorts, Kept
  <2> QED
    BY <1>5, <2>1, <2>2, VanishHeld DEF RemoveBuffer, Held, Sorts, Kept
<1>6. CASE f.kind = "networkRemoved" /\ NetworkRemovedFrame(f)
  <2> DEFINE doomed == buffers \cap BuffersOf(f.network)
  <2>1. doomed \in SUBSET Buffer /\ Vanish(doomed)
    BY <1>6 DEF NetworkRemovedFrame, BuffersOf
  <2>2. markers' = Without(markers, doomed, NoId) /\ lines' = lines
    BY <1>6 DEF NetworkRemovedFrame
  <2> HIDE DEF doomed
  <2>3. markers' \in [Buffer -> AnyId] /\ \A b \in Buffer : markers'[b] \in Own(b)
    <3>1. NoId \in AnyId /\ \A b : NoId \in Own(b)
      BY DEF AnyId, Own, Belongs
    <3> QED
      BY <2>2, <3>1 DEF Without, Held, Sorts, Kept
  <2> QED
    BY <2>1, <2>2, <2>3, VanishHeld DEF Held, Sorts, Kept
<1> QED
  BY <1>1, <1>2, <1>3, <1>4, <1>5, <1>6 DEF Frame

LEMMA HandleFrameHeld == ASSUME Held, HandleFrame PROVE Held'
<1>1. Head(toClient) \in GoodFrame /\ Tail(toClient) \in Seq(GoodFrame)
  BY SeqHead DEF HandleFrame, Held, Wires
<1>2. UNCHANGED <<stored, gone, coreLine, toCore, workers, shown, rows, selected, nextId>>
  BY DEF HandleFrame, core, log, bounds
<1>3. Frame(Head(toClient))
  BY DEF HandleFrame
<1>4. Sorts' /\ Kept' /\ inbox' \in Seq(GoodMessage)
  BY <1>1, <1>2, <1>3, FrameHeld, SetsStay DEF Held, Sorts, Kept
<1>5. toClient' \in Seq(GoodFrame') /\ inbox' \in Seq(GoodMessage')
  BY <1>1, <1>2, <1>4, SetsStay DEF HandleFrame
<1>6. Wires' /\ Queues'
  BY <1>2, <1>5, QueuesStay DEF Wires, Queues
<1> QED
  BY <1>4, <1>6 DEF Held

\* A step of the client that changes no id anywhere but in its queues.
LEMMA QuietStep ==
  ASSUME Held, Sorts',
         UNCHANGED <<stored, gone, coreLine, messages, markers, lines, toClient>>,
         toCore' \in Seq(GoodRequest), workers' \in Seq(GoodRequest),
         inbox' \in Seq(GoodMessage), selected' \in Seq(ShownId'), rows' \subseteq ShownId'
  PROVE  Held'
<1>1. Kept'
  BY SetsStay DEF Held, Kept
<1>2. Wires' /\ Queues'
  BY SetsStay, QueuesStay DEF Wires, Queues
<1> QED
  BY <1>1, <1>2 DEF Held

LEMMA DebounceFiresHeld == ASSUME Held, DebounceFires PROVE Held'
<1>1. UNCHANGED <<core, wire, state, active, workers, log, nextId>>
  BY DEF DebounceFires, bounds
<1>2. inbox' \in Seq(GoodMessage)
  <2>1. <<ActiveUpdated(active)>> \in Seq(GoodMessage)
    BY UpdatedGood DEF Held, Sorts
  <2> QED
    BY <2>1, SeqConcat DEF DebounceFires, Post, Held, Queues
<1>3. Sorts'
  BY <1>1 DEF Held, Sorts, core, state, log
<1> QED
  BY <1>1, <1>2, <1>3, QueuesStay, QuietStep DEF core, wire, state, log, Held, Wires

\* What a worker is started with.
LEMMA StartHeld ==
  ASSUME Held, NEW requests \in Seq(GoodRequest), Start(requests)
  PROVE  workers' \in Seq(GoodRequest)
<1>1. workers \o requests \in Seq(GoodRequest)
  BY SeqConcat DEF Held, Wires
<1> QED
  BY <1>1 DEF Start, Held, Wires

\* Most of what the app leaves alone.
AppKeeps == UNCHANGED <<core, wire, link, buffers, messages, lines, latched, debounce,
                        selected, bounds>>

LEMMA OnActiveUpdatedHeld ==
  ASSUME Held, ~crossed', inbox # <<>>, Head(inbox) \in GoodMessage,
         Tail(inbox) \in Seq(GoodMessage), Head(inbox).kind = "ActiveBufferUpdated",
         OnActiveUpdated(Head(inbox)), AppKeeps
  PROVE  Held'
<1> DEFINE b == Head(inbox).buffer
<1>1. b \in Buffer \cup {NoBuffer}
  BY DEF GoodMessage
<1>2. shown' \in Buffer \cup {NoBuffer} /\ (b # NoBuffer => shown' = b)
  BY <1>1 DEF OnActiveUpdated, Held, Sorts
<1>3. Sorts'
  BY <1>2 DEF Held, Sorts, OnActiveUpdated, AppKeeps, core, bounds
<1>4. UNCHANGED <<stored, gone>>
  BY DEF AppKeeps, core
<1>5. selected' \in Seq(ShownId')
  <2>1. selected' = selected /\ (selected = <<>> \/ shown' = shown)
    BY DEF OnActiveUpdated, AppKeeps
  <2>2. \A S : <<>> \in Seq(S)
    OBVIOUS
  <2> QED
    BY <1>4, <2>1, <2>2, QueuesStay
<1>6. rows' \subseteq ShownId'
  <2>1. CASE b = NoBuffer
    BY <2>1 DEF OnActiveUpdated
  <2>2. CASE b # NoBuffer
    <3>1. b \in Buffer /\ shown' = b /\ rows' = messages[b]
      BY <1>1, <1>2, <2>2 DEF OnActiveUpdated
    <3>2. messages[b] \subseteq AnyId /\ messages[b] \subseteq Own(b)
      BY <3>1 DEF Held, Sorts, Kept
    <3> HIDE DEF b
    <3>3. \A i \in rows' : i \in AnyId /\ shown' \in Buffer /\ i \in Own(shown)'
      BY <1>4, <3>1, <3>2, SetsStay DEF Own, Belongs
    <3> QED
      BY <3>3 DEF ShownId
  <2> QED
    BY <2>1, <2>2
<1>7. workers' \in Seq(GoodRequest)
  <2>1. b # NoBuffer => Backlog(b) \in GoodRequest
    BY <1>1 DEF Backlog, Request, GoodRequest, AnyId
  <2>2. Optional(b # NoBuffer, Backlog(b)) \in Seq(GoodRequest)
    BY <2>1, SeqOptional
  <2> QED
    BY <2>2, StartHeld DEF OnActiveUpdated
<1> QED
  BY <1>3, <1>4, <1>5, <1>6, <1>7, QuietStep
     DEF OnActiveUpdated, AppKeeps, core, wire, Held, Wires

\* The log's own state stays under the other messages of the app.
LEMMA LogStays ==
  ASSUME Held, UNCHANGED <<stored, shown, rows, selected>>
  PROVE  selected' \in Seq(ShownId') /\ rows' \subseteq ShownId'
  BY QueuesStay

LEMMA OnSelectedHeld ==
  ASSUME Held, Head(inbox) \in GoodMessage, Tail(inbox) \in Seq(GoodMessage),
         Head(inbox).kind = "BufferSelected", OnSelected(Head(inbox)), AppKeeps
  PROVE  Held'
<1> DEFINE m == Head(inbox)
<1>1. m.buffer \in Buffer \cup {NoBuffer}
  BY DEF GoodMessage
<1>2. UNCHANGED <<stored, gone, coreLine, messages, markers, lines, toCore, toClient, shown,
                  rows, selected, buffers, nextId>>
  BY DEF OnSelected, AppKeeps, core, wire, bounds
<1>3. Sorts'
  BY <1>1, <1>2 DEF Held, Sorts, OnSelected
<1>4. inbox' \in Seq(GoodMessage)
  <2>1. Optional(m.buffer # active, ActiveUpdated(m.buffer)) \in Seq(GoodMessage)
    BY <1>1, UpdatedGood, SeqOptional
  <2>2. inbox' = Tail(inbox) \o Optional(m.buffer # active, ActiveUpdated(m.buffer))
    BY DEF OnSelected
  <2> QED
    BY <2>1, <2>2, SeqConcat
<1>5. workers' \in Seq(GoodRequest)
  <2>1. CASE m.buffer # active /\ active # NoBuffer /\ messages[active] # {}
    <3>1. active \in Buffer /\ messages[active] \subseteq AnyId
      BY <2>1 DEF Held, Sorts
    <3>2. LastSeen(active) \in AnyId
      BY <2>1, <3>1, NewestIsOne DEF LastSeen
    <3>3. Seen(active, LastSeen(active)) \in GoodRequest
      BY <3>1, <3>2 DEF Seen, Request, GoodRequest
    <3>4. <<Seen(active, LastSeen(active))>> \in Seq(GoodRequest)
      BY <3>3
    <3> QED
      BY <2>1, <3>4, StartHeld DEF OnSelected
  <2>2. CASE ~(m.buffer # active /\ active # NoBuffer /\ messages[active] # {})
    BY <2>2 DEF OnSelected, Held, Wires
  <2> QED
    BY <2>1, <2>2
<1> QED
  BY <1>2, <1>3, <1>4, <1>5, LogStays, QuietStep DEF Held, Wires

\* A marker that is set to an id of its buffer, and the request that says so.
LEMMA MarkHeld ==
  ASSUME Held, NEW b \in Buffer, NEW id \in AnyId, id \in Own(b), Mark(b, id),
         UNCHANGED <<stored, gone, coreLine, messages, lines, toCore, toClient, shown, rows,
                     selected, buffers, nextId, active>>,
         inbox' \in Seq(GoodMessage)
  PROVE  Held'
<1>1. markers' = [markers EXCEPT ![b] = id]
  BY DEF Mark
<1>2. Sorts'
  BY <1>1 DEF Held, Sorts
<1>3. Kept'
  BY <1>1, SetsStay DEF Held, Sorts, Kept
<1>4. workers' \in Seq(GoodRequest)
  <2>1. Line(b, id) \in GoodRequest
    BY DEF Line, Request, GoodRequest
  <2>2. MarkerRequest(b, id) \in Seq(GoodRequest)
    BY <2>1 DEF MarkerRequest
  <2> QED
    BY <2>2, StartHeld DEF Mark
<1>5. Wires' /\ Queues'
  BY <1>4, SetsStay, QueuesStay, LogStays DEF Wires, Queues
<1> QED
  BY <1>2, <1>3, <1>5 DEF Held

LEMMA OnPlacedHeld ==
  ASSUME Held, Head(inbox) \in GoodMessage, Tail(inbox) \in Seq(GoodMessage),
         Head(inbox).kind = "ReadMarkerPlaced", OnPlaced(Head(inbox)), AppKeeps
  PROVE  Held'
<1> DEFINE m == Head(inbox)
<1>1. m.buffer \in Buffer /\ m.id \in AnyId /\ m.id \in Own(m.buffer)
  BY DEF GoodMessage
<1>2. UNCHANGED <<stored, gone, coreLine, messages, lines, toCore, toClient, shown, rows,
                  selected, buffers, nextId, active>>
  BY DEF OnPlaced, AppKeeps, core, wire, bounds
<1>3. Mark(m.buffer, m.id)
  BY DEF OnPlaced, Target
<1>4. inbox' \in Seq(GoodMessage)
  <2>1. Optional(m.buffer = active, ActiveUpdated(m.buffer)) \in Seq(GoodMessage)
    BY <1>1, UpdatedGood, SeqOptional
  <2>2. inbox' = Tail(inbox) \o Optional(m.buffer = active, ActiveUpdated(m.buffer))
    BY DEF OnPlaced
  <2> QED
    BY <2>1, <2>2, SeqConcat
<1> QED
  BY <1>1, <1>2, <1>3, <1>4, MarkHeld

LEMMA OnToLatestHeld ==
  ASSUME Held, Tail(inbox) \in Seq(GoodMessage), OnToLatest, AppKeeps
  PROVE  Held'
<1>1. UNCHANGED <<stored, gone, coreLine, messages, lines, toCore, toClient, shown, rows,
                  selected, buffers, nextId, active>>
  BY DEF OnToLatest, AppKeeps, core, wire, bounds
<1>2. CASE active # NoBuffer /\ messages[active] # {}
  <2>1. active \in Buffer /\ messages[active] \subseteq AnyId
    BY <1>2 DEF Held, Sorts
  <2>2. Newest(messages[active]) \in messages[active]
    BY <1>2, <2>1, NewestIsOne
  <2>3. Newest(messages[active]) \in AnyId /\ Newest(messages[active]) \in Own(active)
    BY <2>1, <2>2 DEF Held, Kept
  <2>4. ActiveUpdated(active) \in GoodMessage
    BY <2>1, UpdatedGood
  <2>5. inbox' \in Seq(GoodMessage) /\ Mark(active, Newest(messages[active]))
    BY <1>2, <2>4, SeqAppend DEF OnToLatest
  <2> QED
    BY <1>1, <2>1, <2>3, <2>5, MarkHeld
<1>3. CASE ~(active # NoBuffer /\ messages[active] # {})
  <2>1. inbox' \in Seq(GoodMessage) /\ UNCHANGED <<markers, workers>>
    BY <1>3 DEF OnToLatest
  <2>2. Sorts'
    BY <1>1, <2>1 DEF Held, Sorts
  <2> QED
    BY <1>1, <2>1, <2>2, LogStays, QuietStep DEF Held, Wires
<1> QED
  BY <1>2, <1>3

LEMMA OnEndedHeld ==
  ASSUME Held, Tail(inbox) \in Seq(GoodMessage), OnEnded, AppKeeps
  PROVE  Held'
<1>1. UNCHANGED <<stored, gone, coreLine, messages, markers, lines, toCore, toClient, shown,
                  rows, selected, buffers, nextId, active, workers>>
  BY DEF OnEnded, AppKeeps, core, wire, bounds
<1>2. Sorts' /\ inbox' \in Seq(GoodMessage)
  BY <1>1 DEF Held, Sorts, OnEnded
<1> QED
  BY <1>1, <1>2, LogStays, QuietStep DEF Held, Wires

LEMMA AppHandlesHeld == ASSUME Held, ~crossed', AppHandles PROVE Held'
<1>1. Head(inbox) \in GoodMessage /\ Tail(inbox) \in Seq(GoodMessage) /\ inbox # <<>>
  BY SeqHead DEF AppHandles, Held, Queues
<1>2. AppKeeps
  BY DEF AppHandles, AppKeeps
<1> QED
  BY <1>1, <1>2, OnActiveUpdatedHeld, OnSelectedHeld, OnPlacedHeld, OnToLatestHeld,
     OnEndedHeld DEF AppHandles

LEMMA LogHandlesHeld == ASSUME Held, LogHandles PROVE Held'
<1>1. UNCHANGED <<core, wire, state, active, workers, shown, rows, nextId>>
  BY DEF LogHandles, bounds
<1>2. Head(selected) \in ShownId /\ Tail(selected) \in Seq(ShownId)
  BY SeqHead DEF LogHandles, Held, Queues
<1>3. inbox' \in Seq(GoodMessage)
  <2>1. Placed(shown, Head(selected)) \in GoodMessage
    BY <1>2 DEF ShownId, Placed, GoodMessage
  <2>2. Optional(shown # NoBuffer, Placed(shown, Head(selected))) \in Seq(GoodMessage)
    BY <2>1, SeqOptional
  <2> QED
    BY <2>2, SeqConcat DEF LogHandles, Post, Held, Queues
<1>4. Sorts'
  BY <1>1 DEF Held, Sorts, core, state
<1>5. selected' \in Seq(ShownId') /\ rows' \subseteq ShownId'
  BY <1>1, <1>2, SetsStay, QueuesStay DEF LogHandles, core
<1> QED
  BY <1>1, <1>3, <1>4, <1>5, QuietStep DEF core, wire, state, Held, Wires

LEMMA WorkerRunsHeld == ASSUME Held, WorkerRuns PROVE Held'
<1>1. UNCHANGED <<core, toClient, buffers, messages, markers, lines, active, inbox, log,
                  nextId>>
  BY DEF WorkerRuns, bounds
<1>2. Head(workers) \in GoodRequest /\ workers' \in Seq(GoodRequest)
  BY SeqHead DEF WorkerRuns, Held, Wires
<1>3. toCore' \in Seq(GoodRequest)
  <2>1. Append(toCore, Head(workers)) \in Seq(GoodRequest)
    BY <1>2, SeqAppend DEF Held, Wires
  <2> QED
    BY <2>1 DEF WorkerRuns, Held, Wires
<1>4. Sorts'
  BY <1>1 DEF Held, Sorts, core, log
<1> QED
  BY <1>1, <1>2, <1>3, <1>4, LogStays, QuietStep DEF core, log, Held, Queues

--------------------------------------------------------------------------------
(* The user.                                                                   *)

\* A step of the user's that changes only queues of the client.
LEMMA UserStep ==
  ASSUME Held, UNCHANGED <<core, wire, state, active, shown, rows, nextId>>,
         workers' \in Seq(GoodRequest), inbox' \in Seq(GoodMessage),
         selected' \in Seq(ShownId)
  PROVE  Held'
<1>1. Sorts'
  BY DEF Held, Sorts, core, state
<1>2. selected' \in Seq(ShownId') /\ rows' \subseteq ShownId'
  BY SetsStay, QueuesStay DEF core
<1> QED
  BY <1>1, <1>2, QuietStep DEF core, wire, state, Held, Wires

LEMMA PressesHeld ==
  ASSUME Held, NEW message \in GoodMessage, Presses(message) PROVE Held'
<1>1. inbox' \in Seq(GoodMessage)
  BY SeqAppend DEF Presses, Held, Queues
<1>2. UNCHANGED <<core, wire, state, active, shown, rows, nextId, workers, selected>>
  BY DEF Presses, Act
<1> QED
  BY <1>1, <1>2, UserStep DEF Held, Wires, Queues

LEMMA UserHeld ==
  ASSUME Held,
         \/ \E b \in Buffer : UserSelects(b)
         \/ \E id \in Id : UserSelectsRow(id)
         \/ UserMarksLatest \/ UserScrolls \/ UserReconnects
  PROVE  Held'
<1>1. ASSUME NEW b \in Buffer, UserSelects(b) PROVE Held'
  <2>1. Selected(b) \in GoodMessage
    BY DEF Selected, GoodMessage
  <2> QED
    BY <1>1, <2>1, PressesHeld DEF UserSelects
<1>2. CASE UserMarksLatest
  <2>1. ToLatest \in GoodMessage
    BY DEF ToLatest, GoodMessage
  <2> QED
    BY <1>2, <2>1, PressesHeld DEF UserMarksLatest
<1>3. ASSUME NEW id \in Id, UserSelectsRow(id) PROVE Held'
  <2>1. id \in ShownId
    BY <1>3 DEF UserSelectsRow, Held, Queues
  <2>2. selected' \in Seq(ShownId)
    BY <1>3, <2>1, SeqAppend DEF UserSelectsRow, Held, Queues
  <2>3. UNCHANGED <<core, wire, state, active, shown, rows, nextId, workers, inbox>>
    BY <1>3 DEF UserSelectsRow, Act
  <2> QED
    BY <2>2, <2>3, UserStep DEF Held, Wires, Queues
<1>4. CASE UserReconnects
  <2>1. UNCHANGED <<core, wire, state, active, log, nextId, inbox>> /\ workers' = <<>>
    BY <1>4 DEF UserReconnects
  <2> QED
    BY <2>1, UserStep DEF log, Held, Queues
<1>5. CASE UserScrolls
  <2>1. UNCHANGED <<core, wire, state, active, shown, rows, nextId, workers, inbox, selected>>
    BY <1>5 DEF UserScrolls, Act
  <2> QED
    BY <2>1, UserStep DEF Held, Wires, Queues
<1> QED
  BY <1>1, <1>2, <1>3, <1>4, <1>5

--------------------------------------------------------------------------------

\* The log can only be crossed once.
LEMMA CrossedStays == ASSUME Next, crossed PROVE crossed'
  BY Zenon DEF Next, Store, OtherRemoves, OtherMovesLine, Serve, Drop, CoreOnly, SessionOpens,
     HandleFrame, DebounceFires, AppHandles, OnActiveUpdated, OnSelected, OnPlaced,
     OnToLatest, OnEnded, LogHandles, WorkerRuns, UserSelects, UserMarksLatest, Presses,
     UserSelectsRow, UserScrolls, UserReconnects, OtherRemovesNetwork, Forget, history

LEMMA NextHeld == ASSUME Held, Next, ~crossed' PROVE Held'
  BY StoreHeld, OtherRemovesHeld, OtherRemovesNetworkHeld, OtherMovesLineHeld, ServeHeld, DropHeld, SessionOpensHeld,
     HandleFrameHeld, DebounceFiresHeld, AppHandlesHeld, LogHandlesHeld, WorkerRunsHeld,
     UserHeld DEF Next

\* For any buffers, any number of messages, acts, reconnects and moves of other
\* clients: a marker, here and at the core, names a message of its own buffer, or the
\* log was switched under an Enter that waited for it.
THEOREM MarkersDoBelong == Spec => []MarkersBelong
<1> DEFINE Inv == crossed \/ Held
<1>1. Init => Inv
  BY InitHeld
<1>2. Inv /\ [Next]_vars => Inv'
  <2> SUFFICES ASSUME Inv, [Next]_vars PROVE Inv'
    OBVIOUS
  <2>1. CASE Next
    BY <2>1, CrossedStays, NextHeld
  <2>2. CASE UNCHANGED vars
    <3>1. UNCHANGED <<core, wire, state, active, workers, shown, rows, selected, inbox,
                      nextId, crossed>>
      BY <2>2 DEF vars, log, bounds, history
    <3>2. Held => Held'
      BY <3>1, UserStep DEF Held, Wires, Queues
    <3> QED
      BY <3>1, <3>2
  <2> QED
    BY <2>1, <2>2
<1>3. Inv => MarkersBelong
  BY HeldBelongs DEF MarkersBelong
<1> QED
  BY <1>1, <1>2, <1>3, PTL DEF Spec

--------------------------------------------------------------------------------
(* Who may change a marker.                                                    *)

\* The markers of a buffer go with its network.
TakenAway(b) ==
  /\ markers'[b] = NoId /\ toClient # <<>>
  /\ Head(toClient).kind = "networkRemoved"
  /\ Head(toClient).network = NetworkOf[b]

\* A frame adopts a line only where there is no marker, and only a network's removal
\* takes one away.
LEMMA FrameKeepsMarkers ==
  ASSUME HandleFrame, NEW b \in Buffer, markers[b] # NoId, markers'[b] # markers[b]
  PROVE  TakenAway(b)
<1> DEFINE f == Head(toClient)
<1>1. CASE InitDataFrame(f)
  BY <1>1 DEF InitDataFrame, Adopt
<1>2. CASE f.kind = "networkRemoved" /\ NetworkRemovedFrame(f)
  <2>1. markers' = Without(markers, buffers \cap BuffersOf(f.network), NoId)
    BY <1>2 DEF NetworkRemovedFrame
  <2>2. b \in BuffersOf(f.network) /\ markers'[b] = NoId
    BY <2>1 DEF Without
  <2> QED
    BY <1>2, <2>2 DEF TakenAway, BuffersOf, HandleFrame
<1>3. CASE markers' = markers
  BY <1>3
<1> QED
  BY <1>1, <1>2, <1>3
     DEF HandleFrame, Frame, SetMarkerLine, DisplayMsg, ReceiveBacklog, RemoveBuffer

\* No late InitData, no new session, no line of another client and no removal of a
\* buffer replaces or takes a marker that is set: the app does, when it handles a
\* placement of the user, and the removal of the buffer's network does.
THEOREM MarkersStayTheUsers == Spec => MarkersAreTheUsers
<1> DEFINE Placing == inbox # <<>> /\ Head(inbox).kind \in {"ReadMarkerPlaced",
                                                           "MarkerToLatestRequested"}
<1>1. ASSUME [Next]_vars, NEW b \in Buffer, markers[b] # NoId, markers'[b] # markers[b]
      PROVE  Placing \/ TakenAway(b)
  <2>1. CASE HandleFrame
    BY <1>1, <2>1, FrameKeepsMarkers
  <2>2. CASE AppHandles
    BY <1>1, <2>2 DEF AppHandles, OnActiveUpdated, OnSelected, OnEnded
  <2>3. CASE markers' = markers
    BY <1>1, <2>3
  <2>4. Next => HandleFrame \/ AppHandles \/ markers' = markers
    BY Zenon DEF Next, Store, OtherRemoves, OtherRemovesNetwork, Forget, OtherMovesLine,
       Serve, Drop, CoreOnly, state, SessionOpens, DebounceFires, LogHandles, WorkerRuns,
       UserSelects, UserMarksLatest, Presses, Act, UserSelectsRow, UserScrolls,
       UserReconnects
  <2>5. UNCHANGED vars => markers' = markers
    BY DEF vars, state
  <2> QED
    BY <1>1, <2>1, <2>2, <2>3, <2>4, <2>5
<1>2. [Next]_vars =>
        [\A b \in Buffer :
           markers[b] # NoId /\ markers'[b] # markers[b] =>
             \/ Placing
             \/ /\ markers'[b] = NoId /\ toClient # <<>>
                /\ Head(toClient).kind = "networkRemoved"
                /\ Head(toClient).network = NetworkOf[b]]_vars
  BY <1>1 DEF TakenAway
<1> QED
  BY <1>2, PTL DEF Spec, MarkersAreTheUsers

--------------------------------------------------------------------------------
(* Types.                                                                      *)

AnyRequest ==
  [kind : {"requestSetMarkerLine", "requestSetLastSeenMsg"}, buffer : Buffer, id : AnyId]
    \cup [kind : {"requestBacklog"}, buffer : Buffer, id : {NoId}]
    \cup [kind : {"InitRequest"}, buffer : {NoBuffer}, id : {NoId}]

AnyFrame ==
  [kind : {"displayMsg"}, buffer : Buffer, id : Id]
    \cup [kind : {"setMarkerLine"}, buffer : Buffer, id : AnyId]
    \cup [kind : {"receiveBacklog"}, buffer : Buffer, ids : SUBSET Id]
    \cup [kind : {"InitData"}, lines : [Buffer -> AnyId]]
    \cup [kind : {"removeBuffer"}, buffer : Buffer]
    \cup [kind : {"networkRemoved"}, network : Network]

AnyMessage ==
  [kind : {"ReadMarkerPlaced"}, buffer : Buffer, id : Id]
    \cup [kind : {"ActiveBufferUpdated"}, buffer : Buffer \cup {NoBuffer}]
    \cup [kind : {"BufferSelected"}, buffer : Buffer]
    \cup [kind : {"MarkerToLatestRequested", "SessionEnded"}]

CoreTyped ==
  /\ stored \in [Buffer -> SUBSET Id] /\ coreLine \in [Buffer -> AnyId]
  /\ gone \subseteq Buffer /\ networks \subseteq Network /\ nextId \in 1 .. MaxId + 1

StateTyped ==
  /\ messages \in [Buffer -> SUBSET Id]
  /\ markers \in [Buffer -> AnyId] /\ lines \in [Buffer -> AnyId]
  /\ buffers \subseteq Buffer /\ latched \subseteq Buffer

AppTyped ==
  /\ active \in Buffer \cup {NoBuffer} /\ shown \in Buffer \cup {NoBuffer}
  /\ own \subseteq Buffer /\ rows \subseteq Id /\ drawn \subseteq Id
  /\ link \in {"starting", "open", "down"}

QueuesTyped ==
  /\ toCore \in Seq(AnyRequest) /\ workers \in Seq(AnyRequest)
  /\ toClient \in Seq(AnyFrame) /\ inbox \in Seq(AnyMessage) /\ selected \in Seq(Id)

FlagsTyped ==
  /\ lost \in BOOLEAN /\ debounce \in BOOLEAN /\ up \in BOOLEAN
  /\ crossed \in BOOLEAN /\ blind \in BOOLEAN

WellTyped == CoreTyped /\ StateTyped /\ AppTyped /\ QueuesTyped

LEMMA WellTypedIsTypeOK == WellTyped /\ FlagsTyped => TypeOK
<1> SUFFICES ASSUME WellTyped, FlagsTyped PROVE TypeOK
  OBVIOUS
<1>1. {lost, debounce, up, crossed, blind} \subseteq BOOLEAN
  BY Zenon DEF FlagsTyped
<1>2. \A i \in 1 .. Len(selected) : selected[i] \in Id
  BY DEF WellTyped, QueuesTyped
<1> QED
  BY <1>1, <1>2 DEF WellTyped, CoreTyped, StateTyped, AppTyped, TypeOK

LEMMA InitWellTyped == Init => WellTyped
<1> SUFFICES ASSUME Init PROVE WellTyped
  OBVIOUS
<1>1. \A S : <<>> \in Seq(S)
  OBVIOUS
<1>2. NoId \in AnyId /\ 1 \in 1 .. MaxId + 1
  BY DEF AnyId, NoId
<1> QED
  BY <1>1, <1>2 DEF Init, Nothing, WellTyped, CoreTyped, StateTyped, AppTyped, QueuesTyped

LEMMA FlagsStay == FlagsTyped /\ [Next]_vars => FlagsTyped'
  BY Zenon DEF FlagsTyped, Next, Store, OtherRemoves, OtherMovesLine, Serve, Drop, CoreOnly,
     SessionOpens, HandleFrame, Frame, InitDataFrame, SetMarkerLine, DisplayMsg, Schedule,
     ReceiveBacklog, RemoveBuffer, NetworkRemovedFrame, Vanish, DebounceFires, AppHandles,
     OnActiveUpdated, OnSelected, OnPlaced, OnToLatest, OnEnded, LogHandles, WorkerRuns,
     UserSelects, UserMarksLatest, Presses, Act, UserSelectsRow, UserScrolls, UserReconnects,
     OtherRemovesNetwork, Forget, log, history, vars

\* A reply removes no network.
KeepingFrame == {f \in AnyFrame : f.kind # "networkRemoved"}

LEMMA ReplyTyped ==
  ASSUME WellTyped, NEW r \in AnyRequest PROVE Reply(r) \in Seq(KeepingFrame)
<1> DEFINE ids == IF r.buffer \in gone THEN {} ELSE stored[r.buffer]
<1>1. [kind |-> "InitData", lines |-> coreLine] \in KeepingFrame
  BY DEF KeepingFrame, AnyFrame, WellTyped, CoreTyped
<1>2. r.kind = "requestBacklog" =>
        [kind |-> "receiveBacklog", buffer |-> r.buffer, ids |-> ids] \in KeepingFrame
  BY DEF AnyRequest, KeepingFrame, AnyFrame, WellTyped, CoreTyped
<1>3. r.kind = "requestSetMarkerLine" =>
        [kind |-> "setMarkerLine", buffer |-> r.buffer, id |-> r.id] \in KeepingFrame
  BY DEF AnyRequest, KeepingFrame, AnyFrame
<1>4. /\ \A e \in KeepingFrame : <<e>> \in Seq(KeepingFrame)
      /\ <<>> \in Seq(KeepingFrame)
  OBVIOUS
<1> QED
  BY <1>1, <1>2, <1>3, <1>4 DEF Reply

\* The core and the frames it sends.
LEMMA CoreStaysTyped ==
  ASSUME WellTyped,
         \/ \E b \in Buffer : Store(b) \/ OtherRemoves(b)
         \/ \E b \in Buffer, id \in Id : OtherMovesLine(b, id)
         \/ \E n \in Network : OtherRemovesNetwork(n)
         \/ Serve
  PROVE  WellTyped'
<1> USE DEF WellTyped
<1>1. UNCHANGED <<link, messages, markers, lines, buffers, latched, active, shown, rows, drawn,
                  inbox, workers, selected>>
  BY Zenon DEF Store, OtherRemoves, OtherRemovesNetwork, Forget, OtherMovesLine, Serve,
     CoreOnly, state, log
<1>2. own' \subseteq own
  BY DEF Store, OtherRemoves, OtherRemovesNetwork, Forget, OtherMovesLine, Serve
<1>3. StateTyped' /\ AppTyped'
  BY <1>1, <1>2 DEF StateTyped, AppTyped
<1>4. ASSUME NEW frame \in AnyFrame, Broadcast(frame) PROVE toClient' \in Seq(AnyFrame)
  BY <1>4, SeqAppend DEF Broadcast, QueuesTyped
<1>5. ASSUME NEW b \in Buffer, Store(b) PROVE WellTyped'
  <2>1. nextId \in Id /\ nextId' \in 1 .. MaxId + 1
    BY <1>5 DEF Store, CoreTyped, Id
  <2>2. [kind |-> "displayMsg", buffer |-> b, id |-> nextId] \in AnyFrame
    BY <2>1 DEF AnyFrame
  <2>3. toClient' \in Seq(AnyFrame) /\ toCore' = toCore
    BY <1>4, <1>5, <2>2 DEF Store
  <2>4. CoreTyped'
    BY <1>5, <2>1 DEF Store, CoreTyped
  <2> QED
    BY <1>1, <1>3, <2>3, <2>4 DEF QueuesTyped
<1>6. ASSUME NEW removed \in SUBSET Buffer, Forget(removed), networks' \subseteq Network,
             NEW frame \in AnyFrame, Broadcast(frame)
      PROVE  WellTyped'
  <2>1. toClient' \in Seq(AnyFrame) /\ toCore' = toCore
    BY <1>4, <1>6 DEF Forget
  <2>2. CoreTyped'
    BY <1>6 DEF Forget, CoreTyped, AnyId
  <2> QED
    BY <1>1, <1>3, <2>1, <2>2 DEF QueuesTyped
<1>9. ASSUME NEW b \in Buffer, OtherRemoves(b) PROVE WellTyped'
  <2>1. [kind |-> "removeBuffer", buffer |-> b] \in AnyFrame
    BY DEF AnyFrame
  <2> QED
    BY <1>6, <1>9, <2>1 DEF OtherRemoves, CoreTyped
<1>10. ASSUME NEW n \in Network, OtherRemovesNetwork(n) PROVE WellTyped'
  <2>1. [kind |-> "networkRemoved", network |-> n] \in AnyFrame
    BY DEF AnyFrame
  <2>2. BuffersOf(n) \in SUBSET Buffer
    BY DEF BuffersOf
  <2> QED
    BY <1>6, <1>10, <2>1, <2>2 DEF OtherRemovesNetwork, CoreTyped
<1>7. ASSUME NEW b \in Buffer, NEW id \in Id, OtherMovesLine(b, id) PROVE WellTyped'
  <2>1. [kind |-> "setMarkerLine", buffer |-> b, id |-> id] \in AnyFrame
    BY DEF AnyFrame, AnyId
  <2>2. toClient' \in Seq(AnyFrame) /\ toCore' = toCore
    BY <1>4, <1>7, <2>1 DEF OtherMovesLine
  <2>3. CoreTyped'
    BY <1>7 DEF OtherMovesLine, CoreTyped, AnyId
  <2> QED
    BY <1>1, <1>3, <2>2, <2>3 DEF QueuesTyped
<1>8. CASE Serve
  <2> DEFINE r == Head(toCore)
  <2>1. r \in AnyRequest /\ toCore' \in Seq(AnyRequest)
    BY <1>8, SeqHead DEF Serve, QueuesTyped
  <2>2. r.kind = "requestSetMarkerLine" => r.buffer \in Buffer /\ r.id \in AnyId
    BY <2>1 DEF AnyRequest
  <2>3. toClient' = toClient \o Reply(r)
    BY <1>8 DEF Serve
  <2>4. \/ coreLine' = coreLine
        \/ r.kind = "requestSetMarkerLine" /\ coreLine' = [coreLine EXCEPT ![r.buffer] = r.id]
    BY <1>8 DEF Serve
  <2> HIDE DEF r
  <2>5. Reply(r) \in Seq(AnyFrame)
    <3>1. Reply(r) \in Seq(KeepingFrame) /\ KeepingFrame \subseteq AnyFrame
      BY <2>1, ReplyTyped DEF KeepingFrame
    <3> QED
      BY <3>1, SeqGrows
  <2>6. toClient' \in Seq(AnyFrame)
    BY <2>3, <2>5, SeqConcat DEF QueuesTyped
  <2>7. CoreTyped'
    BY <1>8, <2>2, <2>4 DEF Serve, CoreTyped
  <2> QED
    BY <1>1, <1>3, <2>1, <2>6, <2>7 DEF QueuesTyped
<1> QED
  BY <1>5, <1>7, <1>8, <1>9, <1>10

LEMMA PostedTyped ==
  ASSUME NEW b \in Buffer \cup {NoBuffer}, NEW condition \in BOOLEAN
  PROVE  /\ ActiveUpdated(b) \in AnyMessage
         /\ Optional(condition, ActiveUpdated(b)) \in Seq(AnyMessage)
<1>1. ActiveUpdated(b) \in AnyMessage
  BY DEF ActiveUpdated, AnyMessage
<1> QED
  BY <1>1, SeqOptional

\* A frame leaves the client's state well typed.
LEMMA FrameTyped ==
  ASSUME WellTyped, NEW f \in AnyFrame, Frame(f)
  PROVE  StateTyped' /\ active' \in Buffer \cup {NoBuffer} /\ inbox' \in Seq(AnyMessage)
<1> USE DEF WellTyped, StateTyped, AppTyped, QueuesTyped
<1>1. CASE f.kind = "InitData" /\ InitDataFrame(f)
  <2>1. f.lines \in [Buffer -> AnyId]
    BY <1>1 DEF AnyFrame
  <2> QED
    BY <1>1, <2>1 DEF InitDataFrame, Adopt
<1>2. CASE f.kind = "setMarkerLine" /\ SetMarkerLine(f)
  <2>1. f.buffer \in Buffer /\ f.id \in AnyId
    BY <1>2 DEF AnyFrame
  <2> QED
    BY <1>2, <2>1 DEF SetMarkerLine
<1>3. CASE f.kind = "displayMsg" /\ DisplayMsg(f)
  <2>1. f.buffer \in Buffer /\ f.id \in Id
    BY <1>3 DEF AnyFrame
  <2> QED
    BY <1>3, <2>1 DEF DisplayMsg
<1>4. CASE f.kind = "receiveBacklog" /\ ReceiveBacklog(f)
  <2>1. f.buffer \in Buffer /\ f.ids \subseteq Id
    BY <1>4 DEF AnyFrame
  <2>2. inbox' \in Seq(AnyMessage)
    BY <1>4, <2>1, PostedTyped, SeqConcat DEF ReceiveBacklog, Post
  <2> QED
    BY <1>4, <2>1, <2>2 DEF ReceiveBacklog
<1>5. ASSUME NEW removed \in SUBSET Buffer, Vanish(removed)
      PROVE  /\ messages' \in [Buffer -> SUBSET Id] /\ buffers' \subseteq Buffer
             /\ active' \in Buffer \cup {NoBuffer} /\ inbox' \in Seq(AnyMessage)
  <2>1. messages' \in [Buffer -> SUBSET Id] /\ buffers' \subseteq Buffer
    BY <1>5 DEF Vanish, Without
  <2>2. active' \in Buffer \cup {NoBuffer}
    <3>1. active' \in {active} \/ active' \in Pick(buffers', Filled)
      BY <1>5 DEF Vanish
    <3> QED
      BY <2>1, <3>1, PickTyped
  <2>3. inbox' \in Seq(AnyMessage)
    <3>1. Optional(active \in removed, ActiveUpdated(active')) \in Seq(AnyMessage)
      <4>1. ActiveUpdated(active') \in AnyMessage
        BY <2>2 DEF ActiveUpdated, AnyMessage
      <4>2. <<ActiveUpdated(active')>> \in Seq(AnyMessage) /\ <<>> \in Seq(AnyMessage)
        BY <4>1
      <4> QED
        BY <4>2 DEF Optional
    <3>2. inbox' = inbox \o Optional(active \in removed, ActiveUpdated(active'))
      BY <1>5 DEF Vanish, Post
    <3> QED
      BY <3>1, <3>2, SeqConcat
  <2> QED
    BY <2>1, <2>2, <2>3
<1>6. CASE f.kind = "removeBuffer" /\ RemoveBuffer(f)
  <2>1. f.buffer \in Buffer /\ NoId \in AnyId /\ Vanish({f.buffer})
    BY <1>6 DEF AnyFrame, AnyId, RemoveBuffer
  <2> QED
    BY <1>5, <1>6, <2>1 DEF RemoveBuffer
<1>7. CASE f.kind = "networkRemoved" /\ NetworkRemovedFrame(f)
  <2> DEFINE doomed == buffers \cap BuffersOf(f.network)
  <2>1. doomed \in SUBSET Buffer /\ Vanish(doomed)
    BY <1>7 DEF NetworkRemovedFrame, BuffersOf
  <2>2. markers' = Without(markers, doomed, NoId) /\ lines' = lines /\ latched' \subseteq latched
    BY <1>7 DEF NetworkRemovedFrame
  <2> HIDE DEF doomed
  <2>3. markers' \in [Buffer -> AnyId]
    BY <2>2 DEF Without, AnyId
  <2> QED
    BY <1>5, <2>1, <2>2, <2>3
<1> QED
  BY <1>1, <1>2, <1>3, <1>4, <1>6, <1>7 DEF Frame

\* The newest row is an id.
LEMMA TailTyped == ASSUME NEW ids \in SUBSET Id PROVE AtTail(ids) \subseteq ids
<1>1. ids \subseteq AnyId
  BY DEF AnyId
<1> QED
  BY <1>1, NewestIsOne DEF AtTail

\* The link, the frames and the redraws.
LEMMA LinkStaysTyped ==
  ASSUME WellTyped, Drop \/ SessionOpens \/ HandleFrame \/ DebounceFires
  PROVE  WellTyped'
<1> USE DEF WellTyped, QueuesTyped
<1>1. \A S : <<>> \in Seq(S)
  OBVIOUS
<1>2. CASE Drop
  <2>1. Ended \in AnyMessage
    BY DEF Ended, AnyMessage
  <2>2. inbox' \in Seq(AnyMessage)
    BY <1>2, <2>1, SeqAppend DEF Drop
  <2>3. CoreTyped' /\ StateTyped' /\ AppTyped'
    BY <1>2 DEF Drop, CoreTyped, StateTyped, AppTyped, core, state, log, bounds
  <2> QED
    BY <1>1, <1>2, <2>2, <2>3 DEF Drop, log
<1>3. CASE SessionOpens
  <2>1. buffers' \subseteq Buffer
    BY <1>3 DEF SessionOpens, StateTyped
  <2>2. active' \in Buffer \cup {NoBuffer}
    <3>1. active' \in {active} \/ active' \in Pick(buffers', Filled)
      BY <1>3 DEF SessionOpens
    <3> QED
      BY <2>1, <3>1, PickTyped DEF AppTyped
  <2>3. inbox' \in Seq(AnyMessage)
    BY <1>3, <2>2, PostedTyped, SeqConcat DEF SessionOpens, Post
  <2>4. toCore' \in Seq(AnyRequest)
    BY <1>3 DEF SessionOpens, InitRequest, Request, AnyRequest
  <2>5. StateTyped'
    BY <1>3, <2>1 DEF SessionOpens, StateTyped, Nothing, AnyId
  <2>6. CoreTyped' /\ AppTyped'
    BY <1>3, <2>2 DEF SessionOpens, CoreTyped, AppTyped, core, log, history, bounds
  <2> QED
    BY <1>3, <2>3, <2>4, <2>5, <2>6 DEF SessionOpens, log
<1>4. CASE HandleFrame
  <2>1. Head(toClient) \in AnyFrame /\ toClient' \in Seq(AnyFrame)
    BY <1>4, SeqHead DEF HandleFrame
  <2>2. StateTyped' /\ active' \in Buffer \cup {NoBuffer} /\ inbox' \in Seq(AnyMessage)
    BY <1>4, <2>1, FrameTyped DEF HandleFrame
  <2>3. CoreTyped' /\ AppTyped'
    BY <1>4, <2>2 DEF HandleFrame, CoreTyped, AppTyped, core, log, history, bounds
  <2> QED
    BY <1>4, <2>1, <2>2, <2>3 DEF HandleFrame, log
<1>5. CASE DebounceFires
  <2>1. inbox' \in Seq(AnyMessage)
    <3>1. ActiveUpdated(active) \in AnyMessage
      BY DEF ActiveUpdated, AnyMessage, AppTyped
    <3>2. <<ActiveUpdated(active)>> \in Seq(AnyMessage)
      BY <3>1
    <3> QED
      BY <1>5, <3>2, SeqConcat DEF DebounceFires, Post
  <2>2. CoreTyped' /\ StateTyped' /\ AppTyped'
    BY <1>5 DEF DebounceFires, CoreTyped, StateTyped, AppTyped, core, state, log, history, bounds
  <2> QED
    BY <1>5, <2>1, <2>2 DEF DebounceFires, wire, log
<1> QED
  BY <1>2, <1>3, <1>4, <1>5

\* The requests a message of the app starts.
LEMMA StartTyped ==
  ASSUME WellTyped, NEW requests \in Seq(AnyRequest), Start(requests)
  PROVE  workers' \in Seq(AnyRequest)
<1>1. workers \o requests \in Seq(AnyRequest)
  BY SeqConcat DEF WellTyped, QueuesTyped
<1> QED
  BY <1>1 DEF Start, WellTyped, QueuesTyped

\* One message of the app's queue.
LEMMA AppStaysTyped == ASSUME WellTyped, AppHandles PROVE WellTyped'
<1> DEFINE m == Head(inbox)
<1>1. m \in AnyMessage /\ Tail(inbox) \in Seq(AnyMessage)
  BY SeqHead DEF AppHandles, WellTyped, QueuesTyped
<1>2. UNCHANGED <<stored, coreLine, gone, networks, nextId, messages, lines, buffers, latched,
                  link, toCore, toClient, selected>>
  BY DEF AppHandles, core, wire, bounds
<1>3. ASSUME markers' \in [Buffer -> AnyId], active' \in Buffer \cup {NoBuffer},
             shown' \in Buffer \cup {NoBuffer}, own' \subseteq Buffer, rows' \subseteq Id,
             drawn' \subseteq Id, workers' \in Seq(AnyRequest), inbox' \in Seq(AnyMessage)
      PROVE  WellTyped'
  BY <1>2, <1>3 DEF WellTyped, CoreTyped, StateTyped, AppTyped, QueuesTyped
<1> USE DEF StateTyped, AppTyped, QueuesTyped
<1>4. CASE m.kind = "ActiveBufferUpdated" /\ OnActiveUpdated(m)
  <2>1. m.buffer \in Buffer \cup {NoBuffer}
    BY <1>1, <1>4 DEF AnyMessage
  <2>2. m.buffer # NoBuffer => Backlog(m.buffer) \in AnyRequest
    BY <2>1 DEF Backlog, Request, AnyRequest
  <2>3. Optional(m.buffer # NoBuffer, Backlog(m.buffer)) \in Seq(AnyRequest)
    BY <2>2, SeqOptional
  <2>4. workers' \in Seq(AnyRequest)
    BY <1>4, <2>3, StartTyped DEF OnActiveUpdated
  <2> HIDE DEF m
  <2>5. rows' \subseteq Id /\ shown' \in Buffer \cup {NoBuffer}
    BY <1>4, <2>1 DEF OnActiveUpdated, WellTyped
  <2>6. UNCHANGED <<markers, active, own>> /\ inbox' = Tail(inbox)
    BY <1>4 DEF OnActiveUpdated
  <2>7. drawn' \subseteq Id
    <3>1. AtTail(rows') \subseteq Id
      BY <2>5, TailTyped
    <3>2. drawn' = drawn \/ drawn' = drawn \cup AtTail(rows')
      BY <1>4 DEF OnActiveUpdated
    <3> QED
      BY <3>1, <3>2 DEF WellTyped
  <2> QED
    BY <1>1, <1>3, <2>4, <2>5, <2>6, <2>7 DEF WellTyped
<1>5. CASE m.kind = "BufferSelected" /\ OnSelected(m)
  <2>1. m.buffer \in Buffer
    BY <1>1, <1>5 DEF AnyMessage
  <2>2. inbox' \in Seq(AnyMessage)
    BY <1>1, <1>5, <2>1, PostedTyped, SeqConcat DEF OnSelected
  <2>3. workers' \in Seq(AnyRequest)
    <3>1. CASE m.buffer # active /\ active # NoBuffer /\ messages[active] # {}
      <4>1. active \in Buffer /\ messages[active] \subseteq AnyId
        BY <3>1 DEF WellTyped, AnyId
      <4>2. LastSeen(active) \in AnyId
        BY <3>1, <4>1, NewestIsOne DEF LastSeen
      <4>3. Seen(active, LastSeen(active)) \in AnyRequest
        BY <4>1, <4>2 DEF Seen, Request, AnyRequest
      <4>4. <<Seen(active, LastSeen(active))>> \in Seq(AnyRequest)
        BY <4>3
      <4> QED
        BY <1>5, <3>1, <4>4, StartTyped DEF OnSelected
    <3>2. CASE ~(m.buffer # active /\ active # NoBuffer /\ messages[active] # {})
      BY <1>5, <3>2 DEF OnSelected, WellTyped
    <3> QED
      BY <3>1, <3>2
  <2> QED
    BY <1>3, <1>5, <2>1, <2>2, <2>3 DEF OnSelected, WellTyped
<1>6. ASSUME NEW b \in Buffer, NEW id \in Id, Mark(b, id), inbox' \in Seq(AnyMessage),
             UNCHANGED <<active, shown, rows, drawn>>
      PROVE  WellTyped'
  <2>1. Line(b, id) \in AnyRequest
    BY DEF Line, Request, AnyRequest, AnyId
  <2>2. MarkerRequest(b, id) \in Seq(AnyRequest)
    BY <2>1 DEF MarkerRequest
  <2>3. workers' \in Seq(AnyRequest)
    BY <1>6, <2>2, StartTyped DEF Mark
  <2>4. markers' \in [Buffer -> AnyId] /\ own' \subseteq Buffer
    BY <1>6 DEF Mark, WellTyped, AnyId
  <2> QED
    BY <1>3, <1>6, <2>3, <2>4 DEF WellTyped
<1>7. CASE m.kind = "ReadMarkerPlaced" /\ OnPlaced(m)
  <2>1. m.buffer \in Buffer /\ m.id \in Id
    BY <1>1, <1>7 DEF AnyMessage
  <2>2. inbox' \in Seq(AnyMessage)
    BY <1>1, <1>7, <2>1, PostedTyped, SeqConcat DEF OnPlaced
  <2> HIDE DEF m
  <2> QED
    BY <1>6, <1>7, <2>1, <2>2 DEF OnPlaced, Target
<1>8. CASE m.kind = "MarkerToLatestRequested" /\ OnToLatest
  <2>1. CASE active # NoBuffer /\ messages[active] # {}
    <3>1. active \in Buffer /\ messages[active] \subseteq Id /\ messages[active] \subseteq AnyId
      BY <2>1 DEF WellTyped, AnyId
    <3>2. Newest(messages[active]) \in Id
      BY <2>1, <3>1, NewestIsOne
    <3>3. inbox' \in Seq(AnyMessage)
      <4>1. ActiveUpdated(active) \in AnyMessage
        BY <3>1 DEF ActiveUpdated, AnyMessage
      <4> QED
        BY <1>1, <1>8, <2>1, <4>1, SeqAppend DEF OnToLatest
    <3> QED
      BY <1>6, <1>8, <2>1, <3>1, <3>2, <3>3 DEF OnToLatest
  <2>2. CASE ~(active # NoBuffer /\ messages[active] # {})
    BY <1>1, <1>3, <1>8, <2>2 DEF OnToLatest, WellTyped
  <2> QED
    BY <2>1, <2>2
<1>9. CASE m.kind = "SessionEnded" /\ OnEnded
  BY <1>1, <1>3, <1>9 DEF OnEnded, WellTyped
<1> QED
  BY <1>4, <1>5, <1>7, <1>8, <1>9 DEF AppHandles

\* The log, the workers and the user.
LEMMA RestStaysTyped ==
  ASSUME WellTyped,
         \/ LogHandles \/ WorkerRuns \/ UserMarksLatest \/ UserReconnects
         \/ \E b \in Buffer : UserSelects(b)
         \/ \E id \in Id : UserSelectsRow(id)
  PROVE  WellTyped'
<1>1. UNCHANGED <<stored, coreLine, gone, networks, nextId, messages, markers, lines, buffers,
                  toClient, active, shown, rows, drawn, own>>
  BY Zenon DEF LogHandles, WorkerRuns, UserMarksLatest, UserReconnects, UserSelects,
     UserSelectsRow, Presses, Act, core, wire, state, log, history, bounds
<1>2. latched' \subseteq Buffer /\ link' \in {"starting", "open", "down"}
  <2>1. CASE WorkerRuns
    <3>1. Head(workers) \in AnyRequest
      BY <2>1, SeqHead DEF WorkerRuns, WellTyped, QueuesTyped
    <3>2. Head(workers).kind = "requestBacklog" => Head(workers).buffer \in Buffer
      BY <3>1 DEF AnyRequest
    <3> QED
      BY <2>1, <3>2 DEF WorkerRuns, WellTyped, StateTyped, AppTyped
  <2>2. CASE ~WorkerRuns
    BY <2>2 DEF LogHandles, UserMarksLatest, UserReconnects, UserSelects, UserSelectsRow,
       Presses, Act, state, WellTyped, StateTyped, AppTyped
  <2> QED
    BY <2>1, <2>2
<1>3. toCore' \in Seq(AnyRequest) /\ workers' \in Seq(AnyRequest)
  <2>1. CASE WorkerRuns
    <3>1. Head(workers) \in AnyRequest /\ workers' \in Seq(AnyRequest)
      BY <2>1, SeqHead DEF WorkerRuns, WellTyped, QueuesTyped
    <3>2. toCore' = toCore \/ toCore' = Append(toCore, Head(workers))
      BY <2>1 DEF WorkerRuns
    <3> QED
      BY <3>1, <3>2, SeqAppend DEF WellTyped, QueuesTyped
  <2>2. CASE ~WorkerRuns
    <3>1. toCore' = toCore /\ (workers' = workers \/ workers' = <<>>)
      BY <2>2 DEF LogHandles, UserMarksLatest, UserReconnects, UserSelects, UserSelectsRow,
         Presses, Act, wire
    <3>2. <<>> \in Seq(AnyRequest)
      OBVIOUS
    <3> QED
      BY <3>1, <3>2 DEF WellTyped, QueuesTyped
  <2> QED
    BY <2>1, <2>2
<1>4. inbox' \in Seq(AnyMessage) /\ selected' \in Seq(Id)
  <2> USE DEF WellTyped, QueuesTyped
  <2>1. CASE LogHandles
    <3>1. Head(selected) \in Id /\ selected' \in Seq(Id)
      BY <2>1, SeqHead DEF LogHandles
    <3>2. shown # NoBuffer => Placed(shown, Head(selected)) \in AnyMessage
      BY <3>1 DEF Placed, AnyMessage, AppTyped
    <3> QED
      BY <2>1, <3>1, <3>2, SeqOptional, SeqConcat DEF LogHandles, Post
  <2>2. CASE WorkerRuns \/ UserReconnects
    BY <2>2 DEF WorkerRuns, UserReconnects, log
  <2>3. CASE UserMarksLatest
    <3>1. ToLatest \in AnyMessage
      BY DEF ToLatest, AnyMessage
    <3> QED
      BY <2>3, <3>1, SeqAppend DEF UserMarksLatest, Presses
  <2>4. ASSUME NEW b \in Buffer, UserSelects(b) PROVE inbox' \in Seq(AnyMessage) /\ selected' = selected
    <3>1. Selected(b) \in AnyMessage
      BY DEF Selected, AnyMessage
    <3> QED
      BY <2>4, <3>1, SeqAppend DEF UserSelects, Presses
  <2>5. ASSUME NEW id \in Id, UserSelectsRow(id) PROVE inbox' = inbox /\ selected' \in Seq(Id)
    BY <2>5, SeqAppend DEF UserSelectsRow
  <2> QED
    BY <2>1, <2>2, <2>3, <2>4, <2>5
<1> QED
  BY <1>1, <1>2, <1>3, <1>4 DEF WellTyped, CoreTyped, StateTyped, AppTyped, QueuesTyped

LEMMA ScrollStaysTyped == ASSUME WellTyped, UserScrolls PROVE WellTyped'
<1>1. UNCHANGED <<core, wire, link, state, active, inbox, workers, shown, rows, selected, own,
                  nextId>>
  BY DEF UserScrolls, Act
<1>2. drawn' \subseteq Id
  BY TailTyped DEF UserScrolls, WellTyped, AppTyped
<1> QED
  BY <1>1, <1>2 DEF WellTyped, CoreTyped, StateTyped, AppTyped, QueuesTyped, core, wire, state

LEMMA NextWellTyped == WellTyped /\ [Next]_vars => WellTyped'
<1>1. WellTyped /\ UNCHANGED vars => WellTyped'
  BY DEF WellTyped, CoreTyped, StateTyped, AppTyped, QueuesTyped, vars, core, wire, state, log,
     history, bounds
<1>2. WellTyped /\ Next => WellTyped'
  BY CoreStaysTyped, LinkStaysTyped, AppStaysTyped, RestStaysTyped, ScrollStaysTyped DEF Next
<1> QED
  BY <1>1, <1>2

\* Every variable and every message, request and frame keeps its sort, for any number
\* of messages; in particular no marker request and no row the user selects is
\* without an id.
THEOREM Typed == Spec => [](TypeOK /\ WellTyped)
<1>1. Init => FlagsTyped
  BY Zenon DEF Init, FlagsTyped
<1> QED
  BY <1>1, InitWellTyped, FlagsStay, NextWellTyped, WellTypedIsTypeOK, PTL DEF Spec

--------------------------------------------------------------------------------
(* What a queue holds.                                                         *)

Holds(q, m) == \E i \in 1 .. Len(q) : q[i] = m

LEMMA HoldsConcat ==
  ASSUME NEW S, NEW q \in Seq(S), NEW r \in Seq(S), NEW m
  PROVE  /\ Holds(q, m) => Holds(q \o r, m)
         /\ Holds(r, m) => Holds(q \o r, m)
         /\ Holds(q \o r, m) => Holds(q, m) \/ Holds(r, m)
<1>1. /\ Len(q) \in Nat /\ Len(r) \in Nat /\ Len(q \o r) = Len(q) + Len(r)
      /\ \A i \in 1 .. Len(q) : (q \o r)[i] = q[i]
      /\ \A i \in 1 .. Len(r) : (q \o r)[Len(q) + i] = r[i]
  OBVIOUS
<1>2. Holds(q, m) => Holds(q \o r, m)
  BY <1>1 DEF Holds
<1>3. ASSUME NEW i \in 1 .. Len(r), r[i] = m PROVE Holds(q \o r, m)
  <2>1. Len(q) + i \in 1 .. Len(q \o r) /\ (q \o r)[Len(q) + i] = m
    BY <1>1, <1>3
  <2> QED
    BY <2>1 DEF Holds
<1>4. ASSUME NEW i \in 1 .. Len(q \o r), (q \o r)[i] = m PROVE Holds(q, m) \/ Holds(r, m)
  <2>1. CASE i \in 1 .. Len(q)
    BY <1>1, <1>4, <2>1 DEF Holds
  <2>2. CASE i \notin 1 .. Len(q)
    <3>1. i - Len(q) \in 1 .. Len(r) /\ Len(q) + (i - Len(q)) = i
      BY <1>1, <2>2
    <3> QED
      BY <1>1, <1>4, <3>1 DEF Holds
  <2> QED
    BY <2>1, <2>2
<1> QED
  BY <1>2, <1>3, <1>4 DEF Holds

LEMMA HoldsTail ==
  ASSUME NEW S, NEW q \in Seq(S), q # <<>>, NEW m
  PROVE  /\ Holds(Tail(q), m) => Holds(q, m)
         /\ Holds(q, m) /\ Head(q) # m => Holds(Tail(q), m)
<1>1. /\ Len(q) \in Nat /\ Len(q) >= 1 /\ Len(Tail(q)) = Len(q) - 1 /\ Head(q) = q[1]
      /\ \A i \in 1 .. Len(q) - 1 : Tail(q)[i] = q[i + 1]
  OBVIOUS
<1>2. Holds(Tail(q), m) => Holds(q, m)
  BY <1>1 DEF Holds
<1>3. ASSUME NEW i \in 1 .. Len(q), q[i] = m, Head(q) # m PROVE Holds(Tail(q), m)
  <2>1. i # 1
    BY <1>1, <1>3
  <2>2. i - 1 \in 1 .. Len(q) - 1 /\ (i - 1) + 1 = i
    BY <1>1, <2>1
  <2> QED
    BY <1>1, <1>3, <2>2 DEF Holds
<1> QED
  BY <1>2, <1>3 DEF Holds

LEMMA HoldsOne ==
  ASSUME NEW S, NEW q \in Seq(S), NEW e \in S, NEW m
  PROVE  /\ Holds(<<e>>, m) <=> e = m
         /\ Holds(Append(q, e), m) <=> (Holds(q, m) \/ e = m)
         /\ ~Holds(<<>>, m)
<1>1. Len(<<e>>) = 1 /\ <<e>>[1] = e /\ Len(<<>>) = 0 /\ \A i \in 1 .. 1 : i = 1
  OBVIOUS
<1>2. /\ Len(q) \in Nat /\ Len(Append(q, e)) = Len(q) + 1 /\ Append(q, e)[Len(q) + 1] = e
      /\ \A i \in 1 .. Len(q) : Append(q, e)[i] = q[i]
  OBVIOUS
<1>3. Holds(<<e>>, m) <=> e = m
  BY <1>1 DEF Holds
<1>4. ~Holds(<<>>, m)
  BY <1>1 DEF Holds
<1>5. Holds(Append(q, e), m) <=> (Holds(q, m) \/ e = m)
  BY <1>2 DEF Holds
<1> QED
  BY <1>3, <1>4, <1>5

--------------------------------------------------------------------------------
(* Nothing is reported as seen that was not drawn or due.                      *)

\* The last redraw that waits in a queue is one of buffer b.
Follows(q, b) ==
  \A i \in 1 .. Len(q) : q[i].kind = "ActiveBufferUpdated" =>
    \E j \in i .. Len(q) : q[j] = ActiveUpdated(b)

\* Of redraws, a queue has only those of buffer b.
Only(q, b) == \A i \in 1 .. Len(q) : q[i].kind = "ActiveBufferUpdated" => q[i] = ActiveUpdated(b)

LEMMA FollowsTail ==
  ASSUME NEW S, NEW q \in Seq(S), q # <<>>, NEW b, Follows(q, b)
  PROVE  /\ Follows(Tail(q), b)
         /\ Head(q).kind = "ActiveBufferUpdated" /\ Head(q) # ActiveUpdated(b)
              => Holds(Tail(q), ActiveUpdated(b))
<1>1. /\ Len(q) \in Nat /\ Len(q) >= 1 /\ Len(Tail(q)) = Len(q) - 1 /\ Head(q) = q[1]
      /\ \A i \in 1 .. Len(q) - 1 : Tail(q)[i] = q[i + 1]
  OBVIOUS
<1>2. ASSUME NEW i \in 1 .. Len(q) - 1, Tail(q)[i].kind = "ActiveBufferUpdated"
      PROVE  \E j \in i .. Len(q) - 1 : Tail(q)[j] = ActiveUpdated(b)
  <2>1. i + 1 \in 1 .. Len(q) /\ q[i + 1].kind = "ActiveBufferUpdated"
    BY <1>1, <1>2
  <2>2. PICK j \in i + 1 .. Len(q) : q[j] = ActiveUpdated(b)
    BY <2>1 DEF Follows
  <2>3. j - 1 \in i .. Len(q) - 1 /\ j - 1 \in 1 .. Len(q) - 1 /\ (j - 1) + 1 = j
    BY <1>1, <2>2
  <2>4. Tail(q)[j - 1] = q[j]
    BY <1>1, <2>3
  <2> QED
    BY <2>2, <2>3, <2>4
<1>3. ASSUME Head(q).kind = "ActiveBufferUpdated", Head(q) # ActiveUpdated(b)
      PROVE  Holds(Tail(q), ActiveUpdated(b))
  <2>1. PICK j \in 1 .. Len(q) : q[j] = ActiveUpdated(b)
    BY <1>1, <1>3 DEF Follows
  <2>2. j # 1
    BY <1>1, <1>3, <2>1
  <2>3. j - 1 \in 1 .. Len(q) - 1 /\ (j - 1) + 1 = j
    BY <1>1, <2>1, <2>2
  <2>4. Tail(q)[j - 1] = q[j]
    BY <1>1, <2>3
  <2> QED
    BY <1>1, <2>1, <2>3, <2>4 DEF Holds
<1> QED
  BY <1>1, <1>2, <1>3 DEF Follows

LEMMA FollowsConcat ==
  ASSUME NEW S, NEW q \in Seq(S), NEW r \in Seq(S), NEW b, Follows(q, b), Only(r, b)
  PROVE  Follows(q \o r, b)
<1>1. /\ Len(q) \in Nat /\ Len(r) \in Nat /\ Len(q \o r) = Len(q) + Len(r)
      /\ \A i \in 1 .. Len(q) : (q \o r)[i] = q[i]
      /\ \A i \in 1 .. Len(r) : (q \o r)[Len(q) + i] = r[i]
  OBVIOUS
<1> SUFFICES ASSUME NEW i \in 1 .. Len(q \o r), (q \o r)[i].kind = "ActiveBufferUpdated"
             PROVE  \E j \in i .. Len(q \o r) : (q \o r)[j] = ActiveUpdated(b)
  BY DEF Follows
<1>2. CASE i \in 1 .. Len(q)
  <2>1. PICK j \in i .. Len(q) : q[j] = ActiveUpdated(b)
    BY <1>1, <1>2 DEF Follows
  <2>2. j \in 1 .. Len(q) /\ j \in i .. Len(q \o r)
    BY <1>1, <1>2, <2>1
  <2> QED
    BY <1>1, <2>1, <2>2
<1>3. CASE i \notin 1 .. Len(q)
  <2>1. i - Len(q) \in 1 .. Len(r) /\ Len(q) + (i - Len(q)) = i
    BY <1>1, <1>3
  <2>2. (q \o r)[i] = r[i - Len(q)]
    BY <1>1, <2>1
  <2>3. (q \o r)[i] = ActiveUpdated(b)
    BY <2>1, <2>2 DEF Only
  <2> QED
    BY <1>1, <2>3
<1> QED
  BY <1>2, <1>3

\* A redraw at the end is the last one.
LEMMA FollowsLast ==
  ASSUME NEW S, NEW q \in Seq(S), NEW b, ActiveUpdated(b) \in S
  PROVE  Follows(q \o <<ActiveUpdated(b)>>, b)
<1> DEFINE e == ActiveUpdated(b)
           w == q \o <<e>>
<1>1. Len(w) \in Nat /\ Len(w) = Len(q) + 1 /\ w[Len(w)] = e /\ Len(q) \in Nat
  OBVIOUS
<1>2. \A i \in 1 .. Len(w) : Len(w) \in i .. Len(w)
  BY <1>1
<1> QED
  BY <1>1, <1>2 DEF Follows

LEMMA OnlyParts ==
  ASSUME NEW S, NEW e \in S, NEW b
  PROVE  /\ Only(<<>>, b) /\ Only(<<ActiveUpdated(b)>>, b)
         /\ e.kind # "ActiveBufferUpdated" => Only(<<e>>, b)
<1>1. Len(<<>>) = 0 /\ Len(<<e>>) = 1 /\ Len(<<ActiveUpdated(b)>>) = 1 /\ \A i \in 1 .. 1 : i = 1
  OBVIOUS
<1> QED
  BY <1>1 DEF Only

\* The newest message of a buffer has been at the end of a log that was shown, or it
\* is in the rows below the view of a reader who scrolled up.
Displayed(b) ==
  \/ messages[b] = {} \/ LastSeen(b) \in drawn
  \/ BelowView(b) /\ rows = messages[b]

\* While the link is open the active buffer's newest message is displayed, or a redraw
\* of it is scheduled or waits in the queue.  No redraw of another buffer comes after
\* the last of the active one, so that one is never drawn over and forgotten.
DrawnInv ==
  /\ ~blind /\ Follows(inbox, active)
  /\ link = "open" /\ active # NoBuffer =>
       debounce \/ Holds(inbox, ActiveUpdated(active)) \/ Displayed(active)

LEMMA DueHolds == \A b : Due(b) <=> (debounce \/ Holds(inbox, ActiveUpdated(b)))
  BY DEF Due, Holds

LEMMA KindsDiffer ==
  /\ \A b, c : ActiveUpdated(b) = ActiveUpdated(c) <=> b = c
  /\ \A b, c, i : ActiveUpdated(b) # Placed(c, i)
  /\ \A b, c : ActiveUpdated(b) # Selected(c)
  /\ \A b : ActiveUpdated(b) # ToLatest /\ ActiveUpdated(b) # Ended /\ Selected(b) # Ended
  /\ ToLatest # Ended /\ \A b, i : Placed(b, i) # Ended
<1>1. \A b, c : ActiveUpdated(b) = ActiveUpdated(c) <=> b = c
  BY DEF ActiveUpdated
<1>2. \A b, c, i : ActiveUpdated(b).kind = "ActiveBufferUpdated" /\ Placed(c, i).kind = "ReadMarkerPlaced"
                   /\ Selected(c).kind = "BufferSelected"
  BY DEF ActiveUpdated, Placed, Selected
<1>3. ToLatest.kind = "MarkerToLatestRequested" /\ Ended.kind = "SessionEnded"
  BY DEF ToLatest, Ended
<1> QED
  BY <1>1, <1>2, <1>3

\* A step that leaves the screen's state alone keeps what is due.
LEMMA DrawnQuiet ==
  ASSUME WellTyped, DrawnInv, UNCHANGED <<active, messages, drawn, debounce, up, shown, rows>>,
         blind' => blind, link' = "open" => link = "open",
         \/ inbox' = inbox
         \/ \E r \in Seq(AnyMessage) : Only(r, active) /\ inbox' = inbox \o r
         \/ /\ inbox # <<>> /\ (active # NoBuffer => Head(inbox) # ActiveUpdated(active))
            /\ \E r \in Seq(AnyMessage) : Only(r, active) /\ inbox' = Tail(inbox) \o r
  PROVE  DrawnInv'
<1>1. inbox \in Seq(AnyMessage)
  BY DEF WellTyped, QueuesTyped
<1>2. /\ active # NoBuffer /\ Holds(inbox, ActiveUpdated(active))
           => Holds(inbox', ActiveUpdated(active))
      /\ Follows(inbox', active)
  <2>1. CASE inbox' = inbox
    BY <2>1 DEF DrawnInv
  <2>2. CASE \E r \in Seq(AnyMessage) : Only(r, active) /\ inbox' = inbox \o r
    BY <1>1, <2>2, HoldsConcat, FollowsConcat DEF DrawnInv
  <2>3. CASE /\ inbox # <<>> /\ (active # NoBuffer => Head(inbox) # ActiveUpdated(active))
             /\ \E r \in Seq(AnyMessage) : Only(r, active) /\ inbox' = Tail(inbox) \o r
    <3>1. Tail(inbox) \in Seq(AnyMessage)
      BY <1>1, <2>3, SeqHead
    <3>2. PICK r \in Seq(AnyMessage) : Only(r, active) /\ inbox' = Tail(inbox) \o r
      BY <2>3
    <3>3. active # NoBuffer /\ Holds(inbox, ActiveUpdated(active))
            => Holds(Tail(inbox), ActiveUpdated(active))
      BY <1>1, <2>3, HoldsTail
    <3>4. Follows(Tail(inbox), active)
      BY <1>1, <2>3, FollowsTail DEF DrawnInv
    <3> QED
      BY <3>1, <3>2, <3>3, <3>4, HoldsConcat, FollowsConcat
  <2> QED
    BY <2>1, <2>2, <2>3
<1>3. ActiveUpdated(active)' = ActiveUpdated(active) /\ Follows(inbox, active)' = Follows(inbox', active)
  BY DEF ActiveUpdated, Follows
<1>4. Displayed(active) => Displayed(active)'
  BY DEF Displayed, LastSeen, BelowView
<1> QED
  BY <1>2, <1>3, <1>4 DEF DrawnInv

LEMMA SeqParts ==
  ASSUME NEW S, NEW q \in Seq(S), NEW e \in S
  PROVE  Append(q, e) = q \o <<e>> /\ <<e>> \in Seq(S) /\ q \o <<>> = q /\ <<>> \in Seq(S)
<1>1. <<e>> \in Seq(S) /\ <<>> \in Seq(S)
  OBVIOUS
<1>2. Append(q, e) = q \o <<e>>
  BY AppendIsConcat
<1>3. q \o <<>> = q
  BY ConcatEmptySeq
<1> QED
  BY <1>1, <1>2, <1>3

\* A redraw of the buffer that is active now is due.
LEMMA DrawnDue ==
  ASSUME DrawnInv, blind' => blind, NEW q \in Seq(AnyMessage),
         active' \in Buffer \cup {NoBuffer},
         inbox' = q \o <<ActiveUpdated(active')>>
  PROVE  DrawnInv'
<1>1. ActiveUpdated(active') \in AnyMessage
  BY DEF ActiveUpdated, AnyMessage
<1>2. Holds(inbox', ActiveUpdated(active'))
  <2>1. <<ActiveUpdated(active')>> \in Seq(AnyMessage)
    BY <1>1
  <2>2. Holds(<<ActiveUpdated(active')>>, ActiveUpdated(active'))
    BY <1>1, HoldsOne
  <2> QED
    BY <2>1, <2>2, HoldsConcat
<1>3. Follows(inbox', active')
  BY <1>1, FollowsLast
<1>4. ActiveUpdated(active)' = ActiveUpdated(active') /\ Follows(inbox, active)' = Follows(inbox', active')
  BY DEF ActiveUpdated, Follows
<1> QED
  BY <1>2, <1>3, <1>4 DEF DrawnInv

\* A step that leaves the active buffer's messages and redraws alone.
LEMMA DrawnSame ==
  ASSUME DrawnInv, UNCHANGED <<active, drawn, up, shown, rows, inbox, blind, link>>,
         debounce => debounce', active # NoBuffer => messages'[active] = messages[active]
  PROVE  DrawnInv'
<1>1. ActiveUpdated(active)' = ActiveUpdated(active) /\ Follows(inbox, active)' = Follows(inbox, active)
  BY DEF ActiveUpdated, Follows
<1>2. active # NoBuffer /\ Displayed(active) => Displayed(active)'
  BY DEF Displayed, LastSeen, BelowView
<1> QED
  BY <1>1, <1>2 DEF DrawnInv

LEMMA FrameDrawn ==
  ASSUME WellTyped, DrawnInv, link = "open", NEW f \in AnyFrame, Frame(f),
         UNCHANGED <<link, drawn, blind, up, shown, rows>>
  PROVE  DrawnInv'
<1>1. inbox \in Seq(AnyMessage) /\ active \in Buffer \cup {NoBuffer}
  BY DEF WellTyped, QueuesTyped, AppTyped
<1>2. CASE (f.kind = "InitData" /\ InitDataFrame(f)) \/ (f.kind = "setMarkerLine" /\ SetMarkerLine(f))
  BY <1>2, DrawnQuiet DEF InitDataFrame, SetMarkerLine
<1>3. CASE f.kind = "displayMsg" /\ DisplayMsg(f)
  <2>1. f.buffer \in Buffer /\ UNCHANGED <<active, inbox>>
    BY <1>3 DEF AnyFrame, DisplayMsg
  <2>2. CASE f.buffer = active
    <3>1. debounce'
      BY <1>3, <2>2 DEF DisplayMsg, Schedule
    <3>2. Follows(inbox, active)' = Follows(inbox, active)
      BY <2>1 DEF Follows, ActiveUpdated
    <3> QED
      BY <3>1, <3>2 DEF DrawnInv
  <2>3. CASE f.buffer # active
    <3>1. /\ debounce' <=> debounce
          /\ active # NoBuffer => messages'[active] = messages[active]
      BY <1>1, <1>3, <2>1, <2>3 DEF DisplayMsg, Schedule, WellTyped, StateTyped
    <3> QED
      BY <2>1, <3>1, DrawnSame
  <2> QED
    BY <2>2, <2>3
<1>4. CASE f.kind = "receiveBacklog" /\ ReceiveBacklog(f)
  <2> DEFINE posts == f.buffer \in buffers /\ f.buffer = active /\ f.ids \ messages[f.buffer] # {}
  <2>1. f.buffer \in Buffer /\ UNCHANGED <<active, debounce>>
    BY <1>4 DEF AnyFrame, ReceiveBacklog
  <2>2. inbox' = inbox \o Optional(posts, ActiveUpdated(f.buffer))
    BY <1>4 DEF ReceiveBacklog, Post
  <2>3. CASE posts
    <3>1. inbox' = inbox \o <<ActiveUpdated(active')>>
      BY <2>1, <2>2, <2>3 DEF Optional
    <3> QED
      BY <1>1, <2>1, <3>1, DrawnDue
  <2>4. CASE ~posts
    <3>1. inbox' = inbox
      BY <1>1, <2>2, <2>4, ConcatEmptySeq DEF Optional
    <3>2. active # NoBuffer => messages'[active] = messages[active]
      <4>1. CASE f.buffer \in buffers
        <5>1. messages' = [messages EXCEPT ![f.buffer] = @ \cup f.ids]
          BY <1>4, <4>1 DEF ReceiveBacklog
        <5>2. f.buffer = active => messages[f.buffer] \cup f.ids = messages[f.buffer]
          BY <2>4, <4>1
        <5> QED
          BY <1>1, <2>1, <5>1, <5>2 DEF WellTyped, StateTyped
      <4>2. CASE f.buffer \notin buffers
        BY <1>4, <4>2 DEF ReceiveBacklog
      <4> QED
        BY <4>1, <4>2
    <3> QED
      BY <2>1, <3>1, <3>2, DrawnSame
  <2> QED
    BY <2>3, <2>4
<1>5. ASSUME NEW removed \in SUBSET Buffer, Vanish(removed) PROVE DrawnInv'
  <2>1. active' \in Buffer \cup {NoBuffer}
    BY FrameTyped
  <2>2. inbox' = inbox \o Optional(active \in removed, ActiveUpdated(active'))
    BY <1>5 DEF Vanish, Post
  <2>3. CASE active \in removed
    <3>1. inbox' = inbox \o <<ActiveUpdated(active')>>
      BY <2>2, <2>3 DEF Optional
    <3> QED
      BY <1>1, <2>1, <3>1, DrawnDue
  <2>4. CASE active \notin removed
    <3>1. inbox' = inbox
      BY <1>1, <2>2, <2>4, ConcatEmptySeq DEF Optional
    <3>2. /\ active' = active /\ debounce' = debounce
          /\ active # NoBuffer => messages'[active] = messages[active]
      BY <1>1, <1>5, <2>4 DEF Vanish, Without
    <3> QED
      BY <3>1, <3>2, DrawnSame
  <2> QED
    BY <2>3, <2>4
<1>6. CASE f.kind = "removeBuffer" /\ RemoveBuffer(f)
  <2>1. {f.buffer} \in SUBSET Buffer
    BY <1>6 DEF AnyFrame
  <2> QED
    BY <1>5, <1>6, <2>1 DEF RemoveBuffer
<1>7. CASE f.kind = "networkRemoved" /\ NetworkRemovedFrame(f)
  <2>1. buffers \cap BuffersOf(f.network) \in SUBSET Buffer
    BY DEF BuffersOf
  <2> QED
    BY <1>5, <1>7, <2>1 DEF NetworkRemovedFrame
<1> QED
  BY <1>2, <1>3, <1>4, <1>6, <1>7 DEF Frame

LEMMA AppDrawn == ASSUME WellTyped, DrawnInv, AppHandles PROVE DrawnInv'
<1> DEFINE m == Head(inbox)
<1>1. m \in AnyMessage /\ Tail(inbox) \in Seq(AnyMessage) /\ inbox # <<>> /\ inbox \in Seq(AnyMessage)
  BY SeqHead DEF AppHandles, WellTyped, QueuesTyped
<1>2. UNCHANGED <<link, messages, debounce>>
  BY DEF AppHandles
<1>11. \A b : Only(<<>>, b)
  BY <1>1, OnlyParts
<1>3. Tail(inbox) \o <<>> = Tail(inbox) /\ <<>> \in Seq(AnyMessage)
  BY <1>1, ConcatEmptySeq, EmptySeq
<1>4. active \in Buffer \cup {NoBuffer}
  BY DEF WellTyped, AppTyped
<1>5. ASSUME m.kind # "ActiveBufferUpdated", UNCHANGED <<active, drawn, up, shown, rows>>,
             blind' => blind,
             \E r \in Seq(AnyMessage) : Only(r, active) /\ inbox' = Tail(inbox) \o r
      PROVE  DrawnInv'
  <2>1. m # ActiveUpdated(active)
    BY <1>5 DEF ActiveUpdated
  <2> QED
    BY <1>1, <1>2, <1>5, <2>1, DrawnQuiet
<1>6. CASE m.kind = "ActiveBufferUpdated" /\ OnActiveUpdated(m)
  <2>1. m.buffer \in Buffer \cup {NoBuffer} /\ m = ActiveUpdated(m.buffer)
    BY <1>1, <1>6 DEF AnyMessage, ActiveUpdated
  <2>2. UNCHANGED <<active, blind>> /\ inbox' = Tail(inbox)
    BY <1>6 DEF OnActiveUpdated
  <2>3. Follows(inbox, active)' /\ ActiveUpdated(active)' = ActiveUpdated(active)
    <3>1. Follows(Tail(inbox), active)
      BY <1>1, FollowsTail DEF DrawnInv
    <3> QED
      BY <2>2, <3>1 DEF Follows, ActiveUpdated
  <2>4. CASE m.buffer = active /\ active # NoBuffer
    <3>1. shown' = active /\ rows' = messages[active]
      BY <1>6, <2>4 DEF OnActiveUpdated
    <3>2. up' \/ drawn' = drawn \cup AtTail(rows')
      BY <1>6 DEF OnActiveUpdated
    <3>3. Displayed(active)'
      BY <1>2, <2>2, <3>1, <3>2 DEF Displayed, BelowView, LastSeen, AtTail
    <3> QED
      BY <2>2, <2>3, <3>3 DEF DrawnInv
  <2>5. CASE ~(m.buffer = active /\ active # NoBuffer)
    <3>1. active # NoBuffer => m # ActiveUpdated(active)
      BY <2>1, <2>5 DEF ActiveUpdated
    <3>2. active # NoBuffer => Holds(inbox', ActiveUpdated(active))
      BY <1>1, <1>6, <2>2, <3>1, FollowsTail DEF DrawnInv
    <3> QED
      BY <2>2, <2>3, <3>2 DEF DrawnInv
  <2> QED
    BY <2>4, <2>5
<1>7. CASE m.kind = "BufferSelected" /\ OnSelected(m)
  <2>1. m.buffer \in Buffer /\ active' = m.buffer /\ drawn' = drawn
    BY <1>1, <1>7 DEF AnyMessage, OnSelected
  <2>2. ~blind'
    <3>1. CASE m.buffer # active /\ active # NoBuffer /\ messages[active] # {}
      <4>3. link = "open" => LastSeen(active) \in drawn \/ Due(active) \/ BelowView(active)
        BY <3>1, DueHolds DEF DrawnInv, Displayed
      <4> QED
        BY <1>7, <3>1, <4>3 DEF OnSelected, DrawnInv
    <3>2. CASE ~(m.buffer # active /\ active # NoBuffer /\ messages[active] # {})
      BY <1>7, <3>2 DEF OnSelected, DrawnInv
    <3> QED
      BY <3>1, <3>2
  <2>3. inbox' = Tail(inbox) \o Optional(m.buffer # active, ActiveUpdated(m.buffer))
    BY <1>7 DEF OnSelected
  <2>4. CASE m.buffer # active
    <3>1. inbox' = Tail(inbox) \o <<ActiveUpdated(active')>>
      BY <2>1, <2>3, <2>4 DEF Optional
    <3> QED
      BY <1>1, <2>1, <2>2, <3>1, DrawnDue DEF DrawnInv
  <2>5. CASE m.buffer = active
    <3>1. inbox' = Tail(inbox) \o <<>>
      BY <2>3, <2>5 DEF Optional
    <3>2. UNCHANGED <<up, shown, rows>>
      BY <1>7 DEF OnSelected
    <3> QED
      BY <1>3, <1>5, <1>7, <1>11, <2>1, <2>2, <2>5, <3>1, <3>2 DEF DrawnInv
  <2> QED
    BY <2>4, <2>5
<1>8. CASE m.kind = "ReadMarkerPlaced" /\ OnPlaced(m)
  <2>1. m.buffer \in Buffer
    BY <1>1, <1>8 DEF AnyMessage
  <2>2. Optional(m.buffer = active, ActiveUpdated(m.buffer)) \in Seq(AnyMessage)
    BY <2>1, PostedTyped
  <2>3. Only(Optional(m.buffer = active, ActiveUpdated(m.buffer)), active)
    BY <1>1, OnlyParts DEF Optional
  <2> QED
    BY <1>5, <1>8, <2>2, <2>3 DEF OnPlaced
<1>9. CASE m.kind = "MarkerToLatestRequested" /\ OnToLatest
  <2>1. UNCHANGED <<active, drawn, blind, up, shown, rows>>
    BY <1>9 DEF OnToLatest
  <2>2. CASE active # NoBuffer /\ messages[active] # {}
    <3>1. inbox' = Append(Tail(inbox), ActiveUpdated(active))
      BY <1>9, <2>2 DEF OnToLatest
    <3>2. ActiveUpdated(active) \in AnyMessage
      BY <1>4 DEF ActiveUpdated, AnyMessage
    <3>3. inbox' = Tail(inbox) \o <<ActiveUpdated(active)>>
      BY <1>1, <3>1, <3>2, SeqParts
    <3> QED
      BY <1>1, <1>4, <2>1, <3>3, DrawnDue
  <2>3. CASE ~(active # NoBuffer /\ messages[active] # {})
    <3>1. inbox' = Tail(inbox) \o <<>>
      BY <1>3, <1>9, <2>3 DEF OnToLatest
    <3> QED
      BY <1>3, <1>5, <1>9, <1>11, <2>1, <3>1
  <2> QED
    BY <2>2, <2>3
<1>10. CASE m.kind = "SessionEnded" /\ OnEnded
  <2>1. inbox' = Tail(inbox) \o <<>> /\ UNCHANGED <<active, drawn, blind, up, shown, rows>>
    BY <1>3, <1>10 DEF OnEnded
  <2> QED
    BY <1>3, <1>5, <1>10, <1>11, <2>1
<1> QED
  BY <1>6, <1>7, <1>8, <1>9, <1>10 DEF AppHandles

LEMMA NextDrawn == ASSUME WellTyped, DrawnInv, Next PROVE DrawnInv'
<1>1. inbox \in Seq(AnyMessage) /\ active \in Buffer \cup {NoBuffer}
  BY DEF WellTyped, QueuesTyped, AppTyped
<1>2. CASE \/ \E b \in Buffer : Store(b) \/ OtherRemoves(b)
           \/ \E b \in Buffer, id \in Id : OtherMovesLine(b, id)
           \/ \E n \in Network : OtherRemovesNetwork(n)
           \/ Serve
  <2>1. UNCHANGED <<active, messages, drawn, debounce, blind, link, inbox, up, shown, rows>>
    BY <1>2 DEF Store, OtherRemoves, OtherRemovesNetwork, Forget, OtherMovesLine, Serve,
       CoreOnly, state, log
  <2> QED
    BY <2>1, DrawnQuiet
<1>3. CASE Drop \/ UserReconnects
  <2>1. link' # "open" /\ blind' = blind /\ active' = active
    BY <1>3 DEF Drop, UserReconnects, history
  <2>2. Follows(inbox', active)
    <3>1. CASE Drop
      <4>1. Ended \in AnyMessage /\ Ended.kind # "ActiveBufferUpdated"
        BY DEF Ended, AnyMessage
      <4>2. inbox' = inbox \o <<Ended>> /\ <<Ended>> \in Seq(AnyMessage)
        BY <1>1, <3>1, <4>1, SeqParts DEF Drop
      <4>3. Only(<<Ended>>, active)
        BY <4>1, OnlyParts
      <4> QED
        BY <1>1, <4>2, <4>3, FollowsConcat DEF DrawnInv
    <3>2. CASE UserReconnects
      BY <3>2 DEF UserReconnects, DrawnInv
    <3> QED
      BY <1>3, <3>1, <3>2
  <2>3. Follows(inbox, active)' = Follows(inbox', active)
    BY <2>1 DEF Follows, ActiveUpdated
  <2> QED
    BY <2>1, <2>2, <2>3 DEF DrawnInv
<1>4. CASE SessionOpens
  <2>1. blind' = blind /\ active' \in Buffer \cup {NoBuffer}
    BY <1>4, NextWellTyped, LinkStaysTyped DEF SessionOpens, history, WellTyped, AppTyped
  <2>2. CASE active' # NoBuffer
    <3>1. inbox' = inbox \o <<ActiveUpdated(active')>>
      BY <1>4, <2>2 DEF SessionOpens, Post, Optional
    <3> QED
      BY <1>1, <2>1, <3>1, DrawnDue
  <2>3. CASE active' = NoBuffer
    <3>1. inbox' = inbox
      BY <1>1, <1>4, <2>3, ConcatEmptySeq DEF SessionOpens, Post, Optional
    <3>2. active' = active
      BY <1>4, <2>3 DEF SessionOpens
    <3>3. Follows(inbox, active)' = Follows(inbox, active)
      BY <3>1, <3>2 DEF Follows, ActiveUpdated
    <3> QED
      BY <2>1, <2>3, <3>3 DEF DrawnInv
  <2> QED
    BY <2>2, <2>3
<1>5. CASE HandleFrame
  <2>1. Head(toClient) \in AnyFrame
    BY <1>5, SeqHead DEF HandleFrame, WellTyped, QueuesTyped
  <2> QED
    BY <1>5, <2>1, FrameDrawn DEF HandleFrame, history, log
<1>6. CASE DebounceFires
  <2>1. inbox' = inbox \o <<ActiveUpdated(active')>> /\ active' = active /\ blind' = blind
    BY <1>6 DEF DebounceFires, Post, history
  <2> QED
    BY <1>1, <2>1, DrawnDue
<1>7. CASE AppHandles
  BY <1>7, AppDrawn
<1>8. CASE LogHandles
  <2> DEFINE posts == shown # NoBuffer
             posted == Placed(shown, Head(selected))
  <2>1. posts => posted \in AnyMessage
    BY <1>8, SeqHead DEF LogHandles, Placed, AnyMessage, WellTyped, QueuesTyped, AppTyped
  <2>2. posted.kind # "ActiveBufferUpdated"
    BY DEF Placed
  <2>3. inbox' = inbox \o Optional(posts, posted)
    BY <1>8 DEF LogHandles, Post
  <2> HIDE DEF posts, posted
  <2>4. CASE posts
    <3>1. inbox' = inbox \o <<posted>>
      BY <2>3, <2>4 DEF Optional
    <3>2. posted \in AnyMessage
      BY <2>1, <2>4
    <3>3. Only(<<posted>>, active)
      BY <2>2, <3>2, OnlyParts
    <3>4. <<posted>> \in Seq(AnyMessage)
      BY <3>2
    <3> QED
      BY <1>8, <3>1, <3>3, <3>4, DrawnQuiet DEF LogHandles, state, history
  <2>5. CASE ~posts
    <3>1. inbox' = inbox
      BY <1>1, <2>3, <2>5, ConcatEmptySeq DEF Optional
    <3> QED
      BY <1>8, <3>1, DrawnQuiet DEF LogHandles, state, history
  <2> QED
    BY <2>4, <2>5
<1>9. CASE WorkerRuns
  BY <1>9, DrawnQuiet DEF WorkerRuns, history, log
<1>10. ASSUME NEW message \in AnyMessage, message.kind # "ActiveBufferUpdated",
              Presses(message)
       PROVE  DrawnInv'
  <2>1. inbox' = inbox \o <<message>> /\ <<message>> \in Seq(AnyMessage)
    BY <1>1, <1>10, SeqParts DEF Presses
  <2>2. UNCHANGED <<active, messages, drawn, debounce, blind, link, up, shown, rows>>
    BY <1>10 DEF Presses, Act, state
  <2>3. Only(<<message>>, active)
    BY <1>10, OnlyParts
  <2> QED
    BY <2>1, <2>2, <2>3, DrawnQuiet
<1>11. CASE UserMarksLatest \/ \E b \in Buffer : UserSelects(b)
  <2>1. ToLatest \in AnyMessage /\ \A b \in Buffer : Selected(b) \in AnyMessage
    BY DEF ToLatest, Selected, AnyMessage
  <2>2. /\ ToLatest.kind # "ActiveBufferUpdated"
        /\ \A b \in Buffer : Selected(b).kind # "ActiveBufferUpdated"
    BY DEF ToLatest, Selected
  <2> QED
    BY <1>10, <1>11, <2>1, <2>2 DEF UserMarksLatest, UserSelects
<1>12. CASE \E id \in Id : UserSelectsRow(id)
  BY <1>12, DrawnQuiet DEF UserSelectsRow, Act, state
<1>13. CASE UserScrolls
  <2>1. UNCHANGED <<active, messages, debounce, blind, link, inbox, shown, rows>>
    BY <1>13 DEF UserScrolls, Act, state
  <2>2. ActiveUpdated(active)' = ActiveUpdated(active) /\ Follows(inbox, active)' = Follows(inbox, active)
    BY <2>1 DEF ActiveUpdated, Follows
  <2>3. drawn \subseteq drawn' /\ (up => AtTail(rows) \subseteq drawn')
    BY <1>13 DEF UserScrolls
  <2>4. Displayed(active) => Displayed(active)'
    BY <2>1, <2>3 DEF Displayed, LastSeen, BelowView, AtTail
  <2> QED
    BY <2>1, <2>2, <2>4 DEF DrawnInv
<1> QED
  BY <1>2, <1>3, <1>4, <1>5, <1>6, <1>7, <1>8, <1>9, <1>11, <1>12, <1>13 DEF Next

\* For any buffers and any order of frames, redraws, reconnects and the user's moves: a
\* line reported to the core as seen has been the newest one on the screen, or a redraw
\* of its buffer was scheduled or waited in the queue, or the reader had scrolled up.
THEOREM SeenIsDrawnOrDue == Spec => []SeenWasDrawnOrDue
<1>1. Init => DrawnInv
  <2>1. Init => inbox = <<>> /\ link # "open" /\ ~blind
    BY DEF Init
  <2>2. Follows(<<>>, active)
    BY DEF Follows
  <2> QED
    BY <2>1, <2>2 DEF DrawnInv
<1>2. WellTyped /\ DrawnInv /\ [Next]_vars => DrawnInv'
  <2>1. WellTyped /\ DrawnInv /\ UNCHANGED vars => DrawnInv'
    <3>1. UNCHANGED vars => UNCHANGED <<active, messages, drawn, debounce, blind, link, inbox,
                                        up, shown, rows>>
      BY DEF vars, state, history, log
    <3> QED
      BY <3>1, DrawnQuiet
  <2> QED
    BY <2>1, NextDrawn
<1>3. DrawnInv => SeenWasDrawnOrDue
  BY DEF DrawnInv, SeenWasDrawnOrDue
<1> QED
  BY <1>1, <1>2, <1>3, Typed, PTL DEF Spec

--------------------------------------------------------------------------------
(* The end of a session is told once, and handled before the next one starts.  *)

OneEnd(q) == \A i, j \in 1 .. Len(q) : q[i] = Ended /\ q[j] = Ended => i = j

\* Over a link that is up, connection_lost is not set and no SessionEnded waits.
EndedInv ==
  /\ OneEnd(inbox)
  /\ link # "down" => ~lost /\ ~Holds(inbox, Ended)
  /\ lost => ~Holds(inbox, Ended)

LEMMA OneEndConcat ==
  ASSUME NEW S, NEW q \in Seq(S), NEW r \in Seq(S)
  PROVE  /\ OneEnd(q) /\ ~Holds(r, Ended) => OneEnd(q \o r)
         /\ OneEnd(r) /\ ~Holds(q, Ended) => OneEnd(q \o r)
<1>1. /\ Len(q) \in Nat /\ Len(r) \in Nat /\ Len(q \o r) = Len(q) + Len(r)
      /\ \A i \in 1 .. Len(q \o r) :
           \/ i \in 1 .. Len(q) /\ (q \o r)[i] = q[i]
           \/ i - Len(q) \in 1 .. Len(r) /\ (q \o r)[i] = r[i - Len(q)]
  OBVIOUS
<1>2. ASSUME OneEnd(q), ~Holds(r, Ended), NEW i \in 1 .. Len(q \o r), NEW j \in 1 .. Len(q \o r),
             (q \o r)[i] = Ended, (q \o r)[j] = Ended
      PROVE  i = j
  BY <1>1, <1>2 DEF OneEnd, Holds
<1>3. ASSUME OneEnd(r), ~Holds(q, Ended), NEW i \in 1 .. Len(q \o r), NEW j \in 1 .. Len(q \o r),
             (q \o r)[i] = Ended, (q \o r)[j] = Ended
      PROVE  i = j
  <2>1. /\ i - Len(q) \in 1 .. Len(r) /\ r[i - Len(q)] = Ended
        /\ j - Len(q) \in 1 .. Len(r) /\ r[j - Len(q)] = Ended
    BY <1>1, <1>3 DEF Holds
  <2>2. i - Len(q) = j - Len(q)
    BY <1>3, <2>1 DEF OneEnd
  <2> QED
    BY <1>1, <2>2
<1> QED
  BY <1>2, <1>3 DEF OneEnd

LEMMA OneEndTail ==
  ASSUME NEW S, NEW q \in Seq(S), q # <<>>, OneEnd(q)
  PROVE  OneEnd(Tail(q)) /\ (Head(q) = Ended => ~Holds(Tail(q), Ended))
<1>1. /\ Len(q) \in Nat /\ Len(q) >= 1 /\ Len(Tail(q)) = Len(q) - 1 /\ Head(q) = q[1]
      /\ \A i \in 1 .. Len(q) - 1 : Tail(q)[i] = q[i + 1] /\ i + 1 \in 1 .. Len(q)
  OBVIOUS
<1>2. ASSUME NEW i \in 1 .. Len(q) - 1, NEW j \in 1 .. Len(q) - 1,
             Tail(q)[i] = Ended, Tail(q)[j] = Ended
      PROVE  i = j
  <2>1. i + 1 = j + 1
    BY <1>1, <1>2 DEF OneEnd
  <2> QED
    BY <2>1
<1>3. ASSUME NEW i \in 1 .. Len(q) - 1, Tail(q)[i] = Ended, Head(q) = Ended PROVE FALSE
  <2>1. i + 1 = 1
    BY <1>1, <1>3 DEF OneEnd
  <2> QED
    BY <2>1
<1> QED
  BY <1>1, <1>2, <1>3 DEF OneEnd, Holds

\* What a step posts behind q, the end of a session excepted.
Posts(q) == \E r \in Seq(AnyMessage) : ~Holds(r, Ended) /\ inbox' = q \o r

LEMMA PostsNone == ASSUME NEW q \in Seq(AnyMessage), inbox' = q PROVE Posts(q)
<1>1. inbox' = q \o <<>>
  BY ConcatEmptySeq
<1>2. <<>> \in Seq(AnyMessage) /\ ~Holds(<<>>, Ended)
  BY DEF Holds
<1> QED
  BY <1>1, <1>2 DEF Posts

LEMMA PostsOne ==
  ASSUME NEW q \in Seq(AnyMessage), NEW e \in AnyMessage, e # Ended,
         inbox' = Append(q, e) \/ inbox' = q \o <<e>>
  PROVE  Posts(q)
<1>1. inbox' = q \o <<e>> /\ <<e>> \in Seq(AnyMessage)
  BY SeqParts
<1>2. ~Holds(<<e>>, Ended)
  BY HoldsOne
<1> QED
  BY <1>1, <1>2 DEF Posts

LEMMA PostsOptional ==
  ASSUME NEW q \in Seq(AnyMessage), NEW condition \in BOOLEAN, NEW e,
         condition => e \in AnyMessage /\ e # Ended, inbox' = q \o Optional(condition, e)
  PROVE  Posts(q)
<1>1. CASE condition
  BY <1>1, PostsOne DEF Optional
<1>2. CASE ~condition
  <2>1. inbox' = q
    BY <1>2, ConcatEmptySeq DEF Optional
  <2> QED
    BY <2>1, PostsNone
<1> QED
  BY <1>1, <1>2

LEMMA EndedQuiet ==
  ASSUME WellTyped, EndedInv, lost' = lost, link' = "down" <=> link = "down",
         Posts(inbox) \/ (inbox # <<>> /\ Posts(Tail(inbox)))
  PROVE  EndedInv'
<1>1. inbox \in Seq(AnyMessage)
  BY DEF WellTyped, QueuesTyped
<1>2. CASE Posts(inbox)
  <2>1. PICK r \in Seq(AnyMessage) : ~Holds(r, Ended) /\ inbox' = inbox \o r
    BY <1>2 DEF Posts
  <2>2. OneEnd(inbox') /\ (~Holds(inbox, Ended) => ~Holds(inbox', Ended))
    BY <1>1, <2>1, OneEndConcat, HoldsConcat DEF EndedInv
  <2> QED
    BY <2>2 DEF EndedInv, OneEnd, Holds, Ended
<1>3. CASE inbox # <<>> /\ Posts(Tail(inbox))
  <2>1. PICK r \in Seq(AnyMessage) : ~Holds(r, Ended) /\ inbox' = Tail(inbox) \o r
    BY <1>3 DEF Posts
  <2>2. Tail(inbox) \in Seq(AnyMessage) /\ OneEnd(Tail(inbox))
        /\ (~Holds(inbox, Ended) => ~Holds(Tail(inbox), Ended))
    BY <1>1, <1>3, SeqHead, OneEndTail, HoldsTail DEF EndedInv
  <2>3. OneEnd(inbox') /\ (~Holds(inbox, Ended) => ~Holds(inbox', Ended))
    BY <2>1, <2>2, OneEndConcat, HoldsConcat
  <2> QED
    BY <2>3 DEF EndedInv, OneEnd, Holds, Ended
<1> QED
  BY <1>2, <1>3

LEMMA FramePosts == ASSUME WellTyped, NEW f \in AnyFrame, Frame(f) PROVE Posts(inbox)
<1>1. inbox \in Seq(AnyMessage)
  BY DEF WellTyped, QueuesTyped
<1>2. CASE inbox' = inbox
  BY <1>1, <1>2, PostsNone
<1>3. CASE f.kind = "receiveBacklog" /\ ReceiveBacklog(f)
  <2>1. f.buffer \in Buffer
    BY <1>3 DEF AnyFrame
  <2>2. ActiveUpdated(f.buffer) \in AnyMessage /\ ActiveUpdated(f.buffer) # Ended
    BY <2>1, KindsDiffer DEF ActiveUpdated, AnyMessage
  <2> QED
    BY <1>1, <1>3, <2>2, PostsOptional DEF ReceiveBacklog, Post
<1>4. CASE \E removed : Vanish(removed)
  <2>1. active' \in Buffer \cup {NoBuffer}
    BY FrameTyped
  <2>2. ActiveUpdated(active') \in AnyMessage /\ ActiveUpdated(active') # Ended
    BY <2>1, KindsDiffer DEF ActiveUpdated, AnyMessage
  <2>3. inbox' = inbox \o <<>> \/ inbox' = inbox \o <<ActiveUpdated(active')>>
    BY <1>4 DEF Vanish, Post, Optional
  <2> QED
    BY <1>1, <2>2, <2>3, PostsNone, PostsOne, ConcatEmptySeq
<1> QED
  BY <1>2, <1>3, <1>4
     DEF Frame, InitDataFrame, SetMarkerLine, DisplayMsg, RemoveBuffer, NetworkRemovedFrame

LEMMA AppEnds == ASSUME WellTyped, EndedInv, AppHandles PROVE EndedInv'
<1> DEFINE m == Head(inbox)
           q == Tail(inbox)
<1>1. m \in AnyMessage /\ q \in Seq(AnyMessage) /\ inbox # <<>> /\ inbox \in Seq(AnyMessage)
  BY SeqHead DEF AppHandles, WellTyped, QueuesTyped
<1>2. link' = link
  BY DEF AppHandles
<1>3. ASSUME lost' = lost, Posts(q) PROVE EndedInv'
  BY <1>1, <1>2, <1>3, EndedQuiet
<1>4. \A b \in Buffer \cup {NoBuffer} : ActiveUpdated(b) \in AnyMessage /\ ActiveUpdated(b) # Ended
  BY KindsDiffer DEF ActiveUpdated, AnyMessage
<1>5. CASE m.kind = "SessionEnded" /\ OnEnded
  <2>1. m = Ended
    BY <1>1, <1>5 DEF AnyMessage, Ended
  <2>2. OneEnd(q) /\ ~Holds(q, Ended) /\ inbox' = q /\ lost' = TRUE
    BY <1>1, <1>5, <2>1, OneEndTail DEF EndedInv, OnEnded
  <2>3. link = "down"
    <3>1. Holds(inbox, Ended)
      BY <1>1, <2>1 DEF Holds
    <3> QED
      BY <3>1 DEF EndedInv
  <2> QED
    BY <1>2, <2>2, <2>3 DEF EndedInv, OneEnd, Holds, Ended
<1> HIDE DEF q
<1>6. CASE m.kind = "ActiveBufferUpdated" /\ OnActiveUpdated(m)
  BY <1>1, <1>3, <1>6, PostsNone DEF OnActiveUpdated, q
<1>7. CASE m.kind = "BufferSelected" /\ OnSelected(m)
  <2>1. m.buffer \in Buffer
    BY <1>1, <1>7 DEF AnyMessage
  <2> QED
    BY <1>1, <1>3, <1>4, <1>7, <2>1, PostsOptional DEF OnSelected, q
<1>8. CASE m.kind = "ReadMarkerPlaced" /\ OnPlaced(m)
  <2>1. m.buffer \in Buffer
    BY <1>1, <1>8 DEF AnyMessage
  <2> QED
    BY <1>1, <1>3, <1>4, <1>8, <2>1, PostsOptional DEF OnPlaced, q
<1>9. CASE m.kind = "MarkerToLatestRequested" /\ OnToLatest
  <2>1. lost' = lost /\ (inbox' = q \/ inbox' = Append(q, ActiveUpdated(active)))
    BY <1>9 DEF OnToLatest, q
  <2>2. active \in Buffer \cup {NoBuffer}
    BY DEF WellTyped, AppTyped
  <2> QED
    BY <1>1, <1>3, <1>4, <2>1, <2>2, PostsNone, PostsOne
<1> QED
  BY <1>5, <1>6, <1>7, <1>8, <1>9 DEF AppHandles

LEMMA NextEnds == ASSUME WellTyped, EndedInv, [Next]_vars PROVE EndedInv'
<1>1. inbox \in Seq(AnyMessage) /\ active \in Buffer \cup {NoBuffer}
  BY DEF WellTyped, QueuesTyped, AppTyped
<1>2. ASSUME lost' = lost, link' = "down" <=> link = "down", Posts(inbox) PROVE EndedInv'
  BY <1>2, EndedQuiet
<1>3. ASSUME lost' = lost, link' = link, inbox' = inbox PROVE EndedInv'
  BY <1>1, <1>2, <1>3, PostsNone
<1>4. CASE \/ \E b \in Buffer : Store(b) \/ OtherRemoves(b)
           \/ \E b \in Buffer, id \in Id : OtherMovesLine(b, id)
           \/ \E n \in Network : OtherRemovesNetwork(n)
           \/ Serve
  BY <1>3, <1>4 DEF Store, OtherRemoves, OtherRemovesNetwork, Forget, OtherMovesLine, Serve,
     CoreOnly
<1>5. CASE WorkerRuns \/ (\E id \in Id : UserSelectsRow(id)) \/ UserScrolls \/ UNCHANGED vars
  BY <1>3, <1>5 DEF WorkerRuns, UserSelectsRow, UserScrolls, vars
<1>6. CASE Drop
  <2>1. ~lost /\ ~Holds(inbox, Ended) /\ lost' = lost /\ link' = "down"
    BY <1>6 DEF Drop, EndedInv
  <2>2. inbox' = inbox \o <<Ended>> /\ <<Ended>> \in Seq(AnyMessage)
    <3>1. Ended \in AnyMessage
      BY DEF Ended, AnyMessage
    <3> QED
      BY <1>1, <1>6, <3>1, SeqParts DEF Drop
  <2>3. OneEnd(<<Ended>>)
    BY DEF OneEnd
  <2>4. OneEnd(inbox')
    BY <1>1, <2>1, <2>2, <2>3, OneEndConcat
  <2> QED
    BY <2>1, <2>4 DEF EndedInv, OneEnd, Ended
<1>7. CASE SessionOpens
  <2>1. active' \in Buffer \cup {NoBuffer}
    BY <1>7, LinkStaysTyped DEF WellTyped, AppTyped
  <2>2. ActiveUpdated(active') \in AnyMessage /\ ActiveUpdated(active') # Ended
    BY <2>1, KindsDiffer DEF ActiveUpdated, AnyMessage
  <2>3. Posts(inbox)
    BY <1>1, <1>7, <2>2, PostsOptional DEF SessionOpens, Post
  <2> QED
    BY <1>2, <1>7, <2>3 DEF SessionOpens
<1>8. CASE HandleFrame
  <2>1. Head(toClient) \in AnyFrame
    BY <1>8, SeqHead DEF HandleFrame, WellTyped, QueuesTyped
  <2>2. Posts(inbox)
    BY <1>8, <2>1, FramePosts DEF HandleFrame
  <2> QED
    BY <1>2, <1>8, <2>2 DEF HandleFrame
<1>9. CASE DebounceFires
  <2>1. ActiveUpdated(active) \in AnyMessage /\ ActiveUpdated(active) # Ended
    BY <1>1, KindsDiffer DEF ActiveUpdated, AnyMessage
  <2>2. Posts(inbox)
    BY <1>1, <1>9, <2>1, PostsOne DEF DebounceFires, Post
  <2> QED
    BY <1>2, <1>9, <2>2 DEF DebounceFires
<1>10. CASE LogHandles
  <2>1. shown # NoBuffer => /\ Placed(shown, Head(selected)) \in AnyMessage
                            /\ Placed(shown, Head(selected)) # Ended
    BY <1>10, SeqHead, KindsDiffer
       DEF LogHandles, Placed, AnyMessage, WellTyped, QueuesTyped, AppTyped
  <2>2. Posts(inbox)
    BY <1>1, <1>10, <2>1, PostsOptional DEF LogHandles, Post
  <2> QED
    BY <1>2, <1>10, <2>2 DEF LogHandles
<1>11. CASE UserMarksLatest \/ \E b \in Buffer : UserSelects(b)
  <2>1. PICK message \in AnyMessage : message # Ended /\ Presses(message)
    <3>1. ToLatest \in AnyMessage /\ \A b \in Buffer : Selected(b) \in AnyMessage
      BY DEF ToLatest, Selected, AnyMessage
    <3> QED
      BY <1>11, <3>1, KindsDiffer DEF UserMarksLatest, UserSelects
  <2>2. Posts(inbox)
    BY <1>1, <2>1, PostsOne DEF Presses
  <2> QED
    BY <1>2, <2>1, <2>2 DEF Presses
<1>12. CASE UserReconnects
  BY <1>12 DEF UserReconnects, EndedInv, OneEnd, Holds, Ended
<1>13. CASE AppHandles
  BY <1>13, AppEnds
<1> QED
  BY <1>4, <1>5, <1>6, <1>7, <1>8, <1>9, <1>10, <1>11, <1>12, <1>13 DEF Next

--------------------------------------------------------------------------------
(* The last placement of a marker wins.                                        *)

Asks(r, b)  == r.kind = "requestSetMarkerLine" /\ r.buffer = b
Waits(q, b) == \E i \in 1 .. Len(q) : Asks(q[i], b)

\* The last request in q for b's marker asks for id.
LastIs(q, b, id) ==
  \E i \in 1 .. Len(q) : /\ Asks(q[i], b) /\ q[i].id = id
                         /\ \A j \in 1 .. Len(q) : j > i => ~Asks(q[j], b)

\* The last request underway, the workers' after those on the wire, asks for the
\* marker; with none underway the core has it.
OnItsWay(b) ==
  IF Waits(workers, b) THEN LastIs(workers, b, markers[b])
  ELSE IF Waits(toCore, b) THEN LastIs(toCore, b, markers[b])
  ELSE coreLine[b] = markers[b]

MarkerInv ==
  \A b \in own : link = "open" /\ b \notin gone /\ markers[b] # NoId /\ OnItsWay(b)

LEMMA LastAppend ==
  ASSUME NEW S, NEW q \in Seq(S), NEW r \in S, NEW b
  PROVE  /\ Asks(r, b) => Waits(Append(q, r), b) /\ LastIs(Append(q, r), b, r.id)
         /\ ~Asks(r, b) => /\ Waits(Append(q, r), b) <=> Waits(q, b)
                           /\ \A id : LastIs(q, b, id) => LastIs(Append(q, r), b, id)
<1>1. /\ Len(q) \in Nat /\ Len(Append(q, r)) = Len(q) + 1 /\ Append(q, r)[Len(q) + 1] = r
      /\ \A i \in 1 .. Len(q) : Append(q, r)[i] = q[i]
  OBVIOUS
<1> DEFINE p == Append(q, r)
<1> HIDE DEF p
<1>2. ASSUME Asks(r, b) PROVE Waits(p, b) /\ LastIs(p, b, r.id)
  <2>1. Len(q) + 1 \in 1 .. Len(p) /\ \A j \in 1 .. Len(p) : ~(j > Len(q) + 1)
    BY <1>1 DEF p
  <2> QED
    BY <1>1, <1>2, <2>1 DEF p, Waits, LastIs
<1>3. ASSUME ~Asks(r, b) PROVE Waits(p, b) <=> Waits(q, b)
  <2>1. \A i \in 1 .. Len(p) : i \in 1 .. Len(q) \/ i = Len(q) + 1
    BY <1>1 DEF p
  <2>2. \A i \in 1 .. Len(q) : i \in 1 .. Len(p)
    BY <1>1 DEF p
  <2> QED
    BY <1>1, <1>3, <2>1, <2>2 DEF p, Waits
<1>4. ASSUME ~Asks(r, b), NEW id, LastIs(q, b, id) PROVE LastIs(p, b, id)
  <2>1. PICK i \in 1 .. Len(q) : /\ Asks(q[i], b) /\ q[i].id = id
                                 /\ \A j \in 1 .. Len(q) : j > i => ~Asks(q[j], b)
    BY <1>4 DEF LastIs
  <2>2. i \in 1 .. Len(p) /\ p[i] = q[i]
    BY <1>1 DEF p
  <2>3. ASSUME NEW j \in 1 .. Len(p), j > i PROVE ~Asks(p[j], b)
    <3>1. (j \in 1 .. Len(q) /\ p[j] = q[j]) \/ p[j] = r
      BY <1>1 DEF p
    <3> QED
      BY <1>4, <2>1, <2>3, <3>1
  <2> QED
    BY <2>1, <2>2, <2>3 DEF LastIs
<1> QED
  BY <1>2, <1>3, <1>4 DEF p

LEMMA LastTail ==
  ASSUME NEW S, NEW q \in Seq(S), q # <<>>, NEW b
  PROVE  /\ Waits(Tail(q), b) => Waits(q, b)
         /\ Waits(q, b) => Asks(Head(q), b) \/ Waits(Tail(q), b)
         /\ \A id : LastIs(q, b, id) /\ Waits(Tail(q), b) => LastIs(Tail(q), b, id)
         /\ \A id : LastIs(q, b, id) /\ ~Waits(Tail(q), b) => Asks(Head(q), b) /\ Head(q).id = id
<1>1. /\ Len(q) \in Nat /\ Len(q) >= 1 /\ Len(Tail(q)) = Len(q) - 1 /\ Head(q) = q[1]
      /\ \A i \in 1 .. Len(q) - 1 : Tail(q)[i] = q[i + 1] /\ i + 1 \in 1 .. Len(q)
      /\ \A i \in 1 .. Len(q) : \/ i = 1
                                \/ /\ i - 1 \in 1 .. Len(q) - 1 /\ (i - 1) + 1 = i
                                   /\ Tail(q)[i - 1] = q[i]
  OBVIOUS
<1> DEFINE p == Tail(q)
<1> HIDE DEF p
<1>2. Waits(p, b) => Waits(q, b)
  BY <1>1 DEF p, Waits
<1>3. Waits(q, b) => Asks(Head(q), b) \/ Waits(p, b)
  <2>1. ASSUME NEW i \in 1 .. Len(q), Asks(q[i], b) PROVE Asks(Head(q), b) \/ Waits(p, b)
    <3>1. i = 1 \/ (i - 1 \in 1 .. Len(p) /\ p[i - 1] = q[i])
      BY <1>1 DEF p
    <3> QED
      BY <1>1, <2>1, <3>1 DEF Waits
  <2> QED
    BY <2>1 DEF Waits
<1>4. ASSUME NEW id, LastIs(q, b, id)
      PROVE  /\ Waits(p, b) => LastIs(p, b, id)
             /\ ~Waits(p, b) => Asks(Head(q), b) /\ Head(q).id = id
  <2>1. PICK i \in 1 .. Len(q) : /\ Asks(q[i], b) /\ q[i].id = id
                                 /\ \A j \in 1 .. Len(q) : j > i => ~Asks(q[j], b)
    BY <1>4 DEF LastIs
  <2>2. CASE i = 1
    <3>1. ~Waits(p, b)
      <4>1. ASSUME NEW k \in 1 .. Len(p), Asks(p[k], b) PROVE FALSE
        <5>1. k + 1 \in 1 .. Len(q) /\ p[k] = q[k + 1] /\ k + 1 > i
          BY <1>1, <2>2 DEF p
        <5> QED
          BY <2>1, <4>1, <5>1
      <4> QED
        BY <4>1 DEF Waits
    <3> QED
      BY <1>1, <2>1, <2>2, <3>1
  <2>3. CASE i # 1
    <3>1. i - 1 \in 1 .. Len(p) /\ p[i - 1] = q[i]
      BY <1>1, <2>3 DEF p
    <3>2. ASSUME NEW k \in 1 .. Len(p), k > i - 1 PROVE ~Asks(p[k], b)
      <4>1. k + 1 \in 1 .. Len(q) /\ p[k] = q[k + 1] /\ k + 1 > i
        BY <1>1, <3>2 DEF p
      <4> QED
        BY <2>1, <4>1
    <3>3. LastIs(p, b, id)
      BY <2>1, <3>1, <3>2 DEF LastIs
    <3>4. Waits(p, b)
      BY <2>1, <3>1 DEF Waits
    <3> QED
      BY <3>3, <3>4
  <2> QED
    BY <2>2, <2>3
<1> QED
  BY <1>2, <1>3, <1>4 DEF p

LEMMA LastNone == \A b, id : ~Waits(<<>>, b)
  BY DEF Waits

\* Requests of another kind, or for another buffer, do not matter.
LEMMA StartOther ==
  ASSUME WellTyped, NEW b, NEW r, NEW condition \in BOOLEAN,
         condition => r \in AnyRequest /\ ~Asks(r, b),
         Start(Optional(condition, r))
  PROVE  /\ Waits(workers', b) <=> Waits(workers, b)
         /\ \A id : LastIs(workers, b, id) => LastIs(workers', b, id)
<1>1. workers \in Seq(AnyRequest)
  BY DEF WellTyped, QueuesTyped
<1>2. CASE workers' = workers
  BY <1>2
<1>3. CASE condition /\ workers' = Append(workers, r)
  BY <1>1, <1>3, LastAppend
<1>4. workers' = workers \/ (condition /\ workers' = Append(workers, r))
  <2>1. CASE condition
    BY <1>1, <2>1, SeqParts DEF Start, Optional
  <2>2. CASE ~condition
    BY <1>1, <2>2, ConcatEmptySeq DEF Start, Optional
  <2> QED
    BY <2>1, <2>2
<1> QED
  BY <1>2, <1>3, <1>4

\* The core serves a request that is the last for b, or another.
LEMMA ServeMarkers == ASSUME WellTyped, MarkerInv, Serve PROVE MarkerInv'
<1> DEFINE r == Head(toCore)
<1>1. r \in AnyRequest /\ toCore # <<>> /\ toCore' = Tail(toCore) /\ toCore \in Seq(AnyRequest)
  BY SeqHead DEF Serve, WellTyped, QueuesTyped
<1>2. UNCHANGED <<link, gone, markers, own, workers>>
  BY DEF Serve, CoreOnly, state
<1>3. coreLine' = IF r.kind = "requestSetMarkerLine" /\ r.buffer \notin gone
                  THEN [coreLine EXCEPT ![r.buffer] = r.id] ELSE coreLine
  BY DEF Serve
<1>4. own \subseteq Buffer /\ coreLine \in [Buffer -> AnyId]
  BY DEF WellTyped, AppTyped, CoreTyped
<1>5. ASSUME NEW b \in own PROVE OnItsWay(b)'
  <2>1. b \notin gone /\ OnItsWay(b) /\ b \in Buffer
    BY <1>4 DEF MarkerInv
  <2>2. CASE Waits(workers, b)
    BY <1>2, <2>1, <2>2 DEF OnItsWay, Waits, LastIs, Asks
  <2>3. CASE ~Waits(workers, b) /\ Waits(Tail(toCore), b)
    <3>1. LastIs(Tail(toCore), b, markers[b])
      BY <1>1, <2>1, <2>3, LastTail DEF OnItsWay
    <3> QED
      BY <1>1, <1>2, <2>3, <3>1 DEF OnItsWay, Waits, LastIs, Asks
  <2>4. CASE ~Waits(workers, b) /\ ~Waits(Tail(toCore), b)
    <3>1. CASE Waits(toCore, b)
      <4>1. Asks(r, b) /\ r.id = markers[b]
        BY <1>1, <2>1, <2>4, <3>1, LastTail DEF OnItsWay
      <4> HIDE DEF r
      <4>2. coreLine'[b] = markers[b]
        BY <1>3, <1>4, <2>1, <4>1 DEF Asks
      <4> QED
        BY <1>1, <1>2, <2>4, <4>2 DEF OnItsWay, Waits, Asks
    <3>2. CASE ~Waits(toCore, b)
      <4>1. ~Asks(r, b)
        BY <1>1, <3>2 DEF Waits
      <4>2. coreLine[b] = markers[b]
        BY <2>1, <2>4, <3>2 DEF OnItsWay
      <4> HIDE DEF r
      <4>3. coreLine'[b] = markers[b]
        BY <1>3, <1>4, <2>1, <4>1, <4>2 DEF Asks
      <4> QED
        BY <1>1, <1>2, <2>4, <4>3 DEF OnItsWay, Waits, Asks
    <3> QED
      BY <3>1, <3>2
  <2> QED
    BY <2>2, <2>3, <2>4
<1> QED
  BY <1>2, <1>5 DEF MarkerInv

\* A worker hands the oldest request over to the wire.
LEMMA WorkerMarkers == ASSUME WellTyped, MarkerInv, WorkerRuns PROVE MarkerInv'
<1> DEFINE r == Head(workers)
<1>1. /\ r \in AnyRequest /\ workers # <<>> /\ workers' = Tail(workers)
      /\ workers \in Seq(AnyRequest) /\ toCore \in Seq(AnyRequest)
  BY SeqHead DEF WorkerRuns, WellTyped, QueuesTyped
<1>2. UNCHANGED <<link, gone, markers, own, coreLine>>
  BY DEF WorkerRuns, core, history
<1>3. toCore' = IF link = "open" /\ ~(r.kind = "requestBacklog" /\ r.buffer \in latched)
                THEN Append(toCore, r) ELSE toCore
  BY DEF WorkerRuns
<1>4. ASSUME NEW b \in own PROVE OnItsWay(b)'
  <2>1. OnItsWay(b) /\ link = "open"
    BY DEF MarkerInv
  <2>2. CASE Waits(Tail(workers), b)
    <3>1. LastIs(Tail(workers), b, markers[b])
      BY <1>1, <2>1, <2>2, LastTail DEF OnItsWay
    <3> QED
      BY <1>1, <1>2, <2>2, <3>1 DEF OnItsWay, Waits, LastIs, Asks
  <2>3. CASE ~Waits(Tail(workers), b) /\ Asks(r, b)
    <3>1. Waits(workers, b)
      BY <1>1, <2>3 DEF Waits
    <3>2. r.id = markers[b]
      BY <1>1, <2>1, <2>3, <3>1, LastTail DEF OnItsWay
    <3>3. toCore' = Append(toCore, r)
      BY <1>3, <2>1, <2>3 DEF Asks
    <3> HIDE DEF r
    <3>4. Waits(toCore', b) /\ LastIs(toCore', b, markers[b])
      BY <1>1, <2>3, <3>2, <3>3, LastAppend
    <3> QED
      BY <1>1, <1>2, <2>3, <3>4 DEF OnItsWay, Waits, LastIs, Asks
  <2>4. CASE ~Waits(Tail(workers), b) /\ ~Asks(r, b)
    <3>1. ~Waits(workers, b)
      BY <1>1, <2>4, LastTail
    <3>2. toCore' = toCore \/ toCore' = Append(toCore, r)
      BY <1>3
    <3> HIDE DEF r
    <3>3. /\ Waits(toCore', b) <=> Waits(toCore, b)
          /\ LastIs(toCore, b, markers[b]) => LastIs(toCore', b, markers[b])
      <4>1. CASE toCore' = toCore
        BY <4>1
      <4>2. CASE toCore' = Append(toCore, r)
        BY <1>1, <2>4, <4>2, LastAppend
      <4> QED
        BY <3>2, <4>1, <4>2
    <3>4. IF Waits(toCore', b) THEN LastIs(toCore', b, markers[b]) ELSE coreLine[b] = markers[b]
      BY <2>1, <3>1, <3>3 DEF OnItsWay
    <3> QED
      BY <1>1, <1>2, <2>4, <3>4 DEF OnItsWay, Waits, LastIs, Asks
  <2> QED
    BY <2>2, <2>3, <2>4
<1> QED
  BY <1>2, <1>4 DEF MarkerInv

\* Requests that do not ask for b's marker, and a marker that stays.
LEMMA OnItsWayStays ==
  ASSUME NEW b, OnItsWay(b), markers'[b] = markers[b], toCore' = toCore, coreLine'[b] = coreLine[b],
         Waits(workers', b) <=> Waits(workers, b),
         \A id : LastIs(workers, b, id) => LastIs(workers', b, id)
  PROVE  OnItsWay(b)'
<1>1. IF Waits(workers', b) THEN LastIs(workers', b, markers'[b])
      ELSE IF Waits(toCore', b) THEN LastIs(toCore', b, markers'[b])
      ELSE coreLine'[b] = markers'[b]
  BY DEF OnItsWay
<1> QED
  BY <1>1 DEF OnItsWay, Waits, LastIs, Asks

\* The user's placement becomes the last request for its buffer.
LEMMA MarkMarkers ==
  ASSUME WellTyped, EndedInv, MarkerInv, NEW b \in Buffer, NEW id \in Id, Mark(b, id),
         UNCHANGED <<link, gone, coreLine, toCore>>
  PROVE  MarkerInv'
<1>1. /\ workers \in Seq(AnyRequest) /\ markers \in [Buffer -> AnyId] /\ own \subseteq Buffer
      /\ markers' = [markers EXCEPT ![b] = id] /\ id # NoId
  BY DEF WellTyped, QueuesTyped, StateTyped, AppTyped, Mark, Id, NoId
<1>2. Line(b, id) \in AnyRequest /\ Asks(Line(b, id), b) /\ Line(b, id).id = id
      /\ \A c : c # b => ~Asks(Line(b, id), c)
  BY DEF Line, Request, AnyRequest, AnyId, Asks
<1>3. workers' = IF lost THEN workers ELSE Append(workers, Line(b, id))
  BY <1>1, <1>2, SeqParts DEF Mark, Start, MarkerRequest
<1>4. own' = IF link = "open" /\ ~lost /\ b \notin gone THEN own \cup {b} ELSE own
  BY DEF Mark
<1>5. ASSUME NEW c \in own' PROVE link' = "open" /\ c \notin gone' /\ markers'[c] # NoId /\ OnItsWay(c)'
  <2>1. CASE c = b
    <3>1. link = "open" /\ ~lost /\ b \notin gone
      BY <1>4, <1>5, <2>1 DEF MarkerInv, EndedInv
    <3>2. workers' = Append(workers, Line(b, id))
      BY <1>3, <3>1
    <3>3. Waits(workers', c) /\ LastIs(workers', c, markers'[c])
      BY <1>1, <1>2, <2>1, <3>2, LastAppend
    <3> QED
      BY <1>1, <2>1, <3>1, <3>3 DEF OnItsWay, Waits, LastIs, Asks
  <2>2. CASE c # b
    <3>1. c \in own /\ markers'[c] = markers[c]
      BY <1>1, <1>4, <1>5, <2>2
    <3>2. /\ Waits(workers', c) <=> Waits(workers, c)
          /\ \A i : LastIs(workers, c, i) => LastIs(workers', c, i)
      <4>1. CASE workers' = workers
        BY <4>1
      <4>2. CASE workers' = Append(workers, Line(b, id))
        BY <1>1, <1>2, <2>2, <4>2, LastAppend
      <4> QED
        BY <1>3, <4>1, <4>2
    <3> QED
      BY <3>1, <3>2, OnItsWayStays DEF MarkerInv
  <2> QED
    BY <2>1, <2>2
<1> QED
  BY <1>5 DEF MarkerInv

LEMMA AppMarkers == ASSUME WellTyped, EndedInv, MarkerInv, AppHandles PROVE MarkerInv'
<1> DEFINE m == Head(inbox)
<1>1. m \in AnyMessage
  BY SeqHead DEF AppHandles, WellTyped, QueuesTyped
<1>2. UNCHANGED <<link, gone, coreLine, toCore>>
  BY DEF AppHandles, core, wire
<1>3. ASSUME UNCHANGED <<markers, own>>,
             \A b : /\ Waits(workers', b) <=> Waits(workers, b)
                    /\ \A id : LastIs(workers, b, id) => LastIs(workers', b, id)
      PROVE  MarkerInv'
  <2>1. ASSUME NEW b \in own PROVE OnItsWay(b)'
    BY <1>2, <1>3, OnItsWayStays DEF MarkerInv
  <2> QED
    BY <1>2, <1>3, <2>1 DEF MarkerInv
<1>4. CASE m.kind = "ActiveBufferUpdated" /\ OnActiveUpdated(m)
  <2>1. m.buffer # NoBuffer => m.buffer \in Buffer
    BY <1>1, <1>4 DEF AnyMessage
  <2>2. m.buffer # NoBuffer => /\ Backlog(m.buffer) \in AnyRequest
                               /\ \A b : ~Asks(Backlog(m.buffer), b)
    BY <2>1 DEF Backlog, Request, AnyRequest, Asks
  <2>3. UNCHANGED <<markers, own>> /\ Start(Optional(m.buffer # NoBuffer, Backlog(m.buffer)))
    BY <1>4 DEF OnActiveUpdated
  <2> HIDE DEF m
  <2>4. ASSUME NEW b
        PROVE  /\ Waits(workers', b) <=> Waits(workers, b)
               /\ \A id : LastIs(workers, b, id) => LastIs(workers', b, id)
    BY <2>2, <2>3, StartOther
  <2> QED
    BY <1>3, <2>3, <2>4
<1>5. CASE m.kind = "BufferSelected" /\ OnSelected(m)
  <2>1. UNCHANGED <<markers, own>>
    BY <1>5 DEF OnSelected
  <2>2. CASE m.buffer # active /\ active # NoBuffer /\ messages[active] # {}
    <3>1. active \in Buffer /\ messages[active] \subseteq AnyId
      BY <2>2 DEF WellTyped, AppTyped, StateTyped, AnyId
    <3>2. LastSeen(active) \in AnyId
      BY <2>2, <3>1, NewestIsOne DEF LastSeen
    <3>3. /\ Seen(active, LastSeen(active)) \in AnyRequest
          /\ \A b : ~Asks(Seen(active, LastSeen(active)), b)
      BY <3>1, <3>2 DEF Seen, Request, AnyRequest, Asks
    <3>4. Start(Optional(TRUE, Seen(active, LastSeen(active))))
      BY <1>5, <2>2 DEF OnSelected, Optional
    <3>5. ASSUME NEW b
          PROVE  /\ Waits(workers', b) <=> Waits(workers, b)
                 /\ \A id : LastIs(workers, b, id) => LastIs(workers', b, id)
      BY <3>3, <3>4, StartOther
    <3> QED
      BY <1>3, <2>1, <3>5
  <2>3. CASE ~(m.buffer # active /\ active # NoBuffer /\ messages[active] # {})
    BY <1>3, <1>5, <2>1, <2>3 DEF OnSelected
  <2> QED
    BY <2>2, <2>3
<1>6. CASE m.kind = "ReadMarkerPlaced" /\ OnPlaced(m)
  <2>1. m.buffer \in Buffer /\ m.id \in Id
    BY <1>1, <1>6 DEF AnyMessage
  <2> QED
    BY <1>2, <1>6, <2>1, MarkMarkers DEF OnPlaced, Target
<1>7. CASE m.kind = "MarkerToLatestRequested" /\ OnToLatest
  <2>1. CASE active # NoBuffer /\ messages[active] # {}
    <3>1. active \in Buffer /\ messages[active] \subseteq Id /\ messages[active] \subseteq AnyId
      BY <2>1 DEF WellTyped, AppTyped, StateTyped, AnyId
    <3>2. Newest(messages[active]) \in Id
      BY <2>1, <3>1, NewestIsOne
    <3> QED
      BY <1>2, <1>7, <2>1, <3>1, <3>2, MarkMarkers DEF OnToLatest
  <2>2. CASE ~(active # NoBuffer /\ messages[active] # {})
    BY <1>3, <1>7, <2>2 DEF OnToLatest
  <2> QED
    BY <2>1, <2>2
<1>8. CASE m.kind = "SessionEnded" /\ OnEnded
  BY <1>3, <1>8 DEF OnEnded
<1> QED
  BY <1>4, <1>5, <1>6, <1>7, <1>8 DEF AppHandles

\* A network's removal that is underway is of buffers the core has removed.
GoneFrame == {f \in AnyFrame : f.kind = "networkRemoved" => BuffersOf(f.network) \subseteq gone}
GoneInv   == toClient \in Seq(GoneFrame)

LEMMA NextGone == ASSUME WellTyped, GoneInv, [Next]_vars PROVE GoneInv'
<1>1. gone \subseteq gone'
  <2>1. Next => gone \subseteq gone'
    BY DEF Next, Store, OtherRemoves, OtherRemovesNetwork, Forget, OtherMovesLine, Serve, Drop,
       SessionOpens, HandleFrame, DebounceFires, AppHandles, LogHandles, WorkerRuns, UserSelects,
       UserMarksLatest, Presses, Act, UserSelectsRow, UserScrolls, UserReconnects, core
  <2> QED
    BY <2>1 DEF vars, core
<1>2. GoneFrame \subseteq GoneFrame'
  BY <1>1 DEF GoneFrame
<1>3. toClient \in Seq(GoneFrame')
  BY <1>2, SeqGrows DEF GoneInv
<1>4. CASE toClient' = toClient
  BY <1>3, <1>4 DEF GoneInv
<1>5. ASSUME NEW frame \in GoneFrame', Broadcast(frame) PROVE GoneInv'
  <2>1. toClient' = toClient \/ toClient' = Append(toClient, frame)
    BY <1>5 DEF Broadcast
  <2> QED
    BY <1>3, <1>5, <2>1, SeqAppend DEF GoneInv
<1>6. ASSUME NEW b \in Buffer, Store(b) \/ OtherRemoves(b) PROVE GoneInv'
  <2>1. nextId \in Nat /\ (Store(b) => nextId \in Id)
    BY DEF Store, WellTyped, CoreTyped, Id
  <2>2. /\ Store(b) => [kind |-> "displayMsg", buffer |-> b, id |-> nextId] \in GoneFrame'
        /\ [kind |-> "removeBuffer", buffer |-> b] \in GoneFrame'
    BY <2>1 DEF GoneFrame, AnyFrame
  <2> QED
    BY <1>5, <1>6, <2>2 DEF Store, OtherRemoves
<1>7. ASSUME NEW b \in Buffer, NEW id \in Id, OtherMovesLine(b, id) PROVE GoneInv'
  <2>1. [kind |-> "setMarkerLine", buffer |-> b, id |-> id] \in GoneFrame'
    BY DEF GoneFrame, AnyFrame, AnyId
  <2> QED
    BY <1>5, <1>7, <2>1 DEF OtherMovesLine
<1>8. ASSUME NEW n \in Network, OtherRemovesNetwork(n) PROVE GoneInv'
  <2>1. BuffersOf(n) \subseteq gone'
    BY <1>8 DEF OtherRemovesNetwork, Forget
  <2>2. [kind |-> "networkRemoved", network |-> n] \in GoneFrame'
    BY <2>1 DEF GoneFrame, AnyFrame, BuffersOf
  <2> QED
    BY <1>5, <1>8, <2>2 DEF OtherRemovesNetwork
<1>9. CASE Serve
  <2> DEFINE r == Head(toCore)
  <2>1. r \in AnyRequest
    BY <1>9, SeqHead DEF Serve, WellTyped, QueuesTyped
  <2>2. KeepingFrame \subseteq GoneFrame'
    BY DEF KeepingFrame, GoneFrame
  <2>3. Reply(r) \in Seq(GoneFrame')
    BY <2>1, <2>2, ReplyTyped, SeqGrows
  <2>4. toClient' = toClient \o Reply(r)
    BY <1>9 DEF Serve
  <2> QED
    BY <1>3, <2>3, <2>4, SeqConcat DEF GoneInv
<1>10. CASE Drop
  BY <1>10 DEF Drop, GoneInv
<1>11. CASE HandleFrame
  BY <1>3, <1>11, SeqHead DEF HandleFrame, GoneInv
<1>12. CASE SessionOpens \/ DebounceFires \/ AppHandles \/ LogHandles \/ WorkerRuns
  BY <1>4, <1>12 DEF SessionOpens, DebounceFires, AppHandles, LogHandles, WorkerRuns, wire
<1>13. CASE \/ UserMarksLatest \/ UserScrolls \/ UserReconnects
            \/ \E b \in Buffer : UserSelects(b)
            \/ \E id \in Id : UserSelectsRow(id)
  BY <1>4, <1>13 DEF UserMarksLatest, UserScrolls, UserReconnects, UserSelects, UserSelectsRow,
     Presses, Act, wire
<1>14. CASE UNCHANGED vars
  BY <1>4, <1>14 DEF vars, wire
<1> QED
  BY <1>6, <1>7, <1>8, <1>9, <1>10, <1>11, <1>12, <1>13, <1>14 DEF Next

\* Every other step leaves the requests alone.
LEMMA OtherMarkers ==
  ASSUME WellTyped, MarkerInv, UNCHANGED <<toCore, workers>>, own' \subseteq own, link' = link,
         \A b \in own' : /\ b \notin gone => b \notin gone'
                         /\ markers[b] # NoId => markers'[b] = markers[b]
                         /\ coreLine'[b] = coreLine[b]
  PROVE  MarkerInv'
<1>1. ASSUME NEW b \in own' PROVE b \notin gone' /\ markers'[b] # NoId /\ link' = "open" /\ OnItsWay(b)'
  <2>1. OnItsWay(b) /\ b \notin gone /\ markers[b] # NoId /\ link = "open"
    BY <1>1 DEF MarkerInv
  <2>2. markers'[b] = markers[b] /\ coreLine'[b] = coreLine[b] /\ b \notin gone'
    BY <1>1, <2>1
  <2>3. OnItsWay(b)'
    BY <2>1, <2>2, OnItsWayStays
  <2> QED
    BY <2>1, <2>2, <2>3
<1> QED
  BY <1>1 DEF MarkerInv

LEMMA NextMarkers == ASSUME WellTyped, EndedInv, GoneInv, MarkerInv, [Next]_vars PROVE MarkerInv'
<1>1. CASE UNCHANGED vars
  BY <1>1, OtherMarkers DEF vars, core, wire, state, history
<1>2. ASSUME NEW b \in Buffer, Store(b) PROVE MarkerInv'
  BY <1>2, OtherMarkers DEF Store, CoreOnly, state
<1>3. ASSUME NEW removed \in SUBSET Buffer, Forget(removed), toCore' = toCore PROVE MarkerInv'
  <2>1. /\ own' \subseteq own /\ own \subseteq Buffer
        /\ \A b \in own' : b \notin removed /\ coreLine'[b] = coreLine[b] /\ (b \in gone' => b \in gone)
    BY <1>3 DEF Forget, WellTyped, AppTyped
  <2>2. UNCHANGED <<toCore, workers, link, markers>>
    BY <1>3 DEF Forget, CoreOnly, state
  <2> QED
    BY <2>1, <2>2, OtherMarkers
<1>12. ASSUME NEW b \in Buffer, OtherRemoves(b) PROVE MarkerInv'
  BY <1>3, <1>12 DEF OtherRemoves, Forget
<1>13. ASSUME NEW n \in Network, OtherRemovesNetwork(n) PROVE MarkerInv'
  BY <1>3, <1>13 DEF OtherRemovesNetwork, Forget, BuffersOf
<1>4. ASSUME NEW b \in Buffer, NEW id \in Id, OtherMovesLine(b, id) PROVE MarkerInv'
  BY <1>4, OtherMarkers DEF OtherMovesLine, CoreOnly, state, WellTyped, CoreTyped
<1>5. CASE Serve
  BY <1>5, ServeMarkers
<1>6. CASE Drop
  BY <1>6 DEF Drop, MarkerInv
<1>7. CASE SessionOpens \/ UserReconnects
  <2>1. own' = {}
    BY <1>7 DEF SessionOpens, UserReconnects, history, MarkerInv
  <2> QED
    BY <2>1 DEF MarkerInv
<1>8. CASE HandleFrame
  <2>1. UNCHANGED <<toCore, workers, own, link, gone, coreLine>>
    BY <1>8 DEF HandleFrame, core, history
  <2>2. ASSUME NEW b \in own, markers[b] # NoId PROVE markers'[b] = markers[b]
    <3> SUFFICES ASSUME markers'[b] # markers[b] PROVE FALSE
      OBVIOUS
    <3>1. b \in Buffer /\ b \notin gone
      BY DEF WellTyped, AppTyped, MarkerInv
    <3>2. TakenAway(b)
      BY <1>8, <2>2, <3>1, FrameKeepsMarkers
    <3>3. Head(toClient) \in GoneFrame
      BY <3>2, SeqHead DEF TakenAway, GoneInv
    <3> QED
      BY <3>1, <3>2, <3>3 DEF TakenAway, GoneFrame, BuffersOf
  <2> QED
    BY <2>1, <2>2, OtherMarkers
<1>9. CASE WorkerRuns
  BY <1>9, WorkerMarkers
<1>10. CASE AppHandles
  BY <1>10, AppMarkers
<1>11. CASE \/ DebounceFires \/ LogHandles \/ UserMarksLatest
            \/ \E b \in Buffer : UserSelects(b)
            \/ \E id \in Id : UserSelectsRow(id)
            \/ UserScrolls
  <2>1. UNCHANGED <<toCore, workers, own, link, gone, coreLine, markers>>
    BY <1>11 DEF DebounceFires, LogHandles, UserMarksLatest, UserSelects, UserSelectsRow, Presses,
       UserScrolls, Act, core, wire, state, history
  <2> QED
    BY <2>1, OtherMarkers
<1> QED
  BY <1>1, <1>2, <1>4, <1>5, <1>6, <1>7, <1>8, <1>9, <1>10, <1>11, <1>12, <1>13 DEF Next

\* For any buffers, any number of placements and any order of workers, frames and
\* reconnects: a marker the user placed over this link, and that nobody moved since,
\* is the core's as soon as no request for it is underway.
THEOREM PlacementsReachCore == Spec => []MarkersReachCore
<1>1. Init => EndedInv /\ GoneInv /\ MarkerInv
  BY DEF Init, EndedInv, OneEnd, Holds, GoneInv, MarkerInv
<1>2. WellTyped /\ EndedInv /\ GoneInv /\ MarkerInv /\ [Next]_vars
        => EndedInv' /\ GoneInv' /\ MarkerInv'
  BY NextEnds, NextGone, NextMarkers
<1>3. WellTyped /\ MarkerInv => MarkersReachCore
  <2> SUFFICES ASSUME WellTyped, MarkerInv, NEW b \in own, coreLine[b] # markers[b]
               PROVE  \E i \in 1 .. Len(Underway) :
                        Underway[i].kind = "requestSetMarkerLine" /\ Underway[i].buffer = b
    BY DEF MarkersReachCore
  <2>1. Waits(workers, b) \/ Waits(toCore, b)
    BY DEF MarkerInv, OnItsWay
  <2>2. /\ workers \in Seq(AnyRequest) /\ toCore \in Seq(AnyRequest)
    BY DEF WellTyped, QueuesTyped
  <2>3. PICK r : Asks(r, b) /\ (Holds(workers, r) \/ Holds(toCore, r))
    BY <2>1 DEF Waits, Holds
  <2>4. Holds(Underway, r)
    BY <2>2, <2>3, HoldsConcat DEF Underway
  <2> QED
    BY <2>3, <2>4 DEF Holds, Asks
<1> QED
  BY <1>1, <1>2, <1>3, Typed, PTL DEF Spec
================================================================================
