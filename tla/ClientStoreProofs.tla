--------------------------- MODULE ClientStoreProofs ---------------------------
(***************************************************************************)
(* Proofs about ClientStore for every set of buffers and networks, every   *)
(* limit and cap, and unbounded queues, messages and sessions.             *)
(***************************************************************************)
EXTENDS ClientStore, FiniteSetTheorems, SequenceTheorems, TLAPS

(* Type correctness of everything but the message lists, which what the next *)
(* two parts show holds for any lists; the lists are typed below.            *)

LEMMA NewestType == \A ids \in SUBSET Nat : Newest(ids) \in SUBSET Nat
  BY DEF Newest

LEMMA FrameTypes ==
  /\ \A b \in Buffer, id \in Nat : MessageFrame(b, id) \in Frame
  /\ \A b \in Buffer, ids \in SUBSET Nat : BacklogFrame(b, ids) \in Frame
  /\ \A b \in Buffer : RemoveFrame(b) \in Frame
  /\ \A n \in Network : NetworkFrame("networkRemoved", n) \in Frame
  /\ \A n \in Network : NetworkFrame("networkCreated", n) \in Frame
  BY DEF MessageFrame, BacklogFrame, RemoveFrame, NetworkFrame, Frame

LEMMA HeadTypes ==
  ASSUME NEW q \in Seq(Frame), q # <<>>
  PROVE  /\ Head(q) \in Frame /\ Tail(q) \in Seq(Frame)
         /\ Head(q).kind \in {"displayMsg", "receiveBacklog", "removeBuffer"}
              => Head(q).buffer \in Buffer
         /\ Head(q).kind \in {"networkRemoved", "networkCreated"}
              => Head(q).network \in Network
<1>1. Head(q) \in Frame /\ Tail(q) \in Seq(Frame)
  OBVIOUS
<1>2. QED BY <1>1 DEF Frame

LEMMA TellType ==
  ASSUME inbox \in Seq(Frame), NEW f \in Frame, Tell(f)
  PROVE  inbox' \in Seq(Frame)
  BY DEF Tell

\* The first theorem: the control state is well typed in every reachable state.
THEOREM ControlTyped == Spec => []ControlTypeOK
<1>1. Init => ControlTypeOK
  <2> SUFFICES ASSUME Init PROVE ControlTypeOK
    OBVIOUS
  <2>1. up \in BOOLEAN
    BY Zenon DEF Init
  <2>2. log \in [Buffer -> SUBSET Nat] /\ inbox \in Seq(Frame) /\ requests \in Seq(Buffer)
    BY DEF Init
  <2>3. QED BY <2>1, <2>2 DEF Init, ControlTypeOK
<1>2. ControlTypeOK /\ [Next]_vars => ControlTypeOK'
  <2> SUFFICES ASSUME ControlTypeOK, [Next]_vars PROVE ControlTypeOK'
    OBVIOUS
  <2> USE DEF ControlTypeOK
  <2>1. ASSUME NEW b \in Buffer, CoreMessage(b) PROVE ControlTypeOK'
    <3>1. MessageFrame(b, lastId + 1) \in Frame
      BY FrameTypes
    <3>2. inbox' \in Seq(Frame)
      BY <2>1, <3>1, TellType DEF CoreMessage
    <3>3. QED BY <2>1, <3>2 DEF CoreMessage, CoreOnly, session, store
  <2>2. ASSUME NEW b \in Buffer, CoreRemoveBuffer(b) PROVE ControlTypeOK'
    <3>1. inbox' \in Seq(Frame)
      BY <2>2, FrameTypes, TellType DEF CoreRemoveBuffer
    <3>2. QED BY <2>2, <3>1 DEF CoreRemoveBuffer, CoreOnly, session, store
  <2>3. ASSUME NEW n \in Network, CoreRemoveNetwork(n) PROVE ControlTypeOK'
    <3>1. inbox' \in Seq(Frame)
      BY <2>3, FrameTypes, TellType DEF CoreRemoveNetwork
    <3>2. QED BY <2>3, <3>1 DEF CoreRemoveNetwork, CoreOnly, session, store
  <2>4. ASSUME NEW n \in Network, CoreCreateNetwork(n) PROVE ControlTypeOK'
    <3>1. inbox' \in Seq(Frame)
      BY <2>4, FrameTypes, TellType DEF CoreCreateNetwork
    <3>2. QED BY <2>4, <3>1 DEF CoreCreateNetwork, CoreOnly, session, store
  <2>5. CASE CoreServe
    <3>1. Head(requests) \in Buffer /\ Tail(requests) \in Seq(Buffer)
      BY <2>5 DEF CoreServe
    <3>2. Newest(log[Head(requests)]) \in SUBSET Nat
      BY <3>1, NewestType
    <3>3. inbox' \in Seq(Frame)
      BY <2>5, <3>1, <3>2, FrameTypes, TellType DEF CoreServe
    <3>4. QED BY <2>5, <3>1, <3>3 DEF CoreServe, CoreOnly, core, session, store
  <2>6. CASE Connect
    <3>1. up' \in BOOLEAN
      BY <2>6, Zenon DEF Connect
    <3>2. QED BY <2>6, <3>1 DEF Connect, SeedLatches, core
  <2>7. CASE Disconnect
    <3>1. up' \in BOOLEAN
      BY <2>7, Zenon DEF Disconnect
    <3>2. QED BY <2>7, <3>1 DEF Disconnect, core, store
  <2>8. CASE ReceiveMessage
    <3>1. Head(inbox).buffer \in Buffer /\ Tail(inbox) \in Seq(Frame)
      BY <2>8, HeadTypes DEF ReceiveMessage, Receive
    <3>2. QED
      BY <2>8, <3>1 DEF ReceiveMessage, Receive, AnnounceNew, core, session
  <2>9. CASE ReceiveBacklog
    <3>1. Head(inbox).buffer \in Buffer /\ Tail(inbox) \in Seq(Frame)
      BY <2>9, HeadTypes DEF ReceiveBacklog, Receive
    <3>2. QED
      BY <2>9, <3>1 DEF ReceiveBacklog, Receive, BacklogTarget, core, session
  <2>10. CASE ReceiveRemove
    <3>1. Tail(inbox) \in Seq(Frame)
      BY <2>10, HeadTypes DEF ReceiveRemove, Receive
    <3>2. QED
      BY <2>10, <3>1 DEF ReceiveRemove, Receive, Drop, core, session
  <2>11. CASE ReceiveNetworkRemoved
    <3>1. Tail(inbox) \in Seq(Frame)
      BY <2>11, HeadTypes DEF ReceiveNetworkRemoved, Receive
    <3>2. QED
      BY <2>11, <3>1
      DEF ReceiveNetworkRemoved, Receive, Drop, Doomed, core, session, store
  <2>12. CASE ReceiveNetworkCreated
    <3>1. Head(inbox).network \in Network /\ Tail(inbox) \in Seq(Frame)
      BY <2>12, HeadTypes DEF ReceiveNetworkCreated, Receive
    <3>2. QED
      BY <2>12, <3>1 DEF ReceiveNetworkCreated, Receive, core, session
  <2>13. ASSUME NEW b \in Buffer, RequestBacklog(b) \/ RequestSent(b) \/ RequestFails(b)
         PROVE  ControlTypeOK'
    <3> USE DEF RequestOnly, core, session, store
    <3>1. CASE RequestBacklog(b)
      <4>1. requests' \in Seq(Buffer)
        BY <3>1 DEF RequestBacklog
      <4>2. latched' \subseteq Buffer /\ sending' \subseteq Buffer
        BY <3>1 DEF RequestBacklog, Claim
      <4>3. QED BY <3>1, <4>1, <4>2 DEF RequestBacklog
    <3>2. CASE RequestSent(b)
      BY <3>2 DEF RequestSent
    <3>3. CASE RequestFails(b)
      BY <3>3 DEF RequestFails
    <3>4. QED BY <2>13, <3>1, <3>2, <3>3
  <2>14. CASE UNCHANGED vars
    BY <2>14 DEF vars, core, session, store
  <2>15. QED
    BY <2>1, <2>2, <2>3, <2>4, <2>5, <2>6, <2>7, <2>8, <2>9, <2>10, <2>11, <2>12,
       <2>13, <2>14
    DEF Next, Core, Dispatcher, Requester
<1>3. QED BY <1>1, <1>2, PTL DEF Spec
--------------------------------------------------------------------------------
(* Consistency of the store.                                                *)

\* Whatever the core sends and however often the client reconnects, there is a
\* message list for exactly the known buffers, and the events announced exactly
\* them.  The invariant is inductive as it stands.
THEOREM StoreStaysConsistent == Spec => []StoreConsistent
<1>1. Init => StoreConsistent
  BY DEF Init, StoreConsistent
<1>2. StoreConsistent /\ [Next]_vars => StoreConsistent'
  <2> SUFFICES ASSUME StoreConsistent, [Next]_vars PROVE StoreConsistent'
    OBVIOUS
  <2> USE DEF StoreConsistent
  <2>1. CASE Core
    BY <2>1
    DEF Core, CoreMessage, CoreRemoveBuffer, CoreRemoveNetwork, CoreCreateNetwork,
        CoreServe, CoreOnly, store
  <2>2. CASE Connect  BY <2>2 DEF Connect
  <2>3. CASE Disconnect  BY <2>3 DEF Disconnect, store
  <2>4. CASE ReceiveMessage  BY <2>4 DEF ReceiveMessage, AnnounceNew
  <2>5. CASE ReceiveBacklog  BY <2>5 DEF ReceiveBacklog, BacklogTarget
  <2>6. CASE ReceiveRemove  BY <2>6 DEF ReceiveRemove, Drop
  <2>7. CASE ReceiveNetworkRemoved
    BY <2>7 DEF ReceiveNetworkRemoved, Drop, store
  <2>8. CASE ReceiveNetworkCreated  BY <2>8 DEF ReceiveNetworkCreated
  <2>9. CASE Requester
    BY <2>9 DEF Requester, RequestBacklog, RequestSent, RequestFails, RequestOnly, store
  <2>10. CASE UNCHANGED vars
    BY <2>10 DEF vars, store
  <2>11. QED
    BY <2>1, <2>2, <2>3, <2>4, <2>5, <2>6, <2>7, <2>8, <2>9, <2>10
    DEF Next, Dispatcher
<1>3. QED BY <1>1, <1>2, PTL DEF Spec

--------------------------------------------------------------------------------
(* Backlog latches.                                                         *)

\* What a buffer needs to keep its latch on a live connection.
Excused(b) == b \in answered \/ InFlight(b)

\* Sending a frame, or appending a request, keeps everything that is on its way.
LEMMA AppendKeepsInFlight ==
  ASSUME inbox \in Seq(Frame), requests \in Seq(Buffer),
         requests' = requests \/ \E r \in Buffer : requests' = Append(requests, r),
         inbox' = inbox \/ \E f \in Frame : inbox' = Append(inbox, f),
         NEW b, InFlight(b)
  PROVE  InFlight(b)'
<1>1. ASSUME NEW i \in DOMAIN requests, requests[i] = b PROVE InFlight(b)'
  <2>1. ASSUME NEW r \in Buffer, requests' = Append(requests, r)
        PROVE  i \in DOMAIN requests' /\ requests'[i] = b
    BY <1>1, <2>1
  <2>2. i \in DOMAIN requests' /\ requests'[i] = b
    BY <1>1, <2>1
  <2>3. QED BY <2>2 DEF InFlight
<1>2. ASSUME NEW i \in DOMAIN inbox, inbox[i].kind = "receiveBacklog", inbox[i].buffer = b
      PROVE  InFlight(b)'
  <2>1. i \in DOMAIN inbox' /\ inbox'[i] = inbox[i]
    BY <1>2
  <2>2. QED BY <2>1, <1>2 DEF InFlight
<1>3. QED BY <1>1, <1>2 DEF InFlight

\* Handling a frame that is not a reply to b keeps what is on its way for b.
LEMMA TailKeepsInFlight ==
  ASSUME inbox \in Seq(Frame), inbox # <<>>, inbox' = Tail(inbox), requests' = requests,
         NEW b, InFlight(b),
         Head(inbox).kind # "receiveBacklog" \/ Head(inbox).buffer # b
  PROVE  InFlight(b)'
<1>1. ASSUME NEW i \in DOMAIN inbox, inbox[i].kind = "receiveBacklog", inbox[i].buffer = b
      PROVE  InFlight(b)'
  <2>1. i # 1 /\ i \in 1..Len(inbox)
    BY <1>1
  <2>2. i - 1 \in DOMAIN inbox' /\ inbox'[i - 1] = inbox[i]
    BY <2>1
  <2>3. QED BY <2>2, <1>1 DEF InFlight
<1>2. QED BY <1>1 DEF InFlight

\* The core turns a request into its reply.
LEMMA ServeKeepsInFlight ==
  ASSUME ControlTypeOK, CoreServe, NEW b, InFlight(b)
  PROVE  InFlight(b)'
<1> DEFINE f == BacklogFrame(Head(requests), Newest(log[Head(requests)]))
<1> USE DEF ControlTypeOK
<1>1. /\ requests # <<>> /\ requests' = Tail(requests)
      /\ inbox' = Append(inbox, f)
  BY DEF CoreServe, Tell
<1>2. f.kind = "receiveBacklog" /\ f.buffer = Head(requests)
  BY DEF BacklogFrame
<1> HIDE DEF f
<1>3. ASSUME NEW i \in DOMAIN inbox, inbox[i].kind = "receiveBacklog", inbox[i].buffer = b
      PROVE  InFlight(b)'
  <2>1. i \in DOMAIN inbox' /\ inbox'[i] = inbox[i]
    BY <1>3, <1>1
  <2>2. QED BY <2>1, <1>3 DEF InFlight
<1>4. ASSUME NEW i \in DOMAIN requests, requests[i] = b PROVE InFlight(b)'
  <2>1. CASE i = 1
    <3>1. Len(inbox) + 1 \in DOMAIN inbox' /\ inbox'[Len(inbox) + 1] = f
      BY <1>1
    <3>2. f.buffer = b
      BY <2>1, <1>4, <1>2, <1>1
    <3>3. QED BY <3>1, <3>2, <1>2 DEF InFlight
  <2>2. CASE i # 1
    <3>1. i - 1 \in DOMAIN requests' /\ requests'[i - 1] = b
      BY <2>2, <1>4, <1>1
    <3>2. QED BY <3>1 DEF InFlight
  <2>3. QED BY <2>1, <2>2
<1>5. QED BY <1>3, <1>4 DEF InFlight

\* However requests, replies, removals, failures and reconnects interleave, a
\* latched buffer on a live connection has its reply or still has it to come:
\* backlog_requested never silences a buffer for the rest of a session while it
\* shows nothing.
THEOREM LatchesAreExcused == Spec => []LatchNotStranded
<1>1. Init => LatchNotStranded
  BY DEF Init, LatchNotStranded
<1>2. ControlTypeOK /\ LatchNotStranded /\ [Next]_vars => LatchNotStranded'
  <2> SUFFICES ASSUME ControlTypeOK, LatchNotStranded, [Next]_vars, up',
                      NEW b \in latched'
               PROVE  Excused(b)'
    BY DEF LatchNotStranded, Excused
  <2> USE DEF ControlTypeOK
  <2>0. b \in latched /\ up => Excused(b)
    BY DEF LatchNotStranded, Excused
  <2>1. ASSUME up' = up, latched' = latched, answered' = answered,
               InFlight(b) => InFlight(b)'
        PROVE  Excused(b)'
    BY <2>0, <2>1 DEF Excused
  <2>2. CASE Core
    <3>1. up' = up /\ latched' = latched /\ answered' = answered
      BY <2>2
      DEF Core, CoreMessage, CoreRemoveBuffer, CoreRemoveNetwork, CoreCreateNetwork,
          CoreServe, CoreOnly, session
    <3>2. CASE CoreServe
      BY <3>1, <3>2, <2>1, ServeKeepsInFlight
    <3>3. ASSUME requests' = requests, NEW f \in Frame, Tell(f) PROVE Excused(b)'
      <4>1. inbox' = inbox \/ inbox' = Append(inbox, f)
        BY <3>3 DEF Tell
      <4>2. InFlight(b) => InFlight(b)'
        BY <3>3, <4>1, AppendKeepsInFlight
      <4>3. QED BY <3>1, <4>2, <2>1
    <3>4. ASSUME NEW c \in Buffer, CoreMessage(c) PROVE Excused(b)'
      <4>1. MessageFrame(c, lastId + 1) \in Frame
        BY FrameTypes
      <4>2. QED BY <3>3, <3>4, <4>1 DEF CoreMessage
    <3>5. ASSUME NEW c \in Buffer, CoreRemoveBuffer(c) PROVE Excused(b)'
      BY <3>3, <3>5, FrameTypes DEF CoreRemoveBuffer
    <3>6. ASSUME NEW n \in Network, CoreRemoveNetwork(n) PROVE Excused(b)'
      BY <3>3, <3>6, FrameTypes DEF CoreRemoveNetwork
    <3>7. ASSUME NEW n \in Network, CoreCreateNetwork(n) PROVE Excused(b)'
      BY <3>3, <3>7, FrameTypes DEF CoreCreateNetwork
    <3>8. QED BY <2>2, <3>2, <3>4, <3>5, <3>6, <3>7 DEF Core
  <2>3. CASE Connect \/ Disconnect
    BY <2>3 DEF Connect, Disconnect, SeedLatches
  <2>4. ASSUME NEW k, Receive(k), k # "receiveBacklog", answered' = answered,
               latched' \subseteq latched
        PROVE  Excused(b)'
    <3>1. InFlight(b) => InFlight(b)'
      BY <2>4, TailKeepsInFlight DEF Receive
    <3>2. up' = up
      BY <2>4 DEF Receive, session
    <3>3. QED BY <2>0, <2>4, <3>1, <3>2 DEF Excused
  <2>5. CASE ReceiveMessage
    BY <2>4, <2>5 DEF ReceiveMessage
  <2>6. CASE ReceiveRemove
    BY <2>4, <2>6 DEF ReceiveRemove
  <2>7. CASE ReceiveNetworkRemoved
    <3>1. latched' \subseteq latched
      BY <2>7 DEF ReceiveNetworkRemoved
    <3>2. QED BY <2>4, <2>7, <3>1 DEF ReceiveNetworkRemoved
  <2>8. CASE ReceiveNetworkCreated
    BY <2>4, <2>8 DEF ReceiveNetworkCreated
  <2>9. CASE ReceiveBacklog
    <3>1. /\ inbox # <<>> /\ inbox' = Tail(inbox)
          /\ requests' = requests /\ up' = up
      BY <2>9 DEF ReceiveBacklog, Receive, session
    <3>2. CASE Head(inbox).buffer = b
      BY <2>9, <3>2 DEF ReceiveBacklog, Excused
    <3>3. CASE Head(inbox).buffer # b
      <4>1. InFlight(b) => InFlight(b)'
        BY <3>1, <3>3, TailKeepsInFlight
      <4>2. b \in latched /\ (b \in answered => b \in answered')
        BY <2>9 DEF ReceiveBacklog
      <4>3. QED BY <2>0, <3>1, <4>1, <4>2 DEF Excused
    <3>4. QED BY <3>2, <3>3
  <2>10. ASSUME NEW c \in Buffer, RequestBacklog(c) PROVE Excused(b)'
    <3>1. /\ up' = up /\ inbox' = inbox /\ answered' = answered
          /\ requests' = Append(requests, c) /\ latched' = latched \cup {c}
      BY <2>10 DEF RequestBacklog, RequestOnly, Claim, session
    <3>2. CASE b = c
      <4>1. /\ Len(requests) + 1 \in DOMAIN requests'
            /\ requests'[Len(requests) + 1] = b
        BY <3>1, <3>2
      <4>2. QED BY <4>1 DEF Excused, InFlight
    <3>3. CASE b # c
      <4>1. InFlight(b) => InFlight(b)'
        BY <3>1, AppendKeepsInFlight
      <4>2. QED BY <2>0, <3>1, <3>3, <4>1 DEF Excused
    <3>4. QED BY <3>2, <3>3
  <2>11. ASSUME NEW c \in Buffer, RequestSent(c) \/ RequestFails(c) PROVE Excused(b)'
    <3>1. /\ up' = up /\ inbox' = inbox /\ answered' = answered
          /\ requests' = requests /\ latched' \subseteq latched
      BY <2>11 DEF RequestSent, RequestFails, RequestOnly, session
    <3>2. QED BY <2>0, <3>1 DEF Excused, InFlight
  <2>12. CASE UNCHANGED vars
    BY <2>0, <2>12 DEF vars, session, Excused, InFlight
  <2>13. QED
    BY <2>2, <2>3, <2>5, <2>6, <2>7, <2>8, <2>9, <2>10, <2>11, <2>12
    DEF Next, Dispatcher, Requester
<1>3. QED BY <1>1, <1>2, ControlTyped, PTL DEF Spec

--------------------------------------------------------------------------------
(* What sorting, merging and trimming a history do, for every history.      *)

Strict(s) == \A i, j \in DOMAIN s : i < j => s[i] < s[j]

Distinct(s) == \A i, j \in DOMAIN s : s[i] = s[j] => i = j

Preceding(s, i) == {j \in DOMAIN s : Before(s, j, i)}

LEMMA PlaceRange ==
  ASSUME NEW s \in Seq(Nat), NEW i \in DOMAIN s
  PROVE  /\ Place(s, i) \in 1..Len(s)
         /\ IsFiniteSet(Preceding(s, i)) /\ Cardinality(Preceding(s, i)) \in Nat
         /\ Place(s, i) = 1 + Cardinality(Preceding(s, i))
<1> DEFINE n == Len(s)
<1>1. n \in Nat /\ DOMAIN s = 1..n /\ i \in 1..n
  OBVIOUS
<1> HIDE DEF n
<1>2. IsFiniteSet(1..n) /\ Cardinality(1..n) = n
  <2>1. 1 \in Int /\ n \in Int
    BY <1>1
  <2>2. IsFiniteSet(1..n) /\ Cardinality(1..n) = IF 1 > n THEN 0 ELSE n - 1 + 1
    BY <2>1, FS_Interval
  <2> QED BY <1>1, <2>2
<1>3. IsFiniteSet((1..n) \ {i}) /\ Cardinality((1..n) \ {i}) = n - 1
  BY <1>1, <1>2, FS_RemoveElement, Zenon
<1>4. Preceding(s, i) \in SUBSET ((1..n) \ {i})
  BY <1>1 DEF Preceding, Before
<1>5. /\ IsFiniteSet(Preceding(s, i)) /\ Cardinality(Preceding(s, i)) \in Nat
      /\ Cardinality(Preceding(s, i)) <= n - 1
  BY <1>3, <1>4, FS_Subset, FS_CardinalityType
<1>6. Place(s, i) = 1 + Cardinality(Preceding(s, i))
  BY DEF Place, Preceding
<1> USE DEF n
<1> QED BY <1>1, <1>5, <1>6

LEMMA PlaceMonotone ==
  ASSUME NEW s \in Seq(Nat), NEW i \in DOMAIN s, NEW j \in DOMAIN s, Before(s, i, j)
  PROVE  Place(s, i) < Place(s, j)
<1>1. s \in [1..Len(s) -> Nat] /\ Len(s) \in Nat /\ i \in 1..Len(s) /\ j \in 1..Len(s)
  OBVIOUS
<1>2. i \notin Preceding(s, i)
  BY <1>1 DEF Preceding, Before
<1>3. Preceding(s, i) \cup {i} \subseteq Preceding(s, j)
  <2>1. i \in Preceding(s, j)
    BY DEF Preceding
  <2>2. ASSUME NEW k \in Preceding(s, i) PROVE k \in Preceding(s, j)
    BY <1>1, <2>2 DEF Preceding, Before
  <2> QED BY <2>1, <2>2
<1>4. /\ IsFiniteSet(Preceding(s, i) \cup {i})
      /\ Cardinality(Preceding(s, i) \cup {i}) = Cardinality(Preceding(s, i)) + 1
  BY <1>2, PlaceRange, FS_AddElement
<1>5. Cardinality(Preceding(s, i) \cup {i}) <= Cardinality(Preceding(s, j))
  BY <1>3, PlaceRange, FS_Subset
<1>6. /\ Cardinality(Preceding(s, i)) \in Nat /\ Cardinality(Preceding(s, j)) \in Nat
      /\ Place(s, i) = 1 + Cardinality(Preceding(s, i))
      /\ Place(s, j) = 1 + Cardinality(Preceding(s, j))
  BY PlaceRange
<1> QED BY <1>4, <1>5, <1>6

\* Every place is taken by exactly one entry.
LEMMA PlacesFilled ==
  ASSUME NEW s \in Seq(Nat)
  PROVE  /\ \A i, j \in DOMAIN s : Place(s, i) = Place(s, j) => i = j
         /\ \A k \in DOMAIN s : \E i \in DOMAIN s : Place(s, i) = k
<1> DEFINE n == Len(s)
           P == [i \in 1..n |-> Place(s, i)]
<1>1. s \in [1..n -> Nat] /\ n \in Nat /\ DOMAIN s = 1..n
  OBVIOUS
<1>2. ASSUME NEW i \in 1..n, NEW j \in 1..n, Place(s, i) = Place(s, j) PROVE i = j
  <2>1. Before(s, i, j) \/ Before(s, j, i) \/ i = j
    BY <1>1 DEF Before
  <2>2. Place(s, i) \in Nat /\ Place(s, j) \in Nat
    BY <1>1, PlaceRange
  <2>3. ~(Place(s, i) < Place(s, j)) /\ ~(Place(s, j) < Place(s, i))
    BY <1>2, <2>2
  <2> QED BY <1>1, <2>1, <2>3, PlaceMonotone
<1>3. P \in [1..n -> 1..n]
  BY <1>1, PlaceRange
<1>4. P \in Injection(1..n, 1..n)
  BY <1>2, <1>3 DEF Injection, IsInjective
<1>5. IsFiniteSet(1..n)
  BY <1>1, FS_Interval
<1>6. P \in Surjection(1..n, 1..n)
  BY <1>4, <1>5, FS_Injection
<1> QED BY <1>1, <1>2, <1>6 DEF Surjection

LEMMA SortedFacts ==
  ASSUME NEW s \in Seq(Nat)
  PROVE  /\ Sorted(s) \in Seq(Nat) /\ Len(Sorted(s)) = Len(s)
         /\ Range(Sorted(s)) = Range(s)
         /\ Distinct(s) => Strict(Sorted(s))
<1> DEFINE n == Len(s)
           at(k) == CHOOSE i \in DOMAIN s : Place(s, i) = k
<1>1. s \in [1..n -> Nat] /\ n \in Nat /\ DOMAIN s = 1..n
  OBVIOUS
<1>2. \A k \in 1..n : at(k) \in 1..n /\ Place(s, at(k)) = k
  BY <1>1, PlacesFilled
<1>3. Sorted(s) = [k \in 1..n |-> s[at(k)]]
  BY <1>1 DEF Sorted
<1> HIDE DEF at
<1>4. Sorted(s) \in Seq(Nat) /\ Len(Sorted(s)) = n /\ DOMAIN Sorted(s) = 1..n
  BY <1>1, <1>2, <1>3
<1>5. Range(Sorted(s)) = Range(s)
  <2>1. ASSUME NEW k \in 1..n PROVE Sorted(s)[k] \in Range(s)
    BY <1>1, <1>2, <1>3 DEF Range
  <2>2. ASSUME NEW i \in 1..n PROVE s[i] \in Range(Sorted(s))
    <3>1. Place(s, i) \in 1..n
      BY <1>1, PlaceRange
    <3>2. at(Place(s, i)) = i
      BY <1>1, <1>2, <3>1, PlacesFilled
    <3>3. Sorted(s)[Place(s, i)] = s[i]
      BY <1>3, <3>1, <3>2
    <3> QED BY <1>4, <3>1, <3>3 DEF Range
  <2> QED BY <1>1, <1>4, <2>1, <2>2 DEF Range
<1>6. ASSUME Distinct(s), NEW k \in 1..n, NEW l \in 1..n, k < l
      PROVE  Sorted(s)[k] < Sorted(s)[l]
  <2>1. Place(s, at(k)) < Place(s, at(l)) /\ at(k) \in 1..n /\ at(l) \in 1..n
    BY <1>2, <1>6
  <2>2. ~Before(s, at(l), at(k))
    <3>1. ~(Place(s, at(l)) < Place(s, at(k)))
      BY <1>2, <1>6
    <3> QED BY <1>1, <2>1, <3>1, PlaceMonotone
  <2>3. at(k) # at(l)
    BY <1>2, <1>6
  <2>4. s[at(k)] # s[at(l)]
    BY <1>1, <1>6, <2>1, <2>3 DEF Distinct
  <2>5. s[at(k)] \in Nat /\ s[at(l)] \in Nat
    BY <1>1, <2>1
  <2>6. s[at(k)] < s[at(l)]
    BY <2>2, <2>4, <2>5 DEF Before
  <2> QED BY <1>3, <2>6
<1> QED BY <1>4, <1>5, <1>6 DEF Strict

LEMMA SetToSeqFacts ==
  ASSUME NEW S, IsFiniteSet(S)
  PROVE  /\ SetToSeq(S) \in Seq(S) /\ Range(SetToSeq(S)) = S /\ Distinct(SetToSeq(S))
<1> DEFINE n == Cardinality(S)
           f == SetToSeq(S)
<1>1. n \in Nat /\ ExistsBijection(1..n, S)
  BY FS_CardinalityType
<1>2. \E g \in [1..n -> S] : IsInjective(g)
  BY <1>1 DEF ExistsBijection, Bijection, Injection
<1>3. f \in [1..n -> S] /\ IsInjective(f)
  BY <1>2 DEF SetToSeq
<1>4. f \in Injection(1..n, S)
  BY <1>3 DEF Injection
<1>5. Cardinality(1..n) = n
  BY <1>1, FS_Interval
<1>6. f \in Surjection(1..n, S)
  BY <1>4, <1>5, FS_Injection
<1>7. Range(f) = S
  BY <1>3, <1>6 DEF Surjection, Range
<1>8. f \in Seq(S)
  BY <1>1, <1>3
<1> QED BY <1>3, <1>7, <1>8 DEF Distinct, IsInjective

LEMMA RangeOfConcat ==
  ASSUME NEW s \in Seq(Nat), NEW r \in Seq(Nat)
  PROVE  s \o r \in Seq(Nat) /\ Range(s \o r) = Range(s) \cup Range(r)
<1>1. /\ s \o r \in Seq(Nat) /\ Len(s \o r) = Len(s) + Len(r)
      /\ \A i \in 1..(Len(s) + Len(r)) :
           (s \o r)[i] = IF i <= Len(s) THEN s[i] ELSE r[i - Len(s)]
  BY ConcatProperties
<1>2. ASSUME NEW x \in Range(s) PROVE x \in Range(s \o r)
  <2>0. DOMAIN s = 1..Len(s)
    OBVIOUS
  <2>1. PICK i \in 1..Len(s) : s[i] = x
    BY <1>2, <2>0 DEF Range
  <2>2. i \in DOMAIN (s \o r) /\ (s \o r)[i] = x
    BY <1>1, <2>1
  <2> QED BY <2>2 DEF Range
<1>3. ASSUME NEW x \in Range(r) PROVE x \in Range(s \o r)
  <2>1. PICK i \in 1..Len(r) : r[i] = x
    BY <1>3 DEF Range
  <2>2. i + Len(s) \in DOMAIN (s \o r) /\ (s \o r)[i + Len(s)] = x
    BY <1>1, <2>1
  <2> QED BY <2>2 DEF Range
<1>4. ASSUME NEW x \in Range(s \o r) PROVE x \in Range(s) \cup Range(r)
  <2>1. PICK i \in 1..(Len(s) + Len(r)) : (s \o r)[i] = x
    BY <1>1, <1>4 DEF Range
  <2>2. CASE i <= Len(s)
    BY <1>1, <2>1, <2>2 DEF Range
  <2>3. CASE i > Len(s)
    <3>1. i - Len(s) \in 1..Len(r) /\ x = r[i - Len(s)]
      BY <1>1, <2>1, <2>3
    <3> QED BY <3>1 DEF Range
  <2> QED BY <2>1, <2>2, <2>3
<1> QED BY <1>1, <1>2, <1>3, <1>4

\* Trimming keeps the newest entries.
LEMMA TrimFacts ==
  ASSUME NEW s \in Seq(Nat)
  PROVE  /\ Trim(s) \in Seq(Nat) /\ (Cap > 0 => Len(Trim(s)) <= Cap)
         /\ Range(Trim(s)) \subseteq Range(s)
         /\ Strict(s) => /\ Strict(Trim(s))
                         /\ \A x \in Range(Trim(s)), y \in Range(s) : x < y => y \in Range(Trim(s))
<1>1. CASE ~(Cap > 0 /\ Len(s) > Cap)
  <2>1. Trim(s) = s
    BY <1>1 DEF Trim
  <2>2. Cap \in Nat /\ Len(s) \in Nat
    BY BoundsAssumption
  <2> QED BY <1>1, <2>1, <2>2
<1>2. CASE Cap > 0 /\ Len(s) > Cap
  <2> DEFINE d == Len(s) - Cap
  <2>1. Cap \in Nat /\ Len(s) \in Nat /\ d \in Nat /\ d > 0 /\ Len(s) = d + Cap
    BY <1>2, BoundsAssumption
  <2>2. Trim(s) = SubSeq(s, d + 1, Len(s))
    BY <1>2 DEF Trim
  <2>3. s \in [1..Len(s) -> Nat]
    OBVIOUS
  <2> HIDE DEF d
  <2>4. /\ Trim(s) \in Seq(Nat) /\ Len(Trim(s)) = Cap
        /\ \A i \in 1..Cap : Trim(s)[i] = s[d + i]
    BY <2>1, <2>2
  <2>5. Range(Trim(s)) \subseteq Range(s)
    <3> SUFFICES ASSUME NEW i \in 1..Cap PROVE Trim(s)[i] \in Range(s)
      BY <2>4 DEF Range
    <3>1. d + i \in 1..Len(s)
      BY <2>1
    <3> QED BY <2>3, <2>4, <3>1 DEF Range
  <2>6. ASSUME Strict(s) PROVE Strict(Trim(s))
    <3> SUFFICES ASSUME NEW i \in 1..Cap, NEW j \in 1..Cap, i < j PROVE Trim(s)[i] < Trim(s)[j]
      BY <2>4 DEF Strict
    <3>1. d + i \in 1..Len(s) /\ d + j \in 1..Len(s) /\ d + i < d + j
      BY <2>1
    <3>2. s[d + i] < s[d + j]
      BY <2>3, <2>6, <3>1 DEF Strict
    <3> QED BY <2>4, <3>2
  <2>7. ASSUME Strict(s), NEW x \in Range(Trim(s)), NEW y \in Range(s), x < y
        PROVE  y \in Range(Trim(s))
    <3>1. PICK i \in 1..Cap : x = Trim(s)[i]
      BY <2>4 DEF Range
    <3>2. PICK j \in 1..Len(s) : y = s[j]
      BY <2>3 DEF Range
    <3>3. d + i \in 1..Len(s) /\ x = s[d + i] /\ x \in Nat /\ y \in Nat
      BY <2>1, <2>3, <2>4, <3>1, <3>2
    <3>4. d + i < j
      <4>1. d + i # j
        BY <2>7, <3>2, <3>3
      <4>2. ~(j < d + i)
        BY <2>3, <2>7, <3>2, <3>3 DEF Strict
      <4> QED BY <2>1, <3>2, <4>1, <4>2
    <3>5. j - d \in 1..Cap /\ d + (j - d) = j
      BY <2>1, <3>2, <3>4
    <3>6. Trim(s)[j - d] = y
      BY <2>4, <3>2, <3>5
    <3> QED BY <2>4, <3>5, <3>6 DEF Range
  <2> QED BY <2>1, <2>4, <2>5, <2>6, <2>7
<1> QED BY <1>1, <1>2

\* What a history becomes: sorted, within the cap, made of `all` with only its
\* oldest entries missing.
NewestOf(s, all) ==
  /\ s \in Seq(Nat) /\ Strict(s) /\ (Cap > 0 => Len(s) <= Cap)
  /\ Range(s) \subseteq all
  /\ \A x \in Range(s), y \in all : x < y => y \in Range(s)

LEMMA AppendedFacts ==
  ASSUME NEW s \in Seq(Nat), Strict(s), NEW id \in Nat, \A x \in Range(s) : x < id
  PROVE  NewestOf(Trim(Append(s, id)), Range(s) \cup {id})
<1> DEFINE a == Append(s, id)
           n == Len(s)
<1>1. n \in Nat /\ s \in [1..n -> Nat]
  OBVIOUS
<1>2. a \in Seq(Nat) /\ Len(a) = n + 1 /\ a[n + 1] = id /\ \A i \in 1..n : a[i] = s[i]
  BY AppendProperties
<1> HIDE DEF a
<1>3. Strict(a)
  <2> SUFFICES ASSUME NEW i \in 1..(n + 1), NEW j \in 1..(n + 1), i < j PROVE a[i] < a[j]
    BY <1>1, <1>2 DEF Strict
  <2> HIDE DEF n
  <2>0. i \in 1..n /\ (j # n + 1 => j \in 1..n)
    BY <1>1
  <2>1. a[i] = s[i] /\ s[i] \in Range(s)
    BY <1>1, <1>2, <2>0 DEF Range
  <2>2. CASE j = n + 1
    BY <1>2, <2>1, <2>2
  <2>3. CASE j # n + 1
    BY <1>1, <1>2, <2>0, <2>1, <2>3 DEF Strict
  <2> QED BY <2>2, <2>3
<1>4. Range(a) = Range(s) \cup {id}
  <2>1. DOMAIN a = 1..(n + 1) /\ DOMAIN s = 1..n
    BY <1>1, <1>2
  <2>2. Range(a) = {a[i] : i \in 1..(n + 1)} /\ Range(s) = {s[i] : i \in 1..n}
    BY <2>1 DEF Range
  <2>3. \A x : x \in Range(a) => x \in Range(s) \cup {id}
    BY <1>1, <1>2, <2>2
  <2>4. \A x \in Range(s) : x \in Range(a)
    BY <1>1, <1>2, <2>2
  <2>5. id \in Range(a)
    BY <1>1, <1>2, <2>2
  <2> QED BY <2>3, <2>4, <2>5
<1>5. Trim(a) \in Seq(Nat)
  BY <1>2, TrimFacts
<1> QED BY <1>2, <1>3, <1>4, TrimFacts DEF NewestOf, a

LEMMA MergedFacts ==
  ASSUME NEW s \in Seq(Nat), Strict(s), NEW ids \in SUBSET Nat, IsFiniteSet(ids)
  PROVE  NewestOf(Merged(s, ids), Range(s) \cup ids)
<1> DEFINE new == ids \ Range(s)
           r == SetToSeq(new)
           a == s \o r
<1>1. r \in Seq(new) /\ Range(r) = new /\ Distinct(r)
  <2>1. IsFiniteSet(new)
    BY FS_Difference
  <2> QED BY <2>1, SetToSeqFacts
<1>2. r \in Seq(Nat)
  <2>1. new \subseteq Nat
    OBVIOUS
  <2> HIDE DEF new, r
  <2>2. PICK n \in Nat : r \in [1..n -> new]
    BY <1>1, SeqDef
  <2>3. r \in [1..n -> Nat]
    BY <2>1, <2>2
  <2> QED BY <2>3, SeqDef
<1> HIDE DEF r
<1>3. a \in Seq(Nat) /\ Range(a) = Range(s) \cup ids
  BY <1>1, <1>2, RangeOfConcat
<1>4. Distinct(a)
  <2>1. /\ Len(a) = Len(s) + Len(r)
        /\ \A i \in 1..(Len(s) + Len(r)) : a[i] = IF i <= Len(s) THEN s[i] ELSE r[i - Len(s)]
    BY <1>2, ConcatProperties
  <2> SUFFICES ASSUME NEW i \in 1..(Len(s) + Len(r)), NEW j \in 1..(Len(s) + Len(r)), i < j
               PROVE  a[i] # a[j]
    <3>1. DOMAIN a = 1..(Len(s) + Len(r))
      BY <1>3, <2>1
    <3>2. \A i, j \in DOMAIN a : i < j \/ j < i \/ i = j
      BY <3>1
    <3> HIDE DEF a
    <3> QED BY <3>1, <3>2 DEF Distinct
  <2>2. s \in [1..Len(s) -> Nat] /\ r \in [1..Len(r) -> Nat] /\ Len(s) \in Nat /\ Len(r) \in Nat
    BY <1>2
  <2>3. CASE j <= Len(s)
    <3>1. i \in 1..Len(s) /\ j \in 1..Len(s) /\ a[i] = s[i] /\ a[j] = s[j]
      BY <2>1, <2>2, <2>3
    <3>2. s[i] < s[j] /\ s[i] \in Nat /\ s[j] \in Nat
      BY <2>2, <3>1 DEF Strict
    <3> QED BY <3>1, <3>2
  <2>4. CASE i <= Len(s) /\ j > Len(s)
    <3>1. i \in 1..Len(s) /\ j - Len(s) \in 1..Len(r) /\ a[i] = s[i] /\ a[j] = r[j - Len(s)]
      BY <2>1, <2>2, <2>4
    <3>2. a[i] \in Range(s) /\ a[j] \in Range(r)
      BY <2>2, <3>1 DEF Range
    <3> QED BY <1>1, <3>2
  <2>5. CASE i > Len(s)
    <3>1. /\ i - Len(s) \in 1..Len(r) /\ j - Len(s) \in 1..Len(r) /\ i - Len(s) # j - Len(s)
          /\ a[i] = r[i - Len(s)] /\ a[j] = r[j - Len(s)]
      BY <2>1, <2>2, <2>5
    <3> QED BY <1>1, <2>2, <3>1 DEF Distinct
  <2> QED BY <2>2, <2>3, <2>4, <2>5
<1>5. /\ Sorted(a) \in Seq(Nat) /\ Strict(Sorted(a)) /\ Range(Sorted(a)) = Range(s) \cup ids
  BY <1>3, <1>4, SortedFacts
<1>6. Merged(s, ids) = Trim(Sorted(a))
  BY DEF Merged, r
<1> HIDE DEF a
<1> QED BY <1>5, <1>6, TrimFacts DEF NewestOf

--------------------------------------------------------------------------------
(* The order in which ids arrive.                                           *)

Live(f, b) == f.kind = "displayMsg" /\ f.buffer = b

\* The ids of buffer b that a frame carries.
Carries(f, b) ==
  IF Live(f, b) THEN {f.id}
  ELSE IF f.kind = "receiveBacklog" /\ f.buffer = b THEN f.ids ELSE {}

Shown(b) == Range(messages[b])

\* No id is newer than the core's last.
Bounded ==
  \A b \in Buffer :
    /\ log[b] \subseteq 1..lastId /\ Shown(b) \subseteq 1..lastId
    /\ \A i \in DOMAIN inbox : Carries(inbox[i], b) \subseteq 1..lastId

\* A live message is newer than what its buffer shows and than what the frames
\* before it bring.
LiveLast ==
  \A b \in Buffer, j \in DOMAIN inbox : Live(inbox[j], b) =>
    /\ \A x \in Shown(b) : x < inbox[j].id
    /\ \A i \in DOMAIN inbox : i < j => \A x \in Carries(inbox[i], b) : x < inbox[j].id

OrderInv == Bounded /\ LiveLast

HistoryInv == TypeOK /\ HistorySorted /\ OrderInv

LEMMA CarriesTyped ==
  ASSUME NEW f \in Frame, NEW b \in Buffer
  PROVE  Carries(f, b) \subseteq Nat /\ (Live(f, b) => f.id \in Nat)
  BY DEF Frame, Carries, Live

LEMMA TellOrder ==
  ASSUME ControlTypeOK, OrderInv, NEW f \in Frame, Tell(f), UNCHANGED messages,
         lastId' \in Nat, lastId <= lastId',
         \A b \in Buffer : log'[b] \subseteq 1..lastId' /\ Carries(f, b) \subseteq 1..lastId',
         \A b \in Buffer : Live(f, b) => lastId < f.id
  PROVE  OrderInv'
<1>1. lastId \in Nat /\ inbox \in Seq(Frame)
  BY DEF ControlTypeOK
<1>2. 1..lastId \subseteq 1..lastId'
  BY <1>1
<1>3. \A b \in Buffer : Shown(b)' = Shown(b)
  BY DEF Shown
<1>4. CASE inbox' = inbox
  <2>1. Bounded'
    BY <1>2, <1>3, <1>4 DEF OrderInv, Bounded, Carries, Live
  <2>2. LiveLast'
    BY <1>3, <1>4 DEF OrderInv, LiveLast, Carries, Live
  <2> QED BY <2>1, <2>2 DEF OrderInv
<1>5. CASE inbox' = Append(inbox, f)
  <2> DEFINE n == Len(inbox)
  <2>1. /\ DOMAIN inbox = 1..n /\ DOMAIN inbox' = 1..(n + 1) /\ n \in Nat
        /\ inbox'[n + 1] = f /\ \A i \in 1..n : inbox'[i] = inbox[i]
    BY <1>1, <1>5, AppendProperties
  <2> HIDE DEF n
  <2>2. Bounded'
    <3> SUFFICES ASSUME NEW b \in Buffer
                 PROVE  /\ log'[b] \subseteq 1..lastId' /\ Shown(b)' \subseteq 1..lastId'
                        /\ \A i \in DOMAIN inbox' : Carries(inbox'[i], b) \subseteq 1..lastId'
      BY DEF Bounded, Carries, Live
    <3>1. ASSUME NEW i \in 1..(n + 1) PROVE Carries(inbox'[i], b) \subseteq 1..lastId'
      <4>1. CASE i = n + 1
        BY <2>1, <4>1
      <4>2. CASE i # n + 1
        <5>1. i \in 1..n
          BY <2>1, <4>2
        <5> QED BY <1>2, <2>1, <5>1 DEF OrderInv, Bounded
      <4> QED BY <4>1, <4>2
    <3> QED BY <1>2, <1>3, <2>1, <3>1 DEF OrderInv, Bounded
  <2>3. LiveLast'
    <3> SUFFICES ASSUME NEW b \in Buffer, NEW j \in DOMAIN inbox', Live(inbox'[j], b)
                 PROVE  /\ \A x \in Shown(b)' : x < inbox'[j].id
                        /\ \A i \in DOMAIN inbox' : i < j =>
                             \A x \in Carries(inbox'[i], b) : x < inbox'[j].id
      BY DEF LiveLast, Carries, Live
    <3>1. CASE j = n + 1
      <4>1. \A x \in 1..lastId : x < inbox'[j].id
        <5>1. inbox'[j] = f /\ f.id \in Nat /\ lastId < f.id
          BY <2>1, <3>1, CarriesTyped
        <5> QED BY <1>1, <5>1
      <4>2. \A i \in DOMAIN inbox' : i < j => i \in 1..n /\ inbox'[i] = inbox[i]
        BY <2>1, <3>1
      <4>3. \A i \in 1..n : Carries(inbox[i], b) \subseteq 1..lastId
        BY <2>1 DEF OrderInv, Bounded
      <4>4. Shown(b)' \subseteq 1..lastId
        BY <1>3 DEF OrderInv, Bounded
      <4> QED BY <4>1, <4>2, <4>3, <4>4
    <3>2. CASE j # n + 1
      <4>1. j \in 1..n /\ inbox'[j] = inbox[j] /\ \A i \in DOMAIN inbox' : i < j => i \in 1..n /\ inbox'[i] = inbox[i]
        BY <2>1, <3>2
      <4> QED BY <1>3, <2>1, <4>1 DEF OrderInv, LiveLast
    <3> QED BY <3>1, <3>2
  <2> QED BY <2>2, <2>3 DEF OrderInv
<1> QED BY <1>4, <1>5 DEF Tell

\* Taking a frame and showing no more than it brings keeps the order.
LEMMA TailOrder ==
  ASSUME ControlTypeOK, OrderInv, inbox # <<>>, inbox' = Tail(inbox), UNCHANGED <<log, lastId>>,
         \A b \in Buffer : Shown(b)' \subseteq Shown(b) \cup Carries(Head(inbox), b)
  PROVE  OrderInv'
<1> DEFINE n == Len(inbox)
<1>1. /\ n \in Nat /\ n > 0 /\ DOMAIN inbox = 1..n /\ Head(inbox) = inbox[1]
      /\ DOMAIN inbox' = 1..(n - 1) /\ \A i \in 1..(n - 1) : inbox'[i] = inbox[i + 1]
  BY HeadTailProperties DEF ControlTypeOK
<1> HIDE DEF n
<1>2. \A i \in 1..(n - 1) : i + 1 \in 1..n /\ 1 \in 1..n /\ 1 < i + 1
  BY <1>1
<1>3. Bounded'
  <2> SUFFICES ASSUME NEW b \in Buffer
               PROVE  /\ log[b] \subseteq 1..lastId /\ Shown(b)' \subseteq 1..lastId
                      /\ \A i \in 1..(n - 1) : Carries(inbox[i + 1], b) \subseteq 1..lastId
    BY <1>1 DEF Bounded, Carries, Live
  <2>1. 1 \in 1..n
    BY <1>1
  <2> QED BY <1>1, <1>2, <2>1 DEF OrderInv, Bounded
<1>4. LiveLast'
  <2> SUFFICES ASSUME NEW b \in Buffer, NEW j \in 1..(n - 1), Live(inbox[j + 1], b)
               PROVE  /\ \A x \in Shown(b)' : x < inbox[j + 1].id
                      /\ \A i \in 1..(n - 1) : i < j =>
                           \A x \in Carries(inbox[i + 1], b) : x < inbox[j + 1].id
    BY <1>1 DEF LiveLast, Carries, Live
  <2>1. /\ \A x \in Shown(b) : x < inbox[j + 1].id
        /\ \A i \in 1..n : i < j + 1 => \A x \in Carries(inbox[i], b) : x < inbox[j + 1].id
    BY <1>1, <1>2 DEF OrderInv, LiveLast
  <2>2. \A x \in Carries(Head(inbox), b) : x < inbox[j + 1].id
    BY <1>1, <1>2, <2>1
  <2>3. \A i \in 1..(n - 1) : i < j => i + 1 \in 1..n /\ i + 1 < j + 1
    BY <1>1
  <2> QED BY <2>1, <2>2, <2>3
<1> QED BY <1>3, <1>4 DEF OrderInv

LEMMA HistoryInit == Init => HistoryInv
<1> SUFFICES ASSUME Init PROVE HistoryInv
  OBVIOUS
<1>1. up \in BOOLEAN
  BY Zenon DEF Init
<1>2. messages \in [Buffer -> Seq(Nat)] /\ \A b \in Buffer : messages[b] = <<>>
  BY DEF Init
<1>3. TypeOK
  BY <1>1, <1>2 DEF Init, TypeOK, ControlTypeOK
<1>4. HistorySorted
  <2>1. Cap \in Nat /\ Len(<<>>) = 0
    BY BoundsAssumption
  <2> QED BY <1>2, <2>1 DEF HistorySorted
<1>5. Bounded /\ LiveLast
  BY <1>2 DEF Init, Bounded, LiveLast, Shown, Range
<1> QED BY <1>3, <1>4, <1>5 DEF HistoryInv, OrderInv

\* One history is replaced by the newest part of what there is.
LEMMA HistoryReplaced ==
  ASSUME messages \in [Buffer -> Seq(Nat)], HistorySorted,
         NEW b \in Buffer, NEW s, NEW all, NewestOf(s, all), messages' = [messages EXCEPT ![b] = s]
  PROVE  /\ messages' \in [Buffer -> Seq(Nat)] /\ HistorySorted'
         /\ Range(messages'[b]) \subseteq all
         /\ \A c \in Buffer : c # b => messages'[c] = messages[c]
<1>1. messages'[b] = s /\ \A c \in Buffer : c # b => messages'[c] = messages[c]
  OBVIOUS
<1>2. messages' \in [Buffer -> Seq(Nat)]
  BY DEF NewestOf
<1>3. HistorySorted'
  BY <1>1 DEF HistorySorted, NewestOf, Strict
<1> QED BY <1>1, <1>2, <1>3 DEF NewestOf

LEMMA HeadOfInbox ==
  ASSUME ControlTypeOK, NEW kind, Receive(kind)
  PROVE  /\ Head(inbox) \in Frame /\ Head(inbox).kind = kind /\ inbox # <<>>
         /\ Head(inbox) = inbox[1] /\ 1 \in DOMAIN inbox /\ inbox' = Tail(inbox)
         /\ UNCHANGED <<log, lastId, coreNetworks, coreBuffers, up, sessions>>
<1>1. inbox \in Seq(Frame) /\ inbox # <<>>
  BY DEF ControlTypeOK, Receive
<1> QED BY <1>1, HeadTailProperties DEF Receive, core, session

\* A live message is newer than everything shown, so appending it keeps the order.
LEMMA MessageHistory ==
  ASSUME HistoryInv, ReceiveMessage
  PROVE  /\ messages' \in [Buffer -> Seq(Nat)] /\ HistorySorted' /\ OrderInv'
         /\ LET b == Head(inbox).buffer IN
              /\ b \in Buffer
              /\ NewestOf(messages'[b], Shown(b) \cup Carries(Head(inbox), b))
              /\ \A c \in Buffer : c # b => messages'[c] = messages[c]
<1> DEFINE b == Head(inbox).buffer
           id == Head(inbox).id
<1>1. ControlTypeOK /\ messages \in [Buffer -> Seq(Nat)] /\ HistorySorted /\ OrderInv
  BY DEF HistoryInv, TypeOK
<1>2. /\ Head(inbox) \in Frame /\ Head(inbox).kind = "displayMsg" /\ inbox # <<>>
      /\ Head(inbox) = inbox[1] /\ 1 \in DOMAIN inbox /\ inbox' = Tail(inbox)
      /\ UNCHANGED <<log, lastId>>
  BY <1>1, HeadOfInbox DEF ReceiveMessage
<1>3. b \in Buffer /\ id \in Nat /\ Live(inbox[1], b) /\ Carries(Head(inbox), b) = {id}
  BY <1>2 DEF Frame, Live, Carries
<1>4. \A x \in Shown(b) : x < id
  BY <1>1, <1>2, <1>3 DEF OrderInv, LiveLast
<1>5. messages' = [messages EXCEPT ![b] = Trim(Append(messages[b], id))]
  BY DEF ReceiveMessage, Appended
<1>6. messages[b] \in Seq(Nat) /\ Strict(messages[b])
  BY <1>1, <1>3 DEF HistorySorted, Strict
<1>7. NewestOf(Trim(Append(messages[b], id)), Shown(b) \cup {id})
  BY <1>3, <1>4, <1>6, AppendedFacts DEF Shown
<1> HIDE DEF b, id
<1>8. /\ messages' \in [Buffer -> Seq(Nat)] /\ HistorySorted'
      /\ Range(messages'[b]) \subseteq Shown(b) \cup {id}
      /\ \A c \in Buffer : c # b => messages'[c] = messages[c]
  BY <1>1, <1>3, <1>5, <1>7, HistoryReplaced
<1>9. \A c \in Buffer : Shown(c)' \subseteq Shown(c) \cup Carries(Head(inbox), c)
  BY <1>3, <1>8 DEF Shown
<1>10. OrderInv'
  BY <1>1, <1>2, <1>9, TailOrder
<1>11. messages'[b] = Trim(Append(messages[b], id)) /\ \A c \in Buffer : c # b => messages'[c] = messages[c]
  BY <1>1, <1>3, <1>5
<1> QED BY <1>3, <1>7, <1>8, <1>10, <1>11 DEF b

\* A reply is merged into what is shown.
LEMMA BacklogHistory ==
  ASSUME HistoryInv, ReceiveBacklog
  PROVE  /\ messages' \in [Buffer -> Seq(Nat)] /\ HistorySorted' /\ OrderInv'
         /\ LET b == Head(inbox).buffer IN
              /\ b \in Buffer
              /\ IF b \in buffers
                 THEN NewestOf(messages'[b], Shown(b) \cup Carries(Head(inbox), b))
                 ELSE messages'[b] = messages[b]
              /\ \A c \in Buffer : c # b => messages'[c] = messages[c]
<1> DEFINE b == Head(inbox).buffer
           ids == Head(inbox).ids
<1>1. ControlTypeOK /\ messages \in [Buffer -> Seq(Nat)] /\ HistorySorted /\ OrderInv
  BY DEF HistoryInv, TypeOK
<1>2. /\ Head(inbox) \in Frame /\ Head(inbox).kind = "receiveBacklog" /\ inbox # <<>>
      /\ Head(inbox) = inbox[1] /\ 1 \in DOMAIN inbox /\ inbox' = Tail(inbox)
      /\ UNCHANGED <<log, lastId>>
  BY <1>1, HeadOfInbox DEF ReceiveBacklog
<1>3. b \in Buffer /\ ids \in SUBSET Nat /\ Carries(Head(inbox), b) = ids
  BY <1>2 DEF Frame, Live, Carries
<1>4. CASE b \in buffers
  <2>1. messages' = [messages EXCEPT ![b] = Merged(messages[b], ids)]
    BY <1>4 DEF ReceiveBacklog, BacklogTarget
  <2>2. IsFiniteSet(ids)
    <3>1. ids \subseteq 1..lastId /\ lastId \in Nat
      BY <1>1, <1>2, <1>3 DEF OrderInv, Bounded, ControlTypeOK
    <3>2. IsFiniteSet(1..lastId)
      BY <3>1, FS_Interval
    <3> QED BY <3>1, <3>2, FS_Subset
  <2>3. messages[b] \in Seq(Nat) /\ Strict(messages[b])
    BY <1>1, <1>3 DEF HistorySorted, Strict
  <2>4. NewestOf(Merged(messages[b], ids), Shown(b) \cup ids)
    BY <1>3, <2>2, <2>3, MergedFacts DEF Shown
  <2> HIDE DEF b, ids
  <2>5. /\ messages' \in [Buffer -> Seq(Nat)] /\ HistorySorted'
        /\ Range(messages'[b]) \subseteq Shown(b) \cup ids
        /\ \A c \in Buffer : c # b => messages'[c] = messages[c]
    BY <1>1, <1>3, <2>1, <2>4, HistoryReplaced
  <2>6. \A c \in Buffer : Shown(c)' \subseteq Shown(c) \cup Carries(Head(inbox), c)
    BY <1>3, <2>5 DEF Shown
  <2>7. OrderInv'
    BY <1>1, <1>2, <2>6, TailOrder
  <2>8. messages'[b] = Merged(messages[b], ids) /\ \A c \in Buffer : c # b => messages'[c] = messages[c]
    BY <1>1, <1>3, <2>1
  <2> QED BY <1>3, <1>4, <2>4, <2>5, <2>7, <2>8 DEF b
<1>5. CASE b \notin buffers
  <2>1. messages' = messages
    BY <1>5 DEF ReceiveBacklog, BacklogTarget
  <2>2. HistorySorted' /\ messages' \in [Buffer -> Seq(Nat)]
    BY <1>1, <2>1 DEF HistorySorted
  <2>3. \A c \in Buffer : Shown(c)' \subseteq Shown(c) \cup Carries(Head(inbox), c)
    BY <2>1 DEF Shown
  <2>4. OrderInv'
    BY <1>1, <1>2, <2>3, TailOrder
  <2> QED BY <1>3, <1>5, <2>1, <2>2, <2>4
<1> QED BY <1>4, <1>5

\* Removals empty histories and never touch another.
LEMMA RemovalHistory ==
  ASSUME HistoryInv, ReceiveRemove \/ ReceiveNetworkRemoved \/ ReceiveNetworkCreated
  PROVE  /\ messages' \in [Buffer -> Seq(Nat)] /\ HistorySorted' /\ OrderInv'
         /\ \A b \in Buffer : messages'[b] = messages[b] \/ messages'[b] = <<>>
<1>1. ControlTypeOK /\ messages \in [Buffer -> Seq(Nat)] /\ HistorySorted /\ OrderInv
  BY DEF HistoryInv, TypeOK
<1>2. messages' \in [Buffer -> Seq(Nat)] /\ \A b \in Buffer : messages'[b] = messages[b] \/ messages'[b] = <<>>
  <2>1. ASSUME NEW gone, Drop(gone)
        PROVE  /\ messages' \in [Buffer -> Seq(Nat)]
               /\ \A b \in Buffer : messages'[b] = messages[b] \/ messages'[b] = <<>>
    BY <1>1, <2>1 DEF Drop
  <2>2. (\E gone : Drop(gone)) \/ messages' = messages
    BY DEF ReceiveRemove, ReceiveNetworkRemoved, ReceiveNetworkCreated, store
  <2> QED BY <1>1, <2>1, <2>2
<1>3. HistorySorted'
  <2>1. Cap \in Nat /\ Len(<<>>) = 0
    BY BoundsAssumption
  <2> QED BY <1>1, <1>2, <2>1 DEF HistorySorted
<1>4. inbox # <<>> /\ inbox' = Tail(inbox) /\ UNCHANGED <<log, lastId>>
  BY <1>1, HeadOfInbox DEF ReceiveRemove, ReceiveNetworkRemoved, ReceiveNetworkCreated
<1>5. \A b \in Buffer : Shown(b)' \subseteq Shown(b) \cup Carries(Head(inbox), b)
  BY <1>2 DEF Shown, Range
<1>6. OrderInv'
  BY <1>1, <1>4, <1>5, TailOrder
<1> QED BY <1>2, <1>3, <1>6

LEMMA CoreHistory ==
  ASSUME HistoryInv, Core
  PROVE  UNCHANGED messages /\ HistorySorted' /\ OrderInv'
<1>1. ControlTypeOK /\ HistorySorted /\ OrderInv /\ lastId \in Nat
  BY DEF HistoryInv, TypeOK, ControlTypeOK
<1>2. UNCHANGED messages
  BY DEF Core, CoreMessage, CoreRemoveBuffer, CoreRemoveNetwork, CoreCreateNetwork, CoreServe,
         CoreOnly, store
<1>3. HistorySorted'
  BY <1>1, <1>2 DEF HistorySorted
<1>4. log \in [Buffer -> SUBSET Nat] /\ \A b \in Buffer : log[b] \subseteq 1..lastId
  BY <1>1 DEF OrderInv, Bounded, ControlTypeOK
<1>5. ASSUME NEW c \in Buffer, CoreMessage(c) PROVE OrderInv'
  <2> DEFINE f == MessageFrame(c, lastId + 1)
  <2>1. f \in Frame /\ Tell(f) /\ lastId' = lastId + 1
    BY <1>1, <1>5, FrameTypes DEF CoreMessage
  <2>2. \A b \in Buffer : Carries(f, b) \subseteq {lastId + 1} /\ (Live(f, b) => f.id = lastId + 1)
    BY DEF MessageFrame, Carries, Live
  <2>3. \A b \in Buffer : log'[b] \subseteq log[b] \cup {lastId + 1}
    BY <1>4, <1>5 DEF CoreMessage
  <2>4. 1..lastId \subseteq 1..lastId' /\ lastId + 1 \in 1..lastId' /\ lastId' \in Nat /\ lastId <= lastId'
    BY <1>1, <2>1
  <2>5. \A b \in Buffer : log'[b] \subseteq 1..lastId' /\ Carries(f, b) \subseteq 1..lastId'
    BY <1>4, <2>2, <2>3, <2>4
  <2>6. \A b \in Buffer : Live(f, b) => lastId < f.id
    BY <1>1, <2>2
  <2> HIDE DEF f
  <2> QED BY <1>1, <1>2, <2>1, <2>4, <2>5, <2>6, TellOrder
<1>6. ASSUME NEW f \in Frame, Tell(f), UNCHANGED lastId,
             \A b \in Buffer : log'[b] \subseteq log[b],
             \A b \in Buffer : Carries(f, b) \subseteq 1..lastId /\ ~Live(f, b)
      PROVE  OrderInv'
  <2>1. lastId <= lastId' /\ lastId' \in Nat
    BY <1>1, <1>6
  <2>2. \A b \in Buffer : log'[b] \subseteq 1..lastId' /\ Carries(f, b) \subseteq 1..lastId'
    BY <1>4, <1>6
  <2> QED BY <1>1, <1>2, <1>6, <2>1, <2>2, TellOrder
<1>7. ASSUME NEW b \in Buffer, CoreRemoveBuffer(b) PROVE OrderInv'
  <2>1. RemoveFrame(b) \in Frame /\ Tell(RemoveFrame(b)) /\ UNCHANGED lastId
    BY <1>7, FrameTypes DEF CoreRemoveBuffer
  <2>2. \A c \in Buffer : log'[c] \subseteq log[c]
    BY <1>4, <1>7 DEF CoreRemoveBuffer
  <2>3. \A c \in Buffer : Carries(RemoveFrame(b), c) = {} /\ ~Live(RemoveFrame(b), c)
    BY DEF RemoveFrame, Carries, Live
  <2> QED BY <1>6, <2>1, <2>2, <2>3
<1>8. ASSUME NEW n \in Network, CoreRemoveNetwork(n) \/ CoreCreateNetwork(n) PROVE OrderInv'
  <2>1. PICK k \in {"networkRemoved", "networkCreated"} : Tell(NetworkFrame(k, n))
    BY <1>8 DEF CoreRemoveNetwork, CoreCreateNetwork
  <2>2. NetworkFrame(k, n) \in Frame /\ UNCHANGED lastId
    BY <1>8, FrameTypes DEF CoreRemoveNetwork, CoreCreateNetwork
  <2>3. \A c \in Buffer : log'[c] \subseteq log[c]
    BY <1>4, <1>8 DEF CoreRemoveNetwork, CoreCreateNetwork
  <2>4. \A c \in Buffer : Carries(NetworkFrame(k, n), c) = {} /\ ~Live(NetworkFrame(k, n), c)
    BY DEF NetworkFrame, Carries, Live
  <2> QED BY <1>6, <2>1, <2>2, <2>3, <2>4
<1>9. CASE CoreServe
  <2> DEFINE r == Head(requests)
             f == BacklogFrame(r, Newest(log[r]))
  <2>1. r \in Buffer
    BY <1>1, <1>9 DEF CoreServe, ControlTypeOK
  <2>2. f \in Frame /\ Tell(f) /\ UNCHANGED <<lastId, log>>
    BY <1>4, <1>9, <2>1, FrameTypes, NewestType DEF CoreServe, core
  <2>3. Newest(log[r]) \subseteq log[r]
    BY DEF Newest
  <2>4. \A c \in Buffer : Carries(f, c) \subseteq log[r] /\ ~Live(f, c)
    BY <2>3 DEF BacklogFrame, Carries, Live
  <2> HIDE DEF f
  <2>5. \A c \in Buffer : Carries(f, c) \subseteq 1..lastId /\ log'[c] \subseteq log[c]
    BY <1>4, <2>1, <2>2, <2>4
  <2>6. OrderInv'
    BY <1>6, <2>2, <2>4, <2>5
  <2> QED BY <1>2, <1>3, <2>6
<1> QED BY <1>2, <1>3, <1>5, <1>7, <1>8, <1>9 DEF Core

LEMMA HistoryNext ==
  ASSUME HistoryInv, ControlTypeOK', [Next]_vars
  PROVE  HistoryInv'
<1>1. ControlTypeOK /\ messages \in [Buffer -> Seq(Nat)] /\ HistorySorted /\ OrderInv
  BY DEF HistoryInv, TypeOK
<1>2. CASE Core
  <2>1. UNCHANGED messages /\ HistorySorted' /\ OrderInv'
    BY <1>2, CoreHistory
  <2> QED BY <1>1, <2>1 DEF HistoryInv, TypeOK
<1>3. CASE ReceiveMessage
  BY <1>3, MessageHistory DEF HistoryInv, TypeOK
<1>4. CASE ReceiveBacklog
  BY <1>4, BacklogHistory DEF HistoryInv, TypeOK
<1>5. CASE ReceiveRemove \/ ReceiveNetworkRemoved \/ ReceiveNetworkCreated
  BY <1>5, RemovalHistory DEF HistoryInv, TypeOK
<1>6. CASE Disconnect
  <2>1. inbox' = <<>> /\ UNCHANGED <<messages, log, lastId>>
    BY <1>6 DEF Disconnect, core, store
  <2>2. HistorySorted'
    BY <1>1, <2>1 DEF HistorySorted
  <2>3. Bounded' /\ LiveLast'
    BY <1>1, <2>1 DEF OrderInv, Bounded, LiveLast, Shown
  <2> QED BY <1>1, <2>1, <2>2, <2>3 DEF HistoryInv, TypeOK, OrderInv
<1>7. CASE UNCHANGED <<inbox, messages, log, lastId>>
  <2>1. HistorySorted'
    BY <1>1, <1>7 DEF HistorySorted
  <2>2. Bounded' /\ LiveLast'
    BY <1>1, <1>7 DEF OrderInv, Bounded, LiveLast, Shown, Carries, Live
  <2> QED BY <1>1, <1>7, <2>1, <2>2 DEF HistoryInv, TypeOK, OrderInv
<1>8. CASE Connect \/ Requester \/ UNCHANGED vars
  <2>1. UNCHANGED <<inbox, messages, log, lastId>>
    BY <1>8
    DEF Connect, Requester, RequestBacklog, RequestSent, RequestFails, RequestOnly, vars, core, store
  <2> QED BY <1>7, <2>1
<1> QED BY <1>2, <1>3, <1>4, <1>5, <1>6, <1>8 DEF Next, Dispatcher

LEMMA HistoryCorrect == Spec => []HistoryInv
<1>1. HistoryInv /\ ControlTypeOK' /\ [Next]_vars => HistoryInv'
  BY HistoryNext
<1> QED BY HistoryInit, <1>1, ControlTyped, PTL DEF Spec

\* Every variable, the histories too, is well typed in every reachable state.
THEOREM Typed == Spec => []TypeOK
<1>1. HistoryInv => TypeOK
  BY DEF HistoryInv
<1> QED BY HistoryCorrect, <1>1, PTL

\* Every history stays sorted, without duplicates and within the cap, for any
\* traffic, limit and cap and across any number of sessions: live messages are
\* appended unchecked, but each is newer than all that is shown or ahead of it.
THEOREM HistoriesSorted == Spec => []HistorySorted
<1>1. HistoryInv => HistorySorted
  BY DEF HistoryInv
<1> QED BY HistoryCorrect, <1>1, PTL

--------------------------------------------------------------------------------
(* The first session.  What the client holds and what is on its way to it   *)
(* add up to what the core has.                                             *)

NetworkOn(f, n)  == f.kind = "networkCreated" /\ f.network = n
NetworkOff(f, n) == f.kind = "networkRemoved" /\ f.network = n

\* The frames that remove buffer b.
Removal(f, b) == (f.kind = "removeBuffer" /\ f.buffer = b) \/ NetworkOff(f, NetworkOf[b])

\* Of the positions before p the last in `on` or `off` is in `on`; what holds at
\* the client already counts as position 0.
Current(on, off, p) == \E i \in on : i < p /\ \A j \in off : i < j => ~(j < p)

NetworkOns(n)  == {i \in 0..Len(inbox) : IF i = 0 THEN n \in networks ELSE NetworkOn(inbox[i], n)}
NetworkOffs(n) == {i \in 1..Len(inbox) : NetworkOff(inbox[i], n)}
BufferOns(b)   == {i \in 0..Len(inbox) : IF i = 0 THEN b \in buffers ELSE Live(inbox[i], b)}
BufferOffs(b)  == {i \in 1..Len(inbox) : Removal(inbox[i], b)}

\* After the frames on their way the client will know what the core has, and a
\* network is removed only when it is known.
Adds ==
  /\ \A n \in Network :
       /\ n \in coreNetworks <=> Current(NetworkOns(n), NetworkOffs(n), Len(inbox) + 1)
       /\ \A j \in NetworkOffs(n) : Current(NetworkOns(n), NetworkOffs(n), j)
  /\ \A b \in Buffer : b \in coreBuffers <=> Current(BufferOns(b), BufferOffs(b), Len(inbox) + 1)

\* The ids of buffer b at position p: what is shown at 0, then frame by frame.
Content(b, p) == IF p = 0 THEN Shown(b) ELSE Carries(inbox[p], b)

\* Behind position p comes id z of buffer b, or the removal of b.
Coming(b, p, z) ==
  \E j \in 1..Len(inbox) : p < j /\ (inbox[j] = MessageFrame(b, z) \/ Removal(inbox[j], b))

\* Whatever is shown, or carried by a frame, reaches up to the newest id the core
\* holds: what is missing above it comes later.
Reaches(b) ==
  \A p \in 0..Len(inbox), z \in log[b] : \A x \in Content(b, p) :
    x < z => z \in Content(b, p) \/ Coming(b, p, z)

\* What the core holds of a buffer whose removal is on its way is newer than all
\* that is shown and comes before the removal.
Fresh(b) ==
  \A k \in 1..Len(inbox) : Removal(inbox[k], b) =>
    \A p \in 0..Len(inbox), z \in log[b] : p < k => \A x \in Content(b, p) : x < z

\* Nothing is on its way, or known, where it cannot be.
Kept ==
  /\ ~up => inbox = <<>>
  /\ \A b \in Buffer : b \notin buffers => messages[b] = <<>>
  /\ sessions = 0 => ~up /\ networks = {} /\ buffers = {}

FirstInv ==
  /\ Kept
  /\ up /\ sessions = 1 => Adds /\ \A b \in Buffer : Reaches(b) /\ Fresh(b)
  /\ ~up /\ sessions = 1 => \A b \in Buffer : NoHole(b)

LEMMA CurrentAppend ==
  ASSUME NEW N \in Nat, NEW on \in SUBSET (0..N), NEW off \in SUBSET (1..N),
         NEW on2 \in SUBSET (0..(N + 1)), NEW off2 \in SUBSET (1..(N + 1)),
         \A i \in 0..N : (i \in on2 <=> i \in on) /\ (i \in off2 <=> i \in off),
         ~(N + 1 \in on2 /\ N + 1 \in off2)
  PROVE  /\ \A p \in 0..(N + 1) : Current(on2, off2, p) <=> Current(on, off, p)
         /\ Current(on2, off2, N + 2)
              <=> N + 1 \in on2 \/ (N + 1 \notin off2 /\ Current(on, off, N + 1))
<1>1. ASSUME NEW p \in 0..(N + 1) PROVE Current(on2, off2, p) <=> Current(on, off, p)
  <2>1. \A i \in on2 \cup off2 : i < p => i \in 0..N
    BY <1>1
  <2>2. ASSUME Current(on2, off2, p) PROVE Current(on, off, p)
    <3>1. PICK i \in on2 : i < p /\ \A j \in off2 : i < j => ~(j < p)
      BY <2>2 DEF Current
    <3>2. i \in on
      BY <2>1, <3>1
    <3>3. \A j \in off : j \in off2
      OBVIOUS
    <3> QED BY <3>1, <3>2, <3>3 DEF Current
  <2>3. ASSUME Current(on, off, p) PROVE Current(on2, off2, p)
    <3>1. PICK i \in on : i < p /\ \A j \in off : i < j => ~(j < p)
      BY <2>3 DEF Current
    <3>2. i \in on2
      OBVIOUS
    <3>3. \A j \in off2 : j < p => j \in off
      BY <2>1
    <3> QED BY <3>1, <3>2, <3>3 DEF Current
  <2> QED BY <2>2, <2>3
<1>2. ASSUME Current(on2, off2, N + 2), N + 1 \notin on2
      PROVE  N + 1 \notin off2 /\ Current(on, off, N + 1)
  <2>1. PICK i \in on2 : i < N + 2 /\ \A j \in off2 : i < j => ~(j < N + 2)
    BY <1>2 DEF Current
  <2>2. i \in 0..N /\ i \in on
    BY <1>2
  <2>3. N + 1 \notin off2
    BY <2>1, <2>2
  <2>4. \A j \in off : j \in off2 /\ (j < N + 1 => j < N + 2)
    OBVIOUS
  <2> QED BY <2>1, <2>2, <2>3, <2>4 DEF Current
<1>3. ASSUME N + 1 \in on2 PROVE Current(on2, off2, N + 2)
  <2>1. \A j \in off2 : N + 1 < j => ~(j < N + 2)
    OBVIOUS
  <2>2. N + 1 < N + 2
    OBVIOUS
  <2> QED BY <1>3, <2>1, <2>2 DEF Current
<1>4. ASSUME N + 1 \notin off2, Current(on, off, N + 1) PROVE Current(on2, off2, N + 2)
  <2>1. PICK i \in on : i < N + 1 /\ \A j \in off : i < j => ~(j < N + 1)
    BY <1>4 DEF Current
  <2>2. i \in on2 /\ i < N + 2
    BY <2>1
  <2>3. \A j \in off2 : j \in off /\ j < N + 1
    BY <1>4
  <2> QED BY <2>1, <2>2, <2>3 DEF Current
<1> QED BY <1>1, <1>2, <1>3, <1>4

LEMMA CurrentTail ==
  ASSUME NEW N \in Nat, NEW on \in SUBSET (0..(N + 1)), NEW off \in SUBSET (1..(N + 1)),
         NEW on2 \in SUBSET (0..N), NEW off2 \in SUBSET (1..N),
         \A i \in 1..N : (i \in on2 <=> i + 1 \in on) /\ (i \in off2 <=> i + 1 \in off),
         0 \in on2 <=> 1 \in on \/ (0 \in on /\ 1 \notin off)
  PROVE  \A p \in 1..(N + 1) : Current(on2, off2, p) <=> Current(on, off, p + 1)
<1> SUFFICES ASSUME NEW p \in 1..(N + 1)
             PROVE  Current(on2, off2, p) <=> Current(on, off, p + 1)
  OBVIOUS
<1>1. ASSUME Current(on2, off2, p) PROVE Current(on, off, p + 1)
  <2>1. PICK i \in on2 : i < p /\ \A j \in off2 : i < j => ~(j < p)
    BY <1>1 DEF Current
  <2>2. ASSUME NEW j \in off, i + 1 < j PROVE ~(j < p + 1)
    <3>1. j - 1 \in 1..N /\ (j - 1) + 1 = j
      BY <2>1, <2>2
    <3>2. j - 1 \in off2
      BY <3>1
    <3>3. ~(j - 1 < p)
      BY <2>1, <2>2, <3>2
    <3> QED BY <3>1, <3>3
  <2>3. CASE i \in 1..N
    <3>1. i + 1 \in on /\ i + 1 < p + 1
      BY <2>1, <2>3
    <3> QED BY <2>2, <3>1 DEF Current
  <2>4. CASE i = 0 /\ 1 \in on
    <3>1. 1 < p + 1
      OBVIOUS
    <3> QED BY <2>2, <2>4, <3>1 DEF Current
  <2>5. CASE i = 0 /\ 0 \in on /\ 1 \notin off
    <3>1. \A j \in off : 1 < j
      BY <2>5
    <3>2. \A j \in off : ~(j < p + 1)
      BY <2>2, <2>5, <3>1
    <3>3. 0 < p + 1
      OBVIOUS
    <3> QED BY <2>5, <3>2, <3>3 DEF Current
  <2> QED BY <2>1, <2>3, <2>4, <2>5
<1>2. ASSUME Current(on, off, p + 1) PROVE Current(on2, off2, p)
  <2>1. PICK i \in on : i < p + 1 /\ \A j \in off : i < j => ~(j < p + 1)
    BY <1>2 DEF Current
  <2>2. ASSUME NEW j \in off2, i < j + 1 PROVE ~(j < p)
    <3>1. j + 1 \in off
      OBVIOUS
    <3>2. ~(j + 1 < p + 1)
      BY <2>1, <2>2, <3>1
    <3> QED BY <3>2
  <2>3. CASE i \in 2..(N + 1)
    <3>1. i - 1 \in 1..N /\ (i - 1) + 1 = i
      BY <2>3
    <3>2. i - 1 \in on2 /\ i - 1 < p
      BY <2>1, <3>1
    <3>3. \A j \in off2 : i - 1 < j => i < j + 1
      BY <3>1
    <3> QED BY <2>2, <3>2, <3>3 DEF Current
  <2>4. CASE i = 1 \/ (i = 0 /\ 1 \notin off)
    <3>1. 0 \in on2 /\ 0 < p
      BY <2>1, <2>4
    <3>2. \A j \in off2 : i < j + 1
      BY <2>4
    <3> QED BY <2>2, <3>1, <3>2 DEF Current
  <2>5. CASE i = 0 /\ 1 \in off
    <3>1. ~(1 < p + 1)
      BY <2>1, <2>5
    <3> QED BY <3>1
  <2> QED BY <2>1, <2>3, <2>4, <2>5
<1> QED BY <1>1, <1>2

\* A frame that is told comes last; what it brings is the newest of the log.
LEMMA TellReaches ==
  ASSUME ControlTypeOK, NEW b \in Buffer, Reaches(b), Fresh(b), Bounded,
         NEW f \in Frame, inbox' = Append(inbox, f), UNCHANGED messages, log' \in [Buffer -> SUBSET Nat],
         \A z \in log'[b] : z \in log[b] \/ (f = MessageFrame(b, z) /\ z = lastId + 1),
         \A x \in Carries(f, b), z \in log'[b] : x < z => z \in Carries(f, b),
         Removal(f, b) => log'[b] = {}
  PROVE  Reaches(b)' /\ Fresh(b)'
<1> DEFINE n == Len(inbox)
<1>1. /\ n \in Nat /\ Len(inbox') = n + 1 /\ inbox'[n + 1] = f
      /\ \A i \in 1..n : inbox'[i] = inbox[i]
  BY AppendProperties DEF ControlTypeOK
<1>2. \A p \in 0..n : Content(b, p)' = Content(b, p)
  <2> SUFFICES ASSUME NEW p \in 0..n PROVE Content(b, p)' = Content(b, p)
    OBVIOUS
  <2>1. p = 0 \/ inbox'[p] = inbox[p]
    BY <1>1
  <2> HIDE DEF n
  <2> QED BY <2>1 DEF Content, Shown, Carries, Live
<1>3. \A p \in 0..(n + 1) : p = n + 1 => Content(b, p)' = Carries(f, b)
  <2> SUFFICES ASSUME NEW p \in 0..(n + 1), p = n + 1 PROVE Content(b, p)' = Carries(f, b)
    OBVIOUS
  <2>1. p # 0 /\ inbox'[p] = f
    BY <1>1
  <2> HIDE DEF n
  <2> QED BY <2>1 DEF Content, Carries, Live
<1>4. lastId \in Nat /\ \A p \in 0..n : Content(b, p) \subseteq 1..lastId
  BY <1>1 DEF ControlTypeOK, Bounded, Content
<1>5. \A p \in 0..n : \A x \in Content(b, p) : x < lastId + 1
  BY <1>4
<1>6. \A p \in 0..n : \A z : Coming(b, p, z) => Coming(b, p, z)'
  BY <1>1 DEF Coming, Removal, NetworkOff
<1> HIDE DEF n
<1>7. ASSUME NEW p \in 0..(n + 1), NEW z \in log'[b], NEW x \in Content(b, p)', x < z
      PROVE  z \in Content(b, p)' \/ Coming(b, p, z)'
  <2>1. CASE p = n + 1
    BY <1>3, <1>7, <2>1
  <2>2. CASE p # n + 1 /\ z \in log[b]
    <3>1. p \in 0..n
      BY <1>1, <2>2
    <3>2. z \in Content(b, p) \/ Coming(b, p, z)
      BY <1>2, <1>7, <2>2, <3>1 DEF Reaches, n
    <3> QED BY <1>2, <1>6, <3>1, <3>2
  <2>3. CASE p # n + 1 /\ f = MessageFrame(b, z)
    <3>1. p < n + 1 /\ n + 1 \in 1..(n + 1)
      BY <1>1, <2>3
    <3> QED BY <1>1, <2>3, <3>1 DEF Coming
  <2> QED BY <2>1, <2>2, <2>3
<1>8. Reaches(b)'
  BY <1>1, <1>7 DEF Reaches
<1>9. ASSUME NEW k \in 1..(n + 1), Removal(inbox'[k], b), NEW p \in 0..(n + 1), NEW z \in log'[b],
             p < k, NEW x \in Content(b, p)'
      PROVE  x < z
  <2>1. k \in 1..n /\ p \in 0..n
    BY <1>1, <1>9
  <2>2. CASE z \in log[b]
    BY <1>1, <1>2, <1>9, <2>1, <2>2 DEF Fresh, n
  <2>3. CASE z = lastId + 1
    BY <1>2, <1>5, <1>9, <2>1, <2>3
  <2> QED BY <2>2, <2>3
<1>10. Fresh(b)'
  BY <1>1, <1>9 DEF Fresh, Removal, NetworkOff
<1> QED BY <1>8, <1>10

\* Taking a frame: the history is emptied, left alone, or merged with what the
\* frame carries.
LEMMA TailReaches ==
  ASSUME ControlTypeOK, NEW b \in Buffer, Reaches(b), Fresh(b),
         inbox # <<>>, inbox' = Tail(inbox), UNCHANGED log,
         \/ Shown(b)' = {}
         \/ /\ ~Removal(Head(inbox), b)
            /\ NewestOf(messages'[b], Shown(b) \cup Carries(Head(inbox), b))
         \/ /\ ~Removal(Head(inbox), b) /\ ~Live(Head(inbox), b)
            /\ messages'[b] = messages[b]
  PROVE  Reaches(b)' /\ Fresh(b)'
<1> DEFINE n == Len(inbox)
<1>1. /\ n \in Nat /\ n > 0 /\ Head(inbox) = inbox[1]
      /\ Len(inbox') = n - 1 /\ \A i \in 1..(n - 1) : inbox'[i] = inbox[i + 1]
  BY HeadTailProperties DEF ControlTypeOK
<1>2. \A p \in 1..(n - 1) : Content(b, p)' = Content(b, p + 1)
  BY <1>1 DEF Content, Carries, Live
<1>3. Content(b, 0)' = Shown(b)' /\ Content(b, 0) = Shown(b) /\ Content(b, 1) = Carries(Head(inbox), b)
  BY <1>1 DEF Content
<1>4. Shown(b)' \subseteq Shown(b) \cup Carries(Head(inbox), b)
  BY DEF NewestOf, Shown
<1> HIDE DEF n
<1>5. ASSUME NEW p \in 0..(n - 1), NEW z, Coming(b, p + 1, z) PROVE Coming(b, p, z)'
  <2>1. PICK j \in 1..n : p + 1 < j /\ (inbox[j] = MessageFrame(b, z) \/ Removal(inbox[j], b))
    BY <1>5 DEF Coming, n
  <2>2. j - 1 \in 1..(n - 1) /\ p < j - 1 /\ inbox'[j - 1] = inbox[j]
    BY <1>1, <2>1
  <2> QED BY <1>1, <2>1, <2>2 DEF Coming, Removal, NetworkOff
<1>6. ASSUME NEW z \in log[b], NEW x \in Shown(b)', x < z
      PROVE  z \in Shown(b)' \/ Coming(b, 0, z)'
  <2> DEFINE h == Head(inbox)
  <2>1. \A y \in Shown(b) : y < z => z \in Shown(b) \/ Coming(b, 0, z)
    BY <1>1, <1>3 DEF Reaches, n
  <2>2. \A y \in Carries(h, b) : y < z => z \in Carries(h, b) \/ Coming(b, 1, z)
    BY <1>1, <1>3 DEF Reaches, n
  <2>3. Coming(b, 1, z) => Coming(b, 0, z)'
    BY <1>1, <1>5
  <2>4. ASSUME ~Removal(h, b), Coming(b, 0, z)
        PROVE  Coming(b, 1, z) \/ (Live(h, b) /\ z \in Carries(h, b))
    <3>1. PICK j \in 1..n : inbox[j] = MessageFrame(b, z) \/ Removal(inbox[j], b)
      BY <2>4 DEF Coming, n
    <3>2. CASE j = 1
      BY <1>1, <2>4, <3>1, <3>2 DEF MessageFrame, Live, Carries
    <3>3. CASE j # 1
      <4>1. 1 < j
        BY <1>1, <3>3
      <4> QED BY <3>1, <4>1 DEF Coming, n
    <3> QED BY <3>2, <3>3
  <2> HIDE DEF h
  <2>5. CASE ~Removal(h, b) /\ NewestOf(messages'[b], Shown(b) \cup Carries(h, b))
    <3>1. \A y \in Shown(b) \cup Carries(h, b) : x < y => y \in Shown(b)'
      BY <1>6, <2>5 DEF NewestOf, Shown
    <3>2. z \in Shown(b) \cup Carries(h, b) \/ Coming(b, 1, z)
      BY <1>4, <1>6, <2>1, <2>2, <2>4, <2>5 DEF h
    <3> QED BY <1>6, <2>3, <3>1, <3>2
  <2>6. CASE ~Removal(h, b) /\ ~Live(h, b) /\ messages'[b] = messages[b]
    <3>1. Shown(b)' = Shown(b)
      BY <2>6 DEF Shown
    <3> QED BY <1>6, <2>1, <2>3, <2>4, <2>6, <3>1
  <2> QED BY <1>6, <2>5, <2>6 DEF h
<1>7. ASSUME NEW p \in 0..(n - 1), NEW z \in log[b], NEW x \in Content(b, p)', x < z
      PROVE  z \in Content(b, p)' \/ Coming(b, p, z)'
  <2>1. CASE p = 0
    BY <1>3, <1>6, <1>7, <2>1
  <2>2. CASE p # 0
    <3>1. p \in 1..(n - 1) /\ p + 1 \in 0..n
      BY <1>1, <2>2
    <3>2. z \in Content(b, p + 1) \/ Coming(b, p + 1, z)
      BY <1>2, <1>7, <3>1 DEF Reaches, n
    <3> QED BY <1>2, <1>5, <3>1, <3>2
  <2> QED BY <2>1, <2>2
<1>8. Reaches(b)'
  BY <1>1, <1>7 DEF Reaches
<1>9. ASSUME NEW k \in 1..(n - 1), Removal(inbox'[k], b), NEW p \in 0..(n - 1), NEW z \in log[b],
             p < k, NEW x \in Content(b, p)'
      PROVE  x < z
  <2>1. k + 1 \in 1..n /\ Removal(inbox[k + 1], b)
    BY <1>1, <1>9
  <2>2. \A q \in 0..n : q < k + 1 => \A y \in Content(b, q) : y < z
    BY <2>1 DEF Fresh, n
  <2>3. CASE p = 0
    <3>1. 0 \in 0..n /\ 1 \in 0..n /\ 0 < k + 1 /\ 1 < k + 1
      BY <1>1
    <3>2. x \in Content(b, 0) \cup Content(b, 1)
      BY <1>3, <1>4, <1>9, <2>3
    <3> QED BY <2>2, <3>1, <3>2
  <2>4. CASE p # 0
    <3>1. p \in 1..(n - 1) /\ p + 1 \in 0..n /\ p + 1 < k + 1
      BY <1>1, <1>9, <2>4
    <3> QED BY <1>2, <1>9, <2>2, <3>1
  <2> QED BY <2>3, <2>4
<1>10. Fresh(b)'
  BY <1>1, <1>9 DEF Fresh, Removal, NetworkOff
<1> QED BY <1>8, <1>10

\* What is missing in the middle can neither come later nor be gone.
LEMMA ReachesLeavesNoHole ==
  ASSUME ControlTypeOK, OrderInv, NEW b \in Buffer, Reaches(b), Fresh(b)
  PROVE  NoHole(b)
<1> SUFFICES ASSUME NEW z \in log[b], NEW x \in Shown(b), NEW y \in Shown(b), x < z, z < y,
                    z \notin Shown(b)
             PROVE  FALSE
  BY DEF NoHole, Shown
<1>1. Len(inbox) \in Nat /\ DOMAIN inbox = 1..Len(inbox) /\ Content(b, 0) = Shown(b)
  BY DEF ControlTypeOK, Content
<1>2. Coming(b, 0, z)
  BY <1>1 DEF Reaches
<1>3. PICK j \in 1..Len(inbox) : 0 < j /\ (inbox[j] = MessageFrame(b, z) \/ Removal(inbox[j], b))
  BY <1>2 DEF Coming
<1>4. y \in Nat /\ z \in Nat
  <2>1. lastId \in Nat /\ Shown(b) \subseteq 1..lastId /\ log[b] \subseteq 1..lastId
    BY DEF OrderInv, Bounded, ControlTypeOK
  <2> QED BY <2>1
<1>5. CASE inbox[j] = MessageFrame(b, z)
  <2>1. Live(inbox[j], b) /\ inbox[j].id = z
    BY <1>5 DEF MessageFrame, Live
  <2>2. y < z
    BY <1>1, <2>1 DEF OrderInv, LiveLast
  <2> QED BY <1>4, <2>2
<1>6. CASE Removal(inbox[j], b)
  <2>1. y < z
    BY <1>1, <1>3, <1>6 DEF Fresh
  <2> QED BY <1>4, <2>1
<1> QED BY <1>3, <1>5, <1>6

\* What a told frame does to the networks and buffers that are on their way.
LEMMA TellAdds ==
  ASSUME ControlTypeOK, Adds, NEW f \in Frame, inbox' = Append(inbox, f), UNCHANGED <<networks, buffers>>,
         \A n \in Network :
           /\ n \in coreNetworks' <=> NetworkOn(f, n) \/ (~NetworkOff(f, n) /\ n \in coreNetworks)
           /\ NetworkOff(f, n) => n \in coreNetworks,
         \A b \in Buffer :
           b \in coreBuffers' <=> Live(f, b) \/ (~Removal(f, b) /\ b \in coreBuffers)
  PROVE  Adds'
<1> DEFINE N == Len(inbox)
<1>1. /\ N \in Nat /\ Len(inbox') = N + 1 /\ inbox'[N + 1] = f
      /\ \A i \in 1..N : inbox'[i] = inbox[i]
  BY AppendProperties DEF ControlTypeOK
<1> HIDE DEF N
<1>2. ASSUME NEW n \in Network
      PROVE  /\ n \in coreNetworks' <=> Current(NetworkOns(n)', NetworkOffs(n)', N + 2)
             /\ \A j \in NetworkOffs(n)' : Current(NetworkOns(n)', NetworkOffs(n)', j)
  <2> DEFINE on == NetworkOns(n)
             off == NetworkOffs(n)
             on2 == {i \in 0..(N + 1) : IF i = 0 THEN n \in networks ELSE NetworkOn(inbox'[i], n)}
             off2 == {i \in 1..(N + 1) : NetworkOff(inbox'[i], n)}
  <2>1. NetworkOns(n)' = on2 /\ NetworkOffs(n)' = off2
    BY <1>1 DEF NetworkOns, NetworkOffs, NetworkOn, NetworkOff
  <2>2. on \in SUBSET (0..N) /\ off \in SUBSET (1..N)
    BY DEF NetworkOns, NetworkOffs, N
  <2>3. \A i \in 0..N : (i \in on2 <=> i \in on) /\ (i \in off2 <=> i \in off)
    BY <1>1 DEF NetworkOns, NetworkOffs, N
  <2>4. (N + 1 \in on2 <=> NetworkOn(f, n)) /\ (N + 1 \in off2 <=> NetworkOff(f, n))
    BY <1>1
  <2>5. ~(NetworkOn(f, n) /\ NetworkOff(f, n))
    BY DEF NetworkOn, NetworkOff
  <2>6. on2 \in SUBSET (0..(N + 1)) /\ off2 \in SUBSET (1..(N + 1))
    OBVIOUS
  <2>7. /\ n \in coreNetworks <=> Current(on, off, N + 1)
        /\ \A j \in off : Current(on, off, j)
    BY DEF Adds, N
  <2> HIDE DEF on, off, on2, off2
  <2>8. ~(N + 1 \in on2 /\ N + 1 \in off2)
    BY <2>4, <2>5
  <2>9. \A p \in 0..(N + 1) : Current(on2, off2, p) <=> Current(on, off, p)
    BY <1>1, <2>2, <2>3, <2>6, <2>8, CurrentAppend
  <2>10. Current(on2, off2, N + 2) <=> N + 1 \in on2 \/ (N + 1 \notin off2 /\ Current(on, off, N + 1))
    BY <1>1, <2>2, <2>3, <2>6, <2>8, CurrentAppend
  <2>11. ASSUME NEW j \in off2 PROVE Current(on2, off2, j)
    <3>1. CASE j = N + 1
      BY <1>1, <2>4, <2>7, <2>9, <3>1
    <3>2. CASE j # N + 1
      BY <1>1, <2>3, <2>6, <2>7, <2>9, <3>2
    <3> QED BY <3>1, <3>2
  <2> QED BY <2>1, <2>4, <2>7, <2>10, <2>11
<1>3. ASSUME NEW b \in Buffer
      PROVE  b \in coreBuffers' <=> Current(BufferOns(b)', BufferOffs(b)', N + 2)
  <2> DEFINE on == BufferOns(b)
             off == BufferOffs(b)
             on2 == {i \in 0..(N + 1) : IF i = 0 THEN b \in buffers ELSE Live(inbox'[i], b)}
             off2 == {i \in 1..(N + 1) : Removal(inbox'[i], b)}
  <2>1. BufferOns(b)' = on2 /\ BufferOffs(b)' = off2
    BY <1>1 DEF BufferOns, BufferOffs, Live, Removal, NetworkOff
  <2>2. on \in SUBSET (0..N) /\ off \in SUBSET (1..N)
    BY DEF BufferOns, BufferOffs, N
  <2>3. \A i \in 0..N : (i \in on2 <=> i \in on) /\ (i \in off2 <=> i \in off)
    BY <1>1 DEF BufferOns, BufferOffs, N
  <2>4. (N + 1 \in on2 <=> Live(f, b)) /\ (N + 1 \in off2 <=> Removal(f, b))
    BY <1>1
  <2>5. ~(Live(f, b) /\ Removal(f, b))
    BY DEF Live, Removal, NetworkOff
  <2>6. on2 \in SUBSET (0..(N + 1)) /\ off2 \in SUBSET (1..(N + 1))
    OBVIOUS
  <2>7. b \in coreBuffers <=> Current(on, off, N + 1)
    BY DEF Adds, N
  <2> HIDE DEF on, off, on2, off2
  <2>8. Current(on2, off2, N + 2) <=> N + 1 \in on2 \/ (N + 1 \notin off2 /\ Current(on, off, N + 1))
    BY <1>1, <2>2, <2>3, <2>4, <2>5, <2>6, CurrentAppend
  <2> QED BY <2>1, <2>4, <2>7, <2>8
<1>4. Len(inbox') + 1 = N + 2
  BY <1>1
<1> QED BY <1>2, <1>3, <1>4 DEF Adds, Current

\* What a taken frame does to them, and to what the client knows.
LEMMA TailAdds ==
  ASSUME ControlTypeOK, Adds, inbox # <<>>, inbox' = Tail(inbox), UNCHANGED <<coreNetworks, coreBuffers>>,
         \A n \in Network : n \in networks' <=>
           NetworkOn(Head(inbox), n) \/ (n \in networks /\ ~NetworkOff(Head(inbox), n)),
         \A b \in Buffer : b \in buffers' <=>
           Live(Head(inbox), b) \/ (b \in buffers /\ ~Removal(Head(inbox), b))
  PROVE  Adds'
<1> DEFINE N == Len(inbox) - 1
<1>1. /\ N \in Nat /\ Len(inbox) = N + 1 /\ Head(inbox) = inbox[1]
      /\ Len(inbox') = N /\ \A i \in 1..N : inbox'[i] = inbox[i + 1]
  BY HeadTailProperties DEF ControlTypeOK
<1> HIDE DEF N
<1>2. ASSUME NEW n \in Network
      PROVE  /\ n \in coreNetworks <=> Current(NetworkOns(n)', NetworkOffs(n)', N + 1)
             /\ \A j \in NetworkOffs(n)' : Current(NetworkOns(n)', NetworkOffs(n)', j)
  <2> DEFINE on == NetworkOns(n)
             off == NetworkOffs(n)
             on2 == {i \in 0..N : IF i = 0 THEN n \in networks' ELSE NetworkOn(inbox'[i], n)}
             off2 == {i \in 1..N : NetworkOff(inbox'[i], n)}
  <2>1. NetworkOns(n)' = on2 /\ NetworkOffs(n)' = off2
    BY <1>1 DEF NetworkOns, NetworkOffs, NetworkOn, NetworkOff
  <2>2. on \in SUBSET (0..(N + 1)) /\ off \in SUBSET (1..(N + 1))
    BY <1>1 DEF NetworkOns, NetworkOffs
  <2>3. \A i \in 1..N : (i \in on2 <=> i + 1 \in on) /\ (i \in off2 <=> i + 1 \in off)
    BY <1>1 DEF NetworkOns, NetworkOffs
  <2>4. 0 \in on2 <=> 1 \in on \/ (0 \in on /\ 1 \notin off)
    BY <1>1 DEF NetworkOns, NetworkOffs
  <2>5. on2 \in SUBSET (0..N) /\ off2 \in SUBSET (1..N)
    OBVIOUS
  <2>6. /\ n \in coreNetworks <=> Current(on, off, N + 2)
        /\ \A j \in off : Current(on, off, j)
    <3>1. Len(inbox) + 1 = N + 2
      BY <1>1
    <3> QED BY <3>1 DEF Adds
  <2> HIDE DEF on, off, on2, off2
  <2>7. \A p \in 1..(N + 1) : Current(on2, off2, p) <=> Current(on, off, p + 1)
    BY <1>1, <2>2, <2>3, <2>4, <2>5, CurrentTail
  <2>8. N + 1 \in 1..(N + 1) /\ (N + 1) + 1 = N + 2
    BY <1>1
  <2>9. \A j \in off2 : j \in 1..(N + 1) /\ j + 1 \in off
    BY <1>1, <2>3, <2>5
  <2> QED BY <2>1, <2>6, <2>7, <2>8, <2>9
<1>3. ASSUME NEW b \in Buffer
      PROVE  b \in coreBuffers <=> Current(BufferOns(b)', BufferOffs(b)', N + 1)
  <2> DEFINE on == BufferOns(b)
             off == BufferOffs(b)
             on2 == {i \in 0..N : IF i = 0 THEN b \in buffers' ELSE Live(inbox'[i], b)}
             off2 == {i \in 1..N : Removal(inbox'[i], b)}
  <2>1. BufferOns(b)' = on2 /\ BufferOffs(b)' = off2
    BY <1>1 DEF BufferOns, BufferOffs, Live, Removal, NetworkOff
  <2>2. on \in SUBSET (0..(N + 1)) /\ off \in SUBSET (1..(N + 1))
    BY <1>1 DEF BufferOns, BufferOffs
  <2>3. \A i \in 1..N : (i \in on2 <=> i + 1 \in on) /\ (i \in off2 <=> i + 1 \in off)
    BY <1>1 DEF BufferOns, BufferOffs
  <2>4. 0 \in on2 <=> 1 \in on \/ (0 \in on /\ 1 \notin off)
    BY <1>1 DEF BufferOns, BufferOffs
  <2>5. on2 \in SUBSET (0..N) /\ off2 \in SUBSET (1..N)
    OBVIOUS
  <2>6. b \in coreBuffers <=> Current(on, off, N + 2)
    <3>1. Len(inbox) + 1 = N + 2
      BY <1>1
    <3> QED BY <3>1 DEF Adds
  <2> HIDE DEF on, off, on2, off2
  <2>7. \A p \in 1..(N + 1) : Current(on2, off2, p) <=> Current(on, off, p + 1)
    BY <1>1, <2>2, <2>3, <2>4, <2>5, CurrentTail
  <2>8. N + 1 \in 1..(N + 1) /\ (N + 1) + 1 = N + 2
    BY <1>1
  <2> QED BY <2>1, <2>6, <2>7, <2>8
<1> QED BY <1>1, <1>2, <1>3 DEF Adds, Current

\* A reply holds every id of the log above its oldest one.
LEMMA NewestClosed ==
  ASSUME NEW n \in Nat, NEW S \in SUBSET (1..n), NEW x \in Newest(S), NEW z \in S, x < z
  PROVE  z \in Newest(S)
<1> DEFINE above(y) == {w \in S : w > y}
<1>1. IsFiniteSet(1..n)
  BY FS_Interval
<1>2. IsFiniteSet(above(x))
  BY <1>1, FS_Subset
<1>3. above(z) \subseteq above(x)
  <2>1. x \in 1..n /\ z \in 1..n /\ \A w \in S : w \in 1..n
    BY DEF Newest
  <2>2. \A w \in 1..n : w > z => w > x
    BY <2>1
  <2> QED BY <2>1, <2>2
<1>4. /\ IsFiniteSet(above(z)) /\ Cardinality(above(z)) <= Cardinality(above(x))
      /\ Cardinality(above(x)) \in Nat /\ Cardinality(above(z)) \in Nat
  BY <1>2, <1>3, FS_Subset, FS_CardinalityType
<1>5. Cardinality(above(x)) < Limit
  BY DEF Newest
<1>6. Cardinality(above(z)) < Limit
  BY <1>4, <1>5, BoundsAssumption
<1> QED BY <1>6 DEF Newest

LEMMA KeptNext == TypeOK /\ Kept /\ [Next]_vars => Kept'
<1> SUFFICES ASSUME TypeOK, Kept, [Next]_vars PROVE Kept'
  OBVIOUS
<1>1. sessions \in Nat /\ messages \in [Buffer -> Seq(Nat)] /\ ControlTypeOK
  BY DEF TypeOK, ControlTypeOK
<1>2. ASSUME UNCHANGED <<session, store>>, inbox' = inbox \/ up
      PROVE  Kept'
  BY <1>2 DEF Kept, session, store
<1>3. CASE Core \/ Requester \/ UNCHANGED vars
  <2>1. UNCHANGED <<session, store>>
    BY <1>3
    DEF Core, CoreMessage, CoreRemoveBuffer, CoreRemoveNetwork, CoreCreateNetwork, CoreServe,
        CoreOnly, Requester, RequestBacklog, RequestSent, RequestFails, RequestOnly, vars
  <2>2. inbox' = inbox \/ up
    BY <1>3
    DEF Core, CoreMessage, CoreRemoveBuffer, CoreRemoveNetwork, CoreCreateNetwork, CoreServe,
        Tell, Requester, RequestBacklog, RequestSent, RequestFails, RequestOnly, vars
  <2> QED BY <1>2, <2>1, <2>2
<1>4. CASE Connect
  <2>1. up' /\ sessions' # 0
    BY <1>1, <1>4 DEF Connect
  <2> QED BY <1>4, <2>1 DEF Connect, Kept
<1>5. CASE Disconnect
  BY <1>5 DEF Disconnect, Kept, store
<1>6. ASSUME NEW kind, Receive(kind) PROVE up /\ UNCHANGED <<up, sessions>> /\ sessions # 0
  BY <1>6 DEF Receive, Kept, session
<1>7. CASE ReceiveMessage
  <2>1. up' /\ sessions' # 0
    BY <1>6, <1>7 DEF ReceiveMessage
  <2>2. Head(inbox) \in Frame /\ Head(inbox).kind = "displayMsg"
    BY <1>1, <1>7, HeadOfInbox DEF ReceiveMessage
  <2> QED BY <1>1, <1>7, <2>1, <2>2 DEF ReceiveMessage, Kept
<1>8. CASE ReceiveBacklog
  <2>1. up' /\ sessions' # 0
    BY <1>6, <1>8 DEF ReceiveBacklog
  <2>2. \A b \in Buffer : b \notin buffers => messages'[b] = messages[b]
    BY <1>1, <1>8 DEF ReceiveBacklog, BacklogTarget
  <2>3. buffers' = buffers
    BY <1>8 DEF ReceiveBacklog
  <2> QED BY <2>1, <2>2, <2>3 DEF Kept
<1>9. ASSUME NEW gone, Drop(gone) PROVE \A b \in Buffer : b \notin buffers' => messages'[b] = <<>>
  BY <1>9 DEF Drop, Kept
<1>10. CASE ReceiveRemove
  BY <1>6, <1>9, <1>10 DEF ReceiveRemove, Kept
<1>11. CASE ReceiveNetworkRemoved
  BY <1>6, <1>9, <1>11 DEF ReceiveNetworkRemoved, Kept, store
<1>12. CASE ReceiveNetworkCreated
  BY <1>6, <1>12 DEF ReceiveNetworkCreated, Kept
<1> QED
  BY <1>3, <1>4, <1>5, <1>7, <1>8, <1>10, <1>11, <1>12 DEF Next, Dispatcher

LEMMA FirstTold ==
  ASSUME HistoryInv, FirstInv, up, sessions = 1,
         NEW f \in Frame, Tell(f), CoreOnly, log' \in [Buffer -> SUBSET Nat],
         \A n \in Network :
           /\ n \in coreNetworks' <=> NetworkOn(f, n) \/ (~NetworkOff(f, n) /\ n \in coreNetworks)
           /\ NetworkOff(f, n) => n \in coreNetworks,
         \A b \in Buffer :
           /\ b \in coreBuffers' <=> Live(f, b) \/ (~Removal(f, b) /\ b \in coreBuffers)
           /\ \A z \in log'[b] : z \in log[b] \/ (f = MessageFrame(b, z) /\ z = lastId + 1)
           /\ \A x \in Carries(f, b), z \in log'[b] : x < z => z \in Carries(f, b)
           /\ Removal(f, b) => log'[b] = {}
  PROVE  Adds' /\ \A b \in Buffer : Reaches(b)' /\ Fresh(b)'
<1>1. ControlTypeOK /\ Bounded /\ Adds /\ \A b \in Buffer : Reaches(b) /\ Fresh(b)
  BY DEF HistoryInv, TypeOK, OrderInv, FirstInv
<1>2. inbox' = Append(inbox, f) /\ UNCHANGED <<messages, networks, buffers>>
  BY DEF Tell, CoreOnly, store
<1>3. Adds'
  BY <1>1, <1>2, TellAdds
<1>4. ASSUME NEW b \in Buffer PROVE Reaches(b)' /\ Fresh(b)'
  BY <1>1, <1>2, TellReaches
<1> QED BY <1>3, <1>4

\* The core's steps in the first session.
LEMMA FirstCore ==
  ASSUME HistoryInv, ControlTypeOK', FirstInv, up, sessions = 1, Core
  PROVE  Adds' /\ \A b \in Buffer : Reaches(b)' /\ Fresh(b)'
<1>1. /\ ControlTypeOK /\ lastId \in Nat /\ log \in [Buffer -> SUBSET Nat]
      /\ log' \in [Buffer -> SUBSET Nat] /\ NetworkOf \in [Buffer -> Network]
      /\ requests \in Seq(Buffer)
  BY NetworkOfAssumption DEF HistoryInv, TypeOK, ControlTypeOK
<1>2. \A b \in Buffer : log[b] \subseteq 1..lastId
  BY DEF HistoryInv, OrderInv, Bounded
<1>3. ASSUME NEW c \in Buffer, CoreMessage(c) PROVE Adds' /\ \A b \in Buffer : Reaches(b)' /\ Fresh(b)'
  <2> DEFINE f == MessageFrame(c, lastId + 1)
  <2>1. f \in Frame /\ Tell(f) /\ CoreOnly /\ coreNetworks' = coreNetworks
    BY <1>1, <1>3, FrameTypes DEF CoreMessage
  <2>2. \A n \in Network : ~NetworkOn(f, n) /\ ~NetworkOff(f, n)
    BY DEF NetworkOn, NetworkOff, MessageFrame
  <2>3. ASSUME NEW b \in Buffer
        PROVE  /\ b \in coreBuffers' <=> Live(f, b) \/ (~Removal(f, b) /\ b \in coreBuffers)
               /\ \A z \in log'[b] : z \in log[b] \/ (f = MessageFrame(b, z) /\ z = lastId + 1)
               /\ \A x \in Carries(f, b), z \in log'[b] : x < z => z \in Carries(f, b)
               /\ Removal(f, b) => log'[b] = {}
    <3>1. ~Removal(f, b) /\ (Live(f, b) <=> b = c)
      BY DEF Removal, NetworkOff, MessageFrame, Live
    <3>2. \A x \in Carries(f, b) : x = lastId + 1
      BY DEF Carries, MessageFrame, Live
    <3>3. /\ \A z \in log'[b] : z \in log[b] \/ (b = c /\ z = lastId + 1)
          /\ b \in coreBuffers' <=> b = c \/ b \in coreBuffers
      BY <1>1, <1>3 DEF CoreMessage
    <3>4. \A z \in log'[b] : ~(lastId + 1 < z)
      <4> SUFFICES ASSUME NEW z \in log'[b] PROVE ~(lastId + 1 < z)
        OBVIOUS
      <4>1. z = lastId + 1 \/ z \in 1..lastId
        BY <1>2, <3>3
      <4> QED BY <1>1, <4>1
    <3> QED BY <3>1, <3>2, <3>3, <3>4
  <2> HIDE DEF f
  <2> QED BY <1>1, <2>1, <2>2, <2>3, FirstTold
<1>4. ASSUME NEW c \in Buffer, CoreRemoveBuffer(c) PROVE Adds' /\ \A b \in Buffer : Reaches(b)' /\ Fresh(b)'
  <2> DEFINE f == RemoveFrame(c)
  <2>1. f \in Frame /\ Tell(f) /\ CoreOnly /\ coreNetworks' = coreNetworks
    BY <1>4, FrameTypes DEF CoreRemoveBuffer
  <2>2. \A n \in Network : ~NetworkOn(f, n) /\ ~NetworkOff(f, n)
    BY DEF NetworkOn, NetworkOff, RemoveFrame
  <2>3. ASSUME NEW b \in Buffer
        PROVE  /\ b \in coreBuffers' <=> Live(f, b) \/ (~Removal(f, b) /\ b \in coreBuffers)
               /\ \A z \in log'[b] : z \in log[b] \/ (f = MessageFrame(b, z) /\ z = lastId + 1)
               /\ \A x \in Carries(f, b), z \in log'[b] : x < z => z \in Carries(f, b)
               /\ Removal(f, b) => log'[b] = {}
    <3>1. (Removal(f, b) <=> b = c) /\ ~Live(f, b) /\ Carries(f, b) = {}
      BY DEF Removal, NetworkOff, RemoveFrame, Live, Carries
    <3>2. log'[b] = IF b = c THEN {} ELSE log[b]
      BY <1>1, <1>4 DEF CoreRemoveBuffer
    <3>3. b \in coreBuffers' <=> b # c /\ b \in coreBuffers
      BY <1>4 DEF CoreRemoveBuffer
    <3> QED BY <3>1, <3>2, <3>3
  <2> HIDE DEF f
  <2> QED BY <1>1, <2>1, <2>2, <2>3, FirstTold
<1>5. ASSUME NEW m \in Network, CoreRemoveNetwork(m) PROVE Adds' /\ \A b \in Buffer : Reaches(b)' /\ Fresh(b)'
  <2> DEFINE f == NetworkFrame("networkRemoved", m)
  <2>1. f \in Frame /\ Tell(f) /\ CoreOnly /\ coreNetworks' = coreNetworks \ {m} /\ m \in coreNetworks
    BY <1>5, FrameTypes DEF CoreRemoveNetwork
  <2>2. \A n \in Network : ~NetworkOn(f, n) /\ (NetworkOff(f, n) <=> n = m)
    BY DEF NetworkOn, NetworkOff, NetworkFrame
  <2>3. ASSUME NEW b \in Buffer
        PROVE  /\ b \in coreBuffers' <=> Live(f, b) \/ (~Removal(f, b) /\ b \in coreBuffers)
               /\ \A z \in log'[b] : z \in log[b] \/ (f = MessageFrame(b, z) /\ z = lastId + 1)
               /\ \A x \in Carries(f, b), z \in log'[b] : x < z => z \in Carries(f, b)
               /\ Removal(f, b) => log'[b] = {}
    <3>1. (Removal(f, b) <=> b \in BuffersOf(m)) /\ ~Live(f, b) /\ Carries(f, b) = {}
      BY <1>1 DEF Removal, NetworkOff, NetworkFrame, Live, Carries, BuffersOf
    <3>2. log'[b] = IF b \in BuffersOf(m) THEN {} ELSE log[b]
      BY <1>1, <1>5 DEF CoreRemoveNetwork
    <3>3. b \in coreBuffers' <=> b \notin BuffersOf(m) /\ b \in coreBuffers
      BY <1>5 DEF CoreRemoveNetwork
    <3> QED BY <3>1, <3>2, <3>3
  <2>4. \A n \in Network :
          /\ n \in coreNetworks' <=> NetworkOn(f, n) \/ (~NetworkOff(f, n) /\ n \in coreNetworks)
          /\ NetworkOff(f, n) => n \in coreNetworks
    BY <2>1, <2>2
  <2> HIDE DEF f
  <2> QED BY <1>1, <2>1, <2>3, <2>4, FirstTold
<1>6. ASSUME NEW m \in Network, CoreCreateNetwork(m) PROVE Adds' /\ \A b \in Buffer : Reaches(b)' /\ Fresh(b)'
  <2> DEFINE f == NetworkFrame("networkCreated", m)
  <2>1. /\ f \in Frame /\ Tell(f) /\ CoreOnly /\ coreNetworks' = coreNetworks \cup {m}
        /\ UNCHANGED <<coreBuffers, log>>
    BY <1>6, FrameTypes DEF CoreCreateNetwork
  <2>2. \A n \in Network : ~NetworkOff(f, n) /\ (NetworkOn(f, n) <=> n = m)
    BY DEF NetworkOn, NetworkOff, NetworkFrame
  <2>3. \A b \in Buffer : ~Removal(f, b) /\ ~Live(f, b) /\ Carries(f, b) = {}
    BY DEF Removal, NetworkOff, NetworkFrame, Live, Carries
  <2>4. \A n \in Network :
          /\ n \in coreNetworks' <=> NetworkOn(f, n) \/ (~NetworkOff(f, n) /\ n \in coreNetworks)
          /\ NetworkOff(f, n) => n \in coreNetworks
    BY <2>1, <2>2
  <2> HIDE DEF f
  <2> QED BY <1>1, <2>1, <2>3, <2>4, FirstTold
<1>7. ASSUME CoreServe PROVE Adds' /\ \A b \in Buffer : Reaches(b)' /\ Fresh(b)'
  <2> DEFINE r == Head(requests)
             f == BacklogFrame(r, Newest(log[r]))
  <2>1. r \in Buffer
    BY <1>1, <1>7 DEF CoreServe
  <2>2. /\ f \in Frame /\ Tell(f) /\ CoreOnly
        /\ UNCHANGED <<coreNetworks, coreBuffers, log>>
    BY <1>1, <1>7, <2>1, FrameTypes, NewestType DEF CoreServe, core
  <2>3. \A n \in Network : ~NetworkOn(f, n) /\ ~NetworkOff(f, n)
    BY DEF NetworkOn, NetworkOff, BacklogFrame
  <2>4. ASSUME NEW b \in Buffer
        PROVE  ~Removal(f, b) /\ ~Live(f, b) /\ Carries(f, b) = IF b = r THEN Newest(log[r]) ELSE {}
    BY DEF Removal, NetworkOff, BacklogFrame, Live, Carries
  <2>5. \A x \in Newest(log[r]), z \in log[r] : x < z => z \in Newest(log[r])
    BY <1>1, <1>2, <2>1, NewestClosed
  <2> HIDE DEF f, r
  <2>6. \A b \in Buffer : \A x \in Carries(f, b), z \in log'[b] : x < z => z \in Carries(f, b)
    BY <2>2, <2>4, <2>5
  <2> QED BY <1>1, <2>2, <2>3, <2>4, <2>6, FirstTold
<1> QED BY <1>3, <1>4, <1>5, <1>6, <1>7 DEF Core

\* The client's steps in the first session.
LEMMA FirstTaken ==
  ASSUME HistoryInv, FirstInv, up, sessions = 1, UNCHANGED <<log, coreNetworks, coreBuffers>>,
         inbox # <<>>, inbox' = Tail(inbox),
         \A n \in Network : n \in networks' <=>
           NetworkOn(Head(inbox), n) \/ (n \in networks /\ ~NetworkOff(Head(inbox), n)),
         \A b \in Buffer :
           /\ b \in buffers' <=> Live(Head(inbox), b) \/ (b \in buffers /\ ~Removal(Head(inbox), b))
           /\ \/ Shown(b)' = {}
              \/ /\ ~Removal(Head(inbox), b)
                 /\ NewestOf(messages'[b], Shown(b) \cup Carries(Head(inbox), b))
              \/ /\ ~Removal(Head(inbox), b) /\ ~Live(Head(inbox), b)
                 /\ messages'[b] = messages[b]
  PROVE  Adds' /\ \A b \in Buffer : Reaches(b)' /\ Fresh(b)'
<1>1. ControlTypeOK /\ Adds /\ \A b \in Buffer : Reaches(b) /\ Fresh(b)
  BY DEF HistoryInv, TypeOK, FirstInv
<1>2. Adds'
  BY <1>1, TailAdds
<1>3. ASSUME NEW b \in Buffer PROVE Reaches(b)' /\ Fresh(b)'
  BY <1>1, <1>3, TailReaches
<1> QED BY <1>2, <1>3

LEMMA FirstReceived ==
  ASSUME HistoryInv, FirstInv, up, sessions = 1,
         \/ ReceiveMessage \/ ReceiveBacklog \/ ReceiveRemove
         \/ ReceiveNetworkRemoved \/ ReceiveNetworkCreated
  PROVE  Adds' /\ \A b \in Buffer : Reaches(b)' /\ Fresh(b)'
<1> DEFINE h == Head(inbox)
<1>1. /\ ControlTypeOK /\ NetworkOf \in [Buffer -> Network] /\ Adds
      /\ networks \subseteq Network /\ buffers \subseteq Buffer /\ messages \in [Buffer -> Seq(Nat)]
      /\ \A b \in Buffer : b \notin buffers => messages[b] = <<>>
  BY NetworkOfAssumption DEF HistoryInv, TypeOK, ControlTypeOK, FirstInv, Kept
<1>2. \A kind : Receive(kind) =>
        /\ h \in Frame /\ h.kind = kind /\ inbox # <<>> /\ h = inbox[1] /\ 1 \in DOMAIN inbox
        /\ inbox' = Tail(inbox) /\ UNCHANGED <<log, coreNetworks, coreBuffers>>
  BY <1>1, HeadOfInbox
<1>3. ASSUME NEW b \in Buffer, messages'[b] = <<>> PROVE Shown(b)' = {}
  BY <1>3 DEF Shown, Range
<1>4. CASE ReceiveMessage
  <2>1. /\ h \in Frame /\ h.kind = "displayMsg" /\ inbox # <<>> /\ inbox' = Tail(inbox)
        /\ UNCHANGED <<log, coreNetworks, coreBuffers>>
    BY <1>2, <1>4 DEF ReceiveMessage
  <2>2. /\ h.buffer \in Buffer
        /\ NewestOf(messages'[h.buffer], Shown(h.buffer) \cup Carries(h, h.buffer))
        /\ \A c \in Buffer : c # h.buffer => messages'[c] = messages[c]
    BY <1>4, MessageHistory
  <2>3. \A n : ~NetworkOn(h, n) /\ ~NetworkOff(h, n)
    BY <2>1 DEF NetworkOn, NetworkOff
  <2>4. \A b : ~Removal(h, b) /\ (Live(h, b) <=> b = h.buffer)
    BY <2>1, <2>3 DEF Removal, Live
  <2>5. buffers' = buffers \cup {h.buffer} /\ networks' = networks
    BY <1>4 DEF ReceiveMessage
  <2> QED BY <2>1, <2>2, <2>3, <2>4, <2>5, FirstTaken
<1>5. CASE ReceiveBacklog
  <2>1. /\ h \in Frame /\ h.kind = "receiveBacklog" /\ inbox # <<>> /\ inbox' = Tail(inbox)
        /\ UNCHANGED <<log, coreNetworks, coreBuffers>>
    BY <1>2, <1>5 DEF ReceiveBacklog
  <2>2. /\ h.buffer \in Buffer
        /\ \/ NewestOf(messages'[h.buffer], Shown(h.buffer) \cup Carries(h, h.buffer))
           \/ messages'[h.buffer] = messages[h.buffer]
        /\ \A c \in Buffer : c # h.buffer => messages'[c] = messages[c]
    BY <1>5, BacklogHistory
  <2>3. \A n : ~NetworkOn(h, n) /\ ~NetworkOff(h, n)
    BY <2>1 DEF NetworkOn, NetworkOff
  <2>4. \A b : ~Removal(h, b) /\ ~Live(h, b)
    BY <2>1, <2>3 DEF Removal, Live
  <2>5. buffers' = buffers /\ networks' = networks
    BY <1>5 DEF ReceiveBacklog
  <2> QED BY <2>1, <2>2, <2>3, <2>4, <2>5, FirstTaken
<1>6. CASE ReceiveRemove
  <2>1. /\ h \in Frame /\ h.kind = "removeBuffer" /\ inbox # <<>> /\ inbox' = Tail(inbox)
        /\ UNCHANGED <<log, coreNetworks, coreBuffers>>
    BY <1>2, <1>6 DEF ReceiveRemove
  <2>2. \A n : ~NetworkOn(h, n) /\ ~NetworkOff(h, n)
    BY <2>1 DEF NetworkOn, NetworkOff
  <2>3. \A b : (Removal(h, b) <=> b = h.buffer) /\ ~Live(h, b)
    BY <2>1, <2>2 DEF Removal, Live
  <2>4. /\ buffers' = buffers \ {h.buffer} /\ networks' = networks
        /\ \A b \in Buffer :
             messages'[b] = IF b \in {h.buffer} \cap buffers THEN <<>> ELSE messages[b]
    BY <1>6 DEF ReceiveRemove, Drop
  <2>5. \A b \in Buffer : IF b = h.buffer THEN messages'[b] = <<>> ELSE messages'[b] = messages[b]
    BY <1>1, <2>4
  <2> QED BY <1>3, <2>1, <2>2, <2>3, <2>4, <2>5, FirstTaken
<1>7. CASE ReceiveNetworkRemoved
  <2> DEFINE m == h.network
  <2>1. /\ h \in Frame /\ h.kind = "networkRemoved" /\ inbox # <<>> /\ inbox' = Tail(inbox)
        /\ h = inbox[1] /\ 1 \in DOMAIN inbox
        /\ UNCHANGED <<log, coreNetworks, coreBuffers>>
    BY <1>2, <1>7 DEF ReceiveNetworkRemoved
  <2>2. \A n : ~NetworkOn(h, n) /\ (NetworkOff(h, n) <=> n = m)
    BY <2>1 DEF NetworkOn, NetworkOff
  <2>3. \A b \in Buffer : (Removal(h, b) <=> b \in BuffersOf(m)) /\ ~Live(h, b)
    BY <2>1, <2>2 DEF Removal, Live, BuffersOf
  <2>4. m \in Network
    BY <2>1 DEF Frame
  <2>5. m \in networks
    <3>1. 1 \in 1..Len(inbox) /\ NetworkOff(inbox[1], m)
      BY <1>1, <2>1, <2>2 DEF ControlTypeOK
    <3>2. Current(NetworkOns(m), NetworkOffs(m), 1)
      BY <1>1, <2>4, <3>1 DEF Adds, NetworkOffs
    <3>3. PICK i \in NetworkOns(m) : i < 1
      BY <3>2 DEF Current
    <3>4. i = 0
      BY <3>3 DEF NetworkOns
    <3> QED BY <3>3, <3>4 DEF NetworkOns
  <2>6. /\ networks' = networks \ {m} /\ buffers' = buffers \ Doomed(m)
        /\ \A b \in Buffer : messages'[b] = IF b \in Doomed(m) THEN <<>> ELSE messages[b]
    BY <1>7, <2>5 DEF ReceiveNetworkRemoved, Drop
  <2>7. \A b \in Buffer : IF b \in BuffersOf(m) THEN messages'[b] = <<>> ELSE messages'[b] = messages[b]
    BY <1>1, <2>6 DEF Doomed
  <2>8. \A b \in Buffer : b \in buffers' <=> b \in buffers /\ b \notin BuffersOf(m)
    BY <2>6 DEF Doomed
  <2> HIDE DEF m
  <2> QED BY <1>3, <2>1, <2>2, <2>3, <2>6, <2>7, <2>8, FirstTaken
<1>8. CASE ReceiveNetworkCreated
  <2>1. /\ h \in Frame /\ h.kind = "networkCreated" /\ inbox # <<>> /\ inbox' = Tail(inbox)
        /\ UNCHANGED <<log, coreNetworks, coreBuffers>>
    BY <1>2, <1>8 DEF ReceiveNetworkCreated
  <2>2. \A n : ~NetworkOff(h, n) /\ (NetworkOn(h, n) <=> n = h.network)
    BY <2>1 DEF NetworkOn, NetworkOff
  <2>3. \A b : ~Removal(h, b) /\ ~Live(h, b)
    BY <2>1, <2>2 DEF Removal, Live
  <2>4. networks' = networks \cup {h.network} /\ UNCHANGED <<buffers, messages>>
    BY <1>8 DEF ReceiveNetworkCreated
  <2> QED BY <2>1, <2>2, <2>3, <2>4, FirstTaken
<1> QED BY <1>4, <1>5, <1>6, <1>7, <1>8

\* The session starts with the core's networks and buffers and no message.
LEMMA FirstConnected ==
  ASSUME HistoryInv, FirstInv, Connect, sessions = 0
  PROVE  Adds' /\ \A b \in Buffer : Reaches(b)' /\ Fresh(b)'
<1>1. /\ inbox = <<>> /\ networks = {} /\ buffers = {} /\ \A b \in Buffer : messages[b] = <<>>
      /\ coreNetworks \subseteq Network /\ coreBuffers \subseteq Buffer
  BY DEF FirstInv, Kept, HistoryInv, TypeOK, ControlTypeOK
<1>2. /\ inbox' = <<>> /\ UNCHANGED <<messages, log, coreNetworks, coreBuffers>>
      /\ networks' = coreNetworks /\ buffers' = coreBuffers
  BY <1>1 DEF Connect, core
<1>3. Len(inbox') = 0
  BY <1>2
<1>4. ASSUME NEW n PROVE Current(NetworkOns(n)', NetworkOffs(n)', 1) <=> n \in coreNetworks
  <2>1. \A i : i \in NetworkOns(n)' <=> i = 0 /\ n \in coreNetworks
    BY <1>2, <1>3 DEF NetworkOns
  <2>2. NetworkOffs(n)' = {}
    BY <1>3 DEF NetworkOffs
  <2> QED BY <2>1, <2>2 DEF Current
<1>5. ASSUME NEW b PROVE Current(BufferOns(b)', BufferOffs(b)', 1) <=> b \in coreBuffers
  <2>1. \A i : i \in BufferOns(b)' <=> i = 0 /\ b \in coreBuffers
    BY <1>2, <1>3 DEF BufferOns
  <2>2. BufferOffs(b)' = {}
    BY <1>3 DEF BufferOffs
  <2> QED BY <2>1, <2>2 DEF Current
<1>6. Adds'
  <2>1. \A n : NetworkOffs(n)' = {}
    BY <1>3 DEF NetworkOffs
  <2>2. Len(inbox') + 1 = 1
    BY <1>3
  <2> QED BY <1>2, <1>4, <1>5, <2>1, <2>2 DEF Adds, Current
<1>7. ASSUME NEW b \in Buffer PROVE Reaches(b)' /\ Fresh(b)'
  <2>1. \A p \in 0..0 : Content(b, p)' = {}
    BY <1>1, <1>2 DEF Content, Shown, Range
  <2> QED BY <1>3, <2>1 DEF Reaches, Fresh
<1> QED BY <1>6, <1>7

\* Away from the core nothing is shown that could come to enclose a new message.
LEMMA AwayNoHole ==
  ASSUME HistoryInv, NEW b \in Buffer, NoHole(b), ~up, Core \/ Requester \/ UNCHANGED vars
  PROVE  NoHole(b)'
<1>1. /\ lastId \in Nat /\ log \in [Buffer -> SUBSET Nat] /\ Shown(b) \subseteq 1..lastId
  BY DEF HistoryInv, TypeOK, ControlTypeOK, OrderInv, Bounded
<1>2. messages' = messages
  BY DEF Core, CoreMessage, CoreRemoveBuffer, CoreRemoveNetwork, CoreCreateNetwork, CoreServe,
         CoreOnly, Requester, RequestBacklog, RequestSent, RequestFails, RequestOnly, vars, store
<1>3. log'[b] \subseteq log[b] \cup {lastId + 1}
  BY <1>1
  DEF Core, CoreMessage, CoreRemoveBuffer, CoreRemoveNetwork, CoreCreateNetwork, CoreServe,
      Requester, RequestBacklog, RequestSent, RequestFails, RequestOnly, vars, core
<1>4. \A y \in Shown(b) : ~(lastId + 1 < y)
  BY <1>1
<1> QED BY <1>2, <1>3, <1>4 DEF NoHole, Shown

LEMMA FirstNext ==
  ASSUME HistoryInv, FirstInv, ControlTypeOK', [Next]_vars
  PROVE  FirstInv'
<1>1. Kept'
  BY KeptNext DEF HistoryInv, FirstInv
<1>2. sessions \in Nat /\ up \in BOOLEAN
  BY DEF HistoryInv, TypeOK, ControlTypeOK
<1> DEFINE Good == Adds /\ \A b \in Buffer : Reaches(b) /\ Fresh(b)
<1>3. CASE Core
  <2>1. UNCHANGED <<up, sessions>>
    BY <1>3
    DEF Core, CoreMessage, CoreRemoveBuffer, CoreRemoveNetwork, CoreCreateNetwork, CoreServe,
        CoreOnly, session
  <2>2. up /\ sessions = 1 => Good'
    BY <1>3, FirstCore
  <2>3. ~up /\ sessions = 1 => \A b \in Buffer : NoHole(b)'
    BY <1>3, AwayNoHole DEF FirstInv
  <2> QED BY <1>1, <2>1, <2>2, <2>3 DEF FirstInv
<1>4. CASE Connect
  <2>1. ~up /\ up' /\ sessions' = sessions + 1
    BY <1>4 DEF Connect
  <2>2. sessions' = 1 => sessions = 0
    BY <1>2, <2>1
  <2>3. sessions = 0 => Good'
    BY <1>4, FirstConnected
  <2> QED BY <1>1, <2>1, <2>2, <2>3 DEF FirstInv
<1>5. CASE Disconnect
  <2>1. up /\ ~up' /\ UNCHANGED <<sessions, messages, log>>
    BY <1>5 DEF Disconnect, core, store
  <2>2. ASSUME sessions = 1, NEW b \in Buffer PROVE NoHole(b)
    BY <2>1, <2>2, ReachesLeavesNoHole DEF FirstInv, HistoryInv, TypeOK
  <2> QED BY <1>1, <2>1, <2>2 DEF FirstInv, NoHole
<1>6. CASE ReceiveMessage \/ ReceiveBacklog \/ ReceiveRemove \/ ReceiveNetworkRemoved \/ ReceiveNetworkCreated
  <2>1. up /\ UNCHANGED <<up, sessions>>
    BY <1>6
    DEF ReceiveMessage, ReceiveBacklog, ReceiveRemove, ReceiveNetworkRemoved, ReceiveNetworkCreated,
        Receive, session, FirstInv, Kept
  <2>2. sessions = 1 => Good'
    BY <1>6, <2>1, FirstReceived
  <2> QED BY <1>1, <2>1, <2>2 DEF FirstInv
<1>7. CASE Requester \/ UNCHANGED vars
  <2>1. /\ UNCHANGED <<up, sessions, inbox, log, lastId, messages, networks, buffers>>
        /\ UNCHANGED <<coreNetworks, coreBuffers>>
    BY <1>7
    DEF Requester, RequestBacklog, RequestSent, RequestFails, RequestOnly, vars, core, session, store
  <2>2. Good => Good'
    <3>1. ASSUME NEW n
          PROVE  NetworkOns(n)' = NetworkOns(n) /\ NetworkOffs(n)' = NetworkOffs(n)
      BY <2>1 DEF NetworkOns, NetworkOffs, NetworkOn, NetworkOff
    <3>2. ASSUME NEW b
          PROVE  BufferOns(b)' = BufferOns(b) /\ BufferOffs(b)' = BufferOffs(b)
      BY <2>1 DEF BufferOns, BufferOffs, Live, Removal, NetworkOff
    <3>3. Adds => Adds'
      BY <2>1, <3>1, <3>2 DEF Adds, Current
    <3>4. ASSUME NEW b \in Buffer, NEW p PROVE Content(b, p)' = Content(b, p)
      BY <2>1 DEF Content, Shown, Carries, Live
    <3>5. ASSUME NEW b \in Buffer, NEW p, NEW z PROVE Coming(b, p, z)' = Coming(b, p, z)
      BY <2>1 DEF Coming, Removal, NetworkOff, MessageFrame
    <3>6. ASSUME NEW b \in Buffer, Reaches(b) PROVE Reaches(b)'
      BY <2>1, <3>4, <3>5, <3>6 DEF Reaches
    <3>7. ASSUME NEW b \in Buffer, Fresh(b) PROVE Fresh(b)'
      BY <2>1, <3>4, <3>7 DEF Fresh, Removal, NetworkOff
    <3> QED BY <3>3, <3>6, <3>7
  <2>3. ~up /\ sessions = 1 => \A b \in Buffer : NoHole(b)'
    BY <1>7, AwayNoHole DEF FirstInv
  <2> QED BY <1>1, <2>1, <2>2, <2>3 DEF FirstInv
<1> QED BY <1>3, <1>4, <1>5, <1>6, <1>7 DEF Next, Dispatcher

LEMMA FirstInit == Init => FirstInv
  BY DEF Init, FirstInv, Kept

LEMMA FirstInvMirrors ==
  ASSUME HistoryInv, FirstInv PROVE FirstSessionMirrors
<1> SUFFICES ASSUME sessions = 1 PROVE CanonicalView /\ \A b \in coreBuffers : NoHole(b)
  BY DEF FirstSessionMirrors
<1>1. ControlTypeOK /\ OrderInv /\ networks \subseteq Network /\ buffers \subseteq Buffer
      /\ coreNetworks \subseteq Network /\ coreBuffers \subseteq Buffer
  BY DEF HistoryInv, TypeOK, ControlTypeOK
<1>2. ASSUME NEW b \in Buffer PROVE NoHole(b)
  BY <1>1, ReachesLeavesNoHole DEF FirstInv
<1>3. ASSUME up, inbox = <<>> PROVE networks = coreNetworks /\ buffers = coreBuffers
  <2>1. Len(inbox) = 0 /\ Adds
    BY <1>3 DEF FirstInv
  <2>2. \A n : NetworkOffs(n) = {} /\ (0 \in NetworkOns(n) <=> n \in networks) /\ NetworkOns(n) \subseteq {0}
    BY <2>1 DEF NetworkOns, NetworkOffs
  <2>3. \A b : BufferOffs(b) = {} /\ (0 \in BufferOns(b) <=> b \in buffers) /\ BufferOns(b) \subseteq {0}
    BY <2>1 DEF BufferOns, BufferOffs
  <2>4. \A n \in Network : n \in coreNetworks <=> n \in networks
    BY <2>1, <2>2 DEF Adds, Current
  <2>5. \A b \in Buffer : b \in coreBuffers <=> b \in buffers
    BY <2>1, <2>3 DEF Adds, Current
  <2> QED BY <1>1, <2>4, <2>5
<1> QED BY <1>1, <1>2, <1>3 DEF CanonicalView

\* In the first session, for any traffic, `Limit`, cap and timing of requests:
\* with nothing on its way the client knows exactly the core's networks and
\* buffers, and no history that live messages and replies built has a hole.
THEOREM FirstSessionComplete == Spec => []FirstSessionMirrors
<1>1. HistoryInv /\ FirstInv /\ ControlTypeOK' /\ [Next]_vars => FirstInv'
  BY FirstNext
<1>2. HistoryInv /\ FirstInv => FirstSessionMirrors
  BY FirstInvMirrors
<1> QED BY FirstInit, <1>1, <1>2, HistoryCorrect, ControlTyped, PTL DEF Spec
================================================================================
