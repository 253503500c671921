---------------------------- MODULE ConnectionProofs ----------------------------
(***************************************************************************)
(* Proofs about Connection, for every MaxDecodeFailures and MaxArrivals,   *)
(* and about the negotiation in its handshake, for every core.             *)
(***************************************************************************)
EXTENDS Connection, Negotiation, FiniteSetTheorems, SequenceTheorems, TLAPS

\* The definitions every step proof looks through.
USE DEF KeepLoop, KeepRest, FailAt, RejectAt, Fail, Goto, Yield, GotoIfRefs, Consume,
        driver, link, env, tasks, Payload, FrameKind, Handshaking, Receiving, Yielding,
        PC, ConnState

--------------------------------------------------------------------------------
(* Type correctness.                                                        *)

LEMMA TypeInit == Init => TypeOK
<1> SUFFICES ASSUME Init PROVE TypeOK
  OBVIOUS
<1>1. /\ tls \in BOOLEAN /\ closed \in BOOLEAN /\ refs \in BOOLEAN
      /\ secure \in BOOLEAN /\ session \in BOOLEAN /\ stalled \in BOOLEAN
  BY Zenon DEF Init
<1>2. wire \in Seq(FrameKind) /\ out \in Seq(Payload \cup {"ready", "disconnected"})
  BY DEF Init
<1> QED
  BY <1>1, <1>2, MaxArrivalsAssumption DEF Init, TypeOK

LEMMA TypeHandshake == TypeOK /\ Handshake => TypeOK'
<1> SUFFICES ASSUME TypeOK, Handshake PROVE TypeOK'
  OBVIOUS
<1> USE DEF TypeOK
<1>1. CASE Start  BY <1>1 DEF Start
<1>2. CASE ConnectOk  BY <1>2 DEF ConnectOk
<1>3. CASE ConnectFails  BY <1>3 DEF ConnectFails
<1>4. ASSUME NEW e \in BOOLEAN, ProbeReply(e) PROVE TypeOK'
  BY <1>4 DEF ProbeReply, Negotiated, EnterInit
<1>5. CASE TlsUpgraded  BY <1>5 DEF TlsUpgraded, EnterInit
<1>6. CASE InitAck  BY <1>6 DEF InitAck
<1>7. CASE LoginAck  BY <1>7 DEF LoginAck
<1>8. CASE SessionInit  BY <1>8 DEF SessionInit
<1>9. CASE Rejected  BY <1>9 DEF Rejected
<1>10. CASE HandshakeTimeout  BY <1>10 DEF HandshakeTimeout
<1> QED
  BY <1>1, <1>2, <1>3, <1>4, <1>5, <1>6, <1>7, <1>8, <1>9, <1>10 DEF Handshake

LEMMA TypeLoop == TypeOK /\ ConnectedLoop => TypeOK'
<1> SUFFICES ASSUME TypeOK, ConnectedLoop PROVE TypeOK'
  OBVIOUS
<1> USE DEF TypeOK
<1>1. CASE EnterLoop  BY <1>1 DEF EnterLoop
<1>2. CASE NextEvent  BY <1>2 DEF NextEvent
<1>3. CASE ReadHeader  BY <1>3 DEF ReadHeader
<1>4. CASE FrameTooLarge  BY <1>4 DEF FrameTooLarge
<1>5. CASE ReadFails  BY <1>5 DEF ReadFails
<1>6. ASSUME NEW k \in FrameKind, ReadPayload(k) PROVE TypeOK'
  <2>1. /\ pc' \in PC
        /\ out' \in Seq(Payload \cup {"ready", "disconnected"})
        /\ why' \in {"none", "internal", "transport", "handshake", "frame", "desync", "reply"}
    <3>1. CASE SkipFrame  BY <3>1, <1>6 DEF SkipFrame
    <3>2. CASE GotoIfRefs("header")  BY <3>2, <1>6
    <3>3. CASE DeliverFrame  BY <3>3, <1>6 DEF DeliverFrame
    <3>4. CASE AnswerHeartbeat  BY <3>4, <1>6 DEF AnswerHeartbeat
    <3> QED  BY <1>6, <3>1, <3>2, <3>3, <3>4 DEF ReadPayload
  <2>2. wire' \in Seq(FrameKind) /\ failures' \in Nat /\ arrived' \in Nat
    BY <1>6 DEF ReadPayload, CountFailure
  <2>3. replies' \in Nat
    BY <1>6 DEF ReadPayload, SkipFrame, AnswerHeartbeat
  <2> QED
    BY <1>6, <2>1, <2>2, <2>3 DEF ReadPayload
<1>7. CASE ReplyDrained  BY <1>7 DEF ReplyDrained
<1>8. CASE ReplyFails  BY <1>8 DEF ReplyFails
<1> QED
  BY <1>1, <1>2, <1>3, <1>4, <1>5, <1>6, <1>7, <1>8 DEF ConnectedLoop

LEMMA TypeStep == TypeOK /\ [Next]_vars => TypeOK'
<1> SUFFICES ASSUME TypeOK, [Next]_vars PROVE TypeOK'
  OBVIOUS
<1>1. CASE Handshake  BY <1>1, TypeHandshake
<1>2. CASE ConnectedLoop  BY <1>2, TypeLoop
<1> USE DEF TypeOK
<1>3. CASE Cleanup  BY <1>3 DEF Cleanup, MarkClosed
<1>4. CASE CleanupDone
  <2>1. refs' \in BOOLEAN  BY <1>4, Zenon DEF CleanupDone
  <2> QED  BY <1>4, <2>1 DEF CleanupDone
<1>5. CASE Abort  BY <1>5 DEF Abort
<1>6. CASE Close  BY <1>6 DEF Close, MarkClosed
<1>7. CASE CloseDone
  <2>1. refs' \in BOOLEAN  BY <1>7, Zenon DEF CloseDone
  <2> QED  BY <1>7, <2>1 DEF CloseDone
<1>8. CASE Send  BY <1>8 DEF Send
<1>9. CASE Sent  BY <1>9 DEF Sent
<1>10. CASE Arrive  BY <1>10 DEF Arrive
<1>11. CASE Stall  BY <1>11 DEF Stall
<1>12. CASE UNCHANGED vars  BY <1>12 DEF vars
<1> QED
  BY <1>1, <1>2, <1>3, <1>4, <1>5, <1>6, <1>7, <1>8, <1>9, <1>10, <1>11, <1>12
  DEF Next, Driver, Owner, Core

\* Every variable keeps its type, so the counters never leave Nat and the
\* iterator yields nothing but the four kinds of event.
THEOREM TypeCorrect == Spec => []TypeOK
BY TypeInit, TypeStep, PTL DEF Spec

--------------------------------------------------------------------------------
(* The event stream: what `out` ends with, by the place of the driver.      *)

Unopened == {"start", "refused", "connect"} \cup Handshaking
Live     == {"ready", "event"} \cup Receiving
Ending   == {"disconnected", "cleanup", "done"}
Closed   == out # <<>> /\ out[Len(out)] = "disconnected"

StreamInv ==
  /\ pc \in Unopened => out = <<>>
  /\ pc \in Live => out # <<>> /\ ~Closed
  /\ pc \in Ending => Closed

\* Each step of Connection is a step of EventStream or leaves the stream alone.
StreamStep == Promise!Next \/ (out' = out /\ (pc' = "done") = (pc = "done"))

LEMMA FailStep ==
  ASSUME TypeOK, StreamInv, NEW r, Fail(r), pc \in Unopened \cup Live
  PROVE  StreamInv' /\ StreamStep
BY DEF TypeOK, StreamInv, Unopened, Live, Ending, Closed, StreamStep, Promise!Next,
       Promise!Terminate, Promise!Terminated, Promise!Disconnected

LEMMA YieldStep ==
  ASSUME TypeOK, StreamInv, NEW e \in Payload, Yield("event", e), pc \in Live
  PROVE  StreamInv' /\ StreamStep
<1>1. Promise!Deliver(e)
  BY DEF StreamInv, Unopened, Live, Ending, Closed, Promise!Deliver, Promise!Terminated,
         Promise!Disconnected
<1> QED
  BY <1>1 DEF TypeOK, StreamInv, Unopened, Live, Ending, Closed, StreamStep, Promise!Next

LEMMA GotoStep ==
  ASSUME TypeOK, StreamInv, NEW p, Goto(p), pc # "done",
         \/ pc \in Unopened /\ p \in Unopened
         \/ pc \in Live /\ p \in Live
         \/ pc \in Ending /\ p \in Ending
         \/ p = "aborted"
  PROVE  StreamInv' /\ StreamStep
BY DEF StreamInv, Unopened, Live, Ending, Closed, StreamStep, Promise!Next, Promise!Stop,
       Promise!Terminated, Promise!Disconnected

LEMMA StreamInit == Init => StreamInv /\ Promise!Init
BY DEF Init, StreamInv, Unopened, Live, Ending, Promise!Init, Handshaking

LEMMA StreamHandshake ==
  ASSUME TypeOK, StreamInv, Handshake
  PROVE  StreamInv' /\ StreamStep
<1>1. CASE Start
  BY <1>1, GotoStep DEF Start, Unopened
<1>2. CASE ConnectOk
  BY <1>2, GotoStep DEF ConnectOk, Unopened
<1>3. CASE ConnectFails
  BY <1>3, FailStep DEF ConnectFails, Unopened
<1>4. ASSUME NEW e \in BOOLEAN, ProbeReply(e) PROVE StreamInv' /\ StreamStep
  <2>1. \/ Fail("handshake") \/ Fail("internal") \/ Goto("tls") \/ Goto("init")
    BY <1>4 DEF ProbeReply, EnterInit
  <2> QED  BY <1>4, <2>1, FailStep, GotoStep DEF ProbeReply, Unopened
<1>5. CASE TlsUpgraded
  BY <1>5, FailStep, GotoStep DEF TlsUpgraded, EnterInit, Unopened
<1>6. CASE InitAck
  BY <1>6, FailStep, GotoStep DEF InitAck, Unopened
<1>7. CASE LoginAck
  BY <1>7, FailStep, GotoStep DEF LoginAck, Unopened
<1>8. CASE SessionInit
  <2>1. Promise!Open
    BY <1>8 DEF SessionInit, StreamInv, Unopened, Promise!Open, Promise!Ready
  <2> QED
    BY <1>8, <2>1 DEF SessionInit, TypeOK, StreamInv, Unopened, Live, Ending, Closed,
                      StreamStep, Promise!Next
<1>9. CASE Rejected
  BY <1>9, FailStep DEF Rejected, Unopened
<1>10. CASE HandshakeTimeout
  BY <1>10, FailStep DEF HandshakeTimeout, Unopened
<1> QED
  BY <1>1, <1>2, <1>3, <1>4, <1>5, <1>6, <1>7, <1>8, <1>9, <1>10 DEF Handshake

LEMMA StreamLoop ==
  ASSUME TypeOK, StreamInv, ConnectedLoop
  PROVE  StreamInv' /\ StreamStep
<1>1. CASE EnterLoop
  BY <1>1, FailStep, GotoStep DEF EnterLoop, Live
<1>2. CASE NextEvent
  BY <1>2, FailStep, GotoStep DEF NextEvent, Live
<1>3. CASE ReadHeader
  BY <1>3, GotoStep DEF ReadHeader, Live
<1>4. CASE FrameTooLarge
  BY <1>4, FailStep DEF FrameTooLarge, Live
<1>5. CASE ReadFails
  BY <1>5, FailStep DEF ReadFails, Live
<1>6. ASSUME NEW k \in FrameKind, ReadPayload(k) PROVE StreamInv' /\ StreamStep
  <2>1. \/ Fail("desync") \/ Fail("internal") \/ Goto("header") \/ Goto("reply")
        \/ Yield("event", "sync")
    BY <1>6 DEF ReadPayload, SkipFrame, DeliverFrame, AnswerHeartbeat
  <2> QED  BY <1>6, <2>1, FailStep, GotoStep, YieldStep DEF ReadPayload, Live
<1>7. CASE ReplyDrained
  BY <1>7, YieldStep DEF ReplyDrained, Live
<1>8. CASE ReplyFails
  BY <1>8, FailStep DEF ReplyFails, Live
<1> QED
  BY <1>1, <1>2, <1>3, <1>4, <1>5, <1>6, <1>7, <1>8 DEF ConnectedLoop

LEMMA StreamNext ==
  ASSUME TypeOK, StreamInv, [Next]_vars
  PROVE  StreamInv' /\ StreamStep
<1>1. CASE Handshake  BY <1>1, StreamHandshake
<1>2. CASE ConnectedLoop  BY <1>2, StreamLoop
<1>3. CASE Cleanup
  BY <1>3, GotoStep DEF Cleanup, Ending
<1>4. CASE CleanupDone
  BY <1>4, GotoStep DEF CleanupDone, Ending
<1>5. CASE Abort
  BY <1>5, GotoStep DEF Abort
<1>6. CASE UNCHANGED driver
  BY <1>6 DEF StreamInv, StreamStep, Unopened, Live, Ending, Closed
<1> QED
  BY <1>1, <1>2, <1>3, <1>4, <1>5, <1>6
  DEF Next, Driver, Owner, Core, Close, CloseDone, Send, Sent, Arrive, Stall, vars

\* Whatever the core sends, whenever close() runs or the driver is cancelled,
\* the consumer sees SessionReady at most once and first, one Disconnected and
\* nothing after it, and the iterator ends only after Disconnected.
THEOREM EventsKeepPromise == Spec => ImplementsEventStream
<1>1. Init => StreamInv /\ Promise!Init
  BY StreamInit
<1>2. TypeOK /\ StreamInv /\ [Next]_vars => StreamInv' /\ [Promise!Next]_(Promise!vars)
  BY StreamNext DEF StreamStep, Promise!vars
<1> QED
  BY <1>1, <1>2, TypeCorrect, PTL DEF Spec, ImplementsEventStream, Promise!Spec

--------------------------------------------------------------------------------
(* The socket: who owns it, whether it is encrypted and who closes it.      *)

\* With TLS asked for, ClientInit and everything after it is encrypted.
SecureInv ==
  /\ tls /\ pc \in {"init", "login", "session"} => secure
  /\ CredentialsProtected

\* Until somebody closes the connection, the object refers to the socket iff it
\* is open; a connection closed at a point other than the TCP connect has no
\* open socket; one closed there keeps its references for ever.
SocketInv ==
  /\ pc = "start" => socket = "none" /\ (closed <=> state # "INITIAL")
  /\ pc = "connect" => socket = "none" /\ state # "CONNECTED"
  /\ socket = "none" => ~refs /\ state # "CONNECTED" /\ pc \notin Handshaking
  /\ socket = "shut" => closed /\ closedAt # "connect"
  /\ ~closed => (refs <=> socket = "open") /\ closedAt = "never" /\ closer # "closing"
                  /\ pc \notin {"cleanup", "done"}
  /\ closed /\ socket = "open" => closedAt = "connect"
  /\ closed /\ pc = "connect" => closedAt = "connect"
  /\ closedAt = "connect" => /\ closer # "closing" /\ pc # "cleanup"
                             /\ socket = "open" => refs
  /\ closed /\ pc \in Handshaking => closedAt \in Handshaking \cup {"connect"}
  /\ closed /\ state = "CONNECTED" => closedAt \in Handshaking \cup {"connect"}
  /\ WriterPresent

LinkInv == SecureInv /\ SocketInv

LEMMA LinkInit == Init => LinkInv
BY DEF Init, LinkInv, SecureInv, SocketInv, CredentialsProtected, WriterPresent

LEMMA LinkHandshake == TypeOK /\ LinkInv /\ Handshake => LinkInv'
<1> SUFFICES ASSUME TypeOK, LinkInv, Handshake PROVE LinkInv'
  OBVIOUS
<1> USE DEF TypeOK, LinkInv, SecureInv, SocketInv, CredentialsProtected, WriterPresent
<1>1. CASE Start  BY <1>1 DEF Start
<1>2. CASE ConnectOk  BY <1>2 DEF ConnectOk
<1>3. CASE ConnectFails  BY <1>3 DEF ConnectFails
<1>4. ASSUME NEW e \in BOOLEAN, ProbeReply(e) PROVE LinkInv'
  BY <1>4 DEF ProbeReply, Negotiated, EnterInit
<1>5. CASE TlsUpgraded  BY <1>5 DEF TlsUpgraded, EnterInit
<1>6. CASE InitAck  BY <1>6 DEF InitAck
<1>7. CASE LoginAck  BY <1>7 DEF LoginAck
<1>8. CASE SessionInit  BY <1>8 DEF SessionInit
<1>9. CASE Rejected  BY <1>9 DEF Rejected
<1>10. CASE HandshakeTimeout  BY <1>10 DEF HandshakeTimeout
<1> QED
  BY <1>1, <1>2, <1>3, <1>4, <1>5, <1>6, <1>7, <1>8, <1>9, <1>10 DEF Handshake

LEMMA LinkNext == TypeOK /\ LinkInv /\ [Next]_vars => LinkInv'
<1> SUFFICES ASSUME TypeOK, LinkInv, [Next]_vars PROVE LinkInv'
  OBVIOUS
<1>1. CASE Handshake  BY <1>1, LinkHandshake
<1> USE DEF TypeOK, LinkInv, SecureInv, SocketInv, CredentialsProtected, WriterPresent
<1>2. CASE ConnectedLoop
  \* The loop never touches the link, the state or the owner.
  <2>1. /\ UNCHANGED <<tls, state, closed, link, closer, closedAt, sender>>
        /\ pc' \in {"header", "payload", "reply", "event", "disconnected"}
    BY <1>2 DEF ConnectedLoop, EnterLoop, NextEvent, ReadHeader, FrameTooLarge, ReadFails,
                ReadPayload, SkipFrame, DeliverFrame, AnswerHeartbeat, ReplyDrained, ReplyFails
  <2> QED  BY <2>1
<1>3. CASE Cleanup  BY <1>3 DEF Cleanup, MarkClosed
<1>4. CASE CleanupDone  BY <1>4 DEF CleanupDone
<1>5. CASE Abort  BY <1>5 DEF Abort
<1>6. CASE Close  BY <1>6 DEF Close, MarkClosed
<1>7. CASE CloseDone  BY <1>7 DEF CloseDone
<1>8. CASE Send  BY <1>8 DEF Send, MaySend
<1>9. CASE Sent  BY <1>9 DEF Sent
<1>10. CASE Arrive  BY <1>10 DEF Arrive
<1>11. CASE Stall  BY <1>11 DEF Stall
<1>12. CASE UNCHANGED vars  BY <1>12 DEF vars
<1> QED
  BY <1>1, <1>2, <1>3, <1>4, <1>5, <1>6, <1>7, <1>8, <1>9, <1>10, <1>11, <1>12
  DEF Next, Driver, Owner, Core

LEMMA LinkCorrect == Spec => []LinkInv
BY LinkInit, LinkNext, TypeCorrect, PTL DEF Spec

\* A password is never written to a plaintext socket when TLS was asked for.
THEOREM NoPlaintextCredentials == Spec => []CredentialsProtected
<1>1. LinkInv => CredentialsProtected
  BY DEF LinkInv, SecureInv
<1> QED  BY <1>1, LinkCorrect, PTL

\* Iterating to the end closes the socket, unless close() hit the TCP connect.
THEOREM ExhaustionReleasesSocket == Spec => []ReleasesSocket
<1>1. LinkInv => ReleasesSocket
  BY DEF LinkInv, SocketInv, ReleasesSocket
<1> QED  BY <1>1, LinkCorrect, PTL

\* The assertion of _send_signalproxy holds, unless close() hit the handshake.
THEOREM SendFindsWriter == Spec => []WriterPresent
<1>1. LinkInv => WriterPresent
  BY DEF LinkInv, SocketInv
<1> QED  BY <1>1, LinkCorrect, PTL

--------------------------------------------------------------------------------
(* Desync detection.                                                        *)

\* `failures` is the length of the run of undecodable frames that ends the wire.
CountInv ==
  /\ failures <= Len(wire)
  /\ \A j \in (Len(wire) - failures + 1)..Len(wire) : wire[j] = "bad"
  /\ failures < Len(wire) => wire[Len(wire) - failures] # "bad"

\* Nothing is read after the terminal event, and until then the run is short.
GiveUpInv ==
  /\ pc \in Unopened \cup {"ready"} => wire = <<>> /\ failures = 0
  /\ pc \in Unopened \cup Live => why = "none" /\ failures < MaxDecodeFailures

DesyncInv == CountInv /\ GiveUpInv /\ DesyncDetected

LEMMA DesyncInit == Init => DesyncInv
BY MaxDecodeFailuresAssumption
DEF Init, DesyncInv, CountInv, GiveUpInv, DesyncDetected, BadRun, Unopened, Live

LEMMA DesyncFrame ==
  ASSUME TypeOK, DesyncInv, NEW kind \in FrameKind, ReadPayload(kind)
  PROVE  DesyncInv'
<1> USE MaxDecodeFailuresAssumption
<1> DEFINE n == Len(wire)
<1>1. /\ n \in Nat /\ wire' = Append(wire, kind) /\ Len(wire') = n + 1
      /\ wire'[n + 1] = kind /\ \A j \in 1..n : wire'[j] = wire[j]
      /\ failures' = CountFailure(kind) /\ pc = "payload" /\ failures \in Nat
  BY DEF TypeOK, ReadPayload
<1>2. CountInv'
  <2>1. CASE kind = "bad"
    BY <1>1, <2>1 DEF CountFailure, DesyncInv, CountInv
  <2>2. CASE kind # "bad"
    BY <1>1, <2>2 DEF CountFailure, DesyncInv, CountInv
  <2> QED  BY <2>1, <2>2
<1>3. \A i \in 1..n : ~BadRun(MaxDecodeFailures, i)'
  <2>1. \A i \in 1..n : ~BadRun(MaxDecodeFailures, i)
    BY <1>1 DEF DesyncInv, DesyncDetected, GiveUpInv, Live, TypeOK
  <2> QED  BY <1>1, <2>1 DEF BadRun
<1>4. CASE kind = "bad" /\ failures + 1 >= MaxDecodeFailures
  <2>1. failures + 1 = MaxDecodeFailures /\ why' = "desync" /\ pc' = "disconnected"
    BY <1>1, <1>4 DEF ReadPayload, SkipFrame, CountFailure, DesyncInv, GiveUpInv, Live
  <2>2. BadRun(MaxDecodeFailures, Len(wire))'
    BY <1>1, <1>2, <1>4, <2>1 DEF CountFailure, CountInv, BadRun
  <2> QED
    BY <1>1, <1>2, <1>3, <2>1, <2>2 DEF DesyncInv, DesyncDetected, GiveUpInv, Unopened, Live
<1>5. CASE ~(kind = "bad" /\ failures + 1 >= MaxDecodeFailures)
  <2>1. /\ failures' < MaxDecodeFailures /\ why' # "desync"
        /\ pc' \notin Unopened \cup {"ready"} /\ (pc' \in Live => why' = "none")
    <3>1. why = "none" /\ failures < MaxDecodeFailures
      BY <1>1 DEF DesyncInv, GiveUpInv, Live
    <3>2. failures' < MaxDecodeFailures
      BY <1>1, <1>5, <3>1 DEF CountFailure
    <3>3. \/ Fail("internal")
          \/ Goto("header") \/ Goto("reply") \/ Yield("event", "sync")
      BY <1>5 DEF ReadPayload, SkipFrame, CountFailure, DeliverFrame, AnswerHeartbeat
    <3> QED  BY <3>1, <3>2, <3>3 DEF Unopened, Live
  <2>2. TypeOK'
    <3>1. Next  BY DEF Next, Driver, ConnectedLoop
    <3> QED  BY <3>1, TypeStep
  <2>3. ~BadRun(MaxDecodeFailures, Len(wire))'
    <3>1. failures' \in Nat /\ Len(wire') \in Nat /\ failures' <= Len(wire')
      BY <1>1, <1>2, <2>2 DEF CountInv, TypeOK
    <3>2. SUFFICES ASSUME MaxDecodeFailures <= Len(wire'),
                          \A j \in (Len(wire') - MaxDecodeFailures + 1)..Len(wire') : wire'[j] = "bad"
                   PROVE  FALSE
      BY DEF BadRun
    <3>3. Len(wire') - failures' \in (Len(wire') - MaxDecodeFailures + 1)..Len(wire')
      BY <2>1, <3>1, <3>2
    <3>4. wire'[Len(wire') - failures'] = "bad"
      BY <3>2, <3>3
    <3>5. wire'[Len(wire') - failures'] # "bad"
      BY <1>2, <2>1, <3>1, <3>2 DEF CountInv
    <3> QED  BY <3>4, <3>5
  <2>4. DesyncDetected'
    <3>1. DOMAIN wire' = 1..(n + 1)
      BY <1>1, <2>2 DEF TypeOK
    <3> QED  BY <1>1, <1>3, <2>1, <2>3, <3>1 DEF DesyncDetected
  <2>5. GiveUpInv'
    BY <2>1 DEF GiveUpInv
  <2> QED
    BY <1>2, <2>4, <2>5 DEF DesyncInv
<1> QED  BY <1>4, <1>5

LEMMA DesyncNext == TypeOK /\ DesyncInv /\ [Next]_vars => DesyncInv'
<1> SUFFICES ASSUME TypeOK, DesyncInv, [Next]_vars PROVE DesyncInv'
  OBVIOUS
<1>1. ASSUME NEW k \in FrameKind, ReadPayload(k) PROVE DesyncInv'
  BY <1>1, DesyncFrame
<1>3. CASE /\ UNCHANGED <<wire, failures>>
           /\ \/ pc' = pc /\ why' = why
              \/ pc \in Unopened /\ pc' \in Unopened \cup {"ready"} /\ why' = why
              \/ pc \in Live /\ pc' \in Live \ {"ready"} /\ why' = why
              \/ pc' \notin Unopened \cup Live /\ why' = why
              \/ pc' \notin Unopened \cup Live /\ why' # "desync" /\ pc \in Unopened \cup Live
  BY <1>3 DEF DesyncInv, CountInv, GiveUpInv, DesyncDetected, BadRun, Unopened, Live
<1>2. CASE EnterLoop
  BY <1>2, <1>3 DEF EnterLoop, DesyncInv, GiveUpInv, Unopened, Live
<1>4. CASE Handshake
  BY <1>3, <1>4
  DEF Handshake, Start, ConnectOk, ConnectFails, ProbeReply, EnterInit, TlsUpgraded, InitAck,
      LoginAck, SessionInit, Rejected, HandshakeTimeout, Unopened, Live
<1>5. CASE \/ NextEvent \/ ReadHeader \/ FrameTooLarge \/ ReadFails
           \/ ReplyDrained \/ ReplyFails
  BY <1>3, <1>5
  DEF NextEvent, ReadHeader, FrameTooLarge, ReadFails, ReplyDrained, ReplyFails, Unopened, Live
<1>6. CASE Cleanup \/ CleanupDone \/ Abort
  BY <1>3, <1>6 DEF Cleanup, CleanupDone, Abort, Unopened, Live
<1>7. CASE UNCHANGED driver
  BY <1>3, <1>7
<1> QED
  BY <1>1, <1>2, <1>4, <1>5, <1>6, <1>7
  DEF Next, Driver, ConnectedLoop, Owner, Core, Close, CloseDone, Send, Sent, Arrive,
      Stall, vars

\* The connection gives up exactly on MaxDecodeFailures undecodable frames in a
\* row, however good and bad frames alternate before.
THEOREM DesyncIsDetected == Spec => []DesyncDetected
<1>1. DesyncInv => DesyncDetected
  BY DEF DesyncInv
<1> QED  BY <1>1, DesyncInit, DesyncNext, TypeCorrect, PTL DEF Spec

--------------------------------------------------------------------------------
(* What is read and what is delivered.                                      *)

LEMMA CountAppend ==
  ASSUME NEW T, NEW s \in Seq(T), NEW e \in T, NEW S
  PROVE  /\ Count(s, S) \in Nat
         /\ e \in S => /\ Count(Append(s, e), S) = Count(s, S) + 1
                       /\ Numbered(Append(s, e), S)
                            = Numbered(s, S) \cup {<<Count(s, S) + 1, e>>}
         /\ e \notin S => /\ Count(Append(s, e), S) = Count(s, S)
                          /\ Numbered(Append(s, e), S) = Numbered(s, S)
<1> DEFINE a == Append(s, e)
           n == Len(s)
           In == {i \in 1..n : s[i] \in S}
<1>1. /\ n \in Nat /\ DOMAIN s = 1..n /\ DOMAIN a = 1..(n + 1) /\ Len(a) = n + 1
      /\ a[n + 1] = e /\ \A i \in 1..n : a[i] = s[i]
  BY AppendProperties
<1> HIDE DEF a, n
<1>2. \A i \in 1..n : CountTo(a, S, i) = CountTo(s, S, i)
  <2> SUFFICES ASSUME NEW i \in 1..n PROVE CountTo(a, S, i) = CountTo(s, S, i)
    OBVIOUS
  <2>1. {j \in 1..i : a[j] \in S} = {j \in 1..i : s[j] \in S}
    BY <1>1
  <2> QED BY <2>1 DEF CountTo
<1>3. IsFiniteSet(In) /\ Cardinality(In) \in Nat /\ Count(s, S) = Cardinality(In)
  <2>1. IsFiniteSet(1..n)
    BY <1>1, FS_Interval
  <2> QED BY <2>1, FS_Subset, FS_CardinalityType DEF Count, CountTo, n
<1>4. CASE e \in S
  <2>1. {i \in 1..(n + 1) : a[i] \in S} = In \cup {n + 1}
    BY <1>1, <1>4
  <2>2. Cardinality(In \cup {n + 1}) = Cardinality(In) + 1
    <3>1. n + 1 \notin In
      BY <1>1
    <3> HIDE DEF In
    <3> QED BY <1>3, <3>1, FS_AddElement
  <2>3. CountTo(a, S, n + 1) = Count(s, S) + 1 /\ Count(a, S) = Count(s, S) + 1
    BY <1>1, <1>3, <2>1, <2>2 DEF CountTo, Count
  <2>4. Numbered(a, S) = {<<CountTo(a, S, i), a[i]>> : i \in In} \cup {<<CountTo(a, S, n + 1), e>>}
    BY <1>1, <2>1 DEF Numbered
  <2>5. {<<CountTo(a, S, i), a[i]>> : i \in In} = Numbered(s, S)
    BY <1>1, <1>2 DEF Numbered
  <2> QED BY <1>3, <1>4, <2>3, <2>4, <2>5 DEF a
<1>5. CASE e \notin S
  <2>1. {i \in 1..(n + 1) : a[i] \in S} = In
    BY <1>1, <1>5
  <2>2. Count(a, S) = Count(s, S)
    BY <1>1, <1>3, <2>1 DEF CountTo, Count
  <2>3. Numbered(a, S) = Numbered(s, S)
    BY <1>1, <1>2, <2>1 DEF Numbered
  <2> QED BY <1>3, <1>5, <2>2, <2>3 DEF a
<1> QED BY <1>4, <1>5

LEMMA CountEmpty == \A S : Count(<<>>, S) = 0 /\ Numbered(<<>>, S) = {}
<1> TAKE S
<1>1. {i \in 1..0 : <<>>[i] \in S} = {}
  OBVIOUS
<1>2. Len(<<>>) = 0 /\ DOMAIN <<>> = {}
  OBVIOUS
<1> QED BY <1>1, <1>2, FS_EmptySet DEF Count, CountTo, Numbered

Beats == {"heartbeat"}

\* All that was read has been delivered, and every heartbeat of it answered.
Even ==
  /\ Delivered = Deliverable /\ Count(out, Payload) = Count(wire, Payload)
  /\ Count(out, Beats) = replies /\ replies = Count(wire, Beats)

\* The last frame read was a heartbeat, which is answered and not delivered yet.
Behind ==
  /\ Deliverable = Delivered \cup {<<Count(out, Payload) + 1, "heartbeat">>}
  /\ Count(wire, Payload) = Count(out, Payload) + 1
  /\ replies = Count(out, Beats) + 1 /\ replies = Count(wire, Beats)

DeliveryInv ==
  /\ pc \in Unopened \cup {"ready", "event", "header", "payload"} => Even
  /\ pc = "reply" => Behind
  /\ DeliveryFaithful /\ HeartbeatAnswered

LEMMA EvenAnswered == TypeOK /\ Even => DeliveryFaithful /\ HeartbeatAnswered
<1> SUFFICES ASSUME TypeOK, Even PROVE HeartbeatAnswered
  BY DEF Even, DeliveryFaithful
<1>1. replies \in Nat
  BY DEF TypeOK
<1> QED BY <1>1 DEF Even, HeartbeatAnswered, Beats

\* A step that reads no frame and delivers none, by where it leaves the driver.
LEMMA DeliveryKept ==
  ASSUME TypeOK, DeliveryInv, UNCHANGED <<wire, replies>>,
         out' = out \/ out' = Append(out, "ready") \/ out' = Append(out, "disconnected"),
         \/ /\ pc \in Unopened \cup {"ready", "event", "header", "payload"} /\ pc' # "reply"
         \/ pc = "reply" /\ pc' \in {"disconnected", "aborted"}
            /\ (pc' = "disconnected" => why' = "reply")
         \/ pc \notin Live \cup Unopened /\ pc' \notin Live \cup Unopened /\ UNCHANGED why
            /\ (pc = "aborted" => pc' = "aborted")
         \/ UNCHANGED <<pc, why>>
  PROVE  DeliveryInv'
<1>1. \A S : "ready" \notin S /\ "disconnected" \notin S =>
        Count(out', S) = Count(out, S) /\ Numbered(out', S) = Numbered(out, S)
  <2> DEFINE Event == Payload \cup {"ready", "disconnected"}
  <2>1. out \in Seq(Event) /\ "ready" \in Event /\ "disconnected" \in Event
    BY DEF TypeOK
  <2> HIDE DEF Event
  <2> SUFFICES ASSUME NEW S, "ready" \notin S, "disconnected" \notin S
               PROVE  Count(out', S) = Count(out, S) /\ Numbered(out', S) = Numbered(out, S)
    OBVIOUS
  <2>2. ASSUME NEW e \in Event, e \notin S, out' = Append(out, e)
        PROVE  Count(out', S) = Count(out, S) /\ Numbered(out', S) = Numbered(out, S)
    BY <2>1, <2>2, CountAppend
  <2> QED BY <2>1, <2>2
<1>2. /\ Count(out', Payload) = Count(out, Payload) /\ Count(out', Beats) = Count(out, Beats)
      /\ Numbered(out', Payload) = Numbered(out, Payload)
  BY <1>1 DEF Beats
<1>3. (Even => Even') /\ (Behind => Behind') /\ (HeartbeatAnswered => HeartbeatAnswered')
  BY <1>2 DEF Even, Behind, HeartbeatAnswered, Delivered, Deliverable, Beats
<1>4. Delivered' = Delivered /\ Deliverable' = Deliverable
  BY <1>2 DEF Delivered, Deliverable
<1> QED BY <1>2, <1>3, <1>4 DEF DeliveryInv, DeliveryFaithful, Even, Unopened, Live

LEMMA DeliveryFrame ==
  ASSUME TypeOK, DeliveryInv, NEW kind \in FrameKind, ReadPayload(kind)
  PROVE  DeliveryInv'
<1>1. /\ Even /\ wire' = Append(wire, kind) /\ wire \in Seq(FrameKind) /\ replies \in Nat
      /\ out \in Seq(Payload \cup {"ready", "disconnected"})
  BY DEF DeliveryInv, ReadPayload, TypeOK
<1>2. ASSUME NEW S
      PROVE  /\ kind \in S => /\ Count(wire', S) = Count(wire, S) + 1
                              /\ Numbered(wire', S) = Numbered(wire, S) \cup {<<Count(wire, S) + 1, kind>>}
             /\ kind \notin S => Count(wire', S) = Count(wire, S) /\ Numbered(wire', S) = Numbered(wire, S)
             /\ Count(wire, S) \in Nat /\ Count(out, S) \in Nat
  <2> DEFINE Event == Payload \cup {"ready", "disconnected"}
             Kind == FrameKind
  <2>1. out \in Seq(Event) /\ "ready" \in Event /\ wire \in Seq(Kind) /\ kind \in Kind
    BY <1>1
  <2> HIDE DEF Event, Kind
  <2>2. Count(out, S) \in Nat
    BY <2>1, CountAppend
  <2> QED BY <1>1, <2>1, <2>2, CountAppend
<1>3. ASSUME NEW S, NEW e \in Payload \cup {"ready", "disconnected"}, out' = Append(out, e)
      PROVE  /\ e \in S => /\ Count(out', S) = Count(out, S) + 1
                           /\ Numbered(out', S) = Numbered(out, S) \cup {<<Count(out, S) + 1, e>>}
             /\ e \notin S => Count(out', S) = Count(out, S) /\ Numbered(out', S) = Numbered(out, S)
  <2> DEFINE Event == Payload \cup {"ready", "disconnected"}
  <2>1. out \in Seq(Event) /\ e \in Event
    BY <1>1, <1>3
  <2> HIDE DEF Event
  <2> QED BY <1>3, <2>1, CountAppend
<1>4. CASE kind \in {"bad", "heartbeatReply"}
  <2>1. UNCHANGED replies /\ (Goto("header") \/ Fail("internal") \/ Fail("desync"))
    BY <1>4 DEF ReadPayload, SkipFrame
  <2>2. out' = out \/ out' = Append(out, "disconnected")
    BY <2>1
  <2>3. kind \notin Payload /\ kind \notin Beats /\ "disconnected" \notin Payload /\ "disconnected" \notin Beats
    BY <1>4 DEF Beats
  <2>4. /\ Count(wire', Payload) = Count(wire, Payload) /\ Count(wire', Beats) = Count(wire, Beats)
        /\ Numbered(wire', Payload) = Numbered(wire, Payload)
    BY <1>2, <2>3
  <2>5. /\ Count(out', Payload) = Count(out, Payload) /\ Count(out', Beats) = Count(out, Beats)
        /\ Numbered(out', Payload) = Numbered(out, Payload)
    BY <1>3, <2>2, <2>3
  <2>6. Even'
    BY <1>1, <2>1, <2>4, <2>5 DEF Even, Delivered, Deliverable
  <2>7. pc' # "reply" /\ replies' \in Nat
    BY <1>1, <2>1
  <2> QED BY <2>6, <2>7 DEF DeliveryInv, Even, DeliveryFaithful, HeartbeatAnswered, Beats
<1>5. CASE kind = "sync"
  <2>1. UNCHANGED replies /\ out' = Append(out, "sync") /\ pc' = "event"
    BY <1>5 DEF ReadPayload, DeliverFrame
  <2>2. kind \in Payload /\ kind \notin Beats
    BY <1>5 DEF Beats
  <2>3. /\ Count(wire', Payload) = Count(wire, Payload) + 1 /\ Count(wire', Beats) = Count(wire, Beats)
        /\ Numbered(wire', Payload) = Numbered(wire, Payload) \cup {<<Count(wire, Payload) + 1, "sync">>}
    BY <1>2, <1>5, <2>2
  <2>4. /\ Count(out', Payload) = Count(out, Payload) + 1 /\ Count(out', Beats) = Count(out, Beats)
        /\ Numbered(out', Payload) = Numbered(out, Payload) \cup {<<Count(out, Payload) + 1, "sync">>}
    BY <1>3, <1>5, <2>1, <2>2
  <2>5. Even'
    BY <1>1, <2>1, <2>3, <2>4 DEF Even, Delivered, Deliverable
  <2>6. pc' # "reply" /\ replies' \in Nat
    BY <1>1, <2>1
  <2> QED BY <2>5, <2>6 DEF DeliveryInv, Even, DeliveryFaithful, HeartbeatAnswered, Beats
<1>6. CASE kind = "heartbeat"
  <2>1. kind \in Payload /\ kind \in Beats
    BY <1>6 DEF Beats
  <2>2. /\ Count(wire', Payload) = Count(wire, Payload) + 1 /\ Count(wire', Beats) = Count(wire, Beats) + 1
        /\ Numbered(wire', Payload) = Numbered(wire, Payload) \cup {<<Count(wire, Payload) + 1, "heartbeat">>}
    BY <1>2, <1>6, <2>1
  <2>3. CASE refs
    <3>1. pc' = "reply" /\ out' = out /\ replies' = replies + 1
      BY <1>6, <2>3 DEF ReadPayload, AnswerHeartbeat
    <3>2. Behind'
      BY <1>1, <2>2, <3>1 DEF Even, Behind, Delivered, Deliverable
    <3>3. Count(out, Beats) \in Nat /\ replies' \in Nat
      BY <1>1, <1>2, <3>1
    <3>4. HeartbeatAnswered'
      BY <1>1, <2>2, <3>1, <3>3 DEF Even, HeartbeatAnswered, Beats
    <3> QED BY <3>1, <3>2, <3>4 DEF DeliveryInv, Behind, DeliveryFaithful, Unopened
  <2>4. CASE ~refs
    <3>1. Fail("internal") /\ UNCHANGED replies
      BY <1>6, <2>4 DEF ReadPayload, AnswerHeartbeat
    <3>2. "disconnected" \notin Payload /\ "disconnected" \notin Beats /\ out' = Append(out, "disconnected")
      BY <3>1 DEF Beats
    <3>3. /\ Count(out', Payload) = Count(out, Payload) /\ Count(out', Beats) = Count(out, Beats)
          /\ Numbered(out', Payload) = Numbered(out, Payload)
      BY <1>3, <3>2
    <3>4. DeliveryFaithful'
      BY <1>1, <2>2, <3>1, <3>3 DEF Even, DeliveryFaithful, Delivered, Deliverable
    <3>5. HeartbeatAnswered'
      BY <1>1, <2>2, <3>1, <3>3 DEF Even, HeartbeatAnswered, Beats
    <3>6. pc' = "disconnected"
      BY <3>1
    <3> QED BY <3>4, <3>5, <3>6 DEF DeliveryInv, Unopened
  <2> QED BY <2>3, <2>4
<1> QED BY <1>4, <1>5, <1>6

LEMMA DeliveryReply == TypeOK /\ DeliveryInv /\ ReplyDrained => DeliveryInv'
<1> SUFFICES ASSUME TypeOK, DeliveryInv, ReplyDrained PROVE DeliveryInv'
  OBVIOUS
<1>1. /\ Behind /\ UNCHANGED <<wire, replies>> /\ out' = Append(out, "heartbeat") /\ pc' = "event"
      /\ out \in Seq(Payload \cup {"ready", "disconnected"}) /\ replies \in Nat
  BY DEF DeliveryInv, ReplyDrained, TypeOK
<1>2. "heartbeat" \in Payload /\ "heartbeat" \in Beats
  BY DEF Beats
<1>3. /\ Count(out', Payload) = Count(out, Payload) + 1 /\ Count(out', Beats) = Count(out, Beats) + 1
      /\ Numbered(out', Payload) = Numbered(out, Payload) \cup {<<Count(out, Payload) + 1, "heartbeat">>}
  BY <1>1, <1>2, CountAppend
<1>4. Even'
  BY <1>1, <1>3 DEF Even, Behind, Delivered, Deliverable
<1> QED BY <1>1, <1>4 DEF DeliveryInv, Even, DeliveryFaithful, HeartbeatAnswered, Beats, Unopened

LEMMA DeliveryInit == Init => DeliveryInv
<1> SUFFICES ASSUME Init PROVE DeliveryInv
  OBVIOUS
<1>1. out = <<>> /\ wire = <<>> /\ replies = 0 /\ pc = "start"
  BY DEF Init
<1> QED
  BY <1>1, CountEmpty
  DEF DeliveryInv, Even, DeliveryFaithful, HeartbeatAnswered, Delivered, Deliverable, Beats, Unopened

LEMMA DeliveryNext == TypeOK /\ DeliveryInv /\ [Next]_vars => DeliveryInv'
<1> SUFFICES ASSUME TypeOK, DeliveryInv, [Next]_vars PROVE DeliveryInv'
  OBVIOUS
<1>1. ASSUME NEW k \in FrameKind, ReadPayload(k) PROVE DeliveryInv'
  BY <1>1, DeliveryFrame
<1>2. CASE ReplyDrained
  BY <1>2, DeliveryReply
<1>3. CASE Handshake
  BY <1>3, DeliveryKept
  DEF Handshake, Start, ConnectOk, ConnectFails, ProbeReply, EnterInit, TlsUpgraded, InitAck,
      LoginAck, SessionInit, Rejected, HandshakeTimeout, Unopened
<1>4. CASE EnterLoop \/ NextEvent \/ ReadHeader \/ FrameTooLarge \/ ReadFails
  BY <1>4, DeliveryKept DEF EnterLoop, NextEvent, ReadHeader, FrameTooLarge, ReadFails
<1>5. CASE ReplyFails
  BY <1>5, DeliveryKept DEF ReplyFails
<1>6. CASE Cleanup \/ CleanupDone
  BY <1>6, DeliveryKept DEF Cleanup, CleanupDone, Unopened, Live
<1>7. CASE Abort
  <2>1. pc \in Unopened \cup {"ready", "event", "header", "payload", "reply"} \/ pc \notin Live \cup Unopened
    BY DEF Live
  <2> QED BY <1>7, <2>1, DeliveryKept DEF Abort, Live, Unopened
<1>8. CASE UNCHANGED driver
  BY <1>8, DeliveryKept
<1> QED
  BY <1>1, <1>2, <1>3, <1>4, <1>5, <1>6, <1>7, <1>8
  DEF Next, Driver, ConnectedLoop, Owner, Core, Close, CloseDone, Send, Sent, Arrive, Stall, vars

LEMMA DeliveryCorrect == Spec => []DeliveryInv
BY DeliveryInit, DeliveryNext, TypeCorrect, PTL DEF Spec

\* The consumer gets every frame that decodes, once and in order, except perhaps
\* a last heartbeat whose reply has not gone out.
THEOREM DeliversEveryFrame == Spec => []DeliveryFaithful
<1>1. DeliveryInv => DeliveryFaithful
  BY DEF DeliveryInv
<1> QED BY <1>1, DeliveryCorrect, PTL

\* A heartbeat is answered before the consumer sees it and nothing else is.
THEOREM AnswersBeforeDelivery == Spec => []HeartbeatAnswered
<1>1. DeliveryInv => HeartbeatAnswered
  BY DEF DeliveryInv
<1> QED BY <1>1, DeliveryCorrect, PTL

--------------------------------------------------------------------------------
(* The negotiation at the end of the handshake, for every core.              *)

\* The three features that change a field can be told from the layout.
LEMMA LayoutTells ==
  ASSUME NEW f \in SUBSET Feature, NEW g \in SUBSET Feature
  PROVE  MessageLayout(f) = MessageLayout(g) <=> f \ {"LongMessageId"} = g \ {"LongMessageId"}
<1>1. /\ \A x \in SUBSET Feature : MessageLayout(x)[2][2] = IF "LongTime" \in x THEN "u64" ELSE "u32"
      /\ \A x \in SUBSET Feature :
           Len(MessageLayout(x)) = 11 + (IF "SenderPrefixes" \in x THEN 1 ELSE 0)
                                      + (IF "RichMessages" \in x THEN 2 ELSE 0)
  BY DEF MessageLayout, BufferInfoLayout
<1>2. ASSUME MessageLayout(f) = MessageLayout(g)
      PROVE  f \ {"LongMessageId"} = g \ {"LongMessageId"}
  <2>1. "LongTime" \in f <=> "LongTime" \in g
    BY <1>1, <1>2
  <2>2. /\ "SenderPrefixes" \in f <=> "SenderPrefixes" \in g
        /\ "RichMessages" \in f <=> "RichMessages" \in g
    BY <1>1, <1>2
  <2> QED
    BY <2>1, <2>2 DEF Feature
<1>3. ASSUME f \ {"LongMessageId"} = g \ {"LongMessageId"}
      PROVE  MessageLayout(f) = MessageLayout(g)
  <2>1. /\ "LongTime" \in f <=> "LongTime" \in g
        /\ "SenderPrefixes" \in f <=> "SenderPrefixes" \in g
        /\ "RichMessages" \in f <=> "RichMessages" \in g
    BY <1>3
  <2> QED
    BY <2>1 DEF MessageLayout
<1> QED
  BY <1>2, <1>3

\* A core without LongMessageId writes another MsgId than the one that is read, and
\* one with it writes what the reader of the same features reads.
LEMMA AgreedWhen ==
  ASSUME core \in KnownCore
  PROVE  Agreed <=> /\ "LongMessageId" \in CoreFeatures(core)
                    /\ MessageLayout(PeerFeatures(core)) = MessageLayout(CoreFeatures(core))
<1> DEFINE p == PeerFeatures(core)
           c == CoreFeatures(core)
<1> HIDE DEF p, c
<1>1. \A x : Layout("Message", x) = MessageLayout(x) /\ Layout("MsgId", x) = IdLayout("u64")
  BY DEF Layout, IdType
<1>2. ASSUME "LongMessageId" \in c
      PROVE  \A name \in {"Message", "MsgId"} : CoreLayout(name, c) = Layout(name, c)
  BY <1>2 DEF CoreLayout
<1>3. ASSUME "LongMessageId" \notin c
      PROVE  Layout("MsgId", p) # CoreLayout("MsgId", c)
  <2>1. CoreLayout("MsgId", c) = <<<<IdLayout("u64")[1][1], "u32">>>> \o Tail(IdLayout("u64"))
    BY <1>1, <1>3 DEF CoreLayout
  <2>2. CoreLayout("MsgId", c)[1][2] = "u32" /\ IdLayout("u64")[1][2] = "u64"
    BY <2>1 DEF IdLayout
  <2> QED
    BY <1>1, <2>2
<1> QED
  BY <1>1, <1>2, <1>3 DEF Agreed, p, c

\* For every core, supporting and naming what it may, and whatever is offered to it:
\* reader and writer lay out a Message and a MsgId alike exactly if the core has
\* LongMessageId and, naming nothing, supports all that was offered.
THEOREM NegotiationSettles == core \in KnownCore => MessagesInSync
<1> SUFFICES ASSUME core \in KnownCore PROVE MessagesInSync
  OBVIOUS
<1> USE OfferedAssumption
<1> DEFINE p == PeerFeatures(core)
           c == CoreFeatures(core)
<1>1. /\ core.supports \subseteq Feature /\ core.list \subseteq Feature
      /\ core.extended \in BOOLEAN /\ core.bits = core.supports \cap HasLegacyBit
      /\ core.list # {} => core.extended /\ core.list = core.supports
  BY Zenon DEF KnownCore
<1>2. p \in SUBSET Feature /\ c \in SUBSET Feature
  BY DEF PeerFeatures, CoreFeatures
<1>3. CASE core.list # {}
  <2>1. p = Offered \cap core.supports
    BY <1>1, <1>3 DEF PeerFeatures
  <2>2. c = Offered \cap core.supports
    BY <1>1, <1>3 DEF CoreFeatures
  <2> QED
    BY <2>1, <2>2, <1>3, AgreedWhen DEF MessagesInSync
<1>4. CASE core.list = {} /\ core.extended
  <2>1. p = Offered /\ c = Offered \cap core.supports
    BY <1>1, <1>4 DEF PeerFeatures, CoreFeatures
  <2>2. "LongMessageId" \in c =>
          (p \ {"LongMessageId"} = c \ {"LongMessageId"} <=> Offered \subseteq core.supports)
    BY <2>1
  <2> QED
    BY <1>2, <1>4, <2>2, AgreedWhen, LayoutTells DEF MessagesInSync
<1>5. CASE core.list = {} /\ ~core.extended
  <2>1. "LongMessageId" \notin c
    BY <1>5 DEF CoreFeatures, HasLegacyBit
  <2> QED
    BY <2>1, AgreedWhen DEF MessagesInSync
<1> QED
  BY <1>1, <1>3, <1>4, <1>5
================================================================================
