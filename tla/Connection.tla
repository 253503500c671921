------------------------------- MODULE Connection -------------------------------
(***************************************************************************)
(* QuasselConnection (protocol/connection.py): one TCP/TLS socket driven   *)
(* by the async generator events().  Three tasks share the object:         *)
(*   - the driver, the task iterating events(); `pc` is the await or the   *)
(*     yield it is suspended at;                                           *)
(*   - the owner, which may call close() at any such point;                *)
(*   - a sender, which calls send().                                       *)
(* The core is arbitrary: it may send any frame at any time, or nothing,   *)
(* and may stop reading.  The contents of a frame are chosen when the      *)
(* driver reads it; `arrived` only counts what the socket has buffered.    *)
(***************************************************************************)
EXTENDS Naturals, Sequences, FiniteSets, SequencesExt

CONSTANTS
  MaxDecodeFailures,  \* _MAX_CONSECUTIVE_DECODE_FAILURES
  MaxArrivals         \* bound: how many units (headers, payloads, replies) the core sends

ASSUME MaxDecodeFailuresAssumption == MaxDecodeFailures \in Nat \ {0}
ASSUME MaxArrivalsAssumption == MaxArrivals \in Nat

VARIABLES
  tls,       \* self._tls
  state,     \* self._state
  closed,    \* self._closed
  refs,      \* TRUE iff self._reader and self._writer are not None
  socket,    \* the socket behind the writer: "none", "open" or "shut"
  secure,    \* the socket has been upgraded to TLS
  creds,     \* how ClientLogin was written: "unsent", "plain" or "tls"
  session,   \* self._session is not None
  pc,        \* where the driver is suspended
  failures,  \* consecutive_decode_failures
  wire,      \* every frame the connected loop has read, in order
  out,       \* every event events() has yielded, in order
  why,       \* the branch that produced the terminal event
  replies,   \* HeartBeatReply frames written
  arrived,   \* units buffered by the reader and not yet read
  budget,    \* units the core may still send
  stalled,   \* the core has stopped reading: drain() never returns
  closer,    \* the owner's close(): "idle", "closing" or "done"
  closedAt,  \* history: the pc at which that close() took effect, or "never"
  sender     \* the sender's send(): "idle", "drain" or "crashed"

vars == <<tls, state, closed, refs, socket, secure, creds, session, pc, failures,
          wire, out, why, replies, arrived, budget, stalled, closer, closedAt, sender>>
driver == <<pc, failures, wire, out, why, replies>>
link   == <<refs, socket, secure, creds, session>>
env    == <<budget, stalled>>
tasks  == <<closer, closedAt, sender>>

ConnState == {"INITIAL", "PROBING", "TLS_UPGRADING", "HANDSHAKE_INIT",
              "HANDSHAKE_LOGIN", "HANDSHAKE_SESSION", "CONNECTED", "CLOSED"}

\* SyncEvent, RpcEvent, InitDataEvent and InitRequestEvent are all "sync".
Payload   == {"sync", "heartbeat"}
FrameKind == Payload \cup {"heartbeatReply", "bad"}

Handshaking == {"probe", "tls", "init", "login", "session"}
Receiving   == {"header", "payload", "reply"}
Yielding    == {"ready", "event", "disconnected"}
PC == {"start", "connect", "cleanup", "done", "aborted", "refused"}
        \cup Handshaking \cup Receiving \cup Yielding

Init ==
  /\ tls \in BOOLEAN
  /\ state = "INITIAL" /\ closed = FALSE
  /\ refs = FALSE /\ socket = "none" /\ secure = FALSE
  /\ creds = "unsent" /\ session = FALSE
  /\ pc = "start" /\ failures = 0
  /\ wire = <<>> /\ out = <<>> /\ why = "none" /\ replies = 0
  /\ arrived = 0 /\ budget = MaxArrivals /\ stalled = FALSE
  /\ closer = "idle" /\ closedAt = "never" /\ sender = "idle"

--------------------------------------------------------------------------------
(* Helpers of the driver.  The definitions marked "Mutant" are not part of    *)
(* the model: each is a plausible bug that one of the properties must detect. *)

\* Mutant of Fail: the error path ends the iteration without telling.
FailQuietly(reason) == pc' = "disconnected" /\ why' = reason /\ UNCHANGED out

\* Every error path yields Disconnected first; _cleanup() runs only when the
\* consumer asks for the next event.
Fail(reason) ==
  /\ pc' = "disconnected"
  /\ out' = Append(out, "disconnected")
  /\ why' = reason

Goto(p) == pc' = p /\ UNCHANGED <<out, why>>

Yield(p, e) == pc' = p /\ out' = Append(out, e) /\ UNCHANGED why

\* The next statement dereferences self._reader or self._writer: once close()
\* has set them to None it raises, and a catch-all turns that into Disconnected.
GotoIfRefs(p) == IF refs THEN Goto(p) ELSE Fail("internal")

\* Mutant of Consume: a read that does not wait for data.
ConsumeUnguarded == arrived' = arrived - 1

Consume == arrived > 0 /\ arrived' = arrived - 1

KeepLoop == UNCHANGED <<failures, wire, replies>>
KeepRest == UNCHANGED <<tls, closed, env, tasks>>

\* A failure that needs no data (a deadline, EOF, a socket error), and one that
\* the data just read causes.
FailAt(pcs, reason) ==
  /\ pc \in pcs
  /\ Fail(reason) /\ KeepLoop /\ KeepRest /\ UNCHANGED <<state, arrived, link>>
RejectAt(pcs, reason) ==
  /\ pc \in pcs /\ Consume
  /\ Fail(reason) /\ KeepLoop /\ KeepRest /\ UNCHANGED <<state, link>>

--------------------------------------------------------------------------------
(* The handshake.                                                           *)

\* events() is single-use: a state other than INITIAL raises RuntimeError.
Start ==
  /\ pc = "start"
  /\ IF state = "INITIAL" THEN state' = "PROBING" /\ Goto("connect")
                          ELSE UNCHANGED state /\ Goto("refused")
  /\ KeepLoop /\ KeepRest /\ UNCHANGED <<arrived, link>>

\* open_tcp_connection returned; the handshake window opens and the probe is
\* written.  Nothing looks at _closed here.
ConnectOk ==
  /\ pc = "connect"
  /\ socket' = "open" /\ refs' = TRUE
  /\ Goto("probe") /\ KeepLoop /\ KeepRest
  /\ UNCHANGED <<state, secure, creds, session, arrived>>

ConnectFails == FailAt({"connect"}, "transport")

\* Setting HANDSHAKE_INIT and writing ClientInit.
EnterInit == state' = "HANDSHAKE_INIT" /\ GotoIfRefs("init")

\* Mutant of Negotiated: without the fail-closed branch.
NegotiatedOpen(encryption) == encryption => tls

\* Both mismatches are refused: encryption without our offer by
\* parse_probe_reply, none after our offer by the fail-closed branch.
Negotiated(encryption) == encryption = tls

\* The core's probe reply, with encryption on or off.
ProbeReply(encryption) ==
  /\ pc = "probe" /\ Consume
  /\ IF ~Negotiated(encryption) THEN Fail("handshake") /\ UNCHANGED state
     ELSE IF encryption THEN state' = "TLS_UPGRADING" /\ GotoIfRefs("tls")
     ELSE EnterInit
  /\ KeepLoop /\ KeepRest /\ UNCHANGED link

TlsUpgraded ==
  /\ pc = "tls" /\ socket = "open" /\ Consume
  /\ secure' = TRUE
  /\ EnterInit /\ KeepLoop /\ KeepRest
  /\ UNCHANGED <<refs, socket, creds, session>>

\* ClientInitAck of a configured core: ClientLogin is written next.
InitAck ==
  /\ pc = "init" /\ Consume
  /\ state' = "HANDSHAKE_LOGIN"
  /\ GotoIfRefs("login")
  /\ creds' = IF refs THEN (IF secure THEN "tls" ELSE "plain") ELSE creds
  /\ KeepLoop /\ KeepRest /\ UNCHANGED <<refs, socket, secure, session>>

LoginAck ==
  /\ pc = "login" /\ Consume
  /\ state' = "HANDSHAKE_SESSION"
  /\ GotoIfRefs("session") /\ KeepLoop /\ KeepRest /\ UNCHANGED link

\* SessionInit: events() sets CONNECTED and yields SessionReady, with no
\* await in between and no test of _closed.
SessionInit ==
  /\ pc = "session" /\ Consume
  /\ session' = TRUE
  /\ state' = "CONNECTED"
  /\ Yield("ready", "ready") /\ KeepLoop /\ KeepRest
  /\ UNCHANGED <<refs, socket, secure, creds>>

\* A malformed, unexpected or rejecting reply (AuthError, HandshakeError,
\* ProbeError, a failed certificate check).
Rejected == RejectAt(Handshaking, "handshake")

\* The handshake window expires, or the socket reports EOF or an error.
HandshakeTimeout == FailAt(Handshaking, "handshake")

--------------------------------------------------------------------------------
(* The connected loop.                                                      *)

\* The consumer asks for the event after SessionReady: _connected_loop starts.
EnterLoop ==
  /\ pc = "ready"
  /\ GotoIfRefs("header")
  /\ failures' = 0
  /\ KeepRest /\ UNCHANGED <<state, wire, replies, arrived, link>>

NextEvent ==
  /\ pc = "event"
  /\ GotoIfRefs("header")
  /\ KeepLoop /\ KeepRest /\ UNCHANGED <<state, arrived, link>>

ReadHeader ==
  /\ pc = "header" /\ Consume
  /\ Goto("payload")
  /\ KeepLoop /\ KeepRest /\ UNCHANGED <<state, link>>

\* FrameTooLargeError is raised before a byte of the payload is read.
FrameTooLarge == RejectAt({"header"}, "frame")

\* asyncio.timeout around the header (liveness) or the payload (10 x), or the
\* reader reporting EOF or a socket error.
ReadFails == FailAt({"header", "payload"}, "transport")

\* Mutant of CountFailure: a good frame does not reset the counter.
CountFailureNoReset(kind) == IF kind = "bad" THEN failures + 1 ELSE failures

CountFailure(kind) == IF kind = "bad" THEN failures + 1 ELSE 0

SkipFrame ==
  /\ IF CountFailure("bad") >= MaxDecodeFailures
     THEN Fail("desync") ELSE GotoIfRefs("header")
  /\ UNCHANGED replies

\* Mutant of DeliverFrame: the frame after a skipped one is swallowed.
DeliverFrameUnlessSkipping ==
  IF failures > 0 THEN GotoIfRefs("header") ELSE Yield("event", "sync")

DeliverFrame == Yield("event", "sync")

\* Mutant of AnswerHeartbeat: the event is yielded before the reply is written.
AnswerHeartbeatLate == Yield("event", "heartbeat") /\ UNCHANGED replies

AnswerHeartbeat ==
  /\ GotoIfRefs("reply")
  /\ replies' = IF refs THEN replies + 1 ELSE replies

\* A whole frame is in: decode it and handle it.
ReadPayload(kind) ==
  /\ pc = "payload" /\ Consume
  /\ wire' = Append(wire, kind)
  /\ failures' = CountFailure(kind)
  /\ \/ kind = "bad" /\ SkipFrame
     \/ kind = "heartbeatReply" /\ GotoIfRefs("header") /\ UNCHANGED replies
     \/ kind = "sync" /\ DeliverFrame /\ UNCHANGED replies
     \/ kind = "heartbeat" /\ AnswerHeartbeat
  /\ KeepRest /\ UNCHANGED <<state, link>>

\* drain() of the heartbeat reply returned: only now is the event yielded.
ReplyDrained ==
  /\ pc = "reply" /\ ~stalled
  /\ Yield("event", "heartbeat")
  /\ KeepLoop /\ KeepRest /\ UNCHANGED <<state, arrived, link>>

\* Mutant of ReplyFails: the reply is written without a deadline.
ReplyFailsNoDeadline == ~stalled /\ FailAt({"reply"}, "reply")

\* The reply's own deadline expires, or the write fails.
ReplyFails == FailAt({"reply"}, "reply")

--------------------------------------------------------------------------------
(* Teardown.                                                                *)

\* Mutant of MarkClosed: the writer is forgotten.
MarkClosedOnly ==
  /\ closed' = TRUE
  /\ state' = IF closed THEN state ELSE "CLOSED"
  /\ UNCHANGED socket

\* _cleanup() up to its await: empty once anybody has closed the connection.
MarkClosed ==
  /\ closed' = TRUE
  /\ state' = IF closed THEN state ELSE "CLOSED"
  /\ socket' = IF ~closed /\ refs THEN "shut" ELSE socket

\* The consumer asks again after Disconnected.
Cleanup ==
  /\ pc = "disconnected"
  /\ MarkClosed
  /\ Goto(IF ~closed /\ refs THEN "cleanup" ELSE "done")
  /\ KeepLoop
  /\ UNCHANGED <<tls, refs, secure, creds, session, arrived, env, tasks>>

\* close_writer returned, after at most CLOSE_WRITER_GRACE_SECONDS.
CleanupDone ==
  /\ pc = "cleanup"
  /\ refs' = FALSE
  /\ Goto("done") /\ KeepLoop /\ KeepRest
  /\ UNCHANGED <<state, socket, secure, creds, session, arrived>>

\* CancelledError at an await, or GeneratorExit at a yield: BaseExceptions
\* pass through every handler, and no finally runs.
Abort ==
  /\ pc \notin {"start", "done", "aborted", "refused"}
  /\ Goto("aborted")
  /\ KeepLoop /\ KeepRest /\ UNCHANGED <<state, arrived, link>>

\* The owner's close().  A second call finds _closed set and does nothing.
Close ==
  /\ closer = "idle"
  /\ MarkClosed
  /\ closer' = IF ~closed /\ refs THEN "closing" ELSE "done"
  /\ closedAt' = IF closed THEN closedAt ELSE pc
  /\ UNCHANGED <<tls, refs, secure, creds, session, arrived, driver, env, sender>>

CloseDone ==
  /\ closer = "closing"
  /\ refs' = FALSE
  /\ closer' = "done"
  /\ UNCHANGED <<tls, state, closed, socket, secure, creds, session, arrived,
                 driver, env, closedAt, sender>>

--------------------------------------------------------------------------------
(* The sender and the core.                                                 *)

\* Mutant of MaySend: without the state check.
MaySendAnytime == TRUE

\* send() in any other state raises QuasselError and changes nothing.
MaySend == state = "CONNECTED"

\* _send_signalproxy asserts that the writer is there, writes and drains.
Send ==
  /\ sender = "idle" /\ MaySend
  /\ sender' = IF refs THEN "drain" ELSE "crashed"
  /\ UNCHANGED <<tls, state, closed, arrived, link, driver, env, closer, closedAt>>

Sent ==
  /\ sender = "drain" /\ ~stalled
  /\ sender' = "idle"
  /\ UNCHANGED <<tls, state, closed, arrived, link, driver, env, closer, closedAt>>

Arrive ==
  /\ socket = "open" /\ budget > 0
  /\ arrived' = arrived + 1 /\ budget' = budget - 1
  /\ UNCHANGED <<tls, state, closed, stalled, link, driver, tasks>>

Stall ==
  /\ ~stalled /\ socket = "open"
  /\ stalled' = TRUE
  /\ UNCHANGED <<tls, state, closed, arrived, budget, link, driver, tasks>>

--------------------------------------------------------------------------------

Handshake ==
  \/ Start \/ ConnectOk \/ ConnectFails
  \/ \E e \in BOOLEAN : ProbeReply(e)
  \/ TlsUpgraded \/ InitAck \/ LoginAck \/ SessionInit
  \/ Rejected \/ HandshakeTimeout

ConnectedLoop ==
  \/ EnterLoop \/ NextEvent \/ ReadHeader \/ FrameTooLarge \/ ReadFails
  \/ \E k \in FrameKind : ReadPayload(k)
  \/ ReplyDrained \/ ReplyFails

Driver == Handshake \/ ConnectedLoop \/ Cleanup \/ CleanupDone

Owner == Abort \/ Close \/ CloseDone

Core == Arrive \/ Stall

Next == Driver \/ Owner \/ Send \/ Sent \/ Core

Spec == Init /\ [][Next]_vars

\* The event loop keeps scheduling the driver's task and fires its timers, and
\* the consumer keeps iterating.  Nothing is assumed of the core or the owner.
FairSpec == Spec /\ WF_vars(Driver)

--------------------------------------------------------------------------------
(* Properties.                                                              *)

\* Type invariant of every variable.
TypeOK ==
  /\ tls \in BOOLEAN /\ state \in ConnState /\ closed \in BOOLEAN
  /\ refs \in BOOLEAN /\ socket \in {"none", "open", "shut"} /\ secure \in BOOLEAN
  /\ creds \in {"unsent", "plain", "tls"} /\ session \in BOOLEAN
  /\ pc \in PC /\ failures \in Nat
  /\ wire \in Seq(FrameKind)
  /\ out \in Seq(Payload \cup {"ready", "disconnected"})
  /\ why \in {"none", "internal", "transport", "handshake", "frame", "desync", "reply"}
  /\ replies \in Nat /\ arrived \in Nat /\ budget \in Nat /\ stalled \in BOOLEAN
  /\ closer \in {"idle", "closing", "done"}
  /\ closedAt \in PC \cup {"never"}
  /\ sender \in {"idle", "drain", "crashed"}

\* The iterator implements the promise of EventStream, whatever the core
\* sends, whenever close() is called and however the driver is cancelled.
Promise == INSTANCE EventStream WITH stream <- out, ended <- (pc = "done")
ImplementsEventStream == Promise!Spec

\* TLS was asked for => the password is never written to a plaintext socket,
\* however the probe, the upgrade and close() interleave.
CredentialsProtected == tls => creds # "plain"

\* How many of the first n entries of s are in S, and the entries in S, each with
\* its number among them: two sequences have the same ones in the same order iff
\* these sets are equal.
CountTo(s, S, n) == Cardinality({i \in 1..n : s[i] \in S})
Count(s, S) == CountTo(s, S, Len(s))
Numbered(s, S) == {<<CountTo(s, S, i), s[i]>> : i \in {j \in DOMAIN s : s[j] \in S}}

Delivered == Numbered(out, Payload)
Deliverable == Numbered(wire, Payload)

\* No decodable frame is lost, duplicated or reordered between the wire and
\* the consumer: at most the last one, a heartbeat whose reply has not been
\* sent or could not be, is not (yet) delivered.
DeliveryFaithful ==
  \/ Delivered = Deliverable
  \/ /\ Deliverable = Delivered \cup {<<Count(out, Payload) + 1, "heartbeat">>}
     /\ pc = "reply" \/ why \in {"reply", "internal"} \/ pc = "aborted"

\* k consecutive undecodable frames ending at frame i of the wire.
BadRun(k, i) == i >= k /\ \A j \in (i - k + 1)..i : wire[j] = "bad"

\* The skip path gives up on a run of MaxDecodeFailures undecodable frames at
\* once, and blames desync only for such a run.
DesyncDetected ==
  /\ \A i \in DOMAIN wire :
        BadRun(MaxDecodeFailures, i) => i = Len(wire) /\ why = "desync"
  /\ why = "desync" => BadRun(MaxDecodeFailures, Len(wire))

\* Every heartbeat the consumer sees has been answered, and nothing else is:
\* the reply never waits for the consumer.
HeartbeatAnswered ==
  Count(out, {"heartbeat"}) <= replies /\ replies <= Count(wire, {"heartbeat"})

\* Whoever iterates to the end gets the socket closed, unless the owner called
\* close() while the TCP connect was pending.
ReleasesSocket == pc = "done" /\ closedAt # "connect" => socket # "open"

\* The state check of send() keeps the writer assertion of _send_signalproxy
\* from failing, unless close() was called in the middle of the handshake.
WriterPresent == sender = "crashed" => closedAt \in Handshaking

\* A silent, stalled or vanished core never hangs the consumer: the iteration
\* of a started connection always comes to its end.
IterationEnds == (pc = "connect") ~> (pc \in {"done", "aborted"})
================================================================================
