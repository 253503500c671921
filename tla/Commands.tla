-------------------------------- MODULE Commands ---------------------------------
(***************************************************************************)
(* One run of the program from the command line: the settings it puts      *)
(* together from flags, the config file, the environment and a prompt, the *)
(* handshake it makes with them, and its exit code (cli.py, config.py).    *)
(*                                                                         *)
(* probe-only and login-only make the handshake themselves, stream-only,   *)
(* dump-state and ui make it through QuasselConnection, and the code of    *)
(* the first two of these is read off its terminal Disconnected.           *)
(*                                                                         *)
(* A setting is named by the place it came from.  User interface and       *)
(* event stream are AppUi's and Connection's subjects.                     *)
(***************************************************************************)
EXTENDS Naturals

None  == "none"
Empty == "empty"   \* an empty string

Direct    == {"probe-only", "login-only"}
Streaming == {"stream-only", "dump-state"}
Headless  == Direct \cup Streaming
Modes     == Headless \cup {"ui"}

\* What is set on the command line.
Flags ==
  [mode : Modes, server : {None, "home", "ghost"}, host : {None, "flag"},
   port : {None, "flag"}, user : {None, "flag"}, password : {None, Empty, "flag"},
   noTls : BOOLEAN, insecure : BOOLEAN, allowPlaintext : BOOLEAN]

\* _parse_server: an empty value is None.
Section ==
  [host : {None, "section"}, port : {None, "section"}, user : {None, "section"},
   password : {None, "section"}, tls : {None, "yes", "no"}, insecure : {None, "yes", "no"}]

NoSection == [host |-> None, port |-> None, user |-> None, password |-> None,
              tls |-> None, insecure |-> None]

\* The config file: [server:home] is its only section, and the default or not.
File == [state : {"absent", "broken"}, default : {FALSE}, home : {NoSection}]
          \cup [state : {"read"}, default : BOOLEAN, home : Section]

Running == 99   \* no exit code yet

VARIABLES
  args,     \* the namespace, changed in place
  phase,
  wire,     \* "plain", "unverified" or "verified"
  exit,     \* the exit code
  ending,   \* history: what ended the talk with the core
  asked,    \* history: the ways to be careless that the flags or the section of
            \* the server in use ask for
  told      \* history: the wire the password went over, or None

vars == <<args, phase, wire, exit, ending, asked, told>>

\* The reason something ended: a kind, the phase, and what the core's text says.
Ending(kind, words) == [kind |-> kind, at |-> phase, words |-> words]
NoEnding == [kind |-> None, at |-> None, words |-> None]

FlagAsks(flags) ==
  {w \in {"plain"} : flags.noTls} \cup {w \in {"unverified"} : flags.insecure}
SectionAsks(section) ==
  {w \in {"plain"} : section.tls = "no"}
    \cup {w \in {"unverified"} : section.insecure = "yes"}

\* main: ui-demo runs without a core, a bare command line without a default server
\* prints the help; a bare one with it is ui, a server's name ui --server NAME.
Init ==
  /\ args \in {f \in Flags : /\ f.allowPlaintext => f.mode = "probe-only"
                             /\ f.mode = "probe-only" => f.user = None /\ f.password = None}
  /\ phase = "resolve" /\ wire = "plain" /\ exit = Running
  /\ ending = NoEnding /\ asked = FlagAsks(args) /\ told = None

Exits(code) == exit' = code /\ phase' = "over"
Goes(to)    == phase' = to /\ exit' = exit
Quiet       == UNCHANGED <<ending, told, wire>>

--------------------------------------------------------------------------------
(* Settings and credentials.                                                   *)

\* The first that is set.
Or(a, b) == IF a = None THEN b ELSE a

\* Mutant of Merge: TLS only where the section says so.
MergeNoTls(section) ==
  [args EXCEPT !.host = Or(@, section.host), !.port = Or(@, section.port),
               !.user = Or(@, section.user), !.password = Or(@, section.password),
               !.noTls = @ \/ section.tls # "yes",
               !.insecure = @ \/ section.insecure = "yes"]

\* The config can only switch TLS and verification off.
Merge(section) ==
  [args EXCEPT !.host = Or(@, section.host), !.port = Or(@, section.port),
               !.user = Or(@, section.user), !.password = Or(@, section.password),
               !.noTls = @ \/ section.tls = "no",
               !.insecure = @ \/ section.insecure = "yes"]

\* resolve_server
Found(file) == \/ args.server = "home" /\ file.state = "read"
               \/ args.server = None /\ file.default
Consulted(file) == IF Found(file) THEN file.home ELSE NoSection

\* _resolve_connection_args: with host and port on the command line and no --server
\* the config file is not even opened.
Complete == args.server = None /\ args.host # None /\ args.port # None

ResolveFromFlags ==
  /\ phase = "resolve" /\ Complete
  /\ Goes("credentials") /\ Quiet /\ UNCHANGED <<args, asked>>

ResolveFromFile(file) ==
  /\ phase = "resolve" /\ ~Complete /\ Quiet
  /\ LET section == Consulted(file)
         merged  == Merge(section)
     IN IF \/ file.state = "broken"
           \/ args.server # None /\ ~Found(file)
           \/ None \in {merged.host, merged.port}
        THEN Exits(1) /\ UNCHANGED <<args, asked>>
        ELSE /\ Goes("credentials")
             /\ args' = merged
             /\ asked' = asked \cup SectionAsks(section)

\* --user or QUASSEL_USER, --password or QUASSEL_PASSWORD; probe-only needs neither.
\* An empty value counts as unset on the left of an "or" only.
Credentials(envUser, envPassword) ==
  /\ phase = "credentials" /\ Quiet /\ UNCHANGED asked
  /\ LET password == IF args.password \in {None, Empty} THEN envPassword
                                                        ELSE args.password
     IN /\ args' = [args EXCEPT !.user = Or(@, envUser), !.password = password]
        /\ IF args.mode = "probe-only" THEN Goes("connect")
           ELSE IF args'.user = None \/ password = Empty THEN Exits(1)
           ELSE Goes(IF password = None THEN "prompt" ELSE "connect")

\* getpass, aborted by EOF or Ctrl+C.
Prompt(answer) ==
  /\ phase = "prompt" /\ Quiet /\ UNCHANGED asked
  /\ args' = [args EXCEPT !.password = answer]
  /\ IF answer = "prompt" THEN Goes("connect") ELSE Exits(1)

--------------------------------------------------------------------------------
(* Exit codes.                                                                 *)

\* login-only's and probe-only's own.  What is not a QuasselError, a reset of the
\* connection, is a traceback.
DirectCode(e) ==
  CASE e.kind = "refused"           -> 2
    [] e.kind = "downgrade"         -> 5
    [] e.kind = "unconfigured"      -> 6
    [] e.kind = "reset"             -> 1
    [] e.kind = "ClientInitReject"  /\ e.at = "init"  -> 3
    [] e.kind = "ClientLoginReject" /\ e.at = "login" -> 7
    [] e.kind = "CoreSetupReject"   /\ e.at = "login" -> 6
    [] OTHER -> 4

\* What the reason of a Disconnected says in words of the core's choosing.
Says(e, words) == e.words = words

\* Only in answer to ClientInit is it a reject of it.
RejectedInit(e) == e.kind = "ClientInitReject" /\ e.at = "init"

\* Mutant of EventCode: the reason is asked before the type of the error.
ReasonFirst(e) ==
  IF e.kind = "downgrade" \/ Says(e, "tls plaintext") THEN 5
  ELSE IF e.kind = "unconfigured" \/ Says(e, "not configured") THEN 6
  ELSE IF RejectedInit(e) \/ Says(e, "rejected clientinit") THEN 3
  ELSE IF e.kind = "ClientLoginReject" THEN 7
  ELSE IF e.kind \in {"refused", "tls failed"} THEN 2
  ELSE 4

\* _stream_disconnect_exit_code and its copy for dump-state: the order counts.
EventCode(e) ==
  IF e.kind = "ClientLoginReject" THEN 7
  ELSE IF e.kind \in {"refused", "tls failed"} THEN 2
  ELSE IF e.kind = "downgrade" \/ Says(e, "tls plaintext") THEN 5
  ELSE IF e.kind = "unconfigured" \/ Says(e, "not configured") THEN 6
  ELSE IF RejectedInit(e) \/ Says(e, "rejected clientinit") THEN 3
  ELSE 4

\* ui: any failure before the session is fatal, later ones leave the app running.
Code(e) ==
  IF args.mode \in Direct THEN DirectCode(e)
  ELSE IF args.mode = "ui" THEN 1
  ELSE EventCode(e)

Fails(kind, words) ==
  /\ ending' = Ending(kind, words)
  /\ Exits(Code(ending'))
  /\ UNCHANGED <<args, wire, asked, told>>

Succeeds ==
  /\ ending' = Ending("done", None)
  /\ Exits(0)
  /\ UNCHANGED <<args, wire, asked, told>>

Advances(to) == Goes(to) /\ UNCHANGED <<args, wire, ending, asked, told>>

--------------------------------------------------------------------------------
(* The handshake.                                                              *)

Connect ==
  /\ phase = "connect"
  /\ Fails("refused", None) \/ Advances("probe")

\* The core enables encryption, or not; it may not enable what was not offered.
ProbeReply(encrypted) ==
  /\ phase = "probe"
  /\ IF encrypted
     THEN IF args.noTls THEN Fails("bad probe", None) ELSE Advances("tls")
     ELSE IF args.noTls \/ args.allowPlaintext THEN Advances("init")
     ELSE Fails("downgrade", None)

\* start_tls_on_writer
Upgrade(trusted) ==
  /\ phase = "tls"
  /\ IF trusted \/ args.insecure
     THEN /\ Goes("init")
          /\ wire' = IF trusted /\ ~args.insecure THEN "verified" ELSE "unverified"
          /\ UNCHANGED <<args, ending, asked, told>>
     ELSE Fails("tls failed", None)
UpgradeFails == phase = "tls" /\ Fails("tls failed", None)

\* The core's messages, "unconfigured" being a ClientInitAck that says so, "garbage"
\* one with an unknown MsgType or one that does not decode.  It may send any at any
\* time.
Message == {"ClientInitAck", "unconfigured", "ClientInitReject", "CoreSetupReject",
            "ClientLoginAck", "ClientLoginReject", "SessionInit", "garbage"}

\* What text of the core's can say, of the words the codes look for in their order.
Said == {None, "tls plaintext", "not configured", "rejected clientinit"}

\* The text of a login reject, an unknown MsgType and the name of a type that has no
\* decoder are quoted in every phase, that of the other rejects in answer to
\* ClientInit only.
Quoted == {"ClientLoginReject", "garbage"}
            \cup {m \in {"ClientInitReject", "CoreSetupReject"} : phase = "init"}
Words(m) == IF m \in Quoted THEN Said ELSE {None}

Expected == CASE phase = "init"    -> {"ClientInitAck"}
                                        \cup {m \in {"unconfigured"} : args.mode = "probe-only"}
              [] phase = "login"   -> {"ClientLoginAck"}
              [] phase = "session" -> {"SessionInit"}
              [] OTHER -> {}

\* An unconfigured core matters in answer to ClientInit only.
Kind(m) == IF m = "unconfigured" /\ phase # "init" THEN "ClientInitAck" ELSE m

\* ClientInit is answered: ClientLogin, with the password, goes out.
SendsLogin ==
  /\ Goes("login") /\ told' = wire
  /\ UNCHANGED <<args, wire, ending, asked>>

Receive(m, words) ==
  /\ phase \in {"init", "login", "session"}
  /\ IF m \notin Expected THEN Fails(Kind(m), words)
     ELSE IF phase = "init"  THEN IF args.mode = "probe-only" THEN Succeeds ELSE SendsLogin
     ELSE IF phase = "login" THEN Advances("session")
     ELSE IF args.mode = "login-only" THEN Succeeds
     ELSE Advances("connected")

\* A session lost under ui leaves the app up: its code is 0.
Lost(kind) ==
  /\ phase \in {"probe", "init", "login", "session", "connected"}
  /\ IF args.mode = "ui" /\ phase = "connected" THEN Succeeds ELSE Fails(kind, None)

\* Too many undecodable frames in a row, or an error of the client's own over a frame:
\* the reason quotes the error, and the error the frame.
Breaks(kind, words) ==
  /\ phase = "connected"
  /\ IF args.mode = "ui" THEN Succeeds ELSE Fails(kind, words)

\* The deadline over the handshake, and the watchdog behind it: only
\* QuasselConnection has them.
Stalls ==
  /\ args.mode \notin Direct
  /\ phase \in {"probe", "tls", "init", "login", "session"}
  /\ Fails("stalled", None)
GoesQuiet ==
  /\ phase = "connected"
  /\ IF args.mode = "ui" THEN Succeeds ELSE Fails("stalled", None)

--------------------------------------------------------------------------------
(* Ends that are not the core's.                                               *)

Talking == phase \in {"connect", "probe", "tls", "init", "login", "session", "connected"}

\* Mutant of TimeUp: --duration is ignored.
TimeUpNever == FALSE

\* wait_for(run(), duration), over connect and handshake too.
TimeUp == Talking /\ args.mode \in Streaming

Elapses == TimeUp /\ Succeeds

MaxEvents == phase = "connected" /\ args.mode = "stream-only" /\ Succeeds

UserQuits == Talking /\ args.mode = "ui" /\ Succeeds

\* KeyboardInterrupt out of asyncio.run: 128 + SIGINT.
Interrupted ==
  /\ Talking /\ args.mode \in Headless
  /\ ending' = Ending("interrupted", None)
  /\ Exits(130)
  /\ UNCHANGED <<args, wire, asked, told>>

Settle ==
  \/ ResolveFromFlags
  \/ \E file \in File : ResolveFromFile(file)
  \/ \E user \in {None, "env"}, password \in {None, Empty, "env"} :
       Credentials(user, password)
  \/ \E answer \in {Empty, "aborted", "prompt"} : Prompt(answer)

Next ==
  \/ Settle
  \/ Connect
  \/ \E yes \in BOOLEAN : ProbeReply(yes) \/ Upgrade(yes)
  \/ UpgradeFails
  \/ \E m \in Message : \E words \in Words(m) : Receive(m, words)
  \/ \E kind \in {"closed", "reset"} : Lost(kind)
  \/ \E kind \in {"desync", "internal"}, words \in Said : Breaks(kind, words)
  \/ Stalls \/ GoesQuiet \/ Elapses \/ MaxEvents \/ UserQuits \/ Interrupted

\* Settings are put together without the core, a user who is prompted answers, and
\* the clock runs.  The core owes nothing.
Spec == Init /\ [][Next]_vars /\ WF_vars(Settle) /\ WF_vars(Elapses)

\* Every variable has a value of its sort.
TypeOK ==
  /\ phase \in {"resolve", "credentials", "prompt", "connect", "probe", "tls", "init",
                "login", "session", "connected", "over"}
  /\ exit \in {Running, 130} \cup 0 .. 7
  /\ wire \in {"plain", "unverified", "verified"}
  /\ asked \subseteq {"plain", "unverified"}
  /\ told \in {None, "plain", "unverified", "verified"}

--------------------------------------------------------------------------------
(* Properties.                                                                 *)

\* The password goes over a wire that is not a verified TLS connection only if a
\* flag, or the section of the server in use, says in so many words that it may:
\* a silent config, a core that declines and a bad certificate all end the run
\* before.  probe-only never sends one.
PasswordProtected ==
  told # None => args.mode # "probe-only" /\ (told = "verified" \/ told \in asked)

\* The exit codes of login-only's docstring, by what ended the run.
Documented(e) ==
  CASE e.kind = "done"              -> 0
    [] e.kind = "interrupted"       -> 130
    [] e.kind = "refused"           -> 2
    [] e.kind = "ClientInitReject" /\ e.at = "init"  -> 3
    [] e.kind = "downgrade"         -> 5
    [] e.kind \in {"unconfigured", "CoreSetupReject"} /\ e.at \in {"init", "login"} -> 6
    [] e.kind = "ClientLoginReject" -> 7
    [] OTHER -> 4

\* Where a code may differ from it: text of the core's that has the words the code
\* looks for, in a rejected ClientInit or setup, an unknown or undecodable message of
\* the handshake or the frames that break a session; a TLS handshake that
\* fails; a setup reject; a login reject out of turn; and a connection reset under
\* login-only or probe-only.  No text of a login reject makes a difference.
Differs(e) ==
  \/ args.mode \in Streaming /\ \/ e.kind = "tls failed"
                                \/ e.kind = "CoreSetupReject" /\ e.at # "session"
                                \/ e.kind # "ClientLoginReject" /\ e.words # None
  \/ args.mode \in Direct /\ \/ e.kind = "reset"
                             \/ e.kind = "CoreSetupReject" /\ e.at = "init"
                             \/ e.kind = "ClientLoginReject" /\ e.at # "login"

\* The exit code of a headless command tells what ended its talk with the core, by
\* the one table the four share, whatever the order of the core's messages and
\* outside the differences listed above; a login reject gives 7 to stream-only and
\* dump-state whatever its text and its turn.
ExitCodeTells ==
  args.mode \in Headless /\ ending # NoEnding /\ exit # Running /\ ~Differs(ending)
    => exit = Documented(ending)

\* stream-only and dump-state end in the time they were given, whatever the core
\* does or leaves undone.
TimedCommandsEnd == args.mode \in Streaming ~> exit # Running

================================================================================
