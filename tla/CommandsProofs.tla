----------------------------- MODULE CommandsProofs ------------------------------
(***************************************************************************)
(* The proofs that the password is protected and that the exit codes tell  *)
(* what happened, for every namespace of flags and every config file.      *)
(***************************************************************************)
EXTENDS Commands, TLAPS

Setting == {None, Empty, "flag", "section", "env", "prompt", "aborted"}
Namespace ==
  [mode : Modes, server : {None, "home", "ghost"}, host : Setting, port : Setting,
   user : Setting, password : Setting, noTls : BOOLEAN, insecure : BOOLEAN,
   allowPlaintext : BOOLEAN]

\* What the namespace allows has been asked for.
Consent ==
  /\ args.noTls => "plain" \in asked
  /\ args.insecure => "unverified" \in asked
  /\ args.allowPlaintext => args.mode = "probe-only"

\* How the wire can be what it is before the login.
WireEarned ==
  /\ wire \in {"plain", "unverified", "verified"}
  /\ phase \in {"resolve", "credentials", "prompt", "connect", "probe", "tls"} =>
       wire = "plain"
  /\ wire = "unverified" => args.insecure
  /\ phase = "init" /\ wire = "plain" => args.noTls \/ args.allowPlaintext

Inv == args \in Namespace /\ Consent /\ WireEarned /\ PasswordProtected

LEMMA InitInv == Init => Inv
<1> SUFFICES ASSUME Init PROVE Inv
  OBVIOUS
<1>1. args \in Flags /\ args \in Namespace
  <2>1. args \in Flags
    BY DEF Init
  <2> QED
    BY <2>1 DEF Flags, Namespace, Setting
<1>2. Consent
  BY <1>1 DEF Init, Consent, FlagAsks, Flags
<1>3. WireEarned /\ PasswordProtected
  BY DEF Init, WireEarned, PasswordProtected
<1> QED
  BY <1>1, <1>2, <1>3 DEF Inv

\* The settings only ever add what the section of the server in use asks for.
LEMMA SettleInv == ASSUME Inv, Settle PROVE Inv'
<1>1. CASE ResolveFromFlags
  BY <1>1 DEF Inv, ResolveFromFlags, Goes, Quiet, Consent, WireEarned,
     PasswordProtected
<1>2. ASSUME NEW file \in File, ResolveFromFile(file) PROVE Inv'
  <2> DEFINE section == Consulted(file)
  <2>1. section \in Section
    <3>1. file.home \in Section \/ file.home = NoSection
      BY <1>2 DEF File
    <3>2. NoSection \in Section
      BY DEF NoSection, Section
    <3> QED
      BY <3>1, <3>2 DEF Consulted
  <2>2. /\ Merge(section) \in Namespace /\ Merge(section).mode = args.mode
        /\ Merge(section).allowPlaintext = args.allowPlaintext
        /\ Merge(section).noTls => args.noTls \/ section.tls = "no"
        /\ Merge(section).insecure => args.insecure \/ section.insecure = "yes"
    <3> DEFINE host == Or(args.host, section.host)
               port == Or(args.port, section.port)
               user == Or(args.user, section.user)
               password == Or(args.password, section.password)
               noTls == args.noTls \/ section.tls = "no"
               insecure == args.insecure \/ section.insecure = "yes"
    <3>1. /\ args.host \in Setting /\ args.port \in Setting
          /\ args.user \in Setting /\ args.password \in Setting
          /\ section.host \in Setting /\ section.port \in Setting
          /\ section.user \in Setting /\ section.password \in Setting
      BY <2>1 DEF Inv, Namespace, Section, Setting
    <3>2. host \in Setting /\ port \in Setting /\ user \in Setting /\ password \in Setting
      BY <3>1 DEF Or
    <3>3. noTls \in BOOLEAN /\ insecure \in BOOLEAN /\ args \in Namespace
      BY DEF Inv
    <3>4. Merge(section) =
            [args EXCEPT !.host = host, !.port = port, !.user = user,
                         !.password = password, !.noTls = noTls, !.insecure = insecure]
      BY DEF Merge
    <3> HIDE DEF host, port, user, password, noTls, insecure
    <3> DEFINE m == [args EXCEPT !.host = host, !.port = port, !.user = user,
                       !.password = password, !.noTls = noTls, !.insecure = insecure]
    <3>5. /\ m \in Namespace /\ m.mode = args.mode
          /\ m.allowPlaintext = args.allowPlaintext
          /\ m.noTls = noTls /\ m.insecure = insecure
      BY <3>2, <3>3 DEF Namespace
    <3>6. Merge(section) = m
      BY <3>4
    <3> HIDE DEF m
    <3>7. /\ Merge(section) \in Namespace /\ Merge(section).mode = args.mode
          /\ Merge(section).allowPlaintext = args.allowPlaintext
          /\ Merge(section).noTls = noTls /\ Merge(section).insecure = insecure
      BY <3>5, <3>6
    <3> QED
      BY <3>7 DEF noTls, insecure
  <2>3. CASE UNCHANGED <<args, asked>>
    BY <1>2, <2>3 DEF Inv, ResolveFromFile, Exits, Goes, Quiet, Consent, WireEarned,
       PasswordProtected
  <2>4. CASE args' = Merge(section) /\ asked' = asked \cup SectionAsks(section)
             /\ phase' = "credentials"
    <3>1. Consent'
      BY <2>2, <2>4 DEF Inv, Consent, SectionAsks
    <3>2. WireEarned'
      BY <1>2, <2>2, <2>4 DEF Inv, WireEarned, ResolveFromFile, Quiet
    <3>3. PasswordProtected'
      BY <1>2, <2>2, <2>4 DEF Inv, PasswordProtected, ResolveFromFile, Quiet
    <3> QED
      BY <2>2, <2>4, <3>1, <3>2, <3>3 DEF Inv
  <2> QED
    BY <1>2, <2>3, <2>4 DEF ResolveFromFile, Goes
<1>3. ASSUME NEW user \in {None, "env"}, NEW password \in {None, Empty, "env"},
             Credentials(user, password)
      PROVE  Inv'
  BY <1>3 DEF Inv, Namespace, Setting, Credentials, Or, Exits, Goes, Quiet, Consent,
     WireEarned, PasswordProtected
<1>4. ASSUME NEW answer \in {Empty, "aborted", "prompt"}, Prompt(answer) PROVE Inv'
  BY <1>4 DEF Inv, Namespace, Setting, Prompt, Exits, Goes, Quiet, Consent, WireEarned,
     PasswordProtected
<1> QED
  BY <1>1, <1>2, <1>3, <1>4 DEF Settle

\* An end, good or bad, and a step of the handshake that only moves on.
LEMMA EndInv ==
  ASSUME Inv, UNCHANGED <<args, wire, asked, told>>, 
         phase' \in {"probe", "tls", "login", "session", "connected", "over"},
         phase' \in {"probe", "tls"} => phase \in {"connect", "probe"}
  PROVE  Inv'
<1>1. args' = args /\ wire' = wire /\ asked' = asked /\ told' = told
  OBVIOUS
<1>2. PasswordProtected'
  BY <1>1 DEF Inv, PasswordProtected
<1>3. Consent' /\ args' \in Namespace
  BY <1>1 DEF Inv, Consent
<1> QED
  BY <1>1, <1>2, <1>3 DEF Inv, WireEarned

LEMMA HandshakeInv == ASSUME Inv, Next, ~Settle PROVE Inv'
<1>1. ASSUME NEW kind, NEW words, Fails(kind, words) PROVE Inv'
  BY <1>1, EndInv DEF Fails, Exits
<1>2. ASSUME Succeeds PROVE Inv'
  BY <1>2, EndInv DEF Succeeds, Exits
<1>3. CASE Connect
  <2>1. CASE Advances("probe")
    BY <1>3, <2>1, EndInv DEF Connect, Advances, Goes
  <2> QED
    BY <1>1, <1>3, <2>1 DEF Connect
<1>4. ASSUME NEW yes \in BOOLEAN, ProbeReply(yes) PROVE Inv'
  <2>1. CASE Advances("tls")
    BY <1>4, <2>1, EndInv DEF ProbeReply, Advances, Goes
  <2>2. CASE Advances("init") /\ (args.noTls \/ args.allowPlaintext)
    BY <1>4, <2>2 DEF ProbeReply, Advances, Goes, Inv, Consent, WireEarned,
       PasswordProtected
  <2> QED
    BY <1>1, <1>4, <2>1, <2>2 DEF ProbeReply
<1>5. ASSUME NEW yes \in BOOLEAN, Upgrade(yes) PROVE Inv'
  <2>1. CASE yes \/ args.insecure
    <3>1. /\ phase = "tls" /\ phase' = "init"
          /\ args' = args /\ asked' = asked /\ told' = told
          /\ wire' = "verified" \/ (wire' = "unverified" /\ args.insecure)
      BY <1>5, <2>1, Zenon DEF Upgrade, Goes
    <3>2. PasswordProtected' /\ Consent'
      BY <3>1 DEF Inv, PasswordProtected, Consent
    <3> QED
      BY <3>1, <3>2 DEF Inv, WireEarned
  <2> QED
    BY <1>1, <1>5, <2>1 DEF Upgrade
<1>6. ASSUME NEW m, NEW words, Receive(m, words) PROVE Inv'
  <2>1. CASE SendsLogin /\ phase = "init" /\ args.mode # "probe-only"
    <3>1. wire = "verified" \/ wire \in asked
      BY <2>1 DEF Inv, Consent, WireEarned
    <3>2. PasswordProtected'
      BY <2>1, <3>1 DEF SendsLogin, PasswordProtected
    <3> QED
      BY <2>1, <3>2 DEF SendsLogin, Goes, Inv, Consent, WireEarned
  <2>2. CASE Advances("session") \/ Advances("connected")
    BY <2>2, EndInv DEF Advances, Goes
  <2>3. \/ Fails(Kind(m), words)
        \/ Succeeds
        \/ SendsLogin /\ phase = "init" /\ args.mode # "probe-only"
        \/ Advances("session") \/ Advances("connected")
    BY <1>6 DEF Receive
  <2>4. CASE Fails(Kind(m), words)
    BY <2>4, EndInv DEF Fails, Exits
  <2>5. CASE Succeeds
    BY <2>5, EndInv DEF Succeeds, Exits
  <2> QED
    BY <2>1, <2>2, <2>3, <2>4, <2>5
<1>7. CASE Interrupted
  BY <1>7, EndInv DEF Interrupted, Exits
<1>8. CASE UpgradeFails \/ Stalls \/ GoesQuiet \/ Elapses \/ MaxEvents \/ UserQuits
  BY <1>1, <1>2, <1>8 DEF UpgradeFails, Stalls, GoesQuiet, Elapses, MaxEvents, UserQuits
<1>9. ASSUME NEW kind, Lost(kind) PROVE Inv'
  BY <1>1, <1>2, <1>9 DEF Lost
<1>10. ASSUME NEW kind, NEW words, Breaks(kind, words) PROVE Inv'
  BY <1>1, <1>2, <1>10 DEF Breaks
<1> QED
  BY <1>3, <1>4, <1>5, <1>6, <1>7, <1>8, <1>9, <1>10 DEF Next

\* Whatever the flags, the config file, the environment and the core: the password
\* of login-only, stream-only, dump-state and ui goes over a verified TLS connection
\* or over one that a flag or the section in use asked for, and probe-only sends none.
THEOREM PasswordIsProtected == Spec => []PasswordProtected
<1>1. Inv /\ [Next]_vars => Inv'
  <2> SUFFICES ASSUME Inv, [Next]_vars PROVE Inv'
    OBVIOUS
  <2>1. CASE UNCHANGED vars
    BY <2>1 DEF vars, Inv, Consent, WireEarned, PasswordProtected
  <2> QED
    BY <2>1, SettleInv, HandshakeInv
<1>2. Inv => PasswordProtected
  BY DEF Inv
<1> QED
  BY InitInv, <1>1, <1>2, PTL DEF Spec

--------------------------------------------------------------------------------
(* Exit codes.                                                                 *)

\* The two tables, the order of the tests in the second one included, agree with
\* the documented one outside the differences.
LEMMA CodesAgree ==
  ASSUME NEW e, args.mode \in Headless, ~Differs(e), e.kind \notin {"done", "interrupted"},
         e.kind = "unconfigured" => e.at = "init"
  PROVE  Code(e) = Documented(e)
<1>1. CASE args.mode \in Direct
  <2>1. e.kind # "reset" /\ (e.kind = "CoreSetupReject" => e.at # "init")
        /\ (e.kind = "ClientLoginReject" => e.at = "login")
    BY <1>1 DEF Differs
  <2> QED
    BY <1>1, <2>1 DEF Code, DirectCode, Documented
<1>2. CASE args.mode \in Streaming
  <2>1. /\ e.kind # "tls failed"
        /\ e.kind = "CoreSetupReject" => e.at = "session"
        /\ e.kind # "ClientLoginReject" => e.words = None
    BY <1>2 DEF Differs
  <2>2. Code(e) = EventCode(e)
    BY <1>2 DEF Code, Streaming, Direct
  <2>3. CASE e.kind = "ClientLoginReject"
    BY <2>2, <2>3 DEF EventCode, Documented
  <2>4. CASE e.kind # "ClientLoginReject"
    <3>1. /\ ~Says(e, "tls plaintext") /\ ~Says(e, "not configured")
          /\ ~Says(e, "rejected clientinit")
      BY <2>1, <2>4 DEF Says, None
    <3> QED
      BY <2>1, <2>2, <2>4, <3>1 DEF EventCode, RejectedInit, Documented
  <2> QED
    BY <2>3, <2>4
<1> QED
  BY <1>1, <1>2 DEF Headless

\* Nothing happens after an exit, and a run that goes on has had no end.
Told ==
  /\ exit # Running \/ ending # NoEnding => phase = "over"
  /\ ExitCodeTells

LEMMA FailsTold ==
  ASSUME Told, NEW kind, NEW words, Fails(kind, words), kind \notin {"done", "interrupted"},
         kind = "unconfigured" => phase = "init"
  PROVE  Told'
<1>1. /\ phase' = "over" /\ args' = args /\ ending' = Ending(kind, words)
      /\ exit' = Code(ending')
  BY DEF Fails, Exits
<1>2. ending'.kind = kind /\ ending'.at = phase
  BY <1>1 DEF Ending
<1>3. args.mode \in Headless /\ ~Differs(ending') => Code(ending') = Documented(ending')
  BY <1>2, CodesAgree
<1>4. Differs(ending)' <=> Differs(ending')
  BY <1>1 DEF Differs
<1> QED
  BY <1>1, <1>3, <1>4 DEF Told, ExitCodeTells, Documented

LEMMA SucceedsTold == ASSUME Told, Succeeds PROVE Told'
  BY DEF Succeeds, Exits, Told, ExitCodeTells, Documented, Ending

\* A step that is no end leaves exit code and ending alone.
LEMMA MovesTold ==
  ASSUME Told, phase # "over", UNCHANGED <<exit, ending>>
  PROVE  Told'
  BY DEF Told, ExitCodeTells

LEMMA NextTold == ASSUME Told, Next PROVE Told'
<1>1. ASSUME Settle PROVE Told'
  <2>1. phase # "over" /\ ending' = ending /\ (exit' = exit \/ phase' = "over")
    BY <1>1 DEF Settle, ResolveFromFlags, ResolveFromFile, Credentials, Prompt, Exits,
       Goes, Quiet
  <2> QED
    BY <2>1, MovesTold DEF Told, ExitCodeTells
<1>2. ASSUME NEW to, phase # "over", Advances(to) PROVE Told'
  BY <1>2, MovesTold DEF Advances, Goes
<1>3. CASE Connect
  BY <1>2, <1>3, FailsTold DEF Connect
<1>4. ASSUME NEW yes \in BOOLEAN, ProbeReply(yes) PROVE Told'
  BY <1>2, <1>4, FailsTold DEF ProbeReply
<1>5. ASSUME NEW yes \in BOOLEAN, Upgrade(yes) PROVE Told'
  BY <1>5, FailsTold, MovesTold DEF Upgrade, Goes
<1>6. ASSUME NEW m \in Message, NEW words, Receive(m, words) PROVE Told'
  <2>1. Kind(m) \notin {"done", "interrupted"}
        /\ (Kind(m) = "unconfigured" => phase = "init")
    BY DEF Kind, Message
  <2>2. CASE Fails(Kind(m), words)
    BY <2>1, <2>2, FailsTold
  <2>3. CASE SendsLogin
    BY <1>6, <2>3, MovesTold DEF Receive, SendsLogin, Goes
  <2>4. CASE Advances("session") \/ Advances("connected")
    BY <1>2, <1>6, <2>4 DEF Receive
  <2> QED
    BY <1>6, <2>2, <2>3, <2>4, SucceedsTold DEF Receive
<1>7. ASSUME NEW kind \in {"closed", "reset"}, Lost(kind) PROVE Told'
  BY <1>7, FailsTold, SucceedsTold DEF Lost
<1>8. CASE UpgradeFails \/ Stalls \/ GoesQuiet
  BY <1>8, FailsTold, SucceedsTold DEF UpgradeFails, Stalls, GoesQuiet
<1>9. CASE Elapses \/ MaxEvents \/ UserQuits
  BY <1>9, SucceedsTold DEF Elapses, MaxEvents, UserQuits
<1>10. CASE Interrupted
  BY <1>10 DEF Interrupted, Exits, Told, ExitCodeTells, Documented, Ending
<1>11. ASSUME NEW kind \in {"desync", "internal"}, NEW words, Breaks(kind, words)
       PROVE  Told'
  BY <1>11, FailsTold, SucceedsTold DEF Breaks
<1> QED
  BY <1>1, <1>3, <1>4, <1>5, <1>6, <1>7, <1>8, <1>9, <1>10, <1>11 DEF Next

\* Outside the differences that Differs lists, the four headless commands exit with
\* the code that login-only documents for what ended them, whatever the core sends
\* and in whatever order; for a login reject that stream-only and dump-state get, in
\* whatever words and in whatever phase.
THEOREM ExitCodesTell == Spec => []ExitCodeTells
<1>1. Init => Told
  BY DEF Init, Told, ExitCodeTells
<1>2. Told /\ [Next]_vars => Told'
  <2> SUFFICES ASSUME Told, [Next]_vars PROVE Told'
    OBVIOUS
  <2>1. CASE UNCHANGED vars
    BY <2>1 DEF vars, Told, ExitCodeTells, Differs
  <2> QED
    BY <2>1, NextTold
<1>3. Told => ExitCodeTells
  BY DEF Told
<1> QED
  BY <1>1, <1>2, <1>3, PTL DEF Spec

================================================================================
