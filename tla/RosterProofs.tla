------------------------------- MODULE RosterProofs --------------------------------
(***************************************************************************)
(* Proofs about Roster for any nicks and channels, any number of changes   *)
(* and any number of frames on their way: once everything sent has been    *)
(* handled the client's copies are the core's, and they agree in between.  *)
(*                                                                         *)
(* The argument follows a view, what the frames handled so far describe.   *)
(* Each frame on its way moves the view, the last of them to the state the *)
(* core is in, and the client agrees with the view it has reached.         *)
(***************************************************************************)
EXTENDS Roster, SequenceTheorems, TLAPS

--------------------------------------------------------------------------------
(* Types.                                                                      *)

Frame ==
  [kind : {"addIrcUser"}, mask : [nick : Nick, ident : {"user@host"}]]
    \cup [kind : {"addIrcChannel"}, channel : Channel]
    \cup [kind : {"joinIrcUsers"}, channel : Channel, nicks : SUBSET Nick]
    \cup [kind : {"userMode"}, channel : Channel, nick : Nick]
    \cup [kind : {"partChannel"}, channel : Channel, nick : Nick, own : BOOLEAN]
    \cup [kind : {"quit", "setMyNick"}, nick : Nick]
    \cup [kind : {"objectRenamed"}, old : Nick, new : Nick]
    \cup [kind : {"setNick"}, key : Nick, nick : Nick]
    \cup [kind : {"setConnected"}, connected : BOOLEAN]
    \cup [kind : {"initData"}, nick : Nick, nicks : SUBSET Nick,
          members : [Channel -> SUBSET Nick]]

LEMMA FramesAreFrames ==
  /\ \A n \in Nick : {AddUser(n), Quit(n), SetMyNick(n), SetNick(n, n)} \subseteq Frame
  /\ \A c \in Channel : AddChannel(c) \in Frame
  /\ \A c \in Channel, S \in SUBSET Nick : Join(c, S) \in Frame
  /\ \A c \in Channel, n \in Nick : {Mode(c, n), Part(n, c)} \subseteq Frame
  /\ \A n, m \in Nick : Renamed(n, m) \in Frame
  /\ SetConnected(TRUE) \in Frame /\ SetConnected(FALSE) \in Frame
  /\ TypeOK => InitData \in Frame
<1> USE DEF Frame
<1>1. \A n \in Nick : {AddUser(n), Quit(n), SetMyNick(n), SetNick(n, n)} \subseteq Frame
  BY DEF AddUser, Mask, Quit, SetMyNick, SetNick
<1>2. \A c \in Channel : AddChannel(c) \in Frame
  BY DEF AddChannel
<1>3. \A c \in Channel, S \in SUBSET Nick : Join(c, S) \in Frame
  BY DEF Join
<1>4. \A c \in Channel, n \in Nick : {Mode(c, n), Part(n, c)} \subseteq Frame
  <2>1. ASSUME NEW c \in Channel, NEW n \in Nick PROVE Part(n, c) \in Frame
    <3>1. (n = me) \in BOOLEAN
      OBVIOUS
    <3> QED
      BY <3>1 DEF Part
  <2>2. \A c \in Channel, n \in Nick : Mode(c, n) \in Frame
    BY DEF Mode
  <2> QED
    BY <2>1, <2>2
<1>5. \A n, m \in Nick : Renamed(n, m) \in Frame
  BY DEF Renamed
<1>6. SetConnected(TRUE) \in Frame /\ SetConnected(FALSE) \in Frame
  BY DEF SetConnected
<1>7. TypeOK => InitData \in Frame
  BY DEF InitData, TypeOK
<1> QED
  BY <1>1, <1>2, <1>3, <1>4, <1>5, <1>6, <1>7

\* The fields of a frame, by its kind.
LEMMA FrameFields ==
  ASSUME NEW f \in Frame
  PROVE  /\ f.kind = "addIrcUser" => f.mask.nick \in Nick
         /\ f.kind = "addIrcChannel" => f.channel \in Channel
         /\ f.kind = "joinIrcUsers" => f.channel \in Channel /\ f.nicks \subseteq Nick
         /\ f.kind \in {"userMode", "partChannel"} => f.channel \in Channel /\ f.nick \in Nick
         /\ f.kind \in {"quit", "setMyNick"} => f.nick \in Nick
         /\ f.kind = "objectRenamed" => f.old \in Nick /\ f.new \in Nick
         /\ f.kind = "setNick" => f.key \in Nick /\ f.nick \in Nick
         /\ f.kind = "setConnected" => f.connected \in BOOLEAN
         /\ f.kind = "initData" => /\ f.nick \in Nick /\ f.nicks \subseteq Nick
                                   /\ f.members \in [Channel -> SUBSET Nick]
  BY DEF Frame

InboxTyped == inbox \in Seq(Frame)

LEMMA HeadIsFrame ==
  ASSUME InboxTyped, inbox # <<>>
  PROVE  Head(inbox) \in Frame /\ Tail(inbox) \in Seq(Frame)
  BY DEF InboxTyped

\* The core only adds frames.
LEMMA ChangeTyped ==
  ASSUME TypeOK, InboxTyped, NEW frames \in Seq(Frame), Change(frames)
  PROVE  /\ InboxTyped' /\ ops' \in Nat /\ served' \in BOOLEAN
         /\ UNCHANGED <<users, channels, myNick, addressed, known, roster, initialized, leftEarly>>
  BY DEF Change, InboxTyped, TypeOK, client

LEMMA CoreTyped ==
  ASSUME TypeOK, InboxTyped, Core
  PROVE  TypeOK' /\ InboxTyped'
<1> USE DEF TypeOK
<1>1. ASSUME NEW n \in Nick, NEW c \in Channel,
             CoreJoin(n, c) \/ CoreOwnJoin(n, c) \/ CorePart(n, c) \/ CoreMode(n, c)
      PROVE  TypeOK' /\ InboxTyped'
  <2>1. Introduce(n) \in Seq(Frame)
    BY FramesAreFrames DEF Introduce
  <2>2. \E frames \in Seq(Frame) : Change(frames)
    <3>1. <<AddChannel(c)>> \in Seq(Frame) /\ <<Join(c, {n})>> \in Seq(Frame)
          /\ <<Join(c, {n, me})>> \in Seq(Frame)
          /\ <<Part(n, c)>> \in Seq(Frame) /\ <<Mode(c, n)>> \in Seq(Frame)
      BY FramesAreFrames
    <3>2. Introduce(n) \o <<Join(c, {n})>> \in Seq(Frame)
          /\ <<AddChannel(c)>> \o Introduce(n) \o <<Join(c, {n, me})>> \in Seq(Frame)
      BY <2>1, <3>1
    <3> QED
      BY <1>1, <3>1, <3>2 DEF CoreJoin, CoreOwnJoin, CorePart, CoreMode
  <2>3. /\ online' \in BOOLEAN /\ me' \in Nick /\ visible' \subseteq Nick
        /\ joined' \in [Channel -> SUBSET Nick]
    BY <1>1 DEF CoreJoin, CoreOwnJoin, CorePart, CoreMode
  <2> QED
    BY <2>2, <2>3, ChangeTyped
<1>2. ASSUME NEW n \in Nick, CoreQuit(n) PROVE TypeOK' /\ InboxTyped'
  <2>1. <<Quit(n)>> \in Seq(Frame)
    BY FramesAreFrames
  <2>2. /\ online' \in BOOLEAN /\ me' \in Nick /\ visible' \subseteq Nick
        /\ joined' \in [Channel -> SUBSET Nick]
    BY <1>2 DEF CoreQuit
  <2> QED
    BY <1>2, <2>1, <2>2, ChangeTyped DEF CoreQuit
<1>3. ASSUME NEW old \in Nick, NEW new \in Nick, CoreRename(old, new)
      PROVE  TypeOK' /\ InboxTyped'
  <2>1. (IF old = me THEN <<SetMyNick(new)>> ELSE <<>>)
              \o <<Renamed(old, new), SetNick(new, new)>> \in Seq(Frame)
    <3>1. <<SetMyNick(new)>> \in Seq(Frame) /\ <<Renamed(old, new), SetNick(new, new)>> \in Seq(Frame)
      BY FramesAreFrames
    <3> QED
      BY <3>1
  <2>2. /\ online' \in BOOLEAN /\ me' \in Nick /\ visible' \subseteq Nick
        /\ joined' \in [Channel -> SUBSET Nick]
    BY <1>3 DEF CoreRename, Swap
  <2> QED
    BY <1>3, <2>1, <2>2, ChangeTyped DEF CoreRename
<1>4. CASE CoreOffline \/ CoreOnline
  <2>1. <<SetConnected(FALSE)>> \in Seq(Frame) /\ <<SetConnected(TRUE), AddUser(me)>> \in Seq(Frame)
    <3>1. AddUser(me) \in Frame
      BY FramesAreFrames
    <3>2. \A f, g, h \in Frame : <<f>> \in Seq(Frame) /\ <<g, h>> \in Seq(Frame)
      OBVIOUS
    <3> QED
      BY <3>1, <3>2, FramesAreFrames, Zenon
  <2>2. online' \in BOOLEAN
    BY <1>4, Zenon DEF CoreOffline, CoreOnline
  <2>3. me' \in Nick /\ visible' \subseteq Nick /\ joined' \in [Channel -> SUBSET Nick]
    BY <1>4 DEF CoreOffline, CoreOnline
  <2> QED
    BY <1>4, <2>1, <2>2, <2>3, ChangeTyped DEF CoreOffline, CoreOnline
<1>5. CASE CoreServeInit
  <2>1. InboxTyped'
    BY <1>5, FramesAreFrames DEF CoreServeInit, InboxTyped
  <2> QED
    BY <1>5, <2>1 DEF CoreServeInit, client
<1> QED
  BY <1>1, <1>2, <1>3, <1>4, <1>5 DEF Core

\* What a receive step leaves: the core and the frames behind the first.
LEMMA ReceiveTyped ==
  ASSUME TypeOK, InboxTyped, NEW kind, Receive(kind)
  PROVE  /\ InboxTyped' /\ Head(inbox) \in Frame /\ Head(inbox).kind = kind
         /\ UNCHANGED <<online, me, visible, joined, served, ops>>
  BY HeadIsFrame DEF Receive, core, InboxTyped

LEMMA DispatcherTyped ==
  ASSUME TypeOK, InboxTyped, Dispatcher
  PROVE  TypeOK' /\ InboxTyped'
<1> USE DEF TypeOK
<1>1. CASE ReceiveAddUser
  BY <1>1, ReceiveTyped, FrameFields DEF ReceiveAddUser, BareNick
<1>2. CASE ReceiveAddChannel
  BY <1>2, ReceiveTyped, FrameFields DEF ReceiveAddChannel
<1>3. CASE ReceiveJoin
  BY <1>3, ReceiveTyped, FrameFields DEF ReceiveJoin, Enter
<1>4. CASE ReceiveMode
  BY <1>4, ReceiveTyped, FrameFields DEF ReceiveMode, Enter
<1>5. CASE ReceivePart
  <2>1. Receive("partChannel") /\ Head(inbox).nick \in Nick /\ Head(inbox).channel \in Channel
    BY <1>5, ReceiveTyped, FrameFields DEF ReceivePart
  <2>2. addressed' \in [Nick -> Nick \cup {NoNick}]
    BY <1>5, <2>1 DEF ReceivePart, Registered
  <2>3. channels' \subseteq Channel /\ known' \subseteq Channel /\ roster' \in [Channel -> SUBSET Nick]
    BY <1>5, <2>1 DEF ReceivePart
  <2>4. leftEarly' \subseteq Channel
    BY <1>5, <2>1 DEF ReceivePart
  <2> QED
    BY <1>5, <2>1, <2>2, <2>3, <2>4, ReceiveTyped DEF ReceivePart
<1>6. CASE ReceiveQuit
  BY <1>6, ReceiveTyped, FrameFields DEF ReceiveQuit, LeaveRosters
<1>7. CASE ReceiveRenamed
  <2>1. Receive("objectRenamed") /\ Head(inbox).old \in Nick /\ Head(inbox).new \in Nick
    BY <1>7, ReceiveTyped, FrameFields DEF ReceiveRenamed
  <2>2. addressed' \in [Nick -> Nick \cup {NoNick}]
    BY <1>7, <2>1 DEF ReceiveRenamed, Readdress
  <2>3. users' \subseteq Nick /\ roster' \in [Channel -> SUBSET Nick]
    BY <1>7, <2>1 DEF ReceiveRenamed, Rekey, Swap
  <2> QED
    BY <1>7, <2>1, <2>2, <2>3, ReceiveTyped DEF ReceiveRenamed
<1>8. CASE ReceiveSetNick
  BY <1>8, ReceiveTyped, FrameFields DEF ReceiveSetNick
<1>9. CASE ReceiveSetMyNick
  BY <1>9, ReceiveTyped, FrameFields DEF ReceiveSetMyNick
<1>10. CASE ReceiveSetConnected
  <2>1. /\ addressed' \in [Nick -> Nick \cup {NoNick}] /\ users' \subseteq Nick
        /\ channels' \subseteq Channel /\ known' \subseteq Channel
        /\ roster' \in [Channel -> SUBSET Nick]
    BY <1>10 DEF ReceiveSetConnected, ClearRosters
  <2> QED
    BY <1>10, <2>1, ReceiveTyped DEF ReceiveSetConnected
<1>11. CASE ReceiveInitData
  BY <1>11, ReceiveTyped, FrameFields DEF ReceiveInitData
<1> QED
  BY <1>1, <1>2, <1>3, <1>4, <1>5, <1>6, <1>7, <1>8, <1>9, <1>10, <1>11 DEF Dispatcher

LEMMA InitTyped == Init => TypeOK /\ InboxTyped
<1> SUFFICES ASSUME Init PROVE TypeOK /\ InboxTyped
  OBVIOUS
<1>1. online \in BOOLEAN /\ served \in BOOLEAN /\ initialized \in BOOLEAN /\ leftEarly \subseteq Channel
  BY Zenon DEF Init
<1>2. joined \in [Channel -> SUBSET Nick] /\ visible \subseteq Nick
  BY DEF Init
<1> QED
  BY <1>1, <1>2 DEF Init, TypeOK, InboxTyped

\* Every reachable state is well typed.
THEOREM Typed == Spec => [](TypeOK /\ InboxTyped)
<1>1. TypeOK /\ InboxTyped /\ [Next]_vars => TypeOK' /\ InboxTyped'
  <2>1. TypeOK /\ InboxTyped /\ UNCHANGED vars => TypeOK' /\ InboxTyped'
    BY DEF TypeOK, InboxTyped, vars, core, client
  <2> QED
    BY <2>1, CoreTyped, DispatcherTyped DEF Next
<1> QED
  BY <1>1, InitTyped, PTL DEF Spec

--------------------------------------------------------------------------------
(* Views, and the frames that move them.                                       *)

View == [nick : Nick, users : SUBSET Nick, channels : SUBSET Channel,
         roster : [Channel -> SUBSET Nick]]

\* The members of a channel are users, and the channel is listed.
GoodView ==
  {v \in View : \A c \in Channel : v.roster[c] \subseteq v.users
                                  /\ (v.roster[c] # {} => c \in v.channels)}

Peopled(v) == {c \in Channel : v.roster[c] # {}}

\* Between two changes of the core: we are in every channel it lists.
Whole(v) == v.channels = Peopled(v) /\ \A c \in Peopled(v) : v.nick \in v.roster[c]

Seen(nick, names, listed, members) ==
  [nick |-> nick, users |-> names, channels |-> listed, roster |-> members]

CoreView == Seen(me, visible, {c \in Channel : joined[c] # {}}, joined)

\* The frames the core sends when the view is v, and the view w each leads to.
Moves(v, f, w) ==
  \/ /\ f.kind = "addIrcUser"
     /\ w = Seen(v.nick, v.users \cup {f.mask.nick}, v.channels, v.roster)
  \/ /\ f.kind = "addIrcChannel" /\ f.channel \notin Peopled(v)
     /\ w = Seen(v.nick, v.users, v.channels \cup {f.channel}, v.roster)
  \/ /\ f.kind = "joinIrcUsers" /\ f.nicks # {} /\ f.nicks \subseteq v.users
     /\ f.channel \in v.channels
     /\ w = Seen(v.nick, v.users, v.channels,
                 [v.roster EXCEPT ![f.channel] = @ \cup f.nicks])
  \/ /\ f.kind = "userMode" /\ f.nick \in v.roster[f.channel]
     /\ w = v
  \/ /\ f.kind = "partChannel" /\ Whole(v) /\ f.nick \in v.roster[f.channel]
     /\ f.own <=> f.nick = v.nick
     /\ w = IF f.nick = v.nick
            THEN Seen(v.nick, v.users, v.channels \ {f.channel},
                      [v.roster EXCEPT ![f.channel] = {}])
            ELSE Seen(v.nick, v.users, v.channels,
                      [v.roster EXCEPT ![f.channel] = @ \ {f.nick}])
  \/ /\ f.kind = "quit" /\ Whole(v) /\ f.nick # v.nick
     /\ w = Seen(v.nick, v.users \ {f.nick}, v.channels,
                 [c \in Channel |-> v.roster[c] \ {f.nick}])
  \/ /\ f.kind = "objectRenamed" /\ f.old \in v.users /\ f.new \notin v.users
     /\ w = Seen(v.nick, Swap(v.users, f.old, f.new), v.channels,
                 [c \in Channel |-> Swap(v.roster[c], f.old, f.new)])
  \/ /\ f.kind = "setNick" /\ f.key = f.nick /\ f.nick \in v.users
     /\ w = v
  \/ /\ f.kind = "setMyNick"
     /\ w = Seen(f.nick, v.users, v.channels, v.roster)
  \/ /\ f.kind = "setConnected"
     /\ w = IF f.connected THEN v ELSE Seen(v.nick, {}, {}, [c \in Channel |-> {}])
  \/ /\ f.kind = "initData" /\ Whole(v)
     /\ f.nick = v.nick /\ f.nicks = v.users /\ f.members = v.roster
     /\ w = v

\* Handling the frames of q in order leads the view from v to w.
Leads(v, q, w) ==
  \E T \in Seq(GoodView) :
    /\ Len(T) = Len(q) + 1 /\ T[1] = v /\ T[Len(T)] = w
    /\ \A i \in 1..Len(q) : Moves(T[i], q[i], T[i + 1])

LEMMA LeadsEmpty ==
  ASSUME NEW v \in GoodView
  PROVE  /\ Leads(v, <<>>, v)
         /\ \A w : Leads(v, <<>>, w) => w = v
<1>1. Leads(v, <<>>, v)
  <2> DEFINE T == <<v>>
  <2>1. /\ T \in Seq(GoodView) /\ Len(T) = Len(<<>>) + 1 /\ T[1] = v /\ T[Len(T)] = v
        /\ \A i \in 1..Len(<<>>) : FALSE
    OBVIOUS
  <2> HIDE DEF T
  <2> QED
    BY <2>1 DEF Leads
<1>2. \A w : Leads(v, <<>>, w) => w = v
  <2>1. Len(<<>>) = 0 /\ 0 + 1 = 1
    OBVIOUS
  <2> QED
    BY <2>1 DEF Leads
<1> QED
  BY <1>1, <1>2

LEMMA LeadsAppend ==
  ASSUME NEW S, NEW q \in Seq(S), NEW f \in S, NEW v, NEW w, NEW x \in GoodView,
         Leads(v, q, w), Moves(w, f, x)
  PROVE  Leads(v, Append(q, f), x)
<1>1. PICK T \in Seq(GoodView) :
        /\ Len(T) = Len(q) + 1 /\ T[1] = v /\ T[Len(T)] = w
        /\ \A i \in 1..Len(q) : Moves(T[i], q[i], T[i + 1])
  BY DEF Leads
<1>2. /\ Len(q) \in Nat /\ Len(Append(q, f)) = Len(q) + 1
      /\ \A i \in 1..Len(q) : Append(q, f)[i] = q[i]
      /\ Append(q, f)[Len(q) + 1] = f
  OBVIOUS
<1> DEFINE U == Append(T, x)
<1>3. /\ U \in Seq(GoodView) /\ Len(U) = Len(q) + 2
      /\ \A i \in 1..(Len(q) + 1) : U[i] = T[i]
      /\ U[Len(q) + 2] = x
  BY <1>1
<1> HIDE DEF U
<1>4. \A i \in 1..Len(q) : Moves(U[i], Append(q, f)[i], U[i + 1])
  BY <1>1, <1>2, <1>3
<1>5. Moves(U[Len(q) + 1], Append(q, f)[Len(q) + 1], U[Len(q) + 2])
  BY <1>1, <1>2, <1>3
<1>6. \A i \in 1..(Len(q) + 1) : Moves(U[i], Append(q, f)[i], U[i + 1])
  <2> SUFFICES ASSUME NEW i \in 1..(Len(q) + 1) PROVE Moves(U[i], Append(q, f)[i], U[i + 1])
    OBVIOUS
  <2>1. CASE i \in 1..Len(q)
    BY <1>4, <2>1
  <2>2. CASE i = Len(q) + 1
    <3>1. i + 1 = Len(q) + 2
      BY <1>2, <2>2
    <3> QED
      BY <1>5, <2>2, <3>1
  <2> QED
    BY <1>2, <2>1, <2>2
<1>7. Len(U) = Len(Append(q, f)) + 1 /\ U[1] = v /\ U[Len(U)] = x
  BY <1>1, <1>2, <1>3
<1> QED
  BY <1>2, <1>3, <1>6, <1>7 DEF Leads

LEMMA LeadsTail ==
  ASSUME NEW S, NEW q \in Seq(S), q # <<>>, NEW v, NEW w, Leads(v, q, w)
  PROVE  \E x \in GoodView : Moves(v, Head(q), x) /\ Leads(x, Tail(q), w)
<1>1. PICK T \in Seq(GoodView) :
        /\ Len(T) = Len(q) + 1 /\ T[1] = v /\ T[Len(T)] = w
        /\ \A i \in 1..Len(q) : Moves(T[i], q[i], T[i + 1])
  BY DEF Leads
<1>2. /\ Len(q) \in Nat /\ Len(q) >= 1 /\ Len(Tail(q)) = Len(q) - 1
      /\ \A i \in 1..(Len(q) - 1) : Tail(q)[i] = q[i + 1]
      /\ Head(q) = q[1]
  OBVIOUS
<1> DEFINE U == Tail(T)
<1>3. /\ U \in Seq(GoodView) /\ Len(U) = Len(q)
      /\ \A i \in 1..Len(q) : U[i] = T[i + 1]
  BY <1>1, <1>2
<1> HIDE DEF U
<1>4. U[1] \in GoodView /\ Moves(v, Head(q), U[1])
  <2>1. 1 \in 1..Len(q) /\ 1 + 1 = 2
    BY <1>2
  <2>2. Moves(T[1], q[1], T[2]) /\ U[1] = T[2] /\ U[1] \in GoodView
    BY <1>1, <1>3, <2>1
  <2> QED
    BY <1>1, <1>2, <2>2
<1>5. \A i \in 1..(Len(q) - 1) : Moves(U[i], Tail(q)[i], U[i + 1])
  <2> SUFFICES ASSUME NEW i \in 1..(Len(q) - 1) PROVE Moves(U[i], Tail(q)[i], U[i + 1])
    OBVIOUS
  <2>1. i \in 1..Len(q) /\ i + 1 \in 1..Len(q)
    BY <1>2
  <2>2. U[i] = T[i + 1] /\ U[i + 1] = T[(i + 1) + 1] /\ Tail(q)[i] = q[i + 1]
    BY <1>2, <1>3, <2>1
  <2>3. Moves(T[i + 1], q[i + 1], T[(i + 1) + 1])
    BY <1>1, <2>1
  <2> QED
    BY <2>2, <2>3
<1>6. Len(U) = Len(Tail(q)) + 1 /\ U[Len(U)] = w
  BY <1>1, <1>2, <1>3
<1> QED
  BY <1>2, <1>3, <1>4, <1>5, <1>6 DEF Leads
--------------------------------------------------------------------------------
(* The core: its frames lead from any view to the state it is in.              *)

CoreInv ==
  /\ online => me \in visible
  /\ ~online => visible = {}
  /\ \A c \in Channel : /\ joined[c] \subseteq visible
                        /\ joined[c] # {} => me \in joined[c]

LEMMA CoreViewGood ==
  ASSUME TypeOK, CoreInv
  PROVE  CoreView \in GoodView /\ Whole(CoreView)
  BY DEF TypeOK, CoreInv, CoreView, Seen, GoodView, View, Whole, Peopled

LEMMA CoreStep == ASSUME TypeOK, CoreInv, Core PROVE CoreInv'
<1> USE DEF TypeOK, CoreInv
<1>1. ASSUME NEW n \in Nick, NEW c \in Channel,
             CoreJoin(n, c) \/ CoreOwnJoin(n, c) \/ CorePart(n, c) \/ CoreMode(n, c)
      PROVE  CoreInv'
  BY <1>1 DEF CoreJoin, CoreOwnJoin, CorePart, CoreMode
<1>2. ASSUME NEW n \in Nick, CoreQuit(n) PROVE CoreInv'
  BY <1>2 DEF CoreQuit
<1>3. ASSUME NEW old \in Nick, NEW new \in Nick, CoreRename(old, new) PROVE CoreInv'
  BY <1>3 DEF CoreRename, Swap
<1>4. CASE CoreOffline
  BY <1>4 DEF CoreOffline
<1>5. CASE CoreOnline
  BY <1>5 DEF CoreOnline
<1>6. CASE CoreServeInit
  BY <1>6 DEF CoreServeInit
<1> QED
  BY <1>1, <1>2, <1>3, <1>4, <1>5, <1>6 DEF Core

LEMMA RegroupFrames ==
  ASSUME NEW p \in Seq(Frame), NEW r \in Seq(Frame), NEW t \in Seq(Frame)
  PROVE  (p \o r) \o t = p \o (r \o t)
  BY ConcatAssociative

LEMMA Pair ==
  ASSUME NEW S, NEW f \in S, NEW g \in S
  PROVE  Append(<<f>>, g) = <<f, g>>
<1>1. /\ Append(<<f>>, g) \in Seq(S) /\ Len(Append(<<f>>, g)) = 2
      /\ Append(<<f>>, g)[1] = f /\ Append(<<f>>, g)[2] = g
  OBVIOUS
<1>2. /\ <<f, g>> \in Seq(S) /\ Len(<<f, g>>) = 2
      /\ <<f, g>>[1] = f /\ <<f, g>>[2] = g
  OBVIOUS
<1>3. \A i \in 1..2 : i = 1 \/ i = 2
  OBVIOUS
<1> QED
  BY <1>1, <1>2, <1>3, SeqEqual

LEMMA Regrouped ==
  ASSUME NEW q \in Seq(Frame), NEW a \in Seq(Frame), NEW f \in Frame, NEW g \in Frame,
         NEW h \in Frame
  PROVE  /\ q \o <<f>> = Append(q, f)
         /\ q \o (a \o <<f>>) = Append(q \o a, f)
         /\ q \o (<<g>> \o a \o <<f>>) = Append(Append(q, g) \o a, f)
         /\ q \o <<f, g>> = Append(Append(q, f), g)
         /\ q \o (<<>> \o <<f, g>>) = Append(Append(q, f), g)
         /\ q \o (<<h>> \o <<f, g>>) = Append(Append(Append(q, h), f), g)
<1>1. /\ <<f>> \in Seq(Frame) /\ <<g>> \in Seq(Frame) /\ <<h>> \in Seq(Frame)
      /\ <<f, g>> \in Seq(Frame) /\ <<f, g>> = <<f>> \o <<g>>
      /\ <<>> \o <<f, g>> = <<f, g>>
  <2>1. /\ <<f>> \in Seq(Frame) /\ <<g>> \in Seq(Frame) /\ <<h>> \in Seq(Frame)
        /\ <<f, g>> \in Seq(Frame)
    OBVIOUS
  <2>2. Append(<<f>>, g) = <<f, g>>
    BY Pair
  <2>3. Append(<<f>>, g) = <<f>> \o <<g>>
    BY <2>1, AppendIsConcat
  <2>4. <<>> \o <<f, g>> = <<f, g>>
    BY <2>1, ConcatEmptySeq
  <2> QED
    BY <2>1, <2>2, <2>3, <2>4
<1>2. \A p \in Seq(Frame), e \in Frame : p \o <<e>> = Append(p, e) /\ Append(p, e) \in Seq(Frame)
  BY AppendIsConcat, AppendProperties
<1>3. ASSUME NEW p \in Seq(Frame), NEW r \in Seq(Frame), NEW t \in Seq(Frame)
      PROVE  p \o (r \o t) = (p \o r) \o t /\ p \o r \in Seq(Frame)
  <2>1. p \o (r \o t) = (p \o r) \o t
    BY RegroupFrames
  <2>2. p \o r \in Seq(Frame)
    OBVIOUS
  <2> QED
    BY <2>1, <2>2
<1>4. q \o (<<g>> \o a \o <<f>>) = ((q \o <<g>>) \o a) \o <<f>>
  BY <1>1, <1>3
<1>5. q \o <<f, g>> = Append(Append(q, f), g)
  BY <1>1, <1>2, <1>3
<1>6. q \o (<<h>> \o <<f, g>>) = Append(Append(Append(q, h), f), g)
  <2>1. q \o (<<h>> \o <<f, g>>) = (q \o <<h>>) \o <<f, g>>
    BY <1>1, <1>3
  <2>2. (q \o <<h>>) \o (<<f>> \o <<g>>) = ((q \o <<h>>) \o <<f>>) \o <<g>>
    BY <1>1, <1>3
  <2> QED
    BY <1>1, <1>2, <2>1, <2>2
<1>7. q \o (a \o <<f>>) = Append(q \o a, f)
  BY <1>1, <1>2, <1>3
<1>8. ((q \o <<g>>) \o a) \o <<f>> = Append(Append(q, g) \o a, f)
  BY <1>1, <1>2, <1>3
<1> QED
  BY <1>1, <1>2, <1>4, <1>5, <1>6, <1>7, <1>8

\* A user the core does not know yet is introduced before it is mentioned.
LEMMA IntroduceLeads ==
  ASSUME NEW v, NEW q \in Seq(Frame), NEW w \in GoodView, NEW n \in Nick,
         w.users = visible, Leads(v, q, w)
  PROVE  LET x == Seen(w.nick, w.users \cup {n}, w.channels, w.roster)
         IN  /\ x \in GoodView /\ q \o Introduce(n) \in Seq(Frame)
             /\ Leads(v, q \o Introduce(n), x)
<1> DEFINE x == Seen(w.nick, w.users \cup {n}, w.channels, w.roster)
<1>1. x \in GoodView
  BY DEF GoodView, View, Seen
<1>2. CASE n \in visible
  <2>1. x = w
    BY <1>2 DEF GoodView, View, Seen
  <2>2. Introduce(n) = <<>> /\ q \o <<>> = q
    BY <1>2 DEF Introduce
  <2> QED
    BY <1>1, <2>1, <2>2
<1>3. CASE n \notin visible
  <2>1. AddUser(n) \in Frame
    BY FramesAreFrames
  <2>2. q \o Introduce(n) = Append(q, AddUser(n))
    BY <1>3, <2>1, Regrouped DEF Introduce
  <2>3. Moves(w, AddUser(n), x)
    BY DEF Moves, AddUser, Mask
  <2> HIDE DEF x
  <2>4. Leads(v, Append(q, AddUser(n)), x) /\ Append(q, AddUser(n)) \in Seq(Frame)
    BY <1>1, <2>1, <2>3, LeadsAppend
  <2> QED
    BY <1>1, <2>2, <2>4 DEF x
<1> QED
  BY <1>2, <1>3

LEMMA CoreViewGoodNext ==
  ASSUME TypeOK', CoreInv'
  PROVE  CoreView' \in GoodView
  BY DEF TypeOK, CoreInv, CoreView, Seen, GoodView, View

\* The components of the view after a change.
LEMMA CoreViewParts ==
  /\ CoreView.nick = me /\ CoreView.users = visible /\ CoreView.roster = joined
  /\ CoreView.channels = {c \in Channel : joined[c] # {}}
  BY DEF CoreView, Seen

LEMMA SeenParts ==
  ASSUME NEW nick, NEW names, NEW listed, NEW members
  PROVE  LET v == Seen(nick, names, listed, members)
         IN  v.nick = nick /\ v.users = names /\ v.channels = listed /\ v.roster = members
  BY DEF Seen

\* Each change of the core is told by the frames that lead to its new state.
LEMMA CoreLeads ==
  ASSUME TypeOK, InboxTyped, CoreInv, Core, NEW v, Leads(v, inbox, CoreView)
  PROVE  Leads(v, inbox', CoreView')
<1> DEFINE k == CoreView
           l == CoreView'
           listed == {c \in Channel : joined[c] # {}}
           nowListed == {c \in Channel : joined'[c] # {}}
<1>1. k \in GoodView /\ Whole(k) /\ l \in GoodView
  BY CoreViewGood, CoreViewGoodNext, CoreTyped, CoreStep
<1>2. /\ k.nick = me /\ k.users = visible /\ k.roster = joined /\ k.channels = listed
      /\ k = Seen(me, visible, listed, joined)
      /\ l = Seen(me', visible', nowListed, joined')
  BY CoreViewParts DEF CoreView
<1>3. Leads(v, inbox, k) /\ inbox \in Seq(Frame)
  BY DEF InboxTyped
<1> HIDE DEF k, l
<1>4. ASSUME NEW n \in Nick, NEW c \in Channel, CoreJoin(n, c) PROVE Leads(v, inbox', l)
  <2> DEFINE x == Seen(k.nick, k.users \cup {n}, k.channels, k.roster)
  <2>1. x \in GoodView /\ inbox \o Introduce(n) \in Seq(Frame) /\ Leads(v, inbox \o Introduce(n), x)
    BY <1>1, <1>2, <1>3, IntroduceLeads
  <2>2. Join(c, {n}) \in Frame /\ Introduce(n) \in Seq(Frame)
    BY FramesAreFrames DEF Introduce
  <2>3. inbox' = Append(inbox \o Introduce(n), Join(c, {n}))
    BY <1>3, <1>4, <2>2, Regrouped DEF CoreJoin, Change
  <2>4. Moves(x, Join(c, {n}), l)
    <3>1. x.nick = me /\ x.users = visible \cup {n} /\ x.channels = listed /\ x.roster = joined
      BY <1>2, SeenParts
    <3>2. nowListed = listed /\ c \in listed
      BY <1>4 DEF CoreJoin, TypeOK
    <3>3. l = Seen(x.nick, x.users, x.channels, [x.roster EXCEPT ![c] = @ \cup {n}])
      BY <1>2, <1>4, <3>1, <3>2 DEF CoreJoin
    <3> HIDE DEF x
    <3> QED
      BY <3>1, <3>2, <3>3 DEF Moves, Join
  <2> HIDE DEF x
  <2> QED
    BY <1>1, <2>1, <2>2, <2>3, <2>4, LeadsAppend
<1>5. ASSUME NEW n \in Nick, NEW c \in Channel, CoreOwnJoin(n, c) PROVE Leads(v, inbox', l)
  <2> DEFINE x == Seen(k.nick, k.users, k.channels \cup {c}, k.roster)
             y == Seen(x.nick, x.users \cup {n}, x.channels, x.roster)
             q == Append(inbox, AddChannel(c))
  <2>1. AddChannel(c) \in Frame /\ Join(c, {n, me}) \in Frame /\ Introduce(n) \in Seq(Frame)
    BY FramesAreFrames DEF Introduce, TypeOK
  <2>2. x \in GoodView
    BY <1>1 DEF GoodView, View, Seen
  <2>3. Moves(k, AddChannel(c), x)
    <3>1. c \notin Peopled(k)
      BY <1>2, <1>5 DEF CoreOwnJoin, CoreInv, Peopled
    <3> QED
      BY <3>1 DEF Moves, AddChannel
  <2>4. x.nick = me /\ x.users = visible /\ x.channels = listed \cup {c} /\ x.roster = joined
    BY <1>2, SeenParts
  <2> HIDE DEF x
  <2>5. Leads(v, q, x) /\ q \in Seq(Frame)
    BY <1>3, <2>1, <2>2, <2>3, LeadsAppend
  <2>6. inbox' = Append(q \o Introduce(n), Join(c, {n, me}))
    <3>1. inbox' = inbox \o (<<AddChannel(c)>> \o Introduce(n) \o <<Join(c, {n, me})>>)
      BY <1>5 DEF CoreOwnJoin, Change
    <3>2. inbox \o (<<AddChannel(c)>> \o Introduce(n) \o <<Join(c, {n, me})>>)
            = Append(Append(inbox, AddChannel(c)) \o Introduce(n), Join(c, {n, me}))
      BY <1>3, <2>1, Regrouped
    <3> QED
      BY <3>1, <3>2
  <2> HIDE DEF q
  <2>7. y \in GoodView /\ q \o Introduce(n) \in Seq(Frame) /\ Leads(v, q \o Introduce(n), y)
    BY <2>2, <2>4, <2>5, IntroduceLeads
  <2>8. Moves(y, Join(c, {n, me}), l)
    <3>1. /\ y.nick = me /\ y.users = visible \cup {n} /\ y.channels = listed \cup {c}
          /\ y.roster = joined
      BY <2>4, SeenParts
    <3>2. joined[c] = {} /\ me \in visible /\ nowListed = listed \cup {c}
      BY <1>5 DEF CoreOwnJoin, CoreInv, TypeOK
    <3>3. joined' = [joined EXCEPT ![c] = @ \cup {n, me}]
      BY <1>5, <3>2 DEF CoreOwnJoin, TypeOK
    <3>4. l = Seen(y.nick, y.users, y.channels, [y.roster EXCEPT ![c] = @ \cup {n, me}])
      BY <1>2, <1>5, <3>1, <3>2, <3>3 DEF CoreOwnJoin
    <3> HIDE DEF y
    <3> QED
      BY <3>1, <3>2, <3>4 DEF Moves, Join
  <2> HIDE DEF y
  <2> QED
    BY <1>1, <2>1, <2>6, <2>7, <2>8, LeadsAppend
<1>6. ASSUME NEW f \in Frame, inbox' = inbox \o <<f>> \/ inbox' = Append(inbox, f), Moves(k, f, l)
      PROVE  Leads(v, inbox', l)
  <2>1. inbox' = Append(inbox, f)
    BY <1>3, <1>6, Regrouped
  <2> QED
    BY <1>1, <1>3, <1>6, <2>1, LeadsAppend
<1>7. ASSUME NEW n \in Nick, NEW c \in Channel, CorePart(n, c) PROVE Leads(v, inbox', l)
  <2>1. Part(n, c) \in Frame /\ inbox' = inbox \o <<Part(n, c)>> /\ n \in joined[c]
    BY <1>7, FramesAreFrames DEF CorePart, Change
  <2>2. n = me => /\ nowListed = listed \ {c}
                  /\ l = Seen(me, visible, listed \ {c}, [joined EXCEPT ![c] = {}])
    BY <1>2, <1>7 DEF CorePart, TypeOK
  <2>3. n # me => nowListed = listed
    BY <1>7, <2>1 DEF CorePart, TypeOK, CoreInv
  <2>4. n # me => l = Seen(me, visible, listed, [joined EXCEPT ![c] = @ \ {n}])
    BY <1>2, <1>7, <2>3 DEF CorePart
  <2> HIDE DEF listed, nowListed
  <2>5. Moves(k, Part(n, c), l)
    BY <1>1, <1>2, <2>1, <2>2, <2>4 DEF Moves, Part
  <2> QED
    BY <1>6, <2>1, <2>5
<1>8. ASSUME NEW n \in Nick, NEW c \in Channel, CoreMode(n, c) PROVE Leads(v, inbox', l)
  <2>1. Mode(c, n) \in Frame /\ inbox' = inbox \o <<Mode(c, n)>> /\ n \in joined[c] /\ l = k
    BY <1>2, <1>8, FramesAreFrames DEF CoreMode, Change
  <2>2. Moves(k, Mode(c, n), l)
    BY <1>2, <2>1 DEF Moves, Mode
  <2> QED
    BY <1>6, <2>1, <2>2
<1>9. ASSUME NEW n \in Nick, CoreQuit(n) PROVE Leads(v, inbox', l)
  <2>1. Quit(n) \in Frame /\ inbox' = inbox \o <<Quit(n)>> /\ n # me
    BY <1>9, FramesAreFrames DEF CoreQuit, Change
  <2>2. nowListed = listed
    BY <1>9 DEF CoreQuit, TypeOK, CoreInv
  <2> HIDE DEF listed, nowListed
  <2>3. l = Seen(me, visible \ {n}, listed, [c \in Channel |-> joined[c] \ {n}])
    BY <1>2, <1>9, <2>2 DEF CoreQuit
  <2>4. Moves(k, Quit(n), l)
    BY <1>1, <1>2, <2>1, <2>3 DEF Moves, Quit
  <2> QED
    BY <1>6, <2>1, <2>4
<1>10. ASSUME CoreOffline PROVE Leads(v, inbox', l)
  <2>1. SetConnected(FALSE) \in Frame /\ inbox' = inbox \o <<SetConnected(FALSE)>>
    BY <1>10, FramesAreFrames, Zenon DEF CoreOffline, Change
  <2>2. nowListed = {}
    BY <1>10 DEF CoreOffline
  <2> HIDE DEF listed, nowListed
  <2>3. l = Seen(me, {}, {}, [c \in Channel |-> {}])
    BY <1>2, <1>10, <2>2 DEF CoreOffline
  <2>4. SetConnected(FALSE).kind = "setConnected" /\ ~SetConnected(FALSE).connected
    BY DEF SetConnected
  <2>5. Moves(k, SetConnected(FALSE), l)
    BY <1>2, <2>3, <2>4 DEF Moves
  <2> QED
    BY <1>6, <2>1, <2>5, Zenon
<1>11. ASSUME CoreServeInit PROVE Leads(v, inbox', l)
  <2>1. InitData \in Frame /\ inbox' = Append(inbox, InitData) /\ l = k
    BY <1>2, <1>11, FramesAreFrames DEF CoreServeInit
  <2>2. Moves(k, InitData, l)
    BY <1>1, <1>2, <2>1 DEF Moves, InitData
  <2> HIDE DEF listed, nowListed
  <2> QED
    BY <1>6, <2>1, <2>2
<1>12. ASSUME CoreOnline PROVE Leads(v, inbox', l)
  <2> DEFINE q == Append(inbox, SetConnected(TRUE))
  <2>1. SetConnected(TRUE) \in Frame /\ AddUser(me) \in Frame
    BY FramesAreFrames, Zenon DEF TypeOK
  <2>2. inbox' = Append(q, AddUser(me))
    <3>1. inbox' = inbox \o <<SetConnected(TRUE), AddUser(me)>>
      BY <1>12, Zenon DEF CoreOnline, Change
    <3>2. \A f, g \in Frame : inbox \o <<f, g>> = Append(Append(inbox, f), g)
      BY <1>3, Regrouped, EmptySeq
    <3> QED
      BY <2>1, <3>1, <3>2, Zenon
  <2>3. SetConnected(TRUE).kind = "setConnected" /\ SetConnected(TRUE).connected
    BY DEF SetConnected
  <2>4. Moves(k, SetConnected(TRUE), k)
    BY <2>3 DEF Moves
  <2>5. Leads(v, q, k) /\ q \in Seq(Frame)
    <3>1. \A f \in Frame : Moves(k, f, k) => Leads(v, Append(inbox, f), k)
                                            /\ Append(inbox, f) \in Seq(Frame)
      BY <1>1, <1>3, LeadsAppend
    <3> QED
      BY <2>1, <2>4, <3>1, Zenon
  <2> HIDE DEF q
  <2>6. visible = {} /\ nowListed = listed
    BY <1>12 DEF CoreOnline, CoreInv
  <2> HIDE DEF listed, nowListed
  <2>7. l = Seen(me, visible \cup {me}, listed, joined)
    BY <1>2, <1>12, <2>6 DEF CoreOnline
  <2>8. Moves(k, AddUser(me), l)
    BY <1>2, <2>7 DEF Moves, AddUser, Mask
  <2> QED
    BY <1>1, <2>1, <2>2, <2>5, <2>8, LeadsAppend
<1>13. ASSUME NEW old \in Nick, NEW new \in Nick, CoreRename(old, new) PROVE Leads(v, inbox', l)
  <2> DEFINE x == Seen(me', k.users, k.channels, k.roster)
             q == IF old = me THEN Append(inbox, SetMyNick(new)) ELSE inbox
  <2>1. /\ SetMyNick(new) \in Frame /\ Renamed(old, new) \in Frame
        /\ SetNick(new, new) \in Frame
    BY FramesAreFrames
  <2>2. inbox' = Append(Append(q, Renamed(old, new)), SetNick(new, new))
    <3>1. inbox' = inbox \o ((IF old = me THEN <<SetMyNick(new)>> ELSE <<>>)
                              \o <<Renamed(old, new), SetNick(new, new)>>)
      BY <1>13 DEF CoreRename, Change
    <3>2. /\ inbox \o (<<SetMyNick(new)>> \o <<Renamed(old, new), SetNick(new, new)>>)
             = Append(Append(Append(inbox, SetMyNick(new)), Renamed(old, new)), SetNick(new, new))
          /\ inbox \o (<<>> \o <<Renamed(old, new), SetNick(new, new)>>)
             = Append(Append(inbox, Renamed(old, new)), SetNick(new, new))
      BY <1>3, <2>1, Regrouped, EmptySeq
    <3> QED
      BY <3>1, <3>2
  <2>3. x \in GoodView
    BY <1>1, CoreTyped DEF GoodView, View, Seen, TypeOK
  <2>4. x.nick = me' /\ x.users = visible /\ x.channels = listed /\ x.roster = joined
    BY <1>2, SeenParts
  <2>5. q \in Seq(Frame) /\ Leads(v, q, x)
    <3>1. CASE old = me
      <4>1. Moves(k, SetMyNick(new), x)
        BY <1>13, <3>1 DEF Moves, SetMyNick, CoreRename
      <4> HIDE DEF x
      <4> QED
        BY <1>3, <2>1, <2>3, <3>1, <4>1, LeadsAppend
    <3>2. CASE old # me
      <4>1. x = k
        BY <1>2, <1>13, <3>2 DEF CoreRename
      <4> HIDE DEF x
      <4> QED
        BY <1>3, <3>2, <4>1
    <3> QED
      BY <3>1, <3>2
  <2> HIDE DEF x, q
  <2>6. nowListed = listed
    BY <1>13 DEF CoreRename, Swap, TypeOK
  <2> HIDE DEF listed, nowListed
  <2>7. l = Seen(x.nick, Swap(x.users, old, new), x.channels,
                 [c \in Channel |-> Swap(x.roster[c], old, new)])
    BY <1>2, <1>13, <2>4, <2>6 DEF CoreRename
  <2>8. Moves(x, Renamed(old, new), l)
    BY <1>13, <2>4, <2>7 DEF Moves, Renamed, CoreRename
  <2>9. Moves(l, SetNick(new, new), l)
    <3>1. l.users = Swap(visible, old, new) /\ old \in visible
      BY <1>13, <2>4, <2>7, SeenParts DEF CoreRename
    <3> QED
      BY <3>1 DEF Moves, SetNick, Swap
  <2>10. Leads(v, Append(q, Renamed(old, new)), l) /\ Append(q, Renamed(old, new)) \in Seq(Frame)
    BY <1>1, <2>1, <2>5, <2>8, LeadsAppend
  <2> QED
    BY <1>1, <2>1, <2>2, <2>9, <2>10, LeadsAppend
<1> HIDE DEF listed, nowListed
<1>14. Leads(v, inbox', l)
  BY <1>4, <1>5, <1>7, <1>8, <1>9, <1>10, <1>11, <1>12, <1>13 DEF Core
<1> QED
  BY <1>14 DEF l
--------------------------------------------------------------------------------
(* The client agrees with the view it has reached.                             *)

\* Users, registered objects and our nick: at most the view's before the
\* InitData, the view's after it.
UsersAgree(v) ==
  /\ \A n \in Nick : addressed[n] \in {n, NoNick}
  /\ \A n \in Nick : addressed[n] # NoNick => n \in v.users
  /\ \A c \in Channel : roster[c] \subseteq v.users
  /\ users \subseteq v.users /\ myNick \in {NoNick, v.nick}
  /\ initialized => users = v.users /\ myNick = v.nick

\* A channel and its members.  One that is listed but not registered has no members
\* in the view either, so our part never leaves it behind.
ChannelAgrees(v, c) ==
  /\ roster[c] \subseteq v.roster[c]
  /\ c \notin known => roster[c] = {}
  /\ c \in known => v.roster[c] # {}
  /\ c \in channels => c \in v.channels
  /\ c \in channels \ known => v.roster[c] = {}
  /\ initialized => /\ roster[c] = v.roster[c]
                    /\ v.roster[c] # {} => c \in known
                    /\ c \in v.channels => c \in channels

ChannelsAgree(v) == \A c \in Channel \ leftEarly : ChannelAgrees(v, c)

Agrees(v) == UsersAgree(v) /\ ChannelsAgree(v)

\* The same for the state the dispatcher's step leads to.
AgreesNext(w) == UsersAgree(w)' /\ ChannelsAgree(w)'

LEMMA DispatcherAgrees ==
  ASSUME TypeOK, InboxTyped, Dispatcher,
         NEW v \in GoodView, NEW w \in GoodView, Moves(v, Head(inbox), w), Agrees(v)
  PROVE  AgreesNext(w)
<1> DEFINE f == Head(inbox)
<1>1. f \in Frame
  <2>1. inbox # <<>>
    BY DEF Dispatcher, Receive, ReceiveAddUser, ReceiveAddChannel, ReceiveJoin, ReceiveMode,
           ReceivePart, ReceiveQuit, ReceiveRenamed, ReceiveSetNick, ReceiveSetMyNick,
           ReceiveSetConnected, ReceiveInitData
  <2> QED
    BY <2>1, HeadIsFrame
<1>2. /\ v.nick \in Nick /\ v.users \subseteq Nick /\ v.channels \subseteq Channel
      /\ v.roster \in [Channel -> SUBSET Nick]
      /\ \A c \in Channel : /\ v.roster[c] \subseteq v.users
                            /\ v.roster[c] # {} => c \in v.channels
  BY DEF GoodView, View
<1>3. /\ users \subseteq Nick /\ channels \subseteq Channel /\ myNick \in Nick \cup {NoNick}
      /\ addressed \in [Nick -> Nick \cup {NoNick}]
      /\ known \subseteq Channel /\ roster \in [Channel -> SUBSET Nick]
  BY DEF TypeOK
<1> USE NoNickAssumption
<1> HIDE DEF f
<1>4. ASSUME ReceiveAddUser PROVE AgreesNext(w)
  <2>1. f.kind = "addIrcUser"
    BY <1>4 DEF ReceiveAddUser, Receive, f
  <2>2. w = Seen(v.nick, v.users \cup {f.mask.nick}, v.channels, v.roster)
    BY <2>1 DEF Moves, f
  <2>3. /\ w.nick = v.nick /\ w.users = v.users \cup {f.mask.nick}
        /\ w.channels = v.channels /\ w.roster = v.roster
    BY <2>2, SeenParts
  <2>4. /\ users' = users \cup {f.mask.nick}
        /\ UNCHANGED <<channels, myNick, addressed, known, roster, initialized, leftEarly>>
    BY <1>4 DEF ReceiveAddUser, BareNick, f
  <2>5. UsersAgree(w)'
    BY <1>2, <1>3, <2>3, <2>4 DEF Agrees, UsersAgree
  <2>6. ChannelsAgree(w)'
    BY <1>2, <1>3, <2>3, <2>4 DEF Agrees, ChannelsAgree, ChannelAgrees, Peopled
  <2> QED
    BY <2>5, <2>6 DEF AgreesNext
<1>5. ASSUME ReceiveAddChannel PROVE AgreesNext(w)
  <2>1. f.kind = "addIrcChannel"
    BY <1>5 DEF ReceiveAddChannel, Receive, f
  <2>2. /\ f.channel \notin Peopled(v)
        /\ w = Seen(v.nick, v.users, v.channels \cup {f.channel}, v.roster)
    BY <2>1 DEF Moves, f
  <2>3. /\ w.nick = v.nick /\ w.users = v.users
        /\ w.channels = v.channels \cup {f.channel} /\ w.roster = v.roster
    BY <2>2, SeenParts
  <2>4. /\ channels' = channels \cup {f.channel}
        /\ UNCHANGED <<users, myNick, addressed, known, roster, initialized, leftEarly>>
    BY <1>5 DEF ReceiveAddChannel, f
  <2>5. UsersAgree(w)'
    BY <1>2, <1>3, <2>3, <2>4 DEF Agrees, UsersAgree
  <2>6. ChannelsAgree(w)'
    BY <1>2, <1>3, <2>2, <2>3, <2>4 DEF Agrees, ChannelsAgree, ChannelAgrees, Peopled
  <2> QED
    BY <2>5, <2>6 DEF AgreesNext
<1>6. ASSUME ReceiveJoin PROVE AgreesNext(w)
  <2>1. f.kind = "joinIrcUsers"
    BY <1>6 DEF ReceiveJoin, Receive, f
  <2>2. /\ f.nicks # {} /\ f.nicks \subseteq v.users /\ f.channel \in v.channels
        /\ w = Seen(v.nick, v.users, v.channels, [v.roster EXCEPT ![f.channel] = @ \cup f.nicks])
    BY <2>1 DEF Moves, f
  <2>3. /\ w.nick = v.nick /\ w.users = v.users /\ w.channels = v.channels
        /\ w.roster = [v.roster EXCEPT ![f.channel] = @ \cup f.nicks]
    BY <2>2, SeenParts
  <2>4. /\ known' = known \cup {f.channel}
        /\ roster' = [roster EXCEPT ![f.channel] = @ \cup f.nicks]
        /\ UNCHANGED <<users, channels, myNick, addressed, initialized, leftEarly>>
    BY <1>6 DEF ReceiveJoin, Enter, f
  <2>5. UsersAgree(w)'
    BY <1>2, <1>3, <2>2, <2>3, <2>4 DEF Agrees, UsersAgree
  <2>6. f.channel \in Channel
    BY <1>1, <2>1, FrameFields
  <2>7. ASSUME NEW c \in Channel \ leftEarly' PROVE ChannelAgrees(w, c)'
    <3>1. ChannelAgrees(v, c)
      BY <2>4, <2>7 DEF Agrees, ChannelsAgree
    <3>2. CASE c # f.channel
      <4>1. /\ roster'[c] = roster[c] /\ w.roster[c] = v.roster[c]
            /\ c \in known' <=> c \in known
        BY <1>2, <1>3, <2>3, <2>4, <3>2
      <4> QED
        BY <2>3, <2>4, <3>1, <4>1 DEF ChannelAgrees
    <3>3. CASE c = f.channel
      <4>1. /\ roster'[c] = roster[c] \cup f.nicks /\ w.roster[c] = v.roster[c] \cup f.nicks
            /\ c \in known' /\ c \in v.channels
        BY <1>2, <1>3, <2>2, <2>3, <2>4, <3>3
      <4> QED
        BY <2>2, <2>3, <2>4, <3>1, <4>1 DEF ChannelAgrees
    <3> QED
      BY <3>2, <3>3
  <2> QED
    BY <2>5, <2>7 DEF AgreesNext, ChannelsAgree
<1>7. ASSUME ReceiveMode PROVE AgreesNext(w)
  <2>1. f.kind = "userMode"
    BY <1>7 DEF ReceiveMode, Receive, f
  <2>2. f.nick \in v.roster[f.channel] /\ w = v /\ f.channel \in Channel
    BY <1>1, <2>1, FrameFields DEF Moves, f
  <2>3. /\ known' = known \cup {f.channel}
        /\ roster' = [roster EXCEPT ![f.channel] = @ \cup {f.nick}]
        /\ UNCHANGED <<users, channels, myNick, addressed, initialized, leftEarly>>
    BY <1>7 DEF ReceiveMode, Enter, f
  <2>4. UsersAgree(w)'
    BY <1>2, <1>3, <2>2, <2>3 DEF Agrees, UsersAgree
  <2>5. ASSUME NEW c \in Channel \ leftEarly' PROVE ChannelAgrees(w, c)'
    <3>1. ChannelAgrees(v, c)
      BY <2>3, <2>5 DEF Agrees, ChannelsAgree
    <3>2. CASE c # f.channel
      <4>1. roster'[c] = roster[c] /\ (c \in known' <=> c \in known)
        BY <1>3, <2>3, <3>2
      <4> QED
        BY <2>2, <2>3, <3>1, <4>1 DEF ChannelAgrees
    <3>3. CASE c = f.channel
      <4>1. /\ roster'[c] = roster[c] \cup {f.nick} /\ f.nick \in v.roster[c]
            /\ c \in known' /\ c \in v.channels
        BY <1>2, <1>3, <2>2, <2>3, <3>3
      <4> QED
        BY <2>2, <2>3, <3>1, <4>1 DEF ChannelAgrees
    <3> QED
      BY <3>2, <3>3
  <2> QED
    BY <2>4, <2>5 DEF AgreesNext, ChannelsAgree
<1>8. ASSUME ReceivePart PROVE AgreesNext(w)
  <2> DEFINE n == f.nick
             d == f.channel
  <2>1. f.kind = "partChannel"
    BY <1>8 DEF ReceivePart, Receive, f
  <2>2. /\ Whole(v) /\ n \in v.roster[d] /\ (f.own <=> n = v.nick)
        /\ w = IF n = v.nick
               THEN Seen(v.nick, v.users, v.channels \ {d}, [v.roster EXCEPT ![d] = {}])
               ELSE Seen(v.nick, v.users, v.channels, [v.roster EXCEPT ![d] = @ \ {n}])
    BY <2>1 DEF Moves, f
  <2>3. n \in Nick /\ d \in Channel /\ n \in v.users
    BY <1>1, <1>2, <2>1, <2>2, FrameFields
  <2>4. /\ w.nick = v.nick /\ w.users = v.users
        /\ w.channels = IF n = v.nick THEN v.channels \ {d} ELSE v.channels
        /\ w.roster = IF n = v.nick THEN [v.roster EXCEPT ![d] = {}]
                      ELSE [v.roster EXCEPT ![d] = @ \ {n}]
    BY <2>2, SeenParts
  <2>5. NickOf(n) = n /\ Registered(n) = [addressed EXCEPT ![n] = n]
    BY <1>3, <2>3 DEF NickOf, Registered, Agrees, UsersAgree
  <2>6. /\ addressed' = [addressed EXCEPT ![n] = n]
        /\ IF d \in known /\ OwnPart(n)
           THEN /\ roster' = [roster EXCEPT ![d] = {}]
                /\ known' = known \ {d} /\ channels' = channels \ {d}
           ELSE /\ roster' = [roster EXCEPT ![d] = @ \ {n}]
                /\ known' = known /\ channels' = channels
        /\ leftEarly' = IF f.own /\ myNick = NoNick /\ d \in known
                        THEN leftEarly \cup {d} ELSE leftEarly
        /\ users' = users /\ myNick' = myNick /\ initialized' = initialized
    BY <1>8, <2>5 DEF ReceivePart, f
  <2> HIDE DEF n, d
  <2>7. UsersAgree(w)'
    BY <1>2, <1>3, <2>3, <2>4, <2>6 DEF Agrees, UsersAgree
  <2>8. ASSUME NEW c \in Channel \ leftEarly' PROVE ChannelAgrees(w, c)'
    <3>1. ChannelAgrees(v, c)
      BY <2>6, <2>8 DEF Agrees, ChannelsAgree
    <3>2. myNick \in {NoNick, v.nick} /\ (initialized => myNick = v.nick)
      BY DEF Agrees, UsersAgree
    <3>3. CASE c # d
      <4>1. /\ roster'[c] = roster[c] /\ w.roster[c] = v.roster[c]
            /\ c \in known' <=> c \in known
            /\ c \in channels' <=> c \in channels
            /\ c \in w.channels <=> c \in v.channels
        BY <1>2, <1>3, <2>3, <2>4, <2>6, <3>3
      <4> QED
        BY <2>6, <3>1, <4>1 DEF ChannelAgrees
    <3>4. CASE c = d /\ n = v.nick /\ d \in known
      <4>1. myNick # NoNick
        BY <2>2, <2>6, <2>8, <3>4
      <4>2. /\ roster'[d] = {} /\ d \notin known' /\ d \notin channels'
            /\ w.roster[d] = {} /\ d \notin w.channels
        BY <1>2, <1>3, <2>3, <2>4, <2>6, <3>2, <3>4, <4>1 DEF OwnPart
      <4> QED
        BY <3>4, <4>2 DEF ChannelAgrees
    <3>5. CASE c = d /\ n = v.nick /\ d \notin known
      <4>1. d \notin channels /\ roster[d] = {} /\ ~initialized
        BY <2>2, <2>3, <3>1, <3>5 DEF ChannelAgrees
      <4>2. /\ roster'[d] = {} /\ d \notin known' /\ d \notin channels'
            /\ w.roster[d] = {} /\ ~initialized'
        BY <1>2, <1>3, <2>3, <2>4, <2>6, <3>5, <4>1
      <4> QED
        BY <3>5, <4>2 DEF ChannelAgrees
    <3>6. CASE c = d /\ n # v.nick
      <4>1. v.nick \in v.roster[d]
        BY <2>2, <2>3 DEF Whole, Peopled
      <4>2. /\ roster'[d] = roster[d] \ {n} /\ w.roster[d] = v.roster[d] \ {n}
            /\ known' = known /\ channels' = channels /\ w.channels = v.channels
            /\ v.nick \in w.roster[d] /\ initialized' = initialized
        BY <1>2, <1>3, <2>3, <2>4, <2>6, <3>2, <3>6, <4>1 DEF OwnPart
      <4> QED
        BY <3>1, <3>6, <4>1, <4>2 DEF ChannelAgrees
    <3> QED
      BY <3>3, <3>4, <3>5, <3>6
  <2> QED
    BY <2>7, <2>8 DEF AgreesNext, ChannelsAgree
<1>9. ASSUME ReceiveQuit PROVE AgreesNext(w)
  <2> DEFINE n == f.nick
  <2>1. f.kind = "quit"
    BY <1>9 DEF ReceiveQuit, Receive, f
  <2>2. /\ Whole(v) /\ n # v.nick
        /\ w = Seen(v.nick, v.users \ {n}, v.channels, [c \in Channel |-> v.roster[c] \ {n}])
    BY <2>1 DEF Moves, f
  <2>3. /\ w.nick = v.nick /\ w.users = v.users \ {n} /\ w.channels = v.channels
        /\ w.roster = [c \in Channel |-> v.roster[c] \ {n}]
    BY <2>2, SeenParts
  <2>4. n \in Nick
    BY <1>1, <2>1, FrameFields
  <2>5. NickOf(n) = n
    BY <1>3, <2>4 DEF NickOf, Registered, Agrees, UsersAgree
  <2>6. /\ roster' = [c \in Channel |-> roster[c] \ {n}] /\ users' = users \ {n}
        /\ addressed' = [addressed EXCEPT ![n] = NoNick]
        /\ UNCHANGED <<channels, myNick, known, initialized, leftEarly>>
    BY <1>9, <2>5 DEF ReceiveQuit, LeaveRosters, f
  <2> HIDE DEF n
  <2>7. UsersAgree(w)'
    BY <1>2, <1>3, <2>3, <2>4, <2>6 DEF Agrees, UsersAgree
  <2>8. \A c \in Channel : v.roster[c] # {} => w.roster[c] # {}
    BY <1>2, <2>2, <2>3 DEF Whole, Peopled
  <2>9. ChannelsAgree(w)'
    BY <1>2, <1>3, <2>3, <2>6, <2>8 DEF Agrees, ChannelsAgree, ChannelAgrees
  <2> QED
    BY <2>7, <2>9 DEF AgreesNext
<1>10. ASSUME ReceiveRenamed PROVE AgreesNext(w)
  <2> DEFINE old == f.old
             new == f.new
  <2>1. f.kind = "objectRenamed"
    BY <1>10 DEF ReceiveRenamed, Receive, f
  <2>2. /\ old \in v.users /\ new \notin v.users
        /\ w = Seen(v.nick, Swap(v.users, old, new), v.channels,
                    [c \in Channel |-> Swap(v.roster[c], old, new)])
    BY <2>1 DEF Moves, f
  <2>3. /\ w.nick = v.nick /\ w.users = Swap(v.users, old, new) /\ w.channels = v.channels
        /\ w.roster = [c \in Channel |-> Swap(v.roster[c], old, new)]
    BY <2>2, SeenParts
  <2>4. old \in Nick /\ new \in Nick
    BY <1>1, <2>1, FrameFields
  <2>5. addressed[old] \in {old, NoNick} /\ addressed[new] = NoNick
    BY <2>2, <2>4 DEF Agrees, UsersAgree
  <2>6. /\ users' = Swap(users, old, new)
        /\ roster' = [c \in Channel |-> Swap(roster[c], old, new)]
        /\ \/ addressed[old] = NoNick /\ addressed' = addressed
           \/ addressed' = [addressed EXCEPT ![old] = NoNick, ![new] = new]
        /\ UNCHANGED <<channels, myNick, known, initialized, leftEarly>>
    BY <1>10, <2>5 DEF ReceiveRenamed, Rekey, Readdress, f
  <2> HIDE DEF old, new
  <2>7. UsersAgree(w)'
    <3>1. \A n \in Nick : addressed'[n] \in {n, NoNick}
      BY <1>3, <2>4, <2>6 DEF Agrees, UsersAgree
    <3>2. \A n \in Nick : addressed'[n] # NoNick => n \in w.users
      BY <1>3, <2>2, <2>3, <2>4, <2>6 DEF Agrees, UsersAgree, Swap
    <3>3. \A c \in Channel : roster'[c] \subseteq w.users
      BY <1>3, <2>2, <2>3, <2>6 DEF Agrees, UsersAgree, Swap
    <3>4. users' \subseteq w.users /\ myNick' \in {NoNick, w.nick}
      BY <1>3, <2>2, <2>3, <2>6 DEF Agrees, UsersAgree, Swap
    <3>5. initialized' => users' = w.users /\ myNick' = w.nick
      BY <2>3, <2>6 DEF Agrees, UsersAgree
    <3> QED
      BY <3>1, <3>2, <3>3, <3>4, <3>5 DEF UsersAgree
  <2>8. \A c \in Channel : (v.roster[c] = {} <=> w.roster[c] = {})
    BY <2>3 DEF Swap
  <2>9. ASSUME NEW c \in Channel \ leftEarly' PROVE ChannelAgrees(w, c)'
    <3>1. ChannelAgrees(v, c)
      BY <2>6, <2>9 DEF Agrees, ChannelsAgree
    <3>2. /\ roster'[c] = Swap(roster[c], old, new) /\ w.roster[c] = Swap(v.roster[c], old, new)
          /\ roster[c] = {} => roster'[c] = {}
      BY <2>3, <2>6 DEF Swap
    <3>3. roster'[c] \subseteq w.roster[c]
      BY <1>2, <2>2, <3>1, <3>2 DEF ChannelAgrees, Swap
    <3> QED
      BY <2>3, <2>6, <2>8, <3>1, <3>2, <3>3 DEF ChannelAgrees
  <2> QED
    BY <2>7, <2>9 DEF AgreesNext, ChannelsAgree
<1>11. ASSUME ReceiveSetNick PROVE AgreesNext(w)
  <2>1. f.kind = "setNick"
    BY <1>11 DEF ReceiveSetNick, Receive, f
  <2>2. f.key = f.nick /\ f.nick \in v.users /\ w = v
    BY <2>1 DEF Moves, f
  <2>3. /\ addressed' = [addressed EXCEPT ![f.nick] = f.nick]
        /\ UNCHANGED <<users, channels, myNick, known, roster, initialized, leftEarly>>
    BY <1>11, <2>2 DEF ReceiveSetNick, f
  <2>4. UsersAgree(w)'
    BY <1>2, <1>3, <2>2, <2>3 DEF Agrees, UsersAgree
  <2>5. ChannelsAgree(w)'
    BY <2>2, <2>3 DEF Agrees, ChannelsAgree, ChannelAgrees
  <2> QED
    BY <2>4, <2>5 DEF AgreesNext
<1>12. ASSUME ReceiveSetMyNick PROVE AgreesNext(w)
  <2>1. f.kind = "setMyNick"
    BY <1>12 DEF ReceiveSetMyNick, Receive, f
  <2>2. w = Seen(f.nick, v.users, v.channels, v.roster)
    BY <2>1 DEF Moves, f
  <2>3. /\ w.nick = f.nick /\ w.users = v.users
        /\ w.channels = v.channels /\ w.roster = v.roster
    BY <2>2, SeenParts
  <2>4. /\ myNick' = f.nick
        /\ UNCHANGED <<users, channels, addressed, known, roster, initialized, leftEarly>>
    BY <1>12 DEF ReceiveSetMyNick, f
  <2>5. UsersAgree(w)'
    BY <2>3, <2>4 DEF Agrees, UsersAgree
  <2>6. ChannelsAgree(w)'
    BY <2>3, <2>4 DEF Agrees, ChannelsAgree, ChannelAgrees
  <2> QED
    BY <2>5, <2>6 DEF AgreesNext
<1>13. ASSUME ReceiveSetConnected PROVE AgreesNext(w)
  <2>1. f.kind = "setConnected"
    BY <1>13 DEF ReceiveSetConnected, Receive, f
  <2>2. UNCHANGED <<myNick, initialized>>
    BY <1>13 DEF ReceiveSetConnected
  <2>3. CASE f.connected
    <3>1. w = v
      BY <2>1, <2>3 DEF Moves, f
    <3>2. UNCHANGED <<users, channels, addressed, known, roster, leftEarly>>
      BY <1>13, <2>3 DEF ReceiveSetConnected, f
    <3> QED
      BY <2>2, <3>1, <3>2 DEF Agrees, AgreesNext, UsersAgree, ChannelsAgree, ChannelAgrees
  <2>4. CASE ~f.connected
    <3>1. w = Seen(v.nick, {}, {}, [c \in Channel |-> {}])
      BY <2>1, <2>4 DEF Moves, f
    <3>2. /\ w.nick = v.nick /\ w.users = {} /\ w.channels = {}
          /\ w.roster = [c \in Channel |-> {}]
      BY <3>1, SeenParts
    <3>3. /\ addressed' = [n \in Nick |-> NoNick]
          /\ known' = {} /\ roster' = [c \in Channel |-> {}]
          /\ users' = {} /\ channels' = {}
      BY <1>13, <2>4 DEF ReceiveSetConnected, ClearRosters, f
    <3>4. UsersAgree(w)'
      BY <2>2, <3>2, <3>3 DEF Agrees, UsersAgree
    <3>5. ChannelsAgree(w)'
      BY <3>2, <3>3 DEF ChannelsAgree, ChannelAgrees
    <3> QED
      BY <3>4, <3>5 DEF AgreesNext
  <2> QED
    BY <2>3, <2>4
<1>14. ASSUME ReceiveInitData PROVE AgreesNext(w)
  <2> DEFINE seeded == {c \in Channel : f.members[c] # {}}
  <2>1. f.kind = "initData"
    BY <1>14 DEF ReceiveInitData, Receive, f
  <2>2. Whole(v) /\ f.nick = v.nick /\ f.nicks = v.users /\ f.members = v.roster /\ w = v
    BY <2>1 DEF Moves, f
  <2>3. /\ myNick' = v.nick /\ users' = users \cup v.users
        /\ channels' = channels \cup seeded
        /\ addressed' = [n \in Nick |-> IF n \in v.users THEN n ELSE addressed[n]]
        /\ known' = known \cup seeded
        /\ roster' = [c \in Channel |-> IF c \in seeded THEN v.roster[c] ELSE roster[c]]
        /\ leftEarly' = leftEarly \ seeded
    BY <1>14, <2>2 DEF ReceiveInitData, f
  <2>4. seeded = Peopled(v)
    BY <2>2 DEF Peopled
  <2> HIDE DEF seeded
  <2>5. UsersAgree(w)'
    BY <1>2, <1>3, <2>2, <2>3 DEF Agrees, UsersAgree
  <2>6. ASSUME NEW c \in Channel \ leftEarly' PROVE ChannelAgrees(w, c)'
    <3>1. c \in v.channels <=> v.roster[c] # {}
      BY <2>2 DEF Whole, Peopled
    <3>2. c \in seeded <=> v.roster[c] # {}
      BY <2>4 DEF Peopled
    <3>3. CASE c \in seeded
      <4>1. roster'[c] = v.roster[c] /\ c \in known' /\ c \in channels'
        BY <2>3, <3>3
      <4> QED
        BY <2>2, <3>1, <3>2, <3>3, <4>1 DEF ChannelAgrees
    <3>4. CASE c \notin seeded
      <4>1. ChannelAgrees(v, c)
        BY <2>3, <2>6, <3>4 DEF Agrees, ChannelsAgree
      <4> QED
        BY <2>2, <2>3, <3>1, <3>2, <3>4, <4>1 DEF ChannelAgrees
    <3> QED
      BY <3>3, <3>4
  <2> QED
    BY <2>5, <2>6 DEF AgreesNext, ChannelsAgree
<1> QED
  BY <1>4, <1>5, <1>6, <1>7, <1>8, <1>9, <1>10, <1>11, <1>12, <1>13, <1>14 DEF Dispatcher

--------------------------------------------------------------------------------
(* The inductive invariant: some view the client agrees with, from which the    *)
(* frames on their way lead to the core.                                        *)

OnTheWay == \E v \in GoodView : Leads(v, inbox, CoreView) /\ Agrees(v)

Inv == TypeOK /\ InboxTyped /\ CoreInv /\ OnTheWay

LEMMA InitInv == Init => Inv
<1> SUFFICES ASSUME Init PROVE Inv
  OBVIOUS
<1>1. TypeOK /\ InboxTyped
  BY InitTyped
<1>2. CoreInv
  BY DEF Init, CoreInv
<1>3. CoreView \in GoodView
  BY <1>1, <1>2, CoreViewGood
<1>4. Leads(CoreView, inbox, CoreView)
  BY <1>3, LeadsEmpty DEF Init
<1>5. Agrees(CoreView)
  <2> HIDE DEF CoreView
  <2> QED
    BY DEF Init, Agrees, UsersAgree, ChannelsAgree, ChannelAgrees
<1> QED
  BY <1>1, <1>2, <1>3, <1>4, <1>5 DEF Inv, OnTheWay

\* The core leaves the client alone, and its frames lead on from the same view.
LEMMA CoreOnTheWay == ASSUME Inv, Core PROVE Inv'
<1>1. TypeOK' /\ InboxTyped' /\ CoreInv'
  BY CoreTyped, CoreStep DEF Inv
<1>2. PICK v \in GoodView : Leads(v, inbox, CoreView) /\ Agrees(v)
  BY DEF Inv, OnTheWay
<1>3. Leads(v, inbox', CoreView')
  BY <1>2, CoreLeads DEF Inv
<1>4. UNCHANGED <<users, channels, myNick, addressed, known, roster, initialized, leftEarly>>
  BY Zenon DEF Core, CoreJoin, CoreOwnJoin, CorePart, CoreMode, CoreQuit, CoreRename, CoreOffline,
         CoreOnline, CoreServeInit, Change, client
<1>5. Agrees(v)'
  BY <1>2, <1>4 DEF Agrees, UsersAgree, ChannelsAgree, ChannelAgrees
<1> QED
  BY <1>1, <1>3, <1>5 DEF Inv, OnTheWay

\* The dispatcher leaves the core alone, and follows the move of the first frame.
LEMMA DispatcherOnTheWay == ASSUME Inv, Dispatcher PROVE Inv'
<1>1. PICK v \in GoodView : Leads(v, inbox, CoreView) /\ Agrees(v)
  BY DEF Inv, OnTheWay
<1>2. inbox # <<>> /\ inbox' = Tail(inbox) /\ UNCHANGED <<online, me, visible, joined, served, ops>>
  BY DEF Dispatcher, Receive, ReceiveAddUser, ReceiveAddChannel, ReceiveJoin, ReceiveMode,
         ReceivePart, ReceiveQuit, ReceiveRenamed, ReceiveSetNick, ReceiveSetMyNick,
         ReceiveSetConnected, ReceiveInitData, core
<1>3. PICK w \in GoodView : Moves(v, Head(inbox), w) /\ Leads(w, Tail(inbox), CoreView)
  BY <1>1, <1>2, LeadsTail DEF Inv, InboxTyped
<1>4. TypeOK' /\ InboxTyped' /\ CoreInv'
  BY <1>2, DispatcherTyped DEF Inv, CoreInv
<1>5. CoreView' = CoreView
  BY <1>2 DEF CoreView, Seen
<1>6. AgreesNext(w)
  BY <1>1, <1>3, DispatcherAgrees DEF Inv
<1>7. Leads(w, inbox', CoreView')
  BY <1>2, <1>3, <1>5
<1> QED
  BY <1>4, <1>6, <1>7 DEF Inv, OnTheWay, Agrees, AgreesNext

\* In every reachable state the client agrees with a view, and the frames still on
\* their way turn that view into the state of the core: nothing the dispatcher
\* has handled, in whatever order it met the InitData, is wrong about what the
\* core has told it so far.
THEOREM ClientOnTheWay == Spec => []Inv
<1>1. Inv /\ [Next]_vars => Inv'
  <2>1. Inv /\ UNCHANGED vars => Inv'
    <3> SUFFICES ASSUME Inv, UNCHANGED vars PROVE Inv'
      OBVIOUS
    <3>1. UNCHANGED <<online, me, visible, joined, served, ops, inbox, users, channels, myNick,
                      addressed, known, roster, initialized, leftEarly>>
      BY DEF vars, core, client
    <3>2. TypeOK' /\ InboxTyped' /\ CoreInv'
      BY <3>1 DEF Inv, TypeOK, InboxTyped, CoreInv
    <3>3. CoreView' = CoreView
      BY <3>1 DEF CoreView, Seen
    <3>4. \A v \in GoodView : Leads(v, inbox, CoreView) => Leads(v, inbox', CoreView')
      BY <3>1, <3>3
    <3>5. \A v \in GoodView : Agrees(v) => Agrees(v)'
      BY <3>1 DEF Agrees, UsersAgree, ChannelsAgree, ChannelAgrees
    <3> QED
      BY <3>2, <3>4, <3>5 DEF Inv, OnTheWay
  <2> QED
    BY <2>1, CoreOnTheWay, DispatcherOnTheWay DEF Next
<1> QED
  BY <1>1, InitInv, PTL DEF Spec

\* With nothing on its way the view is the core's.
LEMMA SettledView ==
  ASSUME Inv, inbox = <<>>
  PROVE  Agrees(CoreView)
  BY LeadsEmpty DEF Inv, OnTheWay

\* Once everything sent has been handled, Network.users are the core's users, and a
\* channel is listed, registered and peopled as on the core: in every channel but
\* those that we left ourselves before our nick was known, and that neither a
\* disconnect nor the InitData has set right since.
THEOREM RostersFollowTheCore == Spec => []RostersExactOnceKnown
<1>1. Inv => RostersExactOnceKnown
  <2> SUFFICES ASSUME Inv, Settled
               PROVE  /\ users = visible
                      /\ \A c \in Channel \ leftEarly :
                           /\ c \in known <=> joined[c] # {}
                           /\ c \in channels <=> c \in known
                           /\ roster[c] = joined[c]
    BY DEF RostersExactOnceKnown
  <2>1. Agrees(CoreView) /\ initialized
    BY SettledView DEF Settled
  <2>2. users = visible
    BY <2>1, CoreViewParts DEF Agrees, UsersAgree
  <2>3. ASSUME NEW c \in Channel \ leftEarly
        PROVE  /\ c \in known <=> joined[c] # {}
               /\ c \in channels <=> c \in known
               /\ roster[c] = joined[c]
    <3>1. ChannelAgrees(CoreView, c)
      BY <2>1, <2>3 DEF Agrees, ChannelsAgree
    <3> QED
      BY <2>1, <3>1, CoreViewParts DEF ChannelAgrees
  <2> QED
    BY <2>2, <2>3
<1> QED
  BY <1>1, ClientOnTheWay, PTL

\* The copies of a membership agree at every moment: members of a channel are known
\* users, an IrcUser is registered under its own nick, none outlives its user.
THEOREM NoGhosts == Spec => []CopiesAgree
<1>1. Inv => CopiesAgree
  <2> SUFFICES ASSUME Inv PROVE CopiesAgree
    OBVIOUS
  <2>1. PICK v \in GoodView : Agrees(v)
    BY DEF Inv, OnTheWay
  <2>2. /\ initialized => \A c \in Channel : roster[c] \subseteq users
        /\ \A n \in Nick : addressed[n] \in {n, NoNick}
    BY <2>1 DEF Agrees, UsersAgree
  <2>3. Settled => \A n \in Nick : addressed[n] # NoNick => n \in visible
    BY SettledView, CoreViewParts DEF Settled, Agrees, UsersAgree
  <2> QED
    BY <2>2, <2>3 DEF CopiesAgree
<1> QED
  BY <1>1, ClientOnTheWay, PTL
================================================================================
