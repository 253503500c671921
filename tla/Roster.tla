---------------------------------- MODULE Roster ----------------------------------
(***************************************************************************)
(* The users and channels of one IRC network, as the Dispatcher maintains  *)
(* them from Sync calls, __objectRenamed__ and the network's InitData:     *)
(* Network.users, Network.channels, the registry of IrcUser and IrcChannel *)
(* objects, and the rosters (IrcChannel.user_modes) the UI shows.          *)
(*                                                                         *)
(* The core is external.  It sends each change once, in order, whether or  *)
(* not the InitData the client asked for has been served yet; parts, kicks *)
(* and quits are only sent as IrcUser calls, a rename re-addresses the     *)
(* user first (tests/unit/sync/test_dispatcher.py:699 and :771).           *)
(***************************************************************************)
EXTENDS Naturals, Sequences

CONSTANTS
  Nick,      \* the nicks in use on the network
  Channel,   \* its channels
  NoNick,    \* "no object" in the registry, and an unset my_nick
  MaxOps,    \* bound: how many changes the core makes
  MaxQueue   \* bound: the core makes none while this many frames are on their way

ASSUME NoNickAssumption == NoNick \notin Nick
ASSUME BoundsAssumption == MaxOps \in Nat /\ MaxQueue \in Nat

VARIABLES
  \* the core
  online,     \* connected to the IRC network
  me,         \* our nick
  visible,    \* the users it knows
  joined,     \* the members of each channel we are in, {} for the others
  served,     \* the InitData has been sent
  ops,        \* how many changes it has made
  inbox,      \* frames on their way to the client
  \* the client
  users,      \* Network.users
  channels,   \* Network.channels
  myNick,     \* Network.my_nick
  addressed,  \* the nick of the IrcUser registered under a name, or NoNick
  known,      \* the names of the registered IrcChannels
  roster,     \* their user_modes keys, {} for the others
  initialized,\* the InitData has been applied
  leftEarly   \* history: the channels we were seen to leave before our nick was
              \* known, and that nothing has replaced or cleared since

core   == <<online, me, visible, joined, served, ops>>
client == <<users, channels, myNick, addressed, known, roster, initialized, leftEarly>>
vars   == <<core, inbox, client>>

Init ==
  /\ online = TRUE
  /\ me \in Nick
  /\ visible \in {V \in SUBSET Nick : me \in V}
  /\ joined \in [Channel -> {{}} \cup {S \in SUBSET visible : me \in S}]
  /\ served = FALSE /\ ops = 0 /\ inbox = <<>>
  /\ users = {} /\ channels = {} /\ myNick = NoNick
  /\ addressed = [n \in Nick |-> NoNick]
  /\ known = {} /\ roster = [c \in Channel |-> {}]
  /\ initialized = FALSE /\ leftEarly = {}

--------------------------------------------------------------------------------
(* The core.                                                                *)

Mask(n)          == [nick |-> n, ident |-> "user@host"]
AddUser(n)       == [kind |-> "addIrcUser", mask |-> Mask(n)]
AddChannel(c)    == [kind |-> "addIrcChannel", channel |-> c]
Join(c, S)       == [kind |-> "joinIrcUsers", channel |-> c, nicks |-> S]
Mode(c, n)       == [kind |-> "userMode", channel |-> c, nick |-> n]
\* own, whether it is our nick, is not on the wire: it is there for leftEarly only.
Part(n, c)       == [kind |-> "partChannel", nick |-> n, channel |-> c, own |-> n = me]
Quit(n)          == [kind |-> "quit", nick |-> n]
Renamed(old, new) == [kind |-> "objectRenamed", old |-> old, new |-> new]
SetNick(key, n)  == [kind |-> "setNick", key |-> key, nick |-> n]
SetMyNick(n)     == [kind |-> "setMyNick", nick |-> n]
SetConnected(b)  == [kind |-> "setConnected", connected |-> b]
InitData         == [kind |-> "initData", nick |-> me, nicks |-> visible, members |-> joined]

\* The core makes a change and tells it with these frames.
Change(frames) ==
  /\ ops < MaxOps /\ Len(inbox) < MaxQueue
  /\ ops' = ops + 1
  /\ inbox' = inbox \o frames
  /\ UNCHANGED <<client, served>>

Introduce(n) == IF n \in visible THEN <<>> ELSE <<AddUser(n)>>

CoreJoin(n, c) ==
  /\ online /\ me \in joined[c] /\ n \notin joined[c]
  /\ Change(Introduce(n) \o <<Join(c, {n})>>)
  /\ visible' = visible \cup {n}
  /\ joined' = [joined EXCEPT ![c] = @ \cup {n}]
  /\ UNCHANGED <<online, me>>

\* We join: the channel, whoever is there already, and ourselves.
CoreOwnJoin(n, c) ==
  /\ online /\ me \notin joined[c]
  /\ Change(<<AddChannel(c)>> \o Introduce(n) \o <<Join(c, {n, me})>>)
  /\ visible' = visible \cup {n}
  /\ joined' = [joined EXCEPT ![c] = {n, me}]
  /\ UNCHANGED <<online, me>>

\* A part or a kick.  After our own the channel is no longer synced; its users
\* stay visible until they quit.
CorePart(n, c) ==
  /\ n \in joined[c]
  /\ Change(<<Part(n, c)>>)
  /\ joined' = [joined EXCEPT ![c] = IF n = me THEN {} ELSE @ \ {n}]
  /\ UNCHANGED <<online, me, visible>>

CoreQuit(n) ==
  /\ n \in visible \ {me}
  /\ Change(<<Quit(n)>>)
  /\ visible' = visible \ {n}
  /\ joined' = [c \in Channel |-> joined[c] \ {n}]
  /\ UNCHANGED <<online, me>>

Swap(S, old, new) == IF old \in S THEN (S \ {old}) \cup {new} ELSE S

CoreRename(old, new) ==
  /\ old \in visible /\ new \notin visible
  /\ Change((IF old = me THEN <<SetMyNick(new)>> ELSE <<>>)
              \o <<Renamed(old, new), SetNick(new, new)>>)
  /\ visible' = Swap(visible, old, new)
  /\ joined' = [c \in Channel |-> Swap(joined[c], old, new)]
  /\ me' = IF old = me THEN new ELSE me
  /\ UNCHANGED online

CoreMode(n, c) ==
  /\ n \in joined[c]
  /\ Change(<<Mode(c, n)>>)
  /\ UNCHANGED <<online, me, visible, joined>>

CoreOffline ==
  /\ online
  /\ Change(<<SetConnected(FALSE)>>)
  /\ online' = FALSE /\ visible' = {} /\ joined' = [c \in Channel |-> {}]
  /\ UNCHANGED me

CoreOnline ==
  /\ ~online
  /\ Change(<<SetConnected(TRUE), AddUser(me)>>)
  /\ online' = TRUE /\ visible' = {me}
  /\ UNCHANGED <<me, joined>>

\* The answer to the InitRequest of the fan-out, once per session.
CoreServeInit ==
  /\ ~served
  /\ served' = TRUE
  /\ inbox' = Append(inbox, InitData)
  /\ UNCHANGED <<online, me, visible, joined, ops, client>>

--------------------------------------------------------------------------------
(* The dispatcher.  The definitions marked "Mutant" are not part of the model: *)
(* each is a plausible bug that one of the properties must detect.            *)

Receive(kind) ==
  /\ inbox # <<>> /\ Head(inbox).kind = kind
  /\ inbox' = Tail(inbox)
  /\ UNCHANGED core

\* _lookup_or_create: an unknown IrcUser is created under its name.
Registered(n) == [addressed EXCEPT ![n] = IF @ = NoNick THEN n ELSE @]
NickOf(n) == Registered(n)[n]

\* `nick!user@host` without what follows the nick.
BareNick(mask) == mask.nick

ReceiveAddUser ==
  /\ Receive("addIrcUser")
  /\ users' = users \cup {BareNick(Head(inbox).mask)}
  /\ UNCHANGED <<channels, myNick, addressed, known, roster, initialized, leftEarly>>

ReceiveAddChannel ==
  /\ Receive("addIrcChannel")
  /\ channels' = channels \cup {Head(inbox).channel}
  /\ UNCHANGED <<users, myNick, addressed, known, roster, initialized, leftEarly>>

Enter(c, S) ==
  /\ known' = known \cup {c}
  /\ roster' = [roster EXCEPT ![c] = @ \cup S]

ReceiveJoin ==
  /\ Receive("joinIrcUsers")
  /\ Enter(Head(inbox).channel, Head(inbox).nicks)
  /\ UNCHANGED <<users, channels, myNick, addressed, initialized, leftEarly>>

\* addUserMode and removeUserMode put a nick that is not there into the roster.
ReceiveMode ==
  /\ Receive("userMode")
  /\ Enter(Head(inbox).channel, {Head(inbox).nick})
  /\ UNCHANGED <<users, channels, myNick, addressed, initialized, leftEarly>>

\* Mutant of OwnPart: leaving a channel ourselves is like anybody's part.
OwnPartIgnored(n) == FALSE

OwnPart(n) == myNick # NoNick /\ n = myNick

\* IrcUser.partChannel and _cascade_user_part; our own part tears the channel
\* down, since the core stops syncing it.
ReceivePart ==
  /\ Receive("partChannel")
  /\ LET c == Head(inbox).channel
         n == NickOf(Head(inbox).nick)
     IN /\ addressed' = Registered(Head(inbox).nick)
        /\ IF c \in known /\ OwnPart(n)
           THEN /\ roster' = [roster EXCEPT ![c] = {}]
                /\ known' = known \ {c}
                /\ channels' = channels \ {c}
           ELSE /\ roster' = [roster EXCEPT ![c] = @ \ {n}]
                /\ UNCHANGED <<known, channels>>
        /\ leftEarly' = IF Head(inbox).own /\ myNick = NoNick /\ c \in known
                        THEN leftEarly \cup {c} ELSE leftEarly
  /\ UNCHANGED <<users, myNick, initialized>>

LeaveRosters(n) == roster' = [c \in Channel |-> roster[c] \ {n}]

\* IrcUser.quit and _cascade_user_quit.
ReceiveQuit ==
  /\ Receive("quit")
  /\ LET n == NickOf(Head(inbox).nick) IN
       /\ LeaveRosters(n)
       /\ users' = users \ {n}
       /\ addressed' = [addressed EXCEPT ![Head(inbox).nick] = NoNick]
  /\ UNCHANGED <<channels, myNick, known, initialized, leftEarly>>

\* Mutant of Readdress: the object keeps its old key as well.
ReaddressInPlace(old, new) == [addressed EXCEPT ![old] = new]

\* The rosters and Network.users follow the nick.
Rekey(old, new) ==
  /\ users' = Swap(users, old, new)
  /\ roster' = [c \in Channel |-> Swap(roster[c], old, new)]

Readdress(old, new) == [addressed EXCEPT ![old] = NoNick, ![new] = new]

\* _handle_object_renamed, with or without an IrcUser under the old name.
ReceiveRenamed ==
  /\ Receive("objectRenamed")
  /\ LET old == Head(inbox).old
         new == Head(inbox).new
     IN IF addressed[old] = NoNick
        THEN Rekey(old, new) /\ UNCHANGED addressed
        ELSE Rekey(addressed[old], new) /\ addressed' = Readdress(old, new)
  /\ UNCHANGED <<channels, myNick, known, initialized, leftEarly>>

ReceiveSetNick ==
  /\ Receive("setNick")
  /\ addressed' = [addressed EXCEPT ![Head(inbox).key] = Head(inbox).nick]
  /\ UNCHANGED <<users, channels, myNick, known, roster, initialized, leftEarly>>

ReceiveSetMyNick ==
  /\ Receive("setMyNick")
  /\ myNick' = Head(inbox).nick
  /\ UNCHANGED <<users, channels, addressed, known, roster, initialized, leftEarly>>

\* _clear_network_rosters
ClearRosters ==
  /\ addressed' = [n \in Nick |-> NoNick]
  /\ known' = {} /\ roster' = [c \in Channel |-> {}]
  /\ users' = {} /\ channels' = {}

\* Only a disconnect from IRC changes the rosters.
ReceiveSetConnected ==
  /\ Receive("setConnected")
  /\ IF Head(inbox).connected
     THEN UNCHANGED <<users, channels, addressed, known, roster, leftEarly>>
     ELSE ClearRosters /\ leftEarly' = {}
  /\ UNCHANGED <<myNick, initialized>>

\* handle_init_data and _expand_network_init: the name sets grow, the channels
\* of the snapshot get its rosters, its users get objects.
ReceiveInitData ==
  /\ Receive("initData")
  /\ LET snapshot == Head(inbox)
         seeded == {c \in Channel : snapshot.members[c] # {}}
     IN /\ myNick' = snapshot.nick
        /\ users' = users \cup snapshot.nicks
        /\ channels' = channels \cup seeded
        /\ addressed' = [n \in Nick |-> IF n \in snapshot.nicks THEN n ELSE addressed[n]]
        /\ known' = known \cup seeded
        /\ roster' = [c \in Channel |->
             IF c \in seeded THEN snapshot.members[c] ELSE roster[c]]
        /\ leftEarly' = leftEarly \ seeded
  /\ initialized' = TRUE

--------------------------------------------------------------------------------

Core ==
  \/ \E n \in Nick, c \in Channel :
       CoreJoin(n, c) \/ CoreOwnJoin(n, c) \/ CorePart(n, c) \/ CoreMode(n, c)
  \/ \E n \in Nick : CoreQuit(n)
  \/ \E old, new \in Nick : CoreRename(old, new)
  \/ CoreOffline \/ CoreOnline \/ CoreServeInit

Dispatcher ==
  \/ ReceiveAddUser \/ ReceiveAddChannel \/ ReceiveJoin \/ ReceiveMode
  \/ ReceivePart \/ ReceiveQuit \/ ReceiveRenamed \/ ReceiveSetNick
  \/ ReceiveSetMyNick \/ ReceiveSetConnected \/ ReceiveInitData

Next == Core \/ Dispatcher

Spec == Init /\ [][Next]_vars

--------------------------------------------------------------------------------
(* Properties.                                                              *)

\* Type invariant of the client's variables, and of what the core keeps.
TypeOK ==
  /\ online \in BOOLEAN /\ me \in Nick /\ visible \subseteq Nick
  /\ joined \in [Channel -> SUBSET Nick]
  /\ served \in BOOLEAN /\ ops \in Nat
  /\ users \subseteq Nick /\ channels \subseteq Channel
  /\ myNick \in Nick \cup {NoNick}
  /\ addressed \in [Nick -> Nick \cup {NoNick}]
  /\ known \subseteq Channel /\ roster \in [Channel -> SUBSET Nick]
  /\ initialized \in BOOLEAN /\ leftEarly \subseteq Channel

Settled == initialized /\ inbox = <<>>

\* dispatcher.py:579-592: once everything sent has been handled, the channels we
\* are in and their members are those of the core; a channel we left is torn
\* down ("or the stale roster merges ghost members into the fresh seed").
RostersExact ==
  Settled => /\ known = {c \in Channel : joined[c] # {}}
             /\ channels = known
             /\ roster = joined

\* Once everything sent has been handled, Network.users are the core's users, and a
\* channel is listed, registered and peopled as on the core.  Excused is only a
\* channel that we left ourselves before our nick was known, and neither a disconnect
\* nor the InitData has set right since: other users' parts, and our other channels,
\* are not.
RostersExactOnceKnown ==
  Settled =>
    /\ users = visible
    /\ \A c \in Channel \ leftEarly :
         /\ c \in known <=> joined[c] # {}
         /\ c \in channels <=> c \in known
         /\ roster[c] = joined[c]

\* The copies of a membership agree in between, too.  In every state after the
\* InitData the members of a channel are known users: no join, part, quit, rename
\* or disconnect leaves a ghost in one of the two.  An IrcUser is registered under
\* its own nick ("the three never disagree", irc_user.py:39), no two objects share
\* a nick, and none outlives its user.
CopiesAgree ==
  /\ initialized => \A c \in Channel : roster[c] \subseteq users
  /\ \A n \in Nick : addressed[n] \in {n, NoNick}
  /\ Settled => \A n \in Nick : addressed[n] # NoNick => n \in visible
================================================================================
