------------------------------- MODULE Negotiation -------------------------------
(***************************************************************************)
(* The feature negotiation (protocol/connection.py, protocol/enums.py) and *)
(* the layouts of the user types it decides (protocol/usertypes.py).  The  *)
(* core is external: what it supports, what it announces, what it uses.    *)
(***************************************************************************)
EXTENDS Sequences, FiniteSets

CONSTANT Offered   \* offered_features

Feature == {"LongTime", "SenderPrefixes", "RichMessages", "LongMessageId"}

ASSUME OfferedAssumption == Offered \subseteq Feature

VARIABLE core      \* the core's side of the negotiation

\* The features that have a bit of their own in the older bit mask.
HasLegacyBit == {"SenderPrefixes"}

\* The cores there are.  One that understands feature lists names what it supports,
\* or names nothing and goes by ours; an older one has only bits.
KnownCore ==
  {c \in [supports : SUBSET Feature, list : SUBSET Feature, bits : SUBSET HasLegacyBit,
          extended : BOOLEAN] :
     /\ c.list = {} \/ (c.extended /\ c.list = c.supports)
     /\ c.bits = c.supports \cap HasLegacyBit}

--------------------------------------------------------------------------------
(* What each side uses.                                                     *)

\* Mutant of PeerFeatures: an empty list always means a legacy core.
PeerFeaturesTwoTiers(c) ==
  IF c.list # {} THEN Offered \cap (c.list \cup c.bits) ELSE Offered \cap c.bits

\* The string intersection if the core sent a list, all that was offered if it
\* only says it understands lists, the legacy bits otherwise.
PeerFeatures(c) ==
  IF c.list # {} THEN Offered \cap (c.list \cup (c.bits \cap HasLegacyBit))
  ELSE IF c.extended THEN Offered
  ELSE Offered \cap c.bits \cap HasLegacyBit

\* What the core uses with us: it reads FeatureList if it understands lists,
\* and else only the bits of ClientInit.Features.
CoreFeatures(c) ==
  Offered \cap c.supports \cap (IF c.extended THEN Feature ELSE HasLegacyBit)

--------------------------------------------------------------------------------
(* Layouts.  One field per cell: <<name, width>>.                           *)

IdLayout(width) == <<<<"id", width>>>>
BufferInfoLayout ==
  <<<<"bufferId", "u32">>, <<"networkId", "u32">>, <<"bufferType", "u16">>,
    <<"groupId", "u32">>, <<"name", "blob">>>>

MessageLayout(features) ==
  <<<<"msgId", "u64">>,
    <<"timestamp", IF "LongTime" \in features THEN "u64" ELSE "u32">>,
    <<"msgType", "u32">>, <<"flags", "u8">>>>
  \o BufferInfoLayout
  \o <<<<"sender", "blob">>>>
  \o (IF "SenderPrefixes" \in features THEN <<<<"senderPrefixes", "blob">>>> ELSE <<>>)
  \o (IF "RichMessages" \in features
      THEN <<<<"realName", "blob">>, <<"avatarUrl", "blob">>>> ELSE <<>>)
  \o <<<<"contents", "blob">>>>

IdType == {"BufferId", "NetworkId", "IdentityId", "UserId", "AccountId"}

\* The codecs registered for the user types that are not maps.
Layout(name, features) ==
  CASE name \in IdType      -> IdLayout("u32")
    [] name = "MsgId"       -> IdLayout("u64")
    [] name = "BufferInfo"  -> BufferInfoLayout
    [] name = "Message"     -> MessageLayout(features)

\* A core without LongMessageId writes every MsgId in four bytes.
CoreLayout(name, features) ==
  IF name \in {"Message", "MsgId"} /\ "LongMessageId" \notin features
  THEN <<<<Layout(name, features)[1][1], "u32">>>> \o Tail(Layout(name, features))
  ELSE Layout(name, features)

\* The two sides lay out a Message, and a MsgId, alike.
Agreed == \A name \in {"Message", "MsgId"} :
             Layout(name, PeerFeatures(core)) = CoreLayout(name, CoreFeatures(core))

\* connection.py:465-476: the tiers of the negotiation settle how Messages are
\* laid out.  They do for a core that has LongMessageId and, if it does not
\* name its features, supports all that were offered; and for no other.
MessagesInSync ==
  Agreed <=> /\ "LongMessageId" \in CoreFeatures(core)
             /\ core.list = {} /\ core.extended => Offered \subseteq core.supports
================================================================================
