---------------------------------- MODULE MCWire ----------------------------------
(* An instance of Wire: every core, a dozen kinds of QVariant, two levels of nesting. *)
EXTENDS Wire

Bits(supports) == supports \cap HasLegacyBit
\* Each feature on its own decides one field: all, none, and all but each one.
Supports == {Feature, {}} \cup {Feature \ {f} : f \in Feature}
ModernCores == {[supports |-> s, list |-> s, bits |-> Bits(s), extended |-> TRUE] : s \in Supports}
SilentCores == {[supports |-> s, list |-> {}, bits |-> Bits(s), extended |-> TRUE] :
                  s \in {Feature, Feature \ {"LongTime"}, Feature \ {"LongMessageId"}}}
LegacyCores == {[supports |-> s, list |-> {}, bits |-> s, extended |-> FALSE] : s \in SUBSET HasLegacyBit}
AllCores == ModernCores \cup SilentCores \cup LegacyCores

Plain(type, x) == Variant(type, "", FALSE, [val |-> x], <<>>, <<>>)
Null(x) == [x EXCEPT !.null = TRUE]
Invalid == Variant("Invalid", "", TRUE, <<>>, <<>>, <<>>)
Date(day, ms) == Variant("QDateTime", "", FALSE, [day |-> day, ms |-> ms, utc |-> "utc"], <<>>, <<>>)
List(kids) == Variant("QVariantList", "", FALSE, <<>>, <<>>, kids)
MapOf(keys, kids) == Variant("QVariantMap", "", FALSE, <<>>, keys, kids)
Strings(keys) == Variant("QStringList", "", FALSE, <<>>, keys, <<>>)
DisplayMsg(msgType, bufferType, name) ==
  UserVariant("Message",
    [msgId |-> "m1", timestamp |-> "t1", msgType |-> msgType, flags |-> "backlog",
     bufferId |-> "b1", networkId |-> "n1", bufferType |-> bufferType, groupId |-> "g1",
     name |-> name, sender |-> "s1", senderPrefixes |-> "@", realName |-> "null",
     avatarUrl |-> "", contents |-> "c1"])

MCTags == {Plain("Short", k) : k \in {"Sync", "RpcCall", "InitRequest", "InitData", "HeartBeat", "7"}}
            \cup {Plain("Bool", "Sync")}
ByteArray(x) == Plain("QByteArray", x)
\* From an empty frame to two pairs under one key that lack the last value.
MCHeaders == {<<>>, <<ByteArray("a")>>, <<ByteArray("a"), ByteArray("null")>>,
              <<ByteArray("a"), ByteArray("b"), ByteArray("k")>>,
              <<Null(ByteArray("a")), ByteArray("b"), ByteArray("c")>>,
              <<ByteArray("a"), ByteArray("b"), ByteArray("k"), Plain("Int", "1"), ByteArray("k")>>}
MCItems ==
  {Null(Plain("LongLong", "1")), Plain("QString", "odd"), ByteArray("k"),
   Date("day", "ms"), Date("tooEarly", "overDay"),
   Null(List(<<Null(Plain("QString", "x")), Plain("Double", "2")>>)),
   List(<<List(<<Plain("Int", "1")>>)>>), Null(Strings(<<"null", "y">>)),
   List(<<Strings(<<"y">>), UserVariant("MsgId", Id("m2"))>>),
   [MapOf(<<"null", "k", "">>, <<Plain("QChar", "o"), Invalid, Plain("Int", "1")>>) EXCEPT !.type = "UserType", !.user = "Identity"],
   Variant("UserType", "null", FALSE, <<>>, <<>>, <<>>),
   DisplayMsg("unknown", "channel", "#c"), DisplayMsg("plain", "unknown", "null"),
   List(<<DisplayMsg("plain", "channel", "#c")>>)}
================================================================================
