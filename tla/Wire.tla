----------------------------------- MODULE Wire -----------------------------------
(***************************************************************************)
(* The payloads of frames: Qt's QVariant stream (qt/datastream.py,         *)
(* qt/variant.py), the Quassel user types (protocol/usertypes.py) and the  *)
(* SignalProxy envelope (protocol/signalproxy.py), in the layouts that     *)
(* Negotiation settles.                                                    *)
(*                                                                         *)
(* A payload is a sequence of cells, one for each primitive on the wire:   *)
(* its width, its content, and a number where one matters.  Reading a cell *)
(* with another width is a desynchronised read; it counts as a failure.    *)
(* The core is external: it negotiates, builds a frame item by item out of *)
(* QVariants, null flags included, and writes it as Qt does.               *)
(***************************************************************************)
EXTENDS Negotiation, Naturals, SequencesExt

CONSTANTS
  MaxNesting,  \* max_nesting_depth
  Cores,       \* the cores there are: what they support and advertise
  Tags,        \* the QVariants a frame may begin with
  Headers,     \* the items that may follow the tag
  Items,       \* the QVariants a core may append
  MaxItems     \* bound: how many it appends after the header

ASSUME CoresAssumption == Cores \subseteq KnownCore

VARIABLES
  frame,    \* the QVariants of the frame it is sending
  room,     \* how many more it may append
  said,     \* the message the client sends in response, or NoMessage
  echoed    \* history: the items of the frame that `said` passes on

vars == <<core, frame, room, said, echoed>>

\* A QVariant, as the core has it: a scalar has the field "val", a user type
\* its fields, a container has kids and, if it is a map, keys.
Variant(type, user, null, v, keys, kids) ==
  [type |-> type, user |-> user, null |-> null, v |-> v, keys |-> keys, kids |-> kids]

Item == Tags \cup Items \cup UNION {Range(h) : h \in Headers}

ASSUME ItemAssumption ==
  \A x \in Item : x = Variant(x.type, x.user, x.null, x.v, x.keys, x.kids)

\* A Python value.
Value(t, v, keys, kids) == [t |-> t, v |-> v, keys |-> keys, kids |-> kids]
None == Value("none", <<>>, <<>>, <<>>)
Scalar(t, x) == Value(t, [val |-> x], <<>>, <<>>)
Str(x) == Scalar("str", x)

Message(kind, names, params, data) ==
  [kind |-> kind, names |-> names, params |-> params, data |-> data]
NoMessage == Message("none", <<>>, <<>>, <<>>)
Malformed == Message("error", <<>>, <<>>, <<>>)

--------------------------------------------------------------------------------
(* Tables.                                                                  *)

\* How wide the payload of each scalar type is; QDateTime is three cells.
Width ==
  [Bool |-> <<"u8">>, Short |-> <<"u16">>, UShort |-> <<"u16">>, QChar |-> <<"u16">>,
   Int |-> <<"u32">>, UInt |-> <<"u32">>, LongLong |-> <<"u64">>, ULongLong |-> <<"u64">>,
   Double |-> <<"u64">>, QString |-> <<"blob">>, QByteArray |-> <<"blob">>,
   QDateTime |-> <<"u32", "u32", "u8">>]

PyType ==
  [Bool |-> "bool", Short |-> "int", UShort |-> "int", QChar |-> "str", Int |-> "int",
   UInt |-> "int", LongLong |-> "int", ULongLong |-> "int", Double |-> "float",
   QString |-> "str", QByteArray |-> "bytes", QDateTime |-> "datetime"]

Container == {"QVariantList", "QVariantMap", "QStringList"}

ScalarFields(type) == IF type = "QDateTime" THEN <<"day", "ms", "utc">> ELSE <<"val">>

MapType == {"Identity", "Network::Server"}
RecordType == IdType \cup {"MsgId", "BufferInfo", "Message"}

FieldsOf(name) == {f[1] : f \in Range(Layout(name, Feature))}

--------------------------------------------------------------------------------
(* The core's writer.                                                       *)

Cell(w, x) == [w |-> w, x |-> x, n |-> 0]
CountCell(n) == [w |-> "u32", x |-> "count", n |-> n]

RECURSIVE CoreWrite(_, _)
CoreWriteAll(variants, features) ==
  FlattenSeq([k \in DOMAIN variants |-> CoreWrite(variants[k], features)])

\* The payload is written whatever the null flag says.
CoreWrite(x, features) ==
  LET head == <<Cell("u32", x.type), Cell("u8", IF x.null THEN "null" ELSE "set")>>
      map == <<CountCell(Len(x.kids))>> \o
             FlattenSeq([k \in DOMAIN x.kids |->
                <<Cell("blob", x.keys[k])>> \o CoreWrite(x.kids[k], features)])
      cells(layout) == [k \in DOMAIN layout |-> Cell(layout[k][2], x.v[layout[k][1]])]
      fields == ScalarFields(x.type)
  IN head \o
     CASE x.type = "Invalid"      -> <<>>
       [] x.type = "QVariantList" -> <<CountCell(Len(x.kids))>> \o CoreWriteAll(x.kids, features)
       [] x.type = "QVariantMap"  -> map
       [] x.type = "QStringList"  ->
            <<CountCell(Len(x.keys))>> \o [k \in DOMAIN x.keys |-> Cell("blob", x.keys[k])]
       [] x.type = "UserType" /\ x.user \in MapType -> <<Cell("blob", x.user)>> \o map
       [] x.type = "UserType" /\ x.user \in RecordType ->
            <<Cell("blob", x.user)>> \o cells(CoreLayout(x.user, features))
       [] x.type \in DOMAIN Width ->
            [k \in DOMAIN fields |-> Cell(Width[x.type][k], x.v[fields[k]])]
       [] OTHER -> <<Cell("blob", x.user)>>

Payload == <<CountCell(Len(frame))>> \o CoreWriteAll(frame, CoreFeatures(core))

--------------------------------------------------------------------------------
(* The reader.  `r` is the reader: its cells, its position, its nesting and   *)
(* whether it has raised.  The definitions marked "Mutant" are not part of    *)
(* the model: each is a plausible bug that one of the properties must detect. *)

Reader(cells, features) ==
  [cells |-> cells, at |-> 1, nesting |-> 0, ok |-> TRUE, features |-> features]

Got(r, value) == [r |-> r, value |-> value]
Raise(r) == Got([r EXCEPT !.ok = FALSE], None)

\* The next cells have these widths.
Fits(r, widths) ==
  \A k \in DOMAIN widths :
     r.at + k - 1 <= Len(r.cells) /\ r.cells[r.at + k - 1].w = widths[k]
Ahead(r, k) == r.cells[r.at + k - 1]
Skip(r, k) == [r EXCEPT !.at = @ + k]

\* A null or oversized blob, an odd QString length.
TextOr(x, default) == IF x = "null" THEN default ELSE x
BadBlob(w, x, isString) == w = "blob" /\ (x = "oversized" \/ (isString /\ x = "odd"))

\* Mutant of Kept: a UTC time is read as a local one.
KeptLocal(field, x) == IF field = "utc" THEN "local" ELSE x

\* What is kept of a field: days and times out of range go to the boundary,
\* unknown enum values to a default, null strings to "".
Kept(field, x) ==
  CASE x = "null"                             -> ""
    [] x = "unknown" /\ field = "bufferType"  -> "Invalid"
    [] x = "unknown" /\ field = "msgType"     -> "Plain"
    [] x = "tooEarly"                         -> "first"
    [] x = "tooLate"                          -> "last"
    [] x = "overDay"                          -> "lastMs"
    [] OTHER                                  -> x

Pop(r, nesting) == [r EXCEPT !.nesting = nesting]

\* Mutant of NullScalar: the payload of a null is taken as absent.
NullScalarUnread(r, k) == r

NullScalar(r, k) == Skip(r, k)

ReadScalar(r, type, null) ==
  LET fields == ScalarFields(type)
      n == Len(fields)
      x(k) == Ahead(r, k).x
  IN IF ~Fits(r, Width[type]) \/ BadBlob(Width[type][1], x(1), type = "QString") THEN Raise(r)
     ELSE IF null THEN Got(NullScalar(r, n), None)
     ELSE IF type \in {"QString", "QByteArray"} /\ x(1) = "null" THEN Got(Skip(r, 1), None)
     ELSE Got(Skip(r, n),
              Value(PyType[type],
                    [f \in Range(fields) |->
                       LET k == CHOOSE j \in DOMAIN fields : fields[j] = f
                       IN IF type = "QDateTime" THEN Kept(f, x(k)) ELSE x(k)],
                    <<>>, <<>>))

ReadRecord(r, name) ==
  LET layout == Layout(name, r.features)
      indexes == DOMAIN layout
      index(f) == CHOOSE k \in indexes : layout[k][1] = f
  IN IF ~Fits(r, [k \in indexes |-> layout[k][2]]) THEN Raise(r)
     ELSE IF \E k \in indexes : BadBlob(layout[k][2], Ahead(r, k).x, FALSE) THEN Raise(r)
     ELSE Got(Skip(r, Len(layout)),
              Value(name,
                    [f \in FieldsOf(name) |->
                       IF \E k \in indexes : layout[k][1] = f
                       THEN Kept(f, Ahead(r, index(f)).x) ELSE ""],
                    <<>>, <<>>))

RECURSIVE ReadVariant(_)

\* A dict after `dict[key] = value`: a known key keeps its place.
Entered(dict, key, value) ==
  IF key \in Range(dict.keys)
  THEN [dict EXCEPT !.kids[CHOOSE k \in DOMAIN dict.keys : dict.keys[k] = key] = value]
  ELSE [dict EXCEPT !.keys = Append(@, key), !.kids = Append(@, value)]

\* `n` elements of a list, a string list or a map, onto the value `sofar`.
RECURSIVE ReadElements(_, _, _, _)
ReadElements(r, type, n, sofar) ==
  IF ~r.ok THEN Raise(r)
  ELSE IF n = 0 THEN Got(r, sofar)
  ELSE IF type = "QVariantList" THEN
    LET e == ReadVariant(r)
    IN ReadElements(e.r, type, n - 1, [sofar EXCEPT !.kids = Append(@, e.value)])
  ELSE IF ~Fits(r, <<"blob">>) \/ BadBlob("blob", Ahead(r, 1).x, TRUE) THEN Raise(r)
  ELSE IF type = "QStringList" THEN
    ReadElements(Skip(r, 1), type, n - 1,
                 [sofar EXCEPT !.kids = Append(@, Str(TextOr(Ahead(r, 1).x, "")))])
  ELSE
    LET e == ReadVariant(Skip(r, 1))
    IN ReadElements(e.r, type, n - 1, Entered(sofar, TextOr(Ahead(r, 1).x, ""), e.value))

ReadContainer(r, type) ==
  IF ~Fits(r, <<"u32">>) THEN Raise(r)
  ELSE ReadElements(Skip(r, 1), type, Ahead(r, 1).n,
                    Value(IF type = "QVariantMap" THEN "dict" ELSE "list", <<>>, <<>>, <<>>))

ReadUserType(r) ==
  IF ~Fits(r, <<"blob">>) THEN Raise(r)
  ELSE LET name == Ahead(r, 1).x IN
       IF name \in MapType THEN ReadContainer(Skip(r, 1), "QVariantMap")
       ELSE IF name \in RecordType THEN ReadRecord(Skip(r, 1), name)
       ELSE Raise(r)

\* The null flag only counts for scalars; the nesting guard is left again
\* however the element ends.
ReadVariant(r) ==
  IF ~r.ok \/ r.nesting >= MaxNesting \/ ~Fits(r, <<"u32", "u8">>) THEN Raise(r)
  ELSE LET inner == [Skip(r, 2) EXCEPT !.nesting = @ + 1]
           type == Ahead(r, 1).x
           e == CASE type = "Invalid"        -> Got(inner, None)
                  [] type \in Container      -> ReadContainer(inner, type)
                  [] type = "UserType"       -> ReadUserType(inner)
                  [] type \in DOMAIN Width   -> ReadScalar(inner, type, Ahead(r, 2).x = "null")
                  [] OTHER                   -> Raise(inner)
       IN Got(Pop(e.r, r.nesting), e.value)
--------------------------------------------------------------------------------
(* The envelope.                                                            *)

AtEnd(r) == r.at > Len(r.cells)

Pairs(flat) ==
  LET keys == [i \in 1..(Len(flat) \div 2) |-> flat[2 * i - 1].v.val]
      lastOf(key) == CHOOSE i \in DOMAIN keys :
                       keys[i] = key /\ \A j \in DOMAIN keys : keys[j] = key => j <= i
  IN [key \in Range(keys) |-> flat[2 * lastOf(key)]]

IsBytes(value) == value.t = "bytes"
\* A null object name is the empty one.
IsName(value) == value.t \in {"bytes", "none"}
Name(value) == IF value.t = "none" THEN "" ELSE value.v.val

\* How a list of values is understood, by its first element, an int that is
\* not a bool.
Envelope(items) ==
  LET rest == Tail(items)
      n == Len(rest)
      object == n >= 2 /\ IsBytes(rest[1]) /\ IsName(rest[2])
      names == <<rest[1].v.val, Name(rest[2])>>
      flat == SubSeq(rest, 3, n)
  IN IF items = <<>> \/ Head(items).t # "int" THEN Malformed
     ELSE CASE Head(items).v.val = "Sync" /\ n >= 3 /\ object /\ IsBytes(rest[3]) ->
                 Message("Sync", Append(names, rest[3].v.val), SubSeq(rest, 4, n), <<>>)
            [] Head(items).v.val = "RpcCall" /\ n >= 1 /\ IsBytes(rest[1]) ->
                 Message("RpcCall", <<rest[1].v.val>>, Tail(rest), <<>>)
            [] Head(items).v.val = "InitRequest" /\ n = 2 /\ object ->
                 Message("InitRequest", names, <<>>, <<>>)
            [] Head(items).v.val = "InitData" /\ object /\ Len(flat) % 2 = 0
                 /\ (\A i \in DOMAIN flat : i % 2 = 1 => IsBytes(flat[i])) ->
                 Message("InitData", names, <<>>, Pairs(flat))
            [] Head(items).v.val \in {"HeartBeat", "HeartBeatReply"}
                 /\ n = 1 /\ rest[1].t = "datetime" ->
                 Message(Head(items).v.val, <<>>, rest, <<>>)
            [] OTHER -> Malformed

\* decode_signalproxy_payload: the list itself is not a nesting level.
Decode(cells, features) ==
  LET e == ReadContainer(Reader(cells, features), "QVariantList")
  IN IF e.r.ok /\ AtEnd(e.r) THEN Envelope(e.value.kids) ELSE Malformed

Heard == Decode(Payload, PeerFeatures(core))

--------------------------------------------------------------------------------
(* The client's writer.                                                     *)

\* The registered classes go out as user types; Identity and Network::Server
\* are plain dicts and do not.
InferType(t) ==
  CASE t \in RecordType -> "UserType"
    [] t = "bool"        -> "Bool"
    [] t = "int"         -> "Int"
    [] t = "float"       -> "Double"
    [] t = "str"         -> "QString"
    [] t = "bytes"       -> "QByteArray"
    [] t = "datetime"    -> "QDateTime"
    [] t = "dict"        -> "QVariantMap"
    [] t = "list"        -> "QVariantList"

RECURSIVE WriteVariant(_, _)
WriteAll(values, features) ==
  FlattenSeq([k \in DOMAIN values |-> WriteVariant(values[k], features)])

WriteFields(layout, v) == [k \in DOMAIN layout |-> Cell(layout[k][2], v[layout[k][1]])]

\* None becomes an Invalid variant; nothing else is ever written as null.
WriteVariant(value, features) ==
  IF value.t = "none" THEN <<Cell("u32", "Invalid"), Cell("u8", "null")>>
  ELSE LET type == InferType(value.t)
           n == CountCell(Len(value.kids))
           names == ScalarFields(type)
       IN <<Cell("u32", type), Cell("u8", "set")>> \o
          CASE type = "UserType"     ->
                 <<Cell("blob", value.t)>> \o WriteFields(Layout(value.t, features), value.v)
            [] type = "QVariantList" -> <<n>> \o WriteAll(value.kids, features)
            [] type = "QVariantMap"  ->
                 <<n>> \o FlattenSeq([k \in DOMAIN value.kids |->
                   <<Cell("blob", value.keys[k])>> \o WriteVariant(value.kids[k], features)])
            [] OTHER -> WriteFields([k \in DOMAIN names |-> <<names[k], Width[type][k]>>], value.v)

Bytes(x) == Scalar("bytes", x)

\* Mutant of Discriminator: the int goes out with the type an int has.
DiscriminatorInferred(kind) == <<Cell("u32", "Int"), Cell("u8", "set"), Cell("u32", kind)>>

\* The first item is a Short, whatever `write_variant` would infer.
Discriminator(kind) == <<Cell("u32", "Short"), Cell("u8", "set"), Cell("u16", kind)>>

Encode(m, features) ==
  LET names == [k \in DOMAIN m.names |-> Bytes(m.names[k])]
      keys == SetToSeq(DOMAIN m.data)
      data == FlattenSeq([k \in DOMAIN keys |-> <<Bytes(keys[k]), m.data[keys[k]]>>])
      items == names \o m.params \o data
  IN <<CountCell(Len(items) + 1)>> \o Discriminator(m.kind) \o WriteAll(items, features)

--------------------------------------------------------------------------------
(* The exchange.                                                            *)

Init ==
  /\ core \in Cores
  /\ frame = <<>> /\ room = MaxItems /\ said = NoMessage /\ echoed = <<>>

Begin ==
  /\ frame = <<>>
  /\ \E tag \in Tags, header \in Headers : frame' = <<tag>> \o header
  /\ UNCHANGED <<core, room, said, echoed>>

Put ==
  /\ frame # <<>> /\ said = NoMessage /\ room > 0
  /\ \E x \in Items : frame' = Append(frame, x)
  /\ room' = room - 1
  /\ UNCHANGED <<core, said, echoed>>

Say(m, variants) ==
  /\ said = NoMessage
  /\ said' = m /\ echoed' = variants
  /\ UNCHANGED <<core, frame, room>>

\* _connected_loop: the reply carries the timestamp of the heartbeat.
AnswerHeartbeat ==
  /\ Heard.kind = "HeartBeat"
  /\ Say(Message("HeartBeatReply", <<>>, Heard.params, <<>>), <<frame[2]>>)

\* The last item of the frame is a Message the client has understood.
HeardMessage ==
  Heard.kind = "RpcCall" /\ Heard.params # <<>> /\ Last(Heard.params).t = "Message"

Part(type, v) == [f \in FieldsOf(type) |-> v[f]]
UserValue(type, v) == Value(type, v, <<>>, <<>>)
UserVariant(type, v) == Variant("UserType", type, FALSE, v, <<>>, <<>>)
Id(x) == [id |-> x]

\* send_input to the buffer a displayMsg has brought along.
SendInput ==
  /\ HeardMessage
  /\ Say(Message("RpcCall", <<"sendInput">>,
                 <<UserValue("BufferInfo", Part("BufferInfo", Last(Heard.params).v)), Str("text")>>,
                 <<>>),
         <<UserVariant("BufferInfo", Part("BufferInfo", Last(frame).v))>>)

\* set_last_seen of that message.
SetLastSeen ==
  /\ HeardMessage
  /\ LET heard == Last(Heard.params).v
         sent == Last(frame).v
     IN Say(Message("Sync", <<"BufferSyncer", "", "requestSetLastSeenMsg">>,
                    <<UserValue("BufferId", Id(heard.bufferId)),
                      UserValue("MsgId", Id(heard.msgId))>>, <<>>),
            <<UserVariant("BufferId", Id(sent.bufferId)), UserVariant("MsgId", Id(sent.msgId))>>)

Next ==
  \/ Begin \/ Put
  \/ AnswerHeartbeat \/ SendInput \/ SetLastSeen

Spec == Init /\ [][Next]_vars

--------------------------------------------------------------------------------
(* Properties.                                                              *)

\* Type invariant of every variable.
TypeOK ==
  /\ core \in Cores
  /\ frame \in Seq(Item)
  /\ room \in 0..MaxItems
  /\ DOMAIN said = DOMAIN NoMessage
  /\ said.kind \in {"none", "Sync", "RpcCall", "HeartBeatReply"}
  /\ Len(echoed) <= 2

\* The reference: what a QVariant is worth, by its structure and without a stream.
RECURSIVE Levels(_)
Levels(x) == 1 + Max({0} \cup {Levels(x.kids[k]) : k \in DOMAIN x.kids})

Readable(x) == x.type \in DOMAIN Width \cup Container \cup {"Invalid"}
                 \/ (x.type = "UserType" /\ x.user \in MapType \cup RecordType)
Blobs(x) == {x.v[f] : f \in DOMAIN x.v} \cup Range(x.keys)

RECURSIVE Sound(_)
Sound(x) == /\ Readable(x)
            /\ Blobs(x) \cap {"oversized", "odd"} = {}
            /\ \A k \in DOMAIN x.kids : Sound(x.kids[k])

RECURSIVE Meaning(_)
Meaning(x) ==
  LET kids == [k \in DOMAIN x.kids |-> Meaning(x.kids[k])]
      keys == [k \in DOMAIN x.keys |-> TextOr(x.keys[k], "")]
      first(k) == \A j \in DOMAIN keys : keys[j] = keys[k] => k <= j
      entries == SetToSortSeq({k \in DOMAIN keys : first(k)}, <)
      lastOf(key) == Max({k \in DOMAIN keys : keys[k] = key})
      present == {f[1] : f \in Range(Layout(x.user, CoreFeatures(core)))}
  IN CASE x.type = "Invalid"      -> None
       [] x.type = "QVariantList" -> Value("list", <<>>, <<>>, kids)
       [] x.type = "QStringList"  ->
            Value("list", <<>>, <<>>, [k \in DOMAIN keys |-> Str(keys[k])])
       [] x.type = "QVariantMap" \/ x.user \in MapType ->
            Value("dict", <<>>, [i \in DOMAIN entries |-> keys[entries[i]]],
                  [i \in DOMAIN entries |-> kids[lastOf(keys[entries[i]])]])
       [] x.type = "UserType"     ->
            Value(x.user,
                  [f \in DOMAIN x.v |-> IF f \in present THEN Kept(f, x.v[f]) ELSE ""],
                  <<>>, <<>>)
       [] x.null \/ (\E f \in DOMAIN x.v : x.v[f] = "null") -> None
       [] OTHER -> Value(PyType[x.type], [f \in DOMAIN x.v |-> Kept(f, x.v[f])], <<>>, <<>>)

\* Whatever the core may send, with nulls, nesting and user types anywhere, the
\* client reads exactly what was meant, refuses what is unsound or nested too
\* deeply, and accepts no part of a payload and no payload with a tail.
FramesUnderstood ==
  /\ Agreed => Heard = IF \A k \in DOMAIN frame : Sound(frame[k]) /\ Levels(frame[k]) <= MaxNesting
                       THEN Envelope([k \in DOMAIN frame |-> Meaning(frame[k])])
                       ELSE Malformed
  /\ Heard # Malformed =>
       /\ Decode(Front(Payload), PeerFeatures(core)) = Malformed
       /\ Decode(Append(Payload, Last(Payload)), PeerFeatures(core)) = Malformed

RECURSIVE Depth(_)
Depth(value) == 1 + Max({0} \cup {Depth(value.kids[k]) : k \in DOMAIN value.kids})

ReadsBack(m) ==
  LET values == Range(m.params) \cup {m.data[key] : key \in DOMAIN m.data}
      cells == Encode(m, PeerFeatures(core))
  IN (\A x \in values : Depth(x) <= MaxNesting) =>
        cells[2].x = "Short" /\ Decode(cells, PeerFeatures(core)) = m

\* Whatever the client has heard or says, written and read again, is the same
\* message, with the discriminator a Short; only a string list at the last
\* level, which is written as a list of variants, has no room.
RoundTrip == \A m \in {Heard, said} \ {NoMessage, Malformed} : ReadsBack(m)

Holdable(x) ==
  Range(x.v) \cap {"null", "unknown", "tooEarly", "tooLate", "overDay"} = {}

Within(s, t) == \E i \in 0..(Len(t) - Len(s)) : SubSeq(t, i + 1, i + Len(s)) = s

\* What the client passes back to the core, a heartbeat's timestamp, a
\* BufferInfo, the ids of a message, has the very bytes the core sent, unless
\* Python could not hold the value.
EchoExact ==
  (\A k \in DOMAIN echoed : Holdable(echoed[k])) =>
     Within(CoreWriteAll(echoed, CoreFeatures(core)), Encode(said, PeerFeatures(core)))
================================================================================
