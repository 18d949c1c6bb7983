-------------------------------- MODULE Codec --------------------------------
(***************************************************************************)
(* The wire format (protocol.hpp, serialization.hpp, byte_order.hpp): one  *)
(* message is encoded into a buffer, its bytes may be damaged or cut on    *)
(* the way, and BinaryParser::parse frames and decodes what is left, as a  *)
(* datagram of its own.                                                    *)
(*                                                                         *)
(* Widths and offsets are those of the code.  A byte has ByteRange values, *)
(* 256 in the code.  The encoders advance a pointer, the decoders use      *)
(* literal offsets: the two are written down apart from each other, as     *)
(* there.                                                                  *)
(***************************************************************************)
EXTENDS Integers, Sequences, FiniteSets, SequencesExt, FiniteSetsExt

CONSTANTS ByteRange,          \* values of a byte
          MaxSnapshotLevels,  \* kMaxSnapshotLevels
          Bodies(_),          \* the bodies of a type that are sent
          Stamps,             \* the sequence numbers and timestamps, in pairs
          Rooms               \* sizes of the buffer given to encode_message

Types == <<"AddOrder", "CancelOrder", "ModifyOrder", "Trade", "BookSnapshot">>
AllTypes == Range(Types) \cup {"Heartbeat"}

(* MsgType *)
TypeCode(type) == IF type = "Heartbeat" THEN 0 ELSE CHOOSE c \in DOMAIN Types : Types[c] = type

kProtocolVersion == 1
kHeaderWireSize == 16
kAddOrderBodySize == 25
kCancelOrderBodySize == 12
kModifyOrderBodySize == 24

kTradeBodySize == 25
kSnapshotBodySize == 8 + 2 * MaxSnapshotLevels * 12
kMaxMessageSize == kHeaderWireSize + kSnapshotBodySize

(* body_size_for *)
BodySizeFor(type) ==
  CASE type = "Heartbeat"    -> 0
    [] type = "AddOrder"     -> kAddOrderBodySize
    [] type = "CancelOrder"  -> kCancelOrderBodySize
    [] type = "ModifyOrder"  -> kModifyOrderBodySize
    [] type = "Trade"        -> kTradeBodySize
    [] type = "BookSnapshot" -> kSnapshotBodySize

ASSUME CodecAssumption ==
  /\ ByteRange \in Nat /\ ByteRange % 2 = 0 /\ MaxSnapshotLevels \in 1..(ByteRange - 1)
  /\ kSnapshotBodySize < ByteRange * ByteRange         \* body_size has two bytes
  /\ Len(Types) < ByteRange

-----------------------------------------------------------------------------
(* byte_order.hpp.  A scalar is stored as the unsigned type of its width,   *)
(* which is at most 8 bytes.                                               *)

(* What a shift by i bytes multiplies by: 256^i in the code. *)
Weight[i \in 0..8] == IF i = 0 THEN 1 ELSE ByteRange * Weight[i - 1]

(* The byte that the i-th turn of the loop of store_le writes. *)
ByteAt(v, i) == (v \div Weight[i - 1]) % ByteRange

StoreLE(v, width) == [i \in 1..width |-> ByteAt(v % Weight[width], i)]

(* What stands behind the end of the buffer is not known: here, zeros. *)
ByteIn(bytes, i) == IF i \in DOMAIN bytes THEN bytes[i] ELSE 0

LoadLE(bytes, off, width) ==
  LET u[i \in 0..width] ==
        IF i = 0 THEN 0 ELSE u[i - 1] + ByteIn(bytes, off + i) * Weight[i - 1]
  IN  u[width]

(* Fault: the price is read as it was stored, unsigned. *)
StillUnsigned(u, width) == u

(* The conversion to std::int64_t in load_le. *)
Signed(u, width) == IF 2 * u >= Weight[width] THEN u - Weight[width] ELSE u

-----------------------------------------------------------------------------
(* A field is a name and, in a snapshot, the level it belongs to. *)
Store(name, level, width) == [field |-> <<name, level>>, width |-> width]
F(name, width) == Store(name, 0, width)
LevelStores(price, qty) ==
  FlattenSeq([l \in 1..MaxSnapshotLevels |-> <<Store(price, l, 8), Store(qty, l, 4)>>])

(* encode_body: the fields in the order of the stores, with their widths. *)
Stores(type) ==
  CASE type = "Heartbeat"   -> << >>
    [] type = "AddOrder"    ->
         <<F("symbol", 4), F("order_id", 8), F("side", 1), F("price", 8), F("quantity", 4)>>
    [] type = "CancelOrder" -> <<F("symbol", 4), F("order_id", 8)>>
    [] type = "ModifyOrder" ->
         <<F("symbol", 4), F("order_id", 8), F("price", 8), F("quantity", 4)>>
    [] type = "Trade"       ->
         <<F("symbol", 4), F("order_id", 8), F("price", 8), F("quantity", 4), F("side", 1)>>
    [] type = "BookSnapshot" ->
         <<F("symbol", 4), F("num_bid_levels", 1), F("num_ask_levels", 1), F("reserved", 2)>>
           \o LevelStores("bids", "bid_qty") \o LevelStores("asks", "ask_qty")

Fields(type) == {s.field : s \in Range(Stores(type))} \ {<<"reserved", 0>>}
PriceNames == {"price", "bids", "asks"}

EncodeHeader(m) ==
  StoreLE(TypeCode(m.type), 1) \o StoreLE(kProtocolVersion, 1)
    \o StoreLE(BodySizeFor(m.type), 2) \o StoreLE(m.seq, 4) \o StoreLE(m.ts, 8)

EncodeBody(m) ==
  FlattenSeq([k \in DOMAIN Stores(m.type) |->
    LET s == Stores(m.type)[k]
    IN  StoreLE(IF s.field[1] = "reserved" THEN 0 ELSE m.body[s.field], s.width)])

Fits(m, room) == kHeaderWireSize + BodySizeFor(m.type) <= room

(* encode_message, into a buffer of size room: what it writes. *)
EncodeMessage(m, room) ==
  IF Fits(m, room) THEN EncodeHeader(m) \o EncodeBody(m) ELSE << >>

-----------------------------------------------------------------------------
(* decode_body: the field, the literal offset and the width of every load. *)
Load(name, level, at, width) == [field |-> <<name, level>>, at |-> at, width |-> width]
At(name, at, width) == Load(name, 0, at, width)
OrderLoads == {At("symbol", 0, 4), At("order_id", 4, 8)}
LevelLoads(price, qty, off) ==
  UNION {{Load(price, l, off + 12 * (l - 1), 8), Load(qty, l, off + 12 * (l - 1) + 8, 4)}
         : l \in 1..MaxSnapshotLevels}

Loads(type) ==
  CASE type = "Heartbeat"   -> {}
    [] type = "AddOrder"    ->
         OrderLoads \cup {At("side", 12, 1), At("price", 13, 8), At("quantity", 21, 4)}
    [] type = "CancelOrder" -> OrderLoads
    [] type = "ModifyOrder" -> OrderLoads \cup {At("price", 12, 8), At("quantity", 20, 4)}
    [] type = "Trade"       ->
         OrderLoads \cup {At("price", 12, 8), At("quantity", 20, 4), At("side", 24, 1)}
    [] type = "BookSnapshot" ->
         {At("symbol", 0, 4), At("num_bid_levels", 4, 1), At("num_ask_levels", 5, 1)}
           \cup LevelLoads("bids", "bid_qty", 8)
           \cup LevelLoads("asks", "ask_qty", 8 + 12 * MaxSnapshotLevels)

DecodeBody(type, bytes) ==
  [f \in {r.field : r \in Loads(type)} |->
    LET r == CHOOSE x \in Loads(type) : x.field = f
        u == LoadLE(bytes, r.at, r.width)
    IN  IF f[1] \in PriceNames THEN Signed(u, r.width) ELSE u]

(* decode_header, of the bytes behind off; is_valid_msg_type is the first   *)
(* test.                                                                   *)
ValidType(bytes, off) == LoadLE(bytes, off, 1) <= Len(Types)

DecodeHeader(bytes, off) ==
  LET code == LoadLE(bytes, off, 1)
  IN  [type |-> IF code = 0 THEN "Heartbeat" ELSE Types[code],
       version |-> LoadLE(bytes, off + 1, 1), body_size |-> LoadLE(bytes, off + 2, 2),
       seq |-> LoadLE(bytes, off + 4, 4), ts |-> LoadLE(bytes, off + 8, 8)]

(* Fault: the declared length is not compared with that of the type. *)
AcceptableAnyLength(h) == h.version = kProtocolVersion

(* The header agrees with its type and with this version. *)
Acceptable(h) == h.body_size = BodySizeFor(h.type) /\ h.version = kProtocolVersion

Malformed(off) == [kind |-> "malformed", at |-> off]

(* The callback for the frame at off: on_malformed, or what dispatch calls. *)
Handled(bytes, off) ==
  LET h == DecodeHeader(bytes, off)
      body == off + kHeaderWireSize
  IN  IF ~Acceptable(h) THEN Malformed(off)
      ELSE [kind |-> "message", at |-> off, type |-> h.type, seq |-> h.seq, ts |-> h.ts,
            body |-> DecodeBody(h.type, SubSeq(bytes, body + 1, body + h.body_size))]

(* Fault: behind a refused header the search goes on at once. *)
NextFrameScan(bytes, off) ==
  LET h == DecodeHeader(bytes, off)
  IN  off + kHeaderWireSize + (IF Acceptable(h) THEN h.body_size ELSE 0)

(* "trust the declared length to resync", of a malformed frame, too. *)
NextFrame(bytes, off) == off + kHeaderWireSize + DecodeHeader(bytes, off).body_size

ParseResult(calls, consumed, more) ==
  [calls |-> calls, bytes_consumed |-> consumed, needs_more |-> more]

(* parse: the callbacks it makes, and its result without the counts of them. *)
ParseBytes(bytes) ==
  LET walk[off \in Nat] ==
        IF off + kHeaderWireSize > Len(bytes) THEN ParseResult(<< >>, off, FALSE)
        ELSE IF ~ValidType(bytes, off)
        THEN ParseResult(<<Malformed(off)>>, off + kHeaderWireSize, FALSE)
        ELSE IF NextFrame(bytes, off) > Len(bytes) THEN ParseResult(<< >>, off, TRUE)
        ELSE [walk[NextFrame(bytes, off)] EXCEPT !.calls = <<Handled(bytes, off)>> \o @]
  IN  walk[0]

-----------------------------------------------------------------------------
(* The values that a field of this width can have. *)
Values(name, width) ==
  IF name \in PriceNames
  THEN (0 - Weight[width] \div 2)..(Weight[width] \div 2 - 1)
  ELSE 0..(Weight[width] - 1)

ASSUME MessageAssumption ==
  /\ \A type \in AllTypes : \A body \in Bodies(type) :
       /\ body = [f \in Fields(type) |-> body[f]]
       /\ \A s \in Range(Stores(type)) :
            s.field \in Fields(type) => body[s.field] \in Values(s.field[1], s.width)
  /\ Stamps \subseteq (0..(Weight[4] - 1)) \X (0..(Weight[8] - 1))
  /\ Rooms \subseteq Nat

VARIABLES msg,     \* the message that is sent
          room,    \* the size of the buffer it is encoded into
          frame,   \* its bytes
          harm,    \* what happened to them: "none", "flip" or "cut"
          parsed,  \* parse has been called
          result   \* the callbacks it made, and what it returned

codecVars == <<msg, room, frame, harm, parsed, result>>

Message == UNION {[type : {t}, seq : {s[1]}, ts : {s[2]}, body : Bodies(t)]
                  : t \in AllTypes, s \in Stamps}

CodecInit ==
  /\ msg \in Message /\ room \in Rooms
  /\ frame = EncodeMessage(msg, room)
  /\ harm = "none"
  /\ parsed = FALSE /\ result = ParseResult(<< >>, 0, FALSE)

(* A byte changes on the way. *)
Flip(i, b) ==
  /\ ~parsed /\ harm = "none" /\ i \in DOMAIN frame /\ b # frame[i]
  /\ frame' = [frame EXCEPT ![i] = b]
  /\ harm' = "flip"
  /\ UNCHANGED <<msg, room, parsed, result>>

(* The last bytes do not arrive. *)
Cut(n) ==
  /\ ~parsed /\ harm = "none" /\ n < Len(frame)
  /\ frame' = SubSeq(frame, 1, n)
  /\ harm' = "cut"
  /\ UNCHANGED <<msg, room, parsed, result>>

Receive ==
  /\ ~parsed /\ frame # << >>
  /\ parsed' = TRUE
  /\ result' = ParseBytes(frame)
  /\ UNCHANGED <<msg, room, frame, harm>>

CodecNext ==
  \/ Receive
  \/ \E i \in 1..kMaxMessageSize : (\E b \in 0..(ByteRange - 1) : Flip(i, b)) \/ Cut(i)

CodecSpec == CodecInit /\ [][CodecNext]_codecVars

-----------------------------------------------------------------------------
Dispatched == {c \in Range(result.calls) : c.kind = "message"}

(* What the encoder writes, at a pointer it advances, is what the decoder   *)
(* reads at its offsets: every message comes back with its type, header    *)
(* and fields, negative prices and the extremes of every width included,   *)
(* and parse consumes it to its end.                                       *)
RoundTrip ==
  harm = "none" /\ parsed =>
    result = ParseResult(<<[kind |-> "message", at |-> 0, type |-> msg.type, seq |-> msg.seq,
                            ts |-> msg.ts, body |-> msg.body]>>, Len(frame), FALSE)

(* "Returns the number of bytes written, or 0 if `out` is too small", and   *)
(* "It ... never reads out of bounds": the encoder writes as much as the   *)
(* header says and never more than there is room for, the buffer of        *)
(* kMaxMessageSize that every sender uses is large enough, the loads of    *)
(* every decoder lie inside what arrived, wherever and whatever the        *)
(* header, and parse consumes no more than that.                           *)
InBounds ==
  /\ harm = "none" =>
       /\ Len(frame) <= room
       /\ frame = << >> \/ Len(frame) = kHeaderWireSize + LoadLE(frame, 2, 2)
       /\ room >= kMaxMessageSize => frame # << >>
  /\ result.bytes_consumed <= Len(frame)
  /\ \A c \in Dispatched : \A r \in Loads(c.type) :
       c.at + kHeaderWireSize + r.at + r.width <= Len(frame)

(* The fields of the sent message that c has with another value. *)
Differing(c) ==
  {f \in Fields(msg.type) : c.body[f] # msg.body[f]}
    \cup (IF c.seq # msg.seq THEN {<<"seq", 0>>} ELSE {})
    \cup (IF c.ts # msg.ts THEN {<<"ts", 0>>} ELSE {})

(* The message at the start of the bytes is the one that was sent but for   *)
(* one field, or an add as a trade or a trade as an add, which have the    *)
(* same size; its header is then the one that was sent.                    *)
Spoilt(c) ==
  IF c.type = msg.type THEN Cardinality(Differing(c)) <= 1
  ELSE {c.type, msg.type} = {"AddOrder", "Trade"} /\ c.seq = msg.seq /\ c.ts = msg.ts

(* A message that nobody sent: the declared length was damaged and is too   *)
(* small, and the rest of the body was taken for messages.  The body of a  *)
(* snapshot can be taken for several of any other type, that of an add, a  *)
(* modify or a trade for one heartbeat, and the others are too short.      *)
Invented(c) ==
  LET declared == LoadLE(frame, 2, 2)
  IN  /\ harm = "flip" /\ declared < BodySizeFor(msg.type)
      /\ c.at >= kHeaderWireSize + declared
      /\ IF msg.type = "BookSnapshot" THEN c.type # "BookSnapshot"
         ELSE /\ msg.type \in {"AddOrder", "ModifyOrder", "Trade"}
              /\ c.type = "Heartbeat" /\ Len(result.calls) = 2

(* There is no checksum, and this is all that a damaged byte makes of a     *)
(* message in a datagram of its own: it is dispatched with one field       *)
(* spoilt, and nothing else, or it is not, and then only a length that is  *)
(* too small lets its body be taken for messages.  Of a message that is    *)
(* cut nothing is dispatched.                                              *)
DamageConfined ==
  /\ parsed /\ harm = "cut" => result.calls = << >>
  /\ \A c \in Dispatched :
       IF c.at = 0 THEN Len(result.calls) = 1 /\ Spoilt(c) ELSE Invented(c)
==============================================================================
