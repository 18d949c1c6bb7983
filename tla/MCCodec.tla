------------------------------- MODULE MCCodec -------------------------------
(* Instances of Codec for TLC. *)
EXTENDS Codec

WidthOf(type, f) == (CHOOSE s \in Range(Stores(type)) : s.field = f).width

(* The first four bytes of a header. *)
HeaderOf(type) ==
  TypeCode(type) + ByteRange * kProtocolVersion + Weight[2] * BodySizeFor(type)

Headers == {HeaderOf("AddOrder"), HeaderOf("CancelOrder")}

(* The extremes of a field of the given width, and of its sign, and the     *)
(* values that look like a header.                                         *)
Extremes(type, f) ==
  LET full == Weight[WidthOf(type, f)]
  IN  CASE f[1] = "side" -> {0, 1}
        [] f[1] \in {"num_bid_levels", "num_ask_levels"} -> 0..MaxSnapshotLevels
        [] f[1] \in PriceNames ->
             {0, -1, full \div 2 - 1, -(full \div 2)} \cup Headers
        [] OTHER -> {0, full \div 2, full - 1} \cup Headers

(* Every field another value, so that a mix-up shows. *)
Distinct(type) ==
  [f \in Fields(type) |->
    IF f[1] \in {"side", "num_bid_levels", "num_ask_levels"} THEN 1
    ELSE LET k == CHOOSE k \in DOMAIN Stores(type) : Stores(type)[k].field = f
         IN  k + ByteRange * (k + 1)]

(* The header of a heartbeat, this many bytes into every field. *)
Disguised(type, shift) ==
  [f \in Fields(type) |->
    IF WidthOf(type, f) = 1 THEN 0 ELSE HeaderOf("Heartbeat") * Weight[shift]]

MCBodies(type) ==
  {Distinct(type), Disguised(type, 0), Disguised(type, 1)} \cup
    UNION {{[Distinct(type) EXCEPT ![f] = v] : v \in Extremes(type, f)} : f \in Fields(type)}

MCStamps == {<<1, 2 + ByteRange>>, <<Weight[4] - 1, Weight[8] - 1>>}
MCRooms == {kHeaderWireSize + 24, kMaxMessageSize}
==============================================================================
