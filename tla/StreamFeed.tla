----------------------------- MODULE StreamFeed ------------------------------
(***************************************************************************)
(* Framing: BinaryParser::parse (parser.hpp), the two entry points of      *)
(* FeedHandler (feed_handler.hpp) and ReplayDriver::replay (replay.cpp).   *)
(*                                                                         *)
(* The bytes of a feed are known by what decode_header makes of them at    *)
(* each offset: no header at all, or a header with a frame length, the     *)
(* body of which dispatch accepts or refuses.  Only the offsets at which   *)
(* the parser looks matter, and their headers do not overlap, so that any  *)
(* combination of readings is a feed.                                      *)
(***************************************************************************)
EXTENDS Naturals, Sequences, FiniteSets, SequencesExt

CONSTANTS HeaderSize,    \* kHeaderWireSize
          FrameSizes,    \* lengths of frames, header and declared body
          StreamLength,  \* bound: bytes in the feed
          Entries        \* entry points to model: "stream", "datagram"

ASSUME StreamAssumption ==
  /\ HeaderSize \in Nat \ {0} /\ StreamLength \in Nat
  /\ \A n \in FrameSizes : n \in Nat /\ n >= HeaderSize
  /\ Entries \subseteq {"stream", "datagram"}

Undecodable == [decoded |-> FALSE]
Reading == {Undecodable} \cup [decoded : {TRUE}, size : FrameSizes, accepted : BOOLEAN]

VARIABLES stream,    \* the reading at each offset
          entry,     \* the entry point in use
          received,  \* bytes received so far
          start,     \* residual_ is the bytes start..received-1
          log,       \* the callbacks so far: on_* or on_malformed, and where
          cut        \* offsets of the datagrams that came truncated

streamVars == <<stream, entry, received, start, log, cut>>

StreamInit ==
  /\ stream \in [0..(StreamLength - 1) -> Reading]
  /\ entry \in Entries
  /\ received = 0 /\ start = 0 /\ log = << >> /\ cut = {}

Callback(off) ==
  [at |-> off, kind |-> IF stream[off].decoded /\ stream[off].accepted
                        THEN "message" ELSE "malformed"]

(* The bytes before end hold no complete message at off. *)
Incomplete(off, end) ==
  \/ off + HeaderSize > end
  \/ stream[off].decoded /\ off + stream[off].size > end

(* Fault: the body of a refused message is searched for the next header. *)
NextOffsetScan(off) ==
  off + (IF stream[off].decoded /\ stream[off].accepted THEN stream[off].size
         ELSE HeaderSize)

(* Where the parser looks after the message at off: "trust the declared     *)
(* length to resync", or skip a bad header.                                *)
NextOffset(off) ==
  off + (IF stream[off].decoded THEN stream[off].size ELSE HeaderSize)

(* parse, on the bytes from..end-1: the callbacks, and the offset behind    *)
(* the bytes it consumed.  It returns at the first bad header.             *)
Parse(from, end) ==
  LET walk[off \in Nat] ==
        IF Incomplete(off, end) THEN [calls |-> << >>, stop |-> off]
        ELSE IF ~stream[off].decoded
        THEN [calls |-> <<Callback(off)>>, stop |-> NextOffset(off)]
        ELSE [walk[NextOffset(off)] EXCEPT !.calls = <<Callback(off)>> \o @]
  IN  walk[from]

-----------------------------------------------------------------------------
(* Fault: the tail is forgotten. *)
ResidualDropped(r, end) == end

(* What the parser did not consume is the new residual_. *)
Residual(r, end) == r.stop

(* consume, given the next n bytes: residual_ and they are parsed. *)
Consume(n) ==
  /\ entry = "stream" /\ received + n <= StreamLength
  /\ LET r == Parse(start, received + n)
     IN  /\ log' = log \o r.calls
         /\ start' = Residual(r, received + n)
  /\ received' = received + n
  /\ UNCHANGED <<stream, entry, cut>>

(* Fault: the buffer is parsed beyond the n bytes that recv filled. *)
DatagramEndOfBuffer(n) == NextOffset(received)

DatagramEnd(n) == received + n

(* consume_datagram, given the first n bytes of the next message. *)
ConsumeDatagram(n) ==
  /\ entry = "datagram"
  /\ received + HeaderSize <= StreamLength /\ NextOffset(received) <= StreamLength
  /\ n <= NextOffset(received) - received
  /\ log' = log \o Parse(received, DatagramEnd(n)).calls
  /\ received' = NextOffset(received)
  /\ start' = NextOffset(received)
  /\ cut' = IF n < NextOffset(received) - received THEN cut \cup {received} ELSE cut
  /\ UNCHANGED <<stream, entry>>

StreamNext == \E n \in 1..StreamLength : Consume(n) \/ ConsumeDatagram(n)

StreamSpec == StreamInit /\ [][StreamNext]_streamVars

-----------------------------------------------------------------------------
(* The feed read in one piece, by a parser that goes on behind a bad        *)
(* header.                                                                 *)
WholeFeed ==
  LET walk[off \in Nat] ==
        IF Incomplete(off, StreamLength) THEN << >>
        ELSE <<Callback(off)>> \o walk[NextOffset(off)]
  IN  walk[0]

(* "A trailing partial message is buffered internally and completed on the  *)
(* next call": however the stream is cut into segments, the same messages  *)
(* are dispatched, in order, none twice, none from bytes of another one,   *)
(* and as long as every header decodes none of the complete ones waits.    *)
ChunkingIrrelevant ==
  entry = "stream" =>
    /\ IsPrefix(log, WholeFeed)
    /\ (\A i \in DOMAIN log : stream[log[i].at].decoded) =>
         \A i \in DOMAIN WholeFeed :
           NextOffset(WholeFeed[i].at) <= received => i \in DOMAIN log

(* Where a sender that meant the readings s put its messages. *)
Boundaries(s) ==
  LET walk[off \in Nat] ==
        IF off + HeaderSize > StreamLength THEN {}
        ELSE {off} \cup walk[off + (IF s[off].decoded THEN s[off].size ELSE HeaderSize)]
  IN  walk[0]

(* A declared length that is wrong, so that the parser refuses the message  *)
(* at d, costs nothing that came before it, and no message is made of the  *)
(* bytes that it spans.  If it ends where the sender began a message, the  *)
(* messages that it spans are all it costs.                                *)
LengthErrorConfined ==
  entry = "stream" =>
    LET seen == {log[i].at : i \in DOMAIN log}
    IN  \A d \in {off \in seen : stream[off].decoded /\ ~stream[off].accepted},
           k \in FrameSizes :
          LET meant == Boundaries([stream EXCEPT ![d].size = k])
              end   == d + stream[d].size
          IN  /\ \A off \in seen : off < d => off \in meant
              /\ \A off \in seen : ~(d < off /\ off < end)
              /\ end \in meant =>
                   {off \in seen : off >= end} = {off \in meant : end <= off /\ off < start}

(* "each datagram is self-contained; no residual is carried across calls":  *)
(* every datagram that arrived whole got its own callback, once, and a      *)
(* truncated one none of a message, whatever came before it.               *)
DatagramsIsolated ==
  entry = "datagram" =>
    /\ \A i \in DOMAIN WholeFeed :
         LET off == WholeFeed[i].at
         IN  off < received /\ off \notin cut =>
               Cardinality({j \in DOMAIN log : log[j] = WholeFeed[i]}) = 1
    /\ \A j \in DOMAIN log : log[j].kind = "message" => log[j].at \notin cut

(* "a truncated datagram is malformed": it is reported as such. *)
TruncatedIsMalformed ==
  \A off \in cut : [at |-> off, kind |-> "malformed"] \in Range(log)

-----------------------------------------------------------------------------
(* Fault: a bad header is skipped, as if the next message followed it. *)
UnframeableTail(off) == Incomplete(off, StreamLength)

Unframeable(off) == Incomplete(off, StreamLength) \/ ~stream[off].decoded

(* replay, paced by the timestamps: each frame is given to consume by       *)
(* itself, up to the first that it cannot frame.                           *)
TimedReplay ==
  LET walk[off \in Nat] ==
        IF Unframeable(off) THEN << >>
        ELSE Parse(off, NextOffset(off)).calls \o walk[NextOffset(off)]
  IN  walk[0]

(* replay at MaxSpeed: one call of consume. *)
MaxSpeedReplay == Parse(0, StreamLength).calls

MessagesOf(calls) ==
  LET upTo[i \in 0..Len(calls)] ==
        IF i = 0 THEN << >>
        ELSE IF calls[i].kind = "message" THEN Append(upTo[i - 1], calls[i])
        ELSE upTo[i - 1]
  IN  upTo[Len(calls)]

(* Every replay mode gives the book builder the same messages of a capture. *)
ReplayModesAgree == MessagesOf(TimedReplay) = MessagesOf(MaxSpeedReplay)
==============================================================================
