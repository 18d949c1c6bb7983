----------------------------- MODULE FeedHandler -----------------------------
(***************************************************************************)
(* FeedHandler's delivery policy (feed_handler.hpp) behind a network that  *)
(* may lose, duplicate, delay and reorder datagrams.  The publisher numbers*)
(* its messages 1, 2, ...; a datagram carries its message's number in the  *)
(* width of Sequence, and the rest of the message is identified with the   *)
(* number itself.                                                          *)
(***************************************************************************)
EXTENDS SequenceTracker, Sequences, FiniteSets

CONSTANTS MaxSent,      \* bound: how many messages the publisher sends
          MaxArrivals   \* bound: how many datagrams arrive

ASSUME FeedAssumption == MaxSent \in Nat /\ MaxArrivals \in Nat

VARIABLES sent,     \* next_seq_ - 1 of the publisher, not wrapped
          net,      \* messages of which a copy may still arrive
          seq,      \* seq_
          counts,   \* forwarded_ and dropped_
          down,     \* the messages handed to down_, in order
          arrived   \* the messages that have arrived, whatever became of them

vars == <<sent, net, seq, counts, down, arrived>>

Messages == 1..MaxSent

(* The numbers do not wrap: not even the one expected after the last. *)
NoWrap == MaxSent + 1 < SeqRange

(* The number on the wire. *)
Wire(n) == n % SeqRange

Init ==
  /\ sent = 0
  /\ net = {}
  /\ seq = NewTracker
  /\ counts = [forwarded |-> 0, dropped |-> 0]
  /\ down = << >>
  /\ arrived = {}

(* The publisher sends the next message. *)
Send ==
  /\ sent < MaxSent
  /\ sent' = sent + 1
  /\ net' = net \cup {sent + 1}
  /\ UNCHANGED <<seq, counts, down, arrived>>

(* The network has no further copy of n. *)
Lose(n) ==
  /\ n \in net
  /\ net' = net \ {n}
  /\ UNCHANGED <<sent, seq, counts, down, arrived>>

(* Fault: an out-of-order message is forwarded. *)
AcceptLate(n) == Classify(seq, Wire(n)) \in {"InOrder", "Gap", "OutOfOrder"}

(* accept: whether the message goes downstream *)
Accept(n) == Classify(seq, Wire(n)) \in {"InOrder", "Gap"}

(* A copy of n arrives: consume_datagram, the on_* callback of its type,   *)
(* accept and, if it says so, the callback of down_.                       *)
Arrive(n) ==
  /\ n \in net
  /\ seq.stats.total < MaxArrivals
  /\ seq' = Observe(seq, Wire(n))
  /\ IF Accept(n)
     THEN /\ counts' = [counts EXCEPT !.forwarded = @ + 1]
          /\ down' = Append(down, n)
     ELSE /\ counts' = [counts EXCEPT !.dropped = @ + 1]
          /\ down' = down
  /\ arrived' = arrived \cup {n}
  /\ UNCHANGED <<sent, net>>

Next == Send \/ \E n \in Messages : Lose(n) \/ Arrive(n)

Spec == Init /\ [][Next]_vars

-----------------------------------------------------------------------------
TypeOK ==
  /\ sent \in 0..MaxSent
  /\ net \subseteq 1..sent /\ arrived \subseteq 1..sent
  /\ seq \in Tracker
  /\ counts \in [forwarded : Nat, dropped : Nat]
  /\ down \in Seq(1..sent)

(* "forwards accepted, in-order-enough events": whatever the network does,  *)
(* downstream sees every message at most once and in the order of sending. *)
InOrderOnce ==
  \A i, j \in DOMAIN down : i < j => down[i] < down[j]

(* "Gap -> forward": the newest message that arrived is the last one that   *)
(* went downstream, and the tracker expects the one after it.              *)
NewestForwarded ==
  /\ down = << >> <=> arrived = {}
  /\ arrived # {} =>
       /\ down[Len(down)] \in arrived
       /\ \A n \in arrived : n <= down[Len(down)]
       /\ seq.next_expected = Wire(down[Len(down)] + 1)

(* "Gap: seq jumped forward; one or more messages are missing" and "Gap ->   *)
(* forward": a message newer than all that arrived before it goes          *)
(* downstream, even if the ones before it were lost.                       *)
NewestNotDropped ==
  \A n \in arrived :
    (\A m \in arrived : m <= n) => \E i \in DOMAIN down : down[i] = n

(* The statistics account for every message: since the first one that       *)
(* arrived, missing counts exactly those that downstream has not seen, and *)
(* every arrival was either forwarded or dropped, under one heading.       *)
Accounted ==
  /\ counts.forwarded = Len(down)
  /\ counts.forwarded = seq.stats.in_order + seq.stats.gap_events
  /\ counts.dropped = seq.stats.duplicates + seq.stats.out_of_order
  /\ seq.stats.total = counts.forwarded + counts.dropped
  /\ down # << >> =>
       seq.stats.missing + Len(down) = down[Len(down)] - down[1] + 1
==============================================================================
