-------------------------- MODULE FeedHandlerProofs --------------------------
(***************************************************************************)
(* Proofs about the way of a message from its bytes to the book builder.   *)
(* The first part is about FeedHandler, for every number of messages and   *)
(* of arrivals, as long as the sequence numbers do not wrap.  The second   *)
(* is about StreamFeed, for every feed of every length, any sizes of       *)
(* headers and messages, and every way in which the feed is cut into       *)
(* segments or datagrams.  The third is about Codec, for every message,    *)
(* any number of values of a byte and any number of snapshot levels.       *)
(***************************************************************************)
EXTENDS FeedHandler, StreamFeed, Codec, DataLemmas, FiniteSetTheorems, TLAPS

(* A tracker is initialized by the first message, which goes downstream. *)
Started ==
  /\ seq.initialized <=> down # << >>
  /\ down = << >> => seq.stats.missing = 0

Inv == TypeOK /\ InOrderOnce /\ NewestForwarded /\ Accounted /\ Started

(* Without a wrap the number on the wire is the message's own. *)
LEMMA WireIsNumber ==
  ASSUME NoWrap, NEW n \in 0..(MaxSent + 1)
  PROVE  /\ Wire(n) = n /\ Wire(n) \in Sequence
         /\ n <= MaxSent => Succ(n) = n + 1
  BY SeqRangeAssumption, FeedAssumption DEF NoWrap, Wire, Sequence, Succ

(* A constructed FeedHandler satisfies the inductive invariant. *)
LEMMA InitInv == Init => Inv
  <1> SUFFICES ASSUME Init PROVE Inv
    OBVIOUS
  <1>1. NewTracker \in Tracker
    BY SeqRangeAssumption DEF NewTracker, Tracker, SeqStats, Sequence
  <1>2. TypeOK
    BY <1>1, FeedAssumption DEF Init, TypeOK
  <1>3. InOrderOnce /\ NewestForwarded
    BY DEF Init, InOrderOnce, NewestForwarded
  <1>4. Accounted /\ Started
    BY DEF Init, Accounted, Started, NewTracker
  <1> QED BY <1>2, <1>3, <1>4 DEF Inv

(* What an observation of s, classified c, makes of t: the tracker o. *)
Observed(t, s, c, o) ==
  /\ c \in SeqStatus
  /\ o \in Tracker
  /\ o.initialized
  /\ o.next_expected = IF c \in {"InOrder", "Gap"} THEN Succ(s) ELSE t.next_expected
  /\ o.stats.total = t.stats.total + 1
  /\ o.stats.in_order + o.stats.gap_events
       = t.stats.in_order + t.stats.gap_events
           + (IF c \in {"InOrder", "Gap"} THEN 1 ELSE 0)
  /\ o.stats.duplicates + o.stats.out_of_order
       = t.stats.duplicates + t.stats.out_of_order
           + (IF c \in {"InOrder", "Gap"} THEN 0 ELSE 1)
  /\ o.stats.missing
       = t.stats.missing + (IF c = "Gap" THEN s - t.next_expected ELSE 0)

(* observe, field by field: what the invariant needs of sequence_tracker.hpp. *)
LEMMA ObserveFields ==
  ASSUME NEW t \in Tracker, NEW s \in Sequence
  PROVE  Observed(t, s, Classify(t, s), Observe(t, s))
  <1> DEFINE c == Classify(t, s)
  <1>1. /\ t.initialized \in BOOLEAN /\ t.next_expected \in Sequence
        /\ t.stats \in SeqStats
    BY DEF Tracker
  <1>2. /\ t.stats.total \in Nat /\ t.stats.in_order \in Nat
        /\ t.stats.duplicates \in Nat /\ t.stats.out_of_order \in Nat
        /\ t.stats.gap_events \in Nat /\ t.stats.missing \in Nat
    BY <1>1 DEF SeqStats
  <1>3. c \in SeqStatus
    BY DEF Classify, SeqStatus
  <1>4. Succ(s) \in Sequence
    BY SeqRangeAssumption DEF Succ, Sequence
  <1>5. c = "Gap" => s - t.next_expected \in Nat
    BY <1>1, SeqRangeAssumption DEF Classify, Sequence
  <1> HIDE DEF c
  <1>6. Skipped(t, s) = IF c = "Gap" THEN s - t.next_expected ELSE 0
    BY DEF Skipped, c
  <1>7. Skipped(t, s) \in Nat
    BY <1>5, <1>6
  <1>8. ExpectAfter(t, s) = IF c \in {"InOrder", "Gap"} THEN Succ(s) ELSE t.next_expected
    BY DEF ExpectAfter, c
  <1>9. ExpectAfter(t, s) \in Sequence
    BY <1>1, <1>4, <1>8
  <1> DEFINE st == [total        |-> t.stats.total + 1,
                    in_order     |-> t.stats.in_order + Tick(c, "InOrder"),
                    duplicates   |-> t.stats.duplicates + Tick(c, "Duplicate"),
                    out_of_order |-> t.stats.out_of_order + Tick(c, "OutOfOrder"),
                    gap_events   |-> t.stats.gap_events + Tick(c, "Gap"),
                    missing      |-> t.stats.missing + Skipped(t, s)]
             o  == [initialized   |-> TRUE,
                    next_expected |-> ExpectAfter(t, s),
                    last_seq      |-> s,
                    stats         |-> st]
  <1>10. \A x \in SeqStatus : Tick(c, x) \in Nat
    BY DEF Tick
  <1>11. st \in SeqStats
    BY <1>2, <1>7, <1>10 DEF SeqStats, SeqStatus
  <1>12. /\ st.total = t.stats.total + 1
         /\ st.in_order + st.gap_events
              = t.stats.in_order + t.stats.gap_events
                  + (IF c \in {"InOrder", "Gap"} THEN 1 ELSE 0)
         /\ st.duplicates + st.out_of_order
              = t.stats.duplicates + t.stats.out_of_order
                  + (IF c \in {"InOrder", "Gap"} THEN 0 ELSE 1)
         /\ st.missing = t.stats.missing + Skipped(t, s)
    BY <1>2, <1>3 DEF Tick, SeqStatus
  <1> HIDE DEF st
  <1>13. /\ o \in Tracker /\ o.initialized /\ o.stats = st
         /\ o.next_expected = ExpectAfter(t, s)
    BY <1>9, <1>11 DEF Tracker
  <1>14. Observe(t, s) = o
    BY DEF Observe, st, c
  <1> HIDE DEF o
  <1> QED
    BY <1>3, <1>6, <1>8, <1>12, <1>13, <1>14 DEF c, Observed

(* The newest message decides: what is newer is forwarded, the rest not. *)
LEMMA ClassifyByNewest ==
  ASSUME NoWrap, Inv, NEW n \in 1..sent
  PROVE  /\ Wire(n) = n /\ Wire(n) \in Sequence /\ Succ(n) = n + 1
         /\ down = << >> => Classify(seq, Wire(n)) = "InOrder"
         /\ down # << >> =>
              LET l == down[Len(down)]
              IN  /\ l \in 1..sent
                  /\ seq.next_expected = l + 1
                  /\ n = l + 1 => Classify(seq, Wire(n)) = "InOrder"
                  /\ n > l + 1 => Classify(seq, Wire(n)) = "Gap"
                  /\ n <= l => Classify(seq, Wire(n)) \in {"Duplicate", "OutOfOrder"}
  <1>1. sent \in 0..MaxSent /\ n \in Nat /\ seq \in Tracker
        /\ down \in Seq(1..sent)
    BY FeedAssumption DEF Inv, TypeOK
  <1>2. Wire(n) = n /\ Wire(n) \in Sequence /\ Succ(n) = n + 1
    BY <1>1, WireIsNumber, FeedAssumption
  <1>3. CASE down = << >>
    BY <1>2, <1>3 DEF Inv, Started, Classify
  <1>4. CASE down # << >>
    <2> DEFINE l == down[Len(down)]
    <2>1. l \in 1..sent
      BY <1>1, <1>4
    <2>2. seq.initialized /\ seq.next_expected = Wire(l + 1)
      BY <1>4 DEF Inv, Started, NewestForwarded
    <2> HIDE DEF l
    <2>3. Wire(l + 1) = l + 1
      BY <1>1, <2>1, WireIsNumber, FeedAssumption
    <2>4. /\ n = l + 1 => Classify(seq, Wire(n)) = "InOrder"
          /\ n > l + 1 => Classify(seq, Wire(n)) = "Gap"
          /\ n <= l => Classify(seq, Wire(n)) \in {"Duplicate", "OutOfOrder"}
      BY <1>1, <1>2, <2>1, <2>2, <2>3 DEF Classify
    <2> QED BY <1>2, <1>4, <2>1, <2>2, <2>3, <2>4 DEF l
  <1> QED BY <1>3, <1>4

(* A sequence and an element appended to it. *)
LEMMA AppendFacts ==
  ASSUME NEW S, NEW q \in Seq(S), NEW e \in S
  PROVE  /\ Append(q, e) \in Seq(S) /\ Append(q, e) # << >>
         /\ Len(Append(q, e)) = Len(q) + 1
         /\ \A i \in 1..Len(q) : Append(q, e)[i] = q[i]
         /\ Append(q, e)[Len(q) + 1] = e
  OBVIOUS

(* The first and the last element of a sequence. *)
LEMMA EndsIn ==
  ASSUME NEW S, NEW q \in Seq(S), q # << >>
  PROVE  /\ Len(q) \in Nat /\ 1 \in 1..Len(q) /\ Len(q) \in 1..Len(q)
         /\ q[1] \in S /\ q[Len(q)] \in S
  <1>1. Len(q) \in Nat /\ Len(q) # 0
    OBVIOUS
  <1>2. 1 \in 1..Len(q) /\ Len(q) \in 1..Len(q)
    BY <1>1
  <1> QED BY <1>1, <1>2

(* Any element of a sequence. *)
LEMMA ElementsIn ==
  ASSUME NEW S, NEW q \in Seq(S), NEW i \in 1..Len(q)
  PROVE  q[i] \in S
  OBVIOUS

(* One step per action; only an arrival that accept lets through moves the   *)
(* newest message, and it is newer than every earlier one.                 *)
LEMMA NextInv == NoWrap /\ Inv /\ [Next]_vars => Inv'
  <1> SUFFICES ASSUME NoWrap, Inv, [Next]_vars PROVE Inv'
    OBVIOUS
  <1> USE FeedAssumption
  <1>0. TypeOK /\ InOrderOnce /\ NewestForwarded /\ Accounted /\ Started
    BY DEF Inv
  <1>1. CASE Send
    <2>1. /\ sent' = sent + 1 /\ sent < MaxSent /\ net' = net \cup {sent + 1}
          /\ UNCHANGED <<seq, counts, down, arrived>>
      BY <1>1 DEF Send
    <2>2. 1..sent \subseteq 1..(sent + 1) /\ sent + 1 \in 0..MaxSent
      BY <1>0, <2>1 DEF TypeOK
    <2>3. down \in Seq(1..(sent + 1))
      BY <1>0, <2>2 DEF TypeOK
    <2>4. TypeOK'
      BY <1>0, <2>1, <2>2, <2>3 DEF TypeOK
    <2>5. InOrderOnce' /\ NewestForwarded' /\ Accounted' /\ Started'
      BY <1>0, <2>1 DEF InOrderOnce, NewestForwarded, Accounted, Started
    <2> QED BY <2>4, <2>5 DEF Inv
  <1>2. ASSUME NEW n \in Messages, Lose(n) PROVE Inv'
    <2>1. net' = net \ {n} /\ UNCHANGED <<sent, seq, counts, down, arrived>>
      BY <1>2 DEF Lose
    <2>2. TypeOK'
      BY <1>0, <2>1 DEF TypeOK
    <2>3. InOrderOnce' /\ NewestForwarded' /\ Accounted' /\ Started'
      BY <1>0, <2>1 DEF InOrderOnce, NewestForwarded, Accounted, Started
    <2> QED BY <2>2, <2>3 DEF Inv
  <1>3. ASSUME NEW n \in Messages, Arrive(n) PROVE Inv'
    <2> DEFINE c == Classify(seq, Wire(n))
               l == down[Len(down)]
    <2>1. n \in 1..sent /\ n \in Nat /\ sent \in Nat
      BY <1>0, <1>3 DEF TypeOK, Arrive
    <2>2. /\ seq' = Observe(seq, Wire(n)) /\ arrived' = arrived \cup {n}
          /\ UNCHANGED <<sent, net>>
      BY <1>3 DEF Arrive
    <2>3. /\ seq \in Tracker /\ counts \in [forwarded : Nat, dropped : Nat]
          /\ down \in Seq(1..sent) /\ Len(down) \in Nat
          /\ seq.stats.missing \in Nat
      BY <1>0 DEF TypeOK, Tracker, SeqStats
    <2>4. Wire(n) = n /\ Wire(n) \in Sequence /\ Succ(n) = n + 1
      BY <2>1, ClassifyByNewest
    <2>4a. Observed(seq, n, c, seq')
      BY <2>2, <2>3, <2>4, ObserveFields
    <2>4b. /\ seq.stats.total \in Nat /\ seq.stats.in_order \in Nat
          /\ seq.stats.duplicates \in Nat /\ seq.stats.out_of_order \in Nat
          /\ seq.stats.gap_events \in Nat /\ seq.next_expected \in Sequence
      BY <2>3 DEF Tracker, SeqStats
    <2> HIDE DEF c, l
    <2>5. CASE down # << >> /\ n <= l
      <3>1. c \in {"Duplicate", "OutOfOrder"}
        BY <2>1, <2>5, ClassifyByNewest DEF c, l
      <3>2. counts' = [counts EXCEPT !.dropped = @ + 1] /\ down' = down
        BY <1>3, <3>1 DEF Arrive, Accept, c
      <3>3. /\ seq' \in Tracker /\ seq'.initialized
            /\ seq'.next_expected = seq.next_expected
            /\ seq'.stats.total = seq.stats.total + 1
            /\ seq'.stats.in_order + seq'.stats.gap_events
                 = seq.stats.in_order + seq.stats.gap_events
            /\ seq'.stats.duplicates + seq'.stats.out_of_order
                 = seq.stats.duplicates + seq.stats.out_of_order + 1
            /\ seq'.stats.missing = seq.stats.missing
        BY <2>3, <2>4, <2>4a, <2>4b, <3>1 DEF Observed
      <3>a. /\ counts' \in [forwarded : Nat, dropped : Nat]
            /\ counts'.dropped = counts.dropped + 1 /\ counts'.forwarded = counts.forwarded
        BY <2>3, <3>2
      <3>4. TypeOK'
        BY <1>0, <2>1, <2>2, <2>3, <3>2, <3>3, <3>a DEF TypeOK
      <3>5. InOrderOnce'
        BY <1>0, <3>2 DEF InOrderOnce
      <3>6. NewestForwarded'
        BY <1>0, <2>2, <2>5, <3>2, <3>3 DEF NewestForwarded, l
      <3>7. Accounted'
        <4>1. /\ counts.forwarded = Len(down)
              /\ counts.forwarded = seq.stats.in_order + seq.stats.gap_events
              /\ counts.dropped = seq.stats.duplicates + seq.stats.out_of_order
              /\ seq.stats.total = counts.forwarded + counts.dropped
              /\ seq.stats.missing + Len(down) = l - down[1] + 1
          BY <1>0, <2>5 DEF Accounted, l
        <4>2. /\ counts.forwarded \in Nat /\ counts.dropped \in Nat
          BY <2>3
        <4>3. seq'.stats.total = counts'.forwarded + counts'.dropped
          BY <3>3, <3>a, <4>1, <4>2
        <4>4. counts'.dropped = seq'.stats.duplicates + seq'.stats.out_of_order
          BY <3>3, <3>a, <4>1
        <4> QED BY <3>2, <3>3, <3>a, <4>1, <4>3, <4>4 DEF Accounted, l
      <3>8. Started'
        BY <2>5, <3>2, <3>3 DEF Started
      <3> QED BY <3>4, <3>5, <3>6, <3>7, <3>8 DEF Inv
    <2>6. CASE down = << >> \/ n > l
      <3>1. /\ c \in {"InOrder", "Gap"}
            /\ down = << >> => c = "InOrder"
            /\ down # << >> =>
                 /\ l \in 1..sent /\ seq.next_expected = l + 1
                 /\ n = l + 1 => c = "InOrder"
                 /\ n > l + 1 => c = "Gap"
        <4>1. CASE down = << >>
          BY <2>1, <4>1, ClassifyByNewest DEF c
        <4>2. CASE down # << >>
          <5>1. /\ l \in 1..sent /\ seq.next_expected = l + 1
                /\ n = l + 1 => c = "InOrder"
                /\ n > l + 1 => c = "Gap"
            BY <2>1, <4>2, ClassifyByNewest DEF c, l
          <5> QED BY <2>1, <2>6, <4>2, <5>1
        <4> QED BY <4>1, <4>2
      <3>2. counts' = [counts EXCEPT !.forwarded = @ + 1] /\ down' = Append(down, n)
        BY <1>3, <3>1 DEF Arrive, Accept, c
      <3>3. /\ seq' \in Tracker /\ seq'.initialized
            /\ seq'.next_expected = n + 1
            /\ seq'.stats.total = seq.stats.total + 1
            /\ seq'.stats.in_order + seq'.stats.gap_events
                 = seq.stats.in_order + seq.stats.gap_events + 1
            /\ seq'.stats.duplicates + seq'.stats.out_of_order
                 = seq.stats.duplicates + seq.stats.out_of_order
            /\ seq'.stats.missing
                 = seq.stats.missing + (IF c = "Gap" THEN n - seq.next_expected ELSE 0)
        BY <2>3, <2>4, <2>4a, <2>4b, <3>1, SMTT(30) DEF Observed
      <3>4. /\ down' \in Seq(1..sent) /\ down' # << >>
            /\ Len(down') = Len(down) + 1
            /\ \A i \in 1..Len(down) : down'[i] = down[i]
            /\ down'[Len(down) + 1] = n
        BY <2>1, <2>3, <3>2, AppendFacts
      <3>a. /\ counts' \in [forwarded : Nat, dropped : Nat]
            /\ counts'.forwarded = counts.forwarded + 1 /\ counts'.dropped = counts.dropped
        BY <2>3, <3>2
      <3>5. TypeOK'
        BY <1>0, <2>1, <2>2, <2>3, <3>3, <3>4, <3>a DEF TypeOK
      <3>6. \A i \in 1..Len(down) : down[i] \in Nat /\ down[i] < n
        <4> SUFFICES ASSUME NEW i \in 1..Len(down) PROVE down[i] \in Nat /\ down[i] < n
          OBVIOUS
        <4>1. down # << >> /\ Len(down) \in 1..Len(down)
          BY <2>3
        <4>2. down[i] \in 1..sent
          BY <2>3, ElementsIn
        <4>4. l \in 1..sent
          BY <3>1, <4>1
        <4>3. i = Len(down) \/ down[i] < l
          BY <1>0, <2>3, <4>1 DEF InOrderOnce, l
        <4> QED BY <2>1, <2>6, <4>1, <4>2, <4>3, <4>4 DEF l
      <3>7. InOrderOnce'
        <4> SUFFICES ASSUME NEW i \in 1..(Len(down) + 1), NEW j \in 1..(Len(down) + 1),
                            i < j
                     PROVE  down'[i] < down'[j]
          BY <3>4 DEF InOrderOnce
        <4>1. i \in 1..Len(down) /\ down'[i] = down[i]
          BY <2>3, <3>4
        <4>2. CASE j \in 1..Len(down)
          BY <1>0, <2>3, <3>4, <4>1, <4>2 DEF InOrderOnce
        <4>3. CASE j = Len(down) + 1
          BY <3>4, <3>6, <4>1, <4>3
        <4> QED BY <2>3, <4>2, <4>3
      <3>8. NewestForwarded'
        <4>1. down'[Len(down')] = n
          BY <3>4
        <4>2. \A m \in arrived : m <= n
          <5>1. CASE down = << >>
            BY <1>0, <5>1 DEF NewestForwarded
          <5>2. CASE down # << >>
            <6>1. \A m \in arrived : m <= l /\ m \in Nat
              BY <1>0, <2>1, <5>2 DEF NewestForwarded, TypeOK, l
            <6> QED BY <2>1, <2>6, <3>1, <5>2, <6>1
          <5> QED BY <5>1, <5>2
        <4>3. Wire(n + 1) = n + 1
          BY <1>0, <2>1, WireIsNumber DEF TypeOK
        <4> QED BY <2>1, <2>2, <3>3, <3>4, <4>1, <4>2, <4>3 DEF NewestForwarded
      <3>9. seq'.stats.missing + Len(down') = down'[Len(down')] - down'[1] + 1
        <4>1. down'[Len(down')] = n /\ Len(down') = Len(down) + 1
          BY <3>4
        <4>2. CASE down = << >>
          <5>1. Len(down) = 0 /\ down'[1] = n
            BY <3>4, <4>2
          <5>2. seq.stats.missing = 0
            BY <1>0, <4>2 DEF Started
          <5> QED BY <2>1, <2>3, <3>1, <3>3, <4>1, <4>2, <5>1, <5>2
        <4>3. CASE down # << >>
          <5>1. down'[1] = down[1] /\ down[1] \in 1..sent
            BY <2>3, <3>4, <4>3, EndsIn
          <5>2. seq.stats.missing + Len(down) = l - down[1] + 1
            BY <1>0, <4>3 DEF Accounted, l
          <5>3. seq'.stats.missing = seq.stats.missing + (n - (l + 1))
            BY <2>1, <2>6, <3>1, <3>3, <4>3
          <5>4. l \in Nat /\ down[1] \in Nat
            BY <3>1, <4>3, <5>1
          <5>5. seq'.stats.missing + (Len(down) + 1) = n - down[1] + 1
            <6> DEFINE m == seq.stats.missing
                       k == Len(down)
                       f == down[1]
                       m2 == seq'.stats.missing
            <6>1. /\ m \in Nat /\ k \in Nat /\ l \in Nat /\ f \in Nat /\ n \in Nat
                  /\ m + k = l - f + 1 /\ m2 = m + (n - (l + 1))
              BY <2>1, <2>3, <5>2, <5>3, <5>4
            <6> HIDE DEF m, k, f, m2
            <6>2. m2 + (k + 1) = n - f + 1
              BY <6>1
            <6> QED BY <6>2 DEF m, k, f, m2
          <5> QED BY <4>1, <5>1, <5>5
        <4> QED BY <4>2, <4>3
      <3>10. Accounted'
        <4>1. /\ counts.forwarded = Len(down)
              /\ counts.forwarded = seq.stats.in_order + seq.stats.gap_events
              /\ counts.dropped = seq.stats.duplicates + seq.stats.out_of_order
              /\ seq.stats.total = counts.forwarded + counts.dropped
          BY <1>0 DEF Accounted
        <4>2. /\ counts.forwarded \in Nat /\ counts.dropped \in Nat
          BY <2>3
        <4>3. seq'.stats.total = counts'.forwarded + counts'.dropped
          BY <3>3, <3>a, <4>1, <4>2
        <4>4. /\ counts'.forwarded = seq'.stats.in_order + seq'.stats.gap_events
              /\ counts'.forwarded = Len(down')
          BY <3>3, <3>4, <3>a, <4>1
        <4> QED BY <3>3, <3>9, <3>a, <4>1, <4>3, <4>4 DEF Accounted
      <3>11. Started'
        BY <3>3, <3>4 DEF Started
      <3> QED BY <3>5, <3>7, <3>8, <3>10, <3>11 DEF Inv
    <2>7. down # << >> => l \in Nat
      BY <2>1, <2>3, EndsIn DEF l
    <2> QED BY <2>1, <2>5, <2>6, <2>7
  <1>4. CASE UNCHANGED vars
    BY <1>0, <1>4 DEF vars, Inv, TypeOK, InOrderOnce, NewestForwarded, Accounted, Started
  <1> QED BY <1>1, <1>2, <1>3, <1>4 DEF Next

(* Every field of the feed handler keeps its type. *)
THEOREM TypeCorrect == ASSUME NoWrap PROVE Spec => []TypeOK
  <1>1. Inv => TypeOK
    BY DEF Inv
  <1>2. Inv /\ [Next]_vars => Inv'
    BY NextInv
  <1> QED BY <1>1, <1>2, InitInv, PTL DEF Spec

(* As long as the numbers do not wrap, FeedHandler hands each message down  *)
(* at most once and in order, whatever the network loses, repeats or       *)
(* reorders.                                                               *)
THEOREM DeliversInOrderOnce == ASSUME NoWrap PROVE Spec => []InOrderOnce
  <1>1. Inv => InOrderOnce
    BY DEF Inv
  <1>2. Inv /\ [Next]_vars => Inv'
    BY NextInv
  <1> QED BY <1>1, <1>2, InitInv, PTL DEF Spec

(* As long as the numbers do not wrap, the newest message is not dropped. *)
THEOREM ForwardsNewest == ASSUME NoWrap PROVE Spec => []NewestForwarded
  <1>1. Inv => NewestForwarded
    BY DEF Inv
  <1>2. Inv /\ [Next]_vars => Inv'
    BY NextInv
  <1> QED BY <1>1, <1>2, InitInv, PTL DEF Spec

(* As long as the numbers do not wrap, the statistics of SequenceTracker    *)
(* and FeedHandler account for every message.                              *)
THEOREM StatisticsExact == ASSUME NoWrap PROVE Spec => []Accounted
  <1>1. Inv => Accounted
    BY DEF Inv
  <1>2. Inv /\ [Next]_vars => Inv'
    BY NextInv
  <1> QED BY <1>1, <1>2, InitInv, PTL DEF Spec

-----------------------------------------------------------------------------
(* StreamFeed, of a feed s that does not change: the same definitions,      *)
(* without the state.                                                      *)
Feeds == [0..(StreamLength - 1) -> Reading]
Calls == [at : Nat, kind : {"message", "malformed"}]
NoHeader(off, end) == off + HeaderSize > end
NoBody(s, off, end) == s[off].decoded /\ off + s[off].size > end
Short(s, off, end) == NoHeader(off, end) \/ NoBody(s, off, end)
Call(s, off) ==
  [at |-> off, kind |-> IF s[off].decoded /\ s[off].accepted THEN "message" ELSE "malformed"]
Past(s, off) == off + (IF s[off].decoded THEN s[off].size ELSE HeaderSize)

(* What decode_header and dispatch may say of a place. *)
LEMMA ReadingIs ==
  ASSUME NEW s \in Feeds, NEW off \in 0..(StreamLength - 1)
  PROVE  /\ s[off].decoded \in BOOLEAN
         /\ s[off].decoded => /\ s[off].size \in FrameSizes /\ s[off].size \in Nat
                              /\ s[off].size >= HeaderSize /\ s[off].accepted \in BOOLEAN
  <1>1. s[off] \in Reading
    BY DEF Feeds
  <1>2. s[off] = Undecodable \/ s[off] \in [decoded : {TRUE}, size : FrameSizes, accepted : BOOLEAN]
    BY <1>1 DEF Reading
  <1>3. CASE s[off] = Undecodable
    BY <1>3 DEF Undecodable
  <1>4. CASE s[off] \in [decoded : {TRUE}, size : FrameSizes, accepted : BOOLEAN]
    BY <1>4, StreamAssumption
  <1> QED BY <1>2, <1>3, <1>4

(* A place with a complete message lies in the feed, and so does its end. *)
LEMMA CompleteIs ==
  ASSUME NEW s \in Feeds, NEW end \in 0..StreamLength, NEW off \in Nat, ~Short(s, off, end)
  PROVE  /\ off \in 0..(StreamLength - 1) /\ off + HeaderSize <= end
         /\ Past(s, off) \in Nat /\ Past(s, off) >= off + HeaderSize
         /\ off < Past(s, off) /\ Past(s, off) <= end
         /\ Call(s, off) \in Calls
  <1>1. HeaderSize \in Nat \ {0} /\ StreamLength \in Nat
    BY StreamAssumption
  <1>2. off + HeaderSize <= end
    <2>1. ~NoHeader(off, end)
      BY DEF Short
    <2> QED BY <1>1, <2>1 DEF NoHeader
  <1>3. off \in 0..(StreamLength - 1)
    BY <1>1, <1>2
  <1>4. CASE s[off].decoded
    BY <1>1, <1>2, <1>3, <1>4, ReadingIs DEF Short, NoBody, Past, Call, Calls
  <1>5. CASE ~s[off].decoded
    BY <1>1, <1>2, <1>3, <1>5, ReadingIs DEF Past, Call, Calls
  <1> QED BY <1>4, <1>5

(* A walk that puts sequences one behind the other. *)
JoinWalk(T, stop, head, past, w) ==
  /\ w \in [Nat -> Seq(T)]
  /\ \A i \in Nat : w[i] = IF i \in stop THEN << >> ELSE head[i] \o w[past[i]]

(* It exists. *)
LEMMA JoinWalkExists ==
  ASSUME NEW T, NEW L \in Nat, NEW stop \in SUBSET Nat, \A i \in Nat : i >= L => i \in stop,
         NEW head \in [Nat -> Seq(T)], NEW past \in [Nat -> Nat],
         \A i \in Nat : i \notin stop => past[i] > i
  PROVE  \E w : JoinWalk(T, stop, head, past, w)
  <1> DEFINE X == Seq(T)
             base == [i \in Nat |-> << >>]
             step == [c \in Nat \X X |-> head[c[1]] \o c[2]]
  <1>1. base \in [Nat -> X]
    OBVIOUS
  <1>2. step \in [Nat \X X -> X]
    <2>1. ASSUME NEW c \in Nat \X X PROVE head[c[1]] \o c[2] \in X
      <3>1. head[c[1]] \in Seq(T) /\ c[2] \in Seq(T)
        OBVIOUS
      <3> QED BY <3>1
    <2> HIDE DEF X
    <2> QED BY <2>1
  <1>3. \A i \in Nat, x \in X : step[<<i, x>>] = head[i] \o x
    OBVIOUS
  <1> HIDE DEF X, step
  <1>4. PICK w : IsWalkOnNat(X, stop, base, past, step, w)
    <2> HIDE DEF base
    <2> QED BY <1>1, <1>2, WalkOnNatExists
  <1>5. /\ w \in [Nat -> X]
        /\ \A i \in Nat : w[i] = IF i \in stop THEN base[i] ELSE step[<<i, w[past[i]]>>]
    BY <1>4 DEF IsWalkOnNat
  <1>6. \A i \in Nat : w[i] = IF i \in stop THEN << >> ELSE head[i] \o w[past[i]]
    BY <1>3, <1>5
  <1> QED BY <1>5, <1>6 DEF JoinWalk, X

(* The whole feed from a place on. *)
WholeWalk(s, w) ==
  w = [off \in Nat |-> IF Short(s, off, StreamLength) THEN << >>
                       ELSE <<Call(s, off)>> \o w[Past(s, off)]]
Whole(s) == CHOOSE w : WholeWalk(s, w)

(* WholeFeed is that from the first place on. *)
LEMMA WholeFeedIs == WholeFeed = Whole(stream)[0]
  BY DEF WholeFeed, Whole, WholeWalk, Short, NoHeader, NoBody, Call, Past, Incomplete, Callback, NextOffset

(* The equations of Whole. *)
LEMMA WholeIs ==
  ASSUME NEW s \in Feeds
  PROVE  /\ Whole(s) \in [Nat -> Seq(Calls)]
         /\ \A off \in Nat : Short(s, off, StreamLength) => Whole(s)[off] = << >>
         /\ \A off \in Nat : ~Short(s, off, StreamLength) =>
              Whole(s)[off] = <<Call(s, off)>> \o Whole(s)[Past(s, off)]
  <1> DEFINE stop == {off \in Nat : Short(s, off, StreamLength)}
             head == [off \in Nat |-> IF Short(s, off, StreamLength) THEN << >> ELSE <<Call(s, off)>>]
             past == [off \in Nat |-> IF Short(s, off, StreamLength) THEN 0 ELSE Past(s, off)]
  <1>0. StreamLength \in Nat /\ HeaderSize \in Nat \ {0} /\ StreamLength \in 0..StreamLength
    BY StreamAssumption
  <1>1. stop \in SUBSET Nat /\ \A i \in Nat : i >= StreamLength => i \in stop
    <2>1. \A i \in Nat : i >= StreamLength => NoHeader(i, StreamLength)
      BY <1>0 DEF NoHeader
    <2> QED BY <2>1 DEF Short
  <1>2. head \in [Nat -> Seq(Calls)]
    BY <1>0, CompleteIs
  <1>3. past \in [Nat -> Nat] /\ \A i \in Nat : i \notin stop => past[i] > i
    BY <1>0, CompleteIs
  <1>4. PICK w : JoinWalk(Calls, stop, head, past, w)
    <2> HIDE DEF stop, head, past
    <2> QED BY <1>0, <1>1, <1>2, <1>3, JoinWalkExists
  <1>5. /\ w \in [Nat -> Seq(Calls)]
        /\ \A i \in Nat : w[i] = IF i \in stop THEN << >> ELSE head[i] \o w[past[i]]
    BY <1>4 DEF JoinWalk
  <1>6. WholeWalk(s, w)
    BY <1>5 DEF WholeWalk
  <1>7. WholeWalk(s, Whole(s))
    BY <1>6 DEF Whole
  <1> HIDE DEF stop, head, past
  <1>8. /\ \A off \in Nat : Short(s, off, StreamLength) => Whole(s)[off] = << >>
        /\ \A off \in Nat : ~Short(s, off, StreamLength) =>
             Whole(s)[off] = <<Call(s, off)>> \o Whole(s)[Past(s, off)]
    BY <1>7 DEF WholeWalk
  <1>9. DOMAIN Whole(s) = Nat /\ Whole(s) = [off \in Nat |-> Whole(s)[off]]
    BY <1>7 DEF WholeWalk
  <1> DEFINE S == {off \in Nat : Whole(s)[off] \in Seq(Calls)}
  <1>10. \A i \in Nat : Short(s, i, StreamLength) => i \in S
    <2>1. << >> \in Seq(Calls)
      OBVIOUS
    <2> QED BY <1>8, <2>1
  <1>11. ASSUME NEW i \in 0..StreamLength, \A j \in (i + 1)..StreamLength : j \in S
         PROVE  i \in S
    <2>1. CASE ~Short(s, i, StreamLength)
      <3>1. Past(s, i) \in (i + 1)..StreamLength /\ Call(s, i) \in Calls
        BY <1>0, <2>1, CompleteIs
      <3>2. Whole(s)[Past(s, i)] \in Seq(Calls)
        BY <1>11, <3>1
      <3>3. i \in Nat /\ Whole(s)[i] = <<Call(s, i)>> \o Whole(s)[Past(s, i)]
        BY <1>0, <1>8, <2>1
      <3>4. <<Call(s, i)>> \o Whole(s)[Past(s, i)] \in Seq(Calls)
        BY <3>1, <3>2
      <3> QED BY <3>3, <3>4
    <2> QED BY <1>10, <2>1
  <1>12. \A i \in 0..StreamLength : i \in S
    <2> HIDE DEF S
    <2> QED BY <1>0, <1>11, DownwardInduction
  <1>13. \A i \in Nat : i \in S
    <2>1. \A i \in Nat : i \in 0..StreamLength \/ i \in stop
      BY <1>0, <1>1
    <2> HIDE DEF S
    <2> QED BY <1>10, <1>12, <2>1 DEF stop
  <1> QED BY <1>8, <1>9, <1>13

(* The loop of parse, from each place on. *)
Result == [calls : Seq(Calls), stop : Nat]
Stopped(off) == [calls |-> << >>, stop |-> off]
BadHeader(s, off) == [calls |-> <<Call(s, off)>>, stop |-> Past(s, off)]
Onward(s, off, r) == [r EXCEPT !.calls = <<Call(s, off)>> \o @]
ParseWalk(s, end, w) ==
  w = [off \in Nat |-> IF Short(s, off, end) THEN Stopped(off)
                       ELSE IF ~s[off].decoded THEN BadHeader(s, off)
                       ELSE Onward(s, off, w[Past(s, off)])]
Parses(s, end) == CHOOSE w : ParseWalk(s, end, w)

(* Parse is that loop. *)
LEMMA ParseIs ==
  ASSUME NEW from, NEW end
  PROVE  Parse(from, end) = Parses(stream, end)[from]
  BY DEF Parse, Parses, ParseWalk, Stopped, BadHeader, Onward, Short, NoHeader, NoBody, Call,
         Past, Incomplete, Callback, NextOffset

(* The equations of the loop. *)
LEMMA ParsesIs ==
  ASSUME NEW s \in Feeds, NEW end \in 0..StreamLength
  PROVE  /\ \A off \in Nat : Short(s, off, end) => Parses(s, end)[off] = Stopped(off)
         /\ \A off \in Nat : ~Short(s, off, end) /\ ~s[off].decoded =>
              Parses(s, end)[off] = BadHeader(s, off)
         /\ \A off \in Nat : ~Short(s, off, end) /\ s[off].decoded =>
              Parses(s, end)[off] = Onward(s, off, Parses(s, end)[Past(s, off)])
  <1> DEFINE Ends(off) == Short(s, off, end) \/ ~s[off].decoded
             stop == {off \in Nat : Ends(off)}
             base == [off \in Nat |-> IF Short(s, off, end) THEN Stopped(off)
                                      ELSE IF ~s[off].decoded THEN BadHeader(s, off)
                                      ELSE Stopped(off)]
             past == [off \in Nat |-> IF Ends(off) THEN 0 ELSE Past(s, off)]
             step == [c \in Nat \X Result |-> IF Ends(c[1]) THEN c[2] ELSE Onward(s, c[1], c[2])]
  <1>0. StreamLength \in Nat /\ HeaderSize \in Nat \ {0} /\ end \in Nat
    BY StreamAssumption
  <1>1. stop \in SUBSET Nat /\ \A i \in Nat : i >= end => i \in stop
    <2>1. \A i \in Nat : i >= end => NoHeader(i, end)
      BY <1>0 DEF NoHeader
    <2> QED BY <2>1 DEF Short
  <1>2. ASSUME NEW off \in Nat
        PROVE  /\ Stopped(off) \in Result
               /\ ~Short(s, off, end) => /\ BadHeader(s, off) \in Result
                                         /\ Past(s, off) \in Nat /\ Past(s, off) > off
                                         /\ Call(s, off) \in Calls
    <2>1. Stopped(off) \in Result
      BY DEF Stopped, Result
    <2>2. CASE ~Short(s, off, end)
      <3>1. Past(s, off) \in Nat /\ Past(s, off) > off /\ Call(s, off) \in Calls
        BY <2>2, CompleteIs
      <3>2. <<Call(s, off)>> \in Seq(Calls)
        BY <3>1
      <3> QED BY <2>1, <3>1, <3>2 DEF BadHeader, Result
    <2> QED BY <2>1, <2>2
  <1>3. ASSUME NEW off \in Nat, ~Short(s, off, end), NEW r \in Result
        PROVE  Onward(s, off, r) \in Result
    <2>1. r.calls \in Seq(Calls) /\ r.stop \in Nat
      BY DEF Result
    <2>2. <<Call(s, off)>> \o r.calls \in Seq(Calls)
      BY <1>2, <1>3, <2>1
    <2>3. Onward(s, off, r) = [r EXCEPT !.calls = <<Call(s, off)>> \o r.calls]
      BY DEF Onward, Result
    <2> QED BY <2>2, <2>3 DEF Result
  <1>4. base \in [Nat -> Result]
    <2>1. ASSUME NEW off \in Nat
          PROVE  (IF Short(s, off, end) THEN Stopped(off)
                  ELSE IF ~s[off].decoded THEN BadHeader(s, off) ELSE Stopped(off)) \in Result
      BY <1>2
    <2> QED BY <2>1
  <1>5. past \in [Nat -> Nat] /\ \A i \in Nat : i \notin stop => past[i] > i
    <2>1. \A off \in Nat : ~Ends(off) => ~Short(s, off, end)
      OBVIOUS
    <2> HIDE DEF Ends
    <2> QED BY <1>2, <2>1
  <1>6. step \in [Nat \X Result -> Result]
    <2>1. ASSUME NEW c \in Nat \X Result
          PROVE  (IF Ends(c[1]) THEN c[2] ELSE Onward(s, c[1], c[2])) \in Result
      <3>1. c[1] \in Nat /\ c[2] \in Result
        OBVIOUS
      <3> QED BY <1>3, <3>1
    <2> HIDE DEF Ends
    <2> QED BY <2>1
  <1>7. /\ \A off \in Nat : ~Ends(off) => past[off] = Past(s, off)
        /\ \A off \in Nat, r \in Result : ~Ends(off) => step[<<off, r>>] = Onward(s, off, r)
    <2> HIDE DEF Ends
    <2> QED OBVIOUS
  <1> HIDE DEF past, step
  <1>8. PICK w : IsWalkOnNat(Result, stop, base, past, step, w)
    <2> HIDE DEF stop, base
    <2> QED BY <1>0, <1>1, <1>4, <1>5, <1>6, WalkOnNatExists
  <1>9. /\ w \in [Nat -> Result]
        /\ \A i \in Nat : w[i] = IF i \in stop THEN base[i] ELSE step[<<i, w[past[i]]>>]
    BY <1>8 DEF IsWalkOnNat
  <1>10. ASSUME NEW off \in Nat
         PROVE  w[off] = IF Short(s, off, end) THEN Stopped(off)
                         ELSE IF ~s[off].decoded THEN BadHeader(s, off)
                         ELSE Onward(s, off, w[Past(s, off)])
    <2>1. CASE Ends(off)
      <3>1. w[off] = base[off]
        BY <1>9, <2>1
      <3> QED BY <2>1, <3>1
    <2>2. CASE ~Ends(off)
      <3>1. past[off] \in Nat /\ past[off] = Past(s, off)
        BY <1>5, <1>7, <2>2
      <3>2. w[past[off]] \in Result
        BY <1>9, <3>1
      <3>3. off \notin stop
        BY <2>2
      <3>4. w[off] = step[<<off, w[past[off]]>>]
        BY <1>9, <3>3
      <3>5. step[<<off, w[past[off]]>>] = Onward(s, off, w[Past(s, off)])
        BY <1>7, <2>2, <3>1, <3>2
      <3> QED BY <2>2, <3>4, <3>5
    <2> QED BY <2>1, <2>2
  <1>11. ParseWalk(s, end, w)
    BY <1>9, <1>10 DEF ParseWalk
  <1>12. ParseWalk(s, end, Parses(s, end))
    BY <1>11 DEF Parses
  <1>13. ASSUME NEW off \in Nat
         PROVE  Parses(s, end)[off]
                  = IF Short(s, off, end) THEN Stopped(off)
                    ELSE IF ~s[off].decoded THEN BadHeader(s, off)
                    ELSE Onward(s, off, Parses(s, end)[Past(s, off)])
    BY <1>12 DEF ParseWalk
  <1> QED BY <1>13

(* Where messages begin, from each place on. *)
BoundWalk(s, w) ==
  w = [off \in Nat |-> IF NoHeader(off, StreamLength) THEN {} ELSE {off} \cup w[Past(s, off)]]
Bounds(s) == CHOOSE w : BoundWalk(s, w)

(* Boundaries are those from the first place on. *)
LEMMA BoundariesIs ==
  ASSUME NEW s
  PROVE  Boundaries(s) = Bounds(s)[0]
  BY DEF Boundaries, Bounds, BoundWalk, NoHeader, Past

(* A place with a header lies in the feed, and what follows lies behind it. *)
LEMMA HeaderIs ==
  ASSUME NEW s \in Feeds, NEW off \in Nat, ~NoHeader(off, StreamLength)
  PROVE  /\ off \in 0..(StreamLength - 1) /\ off + HeaderSize <= StreamLength
         /\ Past(s, off) \in Nat /\ Past(s, off) > off
  <1>1. HeaderSize \in Nat \ {0} /\ StreamLength \in Nat
    BY StreamAssumption
  <1>2. off \in 0..(StreamLength - 1) /\ off + HeaderSize <= StreamLength
    BY <1>1 DEF NoHeader
  <1>3. CASE s[off].decoded
    BY <1>1, <1>2, <1>3, ReadingIs DEF Past
  <1>4. CASE ~s[off].decoded
    BY <1>1, <1>2, <1>4, ReadingIs DEF Past
  <1> QED BY <1>2, <1>3, <1>4

(* The equations of the boundaries. *)
LEMMA BoundsIs ==
  ASSUME NEW s \in Feeds
  PROVE  /\ \A off \in Nat : NoHeader(off, StreamLength) => Bounds(s)[off] = {}
         /\ \A off \in Nat : ~NoHeader(off, StreamLength) =>
              Bounds(s)[off] = {off} \cup Bounds(s)[Past(s, off)]
  <1> DEFINE X == SUBSET Nat
             stop == {off \in Nat : NoHeader(off, StreamLength)}
             base == [off \in Nat |-> {}]
             past == [off \in Nat |-> IF NoHeader(off, StreamLength) THEN 0 ELSE Past(s, off)]
             step == [c \in Nat \X X |-> {c[1]} \cup c[2]]
  <1>0. StreamLength \in Nat /\ HeaderSize \in Nat \ {0}
    BY StreamAssumption
  <1>1. stop \in SUBSET Nat /\ \A i \in Nat : i >= StreamLength => i \in stop
    BY <1>0 DEF NoHeader
  <1>2. base \in [Nat -> X]
    OBVIOUS
  <1>3. past \in [Nat -> Nat] /\ \A i \in Nat : i \notin stop => past[i] > i
    BY HeaderIs
  <1>4. step \in [Nat \X X -> X]
    OBVIOUS
  <1>5. \A i \in Nat, x \in X : step[<<i, x>>] = {i} \cup x
    OBVIOUS
  <1> HIDE DEF step, X
  <1>6. PICK w : IsWalkOnNat(X, stop, base, past, step, w)
    <2> HIDE DEF stop, base, past
    <2> QED BY <1>0, <1>1, <1>2, <1>3, <1>4, WalkOnNatExists
  <1>7. /\ w \in [Nat -> X]
        /\ \A i \in Nat : w[i] = IF i \in stop THEN base[i] ELSE step[<<i, w[past[i]]>>]
    BY <1>6 DEF IsWalkOnNat
  <1>8. ASSUME NEW off \in Nat
        PROVE  w[off] = IF NoHeader(off, StreamLength) THEN {} ELSE {off} \cup w[Past(s, off)]
    <2>1. CASE NoHeader(off, StreamLength)
      BY <1>7, <2>1
    <2>2. CASE ~NoHeader(off, StreamLength)
      <3>1. past[off] = Past(s, off) /\ Past(s, off) \in Nat /\ off \notin stop
        BY <2>2, HeaderIs
      <3>2. w[Past(s, off)] \in X
        BY <1>7, <3>1
      <3> QED BY <1>5, <1>7, <2>2, <3>1, <3>2
    <2> QED BY <2>1, <2>2
  <1>9. BoundWalk(s, w)
    BY <1>7, <1>8 DEF BoundWalk
  <1>10. BoundWalk(s, Bounds(s))
    BY <1>9 DEF Bounds
  <1>11. ASSUME NEW off \in Nat
         PROVE  Bounds(s)[off] = IF NoHeader(off, StreamLength) THEN {}
                                 ELSE {off} \cup Bounds(s)[Past(s, off)]
    BY <1>10 DEF BoundWalk
  <1> QED BY <1>11

(* From a place on, boundaries are places at or behind it with a header. *)
LEMMA BoundsBehind ==
  ASSUME NEW s \in Feeds, NEW off \in Nat, NEW x \in Bounds(s)[off]
  PROVE  x \in Nat /\ x >= off /\ ~NoHeader(x, StreamLength)
  <1> DEFINE S == {i \in Nat : \A y \in Bounds(s)[i] :
                                 y \in Nat /\ y >= i /\ ~NoHeader(y, StreamLength)}
  <1>0. StreamLength \in Nat /\ HeaderSize \in Nat \ {0}
    BY StreamAssumption
  <1>1. \A i \in Nat : i >= StreamLength => i \in S
    <2>1. \A i \in Nat : i >= StreamLength => NoHeader(i, StreamLength)
      BY <1>0 DEF NoHeader
    <2> QED BY <2>1, BoundsIs
  <1>2. ASSUME NEW i \in Nat, \A j \in Nat : j > i => j \in S PROVE i \in S
    <2>1. CASE NoHeader(i, StreamLength)
      BY <2>1, BoundsIs
    <2>2. CASE ~NoHeader(i, StreamLength)
      <3>1. Past(s, i) \in Nat /\ Past(s, i) > i
        BY <2>2, HeaderIs
      <3>2. Past(s, i) \in S
        BY <1>2, <3>1
      <3>3. Bounds(s)[i] = {i} \cup Bounds(s)[Past(s, i)]
        BY <2>2, BoundsIs
      <3> QED BY <2>2, <3>1, <3>2, <3>3
    <2> QED BY <2>1, <2>2
  <1>3. off \in S
    <2> HIDE DEF S
    <2> QED BY <1>0, <1>1, <1>2, DownwardOnNat
  <1> QED BY <1>3

(* From a boundary on, the boundaries are those at or behind it. *)
LEMMA BoundsFromBoundary ==
  ASSUME NEW s \in Feeds, NEW off \in Nat, NEW e \in Bounds(s)[off], NEW x
  PROVE  x \in Bounds(s)[off] /\ x >= e <=> x \in Bounds(s)[e]
  <1> DEFINE P(i) == \A d \in Bounds(s)[i] : \A y :
                       y \in Bounds(s)[i] /\ y >= d <=> y \in Bounds(s)[d]
             S == {i \in Nat : P(i)}
  <1>0. StreamLength \in Nat /\ HeaderSize \in Nat \ {0}
    BY StreamAssumption
  <1>1. \A i \in Nat : i >= StreamLength => i \in S
    <2>1. \A i \in Nat : i >= StreamLength => NoHeader(i, StreamLength)
      BY <1>0 DEF NoHeader
    <2> QED BY <2>1, BoundsIs
  <1>2. ASSUME NEW i \in Nat, \A j \in Nat : j > i => j \in S PROVE i \in S
    <2>1. CASE NoHeader(i, StreamLength)
      BY <2>1, BoundsIs
    <2>2. CASE ~NoHeader(i, StreamLength)
      <3>1. Past(s, i) \in Nat /\ Past(s, i) > i
        BY <2>2, HeaderIs
      <3>2. P(Past(s, i))
        BY <1>2, <3>1
      <3>3. Bounds(s)[i] = {i} \cup Bounds(s)[Past(s, i)]
        BY <2>2, BoundsIs
      <3>4. ASSUME NEW d \in Bounds(s)[i], NEW y
            PROVE  y \in Bounds(s)[i] /\ y >= d <=> y \in Bounds(s)[d]
        <4>1. CASE d = i
          <5>1. \A z \in Bounds(s)[i] : z >= i
            BY BoundsBehind
          <5> QED BY <4>1, <5>1
        <4>2. CASE d \in Bounds(s)[Past(s, i)]
          <5>1. d \in Nat /\ d >= Past(s, i)
            BY <3>1, <4>2, BoundsBehind
          <5>2. ~(i >= d)
            BY <3>1, <5>1
          <5>3. y \in Bounds(s)[Past(s, i)] /\ y >= d <=> y \in Bounds(s)[d]
            BY <3>2, <4>2
          <5> QED BY <3>3, <5>2, <5>3
        <4> QED BY <3>3, <4>1, <4>2
      <3> QED BY <3>4
    <2> QED BY <2>1, <2>2
  <1>3. off \in S
    <2> HIDE DEF S
    <2> QED BY <1>0, <1>1, <1>2, DownwardOnNat
  <1> QED BY <1>3

(* Feeds that differ at d only have the same boundaries behind d. *)
LEMMA SameBehind ==
  ASSUME NEW s \in Feeds, NEW t \in Feeds, NEW d,
         \A i \in 0..(StreamLength - 1) : i # d => s[i] = t[i],
         d \in Nat, NEW off \in Nat, off > d
  PROVE  Bounds(s)[off] = Bounds(t)[off]
  <1> DEFINE S == {i \in Nat : i > d => Bounds(s)[i] = Bounds(t)[i]}
  <1>0. StreamLength \in Nat /\ HeaderSize \in Nat \ {0}
    BY StreamAssumption
  <1>1. \A i \in Nat : i >= StreamLength => i \in S
    <2>1. \A i \in Nat : i >= StreamLength => NoHeader(i, StreamLength)
      BY <1>0 DEF NoHeader
    <2> QED BY <2>1, BoundsIs
  <1>2. ASSUME NEW i \in Nat, \A j \in Nat : j > i => j \in S PROVE i \in S
    <2>1. CASE NoHeader(i, StreamLength)
      BY <2>1, BoundsIs
    <2>2. CASE ~NoHeader(i, StreamLength) /\ i > d
      <3>1. Past(s, i) \in Nat /\ Past(s, i) > i /\ i \in 0..(StreamLength - 1)
        BY <2>2, HeaderIs
      <3>2. Past(t, i) = Past(s, i)
        BY <2>2, <3>1 DEF Past
      <3>3. Bounds(s)[Past(s, i)] = Bounds(t)[Past(s, i)]
        BY <1>2, <2>2, <3>1
      <3>4. /\ Bounds(s)[i] = {i} \cup Bounds(s)[Past(s, i)]
            /\ Bounds(t)[i] = {i} \cup Bounds(t)[Past(t, i)]
        BY <2>2, BoundsIs
      <3> QED BY <3>2, <3>3, <3>4
    <2> QED BY <2>1, <2>2
  <1>3. off \in S
    <2> HIDE DEF S
    <2> QED BY <1>0, <1>1, <1>2, DownwardOnNat
  <1> QED BY <1>3

(* They have the same boundaries up to d, too. *)
LEMMA SameBefore ==
  ASSUME NEW s \in Feeds, NEW t \in Feeds, NEW d,
         \A i \in 0..(StreamLength - 1) : i # d => s[i] = t[i],
         d \in Nat, NEW off \in Nat, NEW x \in Bounds(s)[off], x <= d
  PROVE  x \in Bounds(t)[off]
  <1> DEFINE S == {i \in Nat : \A y \in Bounds(s)[i] : y <= d => y \in Bounds(t)[i]}
  <1>0. StreamLength \in Nat /\ HeaderSize \in Nat \ {0}
    BY StreamAssumption
  <1>1. \A i \in Nat : i >= StreamLength => i \in S
    <2>1. \A i \in Nat : i >= StreamLength => NoHeader(i, StreamLength)
      BY <1>0 DEF NoHeader
    <2> QED BY <2>1, BoundsIs
  <1>2. ASSUME NEW i \in Nat, \A j \in Nat : j > i => j \in S PROVE i \in S
    <2>1. CASE NoHeader(i, StreamLength)
      BY <2>1, BoundsIs
    <2>2. CASE ~NoHeader(i, StreamLength)
      <3>1. Past(s, i) \in Nat /\ Past(s, i) > i /\ i \in 0..(StreamLength - 1)
        BY <2>2, HeaderIs
      <3>2. /\ Bounds(s)[i] = {i} \cup Bounds(s)[Past(s, i)]
            /\ Bounds(t)[i] = {i} \cup Bounds(t)[Past(t, i)]
        BY <2>2, BoundsIs
      <3>3. ASSUME NEW y \in Bounds(s)[i], y <= d PROVE y \in Bounds(t)[i]
        <4>1. CASE y = i
          BY <3>2, <4>1
        <4>2. CASE y \in Bounds(s)[Past(s, i)]
          <5>1. y \in Nat /\ y >= Past(s, i)
            BY <3>1, <4>2, BoundsBehind
          <5>2. i # d
            BY <3>1, <3>3, <5>1
          <5>3. Past(t, i) = Past(s, i)
            BY <3>1, <5>2 DEF Past
          <5>4. y \in Bounds(t)[Past(s, i)]
            BY <1>2, <3>1, <3>3, <4>2
          <5> QED BY <3>2, <5>3, <5>4
        <4> QED BY <3>2, <4>1, <4>2
      <3> QED BY <3>3
    <2> QED BY <2>1, <2>2
  <1>3. off \in S
    <2> HIDE DEF S
    <2> QED BY <1>0, <1>1, <1>2, DownwardOnNat
  <1> QED BY <1>3

(* The callbacks of the whole feed from off on belong to complete messages  *)
(* at or behind off, and none of these ends before the one at off.         *)
CallsBehind(s, off, q) ==
  \A i \in 1..Len(q) :
    /\ q[i].at \in Nat /\ q[i].at >= off /\ ~Short(s, q[i].at, StreamLength)
    /\ q[i] = Call(s, q[i].at)
    /\ Past(s, q[i].at) >= Past(s, off)

(* Whole has such callbacks. *)
LEMMA WholeBehind ==
  ASSUME NEW s \in Feeds, NEW off \in Nat
  PROVE  CallsBehind(s, off, Whole(s)[off])
  <1> DEFINE S == {i \in Nat : CallsBehind(s, i, Whole(s)[i])}
  <1>0. StreamLength \in Nat /\ HeaderSize \in Nat \ {0} /\ StreamLength \in 0..StreamLength
    BY StreamAssumption
  <1>1. ASSUME NEW i \in Nat, Short(s, i, StreamLength) PROVE i \in S
    <2>1. Whole(s)[i] = << >>
      BY <1>1, WholeIs
    <2> QED BY <2>1 DEF CallsBehind
  <1>2. \A i \in Nat : i >= StreamLength => i \in S
    <2>1. \A i \in Nat : i >= StreamLength => NoHeader(i, StreamLength)
      BY <1>0 DEF NoHeader
    <2> HIDE DEF S
    <2> QED BY <1>1, <2>1 DEF Short
  <1>3. ASSUME NEW i \in Nat, \A j \in Nat : j > i => j \in S PROVE i \in S
    <2>1. CASE ~Short(s, i, StreamLength)
      <3> DEFINE p == Past(s, i)
                 c == Call(s, i)
                 q == Whole(s)[p]
      <3>1. p \in Nat /\ p > i /\ c \in Calls
        BY <1>0, <2>1, CompleteIs
      <3>2. CallsBehind(s, p, q)
        BY <1>3, <3>1
      <3>3. Whole(s)[i] = <<c>> \o q /\ q \in Seq(Calls)
        BY <2>1, <3>1, WholeIs
      <3>4. c.at = i
        BY DEF Call
      <3> HIDE DEF c, q
      <3>5. ASSUME NEW k \in 1..Len(<<c>> \o q)
            PROVE  LET x == (<<c>> \o q)[k]
                   IN  /\ x.at \in Nat /\ x.at >= i /\ ~Short(s, x.at, StreamLength)
                       /\ x = Call(s, x.at) /\ Past(s, x.at) >= p
        <4>1. CASE k = 1
          <5>1. (<<c>> \o q)[k] = c
            BY <3>1, <3>3, <4>1
          <5> QED BY <2>1, <3>1, <3>4, <5>1 DEF c
        <4>2. CASE k # 1
          <5>1. (<<c>> \o q)[k] = q[k - 1] /\ k - 1 \in 1..Len(q)
            BY <3>1, <3>3, <4>2
          <5> DEFINE x == q[k - 1]
          <5>2. /\ x.at \in Nat /\ x.at >= p /\ ~Short(s, x.at, StreamLength)
                /\ x = Call(s, x.at)
            BY <3>2, <5>1 DEF CallsBehind
          <5>3. Past(s, x.at) \in Nat /\ Past(s, x.at) > x.at
            BY <1>0, <5>2, CompleteIs
          <5> HIDE DEF x, p
          <5>4. x.at >= i /\ Past(s, x.at) >= p
            BY <3>1, <5>2, <5>3
          <5> QED BY <5>1, <5>2, <5>4 DEF x
        <4> QED BY <4>1, <4>2
      <3> QED BY <3>3, <3>5 DEF CallsBehind
    <2> QED BY <1>1, <2>1
  <1>4. off \in S
    <2> HIDE DEF S
    <2> QED BY <1>0, <1>2, <1>3, DownwardOnNat
  <1> QED BY <1>4

(* The places that callbacks are about, and whether their headers decode. *)
Places(q) == {q[i].at : i \in 1..Len(q)}
Decodes(s, q) == \A i \in 1..Len(q) : s[q[i].at].decoded

(* Of two sequences, one behind the other. *)
LEMMA PlacesJoin ==
  ASSUME NEW p \in Seq(Calls), NEW q \in Seq(Calls)
  PROVE  /\ p \o q \in Seq(Calls)
         /\ Places(p \o q) = Places(p) \cup Places(q)
         /\ \A s : Decodes(s, p \o q) <=> Decodes(s, p) /\ Decodes(s, q)
  <1>1. /\ p \o q \in Seq(Calls) /\ Len(p \o q) = Len(p) + Len(q)
        /\ Len(p) \in Nat /\ Len(q) \in Nat
    OBVIOUS
  <1>2. /\ \A i \in 1..Len(p) : i \in 1..Len(p \o q) /\ (p \o q)[i] = p[i]
        /\ \A i \in 1..Len(q) : i + Len(p) \in 1..Len(p \o q) /\ (p \o q)[i + Len(p)] = q[i]
    BY <1>1
  <1>3. \A i \in 1..Len(p \o q) :
          \/ i \in 1..Len(p) /\ (p \o q)[i] = p[i]
          \/ \E j \in 1..Len(q) : (p \o q)[i] = q[j]
    <2> SUFFICES ASSUME NEW i \in 1..Len(p \o q), i \notin 1..Len(p)
                 PROVE  \E j \in 1..Len(q) : (p \o q)[i] = q[j]
      BY <1>1, <1>2
    <2>1. i - Len(p) \in 1..Len(q) /\ (i - Len(p)) + Len(p) = i
      BY <1>1
    <2>2. (p \o q)[i] = q[i - Len(p)]
      BY <1>2, <2>1
    <2> QED BY <2>1, <2>2
  <1> DEFINE r == p \o q
  <1> HIDE DEF r
  <1>4. Places(r) = Places(p) \cup Places(q)
    <2>1. Places(r) \subseteq Places(p) \cup Places(q)
      BY <1>3 DEF r, Places
    <2>2. Places(p) \subseteq Places(r)
      <3>1. \A i \in 1..Len(p) : i \in 1..Len(r) /\ r[i].at = p[i].at
        BY <1>2 DEF r
      <3> QED BY <3>1 DEF Places
    <2>3. Places(q) \subseteq Places(r)
      <3>1. \A i \in 1..Len(q) : i + Len(p) \in 1..Len(r) /\ r[i + Len(p)].at = q[i].at
        BY <1>2 DEF r
      <3> QED BY <3>1 DEF Places
    <2> QED BY <2>1, <2>2, <2>3
  <1>5. ASSUME NEW s PROVE Decodes(s, r) <=> Decodes(s, p) /\ Decodes(s, q)
    <2>1. Decodes(s, r) => Decodes(s, p)
      BY <1>2 DEF r, Decodes
    <2>2. Decodes(s, r) => Decodes(s, q)
      <3>1. \A i \in 1..Len(q) : i + Len(p) \in 1..Len(r) /\ r[i + Len(p)].at = q[i].at
        BY <1>2 DEF r
      <3> QED BY <3>1 DEF Decodes
    <2>3. Decodes(s, p) /\ Decodes(s, q) => Decodes(s, r)
      BY <1>3 DEF r, Decodes
    <2> QED BY <2>1, <2>2, <2>3
  <1> QED BY <1>1, <1>4, <1>5 DEF r

(* Of a single one. *)
LEMMA PlacesOne ==
  ASSUME NEW c \in Calls
  PROVE  /\ <<c>> \in Seq(Calls) /\ Places(<<c>>) = {c.at}
         /\ \A s : Decodes(s, <<c>>) <=> s[c.at].decoded
  BY DEF Places, Decodes

(* What parse, given the bytes off..end-1, owes: its callbacks are the next *)
(* ones of the whole feed, the places it looked at the next boundaries, and *)
(* it stopped in front of an incomplete message unless a header was bad.   *)
Splits(s, off, end, r) ==
  /\ r \in Result /\ off <= r.stop /\ r.stop <= end
  /\ Whole(s)[off] = r.calls \o Whole(s)[r.stop]
  /\ Bounds(s)[off] = Places(r.calls) \cup Bounds(s)[r.stop]
  /\ \A x \in Places(r.calls) : x \in Nat /\ off <= x /\ x < r.stop
  /\ Decodes(s, r.calls) => Short(s, r.stop, end)

(* One turn of the loop adds its callback in front. *)
LEMMA OnwardIs ==
  ASSUME NEW s, NEW off, Call(s, off) \in Calls, NEW r \in Result
  PROVE  Onward(s, off, r) = [calls |-> <<Call(s, off)>> \o r.calls, stop |-> r.stop]
  <1> DEFINE q == <<Call(s, off)>> \o r.calls
  <1>1. r.calls \in Seq(Calls) /\ r.stop \in Nat
    BY DEF Result
  <1>2. q \in Seq(Calls)
    BY <1>1
  <1>3. Onward(s, off, r) = [r EXCEPT !.calls = q]
    BY DEF Onward, Result
  <1> HIDE DEF q
  <1>4. [r EXCEPT !.calls = q] = [calls |-> q, stop |-> r.stop]
    BY <1>2 DEF Result
  <1> QED BY <1>3, <1>4 DEF q

(* Sequences of callbacks can be regrouped. *)
LEMMA CallsRegroup ==
  ASSUME NEW p \in Seq(Calls), NEW q \in Seq(Calls), NEW r \in Seq(Calls)
  PROVE  p \o (q \o r) = (p \o q) \o r
  <1> HIDE DEF Calls
  <1> QED BY ConcatAssociative, SMTT(30)

(* The loop of parse does. *)
LEMMA ParsesSplits ==
  ASSUME NEW s \in Feeds, NEW end \in 0..StreamLength, NEW off \in 0..end
  PROVE  Splits(s, off, end, Parses(s, end)[off])
  <1> DEFINE w == Parses(s, end)
             S == {i \in 0..end : Splits(s, i, end, w[i])}
  <1>0. StreamLength \in Nat /\ end \in Nat /\ StreamLength \in 0..StreamLength
    BY StreamAssumption
  <1>1. ASSUME NEW i \in 0..end, \A j \in (i + 1)..end : j \in S PROVE i \in S
    <2>0. i \in Nat
      OBVIOUS
    <2>1. CASE Short(s, i, end)
      <3>1. w[i] = Stopped(i)
        BY <2>0, <2>1, ParsesIs
      <3>2. << >> \in Seq(Calls) /\ Places(<< >>) = {}
        BY DEF Places
      <3>3. Whole(s)[i] \in Seq(Calls)
        BY <2>0, WholeIs
      <3>4. << >> \o Whole(s)[i] = Whole(s)[i]
        BY <3>3
      <3>5. Stopped(i).calls = << >> /\ Stopped(i).stop = i /\ Stopped(i) \in Result
        BY <2>0, <3>2 DEF Stopped, Result
      <3>6. i <= end
        BY <1>0
      <3>7. Splits(s, i, end, Stopped(i))
        BY <1>0, <2>0, <2>1, <3>2, <3>4, <3>5, <3>6 DEF Splits
      <3> QED BY <3>1, <3>7
    <2>2. CASE ~Short(s, i, end)
      <3> DEFINE p == Past(s, i)
                 c == Call(s, i)
      <3>1. p \in Nat /\ i < p /\ p <= end /\ c \in Calls /\ i + HeaderSize <= end
            /\ i \in 0..(StreamLength - 1)
        BY <2>0, <2>2, CompleteIs
      <3>2. ~Short(s, i, StreamLength)
        <4>1. HeaderSize \in Nat
          BY StreamAssumption
        <4>2. ~NoHeader(i, StreamLength)
          BY <1>0, <2>0, <3>1, <4>1 DEF NoHeader
        <4>3. ~NoBody(s, i, StreamLength)
          <5>1. CASE s[i].decoded
            BY <1>0, <2>0, <3>1, <5>1, ReadingIs DEF NoBody, Past
          <5>2. CASE ~s[i].decoded
            BY <5>2 DEF NoBody
          <5> QED BY <5>1, <5>2
        <4> QED BY <4>2, <4>3 DEF Short
      <3>3. Whole(s)[i] = <<c>> \o Whole(s)[p] /\ Whole(s)[p] \in Seq(Calls)
        BY <2>0, <3>1, <3>2, WholeIs
      <3>4. Bounds(s)[i] = {i} \cup Bounds(s)[p]
        BY <2>0, <3>2, BoundsIs DEF Short
      <3>5. c.at = i
        BY DEF Call
      <3>6. CASE ~s[i].decoded
        <4>1. w[i] = BadHeader(s, i)
          BY <2>0, <2>2, <3>6, ParsesIs
        <4>2. BadHeader(s, i) = [calls |-> <<c>>, stop |-> p]
          BY DEF BadHeader
        <4> HIDE DEF c, p
        <4>3. /\ <<c>> \in Seq(Calls) /\ Places(<<c>>) = {i}
              /\ ~Decodes(s, <<c>>)
          BY <3>1, <3>5, <3>6, PlacesOne
        <4>4. Splits(s, i, end, [calls |-> <<c>>, stop |-> p])
          BY <2>0, <3>1, <3>3, <3>4, <4>3 DEF Splits, Result
        <4> QED BY <4>1, <4>2, <4>4
      <3>7. CASE s[i].decoded
        <4> DEFINE r == w[p]
                   q == <<c>> \o r.calls
        <4>1. w[i] = Onward(s, i, r)
          BY <2>0, <2>2, <3>7, ParsesIs
        <4>2. p \in (i + 1)..end
          BY <2>0, <3>1
        <4>3. Splits(s, p, end, r)
          BY <1>1, <4>2
        <4> HIDE DEF r
        <4>4. /\ r \in Result /\ p <= r.stop /\ r.stop <= end
              /\ Whole(s)[p] = r.calls \o Whole(s)[r.stop]
              /\ Bounds(s)[p] = Places(r.calls) \cup Bounds(s)[r.stop]
              /\ \A x \in Places(r.calls) : x \in Nat /\ p <= x /\ x < r.stop
              /\ Decodes(s, r.calls) => Short(s, r.stop, end)
          BY <4>3 DEF Splits
        <4>5. r.calls \in Seq(Calls) /\ r.stop \in Nat
              /\ r = [calls |-> r.calls, stop |-> r.stop]
          BY <4>4 DEF Result
        <4>6. Onward(s, i, r) = [calls |-> q, stop |-> r.stop]
          BY <3>1, <4>4, OnwardIs
        <4>7. Whole(s)[r.stop] \in Seq(Calls)
          BY <4>5, WholeIs
        <4> HIDE DEF c, p
        <4>8. <<c>> \in Seq(Calls) /\ Places(<<c>>) = {i}
          BY <3>1, <3>5, PlacesOne
        <4>9. /\ q \in Seq(Calls) /\ Places(q) = {i} \cup Places(r.calls)
              /\ Decodes(s, q) => Decodes(s, r.calls)
          BY <4>5, <4>8, PlacesJoin
        <4>10. Whole(s)[i] = q \o Whole(s)[r.stop]
          <5>1. <<c>> \o (r.calls \o Whole(s)[r.stop]) = (<<c>> \o r.calls) \o Whole(s)[r.stop]
            BY <4>5, <4>7, <4>8, CallsRegroup
          <5> QED BY <3>3, <4>4, <5>1
        <4> HIDE DEF q
        <4>11. Splits(s, i, end, [calls |-> q, stop |-> r.stop])
          <5>1. i <= r.stop /\ \A x \in Places(q) : x \in Nat /\ i <= x /\ x < r.stop
            BY <2>0, <3>1, <4>4, <4>5, <4>9
          <5>2. Bounds(s)[i] = Places(q) \cup Bounds(s)[r.stop]
            BY <3>4, <4>4, <4>9
          <5> QED BY <4>4, <4>5, <4>9, <4>10, <5>1, <5>2 DEF Splits, Result
        <4> QED BY <4>1, <4>6, <4>11
      <3> QED BY <3>6, <3>7
    <2> QED BY <2>1, <2>2
  <1>2. \A i \in 0..end : i \in S
    <2> HIDE DEF S
    <2> QED BY <1>0, <1>1, DownwardInduction
  <1> QED BY <1>2

(* parse, given exactly the bytes of one message: its callback. *)
LEMMA OneMessage ==
  ASSUME NEW s \in Feeds, NEW off \in Nat, ~Short(s, off, StreamLength)
  PROVE  Parses(s, Past(s, off))[off].calls = <<Call(s, off)>>
  <1> DEFINE p == Past(s, off)
             c == Call(s, off)
  <1>0. StreamLength \in Nat /\ HeaderSize \in Nat \ {0} /\ StreamLength \in 0..StreamLength
    BY StreamAssumption
  <1>1. /\ p \in 0..StreamLength /\ p >= off + HeaderSize /\ c \in Calls
        /\ off \in 0..(StreamLength - 1)
    BY <1>0, CompleteIs
  <1>2. ~Short(s, off, p)
    <2>1. ~NoHeader(off, p)
      BY <1>0, <1>1 DEF NoHeader
    <2>2. CASE s[off].decoded
      <3>1. ~NoBody(s, off, p)
        BY <1>1, <2>2, ReadingIs DEF NoBody, Past
      <3> QED BY <2>1, <3>1 DEF Short
    <2>3. CASE ~s[off].decoded
      BY <2>1, <2>3 DEF Short, NoBody
    <2> QED BY <2>2, <2>3
  <1>3. CASE ~s[off].decoded
    <2>1. Parses(s, p)[off] = BadHeader(s, off)
      BY <1>1, <1>2, <1>3, ParsesIs
    <2> QED BY <2>1 DEF BadHeader
  <1>4. CASE s[off].decoded
    <2>1. Parses(s, p)[off] = Onward(s, off, Parses(s, p)[p])
      BY <1>1, <1>2, <1>4, ParsesIs
    <2>2. Short(s, p, p)
      BY <1>0, <1>1 DEF Short, NoHeader
    <2>3. p \in Nat /\ Parses(s, p)[p] = Stopped(p)
      BY <1>1, <2>2, ParsesIs
    <2>4. Stopped(p) \in Result /\ Stopped(p).calls = << >>
      BY <2>3 DEF Stopped, Result
    <2>5. Onward(s, off, Stopped(p)).calls = <<c>> \o << >>
      <3>1. Onward(s, off, Stopped(p))
              = [calls |-> <<c>> \o Stopped(p).calls, stop |-> Stopped(p).stop]
        BY <1>1, <2>4, OnwardIs
      <3> QED BY <2>4, <3>1
    <2>6. <<c>> \o << >> = <<c>>
      BY <1>1
    <2> QED BY <2>1, <2>3, <2>5, <2>6
  <1> QED BY <1>3, <1>4

(* parse, given less than that: nothing. *)
LEMMA PartOfMessage ==
  ASSUME NEW s \in Feeds, NEW off \in Nat, ~Short(s, off, StreamLength),
         NEW end \in Nat, end < Past(s, off)
  PROVE  end \in 0..StreamLength /\ Parses(s, end)[off].calls = << >>
  <1>0. StreamLength \in Nat /\ HeaderSize \in Nat \ {0} /\ StreamLength \in 0..StreamLength
    BY StreamAssumption
  <1>1. /\ Past(s, off) \in 0..StreamLength /\ off \in 0..(StreamLength - 1)
    BY <1>0, CompleteIs
  <1>2. end \in 0..StreamLength
    BY <1>0, <1>1
  <1>3. Short(s, off, end)
    <2>1. CASE s[off].decoded
      BY <2>1 DEF Short, NoBody, Past
    <2>2. CASE ~s[off].decoded
      BY <2>2 DEF Short, NoHeader, Past
    <2> QED BY <2>1, <2>2
  <1>4. Parses(s, end)[off] = Stopped(off)
    BY <1>2, <1>3, ParsesIs
  <1> QED BY <1>2, <1>4 DEF Stopped

-----------------------------------------------------------------------------
(* A stream in step: log and what is to come from start on are the whole    *)
(* feed, and only a bad header leaves a complete message waiting.          *)
InStep(s, q, b, e) ==
  /\ Whole(s)[0] = q \o Whole(s)[b]
  /\ Bounds(s)[0] = Places(q) \cup Bounds(s)[b]
  /\ \A x \in Places(q) : x \in Nat /\ x < b
  /\ Decodes(s, q) => Short(s, b, e)

(* consume keeps in step. *)
LEMMA ConsumeInStep ==
  ASSUME NEW s \in Feeds, NEW q \in Seq(Calls), NEW b \in Nat, NEW e, InStep(s, q, b, e),
         NEW end \in 0..StreamLength, NEW r, Splits(s, b, end, r)
  PROVE  InStep(s, q \o r.calls, r.stop, end)
  <1>1. /\ r \in Result /\ b <= r.stop
        /\ Whole(s)[b] = r.calls \o Whole(s)[r.stop]
        /\ Bounds(s)[b] = Places(r.calls) \cup Bounds(s)[r.stop]
        /\ \A x \in Places(r.calls) : x \in Nat /\ b <= x /\ x < r.stop
        /\ Decodes(s, r.calls) => Short(s, r.stop, end)
    BY DEF Splits
  <1>2. /\ Whole(s)[0] = q \o Whole(s)[b]
        /\ Bounds(s)[0] = Places(q) \cup Bounds(s)[b]
        /\ \A x \in Places(q) : x \in Nat /\ x < b
    BY DEF InStep
  <1>3. r.calls \in Seq(Calls) /\ r.stop \in Nat
    BY <1>1 DEF Result
  <1>4. Whole(s)[r.stop] \in Seq(Calls)
    BY <1>3, WholeIs
  <1>5. Whole(s)[0] = (q \o r.calls) \o Whole(s)[r.stop]
    <2>1. q \o (r.calls \o Whole(s)[r.stop]) = (q \o r.calls) \o Whole(s)[r.stop]
      BY <1>3, <1>4, CallsRegroup
    <2> QED BY <1>1, <1>2, <2>1
  <1>6. /\ Places(q \o r.calls) = Places(q) \cup Places(r.calls)
        /\ Decodes(s, q \o r.calls) => Decodes(s, r.calls)
    BY <1>3, PlacesJoin
  <1>7. \A x \in Places(q \o r.calls) : x \in Nat /\ x < r.stop
    BY <1>1, <1>2, <1>3, <1>6
  <1>8. Bounds(s)[0] = Places(q \o r.calls) \cup Bounds(s)[r.stop]
    BY <1>1, <1>2, <1>6
  <1> QED BY <1>1, <1>5, <1>6, <1>7, <1>8 DEF InStep

(* Datagrams kept apart: up to e, each of the whole feed's callbacks that   *)
(* is not about a truncated datagram is in log, in the order of the feed   *)
(* and once.                                                               *)
DispatchedTo(s, q, e, c, u) ==
  /\ u \in Seq(Calls) /\ Whole(s)[0] = u \o Whole(s)[e]
  /\ \A i \in 1..Len(u) : u[i].at \in c \/ \E j \in 1..Len(q) : q[j] = u[i]
Apart(s, q, e, c) ==
  /\ \E u : DispatchedTo(s, q, e, c, u)
  /\ \A j \in 1..Len(q) : q[j].at < e /\ q[j].at \notin c
  /\ \A j, k \in 1..Len(q) : j < k => q[j].at < q[k].at
  /\ \A x \in c : x \in Nat /\ x < e

(* The message at e moves from what is to come to what has come. *)
LEMMA NextDatagram ==
  ASSUME NEW s \in Feeds, NEW e \in Nat, ~Short(s, e, StreamLength),
         NEW u \in Seq(Calls), Whole(s)[0] = u \o Whole(s)[e]
  PROVE  /\ u \o <<Call(s, e)>> \in Seq(Calls)
         /\ Whole(s)[0] = (u \o <<Call(s, e)>>) \o Whole(s)[Past(s, e)]
         /\ \A i \in 1..Len(u \o <<Call(s, e)>>) :
              \/ i \in 1..Len(u) /\ (u \o <<Call(s, e)>>)[i] = u[i]
              \/ (u \o <<Call(s, e)>>)[i] = Call(s, e)
  <1> DEFINE p == Past(s, e)
             c == Call(s, e)
  <1>0. StreamLength \in 0..StreamLength
    BY StreamAssumption
  <1>1. p \in Nat /\ c \in Calls
    BY <1>0, CompleteIs
  <1>2. Whole(s)[e] = <<c>> \o Whole(s)[p] /\ Whole(s)[p] \in Seq(Calls)
    BY <1>1, WholeIs
  <1> HIDE DEF c, p
  <1>3. <<c>> \in Seq(Calls)
    BY <1>1
  <1>4. Whole(s)[0] = (u \o <<c>>) \o Whole(s)[p]
    <2>1. u \o (<<c>> \o Whole(s)[p]) = (u \o <<c>>) \o Whole(s)[p]
      BY <1>2, <1>3, CallsRegroup
    <2> QED BY <1>2, <2>1
  <1>5. u \o <<c>> \in Seq(Calls)
    BY <1>3
  <1>6. \A i \in 1..Len(u \o <<c>>) :
          \/ i \in 1..Len(u) /\ (u \o <<c>>)[i] = u[i]
          \/ (u \o <<c>>)[i] = c
    BY <1>1
  <1> QED BY <1>4, <1>5, <1>6 DEF c, p

(* A datagram that arrives whole is dispatched behind the others. *)
LEMMA WholeDatagramApart ==
  ASSUME NEW s \in Feeds, NEW q \in Seq(Calls), NEW e \in Nat, NEW c, Apart(s, q, e, c),
         ~Short(s, e, StreamLength)
  PROVE  Apart(s, q \o <<Call(s, e)>>, Past(s, e), c)
  <1> DEFINE x == Call(s, e)
             v == q \o <<x>>
             p == Past(s, e)
  <1>0. StreamLength \in 0..StreamLength
    BY StreamAssumption
  <1>1. p \in Nat /\ e < p /\ x \in Calls
    BY <1>0, CompleteIs
  <1>2. x.at = e
    BY DEF Call
  <1>3. PICK u : DispatchedTo(s, q, e, c, u)
    BY DEF Apart
  <1>4. /\ u \in Seq(Calls) /\ Whole(s)[0] = u \o Whole(s)[e]
        /\ \A i \in 1..Len(u) : u[i].at \in c \/ \E j \in 1..Len(q) : q[j] = u[i]
    BY <1>3 DEF DispatchedTo
  <1>5. /\ u \o <<x>> \in Seq(Calls)
        /\ Whole(s)[0] = (u \o <<x>>) \o Whole(s)[p]
        /\ \A i \in 1..Len(u \o <<x>>) :
             \/ i \in 1..Len(u) /\ (u \o <<x>>)[i] = u[i]
             \/ (u \o <<x>>)[i] = x
    BY <1>4, NextDatagram
  <1>6. /\ \A j \in 1..Len(q) : q[j].at < e /\ q[j].at \notin c /\ q[j] \in Calls
        /\ \A j, k \in 1..Len(q) : j < k => q[j].at < q[k].at
        /\ \A y \in c : y \in Nat /\ y < e
    BY DEF Apart
  <1> HIDE DEF x, p
  <1>7. /\ Len(v) = Len(q) + 1 /\ Len(q) \in Nat
        /\ v[Len(v)] = x /\ \A j \in 1..Len(q) : v[j] = q[j] /\ j \in 1..Len(v)
        /\ \A j \in 1..Len(v) : j \in 1..Len(q) \/ j = Len(v)
    BY <1>1
  <1> HIDE DEF v
  <1>8. \A i \in 1..Len(u \o <<x>>) :
          (u \o <<x>>)[i].at \in c \/ \E j \in 1..Len(v) : v[j] = (u \o <<x>>)[i]
    <2>1. Len(v) \in 1..Len(v)
      BY <1>7
    <2>2. ASSUME NEW i \in 1..Len(u) PROVE u[i].at \in c \/ \E j \in 1..Len(v) : v[j] = u[i]
      <3>1. CASE u[i].at \notin c
        <4>1. PICK j \in 1..Len(q) : q[j] = u[i]
          BY <1>4, <3>1
        <4> QED BY <1>7, <4>1
      <3> QED BY <3>1
    <2> QED BY <1>5, <1>7, <2>1, <2>2
  <1>9. DispatchedTo(s, v, p, c, u \o <<x>>)
    BY <1>5, <1>8 DEF DispatchedTo
  <1>10. \A j \in 1..Len(q) : q[j].at \in Nat
    BY <1>6 DEF Calls
  <1>11. \A j \in 1..Len(v) : v[j].at < p /\ v[j].at \notin c
    <2>1. e \notin c
      BY <1>6
    <2> QED BY <1>1, <1>2, <1>6, <1>7, <1>10, <2>1
  <1>12. \A j, k \in 1..Len(v) : j < k => v[j].at < v[k].at
    <2> SUFFICES ASSUME NEW j \in 1..Len(v), NEW k \in 1..Len(v), j < k
                 PROVE  v[j].at < v[k].at
      OBVIOUS
    <2>1. j \in 1..Len(q)
      BY <1>7
    <2>2. CASE k \in 1..Len(q)
      BY <1>6, <1>7, <2>1, <2>2
    <2>3. CASE k = Len(v)
      BY <1>2, <1>6, <1>7, <2>1, <2>3
    <2> QED BY <1>7, <2>2, <2>3
  <1>13. \A y \in c : y \in Nat /\ y < p
    BY <1>1, <1>6
  <1> QED BY <1>9, <1>11, <1>12, <1>13 DEF Apart, v, p, x

(* One that is truncated leaves no trace but the note that it was. *)
LEMMA CutDatagramApart ==
  ASSUME NEW s \in Feeds, NEW q \in Seq(Calls), NEW e \in Nat, NEW c, Apart(s, q, e, c),
         ~Short(s, e, StreamLength)
  PROVE  Apart(s, q, Past(s, e), c \cup {e})
  <1> DEFINE x == Call(s, e)
             p == Past(s, e)
             d == c \cup {e}
  <1>0. StreamLength \in 0..StreamLength
    BY StreamAssumption
  <1>1. p \in Nat /\ e < p /\ x \in Calls
    BY <1>0, CompleteIs
  <1>2. x.at = e
    BY DEF Call
  <1>3. PICK u : DispatchedTo(s, q, e, c, u)
    BY DEF Apart
  <1>4. /\ u \in Seq(Calls) /\ Whole(s)[0] = u \o Whole(s)[e]
        /\ \A i \in 1..Len(u) : u[i].at \in c \/ \E j \in 1..Len(q) : q[j] = u[i]
    BY <1>3 DEF DispatchedTo
  <1>5. /\ u \o <<x>> \in Seq(Calls)
        /\ Whole(s)[0] = (u \o <<x>>) \o Whole(s)[p]
        /\ \A i \in 1..Len(u \o <<x>>) :
             \/ i \in 1..Len(u) /\ (u \o <<x>>)[i] = u[i]
             \/ (u \o <<x>>)[i] = x
    BY <1>4, NextDatagram
  <1>6. /\ \A j \in 1..Len(q) : q[j].at < e /\ q[j].at \notin c /\ q[j] \in Calls
        /\ \A j, k \in 1..Len(q) : j < k => q[j].at < q[k].at
        /\ \A y \in c : y \in Nat /\ y < e
    BY DEF Apart
  <1> HIDE DEF x, p
  <1>7. \A i \in 1..Len(u \o <<x>>) :
          (u \o <<x>>)[i].at \in d \/ \E j \in 1..Len(q) : q[j] = (u \o <<x>>)[i]
    BY <1>2, <1>4, <1>5
  <1>8. DispatchedTo(s, q, p, d, u \o <<x>>)
    <2> HIDE DEF d
    <2> QED BY <1>5, <1>7 DEF DispatchedTo
  <1>9. \A j \in 1..Len(q) : q[j].at \in Nat
    BY <1>6 DEF Calls
  <1>10. \A j \in 1..Len(q) : q[j].at < p /\ q[j].at \notin d
    BY <1>1, <1>6, <1>9
  <1>11. \A y \in d : y \in Nat /\ y < p
    BY <1>1, <1>6
  <1> QED BY <1>6, <1>8, <1>10, <1>11 DEF Apart, p

-----------------------------------------------------------------------------
(* The inductive invariant of StreamFeed. *)
StreamTypes ==
  /\ stream \in Feeds
  /\ received \in 0..StreamLength /\ start \in 0..received
  /\ log \in Seq(Calls)

StreamInv ==
  /\ StreamTypes
  /\ entry = "stream" => InStep(stream, log, start, received)
  /\ entry = "datagram" => Apart(stream, log, received, cut)

(* A FeedHandler that has received nothing satisfies it. *)
LEMMA StreamInitInv == StreamInit => StreamInv
  <1> SUFFICES ASSUME StreamInit PROVE StreamInv
    OBVIOUS
  <1>0. StreamLength \in Nat /\ HeaderSize \in Nat \ {0}
    BY StreamAssumption
  <1>1. stream \in Feeds /\ received = 0 /\ start = 0 /\ log = << >> /\ cut = {}
    BY DEF StreamInit, Feeds
  <1>2. << >> \in Seq(Calls) /\ Places(<< >>) = {} /\ Len(<< >>) = 0
    BY DEF Places
  <1>3. StreamTypes
    BY <1>0, <1>1, <1>2 DEF StreamTypes
  <1>4. Whole(stream)[0] \in Seq(Calls)
    BY <1>1, WholeIs
  <1>5. Whole(stream)[0] = << >> \o Whole(stream)[0]
    BY <1>4
  <1>6. Short(stream, 0, 0)
    BY <1>0 DEF Short, NoHeader
  <1>7. InStep(stream, << >>, 0, 0)
    BY <1>2, <1>5, <1>6 DEF InStep
  <1>8. DispatchedTo(stream, << >>, 0, {}, << >>)
    BY <1>2, <1>5 DEF DispatchedTo
  <1>9. Apart(stream, << >>, 0, {})
    BY <1>2, <1>8 DEF Apart
  <1> QED BY <1>1, <1>3, <1>7, <1>9 DEF StreamInv

(* consume preserves it. *)
LEMMA ConsumeInv ==
  ASSUME StreamInv, NEW n \in 1..StreamLength, Consume(n)
  PROVE  StreamInv'
  <1> DEFINE end == received + n
             r == Parses(stream, end)[start]
  <1>0. StreamLength \in Nat
    BY StreamAssumption
  <1>1. /\ stream \in Feeds /\ received \in 0..StreamLength /\ start \in 0..received
        /\ log \in Seq(Calls)
    BY DEF StreamInv, StreamTypes
  <1>2. /\ entry = "stream" /\ received + n <= StreamLength
        /\ log' = log \o r.calls /\ start' = r.stop /\ received' = end
        /\ stream' = stream /\ entry' = entry /\ cut' = cut
    BY ParseIs DEF Consume, Residual
  <1>3. end \in 0..StreamLength /\ start \in 0..end /\ start \in Nat
    BY <1>0, <1>1, <1>2
  <1>4. Splits(stream, start, end, r)
    BY <1>1, <1>3, ParsesSplits
  <1> HIDE DEF r, end
  <1>5. r \in Result /\ start <= r.stop /\ r.stop <= end
    BY <1>4 DEF Splits
  <1>6. r.calls \in Seq(Calls) /\ r.stop \in 0..end
    BY <1>3, <1>5 DEF Result
  <1>7. log \o r.calls \in Seq(Calls)
    BY <1>1, <1>6, PlacesJoin
  <1>8. InStep(stream, log, start, received)
    BY <1>2 DEF StreamInv
  <1>9. InStep(stream, log \o r.calls, r.stop, end)
    BY <1>1, <1>3, <1>4, <1>8, ConsumeInStep
  <1>10. StreamTypes'
    BY <1>1, <1>2, <1>3, <1>6, <1>7 DEF StreamTypes
  <1> QED BY <1>2, <1>9, <1>10 DEF StreamInv

(* consume_datagram preserves it. *)
LEMMA ConsumeDatagramInv ==
  ASSUME StreamInv, NEW n \in 1..StreamLength, ConsumeDatagram(n)
  PROVE  StreamInv'
  <1> DEFINE p == Past(stream, received)
             end == received + n
             x == Call(stream, received)
  <1>0. StreamLength \in Nat /\ StreamLength \in 0..StreamLength /\ HeaderSize \in Nat
    BY StreamAssumption
  <1>1. /\ stream \in Feeds /\ received \in 0..StreamLength /\ received \in Nat
        /\ log \in Seq(Calls)
    BY <1>0 DEF StreamInv, StreamTypes
  <1>2. /\ entry = "datagram" /\ received + HeaderSize <= StreamLength /\ p <= StreamLength
        /\ n <= p - received
        /\ log' = log \o Parses(stream, end)[received].calls
        /\ received' = p /\ start' = p
        /\ cut' = IF n < p - received THEN cut \cup {received} ELSE cut
        /\ stream' = stream /\ entry' = entry
    BY ParseIs DEF ConsumeDatagram, DatagramEnd, NextOffset, Past
  <1>3. ~Short(stream, received, StreamLength)
    <2>1. ~NoHeader(received, StreamLength)
      BY <1>0, <1>1, <1>2 DEF NoHeader
    <2>2. CASE stream[received].decoded
      <3>1. received \in 0..(StreamLength - 1)
        BY <1>1, <2>1, HeaderIs
      <3>2. ~NoBody(stream, received, StreamLength)
        BY <1>0, <1>1, <1>2, <2>2, <3>1, ReadingIs DEF NoBody, Past
      <3> QED BY <2>1, <3>2 DEF Short
    <2>3. CASE ~stream[received].decoded
      BY <2>1, <2>3 DEF Short, NoBody
    <2> QED BY <2>2, <2>3
  <1>4. p \in Nat /\ received < p /\ p <= StreamLength /\ x \in Calls
    BY <1>0, <1>1, <1>3, CompleteIs
  <1>5. p \in 0..StreamLength /\ p \in 0..p /\ Apart(stream, log, received, cut)
    BY <1>0, <1>2, <1>4 DEF StreamInv
  <1>6. CASE n = p - received
    <2>1. end = p
      BY <1>1, <1>4, <1>6
    <2>2. Parses(stream, p)[received].calls = <<x>>
      BY <1>1, <1>3, OneMessage
    <2>3. log' = log \o <<x>>
      BY <1>2, <2>1, <2>2
    <2>4. cut' = cut
      BY <1>1, <1>2, <1>4, <1>6
    <2>5. Apart(stream, log \o <<x>>, p, cut)
      BY <1>1, <1>3, <1>5, WholeDatagramApart
    <2>6. log \o <<x>> \in Seq(Calls)
      <3> HIDE DEF x
      <3> QED BY <1>1, <1>4
    <2> HIDE DEF x, p
    <2>7. StreamTypes'
      BY <1>1, <1>2, <1>5, <2>3, <2>6 DEF StreamTypes
    <2> QED BY <1>2, <2>3, <2>4, <2>5, <2>7 DEF StreamInv
  <1>7. CASE n # p - received
    <2>1. n < p - received /\ end \in Nat /\ end < p
      BY <1>1, <1>2, <1>4, <1>7
    <2>2. Parses(stream, end)[received].calls = << >>
      BY <1>1, <1>3, <2>1, PartOfMessage
    <2>3. log' = log
      BY <1>1, <1>2, <2>2
    <2>4. cut' = cut \cup {received}
      BY <1>2, <2>1
    <2>5. Apart(stream, log, p, cut \cup {received})
      BY <1>1, <1>3, <1>5, CutDatagramApart
    <2> HIDE DEF x, p
    <2>6. StreamTypes'
      BY <1>1, <1>2, <1>5, <2>3 DEF StreamTypes
    <2> QED BY <1>2, <2>3, <2>4, <2>5, <2>6 DEF StreamInv
  <1> QED BY <1>6, <1>7

(* Every step preserves it. *)
LEMMA StreamNextInv == StreamInv /\ [StreamNext]_streamVars => StreamInv'
  <1> SUFFICES ASSUME StreamInv, [StreamNext]_streamVars PROVE StreamInv'
    OBVIOUS
  <1>1. CASE UNCHANGED streamVars
    BY <1>1 DEF streamVars, StreamInv, StreamTypes
  <1>2. ASSUME NEW n \in 1..StreamLength, Consume(n) PROVE StreamInv'
    BY <1>2, ConsumeInv
  <1>3. ASSUME NEW n \in 1..StreamLength, ConsumeDatagram(n) PROVE StreamInv'
    BY <1>3, ConsumeDatagramInv
  <1> QED BY <1>1, <1>2, <1>3 DEF StreamNext

(* So it always holds. *)
LEMMA StreamAlways == StreamSpec => []StreamInv
  BY StreamInitInv, StreamNextInv, PTL DEF StreamSpec

-----------------------------------------------------------------------------
(* The invariant implies that the segments do not matter. *)
LEMMA StreamInvChunking == StreamInv => ChunkingIrrelevant
  <1> SUFFICES ASSUME StreamInv, entry = "stream"
               PROVE  /\ IsPrefix(log, WholeFeed)
                      /\ (\A i \in DOMAIN log : stream[log[i].at].decoded) =>
                           \A i \in DOMAIN WholeFeed :
                             NextOffset(WholeFeed[i].at) <= received => i \in DOMAIN log
    BY DEF ChunkingIrrelevant
  <1> DEFINE w == Whole(stream)[0]
             v == Whole(stream)[start]
  <1>0. HeaderSize \in Nat \ {0} /\ StreamLength \in Nat /\ StreamLength \in 0..StreamLength
    BY StreamAssumption
  <1>1. /\ stream \in Feeds /\ received \in 0..StreamLength /\ start \in 0..received
        /\ log \in Seq(Calls) /\ InStep(stream, log, start, received) /\ start \in Nat
    BY <1>0 DEF StreamInv, StreamTypes
  <1>2. w = log \o v /\ (Decodes(stream, log) => Short(stream, start, received))
    BY <1>1 DEF InStep
  <1>3. WholeFeed = w
    BY WholeFeedIs
  <1>4. w \in Seq(Calls) /\ v \in Seq(Calls)
    BY <1>1, WholeIs
  <1>5. CallsBehind(stream, start, v)
    BY <1>1, WholeBehind
  <1> HIDE DEF w, v
  <1>6. IsPrefix(log, w)
    BY <1>1, <1>2, <1>4, PrefixOfConcat
  <1>7. ASSUME Decodes(stream, log), NEW i \in 1..Len(w), Past(stream, w[i].at) <= received
        PROVE  i \in 1..Len(log)
    <2> SUFFICES ASSUME i \notin 1..Len(log) PROVE FALSE
      OBVIOUS
    <2> DEFINE k == i - Len(log)
    <2>1. k \in 1..Len(v) /\ w[i] = v[k]
      BY <1>1, <1>2, <1>4
    <2>2. /\ v[k].at \in Nat /\ ~Short(stream, v[k].at, StreamLength)
          /\ Past(stream, v[k].at) >= Past(stream, start)
      BY <1>5, <2>1 DEF CallsBehind
    <2>3. v[1].at \in Nat /\ 1 \in 1..Len(v)
      BY <1>5, <2>1 DEF CallsBehind
    <2>4. ~Short(stream, start, StreamLength)
      <3>1. CASE Short(stream, start, StreamLength)
        <4>1. v = << >>
          BY <1>1, <3>1, WholeIs DEF v
        <4> QED BY <2>3, <4>1
      <3> QED BY <3>1
    <2>5. start \in 0..(StreamLength - 1) /\ Past(stream, start) >= start + HeaderSize
          /\ Past(stream, start) \in Nat
      BY <1>0, <1>1, <2>4, CompleteIs
    <2>6. Past(stream, v[k].at) \in Nat
      BY <1>0, <1>1, <2>2, CompleteIs
    <2>7. Past(stream, start) <= received
      BY <1>0, <1>1, <1>7, <2>1, <2>2, <2>5, <2>6
    <2>8. Short(stream, start, received)
      BY <1>2, <1>7
    <2>9. CASE NoHeader(start, received)
      BY <1>0, <1>1, <2>5, <2>7, <2>9 DEF NoHeader
    <2>10. CASE NoBody(stream, start, received)
      BY <1>0, <1>1, <2>5, <2>7, <2>10, ReadingIs DEF NoBody, Past
    <2> QED BY <2>8, <2>9, <2>10 DEF Short
  <1>8. DOMAIN log = 1..Len(log) /\ DOMAIN w = 1..Len(w)
    BY <1>1, <1>4
  <1>9. \A off : NextOffset(off) = Past(stream, off)
    BY DEF NextOffset, Past
  <1>10. (\A i \in DOMAIN log : stream[log[i].at].decoded) => Decodes(stream, log)
    BY <1>8 DEF Decodes
  <1> QED BY <1>3, <1>6, <1>7, <1>8, <1>9, <1>10

(* "A trailing partial message is buffered internally and completed on the  *)
(* next call": for every feed and every way to cut it into segments,       *)
(* consume dispatches the messages of the feed as a whole, in order and    *)
(* none twice, and none that is complete waits unless a header was bad.    *)
THEOREM SegmentsNeverMatter == StreamSpec => []ChunkingIrrelevant
  BY StreamAlways, StreamInvChunking, PTL

(* The invariant implies that a wrong length is confined. *)
LEMMA StreamInvConfined == StreamInv => LengthErrorConfined
  <1> DEFINE seen == {log[i].at : i \in DOMAIN log}
  <1> SUFFICES ASSUME StreamInv, entry = "stream",
                      NEW d \in {off \in seen : stream[off].decoded /\ ~stream[off].accepted},
                      NEW k \in FrameSizes
               PROVE  LET meant == Boundaries([stream EXCEPT ![d].size = k])
                          end   == d + stream[d].size
                      IN  /\ \A off \in seen : off < d => off \in meant
                          /\ \A off \in seen : ~(d < off /\ off < end)
                          /\ end \in meant =>
                               {off \in seen : off >= end}
                                 = {off \in meant : end <= off /\ off < start}
    BY DEF LengthErrorConfined
  <1> DEFINE t == [stream EXCEPT ![d].size = k]
             end == d + stream[d].size
             B == Bounds(stream)[0]
             M == Bounds(t)[0]
  <1>0. HeaderSize \in Nat \ {0} /\ StreamLength \in Nat
    BY StreamAssumption
  <1>1. /\ stream \in Feeds /\ log \in Seq(Calls) /\ InStep(stream, log, start, received)
        /\ start \in Nat
    BY <1>0 DEF StreamInv, StreamTypes
  <1>2. seen = Places(log)
    <2>1. DOMAIN log = 1..Len(log)
      BY <1>1
    <2> QED BY <2>1 DEF Places
  <1>3. B = Places(log) \cup Bounds(stream)[start] /\ \A x \in Places(log) : x \in Nat /\ x < start
    BY <1>1 DEF InStep
  <1>4. \A x \in Bounds(stream)[start] : x \in Nat /\ x >= start
    BY <1>1, BoundsBehind
  <1>5. \A x : x \in seen <=> x \in B /\ x < start
    BY <1>1, <1>2, <1>3, <1>4
  <1>6. d \in seen /\ stream[d].decoded
    OBVIOUS
  <1> HIDE DEF seen
  <1>7. d \in B /\ d \in Nat /\ d < start
    BY <1>2, <1>3, <1>6
  <1>8. ~NoHeader(d, StreamLength) /\ d \in 0..(StreamLength - 1)
    <2>1. ~NoHeader(d, StreamLength)
      BY <1>1, <1>7, BoundsBehind
    <2> QED BY <1>1, <1>7, <2>1, HeaderIs
  <1>9. stream[d].size \in Nat /\ stream[d].size >= HeaderSize /\ end = Past(stream, d)
        /\ end \in Nat /\ end > d
    BY <1>0, <1>1, <1>6, <1>7, <1>8, ReadingIs DEF Past
  <1>10. t \in Feeds /\ \A i \in 0..(StreamLength - 1) : i # d => stream[i] = t[i]
    <2>1. stream[d] \in Reading /\ stream[d] # Undecodable
      BY <1>1, <1>6, <1>8 DEF Feeds, Undecodable
    <2>2. stream[d] \in [decoded : {TRUE}, size : FrameSizes, accepted : BOOLEAN]
      BY <2>1 DEF Reading
    <2>3. [stream[d] EXCEPT !.size = k] \in [decoded : {TRUE}, size : FrameSizes, accepted : BOOLEAN]
      BY <2>2
    <2>4. [stream[d] EXCEPT !.size = k] \in Reading
      BY <2>3 DEF Reading
    <2> DEFINE x == [stream[d] EXCEPT !.size = k]
    <2>5. t = [stream EXCEPT ![d] = x]
      BY <1>1, <1>8 DEF Feeds
    <2> HIDE DEF x
    <2>6. [stream EXCEPT ![d] = x] \in Feeds
      BY <1>1, <2>4 DEF Feeds, x
    <2>7. \A i \in 0..(StreamLength - 1) : i # d => stream[i] = [stream EXCEPT ![d] = x][i]
      BY <1>1 DEF Feeds
    <2> QED BY <2>5, <2>6, <2>7
  <1> HIDE DEF t, end
  <1>11. Boundaries(t) = M
    BY BoundariesIs
  <1>12. \A off \in seen : off < d => off \in M
    <2> SUFFICES ASSUME NEW off \in seen, off < d PROVE off \in M
      OBVIOUS
    <2>1. off \in B /\ off \in Nat /\ off <= d
      BY <1>2, <1>3, <1>7
    <2> QED BY <1>1, <1>7, <1>10, <2>1, SameBefore
  <1>13. Bounds(stream)[d] = {d} \cup Bounds(stream)[end]
    BY <1>1, <1>7, <1>8, <1>9, BoundsIs
  <1>14. \A x : x \in B /\ x >= d <=> x \in Bounds(stream)[d]
    BY <1>1, <1>7, BoundsFromBoundary
  <1>15. \A x \in Bounds(stream)[end] : x \in Nat /\ x >= end
    BY <1>1, <1>9, BoundsBehind
  <1>16. \A off \in seen : ~(d < off /\ off < end)
    <2> SUFFICES ASSUME NEW off \in seen, d < off, off < end PROVE FALSE
      OBVIOUS
    <2>1. off \in B /\ off \in Nat
      BY <1>2, <1>3
    <2>2. off \in Bounds(stream)[end]
      BY <1>7, <1>13, <1>14, <2>1
    <2> QED BY <1>9, <1>15, <2>1, <2>2
  <1>17. ASSUME end \in M
         PROVE  {off \in seen : off >= end} = {off \in M : end <= off /\ off < start}
    <2>1. Bounds(stream)[end] = Bounds(t)[end]
      BY <1>1, <1>7, <1>9, <1>10, SameBehind
    <2>2. \A x : x \in M /\ x >= end <=> x \in Bounds(t)[end]
      BY <1>10, <1>17, BoundsFromBoundary
    <2>3. ASSUME NEW x \in seen, x >= end PROVE x \in M /\ end <= x /\ x < start
      <3>1. x \in B /\ x \in Nat /\ x < start
        BY <1>2, <1>3, <2>3
      <3>2. x >= d /\ x # d
        BY <1>7, <1>9, <2>3, <3>1
      <3>3. x \in Bounds(stream)[end]
        BY <1>13, <1>14, <3>1, <3>2
      <3> QED BY <1>9, <2>1, <2>2, <2>3, <3>1, <3>3
    <2>4. ASSUME NEW x \in M, end <= x, x < start PROVE x \in seen /\ x >= end
      <3>1. x \in Nat
        BY <1>10, BoundsBehind
      <3>2. x >= end /\ x \in Bounds(stream)[end]
        BY <1>9, <2>1, <2>2, <2>4, <3>1
      <3> QED BY <1>5, <1>13, <1>14, <2>4, <3>2
    <2> QED BY <2>3, <2>4
  <1> QED BY <1>11, <1>12, <1>16, <1>17 DEF t, end

(* "trust the declared length to resync": for every feed and every way to   *)
(* cut it, a message that parse refuses because of its length costs no     *)
(* more than the bytes that it spans.                                      *)
THEOREM LengthErrorsAlwaysConfined == StreamSpec => []LengthErrorConfined
  BY StreamAlways, StreamInvConfined, PTL

(* The invariant implies that datagrams do not affect each other. *)
LEMMA StreamInvIsolated == StreamInv => DatagramsIsolated
  <1> SUFFICES ASSUME StreamInv, entry = "datagram"
               PROVE  /\ \A i \in DOMAIN WholeFeed :
                           WholeFeed[i].at < received /\ WholeFeed[i].at \notin cut =>
                             Cardinality({j \in DOMAIN log : log[j] = WholeFeed[i]}) = 1
                      /\ \A j \in DOMAIN log :
                           log[j].kind = "message" => log[j].at \notin cut
    BY DEF DatagramsIsolated
  <1> DEFINE w == Whole(stream)[0]
             v == Whole(stream)[received]
  <1>0. StreamLength \in Nat
    BY StreamAssumption
  <1>1. /\ stream \in Feeds /\ received \in Nat /\ log \in Seq(Calls)
        /\ Apart(stream, log, received, cut)
    BY <1>0 DEF StreamInv, StreamTypes
  <1>2. PICK u : DispatchedTo(stream, log, received, cut, u)
    BY <1>1 DEF Apart
  <1>3. /\ u \in Seq(Calls) /\ w = u \o v
        /\ \A i \in 1..Len(u) : u[i].at \in cut \/ \E j \in 1..Len(log) : log[j] = u[i]
    BY <1>2 DEF DispatchedTo
  <1>4. /\ \A j \in 1..Len(log) : log[j].at \notin cut /\ log[j].at \in Nat
        /\ \A j, k \in 1..Len(log) : j < k => log[j].at < log[k].at
    <2>1. \A j \in 1..Len(log) : log[j] \in Calls
      BY <1>1
    <2>2. \A j \in 1..Len(log) : log[j].at \in Nat
      BY <2>1 DEF Calls
    <2> HIDE DEF Calls
    <2> QED BY <1>1, <2>2 DEF Apart
  <1>5. WholeFeed = w
    BY WholeFeedIs
  <1>6. w \in Seq(Calls) /\ v \in Seq(Calls)
    BY <1>1, WholeIs
  <1>7. CallsBehind(stream, received, v)
    BY <1>1, WholeBehind
  <1> HIDE DEF w, v
  <1>8. DOMAIN log = 1..Len(log) /\ DOMAIN w = 1..Len(w)
    BY <1>1, <1>6
  <1>9. ASSUME NEW i \in 1..Len(w), w[i].at < received, w[i].at \notin cut
        PROVE  Cardinality({j \in 1..Len(log) : log[j] = w[i]}) = 1
    <2>1. i \in 1..Len(u) /\ w[i] = u[i]
      <3>1. CASE i \in 1..Len(u)
        BY <1>3, <1>6, <3>1
      <3>2. CASE i \notin 1..Len(u)
        <4>1. i - Len(u) \in 1..Len(v) /\ w[i] = v[i - Len(u)]
          BY <1>3, <1>6, <3>2
        <4>2. w[i].at \in Nat /\ w[i].at >= received
          BY <1>7, <4>1 DEF CallsBehind
        <4> QED BY <1>1, <1>9, <4>2
      <3> QED BY <3>1, <3>2
    <2>2. PICK j \in 1..Len(log) : log[j] = w[i]
      BY <1>3, <1>9, <2>1
    <2>3. \A k \in 1..Len(log) : log[k] = w[i] => k = j
      <3> SUFFICES ASSUME NEW k \in 1..Len(log), log[k] = w[i], k # j PROVE FALSE
        OBVIOUS
      <3>1. k < j \/ j < k
        BY <1>1
      <3>2. log[k].at = log[j].at /\ log[k].at \in Nat
        BY <1>4, <2>2
      <3> QED BY <1>4, <3>1, <3>2
    <2>4. {k \in 1..Len(log) : log[k] = w[i]} = {j}
      BY <2>2, <2>3
    <2> QED BY <2>4, FS_Singleton
  <1> QED BY <1>4, <1>5, <1>8, <1>9

(* "each datagram is self-contained; no residual is carried across calls":  *)
(* for every feed and every choice of datagrams that come truncated.       *)
THEOREM DatagramsAlwaysIsolated == StreamSpec => []DatagramsIsolated
  BY StreamAlways, StreamInvIsolated, PTL

-----------------------------------------------------------------------------
(* What is taken of calls as messages: one by one, up to each place. *)
Takes(q, f) ==
  f = [i \in 0..Len(q) |->
         IF i = 0 THEN << >>
         ELSE IF q[i].kind = "message" THEN Append(f[i - 1], q[i])
         ELSE f[i - 1]]
Taken(q) == CHOOSE f : Takes(q, f)

(* MessagesOf is what is taken up to the end. *)
LEMMA MessagesOfIs ==
  ASSUME NEW q
  PROVE  MessagesOf(q) = Taken(q)[Len(q)]
  BY DEF MessagesOf, Taken, Takes

(* The equations of Taken. *)
LEMMA TakenIs ==
  ASSUME NEW q \in Seq(Calls)
  PROVE  /\ Taken(q)[0] = << >>
         /\ \A i \in 1..Len(q) :
              Taken(q)[i] = IF q[i].kind = "message" THEN Append(Taken(q)[i - 1], q[i])
                            ELSE Taken(q)[i - 1]
  <1> DEFINE X == Seq(Calls)
             L == Len(q)
             step == [c \in (1..L) \X X |->
                        IF q[c[1]].kind = "message" THEN Append(c[2], q[c[1]]) ELSE c[2]]
  <1>0. L \in Nat
    OBVIOUS
  <1>1. step \in [(1..L) \X X -> X]
    <2>1. ASSUME NEW c \in (1..L) \X X
          PROVE  (IF q[c[1]].kind = "message" THEN Append(c[2], q[c[1]]) ELSE c[2]) \in X
      <3>1. c[1] \in 1..L /\ c[2] \in Seq(Calls) /\ q[c[1]] \in Calls
        OBVIOUS
      <3>2. Append(c[2], q[c[1]]) \in Seq(Calls)
        BY <3>1
      <3> QED BY <3>1, <3>2
    <2> HIDE DEF X
    <2> QED BY <2>1
  <1>2. \A i \in 1..L, x \in X :
          step[<<i, x>>] = IF q[i].kind = "message" THEN Append(x, q[i]) ELSE x
    OBVIOUS
  <1>3. << >> \in X
    OBVIOUS
  <1> HIDE DEF X, step, L
  <1>4. PICK f : CountsUp(X, L, << >>, step, f)
    BY <1>0, <1>1, <1>3, CountUpExists
  <1>5. f \in [0..L -> X] /\ f[0] = << >> /\ \A i \in 1..L : f[i] = step[<<i, f[i - 1]>>]
    BY <1>4 DEF CountsUp
  <1>6. \A i \in 1..L :
          f[i] = IF q[i].kind = "message" THEN Append(f[i - 1], q[i]) ELSE f[i - 1]
    <2> SUFFICES ASSUME NEW i \in 1..L
                 PROVE  f[i] = IF q[i].kind = "message" THEN Append(f[i - 1], q[i]) ELSE f[i - 1]
      OBVIOUS
    <2>1. f[i - 1] \in X
      <3>1. i - 1 \in 0..L
        BY <1>0
      <3> QED BY <1>5, <3>1
    <2> QED BY <1>2, <1>5, <2>1
  <1>7. ASSUME NEW i \in 0..L
        PROVE  f[i] = IF i = 0 THEN << >>
                      ELSE IF q[i].kind = "message" THEN Append(f[i - 1], q[i])
                      ELSE f[i - 1]
    <2>1. i = 0 \/ i \in 1..L
      BY <1>0
    <2> QED BY <1>5, <1>6, <2>1
  <1>8. Takes(q, f)
    BY <1>5, <1>7 DEF Takes, L
  <1>9. Takes(q, Taken(q))
    BY <1>8 DEF Taken
  <1>10. ASSUME NEW i \in 0..L
         PROVE  Taken(q)[i] = IF i = 0 THEN << >>
                              ELSE IF q[i].kind = "message" THEN Append(Taken(q)[i - 1], q[i])
                              ELSE Taken(q)[i - 1]
    BY <1>9 DEF Takes, L
  <1>11. 0 \in 0..L /\ \A i \in 1..L : i \in 0..L /\ i # 0
    BY <1>0
  <1> QED BY <1>10, <1>11 DEF L

(* A last callback that is no message makes no difference. *)
LEMMA MalformedNotTaken ==
  ASSUME NEW q \in Seq(Calls), NEW c \in Calls, c.kind # "message"
  PROVE  MessagesOf(q \o <<c>>) = MessagesOf(q)
  <1> DEFINE r == q \o <<c>>
             S == {i \in 0..Len(q) : Taken(r)[i] = Taken(q)[i]}
  <1>1. /\ r \in Seq(Calls) /\ Len(r) = Len(q) + 1 /\ r[Len(r)] = c /\ Len(q) \in Nat
        /\ \A i \in 1..Len(q) : r[i] = q[i]
    OBVIOUS
  <1> HIDE DEF r
  <1>2. 0 \in S
    BY <1>1, TakenIs
  <1>3. ASSUME NEW i \in 0..(Len(q) - 1), i \in S PROVE i + 1 \in S
    <2>1. i + 1 \in 1..Len(q) /\ i + 1 \in 1..Len(r) /\ (i + 1) - 1 = i
      BY <1>1
    <2>2. Taken(q)[i + 1] = IF q[i + 1].kind = "message" THEN Append(Taken(q)[i], q[i + 1])
                            ELSE Taken(q)[i]
      BY <2>1, TakenIs
    <2>3. Taken(r)[i + 1] = IF r[i + 1].kind = "message" THEN Append(Taken(r)[i], r[i + 1])
                            ELSE Taken(r)[i]
      BY <1>1, <2>1, TakenIs
    <2> QED BY <1>1, <1>3, <2>1, <2>2, <2>3
  <1>4. Len(q) \in S
    <2>1. \A i \in 0..Len(q) : i \in S
      <3> HIDE DEF S
      <3> QED BY <1>1, <1>2, <1>3, BoundedInduction
    <2>2. Len(q) \in 0..Len(q)
      BY <1>1
    <2> HIDE DEF S
    <2> QED BY <2>1, <2>2
  <1>5. Len(r) \in 1..Len(r) /\ Len(r) - 1 = Len(q)
    BY <1>1
  <1>6. Taken(r)[Len(r)] = Taken(r)[Len(q)]
    BY <1>1, <1>5, TakenIs
  <1>7. Taken(r)[Len(r)] = Taken(q)[Len(q)]
    BY <1>4, <1>6
  <1> QED BY <1>7, MessagesOfIs DEF r

(* The paced replay, from each place on. *)
Stuck(s, off) == Short(s, off, StreamLength) \/ ~s[off].decoded
TimedWalk(s, w) ==
  w = [off \in Nat |-> IF Stuck(s, off) THEN << >>
                       ELSE Parses(s, Past(s, off))[off].calls \o w[Past(s, off)]]
Timed(s) == CHOOSE w : TimedWalk(s, w)

(* TimedReplay is that from the first place on. *)
LEMMA TimedReplayIs == TimedReplay = Timed(stream)[0]
  <1>1. \A off : NextOffset(off) = Past(stream, off) /\ (Unframeable(off) <=> Stuck(stream, off))
    BY DEF NextOffset, Past, Unframeable, Stuck, Short, NoHeader, NoBody, Incomplete
  <1>2. \A off : Parse(off, Past(stream, off)) = Parses(stream, Past(stream, off))[off]
    BY ParseIs
  <1>3. \A w : w = [off \in Nat |-> IF Unframeable(off) THEN << >>
                                    ELSE Parse(off, NextOffset(off)).calls \o w[NextOffset(off)]]
                 <=> TimedWalk(stream, w)
    BY <1>1, <1>2 DEF TimedWalk
  <1> QED BY <1>3 DEF TimedReplay, Timed

(* The equations of the paced replay: one callback per frame. *)
LEMMA TimedIs ==
  ASSUME NEW s \in Feeds
  PROVE  /\ \A off \in Nat : Stuck(s, off) => Timed(s)[off] = << >>
         /\ \A off \in Nat : ~Stuck(s, off) =>
              Timed(s)[off] = <<Call(s, off)>> \o Timed(s)[Past(s, off)]
  <1> DEFINE stop == {off \in Nat : Stuck(s, off)}
             head == [off \in Nat |-> IF Stuck(s, off) THEN << >> ELSE <<Call(s, off)>>]
             past == [off \in Nat |-> IF Stuck(s, off) THEN 0 ELSE Past(s, off)]
  <1>0. StreamLength \in Nat /\ HeaderSize \in Nat \ {0} /\ StreamLength \in 0..StreamLength
    BY StreamAssumption
  <1>1. stop \in SUBSET Nat /\ \A i \in Nat : i >= StreamLength => i \in stop
    <2>1. \A i \in Nat : i >= StreamLength => NoHeader(i, StreamLength)
      BY <1>0 DEF NoHeader
    <2> QED BY <2>1 DEF Stuck, Short
  <1>2. ASSUME NEW off \in Nat, ~Stuck(s, off)
        PROVE  /\ ~Short(s, off, StreamLength)
               /\ Call(s, off) \in Calls /\ Past(s, off) \in Nat /\ Past(s, off) > off
               /\ Parses(s, Past(s, off))[off].calls = <<Call(s, off)>>
    <2>1. ~Short(s, off, StreamLength)
      BY <1>2 DEF Stuck
    <2> QED BY <1>0, <2>1, CompleteIs, OneMessage
  <1>3. head \in [Nat -> Seq(Calls)]
    BY <1>2
  <1>4. past \in [Nat -> Nat] /\ \A i \in Nat : i \notin stop => past[i] > i
    BY <1>2
  <1>5. PICK w : JoinWalk(Calls, stop, head, past, w)
    <2> HIDE DEF stop, head, past
    <2> QED BY <1>0, <1>1, <1>3, <1>4, JoinWalkExists
  <1>6. /\ w \in [Nat -> Seq(Calls)]
        /\ \A i \in Nat : w[i] = IF i \in stop THEN << >> ELSE head[i] \o w[past[i]]
    BY <1>5 DEF JoinWalk
  <1>7. ASSUME NEW off \in Nat
        PROVE  w[off] = IF Stuck(s, off) THEN << >>
                        ELSE Parses(s, Past(s, off))[off].calls \o w[Past(s, off)]
    BY <1>2, <1>6
  <1>8. TimedWalk(s, w)
    BY <1>6, <1>7 DEF TimedWalk
  <1>9. TimedWalk(s, Timed(s))
    BY <1>8 DEF Timed
  <1>10. ASSUME NEW off \in Nat
         PROVE  Timed(s)[off] = IF Stuck(s, off) THEN << >>
                                ELSE Parses(s, Past(s, off))[off].calls \o Timed(s)[Past(s, off)]
    BY <1>9 DEF TimedWalk
  <1> QED BY <1>2, <1>10

(* At MaxSpeed the same callbacks come, and perhaps one more, about a bad   *)
(* header.                                                                 *)
OneMore(a, b) == a = b \/ \E c \in Calls : c.kind # "message" /\ a = b \o <<c>>

(* From every place on. *)
LEMMA ModesDifferByOne ==
  ASSUME NEW s \in Feeds, NEW off \in 0..StreamLength
  PROVE  /\ Timed(s)[off] \in Seq(Calls)
         /\ OneMore(Parses(s, StreamLength)[off].calls, Timed(s)[off])
  <1> DEFINE w == Parses(s, StreamLength)
             P(i) == Timed(s)[i] \in Seq(Calls) /\ OneMore(w[i].calls, Timed(s)[i])
             S == {i \in 0..StreamLength : P(i)}
  <1>0. StreamLength \in Nat /\ StreamLength \in 0..StreamLength
    BY StreamAssumption
  <1>1. ASSUME NEW i \in 0..StreamLength, \A j \in (i + 1)..StreamLength : j \in S PROVE P(i)
    <2>0. i \in Nat /\ << >> \in Seq(Calls)
      OBVIOUS
    <2>1. CASE Short(s, i, StreamLength)
      <3>1. w[i] = Stopped(i) /\ Timed(s)[i] = << >>
        BY <1>0, <2>0, <2>1, ParsesIs, TimedIs DEF Stuck
      <3>2. Stopped(i).calls = << >>
        BY DEF Stopped
      <3> QED BY <2>0, <3>1, <3>2 DEF OneMore
    <2>2. CASE ~Short(s, i, StreamLength)
      <3> DEFINE p == Past(s, i)
                 c == Call(s, i)
      <3>1. c \in Calls /\ p \in (i + 1)..StreamLength /\ p \in Nat
        BY <1>0, <2>0, <2>2, CompleteIs
      <3>2. CASE ~s[i].decoded
        <4>1. w[i] = BadHeader(s, i) /\ Timed(s)[i] = << >>
          BY <1>0, <2>0, <2>2, <3>2, ParsesIs, TimedIs DEF Stuck
        <4>2. BadHeader(s, i).calls = <<c>>
          BY DEF BadHeader
        <4>3. c.kind # "message"
          BY <3>2 DEF Call
        <4> HIDE DEF c
        <4>4. << >> \o <<c>> = <<c>>
          BY <3>1
        <4> QED BY <2>0, <3>1, <4>1, <4>2, <4>3, <4>4 DEF OneMore
      <3>3. CASE s[i].decoded
        <4> DEFINE t == Timed(s)[p]
                   q == w[p].calls
        <4>1. w[i] = Onward(s, i, w[p]) /\ Timed(s)[i] = <<c>> \o t
          BY <1>0, <2>0, <2>2, <3>3, ParsesIs, TimedIs DEF Stuck
        <4>2. t \in Seq(Calls) /\ OneMore(q, t)
          BY <1>1, <3>1
        <4>3. p \in 0..StreamLength
          BY <2>0, <3>1
        <4>4. w[p] \in Result
          BY <1>0, <4>3, ParsesSplits DEF Splits
        <4>5. Onward(s, i, w[p]) = [calls |-> <<c>> \o q, stop |-> w[p].stop]
          <5> DEFINE r == w[p]
          <5>1. Call(s, i) \in Calls /\ r \in Result
            BY <3>1, <4>4
          <5> HIDE DEF r
          <5>2. Onward(s, i, r) = [calls |-> <<Call(s, i)>> \o r.calls, stop |-> r.stop]
            BY <5>1, OnwardIs
          <5> QED BY <5>2 DEF r
        <4>6. w[i].calls = <<c>> \o q
          BY <4>1, <4>5
        <4> HIDE DEF c, t, q, w
        <4>7. <<c>> \in Seq(Calls) /\ <<c>> \o t \in Seq(Calls)
          BY <3>1, <4>2
        <4>8. OneMore(<<c>> \o q, <<c>> \o t)
          <5>1. CASE q = t
            BY <5>1 DEF OneMore
          <5>2. CASE q # t
            <6>1. PICK d \in Calls : d.kind # "message" /\ q = t \o <<d>>
              BY <4>2, <5>2 DEF OneMore
            <6>2. <<d>> \in Seq(Calls)
              OBVIOUS
            <6>3. <<c>> \o (t \o <<d>>) = (<<c>> \o t) \o <<d>>
              BY <4>2, <4>7, <6>2, CallsRegroup
            <6> QED BY <6>1, <6>3 DEF OneMore
          <5> QED BY <5>1, <5>2
        <4> QED BY <4>1, <4>6, <4>7, <4>8
      <3> QED BY <3>2, <3>3
    <2> QED BY <2>1, <2>2
  <1>2. \A i \in 0..StreamLength : (\A j \in (i + 1)..StreamLength : j \in S) => i \in S
    BY <1>1
  <1>3. \A i \in 0..StreamLength : i \in S
    <2> HIDE DEF S
    <2> QED BY <1>0, <1>2, DownwardInduction
  <1> QED BY <1>3

(* Every feed gives the same messages in both modes. *)
LEMMA StreamInvModes == StreamInv => ReplayModesAgree
  <1> SUFFICES ASSUME StreamInv PROVE MessagesOf(TimedReplay) = MessagesOf(MaxSpeedReplay)
    BY DEF ReplayModesAgree
  <1> DEFINE t == Timed(stream)[0]
             q == Parses(stream, StreamLength)[0].calls
  <1>1. stream \in Feeds /\ 0 \in 0..StreamLength
    BY StreamAssumption DEF StreamInv, StreamTypes
  <1>2. TimedReplay = t /\ MaxSpeedReplay = q
    BY TimedReplayIs, ParseIs DEF MaxSpeedReplay
  <1>3. t \in Seq(Calls) /\ OneMore(q, t)
    BY <1>1, ModesDifferByOne
  <1> HIDE DEF t, q
  <1>4. MessagesOf(q) = MessagesOf(t)
    BY <1>3, MalformedNotTaken DEF OneMore
  <1> QED BY <1>2, <1>4

(* replay: whatever a capture holds, bad headers and a torn end included,   *)
(* MaxSpeed and the paced modes give the book builder the same messages.   *)
THEOREM ReplayModesAlwaysAgree == StreamSpec => []ReplayModesAgree
  BY StreamAlways, StreamInvModes, PTL

-----------------------------------------------------------------------------
(* Numbers and bytes.                                                      *)

Byte == 0..(ByteRange - 1)

(* A byte has more values than there are types. *)
LEMMA ByteRangeIs == ByteRange \in Nat /\ ByteRange > 5 /\ MaxSnapshotLevels \in Nat \ {0}
  <1>1. Len(Types) = 5
    BY DEF Types
  <1> QED BY <1>1, CodecAssumption

(* A number modulo B * p: what it is modulo p, and one more digit. *)
LEMMA NextDigit ==
  ASSUME NEW v \in Nat, NEW p \in Nat \ {0}, NEW b \in Nat \ {0}
  PROVE  v % (b * p) = (v % p) + ((v \div p) % b) * p
  <1> DEFINE q == v \div p
             r == v % p
             d == q \div b
             s == q % b
             m == b * p
  <1>1. v = p * q + r /\ q \in Int /\ r \in 0..(p - 1)
    OBVIOUS
  <1>2. q = b * d + s /\ d \in Int /\ s \in 0..(b - 1)
    OBVIOUS
  <1>3. m \in Nat /\ m > 0
    OBVIOUS
  <1>4. v % m \in 0..(m - 1) /\ v \div m \in Int /\ v = m * (v \div m) + (v % m)
    BY <1>3
  <1> DEFINE x == v % m
             y == v \div m
             z == r + s * p
  <1>5. x \in 0..(m - 1) /\ y \in Int /\ v = m * y + x
    BY <1>4
  <1> HIDE DEF q, r, d, s, x, y
  <1>6. v = m * d + z
    <2>1. p * q = p * (b * d) + p * s
      BY <1>1, <1>2
    <2>2. p * (b * d) = m * d /\ p * s = s * p
      BY <1>2
    <2>3. p * (b * d) \in Int /\ p * s \in Int
      BY <1>2
    <2> HIDE DEF m
    <2> QED BY <1>1, <2>1, <2>2, <2>3
  <1>7. z \in 0..(m - 1)
    <2>1. s * p \in Nat /\ s * p <= (b - 1) * p
      BY <1>2
    <2>2. (b - 1) * p = m - p
      OBVIOUS
    <2> HIDE DEF m
    <2> QED BY <1>1, <1>3, <2>1, <2>2
  <1> HIDE DEF m, z
  <1>8. x = z
    BY <1>2, <1>3, <1>5, <1>6, <1>7, RemainderUnique
  <1> QED BY <1>8 DEF x, z, r, s, q, m

(* The weights of the bytes of a scalar. *)
LEMMA WeightIs ==
  /\ Weight \in [0..8 -> Nat \ {0}] /\ Weight[0] = 1
  /\ \A i \in 1..8 : Weight[i] = ByteRange * Weight[i - 1]
  <1> DEFINE X == Nat \ {0}
             step == [c \in (1..8) \X X |-> ByteRange * c[2]]
             Weighs(f) == f = [i \in 0..8 |-> IF i = 0 THEN 1 ELSE ByteRange * f[i - 1]]
  <1>0. ByteRange \in X /\ 1 \in X /\ 8 \in Nat
    BY ByteRangeIs
  <1>1. step \in [(1..8) \X X -> X] /\ \A i \in 1..8, x \in X : step[<<i, x>>] = ByteRange * x
    <2>1. \A x \in X : ByteRange * x \in X
      BY <1>0
    <2> HIDE DEF X
    <2> QED BY <2>1
  <1> HIDE DEF X, step
  <1>2. PICK f : CountsUp(X, 8, 1, step, f)
    BY <1>0, <1>1, CountUpExists
  <1>3. f \in [0..8 -> X] /\ f[0] = 1 /\ \A i \in 1..8 : f[i] = step[<<i, f[i - 1]>>]
    BY <1>2 DEF CountsUp
  <1>4. Weighs(f)
    <2>1. ASSUME NEW i \in 0..8, i # 0 PROVE f[i] = ByteRange * f[i - 1]
      <3>1. i \in 1..8 /\ i - 1 \in 0..8
        BY <2>1
      <3> QED BY <1>1, <1>3, <3>1
    <2>2. f = [i \in 0..8 |-> f[i]]
      BY <1>3
    <2> QED BY <1>3, <2>1, <2>2
  <1>5. Weighs(Weight)
    <2>1. Weight = CHOOSE g : Weighs(g)
      BY DEF Weight
    <2> HIDE DEF Weighs
    <2> QED BY <1>4, <2>1
  <1>6. DOMAIN Weight = 0..8 /\ Weight[0] = 1
        /\ \A i \in 1..8 : Weight[i] = ByteRange * Weight[i - 1]
    <2> HIDE DEF Weight
    <2> DEFINE w == Weight
    <2>1. w = [i \in 0..8 |-> IF i = 0 THEN 1 ELSE ByteRange * w[i - 1]]
      BY <1>5
    <2> HIDE DEF w
    <2>2. \A i \in 1..8 : i \in 0..8 /\ i # 0
      OBVIOUS
    <2>3. DOMAIN w = 0..8 /\ w[0] = 1 /\ \A i \in 1..8 : w[i] = ByteRange * w[i - 1]
      BY <2>1, <2>2
    <2> QED BY <2>3 DEF w
  <1> HIDE DEF Weight, Weighs
  <1> DEFINE S == {i \in 0..8 : Weight[i] \in X}
  <1>7. \A i \in 0..8 : i \in S
    <2>1. 0 \in S
      BY <1>0, <1>6
    <2>2. \A i \in 0..7 : i \in S => i + 1 \in S
      <3> SUFFICES ASSUME NEW i \in 0..7, i \in S PROVE i + 1 \in S
        OBVIOUS
      <3>1. i + 1 \in 1..8 /\ i + 1 \in 0..8 /\ (i + 1) - 1 = i
        OBVIOUS
      <3>2. Weight[i + 1] = ByteRange * Weight[i]
        BY <1>6, <3>1
      <3> QED BY <1>0, <3>1, <3>2 DEF X
    <2>3. 8 - 1 = 7
      OBVIOUS
    <2> HIDE DEF S
    <2> QED BY <1>0, <2>1, <2>2, <2>3, BoundedInduction
  <1>8. Weight = [i \in 0..8 |-> Weight[i]]
    BY <1>5, <1>6 DEF Weighs
  <1> QED BY <1>6, <1>7, <1>8 DEF X

(* u has what load_le has assembled after 0, 1, ... bytes. *)
Assembles(bytes, off, width, u) ==
  /\ u \in [0..width -> Nat] /\ u[0] = 0
  /\ \A i \in 1..width : u[i] = u[i - 1] + ByteIn(bytes, off + i) * Weight[i - 1]

(* A byte that is not there is read as 0. *)
LEMMA ByteInIs ==
  ASSUME NEW bytes \in Seq(Byte), NEW i \in Nat
  PROVE  ByteIn(bytes, i) \in Byte /\ ByteIn(bytes, i) \in Nat
  BY ByteRangeIs DEF ByteIn, Byte

(* load_le is what it has assembled in the end. *)
LEMMA LoadIs ==
  ASSUME NEW bytes \in Seq(Byte), NEW off \in Nat, NEW width \in 0..8
  PROVE  \E u : Assembles(bytes, off, width, u) /\ LoadLE(bytes, off, width) = u[width]
  <1> DEFINE X == Nat
             add(i) == ByteIn(bytes, off + i) * Weight[i - 1]
             step == [c \in (1..width) \X X |-> c[2] + add(c[1])]
             Does(u) == u = [i \in 0..width |-> IF i = 0 THEN 0 ELSE u[i - 1] + add(i)]
             it == CHOOSE u : Does(u)
  <1>0. width \in Nat /\ 0 \in X
    OBVIOUS
  <1>1. ASSUME NEW i \in 1..width PROVE add(i) \in Nat
    <2>1. off + i \in Nat /\ i - 1 \in 0..8
      OBVIOUS
    <2>2. ByteIn(bytes, off + i) \in Nat /\ Weight[i - 1] \in Nat
      BY <2>1, ByteInIs, WeightIs
    <2> QED BY <2>2
  <1>2. LoadLE(bytes, off, width) = it[width]
    BY DEF LoadLE
  <1> HIDE DEF add
  <1>3. /\ step \in [(1..width) \X X -> X]
        /\ \A i \in 1..width, x \in X : step[<<i, x>>] = x + add(i)
    <2>1. \A i \in 1..width, x \in X : x + add(i) \in X
      BY <1>1
    <2>2. \A c \in (1..width) \X X : c[2] + add(c[1]) \in X
      BY <2>1
    <2> HIDE DEF X
    <2> QED BY <2>2
  <1> HIDE DEF X, step
  <1>4. PICK f : CountsUp(X, width, 0, step, f)
    BY <1>0, <1>3, CountUpExists
  <1>5. f \in [0..width -> X] /\ f[0] = 0 /\ \A i \in 1..width : f[i] = step[<<i, f[i - 1]>>]
    BY <1>4 DEF CountsUp
  <1>6. Does(f)
    <2>1. ASSUME NEW i \in 0..width, i # 0 PROVE f[i] = f[i - 1] + add(i)
      <3>1. i \in 1..width /\ i - 1 \in 0..width
        BY <2>1
      <3> QED BY <1>3, <1>5, <3>1
    <2>2. f = [i \in 0..width |-> f[i]]
      BY <1>5
    <2> QED BY <1>5, <2>1, <2>2
  <1>7. Does(it)
    <2> HIDE DEF Does
    <2> QED BY <1>6
  <1> HIDE DEF it
  <1>8. DOMAIN it = 0..width /\ it[0] = 0 /\ \A i \in 1..width : it[i] = it[i - 1] + add(i)
    <2>1. \A i \in 1..width : i \in 0..width /\ i # 0
      OBVIOUS
    <2>2. 0 \in 0..width
      OBVIOUS
    <2> QED BY <1>7, <2>1, <2>2
  <1> DEFINE S == {i \in 0..width : it[i] \in Nat}
  <1>9. \A i \in 0..width : i \in S
    <2>1. 0 \in S
      BY <1>8
    <2>2. \A i \in 0..(width - 1) : i \in S => i + 1 \in S
      <3> SUFFICES ASSUME NEW i \in 0..(width - 1), i \in S PROVE i + 1 \in S
        OBVIOUS
      <3>1. i + 1 \in 1..width /\ i + 1 \in 0..width /\ (i + 1) - 1 = i
        OBVIOUS
      <3> QED BY <1>1, <1>8, <3>1
    <2> HIDE DEF S
    <2> QED BY <1>0, <2>1, <2>2, BoundedInduction
  <1>10. it = [i \in 0..width |-> it[i]]
    BY <1>7, <1>8
  <1> QED BY <1>2, <1>8, <1>9, <1>10 DEF Assembles, add

(* The bytes at a place have a value that fits the width. *)
LEMMA LoadType ==
  ASSUME NEW bytes \in Seq(Byte), NEW off \in Nat, NEW width \in 0..8
  PROVE  LoadLE(bytes, off, width) \in Nat
  <1>1. PICK u : Assembles(bytes, off, width, u) /\ LoadLE(bytes, off, width) = u[width]
    BY LoadIs
  <1> QED BY <1>1 DEF Assembles

(* It depends on these bytes alone. *)
LEMMA LoadLocal ==
  ASSUME NEW a \in Seq(Byte), NEW b \in Seq(Byte), NEW off \in Nat, NEW at \in Nat,
         NEW width \in 0..8,
         \A i \in 1..width : ByteIn(a, off + i) = ByteIn(b, at + i)
  PROVE  LoadLE(a, off, width) = LoadLE(b, at, width)
  <1>1. PICK u : Assembles(a, off, width, u) /\ LoadLE(a, off, width) = u[width]
    BY LoadIs
  <1>2. PICK w : Assembles(b, at, width, w) /\ LoadLE(b, at, width) = w[width]
    BY LoadIs
  <1> DEFINE S == {i \in 0..width : u[i] = w[i]}
  <1>3. 0 \in S
    BY <1>1, <1>2 DEF Assembles
  <1>4. \A i \in 0..(width - 1) : i \in S => i + 1 \in S
    <2> SUFFICES ASSUME NEW i \in 0..(width - 1), i \in S PROVE i + 1 \in S
      OBVIOUS
    <2>1. i + 1 \in 1..width /\ i + 1 \in 0..width /\ (i + 1) - 1 = i
      OBVIOUS
    <2>2. u[i + 1] = u[i] + ByteIn(a, off + (i + 1)) * Weight[i]
      BY <1>1, <2>1 DEF Assembles
    <2>3. w[i + 1] = w[i] + ByteIn(b, at + (i + 1)) * Weight[i]
      BY <1>2, <2>1 DEF Assembles
    <2> QED BY <2>1, <2>2, <2>3
  <1>5. \A i \in 0..width : i \in S
    <2>1. width \in Nat
      OBVIOUS
    <2> HIDE DEF S
    <2> QED BY <1>3, <1>4, <2>1, BoundedInduction
  <1> QED BY <1>1, <1>2, <1>5

(* load_le gives back what store_le has taken apart. *)
LEMMA LoadStored ==
  ASSUME NEW bytes \in Seq(Byte), NEW off \in Nat, NEW width \in 0..8,
         NEW v \in 0..(Weight[width] - 1),
         \A i \in 1..width : ByteIn(bytes, off + i) = ByteAt(v, i)
  PROVE  LoadLE(bytes, off, width) = v
  <1>1. PICK u : Assembles(bytes, off, width, u) /\ LoadLE(bytes, off, width) = u[width]
    BY LoadIs
  <1>0. width \in Nat /\ ByteRange \in Nat \ {0} /\ v \in Nat /\ Weight[width] \in Nat \ {0}
    <2>1. width \in Nat /\ ByteRange \in Nat \ {0}
      BY ByteRangeIs
    <2>2. Weight[width] \in Nat \ {0}
      BY WeightIs
    <2>3. v \in Nat
      BY <2>2
    <2> QED BY <2>1, <2>2, <2>3
  <1> DEFINE S == {i \in 0..width : u[i] = v % Weight[i]}
  <1>3. 0 \in S
    <2>1. v % 1 = 0 /\ 0 \in 0..width
      BY <1>0
    <2>2. u[0] = 0
      BY <1>1, <2>1 DEF Assembles
    <2>3. Weight[0] = 1
      BY WeightIs
    <2> QED BY <2>1, <2>2, <2>3
  <1>4. \A i \in 0..(width - 1) : i \in S => i + 1 \in S
    <2> SUFFICES ASSUME NEW i \in 0..(width - 1), i \in S PROVE i + 1 \in S
      OBVIOUS
    <2>1. i + 1 \in 1..width /\ i + 1 \in 0..width /\ (i + 1) - 1 = i /\ i \in 0..8
          /\ i + 1 \in 1..8
      OBVIOUS
    <2>2. u[i + 1] = u[i] + ByteAt(v, i + 1) * Weight[i]
      BY <1>1, <2>1 DEF Assembles
    <2>3. ByteAt(v, i + 1) = (v \div Weight[i]) % ByteRange
      BY <2>1 DEF ByteAt
    <2> DEFINE p == Weight[i]
               q == Weight[i + 1]
    <2>4. p \in Nat \ {0} /\ q = ByteRange * p
      BY <2>1, WeightIs
    <2> HIDE DEF p, q
    <2>5. v % (ByteRange * p) = (v % p) + ((v \div p) % ByteRange) * p
      BY <1>0, <2>4, NextDigit
    <2>6. v % q = (v % p) + ((v \div p) % ByteRange) * p
      BY <2>4, <2>5
    <2>7. u[i + 1] = (v % p) + ((v \div p) % ByteRange) * p
      BY <2>2, <2>3 DEF p
    <2> QED BY <2>1, <2>6, <2>7 DEF q
  <1>5. \A i \in 0..width : i \in S
    <2> HIDE DEF S
    <2> QED BY <1>0, <1>3, <1>4, BoundedInduction
  <1>6. u[width] = v % Weight[width]
    BY <1>5
  <1> DEFINE p == Weight[width]
  <1>7. p \in Nat \ {0} /\ v \in 0..(p - 1)
    BY <1>0
  <1> HIDE DEF p
  <1>8. v % p = v
    BY <1>7
  <1> QED BY <1>1, <1>6, <1>8 DEF p

(* The bytes of v are at off. *)
Stored(bytes, off, width, v) ==
  \A i \in 1..width : off + i \in DOMAIN bytes /\ bytes[off + i] = StoreLE(v, width)[i]

(* store_le writes width bytes. *)
LEMMA StoreIs ==
  ASSUME NEW v \in Int, NEW width \in 0..8
  PROVE  /\ v % Weight[width] \in 0..(Weight[width] - 1)
         /\ StoreLE(v, width) \in Seq(Byte) /\ Len(StoreLE(v, width)) = width
         /\ \A i \in 1..width : StoreLE(v, width)[i] = ByteAt(v % Weight[width], i)
  <1> DEFINE p == Weight[width]
             r == v % p
  <1>0. p \in Nat \ {0} /\ ByteRange \in Nat \ {0} /\ width \in Nat
    BY ByteRangeIs, WeightIs
  <1> HIDE DEF p
  <1>1. r \in 0..(p - 1) /\ r \in Nat
    BY <1>0
  <1> HIDE DEF r
  <1>2. ASSUME NEW i \in 1..width PROVE ByteAt(r, i) \in Byte
    <2> DEFINE q == Weight[i - 1]
    <2>1. i - 1 \in 0..8
      OBVIOUS
    <2>2. q \in Nat \ {0}
      BY <2>1, WeightIs
    <2> HIDE DEF q
    <2>3. r \div q \in Int
      BY <1>1, <2>2
    <2>4. (r \div q) % ByteRange \in 0..(ByteRange - 1)
      BY <1>0, <2>3
    <2> QED BY <2>4 DEF ByteAt, Byte, q
  <1>3. StoreLE(v, width) = [i \in 1..width |-> ByteAt(r, i)]
    BY DEF StoreLE, r, p
  <1>4. StoreLE(v, width) \in [1..width -> Byte]
    BY <1>2, <1>3
  <1>5. StoreLE(v, width) \in Seq(Byte) /\ Len(StoreLE(v, width)) = width
    BY <1>0, <1>4
  <1>6. \A i \in 1..width : StoreLE(v, width)[i] = ByteAt(r, i)
    BY <1>3
  <1> QED BY <1>1, <1>5, <1>6 DEF r, p

(* What is loaded there is v, as the unsigned type of that width. *)
LEMMA LoadBack ==
  ASSUME NEW bytes \in Seq(Byte), NEW off \in Nat, NEW width \in 0..8, NEW v \in Int,
         Stored(bytes, off, width, v)
  PROVE  LoadLE(bytes, off, width) = v % Weight[width]
  <1> DEFINE r == v % Weight[width]
  <1>1. r \in 0..(Weight[width] - 1)
    BY StoreIs
  <1>2. ASSUME NEW i \in 1..width PROVE ByteIn(bytes, off + i) = ByteAt(r, i)
    BY StoreIs DEF Stored, ByteIn
  <1> HIDE DEF r
  <1>3. LoadLE(bytes, off, width) = r
    BY <1>1, <1>2, LoadStored
  <1> QED BY <1>3 DEF r

(* A value that the field can have survives: a price with its sign. *)
LEMMA ValueBack ==
  ASSUME NEW width \in 1..8, NEW name, NEW v, v \in Values(name, width)
  PROVE  /\ v \in Int
         /\ LET u == v % Weight[width]
            IN  v = IF name \in PriceNames THEN Signed(u, width) ELSE u
  <1> DEFINE p == Weight[width]
             q == Weight[width - 1]
             h == p \div 2
  <1>1. p \in Nat \ {0} /\ q \in Nat \ {0} /\ p = ByteRange * q
    <2>1. width \in 0..8 /\ width - 1 \in 0..8
      OBVIOUS
    <2> QED BY <2>1, WeightIs
  <1>2. p = 2 * h /\ h \in Nat
    <2> DEFINE b == ByteRange \div 2
    <2>1. ByteRange = 2 * b /\ b \in Nat
      BY ByteRangeIs, CodecAssumption
    <2> HIDE DEF b, p, q
    <2>2. ByteRange * q = 2 * (b * q) /\ b * q \in Nat
      BY <1>1, <2>1
    <2>3. p \div 2 = b * q
      BY <1>1, <2>2
    <2> QED BY <1>1, <2>2, <2>3
  <1>3. CASE name \in PriceNames
    <2>1. v \in (0 - h)..(h - 1)
      BY <1>3 DEF Values
    <2>2. Signed(v % p, width) = IF 2 * (v % p) >= p THEN (v % p) - p ELSE v % p
      BY DEF Signed
    <2> HIDE DEF p, h
    <2>3. CASE v >= 0
      <3>1. v % p = v
        BY <1>1, <1>2, <2>1, <2>3
      <3>2. ~(2 * v >= p)
        BY <1>1, <1>2, <2>1
      <3> QED BY <1>3, <2>1, <2>2, <3>1, <3>2 DEF p
    <2>4. CASE v < 0
      <3>1. v \in Int /\ v + p \in 0..(p - 1)
        BY <1>1, <1>2, <2>1, <2>4
      <3>2. v % p \in 0..(p - 1) /\ v \div p \in Int /\ v = p * (v \div p) + (v % p)
        <4>1. p \in Nat /\ p > 0 /\ v \in Int
          BY <1>1, <3>1
        <4> QED BY <4>1
      <3> DEFINE x == v % p
                 y == v \div p
      <3>3. x \in 0..(p - 1) /\ y \in Int /\ v = p * y + x
        BY <3>2
      <3> HIDE DEF x, y
      <3>4. p * (0 - 1) + (v + p) = p * y + x /\ 0 - 1 \in Int /\ p \in Nat /\ p > 0
        BY <1>1, <3>1, <3>3
      <3>5. v + p = x
        BY <3>1, <3>3, <3>4, RemainderUnique
      <3>6. v % p = v + p
        BY <3>5 DEF x
      <3>7. 2 * (v + p) >= p /\ (v + p) - p = v
        BY <1>1, <1>2, <2>1, <3>1
      <3> QED BY <1>3, <2>2, <3>1, <3>6, <3>7 DEF p
    <2> QED BY <1>2, <2>1, <2>3, <2>4
  <1>4. CASE name \notin PriceNames
    <2>1. v \in 0..(p - 1)
      BY <1>4 DEF Values
    <2> HIDE DEF p
    <2>2. v % p = v
      BY <1>1, <2>1
    <2> QED BY <1>1, <1>4, <2>1, <2>2 DEF p
  <1> QED BY <1>3, <1>4

-----------------------------------------------------------------------------
(* What is written one after the other.                                    *)

(* The places where the sequences end. *)
Borders(seqs, o) ==
  /\ o \in [0..Len(seqs) -> Nat] /\ o[0] = 0
  /\ \A k \in 1..Len(seqs) : o[k] = o[k - 1] + Len(seqs[k])

(* part is in full, behind at. *)
Placed(part, full, at) ==
  \A j \in 1..Len(part) : at + j \in 1..Len(full) /\ full[at + j] = part[j]

(* FlattenSeq appends one sequence after the other. *)
Flattens(T, seqs, f) ==
  /\ f \in [0..Len(seqs) -> Seq(T)] /\ f[0] = << >>
  /\ \A k \in 1..Len(seqs) : f[k] = f[k - 1] \o seqs[k]

(* The fold by which FlattenSeq is defined does so. *)
LEMMA FlattenIs ==
  ASSUME NEW T, NEW seqs \in Seq(Seq(T))
  PROVE  \E f : Flattens(T, seqs, f) /\ FlattenSeq(seqs) = f[Len(seqs)]
  <1> DEFINE n == Len(seqs)
             X == Seq(T)
             step == [c \in (1..n) \X X |-> c[2] \o seqs[c[1]]]
             Does(g) == g = [i \in 1..n |-> IF i = 1 THEN seqs[i] ELSE g[i - 1] \o seqs[i]]
             it == CHOOSE g : Does(g)
  <1>0. n \in Nat /\ << >> \in X /\ \A i \in 1..n : seqs[i] \in X
    OBVIOUS
  <1>1. n # 0 => FlattenSeq(seqs) = it[n]
    BY DEF FlattenSeq
  <1>2. n = 0 => FlattenSeq(seqs) = << >>
    BY EmptySeq DEF FlattenSeq
  <1>3. /\ step \in [(1..n) \X X -> X]
        /\ \A i \in 1..n, x \in X : step[<<i, x>>] = x \o seqs[i]
    <2>1. \A i \in 1..n, x \in X : x \o seqs[i] \in X
      BY <1>0, ConcatProperties
    <2>2. \A c \in (1..n) \X X : c[2] \o seqs[c[1]] \in X
      BY <2>1
    <2> HIDE DEF X
    <2> QED BY <2>2
  <1> HIDE DEF X, step, n
  <1>4. PICK f : CountsUp(X, n, << >>, step, f)
    BY <1>0, <1>3, CountUpExists
  <1>5. f \in [0..n -> X] /\ f[0] = << >> /\ \A i \in 1..n : f[i] = step[<<i, f[i - 1]>>]
    BY <1>4 DEF CountsUp
  <1>6. ASSUME NEW i \in 1..n PROVE f[i] = f[i - 1] \o seqs[i]
    <2>1. i - 1 \in 0..n
      BY <1>0
    <2> QED BY <1>3, <1>5, <2>1
  <1>7. Flattens(T, seqs, f)
    BY <1>5, <1>6 DEF Flattens, X, n
  <1> DEFINE g == [i \in 1..n |-> f[i]]
  <1>8. Does(g)
    <2>1. ASSUME NEW i \in 1..n
          PROVE  g[i] = IF i = 1 THEN seqs[i] ELSE g[i - 1] \o seqs[i]
      <3>1. CASE i = 1
        <4>0. 1 \in 1..n /\ 1 - 1 = 0
          BY <3>1
        <4>1. f[1] = << >> \o seqs[1] /\ seqs[1] \in Seq(T)
          BY <1>0, <1>5, <1>6, <4>0 DEF X
        <4>2. << >> \o seqs[1] = seqs[1]
          BY <4>1, ConcatEmptySeq
        <4> QED BY <3>1, <4>1, <4>2
      <3>2. CASE i # 1
        <4>1. i - 1 \in 1..n
          BY <1>0, <3>2
        <4> QED BY <1>6, <3>2, <4>1
      <3> QED BY <3>1, <3>2
    <2>2. g = [i \in 1..n |-> g[i]]
      OBVIOUS
    <2> HIDE DEF g
    <2> QED BY <2>1, <2>2
  <1> HIDE DEF g
  <1>9. Does(it)
    <2> HIDE DEF Does
    <2> QED BY <1>8
  <1> HIDE DEF it
  <1>10. \A i \in 1..n : it[i] = IF i = 1 THEN seqs[i] ELSE it[i - 1] \o seqs[i]
    BY <1>9
  <1> DEFINE S == {i \in 0..n : i = 0 \/ it[i] = f[i]}
  <1>11. \A i \in 0..n : i \in S
    <2>1. 0 \in S
      BY <1>0
    <2>2. \A i \in 0..(n - 1) : i \in S => i + 1 \in S
      <3> SUFFICES ASSUME NEW i \in 0..(n - 1), i \in S PROVE i + 1 \in S
        OBVIOUS
      <3>1. i + 1 \in 1..n /\ i + 1 \in 0..n /\ (i + 1) - 1 = i
        BY <1>0
      <3>2. CASE i = 0
        <4>0. 1 \in 1..n /\ i + 1 = 1
          BY <3>1, <3>2
        <4>1. it[1] = seqs[1]
          BY <1>10, <4>0
        <4>2. g[1] = seqs[1]
          BY <1>8, <4>0
        <4>3. f[1] = g[1]
          BY <4>0 DEF g
        <4> QED BY <3>1, <4>0, <4>1, <4>2, <4>3
      <3>3. CASE i # 0
        <4>0. i + 1 # 1
          BY <3>3
        <4>1. it[i + 1] = it[i] \o seqs[i + 1]
          BY <1>10, <3>1, <4>0
        <4>2. f[i + 1] = f[i] \o seqs[i + 1]
          BY <1>6, <3>1
        <4> QED BY <3>1, <3>3, <4>1, <4>2
      <3> QED BY <3>2, <3>3
    <2> HIDE DEF S
    <2> QED BY <1>0, <2>1, <2>2, BoundedInduction
  <1>12. FlattenSeq(seqs) = f[n]
    <2>1. CASE n = 0
      BY <1>2, <1>5, <2>1
    <2>2. CASE n # 0
      <3>1. n \in 0..n
        BY <1>0
      <3> QED BY <1>1, <1>11, <2>2, <3>1
    <2> QED BY <2>1, <2>2
  <1> QED BY <1>7, <1>12 DEF n

(* What is in a sequence stays where it is when more is appended, and what  *)
(* is appended follows.                                                    *)
LEMMA PlacedConcat ==
  ASSUME NEW T, NEW a \in Seq(T), NEW b \in Seq(T)
  PROVE  /\ a \o b \in Seq(T) /\ Len(a \o b) = Len(a) + Len(b)
         /\ Placed(a, a \o b, 0) /\ Placed(b, a \o b, Len(a))
         /\ \A s \in Seq(T), at \in Nat : Placed(s, a, at) => Placed(s, a \o b, at)
  <1> DEFINE c == a \o b
             m == Len(a)
             n == Len(b)
  <1>1. /\ m \in Nat /\ n \in Nat /\ c \in Seq(T) /\ Len(c) = m + n
        /\ \A i \in 1..(m + n) : c[i] = IF i <= m THEN a[i] ELSE b[i - m]
    BY ConcatProperties
  <1> HIDE DEF c
  <1>2. ASSUME NEW i \in 1..m PROVE i \in 1..Len(c) /\ c[i] = a[i]
    <2>1. i \in 1..(m + n) /\ i <= m
      BY <1>1
    <2> QED BY <1>1, <2>1
  <1>3. ASSUME NEW i \in 1..n PROVE m + i \in 1..Len(c) /\ c[m + i] = b[i]
    <2>1. m + i \in 1..(m + n) /\ ~(m + i <= m) /\ (m + i) - m = i
      BY <1>1
    <2> QED BY <1>1, <2>1
  <1>4. Placed(a, c, 0)
    <2>1. \A i \in 1..m : 0 + i = i
      BY <1>1
    <2> QED BY <1>2, <2>1 DEF Placed
  <1>5. Placed(b, c, m)
    BY <1>3 DEF Placed
  <1>6. ASSUME NEW s \in Seq(T), NEW at \in Nat, Placed(s, a, at)
        PROVE  Placed(s, c, at)
    BY <1>2, <1>6 DEF Placed
  <1> QED BY <1>1, <1>4, <1>5, <1>6 DEF c

(* A part of a part. *)
LEMMA PlacedInside ==
  ASSUME NEW s, NEW a, NEW b, NEW at \in Nat, NEW off \in Nat, Len(s) \in Nat,
         Placed(s, a, at), Placed(a, b, off)
  PROVE  Placed(s, b, off + at)
  <1> SUFFICES ASSUME NEW j \in 1..Len(s)
               PROVE  (off + at) + j \in 1..Len(b) /\ b[(off + at) + j] = s[j]
    BY DEF Placed
  <1>1. at + j \in 1..Len(a) /\ a[at + j] = s[j]
    BY DEF Placed
  <1>2. off + (at + j) \in 1..Len(b) /\ b[off + (at + j)] = a[at + j]
    BY <1>1 DEF Placed
  <1>3. off + (at + j) = (off + at) + j
    OBVIOUS
  <1> QED BY <1>1, <1>2, <1>3

(* FlattenSeq puts every sequence between its borders. *)
LEMMA FlattenPlaces ==
  ASSUME NEW T, NEW seqs \in Seq(Seq(T)), NEW o, Borders(seqs, o)
  PROVE  /\ FlattenSeq(seqs) \in Seq(T) /\ Len(FlattenSeq(seqs)) = o[Len(seqs)]
         /\ \A k \in 1..Len(seqs) : Placed(seqs[k], FlattenSeq(seqs), o[k - 1])
  <1> DEFINE n == Len(seqs)
  <1>0. n \in Nat /\ \A k \in 1..n : seqs[k] \in Seq(T)
    OBVIOUS
  <1>1. PICK f : Flattens(T, seqs, f) /\ FlattenSeq(seqs) = f[n]
    BY FlattenIs
  <1>2. /\ f \in [0..n -> Seq(T)] /\ f[0] = << >>
        /\ \A k \in 1..n : f[k] = f[k - 1] \o seqs[k]
        /\ o \in [0..n -> Nat] /\ o[0] = 0 /\ \A k \in 1..n : o[k] = o[k - 1] + Len(seqs[k])
    BY <1>1 DEF Flattens, Borders
  <1> DEFINE There(k) == /\ Len(f[k]) = o[k]
                         /\ \A q \in 1..k : Placed(seqs[q], f[k], o[q - 1])
             S == {k \in 0..n : There(k)}
  <1> HIDE DEF n
  <1>3. 0 \in S
    BY <1>0, <1>2
  <1>4. \A k \in 0..(n - 1) : k \in S => k + 1 \in S
    <2> SUFFICES ASSUME NEW k \in 0..(n - 1), k \in S PROVE k + 1 \in S
      OBVIOUS
    <2>1. /\ k + 1 \in 1..n /\ k + 1 \in 0..n /\ k \in 0..n /\ (k + 1) - 1 = k
      BY <1>0
    <2> DEFINE a == f[k]
               b == seqs[k + 1]
    <2>2. /\ f[k + 1] = a \o b /\ a \in Seq(T) /\ b \in Seq(T)
          /\ o[k + 1] = o[k] + Len(b) /\ Len(a) = o[k]
          /\ \A q \in 1..k : Placed(seqs[q], a, o[q - 1])
      BY <1>0, <1>2, <2>1
    <2>3. ASSUME NEW q \in 1..k PROVE Placed(seqs[q], a \o b, o[q - 1])
      <3>1. q \in 1..n /\ q - 1 \in 0..n
        BY <1>0
      <3>2. seqs[q] \in Seq(T) /\ o[q - 1] \in Nat
        BY <1>0, <1>2, <3>1
      <3>3. Placed(seqs[q], a, o[q - 1])
        BY <2>2
      <3> HIDE DEF a, b
      <3> QED BY <2>2, <3>2, <3>3, PlacedConcat
    <2>4. Placed(b, a \o b, o[k]) /\ Len(a \o b) = Len(a) + Len(b)
      BY <2>2, PlacedConcat
    <2>5. \A q \in 1..(k + 1) : q \in 1..k \/ q = k + 1
      BY <1>0
    <2>6. \A q \in 1..(k + 1) : Placed(seqs[q], f[k + 1], o[q - 1])
      BY <2>1, <2>2, <2>3, <2>4, <2>5
    <2>7. Len(f[k + 1]) = o[k + 1]
      BY <2>2, <2>4
    <2> QED BY <2>1, <2>6, <2>7
  <1>5. \A k \in 0..n : k \in S
    <2> HIDE DEF S
    <2> QED BY <1>0, <1>3, <1>4, BoundedInduction
  <1>6. n \in 0..n
    BY <1>0
  <1>7. There(n)
    BY <1>5, <1>6
  <1>8. f[n] \in Seq(T)
    BY <1>2, <1>6
  <1> QED BY <1>1, <1>7, <1>8 DEF n

(* Borders rise. *)
LEMMA BordersRise ==
  ASSUME NEW T, NEW seqs \in Seq(Seq(T)), NEW o, Borders(seqs, o)
  PROVE  \A i, k \in 0..Len(seqs) : i <= k => o[i] <= o[k]
  <1> DEFINE n == Len(seqs)
  <1>0. /\ n \in Nat /\ o \in [0..n -> Nat]
        /\ \A k \in 1..n : o[k] = o[k - 1] + Len(seqs[k]) /\ Len(seqs[k]) \in Nat
    BY DEF Borders
  <1> HIDE DEF n
  <1>1. ASSUME NEW i \in 0..n
        PROVE  \A k \in 0..n : i <= k => o[i] <= o[k]
    <2> DEFINE S == {k \in 0..n : i <= k => o[i] <= o[k]}
    <2>1. 0 \in S
      BY <1>0
    <2>2. \A k \in 0..(n - 1) : k \in S => k + 1 \in S
      <3> SUFFICES ASSUME NEW k \in 0..(n - 1), k \in S PROVE k + 1 \in S
        OBVIOUS
      <3>1. k + 1 \in 1..n /\ k + 1 \in 0..n /\ k \in 0..n /\ (k + 1) - 1 = k
        BY <1>0
      <3>2. o[k + 1] = o[k] + Len(seqs[k + 1]) /\ Len(seqs[k + 1]) \in Nat /\ o[k] \in Nat
            /\ o[i] \in Nat
        BY <1>0, <3>1
      <3>3. o[k] <= o[k + 1]
        BY <3>2
      <3>4. CASE i <= k
        BY <3>1, <3>2, <3>3, <3>4
      <3>5. CASE ~(i <= k)
        BY <1>0, <3>1, <3>2, <3>5
      <3> QED BY <3>4, <3>5
    <2>3. \A k \in 0..n : k \in S
      <3> HIDE DEF S
      <3> QED BY <1>0, <2>1, <2>2, BoundedInduction
    <2> QED BY <2>3
  <1> QED BY <1>1 DEF n

-----------------------------------------------------------------------------
(* The layout of the bodies.                                               *)

FieldNames == {"symbol", "order_id", "side", "price", "quantity", "num_bid_levels",
               "num_ask_levels", "reserved", "bids", "bid_qty", "asks", "ask_qty"}
StoreT == [field : FieldNames \X Nat, width : 1..8]
LoadT == [field : FieldNames \X Nat, at : Nat, width : 1..8]

(* o has the places where the stores of a body end: every load is of what   *)
(* one store has written, and only reserved is not loaded.                 *)
LaidOut(stores, loads, size, o) ==
  /\ stores \in Seq(StoreT) /\ loads \subseteq LoadT
  /\ o \in [0..Len(stores) -> Nat] /\ o[0] = 0 /\ o[Len(stores)] = size
  /\ \A k \in 1..Len(stores) :
       /\ o[k] = o[k - 1] + stores[k].width
       /\ stores[k].field[1] # "reserved" => \E r \in loads : r.field = stores[k].field
       /\ stores[k].field[1] = "reserved" => stores[k].field = <<"reserved", 0>>
  /\ \A r \in loads :
       /\ r.field[1] # "reserved"
       /\ \E k \in 1..Len(stores) :
            stores[k].field = r.field /\ stores[k].width = r.width /\ o[k - 1] = r.at
  /\ \A r, q \in loads : r.field = q.field => r = q

(* The load of what a store has written at a place. *)
LoadOf(s, at) == [field |-> s.field, at |-> at, width |-> s.width]

(* o has the places where these stores, of different fields, end. *)
Ends(stores, size, o) ==
  /\ stores \in Seq(StoreT)
  /\ o \in [0..Len(stores) -> Nat] /\ o[0] = 0 /\ o[Len(stores)] = size
  /\ \A k \in 1..Len(stores) :
       /\ o[k] = o[k - 1] + stores[k].width
       /\ stores[k].field[1] = "reserved" => stores[k].field = <<"reserved", 0>>
  /\ \A j, k \in 1..Len(stores) : stores[j].field = stores[k].field => j = k

(* What is loaded: everything but the reserved bytes. *)
Loaded(stores) == {k \in 1..Len(stores) : stores[k].field[1] # "reserved"}

(* Loads that read just these, each where its store begins, are laid out   *)
(* as the stores are.                                                      *)
LEMMA LoadsLaidOut ==
  ASSUME NEW stores, NEW size, NEW o, Ends(stores, size, o), NEW loads,
         loads = {LoadOf(stores[k], o[k - 1]) : k \in Loaded(stores)}
  PROVE  LaidOut(stores, loads, size, o)
  <1> DEFINE n == Len(stores)
             K == Loaded(stores)
  <1>0. /\ n \in Nat /\ \A k \in 1..n : stores[k] \in StoreT
        /\ o \in [0..n -> Nat]
    BY DEF Ends
  <1>1. ASSUME NEW k \in K
        PROVE  /\ k \in 1..n /\ stores[k].field[1] # "reserved"
               /\ LoadOf(stores[k], o[k - 1]) \in LoadT
               /\ LoadOf(stores[k], o[k - 1]).field = stores[k].field
               /\ LoadOf(stores[k], o[k - 1]).width = stores[k].width
               /\ LoadOf(stores[k], o[k - 1]).at = o[k - 1]
    <2>1. k \in 1..n /\ stores[k].field[1] # "reserved"
      BY DEF Loaded
    <2>2. k - 1 \in 0..n
      BY <1>0, <2>1
    <2>3. o[k - 1] \in Nat /\ stores[k] \in StoreT
      BY <1>0, <2>1, <2>2
    <2> QED BY <2>1, <2>3 DEF LoadOf, StoreT, LoadT
  <1>2. ASSUME NEW r \in loads
        PROVE  /\ r \in LoadT /\ r.field[1] # "reserved"
               /\ \E k \in 1..n : /\ r = LoadOf(stores[k], o[k - 1])
                                  /\ stores[k].field = r.field
                                  /\ stores[k].width = r.width /\ o[k - 1] = r.at
    <2>1. PICK k \in K : r = LoadOf(stores[k], o[k - 1])
      OBVIOUS
    <2> QED BY <1>1, <2>1
  <1>3. ASSUME NEW k \in 1..n, stores[k].field[1] # "reserved"
        PROVE  \E r \in loads : r.field = stores[k].field
    <2>1. k \in K
      BY <1>3 DEF Loaded
    <2> QED BY <1>1, <2>1
  <1>4. ASSUME NEW r \in loads, NEW q \in loads, r.field = q.field
        PROVE  r = q
    <2>1. PICK j \in 1..n : r = LoadOf(stores[j], o[j - 1]) /\ stores[j].field = r.field
      BY <1>2
    <2>2. PICK k \in 1..n : q = LoadOf(stores[k], o[k - 1]) /\ stores[k].field = q.field
      BY <1>2
    <2>3. j = k
      BY <1>4, <2>1, <2>2 DEF Ends
    <2> QED BY <2>1, <2>2, <2>3
  <1>5. loads \subseteq LoadT
    BY <1>2
  <1> HIDE DEF K
  <1> QED BY <1>2, <1>3, <1>4, <1>5 DEF LaidOut, Ends

(* A store and a load, by their field. *)
LEMMA StoreFields ==
  ASSUME NEW name \in FieldNames, NEW level \in Nat, NEW width \in 1..8
  PROVE  /\ Store(name, level, width) \in StoreT
         /\ Store(name, level, width).field = <<name, level>>
         /\ Store(name, level, width).width = width
         /\ \A at : LoadOf(Store(name, level, width), at) = Load(name, level, at, width)
         /\ <<name, level>>[1] = name /\ <<name, level>>[2] = level
  BY DEF Store, StoreT, LoadOf, Load

(* The same of the fields that belong to no level. *)
LEMMA FieldIs ==
  \A x \in {"symbol", "order_id", "side", "price", "quantity"}, w \in {1, 4, 8} :
    /\ F(x, w) \in StoreT /\ F(x, w).field = <<x, 0>> /\ F(x, w).width = w
    /\ \A at : LoadOf(F(x, w), at) = At(x, at, w)
  <1> SUFFICES ASSUME NEW x \in {"symbol", "order_id", "side", "price", "quantity"},
                      NEW w \in {1, 4, 8}
               PROVE  /\ F(x, w) \in StoreT /\ F(x, w).field = <<x, 0>> /\ F(x, w).width = w
                      /\ \A at : LoadOf(F(x, w), at) = At(x, at, w)
    OBVIOUS
  <1>1. x \in FieldNames
    BY DEF FieldNames
  <1>2. w \in 1..8 /\ 0 \in Nat
    OBVIOUS
  <1> QED BY <1>1, <1>2, StoreFields DEF F, At

(* The bodies of fixed size: the literal offsets of decode_body are where   *)
(* the pointer of encode_body has come to.                                 *)
LEMMA AddLaidOut ==
  \E o : LaidOut(Stores("AddOrder"), Loads("AddOrder"), BodySizeFor("AddOrder"), o)
  <1> DEFINE s == <<F("symbol", 4), F("order_id", 8), F("side", 1), F("price", 8),
                    F("quantity", 4)>>
             r == {At("symbol", 0, 4), At("order_id", 4, 8), At("side", 12, 1),
                   At("price", 13, 8), At("quantity", 21, 4)}
             o == [k \in 0..5 |-> IF k = 0 THEN 0 ELSE <<4, 12, 13, 21, 25>>[k]]
  <1>1. Stores("AddOrder") = s /\ BodySizeFor("AddOrder") = 25
    BY DEF Stores, BodySizeFor, kAddOrderBodySize
  <1>2. Loads("AddOrder") = r
    BY DEF Loads, OrderLoads
  <1>3. s \in Seq(StoreT) /\ Len(s) = 5
    BY FieldIs
  <1>4. /\ s[1] = F("symbol", 4) /\ s[2] = F("order_id", 8) /\ s[3] = F("side", 1)
        /\ s[4] = F("price", 8) /\ s[5] = F("quantity", 4)
    OBVIOUS
  <1>5. /\ o \in [0..5 -> Nat] /\ o[0] = 0 /\ o[1] = 4 /\ o[2] = 12 /\ o[3] = 13
        /\ o[4] = 21 /\ o[5] = 25
    OBVIOUS
  <1> HIDE DEF s, o
  <1>6. ASSUME NEW k \in 1..5 PROVE k = 1 \/ k = 2 \/ k = 3 \/ k = 4 \/ k = 5
    OBVIOUS
  <1>7. /\ s[1].field = <<"symbol", 0>> /\ s[2].field = <<"order_id", 0>>
        /\ s[3].field = <<"side", 0>> /\ s[4].field = <<"price", 0>>
        /\ s[5].field = <<"quantity", 0>> /\ s[1].width = 4 /\ s[2].width = 8
        /\ s[3].width = 1 /\ s[4].width = 8 /\ s[5].width = 4
    BY <1>4, FieldIs
  <1>8. ASSUME NEW k \in 1..5
        PROVE  o[k] = o[k - 1] + s[k].width /\ s[k].field[1] # "reserved"
    BY <1>5, <1>6, <1>7
  <1>9. ASSUME NEW j \in 1..5, NEW k \in 1..5, s[j].field = s[k].field PROVE j = k
    BY <1>6, <1>7, <1>9
  <1>10. Ends(s, 25, o)
    BY <1>3, <1>5, <1>8, <1>9 DEF Ends
  <1>11. Loaded(s) = {1, 2, 3, 4, 5}
    BY <1>3, <1>6, <1>8 DEF Loaded
  <1>12. r = {LoadOf(s[k], o[k - 1]) : k \in {1, 2, 3, 4, 5}}
    <2>1. /\ LoadOf(s[1], o[0]) = At("symbol", 0, 4)
          /\ LoadOf(s[2], o[1]) = At("order_id", 4, 8)
          /\ LoadOf(s[3], o[2]) = At("side", 12, 1)
          /\ LoadOf(s[4], o[3]) = At("price", 13, 8)
          /\ LoadOf(s[5], o[4]) = At("quantity", 21, 4)
      BY <1>4, <1>5, FieldIs
    <2>2. {LoadOf(s[k], o[k - 1]) : k \in {1, 2, 3, 4, 5}} =
            {LoadOf(s[1], o[0]), LoadOf(s[2], o[1]), LoadOf(s[3], o[2]),
             LoadOf(s[4], o[3]), LoadOf(s[5], o[4])}
      OBVIOUS
    <2> QED BY <2>1, <2>2
  <1>13. LaidOut(s, r, 25, o)
    BY <1>10, <1>11, <1>12, LoadsLaidOut
  <1> QED BY <1>1, <1>2, <1>13

(* A cancel: the two fields that every order message begins with. *)
LEMMA CancelLaidOut ==
  \E o : LaidOut(Stores("CancelOrder"), Loads("CancelOrder"), BodySizeFor("CancelOrder"), o)
  <1> DEFINE s == <<F("symbol", 4), F("order_id", 8)>>
             r == {At("symbol", 0, 4), At("order_id", 4, 8)}
             o == [k \in 0..2 |-> IF k = 0 THEN 0 ELSE <<4, 12>>[k]]
  <1>1. Stores("CancelOrder") = s /\ BodySizeFor("CancelOrder") = 12
    BY DEF Stores, BodySizeFor, kCancelOrderBodySize
  <1>2. Loads("CancelOrder") = r
    BY DEF Loads, OrderLoads
  <1>3. s \in Seq(StoreT) /\ Len(s) = 2
    BY FieldIs
  <1>4. /\ s[1] = F("symbol", 4) /\ s[2] = F("order_id", 8)
    OBVIOUS
  <1>5. /\ o \in [0..2 -> Nat] /\ o[0] = 0 /\ o[1] = 4 /\ o[2] = 12
    OBVIOUS
  <1> HIDE DEF s, o
  <1>6. ASSUME NEW k \in 1..2 PROVE k = 1 \/ k = 2
    OBVIOUS
  <1>7. /\ s[1].field = <<"symbol", 0>> /\ s[2].field = <<"order_id", 0>>
        /\ s[1].width = 4 /\ s[2].width = 8
    BY <1>4, FieldIs
  <1>8. ASSUME NEW k \in 1..2
        PROVE  o[k] = o[k - 1] + s[k].width /\ s[k].field[1] # "reserved"
    BY <1>5, <1>6, <1>7
  <1>9. ASSUME NEW j \in 1..2, NEW k \in 1..2, s[j].field = s[k].field PROVE j = k
    BY <1>6, <1>7, <1>9
  <1>10. Ends(s, 12, o)
    BY <1>3, <1>5, <1>8, <1>9 DEF Ends
  <1>11. Loaded(s) = {1, 2}
    BY <1>3, <1>6, <1>8 DEF Loaded
  <1>12. r = {LoadOf(s[k], o[k - 1]) : k \in {1, 2}}
    <2>1. /\ LoadOf(s[1], o[0]) = At("symbol", 0, 4)
          /\ LoadOf(s[2], o[1]) = At("order_id", 4, 8)
      BY <1>4, <1>5, FieldIs
    <2>2. {LoadOf(s[k], o[k - 1]) : k \in {1, 2}} =
            {LoadOf(s[1], o[0]), LoadOf(s[2], o[1])}
      OBVIOUS
    <2> QED BY <2>1, <2>2
  <1>13. LaidOut(s, r, 12, o)
    BY <1>10, <1>11, <1>12, LoadsLaidOut
  <1> QED BY <1>1, <1>2, <1>13

(* A modify, which has no side. *)
LEMMA ModifyLaidOut ==
  \E o : LaidOut(Stores("ModifyOrder"), Loads("ModifyOrder"), BodySizeFor("ModifyOrder"), o)
  <1> DEFINE s == <<F("symbol", 4), F("order_id", 8), F("price", 8), F("quantity", 4)>>
             r == {At("symbol", 0, 4), At("order_id", 4, 8), At("price", 12, 8),
                   At("quantity", 20, 4)}
             o == [k \in 0..4 |-> IF k = 0 THEN 0 ELSE <<4, 12, 20, 24>>[k]]
  <1>1. Stores("ModifyOrder") = s /\ BodySizeFor("ModifyOrder") = 24
    BY DEF Stores, BodySizeFor, kModifyOrderBodySize
  <1>2. Loads("ModifyOrder") = r
    BY DEF Loads, OrderLoads
  <1>3. s \in Seq(StoreT) /\ Len(s) = 4
    BY FieldIs
  <1>4. /\ s[1] = F("symbol", 4) /\ s[2] = F("order_id", 8) /\ s[3] = F("price", 8)
        /\ s[4] = F("quantity", 4)
    OBVIOUS
  <1>5. /\ o \in [0..4 -> Nat] /\ o[0] = 0 /\ o[1] = 4 /\ o[2] = 12 /\ o[3] = 20
        /\ o[4] = 24
    OBVIOUS
  <1> HIDE DEF s, o
  <1>6. ASSUME NEW k \in 1..4 PROVE k = 1 \/ k = 2 \/ k = 3 \/ k = 4
    OBVIOUS
  <1>7. /\ s[1].field = <<"symbol", 0>> /\ s[2].field = <<"order_id", 0>>
        /\ s[3].field = <<"price", 0>> /\ s[4].field = <<"quantity", 0>>
        /\ s[1].width = 4 /\ s[2].width = 8 /\ s[3].width = 8 /\ s[4].width = 4
    BY <1>4, FieldIs
  <1>8. ASSUME NEW k \in 1..4
        PROVE  o[k] = o[k - 1] + s[k].width /\ s[k].field[1] # "reserved"
    BY <1>5, <1>6, <1>7
  <1>9. ASSUME NEW j \in 1..4, NEW k \in 1..4, s[j].field = s[k].field PROVE j = k
    BY <1>6, <1>7, <1>9
  <1>10. Ends(s, 24, o)
    BY <1>3, <1>5, <1>8, <1>9 DEF Ends
  <1>11. Loaded(s) = {1, 2, 3, 4}
    BY <1>3, <1>6, <1>8 DEF Loaded
  <1>12. r = {LoadOf(s[k], o[k - 1]) : k \in {1, 2, 3, 4}}
    <2>1. /\ LoadOf(s[1], o[0]) = At("symbol", 0, 4)
          /\ LoadOf(s[2], o[1]) = At("order_id", 4, 8)
          /\ LoadOf(s[3], o[2]) = At("price", 12, 8)
          /\ LoadOf(s[4], o[3]) = At("quantity", 20, 4)
      BY <1>4, <1>5, FieldIs
    <2>2. {LoadOf(s[k], o[k - 1]) : k \in {1, 2, 3, 4}} =
            {LoadOf(s[1], o[0]), LoadOf(s[2], o[1]), LoadOf(s[3], o[2]),
             LoadOf(s[4], o[3])}
      OBVIOUS
    <2> QED BY <2>1, <2>2
  <1>13. LaidOut(s, r, 24, o)
    BY <1>10, <1>11, <1>12, LoadsLaidOut
  <1> QED BY <1>1, <1>2, <1>13

(* A trade, which has the side at its end. *)
LEMMA TradeLaidOut ==
  \E o : LaidOut(Stores("Trade"), Loads("Trade"), BodySizeFor("Trade"), o)
  <1> DEFINE s == <<F("symbol", 4), F("order_id", 8), F("price", 8), F("quantity", 4),
                    F("side", 1)>>
             r == {At("symbol", 0, 4), At("order_id", 4, 8), At("price", 12, 8),
                   At("quantity", 20, 4), At("side", 24, 1)}
             o == [k \in 0..5 |-> IF k = 0 THEN 0 ELSE <<4, 12, 20, 24, 25>>[k]]
  <1>1. Stores("Trade") = s /\ BodySizeFor("Trade") = 25
    BY DEF Stores, BodySizeFor, kTradeBodySize
  <1>2. Loads("Trade") = r
    BY DEF Loads, OrderLoads
  <1>3. s \in Seq(StoreT) /\ Len(s) = 5
    BY FieldIs
  <1>4. /\ s[1] = F("symbol", 4) /\ s[2] = F("order_id", 8) /\ s[3] = F("price", 8)
        /\ s[4] = F("quantity", 4) /\ s[5] = F("side", 1)
    OBVIOUS
  <1>5. /\ o \in [0..5 -> Nat] /\ o[0] = 0 /\ o[1] = 4 /\ o[2] = 12 /\ o[3] = 20
        /\ o[4] = 24 /\ o[5] = 25
    OBVIOUS
  <1> HIDE DEF s, o
  <1>6. ASSUME NEW k \in 1..5 PROVE k = 1 \/ k = 2 \/ k = 3 \/ k = 4 \/ k = 5
    OBVIOUS
  <1>7. /\ s[1].field = <<"symbol", 0>> /\ s[2].field = <<"order_id", 0>>
        /\ s[3].field = <<"price", 0>> /\ s[4].field = <<"quantity", 0>>
        /\ s[5].field = <<"side", 0>> /\ s[1].width = 4 /\ s[2].width = 8
        /\ s[3].width = 8 /\ s[4].width = 4 /\ s[5].width = 1
    BY <1>4, FieldIs
  <1>8. ASSUME NEW k \in 1..5
        PROVE  o[k] = o[k - 1] + s[k].width /\ s[k].field[1] # "reserved"
    BY <1>5, <1>6, <1>7
  <1>9. ASSUME NEW j \in 1..5, NEW k \in 1..5, s[j].field = s[k].field PROVE j = k
    BY <1>6, <1>7, <1>9
  <1>10. Ends(s, 25, o)
    BY <1>3, <1>5, <1>8, <1>9 DEF Ends
  <1>11. Loaded(s) = {1, 2, 3, 4, 5}
    BY <1>3, <1>6, <1>8 DEF Loaded
  <1>12. r = {LoadOf(s[k], o[k - 1]) : k \in {1, 2, 3, 4, 5}}
    <2>1. /\ LoadOf(s[1], o[0]) = At("symbol", 0, 4)
          /\ LoadOf(s[2], o[1]) = At("order_id", 4, 8)
          /\ LoadOf(s[3], o[2]) = At("price", 12, 8)
          /\ LoadOf(s[4], o[3]) = At("quantity", 20, 4)
          /\ LoadOf(s[5], o[4]) = At("side", 24, 1)
      BY <1>4, <1>5, FieldIs
    <2>2. {LoadOf(s[k], o[k - 1]) : k \in {1, 2, 3, 4, 5}} =
            {LoadOf(s[1], o[0]), LoadOf(s[2], o[1]), LoadOf(s[3], o[2]),
             LoadOf(s[4], o[3]), LoadOf(s[5], o[4])}
      OBVIOUS
    <2> QED BY <2>1, <2>2
  <1>13. LaidOut(s, r, 25, o)
    BY <1>10, <1>11, <1>12, LoadsLaidOut
  <1> QED BY <1>1, <1>2, <1>13

(* A heartbeat has no body. *)
LEMMA HeartbeatLaidOut ==
  \E o : LaidOut(Stores("Heartbeat"), Loads("Heartbeat"), BodySizeFor("Heartbeat"), o)
  <1>1. Stores("Heartbeat") = << >> /\ Loads("Heartbeat") = {} /\ BodySizeFor("Heartbeat") = 0
    BY DEF Stores, Loads, BodySizeFor
  <1>2. LaidOut(<< >>, {}, 0, [k \in 0..0 |-> 0])
    BY DEF LaidOut
  <1> QED BY <1>1, <1>2

(* The levels of one side: a price and a quantity each. *)
LEMMA LevelStoresIs ==
  ASSUME NEW price \in FieldNames, NEW qty \in FieldNames
  PROVE  LET s == LevelStores(price, qty)
         IN  /\ s \in Seq(StoreT) /\ Len(s) = 2 * MaxSnapshotLevels
             /\ \A l \in 1..MaxSnapshotLevels :
                  s[2 * l - 1] = Store(price, l, 8) /\ s[2 * l] = Store(qty, l, 4)
  <1> DEFINE N == MaxSnapshotLevels
             pair(l) == <<Store(price, l, 8), Store(qty, l, 4)>>
             seqs == [l \in 1..N |-> pair(l)]
             o == [l \in 0..N |-> 2 * l]
             s == FlattenSeq(seqs)
  <1>0. N \in Nat
    BY ByteRangeIs
  <1>1. ASSUME NEW l \in 1..N
        PROVE  pair(l) \in Seq(StoreT) /\ Len(pair(l)) = 2
               /\ pair(l)[1] = Store(price, l, 8) /\ pair(l)[2] = Store(qty, l, 4)
    <2>1. l \in Nat /\ 8 \in 1..8 /\ 4 \in 1..8
      BY <1>0
    <2>2. Store(price, l, 8) \in StoreT /\ Store(qty, l, 4) \in StoreT
      BY <2>1, StoreFields
    <2> QED BY <2>2
  <1>2. seqs \in Seq(Seq(StoreT)) /\ Len(seqs) = N /\ \A l \in 1..N : seqs[l] = pair(l)
    <2> HIDE DEF pair
    <2>1. seqs \in [1..N -> Seq(StoreT)]
      BY <1>1
    <2> QED BY <1>0, <2>1
  <1>3. Borders(seqs, o)
    <2>1. o \in [0..N -> Nat] /\ o[0] = 0
      BY <1>0
    <2>2. ASSUME NEW k \in 1..N PROVE o[k] = o[k - 1] + Len(seqs[k])
      <3>1. k - 1 \in 0..N /\ k \in 0..N
        BY <1>0
      <3>2. o[k] = 2 * k /\ o[k - 1] = 2 * (k - 1)
        BY <3>1
      <3>3. Len(seqs[k]) = 2
        BY <1>1, <1>2
      <3> HIDE DEF o, seqs
      <3> QED BY <1>0, <3>2, <3>3
    <2> HIDE DEF o, seqs
    <2> QED BY <1>2, <2>1, <2>2 DEF Borders
  <1>4. LevelStores(price, qty) = s
    BY DEF LevelStores
  <1> HIDE DEF seqs, pair
  <1>5. /\ s \in Seq(StoreT) /\ Len(s) = o[Len(seqs)]
        /\ \A k \in 1..Len(seqs) : Placed(seqs[k], s, o[k - 1])
    BY <1>2, <1>3, FlattenPlaces
  <1> HIDE DEF s
  <1>6. Len(s) = 2 * N
    BY <1>0, <1>2, <1>5
  <1>7. ASSUME NEW l \in 1..N
        PROVE  s[2 * l - 1] = Store(price, l, 8) /\ s[2 * l] = Store(qty, l, 4)
    <2>1. l - 1 \in 0..N
      BY <1>0
    <2>2. o[l - 1] = 2 * (l - 1)
      BY <2>1
    <2>3. Placed(pair(l), s, 2 * (l - 1))
      BY <1>2, <1>5, <2>2
    <2>4. 1 \in 1..2 /\ 2 \in 1..2 /\ 2 * (l - 1) + 1 = 2 * l - 1 /\ 2 * (l - 1) + 2 = 2 * l
      BY <1>0
    <2>5. s[2 * (l - 1) + 1] = pair(l)[1] /\ s[2 * (l - 1) + 2] = pair(l)[2]
      BY <1>1, <2>3, <2>4 DEF Placed
    <2> QED BY <1>1, <2>4, <2>5
  <1> QED BY <1>4, <1>5, <1>6, <1>7 DEF N

(* A snapshot: the stores of its body, one by one. *)
LEMMA SnapshotStores ==
  LET s == Stores("BookSnapshot")
      N == MaxSnapshotLevels
  IN  /\ s \in Seq(StoreT) /\ Len(s) = 4 + 4 * N
      /\ s[1] = F("symbol", 4) /\ s[2] = F("num_bid_levels", 1)
      /\ s[3] = F("num_ask_levels", 1) /\ s[4] = F("reserved", 2)
      /\ \A l \in 1..N : /\ s[4 + (2 * l - 1)] = Store("bids", l, 8)
                         /\ s[4 + 2 * l] = Store("bid_qty", l, 4)
                         /\ s[4 + 2 * N + (2 * l - 1)] = Store("asks", l, 8)
                         /\ s[4 + 2 * N + 2 * l] = Store("ask_qty", l, 4)
  <1> DEFINE N == MaxSnapshotLevels
             h == <<F("symbol", 4), F("num_bid_levels", 1), F("num_ask_levels", 1),
                    F("reserved", 2)>>
             b == LevelStores("bids", "bid_qty")
             a == LevelStores("asks", "ask_qty")
             c == h \o b
             s == c \o a
  <1>0. N \in Nat
    BY ByteRangeIs
  <1>1. Stores("BookSnapshot") = s
    BY DEF Stores
  <1>2. /\ h \in Seq(StoreT) /\ Len(h) = 4
        /\ h[1] = F("symbol", 4) /\ h[2] = F("num_bid_levels", 1)
        /\ h[3] = F("num_ask_levels", 1) /\ h[4] = F("reserved", 2)
    <2>1. /\ "symbol" \in FieldNames /\ "num_bid_levels" \in FieldNames
          /\ "num_ask_levels" \in FieldNames /\ "reserved" \in FieldNames
      BY DEF FieldNames
    <2>2. 0 \in Nat /\ 4 \in 1..8 /\ 1 \in 1..8 /\ 2 \in 1..8
      OBVIOUS
    <2>3. /\ F("symbol", 4) \in StoreT /\ F("num_bid_levels", 1) \in StoreT
          /\ F("num_ask_levels", 1) \in StoreT /\ F("reserved", 2) \in StoreT
      BY <2>1, <2>2, StoreFields DEF F
    <2> QED BY <2>3
  <1>3. /\ "bids" \in FieldNames /\ "bid_qty" \in FieldNames
        /\ "asks" \in FieldNames /\ "ask_qty" \in FieldNames
    BY DEF FieldNames
  <1>4. /\ b \in Seq(StoreT) /\ Len(b) = 2 * N
        /\ \A l \in 1..N : b[2 * l - 1] = Store("bids", l, 8) /\ b[2 * l] = Store("bid_qty", l, 4)
    BY <1>3, LevelStoresIs
  <1>5. /\ a \in Seq(StoreT) /\ Len(a) = 2 * N
        /\ \A l \in 1..N : a[2 * l - 1] = Store("asks", l, 8) /\ a[2 * l] = Store("ask_qty", l, 4)
    BY <1>3, LevelStoresIs
  <1> HIDE DEF h, b, a
  <1>6. /\ c \in Seq(StoreT) /\ Len(c) = 4 + 2 * N
        /\ Placed(h, c, 0) /\ Placed(b, c, 4)
    BY <1>2, <1>4, PlacedConcat
  <1> HIDE DEF c
  <1>7. /\ s \in Seq(StoreT) /\ Len(s) = (4 + 2 * N) + 2 * N
        /\ Placed(a, s, 4 + 2 * N) /\ Placed(h, s, 0) /\ Placed(b, s, 4)
    <2>1. /\ s \in Seq(StoreT) /\ Len(s) = Len(c) + Len(a) /\ Placed(a, s, Len(c))
          /\ \A x \in Seq(StoreT), at \in Nat : Placed(x, c, at) => Placed(x, s, at)
      BY <1>5, <1>6, PlacedConcat
    <2>2. Placed(h, s, 0) /\ Placed(b, s, 4)
      BY <1>2, <1>4, <1>6, <2>1
    <2> QED BY <1>5, <1>6, <2>1, <2>2
  <1> HIDE DEF s
  <1>8. s[1] = h[1] /\ s[2] = h[2] /\ s[3] = h[3] /\ s[4] = h[4]
    <2>1. \A j \in 1..4 : s[0 + j] = h[j]
      BY <1>2, <1>7 DEF Placed
    <2>2. s[0 + 1] = h[1] /\ s[0 + 2] = h[2] /\ s[0 + 3] = h[3] /\ s[0 + 4] = h[4]
      BY <2>1
    <2> QED BY <2>2
  <1>9. ASSUME NEW l \in 1..N
        PROVE  /\ s[4 + (2 * l - 1)] = Store("bids", l, 8) /\ s[4 + 2 * l] = Store("bid_qty", l, 4)
               /\ s[4 + 2 * N + (2 * l - 1)] = Store("asks", l, 8)
               /\ s[4 + 2 * N + 2 * l] = Store("ask_qty", l, 4)
    <2>1. 2 * l - 1 \in 1..(2 * N) /\ 2 * l \in 1..(2 * N)
      BY <1>0
    <2>2. s[4 + (2 * l - 1)] = b[2 * l - 1] /\ s[4 + 2 * l] = b[2 * l]
      BY <1>4, <1>7, <2>1 DEF Placed
    <2>3. s[4 + 2 * N + (2 * l - 1)] = a[2 * l - 1] /\ s[4 + 2 * N + 2 * l] = a[2 * l]
      BY <1>5, <1>7, <2>1 DEF Placed
    <2> QED BY <1>4, <1>5, <2>2, <2>3
  <1>10. (4 + 2 * N) + 2 * N = 4 + 4 * N
    BY <1>0
  <1> QED BY <1>1, <1>2, <1>7, <1>8, <1>9, <1>10 DEF N

(* Each of them is one of the first four, or of a level. *)
LEMMA SnapshotIndex ==
  ASSUME NEW N \in Nat, NEW k \in 1..(4 + 4 * N)
  PROVE  \/ k = 1 \/ k = 2 \/ k = 3 \/ k = 4
         \/ \E l \in 1..N : \/ k = 4 + (2 * l - 1) \/ k = 4 + 2 * l
                            \/ k = 4 + 2 * N + (2 * l - 1) \/ k = 4 + 2 * N + 2 * l
  <1>1. CASE k <= 4
    BY <1>1
  <1>2. CASE k > 4 /\ k <= 4 + 2 * N
    <2> DEFINE x == k - 4
               l == (x + 1) \div 2
    <2>1. x \in 1..(2 * N)
      BY <1>2
    <2> HIDE DEF x
    <2>2. l \in 1..N /\ (x = 2 * l - 1 \/ x = 2 * l)
      BY <2>1
    <2> HIDE DEF l
    <2>3. k = 4 + x
      BY DEF x
    <2> QED BY <2>2, <2>3
  <1>3. CASE k > 4 + 2 * N
    <2> DEFINE x == k - (4 + 2 * N)
               l == (x + 1) \div 2
    <2>1. x \in 1..(2 * N)
      BY <1>3
    <2> HIDE DEF x
    <2>2. l \in 1..N /\ (x = 2 * l - 1 \/ x = 2 * l)
      BY <2>1
    <2> HIDE DEF l
    <2>3. k = (4 + 2 * N) + x
      BY DEF x
    <2> QED BY <2>2, <2>3
  <1> QED BY <1>1, <1>2, <1>3

(* Where the stores of a snapshot end. *)
SnapshotEnds ==
  [k \in 0..(4 + 4 * MaxSnapshotLevels) |->
     IF k <= 4 THEN IF k = 0 THEN 0 ELSE <<4, 5, 6, 8>>[k]
     ELSE 8 + 12 * ((k - 4) \div 2) + 8 * ((k - 4) % 2)]

(* The places after the fixed fields, after every price and after every    *)
(* quantity.                                                               *)
LEMMA SnapshotEndsIs ==
  LET o == SnapshotEnds
      N == MaxSnapshotLevels
  IN  /\ o \in [0..(4 + 4 * N) -> Nat]
      /\ o[0] = 0 /\ o[1] = 4 /\ o[2] = 5 /\ o[3] = 6 /\ o[4] = 8
      /\ \A x \in 0..(2 * N) : o[4 + 2 * x] = 8 + 12 * x
      /\ \A x \in 1..(2 * N) : o[4 + (2 * x - 1)] = 8 + 12 * (x - 1) + 8
  <1> DEFINE N == MaxSnapshotLevels
             n == 4 + 4 * N
             v(k) == IF k <= 4 THEN IF k = 0 THEN 0 ELSE <<4, 5, 6, 8>>[k]
                     ELSE 8 + 12 * ((k - 4) \div 2) + 8 * ((k - 4) % 2)
             o == SnapshotEnds
  <1>0. N \in Nat /\ n \in Nat
    BY ByteRangeIs
  <1>1. v(0) = 0 /\ v(1) = 4 /\ v(2) = 5 /\ v(3) = 6 /\ v(4) = 8
    OBVIOUS
  <1>2. ASSUME NEW k \in 0..n PROVE v(k) \in Nat
    <2>1. CASE k <= 4
      <3>1. k = 0 \/ k = 1 \/ k = 2 \/ k = 3 \/ k = 4
        BY <2>1
      <3> QED BY <3>1
    <2>2. CASE k > 4
      <3>1. k - 4 \in Nat
        BY <2>2
      <3>2. (k - 4) \div 2 \in Nat /\ (k - 4) % 2 \in Nat
        BY <3>1
      <3> QED BY <2>2, <3>2
    <2> QED BY <1>0, <2>1, <2>2
  <1>3. ASSUME NEW x \in 0..(2 * N), x > 0 PROVE v(4 + 2 * x) = 8 + 12 * x
    <2>1. ~(4 + 2 * x <= 4) /\ (4 + 2 * x) - 4 = 2 * x
      BY <1>0, <1>3
    <2>2. (2 * x) \div 2 = x /\ (2 * x) % 2 = 0
      BY <1>0
    <2> QED BY <1>0, <2>1, <2>2
  <1>4. ASSUME NEW x \in 1..(2 * N) PROVE v(4 + (2 * x - 1)) = 8 + 12 * (x - 1) + 8
    <2>1. ~(4 + (2 * x - 1) <= 4) /\ (4 + (2 * x - 1)) - 4 = 2 * (x - 1) + 1
      BY <1>0
    <2>2. (2 * (x - 1) + 1) \div 2 = x - 1 /\ (2 * (x - 1) + 1) % 2 = 1
      BY <1>0
    <2> QED BY <1>0, <2>1, <2>2
  <1>5. o = [k \in 0..n |-> v(k)]
    BY DEF SnapshotEnds
  <1> HIDE DEF o, v
  <1>6. o \in [0..n -> Nat] /\ \A k \in 0..n : o[k] = v(k)
    BY <1>2, <1>5
  <1>7. o[0] = 0 /\ o[1] = 4 /\ o[2] = 5 /\ o[3] = 6 /\ o[4] = 8
    <2>1. 0 \in 0..n /\ 1 \in 0..n /\ 2 \in 0..n /\ 3 \in 0..n /\ 4 \in 0..n
      BY <1>0
    <2> QED BY <1>1, <1>6, <2>1
  <1>8. ASSUME NEW x \in 0..(2 * N) PROVE o[4 + 2 * x] = 8 + 12 * x
    <2>1. CASE x = 0
      BY <1>7, <2>1
    <2>2. CASE x > 0
      <3>1. 4 + 2 * x \in 0..n
        BY <1>0
      <3> QED BY <1>3, <1>6, <2>2, <3>1
    <2> QED BY <1>0, <2>1, <2>2
  <1>9. ASSUME NEW x \in 1..(2 * N) PROVE o[4 + (2 * x - 1)] = 8 + 12 * (x - 1) + 8
    <2>1. 4 + (2 * x - 1) \in 0..n
      BY <1>0
    <2> QED BY <1>4, <1>6, <2>1
  <1> QED BY <1>6, <1>7, <1>8, <1>9 DEF o, N, n

(* A store of a level and where it begins and ends. *)
StoredFrom(s, o, k, name, l, width, at) ==
  /\ k \in 1..Len(s) /\ s[k] = Store(name, l, width) /\ s[k].field = <<name, l>>
  /\ s[k].width = width /\ o[k - 1] = at /\ o[k] = at + width
  /\ LoadOf(s[k], o[k - 1]) = Load(name, l, at, width)

(* Where the stores of a snapshot are, by name and level. *)
LEMMA SnapshotPlaces ==
  LET s == Stores("BookSnapshot")
      o == SnapshotEnds
      N == MaxSnapshotLevels
  IN  /\ StoredFrom(s, o, 1, "symbol", 0, 4, 0) /\ StoredFrom(s, o, 2, "num_bid_levels", 0, 1, 4)
      /\ StoredFrom(s, o, 3, "num_ask_levels", 0, 1, 5) /\ StoredFrom(s, o, 4, "reserved", 0, 2, 6)
      /\ \A l \in 1..N :
           LET at == 8 + 12 * (l - 1)
               off == 8 + 12 * N + 12 * (l - 1)
           IN  /\ StoredFrom(s, o, 4 + (2 * l - 1), "bids", l, 8, at)
               /\ StoredFrom(s, o, 4 + 2 * l, "bid_qty", l, 4, at + 8)
               /\ StoredFrom(s, o, 4 + 2 * N + (2 * l - 1), "asks", l, 8, off)
               /\ StoredFrom(s, o, 4 + 2 * N + 2 * l, "ask_qty", l, 4, off + 8)
  <1> DEFINE s == Stores("BookSnapshot")
             o == SnapshotEnds
             N == MaxSnapshotLevels
             n == Len(s)
  <1>0. N \in Nat /\ n = 4 + 4 * N
    BY ByteRangeIs, SnapshotStores
  <1>1. /\ s[1] = Store("symbol", 0, 4) /\ s[2] = Store("num_bid_levels", 0, 1)
        /\ s[3] = Store("num_ask_levels", 0, 1) /\ s[4] = Store("reserved", 0, 2)
        /\ \A l \in 1..N : /\ s[4 + (2 * l - 1)] = Store("bids", l, 8)
                           /\ s[4 + 2 * l] = Store("bid_qty", l, 4)
                           /\ s[4 + 2 * N + (2 * l - 1)] = Store("asks", l, 8)
                           /\ s[4 + 2 * N + 2 * l] = Store("ask_qty", l, 4)
    BY SnapshotStores DEF F
  <1>2. /\ o \in [0..n -> Nat]
        /\ o[0] = 0 /\ o[1] = 4 /\ o[2] = 5 /\ o[3] = 6 /\ o[4] = 8
        /\ \A x \in 0..(2 * N) : o[4 + 2 * x] = 8 + 12 * x
        /\ \A x \in 1..(2 * N) : o[4 + (2 * x - 1)] = 8 + 12 * (x - 1) + 8
    BY <1>0, SnapshotEndsIs
  <1> HIDE DEF s, o, n, N
  <1>3. ASSUME NEW k \in 1..n, NEW name \in FieldNames, NEW l \in Nat, NEW width \in 1..8,
               NEW at, s[k] = Store(name, l, width), o[k - 1] = at, o[k] = at + width
        PROVE  StoredFrom(s, o, k, name, l, width, at)
    <2>1. /\ Store(name, l, width).field = <<name, l>> /\ Store(name, l, width).width = width
          /\ LoadOf(Store(name, l, width), at) = Load(name, l, at, width)
      BY <1>3, StoreFields
    <2> QED BY <1>3, <2>1 DEF StoredFrom, n
  <1>4. /\ "symbol" \in FieldNames /\ "num_bid_levels" \in FieldNames
        /\ "num_ask_levels" \in FieldNames /\ "reserved" \in FieldNames
        /\ "bids" \in FieldNames /\ "bid_qty" \in FieldNames
        /\ "asks" \in FieldNames /\ "ask_qty" \in FieldNames
    BY DEF FieldNames
  <1>5. 0 \in Nat /\ 1 \in 1..8 /\ 2 \in 1..8 /\ 4 \in 1..8 /\ 8 \in 1..8
    OBVIOUS
  <1>6. StoredFrom(s, o, 1, "symbol", 0, 4, 0)
    <2>1. 1 \in 1..n /\ o[1 - 1] = 0 /\ o[1] = 0 + 4
      BY <1>0, <1>2
    <2> QED BY <1>1, <1>3, <1>4, <1>5, <2>1
  <1>7. StoredFrom(s, o, 2, "num_bid_levels", 0, 1, 4)
    <2>1. 2 \in 1..n /\ o[2 - 1] = 4 /\ o[2] = 4 + 1
      BY <1>0, <1>2
    <2> QED BY <1>1, <1>3, <1>4, <1>5, <2>1
  <1>8. StoredFrom(s, o, 3, "num_ask_levels", 0, 1, 5)
    <2>1. 3 \in 1..n /\ o[3 - 1] = 5 /\ o[3] = 5 + 1
      BY <1>0, <1>2
    <2> QED BY <1>1, <1>3, <1>4, <1>5, <2>1
  <1>9. StoredFrom(s, o, 4, "reserved", 0, 2, 6)
    <2>1. 4 \in 1..n /\ o[4 - 1] = 6 /\ o[4] = 6 + 2
      BY <1>0, <1>2
    <2> QED BY <1>1, <1>3, <1>4, <1>5, <2>1
  <1>10. ASSUME NEW x \in 1..(2 * N)
         PROVE  /\ o[(4 + (2 * x - 1)) - 1] = 8 + 12 * (x - 1)
                /\ o[4 + (2 * x - 1)] = (8 + 12 * (x - 1)) + 8
                /\ o[(4 + 2 * x) - 1] = (8 + 12 * (x - 1)) + 8
                /\ o[4 + 2 * x] = ((8 + 12 * (x - 1)) + 8) + 4
    <2>1. x - 1 \in 0..(2 * N) /\ x \in 0..(2 * N)
          /\ (4 + (2 * x - 1)) - 1 = 4 + 2 * (x - 1) /\ (4 + 2 * x) - 1 = 4 + (2 * x - 1)
      BY <1>0
    <2>2. 8 + 12 * x = ((8 + 12 * (x - 1)) + 8) + 4
      BY <1>0
    <2> QED BY <1>2, <2>1, <2>2
  <1>11. ASSUME NEW l \in 1..N
         PROVE  /\ StoredFrom(s, o, 4 + (2 * l - 1), "bids", l, 8, 8 + 12 * (l - 1))
                /\ StoredFrom(s, o, 4 + 2 * l, "bid_qty", l, 4, (8 + 12 * (l - 1)) + 8)
    <2>1. l \in 1..(2 * N) /\ l \in Nat /\ 4 + (2 * l - 1) \in 1..n /\ 4 + 2 * l \in 1..n
      BY <1>0
    <2>2. StoredFrom(s, o, 4 + (2 * l - 1), "bids", l, 8, 8 + 12 * (l - 1))
      BY <1>1, <1>3, <1>4, <1>5, <1>10, <2>1
    <2>3. StoredFrom(s, o, 4 + 2 * l, "bid_qty", l, 4, (8 + 12 * (l - 1)) + 8)
      BY <1>1, <1>3, <1>4, <1>5, <1>10, <2>1
    <2> QED BY <2>2, <2>3
  <1>12. ASSUME NEW l \in 1..N
         PROVE  LET off == 8 + 12 * N + 12 * (l - 1)
                IN  /\ StoredFrom(s, o, 4 + 2 * N + (2 * l - 1), "asks", l, 8, off)
                    /\ StoredFrom(s, o, 4 + 2 * N + 2 * l, "ask_qty", l, 4, off + 8)
    <2> DEFINE x == N + l
               j == 4 + 2 * N + (2 * l - 1)
               k == 4 + 2 * N + 2 * l
               off == 8 + 12 * N + 12 * (l - 1)
    <2>1. x \in 1..(2 * N) /\ l \in Nat /\ j \in 1..n /\ k \in 1..n
      BY <1>0
    <2>2. j = 4 + (2 * x - 1) /\ k = 4 + 2 * x /\ off = 8 + 12 * (x - 1)
      BY <1>0
    <2>3. s[j] = Store("asks", l, 8) /\ s[k] = Store("ask_qty", l, 4)
      BY <1>1
    <2> HIDE DEF x, j, k, off
    <2>4. o[j - 1] = off /\ o[j] = off + 8 /\ o[k - 1] = off + 8 /\ o[k] = (off + 8) + 4
      BY <1>10, <2>1, <2>2
    <2>5. StoredFrom(s, o, j, "asks", l, 8, off)
      BY <1>3, <1>4, <1>5, <2>1, <2>3, <2>4
    <2>6. StoredFrom(s, o, k, "ask_qty", l, 4, off + 8)
      BY <1>3, <1>4, <1>5, <2>1, <2>3, <2>4
    <2> QED BY <2>5, <2>6 DEF j, k, off
  <1> QED BY <1>6, <1>7, <1>8, <1>9, <1>11, <1>12 DEF s, o, N

(* The index of the store of a field. *)
SnapshotIndexOf(f) ==
  CASE f[1] = "symbol" -> 1
    [] f[1] = "num_bid_levels" -> 2
    [] f[1] = "num_ask_levels" -> 3
    [] f[1] = "reserved" -> 4
    [] f[1] = "bids" -> 4 + (2 * f[2] - 1)
    [] f[1] = "bid_qty" -> 4 + 2 * f[2]
    [] f[1] = "asks" -> 4 + 2 * MaxSnapshotLevels + (2 * f[2] - 1)
    [] f[1] = "ask_qty" -> 4 + 2 * MaxSnapshotLevels + 2 * f[2]

(* A snapshot: off and the stride of 12 in decode_body follow the two loops *)
(* of encode_body.                                                         *)
LEMMA SnapshotLaidOut ==
  \E o : LaidOut(Stores("BookSnapshot"), Loads("BookSnapshot"), BodySizeFor("BookSnapshot"), o)
  <1> DEFINE s == Stores("BookSnapshot")
             o == SnapshotEnds
             N == MaxSnapshotLevels
             n == Len(s)
             loads == Loads("BookSnapshot")
             K == Loaded(s)
             G == {LoadOf(s[k], o[k - 1]) : k \in K}
             bid(l) == 4 + (2 * l - 1)
             bidq(l) == 4 + 2 * l
             ask(l) == 4 + 2 * N + (2 * l - 1)
             askq(l) == 4 + 2 * N + 2 * l
             at(l) == 8 + 12 * (l - 1)
             off(l) == 8 + 12 * N + 12 * (l - 1)
  <1>0. N \in Nat /\ n = 4 + 4 * N /\ s \in Seq(StoreT)
    BY ByteRangeIs, SnapshotStores
  <1>1. /\ StoredFrom(s, o, 1, "symbol", 0, 4, 0) /\ StoredFrom(s, o, 2, "num_bid_levels", 0, 1, 4)
        /\ StoredFrom(s, o, 3, "num_ask_levels", 0, 1, 5)
        /\ StoredFrom(s, o, 4, "reserved", 0, 2, 6)
    BY SnapshotPlaces
  <1>2. ASSUME NEW l \in 1..N
        PROVE  /\ StoredFrom(s, o, bid(l), "bids", l, 8, at(l))
               /\ StoredFrom(s, o, bidq(l), "bid_qty", l, 4, at(l) + 8)
               /\ StoredFrom(s, o, ask(l), "asks", l, 8, off(l))
               /\ StoredFrom(s, o, askq(l), "ask_qty", l, 4, off(l) + 8)
    BY SnapshotPlaces
  <1>3. o \in [0..n -> Nat] /\ o[0] = 0 /\ o[n] = 8 + 24 * N
    <2>1. /\ o \in [0..(4 + 4 * N) -> Nat] /\ o[0] = 0
          /\ \A x \in 0..(2 * N) : o[4 + 2 * x] = 8 + 12 * x
      BY SnapshotEndsIs
    <2>2. 2 * N \in 0..(2 * N) /\ 4 + 2 * (2 * N) = n /\ 8 + 12 * (2 * N) = 8 + 24 * N
      BY <1>0
    <2>3. o[4 + 2 * (2 * N)] = 8 + 12 * (2 * N)
      BY <2>1, <2>2
    <2> QED BY <1>0, <2>1, <2>2, <2>3
  <1>4. BodySizeFor("BookSnapshot") = 8 + 24 * N
    BY <1>0 DEF BodySizeFor, kSnapshotBodySize
  <1> HIDE DEF s, o, n, N, loads
  <1>5. ASSUME NEW k \in 1..n
        PROVE  \/ k = 1 \/ k = 2 \/ k = 3 \/ k = 4
               \/ \E l \in 1..N : k = bid(l) \/ k = bidq(l) \/ k = ask(l) \/ k = askq(l)
    BY <1>0, SnapshotIndex
  <1> HIDE DEF bid, bidq, ask, askq, at, off
  <1>6. ASSUME NEW k \in 1..n
        PROVE  o[k] = o[k - 1] + s[k].width
    <2>1. ASSUME NEW name, NEW l, NEW w, NEW a, StoredFrom(s, o, k, name, l, w, a)
          PROVE  o[k] = o[k - 1] + s[k].width
      BY <2>1 DEF StoredFrom
    <2> QED BY <1>1, <1>2, <1>5, <2>1
  <1>7. ASSUME NEW k \in 1..n
        PROVE  k = SnapshotIndexOf(s[k].field)
    <2>1. CASE k = 1 \/ k = 2 \/ k = 3 \/ k = 4
      BY <1>1, <2>1 DEF StoredFrom, SnapshotIndexOf
    <2>2. ASSUME NEW l \in 1..N, k = bid(l) \/ k = bidq(l) \/ k = ask(l) \/ k = askq(l)
          PROVE  k = SnapshotIndexOf(s[k].field)
      <3>1. CASE k = bid(l)
        <4>1. s[k].field = <<"bids", l>>
          BY <1>2, <3>1 DEF StoredFrom
        <4> QED BY <3>1, <4>1 DEF SnapshotIndexOf, bid
      <3>2. CASE k = bidq(l)
        <4>1. s[k].field = <<"bid_qty", l>>
          BY <1>2, <3>2 DEF StoredFrom
        <4> QED BY <3>2, <4>1 DEF SnapshotIndexOf, bidq
      <3>3. CASE k = ask(l)
        <4>1. s[k].field = <<"asks", l>>
          BY <1>2, <3>3 DEF StoredFrom
        <4> QED BY <3>3, <4>1 DEF SnapshotIndexOf, ask, N
      <3>4. CASE k = askq(l)
        <4>1. s[k].field = <<"ask_qty", l>>
          BY <1>2, <3>4 DEF StoredFrom
        <4> QED BY <3>4, <4>1 DEF SnapshotIndexOf, askq, N
      <3> QED BY <2>2, <3>1, <3>2, <3>3, <3>4
    <2> QED BY <1>5, <2>1, <2>2
  <1>8. ASSUME NEW k \in 1..n, s[k].field[1] = "reserved"
        PROVE  s[k].field = <<"reserved", 0>>
    <2>1. k = 4
      BY <1>7, <1>8 DEF SnapshotIndexOf
    <2> QED BY <1>1, <2>1 DEF StoredFrom
  <1>9. Ends(s, 8 + 24 * N, o)
    <2>1. \A j, k \in 1..n : s[j].field = s[k].field => j = k
      BY <1>7
    <2> QED BY <1>0, <1>3, <1>6, <1>8, <2>1 DEF Ends, n
  <1>10. ASSUME NEW k, NEW name, name # "reserved", NEW l, NEW w, NEW a,
                StoredFrom(s, o, k, name, l, w, a)
         PROVE  Load(name, l, a, w) \in G
    <2>1. k \in 1..n /\ s[k].field = <<name, l>> /\ LoadOf(s[k], o[k - 1]) = Load(name, l, a, w)
      BY <1>10 DEF StoredFrom, n
    <2>2. s[k].field[1] = name
      BY <2>1
    <2>3. k \in K
      BY <1>10, <2>1, <2>2 DEF Loaded, n
    <2> HIDE DEF K
    <2> QED BY <2>1, <2>3
  <1>11. /\ At("symbol", 0, 4) \in G /\ At("num_bid_levels", 4, 1) \in G
         /\ At("num_ask_levels", 5, 1) \in G
         /\ \A l \in 1..N : /\ Load("bids", l, at(l), 8) \in G
                            /\ Load("bid_qty", l, at(l) + 8, 4) \in G
                            /\ Load("asks", l, off(l), 8) \in G
                            /\ Load("ask_qty", l, off(l) + 8, 4) \in G
    <2> HIDE DEF G
    <2> QED BY <1>1, <1>2, <1>10 DEF At
  <1> DEFINE H == {At("symbol", 0, 4), At("num_bid_levels", 4, 1), At("num_ask_levels", 5, 1)}
             LB(l) == {Load("bids", l, at(l), 8), Load("bid_qty", l, at(l) + 8, 4)}
             LA(l) == {Load("asks", l, off(l), 8), Load("ask_qty", l, off(l) + 8, 4)}
  <1>12. \A r : r \in loads <=> r \in H \/ \E l \in 1..N : r \in LB(l) \/ r \in LA(l)
    <2>1. LevelLoads("bids", "bid_qty", 8) = UNION {LB(l) : l \in 1..N}
      BY DEF LevelLoads, at, N
    <2>2. LevelLoads("asks", "ask_qty", 8 + 12 * N) = UNION {LA(l) : l \in 1..N}
      BY DEF LevelLoads, off, N
    <2>3. loads = H \cup LevelLoads("bids", "bid_qty", 8)
                    \cup LevelLoads("asks", "ask_qty", 8 + 12 * N)
      BY DEF loads, Loads, N
    <2> HIDE DEF H, LB, LA
    <2>4. \A r : r \in loads <=> \/ r \in H \/ r \in UNION {LB(l) : l \in 1..N}
                                 \/ r \in UNION {LA(l) : l \in 1..N}
      BY <2>1, <2>2, <2>3
    <2> QED BY <2>4
  <1>13. loads \subseteq G
    <2> HIDE DEF G
    <2> SUFFICES ASSUME NEW r \in loads PROVE r \in G
      OBVIOUS
    <2>1. CASE r \in H
      BY <1>11, <2>1
    <2>2. ASSUME NEW l \in 1..N, r \in LB(l) \/ r \in LA(l) PROVE r \in G
      BY <1>11, <2>2
    <2> HIDE DEF H, LB, LA
    <2> QED BY <1>12, <2>1, <2>2
  <1>14. G \subseteq loads
    <2> SUFFICES ASSUME NEW k \in K PROVE LoadOf(s[k], o[k - 1]) \in loads
      OBVIOUS
    <2>1. k \in 1..n /\ s[k].field[1] # "reserved"
      BY DEF Loaded, n
    <2>2. k # 4
      BY <1>1, <2>1 DEF StoredFrom
    <2>3. CASE k = 1 \/ k = 2 \/ k = 3
      <3>1. LoadOf(s[k], o[k - 1]) \in H
        BY <1>1, <2>3 DEF StoredFrom, At
      <3> HIDE DEF K, G, H, LB, LA
      <3> QED BY <1>12, <3>1
    <2>4. ASSUME NEW l \in 1..N, k = bid(l) \/ k = bidq(l) \/ k = ask(l) \/ k = askq(l)
          PROVE  LoadOf(s[k], o[k - 1]) \in loads
      <3>1. LoadOf(s[k], o[k - 1]) \in LB(l) \/ LoadOf(s[k], o[k - 1]) \in LA(l)
        BY <1>2, <2>4 DEF StoredFrom
      <3> HIDE DEF K, G, H, LB, LA
      <3> QED BY <1>12, <3>1
    <2> QED BY <1>5, <2>1, <2>2, <2>3, <2>4
  <1>15. loads = G
    BY <1>13, <1>14
  <1>16. LaidOut(s, loads, 8 + 24 * N, o)
    BY <1>9, <1>15, LoadsLaidOut
  <1> QED BY <1>4, <1>16 DEF s, loads

-----------------------------------------------------------------------------
(* Messages.                                                               *)

(* MsgType and body_size_for: no two types have the same code, and only an  *)
(* add and a trade have bodies of the same size.                           *)
LEMMA TypesAre ==
  /\ AllTypes = {"AddOrder", "CancelOrder", "ModifyOrder", "Trade", "BookSnapshot", "Heartbeat"}
  /\ Len(Types) = 5
  /\ \A c \in 0..5 : \E t \in AllTypes :
       TypeCode(t) = c /\ t = IF c = 0 THEN "Heartbeat" ELSE Types[c]
  /\ \A t \in AllTypes : /\ TypeCode(t) \in 0..5
                         /\ t = IF TypeCode(t) = 0 THEN "Heartbeat" ELSE Types[TypeCode(t)]
  <1>1. /\ Len(Types) = 5 /\ DOMAIN Types = 1..5
        /\ Types[1] = "AddOrder" /\ Types[2] = "CancelOrder" /\ Types[3] = "ModifyOrder"
        /\ Types[4] = "Trade" /\ Types[5] = "BookSnapshot"
    BY DEF Types
  <1>2. ASSUME NEW c \in 1..5 PROVE c = 1 \/ c = 2 \/ c = 3 \/ c = 4 \/ c = 5
    OBVIOUS
  <1>3. AllTypes = {"AddOrder", "CancelOrder", "ModifyOrder", "Trade", "BookSnapshot", "Heartbeat"}
    <2>1. Range(Types) = {Types[c] : c \in 1..5}
      BY <1>1 DEF Range
    <2>2. {Types[c] : c \in 1..5}
            = {"AddOrder", "CancelOrder", "ModifyOrder", "Trade", "BookSnapshot"}
      BY <1>1, <1>2
    <2> QED BY <2>1, <2>2 DEF AllTypes
  <1>4. ASSUME NEW c \in 1..5
        PROVE  /\ TypeCode(Types[c]) = c /\ Types[c] # "Heartbeat" /\ Types[c] \in AllTypes
    <2>1. \A d \in 1..5 : Types[d] = Types[c] => d = c
      BY <1>1, <1>2
    <2>2. Types[c] # "Heartbeat" /\ Types[c] \in AllTypes
      BY <1>1, <1>2, <1>3
    <2>3. TypeCode(Types[c]) = CHOOSE d \in 1..5 : Types[d] = Types[c]
      BY <1>1, <2>2 DEF TypeCode
    <2> QED BY <2>1, <2>2, <2>3
  <1>5. TypeCode("Heartbeat") = 0
    BY DEF TypeCode
  <1>6. ASSUME NEW t \in AllTypes PROVE t = "Heartbeat" \/ \E c \in 1..5 : t = Types[c]
    BY <1>1, <1>3
  <1>7. ASSUME NEW c \in 0..5
        PROVE  \E t \in AllTypes : TypeCode(t) = c /\ t = IF c = 0 THEN "Heartbeat" ELSE Types[c]
    <2>1. CASE c = 0
      BY <1>3, <1>5, <2>1
    <2>2. CASE c # 0
      <3>1. c \in 1..5
        BY <2>2
      <3> QED BY <1>4, <2>2, <3>1
    <2> QED BY <2>1, <2>2
  <1>8. ASSUME NEW t \in AllTypes
        PROVE  /\ TypeCode(t) \in 0..5
               /\ t = IF TypeCode(t) = 0 THEN "Heartbeat" ELSE Types[TypeCode(t)]
    <2>1. CASE t = "Heartbeat"
      BY <1>5, <2>1
    <2>2. ASSUME NEW c \in 1..5, t = Types[c]
          PROVE  /\ TypeCode(t) \in 0..5
                 /\ t = IF TypeCode(t) = 0 THEN "Heartbeat" ELSE Types[TypeCode(t)]
      <3>1. c \in 0..5 /\ c # 0
        OBVIOUS
      <3> QED BY <1>4, <2>2, <3>1
    <2> QED BY <1>6, <2>1, <2>2
  <1> QED BY <1>1, <1>3, <1>7, <1>8

(* body_size_for: every size fits the two bytes of the header and the       *)
(* largest buffer, and only an add and a trade have the same.              *)
LEMMA SizesAre ==
  /\ \A t \in AllTypes : BodySizeFor(t) \in 0..(ByteRange * ByteRange - 1)
  /\ \A t \in AllTypes : kHeaderWireSize + BodySizeFor(t) <= kMaxMessageSize
  /\ \A t, w \in AllTypes :
       BodySizeFor(t) = BodySizeFor(w) => t = w \/ {t, w} = {"AddOrder", "Trade"}
  <1> DEFINE N == MaxSnapshotLevels
             z == 8 + 24 * N
  <1>0. N \in Nat \ {0} /\ ByteRange \in Nat /\ ByteRange > 5
    BY ByteRangeIs
  <1>1. /\ BodySizeFor("Heartbeat") = 0 /\ BodySizeFor("AddOrder") = 25
        /\ BodySizeFor("CancelOrder") = 12 /\ BodySizeFor("ModifyOrder") = 24
        /\ BodySizeFor("Trade") = 25
    BY DEF BodySizeFor, kAddOrderBodySize, kCancelOrderBodySize, kModifyOrderBodySize,
           kTradeBodySize
  <1>2. BodySizeFor("BookSnapshot") = z /\ kSnapshotBodySize = z
    BY <1>0 DEF BodySizeFor, kSnapshotBodySize
  <1>3. z \in Nat /\ z < ByteRange * ByteRange /\ z >= 32
    BY <1>0, <1>2, CodecAssumption
  <1> HIDE DEF z
  <1>4. \A t \in AllTypes : BodySizeFor(t) \in {0, 25, 12, 24, z}
    BY <1>1, <1>2, TypesAre
  <1>5. ByteRange * ByteRange \in Nat /\ ByteRange * ByteRange >= 36
    BY <1>0
  <1>6. \A t \in AllTypes : BodySizeFor(t) \in 0..(ByteRange * ByteRange - 1) /\ BodySizeFor(t) <= z
    <2> DEFINE b == ByteRange * ByteRange
    <2>1. b \in Nat /\ b >= 36 /\ z < b
      BY <1>3, <1>5
    <2> HIDE DEF b
    <2>2. \A x \in {0, 25, 12, 24, z} : x \in 0..(b - 1) /\ x <= z
      BY <1>3, <2>1
    <2> QED BY <1>4, <2>2 DEF b
  <1>7. \A t \in AllTypes : kHeaderWireSize + BodySizeFor(t) <= kMaxMessageSize
    <2>1. \A t \in AllTypes : BodySizeFor(t) \in Nat
      BY <1>3, <1>4
    <2> QED BY <1>2, <1>3, <1>6, <2>1 DEF kMaxMessageSize, kHeaderWireSize
  <1>8. ASSUME NEW t \in AllTypes, NEW w \in AllTypes, BodySizeFor(t) = BodySizeFor(w)
        PROVE  t = w \/ {t, w} = {"AddOrder", "Trade"}
    <2>1. z # 0 /\ z # 25 /\ z # 12 /\ z # 24
      BY <1>3
    <2>2. t = w \/ (t = "AddOrder" /\ w = "Trade") \/ (t = "Trade" /\ w = "AddOrder")
      BY <1>1, <1>2, <1>8, <2>1, TypesAre
    <2> QED BY <2>2
  <1> QED BY <1>6, <1>7, <1>8

(* Every body is laid out as it is read. *)
LEMMA EveryLaidOut ==
  ASSUME NEW t \in AllTypes
  PROVE  \E o : LaidOut(Stores(t), Loads(t), BodySizeFor(t), o)
  BY TypesAre, AddLaidOut, CancelLaidOut, ModifyLaidOut, TradeLaidOut, SnapshotLaidOut,
     HeartbeatLaidOut

(* The fields of a type are those that are loaded; the loads lie inside the *)
(* body, and those of two fields do not overlap.                           *)
LEMMA LoadsAre ==
  ASSUME NEW t \in AllTypes
  PROVE  /\ Loads(t) \subseteq LoadT /\ Fields(t) = {r.field : r \in Loads(t)}
         /\ \A r \in Loads(t) : r.at + r.width <= BodySizeFor(t)
         /\ \A r, q \in Loads(t) :
              r = q \/ (r.field # q.field /\ (r.at + r.width <= q.at \/ q.at + q.width <= r.at))
  <1> DEFINE s == Stores(t)
             n == Len(s)
             size == BodySizeFor(t)
  <1>1. PICK o : LaidOut(s, Loads(t), size, o)
    BY EveryLaidOut
  <1>2. /\ s \in Seq(StoreT) /\ n \in Nat /\ Loads(t) \subseteq LoadT
        /\ o \in [0..n -> Nat] /\ o[n] = size
        /\ \A k \in 1..n : s[k] \in StoreT /\ o[k] = o[k - 1] + s[k].width
    BY <1>1 DEF LaidOut
  <1>3. Fields(t) = {r.field : r \in Loads(t)}
    <2>0. Range(s) = {s[k] : k \in 1..n}
      BY <1>2 DEF Range
    <2>1. ASSUME NEW f \in Fields(t) PROVE f \in {r.field : r \in Loads(t)}
      <3>1. PICK x \in Range(s) : x.field = f
        BY DEF Fields
      <3>2. PICK k \in 1..n : x = s[k]
        BY <2>0
      <3>3. s[k].field[1] # "reserved"
        BY <1>1, <2>1, <3>1, <3>2 DEF LaidOut, Fields
      <3> QED BY <1>1, <3>1, <3>2, <3>3 DEF LaidOut
    <2>2. ASSUME NEW r \in Loads(t) PROVE r.field \in Fields(t)
      <3>1. PICK k \in 1..n : s[k].field = r.field
        BY <1>1 DEF LaidOut
      <3>2. r.field # <<"reserved", 0>>
        BY <1>1 DEF LaidOut
      <3>3. s[k] \in Range(s)
        BY <2>0
      <3> QED BY <3>1, <3>2, <3>3 DEF Fields
    <2> QED BY <2>1, <2>2
  <1> DEFINE seqs == [k \in 1..n |-> [j \in 1..s[k].width |-> 0]]
  <1>4. \A i, k \in 0..n : i <= k => o[i] <= o[k]
    <2>1. ASSUME NEW k \in 1..n PROVE seqs[k] \in Seq({0}) /\ Len(seqs[k]) = s[k].width
      <3>1. s[k].width \in Nat
        <4>1. s[k] \in StoreT
          BY <1>2
        <4> HIDE DEF s
        <4>2. s[k].width \in 1..8
          BY <4>1 DEF StoreT
        <4> QED BY <4>2
      <3>2. seqs[k] = [j \in 1..s[k].width |-> 0]
        OBVIOUS
      <3> QED BY <3>1, <3>2
    <2>2. seqs \in Seq(Seq({0})) /\ Len(seqs) = n
      <3>1. seqs = [k \in 1..n |-> seqs[k]]
        OBVIOUS
      <3> HIDE DEF seqs
      <3>2. seqs \in [1..n -> Seq({0})]
        BY <2>1, <3>1
      <3> QED BY <1>2, <3>2
    <2> HIDE DEF seqs
    <2>3. Borders(seqs, o)
      BY <1>1, <1>2, <2>1, <2>2 DEF Borders, LaidOut
    <2> QED BY <2>2, <2>3, BordersRise
  <1> HIDE DEF s, n, size
  <1>5. ASSUME NEW r \in Loads(t)
        PROVE  \E k \in 1..n : /\ s[k].field = r.field /\ r.at = o[k - 1]
                               /\ r.at + r.width = o[k]
    <2>1. PICK k \in 1..n : s[k].field = r.field /\ s[k].width = r.width /\ o[k - 1] = r.at
      BY <1>1 DEF LaidOut, n
    <2> QED BY <1>2, <2>1
  <1>6. ASSUME NEW r \in Loads(t) PROVE r.at + r.width <= size
    <2>1. PICK k \in 1..n : r.at + r.width = o[k]
      BY <1>5
    <2>2. k \in 0..n /\ n \in 0..n /\ k <= n
      BY <1>2
    <2> QED BY <1>2, <1>4, <2>1, <2>2
  <1>7. ASSUME NEW r \in Loads(t), NEW q \in Loads(t), r # q
        PROVE  r.field # q.field /\ (r.at + r.width <= q.at \/ q.at + q.width <= r.at)
    <2>1. r.field # q.field
      BY <1>1, <1>7 DEF LaidOut
    <2>2. PICK j \in 1..n : s[j].field = r.field /\ r.at = o[j - 1] /\ r.at + r.width = o[j]
      BY <1>5
    <2>3. PICK k \in 1..n : s[k].field = q.field /\ q.at = o[k - 1] /\ q.at + q.width = o[k]
      BY <1>5
    <2>4. j # k
      BY <2>1, <2>2, <2>3
    <2>5. CASE j < k
      <3>1. j \in 0..n /\ k - 1 \in 0..n /\ j <= k - 1
        BY <1>2, <2>5
      <3> QED BY <1>4, <2>1, <2>2, <2>3, <3>1
    <2>6. CASE k < j
      <3>1. k \in 0..n /\ j - 1 \in 0..n /\ k <= j - 1
        BY <1>2, <2>6
      <3> QED BY <1>4, <2>1, <2>2, <2>3, <3>1
    <2> QED BY <1>2, <2>4, <2>5, <2>6
  <1> QED BY <1>2, <1>3, <1>6, <1>7 DEF size

(* The values that a message has. *)
LEMMA MessageIs ==
  ASSUME NEW m \in Message
  PROVE  /\ m.type \in AllTypes
         /\ m.seq \in 0..(Weight[4] - 1) /\ m.ts \in 0..(Weight[8] - 1)
         /\ m.body = [f \in Fields(m.type) |-> m.body[f]]
         /\ \A r \in Loads(m.type) : m.body[r.field] \in Values(r.field[1], r.width)
         /\ m = [type |-> m.type, seq |-> m.seq, ts |-> m.ts, body |-> m.body]
  <1>1. PICK t \in AllTypes, x \in Stamps :
          m \in [type : {t}, seq : {x[1]}, ts : {x[2]}, body : Bodies(t)]
    <2>1. PICK M \in {[type : {u}, seq : {y[1]}, ts : {y[2]}, body : Bodies(u)]
                      : u \in AllTypes, y \in Stamps} : m \in M
      BY DEF Message
    <2>2. PICK u \in AllTypes, y \in Stamps :
            M = [type : {u}, seq : {y[1]}, ts : {y[2]}, body : Bodies(u)]
      BY <2>1
    <2> QED BY <2>1, <2>2
  <1>2. m.type = t /\ m.seq = x[1] /\ m.ts = x[2] /\ m.body \in Bodies(t)
        /\ m = [type |-> m.type, seq |-> m.seq, ts |-> m.ts, body |-> m.body]
    BY <1>1
  <1>3. x[1] \in 0..(Weight[4] - 1) /\ x[2] \in 0..(Weight[8] - 1)
    BY MessageAssumption
  <1>4. /\ m.body = [f \in Fields(t) |-> m.body[f]]
        /\ \A s \in Range(Stores(t)) :
             s.field \in Fields(t) => m.body[s.field] \in Values(s.field[1], s.width)
    BY <1>2, MessageAssumption
  <1>5. ASSUME NEW r \in Loads(t) PROVE m.body[r.field] \in Values(r.field[1], r.width)
    <2>1. PICK o : LaidOut(Stores(t), Loads(t), BodySizeFor(t), o)
      BY EveryLaidOut
    <2>2. PICK k \in 1..Len(Stores(t)) :
            Stores(t)[k].field = r.field /\ Stores(t)[k].width = r.width
      BY <2>1 DEF LaidOut
    <2>3. Stores(t)[k] \in Range(Stores(t))
      BY <2>1 DEF LaidOut, Range
    <2>4. r.field \in Fields(t)
      BY LoadsAre
    <2> QED BY <1>4, <2>2, <2>3, <2>4
  <1> QED BY <1>2, <1>3, <1>4, <1>5

(* What store_le has written is stored where it is placed. *)
LEMMA PlacedIsStored ==
  ASSUME NEW v \in Int, NEW width \in 0..8, NEW full \in Seq(Byte), NEW at \in Nat,
         Placed(StoreLE(v, width), full, at)
  PROVE  Stored(full, at, width, v)
  <1>1. Len(StoreLE(v, width)) = width
    BY StoreIs
  <1>2. DOMAIN full = 1..Len(full)
    OBVIOUS
  <1> QED BY <1>1, <1>2 DEF Placed, Stored

(* encode_header: 16 bytes, every field at its offset. *)
LEMMA HeaderEncoded ==
  ASSUME NEW m \in Message
  PROVE  LET h == EncodeHeader(m)
         IN  /\ h \in Seq(Byte) /\ Len(h) = kHeaderWireSize
             /\ Placed(StoreLE(TypeCode(m.type), 1), h, 0)
             /\ Placed(StoreLE(kProtocolVersion, 1), h, 1)
             /\ Placed(StoreLE(BodySizeFor(m.type), 2), h, 2)
             /\ Placed(StoreLE(m.seq, 4), h, 4) /\ Placed(StoreLE(m.ts, 8), h, 8)
  <1> DEFINE a == StoreLE(TypeCode(m.type), 1)
             b == StoreLE(kProtocolVersion, 1)
             c == StoreLE(BodySizeFor(m.type), 2)
             d == StoreLE(m.seq, 4)
             e == StoreLE(m.ts, 8)
  <1>1. /\ TypeCode(m.type) \in Int /\ BodySizeFor(m.type) \in Int /\ kProtocolVersion \in Int
    <2>1. m.type \in AllTypes
      BY MessageIs
    <2>2. TypeCode(m.type) \in 0..5
      BY <2>1, TypesAre
    <2>3. BodySizeFor(m.type) \in 0..(ByteRange * ByteRange - 1)
      BY <2>1, SizesAre
    <2> QED BY <2>2, <2>3 DEF kProtocolVersion
  <1>2. m.seq \in Int /\ m.ts \in Int
    <2>1. m.seq \in 0..(Weight[4] - 1) /\ m.ts \in 0..(Weight[8] - 1)
      BY MessageIs
    <2> QED BY <2>1
  <1>3. /\ a \in Seq(Byte) /\ Len(a) = 1 /\ b \in Seq(Byte) /\ Len(b) = 1
        /\ c \in Seq(Byte) /\ Len(c) = 2 /\ d \in Seq(Byte) /\ Len(d) = 4
        /\ e \in Seq(Byte) /\ Len(e) = 8
    <2>1. 1 \in 0..8 /\ 2 \in 0..8 /\ 4 \in 0..8 /\ 8 \in 0..8
      OBVIOUS
    <2> QED BY <1>1, <1>2, <2>1, StoreIs
  <1>4. EncodeHeader(m) = (((a \o b) \o c) \o d) \o e
    BY DEF EncodeHeader
  <1> HIDE DEF a, b, c, d, e
  <1> DEFINE ab == a \o b
             abc == ab \o c
             abcd == abc \o d
             h == abcd \o e
  <1>5. ab \in Seq(Byte) /\ Len(ab) = 2 /\ Placed(a, ab, 0) /\ Placed(b, ab, 1)
    <2>1. ab \in Seq(Byte) /\ Len(ab) = Len(a) + Len(b) /\ Placed(a, ab, 0) /\ Placed(b, ab, Len(a))
      BY <1>3, PlacedConcat
    <2> QED BY <1>3, <2>1
  <1> HIDE DEF ab
  <1>6. /\ abc \in Seq(Byte) /\ Len(abc) = 4 /\ Placed(c, abc, 2)
        /\ \A s \in Seq(Byte), at \in Nat : Placed(s, ab, at) => Placed(s, abc, at)
    <2>1. /\ abc \in Seq(Byte) /\ Len(abc) = Len(ab) + Len(c)
          /\ Placed(c, abc, Len(ab))
          /\ \A s \in Seq(Byte), at \in Nat : Placed(s, ab, at) => Placed(s, abc, at)
      BY <1>3, <1>5, PlacedConcat
    <2> QED BY <1>3, <1>5, <2>1
  <1> HIDE DEF abc
  <1>7. /\ abcd \in Seq(Byte) /\ Len(abcd) = 8 /\ Placed(d, abcd, 4)
        /\ \A s \in Seq(Byte), at \in Nat : Placed(s, abc, at) => Placed(s, abcd, at)
    <2>1. /\ abcd \in Seq(Byte) /\ Len(abcd) = Len(abc) + Len(d)
          /\ Placed(d, abcd, Len(abc))
          /\ \A s \in Seq(Byte), at \in Nat : Placed(s, abc, at) => Placed(s, abcd, at)
      BY <1>3, <1>6, PlacedConcat
    <2> QED BY <1>3, <1>6, <2>1
  <1> HIDE DEF abcd
  <1>8. /\ h \in Seq(Byte) /\ Len(h) = 16 /\ Placed(e, h, 8)
        /\ \A s \in Seq(Byte), at \in Nat : Placed(s, abcd, at) => Placed(s, h, at)
    <2>1. /\ h \in Seq(Byte) /\ Len(h) = Len(abcd) + Len(e)
          /\ Placed(e, h, Len(abcd))
          /\ \A s \in Seq(Byte), at \in Nat : Placed(s, abcd, at) => Placed(s, h, at)
      BY <1>3, <1>7, PlacedConcat
    <2> QED BY <1>3, <1>7, <2>1
  <1> HIDE DEF h
  <1>9. Placed(a, h, 0) /\ Placed(b, h, 1) /\ Placed(c, h, 2) /\ Placed(d, h, 4)
    BY <1>3, <1>5, <1>6, <1>7, <1>8
  <1>10. EncodeHeader(m) = h
    BY <1>4 DEF h, abcd, abc, ab
  <1> QED BY <1>8, <1>9, <1>10 DEF a, b, c, d, e, kHeaderWireSize

(* encode_body: as many bytes as body_size_for says, every field where      *)
(* decode_body looks for it.                                               *)
LEMMA BodyEncoded ==
  ASSUME NEW m \in Message
  PROVE  LET b == EncodeBody(m)
         IN  /\ b \in Seq(Byte) /\ Len(b) = BodySizeFor(m.type)
             /\ \A r \in Loads(m.type) :
                  m.body[r.field] \in Int /\ Placed(StoreLE(m.body[r.field], r.width), b, r.at)
  <1> DEFINE t == m.type
             s == Stores(t)
             n == Len(s)
             v(k) == IF s[k].field[1] = "reserved" THEN 0 ELSE m.body[s[k].field]
             seqs == [k \in 1..n |-> StoreLE(v(k), s[k].width)]
  <1>0. t \in AllTypes /\ \A r \in Loads(t) : m.body[r.field] \in Values(r.field[1], r.width)
    BY MessageIs
  <1>1. PICK o : LaidOut(s, Loads(t), BodySizeFor(t), o)
    BY <1>0, EveryLaidOut
  <1>2. /\ s \in Seq(StoreT) /\ n \in Nat /\ DOMAIN s = 1..n /\ \A k \in 1..n : s[k] \in StoreT
    BY <1>1 DEF LaidOut
  <1>3. EncodeBody(m) = FlattenSeq(seqs)
    BY <1>2 DEF EncodeBody
  <1> HIDE DEF s, n
  <1>4. ASSUME NEW r \in Loads(t) PROVE m.body[r.field] \in Int /\ r.width \in 1..8 /\ r.at \in Nat
    <2>1. r \in LoadT
      BY <1>0, LoadsAre
    <2>2. r.width \in 1..8 /\ r.at \in Nat
      BY <2>1 DEF LoadT
    <2> QED BY <1>0, <2>2, ValueBack
  <1>5. ASSUME NEW k \in 1..n
        PROVE  v(k) \in Int /\ s[k].width \in 1..8 /\ s[k].width \in 0..8
    <2>1. s[k].width \in 1..8
      BY <1>2 DEF StoreT
    <2>2. CASE s[k].field[1] = "reserved"
      BY <2>1, <2>2
    <2>3. CASE s[k].field[1] # "reserved"
      <3>1. PICK r \in Loads(t) : r.field = s[k].field
        BY <1>1, <2>3 DEF LaidOut, n
      <3> QED BY <1>4, <2>1, <2>3, <3>1
    <2> QED BY <2>2, <2>3
  <1> HIDE DEF v
  <1>6. ASSUME NEW k \in 1..n
        PROVE  /\ seqs[k] = StoreLE(v(k), s[k].width)
               /\ seqs[k] \in Seq(Byte) /\ Len(seqs[k]) = s[k].width
    <2>1. seqs[k] = StoreLE(v(k), s[k].width)
      OBVIOUS
    <2> DEFINE x == v(k)
               w == s[k].width
    <2>2. x \in Int /\ w \in 0..8
      BY <1>5
    <2> HIDE DEF x, w
    <2>3. StoreLE(x, w) \in Seq(Byte) /\ Len(StoreLE(x, w)) = w
      BY <2>2, StoreIs
    <2> HIDE DEF seqs
    <2> QED BY <2>1, <2>3 DEF x, w
  <1>7. seqs \in Seq(Seq(Byte)) /\ Len(seqs) = n
    <2>1. seqs = [k \in 1..n |-> seqs[k]]
      OBVIOUS
    <2> HIDE DEF seqs
    <2>2. seqs \in [1..n -> Seq(Byte)]
      BY <1>6, <2>1
    <2> QED BY <1>2, <2>2
  <1> HIDE DEF seqs
  <1>8. Borders(seqs, o)
    BY <1>1, <1>6, <1>7 DEF Borders, LaidOut, n
  <1> DEFINE b == FlattenSeq(seqs)
  <1>9. /\ b \in Seq(Byte) /\ Len(b) = o[n]
        /\ \A k \in 1..n : Placed(seqs[k], b, o[k - 1])
    BY <1>7, <1>8, FlattenPlaces
  <1> HIDE DEF b
  <1>10. Len(b) = BodySizeFor(t)
    BY <1>1, <1>9 DEF LaidOut, n
  <1>11. ASSUME NEW r \in Loads(t) PROVE Placed(StoreLE(m.body[r.field], r.width), b, r.at)
    <2>1. PICK k \in 1..n : s[k].field = r.field /\ s[k].width = r.width /\ o[k - 1] = r.at
      BY <1>1 DEF LaidOut, n
    <2>2. r.field[1] # "reserved"
      BY <1>1 DEF LaidOut
    <2>3. v(k) = m.body[r.field]
      BY <2>1, <2>2 DEF v
    <2> QED BY <1>6, <1>9, <2>1, <2>3
  <1> QED BY <1>3, <1>4, <1>9, <1>10, <1>11 DEF b

Encoded(m) == EncodeHeader(m) \o EncodeBody(m)

(* encode_message: the body follows the header. *)
LEMMA MessageEncoded ==
  ASSUME NEW m \in Message
  PROVE  LET e == Encoded(m)
         IN  /\ e \in Seq(Byte) /\ Len(e) = kHeaderWireSize + BodySizeFor(m.type)
             /\ Placed(EncodeHeader(m), e, 0) /\ Placed(EncodeBody(m), e, kHeaderWireSize)
  <1>1. EncodeHeader(m) \in Seq(Byte) /\ Len(EncodeHeader(m)) = kHeaderWireSize
    BY HeaderEncoded
  <1>2. EncodeBody(m) \in Seq(Byte) /\ Len(EncodeBody(m)) = BodySizeFor(m.type)
    BY BodyEncoded
  <1> DEFINE h == EncodeHeader(m)
             b == EncodeBody(m)
  <1>3. h \in Seq(Byte) /\ b \in Seq(Byte)
    BY <1>1, <1>2
  <1> HIDE DEF h, b
  <1>4. /\ h \o b \in Seq(Byte) /\ Len(h \o b) = Len(h) + Len(b)
        /\ Placed(h, h \o b, 0) /\ Placed(b, h \o b, Len(h))
    BY <1>3, PlacedConcat
  <1> QED BY <1>1, <1>2, <1>4 DEF h, b, Encoded

(* A field of the header, loaded from the whole message. *)
LEMMA HeaderBack ==
  ASSUME NEW m \in Message, NEW v, NEW width \in 1..8, NEW at \in Nat,
         v \in 0..(Weight[width] - 1), Placed(StoreLE(v, width), EncodeHeader(m), at)
  PROVE  LoadLE(Encoded(m), at, width) = v
  <1> DEFINE e == Encoded(m)
             h == EncodeHeader(m)
             p == Weight[width]
  <1>0. width \in 0..8 /\ p \in Nat \ {0} /\ v \in Int
    <2>1. width \in 0..8
      OBVIOUS
    <2>2. p \in Nat \ {0}
      BY <2>1, WeightIs
    <2> QED BY <2>1, <2>2
  <1>1. e \in Seq(Byte) /\ Placed(h, e, 0)
    BY MessageEncoded
  <1>2. Len(StoreLE(v, width)) \in Nat
    BY <1>0, StoreIs
  <1>3. 0 \in Nat /\ 0 + at = at
    OBVIOUS
  <1> HIDE DEF e, h
  <1>4. Placed(StoreLE(v, width), e, 0 + at)
    BY <1>1, <1>2, <1>3, PlacedInside DEF h
  <1>5. Stored(e, at, width, v)
    BY <1>0, <1>1, <1>3, <1>4, PlacedIsStored
  <1>6. LoadLE(e, at, width) = v % p
    BY <1>0, <1>1, <1>5, LoadBack
  <1>7. v \in 0..(p - 1)
    OBVIOUS
  <1> HIDE DEF p
  <1>8. v % p = v
    BY <1>0, <1>7
  <1> QED BY <1>6, <1>8 DEF e

(* The value of a field of the body that begins at a place. *)
FieldIn(bytes, place, r) ==
  LET u == LoadLE(bytes, place + r.at, r.width)
  IN  IF r.field[1] \in PriceNames THEN Signed(u, r.width) ELSE u

(* Everything that was encoded is read back. *)
LEMMA EverythingBack ==
  ASSUME NEW m \in Message
  PROVE  LET e == Encoded(m)
         IN  /\ LoadLE(e, 0, 1) = TypeCode(m.type) /\ LoadLE(e, 1, 1) = kProtocolVersion
             /\ LoadLE(e, 2, 2) = BodySizeFor(m.type)
             /\ LoadLE(e, 4, 4) = m.seq /\ LoadLE(e, 8, 8) = m.ts
             /\ \A r \in Loads(m.type) : FieldIn(e, kHeaderWireSize, r) = m.body[r.field]
  <1> DEFINE e == Encoded(m)
  <1>1. Weight[1] = ByteRange /\ Weight[2] = ByteRange * ByteRange
    <2>1. /\ Weight[0] = 1 /\ Weight[1] = ByteRange * Weight[1 - 1]
          /\ Weight[2] = ByteRange * Weight[2 - 1]
      BY WeightIs
    <2>2. 1 - 1 = 0 /\ 2 - 1 = 1 /\ ByteRange * 1 = ByteRange
      BY ByteRangeIs
    <2> QED BY <2>1, <2>2
  <1>2. /\ m.type \in AllTypes
        /\ m.seq \in 0..(Weight[4] - 1) /\ m.ts \in 0..(Weight[8] - 1)
        /\ \A r \in Loads(m.type) : m.body[r.field] \in Values(r.field[1], r.width)
    BY MessageIs
  <1>3. TypeCode(m.type) \in 0..(Weight[1] - 1) /\ kProtocolVersion \in 0..(Weight[1] - 1)
    <2>1. TypeCode(m.type) \in 0..5
      BY <1>2, TypesAre
    <2> QED BY <1>1, <2>1, ByteRangeIs DEF kProtocolVersion
  <1>4. BodySizeFor(m.type) \in 0..(Weight[2] - 1)
    BY <1>1, <1>2, SizesAre
  <1>5. /\ Placed(StoreLE(TypeCode(m.type), 1), EncodeHeader(m), 0)
        /\ Placed(StoreLE(kProtocolVersion, 1), EncodeHeader(m), 1)
        /\ Placed(StoreLE(BodySizeFor(m.type), 2), EncodeHeader(m), 2)
        /\ Placed(StoreLE(m.seq, 4), EncodeHeader(m), 4)
        /\ Placed(StoreLE(m.ts, 8), EncodeHeader(m), 8)
    BY HeaderEncoded
  <1>6. /\ 0 \in Nat /\ 1 \in Nat /\ 2 \in Nat /\ 4 \in Nat /\ 8 \in Nat
        /\ 1 \in 1..8 /\ 2 \in 1..8 /\ 4 \in 1..8 /\ 8 \in 1..8
    OBVIOUS
  <1>7. LoadLE(e, 0, 1) = TypeCode(m.type) /\ LoadLE(e, 1, 1) = kProtocolVersion
    BY <1>3, <1>5, <1>6, HeaderBack
  <1>8. LoadLE(e, 2, 2) = BodySizeFor(m.type)
    BY <1>4, <1>5, <1>6, HeaderBack
  <1>9. LoadLE(e, 4, 4) = m.seq
    BY <1>2, <1>5, <1>6, HeaderBack
  <1>10. LoadLE(e, 8, 8) = m.ts
    BY <1>2, <1>5, <1>6, HeaderBack
  <1>11. ASSUME NEW r \in Loads(m.type) PROVE FieldIn(e, kHeaderWireSize, r) = m.body[r.field]
    <2> DEFINE v == m.body[r.field]
               w == r.width
               b == EncodeBody(m)
    <2>1. r.at \in Nat /\ w \in 1..8 /\ w \in 0..8
      <3>1. r \in LoadT
        BY <1>2, LoadsAre
      <3>2. r.at \in Nat /\ w \in 1..8
        BY <3>1 DEF LoadT
      <3> QED BY <3>2
    <2>2. v \in Int /\ Placed(StoreLE(v, w), b, r.at)
      BY BodyEncoded
    <2>3. e \in Seq(Byte) /\ Placed(b, e, kHeaderWireSize) /\ kHeaderWireSize \in Nat
      BY MessageEncoded DEF kHeaderWireSize
    <2>4. v \in Values(r.field[1], w)
      BY <1>2
    <2> HIDE DEF v, w, b, e
    <2>5. Len(StoreLE(v, w)) \in Nat
      BY <2>1, <2>2, StoreIs
    <2>6. Placed(StoreLE(v, w), e, kHeaderWireSize + r.at)
      BY <2>1, <2>2, <2>3, <2>5, PlacedInside
    <2>7. kHeaderWireSize + r.at \in Nat
      BY <2>1, <2>3
    <2>8. LoadLE(e, kHeaderWireSize + r.at, w) = v % Weight[w]
      <3>1. Stored(e, kHeaderWireSize + r.at, w, v)
        BY <2>1, <2>2, <2>3, <2>6, <2>7, PlacedIsStored
      <3> QED BY <2>1, <2>2, <2>3, <2>7, <3>1, LoadBack
    <2>9. v = IF r.field[1] \in PriceNames THEN Signed(v % Weight[w], w) ELSE v % Weight[w]
      BY <2>1, <2>4, ValueBack
    <2> QED BY <2>8, <2>9 DEF FieldIn, v, w
  <1> QED BY <1>7, <1>8, <1>9, <1>10, <1>11

(* A byte that changes does not reach a load beside it. *)
LEMMA FlipLocal ==
  ASSUME NEW full \in Seq(Byte), NEW i \in DOMAIN full, NEW b \in Byte
  PROVE  LET bad == [full EXCEPT ![i] = b]
         IN  /\ bad \in Seq(Byte) /\ Len(bad) = Len(full)
             /\ \A off \in Nat, width \in 0..8 :
                  i <= off \/ off + width < i
                    => LoadLE(bad, off, width) = LoadLE(full, off, width)
  <1> DEFINE bad == [full EXCEPT ![i] = b]
  <1>1. /\ bad \in Seq(Byte) /\ Len(bad) = Len(full) /\ DOMAIN bad = DOMAIN full
        /\ \A j \in DOMAIN full : j # i => bad[j] = full[j]
    OBVIOUS
  <1>0. i \in Nat
    OBVIOUS
  <1> HIDE DEF bad
  <1>2. ASSUME NEW off \in Nat, NEW width \in 0..8, i <= off \/ off + width < i
        PROVE  LoadLE(bad, off, width) = LoadLE(full, off, width)
    <2>1. ASSUME NEW j \in 1..width PROVE ByteIn(bad, off + j) = ByteIn(full, off + j)
      <3>1. off + j # i
        BY <1>0, <1>2
      <3> QED BY <1>1, <3>1 DEF ByteIn
    <2> QED BY <1>1, <2>1, LoadLocal
  <1> QED BY <1>1, <1>2 DEF bad

(* What is left of a message that is cut is read as before. *)
LEMMA CutLocal ==
  ASSUME NEW full \in Seq(Byte), NEW n \in 1..Len(full)
  PROVE  LET bad == SubSeq(full, 1, n)
         IN  /\ bad \in Seq(Byte) /\ Len(bad) = n
             /\ \A off \in Nat, width \in 0..8 :
                  off + width <= n => LoadLE(bad, off, width) = LoadLE(full, off, width)
  <1> DEFINE bad == SubSeq(full, 1, n)
  <1>1. /\ bad \in Seq(Byte) /\ Len(bad) = n /\ \A j \in 1..n : bad[j] = full[j]
    OBVIOUS
  <1>2. DOMAIN bad = 1..n /\ DOMAIN full = 1..Len(full) /\ n \in Nat /\ n <= Len(full)
    BY <1>1
  <1> HIDE DEF bad
  <1>3. ASSUME NEW off \in Nat, NEW width \in 0..8, off + width <= n
        PROVE  LoadLE(bad, off, width) = LoadLE(full, off, width)
    <2>1. ASSUME NEW j \in 1..width PROVE ByteIn(bad, off + j) = ByteIn(full, off + j)
      <3>1. off + j \in 1..n /\ off + j \in 1..Len(full)
        BY <1>2, <1>3
      <3> QED BY <1>1, <1>2, <3>1 DEF ByteIn
    <2> QED BY <1>1, <2>1, LoadLocal
  <1> QED BY <1>1, <1>3 DEF bad

-----------------------------------------------------------------------------
(* The receiver.                                                           *)

(* A whole message of this type stands behind off. *)
WholeOf(bytes, off, t) ==
  /\ off + kHeaderWireSize + BodySizeFor(t) <= Len(bytes)
  /\ LoadLE(bytes, off, 1) = TypeCode(t) /\ LoadLE(bytes, off + 1, 1) = kProtocolVersion
  /\ LoadLE(bytes, off + 2, 2) = BodySizeFor(t)

MessageIn(bytes, off, t) ==
  [kind |-> "message", at |-> off, type |-> t,
   seq |-> LoadLE(bytes, off + 4, 4), ts |-> LoadLE(bytes, off + 8, 8),
   body |-> DecodeBody(t, SubSeq(bytes, off + kHeaderWireSize + 1,
                                 off + kHeaderWireSize + BodySizeFor(t)))]

(* The two numbers that framing rests on. *)
LEMMA FrameIs ==
  ASSUME NEW bytes \in Seq(Byte), NEW off \in Nat
  PROVE  /\ LoadLE(bytes, off, 1) \in Nat /\ LoadLE(bytes, off + 2, 2) \in Nat
         /\ NextFrame(bytes, off) = off + kHeaderWireSize + LoadLE(bytes, off + 2, 2)
         /\ NextFrame(bytes, off) \in Nat /\ NextFrame(bytes, off) >= off + kHeaderWireSize
         /\ kHeaderWireSize = 16 /\ Len(bytes) \in Nat
         /\ ValidType(bytes, off) <=> LoadLE(bytes, off, 1) \in 0..5
  <1>1. /\ off + 2 \in Nat /\ 1 \in 0..8 /\ 2 \in 0..8
    OBVIOUS
  <1> DEFINE c == LoadLE(bytes, off, 1)
             d == LoadLE(bytes, off + 2, 2)
  <1>2. c \in Nat /\ d \in Nat
    BY <1>1, LoadType
  <1>3. NextFrame(bytes, off) = off + kHeaderWireSize + d
    BY DEF NextFrame, DecodeHeader
  <1>4. ValidType(bytes, off) <=> c <= 5
    BY TypesAre DEF ValidType
  <1> HIDE DEF c, d
  <1>5. kHeaderWireSize = 16 /\ Len(bytes) \in Nat
    BY DEF kHeaderWireSize
  <1> QED BY <1>2, <1>3, <1>4, <1>5 DEF c, d

(* dispatch gets what stands there: a whole message, or on_malformed is     *)
(* called.                                                                 *)
LEMMA HandledIs ==
  ASSUME NEW bytes \in Seq(Byte), NEW off \in Nat
  PROVE  /\ \A t \in AllTypes : WholeOf(bytes, off, t) =>
              /\ ValidType(bytes, off) /\ Handled(bytes, off) = MessageIn(bytes, off, t)
              /\ NextFrame(bytes, off) = off + kHeaderWireSize + BodySizeFor(t)
         /\ ValidType(bytes, off) /\ NextFrame(bytes, off) <= Len(bytes) =>
              \/ Handled(bytes, off) = Malformed(off)
              \/ \E t \in AllTypes : /\ WholeOf(bytes, off, t)
                                     /\ Handled(bytes, off) = MessageIn(bytes, off, t)
  <1> DEFINE h == DecodeHeader(bytes, off)
             c == LoadLE(bytes, off, 1)
             body == DecodeBody(h.type, SubSeq(bytes, off + kHeaderWireSize + 1,
                                               off + kHeaderWireSize + h.body_size))
             message == [kind |-> "message", at |-> off, type |-> h.type, seq |-> h.seq,
                         ts |-> h.ts, body |-> body]
  <1>1. /\ h.type = (IF c = 0 THEN "Heartbeat" ELSE Types[c])
        /\ h.version = LoadLE(bytes, off + 1, 1) /\ h.body_size = LoadLE(bytes, off + 2, 2)
        /\ h.seq = LoadLE(bytes, off + 4, 4) /\ h.ts = LoadLE(bytes, off + 8, 8)
    BY DEF DecodeHeader
  <1>2. /\ ~Acceptable(h) => Handled(bytes, off) = Malformed(off)
        /\ Acceptable(h) => Handled(bytes, off) = message
    BY DEF Handled
  <1>3. /\ NextFrame(bytes, off) = off + kHeaderWireSize + h.body_size
        /\ ValidType(bytes, off) <=> c \in 0..5
    BY <1>1, FrameIs
  <1> HIDE DEF h, message, body
  <1>4. ASSUME NEW t \in AllTypes, h.type = t, h.body_size = BodySizeFor(t)
        PROVE  message = MessageIn(bytes, off, t)
    BY <1>1, <1>4 DEF message, body, MessageIn
  <1>5. ASSUME NEW t \in AllTypes, WholeOf(bytes, off, t)
        PROVE  /\ ValidType(bytes, off) /\ Handled(bytes, off) = MessageIn(bytes, off, t)
               /\ NextFrame(bytes, off) = off + kHeaderWireSize + BodySizeFor(t)
    <2>1. c = TypeCode(t) /\ c \in 0..5 /\ t = IF c = 0 THEN "Heartbeat" ELSE Types[c]
      BY <1>5, TypesAre DEF WholeOf
    <2>2. h.type = t /\ h.body_size = BodySizeFor(t) /\ h.version = kProtocolVersion
      BY <1>1, <1>5, <2>1 DEF WholeOf
    <2>3. Acceptable(h)
      BY <2>2 DEF Acceptable
    <2> QED BY <1>2, <1>3, <1>4, <2>1, <2>2, <2>3
  <1>6. ASSUME ValidType(bytes, off), NextFrame(bytes, off) <= Len(bytes), Acceptable(h)
        PROVE  \E t \in AllTypes : /\ WholeOf(bytes, off, t)
                                   /\ Handled(bytes, off) = MessageIn(bytes, off, t)
    <2>1. c \in 0..5
      BY <1>3, <1>6
    <2>2. PICK t \in AllTypes :
            TypeCode(t) = c /\ t = IF c = 0 THEN "Heartbeat" ELSE Types[c]
      BY <2>1, TypesAre
    <2>3. h.type = t /\ h.body_size = BodySizeFor(t) /\ h.version = kProtocolVersion
      BY <1>1, <1>6, <2>2 DEF Acceptable
    <2>4. off + kHeaderWireSize + BodySizeFor(t) <= Len(bytes)
      BY <1>3, <1>6, <2>3
    <2>5. WholeOf(bytes, off, t)
      BY <1>1, <2>2, <2>3, <2>4 DEF WholeOf
    <2> QED BY <1>2, <1>4, <1>6, <2>3, <2>5
  <1> QED BY <1>2, <1>5, <1>6

(* The loop of parse, from each place on. *)
HeaderCut(bytes, off) == off + kHeaderWireSize > Len(bytes)
BodyCut(bytes, off) == NextFrame(bytes, off) > Len(bytes)
LastFrame(bytes, off) ==
  HeaderCut(bytes, off) \/ ~ValidType(bytes, off) \/ BodyCut(bytes, off)
AtLast(bytes, off) ==
  IF HeaderCut(bytes, off) THEN ParseResult(<< >>, off, FALSE)
  ELSE IF ~ValidType(bytes, off)
  THEN ParseResult(<<Malformed(off)>>, off + kHeaderWireSize, FALSE)
  ELSE ParseResult(<< >>, off, TRUE)
Before(bytes, off, r) == [r EXCEPT !.calls = <<Handled(bytes, off)>> \o @]
FrameWalk(bytes, w) ==
  w = [off \in Nat |->
        IF HeaderCut(bytes, off) THEN ParseResult(<< >>, off, FALSE)
        ELSE IF ~ValidType(bytes, off)
        THEN ParseResult(<<Malformed(off)>>, off + kHeaderWireSize, FALSE)
        ELSE IF BodyCut(bytes, off) THEN ParseResult(<< >>, off, TRUE)
        ELSE Before(bytes, off, w[NextFrame(bytes, off)])]
Frames(bytes) == CHOOSE w : FrameWalk(bytes, w)

(* parse is that loop. *)
LEMMA ParseBytesIs ==
  ASSUME NEW bytes
  PROVE  ParseBytes(bytes) = Frames(bytes)[0]
  BY DEF ParseBytes, Frames, FrameWalk, HeaderCut, BodyCut, Before

Handlings(bytes) == {Handled(bytes, o) : o \in Nat} \cup {Malformed(o) : o \in Nat}
Outcomes(bytes) ==
  [calls : Seq(Handlings(bytes)), bytes_consumed : Nat, needs_more : BOOLEAN]

(* The equations of the loop. *)
LEMMA FramesIs ==
  ASSUME NEW bytes \in Seq(Byte)
  PROVE  /\ \A off \in Nat : LastFrame(bytes, off) => Frames(bytes)[off] = AtLast(bytes, off)
         /\ \A off \in Nat : ~LastFrame(bytes, off) =>
              Frames(bytes)[off] = Before(bytes, off, Frames(bytes)[NextFrame(bytes, off)])
  <1> DEFINE stop == {off \in Nat : LastFrame(bytes, off)}
             base == [off \in Nat |-> AtLast(bytes, off)]
             past == [off \in Nat |-> NextFrame(bytes, off)]
             step == [c \in Nat \X Outcomes(bytes) |-> Before(bytes, c[1], c[2])]
             L == Len(bytes)
  <1>0. L \in Nat /\ kHeaderWireSize = 16
    BY DEF kHeaderWireSize
  <1>1. stop \in SUBSET Nat /\ \A i \in Nat : i >= L => i \in stop
    <2>1. \A i \in Nat : i >= L => HeaderCut(bytes, i)
      BY <1>0 DEF HeaderCut
    <2> QED BY <2>1 DEF LastFrame
  <1>2. ASSUME NEW off \in Nat PROVE AtLast(bytes, off) \in Outcomes(bytes)
    <2>1. off + kHeaderWireSize \in Nat
      BY <1>0
    <2>2. << >> \in Seq(Handlings(bytes)) /\ <<Malformed(off)>> \in Seq(Handlings(bytes))
      BY DEF Handlings
    <2> QED BY <2>1, <2>2 DEF AtLast, ParseResult, Outcomes
  <1>3. ASSUME NEW off \in Nat, NEW r \in Outcomes(bytes)
        PROVE  Before(bytes, off, r) \in Outcomes(bytes)
    <2>1. r.calls \in Seq(Handlings(bytes))
      BY DEF Outcomes
    <2>2. <<Handled(bytes, off)>> \in Seq(Handlings(bytes))
      BY DEF Handlings
    <2>3. <<Handled(bytes, off)>> \o r.calls \in Seq(Handlings(bytes))
      BY <2>1, <2>2
    <2>4. Before(bytes, off, r) = [r EXCEPT !.calls = <<Handled(bytes, off)>> \o r.calls]
      BY DEF Before, Outcomes
    <2> QED BY <2>3, <2>4 DEF Outcomes
  <1>4. base \in [Nat -> Outcomes(bytes)]
    BY <1>2
  <1>5. past \in [Nat -> Nat] /\ \A i \in Nat : i \notin stop => past[i] > i
    <2>1. \A i \in Nat : NextFrame(bytes, i) \in Nat /\ NextFrame(bytes, i) > i
      <3> SUFFICES ASSUME NEW i \in Nat
                   PROVE  NextFrame(bytes, i) \in Nat /\ NextFrame(bytes, i) > i
        OBVIOUS
      <3> DEFINE p == NextFrame(bytes, i)
      <3>1. p \in Nat /\ p >= i + 16
        BY FrameIs
      <3> HIDE DEF p
      <3>2. p > i
        BY <3>1
      <3> QED BY <3>1, <3>2 DEF p
    <2> QED BY <2>1
  <1>6. step \in [Nat \X Outcomes(bytes) -> Outcomes(bytes)]
    <2>1. ASSUME NEW c \in Nat \X Outcomes(bytes)
          PROVE  Before(bytes, c[1], c[2]) \in Outcomes(bytes)
      <3>1. c[1] \in Nat /\ c[2] \in Outcomes(bytes)
        OBVIOUS
      <3> QED BY <1>3, <3>1
    <2> QED BY <2>1
  <1>7. /\ \A off \in Nat : past[off] = NextFrame(bytes, off)
        /\ \A off \in Nat, r \in Outcomes(bytes) : step[<<off, r>>] = Before(bytes, off, r)
    OBVIOUS
  <1> HIDE DEF past, step
  <1>8. PICK w : IsWalkOnNat(Outcomes(bytes), stop, base, past, step, w)
    <2> DEFINE X == Outcomes(bytes)
    <2>1. /\ base \in [Nat -> X] /\ step \in [Nat \X X -> X]
      BY <1>4, <1>6
    <2> HIDE DEF stop, base, X, L
    <2>2. \E w : IsWalkOnNat(X, stop, base, past, step, w)
      BY <1>0, <1>1, <1>5, <2>1, WalkOnNatExists
    <2> QED BY <2>2 DEF X
  <1>9. /\ w \in [Nat -> Outcomes(bytes)]
        /\ \A i \in Nat : w[i] = IF i \in stop THEN base[i] ELSE step[<<i, w[past[i]]>>]
    BY <1>8 DEF IsWalkOnNat
  <1>10. ASSUME NEW off \in Nat
         PROVE  /\ LastFrame(bytes, off) => w[off] = AtLast(bytes, off)
                /\ ~LastFrame(bytes, off) =>
                     w[off] = Before(bytes, off, w[NextFrame(bytes, off)])
    <2>1. CASE LastFrame(bytes, off)
      BY <1>9, <2>1
    <2>2. CASE ~LastFrame(bytes, off)
      <3>1. past[off] \in Nat /\ past[off] = NextFrame(bytes, off)
        BY <1>5, <1>7
      <3>2. w[past[off]] \in Outcomes(bytes)
        BY <1>9, <3>1
      <3>3. off \notin stop
        BY <2>2
      <3>4. w[off] = step[<<off, w[past[off]]>>]
        BY <1>9, <3>3
      <3>5. step[<<off, w[past[off]]>>] = Before(bytes, off, w[past[off]])
        BY <1>7, <3>2
      <3> QED BY <2>2, <3>1, <3>4, <3>5
    <2> QED BY <2>1, <2>2
  <1>11. ASSUME NEW off \in Nat
         PROVE  w[off] = IF HeaderCut(bytes, off) THEN ParseResult(<< >>, off, FALSE)
                         ELSE IF ~ValidType(bytes, off)
                         THEN ParseResult(<<Malformed(off)>>, off + kHeaderWireSize, FALSE)
                         ELSE IF BodyCut(bytes, off) THEN ParseResult(<< >>, off, TRUE)
                         ELSE Before(bytes, off, w[NextFrame(bytes, off)])
    BY <1>10 DEF LastFrame, AtLast
  <1>12. FrameWalk(bytes, w)
    BY <1>9, <1>11 DEF FrameWalk
  <1>13. FrameWalk(bytes, Frames(bytes))
    BY <1>12 DEF Frames
  <1>14. ASSUME NEW off \in Nat
         PROVE  Frames(bytes)[off]
                  = IF HeaderCut(bytes, off) THEN ParseResult(<< >>, off, FALSE)
                    ELSE IF ~ValidType(bytes, off)
                    THEN ParseResult(<<Malformed(off)>>, off + kHeaderWireSize, FALSE)
                    ELSE IF BodyCut(bytes, off) THEN ParseResult(<< >>, off, TRUE)
                    ELSE Before(bytes, off, Frames(bytes)[NextFrame(bytes, off)])
    BY <1>13 DEF FrameWalk
  <1> QED BY <1>14 DEF LastFrame, AtLast

(* c is a callback for a frame behind off: on_malformed, or what dispatch   *)
(* calls for a whole message.                                              *)
CallBehind(bytes, off, c) ==
  /\ c.at \in Nat /\ c.at >= off /\ c.at + kHeaderWireSize <= Len(bytes)
  /\ \/ c = Malformed(c.at)
     \/ \E t \in AllTypes : WholeOf(bytes, c.at, t) /\ c = MessageIn(bytes, c.at, t)

(* What the loop does from off on: callbacks for frames behind off, not     *)
(* more than there is room for, and it consumes only what there is.        *)
GoesOn(bytes, off, r) ==
  /\ r \in Outcomes(bytes) /\ r.bytes_consumed <= Len(bytes)
  /\ kHeaderWireSize * Len(r.calls) <= Len(bytes) - off
  /\ \A k \in 1..Len(r.calls) : CallBehind(bytes, off, r.calls[k])

(* A message in the place of off is a call behind off. *)
LEMMA CallHere ==
  ASSUME NEW bytes \in Seq(Byte), NEW off \in Nat, off + kHeaderWireSize <= Len(bytes),
         NEW c,
         c = Malformed(off) \/ \E t \in AllTypes : /\ WholeOf(bytes, off, t)
                                                   /\ c = MessageIn(bytes, off, t)
  PROVE  c.at = off /\ CallBehind(bytes, off, c)
  <1>1. c.at = off
    BY DEF Malformed, MessageIn
  <1>2. off >= off
    OBVIOUS
  <1> QED BY <1>1, <1>2 DEF CallBehind

(* Where the loop ends. *)
LEMMA LastGoesOn ==
  ASSUME NEW bytes \in Seq(Byte), NEW off \in 0..Len(bytes), LastFrame(bytes, off)
  PROVE  GoesOn(bytes, off, AtLast(bytes, off))
  <1> DEFINE r == AtLast(bytes, off)
             n == Len(bytes)
  <1>0. n \in Nat /\ off \in Nat /\ kHeaderWireSize = 16 /\ off <= n
    BY DEF kHeaderWireSize
  <1>1. CASE HeaderCut(bytes, off) \/ ValidType(bytes, off)
    <2>1. r = ParseResult(<< >>, off, FALSE) \/ r = ParseResult(<< >>, off, TRUE)
      BY <1>1 DEF AtLast
    <2>2. PICK b \in BOOLEAN : r = ParseResult(<< >>, off, b)
      BY <2>1
    <2> HIDE DEF r
    <2>3. r.calls = << >> /\ r.bytes_consumed = off
      BY <2>2 DEF ParseResult
    <2>4. << >> \in Seq(Handlings(bytes)) /\ Len(<< >>) = 0
      OBVIOUS
    <2>5. r \in Outcomes(bytes)
      BY <1>0, <2>2, <2>4 DEF Outcomes, ParseResult
    <2>6. kHeaderWireSize * 0 <= n - off
      BY <1>0
    <2> QED BY <1>0, <2>3, <2>4, <2>5, <2>6 DEF GoesOn, r
  <1>2. CASE ~HeaderCut(bytes, off) /\ ~ValidType(bytes, off)
    <2> DEFINE s == <<Malformed(off)>>
    <2>1. r = ParseResult(s, off + kHeaderWireSize, FALSE)
      BY <1>2 DEF AtLast
    <2>2. off + kHeaderWireSize <= n
      BY <1>0, <1>2 DEF HeaderCut
    <2>3. s \in Seq(Handlings(bytes)) /\ Len(s) = 1 /\ s[1] = Malformed(off)
      BY <1>0 DEF Handlings
    <2> HIDE DEF s
    <2>4. r.calls = s /\ r.bytes_consumed = off + kHeaderWireSize
      BY <2>1 DEF ParseResult
    <2>5. r \in Outcomes(bytes)
      BY <1>0, <2>1, <2>3 DEF Outcomes, ParseResult
    <2> HIDE DEF r
    <2>6. CallBehind(bytes, off, s[1])
      BY <1>0, <2>2, <2>3, CallHere
    <2>7. kHeaderWireSize * 1 <= n - off
      BY <1>0, <2>2
    <2>8. \A k \in 1..1 : k = 1
      OBVIOUS
    <2> QED BY <2>2, <2>3, <2>4, <2>5, <2>6, <2>7, <2>8 DEF GoesOn, r
  <1> QED BY <1>1, <1>2

(* A turn of the loop in front of what it does later. *)
LEMMA BeforeGoesOn ==
  ASSUME NEW bytes \in Seq(Byte), NEW off \in 0..Len(bytes), ~LastFrame(bytes, off), NEW r,
         GoesOn(bytes, NextFrame(bytes, off), r)
  PROVE  GoesOn(bytes, off, Before(bytes, off, r))
  <1> DEFINE q == Before(bytes, off, r)
             n == Len(bytes)
             p == NextFrame(bytes, off)
             s == <<Handled(bytes, off)>>
             c == r.calls
  <1>0. n \in Nat /\ off \in Nat /\ kHeaderWireSize = 16 /\ off <= n
    BY DEF kHeaderWireSize
  <1>1. p \in Nat /\ p >= off + 16
    BY <1>0, FrameIs
  <1>2. ValidType(bytes, off) /\ off + 16 <= n /\ p <= n
    BY <1>0, <1>1 DEF LastFrame, HeaderCut, BodyCut
  <1>3. /\ c \in Seq(Handlings(bytes)) /\ r.bytes_consumed \in Nat /\ r.needs_more \in BOOLEAN
        /\ r.bytes_consumed <= n /\ 16 * Len(c) <= n - p
        /\ \A k \in 1..Len(c) : CallBehind(bytes, p, c[k])
    BY <1>0 DEF GoesOn, Outcomes
  <1>4. s \in Seq(Handlings(bytes)) /\ Len(s) = 1 /\ s[1] = Handled(bytes, off)
    BY <1>0 DEF Handlings
  <1>5. q = [r EXCEPT !.calls = s \o c] /\ r \in Outcomes(bytes)
    BY DEF Before, Outcomes, GoesOn
  <1>6. CallBehind(bytes, off, Handled(bytes, off))
    <2>1. \/ Handled(bytes, off) = Malformed(off)
          \/ \E t \in AllTypes : /\ WholeOf(bytes, off, t)
                                 /\ Handled(bytes, off) = MessageIn(bytes, off, t)
      BY <1>0, <1>2, HandledIs
    <2> QED BY <1>0, <1>2, <2>1, CallHere
  <1> HIDE DEF q, s, c, p, n
  <1>7. /\ s \o c \in Seq(Handlings(bytes)) /\ Len(s \o c) = 1 + Len(c) /\ Len(c) \in Nat
        /\ (s \o c)[1] = s[1] /\ \A k \in 2..(1 + Len(c)) : (s \o c)[k] = c[k - 1]
    <2> DEFINE X == Handlings(bytes)
    <2>1. s \in Seq(X) /\ c \in Seq(X) /\ Len(s) = 1
      BY <1>3, <1>4
    <2> HIDE DEF X
    <2>2. s \o c \in Seq(X) /\ Len(c) \in Nat
      BY <2>1
    <2>3. /\ Len(s \o c) = Len(s) + Len(c)
          /\ \A k \in 1..(Len(s) + Len(c)) :
               (s \o c)[k] = IF k <= Len(s) THEN s[k] ELSE c[k - Len(s)]
      BY <2>1, ConcatProperties
    <2>4. /\ Len(s \o c) = 1 + Len(c)
          /\ \A k \in 1..(1 + Len(c)) : (s \o c)[k] = IF k <= 1 THEN s[k] ELSE c[k - 1]
      BY <2>1, <2>3
    <2> DEFINE f == s \o c
               m == Len(c)
    <2> HIDE DEF f, m, X
    <2>5. f[1] = s[1] /\ \A k \in 2..(1 + m) : f[k] = c[k - 1]
      BY <2>2, <2>4 DEF m, f
    <2> QED BY <2>2, <2>4, <2>5 DEF X, f, m
  <1>8. q.calls = s \o c /\ q.bytes_consumed = r.bytes_consumed /\ q \in Outcomes(bytes)
    BY <1>5, <1>7 DEF Outcomes
  <1>9. ASSUME NEW k \in 1..(1 + Len(c)) PROVE CallBehind(bytes, off, (s \o c)[k])
    <2>1. CASE k = 1
      BY <1>4, <1>6, <1>7, <2>1
    <2>2. CASE k # 1
      <3>1. k \in 2..(1 + Len(c)) /\ k - 1 \in 1..Len(c)
        BY <1>7, <2>2
      <3> DEFINE e == c[k - 1]
      <3>2. CallBehind(bytes, p, e) /\ (s \o c)[k] = e
        BY <1>3, <1>7, <3>1
      <3> HIDE DEF e
      <3>3. e.at \in Nat /\ e.at >= p
        BY <3>2 DEF CallBehind
      <3>4. e.at >= off
        BY <1>0, <1>1, <3>3
      <3> QED BY <3>2, <3>3, <3>4 DEF CallBehind
    <2> QED BY <2>1, <2>2
  <1>10. 16 * (1 + Len(c)) <= n - off
    BY <1>0, <1>1, <1>2, <1>3, <1>7
  <1> QED BY <1>0, <1>3, <1>7, <1>8, <1>9, <1>10 DEF GoesOn, q, n

(* So does the loop from every place on. *)
LEMMA FramesGoOn ==
  ASSUME NEW bytes \in Seq(Byte)
  PROVE  \A off \in 0..Len(bytes) : GoesOn(bytes, off, Frames(bytes)[off])
  <1> DEFINE L == Len(bytes)
             S == {i \in 0..L : GoesOn(bytes, i, Frames(bytes)[i])}
  <1>0. L \in Nat
    OBVIOUS
  <1>1. ASSUME NEW i \in 0..L, \A j \in (i + 1)..L : j \in S PROVE i \in S
    <2>0. i \in Nat
      OBVIOUS
    <2>1. CASE LastFrame(bytes, i)
      <3>1. Frames(bytes)[i] = AtLast(bytes, i)
        BY <2>0, <2>1, FramesIs
      <3> QED BY <2>1, <3>1, LastGoesOn
    <2>2. CASE ~LastFrame(bytes, i)
      <3> DEFINE p == NextFrame(bytes, i)
      <3>1. Frames(bytes)[i] = Before(bytes, i, Frames(bytes)[p])
        BY <2>0, <2>2, FramesIs
      <3>2. p \in Nat /\ p >= i + kHeaderWireSize /\ kHeaderWireSize = 16
        BY <2>0, FrameIs
      <3>3. ~(p > L)
        BY <2>2 DEF LastFrame, BodyCut
      <3>4. p \in (i + 1)..L
        BY <1>0, <2>0, <3>2, <3>3
      <3>5. GoesOn(bytes, p, Frames(bytes)[p])
        BY <1>1, <3>4
      <3> QED BY <2>2, <3>1, <3>5, BeforeGoesOn
    <2> QED BY <2>1, <2>2
  <1>2. \A i \in 0..L : (\A j \in (i + 1)..L : j \in S) => i \in S
    BY <1>1
  <1>3. \A i \in 0..L : i \in S
    <2> HIDE DEF S, L
    <2> QED BY <1>0, <1>2, DownwardInduction
  <1> QED BY <1>3

(* decode_body gives every field the value that stands at its offset.      *)
LEMMA Decoded ==
  ASSUME NEW bytes \in Seq(Byte), NEW off \in Nat, NEW t \in AllTypes,
         off + kHeaderWireSize + BodySizeFor(t) <= Len(bytes)
  PROVE  LET d == MessageIn(bytes, off, t).body
         IN  /\ d = [f \in Fields(t) |-> d[f]]
             /\ \A r \in Loads(t) : d[r.field] = FieldIn(bytes, off + kHeaderWireSize, r)
  <1> DEFINE H == off + kHeaderWireSize
             size == BodySizeFor(t)
             sub == SubSeq(bytes, H + 1, H + size)
             d == DecodeBody(t, sub)
             value(f) == LET r == CHOOSE x \in Loads(t) : x.field = f
                             u == LoadLE(sub, r.at, r.width)
                         IN  IF f[1] \in PriceNames THEN Signed(u, r.width) ELSE u
  <1>1. H \in Nat /\ size \in Nat /\ H + size <= Len(bytes) /\ Len(bytes) \in Nat
    BY SizesAre, ByteRangeIs DEF kHeaderWireSize
  <1>2. sub \in Seq(Byte) /\ Len(sub) = size /\ \A i \in 1..size : sub[i] = bytes[H + i]
    <2> HIDE DEF H, size
    <2>1. H + 1 \in 1..(Len(bytes) + 1) /\ H + size \in (H + 1 - 1)..Len(bytes)
      BY <1>1
    <2>2. sub \in Seq(Byte) /\ Len(sub) = (H + size) - (H + 1) + 1
      BY <1>1
    <2>3. (H + size) - (H + 1) + 1 = size
      BY <1>1
    <2>4. \A i \in 1..((H + size) - (H + 1) + 1) : sub[i] = bytes[(H + 1) + i - 1]
      BY <1>1
    <2>5. \A i \in 1..size : (H + 1) + i - 1 = H + i
      BY <1>1
    <2> QED BY <2>2, <2>3, <2>4, <2>5
  <1>3. Fields(t) = {r.field : r \in Loads(t)} /\ Loads(t) \subseteq LoadT
    BY LoadsAre
  <1>4. d = [f \in Fields(t) |-> value(f)]
    BY <1>3 DEF DecodeBody
  <1>5. MessageIn(bytes, off, t).body = d
    BY DEF MessageIn
  <1> HIDE DEF H, size, sub, d
  <1>6. ASSUME NEW r \in Loads(t)
        PROVE  d[r.field] = FieldIn(bytes, off + kHeaderWireSize, r)
    <2>1. r.at \in Nat /\ r.width \in 0..8 /\ r.at + r.width <= size
      <3>1. r \in LoadT /\ r.at + r.width <= size
        BY LoadsAre DEF size
      <3> QED BY <3>1 DEF LoadT
    <2>2. (CHOOSE x \in Loads(t) : x.field = r.field) = r
      BY LoadsAre
    <2>3. r.field \in Fields(t)
      BY <1>3
    <2>4. value(r.field) = IF r.field[1] \in PriceNames
                           THEN Signed(LoadLE(sub, r.at, r.width), r.width)
                           ELSE LoadLE(sub, r.at, r.width)
      BY <2>2
    <2> HIDE DEF value
    <2>5. d[r.field] = value(r.field)
      BY <1>4, <2>3
    <2>6. ASSUME NEW i \in 1..r.width
          PROVE  ByteIn(sub, r.at + i) = ByteIn(bytes, (H + r.at) + i)
      <3>1. r.at + i \in 1..size /\ (H + r.at) + i = H + (r.at + i)
            /\ (H + r.at) + i \in 1..Len(bytes)
        <4> DEFINE a == r.at
                   w == r.width
                   l == Len(bytes)
        <4>1. /\ a \in Nat /\ w \in Nat /\ a + w <= size /\ i \in 1..w
              /\ H \in Nat /\ size \in Nat /\ l \in Nat /\ H + size <= l
          BY <1>1, <2>1
        <4> HIDE DEF a, w, l
        <4>2. a + i \in 1..size /\ (H + a) + i = H + (a + i) /\ (H + a) + i \in 1..l
          BY <4>1
        <4> QED BY <4>2 DEF a, l
      <3>2. DOMAIN sub = 1..size /\ DOMAIN bytes = 1..Len(bytes)
        BY <1>2
      <3> QED BY <1>2, <3>1, <3>2 DEF ByteIn
    <2>7. H + r.at \in Nat
      BY <1>1, <2>1
    <2>8. LoadLE(sub, r.at, r.width) = LoadLE(bytes, H + r.at, r.width)
      BY <1>2, <2>1, <2>6, <2>7, LoadLocal
    <2> QED BY <2>4, <2>5, <2>8 DEF FieldIn, H
  <1> HIDE DEF value
  <1>7. d = [f \in Fields(t) |-> d[f]]
    BY <1>4
  <1> QED BY <1>5, <1>6, <1>7

-----------------------------------------------------------------------------
(* The invariant: what arrives is what was encoded, but for the one harm,   *)
(* and the result is what parse makes of it.                               *)
Arrived(m, bytes) ==
  LET full == Encoded(m)
  IN  /\ harm \in {"none", "flip", "cut"}
      /\ harm = "none" => bytes = EncodeMessage(m, room)
      /\ harm # "none" => Fits(m, room)
      /\ harm = "flip" => \E i \in DOMAIN full, b \in Byte : bytes = [full EXCEPT ![i] = b]
      /\ harm = "cut" => \E n \in 1..(Len(full) - 1) : bytes = SubSeq(full, 1, n)

CodecInv ==
  /\ msg \in Message /\ room \in Rooms
  /\ Arrived(msg, frame)
  /\ \/ parsed = FALSE /\ result = ParseResult(<< >>, 0, FALSE)
     \/ parsed = TRUE /\ frame # << >> /\ result = ParseBytes(frame)

(* encode_message writes the whole message, or nothing. *)
LEMMA EncodeIs ==
  ASSUME NEW m \in Message, NEW n \in Rooms
  PROVE  /\ Fits(m, n) => EncodeMessage(m, n) = Encoded(m)
         /\ ~Fits(m, n) => EncodeMessage(m, n) = << >>
         /\ Encoded(m) \in Seq(Byte) /\ Len(Encoded(m)) \in Nat /\ Len(Encoded(m)) > 0
         /\ Encoded(m) # << >>
  <1>1. BodySizeFor(m.type) \in Nat /\ kHeaderWireSize \in Nat /\ kHeaderWireSize > 0
    <2>1. m.type \in AllTypes
      BY MessageIs
    <2>2. BodySizeFor(m.type) \in 0..(ByteRange * ByteRange - 1)
      BY <2>1, SizesAre
    <2> QED BY <2>2 DEF kHeaderWireSize
  <1>2. /\ Encoded(m) \in Seq(Byte) /\ Len(Encoded(m)) = kHeaderWireSize + BodySizeFor(m.type)
    BY MessageEncoded
  <1>3. Len(Encoded(m)) \in Nat /\ Len(Encoded(m)) > 0
    BY <1>1, <1>2
  <1>4. Encoded(m) # << >>
    BY <1>2, <1>3
  <1> QED BY <1>2, <1>3, <1>4 DEF EncodeMessage, Encoded

(* What arrives are bytes. *)
LEMMA ArrivedBytes == CodecInv => frame \in Seq(Byte)
  <1> SUFFICES ASSUME CodecInv PROVE frame \in Seq(Byte)
    OBVIOUS
  <1> DEFINE full == Encoded(msg)
  <1>0. /\ msg \in Message /\ room \in Rooms /\ Arrived(msg, frame)
    BY DEF CodecInv
  <1>1. full \in Seq(Byte) /\ Len(full) \in Nat
    BY <1>0, EncodeIs
  <1>2. CASE harm = "none"
    <2>1. frame = full \/ frame = << >>
      BY <1>0, <1>2, EncodeIs DEF Arrived
    <2>2. << >> \in Seq(Byte)
      OBVIOUS
    <2> HIDE DEF full
    <2> QED BY <1>1, <2>1, <2>2
  <1>3. CASE harm = "flip"
    <2>1. PICK i \in DOMAIN full, b \in Byte : frame = [full EXCEPT ![i] = b]
      BY <1>0, <1>3 DEF Arrived
    <2> HIDE DEF full
    <2> QED BY <1>1, <2>1, FlipLocal
  <1>4. CASE harm = "cut"
    <2>1. PICK n \in 1..(Len(full) - 1) : frame = SubSeq(full, 1, n)
      BY <1>0, <1>4 DEF Arrived
    <2> HIDE DEF full
    <2>2. n \in 1..Len(full)
      BY <1>1
    <2> QED BY <1>1, <2>1, <2>2, CutLocal
  <1> QED BY <1>0, <1>2, <1>3, <1>4 DEF Arrived

(* encode_message in a buffer of any size establishes it. *)
LEMMA CodecInitially == CodecInit => CodecInv
  BY DEF CodecInit, CodecInv, Arrived

(* Damage, a cut and parse keep it. *)
LEMMA CodecStep == CodecInv /\ [CodecNext]_codecVars => CodecInv'
  <1> SUFFICES ASSUME CodecInv, [CodecNext]_codecVars PROVE CodecInv'
    OBVIOUS
  <1> USE DEF CodecInv
  <1> DEFINE full == Encoded(msg)
  <1>0. /\ harm = "none" /\ frame # << >> => Fits(msg, room) /\ frame = full
        /\ full \in Seq(Byte) /\ Len(full) \in Nat
    BY EncodeIs DEF Arrived
  <1>1. CASE Receive
    BY <1>1 DEF Receive, Arrived
  <1>2. ASSUME NEW i \in 1..kMaxMessageSize, NEW b \in 0..(ByteRange - 1), Flip(i, b)
        PROVE  CodecInv'
    <2>1. /\ ~parsed /\ harm = "none" /\ i \in DOMAIN frame
          /\ frame' = [frame EXCEPT ![i] = b]
          /\ harm' = "flip" /\ msg' = msg /\ room' = room /\ result' = result
          /\ parsed' = parsed
      BY <1>2 DEF Flip
    <2>2. frame = full /\ Fits(msg, room)
      <3>1. frame # << >>
        BY <2>1
      <3> QED BY <1>0, <2>1, <3>1
    <2>3. b \in Byte
      BY DEF Byte
    <2>4. frame' = [full EXCEPT ![i] = b]
      BY <2>1, <2>2
    <2>5. Arrived(msg, frame)'
      BY <2>1, <2>2, <2>3, <2>4 DEF Arrived, Fits
    <2> QED BY <2>1, <2>5
  <1>3. ASSUME NEW n \in 1..kMaxMessageSize, Cut(n) PROVE CodecInv'
    <2>1. /\ ~parsed /\ harm = "none" /\ n < Len(frame)
          /\ frame' = SubSeq(frame, 1, n)
          /\ harm' = "cut" /\ msg' = msg /\ room' = room /\ result' = result
          /\ parsed' = parsed
      BY <1>3 DEF Cut
    <2>0. n \in Nat /\ n > 0
      OBVIOUS
    <2>2. frame = full /\ Fits(msg, room)
      <3>1. frame # << >>
        BY <2>0, <2>1
      <3> QED BY <1>0, <2>1, <3>1
    <2>3. n \in 1..(Len(full) - 1)
      BY <1>0, <2>0, <2>1, <2>2
    <2>4. Arrived(msg, frame)'
      BY <2>1, <2>2, <2>3 DEF Arrived, Fits
    <2> QED BY <2>1, <2>4
  <1>4. CASE UNCHANGED codecVars
    BY <1>4 DEF codecVars, Arrived, EncodeMessage, Fits
  <1> QED BY <1>1, <1>2, <1>3, <1>4 DEF CodecNext

(* CodecInv is invariant. *)
LEMMA CodecAlwaysInv == CodecSpec => []CodecInv
  BY CodecInitially, CodecStep, PTL DEF CodecSpec

(* A message that is encoded is a whole one, and parse gives it back. *)
LEMMA WholeBack ==
  ASSUME NEW m \in Message
  PROVE  /\ WholeOf(Encoded(m), 0, m.type)
         /\ MessageIn(Encoded(m), 0, m.type) =
              [kind |-> "message", at |-> 0, type |-> m.type, seq |-> m.seq, ts |-> m.ts,
               body |-> m.body]
  <1> DEFINE e == Encoded(m)
             t == m.type
             d == MessageIn(e, 0, t).body
  <1>0. t \in AllTypes /\ m.body = [f \in Fields(t) |-> m.body[f]]
    BY MessageIs
  <1>1. /\ LoadLE(e, 0, 1) = TypeCode(t) /\ LoadLE(e, 1, 1) = kProtocolVersion
        /\ LoadLE(e, 2, 2) = BodySizeFor(t)
        /\ LoadLE(e, 4, 4) = m.seq /\ LoadLE(e, 8, 8) = m.ts
        /\ \A r \in Loads(t) : FieldIn(e, kHeaderWireSize, r) = m.body[r.field]
    BY EverythingBack
  <1>2. e \in Seq(Byte) /\ Len(e) = kHeaderWireSize + BodySizeFor(t)
    BY MessageEncoded
  <1>3. kHeaderWireSize + BodySizeFor(t) <= Len(e)
    <2>1. BodySizeFor(t) \in 0..(ByteRange * ByteRange - 1)
      BY <1>0, SizesAre
    <2>2. kHeaderWireSize + BodySizeFor(t) \in Nat
      BY <2>1 DEF kHeaderWireSize
    <2> QED BY <1>2, <2>2
  <1> HIDE DEF e, t
  <1>4. WholeOf(e, 0, t)
    <2>1. /\ 0 + kHeaderWireSize = kHeaderWireSize /\ 0 + 1 = 1 /\ 0 + 2 = 2
      BY DEF kHeaderWireSize
    <2> QED BY <1>1, <1>3, <2>1 DEF WholeOf
  <1>5. /\ d = [f \in Fields(t) |-> d[f]]
        /\ \A r \in Loads(t) : d[r.field] = FieldIn(e, kHeaderWireSize, r)
    <2>1. 0 \in Nat /\ 0 + kHeaderWireSize = kHeaderWireSize
      BY DEF kHeaderWireSize
    <2> QED BY <1>0, <1>2, <1>3, <2>1, Decoded
  <1>6. MessageIn(e, 0, t) = [kind |-> "message", at |-> 0, type |-> t, seq |-> m.seq,
                              ts |-> m.ts, body |-> d]
    <2>1. 0 + 4 = 4 /\ 0 + 8 = 8
      OBVIOUS
    <2> QED BY <1>1, <2>1 DEF MessageIn
  <1> HIDE DEF d
  <1>7. d = m.body
    <2>1. \A f \in Fields(t) : d[f] = m.body[f]
      <3> SUFFICES ASSUME NEW f \in Fields(t) PROVE d[f] = m.body[f]
        OBVIOUS
      <3>1. PICK r \in Loads(t) : r.field = f
        BY <1>0, LoadsAre
      <3> QED BY <1>1, <1>5, <3>1
    <2> DEFINE c == m.body
    <2>2. c = [f \in Fields(t) |-> c[f]] /\ \A f \in Fields(t) : d[f] = c[f]
      BY <1>0, <2>1
    <2> HIDE DEF c
    <2>3. d = c
      BY <1>5, <2>2
    <2> QED BY <2>3 DEF c
  <1> QED BY <1>4, <1>6, <1>7 DEF e, t

(* What was called back is behind the start of what arrived, and if it is a *)
(* message, a whole one stands there.                                      *)
LEMMA CalledBack ==
  ASSUME CodecInv
  PROVE  /\ result.bytes_consumed <= Len(frame)
         /\ result.calls \in Seq(Handlings(frame))
         /\ kHeaderWireSize * Len(result.calls) <= Len(frame)
         /\ \A k \in 1..Len(result.calls) : CallBehind(frame, 0, result.calls[k])
         /\ \A c \in Dispatched :
              /\ parsed = TRUE /\ c.at \in Nat
              /\ \E k \in 1..Len(result.calls) : c = result.calls[k]
              /\ \E t \in AllTypes : /\ WholeOf(frame, c.at, t) /\ c = MessageIn(frame, c.at, t)
                                     /\ c.type = t
  <1>1. frame \in Seq(Byte) /\ Len(frame) \in Nat /\ kHeaderWireSize = 16
    BY ArrivedBytes DEF kHeaderWireSize
  <1> DEFINE n == Len(result.calls)
  <1>2. /\ result.bytes_consumed <= Len(frame) /\ result.calls \in Seq(Handlings(frame))
        /\ kHeaderWireSize * Len(result.calls) <= Len(frame)
        /\ \A k \in 1..Len(result.calls) : CallBehind(frame, 0, result.calls[k])
        /\ parsed = TRUE \/ Len(result.calls) = 0
    <2>1. CASE parsed = FALSE
      <3>1. result = ParseResult(<< >>, 0, FALSE)
        BY <2>1 DEF CodecInv
      <3>2. result.calls = << >> /\ result.bytes_consumed = 0
        BY <3>1 DEF ParseResult
      <3>3. << >> \in Seq(Handlings(frame)) /\ Len(<< >>) = 0
        OBVIOUS
      <3> QED BY <1>1, <3>2, <3>3
    <2>2. CASE parsed = TRUE
      <3>1. result = Frames(frame)[0]
        BY <2>2, ParseBytesIs DEF CodecInv
      <3>2. 0 \in 0..Len(frame)
        BY <1>1
      <3>3. GoesOn(frame, 0, result)
        BY <1>1, <3>1, <3>2, FramesGoOn
      <3>4. Len(frame) - 0 = Len(frame)
        BY <1>1
      <3> QED BY <2>2, <3>3, <3>4 DEF GoesOn, Outcomes
    <2> QED BY <2>1, <2>2 DEF CodecInv
  <1>3. n \in Nat /\ DOMAIN result.calls = 1..n
    BY <1>2
  <1>4. ASSUME NEW c \in Dispatched
        PROVE  /\ parsed = TRUE /\ c.at \in Nat
               /\ \E k \in 1..n : c = result.calls[k]
               /\ \E t \in AllTypes : /\ WholeOf(frame, c.at, t)
                                      /\ c = MessageIn(frame, c.at, t) /\ c.type = t
    <2>1. c \in Range(result.calls) /\ c.kind = "message"
      BY DEF Dispatched
    <2>2. PICK k \in 1..n : c = result.calls[k]
      BY <1>3, <2>1 DEF Range
    <2>3. CallBehind(frame, 0, c)
      BY <1>2, <2>2
    <2>4. c # Malformed(c.at)
      BY <2>1 DEF Malformed
    <2>5. PICK t \in AllTypes : WholeOf(frame, c.at, t) /\ c = MessageIn(frame, c.at, t)
      BY <2>3, <2>4 DEF CallBehind
    <2>6. c.type = t
      BY <2>5 DEF MessageIn
    <2>7. n # 0
      BY <1>3, <2>2
    <2> QED BY <1>2, <2>2, <2>3, <2>5, <2>6, <2>7 DEF CallBehind
  <1> QED BY <1>2, <1>4

(* RoundTrip holds: the fields that encode_body writes at a pointer it      *)
(* advances are those that decode_body reads at its offsets, and behind    *)
(* the message there is nothing.                                           *)
LEMMA RoundTripHolds == CodecInv => RoundTrip
  <1> DEFINE whole == [kind |-> "message", at |-> 0, type |-> msg.type, seq |-> msg.seq,
                       ts |-> msg.ts, body |-> msg.body]
             n == Len(frame)
  <1> SUFFICES ASSUME CodecInv, harm = "none", parsed
               PROVE  result = ParseResult(<<whole>>, n, FALSE)
    BY DEF RoundTrip
  <1>1. /\ frame # << >> /\ result = Frames(frame)[0] /\ msg \in Message /\ room \in Rooms
    BY ParseBytesIs DEF CodecInv
  <1>2. frame = Encoded(msg)
    <2>1. frame = EncodeMessage(msg, room)
      BY DEF CodecInv, Arrived
    <2> QED BY <1>1, <2>1, EncodeIs
  <1>3. frame \in Seq(Byte) /\ msg.type \in AllTypes /\ n \in Nat
    <2>1. frame \in Seq(Byte)
      BY ArrivedBytes
    <2>2. msg.type \in AllTypes
      BY <1>1, MessageIs
    <2> QED BY <2>1, <2>2
  <1>4. WholeOf(frame, 0, msg.type) /\ MessageIn(frame, 0, msg.type) = whole
    BY <1>1, <1>2, WholeBack
  <1>5. n = kHeaderWireSize + BodySizeFor(msg.type) /\ BodySizeFor(msg.type) \in Nat
    <2>1. BodySizeFor(msg.type) \in 0..(ByteRange * ByteRange - 1)
      BY <1>3, SizesAre
    <2> QED BY <1>1, <1>2, <2>1, MessageEncoded
  <1>6. 0 \in Nat /\ kHeaderWireSize = 16
    BY DEF kHeaderWireSize
  <1>7. ValidType(frame, 0) /\ Handled(frame, 0) = whole /\ NextFrame(frame, 0) = n
    <2>1. /\ ValidType(frame, 0) /\ Handled(frame, 0) = MessageIn(frame, 0, msg.type)
          /\ NextFrame(frame, 0) = 0 + kHeaderWireSize + BodySizeFor(msg.type)
      BY <1>3, <1>4, <1>6, HandledIs
    <2> QED BY <1>4, <1>5, <1>6, <2>1
  <1> HIDE DEF whole, n
  <1>8. ~LastFrame(frame, 0)
    <2>1. ~HeaderCut(frame, 0)
      BY <1>5, <1>6 DEF HeaderCut, n
    <2>2. ~BodyCut(frame, 0)
      BY <1>3, <1>7 DEF BodyCut, n
    <2> QED BY <1>7, <2>1, <2>2 DEF LastFrame
  <1>9. HeaderCut(frame, n) /\ LastFrame(frame, n)
    BY <1>3, <1>6 DEF HeaderCut, LastFrame, n
  <1>10. Frames(frame)[n] = ParseResult(<< >>, n, FALSE)
    <2>1. Frames(frame)[n] = AtLast(frame, n)
      BY <1>3, <1>9, FramesIs
    <2> QED BY <1>9, <2>1 DEF AtLast
  <1>11. result = Before(frame, 0, ParseResult(<< >>, n, FALSE))
    BY <1>1, <1>3, <1>6, <1>7, <1>8, <1>10, FramesIs
  <1>12. result = [ParseResult(<< >>, n, FALSE) EXCEPT !.calls = <<whole>> \o << >>]
    BY <1>7, <1>11 DEF Before, ParseResult
  <1>13. <<whole>> \o << >> = <<whole>>
    OBVIOUS
  <1> QED BY <1>12, <1>13 DEF ParseResult

(* InBounds holds: encode_message fills what its header declares, and the   *)
(* loads of decode_body lie in what arrived.                               *)
LEMMA InBoundsHolds == CodecInv => InBounds
  <1> SUFFICES ASSUME CodecInv PROVE InBounds
    OBVIOUS
  <1>0. msg \in Message /\ room \in Rooms /\ room \in Nat
    BY MessageAssumption DEF CodecInv
  <1>1. ASSUME harm = "none"
        PROVE  /\ Len(frame) <= room
               /\ frame = << >> \/ Len(frame) = kHeaderWireSize + LoadLE(frame, 2, 2)
               /\ room >= kMaxMessageSize => frame # << >>
    <2>1. frame = EncodeMessage(msg, room)
      BY <1>1 DEF CodecInv, Arrived
    <2>2. msg.type \in AllTypes
      BY <1>0, MessageIs
    <2> DEFINE l == kHeaderWireSize + BodySizeFor(msg.type)
    <2>3. l \in Nat /\ l <= kMaxMessageSize /\ kMaxMessageSize \in Nat
      <3>1. BodySizeFor(msg.type) \in 0..(ByteRange * ByteRange - 1) /\ l <= kMaxMessageSize
        BY <2>2, SizesAre
      <3>2. l \in Nat
        BY <3>1 DEF kHeaderWireSize
      <3>3. kMaxMessageSize \in Nat
        BY ByteRangeIs DEF kMaxMessageSize, kHeaderWireSize, kSnapshotBodySize
      <3> QED BY <3>1, <3>2, <3>3
    <2>4. CASE Fits(msg, room)
      <3>1. frame = Encoded(msg) /\ frame # << >>
        BY <1>0, <2>1, <2>4, EncodeIs
      <3>2. Len(frame) = l /\ LoadLE(frame, 2, 2) = BodySizeFor(msg.type)
        BY <1>0, <3>1, MessageEncoded, EverythingBack
      <3>3. l <= room
        BY <2>4 DEF Fits
      <3> QED BY <3>1, <3>2, <3>3
    <2>5. CASE ~Fits(msg, room)
      <3>1. frame = << >> /\ Len(frame) = 0
        BY <1>0, <2>1, <2>5, EncodeIs
      <3>2. ~(l <= room)
        BY <2>5 DEF Fits
      <3> HIDE DEF l
      <3>3. ~(room >= kMaxMessageSize) /\ 0 <= room
        BY <1>0, <2>3, <3>2
      <3> QED BY <3>1, <3>3
    <2> QED BY <2>4, <2>5
  <1>2. ASSUME NEW x \in Dispatched, NEW r \in Loads(x.type)
        PROVE  x.at + kHeaderWireSize + r.at + r.width <= Len(frame)
    <2>1. PICK t \in AllTypes : WholeOf(frame, x.at, t) /\ x.type = t
      BY CalledBack
    <2>2. r \in LoadT /\ r.at + r.width <= BodySizeFor(t)
      BY <2>1, LoadsAre
    <2>3. r.at \in Nat /\ r.width \in Nat
      BY <2>2 DEF LoadT
    <2>4. BodySizeFor(t) \in 0..(ByteRange * ByteRange - 1)
      BY SizesAre
    <2>5. /\ frame \in Seq(Byte) /\ x.at \in Nat
          /\ x.at + kHeaderWireSize + BodySizeFor(t) <= Len(frame)
      BY <2>1, ArrivedBytes, CalledBack DEF WholeOf
    <2> DEFINE o == x.at
               a == r.at
               w == r.width
               z == BodySizeFor(t)
               l == Len(frame)
    <2>6. /\ o \in Nat /\ a \in Nat /\ w \in Nat /\ z \in Nat /\ l \in Nat /\ a + w <= z
          /\ o + kHeaderWireSize + z <= l
      BY <2>2, <2>3, <2>4, <2>5
    <2> HIDE DEF o, a, w, z, l
    <2>7. o + kHeaderWireSize + a + w <= l
      BY <2>6 DEF kHeaderWireSize
    <2> QED BY <2>7 DEF o, a, w, l
  <1> QED BY <1>1, <1>2, CalledBack DEF InBounds

(* What is called back for the start of what arrived, and for the rest.     *)
LEMMA FirstCall ==
  ASSUME CodecInv, parsed = TRUE
  PROVE  LET calls == result.calls
             next == kHeaderWireSize + LoadLE(frame, 2, 2)
         IN  /\ LastFrame(frame, 0) => result = AtLast(frame, 0)
             /\ ~LastFrame(frame, 0) =>
                  /\ Len(calls) \in Nat /\ Len(calls) >= 1 /\ calls[1].at = 0
                  /\ \A k \in 2..Len(calls) : calls[k].at \in Nat /\ calls[k].at >= next
                  /\ kHeaderWireSize * (Len(calls) - 1) <= Len(frame) - next
  <1>1. frame \in Seq(Byte) /\ result = Frames(frame)[0] /\ 0 \in Nat
    BY ArrivedBytes, ParseBytesIs DEF CodecInv
  <1>2. CASE LastFrame(frame, 0)
    BY <1>1, <1>2, FramesIs
  <1>3. CASE ~LastFrame(frame, 0)
    <2> DEFINE p == NextFrame(frame, 0)
               d == LoadLE(frame, 2, 2)
               n == Len(frame)
               r == Frames(frame)[p]
               s == <<Handled(frame, 0)>>
               c == r.calls
    <2>1. result = Before(frame, 0, r)
      BY <1>1, <1>3, FramesIs
    <2>2. /\ p \in Nat /\ d \in Nat /\ n \in Nat /\ kHeaderWireSize = 16 /\ p = 16 + d
      <3>1. 0 + 2 = 2 /\ 0 + kHeaderWireSize = 16
        BY DEF kHeaderWireSize
      <3> QED BY <1>1, <3>1, FrameIs
    <2>3. ValidType(frame, 0) /\ p <= n
      BY <1>3, <2>2 DEF LastFrame, BodyCut
    <2>4. GoesOn(frame, p, r)
      <3>1. p \in 0..n
        BY <2>2, <2>3
      <3> QED BY <1>1, <3>1, FramesGoOn
    <2>5. Handled(frame, 0).at = 0
      <3>1. \/ Handled(frame, 0) = Malformed(0)
            \/ \E t \in AllTypes : Handled(frame, 0) = MessageIn(frame, 0, t)
        BY <1>1, <2>3, HandledIs
      <3> QED BY <3>1 DEF Malformed, MessageIn
    <2> HIDE DEF p, d, n, r, s, c
    <2>6. /\ c \in Seq(Handlings(frame)) /\ 16 * Len(c) <= n - p
          /\ \A k \in 1..Len(c) : CallBehind(frame, p, c[k])
      BY <2>2, <2>4 DEF GoesOn, Outcomes, c, n
    <2>7. s \in Seq(Handlings(frame)) /\ Len(s) = 1 /\ s[1] = Handled(frame, 0)
      <3> DEFINE h == Handled(frame, 0)
      <3>1. h \in Handlings(frame)
        BY <1>1 DEF Handlings
      <3> HIDE DEF h
      <3>2. <<h>> \in Seq(Handlings(frame)) /\ Len(<<h>>) = 1 /\ <<h>>[1] = h
        BY <3>1
      <3> QED BY <3>2 DEF h, s
    <2>8. result.calls = s \o c
      BY <2>1, <2>4 DEF Before, GoesOn, Outcomes, s, c
    <2>9. /\ Len(s \o c) = Len(s) + Len(c)
          /\ \A k \in 1..(Len(s) + Len(c)) :
               (s \o c)[k] = IF k <= Len(s) THEN s[k] ELSE c[k - Len(s)]
      BY <2>6, <2>7, ConcatProperties
    <2> DEFINE f == s \o c
               m == Len(c)
    <2>10. m \in Nat /\ Len(f) = 1 + m
      BY <2>6, <2>7, <2>9
    <2>11. f[1] = s[1]
      BY <2>7, <2>9, <2>10
    <2>12. ASSUME NEW k \in 2..(1 + m) PROVE f[k].at \in Nat /\ f[k].at >= p
      <3>1. k - 1 \in 1..m /\ ~(k <= 1) /\ k \in 1..(1 + m)
        BY <2>10
      <3>2. f[k] = c[k - 1]
        BY <2>7, <2>9, <3>1
      <3>3. CallBehind(frame, p, c[k - 1])
        BY <2>6, <3>1
      <3> QED BY <3>2, <3>3 DEF CallBehind
    <2>13. f = result.calls /\ Len(f) = 1 + m /\ 16 * m <= n - p
      BY <2>6, <2>8, <2>10
    <2> HIDE DEF f, m
    <2>14. /\ Len(f) \in Nat /\ Len(f) >= 1 /\ 16 * (Len(f) - 1) <= n - p
      BY <2>10, <2>13
    <2>15. \A k \in 2..Len(f) : f[k].at \in Nat /\ f[k].at >= p
      BY <2>12, <2>13
    <2> QED BY <1>3, <2>2, <2>5, <2>7, <2>11, <2>13, <2>14, <2>15 DEF n, d
  <1> QED BY <1>2, <1>3

(* Of a message that is cut nothing is dispatched. *)
LEMMA CutIsPartial ==
  ASSUME CodecInv, parsed = TRUE, harm = "cut"
  PROVE  result.calls = << >>
  <1> DEFINE full == Encoded(msg)
             z == BodySizeFor(msg.type)
  <1>0. msg \in Message /\ room \in Rooms /\ msg.type \in AllTypes
    BY MessageIs DEF CodecInv
  <1>1. full \in Seq(Byte) /\ Len(full) = kHeaderWireSize + z /\ LoadLE(full, 2, 2) = z
        /\ LoadLE(full, 0, 1) = TypeCode(msg.type)
    BY <1>0, MessageEncoded, EverythingBack
  <1>2. z \in Nat /\ kHeaderWireSize = 16
    <2>1. z \in 0..(ByteRange * ByteRange - 1)
      BY <1>0, SizesAre
    <2> QED BY <2>1 DEF kHeaderWireSize
  <1>3. PICK n \in 1..(Len(full) - 1) : frame = SubSeq(full, 1, n)
    BY DEF CodecInv, Arrived
  <1>4. frame \in Seq(Byte)
    BY ArrivedBytes
  <1> HIDE DEF full, z
  <1>5. n \in Nat /\ n < 16 + z /\ n \in 1..Len(full)
    BY <1>1, <1>2
  <1>6. /\ Len(frame) = n
        /\ \A off \in Nat, width \in 0..8 :
             off + width <= n => LoadLE(frame, off, width) = LoadLE(full, off, width)
    BY <1>1, <1>3, <1>5, CutLocal
  <1>7. HeaderCut(frame, 0) \/ (ValidType(frame, 0) /\ BodyCut(frame, 0))
    <2>1. CASE n < 16
      BY <1>2, <1>5, <1>6, <2>1 DEF HeaderCut
    <2>2. CASE n >= 16
      <3>1. /\ 0 \in Nat /\ 1 \in 0..8 /\ 2 \in Nat /\ 2 \in 0..8
            /\ 0 + 1 <= n /\ 2 + 2 <= n
        BY <1>5, <2>2
      <3>2. LoadLE(frame, 0, 1) = TypeCode(msg.type) /\ LoadLE(frame, 2, 2) = z
        BY <1>1, <1>6, <3>1
      <3>3. TypeCode(msg.type) \in 0..5
        BY <1>0, TypesAre
      <3>4. ValidType(frame, 0) /\ NextFrame(frame, 0) = 0 + kHeaderWireSize + z
        <4>1. 0 + 2 = 2
          OBVIOUS
        <4> QED BY <1>4, <3>1, <3>2, <3>3, <4>1, FrameIs
      <3>5. NextFrame(frame, 0) > n
        BY <1>2, <1>5, <3>4
      <3> QED BY <1>6, <3>4, <3>5 DEF BodyCut
    <2> QED BY <1>5, <2>1, <2>2
  <1>8. result = AtLast(frame, 0)
    BY <1>7, FirstCall DEF LastFrame
  <1> QED BY <1>7, <1>8 DEF AtLast, ParseResult

(* One load is spoilt by a byte at most: the fields that differ are those   *)
(* of one place.                                                           *)
LEMMA FlipSpoilsOne ==
  ASSUME CodecInv, harm = "flip", NEW x \in Dispatched, x.at = 0, x.type = msg.type
  PROVE  \E f : Differing(x) \subseteq {f}
  <1> DEFINE t == msg.type
             full == Encoded(msg)
             H == kHeaderWireSize
  <1>0. msg \in Message /\ room \in Rooms
    BY DEF CodecInv
  <1>1. t \in AllTypes /\ full \in Seq(Byte)
    BY <1>0, MessageIs, EncodeIs
  <1>2. /\ LoadLE(full, 4, 4) = msg.seq /\ LoadLE(full, 8, 8) = msg.ts
        /\ \A r \in Loads(t) : FieldIn(full, H, r) = msg.body[r.field]
    BY <1>0, EverythingBack
  <1>3. PICK i \in DOMAIN full, b \in Byte : frame = [full EXCEPT ![i] = b]
    BY DEF CodecInv, Arrived
  <1>4. WholeOf(frame, 0, t) /\ x = MessageIn(frame, 0, t)
    <2>1. PICK u \in AllTypes : /\ WholeOf(frame, x.at, u) /\ x = MessageIn(frame, x.at, u)
                                /\ x.type = u
      BY CalledBack
    <2> QED BY <2>1
  <1>5. i \in Nat /\ H = 16
    BY <1>1 DEF kHeaderWireSize
  <1> HIDE DEF full
  <1>6. /\ frame \in Seq(Byte)
        /\ \A off \in Nat, width \in 0..8 :
             i <= off \/ off + width < i => LoadLE(frame, off, width) = LoadLE(full, off, width)
    <2> DEFINE bad == [full EXCEPT ![i] = b]
    <2>1. /\ bad \in Seq(Byte)
          /\ \A off \in Nat, width \in 0..8 :
               i <= off \/ off + width < i
                 => LoadLE(bad, off, width) = LoadLE(full, off, width)
      BY <1>1, <1>3, FlipLocal
    <2>2. frame = bad
      BY <1>3
    <2> HIDE DEF bad
    <2> QED BY <2>1, <2>2
  <1>7. /\ x.seq = LoadLE(frame, 4, 4) /\ x.ts = LoadLE(frame, 8, 8)
        /\ \A r \in Loads(t) : x.body[r.field] = FieldIn(frame, H, r)
    <2>1. 0 \in Nat /\ 0 + 4 = 4 /\ 0 + 8 = 8 /\ 0 + H = H
      BY <1>5
    <2>2. 0 + H + BodySizeFor(t) <= Len(frame)
      BY <1>4 DEF WholeOf
    <2> HIDE DEF t
    <2>3. \A r \in Loads(t) : MessageIn(frame, 0, t).body[r.field] = FieldIn(frame, 0 + H, r)
      BY <1>1, <1>6, <2>1, <2>2, Decoded
    <2>4. \A r \in Loads(t) : MessageIn(frame, 0, t).body[r.field] = FieldIn(frame, H, r)
      BY <2>1, <2>3
    <2>5. /\ MessageIn(frame, 0, t).seq = LoadLE(frame, 4, 4)
          /\ MessageIn(frame, 0, t).ts = LoadLE(frame, 8, 8)
      BY <2>1 DEF MessageIn
    <2> QED BY <1>4, <2>4, <2>5
  <1>8. x.seq # msg.seq => i \in 5..8
    <2>1. 4 \in Nat /\ 4 \in 0..8 /\ 4 + 4 = 8
      OBVIOUS
    <2>2. i <= 4 \/ 8 < i => x.seq = msg.seq
      BY <1>2, <1>6, <1>7, <2>1
    <2> QED BY <1>5, <2>2
  <1>9. x.ts # msg.ts => i \in 9..16
    <2>1. 8 \in Nat /\ 8 \in 0..8 /\ 8 + 8 = 16
      OBVIOUS
    <2>2. i <= 8 \/ 16 < i => x.ts = msg.ts
      BY <1>2, <1>6, <1>7, <2>1
    <2> QED BY <1>5, <2>2
  <1> DEFINE Hit(r) == H + r.at < i /\ i <= (H + r.at) + r.width
  <1>10. ASSUME NEW r \in Loads(t) PROVE r.at \in Nat /\ r.width \in Nat /\ r.width \in 0..8
    <2>1. r \in LoadT
      BY <1>1, LoadsAre
    <2> QED BY <2>1 DEF LoadT
  <1> HIDE DEF t
  <1>11. ASSUME NEW r \in Loads(t), x.body[r.field] # msg.body[r.field] PROVE Hit(r)
    <2> DEFINE a == r.at
               w == r.width
    <2>1. a \in Nat /\ w \in Nat /\ w \in 0..8
      BY <1>10
    <2>2. FieldIn(frame, H, r) # FieldIn(full, H, r)
      BY <1>2, <1>7, <1>11
    <2>3. LoadLE(frame, H + a, w) # LoadLE(full, H + a, w)
      BY <2>2 DEF FieldIn
    <2> HIDE DEF a, w
    <2>4. H + a \in Nat
      BY <1>5, <2>1
    <2>5. ~(i <= H + a \/ (H + a) + w < i)
      BY <1>6, <2>1, <2>3, <2>4
    <2>6. H + a < i /\ i <= (H + a) + w
      BY <1>5, <2>1, <2>4, <2>5
    <2> QED BY <2>6 DEF a, w
  <1>12. ASSUME NEW r \in Loads(t), NEW q \in Loads(t), Hit(r), Hit(q) PROVE r = q
    <2> DEFINE a == r.at
               w == r.width
               c == q.at
               y == q.width
    <2>1. a \in Nat /\ w \in Nat /\ c \in Nat /\ y \in Nat
      BY <1>10
    <2>2. r = q \/ a + w <= c \/ c + y <= a
      BY <1>1, LoadsAre
    <2>3. H + a < i /\ i <= (H + a) + w /\ H + c < i /\ i <= (H + c) + y
      BY <1>12
    <2> HIDE DEF a, w, c, y
    <2>4. ~(a + w <= c) /\ ~(c + y <= a)
      BY <1>5, <2>1, <2>3
    <2> QED BY <2>2, <2>4
  <1>13. ASSUME NEW r \in Loads(t), Hit(r) PROVE i > 16
    <2> DEFINE a == r.at
    <2>1. a \in Nat /\ H + a < i
      BY <1>10, <1>13
    <2> HIDE DEF a
    <2> QED BY <1>5, <2>1
  <1> HIDE DEF Hit
  <1>14. Fields(t) = {r.field : r \in Loads(t)}
    BY <1>1, LoadsAre
  <1>15. ASSUME NEW f \in Fields(t), x.body[f] # msg.body[f]
         PROVE  \E r \in Loads(t) : r.field = f /\ Hit(r)
    <2>1. PICK r \in Loads(t) : r.field = f
      BY <1>14
    <2> QED BY <1>11, <1>15, <2>1
  <1> DEFINE D == {f \in Fields(t) : x.body[f] # msg.body[f]}
  <1>16. Differing(x) = D \cup (IF x.seq # msg.seq THEN {<<"seq", 0>>} ELSE {})
                       \cup (IF x.ts # msg.ts THEN {<<"ts", 0>>} ELSE {})
    BY DEF Differing, t
  <1>17. i > 16 => x.seq = msg.seq /\ x.ts = msg.ts
    BY <1>5, <1>8, <1>9
  <1>18. \A f \in D : \E r \in Loads(t) : r.field = f /\ Hit(r)
    BY <1>15
  <1> HIDE DEF D
  <1>19. CASE \E r \in Loads(t) : Hit(r)
    <2>1. PICK r \in Loads(t) : Hit(r)
      BY <1>19
    <2>2. D \subseteq {r.field}
      BY <1>12, <1>18, <2>1
    <2>3. Differing(x) = D
      BY <1>13, <1>16, <1>17, <2>1
    <2> QED BY <2>2, <2>3
  <1>20. CASE ~\E r \in Loads(t) : Hit(r)
    <2>1. D = {}
      BY <1>18, <1>20
    <2>2. CASE x.seq # msg.seq
      <3>1. x.ts = msg.ts
        BY <1>8, <1>9, <2>2
      <3> QED BY <1>16, <2>1, <3>1
    <2>3. CASE x.seq = msg.seq
      BY <1>16, <2>1, <2>3
    <2> QED BY <2>2, <2>3
  <1> QED BY <1>19, <1>20

(* A damaged message is as long as before, and it is read as before but for *)
(* one place.                                                              *)
LEMMA FlipIs ==
  ASSUME CodecInv, harm = "flip"
  PROVE  LET full == Encoded(msg)
         IN  /\ Len(frame) = kHeaderWireSize + BodySizeFor(msg.type)
             /\ \E i \in Nat : \A off \in Nat, width \in 0..8 :
                  i <= off \/ off + width < i
                    => LoadLE(frame, off, width) = LoadLE(full, off, width)
  <1> DEFINE full == Encoded(msg)
  <1>1. full \in Seq(Byte) /\ Len(full) = kHeaderWireSize + BodySizeFor(msg.type)
    BY MessageEncoded DEF CodecInv
  <1>2. PICK i \in DOMAIN full, b \in Byte : frame = [full EXCEPT ![i] = b]
    BY DEF CodecInv, Arrived
  <1> HIDE DEF full
  <1>3. i \in Nat
    BY <1>1
  <1> DEFINE bad == [full EXCEPT ![i] = b]
  <1>4. /\ Len(bad) = Len(full)
        /\ \A off \in Nat, width \in 0..8 :
             i <= off \/ off + width < i => LoadLE(bad, off, width) = LoadLE(full, off, width)
    BY <1>1, <1>2, FlipLocal
  <1>5. frame = bad
    BY <1>2
  <1> HIDE DEF bad
  <1> QED BY <1>1, <1>3, <1>4, <1>5 DEF full

(* The message at the start is the only one, and one field of it is spoilt, *)
(* or an add and a trade are taken for each other.                         *)
LEMMA StartConfined ==
  ASSUME CodecInv, NEW x \in Dispatched, x.at = 0, harm = "flip"
  PROVE  Len(result.calls) = 1 /\ Spoilt(x)
  <1> DEFINE full == Encoded(msg)
             z == BodySizeFor(msg.type)
             n == Len(result.calls)
  <1>0. msg \in Message /\ msg.type \in AllTypes
    BY MessageIs DEF CodecInv
  <1>1. /\ LoadLE(full, 0, 1) = TypeCode(msg.type) /\ LoadLE(full, 2, 2) = z
        /\ LoadLE(full, 4, 4) = msg.seq /\ LoadLE(full, 8, 8) = msg.ts
    BY <1>0, EverythingBack
  <1>2. z \in Nat /\ kHeaderWireSize = 16
    <2>1. z \in 0..(ByteRange * ByteRange - 1)
      BY <1>0, SizesAre
    <2> QED BY <2>1 DEF kHeaderWireSize
  <1>3. PICK t \in AllTypes : WholeOf(frame, 0, t) /\ x = MessageIn(frame, 0, t) /\ x.type = t
    BY CalledBack
  <1>4. 0 + 1 = 1 /\ 0 + 2 = 2 /\ 0 + 4 = 4 /\ 0 + 8 = 8 /\ 0 + kHeaderWireSize = 16
    BY <1>2
  <1>5. /\ LoadLE(frame, 0, 1) = TypeCode(t) /\ LoadLE(frame, 2, 2) = BodySizeFor(t)
        /\ x.seq = LoadLE(frame, 4, 4) /\ x.ts = LoadLE(frame, 8, 8)
    BY <1>3, <1>4 DEF WholeOf, MessageIn
  <1> HIDE DEF full, z
  <1>6. PICK i \in Nat : \A off \in Nat, width \in 0..8 :
          i <= off \/ off + width < i => LoadLE(frame, off, width) = LoadLE(full, off, width)
    BY FlipIs DEF full
  <1>7. x.type # msg.type => i <= 1
    <2>1. 0 \in Nat /\ 1 \in 0..8
      OBVIOUS
    <2>2. x.type # msg.type => TypeCode(t) # TypeCode(msg.type)
      BY <1>0, <1>3, TypesAre
    <2>3. x.type # msg.type => ~(i <= 0 \/ 0 + 1 < i)
      BY <1>1, <1>5, <1>6, <2>1, <2>2
    <2> QED BY <2>3
  <1>8. i <= 1 => BodySizeFor(t) = z /\ x.seq = msg.seq /\ x.ts = msg.ts
    <2>1. /\ 2 \in Nat /\ 2 \in 0..8 /\ 4 \in Nat /\ 4 \in 0..8 /\ 8 \in Nat /\ 8 \in 0..8
      OBVIOUS
    <2>2. i <= 1 => i <= 2 /\ i <= 4 /\ i <= 8
      OBVIOUS
    <2> QED BY <1>1, <1>5, <1>6, <2>1, <2>2
  <1>9. BodySizeFor(t) = z
    BY <1>3, <1>7, <1>8 DEF z
  <1>10. Spoilt(x)
    <2>1. CASE x.type = msg.type
      <3>1. PICK f : Differing(x) \subseteq {f}
        BY <2>1, FlipSpoilsOne
      <3>2. Differing(x) = {} \/ Differing(x) = {f}
        BY <3>1
      <3>3. Cardinality(Differing(x)) = 0 \/ Cardinality(Differing(x)) = 1
        BY <3>2, FS_EmptySet, FS_Singleton
      <3>4. Cardinality(Differing(x)) <= 1
        BY <3>3
      <3> QED BY <2>1, <3>4 DEF Spoilt
    <2>2. CASE x.type # msg.type
      <3>1. {x.type, msg.type} = {"AddOrder", "Trade"}
        BY <1>0, <1>3, <1>9, <2>2, SizesAre DEF z
      <3> QED BY <1>7, <1>8, <2>2, <3>1 DEF Spoilt
    <2> QED BY <2>1, <2>2
  <1>11. n = 1
    <2>1. PICK k \in 1..n : x = result.calls[k]
      BY CalledBack
    <2>2. parsed = TRUE
      BY CalledBack
    <2>3. ~LastFrame(frame, 0)
      <3> SUFFICES ASSUME LastFrame(frame, 0) PROVE FALSE
        OBVIOUS
      <3>1. result = AtLast(frame, 0)
        BY <2>2, FirstCall
      <3>2. n = 0 \/ result.calls = <<Malformed(0)>>
        BY <3>1 DEF AtLast, ParseResult
      <3>3. x = Malformed(0)
        <4>1. n # 0
          BY <2>1
        <4>2. result.calls = <<Malformed(0)>> /\ n = 1
          BY <3>2, <4>1
        <4> QED BY <2>1, <4>2
      <3> QED BY <3>3 DEF Malformed, Dispatched
    <2>4. n \in Nat /\ n >= 1 /\ 16 * (n - 1) <= Len(frame) - (16 + z)
      BY <1>2, <1>5, <1>9, <2>2, <2>3, FirstCall
    <2>5. Len(frame) = 16 + z
      BY <1>2, FlipIs DEF z
    <2> HIDE DEF n
    <2>6. 16 * (n - 1) <= 0
      BY <1>2, <2>4, <2>5
    <2> QED BY <2>4, <2>6
  <1> QED BY <1>10, <1>11

(* The sizes that are compared below. *)
LEMMA SmallSizes ==
  ASSUME NEW t \in AllTypes, t # "BookSnapshot"
  PROVE  /\ BodySizeFor(t) \in 0..25
         /\ BodySizeFor(t) < 12 => t = "Heartbeat"
         /\ BodySizeFor(t) > 12 => t \in {"AddOrder", "ModifyOrder", "Trade"}
  <1>1. /\ BodySizeFor("Heartbeat") = 0 /\ BodySizeFor("AddOrder") = 25
        /\ BodySizeFor("CancelOrder") = 12 /\ BodySizeFor("ModifyOrder") = 24
        /\ BodySizeFor("Trade") = 25
    BY DEF BodySizeFor, kAddOrderBodySize, kCancelOrderBodySize, kModifyOrderBodySize,
           kTradeBodySize
  <1>2. t \in {"Heartbeat", "AddOrder", "CancelOrder", "ModifyOrder", "Trade"}
    BY TypesAre
  <1> QED BY <1>1, <1>2

(* A snapshot is larger than that. *)
LEMMA SnapshotSize == BodySizeFor("BookSnapshot") \in Nat /\ BodySizeFor("BookSnapshot") >= 32
  <1>1. BodySizeFor("BookSnapshot") = 8 + 2 * MaxSnapshotLevels * 12
    BY DEF BodySizeFor, kSnapshotBodySize
  <1>2. MaxSnapshotLevels \in Nat /\ MaxSnapshotLevels >= 1
    BY ByteRangeIs
  <1> QED BY <1>1, <1>2

(* A message behind the start is an invented one: the length was damaged    *)
(* and is too small, and there is room for a smaller message in the body.   *)
LEMMA InventedConfined ==
  ASSUME CodecInv, NEW x \in Dispatched, x.at # 0, harm = "flip"
  PROVE  Invented(x)
  <1> DEFINE z == BodySizeFor(msg.type)
             d == LoadLE(frame, 2, 2)
             calls == result.calls
             n == Len(calls)
             o == x.at
  <1>0. msg.type \in AllTypes
    BY MessageIs DEF CodecInv
  <1>1. z \in Nat /\ kHeaderWireSize = 16 /\ Len(frame) = 16 + z
    <2>1. z \in 0..(ByteRange * ByteRange - 1)
      BY <1>0, SizesAre
    <2>2. kHeaderWireSize = 16
      BY DEF kHeaderWireSize
    <2> QED BY <2>1, <2>2, FlipIs
  <1>2. d \in Nat
    <2>1. 2 \in Nat /\ 2 \in 0..8
      OBVIOUS
    <2> QED BY <2>1, ArrivedBytes, LoadType
  <1>3. parsed = TRUE /\ o \in Nat /\ 16 * n <= 16 + z
    BY <1>1, CalledBack
  <1>4. PICK k \in 1..n : x = calls[k]
    BY CalledBack
  <1>5. PICK t \in AllTypes : WholeOf(frame, o, t) /\ x.type = t
    BY CalledBack
  <1>6. ~LastFrame(frame, 0)
    <2> SUFFICES ASSUME LastFrame(frame, 0) PROVE FALSE
      OBVIOUS
    <2>1. result = AtLast(frame, 0)
      BY <1>3, FirstCall
    <2>2. n = 0 \/ calls = <<Malformed(0)>>
      BY <2>1 DEF AtLast, ParseResult
    <2>3. n # 0
      BY <1>4
    <2>4. calls = <<Malformed(0)>> /\ n = 1
      BY <2>2, <2>3
    <2>5. x = Malformed(0)
      BY <1>4, <2>4
    <2> QED BY <2>5 DEF Malformed, Dispatched
  <1>7. /\ n \in Nat /\ n >= 1 /\ calls[1].at = 0
        /\ \A j \in 2..n : calls[j].at \in Nat /\ calls[j].at >= 16 + d
    BY <1>1, <1>3, <1>6, FirstCall
  <1> DEFINE y == BodySizeFor(t)
  <1>8. y \in Nat /\ o + 16 + y <= 16 + z
    <2>1. y \in 0..(ByteRange * ByteRange - 1)
      BY SizesAre
    <2>2. o + kHeaderWireSize + y <= Len(frame)
      BY <1>5 DEF WholeOf
    <2> QED BY <1>1, <2>1, <2>2
  <1>9. k # 1
    BY <1>4, <1>7
  <1> HIDE DEF z, d, n, y
  <1>10. k \in 2..n /\ n >= 2
    BY <1>4, <1>7, <1>9
  <1>11. o >= 16 + d
    BY <1>4, <1>7, <1>10
  <1> HIDE DEF o
  <1>12. d < z /\ y + 16 <= z
    BY <1>1, <1>2, <1>3, <1>8, <1>11
  <1>13. CASE msg.type = "BookSnapshot"
    <2>1. t # "BookSnapshot"
      <3>1. t = "BookSnapshot" => y = z
        BY <1>13 DEF y, z
      <3> QED BY <1>1, <1>8, <1>12, <3>1
    <2> QED BY <1>1, <1>5, <1>11, <1>12, <1>13, <2>1 DEF Invented, d, z, o
  <1>14. CASE msg.type # "BookSnapshot"
    <2>1. z <= 25 /\ (z > 12 => msg.type \in {"AddOrder", "ModifyOrder", "Trade"})
      <3>1. /\ BodySizeFor(msg.type) \in 0..25
            /\ BodySizeFor(msg.type) > 12 => msg.type \in {"AddOrder", "ModifyOrder", "Trade"}
        BY <1>0, <1>14, SmallSizes
      <3>2. z \in 0..25
        BY <3>1 DEF z
      <3>3. z > 12 => msg.type \in {"AddOrder", "ModifyOrder", "Trade"}
        BY <3>1 DEF z
      <3> QED BY <3>2, <3>3
    <2>2. y < 12 /\ z > 12
      BY <1>1, <1>8, <1>12, <2>1
    <2>3. t # "BookSnapshot"
      BY <2>2, SnapshotSize DEF y
    <2>4. t = "Heartbeat"
      BY <2>2, <2>3, SmallSizes DEF y
    <2>5. n = 2
      BY <1>1, <1>3, <1>7, <1>10, <2>1
    <2> QED BY <1>1, <1>5, <1>11, <1>12, <1>14, <2>1, <2>2, <2>4, <2>5 DEF Invented, d, z, o, n
  <1> QED BY <1>13, <1>14

(* DamageConfined holds: parse takes no cut message, a damaged type is      *)
(* taken only for one of the same size, a damaged byte belongs to one       *)
(* field, and behind a damaged length the loop finds room only for          *)
(* messages that are smaller than the one that was sent.                    *)
LEMMA DamageConfinedHolds == CodecInv => DamageConfined
  <1> SUFFICES ASSUME CodecInv PROVE DamageConfined
    OBVIOUS
  <1>1. parsed /\ harm = "cut" => result.calls = << >>
    <2>1. parsed => parsed = TRUE
      BY DEF CodecInv
    <2> QED BY <2>1, CutIsPartial
  <1>2. ASSUME NEW x \in Dispatched
        PROVE  IF x.at = 0 THEN Len(result.calls) = 1 /\ Spoilt(x) ELSE Invented(x)
    <2>1. parsed = TRUE
      BY CalledBack
    <2>2. harm # "cut"
      <3> SUFFICES ASSUME harm = "cut" PROVE FALSE
        OBVIOUS
      <3>1. Len(result.calls) = 0
        BY <2>1, CutIsPartial
      <3>2. PICK k \in 1..Len(result.calls) : x = result.calls[k]
        BY CalledBack
      <3> QED BY <3>1, <3>2
    <2>3. CASE harm = "none"
      <3> DEFINE whole == [kind |-> "message", at |-> 0, type |-> msg.type, seq |-> msg.seq,
                           ts |-> msg.ts, body |-> msg.body]
      <3>1. result.calls = <<whole>>
        <4>1. result = ParseResult(<<whole>>, Len(frame), FALSE)
          BY <2>1, <2>3, RoundTripHolds DEF RoundTrip
        <4> HIDE DEF whole
        <4> QED BY <4>1 DEF ParseResult
      <3>2. PICK k \in 1..Len(result.calls) : x = result.calls[k]
        BY CalledBack
      <3> HIDE DEF whole
      <3>3. Len(result.calls) = 1 /\ x = whole
        BY <3>1, <3>2
      <3>4. /\ x.at = 0 /\ x.type = msg.type /\ x.seq = msg.seq /\ x.ts = msg.ts
            /\ x.body = msg.body
        BY <3>3 DEF whole
      <3>5. Differing(x) = {}
        BY <3>4 DEF Differing
      <3>6. Cardinality(Differing(x)) <= 1
        BY <3>5, FS_EmptySet
      <3> QED BY <3>3, <3>4, <3>6 DEF Spoilt
    <2>4. CASE harm = "flip"
      BY <2>4, StartConfined, InventedConfined
    <2> QED BY <2>2, <2>3, <2>4 DEF CodecInv, Arrived
  <1> QED BY <1>1, <1>2 DEF DamageConfined

(* encode_message and BinaryParser::parse, of every message, in a buffer of *)
(* any size and for every number of values of a byte: a message that is    *)
(* not damaged comes back with its type, its header and all its fields,    *)
(* and it is consumed to its end.                                          *)
THEOREM MessagesAlwaysRoundTrip == CodecSpec => []RoundTrip
  BY CodecAlwaysInv, RoundTripHolds, PTL

(* encode_message never writes more than the buffer holds or other than its *)
(* header declares, and wherever parse goes, decode_body never reads behind *)
(* what arrived, even when a byte was damaged or the rest was cut off.      *)
THEOREM CodecAlwaysInBounds == CodecSpec => []InBounds
  BY CodecAlwaysInv, InBoundsHolds, PTL

(* What parse dispatches from a message of which one byte was damaged: the  *)
(* message itself with one field spoilt, or as an add for a trade or a      *)
(* trade for an add, and nothing else; or, when its declared length became  *)
(* too small, smaller messages that nobody sent, from its body.  A message  *)
(* that is cut is never dispatched.                                         *)
THEOREM DamageAlwaysConfined == CodecSpec => []DamageConfined
  BY CodecAlwaysInv, DamageConfinedHolds, PTL
==============================================================================
