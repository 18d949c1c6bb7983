--------------------------- MODULE SequenceTracker ---------------------------
(***************************************************************************)
(* SequenceTracker (sequence_tracker.hpp) as a value: what observe makes   *)
(* of a tracker and of the sequence number that arrives, and how it        *)
(* classifies it.  Sequence is an unsigned integer that wraps.             *)
(***************************************************************************)
EXTENDS Naturals

CONSTANT SeqRange   \* Sequence is 0..(SeqRange - 1); 2^32 in the code

ASSUME SeqRangeAssumption == SeqRange \in Nat /\ SeqRange > 1

Sequence == 0..(SeqRange - 1)

SeqStatus == {"InOrder", "Duplicate", "Gap", "OutOfOrder"}

SeqStats == [total : Nat, in_order : Nat, duplicates : Nat,
             out_of_order : Nat, gap_events : Nat, missing : Nat]

Tracker == [initialized : BOOLEAN, next_expected : Sequence, last_seq : Sequence,
            stats : SeqStats]

NewTracker ==
  [initialized |-> FALSE, next_expected |-> 0, last_seq |-> 0,
   stats |-> [total |-> 0, in_order |-> 0, duplicates |-> 0,
              out_of_order |-> 0, gap_events |-> 0, missing |-> 0]]

(* seq + 1, in the width of Sequence *)
Succ(seq) == (seq + 1) % SeqRange

(* Fault: a number behind the expected one that is not a re-send passes. *)
ClassifyLate(t, seq) ==
  IF ~t.initialized \/ seq = t.next_expected THEN "InOrder"
  ELSE IF seq = t.last_seq THEN "Duplicate"
  ELSE "Gap"

(* The status that observe returns. *)
Classify(t, seq) ==
  IF ~t.initialized \/ seq = t.next_expected THEN "InOrder"
  ELSE IF seq > t.next_expected THEN "Gap"
  ELSE IF seq = t.last_seq THEN "Duplicate"
  ELSE "OutOfOrder"

(* Fault: a late message moves the expected number back. *)
ExpectAfterAny(t, seq) == Succ(seq)

(* next_expected_ after observe: only InOrder and Gap advance it. *)
ExpectAfter(t, seq) ==
  IF Classify(t, seq) \in {"InOrder", "Gap"} THEN Succ(seq) ELSE t.next_expected

(* Fault: the message that reveals the gap is counted as missing too. *)
SkippedOneMore(t, seq) ==
  IF Classify(t, seq) = "Gap" THEN seq - t.next_expected + 1 ELSE 0

(* What observe adds to missing: the numbers it jumps over. *)
Skipped(t, seq) ==
  IF Classify(t, seq) = "Gap" THEN seq - t.next_expected ELSE 0

Tick(status, which) == IF status = which THEN 1 ELSE 0

Observe(t, seq) ==
  LET status == Classify(t, seq)
  IN  [initialized   |-> TRUE,
       next_expected |-> ExpectAfter(t, seq),
       last_seq      |-> seq,
       stats         |->
         [total        |-> t.stats.total + 1,
          in_order     |-> t.stats.in_order + Tick(status, "InOrder"),
          duplicates   |-> t.stats.duplicates + Tick(status, "Duplicate"),
          out_of_order |-> t.stats.out_of_order + Tick(status, "OutOfOrder"),
          gap_events   |-> t.stats.gap_events + Tick(status, "Gap"),
          missing      |-> t.stats.missing + Skipped(t, seq)]]
==============================================================================
