----------------------------- MODULE BoundedFifo -----------------------------
(***************************************************************************)
(* What SPSCQueue promises to its two threads: a first-in first-out queue  *)
(* of at most Bound items.  A push that returns true appends its item, a   *)
(* pop that returns true removes the oldest item and hands it out; an      *)
(* operation that returns false leaves the queue alone.                    *)
(***************************************************************************)
EXTENDS Naturals, Sequences

CONSTANTS Items,   \* what may be queued
          Bound,   \* SPSCQueue::capacity(), the usable capacity
          NoItem   \* nothing has been popped yet

VARIABLES queue,   \* the queued items, oldest first
          last     \* the item handed out by the latest successful pop

vars == <<queue, last>>

Init == queue = << >> /\ last = NoItem

Put(item) ==
  /\ Len(queue) < Bound
  /\ queue' = Append(queue, item)
  /\ UNCHANGED last

Take ==
  /\ queue # << >>
  /\ last' = Head(queue)
  /\ queue' = Tail(queue)

Next == (\E item \in Items : Put(item)) \/ Take

Spec == Init /\ [][Next]_vars
==============================================================================
