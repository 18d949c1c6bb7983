------------------------------ MODULE StaleFifo ------------------------------
(***************************************************************************)
(* SPSCQueue as its two threads see it: a bounded first-in first-out queue *)
(* of which each thread may have an out-of-date view.  The consumer is     *)
(* sure of the oldest seen items only, the producer still counts occupied  *)
(* items.  A try_push that returns false, a try_pop that returns false and *)
(* an empty() that returns true are right about such a view, and may be    *)
(* wrong about the queue.                                                  *)
(***************************************************************************)
EXTENDS Naturals, Sequences

CONSTANTS Items, Bound

VARIABLES queue,     \* the published items, oldest first
          seen,      \* how many of them the consumer's view of head_ covers
          occupied   \* how many the producer's view of tail_ leaves in the ring

vars == <<queue, seen, occupied>>

Init == queue = << >> /\ seen = 0 /\ occupied = 0

(* What an acquire load of head_, of tail_ may now show. *)
SeenNow == seen..Len(queue)
OccupiedNow == Len(queue)..occupied

(* Fault: an item is stored whether or not there is room. *)
HasRoomAlways(o) == TRUE

HasRoom(o) == o < Bound

(* try_push, when its load of tail_ shows o items *)
TryPush(item) ==
  \E o \in OccupiedNow :
    /\ HasRoom(o)
    /\ queue' = Append(queue, item)
    /\ occupied' = o + 1
    /\ UNCHANGED seen

(* try_push returns false: it has nothing to change. *)
PushFails == occupied = Bound

(* try_pop of the item Head(queue), when its load of head_ shows v items *)
TryPop ==
  \E v \in SeenNow :
    /\ v > 0
    /\ queue' = Tail(queue)
    /\ seen' = v - 1
    /\ UNCHANGED occupied

(* try_pop returns false, or empty() true: nothing to change. *)
PopFails == seen = 0

(* A load that shows v items and takes none. *)
Look(v) ==
  /\ v \in SeenNow
  /\ seen' = v
  /\ UNCHANGED <<queue, occupied>>

(* A load that shows o items and adds none. *)
Recount(o) ==
  /\ o \in OccupiedNow
  /\ occupied' = o
  /\ UNCHANGED <<queue, seen>>

Next ==
  \/ \E item \in Items : TryPush(item)
  \/ TryPop
  \/ \E v \in SeenNow : Look(v)
  \/ \E o \in OccupiedNow : Recount(o)

Spec == Init /\ [][Next]_vars
==============================================================================
