------------------------------ MODULE SpscQueue ------------------------------
(***************************************************************************)
(* SPSCQueue (spsc_queue.hpp): the bounded ring between one producer and   *)
(* one consumer thread, at the granularity of its atomic accesses and      *)
(* under C++ release/acquire semantics.                                    *)
(*                                                                         *)
(* An atomic index is represented by its modification order: the sequence  *)
(* of the values stored in it, starting with the one the OTHER thread last *)
(* read.  The thread that owns the index reads the last entry; the other   *)
(* thread may read any entry (a stale value is legal C++) and never goes   *)
(* back to an earlier one (coherence).  Each entry also carries the slots  *)
(* its thread touched before the store and since its previous store: an    *)
(* acquire load of the entry orders those accesses before the reader, a    *)
(* relaxed load would not.  A slot access that is not so ordered races.    *)
(***************************************************************************)
EXTENDS Naturals, Sequences

CONSTANTS Items,     \* values of T
          NoItem,    \* the default-constructed T of an untouched slot
          Requested  \* the constructor's capacity argument

(* round_up_pow2: the doubling loop from 1, as a function of p. *)
RoundUpPow2(v) ==
  LET double[p \in 1..(2 * v)] == IF p < v THEN double[2 * p] ELSE p
  IN  double[1]

(* capacity_ *)
Capacity == RoundUpPow2(IF Requested < 2 THEN 2 ELSE Requested)

(* i & mask_ is i % Capacity because Capacity is a power of two. *)
ASSUME CapacityAssumption ==
  /\ Capacity \in Nat /\ Capacity >= 2 /\ Capacity >= Requested
  /\ \E e \in 0..Capacity : Capacity = 2 ^ e
ASSUME NoItemAssumption == NoItem \notin Items

VARIABLES buffer,    \* buffer_
          headMO,    \* modification order of head_, from the consumer's view on
          tailMO,    \* modification order of tail_, from the producer's view on
          prod,      \* the producer's call of try_push
          cons       \* the consumer's call of try_pop

vars == <<buffer, headMO, tailMO, prod, cons>>

Slots == 0..(Capacity - 1)

(* capacity(): one slot is reserved to tell full from empty. *)
UsableCapacity == Capacity - 1

(* Fault: the index is advanced without the mask. *)
NextSlotUnmasked(i) == i + 1

(* (i + 1) & mask_ *)
NextSlot(i) == (i + 1) % Capacity

Latest(mo) == mo[Len(mo)].val

(* What a thread holds while it runs one call.  touched: slots accessed     *)
(* since the thread's last release store.                                  *)
Producer == [pc : {"idle", "write", "publish"}, item : Items \cup {NoItem},
             touched : SUBSET Slots]
Consumer == [pc : {"idle", "read", "release"}, out : Items \cup {NoItem},
             popped : Items \cup {NoItem}, touched : SUBSET Slots]
Entry == [val : Slots, touched : SUBSET Slots]

Init ==
  /\ buffer = [s \in Slots |-> NoItem]
  /\ headMO = <<[val |-> 0, touched |-> {}]>>
  /\ tailMO = <<[val |-> 0, touched |-> {}]>>
  /\ prod = [pc |-> "idle", item |-> NoItem, touched |-> {}]
  /\ cons = [pc |-> "idle", out |-> NoItem, popped |-> NoItem, touched |-> {}]

(* Fault: a relaxed load reads the value but orders nothing. *)
RelaxedLoad(mo, k) ==
  <<[val |-> mo[k].val, touched |-> UNION {mo[i].touched : i \in 1..k}]>>
    \o SubSeq(mo, k + 1, Len(mo))

(* An acquire load that reads entry k of another thread's index: earlier    *)
(* entries are gone, the accesses released with entry k are ordered.       *)
AcquireLoad(mo, k) ==
  <<[val |-> mo[k].val, touched |-> {}]>> \o SubSeq(mo, k + 1, Len(mo))

(* A release store: it publishes the accesses made since the last one. *)
ReleaseStore(mo, v, touched) == Append(mo, [val |-> v, touched |-> touched])

-----------------------------------------------------------------------------
(* try_push: the relaxed load of the own index and the acquire load of     *)
(* tail_, of which entry k is read.  The first disjunct is "full".         *)
PushFull(k) ==
  /\ prod.pc = "idle"
  /\ NextSlot(Latest(headMO)) = tailMO[k].val
  /\ tailMO' = AcquireLoad(tailMO, k)
  /\ UNCHANGED <<buffer, headMO, prod, cons>>

(* Fault: try_push does not test for a full ring. *)
PushBeginUnchecked(item, k) ==
  /\ prod.pc = "idle"
  /\ tailMO' = AcquireLoad(tailMO, k)
  /\ prod' = [prod EXCEPT !.pc = "write", !.item = item]
  /\ UNCHANGED <<buffer, headMO, cons>>

PushBegin(item, k) ==
  /\ prod.pc = "idle"
  /\ NextSlot(Latest(headMO)) # tailMO[k].val
  /\ tailMO' = AcquireLoad(tailMO, k)
  /\ prod' = [prod EXCEPT !.pc = "write", !.item = item]
  /\ UNCHANGED <<buffer, headMO, cons>>

(* buffer_[head] = item *)
PushWrite ==
  /\ prod.pc = "write"
  /\ buffer' = [buffer EXCEPT ![Latest(headMO)] = prod.item]
  /\ prod' = [prod EXCEPT !.pc = "publish", !.touched = @ \cup {Latest(headMO)}]
  /\ UNCHANGED <<headMO, tailMO, cons>>

(* head_.store(next, release); return true *)
PushPublish ==
  /\ prod.pc = "publish"
  /\ headMO' = ReleaseStore(headMO, NextSlot(Latest(headMO)), prod.touched)
  /\ prod' = [prod EXCEPT !.pc = "idle", !.touched = {}]
  /\ UNCHANGED <<buffer, tailMO, cons>>

(* try_pop: the acquire load of head_ reads entry k. *)
PopEmpty(k) ==
  /\ cons.pc = "idle"
  /\ Latest(tailMO) = headMO[k].val
  /\ headMO' = AcquireLoad(headMO, k)
  /\ UNCHANGED <<buffer, tailMO, prod, cons>>

(* Fault: the empty test is off by one, so the last item is never taken. *)
PopBeginOffByOne(k) ==
  /\ cons.pc = "idle"
  /\ Latest(tailMO) # headMO[k].val
  /\ NextSlot(Latest(tailMO)) # headMO[k].val
  /\ headMO' = AcquireLoad(headMO, k)
  /\ cons' = [cons EXCEPT !.pc = "read"]
  /\ UNCHANGED <<buffer, tailMO, prod>>

PopBegin(k) ==
  /\ cons.pc = "idle"
  /\ Latest(tailMO) # headMO[k].val
  /\ headMO' = AcquireLoad(headMO, k)
  /\ cons' = [cons EXCEPT !.pc = "read"]
  /\ UNCHANGED <<buffer, tailMO, prod>>

(* out = buffer_[tail] *)
PopRead ==
  /\ cons.pc = "read"
  /\ cons' = [cons EXCEPT !.pc = "release", !.out = buffer[Latest(tailMO)],
                          !.touched = @ \cup {Latest(tailMO)}]
  /\ UNCHANGED <<buffer, headMO, tailMO, prod>>

(* Fault: tail_ is advanced by two. *)
PopReleaseTwice ==
  /\ cons.pc = "release"
  /\ tailMO' = ReleaseStore(tailMO, NextSlot(NextSlot(Latest(tailMO))), cons.touched)
  /\ cons' = [cons EXCEPT !.pc = "idle", !.popped = cons.out, !.touched = {}]
  /\ UNCHANGED <<buffer, headMO, prod>>

(* tail_.store((tail + 1) & mask_, release); return true *)
PopRelease ==
  /\ cons.pc = "release"
  /\ tailMO' = ReleaseStore(tailMO, NextSlot(Latest(tailMO)), cons.touched)
  /\ cons' = [cons EXCEPT !.pc = "idle", !.popped = cons.out, !.touched = {}]
  /\ UNCHANGED <<buffer, headMO, prod>>

(* empty(), called by the consumer: it reads its own tail_ and entry k of   *)
(* head_; the call returns Latest(tailMO) = headMO[k].val.                 *)
CheckEmpty(k) ==
  /\ cons.pc = "idle"
  /\ headMO' = AcquireLoad(headMO, k)
  /\ UNCHANGED <<buffer, tailMO, prod, cons>>

TryPush ==
  \/ \E k \in DOMAIN tailMO : PushFull(k)
  \/ \E k \in DOMAIN tailMO, item \in Items : PushBegin(item, k)
  \/ PushWrite
  \/ PushPublish

TryPop ==
  \/ \E k \in DOMAIN headMO : PopEmpty(k) \/ PopBegin(k) \/ CheckEmpty(k)
  \/ PopRead
  \/ PopRelease

Next == TryPush \/ TryPop

Spec == Init /\ [][Next]_vars

(* A running consumer keeps calling try_pop, and its acquire loads do not   *)
(* stay stale for ever: the value in force is eventually read.             *)
Fairness ==
  /\ WF_vars(PopBegin(Len(headMO)))
  /\ WF_vars(PopRead \/ PopRelease)
  /\ WF_vars(PushWrite \/ PushPublish)

FairSpec == Spec /\ Fairness

-----------------------------------------------------------------------------
TypeOK ==
  /\ buffer \in [Slots -> Items \cup {NoItem}]
  /\ headMO \in Seq(Entry) /\ Len(headMO) > 0
  /\ tailMO \in Seq(Entry) /\ Len(tailMO) > 0
  /\ prod \in Producer
  /\ cons \in Consumer

(* Slots a thread touched that are not yet ordered before the other thread. *)
Unordered(mo, touched) ==
  touched \cup UNION {mo[i].touched : i \in DOMAIN mo}

(* "Correctness rests on a release-store / acquire-load pair on the head    *)
(* and tail indices": whenever a thread is about to access a slot, the     *)
(* other thread is not accessing it, and every earlier access of the other *)
(* thread to it happens before, so buffer_ is free of data races.          *)
NoDataRace ==
  /\ prod.pc = "write" =>
       /\ Latest(headMO) \notin Unordered(tailMO, cons.touched)
       /\ cons.pc = "read" => Latest(tailMO) # Latest(headMO)
  /\ cons.pc = "read" => Latest(tailMO) \notin Unordered(headMO, prod.touched)

(* Slots from a forward to b around the ring. *)
Distance(a, b) == IF b >= a THEN b - a ELSE b + Capacity - a

(* A modification order advances one slot per store, and each store         *)
(* released exactly the access to the slot it moved past.                  *)
Chained(mo) ==
  \A i \in DOMAIN mo :
    /\ Distance(mo[i].val, Latest(mo)) = Len(mo) - i
    /\ mo[i].touched # {} => i > 1
    /\ \A s \in mo[i].touched : Distance(s, Latest(mo)) = Len(mo) - i + 1

(* The slots filled, as the last stores to the two indices have it. *)
Filled == Distance(Latest(tailMO), Latest(headMO))

(* From the oldest tail_ the producer may still act on, over the items in   *)
(* the ring, to the newest head_ is less than one lap; and the consumer    *)
(* never acts on a head_ older than its own tail_.                         *)
WithinOneLap ==
  /\ Len(tailMO) + Filled <= Capacity
  /\ Len(headMO) - 1 <= Filled

(* A try_push past its test for "full" has a slot to spare for its item. *)
PushHasRoom ==
  /\ prod.pc # "idle" => prod.item \in Items /\ Len(tailMO) + Filled < Capacity
  /\ prod.pc = "publish" =>
       prod.touched = {Latest(headMO)} /\ buffer[Latest(headMO)] = prod.item
  /\ prod.pc # "publish" => prod.touched = {}

(* A try_pop past its test for "empty" has a published item to take. *)
PopHasItem ==
  /\ cons.pc # "idle" => Len(headMO) <= Filled
  /\ cons.pc = "release" =>
       cons.touched = {Latest(tailMO)} /\ cons.out = buffer[Latest(tailMO)]
  /\ cons.pc # "release" => cons.touched = {}

(* The two threads' possibly stale views never contradict each other. *)
ViewsAgree ==
  /\ Chained(headMO) /\ Chained(tailMO)
  /\ WithinOneLap
  /\ PushHasRoom
  /\ PopHasItem

(* The queued items: the slots from tail_ up to head_. *)
Contents ==
  [i \in 1..Filled |-> buffer[(Latest(tailMO) + i - 1) % Capacity]]

Fifo == INSTANCE BoundedFifo
          WITH Bound <- UsableCapacity, queue <- Contents, last <- cons.popped

(* The ring implements a bounded FIFO queue: nothing is lost, duplicated or *)
(* reordered, and at most capacity() items are ever held.                  *)
ImplementsFifo == Fifo!Spec

(* The items that the oldest head_ the consumer may still read covers, and  *)
(* those that the oldest tail_ the producer may still read leaves.         *)
SeenItems == Filled - (Len(headMO) - 1)
OccupiedItems == Filled + (Len(tailMO) - 1)

Views == INSTANCE StaleFifo
           WITH Bound <- UsableCapacity, queue <- Contents,
                seen <- SeenItems, occupied <- OccupiedItems

(* What the pipeline's threads rely on: a stale index only ever makes the   *)
(* consumer see fewer items, and the producer less room, than there are,   *)
(* and a view never gets worse by looking again.                           *)
ImplementsViews == Views!Spec

(* A published item is eventually taken by a consumer that keeps polling,  *)
(* although its loads of head_ may be stale for any finite time.           *)
EventuallyPopped == (Filled > 0) ~> (cons.pc = "release")
=============================================================================
