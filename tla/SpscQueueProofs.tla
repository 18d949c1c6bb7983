--------------------------- MODULE SpscQueueProofs ---------------------------
(***************************************************************************)
(* Proofs about SpscQueue, for every set of items and every capacity:      *)
(* type correctness, freedom from data races, and the refinement of        *)
(* BoundedFifo.  The inductive invariant is TypeOK /\ ViewsAgree.          *)
(***************************************************************************)
EXTENDS SpscQueue, TLAPS

Inv == TypeOK /\ ViewsAgree

(* The part of the assumption on the capacity that the proofs use. *)
LEMMA CapacityNat == Capacity \in Nat /\ Capacity >= 2
  BY CapacityAssumption

(* The masked increment of spsc_queue.hpp wraps to slot 0. *)
LEMMA NextSlotWraps ==
  ASSUME NEW i \in Slots
  PROVE  /\ NextSlot(i) = IF i = Capacity - 1 THEN 0 ELSE i + 1
         /\ NextSlot(i) \in Slots
  BY CapacityNat DEF NextSlot, Slots

(* What an acquire load leaves of a modification order. *)
LEMMA AcquireLoadShape ==
  ASSUME NEW mo \in Seq(Entry), NEW k \in DOMAIN mo
  PROVE  /\ AcquireLoad(mo, k) \in Seq(Entry)
         /\ Len(AcquireLoad(mo, k)) = Len(mo) - k + 1
         /\ AcquireLoad(mo, k)[1] = [val |-> mo[k].val, touched |-> {}]
         /\ \A i \in 2..(Len(mo) - k + 1) :
              AcquireLoad(mo, k)[i] = mo[k + i - 1]
  <1> DEFINE first == <<[val |-> mo[k].val, touched |-> {}]>>
             rest  == SubSeq(mo, k + 1, Len(mo))
  <1>1. k \in 1..Len(mo) /\ mo[k] \in Entry
    OBVIOUS
  <1>2. first \in Seq(Entry) /\ Len(first) = 1
    BY <1>1 DEF Entry
  <1>3. /\ rest \in Seq(Entry) /\ Len(rest) = Len(mo) - k
        /\ \A i \in 1..(Len(mo) - k) : rest[i] = mo[k + i]
    BY <1>1
  <1>4. /\ first \o rest \in Seq(Entry)
        /\ Len(first \o rest) = Len(mo) - k + 1
        /\ (first \o rest)[1] = first[1]
        /\ \A i \in 2..(Len(mo) - k + 1) : (first \o rest)[i] = rest[i - 1]
    BY <1>1, <1>2, <1>3
  <1> QED
    BY <1>1, <1>3, <1>4, SMTT(30) DEF AcquireLoad

(* A load forgets the past of an index: its latest value stays, and the     *)
(* order it leaves is still a chain.                                       *)
LEMMA AcquireLoadKeeps ==
  ASSUME NEW mo \in Seq(Entry), NEW k \in DOMAIN mo, Chained(mo)
  PROVE  /\ Latest(AcquireLoad(mo, k)) = Latest(mo)
         /\ Chained(AcquireLoad(mo, k))
  <1> DEFINE new == AcquireLoad(mo, k)
  <1>1. k \in 1..Len(mo) /\ Len(mo) \in Nat
    OBVIOUS
  <1>2. /\ new \in Seq(Entry) /\ Len(new) = Len(mo) - k + 1
        /\ new[1] = [val |-> mo[k].val, touched |-> {}]
        /\ \A i \in 2..(Len(mo) - k + 1) : new[i] = mo[k + i - 1]
    BY AcquireLoadShape
  <1> HIDE DEF new
  <1>3. Latest(new) = Latest(mo)
    BY <1>1, <1>2 DEF Latest
  <1>4. ASSUME NEW i \in DOMAIN new
        PROVE  /\ Distance(new[i].val, Latest(new)) = Len(new) - i
               /\ new[i].touched # {} => i > 1
               /\ \A s \in new[i].touched :
                    Distance(s, Latest(new)) = Len(new) - i + 1
    <2>1. CASE i = 1
      BY <1>1, <1>2, <1>3, <2>1 DEF Chained
    <2>2. CASE i # 1
      <3>1. i \in 2..(Len(mo) - k + 1) /\ k + i - 1 \in DOMAIN mo
        BY <1>1, <1>2, <2>2
      <3> QED
        BY <1>1, <1>2, <1>3, <3>1, SMTT(30) DEF Chained
    <2> QED BY <2>1, <2>2
  <1> QED
    BY <1>3, <1>4 DEF new, Chained

(* A release store of the next slot, that publishes the access to the       *)
(* current one, appends one entry.                                         *)
LEMMA ReleaseStoreShape ==
  ASSUME NEW mo \in Seq(Entry), NEW w \in Slots, NEW t \in SUBSET Slots
  PROVE  /\ ReleaseStore(mo, w, t) \in Seq(Entry)
         /\ Len(ReleaseStore(mo, w, t)) = Len(mo) + 1
         /\ \A i \in 1..Len(mo) : ReleaseStore(mo, w, t)[i] = mo[i]
         /\ ReleaseStore(mo, w, t)[Len(mo) + 1].val = w
         /\ ReleaseStore(mo, w, t)[Len(mo) + 1].touched = t
  <1> DEFINE e == [val |-> w, touched |-> t]
  <1>1. e \in Entry /\ e.val = w /\ e.touched = t
    BY DEF Entry
  <1> HIDE DEF e
  <1>2. /\ Append(mo, e) \in Seq(Entry)
        /\ Len(Append(mo, e)) = Len(mo) + 1
        /\ \A i \in 1..Len(mo) : Append(mo, e)[i] = mo[i]
        /\ Append(mo, e)[Len(mo) + 1] = e
    BY <1>1
  <1>3. ReleaseStore(mo, w, t) = Append(mo, e)
    BY DEF ReleaseStore, e
  <1> QED BY <1>1, <1>2, <1>3

(* The next slot is one further from every slot but itself. *)
LEMMA DistanceNext ==
  ASSUME NEW s \in Slots, NEW v \in Slots, Distance(s, v) <= Capacity - 2
  PROVE  Distance(s, NextSlot(v)) = Distance(s, v) + 1
  BY CapacityNat, NextSlotWraps DEF Distance, Slots

(* A ring that is not full as seen from r, a slot at or behind t, leaves    *)
(* one slot between h and r.                                               *)
LEMMA NotFullLeavesRoom ==
  ASSUME NEW r \in Slots, NEW t \in Slots, NEW h \in Slots,
         NextSlot(h) # r, Distance(r, t) + Distance(t, h) < Capacity
  PROVE  Distance(r, t) + Distance(t, h) < Capacity - 1
  BY CapacityNat, NextSlotWraps DEF Distance, Slots

(* Two slots equally far from h are the same slot, and stepping towards h   *)
(* brings a slot one closer.                                               *)
LEMMA DistanceBack ==
  ASSUME NEW r \in Slots, NEW t \in Slots, NEW h \in Slots
  PROVE  /\ Distance(r, h) = Distance(t, h) => r = t
         /\ t # h => /\ Distance(t, h) > 0
                     /\ Distance(NextSlot(t), h) = Distance(t, h) - 1
         /\ t = h => Distance(t, h) = 0
  BY CapacityNat, NextSlotWraps DEF Distance, Slots

(* The oldest entry is one lap behind at most, so the store of the next     *)
(* slot extends the chain.                                                 *)
LEMMA ReleaseStoreExtends ==
  ASSUME NEW mo \in Seq(Entry), Len(mo) > 0, Chained(mo), Len(mo) < Capacity
  PROVE  LET new == ReleaseStore(mo, NextSlot(Latest(mo)), {Latest(mo)})
         IN  /\ new \in Seq(Entry) /\ Len(new) = Len(mo) + 1
             /\ Latest(new) = NextSlot(Latest(mo))
             /\ Chained(new)
  <1> DEFINE v   == Latest(mo)
             w   == NextSlot(v)
             t   == {v}
             new == ReleaseStore(mo, w, t)
  <1>1. Len(mo) \in Nat \ {0} /\ v \in Slots
    <2>1. Len(mo) \in 1..Len(mo) /\ Len(mo) \in Nat
      OBVIOUS
    <2>2. mo[Len(mo)] \in Entry
      BY <2>1
    <2> QED BY <2>1, <2>2 DEF Latest, Entry, v
  <1>2. w \in Slots /\ w = IF v = Capacity - 1 THEN 0 ELSE v + 1
    BY <1>1, NextSlotWraps
  <1>2a. t \in SUBSET Slots
    BY <1>1
  <1> HIDE DEF v, w, t
  <1>3. /\ new \in Seq(Entry) /\ Len(new) = Len(mo) + 1
        /\ \A i \in 1..Len(mo) : new[i] = mo[i]
        /\ new[Len(mo) + 1].val = w
        /\ new[Len(mo) + 1].touched = t
    BY <1>1, <1>2, <1>2a, ReleaseStoreShape
  <1> HIDE DEF new
  <1>4. Latest(new) = w
    BY <1>1, <1>3 DEF Latest
  <1>5. ASSUME NEW i \in 1..Len(mo)
        PROVE  /\ mo[i].val \in Slots /\ mo[i].touched \subseteq Slots
               /\ Distance(mo[i].val, v) = Len(mo) - i
               /\ mo[i].touched # {} => i > 1
               /\ \A s \in mo[i].touched : Distance(s, v) = Len(mo) - i + 1
    <2>1. i \in DOMAIN mo /\ mo[i] \in Entry
      OBVIOUS
    <2> QED BY <2>1 DEF Chained, Entry, v
  <1>6. ASSUME NEW s \in Slots, Distance(s, v) <= Capacity - 2
        PROVE  Distance(s, w) = Distance(s, v) + 1
    BY <1>1, <1>6, DistanceNext DEF w
  <1>7. Distance(w, w) = 0 /\ Distance(v, w) = 1
    BY <1>1, <1>2, CapacityNat DEF Distance, Slots
  <1>8. ASSUME NEW i \in DOMAIN new
        PROVE  /\ Distance(new[i].val, w) = Len(new) - i
               /\ new[i].touched # {} => i > 1
               /\ \A s \in new[i].touched :
                    Distance(s, w) = Len(new) - i + 1
    <2>0. i \in 1..(Len(mo) + 1) /\ i \in Nat
      BY <1>1, <1>3
    <2>1. CASE i \in 1..Len(mo)
      <3>1. new[i] = mo[i]
        BY <1>3, <2>1
      <3>2. Distance(mo[i].val, w) = Len(mo) - i + 1
        BY <1>1, <1>5, <1>6, <2>1, CapacityNat
      <3>3. mo[i].touched # {} => i > 1
        BY <1>5, <2>1
      <3>5. ASSUME NEW s \in mo[i].touched
            PROVE  Distance(s, w) = Len(mo) - i + 2
        <4>1. s \in Slots /\ Distance(s, v) = Len(mo) - i + 1 /\ i > 1
          BY <1>5, <2>1, <3>3
        <4>2. Distance(s, v) <= Capacity - 2
          BY <1>1, <2>0, <4>1, CapacityNat
        <4> QED BY <1>1, <1>6, <2>0, <4>1, <4>2
      <3>4. Len(new) - i = Len(mo) - i + 1 /\ Len(new) - i + 1 = Len(mo) - i + 2
        BY <1>1, <1>3, <2>0
      <3> QED BY <3>1, <3>2, <3>3, <3>5, <3>4
    <2>2. CASE i = Len(mo) + 1
      <3>1. new[i].val = w /\ new[i].touched = {v}
        BY <1>3, <2>2 DEF t
      <3>2. Len(new) - i = 0 /\ Len(new) - i + 1 = 1 /\ i > 1
        BY <1>1, <1>3, <2>2
      <3> QED BY <1>7, <3>1, <3>2
    <2> QED BY <1>1, <2>0, <2>1, <2>2
  <1>9. Chained(new)
    BY <1>4, <1>8 DEF Chained
  <1> QED
    BY <1>3, <1>4, <1>9 DEF new, v, w, t

-----------------------------------------------------------------------------
(* The slots of the indices in force, and how far apart they are. *)
LEMMA LatestSlots ==
  ASSUME TypeOK
  PROVE  /\ Len(headMO) \in Nat \ {0} /\ Latest(headMO) \in Slots
         /\ Len(tailMO) \in Nat \ {0} /\ Latest(tailMO) \in Slots
         /\ Filled \in 0..(Capacity - 1)
  <1>1. headMO \in Seq(Entry) /\ Len(headMO) > 0
    BY DEF TypeOK
  <1>2. tailMO \in Seq(Entry) /\ Len(tailMO) > 0
    BY DEF TypeOK
  <1>3. Len(headMO) \in Nat \ {0} /\ headMO[Len(headMO)] \in Entry
    BY <1>1
  <1>4. Len(tailMO) \in Nat \ {0} /\ tailMO[Len(tailMO)] \in Entry
    BY <1>2
  <1>5. Latest(headMO) \in Slots /\ Latest(tailMO) \in Slots
    BY <1>3, <1>4 DEF Latest, Entry
  <1> QED
    BY <1>3, <1>4, <1>5, CapacityNat DEF Filled, Distance, Slots

(* The constructed queue satisfies the inductive invariant. *)
LEMMA InitInv == Init => Inv
  <1> SUFFICES ASSUME Init PROVE Inv
    OBVIOUS
  <1> USE CapacityNat
  <1> DEFINE e == [val |-> 0, touched |-> {}]
  <1>1. e \in Entry /\ 0 \in Slots
    BY DEF Entry, Slots
  <1>2. /\ <<e>> \in Seq(Entry) /\ Len(<<e>>) = 1 /\ <<e>>[1] = e
        /\ DOMAIN <<e>> = {1}
    BY <1>1
  <1>3. headMO = <<e>> /\ tailMO = <<e>>
    BY DEF Init
  <1>4. e.val = 0 /\ e.touched = {}
    OBVIOUS
  <1> HIDE DEF e
  <1>5. Latest(<<e>>) = 0
    BY <1>2, <1>4 DEF Latest
  <1>6. Chained(<<e>>)
    BY <1>2, <1>4, <1>5 DEF Chained, Distance
  <1>7. TypeOK
    BY <1>1, <1>2, <1>3 DEF Init, TypeOK, Producer, Consumer
  <1>8. WithinOneLap
    BY <1>2, <1>3, <1>5 DEF WithinOneLap, Filled, Distance
  <1>9. PushHasRoom /\ PopHasItem
    BY DEF Init, PushHasRoom, PopHasItem
  <1> QED BY <1>3, <1>6, <1>7, <1>8, <1>9 DEF Inv, ViewsAgree

(* One step per action: the loads shorten a modification order, the stores  *)
(* extend one, and the ring distances move accordingly.                    *)
LEMMA NextInv == Inv /\ [Next]_vars => Inv'
  <1> SUFFICES ASSUME Inv, [Next]_vars PROVE Inv'
    OBVIOUS
  <1> USE CapacityNat
  <1>0. TypeOK /\ WithinOneLap /\ PushHasRoom /\ PopHasItem
    BY DEF Inv, ViewsAgree
  <1>t. /\ buffer \in [Slots -> Items \cup {NoItem}]
        /\ headMO \in Seq(Entry) /\ tailMO \in Seq(Entry)
        /\ Len(headMO) > 0 /\ Len(tailMO) > 0
        /\ prod \in Producer /\ cons \in Consumer
        /\ Chained(headMO) /\ Chained(tailMO)
    BY DEF Inv, TypeOK, ViewsAgree
  <1>s. /\ Len(headMO) \in Nat \ {0} /\ Latest(headMO) \in Slots
        /\ Len(tailMO) \in Nat \ {0} /\ Latest(tailMO) \in Slots
        /\ Filled \in 0..(Capacity - 1)
    BY <1>0, LatestSlots
  <1>h. ASSUME NEW k \in DOMAIN headMO, headMO' = AcquireLoad(headMO, k)
        PROVE  /\ headMO' \in Seq(Entry) /\ Len(headMO') = Len(headMO) - k + 1
               /\ Latest(headMO') = Latest(headMO) /\ Chained(headMO')
               /\ k \in 1..Len(headMO)
               /\ Distance(headMO[k].val, Latest(headMO)) = Len(headMO) - k
               /\ headMO[k].val \in Slots
    <2>1. k \in 1..Len(headMO) /\ headMO[k] \in Entry
      BY <1>t
    <2>2. headMO' \in Seq(Entry) /\ Len(headMO') = Len(headMO) - k + 1
      BY <1>t, <1>h, AcquireLoadShape
    <2>3. Latest(headMO') = Latest(headMO) /\ Chained(headMO')
      BY <1>t, <1>h, AcquireLoadKeeps
    <2>4. Distance(headMO[k].val, Latest(headMO)) = Len(headMO) - k
      BY <1>t DEF Chained
    <2>5. headMO[k].val \in Slots
      BY <2>1 DEF Entry
    <2> QED BY <2>1, <2>2, <2>3, <2>4, <2>5
  <1>l. ASSUME NEW k \in DOMAIN tailMO, tailMO' = AcquireLoad(tailMO, k)
        PROVE  /\ tailMO' \in Seq(Entry) /\ Len(tailMO') = Len(tailMO) - k + 1
               /\ Latest(tailMO') = Latest(tailMO) /\ Chained(tailMO')
               /\ k \in 1..Len(tailMO)
               /\ Distance(tailMO[k].val, Latest(tailMO)) = Len(tailMO) - k
               /\ tailMO[k].val \in Slots
    <2>1. k \in 1..Len(tailMO) /\ tailMO[k] \in Entry
      BY <1>t
    <2>2. tailMO' \in Seq(Entry) /\ Len(tailMO') = Len(tailMO) - k + 1
      BY <1>t, <1>l, AcquireLoadShape
    <2>3. Latest(tailMO') = Latest(tailMO) /\ Chained(tailMO')
      BY <1>t, <1>l, AcquireLoadKeeps
    <2>4. Distance(tailMO[k].val, Latest(tailMO)) = Len(tailMO) - k
      BY <1>t DEF Chained
    <2>5. tailMO[k].val \in Slots
      BY <2>1 DEF Entry
    <2> QED BY <2>1, <2>2, <2>3, <2>4, <2>5
  <1>1. ASSUME NEW k \in DOMAIN tailMO, PushFull(k)
        PROVE  Inv'
    <2>1. /\ tailMO' = AcquireLoad(tailMO, k)
          /\ UNCHANGED <<buffer, headMO, prod, cons>>
      BY <1>1 DEF PushFull
    <2>2. /\ Filled' = Filled /\ Latest(tailMO)' = Latest(tailMO)
          /\ Len(tailMO') \in Nat \ {0} /\ Len(tailMO') <= Len(tailMO)
      BY <1>s, <1>l, <2>1 DEF Filled
    <2>3. TypeOK'
      BY <1>t, <1>l, <2>1, <2>2 DEF TypeOK
    <2>4. WithinOneLap'
      BY <1>0, <1>s, <2>1, <2>2 DEF WithinOneLap
    <2>5. PushHasRoom' /\ PopHasItem'
      BY <1>0, <1>s, <2>1, <2>2 DEF PushHasRoom, PopHasItem
    <2> QED BY <1>t, <1>l, <2>1, <2>3, <2>4, <2>5 DEF Inv, ViewsAgree
  <1>2. ASSUME NEW k \in DOMAIN tailMO, NEW item \in Items, PushBegin(item, k)
        PROVE  Inv'
    <2>1. /\ prod.pc = "idle" /\ NextSlot(Latest(headMO)) # tailMO[k].val
          /\ tailMO' = AcquireLoad(tailMO, k)
          /\ prod' = [prod EXCEPT !.pc = "write", !.item = item]
          /\ UNCHANGED <<buffer, headMO, cons>>
      BY <1>2 DEF PushBegin
    <2>2. /\ Filled' = Filled /\ Latest(tailMO)' = Latest(tailMO)
          /\ Len(tailMO') \in Nat \ {0} /\ Len(tailMO') <= Len(tailMO)
      BY <1>s, <1>l, <2>1 DEF Filled
    <2>3. /\ prod' \in Producer /\ prod'.pc = "write" /\ prod'.item = item
          /\ prod'.touched = prod.touched
      BY <1>t, <2>1 DEF Producer
    <2>4. TypeOK'
      BY <1>t, <1>l, <2>1, <2>2, <2>3 DEF TypeOK
    <2>5. WithinOneLap'
      BY <1>0, <1>s, <2>1, <2>2 DEF WithinOneLap
    <2>6. Len(tailMO') + Filled' < Capacity
      <3> DEFINE h == Latest(headMO)
                 t == Latest(tailMO)
                 r == tailMO[k].val
      <3>1. /\ r \in Slots /\ Distance(r, t) = Len(tailMO) - k
            /\ k \in 1..Len(tailMO) /\ Len(tailMO') = Len(tailMO) - k + 1
        BY <1>l, <2>1
      <3>2. Len(tailMO) + Distance(t, h) <= Capacity /\ Filled' = Distance(t, h)
        BY <1>0, <2>2 DEF WithinOneLap, Filled
      <3>3. h \in Slots /\ t \in Slots /\ Len(tailMO) \in Nat /\ NextSlot(h) # r
            /\ Distance(t, h) \in Nat
        BY <1>s, <2>1 DEF Filled
      <3> HIDE DEF h, t, r
      <3>4. Distance(r, t) + Distance(t, h) < Capacity - 1
        BY <3>1, <3>2, <3>3, NotFullLeavesRoom
      <3> QED BY <3>1, <3>2, <3>3, <3>4
    <2>7. PushHasRoom'
      BY <1>0, <2>1, <2>3, <2>6 DEF PushHasRoom
    <2>8. PopHasItem'
      BY <1>0, <2>1, <2>2 DEF PopHasItem
    <2> QED BY <1>t, <1>l, <2>1, <2>4, <2>5, <2>7, <2>8 DEF Inv, ViewsAgree
  <1>3. ASSUME PushWrite PROVE Inv'
    <2>1. /\ prod.pc = "write"
          /\ buffer' = [buffer EXCEPT ![Latest(headMO)] = prod.item]
          /\ prod' = [prod EXCEPT !.pc = "publish",
                                  !.touched = @ \cup {Latest(headMO)}]
          /\ UNCHANGED <<headMO, tailMO, cons>>
      BY <1>3 DEF PushWrite
    <2>2. prod.item \in Items /\ prod.touched = {}
      BY <1>0, <2>1 DEF PushHasRoom
    <2>3. /\ prod' \in Producer /\ prod'.pc = "publish"
          /\ prod'.item = prod.item /\ prod'.touched = {Latest(headMO)}
      BY <1>t, <1>s, <2>1, <2>2 DEF Producer
    <2>4. /\ buffer' \in [Slots -> Items \cup {NoItem}]
          /\ buffer'[Latest(headMO)] = prod.item
          /\ \A s \in Slots : s # Latest(headMO) => buffer'[s] = buffer[s]
      BY <1>t, <1>s, <2>1, <2>2
    <2>5. Filled' = Filled
      BY <2>1 DEF Filled
    <2>6. TypeOK'
      BY <1>t, <2>1, <2>3, <2>4 DEF TypeOK
    <2>7. WithinOneLap'
      BY <1>0, <2>1, <2>5 DEF WithinOneLap
    <2>8. PushHasRoom'
      BY <1>0, <2>1, <2>2, <2>3, <2>4, <2>5 DEF PushHasRoom
    <2>9. PopHasItem'
      <3>1. cons.pc = "release" => Latest(tailMO) # Latest(headMO)
        <4>1. cons.pc = "release" => Filled > 0
          BY <1>0, <1>s DEF PopHasItem
        <4> QED BY <1>s, <4>1, DistanceBack DEF Filled
      <3> QED BY <1>0, <1>s, <2>1, <2>4, <2>5, <3>1 DEF PopHasItem
    <2> QED BY <1>t, <2>1, <2>6, <2>7, <2>8, <2>9 DEF Inv, ViewsAgree
  <1>4. ASSUME PushPublish PROVE Inv'
    <2>1. /\ prod.pc = "publish"
          /\ headMO' = ReleaseStore(headMO, NextSlot(Latest(headMO)), prod.touched)
          /\ prod' = [prod EXCEPT !.pc = "idle", !.touched = {}]
          /\ UNCHANGED <<buffer, tailMO, cons>>
      BY <1>4 DEF PushPublish
    <2>2. prod.touched = {Latest(headMO)} /\ Len(tailMO) + Filled < Capacity
      BY <1>0, <2>1 DEF PushHasRoom
    <2>3. Len(headMO) < Capacity /\ Filled <= Capacity - 2
      BY <1>0, <1>s, <2>2 DEF WithinOneLap
    <2>4. /\ headMO' \in Seq(Entry) /\ Len(headMO') = Len(headMO) + 1
          /\ Latest(headMO') = NextSlot(Latest(headMO))
          /\ Chained(headMO')
      <3>1. headMO' = ReleaseStore(headMO, NextSlot(Latest(headMO)), {Latest(headMO)})
        BY <2>1, <2>2
      <3> QED BY <1>t, <2>3, <3>1, ReleaseStoreExtends, Zenon
    <2>5. Filled' = Filled + 1
      BY <1>s, <2>1, <2>3, <2>4, DistanceNext DEF Filled
    <2>6. prod' \in Producer /\ prod'.pc = "idle" /\ prod'.touched = {}
      BY <1>t, <2>1 DEF Producer
    <2>7. TypeOK'
      BY <1>t, <1>s, <2>1, <2>4, <2>6 DEF TypeOK
    <2>8. WithinOneLap'
      BY <1>0, <1>s, <2>1, <2>2, <2>4, <2>5 DEF WithinOneLap
    <2>9. PushHasRoom'
      BY <2>6 DEF PushHasRoom
    <2>10. PopHasItem'
      BY <1>0, <1>s, <2>1, <2>4, <2>5 DEF PopHasItem
    <2> QED BY <1>t, <2>1, <2>4, <2>7, <2>8, <2>9, <2>10 DEF Inv, ViewsAgree
  <1>5. ASSUME NEW k \in DOMAIN headMO, PopEmpty(k) \/ CheckEmpty(k)
        PROVE  Inv'
    <2>1. /\ headMO' = AcquireLoad(headMO, k)
          /\ UNCHANGED <<buffer, tailMO, prod, cons>>
      BY <1>5 DEF PopEmpty, CheckEmpty
    <2>2. /\ Filled' = Filled /\ Latest(headMO)' = Latest(headMO)
          /\ Len(headMO') \in Nat \ {0} /\ Len(headMO') <= Len(headMO)
      BY <1>s, <1>h, <2>1 DEF Filled
    <2>3. TypeOK'
      BY <1>t, <1>h, <2>1, <2>2 DEF TypeOK
    <2>4. WithinOneLap'
      BY <1>0, <1>s, <2>1, <2>2 DEF WithinOneLap
    <2>5. PushHasRoom' /\ PopHasItem'
      BY <1>0, <1>s, <2>1, <2>2 DEF PushHasRoom, PopHasItem
    <2> QED BY <1>t, <1>h, <2>1, <2>3, <2>4, <2>5 DEF Inv, ViewsAgree
  <1>6. ASSUME NEW k \in DOMAIN headMO, PopBegin(k) PROVE Inv'
    <2>1. /\ cons.pc = "idle" /\ Latest(tailMO) # headMO[k].val
          /\ headMO' = AcquireLoad(headMO, k)
          /\ cons' = [cons EXCEPT !.pc = "read"]
          /\ UNCHANGED <<buffer, tailMO, prod>>
      BY <1>6 DEF PopBegin
    <2>2. /\ Filled' = Filled /\ Latest(headMO)' = Latest(headMO)
          /\ Len(headMO') \in Nat \ {0} /\ Len(headMO') <= Len(headMO)
      BY <1>s, <1>h, <2>1 DEF Filled
    <2>3. cons' \in Consumer /\ cons'.pc = "read" /\ cons'.touched = cons.touched
      BY <1>t, <2>1 DEF Consumer
    <2>4. TypeOK'
      BY <1>t, <1>h, <2>1, <2>2, <2>3 DEF TypeOK
    <2>5. WithinOneLap'
      BY <1>0, <1>s, <2>1, <2>2 DEF WithinOneLap
    <2>6. Len(headMO') <= Filled'
      <3>1. Distance(headMO[k].val, Latest(headMO)) # Filled
        BY <1>s, <1>h, <2>1, DistanceBack DEF Filled
      <3>2. /\ k \in 1..Len(headMO) /\ Len(headMO') = Len(headMO) - k + 1
            /\ Distance(headMO[k].val, Latest(headMO)) = Len(headMO) - k
        BY <1>h, <2>1
      <3> QED BY <1>0, <1>s, <2>2, <3>1, <3>2 DEF WithinOneLap
    <2>7. PopHasItem'
      BY <1>0, <2>1, <2>3, <2>6 DEF PopHasItem
    <2>8. PushHasRoom'
      BY <1>0, <2>1, <2>2 DEF PushHasRoom
    <2> QED BY <1>t, <1>h, <2>1, <2>4, <2>5, <2>7, <2>8 DEF Inv, ViewsAgree
  <1>7. ASSUME PopRead PROVE Inv'
    <2>1. /\ cons.pc = "read"
          /\ cons' = [cons EXCEPT !.pc = "release", !.out = buffer[Latest(tailMO)],
                                  !.touched = @ \cup {Latest(tailMO)}]
          /\ UNCHANGED <<buffer, headMO, tailMO, prod>>
      BY <1>7 DEF PopRead
    <2>2. cons.touched = {} /\ buffer[Latest(tailMO)] \in Items \cup {NoItem}
      BY <1>0, <1>t, <1>s, <2>1 DEF PopHasItem
    <2>3. /\ cons' \in Consumer /\ cons'.pc = "release"
          /\ cons'.out = buffer[Latest(tailMO)] /\ cons'.touched = {Latest(tailMO)}
      BY <1>t, <1>s, <2>1, <2>2 DEF Consumer
    <2>4. Filled' = Filled
      BY <2>1 DEF Filled
    <2>5. TypeOK'
      BY <1>t, <2>1, <2>3 DEF TypeOK
    <2>6. WithinOneLap' /\ PushHasRoom'
      BY <1>0, <2>1, <2>4 DEF WithinOneLap, PushHasRoom
    <2>7. PopHasItem'
      BY <1>0, <2>1, <2>3, <2>4 DEF PopHasItem
    <2> QED BY <1>t, <2>1, <2>5, <2>6, <2>7 DEF Inv, ViewsAgree
  <1>8. ASSUME PopRelease PROVE Inv'
    <2>1. /\ cons.pc = "release"
          /\ tailMO' = ReleaseStore(tailMO, NextSlot(Latest(tailMO)), cons.touched)
          /\ cons' = [cons EXCEPT !.pc = "idle", !.popped = cons.out,
                                  !.touched = {}]
          /\ UNCHANGED <<buffer, headMO, prod>>
      BY <1>8 DEF PopRelease
    <2>2. cons.touched = {Latest(tailMO)} /\ Len(headMO) <= Filled
      BY <1>0, <2>1 DEF PopHasItem
    <2>3. Len(tailMO) < Capacity /\ Filled > 0
      BY <1>0, <1>s, <2>2 DEF WithinOneLap
    <2>4. /\ tailMO' \in Seq(Entry) /\ Len(tailMO') = Len(tailMO) + 1
          /\ Latest(tailMO') = NextSlot(Latest(tailMO))
          /\ Chained(tailMO')
      <3>1. tailMO' = ReleaseStore(tailMO, NextSlot(Latest(tailMO)), {Latest(tailMO)})
        BY <2>1, <2>2
      <3> QED BY <1>t, <2>3, <3>1, ReleaseStoreExtends, Zenon
    <2>5. Filled' = Filled - 1
      BY <1>s, <2>1, <2>3, <2>4, DistanceBack DEF Filled
    <2>6. cons' \in Consumer /\ cons'.pc = "idle" /\ cons'.touched = {}
      BY <1>t, <2>1 DEF Consumer
    <2>7. TypeOK'
      BY <1>t, <1>s, <2>1, <2>4, <2>6 DEF TypeOK
    <2>8. WithinOneLap'
      BY <1>0, <1>s, <2>1, <2>2, <2>4, <2>5 DEF WithinOneLap
    <2>9. PushHasRoom'
      BY <1>0, <1>s, <2>1, <2>4, <2>5 DEF PushHasRoom
    <2>10. PopHasItem'
      BY <2>6 DEF PopHasItem
    <2> QED BY <1>t, <2>1, <2>4, <2>7, <2>8, <2>9, <2>10 DEF Inv, ViewsAgree
  <1>9. CASE UNCHANGED vars
    BY <1>9 DEF vars, Inv, TypeOK, ViewsAgree, WithinOneLap, PushHasRoom,
                PopHasItem, Filled
  <1> QED
    BY <1>1, <1>2, <1>3, <1>4, <1>5, <1>6, <1>7, <1>8, <1>9
       DEF Next, TryPush, TryPop

(* The types of spsc_queue.hpp's state hold in every reachable state. *)
THEOREM TypeCorrect == Spec => []TypeOK
  <1>1. Inv => TypeOK
    BY DEF Inv
  <1> QED BY <1>1, InitInv, NextInv, PTL DEF Spec

(* The threads' views of head_ and tail_, however stale, stay within one    *)
(* lap of each other, for every capacity.                                  *)
THEOREM ViewsConsistent == Spec => []ViewsAgree
  <1>1. Inv => ViewsAgree
    BY DEF Inv
  <1> QED BY <1>1, InitInv, NextInv, PTL DEF Spec

(* The release/acquire pairs on head_ and tail_ order every two accesses to *)
(* a slot of buffer_ by different threads.                                 *)
LEMMA InvNoDataRace == Inv => NoDataRace
  <1> SUFFICES ASSUME Inv PROVE NoDataRace
    OBVIOUS
  <1> USE CapacityNat
  <1> DEFINE h == Latest(headMO)
             t == Latest(tailMO)
  <1>1. TypeOK /\ WithinOneLap /\ PushHasRoom /\ PopHasItem
    BY DEF Inv, ViewsAgree
  <1>2. /\ Len(headMO) \in Nat \ {0} /\ h \in Slots
        /\ Len(tailMO) \in Nat \ {0} /\ t \in Slots
        /\ Filled = Distance(t, h) /\ Filled \in 0..(Capacity - 1)
    BY <1>1, LatestSlots DEF Filled
  <1>3. cons.pc # "idle" => t # h
    BY <1>1, <1>2, DistanceBack DEF PopHasItem
  <1>4. /\ cons.touched \subseteq {t} /\ (cons.touched # {} => t # h)
        /\ prod.touched \subseteq {h}
    BY <1>1, <1>3 DEF PopHasItem, PushHasRoom
  <1>5. ASSUME prod.pc = "write", NEW i \in DOMAIN tailMO
        PROVE  h \notin tailMO[i].touched
    <2>1. i \in 1..Len(tailMO) /\ Len(tailMO) + Filled < Capacity
      BY <1>1, <1>5 DEF TypeOK, PushHasRoom
    <2>2. h \in tailMO[i].touched => i > 1 /\ Distance(h, t) = Len(tailMO) - i + 1
      BY DEF Inv, ViewsAgree, Chained
    <2> HIDE DEF h, t
    <2>3. Distance(h, t) = 0 \/ Distance(h, t) = Capacity - Distance(t, h)
      BY <1>2 DEF Distance, Slots
    <2> QED BY <1>2, <2>1, <2>2, <2>3
  <1>6. ASSUME cons.pc = "read", NEW i \in DOMAIN headMO
        PROVE  t \notin headMO[i].touched
    <2>1. i \in 1..Len(headMO) /\ Len(headMO) <= Filled
      BY <1>1, <1>6 DEF TypeOK, PopHasItem
    <2>2. t \in headMO[i].touched => i > 1 /\ Distance(t, h) = Len(headMO) - i + 1
      BY DEF Inv, ViewsAgree, Chained
    <2> HIDE DEF h, t
    <2> QED BY <1>2, <2>1, <2>2
  <1>7. prod.pc = "write" => h \notin Unordered(tailMO, cons.touched)
    BY <1>4, <1>5 DEF Unordered
  <1>8. cons.pc = "read" => t \notin Unordered(headMO, prod.touched)
    BY <1>3, <1>4, <1>6 DEF Unordered
  <1> QED BY <1>3, <1>7, <1>8 DEF NoDataRace

(* The producer and the consumer of spsc_queue.hpp never touch a slot of     *)
(* buffer_ without an order between the two accesses, for every capacity.  *)
THEOREM RaceFree == Spec => []NoDataRace
  BY InitInv, NextInv, InvNoDataRace, PTL DEF Spec

-----------------------------------------------------------------------------
(* An index past the end of the ring wraps once. *)
LEMMA WrapOnce ==
  ASSUME NEW a \in 0..(2 * Capacity - 1)
  PROVE  a % Capacity = IF a < Capacity THEN a ELSE a - Capacity
  BY CapacityNat

(* The slots of the queued items, oldest first, and the slot after them. *)
LEMMA QueuedSlots ==
  ASSUME NEW t \in Slots, NEW h \in Slots
  PROVE  /\ \A i \in 1..Distance(t, h) : /\ (t + i - 1) % Capacity \in Slots
                                        /\ (t + i - 1) % Capacity # h
         /\ (t + (Distance(t, h) + 1) - 1) % Capacity = h
         /\ (t + 1 - 1) % Capacity = t
         /\ t # h => \A i \in 1..(Distance(t, h) - 1) :
              (NextSlot(t) + i - 1) % Capacity = (t + (i + 1) - 1) % Capacity
  <1> USE CapacityNat
  <1>1. t \in Nat /\ h \in Nat /\ t < Capacity /\ h < Capacity
    BY DEF Slots
  <1>2. Distance(t, h) \in 0..(Capacity - 1)
    BY <1>1 DEF Distance
  <1>3. ASSUME NEW i \in 1..Distance(t, h)
        PROVE  (t + i - 1) % Capacity \in Slots /\ (t + i - 1) % Capacity # h
    <2> DEFINE a == t + i - 1
    <2>1. a \in 0..(2 * Capacity - 1)
      BY <1>1, <1>2
    <2> HIDE DEF a
    <2>2. a % Capacity = IF a < Capacity THEN a ELSE a - Capacity
      BY <2>1, WrapOnce
    <2>3. a % Capacity \in Slots /\ a % Capacity # h
      BY <1>1, <1>2, <2>2 DEF Distance, Slots, a
    <2> QED BY <2>3 DEF a
  <1>4. (t + (Distance(t, h) + 1) - 1) % Capacity = h
    <2>1. t + (Distance(t, h) + 1) - 1 \in 0..(2 * Capacity - 1)
      BY <1>1, <1>2
    <2>2. t + (Distance(t, h) + 1) - 1 = IF h >= t THEN h ELSE h + Capacity
      BY <1>1 DEF Distance
    <2> QED BY <1>1, <2>1, <2>2, WrapOnce
  <1>5. (t + 1 - 1) % Capacity = t
    <2>1. t + 1 - 1 = t /\ t \in 0..(2 * Capacity - 1)
      BY <1>1
    <2> QED BY <1>1, <2>1, WrapOnce
  <1>6. ASSUME t # h, NEW i \in 1..(Distance(t, h) - 1)
        PROVE  (NextSlot(t) + i - 1) % Capacity = (t + (i + 1) - 1) % Capacity
    <2>1. /\ t + (i + 1) - 1 \in 0..(2 * Capacity - 1)
          /\ t + (i + 1) - 1 = t + i
      BY <1>1, <1>2
    <2>2. NextSlot(t) = IF t = Capacity - 1 THEN 0 ELSE t + 1
      BY NextSlotWraps
    <2>3. CASE t = Capacity - 1
      <3>1. NextSlot(t) + i - 1 = i - 1 /\ i - 1 \in 0..(2 * Capacity - 1)
        BY <1>1, <1>2, <2>2, <2>3
      <3>2. (i - 1) % Capacity = i - 1
        BY <1>1, <1>2, <3>1, WrapOnce
      <3>3. (t + i) % Capacity = i - 1
        <4> DEFINE a == t + i
        <4>1. a \in 0..(2 * Capacity - 1) /\ a >= Capacity /\ a - Capacity = i - 1
          BY <1>1, <1>2, <2>3
        <4> HIDE DEF a
        <4>2. a % Capacity = i - 1
          BY <4>1, WrapOnce
        <4> QED BY <4>2 DEF a
      <3> QED BY <2>1, <3>1, <3>2, <3>3
    <2>4. CASE t # Capacity - 1
      <3>1. NextSlot(t) + i - 1 = t + i
        BY <1>1, <2>2, <2>4
      <3> QED BY <2>1, <3>1
    <2> QED BY <2>3, <2>4
  <1> QED BY <1>3, <1>4, <1>5, <1>6

(* Contents is a sequence of Filled items; the steps that leave the two     *)
(* indices and the queued slots alone leave it alone.                      *)
ContentsIsQueue ==
  /\ Contents \in Seq(Items \cup {NoItem}) /\ Len(Contents) = Filled
  /\ \A i \in 1..Filled :
       Contents[i] = buffer[(Latest(tailMO) + i - 1) % Capacity]

(* The contents of the ring are the slots from tail_ to head_. *)
LEMMA ContentsShape == Inv => ContentsIsQueue
  <1> SUFFICES ASSUME Inv PROVE ContentsIsQueue
    OBVIOUS
  <1>1. /\ Filled \in Nat /\ Filled = Distance(Latest(tailMO), Latest(headMO))
        /\ Latest(tailMO) \in Slots /\ Latest(headMO) \in Slots
    BY LatestSlots, CapacityNat DEF Inv, Filled
  <1>2. buffer \in [Slots -> Items \cup {NoItem}]
    BY DEF Inv, TypeOK
  <1>3. \A i \in 1..Filled : buffer[(Latest(tailMO) + i - 1) % Capacity]
                               \in Items \cup {NoItem}
    BY <1>1, <1>2, QueuedSlots
  <1> QED BY <1>1, <1>3 DEF Contents, ContentsIsQueue

(* The constructed ring of spsc_queue.hpp is an empty queue. *)
LEMMA InitRefines == Init => Fifo!Init
  <1> SUFFICES ASSUME Init PROVE Fifo!Init
    OBVIOUS
  <1>1. Inv
    BY InitInv
  <1>2. Filled = 0
    BY CapacityNat DEF Init, Filled, Distance, Latest
  <1>3. Len(Contents) = 0 /\ Contents \in Seq(Items \cup {NoItem})
    BY <1>1, <1>2, ContentsShape DEF ContentsIsQueue
  <1> QED BY <1>3 DEF Init, Fifo!Init

(* Two sequences of the same length with the same elements are equal. *)
LEMMA SameElements ==
  ASSUME NEW S, NEW p \in Seq(S), NEW q \in Seq(S), Len(p) = Len(q),
         \A i \in 1..Len(p) : p[i] = q[i]
  PROVE  p = q
  OBVIOUS

(* What a step of the ring does to the queue and to the two threads' views  *)
(* of it: try_push loads tail_, a consumer's call loads head_, the store of *)
(* head_ publishes an item, the store of tail_ releases one, and an access *)
(* to a slot shows nowhere.                                                *)
TailLoaded ==
  /\ UNCHANGED <<Contents, cons.popped, Filled, headMO>>
  /\ Len(tailMO') \in 1..Len(tailMO)
HeadLoaded ==
  /\ UNCHANGED <<Contents, cons.popped, Filled, tailMO>>
  /\ Len(headMO') \in 1..Len(headMO)
Published ==
  /\ prod.item \in Items /\ Len(tailMO) + Filled < Capacity
  /\ Contents' = Append(Contents, prod.item)
  /\ Filled' = Filled + 1 /\ Len(headMO') = Len(headMO) + 1
  /\ UNCHANGED <<cons.popped, tailMO>>
Released ==
  /\ Len(headMO) <= Filled
  /\ Contents # << >> /\ cons.popped' = Head(Contents)
  /\ Contents' = Tail(Contents)
  /\ Filled' = Filled - 1 /\ Len(tailMO') = Len(tailMO) + 1
  /\ UNCHANGED headMO
SlotTouched == UNCHANGED <<Contents, cons.popped, Filled, headMO, tailMO>>

(* Publishing head_ appends the item, releasing tail_ takes the oldest one; *)
(* the loads move a view only, and the write and the read of a slot show   *)
(* nowhere.                                                                *)
LEMMA NextContents ==
  Inv /\ Inv' /\ [Next]_vars =>
    TailLoaded \/ HeadLoaded \/ Published \/ Released \/ SlotTouched
  <1> SUFFICES ASSUME Inv, Inv', [Next]_vars
               PROVE  TailLoaded \/ HeadLoaded \/ Published \/ Released
                      \/ SlotTouched
    OBVIOUS
  <1> USE CapacityNat
  <1> DEFINE T == Items \cup {NoItem}
  <1>0. TypeOK /\ WithinOneLap /\ PushHasRoom /\ PopHasItem
    BY DEF Inv, ViewsAgree
  <1>c. ContentsIsQueue
    BY ContentsShape
  <1>d. ContentsIsQueue'
    BY ContentsShape, PTL
  <1>s. /\ Len(headMO) \in Nat \ {0} /\ Latest(headMO) \in Slots
        /\ Len(tailMO) \in Nat \ {0} /\ Latest(tailMO) \in Slots
        /\ Filled \in 0..(Capacity - 1)
    BY <1>0, LatestSlots
  <1>f. Filled = Distance(Latest(tailMO), Latest(headMO))
    BY DEF Filled
  <1>1. ASSUME UNCHANGED <<buffer, cons.popped>>,
               Latest(headMO)' = Latest(headMO), Latest(tailMO)' = Latest(tailMO)
        PROVE  UNCHANGED <<Contents, cons.popped, Filled>>
    BY <1>1 DEF Contents, Filled
  <1>2. ASSUME NEW k \in DOMAIN tailMO,
               PushFull(k) \/ \E item \in Items : PushBegin(item, k)
        PROVE  TailLoaded
    <2>1. /\ tailMO' = AcquireLoad(tailMO, k)
          /\ UNCHANGED <<buffer, headMO, cons>>
      BY <1>2 DEF PushFull, PushBegin
    <2>2. Latest(tailMO)' = Latest(tailMO)
      BY <2>1, AcquireLoadKeeps DEF Inv, TypeOK, ViewsAgree
    <2>3. Len(tailMO') \in 1..Len(tailMO)
      <3>1. Len(tailMO') = Len(tailMO) - k + 1
        BY <1>0, <2>1, AcquireLoadShape DEF TypeOK
      <3>2. k \in 1..Len(tailMO)
        BY <1>0 DEF TypeOK
      <3> QED BY <1>s, <3>1, <3>2
    <2> QED BY <1>1, <2>1, <2>2, <2>3 DEF TailLoaded
  <1>3. ASSUME NEW k \in DOMAIN headMO,
               PopEmpty(k) \/ PopBegin(k) \/ CheckEmpty(k)
        PROVE  HeadLoaded
    <2>1. /\ headMO' = AcquireLoad(headMO, k)
          /\ UNCHANGED <<buffer, tailMO>>
      BY <1>3 DEF PopEmpty, PopBegin, CheckEmpty
    <2>2. cons'.popped = cons.popped
      BY <1>0, <1>3 DEF PopEmpty, PopBegin, CheckEmpty, TypeOK, Consumer
    <2>3. Latest(headMO)' = Latest(headMO)
      BY <2>1, AcquireLoadKeeps DEF Inv, TypeOK, ViewsAgree
    <2>4. Len(headMO') \in 1..Len(headMO)
      <3>1. Len(headMO') = Len(headMO) - k + 1
        BY <1>0, <2>1, AcquireLoadShape DEF TypeOK
      <3>2. k \in 1..Len(headMO)
        BY <1>0 DEF TypeOK
      <3> QED BY <1>s, <3>1, <3>2
    <2> QED BY <1>1, <2>1, <2>2, <2>3, <2>4 DEF HeadLoaded
  <1>4. ASSUME PushWrite PROVE SlotTouched
    <2>1. /\ buffer' = [buffer EXCEPT ![Latest(headMO)] = prod.item]
          /\ UNCHANGED <<headMO, tailMO, cons>>
      BY <1>4 DEF PushWrite
    <2>2. Filled' = Filled /\ Latest(tailMO)' = Latest(tailMO)
      BY <2>1 DEF Filled
    <2>3. \A s \in Slots : s # Latest(headMO) => buffer'[s] = buffer[s]
      BY <1>0, <2>1 DEF TypeOK
    <2>4. \A i \in 1..Filled : buffer'[(Latest(tailMO) + i - 1) % Capacity]
                                 = buffer[(Latest(tailMO) + i - 1) % Capacity]
      BY <1>s, <1>f, <2>3, QueuedSlots
    <2>5. Contents' = Contents
      BY <2>2, <2>4 DEF Contents
    <2> QED BY <2>1, <2>2, <2>5 DEF SlotTouched
  <1>5. ASSUME PushPublish PROVE Published
    <2>1. /\ prod.pc = "publish"
          /\ headMO' = ReleaseStore(headMO, NextSlot(Latest(headMO)), prod.touched)
          /\ UNCHANGED <<buffer, tailMO, cons>>
      BY <1>5 DEF PushPublish
    <2>2. /\ prod.touched = {Latest(headMO)} /\ Len(tailMO) + Filled < Capacity
          /\ prod.item \in Items /\ buffer[Latest(headMO)] = prod.item
      BY <1>0, <2>1 DEF PushHasRoom
    <2>3. Len(headMO) < Capacity /\ Filled <= Capacity - 2
      BY <1>0, <1>s, <2>2 DEF WithinOneLap
    <2>4. /\ Latest(headMO') = NextSlot(Latest(headMO))
          /\ Len(headMO') = Len(headMO) + 1
      <3>1. headMO' = ReleaseStore(headMO, NextSlot(Latest(headMO)), {Latest(headMO)})
        BY <2>1, <2>2
      <3>2. headMO \in Seq(Entry) /\ Len(headMO) > 0 /\ Chained(headMO)
        BY DEF Inv, TypeOK, ViewsAgree
      <3> QED BY <2>3, <3>1, <3>2, ReleaseStoreExtends, Zenon
    <2>5. Filled' = Filled + 1
      BY <1>s, <2>1, <2>3, <2>4, DistanceNext DEF Filled
    <2>6. Contents' = Append(Contents, prod.item)
      <3> DEFINE p == Contents'
                 q == Append(Contents, prod.item)
      <3>1. /\ q \in Seq(T) /\ Len(q) = Filled + 1
            /\ \A i \in 1..Filled : q[i] = Contents[i]
            /\ q[Filled + 1] = prod.item
        BY <1>s, <1>c, <2>2 DEF ContentsIsQueue
      <3>2. p \in Seq(T) /\ Len(p) = Filled + 1
        BY <1>d, <2>5 DEF ContentsIsQueue
      <3>3. \A i \in 1..(Filled + 1) :
              p[i] = buffer[(Latest(tailMO) + i - 1) % Capacity]
        BY <1>d, <2>1, <2>5 DEF ContentsIsQueue
      <3>4. (Latest(tailMO) + (Filled + 1) - 1) % Capacity = Latest(headMO)
        BY <1>s, <1>f, QueuedSlots
      <3> HIDE DEF p, q
      <3>5. p[Filled + 1] = prod.item
        <4>1. p[Filled + 1]
                = buffer[(Latest(tailMO) + (Filled + 1) - 1) % Capacity]
          <5>1. Filled + 1 \in 1..(Filled + 1)
            BY <1>s
          <5> QED BY <3>3, <5>1, Zenon
        <4> QED BY <2>2, <3>4, <4>1
      <3>6. \A i \in 1..Filled : p[i] = q[i]
        BY <1>s, <1>c, <3>1, <3>3 DEF ContentsIsQueue
      <3>7. \A i \in 1..(Filled + 1) : p[i] = q[i]
        BY <1>s, <3>1, <3>5, <3>6
      <3>8. p = q
        BY <3>1, <3>2, <3>7, SameElements
      <3> QED BY <3>8 DEF p, q
    <2> QED BY <2>1, <2>2, <2>4, <2>5, <2>6 DEF Published
  <1>6. ASSUME PopRead PROVE SlotTouched
    <2>1. cons'.popped = cons.popped /\ UNCHANGED <<buffer, headMO, tailMO>>
      BY <1>0, <1>6 DEF PopRead, TypeOK, Consumer
    <2> QED BY <1>1, <2>1 DEF SlotTouched
  <1>7. ASSUME PopRelease PROVE Released
    <2>1. /\ cons.pc = "release"
          /\ tailMO' = ReleaseStore(tailMO, NextSlot(Latest(tailMO)), cons.touched)
          /\ UNCHANGED <<buffer, headMO, prod>>
      BY <1>7 DEF PopRelease
    <2>2. /\ cons.touched = {Latest(tailMO)} /\ Len(headMO) <= Filled
          /\ cons.out = buffer[Latest(tailMO)]
      BY <1>0, <2>1 DEF PopHasItem
    <2>3. Len(tailMO) < Capacity /\ Filled > 0
      BY <1>0, <1>s, <2>2 DEF WithinOneLap
    <2>4. /\ Latest(tailMO') = NextSlot(Latest(tailMO))
          /\ Len(tailMO') = Len(tailMO) + 1
      <3>1. tailMO' = ReleaseStore(tailMO, NextSlot(Latest(tailMO)), {Latest(tailMO)})
        BY <2>1, <2>2
      <3>2. tailMO \in Seq(Entry) /\ Len(tailMO) > 0 /\ Chained(tailMO)
        BY DEF Inv, TypeOK, ViewsAgree
      <3> QED BY <2>3, <3>1, <3>2, ReleaseStoreExtends, Zenon
    <2>5. Filled' = Filled - 1 /\ Latest(tailMO) # Latest(headMO)
      BY <1>s, <2>1, <2>3, <2>4, DistanceBack DEF Filled
    <2>6. cons'.popped = buffer[Latest(tailMO)]
      BY <1>0, <1>7, <2>2 DEF PopRelease, TypeOK, Consumer
    <2>7. Contents # << >> /\ Head(Contents) = buffer[Latest(tailMO)]
      <3>1. (Latest(tailMO) + 1 - 1) % Capacity = Latest(tailMO)
        BY <1>s, QueuedSlots
      <3>2. Contents[1] = buffer[Latest(tailMO)]
        BY <1>s, <1>c, <2>3, <3>1 DEF ContentsIsQueue
      <3> QED BY <1>s, <1>c, <2>3, <3>2 DEF ContentsIsQueue
    <2>8. Contents' = Tail(Contents)
      <3> DEFINE p == Contents'
                 q == Tail(Contents)
      <3>1. /\ q \in Seq(T) /\ Len(q) = Filled - 1
            /\ \A i \in 1..(Filled - 1) : q[i] = Contents[i + 1]
        BY <1>s, <1>c, <2>3 DEF ContentsIsQueue
      <3>2. p \in Seq(T) /\ Len(p) = Filled - 1
        BY <1>d, <2>5 DEF ContentsIsQueue
      <3>3. \A i \in 1..(Filled - 1) :
              p[i] = buffer[(NextSlot(Latest(tailMO)) + i - 1) % Capacity]
        BY <1>d, <2>1, <2>4, <2>5 DEF ContentsIsQueue
      <3>4. \A i \in 1..(Filled - 1) :
              (NextSlot(Latest(tailMO)) + i - 1) % Capacity
                = (Latest(tailMO) + (i + 1) - 1) % Capacity
        BY <1>s, <1>f, <2>5, QueuedSlots
      <3> HIDE DEF p, q
      <3>5. ASSUME NEW i \in 1..(Filled - 1) PROVE p[i] = q[i]
        <4>1. i + 1 \in 1..Filled
          BY <1>s
        <4>2. Contents[i + 1] = buffer[(Latest(tailMO) + (i + 1) - 1) % Capacity]
          BY <1>c, <4>1 DEF ContentsIsQueue
        <4>3. (NextSlot(Latest(tailMO)) + i - 1) % Capacity
                = (Latest(tailMO) + (i + 1) - 1) % Capacity
          BY <3>4
        <4>4. p[i] = buffer[(NextSlot(Latest(tailMO)) + i - 1) % Capacity]
          BY <3>3
        <4> QED BY <3>1, <4>2, <4>3, <4>4
      <3>6. p = q
        BY <3>1, <3>2, <3>5, SameElements
      <3> QED BY <3>6 DEF p, q
    <2> QED BY <2>1, <2>2, <2>4, <2>5, <2>6, <2>7, <2>8 DEF Released
  <1>8. ASSUME UNCHANGED vars PROVE SlotTouched
    BY <1>8 DEF vars, Contents, Filled, SlotTouched
  <1> QED
    BY <1>2, <1>3, <1>4, <1>5, <1>6, <1>7, <1>8 DEF Next, TryPush, TryPop

(* An item is put when head_ is stored and taken when tail_ is stored. *)
LEMMA NextRefines ==
  Inv /\ Inv' /\ [Next]_vars => [Fifo!Next]_(Fifo!vars)
  <1> SUFFICES ASSUME Inv, Inv', [Next]_vars
               PROVE  Fifo!Next \/ UNCHANGED <<Contents, cons.popped>>
    BY DEF Fifo!vars
  <1>s. /\ Len(tailMO) \in Nat \ {0} /\ Filled \in Nat /\ Capacity \in Nat
        /\ Len(Contents) = Filled
    BY LatestSlots, CapacityNat, ContentsShape DEF Inv, ContentsIsQueue
  <1>1. ASSUME Published PROVE Fifo!Next
    <2>1. Len(Contents) < UsableCapacity
      BY <1>s, <1>1 DEF Published, UsableCapacity
    <2> QED BY <1>1, <2>1 DEF Published, Fifo!Next, Fifo!Put
  <1>2. ASSUME Released PROVE Fifo!Next
    BY <1>2 DEF Released, Fifo!Next, Fifo!Take
  <1>3. ASSUME TailLoaded \/ HeadLoaded \/ SlotTouched
        PROVE  UNCHANGED <<Contents, cons.popped>>
    BY <1>3 DEF TailLoaded, HeadLoaded, SlotTouched
  <1> QED BY <1>1, <1>2, <1>3, NextContents

(* The ring implements the bounded first-in first-out queue, for every set *)
(* of items and every capacity: no item is lost, duplicated or reordered.  *)
THEOREM RefinesFifo == Spec => ImplementsFifo
  BY InitInv, NextInv, InitRefines, NextRefines, PTL
     DEF Spec, ImplementsFifo, Fifo!Spec

-----------------------------------------------------------------------------
(* The views of the constructed ring are those of an empty queue. *)
LEMMA InitViews == Init => Views!Init
  <1> SUFFICES ASSUME Init PROVE Views!Init
    OBVIOUS
  <1>1. Fifo!Init
    BY InitRefines
  <1>2. Filled = 0
    BY CapacityNat DEF Init, Filled, Distance, Latest
  <1>3. Len(headMO) = 1 /\ Len(tailMO) = 1
    BY DEF Init
  <1> QED BY <1>1, <1>2, <1>3 DEF Fifo!Init, Views!Init, SeenItems, OccupiedItems

(* A load only brings a view closer to the queue; a store moves the queue   *)
(* and the storing thread's view together.                                 *)
LEMMA NextViews ==
  Inv /\ Inv' /\ [Next]_vars => [Views!Next]_(Views!vars)
  <1> SUFFICES ASSUME Inv, Inv', [Next]_vars
               PROVE  Views!Next \/ UNCHANGED <<Contents, SeenItems, OccupiedItems>>
    BY DEF Views!vars
  <1>0. WithinOneLap
    BY DEF Inv, ViewsAgree
  <1>s. /\ Len(headMO) \in Nat \ {0} /\ Len(tailMO) \in Nat \ {0}
        /\ Filled \in Nat /\ Capacity \in Nat
    BY LatestSlots, CapacityNat DEF Inv
  <1>c. Len(Contents) = Filled
    BY ContentsShape DEF ContentsIsQueue
  <1>r. /\ SeenItems \in SeenItems..Len(Contents)
        /\ OccupiedItems \in Len(Contents)..OccupiedItems
    BY <1>0, <1>s, <1>c DEF WithinOneLap, SeenItems, OccupiedItems
  <1>1. ASSUME TailLoaded PROVE Views!Next
    <2> DEFINE o == Filled + (Len(tailMO') - 1)
    <2>1. o \in Len(Contents)..OccupiedItems
      BY <1>1, <1>s, <1>c DEF TailLoaded, OccupiedItems
    <2>2. OccupiedItems' = o /\ SeenItems' = SeenItems /\ Contents' = Contents
      BY <1>1 DEF TailLoaded, OccupiedItems, SeenItems
    <2> HIDE DEF o
    <2> QED BY <2>1, <2>2 DEF Views!Next, Views!Recount, Views!OccupiedNow
  <1>2. ASSUME HeadLoaded PROVE Views!Next
    <2> DEFINE v == Filled - (Len(headMO') - 1)
    <2>1. v \in SeenItems..Len(Contents)
      BY <1>2, <1>s, <1>c DEF HeadLoaded, SeenItems
    <2>2. SeenItems' = v /\ OccupiedItems' = OccupiedItems /\ Contents' = Contents
      BY <1>2 DEF HeadLoaded, OccupiedItems, SeenItems
    <2> HIDE DEF v
    <2> QED BY <2>1, <2>2 DEF Views!Next, Views!Look, Views!SeenNow
  <1>3. ASSUME Published PROVE Views!Next
    <2>1. OccupiedItems < UsableCapacity
      BY <1>3, <1>s DEF Published, OccupiedItems, UsableCapacity
    <2>2. Filled' = Filled + 1 /\ Len(headMO') = Len(headMO) + 1 /\ tailMO' = tailMO
      BY <1>3 DEF Published
    <2>3. OccupiedItems' = OccupiedItems + 1
      BY <1>s, <2>2 DEF OccupiedItems
    <2>4. SeenItems' = SeenItems
      BY <1>s, <2>2 DEF SeenItems
    <2>5. prod.item \in Items /\ Contents' = Append(Contents, prod.item)
      BY <1>3 DEF Published
    <2>6. Views!TryPush(prod.item)
      BY <1>r, <2>1, <2>3, <2>4, <2>5
         DEF Views!TryPush, Views!OccupiedNow, Views!HasRoom
    <2> QED BY <2>5, <2>6 DEF Views!Next
  <1>4. ASSUME Released PROVE Views!Next
    <2>1. SeenItems > 0
      BY <1>4, <1>s DEF Released, SeenItems
    <2>2. Filled' = Filled - 1 /\ Len(tailMO') = Len(tailMO) + 1 /\ headMO' = headMO
      BY <1>4 DEF Released
    <2>3. SeenItems' = SeenItems - 1
      BY <1>s, <2>2 DEF SeenItems
    <2>4. OccupiedItems' = OccupiedItems
      BY <1>s, <2>2 DEF OccupiedItems
    <2>5. Contents' = Tail(Contents)
      BY <1>4 DEF Released
    <2>6. Views!TryPop
      BY <1>r, <2>1, <2>3, <2>4, <2>5 DEF Views!TryPop, Views!SeenNow
    <2> QED BY <2>6 DEF Views!Next
  <1>5. ASSUME SlotTouched PROVE UNCHANGED <<Contents, SeenItems, OccupiedItems>>
    BY <1>5 DEF SlotTouched, SeenItems, OccupiedItems
  <1> QED BY <1>1, <1>2, <1>3, <1>4, <1>5, NextContents

(* The ring implements the queue with two out-of-date views that the        *)
(* pipeline's threads are written against: for every set of items and      *)
(* every capacity, a failed try_push, a failed try_pop and a true empty()  *)
(* are right about a view, and a view never gets worse.                    *)
THEOREM RefinesViews == Spec => ImplementsViews
  BY InitInv, NextInv, InitViews, NextViews, PTL
     DEF Spec, ImplementsViews, Views!Spec
=============================================================================
