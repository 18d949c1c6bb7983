---------------------------- MODULE OrderBookOps -----------------------------
(***************************************************************************)
(* One symbol's order book (order_book.hpp, order_book.cpp) as a value and *)
(* the operations on it.  A book is a record of                            *)
(*   levels : bids_ and asks_, per side a finite map from price to level;  *)
(*            a level has its price, its aggregate and its std::list, here *)
(*            the sequence of the list's nodes, oldest first;              *)
(*   orders : orders_, the map from an order id to its OrderLocation, whose*)
(*            iterator is a list node;                                     *)
(*   nodes  : the list nodes that are allocated, with the RestingOrder of  *)
(*            each.  Dereferencing a node that is not in nodes is a use of *)
(*            an invalid iterator.                                         *)
(* A mutation returns the new book and the bool that the method returns.   *)
(***************************************************************************)
EXTENDS Integers, Sequences, FiniteSets, SequencesExt, FiniteSetsExt, Functions, TLC

CONSTANTS Ids,               \* order ids
          Prices,            \* prices, integers
          QuantityRange,     \* Quantity is unsigned: 0..(QuantityRange - 1)
          MaxSnapshotLevels  \* kMaxSnapshotLevels

ASSUME BookAssumption ==
  /\ IsFiniteSet(Ids)
  /\ Prices \subseteq Int
  /\ QuantityRange \in Nat /\ QuantityRange > 1
  /\ MaxSnapshotLevels \in Nat

Sides == {"Buy", "Sell"}
Quantities == 0..(QuantityRange - 1)

(* Addresses of list nodes: enough for every id to rest at once. *)
Nodes == 1..Cardinality(Ids)

RestingOrder == [id : Ids, quantity : Quantities]
PriceLevel == [price : Prices, total : Quantities, orders : Seq(Nodes)]
OrderLocation == [side : Sides, price : Prices, it : Nodes]

PartialFunctions(S, T) == UNION {[D -> T] : D \in SUBSET S}

EmptyBook == [levels |-> [s \in Sides |-> << >>], orders |-> << >>, nodes |-> << >>]

(* The maps' operations that the code uses. *)
Insert(f, k, v) == [x \in DOMAIN f \cup {k} |-> IF x = k THEN v ELSE f[x]]
Erase(f, k) == Restrict(f, DOMAIN f \ {k})

Ok(b) == [book |-> b, ret |-> TRUE]
Fail(b) == [book |-> b, ret |-> FALSE]

(* The node that the next push_back allocates. *)
NewNode(b) == CHOOSE n \in Nodes \ DOMAIN b.nodes : TRUE

(* Fault: a sum is kept wider than Quantity. *)
WrapNot(q) == q

(* A sum or difference, as Quantity stores it. *)
Wrap(q) == q % QuantityRange

(* insert_order: at the back of its level, which is made if need be. *)
InsertOrder(b, side, price, id, qty) ==
  LET lvl == IF price \in DOMAIN b.levels[side] THEN b.levels[side][price]
             ELSE [price |-> price, total |-> 0, orders |-> << >>]
  IN  [b EXCEPT
        !.levels[side] = Insert(@, price,
           [lvl EXCEPT !.total = Wrap(@ + qty),
                       !.orders = Append(@, NewNode(b))]),
        !.nodes = Insert(@, NewNode(b), [id |-> id, quantity |-> qty])]

(* Fault: a level that has become empty stays in the map. *)
EmptiedNever(lvl) == FALSE

Emptied(lvl) == lvl.orders = << >>

(* erase_order: out of its level, which goes if it is left empty. *)
EraseOrder(b, side, price, node) ==
  IF price \notin DOMAIN b.levels[side] THEN b
  ELSE LET lvl  == b.levels[side][price]
           left == [lvl EXCEPT
                     !.total = Wrap(@ - b.nodes[node].quantity),
                     !.orders = RemoveFirst(@, node)]
       IN  [b EXCEPT
             !.levels[side] = IF Emptied(left) THEN Erase(@, price)
                              ELSE Insert(@, price, left),
             !.nodes = Erase(@, node)]

(* it->quantity -= delta and the level's total_quantity -= delta *)
Reduce(b, loc, delta) ==
  [b EXCEPT
    !.nodes[loc.it].quantity = Wrap(@ - delta),
    !.levels[loc.side][loc.price].total = Wrap(@ - delta)]

-----------------------------------------------------------------------------
Add(b, id, side, price, qty) ==
  IF qty = 0 \/ id \in DOMAIN b.orders THEN Fail(b)
  ELSE Ok([InsertOrder(b, side, price, id, qty) EXCEPT
            !.orders = Insert(@, id, [side |-> side, price |-> price,
                                      it |-> NewNode(b)])])

Cancel(b, id) ==
  IF id \notin DOMAIN b.orders THEN Fail(b)
  ELSE LET loc == b.orders[id]
       IN  Ok([EraseOrder(b, loc.side, loc.price, loc.it) EXCEPT
                !.orders = Erase(@, id)])

(* Fault: the locator keeps the iterator of the erased order. *)
RelocateStale(loc, price, node) == [loc EXCEPT !.price = price]

Relocate(loc, price, node) == [loc EXCEPT !.price = price, !.it = node]

(* The slow path of modify: the order moves to the back of the level at    *)
(* new_price.                                                              *)
Requeue(b, id, new_price, new_qty) ==
  LET loc  == b.orders[id]
      gone == EraseOrder(b, loc.side, loc.price, loc.it)
  IN  [InsertOrder(gone, loc.side, new_price, id, new_qty) EXCEPT
        !.orders[id] = Relocate(@, new_price, NewNode(gone))]

(* Fault: an unchanged size also loses priority. *)
KeepsPriorityStrict(loc, old_qty, new_price, new_qty) ==
  new_price = loc.price /\ new_qty < old_qty

(* The fast path of modify: same price and no more than before. *)
KeepsPriority(loc, old_qty, new_price, new_qty) ==
  new_price = loc.price /\ new_qty <= old_qty

Modify(b, id, new_price, new_qty) ==
  IF new_qty = 0 THEN Cancel(b, id)
  ELSE IF id \notin DOMAIN b.orders THEN Fail(b)
  ELSE LET loc     == b.orders[id]
           old_qty == b.nodes[loc.it].quantity
       IN  IF KeepsPriority(loc, old_qty, new_price, new_qty)
           THEN Ok(Reduce(b, loc, old_qty - new_qty))
           ELSE Ok(Requeue(b, id, new_price, new_qty))

(* Fault: a fill is not capped at the resting quantity. *)
FillUncapped(qty, resting) == qty

Fill(qty, resting) == Min({qty, resting})

(* A fill of the order; an order that is filled goes. *)
FillOrder(b, id, qty) ==
  LET loc  == b.orders[id]
      left == Reduce(b, loc, Fill(qty, b.nodes[loc.it].quantity))
  IN  IF left.nodes[loc.it].quantity = 0
      THEN [EraseOrder(left, loc.side, loc.price, loc.it) EXCEPT !.orders = Erase(@, id)]
      ELSE left

(* Fault: the fill goes to the order that has waited longest. *)
ExecuteFront(b, id, qty) ==
  IF id \notin DOMAIN b.orders THEN Fail(b)
  ELSE LET front == Head(b.levels[b.orders[id].side][b.orders[id].price].orders)
       IN  Ok(FillOrder(b, b.nodes[front].id, qty))

Execute(b, id, qty) ==
  IF id \notin DOMAIN b.orders THEN Fail(b) ELSE Ok(FillOrder(b, id, qty))

-----------------------------------------------------------------------------
(* The queries.  The maps iterate best price first. *)
Better(side, p, q) == IF side = "Buy" THEN p > q ELSE p < q

(* The prices of a set, best first: the i-th has i - 1 better ones. *)
BestFirst(prices, side) ==
  [i \in 1..Cardinality(prices) |->
    CHOOSE p \in prices : Cardinality({q \in prices : Better(side, q, p)}) = i - 1]

PricesBestFirst(b, side) == BestFirst(DOMAIN b.levels[side], side)

LevelView(lvl) == [price |-> lvl.price, quantity |-> lvl.total,
                   order_count |-> Len(lvl.orders)]

(* top_levels: bids(depth) and asks(depth) *)
TopLevels(b, side, depth) ==
  LET best == PricesBestFirst(b, side)
  IN  [i \in 1..Min({depth, Len(best)}) |-> LevelView(b.levels[side][best[i]])]

(* best_bid and best_ask: the first level, or none (an empty sequence). *)
Best(b, side) == TopLevels(b, side, 1)

(* spread: none (an empty sequence) unless both sides have orders. *)
Spread(b) ==
  IF Best(b, "Buy") = << >> \/ Best(b, "Sell") = << >> THEN << >>
  ELSE <<Best(b, "Sell")[1].price - Best(b, "Buy")[1].price>>

(* snapshot: the wire form drops the order counts. *)
Snapshot(b) ==
  [side \in Sides |->
    LET top == TopLevels(b, side, MaxSnapshotLevels)
    IN  [i \in DOMAIN top |-> [price |-> top[i].price, quantity |-> top[i].quantity]]]

(* check_invariants, in its three parts. *)
ExactSum(b, lvl) == FoldLeft(LAMBDA sum, n : sum + b.nodes[n].quantity, 0, lvl.orders)

LevelOk(b, side) ==
  \A price \in DOMAIN b.levels[side] :
    LET lvl == b.levels[side][price]
    IN  /\ lvl.orders # << >>
        /\ lvl.price = price
        /\ \A i \in DOMAIN lvl.orders : b.nodes[lvl.orders[i]].quantity # 0
        /\ ExactSum(b, lvl) % QuantityRange = lvl.total

Crossed(b) ==
  /\ Best(b, "Buy") # << >> /\ Best(b, "Sell") # << >>
  /\ Best(b, "Buy")[1].price >= Best(b, "Sell")[1].price

(* The sum of the sizes of all lists: the number of places in them. *)
Places(b) ==
  UNION {UNION {{<<side, price, i>> : i \in DOMAIN b.levels[side][price].orders} :
                  price \in DOMAIN b.levels[side]} : side \in Sides}

Counted(b) == Cardinality(Places(b))

BookConsistent(b) ==
  /\ LevelOk(b, "Buy") /\ LevelOk(b, "Sell")
  /\ Counted(b) = Cardinality(DOMAIN b.orders)

CheckInvariants(b) == BookConsistent(b) /\ ~Crossed(b)
==============================================================================
