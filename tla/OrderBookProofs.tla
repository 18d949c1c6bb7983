--------------------------- MODULE OrderBookProofs ---------------------------
(***************************************************************************)
(* Proofs about OrderBook, for any number of orders, any prices and any    *)
(* width of Quantity.                                                      *)
(***************************************************************************)
EXTENDS OrderBook, DataLemmas, FiniteSetTheorems, TLAPS

Books == [levels : [Sides -> PartialFunctions(Prices, PriceLevel)],
          orders : PartialFunctions(Ids, OrderLocation),
          nodes  : PartialFunctions(Nodes, RestingOrder)]

(* n is the node of an order that is located at this side and price. *)
Resides(b, s, p, n) ==
  /\ n \in DOMAIN b.nodes
  /\ b.orders[b.nodes[n].id].side = s /\ b.orders[b.nodes[n].id].price = p

Has(list, n) == \E i \in DOMAIN list : list[i] = n

(* Every locator names a list that has its node, and the node its order. *)
OrderLinked(b, id, loc) ==
  /\ loc.it \in DOMAIN b.nodes
  /\ b.nodes[loc.it].id = id
  /\ loc.price \in DOMAIN b.levels[loc.side]
  /\ Has(b.levels[loc.side][loc.price].orders, loc.it)

OrdersLinked(b) == \A id \in DOMAIN b.orders : OrderLinked(b, id, b.orders[id])

(* Every node is the one that its order's locator has. *)
NodesLinked(b) ==
  \A n \in DOMAIN b.nodes :
    b.nodes[n].id \in DOMAIN b.orders /\ b.orders[b.nodes[n].id].it = n

(* A list has no node twice, and those of the orders located in it only. *)
ListLinked(b, s, p, list) ==
  IsInjective(list) /\ \A i \in DOMAIN list : Resides(b, s, p, list[i])

ListsLinked(b) ==
  \A s \in Sides : \A p \in DOMAIN b.levels[s] : ListLinked(b, s, p, b.levels[s][p].orders)

(* What check_invariants tests of the level at p of side s. *)
LevelSound(b, s, p) ==
  /\ b.levels[s][p].orders # << >>
  /\ b.levels[s][p].price = p
  /\ \A i \in DOMAIN b.levels[s][p].orders : b.nodes[b.levels[s][p].orders[i]].quantity # 0
  /\ ExactSum(b, b.levels[s][p]) % QuantityRange = b.levels[s][p].total

Sound(b) ==
  /\ b \in Books
  /\ OrdersLinked(b) /\ NodesLinked(b) /\ ListsLinked(b)
  /\ \A s \in Sides : \A p \in DOMAIN b.levels[s] : LevelSound(b, s, p)

-----------------------------------------------------------------------------
(* Maps. *)

(* A partial function is a function on a part of the set. *)
LEMMA PartialFunction ==
  ASSUME NEW S, NEW T, NEW f
  PROVE  f \in PartialFunctions(S, T) <=> f \in [DOMAIN f -> T] /\ DOMAIN f \subseteq S
  BY DEF PartialFunctions

(* g is f with v at k, and f without k. *)
IsInsert(g, f, k, v, S, T) ==
  /\ g \in PartialFunctions(S, T)
  /\ DOMAIN g = DOMAIN f \cup {k}
  /\ g[k] = v
  /\ \A x \in DOMAIN f : x # k => g[x] = f[x]

IsErase(g, f, k, S, T) ==
  /\ g \in PartialFunctions(S, T)
  /\ DOMAIN g = DOMAIN f \ {k}
  /\ \A x \in DOMAIN f : x # k => g[x] = f[x]

(* Insert sets one entry of a map. *)
LEMMA InsertShape ==
  ASSUME NEW S, NEW T, NEW f \in PartialFunctions(S, T), NEW k \in S, NEW v \in T
  PROVE  IsInsert(Insert(f, k, v), f, k, v, S, T)
  <1>1. f \in [DOMAIN f -> T] /\ DOMAIN f \subseteq S
    BY PartialFunction
  <1>2. Insert(f, k, v) \in [DOMAIN f \cup {k} -> T] /\ DOMAIN f \cup {k} \subseteq S
    BY <1>1 DEF Insert
  <1>3. Insert(f, k, v) \in PartialFunctions(S, T)
    BY <1>2 DEF PartialFunctions
  <1> QED BY <1>3 DEF Insert, IsInsert

(* Erase takes one entry out of a map. *)
LEMMA EraseShape ==
  ASSUME NEW S, NEW T, NEW f \in PartialFunctions(S, T), NEW k
  PROVE  IsErase(Erase(f, k), f, k, S, T)
  <1>1. f \in [DOMAIN f -> T] /\ DOMAIN f \subseteq S
    BY PartialFunction
  <1>2. Erase(f, k) \in [DOMAIN f \ {k} -> T] /\ DOMAIN f \ {k} \subseteq S
    BY <1>1 DEF Erase, Restrict
  <1>3. Erase(f, k) \in PartialFunctions(S, T)
    BY <1>2 DEF PartialFunctions
  <1> QED BY <1>3 DEF Erase, Restrict, IsErase

(* The members of a book. *)
LEMMA BookParts ==
  ASSUME NEW b \in Books
  PROVE  /\ \A id \in DOMAIN b.orders :
              /\ id \in Ids /\ b.orders[id] \in OrderLocation
              /\ b.orders[id].side \in Sides /\ b.orders[id].price \in Prices
              /\ b.orders[id].it \in Nodes
         /\ \A n \in DOMAIN b.nodes :
              /\ n \in Nodes /\ b.nodes[n] \in RestingOrder
              /\ b.nodes[n].id \in Ids /\ b.nodes[n].quantity \in Quantities
         /\ b.levels \in [Sides -> PartialFunctions(Prices, PriceLevel)]
         /\ b.orders \in PartialFunctions(Ids, OrderLocation)
         /\ b.nodes \in PartialFunctions(Nodes, RestingOrder)
         /\ \A s \in Sides : \A p \in DOMAIN b.levels[s] :
              /\ p \in Prices /\ b.levels[s][p] \in PriceLevel
              /\ b.levels[s][p].total \in Quantities
              /\ b.levels[s][p].orders \in Seq(Nodes)
  <1>1. /\ b.levels \in [Sides -> PartialFunctions(Prices, PriceLevel)]
        /\ b.orders \in PartialFunctions(Ids, OrderLocation)
        /\ b.nodes \in PartialFunctions(Nodes, RestingOrder)
    BY DEF Books
  <1>2. \A id \in DOMAIN b.orders : id \in Ids /\ b.orders[id] \in OrderLocation
    BY <1>1, PartialFunction
  <1>3. \A n \in DOMAIN b.nodes : n \in Nodes /\ b.nodes[n] \in RestingOrder
    BY <1>1, PartialFunction
  <1>4. \A s \in Sides : \A p \in DOMAIN b.levels[s] :
          p \in Prices /\ b.levels[s][p] \in PriceLevel
    BY <1>1, PartialFunction
  <1> QED BY <1>1, <1>2, <1>3, <1>4 DEF OrderLocation, RestingOrder, PriceLevel

-----------------------------------------------------------------------------
(* Sums of quantities. *)
Sizes(b, list) == [i \in 1..Len(list) |-> b.nodes[list[i]].quantity]

(* The list's nodes have quantities. *)
Sized(b, list) == list \in Seq(Nodes) /\ \A i \in DOMAIN list : b.nodes[list[i]].quantity \in Int

(* The list's nodes have the same quantities in both books. *)
SameQuantities(b, c, list) ==
  \A i \in DOMAIN list : c.nodes[list[i]].quantity = b.nodes[list[i]].quantity

(* The sequence of quantities, place by place. *)
LEMMA SizesShape ==
  ASSUME NEW b, NEW list, Sized(b, list)
  PROVE  /\ Sizes(b, list) \in Seq(Int)
         /\ Len(Sizes(b, list)) = Len(list)
         /\ \A i \in 1..Len(list) : Sizes(b, list)[i] = b.nodes[list[i]].quantity
  BY DEF Sizes, Sized

(* The equation of the fold in ExactSum. *)
FoldsSizes(b, list, iter) ==
  iter = [s \in SUBSET DOMAIN list |->
            IF s = {} THEN 0
            ELSE iter[s \ {Max(s)}] + b.nodes[list[Max(s)]].quantity]

(* FoldLeft adds the quantities up. *)
LEMMA ExactSumIs ==
  ASSUME NEW b, NEW lvl, Sized(b, lvl.orders)
  PROVE  /\ Sizes(b, lvl.orders) \in Seq(Int)
         /\ IsSum(Sizes(b, lvl.orders), ExactSum(b, lvl))
  <1> DEFINE list == lvl.orders
             n == Len(list)
             q == Sizes(b, list)
             it == CHOOSE iter : FoldsSizes(b, list, iter)
  <1>1. ExactSum(b, lvl) = it[DOMAIN list]
    BY DEF ExactSum, FoldLeft, MapThenFoldSet, FoldsSizes
  <1>2. /\ n \in Nat /\ DOMAIN list = 1..n
        /\ q \in Seq(Int) /\ Len(q) = n /\ q \in [1..n -> Int]
        /\ \A i \in 1..n : q[i] = b.nodes[list[i]].quantity
    BY DEF Sizes, Sized
  <1> HIDE DEF n, q, it, list
  <1>3. \E iter : FoldsSizes(b, list, iter)
    <2> DEFINE step == [a \in Int \X (1..n) |-> a[1] + q[a[2]]]
    <2>1. step \in [Int \X (1..n) -> Int]
      BY <1>2
    <2>2. PICK iter : IsFold(Int, 0, n, step, iter)
      <3>1. n \in Nat /\ 0 \in Int
        BY <1>2
      <3> HIDE DEF step
      <3> QED BY <2>1, <3>1, FoldExists
    <2>0. /\ iter \in [SUBSET (1..n) -> Int] /\ iter[{}] = 0
          /\ \A s \in SUBSET (1..n) :
               s # {} => iter[s] = step[<<iter[s \ {Max(s)}], Max(s)>>]
      <3> HIDE DEF step
      <3> QED BY <2>2 DEF IsFold
    <2>3. ASSUME NEW s \in SUBSET (1..n), s # {}
          PROVE  iter[s] = iter[s \ {Max(s)}] + b.nodes[list[Max(s)]].quantity
      <3>1. Max(s) \in 1..n /\ s \ {Max(s)} \in SUBSET (1..n)
        BY <1>2, <2>3, MaxOfBounded
      <3>2. iter[s \ {Max(s)}] \in Int
        BY <2>0, <3>1
      <3>3. step[<<iter[s \ {Max(s)}], Max(s)>>] = iter[s \ {Max(s)}] + q[Max(s)]
        BY <3>1, <3>2
      <3> QED BY <1>2, <2>0, <2>3, <3>1, <3>3
    <2>4. FoldsSizes(b, list, iter)
      BY <1>2, <2>0, <2>3 DEF FoldsSizes
    <2> QED BY <2>4
  <1>4. FoldsSizes(b, list, it)
    BY <1>3 DEF it
  <1>5. /\ it[{}] = 0
        /\ \A s \in SUBSET (1..n) :
             s # {} => it[s] = it[s \ {Max(s)}] + b.nodes[list[Max(s)]].quantity
    BY <1>2, <1>4 DEF FoldsSizes
  <1>6. ASSUME NEW k \in 1..n
        PROVE  it[1..k] = it[1..(k - 1)] + q[k]
    <2>1. /\ 1..k \in SUBSET (1..n) /\ k \in 1..k /\ 1..k \subseteq Int
          /\ \A y \in 1..k : y <= k
      BY <1>2
    <2>2. Max(1..k) = k
      BY <2>1, MaxIs
    <2>3. (1..k) \ {k} = 1..(k - 1)
      BY <1>2
    <2>4. it[1..k] = it[(1..k) \ {Max(1..k)}] + b.nodes[list[Max(1..k)]].quantity
      BY <1>5, <2>1
    <2>5. q[k] = b.nodes[list[k]].quantity
      BY <1>2
    <2> QED BY <2>2, <2>3, <2>4, <2>5
  <1> DEFINE f == [k \in 0..n |-> it[1..k]]
             S == {k \in 0..n : it[1..k] \in Int}
  <1>7. \A k \in 0..n : k \in S
    <2>1. 0 \in S
      <3>1. 1..0 = {}
        OBVIOUS
      <3> QED BY <1>2, <1>5, <3>1
    <2>2. \A k \in 0..(n - 1) : k \in S => k + 1 \in S
      <3> SUFFICES ASSUME NEW k \in 0..(n - 1), k \in S
                   PROVE  k + 1 \in S
        OBVIOUS
      <3>1. k + 1 \in 1..n /\ (k + 1) - 1 = k /\ k + 1 \in 0..n
        BY <1>2
      <3>2. it[1..(k + 1)] = it[1..k] + q[k + 1] /\ q[k + 1] \in Int
        BY <1>2, <1>6, <3>1
      <3> QED BY <3>1, <3>2
    <2> HIDE DEF S
    <2> QED BY <1>2, <2>1, <2>2, BoundedInduction
  <1>8. PartialSums(q, f)
    <2>1. f \in [0..n -> Int]
      BY <1>7
    <2>2. f[0] = 0
      <3>1. 1..0 = {} /\ 0 \in 0..n
        BY <1>2
      <3> QED BY <1>5, <3>1
    <2>3. \A i \in 1..n : f[i] = f[i - 1] + q[i]
      <3> SUFFICES ASSUME NEW i \in 1..n
                   PROVE  f[i] = f[i - 1] + q[i]
        OBVIOUS
      <3>1. i \in 0..n /\ i - 1 \in 0..n
        BY <1>2
      <3> QED BY <1>6, <3>1
    <2> HIDE DEF f
    <2> QED BY <1>2, <2>1, <2>2, <2>3 DEF PartialSums
  <1>9. ExactSum(b, lvl) = f[Len(q)]
    BY <1>1, <1>2
  <1> HIDE DEF f
  <1> QED BY <1>2, <1>8, <1>9 DEF IsSum, q, list

(* Lists with the same quantities have the same sum. *)
LEMMA SameSizes ==
  ASSUME NEW b, NEW lvl, NEW c, NEW other, other.orders = lvl.orders,
         Sized(b, lvl.orders), SameQuantities(b, c, lvl.orders)
  PROVE  ExactSum(c, other) = ExactSum(b, lvl)
  <1>1. Sizes(c, other.orders) = Sizes(b, lvl.orders)
    BY DEF Sizes, Sized, SameQuantities
  <1>2. /\ Sizes(b, lvl.orders) \in Seq(Int)
        /\ IsSum(Sizes(b, lvl.orders), ExactSum(b, lvl))
    BY ExactSumIs
  <1>3. Sized(c, other.orders)
    BY DEF Sized, SameQuantities
  <1>4. IsSum(Sizes(c, other.orders), ExactSum(c, other))
    BY <1>3, ExactSumIs
  <1> QED BY <1>1, <1>2, <1>4, SumUnique

-----------------------------------------------------------------------------
(* insert_order and add. *)

(* While an id does not rest there is a node to allocate. *)
LEMMA NodeAvailable ==
  ASSUME NEW b \in Books, NodesLinked(b), NEW id \in Ids, id \notin DOMAIN b.orders
  PROVE  NewNode(b) \in Nodes \ DOMAIN b.nodes
  <1>1. ASSUME Nodes \subseteq DOMAIN b.nodes
        PROVE  FALSE
    <2> DEFINE c == Cardinality(Ids)
               f == [n \in Nodes |-> b.nodes[n].id]
    <2>1. IsFiniteSet(Ids) /\ c \in Nat
      BY BookAssumption, FS_CardinalityType
    <2>2. IsFiniteSet(Ids \ {id}) /\ Cardinality(Ids \ {id}) = c - 1
      BY <2>1, FS_RemoveElement
    <2>3. Cardinality(Nodes) = c
      <3>1. 1 \in Int /\ c \in Int
        BY <2>1
      <3>2. Cardinality(1..c) = IF 1 > c THEN 0 ELSE c - 1 + 1
        <4> HIDE DEF c
        <4> QED BY <3>1, FS_Interval
      <3> QED BY <2>1, <3>2 DEF Nodes
    <2>4. f \in [Nodes -> Ids \ {id}]
      BY <1>1, BookParts DEF NodesLinked
    <2>5. \A m, n \in Nodes : f[m] = f[n] => m = n
      BY <1>1 DEF NodesLinked
    <2>6. f \in Injection(Nodes, Ids \ {id})
      BY <2>4, <2>5 DEF Injection, IsInjective
    <2>7. Cardinality(Nodes) <= Cardinality(Ids \ {id})
      <3> HIDE DEF f
      <3> QED BY <2>2, <2>6, FS_Injection
    <2> HIDE DEF c
    <2> QED BY <2>1, <2>2, <2>3, <2>7
  <1> QED BY <1>1 DEF NewNode

(* The level that insert_order finds or makes. *)
LevelFor(b, side, price) ==
  IF price \in DOMAIN b.levels[side] THEN b.levels[side][price]
  ELSE [price |-> price, total |-> 0, orders |-> << >>]

(* The levels of r are those of b but for the one at this side and price. *)
OtherLevels(b, r, side, price) ==
  /\ \A s \in Sides : s # side => r.levels[s] = b.levels[s]
  /\ DOMAIN r.levels[side] \ {price} = DOMAIN b.levels[side] \ {price}
  /\ \A p \in DOMAIN b.levels[side] \ {price} : r.levels[side][p] = b.levels[side][p]

(* r is b with the node n for a new order at the back of a level. *)
Put(b, r, id, side, price, qty, n) ==
  /\ n \in Nodes \ DOMAIN b.nodes
  /\ OtherLevels(b, r, side, price)
  /\ price \in DOMAIN r.levels[side]
  /\ r.levels[side][price].price = LevelFor(b, side, price).price
  /\ r.levels[side][price].total = Wrap(LevelFor(b, side, price).total + qty)
  /\ r.levels[side][price].orders = Append(LevelFor(b, side, price).orders, n)
  /\ DOMAIN r.nodes = DOMAIN b.nodes \cup {n}
  /\ r.nodes[n].id = id /\ r.nodes[n].quantity = qty
  /\ \A m \in DOMAIN b.nodes : r.nodes[m] = b.nodes[m]

(* Quantities are integers, and so are their differences. *)
LEMMA QuantityInt ==
  ASSUME NEW q \in Quantities, NEW r \in Quantities
  PROVE  q \in Int /\ r \in Int /\ q - r \in Int
  BY BookAssumption DEF Quantities

(* A quantity is stored as a Quantity. *)
LEMMA WrapType ==
  ASSUME NEW q \in Int
  PROVE  Wrap(q) \in Quantities
  BY BookAssumption DEF Wrap, Quantities

(* The level that insert_order uses has the type of one. *)
LEMMA LevelForShape ==
  ASSUME NEW b \in Books, NEW side \in Sides, NEW price \in Prices
  PROVE  LevelFor(b, side, price) \in PriceLevel
  <1>1. [price |-> price, total |-> 0, orders |-> << >>] \in PriceLevel
    BY BookAssumption DEF PriceLevel, Quantities
  <1> QED BY <1>1, BookParts DEF LevelFor

(* A level with another aggregate and another list. *)
Relisted(lvl, t, l) == [lvl EXCEPT !.total = t, !.orders = l]

IsRelisted(r, lvl, t, l) ==
  r \in PriceLevel /\ r.price = lvl.price /\ r.total = t /\ r.orders = l

(* Relisted changes the two members that it names. *)
LEMMA RelistedShape ==
  ASSUME NEW lvl \in PriceLevel, NEW t \in Quantities, NEW l \in Seq(Nodes)
  PROVE  IsRelisted(Relisted(lvl, t, l), lvl, t, l)
  <1>1. [lvl EXCEPT !.total = t, !.orders = l] \in PriceLevel
    BY DEF PriceLevel
  <1>2. /\ [lvl EXCEPT !.total = t, !.orders = l].price = lvl.price
        /\ [lvl EXCEPT !.total = t, !.orders = l].total = t
        /\ [lvl EXCEPT !.total = t, !.orders = l].orders = l
    BY DEF PriceLevel
  <1> QED BY <1>1, <1>2 DEF Relisted, IsRelisted

(* A book with other levels on one side and other nodes. *)
Rebuilt(b, side, x, y) == [b EXCEPT !.levels[side] = x, !.nodes = y]

IsRebuilt(r, b, side, x, y) ==
  /\ r \in Books
  /\ \A s \in Sides : s # side => r.levels[s] = b.levels[s]
  /\ r.levels[side] = x
  /\ r.nodes = y /\ r.orders = b.orders

(* Rebuilt changes the two members that it names. *)
LEMMA RebuiltShape ==
  ASSUME NEW b \in Books, NEW side \in Sides,
         NEW x \in PartialFunctions(Prices, PriceLevel),
         NEW y \in PartialFunctions(Nodes, RestingOrder)
  PROVE  IsRebuilt(Rebuilt(b, side, x, y), b, side, x, y)
  <1> DEFINE r == [b EXCEPT !.levels[side] = x, !.nodes = y]
  <1>1. r.levels = [b.levels EXCEPT ![side] = x]
    BY DEF Books
  <1>2. r.nodes = y /\ r.orders = b.orders
    BY DEF Books
  <1>3. r \in Books
    BY DEF Books
  <1>4. b.levels \in [Sides -> PartialFunctions(Prices, PriceLevel)]
    BY DEF Books
  <1>5. r = Rebuilt(b, side, x, y)
    BY DEF Rebuilt
  <1> HIDE DEF r
  <1>6. IsRebuilt(r, b, side, x, y)
    BY <1>1, <1>2, <1>3, <1>4 DEF IsRebuilt
  <1> QED BY <1>5, <1>6

(* A book with other locators. *)
Reindexed(b, x) == [b EXCEPT !.orders = x]

IsReindexed(r, b, x) ==
  r \in Books /\ r.levels = b.levels /\ r.nodes = b.nodes /\ r.orders = x

(* Reindexed changes the member that it names. *)
LEMMA ReindexedShape ==
  ASSUME NEW b \in Books, NEW x \in PartialFunctions(Ids, OrderLocation)
  PROVE  IsReindexed(Reindexed(b, x), b, x)
  <1> DEFINE r == [b EXCEPT !.orders = x]
  <1>1. r.levels = b.levels /\ r.nodes = b.nodes /\ r.orders = x
    BY DEF Books
  <1>2. r \in Books
    BY DEF Books
  <1>3. r = Reindexed(b, x)
    BY DEF Reindexed
  <1> HIDE DEF r
  <1>4. IsReindexed(r, b, x)
    BY <1>1, <1>2 DEF IsReindexed
  <1> QED BY <1>3, <1>4

(* insert_order puts the order at the back of its level. *)
LEMMA InsertOrderShape ==
  ASSUME NEW b \in Books, NewNode(b) \in Nodes \ DOMAIN b.nodes,
         NEW id \in Ids, NEW side \in Sides, NEW price \in Prices, NEW qty \in Quantities
  PROVE  /\ InsertOrder(b, side, price, id, qty) \in Books
         /\ InsertOrder(b, side, price, id, qty).orders = b.orders
         /\ Put(b, InsertOrder(b, side, price, id, qty), id, side, price, qty, NewNode(b))
  <1> DEFINE n == NewNode(b)
             r == InsertOrder(b, side, price, id, qty)
             lvl == LevelFor(b, side, price)
             t == Wrap(lvl.total + qty)
             l == Append(lvl.orders, n)
             new == Relisted(lvl, t, l)
             o == [id |-> id, quantity |-> qty]
             x == Insert(b.levels[side], price, new)
             y == Insert(b.nodes, n, o)
  <1>1. lvl \in PriceLevel
    BY LevelForShape
  <1>2. lvl.total \in Quantities /\ lvl.orders \in Seq(Nodes) /\ lvl.price \in Prices
    <2> HIDE DEF lvl
    <2> QED BY <1>1 DEF PriceLevel
  <1>3. t \in Quantities
    <2>1. lvl.total + qty \in Int
      <3> HIDE DEF lvl
      <3> QED BY <1>2 DEF Quantities
    <2> QED BY <2>1, WrapType
  <1>4. l \in Seq(Nodes)
    BY <1>2
  <1>5. r = Rebuilt(b, side, x, y)
    BY DEF InsertOrder, LevelFor, Rebuilt, Relisted
  <1> HIDE DEF n, lvl, t, l
  <1>6. /\ new \in PriceLevel
        /\ new.price = lvl.price /\ new.total = t /\ new.orders = l
    BY <1>1, <1>3, <1>4, RelistedShape DEF IsRelisted
  <1> HIDE DEF new
  <1>7. /\ b.levels[side] \in PartialFunctions(Prices, PriceLevel)
        /\ b.nodes \in PartialFunctions(Nodes, RestingOrder)
    BY BookParts
  <1>8. o \in RestingOrder /\ o.id = id /\ o.quantity = qty
    BY DEF RestingOrder
  <1> HIDE DEF o
  <1>9. IsInsert(x, b.levels[side], price, new, Prices, PriceLevel)
    BY <1>6, <1>7, InsertShape
  <1>10. IsInsert(y, b.nodes, n, o, Nodes, RestingOrder)
    <2>1. n \in Nodes
      BY DEF n
    <2> QED BY <1>7, <1>8, <2>1, InsertShape
  <1> HIDE DEF x, y, r
  <1>11. /\ r \in Books
         /\ \A s \in Sides : s # side => r.levels[s] = b.levels[s]
         /\ r.levels[side] = x
         /\ r.nodes = y /\ r.orders = b.orders
    <2>1. /\ x \in PartialFunctions(Prices, PriceLevel)
          /\ y \in PartialFunctions(Nodes, RestingOrder)
      BY <1>9, <1>10 DEF IsInsert
    <2> QED BY <1>5, <2>1, RebuiltShape DEF IsRebuilt
  <1>12. OtherLevels(b, r, side, price)
    BY <1>9, <1>11 DEF OtherLevels, IsInsert
  <1>13. /\ price \in DOMAIN r.levels[side]
         /\ r.levels[side][price].price = LevelFor(b, side, price).price
         /\ r.levels[side][price].total = Wrap(LevelFor(b, side, price).total + qty)
         /\ r.levels[side][price].orders = Append(LevelFor(b, side, price).orders, n)
    BY <1>6, <1>9, <1>11 DEF t, l, lvl, IsInsert
  <1>14. n \in Nodes \ DOMAIN b.nodes
    BY DEF n
  <1>15. /\ DOMAIN r.nodes = DOMAIN b.nodes \cup {n}
         /\ r.nodes[n].id = id /\ r.nodes[n].quantity = qty
         /\ \A m \in DOMAIN b.nodes : r.nodes[m] = b.nodes[m]
    BY <1>8, <1>10, <1>11, <1>14 DEF IsInsert
  <1>16. Put(b, r, id, side, price, qty, n)
    BY <1>12, <1>13, <1>14, <1>15 DEF Put
  <1> QED BY <1>11, <1>16 DEF r, n

(* r has the locators of b and one for id, at n. *)
Located(b, r, id, side, price, n) ==
  /\ DOMAIN r.orders = DOMAIN b.orders \cup {id}
  /\ r.orders[id].side = side /\ r.orders[id].price = price /\ r.orders[id].it = n
  /\ \A other \in DOMAIN b.orders : other # id => r.orders[other] = b.orders[other]

(* r is b with an order added at node n. *)
Added(b, r, id, side, price, qty, n) ==
  r \in Books /\ Put(b, r, id, side, price, qty, n) /\ Located(b, r, id, side, price, n)

(* add, when the id does not rest. *)
LEMMA AddShape ==
  ASSUME NEW b, Sound(b), NEW id \in Ids, id \notin DOMAIN b.orders,
         NEW side \in Sides, NEW price \in Prices, NEW qty \in Quantities, qty # 0
  PROVE  /\ Add(b, id, side, price, qty).ret = TRUE
         /\ Added(b, Add(b, id, side, price, qty).book, id, side, price, qty, NewNode(b))
  <1> DEFINE n == NewNode(b)
             loc == [side |-> side, price |-> price, it |-> n]
             r1 == InsertOrder(b, side, price, id, qty)
             x == Insert(r1.orders, id, loc)
             r == Reindexed(r1, x)
  <1>1. b \in Books /\ NodesLinked(b)
    BY DEF Sound
  <1>2. n \in Nodes \ DOMAIN b.nodes
    BY <1>1, NodeAvailable
  <1>3. Add(b, id, side, price, qty) = Ok(r)
    BY DEF Add, Reindexed
  <1>4. /\ r1 \in Books /\ r1.orders = b.orders
        /\ Put(b, r1, id, side, price, qty, n)
    BY <1>1, <1>2, InsertOrderShape
  <1> HIDE DEF n, r1
  <1>5. loc \in OrderLocation /\ loc.side = side /\ loc.price = price /\ loc.it = n
    BY <1>2 DEF OrderLocation
  <1> HIDE DEF loc
  <1>6. IsInsert(x, b.orders, id, loc, Ids, OrderLocation)
    <2>1. b.orders \in PartialFunctions(Ids, OrderLocation)
      BY <1>1, BookParts
    <2> QED BY <1>4, <1>5, <2>1, InsertShape
  <1> HIDE DEF x
  <1>7. r \in Books /\ r.levels = r1.levels /\ r.nodes = r1.nodes /\ r.orders = x
    <2>1. x \in PartialFunctions(Ids, OrderLocation)
      BY <1>6 DEF IsInsert
    <2> QED BY <1>4, <2>1, ReindexedShape DEF IsReindexed
  <1> HIDE DEF r
  <1>8. Put(b, r, id, side, price, qty, n)
    BY <1>4, <1>7 DEF Put, OtherLevels
  <1>9. Located(b, r, id, side, price, n)
    BY <1>5, <1>6, <1>7 DEF Located, IsInsert
  <1>10. Add(b, id, side, price, qty).ret = TRUE /\ Add(b, id, side, price, qty).book = r
    BY <1>3 DEF Ok
  <1> QED BY <1>7, <1>8, <1>9, <1>10 DEF Added, n


-----------------------------------------------------------------------------
(* Adding keeps a book sound. *)

(* A level of other orders is as it was. *)
LEMMA LevelSoundKept ==
  ASSUME NEW b, NEW r, NEW s, NEW p,
         LevelSound(b, s, p), r.levels[s][p] = b.levels[s][p],
         Sized(b, b.levels[s][p].orders), SameQuantities(b, r, b.levels[s][p].orders)
  PROVE  LevelSound(r, s, p)
  <1>1. ExactSum(r, r.levels[s][p]) = ExactSum(b, b.levels[s][p])
    BY SameSizes
  <1> QED BY <1>1 DEF LevelSound, SameQuantities

(* Append, place by place. *)
LEMMA AppendShape ==
  ASSUME NEW T, NEW q \in Seq(T), NEW x \in T
  PROVE  /\ Append(q, x) \in Seq(T)
         /\ Len(q) \in Nat /\ Len(Append(q, x)) = Len(q) + 1
         /\ Append(q, x)[Len(q) + 1] = x
         /\ \A i \in 1..Len(q) : Append(q, x)[i] = q[i]
  OBVIOUS

(* y is more than x, by q. *)
IsMore(x, y, q) == x \in Int /\ y = x + q

(* A list with one more node adds up to that much more. *)
LEMMA SumAdded ==
  ASSUME NEW b, NEW lvl, Sized(b, lvl.orders),
         NEW r, NEW new, NEW n \in Nodes, new.orders = Append(lvl.orders, n),
         NEW q \in Int, r.nodes[n].quantity = q,
         SameQuantities(b, r, lvl.orders)
  PROVE  IsMore(ExactSum(b, lvl), ExactSum(r, new), q)
  <1> DEFINE list == lvl.orders
             k == Len(list)
             more == Append(list, n)
  <1>0. list \in Seq(Nodes) /\ DOMAIN list = 1..k /\ new.orders = more
    BY DEF Sized
  <1>1. /\ more \in Seq(Nodes) /\ k \in Nat /\ Len(more) = k + 1 /\ more[k + 1] = n
        /\ \A i \in 1..k : more[i] = list[i]
    BY <1>0, AppendShape
  <1>2. /\ Sizes(b, list) \in Seq(Int)
        /\ IsSum(Sizes(b, list), ExactSum(b, lvl))
    BY ExactSumIs
  <1>3. ExactSum(b, lvl) \in Int
    BY <1>2, SumUnique
  <1> HIDE DEF k, more
  <1>a. DOMAIN more = 1..(k + 1)
    BY <1>1
  <1>b. \A i \in 1..k : r.nodes[more[i]].quantity = b.nodes[list[i]].quantity
    BY <1>0, <1>1 DEF SameQuantities
  <1>c. \A i \in 1..k : b.nodes[list[i]].quantity \in Int
    BY <1>0 DEF Sized
  <1>4. Sized(r, more)
    <2> SUFFICES ASSUME NEW i \in 1..(k + 1)
                 PROVE  r.nodes[more[i]].quantity \in Int
      BY <1>1, <1>a DEF Sized
    <2>1. CASE i = k + 1
      BY <1>1, <2>1
    <2>2. CASE i # k + 1
      <3>1. i \in 1..k
        BY <1>1, <2>2
      <3> QED BY <1>b, <1>c, <3>1
    <2> QED BY <2>1, <2>2
  <1>5. IsSum(Sizes(r, more), ExactSum(r, new)) /\ Sizes(r, more) \in Seq(Int)
    BY <1>0, <1>4, ExactSumIs
  <1>6. Sizes(r, more) = Append(Sizes(b, list), q)
    <2> DEFINE x == Sizes(r, more)
               y == Sizes(b, list)
               z == Append(y, q)
    <2>1. Len(x) = k + 1 /\ \A i \in 1..(k + 1) : x[i] = r.nodes[more[i]].quantity
      <3>1. Len(x) = Len(more) /\ \A i \in 1..Len(more) : x[i] = r.nodes[more[i]].quantity
        BY <1>4, SizesShape
      <3> QED BY <1>1, <3>1
    <2>2. Len(y) = k /\ \A i \in 1..k : y[i] = b.nodes[list[i]].quantity
      BY SizesShape DEF k
    <2> HIDE DEF y
    <2>3. /\ z \in Seq(Int) /\ Len(z) = k + 1 /\ z[k + 1] = q
          /\ \A i \in 1..k : z[i] = y[i]
      <3>1. y \in Seq(Int) /\ q \in Int
        BY <1>2 DEF y
      <3> QED BY <2>2, <3>1, AppendShape
    <2> HIDE DEF x, z
    <2>4. ASSUME NEW i \in 1..(k + 1)
          PROVE  x[i] = z[i]
      <3>1. CASE i = k + 1
        BY <1>1, <2>1, <2>3, <3>1
      <3>2. CASE i # k + 1
        <4>1. i \in 1..k
          BY <1>1, <3>2
        <4> QED BY <1>b, <2>1, <2>2, <2>3, <4>1
      <3> QED BY <3>1, <3>2
    <2>5. x \in Seq(Int)
      BY <1>5 DEF x
    <2>6. x = z
      BY <2>1, <2>3, <2>4, <2>5, SeqEqual
    <2> QED BY <2>6 DEF x, y, z
  <1>7. IsSum(Sizes(r, more), ExactSum(b, lvl) + q)
    BY <1>2, <1>6, SumAppend
  <1>8. ExactSum(r, new) = ExactSum(b, lvl) + q
    BY <1>5, <1>7, SumUnique
  <1> QED BY <1>3, <1>8 DEF IsMore


(* A list of nodes that reside somewhere holds nodes with quantities. *)
LEMMA LinkedSized ==
  ASSUME NEW b, Sound(b), NEW s, NEW p, NEW list \in Seq(Nodes), ListLinked(b, s, p, list)
  PROVE  Sized(b, list) /\ \A i \in DOMAIN list : b.nodes[list[i]].id \in DOMAIN b.orders
  <1>1. b \in Books /\ NodesLinked(b)
    BY DEF Sound
  <1>2. \A n \in DOMAIN b.nodes : b.nodes[n].quantity \in Quantities
    BY <1>1, BookParts
  <1>3. Quantities \subseteq Int
    BY BookAssumption DEF Quantities
  <1>4. \A i \in DOMAIN list : list[i] \in DOMAIN b.nodes
    BY DEF ListLinked, Resides
  <1>5. \A i \in DOMAIN list : b.nodes[list[i]].quantity \in Int
    BY <1>2, <1>3, <1>4
  <1> QED BY <1>1, <1>4, <1>5 DEF Sized, NodesLinked

(* The lists of a sound book. *)
LEMMA SoundLists ==
  ASSUME NEW b, Sound(b), NEW s \in Sides, NEW p \in DOMAIN b.levels[s]
  PROVE  /\ b.levels[s][p].orders \in Seq(Nodes)
         /\ ListLinked(b, s, p, b.levels[s][p].orders)
         /\ Sized(b, b.levels[s][p].orders)
         /\ LevelSound(b, s, p)
  <1>1. b \in Books /\ ListsLinked(b)
    BY DEF Sound
  <1>2. b.levels[s][p].orders \in Seq(Nodes)
    BY <1>1, BookParts
  <1>3. ListLinked(b, s, p, b.levels[s][p].orders)
    BY <1>1 DEF ListsLinked
  <1>4. LevelSound(b, s, p)
    BY DEF Sound
  <1> QED BY <1>2, <1>3, <1>4, LinkedSized

(* What is true of the level that insert_order finds is true of a new one. *)
LevelForSound(b, side, price, lvl) ==
  /\ lvl.price = price
  /\ lvl.orders \in Seq(Nodes)
  /\ Sized(b, lvl.orders)
  /\ ListLinked(b, side, price, lvl.orders)
  /\ \A i \in DOMAIN lvl.orders : b.nodes[lvl.orders[i]].quantity # 0
  /\ lvl.total = ExactSum(b, lvl) % QuantityRange

(* The level that insert_order finds or makes is sound. *)
LEMMA LevelForIsSound ==
  ASSUME NEW b, Sound(b), NEW side \in Sides, NEW price \in Prices
  PROVE  LevelForSound(b, side, price, LevelFor(b, side, price))
  <1>1. CASE price \in DOMAIN b.levels[side]
    <2>1. LevelFor(b, side, price) = b.levels[side][price]
      BY <1>1 DEF LevelFor
    <2> DEFINE lvl == b.levels[side][price]
    <2>2. /\ lvl.orders \in Seq(Nodes) /\ ListLinked(b, side, price, lvl.orders)
          /\ Sized(b, lvl.orders) /\ LevelSound(b, side, price)
      BY <1>1, SoundLists
    <2>3. /\ lvl.price = price /\ lvl.total = ExactSum(b, lvl) % QuantityRange
          /\ \A i \in DOMAIN lvl.orders : b.nodes[lvl.orders[i]].quantity # 0
      BY <2>2 DEF LevelSound
    <2> HIDE DEF lvl
    <2>4. LevelForSound(b, side, price, lvl)
      BY <2>2, <2>3 DEF LevelForSound
    <2> QED BY <2>1, <2>4 DEF lvl
  <1>2. CASE price \notin DOMAIN b.levels[side]
    <2> DEFINE lvl == [price |-> price, total |-> 0, orders |-> << >>]
    <2>1. LevelFor(b, side, price) = lvl
      BY <1>2 DEF LevelFor
    <2>2. lvl.price = price /\ lvl.total = 0 /\ lvl.orders = << >>
      OBVIOUS
    <2> HIDE DEF lvl
    <2>3. Sized(b, lvl.orders) /\ ListLinked(b, side, price, lvl.orders)
      BY <2>2 DEF Sized, IsInjective, ListLinked
    <2>4. Sizes(b, << >>) = << >>
      BY DEF Sizes
    <2>5. ExactSum(b, lvl) = 0
      <3>1. /\ Sizes(b, lvl.orders) \in Seq(Int)
            /\ IsSum(Sizes(b, lvl.orders), ExactSum(b, lvl))
        BY <2>3, ExactSumIs
      <3>2. IsSum(Sizes(b, lvl.orders), 0)
        BY <2>2, <2>4, SumEmpty
      <3> QED BY <3>1, <3>2, SumUnique
    <2>6. 0 % QuantityRange = 0
      BY BookAssumption
    <2> QED BY <2>1, <2>2, <2>3, <2>5, <2>6 DEF LevelForSound
  <1> QED BY <1>1, <1>2

(* An injective list stays so when a node that it does not have is appended. *)
LEMMA InjectiveAppend ==
  ASSUME NEW T, NEW list \in Seq(T), IsInjective(list), NEW n \in T,
         \A i \in DOMAIN list : list[i] # n
  PROVE  IsInjective(Append(list, n))
  <1> DEFINE more == Append(list, n)
             k == Len(list)
  <1>1. /\ more \in Seq(T) /\ k \in Nat /\ Len(more) = k + 1 /\ more[k + 1] = n
        /\ \A i \in 1..k : more[i] = list[i]
    BY AppendShape
  <1>2. DOMAIN more = 1..(k + 1) /\ DOMAIN list = 1..k
    BY <1>1
  <1> HIDE DEF more, k
  <1>3. ASSUME NEW i \in 1..(k + 1), NEW j \in 1..(k + 1), more[i] = more[j]
        PROVE  i = j
    <2>1. i \in 1..k \/ i = k + 1
      BY <1>1
    <2>2. j \in 1..k \/ j = k + 1
      BY <1>1
    <2> QED BY <1>1, <1>2, <1>3, <2>1, <2>2 DEF IsInjective
  <1>4. IsInjective(more)
    BY <1>2, <1>3 DEF IsInjective
  <1> QED BY <1>4 DEF more


(* A book with an order added is sound. *)
LEMMA AddedSound ==
  ASSUME NEW b, Sound(b), NEW r, NEW id \in Ids, id \notin DOMAIN b.orders,
         NEW side \in Sides, NEW price \in Prices, NEW qty \in Quantities, qty # 0,
         NEW n, Added(b, r, id, side, price, qty, n)
  PROVE  Sound(r)
  <1> DEFINE lvl == LevelFor(b, side, price)
             list == lvl.orders
             k == Len(list)
             more == Append(list, n)
             new == r.levels[side][price]
  <1>1. b \in Books /\ r \in Books /\ OrdersLinked(b) /\ NodesLinked(b)
    BY DEF Sound, Added
  <1>2. Put(b, r, id, side, price, qty, n) /\ Located(b, r, id, side, price, n)
    BY DEF Added
  <1>3. LevelForSound(b, side, price, lvl)
    BY LevelForIsSound
  <1>4. /\ n \in Nodes /\ n \notin DOMAIN b.nodes
        /\ DOMAIN r.nodes = DOMAIN b.nodes \cup {n}
        /\ r.nodes[n].id = id /\ r.nodes[n].quantity = qty
        /\ \A m \in DOMAIN b.nodes : r.nodes[m] = b.nodes[m]
    BY <1>2 DEF Put
  <1>5. /\ price \in DOMAIN r.levels[side]
        /\ new.price = lvl.price /\ new.total = Wrap(lvl.total + qty) /\ new.orders = more
    BY <1>2 DEF Put
  <1>6. OtherLevels(b, r, side, price)
    BY <1>2 DEF Put
  <1>7. /\ DOMAIN r.orders = DOMAIN b.orders \cup {id}
        /\ r.orders[id].side = side /\ r.orders[id].price = price /\ r.orders[id].it = n
        /\ \A other \in DOMAIN b.orders : r.orders[other] = b.orders[other]
    BY <1>2 DEF Located
  <1>8. /\ list \in Seq(Nodes) /\ ListLinked(b, side, price, list) /\ Sized(b, list)
        /\ lvl.price = price
        /\ \A i \in DOMAIN list : b.nodes[list[i]].quantity # 0
        /\ lvl.total = ExactSum(b, lvl) % QuantityRange
    BY <1>3 DEF LevelForSound
  <1> HIDE DEF lvl, new
  <1>9. /\ more \in Seq(Nodes) /\ k \in Nat /\ Len(more) = k + 1 /\ more[k + 1] = n
        /\ \A i \in 1..k : more[i] = list[i]
    BY <1>4, <1>8, AppendShape
  <1>10. DOMAIN list = 1..k
    BY <1>8
  <1> HIDE DEF k, more
  <1>11. DOMAIN more = 1..(k + 1)
    BY <1>9
  <1>12. \A i \in DOMAIN more : i = k + 1 \/ i \in DOMAIN list
    BY <1>9, <1>10, <1>11
  <1>13. \A i \in DOMAIN list : i \in DOMAIN more /\ more[i] = list[i]
    BY <1>9, <1>10, <1>11
  <1>14. k + 1 \in DOMAIN more
    BY <1>9, <1>11
  (* Nodes that were there reside where they did. *)
  <1>15. ASSUME NEW s, NEW p, NEW m, Resides(b, s, p, m)
         PROVE  Resides(r, s, p, m)
    BY <1>1, <1>4, <1>7, <1>15 DEF Resides, NodesLinked
  <1>16. OrdersLinked(r)
    <2> SUFFICES ASSUME NEW o \in DOMAIN r.orders
                 PROVE  OrderLinked(r, o, r.orders[o])
      BY DEF OrdersLinked
    <2>1. CASE o = id
      <3>1. Has(more, n)
        BY <1>9, <1>14 DEF Has
      <3> QED BY <1>4, <1>5, <1>7, <2>1, <3>1 DEF OrderLinked, new
    <2>2. CASE o # id
      <3> DEFINE loc == b.orders[o]
      <3>1. o \in DOMAIN b.orders /\ r.orders[o] = loc
        BY <1>7, <2>2
      <3>2. OrderLinked(b, o, loc)
        BY <1>1, <3>1 DEF OrdersLinked
      <3>3. loc.side \in Sides
        BY <1>1, <3>1, BookParts
      <3> HIDE DEF loc
      <3>4. loc.it \in DOMAIN r.nodes /\ r.nodes[loc.it].id = o
        BY <1>4, <3>2 DEF OrderLinked
      <3>5. CASE loc.side = side /\ loc.price = price
        <4>1. lvl = b.levels[side][price]
          BY <3>2, <3>5 DEF lvl, LevelFor, OrderLinked
        <4>2. Has(list, loc.it)
          BY <3>2, <3>5, <4>1 DEF OrderLinked
        <4>3. Has(more, loc.it)
          BY <1>13, <4>2 DEF Has
        <4> QED BY <1>5, <3>1, <3>4, <3>5, <4>3 DEF OrderLinked, new
      <3>6. CASE ~(loc.side = side /\ loc.price = price)
        <4>1. /\ loc.price \in DOMAIN r.levels[loc.side]
              /\ r.levels[loc.side][loc.price] = b.levels[loc.side][loc.price]
          BY <1>6, <3>2, <3>3, <3>6 DEF OtherLevels, OrderLinked
        <4> QED BY <3>1, <3>2, <3>4, <4>1 DEF OrderLinked
      <3> QED BY <3>5, <3>6
    <2> QED BY <2>1, <2>2
  <1>17. NodesLinked(r)
    BY <1>1, <1>4, <1>7 DEF NodesLinked
  <1>18. ASSUME NEW s \in Sides, NEW p \in DOMAIN r.levels[s], ~(s = side /\ p = price)
         PROVE  ListLinked(r, s, p, r.levels[s][p].orders) /\ LevelSound(r, s, p)
    <2> DEFINE old == b.levels[s][p]
    <2>1. p \in DOMAIN b.levels[s] /\ r.levels[s][p] = b.levels[s][p]
      BY <1>6, <1>18 DEF OtherLevels
    <2>2. /\ ListLinked(b, s, p, old.orders) /\ Sized(b, old.orders)
          /\ LevelSound(b, s, p)
      BY <2>1, SoundLists
    <2>3. SameQuantities(b, r, old.orders)
      <3> HIDE DEF old
      <3> QED BY <1>4, <2>2 DEF SameQuantities, ListLinked, Resides
    <2>4. LevelSound(r, s, p)
      BY <2>1, <2>2, <2>3, LevelSoundKept
    <2>5. ListLinked(r, s, p, old.orders)
      <3> HIDE DEF old
      <3> QED BY <1>15, <2>2 DEF ListLinked
    <2> QED BY <2>1, <2>4, <2>5
  <1>19. ListLinked(r, side, price, more)
    <2>1. \A i \in DOMAIN list : list[i] # n
      BY <1>4, <1>8 DEF ListLinked, Resides
    <2>2. IsInjective(list)
      BY <1>8 DEF ListLinked
    <2>3. IsInjective(more)
      BY <1>4, <1>8, <2>1, <2>2, InjectiveAppend DEF more
    <2>4. Resides(r, side, price, n)
      BY <1>4, <1>7 DEF Resides
    <2>5. \A i \in DOMAIN list : Resides(r, side, price, list[i])
      BY <1>8, <1>15 DEF ListLinked
    <2> QED BY <1>9, <1>12, <1>13, <2>3, <2>4, <2>5 DEF ListLinked
  <1>20. LevelSound(r, side, price)
    <2>1. SameQuantities(b, r, list)
      BY <1>4, <1>8 DEF SameQuantities, ListLinked, Resides
    <2>2. qty \in Int
      BY BookAssumption DEF Quantities
    <2>3. ExactSum(b, lvl) \in Int /\ ExactSum(r, new) = ExactSum(b, lvl) + qty
      <3>1. /\ new.orders = Append(lvl.orders, n) /\ n \in Nodes
            /\ qty \in Int /\ r.nodes[n].quantity = qty
            /\ Sized(b, lvl.orders) /\ SameQuantities(b, r, lvl.orders)
        BY <1>4, <1>5, <1>8, <2>1, <2>2 DEF more
      <3>2. IsMore(ExactSum(b, lvl), ExactSum(r, new), qty)
        BY <3>1, SumAdded
      <3> QED BY <3>2 DEF IsMore
    <2>4. QuantityRange \in Nat /\ QuantityRange > 0
      BY BookAssumption
    <2>5. (ExactSum(b, lvl) + qty) % QuantityRange
            = ((ExactSum(b, lvl) % QuantityRange) + qty) % QuantityRange
      BY <2>2, <2>3, <2>4, ModAdd
    <2>6. ExactSum(r, new) % QuantityRange = new.total
      BY <1>5, <1>8, <2>3, <2>5 DEF Wrap
    <2>7. more # << >>
      BY <1>9
    <2>8. \A i \in DOMAIN list : r.nodes[list[i]].quantity # 0
      BY <1>8, <2>1 DEF SameQuantities
    <2>9. \A i \in DOMAIN more : r.nodes[more[i]].quantity # 0
      BY <1>4, <1>9, <1>12, <1>13, <2>8
    <2> QED BY <1>5, <1>8, <2>6, <2>7, <2>9 DEF LevelSound, new
  <1>21. ListsLinked(r)
    BY <1>5, <1>18, <1>19 DEF ListsLinked, new
  <1>22. \A s \in Sides : \A p \in DOMAIN r.levels[s] : LevelSound(r, s, p)
    BY <1>18, <1>20
  <1> QED BY <1>1, <1>16, <1>17, <1>21, <1>22 DEF Sound


-----------------------------------------------------------------------------
(* erase_order and cancel. *)

(* In a list that has it once, the first occurrence is the only one. *)
LEMMA RemoveFirstIs ==
  ASSUME NEW T, NEW list \in Seq(T), IsInjective(list), NEW k \in DOMAIN list
  PROVE  RemoveFirst(list, list[k]) = RemoveAt(list, k)
  <1> DEFINE I == {i \in 1..Len(list) : list[i] = list[k]}
  <1>1. DOMAIN list = 1..Len(list) /\ Len(list) \in Nat
    OBVIOUS
  <1>2. I = {k}
    BY <1>1 DEF IsInjective
  <1>3. Min({k}) = k
    BY <1>1 DEF Min
  <1>4. SelectInSeq(list, LAMBDA v : v = list[k]) = k
    BY <1>2, <1>3 DEF SelectInSeq
  <1>5. \E i \in 1..Len(list) : list[i] = list[k]
    BY <1>1
  <1> QED BY <1>4, <1>5 DEF RemoveFirst

(* r is b without the node that is the k-th of its level. *)
Taken(b, r, side, price, k) ==
  LET lvl == b.levels[side][price]
      node == lvl.orders[k]
  IN  /\ OtherLevels(b, r, side, price)
      /\ Len(lvl.orders) = 1 => price \notin DOMAIN r.levels[side]
      /\ Len(lvl.orders) # 1 =>
           /\ price \in DOMAIN r.levels[side]
           /\ r.levels[side][price].price = lvl.price
           /\ r.levels[side][price].total = Wrap(lvl.total - b.nodes[node].quantity)
           /\ r.levels[side][price].orders = RemoveAt(lvl.orders, k)
      /\ DOMAIN r.nodes = DOMAIN b.nodes \ {node}
      /\ \A m \in DOMAIN b.nodes : m # node => r.nodes[m] = b.nodes[m]

(* erase_order takes the order out of its level. *)
LEMMA EraseOrderShape ==
  ASSUME NEW b \in Books, NEW side \in Sides, NEW price \in DOMAIN b.levels[side],
         IsInjective(b.levels[side][price].orders),
         NEW k \in DOMAIN b.levels[side][price].orders,
         NEW node, node = b.levels[side][price].orders[k], node \in DOMAIN b.nodes
  PROVE  /\ EraseOrder(b, side, price, node) \in Books
         /\ EraseOrder(b, side, price, node).orders = b.orders
         /\ Taken(b, EraseOrder(b, side, price, node), side, price, k)
  <1> DEFINE r == EraseOrder(b, side, price, node)
             lvl == b.levels[side][price]
             t == Wrap(lvl.total - b.nodes[node].quantity)
             l == RemoveAt(lvl.orders, k)
             left == Relisted(lvl, t, RemoveFirst(lvl.orders, node))
             x == IF left.orders = << >> THEN Erase(b.levels[side], price)
                  ELSE Insert(b.levels[side], price, left)
             y == Erase(b.nodes, node)
  <1>1. /\ lvl \in PriceLevel /\ lvl.total \in Quantities /\ lvl.orders \in Seq(Nodes)
        /\ price \in Prices /\ b.nodes[node].quantity \in Quantities
    BY BookParts
  <1>2. RemoveFirst(lvl.orders, node) = l
    BY <1>1, RemoveFirstIs
  <1>3. t \in Quantities
    <2> DEFINE q == lvl.total
               d == b.nodes[node].quantity
    <2>1. q \in Quantities /\ d \in Quantities
      BY <1>1
    <2> HIDE DEF q, d
    <2>2. q - d \in Int
      BY <2>1, QuantityInt
    <2>3. Wrap(q - d) \in Quantities
      BY <2>2, WrapType
    <2> QED BY <2>3 DEF q, d
  <1>4. l \in Seq(Nodes) /\ Len(l) = Len(lvl.orders) - 1 /\ Len(lvl.orders) \in Nat
    <2>1. k \in 1..Len(lvl.orders) /\ Len(lvl.orders) \in Nat
      <3> HIDE DEF lvl
      <3>1. k \in DOMAIN lvl.orders
        BY DEF lvl
      <3> QED BY <1>1, <3>1
    <2> HIDE DEF lvl
    <2> QED BY <1>1, <2>1, RemoveAtShape
  <1>5. r = Rebuilt(b, side, x, y)
    BY DEF EraseOrder, Emptied, Rebuilt, Relisted
  <1> HIDE DEF t, l, lvl
  <1>6. /\ left \in PriceLevel
        /\ left.price = lvl.price /\ left.total = t /\ left.orders = l
    BY <1>1, <1>2, <1>3, <1>4, RelistedShape DEF IsRelisted
  <1>7. left.orders = << >> <=> Len(lvl.orders) = 1
    <2>1. l = << >> <=> Len(l) = 0
      BY <1>4, EmptySeq
    <2>2. Len(l) = 0 <=> Len(lvl.orders) = 1
      BY <1>4
    <2> HIDE DEF left
    <2> QED BY <1>6, <2>1, <2>2
  <1> HIDE DEF left
  <1>8. /\ b.levels[side] \in PartialFunctions(Prices, PriceLevel)
        /\ b.nodes \in PartialFunctions(Nodes, RestingOrder)
    BY BookParts
  <1>9. Len(lvl.orders) # 1 => IsInsert(x, b.levels[side], price, left, Prices, PriceLevel)
    BY <1>1, <1>6, <1>7, <1>8, InsertShape
  <1>10. Len(lvl.orders) = 1 => IsErase(x, b.levels[side], price, Prices, PriceLevel)
    BY <1>7, <1>8, EraseShape
  <1>11. IsErase(y, b.nodes, node, Nodes, RestingOrder)
    BY <1>8, EraseShape
  <1> HIDE DEF x, y, r
  <1>12. /\ r \in Books
         /\ \A s \in Sides : s # side => r.levels[s] = b.levels[s]
         /\ r.levels[side] = x
         /\ r.nodes = y /\ r.orders = b.orders
    <2>1. /\ x \in PartialFunctions(Prices, PriceLevel)
          /\ y \in PartialFunctions(Nodes, RestingOrder)
      BY <1>9, <1>10, <1>11 DEF IsInsert, IsErase
    <2> QED BY <1>5, <2>1, RebuiltShape DEF IsRebuilt
  <1>13. OtherLevels(b, r, side, price)
    <2>1. CASE Len(lvl.orders) = 1
      BY <1>10, <1>12, <2>1 DEF OtherLevels, IsErase
    <2>2. CASE Len(lvl.orders) # 1
      BY <1>9, <1>12, <2>2 DEF OtherLevels, IsInsert
    <2> QED BY <2>1, <2>2
  <1>14. Len(lvl.orders) = 1 => price \notin DOMAIN r.levels[side]
    BY <1>10, <1>12 DEF IsErase
  <1>15. Len(lvl.orders) # 1 =>
           /\ price \in DOMAIN r.levels[side]
           /\ r.levels[side][price].price = lvl.price
           /\ r.levels[side][price].total = t
           /\ r.levels[side][price].orders = l
    BY <1>6, <1>9, <1>12 DEF IsInsert
  <1>16. /\ DOMAIN r.nodes = DOMAIN b.nodes \ {node}
         /\ \A m \in DOMAIN b.nodes : m # node => r.nodes[m] = b.nodes[m]
    BY <1>11, <1>12 DEF IsErase
  <1>17. Taken(b, r, side, price, k)
    BY <1>13, <1>14, <1>15, <1>16 DEF Taken, t, l, lvl
  <1> QED BY <1>12, <1>17 DEF r


(* A list without its k-th node adds up to that much less. *)
LEMMA SumRemoved ==
  ASSUME NEW b, NEW lvl, Sized(b, lvl.orders), NEW k \in DOMAIN lvl.orders,
         NEW r, NEW new, new.orders = RemoveAt(lvl.orders, k),
         NEW q, b.nodes[lvl.orders[k]].quantity = q,
         SameQuantities(b, r, new.orders)
  PROVE  IsMore(ExactSum(r, new), ExactSum(b, lvl), q)
  <1> DEFINE list == lvl.orders
             n == Len(list)
             less == RemoveAt(list, k)
  <1>1. list \in Seq(Nodes) /\ DOMAIN list = 1..n /\ n \in Nat /\ k \in 1..n /\ q \in Int
    BY DEF Sized
  <1>2. new.orders = less
    OBVIOUS
  <1>3. /\ less \in Seq(Nodes) /\ Len(less) = n - 1
        /\ \A i \in 1..(n - 1) : less[i] = IF i < k THEN list[i] ELSE list[i + 1]
    BY <1>1, RemoveAtShape
  <1>4. \A i \in 1..n : b.nodes[list[i]].quantity \in Int
    BY <1>1 DEF Sized
  <1>5. /\ Sizes(b, list) \in Seq(Int)
        /\ IsSum(Sizes(b, list), ExactSum(b, lvl))
    BY ExactSumIs
  <1>6. Len(Sizes(b, list)) = n /\ \A i \in 1..n : Sizes(b, list)[i] = b.nodes[list[i]].quantity
    BY SizesShape
  <1> HIDE DEF n, less, list
  <1>7. DOMAIN less = 1..(n - 1)
    BY <1>3
  <1>8. ASSUME NEW i \in 1..(n - 1)
        PROVE  /\ i \in 1..n /\ i + 1 \in 1..n
               /\ r.nodes[less[i]].quantity = b.nodes[less[i]].quantity
               /\ r.nodes[less[i]].quantity =
                    IF i < k THEN b.nodes[list[i]].quantity ELSE b.nodes[list[i + 1]].quantity
    <2>1. i \in 1..n /\ i + 1 \in 1..n
      BY <1>1
    <2>2. r.nodes[less[i]].quantity = b.nodes[less[i]].quantity
      BY <1>2, <1>7 DEF SameQuantities
    <2> QED BY <1>3, <2>1, <2>2
  <1>9. Sized(r, less)
    BY <1>3, <1>4, <1>7, <1>8 DEF Sized
  <1>10. IsSum(Sizes(r, less), ExactSum(r, new)) /\ Sizes(r, less) \in Seq(Int)
    BY <1>2, <1>9, ExactSumIs
  <1> DEFINE x == Sizes(r, less)
             y == Sizes(b, list)
             z == RemoveAt(y, k)
  <1>11. /\ Len(x) = Len(less)
         /\ \A i \in 1..Len(less) : x[i] = r.nodes[less[i]].quantity
    BY <1>9, SizesShape
  <1>12. /\ y \in Seq(Int) /\ Len(y) = n /\ k \in 1..Len(y) /\ y[k] = q
         /\ \A i \in 1..n : y[i] = b.nodes[list[i]].quantity
    BY <1>1, <1>5, <1>6 DEF list
  <1> HIDE DEF y
  <1>13. /\ z \in Seq(Int) /\ Len(z) = n - 1
         /\ \A i \in 1..(n - 1) : z[i] = IF i < k THEN y[i] ELSE y[i + 1]
    BY <1>12, RemoveAtShape
  <1> HIDE DEF x, z
  <1>14. ASSUME NEW i \in 1..(n - 1)
         PROVE  x[i] = z[i]
    <2>1. x[i] = r.nodes[less[i]].quantity
      BY <1>3, <1>11
    <2>2. i \in 1..n /\ i + 1 \in 1..n
      BY <1>8
    <2>3. y[i] = b.nodes[list[i]].quantity /\ y[i + 1] = b.nodes[list[i + 1]].quantity
      BY <1>12, <2>2
    <2> QED BY <1>8, <1>13, <2>1, <2>3
  <1>15. x = z
    BY <1>3, <1>10, <1>11, <1>13, <1>14, SeqEqual DEF x
  <1>16. IsSum(z, ExactSum(b, lvl) - y[k])
    <2>1. IsSum(y, ExactSum(b, lvl))
      BY <1>5 DEF y
    <2> QED BY <1>12, <2>1, SumRemoveAt DEF z
  <1>17. ExactSum(r, new) = ExactSum(b, lvl) - q /\ ExactSum(r, new) \in Int
    BY <1>10, <1>12, <1>15, <1>16, SumUnique DEF x
  <1>18. ExactSum(b, lvl) \in Int
    BY <1>5, SumUnique
  <1> QED BY <1>1, <1>17, <1>18 DEF IsMore

(* An injective list stays so when a node is taken out, which it then lacks. *)
LEMMA InjectiveRemoveAt ==
  ASSUME NEW T, NEW list \in Seq(T), IsInjective(list), NEW k \in DOMAIN list
  PROVE  /\ IsInjective(RemoveAt(list, k))
         /\ \A i \in DOMAIN RemoveAt(list, k) :
              \E j \in DOMAIN list : j # k /\ list[j] = RemoveAt(list, k)[i]
         /\ \A j \in DOMAIN list : j # k => Has(RemoveAt(list, k), list[j])
  <1> DEFINE n == Len(list)
             less == RemoveAt(list, k)
  <1>1. DOMAIN list = 1..n /\ n \in Nat /\ k \in 1..n
    OBVIOUS
  <1>2. /\ less \in Seq(T) /\ Len(less) = n - 1
        /\ \A i \in 1..(n - 1) : less[i] = IF i < k THEN list[i] ELSE list[i + 1]
    BY <1>1, RemoveAtShape
  <1> HIDE DEF n, less
  <1>3. DOMAIN less = 1..(n - 1)
    BY <1>2
  <1>4. ASSUME NEW i \in 1..(n - 1)
        PROVE  /\ i \in 1..n /\ i + 1 \in 1..n
               /\ i < k => less[i] = list[i]
               /\ ~(i < k) => less[i] = list[i + 1]
    BY <1>1, <1>2
  <1>5. IsInjective(less)
    <2> SUFFICES ASSUME NEW i \in 1..(n - 1), NEW j \in 1..(n - 1), less[i] = less[j]
                 PROVE  i = j
      BY <1>3 DEF IsInjective
    <2>1. \A a, c \in 1..n : list[a] = list[c] => a = c
      BY <1>1 DEF IsInjective
    <2>2. i \in Int /\ j \in Int /\ k \in Int
      BY <1>1
    <2>3. CASE i < k /\ j < k
      BY <1>4, <2>1, <2>3
    <2>4. CASE i < k /\ ~(j < k)
      <3>1. i = j + 1
        BY <1>4, <2>1, <2>4
      <3> QED BY <2>2, <2>4, <3>1
    <2>5. CASE ~(i < k) /\ j < k
      <3>1. i + 1 = j
        BY <1>4, <2>1, <2>5
      <3> QED BY <2>2, <2>5, <3>1
    <2>6. CASE ~(i < k) /\ ~(j < k)
      <3>1. i + 1 = j + 1
        BY <1>4, <2>1, <2>6
      <3> QED BY <2>2, <3>1
    <2> QED BY <2>3, <2>4, <2>5, <2>6
  <1>6. ASSUME NEW i \in DOMAIN less
        PROVE  \E j \in DOMAIN list : j # k /\ list[j] = less[i]
    <2>1. i \in 1..(n - 1) /\ i \in Int /\ k \in Int
      BY <1>1, <1>3
    <2>2. CASE i < k
      <3>1. i # k /\ i \in DOMAIN list /\ list[i] = less[i]
        BY <1>1, <1>4, <2>1, <2>2
      <3> QED BY <3>1
    <2>3. CASE ~(i < k)
      <3>1. i + 1 # k /\ i + 1 \in DOMAIN list /\ list[i + 1] = less[i]
        BY <1>1, <1>4, <2>1, <2>3
      <3> QED BY <3>1
    <2> QED BY <2>2, <2>3
  <1>7. ASSUME NEW j \in DOMAIN list, j # k
        PROVE  Has(less, list[j])
    <2>1. j \in 1..n /\ j \in Int /\ k \in Int
      BY <1>1
    <2>2. CASE j < k
      <3>1. j \in 1..(n - 1)
        BY <1>1, <2>1, <2>2
      <3> QED BY <1>3, <1>4, <2>2, <3>1 DEF Has
    <2>3. CASE ~(j < k)
      <3>1. j - 1 \in 1..(n - 1) /\ ~(j - 1 < k) /\ (j - 1) + 1 = j
        BY <1>1, <1>7, <2>1, <2>3
      <3>2. less[j - 1] = list[j]
        BY <1>4, <3>1
      <3> QED BY <1>3, <3>1, <3>2 DEF Has
    <2> QED BY <2>2, <2>3
  <1> QED BY <1>5, <1>6, <1>7 DEF less


(* r has the locators of b but that of id. *)
Unlocated(b, r, id) ==
  /\ DOMAIN r.orders = DOMAIN b.orders \ {id}
  /\ \A other \in DOMAIN b.orders : other # id => r.orders[other] = b.orders[other]

(* r is b without the order id, the k-th of its level. *)
Removed(b, r, id, k) ==
  /\ r \in Books
  /\ Taken(b, r, b.orders[id].side, b.orders[id].price, k)
  /\ Unlocated(b, r, id)

(* The order is the k-th of the level that its locator names. *)
IsKth(b, id, loc, k) ==
  LET list == b.levels[loc.side][loc.price].orders
  IN  /\ loc = b.orders[id]
      /\ loc.side \in Sides /\ loc.price \in Prices
      /\ loc.price \in DOMAIN b.levels[loc.side]
      /\ list \in Seq(Nodes)
      /\ ListLinked(b, loc.side, loc.price, list) /\ Sized(b, list)
      /\ LevelSound(b, loc.side, loc.price)
      /\ k \in DOMAIN list /\ list[k] = loc.it
      /\ loc.it \in DOMAIN b.nodes /\ b.nodes[loc.it].id = id

(* Every order of a sound book has its place. *)
LEMMA OrderPlace ==
  ASSUME NEW b, Sound(b), NEW id \in DOMAIN b.orders
  PROVE  \E k : IsKth(b, id, b.orders[id], k)
  <1> DEFINE loc == b.orders[id]
             list == b.levels[loc.side][loc.price].orders
  <1>1. b \in Books /\ OrderLinked(b, id, loc)
    BY DEF Sound, OrdersLinked
  <1>2. loc.side \in Sides /\ loc.price \in Prices
    BY <1>1, BookParts
  <1>3. /\ loc.price \in DOMAIN b.levels[loc.side] /\ Has(list, loc.it)
        /\ loc.it \in DOMAIN b.nodes /\ b.nodes[loc.it].id = id
    BY <1>1 DEF OrderLinked
  <1>4. /\ list \in Seq(Nodes)
        /\ ListLinked(b, loc.side, loc.price, list) /\ Sized(b, list)
        /\ LevelSound(b, loc.side, loc.price)
    BY <1>2, <1>3, SoundLists
  <1>5. PICK k \in DOMAIN list : list[k] = loc.it
    BY <1>3 DEF Has
  <1>6. IsKth(b, id, loc, k)
    BY <1>2, <1>3, <1>4, <1>5 DEF IsKth
  <1> QED BY <1>6

(* A book with an order removed is sound. *)
LEMMA RemovedSound ==
  ASSUME NEW b, Sound(b), NEW r, NEW id \in DOMAIN b.orders,
         NEW k, IsKth(b, id, b.orders[id], k), Removed(b, r, id, k)
  PROVE  Sound(r)
  <1> DEFINE loc == b.orders[id]
             side == loc.side
             price == loc.price
             node == loc.it
             lvl == b.levels[side][price]
             list == lvl.orders
             less == RemoveAt(list, k)
             new == r.levels[side][price]
  <1>1. b \in Books /\ r \in Books /\ OrdersLinked(b) /\ NodesLinked(b)
    BY DEF Sound, Removed
  <1>2. /\ side \in Sides /\ price \in DOMAIN b.levels[side]
        /\ list \in Seq(Nodes) /\ ListLinked(b, side, price, list) /\ Sized(b, list)
        /\ LevelSound(b, side, price)
        /\ k \in DOMAIN list /\ list[k] = node
        /\ node \in DOMAIN b.nodes /\ b.nodes[node].id = id
    BY DEF IsKth
  <1>3. /\ OtherLevels(b, r, side, price)
        /\ Len(list) = 1 => price \notin DOMAIN r.levels[side]
        /\ Len(list) # 1 =>
             /\ price \in DOMAIN r.levels[side]
             /\ new.price = lvl.price
             /\ new.total = Wrap(lvl.total - b.nodes[node].quantity)
             /\ new.orders = less
        /\ DOMAIN r.nodes = DOMAIN b.nodes \ {node}
        /\ \A m \in DOMAIN b.nodes : m # node => r.nodes[m] = b.nodes[m]
    BY <1>2 DEF Removed, Taken
  <1>4. /\ DOMAIN r.orders = DOMAIN b.orders \ {id}
        /\ \A other \in DOMAIN b.orders : other # id => r.orders[other] = b.orders[other]
    BY DEF Removed, Unlocated
  <1>5. loc = b.orders[id]
    OBVIOUS
  <1> HIDE DEF loc, new
  (* A node that is not the order's resides where it did. *)
  <1>6. ASSUME NEW s, NEW p, NEW m, Resides(b, s, p, m), m # node
        PROVE  Resides(r, s, p, m) /\ r.nodes[m] = b.nodes[m]
    <2>1. m \in DOMAIN r.nodes /\ r.nodes[m] = b.nodes[m]
      BY <1>3, <1>6 DEF Resides
    <2>2. b.nodes[m].id \in DOMAIN b.orders /\ b.nodes[m].id # id
      BY <1>1, <1>5, <1>6 DEF Resides, NodesLinked
    <2> QED BY <1>4, <1>6, <2>1, <2>2 DEF Resides
  <1>7. /\ IsInjective(less)
        /\ \A i \in DOMAIN less : \E j \in DOMAIN list : j # k /\ list[j] = less[i]
        /\ \A j \in DOMAIN list : j # k => Has(less, list[j])
    <2>1. IsInjective(list)
      BY <1>2 DEF ListLinked
    <2> HIDE DEF list
    <2> QED BY <1>2, <2>1, InjectiveRemoveAt
  <1>8. /\ less \in Seq(Nodes) /\ Len(less) = Len(list) - 1 /\ Len(list) \in Nat
        /\ k \in 1..Len(list)
    <2>1. k \in 1..Len(list) /\ Len(list) \in Nat
      <3> HIDE DEF list
      <3> QED BY <1>2
    <2> HIDE DEF list
    <2> QED BY <1>2, <2>1, RemoveAtShape
  <1>9. \A j \in DOMAIN list : j # k => list[j] # node /\ Resides(b, side, price, list[j])
    <2> HIDE DEF list
    <2> QED BY <1>2 DEF ListLinked, IsInjective
  <1> HIDE DEF list, less, side, price, node
  (* An order that is left is in its list as before. *)
  <1>10. OrdersLinked(r)
    <2> SUFFICES ASSUME NEW o \in DOMAIN r.orders
                 PROVE  OrderLinked(r, o, r.orders[o])
      BY DEF OrdersLinked
    <2> DEFINE at == b.orders[o]
    <2>1. o \in DOMAIN b.orders /\ o # id /\ r.orders[o] = at
      BY <1>4
    <2>2. OrderLinked(b, o, at)
      BY <1>1, <2>1 DEF OrdersLinked
    <2>3. at.side \in Sides
      BY <1>1, <2>1, BookParts
    <2> HIDE DEF at
    <2>4. at.it # node /\ at.it \in DOMAIN r.nodes /\ r.nodes[at.it].id = o
      BY <1>2, <1>3, <2>1, <2>2 DEF OrderLinked
    <2>5. CASE at.side = side /\ at.price = price
      <3>1. Has(list, at.it)
        BY <2>2, <2>5 DEF OrderLinked, list
      <3>2. Has(less, at.it)
        BY <1>2, <1>7, <2>4, <3>1 DEF Has
      <3>3. Len(list) # 1
        <4>1. Len(less) # 0
          BY <1>8, <3>2 DEF Has
        <4> QED BY <1>8, <4>1
      <3> QED BY <1>3, <2>1, <2>4, <2>5, <3>2, <3>3 DEF OrderLinked, new
    <2>6. CASE ~(at.side = side /\ at.price = price)
      <3>1. /\ at.price \in DOMAIN r.levels[at.side]
            /\ r.levels[at.side][at.price] = b.levels[at.side][at.price]
        BY <1>3, <2>2, <2>3, <2>6 DEF OtherLevels, OrderLinked
      <3> QED BY <2>1, <2>2, <2>4, <3>1 DEF OrderLinked
    <2> QED BY <2>5, <2>6
  <1>11. NodesLinked(r)
    <2> SUFFICES ASSUME NEW m \in DOMAIN r.nodes
                 PROVE  r.nodes[m].id \in DOMAIN r.orders /\ r.orders[r.nodes[m].id].it = m
      BY DEF NodesLinked
    <2>1. m \in DOMAIN b.nodes /\ m # node /\ r.nodes[m] = b.nodes[m]
      BY <1>3
    <2>2. b.nodes[m].id \in DOMAIN b.orders /\ b.orders[b.nodes[m].id].it = m
      BY <1>1, <2>1 DEF NodesLinked
    <2>3. b.nodes[m].id # id
      BY <1>5, <2>1, <2>2 DEF node
    <2> QED BY <1>4, <2>1, <2>2, <2>3
  <1>12. ASSUME NEW s \in Sides, NEW p \in DOMAIN r.levels[s], ~(s = side /\ p = price)
         PROVE  ListLinked(r, s, p, r.levels[s][p].orders) /\ LevelSound(r, s, p)
    <2> DEFINE old == b.levels[s][p].orders
    <2>1. p \in DOMAIN b.levels[s] /\ r.levels[s][p] = b.levels[s][p]
      BY <1>3, <1>12 DEF OtherLevels
    <2>2. ListLinked(b, s, p, old) /\ Sized(b, old) /\ LevelSound(b, s, p)
      BY <2>1, SoundLists
    <2> HIDE DEF old
    <2>3. \A i \in DOMAIN old : Resides(b, s, p, old[i]) /\ old[i] # node
      <3> SUFFICES ASSUME NEW i \in DOMAIN old
                   PROVE  Resides(b, s, p, old[i]) /\ old[i] # node
        OBVIOUS
      <3>1. Resides(b, s, p, old[i])
        BY <2>2 DEF ListLinked
      <3>2. ASSUME old[i] = node
            PROVE  FALSE
        BY <1>2, <1>5, <1>12, <3>1, <3>2 DEF Resides, side, price
      <3> QED BY <3>1, <3>2
    <2>4. \A i \in DOMAIN old : Resides(r, s, p, old[i]) /\ r.nodes[old[i]] = b.nodes[old[i]]
      BY <1>6, <2>3
    <2>5. ListLinked(r, s, p, old)
      BY <2>2, <2>4 DEF ListLinked
    <2>6. SameQuantities(b, r, old)
      BY <2>4 DEF SameQuantities
    <2>7. LevelSound(r, s, p)
      BY <2>1, <2>2, <2>6, LevelSoundKept DEF old
    <2> QED BY <2>1, <2>5, <2>7 DEF old
  <1>13. ASSUME Len(list) # 1
         PROVE  ListLinked(r, side, price, less) /\ LevelSound(r, side, price)
    <2>1. \A i \in DOMAIN less :
            Resides(r, side, price, less[i]) /\ r.nodes[less[i]] = b.nodes[less[i]]
      <3> SUFFICES ASSUME NEW i \in DOMAIN less
                   PROVE  Resides(r, side, price, less[i]) /\ r.nodes[less[i]] = b.nodes[less[i]]
        OBVIOUS
      <3>1. PICK j \in DOMAIN list : j # k /\ list[j] = less[i]
        BY <1>7
      <3>2. less[i] # node /\ Resides(b, side, price, less[i])
        BY <1>9, <3>1
      <3> QED BY <1>6, <3>2
    <2>2. ListLinked(r, side, price, less)
      BY <1>7, <2>1 DEF ListLinked
    <2>3. SameQuantities(b, r, less)
      BY <2>1 DEF SameQuantities
    <2> DEFINE q == b.nodes[node].quantity
    <2>4. /\ new.orders = less /\ new.price = lvl.price /\ new.total = Wrap(lvl.total - q)
          /\ lvl.orders = list
      BY <1>3, <1>13 DEF list
    <2>5. q \in Int
      BY <1>2 DEF Sized
    <2>6. IsMore(ExactSum(r, new), ExactSum(b, lvl), q)
      <3>1. /\ Sized(b, lvl.orders) /\ k \in DOMAIN lvl.orders
            /\ new.orders = RemoveAt(lvl.orders, k) /\ b.nodes[lvl.orders[k]].quantity = q
            /\ SameQuantities(b, r, new.orders)
        BY <1>2, <2>3, <2>4 DEF less
      <3> HIDE DEF lvl, q
      <3> QED BY <3>1, SumRemoved
    <2>7. /\ lvl.price = price
          /\ \A i \in DOMAIN list : b.nodes[list[i]].quantity # 0
          /\ ExactSum(b, lvl) % QuantityRange = lvl.total
      BY <1>2, <2>4 DEF LevelSound
    <2> HIDE DEF lvl, q
    <2>8. ExactSum(r, new) % QuantityRange = new.total
      <3> DEFINE e == ExactSum(b, lvl)
                 f == ExactSum(r, new)
      <3>1. f \in Int /\ e = f + q
        BY <2>6 DEF IsMore
      <3> HIDE DEF e, f
      <3>2. e \in Int /\ f = e + (-q) /\ -q \in Int
        BY <2>5, <3>1
      <3>3. QuantityRange \in Nat /\ QuantityRange > 0
        BY BookAssumption
      <3>4. (e + (-q)) % QuantityRange = ((e % QuantityRange) + (-q)) % QuantityRange
        BY <3>2, <3>3, ModAdd
      <3>5. e % QuantityRange \in Int /\ (e % QuantityRange) + (-q) = (e % QuantityRange) - q
        BY <2>5, <3>2, <3>3
      <3>6. new.total = ((e % QuantityRange) - q) % QuantityRange
        BY <2>4, <2>7 DEF Wrap, e
      <3> QED BY <3>2, <3>4, <3>5, <3>6 DEF f
    <2>9. less # << >>
      <3>1. Len(less) # 0
        BY <1>8, <1>13
      <3> QED BY <3>1, <1>8
    <2>10. \A i \in DOMAIN less : r.nodes[less[i]].quantity # 0
      BY <1>7, <2>1, <2>7
    <2>11. LevelSound(r, side, price)
      BY <2>4, <2>7, <2>8, <2>9, <2>10 DEF LevelSound, new
    <2> QED BY <2>2, <2>11
  <1>14. ASSUME NEW s \in Sides, NEW p \in DOMAIN r.levels[s]
         PROVE  ListLinked(r, s, p, r.levels[s][p].orders) /\ LevelSound(r, s, p)
    <2>1. CASE s = side /\ p = price
      BY <1>3, <1>13, <1>14, <2>1 DEF new
    <2>2. CASE ~(s = side /\ p = price)
      BY <1>12, <2>2
    <2> QED BY <2>1, <2>2
  <1> QED BY <1>1, <1>10, <1>11, <1>14 DEF Sound, ListsLinked

(* cancel, when the order rests. *)
LEMMA CancelShape ==
  ASSUME NEW b, Sound(b), NEW id \in DOMAIN b.orders, NEW k, IsKth(b, id, b.orders[id], k)
  PROVE  /\ Cancel(b, id).ret = TRUE
         /\ Removed(b, Cancel(b, id).book, id, k)
         /\ LET gone == EraseOrder(b, b.orders[id].side, b.orders[id].price, b.orders[id].it)
            IN  /\ gone \in Books /\ gone.orders = b.orders
                /\ Cancel(b, id).book.levels = gone.levels
                /\ Cancel(b, id).book.nodes = gone.nodes
  <1> DEFINE loc == b.orders[id]
             r1 == EraseOrder(b, loc.side, loc.price, loc.it)
             x == Erase(r1.orders, id)
             r == Reindexed(r1, x)
  <1>1. /\ b \in Books /\ loc.side \in Sides /\ loc.price \in DOMAIN b.levels[loc.side]
        /\ IsInjective(b.levels[loc.side][loc.price].orders)
        /\ k \in DOMAIN b.levels[loc.side][loc.price].orders
        /\ loc.it = b.levels[loc.side][loc.price].orders[k] /\ loc.it \in DOMAIN b.nodes
    BY DEF Sound, IsKth, ListLinked
  <1>2. Cancel(b, id) = Ok(r)
    BY DEF Cancel, Reindexed
  <1> HIDE DEF loc
  <1>3. /\ r1 \in Books /\ r1.orders = b.orders
        /\ Taken(b, r1, loc.side, loc.price, k)
    BY <1>1, EraseOrderShape
  <1> HIDE DEF r1
  <1>4. IsErase(x, b.orders, id, Ids, OrderLocation)
    <2>1. b.orders \in PartialFunctions(Ids, OrderLocation)
      BY <1>1, BookParts
    <2> QED BY <1>3, <2>1, EraseShape
  <1> HIDE DEF x
  <1>5. r \in Books /\ r.levels = r1.levels /\ r.nodes = r1.nodes /\ r.orders = x
    <2>1. x \in PartialFunctions(Ids, OrderLocation)
      BY <1>4 DEF IsErase
    <2> QED BY <1>3, <2>1, ReindexedShape DEF IsReindexed
  <1> HIDE DEF r
  <1>6. Taken(b, r, loc.side, loc.price, k)
    BY <1>3, <1>5 DEF Taken, OtherLevels
  <1>7. Unlocated(b, r, id)
    BY <1>4, <1>5 DEF Unlocated, IsErase
  <1>8. Cancel(b, id).ret = TRUE /\ Cancel(b, id).book = r
    BY <1>2 DEF Ok
  <1> QED BY <1>3, <1>5, <1>6, <1>7, <1>8 DEF Removed, loc, r1


-----------------------------------------------------------------------------
(* The size reduction of modify and execute. *)

(* r is b with another quantity of the order id. *)
Resized(b, r, id, qty) ==
  LET loc == b.orders[id]
      lvl == b.levels[loc.side][loc.price]
  IN  /\ r \in Books
      /\ r.orders = b.orders
      /\ DOMAIN r.nodes = DOMAIN b.nodes
      /\ r.nodes[loc.it].id = b.nodes[loc.it].id /\ r.nodes[loc.it].quantity = qty
      /\ \A m \in DOMAIN b.nodes : m # loc.it => r.nodes[m] = b.nodes[m]
      /\ OtherLevels(b, r, loc.side, loc.price)
      /\ loc.price \in DOMAIN r.levels[loc.side]
      /\ r.levels[loc.side][loc.price].price = lvl.price
      /\ r.levels[loc.side][loc.price].total = Wrap(lvl.total - (b.nodes[loc.it].quantity - qty))
      /\ r.levels[loc.side][loc.price].orders = lvl.orders

(* The reduction changes the one quantity and the one aggregate. *)
LEMMA ReduceShape ==
  ASSUME NEW b, Sound(b), NEW id \in DOMAIN b.orders,
         NEW k, IsKth(b, id, b.orders[id], k), NEW delta \in Quantities,
         delta <= b.nodes[b.orders[id].it].quantity
  PROVE  Resized(b, Reduce(b, b.orders[id], delta), id,
                 b.nodes[b.orders[id].it].quantity - delta)
  <1> DEFINE loc == b.orders[id]
             side == loc.side
             price == loc.price
             it == loc.it
             lvl == b.levels[side][price]
             old == b.nodes[it].quantity
             q == Wrap(old - delta)
             t == Wrap(lvl.total - delta)
             r == Reduce(b, loc, delta)
             x == [b.levels EXCEPT ![side][price].total = t]
             y == [b.nodes EXCEPT ![it].quantity = q]
  <1>1. /\ b \in Books /\ side \in Sides /\ price \in DOMAIN b.levels[side]
        /\ it \in DOMAIN b.nodes
    BY DEF Sound, IsKth
  <1>2. /\ old \in Quantities /\ lvl.total \in Quantities
        /\ lvl \in PriceLevel /\ b.nodes[it] \in RestingOrder
    BY <1>1, BookParts
  <1>3. r = [b EXCEPT !.nodes[it].quantity = q, !.levels[side][price].total = t]
    BY DEF Reduce
  <1>4. delta <= old
    OBVIOUS
  <1>5. loc = b.orders[id]
    OBVIOUS
  <1> HIDE DEF loc, r
  <1>6. r = [levels |-> x, orders |-> b.orders, nodes |-> y]
    <2> HIDE DEF side, price, it, q, t
    <2> QED BY <1>1, <1>3 DEF Books
  <1>7. old - delta \in Int /\ old - delta \in Quantities /\ lvl.total - delta \in Int
    <2> HIDE DEF old, lvl
    <2> QED BY <1>2, <1>4, BookAssumption DEF Quantities
  <1>8. q \in Quantities /\ t \in Quantities
    BY <1>7, WrapType
  <1>9. q = old - delta
    <2> HIDE DEF old
    <2> QED BY <1>7, BookAssumption DEF Wrap, Quantities
  <1>10. /\ b.levels \in [Sides -> PartialFunctions(Prices, PriceLevel)]
         /\ b.orders \in PartialFunctions(Ids, OrderLocation)
         /\ b.nodes \in PartialFunctions(Nodes, RestingOrder)
    BY <1>1, BookParts
  <1> HIDE DEF q, t, side, price, it
  <1>11. /\ y \in PartialFunctions(Nodes, RestingOrder)
         /\ DOMAIN y = DOMAIN b.nodes
         /\ y[it].id = b.nodes[it].id /\ y[it].quantity = q
         /\ \A m \in DOMAIN b.nodes : m # it => y[m] = b.nodes[m]
    <2>1. b.nodes \in [DOMAIN b.nodes -> RestingOrder] /\ DOMAIN b.nodes \subseteq Nodes
      BY <1>10, PartialFunction
    <2>2. /\ [b.nodes[it] EXCEPT !.quantity = q] \in RestingOrder
          /\ [b.nodes[it] EXCEPT !.quantity = q].id = b.nodes[it].id
          /\ [b.nodes[it] EXCEPT !.quantity = q].quantity = q
      BY <1>2, <1>8 DEF RestingOrder
    <2>3. y \in [DOMAIN b.nodes -> RestingOrder] /\ DOMAIN y = DOMAIN b.nodes
      BY <1>1, <2>1, <2>2
    <2>4. y \in PartialFunctions(Nodes, RestingOrder)
      BY <2>1, <2>3 DEF PartialFunctions
    <2>5. y[it] = [b.nodes[it] EXCEPT !.quantity = q]
      BY <1>1, <2>1
    <2>6. \A m \in DOMAIN b.nodes : m # it => y[m] = b.nodes[m]
      BY <2>1
    <2> HIDE DEF y
    <2> QED BY <2>2, <2>3, <2>4, <2>5, <2>6
  <1> DEFINE new == [lvl EXCEPT !.total = t]
             z == [b.levels[side] EXCEPT ![price] = new]
  <1>12. /\ new \in PriceLevel /\ new.price = lvl.price /\ new.total = t
         /\ new.orders = lvl.orders
    <2> HIDE DEF lvl
    <2>1. new \in PriceLevel
      BY <1>2, <1>8 DEF PriceLevel
    <2>2. new.price = lvl.price /\ new.total = t /\ new.orders = lvl.orders
      BY <1>2, <1>8 DEF PriceLevel
    <2> QED BY <2>1, <2>2
  <1>13. x = [b.levels EXCEPT ![side] = z]
    BY <1>1, <1>10
  <1> HIDE DEF new, lvl, x
  <1>14. /\ z \in PartialFunctions(Prices, PriceLevel)
         /\ DOMAIN z = DOMAIN b.levels[side]
         /\ z[price] = new
         /\ \A p \in DOMAIN b.levels[side] : p # price => z[p] = b.levels[side][p]
    <2> DEFINE f == b.levels[side]
    <2>1. f \in PartialFunctions(Prices, PriceLevel)
      BY <1>1, <1>10
    <2>2. f \in [DOMAIN f -> PriceLevel] /\ DOMAIN f \subseteq Prices
      BY <2>1, PartialFunction
    <2>3. z \in [DOMAIN f -> PriceLevel] /\ DOMAIN z = DOMAIN f
      BY <1>1, <1>12, <2>2
    <2>4. z \in PartialFunctions(Prices, PriceLevel)
      BY <2>2, <2>3 DEF PartialFunctions
    <2>5. z[price] = new /\ \A p \in DOMAIN f : p # price => z[p] = f[p]
      BY <1>1, <2>2
    <2> QED BY <2>3, <2>4, <2>5
  <1> HIDE DEF z, y
  <1>15. /\ x \in [Sides -> PartialFunctions(Prices, PriceLevel)]
         /\ x[side] = z
         /\ \A s \in Sides : s # side => x[s] = b.levels[s]
    BY <1>1, <1>10, <1>13, <1>14
  <1>16. r.levels = x /\ r.orders = b.orders /\ r.nodes = y
    BY <1>6
  <1>17. r \in Books
    BY <1>6, <1>10, <1>11, <1>15 DEF Books
  <1>18. OtherLevels(b, r, side, price)
    BY <1>14, <1>15, <1>16 DEF OtherLevels
  <1>19. /\ price \in DOMAIN r.levels[side]
         /\ r.levels[side][price].price = lvl.price
         /\ r.levels[side][price].total = t
         /\ r.levels[side][price].orders = lvl.orders
    BY <1>1, <1>12, <1>14, <1>15, <1>16
  <1>20. t = Wrap(lvl.total - (old - (old - delta)))
    <2>1. old - (old - delta) = delta
      <3> HIDE DEF old
      <3> QED BY <1>2 DEF Quantities
    <2> QED BY <2>1 DEF t
  <1>21. r = Reduce(b, b.orders[id], delta)
    BY <1>5 DEF r
  <1>22. Resized(b, r, id, old - delta)
    BY <1>5, <1>9, <1>11, <1>16, <1>17, <1>18, <1>19, <1>20
       DEF Resized, side, price, it, lvl
  <1> QED BY <1>5, <1>21, <1>22 DEF it


(* A list with another quantity at its k-th place adds up accordingly. *)
LEMMA SumResized ==
  ASSUME NEW b, NEW lvl, Sized(b, lvl.orders), IsInjective(lvl.orders),
         NEW k \in DOMAIN lvl.orders,
         NEW r, NEW new, new.orders = lvl.orders,
         NEW old, b.nodes[lvl.orders[k]].quantity = old,
         NEW q \in Int, r.nodes[lvl.orders[k]].quantity = q,
         \A i \in DOMAIN lvl.orders :
           i # k => r.nodes[lvl.orders[i]].quantity = b.nodes[lvl.orders[i]].quantity
  PROVE  IsMore(ExactSum(b, lvl), ExactSum(r, new), q - old)
  <1> DEFINE list == lvl.orders
             n == Len(list)
             x == Sizes(r, list)
             y == Sizes(b, list)
             z == [y EXCEPT ![k] = q]
             e == ExactSum(b, lvl)
  <1>1. list \in Seq(Nodes) /\ DOMAIN list = 1..n /\ n \in Nat /\ k \in 1..n /\ old \in Int
    BY DEF Sized
  <1>2. Sized(r, list)
    BY DEF Sized
  <1>3. y \in Seq(Int) /\ IsSum(y, e)
    BY ExactSumIs
  <1>4. x \in Seq(Int) /\ IsSum(x, ExactSum(r, new))
    BY <1>2, ExactSumIs
  <1>5. Len(y) = n /\ \A i \in 1..n : y[i] = b.nodes[list[i]].quantity
    BY SizesShape
  <1>6. Len(x) = n /\ \A i \in 1..n : x[i] = r.nodes[list[i]].quantity
    BY <1>2, SizesShape
  <1> HIDE DEF n, x, y
  <1>7. z \in Seq(Int) /\ Len(z) = n /\ \A i \in 1..n : z[i] = IF i = k THEN q ELSE y[i]
    <2>1. y \in [1..n -> Int]
      BY <1>3, <1>5
    <2>2. z \in [1..n -> Int]
      BY <1>1, <2>1
    <2>3. \A i \in 1..n : z[i] = IF i = k THEN q ELSE y[i]
      BY <1>1, <2>1
    <2>4. z \in Seq(Int) /\ Len(z) = n
      <3> HIDE DEF z
      <3> QED BY <1>1, <2>2
    <2> QED BY <2>3, <2>4
  <1> HIDE DEF z
  <1>8. ASSUME NEW i \in 1..n
        PROVE  x[i] = z[i]
    BY <1>1, <1>5, <1>6, <1>7
  <1>9. x = z
    BY <1>4, <1>6, <1>7, <1>8, SeqEqual
  <1>10. IsSum(z, e - y[k] + q)
    BY <1>1, <1>3, <1>5, SumChange DEF z
  <1>11. y[k] = old
    BY <1>1, <1>5
  <1>12. e \in Int
    BY <1>3, SumUnique
  <1> HIDE DEF e
  <1>13. ExactSum(r, new) = e - old + q
    BY <1>4, <1>9, <1>10, <1>11, SumUnique
  <1>14. ExactSum(r, new) = e + (q - old)
    BY <1>1, <1>12, <1>13
  <1> QED BY <1>12, <1>14 DEF IsMore, e

(* A book with a quantity changed is sound, unless the quantity is zero. *)
LEMMA ResizedSound ==
  ASSUME NEW b, Sound(b), NEW id \in DOMAIN b.orders,
         NEW k, IsKth(b, id, b.orders[id], k),
         NEW qty \in Quantities, qty # 0, NEW r, Resized(b, r, id, qty)
  PROVE  Sound(r)
  <1> DEFINE loc == b.orders[id]
             side == loc.side
             price == loc.price
             node == loc.it
             lvl == b.levels[side][price]
             list == lvl.orders
             new == r.levels[side][price]
             old == b.nodes[node].quantity
  <1>1. b \in Books /\ r \in Books /\ OrdersLinked(b) /\ NodesLinked(b)
    BY DEF Sound, Resized
  <1>2. /\ side \in Sides /\ price \in DOMAIN b.levels[side]
        /\ list \in Seq(Nodes) /\ ListLinked(b, side, price, list) /\ Sized(b, list)
        /\ LevelSound(b, side, price)
        /\ k \in DOMAIN list /\ list[k] = node
        /\ node \in DOMAIN b.nodes /\ b.nodes[node].id = id
    BY DEF IsKth
  <1>3. /\ r.orders = b.orders
        /\ DOMAIN r.nodes = DOMAIN b.nodes
        /\ r.nodes[node].id = b.nodes[node].id /\ r.nodes[node].quantity = qty
        /\ \A m \in DOMAIN b.nodes : m # node => r.nodes[m] = b.nodes[m]
        /\ OtherLevels(b, r, side, price)
        /\ price \in DOMAIN r.levels[side]
        /\ new.price = lvl.price /\ new.total = Wrap(lvl.total - (old - qty))
        /\ new.orders = list
    BY DEF Resized
  <1> HIDE DEF loc, new, lvl
  <1>4. \A m \in DOMAIN b.nodes : r.nodes[m].id = b.nodes[m].id
    BY <1>3
  <1>5. ASSUME NEW s, NEW p, NEW m, Resides(b, s, p, m)
        PROVE  Resides(r, s, p, m)
    BY <1>3, <1>4, <1>5 DEF Resides
  <1>6. NodesLinked(r)
    BY <1>1, <1>3, <1>4 DEF NodesLinked
  <1>7. \A s \in Sides : \A p \in DOMAIN b.levels[s] :
          p \in DOMAIN r.levels[s] /\ r.levels[s][p].orders = b.levels[s][p].orders
    BY <1>3 DEF OtherLevels, new, lvl
  <1>8. OrdersLinked(r)
    <2> SUFFICES ASSUME NEW o \in DOMAIN b.orders
                 PROVE  OrderLinked(r, o, b.orders[o])
      BY <1>3 DEF OrdersLinked
    <2> DEFINE at == b.orders[o]
    <2>1. OrderLinked(b, o, at) /\ at.side \in Sides
      BY <1>1, BookParts DEF OrdersLinked
    <2> HIDE DEF at
    <2>2. OrderLinked(r, o, at)
      BY <1>3, <1>4, <1>7, <2>1 DEF OrderLinked
    <2> QED BY <2>2 DEF at
  <1>9. \A s \in Sides : \A p \in DOMAIN r.levels[s] : p \in DOMAIN b.levels[s]
    BY <1>2, <1>3 DEF OtherLevels
  <1>10. ListsLinked(r)
    <2> SUFFICES ASSUME NEW s \in Sides, NEW p \in DOMAIN b.levels[s]
                 PROVE  ListLinked(r, s, p, b.levels[s][p].orders)
      BY <1>7, <1>9 DEF ListsLinked
    <2>1. ListLinked(b, s, p, b.levels[s][p].orders)
      BY SoundLists
    <2> QED BY <1>5, <2>1 DEF ListLinked
  <1>11. ASSUME NEW s \in Sides, NEW p \in DOMAIN b.levels[s], ~(s = side /\ p = price)
         PROVE  LevelSound(r, s, p)
    <2> DEFINE there == b.levels[s][p].orders
    <2>1. r.levels[s][p] = b.levels[s][p]
      BY <1>3, <1>11 DEF OtherLevels
    <2>2. ListLinked(b, s, p, there) /\ Sized(b, there) /\ LevelSound(b, s, p)
      BY SoundLists
    <2> HIDE DEF there
    <2>3. \A i \in DOMAIN there : there[i] \in DOMAIN b.nodes /\ there[i] # node
      <3> SUFFICES ASSUME NEW i \in DOMAIN there
                   PROVE  there[i] \in DOMAIN b.nodes /\ there[i] # node
        OBVIOUS
      <3>1. Resides(b, s, p, there[i])
        BY <2>2 DEF ListLinked
      <3>2. ASSUME there[i] = node
            PROVE  FALSE
        BY <1>2, <1>11, <3>1, <3>2 DEF Resides, loc
      <3> QED BY <3>1, <3>2 DEF Resides
    <2>4. SameQuantities(b, r, there)
      BY <1>3, <2>3 DEF SameQuantities
    <2> QED BY <2>1, <2>2, <2>4, LevelSoundKept DEF there
  <1>12. LevelSound(r, side, price)
    <2>1. old \in Int /\ qty \in Int
      BY <1>2, BookAssumption DEF Sized, Quantities
    <2>2. IsInjective(list)
      BY <1>2 DEF ListLinked
    <2>3. \A i \in DOMAIN list : list[i] \in DOMAIN b.nodes /\ (i # k => list[i] # node)
      BY <1>2, <2>2 DEF ListLinked, Resides, IsInjective
    <2>4. \A i \in DOMAIN list :
            i # k => r.nodes[list[i]].quantity = b.nodes[list[i]].quantity
      BY <1>3, <2>3
    <2>5. IsMore(ExactSum(b, lvl), ExactSum(r, new), qty - old)
      <3>1. /\ Sized(b, lvl.orders) /\ IsInjective(lvl.orders) /\ k \in DOMAIN lvl.orders
            /\ new.orders = lvl.orders
            /\ b.nodes[lvl.orders[k]].quantity = old /\ r.nodes[lvl.orders[k]].quantity = qty
            /\ \A i \in DOMAIN lvl.orders :
                 i # k => r.nodes[lvl.orders[i]].quantity = b.nodes[lvl.orders[i]].quantity
        BY <1>2, <1>3, <2>2, <2>4
      <3> HIDE DEF old, list
      <3> QED BY <2>1, <3>1, SumResized
    <2>6. /\ lvl.price = price
          /\ \A i \in DOMAIN list : b.nodes[list[i]].quantity # 0
          /\ ExactSum(b, lvl) % QuantityRange = lvl.total
          /\ list # << >>
      BY <1>2 DEF LevelSound, lvl
    <2> HIDE DEF old
    <2>7. ExactSum(r, new) % QuantityRange = new.total
      <3> DEFINE e == ExactSum(b, lvl)
                 f == ExactSum(r, new)
                 d == qty - old
      <3>1. e \in Int /\ f = e + d
        BY <2>5 DEF IsMore
      <3>2. d \in Int
        BY <2>1
      <3> HIDE DEF e, f
      <3>3. QuantityRange \in Nat /\ QuantityRange > 0
        BY BookAssumption
      <3>4. (e + d) % QuantityRange = ((e % QuantityRange) + d) % QuantityRange
        <4> HIDE DEF d
        <4> QED BY <3>1, <3>2, <3>3, ModAdd
      <3>5. e % QuantityRange \in Int
        BY <3>1, <3>3
      <3>6. (e % QuantityRange) + d = (e % QuantityRange) - (old - qty)
        BY <2>1, <3>5
      <3>7. new.total = ((e % QuantityRange) - (old - qty)) % QuantityRange
        BY <1>3, <2>6 DEF Wrap, e
      <3> HIDE DEF d
      <3> QED BY <3>1, <3>4, <3>6, <3>7 DEF f
    <2>8. \A i \in DOMAIN list : r.nodes[list[i]].quantity # 0
      BY <1>2, <1>3, <2>4, <2>6
    <2> QED BY <1>3, <2>6, <2>7, <2>8 DEF LevelSound, new
  <1>13. \A s \in Sides : \A p \in DOMAIN r.levels[s] : LevelSound(r, s, p)
    BY <1>9, <1>11, <1>12
  <1> QED BY <1>1, <1>6, <1>8, <1>10, <1>13 DEF Sound


-----------------------------------------------------------------------------
(* The slow path of modify is an add after a cancel. *)
LEMMA RequeueShape ==
  ASSUME NEW b, Sound(b), NEW id \in DOMAIN b.orders, NEW k, IsKth(b, id, b.orders[id], k),
         NEW price \in Prices, NEW qty \in Quantities, qty # 0
  PROVE  LET c == Cancel(b, id).book
         IN  /\ Sound(c) /\ id \notin DOMAIN c.orders
             /\ Added(c, Requeue(b, id, price, qty), id, b.orders[id].side, price, qty, NewNode(c))
  <1> DEFINE loc == b.orders[id]
             side == loc.side
             c == Cancel(b, id).book
             gone == EraseOrder(b, loc.side, loc.price, loc.it)
             n == NewNode(c)
             r1 == InsertOrder(gone, side, price, id, qty)
             at == Relocate(loc, price, n)
             x == [b.orders EXCEPT ![id] = at]
             r == Requeue(b, id, price, qty)
  <1>1. /\ Removed(b, c, id, k)
        /\ gone \in Books /\ gone.orders = b.orders
        /\ c.levels = gone.levels /\ c.nodes = gone.nodes
    BY CancelShape
  <1>2. b \in Books /\ side \in Sides /\ id \in Ids /\ loc \in OrderLocation
    <2>1. b \in Books
      BY DEF Sound
    <2> QED BY <2>1, BookParts
  <1>3. Sound(c)
    BY <1>1, RemovedSound
  <1>4. c \in Books /\ NodesLinked(c)
    BY <1>3 DEF Sound
  <1>5. /\ DOMAIN c.orders = DOMAIN b.orders \ {id}
        /\ \A other \in DOMAIN b.orders : other # id => c.orders[other] = b.orders[other]
    BY <1>1 DEF Removed, Unlocated
  <1> HIDE DEF c
  <1>6. n \in Nodes \ DOMAIN c.nodes
    BY <1>2, <1>4, <1>5, NodeAvailable
  <1>7. NewNode(gone) = n
    BY <1>1 DEF NewNode
  <1>8. r = [r1 EXCEPT !.orders[id] = Relocate(@, price, n)]
    BY <1>7 DEF Requeue
  <1> HIDE DEF gone, n, side
  <1>9. r1 \in Books /\ r1.orders = b.orders /\ Put(gone, r1, id, side, price, qty, n)
    BY <1>1, <1>2, <1>6, <1>7, InsertOrderShape
  <1> HIDE DEF r1, r, loc
  <1>10. Put(c, r1, id, side, price, qty, n)
    <2>1. LevelFor(c, side, price) = LevelFor(gone, side, price)
      BY <1>1 DEF LevelFor
    <2> QED BY <1>1, <1>9, <2>1 DEF Put, OtherLevels
  <1>11. at \in OrderLocation /\ at.side = side /\ at.price = price /\ at.it = n
    <2>1. at \in OrderLocation
      BY <1>2, <1>6 DEF Relocate, OrderLocation
    <2>2. at.side = loc.side /\ at.price = price /\ at.it = n
      BY <1>2, <1>6 DEF Relocate, OrderLocation
    <2> QED BY <2>1, <2>2 DEF side
  <1>12. r = [r1 EXCEPT !.orders = x]
    <2>1. r1.orders[id] = loc
      BY <1>9 DEF loc
    <2>2. r = [r1 EXCEPT !.orders[id] = at]
      BY <1>8, <2>1
    <2> HIDE DEF at
    <2> QED BY <1>9, <2>2 DEF Books
  <1>13. r = Reindexed(r1, x)
    BY <1>12 DEF Reindexed
  <1> HIDE DEF at
  <1>14. /\ x \in PartialFunctions(Ids, OrderLocation)
         /\ DOMAIN x = DOMAIN b.orders
         /\ x[id] = at
         /\ \A other \in DOMAIN b.orders : other # id => x[other] = b.orders[other]
    <2>1. b.orders \in [DOMAIN b.orders -> OrderLocation] /\ DOMAIN b.orders \subseteq Ids
      BY <1>2, BookParts, PartialFunction
    <2>2. x \in [DOMAIN b.orders -> OrderLocation]
      BY <1>11, <2>1
    <2>3. x \in PartialFunctions(Ids, OrderLocation)
      BY <2>1, <2>2 DEF PartialFunctions
    <2> QED BY <2>1, <2>3
  <1> HIDE DEF x
  <1>15. r \in Books /\ r.levels = r1.levels /\ r.nodes = r1.nodes /\ r.orders = x
    BY <1>9, <1>13, <1>14, ReindexedShape DEF IsReindexed
  <1>16. Put(c, r, id, side, price, qty, n)
    BY <1>10, <1>15 DEF Put, OtherLevels
  <1>17. Located(c, r, id, side, price, n)
    BY <1>5, <1>11, <1>14, <1>15 DEF Located
  <1>18. Added(c, r, id, side, price, qty, n) /\ Sound(c) /\ id \notin DOMAIN c.orders
    BY <1>3, <1>5, <1>15, <1>16, <1>17 DEF Added
  <1> QED BY <1>18 DEF c, r, n, side, loc

(* The smaller of two quantities. *)
LEMMA FillIs ==
  ASSUME NEW q \in Quantities, NEW resting \in Quantities
  PROVE  /\ Fill(q, resting) \in Quantities
         /\ Fill(q, resting) <= resting
         /\ Fill(q, resting) = IF q >= resting THEN resting ELSE q
  <1>1. q \in Int /\ resting \in Int
    BY BookAssumption DEF Quantities
  <1> DEFINE m == IF q >= resting THEN resting ELSE q
  <1>2. m \in {q, resting} /\ \A y \in {q, resting} : m <= y
    BY <1>1
  <1>3. Min({q, resting}) \in {q, resting} /\ \A y \in {q, resting} : Min({q, resting}) <= y
    BY <1>2 DEF Min
  <1>4. Min({q, resting}) = m
    BY <1>1, <1>3
  <1> QED BY <1>1, <1>4 DEF Fill

(* A remainder is its own remainder. *)
LEMMA WrapWrap ==
  ASSUME NEW t \in Int
  PROVE  Wrap(Wrap(t) - 0) = Wrap(t)
  <1>1. Wrap(t) \in Quantities
    BY WrapType
  <1> DEFINE w == Wrap(t)
  <1> HIDE DEF w
  <1>2. Wrap(w - 0) = w
    BY <1>1, BookAssumption DEF Wrap, Quantities, w
  <1> QED BY <1>2 DEF w

(* execute: a fill of all that rests removes the order, a smaller one resizes it. *)
LEMMA FillShape ==
  ASSUME NEW b, Sound(b), NEW id \in DOMAIN b.orders, NEW k, IsKth(b, id, b.orders[id], k),
         NEW qty \in Quantities
  PROVE  LET old == b.nodes[b.orders[id].it].quantity
             r == FillOrder(b, id, qty)
         IN  /\ qty >= old => Removed(b, r, id, k)
             /\ ~(qty >= old) => Resized(b, r, id, old - qty)
  <1> DEFINE loc == b.orders[id]
             side == loc.side
             price == loc.price
             it == loc.it
             lvl == b.levels[side][price]
             old == b.nodes[it].quantity
             fill == Fill(qty, old)
             left == Reduce(b, loc, fill)
             r == FillOrder(b, id, qty)
  <1>1. b \in Books
    BY DEF Sound
  <1>2. /\ side \in Sides /\ price \in DOMAIN b.levels[side]
        /\ ListLinked(b, side, price, lvl.orders)
        /\ k \in DOMAIN lvl.orders /\ lvl.orders[k] = it
        /\ it \in DOMAIN b.nodes
    BY DEF IsKth
  <1>3. old \in Quantities /\ lvl.total \in Quantities
    BY <1>1, <1>2, BookParts
  <1>4. fill \in Quantities /\ fill <= old /\ fill = IF qty >= old THEN old ELSE qty
    BY <1>3, FillIs
  <1>5. Resized(b, left, id, old - fill)
    <2> HIDE DEF fill
    <2> QED BY <1>4, ReduceShape
  <1>6. left.nodes[it].quantity = old - fill
    BY <1>5 DEF Resized
  <1>7. old \in Int /\ qty \in Int
    <2> HIDE DEF old
    <2> QED BY <1>3, QuantityInt
  <1>8. ASSUME ~(qty >= old)
        PROVE  Resized(b, r, id, old - qty)
    <2>1. fill = qty
      BY <1>4, <1>8
    <2>2. left.nodes[it].quantity # 0
      <3> HIDE DEF old, left
      <3> QED BY <1>6, <1>7, <1>8, <2>1
    <2>3. r = left
      BY <2>2 DEF FillOrder
    <2> HIDE DEF r, left, old
    <2> QED BY <1>5, <2>1, <2>3
  <1>9. ASSUME qty >= old
        PROVE  Removed(b, r, id, k)
    <2> DEFINE r1 == EraseOrder(left, side, price, it)
               x == Erase(r1.orders, id)
    <2>1. fill = old /\ old - fill = 0
      BY <1>4, <1>7, <1>9
    <2>2. r = Reindexed(r1, x)
      BY <1>6, <2>1 DEF FillOrder, Reindexed
    <2>3. Resized(b, left, id, 0)
      BY <1>5, <2>1
    <2> HIDE DEF left, r, fill
    <2>4. /\ left \in Books
          /\ left.orders = b.orders
          /\ DOMAIN left.nodes = DOMAIN b.nodes
          /\ left.nodes[it].quantity = 0
          /\ \A m \in DOMAIN b.nodes : m # it => left.nodes[m] = b.nodes[m]
          /\ OtherLevels(b, left, side, price)
          /\ price \in DOMAIN left.levels[side]
          /\ left.levels[side][price].price = lvl.price
          /\ left.levels[side][price].total = Wrap(lvl.total - (old - 0))
          /\ left.levels[side][price].orders = lvl.orders
      BY <2>3 DEF Resized
    <2> HIDE DEF loc
    <2>5. /\ IsInjective(left.levels[side][price].orders)
          /\ k \in DOMAIN left.levels[side][price].orders
          /\ it = left.levels[side][price].orders[k]
          /\ it \in DOMAIN left.nodes
      BY <1>2, <2>4 DEF ListLinked
    <2>6. r1 \in Books /\ r1.orders = b.orders /\ Taken(left, r1, side, price, k)
      BY <1>2, <2>4, <2>5, EraseOrderShape, ZenonT(30)
    <2> HIDE DEF r1
    <2>7. IsErase(x, b.orders, id, Ids, OrderLocation)
      <3>1. b.orders \in PartialFunctions(Ids, OrderLocation)
        BY <1>1, BookParts
      <3> QED BY <2>6, <3>1, EraseShape
    <2> HIDE DEF x
    <2>8. r \in Books /\ r.levels = r1.levels /\ r.nodes = r1.nodes /\ r.orders = x
      <3>1. x \in PartialFunctions(Ids, OrderLocation)
        BY <2>7 DEF IsErase
      <3> QED BY <2>2, <2>6, <3>1, ReindexedShape DEF IsReindexed
    <2>9. Unlocated(b, r, id)
      BY <2>7, <2>8 DEF Unlocated, IsErase
    <2> HIDE DEF side, price, lvl
    <2>10. OtherLevels(b, r, side, price)
      <3>1. OtherLevels(left, r1, side, price)
        BY <2>6 DEF Taken
      <3>2. \A s \in Sides : s # side => r.levels[s] = b.levels[s]
        BY <2>4, <2>8, <3>1 DEF OtherLevels
      <3>3. DOMAIN r.levels[side] \ {price} = DOMAIN b.levels[side] \ {price}
        BY <2>4, <2>8, <3>1 DEF OtherLevels
      <3>4. \A p \in DOMAIN b.levels[side] \ {price} : r.levels[side][p] = b.levels[side][p]
        BY <2>4, <2>8, <3>1 DEF OtherLevels
      <3> QED BY <3>2, <3>3, <3>4 DEF OtherLevels
    <2>11. Wrap(Wrap(lvl.total - (old - 0)) - 0) = Wrap(lvl.total - old)
      <3>1. old - 0 = old /\ lvl.total - old \in Int
        <4> HIDE DEF old
        <4> QED BY <1>3, <1>7, BookAssumption DEF Quantities
      <3> QED BY <3>1, WrapWrap
    <2>12. /\ Len(lvl.orders) = 1 => price \notin DOMAIN r.levels[side]
           /\ Len(lvl.orders) # 1 =>
                /\ price \in DOMAIN r.levels[side]
                /\ r.levels[side][price].price = lvl.price
                /\ r.levels[side][price].total = Wrap(lvl.total - old)
                /\ r.levels[side][price].orders = RemoveAt(lvl.orders, k)
      BY <2>4, <2>5, <2>6, <2>8, <2>11 DEF Taken
    <2>13. /\ DOMAIN r.nodes = DOMAIN b.nodes \ {it}
           /\ \A m \in DOMAIN b.nodes : m # it => r.nodes[m] = b.nodes[m]
      BY <2>4, <2>5, <2>6, <2>8 DEF Taken
    <2>14. Taken(b, r, side, price, k)
      BY <1>2, <2>10, <2>12, <2>13 DEF Taken, lvl
    <2> QED BY <2>8, <2>9, <2>14 DEF Removed, side, price, loc
  <1> QED BY <1>8, <1>9


-----------------------------------------------------------------------------
(* Every call leaves a sound book. *)

(* A map that is empty. *)
LEMMA EmptyMap ==
  ASSUME NEW S, NEW T
  PROVE  << >> \in PartialFunctions(S, T) /\ DOMAIN << >> = {}
  <1>1. << >> \in [{} -> T] /\ {} \in SUBSET S /\ DOMAIN << >> = {}
    OBVIOUS
  <1> QED BY <1>1 DEF PartialFunctions

(* The book is sound when it is constructed or cleared. *)
LEMMA EmptySound == Sound(EmptyBook)
  <1> DEFINE b == EmptyBook
  <1>1. b.orders = << >> /\ b.nodes = << >> /\ \A s \in Sides : b.levels[s] = << >>
    BY DEF EmptyBook
  <1>2. b \in Books
    BY EmptyMap DEF EmptyBook, Books
  <1> HIDE DEF b
  <1>3. DOMAIN b.orders = {} /\ DOMAIN b.nodes = {} /\ \A s \in Sides : DOMAIN b.levels[s] = {}
    BY <1>1, EmptyMap
  <1>4. Sound(b)
    BY <1>2, <1>3 DEF Sound, OrdersLinked, NodesLinked, ListsLinked
  <1> QED BY <1>4 DEF b

(* add *)
LEMMA AddSound ==
  ASSUME NEW b, Sound(b), NEW id \in Ids, NEW side \in Sides, NEW price \in Prices,
         NEW qty \in Quantities
  PROVE  /\ Sound(Add(b, id, side, price, qty).book)
         /\ Add(b, id, side, price, qty).ret \in BOOLEAN
  <1>1. CASE qty = 0 \/ id \in DOMAIN b.orders
    <2>1. Add(b, id, side, price, qty) = Fail(b)
      BY <1>1 DEF Add
    <2> QED BY <2>1 DEF Fail
  <1>2. CASE ~(qty = 0 \/ id \in DOMAIN b.orders)
    <2>1. /\ Add(b, id, side, price, qty).ret = TRUE
          /\ Added(b, Add(b, id, side, price, qty).book, id, side, price, qty, NewNode(b))
      BY <1>2, AddShape
    <2> QED BY <1>2, <2>1, AddedSound
  <1> QED BY <1>1, <1>2

(* cancel *)
LEMMA CancelSound ==
  ASSUME NEW b, Sound(b), NEW id
  PROVE  Sound(Cancel(b, id).book) /\ Cancel(b, id).ret \in BOOLEAN
  <1>1. CASE id \notin DOMAIN b.orders
    <2>1. Cancel(b, id) = Fail(b)
      BY <1>1 DEF Cancel
    <2> QED BY <2>1 DEF Fail
  <1>2. CASE id \in DOMAIN b.orders
    <2>1. PICK k : IsKth(b, id, b.orders[id], k)
      BY <1>2, OrderPlace
    <2>2. Cancel(b, id).ret = TRUE /\ Removed(b, Cancel(b, id).book, id, k)
      BY <1>2, <2>1, CancelShape
    <2> QED BY <1>2, <2>1, <2>2, RemovedSound
  <1> QED BY <1>1, <1>2

(* modify, when the order rests and is not cancelled by it. *)
LEMMA ModifyShape ==
  ASSUME NEW b, Sound(b), NEW id \in DOMAIN b.orders, NEW k, IsKth(b, id, b.orders[id], k),
         NEW price \in Prices, NEW qty \in Quantities, qty # 0
  PROVE  LET loc == b.orders[id]
             old == b.nodes[loc.it].quantity
             m == Modify(b, id, price, qty)
         IN  /\ m.ret = TRUE
             /\ price = loc.price /\ qty <= old => Resized(b, m.book, id, qty)
             /\ ~(price = loc.price /\ qty <= old) => m.book = Requeue(b, id, price, qty)
  <1> DEFINE loc == b.orders[id]
             old == b.nodes[loc.it].quantity
             m == Modify(b, id, price, qty)
  <1>1. b \in Books /\ loc.it \in DOMAIN b.nodes
    BY DEF Sound, IsKth
  <1>2. old \in Quantities
    BY <1>1, BookParts
  <1>3. ASSUME price = loc.price, qty <= old
        PROVE  m.ret = TRUE /\ Resized(b, m.book, id, qty)
    <2>1. m = Ok(Reduce(b, loc, old - qty))
      BY <1>3 DEF Modify, KeepsPriority
    <2>2. old - qty \in Quantities /\ old - qty <= old /\ old - (old - qty) = qty
      <3> HIDE DEF old
      <3> QED BY <1>2, <1>3, BookAssumption DEF Quantities
    <2>3. Resized(b, Reduce(b, loc, old - qty), id, old - (old - qty))
      BY <2>2, ReduceShape
    <2>4. m.ret = TRUE /\ m.book = Reduce(b, loc, old - qty)
      BY <2>1 DEF Ok
    <2> QED BY <2>2, <2>3, <2>4
  <1>4. ASSUME ~(price = loc.price /\ qty <= old)
        PROVE  m.ret = TRUE /\ m.book = Requeue(b, id, price, qty)
    <2>1. m = Ok(Requeue(b, id, price, qty))
      BY <1>4 DEF Modify, KeepsPriority
    <2> QED BY <2>1 DEF Ok
  <1> QED BY <1>3, <1>4

(* modify *)
LEMMA ModifySound ==
  ASSUME NEW b, Sound(b), NEW id \in Ids, NEW price \in Prices, NEW qty \in Quantities
  PROVE  /\ Sound(Modify(b, id, price, qty).book)
         /\ Modify(b, id, price, qty).ret \in BOOLEAN
  <1> DEFINE m == Modify(b, id, price, qty)
  <1>1. CASE qty = 0
    <2>1. m = Cancel(b, id)
      BY <1>1 DEF Modify
    <2> QED BY <2>1, CancelSound
  <1>2. CASE qty # 0 /\ id \notin DOMAIN b.orders
    <2>1. m = Fail(b)
      BY <1>2 DEF Modify
    <2> QED BY <2>1 DEF Fail
  <1>3. CASE qty # 0 /\ id \in DOMAIN b.orders
    <2>1. PICK k : IsKth(b, id, b.orders[id], k)
      BY <1>3, OrderPlace
    <2> DEFINE loc == b.orders[id]
               old == b.nodes[loc.it].quantity
    <2>2. /\ m.ret = TRUE
          /\ price = loc.price /\ qty <= old => Resized(b, m.book, id, qty)
          /\ ~(price = loc.price /\ qty <= old) => m.book = Requeue(b, id, price, qty)
      BY <1>3, <2>1, ModifyShape
    <2>3. CASE price = loc.price /\ qty <= old
      BY <1>3, <2>1, <2>2, <2>3, ResizedSound
    <2>4. CASE ~(price = loc.price /\ qty <= old)
      <3> DEFINE c == Cancel(b, id).book
                 r == Requeue(b, id, price, qty)
      <3>1. /\ Sound(c) /\ id \notin DOMAIN c.orders
            /\ Added(c, r, id, loc.side, price, qty, NewNode(c))
        BY <1>3, <2>1, RequeueShape
      <3>2. loc.side \in Sides
        BY <2>1 DEF IsKth
      <3> HIDE DEF c, r, loc
      <3>3. Sound(r)
        BY <1>3, <3>1, <3>2, AddedSound
      <3> QED BY <2>2, <2>4, <3>3 DEF r
    <2> QED BY <2>3, <2>4
  <1> QED BY <1>1, <1>2, <1>3

(* execute *)
LEMMA ExecuteSound ==
  ASSUME NEW b, Sound(b), NEW id, NEW qty \in Quantities
  PROVE  /\ Sound(Execute(b, id, qty).book)
         /\ Execute(b, id, qty).ret \in BOOLEAN
  <1>1. CASE id \notin DOMAIN b.orders
    <2>1. Execute(b, id, qty) = Fail(b)
      BY <1>1 DEF Execute
    <2> QED BY <2>1 DEF Fail
  <1>2. CASE id \in DOMAIN b.orders
    <2>1. PICK k : IsKth(b, id, b.orders[id], k)
      BY <1>2, OrderPlace
    <2> DEFINE old == b.nodes[b.orders[id].it].quantity
               r == FillOrder(b, id, qty)
    <2>2. Execute(b, id, qty) = Ok(r)
      BY <1>2 DEF Execute
    <2>3. /\ qty >= old => Removed(b, r, id, k)
          /\ ~(qty >= old) => Resized(b, r, id, old - qty)
      BY <1>2, <2>1, FillShape
    <2>4. old \in Quantities
      <3>1. b \in Books /\ b.orders[id].it \in DOMAIN b.nodes
        BY <2>1 DEF Sound, IsKth
      <3> QED BY <3>1, BookParts
    <2> HIDE DEF r
    <2>5. CASE qty >= old
      <3>1. Sound(r)
        BY <1>2, <2>1, <2>3, <2>5, RemovedSound
      <3> QED BY <2>2, <3>1 DEF Ok
    <2>6. CASE ~(qty >= old)
      <3>1. old - qty \in Quantities /\ old - qty # 0
        <4> HIDE DEF old
        <4> QED BY <2>4, <2>6, BookAssumption DEF Quantities
      <3>2. Sound(r)
        <4> HIDE DEF old
        <4> QED BY <1>2, <2>1, <2>3, <2>6, <3>1, ResizedSound
      <3> QED BY <2>2, <3>2 DEF Ok
    <2> QED BY <2>5, <2>6
  <1> QED BY <1>1, <1>2

(* The inductive invariant of the order book. *)
BookInv == Sound(book) /\ last.ret \in BOOLEAN

(* It holds at first. *)
LEMMA BookInvInit == BookInit => BookInv
  BY EmptySound DEF BookInit, BookInv

(* Every call preserves it. *)
LEMMA BookInvNext == BookInv /\ [BookNext]_bookVars => BookInv'
  <1> SUFFICES ASSUME BookInv, [BookNext]_bookVars
               PROVE  Sound(book') /\ last'.ret \in BOOLEAN
    BY DEF BookInv, Sound, OrdersLinked, NodesLinked, ListsLinked, LevelSound, Books
  <1>1. Sound(book)
    BY DEF BookInv
  <1>2. CASE \E id \in Ids, side \in Sides, price \in Prices, qty \in Quantities :
               DoAdd(id, side, price, qty)
    <2>1. PICK id \in Ids, side \in Sides, price \in Prices, qty \in Quantities :
            DoAdd(id, side, price, qty)
      BY <1>2
    <2>2. /\ book' = Add(book, id, side, price, qty).book
          /\ last'.ret = Add(book, id, side, price, qty).ret
      BY <2>1 DEF DoAdd, Apply
    <2> QED BY <1>1, <2>2, AddSound
  <1>3. CASE \E id \in Ids : DoCancel(id)
    <2>1. PICK id \in Ids : DoCancel(id)
      BY <1>3
    <2>2. book' = Cancel(book, id).book /\ last'.ret = Cancel(book, id).ret
      BY <2>1 DEF DoCancel, Apply
    <2> QED BY <1>1, <2>2, CancelSound
  <1>4. CASE \E id \in Ids, price \in Prices, qty \in Quantities : DoModify(id, price, qty)
    <2>1. PICK id \in Ids, price \in Prices, qty \in Quantities : DoModify(id, price, qty)
      BY <1>4
    <2>2. /\ book' = Modify(book, id, price, qty).book
          /\ last'.ret = Modify(book, id, price, qty).ret
      BY <2>1 DEF DoModify, Apply
    <2> QED BY <1>1, <2>2, ModifySound
  <1>5. CASE \E id \in Ids, qty \in Quantities : DoExecute(id, qty)
    <2>1. PICK id \in Ids, qty \in Quantities : DoExecute(id, qty)
      BY <1>5
    <2>2. book' = Execute(book, id, qty).book /\ last'.ret = Execute(book, id, qty).ret
      BY <2>1 DEF DoExecute, Apply
    <2> QED BY <1>1, <2>2, ExecuteSound
  <1>6. CASE DoClear
    <2>1. book' = EmptyBook /\ last'.ret = TRUE
      BY <1>6 DEF DoClear, Apply, Ok
    <2> QED BY <2>1, EmptySound
  <1>7. CASE UNCHANGED bookVars
    BY <1>1, <1>7 DEF bookVars, BookInv
  <1> QED BY <1>2, <1>3, <1>4, <1>5, <1>6, <1>7 DEF BookNext


-----------------------------------------------------------------------------
(* What a sound book promises. *)

(* The places of the lists, one by one. *)
LEMMA PlacesAre ==
  ASSUME NEW b, NEW x
  PROVE  x \in Places(b) <=>
           \E s \in Sides : \E p \in DOMAIN b.levels[s] :
             \E i \in DOMAIN b.levels[s][p].orders : x = <<s, p, i>>
  BY DEF Places

(* The orders and the places in the lists are as many. *)
LEMMA CountedIs ==
  ASSUME NEW b, Sound(b)
  PROVE  Counted(b) = Cardinality(DOMAIN b.orders)
  <1> DEFINE K(id) == CHOOSE k : IsKth(b, id, b.orders[id], k)
             D == DOMAIN b.orders
             f == [id \in D |-> <<b.orders[id].side, b.orders[id].price, K(id)>>]
  <1>1. ASSUME NEW id \in D
        PROVE  IsKth(b, id, b.orders[id], K(id))
    <2>1. \E k : IsKth(b, id, b.orders[id], k)
      BY OrderPlace
    <2> QED BY <2>1
  <1> HIDE DEF K
  <1>2. ASSUME NEW id \in D
        PROVE  f[id] \in Places(b)
    <2>1. /\ b.orders[id].side \in Sides
          /\ b.orders[id].price \in DOMAIN b.levels[b.orders[id].side]
          /\ K(id) \in DOMAIN b.levels[b.orders[id].side][b.orders[id].price].orders
      BY <1>1 DEF IsKth
    <2>2. f[id] = <<b.orders[id].side, b.orders[id].price, K(id)>>
      OBVIOUS
    <2> QED BY <2>1, <2>2, PlacesAre
  <1>3. f \in [D -> Places(b)]
    BY <1>2
  <1>4. ASSUME NEW a \in D, NEW c \in D, f[a] = f[c]
        PROVE  a = c
    <2>1. /\ b.orders[a].side = b.orders[c].side /\ b.orders[a].price = b.orders[c].price
          /\ K(a) = K(c)
      BY <1>4
    <2>2. b.orders[a].it = b.orders[c].it
      BY <1>1, <2>1, ZenonT(30) DEF IsKth
    <2> QED BY <1>1, <2>2 DEF IsKth
  <1>5. ASSUME NEW x \in Places(b)
        PROVE  \E id \in D : f[id] = x
    <2>1. PICK s \in Sides : \E p \in DOMAIN b.levels[s] :
             \E i \in DOMAIN b.levels[s][p].orders : x = <<s, p, i>>
      BY PlacesAre
    <2>2. PICK p \in DOMAIN b.levels[s] :
             \E i \in DOMAIN b.levels[s][p].orders : x = <<s, p, i>>
      BY <2>1
    <2> DEFINE list == b.levels[s][p].orders
    <2>3. PICK j \in DOMAIN list : x = <<s, p, j>>
      BY <2>2
    <2> DEFINE o == b.nodes[list[j]].id
    <2>4. ListLinked(b, s, p, list)
      BY SoundLists
    <2> HIDE DEF list
    <2>5. Resides(b, s, p, list[j]) /\ IsInjective(list)
      BY <2>4 DEF ListLinked
    <2>6. o \in D /\ b.orders[o].it = list[j]
      BY <2>5 DEF Sound, NodesLinked, Resides
    <2>7. b.orders[o].side = s /\ b.orders[o].price = p
      BY <2>5 DEF Resides
    <2> HIDE DEF o
    <2>8. K(o) \in DOMAIN list /\ list[K(o)] = list[j]
      BY <1>1, <2>6, <2>7 DEF IsKth, list
    <2>9. K(o) = j
      BY <2>5, <2>8 DEF IsInjective
    <2>10. f[o] = x
      BY <2>3, <2>6, <2>7, <2>9
    <2> QED BY <2>6, <2>10
  <1> HIDE DEF f
  <1>6. f \in Bijection(D, Places(b))
    BY <1>3, <1>4, <1>5 DEF Bijection, Injection, Surjection, IsInjective
  <1>7. IsFiniteSet(D)
    <2>1. D \in SUBSET Ids
      BY BookParts DEF Sound
    <2> HIDE DEF D
    <2> QED BY <2>1, BookAssumption, FS_Subset
  <1> HIDE DEF D
  <1>8. Cardinality(Places(b)) = Cardinality(D)
    <2>1. ExistsBijection(D, Places(b))
      BY <1>6 DEF ExistsBijection
    <2> QED BY <1>7, <2>1, FS_Bijection
  <1> QED BY <1>8 DEF Counted, D

(* check_invariants, but for the crossed book. *)
LEMMA SoundConsistent ==
  ASSUME BookInv
  PROVE  LevelsConsistent
  <1>1. Sound(book)
    BY DEF BookInv
  <1>2. \A s \in Sides : LevelOk(book, s)
    BY <1>1 DEF Sound, LevelOk, LevelSound
  <1>3. "Buy" \in Sides /\ "Sell" \in Sides
    BY DEF Sides
  <1>4. Counted(book) = Cardinality(DOMAIN book.orders)
    BY <1>1, CountedIs
  <1> QED BY <1>2, <1>3, <1>4 DEF LevelsConsistent

(* The types of the members. *)
LEMMA SoundTypes ==
  ASSUME BookInv
  PROVE  TypeOK
  <1>1. book \in Books /\ last.ret \in BOOLEAN
    BY DEF BookInv, Sound
  <1>2. DOMAIN book.levels = Sides
    BY <1>1, BookParts
  <1> QED BY <1>1, <1>2, BookParts DEF TypeOK

(* The locators and the lists describe the same orders. *)
LEMMA SoundLocators ==
  ASSUME BookInv
  PROVE  LocatorsValid
  <1>1. Sound(book) /\ book \in Books /\ NodesLinked(book)
    BY DEF BookInv, Sound
  <1>2. ASSUME NEW id \in DOMAIN book.orders, NEW loc, loc = book.orders[id]
        PROVE  /\ loc.it \in DOMAIN book.nodes
               /\ book.nodes[loc.it].id = id
               /\ \A s \in Sides, p \in Prices :
                    InLevel(loc.it, s, p) <=> (s = loc.side /\ p = loc.price)
    <2>1. PICK k : IsKth(book, id, loc, k)
      BY <1>1, <1>2, OrderPlace
    <2>2. loc.it \in DOMAIN book.nodes /\ book.nodes[loc.it].id = id
      BY <2>1 DEF IsKth
    <2>3. InLevel(loc.it, loc.side, loc.price)
      <3> DEFINE list == book.levels[loc.side][loc.price].orders
      <3>1. loc.price \in DOMAIN book.levels[loc.side] /\ k \in DOMAIN list /\ list[k] = loc.it
        BY <2>1 DEF IsKth
      <3> HIDE DEF list
      <3>2. loc.it \in Range(list)
        BY <3>1 DEF Range
      <3> QED BY <3>1, <3>2 DEF InLevel, list
    <2>4. ASSUME NEW s \in Sides, NEW p \in Prices, InLevel(loc.it, s, p)
          PROVE  s = loc.side /\ p = loc.price
      <3> DEFINE list == book.levels[s][p].orders
      <3>1. p \in DOMAIN book.levels[s] /\ loc.it \in Range(list)
        BY <2>4 DEF InLevel
      <3>2. ListLinked(book, s, p, list)
        BY <1>1, <3>1, SoundLists
      <3> HIDE DEF list
      <3>3. Resides(book, s, p, loc.it)
        BY <3>1, <3>2 DEF ListLinked, Range
      <3> QED BY <1>2, <2>2, <3>3 DEF Resides
    <2> QED BY <2>2, <2>3, <2>4
  <1>3. ASSUME NEW s \in Sides, NEW p \in DOMAIN book.levels[s]
        PROVE  /\ IsInjective(book.levels[s][p].orders)
               /\ Range(book.levels[s][p].orders) \subseteq DOMAIN book.nodes
    <2> DEFINE list == book.levels[s][p].orders
    <2>1. ListLinked(book, s, p, list)
      BY <1>1, SoundLists
    <2> HIDE DEF list
    <2>2. IsInjective(list) /\ Range(list) \subseteq DOMAIN book.nodes
      BY <2>1 DEF ListLinked, Resides, Range
    <2> QED BY <2>2 DEF list
  <1> QED BY <1>1, <1>2, <1>3 DEF LocatorsValid, NodesLinked

(* The book has its invariant in every state of every behaviour. *)
LEMMA BookInvariant == BookSpec => []BookInv
  BY BookInvInit, BookInvNext, PTL DEF BookSpec

(* The members of an OrderBook object keep their types under any calls. *)
THEOREM OrderBookTypes == BookSpec => []TypeOK
  BY BookInvariant, SoundTypes, PTL

(* No iterator is ever stale, no node is leaked and no id rests twice,     *)
(* whatever the sequence of calls.                                         *)
THEOREM LocatorsAlwaysValid == BookSpec => []LocatorsValid
  BY BookInvariant, SoundLocators, PTL

(* What check_invariants tests of the levels and of the locator count      *)
(* never fails: aggregates agree with the lists modulo the width of        *)
(* Quantity, no level is empty and no order of quantity zero rests.        *)
THEOREM LevelsAlwaysConsistent == BookSpec => []LevelsConsistent
  BY BookInvariant, SoundConsistent, PTL


-----------------------------------------------------------------------------
(* The queues that a book stands for. *)

(* The queue at a price has the orders of the list there. *)
IsQueue(b, list, q) ==
  /\ q \in Seq(RestingOrder)
  /\ Len(q) = Len(list)
  /\ \A i \in 1..Len(list) : q[i] = b.nodes[list[i]]

(* A list of nodes, as a queue of orders. *)
LEMMA QueueShape ==
  ASSUME NEW b, Sound(b), NEW s \in Sides, NEW p \in DOMAIN b.levels[s]
  PROVE  /\ b.levels[s][p].orders \in Seq(Nodes)
         /\ IsQueue(b, b.levels[s][p].orders, Queue(b, s, p))
  <1> DEFINE list == b.levels[s][p].orders
             q == [i \in DOMAIN list |-> b.nodes[list[i]]]
  <1>1. list \in Seq(Nodes) /\ ListLinked(b, s, p, list)
    BY SoundLists
  <1>2. Queue(b, s, p) = q
    BY DEF Queue
  <1> HIDE DEF list
  <1>3. b \in Books
    BY DEF Sound
  <1>4. \A i \in DOMAIN list : b.nodes[list[i]] \in RestingOrder
    BY <1>1, <1>3, BookParts DEF ListLinked, Resides
  <1>5. DOMAIN list = 1..Len(list) /\ Len(list) \in Nat
    BY <1>1
  <1>6. q \in [1..Len(list) -> RestingOrder] /\ \A i \in 1..Len(list) : q[i] = b.nodes[list[i]]
    BY <1>4, <1>5
  <1> HIDE DEF q
  <1>7. IsQueue(b, list, q)
    BY <1>5, <1>6 DEF IsQueue
  <1> QED BY <1>1, <1>2, <1>7 DEF list

(* Where there is no level the queue is empty. *)
LEMMA QueueNone ==
  ASSUME NEW b, NEW s, NEW p, p \notin DOMAIN b.levels[s]
  PROVE  Queue(b, s, p) = << >>
  BY DEF Queue

(* A level whose list and whose nodes are as before gives the same queue. *)
LEMMA QueueKept ==
  ASSUME NEW b, Sound(b), NEW r, Sound(r), NEW s \in Sides, NEW p \in DOMAIN b.levels[s],
         p \in DOMAIN r.levels[s], r.levels[s][p].orders = b.levels[s][p].orders,
         \A i \in DOMAIN b.levels[s][p].orders :
           r.nodes[b.levels[s][p].orders[i]] = b.nodes[b.levels[s][p].orders[i]]
  PROVE  Queue(r, s, p) = Queue(b, s, p)
  BY DEF Queue

(* Two books differ in one queue only. *)
OtherQueues(b, r, side, price) ==
  \A s \in Sides, p \in Prices : ~(s = side /\ p = price) => Queue(r, s, p) = Queue(b, s, p)

(* The queues of b, with another queue at one price. *)
WithQueue(b, side, price, q) == [Queues(b) EXCEPT ![side][price] = q]

(* If so, the queues of the one are those of the other but for that queue. *)
LEMMA QueuesExcept ==
  ASSUME NEW b, NEW r, NEW side \in Sides, NEW price \in Prices,
         OtherQueues(b, r, side, price), NEW q, Queue(r, side, price) = q
  PROVE  Queues(r) = WithQueue(b, side, price, q)
  <1> DEFINE x == Queues(r)
             y == [Queues(b) EXCEPT ![side][price] = q]
  <1>1. x = [s \in Sides |-> [p \in Prices |-> Queue(r, s, p)]]
    BY DEF Queues
  <1>2. y = [s \in Sides |->
               IF s = side THEN [p \in Prices |-> IF p = price THEN q ELSE Queue(b, s, p)]
               ELSE [p \in Prices |-> Queue(b, s, p)]]
    BY DEF Queues
  <1>3. ASSUME NEW s \in Sides
        PROVE  x[s] = y[s]
    <2>1. CASE s = side
      <3>1. x[s] = [p \in Prices |-> Queue(r, s, p)]
        BY <1>1
      <3>2. y[s] = [p \in Prices |-> IF p = price THEN q ELSE Queue(b, s, p)]
        BY <1>2, <2>1
      <3>3. \A p \in Prices : Queue(r, s, p) = IF p = price THEN q ELSE Queue(b, s, p)
        BY <2>1 DEF OtherQueues
      <3> QED BY <3>1, <3>2, <3>3
    <2>2. CASE s # side
      <3>1. x[s] = [p \in Prices |-> Queue(r, s, p)]
        BY <1>1
      <3>2. y[s] = [p \in Prices |-> Queue(b, s, p)]
        BY <1>2, <2>2
      <3>3. \A p \in Prices : Queue(r, s, p) = Queue(b, s, p)
        BY <2>2 DEF OtherQueues
      <3> QED BY <3>1, <3>2, <3>3
    <2> QED BY <2>1, <2>2
  <1>4. x = y
    BY <1>1, <1>2, <1>3
  <1> QED BY <1>4 DEF WithQueue

(* The other queues are the same when the other lists and nodes are. *)
LEMMA OtherQueuesKept ==
  ASSUME NEW b, Sound(b), NEW r, Sound(r), NEW side \in Sides, NEW price \in Prices,
         OtherLevels(b, r, side, price), NEW N,
         \A m \in DOMAIN b.nodes : m \notin N => r.nodes[m] = b.nodes[m],
         \A m \in N : m \notin DOMAIN b.nodes \/ Resides(b, side, price, m)
  PROVE  OtherQueues(b, r, side, price)
  <1> SUFFICES ASSUME NEW s \in Sides, NEW p \in Prices, ~(s = side /\ p = price)
               PROVE  Queue(r, s, p) = Queue(b, s, p)
    BY DEF OtherQueues
  <1>1. CASE p \in DOMAIN b.levels[s]
    <2> DEFINE list == b.levels[s][p].orders
    <2>1. p \in DOMAIN r.levels[s] /\ r.levels[s][p] = b.levels[s][p]
      BY <1>1 DEF OtherLevels
    <2>2. ListLinked(b, s, p, list)
      BY <1>1, SoundLists
    <2> HIDE DEF list
    <2>3. \A i \in DOMAIN list : Resides(b, s, p, list[i])
      BY <2>2 DEF ListLinked
    <2>4. \A i \in DOMAIN list : list[i] \in DOMAIN b.nodes /\ list[i] \notin N
      BY <2>3 DEF Resides
    <2>5. \A i \in DOMAIN list : r.nodes[list[i]] = b.nodes[list[i]]
      BY <2>4
    <2> QED BY <1>1, <2>1, <2>5, QueueKept DEF list
  <1>2. CASE p \notin DOMAIN b.levels[s]
    <2>1. p \notin DOMAIN r.levels[s]
      BY <1>2 DEF OtherLevels
    <2> QED BY <1>2, <2>1, QueueNone
  <1> QED BY <1>1, <1>2


(* add appends to one queue. *)
LEMMA AddedQueues ==
  ASSUME NEW b, Sound(b), NEW r, NEW id \in Ids, id \notin DOMAIN b.orders,
         NEW side \in Sides, NEW price \in Prices, NEW qty \in Quantities, qty # 0,
         NEW n, Added(b, r, id, side, price, qty, n)
  PROVE  Queues(r) = WithQueue(b, side, price,
                       Append(Queue(b, side, price), [id |-> id, quantity |-> qty]))
  <1> DEFINE lvl == LevelFor(b, side, price)
             list == lvl.orders
             k == Len(list)
             more == Append(list, n)
             o == [id |-> id, quantity |-> qty]
             q == Queue(b, side, price)
             z == Append(q, o)
             y == Queue(r, side, price)
  <1>1. Sound(r)
    BY AddedSound
  <1>2. Put(b, r, id, side, price, qty, n) /\ r \in Books
    BY DEF Added
  <1>3. /\ n \in Nodes /\ n \notin DOMAIN b.nodes /\ n \in DOMAIN r.nodes
        /\ r.nodes[n].id = id /\ r.nodes[n].quantity = qty
        /\ \A m \in DOMAIN b.nodes : r.nodes[m] = b.nodes[m]
        /\ OtherLevels(b, r, side, price)
        /\ price \in DOMAIN r.levels[side]
        /\ r.levels[side][price].orders = more
    BY <1>2 DEF Put
  <1>4. OtherQueues(b, r, side, price)
    <2> DEFINE N == {n}
    <2>1. /\ \A m \in DOMAIN b.nodes : m \notin N => r.nodes[m] = b.nodes[m]
          /\ \A m \in N : m \notin DOMAIN b.nodes \/ Resides(b, side, price, m)
      BY <1>3
    <2> HIDE DEF N
    <2> QED BY <1>1, <1>3, <2>1, OtherQueuesKept
  <1>5. list \in Seq(Nodes) /\ ListLinked(b, side, price, list)
    BY LevelForIsSound DEF LevelForSound
  <1>6. IsQueue(b, list, q)
    <2>1. CASE price \in DOMAIN b.levels[side]
      BY <2>1, QueueShape DEF LevelFor
    <2>2. CASE price \notin DOMAIN b.levels[side]
      <3>1. q = << >>
        BY <2>2, QueueNone
      <3>2. list = << >>
        BY <2>2 DEF LevelFor
      <3> HIDE DEF q, list
      <3> QED BY <3>1, <3>2 DEF IsQueue
    <2> QED BY <2>1, <2>2
  <1>7. IsQueue(r, more, y)
    BY <1>1, <1>3, QueueShape
  <1> HIDE DEF q, y, list
  <1>8. r.nodes[n] = o /\ o \in RestingOrder
    <2>1. r.nodes[n] \in RestingOrder
      BY <1>2, <1>3, BookParts
    <2>2. r.nodes[n] = o
      BY <1>3, <2>1 DEF RestingOrder
    <2> QED BY <2>1, <2>2
  <1> HIDE DEF o
  <1>9. /\ more \in Seq(Nodes) /\ k \in Nat /\ Len(more) = k + 1 /\ more[k + 1] = n
        /\ \A i \in 1..k : more[i] = list[i]
    BY <1>3, <1>5, AppendShape
  <1> HIDE DEF more
  <1>10. q \in Seq(RestingOrder) /\ Len(q) = k /\ \A i \in 1..k : q[i] = b.nodes[list[i]]
    BY <1>6 DEF IsQueue
  <1>11. /\ y \in Seq(RestingOrder) /\ Len(y) = k + 1
         /\ \A i \in 1..(k + 1) : y[i] = r.nodes[more[i]]
    BY <1>7, <1>9 DEF IsQueue
  <1>12. /\ z \in Seq(RestingOrder) /\ Len(z) = k + 1 /\ z[k + 1] = o
         /\ \A i \in 1..k : z[i] = q[i]
    BY <1>8, <1>10, AppendShape
  <1>13. \A i \in 1..k : list[i] \in DOMAIN b.nodes
    BY <1>5 DEF ListLinked, Resides
  <1> HIDE DEF z, k
  <1>14. ASSUME NEW i \in 1..(k + 1)
         PROVE  y[i] = z[i]
    <2>1. CASE i = k + 1
      BY <1>8, <1>9, <1>11, <1>12, <2>1
    <2>2. CASE i # k + 1
      <3>1. i \in 1..k
        BY <1>9, <2>2
      <3>2. y[i] = r.nodes[list[i]]
        BY <1>9, <1>11, <3>1
      <3> QED BY <1>3, <1>10, <1>12, <1>13, <3>1, <3>2
    <2> QED BY <2>1, <2>2
  <1>15. y = z
    BY <1>11, <1>12, <1>14, SeqEqual
  <1>16. Queues(r) = WithQueue(b, side, price, z)
    BY <1>4, <1>15, QueuesExcept DEF y
  <1> QED BY <1>16 DEF z, q, o

(* cancel takes an order out of its queue. *)
LEMMA RemovedQueues ==
  ASSUME NEW b, Sound(b), NEW r, NEW id \in DOMAIN b.orders,
         NEW k, IsKth(b, id, b.orders[id], k), Removed(b, r, id, k),
         NEW side, side = b.orders[id].side, NEW price, price = b.orders[id].price
  PROVE  Queues(r) = WithQueue(b, side, price, RemoveAt(Queue(b, side, price), k))
  <1> DEFINE list == b.levels[side][price].orders
             n == Len(list)
             node == list[k]
             less == RemoveAt(list, k)
             q == Queue(b, side, price)
             z == RemoveAt(q, k)
             y == Queue(r, side, price)
  <1>1. Sound(r)
    BY RemovedSound
  <1>2. /\ side \in Sides /\ price \in Prices /\ price \in DOMAIN b.levels[side]
        /\ list \in Seq(Nodes) /\ ListLinked(b, side, price, list)
        /\ k \in DOMAIN list
    BY DEF IsKth
  <1>3. /\ OtherLevels(b, r, side, price)
        /\ n = 1 => price \notin DOMAIN r.levels[side]
        /\ n # 1 => price \in DOMAIN r.levels[side] /\ r.levels[side][price].orders = less
        /\ \A m \in DOMAIN b.nodes : m # node => r.nodes[m] = b.nodes[m]
    BY DEF Removed, Taken
  <1>4. IsQueue(b, list, q)
    BY <1>2, QueueShape
  <1>5. n # 1 => IsQueue(r, less, y)
    BY <1>1, <1>2, <1>3, QueueShape
  <1>6. n = 1 => y = << >>
    BY <1>3, QueueNone
  <1> HIDE DEF list, q, y
  <1>7. Resides(b, side, price, node) /\ IsInjective(list)
    BY <1>2 DEF ListLinked
  <1>8. OtherQueues(b, r, side, price)
    <2> DEFINE N == {node}
    <2>1. /\ \A m \in DOMAIN b.nodes : m \notin N => r.nodes[m] = b.nodes[m]
          /\ \A m \in N : m \notin DOMAIN b.nodes \/ Resides(b, side, price, m)
      BY <1>3, <1>7
    <2> HIDE DEF N
    <2> QED BY <1>1, <1>2, <1>3, <2>1, OtherQueuesKept
  <1>9. n \in Nat /\ k \in 1..n /\ DOMAIN list = 1..n
    BY <1>2
  <1>10. /\ less \in Seq(Nodes) /\ Len(less) = n - 1
         /\ \A i \in 1..(n - 1) : less[i] = IF i < k THEN list[i] ELSE list[i + 1]
    BY <1>2, <1>9, RemoveAtShape
  <1>11. q \in Seq(RestingOrder) /\ Len(q) = n /\ \A i \in 1..n : q[i] = b.nodes[list[i]]
    BY <1>4 DEF IsQueue
  <1>12. /\ z \in Seq(RestingOrder) /\ Len(z) = n - 1
         /\ \A i \in 1..(n - 1) : z[i] = IF i < k THEN q[i] ELSE q[i + 1]
    <2>1. k \in 1..Len(q)
      BY <1>9, <1>11
    <2>2. /\ z \in Seq(RestingOrder) /\ Len(z) = Len(q) - 1
          /\ \A i \in 1..(Len(q) - 1) : z[i] = IF i < k THEN q[i] ELSE q[i + 1]
      BY <1>11, <2>1, RemoveAtShape
    <2> HIDE DEF z
    <2> QED BY <1>11, <2>2
  <1> HIDE DEF n, less, z
  <1>13. ASSUME n # 1
         PROVE  y = z
    <2>1. /\ y \in Seq(RestingOrder) /\ Len(y) = n - 1
          /\ \A i \in 1..(n - 1) : y[i] = r.nodes[less[i]]
      BY <1>5, <1>10, <1>13 DEF IsQueue
    <2>2. ASSUME NEW i \in 1..(n - 1)
          PROVE  y[i] = z[i]
      <3> DEFINE j == IF i < k THEN i ELSE i + 1
      <3>1. j \in 1..n /\ j # k
        BY <1>9
      <3>2. less[i] = list[j] /\ z[i] = q[j]
        BY <1>10, <1>12
      <3> HIDE DEF j
      <3>3. list[j] # node /\ list[j] \in DOMAIN b.nodes
        BY <1>2, <1>7, <1>9, <3>1 DEF IsInjective, ListLinked, Resides
      <3>4. r.nodes[list[j]] = b.nodes[list[j]]
        BY <1>3, <3>3
      <3>5. q[j] = b.nodes[list[j]]
        BY <1>11, <3>1
      <3> QED BY <2>1, <3>2, <3>4, <3>5
    <2> QED BY <1>12, <2>1, <2>2, SeqEqual
  <1>14. ASSUME n = 1
         PROVE  y = z
    <2>1. Len(z) = 0
      BY <1>12, <1>14
    <2>2. z = << >>
      BY <1>12, <2>1, EmptySeq
    <2> QED BY <1>6, <1>14, <2>2
  <1>15. y = z
    BY <1>13, <1>14
  <1>16. Queues(r) = WithQueue(b, side, price, z)
    BY <1>2, <1>8, <1>15, QueuesExcept DEF y
  <1> QED BY <1>16 DEF z, q

(* A queue with another quantity of the k-th order. *)
InPlace(q, k, qty) == [q EXCEPT ![k].quantity = qty]

(* A reduction happens in place. *)
LEMMA ResizedQueues ==
  ASSUME NEW b, Sound(b), NEW id \in DOMAIN b.orders,
         NEW k, IsKth(b, id, b.orders[id], k),
         NEW qty \in Quantities, qty # 0, NEW r, Resized(b, r, id, qty),
         NEW side, side = b.orders[id].side, NEW price, price = b.orders[id].price
  PROVE  Queues(r) = WithQueue(b, side, price, InPlace(Queue(b, side, price), k, qty))
  <1> DEFINE list == b.levels[side][price].orders
             n == Len(list)
             node == list[k]
             q == Queue(b, side, price)
             z == [q EXCEPT ![k].quantity = qty]
             y == Queue(r, side, price)
  <1>1. Sound(r)
    BY ResizedSound
  <1>2. /\ side \in Sides /\ price \in Prices /\ price \in DOMAIN b.levels[side]
        /\ list \in Seq(Nodes) /\ ListLinked(b, side, price, list)
        /\ k \in DOMAIN list /\ node = b.orders[id].it /\ node \in DOMAIN b.nodes
    BY DEF IsKth
  <1>3. /\ OtherLevels(b, r, side, price)
        /\ price \in DOMAIN r.levels[side] /\ r.levels[side][price].orders = list
        /\ DOMAIN r.nodes = DOMAIN b.nodes
        /\ r.nodes[b.orders[id].it].id = b.nodes[b.orders[id].it].id
        /\ r.nodes[b.orders[id].it].quantity = qty
        /\ \A m \in DOMAIN b.nodes : m # b.orders[id].it => r.nodes[m] = b.nodes[m]
    BY DEF Resized
  <1>4. IsQueue(b, list, q)
    BY <1>2, QueueShape
  <1>5. IsQueue(r, list, y)
    BY <1>1, <1>2, <1>3, QueueShape
  <1> HIDE DEF list, q, y
  <1>6. Resides(b, side, price, node) /\ IsInjective(list)
    BY <1>2 DEF ListLinked
  <1>7. OtherQueues(b, r, side, price)
    <2> DEFINE N == {node}
    <2>1. /\ \A m \in DOMAIN b.nodes : m \notin N => r.nodes[m] = b.nodes[m]
          /\ \A m \in N : m \notin DOMAIN b.nodes \/ Resides(b, side, price, m)
      BY <1>2, <1>3, <1>6
    <2> HIDE DEF N
    <2> QED BY <1>1, <1>2, <1>3, <2>1, OtherQueuesKept
  <1>8. n \in Nat /\ k \in 1..n /\ DOMAIN list = 1..n
    BY <1>2
  <1>9. q \in Seq(RestingOrder) /\ Len(q) = n /\ \A i \in 1..n : q[i] = b.nodes[list[i]]
    BY <1>4 DEF IsQueue
  <1>10. y \in Seq(RestingOrder) /\ Len(y) = n /\ \A i \in 1..n : y[i] = r.nodes[list[i]]
    BY <1>5 DEF IsQueue
  <1>11. r.nodes[node] = [b.nodes[node] EXCEPT !.quantity = qty]
    <2>1. b \in Books /\ r \in Books
      BY <1>1 DEF Sound
    <2>2. b.nodes[node] \in RestingOrder /\ r.nodes[node] \in RestingOrder
      BY <1>2, <1>3, <2>1, BookParts
    <2>3. r.nodes[node].id = b.nodes[node].id /\ r.nodes[node].quantity = qty
      BY <1>2, <1>3
    <2> HIDE DEF node
    <2> QED BY <2>2, <2>3 DEF RestingOrder
  <1> HIDE DEF n
  <1>12. ASSUME NEW i \in 1..n
         PROVE  y[i] = IF i = k THEN [q[k] EXCEPT !.quantity = qty] ELSE q[i]
    <2>1. CASE i = k
      BY <1>8, <1>9, <1>10, <1>11, <2>1
    <2>2. CASE i # k
      <3>1. list[i] # node /\ list[i] \in DOMAIN b.nodes
        BY <1>2, <1>6, <1>8, <2>2 DEF IsInjective, ListLinked, Resides
      <3> QED BY <1>2, <1>3, <1>9, <1>10, <2>2, <3>1
    <2> QED BY <2>1, <2>2
  <1>13. y = z
    <2>1. DOMAIN q = 1..n /\ DOMAIN y = 1..n
      BY <1>9, <1>10
    <2>2. q = [i \in 1..n |-> q[i]] /\ y = [i \in 1..n |-> y[i]]
      BY <1>9, <1>10, <2>1
    <2>3. z = [i \in 1..n |-> IF i = k THEN [q[k] EXCEPT !.quantity = qty] ELSE q[i]]
      BY <1>8, <2>1, <2>2
    <2> HIDE DEF z
    <2> QED BY <1>12, <2>2, <2>3
  <1> HIDE DEF z
  <1>14. Queues(r) = WithQueue(b, side, price, z)
    BY <1>2, <1>7, <1>13, QueuesExcept DEF y
  <1> QED BY <1>14 DEF z, q, InPlace


-----------------------------------------------------------------------------
(* The book implements the price-time queues. *)

(* The order id of book b is the k-th in the queue that its locator names. *)
Queued(b, id, side, price, k) ==
  /\ side \in Sides /\ price \in Prices
  /\ side = b.orders[id].side /\ price = b.orders[id].price
  /\ IsKth(b, id, b.orders[id], k)
  /\ Queues(b)[side][price] = Queue(b, side, price)
  /\ k \in DOMAIN Queues(b)[side][price]
  /\ Queues(b)[side][price][k] = b.nodes[b.orders[id].it]
  /\ Queues(b)[side][price][k].id = id

(* Every order that rests is queued somewhere. *)
LEMMA QueueHas ==
  ASSUME NEW b, Sound(b), NEW id \in DOMAIN b.orders
  PROVE  \E side, price, k : Queued(b, id, side, price, k)
  <1>1. PICK k : IsKth(b, id, b.orders[id], k)
    BY OrderPlace
  <1> DEFINE side == b.orders[id].side
             price == b.orders[id].price
             list == b.levels[side][price].orders
             q == Queue(b, side, price)
  <1>2. /\ side \in Sides /\ price \in Prices /\ price \in DOMAIN b.levels[side]
        /\ list \in Seq(Nodes) /\ k \in DOMAIN list /\ list[k] = b.orders[id].it
        /\ b.nodes[b.orders[id].it].id = id
    BY <1>1 DEF IsKth
  <1>3. Queues(b)[side][price] = q
    BY <1>2 DEF Queues
  <1>4. IsQueue(b, list, q)
    BY <1>2, QueueShape
  <1>5. side = b.orders[id].side /\ price = b.orders[id].price
    OBVIOUS
  <1> HIDE DEF list, q, side, price
  <1>6. k \in DOMAIN q /\ q[k] = b.nodes[list[k]]
    BY <1>2, <1>4 DEF IsQueue
  <1>7. Queued(b, id, side, price, k)
    BY <1>1, <1>2, <1>3, <1>5, <1>6 DEF Queued, q
  <1> QED BY <1>7

(* The two modules take the same element out of a sequence. *)
LEMMA SameRemoveAt ==
  ASSUME NEW s, NEW i
  PROVE  Abstract!RemoveAt(s, i) = RemoveAt(s, i)
  BY DEF Abstract!RemoveAt, RemoveAt

(* An order that does not rest is in no queue. *)
LEMMA QueueOnly ==
  ASSUME NEW b, Sound(b), NEW id, id \notin DOMAIN b.orders,
         NEW s \in Sides, NEW p \in Prices, NEW i \in DOMAIN Queues(b)[s][p]
  PROVE  Queues(b)[s][p][i].id # id
  <1> DEFINE list == b.levels[s][p].orders
             q == Queue(b, s, p)
  <1>1. Queues(b)[s][p] = q /\ i \in DOMAIN q
    BY DEF Queues
  <1>2. CASE p \in DOMAIN b.levels[s]
    <2>1. IsQueue(b, list, q) /\ list \in Seq(Nodes) /\ ListLinked(b, s, p, list)
      BY <1>2, QueueShape, SoundLists
    <2> HIDE DEF list, q
    <2>2. i \in DOMAIN list /\ q[i] = b.nodes[list[i]]
      BY <1>1, <2>1 DEF IsQueue
    <2>3. list[i] \in DOMAIN b.nodes
      BY <2>1, <2>2 DEF ListLinked, Resides
    <2>4. b.nodes[list[i]].id \in DOMAIN b.orders
      BY <2>3 DEF Sound, NodesLinked
    <2> QED BY <1>1, <2>2, <2>4
  <1>3. CASE p \notin DOMAIN b.levels[s]
    <2>1. q = << >>
      BY <1>3, QueueNone
    <2> HIDE DEF q
    <2> QED BY <1>1, <2>1
  <1> QED BY <1>2, <1>3

(* Rests, in terms of the locators. *)
LEMMA RestsIs ==
  ASSUME BookInv, NEW id
  PROVE  Abstract!Rests(id) <=> id \in DOMAIN book.orders
  <1>1. Sound(book)
    BY DEF BookInv
  <1>2. ASSUME id \in DOMAIN book.orders
        PROVE  Abstract!Rests(id)
    <2>1. PICK side, price, k : Queued(book, id, side, price, k)
      BY <1>1, <1>2, QueueHas
    <2> QED BY <2>1 DEF Queued, Abstract!Rests, Abstract!IsAt
  <1>3. ASSUME id \notin DOMAIN book.orders
        PROVE  ~Abstract!Rests(id)
    BY <1>1, <1>3, QueueOnly DEF Abstract!Rests, Abstract!IsAt
  <1> QED BY <1>2, <1>3

(* A book starts with empty queues. *)
LEMMA EmptyQueues == Queues(EmptyBook) = [s \in Sides |-> [p \in Prices |-> << >>]]
  <1>1. \A s \in Sides : DOMAIN EmptyBook.levels[s] = {}
    BY EmptyMap DEF EmptyBook
  <1>2. \A s \in Sides, p \in Prices : Queue(EmptyBook, s, p) = << >>
    BY <1>1, QueueNone
  <1> HIDE DEF EmptyBook
  <1> QED BY <1>2 DEF Queues

(* add *)
LEMMA AddRefines ==
  ASSUME BookInv, NEW id \in Ids, NEW side \in Sides, NEW price \in Prices,
         NEW qty \in Quantities, DoAdd(id, side, price, qty)
  PROVE  Abstract!Add(id, side, price, qty)
  <1> DEFINE r == Add(book, id, side, price, qty)
             call == <<"add", id, side, price, qty>>
  <1>1. book' = r.book /\ last' = [call |-> call, ret |-> r.ret]
    BY DEF DoAdd, Apply
  <1>2. Sound(book)
    BY DEF BookInv
  <1>3. qty \in Nat
    BY BookAssumption DEF Quantities
  <1>4. CASE qty = 0 \/ id \in DOMAIN book.orders
    <2>1. r = Fail(book)
      BY <1>4 DEF Add
    <2>2. book' = book /\ last' = [call |-> call, ret |-> FALSE]
      BY <1>1, <2>1 DEF Fail
    <2>3. qty = 0 \/ Abstract!Rests(id)
      BY <1>4, RestsIs
    <2> QED BY <2>2, <2>3 DEF Abstract!Add, Abstract!Refuse, Abstract!Return
  <1>5. CASE ~(qty = 0 \/ id \in DOMAIN book.orders)
    <2>1. r.ret = TRUE /\ Added(book, r.book, id, side, price, qty, NewNode(book))
      BY <1>2, <1>5, AddShape
    <2> HIDE DEF r
    <2> DEFINE q == Append(Queue(book, side, price), [id |-> id, quantity |-> qty])
    <2>2. Queues(r.book) = WithQueue(book, side, price, q)
      BY <1>2, <1>5, <2>1, AddedQueues
    <2>3. Queues(book)[side][price] = Queue(book, side, price)
      BY DEF Queues
    <2>4. Queues(book') = [Queues(book) EXCEPT ![side][price] =
                             Append(@, [id |-> id, quantity |-> qty])]
      BY <1>1, <2>2, <2>3 DEF WithQueue
    <2>5. qty > 0 /\ ~Abstract!Rests(id)
      BY <1>3, <1>5, RestsIs
    <2>6. last' = [call |-> call, ret |-> TRUE]
      BY <1>1, <2>1
    <2> QED BY <2>4, <2>5, <2>6 DEF Abstract!Add, Abstract!Return
  <1> QED BY <1>4, <1>5

(* Where an order rests, it does so for the queues too. *)
LEMMA QueuedIsAt ==
  ASSUME NEW id, NEW side, NEW price, NEW k, Queued(book, id, side, price, k)
  PROVE  /\ side \in Sides /\ price \in Prices /\ k \in DOMAIN Queues(book)[side][price]
         /\ Abstract!IsAt(id, side, price, k)
  BY DEF Queued, Abstract!IsAt

(* An order that is removed leaves its queue. *)
LEMMA RemovedIs ==
  ASSUME NEW b, Sound(b), NEW id \in DOMAIN b.orders, NEW side, NEW price, NEW k,
         Queued(b, id, side, price, k), NEW r, Removed(b, r, id, k)
  PROVE  Queues(r) = [Queues(b) EXCEPT ![side][price] = RemoveAt(Queues(b)[side][price], k)]
  <1>1. side = b.orders[id].side /\ price = b.orders[id].price
    BY DEF Queued
  <1>2. Queues(b)[side][price] = Queue(b, side, price)
    BY DEF Queued
  <1>3. IsKth(b, id, b.orders[id], k)
    BY DEF Queued
  <1>4. Queues(r) = WithQueue(b, side, price, RemoveAt(Queue(b, side, price), k))
    BY <1>1, <1>3, RemovedQueues
  <1> QED BY <1>2, <1>4 DEF WithQueue

(* An order that is resized keeps its place in its queue. *)
LEMMA ResizedIs ==
  ASSUME NEW b, Sound(b), NEW id \in DOMAIN b.orders, NEW side, NEW price, NEW k,
         Queued(b, id, side, price, k), NEW qty \in Quantities, qty # 0,
         NEW r, Resized(b, r, id, qty)
  PROVE  Queues(r) = [Queues(b) EXCEPT ![side][price][k].quantity = qty]
  <1>1. side = b.orders[id].side /\ price = b.orders[id].price
    BY DEF Queued
  <1>2. Queues(b)[side][price] = Queue(b, side, price)
    BY DEF Queued
  <1>3. IsKth(b, id, b.orders[id], k)
    BY DEF Queued
  <1>4. Queues(r) = WithQueue(b, side, price, InPlace(Queue(b, side, price), k, qty))
    BY <1>1, <1>3, ResizedQueues
  <1> QED BY <1>2, <1>4 DEF WithQueue, InPlace

(* cancel *)
LEMMA CancelRefines ==
  ASSUME BookInv, NEW id \in Ids, DoCancel(id)
  PROVE  Abstract!Cancel(id)
  <1> DEFINE r == Cancel(book, id)
             call == <<"cancel", id>>
  <1>1. book' = r.book /\ last' = [call |-> call, ret |-> r.ret]
    BY DEF DoCancel, Apply
  <1>2. Sound(book)
    BY DEF BookInv
  <1>3. CASE id \notin DOMAIN book.orders
    <2>1. r = Fail(book)
      BY <1>3 DEF Cancel
    <2>2. book' = book /\ last' = [call |-> call, ret |-> FALSE]
      BY <1>1, <2>1 DEF Fail
    <2>3. ~Abstract!Rests(id)
      BY <1>3, RestsIs
    <2> QED BY <2>2, <2>3 DEF Abstract!Cancel, Abstract!Refuse, Abstract!Return
  <1>4. CASE id \in DOMAIN book.orders
    <2>1. PICK side, price, k : Queued(book, id, side, price, k)
      BY <1>2, <1>4, QueueHas
    <2>2. r.ret = TRUE /\ Removed(book, r.book, id, k)
      <3>1. IsKth(book, id, book.orders[id], k)
        BY <2>1 DEF Queued
      <3> QED BY <1>2, <1>4, <3>1, CancelShape
    <2> HIDE DEF r
    <2>3. Queues(book') = Abstract!Without(side, price, k)
      BY <1>1, <1>2, <1>4, <2>1, <2>2, RemovedIs, SameRemoveAt DEF Abstract!Without
    <2>4. last' = [call |-> call, ret |-> TRUE]
      BY <1>1, <2>2
    <2> QED BY <2>1, <2>3, <2>4, QueuedIsAt DEF Abstract!Cancel, Abstract!Return
  <1> QED BY <1>3, <1>4


(* Queues, with the k-th order of one queue gone and o at the back of another. *)
Moved(queues, side, price, k, price2, o) ==
  [[queues EXCEPT ![side][price] = RemoveAt(queues[side][price], k)]
    EXCEPT ![side][price2] = Append(@, o)]

(* The slow path of modify moves the order to the back of a queue. *)
LEMMA RequeuedIs ==
  ASSUME NEW b, Sound(b), NEW id \in DOMAIN b.orders, NEW side, NEW price, NEW k,
         Queued(b, id, side, price, k), NEW price2 \in Prices, NEW qty \in Quantities, qty # 0
  PROVE  Queues(Requeue(b, id, price2, qty)) =
           Moved(Queues(b), side, price, k, price2, [id |-> id, quantity |-> qty])
  <1> DEFINE c == Cancel(b, id).book
             r == Requeue(b, id, price2, qty)
             o == [id |-> id, quantity |-> qty]
             x == [Queues(b) EXCEPT ![side][price] = RemoveAt(Queues(b)[side][price], k)]
  <1>1. IsKth(b, id, b.orders[id], k)
    BY DEF Queued
  <1>2. side \in Sides /\ side = b.orders[id].side
    BY DEF Queued
  <1>3. Removed(b, c, id, k)
    BY <1>1, CancelShape
  <1>4. /\ Sound(c) /\ id \notin DOMAIN c.orders
        /\ Added(c, r, id, side, price2, qty, NewNode(c))
    BY <1>1, <1>2, RequeueShape
  <1>5. id \in Ids
    <2>1. b \in Books
      BY DEF Sound
    <2> QED BY <2>1, BookParts
  <1> HIDE DEF c, r
  <1>6. Queues(c) = x
    BY <1>3, RemovedIs
  <1>7. Queues(r) = WithQueue(c, side, price2, Append(Queue(c, side, price2), o))
    BY <1>2, <1>4, <1>5, AddedQueues
  <1>8. Queues(c)[side][price2] = Queue(c, side, price2)
    BY <1>2 DEF Queues
  <1> HIDE DEF x, o
  <1>9. Queues(r) = [x EXCEPT ![side][price2] = Append(@, o)]
    BY <1>6, <1>7, <1>8 DEF WithQueue
  <1> QED BY <1>9 DEF r, x, o, Moved

(* modify *)
LEMMA ModifyRefines ==
  ASSUME BookInv, NEW id \in Ids, NEW price2 \in Prices, NEW qty \in Quantities,
         DoModify(id, price2, qty)
  PROVE  Abstract!Modify(id, price2, qty)
  <1> DEFINE m == Modify(book, id, price2, qty)
             call == <<"modify", id, price2, qty>>
  <1>1. book' = m.book /\ last' = [call |-> call, ret |-> m.ret]
    BY DEF DoModify, Apply
  <1>2. Sound(book)
    BY DEF BookInv
  <1>3. CASE id \notin DOMAIN book.orders
    <2>1. m = Fail(book)
      BY <1>3 DEF Modify, Cancel
    <2>2. book' = book /\ last' = [call |-> call, ret |-> FALSE]
      BY <1>1, <2>1 DEF Fail
    <2>3. ~Abstract!Rests(id)
      BY <1>3, RestsIs
    <2> QED BY <2>2, <2>3 DEF Abstract!Modify, Abstract!Refuse, Abstract!Return
  <1>4. CASE id \in DOMAIN book.orders
    <2>1. PICK side, price, k : Queued(book, id, side, price, k)
      BY <1>2, <1>4, QueueHas
    <2>2. IsKth(book, id, book.orders[id], k)
      BY <2>1 DEF Queued
    <2> DEFINE without == Abstract!Without(side, price, k)
               old == Queues(book)[side][price][k].quantity
               after ==
                 CASE qty = 0 -> without
                   [] qty > 0 /\ price2 = price /\ qty <= old ->
                        [Queues(book) EXCEPT ![side][price][k].quantity = qty]
                   [] OTHER ->
                        [without EXCEPT
                          ![side][price2] = Append(@, [id |-> id, quantity |-> qty])]
    <2>3. /\ price = book.orders[id].price
          /\ old = book.nodes[book.orders[id].it].quantity
      BY <2>1 DEF Queued
    <2>4. qty \in Nat
      BY BookAssumption DEF Quantities
    <2>w. without =
            [Queues(book) EXCEPT ![side][price] = RemoveAt(Queues(book)[side][price], k)]
      BY SameRemoveAt DEF Abstract!Without
    <2>5. ASSUME qty = 0
          PROVE  m.ret = TRUE /\ Queues(m.book) = without
      <3> DEFINE r == Cancel(book, id)
      <3>1. m = r
        BY <2>5 DEF Modify
      <3>2. r.ret = TRUE /\ Removed(book, r.book, id, k)
        BY <1>2, <1>4, <2>2, CancelShape
      <3> HIDE DEF r, m, without
      <3>3. Queues(r.book) =
              [Queues(book) EXCEPT ![side][price] = RemoveAt(Queues(book)[side][price], k)]
        BY <1>2, <1>4, <2>1, <3>2, RemovedIs
      <3> QED BY <2>w, <3>1, <3>2, <3>3
    <2>6. ASSUME qty # 0
          PROVE  /\ m.ret = TRUE
                 /\ price2 = price /\ qty <= old => Resized(book, m.book, id, qty)
                 /\ ~(price2 = price /\ qty <= old) => m.book = Requeue(book, id, price2, qty)
      BY <1>2, <1>4, <2>2, <2>3, <2>6, ModifyShape
    <2> HIDE DEF m
    <2>7. ASSUME qty # 0, price2 = price, qty <= old
          PROVE  Queues(m.book) = [Queues(book) EXCEPT ![side][price][k].quantity = qty]
      BY <1>2, <1>4, <2>1, <2>6, <2>7, ResizedIs
    <2>8. ASSUME qty # 0, ~(price2 = price /\ qty <= old)
          PROVE  Queues(m.book) = [without EXCEPT
                   ![side][price2] = Append(@, [id |-> id, quantity |-> qty])]
      <3>1. m.book = Requeue(book, id, price2, qty)
        BY <2>6, <2>8
      <3>2. Queues(Requeue(book, id, price2, qty)) =
              Moved(Queues(book), side, price, k, price2, [id |-> id, quantity |-> qty])
        BY <1>2, <1>4, <2>1, <2>8, RequeuedIs
      <3> HIDE DEF without
      <3> QED BY <2>w, <3>1, <3>2 DEF Moved
    <2> HIDE DEF without, old
    <2>9. m.ret = TRUE /\ Queues(m.book) = after
      <3>1. CASE qty = 0
        <4>1. after = without
          BY <3>1
        <4> HIDE DEF after
        <4> QED BY <2>5, <3>1, <4>1
      <3>2. CASE qty # 0 /\ price2 = price /\ qty <= old
        <4>1. qty > 0
          BY <2>4, <3>2
        <4> QED BY <2>6, <2>7, <3>2, <4>1
      <3>3. CASE qty # 0 /\ ~(price2 = price /\ qty <= old)
        BY <2>6, <2>8, <3>3
      <3> QED BY <3>1, <3>2, <3>3
    <2>10. Queues(book') = after /\ last' = [call |-> call, ret |-> TRUE]
      <3> HIDE DEF after
      <3> QED BY <1>1, <2>9
    <2>11. /\ side \in Sides /\ price \in Prices /\ k \in DOMAIN Queues(book)[side][price]
           /\ Abstract!IsAt(id, side, price, k)
      BY <2>1, QueuedIsAt
    <2> QED BY <2>10, <2>11 DEF Abstract!Modify, Abstract!Return, without, old
  <1> QED BY <1>3, <1>4

(* execute *)
LEMMA ExecuteRefines ==
  ASSUME BookInv, NEW id \in Ids, NEW qty \in Quantities, DoExecute(id, qty)
  PROVE  Abstract!Execute(id, qty)
  <1> DEFINE x == Execute(book, id, qty)
             call == <<"execute", id, qty>>
  <1>1. book' = x.book /\ last' = [call |-> call, ret |-> x.ret]
    BY DEF DoExecute, Apply
  <1>2. Sound(book)
    BY DEF BookInv
  <1>3. CASE id \notin DOMAIN book.orders
    <2>1. x = Fail(book)
      BY <1>3 DEF Execute
    <2>2. book' = book /\ last' = [call |-> call, ret |-> FALSE]
      BY <1>1, <2>1 DEF Fail
    <2>3. ~Abstract!Rests(id)
      BY <1>3, RestsIs
    <2> QED BY <2>2, <2>3 DEF Abstract!Execute, Abstract!Refuse, Abstract!Return
  <1>4. CASE id \in DOMAIN book.orders
    <2>1. PICK side, price, k : Queued(book, id, side, price, k)
      BY <1>2, <1>4, QueueHas
    <2>2. IsKth(book, id, book.orders[id], k)
      BY <2>1 DEF Queued
    <2> DEFINE r == FillOrder(book, id, qty)
               without == Abstract!Without(side, price, k)
               old == Queues(book)[side][price][k].quantity
               after == IF qty >= old THEN without
                        ELSE [Queues(book) EXCEPT ![side][price][k].quantity = @ - qty]
    <2>3. old = book.nodes[book.orders[id].it].quantity
      BY <2>1 DEF Queued
    <2>4. old \in Quantities
      <3>1. book \in Books /\ book.orders[id].it \in DOMAIN book.nodes
        BY <1>2, <2>2 DEF Sound, IsKth
      <3> QED BY <2>3, <3>1, BookParts
    <2>5. x.ret = TRUE /\ x.book = r
      BY <1>4 DEF Execute, Ok
    <2>6. /\ qty >= old => Removed(book, r, id, k)
          /\ ~(qty >= old) => Resized(book, r, id, old - qty)
      BY <1>2, <1>4, <2>2, <2>3, FillShape
    <2> HIDE DEF r, x
    <2>7. ASSUME qty >= old
          PROVE  Queues(r) = without
      <3>1. Queues(r) =
              [Queues(book) EXCEPT ![side][price] = RemoveAt(Queues(book)[side][price], k)]
        BY <1>2, <1>4, <2>1, <2>6, <2>7, RemovedIs
      <3> QED BY <3>1, SameRemoveAt DEF Abstract!Without
    <2>8. ASSUME ~(qty >= old)
          PROVE  Queues(r) = [Queues(book) EXCEPT ![side][price][k].quantity = old - qty]
      <3>1. old - qty \in Quantities /\ old - qty # 0
        <4> HIDE DEF old
        <4> QED BY <2>4, <2>8, BookAssumption DEF Quantities
      <3> HIDE DEF old
      <3> QED BY <1>2, <1>4, <2>1, <2>6, <2>8, <3>1, ResizedIs
    <2>9. Queues(book') = after /\ last' = [call |-> call, ret |-> TRUE]
      <3>1. Queues(r) = after
        <4> HIDE DEF without
        <4> QED BY <2>7, <2>8
      <3> HIDE DEF after
      <3> QED BY <1>1, <2>5, <3>1
    <2>10. /\ side \in Sides /\ price \in Prices /\ k \in DOMAIN Queues(book)[side][price]
           /\ Abstract!IsAt(id, side, price, k)
      BY <2>1, QueuedIsAt
    <2> HIDE DEF without
    <2> QED BY <2>9, <2>10 DEF Abstract!Execute, Abstract!Return, without
  <1> QED BY <1>3, <1>4

(* Every call of the book is a call of the queues. *)
LEMMA BookRefines ==
  BookInv /\ [BookNext]_bookVars => [Abstract!Next]_(Abstract!vars)
  <1> SUFFICES ASSUME BookInv, [BookNext]_bookVars
               PROVE  Abstract!Next \/ UNCHANGED Abstract!vars
    OBVIOUS
  <1>1. CASE \E id \in Ids, side \in Sides, price \in Prices, qty \in Quantities :
               DoAdd(id, side, price, qty)
    BY <1>1, AddRefines DEF Abstract!Next
  <1>2. CASE \E id \in Ids : DoCancel(id)
    BY <1>2, CancelRefines DEF Abstract!Next
  <1>3. CASE \E id \in Ids, price \in Prices, qty \in Quantities : DoModify(id, price, qty)
    BY <1>3, ModifyRefines DEF Abstract!Next
  <1>4. CASE \E id \in Ids, qty \in Quantities : DoExecute(id, qty)
    BY <1>4, ExecuteRefines DEF Abstract!Next
  <1>5. CASE DoClear
    <2>1. book' = EmptyBook /\ last' = [call |-> <<"clear">>, ret |-> TRUE]
      BY <1>5 DEF DoClear, Apply, Ok
    <2>2. Queues(book') = [s \in Sides |-> [p \in Prices |-> << >>]]
      BY <2>1, EmptyQueues
    <2> QED BY <2>1, <2>2 DEF Abstract!Next, Abstract!Clear, Abstract!Return
  <1>6. CASE UNCHANGED bookVars
    BY <1>6 DEF bookVars, Abstract!vars
  <1> QED BY <1>1, <1>2, <1>3, <1>4, <1>5, <1>6 DEF BookNext

(* The levels, the lists and the locators of an order book implement one    *)
(* queue per side and price: every sequence of add, cancel, modify, execute *)
(* and clear returns what the queues call for and leaves the orders that    *)
(* they hold, in their order.                                               *)
THEOREM BookImplementsPriceTime == BookSpec => ImplementsPriceTime
  <1>1. BookInit => Abstract!Init
    BY EmptyQueues DEF BookInit, Abstract!Init
  <1>2. BookSpec => []BookInv
    BY BookInvariant
  <1> QED BY <1>1, <1>2, BookRefines, PTL DEF BookSpec, ImplementsPriceTime, Abstract!Spec


-----------------------------------------------------------------------------
(* Time priority. *)

(* In a level's list the node m is before the node n. *)
Before(list, m, n) == \E i, j \in DOMAIN list : i < j /\ list[i] = m /\ list[j] = n

(* a and b rest in the level at this side and price, a before b. *)
AheadIn(bk, s, p, a, b) ==
  /\ a \in DOMAIN bk.orders /\ b \in DOMAIN bk.orders
  /\ bk.orders[a].side = s /\ bk.orders[b].side = s
  /\ bk.orders[a].price = p /\ bk.orders[b].price = p
  /\ Before(bk.levels[s][p].orders, bk.orders[a].it, bk.orders[b].it)

(* Ahead, with the level named. *)
LEMMA AheadIs ==
  ASSUME NEW bk, NEW a, NEW b
  PROVE  Ahead(bk, a, b) <=> AheadIn(bk, bk.orders[a].side, bk.orders[a].price, a, b)
  BY DEF Ahead, AheadIn, Before

(* The list at which two orders meet, in a sound book. *)
LEMMA AheadList ==
  ASSUME NEW bk, Sound(bk), NEW s, NEW p, NEW a, NEW b, AheadIn(bk, s, p, a, b)
  PROVE  /\ s \in Sides /\ p \in Prices /\ p \in DOMAIN bk.levels[s]
         /\ bk.levels[s][p].orders \in Seq(Nodes)
         /\ IsInjective(bk.levels[s][p].orders)
         /\ bk.orders[a].it \in DOMAIN bk.nodes /\ bk.orders[b].it \in DOMAIN bk.nodes
         /\ bk.nodes[bk.orders[a].it].id = a /\ bk.nodes[bk.orders[b].it].id = b
  <1>1. a \in DOMAIN bk.orders /\ b \in DOMAIN bk.orders
    BY DEF AheadIn
  <1>2. bk.orders[a].side = s /\ bk.orders[a].price = p
    BY DEF AheadIn
  <1>3. PICK k : IsKth(bk, a, bk.orders[a], k)
    BY <1>1, OrderPlace
  <1>4. PICK j : IsKth(bk, b, bk.orders[b], j)
    BY <1>1, OrderPlace
  <1>5. /\ s \in Sides /\ p \in Prices /\ p \in DOMAIN bk.levels[s]
        /\ bk.levels[s][p].orders \in Seq(Nodes)
        /\ ListLinked(bk, s, p, bk.levels[s][p].orders)
        /\ bk.orders[a].it \in DOMAIN bk.nodes /\ bk.nodes[bk.orders[a].it].id = a
    BY <1>2, <1>3 DEF IsKth
  <1>6. bk.orders[b].it \in DOMAIN bk.nodes /\ bk.nodes[bk.orders[b].it].id = b
    BY <1>4 DEF IsKth
  <1> QED BY <1>5, <1>6 DEF ListLinked

(* Two nodes are not each before the other. *)
LEMMA BeforeOneWay ==
  ASSUME NEW list \in Seq(Nodes), IsInjective(list), NEW m, NEW n, Before(list, m, n)
  PROVE  ~Before(list, n, m)
  <1>1. PICK i, j \in DOMAIN list : i < j /\ list[i] = m /\ list[j] = n
    BY DEF Before
  <1> SUFFICES ASSUME NEW u \in DOMAIN list, NEW v \in DOMAIN list,
                      u < v, list[u] = n, list[v] = m
               PROVE  FALSE
    BY DEF Before
  <1>2. u = j /\ v = i
    BY <1>1 DEF IsInjective
  <1>3. DOMAIN list \subseteq Nat
    OBVIOUS
  <1> QED BY <1>1, <1>2, <1>3

(* Nor are two orders. *)
LEMMA AheadOneWay ==
  ASSUME NEW bk, Sound(bk), NEW a, NEW b, Ahead(bk, a, b)
  PROVE  ~Ahead(bk, b, a)
  <1> DEFINE s == bk.orders[a].side
             p == bk.orders[a].price
             list == bk.levels[s][p].orders
  <1>1. AheadIn(bk, s, p, a, b)
    BY AheadIs
  <1>2. list \in Seq(Nodes) /\ IsInjective(list)
    BY <1>1, AheadList
  <1>3. Before(list, bk.orders[a].it, bk.orders[b].it)
    BY <1>1 DEF AheadIn
  <1>4. s = bk.orders[b].side /\ p = bk.orders[b].price
    BY <1>1 DEF AheadIn
  <1>5. ~Before(list, bk.orders[b].it, bk.orders[a].it)
    <2> HIDE DEF list
    <2> QED BY <1>2, <1>3, BeforeOneWay
  <1>6. ~AheadIn(bk, bk.orders[b].side, bk.orders[b].price, b, a)
    BY <1>4, <1>5 DEF AheadIn
  <1> QED BY <1>6, AheadIs

(* Two orders whose locators are unchanged keep their order if their nodes do. *)
LEMMA AheadKept ==
  ASSUME NEW b, NEW r, NEW s, NEW p, NEW x, NEW y, AheadIn(b, s, p, x, y),
         x \in DOMAIN r.orders, y \in DOMAIN r.orders,
         r.orders[x] = b.orders[x], r.orders[y] = b.orders[y],
         Before(r.levels[s][p].orders, b.orders[x].it, b.orders[y].it)
  PROVE  Ahead(r, x, y)
  <1>1. AheadIn(r, s, p, x, y)
    BY DEF AheadIn
  <1>2. r.orders[x].side = s /\ r.orders[x].price = p
    BY <1>1 DEF AheadIn
  <1> QED BY <1>1, <1>2, AheadIs

(* add costs no order its place. *)
LEMMA AddedAhead ==
  ASSUME NEW b, Sound(b), NEW r, NEW id, id \notin DOMAIN b.orders,
         NEW side \in Sides, NEW price \in Prices, NEW qty, NEW n,
         Added(b, r, id, side, price, qty, n),
         NEW x, NEW y, Ahead(b, x, y)
  PROVE  Ahead(r, x, y)
  <1> DEFINE s == b.orders[x].side
             p == b.orders[x].price
             list == b.levels[s][p].orders
             m == b.orders[x].it
             l == b.orders[y].it
  <1>1. AheadIn(b, s, p, x, y)
    BY AheadIs
  <1>2. s \in Sides /\ p \in Prices /\ p \in DOMAIN b.levels[s] /\ list \in Seq(Nodes)
    BY <1>1, AheadList
  <1>3. x \in DOMAIN b.orders /\ y \in DOMAIN b.orders /\ Before(list, m, l)
    BY <1>1 DEF AheadIn
  <1>4. /\ x \in DOMAIN r.orders /\ y \in DOMAIN r.orders
        /\ r.orders[x] = b.orders[x] /\ r.orders[y] = b.orders[y]
    BY <1>3 DEF Added, Located
  <1>5. OtherLevels(b, r, side, price) /\ n \in Nodes
        /\ r.levels[side][price].orders = Append(LevelFor(b, side, price).orders, n)
    BY DEF Added, Put
  <1>6. Before(r.levels[s][p].orders, m, l)
    <2>1. CASE s = side /\ p = price
      <3>1. r.levels[s][p].orders = Append(list, n)
        BY <1>2, <1>5, <2>1 DEF LevelFor
      <3> HIDE DEF list, m, l
      <3>2. /\ Append(list, n) \in Seq(Nodes) /\ Len(Append(list, n)) = Len(list) + 1
            /\ \A i \in 1..Len(list) : Append(list, n)[i] = list[i]
        BY <1>2, <1>5, AppendShape
      <3>3. DOMAIN list \subseteq DOMAIN Append(list, n)
        BY <1>2, <3>2
      <3>4. Before(Append(list, n), m, l)
        BY <1>2, <1>3, <3>2, <3>3 DEF Before
      <3> QED BY <3>1, <3>4
    <2>2. CASE ~(s = side /\ p = price)
      <3>1. r.levels[s][p] = b.levels[s][p]
        BY <1>2, <1>5, <2>2 DEF OtherLevels
      <3> QED BY <1>3, <3>1
    <2> QED BY <2>1, <2>2
  <1> QED BY <1>1, <1>4, <1>6, AheadKept

(* The order added is ahead of none. *)
LEMMA AddedLast ==
  ASSUME NEW b, Sound(b), NEW r, Sound(r), NEW id,
         NEW side \in Sides, NEW price \in Prices, NEW qty, NEW n,
         Added(b, r, id, side, price, qty, n), NEW y
  PROVE  ~Ahead(r, id, y)
  <1> DEFINE list == LevelFor(b, side, price).orders
             more == Append(list, n)
  <1>1. /\ r.orders[id].side = side /\ r.orders[id].price = price /\ r.orders[id].it = n
        /\ r.levels[side][price].orders = more /\ n \in Nodes
    BY DEF Added, Located, Put
  <1>2. list \in Seq(Nodes)
    BY LevelForIsSound DEF LevelForSound
  <1> SUFFICES ASSUME AheadIn(r, side, price, id, y)
               PROVE  FALSE
    BY <1>1, AheadIs
  <1>3. IsInjective(more)
    <2>1. IsInjective(r.levels[side][price].orders)
      BY AheadList
    <2> QED BY <1>1, <2>1
  <1>4. PICK i, j \in DOMAIN more : i < j /\ more[i] = n
    BY <1>1 DEF AheadIn, Before
  <1> HIDE DEF list
  <1>5. /\ more \in Seq(Nodes) /\ Len(more) = Len(list) + 1 /\ more[Len(list) + 1] = n
        /\ Len(list) \in Nat
    BY <1>1, <1>2, AppendShape
  <1> HIDE DEF more
  <1>6. DOMAIN more = 1..(Len(list) + 1)
    BY <1>5
  <1>7. i = Len(list) + 1
    BY <1>3, <1>4, <1>5, <1>6 DEF IsInjective
  <1> QED BY <1>4, <1>5, <1>6, <1>7

(* Taking an order out costs no other its place. *)
LEMMA RemovedAhead ==
  ASSUME NEW b, Sound(b), NEW r, NEW id \in DOMAIN b.orders, NEW k,
         IsKth(b, id, b.orders[id], k), Removed(b, r, id, k),
         NEW x, NEW y, Ahead(b, x, y), x # id, y # id
  PROVE  Ahead(r, x, y)
  <1> DEFINE s == b.orders[x].side
             p == b.orders[x].price
             list == b.levels[s][p].orders
             m == b.orders[x].it
             l == b.orders[y].it
             side == b.orders[id].side
             price == b.orders[id].price
  <1>1. AheadIn(b, s, p, x, y)
    BY AheadIs
  <1>2. s \in Sides /\ p \in Prices /\ p \in DOMAIN b.levels[s] /\ list \in Seq(Nodes)
    BY <1>1, AheadList
  <1>3. x \in DOMAIN b.orders /\ y \in DOMAIN b.orders /\ Before(list, m, l)
    BY <1>1 DEF AheadIn
  <1>4. /\ x \in DOMAIN r.orders /\ y \in DOMAIN r.orders
        /\ r.orders[x] = b.orders[x] /\ r.orders[y] = b.orders[y]
    BY <1>3 DEF Removed, Unlocated
  <1>5. OtherLevels(b, r, side, price) /\ Taken(b, r, side, price, k)
    BY DEF Removed, Taken
  <1>6. side \in Sides /\ b.levels[side][price].orders[k] = b.orders[id].it
        /\ b.nodes[b.orders[id].it].id = id /\ k \in DOMAIN b.levels[side][price].orders
    BY DEF IsKth
  <1>7. m # b.orders[id].it /\ l # b.orders[id].it
    <2>1. b.nodes[m].id = x /\ b.nodes[l].id = y
      BY <1>1, AheadList
    <2> QED BY <1>6, <2>1
  <1>8. Before(r.levels[s][p].orders, m, l)
    <2>1. CASE s = side /\ p = price
      <3> DEFINE n == Len(list)
                 less == RemoveAt(list, k)
      <3>1. k \in DOMAIN list /\ list[k] # m /\ list[k] # l
        BY <1>6, <1>7, <2>1
      <3>2. n # 1 => r.levels[s][p].orders = less
        BY <1>5, <2>1 DEF Taken
      <3> HIDE DEF list, m, l
      <3>3. n \in Nat /\ DOMAIN list = 1..n
        BY <1>2
      <3>4. /\ less \in Seq(Nodes) /\ Len(less) = n - 1
            /\ \A i \in 1..(n - 1) : less[i] = IF i < k THEN list[i] ELSE list[i + 1]
        BY <1>2, <3>1, <3>3, RemoveAtShape
      <3>5. PICK i, j \in 1..n : i < j /\ list[i] = m /\ list[j] = l
        BY <1>3, <3>3 DEF Before
      <3> HIDE DEF n, less
      <3>6. i # k /\ j # k /\ n # 1
        BY <3>1, <3>3, <3>5
      <3> DEFINE u == IF i < k THEN i ELSE i - 1
                 v == IF j < k THEN j ELSE j - 1
      <3>7. u \in 1..(n - 1) /\ v \in 1..(n - 1) /\ u < v
        BY <3>1, <3>3, <3>5, <3>6
      <3>8. less[u] = list[i]
        <4>1. CASE i < k
          BY <3>4, <3>7, <4>1
        <4>2. CASE ~(i < k)
          <5>1. u = i - 1 /\ ~(u < k) /\ u + 1 = i
            BY <3>1, <3>3, <3>5, <3>6, <4>2
          <5> HIDE DEF u
          <5> QED BY <3>4, <3>7, <5>1
        <4> QED BY <4>1, <4>2
      <3>9. less[v] = list[j]
        <4>1. CASE j < k
          BY <3>4, <3>7, <4>1
        <4>2. CASE ~(j < k)
          <5>1. v = j - 1 /\ ~(v < k) /\ v + 1 = j
            BY <3>1, <3>3, <3>5, <3>6, <4>2
          <5> HIDE DEF v
          <5> QED BY <3>4, <3>7, <5>1
        <4> QED BY <4>1, <4>2
      <3> HIDE DEF u, v
      <3>10. DOMAIN less = 1..(n - 1)
        BY <3>4
      <3>11. Before(less, m, l)
        BY <3>5, <3>7, <3>8, <3>9, <3>10 DEF Before
      <3> QED BY <3>2, <3>6, <3>11
    <2>2. CASE ~(s = side /\ p = price)
      <3>1. r.levels[s][p] = b.levels[s][p]
        BY <1>2, <1>5, <2>2 DEF OtherLevels
      <3> QED BY <1>3, <3>1
    <2> QED BY <2>1, <2>2
  <1> QED BY <1>1, <1>4, <1>8, AheadKept

(* A reduction costs no order its place. *)
LEMMA ResizedAhead ==
  ASSUME NEW b, Sound(b), NEW r, NEW id, NEW qty, Resized(b, r, id, qty),
         NEW x, NEW y, Ahead(b, x, y)
  PROVE  Ahead(r, x, y)
  <1> DEFINE s == b.orders[x].side
             p == b.orders[x].price
             side == b.orders[id].side
             price == b.orders[id].price
  <1>1. AheadIn(b, s, p, x, y)
    BY AheadIs
  <1>2. s \in Sides /\ p \in DOMAIN b.levels[s]
    BY <1>1, AheadList
  <1>3. /\ x \in DOMAIN b.orders /\ y \in DOMAIN b.orders
        /\ Before(b.levels[s][p].orders, b.orders[x].it, b.orders[y].it)
    BY <1>1 DEF AheadIn
  <1>4. /\ r.orders = b.orders /\ OtherLevels(b, r, side, price)
        /\ r.levels[side][price].orders = b.levels[side][price].orders
    BY DEF Resized
  <1>5. r.levels[s][p].orders = b.levels[s][p].orders
    <2>1. CASE s = side /\ p = price
      BY <1>4, <2>1
    <2>2. CASE ~(s = side /\ p = price)
      BY <1>2, <1>4, <2>2 DEF OtherLevels
    <2> QED BY <2>1, <2>2
  <1> QED BY <1>1, <1>3, <1>4, <1>5, AheadKept


(* modify lets y overtake x only if it makes x larger. *)
LEMMA RequeueOvertakes ==
  ASSUME NEW b, Sound(b), NEW id \in DOMAIN b.orders, NEW price \in Prices,
         NEW qty \in Quantities, qty # 0,
         ~(price = b.orders[id].price /\ qty <= b.nodes[b.orders[id].it].quantity),
         NEW r, r = Requeue(b, id, price, qty),
         NEW x, NEW y, Ahead(b, x, y), Ahead(r, y, x), r.orders[x].price = b.orders[x].price
  PROVE  QuantityOf(r, x) > QuantityOf(b, x)
  <1> DEFINE c == Cancel(b, id).book
             n == NewNode(c)
             side == b.orders[id].side
             old == b.nodes[b.orders[id].it].quantity
  <1>1. PICK k : IsKth(b, id, b.orders[id], k)
    BY OrderPlace
  <1>2. Sound(c) /\ id \notin DOMAIN c.orders /\ Added(c, r, id, side, price, qty, n)
    BY <1>1, RequeueShape
  <1>3. Removed(b, c, id, k)
    BY <1>1, CancelShape
  <1>4. /\ b \in Books /\ side \in Sides /\ id \in Ids
        /\ b.orders[id].it \in DOMAIN b.nodes
    <2>1. b \in Books
      BY DEF Sound
    <2>2. side \in Sides /\ b.orders[id].it \in DOMAIN b.nodes
      BY <1>1 DEF IsKth
    <2> QED BY <2>1, <2>2, BookParts
  <1>5. old \in Quantities
    BY <1>4, BookParts
  <1> HIDE DEF c, n, side
  <1>6. Sound(r)
    BY <1>2, <1>4, AddedSound
  <1>7. y # id
    BY <1>2, <1>4, <1>6, AddedLast
  <1>8. x = id
    <2> SUFFICES ASSUME x # id PROVE FALSE
      OBVIOUS
    <2>1. Ahead(c, x, y)
      BY <1>1, <1>3, <1>7, RemovedAhead
    <2>2. Ahead(r, x, y)
      BY <1>2, <1>4, <2>1, AddedAhead
    <2> QED BY <1>6, <2>2, AheadOneWay
  <1>9. /\ r.orders[id].price = price /\ r.orders[id].it = n
        /\ r.nodes[n].quantity = qty
    BY <1>2 DEF Added, Located, Put
  <1>10. QuantityOf(r, x) = qty /\ QuantityOf(b, x) = old
    BY <1>8, <1>9 DEF QuantityOf
  <1>11. ~(qty <= old)
    BY <1>8, <1>9
  <1> HIDE DEF old
  <1> QED BY <1>5, <1>10, <1>11, BookAssumption DEF Quantities

(* r lets nobody of b overtake. *)
NoneOvertaken(b, r) == \A x, y : Ahead(b, x, y) => ~Ahead(r, y, x)

(* So it is when the call is refused, ... *)
LEMMA SameNoneOvertaken ==
  ASSUME NEW b, Sound(b)
  PROVE  NoneOvertaken(b, b)
  BY AheadOneWay DEF NoneOvertaken

(* ... when an order goes, ... *)
LEMMA RemovedNoneOvertaken ==
  ASSUME NEW b, Sound(b), NEW r, NEW id \in DOMAIN b.orders, NEW k,
         IsKth(b, id, b.orders[id], k), Removed(b, r, id, k)
  PROVE  NoneOvertaken(b, r)
  <1>1. Sound(r)
    BY RemovedSound
  <1> SUFFICES ASSUME NEW x, NEW y, Ahead(b, x, y), Ahead(r, y, x)
               PROVE  FALSE
    BY DEF NoneOvertaken
  <1>2. x \in DOMAIN r.orders /\ y \in DOMAIN r.orders
    BY DEF Ahead
  <1>3. x # id /\ y # id
    BY <1>2 DEF Removed, Unlocated
  <1>4. Ahead(r, x, y)
    BY <1>3, RemovedAhead
  <1> QED BY <1>1, <1>4, AheadOneWay

(* ... and when an order is resized in place. *)
LEMMA ResizedNoneOvertaken ==
  ASSUME NEW b, Sound(b), NEW r, NEW id \in DOMAIN b.orders, NEW k,
         IsKth(b, id, b.orders[id], k), NEW qty \in Quantities, qty # 0,
         Resized(b, r, id, qty)
  PROVE  NoneOvertaken(b, r)
  <1>1. Sound(r)
    BY ResizedSound
  <1> SUFFICES ASSUME NEW x, NEW y, Ahead(b, x, y), Ahead(r, y, x)
               PROVE  FALSE
    BY DEF NoneOvertaken
  <1>2. Ahead(r, x, y)
    BY ResizedAhead
  <1> QED BY <1>1, <1>2, AheadOneWay

(* cancel *)
LEMMA CancelNoneOvertaken ==
  ASSUME NEW b, Sound(b), NEW id
  PROVE  NoneOvertaken(b, Cancel(b, id).book)
  <1>1. CASE id \notin DOMAIN b.orders
    <2>1. Cancel(b, id).book = b
      BY <1>1 DEF Cancel, Fail
    <2> QED BY <2>1, SameNoneOvertaken
  <1>2. CASE id \in DOMAIN b.orders
    <2>1. PICK k : IsKth(b, id, b.orders[id], k)
      BY <1>2, OrderPlace
    <2>2. Removed(b, Cancel(b, id).book, id, k)
      BY <1>2, <2>1, CancelShape
    <2> QED BY <1>2, <2>1, <2>2, RemovedNoneOvertaken
  <1> QED BY <1>1, <1>2

(* add *)
LEMMA AddNoneOvertaken ==
  ASSUME NEW b, Sound(b), NEW id \in Ids, NEW side \in Sides, NEW price \in Prices,
         NEW qty \in Quantities
  PROVE  NoneOvertaken(b, Add(b, id, side, price, qty).book)
  <1> DEFINE r == Add(b, id, side, price, qty).book
  <1>1. CASE qty = 0 \/ id \in DOMAIN b.orders
    <2>1. r = b
      BY <1>1 DEF Add, Fail
    <2> QED BY <2>1, SameNoneOvertaken
  <1>2. CASE ~(qty = 0 \/ id \in DOMAIN b.orders)
    <2>1. Added(b, r, id, side, price, qty, NewNode(b))
      BY <1>2, AddShape
    <2>2. Sound(r)
      BY <1>2, <2>1, AddedSound
    <2> HIDE DEF r
    <2> SUFFICES ASSUME NEW x, NEW y, Ahead(b, x, y), Ahead(r, y, x)
                 PROVE  FALSE
      BY DEF NoneOvertaken, r
    <2>3. Ahead(r, x, y)
      BY <1>2, <2>1, AddedAhead
    <2> QED BY <2>2, <2>3, AheadOneWay
  <1> QED BY <1>1, <1>2

(* execute *)
LEMMA ExecuteNoneOvertaken ==
  ASSUME NEW b, Sound(b), NEW id, NEW qty \in Quantities
  PROVE  NoneOvertaken(b, Execute(b, id, qty).book)
  <1> DEFINE r == FillOrder(b, id, qty)
             old == b.nodes[b.orders[id].it].quantity
  <1>1. CASE id \notin DOMAIN b.orders
    <2>1. Execute(b, id, qty).book = b
      BY <1>1 DEF Execute, Fail
    <2> QED BY <2>1, SameNoneOvertaken
  <1>2. CASE id \in DOMAIN b.orders
    <2>1. PICK k : IsKth(b, id, b.orders[id], k)
      BY <1>2, OrderPlace
    <2>2. Execute(b, id, qty).book = r
      BY <1>2 DEF Execute, Ok
    <2>3. /\ qty >= old => Removed(b, r, id, k)
          /\ ~(qty >= old) => Resized(b, r, id, old - qty)
      BY <1>2, <2>1, FillShape
    <2>4. old \in Quantities
      <3>1. b \in Books /\ b.orders[id].it \in DOMAIN b.nodes
        BY <2>1 DEF Sound, IsKth
      <3> QED BY <3>1, BookParts
    <2> HIDE DEF r
    <2>5. CASE qty >= old
      BY <1>2, <2>1, <2>2, <2>3, <2>5, RemovedNoneOvertaken
    <2>6. CASE ~(qty >= old)
      <3> HIDE DEF old
      <3>1. old - qty \in Quantities /\ old - qty # 0
        BY <2>4, <2>6, BookAssumption DEF Quantities
      <3> QED BY <1>2, <2>1, <2>2, <2>3, <2>6, <3>1, ResizedNoneOvertaken
    <2> QED BY <2>5, <2>6
  <1> QED BY <1>1, <1>2

(* modify *)
LEMMA ModifyOvertakes ==
  ASSUME NEW b, Sound(b), NEW id, NEW price \in Prices, NEW qty \in Quantities,
         NEW r, r = Modify(b, id, price, qty).book,
         NEW x, NEW y, Ahead(b, x, y), Ahead(r, y, x), r.orders[x].price = b.orders[x].price
  PROVE  QuantityOf(r, x) > QuantityOf(b, x)
  <1> DEFINE old == b.nodes[b.orders[id].it].quantity
  <1>1. CASE qty = 0
    <2>1. r = Cancel(b, id).book
      BY <1>1 DEF Modify
    <2>2. NoneOvertaken(b, r)
      BY <2>1, CancelNoneOvertaken
    <2> QED BY <2>2 DEF NoneOvertaken
  <1>2. CASE qty # 0 /\ id \notin DOMAIN b.orders
    <2>1. r = b
      BY <1>2 DEF Modify, Fail
    <2> QED BY <2>1, AheadOneWay
  <1>3. CASE qty # 0 /\ id \in DOMAIN b.orders
    <2>1. PICK k : IsKth(b, id, b.orders[id], k)
      BY <1>3, OrderPlace
    <2>2. /\ price = b.orders[id].price /\ qty <= old => Resized(b, r, id, qty)
          /\ ~(price = b.orders[id].price /\ qty <= old) => r = Requeue(b, id, price, qty)
      BY <1>3, <2>1, ModifyShape
    <2>3. CASE price = b.orders[id].price /\ qty <= old
      <3>1. NoneOvertaken(b, r)
        BY <1>3, <2>1, <2>2, <2>3, ResizedNoneOvertaken
      <3> QED BY <3>1 DEF NoneOvertaken
    <2>4. CASE ~(price = b.orders[id].price /\ qty <= old)
      BY <1>3, <2>2, <2>4, RequeueOvertakes
    <2> QED BY <2>3, <2>4
  <1> QED BY <1>1, <1>2, <1>3

(* Who is overtaken has grown. *)
Outgrown(b, r) ==
  \A x, y \in Ids : Ahead(b, x, y) /\ Ahead(r, y, x) /\ r.orders[x].price = b.orders[x].price
                      => QuantityOf(r, x) > QuantityOf(b, x)

(* Every call keeps priority. *)
LEMMA PriorityStep == BookInv /\ [BookNext]_bookVars => Outgrown(book, book')
  <1> SUFFICES ASSUME BookInv, [BookNext]_bookVars
               PROVE  Outgrown(book, book')
    OBVIOUS
  <1>1. Sound(book)
    BY DEF BookInv
  <1>2. NoneOvertaken(book, book') => Outgrown(book, book')
    BY DEF NoneOvertaken, Outgrown
  <1>3. CASE \E id \in Ids, side \in Sides, price \in Prices, qty \in Quantities :
               DoAdd(id, side, price, qty)
    <2>1. PICK id \in Ids, side \in Sides, price \in Prices, qty \in Quantities :
            DoAdd(id, side, price, qty)
      BY <1>3
    <2>2. book' = Add(book, id, side, price, qty).book
      BY <2>1 DEF DoAdd, Apply
    <2> QED BY <1>1, <1>2, <2>2, AddNoneOvertaken
  <1>4. CASE \E id \in Ids : DoCancel(id)
    <2>1. PICK id \in Ids : DoCancel(id)
      BY <1>4
    <2>2. book' = Cancel(book, id).book
      BY <2>1 DEF DoCancel, Apply
    <2> QED BY <1>1, <1>2, <2>2, CancelNoneOvertaken
  <1>5. CASE \E id \in Ids, price \in Prices, qty \in Quantities : DoModify(id, price, qty)
    <2>1. PICK id \in Ids, price \in Prices, qty \in Quantities : DoModify(id, price, qty)
      BY <1>5
    <2>2. book' = Modify(book, id, price, qty).book
      BY <2>1 DEF DoModify, Apply
    <2> QED BY <1>1, <2>2, ModifyOvertakes DEF Outgrown
  <1>6. CASE \E id \in Ids, qty \in Quantities : DoExecute(id, qty)
    <2>1. PICK id \in Ids, qty \in Quantities : DoExecute(id, qty)
      BY <1>6
    <2>2. book' = Execute(book, id, qty).book
      BY <2>1 DEF DoExecute, Apply
    <2> QED BY <1>1, <1>2, <2>2, ExecuteNoneOvertaken
  <1>7. CASE DoClear
    <2>1. book' = EmptyBook
      BY <1>7 DEF DoClear, Apply, Ok
    <2>2. DOMAIN book'.orders = {}
      BY <2>1, EmptyMap DEF EmptyBook
    <2> QED BY <2>2 DEF Outgrown, Ahead
  <1>8. CASE UNCHANGED bookVars
    <2>1. book' = book
      BY <1>8 DEF bookVars
    <2> QED BY <1>1, <1>2, <2>1, SameNoneOvertaken
  <1> QED BY <1>3, <1>4, <1>5, <1>6, <1>7, <1>8 DEF BookNext

(* An order that stays in its level is overtaken only when its own size was *)
(* increased, whatever is done to the other orders.                         *)
THEOREM PriorityAlwaysKept == BookSpec => PriorityKept
  <1>1. BookInv /\ [BookNext]_bookVars =>
          [\A a, b \in Ids :
             /\ Ahead(book, a, b) /\ Ahead(book', b, a)
             /\ book'.orders[a].price = book.orders[a].price
             => QuantityOf(book', a) > QuantityOf(book, a)]_bookVars
    BY PriorityStep DEF Outgrown
  <1> QED BY <1>1, BookInvariant, PTL DEF BookSpec, PriorityKept
==============================================================================
