--------------------------- MODULE ExchangeProofs ----------------------------
(***************************************************************************)
(* The simulator's own state is sound, and the books that are built from   *)
(* its messages mirror it, for any number of symbols, orders and messages. *)
(***************************************************************************)
EXTENDS Exchange, OrderBookProofs

(* Orders as the exchange keeps them. *)
SentOrders == [side : Sides, price : Prices, qty : 1..(QuantityRange - 1)]

Depths == [Sides -> PartialFunctions(Prices, Quantities)]

SymbolStates ==
  [ref_mid : Nat, orders : PartialFunctions(Ids, SentOrders), live_ids : Seq(Ids),
   index : PartialFunctions(Ids, Nat), depth : Depths]

(* The orders of a level, and the size of each order. *)
LevelIds(orders, side, p) ==
  {id \in DOMAIN orders : orders[id].side = side /\ orders[id].price = p}
Amounts(orders) == [id \in DOMAIN orders |-> orders[id].qty]

(* depth has the levels that have orders, each with the sum of its orders. *)
Exact(orders, depth) ==
  \A side \in Sides, p \in Prices :
    /\ p \in DOMAIN depth[side] <=> LevelIds(orders, side, p) # {}
    /\ p \in DOMAIN depth[side] =>
         IsSetSum(LevelIds(orders, side, p), Amounts(orders), depth[side][p])

(* A map of orders has finite levels, of positive amounts. *)
LEMMA LevelFinite ==
  ASSUME NEW orders \in PartialFunctions(Ids, SentOrders), NEW side, NEW p
  PROVE  /\ IsFiniteSet(LevelIds(orders, side, p))
         /\ \A id \in LevelIds(orders, side, p) :
              Amounts(orders)[id] = orders[id].qty /\ Amounts(orders)[id] \in 1..(QuantityRange - 1)
  <1>1. orders \in [DOMAIN orders -> SentOrders] /\ DOMAIN orders \subseteq Ids
    BY PartialFunction
  <1>2. LevelIds(orders, side, p) \in SUBSET Ids
    BY <1>1 DEF LevelIds
  <1>3. IsFiniteSet(LevelIds(orders, side, p))
    BY <1>2, FS_Subset, BookAssumption
  <1> QED BY <1>1, <1>3 DEF LevelIds, Amounts, SentOrders

-----------------------------------------------------------------------------
(* The depth of a symbol. *)

(* The fields of a symbol state have their types. *)
LEMMA StateParts ==
  ASSUME NEW s \in SymbolStates
  PROVE  /\ s.ref_mid \in Nat
         /\ s.orders \in PartialFunctions(Ids, SentOrders)
         /\ s.live_ids \in Seq(Ids)
         /\ s.index \in PartialFunctions(Ids, Nat)
         /\ s.depth \in Depths
         /\ \A side \in Sides : s.depth[side] \in PartialFunctions(Prices, Quantities)
  BY DEF SymbolStates, Depths

Redepthed(s, side, x) == [s EXCEPT !.depth[side] = x]

(* r is s with another map of levels on a side. *)
IsRedepthed(r, s, side, x) ==
  /\ r \in SymbolStates
  /\ r.ref_mid = s.ref_mid /\ r.orders = s.orders
  /\ r.live_ids = s.live_ids /\ r.index = s.index
  /\ r.depth[side] = x
  /\ \A other \in Sides : other # side => r.depth[other] = s.depth[other]

(* Only the levels of a side change. *)
LEMMA RedepthedShape ==
  ASSUME NEW s \in SymbolStates, NEW side \in Sides,
         NEW x \in PartialFunctions(Prices, Quantities)
  PROVE  IsRedepthed(Redepthed(s, side, x), s, side, x)
  <1> DEFINE d == [s.depth EXCEPT ![side] = x]
             r == [s EXCEPT !.depth = d]
  <1>1. s.depth \in Depths
    BY StateParts
  <1>2. d \in Depths /\ d[side] = x /\ \A other \in Sides : other # side => d[other] = s.depth[other]
    BY <1>1 DEF Depths
  <1>3. Redepthed(s, side, x) = r
    BY DEF Redepthed
  <1> HIDE DEF d
  <1>4. /\ r \in SymbolStates /\ r.depth = d /\ r.ref_mid = s.ref_mid /\ r.orders = s.orders
        /\ r.live_ids = s.live_ids /\ r.index = s.index
    BY <1>2 DEF SymbolStates
  <1> HIDE DEF r
  <1> QED BY <1>2, <1>3, <1>4 DEF IsRedepthed

DepthAt(s, side, p) == IF p \in DOMAIN s.depth[side] THEN s.depth[side][p] ELSE 0

(* r is s with another level of a side at p. *)
OtherDepths(r, s, side, p) ==
  /\ r \in SymbolStates
  /\ r.ref_mid = s.ref_mid /\ r.orders = s.orders
  /\ r.live_ids = s.live_ids /\ r.index = s.index
  /\ \A other \in Sides : other # side => r.depth[other] = s.depth[other]
  /\ DOMAIN r.depth[side] \ {p} = DOMAIN s.depth[side] \ {p}
  /\ \A x \in DOMAIN s.depth[side] : x # p => r.depth[side][x] = s.depth[side][x]

(* add_depth *)
LEMMA AddDepthShape ==
  ASSUME NEW s \in SymbolStates, NEW side \in Sides, NEW p \in Prices, NEW q \in Quantities,
         NEW r, r = AddDepth(s, side, p, q)
  PROVE  /\ OtherDepths(r, s, side, p)
         /\ p \in DOMAIN r.depth[side]
         /\ r.depth[side][p] = Plus(DepthAt(s, side, p), q)
  <1> DEFINE d == s.depth[side]
             v == Plus(DepthAt(s, side, p), q)
             x == Insert(d, p, v)
  <1>1. d \in PartialFunctions(Prices, Quantities)
    BY StateParts
  <1>2. DepthAt(s, side, p) \in Quantities /\ v \in Quantities
    <2>1. DepthAt(s, side, p) \in Quantities
      BY <1>1, PartialFunction, BookAssumption DEF DepthAt, Quantities
    <2>2. DepthAt(s, side, p) + q \in Int
      BY <2>1 DEF Quantities
    <2> QED BY <2>1, <2>2, BookAssumption DEF Plus, Quantities
  <1>3. r = Redepthed(s, side, x)
    BY DEF AddDepth, Redepthed, DepthAt
  <1> HIDE DEF d, v
  <1>4. IsInsert(x, d, p, v, Prices, Quantities)
    BY <1>1, <1>2, InsertShape
  <1> HIDE DEF x
  <1>5. IsRedepthed(r, s, side, x)
    BY <1>3, <1>4, RedepthedShape DEF IsInsert
  <1> QED BY <1>4, <1>5 DEF OtherDepths, IsInsert, IsRedepthed, d, v

(* remove_depth *)
LEMMA RemoveDepthShape ==
  ASSUME NEW s \in SymbolStates, NEW side \in Sides, NEW p \in Prices, NEW q \in Quantities,
         NEW r, r = RemoveDepth(s, side, p, q)
  PROVE  /\ OtherDepths(r, s, side, p)
         /\ DOMAIN r.depth[side] \subseteq DOMAIN s.depth[side]
         /\ p \in DOMAIN s.depth[side] =>
              IF s.depth[side][p] <= q THEN p \notin DOMAIN r.depth[side]
              ELSE p \in DOMAIN r.depth[side] /\ r.depth[side][p] = s.depth[side][p] - q
  <1> DEFINE d == s.depth[side]
  <1>1. d \in PartialFunctions(Prices, Quantities)
    BY StateParts
  <1>2. CASE p \notin DOMAIN d
    <2>1. r = s
      BY <1>2 DEF RemoveDepth
    <2> QED BY <1>2, <2>1 DEF OtherDepths
  <1>3. CASE p \in DOMAIN d /\ d[p] <= q
    <2> DEFINE x == Erase(d, p)
    <2>1. r = Redepthed(s, side, x)
      BY <1>3 DEF RemoveDepth, Redepthed, Exhausted
    <2> HIDE DEF d
    <2>2. IsErase(x, d, p, Prices, Quantities)
      BY <1>1, EraseShape
    <2> HIDE DEF x
    <2>3. IsRedepthed(r, s, side, x)
      BY <2>1, <2>2, RedepthedShape DEF IsErase
    <2> QED BY <1>3, <2>2, <2>3 DEF OtherDepths, IsErase, IsRedepthed, d
  <1>4. CASE p \in DOMAIN d /\ ~(d[p] <= q)
    <2> DEFINE v == d[p] - q
               x == Insert(d, p, v)
    <2>1. r = Redepthed(s, side, x)
      BY <1>4 DEF RemoveDepth, Redepthed, Exhausted
    <2>2. v \in Quantities
      <3>1. d[p] \in Quantities
        BY <1>1, <1>4, PartialFunction
      <3> HIDE DEF d
      <3> QED BY <1>4, <3>1, BookAssumption DEF Quantities
    <2> HIDE DEF d, v
    <2>3. IsInsert(x, d, p, v, Prices, Quantities)
      BY <1>1, <2>2, InsertShape
    <2> HIDE DEF x
    <2>4. IsRedepthed(r, s, side, x)
      BY <2>1, <2>3, RedepthedShape DEF IsInsert
    <2> QED BY <1>4, <2>3, <2>4 DEF OtherDepths, IsInsert, IsRedepthed, d, v
  <1> QED BY <1>2, <1>3, <1>4

(* Amounts of orders that are in both maps agree if the orders do. *)
LEMMA SameAmounts ==
  ASSUME NEW orders, NEW other, NEW S, NEW t, IsSetSum(S, Amounts(orders), t),
         S \subseteq DOMAIN orders, S \subseteq DOMAIN other,
         \A id \in S : other[id].qty = orders[id].qty
  PROVE  IsSetSum(S, Amounts(other), t)
  <1>1. \A id \in S : Amounts(other)[id] = Amounts(orders)[id]
    BY DEF Amounts
  <1> QED BY <1>1, SetSumSame

(* The amounts of a level without one of its orders. *)
LEMMA LevelErased ==
  ASSUME NEW orders \in PartialFunctions(Ids, SentOrders), NEW id \in DOMAIN orders,
         NEW left, IsErase(left, orders, id, Ids, SentOrders), NEW side, NEW p
  PROVE  /\ LevelIds(left, side, p) = LevelIds(orders, side, p) \ {id}
         /\ \A t : IsSetSum(LevelIds(orders, side, p), Amounts(orders), t) =>
              IF orders[id].side = side /\ orders[id].price = p
              THEN /\ IsSetSum(LevelIds(left, side, p), Amounts(left), t - orders[id].qty)
                   /\ t \in Int
              ELSE IsSetSum(LevelIds(left, side, p), Amounts(left), t)
  <1> DEFINE S == LevelIds(orders, side, p)
             L == LevelIds(left, side, p)
  <1>1. L = S \ {id}
    BY DEF LevelIds, IsErase
  <1>2. L \subseteq DOMAIN orders /\ L \subseteq DOMAIN left
        /\ \A x \in L : left[x].qty = orders[x].qty
    BY DEF LevelIds, IsErase
  <1>3. id \in S <=> orders[id].side = side /\ orders[id].price = p
    BY DEF LevelIds
  <1>4. Amounts(orders)[id] = orders[id].qty
    BY DEF Amounts
  <1> HIDE DEF S, L
  <1>5. ASSUME NEW t, IsSetSum(S, Amounts(orders), t)
        PROVE  IF id \in S THEN IsSetSum(L, Amounts(left), t - orders[id].qty) /\ t \in Int
               ELSE IsSetSum(L, Amounts(left), t)
    <2>1. CASE id \in S
      <3>1. IsSetSum(L, Amounts(orders), t - orders[id].qty) /\ t \in Int
        BY <1>1, <1>4, <1>5, <2>1, SetSumWithout
      <3> QED BY <1>2, <2>1, <3>1, SameAmounts
    <2>2. CASE id \notin S
      <3>1. IsSetSum(L, Amounts(orders), t)
        BY <1>1, <1>5, <2>2
      <3> QED BY <1>2, <2>2, <3>1, SameAmounts
    <2> QED BY <2>1, <2>2
  <1> QED BY <1>1, <1>3, <1>5 DEF S, L

(* The amounts of a level with one more order. *)
LEMMA LevelInserted ==
  ASSUME NEW orders \in PartialFunctions(Ids, SentOrders), NEW id, id \notin DOMAIN orders,
         NEW o \in SentOrders,
         NEW more, IsInsert(more, orders, id, o, Ids, SentOrders), NEW side, NEW p
  PROVE  IF o.side = side /\ o.price = p
         THEN /\ LevelIds(more, side, p) = LevelIds(orders, side, p) \cup {id}
              /\ \A t : IsSetSum(LevelIds(orders, side, p), Amounts(orders), t) =>
                   IsSetSum(LevelIds(more, side, p), Amounts(more), t + o.qty)
         ELSE /\ LevelIds(more, side, p) = LevelIds(orders, side, p)
              /\ \A t : IsSetSum(LevelIds(orders, side, p), Amounts(orders), t) =>
                   IsSetSum(LevelIds(more, side, p), Amounts(more), t)
  <1> DEFINE S == LevelIds(orders, side, p)
             M == LevelIds(more, side, p)
  <1>1. IF o.side = side /\ o.price = p THEN M = S \cup {id} ELSE M = S
    BY DEF LevelIds, IsInsert
  <1>2. S \subseteq DOMAIN orders /\ S \subseteq DOMAIN more /\ id \notin S
        /\ \A x \in S : more[x].qty = orders[x].qty
    BY DEF LevelIds, IsInsert
  <1>3. Amounts(more)[id] = o.qty /\ o.qty \in Int
    <2>1. Amounts(more)[id] = o.qty
      BY DEF Amounts, IsInsert
    <2>2. o.qty \in 1..(QuantityRange - 1)
      BY DEF SentOrders
    <2> QED BY <2>1, <2>2, BookAssumption
  <1> HIDE DEF S, M
  <1>4. ASSUME NEW t, IsSetSum(S, Amounts(orders), t)
        PROVE  IsSetSum(S, Amounts(more), t) /\ IsSetSum(S \cup {id}, Amounts(more), t + o.qty)
    <2>1. IsSetSum(S, Amounts(more), t)
      BY <1>2, <1>4, SameAmounts
    <2>2. IsSetSum(S \cup {id}, Amounts(more), t + Amounts(more)[id])
      BY <1>2, <1>3, <2>1, SetSumWith
    <2> QED BY <1>3, <2>1, <2>2
  <1> QED BY <1>1, <1>4 DEF S, M

(* The levels of a side change at most at p. *)
LevelsBut(depth, d, side, p) ==
  /\ \A other \in Sides : other # side => depth[other] = d[other]
  /\ DOMAIN depth[side] \ {p} = DOMAIN d[side] \ {p}
  /\ \A x \in DOMAIN d[side] : x # p => depth[side][x] = d[side][x]

(* Depth stays exact when an order goes and remove_depth takes its amount. *)
LEMMA ExactErased ==
  ASSUME NEW orders \in PartialFunctions(Ids, SentOrders), NEW d \in Depths, Exact(orders, d),
         NEW id \in DOMAIN orders, NEW left, IsErase(left, orders, id, Ids, SentOrders),
         NEW side, side = orders[id].side, NEW p, p = orders[id].price,
         NEW depth, LevelsBut(depth, d, side, p),
         p \in DOMAIN d[side] =>
           IF d[side][p] <= orders[id].qty THEN p \notin DOMAIN depth[side]
           ELSE p \in DOMAIN depth[side] /\ depth[side][p] = d[side][p] - orders[id].qty
  PROVE  Exact(left, depth)
  <1> DEFINE o == orders[id]
  <1>1. o \in SentOrders /\ side \in Sides /\ p \in Prices /\ o.qty \in 1..(QuantityRange - 1)
    <2>1. o \in SentOrders
      BY PartialFunction
    <2> QED BY <2>1 DEF SentOrders
  <1>2. id \in LevelIds(orders, side, p)
    BY DEF LevelIds
  <1>3. /\ p \in DOMAIN d[side]
        /\ IsSetSum(LevelIds(orders, side, p), Amounts(orders), d[side][p])
    BY <1>1, <1>2 DEF Exact
  <1> DEFINE t == d[side][p]
             L == LevelIds(left, side, p)
  <1>4. /\ IF t <= o.qty THEN p \notin DOMAIN depth[side]
           ELSE p \in DOMAIN depth[side] /\ depth[side][p] = t - o.qty
        /\ LevelsBut(depth, d, side, p)
    BY <1>3
  <1>5. IsSetSum(L, Amounts(left), t - o.qty) /\ t \in Int
    BY <1>3, LevelErased
  <1>6. left \in PartialFunctions(Ids, SentOrders)
    BY DEF IsErase
  <1>7. /\ IsFiniteSet(L)
        /\ \A x \in L : Amounts(left)[x] \in 1..(QuantityRange - 1)
    BY <1>6, LevelFinite
  <1>8. L = {} <=> t <= o.qty
    <2> DEFINE f == Amounts(left)
    <2>1. \A x \in L : f[x] \in Nat /\ f[x] >= 1
      BY <1>7
    <2> HIDE DEF L, f, o, t
    <2>2. ASSUME NEW x \in L PROVE ~(t <= o.qty)
      <3>1. f[x] <= t - o.qty
        BY <1>5, <1>7, <2>1, SetSumBounds DEF f
      <3>2. f[x] \in Nat /\ f[x] >= 1 /\ t \in Int /\ o.qty \in Int
        BY <1>1, <1>5, <2>1
      <3> QED BY <3>1, <3>2
    <2>3. ASSUME L = {} PROVE t <= o.qty
      <3>1. IsSetSum(L, f, 0)
        BY <2>3, SetSumEmpty
      <3>2. t - o.qty = 0
        BY <1>5, <1>7, <3>1, SetSumUnique DEF f
      <3>3. t \in Int /\ o.qty \in Int
        BY <1>1, <1>5
      <3> QED BY <3>2, <3>3
    <2> QED BY <2>2, <2>3
  <1>9. ASSUME NEW x \in Sides, NEW y \in Prices
        PROVE  /\ y \in DOMAIN depth[x] <=> LevelIds(left, x, y) # {}
               /\ y \in DOMAIN depth[x] =>
                    IsSetSum(LevelIds(left, x, y), Amounts(left), depth[x][y])
    <2>1. CASE x = side /\ y = p
      BY <1>4, <1>5, <1>8, <2>1
    <2>2. CASE ~(x = side /\ y = p)
      <3>1. y \in DOMAIN depth[x] <=> y \in DOMAIN d[x]
        BY <1>4, <2>2 DEF LevelsBut
      <3>2. y \in DOMAIN d[x] => depth[x][y] = d[x][y]
        BY <1>4, <2>2 DEF LevelsBut
      <3>3. id \notin LevelIds(orders, x, y)
        BY <2>2 DEF LevelIds
      <3>4. LevelIds(left, x, y) = LevelIds(orders, x, y)
        <4>1. LevelIds(left, x, y) = LevelIds(orders, x, y) \ {id}
          BY LevelErased
        <4> QED BY <3>3, <4>1
      <3>5. /\ y \in DOMAIN d[x] <=> LevelIds(orders, x, y) # {}
            /\ y \in DOMAIN d[x] => IsSetSum(LevelIds(orders, x, y), Amounts(orders), d[x][y])
        BY DEF Exact
      <3>6. y \in DOMAIN d[x] => IsSetSum(LevelIds(left, x, y), Amounts(left), d[x][y])
        <4>1. ~(orders[id].side = x /\ orders[id].price = y)
          BY <2>2
        <4> QED BY <3>5, <4>1, LevelErased
      <3> QED BY <3>1, <3>2, <3>4, <3>5, <3>6
    <2> QED BY <2>1, <2>2
  <1> QED BY <1>9 DEF Exact

-----------------------------------------------------------------------------
(* register_order and unregister_order. *)

(* live_ids lists each order once, and index finds it there. *)
Indexed(s) ==
  /\ DOMAIN s.index = DOMAIN s.orders
  /\ \A id \in DOMAIN s.index :
       s.index[id] \in DOMAIN s.live_ids /\ s.live_ids[s.index[id]] = id
  /\ \A i \in DOMAIN s.live_ids :
       s.live_ids[i] \in DOMAIN s.index /\ s.index[s.live_ids[i]] = i

Relisting(s, orders, index, live_ids) ==
  [s EXCEPT !.orders = orders, !.index = index, !.live_ids = live_ids]

(* Only the orders and their lists change. *)
LEMMA RelistingShape ==
  ASSUME NEW s \in SymbolStates, NEW orders \in PartialFunctions(Ids, SentOrders),
         NEW index \in PartialFunctions(Ids, Nat), NEW live_ids \in Seq(Ids),
         NEW r, r = Relisting(s, orders, index, live_ids)
  PROVE  /\ r \in SymbolStates
         /\ r.orders = orders /\ r.index = index /\ r.live_ids = live_ids
         /\ r.ref_mid = s.ref_mid /\ r.depth = s.depth
  BY DEF Relisting, SymbolStates

(* r has one more order than s, and its amount in the depth of its level. *)
Registered(r, s, id, o) ==
  /\ r \in SymbolStates /\ r.ref_mid = s.ref_mid
  /\ IsInsert(r.orders, s.orders, id, o, Ids, SentOrders)
  /\ LevelsBut(r.depth, s.depth, o.side, o.price)
  /\ o.price \in DOMAIN r.depth[o.side]
  /\ r.depth[o.side][o.price] = Plus(DepthAt(s, o.side, o.price), o.qty)

(* register_order *)
LEMMA RegisterShape ==
  ASSUME NEW s \in SymbolStates, NEW id \in Ids, NEW side \in Sides, NEW p \in Prices,
         NEW q \in 1..(QuantityRange - 1), id \notin DOMAIN s.orders, Indexed(s),
         NEW r, r = RegisterOrder(s, id, side, p, q)
  PROVE  /\ Registered(r, s, id, [side |-> side, price |-> p, qty |-> q])
         /\ Indexed(r)
  <1> DEFINE o == [side |-> side, price |-> p, qty |-> q]
             n == Len(s.live_ids) + 1
             orders == Insert(s.orders, id, o)
             index == Insert(s.index, id, n)
             list == Append(s.live_ids, id)
             t == Relisting(s, orders, index, list)
  <1>1. /\ s.orders \in PartialFunctions(Ids, SentOrders) /\ s.live_ids \in Seq(Ids)
        /\ s.index \in PartialFunctions(Ids, Nat)
    BY StateParts
  <1>2. o \in SentOrders /\ o.side = side /\ o.price = p /\ o.qty = q
    BY DEF SentOrders
  <1>3. n \in Nat /\ Len(s.live_ids) \in Nat
    BY <1>1
  <1>4. r = AddDepth(t, side, p, q)
    BY DEF RegisterOrder, Relisting
  <1> HIDE DEF o
  <1>5. IsInsert(orders, s.orders, id, o, Ids, SentOrders)
    BY <1>1, <1>2, InsertShape
  <1>6. IsInsert(index, s.index, id, n, Ids, Nat)
    <2> HIDE DEF n
    <2> QED BY <1>1, <1>3, InsertShape
  <1>7. /\ list \in Seq(Ids) /\ Len(list) = n /\ list[n] = id
        /\ \A i \in 1..Len(s.live_ids) : list[i] = s.live_ids[i]
    BY <1>1
  <1>8. DOMAIN list = 1..n /\ DOMAIN s.live_ids = 1..Len(s.live_ids)
    BY <1>1, <1>7
  <1> HIDE DEF orders, index, list
  <1>9. /\ t \in SymbolStates
        /\ t.orders = orders /\ t.index = index /\ t.live_ids = list
        /\ t.ref_mid = s.ref_mid /\ t.depth = s.depth
    BY <1>5, <1>6, <1>7, RelistingShape DEF IsInsert
  <1> HIDE DEF t
  <1>10. q \in Quantities
    BY BookAssumption DEF Quantities
  <1>11. /\ OtherDepths(r, t, side, p)
         /\ p \in DOMAIN r.depth[side]
         /\ r.depth[side][p] = Plus(DepthAt(t, side, p), q)
    BY <1>4, <1>9, <1>10, AddDepthShape
  <1>12. r \in SymbolStates /\ r.orders = orders /\ r.index = index /\ r.live_ids = list
         /\ r.ref_mid = s.ref_mid
    BY <1>9, <1>11 DEF OtherDepths
  <1>13. LevelsBut(r.depth, s.depth, side, p)
    BY <1>9, <1>11 DEF OtherDepths, LevelsBut
  <1>14. DepthAt(t, side, p) = DepthAt(s, side, p)
    BY <1>9 DEF DepthAt
  <1>15. Registered(r, s, id, o)
    BY <1>2, <1>5, <1>11, <1>12, <1>13, <1>14 DEF Registered
  <1>16. DOMAIN index = DOMAIN orders
    BY <1>5, <1>6 DEF Indexed, IsInsert
  <1>17. ASSUME NEW x \in DOMAIN index
         PROVE  index[x] \in 1..n /\ list[index[x]] = x
    <2>1. CASE x = id
      BY <1>3, <1>6, <1>7, <2>1 DEF IsInsert
    <2>2. CASE x # id
      <3>1. x \in DOMAIN s.index /\ index[x] = s.index[x]
        BY <1>6, <2>2 DEF IsInsert
      <3>2. s.index[x] \in 1..Len(s.live_ids) /\ s.live_ids[s.index[x]] = x
        BY <1>8, <3>1 DEF Indexed
      <3> QED BY <1>3, <1>7, <3>1, <3>2
    <2> QED BY <2>1, <2>2
  <1>18. ASSUME NEW i \in 1..n
         PROVE  list[i] \in DOMAIN index /\ index[list[i]] = i
    <2>1. CASE i = n
      BY <1>6, <1>7, <2>1 DEF IsInsert
    <2>2. CASE i # n
      <3>1. i \in 1..Len(s.live_ids)
        BY <1>3, <2>2
      <3>2. s.live_ids[i] \in DOMAIN s.index /\ s.index[s.live_ids[i]] = i
        BY <1>8, <3>1 DEF Indexed
      <3>3. s.live_ids[i] # id
        BY <3>2 DEF Indexed
      <3> QED BY <1>6, <1>7, <3>1, <3>2, <3>3 DEF IsInsert
    <2> QED BY <2>1, <2>2
  <1>19. Indexed(r)
    BY <1>8, <1>12, <1>16, <1>17, <1>18 DEF Indexed
  <1> QED BY <1>15, <1>19 DEF o

(* r has one order less than s, and remove_depth took its amount. *)
Unregistered(r, s, id) ==
  /\ r \in SymbolStates /\ r.ref_mid = s.ref_mid
  /\ IsErase(r.orders, s.orders, id, Ids, SentOrders)
  /\ \E d \in SymbolStates :
       /\ d = RemoveDepth(s, s.orders[id].side, s.orders[id].price, s.orders[id].qty)
       /\ r.depth = d.depth

(* index has the place of each member of the list. *)
ListPlaces(index, list) ==
  /\ index \in PartialFunctions(Ids, Nat) /\ list \in Seq(Ids)
  /\ \A x \in DOMAIN index : index[x] \in DOMAIN list /\ list[index[x]] = x
  /\ \A i \in DOMAIN list : list[i] \in DOMAIN index /\ index[list[i]] = i

(* The swap-remove of a list and its index. *)
LEMMA SwapRemove ==
  ASSUME NEW index, NEW list, ListPlaces(index, list), NEW id \in DOMAIN index
  PROVE  LET short == Front([list EXCEPT ![index[id]] = Last(list)])
             small == Reindex(index, Last(list), index[id], id)
         IN  ListPlaces(small, short) /\ DOMAIN small = DOMAIN index \ {id}
  <1>0. /\ index \in PartialFunctions(Ids, Nat) /\ list \in Seq(Ids)
        /\ \A x \in DOMAIN index : index[x] \in DOMAIN list /\ list[index[x]] = x
        /\ \A i \in DOMAIN list : list[i] \in DOMAIN index /\ index[list[i]] = i
    BY DEF ListPlaces
  <1> DEFINE short == Front([list EXCEPT ![index[id]] = Last(list)])
             small == Reindex(index, Last(list), index[id], id)
  <1> DEFINE n == Len(list)
             slot == index[id]
             end == Last(list)
             swapped == [list EXCEPT ![slot] = end]
             moved == [index EXCEPT ![end] = slot]
  <1>1. n \in Nat /\ DOMAIN list = 1..n /\ index \in [DOMAIN index -> Nat] /\ DOMAIN index \subseteq Ids
    BY <1>0, PartialFunction
  <1>2. slot \in 1..n /\ list[slot] = id /\ n >= 1
    BY <1>0, <1>1
  <1>3. n \in 1..n
    BY <1>1, <1>2
  <1>4. end = list[n] /\ end \in DOMAIN index /\ index[end] = n /\ end \in Ids
    BY <1>0, <1>1, <1>3 DEF Last
  <1>5. /\ swapped \in Seq(Ids) /\ Len(swapped) = n
        /\ \A i \in 1..n : swapped[i] = IF i = slot THEN end ELSE list[i]
    BY <1>0, <1>1, <1>2, <1>4
  <1>6. moved \in [DOMAIN index -> Nat] /\ \A x \in DOMAIN index : moved[x] = IF x = end THEN slot ELSE index[x]
    BY <1>0, <1>1, <1>2, <1>4
  <1> HIDE DEF swapped, moved, end, n, slot, short, small
  <1>7. /\ short \in Seq(Ids) /\ DOMAIN short = 1..(n - 1)
        /\ \A i \in 1..(n - 1) : short[i] = IF i = slot THEN end ELSE list[i]
    <2>1. short = SubSeq(swapped, 1, n - 1)
      BY <1>5 DEF Front, swapped, slot, end, short
    <2>2. short \in Seq(Ids) /\ Len(short) = n - 1 /\ \A i \in 1..(n - 1) : short[i] = swapped[i]
      <3>1. /\ 1 \in 1..(n + 1) /\ n - 1 \in (1 - 1)..n /\ n - 1 \in Int
            /\ (IF 1 <= n - 1 THEN n - 1 - 1 + 1 ELSE 0) = n - 1 /\ n - 1 - 1 + 1 = n - 1
            /\ \A i \in 1..(n - 1) : 1 + i - 1 = i
        BY <1>1, <1>2
      <3>2. \A i \in 1..(n - 1) : swapped[i] \in Ids
        BY <1>1, <1>5
      <3> QED BY <2>1, <3>1, <3>2, SubSeqProperties
    <2>3. DOMAIN short = 1..(n - 1) /\ 1..(n - 1) \subseteq 1..n
      BY <1>1, <2>2
    <2> QED BY <1>5, <2>2, <2>3
  <1>8. /\ small \in PartialFunctions(Ids, Nat) /\ DOMAIN small = DOMAIN index \ {id}
        /\ \A x \in DOMAIN small : small[x] = IF x = end THEN slot ELSE index[x]
    <2>1. moved \in PartialFunctions(Ids, Nat) /\ DOMAIN moved = DOMAIN index
      BY <1>1, <1>6, PartialFunction
    <2>2. small = Erase(moved, id)
      BY DEF Reindex, moved, slot, end, small
    <2>3. IsErase(small, moved, id, Ids, Nat)
      BY <2>1, <2>2, EraseShape
    <2> QED BY <1>6, <2>1, <2>3 DEF IsErase
  <1>9. ASSUME NEW x \in DOMAIN small
        PROVE  small[x] \in 1..(n - 1) /\ short[small[x]] = x
    <2>1. x \in DOMAIN index /\ x # id
      BY <1>8
    <2>2. CASE x = end
      <3>1. slot # n
        BY <1>2, <1>4, <2>1, <2>2
      <3>2. slot \in 1..(n - 1)
        BY <1>1, <1>2, <3>1
      <3> QED BY <1>7, <1>8, <2>2, <3>2
    <2>3. CASE x # end
      <3>1. index[x] \in 1..n /\ list[index[x]] = x
        BY <1>0, <1>1, <2>1
      <3>2. index[x] # n /\ index[x] # slot
        BY <1>2, <1>4, <2>1, <2>3, <3>1
      <3>3. index[x] \in 1..(n - 1)
        BY <1>1, <3>1, <3>2
      <3> QED BY <1>7, <1>8, <2>3, <3>1, <3>2, <3>3
    <2> QED BY <2>2, <2>3
  <1>10. ASSUME NEW i \in 1..(n - 1)
         PROVE  short[i] \in DOMAIN small /\ small[short[i]] = i
    <2>1. i \in 1..n /\ i # n
      BY <1>1
    <2>2. CASE i = slot
      <3>1. end # id
        BY <1>4, <2>1, <2>2 DEF slot
      <3> QED BY <1>4, <1>7, <1>8, <2>2, <3>1
    <2>3. CASE i # slot
      <3>1. list[i] \in DOMAIN index /\ index[list[i]] = i
        BY <1>0, <1>1, <2>1
      <3>2. list[i] # id /\ list[i] # end
        BY <1>4, <2>1, <2>3, <3>1 DEF slot
      <3> QED BY <1>7, <1>8, <2>3, <3>1, <3>2
    <2> QED BY <2>2, <2>3
  <1>11. ListPlaces(small, short)
    BY <1>7, <1>8, <1>9, <1>10 DEF ListPlaces
  <1> QED BY <1>8, <1>11 DEF short, small

(* unregister_order *)
LEMMA UnregisterShape ==
  ASSUME NEW s \in SymbolStates, NEW id \in DOMAIN s.orders, Indexed(s),
         NEW r, r = UnregisterOrder(s, id)
  PROVE  Unregistered(r, s, id) /\ Indexed(r)
  <1> DEFINE o == s.orders[id]
             d == RemoveDepth(s, o.side, o.price, o.qty)
             orders == Erase(s.orders, id)
             index == Reindex(s.index, Last(s.live_ids), s.index[id], id)
             list == Front([s.live_ids EXCEPT ![s.index[id]] = Last(s.live_ids)])
  <1>1. /\ s.orders \in PartialFunctions(Ids, SentOrders) /\ s.live_ids \in Seq(Ids)
        /\ s.index \in PartialFunctions(Ids, Nat)
    BY StateParts
  <1>2. o \in SentOrders
    BY <1>1, PartialFunction
  <1>3. o.side \in Sides /\ o.price \in Prices /\ o.qty \in Quantities
    BY <1>2, BookAssumption DEF SentOrders, Quantities
  <1>4. OtherDepths(d, s, o.side, o.price)
    <2> HIDE DEF o
    <2> QED BY <1>3, RemoveDepthShape
  <1>5. /\ d \in SymbolStates /\ d.ref_mid = s.ref_mid /\ d.orders = s.orders
        /\ d.live_ids = s.live_ids /\ d.index = s.index
    BY <1>4 DEF OtherDepths
  <1>6. r = [d EXCEPT
               !.live_ids = Front([@ EXCEPT ![s.index[id]] = Last(s.live_ids)]),
               !.index = Reindex(@, Last(s.live_ids), s.index[id], id),
               !.orders = Erase(@, id)]
    BY DEF UnregisterOrder
  <1> HIDE DEF d
  <1>7. r = Relisting(d, orders, index, list)
    BY <1>5, <1>6 DEF Relisting, SymbolStates
  <1>8. IsErase(orders, s.orders, id, Ids, SentOrders)
    BY <1>1, EraseShape
  <1>9. ListPlaces(s.index, s.live_ids) /\ id \in DOMAIN s.index
    BY <1>1 DEF Indexed, ListPlaces
  <1>10. ListPlaces(index, list) /\ DOMAIN index = DOMAIN s.index \ {id}
    BY <1>9, SwapRemove
  <1> HIDE DEF orders, index, list
  <1>11. /\ r \in SymbolStates
         /\ r.orders = orders /\ r.index = index /\ r.live_ids = list
         /\ r.ref_mid = d.ref_mid /\ r.depth = d.depth
    BY <1>5, <1>7, <1>8, <1>10, RelistingShape DEF IsErase, ListPlaces
  <1>12. Indexed(r)
    BY <1>8, <1>10, <1>11 DEF Indexed, IsErase, ListPlaces
  <1>13. Unregistered(r, s, id)
    BY <1>5, <1>8, <1>11 DEF Unregistered, d
  <1> QED BY <1>12, <1>13

-----------------------------------------------------------------------------
(* choose_price. *)

(* Prices that a symbol's orders can have after n messages. *)
InBand(sym, n, side, p) ==
  /\ p \in Int /\ p <= HighestPrice(sym, n)
  /\ IF side = "Buy" THEN PriceTick <= p ELSE PriceTick < p

(* The levels of a symbol are in the band, and its sides do not cross. *)
DepthBanded(depth, sym, n) ==
  \A side \in Sides : \A p \in DOMAIN depth[side] : InBand(sym, n, side, p)
Uncrossed(depth) ==
  \A p \in DOMAIN depth["Buy"], q \in DOMAIN depth["Sell"] : p < q

(* A price that does not reach the other side. *)
Passive(depth, side, p) ==
  IF side = "Buy" THEN \A q \in DOMAIN depth["Sell"] : p < q
  ELSE \A q \in DOMAIN depth["Buy"] : q < p

(* The constants are integers. *)
LEMMA Sizing ==
  /\ PriceTick \in Nat /\ PriceTick > 0 /\ BandLevels \in Nat /\ BandLevels > 0
  /\ \A sym \in Symbols : StartPrice + sym * PriceStep \in Nat /\ StartPrice + sym * PriceStep > 0
  <1>1. ASSUME NEW sym \in Symbols
        PROVE  StartPrice + sym * PriceStep \in Nat /\ StartPrice + sym * PriceStep > 0
    <2> DEFINE x == sym * PriceStep
    <2>1. sym \in Nat /\ PriceStep \in Nat /\ StartPrice \in Nat /\ StartPrice > 0
      BY SimulatorAssumption
    <2>2. x \in Nat
      BY <2>1
    <2> HIDE DEF x
    <2>3. StartPrice + x \in Nat /\ StartPrice + x > 0
      BY <2>1, <2>2
    <2> QED BY <2>3 DEF x
  <1> QED BY <1>1, SimulatorAssumption

(* The bound grows by a band with every message. *)
LEMMA HighestGrows ==
  ASSUME NEW sym \in Symbols, NEW n \in Nat
  PROVE  /\ HighestPrice(sym, n) \in Nat
         /\ HighestPrice(sym, n) >= StartPrice + sym * PriceStep + PriceTick
         /\ BandLevels * PriceTick \in Nat
         /\ BandLevels * PriceTick >= PriceTick
         /\ HighestPrice(sym, n + 1) = HighestPrice(sym, n) + BandLevels * PriceTick
  <1> DEFINE ref == StartPrice + sym * PriceStep
             T == PriceTick
             B == BandLevels
  <1>1. ref \in Nat /\ T \in Nat /\ T > 0 /\ B \in Nat /\ B > 0
    BY Sizing
  <1>2. HighestPrice(sym, n) = ref + (n * B + 1) * T
    BY DEF HighestPrice
  <1>3. HighestPrice(sym, n + 1) = ref + ((n + 1) * B + 1) * T
    BY DEF HighestPrice
  <1> HIDE DEF ref, T, B
  <1>4. B * T \in Nat /\ B * T >= T
    <2>1. B - 1 \in Nat
      BY <1>1
    <2>2. (B - 1) * T \in Nat
      BY <1>1, <2>1
    <2>3. (B - 1) * T = B * T - T
      BY <1>1
    <2>4. B * T \in Nat
      BY <1>1
    <2> QED BY <1>1, <2>2, <2>3, <2>4
  <1>5. n * B \in Nat
    BY <1>1
  <1>6. ((n + 1) * B + 1) * T = (n * B + 1) * T + B * T
    <2>1. (n + 1) * B = n * B + B
      BY <1>1
    <2> DEFINE k == n * B
    <2> HIDE DEF k
    <2>2. (k + B + 1) * T = (k + 1) * T + B * T
      BY <1>1, <1>5 DEF k
    <2>3. (k + B) + 1 = k + B + 1
      OBVIOUS
    <2> QED BY <2>1, <2>2, <2>3 DEF k
  <1>7. (n * B + 1) * T \in Nat /\ (n * B + 1) * T >= T
    <2> DEFINE k == n * B
    <2>1. k * T \in Nat
      BY <1>1, <1>5
    <2>2. (k + 1) * T = k * T + T
      BY <1>1, <1>5
    <2> QED BY <1>1, <2>1, <2>2
  <1> DEFINE h == (n * B + 1) * T
  <1>8. HighestPrice(sym, n + 1) = ref + (h + B * T)
    BY <1>3, <1>6
  <1> DEFINE b == B * T
  <1>9. h \in Nat /\ h >= T /\ b \in Nat
    BY <1>4, <1>7
  <1> HIDE DEF h, b
  <1>10. ref + (h + b) = (ref + h) + b /\ ref + h \in Nat /\ ref + h >= ref + T
    BY <1>1, <1>9
  <1> QED BY <1>2, <1>4, <1>8, <1>10 DEF ref, T, B, h, b

(* A banded side with depth has a best price. *)
LEMMA BestDepthIs ==
  ASSUME NEW s \in SymbolStates, NEW sym \in Symbols, NEW n \in Nat,
         DepthBanded(s.depth, sym, n), NEW side \in Sides, DOMAIN s.depth[side] # {}
  PROVE  /\ BestDepth(s, side) \in DOMAIN s.depth[side]
         /\ BestDepth(s, side) \in Int
         /\ \A q \in DOMAIN s.depth[side] :
              IF side = "Buy" THEN q <= BestDepth(s, side) ELSE BestDepth(s, side) <= q
  <1> DEFINE D == DOMAIN s.depth[side]
             h == HighestPrice(sym, n)
  <1>1. h \in Nat
    BY HighestGrows
  <1>2. D \subseteq 1..h
    <2> SUFFICES ASSUME NEW p \in D PROVE p \in 1..h
      OBVIOUS
    <2>1. InBand(sym, n, side, p)
      BY DEF DepthBanded
    <2>2. p \in Int /\ p <= h /\ PriceTick <= p
      <3>1. p \in Int /\ p <= h /\ (PriceTick <= p \/ PriceTick < p)
        BY <2>1 DEF InBand
      <3> HIDE DEF h
      <3> QED BY <3>1, Sizing
    <2> HIDE DEF h
    <2> QED BY <1>1, <2>2, Sizing
  <1> HIDE DEF h
  <1>3. \A q \in D : q \in Int
    BY <1>1, <1>2
  <1>4. \E p \in D : \A q \in D : p = q \/ Better(side, p, q)
    <2>1. CASE side = "Buy"
      <3>1. Max(D) \in D /\ \A q \in D : q <= Max(D)
        <4>1. D # {}
          OBVIOUS
        <4> HIDE DEF D
        <4> QED BY <1>1, <1>2, <4>1, MaxOfBounded
      <3> DEFINE m == Max(D)
      <3> HIDE DEF D, m
      <3>2. \A q \in D : m = q \/ m > q
        BY <1>3, <3>1 DEF m
      <3> QED BY <2>1, <3>1, <3>2 DEF Better, m
    <2>2. CASE side # "Buy"
      <3>1. D \subseteq Nat
        BY <1>1, <1>2
      <3>2. PICK x \in D : \A y \in D : x <= y
        <4> HIDE DEF D
        <4> QED BY <3>1, LeastNatural DEF D
      <3>3. \A q \in D : x = q \/ x < q
        BY <1>3, <3>2
      <3> QED BY <2>2, <3>2, <3>3 DEF Better
    <2> QED BY <2>1, <2>2
  <1> DEFINE p == BestDepth(s, side)
  <1>5. p \in D /\ \A q \in D : p = q \/ Better(side, p, q)
    BY <1>4 DEF BestDepth
  <1> HIDE DEF p, D
  <1>6. p \in Int /\ \A q \in D : IF side = "Buy" THEN q <= p ELSE p <= q
    BY <1>3, <1>5 DEF Better
  <1> QED BY <1>5, <1>6 DEF p, D

(* The anchor is within the limit of the side, and not far beyond its best. *)
LEMMA AnchorIs ==
  ASSUME NEW s \in SymbolStates, NEW sym \in Symbols, NEW n \in Nat,
         s.ref_mid = StartPrice + sym * PriceStep,
         DepthBanded(s.depth, sym, n), NEW side \in Sides
  PROVE  /\ Anchor(s, side) \in Int
         /\ side = "Buy" =>
              /\ Anchor(s, side) <= HighestPrice(sym, n)
              /\ \A q \in DOMAIN s.depth["Sell"] : Anchor(s, side) < q
         /\ side = "Sell" =>
              /\ Anchor(s, side) <= HighestPrice(sym, n) + PriceTick
              /\ PriceTick < Anchor(s, side)
              /\ \A q \in DOMAIN s.depth["Buy"] : q < Anchor(s, side)
  <1> DEFINE T == PriceTick
             h == HighestPrice(sym, n)
             l == Limit(s, side)
             a == Anchor(s, side)
  <1>1. T \in Nat /\ T > 0 /\ h \in Nat /\ s.ref_mid \in Nat /\ s.ref_mid > 0 /\ s.ref_mid + T <= h
    BY Sizing, HighestGrows
  <1>2. \A x \in Sides : DOMAIN s.depth[x] # {} =>
          LET best == BestDepth(s, x)
          IN  /\ best \in Int /\ best <= h
              /\ IF x = "Buy" THEN T <= best ELSE T < best
              /\ \A q \in DOMAIN s.depth[x] : q \in Int /\ IF x = "Buy" THEN q <= best ELSE best <= q
    <2> SUFFICES ASSUME NEW x \in Sides, DOMAIN s.depth[x] # {}
                 PROVE  LET best == BestDepth(s, x)
                        IN  /\ best \in Int /\ best <= h
                            /\ IF x = "Buy" THEN T <= best ELSE T < best
                            /\ \A q \in DOMAIN s.depth[x] :
                                 q \in Int /\ IF x = "Buy" THEN q <= best ELSE best <= q
      OBVIOUS
    <2>1. /\ BestDepth(s, x) \in DOMAIN s.depth[x]
          /\ \A q \in DOMAIN s.depth[x] :
              IF x = "Buy" THEN q <= BestDepth(s, x) ELSE BestDepth(s, x) <= q
      BY BestDepthIs
    <2>2. \A q \in DOMAIN s.depth[x] : InBand(sym, n, x, q)
      BY DEF DepthBanded
    <2> QED BY <2>1, <2>2 DEF InBand
  <1> HIDE DEF T, h
  <1>3. "Buy" \in Sides /\ "Sell" \in Sides /\ Opposite("Buy") = "Sell" /\ Opposite("Sell") = "Buy"
        /\ Step("Buy") = T /\ Step("Sell") = -T
    BY DEF Sides, Opposite, Step, T
  <1>4. CASE side = "Buy"
    <2> DEFINE o == IF DOMAIN s.depth["Sell"] = {} THEN s.ref_mid ELSE BestDepth(s, "Sell")
    <2>1. l = o - T
      BY <1>3, <1>4 DEF Limit, Inside
    <2>2. o \in Int /\ o <= h /\ \A q \in DOMAIN s.depth["Sell"] : q \in Int /\ o <= q
      BY <1>1, <1>2, <1>3
    <2> HIDE DEF o, l
    <2>3. a \in Int /\ a <= l
      <3>1. CASE DOMAIN s.depth[side] = {}
        <4>1. a = l
          BY <3>1 DEF Anchor, l
        <4> QED BY <1>1, <2>1, <2>2, <4>1
      <3>2. CASE DOMAIN s.depth[side] # {}
        <4> DEFINE i == BestDepth(s, side) + Step(side)
        <4>1. a = IF Better(side, i, l) THEN l ELSE i
          BY <3>2 DEF Anchor, l
        <4>2. i \in Int
          BY <1>1, <1>2, <1>3, <1>4, <3>2
        <4> HIDE DEF i
        <4>3. a = IF i > l THEN l ELSE i
          BY <1>4, <4>1 DEF Better
        <4> HIDE DEF a
        <4> QED BY <1>1, <2>1, <2>2, <4>2, <4>3
      <3> QED BY <3>1, <3>2
    <2> HIDE DEF a
    <2>4. a <= h /\ \A q \in DOMAIN s.depth["Sell"] : a < q
      BY <1>1, <2>1, <2>2, <2>3
    <2> QED BY <1>4, <2>3, <2>4 DEF a, h
  <1>5. CASE side = "Sell"
    <2> DEFINE o == IF DOMAIN s.depth["Buy"] = {} THEN s.ref_mid ELSE BestDepth(s, "Buy")
    <2>1. l = o - (-T)
      BY <1>3, <1>5 DEF Limit, Inside
    <2>2. o \in Int /\ o <= h /\ o > 0 /\ \A q \in DOMAIN s.depth["Buy"] : q \in Int /\ q <= o
      BY <1>1, <1>2, <1>3
    <2> HIDE DEF o, l
    <2>3. a \in Int /\ l <= a /\ a <= h + T
      <3>1. CASE DOMAIN s.depth[side] = {}
        <4>1. a = l
          BY <3>1 DEF Anchor, l
        <4> QED BY <1>1, <2>1, <2>2, <4>1
      <3>2. CASE DOMAIN s.depth[side] # {}
        <4> DEFINE i == BestDepth(s, side) + Step(side)
        <4>1. a = IF Better(side, i, l) THEN l ELSE i
          BY <3>2 DEF Anchor, l
        <4>2. i \in Int /\ i <= h
          BY <1>1, <1>2, <1>3, <1>5, <3>2
        <4> HIDE DEF i
        <4>3. a = IF i < l THEN l ELSE i
          BY <1>5, <4>1 DEF Better
        <4> HIDE DEF a
        <4> QED BY <1>1, <2>1, <2>2, <4>2, <4>3
      <3> QED BY <3>1, <3>2
    <2> HIDE DEF a
    <2>4. T < a /\ \A q \in DOMAIN s.depth["Buy"] : q < a
      BY <1>1, <2>1, <2>2, <2>3
    <2> QED BY <1>5, <2>3, <2>4 DEF a, h, T
  <1> QED BY <1>4, <1>5 DEF Sides

(* The price is in the band of the next message and does not cross. *)
LEMMA ChoosePriceIs ==
  ASSUME NEW s \in SymbolStates, NEW sym \in Symbols, NEW n \in Nat,
         s.ref_mid = StartPrice + sym * PriceStep,
         DepthBanded(s.depth, sym, n), NEW side \in Sides, NEW p \in ChoosePrice(s, side)
  PROVE  InBand(sym, n + 1, side, p) /\ Passive(s.depth, side, p)
  <1> DEFINE T == PriceTick
             h == HighestPrice(sym, n)
             B == BandLevels * PriceTick
             a == Anchor(s, side)
  <1>1. PICK off \in 0..(BandLevels - 1) :
          p = LET price == Anchor(s, side) - off * Step(side)
              IN  IF side = "Buy" THEN Max({price, PriceTick}) ELSE price
    BY DEF ChoosePrice
  <1>2. /\ T \in Nat /\ T > 0 /\ h \in Nat /\ B \in Nat /\ B >= T /\ T <= h
        /\ HighestPrice(sym, n + 1) = h + B
    BY Sizing, HighestGrows
  <1>3. off * T \in Nat /\ off * T <= B - T
    <2> DEFINE m == BandLevels - 1
    <2>1. m \in Nat /\ off \in Nat /\ off <= m /\ m - off \in Nat
      BY Sizing
    <2>2. m * T = B - T
      BY Sizing
    <2> HIDE DEF m, T, B
    <2>3. (m - off) * T \in Nat /\ off * T \in Nat
      BY <1>2, <2>1
    <2>4. (m - off) * T = m * T - off * T
      BY <1>2, <2>1
    <2> QED BY <1>2, <2>2, <2>3, <2>4
  <1> DEFINE f == off * T
  <1>4. a \in Int
    BY AnchorIs
  <1>5. CASE side = "Buy"
    <2>1. a <= h /\ \A q \in DOMAIN s.depth["Sell"] : a < q
      BY <1>5, AnchorIs
    <2>2. p = Max({a - f, T})
      BY <1>1, <1>5 DEF Step
    <2>3. \A q \in DOMAIN s.depth["Sell"] : q \in Int /\ T < q
      BY DEF DepthBanded, InBand, Sides
    <2>4. f \in Nat
      BY <1>3
    <2> HIDE DEF a, f, T, h, B
    <2>5. p = IF a - f >= T THEN a - f ELSE T
      <3>1. CASE a - f >= T
        BY <1>2, <1>4, <2>2, <2>4, <3>1, MaxIs
      <3>2. CASE ~(a - f >= T)
        <4>1. {a - f, T} \subseteq Int /\ \A y \in {a - f, T} : y <= T
          BY <1>2, <1>4, <2>4, <3>2
        <4>2. Max({a - f, T}) = T
          BY <4>1, MaxIs
        <4> QED BY <2>2, <3>2, <4>2
      <3> QED BY <3>1, <3>2
    <2>6. p \in Int /\ T <= p /\ p <= h + B /\ \A q \in DOMAIN s.depth["Sell"] : p < q
      BY <1>2, <1>4, <2>1, <2>3, <2>4, <2>5
    <2> QED BY <1>2, <1>5, <2>6 DEF InBand, Passive, T
  <1>6. CASE side = "Sell"
    <2>1. a <= h + T /\ T < a /\ \A q \in DOMAIN s.depth["Buy"] : q < a
      BY <1>6, AnchorIs
    <2>2. p = a - off * (-T)
      BY <1>1, <1>6 DEF Step
    <2>3. \A q \in DOMAIN s.depth["Buy"] : q \in Int
      BY DEF DepthBanded, InBand, Sides
    <2>4. f \in Nat /\ f <= B - T /\ off * (-T) = -f
      <3>1. off \in Int /\ T \in Int
        BY Sizing
      <3> QED BY <1>3, <3>1
    <2> HIDE DEF a, f, T, h, B
    <2>5. p = a + f
      BY <1>4, <2>2, <2>4
    <2>6. p \in Int /\ T < p /\ p <= h + B /\ \A q \in DOMAIN s.depth["Buy"] : q < p
      BY <1>2, <1>4, <2>1, <2>3, <2>4, <2>5
    <2> QED BY <1>2, <1>6, <2>6 DEF InBand, Passive, T
  <1> QED BY <1>5, <1>6 DEF Sides

-----------------------------------------------------------------------------
(* What a book shows of an order, as the exchange describes it. *)
Shown(b, id) ==
  IF id \notin DOMAIN b.orders THEN << >>
  ELSE [side |-> b.orders[id].side, price |-> b.orders[id].price,
        qty |-> b.nodes[b.orders[id].it].quantity]

(* r is sound and shows other orders as b does, and id as v. *)
Shows(r, b, id, v) ==
  Sound(r) /\ Shown(r, id) = v /\ \A x : x # id => Shown(r, x) = Shown(b, x)

(* An order of the exchange is not none. *)
LEMMA OrderIsSome ==
  ASSUME NEW o \in SentOrders
  PROVE  o # << >> /\ o = [side |-> o.side, price |-> o.price, qty |-> o.qty]
  <1>1. DOMAIN o = {"side", "price", "qty"} /\ DOMAIN << >> = {}
    BY DEF SentOrders
  <1> QED BY <1>1 DEF SentOrders

(* r has the locators and the nodes of b, but for id. *)
SameOthers(b, r, id) ==
  /\ \A x \in DOMAIN b.orders : x # id =>
       /\ x \in DOMAIN r.orders /\ r.orders[x] = b.orders[x]
       /\ r.nodes[b.orders[x].it] = b.nodes[b.orders[x].it]
  /\ \A x \in DOMAIN r.orders : x # id => x \in DOMAIN b.orders

(* Orders of which neither the locator nor the node changes look the same. *)
LEMMA SameShown ==
  ASSUME NEW b, NEW r, NEW id, SameOthers(b, r, id)
  PROVE  \A x : x # id => Shown(r, x) = Shown(b, x)
  <1> SUFFICES ASSUME NEW x, x # id PROVE Shown(r, x) = Shown(b, x)
    OBVIOUS
  <1>1. CASE x \in DOMAIN b.orders
    BY <1>1 DEF Shown, SameOthers
  <1>2. CASE x \notin DOMAIN b.orders
    BY <1>2 DEF Shown, SameOthers
  <1> QED BY <1>1, <1>2

(* Orders have different nodes. *)
LEMMA OtherNodes ==
  ASSUME NEW b, Sound(b), NEW x \in DOMAIN b.orders
  PROVE  /\ b.orders[x].it \in DOMAIN b.nodes
         /\ \A id \in DOMAIN b.orders : x # id => b.orders[x].it # b.orders[id].it
  BY DEF Sound, OrdersLinked, OrderLinked

(* A book with an order added shows it. *)
LEMMA AddedShows ==
  ASSUME NEW b, Sound(b), NEW r, NEW id \in Ids, id \notin DOMAIN b.orders,
         NEW side \in Sides, NEW price \in Prices, NEW qty \in Quantities, qty # 0,
         NEW n, Added(b, r, id, side, price, qty, n)
  PROVE  Shows(r, b, id, [side |-> side, price |-> price, qty |-> qty])
  <1>1. Sound(r)
    BY AddedSound
  <1>2. Put(b, r, id, side, price, qty, n) /\ Located(b, r, id, side, price, n)
    BY DEF Added
  <1>3. Shown(r, id) = [side |-> side, price |-> price, qty |-> qty]
    BY <1>2 DEF Put, Located, Shown
  <1>4. \A x : x # id => Shown(r, x) = Shown(b, x)
    <2>1. \A x \in DOMAIN b.orders : x # id =>
            /\ x \in DOMAIN r.orders /\ r.orders[x] = b.orders[x]
            /\ r.nodes[b.orders[x].it] = b.nodes[b.orders[x].it]
      BY <1>2, OtherNodes DEF Put, Located
    <2>2. \A x \in DOMAIN r.orders : x # id => x \in DOMAIN b.orders
      BY <1>2 DEF Located
    <2>3. SameOthers(b, r, id)
      BY <2>1, <2>2 DEF SameOthers
    <2> QED BY <2>3, SameShown
  <1> QED BY <1>1, <1>3, <1>4 DEF Shows

(* A book with an order removed shows none. *)
LEMMA RemovedShows ==
  ASSUME NEW b, Sound(b), NEW r, NEW id \in DOMAIN b.orders,
         NEW k, IsKth(b, id, b.orders[id], k), Removed(b, r, id, k)
  PROVE  Shows(r, b, id, << >>)
  <1>1. Sound(r)
    BY RemovedSound
  <1>2. Unlocated(b, r, id) /\ Taken(b, r, b.orders[id].side, b.orders[id].price, k)
    BY DEF Removed
  <1>3. Shown(r, id) = << >>
    BY <1>2 DEF Unlocated, Shown
  <1>4. \A m \in DOMAIN b.nodes : m # b.orders[id].it => r.nodes[m] = b.nodes[m]
    <2>1. b.levels[b.orders[id].side][b.orders[id].price].orders[k] = b.orders[id].it
      BY DEF IsKth
    <2> QED BY <1>2, <2>1 DEF Taken
  <1>5. \A x : x # id => Shown(r, x) = Shown(b, x)
    <2>1. \A x \in DOMAIN b.orders : x # id =>
            /\ x \in DOMAIN r.orders /\ r.orders[x] = b.orders[x]
            /\ r.nodes[b.orders[x].it] = b.nodes[b.orders[x].it]
      BY <1>2, <1>4, OtherNodes DEF Unlocated
    <2>2. \A x \in DOMAIN r.orders : x # id => x \in DOMAIN b.orders
      BY <1>2 DEF Unlocated
    <2>3. SameOthers(b, r, id)
      BY <2>1, <2>2 DEF SameOthers
    <2> QED BY <2>3, SameShown
  <1> QED BY <1>1, <1>3, <1>5 DEF Shows

(* A book with a quantity changed shows the new one. *)
LEMMA ResizedShows ==
  ASSUME NEW b, Sound(b), NEW id \in DOMAIN b.orders,
         NEW k, IsKth(b, id, b.orders[id], k),
         NEW qty \in Quantities, qty # 0, NEW r, Resized(b, r, id, qty)
  PROVE  Shows(r, b, id, [side |-> b.orders[id].side, price |-> b.orders[id].price, qty |-> qty])
  <1>1. Sound(r)
    BY ResizedSound
  <1>2. /\ r.orders = b.orders /\ r.nodes[b.orders[id].it].quantity = qty
        /\ \A m \in DOMAIN b.nodes : m # b.orders[id].it => r.nodes[m] = b.nodes[m]
    BY DEF Resized
  <1>3. Shown(r, id) = [side |-> b.orders[id].side, price |-> b.orders[id].price, qty |-> qty]
    BY <1>2 DEF Shown
  <1>4. \A x : x # id => Shown(r, x) = Shown(b, x)
    <2>1. \A x \in DOMAIN b.orders : x # id =>
            /\ x \in DOMAIN r.orders /\ r.orders[x] = b.orders[x]
            /\ r.nodes[b.orders[x].it] = b.nodes[b.orders[x].it]
      BY <1>2, OtherNodes
    <2>2. \A x \in DOMAIN r.orders : x # id => x \in DOMAIN b.orders
      BY <1>2
    <2>3. SameOthers(b, r, id)
      BY <2>1, <2>2 DEF SameOthers
    <2> QED BY <2>3, SameShown
  <1> QED BY <1>1, <1>3, <1>4 DEF Shows

(* add: of an id that rests it is refused. *)
LEMMA AddShows ==
  ASSUME NEW b, Sound(b), NEW id \in Ids, NEW side \in Sides, NEW price \in Prices,
         NEW qty \in Quantities, qty # 0, NEW m, m = Add(b, id, side, price, qty)
  PROVE  /\ m.ret \in BOOLEAN
         /\ IF id \in DOMAIN b.orders THEN Shows(m.book, b, id, Shown(b, id))
            ELSE /\ m.ret = TRUE
                 /\ Shows(m.book, b, id, [side |-> side, price |-> price, qty |-> qty])
  <1>1. CASE id \in DOMAIN b.orders
    BY <1>1 DEF Add, Fail, Shows
  <1>2. CASE id \notin DOMAIN b.orders
    <2>1. m.ret = TRUE /\ Added(b, m.book, id, side, price, qty, NewNode(b))
      BY <1>2, AddShape
    <2> QED BY <1>2, <2>1, AddedShows
  <1> QED BY <1>1, <1>2

(* cancel: of an id that does not rest it is refused, and so are the others. *)
LEMMA CancelShows ==
  ASSUME NEW b, Sound(b), NEW id, NEW m, m = Cancel(b, id)
  PROVE  /\ m.ret \in BOOLEAN
         /\ IF id \notin DOMAIN b.orders THEN Shows(m.book, b, id, Shown(b, id))
            ELSE m.ret = TRUE /\ Shows(m.book, b, id, << >>)
  <1>1. CASE id \notin DOMAIN b.orders
    BY <1>1 DEF Cancel, Fail, Shows
  <1>2. CASE id \in DOMAIN b.orders
    <2>1. PICK k : IsKth(b, id, b.orders[id], k)
      BY <1>2, OrderPlace
    <2>2. m.ret = TRUE /\ Removed(b, m.book, id, k)
      BY <1>2, <2>1, CancelShape
    <2> QED BY <1>2, <2>1, <2>2, RemovedShows
  <1> QED BY <1>1, <1>2

(* modify *)
LEMMA ModifyShows ==
  ASSUME NEW b, Sound(b), NEW id \in Ids, NEW price \in Prices,
         NEW qty \in Quantities, qty # 0, NEW m, m = Modify(b, id, price, qty)
  PROVE  /\ m.ret \in BOOLEAN
         /\ IF id \notin DOMAIN b.orders THEN Shows(m.book, b, id, Shown(b, id))
            ELSE /\ m.ret = TRUE
                 /\ Shows(m.book, b, id, [side |-> b.orders[id].side, price |-> price, qty |-> qty])
  <1>1. CASE id \notin DOMAIN b.orders
    BY <1>1 DEF Modify, Fail, Shows
  <1>2. CASE id \in DOMAIN b.orders
    <2> DEFINE loc == b.orders[id]
               old == b.nodes[loc.it].quantity
    <2>1. PICK k : IsKth(b, id, loc, k)
      BY <1>2, OrderPlace
    <2>2. /\ m.ret = TRUE
          /\ price = loc.price /\ qty <= old => Resized(b, m.book, id, qty)
          /\ ~(price = loc.price /\ qty <= old) => m.book = Requeue(b, id, price, qty)
      BY <1>2, <2>1, ModifyShape
    <2>3. CASE price = loc.price /\ qty <= old
      BY <1>2, <2>1, <2>2, <2>3, ResizedShows
    <2>4. CASE ~(price = loc.price /\ qty <= old)
      <3> DEFINE c == Cancel(b, id).book
                 r == Requeue(b, id, price, qty)
      <3>1. /\ Sound(c) /\ id \notin DOMAIN c.orders
            /\ Added(c, r, id, loc.side, price, qty, NewNode(c))
        BY <1>2, <2>1, RequeueShape
      <3>2. loc.side \in Sides
        BY <2>1 DEF IsKth
      <3>3. Shows(c, b, id, << >>)
        BY <1>2, CancelShows
      <3> HIDE DEF c, r, loc
      <3>4. Shows(r, c, id, [side |-> loc.side, price |-> price, qty |-> qty])
        BY <3>1, <3>2, AddedShows
      <3>5. Shows(r, b, id, [side |-> loc.side, price |-> price, qty |-> qty])
        BY <3>3, <3>4 DEF Shows
      <3> QED BY <1>2, <2>2, <2>4, <3>5 DEF r, loc
    <2> QED BY <2>3, <2>4
  <1> QED BY <1>1, <1>2

(* execute: a fill of all that rests or more removes the order. *)
LEMMA ExecuteShows ==
  ASSUME NEW b, Sound(b), NEW id, NEW qty \in Quantities, NEW m, m = Execute(b, id, qty)
  PROVE  /\ m.ret \in BOOLEAN
         /\ IF id \notin DOMAIN b.orders THEN Shows(m.book, b, id, Shown(b, id))
            ELSE LET o == Shown(b, id)
                 IN  /\ m.ret = TRUE
                     /\ Shows(m.book, b, id,
                              IF qty >= o.qty THEN << >>
                              ELSE [side |-> o.side, price |-> o.price, qty |-> o.qty - qty])
  <1>1. CASE id \notin DOMAIN b.orders
    BY <1>1 DEF Execute, Fail, Shows
  <1>2. CASE id \in DOMAIN b.orders
    <2> DEFINE loc == b.orders[id]
               old == b.nodes[loc.it].quantity
               r == FillOrder(b, id, qty)
    <2>1. PICK k : IsKth(b, id, loc, k)
      BY <1>2, OrderPlace
    <2>2. m.ret = TRUE /\ m.book = r
      BY <1>2 DEF Execute, Ok
    <2>3. /\ qty >= old => Removed(b, r, id, k)
          /\ ~(qty >= old) => Resized(b, r, id, old - qty)
      BY <1>2, <2>1, FillShape
    <2>4. old \in Quantities
      <3>1. b \in Books /\ loc.it \in DOMAIN b.nodes
        BY <2>1 DEF Sound, IsKth
      <3> QED BY <3>1, BookParts
    <2>5. Shown(b, id).side = loc.side /\ Shown(b, id).price = loc.price /\ Shown(b, id).qty = old
      BY <1>2 DEF Shown
    <2> HIDE DEF r
    <2>6. CASE qty >= old
      <3>1. Shows(r, b, id, << >>)
        BY <1>2, <2>1, <2>3, <2>6, RemovedShows
      <3> QED BY <1>2, <2>2, <2>5, <2>6, <3>1
    <2>7. CASE ~(qty >= old)
      <3>1. old - qty \in Quantities /\ old - qty # 0
        <4> HIDE DEF old
        <4> QED BY <2>4, <2>7, BookAssumption DEF Quantities
      <3>2. Shows(r, b, id, [side |-> loc.side, price |-> loc.price, qty |-> old - qty])
        <4> HIDE DEF old
        <4> QED BY <1>2, <2>1, <2>3, <2>7, <3>1, ResizedShows
      <3> QED BY <1>2, <2>2, <2>5, <2>7, <3>2
    <2> QED BY <2>6, <2>7
  <1> QED BY <1>1, <1>2

-----------------------------------------------------------------------------
(* Depth stays exact while no sum passes the width of Quantity. *)
Held(d, side, p) == IF p \in DOMAIN d[side] THEN d[side][p] ELSE 0

(* The sum of a level, with or without orders. *)
LEMMA HeldIs ==
  ASSUME NEW orders \in PartialFunctions(Ids, SentOrders), NEW d \in Depths, Exact(orders, d),
         NEW side \in Sides, NEW p \in Prices
  PROVE  IsSetSum(LevelIds(orders, side, p), Amounts(orders), Held(d, side, p))
  <1>1. /\ p \in DOMAIN d[side] <=> LevelIds(orders, side, p) # {}
        /\ p \in DOMAIN d[side] =>
             IsSetSum(LevelIds(orders, side, p), Amounts(orders), d[side][p])
    BY DEF Exact
  <1>2. CASE p \in DOMAIN d[side]
    BY <1>1, <1>2 DEF Held
  <1>3. CASE p \notin DOMAIN d[side]
    <2>1. LevelIds(orders, side, p) = {}
      BY <1>1, <1>3
    <2> QED BY <1>3, <2>1, SetSumEmpty DEF Held
  <1> QED BY <1>2, <1>3

(* An order comes, and the level has its amount more. *)
LEMMA ExactInserted ==
  ASSUME NEW orders \in PartialFunctions(Ids, SentOrders), NEW d \in Depths, Exact(orders, d),
         NEW id \in Ids, id \notin DOMAIN orders, NEW o \in SentOrders,
         NEW more, IsInsert(more, orders, id, o, Ids, SentOrders),
         NEW depth, LevelsBut(depth, d, o.side, o.price),
         o.price \in DOMAIN depth[o.side],
         depth[o.side][o.price] = Held(d, o.side, o.price) + o.qty
  PROVE  Exact(more, depth)
  <1>1. o.side \in Sides /\ o.price \in Prices
    BY DEF SentOrders
  <1> SUFFICES ASSUME NEW x \in Sides, NEW y \in Prices
               PROVE  /\ y \in DOMAIN depth[x] <=> LevelIds(more, x, y) # {}
                      /\ y \in DOMAIN depth[x] =>
                           IsSetSum(LevelIds(more, x, y), Amounts(more), depth[x][y])
    BY DEF Exact
  <1>2. CASE o.side = x /\ o.price = y
    <2>1. /\ LevelIds(more, x, y) = LevelIds(orders, x, y) \cup {id}
          /\ \A t : IsSetSum(LevelIds(orders, x, y), Amounts(orders), t) =>
                IsSetSum(LevelIds(more, x, y), Amounts(more), t + o.qty)
      BY <1>2, LevelInserted
    <2>2. IsSetSum(LevelIds(orders, x, y), Amounts(orders), Held(d, x, y))
      BY HeldIs
    <2> QED BY <1>2, <2>1, <2>2
  <1>3. CASE ~(o.side = x /\ o.price = y)
    <2>1. /\ LevelIds(more, x, y) = LevelIds(orders, x, y)
          /\ \A t : IsSetSum(LevelIds(orders, x, y), Amounts(orders), t) =>
                IsSetSum(LevelIds(more, x, y), Amounts(more), t)
      BY <1>3, LevelInserted
    <2>2. /\ y \in DOMAIN depth[x] <=> y \in DOMAIN d[x]
          /\ y \in DOMAIN d[x] => depth[x][y] = d[x][y]
      BY <1>3 DEF LevelsBut
    <2>3. /\ y \in DOMAIN d[x] <=> LevelIds(orders, x, y) # {}
          /\ y \in DOMAIN d[x] => IsSetSum(LevelIds(orders, x, y), Amounts(orders), d[x][y])
      BY DEF Exact
    <2> QED BY <2>1, <2>2, <2>3
  <1> QED BY <1>2, <1>3

(* The sums of all levels fit. *)
SumsFit(orders) ==
  \A id \in DOMAIN orders : \A t :
    IsSetSum(LevelIds(orders, orders[id].side, orders[id].price), Amounts(orders), t) =>
      t < QuantityRange

(* The same with the sum that Quantity keeps, if it fits. *)
LEMMA ExactAdded ==
  ASSUME NEW orders \in PartialFunctions(Ids, SentOrders), NEW d \in Depths, Exact(orders, d),
         NEW id \in Ids, id \notin DOMAIN orders, NEW o \in SentOrders,
         NEW more, IsInsert(more, orders, id, o, Ids, SentOrders),
         NEW depth, LevelsBut(depth, d, o.side, o.price),
         o.price \in DOMAIN depth[o.side],
         depth[o.side][o.price] = Plus(Held(d, o.side, o.price), o.qty),
         SumsFit(more)
  PROVE  Exact(more, depth)
  <1> DEFINE t == Held(d, o.side, o.price)
  <1>1. o.side \in Sides /\ o.price \in Prices /\ o.qty \in 1..(QuantityRange - 1)
    BY DEF SentOrders
  <1>2. d[o.side] \in PartialFunctions(Prices, Quantities)
    BY <1>1 DEF Depths
  <1>3. t \in Quantities
    BY <1>1, <1>2, PartialFunction, BookAssumption DEF Held, Quantities
  <1>4. IsSetSum(LevelIds(orders, o.side, o.price), Amounts(orders), t)
    BY <1>1, HeldIs
  <1>5. IsSetSum(LevelIds(more, o.side, o.price), Amounts(more), t + o.qty)
    BY <1>4, LevelInserted
  <1>6. id \in DOMAIN more /\ more[id] = o
    BY DEF IsInsert
  <1>7. t + o.qty < QuantityRange
    BY <1>5, <1>6 DEF SumsFit
  <1> HIDE DEF t
  <1>8. Plus(t, o.qty) = t + o.qty
    <2> DEFINE u == t + o.qty
    <2>1. u \in Nat /\ u < QuantityRange
      BY <1>1, <1>3, <1>7, BookAssumption DEF Quantities
    <2> HIDE DEF u
    <2>2. u % QuantityRange = u
      BY <2>1, BookAssumption
    <2> QED BY <2>2 DEF Plus, u
  <1>9. depth[o.side][o.price] = t + o.qty
    BY <1>8 DEF t
  <1> QED BY <1>9, ExactInserted DEF t

(* The equation of the fold in ExactDepth. *)
FoldsDepth(orders, S, iter) ==
  iter = [x \in SUBSET S |->
            IF x = {} THEN 0
            ELSE orders[CHOOSE y \in x : TRUE].qty + iter[x \ {CHOOSE y \in x : TRUE}]]

(* What MapThenSumSet adds up. *)
LEMMA ExactDepthIs ==
  ASSUME NEW s \in SymbolStates, NEW side, NEW p
  PROVE  IsSetSum(LevelIds(s.orders, side, p), Amounts(s.orders), ExactDepth(s, side, p))
  <1> DEFINE S == LevelIds(s.orders, side, p)
             f == Amounts(s.orders)
             pick == [x \in SUBSET S |-> CHOOSE y \in x : TRUE]
             it == CHOOSE iter : FoldsDepth(s.orders, S, iter)
  <1>1. s.orders \in PartialFunctions(Ids, SentOrders)
    BY StateParts
  <1>2. IsFiniteSet(S) /\ \A x \in S : f[x] = s.orders[x].qty /\ f[x] \in Int
    BY <1>1, LevelFinite, BookAssumption
  <1>3. \A x \in SUBSET S : x # {} => pick[x] \in x /\ pick[x] = CHOOSE y \in x : TRUE
    OBVIOUS
  <1>4. ExactDepth(s, side, p) = it[S]
    BY DEF ExactDepth, MapThenSumSet, MapThenFoldSet, FoldsDepth, LevelIds
  <1> HIDE DEF pick, S, f
  <1>5. ASSUME NEW iter
        PROVE  FoldsDepth(s.orders, S, iter) <=> FoldsSet(S, f, pick, iter)
    <2>1. \A x \in SUBSET S : x # {} => f[pick[x]] = s.orders[CHOOSE y \in x : TRUE].qty
      BY <1>2, <1>3
    <2>2. [x \in SUBSET S |-> IF x = {} THEN 0 ELSE f[pick[x]] + iter[x \ {pick[x]}]]
          = [x \in SUBSET S |->
              IF x = {} THEN 0
              ELSE s.orders[CHOOSE y \in x : TRUE].qty + iter[x \ {CHOOSE y \in x : TRUE}]]
      BY <1>3, <2>1
    <2> QED BY <2>2 DEF FoldsDepth, FoldsSet
  <1>6. FoldsDepth(s.orders, S, it)
    <2>1. \E iter : FoldsSet(S, f, pick, iter)
      BY <1>2, <1>3, SetSumFold
    <2> QED BY <1>5, <2>1
  <1>7. IsSetSum(S, f, it[S])
    BY <1>2, <1>3, <1>5, <1>6, SetSumFold
  <1> QED BY <1>4, <1>7 DEF S, f

(* DepthFits is about these sums. *)
LEMMA FitsSums ==
  ASSUME NEW s \in SymbolStates, DepthFits(s)
  PROVE  SumsFit(s.orders)
  <1> SUFFICES ASSUME NEW id \in DOMAIN s.orders, NEW t,
                      IsSetSum(LevelIds(s.orders, s.orders[id].side, s.orders[id].price),
                               Amounts(s.orders), t)
               PROVE  t < QuantityRange
    BY DEF SumsFit
  <1> DEFINE side == s.orders[id].side
             p == s.orders[id].price
  <1>1. ExactDepth(s, side, p) < QuantityRange
    BY DEF DepthFits
  <1>2. IsSetSum(LevelIds(s.orders, side, p), Amounts(s.orders), ExactDepth(s, side, p))
    BY ExactDepthIs
  <1>3. IsFiniteSet(LevelIds(s.orders, side, p))
    BY StateParts, LevelFinite
  <1>4. t = ExactDepth(s, side, p)
    BY <1>2, <1>3, SetSumUnique
  <1> QED BY <1>1, <1>4

-----------------------------------------------------------------------------
(* The state of a symbol, after n messages of which the adds used the ids    *)
(* below next.                                                               *)
SymbolOk(s, sym, n, next) ==
  /\ s \in SymbolStates
  /\ s.ref_mid = StartPrice + sym * PriceStep
  /\ Indexed(s)
  /\ \A id \in DOMAIN s.orders : id \in 1..(next - 1)
  /\ DepthBanded(s.depth, sym, n)
  /\ Uncrossed(s.depth)

(* Exactness goes from s to r, if the sums of r fit. *)
KeepsExact(s, r) == Exact(s.orders, s.depth) /\ DepthFits(r) => Exact(r.orders, r.depth)

(* The band only widens. *)
LEMMA BandWidens ==
  ASSUME NEW sym \in Symbols, NEW n \in Nat, NEW side, NEW p, InBand(sym, n, side, p)
  PROVE  InBand(sym, n + 1, side, p)
  <1> DEFINE h == HighestPrice(sym, n)
             b == BandLevels * PriceTick
  <1>1. h \in Nat /\ b \in Nat /\ HighestPrice(sym, n + 1) = h + b /\ p \in Int /\ p <= h
    BY HighestGrows DEF InBand
  <1> HIDE DEF h, b
  <1>2. p <= h + b
    BY <1>1
  <1> QED BY <1>1, <1>2 DEF InBand

(* Prices of the band are prices. *)
LEMMA BandPrices ==
  ASSUME NEW sym \in Symbols, NEW n \in 0..NumMessages, NEW side, NEW p, InBand(sym, n, side, p)
  PROVE  p \in Prices
  <1> DEFINE N == NumMessages
             T == {k \in Nat : k <= N - n => InBand(sym, n + k, side, p)}
  <1>1. n \in Nat /\ N \in Nat /\ n <= N
    BY SimulatorAssumption
  <1>2. 0 \in T
    <2>1. n + 0 = n
      BY <1>1
    <2> QED BY <2>1
  <1>3. ASSUME NEW k \in Nat, k \in T PROVE k + 1 \in T
    <2>1. CASE k + 1 <= N - n
      <3>1. k <= N - n /\ n + k \in Nat /\ (n + k) + 1 = n + (k + 1)
        BY <1>1, <2>1
      <3>2. InBand(sym, n + k, side, p)
        BY <1>3, <3>1
      <3>3. InBand(sym, (n + k) + 1, side, p)
        BY <3>1, <3>2, BandWidens
      <3> QED BY <3>1, <3>3
    <2>2. CASE ~(k + 1 <= N - n)
      BY <2>2
    <2> QED BY <2>1, <2>2
  <1>4. \A k \in Nat : k \in T
    <2> HIDE DEF T
    <2> QED BY <1>2, <1>3, SetInduction
  <1>5. N - n \in Nat /\ n + (N - n) = N /\ N - n <= N - n
    BY <1>1
  <1>6. InBand(sym, N, side, p)
    BY <1>4, <1>5
  <1> DEFINE h == HighestPrice(sym, N)
  <1>7. h \in Nat /\ 1..h \subseteq Prices
    BY <1>1, HighestGrows, PricesAssumption
  <1>8. p \in Int /\ p <= h /\ (PriceTick <= p \/ PriceTick < p)
    BY <1>6 DEF InBand
  <1> HIDE DEF h
  <1>9. p \in 1..h
    BY <1>7, <1>8, Sizing
  <1> QED BY <1>7, <1>9

(* Levels that go do no harm. *)
LEMMA DepthShrinks ==
  ASSUME NEW d, NEW depth, \A side \in Sides : DOMAIN depth[side] \subseteq DOMAIN d[side],
         NEW sym \in Symbols, NEW n \in Nat, DepthBanded(d, sym, n), Uncrossed(d)
  PROVE  DepthBanded(depth, sym, n) /\ Uncrossed(depth)
  <1>1. "Buy" \in Sides /\ "Sell" \in Sides
    BY DEF Sides
  <1> QED BY <1>1 DEF DepthBanded, Uncrossed

(* Levels that come must be in the band and passive. *)
LEMMA DepthGrows ==
  ASSUME NEW d, NEW depth, NEW side \in Sides, NEW p, LevelsBut(depth, d, side, p),
         NEW sym \in Symbols, NEW n \in Nat, DepthBanded(d, sym, n), Uncrossed(d),
         InBand(sym, n + 1, side, p), Passive(d, side, p)
  PROVE  DepthBanded(depth, sym, n + 1) /\ Uncrossed(depth)
  <1>1. "Buy" \in Sides /\ "Sell" \in Sides
    BY DEF Sides
  <1>2. \A x \in Sides : \A q \in DOMAIN depth[x] : q \in DOMAIN d[x] \/ (x = side /\ q = p)
    BY DEF LevelsBut
  <1>3. DepthBanded(depth, sym, n + 1)
    BY <1>2, BandWidens DEF DepthBanded
  <1>4. Uncrossed(depth)
    <2> SUFFICES ASSUME NEW x \in DOMAIN depth["Buy"], NEW y \in DOMAIN depth["Sell"]
                 PROVE  x < y
      BY DEF Uncrossed
    <2>1. x \in DOMAIN d["Buy"] \/ (side = "Buy" /\ x = p)
      BY <1>1, <1>2
    <2>2. y \in DOMAIN d["Sell"] \/ (side = "Sell" /\ y = p)
      BY <1>1, <1>2
    <2> QED BY <2>1, <2>2 DEF Uncrossed, Passive
  <1> QED BY <1>3, <1>4

(* A message about another symbol. *)
LEMMA OtherSymbolOk ==
  ASSUME NEW s, NEW sym \in Symbols, NEW n \in Nat, NEW next \in Nat, NEW later \in {next, next + 1},
         SymbolOk(s, sym, n, next)
  PROVE  SymbolOk(s, sym, n + 1, later)
  <1>1. DepthBanded(s.depth, sym, n + 1)
    BY BandWidens DEF SymbolOk, DepthBanded
  <1>2. \A id \in DOMAIN s.orders : id \in 1..(later - 1)
    BY DEF SymbolOk
  <1> QED BY <1>1, <1>2 DEF SymbolOk

(* fill_add *)
LEMMA AddOk ==
  ASSUME NEW s, NEW sym \in Symbols, NEW n \in Nat, n < NumMessages,
         NEW next \in Nat, next \in Ids, next >= 1, SymbolOk(s, sym, n, next),
         NEW side \in Sides, NEW p \in ChoosePrice(s, side), NEW q \in MinQty..MaxQty,
         NEW r, r = RegisterOrder(s, next, side, p, q),
         NEW o, o = [side |-> side, price |-> p, qty |-> q]
  PROVE  /\ SymbolOk(r, sym, n + 1, next + 1)
         /\ o \in SentOrders /\ next \notin DOMAIN s.orders
         /\ IsInsert(r.orders, s.orders, next, o, Ids, SentOrders)
         /\ KeepsExact(s, r)
  <1>1. /\ s \in SymbolStates /\ s.ref_mid = StartPrice + sym * PriceStep /\ Indexed(s)
        /\ DepthBanded(s.depth, sym, n) /\ Uncrossed(s.depth)
        /\ \A id \in DOMAIN s.orders : id \in 1..(next - 1)
    BY DEF SymbolOk
  <1>2. InBand(sym, n + 1, side, p) /\ Passive(s.depth, side, p)
    BY <1>1, ChoosePriceIs
  <1>3. p \in Prices
    <2>1. n + 1 \in 0..NumMessages
      BY SimulatorAssumption
    <2> QED BY <1>2, <2>1, BandPrices
  <1>4. q \in 1..(QuantityRange - 1)
    BY SimulatorAssumption, BookAssumption
  <1>5. o \in SentOrders /\ o.side = side /\ o.price = p /\ o.qty = q
    BY <1>3, <1>4 DEF SentOrders
  <1>6. next \notin DOMAIN s.orders
    BY <1>1
  <1>7. Registered(r, s, next, o) /\ Indexed(r)
    BY <1>1, <1>3, <1>4, <1>6, RegisterShape
  <1>8. /\ r \in SymbolStates /\ r.ref_mid = s.ref_mid
        /\ IsInsert(r.orders, s.orders, next, o, Ids, SentOrders)
        /\ LevelsBut(r.depth, s.depth, side, p)
        /\ p \in DOMAIN r.depth[side]
        /\ r.depth[side][p] = Plus(DepthAt(s, side, p), q)
    BY <1>5, <1>7 DEF Registered
  <1>9. DepthBanded(r.depth, sym, n + 1) /\ Uncrossed(r.depth)
    BY <1>1, <1>2, <1>8, DepthGrows
  <1>10. \A id \in DOMAIN r.orders : id \in 1..(next + 1 - 1)
    <2>1. \A id \in DOMAIN r.orders : id = next \/ id \in DOMAIN s.orders
      BY <1>8 DEF IsInsert
    <2> QED BY <1>1, <2>1
  <1>11. KeepsExact(s, r)
    <2> SUFFICES ASSUME Exact(s.orders, s.depth), DepthFits(r)
                 PROVE  Exact(r.orders, r.depth)
      BY DEF KeepsExact
    <2>1. SumsFit(r.orders)
      BY <1>8, FitsSums
    <2>2. DepthAt(s, side, p) = Held(s.depth, side, p)
      BY DEF DepthAt, Held
    <2>3. s.orders \in PartialFunctions(Ids, SentOrders) /\ s.depth \in Depths
      BY <1>1, StateParts
    <2> QED BY <1>5, <1>6, <1>8, <2>1, <2>2, <2>3, ExactAdded
  <1> QED BY <1>1, <1>5, <1>6, <1>7, <1>8, <1>9, <1>10, <1>11 DEF SymbolOk

(* d is s with depth for its orders but id. *)
KeepsLists(d, s) ==
  /\ d \in SymbolStates
  /\ d.ref_mid = s.ref_mid /\ d.orders = s.orders
  /\ d.live_ids = s.live_ids /\ d.index = s.index

Without(d, s, id, o) ==
  \A left : IsErase(left, s.orders, id, Ids, SentOrders) /\ Exact(s.orders, s.depth) =>
    /\ Exact(left, d.depth)
    /\ o.price \in DOMAIN s.depth[o.side] /\ s.depth[o.side][o.price] >= o.qty
    /\ Held(d.depth, o.side, o.price) = s.depth[o.side][o.price] - o.qty

(* The depth of a symbol without the amount of one of its orders. *)
LEMMA DepthWithout ==
  ASSUME NEW s, NEW sym \in Symbols, NEW n \in Nat, NEW next, SymbolOk(s, sym, n, next),
         NEW id \in DOMAIN s.orders, NEW o, o = s.orders[id],
         NEW d, d = RemoveDepth(s, o.side, o.price, o.qty)
  PROVE  /\ o \in SentOrders /\ KeepsLists(d, s)
         /\ LevelsBut(d.depth, s.depth, o.side, o.price)
         /\ DepthBanded(d.depth, sym, n) /\ Uncrossed(d.depth)
         /\ Without(d, s, id, o)
  <1>1. /\ s \in SymbolStates /\ DepthBanded(s.depth, sym, n) /\ Uncrossed(s.depth)
        /\ s.orders \in PartialFunctions(Ids, SentOrders) /\ s.depth \in Depths
    BY StateParts DEF SymbolOk
  <1>2. o \in SentOrders
    BY <1>1, PartialFunction
  <1>3. o.side \in Sides /\ o.price \in Prices /\ o.qty \in Quantities /\ o.qty \in 1..(QuantityRange - 1)
    BY <1>2, BookAssumption DEF SentOrders, Quantities
  <1>4. /\ OtherDepths(d, s, o.side, o.price)
        /\ DOMAIN d.depth[o.side] \subseteq DOMAIN s.depth[o.side]
        /\ o.price \in DOMAIN s.depth[o.side] =>
             IF s.depth[o.side][o.price] <= o.qty THEN o.price \notin DOMAIN d.depth[o.side]
             ELSE /\ o.price \in DOMAIN d.depth[o.side]
                  /\ d.depth[o.side][o.price] = s.depth[o.side][o.price] - o.qty
    BY <1>1, <1>3, RemoveDepthShape
  <1>5. LevelsBut(d.depth, s.depth, o.side, o.price)
    BY <1>4 DEF LevelsBut, OtherDepths
  <1>6. \A side \in Sides : DOMAIN d.depth[side] \subseteq DOMAIN s.depth[side]
    BY <1>4, <1>5 DEF LevelsBut
  <1>7. DepthBanded(d.depth, sym, n) /\ Uncrossed(d.depth)
    BY <1>1, <1>6, DepthShrinks
  <1>8. ASSUME NEW left, IsErase(left, s.orders, id, Ids, SentOrders), Exact(s.orders, s.depth)
        PROVE  /\ Exact(left, d.depth)
               /\ o.price \in DOMAIN s.depth[o.side] /\ s.depth[o.side][o.price] >= o.qty
               /\ Held(d.depth, o.side, o.price) = s.depth[o.side][o.price] - o.qty
    <2>1. Exact(left, d.depth)
      BY <1>1, <1>4, <1>5, <1>8, ExactErased
    <2> DEFINE S == LevelIds(s.orders, o.side, o.price)
               t == s.depth[o.side][o.price]
    <2>2. id \in S
      BY DEF LevelIds
    <2>3. o.price \in DOMAIN s.depth[o.side] /\ IsSetSum(S, Amounts(s.orders), t)
      BY <1>3, <1>8, <2>2 DEF Exact
    <2>4. IsFiniteSet(S) /\ \A x \in S : Amounts(s.orders)[x] = s.orders[x].qty
                                     /\ Amounts(s.orders)[x] \in Nat
      BY <1>1, LevelFinite, BookAssumption
    <2>5. t \in Nat /\ o.qty <= t
      <3> HIDE DEF S, t
      <3>1. t \in Nat /\ \A x \in S : Amounts(s.orders)[x] <= t
        BY <2>3, <2>4, SetSumBounds
      <3> QED BY <2>2, <2>4, <3>1
    <2>6. Held(d.depth, o.side, o.price) = t - o.qty
      <3>1. CASE t <= o.qty
        <4>1. t - o.qty = 0
          <5> HIDE DEF t
          <5> QED BY <1>3, <2>5, <3>1
        <4> QED BY <1>4, <2>3, <3>1, <4>1 DEF Held
      <3>2. CASE ~(t <= o.qty)
        BY <1>4, <2>3, <3>2 DEF Held
      <3> QED BY <3>1, <3>2
    <2>7. t >= o.qty
      <3> HIDE DEF t
      <3> QED BY <1>3, <2>5
    <2> QED BY <2>1, <2>3, <2>6, <2>7
  <1> QED BY <1>2, <1>4, <1>5, <1>7, <1>8 DEF OtherDepths, KeepsLists, Without

(* fill_cancel, and a trade of all that rests *)
LEMMA CancelOk ==
  ASSUME NEW s, NEW sym \in Symbols, NEW n \in Nat, NEW next \in Nat, SymbolOk(s, sym, n, next),
         NEW id \in DOMAIN s.orders, NEW r, r = UnregisterOrder(s, id)
  PROVE  /\ SymbolOk(r, sym, n + 1, next)
         /\ IsErase(r.orders, s.orders, id, Ids, SentOrders)
         /\ KeepsExact(s, r)
  <1> DEFINE o == s.orders[id]
             d == RemoveDepth(s, o.side, o.price, o.qty)
  <1>1. s \in SymbolStates /\ Indexed(s)
    BY DEF SymbolOk
  <1>2. Unregistered(r, s, id) /\ Indexed(r)
    BY <1>1, UnregisterShape
  <1>3. /\ r \in SymbolStates /\ r.ref_mid = s.ref_mid
        /\ IsErase(r.orders, s.orders, id, Ids, SentOrders) /\ r.depth = d.depth
    BY <1>2 DEF Unregistered
  <1>4. /\ DepthBanded(d.depth, sym, n) /\ Uncrossed(d.depth)
        /\ Exact(s.orders, s.depth) => Exact(r.orders, d.depth)
    <2>1. DepthBanded(d.depth, sym, n) /\ Uncrossed(d.depth) /\ Without(d, s, id, o)
      BY DepthWithout
    <2> QED BY <1>3, <2>1 DEF Without
  <1> HIDE DEF d
  <1>5. DepthBanded(r.depth, sym, n + 1)
    BY <1>3, <1>4, BandWidens DEF DepthBanded
  <1>6. \A x \in DOMAIN r.orders : x \in 1..(next - 1)
    BY <1>3 DEF SymbolOk, IsErase
  <1>7. KeepsExact(s, r)
    BY <1>3, <1>4 DEF KeepsExact
  <1> QED BY <1>2, <1>3, <1>4, <1>5, <1>6, <1>7 DEF SymbolOk

(* An order that is replaced is an order that goes and one that comes. *)
LEMMA Replaced ==
  ASSUME NEW orders \in PartialFunctions(Ids, SentOrders), NEW id \in DOMAIN orders,
         NEW o \in SentOrders
  PROVE  LET new == [orders EXCEPT ![id] = o]
         IN  /\ IsInsert(new, orders, id, o, Ids, SentOrders)
             /\ \E left : /\ IsErase(left, orders, id, Ids, SentOrders)
                          /\ IsInsert(new, left, id, o, Ids, SentOrders)
  <1> DEFINE new == [orders EXCEPT ![id] = o]
             left == Erase(orders, id)
  <1>1. orders \in [DOMAIN orders -> SentOrders] /\ DOMAIN orders \subseteq Ids
    BY PartialFunction
  <1>2. new \in [DOMAIN orders -> SentOrders] /\ new[id] = o
        /\ \A x \in DOMAIN orders : x # id => new[x] = orders[x]
    BY <1>1
  <1>3. IsErase(left, orders, id, Ids, SentOrders)
    BY EraseShape
  <1> HIDE DEF new, left
  <1>4. new \in PartialFunctions(Ids, SentOrders) /\ DOMAIN new = DOMAIN orders
    BY <1>1, <1>2, PartialFunction
  <1>5. IsInsert(new, orders, id, o, Ids, SentOrders)
    BY <1>2, <1>4 DEF IsInsert
  <1>6. IsInsert(new, left, id, o, Ids, SentOrders)
    BY <1>2, <1>3, <1>4 DEF IsInsert, IsErase
  <1> QED BY <1>3, <1>5, <1>6 DEF new

(* r is s with a new order in place of id, and depth d. *)
Amended(r, s, id, o) ==
  /\ r \in SymbolStates /\ r.ref_mid = s.ref_mid /\ r.live_ids = s.live_ids /\ r.index = s.index
  /\ r.orders = [s.orders EXCEPT ![id] = o]

(* A symbol of which one order is amended. *)
LEMMA AmendedOk ==
  ASSUME NEW s, NEW sym \in Symbols, NEW n \in Nat, NEW next \in Nat, SymbolOk(s, sym, n, next),
         NEW id \in DOMAIN s.orders, NEW o \in SentOrders, NEW r, Amended(r, s, id, o),
         DepthBanded(r.depth, sym, n + 1), Uncrossed(r.depth)
  PROVE  SymbolOk(r, sym, n + 1, next)
  <1>1. s.orders \in PartialFunctions(Ids, SentOrders)
    BY StateParts DEF SymbolOk
  <1>2. DOMAIN r.orders = DOMAIN s.orders
    BY <1>1, PartialFunction DEF Amended
  <1> QED BY <1>2 DEF SymbolOk, Amended, Indexed

(* r is s with a new order in place of id. *)
OrderAmended(r, s, id, o) == Amended(r, s, id, o) /\ r.depth = s.depth

Quote(side, p, q) == [side |-> side, price |-> p, qty |-> q]
Requoted(d, id, p, q) == [d EXCEPT !.orders[id].price = p, !.orders[id].qty = q]

(* What fill_modify does to the order. *)
LEMMA ModifyAmends ==
  ASSUME NEW d \in SymbolStates, NEW id \in DOMAIN d.orders,
         NEW p \in Prices, NEW q \in 1..(QuantityRange - 1)
  PROVE  OrderAmended(Requoted(d, id, p, q), d, id, Quote(d.orders[id].side, p, q))
  <1> DEFINE o == d.orders[id]
             new == [side |-> o.side, price |-> p, qty |-> q]
             orders == [d.orders EXCEPT ![id] = new]
             mid == [d EXCEPT !.orders[id].price = p, !.orders[id].qty = q]
  <1>1. /\ d.orders \in PartialFunctions(Ids, SentOrders)
        /\ d.index \in PartialFunctions(Ids, Nat) /\ d.live_ids \in Seq(Ids)
    BY StateParts
  <1>2. d.orders \in [DOMAIN d.orders -> SentOrders] /\ DOMAIN d.orders \subseteq Ids
    BY <1>1, PartialFunction
  <1>3. o \in SentOrders /\ new \in SentOrders
    BY <1>2 DEF SentOrders
  <1>4. new = [[o EXCEPT !.price = p] EXCEPT !.qty = q]
    <2> DEFINE e == [[o EXCEPT !.price = p] EXCEPT !.qty = q]
    <2>1. e \in SentOrders /\ e.side = o.side /\ e.price = p /\ e.qty = q
      BY <1>3 DEF SentOrders
    <2> HIDE DEF e
    <2>2. e = [side |-> e.side, price |-> e.price, qty |-> e.qty]
      BY <2>1, OrderIsSome
    <2>3. new = e
      BY <2>1, <2>2
    <2> QED BY <2>3 DEF e
  <1>5. orders = [d.orders EXCEPT ![id].price = p, ![id].qty = q]
    BY <1>2, <1>4
  <1>6. mid = [d EXCEPT !.orders = [d.orders EXCEPT ![id].price = p, ![id].qty = q]]
    BY DEF SymbolStates
  <1>7. orders \in PartialFunctions(Ids, SentOrders)
    <2>1. orders \in [DOMAIN d.orders -> SentOrders]
      BY <1>2, <1>3
    <2> HIDE DEF orders
    <2> QED BY <1>2, <2>1, PartialFunction
  <1> HIDE DEF mid, orders
  <1>8. mid = Relisting(d, orders, d.index, d.live_ids)
    BY <1>5, <1>6 DEF Relisting, SymbolStates
  <1>9. /\ mid \in SymbolStates /\ mid.orders = orders /\ mid.index = d.index
        /\ mid.live_ids = d.live_ids /\ mid.ref_mid = d.ref_mid /\ mid.depth = d.depth
    BY <1>1, <1>7, <1>8, RelistingShape
  <1>10. OrderAmended(mid, d, id, new)
    BY <1>9 DEF OrderAmended, Amended, orders
  <1> QED BY <1>10 DEF mid, Requoted, Quote

(* An order comes back with another price and amount. *)
LEMMA RequotedOk ==
  ASSUME NEW s, NEW sym \in Symbols, NEW n \in Nat, NEW next \in Nat, SymbolOk(s, sym, n, next),
         NEW id \in DOMAIN s.orders, NEW o, NEW d, KeepsLists(d, s), Without(d, s, id, o),
         DepthBanded(d.depth, sym, n), Uncrossed(d.depth),
         NEW new \in SentOrders,
         InBand(sym, n + 1, new.side, new.price), Passive(d.depth, new.side, new.price),
         NEW mid, OrderAmended(mid, d, id, new),
         NEW r, r = AddDepth(mid, new.side, new.price, new.qty)
  PROVE  /\ SymbolOk(r, sym, n + 1, next)
         /\ IsInsert(r.orders, s.orders, id, new, Ids, SentOrders)
         /\ KeepsExact(s, r)
  <1> DEFINE side == new.side
             p == new.price
             q == new.qty
             orders == [s.orders EXCEPT ![id] = new]
  <1>1. s.orders \in PartialFunctions(Ids, SentOrders) /\ id \in Ids
    BY StateParts, PartialFunction DEF SymbolOk
  <1>2. side \in Sides /\ p \in Prices /\ q \in Quantities
    BY BookAssumption DEF SentOrders, Quantities
  <1>3. /\ mid \in SymbolStates /\ mid.ref_mid = s.ref_mid /\ mid.orders = orders
        /\ mid.live_ids = s.live_ids /\ mid.index = s.index /\ mid.depth = d.depth
    BY DEF OrderAmended, Amended, KeepsLists
  <1>4. PICK left : /\ IsErase(left, s.orders, id, Ids, SentOrders)
                    /\ IsInsert(orders, left, id, new, Ids, SentOrders)
    BY <1>1, Replaced
  <1>5. IsInsert(orders, s.orders, id, new, Ids, SentOrders)
    BY <1>1, Replaced
  <1> HIDE DEF orders, side, p, q
  <1>6. /\ OtherDepths(r, mid, side, p)
        /\ p \in DOMAIN r.depth[side]
        /\ r.depth[side][p] = Plus(DepthAt(mid, side, p), q)
    BY <1>2, <1>3, AddDepthShape DEF side, p, q
  <1>7. /\ r \in SymbolStates /\ r.ref_mid = s.ref_mid /\ r.orders = orders
        /\ r.live_ids = s.live_ids /\ r.index = s.index
        /\ LevelsBut(r.depth, d.depth, side, p)
    BY <1>3, <1>6 DEF OtherDepths, LevelsBut
  <1>8. Amended(r, s, id, new)
    BY <1>7 DEF Amended, orders
  <1>9. DepthBanded(r.depth, sym, n + 1) /\ Uncrossed(r.depth)
    BY <1>2, <1>7, DepthGrows DEF side, p
  <1>10. SymbolOk(r, sym, n + 1, next)
    BY <1>8, <1>9, AmendedOk
  <1>11. KeepsExact(s, r)
    <2> SUFFICES ASSUME Exact(s.orders, s.depth), DepthFits(r)
                 PROVE  Exact(r.orders, r.depth)
      BY DEF KeepsExact
    <2>1. SumsFit(r.orders)
      BY <1>7, FitsSums
    <2>2. DepthAt(mid, side, p) = Held(d.depth, side, p)
      BY <1>3 DEF DepthAt, Held
    <2>3. left \in PartialFunctions(Ids, SentOrders) /\ id \notin DOMAIN left
      BY <1>4 DEF IsErase
    <2>4. d.depth \in Depths
      BY <1>3, StateParts
    <2>5. Exact(left, d.depth)
      BY <1>4 DEF Without
    <2>6. r.depth[side][p] = Plus(Held(d.depth, side, p), q)
      BY <1>6, <2>2
    <2> QED BY <1>1, <1>4, <1>6, <1>7, <2>1, <2>3, <2>4, <2>5, <2>6, ExactAdded DEF side, p, q
  <1> QED BY <1>5, <1>7, <1>10, <1>11

(* r is s with order id as new, and all right. *)
Rewritten(r, s, sym, n, next, id, new) ==
  /\ SymbolOk(r, sym, n, next)
  /\ new \in SentOrders
  /\ IsInsert(r.orders, s.orders, id, new, Ids, SentOrders)
  /\ KeepsExact(s, r)

(* What fill_modify chooses, and what it makes of a symbol. *)
Rest(s, id) == RemoveDepth(s, s.orders[id].side, s.orders[id].price, s.orders[id].qty)
Chosen(s, id, p, q) == p \in ChoosePrice(Rest(s, id), s.orders[id].side) /\ q \in MinQty..MaxQty
Modified(s, id, p, q) == AddDepth(Requoted(Rest(s, id), id, p, q), s.orders[id].side, p, q)

(* fill_modify *)
LEMMA ModifyOk ==
  ASSUME NEW s, NEW sym \in Symbols, NEW n \in Nat, n < NumMessages,
         NEW next \in Nat, SymbolOk(s, sym, n, next),
         NEW id \in DOMAIN s.orders, NEW p, NEW q, Chosen(s, id, p, q)
  PROVE  Rewritten(Modified(s, id, p, q), s, sym, n + 1, next, id, Quote(s.orders[id].side, p, q))
  <1> DEFINE o == s.orders[id]
             d == Rest(s, id)
             r == Modified(s, id, p, q)
             new == Quote(o.side, p, q)
             mid == Requoted(d, id, p, q)
  <1>1. /\ s \in SymbolStates /\ s.ref_mid = StartPrice + sym * PriceStep
        /\ s.orders \in PartialFunctions(Ids, SentOrders) /\ s.depth \in Depths
    BY StateParts DEF SymbolOk
  <1>2. /\ o \in SentOrders /\ KeepsLists(d, s)
        /\ DepthBanded(d.depth, sym, n) /\ Uncrossed(d.depth)
        /\ Without(d, s, id, o)
    BY DepthWithout DEF Rest
  <1>3. d \in SymbolStates /\ d.ref_mid = s.ref_mid /\ d.orders = s.orders
    BY <1>2 DEF KeepsLists
  <1> p \in ChoosePrice(d, o.side) /\ q \in MinQty..MaxQty
    BY DEF Chosen
  <1> HIDE DEF d
  <1>4. o.side \in Sides
    BY <1>2 DEF SentOrders
  <1>5. InBand(sym, n + 1, o.side, p) /\ Passive(d.depth, o.side, p)
    BY <1>1, <1>2, <1>3, <1>4, ChoosePriceIs
  <1>6. p \in Prices
    <2>1. n + 1 \in 0..NumMessages
      BY SimulatorAssumption
    <2> QED BY <1>5, <2>1, BandPrices
  <1>7. q \in 1..(QuantityRange - 1)
    BY SimulatorAssumption, BookAssumption
  <1>8. new \in SentOrders /\ new.side = o.side /\ new.price = p /\ new.qty = q
    BY <1>4, <1>6, <1>7 DEF SentOrders, Quote
  <1>9. OrderAmended(mid, d, id, new)
    BY <1>3, <1>6, <1>7, ModifyAmends
  <1>10. r = AddDepth(mid, o.side, p, q)
    BY DEF d, Modified
  <1> HIDE DEF new, mid, r
  <1>11. /\ SymbolOk(r, sym, n + 1, next)
         /\ IsInsert(r.orders, s.orders, id, new, Ids, SentOrders)
         /\ KeepsExact(s, r)
    BY <1>2, <1>5, <1>8, <1>9, <1>10, RequotedOk
  <1> QED BY <1>8, <1>11 DEF new, r, Rewritten

(* Two that differ from a third at one level differ there only. *)
LEMMA LevelsButBoth ==
  ASSUME NEW a, NEW b, NEW c, NEW side, NEW p, LevelsBut(a, c, side, p), LevelsBut(b, c, side, p)
  PROVE  LevelsBut(a, b, side, p)
  <1>1. \A x \in DOMAIN b[side] : x # p => x \in DOMAIN c[side]
    BY DEF LevelsBut
  <1> QED BY <1>1 DEF LevelsBut

PartFilled(g, id, fill) == [g EXCEPT !.orders[id].qty = @ - fill]

(* What fill_trade does to an order that stays. *)
LEMMA TradeAmends ==
  ASSUME NEW g \in SymbolStates, NEW id \in DOMAIN g.orders, NEW fill,
         g.orders[id].qty - fill \in 1..(QuantityRange - 1)
  PROVE  OrderAmended(PartFilled(g, id, fill), g, id,
                      Quote(g.orders[id].side, g.orders[id].price, g.orders[id].qty - fill))
  <1> DEFINE o == g.orders[id]
             q == o.qty - fill
             new == [side |-> o.side, price |-> o.price, qty |-> q]
             orders == [g.orders EXCEPT ![id] = new]
             mid == [g EXCEPT !.orders[id].qty = @ - fill]
  <1>1. /\ g.orders \in PartialFunctions(Ids, SentOrders)
        /\ g.index \in PartialFunctions(Ids, Nat) /\ g.live_ids \in Seq(Ids)
    BY StateParts
  <1>2. g.orders \in [DOMAIN g.orders -> SentOrders] /\ DOMAIN g.orders \subseteq Ids
    BY <1>1, PartialFunction
  <1>3. o \in SentOrders /\ new \in SentOrders
    BY <1>2 DEF SentOrders
  <1>4. new = [o EXCEPT !.qty = q]
    <2> DEFINE e == [o EXCEPT !.qty = q]
    <2>1. e \in SentOrders /\ e.side = o.side /\ e.price = o.price /\ e.qty = q
      BY <1>3 DEF SentOrders
    <2> HIDE DEF e
    <2>2. e = [side |-> e.side, price |-> e.price, qty |-> e.qty]
      BY <2>1, OrderIsSome
    <2>3. new = e
      BY <2>1, <2>2
    <2> QED BY <2>3 DEF e
  <1>5. orders = [g.orders EXCEPT ![id].qty = q]
    BY <1>2, <1>4
  <1>6. mid = [g EXCEPT !.orders = [g.orders EXCEPT ![id].qty = q]]
    BY DEF SymbolStates
  <1>7. orders \in PartialFunctions(Ids, SentOrders)
    <2>1. orders \in [DOMAIN g.orders -> SentOrders]
      BY <1>2, <1>3
    <2> HIDE DEF orders
    <2> QED BY <1>2, <2>1, PartialFunction
  <1> HIDE DEF mid, orders
  <1>8. mid = Relisting(g, orders, g.index, g.live_ids)
    BY <1>5, <1>6 DEF Relisting, SymbolStates
  <1>9. /\ mid \in SymbolStates /\ mid.orders = orders /\ mid.index = g.index
        /\ mid.live_ids = g.live_ids /\ mid.ref_mid = g.ref_mid /\ mid.depth = g.depth
    BY <1>1, <1>7, <1>8, RelistingShape
  <1>10. OrderAmended(mid, g, id, new)
    BY <1>9 DEF OrderAmended, Amended, orders
  <1> QED BY <1>10 DEF mid, PartFilled, Quote

(* What fill_trade makes of a symbol and of an order that stays. *)
FillsPart(s, id, fill) == fill \in 1..s.orders[id].qty /\ fill # s.orders[id].qty
Traded(s, id, fill) ==
  PartFilled(RemoveDepth(s, s.orders[id].side, s.orders[id].price, fill), id, fill)
Left(o, fill) == Quote(o.side, o.price, o.qty - fill)

(* fill_trade, of less than what rests *)
LEMMA TradeOk ==
  ASSUME NEW s, NEW sym \in Symbols, NEW n \in Nat, NEW next \in Nat, SymbolOk(s, sym, n, next),
         NEW id \in DOMAIN s.orders, NEW fill, FillsPart(s, id, fill)
  PROVE  Rewritten(Traded(s, id, fill), s, sym, n + 1, next, id, Left(s.orders[id], fill))
  <1> DEFINE o == s.orders[id]
  <1>0. fill \in 1..o.qty /\ fill # o.qty
    BY DEF FillsPart
  <1> DEFINE r == Traded(s, id, fill)
             g == RemoveDepth(s, o.side, o.price, fill)
             new == Quote(o.side, o.price, o.qty - fill)
             d == RemoveDepth(s, o.side, o.price, o.qty)
             orders == [s.orders EXCEPT ![id] = new]
             side == o.side
             p == o.price
             t == s.depth[side][p]
  <1>1. /\ s \in SymbolStates /\ DepthBanded(s.depth, sym, n) /\ Uncrossed(s.depth)
        /\ s.orders \in PartialFunctions(Ids, SentOrders) /\ s.depth \in Depths
    BY StateParts DEF SymbolOk
  <1>2. /\ o \in SentOrders /\ KeepsLists(d, s)
        /\ LevelsBut(d.depth, s.depth, side, p)
        /\ Without(d, s, id, o)
    BY DepthWithout
  <1>3. side \in Sides /\ p \in Prices /\ o.qty \in 1..(QuantityRange - 1)
    BY <1>2 DEF SentOrders
  <1>4. fill \in Quantities /\ o.qty - fill \in 1..(QuantityRange - 1) /\ fill \in Nat /\ fill < o.qty
        /\ o.qty \in Nat
    BY <1>0, <1>3, BookAssumption DEF Quantities
  <1>5. new \in SentOrders /\ new.side = side /\ new.price = p /\ new.qty = o.qty - fill
    BY <1>3, <1>4 DEF SentOrders, Quote
  <1>6. /\ OtherDepths(g, s, side, p)
        /\ DOMAIN g.depth[side] \subseteq DOMAIN s.depth[side]
        /\ p \in DOMAIN s.depth[side] =>
             IF t <= fill THEN p \notin DOMAIN g.depth[side]
             ELSE p \in DOMAIN g.depth[side] /\ g.depth[side][p] = t - fill
    BY <1>1, <1>3, <1>4, RemoveDepthShape
  <1>a. r = PartFilled(g, id, fill) /\ new = Quote(side, p, o.qty - fill)
    BY DEF Traded
  <1> HIDE DEF d, g, new, r
  <1>7. /\ g \in SymbolStates /\ g.ref_mid = s.ref_mid /\ g.orders = s.orders
        /\ g.live_ids = s.live_ids /\ g.index = s.index
        /\ LevelsBut(g.depth, s.depth, side, p)
    BY <1>6 DEF OtherDepths, LevelsBut
  <1>8. \A x \in Sides : DOMAIN g.depth[x] \subseteq DOMAIN s.depth[x]
    BY <1>6, <1>7 DEF LevelsBut
  <1>9. DepthBanded(g.depth, sym, n) /\ Uncrossed(g.depth)
    BY <1>1, <1>8, DepthShrinks
  <1>10. DepthBanded(g.depth, sym, n + 1)
    BY <1>9, BandWidens DEF DepthBanded
  <1>11. OrderAmended(r, g, id, new)
    BY <1>a, <1>4, <1>7, TradeAmends
  <1>12. Amended(r, s, id, new) /\ r.depth = g.depth
    BY <1>7, <1>11 DEF OrderAmended, Amended
  <1>13. SymbolOk(r, sym, n + 1, next)
    BY <1>5, <1>9, <1>10, <1>12, AmendedOk
  <1>14. PICK left : /\ IsErase(left, s.orders, id, Ids, SentOrders)
                     /\ IsInsert(orders, left, id, new, Ids, SentOrders)
    BY <1>1, <1>5, Replaced
  <1>15. IsInsert(orders, s.orders, id, new, Ids, SentOrders) /\ r.orders = orders
    BY <1>1, <1>5, <1>12, Replaced DEF Amended
  <1> HIDE DEF orders
  <1>16. KeepsExact(s, r)
    <2> SUFFICES ASSUME Exact(s.orders, s.depth)
                 PROVE  Exact(r.orders, r.depth)
      BY DEF KeepsExact
    <2>1. /\ Exact(left, d.depth)
          /\ p \in DOMAIN s.depth[side] /\ t >= o.qty
          /\ Held(d.depth, side, p) = t - o.qty
      BY <1>2, <1>14 DEF Without
    <2>2. t \in Nat
      <3>1. s.depth[side] \in PartialFunctions(Prices, Quantities)
        BY <1>1, <1>3 DEF Depths
      <3>2. t \in Quantities
        BY <2>1, <3>1, PartialFunction
      <3> HIDE DEF t
      <3> QED BY <3>2, BookAssumption DEF Quantities
    <2> HIDE DEF t
    <2>3. ~(t <= fill) /\ t - fill = (t - o.qty) + (o.qty - fill)
      BY <1>4, <2>1, <2>2
    <2>4. p \in DOMAIN r.depth[side] /\ r.depth[side][p] = Held(d.depth, side, p) + new.qty
      BY <1>5, <1>6, <1>12, <2>1, <2>3
    <2>5. left \in PartialFunctions(Ids, SentOrders) /\ id \notin DOMAIN left /\ id \in Ids
      BY <1>1, <1>14, PartialFunction DEF IsErase
    <2>6. d.depth \in Depths
      BY <1>2, StateParts DEF KeepsLists
    <2>7. LevelsBut(r.depth, d.depth, side, p)
      BY <1>2, <1>7, <1>12, LevelsButBoth
    <2> QED BY <1>5, <1>14, <1>15, <2>1, <2>4, <2>5, <2>6, <2>7, ExactInserted
  <1> QED BY <1>5, <1>13, <1>15, <1>16 DEF new, r, Rewritten, Left

-----------------------------------------------------------------------------
(* A step of the simulator. *)

(* r is s after message m, which is about one of its orders. *)
Sends(m, s, r, next) ==
  LET o == s.orders[m.id]
  IN  \/ /\ m.type = "AddOrder"
         /\ m.id = next /\ m.id \in Ids /\ m.id \notin DOMAIN s.orders
         /\ Quote(m.side, m.price, m.qty) \in SentOrders
         /\ IsInsert(r.orders, s.orders, m.id, Quote(m.side, m.price, m.qty), Ids, SentOrders)
      \/ /\ m.type = "CancelOrder"
         /\ m.id \in DOMAIN s.orders
         /\ IsErase(r.orders, s.orders, m.id, Ids, SentOrders)
      \/ /\ m.type = "ModifyOrder"
         /\ m.id \in DOMAIN s.orders
         /\ Quote(o.side, m.price, m.qty) \in SentOrders
         /\ IsInsert(r.orders, s.orders, m.id, Quote(o.side, m.price, m.qty), Ids, SentOrders)
      \/ /\ m.type = "Trade"
         /\ m.id \in DOMAIN s.orders
         /\ m.qty \in 1..o.qty
         /\ IF m.qty = o.qty THEN IsErase(r.orders, s.orders, m.id, Ids, SentOrders)
            ELSE /\ Quote(o.side, o.price, o.qty - m.qty) \in SentOrders
                 /\ IsInsert(r.orders, s.orders, m.id, Quote(o.side, o.price, o.qty - m.qty),
                             Ids, SentOrders)

(* What a message about symbol sym does to its state s. *)
Advances(m, sym, s, r, n, next, later) ==
  /\ m.type \in Events /\ m.sym = sym
  /\ Sends(m, s, r, next)
  /\ later = IF m.type = "AddOrder" THEN next + 1 ELSE next
  /\ SymbolOk(r, sym, n + 1, later)
  /\ KeepsExact(s, r)

(* The message of fill_add, without the fields that every message has. *)
AddMessage(sym, id, side, p, q) ==
  [type |-> "AddOrder", sym |-> sym, id |-> id, side |-> side, price |-> p, qty |-> q]

(* An add *)
LEMMA AddAdvances ==
  ASSUME NEW s, NEW sym \in Symbols, NEW n \in Nat, n < NumMessages,
         NEW next \in Nat, next \in Ids, next >= 1, SymbolOk(s, sym, n, next),
         NEW side \in Sides, NEW p \in ChoosePrice(s, side), NEW q \in MinQty..MaxQty
  PROVE  Advances([type |-> "AddOrder", sym |-> sym, id |-> next, side |-> side,
                   price |-> p, qty |-> q],
                  sym, s, RegisterOrder(s, next, side, p, q), n, next, next + 1)
  <1> DEFINE m == AddMessage(sym, next, side, p, q)
             r == RegisterOrder(s, next, side, p, q)
             o == Quote(side, p, q)
  <1>1. m.type = "AddOrder" /\ m.sym = sym /\ m.id = next /\ m.side = side /\ m.price = p /\ m.qty = q
    BY DEF AddMessage
  <1>2. o = [side |-> side, price |-> p, qty |-> q]
    BY DEF Quote
  <1> HIDE DEF m, r
  <1>3. /\ SymbolOk(r, sym, n + 1, next + 1)
        /\ o \in SentOrders /\ next \notin DOMAIN s.orders
        /\ IsInsert(r.orders, s.orders, next, o, Ids, SentOrders)
        /\ KeepsExact(s, r)
    BY <1>2, AddOk DEF r
  <1>4. Sends(m, s, r, next)
    BY <1>1, <1>3 DEF Sends
  <1>5. Advances(m, sym, s, r, n, next, next + 1)
    BY <1>1, <1>3, <1>4 DEF Advances, Events
  <1> QED BY <1>5 DEF m, r, AddMessage

(* A cancel *)
LEMMA CancelAdvances ==
  ASSUME NEW s, NEW sym \in Symbols, NEW n \in Nat, NEW next \in Nat, SymbolOk(s, sym, n, next),
         NEW id \in DOMAIN s.orders,
         NEW m, m.type = "CancelOrder", m.sym = sym, m.id = id
  PROVE  Advances(m, sym, s, UnregisterOrder(s, id), n, next, next)
  <1> DEFINE r == UnregisterOrder(s, id)
  <1>1. /\ SymbolOk(r, sym, n + 1, next)
        /\ IsErase(r.orders, s.orders, id, Ids, SentOrders)
        /\ KeepsExact(s, r)
    BY CancelOk
  <1> HIDE DEF r
  <1>2. Sends(m, s, r, next)
    BY <1>1 DEF Sends
  <1>3. Advances(m, sym, s, r, n, next, next)
    BY <1>1, <1>2 DEF Advances, Events
  <1> QED BY <1>3 DEF r

(* A modify *)
LEMMA ModifyAdvances ==
  ASSUME NEW s, NEW sym \in Symbols, NEW n \in Nat, n < NumMessages,
         NEW next \in Nat, SymbolOk(s, sym, n, next),
         NEW id \in DOMAIN s.orders, NEW p, NEW q, Chosen(s, id, p, q),
         NEW m, m.type = "ModifyOrder", m.sym = sym, m.id = id, m.price = p, m.qty = q
  PROVE  Advances(m, sym, s, Modified(s, id, p, q), n, next, next)
  <1> DEFINE r == Modified(s, id, p, q)
  <1>1. Rewritten(r, s, sym, n + 1, next, id, Quote(s.orders[id].side, p, q))
    BY ModifyOk
  <1> HIDE DEF r
  <1>2. Sends(m, s, r, next)
    BY <1>1 DEF Sends, Rewritten
  <1>3. Advances(m, sym, s, r, n, next, next)
    BY <1>1, <1>2 DEF Advances, Events, Rewritten
  <1> QED BY <1>3 DEF r

(* A trade *)
LEMMA TradeAdvances ==
  ASSUME NEW s, NEW sym \in Symbols, NEW n \in Nat, NEW next \in Nat, SymbolOk(s, sym, n, next),
         NEW id \in DOMAIN s.orders, NEW fill \in 1..s.orders[id].qty,
         NEW m, m.type = "Trade", m.sym = sym, m.id = id, m.qty = fill
  PROVE  Advances(m, sym, s,
                  IF Filled(s.orders[id], fill) THEN UnregisterOrder(s, id) ELSE Traded(s, id, fill),
                  n, next, next)
  <1> DEFINE o == s.orders[id]
  <1>1. o \in SentOrders
    BY StateParts, PartialFunction DEF SymbolOk
  <1>2. o.qty \in Nat /\ fill \in Nat /\ fill <= o.qty
    BY <1>1, BookAssumption DEF SentOrders
  <1>3. CASE fill = o.qty
    <2> DEFINE r == UnregisterOrder(s, id)
    <2>1. /\ SymbolOk(r, sym, n + 1, next)
          /\ IsErase(r.orders, s.orders, id, Ids, SentOrders)
          /\ KeepsExact(s, r)
      BY CancelOk
    <2>2. Filled(o, fill)
      BY <1>2, <1>3 DEF Filled
    <2> HIDE DEF r
    <2>3. Sends(m, s, r, next)
      BY <1>3, <2>1 DEF Sends
    <2>4. Advances(m, sym, s, r, n, next, next)
      BY <2>1, <2>3 DEF Advances, Events
    <2> QED BY <2>2, <2>4 DEF r
  <1>4. CASE fill # o.qty
    <2> DEFINE r == Traded(s, id, fill)
    <2>1. FillsPart(s, id, fill)
      BY <1>4 DEF FillsPart
    <2>2. Rewritten(r, s, sym, n + 1, next, id, Left(o, fill))
      BY <2>1, TradeOk
    <2>3. ~Filled(o, fill)
      BY <1>2, <1>4 DEF Filled
    <2> HIDE DEF r
    <2>4. Sends(m, s, r, next)
      BY <1>4, <2>2 DEF Sends, Rewritten, Left
    <2>5. Advances(m, sym, s, r, n, next, next)
      BY <2>2, <2>4 DEF Advances, Events, Rewritten
    <2> QED BY <2>3, <2>5 DEF r
  <1> QED BY <1>3, <1>4

(* The simulator has its state. *)
SimOk ==
  /\ produced \in 0..NumMessages
  /\ next_order_id \in 1..(produced + 1)
  /\ symbols \in [Symbols -> SymbolStates]
  /\ \A sym \in Symbols : SymbolOk(symbols[sym], sym, produced, next_order_id)

(* A step of the simulator is a message about nothing or about one order. *)
Quiet ==
  /\ msg'.type \in {"Heartbeat", "BookSnapshot"}
  /\ symbols' = symbols /\ next_order_id' = next_order_id
About(sym) ==
  /\ Advances(msg', sym, symbols[sym], symbols'[sym], produced, next_order_id, next_order_id')
  /\ symbols' = [symbols EXCEPT ![sym] = symbols'[sym]]

(* random_live draws a live order. *)
LEMMA LiveIs ==
  ASSUME NEW s \in SymbolStates, Indexed(s), NEW id \in Range(s.live_ids)
  PROVE  id \in DOMAIN s.orders
  BY DEF Range, Indexed

(* Emit sets one state. *)
LEMMA EmitIs ==
  ASSUME SimOk, NEW sym \in Symbols, NEW s, NEW m, Emit(sym, s, m)
  PROVE  symbols'[sym] = s /\ symbols' = [symbols EXCEPT ![sym] = symbols'[sym]] /\ msg' = m
  BY DEF Emit, SimOk

(* Every message is one of these. *)
LEMMA SimMessages ==
  ASSUME SimOk, SimNext
  PROVE  Quiet \/ \E sym \in Symbols : About(sym)
  <1>1. /\ produced \in Nat /\ produced < NumMessages /\ next_order_id \in Nat
        /\ next_order_id >= 1 /\ next_order_id \in Ids
    <2>1. produced \in Nat /\ produced < NumMessages /\ next_order_id \in 1..(produced + 1)
      BY DEF SimOk, SimNext
    <2>2. next_order_id \in 1..NumMessages
      BY <2>1, SimulatorAssumption
    <2> QED BY <2>1, <2>2, SimulatorAssumption
  <1>2. CASE NextHeartbeat
    BY <1>2 DEF NextHeartbeat, Quiet
  <1>3. ASSUME NEW sym \in Symbols, NextSnapshot(sym)
        PROVE  Quiet
    BY <1>3 DEF NextSnapshot, Quiet
  <1>4. ASSUME NEW sym \in Symbols, NextAdd(sym)
        PROVE  About(sym)
    <2>1. PICK side \in Sides, q \in MinQty..MaxQty :
            \E price \in ChoosePrice(symbols[sym], side) : FillAdd(sym, side, price, q)
      BY <1>4 DEF NextAdd
    <2>2. PICK p \in ChoosePrice(symbols[sym], side) : FillAdd(sym, side, p, q)
      BY <2>1
    <2> DEFINE s == symbols[sym]
               next == next_order_id
               r == RegisterOrder(s, next, side, p, q)
               m == [type |-> "AddOrder", sym |-> sym, id |-> next, side |-> side,
                     price |-> p, qty |-> q]
    <2>3. Emit(sym, r, m) /\ next_order_id' = next + 1
      BY <2>2 DEF FillAdd
    <2>4. symbols'[sym] = r /\ symbols' = [symbols EXCEPT ![sym] = symbols'[sym]] /\ msg' = m
      <3> HIDE DEF r, m
      <3> QED BY <2>3, EmitIs
    <2>5. SymbolOk(s, sym, produced, next)
      BY DEF SimOk
    <2>6. Advances(m, sym, s, r, produced, next, next + 1)
      <3> HIDE DEF s, next
      <3> QED BY <1>1, <2>5, AddAdvances DEF s, next
    <2> HIDE DEF r, m
    <2> QED BY <2>3, <2>4, <2>6 DEF About
  <1>5. ASSUME NEW sym \in Symbols, NextOther(sym)
        PROVE  About(sym)
    <2> DEFINE s == symbols[sym]
               next == next_order_id
    <2>1. PICK id \in Range(s.live_ids) :
            FillCancel(sym, id) \/ FillModify(sym, id) \/ FillTrade(sym, id)
      BY <1>5 DEF NextOther
    <2>2. SymbolOk(s, sym, produced, next)
      BY DEF SimOk
    <2>3. id \in DOMAIN s.orders
      BY <2>2, LiveIs DEF SymbolOk
    <2>4. CASE FillCancel(sym, id)
      <3> DEFINE m == [type |-> "CancelOrder", sym |-> sym, id |-> id]
                 r == UnregisterOrder(s, id)
      <3>1. Emit(sym, r, m) /\ next_order_id' = next
        BY <2>4 DEF FillCancel
      <3>2. m.type = "CancelOrder" /\ m.sym = sym /\ m.id = id
        OBVIOUS
      <3> HIDE DEF m, s
      <3>3. Advances(m, sym, s, r, produced, next, next)
        BY <1>1, <2>2, <2>3, <3>2, CancelAdvances
      <3> HIDE DEF r
      <3>4. symbols'[sym] = r /\ symbols' = [symbols EXCEPT ![sym] = symbols'[sym]] /\ msg' = m
        BY <3>1, EmitIs
      <3> QED BY <3>1, <3>3, <3>4 DEF About, s
    <2>5. CASE FillModify(sym, id)
      <3> DEFINE M(p, q) == [type |-> "ModifyOrder", sym |-> sym, id |-> id, price |-> p, qty |-> q]
      <3>1. PICK p \in ChoosePrice(Rest(s, id), s.orders[id].side), q \in MinQty..MaxQty :
              Emit(sym, Modified(s, id, p, q), M(p, q))
        BY <2>5 DEF FillModify, Modified, Rest, Requoted
      <3>2. next_order_id' = next
        BY <2>5 DEF FillModify
      <3> DEFINE m == M(p, q)
                 r == Modified(s, id, p, q)
      <3>3. m.type = "ModifyOrder" /\ m.sym = sym /\ m.id = id /\ m.price = p /\ m.qty = q
        OBVIOUS
      <3>4. Chosen(s, id, p, q)
        BY <3>1 DEF Chosen
      <3> HIDE DEF m, s
      <3>5. Advances(m, sym, s, r, produced, next, next)
        BY <1>1, <2>2, <2>3, <3>3, <3>4, ModifyAdvances
      <3>6. Emit(sym, r, m)
        BY <3>1 DEF m
      <3> HIDE DEF r
      <3>7. symbols'[sym] = r /\ symbols' = [symbols EXCEPT ![sym] = symbols'[sym]] /\ msg' = m
        BY <3>6, EmitIs
      <3> QED BY <3>2, <3>5, <3>7 DEF About, s
    <2>6. CASE FillTrade(sym, id)
      <3> DEFINE M(fill) == [type |-> "Trade", sym |-> sym, id |-> id, qty |-> fill]
                 R(fill) == IF Filled(s.orders[id], fill) THEN UnregisterOrder(s, id)
                            ELSE Traded(s, id, fill)
      <3>1. PICK fill \in 1..s.orders[id].qty : Emit(sym, R(fill), M(fill))
        BY <2>6 DEF FillTrade, Traded, PartFilled
      <3>2. next_order_id' = next
        BY <2>6 DEF FillTrade
      <3> DEFINE m == M(fill)
                 r == R(fill)
      <3>3. m.type = "Trade" /\ m.sym = sym /\ m.id = id /\ m.qty = fill
        OBVIOUS
      <3> HIDE DEF m, s
      <3>4. Advances(m, sym, s, r, produced, next, next)
        BY <1>1, <2>2, <2>3, <3>1, <3>3, TradeAdvances
      <3>5. Emit(sym, r, m)
        BY <3>1 DEF m
      <3> HIDE DEF r
      <3>6. symbols'[sym] = r /\ symbols' = [symbols EXCEPT ![sym] = symbols'[sym]] /\ msg' = m
        BY <3>5, EmitIs
      <3> QED BY <3>2, <3>4, <3>6 DEF About, s
    <2> QED BY <2>1, <2>4, <2>5, <2>6
  <1> QED BY <1>2, <1>3, <1>4, <1>5 DEF SimNext

-----------------------------------------------------------------------------
(* The books and the exchange. *)

(* What the exchange knows of an order. *)
Known(s, id) == IF id \in DOMAIN s.orders THEN s.orders[id] ELSE << >>

(* Book b is sound, has orders that were sent, and shows of every order what *)
(* the state s of symbol sym has, but of the orders that are missing.        *)
Mirrors(b, s, sym, next, missing) ==
  /\ Sound(b)
  /\ \A id \in DOMAIN b.orders : id \in 1..(next - 1)
  /\ \A id : <<sym, id>> \notin missing => Shown(b, id) = Known(s, id)

(* An order of a sound book is one that an exchange may have. *)
LEMMA ShownIs ==
  ASSUME NEW b, Sound(b), NEW id
  PROVE  IF id \in DOMAIN b.orders THEN Shown(b, id) \in SentOrders /\ Shown(b, id) # << >>
         ELSE Shown(b, id) = << >>
  <1>1. CASE id \in DOMAIN b.orders
    <2> DEFINE loc == b.orders[id]
               list == b.levels[loc.side][loc.price].orders
    <2>1. PICK k : IsKth(b, id, loc, k)
      BY <1>1, OrderPlace
    <2>2. /\ loc.it \in DOMAIN b.nodes /\ loc.side \in Sides /\ loc.price \in DOMAIN b.levels[loc.side]
          /\ k \in DOMAIN list /\ list[k] = loc.it
      BY <1>1, <2>1, BookParts DEF IsKth, Sound
    <2>3. LevelSound(b, loc.side, loc.price)
      BY <2>2 DEF Sound
    <2>4. b.nodes[loc.it].quantity # 0
      BY <2>2, <2>3 DEF LevelSound
    <2>5. b.nodes[loc.it].quantity \in Quantities /\ loc.price \in Prices
      BY <1>1, <2>2, BookParts DEF Sound
    <2>6. b.nodes[loc.it].quantity \in 1..(QuantityRange - 1)
      <3> HIDE DEF loc
      <3> QED BY <2>4, <2>5, BookAssumption DEF Quantities
    <2>7. Shown(b, id) \in SentOrders
      <3>1. Shown(b, id) = [side |-> loc.side, price |-> loc.price, qty |-> b.nodes[loc.it].quantity]
        BY <1>1 DEF Shown
      <3> HIDE DEF loc
      <3> QED BY <2>2, <2>5, <2>6, <3>1 DEF SentOrders
    <2> QED BY <1>1, <2>7, OrderIsSome
  <1>2. CASE id \notin DOMAIN b.orders
    BY <1>2 DEF Shown
  <1> QED BY <1>1, <1>2

(* r differs from s in one order. *)
SameKnown(r, s, id) == \A x : x # id => Known(r, x) = Known(s, x)

(* A message is about one order, which was sent. *)
LEMMA SendsOne ==
  ASSUME NEW m, NEW s, NEW r, NEW sym, NEW n, NEW next \in Nat, NEW later, next >= 1,
         SymbolOk(s, sym, n, next), Advances(m, sym, s, r, n, next, later)
  PROVE  /\ SameKnown(r, s, m.id)
         /\ m.id \in 1..(later - 1) /\ m.id \in Ids
         /\ later \in {next, next + 1}
  <1>1. s.orders \in PartialFunctions(Ids, SentOrders)
    BY StateParts DEF SymbolOk
  <1>2. \A x \in DOMAIN s.orders : x \in 1..(next - 1) /\ x \in Ids
    BY <1>1, PartialFunction DEF SymbolOk
  <1>3. /\ DOMAIN r.orders \ {m.id} = DOMAIN s.orders \ {m.id}
        /\ \A x \in DOMAIN s.orders : x # m.id => r.orders[x] = s.orders[x]
        /\ m.id \in Ids /\ ((m.id = next /\ m.type = "AddOrder") \/ m.id \in DOMAIN s.orders)
    BY <1>2 DEF Advances, Sends, IsInsert, IsErase
  <1>4. later = IF m.type = "AddOrder" THEN next + 1 ELSE next
    BY DEF Advances
  <1>5. SameKnown(r, s, m.id)
    BY <1>3 DEF SameKnown, Known
  <1>6. m.id \in 1..(later - 1)
    BY <1>2, <1>3, <1>4
  <1> QED BY <1>3, <1>4, <1>5, <1>6

(* Book b becomes c and state s becomes r, both by order id, which is v in c. *)
Renews(b, c, s, r, sym, id, v, later, missing) ==
  /\ Shows(c, b, id, v) /\ (<<sym, id>> \notin missing => v = Known(r, id))
  /\ SameKnown(r, s, id) /\ id \in 1..(later - 1)

(* A book that shows one order anew mirrors a state that differs there. *)
LEMMA MirrorsAnew ==
  ASSUME NEW b, NEW s, NEW sym, NEW next \in Nat, NEW missing, Mirrors(b, s, sym, next, missing),
         NEW c, NEW r, NEW id, NEW v, NEW later \in {next, next + 1},
         Renews(b, c, s, r, sym, id, v, later, missing)
  PROVE  Mirrors(c, r, sym, later, missing)
  <1> USE DEF Renews
  <1>1. Sound(c) /\ Sound(b) /\ Shown(c, id) = v /\ \A x : x # id => Shown(c, x) = Shown(b, x)
    BY DEF Shows, Mirrors
  <1>2. ASSUME NEW x \in DOMAIN c.orders
        PROVE  x \in 1..(later - 1)
    <2>1. CASE x = id
      BY <2>1
    <2>2. CASE x # id
      <3>1. x \in DOMAIN b.orders
        BY <1>1, <2>2, ShownIs
      <3>2. x \in 1..(next - 1)
        BY <3>1 DEF Mirrors
      <3> QED BY <3>2
    <2> QED BY <2>1, <2>2
  <1>3. ASSUME NEW x, <<sym, x>> \notin missing
        PROVE  Shown(c, x) = Known(r, x)
    <2>1. CASE x = id
      BY <1>1, <1>3, <2>1
    <2>2. CASE x # id
      BY <1>1, <1>3, <2>2 DEF Mirrors, SameKnown
    <2> QED BY <2>1, <2>2
  <1> QED BY <1>1, <1>2, <1>3 DEF Mirrors

(* A book that is not told mirrors it but for that order. *)
LEMMA MirrorsMissing ==
  ASSUME NEW b, NEW s, NEW sym, NEW next \in Nat, NEW missing, Mirrors(b, s, sym, next, missing),
         NEW r, NEW id, SameKnown(r, s, id), NEW later \in {next, next + 1},
         NEW more, missing \subseteq more, <<sym, id>> \in more
  PROVE  Mirrors(b, r, sym, later, more)
  <1>1. \A x \in DOMAIN b.orders : x \in 1..(later - 1)
    BY DEF Mirrors
  <1>2. \A x : <<sym, x>> \notin more => Shown(b, x) = Known(r, x)
    BY DEF Mirrors, SameKnown
  <1> QED BY <1>1, <1>2 DEF Mirrors

(* A message about another symbol. *)
LEMMA MirrorsOther ==
  ASSUME NEW b, NEW s, NEW sym, NEW next \in Nat, NEW missing, Mirrors(b, s, sym, next, missing),
         NEW later \in {next, next + 1}, NEW more, missing \subseteq more
  PROVE  Mirrors(b, s, sym, later, more)
  <1>1. \A x \in DOMAIN b.orders : x \in 1..(later - 1)
    BY DEF Mirrors
  <1>2. \A x : <<sym, x>> \notin more => Shown(b, x) = Known(s, x)
    BY DEF Mirrors
  <1> QED BY <1>1, <1>2 DEF Mirrors

(* What the handler of m asks of book b. *)
Asked(b, m) ==
  CASE m.type = "AddOrder"    -> Add(b, m.id, m.side, m.price, m.qty)
    [] m.type = "CancelOrder" -> Cancel(b, m.id)
    [] m.type = "ModifyOrder" -> Modify(b, m.id, m.price, m.qty)
    [] m.type = "Trade"       -> Execute(b, m.id, m.qty)

(* a is an answer to a message about id that leaves the mirror right, and   *)
(* refuses nothing that is not missing.                                      *)
Answers(a, b, r, sym, id, missing) ==
  /\ a.ret \in BOOLEAN
  /\ \E v : Shows(a.book, b, id, v) /\ (<<sym, id>> \notin missing => v = Known(r, id))
  /\ <<sym, id>> \notin missing => a.ret = TRUE

(* An order rests in the mirror just if the exchange has it. *)
LEMMA MirrorHas ==
  ASSUME NEW b, NEW s, NEW sym, NEW n, NEW next, NEW missing, Mirrors(b, s, sym, next, missing),
         SymbolOk(s, sym, n, next), NEW id, <<sym, id>> \notin missing
  PROVE  /\ id \in DOMAIN b.orders <=> id \in DOMAIN s.orders
         /\ id \in DOMAIN s.orders => Shown(b, id) = s.orders[id]
         /\ id \in DOMAIN b.orders => b.orders[id].side = s.orders[id].side
  <1>1. Sound(b) /\ Shown(b, id) = Known(s, id)
    BY DEF Mirrors
  <1>2. id \in DOMAIN s.orders => s.orders[id] \in SentOrders
    BY StateParts, PartialFunction DEF SymbolOk
  <1>3. id \in DOMAIN s.orders => Known(s, id) = s.orders[id] /\ Known(s, id) # << >>
    BY <1>2, OrderIsSome DEF Known
  <1>4. id \notin DOMAIN s.orders => Known(s, id) = << >>
    BY DEF Known
  <1>5. id \in DOMAIN b.orders <=> id \in DOMAIN s.orders
    BY <1>1, <1>3, <1>4, ShownIs
  <1>6. id \in DOMAIN b.orders => Shown(b, id).side = b.orders[id].side
    BY DEF Shown
  <1> QED BY <1>1, <1>3, <1>5, <1>6

(* Every message gets such an answer. *)
LEMMA MessageAnswered ==
  ASSUME NEW b, NEW s, NEW sym, NEW n, NEW next \in Nat, next >= 1, NEW missing,
         Mirrors(b, s, sym, next, missing), SymbolOk(s, sym, n, next),
         NEW m, NEW r, NEW later, Advances(m, sym, s, r, n, next, later)
  PROVE  Answers(Asked(b, m), b, r, sym, m.id, missing)
  <1> DEFINE id == m.id
             o == s.orders[id]
             a == Asked(b, m)
  <1>1. Sound(b) /\ Sends(m, s, r, next) /\ m.type \in Events
    BY DEF Mirrors, Advances
  <1>2. <<sym, id>> \notin missing =>
          /\ id \in DOMAIN b.orders <=> id \in DOMAIN s.orders
          /\ id \in DOMAIN s.orders => Shown(b, id) = o
          /\ id \in DOMAIN b.orders => b.orders[id].side = o.side
    BY MirrorHas
  <1>3. id \in Ids
    BY SendsOne
  <1>4. id \in DOMAIN s.orders => o \in SentOrders
    BY StateParts, PartialFunction DEF SymbolOk
  <1>5. CASE m.type = "AddOrder"
    <2> DEFINE q == Quote(m.side, m.price, m.qty)
    <2>1. /\ q \in SentOrders /\ id = next
          /\ IsInsert(r.orders, s.orders, id, q, Ids, SentOrders)
      BY <1>1, <1>5 DEF Sends
    <2>2. m.side \in Sides /\ m.price \in Prices /\ m.qty \in Quantities /\ m.qty # 0
      BY <2>1, BookAssumption DEF SentOrders, Quote, Quantities
    <2>3. Known(r, id) = q
      BY <2>1 DEF Known, IsInsert
    <2>4. a = Add(b, id, m.side, m.price, m.qty)
      BY <1>5 DEF Asked
    <2>5. id \notin DOMAIN b.orders
      BY <2>1 DEF Mirrors
    <2> HIDE DEF a
    <2>6. a.ret = TRUE /\ Shows(a.book, b, id, q)
      <3> DEFINE side == m.side
                 price == m.price
                 qty == m.qty
      <3> HIDE DEF id, side, price, qty
      <3>0. /\ side \in Sides /\ price \in Prices /\ qty \in Quantities /\ qty # 0
            /\ a = Add(b, id, side, price, qty) /\ Sound(b)
        BY <1>1, <2>2, <2>4 DEF side, price, qty
      <3>1. a.ret = TRUE /\ Shows(a.book, b, id, [side |-> side, price |-> price, qty |-> qty])
        BY <1>3, <2>5, <3>0, AddShows
      <3> QED BY <3>1 DEF Quote, side, price, qty
    <2>7. Answers(a, b, r, sym, id, missing)
      BY <2>3, <2>6 DEF Answers
    <2> QED BY <2>7 DEF a
  <1>6. CASE m.type = "CancelOrder"
    <2>1. id \in DOMAIN s.orders /\ IsErase(r.orders, s.orders, id, Ids, SentOrders)
      BY <1>1, <1>6 DEF Sends
    <2>2. Known(r, id) = << >>
      BY <2>1 DEF Known, IsErase
    <2>3. a = Cancel(b, id)
      BY <1>6 DEF Asked
    <2> HIDE DEF a
    <2>4. /\ a.ret \in BOOLEAN
          /\ IF id \notin DOMAIN b.orders THEN Shows(a.book, b, id, Shown(b, id))
             ELSE a.ret = TRUE /\ Shows(a.book, b, id, << >>)
      BY <1>1, <2>3, CancelShows
    <2>5. Answers(a, b, r, sym, id, missing)
      BY <1>2, <2>1, <2>2, <2>4 DEF Answers
    <2> QED BY <2>5 DEF a
  <1>7. CASE m.type = "ModifyOrder"
    <2> DEFINE q == Quote(o.side, m.price, m.qty)
               v == Quote(b.orders[id].side, m.price, m.qty)
    <2>1. /\ id \in DOMAIN s.orders /\ q \in SentOrders
          /\ IsInsert(r.orders, s.orders, id, q, Ids, SentOrders)
      BY <1>1, <1>7 DEF Sends
    <2>2. m.price \in Prices /\ m.qty \in Quantities /\ m.qty # 0
      BY <2>1, BookAssumption DEF SentOrders, Quote, Quantities
    <2>3. Known(r, id) = q
      BY <2>1 DEF Known, IsInsert
    <2>4. a = Modify(b, id, m.price, m.qty)
      BY <1>7 DEF Asked
    <2> HIDE DEF a
    <2>5. /\ a.ret \in BOOLEAN
          /\ IF id \notin DOMAIN b.orders THEN Shows(a.book, b, id, Shown(b, id))
             ELSE a.ret = TRUE /\ Shows(a.book, b, id, v)
      <3> DEFINE price == m.price
                 qty == m.qty
      <3> HIDE DEF id, price, qty
      <3>1. /\ a.ret \in BOOLEAN
            /\ IF id \notin DOMAIN b.orders THEN Shows(a.book, b, id, Shown(b, id))
               ELSE /\ a.ret = TRUE
                    /\ Shows(a.book, b, id,
                             [side |-> b.orders[id].side, price |-> price, qty |-> qty])
        BY <1>1, <1>3, <2>2, <2>4, ModifyShows DEF price, qty
      <3> QED BY <3>1 DEF Quote, price, qty
    <2>6. <<sym, id>> \notin missing => id \in DOMAIN b.orders /\ v = q
      BY <1>2, <2>1
    <2> HIDE DEF q, v
    <2>7. Answers(a, b, r, sym, id, missing)
      BY <2>3, <2>5, <2>6 DEF Answers
    <2> QED BY <2>7 DEF a
  <1>8. CASE m.type = "Trade"
    <2> DEFINE z == Shown(b, id)
               v == IF m.qty >= z.qty THEN << >> ELSE Quote(z.side, z.price, z.qty - m.qty)
               w == IF m.qty = o.qty THEN << >> ELSE Quote(o.side, o.price, o.qty - m.qty)
    <2>1. /\ id \in DOMAIN s.orders /\ m.qty \in 1..o.qty
          /\ IF m.qty = o.qty THEN IsErase(r.orders, s.orders, id, Ids, SentOrders)
             ELSE IsInsert(r.orders, s.orders, id, Quote(o.side, o.price, o.qty - m.qty),
                           Ids, SentOrders)
      BY <1>1, <1>8 DEF Sends
    <2>2. o \in SentOrders /\ o.qty \in 1..(QuantityRange - 1)
      BY <1>4, <2>1 DEF SentOrders
    <2>3. m.qty \in Quantities /\ m.qty \in Nat /\ o.qty \in Nat /\ m.qty <= o.qty
      <3> HIDE DEF o
      <3> QED BY <2>1, <2>2, BookAssumption DEF Quantities
    <2>4. Known(r, id) = w
      BY <2>1 DEF Known, IsInsert, IsErase
    <2>5. a = Execute(b, id, m.qty)
      BY <1>8 DEF Asked
    <2> HIDE DEF a
    <2>6. /\ a.ret \in BOOLEAN
          /\ IF id \notin DOMAIN b.orders THEN Shows(a.book, b, id, Shown(b, id))
             ELSE a.ret = TRUE /\ Shows(a.book, b, id, v)
      <3> DEFINE qty == m.qty
      <3> HIDE DEF id, qty
      <3>1. /\ a.ret \in BOOLEAN
            /\ IF id \notin DOMAIN b.orders THEN Shows(a.book, b, id, Shown(b, id))
               ELSE /\ a.ret = TRUE
                    /\ Shows(a.book, b, id,
                             IF qty >= z.qty THEN << >>
                             ELSE [side |-> z.side, price |-> z.price, qty |-> z.qty - qty])
        BY <1>1, <2>3, <2>5, ExecuteShows DEF qty
      <3> QED BY <3>1 DEF Quote, qty
    <2>7. <<sym, id>> \notin missing => id \in DOMAIN b.orders /\ v = w
      <3> SUFFICES ASSUME <<sym, id>> \notin missing
                   PROVE  id \in DOMAIN b.orders /\ v = w
        OBVIOUS
      <3>1. id \in DOMAIN b.orders /\ z = o
        BY <1>2, <2>1
      <3>2. m.qty >= o.qty <=> m.qty = o.qty
        BY <2>3
      <3> HIDE DEF z, o
      <3> QED BY <3>1, <3>2
    <2> HIDE DEF v, w
    <2>8. Answers(a, b, r, sym, id, missing)
      BY <2>4, <2>6, <2>7 DEF Answers
    <2> QED BY <2>8 DEF a
  <1> QED BY <1>1, <1>5, <1>6, <1>7, <1>8 DEF Events

-----------------------------------------------------------------------------
(* The inductive invariant of the two ends of the feed. *)
ExchangeInv ==
  /\ SimOk
  /\ DOMAIN books \subseteq Symbols
  /\ \A sym \in Symbols : Mirrors(BookOf(sym), symbols[sym], sym, next_order_id, lost)
  /\ \A sym \in Symbols : sym \notin wrapped => Exact(symbols[sym].orders, symbols[sym].depth)
  /\ losses \in Nat /\ stats \in [StatNames -> Nat]
  /\ NothingRejected

(* A symbol starts with nothing. *)
LEMMA NewSymbolOk ==
  ASSUME NEW sym \in Symbols
  PROVE  /\ SymbolOk(NewSymbol(sym), sym, 0, 1)
         /\ Exact(NewSymbol(sym).orders, NewSymbol(sym).depth)
         /\ Mirrors(EmptyBook, NewSymbol(sym), sym, 1, {})
  <1> DEFINE s == NewSymbol(sym)
             none == << >>
  <1>1. none \in Seq(Ids) /\ DOMAIN none = {} /\ \A S, T : none \in PartialFunctions(S, T)
    BY EmptyMap
  <1> HIDE DEF none
  <1>2. s = [ref_mid |-> StartPrice + sym * PriceStep, orders |-> none, live_ids |-> none,
             index |-> none, depth |-> [side \in Sides |-> none]]
    BY DEF NewSymbol, none
  <1>3. StartPrice + sym * PriceStep \in Nat
    BY Sizing
  <1>4. /\ s.ref_mid = StartPrice + sym * PriceStep /\ s.orders = none /\ s.live_ids = none
        /\ s.index = none /\ s.depth = [side \in Sides |-> none]
    BY <1>2
  <1>5. s \in SymbolStates
    <2>1. [side \in Sides |-> none] \in Depths
      BY <1>1 DEF Depths
    <2> QED BY <1>1, <1>2, <1>3, <2>1 DEF SymbolStates
  <1> HIDE DEF s
  <1>6. \A side \in Sides : DOMAIN s.depth[side] = {}
    BY <1>1, <1>4
  <1>7. SymbolOk(s, sym, 0, 1)
    <2>1. "Buy" \in Sides /\ "Sell" \in Sides
      BY DEF Sides
    <2> QED BY <1>1, <1>4, <1>5, <1>6, <2>1 DEF SymbolOk, Indexed, DepthBanded, Uncrossed
  <1>8. Exact(s.orders, s.depth)
    BY <1>1, <1>4, <1>6 DEF Exact, LevelIds
  <1>9. Mirrors(EmptyBook, s, sym, 1, {})
    <2>1. DOMAIN EmptyBook.orders = {}
      BY EmptyMap DEF EmptyBook
    <2> QED BY <1>1, <1>4, <2>1, EmptySound DEF Mirrors, Shown, Known
  <1> QED BY <1>7, <1>8, <1>9 DEF s

(* It holds at first. *)
LEMMA ExchangeInvInit == Init => ExchangeInv
  <1> SUFFICES ASSUME Init PROVE ExchangeInv
    OBVIOUS
  <1>1. /\ symbols = [sym \in Symbols |-> NewSymbol(sym)] /\ produced = 0 /\ next_order_id = 1
        /\ books = << >> /\ stats = [name \in StatNames |-> 0]
        /\ losses = 0 /\ lost = {} /\ wrapped = {}
    BY DEF Init, SimInit, BuilderInit
  <1>2. \A sym \in Symbols : symbols[sym] = NewSymbol(sym)
    BY <1>1
  <1>3. SimOk
    <2>1. NumMessages \in Nat
      BY SimulatorAssumption
    <2>2. \A sym \in Symbols : NewSymbol(sym) \in SymbolStates
      BY NewSymbolOk DEF SymbolOk
    <2>3. symbols \in [Symbols -> SymbolStates]
      BY <1>1, <2>2
    <2> QED BY <1>1, <1>2, <2>1, <2>3, NewSymbolOk DEF SimOk
  <1>4. DOMAIN books = {}
    BY <1>1, EmptyMap
  <1>5. \A sym \in Symbols : BookOf(sym) = EmptyBook
    BY <1>4 DEF BookOf
  <1>6. /\ \A sym \in Symbols : Mirrors(BookOf(sym), symbols[sym], sym, next_order_id, lost)
        /\ \A sym \in Symbols : Exact(symbols[sym].orders, symbols[sym].depth)
    BY <1>1, <1>2, <1>5, NewSymbolOk
  <1>7. /\ stats.rejected = 0 /\ stats.malformed = 0
        /\ stats.AddOrder = 0 /\ stats.CancelOrder = 0 /\ stats.ModifyOrder = 0
        /\ stats.Trade = 0 /\ stats.BookSnapshot = 0 /\ stats.Heartbeat = 0
        /\ stats \in [StatNames -> Nat]
    BY <1>1 DEF StatNames, Events
  <1>8. NothingRejected
    BY <1>1, <1>7 DEF NothingRejected
  <1> QED BY <1>1, <1>3, <1>4, <1>6, <1>7, <1>8 DEF ExchangeInv

(* The state after a step. *)
LEMMA SimOkNext ==
  ASSUME SimOk, produced < NumMessages, produced' = produced + 1,
         Quiet \/ \E sym \in Symbols : About(sym)
  PROVE  SimOk' /\ next_order_id' \in {next_order_id, next_order_id + 1}
  <1>1. /\ produced \in Nat /\ next_order_id \in Nat /\ next_order_id \in 1..(produced + 1)
        /\ NumMessages \in Nat /\ produced' \in 0..NumMessages
    BY SimulatorAssumption DEF SimOk
  <1>2. CASE Quiet
    <2>1. symbols' = symbols /\ next_order_id' = next_order_id
      BY <1>2 DEF Quiet
    <2>2. \A x \in Symbols : SymbolOk(symbols'[x], x, produced', next_order_id')
      BY <1>1, <2>1, OtherSymbolOk DEF SimOk
    <2> QED BY <1>1, <2>1, <2>2 DEF SimOk
  <1>3. CASE \E sym \in Symbols : About(sym)
    <2>1. PICK sym \in Symbols : About(sym)
      BY <1>3
    <2> DEFINE s == symbols[sym]
               r == symbols'[sym]
               next == next_order_id
               later == next_order_id'
    <2>2. Advances(msg', sym, s, r, produced, next, later) /\ symbols' = [symbols EXCEPT ![sym] = r]
      BY <2>1 DEF About
    <2>3. SymbolOk(s, sym, produced, next)
      BY DEF SimOk
    <2>4. later \in {next, next + 1} /\ SymbolOk(r, sym, produced + 1, later)
      BY <2>2 DEF Advances
    <2>5. \A x \in Symbols : x # sym => symbols'[x] = symbols[x]
      BY <2>2 DEF SimOk
    <2>6. \A x \in Symbols : SymbolOk(symbols'[x], x, produced', next_order_id')
      <3> SUFFICES ASSUME NEW x \in Symbols
                   PROVE  SymbolOk(symbols'[x], x, produced', later)
        OBVIOUS
      <3>1. CASE x = sym
        BY <2>4, <3>1
      <3>2. CASE x # sym
        BY <1>1, <2>4, <2>5, <3>2, OtherSymbolOk DEF SimOk
      <3> QED BY <3>1, <3>2
    <2>7. symbols' \in [Symbols -> SymbolStates]
      BY <2>2, <2>4 DEF SimOk, SymbolOk
    <2>8. next_order_id' \in 1..(produced' + 1)
      BY <1>1, <2>4
    <2> QED BY <1>1, <2>4, <2>6, <2>7, <2>8 DEF SimOk
  <1> QED BY <1>2, <1>3

(* Depth stays exact where it fits. *)
LEMMA ExactNext ==
  ASSUME SimOk, NoteWrap, Quiet \/ \E sym \in Symbols : About(sym),
         \A sym \in Symbols : sym \notin wrapped => Exact(symbols[sym].orders, symbols[sym].depth),
         NEW x \in Symbols, x \notin wrapped'
  PROVE  Exact(symbols'[x].orders, symbols'[x].depth)
  <1>1. x \notin wrapped /\ DepthFits(symbols'[x])
    BY DEF NoteWrap
  <1>2. Exact(symbols[x].orders, symbols[x].depth)
    BY <1>1
  <1>3. CASE Quiet
    BY <1>2, <1>3 DEF Quiet
  <1>4. CASE \E sym \in Symbols : About(sym)
    <2>1. PICK sym \in Symbols : About(sym)
      BY <1>4
    <2>2. KeepsExact(symbols[sym], symbols'[sym]) /\ symbols' = [symbols EXCEPT ![sym] = symbols'[sym]]
      BY <2>1 DEF About, Advances
    <2>3. CASE x = sym
      BY <1>1, <1>2, <2>2, <2>3 DEF KeepsExact
    <2>4. CASE x # sym
      <3>1. symbols'[x] = symbols[x]
        BY <2>2, <2>4 DEF SimOk
      <3> QED BY <1>2, <3>1
    <2> QED BY <2>3, <2>4
  <1> QED BY <1>3, <1>4

(* What is counted under its own name. *)
Counts(st) ==
  st.AddOrder + st.CancelOrder + st.ModifyOrder + st.Trade + st.BookSnapshot + st.Heartbeat

(* The counter of a message's type, and that of the refused. *)
Bumped(st, type, k) == [st EXCEPT ![type] = @ + 1, !.rejected = @ + k]

(* new is st after one more message. *)
IsCounted(new, st, k) ==
  /\ new \in [StatNames -> Nat]
  /\ Counts(new) = Counts(st) + 1
  /\ new.rejected = st.rejected + k /\ new.malformed = st.malformed

(* A message is counted once. *)
LEMMA CountedOnce ==
  ASSUME NEW st \in [StatNames -> Nat], NEW type \in Events \cup {"BookSnapshot", "Heartbeat"},
         NEW k \in Nat, NEW new, new = Bumped(st, type, k)
  PROVE  IsCounted(new, st, k)
  <1>1. /\ "rejected" \in StatNames /\ "malformed" \in StatNames /\ type \in StatNames
        /\ type # "rejected" /\ type # "malformed"
        /\ \A name \in {"AddOrder", "CancelOrder", "ModifyOrder", "Trade", "BookSnapshot",
                        "Heartbeat"} : name \in StatNames /\ name # "rejected"
    BY DEF StatNames, Events
  <1>2. \A name \in StatNames : st[name] \in Nat
    OBVIOUS
  <1>3. /\ new \in [StatNames -> Nat]
        /\ \A name \in StatNames : name # type /\ name # "rejected" => new[name] = st[name]
        /\ new[type] = st[type] + 1
        /\ new["rejected"] = st["rejected"] + k
    <2> DEFINE up == st[type] + 1
               mid == [st EXCEPT ![type] = up]
               total == st["rejected"] + k
    <2>1. up \in Nat
      BY <1>1, <1>2
    <2>2. new = [mid EXCEPT !["rejected"] = total]
      BY DEF Bumped
    <2> HIDE DEF up
    <2>3. /\ mid \in [StatNames -> Nat]
          /\ \A name \in StatNames : name # type => mid[name] = st[name]
          /\ mid[type] = up
      BY <1>1, <2>1
    <2> HIDE DEF mid
    <2>4. total \in Nat
      BY <1>1
    <2> HIDE DEF total
    <2>5. /\ new \in [StatNames -> Nat]
          /\ \A name \in StatNames : name # "rejected" => new[name] = mid[name]
          /\ new["rejected"] = total
      BY <1>1, <2>2, <2>3, <2>4
    <2> QED BY <1>1, <2>3, <2>5 DEF up, total
  <1>4. type \in {"AddOrder", "CancelOrder", "ModifyOrder", "Trade", "BookSnapshot", "Heartbeat"}
    BY DEF Events
  <1>5. new.rejected = st.rejected + k /\ new.malformed = st.malformed
    BY <1>1, <1>3
  <1>6. Counts(new) = Counts(st) + 1
    <2>1. CASE type = "AddOrder"
      BY <1>1, <1>2, <1>3, <2>1 DEF Counts
    <2>2. CASE type = "CancelOrder"
      BY <1>1, <1>2, <1>3, <2>2 DEF Counts
    <2>3. CASE type = "ModifyOrder"
      BY <1>1, <1>2, <1>3, <2>3 DEF Counts
    <2>4. CASE type = "Trade"
      BY <1>1, <1>2, <1>3, <2>4 DEF Counts
    <2>5. CASE type = "BookSnapshot"
      BY <1>1, <1>2, <1>3, <2>5 DEF Counts
    <2>6. CASE type = "Heartbeat"
      BY <1>1, <1>2, <1>3, <2>6 DEF Counts
    <2> QED BY <1>4, <2>1, <2>2, <2>3, <2>4, <2>5, <2>6
  <1> QED BY <1>3, <1>5, <1>6 DEF IsCounted

(* NothingRejected, in terms of the sum. *)
StatsOk(st, n, missing, gone) ==
  /\ st \in [StatNames -> Nat] /\ gone \in Nat
  /\ missing = {} => st.rejected = 0
  /\ Counts(st) = n - gone
  /\ st.malformed <= gone

(* A message is counted, and refused only if something is missing. *)
LEMMA StatsStep ==
  ASSUME NEW st, NEW n \in Nat, NEW missing, NEW gone, StatsOk(st, n, missing, gone),
         NEW type \in Events \cup {"BookSnapshot", "Heartbeat"},
         NEW k \in Nat, missing = {} => k = 0
  PROVE  StatsOk(Bumped(st, type, k), n + 1, missing, gone)
  <1> DEFINE new == Bumped(st, type, k)
  <1>1. st \in [StatNames -> Nat] /\ gone \in Nat
    BY DEF StatsOk
  <1>2. (missing = {} => st.rejected = 0) /\ Counts(st) = n - gone /\ st.malformed <= gone
    BY DEF StatsOk
  <1>3. /\ new \in [StatNames -> Nat]
        /\ Counts(new) = Counts(st) + 1
        /\ new.rejected = st.rejected + k /\ new.malformed = st.malformed
    <2>1. new = Bumped(st, type, k)
      OBVIOUS
    <2> HIDE DEF new
    <2>2. IsCounted(new, st, k)
      BY <1>1, <2>1, CountedOnce
    <2> QED BY <2>2 DEF IsCounted
  <1> HIDE DEF new
  <1>4. missing = {} => new.rejected = 0
    BY <1>2, <1>3
  <1>5. Counts(new) = (n + 1) - gone
    BY <1>1, <1>2, <1>3
  <1>6. new.malformed <= gone
    BY <1>2, <1>3
  <1> QED BY <1>1, <1>3, <1>4, <1>5, <1>6 DEF StatsOk, new

(* The conjuncts of the invariant about the books and the counters. *)
Mirrored == \A sym \in Symbols : Mirrors(BookOf(sym), symbols[sym], sym, next_order_id, lost)

(* StatsOk is NothingRejected for counters of the right types. *)
LEMMA StatsIs == StatsOk(stats, produced, lost, losses) <=>
                   stats \in [StatNames -> Nat] /\ losses \in Nat /\ NothingRejected
  BY DEF StatsOk, NothingRejected, Counts

(* An order event that arrives. *)
LEMMA EventDelivered ==
  ASSUME SimOk, Mirrored, DOMAIN books \subseteq Symbols,
         next_order_id' \in {next_order_id, next_order_id + 1},
         NEW sym \in Symbols, About(sym), OnEvent(msg'), lost' = lost, losses' = losses,
         StatsOk(stats, produced, lost, losses), produced' = produced + 1
  PROVE  Mirrored' /\ DOMAIN books' \subseteq Symbols /\ StatsOk(stats', produced', lost', losses')
  <1> DEFINE m == msg'
             b == BookOf(sym)
             s == symbols[sym]
             r == symbols'[sym]
             next == next_order_id
             later == next_order_id'
             a == Asked(b, m)
             c == a.book
  <1>1. /\ Advances(m, sym, s, r, produced, next, later) /\ m.sym = sym /\ m.type \in Events
        /\ symbols' = [symbols EXCEPT ![sym] = symbols'[sym]]
    BY DEF About, Advances
  <1>2. Outcome(m) = a
    BY <1>1 DEF Outcome, Asked
  <1>3. /\ books' = Insert(books, sym, c)
        /\ stats' = [stats EXCEPT ![m.type] = @ + 1, !.rejected = @ + (IF a.ret THEN 0 ELSE 1)]
    BY <1>1, <1>2 DEF OnEvent
  <1>4. Mirrors(b, s, sym, next, lost) /\ SymbolOk(s, sym, produced, next)
    BY DEF Mirrored, SimOk
  <1>5. next \in Nat /\ next >= 1 /\ produced \in Nat
    BY DEF SimOk
  <1> HIDE DEF m, b, s, r, next, later, a, c
  <1>6. Answers(a, b, r, sym, m.id, lost)
    BY <1>1, <1>4, <1>5, MessageAnswered DEF a
  <1>7. SameKnown(r, s, m.id) /\ m.id \in 1..(later - 1) /\ later \in {next, next + 1}
    BY <1>1, <1>4, <1>5, SendsOne
  <1>8. PICK v : Shows(c, b, m.id, v) /\ (<<sym, m.id>> \notin lost => v = Known(r, m.id))
    BY <1>6 DEF Answers, c
  <1>9. Mirrors(c, r, sym, later, lost)
    <2> DEFINE id == m.id
    <2> HIDE DEF id
    <2>1. Renews(b, c, s, r, sym, id, v, later, lost)
      BY <1>7, <1>8 DEF id, Renews
    <2>2. Mirrors(b, s, sym, next, lost) /\ next \in Nat /\ later \in {next, next + 1}
      BY <1>4, <1>5, <1>7
    <2> QED BY <2>1, <2>2, MirrorsAnew
  <1>10. Mirrored'
    <2> SUFFICES ASSUME NEW x \in Symbols
                 PROVE  Mirrors(BookOf(x)', symbols'[x], x, later, lost)
      BY DEF Mirrored, later
    <2>1. DOMAIN books' = DOMAIN books \cup {sym} /\ books'[sym] = c
          /\ \A y \in DOMAIN books : y # sym => books'[y] = books[y]
      BY <1>3 DEF Insert
    <2>2. CASE x = sym
      <3>1. BookOf(x)' = c
        BY <2>1, <2>2 DEF BookOf
      <3> QED BY <1>9, <2>2, <3>1 DEF r
    <2>3. CASE x # sym
      <3>1. BookOf(x)' = BookOf(x)
        BY <2>1, <2>3 DEF BookOf
      <3>2. symbols'[x] = symbols[x]
        BY <1>1, <2>3 DEF SimOk
      <3>3. Mirrors(BookOf(x), symbols[x], x, next, lost)
        BY DEF Mirrored, next
      <3>4. Mirrors(BookOf(x), symbols[x], x, later, lost)
        BY <1>5, <1>7, <3>3, MirrorsOther
      <3> QED BY <3>1, <3>2, <3>4
    <2> QED BY <2>2, <2>3
  <1>11. DOMAIN books' \subseteq Symbols
    BY <1>3 DEF Insert
  <1>12. StatsOk(stats', produced', lost', losses')
    <2> DEFINE k == IF a.ret THEN 0 ELSE 1
               type == m.type
    <2>1. stats' = Bumped(stats, type, k)
      BY <1>3 DEF Bumped
    <2>2. k \in Nat /\ (lost = {} => k = 0)
      BY <1>6 DEF Answers
    <2>3. type \in Events \cup {"BookSnapshot", "Heartbeat"}
      BY <1>1
    <2> HIDE DEF k, type
    <2>4. StatsOk(Bumped(stats, type, k), produced + 1, lost, losses)
      BY <1>5, <2>2, <2>3, StatsStep
    <2> QED BY <2>1, <2>4
  <1> QED BY <1>10, <1>11, <1>12

(* Books and states that stay. *)
LEMMA QuietMirrored ==
  ASSUME SimOk, Mirrored, books' = books, symbols' = symbols, next_order_id' = next_order_id,
         lost \subseteq lost'
  PROVE  Mirrored'
  <1> SUFFICES ASSUME NEW x \in Symbols
               PROVE  Mirrors(BookOf(x)', symbols'[x], x, next_order_id', lost')
    BY DEF Mirrored
  <1>1. BookOf(x)' = BookOf(x) /\ Mirrors(BookOf(x), symbols[x], x, next_order_id, lost)
    BY DEF BookOf, Mirrored
  <1>2. next_order_id \in Nat
    BY DEF SimOk
  <1> QED BY <1>1, <1>2, MirrorsOther

(* A heartbeat or a snapshot that arrives. *)
LEMMA OtherDelivered ==
  ASSUME SimOk, Mirrored, DOMAIN books \subseteq Symbols,
         Quiet, OnOther(msg'), lost' = lost, losses' = losses,
         StatsOk(stats, produced, lost, losses), produced' = produced + 1
  PROVE  Mirrored' /\ DOMAIN books' \subseteq Symbols /\ StatsOk(stats', produced', lost', losses')
  <1>1. books' = books /\ stats' = [stats EXCEPT ![msg'.type] = @ + 1]
        /\ msg'.type \in {"BookSnapshot", "Heartbeat"}
    BY DEF OnOther
  <1>2. Mirrored'
    BY <1>1, QuietMirrored DEF Quiet
  <1>3. StatsOk(stats', produced', lost', losses')
    <2> DEFINE type == msg'.type
    <2>1. stats' = [stats EXCEPT ![type] = @ + 1] /\ type \in {"BookSnapshot", "Heartbeat"}
      BY <1>1
    <2> HIDE DEF type
    <2>2. stats' = Bumped(stats, type, 0)
      <3> DEFINE mid == [stats EXCEPT ![type] = @ + 1]
      <3>1. /\ stats \in [StatNames -> Nat] /\ type # "rejected"
            /\ "rejected" \in StatNames /\ type \in StatNames
        BY <2>1 DEF StatsOk, StatNames
      <3>2. stats["rejected"] \in Nat /\ mid["rejected"] = stats["rejected"] + 0
            /\ DOMAIN mid = StatNames
        BY <3>1
      <3>3. Bumped(stats, type, 0) = [mid EXCEPT !["rejected"] = stats["rejected"] + 0]
        BY <3>1 DEF Bumped
      <3>4. mid = [x \in DOMAIN mid |-> mid[x]]
        BY <3>1
      <3> HIDE DEF mid
      <3>5. [mid EXCEPT !["rejected"] = stats["rejected"] + 0] = mid
        BY <3>2, <3>4
      <3> QED BY <2>1, <3>3, <3>5 DEF mid
    <2>3. produced \in Nat
      BY DEF SimOk
    <2>4. StatsOk(Bumped(stats, type, 0), produced + 1, lost, losses)
      BY <2>1, <2>3, StatsStep
    <2> QED BY <2>2, <2>4
  <1> QED BY <1>1, <1>2, <1>3

(* What a message that does not arrive, or arrives damaged, does to the counters. *)
AtMostMalformed(new, st) == new = st \/ new = [st EXCEPT !.malformed = @ + 1]

(* A message that is lost, or that arrives damaged, is not counted. *)
LEMMA StatsLost ==
  ASSUME NEW st, NEW n \in Nat, NEW missing, NEW gone, StatsOk(st, n, missing, gone),
         NEW more, missing \subseteq more, NEW new,
         AtMostMalformed(new, st)
  PROVE  StatsOk(new, n + 1, more, gone + 1)
  <1>1. st \in [StatNames -> Nat] /\ gone \in Nat
    BY DEF StatsOk
  <1>2. (missing = {} => st.rejected = 0) /\ Counts(st) = n - gone /\ st.malformed <= gone
    BY DEF StatsOk
  <1>3. /\ "malformed" \in StatNames
        /\ \A name \in {"AddOrder", "CancelOrder", "ModifyOrder", "Trade", "BookSnapshot",
                        "Heartbeat", "rejected"} : name \in StatNames /\ name # "malformed"
    BY DEF StatNames, Events
  <1>4. /\ new \in [StatNames -> Nat]
        /\ new["malformed"] \in {st["malformed"], st["malformed"] + 1}
        /\ \A name \in StatNames : name # "malformed" => new[name] = st[name]
    <2>1. CASE new = st
      BY <1>1, <2>1
    <2>2. CASE new = [st EXCEPT !.malformed = @ + 1]
      <3> DEFINE up == st["malformed"] + 1
      <3>1. up \in Nat
        BY <1>1, <1>3
      <3>2. new = [st EXCEPT !["malformed"] = up]
        BY <2>2
      <3> HIDE DEF up
      <3>3. new \in [StatNames -> Nat] /\ new["malformed"] = up
            /\ \A name \in StatNames : name # "malformed" => new[name] = st[name]
        BY <1>1, <1>3, <3>1, <3>2
      <3> QED BY <3>3 DEF up
    <2> QED BY <2>1, <2>2 DEF AtMostMalformed
  <1>5. Counts(new) = Counts(st)
    BY <1>3, <1>4 DEF Counts
  <1>6. Counts(new) = (n + 1) - (gone + 1)
    BY <1>1, <1>2, <1>5
  <1>7. new.rejected = st.rejected
    BY <1>3, <1>4
  <1>8. new.malformed <= gone + 1
    <2>1. st.malformed \in Nat
      BY <1>1, <1>3
    <2> QED BY <1>1, <1>2, <1>4, <2>1
  <1>9. more = {} => missing = {}
    OBVIOUS
  <1> QED BY <1>1, <1>2, <1>4, <1>6, <1>7, <1>8, <1>9 DEF StatsOk

(* An order event that is lost. *)
LEMMA EventLost ==
  ASSUME SimOk, Mirrored, NEW sym \in Symbols, About(sym), books' = books,
         lost' = lost \cup {<<msg'.sym, msg'.id>>}
  PROVE  Mirrored'
  <1> DEFINE id == msg'.id
             m == msg'
             next == next_order_id
             later == next_order_id'
  <1>1. /\ Advances(m, sym, symbols[sym], symbols'[sym], produced, next, later) /\ m.sym = sym
        /\ symbols' = [symbols EXCEPT ![sym] = symbols'[sym]]
    BY DEF About, Advances
  <1>2. next \in Nat /\ next >= 1 /\ SymbolOk(symbols[sym], sym, produced, next)
    BY DEF SimOk
  <1>3. SameKnown(symbols'[sym], symbols[sym], id) /\ later \in {next, next + 1}
    BY <1>1, <1>2, SendsOne
  <1>4. lost \subseteq lost' /\ <<sym, id>> \in lost'
    BY <1>1
  <1> SUFFICES ASSUME NEW x \in Symbols
               PROVE  Mirrors(BookOf(x)', symbols'[x], x, later, lost')
    BY DEF Mirrored
  <1>5. BookOf(x)' = BookOf(x) /\ Mirrors(BookOf(x), symbols[x], x, next, lost)
    BY DEF BookOf, Mirrored
  <1> HIDE DEF id, m, next, later
  <1>6. CASE x = sym
    BY <1>2, <1>3, <1>4, <1>5, <1>6, MirrorsMissing
  <1>7. CASE x # sym
    <2>1. symbols'[x] = symbols[x]
      BY <1>1, <1>7 DEF SimOk
    <2> QED BY <1>2, <1>3, <1>4, <1>5, <2>1, MirrorsOther
  <1> QED BY <1>6, <1>7

(* Every step preserves the invariant. *)
LEMMA ExchangeInvNext == ExchangeInv /\ [Next]_vars => ExchangeInv'
  <1> SUFFICES ASSUME ExchangeInv, [Next]_vars
               PROVE  ExchangeInv'
    OBVIOUS
  <1>1. /\ SimOk /\ Mirrored /\ DOMAIN books \subseteq Symbols
        /\ StatsOk(stats, produced, lost, losses)
        /\ \A sym \in Symbols : sym \notin wrapped => Exact(symbols[sym].orders, symbols[sym].depth)
    BY StatsIs DEF ExchangeInv, Mirrored
  <1>2. ASSUME SimNext, NoteWrap
        PROVE  /\ Quiet \/ \E sym \in Symbols : About(sym)
               /\ SimOk' /\ next_order_id' \in {next_order_id, next_order_id + 1}
               /\ produced' = produced + 1 /\ produced \in Nat
               /\ \A x \in Symbols : x \notin wrapped' => Exact(symbols'[x].orders, symbols'[x].depth)
    <2>1. produced' = produced + 1 /\ produced < NumMessages /\ produced \in Nat
      BY <1>1, <1>2 DEF SimNext, SimOk
    <2>2. Quiet \/ \E sym \in Symbols : About(sym)
      BY <1>1, <1>2, SimMessages
    <2>3. SimOk' /\ next_order_id' \in {next_order_id, next_order_id + 1}
      BY <1>1, <2>1, <2>2, SimOkNext
    <2>4. \A x \in Symbols : x \notin wrapped' => Exact(symbols'[x].orders, symbols'[x].depth)
      BY <1>1, <1>2, <2>2, ExactNext
    <2> QED BY <2>1, <2>2, <2>3, <2>4
  <1>3. ASSUME Mirrored', DOMAIN books' \subseteq Symbols, StatsOk(stats', produced', lost', losses'),
               SimOk', \A x \in Symbols : x \notin wrapped' => Exact(symbols'[x].orders, symbols'[x].depth)
        PROVE  ExchangeInv'
    <2>1. /\ stats' \in [StatNames -> Nat] /\ losses' \in Nat
          /\ lost' = {} => stats'.rejected = 0
          /\ stats'.AddOrder + stats'.CancelOrder + stats'.ModifyOrder + stats'.Trade
               + stats'.BookSnapshot + stats'.Heartbeat = produced' - losses'
          /\ stats'.malformed <= losses'
      BY <1>3 DEF StatsOk, Counts
    <2>2. NothingRejected'
      BY <2>1 DEF NothingRejected
    <2> QED BY <1>3, <2>1, <2>2 DEF ExchangeInv, Mirrored
  <1>4. CASE Deliver
    <2>1. SimNext /\ NoteWrap /\ OnMessage(msg') /\ lost' = lost /\ losses' = losses
      BY <1>4 DEF Deliver
    <2>2. ASSUME Quiet
          PROVE  Mirrored' /\ DOMAIN books' \subseteq Symbols /\ StatsOk(stats', produced', lost', losses')
      <3>1. OnOther(msg')
        BY <2>1, <2>2 DEF Quiet, OnMessage, OnEvent, Events
      <3> QED BY <1>1, <1>2, <2>1, <2>2, <3>1, OtherDelivered
    <2>3. ASSUME NEW sym \in Symbols, About(sym)
          PROVE  Mirrored' /\ DOMAIN books' \subseteq Symbols /\ StatsOk(stats', produced', lost', losses')
      <3>1. OnEvent(msg')
        BY <2>1, <2>3 DEF About, Advances, OnMessage, OnOther, Events
      <3> QED BY <1>1, <1>2, <2>1, <2>3, <3>1, EventDelivered
    <2> QED BY <1>2, <1>3, <2>1, <2>2, <2>3
  <1>5. CASE Lose
    <2>1. /\ SimNext /\ NoteWrap /\ losses' = losses + 1
          /\ lost' = IF msg'.type \in Events THEN lost \cup {<<msg'.sym, msg'.id>>} ELSE lost
          /\ books' = books /\ (stats' = stats \/ stats' = [stats EXCEPT !.malformed = @ + 1])
      BY <1>5 DEF Lose, OnMalformed, builderVars
    <2>2. lost \subseteq lost'
      BY <2>1
    <2>3. StatsOk(stats', produced', lost', losses')
      <3>1. StatsOk(stats', produced + 1, lost', losses + 1)
        <4> DEFINE new == stats'
        <4>1. AtMostMalformed(new, stats)
          BY <2>1 DEF AtMostMalformed
        <4> HIDE DEF new
        <4>2. StatsOk(new, produced + 1, lost', losses + 1)
          BY <1>1, <1>2, <2>1, <2>2, <4>1, StatsLost
        <4> QED BY <4>2 DEF new
      <3> QED BY <1>2, <2>1, <3>1
    <2>4. ASSUME Quiet
          PROVE  Mirrored'
      BY <1>1, <2>1, <2>2, <2>4, QuietMirrored DEF Quiet
    <2>5. ASSUME NEW sym \in Symbols, About(sym)
          PROVE  Mirrored'
      <3>1. lost' = lost \cup {<<msg'.sym, msg'.id>>}
        BY <2>1, <2>5 DEF About, Advances
      <3> QED BY <1>1, <2>1, <2>5, <3>1, EventLost
    <2> QED BY <1>1, <1>2, <1>3, <2>1, <2>3, <2>4, <2>5
  <1>6. CASE UNCHANGED vars
    <2>1. /\ symbols' = symbols /\ produced' = produced /\ next_order_id' = next_order_id
          /\ books' = books /\ stats' = stats /\ losses' = losses /\ lost' = lost /\ wrapped' = wrapped
      BY <1>6 DEF vars, simVars, builderVars, feedVars
    <2>2. SimOk'
      BY <1>1, <2>1 DEF SimOk
    <2>3. Mirrored'
      BY <1>1, <2>1 DEF Mirrored, BookOf
    <2> QED BY <1>1, <1>3, <2>1, <2>2, <2>3
  <1> QED BY <1>4, <1>5, <1>6 DEF Next

(* The two ends of the feed have their invariant in every behaviour. *)
LEMMA ExchangeInvariant == Spec => []ExchangeInv
  <1>1. Init => ExchangeInv
    BY ExchangeInvInit
  <1>2. ExchangeInv /\ [Next]_vars => ExchangeInv'
    BY ExchangeInvNext
  <1> QED BY <1>1, <1>2, PTL DEF Spec

-----------------------------------------------------------------------------
(* What the invariant promises. *)

(* The lists of the simulator are in step. *)
LEMMA IndexedIs == ExchangeInv => LiveIdsIndexed
  <1> SUFFICES ASSUME ExchangeInv, NEW sym \in Symbols
               PROVE  LET s == symbols[sym]
                      IN  /\ Range(s.live_ids) = DOMAIN s.orders
                          /\ DOMAIN s.index = DOMAIN s.orders
                          /\ \A id \in DOMAIN s.index :
                               s.index[id] \in DOMAIN s.live_ids /\ s.live_ids[s.index[id]] = id
    BY DEF LiveIdsIndexed
  <1> DEFINE s == symbols[sym]
  <1>1. Indexed(s)
    BY DEF ExchangeInv, SimOk, SymbolOk
  <1> HIDE DEF s
  <1>2. Range(s.live_ids) = DOMAIN s.orders
    BY <1>1 DEF Indexed, Range
  <1> QED BY <1>1, <1>2 DEF Indexed, s

(* The swap-remove of unregister_order keeps live_ids, the index and the    *)
(* orders of every symbol in step, for any number of symbols and messages.  *)
THEOREM LiveIdsAlwaysIndexed == Spec => []LiveIdsIndexed
  BY ExchangeInvariant, IndexedIs, PTL

(* What the books show is what was sent. *)
LEMMA ConfinedIs == ExchangeInv => LossConfined
  <1> SUFFICES ASSUME ExchangeInv, NEW sym \in Symbols, NEW id \in Ids, <<sym, id>> \notin lost
               PROVE  BuiltOrder(sym, id) = SentOrder(sym, id)
    BY DEF LossConfined
  <1>1. Shown(BookOf(sym), id) = Known(symbols[sym], id)
    BY DEF ExchangeInv, Mirrors
  <1> QED BY <1>1 DEF Shown, Known, BuiltOrder, SentOrder

(* Whatever messages are lost, a reconstructed book is wrong only about the *)
(* orders of which a message was lost.                                      *)
THEOREM LossAlwaysConfined == Spec => []LossConfined
  BY ExchangeInvariant, ConfinedIs, PTL

(* Every message that arrives whole is counted once under its own name, no  *)
(* book ever refuses one while none was lost, and no more are counted as    *)
(* malformed than were lost.                                                *)
THEOREM NothingEverRejected == Spec => []NothingRejected
  <1>1. ExchangeInv => NothingRejected
    BY DEF ExchangeInv
  <1> QED BY <1>1, ExchangeInvariant, PTL

(* A sound book passes check_invariants, but for the crossed book. *)
LEMMA BookIsConsistent ==
  ASSUME NEW b, Sound(b)
  PROVE  BookConsistent(b)
  <1>1. \A s \in Sides : LevelOk(b, s)
    BY DEF Sound, LevelOk, LevelSound
  <1>2. "Buy" \in Sides /\ "Sell" \in Sides
    BY DEF Sides
  <1>3. Counted(b) = Cardinality(DOMAIN b.orders)
    BY CountedIs
  <1> QED BY <1>1, <1>2, <1>3 DEF BookConsistent

-----------------------------------------------------------------------------
(* Prices, best first. *)

(* A finite set of prices has a worst one. *)
LEMMA WorstExists ==
  ASSUME NEW S, IsFiniteSet(S), S \subseteq Int, S # {}, NEW side
  PROVE  \E w \in S : \A q \in S : q = w \/ Better(side, q, w)
  <1> DEFINE Worst(s, w) == \A q \in s : q = w \/ Better(side, q, w)
             P == {s \in SUBSET S : s # {} => \E w \in s : Worst(s, w)}
  <1>1. {} \in P
    OBVIOUS
  <1>2. ASSUME NEW s \in SUBSET S, NEW x \in S \ s, s \in P
        PROVE  s \cup {x} \in P
    <2>1. CASE s = {}
      <3>1. Worst(s \cup {x}, x)
        BY <2>1
      <3> QED BY <3>1
    <2>2. CASE s # {}
      <3>1. PICK w \in s : Worst(s, w)
        BY <1>2, <2>2
      <3>2. w \in Int /\ x \in Int /\ \A q \in s : q \in Int
        OBVIOUS
      <3>3. CASE Better(side, x, w)
        <4>1. Worst(s \cup {x}, w)
          BY <3>1, <3>3
        <4> QED BY <4>1
      <3>4. CASE ~Better(side, x, w)
        <4>1. Worst(s \cup {x}, x)
          BY <3>1, <3>2, <3>4 DEF Better
        <4> QED BY <4>1
      <3> QED BY <3>3, <3>4
    <2> QED BY <2>1, <2>2
  <1>3. \A s \in SUBSET S : \A x \in S \ s : s \in P => s \cup {x} \in P
    BY <1>2
  <1>4. S \in P
    <2> HIDE DEF P
    <2>1. \A s \in SUBSET S : s \in P
      BY <1>1, <1>3, FiniteInduction
    <2> QED BY <2>1
  <1> QED BY <1>4

(* Those of a set that are better than p. *)
Betters(s, side, p) == {q \in s : Better(side, q, p)}

(* Every place in the order is taken. *)
Ranked(s, side) == \A i \in 1..Cardinality(s) : \E p \in s : Cardinality(Betters(s, side, p)) = i - 1

(* A finite set of prices can be listed, best first. *)
LEMMA RankExists ==
  ASSUME NEW S, IsFiniteSet(S), S \subseteq Int, NEW side
  PROVE  Ranked(S, side)
  <1> DEFINE T == {n \in Nat : \A s \in SUBSET S : Cardinality(s) = n => Ranked(s, side)}
  <1>1. \A s \in SUBSET S : IsFiniteSet(s) /\ Cardinality(s) \in Nat
    BY FS_Subset, FS_CardinalityType
  <1>2. 0 \in T
    BY DEF Ranked
  <1>3. ASSUME NEW n \in Nat, n \in T
        PROVE  n + 1 \in T
    <2> SUFFICES ASSUME NEW s \in SUBSET S, Cardinality(s) = n + 1
                 PROVE  Ranked(s, side)
      OBVIOUS
    <2>1. IsFiniteSet(s) /\ s # {} /\ s \subseteq Int
      BY <1>1, FS_EmptySet
    <2>2. PICK w \in s : \A q \in s : q = w \/ Better(side, q, w)
      BY <2>1, WorstExists
    <2> DEFINE r == s \ {w}
    <2>3. Cardinality(r) = n /\ r \in SUBSET S
      <3>1. Cardinality(r) = Cardinality(s) - 1
        BY <2>1, FS_RemoveElement
      <3> QED BY <3>1
    <2>4. Ranked(r, side)
      BY <1>3, <2>3
    <2>5. Betters(s, side, w) = r
      <3>1. w \in Int
        BY <2>1
      <3>2. ~Better(side, w, w)
        BY <3>1 DEF Better
      <3> QED BY <2>2, <3>2 DEF Betters
    <2>6. \A p \in r : Betters(s, side, p) = Betters(r, side, p)
      <3> SUFFICES ASSUME NEW p \in r
                   PROVE  Betters(s, side, p) = Betters(r, side, p)
        OBVIOUS
      <3>1. p \in Int /\ w \in Int /\ Better(side, p, w)
        BY <2>1, <2>2
      <3>2. ~Better(side, w, p)
        BY <3>1 DEF Better
      <3> QED BY <3>2 DEF Betters
    <2> SUFFICES ASSUME NEW i \in 1..(n + 1)
                 PROVE  \E p \in s : Cardinality(Betters(s, side, p)) = i - 1
      BY DEF Ranked
    <2>7. CASE i = n + 1
      <3>1. Cardinality(Betters(s, side, w)) = i - 1
        BY <2>3, <2>5, <2>7
      <3> QED BY <3>1
    <2>8. CASE i # n + 1
      <3>1. i \in 1..Cardinality(r)
        BY <2>3, <2>8
      <3>2. PICK p \in r : Cardinality(Betters(r, side, p)) = i - 1
        BY <2>4, <3>1 DEF Ranked
      <3> QED BY <2>6, <3>2
    <2> QED BY <2>7, <2>8
  <1>4. \A n \in Nat : n \in T
    <2> HIDE DEF T
    <2> QED BY <1>2, <1>3, SetInduction
  <1>5. S \in SUBSET S /\ Cardinality(S) \in Nat
    BY <1>1
  <1> QED BY <1>4, <1>5

(* The prices of a set, best first. *)
LEMMA BestFirstIs ==
  ASSUME NEW S, IsFiniteSet(S), S \subseteq Int, NEW side
  PROVE  /\ Cardinality(S) \in Nat
         /\ BestFirst(S, side) \in [1..Cardinality(S) -> S]
         /\ Len(BestFirst(S, side)) = Cardinality(S)
         /\ S # {} => /\ Cardinality(S) > 0
                      /\ \A q \in S : q = BestFirst(S, side)[1] \/ Better(side, BestFirst(S, side)[1], q)
  <1> DEFINE c == Cardinality(S)
             best == BestFirst(S, side)
             P(i, p) == Cardinality({q \in S : Better(side, q, p)}) = i - 1
  <1>1. c \in Nat /\ (S # {} => c > 0)
    BY FS_CardinalityType, FS_EmptySet
  <1>2. \A i \in 1..c : \E p \in S : P(i, p)
    <2>1. Ranked(S, side)
      BY RankExists
    <2> QED BY <2>1 DEF Ranked, Betters
  <1>3. best = [i \in 1..c |-> CHOOSE p \in S : P(i, p)]
    BY DEF BestFirst
  <1> HIDE DEF c, best
  <1>4. \A i \in 1..c : (CHOOSE p \in S : P(i, p)) \in S /\ P(i, CHOOSE p \in S : P(i, p))
    <2> HIDE DEF P
    <2> QED BY <1>2
  <1>5. best \in [1..c -> S] /\ \A i \in 1..c : P(i, best[i])
    BY <1>3, <1>4
  <1>6. Len(best) = c
    BY <1>1, <1>5
  <1>7. ASSUME S # {}, NEW q \in S
        PROVE  q = best[1] \/ Better(side, best[1], q)
    <2>1. 1 \in 1..c
      BY <1>1, <1>7
    <2> DEFINE B == {x \in S : Better(side, x, best[1])}
    <2>2. Cardinality(B) = 0
      BY <1>5, <2>1
    <2>3. IsFiniteSet(B)
      BY FS_Subset
    <2>4. B = {}
      <3> HIDE DEF B
      <3> QED BY <2>2, <2>3, FS_EmptySet
    <2>5. ~Better(side, q, best[1]) /\ q \in Int /\ best[1] \in Int
      BY <1>5, <2>1, <2>4
    <2> QED BY <2>5 DEF Better
  <1> QED BY <1>1, <1>5, <1>6, <1>7 DEF c, best

-----------------------------------------------------------------------------
(* A book that has all that the exchange has. *)
Agrees(b, s) == Sound(b) /\ s \in SymbolStates /\ \A id : Shown(b, id) = Known(s, id)

(* They have the same orders, at the same prices and of the same size. *)
LEMMA AgreeOrders ==
  ASSUME NEW b, NEW s, Agrees(b, s)
  PROVE  /\ DOMAIN b.orders = DOMAIN s.orders
         /\ \A id \in DOMAIN s.orders :
              /\ b.orders[id].side = s.orders[id].side
              /\ b.orders[id].price = s.orders[id].price
              /\ b.nodes[b.orders[id].it].quantity = s.orders[id].qty
  <1>1. ASSUME NEW id
        PROVE  id \in DOMAIN b.orders <=> id \in DOMAIN s.orders
    <2>1. Sound(b) /\ Shown(b, id) = Known(s, id)
      BY DEF Agrees
    <2>2. id \in DOMAIN s.orders => s.orders[id] \in SentOrders
      BY StateParts, PartialFunction DEF Agrees
    <2>3. id \in DOMAIN s.orders <=> Known(s, id) # << >>
      BY <2>2, OrderIsSome DEF Known
    <2> QED BY <2>1, <2>3, ShownIs
  <1>2. DOMAIN b.orders = DOMAIN s.orders
    BY <1>1
  <1>3. ASSUME NEW id \in DOMAIN s.orders
        PROVE  /\ b.orders[id].side = s.orders[id].side
               /\ b.orders[id].price = s.orders[id].price
               /\ b.nodes[b.orders[id].it].quantity = s.orders[id].qty
    <2> DEFINE o == s.orders[id]
    <2>1. o = [side |-> b.orders[id].side, price |-> b.orders[id].price,
               qty |-> b.nodes[b.orders[id].it].quantity]
      BY <1>2 DEF Agrees, Shown, Known
    <2> HIDE DEF o
    <2>2. o.side = b.orders[id].side /\ o.price = b.orders[id].price
          /\ o.qty = b.nodes[b.orders[id].it].quantity
      BY <2>1
    <2> QED BY <2>2 DEF o
  <1> QED BY <1>2, <1>3

(* A level of the book has the orders that the exchange has there. *)
LEMMA LevelAgrees ==
  ASSUME NEW b, NEW s, Agrees(b, s), NEW side \in Sides, NEW p \in DOMAIN b.levels[side]
  PROVE  LET ids == LevelIds(s.orders, side, p)
             lvl == b.levels[side][p]
         IN  /\ ids # {} /\ Cardinality(ids) = Len(lvl.orders)
             /\ IsSetSum(ids, Amounts(s.orders), ExactSum(b, lvl))
  <1> DEFINE ids == LevelIds(s.orders, side, p)
             lvl == b.levels[side][p]
             list == lvl.orders
             n == Len(list)
             e == [i \in 1..n |-> b.nodes[list[i]].id]
             q == Sizes(b, list)
             f == Amounts(s.orders)
  <1>1. Sound(b) /\ s \in SymbolStates
    BY DEF Agrees
  <1>2. list \in Seq(Nodes) /\ ListLinked(b, side, p, list) /\ Sized(b, list) /\ LevelSound(b, side, p)
    BY <1>1, SoundLists
  <1>3. n \in Nat /\ DOMAIN list = 1..n /\ n # 0
    BY <1>2 DEF LevelSound
  <1>4. q \in Seq(Int) /\ Len(q) = n /\ \A i \in 1..n : q[i] = b.nodes[list[i]].quantity
    BY <1>2, SizesShape
  <1>5. IsSum(q, ExactSum(b, lvl))
    BY <1>2, ExactSumIs
  <1>6. /\ DOMAIN b.orders = DOMAIN s.orders
        /\ \A id \in DOMAIN s.orders :
             /\ b.orders[id].side = s.orders[id].side
             /\ b.orders[id].price = s.orders[id].price
             /\ b.nodes[b.orders[id].it].quantity = s.orders[id].qty
    BY AgreeOrders
  <1>7. IsInjective(list) /\ \A i \in 1..n : Resides(b, side, p, list[i])
    BY <1>2, <1>3 DEF ListLinked
  <1> HIDE DEF list, n, q, lvl
  <1>8. ASSUME NEW i \in 1..n
        PROVE  e[i] \in ids /\ b.orders[e[i]].it = list[i] /\ f[e[i]] = q[i]
    <2>1. Resides(b, side, p, list[i]) /\ e[i] = b.nodes[list[i]].id
      BY <1>7
    <2>2. /\ e[i] \in DOMAIN b.orders /\ b.orders[e[i]].it = list[i]
          /\ b.orders[e[i]].side = side /\ b.orders[e[i]].price = p
      BY <1>1, <2>1 DEF Resides, Sound, NodesLinked
    <2> HIDE DEF e
    <2>3. e[i] \in ids
      BY <1>6, <2>2 DEF LevelIds
    <2>4. f[e[i]] = q[i]
      BY <1>4, <1>6, <2>2 DEF Amounts
    <2> QED BY <2>2, <2>3, <2>4
  <1>9. ASSUME NEW id \in ids
        PROVE  \E i \in 1..n : e[i] = id
    <2>1. id \in DOMAIN b.orders /\ b.orders[id].side = side /\ b.orders[id].price = p
      BY <1>6 DEF LevelIds
    <2>2. PICK k : IsKth(b, id, b.orders[id], k)
      BY <1>1, <2>1, OrderPlace
    <2>3. k \in 1..n /\ list[k] = b.orders[id].it
      BY <1>3, <2>1, <2>2 DEF IsKth, list, lvl
    <2>4. b.nodes[b.orders[id].it].id = id
      BY <1>1, <2>1 DEF Sound, OrdersLinked, OrderLinked
    <2> QED BY <2>3, <2>4
  <1>10. Enumerates(e, n, ids)
    <2>1. e \in [1..n -> ids]
      BY <1>8
    <2>2. \A i, j \in 1..n : e[i] = e[j] => i = j
      <3> SUFFICES ASSUME NEW i \in 1..n, NEW j \in 1..n, e[i] = e[j]
                   PROVE  i = j
        OBVIOUS
      <3> HIDE DEF e
      <3>1. list[i] = list[j]
        BY <1>8
      <3> QED BY <1>3, <1>7, <3>1 DEF IsInjective
    <2> HIDE DEF e
    <2> QED BY <1>9, <2>1, <2>2 DEF Enumerates
  <1> HIDE DEF e, ids, f
  <1>11. Cardinality(ids) = n
    BY <1>3, <1>10, EnumeratedSize
  <1>12. ids # {}
    <2>1. 1 \in 1..n
      BY <1>3
    <2> QED BY <1>8, <2>1
  <1>13. IsSetSum(ids, f, ExactSum(b, lvl))
    <2>1. \A i \in 1..Len(q) : f[e[i]] = q[i]
      BY <1>4, <1>8
    <2>2. Enumerates(e, Len(q), ids)
      BY <1>4, <1>10
    <2> QED BY <1>4, <1>5, <2>1, <2>2, ListSetSum
  <1> QED BY <1>11, <1>12, <1>13 DEF ids, f, n, list, lvl

(* If the exchange's depth is exact, it has the levels of the book. *)
LevelsAgree(b, s) ==
  \A side \in Sides :
    /\ DOMAIN b.levels[side] = DOMAIN s.depth[side]
    /\ \A p \in DOMAIN b.levels[side] :
         /\ b.levels[side][p].price = p
         /\ b.levels[side][p].total = s.depth[side][p]
         /\ Len(b.levels[side][p].orders) = Cardinality(LevelIds(s.orders, side, p))

(* A book that agrees with an exact depth has its prices, totals and lengths. *)
LEMMA DepthAgrees ==
  ASSUME NEW b, NEW s, Agrees(b, s), Exact(s.orders, s.depth)
  PROVE  LevelsAgree(b, s)
  <1> SUFFICES ASSUME NEW side \in Sides
               PROVE  /\ DOMAIN b.levels[side] = DOMAIN s.depth[side]
                      /\ \A p \in DOMAIN b.levels[side] :
                           /\ b.levels[side][p].price = p
                           /\ b.levels[side][p].total = s.depth[side][p]
                           /\ Len(b.levels[side][p].orders) = Cardinality(LevelIds(s.orders, side, p))
    BY DEF LevelsAgree
  <1>1. Sound(b) /\ s \in SymbolStates
    BY DEF Agrees
  <1>2. /\ s.orders \in PartialFunctions(Ids, SentOrders)
        /\ s.depth[side] \in PartialFunctions(Prices, Quantities)
    BY <1>1, StateParts
  <1>3. DOMAIN s.depth[side] \subseteq Prices /\ DOMAIN b.levels[side] \subseteq Prices
    BY <1>1, <1>2, PartialFunction, BookParts DEF Sound
  <1>4. ASSUME NEW p \in DOMAIN b.levels[side]
        PROVE  /\ p \in DOMAIN s.depth[side]
               /\ b.levels[side][p].price = p
               /\ b.levels[side][p].total = s.depth[side][p]
               /\ Len(b.levels[side][p].orders) = Cardinality(LevelIds(s.orders, side, p))
    <2> DEFINE ids == LevelIds(s.orders, side, p)
               lvl == b.levels[side][p]
               d == s.depth[side][p]
               x == ExactSum(b, lvl)
    <2>1. /\ ids # {} /\ Cardinality(ids) = Len(lvl.orders)
          /\ IsSetSum(ids, Amounts(s.orders), x)
      BY LevelAgrees
    <2>2. p \in DOMAIN s.depth[side] /\ IsSetSum(ids, Amounts(s.orders), d)
      BY <1>3, <2>1 DEF Exact
    <2>3. IsFiniteSet(ids)
      BY <1>2, LevelFinite
    <2>4. x = d
      <3> HIDE DEF ids, x, d
      <3> QED BY <2>1, <2>2, <2>3, SetSumUnique
    <2>5. d \in Quantities
      BY <1>2, <2>2, PartialFunction
    <2>6. lvl.price = p /\ x % QuantityRange = lvl.total
      BY <1>1 DEF Sound, LevelSound
    <2>7. d % QuantityRange = d
      <3> HIDE DEF d
      <3> QED BY <2>5, BookAssumption DEF Quantities
    <2> QED BY <2>1, <2>2, <2>4, <2>6, <2>7
  <1>5. ASSUME NEW p \in DOMAIN s.depth[side]
        PROVE  p \in DOMAIN b.levels[side]
    <2>1. PICK id \in LevelIds(s.orders, side, p) : TRUE
      BY <1>3 DEF Exact
    <2>2. id \in DOMAIN b.orders /\ b.orders[id].side = side /\ b.orders[id].price = p
      BY <2>1, AgreeOrders DEF LevelIds
    <2>3. OrderLinked(b, id, b.orders[id])
      BY <1>1, <2>2 DEF Sound, OrdersLinked
    <2> QED BY <2>2, <2>3 DEF OrderLinked
  <1> QED BY <1>4, <1>5

(* A book has finitely many levels. *)
LEMMA LevelsFinite ==
  ASSUME NEW b, Sound(b), NEW side \in Sides
  PROVE  IsFiniteSet(DOMAIN b.levels[side]) /\ DOMAIN b.levels[side] \subseteq Int
  <1> DEFINE D == DOMAIN b.levels[side]
             f == [p \in D |-> b.nodes[b.levels[side][p].orders[1]].id]
  <1>1. D \subseteq Int
    BY BookParts, BookAssumption DEF Sound
  <1>2. ASSUME NEW p \in D
        PROVE  f[p] \in Ids /\ b.orders[f[p]].price = p
    <2> DEFINE list == b.levels[side][p].orders
    <2>1. list \in Seq(Nodes) /\ ListLinked(b, side, p, list) /\ LevelSound(b, side, p)
      BY SoundLists
    <2>2. 1 \in DOMAIN list
      BY <2>1 DEF LevelSound
    <2>3. Resides(b, side, p, list[1])
      BY <2>1, <2>2 DEF ListLinked
    <2>4. b.nodes[list[1]].id \in Ids /\ b.orders[b.nodes[list[1]].id].price = p
      BY <2>3, BookParts DEF Resides, Sound
    <2> QED BY <2>4
  <1>3. f \in [D -> Ids]
    BY <1>2
  <1> HIDE DEF f, D
  <1>4. f \in Injection(D, Ids)
    BY <1>2, <1>3 DEF Injection, IsInjective
  <1>5. IsFiniteSet(D)
    BY <1>4, BookAssumption, FS_Injection
  <1> QED BY <1>1, <1>5 DEF D

(* The least of two. *)
LEMMA MinOfTwo ==
  ASSUME NEW a \in Nat, NEW c \in Nat
  PROVE  Min({a, c}) = IF a <= c THEN a ELSE c
  <1> DEFINE m == IF a <= c THEN a ELSE c
  <1>1. m \in {a, c} /\ \A y \in {a, c} : m <= y
    OBVIOUS
  <1>2. Min({a, c}) \in {a, c} /\ \A y \in {a, c} : Min({a, c}) <= y
    BY <1>1 DEF Min
  <1> QED BY <1>1, <1>2

(* p is a level of the side, and the others are worse. *)
IsBest(D, side, p) == p \in D /\ \A q \in D : q = p \/ Better(side, p, q)

(* best_bid and best_ask are the best level, or none. *)
LEMMA BestIs ==
  ASSUME NEW b, Sound(b), NEW side \in Sides
  PROVE  IF DOMAIN b.levels[side] = {} THEN Best(b, side) = << >>
         ELSE /\ Best(b, side) # << >>
              /\ \E p : /\ IsBest(DOMAIN b.levels[side], side, p)
                        /\ Best(b, side)[1] = LevelView(b.levels[side][p])
  <1> DEFINE D == DOMAIN b.levels[side]
             c == Cardinality(D)
             best == BestFirst(D, side)
             V(i) == LevelView(b.levels[side][best[i]])
  <1>1. IsFiniteSet(D) /\ D \subseteq Int
    BY LevelsFinite
  <1>2. Best(b, side) = [i \in 1..Min({1, Len(best)}) |-> V(i)]
    BY DEF Best, TopLevels, PricesBestFirst
  <1>3. /\ c \in Nat /\ best \in [1..c -> D] /\ Len(best) = c
        /\ D # {} => c > 0 /\ \A q \in D : q = best[1] \/ Better(side, best[1], q)
    <2> HIDE DEF D
    <2> QED BY <1>1, BestFirstIs
  <1>4. D = {} => c = 0
    BY FS_EmptySet
  <1> HIDE DEF V, best, c, D
  <1>5. Min({1, Len(best)}) = IF D = {} THEN 0 ELSE 1
    <2>1. Min({1, c}) = IF 1 <= c THEN 1 ELSE c
      BY <1>3, MinOfTwo
    <2> QED BY <1>3, <1>4, <2>1
  <1>6. CASE D = {}
    <2>1. Best(b, side) = [i \in 1..0 |-> V(i)]
      BY <1>2, <1>5, <1>6
    <2>2. Best(b, side) = << >>
      BY <2>1
    <2> QED BY <1>6, <2>2 DEF D
  <1>7. CASE D # {}
    <2>1. Best(b, side) = [i \in 1..1 |-> V(i)]
      BY <1>2, <1>5, <1>7
    <2>2. Best(b, side)[1] = V(1) /\ Best(b, side) # << >>
      BY <2>1
    <2>3. IsBest(D, side, best[1])
      BY <1>3, <1>7 DEF IsBest
    <2> QED BY <1>7, <2>2, <2>3 DEF D, V
  <1> QED BY <1>6, <1>7

(* A book with the levels of an exchange that is not crossed is not, either. *)
LEMMA AgreesUncrossed ==
  ASSUME NEW b, NEW s, Sound(b), LevelsAgree(b, s), Uncrossed(s.depth)
  PROVE  ~Crossed(b)
  <1> SUFFICES ASSUME Crossed(b) PROVE FALSE
    OBVIOUS
  <1>1. "Buy" \in Sides /\ "Sell" \in Sides
    BY DEF Sides
  <1>2. Best(b, "Buy") # << >> /\ Best(b, "Sell") # << >>
        /\ Best(b, "Buy")[1].price >= Best(b, "Sell")[1].price
    BY DEF Crossed
  <1>3. ASSUME NEW side \in Sides, Best(b, side) # << >>
        PROVE  Best(b, side)[1].price \in DOMAIN s.depth[side] /\ Best(b, side)[1].price \in Int
    <2>1. PICK p : /\ IsBest(DOMAIN b.levels[side], side, p)
                   /\ Best(b, side)[1] = LevelView(b.levels[side][p])
      BY <1>3, BestIs
    <2>2. p \in DOMAIN b.levels[side] /\ b.levels[side][p].price = p
          /\ DOMAIN b.levels[side] = DOMAIN s.depth[side]
      BY <2>1 DEF IsBest, LevelsAgree
    <2>3. Best(b, side)[1].price = p
      BY <2>1, <2>2 DEF LevelView
    <2>4. p \in Int
      BY <2>2, LevelsFinite
    <2> QED BY <2>2, <2>3, <2>4
  <1> DEFINE x == Best(b, "Buy")[1].price
             y == Best(b, "Sell")[1].price
  <1>4. x \in DOMAIN s.depth["Buy"] /\ x \in Int /\ y \in DOMAIN s.depth["Sell"] /\ y \in Int
    BY <1>1, <1>2, <1>3
  <1>5. x < y
    BY <1>4 DEF Uncrossed
  <1> HIDE DEF x, y
  <1>6. x >= y
    BY <1>2 DEF x, y
  <1> QED BY <1>4, <1>5, <1>6

(* Where nothing was lost and the depth fits, book and exchange agree. *)
LEMMA IntactAgrees ==
  ASSUME ExchangeInv, NEW sym \in Symbols, Intact(sym)
  PROVE  /\ Agrees(BookOf(sym), symbols[sym])
         /\ LevelsAgree(BookOf(sym), symbols[sym])
         /\ Exact(symbols[sym].orders, symbols[sym].depth)
         /\ SymbolOk(symbols[sym], sym, produced, next_order_id)
  <1>1. /\ Mirrors(BookOf(sym), symbols[sym], sym, next_order_id, lost)
        /\ SymbolOk(symbols[sym], sym, produced, next_order_id)
        /\ Exact(symbols[sym].orders, symbols[sym].depth)
    BY DEF ExchangeInv, SimOk, Intact
  <1>2. \A id : <<sym, id>> \notin lost
    <2> SUFFICES ASSUME NEW id, <<sym, id>> \in lost PROVE FALSE
      OBVIOUS
    <2>1. <<sym, id>>[1] # sym
      BY DEF Intact
    <2> QED BY <2>1
  <1>3. Agrees(BookOf(sym), symbols[sym])
    BY <1>1, <1>2 DEF Agrees, Mirrors, SymbolOk
  <1> QED BY <1>1, <1>3, DepthAgrees

(* check_invariants, whatever is lost. *)
LEMMA CrossesIs == ExchangeInv => OnlyLossCrosses
  <1> SUFFICES ASSUME ExchangeInv, NEW sym \in DOMAIN books
               PROVE  IF Intact(sym) THEN CheckInvariants(books[sym]) ELSE BookConsistent(books[sym])
    BY DEF OnlyLossCrosses
  <1>1. sym \in Symbols /\ books[sym] = BookOf(sym)
    BY DEF ExchangeInv, BookOf
  <1> DEFINE b == BookOf(sym)
  <1>2. Sound(b)
    BY <1>1 DEF ExchangeInv, Mirrors
  <1>3. BookConsistent(b)
    BY <1>2, BookIsConsistent
  <1>4. Intact(sym) => ~Crossed(b)
    <2> SUFFICES ASSUME Intact(sym) PROVE ~Crossed(b)
      OBVIOUS
    <2>1. LevelsAgree(b, symbols[sym]) /\ Uncrossed(symbols[sym].depth)
      BY <1>1, IntactAgrees DEF SymbolOk
    <2> QED BY <1>2, <2>1, AgreesUncrossed
  <1> QED BY <1>1, <1>3, <1>4 DEF CheckInvariants

(* check_invariants never fails for a book of which nothing was lost and    *)
(* whose depth fitted; of any other book it can only say that it is         *)
(* crossed.                                                                 *)
THEOREM OnlyLossEverCrosses == Spec => []OnlyLossCrosses
  BY ExchangeInvariant, CrossesIs, PTL

(* The best price of the exchange. *)
LEMMA BestDepthBest ==
  ASSUME NEW s, NEW side, NEW p, IsBest(DOMAIN s.depth[side], side, p), DOMAIN s.depth[side] \subseteq Int
  PROVE  BestDepth(s, side) = p
  <1> DEFINE D == DOMAIN s.depth[side]
             B(x) == \A q \in D : x = q \/ Better(side, x, q)
             c == BestDepth(s, side)
  <1>1. c = CHOOSE x \in D : B(x)
    BY DEF BestDepth
  <1>2. p \in D /\ B(p)
    BY DEF IsBest
  <1>3. c \in D /\ B(c)
    <2> HIDE DEF B, D
    <2> QED BY <1>1, <1>2
  <1> HIDE DEF c
  <1>4. c \in Int /\ p \in Int
    BY <1>2, <1>3
  <1>5. (c = p \/ Better(side, c, p)) /\ (p = c \/ Better(side, p, c))
    BY <1>2, <1>3
  <1> QED BY <1>4, <1>5 DEF Better, c

(* What the fingerprint mixes of a side. *)
LEMMA MixAgrees ==
  ASSUME NEW b, NEW s, Sound(b), LevelsAgree(b, s), NEW side \in Sides
  PROVE  MixBest(b, side) = TopOf(s, side)
  <1> DEFINE D == DOMAIN b.levels[side]
  <1>1. D = DOMAIN s.depth[side] /\ D \subseteq Int
    BY LevelsFinite DEF LevelsAgree
  <1>2. CASE D = {}
    <2>1. Best(b, side) = << >>
      BY <1>2, BestIs
    <2> QED BY <1>1, <1>2, <2>1 DEF MixBest, TopOf
  <1>3. CASE D # {}
    <2>1. /\ Best(b, side) # << >>
          /\ \E p : IsBest(D, side, p) /\ Best(b, side)[1] = LevelView(b.levels[side][p])
      BY <1>3, BestIs
    <2>2. PICK p : IsBest(D, side, p) /\ Best(b, side)[1] = LevelView(b.levels[side][p])
      BY <2>1
    <2> DEFINE lvl == b.levels[side][p]
               top == Best(b, side)[1]
               ids == {id \in DOMAIN s.orders : s.orders[id].side = side /\ s.orders[id].price = p}
    <2>3. /\ p \in D /\ lvl.price = p /\ lvl.total = s.depth[side][p]
          /\ Len(lvl.orders) = Cardinality(ids)
      BY <2>2 DEF IsBest, LevelsAgree, LevelIds
    <2>4. top.price = p /\ top.quantity = s.depth[side][p] /\ top.order_count = Cardinality(ids)
      BY <2>2, <2>3 DEF LevelView
    <2>5. MixBest(b, side) = <<p, s.depth[side][p], Cardinality(ids)>>
      BY <2>1, <2>4 DEF MixBest
    <2>6. BestDepth(s, side) = p
      BY <1>1, <2>2, BestDepthBest
    <2>7. TopOf(s, side) = <<p, s.depth[side][p], Cardinality(ids)>>
      BY <1>1, <1>3, <2>6 DEF TopOf
    <2> QED BY <2>5, <2>7
  <1> QED BY <1>2, <1>3

(* What the snapshots have of a side. *)
LEMMA SnapshotAgrees ==
  ASSUME NEW b, NEW s, Sound(b), LevelsAgree(b, s)
  PROVE  Snapshot(b) = MakeSnapshot(s)
  <1> SUFFICES ASSUME NEW side \in Sides
               PROVE  Snapshot(b)[side] = MakeSnapshot(s)[side]
    BY DEF Snapshot, MakeSnapshot
  <1> DEFINE D == DOMAIN b.levels[side]
             c == Cardinality(D)
             best == BestFirst(D, side)
             k == Min({MaxSnapshotLevels, Len(best)})
             top == TopLevels(b, side, MaxSnapshotLevels)
  <1>1. D = DOMAIN s.depth[side] /\ D \subseteq Int /\ IsFiniteSet(D)
    BY LevelsFinite DEF LevelsAgree
  <1>2. c \in Nat /\ best \in [1..c -> D] /\ Len(best) = c
    <2> HIDE DEF D
    <2> QED BY <1>1, BestFirstIs
  <1>3. top = [i \in 1..k |-> LevelView(b.levels[side][best[i]])]
    BY DEF TopLevels, PricesBestFirst
  <1>4. Snapshot(b)[side] = [i \in DOMAIN top |-> [price |-> top[i].price, quantity |-> top[i].quantity]]
    BY DEF Snapshot
  <1>5. MakeSnapshot(s)[side] = [i \in 1..k |-> [price |-> best[i], quantity |-> s.depth[side][best[i]]]]
    BY <1>1 DEF MakeSnapshot
  <1> HIDE DEF best, c
  <1>6. k \in Nat /\ k <= c
    <2>1. MaxSnapshotLevels \in Nat
      BY BookAssumption
    <2> QED BY <1>2, <2>1, MinOfTwo
  <1> HIDE DEF k, top
  <1>7. ASSUME NEW i \in 1..k
        PROVE  top[i].price = best[i] /\ top[i].quantity = s.depth[side][best[i]]
    <2>1. best[i] \in D
      BY <1>2, <1>6
    <2>2. b.levels[side][best[i]].price = best[i] /\ b.levels[side][best[i]].total = s.depth[side][best[i]]
      BY <2>1 DEF LevelsAgree
    <2>3. top[i] = LevelView(b.levels[side][best[i]])
      BY <1>3
    <2> QED BY <2>2, <2>3 DEF LevelView
  <1>8. DOMAIN top = 1..k
    BY <1>3
  <1> QED BY <1>4, <1>5, <1>7, <1>8

(* A book of which nothing is lost mirrors the exchange. *)
LEMMA MirrorIs == ExchangeInv => BooksMirrorExchange
  <1> SUFFICES ASSUME ExchangeInv, NEW sym \in Symbols, Intact(sym)
               PROVE  /\ Snapshot(BookOf(sym)) = MakeSnapshot(symbols[sym])
                      /\ sym \in DOMAIN books => Fingerprint[sym] = StateOf(symbols[sym])
    BY DEF BooksMirrorExchange
  <1> DEFINE b == BookOf(sym)
             s == symbols[sym]
  <1>1. Agrees(b, s) /\ LevelsAgree(b, s) /\ Sound(b)
    BY IntactAgrees DEF Agrees
  <1>2. sym \in DOMAIN books => Fingerprint[sym] = Mixed(b)
    BY DEF Fingerprint, BookOf
  <1> HIDE DEF b, s
  <1>3. Snapshot(b) = MakeSnapshot(s)
    BY <1>1, SnapshotAgrees
  <1>4. "Buy" \in Sides /\ "Sell" \in Sides
    BY DEF Sides
  <1>5. MixBest(b, "Buy") = TopOf(s, "Buy") /\ MixBest(b, "Sell") = TopOf(s, "Sell")
    BY <1>1, <1>4, MixAgrees
  <1>6. /\ DOMAIN b.levels["Buy"] = DOMAIN s.depth["Buy"]
        /\ DOMAIN b.levels["Sell"] = DOMAIN s.depth["Sell"]
        /\ DOMAIN b.orders = DOMAIN s.orders
    BY <1>1, <1>4, AgreeOrders DEF LevelsAgree
  <1>7. Mixed(b) = StateOf(s)
    BY <1>5, <1>6 DEF Mixed, StateOf
  <1> QED BY <1>2, <1>3, <1>7 DEF b, s

(* The book of every symbol of which no message was lost and whose depth    *)
(* fitted shows the snapshot that the exchange would send, and the          *)
(* fingerprint of the books is made of the exchange's own state.            *)
THEOREM BooksAlwaysMirrorExchange == Spec => []BooksMirrorExchange
  BY ExchangeInvariant, MirrorIs, PTL
==============================================================================
