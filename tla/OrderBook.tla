------------------------------ MODULE OrderBook ------------------------------
(***************************************************************************)
(* An OrderBook object under any sequence of calls of its mutations, with  *)
(* any arguments: a feed is not trusted to be consistent.                  *)
(***************************************************************************)
EXTENDS OrderBookOps

VARIABLES book,   \* the object
          last    \* the latest call: its arguments and what it returned

bookVars == <<book, last>>

BookInit ==
  /\ book = EmptyBook
  /\ last = [call |-> << >>, ret |-> TRUE]

(* The object after a call, and the call's result. *)
Apply(call, result) ==
  /\ book' = result.book
  /\ last' = [call |-> call, ret |-> result.ret]

DoAdd(id, side, price, qty) ==
  Apply(<<"add", id, side, price, qty>>, Add(book, id, side, price, qty))
DoCancel(id) ==
  Apply(<<"cancel", id>>, Cancel(book, id))
DoModify(id, price, qty) ==
  Apply(<<"modify", id, price, qty>>, Modify(book, id, price, qty))
DoExecute(id, qty) ==
  Apply(<<"execute", id, qty>>, Execute(book, id, qty))
DoClear ==
  Apply(<<"clear">>, Ok(EmptyBook))

BookNext ==
  \/ \E id \in Ids, side \in Sides, price \in Prices, qty \in Quantities :
       DoAdd(id, side, price, qty)
  \/ \E id \in Ids : DoCancel(id)
  \/ \E id \in Ids, price \in Prices, qty \in Quantities : DoModify(id, price, qty)
  \/ \E id \in Ids, qty \in Quantities : DoExecute(id, qty)
  \/ DoClear

BookSpec == BookInit /\ [][BookNext]_bookVars

-----------------------------------------------------------------------------
TypeOK ==
  /\ book.nodes \in PartialFunctions(Nodes, RestingOrder)
  /\ book.orders \in PartialFunctions(Ids, OrderLocation)
  /\ DOMAIN book.levels = Sides
  /\ \A s \in Sides :
       /\ DOMAIN book.levels[s] \subseteq Prices
       /\ \A p \in DOMAIN book.levels[s] : book.levels[s][p] \in PriceLevel
  /\ last.ret \in BOOLEAN

(* The node n is in the list of the level at this side and price. *)
InLevel(n, side, price) ==
  price \in DOMAIN book.levels[side] /\ n \in Range(book.levels[side][price].orders)

(* orders_ and the levels' lists describe the same orders: every locator    *)
(* points to an allocated node that holds its order, in the one level that *)
(* the locator names, and every node of every list is so located.  "should *)
(* not happen given a valid locator" (erase_order) rests on it: no         *)
(* iterator is ever stale, no node is leaked and no id rests twice.        *)
LocatorsValid ==
  /\ \A id \in DOMAIN book.orders :
       LET loc == book.orders[id]
       IN  /\ loc.it \in DOMAIN book.nodes
           /\ book.nodes[loc.it].id = id
           /\ \A s \in Sides, p \in Prices :
                InLevel(loc.it, s, p) <=> (s = loc.side /\ p = loc.price)
  /\ \A n \in DOMAIN book.nodes :
       LET id == book.nodes[n].id
       IN  id \in DOMAIN book.orders /\ book.orders[id].it = n
  /\ \A s \in Sides : \A p \in DOMAIN book.levels[s] :
       LET list == book.levels[s][p].orders
       IN  IsInjective(list) /\ Range(list) \subseteq DOMAIN book.nodes

(* What check_invariants tests of every level and of the locator count,     *)
(* after any calls: levels are not empty, aggregates agree with the orders *)
(* (modulo the width of Quantity), and no order of quantity zero rests.    *)
(* Its third test, that the book is not crossed, depends on the feed.      *)
LevelsConsistent ==
  /\ LevelOk(book, "Buy") /\ LevelOk(book, "Sell")
  /\ Counted(book) = Cardinality(DOMAIN book.orders)

(* a is queued ahead of b, in book bk. *)
Ahead(bk, a, b) ==
  /\ {a, b} \subseteq DOMAIN bk.orders
  /\ bk.orders[a].side = bk.orders[b].side /\ bk.orders[a].price = bk.orders[b].price
  /\ \E i, j \in DOMAIN bk.levels[bk.orders[a].side][bk.orders[a].price].orders :
       /\ i < j
       /\ bk.levels[bk.orders[a].side][bk.orders[a].price].orders[i] = bk.orders[a].it
       /\ bk.levels[bk.orders[a].side][bk.orders[a].price].orders[j] = bk.orders[b].it

QuantityOf(bk, id) == bk.nodes[bk.orders[id].it].quantity

(* "a same-price size reduction keeps time priority": an order that stays   *)
(* in the book and in its level is overtaken by another only if its own    *)
(* size was increased; nothing done to other orders costs it its place.    *)
PriorityKept ==
  [][\A a, b \in Ids :
       /\ Ahead(book, a, b) /\ Ahead(book', b, a)
       /\ book'.orders[a].price = book.orders[a].price
       => QuantityOf(book', a) > QuantityOf(book, a)]_bookVars

(* The orders at a price of a side, oldest first, read off the book b. *)
Queue(b, s, p) ==
  IF p \notin DOMAIN b.levels[s] THEN << >>
  ELSE [i \in DOMAIN b.levels[s][p].orders |-> b.nodes[b.levels[s][p].orders[i]]]

Queues(b) == [s \in Sides |-> [p \in Prices |-> Queue(b, s, p)]]

Abstract == INSTANCE PriceTimeBook WITH queue <- Queues(book)

(* The map of levels, the lists and the locators implement price-time       *)
(* priority queues, and every call returns what the queues call for.       *)
ImplementsPriceTime == Abstract!Spec
==============================================================================
