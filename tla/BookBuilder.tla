----------------------------- MODULE BookBuilder -----------------------------
(***************************************************************************)
(* BookBuilder and BookManager (book_builder.hpp, book_builder.cpp): the   *)
(* events that FeedHandler forwards, applied to one OrderBook per symbol.  *)
(***************************************************************************)
EXTENDS OrderBookOps

VARIABLES books,   \* manager_.books_: symbol to book
          stats    \* stats_

builderVars == <<books, stats>>

Events == {"AddOrder", "CancelOrder", "ModifyOrder", "Trade"}
StatNames == Events \cup {"BookSnapshot", "Heartbeat", "malformed", "rejected"}

BuilderInit ==
  /\ books = << >>
  /\ stats = [name \in StatNames |-> 0]

(* manager_.book(symbol) makes the book if need be. *)
BookOf(sym) == IF sym \in DOMAIN books THEN books[sym] ELSE EmptyBook

(* What the message's handler asks of the book. *)
Outcome(m) ==
  LET b == BookOf(m.sym)
  IN  CASE m.type = "AddOrder"    -> Add(b, m.id, m.side, m.price, m.qty)
        [] m.type = "CancelOrder" -> Cancel(b, m.id)
        [] m.type = "ModifyOrder" -> Modify(b, m.id, m.price, m.qty)
        [] m.type = "Trade"       -> Execute(b, m.id, m.qty)

(* on_add_order, on_cancel_order, on_modify_order and on_trade: counted,    *)
(* applied, and counted again if the book refuses it.                      *)
OnEvent(m) ==
  /\ m.type \in Events
  /\ books' = Insert(books, m.sym, Outcome(m).book)
  /\ stats' = [stats EXCEPT ![m.type] = @ + 1,
                            !.rejected = @ + (IF Outcome(m).ret THEN 0 ELSE 1)]

(* on_snapshot and on_heartbeat: counted, not applied. *)
OnOther(m) ==
  /\ m.type \in {"BookSnapshot", "Heartbeat"}
  /\ stats' = [stats EXCEPT ![m.type] = @ + 1]
  /\ UNCHANGED books

OnMalformed ==
  /\ stats' = [stats EXCEPT !.malformed = @ + 1]
  /\ UNCHANGED books

OnMessage(m) == OnEvent(m) \/ OnOther(m)

-----------------------------------------------------------------------------
MixBest(b, side) ==
  IF Best(b, side) = << >> THEN << >>
  ELSE LET top == Best(b, side)[1] IN <<top.price, top.quantity, top.order_count>>

(* What book_fingerprint mixes into the hash of a book, in this order. *)
Mixed(b) ==
  <<Cardinality(DOMAIN b.levels["Buy"]), Cardinality(DOMAIN b.levels["Sell"]),
    Cardinality(DOMAIN b.orders)>> \o MixBest(b, "Buy") \o MixBest(b, "Sell")

(* book_fingerprint: a sum over the symbols, whatever their order, of a     *)
(* hash of each; the hash is abstracted to the values that go into it.     *)
Fingerprint == [sym \in DOMAIN books |-> Mixed(books[sym])]
==============================================================================
