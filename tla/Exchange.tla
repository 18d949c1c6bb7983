------------------------------ MODULE Exchange -------------------------------
(***************************************************************************)
(* The simulator and the book builder at the two ends of a feed.  What     *)
(* FeedHandler gives to the builder is a subsequence of what was sent, in  *)
(* order and without repetition (FeedHandlerProofs, DeliversInOrderOnce),  *)
(* so the feed is a choice, for every message, between delivery and loss,  *)
(* which a message that arrives damaged is, too.                           *)
(* The builder does not act on the simulator, so that it is enough to      *)
(* deliver a message when it is sent.                                      *)
(***************************************************************************)
EXTENDS Simulator, BookBuilder

CONSTANT MaxLost   \* bound: messages that the feed loses

ASSUME MaxLostAssumption == MaxLost \in Nat

VARIABLES losses,   \* how many messages were lost
          lost,     \* the symbol and the order of every event that was lost
          wrapped   \* the symbols whose depth did not fit its width at some time

feedVars == <<losses, lost, wrapped>>
vars == <<simVars, builderVars, feedVars>>

Init == SimInit /\ BuilderInit /\ losses = 0 /\ lost = {} /\ wrapped = {}

(* The depth of a level, without the limit of its width. *)
ExactDepth(s, side, p) ==
  MapThenSumSet(LAMBDA id : s.orders[id].qty,
                {id \in DOMAIN s.orders : s.orders[id].side = side /\ s.orders[id].price = p})

DepthFits(s) ==
  \A id \in DOMAIN s.orders :
    ExactDepth(s, s.orders[id].side, s.orders[id].price) < QuantityRange

NoteWrap == wrapped' = wrapped \cup {sym \in Symbols : ~DepthFits(symbols'[sym])}

Deliver == SimNext /\ OnMessage(msg') /\ NoteWrap /\ UNCHANGED <<losses, lost>>

Lose ==
  /\ losses < MaxLost /\ SimNext /\ NoteWrap
  /\ losses' = losses + 1
  /\ lost' = IF msg'.type \in Events THEN lost \cup {<<msg'.sym, msg'.id>>} ELSE lost
  /\ UNCHANGED builderVars \/ OnMalformed

Next == Deliver \/ Lose

Spec == Init /\ [][Next]_vars

-----------------------------------------------------------------------------
(* The swap-remove of unregister_order keeps live_ids, index and orders in  *)
(* step: live_ids lists each live order once, and index finds it there.    *)
LiveIdsIndexed ==
  \A sym \in Symbols :
    LET s == symbols[sym]
    IN  /\ Range(s.live_ids) = DOMAIN s.orders
        /\ DOMAIN s.index = DOMAIN s.orders
        /\ \A id \in DOMAIN s.index :
             s.index[id] \in DOMAIN s.live_ids /\ s.live_ids[s.index[id]] = id

(* An order as the exchange has it, and as the reconstructed book has it:   *)
(* its side, price and quantity, or none.                                  *)
SentOrder(sym, id) ==
  IF id \in DOMAIN symbols[sym].orders THEN symbols[sym].orders[id] ELSE << >>
BuiltOrder(sym, id) ==
  LET b == BookOf(sym)
  IN  IF id \notin DOMAIN b.orders THEN << >>
      ELSE [side |-> b.orders[id].side, price |-> b.orders[id].price,
            qty |-> b.nodes[b.orders[id].it].quantity]

(* Nothing about the symbol was lost, and its depth always fitted. *)
Intact(sym) == (\A l \in lost : l[1] # sym) /\ sym \notin wrapped

(* What book_fingerprint should mix for a symbol: the exchange's own state. *)
TopOf(s, side) ==
  IF DOMAIN s.depth[side] = {} THEN << >>
  ELSE LET p == BestDepth(s, side)
       IN  <<p, s.depth[side][p], Cardinality({id \in DOMAIN s.orders :
               s.orders[id].side = side /\ s.orders[id].price = p})>>
StateOf(s) ==
  <<Cardinality(DOMAIN s.depth["Buy"]), Cardinality(DOMAIN s.depth["Sell"]),
    Cardinality(DOMAIN s.orders)>> \o TopOf(s, "Buy") \o TopOf(s, "Sell")

(* The reconstructed book of a symbol shows the exchange's own depth, as    *)
(* its snapshot message does, and the fingerprint, by which two replays    *)
(* are said to have "converged to identical book state", is made of the    *)
(* exchange's own state, until a message about the symbol is lost or the   *)
(* sum of a level passes the width of Quantity: then remove_depth drops a  *)
(* level that still has orders.  Other symbols stay right.                 *)
BooksMirrorExchange ==
  \A sym \in Symbols : Intact(sym) =>
    /\ Snapshot(BookOf(sym)) = MakeSnapshot(symbols[sym])
    /\ sym \in DOMAIN books => Fingerprint[sym] = StateOf(symbols[sym])

(* A gap is forwarded, not repaired, and its damage stays where it is: the  *)
(* book is wrong only about orders of which a message was lost, with the   *)
(* same side, price and quantity for every other order.                    *)
LossConfined ==
  \A sym \in Symbols, id \in Ids :
    <<sym, id>> \notin lost => BuiltOrder(sym, id) = SentOrder(sym, id)

(* "In debug/test builds check_invariants() runs after every update": it    *)
(* holds for every book, the test that the book is not crossed included.   *)
InvariantsHold == \A sym \in DOMAIN books : CheckInvariants(books[sym])

(* A lost message can make check_invariants fail only by a crossed book:    *)
(* levels, aggregates and the order index stay in step whatever is lost.   *)
(* A book of which nothing was lost is not crossed either: the simulator   *)
(* "only ever posts *non-crossing* passive liquidity".                     *)
OnlyLossCrosses ==
  \A sym \in DOMAIN books :
    IF Intact(sym) THEN CheckInvariants(books[sym]) ELSE BookConsistent(books[sym])

(* "Every cancel/modify/trade references a live order the simulator         *)
(* created, so nothing should be rejected" as long as nothing is lost, and *)
(* every message that arrives whole is counted under its own name.         *)
NothingRejected ==
  /\ lost = {} => stats.rejected = 0
  /\ stats.AddOrder + stats.CancelOrder + stats.ModifyOrder + stats.Trade
       + stats.BookSnapshot + stats.Heartbeat = produced - losses
  /\ stats.malformed <= losses
==============================================================================
