------------------------------ MODULE Simulator ------------------------------
(***************************************************************************)
(* MarketSimulator (simulator.hpp, simulator.cpp): the synthetic exchange. *)
(* Every random draw is a choice; the timestamps are left out, and the     *)
(* sequence number of a message is produced_ + 1.                          *)
(***************************************************************************)
EXTENDS OrderBookOps

CONSTANTS Symbols,            \* 0..(num_symbols - 1)
          StartPrice, PriceStep, PriceTick, BandLevels, MinQty, MaxQty,
          SnapshotInterval, HeartbeatInterval,   \* 0 disables
          NumMessages         \* num_messages

ASSUME SimulatorAssumption ==
  /\ Symbols \subseteq Nat /\ Symbols # {}
  /\ PriceTick \in Nat \ {0} /\ BandLevels \in Nat \ {0}
  /\ StartPrice \in Nat \ {0} /\ PriceStep \in Nat
  /\ MinQty \in Nat \ {0} /\ MaxQty \in MinQty..(QuantityRange - 1)
  /\ SnapshotInterval \in Nat /\ HeartbeatInterval \in Nat
  /\ NumMessages \in Nat /\ 1..NumMessages \subseteq Ids

(* A bound of the prices of a symbol after n messages: each may go beyond   *)
(* the highest so far by the band.  A price never leaves its type.         *)
HighestPrice(sym, n) == StartPrice + sym * PriceStep + (n * BandLevels + 1) * PriceTick

ASSUME PricesAssumption == \A sym \in Symbols : 1..HighestPrice(sym, NumMessages) \subseteq Prices

VARIABLES symbols,         \* symbols_, a SymbolState per symbol
          produced,        \* produced_
          next_order_id,   \* next_order_id_
          msg              \* the message that next() returned last

simVars == <<symbols, produced, next_order_id, msg>>

(* A SymbolState: index holds positions in live_ids, depth is bid_qty and   *)
(* ask_qty.                                                                *)
NewSymbol(sym) ==
  [ref_mid |-> StartPrice + sym * PriceStep,
   orders |-> << >>, live_ids |-> << >>, index |-> << >>,
   depth |-> [side \in Sides |-> << >>]]

SimInit ==
  /\ symbols = [sym \in Symbols |-> NewSymbol(sym)]
  /\ produced = 0 /\ next_order_id = 1
  /\ msg = [type |-> "None"]

-----------------------------------------------------------------------------
(* += on a Quantity *)
Plus(a, b) == (a + b) % QuantityRange

AddDepth(s, side, p, q) ==
  [s EXCEPT !.depth[side] = Insert(@, p, Plus(IF p \in DOMAIN @ THEN @[p] ELSE 0, q))]

(* Fault: a level is dropped only by a removal of more than it holds. *)
ExhaustedLate(level, q) == level < q

Exhausted(level, q) == level <= q

RemoveDepth(s, side, p, q) ==
  IF p \notin DOMAIN s.depth[side] THEN s
  ELSE [s EXCEPT !.depth[side] = IF Exhausted(@[p], q) THEN Erase(@, p)
                                 ELSE Insert(@, p, @[p] - q)]

RegisterOrder(s, id, side, p, q) ==
  AddDepth([s EXCEPT !.orders = Insert(@, id, [side |-> side, price |-> p, qty |-> q]),
                     !.index = Insert(@, id, Len(s.live_ids) + 1),
                     !.live_ids = Append(@, id)],
           side, p, q)

(* Fault: the order that takes the freed slot is not told so. *)
ReindexStale(index, last, slot, id) == Erase(index, id)

Reindex(index, last, slot, id) == Erase([index EXCEPT ![last] = slot], id)

(* unregister_order: the last live id takes the slot of the one that goes. *)
UnregisterOrder(s, id) ==
  LET o    == s.orders[id]
      slot == s.index[id]
      last == Last(s.live_ids)
  IN  [RemoveDepth(s, o.side, o.price, o.qty) EXCEPT
         !.live_ids = Front([@ EXCEPT ![slot] = last]),
         !.index = Reindex(@, last, slot, id),
         !.orders = Erase(@, id)]

(* The best price of a side with depth: bid_qty.rbegin(), ask_qty.begin(). *)
BestDepth(s, side) ==
  CHOOSE p \in DOMAIN s.depth[side] :
    \A q \in DOMAIN s.depth[side] : p = q \/ Better(side, p, q)

Opposite(side) == IF side = "Buy" THEN "Sell" ELSE "Buy"

(* One tick towards the better prices of the side. *)
Step(side) == IF side = "Buy" THEN PriceTick ELSE -PriceTick

(* Fault: the anchor may reach the best price of the other side. *)
InsideTouch(price, side) == price

(* One tick inside a price of the other side. *)
Inside(price, side) == price - Step(side)

(* ceil for a buy, floor for a sell. *)
Limit(s, side) ==
  Inside(IF DOMAIN s.depth[Opposite(side)] = {} THEN s.ref_mid
         ELSE BestDepth(s, Opposite(side)), side)

(* The anchor: improve the own side by one tick, within the limit. *)
Anchor(s, side) ==
  IF DOMAIN s.depth[side] = {} THEN Limit(s, side)
  ELSE LET improved == BestDepth(s, side) + Step(side)
       IN  IF Better(side, improved, Limit(s, side)) THEN Limit(s, side) ELSE improved

(* choose_price, for every draw of the offset: a buy is at least one tick. *)
ChoosePrice(s, side) ==
  {LET price == Anchor(s, side) - off * Step(side)
   IN  IF side = "Buy" THEN Max({price, PriceTick}) ELSE price
   : off \in 0..(BandLevels - 1)}

-----------------------------------------------------------------------------
(* What next() does in each case, for symbol sym: the new state and out. *)
Emit(sym, s, m) ==
  /\ symbols' = [symbols EXCEPT ![sym] = s]
  /\ msg' = m

FillAdd(sym, side, price, qty) ==
  /\ Emit(sym, RegisterOrder(symbols[sym], next_order_id, side, price, qty),
          [type |-> "AddOrder", sym |-> sym, id |-> next_order_id, side |-> side,
           price |-> price, qty |-> qty])
  /\ next_order_id' = next_order_id + 1

FillCancel(sym, id) ==
  /\ Emit(sym, UnregisterOrder(symbols[sym], id),
          [type |-> "CancelOrder", sym |-> sym, id |-> id])
  /\ UNCHANGED next_order_id

(* The depth of the old order is gone when the new price is chosen. *)
FillModify(sym, id) ==
  LET o    == symbols[sym].orders[id]
      rest == RemoveDepth(symbols[sym], o.side, o.price, o.qty)
  IN  /\ \E price \in ChoosePrice(rest, o.side), qty \in MinQty..MaxQty :
           Emit(sym,
                AddDepth([rest EXCEPT !.orders[id].price = price, !.orders[id].qty = qty],
                         o.side, price, qty),
                [type |-> "ModifyOrder", sym |-> sym, id |-> id,
                 price |-> price, qty |-> qty])
      /\ UNCHANGED next_order_id

(* Fault: an order that is filled to the last stays live. *)
FilledOver(o, fill) == fill > o.qty

Filled(o, fill) == fill >= o.qty

FillTrade(sym, id) ==
  LET s == symbols[sym]
      o == s.orders[id]
  IN  /\ \E fill \in 1..o.qty :
           Emit(sym,
                IF Filled(o, fill) THEN UnregisterOrder(s, id)
                ELSE [RemoveDepth(s, o.side, o.price, fill) EXCEPT
                       !.orders[id].qty = @ - fill],
                [type |-> "Trade", sym |-> sym, id |-> id, qty |-> fill])
      /\ UNCHANGED next_order_id

(* make_snapshot *)
MakeSnapshot(s) ==
  [side \in Sides |->
    LET best == BestFirst(DOMAIN s.depth[side], side)
    IN  [i \in 1..Min({MaxSnapshotLevels, Len(best)}) |->
           [price |-> best[i], quantity |-> s.depth[side][best[i]]]]]

EveryNth(interval) == interval # 0 /\ (produced + 1) % interval = 0

NextHeartbeat ==
  /\ EveryNth(HeartbeatInterval)
  /\ msg' = [type |-> "Heartbeat"]
  /\ UNCHANGED <<symbols, next_order_id>>

NextSnapshot(sym) ==
  /\ ~EveryNth(HeartbeatInterval) /\ EveryNth(SnapshotInterval)
  /\ msg' = [type |-> "BookSnapshot", sym |-> sym, snap |-> MakeSnapshot(symbols[sym])]
  /\ UNCHANGED <<symbols, next_order_id>>

(* An add is always possible: it is drawn, or the fallback of the others.   *)
NextAdd(sym) ==
  /\ ~EveryNth(HeartbeatInterval) /\ ~EveryNth(SnapshotInterval)
  /\ \E side \in Sides, qty \in MinQty..MaxQty :
       \E price \in ChoosePrice(symbols[sym], side) : FillAdd(sym, side, price, qty)

(* random_live draws from live_ids. *)
NextOther(sym) ==
  /\ ~EveryNth(HeartbeatInterval) /\ ~EveryNth(SnapshotInterval)
  /\ \E id \in Range(symbols[sym].live_ids) :
       FillCancel(sym, id) \/ FillModify(sym, id) \/ FillTrade(sym, id)

SimNext ==
  /\ produced < NumMessages
  /\ produced' = produced + 1
  /\ \/ NextHeartbeat
     \/ \E sym \in Symbols : NextSnapshot(sym) \/ NextAdd(sym) \/ NextOther(sym)
==============================================================================
