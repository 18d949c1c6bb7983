----------------------------- MODULE MCExchange ------------------------------
(* Instances of Exchange for TLC. *)
EXTENDS Exchange

MCIds == 1..NumMessages

MCPrices == 1..Max({HighestPrice(sym, NumMessages) : sym \in Symbols})

(* msg is set anew by every step: no step and no property reads it. *)
ExchangeView == <<symbols, produced, next_order_id, builderVars, feedVars>>
==============================================================================
