----------------------------- MODULE MCOrderBook -----------------------------
(* Instances of OrderBook for TLC. *)
EXTENDS OrderBook

(* The ids are interchangeable. *)
IdSymmetry == Permutations(Ids)

(* last is only ever written: states that differ in it have the same future. *)
BookView == book

MCPrices == {1, 2}
==============================================================================
