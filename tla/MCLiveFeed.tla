----------------------------- MODULE MCLiveFeed ------------------------------
(* Instances of LiveFeed for TLC. *)
EXTENDS LiveFeed

MCSizes == <<2, 1, 3, 2>>
==============================================================================
