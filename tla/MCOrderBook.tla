---------------------------- MODULE MCOrderBook ----------------------------
(***************************************************************************)
(* Hash functions for the book: keys at home in the last and in the first  *)
(* slot of the table, so that clusters collide and wrap, or in a slot of   *)
(* their own.  MCOrderIndex covers all functions.                          *)
(***************************************************************************)
EXTENDS OrderBook

MCColliding == {[id \in Ids |-> IF id % 2 = 1 THEN Size - 1 ELSE 0]}
MCSpread == {[id \in Ids |-> (Size - 2 + id) % Size]}
=============================================================================
