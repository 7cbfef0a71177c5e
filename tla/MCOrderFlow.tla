---------------------------- MODULE MCOrderFlow ----------------------------
(* The order flow on a small instance; the cfg file gives the constants. *)
EXTENDS OrderFlow
=============================================================================
