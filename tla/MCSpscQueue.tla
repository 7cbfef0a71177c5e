---------------------------- MODULE MCSpscQueue ----------------------------
(* Values for the ring's constants that a configuration cannot write. *)
EXTENDS SpscQueue

CONSTANTS a, b
MCValues == {a, b}
=============================================================================
