----------------------------- MODULE MCRaceDemo -----------------------------
(* Both modes of the demonstration; the cfg file gives the constants. *)
EXTENDS RaceDemo
=============================================================================
