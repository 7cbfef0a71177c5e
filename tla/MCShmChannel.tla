---------------------------- MODULE MCShmChannel ----------------------------
(* Runs of the script; the cfg file gives the constants. *)
EXTENDS ShmChannel
=============================================================================
