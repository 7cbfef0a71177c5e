------------------------- MODULE MCRecoveryService -------------------------
(* Values for the constants of the recovery service. *)
EXTENDS RecoveryService
CONSTANTS c1, c2
MCOne == {c1}
MCTwo == {c1, c2}
=============================================================================
