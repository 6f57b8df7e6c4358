------------------------- MODULE MCLightningReceive -------------------------
(* One process, or two that share the database, on one receive swap. *)
EXTENDS LightningReceive, TLC

CONSTANTS d1, d2

OneProcess == {d1}
TwoProcesses == {d1, d2}
Symmetric == Permutations(TwoProcesses)
============================================================================
