--------------------------- MODULE MCLightningSend ---------------------------
(* One process, or two that share the database, on one swap. *)
EXTENDS LightningSend, TLC

CONSTANTS d1, d2

OneProcess == {d1}
TwoProcesses == {d1, d2}
Symmetric == Permutations(TwoProcesses)
============================================================================
