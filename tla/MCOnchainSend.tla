--------------------------- MODULE MCOnchainSend ---------------------------
EXTENDS OnchainSend, TLC

CONSTANTS d1, d2

OneProcess == {d1}
TwoProcesses == {d1, d2}
Symmetric == Permutations({d1, d2})
============================================================================
