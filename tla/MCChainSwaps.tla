---------------------------- MODULE MCChainSwaps ----------------------------
(***************************************************************************)
(* The two corridors that hand the solver's funds to a chain and wait for a *)
(* preimage there, OnchainSend and EvmReceive: a behaviour follows one and   *)
(* leaves the other at its start.                                           *)
(***************************************************************************)
EXTENDS MCOnchainSend, EvmReceive

VARIABLE focus

(* The order the theorems about EvmReceive rest on. *)
ASSUME EvmDeadlines == DeadlinesOrdered

Pair == {"a", "b"}
Crews == {{"a"}, {"a", "b"}}

ChainInit ==
  /\ focus \in {"onchain", "evm"} /\ Init /\ EvmReceiveInit
  /\ focus = "onchain" => DOMAIN evmJob = {"a"}
ChainNext ==
  /\ UNCHANGED focus
  /\ \/ focus = "onchain" /\ Next /\ UNCHANGED evmVars
     \/ focus = "evm" /\ EvmReceiveNext /\ UNCHANGED vars
(* The fairness of each corridor's own module. *)
ChainFairness ==
  /\ \A d \in Driver : WF_vars(focus = "onchain" /\ DriverStep(d))
  /\ WF_vars(focus = "onchain" /\ SweepStep)
  /\ WF_vars(focus = "onchain" /\ Miners)
  /\ WF_vars(focus = "onchain" /\ Advance)
  /\ WF_evmVars(focus = "evm" /\ Chain) /\ SF_evmVars(focus = "evm" /\ EvmAdvance)
  /\ \A d \in {"a", "b"} : WF_evmVars(focus = "evm" /\ EvmDriverStep(d))
ChainSpec == ChainInit /\ [][ChainNext]_<<focus, vars, evmVars>> /\ ChainFairness

-----------------------------------------------------------------------------
(* OnchainSend: every swap ends and a closed one's lockup goes back; EvmReceive: the payout does not stay at the script. *)
ChainSwapsEnd == (focus = "onchain" => OnchainEnds) /\ PayoutComesBack
(* Each corridor takes only steps of the abstract atomic swap. *)
ChainSwapsAreAtomic == ImplementsAtomicSwap /\ EvmImplementsAtomicSwap
=============================================================================
