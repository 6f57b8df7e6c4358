------------------------------- MODULE MCHouse -------------------------------
(***************************************************************************)
(* The components that keep the solver's own funds, each checked by itself: *)
(* a behaviour follows one of them and leaves the others at their start.    *)
(***************************************************************************)
EXTENDS CoinReservations, Rebalance, DurableSender, AssetSwaps, PayoutReceiver, TLC

VARIABLES
  focus,                  \* the component under way
  coins, inputs, events   \* CoinPool

(* The calls are finitely many, as the theorems about DurableSender ask. *)
ASSUME SenderCalls == FiniteCalls

MCCoins == {"c1", "c2", "c3"}
MCOps == 1..4
MCKind == <<"funding", "funding", "renewal", "withdrawal">>
CP == INSTANCE CoinPool WITH
  Deposits <- {1, 5, 19}, Amounts <- {7, 8}, MaxSats <- 8, MaxExposed <- 8, MaxCount <- 4, MaxInputs <- 5,
  TooLarge <- 4, MaxOutputs <- 4, Dust <- 2, MaxAmount <- 10, OutputFee <- 1, MaxEvents <- 5
MCCrews == {[a |-> "rfq", b |-> "offer"], [a |-> "offer", b |-> "offer"]}
MCAsks == {[gives |-> TRUE, side |-> "from", amount |-> 12]}
MCPriceCases == [gives : BOOLEAN, side : {"from", "to"}, amount : 4..60]
MCOffers == {[gives |-> TRUE, want |-> 20, amount |-> 11]}
MCSlips == {-1, 0}
MCMarket == [feeBps |-> 100, flat |-> 1, tolerance |-> 200, carrier |-> 3, dust |-> 5, min |-> 2, max |-> 60]

OnChain(bal, active, lock) == [bal |-> bal, active |-> active, lock |-> lock]
SceneOf(height, onchain, out, deeds, ops) ==
  [base |-> height, world |-> onchain, sent |-> out, deeds |-> deeds, ops |-> ops]
MCScenes ==
  {SceneOf(0, OnChain(0, FALSE, "none"), {}, {"deliver", "recover"}, {"activate", "prepare", "resolve"}),
   SceneOf(1, OnChain(1, FALSE, "none"), {}, {"activate", "lock"}, {"activate", "recover"}),
   SceneOf(4, OnChain(0, TRUE, "open"), {"activate"}, {"claim", "twin"}, {"claimEvidence"}),
   SceneOf(4, OnChain(0, TRUE, "open"), {"activate"}, {"claim", "refund"}, {"refund", "refundEvidence"})}

ledger == vars
refill == refillVars
pool == <<coins, inputs, events>>
sender == senderVars
desk == assetVars
receiver == receiverVars

HouseInit ==
  /\ focus \in {"ledger", "refill", "pool", "sender", "desk", "receiver"}
  /\ Init /\ RefillInit /\ CP!Init /\ SenderInit /\ AssetInit /\ ReceiverInit
  /\ focus # "desk" => svc = [a |-> "rfq", b |-> "offer"] /\ asked = {}
  /\ focus # "receiver" => scene.base = 0
HouseNext ==
  /\ UNCHANGED focus
  /\ \/ focus = "ledger" /\ Next /\ UNCHANGED <<refill, pool, sender, desk, receiver>>
     \/ focus = "refill" /\ RefillNext /\ UNCHANGED <<ledger, pool, sender, desk, receiver>>
     \/ focus = "pool" /\ CP!Next /\ UNCHANGED <<ledger, refill, sender, desk, receiver>>
     \/ focus = "sender" /\ SenderNext /\ UNCHANGED <<ledger, refill, pool, desk, receiver>>
     \/ focus = "desk" /\ AssetNext /\ UNCHANGED <<ledger, refill, pool, sender, receiver>>
     \/ focus = "receiver" /\ ReceiverNext /\ UNCHANGED <<ledger, refill, pool, sender, desk>>
HouseSpec == HouseInit /\ [][HouseNext]_<<focus, ledger, refill, pool, sender, desk, receiver>>

-----------------------------------------------------------------------------
(* CoinPool: plans balance and come to rest, and the pool serves what it      *)
(* promises.  AssetSwaps: nobody gains by trading back at the price struck.    *)
PlansAndPricesAreSound ==
  /\ focus = "pool" => CP!PoolIsSound
  /\ focus = "desk" => Prices
==============================================================================
