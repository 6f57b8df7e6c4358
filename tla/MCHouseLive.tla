----------------------------- MODULE MCHouseLive -----------------------------
(***************************************************************************)
(* Quote admission, and what the components that keep the solver's funds    *)
(* must bring to an end, each by itself: a behaviour follows one of them    *)
(* and leaves the others at their start.                                    *)
(***************************************************************************)
EXTENDS MCQuoteAdmission

VARIABLES
  focus,                                                     \* the component under way
  transfer, order, spent, wire, paid, fate, view, pins, hold,
  clearing, policy, op, other, now, faults,                  \* Rebalance
  journal, attempts, chain, mempool, job, evmFaults, reorgs, \* DurableSender
  house, capped, at, terms,                                  \* QuoteTerms
  svc, fillRow, deposit, fills, sent, task, deferrals, feed,
  stock, asked, late, deskEvents, mishaps                 \* AssetSwaps

RB == INSTANCE Rebalance WITH
  Ids <- {1, 2}, Lightning <- {1}, FloatCoins <- {1, 2}, Policies <- {2}, Reserve <- 0,
  Day <- 1, QuoteLife <- 1, Horizon <- 0, MaxFaults <- 1, row <- transfer
DS == INSTANCE DurableSender WITH
  Id <- {"a", "b"}, Process <- {"p"}, MaxFee <- 1, MaxUpsets <- 1, MaxReorgs <- 0, upsets <- evmFaults

Hint(cltv, denied) == [cltv |-> cltv, denied |-> denied]
Output(id, share, life) == [id |-> id, share |-> share, life |-> life]
QT == INSTANCE QuoteTerms WITH
  ExitDelays <- {0, 20, 503, 86528, 2000000000}, LockupTimeouts <- {3600},
  Invoices <- [final : {18, 288}, hints : {{}, {Hint(40, FALSE), Hint(144, FALSE), Hint(300, TRUE)}}, expiry : {3600}]
                \cup {[final |-> 18, hints |-> {}, expiry |-> 120]},
  Fees <- {[bps |-> 25, flat |-> 2, estimate |-> -1, billable |-> 0], [bps |-> 250, flat |-> 0, estimate |-> 30, billable |-> 2]},
  Cadences <- {[fast |-> 1, slow |-> 3]}, EvmTimeouts <- {7250, 9100, 90000}, EvmValidity <- 600,
  Lockups <- {{Output(1, 2, 2000000)}, {Output(1, 2, 2000000), Output(2, 1, 12000)},
              {Output(1, 1, 2000000), Output(2, 1, 300000)}, {Output(1, 1, 2000000)}},
  Pauses <- {580, 3480, 8700}, Paces <- {150, 600}, MaxWaits <- 2
AS == INSTANCE AssetSwaps WITH
  Worker <- {"a"}, FillIds <- {1, 2}, Out <- {1, 2}, Crews <- {[a |-> "rfq"], [a |-> "offer"]},
  Asks <- {[gives |-> TRUE, side |-> "from", amount |-> 12]}, PriceCases <- {},
  Offers <- {[gives |-> TRUE, want |-> 20, amount |-> 11]}, Slips <- {-1, 0}, Feeds <- {20, 25},
  Market <- [feeBps |-> 100, flat |-> 1, tolerance |-> 200, carrier |-> 3, dust |-> 5, min |-> 2, max |-> 60],
  Inventory <- 40, MaxDeferrals <- 1, MaxEvents <- 1, MaxMishaps <- 1

refill == <<transfer, order, spent, wire, paid, fate, view, pins, hold, clearing, policy, op, other, now, faults>>
sender == <<journal, attempts, chain, mempool, job, evmFaults, reorgs>>
numbers == <<house, capped, at, terms>>
desk == <<svc, fillRow, deposit, fills, sent, task, deferrals, feed, stock, asked, late, deskEvents, mishaps>>

HouseInit ==
  /\ focus \in {"quote", "refill", "sender", "terms", "desk"}
  /\ Init /\ RB!RefillInit /\ DS!SenderInit /\ AS!AssetInit
  /\ focus # "desk" => svc = [a |-> "rfq"] /\ asked = {}
  /\ IF focus = "terms" THEN QT!TermsInit ELSE house = {} /\ capped = FALSE /\ at = QT!Start /\ terms = QT!NoTerms
HouseNext ==
  /\ UNCHANGED focus
  /\ \/ focus = "quote" /\ Next /\ UNCHANGED <<refill, sender, numbers, desk>>
     \/ focus = "refill" /\ RB!RefillNext /\ UNCHANGED <<vars, sender, numbers, desk>>
     \/ focus = "sender" /\ DS!SenderNext /\ UNCHANGED <<vars, refill, numbers, desk>>
     \/ focus = "terms" /\ QT!TermsNext /\ UNCHANGED <<vars, refill, sender, desk>>
     \/ focus = "desk" /\ AS!AssetNext /\ UNCHANGED <<vars, refill, sender, numbers>>
(* The fairness of each component, for the behaviours that follow it. *)
HouseFairness ==
  /\ \A q \in Quote : WF_vars(focus = "quote" /\ QuoteStep(q))
  /\ WF_refill(focus = "refill" /\ RB!OperationStep)
  /\ WF_refill(focus = "refill" /\ RB!Tick)
  /\ WF_refill(focus = "refill" /\ RB!Refresh)
  /\ \A id \in {1, 2} : WF_refill(focus = "refill" /\ RB!Execute(id)) /\ WF_refill(focus = "refill" /\ RB!Settle(id))
  /\ WF_sender(focus = "sender" /\ DS!ProcessStep("p"))
  /\ WF_sender(focus = "sender" /\ \E t \in DS!Tx : DS!Mine(t))
  /\ \A i \in {"a", "b"} : SF_sender(focus = "sender" /\ DS!Mined(i) = {} /\ DS!Replay(i))
  /\ WF_desk(focus = "desk" /\ AS!WorkerStep("a"))
  /\ WF_desk(focus = "desk" /\ AS!Expire)
  /\ WF_desk(focus = "desk" /\ \E f \in fills : AS!ExecuteFill(f))
HouseSpec == HouseInit /\ [][HouseNext]_<<focus, vars, refill, sender, numbers, desk>> /\ HouseFairness

-----------------------------------------------------------------------------
(* QuoteAdmission: every request is answered. *)
EveryRequestAnswered == focus = "quote" => EveryQuoteAnswered
(* Rebalance: a transfer whose payment was executed ends. *)
PaidResolves == RB!PaidResolves
(* DurableSender: what was prepared is mined. *)
PreparedIsMined == DS!PreparedIsMined
(* QuoteTerms: the deadlines and amounts of every quote are in order when they are acted on. *)
TermsHold == focus = "terms" => QT!TermsHold
(* AssetSwaps: a fill under way ends, with one worker. *)
EveryFillEnds == AS!EveryFillEnds
(* All of them. *)
HouseEnds == EveryRequestAnswered /\ PaidResolves /\ PreparedIsMined /\ EveryFillEnds
=============================================================================
