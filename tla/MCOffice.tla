------------------------------ MODULE MCOffice ------------------------------
(***************************************************************************)
(* What the solver keeps up beside the swaps, each by itself: the relay it  *)
(* is asked through, the watch on lockups, the L1 spends of unrolled        *)
(* lockups, the float.  A behaviour follows one and leaves the others at    *)
(* their start.                                                             *)
(***************************************************************************)
EXTENDS RelayIngress, LockupWatch, UnrolledSpend, FloatKeeping, TLC

VARIABLE focus  \* the component under way

Spend(legs, outs, crew, dusty, rates, f) ==
  [leg |-> legs, outs |-> outs, crew |-> crew, dusty |-> dusty, rates |-> rates, faults |-> f]
MCSettings == {Spend("claim", {1, 2}, {"a"}, {1}, {2}, 0), Spend("claim", {1}, {"a"}, {}, {1, 2}, 1),
               Spend("refund", {1}, {"a"}, {}, {1, 2}, 1), Spend("refund", {1}, {"a", "b"}, {}, {2}, 0)}

Request(rfq, hash, client, ahead, kind) == [rfq |-> rfq, hash |-> hash, client |-> client, ahead |-> ahead, kind |-> kind]
Loaded(requests, cards) == [requests |-> requests, cards |-> cards]
MCLoads == {Loaded({Request(1, "h", "x", -1, "quote"), Request(2, "h", "y", 3, "quote")}, {}),
            Loaded({Request(1, "h", "x", -1, "quote"), Request(1, "k", "x", 0, "quote")}, {}),
            Loaded({Request(1, "h", "x", 0, "quote"), Request(1, "h", "z", 0, "status")}, {}),
            Loaded({Request(1, "h", "x", 0, "malformed")}, {1, 2})}

Plan(scripts, changes, u) == [scripts |-> scripts, changes |-> changes, upsets |-> u]
MCPlans == {Plan({"a"}, 2, 2), Plan({"a", "b"}, 1, 0)}

Scene(scripts, start, byHeight, c, d, wallet, admin, u) ==
  [scripts |-> scripts, start |-> start, byHeight |-> byHeight, coin |-> c, deposit |-> d, wallet |-> wallet, admin |-> admin, upsets |-> u]
MCScenes == {Scene({"send"}, "quoted", FALSE, "none", "none", "same", {}, 1),
             Scene({"send"}, "funded", FALSE, "none", "none", "same", {"refund"}, 0),
             Scene({"send"}, "paying", FALSE, "swept", "none", "same", {}, 0),
             Scene({"send"}, "paying", FALSE, "swept", "none", "other", {}, 0),
             Scene({"receive"}, "quoted", TRUE, "fresh", "none", "same", {}, 0),
             Scene({}, "quoted", FALSE, "fresh", "coming", "same", {"float"}, 1)}

OfficeInit ==
  /\ focus \in {"spend", "relay", "float", "watch"}
  /\ SpendInit /\ RelayInit /\ FloatInit /\ WatchInit
  /\ focus # "spend" => setting = Spend("claim", {1}, {"a"}, {}, {1, 2}, 1)
  /\ focus # "relay" => load = Loaded({Request(1, "h", "x", 0, "malformed")}, {1, 2})
  /\ focus # "float" => scene = Scene({}, "quoted", FALSE, "fresh", "coming", "same", {"float"}, 1)
  /\ focus # "watch" => plan = Plan({"a"}, 2, 2)
OfficeNext ==
  /\ UNCHANGED focus
  /\ \/ focus = "spend" /\ SpendNext /\ UNCHANGED <<relayVars, floatVars, watchVars>>
     \/ focus = "relay" /\ RelayNext /\ UNCHANGED <<spendVars, floatVars, watchVars>>
     \/ focus = "float" /\ FloatNext /\ UNCHANGED <<spendVars, relayVars, watchVars>>
     \/ focus = "watch" /\ WatchNext /\ UNCHANGED <<spendVars, relayVars, floatVars>>
(* The fairness of each component, for the behaviours that follow it. *)
OfficeFairness ==
  /\ WF_spendVars(focus = "spend" /\ SpenderStep("a"))
  /\ WF_spendVars(focus = "spend" /\ Tick)
  /\ \A o \in {1, 2} : WF_spendVars(focus = "spend" /\ Mine(o)) /\ WF_spendVars(focus = "spend" /\ Appear(o))
  /\ WF_relayVars(focus = "relay" /\ SocketStep)
  /\ WF_relayVars(focus = "relay" /\ IngressStep)
  /\ WF_relayVars(focus = "relay" /\ CardStep)
  /\ WF_relayVars(focus = "relay" /\ \E e \in stored : Receive(e))
  /\ WF_floatVars(focus = "float" /\ BookStep) /\ WF_floatVars(focus = "float" /\ PassStep)
  /\ WF_floatVars(focus = "float" /\ CadenceFires) /\ WF_floatVars(focus = "float" /\ NextDay)
  /\ WF_floatVars(focus = "float" /\ SendTick) /\ WF_floatVars(focus = "float" /\ ReceiveEnds)
  /\ WF_floatVars(focus = "float" /\ PayResolves) /\ WF_floatVars(focus = "float" /\ FundingEnds)
  /\ \A s \in Lockup : WF_floatVars(focus = "float" /\ out[s] = "lapsed" /\ Sweep(s))
  /\ WF_watchVars(focus = "watch" /\ LoopStep) /\ WF_watchVars(focus = "watch" /\ ReconcileStep) /\ WF_watchVars(focus = "watch" /\ attach)
  /\ \A s \in {"a", "b"} : WF_watchVars(focus = "watch" /\ tickAll(s)) /\ WF_watchVars(focus = "watch" /\ TickStep(s))
OfficeSpec == OfficeInit /\ [][OfficeNext]_<<focus, spendVars, relayVars, floatVars, watchVars>> /\ OfficeFairness

-----------------------------------------------------------------------------
(* Time and again nothing waits: every unrolled lockup's row has ended; every request the relay holds is answered and *)
(* the card on it is the solver's; every change at a live lockup is read and exactly the live ones are watched; swept, old and boarded coins are back in the float. *)
OfficeEnds ==
  []<>(/\ focus = "spend" => UnrolledHasEnded
       /\ focus = "relay" => EveryRequestHeard
       /\ focus = "watch" => CaughtUp
       /\ focus = "float" => FloatIsHome)
=============================================================================
