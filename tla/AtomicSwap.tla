----------------------------- MODULE AtomicSwap -----------------------------
(***************************************************************************)
(* What a corridor promises about one swap, whatever rails it runs on: the *)
(* client locks an amount, the solver offers a payout for it, and the two  *)
(* legs end together.  The solver gives the lockup back only while no      *)
(* payout is out, and takes it only for a payout the client has taken.     *)
(* After the refund deadline the client can always help itself; when that  *)
(* comes is no part of the promise.                                        *)
(***************************************************************************)

VARIABLES
  client,   \* the client's leg: the lockup
  payout    \* the solver's leg

vars == <<client, payout>>

ClientLeg == {"none", "locked", "collected", "returned", "clawedBack"}
PayoutLeg == {"none", "offered", "taken", "withdrawn"}

Init == client = "none" /\ payout = "none"

Lock == client = "none" /\ client' = "locked" /\ UNCHANGED payout

(* A payout is offered, or offered again once an earlier one has failed, *)
(* against a lockup that is there.                                       *)
Offer ==
  /\ client = "locked"
  /\ payout \in {"none", "withdrawn"} /\ payout' = "offered"
  /\ UNCHANGED client

(* The client takes what was offered, or it comes back. *)
Take == payout = "offered" /\ payout' = "taken" /\ UNCHANGED client
Withdraw == payout = "offered" /\ payout' = "withdrawn" /\ UNCHANGED client

Collect ==
  /\ client = "locked" /\ payout = "taken"
  /\ client' = "collected" /\ UNCHANGED payout

Return ==
  /\ client = "locked" /\ payout \in {"none", "withdrawn"}
  /\ client' = "returned" /\ UNCHANGED payout

Clawback ==
  /\ client \in {"locked", "returned"}
  /\ client' = "clawedBack" /\ UNCHANGED payout

Next == Lock \/ Offer \/ Take \/ Withdraw \/ Collect \/ Return \/ Clawback

Spec == Init /\ [][Next]_vars
============================================================================
