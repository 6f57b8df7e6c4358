------------------------------ MODULE MCDesk -------------------------------
(***************************************************************************)
(* The parts around the swaps, each by itself: a behaviour follows one of   *)
(* them and leaves the others at their start.                               *)
(***************************************************************************)
EXTENDS MCOnchainSend, Integers

VARIABLES
  focus,                                                          \* the component under way
  windows, granted, fee, tokens, lastAt, bids, now, asks,         \* OpenBids
  start, overrides, markets, boot, policy, served, readable, live, quoting, todo, past, reloads, built, late, stale, edits,
  failures, quotes,                                               \* PolicyEdits
  deployment, shell, document, printed, left, running             \* ConfigDocument

Amount(pair, until, age, side, sats) ==
  [pair |-> pair, until |-> until, age |-> age, size |-> "amount", side |-> side, amount |-> sats, low |-> 0, high |-> 0]
Bucket(low, high) ==
  [pair |-> "served", until |-> 1, age |-> 0, size |-> "bucket", side |-> "to", amount |-> 0, low |-> low, high |-> high]
OB == INSTANCE OpenBids WITH
  Keys <- {1, 2, 3}, Limit <- 1, Window <- 2, MaxKeys <- 2, PerMinute <- 2, Minute <- 2, Validity <- 2, MaxAge <- 1,
  Opens <- {Amount("served", 1, 0, "to", 1000), Amount("served", 0, 2, "from", 1030), Amount("served", 0, 1, "from", 1030),
            Amount("other", 1, 0, "to", 1000), Amount("served", 1, 0, "from", 20), Bucket(1, 999), Bucket(900, 5000)},
  Fees <- {[bps |-> 250, flat |-> 0], [bps |-> 25, flat |-> 20]}, Limits <- [min |-> 1000, max |-> 4000],
  MaxTime <- 3, MaxTakes <- 6

PE == INSTANCE MCPolicyEdits WITH rows <- markets, queue <- reloads, faults <- failures

CD == INSTANCE MCConfig WITH shown <- printed

setup == <<deployment, shell, document, printed, left, running>>
console == <<start, overrides, markets, boot, policy, served, readable, live, quoting, todo, past, reloads, built, late, stale,
             edits, failures, quotes>>
gate == <<windows, granted, fee, tokens, lastAt, bids, now, asks>>

DeskInit ==
  /\ focus \in {"onchain", "limiter", "bidder", "console", "setup"}
  /\ Init /\ CD!ConfigInit /\ PE!EditsInit /\ OB!BidsInit
  /\ focus # "onchain" => row = NewRow
  /\ focus # "bidder" => fee.bps = 250
  /\ focus # "console" => start.quotes = 1
  /\ focus # "setup" => CD!Sample(deployment)
DeskNext ==
  /\ UNCHANGED focus
  /\ \/ focus = "onchain" /\ Next /\ UNCHANGED <<gate, console, setup>>
     \/ focus = "limiter" /\ OB!LimiterNext /\ UNCHANGED <<vars, console, setup>>
     \/ focus = "bidder" /\ OB!BidderNext /\ UNCHANGED <<vars, console, setup>>
     \/ focus = "console" /\ PE!EditsNext /\ UNCHANGED <<vars, gate, setup>>
     \/ focus = "setup" /\ CD!ConfigNext /\ UNCHANGED <<vars, gate, console>>
DeskSpec == DeskInit /\ [][DeskNext]_<<focus, vars, gate, console, setup>>

-----------------------------------------------------------------------------
(* OpenBids: what a stranger can make the solver do is rationed. *)
StrangersAreRationed == focus \in {"onchain", "limiter", "bidder"} => OB!StrangersAreRationed
(* PolicyEdits: what an operator edits loads, is served, and is relaxed only once it is restricted. *)
(* ConfigDocument: a deployment moved to the document runs as it did, and its credentials stay out of the log. *)
ConfigurationIsKept ==
  /\ focus = "console" => PE!EditsAreSafe
  /\ focus = "setup" => CD!ConfigurationIsKept
=============================================================================
