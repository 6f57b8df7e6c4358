----------------------------- MODULE MCOpenBids -----------------------------
EXTENDS OpenBids

MCOpens ==
  {[pair |-> "served", until |-> 2, age |-> 0, size |-> "bucket", side |-> "to", amount |-> 0, low |-> 1000, high |-> 100000]}
(* The wire example of docs/rfq-protocol.md. *)
MCFees == {[bps |-> 25, flat |-> 50]}
MCLimits == [min |-> 1000, max |-> 100000]
=============================================================================
