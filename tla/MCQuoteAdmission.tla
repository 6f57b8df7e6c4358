-------------------------- MODULE MCQuoteAdmission --------------------------
(* Three concurrent requests: two Lightning sends, on one hash or on two,    *)
(* and a receive that shares the first one's hash.                          *)
EXTENDS QuoteAdmission, TLC

CONSTANTS q1, q2, q3, h1, h2

MCQuote == {q1, q2, q3}
MCHash == {h1, h2}
MCCorridorOf == (q1 :> "send") @@ (q2 :> "send") @@ (q3 :> "receive")
MCSameHash == [q \in MCQuote |-> h1]
MCTwoHashes == (q1 :> h1) @@ (q2 :> h2) @@ (q3 :> h1)
MCGive == (q1 :> 2) @@ (q2 :> 1) @@ (q3 :> 2)
MCFloat == (q1 :> 2) @@ (q2 :> 1) @@ (q3 :> 0)
MCOwnInvoice == {q1}
============================================================================
