-------------------------- MODULE CoinReservations --------------------------
(***************************************************************************)
(* The ledger of pinned coins (arkade/reservations.ts) and the operations   *)
(* of one process that spend from the float by it: fundings and offer       *)
(* fills, which read the wallet and then pick and pin in one turn; renewals *)
(* and reshapes, which plan first and look at the ledger again before they  *)
(* pin; and withdrawals, which pin one coin per quote.                      *)
(***************************************************************************)
EXTENDS Integers

CONSTANTS
  Coins,
  Ops,     \* the operations that spend coins
  Kind     \* what each of them is: funding, renewal or withdrawal

Fundings == {p \in Ops : Kind[p] = "funding"}        \* fundLockup, fulfillOffer
Renewals == {p \in Ops : Kind[p] = "renewal"}        \* renewExpiringVtxos, mintPool, resplitFloat
Withdrawals == {p \in Ops : Kind[p] = "withdrawal"}  \* arkadeWithdraw

VARIABLES
  stage,    \* idle, listed, planned, pinning or sending
  list,     \* the coins an operation last read from the wallet
  held,     \* the coins it pinned, or planned to
  counts,   \* the ledger: coin |-> number of pins
  used      \* coins the server has seen spent
vars == <<stage, list, held, counts, used>>

reserved == {c \in Coins : counts[c] > 0}
reserve(S) == counts' = [c \in Coins |-> IF c \in S THEN counts[c] + 1 ELSE counts[c]]
release(S) == counts' = [c \in Coins |-> IF c \in S /\ counts[c] > 0 THEN counts[c] - 1 ELSE counts[c]]

Init ==
  /\ stage = [p \in Ops |-> "idle"]
  /\ list = [p \in Ops |-> {}] /\ held = [p \in Ops |-> {}]
  /\ counts = [c \in Coins |-> 0] /\ used = {}

(* Fundings: getSpendableVtxos is one await, the choice comes after it. *)
Read(p) ==
  /\ p \in Fundings \cup Withdrawals /\ stage[p] \in {"idle", "pinning"}
  /\ stage' = [stage EXCEPT ![p] = "listed"]
  /\ list' = [list EXCEPT ![p] = Coins \ used]
  /\ UNCHANGED <<held, counts, used>>
(* Mutant: only the wallet is asked, not the ledger. *)
PickableEarly(p) == list[p]
Pickable(p) == list[p] \ reserved
Pick(p, S) ==
  /\ p \in Fundings /\ stage[p] = "listed" /\ S # {} /\ S \subseteq Pickable(p)
  /\ stage' = [stage EXCEPT ![p] = "sending"]
  /\ held' = [held EXCEPT ![p] = S] /\ list' = [list EXCEPT ![p] = {}]
  /\ reserve(S)
  /\ UNCHANGED used

(* Renewals: the plan leaves out what was pinned when it was made. *)
Plan(p, S) ==
  /\ p \in Renewals /\ stage[p] = "idle" /\ S # {} /\ S \subseteq (Coins \ used) \ reserved
  /\ stage' = [stage EXCEPT ![p] = "planned"]
  /\ list' = [list EXCEPT ![p] = S]
  /\ UNCHANGED <<held, counts, used>>
pinInputs(p) ==
  /\ stage[p] = "planned" /\ list[p] \cap reserved = {}
  /\ stage' = [stage EXCEPT ![p] = "sending"]
  /\ held' = [held EXCEPT ![p] = list[p]] /\ list' = [list EXCEPT ![p] = {}]
  /\ reserve(list[p])
  /\ UNCHANGED used
Yield(p) ==
  /\ stage[p] = "planned" /\ list[p] \cap reserved # {}
  /\ stage' = [stage EXCEPT ![p] = "idle"] /\ list' = [list EXCEPT ![p] = {}]
  /\ UNCHANGED <<held, counts, used>>

(* Withdrawals: one more coin per quote, each pinned before the quote. *)
AddCoin(p, c) ==
  /\ p \in Withdrawals /\ stage[p] = "listed" /\ c \in Pickable(p)
  /\ held' = [held EXCEPT ![p] = @ \cup {c}] /\ list' = [list EXCEPT ![p] = {}]
  /\ reserve({c})
  /\ \E enough \in BOOLEAN : stage' = [stage EXCEPT ![p] = IF enough THEN "sending" ELSE "pinning"]
  /\ UNCHANGED used

(* The spend lands or fails; either way the pins go (finally). *)
Finish(p, sent) ==
  /\ stage' = [stage EXCEPT ![p] = "idle"]
  /\ held' = [held EXCEPT ![p] = {}] /\ list' = [list EXCEPT ![p] = {}]
  /\ release(held[p])
  /\ used' = IF sent /\ held[p] \cap used = {} THEN used \cup held[p] ELSE used
Send(p) == stage[p] = "sending" /\ \E sent \in BOOLEAN : Finish(p, sent)
(* Nothing left to pick: refused before anything was sent. *)
Refuse(p) == stage[p] = "listed" /\ Pickable(p) = {} /\ Finish(p, FALSE)

Crash ==
  /\ \E p \in Ops : stage[p] # "idle"
  /\ stage' = [p \in Ops |-> "idle"] /\ list' = [p \in Ops |-> {}] /\ held' = [p \in Ops |-> {}]
  /\ counts' = [c \in Coins |-> 0]
  /\ UNCHANGED used

Next ==
  \/ \E p \in Ops : Read(p) \/ pinInputs(p) \/ Yield(p) \/ Send(p) \/ Refuse(p)
  \/ \E p \in Ops, S \in SUBSET Coins : Pick(p, S) \/ Plan(p, S)
  \/ \E p \in Ops, c \in Coins : AddCoin(p, c)
  \/ Crash
Spec == Init /\ [][Next]_vars

-----------------------------------------------------------------------------
(* No coin is pinned by two operations, however their reads, plans and pins   *)
(* interleave (fundLockup.ts:173-184, pool.ts:112-119, arkadeFunds.ts:206-215). *)
Exclusive == \A p, q \in Ops : p # q => held[p] \cap held[q] = {}

(* A coin is pinned exactly while an operation under way holds it: nothing is *)
(* leaked by a failure and nothing freed under a spend (reservations.ts:41-60). *)
LedgerIsExact == \A c \in Coins : counts[c] = IF \E p \in Ops : c \in held[p] THEN 1 ELSE 0

(* What the coin pool relies on createReservationLedger for: no coin is     *)
(* pinned by two operations, and the counts are those of the pins in        *)
(* progress, none leaked and none taken from a spend.                        *)
LedgerIsKept == Exclusive /\ LedgerIsExact

(* What a funding picked is unspent when it is sent, as "the next read will   *)
(* not offer them" says (fundLockup.ts:118-120).  It fails for a read that    *)
(* was under way while another operation pinned, spent and released.          *)
PickedIsUnspent == \A p \in Fundings : held[p] \cap used = {}
=============================================================================
