----------------------------- MODULE Rebalance -----------------------------
(***************************************************************************)
(* Refilling the solver's Lightning and on-chain pools from its Arkade      *)
(* float (ops/rebalance.ts, rebalanceRoutes.ts, rebalanceStore.ts and       *)
(* core/rebalancePolicy.ts).  The operations of one process run one at a    *)
(* time (createSerialiser); what they interleave with is the server that    *)
(* executes the payment, the destination, the wallet's own view of its      *)
(* coins, the other spenders of the float, and a crash.  Every coin is      *)
(* worth one unit, so a transfer debits as many units as it has inputs.     *)
(***************************************************************************)
EXTENDS Integers, Sequences, FiniteSets

CONSTANTS
  Ids,            \* transfers
  Lightning,      \* the transfers among them that go over Lightning
  FloatCoins,     \* the float's coins, of one unit each, numbered in the order they are picked
  Policies,       \* policies, each told by its dailyDebitSats
  Reserve,        \* reserveSats
  Day,            \* the rolling window
  QuoteLife,      \* how long a quote may be submitted
  Horizon,        \* last instant of the clock
  MaxFaults       \* bound on crashes, lost requests and lost answers

NoId == 0

(* Transfers and coins are finitely many, so that debits can be counted. *)
ASSUME RefillAssumption ==
  /\ IsFiniteSet(Ids) /\ NoId \notin Ids /\ IsFiniteSet(FloatCoins)
  /\ Policies \subseteq Int /\ Day \in Nat /\ QuoteLife \in Nat

VARIABLES
  row,       \* the rebalance_transfer table
  order,     \* the transfers in the order they were charged
  spent,     \* coins the server has seen spent
  wire,      \* transfers whose payment is on its way to the server
  paid,      \* how often the server executed each transfer's payment
  fate,      \* what became of an executed payment: none, credited, refunded
  view,      \* coins the wallet lists as spendable
  pins,      \* the reservation ledger: coin |-> count
  hold,      \* the service's holds: none, full (inputs and debit), inputs
  clearing,  \* terminalPins
  policy,    \* the policy in force
  op,        \* the operation under the serialiser
  other,     \* coins another operation of the float holds and will spend
  now, faults

world == <<spent, wire, paid, fate>>
memory == <<pins, hold, clearing, op, other>>
refillVars == <<row, order, world, view, memory, policy, now, faults>>

Active == {"submitting", "pending", "needs_reconciliation"}
Critical == {"submitting", "needs_reconciliation"}
NoRow == [state |-> "none", origin |-> "manual", inputs |-> {}, over |-> NoId,
          rev |-> 0, expires |-> 0, charged |-> -1, txid |-> FALSE, cleared |-> FALSE]
InState(S) == {id \in Ids : row[id].state \in S}
Debit(id) == Cardinality(row[id].inputs)
Idle == op.at = "idle"
Goto(at, id, left) == op' = [at |-> at, id |-> id, left |-> left]

-----------------------------------------------------------------------------
(* The reservation ledger: every reserve counts, every release takes its own  *)
(* count back.                                                                *)
Reserved == {c \in FloatCoins : pins[c] > 0}
pinned(p, S) == [c \in FloatCoins |-> IF c \in S THEN p[c] + 1 ELSE p[c]]
unpinned(p, S) == [c \in FloatCoins |-> IF c \in S /\ p[c] > 0 THEN p[c] - 1 ELSE p[c]]

(* The store: at most one critical row, no active row goes back, no terminal  *)
(* row changes state, and a charge stays as it is.                            *)
CriticalSource(id, next) == next.state \in Critical => InState(Critical) \subseteq {id}
SaveAllowed(id, next) ==
  /\ CriticalSource(id, next)
  /\ row[id].state \in Active => next.state \notin {"quoted", "cancelled", "failed"}
  /\ row[id].state \in {"completed", "refunded", "failed", "cancelled"} => next.state = row[id].state
  /\ row[id].charged # -1 => next.charged = row[id].charged /\ next.inputs = row[id].inputs
save(id, next) == SaveAllowed(id, next) /\ row' = [row EXCEPT ![id] = next]

(* The units a set of transfers debits: one for every input. *)
Debits(S) == Cardinality({p \in S \X FloatCoins : p[2] \in row[p[1]].inputs})
rollingDebit(t) ==
  Debits({id \in Ids : row[id].charged > t - Day /\ row[id].charged # -1 /\ row[id].state \notin {"failed", "cancelled"}})

(* admission.outstandingInventorySats: the debits of the full holds. *)
Outstanding == Debits({id \in Ids : hold[id] = "full"})
Surplus(origin, debit, free) ==
  debit + Outstanding + (IF origin = "manual" THEN 0 ELSE Reserve) <= Cardinality(free)

(* One transfer at a time; an operator may add one to a transfer whose        *)
(* funding is known and held.                                                 *)
checkAdmission(origin, over) ==
  \/ InState(Active) = {} /\ over = NoId
  \/ /\ origin = "manual" /\ over # NoId
     /\ InState(Active) = {over}
     /\ row[over].state = "pending" /\ row[over].txid /\ hold[over] # "none"

-----------------------------------------------------------------------------
(* selectQuote: the first coins of the candidates in their order. *)
FirstCoins(S) == {{c \in S : c <= last} : last \in S}
Preview(origin, inputs, over) ==
  [state |-> "quoted", origin |-> origin, inputs |-> inputs, over |-> over,
   rev |-> policy, expires |-> now + QuoteLife, charged |-> -1, txid |-> FALSE, cleared |-> FALSE]
(* makeQuote: a preview is stored and holds nothing. *)
makeQuote(id, origin, inputs, over) ==
  LET free == view \ Reserved
  IN /\ row[id].state = "none" /\ inputs \in FirstCoins(free)
     /\ checkAdmission(origin, over)
     /\ Surplus(origin, Cardinality(inputs), free)
     /\ origin = "automatic" => rollingDebit(now) + Cardinality(inputs) <= policy
     /\ row' = [row EXCEPT ![id] = Preview(origin, inputs, over)]
PersistQuote(id, inputs, over) ==
  /\ Idle /\ makeQuote(id, "manual", inputs, over)
  /\ UNCHANGED <<order, world, view, memory, policy, now, faults>>

cancel(id) ==
  /\ Idle /\ row[id].state = "quoted"
  /\ save(id, [row[id] EXCEPT !.state = "cancelled"])
  /\ UNCHANGED <<order, world, view, memory, policy, now, faults>>

setPolicy(rev) ==
  /\ Idle /\ rev # policy /\ policy' = rev
  /\ UNCHANGED <<row, order, world, view, memory, now, faults>>

(* send, up to the pins: the checks of the quote, then those of the source's  *)
(* reserve, whose last look at the ledger and its pin are one turn.           *)
InputsFree(id) == row[id].inputs \subseteq view /\ row[id].inputs \cap Reserved = {}
SendAllowed(id) ==
  /\ row[id].state = "quoted" /\ row[id].expires > now
  /\ checkAdmission(row[id].origin, row[id].over)
  /\ row[id].origin = "automatic" => /\ row[id].rev = policy
                                     /\ rollingDebit(now) + Debit(id) <= policy
PinAllowed(id) ==
  /\ SendAllowed(id) /\ InputsFree(id)
  /\ Surplus(row[id].origin, Debit(id), view \ Reserved)
Pin(id) ==
  /\ PinAllowed(id)
  /\ pins' = pinned(pins, row[id].inputs)
  /\ Goto("claimed", id, {})
  /\ UNCHANGED <<row, order, world, view, hold, clearing, other, policy, now, faults>>
send(id) == Idle /\ row[id].origin = "manual" /\ Pin(id)

(* The charge is written before the payment leaves. *)
SaveSubmitting ==
  /\ op.at = "claimed"
  /\ LET id == op.id IN
       /\ save(id, [row[id] EXCEPT !.state = "submitting", !.charged = now])
       /\ order' = Append(order, id)
       /\ hold' = [hold EXCEPT ![id] = "full"]
       /\ Goto("submit", id, {})
  /\ UNCHANGED <<world, view, pins, clearing, other, policy, now, faults>>
SaveFails ==
  /\ op.at = "claimed" /\ faults < MaxFaults /\ faults' = faults + 1
  /\ pins' = unpinned(pins, row[op.id].inputs)
  /\ Goto("idle", NoId, {})
  /\ UNCHANGED <<row, order, world, view, hold, clearing, other, policy, now>>

(* submit: the inputs must still be the wallet's. *)
Submit ==
  /\ op.at = "submit" /\ row[op.id].inputs \subseteq view /\ row[op.id].expires > now
  /\ wire' = wire \cup {op.id}
  /\ Goto("answer", op.id, {})
  /\ UNCHANGED <<row, order, spent, paid, fate, view, pins, hold, clearing, other, policy, now, faults>>

(* The transaction id: the hold goes from inputs and debit to the inputs.     *)
holdPending(id) ==
  /\ pins' = IF hold[id] = "none" THEN pinned(pins, row[id].inputs)
             ELSE unpinned(pinned(pins, row[id].inputs), row[id].inputs)
  /\ hold' = [hold EXCEPT ![id] = "inputs"]
Answer ==
  /\ op.at = "answer" /\ op.id \notin wire /\ paid[op.id] > 0
  /\ save(op.id, [row[op.id] EXCEPT !.state = "pending", !.txid = TRUE])
  /\ holdPending(op.id)
  /\ view' = view \ row[op.id].inputs
  /\ Goto("idle", NoId, {})
  /\ UNCHANGED <<order, world, clearing, other, policy, now, faults>>
(* Refused, lost or timed out: the outcome is not known.                      *)
(* Mutant: a payment whose answer is late is sent again. *)
UncertainAgain ==
  /\ op.at = "answer" /\ faults < MaxFaults /\ faults' = faults + 1
  /\ Goto("submit", op.id, {})
  /\ UNCHANGED <<row, order, world, view, pins, hold, clearing, other, policy, now>>
Uncertain ==
  /\ \/ op.at = "submit" /\ ~(row[op.id].inputs \subseteq view /\ row[op.id].expires > now) /\ UNCHANGED faults
     \/ op.at = "answer" /\ op.id \notin wire /\ paid[op.id] = 0 /\ UNCHANGED faults
     \/ op.at = "answer" /\ faults < MaxFaults /\ faults' = faults + 1
  /\ save(op.id, [row[op.id] EXCEPT !.state = "needs_reconciliation"])
  /\ Goto("idle", NoId, {})
  /\ UNCHANGED <<order, world, view, pins, hold, clearing, other, policy, now>>

-----------------------------------------------------------------------------
(* tick: terminal pins, then every active row, terminal pins again, and one   *)
(* automatic refill when nothing is active.                                   *)
inputsAbsent(id) == row[id].inputs \cap view = {}
ClearedRows == {id \in clearing : inputsAbsent(id)}
clearTerminalPins ==
  /\ row' = [id \in Ids |-> IF id \in ClearedRows THEN [row[id] EXCEPT !.cleared = TRUE] ELSE row[id]]
  /\ pins' = [c \in FloatCoins |-> pins[c] - Cardinality({id \in ClearedRows : c \in row[id].inputs})]
  /\ hold' = [id \in Ids |-> IF id \in ClearedRows THEN "none" ELSE hold[id]]
  /\ clearing' = clearing \ ClearedRows
Tick ==
  /\ Idle /\ clearTerminalPins
  /\ Goto("tick", NoId, InState(Active))
  /\ UNCHANGED <<order, world, view, other, policy, now, faults>>

(* The destination's own evidence comes first, then the source's.  An         *)
(* on-chain receipt is only looked for once the funding is known.             *)
Credited(id) == fate[id] = "credited" /\ (id \in Lightning \/ row[id].txid)
Observed(id) == IF paid[id] = 0 THEN "unknown" ELSE IF fate[id] = "refunded" THEN "refunded" ELSE "submitted"
Terminal(id, state) ==
  /\ save(id, [row[id] EXCEPT !.state = state])
  /\ clearing' = clearing \cup {id}
  /\ UNCHANGED <<pins, hold>>
TickRow(id) ==
  /\ op.at = "tick" /\ id \in op.left
  /\ \/ Credited(id) /\ Terminal(id, "completed")
     \/ ~Credited(id) /\ Observed(id) = "refunded" /\ Terminal(id, "refunded")
     \/ /\ ~Credited(id) /\ Observed(id) = "submitted"
        /\ save(id, [row[id] EXCEPT !.state = "pending", !.txid = TRUE])
        /\ holdPending(id) /\ UNCHANGED clearing
     \/ ~Credited(id) /\ Observed(id) = "unknown" /\ UNCHANGED <<row, pins, hold, clearing>>
  /\ Goto("tick", NoId, op.left \ {id})
  /\ UNCHANGED <<order, world, view, other, policy, now, faults>>
(* A backend that cannot be read leaves the row as it is. *)
TickBlind(id) ==
  /\ op.at = "tick" /\ id \in op.left /\ faults < MaxFaults /\ faults' = faults + 1
  /\ Goto("tick", NoId, op.left \ {id})
  /\ UNCHANGED <<row, order, world, view, pins, hold, clearing, other, policy, now>>
TickRows ==
  /\ op.at = "tick" /\ op.left = {} /\ clearTerminalPins
  /\ Goto("refill", NoId, {})
  /\ UNCHANGED <<order, world, view, other, policy, now, faults>>

(* A pool below its trigger is refilled by as much as the limits and the      *)
(* surplus let through; quote and submission belong to one operation.         *)
Refill(id, inputs) ==
  /\ op.at = "refill" /\ InState(Active) = {}
  /\ makeQuote(id, "automatic", inputs, NoId)
  /\ Goto("quoted", id, {})
  /\ UNCHANGED <<order, world, view, pins, hold, clearing, other, policy, now, faults>>
RefillSend == op.at = "quoted" /\ Pin(op.id)
TickEnds ==
  /\ \/ op.at = "refill"
     \/ op.at = "quoted" /\ ~PinAllowed(op.id)
  /\ Goto("idle", NoId, {})
  /\ UNCHANGED <<row, order, world, view, pins, hold, clearing, other, policy, now, faults>>

-----------------------------------------------------------------------------
(* A crash loses the ledger; a restart pins again what a transfer may still   *)
(* spend, before anything else runs.                                          *)
Restored(id) == [row[id] EXCEPT !.state = IF @ = "submitting" THEN "needs_reconciliation" ELSE @]
protected == InState(Active) \cup {id \in InState({"completed", "refunded"}) : ~row[id].cleared}
TerminalRows == {id \in protected : row[id].state \notin Active}
Restart ==
  /\ faults < MaxFaults /\ faults' = faults + 1
  /\ row' = [id \in Ids |-> Restored(id)]
  /\ hold' = [id \in Ids |-> IF id \notin protected THEN "none"
                             ELSE IF row[id].txid \/ row[id].state \notin Active THEN "inputs" ELSE "full"]
  /\ pins' = [c \in FloatCoins |-> Cardinality({id \in protected : c \in row[id].inputs})]
  /\ clearing' = TerminalRows
  /\ Goto("idle", NoId, {}) /\ other' = {}
  /\ UNCHANGED <<order, world, view, policy, now>>

-----------------------------------------------------------------------------
(* The server, the destination and the counterparty.                          *)
Execute(id) ==
  /\ id \in wire /\ wire' = wire \ {id}
  /\ IF row[id].inputs \cap spent = {}
     THEN paid' = [paid EXCEPT ![id] = @ + 1] /\ spent' = spent \cup row[id].inputs
     ELSE UNCHANGED <<paid, spent>>
  /\ UNCHANGED <<row, order, fate, view, memory, policy, now, faults>>
Lose(id) ==
  /\ id \in wire /\ faults < MaxFaults /\ faults' = faults + 1 /\ wire' = wire \ {id}
  /\ UNCHANGED <<row, order, spent, paid, fate, view, memory, policy, now>>
Settle(id) ==
  /\ paid[id] > 0 /\ fate[id] = "none"
  /\ \E f \in IF id \in Lightning THEN {"credited", "refunded"} ELSE {"credited"} : fate' = [fate EXCEPT ![id] = f]
  /\ UNCHANGED <<row, order, spent, wire, paid, view, memory, policy, now, faults>>
(* The wallet hears of a spend some time after it happened. *)
Refresh ==
  /\ view # FloatCoins \ spent /\ view' = FloatCoins \ spent
  /\ UNCHANGED <<row, order, world, memory, policy, now, faults>>
(* A funding, a renewal, a withdrawal: picks and pins in one turn, spends,     *)
(* releases.                                                                  *)
OtherPins(c) ==
  /\ other = {} /\ c \in view \ Reserved
  /\ other' = {c} /\ pins' = pinned(pins, {c})
  /\ UNCHANGED <<row, order, world, view, hold, clearing, op, policy, now, faults>>
OtherSpends ==
  /\ other # {}
  /\ spent' = spent \cup other /\ view' = view \ other
  /\ pins' = unpinned(pins, other) /\ other' = {}
  /\ UNCHANGED <<row, order, wire, paid, fate, hold, clearing, op, policy, now, faults>>
Pass ==
  /\ now < Horizon /\ now' = now + 1
  /\ UNCHANGED <<row, order, world, view, memory, policy, faults>>

RefillInit ==
  /\ row = [id \in Ids |-> NoRow] /\ order = <<>>
  /\ spent = {} /\ wire = {} /\ paid = [id \in Ids |-> 0] /\ fate = [id \in Ids |-> "none"]
  /\ view = FloatCoins /\ pins = [c \in FloatCoins |-> 0]
  /\ hold = [id \in Ids |-> "none"] /\ clearing = {}
  /\ policy \in Policies /\ op = [at |-> "idle", id |-> NoId, left |-> {}] /\ other = {}
  /\ now = 0 /\ faults = 0

(* Identifiers are fresh: the next one in order. *)
Fresh == {id \in Ids : row[id].state = "none" /\ \A j \in Ids : j < id => row[j].state # "none"}
RefillNext ==
  \/ \E id \in Fresh, inputs \in SUBSET FloatCoins, over \in Ids \cup {NoId} : PersistQuote(id, inputs, over)
  \/ \E id \in Ids : cancel(id) \/ send(id)
  \/ \E rev \in Policies : setPolicy(rev)
  \/ SaveSubmitting \/ SaveFails \/ Submit \/ Answer \/ Uncertain
  \/ Tick \/ TickRows \/ TickEnds
  \/ \E id \in Ids : TickRow(id) \/ TickBlind(id)
  \/ \E id \in Fresh, inputs \in SUBSET FloatCoins : Refill(id, inputs)
  \/ RefillSend
  \/ Restart
  \/ \E id \in Ids : Execute(id) \/ Lose(id) \/ Settle(id)
  \/ Refresh \/ OtherSpends \/ Pass
  \/ \E c \in FloatCoins : OtherPins(c)

RefillSpec == RefillInit /\ [][RefillNext]_refillVars
(* The timer keeps ticking, an operation under way goes on, the wallet is      *)
(* refreshed, the server and the destination come to an end.                  *)
OperationStep ==
  \/ SaveSubmitting \/ Submit \/ Answer \/ Uncertain \/ TickRows \/ RefillSend \/ TickEnds
  \/ \E id \in Ids : TickRow(id)
RefillFairness ==
  /\ WF_refillVars(OperationStep) /\ WF_refillVars(Tick) /\ WF_refillVars(Refresh)
  /\ \A id \in Ids : WF_refillVars(Execute(id)) /\ WF_refillVars(Settle(id))
FairRefillSpec == RefillSpec /\ RefillFairness

-----------------------------------------------------------------------------
(* A coin a charged transfer took is nobody else's until the wallet itself    *)
(* has seen it gone, over crashes, lost answers and a wallet that lags: a     *)
(* coin another operation spends is never one of them (rebalance.ts:106-125,  *)
(* 436-456; reservations.ts:24-31).                                           *)
InputsStayOurs ==
  \A id \in Ids : row[id].charged # -1 /\ ~row[id].cleared =>
    /\ row[id].inputs \cap other = {}
    /\ row[id].inputs \subseteq Reserved
    /\ \A j \in Ids \ {id} : row[j].charged # -1 /\ ~row[j].cleared => row[id].inputs \cap row[j].inputs = {}

(* A transfer's payment leaves the float at most once, whatever is retried     *)
(* or restarted, and never for a preview that was cancelled or not submitted  *)
(* (rebalance.ts:359-411).                                                    *)
PaidOnce ==
  \A id \in Ids : /\ paid[id] + Cardinality({id} \cap wire) <= 1
                  /\ paid[id] > 0 \/ id \in wire => row[id].charged # -1

(* A row that says completed was credited and one that says refunded came     *)
(* back, and neither ever changes again (rebalanceStore.ts:141-142).          *)
RowTellsTheTruth ==
  \A id \in Ids : /\ row[id].state = "completed" => fate[id] = "credited"
                  /\ row[id].state = "refunded" => fate[id] = "refunded"

(* An automatic refill never takes the charges of any day past the limit its  *)
(* policy set, manual and refunded transfers counted, whatever was pending    *)
(* when it was quoted (rebalance.ts:317, 372; rebalanceStore.ts:214-221).     *)
ChargedBy(k) == {order[j] : j \in {j \in 1..k : row[order[j]].charged > row[order[k]].charged - Day}}
DailyLimit ==
  \A k \in DOMAIN order : row[order[k]].origin = "automatic" =>
    Debits(ChargedBy(k)) <= row[order[k]].rev

(* At most one transfer's outcome is uncertain, and beside it only the one    *)
(* pending transfer an operator chose to overlap (rebalance.ts:212-229,       *)
(* rebalanceStore.ts:15-16).                                                  *)
OneUncertain ==
  /\ Cardinality(InState(Critical)) <= 1
  /\ Cardinality(InState(Active)) <= 2
  /\ \A id, j \in InState(Active) : id # j => row[id].over = j \/ row[j].over = id

(* The ledger leaks nothing: a coin is pinned exactly as often as transfers    *)
(* and operations hold it (reservations.ts:41-61).                            *)
PinsAreOwned ==
  \A c \in FloatCoins : pins[c] = Cardinality({id \in Ids : hold[id] # "none" /\ c \in row[id].inputs})
                               + Cardinality(other \cap {c})
                               + IF op.at = "claimed" /\ c \in row[op.id].inputs THEN 1 ELSE 0

(* Every transfer whose payment was executed ends completed or refunded, and  *)
(* its pins are given back (rebalance.ts:458-531).                            *)
PaidResolves == \A id \in Ids : paid[id] > 0 ~> (row[id].state \in {"completed", "refunded"} /\ row[id].cleared /\ hold[id] = "none")

(* A refill keeps all of that over crashes, lost requests and lost answers: its coins, its single payment,
   a truthful row, the rolling limit, one uncertain transfer at a time and pins that somebody owns. *)
RefillIsSafe ==
  InputsStayOurs /\ PaidOnce /\ RowTellsTheTruth /\ DailyLimit /\ OneUncertain /\ PinsAreOwned
=============================================================================
