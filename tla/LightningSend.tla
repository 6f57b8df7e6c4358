---------------------------- MODULE LightningSend ----------------------------
(***************************************************************************)
(* The Lightning send corridor, one swap of it.  The client locks sats at  *)
(* an Arkade script; the solver pays the client's invoice over Lightning,  *)
(* learns the preimage, and claims the lockup with it.  The danger is the  *)
(* asymmetry: between paying and claiming the solver has paid and not been *)
(* made whole, and a refund pushed in that window is a swap paid twice.    *)
(*                                                                         *)
(* The row in the database is the only state the processes share; they     *)
(* move it by compare-and-swap.  A driver is one process: its in-flight    *)
(* guard admits one tick of a row at a time, and each action below is the  *)
(* code between two awaits of that tick, working on the row as the tick    *)
(* READ it (job.row).  A crash loses the tick and nothing else.            *)
(*                                                                         *)
(* The Lightning backend, the Arkade server and its indexer, the node's    *)
(* own invoices and the coupled receive row are the environment.           *)
(***************************************************************************)
EXTENDS Integers, FiniteSets

CONSTANTS
  Driver,       \* the processes that tick the row
  Probes,       \* whether the backend can look a commitment up by hash: either or both
  FundBy,       \* lockupDeadlineFor: funding seen at or after this is refused
  PayBy,        \* last instant at which the CLTV budget still fits the deadline
  HtlcBy,       \* latest expiry of any HTLC a payment may have, by that budget
  RefundAt,     \* the lockup's refund locktime
  Grace,        \* NO_RECORD_GRACE_SECONDS, longer than the backend's own lag
  Orphan,       \* ORPHANED_REGISTRATION_SECONDS
  PreflightAt,  \* from here on the client library refuses before sending
  MaxTime,      \* bound on the clock
  Reconfigs,    \* what a restart may change: the provider "key", the Lightning "wallet"
  LagFromStamp, \* the backend records a payment within Grace of the attempt ON DISK
  MaxFaults     \* bound on crashes and failed calls

ASSUME TimeAssumption ==
  /\ {FundBy, PayBy, HtlcBy, RefundAt, Grace, Orphan, PreflightAt, MaxTime, MaxFaults} \subseteq Nat
  /\ PayBy <= HtlcBy /\ HtlcBy < RefundAt
  /\ Probes \subseteq BOOLEAN /\ LagFromStamp \in BOOLEAN
  /\ Reconfigs \subseteq {"key", "wallet"}
  /\ IsFiniteSet(Driver)

VARIABLES
  row,      \* the send_swap row
  job,      \* per driver: the tick in progress
  sweeper,  \* refundSweep, which no in-flight guard covers
  lockup,   \* what is at the lockup script
  pay,      \* the Lightning payment, as the backend holds it
  own,      \* what our own node knows of the invoice
  peer,     \* the receive row on the same hash, when this is a self-payment
  config,   \* what the running process is configured with, as changed since the quote
  clock,
  faults

vars == <<row, job, sweeper, lockup, pay, own, peer, config, clock, faults>>
env == <<own, peer, config>>

----------------------------------------------------------------------------
(* The state machine of the row. *)
SendSwapState == {"quoted", "funded", "paying", "paid", "claiming", "claimed", "refused", "stuck"}
Exposed == {"paying", "paid", "claiming"}
Terminal == {"claimed", "refused"}

SEND_SWAP_MACHINE ==
  [quoted |-> {"funded", "refused"},
   funded |-> {"paying", "claiming", "refused"},
   paying |-> {"paid", "stuck", "refused"},
   paid |-> {"claiming", "stuck", "refused"},
   claiming |-> {"claimed", "stuck"},
   claimed |-> {},
   refused |-> {},
   stuck |-> {"claiming", "refused"}]

(* What findLockups can return: nothing, too little, the amount, too much,   *)
(* an output a claim cannot spend, more outputs than one spend may take, or   *)
(* what a refund of those left for the next.                                  *)
Held == {"partial", "exact", "over", "asset", "many", "leftover"}
Spent == {"claimed", "refunded", "reclaimed", "claimPending"}
Lockups == {"none"} \cup Held \cup Spent
Covers == {"exact", "over"}

(* The payment at the backend: handed over and not yet on record, committed, *)
(* decided; or its hash registered by a call that died and nothing behind it. *)
PayStates == {"none", "queued", "inflight", "settled", "failed", "orphaned"}
Unseen == {"none", "queued", "orphaned"}
OwnStates == {"foreign", "pending", "armed", "settled", "cancelled"}

(* The coupled receive row: none; quoted; the real HTLC it took; our payout  *)
(* on its lockup; the preimage the client's claim revealed; live and over    *)
(* without a claim; refused before funding was tried; refused after.         *)
PeerStates == {"none", "quoted", "htlc", "paidOut", "revealed", "over", "refused", "refusedHeld"}
PeerLive == {"quoted", "htlc", "paidOut", "revealed", "over"}

(* The wallet configured at the quote, and the one a restart switches to. *)
Wallets == {"first", "second"}
Config == [rotated : BOOLEAN, wallet : Wallets, probe : Probes]

(* The backend implements the optional getSendHtlcState. *)
HasProbe == config.probe

NeverTried == -1
Row == [state : SendSwapState, value : BOOLEAN, payId : BOOLEAN,
        attempted : Int, wallet : Wallets, preimage : BOOLEAN,
        outcome : {"none", "pushed", "external"}, claimTx : BOOLEAN]

NewRow == [state |-> "quoted", value |-> FALSE, payId |-> FALSE, attempted |-> NeverTried,
           wallet |-> "first", preimage |-> FALSE, outcome |-> "none", claimTx |-> FALSE]

Verdicts == {"none", "unknown", "notOurs", "withhold"}
Results == {"none", "pending", "settled", "failed"}
Steps == {"idle", "step", "patchValue", "failQuoted", "fund",
          "refuseCoupled", "startPay", "submit", "response", "patchPayment", "hashBlocked",
          "verdict", "pushRefund", "findRefund", "refund", "patchRefund", "terminal",
          "markPaid", "toClaiming", "claim", "evidence", "markClaimed"}

(* One tick: where it stands, the row it read, whether nothing can have been *)
(* committed by an earlier attempt, what the backend answered, the verdict   *)
(* on a self-payment, the outputs it found, whether its refund went out,     *)
(* whether it only refunds (the row is already closed), and whether it acts  *)
(* on what the probe by hash found (recoverCommitted).                       *)
Job == [pc : Steps, row : Row, fresh : BOOLEAN, result : Results, verdict : Verdicts,
        seen : Lockups, refunded : BOOLEAN, closed : BOOLEAN, byProbe : BOOLEAN]

Idle == [pc |-> "idle", row |-> NewRow, fresh |-> FALSE, result |-> "none",
         verdict |-> "none", seen |-> "none", refunded |-> FALSE, closed |-> FALSE,
         byProbe |-> FALSE]

SweepSteps == {"idle", "find", "refund", "patch"}

Init ==
  /\ row = NewRow
  /\ job = [d \in Driver |-> Idle]
  /\ sweeper = [pc |-> "idle", seen |-> "none"]
  /\ lockup = "none"
  /\ pay = "none"
  /\ \/ own = "foreign" /\ peer = "none"
     \/ own = "pending" /\ peer \in {"none", "quoted"}
  /\ config \in {[rotated |-> FALSE, wallet |-> "first", probe |-> p] : p \in Probes}
  /\ clock = 0
  /\ faults = 0

----------------------------------------------------------------------------
(* Store operations. *)

(* transition(): a compare-and-swap on the state column. *)
(* Mutant: an UPDATE without its WHERE state = from. *)
WonAlways(from) == TRUE
Won(from) == row.state = from
transition(from, new) == row' = IF Won(from) THEN new ELSE row

(* fail(): money may be out, so an operator looks; or nothing is, so refuse. *)
(* Mutant: a state the machine does not have. *)
failStateUnknown(from) == IF from \in Exposed THEN "stuck" ELSE "failed"
failState(from) == IF from \in Exposed THEN "stuck" ELSE "refused"
fail(from) == transition(from, [row EXCEPT !.state = failState(from)])

At(d, pc) == job[d].pc = pc
Goto(d, pc) == job' = [job EXCEPT ![d].pc = pc]
Done(d) == job' = [job EXCEPT ![d] = Idle]

----------------------------------------------------------------------------
(* Mutant: the list of live states misses one. *)
TickMissesFunded(d) ==
  /\ At(d, "idle")
  /\ row.state \in {"quoted", "paying", "paid", "claiming"}
  /\ job' = [job EXCEPT ![d] = [Idle EXCEPT !.pc = "step", !.row = row]]
  /\ UNCHANGED <<row, sweeper, lockup, pay, env, clock, faults>>

(* tick(): re-read the row and dispatch on its state. *)
Tick(d) ==
  /\ At(d, "idle")
  /\ row.state \in {"quoted", "funded", "paying", "paid", "claiming"}
  /\ job' = [job EXCEPT ![d] = [Idle EXCEPT !.pc = "step", !.row = row]]
  /\ UNCHANGED <<row, sweeper, lockup, pay, env, clock, faults>>

(* whenQuoted: what is at the script decides, and then the clock. *)
whenQuoted(d) ==
  /\ At(d, "step") /\ job[d].row.state = "quoted"
  /\ LET unusable == lockup \in {"over", "many", "asset"}
         late == clock >= FundBy
     IN job' = [job EXCEPT ![d] =
          IF unusable \/ (late /\ lockup \in Held)
            THEN [@ EXCEPT !.pc = "patchValue"]
          ELSE IF late THEN [@ EXCEPT !.pc = "failQuoted"]
          ELSE IF lockup = "exact" THEN [@ EXCEPT !.pc = "fund"]
          ELSE Idle]
  /\ UNCHANGED <<row, sweeper, lockup, pay, env, clock, faults>>

(* The value held is recorded first, so that refundSweep can find it... *)
PatchValue(d) ==
  /\ At(d, "patchValue")
  /\ row' = [row EXCEPT !.value = TRUE]
  /\ Goto(d, "failQuoted")
  /\ UNCHANGED <<sweeper, lockup, pay, env, clock, faults>>

(* ...and then the row is refused. *)
FailQuoted(d) ==
  /\ At(d, "failQuoted")
  /\ fail("quoted")
  /\ Done(d)
  /\ UNCHANGED <<sweeper, lockup, pay, env, clock, faults>>

Fund(d) ==
  /\ At(d, "fund")
  /\ transition("quoted", [row EXCEPT !.state = "funded", !.value = TRUE])
  /\ Done(d)
  /\ UNCHANGED <<sweeper, lockup, pay, env, clock, faults>>

----------------------------------------------------------------------------
(* whenFunded. *)

AtFunded(d) == At(d, "step") /\ job[d].row.state = "funded"

(* The provider key rotated since the quote: the claim would not be ours. *)
FundedKeyRotated(d) ==
  /\ AtFunded(d) /\ config.rotated
  /\ fail("funded")
  /\ Done(d)
  /\ UNCHANGED <<sweeper, lockup, pay, env, clock, faults>>

(* A live receive row on this hash: collect from what the client reveals on  *)
(* its lockup, and never pay.                                                *)
FundedCoupled(d) ==
  /\ AtFunded(d) /\ ~config.rotated
  /\ peer \in PeerLive
  /\ \/ peer = "htlc" /\ fail("funded")
     \/ peer = "revealed"
        /\ transition("funded", [row EXCEPT !.state = "claiming", !.preimage = TRUE])
     \/ peer \in {"quoted", "paidOut", "over"} /\ UNCHANGED row
  /\ Done(d)
  /\ UNCHANGED <<sweeper, lockup, pay, env, clock, faults>>

(* The receive row was refused: refund, once our own node proves that nothing *)
(* was or will be paid against the invoice.                                   *)
FundedPeerRefused(d) ==
  /\ AtFunded(d) /\ ~config.rotated
  /\ peer \in {"refused", "refusedHeld"}
  /\ IF peer = "refused" /\ own \in {"pending", "cancelled"}
     THEN Goto(d, "refuseCoupled")
     ELSE Done(d)
  /\ UNCHANGED <<row, sweeper, lockup, pay, env, clock, faults>>

RefuseCoupled(d) ==
  /\ At(d, "refuseCoupled")
  /\ transition("funded", [row EXCEPT !.state = "refused"])
  /\ job' = [job EXCEPT ![d] = IF Won("funded") THEN [@ EXCEPT !.pc = "findRefund", !.closed = TRUE]
                               ELSE Idle]
  /\ UNCHANGED <<sweeper, lockup, pay, env, clock, faults>>

(* payDeadline: nothing, or less than was funded, at the script means now. *)
Payable == clock <= PayBy /\ lockup \in Held \ {"partial", "leftover"}

(* evaluateSendPayment and the approval gate. *)
FundedDecides(d) ==
  /\ AtFunded(d) /\ ~config.rotated
  /\ peer = "none"
  /\ \/ ~Payable /\ fail("funded") /\ Done(d)
     \/ Payable /\ UNCHANGED row /\ Goto(d, "startPay")
     \/ Payable /\ UNCHANGED row /\ Done(d)
  /\ UNCHANGED <<sweeper, lockup, pay, env, clock, faults>>

(* The attempt is on disk before anything is submitted; the row is re-read. *)
StartPay(d) ==
  /\ At(d, "startPay")
  /\ transition("funded", [row EXCEPT !.state = "paying", !.attempted = clock,
                                      !.wallet = config.wallet])
  /\ job' = [job EXCEPT ![d] = IF Won("funded") THEN [@ EXCEPT !.pc = "submit", !.row = row', !.fresh = TRUE]
                               ELSE Idle]
  /\ UNCHANGED <<sweeper, lockup, pay, env, clock, faults>>

----------------------------------------------------------------------------
(* whenPaying. *)

(* A payment made from another wallet is not one this process can look up. *)
Foreign(r) == r.wallet # config.wallet
PayAsSeen(r) == IF Foreign(r) THEN "none" ELSE pay

AtPayingNoId(d) == At(d, "step") /\ job[d].row.state = "paying" /\ ~job[d].row.payId

(* The payment was attempted on a backend or wallet this process is not on. *)
PayingForeign(d) ==
  /\ AtPayingNoId(d) /\ Foreign(job[d].row)
  /\ fail("paying")
  /\ Done(d)
  /\ UNCHANGED <<sweeper, lockup, pay, env, clock, faults>>

(* Mutant: silence is believed at once. *)
WithinGraceNone(r) == FALSE
WithinGrace(r) == r.attempted # NeverTried /\ clock - r.attempted < Grace

(* A backend that can look the hash up is asked before any re-submission. *)
PayingProbed(d) ==
  /\ AtPayingNoId(d) /\ HasProbe /\ ~Foreign(job[d].row)
  /\ job' = [job EXCEPT ![d] =
       CASE pay = "inflight" -> Idle
         [] pay = "settled" -> [@ EXCEPT !.pc = "markPaid", !.result = "settled", !.byProbe = TRUE]
         [] pay = "failed" -> [@ EXCEPT !.pc = "verdict", !.result = "failed", !.byProbe = TRUE]
         [] pay \in Unseen ->
              IF WithinGrace(@.row) THEN Idle ELSE [@ EXCEPT !.pc = "submit", !.fresh = TRUE]]
  /\ UNCHANGED <<row, sweeper, lockup, pay, env, clock, faults>>

(* It settled and does not say with which preimage: nothing to claim with. *)
PayingNoPreimage(d) ==
  /\ AtPayingNoId(d) /\ HasProbe /\ ~Foreign(job[d].row)
  /\ pay = "settled"
  /\ fail("paying")
  /\ Done(d)
  /\ UNCHANGED <<sweeper, lockup, pay, env, clock, faults>>

(* Mutant: re-submits without comparing wallets. *)
PayingUnprobedAnyWallet(d) ==
  /\ AtPayingNoId(d) /\ ~HasProbe
  /\ Goto(d, "submit")
  /\ UNCHANGED <<row, sweeper, lockup, pay, env, clock, faults>>

PayingUnprobed(d) ==
  /\ AtPayingNoId(d) /\ ~HasProbe /\ ~Foreign(job[d].row)
  /\ Goto(d, "submit")
  /\ UNCHANGED <<row, sweeper, lockup, pay, env, clock, faults>>

----------------------------------------------------------------------------
(* submitPayment. *)

(* Mutant: the gates refuse whether or not an attempt may be out. *)
SubmitRefusedAlways(d) ==
  /\ At(d, "submit")
  /\ config.rotated \/ ~Payable
  /\ transition(job[d].row.state, [row EXCEPT !.state = "refused"])
  /\ Done(d)
  /\ UNCHANGED <<sweeper, lockup, pay, env, clock, faults>>

(* The gates before the call: with nothing committed the row is refused, and *)
(* with an earlier attempt unaccounted for it goes to an operator.           *)
SubmitRefused(d) ==
  /\ At(d, "submit")
  /\ config.rotated \/ ~Payable
  /\ LET from == job[d].row.state
     IN IF job[d].fresh THEN transition(from, [row EXCEPT !.state = "refused"]) ELSE fail(from)
  /\ Done(d)
  /\ UNCHANGED <<sweeper, lockup, pay, env, clock, faults>>

(* payInvoice leaves the process.  A fresh hash is taken on; a hash already  *)
(* in flight or settled is not paid again; a hash that failed is retried by  *)
(* a backend that dedups live attempts only (LND), and not by one that holds *)
(* its record against the idempotency key; the call may also never arrive,   *)
(* or register the hash and die.                                             *)
payInvoice(d) ==
  /\ At(d, "submit")
  /\ ~config.rotated /\ Payable
  /\ \/ /\ pay = "none" \/ (pay = "failed" /\ ~HasProbe)
        /\ pay' = IF LagFromStamp /\ clock >= row.attempted + Grace THEN "inflight" ELSE "queued"
     \/ /\ pay = "none" /\ HasProbe
        /\ pay' = "orphaned"
     \/ /\ pay = "failed" => HasProbe
        /\ UNCHANGED pay
  /\ Goto(d, "response")
  /\ UNCHANGED <<row, sweeper, lockup, env, clock, faults>>

(* The call is rejected before it submits anything: the backend says so by   *)
(* name (PaymentNotStarted), or its client library refuses on the CLTV it    *)
(* was given, which the adapter reports as a failed payment.                 *)
payInvoiceNotStarted(d) ==
  /\ At(d, "submit")
  /\ ~config.rotated /\ Payable
  /\ IF HasProbe
     THEN /\ pay = "none"
          /\ transition("paying", [row EXCEPT !.state = "refused"])
          /\ job' = [job EXCEPT ![d] =
               IF Won("paying") THEN [@ EXCEPT !.pc = "findRefund", !.closed = TRUE] ELSE Idle]
     ELSE /\ clock >= PreflightAt
          /\ UNCHANGED row
          /\ job' = [job EXCEPT ![d].pc = "patchPayment", ![d].result = "failed"]
  /\ UNCHANGED <<sweeper, lockup, pay, env, clock, faults>>

(* The answer, whenever it comes: what the backend knows by then.  A call    *)
(* that never arrived throws, or reads as pending where the adapter gives    *)
(* every unrecognised error that name.                                       *)
PayResponse(d) ==
  /\ At(d, "response")
  /\ job' = [job EXCEPT ![d] =
       IF pay \in {"none", "orphaned"} /\ HasProbe THEN Idle
       ELSE [@ EXCEPT !.pc = "patchPayment",
                      !.result = CASE pay = "failed" -> "failed"
                                   [] pay = "settled" -> "settled"
                                   [] OTHER -> "pending"]]
  /\ UNCHANGED <<row, sweeper, lockup, pay, env, clock, faults>>

(* PaymentHashRegistered from a backend whose probe showed nothing: retried  *)
(* until the registration has been orphaned too long.                        *)
whenHashBlocked(d) ==
  /\ At(d, "submit") /\ HasProbe /\ pay \in {"queued", "orphaned"}
  /\ ~config.rotated /\ Payable
  /\ IF job[d].row.attempted = NeverTried \/ clock - job[d].row.attempted < Orphan
     THEN UNCHANGED row
     ELSE fail("paying")
  /\ Done(d)
  /\ UNCHANGED <<sweeper, lockup, pay, env, clock, faults>>

(* The payment id is recorded before anything else is done about the answer. *)
PatchPayment(d) ==
  /\ At(d, "patchPayment")
  /\ row' = [row EXCEPT !.payId = TRUE, !.attempted = clock, !.wallet = config.wallet]
  /\ Goto(d, IF job[d].result = "failed" THEN "verdict" ELSE "markPaid")
  /\ UNCHANGED <<sweeper, lockup, pay, env, clock, faults>>

----------------------------------------------------------------------------
(* settleFromBackend, from paying (with an id) or paid. *)
Settling(d) == \/ job[d].row.state = "paying" /\ job[d].row.payId
               \/ job[d].row.state = "paid"

settleFromBackend(d) ==
  /\ At(d, "step") /\ Settling(d)
  /\ LET r == job[d].row
         polled == PayAsSeen(r)
     IN job' = [job EXCEPT ![d] =
          CASE ~r.payId -> IF r.preimage THEN [@ EXCEPT !.pc = "toClaiming"] ELSE Idle
            [] r.payId /\ polled \in Unseen ->
                 IF WithinGrace(r) THEN Idle
                 ELSE [@ EXCEPT !.pc = "verdict", !.result = "failed"]
            [] r.payId /\ polled = "failed" -> [@ EXCEPT !.pc = "verdict", !.result = "failed"]
            [] r.payId /\ polled = "inflight" ->
                 IF r.state = "paying" THEN [@ EXCEPT !.pc = "markPaid", !.result = "pending"] ELSE Idle
            [] r.payId /\ polled = "settled" ->
                 IF r.state = "paying" THEN [@ EXCEPT !.pc = "markPaid", !.result = "settled"]
                 ELSE [@ EXCEPT !.pc = "toClaiming"]]
  /\ UNCHANGED <<row, sweeper, lockup, pay, env, clock, faults>>

(* paying -> paid; a preimage found by the probe is stored with it. *)
MarkPaid(d) ==
  /\ At(d, "markPaid")
  /\ LET known == job[d].result = "settled"
     IN /\ transition("paying", [row EXCEPT !.state = "paid",
                                 !.preimage = @ \/ job[d].byProbe])
        /\ job' = [job EXCEPT ![d] = IF known /\ Won("paying") THEN [@ EXCEPT !.pc = "toClaiming"] ELSE Idle]
  /\ UNCHANGED <<sweeper, lockup, pay, env, clock, faults>>

(* claimWithPreimage: the preimage reaches the disk with the state; one that *)
(* does not open the hash goes to an operator.                               *)
claimWithPreimage(d) ==
  /\ At(d, "toClaiming")
  /\ \/ /\ transition("paid", [row EXCEPT !.state = "claiming", !.preimage = TRUE])
        /\ UNCHANGED faults
     \/ /\ fail("paid")
        /\ faults < MaxFaults
        /\ faults' = faults + 1
  /\ Done(d)
  /\ UNCHANGED <<sweeper, lockup, pay, env, clock>>

----------------------------------------------------------------------------
(* Terminal failure. *)

(* refundProvenSelfPayment: is the invoice one our own node minted, and did   *)
(* it take anything?  A probe that cannot answer leaves the verdict unknown.  *)
refundProvenSelfPayment(d) ==
  /\ At(d, "verdict")
  /\ LET from == job[d].row.state
     IN \/ /\ UNCHANGED row
           /\ job' = [job EXCEPT ![d].pc = "findRefund", ![d].verdict = "unknown"]
        \/ /\ own = "foreign"
           /\ UNCHANGED row
           /\ job' = [job EXCEPT ![d].pc = "findRefund", ![d].verdict = "notOurs"]
        \/ /\ own \in {"armed", "settled"}
           /\ UNCHANGED row
           /\ job' = [job EXCEPT ![d].pc = "terminal", ![d].verdict = "withhold"]
        \/ /\ own \in {"pending", "cancelled"}
           /\ transition(from, [row EXCEPT !.state = "refused"])
           /\ job' = [job EXCEPT ![d].pc = IF Won(from) THEN "pushRefund" ELSE "terminal",
                                 ![d].verdict = IF Won(from) THEN "none" ELSE "withhold"]
  /\ UNCHANGED <<sweeper, lockup, pay, env, clock, faults>>

(* findLockups, and then the refund: pushRefund for a proven self-payment,    *)
(* refundAfterTerminalFailure for the rest.  Neither settles the row.         *)
FindRefund(d) ==
  /\ job[d].pc \in {"findRefund", "pushRefund"}
  /\ IF lockup \in Held
     THEN job' = [job EXCEPT ![d].pc = "refund", ![d].seen = lockup,
                             ![d].closed = @ \/ job[d].pc = "pushRefund"]
     ELSE job' = [job EXCEPT ![d] = IF @.closed \/ @.pc = "pushRefund" THEN Idle
                                    ELSE [@ EXCEPT !.pc = "terminal"]]
  /\ row' = IF At(d, "pushRefund") /\ lockup \in Spent
            THEN [row EXCEPT !.outcome = "external"] ELSE row
  /\ UNCHANGED <<sweeper, lockup, pay, env, clock, faults>>

(* What a refund of the outputs seen leaves at the script. *)
AfterRefund(seen) == IF seen = "many" THEN "leftover" ELSE "refunded"

(* arkade.refund: it spends what was found, or fails if that is gone. *)
Refund(d) ==
  /\ At(d, "refund")
  /\ IF lockup \in Held
     THEN /\ lockup' = AfterRefund(job[d].seen)
          /\ Goto(d, "patchRefund")
     ELSE /\ UNCHANGED lockup
          /\ job' = [job EXCEPT ![d] = IF @.closed THEN Idle ELSE [@ EXCEPT !.pc = "terminal"]]
  /\ UNCHANGED <<row, sweeper, pay, env, clock, faults>>

(* It throws, with or without having moved the funds: the tick carries on    *)
(* as not refunded.                                                          *)
RefundFails(d) ==
  /\ At(d, "refund") /\ lockup \in Held
  /\ faults < MaxFaults
  /\ faults' = faults + 1
  /\ lockup' \in {lockup, AfterRefund(job[d].seen)}
  /\ job' = [job EXCEPT ![d] = IF @.closed THEN Idle ELSE [@ EXCEPT !.pc = "terminal"]]
  /\ UNCHANGED <<row, sweeper, pay, env, clock>>

(* The outcome is recorded only when every output was taken. *)
PatchRefund(d) ==
  /\ At(d, "patchRefund")
  /\ row' = [row EXCEPT !.outcome = IF job[d].seen = "many" THEN @ ELSE "pushed"]
  /\ job' = [job EXCEPT ![d] = IF @.closed THEN Idle ELSE [@ EXCEPT !.pc = "terminal", !.refunded = TRUE]]
  /\ UNCHANGED <<sweeper, lockup, pay, env, clock, faults>>

(* settleTerminalFailure; a payment the probe saw returned always goes to an  *)
(* operator.                                                                  *)
settleTerminalFailure(d) ==
  /\ At(d, "terminal")
  /\ LET from == job[d].row.state
     IN IF job[d].refunded /\ job[d].verdict = "notOurs" /\ ~job[d].byProbe
        THEN transition(from, [row EXCEPT !.state = "refused"])
        ELSE fail(from)
  /\ Done(d)
  /\ UNCHANGED <<sweeper, lockup, pay, env, clock, faults>>

----------------------------------------------------------------------------
(* whenClaiming. *)
whenClaiming(d) ==
  /\ At(d, "step") /\ job[d].row.state = "claiming"
  /\ Goto(d, IF lockup \in Covers THEN "claim" ELSE "evidence")
  /\ UNCHANGED <<row, sweeper, lockup, pay, env, clock, faults>>

(* arkade.claim succeeds; the record follows in a step of its own. *)
Claim(d) ==
  /\ At(d, "claim") /\ lockup \in Covers /\ ~config.rotated
  /\ lockup' = "claimed"
  /\ Goto(d, "markClaimed")
  /\ UNCHANGED <<row, sweeper, pay, env, clock, faults>>

(* It fails outright (the outputs are gone, the key is not ours any more), or  *)
(* by a fault before or after the server took the spend; past the refund      *)
(* deadline that is an operator's problem, before it a retry.                 *)
ClaimFails(d) ==
  /\ At(d, "claim")
  /\ \/ /\ lockup \notin Covers \/ config.rotated
        /\ UNCHANGED <<lockup, faults>>
     \/ /\ lockup \in Covers /\ ~config.rotated /\ faults < MaxFaults
        /\ faults' = faults + 1
        /\ lockup' \in {lockup, "claimPending"}
  /\ IF clock >= RefundAt THEN fail("claiming") ELSE UNCHANGED row
  /\ Done(d)
  /\ UNCHANGED <<sweeper, pay, env, clock>>

(* Less at the script than the amount: is a spend provable, and is it ours?   *)
ClaimEvidence(d) ==
  /\ At(d, "evidence")
  /\ IF lockup \in Spent
     THEN IF lockup = "claimPending"
          THEN lockup' = "claimed" /\ UNCHANGED row /\ Goto(d, "markClaimed")
          ELSE UNCHANGED lockup /\ fail("claiming") /\ Done(d)
     ELSE /\ UNCHANGED lockup
          /\ IF clock >= RefundAt THEN fail("claiming") ELSE UNCHANGED row
          /\ Done(d)
  /\ UNCHANGED <<sweeper, pay, env, clock, faults>>

MarkClaimed(d) ==
  /\ At(d, "markClaimed")
  /\ transition("claiming", [row EXCEPT !.state = "claimed", !.claimTx = TRUE])
  /\ Done(d)
  /\ UNCHANGED <<sweeper, lockup, pay, env, clock, faults>>

----------------------------------------------------------------------------

(* refundSweep: refused rows that held something and have no outcome yet. *)
refundSweep ==
  /\ sweeper.pc = "idle"
  /\ row.state = "refused" /\ row.outcome = "none" /\ row.value
  /\ sweeper' = [sweeper EXCEPT !.pc = "find"]
  /\ UNCHANGED <<row, job, lockup, pay, env, clock, faults>>

SweepFind ==
  /\ sweeper.pc = "find"
  /\ IF lockup \in Held
     THEN sweeper' = [pc |-> "refund", seen |-> lockup] /\ UNCHANGED row
     ELSE /\ sweeper' = [pc |-> "idle", seen |-> "none"]
          /\ row' = IF lockup \in Spent THEN [row EXCEPT !.outcome = "external"] ELSE row
  /\ UNCHANGED <<job, lockup, pay, env, clock, faults>>

SweepRefund ==
  /\ sweeper.pc = "refund"
  /\ IF lockup \in Held
     THEN lockup' = AfterRefund(sweeper.seen) /\ sweeper' = [sweeper EXCEPT !.pc = "patch"]
     ELSE UNCHANGED lockup /\ sweeper' = [pc |-> "idle", seen |-> "none"]
  /\ UNCHANGED <<row, job, pay, env, clock, faults>>

(* Mutant: records the refund as complete whatever it left behind. *)
SweepPatchAlways ==
  /\ sweeper.pc = "patch"
  /\ row' = [row EXCEPT !.outcome = "pushed"]
  /\ sweeper' = [pc |-> "idle", seen |-> "none"]
  /\ UNCHANGED <<job, lockup, pay, env, clock, faults>>

SweepPatch ==
  /\ sweeper.pc = "patch"
  /\ row' = IF sweeper.seen = "many" THEN row ELSE [row EXCEPT !.outcome = "pushed"]
  /\ sweeper' = [pc |-> "idle", seen |-> "none"]
  /\ UNCHANGED <<job, lockup, pay, env, clock, faults>>

----------------------------------------------------------------------------
(* Faults: the process dies, or a call throws and the tick is abandoned. *)
Abandon(d) ==
  /\ job[d].pc # "idle"
  /\ faults < MaxFaults
  /\ faults' = faults + 1
  /\ Done(d)
  /\ UNCHANGED <<row, sweeper, lockup, pay, env, clock>>

(* The process comes back with another key or another Lightning wallet. *)
Reconfigure ==
  /\ faults < MaxFaults
  /\ faults' = faults + 1
  /\ \/ "key" \in Reconfigs /\ ~config.rotated /\ config' = [config EXCEPT !.rotated = TRUE]
     \/ "wallet" \in Reconfigs /\ config' = [config EXCEPT !.wallet = "second"]
  /\ job' = [d \in Driver |-> Idle]
  /\ sweeper' = [pc |-> "idle", seen |-> "none"]
  /\ UNCHANGED <<row, lockup, pay, own, peer, clock>>

SweepAbandon ==
  /\ sweeper.pc # "idle"
  /\ faults < MaxFaults
  /\ faults' = faults + 1
  /\ sweeper' = [pc |-> "idle", seen |-> "none"]
  /\ UNCHANGED <<row, job, lockup, pay, env, clock>>

----------------------------------------------------------------------------
(* The environment. *)

(* The client funds the script, in one piece or several, in time or not;     *)
(* adding to a row already decided is left out.                              *)
ClientFunds ==
  /\ \/ lockup = "none" /\ lockup' \in Held \ {"leftover"}
     \/ lockup = "partial" /\ row.state = "quoted" /\ lockup' \in {"exact", "over"}
     \/ lockup = "exact" /\ row.state = "quoted" /\ lockup' = "over"
  /\ UNCHANGED <<row, job, sweeper, pay, env, clock, faults>>

(* From the refund locktime on, the client may take the lockup back. *)
ClientReclaims ==
  /\ lockup \in Held /\ clock >= RefundAt
  /\ lockup' = "reclaimed"
  /\ UNCHANGED <<row, job, sweeper, pay, env, clock, faults>>

(* The backend records what it was handed, and the network decides.  A       *)
(* payment of our own invoice settles only against an HTLC our node holds.    *)
PayRecorded ==
  /\ pay = "queued" /\ pay' = "inflight"
  /\ UNCHANGED <<row, job, sweeper, lockup, env, clock, faults>>

PaySettles ==
  /\ pay = "inflight" /\ pay' = "settled"
  /\ own \in {"foreign", "armed"}
  /\ own' = IF own = "armed" THEN "settled" ELSE own
  /\ UNCHANGED <<row, job, sweeper, lockup, peer, config, clock, faults>>

PayFails ==
  /\ pay = "inflight" /\ pay' = "failed"
  /\ UNCHANGED <<row, job, sweeper, lockup, env, clock, faults>>

(* Our own invoice, when it is one of ours: an HTLC arrives, is settled, or  *)
(* the invoice is cancelled.                                                 *)
OwnInvoiceMoves ==
  /\ \/ own = "pending" /\ own' \in {"armed", "cancelled"}
     \/ own = "armed" /\ pay # "inflight" /\ own' \in {"settled", "cancelled"}
  /\ peer \in {"none", "htlc", "refused", "refusedHeld"}
  /\ UNCHANGED <<row, job, sweeper, lockup, pay, peer, config, clock, faults>>

(* The receive corridor drives its row: a real HTLC, our payout once this    *)
(* row is funded (the invoice is retired first), the client's claim, the end. *)
PeerMoves ==
  /\ \/ peer = "quoted" /\ peer' = "htlc" /\ own' = "armed"
     \/ peer = "quoted" /\ peer' = "paidOut" /\ own' = "cancelled"
        /\ row.state = "funded" /\ lockup \in Covers /\ clock < RefundAt
     \/ peer = "quoted" /\ peer' \in {"refused", "refusedHeld"} /\ own' = "cancelled"
     \/ peer = "paidOut" /\ peer' \in {"revealed", "over"} /\ own' = own
  /\ UNCHANGED <<row, job, sweeper, lockup, pay, config, clock, faults>>

(* Time passes, but never past what the backend owes by then: a record of a  *)
(* payment within the grace of the attempt (what NO_RECORD_GRACE_SECONDS is  *)
(* chosen for), an answer before the HTLC expires.  Near the bound it waits  *)
(* for a call in flight, so that a grace its answer starts can end.          *)
Advance ==
  /\ clock < MaxTime
  /\ pay = "queued" => clock + 1 < row.attempted + Grace
  /\ pay = "inflight" => clock < HtlcBy
  /\ clock + Grace >= MaxTime =>
       \A d \in Driver : job[d].pc \notin {"startPay", "submit", "response", "patchPayment"}
  /\ clock' = clock + 1
  /\ UNCHANGED <<row, job, sweeper, lockup, pay, env, faults>>

----------------------------------------------------------------------------
DriverStep(d) ==
  \/ Tick(d)
  \/ whenQuoted(d) \/ PatchValue(d) \/ FailQuoted(d) \/ Fund(d)
  \/ FundedKeyRotated(d) \/ FundedCoupled(d) \/ FundedPeerRefused(d) \/ RefuseCoupled(d)
  \/ FundedDecides(d) \/ StartPay(d)
  \/ PayingForeign(d) \/ PayingProbed(d) \/ PayingNoPreimage(d) \/ PayingUnprobed(d)
  \/ SubmitRefused(d) \/ payInvoice(d) \/ payInvoiceNotStarted(d) \/ PayResponse(d)
  \/ whenHashBlocked(d) \/ PatchPayment(d)
  \/ settleFromBackend(d) \/ MarkPaid(d) \/ claimWithPreimage(d)
  \/ refundProvenSelfPayment(d) \/ FindRefund(d) \/ Refund(d) \/ RefundFails(d) \/ PatchRefund(d)
  \/ settleTerminalFailure(d)
  \/ whenClaiming(d) \/ Claim(d) \/ ClaimFails(d) \/ ClaimEvidence(d) \/ MarkClaimed(d)

SweepStep == refundSweep \/ SweepFind \/ SweepRefund \/ SweepPatch

Faults == SweepAbandon \/ Reconfigure \/ \E d \in Driver : Abandon(d)

Network == PayRecorded \/ PaySettles \/ PayFails

Environment == ClientFunds \/ ClientReclaims \/ Network \/ OwnInvoiceMoves \/ PeerMoves \/ Advance

Next == SweepStep \/ Faults \/ Environment \/ \E d \in Driver : DriverStep(d)

Spec == Init /\ [][Next]_vars

----------------------------------------------------------------------------
(* Every variable keeps its type. *)
TypeOK ==
  /\ row \in Row
  /\ job \in [Driver -> Job]
  /\ sweeper \in [pc : SweepSteps, seen : Lockups]
  /\ lockup \in Lockups
  /\ pay \in PayStates
  /\ own \in OwnStates
  /\ peer \in PeerStates
  /\ config \in Config
  /\ clock \in Nat
  /\ faults \in Nat

(* The solver never returns the client's lockup while a payment of the       *)
(* client's invoice has been handed to the backend and may still, or did,    *)
(* succeed: the swap is never paid twice.                                    *)
NeverPaidAndRefunded ==
  lockup \in {"refunded", "leftover"} => pay \notin {"queued", "inflight", "settled"}

(* The two legs as the abstract swap sees them. *)
ClientLeg ==
  CASE lockup = "none" -> "none"
    [] lockup \in Held \ {"leftover"} -> "locked"
    [] lockup \in {"claimed", "claimPending"} -> "collected"
    [] lockup \in {"refunded", "leftover"} -> "returned"
    [] lockup = "reclaimed" -> "clawedBack"

PayoutLeg ==
  CASE pay = "settled" \/ peer = "revealed" -> "taken"
    [] pay \in {"queued", "inflight"} \/ peer = "paidOut" -> "offered"
    [] pay = "failed" \/ peer = "over" -> "withdrawn"
    [] OTHER -> "none"

(* Every step of the corridor, with its stale reads, crashes, retries and    *)
(* refunds from three places, is a step of the abstract swap or none at all. *)
Swap == INSTANCE AtomicSwap WITH client <- ClientLeg, payout <- PayoutLeg
ImplementsAtomicSwap == Swap!Spec

(* The same for a run in which the operator may change the key or the        *)
(* wallet: every step up to the change is one of the abstract swap.          *)
Reconfigured == config.rotated \/ config.wallet # "first"
AtomicUntilReconfigured == Swap!Init /\ [][Swap!Next \/ Reconfigured']_<<ClientLeg, PayoutLeg>>

(* A row whose payment is out, or has settled, is never closed as refused,   *)
(* where no tick would look at it again; and never still before paying.      *)
PaymentNeverForgotten ==
  pay \in {"queued", "inflight", "settled"} => row.state \notin {"quoted", "funded", "refused"}

(* The solver takes a client's lockup only after it has paid for it: over    *)
(* Lightning, or on the coupled receive row's own lockup.                    *)
CollectsOnlyWhatItPaidFor ==
  lockup \in {"claimed", "claimPending"} => pay = "settled" \/ peer = "revealed"

(* What the row tells the client and the operator happened, happened: a      *)
(* claimed row's lockup was collected, a pushed refund went out, a lockup    *)
(* said to be gone is gone.                                                  *)
RowTellsTheTruth ==
  /\ row.state = "claimed" => lockup = "claimed"
  /\ row.outcome = "pushed" => lockup = "refunded"
  /\ row.outcome = "external" => lockup \in Spent

(* A send coupled to our own receive row is never paid over Lightning, even  *)
(* by a tick that read the row before the coupling ended.                    *)
CoupledNeverPaid == peer # "none" => pay = "none"

(* No handler, however stale the row it works on, moves the row along an     *)
(* edge the state machine does not have.                                     *)
LegalEdges == [][row'.state # row.state => row'.state \in SEND_SWAP_MACHINE[row.state]]_vars

(* Stated by send/orchestrator.ts on `coupling`: the one way it loses money  *)
(* is to pay out on the receive leg and never claim the send lockup.  Once   *)
(* the receive leg has paid out, the send lockup is not given back.          *)
CoupledLockupKept ==
  peer \in {"paidOut", "revealed"} => lockup \notin {"refunded", "leftover"}

(* A process that came back on another Lightning wallet never hands out an   *)
(* invoice that the first wallet may have paid: every payment leaves from    *)
(* the wallet the row names.                                                 *)
OneWalletPays ==
  [][pay' # pay /\ pay \in {"none", "failed"} => row.wallet = config.wallet]_vars

(* A swap that is no self-payment does not stay open: it ends claimed,       *)
(* refused, or with an operator.                                             *)
EverySwapResolves ==
  peer = "none" => <>(row.state \in {"claimed", "refused", "stuck"})

(* A refused row never keeps what the client had locked: refundSweep returns *)
(* it, however many outputs it takes and whatever the first attempt did.     *)
RefusedIsReturned ==
  (row.state = "refused" /\ row.value) ~> lockup \notin Held

(* Node keeps ticking and sweeping, backends answer, HTLCs end by expiry,    *)
(* and time passes.  Clients, approvals and configuration are not fair.      *)
Fairness ==
  /\ \A d \in Driver : WF_vars(DriverStep(d))
  /\ WF_vars(SweepStep)
  /\ WF_vars(Network)
  /\ WF_vars(Advance)

FairSpec == Spec /\ Fairness

----------------------------------------------------------------------------
(* What one process keeps whatever call fails: types and, while it stays on its Lightning wallet, at most one of
   payment and refund, no payment lost from the row; no lockup collected unpaid, a row that says what happened, no self-payment over Lightning. *)
SwapIsSafe ==
  /\ TypeOK /\ (config.wallet = "first" => NeverPaidAndRefunded /\ PaymentNeverForgotten)
  /\ CollectsOnlyWhatItPaidFor /\ RowTellsTheTruth /\ CoupledNeverPaid
(* What is left of that with a second process ticking on its own stale copy of the row. *)
StaleTicksAreSafe == CollectsOnlyWhatItPaidFor /\ RowTellsTheTruth /\ CoupledNeverPaid
(* Every swap ends, and what a refusal leaves at the lockup goes back to the client. *)
SwapEnds == EverySwapResolves /\ RefusedIsReturned
============================================================================
