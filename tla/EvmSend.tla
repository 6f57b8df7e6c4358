------------------------------- MODULE EvmSend -------------------------------
(***************************************************************************)
(* The EVM send corridor, one swap of it.  The client locks sats at an     *)
(* Arkade script; the solver locks tokens in the ERC20 swap contract; the  *)
(* client's claim of those reveals the preimage the solver collects the    *)
(* sats with.  Tokens nobody claims are refunded after the contract's      *)
(* timeout.                                                                *)
(*                                                                         *)
(* A tick reads the row, gathers its observation with two rounds of reads, *)
(* lets the planner decide, and carries the decision out: each action here *)
(* is the code between two awaits.  Every transition is guarded by the     *)
(* state it leaves, and losing one throws, which ends the tick.            *)
(*                                                                         *)
(* One clock serves for seconds and for block heights: quote() converts    *)
(* one into the other with margins, and only their order matters here.     *)
(***************************************************************************)
EXTENDS Naturals, Sequences, FiniteSets

CONSTANTS
  Driver,      \* the processes that may tick the row
  Fleets,      \* the sets of them that may be running
  ValidUntil,  \* the quote's deadline
  EvmTimeout,  \* from here on the contract lets the solver refund
  RefundAt,    \* the Arkade lockup's refundLocktime
  MaxTime,     \* bound on the clock
  MaxRefunds,  \* bound on the refund transactions sent
  MaxFaults    \* bound on crashes, failed calls, reverts and reorganisations

(* quote() leaves the client its claim window between the quote's end and the *)
(* contract's timeout, and EVM_ORDER_MARGIN_SECONDS from there to the Arkade    *)
(* lockup's.                                                                   *)
ASSUME EvmSendAssumption ==
  /\ {ValidUntil, EvmTimeout, RefundAt, MaxTime, MaxRefunds, MaxFaults} \subseteq Nat
  /\ ValidUntil <= EvmTimeout /\ EvmTimeout < RefundAt
  /\ Fleets \subseteq SUBSET Driver

VARIABLES
  row,      \* the send_evm_swap row
  job,      \* per running process: the tick in progress
  sweeper,  \* refundSweep
  lockup,   \* what is at the client's Arkade lockup script
  lock,     \* the ERC20 lock, from its broadcast to its end
  refunds,  \* the refund transactions sent, in order
  rested,   \* a whole tick has run since the last thing that happened to the swap
  clock,
  faults

vars == <<row, job, sweeper, lockup, lock, refunds, rested, clock, faults>>

States == {"quoted", "funded", "locking_evm", "awaiting_claim", "claiming", "claimed",
           "refunding_evm", "refunded", "refused", "stuck"}
Live == {"quoted", "funded", "locking_evm", "awaiting_claim", "claiming", "refunding_evm"}
Exposed == {"locking_evm", "awaiting_claim", "claiming", "refunding_evm"}

(* A transaction is shallow until minConfirmations and minAgeSeconds hold. *)
LockStages == {"none", "pending", "reverted", "shallow", "deep",
               "claimShallow", "claimed", "refundShallow", "refunded"}
Present == lock \in {"shallow", "deep"}
Outcomes == {"pending", "success", "reverted"}

Row == [state : States, lockTx : BOOLEAN, refundTx : 0..MaxRefunds, preimage : BOOLEAN,
        outcome : {"none", "pushed", "external"}]
NewRow == [state |-> "quoted", lockTx |-> FALSE, refundTx |-> 0, preimage |-> FALSE, outcome |-> "none"]

Plans == {"wait", "refuse", "stick", "lock_evm", "await_claim", "claim_arkade", "refund_evm", "record_refund"}
Steps == Plans \cup {"idle", "observe", "reread", "approve", "sendLock", "patchLock", "collect",
                     "markClaimed", "sendRefund", "patchRefund"}

(* The first round of reads: the lockup, the contract, the receipts, the clock. *)
Glance == [funded : BOOLEAN, present : BOOLEAN, lockReverted : BOOLEAN,
           refund : Outcomes, landed : BOOLEAN, height : Nat]
Blank == [funded |-> FALSE, present |-> FALSE, lockReverted |-> FALSE,
          refund |-> "pending", landed |-> FALSE, height |-> 0]

Job == [pc : Steps, row : Row, seen : Glance, tx : 0..MaxRefunds, fresh : BOOLEAN]
Idle == [pc |-> "idle", row |-> NewRow, seen |-> Blank, tx |-> 0, fresh |-> FALSE]

Init ==
  /\ row = NewRow
  /\ \E fleet \in Fleets : job = [d \in fleet |-> Idle]
  /\ sweeper = "idle"
  /\ lockup = "none"
  /\ lock = "none"
  /\ refunds = <<>>
  /\ rested = FALSE
  /\ clock = 0
  /\ faults = 0

----------------------------------------------------------------------------
(* Mutant: an UPDATE without its WHERE state = from. *)
WonAlways(from) == TRUE
Won(from) == row.state = from

Running == DOMAIN job
At(d, pc) == d \in Running /\ job[d].pc = pc
Goto(d, pc) == job' = [job EXCEPT ![d].pc = pc]

(* The tick ends by itself, having seen the latest of the swap or not. *)
Done(d) ==
  /\ job' = [job EXCEPT ![d] = Idle]
  /\ rested' = (rested \/ job[d].fresh)

(* A transition that moves on to pc, or throws. *)
Throw(d) == job' = [job EXCEPT ![d] = Idle] /\ UNCHANGED <<row, rested>>
transition(d, from, new, pc) ==
  IF Won(from) THEN row' = new /\ Goto(d, pc) /\ UNCHANGED rested ELSE Throw(d)

(* A transition the tick ends with. *)
conclude(d, from, new) == IF Won(from) THEN row' = new /\ Done(d) ELSE Throw(d)

(* Something happened that no tick in progress has seen from its start. *)
Disturb ==
  /\ rested' = FALSE
  /\ job' = [d \in Running |-> [job[d] EXCEPT !.fresh = FALSE]]

world == <<lockup, lock, refunds>>
still == <<sweeper, clock, faults>>

----------------------------------------------------------------------------
Tick(d) ==
  /\ At(d, "idle") /\ row.state \in Live
  /\ job' = [job EXCEPT ![d] = [Idle EXCEPT !.pc = "observe", !.row = row, !.fresh = TRUE]]
  /\ UNCHANGED <<row, world, rested, still>>

(* observe, the reads it makes at once.  A receipt is asked for only in the   *)
(* state that needs it and only by a recorded txid.                           *)
Seen(r) ==
  [funded |-> lockup = "funded",
   present |-> Present,
   lockReverted |-> r.state = "locking_evm" /\ r.lockTx /\ lock = "reverted",
   refund |-> IF r.state = "refunding_evm" /\ r.refundTx # 0 THEN refunds[r.refundTx] ELSE "pending",
   landed |-> r.state = "refunding_evm" /\ lock \in {"refundShallow", "refunded"},
   height |-> clock]

Observe(d) ==
  /\ At(d, "observe")
  /\ job' = [job EXCEPT ![d].pc = "reread", ![d].seen = Seen(job[d].row)]
  /\ UNCHANGED <<row, world, rested, still>>

(* The claim event counts once it is as deep as the row asks for. *)
(* Mutant: it counts at once. *)
ClaimSeenAtOnce(r) == r.preimage \/ (r.state \in Exposed /\ lock \in {"claimShallow", "claimed"})
ClaimSeen(r) == r.preimage \/ (r.state \in Exposed /\ lock = "claimed")

(* The planner on a refunding row.  A reverted refund over a lock that is     *)
(* still there is an operator's; an unrecorded one is sent again; and a       *)
(* refund that landed counts whichever of them it was.                        *)
(* Mutant: only the recorded one counts, and nothing is sent again.           *)
whenRefundingOnce(r, s) == IF s.refund = "success" THEN "record_refund" ELSE "wait"
whenRefunding(r, s) ==
  CASE s.refund = "success" -> "record_refund"
    [] s.refund = "reverted" /\ s.present -> "stick"
    [] s.refund = "pending" /\ r.refundTx = 0 /\ s.present /\ s.height >= EvmTimeout -> "refund_evm"
    [] OTHER -> IF s.landed THEN "record_refund" ELSE "wait"

(* planEvmSend, on the row and both rounds of reads: now and deep come with   *)
(* the second, the rest with the first.                                       *)
planEvmSend(r, s, preimage, now, deep) ==
  CASE preimage -> IF now >= RefundAt THEN "stick" ELSE "claim_arkade"
    [] ~preimage /\ r.state = "quoted" ->
         IF now >= ValidUntil THEN "refuse" ELSE IF s.funded THEN "lock_evm" ELSE "wait"
    [] ~preimage /\ r.state = "funded" -> "lock_evm"
    [] ~preimage /\ r.state = "locking_evm" ->
         IF ~s.present /\ s.lockReverted THEN "stick"
         ELSE IF s.height >= EvmTimeout THEN "refund_evm"
         ELSE IF s.present /\ deep THEN "await_claim" ELSE "wait"
    [] ~preimage /\ r.state = "awaiting_claim" ->
         IF s.height >= EvmTimeout THEN "refund_evm" ELSE "wait"
    [] ~preimage /\ r.state = "refunding_evm" -> whenRefunding(r, s)
    [] OTHER -> "wait"

Reread(d) ==
  /\ At(d, "reread")
  /\ LET r == job[d].row
         plan == planEvmSend(r, job[d].seen, ClaimSeen(r), clock, lock = "deep")
     IN IF plan = "wait" THEN Done(d) ELSE Goto(d, plan) /\ UNCHANGED rested
  /\ UNCHANGED <<row, world, still>>

----------------------------------------------------------------------------
(* Mutant: a state the store does not have. *)
RefuseAsExpired(d) ==
  /\ At(d, "refuse")
  /\ conclude(d, job[d].row.state, [row EXCEPT !.state = "expired"])
  /\ UNCHANGED <<world, still>>

Refuse(d) ==
  /\ At(d, "refuse")
  /\ conclude(d, job[d].row.state, [row EXCEPT !.state = "refused"])
  /\ UNCHANGED <<world, still>>

Stick(d) ==
  /\ At(d, "stick")
  /\ conclude(d, job[d].row.state, [row EXCEPT !.state = "stuck"])
  /\ UNCHANGED <<world, still>>

(* lock_evm takes its turn, reads the row and the chain again and asks the    *)
(* planner again; then an operator may hold it back.                          *)
LockAgain(d) ==
  /\ At(d, "lock_evm")
  /\ LET plan == planEvmSend(row, Seen(row), ClaimSeen(row), clock, FALSE)
     IN \/ plan = "lock_evm" /\ job' = [job EXCEPT ![d].pc = "approve", ![d].row = row] /\ UNCHANGED rested
        \/ Done(d)
  /\ UNCHANGED <<row, world, still>>

(* Exposure is recorded before anything is sent. *)
ToLocking(d) ==
  /\ At(d, "approve")
  /\ transition(d, job[d].row.state, [row EXCEPT !.state = "locking_evm"], "sendLock")
  /\ UNCHANGED <<world, still>>

(* The approval calls and the lock call, whose hash is kept. *)
SendLock(d) ==
  /\ At(d, "sendLock")
  /\ lock' = IF lock = "none" THEN "pending" ELSE lock
  /\ Goto(d, "patchLock")
  /\ UNCHANGED <<row, lockup, refunds, rested, still>>

PatchLock(d) ==
  /\ At(d, "patchLock")
  /\ row' = [row EXCEPT !.lockTx = TRUE]
  /\ Done(d)
  /\ UNCHANGED <<world, still>>

ToAwaitingClaim(d) ==
  /\ At(d, "await_claim")
  /\ conclude(d, job[d].row.state, [row EXCEPT !.state = "awaiting_claim"])
  /\ UNCHANGED <<world, still>>

----------------------------------------------------------------------------
(* claim_arkade: the preimage reaches the disk first, from whatever state the *)
(* row is in by now.                                                          *)
ToClaiming(d) ==
  /\ At(d, "claim_arkade")
  /\ IF row.state = "claiming" THEN UNCHANGED <<row, rested>> /\ Goto(d, "collect")
     ELSE transition(d, row.state, [row EXCEPT !.state = "claiming", !.preimage = TRUE], "collect")
  /\ UNCHANGED <<world, still>>

(* claimArkade: with nothing spendable at the script it throws, and the next  *)
(* tick asks again.                                                           *)
claimArkade(d) ==
  /\ At(d, "collect")
  /\ IF lockup \in {"short", "funded"}
     THEN lockup' = "claimed" /\ Goto(d, "markClaimed") /\ UNCHANGED rested
     ELSE UNCHANGED lockup /\ Done(d)
  /\ UNCHANGED <<row, lock, refunds, still>>

MarkClaimed(d) ==
  /\ At(d, "markClaimed")
  /\ conclude(d, "claiming", [row EXCEPT !.state = "claimed"])
  /\ UNCHANGED <<world, still>>

----------------------------------------------------------------------------
(* refund_evm: the state first; a row already there is a resend. *)
ToRefunding(d) ==
  /\ At(d, "refund_evm")
  /\ IF job[d].row.state = "refunding_evm" THEN UNCHANGED <<row, rested>> /\ Goto(d, "sendRefund")
     ELSE transition(d, job[d].row.state, [row EXCEPT !.state = "refunding_evm"], "sendRefund")
  /\ UNCHANGED <<world, still>>

SendRefund(d) ==
  /\ At(d, "sendRefund") /\ Len(refunds) < MaxRefunds
  /\ refunds' = Append(refunds, "pending")
  /\ job' = [job EXCEPT ![d].pc = "patchRefund", ![d].tx = Len(refunds) + 1]
  /\ UNCHANGED <<row, lockup, lock, rested, still>>

(* claimRefundTxid: the first to record wins. *)
claimRefundTxid(d) ==
  /\ At(d, "patchRefund")
  /\ row' = IF row.refundTx = 0 THEN [row EXCEPT !.refundTx = job[d].tx] ELSE row
  /\ Done(d)
  /\ UNCHANGED <<world, still>>

RecordRefund(d) ==
  /\ At(d, "record_refund")
  /\ conclude(d, "refunding_evm", [row EXCEPT !.state = "refunded"])
  /\ UNCHANGED <<world, still>>

----------------------------------------------------------------------------
(* watchLateLocks, part of every sweep: a row closed over a lock is still     *)
(* read for the client's claim while that is worth anything.                  *)
(* Mutant: a refunded row is done with.                                       *)
findClosedOverLockStuckOnly == row.state = "stuck" /\ clock < RefundAt
findClosedOverLock == row.state \in {"stuck", "refunded"} /\ clock < RefundAt

watchLateLocks ==
  /\ findClosedOverLock
  /\ row' = IF lock = "claimed" THEN [row EXCEPT !.preimage = TRUE] ELSE row
  /\ rested' = TRUE
  /\ row' # row \/ ~rested
  /\ UNCHANGED <<job, world, still>>

(* refundSweep: what refused rows hold. *)
Refundable == row.state = "refused" /\ row.outcome = "none"

refundSweep ==
  /\ sweeper = "idle" /\ Refundable
  /\ \/ lockup \in {"short", "funded"} /\ sweeper' = "refund" /\ UNCHANGED row
     \/ lockup \in {"claimed", "returned", "reclaimed"}
        /\ row' = [row EXCEPT !.outcome = "external"] /\ UNCHANGED sweeper
  /\ UNCHANGED <<job, world, rested, clock, faults>>

SweepRefund ==
  /\ sweeper = "refund"
  /\ IF lockup \in {"short", "funded"} THEN lockup' = "returned" /\ sweeper' = "patch"
     ELSE UNCHANGED lockup /\ sweeper' = "idle"
  /\ UNCHANGED <<row, job, lock, refunds, rested, clock, faults>>

SweepPatch ==
  /\ sweeper = "patch"
  /\ row' = [row EXCEPT !.outcome = "pushed"]
  /\ sweeper' = "idle"
  /\ UNCHANGED <<job, world, rested, clock, faults>>

----------------------------------------------------------------------------
Fault == faults < MaxFaults /\ faults' = faults + 1

(* A call throws or the process dies; a broadcast may have got through. *)
Abandon(d) ==
  /\ d \in Running /\ ~At(d, "idle") /\ Fault
  /\ rested' = FALSE
  /\ job' = [job EXCEPT ![d] = Idle]
  /\ UNCHANGED <<row, world, sweeper, clock>>

SweepAbandon ==
  /\ sweeper # "idle" /\ Fault
  /\ sweeper' = "idle"
  /\ UNCHANGED <<row, job, world, rested, clock>>

LockReverts ==
  /\ lock = "pending" /\ Fault
  /\ lock' = "reverted"
  /\ Disturb
  /\ UNCHANGED <<row, lockup, refunds, sweeper, clock>>

(* A block that is not deep yet is replaced: its transaction is unmined, and  *)
(* so is what was mined on top of it.                                         *)
Reorg ==
  /\ Fault
  /\ \/ lock = "shallow" /\ lock' = "pending"
     \/ lock \in {"claimShallow", "refundShallow"} /\ lock' = "deep"
  /\ refunds' = [i \in DOMAIN refunds |-> "pending"]
  /\ Disturb
  /\ UNCHANGED <<row, lockup, sweeper, clock>>

----------------------------------------------------------------------------
(* The chain.  One account sends the lock and the refunds, so no refund is    *)
(* mined before the lock is.                                                  *)
MineLock ==
  /\ lock = "pending"
  /\ lock' = "shallow"
  /\ Disturb
  /\ UNCHANGED <<row, lockup, refunds, still>>

MineRefund(i) ==
  /\ i \in DOMAIN refunds /\ refunds[i] = "pending"
  /\ lock # "pending"
  /\ \A j \in 1..(i - 1) : refunds[j] # "pending"
  /\ refunds' = [refunds EXCEPT ![i] = IF Present THEN "success" ELSE "reverted"]
  /\ lock' = IF Present THEN "refundShallow" ELSE lock
  /\ Disturb
  /\ UNCHANGED <<row, lockup, still>>

Bury ==
  /\ \/ lock = "shallow" /\ lock' = "deep"
     \/ lock = "claimShallow" /\ lock' = "claimed"
     \/ lock = "refundShallow" /\ lock' = "refunded"
  /\ Disturb
  /\ UNCHANGED <<row, lockup, refunds, still>>

Chain == MineLock \/ Bury \/ \E i \in 1..MaxRefunds : MineRefund(i)

----------------------------------------------------------------------------
ClientFunds ==
  /\ \/ lockup = "none" /\ lockup' \in {"short", "funded"}
     \/ lockup = "short" /\ lockup' = "funded"
  /\ clock < RefundAt
  /\ Disturb
  /\ UNCHANGED <<row, lock, refunds, still>>

(* The contract takes a claim for as long as the lock is there. *)
ClientClaims ==
  /\ Present
  /\ lock' = "claimShallow"
  /\ Disturb
  /\ UNCHANGED <<row, lockup, refunds, still>>

ClientReclaims ==
  /\ lockup \in {"short", "funded"} /\ clock >= RefundAt
  /\ lockup' = "reclaimed"
  /\ UNCHANGED <<row, job, lock, refunds, rested, still>>

(* EVM_ORDER_MARGIN_SECONDS before the client's deadline, between the two     *)
(* timeouts, is time enough for the chain to settle and for one whole tick.   *)
Settled ==
  /\ lock \notin {"pending", "shallow", "claimShallow", "refundShallow"}
  /\ \A i \in DOMAIN refunds : refunds[i] # "pending"
  /\ \A d \in Running : At(d, "idle")
  /\ rested \/ (row.state \notin Live /\ ~findClosedOverLock)

(* No tick takes as long as EVM_MIN_CLAIM_WINDOW_SECONDS to send its lock.    *)
Advance ==
  /\ clock < MaxTime
  /\ clock + 1 = EvmTimeout => \A d \in Running : job[d].pc \notin {"approve", "sendLock"}
  /\ clock + 1 = RefundAt => Settled
  /\ clock' = clock + 1
  /\ rested' = (clock + 1 >= RefundAt /\ rested)
  /\ job' = [d \in Running |-> [job[d] EXCEPT !.fresh = FALSE]]
  /\ UNCHANGED <<row, world, sweeper, faults>>

----------------------------------------------------------------------------
DriverStep(d) ==
  \/ Tick(d) \/ Observe(d) \/ Reread(d) \/ Refuse(d) \/ Stick(d)
  \/ LockAgain(d) \/ ToLocking(d) \/ SendLock(d) \/ PatchLock(d) \/ ToAwaitingClaim(d)
  \/ ToClaiming(d) \/ claimArkade(d) \/ MarkClaimed(d)
  \/ ToRefunding(d) \/ SendRefund(d) \/ claimRefundTxid(d) \/ RecordRefund(d)

SweepStep == refundSweep \/ SweepRefund \/ SweepPatch

Faults == SweepAbandon \/ LockReverts \/ Reorg \/ \E d \in Driver : Abandon(d)

Client == ClientFunds \/ ClientClaims \/ ClientReclaims

Next == \/ SweepStep \/ watchLateLocks \/ Faults \/ Client \/ Chain \/ Advance
        \/ \E d \in Driver : DriverStep(d)

Spec == Init /\ [][Next]_vars

(* Ticks, sweeps and blocks keep coming and time passes; clients are not fair. *)
Fairness ==
  /\ \A d \in Driver : WF_vars(DriverStep(d))
  /\ WF_vars(SweepStep) /\ WF_vars(watchLateLocks) /\ WF_vars(Chain) /\ SF_vars(Advance)

FairSpec == Spec /\ Fairness
----------------------------------------------------------------------------
(* Every variable keeps its type. *)
TypeOK ==
  /\ row \in Row
  /\ Running \in Fleets /\ job \in [Running -> Job]
  /\ sweeper \in {"idle", "refund", "patch"}
  /\ lockup \in {"none", "short", "funded", "claimed", "returned", "reclaimed"}
  /\ lock \in LockStages
  /\ refunds \in Seq(Outcomes) /\ Len(refunds) <= MaxRefunds
  /\ rested \in BOOLEAN
  /\ clock \in Nat /\ faults \in Nat

(* A client that took the tokens gets its sats back only where a block was    *)
(* replaced under a refund the row had already recorded; and then the row     *)
(* carries the preimage, for the operator watchLateLocks warns.               *)
ClaimsNeverLost ==
  lock = "claimed" /\ lockup = "reclaimed" => row.state = "refunded" /\ row.preimage

(* What the row says happened, happened, whatever was stale when it was       *)
(* decided: a refused swap has no lock, a preimage on the row opened it.      *)
RowTellsTheTruth ==
  /\ row.state = "refused" => lock = "none"
  /\ row.state = "claimed" => lockup = "claimed"
  /\ row.preimage => lock = "claimed"
  /\ row.outcome = "pushed" => lockup = "returned"
  /\ row.outcome = "external" => lockup \in {"claimed", "returned", "reclaimed"}

(* The two legs as the abstract swap sees them: taken and withdrawn are what  *)
(* no reorganisation undoes.                                                  *)
ClientLeg ==
  CASE lockup = "none" -> "none"
    [] lockup \in {"short", "funded"} -> "locked"
    [] lockup = "claimed" -> "collected"
    [] lockup = "returned" -> "returned"
    [] lockup = "reclaimed" -> "clawedBack"
PayoutLeg ==
  CASE lock = "none" -> "none"
    [] lock = "claimed" -> "taken"
    [] lock \in {"refunded", "reverted"} -> "withdrawn"
    [] OTHER -> "offered"
Swap == INSTANCE AtomicSwap WITH client <- ClientLeg, payout <- PayoutLeg

(* Every step, with two processes, stale observations, crashes between a      *)
(* broadcast and its record and replaced blocks, is a step of the abstract    *)
(* swap or none at all.                                                       *)
ImplementsAtomicSwap == Swap!Spec

(* Tokens locked for good do not stay on an open row, as long as one process  *)
(* at a time drives it: claimed, refunded, or an operator is called.          *)
LockedResolves == lock = "deep" /\ Cardinality(Running) = 1 ~> row.state \notin Live

(* A lockup on a refused swap goes back, however late it was funded. *)
RefusedIsReturned ==
  row.state = "refused" /\ lockup \in {"short", "funded"} ~> lockup \notin {"short", "funded"}

----------------------------------------------------------------------------
(* Types, a client's claim that is never lost to the row, and a row that says what happened. *)
EvmSendIsSafe == TypeOK /\ ClaimsNeverLost /\ RowTellsTheTruth
(* A lock resolves, and a refused lockup returns. *)
EvmSendEnds == LockedResolves /\ RefusedIsReturned
============================================================================
