----------------------------- MODULE EvmReceive -----------------------------
(***************************************************************************)
(* The EVM receive corridor, one swap of it.  The client locks tokens in   *)
(* the ERC20 swap contract; the solver funds an Arkade lockup with its own *)
(* sats; the client's claim of those reveals the preimage the solver       *)
(* claims the tokens with.  Sats nobody claims go back to the solver after *)
(* the lockup's deadline, which comes before the client may take the       *)
(* tokens back.                                                            *)
(*                                                                         *)
(* As in EvmSend, an action is the code between two awaits of a tick, one  *)
(* clock serves for seconds and block heights, and losing a transition     *)
(* throws.                                                                 *)
(***************************************************************************)
EXTENDS Naturals, Sequences, FiniteSets

CONSTANTS
  EvmDriver,    \* the processes that may tick the row
  Fleets,       \* the sets of them that may be running
  ValidUntil,   \* the quote's deadline
  EvmRefundAt,  \* the Arkade lockup's refundLocktime
  EvmFundStop,  \* EVM_RECEIVE_CLAIM_MARGIN_BLOCKS before the client's timeout
  EvmTimeout,   \* from here on the contract lets the client refund
  EvmMaxTime,   \* bound on the clock
  MaxClaims,    \* bound on the claim transactions sent
  EvmMaxFaults  \* bound on crashes, failed calls and reorganisations

(* quote() puts the lockup's deadline EVM_ORDER_MARGIN_SECONDS before the     *)
(* client's timeout, and the fund window closes before it.                    *)
DeadlinesOrdered ==
  /\ {ValidUntil, EvmRefundAt, EvmFundStop, EvmTimeout, EvmMaxTime, MaxClaims, EvmMaxFaults} \subseteq Nat
  /\ EvmRefundAt < EvmTimeout /\ EvmFundStop <= EvmTimeout

VARIABLES
  evmRow,    \* the receive_evm_swap row
  evmJob,    \* per running process: the tick in progress
  lock,      \* the client's ERC20 lock
  payout,    \* the solver's Arkade lockup
  fundings,  \* how often it was funded
  claims,    \* the claim transactions sent, in order
  rested,    \* a whole tick has found nothing to do since something last happened
  evmClock,
  evmFaults

evmVars == <<evmRow, evmJob, lock, payout, fundings, claims, rested, evmClock, evmFaults>>

EvmStates == {"quoted", "awaiting_lock", "locked", "funding_arkade", "awaiting_claim", "claiming",
           "claimed", "refunding_arkade", "refunded", "refused", "stuck"}
EvmLive == {"quoted", "awaiting_lock", "locked", "funding_arkade", "awaiting_claim", "claiming",
         "refunding_arkade"}
EvmExposed == {"funding_arkade", "awaiting_claim", "claiming", "refunding_arkade"}
Outcomes == {"pending", "success", "reverted"}

EvmRow == [state : EvmStates, claimTx : 0..MaxClaims, preimage : BOOLEAN]
EvmNewRow == [state |-> "quoted", claimTx |-> 0, preimage |-> FALSE]

Plans == {"wait", "refuse", "stick", "fund_arkade", "await_claim", "claim_evm", "record_claim", "refund_arkade"}
EvmSteps == Plans \cup {"idle", "observe", "reread", "toFunding", "fund", "sendClaim", "patchClaim",
                     "refund", "markRefunded"}

(* The first round of reads: the contract, the lockup, the receipt, the clock. *)
Glance == [present : BOOLEAN, funded : BOOLEAN, claim : Outcomes, height : Nat]
Blank == [present |-> FALSE, funded |-> FALSE, claim |-> "pending", height |-> 0]

EvmJob == [pc : EvmSteps, row : EvmRow, seen : Glance, tx : 0..MaxClaims, fresh : BOOLEAN]
EvmIdle == [pc |-> "idle", row |-> EvmNewRow, seen |-> Blank, tx |-> 0, fresh |-> FALSE]

EvmReceiveInit ==
  /\ evmRow = EvmNewRow
  /\ \E fleet \in Fleets : evmJob = [d \in fleet |-> EvmIdle]
  /\ lock = "none"
  /\ payout = "none"
  /\ fundings = 0
  /\ claims = <<>>
  /\ rested = FALSE
  /\ evmClock = 0
  /\ evmFaults = 0

----------------------------------------------------------------------------
Running == DOMAIN evmJob
EvmAt(d, pc) == d \in Running /\ evmJob[d].pc = pc
EvmGoto(d, pc) == evmJob' = [evmJob EXCEPT ![d].pc = pc] /\ UNCHANGED rested

(* The tick ends with nothing to do, having seen the latest of the swap or not. *)
EvmDone(d) ==
  /\ evmJob' = [evmJob EXCEPT ![d] = EvmIdle]
  /\ rested' = (rested \/ evmJob[d].fresh)

(* Mutant: an UPDATE without its WHERE state = from. *)
EvmWonAlways(from) == TRUE
EvmWon(from) == evmRow.state = from
Throw(d) == evmJob' = [evmJob EXCEPT ![d] = EvmIdle] /\ UNCHANGED <<evmRow, rested>>

(* A transition that moves on to pc, or throws; and one the tick ends with. *)
evmTransition(d, from, new, pc) == IF EvmWon(from) THEN evmRow' = new /\ EvmGoto(d, pc) ELSE Throw(d)
conclude(d, from, new) ==
  IF EvmWon(from) THEN evmRow' = new /\ evmJob' = [evmJob EXCEPT ![d] = EvmIdle] /\ UNCHANGED rested ELSE Throw(d)

(* Something happened that no tick in progress has seen from its start. *)
Disturb ==
  /\ rested' = FALSE
  /\ evmJob' = [d \in Running |-> [evmJob[d] EXCEPT !.fresh = FALSE]]

world == <<lock, payout, fundings, claims>>
still == <<evmClock, evmFaults>>

----------------------------------------------------------------------------
EvmTick(d) ==
  /\ EvmAt(d, "idle") /\ evmRow.state \in EvmLive
  /\ evmJob' = [evmJob EXCEPT ![d] = [EvmIdle EXCEPT !.pc = "observe", !.row = evmRow, !.fresh = TRUE]]
  /\ UNCHANGED <<evmRow, world, rested, still>>

(* A lockup counts as funded when it was, spent or not. *)
arkadeLockupFunded == payout # "none"
claimOutcome(r) == IF r.claimTx = 0 THEN "pending" ELSE claims[r.claimTx]

Observe(d) ==
  /\ EvmAt(d, "observe")
  /\ evmJob' = [evmJob EXCEPT ![d].pc = "reread",
                        ![d].seen = [present |-> lock \in {"shallow", "deep"},
                                     funded |-> arkadeLockupFunded,
                                     claim |-> claimOutcome(evmJob[d].row),
                                     height |-> evmClock]]
  /\ UNCHANGED <<evmRow, world, rested, still>>

(* The preimage is asked for where the first round saw a funded lockup. *)
arkadePreimage(r, s) == r.preimage \/ (s.funded /\ payout = "claimed")

(* provenDepth: present now and already minConfirmations and minAgeSeconds    *)
(* ago.                                                                       *)
Proven(s) == s.present /\ lock = "deep"

evmReceiveFundWindowClosed(height) == height >= EvmFundStop

(* planEvmReceive with the preimage known. *)
whenRevealed(r, s) ==
  CASE r.claimTx # 0 /\ s.claim = "success" -> "record_claim"
    [] (r.claimTx = 0 \/ s.claim # "success") /\ s.height >= EvmTimeout -> "stick"
    [] r.claimTx # 0 /\ s.claim # "success" /\ s.height < EvmTimeout ->
         IF s.claim = "reverted" THEN "stick" ELSE "wait"
    [] OTHER -> "claim_evm"

(* A refund is driven again for as long as the lockup reads as funded.  *)
(* Mutant: not at all.                                                  *)
whenRefundingOnce(s) == "wait"
whenRefunding(s) == IF s.funded THEN "refund_arkade" ELSE "wait"

planEvmReceive(r, s, preimage, now) ==
  CASE preimage -> whenRevealed(r, s)
    [] ~preimage /\ r.state \in {"quoted", "awaiting_lock"} ->
         IF now >= ValidUntil THEN "refuse"
         ELSE IF ~Proven(s) THEN "wait"
         ELSE IF evmReceiveFundWindowClosed(s.height) THEN "refuse" ELSE "fund_arkade"
    [] ~preimage /\ r.state = "locked" -> "fund_arkade"
    [] ~preimage /\ r.state = "funding_arkade" -> IF s.funded THEN "await_claim" ELSE "wait"
    [] ~preimage /\ r.state = "awaiting_claim" -> IF now >= EvmRefundAt THEN "refund_arkade" ELSE "wait"
    [] ~preimage /\ r.state = "refunding_arkade" -> whenRefunding(s)
    [] OTHER -> "wait"

Reread(d) ==
  /\ EvmAt(d, "reread")
  /\ LET r == evmJob[d].row
         s == evmJob[d].seen
         preimage == arkadePreimage(r, s)
         plan == planEvmReceive(r, s, preimage, evmClock)
     IN IF plan = "wait" THEN EvmDone(d) ELSE EvmGoto(d, plan)
  /\ UNCHANGED <<evmRow, world, still>>

----------------------------------------------------------------------------
(* Mutant: a state the store does not have. *)
RefuseAsExpired(d) ==
  /\ EvmAt(d, "refuse")
  /\ conclude(d, evmJob[d].row.state, [evmRow EXCEPT !.state = "expired"])
  /\ UNCHANGED <<world, still>>

Refuse(d) ==
  /\ EvmAt(d, "refuse")
  /\ conclude(d, evmJob[d].row.state, [evmRow EXCEPT !.state = "refused"])
  /\ UNCHANGED <<world, still>>

Stick(d) ==
  /\ EvmAt(d, "stick")
  /\ conclude(d, evmJob[d].row.state, [evmRow EXCEPT !.state = "stuck"])
  /\ UNCHANGED <<world, still>>

(* fund_arkade: the window is looked at once more, on a height read now.  *)
(* Mutant: the planner's look is enough.                                  *)
FundWindowUnread(d) ==
  /\ EvmAt(d, "fund_arkade")
  /\ EvmGoto(d, "toFunding")
  /\ UNCHANGED <<evmRow, world, still>>

FundWindow(d) ==
  /\ EvmAt(d, "fund_arkade")
  /\ EvmGoto(d, IF evmReceiveFundWindowClosed(evmClock) THEN "refuse" ELSE "toFunding")
  /\ UNCHANGED <<evmRow, world, still>>

(* Exposure is recorded before the sats go out. *)
ToFunding(d) ==
  /\ EvmAt(d, "toFunding")
  /\ evmTransition(d, evmJob[d].row.state, [evmRow EXCEPT !.state = "funding_arkade"], "fund")
  /\ UNCHANGED <<world, still>>

(* The txid recorded after it is nobody's evidence. *)
fundArkade(d) ==
  /\ EvmAt(d, "fund")
  /\ fundings' = fundings + 1
  /\ payout' = "out"
  /\ rested' = FALSE
  /\ evmJob' = [e \in Running |-> IF e = d THEN EvmIdle ELSE [evmJob[e] EXCEPT !.fresh = FALSE]]
  /\ UNCHANGED <<evmRow, lock, claims, still>>

ToAwaitingClaim(d) ==
  /\ EvmAt(d, "await_claim")
  /\ conclude(d, evmJob[d].row.state, [evmRow EXCEPT !.state = "awaiting_claim"])
  /\ UNCHANGED <<world, still>>

----------------------------------------------------------------------------
(* claim_evm: the preimage first, then the claim, then its txid. *)
EvmToClaiming(d) ==
  /\ EvmAt(d, "claim_evm")
  /\ IF evmJob[d].row.state = "claiming" THEN EvmGoto(d, "sendClaim") /\ UNCHANGED evmRow
     ELSE evmTransition(d, evmJob[d].row.state, [evmRow EXCEPT !.state = "claiming", !.preimage = TRUE], "sendClaim")
  /\ UNCHANGED <<world, still>>

SendClaim(d) ==
  /\ EvmAt(d, "sendClaim") /\ Len(claims) < MaxClaims
  /\ claims' = Append(claims, "pending")
  /\ evmJob' = [evmJob EXCEPT ![d].pc = "patchClaim", ![d].tx = Len(claims) + 1]
  /\ UNCHANGED <<evmRow, lock, payout, fundings, rested, still>>

PatchClaim(d) ==
  /\ EvmAt(d, "patchClaim")
  /\ evmRow' = [evmRow EXCEPT !.claimTx = evmJob[d].tx]
  /\ evmJob' = [evmJob EXCEPT ![d] = EvmIdle]
  /\ UNCHANGED <<world, rested, still>>

RecordClaim(d) ==
  /\ EvmAt(d, "record_claim")
  /\ conclude(d, "claiming", [evmRow EXCEPT !.state = "claimed"])
  /\ UNCHANGED <<world, still>>

----------------------------------------------------------------------------
EvmToRefunding(d) ==
  /\ EvmAt(d, "refund_arkade")
  /\ IF evmJob[d].row.state = "refunding_arkade" THEN EvmGoto(d, "refund") /\ UNCHANGED evmRow
     ELSE evmTransition(d, evmJob[d].row.state, [evmRow EXCEPT !.state = "refunding_arkade"], "refund")
  /\ UNCHANGED <<world, still>>

(* refundArkade: with nothing spendable at the script it throws. *)
refundArkade(d) ==
  /\ EvmAt(d, "refund")
  /\ IF payout = "out" THEN payout' = "refunded" /\ EvmGoto(d, "markRefunded")
     ELSE UNCHANGED payout /\ EvmDone(d)
  /\ UNCHANGED <<evmRow, lock, fundings, claims, still>>

MarkRefunded(d) ==
  /\ EvmAt(d, "markRefunded")
  /\ conclude(d, "refunding_arkade", [evmRow EXCEPT !.state = "refunded"])
  /\ UNCHANGED <<world, still>>

----------------------------------------------------------------------------
Fault == evmFaults < EvmMaxFaults /\ evmFaults' = evmFaults + 1

(* A call throws or the process dies; a broadcast may have got through. *)
EvmAbandon(d) ==
  /\ d \in Running /\ ~EvmAt(d, "idle") /\ Fault
  /\ rested' = FALSE
  /\ evmJob' = [evmJob EXCEPT ![d] = EvmIdle]
  /\ UNCHANGED <<evmRow, world, evmClock>>

(* The block of a lock that is not deep yet is replaced. *)
EvmReorg ==
  /\ lock = "shallow" /\ Fault
  /\ lock' = "none"
  /\ Disturb
  /\ UNCHANGED <<evmRow, payout, fundings, claims, evmClock>>

Bury ==
  /\ lock = "shallow"
  /\ lock' = "deep"
  /\ Disturb
  /\ UNCHANGED <<evmRow, payout, fundings, claims, still>>

MineClaim(i) ==
  /\ i \in DOMAIN claims /\ claims[i] = "pending"
  /\ \A j \in 1..(i - 1) : claims[j] # "pending"
  /\ claims' = [claims EXCEPT ![i] = IF lock \in {"shallow", "deep"} THEN "success" ELSE "reverted"]
  /\ lock' = IF lock \in {"shallow", "deep"} THEN "claimed" ELSE lock
  /\ Disturb
  /\ UNCHANGED <<evmRow, payout, fundings, still>>

Chain == Bury \/ \E i \in 1..MaxClaims : MineClaim(i)

----------------------------------------------------------------------------
ClientLocks ==
  /\ lock = "none" /\ evmClock < EvmTimeout
  /\ lock' = "shallow"
  /\ Disturb
  /\ UNCHANGED <<evmRow, payout, fundings, claims, still>>

EvmClientClaims ==
  /\ payout = "out"
  /\ payout' = "claimed"
  /\ Disturb
  /\ UNCHANGED <<evmRow, lock, fundings, claims, still>>

(* A lock nobody could rely on yet is gone as if it had never been. *)
ClientRefunds ==
  /\ lock \in {"shallow", "deep"} /\ evmClock >= EvmTimeout
  /\ lock' = IF lock = "deep" THEN "clientRefunded" ELSE "none"
  /\ Disturb
  /\ UNCHANGED <<evmRow, payout, fundings, claims, still>>

(* Between the lockup's deadline and the client's timeout, and from the last  *)
(* look at the fund window on, there is time for a funding, a claim and the   *)
(* ticks they call for to land: what the two margins of the plan are for.     *)
Settled ==
  /\ \A i \in DOMAIN claims : claims[i] # "pending"
  /\ \A d \in Running : evmJob[d].pc \in {"idle", "observe", "reread", "fund_arkade"}
  /\ rested \/ evmRow.state \notin EvmExposed

EvmAdvance ==
  /\ evmClock < EvmMaxTime
  /\ evmClock + 1 = EvmTimeout => Settled
  /\ evmClock' = evmClock + 1
  /\ rested' = (evmClock + 1 >= EvmTimeout /\ rested)
  /\ evmJob' = [d \in Running |-> [evmJob[d] EXCEPT !.fresh = FALSE]]
  /\ UNCHANGED <<evmRow, world, evmFaults>>

----------------------------------------------------------------------------
EvmDriverStep(d) ==
  \/ EvmTick(d) \/ Observe(d) \/ Reread(d) \/ Refuse(d) \/ Stick(d)
  \/ FundWindow(d) \/ ToFunding(d) \/ fundArkade(d) \/ ToAwaitingClaim(d)
  \/ EvmToClaiming(d) \/ SendClaim(d) \/ PatchClaim(d) \/ RecordClaim(d)
  \/ EvmToRefunding(d) \/ refundArkade(d) \/ MarkRefunded(d)

EvmFaults == EvmReorg \/ \E d \in EvmDriver : EvmAbandon(d)

EvmClient == ClientLocks \/ EvmClientClaims \/ ClientRefunds

EvmReceiveNext == EvmFaults \/ EvmClient \/ Chain \/ EvmAdvance \/ \E d \in EvmDriver : EvmDriverStep(d)

EvmReceiveSpec == EvmReceiveInit /\ [][EvmReceiveNext]_evmVars

(* Ticks and blocks keep coming and time passes; clients are not fair. *)
EvmReceiveFairness == WF_evmVars(Chain) /\ SF_evmVars(EvmAdvance) /\ \A d \in EvmDriver : WF_evmVars(EvmDriverStep(d))

FairEvmReceiveSpec == EvmReceiveSpec /\ EvmReceiveFairness

----------------------------------------------------------------------------
(* Every variable keeps its type. *)
EvmTypeOK ==
  /\ evmRow \in EvmRow
  /\ Running \in Fleets /\ evmJob \in [Running -> EvmJob]
  /\ lock \in {"none", "shallow", "deep", "claimed", "clientRefunded"}
  /\ payout \in {"none", "out", "claimed", "refunded"}
  /\ fundings \in Nat
  /\ claims \in Seq(Outcomes) /\ Len(claims) <= MaxClaims
  /\ rested \in BOOLEAN
  /\ evmClock \in Nat /\ evmFaults \in Nat

(* However many processes tick the row and wherever one of them dies, the     *)
(* solver pays out once.                                                      *)
FundedOnce == fundings <= 1

(* The client never has both the sats and its tokens: the solver funds early  *)
(* enough, and every claim of the sats is seen in time, a lost broadcast and  *)
(* a crash before its record included.                                        *)
NeverPaidForNothing == payout = "claimed" => lock # "clientRefunded"

(* What the row says happened, happened. *)
EvmRowTellsTheTruth ==
  /\ evmRow.state = "claimed" => lock = "claimed"
  /\ evmRow.state = "refunded" => payout = "refunded"
  /\ evmRow.state = "refused" => payout = "none"
  /\ evmRow.preimage => payout = "claimed"

(* The two legs as the abstract swap sees them; a lock that may still be      *)
(* reorganised away is none.                                                  *)
EvmClientLeg ==
  CASE lock \in {"none", "shallow"} -> "none"
    [] lock = "deep" -> "locked"
    [] lock = "claimed" -> "collected"
    [] lock = "clientRefunded" -> "clawedBack"
EvmPayoutLeg ==
  CASE payout = "none" -> "none"
    [] payout = "out" -> "offered"
    [] payout = "claimed" -> "taken"
    [] payout = "refunded" -> "withdrawn"
EvmSwap == INSTANCE AtomicSwap WITH client <- EvmClientLeg, payout <- EvmPayoutLeg

(* Every step, with two processes, stale observations, crashes and lost       *)
(* broadcasts, is a step of the abstract swap or none at all: sats only       *)
(* against tokens that cannot vanish, tokens only for sats taken.             *)
EvmImplementsAtomicSwap == EvmSwap!Spec

(* The solver's sats do not stay at the script, as long as one process at a   *)
(* time drives the row: the client takes them or the solver takes them back.  *)
PayoutComesBack == payout = "out" /\ Cardinality(Running) = 1 ~> payout # "out"

(* Stated by core/evmReceivePlan.ts of a refunding row: "A funded lockup HERE *)
(* is that unspent covenant", so driving the refund again ends it.            *)
RefundIsRecorded == payout = "refunded" ~> evmRow.state = "refunded"

(* Stated by the reason core/evmReceivePlan.ts parks a row with after a       *)
(* reverted claim: "the solver has not been paid".                            *)
StuckIsUnpaid == evmRow.state = "stuck" /\ evmClock < EvmTimeout => lock # "claimed"

----------------------------------------------------------------------------
(* Types, one funding of the payout, no payout claimed for a lock the client took back, and a row that
   says what happened. *)
EvmReceiveIsSafe == EvmTypeOK /\ FundedOnce /\ NeverPaidForNothing /\ EvmRowTellsTheTruth
============================================================================
