----------------------------- MODULE OnchainSend -----------------------------
(***************************************************************************)
(* The onchain send corridor, one swap of it.  The client locks sats at an *)
(* Arkade script; the solver funds an HTLC on the chain with its own; the  *)
(* client's claim of that HTLC reveals the preimage the solver claims the  *)
(* lockup with.  An HTLC nobody claims is refunded to the solver after its *)
(* locktime, and only then is the client's lockup released.                *)
(*                                                                         *)
(* As in LightningSend, a driver is one process, each action is the code   *)
(* between two awaits of its tick, and the tick works on the row it read.  *)
(* Two processes have two in-flight guards, so between them stand only the *)
(* row's compare-and-swaps, the funding lease and the recorded funding.    *)
(* The chain, the Arkade server and the client are the environment.        *)
(***************************************************************************)
EXTENDS Integers, FiniteSets

CONSTANTS
  Driver,        \* the processes that tick the row
  Legacies,      \* whether the row may be one funded before funding_tx was a column
  LockBy,        \* createdAt + DEFAULT_ONCHAIN_LOCKUP_TIMEOUT
  FundStop,      \* from here on evaluateOnchainSendFunding refuses
  RefundTxAt,    \* htlcLocktime + HTLC_REFUND_MTP_MARGIN
  RefundAt,      \* the Arkade lockup's refundLocktime
  LeaseTtl,      \* FUND_LEASE_TTL_SECONDS
  ReleaseDelay,  \* CLIENT_LOCKUP_RELEASE_DELAY_SECONDS, longer than a reorg
  RecheckAfter,  \* UNKNOWN_LOCKUP_RECHECK_SECONDS
  MaxTime,       \* bound on the clock
  MaxSigned,     \* bound on the funding transactions signed
  MaxReclaims,   \* bound on the operator's reclaims, 0 or 1
  Version,       \* the fee levels a refund may be signed at, a set of numbers
  MaxFaults      \* bound on crashes, failed calls, reorganisations and restarts

ASSUME OnchainAssumption ==
  /\ {LockBy, FundStop, RefundTxAt, RefundAt, LeaseTtl, ReleaseDelay, RecheckAfter,
      MaxTime, MaxSigned, MaxReclaims, MaxFaults} \subseteq Nat
  /\ FundStop <= RefundTxAt /\ RefundTxAt < RefundAt
  /\ Version \subseteq Nat \ {0} /\ IsFiniteSet(Version)
  /\ Legacies \subseteq BOOLEAN
  /\ IsFiniteSet(Driver)

VARIABLES
  row,       \* the send_onchain_swap row
  job,       \* per driver: the tick in progress
  operator,  \* reclaimOnchainHtlc, asked for by hand: what it read before it has the slot
  sweeper,   \* refundSweep
  lockup,    \* what is at the client's Arkade lockup script
  htlc,      \* the funding transactions, and what became of their HTLC output
  signed,    \* how many funding transactions were signed
  rotated,   \* the provider key was changed since the quote
  clock,
  faults

vars == <<row, job, operator, sweeper, lockup, htlc, signed, rotated, clock, faults>>

----------------------------------------------------------------------------
OnchainSendMachine ==
  [quoted |-> {"funded", "refused"},
   funded |-> {"funding_onchain", "refused"},
   funding_onchain |-> {"awaiting_claim", "refused", "stuck"},
   awaiting_claim |-> {"claiming", "refunding_onchain", "stuck"},
   claiming |-> {"claimed", "stuck"},
   refunding_onchain |-> {"claiming", "refunded", "stuck"},
   claimed |-> {},
   refunded |-> {},
   refused |-> {},
   stuck |-> {"claiming"}]
States == DOMAIN OnchainSendMachine
Live == {"quoted", "funded", "funding_onchain", "awaiting_claim", "claiming", "refunding_onchain"}
Exposed == {"funding_onchain", "awaiting_claim", "claiming", "refunding_onchain"}

(* The lockup: short of the amount, the amount, above it, on an output no    *)
(* claim can spend, in too many outputs, on one that expires too early, or   *)
(* what a refund of too many left; and how it may have been spent.           *)
Held == {"partial", "exact", "over", "asset", "many", "early", "leftover"}
Spent == {"claimed", "claimPending", "refunded", "reclaimed"}
Covers == {"exact", "over"}

(* Transaction 0 is what an earlier release funded without recording it. *)
NoTx == -1
Tx == 0..MaxSigned
Never == -1
NoVersion == 0
Kinds == {"none", "out", "claiming", "claimed", "refunding", "refunded"}
Unspent == [kind |-> "none", ver |-> NoVersion, at |-> Never]

Row == [state : States, lease : Int, fundingTx : Int, fundingTxid : Int,
        preimage : BOOLEAN, refunds : SUBSET Version, updated : Int,
        outcome : {"none", "pushed", "external"}]

NewRow == [state |-> "quoted", lease |-> Never, fundingTx |-> NoTx, fundingTxid |-> NoTx,
           preimage |-> FALSE, refunds |-> {}, updated |-> 0, outcome |-> "none"]
LegacyRow == [NewRow EXCEPT !.state = "funding_onchain", !.lease = 0]

Steps == {"idle", "step", "failQuoted", "fund", "enter", "lease", "submit", "record", "release",
          "publish", "broadcast", "toAwaiting", "toRefunding", "toClaiming", "failSpent",
          "witness", "push", "sendRefund", "toRefunded", "claim", "evidence", "markClaimed"}

(* One tick: the row it read, whether it entered funding itself, whether it   *)
(* re-drives a recorded funding, the funding and refund transactions it holds, *)
(* and for whom it refunds: the tick, a replacement, the operator.            *)
Job == [pc : Steps, row : Row, fresh : BOOLEAN, recheck : BOOLEAN, tx : Int,
        ver : Version \cup {NoVersion}, mode : {"tick", "replace", "operator"}]
Idle == [pc |-> "idle", row |-> NewRow, fresh |-> FALSE, recheck |-> FALSE, tx |-> NoTx,
         ver |-> NoVersion, mode |-> "tick"]

Rest == [pc |-> "idle", seen |-> "none", parked |-> -RecheckAfter]

Init ==
  /\ \E legacy \in Legacies :
       /\ row = IF legacy THEN LegacyRow ELSE NewRow
       /\ lockup = IF legacy THEN "exact" ELSE "none"
       /\ htlc = [t \in Tx |-> IF t = 0 /\ legacy THEN [Unspent EXCEPT !.kind = "out"] ELSE Unspent]
  /\ job = [d \in Driver |-> Idle]
  /\ operator = [pc |-> "idle", row |-> NewRow, replace |-> FALSE]
  /\ sweeper = Rest
  /\ signed = 0
  /\ rotated = FALSE
  /\ clock = 0
  /\ faults = 0

----------------------------------------------------------------------------
(* Store operations.  Every write stamps updated_at. *)
write(new) == row' = [new EXCEPT !.updated = clock]

(* Mutant: an UPDATE without its WHERE state = from. *)
WonAlways(from) == TRUE
Won(from) == row.state = from
transition(from, new) == IF Won(from) THEN write(new) ELSE UNCHANGED row

(* Mutant: a state the machine does not have. *)
failStateUnknown(from) == IF from \in Exposed THEN "stuck" ELSE "failed"
failState(from) == IF from \in Exposed THEN "stuck" ELSE "refused"
fail(from) == transition(from, [row EXCEPT !.state = failState(from)])

(* recordFundingTx: the one place a funding becomes ours to broadcast. *)
(* Mutant: records over what another worker recorded.                  *)
MayRecordOver == row.state = "funding_onchain"
MayRecord == row.state = "funding_onchain" /\ row.fundingTx = NoTx

(* The last instant of the bounded clock stands for all the time after it. *)
Elapsed(since, delay) == since + delay <= clock \/ clock = MaxTime

(* claimFundLease: free, or held for longer than the TTL.  Mutant: no TTL. *)
LeaseFreeForever == row.lease = Never
LeaseFree == row.lease = Never \/ Elapsed(row.lease, LeaseTtl)

At(d, pc) == job[d].pc = pc
AtState(d, s) == At(d, "step") /\ job[d].row.state = s
Goto(d, pc) == job' = [job EXCEPT ![d].pc = pc]
Done(d) == job' = [job EXCEPT ![d] = Idle]
Then(d, won, pc) == job' = [job EXCEPT ![d] = IF won THEN [@ EXCEPT !.pc = pc] ELSE Idle]

chain == <<htlc, signed>>
others == <<operator, sweeper, rotated, clock, faults>>

----------------------------------------------------------------------------
Tick(d) ==
  /\ At(d, "idle") /\ row.state \in Live
  /\ job' = [job EXCEPT ![d] = [Idle EXCEPT !.pc = "step", !.row = row]]
  /\ UNCHANGED <<row, lockup, chain, others>>

(* whenQuoted: what is at the script decides, then the clock. *)
whenQuoted(d) ==
  /\ AtState(d, "quoted")
  /\ job' = [job EXCEPT ![d] =
       IF lockup \in {"over", "many", "asset"} \/ clock >= LockBy \/ lockup = "early"
         THEN [@ EXCEPT !.pc = "failQuoted"]
       ELSE IF lockup = "exact" THEN [@ EXCEPT !.pc = "fund"]
       ELSE Idle]
  /\ UNCHANGED <<row, lockup, chain, others>>

FailQuoted(d) ==
  /\ At(d, "failQuoted")
  /\ fail("quoted")
  /\ Done(d)
  /\ UNCHANGED <<lockup, chain, others>>

Fund(d) ==
  /\ At(d, "fund")
  /\ transition("quoted", [row EXCEPT !.state = "funded"])
  /\ Done(d)
  /\ UNCHANGED <<lockup, chain, others>>

(* fundingRefusal and lockupShortfall. *)
(* Mutant: an entry that never looks at the clock again. *)
RefusesAnyTime == rotated \/ lockup \notin Held \ {"partial", "leftover"}
Refuses == rotated \/ clock >= FundStop \/ lockup \notin Held \ {"partial", "leftover"}

(* whenFunded: the gates, the approval, the lockup once more. *)
whenFunded(d) ==
  /\ AtState(d, "funded")
  /\ \/ Refuses /\ fail("funded") /\ Done(d)
     \/ ~Refuses /\ UNCHANGED row /\ Goto(d, "enter")
     \/ ~Refuses /\ UNCHANGED row /\ Done(d)
  /\ UNCHANGED <<lockup, chain, others>>

(* enterFunding takes the lease with the state; the row is read again. *)
EnterFunding(d) ==
  /\ At(d, "enter")
  /\ transition("funded", [row EXCEPT !.state = "funding_onchain", !.lease = clock])
  /\ job' = [job EXCEPT ![d] = IF Won("funded")
                               THEN [@ EXCEPT !.pc = "submit", !.row = row', !.fresh = TRUE] ELSE Idle]
  /\ UNCHANGED <<lockup, chain, others>>

----------------------------------------------------------------------------
(* recoverFunding: a recorded funding is sent again and nothing is signed;   *)
(* else an output of the amount at the HTLC's address is ours to adopt.      *)
recoverFunding(d) ==
  /\ AtState(d, "funding_onchain")
  /\ job' = [job EXCEPT ![d] =
       IF @.row.fundingTx # NoTx
         THEN [@ EXCEPT !.pc = "publish", !.tx = job[d].row.fundingTx, !.recheck = TRUE]
       ELSE IF \E t \in Tx : htlc[t].kind # "none"
         THEN [@ EXCEPT !.pc = "toAwaiting", !.tx = CHOOSE t \in Tx : htlc[t].kind # "none"]
       ELSE [@ EXCEPT !.pc = "lease"]]
  /\ UNCHANGED <<row, lockup, chain, others>>

claimFundLease(d) ==
  /\ At(d, "lease")
  /\ LET won == row.state = "funding_onchain" /\ LeaseFree
     IN /\ IF won THEN write([row EXCEPT !.lease = clock]) ELSE UNCHANGED row
        /\ Then(d, won, "submit")
  /\ UNCHANGED <<lockup, chain, others>>

(* refuseFunding: off the tick's own entry nothing can be out, if nothing is  *)
(* recorded either; a recovered row goes to an operator.                      *)

refuseFunding(d) ==
  /\ At(d, "submit") /\ Refuses
  /\ IF job[d].fresh
     THEN /\ IF MayRecord THEN write([row EXCEPT !.state = "refused"]) ELSE UNCHANGED row
          /\ Then(d, MayRecord, "release")
     ELSE fail("funding_onchain") /\ Done(d)
  /\ UNCHANGED <<lockup, chain, others>>

releaseFundLease(d) ==
  /\ At(d, "release")
  /\ row' = [row EXCEPT !.lease = Never]
  /\ Done(d)
  /\ UNCHANGED <<lockup, chain, others>>

(* signFunding: a transaction of its own inputs, known to nobody yet. *)
signFunding(d) ==
  /\ At(d, "submit") /\ ~Refuses
  /\ signed < MaxSigned
  /\ signed' = signed + 1
  /\ job' = [job EXCEPT ![d].pc = "record", ![d].tx = signed + 1]
  /\ UNCHANGED <<row, lockup, htlc, others>>

(* Estimating or signing throws: the lease is given back. *)
signFundingFails(d) ==
  /\ At(d, "submit") /\ ~Refuses
  /\ faults < MaxFaults
  /\ faults' = faults + 1
  /\ Goto(d, "release")
  /\ UNCHANGED <<row, lockup, chain, operator, sweeper, rotated, clock>>

(* Mutant: the record is written after the broadcast, by the tick that won. *)
recordFundingTxLate(d) ==
  /\ At(d, "record")
  /\ UNCHANGED row
  /\ Then(d, MayRecord, "publish")
  /\ UNCHANGED <<lockup, chain, others>>

recordFundingTx(d) ==
  /\ At(d, "record")
  /\ IF MayRecord THEN write([row EXCEPT !.fundingTx = job[d].tx]) ELSE UNCHANGED row
  /\ Then(d, MayRecord, "publish")
  /\ UNCHANGED <<lockup, chain, others>>

(* publishFunding: a recorded funding no chain has seen is parked once the    *)
(* gates have closed, and sent otherwise.                                     *)
publishFunding(d) ==
  /\ At(d, "publish")
  /\ IF htlc[job[d].tx].kind # "none" THEN UNCHANGED row /\ Goto(d, "toAwaiting")
     ELSE IF job[d].recheck /\ Refuses THEN fail("funding_onchain") /\ Done(d)
     ELSE UNCHANGED row /\ Goto(d, "broadcast")
  /\ UNCHANGED <<lockup, chain, others>>

broadcastFunding(d) ==
  /\ At(d, "broadcast")
  /\ htlc' = [htlc EXCEPT ![job[d].tx].kind = IF @ = "none" THEN "out" ELSE @]
  /\ Goto(d, "toAwaiting")
  /\ UNCHANGED <<row, lockup, signed, others>>

ToAwaiting(d) ==
  /\ At(d, "toAwaiting")
  /\ transition("funding_onchain", [row EXCEPT !.state = "awaiting_claim", !.fundingTxid = job[d].tx])
  /\ Done(d)
  /\ UNCHANGED <<lockup, chain, others>>

----------------------------------------------------------------------------
(* findSpendWitness: nobody's, the client's (it opens the hash), or other. *)
Witness(t) ==
  CASE htlc[t].kind \in {"none", "out"} -> "none"
    [] htlc[t].kind \in {"claiming", "claimed"} -> "claim"
    [] OTHER -> "other"

whenAwaitingClaim(d) ==
  /\ AtState(d, "awaiting_claim")
  /\ LET w == Witness(job[d].row.fundingTxid)
     IN job' = [job EXCEPT ![d] =
          IF w = "claim" THEN [@ EXCEPT !.pc = "toClaiming"]
          ELSE IF w = "other" THEN [@ EXCEPT !.pc = "failSpent"]
          ELSE IF clock >= RefundTxAt THEN [@ EXCEPT !.pc = "toRefunding"]
          ELSE Idle]
  /\ UNCHANGED <<row, lockup, chain, others>>

ToRefunding(d) ==
  /\ At(d, "toRefunding")
  /\ transition("awaiting_claim", [row EXCEPT !.state = "refunding_onchain"])
  /\ Done(d)
  /\ UNCHANGED <<lockup, chain, others>>

(* The preimage reaches the disk with the state. *)
ToClaiming(d) ==
  /\ At(d, "toClaiming")
  /\ transition(job[d].row.state, [row EXCEPT !.state = "claiming", !.preimage = TRUE])
  /\ Done(d)
  /\ UNCHANGED <<lockup, chain, others>>

FailSpent(d) ==
  /\ At(d, "failSpent")
  /\ fail(job[d].row.state)
  /\ Done(d)
  /\ UNCHANGED <<lockup, chain, others>>

----------------------------------------------------------------------------
(* whenRefundingOnchain: our own refunds first, each by its name. *)
Outcome(t, versions) ==
  CASE htlc[t].kind = "refunded" /\ htlc[t].ver \in versions -> "confirmed"
    [] htlc[t].kind = "refunding" /\ htlc[t].ver \in versions -> "mempool"
    [] OTHER -> "unknown"

(* A refund in the mempool is replaced when a bump is due. *)
whenRefundingOnchain(d) ==
  /\ AtState(d, "refunding_onchain")
  /\ LET o == Outcome(job[d].row.fundingTxid, job[d].row.refunds)
     IN \/ o = "confirmed" /\ Goto(d, "toRefunded")
        \/ o = "mempool" /\ job' = [job EXCEPT ![d].pc = "push", ![d].mode = "replace"]
        \/ o = "mempool" /\ Done(d)
        \/ o = "unknown" /\ Goto(d, "witness")
  /\ UNCHANGED <<row, lockup, chain, others>>

(* The client's claim may have landed after the refund was decided. *)
RefundWitness(d) ==
  /\ At(d, "witness")
  /\ LET w == Witness(job[d].row.fundingTxid)
     IN Goto(d, CASE w = "claim" -> "toClaiming" [] w = "other" -> "failSpent" [] w = "none" -> "push")
  /\ UNCHANGED <<row, lockup, chain, others>>

ToRefunded(d) ==
  /\ At(d, "toRefunded")
  /\ transition("refunding_onchain", [row EXCEPT !.state = "refunded"])
  /\ Done(d)
  /\ UNCHANGED <<lockup, chain, others>>

Priced(d, v) ==
  job[d].mode = "replace" => \A w \in job[d].row.refunds : w < v

(* pushOnchainHtlcRefund: sign, record the txid beside those the row knew,    *)
(* and only then send.                                                        *)
(* Mutant: the new txid takes the place of the others.                        *)
pushOnchainHtlcRefundLast(d) ==
  /\ At(d, "push")
  /\ \E v \in Version :
       /\ Priced(d, v)
       /\ write([row EXCEPT !.refunds = {v}])
       /\ job' = [job EXCEPT ![d].pc = "sendRefund", ![d].ver = v]
  /\ UNCHANGED <<lockup, chain, others>>

pushOnchainHtlcRefund(d) ==
  /\ At(d, "push")
  /\ \E v \in Version :
       /\ Priced(d, v)
       /\ write([row EXCEPT !.refunds = job[d].row.refunds \cup {v}])
       /\ job' = [job EXCEPT ![d].pc = "sendRefund", ![d].ver = v]
  /\ UNCHANGED <<lockup, chain, others>>

(* The HTLC cannot pay for the refund, or the standing one is enough: the     *)
(* tick retries that until the lockup's deadline, then asks an operator.      *)
RefundUnaffordable(d) ==
  /\ At(d, "push")
  /\ \/ job[d].mode = "replace" /\ UNCHANGED faults
     \/ faults < MaxFaults /\ faults' = faults + 1
  /\ IF job[d].mode = "tick" /\ clock >= RefundAt THEN fail("refunding_onchain") ELSE UNCHANGED row
  /\ Done(d)
  /\ UNCHANGED <<lockup, chain, operator, sweeper, rotated, clock>>

(* broadcastRaw: the mempool takes it over nothing, over a cheaper version,   *)
(* over the client's unconfirmed claim or not; a confirmed spend refuses it.  *)
sendRefund(d) ==
  /\ At(d, "sendRefund")
  /\ LET t == job[d].row.fundingTxid
         taken == [htlc EXCEPT ![t].kind = "refunding", ![t].ver = job[d].ver]
     IN \/ /\ htlc[t].kind \in {"out", "claiming"} \/ (htlc[t].kind = "refunding" /\ htlc[t].ver < job[d].ver)
           /\ htlc' = taken
        \/ htlc[t].kind # "out" /\ UNCHANGED htlc
  /\ Done(d)
  /\ UNCHANGED <<row, lockup, signed, others>>

----------------------------------------------------------------------------
(* reclaimOnchainHtlc, by hand and in any state: reads before it has the      *)
(* row's slot, and then refunds from what it read.                            *)
reclaimOnchainHtlc ==
  /\ operator.pc = "idle" /\ MaxReclaims > 0
  /\ row.fundingTxid # NoTx /\ clock >= RefundTxAt
  /\ LET o == Outcome(row.fundingTxid, row.refunds)
     IN /\ o # "confirmed" /\ Witness(row.fundingTxid) # "claim"
        /\ operator' = [pc |-> "slot", row |-> row, replace |-> o = "mempool"]
  /\ UNCHANGED <<row, job, sweeper, lockup, chain, rotated, clock, faults>>

ReclaimSlot(d) ==
  /\ operator.pc = "slot" /\ At(d, "idle")
  /\ operator' = [operator EXCEPT !.pc = "done"]
  /\ job' = [job EXCEPT ![d] = [Idle EXCEPT !.pc = "push", !.row = operator.row,
                                            !.mode = IF operator.replace THEN "replace" ELSE "operator"]]
  /\ UNCHANGED <<row, sweeper, lockup, chain, rotated, clock, faults>>

(* onchainClaimNow: a stuck row that still holds the preimage. *)
onchainClaimNow ==
  /\ row.state = "stuck" /\ row.preimage
  /\ lockup \in Held
  /\ transition("stuck", [row EXCEPT !.state = "claiming"])
  /\ UNCHANGED <<job, lockup, chain, others>>

----------------------------------------------------------------------------
(* whenClaiming. *)
whenClaiming(d) ==
  /\ AtState(d, "claiming") /\ job[d].row.preimage
  /\ Goto(d, IF lockup \in Covers THEN "claim" ELSE "evidence")
  /\ UNCHANGED <<row, lockup, chain, others>>

Claim(d) ==
  /\ At(d, "claim") /\ lockup \in Covers /\ ~rotated
  /\ lockup' = "claimed"
  /\ Goto(d, "markClaimed")
  /\ UNCHANGED <<row, chain, others>>

(* The spend fails, or its answer is lost before or after the server took it; *)
(* past the refund deadline that is an operator's problem, before it a retry. *)
ClaimFails(d) ==
  /\ At(d, "claim")
  /\ \/ /\ lockup \notin Covers \/ rotated
        /\ UNCHANGED <<lockup, faults>>
     \/ /\ lockup \in Covers /\ ~rotated /\ faults < MaxFaults
        /\ faults' = faults + 1
        /\ lockup' \in {lockup, "claimPending"}
  /\ IF clock >= RefundAt THEN fail("claiming") ELSE UNCHANGED row
  /\ Done(d)
  /\ UNCHANGED <<chain, operator, sweeper, rotated, clock>>

(* Less at the script than the amount.  No provable spend is waited for until *)
(* the deadline; a spend is ours if the server holds it half done, or if it   *)
(* opened the hash.                                                           *)
ClaimEvidence(d) ==
  /\ At(d, "evidence")
  /\ IF lockup \in {"claimed", "claimPending"}
     THEN lockup' = "claimed" /\ UNCHANGED row /\ Goto(d, "markClaimed")
     ELSE /\ UNCHANGED lockup
          /\ IF lockup \in Spent \/ clock >= RefundAt THEN fail("claiming") ELSE UNCHANGED row
          /\ Done(d)
  /\ UNCHANGED <<chain, others>>

MarkClaimed(d) ==
  /\ At(d, "markClaimed")
  /\ transition("claiming", [row EXCEPT !.state = "claimed"])
  /\ Done(d)
  /\ UNCHANGED <<lockup, chain, others>>

----------------------------------------------------------------------------
(* refundSweep: what refused rows hold, and what refunded rows hold once the  *)
(* refund is deep enough.                                                     *)
Releasable == row.state = "refunded" /\ row.outcome = "none" /\ Elapsed(row.updated, ReleaseDelay)
Refundable == row.state = "refused" /\ row.outcome = "none"

(* onchainRefundIsFinal: a refunded row's HTLC is read once more. *)
Final == row.state = "refunded" => Witness(row.fundingTxid) = "other"

refundSweep ==
  /\ sweeper.pc = "idle" /\ Elapsed(sweeper.parked, RecheckAfter)
  /\ Refundable \/ Releasable
  /\ Final
  /\ sweeper' = [Rest EXCEPT !.pc = "find"]
  /\ UNCHANGED <<row, job, operator, lockup, chain, rotated, clock, faults>>

(* pushRefund: outputs to refund; or a provable spend by somebody else; or    *)
(* nothing known of the script, which is asked again an hour later.           *)
SweepFind ==
  /\ sweeper.pc = "find"
  /\ IF lockup \in Held THEN sweeper' = [sweeper EXCEPT !.pc = "refund", !.seen = lockup] /\ UNCHANGED row
     ELSE IF lockup \in Spent THEN sweeper' = Rest /\ write([row EXCEPT !.outcome = "external"])
     ELSE sweeper' = [Rest EXCEPT !.parked = clock] /\ UNCHANGED row
  /\ UNCHANGED <<job, operator, lockup, chain, rotated, clock, faults>>

AfterRefund(seen) == IF seen = "many" THEN "leftover" ELSE "refunded"

SweepRefund ==
  /\ sweeper.pc = "refund"
  /\ IF lockup \in Held
     THEN lockup' = AfterRefund(sweeper.seen) /\ sweeper' = [sweeper EXCEPT !.pc = "patch"]
     ELSE UNCHANGED lockup /\ sweeper' = Rest
  /\ UNCHANGED <<row, job, operator, chain, rotated, clock, faults>>

(* The outcome is recorded only when every output was taken.  Mutant: always. *)
SweepPatchAlways ==
  /\ sweeper.pc = "patch"
  /\ write([row EXCEPT !.outcome = "pushed"])
  /\ sweeper' = Rest
  /\ UNCHANGED <<job, operator, lockup, chain, rotated, clock, faults>>

SweepPatch ==
  /\ sweeper.pc = "patch"
  /\ write(IF sweeper.seen = "many" THEN row ELSE [row EXCEPT !.outcome = "pushed"])
  /\ sweeper' = Rest
  /\ UNCHANGED <<job, operator, lockup, chain, rotated, clock, faults>>

----------------------------------------------------------------------------
(* Faults: a call throws or the process dies, and the tick is lost. *)
Abandon(d) ==
  /\ ~At(d, "idle")
  /\ faults < MaxFaults /\ faults' = faults + 1
  /\ Done(d)
  /\ UNCHANGED <<row, operator, sweeper, lockup, chain, rotated, clock>>

SweepAbandon ==
  /\ sweeper.pc # "idle"
  /\ faults < MaxFaults /\ faults' = faults + 1
  /\ sweeper' = Rest
  /\ UNCHANGED <<row, job, operator, lockup, chain, rotated, clock>>

(* The process comes back under another provider key. *)
RotateKey ==
  /\ ~rotated /\ rotated' = TRUE
  /\ faults < MaxFaults /\ faults' = faults + 1
  /\ job' = [d \in Driver |-> Idle]
  /\ sweeper' = Rest
  /\ UNCHANGED <<row, operator, lockup, chain, clock>>

(* A refund's block is disconnected, within the depth ReleaseDelay allows for. *)
Reorg(t) ==
  /\ htlc[t].kind = "refunded" /\ ~Elapsed(htlc[t].at, ReleaseDelay)
  /\ faults < MaxFaults /\ faults' = faults + 1
  /\ htlc' = [htlc EXCEPT ![t].kind = "refunding"]
  /\ UNCHANGED <<row, job, operator, sweeper, lockup, signed, rotated, clock>>

----------------------------------------------------------------------------
(* The client funds its lockup, in one piece or several, in time or not. *)
ClientFunds ==
  /\ \/ lockup = "none" /\ lockup' \in Held \ {"leftover"}
     \/ lockup = "partial" /\ row.state = "quoted" /\ lockup' \in {"exact", "over"}
     \/ lockup = "exact" /\ row.state = "quoted" /\ lockup' = "over"
  /\ UNCHANGED <<row, job, chain, others>>

ClientReclaims ==
  /\ lockup \in Held /\ clock >= RefundAt
  /\ lockup' = "reclaimed"
  /\ UNCHANGED <<row, job, chain, others>>

(* The claim leaf has no timelock: the client may spend the HTLC at any time, *)
(* over an unconfirmed refund too.                                            *)
ClientClaims(t) ==
  /\ htlc[t].kind \in {"out", "refunding"}
  /\ htlc' = [htlc EXCEPT ![t] = [Unspent EXCEPT !.kind = "claiming"]]
  /\ UNCHANGED <<row, job, lockup, signed, others>>

Confirm(t) ==
  /\ \/ htlc[t].kind = "claiming" /\ htlc' = [htlc EXCEPT ![t].kind = "claimed"]
     \/ htlc[t].kind = "refunding"
        /\ htlc' = [htlc EXCEPT ![t].kind = "refunded", ![t].at = IF @ = Never THEN clock ELSE @]
  /\ UNCHANGED <<row, job, lockup, signed, others>>

(* Time passes; a disconnected refund is back in a block, or displaced by the *)
(* client's claim, within ReleaseDelay of its first block; and no tick takes  *)
(* as long as MIN_ONCHAIN_FUND_WINDOW from its gates to its broadcast.        *)
Advance ==
  /\ clock < MaxTime
  /\ clock + 1 = RefundAt =>
       \A d \in Driver : job[d].pc \notin {"enter", "submit", "record", "publish", "broadcast"}
  /\ \A t \in Tx : htlc[t].kind = "refunding" /\ htlc[t].at # Never =>
       clock + 1 < htlc[t].at + ReleaseDelay /\ clock + 1 < MaxTime
  /\ clock' = clock + 1
  /\ UNCHANGED <<row, job, operator, sweeper, lockup, chain, rotated, faults>>

----------------------------------------------------------------------------
DriverStep(d) ==
  \/ Tick(d) \/ whenQuoted(d) \/ FailQuoted(d) \/ Fund(d)
  \/ whenFunded(d) \/ EnterFunding(d)
  \/ recoverFunding(d) \/ claimFundLease(d) \/ refuseFunding(d) \/ releaseFundLease(d)
  \/ signFunding(d) \/ recordFundingTx(d) \/ publishFunding(d) \/ broadcastFunding(d) \/ ToAwaiting(d)
  \/ whenAwaitingClaim(d) \/ ToRefunding(d) \/ ToClaiming(d) \/ FailSpent(d)
  \/ whenRefundingOnchain(d) \/ RefundWitness(d) \/ ToRefunded(d)
  \/ pushOnchainHtlcRefund(d) \/ RefundUnaffordable(d) \/ sendRefund(d)
  \/ whenClaiming(d) \/ Claim(d) \/ ClaimFails(d) \/ ClaimEvidence(d) \/ MarkClaimed(d)

SweepStep == refundSweep \/ SweepFind \/ SweepRefund \/ SweepPatch

Operator == reclaimOnchainHtlc \/ onchainClaimNow \/ \E d \in Driver : ReclaimSlot(d)

Faults ==
  \/ SweepAbandon \/ RotateKey
  \/ \E d \in Driver : signFundingFails(d) \/ Abandon(d)
  \/ \E t \in Tx : Reorg(t)

Client == ClientFunds \/ ClientReclaims \/ \E t \in Tx : ClientClaims(t)

Miners == \E t \in Tx : Confirm(t)

Next == SweepStep \/ Operator \/ Faults \/ Client \/ Miners \/ Advance \/ \E d \in Driver : DriverStep(d)

Spec == Init /\ [][Next]_vars

----------------------------------------------------------------------------
(* Every variable keeps its type. *)
TypeOK ==
  /\ row \in Row
  /\ job \in [Driver -> Job]
  /\ operator \in [pc : {"idle", "slot", "done"}, row : Row, replace : BOOLEAN]
  /\ sweeper \in [pc : {"idle", "find", "refund", "patch"}, seen : {"none"} \cup Held, parked : Int]
  /\ lockup \in {"none"} \cup Held \cup Spent
  /\ htlc \in [Tx -> [kind : Kinds, ver : Version \cup {NoVersion}, at : Int]]
  /\ signed \in 0..MaxSigned
  /\ rotated \in BOOLEAN
  /\ clock \in Nat
  /\ faults \in Nat

(* However many workers sign, and however long each takes between signing and *)
(* sending, one funding transaction reaches the chain, and it is the one the  *)
(* row names: the HTLC is not paid twice and the refund is never for another. *)
SingleFunding == \A t \in Tx \ {0} : htlc[t].kind # "none" => row.fundingTx = t

(* The lockup goes back to the client only while no HTLC is out for it, even  *)
(* one a reorganisation may bring back.                                       *)
NeverPaidAndRefunded ==
  lockup \in {"refunded", "leftover"} => \A t \in Tx : htlc[t].kind \in {"none", "refunded"}

(* The solver never ends up with both legs: with the client's lockup          *)
(* collected, the HTLC was the client's to keep.                              *)
NeverTakesBoth ==
  lockup \in {"claimed", "claimPending"} => \E t \in Tx : htlc[t].kind \in {"claiming", "claimed"}

(* A row with an HTLC out is one a tick or an operator still looks at, and    *)
(* never one that says nothing was paid.                                      *)
FundingNeverForgotten ==
  (\E t \in Tx : htlc[t].kind \in {"out", "claiming", "claimed", "refunding"})
    => row.state \notin {"quoted", "funded", "refused"}

(* What the row says happened, happened.                                      *)
RowTellsTheTruth ==
  /\ row.state = "claimed" => lockup = "claimed"
  /\ row.outcome = "pushed" => lockup = "refunded"
  /\ row.outcome = "external" => lockup \in Spent
  /\ row.state = "refunded" /\ row.outcome = "pushed" => htlc[row.fundingTxid].kind = "refunded"

(* Our own refund is never taken for a stranger's spend: as long as one tick  *)
(* at a time works on the row, each refund on the chain is one the row names. *)
RefundsAreNamed ==
  \A t \in Tx : htlc[t].kind \in {"refunding", "refunded"} => htlc[t].ver \in row.refunds

(* No handler moves the row along an edge the machine does not have. *)
LegalEdges == [][row'.state # row.state => row'.state \in OnchainSendMachine[row.state]]_vars

(* Stated by send/onchainOrchestrator.ts on submitFunding: the order of its   *)
(* checks keeps a worker from parking "a funding that really went out, losing *)
(* the outpoint reclaimOnchainHtlc needs".                                    *)
ParkedKeepsOutpoint ==
  row.state = "stuck" /\ (\E t \in Tx : htlc[t].kind # "none") => row.fundingTxid # NoTx

----------------------------------------------------------------------------
(* The two legs as the abstract swap sees them.  A claim counts as taken once *)
(* the solver acts on the preimage it reveals or a block holds it, a refund   *)
(* as withdrawn once no reorganisation reaches it.                            *)
ClientLeg ==
  CASE lockup = "none" -> "none"
    [] lockup \in Held \ {"leftover"} -> "locked"
    [] lockup \in {"claimed", "claimPending"} -> "collected"
    [] lockup \in {"refunded", "leftover"} -> "returned"
    [] lockup = "reclaimed" -> "clawedBack"

PayoutLeg ==
  CASE \E t \in Tx : htlc[t].kind = "claimed" \/ (htlc[t].kind = "claiming" /\ row.preimage) -> "taken"
    [] \E t \in Tx : htlc[t].kind = "refunded" /\ Elapsed(htlc[t].at, ReleaseDelay) -> "withdrawn"
    [] \A t \in Tx : htlc[t].kind = "none" -> "none"
    [] OTHER -> "offered"

Swap == INSTANCE AtomicSwap WITH client <- ClientLeg, payout <- PayoutLeg

(* Every step, with its stale rows, replaced refunds, crashes and sweeps, is  *)
(* a step of the abstract swap or none at all.                                *)
ImplementsAtomicSwap == Swap!Spec

----------------------------------------------------------------------------
(* No swap stays open for ever: it is claimed, refunded, refused or handed to *)
(* an operator.                                                               *)
EverySwapResolves == <>(row.state \notin Live)

(* A lockup the corridor has closed without a payout is given back, however   *)
(* late it was funded and in however many outputs.                            *)
ClosedIsReturned ==
  (row.state = "refused" \/ (row.state = "refunded" /\ \A t \in Tx : htlc[t].kind \notin {"claiming", "claimed"}))
    /\ lockup \in Held
  ~> (lockup \notin Held \/ \E t \in Tx : htlc[t].kind \in {"claiming", "claimed"})

(* Ticks and sweeps keep running, blocks are mined and time passes.  Clients, *)
(* approvals, operators and faults are not fair.                              *)
Fairness ==
  /\ \A d \in Driver : WF_vars(DriverStep(d))
  /\ WF_vars(SweepStep)
  /\ WF_vars(Miners)
  /\ WF_vars(Advance)

FairSpec == Spec /\ Fairness

----------------------------------------------------------------------------
(* What one process keeps whatever call fails: types, at most one of payment and refund, a row that says
   what happened, and no refund of the HTLC the row could take for somebody else's spend. *)
OnchainIsSafe == TypeOK /\ NeverPaidAndRefunded /\ RowTellsTheTruth /\ RefundsAreNamed
(* With two processes: a funding the row knows of, and a lockup that is not returned over it. *)
FundingIsKept == FundingNeverForgotten /\ NeverPaidAndRefunded
(* Every swap ends, and the lockup of a swap that closed unpaid goes back. *)
OnchainEnds == EverySwapResolves /\ ClosedIsReturned
============================================================================
