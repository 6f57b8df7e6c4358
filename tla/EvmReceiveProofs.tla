-------------------------- MODULE EvmReceiveProofs --------------------------
(***************************************************************************)
(* What holds of an EVM receive swap for any number of processes that tick *)
(* it, any deadlines in their order, any number of crashes, lost           *)
(* broadcasts and replaced blocks.                                         *)
(***************************************************************************)
EXTENDS EvmReceive, TLAPS

----------------------------------------------------------------------------
(* The inductive invariant. *)
(* A lock that can no longer vanish with its block. *)
Firm == {"deep", "claimed", "clientRefunded"}

(* What a row of each state says about the two legs. *)
RowSound(r) ==
  /\ r.state \notin {"awaiting_lock", "locked"}
  /\ r.state \in {"quoted", "refused"} => payout = "none"
  /\ r.state \in {"awaiting_claim", "refunding_arkade"} => payout # "none"
  /\ r.state \in {"claiming", "claimed", "stuck"} => payout = "claimed"
  /\ r.state = "claiming" => r.preimage
  /\ r.state = "claimed" => lock = "claimed"
  /\ r.state = "refunded" => payout = "refunded"
  /\ r.state = "stuck" => lock = "claimed" \/ evmClock >= EvmTimeout
  /\ r.preimage => payout = "claimed"
  /\ r.claimTx <= Len(claims)

(* The legs against each other: sats are out once, over a lock that stays; a  *)
(* claim is sent for sats taken, succeeds by taking the tokens, and reverts   *)
(* only where they are gone.                                                  *)
LegsSound ==
  /\ fundings = (IF payout = "none" THEN 0 ELSE 1)
  /\ payout # "none" => lock \in Firm
  /\ lock = "claimed" \/ claims # <<>> => payout = "claimed"
  /\ lock = "clientRefunded" => evmClock >= EvmTimeout
  /\ \A i \in DOMAIN claims : /\ claims[i] = "success" => lock = "claimed"
                              /\ claims[i] = "reverted" => lock \in {"claimed", "clientRefunded"}

(* What a tick may rely on however stale it is: what no step can undo. *)
Lasting(j) ==
  /\ j.row.state \in EvmLive \ {"awaiting_lock", "locked"}
  /\ j.row.claimTx <= Len(claims) /\ j.tx <= Len(claims)
  /\ j.row.preimage => payout = "claimed"
  /\ j.row.state = "claiming" => j.row.preimage
  /\ j.seen.funded => payout # "none"
  /\ j.seen.height <= evmClock
  /\ j.seen.claim = "success" => lock = "claimed"
  /\ j.seen.claim = "reverted" => lock \in {"claimed", "clientRefunded"}
  /\ j.pc \in {"fund_arkade", "toFunding", "refuse"} => j.row.state = "quoted"
  /\ j.pc \in {"fund_arkade", "toFunding", "fund"} => lock \in Firm
  /\ j.pc \in {"toFunding", "fund"} => evmClock < EvmTimeout
  /\ j.pc = "fund" => evmRow.state = "funding_arkade" /\ payout = "none"
  /\ j.pc = "stick" => payout = "claimed" /\ (lock = "claimed" \/ evmClock >= EvmTimeout)
  /\ j.pc = "await_claim" => j.row.state = "funding_arkade" /\ payout # "none"
  /\ j.pc \in {"claim_evm", "sendClaim", "patchClaim", "record_claim"} => payout = "claimed"
  /\ j.pc = "record_claim" => lock = "claimed"
  /\ j.pc = "refund_arkade" => j.row.state \in {"awaiting_claim", "refunding_arkade"}
  /\ j.pc = "markRefunded" => payout = "refunded"

(* What a tick knows that began after the last thing that happened. *)
Fresh(j) ==
  /\ j.pc # "idle"
  /\ j.pc \in {"observe", "reread"} /\ j.row.state = "quoted" => payout = "none"
  /\ j.pc = "reread" =>
       /\ ~j.seen.funded => payout = "none"
       /\ j.row.claimTx # 0 /\ j.seen.claim = "pending" => claims[j.row.claimTx] = "pending"
  /\ j.pc \in {"refund_arkade", "refund"} => payout # "claimed"

TickSound(j) == Lasting(j) /\ (j.fresh => Fresh(j))

(* The row is funded by one process. *)
OneFunder == \A d, e \in Running : evmJob[d].pc = "fund" /\ evmJob[e].pc = "fund" => d = e

(* Once a whole tick has run after the lockup's deadline, the sats are not out *)
(* and not taken either, unless a claim is on its way.                         *)
AtRest ==
  rested /\ EvmRefundAt <= evmClock /\ evmClock < EvmTimeout =>
    payout \in {"none", "refunded"} \/ \E i \in DOMAIN claims : claims[i] = "pending"

(* From the client's timeout on, the sats are home or paid for. *)
Over == evmClock >= EvmTimeout => payout \in {"none", "refunded"} \/ (payout = "claimed" /\ lock = "claimed")

Inv ==
  /\ EvmTypeOK /\ RowSound(evmRow) /\ LegsSound /\ OneFunder /\ AtRest /\ Over
  /\ \A d \in Running : TickSound(evmJob[d])

----------------------------------------------------------------------------
(* What each of the planner's decisions presupposes. *)
Presupposes(plan, r, s, preimage, now) ==
  /\ plan = "wait" =>
       \/ preimage /\ r.claimTx # 0 /\ s.claim = "pending"
       \/ ~preimage /\ r.state = "quoted"
       \/ ~preimage /\ ~s.funded
       \/ ~preimage /\ now < EvmRefundAt
       \/ ~preimage /\ r.state = "claiming"
  /\ plan = "refuse" => r.state = "quoted"
  /\ plan = "stick" => preimage /\ (s.height >= EvmTimeout \/ s.claim = "reverted")
  /\ plan = "fund_arkade" => r.state = "quoted" /\ lock = "deep"
  /\ plan = "await_claim" => r.state = "funding_arkade" /\ s.funded
  /\ plan = "claim_evm" => preimage
  /\ plan = "record_claim" => preimage /\ s.claim = "success"
  /\ plan = "refund_arkade" => ~preimage /\ r.state \in {"awaiting_claim", "refunding_arkade"}

(* The planner on a row a tick may hold. *)
LEMMA PlanSound ==
  ASSUME DeadlinesOrdered, NEW r \in EvmRow, r.state \in EvmLive \ {"awaiting_lock", "locked"}, NEW s \in Glance,
         NEW preimage \in BOOLEAN, NEW now \in Nat, NEW plan,
         plan = planEvmReceive(r, s, preimage, now)
  PROVE  plan \in Plans /\ Presupposes(plan, r, s, preimage, now)
<1> USE DEF DeadlinesOrdered
<1>0. s.height \in Nat /\ r.claimTx \in Nat /\ s.claim \in Outcomes
  BY DEF Glance, EvmRow
<1>1. CASE preimage
  <2>1. plan = whenRevealed(r, s)
    BY <1>1 DEF planEvmReceive
  <2> QED
    BY <1>0, <1>1, <2>1 DEF whenRevealed, Plans, Presupposes, Outcomes
<1>2. CASE ~preimage /\ r.state = "quoted"
  BY <1>2 DEF planEvmReceive, Plans, Presupposes, Proven
<1>3. CASE ~preimage /\ r.state = "funding_arkade"
  BY <1>3 DEF planEvmReceive, Plans, Presupposes
<1>4. CASE ~preimage /\ r.state = "awaiting_claim"
  BY <1>4 DEF planEvmReceive, Plans, Presupposes
<1>5. CASE ~preimage /\ r.state = "refunding_arkade"
  BY <1>5 DEF planEvmReceive, whenRefunding, Plans, Presupposes
<1>6. CASE ~preimage /\ r.state = "claiming"
  BY <1>6 DEF planEvmReceive, Plans, Presupposes
<1> QED
  BY <1>1, <1>2, <1>3, <1>4, <1>5, <1>6 DEF EvmLive

(* What a tick starts from and ends with. *)
LEMMA IdleType ==
  ASSUME DeadlinesOrdered
  PROVE  EvmNewRow \in EvmRow /\ EvmIdle \in EvmJob
<1>1. EvmNewRow \in EvmRow
  BY DEF EvmNewRow, EvmRow, EvmStates, DeadlinesOrdered
<1>2. Blank \in Glance
  BY DEF Blank, Glance, Outcomes
<1> QED
  BY <1>1, <1>2 DEF EvmIdle, EvmJob, EvmSteps, DeadlinesOrdered

(* A tick that moves on to another step. *)
LEMMA GotoSound ==
  ASSUME evmJob \in [Running -> EvmJob], NEW d \in Running, NEW pc \in EvmSteps, EvmGoto(d, pc)
  PROVE  /\ Running' = Running /\ evmJob' \in [Running -> EvmJob]
         /\ evmJob'[d] = [evmJob[d] EXCEPT !.pc = pc]
         /\ \A e \in Running \ {d} : evmJob'[e] = evmJob[e]
BY DEF EvmGoto, EvmJob, Running

(* A tick that is over. *)
LEMMA EndSound ==
  ASSUME DeadlinesOrdered, evmJob \in [Running -> EvmJob], NEW d \in Running, evmJob' = [evmJob EXCEPT ![d] = EvmIdle]
  PROVE  /\ Running' = Running /\ evmJob' \in [Running -> EvmJob]
         /\ evmJob'[d] = EvmIdle
         /\ \A e \in Running \ {d} : evmJob'[e] = evmJob[e]
BY IdleType DEF Running

(* Nobody's tick began after what just happened. *)
LEMMA DisturbSound ==
  ASSUME evmJob \in [Running -> EvmJob], evmJob' = [d \in Running |-> [evmJob[d] EXCEPT !.fresh = FALSE]]
  PROVE  /\ Running' = Running /\ evmJob' \in [Running -> EvmJob]
         /\ \A d \in Running : /\ evmJob'[d].pc = evmJob[d].pc /\ evmJob'[d].row = evmJob[d].row
                               /\ evmJob'[d].seen = evmJob[d].seen /\ evmJob'[d].tx = evmJob[d].tx
                               /\ evmJob'[d].fresh = FALSE
BY DEF EvmJob, Running

(* An idle tick relies on nothing. *)
LEMMA IdleSound ==
  ASSUME NEW d \in Running', evmJob'[d] = EvmIdle, claims' \in Seq(Outcomes), evmClock' \in Nat
  PROVE  TickSound(evmJob[d])'
BY DEF TickSound, Lasting, EvmIdle, EvmNewRow, Blank, EvmLive

(* A step of one process that touches row and tick only: the other ticks rely *)
(* on nothing it changes, as long as no row is taken from a funder.           *)
LEMMA QuietStep ==
  ASSUME DeadlinesOrdered, Inv, NEW d \in Running, UNCHANGED <<world, still>>,
         Running' = Running, evmJob' \in [Running -> EvmJob], \A e \in Running \ {d} : evmJob'[e] = evmJob[e],
         evmRow' \in EvmRow, RowSound(evmRow)', TickSound(evmJob[d])',
         evmRow.state = "funding_arkade" /\ payout = "none" => evmRow'.state = "funding_arkade",
         evmJob'[d].pc = "fund" => evmRow.state = "quoted",
         rested' \in BOOLEAN, rested' = rested \/ AtRest'
  PROVE  Inv'
<1>1. EvmTypeOK'
  BY DEF Inv, EvmTypeOK, world, still
<1>2. LegsSound'
  BY DEF Inv, LegsSound, world, still
<1>3. OneFunder'
  <2>1. ASSUME NEW e \in Running \ {d}, evmJob[e].pc = "fund" PROVE evmRow.state # "quoted"
    BY <2>1 DEF Inv, TickSound, Lasting
  <2> QED
    BY <2>1 DEF Inv, OneFunder
<1>4. AtRest'
  BY DEF Inv, AtRest, world, still
<1>5. Over'
  BY DEF Inv, Over, world, still
<1>6. ASSUME NEW e \in Running \ {d} PROVE TickSound(evmJob[e])'
  <2>1. TickSound(evmJob[e]) /\ evmJob'[e] = evmJob[e]
    BY DEF Inv
  <2>2. Lasting(evmJob[e])'
    BY <2>1 DEF TickSound, Lasting, world, still
  <2>3. evmJob[e].fresh => Fresh(evmJob[e])'
    BY <2>1 DEF TickSound, Fresh, world, still
  <2> QED
    BY <2>1, <2>2, <2>3 DEF TickSound
<1> QED
  BY <1>1, <1>2, <1>3, <1>4, <1>5, <1>6 DEF Inv

(* A transition the tick ends with, won or lost. *)
LEMMA ConcludeStep ==
  ASSUME DeadlinesOrdered, Inv, NEW d \in Running, NEW from, NEW new, UNCHANGED <<world, still>>,
         conclude(d, from, new),
         evmRow.state = from => new \in EvmRow /\ RowSound(new) /\ (from = "funding_arkade" => payout # "none")
  PROVE  Inv'
<1>a. evmRow \in EvmRow /\ evmJob \in [Running -> EvmJob] /\ claims \in Seq(Outcomes) /\ evmClock \in Nat /\ RowSound(evmRow)
  BY DEF Inv, EvmTypeOK
<1>1. evmJob' = [evmJob EXCEPT ![d] = EvmIdle] /\ rested' = rested
  BY DEF conclude, Throw
<1>2. /\ Running' = Running /\ evmJob' \in [Running -> EvmJob] /\ evmJob'[d] = EvmIdle
      /\ \A e \in Running \ {d} : evmJob'[e] = evmJob[e]
  BY <1>a, <1>1, EndSound
<1>3. TickSound(evmJob[d])'
  BY <1>a, <1>2, IdleSound DEF world, still
<1>4. /\ evmRow' \in EvmRow
      /\ evmRow.state = "funding_arkade" /\ payout = "none" => evmRow'.state = "funding_arkade"
      /\ evmRow' = evmRow \/ (evmRow' = new /\ RowSound(new))
  BY <1>a DEF conclude, EvmWon, Throw
<1>5. RowSound(evmRow)'
  BY <1>a, <1>4 DEF RowSound, world, still
<1>6. evmJob'[d].pc # "fund" /\ rested' \in BOOLEAN
  BY <1>1, <1>2 DEF EvmIdle, Inv, EvmTypeOK
<1> QED
  BY <1>1, <1>2, <1>3, <1>4, <1>5, <1>6, QuietStep

----------------------------------------------------------------------------
(* A tick reads the row. *)
LEMMA TickStep ==
  ASSUME DeadlinesOrdered, Inv, NEW d \in EvmDriver, EvmTick(d)
  PROVE  Inv'
<1> DEFINE j == [EvmIdle EXCEPT !.pc = "observe", !.row = evmRow, !.fresh = TRUE]
<1>a. /\ d \in Running /\ evmRow \in EvmRow /\ evmJob \in [Running -> EvmJob] /\ RowSound(evmRow) /\ evmRow.state \in EvmLive
      /\ claims \in Seq(Outcomes) /\ evmClock \in Nat /\ rested \in BOOLEAN
  BY DEF EvmTick, EvmAt, Inv, EvmTypeOK
<1>1. j \in EvmJob
  BY <1>a, IdleType DEF EvmIdle, EvmJob, EvmSteps
<1>2. /\ Running' = Running /\ evmJob' \in [Running -> EvmJob] /\ evmJob'[d] = j
      /\ \A e \in Running \ {d} : evmJob'[e] = evmJob[e]
  BY <1>a, <1>1 DEF EvmTick, Running
<1>3. UNCHANGED <<evmRow, world, rested, still>>
  BY DEF EvmTick
<1>4. RowSound(evmRow)'
  BY <1>a, <1>3 DEF RowSound, world, still
<1>5. /\ j.pc = "observe" /\ j.row = evmRow /\ j.seen = Blank /\ j.tx = 0
  BY DEF EvmIdle
<1>6. TickSound(evmJob[d])'
  <2> HIDE DEF j
  <2>1. Lasting(evmJob[d])'
    BY <1>a, <1>2, <1>3, <1>5 DEF Lasting, RowSound, Blank, world, still
  <2>2. Fresh(evmJob[d])'
    BY <1>a, <1>2, <1>3, <1>5 DEF Fresh, RowSound, world, still
  <2> QED
    BY <2>1, <2>2 DEF TickSound
<1> HIDE DEF j
<1> QED
  BY <1>a, <1>2, <1>3, <1>4, <1>5, <1>6, QuietStep

(* The first round of reads. *)
LEMMA ObserveStep ==
  ASSUME DeadlinesOrdered, Inv, NEW d \in EvmDriver, Observe(d)
  PROVE  Inv'
<1> DEFINE r == evmJob[d].row
           s == [present |-> lock \in {"shallow", "deep"}, funded |-> arkadeLockupFunded,
                 claim |-> claimOutcome(r), height |-> evmClock]
           j == [evmJob[d] EXCEPT !.pc = "reread", !.seen = s]
<1>a. /\ d \in Running /\ evmRow \in EvmRow /\ evmJob \in [Running -> EvmJob] /\ evmJob[d] \in EvmJob /\ RowSound(evmRow)
      /\ claims \in Seq(Outcomes) /\ evmClock \in Nat /\ rested \in BOOLEAN
      /\ evmJob[d].pc = "observe" /\ TickSound(evmJob[d]) /\ LegsSound
  BY DEF Observe, EvmAt, Inv, EvmTypeOK
<1>1. /\ claimOutcome(r) \in Outcomes
      /\ claimOutcome(r) = "success" => lock = "claimed"
      /\ claimOutcome(r) = "reverted" => lock \in {"claimed", "clientRefunded"}
      /\ r.claimTx # 0 => claimOutcome(r) = claims[r.claimTx]
  <2>1. CASE r.claimTx = 0
    BY <2>1 DEF claimOutcome, Outcomes
  <2>2. CASE r.claimTx # 0
    <3>1. r.claimTx \in Nat /\ r.claimTx <= Len(claims)
      BY <1>a DEF EvmJob, EvmRow, TickSound, Lasting, DeadlinesOrdered
    <3>2. r.claimTx \in DOMAIN claims /\ claims[r.claimTx] \in Outcomes
      BY <1>a, <2>2, <3>1
    <3> QED
      BY <1>a, <2>2, <3>2 DEF claimOutcome, LegsSound
  <2> QED
    BY <2>1, <2>2
<1>2. s \in Glance
  BY <1>a, <1>1 DEF Glance, arkadeLockupFunded
<1>3. j \in EvmJob
  BY <1>a, <1>2 DEF EvmJob, EvmSteps
<1>4. /\ Running' = Running /\ evmJob' \in [Running -> EvmJob] /\ evmJob'[d] = j
      /\ \A e \in Running \ {d} : evmJob'[e] = evmJob[e]
  BY <1>a, <1>3 DEF Observe, Running
<1>5. UNCHANGED <<evmRow, world, rested, still>>
  BY DEF Observe
<1>6. RowSound(evmRow)'
  BY <1>a, <1>5 DEF RowSound, world, still
<1>7. /\ j.pc = "reread" /\ j.row = r /\ j.seen = s /\ j.tx = evmJob[d].tx /\ j.fresh = evmJob[d].fresh
      /\ s.funded = (payout # "none") /\ s.height = evmClock /\ s.claim = claimOutcome(r)
  BY <1>a DEF EvmJob, arkadeLockupFunded
<1>8. TickSound(evmJob[d])'
  <2> HIDE DEF j, s
  <2>0. /\ evmJob'[d].pc = "reread" /\ evmJob'[d].row = evmJob[d].row /\ evmJob'[d].tx = evmJob[d].tx
        /\ evmJob'[d].fresh = evmJob[d].fresh /\ evmJob'[d].seen = s
        /\ UNCHANGED <<evmRow, lock, payout, claims, evmClock>>
    BY <1>4, <1>5, <1>7 DEF world, still
  <2>1. Lasting(evmJob[d])'
    <3> DEFINE k == evmJob'[d]
    <3>1. Lasting(evmJob[d]) /\ k.row = evmJob[d].row /\ k.pc = "reread" /\ k.tx = evmJob[d].tx
      BY <1>a, <2>0 DEF TickSound
    <3>2. /\ k.seen.funded => payout # "none"
          /\ k.seen.height <= evmClock
          /\ k.seen.claim = "success" => lock = "claimed"
          /\ k.seen.claim = "reverted" => lock \in {"claimed", "clientRefunded"}
      <4>1. k.seen.funded => payout # "none"
        BY <1>7, <2>0, Zenon
      <4>2. k.seen.height <= evmClock
        BY <1>a, <1>7, <2>0
      <4>3. k.seen.claim = claimOutcome(r)
        BY <1>7, <2>0
      <4> QED
        BY <1>1, <4>1, <4>2, <4>3
    <3> HIDE DEF k
    <3>3. Lasting(k)
      BY <1>a, <3>1, <3>2 DEF Lasting
    <3> QED
      BY <2>0, <3>3 DEF Lasting, k
  <2>2. ASSUME evmJob[d].fresh PROVE Fresh(evmJob[d])'
    <3>1. evmJob[d].row.state = "quoted" => payout = "none"
      BY <1>a, <2>2 DEF Fresh, TickSound
    <3>2. /\ evmJob'[d].seen.funded = (payout # "none")
          /\ evmJob[d].row.claimTx # 0 => evmJob'[d].seen.claim = claims[evmJob[d].row.claimTx]
      BY <1>1, <1>7, <2>0
    <3> QED
      BY <2>0, <3>1, <3>2 DEF Fresh
  <2> QED
    BY <1>4, <1>7, <2>1, <2>2 DEF TickSound
<1> HIDE DEF j, s
<1> QED
  BY <1>a, <1>4, <1>5, <1>6, <1>7, <1>8, QuietStep

(* The second round of reads, and the planner. *)
LEMMA RereadStep ==
  ASSUME DeadlinesOrdered, Inv, NEW d \in EvmDriver, Reread(d)
  PROVE  Inv'
<1> DEFINE r == evmJob[d].row
           s == evmJob[d].seen
           preimage == arkadePreimage(r, s)
           plan == planEvmReceive(r, s, preimage, evmClock)
<1>a. /\ d \in Running /\ evmRow \in EvmRow /\ evmJob \in [Running -> EvmJob] /\ evmJob[d] \in EvmJob /\ RowSound(evmRow)
      /\ claims \in Seq(Outcomes) /\ evmClock \in Nat /\ rested \in BOOLEAN
      /\ evmJob[d].pc = "reread" /\ TickSound(evmJob[d]) /\ LegsSound /\ AtRest
  BY DEF Reread, EvmAt, Inv, EvmTypeOK
<1>r. r \in EvmRow /\ s \in Glance /\ r.state \in EvmLive \ {"awaiting_lock", "locked"}
  BY <1>a DEF EvmJob, TickSound, Lasting
<1>p. preimage \in BOOLEAN /\ (preimage => payout = "claimed")
  BY <1>a, <1>r DEF arkadePreimage, EvmRow, Glance, TickSound, Lasting
<1>q. plan \in Plans /\ Presupposes(plan, r, s, preimage, evmClock)
  BY <1>a, <1>r, <1>p, PlanSound
<1>u. UNCHANGED <<evmRow, world, still>>
  BY DEF Reread
<1>w. RowSound(evmRow)'
  BY <1>a, <1>u DEF RowSound, world, still
<1>1. CASE plan = "wait"
  <2>1. EvmDone(d)
    BY <1>1 DEF Reread
  <2>2. /\ Running' = Running /\ evmJob' \in [Running -> EvmJob] /\ evmJob'[d] = EvmIdle
        /\ \A e \in Running \ {d} : evmJob'[e] = evmJob[e]
    BY <1>a, <2>1, EndSound DEF EvmDone
  <2>3. TickSound(evmJob[d])'
    BY <1>a, <1>u, <2>2, IdleSound DEF world, still
  <2>4. evmJob[d].fresh \in BOOLEAN /\ rested' = (rested \/ evmJob[d].fresh)
    BY <1>a, <2>1 DEF EvmDone, EvmJob
  <2>5. ASSUME evmJob[d].fresh PROVE AtRest'
    <3>1. Fresh(evmJob[d])
      BY <1>a, <2>5 DEF TickSound
    <3>2. CASE preimage /\ r.claimTx # 0 /\ s.claim = "pending"
      <4>1. r.claimTx \in Nat /\ r.claimTx <= Len(claims)
        BY <1>a, <1>r DEF EvmRow, TickSound, Lasting, DeadlinesOrdered
      <4>2. r.claimTx \in DOMAIN claims
        BY <1>a, <3>2, <4>1
      <4>3. claims[r.claimTx] = "pending"
        BY <1>a, <3>1, <3>2 DEF Fresh
      <4> QED
        BY <1>u, <4>2, <4>3 DEF AtRest, world
    <3>3. CASE payout = "none"
      BY <1>u, <3>3 DEF AtRest, world
    <3>4. CASE evmClock < EvmRefundAt
      BY <1>a, <1>u, <3>4 DEF AtRest, still, DeadlinesOrdered
    <3>5. ~(~preimage /\ r.state = "claiming")
      BY <1>a DEF arkadePreimage, TickSound, Lasting
    <3>6. r.state = "quoted" \/ ~s.funded => payout = "none"
      BY <1>a, <3>1 DEF Fresh
    <3> QED
      BY <1>1, <1>q, <3>2, <3>3, <3>4, <3>5, <3>6 DEF Presupposes
  <2>6. rested' \in BOOLEAN /\ (rested' = rested \/ AtRest')
    BY <1>a, <2>4, <2>5
  <2>7. evmJob'[d].pc # "fund"
    BY <2>2 DEF EvmIdle
  <2> QED
    BY <1>a, <1>u, <1>w, <2>2, <2>3, <2>6, <2>7, QuietStep
<1>2. CASE plan # "wait"
  <2>1. EvmGoto(d, plan)
    BY <1>2 DEF Reread
  <2>0. plan \in EvmSteps /\ plan # "fund"
    BY <1>q DEF EvmSteps, Plans
  <2>2. /\ Running' = Running /\ evmJob' \in [Running -> EvmJob] /\ evmJob'[d] = [evmJob[d] EXCEPT !.pc = plan]
        /\ \A e \in Running \ {d} : evmJob'[e] = evmJob[e]
    BY <1>a, <2>0, <2>1, GotoSound
  <2> HIDE DEF plan
  <2>3. /\ evmJob'[d].pc = plan /\ evmJob'[d].row = r /\ evmJob'[d].seen = s /\ evmJob'[d].tx = evmJob[d].tx
        /\ evmJob'[d].fresh = evmJob[d].fresh
    BY <1>a, <2>2 DEF EvmJob
  <2>4. TickSound(evmJob[d])'
    <3>1. /\ plan \notin {"toFunding", "fund", "sendClaim", "patchClaim", "markRefunded", "refund", "observe", "reread", "idle"}
      BY <1>2, <1>q DEF Plans
    <3>2. s.height \in Nat /\ EvmTimeout \in Nat /\ evmClock \in Nat
      BY <1>a, <1>r DEF Glance, DeadlinesOrdered
    <3>3. plan = "stick" => lock = "claimed" \/ evmClock >= EvmTimeout
      BY <1>a, <1>q, <3>2 DEF Presupposes, TickSound, Lasting, LegsSound
    <3>4. Lasting(evmJob[d])'
      BY <1>a, <1>q, <1>p, <1>u, <2>2, <2>3, <3>1, <3>3 DEF Lasting, TickSound, Presupposes, Firm, world, still
    <3>5. ASSUME evmJob[d].fresh PROVE Fresh(evmJob[d])'
      <4>1. Fresh(evmJob[d])
        BY <1>a, <3>5 DEF TickSound
      <4>2. plan = "refund_arkade" => payout # "claimed"
        BY <1>a, <1>q, <4>1 DEF Fresh, Presupposes, arkadePreimage
      <4> QED
        BY <1>u, <2>2, <2>3, <3>1, <4>2 DEF Fresh, world
    <3> QED
      BY <2>3, <3>4, <3>5 DEF TickSound
  <2>5. rested' = rested
    BY <2>1 DEF EvmGoto
  <2> QED
    BY <1>a, <1>u, <1>w, <2>0, <2>2, <2>3, <2>4, <2>5, QuietStep
<1> QED
  BY <1>1, <1>2

(* A refused row was only ever quoted. *)
LEMMA RefuseStep ==
  ASSUME DeadlinesOrdered, Inv, NEW d \in EvmDriver, Refuse(d)
  PROVE  Inv'
<1> DEFINE new == [evmRow EXCEPT !.state = "refused"]
<1>a. /\ d \in Running /\ evmRow \in EvmRow /\ evmJob \in [Running -> EvmJob] /\ evmJob[d] \in EvmJob /\ RowSound(evmRow)
      /\ claims \in Seq(Outcomes) /\ evmClock \in Nat /\ rested \in BOOLEAN
      /\ evmJob[d].pc = "refuse" /\ TickSound(evmJob[d]) /\ LegsSound
  BY DEF Refuse, EvmAt, Inv, EvmTypeOK
<1>1. conclude(d, evmJob[d].row.state, new) /\ UNCHANGED <<world, still>>
  BY DEF Refuse
<1>2. new \in EvmRow /\ new.state = "refused" /\ new.preimage = evmRow.preimage /\ new.claimTx = evmRow.claimTx
  BY <1>a DEF EvmRow, EvmStates
<1>3. ASSUME evmRow.state = evmJob[d].row.state
      PROVE  RowSound(new) /\ (evmJob[d].row.state = "funding_arkade" => payout # "none")
  <2> HIDE DEF new
  <2> QED
    BY <1>a, <1>2, <1>3 DEF TickSound, Lasting, RowSound
<1> HIDE DEF new
<1> QED
  BY <1>a, <1>1, <1>2, <1>3, ConcludeStep

(* A row is parked over sats that were taken. *)
LEMMA StickStep ==
  ASSUME DeadlinesOrdered, Inv, NEW d \in EvmDriver, Stick(d)
  PROVE  Inv'
<1> DEFINE new == [evmRow EXCEPT !.state = "stuck"]
<1>a. /\ d \in Running /\ evmRow \in EvmRow /\ evmJob \in [Running -> EvmJob] /\ evmJob[d] \in EvmJob /\ RowSound(evmRow)
      /\ claims \in Seq(Outcomes) /\ evmClock \in Nat /\ rested \in BOOLEAN
      /\ evmJob[d].pc = "stick" /\ TickSound(evmJob[d]) /\ LegsSound
  BY DEF Stick, EvmAt, Inv, EvmTypeOK
<1>1. conclude(d, evmJob[d].row.state, new) /\ UNCHANGED <<world, still>>
  BY DEF Stick
<1>2. new \in EvmRow /\ new.state = "stuck" /\ new.preimage = evmRow.preimage /\ new.claimTx = evmRow.claimTx
  BY <1>a DEF EvmRow, EvmStates
<1>3. ASSUME evmRow.state = evmJob[d].row.state
      PROVE  RowSound(new) /\ (evmJob[d].row.state = "funding_arkade" => payout # "none")
  <2> HIDE DEF new
  <2> QED
    BY <1>a, <1>2, <1>3 DEF TickSound, Lasting, RowSound
<1> HIDE DEF new
<1> QED
  BY <1>a, <1>1, <1>2, <1>3, ConcludeStep

(* The lockup was seen funded. *)
LEMMA ToAwaitingClaimStep ==
  ASSUME DeadlinesOrdered, Inv, NEW d \in EvmDriver, ToAwaitingClaim(d)
  PROVE  Inv'
<1> DEFINE new == [evmRow EXCEPT !.state = "awaiting_claim"]
<1>a. /\ d \in Running /\ evmRow \in EvmRow /\ evmJob \in [Running -> EvmJob] /\ evmJob[d] \in EvmJob /\ RowSound(evmRow)
      /\ claims \in Seq(Outcomes) /\ evmClock \in Nat /\ rested \in BOOLEAN
      /\ evmJob[d].pc = "await_claim" /\ TickSound(evmJob[d]) /\ LegsSound
  BY DEF ToAwaitingClaim, EvmAt, Inv, EvmTypeOK
<1>1. conclude(d, evmJob[d].row.state, new) /\ UNCHANGED <<world, still>>
  BY DEF ToAwaitingClaim
<1>2. new \in EvmRow /\ new.state = "awaiting_claim" /\ new.preimage = evmRow.preimage /\ new.claimTx = evmRow.claimTx
  BY <1>a DEF EvmRow, EvmStates
<1>3. ASSUME evmRow.state = evmJob[d].row.state
      PROVE  RowSound(new) /\ (evmJob[d].row.state = "funding_arkade" => payout # "none")
  <2> HIDE DEF new
  <2> QED
    BY <1>a, <1>2, <1>3 DEF TickSound, Lasting, RowSound
<1> HIDE DEF new
<1> QED
  BY <1>a, <1>1, <1>2, <1>3, ConcludeStep

(* The claim was seen mined. *)
LEMMA RecordClaimStep ==
  ASSUME DeadlinesOrdered, Inv, NEW d \in EvmDriver, RecordClaim(d)
  PROVE  Inv'
<1> DEFINE new == [evmRow EXCEPT !.state = "claimed"]
<1>a. /\ d \in Running /\ evmRow \in EvmRow /\ evmJob \in [Running -> EvmJob] /\ evmJob[d] \in EvmJob /\ RowSound(evmRow)
      /\ claims \in Seq(Outcomes) /\ evmClock \in Nat /\ rested \in BOOLEAN
      /\ evmJob[d].pc = "record_claim" /\ TickSound(evmJob[d]) /\ LegsSound
  BY DEF RecordClaim, EvmAt, Inv, EvmTypeOK
<1>1. conclude(d, "claiming", new) /\ UNCHANGED <<world, still>>
  BY DEF RecordClaim
<1>2. new \in EvmRow /\ new.state = "claimed" /\ new.preimage = evmRow.preimage /\ new.claimTx = evmRow.claimTx
  BY <1>a DEF EvmRow, EvmStates
<1>3. ASSUME evmRow.state = "claiming"
      PROVE  RowSound(new) /\ ("claiming" = "funding_arkade" => payout # "none")
  <2> HIDE DEF new
  <2> QED
    BY <1>a, <1>2, <1>3 DEF TickSound, Lasting, RowSound
<1> HIDE DEF new
<1> QED
  BY <1>a, <1>1, <1>2, <1>3, ConcludeStep

(* The sats came home. *)
LEMMA MarkRefundedStep ==
  ASSUME DeadlinesOrdered, Inv, NEW d \in EvmDriver, MarkRefunded(d)
  PROVE  Inv'
<1> DEFINE new == [evmRow EXCEPT !.state = "refunded"]
<1>a. /\ d \in Running /\ evmRow \in EvmRow /\ evmJob \in [Running -> EvmJob] /\ evmJob[d] \in EvmJob /\ RowSound(evmRow)
      /\ claims \in Seq(Outcomes) /\ evmClock \in Nat /\ rested \in BOOLEAN
      /\ evmJob[d].pc = "markRefunded" /\ TickSound(evmJob[d]) /\ LegsSound
  BY DEF MarkRefunded, EvmAt, Inv, EvmTypeOK
<1>1. conclude(d, "refunding_arkade", new) /\ UNCHANGED <<world, still>>
  BY DEF MarkRefunded
<1>2. new \in EvmRow /\ new.state = "refunded" /\ new.preimage = evmRow.preimage /\ new.claimTx = evmRow.claimTx
  BY <1>a DEF EvmRow, EvmStates
<1>3. ASSUME evmRow.state = "refunding_arkade"
      PROVE  RowSound(new) /\ ("refunding_arkade" = "funding_arkade" => payout # "none")
  <2> HIDE DEF new
  <2> QED
    BY <1>a, <1>2, <1>3 DEF TickSound, Lasting, RowSound
<1> HIDE DEF new
<1> QED
  BY <1>a, <1>1, <1>2, <1>3, ConcludeStep

(* The window is looked at once more. *)
LEMMA FundWindowStep ==
  ASSUME DeadlinesOrdered, Inv, NEW d \in EvmDriver, FundWindow(d)
  PROVE  Inv'
<1> DEFINE pc == IF evmReceiveFundWindowClosed(evmClock) THEN "refuse" ELSE "toFunding"
<1>a. /\ d \in Running /\ evmRow \in EvmRow /\ evmJob \in [Running -> EvmJob] /\ evmJob[d] \in EvmJob /\ RowSound(evmRow)
      /\ claims \in Seq(Outcomes) /\ evmClock \in Nat /\ rested \in BOOLEAN
      /\ evmJob[d].pc = "fund_arkade" /\ TickSound(evmJob[d]) /\ LegsSound
  BY DEF FundWindow, EvmAt, Inv, EvmTypeOK
<1>1. EvmGoto(d, pc) /\ UNCHANGED <<evmRow, world, still>> /\ rested' = rested
  BY DEF FundWindow, EvmGoto
<1>2. pc \in EvmSteps /\ pc \in {"refuse", "toFunding"} /\ (pc = "toFunding" => evmClock < EvmTimeout)
  BY <1>a DEF EvmSteps, Plans, evmReceiveFundWindowClosed, DeadlinesOrdered
<1> HIDE DEF pc
<1>3. /\ Running' = Running /\ evmJob' \in [Running -> EvmJob] /\ evmJob'[d] = [evmJob[d] EXCEPT !.pc = pc]
      /\ \A e \in Running \ {d} : evmJob'[e] = evmJob[e]
  BY <1>a, <1>1, <1>2, GotoSound
<1>4. /\ evmJob'[d].pc = pc /\ evmJob'[d].row = evmJob[d].row /\ evmJob'[d].seen = evmJob[d].seen /\ evmJob'[d].tx = evmJob[d].tx
  BY <1>a, <1>3 DEF EvmJob
<1>5. TickSound(evmJob[d])'
  <2>1. Lasting(evmJob[d])'
    BY <1>a, <1>1, <1>2, <1>3, <1>4 DEF Lasting, TickSound, world, still
  <2>2. Fresh(evmJob[d])'
    BY <1>2, <1>3, <1>4 DEF Fresh
  <2> QED
    BY <2>1, <2>2 DEF TickSound
<1>6. RowSound(evmRow)'
  BY <1>a, <1>1 DEF RowSound, world, still
<1> QED
  BY <1>a, <1>1, <1>2, <1>3, <1>4, <1>5, <1>6, QuietStep

(* One process takes the row for its funding. *)
LEMMA ToFundingStep ==
  ASSUME DeadlinesOrdered, Inv, NEW d \in EvmDriver, ToFunding(d)
  PROVE  Inv'
<1> DEFINE new == [evmRow EXCEPT !.state = "funding_arkade"]
<1>a. /\ d \in Running /\ evmRow \in EvmRow /\ evmJob \in [Running -> EvmJob] /\ evmJob[d] \in EvmJob /\ RowSound(evmRow)
      /\ claims \in Seq(Outcomes) /\ evmClock \in Nat /\ rested \in BOOLEAN
      /\ evmJob[d].pc = "toFunding" /\ TickSound(evmJob[d]) /\ LegsSound
  BY DEF ToFunding, EvmAt, Inv, EvmTypeOK
<1>q. evmJob[d].row.state = "quoted"
  BY <1>a DEF TickSound, Lasting
<1>1. evmTransition(d, "quoted", new, "fund") /\ UNCHANGED <<world, still>>
  BY <1>q DEF ToFunding
<1>2. new \in EvmRow /\ new.state = "funding_arkade" /\ new.preimage = evmRow.preimage /\ new.claimTx = evmRow.claimTx
  BY <1>a DEF EvmRow, EvmStates
<1> HIDE DEF new
<1>3. CASE evmRow.state = "quoted"
  <2>1. evmRow' = new /\ EvmGoto(d, "fund") /\ rested' = rested
    BY <1>1, <1>3 DEF evmTransition, EvmWon, EvmGoto
  <2>2. /\ Running' = Running /\ evmJob' \in [Running -> EvmJob] /\ evmJob'[d] = [evmJob[d] EXCEPT !.pc = "fund"]
        /\ \A e \in Running \ {d} : evmJob'[e] = evmJob[e]
    BY <1>a, <2>1, GotoSound DEF EvmSteps
  <2>3. /\ evmJob'[d].pc = "fund" /\ evmJob'[d].row = evmJob[d].row /\ evmJob'[d].seen = evmJob[d].seen /\ evmJob'[d].tx = evmJob[d].tx
    BY <1>a, <2>2 DEF EvmJob
  <2>4. TickSound(evmJob[d])'
    <3>0. payout = "none"
      BY <1>a, <1>3 DEF RowSound
    <3>1. Lasting(evmJob[d])'
      BY <1>a, <1>1, <1>2, <2>1, <2>2, <2>3, <3>0 DEF Lasting, TickSound, world, still
    <3>2. Fresh(evmJob[d])'
      BY <2>2, <2>3 DEF Fresh
    <3> QED
      BY <3>1, <3>2 DEF TickSound
  <2>5. RowSound(evmRow)'
    BY <1>a, <1>1, <1>2, <1>3, <2>1 DEF RowSound, world, still
  <2> QED
    BY <1>a, <1>1, <1>2, <1>3, <2>1, <2>2, <2>3, <2>4, <2>5, QuietStep
<1>4. CASE evmRow.state # "quoted"
  <2>1. conclude(d, "quoted", new)
    BY <1>1, <1>4 DEF evmTransition, conclude, EvmWon
  <2> QED
    BY <1>a, <1>1, <1>4, <2>1, ConcludeStep
<1> QED
  BY <1>3, <1>4

(* The sats go out. *)
LEMMA FundArkadeStep ==
  ASSUME DeadlinesOrdered, Inv, NEW d \in EvmDriver, fundArkade(d)
  PROVE  Inv'
<1>a. /\ d \in Running /\ evmRow \in EvmRow /\ evmJob \in [Running -> EvmJob] /\ evmJob[d] \in EvmJob /\ RowSound(evmRow)
      /\ claims \in Seq(Outcomes) /\ evmClock \in Nat /\ rested \in BOOLEAN
      /\ evmJob[d].pc = "fund" /\ TickSound(evmJob[d]) /\ LegsSound
  BY DEF fundArkade, EvmAt, Inv, EvmTypeOK
<1>b. EvmTypeOK /\ OneFunder /\ \A e \in Running : TickSound(evmJob[e])
  BY DEF Inv
<1>c. evmRow.state = "funding_arkade" /\ payout = "none" /\ evmClock < EvmTimeout /\ lock \in Firm /\ lock # "claimed"
  BY <1>a DEF TickSound, Lasting, LegsSound
<1>1. /\ fundings' = fundings + 1 /\ payout' = "out" /\ rested' = FALSE
      /\ UNCHANGED <<evmRow, lock, claims, evmClock, evmFaults>>
  BY DEF fundArkade, still
<1>2. /\ Running' = Running /\ evmJob' \in [Running -> EvmJob] /\ evmJob'[d] = EvmIdle
      /\ \A e \in Running \ {d} : /\ evmJob'[e].pc = evmJob[e].pc /\ evmJob'[e].row = evmJob[e].row
                                  /\ evmJob'[e].seen = evmJob[e].seen /\ evmJob'[e].tx = evmJob[e].tx
                                  /\ evmJob'[e].fresh = FALSE
  BY <1>a, IdleType DEF fundArkade, Running, EvmJob
<1>3. EvmTypeOK'
  <2>1. rested' \in BOOLEAN
    BY <1>1
  <2>2. fundings' \in Nat
    BY <1>b, <1>1 DEF EvmTypeOK
  <2> QED
    BY <1>b, <1>1, <1>2, <2>1, <2>2 DEF EvmTypeOK
<1>4. RowSound(evmRow)'
  BY <1>a, <1>c, <1>1 DEF RowSound
<1>5. LegsSound'
  BY <1>a, <1>c, <1>1 DEF LegsSound
<1>6. OneFunder'
  BY <1>a, <1>b, <1>2 DEF OneFunder, EvmIdle
<1>7. AtRest' /\ Over'
  BY <1>a, <1>c, <1>1 DEF AtRest, Over, DeadlinesOrdered
<1>8. ASSUME NEW e \in Running PROVE TickSound(evmJob[e])'
  <2>1. CASE e = d
    BY <1>a, <1>1, <1>2, <2>1, IdleSound
  <2>2. CASE e # d
    <3>1. evmJob[e].pc # "fund" /\ Lasting(evmJob[e])
      BY <1>a, <1>b, <2>2 DEF OneFunder, TickSound
    <3>2. Lasting(evmJob[e])'
      BY <1>a, <1>c, <1>1, <1>2, <2>2, <3>1 DEF Lasting
    <3> QED
      BY <1>2, <2>2, <3>2 DEF TickSound
  <2> QED
    BY <2>1, <2>2
<1> QED
  BY <1>2, <1>3, <1>4, <1>5, <1>6, <1>7, <1>8 DEF Inv

----------------------------------------------------------------------------
(* The preimage is recorded before it is used. *)
LEMMA ToClaimingStep ==
  ASSUME DeadlinesOrdered, Inv, NEW d \in EvmDriver, EvmToClaiming(d)
  PROVE  Inv'
<1> DEFINE new == [evmRow EXCEPT !.state = "claiming", !.preimage = TRUE]
<1>a. /\ d \in Running /\ evmRow \in EvmRow /\ evmJob \in [Running -> EvmJob] /\ evmJob[d] \in EvmJob /\ RowSound(evmRow)
      /\ claims \in Seq(Outcomes) /\ evmClock \in Nat /\ rested \in BOOLEAN
      /\ evmJob[d].pc = "claim_evm" /\ TickSound(evmJob[d]) /\ LegsSound
  BY DEF EvmToClaiming, EvmAt, Inv, EvmTypeOK
<1>c. payout = "claimed" /\ UNCHANGED <<world, still>>
  BY <1>a DEF TickSound, Lasting, EvmToClaiming
<1>1. new \in EvmRow /\ new.state = "claiming" /\ new.preimage /\ new.claimTx = evmRow.claimTx
  BY <1>a DEF EvmRow, EvmStates
<1>2. \/ EvmGoto(d, "sendClaim") /\ (evmRow' = evmRow \/ evmRow' = new)
      \/ evmRow.state # evmJob[d].row.state /\ conclude(d, evmJob[d].row.state, new)
  BY DEF EvmToClaiming, evmTransition, conclude, EvmWon
<1> HIDE DEF new
<1>3. CASE EvmGoto(d, "sendClaim") /\ (evmRow' = evmRow \/ evmRow' = new)
  <2>1. /\ Running' = Running /\ evmJob' \in [Running -> EvmJob] /\ evmJob'[d] = [evmJob[d] EXCEPT !.pc = "sendClaim"]
        /\ \A e \in Running \ {d} : evmJob'[e] = evmJob[e]
    BY <1>a, <1>3, GotoSound DEF EvmSteps
  <2>2. /\ evmJob'[d].pc = "sendClaim" /\ evmJob'[d].row = evmJob[d].row /\ evmJob'[d].seen = evmJob[d].seen /\ evmJob'[d].tx = evmJob[d].tx
    BY <1>a, <2>1 DEF EvmJob
  <2>3. TickSound(evmJob[d])'
    <3>1. Lasting(evmJob[d])'
      BY <1>a, <1>c, <2>1, <2>2 DEF Lasting, TickSound, world, still
    <3>2. Fresh(evmJob[d])'
      BY <2>1, <2>2 DEF Fresh
    <3> QED
      BY <3>1, <3>2 DEF TickSound
  <2>4. RowSound(evmRow)' /\ evmRow' \in EvmRow
    BY <1>a, <1>c, <1>1, <1>3 DEF RowSound, world, still
  <2>5. rested' = rested
    BY <1>3 DEF EvmGoto
  <2> QED
    BY <1>a, <1>c, <2>1, <2>2, <2>3, <2>4, <2>5, QuietStep
<1>4. CASE evmRow.state # evmJob[d].row.state /\ conclude(d, evmJob[d].row.state, new)
  BY <1>a, <1>c, <1>4, ConcludeStep
<1> QED
  BY <1>2, <1>3, <1>4

(* A claim transaction goes out. *)
LEMMA SendClaimStep ==
  ASSUME DeadlinesOrdered, Inv, NEW d \in EvmDriver, SendClaim(d)
  PROVE  Inv'
<1>a. /\ d \in Running /\ evmRow \in EvmRow /\ evmJob \in [Running -> EvmJob] /\ evmJob[d] \in EvmJob /\ RowSound(evmRow)
      /\ claims \in Seq(Outcomes) /\ evmClock \in Nat /\ rested \in BOOLEAN
      /\ evmJob[d].pc = "sendClaim" /\ TickSound(evmJob[d]) /\ LegsSound
  BY DEF SendClaim, EvmAt, Inv, EvmTypeOK
<1>b. EvmTypeOK /\ OneFunder /\ AtRest /\ Over /\ \A e \in Running : TickSound(evmJob[e])
  BY DEF Inv
<1>c. payout = "claimed" /\ Len(claims) < MaxClaims
  BY <1>a DEF TickSound, Lasting, SendClaim
<1>1. /\ claims' = Append(claims, "pending")
      /\ UNCHANGED <<evmRow, lock, payout, fundings, rested, evmClock, evmFaults>>
  BY DEF SendClaim, still
<1>2. /\ claims' \in Seq(Outcomes) /\ Len(claims') = Len(claims) + 1 /\ Len(claims) \in Nat
      /\ DOMAIN claims = 1..Len(claims) /\ DOMAIN claims' = 1..(Len(claims) + 1)
      /\ claims'[Len(claims) + 1] = "pending" /\ \A i \in 1..Len(claims) : claims'[i] = claims[i]
  BY <1>a, <1>1 DEF Outcomes
<1>3. Len(claims') <= MaxClaims /\ Len(claims) + 1 \in 0..MaxClaims
  BY <1>c, <1>2 DEF DeadlinesOrdered
<1>4. /\ Running' = Running /\ evmJob' \in [Running -> EvmJob]
      /\ evmJob'[d] = [evmJob[d] EXCEPT !.pc = "patchClaim", !.tx = Len(claims) + 1]
      /\ \A e \in Running \ {d} : evmJob'[e] = evmJob[e]
  BY <1>a, <1>3 DEF SendClaim, Running, EvmJob, EvmSteps
<1>5. /\ evmJob'[d].pc = "patchClaim" /\ evmJob'[d].row = evmJob[d].row /\ evmJob'[d].seen = evmJob[d].seen
      /\ evmJob'[d].tx = Len(claims) + 1
  BY <1>a, <1>4 DEF EvmJob
<1>6. EvmTypeOK'
  BY <1>b, <1>1, <1>2, <1>3, <1>4 DEF EvmTypeOK
<1>7. RowSound(evmRow)'
  <2>1. evmRow.claimTx <= Len(claims')
    BY <1>a, <1>2 DEF RowSound, EvmRow, DeadlinesOrdered
  <2> QED
    BY <1>a, <1>1, <2>1 DEF RowSound
<1>8. LegsSound'
  <2>1. ASSUME NEW i \in DOMAIN claims'
        PROVE  claims'[i] = "pending" \/ (i \in DOMAIN claims /\ claims'[i] = claims[i])
    BY <1>2
  <2> QED
    BY <1>a, <1>c, <1>1, <2>1 DEF LegsSound
<1>9. OneFunder'
  <2>1. \A e \in Running : evmJob'[e].pc = "fund" => evmJob[e].pc = "fund"
    BY <1>4, <1>5
  <2> QED
    BY <1>b, <1>4, <2>1 DEF OneFunder
<1>10. AtRest' /\ Over'
  BY <1>b, <1>1, <1>2 DEF AtRest, Over
<1>11. ASSUME NEW e \in Running PROVE TickSound(evmJob[e])'
  <2>0. evmJob[e].row.claimTx \in Nat /\ evmJob[e].tx \in Nat /\ Lasting(evmJob[e]) /\ evmJob[e] \in EvmJob
    BY <1>a, <1>b DEF EvmJob, EvmRow, DeadlinesOrdered, TickSound
  <2>1. CASE e = d
    <3>1. Lasting(evmJob[d])'
      BY <1>c, <1>1, <1>2, <1>4, <1>5, <2>0, <2>1 DEF Lasting
    <3>2. Fresh(evmJob[d])'
      BY <1>4, <1>5 DEF Fresh
    <3> QED
      BY <2>1, <3>1, <3>2 DEF TickSound
  <2>2. CASE e # d
    <3>1. Lasting(evmJob[e])'
      BY <1>1, <1>2, <1>4, <2>0, <2>2 DEF Lasting
    <3>2. ASSUME evmJob[e].fresh PROVE Fresh(evmJob[e])'
      <4>1. Fresh(evmJob[e])
        BY <1>b, <3>2 DEF TickSound
      <4>2. evmJob[e].row.claimTx # 0 => claims'[evmJob[e].row.claimTx] = claims[evmJob[e].row.claimTx]
        BY <1>2, <2>0 DEF Lasting
      <4> QED
        BY <1>1, <1>4, <2>2, <4>1, <4>2 DEF Fresh
    <3> QED
      BY <1>4, <2>2, <3>1, <3>2 DEF TickSound
  <2> QED
    BY <2>1, <2>2
<1> QED
  BY <1>4, <1>6, <1>7, <1>8, <1>9, <1>10, <1>11 DEF Inv

(* Its txid is recorded. *)
LEMMA PatchClaimStep ==
  ASSUME DeadlinesOrdered, Inv, NEW d \in EvmDriver, PatchClaim(d)
  PROVE  Inv'
<1>a. /\ d \in Running /\ evmRow \in EvmRow /\ evmJob \in [Running -> EvmJob] /\ evmJob[d] \in EvmJob /\ RowSound(evmRow)
      /\ claims \in Seq(Outcomes) /\ evmClock \in Nat /\ rested \in BOOLEAN
      /\ evmJob[d].pc = "patchClaim" /\ TickSound(evmJob[d]) /\ LegsSound
  BY DEF PatchClaim, EvmAt, Inv, EvmTypeOK
<1>1. /\ evmRow' = [evmRow EXCEPT !.claimTx = evmJob[d].tx] /\ evmJob' = [evmJob EXCEPT ![d] = EvmIdle]
      /\ UNCHANGED <<world, rested, still>>
  BY DEF PatchClaim
<1>2. /\ evmRow' \in EvmRow /\ evmRow'.state = evmRow.state /\ evmRow'.preimage = evmRow.preimage /\ evmRow'.claimTx = evmJob[d].tx
  BY <1>a, <1>1 DEF EvmRow, EvmJob
<1>3. /\ Running' = Running /\ evmJob' \in [Running -> EvmJob] /\ evmJob'[d] = EvmIdle
      /\ \A e \in Running \ {d} : evmJob'[e] = evmJob[e]
  BY <1>a, <1>1, EndSound
<1>4. TickSound(evmJob[d])'
  BY <1>a, <1>1, <1>3, IdleSound DEF world, still
<1>5. RowSound(evmRow)'
  BY <1>a, <1>1, <1>2 DEF RowSound, TickSound, Lasting, world, still
<1>6. evmJob'[d].pc # "fund"
  BY <1>3 DEF EvmIdle
<1> QED
  BY <1>a, <1>1, <1>2, <1>3, <1>4, <1>5, <1>6, QuietStep

----------------------------------------------------------------------------
(* A refund is decided. *)
LEMMA ToRefundingStep ==
  ASSUME DeadlinesOrdered, Inv, NEW d \in EvmDriver, EvmToRefunding(d)
  PROVE  Inv'
<1> DEFINE new == [evmRow EXCEPT !.state = "refunding_arkade"]
<1>a. /\ d \in Running /\ evmRow \in EvmRow /\ evmJob \in [Running -> EvmJob] /\ evmJob[d] \in EvmJob /\ RowSound(evmRow)
      /\ claims \in Seq(Outcomes) /\ evmClock \in Nat /\ rested \in BOOLEAN
      /\ evmJob[d].pc = "refund_arkade" /\ TickSound(evmJob[d]) /\ LegsSound
  BY DEF EvmToRefunding, EvmAt, Inv, EvmTypeOK
<1>c. UNCHANGED <<world, still>> /\ evmJob[d].row.state \in {"awaiting_claim", "refunding_arkade"}
  BY <1>a DEF TickSound, Lasting, EvmToRefunding
<1>1. new \in EvmRow /\ new.state = "refunding_arkade" /\ new.preimage = evmRow.preimage /\ new.claimTx = evmRow.claimTx
  BY <1>a DEF EvmRow, EvmStates
<1>2. \/ EvmGoto(d, "refund") /\ (evmRow' = evmRow \/ (evmRow.state = "awaiting_claim" /\ evmRow' = new))
      \/ evmRow.state # evmJob[d].row.state /\ conclude(d, evmJob[d].row.state, new)
  BY <1>c DEF EvmToRefunding, evmTransition, conclude, EvmWon
<1> HIDE DEF new
<1>3. CASE EvmGoto(d, "refund") /\ (evmRow' = evmRow \/ (evmRow.state = "awaiting_claim" /\ evmRow' = new))
  <2>1. /\ Running' = Running /\ evmJob' \in [Running -> EvmJob] /\ evmJob'[d] = [evmJob[d] EXCEPT !.pc = "refund"]
        /\ \A e \in Running \ {d} : evmJob'[e] = evmJob[e]
    BY <1>a, <1>3, GotoSound DEF EvmSteps
  <2>2. /\ evmJob'[d].pc = "refund" /\ evmJob'[d].row = evmJob[d].row /\ evmJob'[d].seen = evmJob[d].seen /\ evmJob'[d].tx = evmJob[d].tx
        /\ evmJob'[d].fresh = evmJob[d].fresh
    BY <1>a, <2>1 DEF EvmJob
  <2>3. TickSound(evmJob[d])'
    <3>1. Lasting(evmJob[d])'
      BY <1>a, <1>c, <2>1, <2>2 DEF Lasting, TickSound, world, still
    <3>2. evmJob[d].fresh => Fresh(evmJob[d])'
      BY <1>a, <1>c, <2>1, <2>2 DEF Fresh, TickSound, world
    <3> QED
      BY <2>2, <3>1, <3>2 DEF TickSound
  <2>4. /\ RowSound(evmRow)' /\ evmRow' \in EvmRow
        /\ evmRow.state = "funding_arkade" => evmRow'.state = "funding_arkade"
    BY <1>a, <1>c, <1>1, <1>3 DEF RowSound, world, still
  <2>5. rested' = rested
    BY <1>3 DEF EvmGoto
  <2> QED
    BY <1>a, <1>c, <2>1, <2>2, <2>3, <2>4, <2>5, QuietStep
<1>4. CASE evmRow.state # evmJob[d].row.state /\ conclude(d, evmJob[d].row.state, new)
  BY <1>a, <1>c, <1>4, ConcludeStep
<1> QED
  BY <1>2, <1>3, <1>4

(* The sats come home, if they are still out. *)
LEMMA RefundArkadeStep ==
  ASSUME DeadlinesOrdered, Inv, NEW d \in EvmDriver, refundArkade(d)
  PROVE  Inv'
<1>a. /\ d \in Running /\ evmRow \in EvmRow /\ evmJob \in [Running -> EvmJob] /\ evmJob[d] \in EvmJob /\ RowSound(evmRow)
      /\ claims \in Seq(Outcomes) /\ evmClock \in Nat /\ rested \in BOOLEAN
      /\ evmJob[d].pc = "refund" /\ TickSound(evmJob[d]) /\ LegsSound
  BY DEF refundArkade, EvmAt, Inv, EvmTypeOK
<1>b. EvmTypeOK /\ OneFunder /\ AtRest /\ Over /\ \A e \in Running : TickSound(evmJob[e])
  BY DEF Inv
<1>1. CASE payout = "out"
  <2>1. payout' = "refunded" /\ EvmGoto(d, "markRefunded") /\ UNCHANGED <<evmRow, lock, fundings, claims, evmClock, evmFaults, rested>>
    BY <1>1 DEF refundArkade, still, EvmGoto
  <2>2. /\ Running' = Running /\ evmJob' \in [Running -> EvmJob] /\ evmJob'[d] = [evmJob[d] EXCEPT !.pc = "markRefunded"]
        /\ \A e \in Running \ {d} : evmJob'[e] = evmJob[e]
    BY <1>a, <2>1, GotoSound DEF EvmSteps
  <2>3. /\ evmJob'[d].pc = "markRefunded" /\ evmJob'[d].row = evmJob[d].row /\ evmJob'[d].seen = evmJob[d].seen /\ evmJob'[d].tx = evmJob[d].tx
    BY <1>a, <2>2 DEF EvmJob
  <2>4. EvmTypeOK'
    BY <1>b, <2>1, <2>2 DEF EvmTypeOK
  <2>5. RowSound(evmRow)' /\ LegsSound'
    BY <1>1, <1>a, <2>1 DEF RowSound, LegsSound
  <2>6. OneFunder'
    <3>1. \A e \in Running : evmJob'[e].pc = "fund" => evmJob[e].pc = "fund"
      BY <2>2, <2>3
    <3> QED
      BY <1>b, <2>2, <3>1 DEF OneFunder
  <2>8. AtRest' /\ Over'
    BY <1>b, <2>1 DEF AtRest, Over
  <2>7. ASSUME NEW e \in Running PROVE TickSound(evmJob[e])'
    <3>1. TickSound(evmJob[e])
      BY <1>b
    <3>2. CASE e = d
      <4>1. Lasting(evmJob[d])'
        BY <1>1, <1>a, <2>1, <2>2, <2>3 DEF Lasting, TickSound
      <4>2. Fresh(evmJob[d])'
        BY <2>2, <2>3 DEF Fresh
      <4> QED
        BY <3>2, <4>1, <4>2 DEF TickSound
    <3>3. CASE e # d
      <4>1. Lasting(evmJob[e])'
        BY <1>1, <2>1, <2>2, <3>1, <3>3 DEF Lasting, TickSound
      <4>2. evmJob[e].fresh => Fresh(evmJob[e])'
        BY <1>1, <2>1, <2>2, <3>1, <3>3 DEF Fresh, TickSound
      <4> QED
        BY <2>2, <3>3, <4>1, <4>2 DEF TickSound
    <3> QED
      BY <3>2, <3>3
  <2> QED
    BY <2>2, <2>4, <2>5, <2>6, <2>7, <2>8 DEF Inv
<1>2. CASE payout # "out"
  <2>1. EvmDone(d) /\ UNCHANGED <<evmRow, world, still>>
    BY <1>2 DEF refundArkade, world
  <2>2. /\ Running' = Running /\ evmJob' \in [Running -> EvmJob] /\ evmJob'[d] = EvmIdle
        /\ \A e \in Running \ {d} : evmJob'[e] = evmJob[e]
    BY <1>a, <2>1, EndSound DEF EvmDone
  <2>3. TickSound(evmJob[d])'
    BY <1>a, <2>1, <2>2, IdleSound DEF world, still
  <2>4. evmJob[d].fresh \in BOOLEAN /\ rested' = (rested \/ evmJob[d].fresh)
    BY <1>a, <2>1 DEF EvmDone, EvmJob
  <2>5. ASSUME evmJob[d].fresh PROVE AtRest'
    <3>1. payout \in {"none", "refunded"}
      BY <1>2, <1>a, <1>b, <2>5 DEF TickSound, Fresh, EvmTypeOK
    <3> QED
      BY <2>1, <3>1 DEF AtRest, world
  <2>6. rested' \in BOOLEAN /\ (rested' = rested \/ AtRest')
    BY <1>a, <2>4, <2>5
  <2>7. evmJob'[d].pc # "fund" /\ RowSound(evmRow)'
    BY <1>a, <2>1, <2>2 DEF EvmIdle, RowSound, world, still
  <2> QED
    BY <1>a, <2>1, <2>2, <2>3, <2>6, <2>7, QuietStep
<1> QED
  BY <1>1, <1>2

(* A call throws, or the process dies. *)
LEMMA AbandonStep ==
  ASSUME DeadlinesOrdered, Inv, NEW d \in EvmDriver, EvmAbandon(d)
  PROVE  Inv'
<1>a. /\ d \in Running /\ evmRow \in EvmRow /\ evmJob \in [Running -> EvmJob] /\ RowSound(evmRow) /\ EvmTypeOK
      /\ claims \in Seq(Outcomes) /\ evmClock \in Nat /\ evmFaults \in Nat /\ LegsSound /\ OneFunder /\ Over
      /\ \A e \in Running : TickSound(evmJob[e])
  BY DEF EvmAbandon, Inv, EvmTypeOK
<1>1. /\ rested' = FALSE /\ evmJob' = [evmJob EXCEPT ![d] = EvmIdle] /\ evmFaults' = evmFaults + 1
      /\ UNCHANGED <<evmRow, lock, payout, fundings, claims, evmClock>>
  BY DEF EvmAbandon, Fault, world
<1>2. /\ Running' = Running /\ evmJob' \in [Running -> EvmJob] /\ evmJob'[d] = EvmIdle
      /\ \A e \in Running \ {d} : evmJob'[e] = evmJob[e]
  BY <1>a, <1>1, EndSound
<1>3. EvmTypeOK'
  <2>1. rested' \in BOOLEAN
    BY <1>1
  <2>2. evmFaults' \in Nat
    BY <1>a, <1>1
  <2> QED
    BY <1>a, <1>1, <1>2, <2>1, <2>2 DEF EvmTypeOK
<1>4. RowSound(evmRow)' /\ LegsSound' /\ AtRest' /\ Over'
  BY <1>a, <1>1 DEF RowSound, LegsSound, AtRest, Over
<1>5. OneFunder'
  BY <1>a, <1>2 DEF OneFunder, EvmIdle
<1>6. ASSUME NEW e \in Running PROVE TickSound(evmJob[e])'
  <2>1. CASE e = d
    BY <1>a, <1>1, <1>2, <2>1, IdleSound
  <2>2. CASE e # d
    BY <1>a, <1>1, <1>2, <2>2 DEF TickSound, Lasting, Fresh
  <2> QED
    BY <2>1, <2>2
<1> QED
  BY <1>2, <1>3, <1>4, <1>5, <1>6 DEF Inv

----------------------------------------------------------------------------
(* Something happens outside that every tick has yet to see: what the ticks   *)
(* rely on must last.                                                         *)
LEMMA OutsideStep ==
  ASSUME Inv, evmRow' = evmRow, evmJob' = [d \in Running |-> [evmJob[d] EXCEPT !.fresh = FALSE]],
         lock' \in {"none", "shallow", "deep", "claimed", "clientRefunded"},
         payout' \in {"none", "out", "claimed", "refunded"}, fundings' \in Nat,
         claims' \in Seq(Outcomes), Len(claims') <= MaxClaims, rested' \in BOOLEAN,
         evmClock' \in Nat, evmFaults' \in Nat,
         RowSound(evmRow)', LegsSound', AtRest', Over',
         \A j \in EvmJob : Lasting(j) => Lasting(j)'
  PROVE  Inv'
<1>a. evmRow \in EvmRow /\ Running \in Fleets /\ evmJob \in [Running -> EvmJob] /\ OneFunder
  BY DEF Inv, EvmTypeOK
<1>1. /\ Running' = Running /\ evmJob' \in [Running -> EvmJob]
      /\ \A d \in Running : /\ evmJob'[d].pc = evmJob[d].pc /\ evmJob'[d].row = evmJob[d].row
                            /\ evmJob'[d].seen = evmJob[d].seen /\ evmJob'[d].tx = evmJob[d].tx
                            /\ evmJob'[d].fresh = FALSE
  BY <1>a, DisturbSound
<1>2. EvmTypeOK'
  BY <1>a, <1>1 DEF EvmTypeOK
<1>3. OneFunder'
  BY <1>a, <1>1 DEF OneFunder
<1>4. ASSUME NEW d \in Running PROVE TickSound(evmJob[d])'
  <2>1. Lasting(evmJob[d])
    BY DEF Inv, TickSound
  <2> DEFINE k == evmJob'[d]
  <2>2. k \in EvmJob /\ k.pc = evmJob[d].pc /\ k.row = evmJob[d].row /\ k.seen = evmJob[d].seen /\ k.tx = evmJob[d].tx
    BY <1>1
  <2> HIDE DEF k
  <2>3. Lasting(k)
    BY <2>1, <2>2 DEF Lasting
  <2>4. PICK j \in EvmJob : j = k
    BY <2>2
  <2>5. Lasting(j) => Lasting(j)'
    OBVIOUS
  <2> QED
    BY <1>1, <2>3, <2>4, <2>5 DEF TickSound, k, Lasting
<1> QED
  BY <1>1, <1>2, <1>3, <1>4 DEF Inv

(* The lock comes, goes with its block, becomes deep or is taken back. *)
LEMMA LockMoves ==
  ASSUME DeadlinesOrdered, Inv, Disturb, UNCHANGED <<evmRow, payout, fundings, claims, evmClock>>, evmFaults' \in Nat,
         \/ lock \in {"none", "shallow"} /\ lock' \in {"none", "shallow", "deep"}
         \/ lock = "deep" /\ lock' = "clientRefunded" /\ evmClock >= EvmTimeout
  PROVE  Inv'
<1>a. EvmTypeOK /\ RowSound(evmRow) /\ LegsSound /\ Over
  BY DEF Inv
<1>1. claims = <<>>
  BY <1>a DEF LegsSound, Over, Firm
<1>2. \A i \in DOMAIN claims : FALSE
  BY <1>1
<1>3. RowSound(evmRow)' /\ LegsSound' /\ Over'
  BY <1>a, <1>2 DEF RowSound, LegsSound, Over, Firm
<1>4. rested' = FALSE /\ AtRest'
  BY DEF Disturb, AtRest
<1>5. \A j \in EvmJob : Lasting(j) => Lasting(j)'
  BY <1>a DEF LegsSound, Lasting, Firm
<1>6. /\ lock' \in {"none", "shallow", "deep", "claimed", "clientRefunded"}
      /\ payout' \in {"none", "out", "claimed", "refunded"} /\ fundings' \in Nat
      /\ claims' \in Seq(Outcomes) /\ Len(claims') <= MaxClaims /\ evmClock' \in Nat
  BY <1>a DEF EvmTypeOK
<1>7. rested' \in BOOLEAN
  BY <1>4
<1> QED
  BY <1>3, <1>4, <1>5, <1>6, <1>7, OutsideStep DEF Disturb

(* A claim transaction is mined. *)
LEMMA MineClaimStep ==
  ASSUME DeadlinesOrdered, Inv, NEW i \in 1..MaxClaims, MineClaim(i)
  PROVE  Inv'
<1> DEFINE outcome == IF lock \in {"shallow", "deep"} THEN "success" ELSE "reverted"
<1>a. /\ EvmTypeOK /\ RowSound(evmRow) /\ LegsSound /\ Over /\ claims \in Seq(Outcomes) /\ Len(claims) <= MaxClaims
      /\ i \in DOMAIN claims
  BY DEF Inv, EvmTypeOK, MineClaim
<1>1. /\ claims' = [claims EXCEPT ![i] = outcome] /\ lock' = (IF lock \in {"shallow", "deep"} THEN "claimed" ELSE lock)
      /\ UNCHANGED <<evmRow, payout, fundings, evmClock, evmFaults>> /\ Disturb
  BY DEF MineClaim, still
<1>2. /\ claims' \in Seq(Outcomes) /\ Len(claims') = Len(claims) /\ DOMAIN claims' = DOMAIN claims
      /\ claims'[i] = outcome /\ \A k \in DOMAIN claims \ {i} : claims'[k] = claims[k]
  BY <1>a, <1>1 DEF Outcomes
<1>3. payout = "claimed" /\ lock \in Firm /\ claims # <<>>
  BY <1>a DEF LegsSound
<1>4. \/ lock = "deep" /\ lock' = "claimed" /\ outcome = "success"
      \/ lock \in {"claimed", "clientRefunded"} /\ lock' = lock /\ outcome = "reverted"
  BY <1>1, <1>3 DEF Firm
<1> HIDE DEF outcome
<1>5. RowSound(evmRow)' /\ Over'
  BY <1>a, <1>1, <1>2, <1>3, <1>4 DEF RowSound, Over
<1>6. LegsSound'
  <2>1. ASSUME NEW k \in DOMAIN claims'
        PROVE  /\ claims'[k] = "success" => lock' = "claimed"
               /\ claims'[k] = "reverted" => lock' \in {"claimed", "clientRefunded"}
    BY <1>a, <1>2, <1>4 DEF LegsSound
  <2> QED
    BY <1>a, <1>1, <1>3, <1>4, <2>1 DEF LegsSound, Firm
<1>7. rested' = FALSE /\ AtRest'
  BY <1>1 DEF Disturb, AtRest
<1>8. \A j \in EvmJob : Lasting(j) => Lasting(j)'
  BY <1>a, <1>1, <1>2, <1>3, <1>4 DEF Lasting, Firm
<1>9. /\ lock' \in {"none", "shallow", "deep", "claimed", "clientRefunded"}
      /\ payout' \in {"none", "out", "claimed", "refunded"} /\ fundings' \in Nat
      /\ evmClock' \in Nat /\ evmFaults' \in Nat
  BY <1>a, <1>1, <1>4 DEF EvmTypeOK
<1>10. rested' \in BOOLEAN
  BY <1>7
<1> QED
  BY <1>a, <1>1, <1>2, <1>5, <1>6, <1>7, <1>8, <1>9, <1>10, OutsideStep DEF Disturb

(* The client takes the sats. *)
LEMMA ClientClaimsStep ==
  ASSUME DeadlinesOrdered, Inv, EvmClientClaims
  PROVE  Inv'
<1>a. EvmTypeOK /\ RowSound(evmRow) /\ LegsSound /\ Over /\ payout = "out"
  BY DEF Inv, EvmClientClaims
<1>1. payout' = "claimed" /\ Disturb /\ UNCHANGED <<evmRow, lock, fundings, claims, evmClock, evmFaults>>
  BY DEF EvmClientClaims, still
<1>2. RowSound(evmRow)' /\ LegsSound' /\ Over'
  BY <1>a, <1>1 DEF RowSound, LegsSound, Over
<1>3. rested' = FALSE /\ AtRest'
  BY <1>1 DEF Disturb, AtRest
<1>4. \A j \in EvmJob : Lasting(j) => Lasting(j)'
  BY <1>a, <1>1 DEF Lasting
<1>5. /\ lock' \in {"none", "shallow", "deep", "claimed", "clientRefunded"}
      /\ payout' \in {"none", "out", "claimed", "refunded"} /\ fundings' \in Nat
      /\ claims' \in Seq(Outcomes) /\ Len(claims') <= MaxClaims /\ evmClock' \in Nat /\ evmFaults' \in Nat
  BY <1>a, <1>1 DEF EvmTypeOK
<1>6. rested' \in BOOLEAN
  BY <1>3
<1> QED
  BY <1>1, <1>2, <1>3, <1>4, <1>5, <1>6, OutsideStep DEF Disturb

(* Time passes.  The last instant before the client's timeout does not pass   *)
(* before a whole tick has found nothing to do and no claim is under way: the *)
(* sats are then home, or paid for.                                           *)
LEMMA AdvanceStep ==
  ASSUME DeadlinesOrdered, Inv, EvmAdvance
  PROVE  Inv'
<1> USE DEF DeadlinesOrdered
<1>a. /\ EvmTypeOK /\ evmRow \in EvmRow /\ evmJob \in [Running -> EvmJob] /\ evmClock \in Nat
      /\ RowSound(evmRow) /\ LegsSound /\ AtRest /\ Over
  BY DEF Inv, EvmTypeOK
<1>1. /\ evmClock' = evmClock + 1 /\ UNCHANGED <<evmRow, lock, payout, fundings, claims, evmFaults>>
      /\ evmJob' = [d \in Running |-> [evmJob[d] EXCEPT !.fresh = FALSE]]
      /\ evmClock + 1 = EvmTimeout => Settled
  BY DEF EvmAdvance, world
<1>2. RowSound(evmRow)' /\ LegsSound'
  BY <1>a, <1>1 DEF RowSound, LegsSound
<1>3. rested' \in BOOLEAN /\ (rested' => evmClock + 1 >= EvmTimeout)
  BY Zenon DEF EvmAdvance
<1>4. AtRest'
  BY <1>a, <1>1, <1>3 DEF AtRest
<1>5. Over'
  <2>1. CASE evmClock >= EvmTimeout
    BY <1>a, <1>1, <2>1 DEF Over
  <2>2. CASE evmClock + 1 = EvmTimeout
    <3>1. /\ \A i \in DOMAIN claims : claims[i] # "pending"
          /\ rested \/ evmRow.state \notin EvmExposed
      BY <1>1, <2>2 DEF Settled
    <3>2. EvmRefundAt <= evmClock /\ evmClock < EvmTimeout
      BY <1>a, <2>2
    <3>3. CASE rested
      BY <1>a, <1>1, <3>1, <3>2, <3>3 DEF AtRest, Over
    <3>4. CASE evmRow.state \notin EvmExposed
      <4>1. evmRow.state \in {"quoted", "refused", "refunded", "claimed", "stuck"}
        BY <1>a, <3>4 DEF RowSound, EvmRow, EvmStates, EvmExposed
      <4> QED
        BY <1>a, <1>1, <3>2, <4>1 DEF RowSound, Over
    <3> QED
      BY <3>1, <3>3, <3>4
  <2>3. CASE evmClock + 1 < EvmTimeout
    BY <1>1, <2>3, <1>a DEF Over
  <2> QED
    BY <1>a, <2>1, <2>2, <2>3
<1>6. /\ Running' = Running /\ evmJob' \in [Running -> EvmJob]
      /\ \A d \in Running : /\ evmJob'[d].pc = evmJob[d].pc /\ evmJob'[d].row = evmJob[d].row
                            /\ evmJob'[d].seen = evmJob[d].seen /\ evmJob'[d].tx = evmJob[d].tx
                            /\ evmJob'[d].fresh = FALSE
  BY <1>a, <1>1, DisturbSound
<1>7. EvmTypeOK'
  BY <1>a, <1>1, <1>3, <1>6 DEF EvmTypeOK
<1>8. OneFunder'
  BY <1>6 DEF Inv, OneFunder
<1>9. ASSUME NEW d \in Running PROVE TickSound(evmJob[d])'
  <2>1. Lasting(evmJob[d]) /\ evmJob[d] \in EvmJob
    BY <1>a DEF Inv, TickSound
  <2>2. evmClock + 1 = EvmTimeout => evmJob[d].pc \notin {"toFunding", "fund"}
    BY <1>1 DEF Settled
  <2>3. evmJob[d].pc \in {"toFunding", "fund"} => evmClock + 1 < EvmTimeout
    BY <1>a, <2>1, <2>2 DEF Lasting
  <2>4. evmJob[d].seen.height \in Nat
    BY <2>1 DEF EvmJob, Glance
  <2>5. Lasting(evmJob[d])'
    BY <1>a, <1>1, <1>6, <2>1, <2>3, <2>4 DEF Lasting
  <2> QED
    BY <1>6, <2>5 DEF TickSound
<1> QED
  BY <1>2, <1>4, <1>5, <1>6, <1>7, <1>8, <1>9 DEF Inv

----------------------------------------------------------------------------
(* Every step of the corridor, its client and the chain keeps the invariant. *)
LEMMA InvStep ==
  ASSUME DeadlinesOrdered
  PROVE  Inv /\ [EvmReceiveNext]_evmVars => Inv'
<1> SUFFICES ASSUME Inv, [EvmReceiveNext]_evmVars PROVE Inv'
  OBVIOUS
<1>1. CASE UNCHANGED evmVars
  BY <1>1 DEF evmVars, Inv, EvmTypeOK, RowSound, LegsSound, OneFunder, AtRest, Over, Running, TickSound, Lasting, Fresh
<1>2. CASE \E d \in EvmDriver : EvmDriverStep(d)
  BY <1>2, TickStep, ObserveStep, RereadStep, RefuseStep, StickStep, FundWindowStep, ToFundingStep,
     FundArkadeStep, ToAwaitingClaimStep, ToClaimingStep, SendClaimStep, PatchClaimStep, RecordClaimStep,
     ToRefundingStep, RefundArkadeStep, MarkRefundedStep
     DEF EvmDriverStep
<1>3. CASE EvmReorg \/ Bury \/ ClientLocks \/ ClientRefunds
  <2>1. /\ Disturb /\ UNCHANGED <<evmRow, payout, fundings, claims, evmClock>>
        /\ \/ lock \in {"none", "shallow"} /\ lock' \in {"none", "shallow", "deep"}
           \/ lock = "deep" /\ lock' = "clientRefunded" /\ evmClock >= EvmTimeout
        /\ evmFaults' = evmFaults \/ evmFaults' = evmFaults + 1
    BY <1>3 DEF EvmReorg, Bury, ClientLocks, ClientRefunds, Fault, still
  <2>2. evmFaults' \in Nat
    BY <2>1 DEF Inv, EvmTypeOK
  <2> QED
    BY <2>1, <2>2, LockMoves
<1>4. CASE \E d \in EvmDriver : EvmAbandon(d)
  BY <1>4, AbandonStep
<1>5. CASE EvmClientClaims \/ EvmAdvance \/ \E i \in 1..MaxClaims : MineClaim(i)
  BY <1>5, ClientClaimsStep, AdvanceStep, MineClaimStep
<1> QED
  BY <1>1, <1>2, <1>3, <1>4, <1>5 DEF EvmReceiveNext, EvmFaults, EvmClient, Chain

(* A quote just given satisfies it, whichever processes are running. *)
LEMMA InitInv ==
  ASSUME DeadlinesOrdered
  PROVE  EvmReceiveInit => Inv
<1> SUFFICES ASSUME EvmReceiveInit PROVE Inv
  OBVIOUS
<1> USE DEF DeadlinesOrdered
<1>1. PICK fleet \in Fleets : evmJob = [d \in fleet |-> EvmIdle]
  BY DEF EvmReceiveInit
<1>2. Running = fleet /\ \A d \in Running : evmJob[d] = EvmIdle
  BY <1>1 DEF Running
<1>3. /\ evmRow = EvmNewRow /\ lock = "none" /\ payout = "none" /\ fundings = 0 /\ claims = <<>>
      /\ rested = FALSE /\ evmClock = 0 /\ evmFaults = 0
  BY DEF EvmReceiveInit
<1>4. EvmTypeOK
  <2>1. evmJob \in [Running -> EvmJob]
    BY <1>1, <1>2, IdleType
  <2>2. claims \in Seq(Outcomes) /\ Len(claims) <= MaxClaims
    BY <1>3
  <2>3. rested \in BOOLEAN
    BY <1>3
  <2>4. evmRow \in EvmRow
    BY <1>3, IdleType
  <2> QED
    BY <1>2, <1>3, <2>1, <2>2, <2>3, <2>4 DEF EvmTypeOK
<1>5. evmRow.state = "quoted" /\ evmRow.claimTx = 0 /\ ~evmRow.preimage
  BY <1>3 DEF EvmNewRow
<1>6. Len(claims) = 0 /\ \A i \in DOMAIN claims : FALSE
  BY <1>3
<1>7. RowSound(evmRow) /\ LegsSound
  BY <1>3, <1>5, <1>6 DEF RowSound, LegsSound
<1>8. AtRest /\ Over /\ OneFunder
  BY <1>2, <1>3 DEF AtRest, Over, OneFunder, EvmIdle
<1>9. ASSUME NEW d \in Running PROVE TickSound(evmJob[d])
  BY <1>2, <1>3, <1>6 DEF TickSound, Lasting, EvmIdle, EvmNewRow, Blank, EvmLive
<1> QED
  BY <1>4, <1>7, <1>8, <1>9 DEF Inv

(* The invariant holds throughout, whatever the number of processes that tick *)
(* the row, of crashes and of replaced blocks.                                *)
THEOREM EvmReceiveInvariant ==
  ASSUME DeadlinesOrdered
  PROVE  EvmReceiveSpec => []Inv
<1>1. EvmReceiveInit => Inv
  BY InitInv
<1>2. Inv /\ [EvmReceiveNext]_evmVars => Inv'
  BY InvStep
<1> QED
  BY <1>1, <1>2, PTL DEF EvmReceiveSpec

(* However many processes tick the row, wherever one dies and whichever block *)
(* is replaced: the solver pays out once, the client never has both the sats  *)
(* and its tokens, and what the row says happened, happened.                  *)
THEOREM EvmReceiveSafe ==
  ASSUME DeadlinesOrdered
  PROVE  EvmReceiveSpec => []EvmReceiveIsSafe
<1>1. Inv => EvmReceiveIsSafe
  <2> SUFFICES ASSUME Inv PROVE EvmReceiveIsSafe
    OBVIOUS
  <2>1. EvmTypeOK /\ RowSound(evmRow) /\ LegsSound /\ Over
    BY DEF Inv
  <2>2. FundedOnce
    BY <2>1 DEF LegsSound, FundedOnce
  <2>3. NeverPaidForNothing
    BY <2>1 DEF LegsSound, Over, NeverPaidForNothing
  <2>4. EvmRowTellsTheTruth
    BY <2>1 DEF RowSound, EvmRowTellsTheTruth
  <2> QED
    BY <2>1, <2>2, <2>3, <2>4 DEF EvmReceiveIsSafe
<1> QED
  BY <1>1, EvmReceiveInvariant, PTL

----------------------------------------------------------------------------
(* Steps that touch neither leg are none of the abstract swap. *)
LEMMA LegsKept == UNCHANGED <<lock, payout>> => UNCHANGED EvmSwap!vars
BY DEF EvmSwap!vars, EvmClientLeg, EvmPayoutLeg

(* Every step moves at most one leg, and as the abstract swap lets it: sats   *)
(* go out against a lock that is deep, and the tokens are taken for sats that  *)
(* were.                                                                      *)
LEMMA SwapStep ==
  ASSUME DeadlinesOrdered
  PROVE  Inv /\ [EvmReceiveNext]_evmVars => [EvmSwap!Next]_(EvmSwap!vars)
<1> SUFFICES ASSUME Inv, [EvmReceiveNext]_evmVars PROVE [EvmSwap!Next]_(EvmSwap!vars)
  OBVIOUS
<1>a. /\ lock \in {"none", "shallow", "deep", "claimed", "clientRefunded"}
      /\ payout \in {"none", "out", "claimed", "refunded"} /\ evmClock \in Nat
      /\ LegsSound /\ claims \in Seq(Outcomes) /\ \A d \in Running : Lasting(evmJob[d])
  BY DEF Inv, EvmTypeOK, TickSound
<1>1. CASE \E d \in EvmDriver : fundArkade(d)
  <2>1. PICK d \in EvmDriver : fundArkade(d)
    BY <1>1
  <2>2. payout = "none" /\ lock \in Firm /\ evmClock < EvmTimeout
    BY <1>a, <2>1 DEF fundArkade, EvmAt, Lasting
  <2>3. lock = "deep"
    <3>1. lock # "claimed"
      BY <1>a, <2>2 DEF LegsSound
    <3>2. lock # "clientRefunded"
      BY <1>a, <2>2 DEF LegsSound, DeadlinesOrdered
    <3> QED
      BY <2>2, <3>1, <3>2 DEF Firm
  <2>4. payout' = "out" /\ lock' = lock
    BY <2>1 DEF fundArkade
  <2> QED
    BY <2>2, <2>3, <2>4 DEF EvmSwap!Next, EvmSwap!Offer, EvmClientLeg, EvmPayoutLeg
<1>2. CASE \E d \in EvmDriver : refundArkade(d)
  <2>1. CASE payout = "out"
    <3>1. payout' = "refunded" /\ lock' = lock
      BY <1>2, <2>1 DEF refundArkade
    <3> QED
      BY <2>1, <3>1 DEF EvmSwap!Next, EvmSwap!Withdraw, EvmClientLeg, EvmPayoutLeg
  <2>2. CASE payout # "out"
    BY <1>2, <2>2, LegsKept DEF refundArkade
  <2> QED
    BY <2>1, <2>2
<1>3. CASE EvmReorg \/ ClientLocks \/ Bury \/ ClientRefunds
  <2>1. /\ payout' = payout
        /\ \/ lock \in {"none", "shallow"} /\ lock' \in {"none", "shallow", "deep"}
           \/ lock = "deep" /\ lock' = "clientRefunded"
    BY <1>3 DEF EvmReorg, ClientLocks, Bury, ClientRefunds
  <2> QED
    BY <2>1 DEF EvmSwap!vars, EvmSwap!Next, EvmSwap!Lock, EvmSwap!Clawback, EvmClientLeg, EvmPayoutLeg
<1>4. CASE \E i \in 1..MaxClaims : MineClaim(i)
  <2>1. PICK i \in 1..MaxClaims : MineClaim(i)
    BY <1>4
  <2>2. payout = "claimed" /\ lock \in Firm
    <3>1. i \in DOMAIN claims
      BY <2>1 DEF MineClaim
    <3>2. claims # <<>>
      BY <1>a, <3>1
    <3> QED
      BY <1>a, <3>2 DEF LegsSound
  <2>3. payout' = payout /\ (lock' = lock \/ (lock = "deep" /\ lock' = "claimed"))
    BY <2>1, <2>2 DEF MineClaim, Firm
  <2> QED
    BY <2>2, <2>3, LegsKept DEF EvmSwap!Next, EvmSwap!Collect, EvmClientLeg, EvmPayoutLeg
<1>5. CASE EvmClientClaims
  <2>1. payout = "out" /\ payout' = "claimed" /\ lock' = lock
    BY <1>5 DEF EvmClientClaims
  <2> QED
    BY <2>1 DEF EvmSwap!Next, EvmSwap!Take, EvmClientLeg, EvmPayoutLeg
<1>6. CASE EvmAdvance \/ UNCHANGED evmVars \/ \E d \in EvmDriver : EvmAbandon(d)
  <2>1. UNCHANGED <<lock, payout>>
    BY <1>6 DEF EvmAdvance, EvmAbandon, evmVars, world
  <2> QED
    BY <2>1, LegsKept
<1>7. ASSUME NEW d \in EvmDriver, EvmDriverStep(d), ~fundArkade(d), ~refundArkade(d)
      PROVE  [EvmSwap!Next]_(EvmSwap!vars)
  <2>1. UNCHANGED <<lock, payout>>
    BY <1>7 DEF EvmDriverStep, EvmTick, Observe, Reread, Refuse, Stick, FundWindow, ToFunding, ToAwaitingClaim,
       EvmToClaiming, SendClaim, PatchClaim, RecordClaim, EvmToRefunding, MarkRefunded, world
  <2> QED
    BY <2>1, LegsKept
<1> QED
  BY <1>1, <1>2, <1>3, <1>4, <1>5, <1>6, <1>7 DEF EvmReceiveNext, EvmFaults, EvmClient, Chain

(* The EVM receive corridor implements the abstract swap, for any fleet of    *)
(* processes and any number of crashes, lost broadcasts and replaced blocks.  *)
THEOREM EvmReceiveRefinesSwap ==
  ASSUME DeadlinesOrdered
  PROVE  EvmReceiveSpec => EvmImplementsAtomicSwap
<1>1. EvmReceiveInit => EvmSwap!Init
  BY DEF EvmReceiveInit, EvmSwap!Init, EvmClientLeg, EvmPayoutLeg
<1>2. Inv /\ [EvmReceiveNext]_evmVars => [EvmSwap!Next]_(EvmSwap!vars)
  BY SwapStep
<1> QED
  BY <1>1, <1>2, EvmReceiveInvariant, PTL DEF EvmReceiveSpec, EvmImplementsAtomicSwap, EvmSwap!Spec
============================================================================
