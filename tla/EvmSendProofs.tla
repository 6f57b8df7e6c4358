---------------------------- MODULE EvmSendProofs ----------------------------
(***************************************************************************)
(* What holds of an EVM send swap for any number of processes that tick    *)
(* it, any deadlines in their order, any number of crashes, reverts and    *)
(* replaced blocks.                                                        *)
(***************************************************************************)
EXTENDS EvmSend, TLAPS

----------------------------------------------------------------------------
(* The inductive invariant. *)
(* Lockup and lock as the row's state speaks of them: nothing is locked before *)
(* locking_evm is on disk, a refused row never locks, and the preimage is only *)
(* on a row whose lock was opened for good.                                    *)
RowSound ==
  /\ lock # "none" => row.state \notin {"quoted", "refused"}
  /\ row.state # "funded"
  /\ row.state \in {"claiming", "claimed"} => lock = "claimed"
  /\ row.state = "refunded" => refunds # <<>>
  /\ row.state = "stuck" => clock >= RefundAt \/ lock = "reverted"
  /\ row.refundTx <= Len(refunds)
  /\ sweeper = "refund" => row.state = "refused"
  /\ sweeper = "patch" => lockup = "returned"
  /\ lockup = "reclaimed" => clock >= RefundAt

(* A refund is sent after the contract's timeout only, mined as a success only *)
(* over a lock it takes, and reverts only where there is none to take.         *)
RefundsSound ==
  /\ refunds # <<>> => clock >= EvmTimeout
  /\ \A i \in DOMAIN refunds :
       /\ refunds[i] = "success" => lock \in {"refundShallow", "refunded"}
       /\ refunds[i] = "reverted" => ~Present /\ lock # "pending"
  /\ lock \in {"refundShallow", "refunded"} => refunds # <<>>

(* What a tick may rely on however stale it is: what no step can undo. *)
Lasting(j) ==
  /\ j.row.state \in Live \ {"funded"}
  /\ j.row.refundTx <= Len(refunds) /\ j.tx <= Len(refunds)
  /\ j.row.preimage => lock = "claimed"
  /\ j.pc = "reread" => /\ j.seen.lockReverted => lock = "reverted"
                        /\ ~(j.seen.refund = "reverted" /\ j.seen.present)
                        /\ j.seen.height <= clock
                        /\ j.seen.landed \/ j.seen.refund = "success" => refunds # <<>>
  /\ j.pc = "refuse" => j.row.state = "quoted"
  /\ j.pc = "stick" => clock >= RefundAt \/ lock = "reverted"
  /\ j.pc \in {"approve", "sendLock"} => clock < EvmTimeout
  /\ j.pc = "approve" => j.row.state = "quoted" /\ (row.state = "quoted" => lockup = "funded")
  /\ j.pc = "sendLock" => row.state \notin {"quoted", "refused"} /\ (lock = "none" => lockup = "funded")
  /\ j.pc = "await_claim" => lock # "none"
  /\ j.pc \in {"claim_arkade", "collect", "markClaimed"} => lock = "claimed"
  /\ j.pc = "markClaimed" => lockup = "claimed"
  /\ j.pc \in {"refund_evm", "sendRefund", "patchRefund"} => clock >= EvmTimeout
  /\ j.pc = "refund_evm" => j.row.state # "quoted"
  /\ j.pc = "record_refund" => refunds # <<>>
  /\ j.pc = "patchRefund" => j.tx # 0

(* What a tick knows that began after the last thing that happened. *)
Fresh(j) ==
  /\ j.pc # "idle"
  /\ j.pc \in {"observe", "reread"} =>
       /\ lock = "claimed" => j.row.state \in Exposed
       /\ lock = "deep" => j.row.state \in Exposed \ {"claiming"}
  /\ j.pc = "reread" =>
       /\ j.seen.height = clock
       /\ lock = "deep" => j.seen.present /\ j.seen.refund = "pending" /\ ~j.seen.landed
       /\ j.seen.landed \/ j.seen.refund = "success" => lock \in {"refundShallow", "refunded"}
  /\ j.pc \in {"lock_evm", "approve", "sendLock", "patchLock", "await_claim"} => clock < EvmTimeout
  /\ j.pc \in {"refund_evm", "sendRefund", "patchRefund"} => lock # "claimed"
  /\ j.pc = "record_refund" => lock \notin {"claimed", "deep"}

TickSound(j) == Lasting(j) /\ (j.fresh => Fresh(j))

Unclaimed == lockup \in {"short", "funded"}

(* Once a whole tick has run after the contract's timeout, no lock is left to  *)
(* be claimed but one a refund is on its way to, and what was claimed is       *)
(* collected, or on a row recorded as refunded that carries the preimage.      *)
AtRest ==
  rested /\ EvmTimeout <= clock /\ clock < RefundAt =>
    /\ lock = "deep" => refunds # <<>>
    /\ lock = "claimed" /\ Unclaimed =>
         (row.state = "refunded" /\ row.preimage) \/ \E d \in Running : job[d].pc = "collect"

(* From the Arkade deadline on, the EVM leg is over. *)
Over ==
  clock >= RefundAt =>
    /\ lock \in {"none", "reverted", "claimed", "refunded"}
    /\ lock = "claimed" /\ (Unclaimed \/ lockup = "reclaimed") =>
         /\ row.state = "refunded" /\ row.preimage
         /\ \A d \in Running : job[d].pc = "idle"

Inv ==
  /\ TypeOK /\ RowTellsTheTruth
  /\ RowSound /\ RefundsSound /\ AtRest /\ Over
  /\ \A d \in Running : TickSound(job[d])

----------------------------------------------------------------------------
(* What each of the planner's decisions presupposes. *)
Presupposes(plan, r, s, preimage, now, deep) ==
  /\ plan = "wait" => /\ ~preimage
                      /\ r.state = "refunding_evm" /\ s.present /\ s.refund = "pending" =>
                           r.refundTx # 0 \/ s.height < EvmTimeout
                      /\ r.state \in {"locking_evm", "awaiting_claim"} =>
                           s.height < EvmTimeout
  /\ plan = "refuse" => r.state = "quoted"
  /\ plan = "stick" => \/ preimage /\ now >= RefundAt
                       \/ s.lockReverted
                       \/ s.refund = "reverted" /\ s.present
  /\ plan = "lock_evm" => r.state = "quoted" /\ s.funded /\ now < ValidUntil /\ ~preimage
  /\ plan = "await_claim" => deep /\ s.height < EvmTimeout /\ ~preimage
  /\ plan = "claim_arkade" => preimage
  /\ plan = "refund_evm" => r.state # "quoted" /\ s.height >= EvmTimeout /\ ~preimage
  /\ plan = "record_refund" => (s.landed \/ s.refund = "success") /\ ~preimage

(* The planner on a row a tick may hold. *)
LEMMA PlanSound ==
  ASSUME NEW r \in Row, r.state \in Live \ {"funded"}, NEW s \in Glance, NEW preimage \in BOOLEAN,
         NEW now \in Nat, NEW deep \in BOOLEAN, NEW plan,
         plan = planEvmSend(r, s, preimage, now, deep)
  PROVE  plan \in Plans /\ Presupposes(plan, r, s, preimage, now, deep)
<1> USE EvmSendAssumption
<1>0. s.height \in Nat /\ r.refundTx \in Nat
  BY DEF Glance, Row
<1>1. CASE preimage
  BY <1>1 DEF planEvmSend, Plans, Presupposes
<1>2. CASE ~preimage /\ r.state = "quoted"
  BY <1>2 DEF planEvmSend, Plans, Presupposes
<1>3. CASE ~preimage /\ r.state = "locking_evm"
  BY <1>3, <1>0 DEF planEvmSend, Plans, Presupposes
<1>4. CASE ~preimage /\ r.state = "awaiting_claim"
  BY <1>4, <1>0 DEF planEvmSend, Plans, Presupposes
<1>5. CASE ~preimage /\ r.state = "refunding_evm"
  <2>1. plan = whenRefunding(r, s)
    BY <1>5 DEF planEvmSend
  <2>2. s.refund \in Outcomes
    BY DEF Glance
  <2> QED
    BY <1>5, <1>0, <2>1, <2>2 DEF whenRefunding, Plans, Presupposes, Outcomes
<1>6. CASE ~preimage /\ r.state = "claiming"
  BY <1>6 DEF planEvmSend, Plans, Presupposes
<1> QED
  BY <1>1, <1>2, <1>3, <1>4, <1>5, <1>6 DEF Live

(* What a tick starts from and ends with. *)
LEMMA IdleType == NewRow \in Row /\ Idle \in Job
<1>1. NewRow \in Row
  BY EvmSendAssumption DEF NewRow, Row, States
<1>2. Blank \in Glance
  BY DEF Blank, Glance, Outcomes
<1> QED
  BY <1>1, <1>2, EvmSendAssumption DEF Idle, Job, Steps

(* A tick that moves on to another step. *)
LEMMA GotoSound ==
  ASSUME job \in [Running -> Job], NEW d \in Running, NEW pc \in Steps, Goto(d, pc)
  PROVE  /\ Running' = Running /\ job' \in [Running -> Job]
         /\ job'[d] = [job[d] EXCEPT !.pc = pc]
         /\ \A e \in Running \ {d} : job'[e] = job[e]
BY DEF Goto, Job, Running

(* A tick that is over. *)
LEMMA EndSound ==
  ASSUME job \in [Running -> Job], NEW d \in Running, job' = [job EXCEPT ![d] = Idle]
  PROVE  /\ Running' = Running /\ job' \in [Running -> Job]
         /\ job'[d] = Idle
         /\ \A e \in Running \ {d} : job'[e] = job[e]
BY IdleType DEF Running

(* Nobody's tick began after what just happened. *)
LEMMA DisturbSound ==
  ASSUME job \in [Running -> Job], job' = [d \in Running |-> [job[d] EXCEPT !.fresh = FALSE]]
  PROVE  /\ Running' = Running /\ job' \in [Running -> Job]
         /\ \A d \in Running : job'[d] = [job[d] EXCEPT !.fresh = FALSE]
BY DEF Job, Running

(* An idle tick relies on nothing. *)
LEMMA IdleSound ==
  ASSUME NEW d \in Running', job'[d] = Idle, TypeOK
  PROVE  TickSound(job[d])'
BY DEF TickSound, Lasting, Idle, NewRow, Live

(* A tick reads the row. *)
LEMMA TickStep ==
  ASSUME Inv, NEW d \in Driver, Tick(d)
  PROVE  Inv'
<1> USE EvmSendAssumption
<1>a. /\ row \in Row /\ Running \in Fleets /\ job \in [Running -> Job]
      /\ refunds \in Seq(Outcomes) /\ Len(refunds) <= MaxRefunds /\ lock \in LockStages
      /\ clock \in Nat /\ rested \in BOOLEAN /\ TypeOK
  BY DEF Inv, TypeOK
<1>b. RowTellsTheTruth /\ RowSound /\ RefundsSound /\ AtRest /\ Over
  BY DEF Inv
<1>c. d \in Running /\ TickSound(job[d])
  BY DEF Tick, At, Inv
<1>d. ASSUME NEW e \in Running PROVE TickSound(job[e])
  BY DEF Inv
<1> DEFINE j == [Idle EXCEPT !.pc = "observe", !.row = row, !.fresh = TRUE]
<1>j. j \in Job
  BY <1>a, IdleType DEF Idle, Job, Steps
<1>e. /\ Running' = Running /\ job' \in [Running -> Job] /\ job'[d] = j
      /\ \A e \in Running \ {d} : job'[e] = job[e]
  BY <1>a, <1>c, <1>j DEF Tick, Running
<1>1. TypeOK'
  BY <1>a, <1>e DEF Tick, world, still, TypeOK
<1>2. RowTellsTheTruth'
  BY <1>b DEF Tick, world, RowTellsTheTruth
<1>3. RowSound'
  BY <1>b DEF Tick, world, still, RowSound
<1>4. RefundsSound'
  BY <1>b DEF Tick, world, still, RefundsSound, Present
<1>5. AtRest'
  BY <1>b, <1>e DEF Tick, At, world, still, AtRest, Unclaimed
<1>6. Over'
  BY <1>b DEF Tick, world, still, Live, Over, Unclaimed
<1>7. TickSound(job[d])'
  BY <1>a, <1>b DEF Tick, At, world, Live, TickSound, Lasting, Fresh, RowSound, RowTellsTheTruth,
       Exposed, Idle
<1>8. ASSUME NEW e \in Running \ {d} PROVE TickSound(job[e])'
  BY <1>d DEF Tick, world, still, TickSound, Lasting, Fresh
<1> QED
  BY <1>e, <1>1, <1>2, <1>3, <1>4, <1>5, <1>6, <1>7, <1>8 DEF Inv

(* The first round of reads. *)
LEMMA ObserveStep ==
  ASSUME Inv, NEW d \in Driver, Observe(d)
  PROVE  Inv'
<1> USE EvmSendAssumption
<1>a. /\ row \in Row /\ Running \in Fleets /\ job \in [Running -> Job]
      /\ refunds \in Seq(Outcomes) /\ Len(refunds) <= MaxRefunds /\ lock \in LockStages
      /\ clock \in Nat /\ rested \in BOOLEAN /\ TypeOK
  BY DEF Inv, TypeOK
<1>b. RowTellsTheTruth /\ RowSound /\ RefundsSound /\ AtRest /\ Over
  BY DEF Inv
<1>c. d \in Running /\ TickSound(job[d])
  BY DEF Observe, At, Inv
<1>d. ASSUME NEW e \in Running PROVE TickSound(job[e])
  BY DEF Inv
<1> DEFINE j == [job[d] EXCEPT !.pc = "reread", !.seen = Seen(job[d].row)]
<1>j. j \in Job
  <2>1. Seen(job[d].row) \in Glance
    BY <1>a, <1>c DEF Seen, Glance, Present, Outcomes, Job, Row, TickSound, Lasting
  <2> QED
    BY <1>a, <1>c, <2>1 DEF Job, Steps
<1>e. /\ Running' = Running /\ job' \in [Running -> Job] /\ job'[d] = j
      /\ \A e \in Running \ {d} : job'[e] = job[e]
  BY <1>a, <1>c, <1>j DEF Observe, Running
<1>1. TypeOK'
  BY <1>a, <1>e DEF Observe, world, still, TypeOK
<1>2. RowTellsTheTruth'
  BY <1>b DEF Observe, world, RowTellsTheTruth
<1>3. RowSound'
  BY <1>b DEF Observe, world, still, RowSound
<1>4. RefundsSound'
  BY <1>b DEF Observe, world, still, Present, RefundsSound
<1>5. AtRest'
  BY <1>b, <1>e DEF Observe, At, world, still, AtRest, Unclaimed
<1>6. Over'
  BY <1>b DEF Observe, At, world, still, Over, Unclaimed
<1>7. TickSound(job[d])'
  <2> DEFINE s == Seen(job[d].row)
  <2>1. /\ job[d].pc = "observe" /\ lock' = lock /\ refunds' = refunds /\ clock' = clock
        /\ row' = row /\ job[d] \in Job
    BY <1>a, <1>c DEF Observe, At, world, still
  <2>2. /\ s.height = clock /\ s.refund \in Outcomes
        /\ s.present = Present
        /\ s.lockReverted => lock = "reverted"
        /\ s.landed => lock \in {"refundShallow", "refunded"}
        /\ s.refund = "success" => lock \in {"refundShallow", "refunded"}
        /\ s.refund = "reverted" => ~Present
    <3>1. /\ s.height = clock /\ s.present = Present
          /\ s.lockReverted => lock = "reverted"
          /\ s.landed => lock \in {"refundShallow", "refunded"}
      BY DEF Seen
    <3>2. CASE s.refund = "pending"
      BY <3>1, <3>2 DEF Outcomes
    <3>3. CASE s.refund # "pending"
      <4> DEFINE i == job[d].row.refundTx
      <4>1. i # 0 /\ s.refund = refunds[i]
        BY <3>3 DEF Seen
      <4>2. i \in Nat /\ i <= Len(refunds)
        BY <1>c, <2>1 DEF TickSound, Lasting, Job, Row
      <4>3. i \in DOMAIN refunds /\ refunds[i] \in Outcomes
        BY <1>a, <4>1, <4>2
      <4> QED
        BY <1>b, <3>1, <4>1, <4>3 DEF RefundsSound
    <3> QED
      BY <3>2, <3>3
  <2>3. /\ j.pc = "reread" /\ j.seen = s /\ j.row = job[d].row
        /\ j.tx = job[d].tx /\ j.fresh = job[d].fresh
    BY <1>a, <1>c, <2>1 DEF Job
  <2> HIDE DEF j, s
  <2>4. Lasting(job[d])'
    BY <1>b, <1>c, <1>e, <2>1, <2>2, <2>3, <1>a DEF Lasting, TickSound, RefundsSound
  <2>5. ASSUME job'[d].fresh PROVE Fresh(job[d])'
    BY <1>c, <1>e, <2>1, <2>2, <2>3, <2>5 DEF Fresh, TickSound, Present, Outcomes
  <2> QED
    BY <2>4, <2>5 DEF TickSound
<1>8. ASSUME NEW e \in Running \ {d} PROVE TickSound(job[e])'
  BY <1>a, <1>d DEF Observe, world, still, TickSound, Lasting, Fresh
<1> QED
  BY <1>e, <1>1, <1>2, <1>3, <1>4, <1>5, <1>6, <1>7, <1>8 DEF Inv

(* The second round of reads, and the planner. *)
LEMMA RereadStep ==
  ASSUME Inv, NEW d \in Driver, Reread(d)
  PROVE  Inv'
<1> USE EvmSendAssumption
<1>a. /\ row \in Row /\ Running \in Fleets /\ job \in [Running -> Job]
      /\ refunds \in Seq(Outcomes) /\ Len(refunds) <= MaxRefunds /\ lock \in LockStages
      /\ clock \in Nat /\ rested \in BOOLEAN /\ TypeOK
  BY DEF Inv, TypeOK
<1>b. RowTellsTheTruth /\ RowSound /\ RefundsSound /\ AtRest /\ Over
  BY DEF Inv
<1>c. d \in Running /\ TickSound(job[d])
  BY DEF Reread, At, Inv
<1>d. ASSUME NEW e \in Running PROVE TickSound(job[e])
  BY DEF Inv
<1> DEFINE r == job[d].row
           s == job[d].seen
           plan == planEvmSend(r, s, ClaimSeen(r), clock, lock = "deep")
<1>r. r \in Row /\ s \in Glance /\ r.state \in Live \ {"funded"}
  BY <1>a, <1>c DEF Job, TickSound, Lasting
<1>p. ClaimSeen(r) \in BOOLEAN /\ (lock = "deep") \in BOOLEAN
  BY <1>a DEF ClaimSeen
<1>e. /\ Running' = Running /\ job' \in [Running -> Job]
      /\ \A e \in Running \ {d} : job'[e] = job[e]
      /\ \/ plan = "wait" /\ job'[d] = Idle /\ rested' = (rested \/ job[d].fresh)
         \/ plan # "wait" /\ job'[d] = [job[d] EXCEPT !.pc = plan] /\ rested' = rested
  <2>1. CASE plan = "wait"
    BY <2>1, <1>a, <1>c, EndSound DEF Reread, Done
  <2>2. CASE plan # "wait"
    <3>1. plan \in Steps
      BY <1>a, <1>r, <1>p, PlanSound DEF Steps
    <3>2. Goto(d, plan) /\ rested' = rested
      BY <2>2 DEF Reread
    <3> HIDE DEF plan
    <3> QED
      BY <2>2, <1>a, <1>c, <3>1, <3>2, GotoSound
  <2> QED
    BY <2>1, <2>2
<1>q. plan \in Plans
  BY <1>a, <1>r, <1>p, PlanSound
<1>s. Presupposes(plan, r, s, ClaimSeen(r), clock, lock = "deep")
  BY <1>a, <1>r, <1>p, PlanSound
<1> HIDE DEF plan
<1>1. TypeOK'
  BY <1>a, <1>e DEF Reread, world, still, TypeOK
<1>2. RowTellsTheTruth'
  BY <1>b DEF Reread, world, RowTellsTheTruth
<1>3. RowSound'
  BY <1>b DEF Reread, world, still, RowSound
<1>4. RefundsSound'
  BY <1>b DEF Reread, world, still, RefundsSound, Present
<1>5. AtRest'
  <2>1. /\ job[d].pc = "reread" /\ lock' = lock /\ refunds' = refunds /\ clock' = clock
        /\ row' = row /\ lockup' = lockup /\ s.height \in Nat
    BY <1>a, <1>c, <1>r DEF Reread, At, world, still, Glance
  <2>2. (\E e \in Running : job[e].pc = "collect") => (\E e \in Running' : job'[e].pc = "collect")
    BY <2>1, <1>e
  <2>3. CASE rested' = rested
    BY <2>1, <2>2, <2>3, <1>b DEF AtRest, Unclaimed
  <2>4. CASE plan = "wait" /\ job[d].fresh
    <3>1. ~ClaimSeen(r)
      BY <2>4, <1>s DEF Presupposes
    <3>2. lock # "claimed"
      BY <2>1, <2>4, <3>1, <1>c DEF TickSound, Fresh, ClaimSeen
    <3>3. ASSUME lock = "deep", clock >= EvmTimeout PROVE refunds # <<>>
      <4>1. /\ r.state \in {"locking_evm", "awaiting_claim", "refunding_evm"}
            /\ s.present /\ s.refund = "pending" /\ s.height = clock
        BY <2>1, <2>4, <3>3, <1>c DEF TickSound, Fresh, Exposed
      <4>2. r.refundTx # 0
        BY <1>a, <1>s, <2>4, <3>3, <4>1 DEF Presupposes
      <4>3. r.refundTx \in Nat /\ r.refundTx <= Len(refunds)
        BY <1>a, <1>c, <1>r DEF TickSound, Lasting, Row
      <4> QED
        BY <1>a, <4>2, <4>3
    <3> QED
      BY <2>1, <3>2, <3>3 DEF AtRest
  <2> QED
    BY <1>a, <1>e, <2>3, <2>4
<1>6. Over'
  BY <1>b DEF Reread, At, world, still, Over, Unclaimed
<1>7. TickSound(job[d])'
  <2> DEFINE k == [job[d] EXCEPT !.pc = plan]
  <2>1. CASE plan = "wait"
    BY <2>1, <1>a, <1>c, <1>e, IdleSound
  <2>2. CASE plan # "wait"
    <3>1. /\ job[d].pc = "reread" /\ lock' = lock /\ refunds' = refunds /\ clock' = clock
          /\ row' = row /\ lockup' = lockup /\ job[d] \in Job /\ s.height \in Nat
      BY <1>a, <1>c, <1>r DEF Reread, At, world, still, Glance
    <3>2. k.pc = plan /\ k.row = r /\ k.seen = s /\ k.tx = job[d].tx /\ k.fresh = job[d].fresh
      BY <3>1 DEF Job
    <3>3. job'[d] = k
      BY <2>2, <1>e
    <3>4. ClaimSeen(r) => lock = "claimed"
      BY <1>c DEF ClaimSeen, TickSound, Lasting
    <3> HIDE DEF k, r, s
    <3>5. Lasting(job[d])'
      BY <1>a, <1>c, <1>q, <1>s, <3>1, <3>2, <3>3, <3>4
         DEF Lasting, TickSound, Presupposes, Plans, r, s
    <3>6. ASSUME job'[d].fresh PROVE Fresh(job[d])'
      BY <1>a, <1>c, <1>q, <1>s, <3>1, <3>2, <3>3, <3>4, <3>6
         DEF Fresh, TickSound, Presupposes, Plans, ClaimSeen, r, s
    <3> QED
      BY <3>5, <3>6 DEF TickSound
  <2> QED
    BY <2>1, <2>2
<1>8. ASSUME NEW e \in Running \ {d} PROVE TickSound(job[e])'
  BY <1>a, <1>d DEF Reread, Goto, Done, world, still, TickSound, Lasting, Fresh
<1> QED
  BY <1>e, <1>1, <1>2, <1>3, <1>4, <1>5, <1>6, <1>7, <1>8 DEF Inv

(* A quote past its deadline is refused. *)
LEMMA RefuseStep ==
  ASSUME Inv, NEW d \in Driver, Refuse(d)
  PROVE  Inv'
<1> USE EvmSendAssumption
<1>a. /\ row \in Row /\ Running \in Fleets /\ job \in [Running -> Job]
      /\ refunds \in Seq(Outcomes) /\ Len(refunds) <= MaxRefunds /\ lock \in LockStages
      /\ clock \in Nat /\ rested \in BOOLEAN /\ TypeOK
  BY DEF Inv, TypeOK
<1>b. RowTellsTheTruth /\ RowSound /\ RefundsSound /\ AtRest /\ Over
  BY DEF Inv
<1>c. d \in Running /\ TickSound(job[d])
  BY DEF Refuse, At, Inv
<1>d. ASSUME NEW e \in Running PROVE TickSound(job[e])
  BY DEF Inv
<1>e. /\ Running' = Running /\ job' \in [Running -> Job] /\ job'[d] = Idle
      /\ \A e \in Running \ {d} : job'[e] = job[e]
  BY <1>a, <1>c, EndSound DEF Refuse, conclude, Done, Throw
<1>1. TypeOK'
  BY <1>a, <1>e DEF Refuse, conclude, world, still, Done, Throw, TypeOK, Row, States
<1>2. RowTellsTheTruth'
  BY <1>a, <1>b, <1>c DEF Refuse, At, conclude, world, Throw, Won, RowTellsTheTruth, RowSound, Row,
       TickSound, Lasting
<1>3. RowSound'
  BY <1>a, <1>b, <1>c DEF Refuse, At, conclude, world, still, Throw, Won, RowSound, Row, TickSound,
       Lasting
<1>4. RefundsSound'
  BY <1>b DEF Refuse, world, still, RefundsSound, Present
<1>5. AtRest'
  BY <1>b, <1>c, <1>e DEF Refuse, At, conclude, world, still, Throw, Won, AtRest, Unclaimed,
       TickSound, Lasting, RowSound
<1>6. Over'
  BY <1>b DEF Refuse, At, world, still, Over, Unclaimed
<1>7. TickSound(job[d])'
  BY <1>a, <1>c, <1>e, IdleSound
<1>8. ASSUME NEW e \in Running \ {d} PROVE TickSound(job[e])'
  BY <1>a, <1>d DEF Refuse, At, conclude, world, still, Done, Throw, Won, TickSound, Lasting, Fresh
<1> QED
  BY <1>e, <1>1, <1>2, <1>3, <1>4, <1>5, <1>6, <1>7, <1>8 DEF Inv

(* The row is handed to an operator. *)
LEMMA StickStep ==
  ASSUME Inv, NEW d \in Driver, Stick(d)
  PROVE  Inv'
<1> USE EvmSendAssumption
<1>a. /\ row \in Row /\ Running \in Fleets /\ job \in [Running -> Job]
      /\ refunds \in Seq(Outcomes) /\ Len(refunds) <= MaxRefunds /\ lock \in LockStages
      /\ clock \in Nat /\ rested \in BOOLEAN /\ TypeOK
  BY DEF Inv, TypeOK
<1>b. RowTellsTheTruth /\ RowSound /\ RefundsSound /\ AtRest /\ Over
  BY DEF Inv
<1>c. d \in Running /\ TickSound(job[d])
  BY DEF Stick, At, Inv
<1>d. ASSUME NEW e \in Running PROVE TickSound(job[e])
  BY DEF Inv
<1>e. /\ Running' = Running /\ job' \in [Running -> Job] /\ job'[d] = Idle
      /\ \A e \in Running \ {d} : job'[e] = job[e]
  BY <1>a, <1>c, EndSound DEF Stick, conclude, Done, Throw
<1>1. TypeOK'
  BY <1>a, <1>e DEF Stick, conclude, world, still, Done, Throw, TypeOK, Row, States
<1>2. RowTellsTheTruth'
  BY <1>a, <1>b DEF Stick, conclude, world, Throw, RowTellsTheTruth, Row
<1>3. RowSound'
  BY <1>a, <1>b, <1>c DEF Stick, At, conclude, world, still, Throw, Won, RowSound, Row, TickSound,
       Lasting, Live
<1>4. RefundsSound'
  BY <1>b DEF Stick, world, still, RefundsSound, Present
<1>5. AtRest'
  BY <1>a, <1>c DEF Stick, At, world, still, AtRest, TickSound, Lasting
<1>6. Over'
  BY <1>b DEF Stick, At, world, still, Over, Unclaimed
<1>7. TickSound(job[d])'
  BY <1>a, <1>c, <1>e, IdleSound
<1>8. ASSUME NEW e \in Running \ {d} PROVE TickSound(job[e])'
  BY <1>a, <1>d DEF Stick, conclude, world, still, Done, Throw, TickSound, Lasting, Fresh, Row
<1> QED
  BY <1>e, <1>1, <1>2, <1>3, <1>4, <1>5, <1>6, <1>7, <1>8 DEF Inv

(* The lock is planned once more on fresh reads. *)
LEMMA LockAgainStep ==
  ASSUME Inv, NEW d \in Driver, LockAgain(d)
  PROVE  Inv'
<1> USE EvmSendAssumption
<1>a. /\ row \in Row /\ Running \in Fleets /\ job \in [Running -> Job]
      /\ refunds \in Seq(Outcomes) /\ Len(refunds) <= MaxRefunds /\ lock \in LockStages
      /\ clock \in Nat /\ rested \in BOOLEAN /\ TypeOK
  BY DEF Inv, TypeOK
<1>b. RowTellsTheTruth /\ RowSound /\ RefundsSound /\ AtRest /\ Over
  BY DEF Inv
<1>c. d \in Running /\ TickSound(job[d])
  BY DEF LockAgain, At, Inv
<1>d. ASSUME NEW e \in Running PROVE TickSound(job[e])
  BY DEF Inv
<1> DEFINE j == [job[d] EXCEPT !.pc = "approve", !.row = row]
           plan == planEvmSend(row, Seen(row), ClaimSeen(row), clock, FALSE)
<1>j. j \in Job
  BY <1>a, <1>c DEF Job, Steps
<1>e. /\ Running' = Running /\ job' \in [Running -> Job]
      /\ \A e \in Running \ {d} : job'[e] = job[e]
      /\ \/ plan = "lock_evm" /\ job'[d] = j /\ rested' = rested
         \/ job'[d] = Idle /\ rested' = (rested \/ job[d].fresh)
  <2>1. CASE plan = "lock_evm" /\ job' = [job EXCEPT ![d].pc = "approve", ![d].row = row] /\ rested' = rested
    <3>1. job' = [job EXCEPT ![d] = j]
      BY <2>1, <1>a, <1>c
    <3> HIDE DEF j, plan
    <3> QED
      BY <2>1, <3>1, <1>a, <1>c, <1>j DEF Running
  <2>2. CASE Done(d)
    BY <2>2, <1>a, <1>c, EndSound DEF Done
  <2> QED
    BY <2>1, <2>2 DEF LockAgain
<1>q. plan = "lock_evm" => row.state = "quoted" /\ lockup = "funded" /\ clock < ValidUntil
  <2> SUFFICES ASSUME plan = "lock_evm" PROVE row.state = "quoted" /\ lockup = "funded" /\ clock < ValidUntil
    OBVIOUS
  <2>1. row.state # "funded" /\ row.refundTx <= Len(refunds) /\ row.state \in States
    BY <1>a, <1>b DEF RowSound, Row
  <2>2. Seen(row) \in Glance
    BY <1>a, <2>1 DEF Seen, Glance, Present, Outcomes, Row
  <2>3. ClaimSeen(row) \in BOOLEAN /\ ~(ClaimSeen(row) /\ plan = "lock_evm")
    BY <1>a DEF ClaimSeen, planEvmSend
  <2>4. row.state \in Live
    BY <2>1, <2>3 DEF planEvmSend, Live, States
  <2>5. Presupposes(plan, row, Seen(row), ClaimSeen(row), clock, FALSE)
    BY <1>a, <2>1, <2>2, <2>3, <2>4, PlanSound
  <2> QED
    BY <2>5 DEF Seen, Presupposes
<1> HIDE DEF plan
<1>1. TypeOK'
  BY <1>a, <1>e DEF LockAgain, world, still, TypeOK
<1>2. RowTellsTheTruth'
  BY <1>b DEF LockAgain, world, RowTellsTheTruth
<1>3. RowSound'
  BY <1>b DEF LockAgain, world, still, RowSound
<1>4. RefundsSound'
  BY <1>b DEF LockAgain, world, still, Present, RefundsSound
<1>5. AtRest'
  <2>1. /\ job[d].pc = "lock_evm" /\ lock' = lock /\ refunds' = refunds /\ clock' = clock
        /\ row' = row /\ lockup' = lockup
    BY DEF LockAgain, At, world, still
  <2>2. (\E e \in Running : job[e].pc = "collect") => (\E e \in Running' : job'[e].pc = "collect")
    BY <2>1, <1>e
  <2>3. CASE rested' = rested
    BY <2>1, <2>2, <2>3, <1>b DEF AtRest, Unclaimed
  <2>4. CASE job[d].fresh
    BY <2>1, <2>4, <1>a, <1>c DEF AtRest, TickSound, Fresh
  <2> QED
    BY <1>a, <1>e, <2>3, <2>4
<1>6. Over'
  BY <1>b DEF LockAgain, At, world, still, Over, Unclaimed
<1>7. TickSound(job[d])'
  <2>1. CASE job'[d] = Idle
    BY <2>1, <1>a, <1>c, <1>e, IdleSound
  <2>2. CASE job'[d] = j /\ plan = "lock_evm"
    <3>1. /\ job[d].pc = "lock_evm" /\ lock' = lock /\ refunds' = refunds /\ clock' = clock
          /\ row' = row /\ lockup' = lockup /\ job[d] \in Job
      BY <1>a, <1>c DEF LockAgain, At, world, still
    <3>2. j.pc = "approve" /\ j.row = row /\ j.tx = job[d].tx
      BY <3>1 DEF Job
    <3>3. row.refundTx <= Len(refunds) /\ (row.preimage => lock = "claimed") /\ j.tx <= Len(refunds)
      BY <3>2, <1>b, <1>c DEF RowSound, RowTellsTheTruth, TickSound, Lasting
    <3>4. row.state = "quoted" /\ lockup = "funded" /\ clock < EvmTimeout
      BY <1>a, <1>q, <2>2
    <3> HIDE DEF j
    <3> QED
      BY <2>2, <3>1, <3>2, <3>3, <3>4 DEF TickSound, Lasting, Fresh, Live
  <2> QED
    BY <1>e, <2>1, <2>2
<1>8. ASSUME NEW e \in Running \ {d} PROVE TickSound(job[e])'
  BY <1>a, <1>c, <1>d DEF LockAgain, Done, world, still, TickSound, Lasting, Fresh
<1> QED
  BY <1>e, <1>1, <1>2, <1>3, <1>4, <1>5, <1>6, <1>7, <1>8 DEF Inv

(* The exposure is recorded. *)
LEMMA ToLockingStep ==
  ASSUME Inv, NEW d \in Driver, ToLocking(d)
  PROVE  Inv'
<1> USE EvmSendAssumption
<1>a. /\ row \in Row /\ Running \in Fleets /\ job \in [Running -> Job]
      /\ refunds \in Seq(Outcomes) /\ Len(refunds) <= MaxRefunds /\ lock \in LockStages
      /\ clock \in Nat /\ rested \in BOOLEAN /\ TypeOK
  BY DEF Inv, TypeOK
<1>b. RowTellsTheTruth /\ RowSound /\ RefundsSound /\ AtRest /\ Over
  BY DEF Inv
<1>c. d \in Running /\ TickSound(job[d])
  BY DEF ToLocking, At, Inv
<1>d. ASSUME NEW e \in Running PROVE TickSound(job[e])
  BY DEF Inv
<1>e. /\ Running' = Running /\ job' \in [Running -> Job]
      /\ job'[d] \in {Idle, [job[d] EXCEPT !.pc = "sendLock"]}
      /\ \A e \in Running \ {d} : job'[e] = job[e]
  BY <1>a, <1>c, EndSound, GotoSound DEF ToLocking, transition, Throw, Done, Steps
<1>1. TypeOK'
  BY <1>a, <1>e DEF ToLocking, transition, world, still, Throw, TypeOK, Row, States
<1>2. RowTellsTheTruth'
  BY <1>a, <1>b DEF ToLocking, transition, world, Throw, RowTellsTheTruth, Row
<1>3. RowSound'
  BY <1>a, <1>b, <1>c DEF ToLocking, At, transition, world, still, Throw, Won, RowSound, Row,
       TickSound, Lasting
<1>4. RefundsSound'
  BY <1>b DEF ToLocking, world, still, RefundsSound, Present
<1>5. AtRest'
  BY <1>a, <1>c DEF ToLocking, At, still, AtRest, TickSound, Lasting
<1>6. Over'
  BY <1>b DEF ToLocking, At, world, still, Over, Unclaimed
<1>7. TickSound(job[d])'
  <2> DEFINE k == [job[d] EXCEPT !.pc = "sendLock"]
  <2>1. CASE job'[d] = Idle
    BY <2>1, <1>a, <1>c, <1>e, IdleSound
  <2>2. CASE job'[d] # Idle
    <3>1. /\ job[d].pc = "approve" /\ lock' = lock /\ refunds' = refunds /\ clock' = clock
          /\ lockup' = lockup /\ job[d] \in Job /\ job'[d] = k
      BY <2>2, <1>a, <1>c, <1>e DEF ToLocking, At, world, still
    <3>2. k.pc = "sendLock" /\ k.row = job[d].row /\ k.tx = job[d].tx /\ k.fresh = job[d].fresh
      BY <3>1 DEF Job
    <3>3. Won(job[d].row.state)
      BY <2>2, <1>a, <1>c, EndSound DEF ToLocking, transition, Throw
    <3>4. row' = [row EXCEPT !.state = "locking_evm"] /\ row.state = job[d].row.state
      BY <3>3 DEF ToLocking, transition, Won
    <3>5. row'.state = "locking_evm"
      BY <3>4, <1>a DEF Row
    <3> HIDE DEF k
    <3> QED
      BY <1>c, <3>1, <3>2, <3>4, <3>5 DEF TickSound, Lasting, Fresh
  <2> QED
    BY <2>1, <2>2
<1>8. ASSUME NEW e \in Running \ {d} PROVE TickSound(job[e])'
  BY <1>a, <1>d DEF ToLocking, At, transition, world, still, Goto, Throw, Won, TickSound, Lasting,
       Fresh
<1> QED
  BY <1>e, <1>1, <1>2, <1>3, <1>4, <1>5, <1>6, <1>7, <1>8 DEF Inv

(* The lock goes out. *)
LEMMA SendLockStep ==
  ASSUME Inv, NEW d \in Driver, SendLock(d)
  PROVE  Inv'
<1> USE EvmSendAssumption
<1>a. /\ row \in Row /\ Running \in Fleets /\ job \in [Running -> Job]
      /\ refunds \in Seq(Outcomes) /\ Len(refunds) <= MaxRefunds /\ lock \in LockStages
      /\ clock \in Nat /\ rested \in BOOLEAN /\ TypeOK
  BY DEF Inv, TypeOK
<1>b. RowTellsTheTruth /\ RowSound /\ RefundsSound /\ AtRest /\ Over
  BY DEF Inv
<1>c. d \in Running /\ TickSound(job[d])
  BY DEF SendLock, At, Inv
<1>d. ASSUME NEW e \in Running PROVE TickSound(job[e])
  BY DEF Inv
<1>e. /\ Running' = Running /\ job' \in [Running -> Job] /\ job'[d] = [job[d] EXCEPT !.pc = "patchLock"]
      /\ \A e \in Running \ {d} : job'[e] = job[e]
  BY <1>a, <1>c, GotoSound DEF SendLock, Steps
<1>1. TypeOK'
  BY <1>a, <1>e DEF SendLock, still, TypeOK, LockStages
<1>2. RowTellsTheTruth'
  BY <1>b, <1>c DEF SendLock, At, RowTellsTheTruth, TickSound, Lasting
<1>3. RowSound'
  BY <1>b, <1>c DEF SendLock, At, still, RowSound, TickSound, Lasting
<1>4. RefundsSound'
  BY <1>a, <1>b, <1>c DEF SendLock, At, RefundsSound, TickSound, Lasting
<1>5. AtRest'
  BY <1>b, <1>e DEF SendLock, At, still, AtRest, Unclaimed
<1>6. Over'
  BY <1>a, <1>c DEF SendLock, At, still, Over, TickSound, Lasting
<1>7. TickSound(job[d])'
  BY <1>c DEF SendLock, At, Goto, still, TickSound, Lasting, Fresh
<1>8. ASSUME NEW e \in Running \ {d} PROVE TickSound(job[e])'
  BY <1>d DEF SendLock, Goto, still, TickSound, Lasting, Fresh
<1> QED
  BY <1>e, <1>1, <1>2, <1>3, <1>4, <1>5, <1>6, <1>7, <1>8 DEF Inv

(* Its hash is recorded. *)
LEMMA PatchLockStep ==
  ASSUME Inv, NEW d \in Driver, PatchLock(d)
  PROVE  Inv'
<1> USE EvmSendAssumption
<1>a. /\ row \in Row /\ Running \in Fleets /\ job \in [Running -> Job]
      /\ refunds \in Seq(Outcomes) /\ Len(refunds) <= MaxRefunds /\ lock \in LockStages
      /\ clock \in Nat /\ rested \in BOOLEAN /\ TypeOK
  BY DEF Inv, TypeOK
<1>b. RowTellsTheTruth /\ RowSound /\ RefundsSound /\ AtRest /\ Over
  BY DEF Inv
<1>c. d \in Running /\ TickSound(job[d])
  BY DEF PatchLock, At, Inv
<1>d. ASSUME NEW e \in Running PROVE TickSound(job[e])
  BY DEF Inv
<1>e. /\ Running' = Running /\ job' \in [Running -> Job] /\ job'[d] = Idle
      /\ \A e \in Running \ {d} : job'[e] = job[e]
  BY <1>a, <1>c, EndSound DEF PatchLock, conclude, Done, Throw
<1>1. TypeOK'
  BY <1>a, <1>e DEF PatchLock, Done, world, still, TypeOK, Row
<1>2. RowTellsTheTruth'
  BY <1>b DEF PatchLock, world, RowTellsTheTruth
<1>3. RowSound'
  BY <1>b DEF PatchLock, world, still, RowSound
<1>4. RefundsSound'
  BY <1>b DEF PatchLock, world, still, RefundsSound, Present
<1>5. AtRest'
  BY <1>a, <1>b, <1>c, <1>e DEF PatchLock, At, Done, world, still, AtRest, Unclaimed, TickSound,
       Fresh
<1>6. Over'
  BY <1>b DEF PatchLock, At, world, still, Over, Unclaimed
<1>7. TickSound(job[d])'
  BY <1>a, <1>c, <1>e, IdleSound
<1>8. ASSUME NEW e \in Running \ {d} PROVE TickSound(job[e])'
  BY <1>d DEF PatchLock, Done, world, still, TickSound, Lasting, Fresh
<1> QED
  BY <1>e, <1>1, <1>2, <1>3, <1>4, <1>5, <1>6, <1>7, <1>8 DEF Inv

(* The lock is deep. *)
LEMMA ToAwaitingClaimStep ==
  ASSUME Inv, NEW d \in Driver, ToAwaitingClaim(d)
  PROVE  Inv'
<1> USE EvmSendAssumption
<1>a. /\ row \in Row /\ Running \in Fleets /\ job \in [Running -> Job]
      /\ refunds \in Seq(Outcomes) /\ Len(refunds) <= MaxRefunds /\ lock \in LockStages
      /\ clock \in Nat /\ rested \in BOOLEAN /\ TypeOK
  BY DEF Inv, TypeOK
<1>b. RowTellsTheTruth /\ RowSound /\ RefundsSound /\ AtRest /\ Over
  BY DEF Inv
<1>c. d \in Running /\ TickSound(job[d])
  BY DEF ToAwaitingClaim, At, Inv
<1>d. ASSUME NEW e \in Running PROVE TickSound(job[e])
  BY DEF Inv
<1>e. /\ Running' = Running /\ job' \in [Running -> Job] /\ job'[d] = Idle
      /\ \A e \in Running \ {d} : job'[e] = job[e]
  BY <1>a, <1>c, EndSound DEF ToAwaitingClaim, conclude, Done, Throw
<1>1. TypeOK'
  BY <1>a, <1>e DEF ToAwaitingClaim, conclude, world, still, Done, Throw, TypeOK, Row, States
<1>2. RowTellsTheTruth'
  BY <1>a, <1>b DEF ToAwaitingClaim, conclude, world, Throw, RowTellsTheTruth, Row
<1>3. RowSound'
  BY <1>a, <1>b, <1>c DEF ToAwaitingClaim, At, conclude, world, still, Throw, RowSound, Row,
       TickSound, Lasting
<1>4. RefundsSound'
  BY <1>b DEF ToAwaitingClaim, world, still, RefundsSound, Present
<1>5. AtRest'
  <2>1. /\ job[d].pc = "await_claim" /\ lock' = lock /\ refunds' = refunds /\ clock' = clock
        /\ lockup' = lockup
        /\ row' # row => row.state = job[d].row.state
        /\ rested' = rested \/ rested' = (rested \/ job[d].fresh)
    BY DEF ToAwaitingClaim, At, world, still, conclude, Done, Throw, Won
  <2>2. (\E e \in Running : job[e].pc = "collect") => (\E e \in Running' : job'[e].pc = "collect")
    BY <2>1, <1>e
  <2>3. CASE rested' = rested
    <3>1. row' # row => row.state # "refunded"
      BY <2>1, <1>c DEF TickSound, Lasting, Live
    <3> QED
      BY <2>1, <2>2, <2>3, <3>1, <1>b DEF AtRest, Unclaimed
  <2>4. CASE job[d].fresh
    BY <2>1, <2>4, <1>a, <1>c DEF AtRest, TickSound, Fresh
  <2> QED
    BY <1>a, <1>e, <2>1, <2>3, <2>4
<1>6. Over'
  BY <1>b DEF ToAwaitingClaim, At, world, still, Over, Unclaimed
<1>7. TickSound(job[d])'
  BY <1>a, <1>c, <1>e, IdleSound
<1>8. ASSUME NEW e \in Running \ {d} PROVE TickSound(job[e])'
  BY <1>a, <1>d DEF ToAwaitingClaim, conclude, world, still, Done, Throw, TickSound, Lasting, Fresh,
       Row
<1> QED
  BY <1>e, <1>1, <1>2, <1>3, <1>4, <1>5, <1>6, <1>7, <1>8 DEF Inv

(* The preimage is recorded. *)
LEMMA ToClaimingStep ==
  ASSUME Inv, NEW d \in Driver, ToClaiming(d)
  PROVE  Inv'
<1> USE EvmSendAssumption
<1>a. /\ row \in Row /\ Running \in Fleets /\ job \in [Running -> Job]
      /\ refunds \in Seq(Outcomes) /\ Len(refunds) <= MaxRefunds /\ lock \in LockStages
      /\ clock \in Nat /\ rested \in BOOLEAN /\ TypeOK
  BY DEF Inv, TypeOK
<1>b. RowTellsTheTruth /\ RowSound /\ RefundsSound /\ AtRest /\ Over
  BY DEF Inv
<1>c. d \in Running /\ TickSound(job[d])
  BY DEF ToClaiming, At, Inv
<1>d. ASSUME NEW e \in Running PROVE TickSound(job[e])
  BY DEF Inv
<1>e. /\ Running' = Running /\ job' \in [Running -> Job]
      /\ job'[d] \in {Idle, [job[d] EXCEPT !.pc = "collect"]}
      /\ \A e \in Running \ {d} : job'[e] = job[e]
  BY <1>a, <1>c, EndSound, GotoSound DEF ToClaiming, transition, Throw, Done, Steps
<1>1. TypeOK'
  <2>1. row' \in Row
    BY <1>a DEF ToClaiming, transition, Goto, Throw, Row, States
  <2>2. rested' \in BOOLEAN
    BY <1>a, <1>c DEF ToClaiming, transition, Goto, Throw, Job
  <2> QED
    BY <1>a, <1>e, <2>1, <2>2 DEF TypeOK, ToClaiming, world, still
<1>2. RowTellsTheTruth'
  BY <1>a, <1>b, <1>c DEF ToClaiming, At, transition, world, Throw, RowTellsTheTruth, Row,
       TickSound, Lasting
<1>3. RowSound'
  BY <1>a, <1>b, <1>c DEF ToClaiming, At, transition, world, still, Throw, RowSound, Row, TickSound,
       Lasting
<1>4. RefundsSound'
  BY <1>b DEF ToClaiming, world, still, RefundsSound, Present
<1>5. AtRest'
  BY <1>c, <1>e DEF ToClaiming, At, Goto, transition, world, Won, AtRest, TickSound, Lasting, Job
<1>6. Over'
  BY <1>b DEF ToClaiming, At, world, still, Over, Unclaimed
<1>7. TickSound(job[d])'
  BY <1>c, <1>e DEF ToClaiming, At, Goto, transition, world, Won, TickSound, Lasting, Fresh, Job
<1>8. ASSUME NEW e \in Running \ {d} PROVE TickSound(job[e])'
  BY <1>a, <1>d DEF ToClaiming, Goto, transition, world, still, Throw, TickSound, Lasting, Fresh,
       Row
<1> QED
  BY <1>e, <1>1, <1>2, <1>3, <1>4, <1>5, <1>6, <1>7, <1>8 DEF Inv

(* The lockup is collected. *)
LEMMA ClaimArkadeStep ==
  ASSUME Inv, NEW d \in Driver, claimArkade(d)
  PROVE  Inv'
<1> USE EvmSendAssumption
<1>a. /\ row \in Row /\ Running \in Fleets /\ job \in [Running -> Job]
      /\ refunds \in Seq(Outcomes) /\ Len(refunds) <= MaxRefunds /\ lock \in LockStages
      /\ clock \in Nat /\ rested \in BOOLEAN /\ TypeOK
  BY DEF Inv, TypeOK
<1>b. RowTellsTheTruth /\ RowSound /\ RefundsSound /\ AtRest /\ Over
  BY DEF Inv
<1>c. d \in Running /\ TickSound(job[d])
  BY DEF claimArkade, At, Inv
<1>d. ASSUME NEW e \in Running PROVE TickSound(job[e])
  BY DEF Inv
<1>e. /\ Running' = Running /\ job' \in [Running -> Job]
      /\ job'[d] \in {Idle, [job[d] EXCEPT !.pc = "markClaimed"]}
      /\ \A e \in Running \ {d} : job'[e] = job[e]
  BY <1>a, <1>c, EndSound, GotoSound DEF claimArkade, transition, Throw, Done, Steps
<1>1. TypeOK'
  BY <1>a, <1>e DEF claimArkade, Done, still, TypeOK
<1>2. RowTellsTheTruth'
  BY <1>b DEF claimArkade, RowTellsTheTruth
<1>3. RowSound'
  BY <1>b DEF claimArkade, still, RowSound
<1>4. RefundsSound'
  BY <1>b DEF claimArkade, still, RefundsSound, Present
<1>5. AtRest'
  BY <1>c DEF claimArkade, At, AtRest, Unclaimed, TickSound, Lasting
<1>6. Over'
  BY <1>b DEF claimArkade, At, still, Over, Unclaimed
<1>7. TickSound(job[d])'
  BY <1>c, <1>d, <1>e DEF claimArkade, At, Done, TickSound, Lasting, Fresh, Job, Live, Exposed,
       Idle, NewRow
<1>8. ASSUME NEW e \in Running \ {d} PROVE TickSound(job[e])'
  BY <1>a, <1>b, <1>d DEF claimArkade, At, Goto, Done, still, TickSound, Lasting, Fresh, RowSound
<1> QED
  BY <1>e, <1>1, <1>2, <1>3, <1>4, <1>5, <1>6, <1>7, <1>8 DEF Inv

(* The row is closed as claimed. *)
LEMMA MarkClaimedStep ==
  ASSUME Inv, NEW d \in Driver, MarkClaimed(d)
  PROVE  Inv'
<1> USE EvmSendAssumption
<1>a. /\ row \in Row /\ Running \in Fleets /\ job \in [Running -> Job]
      /\ refunds \in Seq(Outcomes) /\ Len(refunds) <= MaxRefunds /\ lock \in LockStages
      /\ clock \in Nat /\ rested \in BOOLEAN /\ TypeOK
  BY DEF Inv, TypeOK
<1>b. RowTellsTheTruth /\ RowSound /\ RefundsSound /\ AtRest /\ Over
  BY DEF Inv
<1>c. d \in Running /\ TickSound(job[d])
  BY DEF MarkClaimed, At, Inv
<1>d. ASSUME NEW e \in Running PROVE TickSound(job[e])
  BY DEF Inv
<1>e. /\ Running' = Running /\ job' \in [Running -> Job] /\ job'[d] = Idle
      /\ \A e \in Running \ {d} : job'[e] = job[e]
  BY <1>a, <1>c, EndSound DEF MarkClaimed, conclude, Done, Throw
<1>1. TypeOK'
  <2>1. row' \in Row
    BY <1>a DEF MarkClaimed, conclude, Done, Throw, Row, States
  <2>2. rested' \in BOOLEAN
    BY <1>a, <1>c DEF MarkClaimed, conclude, Done, Throw, Job
  <2> QED
    BY <1>a, <1>e, <2>1, <2>2 DEF TypeOK, MarkClaimed, world, still
<1>2. RowTellsTheTruth'
  BY <1>a, <1>b, <1>c DEF MarkClaimed, At, conclude, world, Throw, RowTellsTheTruth, Row, TickSound,
       Lasting
<1>3. RowSound'
  BY <1>a, <1>b DEF MarkClaimed, conclude, world, still, Throw, Won, RowSound, Row
<1>4. RefundsSound'
  BY <1>b DEF MarkClaimed, world, still, RefundsSound, Present
<1>5. AtRest'
  BY <1>c DEF MarkClaimed, At, world, AtRest, Unclaimed, TickSound, Lasting
<1>6. Over'
  BY <1>b DEF MarkClaimed, At, world, still, Over, Unclaimed
<1>7. TickSound(job[d])'
  BY <1>a, <1>c, <1>e, IdleSound
<1>8. ASSUME NEW e \in Running \ {d} PROVE TickSound(job[e])'
  BY <1>a, <1>d DEF MarkClaimed, conclude, world, still, Done, Throw, TickSound, Lasting, Fresh, Row
<1> QED
  BY <1>e, <1>1, <1>2, <1>3, <1>4, <1>5, <1>6, <1>7, <1>8 DEF Inv

(* The refund is recorded as begun. *)
LEMMA ToRefundingStep ==
  ASSUME Inv, NEW d \in Driver, ToRefunding(d)
  PROVE  Inv'
<1> USE EvmSendAssumption
<1>a. /\ row \in Row /\ Running \in Fleets /\ job \in [Running -> Job]
      /\ refunds \in Seq(Outcomes) /\ Len(refunds) <= MaxRefunds /\ lock \in LockStages
      /\ clock \in Nat /\ rested \in BOOLEAN /\ TypeOK
  BY DEF Inv, TypeOK
<1>b. RowTellsTheTruth /\ RowSound /\ RefundsSound /\ AtRest /\ Over
  BY DEF Inv
<1>c. d \in Running /\ TickSound(job[d])
  BY DEF ToRefunding, At, Inv
<1>d. ASSUME NEW e \in Running PROVE TickSound(job[e])
  BY DEF Inv
<1>e. /\ Running' = Running /\ job' \in [Running -> Job]
      /\ job'[d] \in {Idle, [job[d] EXCEPT !.pc = "sendRefund"]}
      /\ \A e \in Running \ {d} : job'[e] = job[e]
  BY <1>a, <1>c, EndSound, GotoSound DEF ToRefunding, transition, Throw, Done, Steps
<1>1. TypeOK'
  BY <1>a, <1>e DEF ToRefunding, transition, world, still, Throw, TypeOK, Row, States
<1>2. RowTellsTheTruth'
  BY <1>a, <1>b DEF ToRefunding, transition, world, Throw, RowTellsTheTruth, Row
<1>3. RowSound'
  BY <1>a, <1>b, <1>c DEF ToRefunding, transition, world, still, Throw, Won, RowSound, Row,
       TickSound, Lasting, Live
<1>4. RefundsSound'
  BY <1>b DEF ToRefunding, world, still, RefundsSound, Present
<1>5. AtRest'
  <2>1. /\ job[d].pc = "refund_evm" /\ lock' = lock /\ refunds' = refunds /\ clock' = clock
        /\ lockup' = lockup /\ rested' = rested
        /\ row' # row => row.state = job[d].row.state
    BY DEF ToRefunding, At, world, still, transition, Throw, Won
  <2>2. (\E e \in Running : job[e].pc = "collect") => (\E e \in Running' : job'[e].pc = "collect")
    BY <2>1, <1>e
  <2>3. row' # row => row.state # "refunded"
    BY <2>1, <1>c DEF TickSound, Lasting, Live
  <2> QED
    BY <2>1, <2>2, <2>3, <1>b DEF AtRest, Unclaimed
<1>6. Over'
  BY <1>b DEF ToRefunding, At, world, still, Over, Unclaimed
<1>7. TickSound(job[d])'
  <2> DEFINE k == [job[d] EXCEPT !.pc = "sendRefund"]
  <2>1. CASE job'[d] = Idle
    BY <2>1, <1>a, <1>c, <1>e, IdleSound
  <2>2. CASE job'[d] # Idle
    <3>1. /\ job[d].pc = "refund_evm" /\ lock' = lock /\ refunds' = refunds /\ clock' = clock
          /\ lockup' = lockup /\ job[d] \in Job /\ job'[d] = k
      BY <2>2, <1>a, <1>c, <1>e DEF ToRefunding, At, world, still
    <3>2. k.pc = "sendRefund" /\ k.row = job[d].row /\ k.tx = job[d].tx /\ k.fresh = job[d].fresh
      BY <3>1 DEF Job
    <3> HIDE DEF k
    <3> QED
      BY <1>c, <3>1, <3>2 DEF TickSound, Lasting, Fresh
  <2> QED
    BY <2>1, <2>2
<1>8. ASSUME NEW e \in Running \ {d} PROVE TickSound(job[e])'
  BY <1>a, <1>d DEF ToRefunding, At, Goto, transition, world, still, Throw, TickSound, Lasting,
       Fresh
<1> QED
  BY <1>e, <1>1, <1>2, <1>3, <1>4, <1>5, <1>6, <1>7, <1>8 DEF Inv

(* A refund goes out. *)
LEMMA SendRefundStep ==
  ASSUME Inv, NEW d \in Driver, SendRefund(d)
  PROVE  Inv'
<1> USE EvmSendAssumption
<1>a. /\ row \in Row /\ Running \in Fleets /\ job \in [Running -> Job]
      /\ refunds \in Seq(Outcomes) /\ Len(refunds) <= MaxRefunds /\ lock \in LockStages
      /\ clock \in Nat /\ rested \in BOOLEAN /\ TypeOK
  BY DEF Inv, TypeOK
<1>b. RowTellsTheTruth /\ RowSound /\ RefundsSound /\ AtRest /\ Over
  BY DEF Inv
<1>c. d \in Running /\ TickSound(job[d])
  BY DEF SendRefund, At, Inv
<1>d. ASSUME NEW e \in Running PROVE TickSound(job[e])
  BY DEF Inv
<1> DEFINE j == [job[d] EXCEPT !.pc = "patchRefund", !.tx = Len(refunds) + 1]
<1>j. j \in Job /\ refunds' \in Seq(Outcomes) /\ Len(refunds') = Len(refunds) + 1 /\ Len(refunds) \in Nat
      /\ Len(refunds') <= MaxRefunds
  <2>1. "pending" \in Outcomes /\ Len(refunds) \in Nat
    BY <1>a DEF Outcomes
  <2>2. refunds' = Append(refunds, "pending") /\ Len(refunds) + 1 \in 0..MaxRefunds
    BY <1>a, <2>1 DEF SendRefund
  <2>3. refunds' \in Seq(Outcomes) /\ Len(refunds') = Len(refunds) + 1
    BY <1>a, <2>1, <2>2
  <2>4. "patchRefund" \in Steps
    BY DEF Steps
  <2>5. j \in Job
    BY <1>a, <1>c, <2>2, <2>4 DEF Job
  <2> QED
    BY <2>1, <2>2, <2>3, <2>5
<1>e. /\ Running' = Running /\ job' \in [Running -> Job] /\ job'[d] = j
      /\ \A e \in Running \ {d} : job'[e] = job[e]
  <2>1. job' = [job EXCEPT ![d] = j]
    BY <1>a, <1>c DEF SendRefund
  <2> HIDE DEF j
  <2> QED
    BY <1>a, <1>c, <1>j, <2>1 DEF Running
<1>1. TypeOK'
  BY <1>a, <1>e DEF SendRefund, still, TypeOK, Outcomes
<1>2. RowTellsTheTruth'
  BY <1>b DEF SendRefund, RowTellsTheTruth
<1>3. RowSound'
  BY <1>a, <1>b DEF SendRefund, still, RowSound, Row
<1>4. RefundsSound'
  BY <1>b, <1>c, <1>e DEF SendRefund, At, still, RefundsSound, Present, TickSound, Lasting
<1>5. AtRest'
  <2>1. /\ job[d].pc = "sendRefund" /\ lock' = lock /\ clock' = clock
        /\ row' = row /\ lockup' = lockup /\ rested' = rested
    BY DEF SendRefund, At, still
  <2>2. (\E e \in Running : job[e].pc = "collect") => (\E e \in Running' : job'[e].pc = "collect")
    BY <2>1, <1>e
  <2>3. refunds' # <<>>
    BY <1>a, <1>j
  <2> QED
    BY <2>1, <2>2, <2>3, <1>b DEF AtRest, Unclaimed
<1>6. Over'
  BY <1>b DEF SendRefund, At, still, Over, Unclaimed
<1>7. TickSound(job[d])'
  BY <1>a, <1>c DEF SendRefund, TickSound, Lasting, Job
<1>8. ASSUME NEW e \in Running \ {d} PROVE TickSound(job[e])'
  BY <1>a, <1>c DEF SendRefund, TickSound, Lasting, Job
<1> QED
  BY <1>e, <1>1, <1>2, <1>3, <1>4, <1>5, <1>6, <1>7, <1>8 DEF Inv

(* Its hash is recorded, if it is the first. *)
LEMMA ClaimRefundTxidStep ==
  ASSUME Inv, NEW d \in Driver, claimRefundTxid(d)
  PROVE  Inv'
<1> USE EvmSendAssumption
<1>a. /\ row \in Row /\ Running \in Fleets /\ job \in [Running -> Job]
      /\ refunds \in Seq(Outcomes) /\ Len(refunds) <= MaxRefunds /\ lock \in LockStages
      /\ clock \in Nat /\ rested \in BOOLEAN /\ TypeOK
  BY DEF Inv, TypeOK
<1>b. RowTellsTheTruth /\ RowSound /\ RefundsSound /\ AtRest /\ Over
  BY DEF Inv
<1>c. d \in Running /\ TickSound(job[d])
  BY DEF claimRefundTxid, At, Inv
<1>d. ASSUME NEW e \in Running PROVE TickSound(job[e])
  BY DEF Inv
<1>e. /\ Running' = Running /\ job' \in [Running -> Job] /\ job'[d] = Idle
      /\ \A e \in Running \ {d} : job'[e] = job[e]
  BY <1>a, <1>c, EndSound DEF claimRefundTxid, conclude, Done, Throw
<1>1. TypeOK'
  BY <1>a, <1>e DEF claimRefundTxid, At, Done, world, still, TypeOK, Row, Job
<1>2. RowTellsTheTruth'
  BY <1>b DEF claimRefundTxid, world, RowTellsTheTruth
<1>3. RowSound'
  BY <1>b, <1>c DEF claimRefundTxid, world, still, RowSound, TickSound, Lasting
<1>4. RefundsSound'
  BY <1>b DEF claimRefundTxid, world, still, RefundsSound, Present
<1>5. AtRest'
  BY <1>a, <1>b, <1>c, <1>e DEF claimRefundTxid, At, Done, world, still, AtRest, Unclaimed,
       TickSound, Lasting, Fresh, Job
<1>6. Over'
  BY <1>b DEF claimRefundTxid, At, world, still, Over, Unclaimed
<1>7. TickSound(job[d])'
  BY <1>a, <1>c, <1>e, IdleSound
<1>8. ASSUME NEW e \in Running \ {d} PROVE TickSound(job[e])'
  BY <1>d DEF claimRefundTxid, Done, world, still, TickSound, Lasting, Fresh
<1> QED
  BY <1>e, <1>1, <1>2, <1>3, <1>4, <1>5, <1>6, <1>7, <1>8 DEF Inv

(* The row is closed as refunded. *)
LEMMA RecordRefundStep ==
  ASSUME Inv, NEW d \in Driver, RecordRefund(d)
  PROVE  Inv'
<1> USE EvmSendAssumption
<1>a. /\ row \in Row /\ Running \in Fleets /\ job \in [Running -> Job]
      /\ refunds \in Seq(Outcomes) /\ Len(refunds) <= MaxRefunds /\ lock \in LockStages
      /\ clock \in Nat /\ rested \in BOOLEAN /\ TypeOK
  BY DEF Inv, TypeOK
<1>b. RowTellsTheTruth /\ RowSound /\ RefundsSound /\ AtRest /\ Over
  BY DEF Inv
<1>c. d \in Running /\ TickSound(job[d])
  BY DEF RecordRefund, At, Inv
<1>d. ASSUME NEW e \in Running PROVE TickSound(job[e])
  BY DEF Inv
<1>e. /\ Running' = Running /\ job' \in [Running -> Job] /\ job'[d] = Idle
      /\ \A e \in Running \ {d} : job'[e] = job[e]
  BY <1>a, <1>c, EndSound DEF RecordRefund, conclude, Done, Throw
<1>1. TypeOK'
  <2>1. row' \in Row
    BY <1>a DEF RecordRefund, conclude, Done, Throw, Row, States
  <2>2. rested' \in BOOLEAN
    BY <1>a, <1>c DEF RecordRefund, conclude, Done, Throw, Job
  <2> QED
    BY <1>a, <1>e, <2>1, <2>2 DEF TypeOK, RecordRefund, world, still
<1>2. RowTellsTheTruth'
  BY <1>a, <1>b DEF RecordRefund, conclude, world, Throw, RowTellsTheTruth, Row
<1>3. RowSound'
  BY <1>a, <1>b, <1>c DEF RecordRefund, At, conclude, world, still, Throw, Won, RowSound, Row,
       TickSound, Lasting
<1>4. RefundsSound'
  BY <1>b DEF RecordRefund, world, still, RefundsSound, Present
<1>5. AtRest'
  BY <1>b, <1>c, <1>e DEF RecordRefund, At, conclude, world, still, Done, Throw, Won, AtRest,
       Unclaimed, TickSound, Fresh
<1>6. Over'
  BY <1>b DEF RecordRefund, At, world, still, Over, Unclaimed
<1>7. TickSound(job[d])'
  BY <1>a, <1>c, <1>e, IdleSound
<1>8. ASSUME NEW e \in Running \ {d} PROVE TickSound(job[e])'
  BY <1>a, <1>d DEF RecordRefund, conclude, world, still, Done, Throw, TickSound, Lasting, Fresh,
       Row
<1> QED
  BY <1>e, <1>1, <1>2, <1>3, <1>4, <1>5, <1>6, <1>7, <1>8 DEF Inv

(* A tick dies. *)
LEMMA AbandonStep ==
  ASSUME Inv, NEW d \in Driver, Abandon(d)
  PROVE  Inv'
<1> USE EvmSendAssumption
<1>a. /\ row \in Row /\ Running \in Fleets /\ job \in [Running -> Job]
      /\ refunds \in Seq(Outcomes) /\ Len(refunds) <= MaxRefunds /\ lock \in LockStages
      /\ clock \in Nat /\ rested \in BOOLEAN /\ TypeOK
  BY DEF Inv, TypeOK
<1>b. RowTellsTheTruth /\ RowSound /\ RefundsSound /\ AtRest /\ Over
  BY DEF Inv
<1>c. d \in Running /\ TickSound(job[d])
  BY DEF Abandon, At, Inv
<1>d. ASSUME NEW e \in Running PROVE TickSound(job[e])
  BY DEF Inv
<1>e. /\ Running' = Running /\ job' \in [Running -> Job] /\ job'[d] = Idle
      /\ \A e \in Running \ {d} : job'[e] = job[e]
  BY <1>a, <1>c, EndSound DEF Abandon, conclude, Done, Throw
<1>1. TypeOK'
  <2>0. faults' \in Nat
    <3>1. faults \in Nat /\ faults' = faults + 1
      BY <1>a DEF TypeOK, Abandon, Fault
    <3> QED
      BY <3>1
  <2>1. rested' \in BOOLEAN
    BY DEF Abandon, Fault
  <2> QED
    BY <1>a, <1>e, <2>0, <2>1 DEF TypeOK, Abandon, world
<1>2. RowTellsTheTruth'
  BY <1>b DEF Abandon, world, RowTellsTheTruth
<1>3. RowSound'
  BY <1>b DEF Abandon, world, RowSound
<1>4. RefundsSound'
  BY <1>b DEF Abandon, world, RefundsSound, Present
<1>5. AtRest'
  BY DEF Abandon, AtRest
<1>6. Over'
  BY <1>b DEF Abandon, At, world, Over, Unclaimed
<1>7. TickSound(job[d])'
  BY <1>a, <1>c, <1>e, IdleSound
<1>8. ASSUME NEW e \in Running \ {d} PROVE TickSound(job[e])'
  BY <1>d DEF Abandon, world, TickSound, Lasting, Fresh
<1> QED
  BY <1>e, <1>1, <1>2, <1>3, <1>4, <1>5, <1>6, <1>7, <1>8 DEF Inv

(* The sweep looks at a refused row. *)
LEMMA RefundSweepStep ==
  ASSUME Inv, refundSweep
  PROVE  Inv'
<1> USE EvmSendAssumption
<1>a. /\ row \in Row /\ Running \in Fleets /\ job \in [Running -> Job]
      /\ refunds \in Seq(Outcomes) /\ Len(refunds) <= MaxRefunds /\ lock \in LockStages
      /\ clock \in Nat /\ rested \in BOOLEAN /\ TypeOK
  BY DEF Inv, TypeOK
<1>b. RowTellsTheTruth /\ RowSound /\ RefundsSound /\ AtRest /\ Over
  BY DEF Inv
<1>d. ASSUME NEW e \in Running PROVE TickSound(job[e])
  BY DEF Inv
<1>e. Running' = Running /\ job' = job
  BY DEF refundSweep, world, Refundable, Running
<1>1. TypeOK'
  BY <1>a, <1>e DEF refundSweep, world, TypeOK, Row
<1>2. RowTellsTheTruth'
  BY <1>a, <1>b DEF refundSweep, world, RowTellsTheTruth, Row
<1>3. RowSound'
  BY <1>a, <1>b DEF refundSweep, world, Refundable, RowSound, Row
<1>4. RefundsSound'
  BY <1>b DEF refundSweep, world, RefundsSound, Present
<1>5. AtRest'
  BY <1>b, <1>e DEF refundSweep, world, AtRest, Unclaimed
<1>6. Over'
  BY <1>b DEF refundSweep, world, Refundable, Over, Unclaimed
<1>7. ASSUME NEW e \in Running PROVE TickSound(job[e])'
  BY <1>a, <1>d DEF refundSweep, world, TickSound, Lasting, Fresh, Row
<1> QED
  BY <1>e, <1>1, <1>2, <1>3, <1>4, <1>5, <1>6, <1>7 DEF Inv

(* The sweep returns a lockup. *)
LEMMA SweepRefundStep ==
  ASSUME Inv, SweepRefund
  PROVE  Inv'
<1> USE EvmSendAssumption
<1>a. /\ row \in Row /\ Running \in Fleets /\ job \in [Running -> Job]
      /\ refunds \in Seq(Outcomes) /\ Len(refunds) <= MaxRefunds /\ lock \in LockStages
      /\ clock \in Nat /\ rested \in BOOLEAN /\ TypeOK
  BY DEF Inv, TypeOK
<1>b. RowTellsTheTruth /\ RowSound /\ RefundsSound /\ AtRest /\ Over
  BY DEF Inv
<1>d. ASSUME NEW e \in Running PROVE TickSound(job[e])
  BY DEF Inv
<1>e. Running' = Running /\ job' = job
  BY DEF SweepRefund, Running
<1>1. TypeOK'
  BY <1>a, <1>e DEF SweepRefund, TypeOK
<1>2. RowTellsTheTruth'
  BY <1>b DEF SweepRefund, RowTellsTheTruth
<1>3. RowSound'
  BY <1>b DEF SweepRefund, RowSound
<1>4. RefundsSound'
  BY <1>b DEF SweepRefund, RefundsSound, Present
<1>5. AtRest'
  BY <1>b DEF SweepRefund, AtRest, Unclaimed
<1>6. Over'
  BY <1>b, <1>e DEF SweepRefund, Over, Unclaimed
<1>7. ASSUME NEW e \in Running PROVE TickSound(job[e])'
  BY <1>b, <1>d DEF SweepRefund, TickSound, Lasting, Fresh, RowSound
<1> QED
  BY <1>e, <1>1, <1>2, <1>3, <1>4, <1>5, <1>6, <1>7 DEF Inv

(* The sweep records it. *)
LEMMA SweepPatchStep ==
  ASSUME Inv, SweepPatch
  PROVE  Inv'
<1> USE EvmSendAssumption
<1>a. /\ row \in Row /\ Running \in Fleets /\ job \in [Running -> Job]
      /\ refunds \in Seq(Outcomes) /\ Len(refunds) <= MaxRefunds /\ lock \in LockStages
      /\ clock \in Nat /\ rested \in BOOLEAN /\ TypeOK
  BY DEF Inv, TypeOK
<1>b. RowTellsTheTruth /\ RowSound /\ RefundsSound /\ AtRest /\ Over
  BY DEF Inv
<1>d. ASSUME NEW e \in Running PROVE TickSound(job[e])
  BY DEF Inv
<1>e. Running' = Running /\ job' = job
  BY DEF SweepPatch, world, Running
<1>1. TypeOK'
  BY <1>a, <1>e DEF SweepPatch, world, TypeOK, Row
<1>2. RowTellsTheTruth'
  BY <1>b DEF SweepPatch, world, RowTellsTheTruth, RowSound
<1>3. RowSound'
  BY <1>b DEF SweepPatch, world, RowSound
<1>4. RefundsSound'
  BY <1>b DEF SweepPatch, world, RefundsSound, Present
<1>5. AtRest'
  BY <1>b, <1>e DEF SweepPatch, world, AtRest, Unclaimed
<1>6. Over'
  BY <1>b, <1>e DEF SweepPatch, world, Over, Unclaimed
<1>7. ASSUME NEW e \in Running PROVE TickSound(job[e])'
  BY <1>d DEF SweepPatch, world, TickSound, Lasting, Fresh
<1> QED
  BY <1>e, <1>1, <1>2, <1>3, <1>4, <1>5, <1>6, <1>7 DEF Inv

(* A closed row is read for a late claim. *)
LEMMA WatchLateLocksStep ==
  ASSUME Inv, watchLateLocks
  PROVE  Inv'
<1> USE EvmSendAssumption
<1>a. /\ row \in Row /\ Running \in Fleets /\ job \in [Running -> Job]
      /\ refunds \in Seq(Outcomes) /\ Len(refunds) <= MaxRefunds /\ lock \in LockStages
      /\ clock \in Nat /\ rested \in BOOLEAN /\ TypeOK
  BY DEF Inv, TypeOK
<1>b. RowTellsTheTruth /\ RowSound /\ RefundsSound /\ AtRest /\ Over
  BY DEF Inv
<1>d. ASSUME NEW e \in Running PROVE TickSound(job[e])
  BY DEF Inv
<1>e. Running' = Running /\ job' = job
  BY DEF watchLateLocks, world, still, findClosedOverLock, Running
<1>1. TypeOK'
  BY <1>a, <1>e DEF watchLateLocks, world, still, TypeOK, Row
<1>2. RowTellsTheTruth'
  BY <1>b DEF watchLateLocks, world, RowTellsTheTruth
<1>3. RowSound'
  BY <1>b DEF watchLateLocks, world, still, RowSound
<1>4. RefundsSound'
  BY <1>b DEF watchLateLocks, world, still, RefundsSound, Present
<1>5. AtRest'
  BY <1>b DEF watchLateLocks, world, findClosedOverLock, AtRest, Unclaimed, RowSound, Over
<1>6. Over'
  BY <1>a DEF watchLateLocks, still, findClosedOverLock, Over
<1>7. ASSUME NEW e \in Running PROVE TickSound(job[e])'
  BY <1>d DEF watchLateLocks, world, still, TickSound, Lasting, Fresh
<1> QED
  BY <1>e, <1>1, <1>2, <1>3, <1>4, <1>5, <1>6, <1>7 DEF Inv

(* The sweep dies. *)
LEMMA SweepAbandonStep ==
  ASSUME Inv, SweepAbandon
  PROVE  Inv'
<1> USE EvmSendAssumption
<1>a. /\ row \in Row /\ Running \in Fleets /\ job \in [Running -> Job]
      /\ refunds \in Seq(Outcomes) /\ Len(refunds) <= MaxRefunds /\ lock \in LockStages
      /\ clock \in Nat /\ rested \in BOOLEAN /\ TypeOK
  BY DEF Inv, TypeOK
<1>b. RowTellsTheTruth /\ RowSound /\ RefundsSound /\ AtRest /\ Over
  BY DEF Inv
<1>d. ASSUME NEW e \in Running PROVE TickSound(job[e])
  BY DEF Inv
<1>e. Running' = Running /\ job' = job
  BY DEF SweepAbandon, world, Fault, Running
<1>1. TypeOK'
  BY <1>a, <1>e DEF SweepAbandon, world, Fault, TypeOK
<1>2. RowTellsTheTruth'
  BY <1>b DEF SweepAbandon, world, RowTellsTheTruth
<1>3. RowSound'
  BY <1>b DEF SweepAbandon, world, RowSound
<1>4. RefundsSound'
  BY <1>b DEF SweepAbandon, world, RefundsSound, Present
<1>5. AtRest'
  BY <1>b, <1>e DEF SweepAbandon, world, AtRest, Unclaimed
<1>6. Over'
  BY <1>b, <1>e DEF SweepAbandon, world, Over, Unclaimed
<1>7. ASSUME NEW e \in Running PROVE TickSound(job[e])'
  BY <1>d DEF SweepAbandon, world, TickSound, Lasting, Fresh
<1> QED
  BY <1>e, <1>1, <1>2, <1>3, <1>4, <1>5, <1>6, <1>7 DEF Inv

(* The lock transaction reverts. *)
LEMMA LockRevertsStep ==
  ASSUME Inv, LockReverts
  PROVE  Inv'
<1> USE EvmSendAssumption
<1>a. /\ row \in Row /\ Running \in Fleets /\ job \in [Running -> Job]
      /\ refunds \in Seq(Outcomes) /\ Len(refunds) <= MaxRefunds /\ lock \in LockStages
      /\ clock \in Nat /\ rested \in BOOLEAN /\ TypeOK
  BY DEF Inv, TypeOK
<1>b. RowTellsTheTruth /\ RowSound /\ RefundsSound /\ AtRest /\ Over
  BY DEF Inv
<1>d. ASSUME NEW e \in Running PROVE TickSound(job[e])
  BY DEF Inv
<1>e. /\ Running' = Running /\ job' \in [Running -> Job]
      /\ \A e \in Running : job'[e] = [job[e] EXCEPT !.fresh = FALSE]
  BY <1>a, DisturbSound DEF LockReverts, Disturb
<1>1. TypeOK'
  <2>0. faults' \in Nat
    <3>1. faults \in Nat /\ faults' = faults + 1
      BY <1>a DEF TypeOK, LockReverts, Fault
    <3> QED
      BY <3>1
  <2>1. rested' \in BOOLEAN /\ lock' \in LockStages
    BY DEF LockReverts, Fault, Disturb, LockStages
  <2> QED
    BY <1>a, <1>e, <2>0, <2>1 DEF TypeOK, LockReverts
<1>2. RowTellsTheTruth'
  BY <1>b DEF LockReverts, RowTellsTheTruth
<1>3. RowSound'
  BY <1>b DEF LockReverts, RowSound
<1>4. RefundsSound'
  BY <1>b DEF LockReverts, RefundsSound
<1>5. AtRest'
  BY DEF LockReverts, AtRest
<1>6. Over'
  BY DEF LockReverts, Over
<1>7. ASSUME NEW e \in Running PROVE TickSound(job[e])'
  BY <1>a, <1>d DEF LockReverts, Disturb, TickSound, Lasting, Job
<1> QED
  BY <1>e, <1>1, <1>2, <1>3, <1>4, <1>5, <1>6, <1>7 DEF Inv

(* A shallow block is replaced. *)
LEMMA ReorgStep ==
  ASSUME Inv, Reorg
  PROVE  Inv'
<1> USE EvmSendAssumption
<1>a. /\ row \in Row /\ Running \in Fleets /\ job \in [Running -> Job]
      /\ refunds \in Seq(Outcomes) /\ Len(refunds) <= MaxRefunds /\ lock \in LockStages
      /\ clock \in Nat /\ rested \in BOOLEAN /\ TypeOK
  BY DEF Inv, TypeOK
<1>b. RowTellsTheTruth /\ RowSound /\ RefundsSound /\ AtRest /\ Over
  BY DEF Inv
<1>d. ASSUME NEW e \in Running PROVE TickSound(job[e])
  BY DEF Inv
<1>e. /\ Running' = Running /\ job' \in [Running -> Job]
      /\ \A e \in Running : job'[e] = [job[e] EXCEPT !.fresh = FALSE]
  BY <1>a, DisturbSound DEF Reorg, Disturb
<1>1. TypeOK'
  <2>0. faults' \in Nat
    <3>1. faults \in Nat /\ faults' = faults + 1
      BY <1>a DEF TypeOK, Reorg, Fault
    <3> QED
      BY <3>1
  <2>1. rested' \in BOOLEAN /\ lock' \in LockStages
    BY DEF Reorg, Fault, Disturb, LockStages
  <2>2. refunds' \in Seq(Outcomes) /\ Len(refunds') = Len(refunds)
    BY <1>a DEF Reorg, Outcomes
  <2> QED
    BY <1>a, <1>e, <2>0, <2>1, <2>2 DEF TypeOK, Reorg
<1>2. RowTellsTheTruth'
  BY <1>b DEF Reorg, RowTellsTheTruth
<1>3. RowSound'
  BY <1>b DEF Reorg, RowSound
<1>4. RefundsSound'
  BY <1>b DEF Reorg, RefundsSound
<1>5. AtRest'
  BY DEF Reorg, Disturb, AtRest
<1>6. Over'
  BY <1>b DEF Reorg, Over
<1>7. ASSUME NEW e \in Running PROVE TickSound(job[e])'
  <2> DEFINE k == job[e]
  <2>1. /\ job'[e].pc = k.pc /\ job'[e].row = k.row /\ job'[e].seen = k.seen /\ job'[e].tx = k.tx
        /\ job'[e].fresh = FALSE
    BY <1>a, <1>e DEF Job
  <2>2. k \in Job /\ Lasting(k)
    BY <1>a, <1>d DEF TickSound
  <2>3. /\ lock \in {"shallow", "claimShallow", "refundShallow"} /\ lock' \in {"pending", "deep"}
        /\ row' = row /\ lockup' = lockup /\ clock' = clock /\ Len(refunds') = Len(refunds)
        /\ refunds # <<>> => refunds' # <<>>
    BY <1>a DEF Reorg
  <2>4. Lasting(job[e])'
    BY <1>a, <1>b, <2>1, <2>2, <2>3 DEF Lasting, Row
  <2> QED
    BY <2>1, <2>4 DEF TickSound
<1> QED
  BY <1>e, <1>1, <1>2, <1>3, <1>4, <1>5, <1>6, <1>7 DEF Inv

(* The client funds. *)
LEMMA ClientFundsStep ==
  ASSUME Inv, ClientFunds
  PROVE  Inv'
<1> USE EvmSendAssumption
<1>a. /\ row \in Row /\ Running \in Fleets /\ job \in [Running -> Job]
      /\ refunds \in Seq(Outcomes) /\ Len(refunds) <= MaxRefunds /\ lock \in LockStages
      /\ clock \in Nat /\ rested \in BOOLEAN /\ TypeOK
  BY DEF Inv, TypeOK
<1>b. RowTellsTheTruth /\ RowSound /\ RefundsSound /\ AtRest /\ Over
  BY DEF Inv
<1>d. ASSUME NEW e \in Running PROVE TickSound(job[e])
  BY DEF Inv
<1>e. /\ Running' = Running /\ job' \in [Running -> Job]
      /\ \A e \in Running : job'[e] = [job[e] EXCEPT !.fresh = FALSE]
  BY <1>a, DisturbSound DEF ClientFunds, Disturb
<1>1. TypeOK'
  BY <1>a, <1>e DEF ClientFunds, Disturb, still, TypeOK
<1>2. RowTellsTheTruth'
  BY <1>b DEF ClientFunds, RowTellsTheTruth
<1>3. RowSound'
  BY <1>b DEF ClientFunds, still, RowSound
<1>4. RefundsSound'
  BY <1>b DEF ClientFunds, still, RefundsSound, Present
<1>5. AtRest'
  BY DEF ClientFunds, Disturb, AtRest
<1>6. Over'
  BY <1>a DEF ClientFunds, still, Over
<1>7. ASSUME NEW e \in Running PROVE TickSound(job[e])'
  BY <1>a, <1>d DEF ClientFunds, Disturb, still, TickSound, Lasting, Job
<1> QED
  BY <1>e, <1>1, <1>2, <1>3, <1>4, <1>5, <1>6, <1>7 DEF Inv

(* The client claims the tokens. *)
LEMMA ClientClaimsStep ==
  ASSUME Inv, ClientClaims
  PROVE  Inv'
<1> USE EvmSendAssumption
<1>a. /\ row \in Row /\ Running \in Fleets /\ job \in [Running -> Job]
      /\ refunds \in Seq(Outcomes) /\ Len(refunds) <= MaxRefunds /\ lock \in LockStages
      /\ clock \in Nat /\ rested \in BOOLEAN /\ TypeOK
  BY DEF Inv, TypeOK
<1>b. RowTellsTheTruth /\ RowSound /\ RefundsSound /\ AtRest /\ Over
  BY DEF Inv
<1>d. ASSUME NEW e \in Running PROVE TickSound(job[e])
  BY DEF Inv
<1>e. /\ Running' = Running /\ job' \in [Running -> Job]
      /\ \A e \in Running : job'[e] = [job[e] EXCEPT !.fresh = FALSE]
  BY <1>a, DisturbSound DEF ClientClaims, Disturb
<1>1. TypeOK'
  BY <1>a, <1>e DEF ClientClaims, Disturb, still, TypeOK, LockStages
<1>2. RowTellsTheTruth'
  BY <1>b DEF ClientClaims, Present, RowTellsTheTruth
<1>3. RowSound'
  BY <1>b DEF ClientClaims, still, Present, RowSound
<1>4. RefundsSound'
  BY <1>b DEF ClientClaims, still, Present, RefundsSound
<1>5. AtRest'
  BY DEF ClientClaims, AtRest
<1>6. Over'
  BY <1>b DEF ClientClaims, still, Present, Over
<1>7. ASSUME NEW e \in Running PROVE TickSound(job[e])'
  BY <1>a, <1>d DEF ClientClaims, Disturb, still, Present, TickSound, Lasting, Job
<1> QED
  BY <1>e, <1>1, <1>2, <1>3, <1>4, <1>5, <1>6, <1>7 DEF Inv

(* The client takes its lockup back. *)
LEMMA ClientReclaimsStep ==
  ASSUME Inv, ClientReclaims
  PROVE  Inv'
<1> USE EvmSendAssumption
<1>a. /\ row \in Row /\ Running \in Fleets /\ job \in [Running -> Job]
      /\ refunds \in Seq(Outcomes) /\ Len(refunds) <= MaxRefunds /\ lock \in LockStages
      /\ clock \in Nat /\ rested \in BOOLEAN /\ TypeOK
  BY DEF Inv, TypeOK
<1>b. RowTellsTheTruth /\ RowSound /\ RefundsSound /\ AtRest /\ Over
  BY DEF Inv
<1>d. ASSUME NEW e \in Running PROVE TickSound(job[e])
  BY DEF Inv
<1>e. Running' = Running /\ job' = job
  BY DEF ClientReclaims, still, Running
<1>1. TypeOK'
  BY <1>a, <1>e DEF ClientReclaims, still, TypeOK
<1>2. RowTellsTheTruth'
  BY <1>b DEF ClientReclaims, RowTellsTheTruth
<1>3. RowSound'
  BY <1>b DEF ClientReclaims, still, RowSound
<1>4. RefundsSound'
  BY <1>b DEF ClientReclaims, still, RefundsSound, Present
<1>5. AtRest'
  BY <1>a DEF ClientReclaims, still, AtRest
<1>6. Over'
  BY <1>b, <1>e DEF ClientReclaims, Over, Unclaimed
<1>7. ASSUME NEW e \in Running PROVE TickSound(job[e])'
  BY <1>a, <1>d DEF ClientReclaims, still, TickSound, Lasting, Fresh
<1> QED
  BY <1>e, <1>1, <1>2, <1>3, <1>4, <1>5, <1>6, <1>7 DEF Inv

(* The lock is mined. *)
LEMMA MineLockStep ==
  ASSUME Inv, MineLock
  PROVE  Inv'
<1> USE EvmSendAssumption
<1>a. /\ row \in Row /\ Running \in Fleets /\ job \in [Running -> Job]
      /\ refunds \in Seq(Outcomes) /\ Len(refunds) <= MaxRefunds /\ lock \in LockStages
      /\ clock \in Nat /\ rested \in BOOLEAN /\ TypeOK
  BY DEF Inv, TypeOK
<1>b. RowTellsTheTruth /\ RowSound /\ RefundsSound /\ AtRest /\ Over
  BY DEF Inv
<1>d. ASSUME NEW e \in Running PROVE TickSound(job[e])
  BY DEF Inv
<1>e. /\ Running' = Running /\ job' \in [Running -> Job]
      /\ \A e \in Running : job'[e] = [job[e] EXCEPT !.fresh = FALSE]
  BY <1>a, DisturbSound DEF MineLock, Disturb
<1>1. TypeOK'
  BY <1>a, <1>e DEF MineLock, Disturb, still, TypeOK, LockStages
<1>2. RowTellsTheTruth'
  BY <1>b DEF MineLock, RowTellsTheTruth
<1>3. RowSound'
  BY <1>b DEF MineLock, still, RowSound
<1>4. RefundsSound'
  BY <1>b DEF MineLock, still, RefundsSound
<1>5. AtRest'
  BY DEF MineLock, AtRest
<1>6. Over'
  BY <1>b DEF MineLock, still, Over
<1>7. ASSUME NEW e \in Running PROVE TickSound(job[e])'
  <2> DEFINE k == job[e]
  <2>1. /\ job'[e].pc = k.pc /\ job'[e].row = k.row /\ job'[e].seen = k.seen /\ job'[e].tx = k.tx
        /\ job'[e].fresh = FALSE
    BY <1>a, <1>e DEF Job
  <2>2. k \in Job /\ Lasting(k)
    BY <1>a, <1>d DEF TickSound
  <2>3. /\ lock = "pending" /\ lock' = "shallow" /\ row' = row /\ lockup' = lockup
        /\ clock' = clock /\ refunds' = refunds
    BY <1>a DEF MineLock, still
  <2>4. Lasting(job[e])'
    BY <1>a, <1>b, <2>1, <2>2, <2>3 DEF Lasting, Row
  <2> QED
    BY <2>1, <2>4 DEF TickSound
<1> QED
  BY <1>e, <1>1, <1>2, <1>3, <1>4, <1>5, <1>6, <1>7 DEF Inv

(* A refund is mined. *)
LEMMA MineRefundStep ==
  ASSUME Inv, NEW i \in 1..MaxRefunds, MineRefund(i)
  PROVE  Inv'
<1> USE EvmSendAssumption
<1>a. /\ row \in Row /\ Running \in Fleets /\ job \in [Running -> Job]
      /\ refunds \in Seq(Outcomes) /\ Len(refunds) <= MaxRefunds /\ lock \in LockStages
      /\ clock \in Nat /\ rested \in BOOLEAN /\ TypeOK
  BY DEF Inv, TypeOK
<1>b. RowTellsTheTruth /\ RowSound /\ RefundsSound /\ AtRest /\ Over
  BY DEF Inv
<1>d. ASSUME NEW e \in Running PROVE TickSound(job[e])
  BY DEF Inv
<1>e. /\ Running' = Running /\ job' \in [Running -> Job]
      /\ \A e \in Running : job'[e] = [job[e] EXCEPT !.fresh = FALSE]
  BY <1>a, DisturbSound DEF MineRefund, Disturb
<1>1. TypeOK'
  <2>1. rested' \in BOOLEAN /\ lock' \in LockStages
    BY <1>a DEF MineRefund, Disturb, LockStages
  <2>2. refunds' \in Seq(Outcomes) /\ Len(refunds') = Len(refunds)
    BY <1>a DEF MineRefund, Outcomes
  <2> QED
    BY <1>a, <1>e, <2>1, <2>2 DEF TypeOK, MineRefund, still
<1>2. RowTellsTheTruth'
  BY <1>b DEF MineRefund, Present, RowTellsTheTruth
<1>3. RowSound'
  BY <1>b DEF MineRefund, still, Present, RowSound
<1>4. RefundsSound'
  BY <1>b DEF MineRefund, still, Present, RefundsSound
<1>5. AtRest'
  BY DEF MineRefund, Disturb, AtRest
<1>6. Over'
  BY <1>b, <1>e DEF MineRefund, still, Present, Over, Unclaimed, Job
<1>7. ASSUME NEW e \in Running PROVE TickSound(job[e])'
  <2> DEFINE k == job[e]
  <2>1. /\ job'[e].pc = k.pc /\ job'[e].row = k.row /\ job'[e].seen = k.seen /\ job'[e].tx = k.tx
        /\ job'[e].fresh = FALSE
    BY <1>a, <1>e DEF Job
  <2>2. k \in Job /\ Lasting(k)
    BY <1>a, <1>d DEF TickSound
  <2>3. /\ lock' = (IF Present THEN "refundShallow" ELSE lock) /\ row' = row /\ lockup' = lockup
        /\ clock' = clock /\ Len(refunds') = Len(refunds) /\ (refunds # <<>> => refunds' # <<>>)
    BY <1>a DEF MineRefund, still
  <2>4. Lasting(job[e])'
    BY <1>a, <1>b, <2>1, <2>2, <2>3 DEF Lasting, Present
  <2> QED
    BY <2>1, <2>4 DEF TickSound
<1> QED
  BY <1>e, <1>1, <1>2, <1>3, <1>4, <1>5, <1>6, <1>7 DEF Inv

(* A block becomes deep. *)
LEMMA BuryStep ==
  ASSUME Inv, Bury
  PROVE  Inv'
<1> USE EvmSendAssumption
<1>a. /\ row \in Row /\ Running \in Fleets /\ job \in [Running -> Job]
      /\ refunds \in Seq(Outcomes) /\ Len(refunds) <= MaxRefunds /\ lock \in LockStages
      /\ clock \in Nat /\ rested \in BOOLEAN /\ TypeOK
  BY DEF Inv, TypeOK
<1>b. RowTellsTheTruth /\ RowSound /\ RefundsSound /\ AtRest /\ Over
  BY DEF Inv
<1>d. ASSUME NEW e \in Running PROVE TickSound(job[e])
  BY DEF Inv
<1>e. /\ Running' = Running /\ job' \in [Running -> Job]
      /\ \A e \in Running : job'[e] = [job[e] EXCEPT !.fresh = FALSE]
  BY <1>a, DisturbSound DEF Bury, Disturb
<1>1. TypeOK'
  BY <1>a, <1>e DEF Bury, Disturb, still, TypeOK, LockStages
<1>2. RowTellsTheTruth'
  BY <1>b DEF Bury, RowTellsTheTruth
<1>3. RowSound'
  BY <1>b DEF Bury, still, RowSound
<1>4. RefundsSound'
  BY <1>b DEF Bury, still, RefundsSound, Present
<1>5. AtRest'
  BY DEF Bury, Disturb, AtRest
<1>6. Over'
  BY <1>b DEF Bury, still, Over
<1>7. ASSUME NEW e \in Running PROVE TickSound(job[e])'
  BY <1>a, <1>d DEF Bury, Disturb, still, TickSound, Lasting, Job
<1> QED
  BY <1>e, <1>1, <1>2, <1>3, <1>4, <1>5, <1>6, <1>7 DEF Inv

(* Time passes. *)
LEMMA AdvanceStep ==
  ASSUME Inv, Advance
  PROVE  Inv'
<1> USE EvmSendAssumption
<1>a. /\ row \in Row /\ Running \in Fleets /\ job \in [Running -> Job]
      /\ refunds \in Seq(Outcomes) /\ Len(refunds) <= MaxRefunds /\ lock \in LockStages
      /\ clock \in Nat /\ rested \in BOOLEAN /\ TypeOK
  BY DEF Inv, TypeOK
<1>b. RowTellsTheTruth /\ RowSound /\ RefundsSound /\ AtRest /\ Over
  BY DEF Inv
<1>d. ASSUME NEW e \in Running PROVE TickSound(job[e])
  BY DEF Inv
<1>e. /\ Running' = Running /\ job' \in [Running -> Job]
      /\ \A e \in Running : job'[e] = [job[e] EXCEPT !.fresh = FALSE]
  BY <1>a, DisturbSound DEF Advance, Disturb
<1>1. TypeOK'
  BY <1>a, <1>e DEF Advance, world, TypeOK
<1>2. RowTellsTheTruth'
  BY <1>b DEF Advance, world, RowTellsTheTruth
<1>3. RowSound'
  BY <1>a, <1>b DEF Advance, world, RowSound
<1>4. RefundsSound'
  BY <1>a, <1>b DEF Advance, world, RefundsSound, Present
<1>5. AtRest'
  <2>1. clock' = clock + 1
    BY DEF Advance
  <2>2. rested' => clock + 1 >= RefundAt
    BY Zenon DEF Advance
  <2>3. clock + 1 \in Nat
    BY <1>a
  <2> QED
    BY <2>1, <2>2, <2>3 DEF AtRest
<1>6. Over'
  <2>0. /\ clock' = clock + 1 /\ lock' = lock /\ lockup' = lockup /\ row' = row /\ refunds' = refunds
        /\ clock + 1 = RefundAt => Settled
    BY DEF Advance, world
  <2>1. \A e \in Running : job'[e].pc = job[e].pc
    BY <1>a, <1>e DEF Job
  <2>2. CASE clock >= RefundAt
    BY <1>a, <1>b, <1>e, <2>0, <2>1, <2>2 DEF Over, Unclaimed
  <2>3. CASE clock + 1 = RefundAt
    <3>1. /\ lock \notin {"pending", "shallow", "claimShallow", "refundShallow"}
          /\ \A e \in Running : job[e].pc = "idle"
          /\ \A i \in DOMAIN refunds : refunds[i] # "pending"
          /\ rested \/ row.state \notin Live \cup {"stuck", "refunded"}
      BY <1>a, <2>0, <2>3 DEF Settled, At, findClosedOverLock
    <3>2. ~rested => row.state \in {"claimed", "refused"}
      BY <1>a, <3>1 DEF Row, States, Live
    <3>3. EvmTimeout <= clock /\ clock < RefundAt
      BY <1>a, <2>3
    <3>4. lock # "deep"
      <4>1. lock = "deep" => refunds # <<>>
        BY <1>b, <3>2, <3>3 DEF AtRest, RowSound, RowTellsTheTruth
      <4>2. refunds # <<>> => 1 \in DOMAIN refunds /\ refunds[1] \in Outcomes
        BY <1>a
      <4> QED
        BY <1>b, <3>1, <4>1, <4>2 DEF RefundsSound, Present, Outcomes
    <3>5. ASSUME lock = "claimed", Unclaimed \/ lockup = "reclaimed"
          PROVE  row.state = "refunded" /\ row.preimage
      BY <1>a, <1>b, <3>1, <3>2, <3>3, <3>5 DEF AtRest, RowSound, RowTellsTheTruth, Unclaimed
    <3> QED
      BY <1>a, <1>e, <2>0, <2>1, <3>1, <3>4, <3>5 DEF Over, Unclaimed, LockStages
  <2>4. CASE clock + 1 < RefundAt
    BY <1>a, <2>0, <2>4 DEF Over
  <2> QED
    BY <1>a, <2>2, <2>3, <2>4
<1>7. ASSUME NEW e \in Running PROVE TickSound(job[e])'
  <2> DEFINE k == job[e]
  <2>1. /\ job'[e].pc = k.pc /\ job'[e].row = k.row /\ job'[e].seen = k.seen /\ job'[e].tx = k.tx
        /\ job'[e].fresh = FALSE
    BY <1>a, <1>e DEF Job
  <2>2. k \in Job /\ Lasting(k)
    BY <1>a, <1>d DEF TickSound
  <2>3. /\ lock' = lock /\ row' = row /\ lockup' = lockup /\ refunds' = refunds /\ clock' = clock + 1
        /\ clock + 1 = EvmTimeout => k.pc \notin {"approve", "sendLock"}
    BY <1>a DEF Advance, world
  <2>4. Lasting(job[e])'
    BY <1>a, <1>b, <2>1, <2>2, <2>3 DEF Lasting, Job, Glance
  <2> QED
    BY <2>1, <2>4 DEF TickSound
<1> QED
  BY <1>e, <1>1, <1>2, <1>3, <1>4, <1>5, <1>6, <1>7 DEF Inv

----------------------------------------------------------------------------
(* Every step of the corridor, its client and the chain keeps the invariant. *)
LEMMA InvStep == Inv /\ [Next]_vars => Inv'
<1> SUFFICES ASSUME Inv, [Next]_vars PROVE Inv'
  OBVIOUS
<1>1. CASE UNCHANGED vars
  BY <1>1 DEF vars, Inv, TypeOK, RowTellsTheTruth, RowSound, RefundsSound, Present, AtRest, Unclaimed,
     Over, Running, TickSound, Lasting, Fresh
<1>2. CASE \E d \in Driver : DriverStep(d)
  BY <1>2, TickStep, ObserveStep, RereadStep, RefuseStep, StickStep, LockAgainStep, ToLockingStep,
     SendLockStep, PatchLockStep, ToAwaitingClaimStep, ToClaimingStep, ClaimArkadeStep,
     MarkClaimedStep, ToRefundingStep, SendRefundStep, ClaimRefundTxidStep, RecordRefundStep
     DEF DriverStep
<1>3. CASE SweepStep \/ watchLateLocks
  BY <1>3, RefundSweepStep, SweepRefundStep, SweepPatchStep, WatchLateLocksStep DEF SweepStep
<1>4. CASE Faults
  BY <1>4, SweepAbandonStep, LockRevertsStep, ReorgStep, AbandonStep DEF Faults
<1>5. CASE Client
  BY <1>5, ClientFundsStep, ClientClaimsStep, ClientReclaimsStep DEF Client
<1>6. CASE Chain \/ Advance
  BY <1>6, MineLockStep, BuryStep, MineRefundStep, AdvanceStep DEF Chain
<1> QED
  BY <1>1, <1>2, <1>3, <1>4, <1>5, <1>6 DEF Next

(* A quote just given satisfies it, whichever processes are running. *)
LEMMA InitInv == Init => Inv
<1> SUFFICES ASSUME Init PROVE Inv
  OBVIOUS
<1> USE EvmSendAssumption
<1>1. PICK fleet \in Fleets : job = [d \in fleet |-> Idle]
  BY DEF Init
<1>2. Running = fleet /\ \A d \in Running : job[d] = Idle
  BY <1>1 DEF Running
<1>3. /\ row = NewRow /\ sweeper = "idle" /\ lockup = "none" /\ lock = "none" /\ refunds = <<>>
      /\ rested = FALSE /\ clock = 0 /\ faults = 0
  BY DEF Init
<1>4. TypeOK
  <2>1. job \in [Running -> Job]
    BY <1>1, <1>2, IdleType
  <2>2. refunds \in Seq(Outcomes) /\ Len(refunds) <= MaxRefunds
    BY <1>3
  <2>3. rested \in BOOLEAN /\ lock \in LockStages
    BY <1>3 DEF LockStages
  <2>4. clock \in Nat /\ faults \in Nat
    BY <1>3
  <2>5. row \in Row
    BY <1>3, IdleType
  <2>6. /\ sweeper \in {"idle", "refund", "patch"}
        /\ lockup \in {"none", "short", "funded", "claimed", "returned", "reclaimed"}
    BY <1>3
  <2> QED
    BY <1>2, <2>1, <2>2, <2>3, <2>4, <2>5, <2>6 DEF TypeOK
<1>5. row.state = "quoted" /\ row.refundTx = 0 /\ ~row.preimage /\ row.outcome = "none"
  BY <1>3 DEF NewRow
<1>6. RowTellsTheTruth /\ RowSound
  BY <1>3, <1>5 DEF RowTellsTheTruth, RowSound
<1>7. RefundsSound /\ AtRest /\ Over
  BY <1>3 DEF RefundsSound, AtRest, Over
<1>8. ASSUME NEW d \in Running PROVE TickSound(job[d])
  BY <1>2, <1>3, <1>8 DEF TickSound, Lasting, Idle, NewRow, Live
<1> QED
  BY <1>4, <1>6, <1>7, <1>8 DEF Inv

(* The invariant holds throughout, whatever the number of processes that tick *)
(* the row, of crashes and of replaced blocks.                                *)
THEOREM EvmSendInvariant == Spec => []Inv
  BY InitInv, InvStep, PTL DEF Spec

(* Every variable of the EVM send corridor keeps its type. *)
THEOREM EvmSendTypeCorrect == Spec => []TypeOK
<1>1. Inv => TypeOK
  BY DEF Inv
<1> QED
  BY <1>1, EvmSendInvariant, PTL

(* A client that took the tokens never has its sats back unless a block was   *)
(* replaced under a recorded refund, and what the row says happened, happened:*)
(* a refused swap has no lock, a preimage opened it, a pushed refund went out. *)
THEOREM EvmSendSafe == Spec => []EvmSendIsSafe
<1>1. Inv => EvmSendIsSafe
  <2>1. Inv /\ lock = "claimed" /\ lockup = "reclaimed" => row.state = "refunded" /\ row.preimage
    BY DEF Inv, RowSound, Over
  <2> QED
    BY <2>1 DEF Inv, EvmSendIsSafe, ClaimsNeverLost
<1> QED
  BY <1>1, EvmSendInvariant, PTL

----------------------------------------------------------------------------
(* Steps that touch neither leg are none of the abstract swap. *)
LEMMA LegsKept == UNCHANGED <<lockup, lock>> => UNCHANGED Swap!vars
BY DEF Swap!vars, ClientLeg, PayoutLeg

(* Every step moves at most one leg, and as the abstract swap lets it: the    *)
(* lock goes out against a lockup that is whole, the lockup is collected once  *)
(* the claim is final, and goes back only from a row that never locked.       *)
LEMMA SwapStep == Inv /\ [Next]_vars => [Swap!Next]_(Swap!vars)
<1> SUFFICES ASSUME Inv, [Next]_vars PROVE [Swap!Next]_(Swap!vars)
  OBVIOUS
<1>a. /\ lock \in LockStages
      /\ lockup \in {"none", "short", "funded", "claimed", "returned", "reclaimed"}
      /\ \A d \in Running : Lasting(job[d])
  BY DEF Inv, TypeOK, TickSound
<1>1. CASE \E d \in Driver : SendLock(d)
  <2>1. PICK d \in Driver : SendLock(d)
    BY <1>1
  <2>2. CASE lock = "none"
    <3>1. lockup = "funded"
      BY <1>a, <2>1, <2>2 DEF SendLock, At, Lasting
    <3>2. lock' = "pending" /\ lockup' = lockup
      BY <2>1, <2>2 DEF SendLock
    <3> QED
      BY <2>2, <3>1, <3>2 DEF Swap!Next, Swap!Offer, ClientLeg, PayoutLeg
  <2>3. CASE lock # "none"
    BY <2>1, <2>3, LegsKept DEF SendLock
  <2> QED
    BY <2>2, <2>3
<1>2. CASE \E d \in Driver : claimArkade(d)
  <2>1. PICK d \in Driver : claimArkade(d)
    BY <1>2
  <2>2. CASE lockup \in {"short", "funded"}
    <3>1. lock = "claimed"
      BY <1>a, <2>1 DEF claimArkade, At, Lasting
    <3>2. lockup' = "claimed" /\ lock' = lock
      BY <2>1, <2>2 DEF claimArkade
    <3> QED
      BY <2>2, <3>1, <3>2 DEF Swap!Next, Swap!Collect, ClientLeg, PayoutLeg
  <2>3. CASE lockup \notin {"short", "funded"}
    BY <2>1, <2>3, LegsKept DEF claimArkade
  <2> QED
    BY <2>2, <2>3
<1>3. CASE SweepRefund
  <2>1. CASE lockup \in {"short", "funded"}
    <3>1. lock = "none"
      BY <1>3 DEF SweepRefund, Inv, RowSound, RowTellsTheTruth
    <3>2. lockup' = "returned" /\ lock' = lock
      BY <1>3, <2>1 DEF SweepRefund
    <3> QED
      BY <2>1, <3>1, <3>2 DEF Swap!Next, Swap!Return, ClientLeg, PayoutLeg
  <2>2. CASE lockup \notin {"short", "funded"}
    BY <1>3, <2>2, LegsKept DEF SweepRefund
  <2> QED
    BY <2>1, <2>2
<1>4. CASE LockReverts \/ Reorg \/ MineLock \/ Bury \/ ClientClaims \/ \E i \in 1..MaxRefunds : MineRefund(i)
  <2>1. lockup' = lockup
    BY <1>4 DEF LockReverts, Reorg, MineLock, Bury, ClientClaims, MineRefund
  <2>2. ClientLeg' = ClientLeg
    BY <2>1 DEF ClientLeg
  <2> DEFINE open == {"pending", "shallow", "deep", "claimShallow", "refundShallow"}
  <2>3. \/ lock' = lock
        \/ lock \in open /\ lock' \in open
        \/ lock \in open /\ lock' = "claimed"
        \/ lock \in open /\ lock' \in {"refunded", "reverted"}
    BY <1>4 DEF LockReverts, Reorg, MineLock, Bury, ClientClaims, MineRefund, Present
  <2> QED
    BY <2>2, <2>3 DEF Swap!vars, Swap!Next, Swap!Take, Swap!Withdraw, PayoutLeg
<1>5. CASE ClientFunds
  <2>1. /\ lock' = lock /\ lockup' \in {"short", "funded"}
        /\ lockup \in {"none", "short"}
    BY <1>5 DEF ClientFunds
  <2> QED
    BY <2>1 DEF Swap!vars, Swap!Next, Swap!Lock, ClientLeg, PayoutLeg
<1>6. CASE ClientReclaims
  <2>1. lock' = lock /\ lockup' = "reclaimed" /\ lockup \in {"short", "funded"}
    BY <1>6 DEF ClientReclaims
  <2> QED
    BY <2>1 DEF Swap!Next, Swap!Clawback, ClientLeg, PayoutLeg
<1>7. CASE \/ refundSweep \/ SweepPatch \/ watchLateLocks \/ SweepAbandon \/ Advance \/ UNCHANGED vars
           \/ \E d \in Driver : Abandon(d)
  <2>1. UNCHANGED <<lockup, lock>>
    BY <1>7 DEF refundSweep, SweepPatch, watchLateLocks, SweepAbandon, Advance, Abandon, vars, world
  <2> QED
    BY <2>1, LegsKept
<1>8. ASSUME NEW d \in Driver, DriverStep(d), ~SendLock(d), ~claimArkade(d)
      PROVE  [Swap!Next]_(Swap!vars)
  <2>1. UNCHANGED <<lockup, lock>>
    BY <1>8 DEF DriverStep, Tick, Observe, Reread, Refuse, Stick, LockAgain, ToLocking, PatchLock,
       ToAwaitingClaim, ToClaiming, MarkClaimed, ToRefunding, SendRefund, claimRefundTxid,
       RecordRefund, world
  <2> QED
    BY <2>1, LegsKept
<1> QED
  BY <1>1, <1>2, <1>3, <1>4, <1>5, <1>6, <1>7, <1>8
     DEF Next, SweepStep, Faults, Client, Chain

(* The EVM send corridor implements the abstract swap, for any fleet of       *)
(* processes and any number of crashes, reverts and replaced blocks.          *)
THEOREM EvmSendRefinesSwap == Spec => ImplementsAtomicSwap
<1>1. Init => Swap!Init
  BY DEF Init, Swap!Init, ClientLeg, PayoutLeg
<1>2. Inv /\ [Next]_vars => [Swap!Next]_(Swap!vars)
  BY SwapStep
<1> QED
  BY <1>1, <1>2, EvmSendInvariant, PTL DEF Spec, ImplementsAtomicSwap, Swap!Spec
============================================================================
