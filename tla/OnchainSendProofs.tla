-------------------------- MODULE OnchainSendProofs --------------------------
(***************************************************************************)
(* What holds of an onchain send swap for any number of processes, any     *)
(* deadlines in their order, any number of crashes and disconnected        *)
(* blocks; and what holds besides as long as no block is disconnected, or  *)
(* as long as one process at a time drives the row.                        *)
(***************************************************************************)
EXTENDS OnchainSend, TLAPS

----------------------------------------------------------------------------
(* The inductive invariant. *)
Unpaid == {"quoted", "funded", "refused"}

(* The row's two names for the one funding: the transaction it recorded to     *)
(* send, and the one it saw out; and what a funding from before there was a    *)
(* record leaves no room for.                                                  *)
RowSound ==
  /\ row.fundingTx # NoTx => row.fundingTx \in 1..MaxSigned /\ row.state \notin Unpaid
  /\ htlc[0].kind # "none" => row.fundingTx = NoTx /\ row.state \notin Unpaid
  /\ row.fundingTxid # NoTx =>
       /\ row.fundingTxid \in Tx /\ htlc[row.fundingTxid].kind # "none"
       /\ row.state \notin Unpaid \cup {"funding_onchain"}
  /\ row.state \in {"awaiting_claim", "refunding_onchain", "refunded"} \/ row.preimage =>
       row.fundingTxid # NoTx

(* What an earlier read of the row tells about the row of now. *)
StillTrue(r) ==
  /\ r.fundingTx \in {NoTx, row.fundingTx}
  /\ r.fundingTxid \in {NoTx, row.fundingTxid}
  /\ r.state \in {"awaiting_claim", "refunding_onchain"} => r.fundingTxid # NoTx

(* What a tick may rely on at each step, however long ago it read the row. *)
StepSound(pc, j) ==
  /\ pc \in {"lease", "submit", "record"} => htlc[0].kind = "none"
  /\ pc = "record" => j.tx \in 1..MaxSigned
  /\ pc \in {"publish", "broadcast"} => j.tx # NoTx /\ j.tx = row.fundingTx
  /\ pc = "toAwaiting" => j.tx \in Tx /\ htlc[j.tx].kind # "none"
  /\ pc \in {"toRefunding", "toClaiming", "failSpent", "witness"} =>
       j.row.state \in {"awaiting_claim", "refunding_onchain"}
  /\ pc \in {"witness", "push", "sendRefund", "toRefunded"} => j.row.fundingTxid # NoTx
  /\ pc = "markClaimed" => lockup = "claimed"

TickSound(j) ==
  /\ StillTrue(j.row)
  /\ j.fresh => htlc[0].kind = "none"
  /\ StepSound(j.pc, j)

(* The sweep works on closed rows only, which stay closed. *)
SweepSound ==
  /\ sweeper.pc # "idle" \/ lockup \in {"refunded", "leftover"} => row.state \in {"refused", "refunded"}
  /\ sweeper.pc = "patch" /\ sweeper.seen # "many" => lockup = "refunded"

(* What the row tells about the lockup. *)
Told ==
  /\ row.state = "claimed" => lockup = "claimed"
  /\ row.outcome = "pushed" => lockup = "refunded"
  /\ row.outcome = "external" => lockup \in Spent

(* The operator's own read of the row. *)
AskedSound ==
  operator.pc = "slot" => StillTrue(operator.row) /\ operator.row.fundingTxid # NoTx

Inv ==
  /\ TypeOK /\ SingleFunding
  /\ RowSound /\ SweepSound /\ Told /\ AskedSound
  /\ \A d \in Driver : TickSound(job[d])

----------------------------------------------------------------------------
(* What no step undoes. *)
Grows ==
  /\ row.fundingTx # NoTx => row'.fundingTx = row.fundingTx
  /\ row.fundingTxid # NoTx => row'.fundingTxid = row.fundingTxid
  /\ \A t \in Tx : htlc[t].kind # "none" => htlc'[t].kind # "none"
  /\ htlc[0].kind = "none" => htlc'[0].kind = "none"
  /\ lockup = "claimed" => lockup' = "claimed"

(* A row read earlier stays as true as it was. *)
LEMMA ReadKept ==
  ASSUME NEW r, StillTrue(r), Grows
  PROVE  StillTrue(r)'
BY DEF StillTrue, Grows

(* A tick that does nothing keeps what it relies on. *)
LEMMA TickKept ==
  ASSUME NEW j, TickSound(j), Grows
  PROVE  StillTrue(j.row)' /\ (j.fresh => htlc'[0].kind = "none") /\ StepSound(j.pc, j)'
<1>1. StillTrue(j.row)'
  BY ReadKept DEF TickSound
<1> QED
  BY <1>1 DEF TickSound, StepSound, Grows

(* What a tick starts from and ends with. *)
LEMMA IdleType == NewRow \in Row /\ Idle \in Job
<1>1. NewRow \in Row
  BY DEF NewRow, Row, States, OnchainSendMachine, NoTx, Never
<1> QED
  BY <1>1 DEF Idle, Job, Steps, NoTx, NoVersion

(* A tick that is over relies on nothing. *)
LEMMA IdleSound == TickSound(Idle) /\ TickSound(Idle)'
BY DEF TickSound, StillTrue, StepSound, Idle, NewRow

(* What the operator read stays as true as it was. *)
LEMMA AskedKept ==
  ASSUME AskedSound, Grows, operator' = operator \/ operator'.pc # "slot"
  PROVE  AskedSound'
<1>1. CASE operator' = operator /\ operator.pc = "slot"
  <2>1. PICK r : r = operator.row
    OBVIOUS
  <2>2. StillTrue(r)'
    BY <1>1, <2>1, ReadKept DEF AskedSound
  <2> QED
    BY <1>1, <2>1, <2>2 DEF AskedSound, StillTrue
<1>2. CASE operator' = operator /\ operator.pc # "slot"
  BY <1>2 DEF AskedSound
<1>3. CASE operator'.pc # "slot"
  BY <1>3 DEF AskedSound
<1> QED
  BY <1>1, <1>2, <1>3

(* A step of one process: what it must establish besides its own tick. *)
LEMMA OneTick ==
  ASSUME Inv, NEW d \in Driver, NEW j \in Job, job' = [job EXCEPT ![d] = j], Grows,
         TypeOK', SingleFunding', RowSound', SweepSound', Told',
         operator' = operator \/ operator'.pc # "slot", TickSound(j)'
  PROVE  Inv'
<1>1. job'[d] = j /\ \A e \in Driver \ {d} : job'[e] = job[e]
  BY DEF Inv, TypeOK
<1>2. TickSound(job[d])'
  BY <1>1 DEF TickSound, StillTrue, StepSound
<1>3. ASSUME NEW e \in Driver \ {d} PROVE TickSound(job[e])'
  <2>1. TickSound(job[e])
    BY DEF Inv
  <2>2. job'[e] = job[e]
    BY <1>1
  <2> QED
    BY <2>1, <2>2, TickKept DEF TickSound, StillTrue, StepSound
<1>4. AskedSound'
  BY AskedKept DEF Inv
<1> QED
  BY <1>2, <1>3, <1>4 DEF Inv

(* The bounded scalars keep their types. *)
Counted == signed' \in 0..MaxSigned /\ rotated' \in BOOLEAN /\ clock' \in Nat /\ faults' \in Nat

(* A step that changes a tick and a counter only. *)
LEMMA QuietStep ==
  ASSUME Inv, NEW d \in Driver, NEW j \in Job, job' = [job EXCEPT ![d] = j], TickSound(j),
         UNCHANGED <<row, operator, sweeper, lockup, htlc>>, Counted
  PROVE  Inv'
<1>1. Grows
  BY DEF Grows
<1>2. TypeOK'
  BY DEF Inv, TypeOK, Counted
<1>3. SingleFunding' /\ RowSound' /\ SweepSound' /\ Told'
  BY DEF Inv, SingleFunding, RowSound, SweepSound, Told
<1>4. TickSound(j)'
  BY DEF TickSound, StillTrue, StepSound
<1> QED
  BY <1>1, <1>2, <1>3, <1>4, OneTick

(* A tick that moves on to another step. *)
LEMMA GotoStep ==
  ASSUME Inv, NEW d \in Driver, NEW pc \in Steps, Goto(d, pc), StepSound(pc, job[d]),
         UNCHANGED <<row, operator, sweeper, lockup, htlc>>, Counted
  PROVE  Inv'
<1> DEFINE j == [job[d] EXCEPT !.pc = pc]
<1>1. job[d] \in Job /\ job \in [Driver -> Job] /\ TickSound(job[d])
  BY DEF Inv, TypeOK
<1>2. /\ j \in Job /\ j.pc = pc /\ j.row = job[d].row /\ j.fresh = job[d].fresh
      /\ j.tx = job[d].tx
  BY <1>1 DEF Job
<1>3. job' = [job EXCEPT ![d] = j]
  BY <1>1 DEF Goto
<1> HIDE DEF j
<1>4. TickSound(j)
  BY <1>1, <1>2 DEF TickSound, StepSound
<1> QED
  BY <1>2, <1>3, <1>4, QuietStep

(* A tick that ends, having changed nothing. *)
LEMMA EndStep ==
  ASSUME Inv, NEW d \in Driver, Done(d), UNCHANGED <<row, operator, sweeper, lockup, htlc>>, Counted
  PROVE  Inv'
BY IdleType, IdleSound, QuietStep DEF Done

(* A transition, won or lost: the row's fundings stay, and so does the row of *)
(* a closed swap.                                                             *)
LEMMA MoveSound ==
  ASSUME TypeOK, NEW from, NEW to \in States, transition(from, [row EXCEPT !.state = to])
  PROVE  /\ row' \in Row
         /\ row'.fundingTx = row.fundingTx /\ row'.fundingTxid = row.fundingTxid
         /\ row'.preimage = row.preimage /\ row'.refunds = row.refunds
         /\ row'.outcome = row.outcome
         /\ row' = row \/ (row.state = from /\ row'.state = to)
<1>1. row \in Row /\ clock \in Int
  BY DEF TypeOK
<1>2. CASE row.state = from
  <2>1. row' = [[row EXCEPT !.state = to] EXCEPT !.updated = clock]
    BY <1>2 DEF transition, Won, write
  <2> QED
    BY <1>1, <1>2, <2>1 DEF Row
<1>3. CASE row.state # from
  BY <1>1, <1>3 DEF transition, Won
<1> QED
  BY <1>2, <1>3

(* A tick that ends with a transition, whoever wins it. *)
LEMMA MoveStep ==
  ASSUME Inv, NEW d \in Driver, NEW from, NEW to \in States, Done(d),
         transition(from, [row EXCEPT !.state = to]),
         from \notin {"refused", "refunded", "claimed"},
         to \in Unpaid => from \in {"quoted", "funded"},
         to # "funding_onchain",
         to \in {"awaiting_claim", "refunding_onchain", "refunded"} /\ row.state = from =>
           row.fundingTxid # NoTx,
         to = "claimed" => lockup = "claimed",
         UNCHANGED <<operator, sweeper, lockup, htlc>>, Counted
  PROVE  Inv'
<1>1. /\ row' \in Row
      /\ row'.fundingTx = row.fundingTx /\ row'.fundingTxid = row.fundingTxid
      /\ row'.preimage = row.preimage /\ row'.outcome = row.outcome
      /\ row' = row \/ (row.state = from /\ row'.state = to)
  BY MoveSound DEF Inv
<1>2. Grows
  BY <1>1 DEF Grows
<1>3. TypeOK'
  BY <1>1, IdleType DEF Inv, TypeOK, Counted, Done
<1>4. SingleFunding'
  BY <1>1 DEF Inv, SingleFunding
<1>5. RowSound'
  BY <1>1 DEF Inv, RowSound, Unpaid
<1>6. SweepSound' /\ Told'
  BY <1>1 DEF Inv, SweepSound, Told
<1> QED
  BY <1>2, <1>3, <1>4, <1>5, <1>6, IdleType, IdleSound, OneTick DEF Done

(* The counters no action changes keep their types. *)
LEMMA SameCount == ASSUME Inv, UNCHANGED <<signed, rotated, clock, faults>> PROVE Counted
BY DEF Inv, TypeOK, Counted

(* The state fail() parks a row in. *)
LEMMA FailState == \A from : failState(from) \in {"stuck", "refused"} /\ failState(from) \in States
BY DEF failState, States, OnchainSendMachine

----------------------------------------------------------------------------
(* A tick reads the row. *)
LEMMA TickStep == ASSUME Inv, NEW d \in Driver, Tick(d) PROVE Inv'
<1> DEFINE j == [Idle EXCEPT !.pc = "step", !.row = row]
<1>1. job' = [job EXCEPT ![d] = j] /\ UNCHANGED <<row, operator, sweeper, lockup, htlc>> /\ Counted
  BY SameCount DEF Tick, chain, others
<1>2. j \in Job
  BY IdleType DEF Inv, TypeOK, Job, Steps, Idle
<1>3. j.pc = "step" /\ j.row = row /\ j.fresh = FALSE
  BY DEF Idle
<1> HIDE DEF j
<1>4. TickSound(j)
  BY <1>3 DEF Inv, RowSound, TickSound, StillTrue, StepSound
<1> QED
  BY <1>1, <1>2, <1>4, QuietStep

(* A quoted row: what is at the script decides. *)
LEMMA WhenQuotedStep == ASSUME Inv, NEW d \in Driver, whenQuoted(d) PROVE Inv'
<1>1. UNCHANGED <<row, operator, sweeper, lockup, htlc>> /\ Counted
  BY SameCount DEF whenQuoted, chain, others
<1>2. Goto(d, "failQuoted") \/ Goto(d, "fund") \/ Done(d)
  BY DEF whenQuoted, Goto, Done, Inv, TypeOK
<1>3. StepSound("failQuoted", job[d]) /\ StepSound("fund", job[d])
  BY DEF StepSound
<1> QED
  BY <1>1, <1>2, <1>3, GotoStep, EndStep DEF Steps

(* A row in funding: the recorded transaction, an output to adopt, or the lease. *)
LEMMA RecoverFundingStep == ASSUME Inv, NEW d \in Driver, recoverFunding(d) PROVE Inv'
<1> USE OnchainAssumption
<1>a. UNCHANGED <<row, operator, sweeper, lockup, htlc>> /\ Counted
  BY SameCount DEF recoverFunding, chain, others
<1>b. job \in [Driver -> Job] /\ job[d] \in Job /\ TickSound(job[d])
  BY DEF Inv, TypeOK
<1>1. CASE job[d].row.fundingTx # NoTx
  <2> DEFINE j == [job[d] EXCEPT !.pc = "publish", !.tx = job[d].row.fundingTx, !.recheck = TRUE]
  <2>1. job' = [job EXCEPT ![d] = j]
    BY <1>1, <1>b DEF recoverFunding
  <2>2. /\ j \in Job /\ j.pc = "publish" /\ j.tx = job[d].row.fundingTx
        /\ j.row = job[d].row /\ j.fresh = job[d].fresh
    BY <1>b DEF Job, Steps, Row
  <2> HIDE DEF j
  <2>3. TickSound(j)
    BY <1>1, <1>b, <2>2 DEF TickSound, StillTrue, StepSound
  <2> QED
    BY <1>a, <2>1, <2>2, <2>3, QuietStep
<1>2. CASE job[d].row.fundingTx = NoTx /\ \E t \in Tx : htlc[t].kind # "none"
  <2> DEFINE u == CHOOSE t \in Tx : htlc[t].kind # "none"
             j == [job[d] EXCEPT !.pc = "toAwaiting", !.tx = u]
  <2>1. u \in Tx /\ htlc[u].kind # "none" /\ u \in Int
    BY <1>2 DEF Tx
  <2>2. job' = [job EXCEPT ![d] = j]
    BY <1>2, <1>b DEF recoverFunding
  <2> HIDE DEF u
  <2>3. /\ j \in Job /\ j.pc = "toAwaiting" /\ j.tx = u
        /\ j.row = job[d].row /\ j.fresh = job[d].fresh
    BY <1>b, <2>1 DEF Job, Steps
  <2> HIDE DEF j
  <2>4. TickSound(j)
    BY <1>b, <2>1, <2>3 DEF TickSound, StepSound
  <2> QED
    BY <1>a, <2>2, <2>3, <2>4, QuietStep
<1>3. CASE job[d].row.fundingTx = NoTx /\ ~\E t \in Tx : htlc[t].kind # "none"
  <2>1. Goto(d, "lease")
    BY <1>3, <1>b DEF recoverFunding, Goto
  <2>2. StepSound("lease", job[d])
    BY <1>3 DEF StepSound, Tx
  <2> QED
    BY <1>a, <2>1, <2>2, GotoStep DEF Steps
<1> QED
  BY <1>1, <1>2, <1>3

(* A funding is signed. *)
LEMMA SignFundingStep == ASSUME Inv, NEW d \in Driver, signFunding(d) PROVE Inv'
<1> USE OnchainAssumption
<1> DEFINE j == [job[d] EXCEPT !.pc = "record", !.tx = signed + 1]
<1>a. UNCHANGED <<row, operator, sweeper, lockup, htlc>> /\ Counted
  BY DEF signFunding, others, Counted, Inv, TypeOK
<1>b. job \in [Driver -> Job] /\ job[d] \in Job /\ TickSound(job[d]) /\ signed + 1 \in 1..MaxSigned
      /\ signed + 1 \in Int
  BY DEF Inv, TypeOK, signFunding
<1>1. job' = [job EXCEPT ![d] = j]
  BY <1>b DEF signFunding
<1>2. /\ j \in Job /\ j.pc = "record" /\ j.tx = signed + 1
      /\ j.row = job[d].row /\ j.fresh = job[d].fresh
  BY <1>b DEF Job, Steps
<1>3. job[d].pc = "submit"
  BY DEF signFunding, At
<1> HIDE DEF j
<1>4. TickSound(j)
  BY <1>b, <1>2, <1>3 DEF TickSound, StepSound
<1> QED
  BY <1>a, <1>1, <1>2, <1>4, QuietStep

(* Signing fails. *)
LEMMA SignFundingFailsStep == ASSUME Inv, NEW d \in Driver, signFundingFails(d) PROVE Inv'
<1>1. UNCHANGED <<row, operator, sweeper, lockup, htlc>> /\ Counted /\ Goto(d, "release")
  BY OnchainAssumption DEF signFundingFails, chain, Counted, Inv, TypeOK
<1>2. StepSound("release", job[d])
  BY DEF StepSound
<1> QED
  BY <1>1, <1>2, GotoStep DEF Steps

(* A tick dies. *)
LEMMA AbandonStep == ASSUME Inv, NEW d \in Driver, Abandon(d) PROVE Inv'
<1>1. UNCHANGED <<row, operator, sweeper, lockup, htlc>> /\ Counted
  BY OnchainAssumption DEF Abandon, chain, Counted, Inv, TypeOK
<1> QED
  BY <1>1, EndStep DEF Abandon

(* A row whose HTLC is out: how it was spent, or whether it is time. *)
LEMMA WhenAwaitingClaimStep == ASSUME Inv, NEW d \in Driver, whenAwaitingClaim(d) PROVE Inv'
<1>1. UNCHANGED <<row, operator, sweeper, lockup, htlc>> /\ Counted
  BY SameCount DEF whenAwaitingClaim, chain, others
<1>2. Goto(d, "toClaiming") \/ Goto(d, "failSpent") \/ Goto(d, "toRefunding") \/ Done(d)
  BY DEF whenAwaitingClaim, Goto, Done, Inv, TypeOK
<1>3. /\ StepSound("toClaiming", job[d]) /\ StepSound("failSpent", job[d])
      /\ StepSound("toRefunding", job[d])
  BY DEF StepSound, whenAwaitingClaim, AtState
<1> QED
  BY <1>1, <1>2, <1>3, GotoStep, EndStep DEF Steps

(* A row being refunded: its own refunds first. *)
LEMMA WhenRefundingOnchainStep == ASSUME Inv, NEW d \in Driver, whenRefundingOnchain(d) PROVE Inv'
<1> DEFINE j == [job[d] EXCEPT !.pc = "push", !.mode = "replace"]
<1>a. UNCHANGED <<row, operator, sweeper, lockup, htlc>> /\ Counted
  BY SameCount DEF whenRefundingOnchain, chain, others
<1>b. job \in [Driver -> Job] /\ job[d] \in Job /\ TickSound(job[d])
  BY DEF Inv, TypeOK
<1>c. job[d].row.state = "refunding_onchain" /\ job[d].row.fundingTxid # NoTx
  BY <1>b DEF whenRefundingOnchain, AtState, TickSound, StillTrue
<1>1. Goto(d, "toRefunded") \/ job' = [job EXCEPT ![d] = j] \/ Goto(d, "witness") \/ Done(d)
  BY <1>b DEF whenRefundingOnchain
<1>2. StepSound("toRefunded", job[d]) /\ StepSound("witness", job[d])
  BY <1>c DEF StepSound
<1>3. CASE job' = [job EXCEPT ![d] = j]
  <2>1. j \in Job /\ j.pc = "push" /\ j.row = job[d].row /\ j.fresh = job[d].fresh
    BY <1>b DEF Job, Steps
  <2> HIDE DEF j
  <2>2. TickSound(j)
    BY <1>b, <1>c, <2>1 DEF TickSound, StepSound
  <2> QED
    BY <1>a, <1>3, <2>1, <2>2, QuietStep
<1> QED
  BY <1>a, <1>1, <1>2, <1>3, GotoStep, EndStep DEF Steps

(* The client's claim is looked for once more. *)
LEMMA RefundWitnessStep == ASSUME Inv, NEW d \in Driver, RefundWitness(d) PROVE Inv'
<1>1. UNCHANGED <<row, operator, sweeper, lockup, htlc>> /\ Counted
  BY SameCount DEF RefundWitness, chain, others
<1>2. Goto(d, "toClaiming") \/ Goto(d, "failSpent") \/ Goto(d, "push")
  BY DEF RefundWitness, Witness
<1>3. TickSound(job[d]) /\ job[d].pc = "witness"
  BY DEF Inv, RefundWitness, At
<1>4. /\ StepSound("toClaiming", job[d]) /\ StepSound("failSpent", job[d])
      /\ StepSound("push", job[d])
  BY <1>3 DEF TickSound, StepSound
<1> QED
  BY <1>1, <1>2, <1>4, GotoStep DEF Steps

(* A row to be claimed: whether the amount is at the script. *)
LEMMA WhenClaimingStep == ASSUME Inv, NEW d \in Driver, whenClaiming(d) PROVE Inv'
<1>1. UNCHANGED <<row, operator, sweeper, lockup, htlc>> /\ Counted
  BY SameCount DEF whenClaiming, chain, others
<1>2. Goto(d, "claim") \/ Goto(d, "evidence")
  BY DEF whenClaiming
<1>3. StepSound("claim", job[d]) /\ StepSound("evidence", job[d])
  BY DEF StepSound
<1> QED
  BY <1>1, <1>2, <1>3, GotoStep DEF Steps

----------------------------------------------------------------------------
(* Ticks that end with a transition. *)

(* A quote that lapsed or was funded wrongly. *)
LEMMA FailQuotedStep == ASSUME Inv, NEW d \in Driver, FailQuoted(d) PROVE Inv'
<1>1. UNCHANGED <<operator, sweeper, lockup, htlc>> /\ Counted /\ Done(d)
  BY SameCount DEF FailQuoted, chain, others
<1>2. transition("quoted", [row EXCEPT !.state = "refused"])
  BY DEF FailQuoted, fail, failState, Exposed
<1> QED
  BY <1>1, <1>2, MoveStep DEF States, OnchainSendMachine

(* A quote funded. *)
LEMMA FundStep == ASSUME Inv, NEW d \in Driver, Fund(d) PROVE Inv'
<1>1. UNCHANGED <<operator, sweeper, lockup, htlc>> /\ Counted /\ Done(d)
  BY SameCount DEF Fund, chain, others
<1>2. transition("quoted", [row EXCEPT !.state = "funded"])
  BY DEF Fund
<1> QED
  BY <1>1, <1>2, MoveStep DEF States, OnchainSendMachine

(* The gates before a funding. *)
LEMMA WhenFundedStep == ASSUME Inv, NEW d \in Driver, whenFunded(d) PROVE Inv'
<1>1. UNCHANGED <<operator, sweeper, lockup, htlc>> /\ Counted
  BY SameCount DEF whenFunded, chain, others
<1>2. CASE fail("funded") /\ Done(d)
  <2>1. transition("funded", [row EXCEPT !.state = "refused"])
    BY <1>2 DEF fail, failState, Exposed
  <2> QED
    BY <1>1, <1>2, <2>1, MoveStep DEF States, OnchainSendMachine
<1>3. CASE row' = row /\ Goto(d, "enter")
  <2>1. StepSound("enter", job[d])
    BY DEF StepSound
  <2> QED
    BY <1>1, <1>3, <2>1, GotoStep DEF Steps
<1>4. CASE row' = row /\ Done(d)
  BY <1>1, <1>4, EndStep
<1> QED
  BY <1>2, <1>3, <1>4 DEF whenFunded

(* A recorded funding: seen, parked, or to be sent. *)
LEMMA PublishFundingStep == ASSUME Inv, NEW d \in Driver, publishFunding(d) PROVE Inv'
<1>1. UNCHANGED <<operator, sweeper, lockup, htlc>> /\ Counted
  BY SameCount DEF publishFunding, chain, others
<1>2. /\ TickSound(job[d]) /\ job[d].pc = "publish" /\ job[d].tx \in Tx
      /\ StepSound("broadcast", job[d])
  BY OnchainAssumption DEF Inv, publishFunding, At, TickSound, StepSound, RowSound, Tx
<1>3. CASE row' = row /\ Goto(d, "toAwaiting") /\ htlc[job[d].tx].kind # "none"
  <2>1. StepSound("toAwaiting", job[d])
    BY <1>2, <1>3 DEF StepSound
  <2> QED
    BY <1>1, <1>3, <2>1, GotoStep DEF Steps
<1>4. CASE fail("funding_onchain") /\ Done(d)
  <2>1. transition("funding_onchain", [row EXCEPT !.state = "stuck"])
    BY <1>4 DEF fail, failState, Exposed
  <2> QED
    BY <1>1, <1>4, <2>1, MoveStep DEF States, OnchainSendMachine, Unpaid
<1>5. CASE row' = row /\ Goto(d, "broadcast")
  BY <1>1, <1>2, <1>5, GotoStep DEF Steps
<1> QED
  BY <1>3, <1>4, <1>5 DEF publishFunding

(* The refund is decided. *)
LEMMA ToRefundingStep == ASSUME Inv, NEW d \in Driver, ToRefunding(d) PROVE Inv'
<1>1. UNCHANGED <<operator, sweeper, lockup, htlc>> /\ Counted /\ Done(d)
  BY SameCount DEF ToRefunding, chain, others
<1>2. transition("awaiting_claim", [row EXCEPT !.state = "refunding_onchain"])
  BY DEF ToRefunding
<1>3. row.state = "awaiting_claim" => row.fundingTxid # NoTx
  BY DEF Inv, RowSound
<1> QED
  BY <1>1, <1>2, <1>3, MoveStep DEF States, OnchainSendMachine, Unpaid

(* The HTLC was spent by neither of the two. *)
LEMMA FailSpentStep == ASSUME Inv, NEW d \in Driver, FailSpent(d) PROVE Inv'
<1>1. UNCHANGED <<operator, sweeper, lockup, htlc>> /\ Counted /\ Done(d)
  BY SameCount DEF FailSpent, chain, others
<1>2. job[d].row.state \in {"awaiting_claim", "refunding_onchain"}
  BY DEF FailSpent, At, Inv, TickSound, StepSound
<1>3. transition(job[d].row.state, [row EXCEPT !.state = "stuck"])
  BY <1>2 DEF FailSpent, fail, failState, Exposed
<1> QED
  BY <1>1, <1>2, <1>3, MoveStep DEF States, OnchainSendMachine, Unpaid

(* The refund is confirmed. *)
LEMMA ToRefundedStep == ASSUME Inv, NEW d \in Driver, ToRefunded(d) PROVE Inv'
<1>1. UNCHANGED <<operator, sweeper, lockup, htlc>> /\ Counted /\ Done(d)
  BY SameCount DEF ToRefunded, chain, others
<1>2. transition("refunding_onchain", [row EXCEPT !.state = "refunded"])
  BY DEF ToRefunded
<1>3. row.state = "refunding_onchain" => row.fundingTxid # NoTx
  BY DEF Inv, RowSound
<1> QED
  BY <1>1, <1>2, <1>3, MoveStep DEF States, OnchainSendMachine, Unpaid

(* The HTLC cannot pay for its refund. *)
LEMMA RefundUnaffordableStep == ASSUME Inv, NEW d \in Driver, RefundUnaffordable(d) PROVE Inv'
<1>1. UNCHANGED <<operator, sweeper, lockup, htlc>> /\ Counted /\ Done(d)
  BY OnchainAssumption DEF RefundUnaffordable, chain, Counted, Inv, TypeOK
<1>2. CASE fail("refunding_onchain")
  <2>1. transition("refunding_onchain", [row EXCEPT !.state = "stuck"])
    BY <1>2 DEF fail, failState, Exposed
  <2> QED
    BY <1>1, <2>1, MoveStep DEF States, OnchainSendMachine, Unpaid
<1>3. CASE row' = row
  BY <1>1, <1>3, EndStep
<1> QED
  BY <1>2, <1>3 DEF RefundUnaffordable

(* The lockup was claimed. *)
LEMMA MarkClaimedStep == ASSUME Inv, NEW d \in Driver, MarkClaimed(d) PROVE Inv'
<1>1. UNCHANGED <<operator, sweeper, lockup, htlc>> /\ Counted /\ Done(d)
  BY SameCount DEF MarkClaimed, chain, others
<1>2. transition("claiming", [row EXCEPT !.state = "claimed"]) /\ lockup = "claimed"
  BY DEF MarkClaimed, At, Inv, TickSound, StepSound
<1> QED
  BY <1>1, <1>2, MoveStep DEF States, OnchainSendMachine, Unpaid

----------------------------------------------------------------------------
(* Ticks that write the row otherwise. *)

(* A step that changes the row and the tick that writes it. *)
LEMMA RowStep ==
  ASSUME Inv, NEW d \in Driver, NEW j \in Job, job' = [job EXCEPT ![d] = j], row' \in Row,
         row.fundingTx # NoTx => row'.fundingTx = row.fundingTx,
         row.fundingTxid # NoTx => row'.fundingTxid = row.fundingTxid,
         row'.outcome = row.outcome,
         row.state \in {"refused", "refunded"} => row'.state = row.state,
         row'.state = "claimed" => row.state = "claimed",
         RowSound', TickSound(j)',
         UNCHANGED <<operator, sweeper, lockup, htlc>>, Counted
  PROVE  Inv'
<1>1. Grows
  BY DEF Grows
<1>2. TypeOK'
  BY DEF Inv, TypeOK, Counted
<1>3. SingleFunding' /\ SweepSound' /\ Told'
  BY OnchainAssumption DEF Inv, SingleFunding, SweepSound, Told, Tx, NoTx
<1> QED
  BY <1>1, <1>2, <1>3, OneTick

(* The lease and the state are taken together. *)
LEMMA EnterFundingStep == ASSUME Inv, NEW d \in Driver, EnterFunding(d) PROVE Inv'
<1>a. UNCHANGED <<operator, sweeper, lockup, htlc>> /\ Counted
  BY SameCount DEF EnterFunding, chain, others
<1>b. row \in Row /\ clock \in Int /\ job \in [Driver -> Job] /\ job[d] \in Job
  BY DEF Inv, TypeOK
<1>1. CASE row.state # "funded"
  BY <1>1, <1>a, EndStep DEF EnterFunding, transition, Won, Done
<1>2. CASE row.state = "funded"
  <2>j. PICK j : j = [job[d] EXCEPT !.pc = "submit", !.row = row', !.fresh = TRUE]
    OBVIOUS
  <2>1. row' = [[row EXCEPT !.state = "funding_onchain", !.lease = clock] EXCEPT !.updated = clock]
    BY <1>2 DEF EnterFunding, transition, Won, write
  <2>2. job' = [job EXCEPT ![d] = j]
    BY <1>2, <1>b, <2>j DEF EnterFunding, Won
  <2>3. /\ row' \in Row /\ row'.state = "funding_onchain" /\ row'.fundingTx = row.fundingTx
        /\ row'.fundingTxid = row.fundingTxid /\ row'.preimage = row.preimage
        /\ row'.outcome = row.outcome
    BY <1>b, <2>1 DEF Row, States, OnchainSendMachine
  <2>4. j \in Job /\ j.pc = "submit" /\ j.row = row'
    BY <1>b, <2>j, <2>3 DEF Job, Steps
  <2>5. row.fundingTx = NoTx /\ row.fundingTxid = NoTx /\ ~row.preimage /\ htlc[0].kind = "none"
    BY <1>2 DEF Inv, RowSound, Unpaid
  <2>6. RowSound'
    BY <1>a, <2>3, <2>5 DEF RowSound
  <2>7. TickSound(j)'
    BY <1>a, <2>3, <2>4, <2>5 DEF TickSound, StillTrue, StepSound
  <2> QED
    BY <1>a, <1>2, <2>2, <2>3, <2>4, <2>5, <2>6, <2>7, RowStep
<1> QED
  BY <1>1, <1>2

(* A tick that moves on, having written the row. *)
LEMMA RowGotoStep ==
  ASSUME Inv, NEW d \in Driver, NEW pc \in {"submit", "release"}, Goto(d, pc), row' \in Row,
         pc = "submit" => htlc[0].kind = "none",
         row.fundingTx # NoTx => row'.fundingTx = row.fundingTx,
         row'.fundingTxid = row.fundingTxid,
         row'.outcome = row.outcome,
         row.state \in {"refused", "refunded"} => row'.state = row.state,
         row'.state = "claimed" => row.state = "claimed",
         RowSound',
         UNCHANGED <<operator, sweeper, lockup, htlc>>, Counted
  PROVE  Inv'
<1>j. PICK j : j = [job[d] EXCEPT !.pc = pc]
  OBVIOUS
<1>1. job[d] \in Job /\ job \in [Driver -> Job] /\ TickSound(job[d])
  BY DEF Inv, TypeOK
<1>2. /\ j \in Job /\ j.pc = pc /\ j.row = job[d].row /\ j.fresh = job[d].fresh
      /\ j.tx = job[d].tx
  BY <1>j, <1>1 DEF Job, Steps
<1>3. job' = [job EXCEPT ![d] = j]
  BY <1>j, <1>1 DEF Goto
<1>4. StillTrue(j.row)'
  BY <1>1, <1>2 DEF TickSound, StillTrue
<1>5. TickSound(j)'
  BY <1>1, <1>2, <1>4 DEF TickSound, StillTrue, StepSound
<1> QED
  BY <1>2, <1>3, <1>5, RowStep

(* The lease of a row in funding. *)
LEMMA ClaimFundLeaseStep == ASSUME Inv, NEW d \in Driver, claimFundLease(d) PROVE Inv'
<1> DEFINE won == row.state = "funding_onchain" /\ LeaseFree
<1>a. UNCHANGED <<operator, sweeper, lockup, htlc>> /\ Counted
  BY SameCount DEF claimFundLease, chain, others
<1>b. row \in Row /\ clock \in Int /\ job \in [Driver -> Job] /\ TickSound(job[d])
  BY DEF Inv, TypeOK
<1>1. CASE ~won
  BY <1>1, <1>a, EndStep DEF claimFundLease, Then, Done
<1>2. CASE won
  <2>1. row' = [[row EXCEPT !.lease = clock] EXCEPT !.updated = clock]
    BY <1>2 DEF claimFundLease, write
  <2>2. Goto(d, "submit")
    BY <1>2, <1>b DEF claimFundLease, Then, Goto
  <2>3. /\ row' \in Row /\ row'.state = row.state /\ row'.fundingTx = row.fundingTx
        /\ row'.fundingTxid = row.fundingTxid /\ row'.preimage = row.preimage
        /\ row'.outcome = row.outcome
    BY <1>b, <2>1 DEF Row
  <2>4. RowSound'
    BY <1>a, <2>3 DEF Inv, RowSound
  <2>5. htlc[0].kind = "none"
    BY <1>b DEF claimFundLease, At, TickSound, StepSound
  <2> QED
    BY <1>a, <2>2, <2>3, <2>4, <2>5, RowGotoStep
<1> QED
  BY <1>1, <1>2

(* A funding the gates refuse: closed if nothing can be out, parked otherwise. *)
LEMMA RefuseFundingStep == ASSUME Inv, NEW d \in Driver, refuseFunding(d) PROVE Inv'
<1>a. UNCHANGED <<operator, sweeper, lockup, htlc>> /\ Counted
  BY SameCount DEF refuseFunding, chain, others
<1>b. row \in Row /\ clock \in Int /\ job \in [Driver -> Job] /\ TickSound(job[d])
  BY DEF Inv, TypeOK
<1>1. CASE job[d].fresh /\ MayRecord
  <2>1. row' = [[row EXCEPT !.state = "refused"] EXCEPT !.updated = clock]
    BY <1>1 DEF refuseFunding, write
  <2>2. Goto(d, "release")
    BY <1>1, <1>b DEF refuseFunding, Then, Goto
  <2>3. /\ row' \in Row /\ row'.state = "refused" /\ row'.fundingTx = row.fundingTx
        /\ row'.fundingTxid = row.fundingTxid /\ row'.preimage = row.preimage
        /\ row'.outcome = row.outcome
    BY <1>b, <2>1 DEF Row, States, OnchainSendMachine
  <2>4. /\ row.fundingTx = NoTx /\ row.fundingTxid = NoTx /\ ~row.preimage /\ htlc[0].kind = "none"
        /\ row.state = "funding_onchain"
    BY <1>1, <1>b DEF MayRecord, TickSound, Inv, RowSound
  <2>5. RowSound'
    BY <1>a, <2>3, <2>4 DEF RowSound
  <2> QED
    BY <1>a, <2>2, <2>3, <2>4, <2>5, RowGotoStep
<1>2. CASE job[d].fresh /\ ~MayRecord
  BY <1>2, <1>a, EndStep DEF refuseFunding, Then, Done
<1>3. CASE ~job[d].fresh
  <2>1. transition("funding_onchain", [row EXCEPT !.state = "stuck"]) /\ Done(d)
    BY <1>3 DEF refuseFunding, fail, failState, Exposed
  <2> QED
    BY <1>a, <2>1, MoveStep DEF States, OnchainSendMachine, Unpaid
<1> QED
  BY <1>1, <1>2, <1>3

(* A tick that ends, having written nothing of the row the others rely on. *)
LEMMA RowEndStep ==
  ASSUME Inv, NEW d \in Driver, Done(d), row' \in Row,
         row.fundingTx # NoTx => row'.fundingTx = row.fundingTx,
         row.fundingTxid # NoTx => row'.fundingTxid = row.fundingTxid,
         row'.outcome = row.outcome,
         row.state \in {"refused", "refunded"} => row'.state = row.state,
         row'.state = "claimed" => row.state = "claimed",
         RowSound', UNCHANGED <<operator, sweeper, lockup, htlc>>, Counted
  PROVE  Inv'
BY IdleType, IdleSound, RowStep DEF Done

(* The lease is given back. *)
LEMMA ReleaseFundLeaseStep == ASSUME Inv, NEW d \in Driver, releaseFundLease(d) PROVE Inv'
<1>1. UNCHANGED <<operator, sweeper, lockup, htlc>> /\ Counted /\ Done(d)
  BY SameCount DEF releaseFundLease, chain, others
<1>2. /\ row' \in Row /\ row'.state = row.state /\ row'.fundingTx = row.fundingTx
      /\ row'.fundingTxid = row.fundingTxid /\ row'.preimage = row.preimage
      /\ row'.outcome = row.outcome
  BY DEF releaseFundLease, Inv, TypeOK, Row, Never
<1>3. RowSound'
  BY <1>1, <1>2 DEF Inv, RowSound
<1> QED
  BY <1>1, <1>2, <1>3, RowEndStep

(* The signed funding is recorded, unless another one is. *)
LEMMA RecordFundingTxStep == ASSUME Inv, NEW d \in Driver, recordFundingTx(d) PROVE Inv'
<1>a. UNCHANGED <<operator, sweeper, lockup, htlc>> /\ Counted
  BY SameCount DEF recordFundingTx, chain, others
<1>b. row \in Row /\ clock \in Int /\ job \in [Driver -> Job] /\ job[d] \in Job /\ TickSound(job[d])
  BY DEF Inv, TypeOK
<1>1. CASE ~MayRecord
  BY <1>1, <1>a, EndStep DEF recordFundingTx, Then, Done
<1>2. CASE MayRecord
  <2>0. job[d].tx \in 1..MaxSigned /\ htlc[0].kind = "none" /\ job[d].tx \in Int
    BY <1>b DEF recordFundingTx, At, TickSound, StepSound, Job
  <2>1. row' = [[row EXCEPT !.fundingTx = job[d].tx] EXCEPT !.updated = clock]
    BY <1>2 DEF recordFundingTx, write
  <2>2. Goto(d, "publish")
    BY <1>2, <1>b DEF recordFundingTx, Then, Goto
  <2>3. /\ row' \in Row /\ row'.state = row.state /\ row'.fundingTx = job[d].tx
        /\ row'.fundingTxid = row.fundingTxid /\ row'.preimage = row.preimage
        /\ row'.outcome = row.outcome
    BY <1>b, <2>0, <2>1 DEF Row
  <2>4. row.state = "funding_onchain" /\ row.fundingTx = NoTx /\ job[d].tx # NoTx
    BY <1>2, <2>0, OnchainAssumption DEF MayRecord, NoTx
  <2>5. RowSound'
    BY <1>a, <2>0, <2>3, <2>4 DEF Inv, RowSound, Unpaid
  <2>j. PICK j : j = [job[d] EXCEPT !.pc = "publish"]
    OBVIOUS
  <2>6. j \in Job /\ j.pc = "publish" /\ j.tx = job[d].tx /\ j.row = job[d].row /\ j.fresh = job[d].fresh
    BY <1>b, <2>j DEF Job, Steps
  <2>7. job' = [job EXCEPT ![d] = j]
    BY <2>2, <1>b, <2>j DEF Goto
  <2>8. StillTrue(j.row)'
    BY <1>b, <2>3, <2>4, <2>6 DEF TickSound, StillTrue
  <2>9. TickSound(j)'
    BY <1>a, <2>0, <2>3, <2>4, <2>6, <2>8 DEF TickSound, StillTrue, StepSound
  <2> QED
    BY <1>a, <2>3, <2>4, <2>5, <2>6, <2>7, <2>9, RowStep
<1> QED
  BY <1>1, <1>2

(* The funding was seen out. *)
LEMMA ToAwaitingStep == ASSUME Inv, NEW d \in Driver, ToAwaiting(d) PROVE Inv'
<1>a. UNCHANGED <<operator, sweeper, lockup, htlc>> /\ Counted /\ Done(d)
  BY SameCount DEF ToAwaiting, chain, others
<1>b. row \in Row /\ clock \in Int /\ job[d] \in Job /\ TickSound(job[d])
  BY DEF Inv, TypeOK
<1>1. CASE row.state # "funding_onchain"
  BY <1>1, <1>a, EndStep DEF ToAwaiting, transition, Won
<1>2. CASE row.state = "funding_onchain"
  <2>1. row' = [[row EXCEPT !.state = "awaiting_claim", !.fundingTxid = job[d].tx] EXCEPT !.updated = clock]
    BY <1>2 DEF ToAwaiting, transition, Won, write
  <2>2. job[d].tx \in Int /\ job[d].tx \in Tx /\ htlc[job[d].tx].kind # "none"
    BY <1>b DEF ToAwaiting, At, TickSound, StepSound, Job
  <2>3. /\ row' \in Row /\ row'.state = "awaiting_claim" /\ row'.fundingTx = row.fundingTx
        /\ row'.fundingTxid = job[d].tx /\ row'.preimage = row.preimage
        /\ row'.outcome = row.outcome
    BY <1>b, <2>1, <2>2 DEF Row, States, OnchainSendMachine
  <2>4. row.fundingTxid = NoTx /\ job[d].tx # NoTx
    BY <1>2, <2>2, OnchainAssumption DEF Inv, RowSound, Tx, NoTx
  <2>5. RowSound'
    BY <1>a, <2>2, <2>3, <2>4 DEF Inv, RowSound, Unpaid
  <2> QED
    BY <1>a, <1>2, <2>3, <2>4, <2>5, RowEndStep
<1> QED
  BY <1>1, <1>2

(* The preimage is recorded with the state. *)
LEMMA ToClaimingStep == ASSUME Inv, NEW d \in Driver, ToClaiming(d) PROVE Inv'
<1>a. UNCHANGED <<operator, sweeper, lockup, htlc>> /\ Counted /\ Done(d)
  BY SameCount DEF ToClaiming, chain, others
<1>b. row \in Row /\ clock \in Int
  BY DEF Inv, TypeOK
<1>c. job[d].row.state \in {"awaiting_claim", "refunding_onchain"}
  BY DEF ToClaiming, At, Inv, TickSound, StepSound
<1>1. CASE row.state # job[d].row.state
  BY <1>1, <1>a, EndStep DEF ToClaiming, transition, Won
<1>2. CASE row.state = job[d].row.state
  <2>1. row' = [[row EXCEPT !.state = "claiming", !.preimage = TRUE] EXCEPT !.updated = clock]
    BY <1>2 DEF ToClaiming, transition, Won, write
  <2>2. /\ row' \in Row /\ row'.state = "claiming" /\ row'.fundingTx = row.fundingTx
        /\ row'.fundingTxid = row.fundingTxid /\ row'.outcome = row.outcome
    BY <1>b, <2>1 DEF Row, States, OnchainSendMachine
  <2>3. row.fundingTxid # NoTx
    BY <1>2, <1>c DEF Inv, RowSound
  <2>4. RowSound'
    BY <1>a, <2>2, <2>3 DEF Inv, RowSound, Unpaid
  <2> QED
    BY <1>a, <1>2, <1>c, <2>2, <2>4, RowEndStep
<1> QED
  BY <1>1, <1>2

(* A refund is signed, and its name recorded. *)
LEMMA PushOnchainHtlcRefundStep == ASSUME Inv, NEW d \in Driver, pushOnchainHtlcRefund(d) PROVE Inv'
<1>a. UNCHANGED <<operator, sweeper, lockup, htlc>> /\ Counted
  BY SameCount DEF pushOnchainHtlcRefund, chain, others
<1>b. row \in Row /\ clock \in Int /\ job \in [Driver -> Job] /\ job[d] \in Job /\ TickSound(job[d])
  BY DEF Inv, TypeOK
<1>1. PICK v \in Version : /\ write([row EXCEPT !.refunds = job[d].row.refunds \cup {v}])
                           /\ job' = [job EXCEPT ![d].pc = "sendRefund", ![d].ver = v]
  BY DEF pushOnchainHtlcRefund
<1>j. PICK j : j = [job[d] EXCEPT !.pc = "sendRefund", !.ver = v]
  OBVIOUS
<1>2. job[d].row.refunds \cup {v} \in SUBSET Version
  BY <1>b DEF Job, Row
<1>3. /\ row' \in Row /\ row'.state = row.state /\ row'.fundingTx = row.fundingTx
      /\ row'.fundingTxid = row.fundingTxid /\ row'.preimage = row.preimage
      /\ row'.outcome = row.outcome
  BY <1>b, <1>1, <1>2 DEF Row, write
<1>4. job' = [job EXCEPT ![d] = j]
  BY <1>1, <1>b, <1>j
<1>5. j \in Job /\ j.pc = "sendRefund" /\ j.row = job[d].row /\ j.fresh = job[d].fresh
  BY <1>b, <1>j DEF Job, Steps
<1>6. job[d].row.fundingTxid # NoTx
  BY <1>b DEF pushOnchainHtlcRefund, At, TickSound, StepSound
<1>7. RowSound'
  BY <1>a, <1>3 DEF Inv, RowSound
<1>8. TickSound(j)'
  BY <1>a, <1>b, <1>3, <1>5, <1>6 DEF TickSound, StillTrue, StepSound
<1> QED
  BY <1>a, <1>3, <1>4, <1>5, <1>7, <1>8, RowStep

----------------------------------------------------------------------------
(* Ticks that act on the chain or on the lockup. *)

(* The HTLCs keep their type, and a row that sees them its soundness, as long *)
(* as none disappears and a new one is the one the row recorded.              *)
LEMMA ChainSound ==
  ASSUME Inv, row' = row, htlc' \in [Tx -> [kind : Kinds, ver : Version \cup {NoVersion}, at : Int]],
         \A t \in Tx : htlc[t].kind # "none" => htlc'[t].kind # "none",
         \A t \in Tx : htlc'[t].kind # "none" => htlc[t].kind # "none" \/ row.fundingTx = t
  PROVE  /\ SingleFunding' /\ RowSound'
         /\ htlc[0].kind = "none" => htlc'[0].kind = "none"
<1>1. 0 \in Tx /\ (row.fundingTx # NoTx => row.fundingTx \in 1..MaxSigned) /\ NoTx # 0
  BY OnchainAssumption DEF Inv, RowSound, Tx, NoTx
<1>2. htlc[0].kind = "none" => htlc'[0].kind = "none"
  BY <1>1, OnchainAssumption
<1>3. SingleFunding'
  BY DEF Inv, SingleFunding
<1> QED
  BY <1>1, <1>2, <1>3 DEF Inv, RowSound

(* The recorded funding is sent. *)
LEMMA BroadcastFundingStep == ASSUME Inv, NEW d \in Driver, broadcastFunding(d) PROVE Inv'
<1>a. UNCHANGED <<row, operator, sweeper, lockup>> /\ Counted /\ Goto(d, "toAwaiting")
  BY SameCount DEF broadcastFunding, others
<1>b. /\ job \in [Driver -> Job] /\ job[d] \in Job /\ TickSound(job[d])
      /\ htlc \in [Tx -> [kind : Kinds, ver : Version \cup {NoVersion}, at : Int]]
  BY DEF Inv, TypeOK
<1>c. job[d].tx = row.fundingTx /\ job[d].tx \in Tx
  BY <1>b, OnchainAssumption DEF broadcastFunding, At, TickSound, StepSound, Inv, RowSound, Tx
<1>1. PICK j : j = [job[d] EXCEPT !.pc = "toAwaiting"]
  OBVIOUS
<1>2. /\ j \in Job /\ j.pc = "toAwaiting" /\ j.tx = job[d].tx /\ j.row = job[d].row
      /\ j.fresh = job[d].fresh
  BY <1>b, <1>1 DEF Job, Steps
<1>3. job' = [job EXCEPT ![d] = j]
  BY <1>a, <1>b, <1>1 DEF Goto
<1>4. /\ htlc' \in [Tx -> [kind : Kinds, ver : Version \cup {NoVersion}, at : Int]]
      /\ htlc'[job[d].tx].kind # "none"
      /\ \A t \in Tx : htlc[t].kind # "none" => htlc'[t].kind # "none"
      /\ \A t \in Tx : htlc'[t].kind # "none" => htlc[t].kind # "none" \/ row.fundingTx = t
  BY <1>b, <1>c DEF broadcastFunding, Kinds
<1>5. SingleFunding' /\ RowSound' /\ (htlc[0].kind = "none" => htlc'[0].kind = "none")
  BY <1>a, <1>4, ChainSound
<1>6. Grows
  BY <1>a, <1>4, <1>5 DEF Grows
<1>7. TypeOK'
  BY <1>a, <1>2, <1>3, <1>4 DEF Inv, TypeOK, Counted
<1>8. SweepSound' /\ Told'
  BY <1>a DEF Inv, SweepSound, Told
<1>9. StillTrue(j.row)'
  BY <1>a, <1>b, <1>2 DEF TickSound, StillTrue
<1>10. TickSound(j)'
  BY <1>b, <1>c, <1>2, <1>4, <1>5, <1>9 DEF TickSound, StillTrue, StepSound
<1> QED
  BY <1>a, <1>2, <1>3, <1>5, <1>6, <1>7, <1>8, <1>10, OneTick

(* A step of a tick that ends, over a chain it may have changed. *)
LEMMA ChainEndStep ==
  ASSUME Inv, NEW d \in Driver, Done(d), UNCHANGED <<row, operator, sweeper, lockup>>, Counted,
         htlc' \in [Tx -> [kind : Kinds, ver : Version \cup {NoVersion}, at : Int]],
         \A t \in Tx : htlc'[t].kind # "none" <=> htlc[t].kind # "none"
  PROVE  Inv'
<1>1. SingleFunding' /\ RowSound' /\ (htlc[0].kind = "none" => htlc'[0].kind = "none")
  BY ChainSound
<1>2. Grows
  BY <1>1 DEF Grows
<1>3. TypeOK'
  BY IdleType DEF Done, Inv, TypeOK, Counted
<1>4. SweepSound' /\ Told'
  BY DEF Inv, SweepSound, Told
<1> QED
  BY <1>1, <1>2, <1>3, <1>4, IdleType, IdleSound, OneTick DEF Done

(* A refund is sent, and taken or not. *)
LEMMA SendRefundStep == ASSUME Inv, NEW d \in Driver, sendRefund(d) PROVE Inv'
<1>a. UNCHANGED <<row, operator, sweeper, lockup>> /\ Counted /\ Done(d)
  BY SameCount DEF sendRefund, others
<1>b. /\ job[d] \in Job /\ TickSound(job[d])
      /\ htlc \in [Tx -> [kind : Kinds, ver : Version \cup {NoVersion}, at : Int]]
  BY DEF Inv, TypeOK
<1> DEFINE t == job[d].row.fundingTxid
<1>c. t \in Tx /\ htlc[t].kind # "none" /\ job[d].ver \in Version \cup {NoVersion}
  BY <1>b DEF sendRefund, At, TickSound, StepSound, StillTrue, Inv, RowSound, Job
<1>1. CASE htlc' = htlc
  BY <1>1, <1>a, <1>b, ChainEndStep
<1>2. CASE htlc' = [htlc EXCEPT ![t].kind = "refunding", ![t].ver = job[d].ver]
  <2>1. /\ htlc' \in [Tx -> [kind : Kinds, ver : Version \cup {NoVersion}, at : Int]]
        /\ \A u \in Tx : htlc'[u].kind # "none" <=> htlc[u].kind # "none"
    BY <1>2, <1>b, <1>c DEF Kinds
  <2> QED
    BY <1>a, <2>1, ChainEndStep
<1> QED
  BY <1>1, <1>2 DEF sendRefund

(* The lockup is claimed. *)
LEMMA ClaimStep == ASSUME Inv, NEW d \in Driver, Claim(d) PROVE Inv'
<1>a. /\ UNCHANGED <<row, operator, sweeper, htlc>> /\ Counted /\ Goto(d, "markClaimed")
      /\ lockup \in Covers /\ lockup' = "claimed"
  BY SameCount DEF Claim, chain, others
<1>b. job \in [Driver -> Job] /\ job[d] \in Job /\ TickSound(job[d])
  BY DEF Inv, TypeOK
<1>1. PICK j : j = [job[d] EXCEPT !.pc = "markClaimed"]
  OBVIOUS
<1>2. /\ j \in Job /\ j.pc = "markClaimed" /\ j.row = job[d].row /\ j.fresh = job[d].fresh
  BY <1>b, <1>1 DEF Job, Steps
<1>3. job' = [job EXCEPT ![d] = j]
  BY <1>a, <1>b, <1>1 DEF Goto
<1>4. Grows
  BY <1>a DEF Grows
<1>5. TypeOK'
  BY <1>a, <1>2, <1>3 DEF Inv, TypeOK, Counted, Spent
<1>6. SingleFunding' /\ RowSound'
  BY <1>a DEF Inv, SingleFunding, RowSound
<1>7. SweepSound' /\ Told'
  BY <1>a DEF Inv, SweepSound, Told, Covers, Spent
<1>8. StillTrue(j.row)'
  BY <1>a, <1>b, <1>2 DEF TickSound, StillTrue
<1>9. TickSound(j)'
  BY <1>a, <1>b, <1>2, <1>8 DEF TickSound, StillTrue, StepSound
<1> QED
  BY <1>a, <1>2, <1>3, <1>4, <1>5, <1>6, <1>7, <1>9, OneTick

(* The claim fails, or its answer is lost. *)
LEMMA ClaimFailsStep == ASSUME Inv, NEW d \in Driver, ClaimFails(d) PROVE Inv'
<1>a. UNCHANGED <<operator, sweeper, htlc>> /\ Counted /\ Done(d)
  BY OnchainAssumption DEF ClaimFails, chain, Counted, Inv, TypeOK
<1>b. lockup' = lockup \/ (lockup \in Covers /\ lockup' = "claimPending")
  BY DEF ClaimFails
<1>1. /\ row' \in Row
      /\ row'.fundingTx = row.fundingTx /\ row'.fundingTxid = row.fundingTxid
      /\ row'.preimage = row.preimage /\ row'.outcome = row.outcome
      /\ row' = row \/ (row.state = "claiming" /\ row'.state = "stuck")
  <2>1. CASE row' = row
    BY <2>1 DEF Inv, TypeOK
  <2>2. CASE fail("claiming")
    <3>1. transition("claiming", [row EXCEPT !.state = "stuck"])
      BY <2>2 DEF fail, failState, Exposed
    <3> QED
      BY <3>1, MoveSound DEF Inv, States, OnchainSendMachine
  <2> QED
    BY <2>1, <2>2 DEF ClaimFails
<1>2. Grows
  BY <1>a, <1>b, <1>1 DEF Grows, Covers
<1>3. TypeOK'
  BY <1>a, <1>b, <1>1, IdleType DEF Inv, TypeOK, Counted, Done, Spent
<1>4. SingleFunding' /\ RowSound'
  BY <1>a, <1>1 DEF Inv, SingleFunding, RowSound, Unpaid
<1>5. SweepSound'
  BY <1>a, <1>b, <1>1 DEF Inv, SweepSound, Covers
<1>6. Told'
  BY <1>a, <1>b, <1>1 DEF Inv, Told, Covers, Spent
<1> QED
  BY <1>a, <1>2, <1>3, <1>4, <1>5, <1>6, IdleType, IdleSound, OneTick DEF Done

(* Less than the amount at the script: whose spend it was. *)
LEMMA ClaimEvidenceStep == ASSUME Inv, NEW d \in Driver, ClaimEvidence(d) PROVE Inv'
<1>a. UNCHANGED <<operator, sweeper, htlc>> /\ Counted
  BY SameCount DEF ClaimEvidence, chain, others
<1>1. CASE lockup \in {"claimed", "claimPending"}
  <2>0. row' = row /\ lockup' = "claimed" /\ Goto(d, "markClaimed")
    BY <1>1 DEF ClaimEvidence
  <2>b. job \in [Driver -> Job] /\ job[d] \in Job /\ TickSound(job[d])
    BY DEF Inv, TypeOK
  <2>1. PICK j : j = [job[d] EXCEPT !.pc = "markClaimed"]
    OBVIOUS
  <2>2. /\ j \in Job /\ j.pc = "markClaimed" /\ j.row = job[d].row /\ j.fresh = job[d].fresh
    BY <2>b, <2>1 DEF Job, Steps
  <2>3. job' = [job EXCEPT ![d] = j]
    BY <2>0, <2>b, <2>1 DEF Goto
  <2>4. Grows
    BY <1>a, <2>0 DEF Grows
  <2>5. TypeOK'
    BY <1>a, <2>0, <2>2, <2>3 DEF Inv, TypeOK, Counted, Spent
  <2>6. SingleFunding' /\ RowSound'
    BY <1>a, <2>0 DEF Inv, SingleFunding, RowSound
  <2>7. SweepSound' /\ Told'
    BY <1>a, <1>1, <2>0 DEF Inv, SweepSound, Told, Spent
  <2>8. StillTrue(j.row)'
    BY <2>0, <2>b, <2>2 DEF TickSound, StillTrue
  <2>9. TickSound(j)'
    BY <1>a, <2>0, <2>b, <2>2, <2>8 DEF TickSound, StillTrue, StepSound
  <2> QED
    BY <1>a, <2>2, <2>3, <2>4, <2>5, <2>6, <2>7, <2>9, OneTick
<1>2. CASE lockup \notin {"claimed", "claimPending"}
  <2>1. lockup' = lockup /\ Done(d) /\ (row' = row \/ fail("claiming"))
    BY <1>2 DEF ClaimEvidence
  <2>2. CASE row' = row
    BY <1>a, <2>1, <2>2, EndStep
  <2>3. CASE fail("claiming")
    <3>1. transition("claiming", [row EXCEPT !.state = "stuck"])
      BY <2>3 DEF fail, failState, Exposed
    <3> QED
      BY <1>a, <2>1, <3>1, MoveStep DEF States, OnchainSendMachine, Unpaid
  <2> QED
    BY <2>1, <2>2, <2>3
<1> QED
  BY <1>1, <1>2

----------------------------------------------------------------------------
(* The operator, the sweep, the client, the chain and the clock. *)

(* A step no tick takes part in. *)
LEMMA NoTick ==
  ASSUME Inv, job' = job, Grows, TypeOK', SingleFunding', RowSound', SweepSound', Told',
         AskedSound'
  PROVE  Inv'
<1>1. ASSUME NEW e \in Driver PROVE TickSound(job[e])'
  <2>1. TickSound(job[e])
    BY DEF Inv
  <2> QED
    BY <2>1, TickKept DEF TickSound, StillTrue, StepSound
<1> QED
  BY <1>1 DEF Inv

(* A reclaim is asked for. *)
LEMMA ReclaimOnchainHtlcStep == ASSUME Inv, reclaimOnchainHtlc PROVE Inv'
<1>1. /\ UNCHANGED <<row, job, sweeper, lockup, htlc, signed, rotated, clock, faults>>
      /\ row.fundingTxid # NoTx
      /\ operator'.pc = "slot" /\ operator'.row = row
  BY DEF reclaimOnchainHtlc, chain
<1>2. Grows
  BY <1>1 DEF Grows
<1>3. operator' \in [pc : {"idle", "slot", "done"}, row : Row, replace : BOOLEAN]
  BY DEF reclaimOnchainHtlc, Inv, TypeOK
<1>4. TypeOK'
  BY <1>1, <1>3 DEF Inv, TypeOK
<1>5. SingleFunding' /\ RowSound' /\ SweepSound' /\ Told'
  BY <1>1 DEF Inv, SingleFunding, RowSound, SweepSound, Told
<1>6. AskedSound'
  BY <1>1 DEF AskedSound, StillTrue, Inv, RowSound
<1> QED
  BY <1>1, <1>2, <1>4, <1>5, <1>6, NoTick

(* The reclaim has the row's slot. *)
LEMMA ReclaimSlotStep == ASSUME Inv, NEW d \in Driver, ReclaimSlot(d) PROVE Inv'
<1>a. UNCHANGED <<row, sweeper, lockup, htlc, signed, rotated, clock, faults>> /\ operator.pc = "slot"
  BY DEF ReclaimSlot, chain
<1>b. /\ job \in [Driver -> Job] /\ StillTrue(operator.row) /\ operator.row.fundingTxid # NoTx
      /\ operator \in [pc : {"idle", "slot", "done"}, row : Row, replace : BOOLEAN]
  BY <1>a DEF Inv, TypeOK, AskedSound
<1>1. PICK j : j = [Idle EXCEPT !.pc = "push", !.row = operator.row,
                                !.mode = IF operator.replace THEN "replace" ELSE "operator"]
  OBVIOUS
<1>2. j \in Job /\ j.pc = "push" /\ j.row = operator.row /\ j.fresh = FALSE
  BY <1>b, <1>1, IdleType DEF Idle, Job, Steps
<1>3. job' = [job EXCEPT ![d] = j]
  BY <1>1 DEF ReclaimSlot
<1>4. operator' \in [pc : {"idle", "slot", "done"}, row : Row, replace : BOOLEAN] /\ operator'.pc = "done"
  BY <1>b DEF ReclaimSlot
<1>5. Grows
  BY <1>a DEF Grows
<1>6. TypeOK'
  BY <1>a, <1>2, <1>3, <1>4 DEF Inv, TypeOK
<1>7. SingleFunding' /\ RowSound' /\ SweepSound' /\ Told'
  BY <1>a DEF Inv, SingleFunding, RowSound, SweepSound, Told
<1>8. TickSound(j)'
  BY <1>a, <1>b, <1>2 DEF TickSound, StillTrue, StepSound
<1> QED
  BY <1>2, <1>3, <1>4, <1>5, <1>6, <1>7, <1>8, OneTick

(* A parked row that holds the preimage is claimed by hand. *)
LEMMA OnchainClaimNowStep == ASSUME Inv, onchainClaimNow PROVE Inv'
<1>a. /\ UNCHANGED <<job, operator, sweeper, lockup, htlc, signed, rotated, clock, faults>>
      /\ row.state = "stuck" /\ row.preimage
  BY DEF onchainClaimNow, chain, others
<1>1. /\ row' \in Row
      /\ row'.fundingTx = row.fundingTx /\ row'.fundingTxid = row.fundingTxid
      /\ row'.preimage = row.preimage /\ row'.outcome = row.outcome
      /\ row' = row \/ row'.state = "claiming"
  BY MoveSound DEF onchainClaimNow, Inv, States, OnchainSendMachine
<1>2. Grows
  BY <1>a, <1>1 DEF Grows
<1>3. TypeOK'
  BY <1>a, <1>1 DEF Inv, TypeOK
<1>4. SingleFunding' /\ RowSound'
  BY <1>a, <1>1 DEF Inv, SingleFunding, RowSound, Unpaid
<1>5. SweepSound' /\ Told'
  BY <1>a, <1>1 DEF Inv, SweepSound, Told
<1>6. AskedSound'
  BY <1>a, <1>2, AskedKept DEF Inv
<1> QED
  BY <1>a, <1>2, <1>3, <1>4, <1>5, <1>6, NoTick

(* The sweep takes up a closed row. *)
LEMMA RefundSweepStep == ASSUME Inv, refundSweep PROVE Inv'
<1>a. /\ UNCHANGED <<row, job, operator, lockup, htlc, signed, rotated, clock, faults>>
      /\ row.state \in {"refused", "refunded"} /\ sweeper'.pc = "find"
  BY DEF refundSweep, chain, Refundable, Releasable, Rest
<1>1. sweeper' \in [pc : {"idle", "find", "refund", "patch"}, seen : {"none"} \cup Held, parked : Int]
  BY OnchainAssumption DEF refundSweep, Rest
<1>2. Grows
  BY <1>a DEF Grows
<1>3. TypeOK'
  BY <1>a, <1>1 DEF Inv, TypeOK
<1>4. SingleFunding' /\ RowSound' /\ SweepSound' /\ Told'
  BY <1>a DEF Inv, SingleFunding, RowSound, SweepSound, Told
<1>5. AskedSound'
  BY <1>a, <1>2, AskedKept DEF Inv
<1> QED
  BY <1>a, <1>2, <1>3, <1>4, <1>5, NoTick

(* The sweep's state after a round. *)
LEMMA RestType ==
  /\ Rest \in [pc : {"idle", "find", "refund", "patch"}, seen : {"none"} \cup Held, parked : Int]
  /\ Rest.pc = "idle"
BY OnchainAssumption DEF Rest

(* What the sweep finds at the script. *)
LEMMA SweepFindStep == ASSUME Inv, SweepFind PROVE Inv'
<1> DEFINE Sweeper == [pc : {"idle", "find", "refund", "patch"}, seen : {"none"} \cup Held, parked : Int]
<1>a. /\ UNCHANGED <<job, operator, lockup, htlc, signed, rotated, clock, faults>>
      /\ row.state \in {"refused", "refunded"}
  BY DEF SweepFind, chain, Inv, SweepSound
<1>b. row \in Row /\ clock \in Int /\ sweeper \in Sweeper
  BY DEF Inv, TypeOK
<1>1. /\ sweeper' \in Sweeper /\ sweeper'.pc # "patch"
      /\ row' \in Row /\ row'.state = row.state /\ row'.fundingTx = row.fundingTx
      /\ row'.fundingTxid = row.fundingTxid /\ row'.preimage = row.preimage
      /\ row' = row \/ (row'.outcome = "external" /\ lockup \in Spent)
  <2>1. CASE lockup \in Held
    BY <1>b, <2>1 DEF SweepFind
  <2>2. CASE lockup \notin Held /\ lockup \in Spent
    <3>1. sweeper' = Rest /\ row' = [[row EXCEPT !.outcome = "external"] EXCEPT !.updated = clock]
      BY <2>2 DEF SweepFind, write
    <3> QED
      BY <1>b, <2>2, <3>1, RestType DEF Row
  <2>3. CASE lockup \notin Held /\ lockup \notin Spent
    BY <1>b, <2>3, RestType DEF SweepFind, Rest
  <2> QED
    BY <2>1, <2>2, <2>3
<1>2. Grows
  BY <1>a, <1>1 DEF Grows
<1>3. TypeOK'
  BY <1>a, <1>1 DEF Inv, TypeOK
<1>4. SingleFunding' /\ RowSound'
  BY <1>a, <1>1 DEF Inv, SingleFunding, RowSound
<1>5. SweepSound' /\ Told'
  BY <1>a, <1>1 DEF Inv, SweepSound, Told
<1>6. AskedSound'
  BY <1>a, <1>2, AskedKept DEF Inv
<1> QED
  BY <1>a, <1>2, <1>3, <1>4, <1>5, <1>6, NoTick

(* The sweep returns a lockup. *)
LEMMA SweepRefundStep == ASSUME Inv, SweepRefund PROVE Inv'
<1> DEFINE Sweeper == [pc : {"idle", "find", "refund", "patch"}, seen : {"none"} \cup Held, parked : Int]
<1>a. /\ UNCHANGED <<row, job, operator, htlc, signed, rotated, clock, faults>>
      /\ row.state \in {"refused", "refunded"} /\ sweeper \in Sweeper
  BY DEF SweepRefund, chain, Inv, SweepSound, TypeOK
<1>1. /\ sweeper' \in Sweeper
      /\ \/ lockup' = lockup /\ sweeper'.pc = "idle"
         \/ /\ lockup \in Held /\ sweeper'.pc = "patch" /\ sweeper'.seen = sweeper.seen
            /\ lockup' = AfterRefund(sweeper.seen)
  BY <1>a, RestType DEF SweepRefund
<1>2. /\ AfterRefund(sweeper.seen) \in {"leftover", "refunded"}
      /\ sweeper.seen # "many" => AfterRefund(sweeper.seen) = "refunded"
  BY DEF AfterRefund
<1>3. lockup \in Held => lockup \notin Spent \cup {"claimed", "refunded"}
  BY DEF Held, Spent
<1>4. Grows
  BY <1>a, <1>1, <1>3 DEF Grows
<1>5. TypeOK'
  BY <1>a, <1>1, <1>2 DEF Inv, TypeOK, Held, Spent
<1>6. SingleFunding' /\ RowSound'
  BY <1>a DEF Inv, SingleFunding, RowSound
<1>7. SweepSound' /\ Told'
  BY <1>a, <1>1, <1>2, <1>3 DEF Inv, SweepSound, Told
<1>8. AskedSound'
  BY <1>a, <1>4, AskedKept DEF Inv
<1> QED
  BY <1>a, <1>4, <1>5, <1>6, <1>7, <1>8, NoTick

(* The sweep records it. *)
LEMMA SweepPatchStep == ASSUME Inv, SweepPatch PROVE Inv'
<1>a. /\ UNCHANGED <<job, operator, lockup, htlc, signed, rotated, clock, faults>>
      /\ row \in Row /\ clock \in Int /\ sweeper.pc = "patch" /\ sweeper' = Rest
  BY DEF SweepPatch, chain, Inv, TypeOK
<1>1. /\ row' \in Row /\ row'.state = row.state /\ row'.fundingTx = row.fundingTx
      /\ row'.fundingTxid = row.fundingTxid /\ row'.preimage = row.preimage
      /\ row'.outcome = row.outcome \/ (row'.outcome = "pushed" /\ sweeper.seen # "many")
  BY <1>a DEF SweepPatch, write, Row
<1>2. Grows
  BY <1>a, <1>1 DEF Grows
<1>3. TypeOK'
  BY <1>a, <1>1, RestType DEF Inv, TypeOK
<1>4. SingleFunding' /\ RowSound'
  BY <1>a, <1>1 DEF Inv, SingleFunding, RowSound
<1>5. SweepSound' /\ Told'
  BY <1>a, <1>1, RestType DEF Inv, SweepSound, Told
<1>6. AskedSound'
  BY <1>a, <1>2, AskedKept DEF Inv
<1> QED
  BY <1>a, <1>2, <1>3, <1>4, <1>5, <1>6, NoTick

(* The sweep dies. *)
LEMMA SweepAbandonStep == ASSUME Inv, SweepAbandon PROVE Inv'
<1>a. /\ UNCHANGED <<row, job, operator, lockup, htlc, signed, rotated, clock>>
      /\ sweeper' = Rest /\ faults' \in Nat
  BY OnchainAssumption DEF SweepAbandon, chain, Inv, TypeOK
<1>1. Grows
  BY <1>a DEF Grows
<1>2. TypeOK'
  BY <1>a, RestType DEF Inv, TypeOK
<1>3. SingleFunding' /\ RowSound' /\ SweepSound' /\ Told'
  BY <1>a, RestType DEF Inv, SingleFunding, RowSound, SweepSound, Told
<1>4. AskedSound'
  BY <1>a, <1>1, AskedKept DEF Inv
<1> QED
  BY <1>a, <1>1, <1>2, <1>3, <1>4, NoTick

(* The process comes back under another key. *)
LEMMA RotateKeyStep == ASSUME Inv, RotateKey PROVE Inv'
<1>a. /\ UNCHANGED <<row, operator, lockup, htlc, signed, clock>>
      /\ sweeper' = Rest /\ job' = [d \in Driver |-> Idle]
  BY DEF RotateKey, chain
<1>b. faults' \in Nat /\ rotated' \in BOOLEAN
  BY OnchainAssumption DEF RotateKey, Inv, TypeOK
<1>1. Grows
  BY <1>a DEF Grows
<1>2. TypeOK'
  BY <1>a, <1>b, RestType, IdleType DEF Inv, TypeOK
<1>3. SingleFunding' /\ RowSound' /\ SweepSound' /\ Told'
  BY <1>a, RestType DEF Inv, SingleFunding, RowSound, SweepSound, Told
<1>4. AskedSound'
  BY <1>a, <1>1, AskedKept DEF Inv
<1>5. ASSUME NEW e \in Driver PROVE TickSound(job[e])'
  BY <1>a DEF TickSound, StillTrue, StepSound, Idle, NewRow
<1> QED
  BY <1>2, <1>3, <1>4, <1>5 DEF Inv

(* A step of the chain alone: no HTLC appears or disappears. *)
LEMMA ChainStep ==
  ASSUME Inv, UNCHANGED <<row, job, operator, sweeper, lockup>>, Counted,
         htlc' \in [Tx -> [kind : Kinds, ver : Version \cup {NoVersion}, at : Int]],
         \A t \in Tx : htlc'[t].kind # "none" <=> htlc[t].kind # "none"
  PROVE  Inv'
<1>1. SingleFunding' /\ RowSound' /\ (htlc[0].kind = "none" => htlc'[0].kind = "none")
  BY ChainSound
<1>2. Grows
  BY <1>1 DEF Grows
<1>3. TypeOK'
  BY DEF Inv, TypeOK, Counted
<1>4. SweepSound' /\ Told'
  BY DEF Inv, SweepSound, Told
<1>5. AskedSound'
  BY <1>2, AskedKept DEF Inv
<1> QED
  BY <1>1, <1>2, <1>3, <1>4, <1>5, NoTick

(* A refund's block is disconnected. *)
LEMMA ReorgStep == ASSUME Inv, NEW t \in Tx, Reorg(t) PROVE Inv'
<1>1. UNCHANGED <<row, job, operator, sweeper, lockup>> /\ Counted
  BY OnchainAssumption DEF Reorg, Counted, Inv, TypeOK
<1>2. /\ htlc' \in [Tx -> [kind : Kinds, ver : Version \cup {NoVersion}, at : Int]]
      /\ \A u \in Tx : htlc'[u].kind # "none" <=> htlc[u].kind # "none"
  BY DEF Reorg, Inv, TypeOK, Kinds
<1> QED
  BY <1>1, <1>2, ChainStep

(* The client claims the HTLC. *)
LEMMA ClientClaimsStep == ASSUME Inv, NEW t \in Tx, ClientClaims(t) PROVE Inv'
<1>1. UNCHANGED <<row, job, operator, sweeper, lockup>> /\ Counted
  BY SameCount DEF ClientClaims, others
<1>2. /\ htlc' \in [Tx -> [kind : Kinds, ver : Version \cup {NoVersion}, at : Int]]
      /\ \A u \in Tx : htlc'[u].kind # "none" <=> htlc[u].kind # "none"
  BY DEF ClientClaims, Inv, TypeOK, Kinds, Unspent, Never
<1> QED
  BY <1>1, <1>2, ChainStep

(* A spend is mined. *)
LEMMA ConfirmStep == ASSUME Inv, NEW t \in Tx, Confirm(t) PROVE Inv'
<1>1. UNCHANGED <<row, job, operator, sweeper, lockup>> /\ Counted
  BY SameCount DEF Confirm, others
<1>2. /\ htlc' \in [Tx -> [kind : Kinds, ver : Version \cup {NoVersion}, at : Int]]
      /\ \A u \in Tx : htlc'[u].kind # "none" <=> htlc[u].kind # "none"
  BY DEF Confirm, Inv, TypeOK, Kinds
<1> QED
  BY <1>1, <1>2, ChainStep

(* Time passes. *)
LEMMA AdvanceStep == ASSUME Inv, Advance PROVE Inv'
<1>1. UNCHANGED <<row, job, operator, sweeper, lockup, htlc>> /\ Counted
  BY DEF Advance, chain, Counted, Inv, TypeOK
<1> QED
  BY <1>1, ChainStep DEF Inv, TypeOK

(* A step of the client at its lockup. *)
LEMMA LockupStep ==
  ASSUME Inv, UNCHANGED <<row, job, operator, sweeper, htlc>>, Counted,
         lockup \in {"none"} \cup Held, lockup' \in (Held \ {"leftover"}) \cup {"reclaimed"}
  PROVE  Inv'
<1>1. Grows
  BY DEF Grows, Held
<1>2. TypeOK'
  BY DEF Inv, TypeOK, Counted, Spent
<1>3. SingleFunding' /\ RowSound'
  BY DEF Inv, SingleFunding, RowSound
<1>4. SweepSound' /\ Told'
  BY DEF Inv, SweepSound, Told, Held, Spent
<1>5. AskedSound'
  BY <1>1, AskedKept DEF Inv
<1> QED
  BY <1>1, <1>2, <1>3, <1>4, <1>5, NoTick

(* The client funds, in one piece or several. *)
LEMMA ClientFundsStep == ASSUME Inv, ClientFunds PROVE Inv'
<1>1. UNCHANGED <<row, job, operator, sweeper, htlc>> /\ Counted
  BY SameCount DEF ClientFunds, chain, others
<1>2. lockup \in {"none"} \cup Held /\ lockup' \in (Held \ {"leftover"}) \cup {"reclaimed"}
  BY DEF ClientFunds, Held
<1> QED
  BY <1>1, <1>2, LockupStep

(* The client takes its lockup back. *)
LEMMA ClientReclaimsStep == ASSUME Inv, ClientReclaims PROVE Inv'
<1>1. UNCHANGED <<row, job, operator, sweeper, htlc>> /\ Counted
  BY SameCount DEF ClientReclaims, chain, others
<1>2. lockup \in {"none"} \cup Held /\ lockup' \in (Held \ {"leftover"}) \cup {"reclaimed"}
  BY DEF ClientReclaims
<1> QED
  BY <1>1, <1>2, LockupStep

----------------------------------------------------------------------------
(* Every step keeps the invariant. *)
LEMMA InvStep == Inv /\ [Next]_vars => Inv'
<1> SUFFICES ASSUME Inv, [Next]_vars PROVE Inv'
  OBVIOUS
<1>1. CASE UNCHANGED vars
  <2>1. UNCHANGED <<row, job, operator, sweeper, lockup, htlc>> /\ Counted
    BY <1>1, SameCount DEF vars
  <2> QED
    BY <2>1, ChainStep DEF Inv, TypeOK
<1>2. ASSUME NEW d \in Driver, DriverStep(d) PROVE Inv'
  BY <1>2, TickStep, WhenQuotedStep, FailQuotedStep, FundStep, WhenFundedStep, EnterFundingStep,
     RecoverFundingStep, ClaimFundLeaseStep, RefuseFundingStep, ReleaseFundLeaseStep,
     SignFundingStep, RecordFundingTxStep, PublishFundingStep, BroadcastFundingStep, ToAwaitingStep,
     WhenAwaitingClaimStep, ToRefundingStep, ToClaimingStep, FailSpentStep, WhenRefundingOnchainStep,
     RefundWitnessStep, ToRefundedStep, PushOnchainHtlcRefundStep, RefundUnaffordableStep,
     SendRefundStep, WhenClaimingStep, ClaimStep, ClaimFailsStep, ClaimEvidenceStep, MarkClaimedStep
     DEF DriverStep
<1>3. CASE SweepStep
  BY <1>3, RefundSweepStep, SweepFindStep, SweepRefundStep, SweepPatchStep DEF SweepStep
<1>4. CASE Operator
  BY <1>4, ReclaimOnchainHtlcStep, OnchainClaimNowStep, ReclaimSlotStep DEF Operator
<1>5. CASE Faults
  BY <1>5, SweepAbandonStep, RotateKeyStep, SignFundingFailsStep, AbandonStep, ReorgStep DEF Faults
<1>6. CASE Client \/ Miners \/ Advance
  BY <1>6, ClientFundsStep, ClientReclaimsStep, ClientClaimsStep, ConfirmStep, AdvanceStep
     DEF Client, Miners
<1> QED
  BY <1>1, <1>2, <1>3, <1>4, <1>5, <1>6 DEF Next

(* A row left in the middle of funding, by a release that kept no record. *)
LEMMA LegacyType ==
  ASSUME NEW r \in Row PROVE [r EXCEPT !.state = "funding_onchain", !.lease = 0] \in Row
<1>1. "funding_onchain" \in States
  BY DEF States, OnchainSendMachine
<1>2. PICK s \in States : s = "funding_onchain"
  BY <1>1
<1>3. PICK z \in Int : z = 0
  OBVIOUS
<1>4. [r EXCEPT !.state = s, !.lease = z] \in Row
  BY DEF Row
<1> QED
  BY <1>2, <1>3, <1>4

(* A quote just given satisfies it, and so does a row an earlier release left. *)
LEMMA InitInv == Init => Inv
<1> SUFFICES ASSUME Init PROVE Inv
  OBVIOUS
<1> USE OnchainAssumption
<1>1. PICK legacy \in Legacies :
        /\ row = IF legacy THEN LegacyRow ELSE NewRow
        /\ lockup = IF legacy THEN "exact" ELSE "none"
        /\ htlc = [t \in Tx |-> IF t = 0 /\ legacy THEN [Unspent EXCEPT !.kind = "out"] ELSE Unspent]
  BY DEF Init
<1>2. /\ job = [d \in Driver |-> Idle] /\ operator = [pc |-> "idle", row |-> NewRow, replace |-> FALSE]
      /\ sweeper = Rest /\ signed = 0 /\ rotated = FALSE /\ clock = 0 /\ faults = 0
  BY DEF Init
<1>3. /\ row.fundingTx = NoTx /\ row.fundingTxid = NoTx /\ ~row.preimage /\ row.outcome = "none"
      /\ row \in Row
      /\ row.state = IF legacy THEN "funding_onchain" ELSE "quoted"
  <2>1. LegacyRow \in Row
    <3>1. PICK r : r = NewRow
      OBVIOUS
    <3> QED
      BY <3>1, IdleType, LegacyType DEF LegacyRow
  <2> QED
    BY <1>1, <2>1, IdleType DEF LegacyRow, NewRow
<1>4. /\ htlc \in [Tx -> [kind : Kinds, ver : Version \cup {NoVersion}, at : Int]]
      /\ \A t \in Tx : htlc[t].kind # "none" => legacy /\ t = 0
  BY <1>1 DEF Unspent, Kinds, Never
<1>5. TypeOK
  <2>1. operator \in [pc : {"idle", "slot", "done"}, row : Row, replace : BOOLEAN]
    BY <1>2, IdleType
  <2>2. lockup \in {"none"} \cup Held \cup Spent
    BY <1>1 DEF Held
  <2>3. job \in [Driver -> Job]
    BY <1>2, IdleType
  <2>4. signed \in 0..MaxSigned /\ clock \in Nat /\ faults \in Nat
    <3>1. signed = 0 /\ clock = 0 /\ faults = 0
      BY <1>2
    <3> QED
      BY <3>1
  <2>5. rotated \in BOOLEAN
    BY <1>2
  <2> QED
    BY <1>2, <1>3, <1>4, <2>1, <2>2, <2>3, <2>4, <2>5, RestType DEF TypeOK
<1>6. SingleFunding /\ RowSound
  BY <1>3, <1>4 DEF SingleFunding, RowSound, Unpaid, Tx
<1>7. SweepSound /\ Told
  BY <1>1, <1>2, <1>3, RestType DEF SweepSound, Told
<1>8. AskedSound /\ \A d \in Driver : TickSound(job[d])
  BY <1>2, IdleSound DEF AskedSound
<1> QED
  BY <1>5, <1>6, <1>7, <1>8 DEF Inv

(* The invariant holds throughout, whatever the number of processes, crashes  *)
(* and disconnected blocks.                                                   *)
THEOREM OnchainSendInvariant == Spec => []Inv
  BY InitInv, InvStep, PTL DEF Spec

(* Every variable of the onchain send corridor keeps its type. *)
THEOREM OnchainSendTypeCorrect == Spec => []TypeOK
<1>1. Inv => TypeOK
  BY DEF Inv
<1> QED
  BY <1>1, OnchainSendInvariant, PTL

(* However many workers sign, and however long each takes between signing and *)
(* sending, one funding transaction reaches the chain, and the row names it.  *)
THEOREM OneFunding == Spec => []SingleFunding
<1>1. Inv => SingleFunding
  BY DEF Inv
<1> QED
  BY <1>1, OnchainSendInvariant, PTL

(* A swap with an HTLC out is never one whose row says nothing was paid. *)
LEMMA FundingRemembered == Inv => FundingNeverForgotten
<1> SUFFICES ASSUME Inv, NEW t \in Tx, htlc[t].kind # "none" PROVE row.state \notin Unpaid
  BY DEF FundingNeverForgotten, Unpaid
<1>1. CASE t = 0
  BY <1>1 DEF Inv, RowSound
<1>2. CASE t # 0
  BY <1>2, OnchainAssumption DEF Inv, RowSound, SingleFunding, Tx, NoTx
<1> QED
  BY <1>1, <1>2

(* No worker's funding is forgotten, whatever crashes and whoever wins. *)
THEOREM NoFundingForgotten == Spec => []FundingNeverForgotten
  BY OnchainSendInvariant, FundingRemembered, PTL
----------------------------------------------------------------------------
(* How a swap comes to be refunded, as long as no block is disconnected: a    *)
(* refund stays where it is, a tick concludes only from one it saw, and the   *)
(* row is closed only by such a tick.                                         *)
Disconnected == \E t \in Tx : Reorg(t)
RefundsStay == \A t \in Tx : htlc[t].kind = "refunded" => htlc'[t].kind = "refunded"
TickRefunds(d) ==
  job'[d].pc = "toRefunded" =>
    /\ job'[d].row = job[d].row
    /\ job[d].pc = "toRefunded" \/ htlc[job[d].row.fundingTxid].kind = "refunded"
RowRefunds ==
  row'.state = "refunded" =>
    /\ row'.fundingTxid = row.fundingTxid
    /\ \/ row.state = "refunded"
       \/ \E d \in Driver : job[d].pc = "toRefunded" /\ row.state = "refunding_onchain"

(* No step but a disconnected block takes a confirmed refund out of its block. *)
LEMMA RefundsStayStep == ASSUME Inv, [Next]_vars, ~Disconnected PROVE RefundsStay
<1>1. htlc \in [Tx -> [kind : Kinds, ver : Version \cup {NoVersion}, at : Int]]
  BY DEF Inv, TypeOK
<1>2. ASSUME NEW d \in Driver, DriverStep(d) PROVE RefundsStay
  <2>1. CASE broadcastFunding(d) \/ sendRefund(d)
    BY <1>1, <2>1 DEF broadcastFunding, sendRefund, RefundsStay
  <2>2. CASE htlc' = htlc
    BY <2>2 DEF RefundsStay
  <2> QED
    BY <1>2, <2>1, <2>2
       DEF DriverStep, chain, Tick, whenQuoted, FailQuoted, Fund, whenFunded, EnterFunding,
       recoverFunding, claimFundLease, refuseFunding, releaseFundLease, signFunding,
       recordFundingTx, publishFunding, ToAwaiting, whenAwaitingClaim, ToRefunding, ToClaiming,
       FailSpent, whenRefundingOnchain, RefundWitness, ToRefunded, pushOnchainHtlcRefund,
       RefundUnaffordable, whenClaiming, Claim, ClaimFails, ClaimEvidence, MarkClaimed
<1>3. ASSUME NEW t \in Tx, ClientClaims(t) \/ Confirm(t) PROVE RefundsStay
  BY <1>1, <1>3 DEF ClientClaims, Confirm, Unspent, RefundsStay
<1>4. CASE htlc' = htlc
  BY <1>4 DEF RefundsStay
<1> QED
  BY <1>2, <1>3, <1>4
     DEF Next, SweepStep, Operator, Faults, Client, Miners, Disconnected, vars, chain, refundSweep,
     SweepFind, SweepRefund, SweepPatch, reclaimOnchainHtlc, onchainClaimNow, SweepAbandon,
     RotateKey, ClientFunds, ClientReclaims, Advance, ReclaimSlot, signFundingFails, Abandon

(* Only a tick that saw the refund confirmed closes the row as refunded. *)
LEMMA RowRefundsStep == ASSUME Inv, [Next]_vars PROVE RowRefunds
<1>1. row \in Row
  BY DEF Inv, TypeOK
<1>2. ASSUME NEW d \in Driver, DriverStep(d) PROVE RowRefunds
  <2>1. CASE FailQuoted(d) \/ Fund(d) \/ whenFunded(d) \/ publishFunding(d) \/ ToRefunding(d) \/ FailSpent(d)
            \/ RefundUnaffordable(d) \/ ClaimFails(d) \/ ClaimEvidence(d) \/ MarkClaimed(d) \/ ToAwaiting(d) \/ ToClaiming(d)
    BY <1>1, <2>1
       DEF RowRefunds, transition, write, Won, fail, failState, Row, FailQuoted, Fund, whenFunded,
       publishFunding, ToRefunding, FailSpent, RefundUnaffordable, ClaimFails, ClaimEvidence,
       MarkClaimed, ToAwaiting, ToClaiming
  <2>2. CASE ToRefunded(d)
    BY <1>1, <2>2 DEF RowRefunds, ToRefunded, At, transition, write, Won, Row
  <2>3. CASE EnterFunding(d) \/ claimFundLease(d) \/ refuseFunding(d)
            \/ releaseFundLease(d) \/ recordFundingTx(d) \/ pushOnchainHtlcRefund(d)
    BY <1>1, <2>3
       DEF RowRefunds, transition, write, Won, fail, failState, MayRecord, Row, EnterFunding,
       claimFundLease, refuseFunding, releaseFundLease, recordFundingTx, pushOnchainHtlcRefund
  <2>4. CASE row' = row
    BY <2>4 DEF RowRefunds
  <2> QED
    BY <1>2, <2>1, <2>2, <2>3, <2>4
       DEF DriverStep, Tick, whenQuoted, recoverFunding, signFunding, broadcastFunding,
       whenAwaitingClaim, whenRefundingOnchain, RefundWitness, sendRefund, whenClaiming, Claim
<1>3. CASE SweepFind \/ SweepPatch \/ onchainClaimNow
  BY <1>1, <1>3 DEF SweepFind, SweepPatch, onchainClaimNow, transition, write, Won, Row, RowRefunds
<1>4. CASE row' = row
  BY <1>4 DEF RowRefunds
<1> QED
  BY <1>2, <1>3, <1>4
     DEF Next, SweepStep, Operator, Faults, Client, Miners, vars, others, refundSweep, SweepRefund,
     reclaimOnchainHtlc, SweepAbandon, RotateKey, ClientFunds, ClientReclaims, Advance, ReclaimSlot,
     signFundingFails, Abandon, ClientClaims, Confirm, Reorg

(* A tick is about to close the row only if the chain told it so just before. *)
LEMMA TickRefundsStep == ASSUME Inv, [Next]_vars, NEW e \in Driver PROVE TickRefunds(e)
<1>1. job \in [Driver -> Job]
  BY DEF Inv, TypeOK
<1>2. ASSUME NEW d \in Driver, DriverStep(d) PROVE TickRefunds(e)
  <2>1. CASE e # d
    BY <1>1, <1>2, <2>1
       DEF TickRefunds, Goto, Done, Then, DriverStep, Tick, whenQuoted, FailQuoted, Fund,
       whenFunded, EnterFunding, recoverFunding, claimFundLease, refuseFunding, releaseFundLease,
       signFunding, recordFundingTx, publishFunding, broadcastFunding, ToAwaiting,
       whenAwaitingClaim, ToRefunding, ToClaiming, FailSpent, whenRefundingOnchain, RefundWitness,
       ToRefunded, pushOnchainHtlcRefund, RefundUnaffordable, sendRefund, whenClaiming, Claim,
       ClaimFails, ClaimEvidence, MarkClaimed
  <2>2. CASE e = d /\ whenRefundingOnchain(d)
    BY <1>1, <2>2 DEF whenRefundingOnchain, TickRefunds, At, AtState, Goto, Done, Idle, Job, Outcome
  <2>3. CASE e = d /\ RefundWitness(d)
    <3>1. PICK pc \in {"toClaiming", "failSpent", "push"} : Goto(d, pc)
      BY <2>3 DEF RefundWitness, Witness
    <3> QED
      BY <1>1, <2>3, <3>1 DEF Goto, TickRefunds, Job
  <2>4. CASE e = d /\ (FailQuoted(d) \/ Fund(d) \/ releaseFundLease(d) \/ ToAwaiting(d) \/
                      ToRefunding(d) \/ ToClaiming(d) \/ FailSpent(d) \/ ToRefunded(d) \/
                      RefundUnaffordable(d) \/ sendRefund(d) \/ ClaimFails(d) \/ MarkClaimed(d))
    BY <1>1, <2>4
       DEF TickRefunds, Done, Idle, FailQuoted, Fund, releaseFundLease, ToAwaiting, ToRefunding,
       ToClaiming, FailSpent, ToRefunded, RefundUnaffordable, sendRefund, ClaimFails, MarkClaimed
  <2>5. CASE e = d /\ Tick(d)
    BY <1>1, <2>5 DEF Tick, TickRefunds, Idle, Job
  <2>6. CASE e = d /\ whenQuoted(d)
    BY <1>1, <2>6 DEF whenQuoted, TickRefunds, Idle, Job
  <2>7. CASE e = d /\ whenFunded(d)
    BY <1>1, <2>7 DEF whenFunded, TickRefunds, Goto, Done, Idle, Job
  <2>8. CASE e = d /\ EnterFunding(d)
    BY <1>1, <2>8 DEF EnterFunding, TickRefunds, Idle, Job
  <2>9. CASE e = d /\ recoverFunding(d)
    BY <1>1, <2>9 DEF recoverFunding, TickRefunds, Job
  <2>10. CASE e = d /\ claimFundLease(d)
    BY <1>1, <2>10 DEF claimFundLease, TickRefunds, Then, Idle, Job
  <2>11. CASE e = d /\ refuseFunding(d)
    BY <1>1, <2>11 DEF refuseFunding, TickRefunds, Done, Then, Idle, Job
  <2>12. CASE e = d /\ signFunding(d)
    BY <1>1, <2>12 DEF signFunding, TickRefunds, Job
  <2>13. CASE e = d /\ recordFundingTx(d)
    BY <1>1, <2>13 DEF recordFundingTx, TickRefunds, Then, Idle, Job
  <2>14. CASE e = d /\ publishFunding(d)
    BY <1>1, <2>14 DEF publishFunding, TickRefunds, Goto, Done, Idle, Job
  <2>15. CASE e = d /\ broadcastFunding(d)
    BY <1>1, <2>15 DEF broadcastFunding, TickRefunds, Goto, Job
  <2>16. CASE e = d /\ whenAwaitingClaim(d)
    BY <1>1, <2>16 DEF whenAwaitingClaim, TickRefunds, Idle, Job
  <2>17. CASE e = d /\ pushOnchainHtlcRefund(d)
    BY <1>1, <2>17 DEF pushOnchainHtlcRefund, TickRefunds, Job
  <2>18. CASE e = d /\ whenClaiming(d)
    BY <1>1, <2>18 DEF whenClaiming, TickRefunds, Goto, Job
  <2>19. CASE e = d /\ Claim(d)
    BY <1>1, <2>19 DEF Claim, TickRefunds, Goto, Job
  <2>20. CASE e = d /\ ClaimEvidence(d)
    BY <1>1, <2>20 DEF ClaimEvidence, TickRefunds, Goto, Done, Idle, Job
  <2> QED
    BY <1>2, <2>1, <2>2, <2>3, <2>4, <2>5, <2>6, <2>7, <2>8, <2>9, <2>10, <2>11, <2>12, <2>13,
       <2>14, <2>15, <2>16, <2>17, <2>18, <2>19, <2>20
       DEF DriverStep
<1>3. ASSUME NEW d \in Driver, ReclaimSlot(d) \/ signFundingFails(d) \/ Abandon(d) PROVE TickRefunds(e)
  <2>1. CASE ReclaimSlot(d)
    BY <1>1, <2>1 DEF ReclaimSlot, TickRefunds, Idle
  <2>2. CASE signFundingFails(d)
    BY <1>1, <2>2 DEF signFundingFails, TickRefunds, Goto, Job
  <2>3. CASE Abandon(d)
    BY <1>1, <2>3 DEF Abandon, TickRefunds, Done, Idle
  <2> QED
    BY <1>3, <2>1, <2>2, <2>3
<1>4. CASE RotateKey
  BY <1>4 DEF RotateKey, TickRefunds, Idle
<1>5. CASE job' = job
  BY <1>5 DEF TickRefunds
<1> QED
  BY <1>2, <1>3, <1>4, <1>5
     DEF Next, SweepStep, Operator, Faults, Client, Miners, vars, refundSweep, SweepFind,
     SweepRefund, SweepPatch, reclaimOnchainHtlc, onchainClaimNow, SweepAbandon, ClientFunds,
     ClientReclaims, Advance, ClientClaims, Confirm, Reorg

(* As long as no block is disconnected, a refund that was seen confirmed is. *)
Confirmed ==
  /\ row.state = "refunded" => htlc[row.fundingTxid].kind = "refunded"
  /\ \A d \in Driver : job[d].pc = "toRefunded" => htlc[job[d].row.fundingTxid].kind = "refunded"

(* So what a row or a tick relies on stays true until a block is disconnected. *)
LEMMA ConfirmedStep == ASSUME Inv, Inv', Confirmed, [Next]_vars, ~Disconnected PROVE Confirmed'
<1>1. RefundsStay /\ RowRefunds /\ \A d \in Driver : TickRefunds(d)
  BY RefundsStayStep, RowRefundsStep, TickRefundsStep
<1>2. ASSUME row'.state = "refunded" PROVE htlc'[row'.fundingTxid].kind = "refunded"
  <2>1. row'.fundingTxid \in Tx /\ row'.fundingTxid = row.fundingTxid
    BY <1>1, <1>2 DEF Inv, RowSound, RowRefunds
  <2>2. htlc[row.fundingTxid].kind = "refunded"
    <3>1. CASE row.state = "refunded"
      BY <3>1 DEF Confirmed
    <3>2. CASE row.state # "refunded"
      <4>1. PICK d \in Driver : job[d].pc = "toRefunded"
        BY <1>1, <1>2, <3>2 DEF RowRefunds
      <4>2. job[d].row.fundingTxid = row.fundingTxid
        BY <4>1 DEF Inv, TickSound, StillTrue, StepSound
      <4> QED
        BY <4>1, <4>2 DEF Confirmed
    <3> QED
      BY <3>1, <3>2
  <2> QED
    BY <1>1, <2>1, <2>2 DEF RefundsStay
<1>3. ASSUME NEW d \in Driver, job'[d].pc = "toRefunded" PROVE htlc'[job'[d].row.fundingTxid].kind = "refunded"
  <2>1. job'[d].row.fundingTxid \in Tx
    BY <1>3 DEF Inv, TickSound, StillTrue, StepSound, RowSound
  <2> QED
    BY <1>1, <1>3, <2>1 DEF TickRefunds, RefundsStay, Confirmed
<1> QED
  BY <1>2, <1>3 DEF Confirmed

(* A refunded or refused row, and the one HTLC it can have. *)
LEMMA ClosedUnpaid ==
  ASSUME Inv, row.state = "refused" \/ (row.state = "refunded" /\ htlc[row.fundingTxid].kind = "refunded")
  PROVE  \A t \in Tx : htlc[t].kind \in {"none", "refunded"}
<1> SUFFICES ASSUME NEW t \in Tx, htlc[t].kind # "none" PROVE htlc[t].kind = "refunded"
  OBVIOUS
<1>1. row.state = "refunded"
  <2>1. CASE t = 0
    BY <2>1 DEF Inv, RowSound, Unpaid
  <2>2. CASE t # 0
    BY <2>2, OnchainAssumption DEF Inv, RowSound, SingleFunding, Tx, NoTx, Unpaid
  <2> QED
    BY <2>1, <2>2
<1>2. row.fundingTxid \in Tx /\ htlc[row.fundingTxid].kind # "none"
  BY <1>1 DEF Inv, RowSound
<1>3. t = row.fundingTxid
  BY <1>2, OnchainAssumption DEF Inv, RowSound, SingleFunding, Tx, NoTx
<1> QED
  BY <1>1, <1>3

(* With any number of processes, crashes, lost answers and operators: as long *)
(* as no block is disconnected, a funding is never forgotten and a lockup is  *)
(* never returned over one.                                                   *)
THEOREM FundingKept == Spec /\ [][~Disconnected]_vars => []FundingIsKept
<1>1. Init => Inv /\ Confirmed
  BY InitInv DEF Init, Confirmed, NewRow, LegacyRow, Idle
<1>2. Inv /\ Confirmed /\ [Next]_vars /\ [~Disconnected]_vars => (Inv /\ Confirmed)'
  <2> SUFFICES ASSUME Inv, Confirmed, [Next]_vars, [~Disconnected]_vars PROVE Inv' /\ Confirmed'
    OBVIOUS
  <2>1. Inv'
    BY InvStep
  <2>2. CASE UNCHANGED vars
    <3>1. row' = row /\ htlc' = htlc /\ job' = job
      BY <2>2 DEF vars
    <3> QED
      BY <2>1, <3>1 DEF Confirmed
  <2>3. CASE ~Disconnected
    BY <2>1, <2>3, ConfirmedStep
  <2> QED
    BY <2>1, <2>2, <2>3
<1>3. Inv /\ Confirmed => FundingIsKept
  <2> SUFFICES ASSUME Inv, Confirmed PROVE FundingNeverForgotten /\ NeverPaidAndRefunded
    BY DEF FundingIsKept
  <2> QED
    BY FundingRemembered, ClosedUnpaid DEF Inv, SweepSound, Confirmed, NeverPaidAndRefunded
<1> QED
  BY <1>1, <1>2, <1>3, PTL DEF Spec

----------------------------------------------------------------------------
(* How the one HTLC of a swap changes, whoever moves. *)
HtlcMove(t) ==
  \/ htlc'[t] = htlc[t]
  \/ /\ htlc[t].kind = "none" /\ htlc'[t].kind = "out"
     /\ htlc'[t].at = htlc[t].at
  \/ /\ \E d \in Driver : sendRefund(d) /\ t = job[d].row.fundingTxid /\ htlc'[t].ver = job[d].ver
     /\ htlc[t].kind \in {"out", "claiming", "refunding"} /\ htlc'[t].kind = "refunding"
     /\ htlc'[t].at = htlc[t].at
  \/ /\ htlc[t].kind \in {"out", "refunding"} /\ htlc'[t].kind = "claiming"
     /\ htlc'[t].at = Never
  \/ /\ htlc[t].kind = "claiming" /\ htlc'[t].kind = "claimed"
     /\ htlc'[t].at = htlc[t].at
  \/ /\ htlc[t].kind = "refunding" /\ htlc'[t].kind = "refunded"
     /\ htlc'[t].ver = htlc[t].ver /\ htlc'[t].at = IF htlc[t].at = Never THEN clock ELSE htlc[t].at
  \/ /\ htlc[t].kind = "refunded" /\ htlc'[t].kind = "refunding" /\ ~Elapsed(htlc[t].at, ReleaseDelay)
     /\ htlc'[t].ver = htlc[t].ver /\ htlc'[t].at = htlc[t].at

(* Every step moves each HTLC in one of these ways. *)
LEMMA HtlcMoves == ASSUME Inv, [Next]_vars, NEW t \in Tx PROVE HtlcMove(t)
<1>1. htlc \in [Tx -> [kind : Kinds, ver : Version \cup {NoVersion}, at : Int]]
  BY DEF Inv, TypeOK
<1>2. ASSUME NEW d \in Driver, DriverStep(d) PROVE HtlcMove(t)
  <2>1. CASE broadcastFunding(d)
    BY <1>1, <2>1 DEF broadcastFunding, HtlcMove
  <2>2. CASE sendRefund(d)
    <3>1. CASE htlc' = htlc
      BY <3>1 DEF HtlcMove
    <3>2. CASE htlc' # htlc
      <4>1. /\ htlc' = [htlc EXCEPT ![job[d].row.fundingTxid].kind = "refunding",
                                     ![job[d].row.fundingTxid].ver = job[d].ver]
            /\ htlc[job[d].row.fundingTxid].kind \in {"out", "claiming", "refunding"}
        BY <2>2, <3>2 DEF sendRefund
      <4>2. CASE t = job[d].row.fundingTxid
        BY <1>1, <2>2, <4>1, <4>2 DEF HtlcMove
      <4>3. CASE t # job[d].row.fundingTxid
        BY <1>1, <4>1, <4>3 DEF HtlcMove
      <4> QED
        BY <4>2, <4>3
    <3> QED
      BY <3>1, <3>2
  <2>3. CASE htlc' = htlc
    BY <2>3 DEF HtlcMove
  <2> QED
    BY <1>2, <2>1, <2>2, <2>3
       DEF DriverStep, chain, Tick, whenQuoted, FailQuoted, Fund, whenFunded, EnterFunding,
       recoverFunding, claimFundLease, refuseFunding, releaseFundLease, signFunding,
       recordFundingTx, publishFunding, ToAwaiting, whenAwaitingClaim, ToRefunding, ToClaiming,
       FailSpent, whenRefundingOnchain, RefundWitness, ToRefunded, pushOnchainHtlcRefund,
       RefundUnaffordable, whenClaiming, Claim, ClaimFails, ClaimEvidence, MarkClaimed
<1>3. ASSUME NEW u \in Tx, ClientClaims(u) PROVE HtlcMove(t)
  BY <1>1, <1>3 DEF ClientClaims, Unspent, HtlcMove
<1>4. ASSUME NEW u \in Tx, Confirm(u) PROVE HtlcMove(t)
  BY <1>1, <1>4 DEF Confirm, HtlcMove
<1>5. ASSUME NEW u \in Tx, Reorg(u) PROVE HtlcMove(t)
  BY <1>1, <1>5 DEF Reorg, HtlcMove
<1>6. CASE htlc' = htlc
  BY <1>6 DEF HtlcMove
<1> QED
  BY <1>2, <1>3, <1>4, <1>5, <1>6
     DEF Next, SweepStep, Operator, Faults, Client, Miners, vars, chain, refundSweep, SweepFind,
     SweepRefund, SweepPatch, reclaimOnchainHtlc, onchainClaimNow, SweepAbandon, RotateKey,
     ClientFunds, ClientReclaims, Advance, ReclaimSlot, signFundingFails, Abandon

(* Time passes only when nothing else happens, and not past a disconnected    *)
(* refund.                                                                    *)
LEMMA ClockMoves == ASSUME [Next]_vars PROVE clock' = clock \/ Advance
BY
   DEF Next, SweepStep, DriverStep, Operator, Faults, Client, Miners, vars, others, Tick,
   whenQuoted, FailQuoted, Fund, whenFunded, EnterFunding, recoverFunding, claimFundLease,
   refuseFunding, releaseFundLease, signFunding, recordFundingTx, publishFunding, broadcastFunding,
   ToAwaiting, whenAwaitingClaim, ToRefunding, ToClaiming, FailSpent, whenRefundingOnchain,
   RefundWitness, ToRefunded, pushOnchainHtlcRefund, RefundUnaffordable, sendRefund, whenClaiming,
   Claim, ClaimFails, ClaimEvidence, MarkClaimed, refundSweep, SweepFind, SweepRefund, SweepPatch,
   reclaimOnchainHtlc, onchainClaimNow, SweepAbandon, RotateKey, ClientFunds, ClientReclaims,
   ReclaimSlot, signFundingFails, Abandon, ClientClaims, Confirm, Reorg

----------------------------------------------------------------------------
(* What a step does to the names of the refunds the row keeps. *)
LEMMA RowNames ==
  ASSUME Inv, [Next]_vars
  PROVE  row'.refunds = row.refunds \/ \E d \in Driver : pushOnchainHtlcRefund(d)
<1>1. row \in Row
  BY DEF Inv, TypeOK
<1>2. ASSUME NEW d \in Driver, DriverStep(d), ~pushOnchainHtlcRefund(d) PROVE row'.refunds = row.refunds
  <2>1. CASE FailQuoted(d) \/ Fund(d) \/ whenFunded(d) \/ publishFunding(d) \/ ToRefunding(d) \/
            FailSpent(d) \/ RefundUnaffordable(d) \/ ClaimFails(d) \/ ClaimEvidence(d) \/
            MarkClaimed(d) \/ ToAwaiting(d) \/ ToClaiming(d) \/ ToRefunded(d)
    BY <1>1, <2>1
       DEF transition, write, Won, fail, failState, Row, FailQuoted, Fund, whenFunded,
       publishFunding, ToRefunding, FailSpent, RefundUnaffordable, ClaimFails, ClaimEvidence,
       MarkClaimed, ToAwaiting, ToClaiming, ToRefunded
  <2>2. CASE EnterFunding(d) \/ claimFundLease(d) \/ refuseFunding(d) \/ releaseFundLease(d) \/
            recordFundingTx(d)
    BY <1>1, <2>2
       DEF transition, write, Won, fail, failState, MayRecord, Row, EnterFunding, claimFundLease,
       refuseFunding, releaseFundLease, recordFundingTx
  <2>3. CASE row' = row
    BY <2>3
  <2> QED
    BY <1>2, <2>1, <2>2, <2>3
       DEF DriverStep, Tick, whenQuoted, recoverFunding, signFunding, broadcastFunding,
       whenAwaitingClaim, whenRefundingOnchain, RefundWitness, sendRefund, whenClaiming, Claim
<1>3. CASE SweepFind \/ SweepPatch \/ onchainClaimNow
  BY <1>1, <1>3 DEF SweepFind, SweepPatch, onchainClaimNow, transition, write, Won, Row
<1>4. CASE row' = row
  BY <1>4
<1> QED
  BY <1>2, <1>3, <1>4
     DEF Next, SweepStep, Operator, Faults, Client, Miners, vars, others, refundSweep, SweepRefund,
     reclaimOnchainHtlc, SweepAbandon, RotateKey, ClientFunds, ClientReclaims, Advance, ReclaimSlot,
     signFundingFails, Abandon, ClientClaims, Confirm, Reorg

(* Where a tick has its row from. *)
TickReads(e) ==
  \/ job'[e].pc = "idle"
  \/ job'[e] = job[e]
  \/ /\ job[e].pc \notin {"idle", "sendRefund"} /\ job'[e].pc # "sendRefund"
     /\ job'[e].row = job[e].row
  \/ job'[e].row = row' /\ job'[e].pc # "sendRefund"
  \/ pushOnchainHtlcRefund(e)

(* Every tick's row is the one it started with, or the one it wrote itself. *)
LEMMA TicksRead == ASSUME Inv, [Next]_vars, operator.pc = "idle", NEW e \in Driver PROVE TickReads(e)
<1>1. job \in [Driver -> Job]
  BY DEF Inv, TypeOK
<1>2. ASSUME NEW d \in Driver, DriverStep(d) PROVE TickReads(e)
  <2>1. CASE e # d
    BY <1>1, <1>2, <2>1
       DEF TickReads, Goto, Done, Then, DriverStep, Tick, whenQuoted, FailQuoted, Fund, whenFunded,
       EnterFunding, recoverFunding, claimFundLease, refuseFunding, releaseFundLease, signFunding,
       recordFundingTx, publishFunding, broadcastFunding, ToAwaiting, whenAwaitingClaim,
       ToRefunding, ToClaiming, FailSpent, whenRefundingOnchain, RefundWitness, ToRefunded,
       pushOnchainHtlcRefund, RefundUnaffordable, sendRefund, whenClaiming, Claim, ClaimFails,
       ClaimEvidence, MarkClaimed
  <2>2. CASE e = d /\ RefundWitness(d)
    <3>1. PICK pc \in {"toClaiming", "failSpent", "push"} : Goto(d, pc)
      BY <2>2 DEF RefundWitness, Witness
    <3> QED
      BY <1>1, <2>2, <3>1 DEF RefundWitness, At, Goto, TickReads, Job
  <2>3. CASE e = d /\ (FailQuoted(d) \/ Fund(d) \/ releaseFundLease(d) \/ ToAwaiting(d) \/
                      ToRefunding(d) \/ ToClaiming(d) \/ FailSpent(d) \/ ToRefunded(d) \/
                      RefundUnaffordable(d) \/ sendRefund(d) \/ ClaimFails(d) \/ MarkClaimed(d))
    BY <1>1, <2>3
       DEF TickReads, Done, Idle, FailQuoted, Fund, releaseFundLease, ToAwaiting, ToRefunding,
       ToClaiming, FailSpent, ToRefunded, RefundUnaffordable, sendRefund, ClaimFails, MarkClaimed
  <2>4. CASE e = d /\ Tick(d)
    BY <1>1, <2>4 DEF Tick, TickReads, At, Idle, Job
  <2>5. CASE e = d /\ whenQuoted(d)
    BY <1>1, <2>5 DEF whenQuoted, TickReads, At, AtState, Idle, Job
  <2>6. CASE e = d /\ whenFunded(d)
    BY <1>1, <2>6 DEF whenFunded, TickReads, At, AtState, Goto, Done, Idle, Job
  <2>7. CASE e = d /\ EnterFunding(d)
    BY <1>1, <2>7 DEF EnterFunding, TickReads, At, Idle, Job
  <2>8. CASE e = d /\ recoverFunding(d)
    BY <1>1, <2>8 DEF recoverFunding, TickReads, At, AtState, Job
  <2>9. CASE e = d /\ claimFundLease(d)
    BY <1>1, <2>9 DEF claimFundLease, TickReads, At, Then, Idle, Job
  <2>10. CASE e = d /\ refuseFunding(d)
    BY <1>1, <2>10 DEF refuseFunding, TickReads, At, Done, Then, Idle, Job
  <2>11. CASE e = d /\ signFunding(d)
    BY <1>1, <2>11 DEF signFunding, TickReads, At, Job
  <2>12. CASE e = d /\ recordFundingTx(d)
    BY <1>1, <2>12 DEF recordFundingTx, TickReads, At, Then, Idle, Job
  <2>13. CASE e = d /\ publishFunding(d)
    BY <1>1, <2>13 DEF publishFunding, TickReads, At, Goto, Done, Idle, Job
  <2>14. CASE e = d /\ broadcastFunding(d)
    BY <1>1, <2>14 DEF broadcastFunding, TickReads, At, Goto, Job
  <2>15. CASE e = d /\ whenAwaitingClaim(d)
    BY <1>1, <2>15 DEF whenAwaitingClaim, TickReads, At, AtState, Idle, Job
  <2>16. CASE e = d /\ whenRefundingOnchain(d)
    BY <1>1, <2>16 DEF whenRefundingOnchain, TickReads, At, AtState, Goto, Done, Idle, Job
  <2>17. CASE e = d /\ whenClaiming(d)
    BY <1>1, <2>17 DEF whenClaiming, TickReads, At, AtState, Goto, Job
  <2>18. CASE e = d /\ Claim(d)
    BY <1>1, <2>18 DEF Claim, TickReads, At, Goto, Job
  <2>19. CASE e = d /\ ClaimEvidence(d)
    BY <1>1, <2>19 DEF ClaimEvidence, TickReads, At, Goto, Done, Idle, Job
  <2> QED
    BY <1>2, <2>1, <2>2, <2>3, <2>4, <2>5, <2>6, <2>7, <2>8, <2>9, <2>10, <2>11, <2>12, <2>13,
       <2>14, <2>15, <2>16, <2>17, <2>18, <2>19 DEF DriverStep, TickReads
<1>3. ASSUME NEW d \in Driver, signFundingFails(d) \/ Abandon(d) PROVE TickReads(e)
  <2>1. CASE signFundingFails(d)
    BY <1>1, <2>1 DEF signFundingFails, At, TickReads, Goto, Job
  <2>2. CASE Abandon(d)
    BY <1>1, <2>2 DEF Abandon, TickReads, Done, Idle
  <2> QED
    BY <1>3, <2>1, <2>2
<1>4. CASE RotateKey
  BY <1>4 DEF RotateKey, TickReads, Idle
<1>5. CASE job' = job
  BY <1>5 DEF TickReads
<1> QED
  BY <1>2, <1>3, <1>4, <1>5
     DEF Next, SweepStep, Operator, Faults, Client, Miners, vars, ReclaimSlot, refundSweep,
     SweepFind, SweepRefund, SweepPatch, reclaimOnchainHtlc, onchainClaimNow, SweepAbandon,
     ClientFunds, ClientReclaims, Advance, ClientClaims, Confirm, Reorg

----------------------------------------------------------------------------
(* One process that ticks, and nobody reclaims by hand. *)
Solo == (\E d : Driver = {d}) /\ MaxReclaims = 0

(* With one tick at a time, the row names every refund that was signed. *)
Named ==
  /\ RefundsAreNamed
  /\ \A d \in Driver :
       /\ job[d].pc \notin {"idle", "sendRefund"} => job[d].row.refunds = row.refunds
       /\ job[d].pc = "sendRefund" => job[d].ver \in row.refunds

(* A refund once in a block is back there before ReleaseDelay is over, unless *)
(* the client's claim took its place.                                         *)
Mined(h) == h.kind \in {"claiming", "claimed"} \/ h.at # Never
InBlock(h) ==
  /\ h.at # Never => h.at \in 0..clock /\ h.kind \in {"refunding", "refunded"}
  /\ h.kind = "refunded" => h.at # Never
  /\ h.kind = "refunding" /\ h.at # Never => ~Elapsed(h.at, ReleaseDelay)
Blocks == \A t \in Tx : InBlock(htlc[t])
Concluding == \A d \in Driver : job[d].pc = "toRefunded" => Mined(htlc[job[d].row.fundingTxid])

(* What a refunded row relies on, and what the sweep has made sure of. *)
Closed ==
  row.state = "refunded" =>
    /\ \A d \in Driver : job[d].pc = "idle"
    /\ Mined(htlc[row.fundingTxid]) /\ htlc[row.fundingTxid].at <= row.updated
    /\ sweeper.pc # "idle" \/ lockup \in {"refunded", "leftover"} =>
         htlc[row.fundingTxid].kind = "refunded" /\ Elapsed(htlc[row.fundingTxid].at, ReleaseDelay)

SoloInv == Inv /\ operator.pc = "idle" /\ Named /\ Blocks /\ Concluding /\ Closed

(* Without reclaims by hand, the operator's slot stays empty. *)
LEMMA OperatorRests == ASSUME Solo, operator.pc = "idle", [Next]_vars PROVE operator'.pc = "idle"
<1>1. ~reclaimOnchainHtlc /\ \A d \in Driver : ~ReclaimSlot(d)
  BY DEF Solo, reclaimOnchainHtlc, ReclaimSlot
<1>2. ASSUME NEW d \in Driver, DriverStep(d) PROVE operator' = operator
  BY <1>2
     DEF DriverStep, others, Tick, whenQuoted, FailQuoted, Fund, whenFunded, EnterFunding,
     recoverFunding, claimFundLease, refuseFunding, releaseFundLease, signFunding, recordFundingTx,
     publishFunding, broadcastFunding, ToAwaiting, whenAwaitingClaim, ToRefunding, ToClaiming,
     FailSpent, whenRefundingOnchain, RefundWitness, ToRefunded, pushOnchainHtlcRefund,
     RefundUnaffordable, sendRefund, whenClaiming, Claim, ClaimFails, ClaimEvidence, MarkClaimed
<1>3. operator' = operator
  BY <1>1, <1>2
     DEF Next, SweepStep, Operator, Faults, Client, Miners, vars, others, refundSweep, SweepFind,
     SweepRefund, SweepPatch, onchainClaimNow, SweepAbandon, RotateKey, ClientFunds, ClientReclaims,
     Advance, signFundingFails, Abandon, ClientClaims, Confirm, Reorg
<1> QED
  BY <1>3

(* The row never loses the name of a refund, and every refund sent has one. *)
LEMMA NamedStep == ASSUME Solo, Inv, Named, operator.pc = "idle", [Next]_vars PROVE Named'
<1>1. PICK d : Driver = {d}
  BY DEF Solo
<1>2. job \in [Driver -> Job] /\ row \in Row /\ htlc \in [Tx -> [kind : Kinds, ver : Version \cup {NoVersion}, at : Int]]
  BY DEF Inv, TypeOK
<1>3. CASE pushOnchainHtlcRefund(d)
  <2>1. PICK v \in Version :
          /\ row' = [[row EXCEPT !.refunds = job[d].row.refunds \cup {v}] EXCEPT !.updated = clock]
          /\ job' = [job EXCEPT ![d].pc = "sendRefund", ![d].ver = v]
    BY <1>3 DEF pushOnchainHtlcRefund, write
  <2>2. job[d].row.refunds = row.refunds
    BY <1>1, <1>3 DEF pushOnchainHtlcRefund, At, Named
  <2>3. row'.refunds = row.refunds \cup {v}
    BY <1>2, <2>1, <2>2 DEF Row
  <2>4. job'[d].pc = "sendRefund" /\ job'[d].ver = v
    BY <1>1, <1>2, <2>1 DEF Job
  <2>5. htlc' = htlc
    BY <1>3 DEF pushOnchainHtlcRefund, chain
  <2> QED
    BY <1>1, <2>3, <2>4, <2>5 DEF Named, RefundsAreNamed
<1>4. CASE ~pushOnchainHtlcRefund(d)
  <2>1. row'.refunds = row.refunds
    BY <1>1, <1>4, RowNames
  <2>2. RefundsAreNamed'
    <3> SUFFICES ASSUME NEW t \in Tx, htlc'[t].kind \in {"refunding", "refunded"}
                 PROVE  htlc'[t].ver \in row.refunds
      BY <2>1 DEF RefundsAreNamed
    <3>1. CASE sendRefund(d) /\ htlc'[t].ver = job[d].ver
      BY <1>1, <3>1 DEF sendRefund, At, Named
    <3>2. CASE htlc[t].kind \in {"refunding", "refunded"} /\ htlc'[t].ver = htlc[t].ver
      BY <3>2 DEF Named, RefundsAreNamed
    <3> QED
      BY <1>1, <3>1, <3>2, HtlcMoves DEF HtlcMove
  <2>3. TickReads(d)
    BY <1>1, TicksRead
  <2> QED
    BY <1>1, <1>4, <2>1, <2>2, <2>3 DEF TickReads, Named
<1> QED
  BY <1>3, <1>4

(* A disconnected refund is followed, for any number of processes. *)
LEMMA BlocksStep == ASSUME Inv, Blocks, [Next]_vars PROVE Blocks'
<1> SUFFICES ASSUME NEW t \in Tx PROVE InBlock(htlc[t])'
  BY DEF Blocks
<1>1. /\ HtlcMove(t) /\ InBlock(htlc[t])
      /\ clock \in Nat /\ htlc[t].at \in Int
      /\ {ReleaseDelay, MaxTime} \subseteq Nat
  BY HtlcMoves, OnchainAssumption DEF Blocks, Inv, TypeOK
<1>2. CASE clock' = clock
  <2>1. CASE htlc'[t] = htlc[t]
    BY <1>1, <1>2, <2>1 DEF InBlock, Elapsed
  <2>2. CASE htlc'[t] # htlc[t]
    BY <1>1, <1>2, <2>2 DEF InBlock, HtlcMove, Elapsed, Never
  <2> QED
    BY <2>1, <2>2
<1>3. CASE Advance
  BY <1>1, <1>3 DEF InBlock, Advance, Elapsed, chain
<1> QED
  BY <1>2, <1>3, ClockMoves

(* A refund once in a block stays mined or gives way to the client's claim,   *)
(* while no tick sends another over it.                                       *)
LEMMA MinedStays ==
  ASSUME Inv, Blocks, [Next]_vars, NEW t \in Tx, Mined(htlc[t]), \A d \in Driver : ~sendRefund(d)
  PROVE  Mined(htlc[t])'
<1>1. HtlcMove(t) /\ InBlock(htlc[t]) /\ clock \in Nat /\ htlc[t].at \in Int
  BY HtlcMoves DEF Blocks, Inv, TypeOK
<1> QED
  BY <1>1 DEF HtlcMove, InBlock, Mined, Never

(* A tick about to close the row has a mined refund or the client's claim before it. *)
LEMMA ConcludingStep ==
  ASSUME Solo, Inv, Inv', Blocks, Concluding, [Next]_vars PROVE Concluding'
<1>1. PICK d : Driver = {d}
  BY DEF Solo
<1> SUFFICES ASSUME job'[d].pc = "toRefunded" PROVE Mined(htlc'[job'[d].row.fundingTxid])
  BY <1>1 DEF Concluding, Mined
<1> DEFINE t == job[d].row.fundingTxid
<1>2. TickRefunds(d) /\ job \in [Driver -> Job]
  BY <1>1, TickRefundsStep DEF Inv, TypeOK
<1>3. t = job'[d].row.fundingTxid /\ t \in Tx
  BY <1>1, <1>2 DEF TickRefunds, Inv, TickSound, StillTrue, StepSound, RowSound
<1>4. Mined(htlc[t])
  BY <1>1, <1>2, <1>3 DEF TickRefunds, Concluding, Blocks, InBlock, Mined
<1>5. ~sendRefund(d)
  BY <1>1, <1>2 DEF sendRefund, Done, Idle
<1>6. Mined(htlc[t])'
  BY <1>1, <1>3, <1>4, <1>5, MinedStays
<1> QED
  BY <1>3, <1>6 DEF Mined

(* Nothing drives a refunded row. *)
LEMMA RefundedRests ==
  ASSUME Inv, row.state = "refunded", NEW d \in Driver, job[d].pc = "idle" PROVE ~DriverStep(d)
BY
   DEF DriverStep, At, AtState, Live, Tick, whenQuoted, FailQuoted, Fund, whenFunded, EnterFunding,
   recoverFunding, claimFundLease, refuseFunding, releaseFundLease, signFunding, recordFundingTx,
   publishFunding, broadcastFunding, ToAwaiting, whenAwaitingClaim, ToRefunding, ToClaiming,
   FailSpent, whenRefundingOnchain, RefundWitness, ToRefunded, pushOnchainHtlcRefund,
   RefundUnaffordable, sendRefund, whenClaiming, Claim, ClaimFails, ClaimEvidence, MarkClaimed

(* A row becomes refunded by a tick that saw the refund in a block, and then  *)
(* nothing moves but the sweep, the client and the chain.                     *)
LEMMA ClosedStep ==
  ASSUME Solo, SoloInv, Inv', Blocks', [Next]_vars, operator'.pc = "idle" PROVE Closed'
<1> SUFFICES ASSUME row'.state = "refunded"
             PROVE  /\ \A d \in Driver : job'[d].pc = "idle"
                    /\ Mined(htlc'[row'.fundingTxid]) /\ htlc'[row'.fundingTxid].at <= row'.updated
                    /\ sweeper'.pc # "idle" \/ lockup' \in {"refunded", "leftover"} =>
                         /\ htlc'[row'.fundingTxid].kind = "refunded"
                         /\ Elapsed(htlc[row.fundingTxid].at, ReleaseDelay)'
  BY DEF Closed, Mined
<1>1. PICK d : Driver = {d}
  BY DEF Solo
<1>2. PICK t \in Tx : t = row.fundingTxid /\ t = row'.fundingTxid
  BY RowRefundsStep DEF RowRefunds, SoloInv, Inv, RowSound
<1>3. /\ clock \in Nat /\ htlc[t].at \in Int /\ row.updated \in Int /\ row \in Row
      /\ {ReleaseDelay, MaxTime} \subseteq Nat /\ job \in [Driver -> Job] /\ InBlock(htlc[t])
  BY OnchainAssumption DEF SoloInv, Inv, TypeOK, Row, Blocks
<1>4. CASE row.state # "refunded"
  <2>1. job[d].pc = "toRefunded" /\ row.state = "refunding_onchain"
    BY <1>1, <1>4, RowRefundsStep DEF RowRefunds, SoloInv
  <2>2. sweeper.pc = "idle" /\ lockup \notin {"refunded", "leftover"}
    BY <2>1 DEF SoloInv, Inv, SweepSound
  <2>3. DriverStep(d)
    <3>1. row' # row
      BY <1>4
    <3> QED
      BY <1>1, <2>1, <2>2, <3>1
         DEF Next, SweepStep, Operator, Faults, Client, Miners, vars, others, refundSweep,
         SweepFind, SweepRefund, SweepPatch, reclaimOnchainHtlc, onchainClaimNow, SweepAbandon,
         RotateKey, ClientFunds, ClientReclaims, Advance, ReclaimSlot, signFundingFails, Abandon,
         ClientClaims, Confirm, Reorg
  <2>4. ToRefunded(d)
    BY <2>1, <2>3
       DEF DriverStep, At, AtState, Tick, whenQuoted, FailQuoted, Fund, whenFunded, EnterFunding,
       recoverFunding, claimFundLease, refuseFunding, releaseFundLease, signFunding,
       recordFundingTx, publishFunding, broadcastFunding, ToAwaiting, whenAwaitingClaim,
       ToRefunding, ToClaiming, FailSpent, whenRefundingOnchain, RefundWitness,
       pushOnchainHtlcRefund, RefundUnaffordable, sendRefund, whenClaiming, Claim, ClaimFails,
       ClaimEvidence, MarkClaimed
  <2>5. /\ row' = [[row EXCEPT !.state = "refunded"] EXCEPT !.updated = clock]
        /\ job' = [job EXCEPT ![d] = Idle] /\ htlc' = htlc /\ sweeper' = sweeper /\ lockup' = lockup
    BY <2>1, <2>4 DEF ToRefunded, transition, Won, write, Done, chain, others
  <2>6. row'.updated = clock
    BY <1>3, <2>5 DEF Row
  <2>7. job'[d].pc = "idle"
    BY <1>1, <1>3, <2>5 DEF Idle
  <2>8. job[d].row.fundingTxid = t
    BY <1>1, <1>2, <2>1 DEF SoloInv, Inv, TickSound, StillTrue, StepSound
  <2>9. Mined(htlc[t])
    BY <1>1, <2>1, <2>8 DEF SoloInv, Concluding
  <2>10. htlc[t].at <= clock
    BY <1>3 DEF InBlock, Never
  <2> QED
    BY <1>1, <1>2, <2>2, <2>5, <2>6, <2>7, <2>9, <2>10
<1>5. CASE row.state = "refunded"
  <2>1. job[d].pc = "idle" /\ Mined(htlc[t]) /\ htlc[t].at <= row.updated
    BY <1>1, <1>2, <1>5 DEF SoloInv, Closed
  <2>2. ~DriverStep(d) /\ ~sendRefund(d)
    BY <1>1, <1>5, <2>1, RefundedRests DEF SoloInv, DriverStep
  <2>3. job'[d].pc = "idle"
    <3>1. CASE job' = job
      BY <2>1, <3>1
    <3>2. CASE RotateKey
      BY <1>1, <3>2 DEF RotateKey, Idle
    <3>3. ~ReclaimSlot(d) /\ ~signFundingFails(d) /\ ~Abandon(d)
      BY <2>1 DEF ReclaimSlot, signFundingFails, Abandon, At, SoloInv
    <3> QED
      BY <1>1, <2>2, <3>1, <3>2, <3>3
         DEF Next, SweepStep, Operator, Faults, Client, Miners, vars, refundSweep, SweepFind,
         SweepRefund, SweepPatch, reclaimOnchainHtlc, onchainClaimNow, SweepAbandon, ClientFunds,
         ClientReclaims, Advance, ClientClaims, Confirm, Reorg
  <2>4. Mined(htlc'[t])
    BY <1>1, <2>1, <2>2, MinedStays DEF SoloInv, Mined
  <2>5. HtlcMove(t)
    BY HtlcMoves DEF SoloInv
  <2>6. htlc'[t].at <= row'.updated
    <3>1. CASE row' = row
      BY <1>1, <1>3, <2>1, <2>2, <2>5, <3>1 DEF HtlcMove, Mined, InBlock, Never
    <3>2. CASE SweepFind \/ SweepPatch
      <4>1. htlc' = htlc
        BY <3>2 DEF SweepFind, SweepPatch, chain
      <4>2. row' = row \/ row'.updated = clock
        BY <1>3, <3>2 DEF SweepFind, SweepPatch, write, Row
      <4>3. htlc[t].at <= clock
        BY <1>3 DEF InBlock, Never
      <4> QED
        BY <2>1, <4>1, <4>2, <4>3
    <3> QED
      BY <1>1, <1>5, <2>2, <3>1, <3>2
         DEF Next, SweepStep, Operator, Faults, Client, Miners, vars, others, refundSweep,
         SweepRefund, reclaimOnchainHtlc, onchainClaimNow, SweepAbandon, RotateKey, ClientFunds,
         ClientReclaims, Advance, ReclaimSlot, signFundingFails, Abandon, ClientClaims, Confirm,
         Reorg
  <2>7. ASSUME sweeper'.pc # "idle" \/ lockup' \in {"refunded", "leftover"}
        PROVE  htlc'[t].kind = "refunded" /\ Elapsed(htlc[t].at, ReleaseDelay)'
    <3>1. CASE refundSweep /\ Releasable
      <4>0. htlc[t].kind \in Kinds
        BY DEF SoloInv, Inv, TypeOK
      <4>1. Elapsed(row.updated, ReleaseDelay) /\ htlc[t].kind \in {"refunding", "refunded"}
        BY <1>2, <1>5, <3>1, <4>0 DEF refundSweep, Releasable, Final, Witness, Kinds
      <4>2. Elapsed(htlc[t].at, ReleaseDelay)
        BY <1>3, <2>1, <4>1 DEF Elapsed
      <4>3. htlc[t].kind = "refunded"
        BY <1>3, <2>1, <4>1, <4>2 DEF InBlock, Mined
      <4>4. htlc' = htlc /\ clock' = clock
        BY <3>1 DEF refundSweep, chain
      <4> QED
        BY <4>2, <4>3, <4>4 DEF Elapsed
    <3>2. CASE sweeper.pc # "idle" \/ lockup \in {"refunded", "leftover"}
      <4>1. htlc[t].kind = "refunded" /\ Elapsed(htlc[t].at, ReleaseDelay)
        BY <1>2, <1>5, <3>2 DEF SoloInv, Closed
      <4>2. htlc'[t] = htlc[t]
        BY <2>5, <4>1 DEF HtlcMove
      <4>3. Elapsed(htlc[t].at, ReleaseDelay) /\ clock' = clock => Elapsed(htlc[t].at, ReleaseDelay)'
        BY <4>2 DEF Elapsed
      <4>4. Elapsed(htlc[t].at, ReleaseDelay) /\ Advance => Elapsed(htlc[t].at, ReleaseDelay)'
        BY <1>3, <4>2 DEF Elapsed, Advance
      <4> QED
        BY <4>1, <4>2, <4>3, <4>4, ClockMoves
    <3>3. CASE SweepStep
      <4>1. CASE refundSweep
        BY <1>5, <3>1, <4>1 DEF refundSweep, Refundable
      <4>2. CASE SweepFind \/ SweepRefund \/ SweepPatch
        BY <3>2, <4>2 DEF SweepFind, SweepRefund, SweepPatch
      <4> QED
        BY <3>3, <4>1, <4>2 DEF SweepStep
    <3>4. CASE SweepAbandon \/ RotateKey
      <4>1. sweeper'.pc = "idle" /\ lockup' = lockup
        BY <3>4 DEF SweepAbandon, RotateKey, Rest
      <4> QED
        BY <2>7, <3>2, <4>1
    <3>5. CASE sweeper' = sweeper /\ (lockup' \in {"refunded", "leftover"} => lockup' = lockup)
      BY <2>7, <3>2, <3>5
    <3> QED
      BY <1>1, <2>2, <3>3, <3>4, <3>5
         DEF Next, Operator, Faults, Client, Miners, vars, others, Held, reclaimOnchainHtlc,
         onchainClaimNow, ClientFunds, ClientReclaims, Advance, ReclaimSlot, signFundingFails,
         Abandon, ClientClaims, Confirm, Reorg
  <2> QED
    BY <1>1, <1>2, <2>3, <2>4, <2>6, <2>7
<1> QED
  BY <1>4, <1>5

(* One process at a time keeps the stronger invariant, whatever fails. *)
LEMMA SoloStep == ASSUME Solo PROVE SoloInv /\ [Next]_vars => SoloInv'
<1> SUFFICES ASSUME SoloInv, [Next]_vars PROVE SoloInv'
  OBVIOUS
<1>1. Inv' /\ operator'.pc = "idle"
  BY InvStep, OperatorRests DEF SoloInv
<1>2. Named' /\ Blocks'
  BY NamedStep, BlocksStep DEF SoloInv
<1>3. Concluding'
  BY <1>1, ConcludingStep DEF SoloInv
<1>4. Closed'
  BY <1>1, <1>2, ClosedStep
<1> QED
  BY <1>1, <1>2, <1>3, <1>4 DEF SoloInv

(* It holds of a fresh quote and of a row left by an earlier release. *)
LEMMA SoloInit == Init => SoloInv
<1> SUFFICES ASSUME Init PROVE SoloInv
  OBVIOUS
<1>1. /\ \A d \in Driver : job[d].pc = "idle"
      /\ operator.pc = "idle" /\ row.state \in {"quoted", "funding_onchain"}
      /\ \A t \in Tx : htlc[t].kind \in {"none", "out"} /\ htlc[t].at = Never
  BY DEF Init, Idle, NewRow, LegacyRow, Unspent
<1> QED
  BY <1>1, InitInv DEF SoloInv, Named, RefundsAreNamed, Blocks, InBlock, Concluding, Closed

(* One process at a time, whatever fails and whatever block is disconnected:  *)
(* the client is paid or refunded, never both, the row tells which, and it    *)
(* names every refund that was sent.                                          *)
THEOREM OnchainSafe == ASSUME Solo PROVE Spec => []OnchainIsSafe
<1>1. SoloInv => OnchainIsSafe
  <2> SUFFICES ASSUME SoloInv PROVE TypeOK /\ NeverPaidAndRefunded /\ RowTellsTheTruth /\ RefundsAreNamed
    BY DEF OnchainIsSafe
  <2>1. TypeOK /\ RefundsAreNamed
    BY DEF SoloInv, Inv, Named
  <2>2. NeverPaidAndRefunded
    BY ClosedUnpaid DEF SoloInv, Inv, SweepSound, Closed, NeverPaidAndRefunded
  <2>3. RowTellsTheTruth
    BY DEF SoloInv, Inv, Told, Closed, RowTellsTheTruth
  <2> QED
    BY <2>1, <2>2, <2>3
<1> QED
  BY <1>1, SoloInit, SoloStep, PTL DEF Spec
----------------------------------------------------------------------------
(* Which state of the row each step of a tick belongs to. *)
Doing(pc, s) ==
  /\ pc \in {"failQuoted", "fund"} => s = "quoted"
  /\ pc = "enter" => s = "funded"
  /\ pc \in {"lease", "submit", "record", "publish", "broadcast", "toAwaiting"} => s = "funding_onchain"
  /\ pc = "toRefunding" => s = "awaiting_claim"
  /\ pc \in {"toClaiming", "failSpent"} => s \in {"awaiting_claim", "refunding_onchain"}
  /\ pc \in {"witness", "push", "sendRefund", "toRefunded"} => s = "refunding_onchain"
  /\ pc \in {"claim", "evidence", "markClaimed"} => s = "claiming"

(* With one tick at a time, the row is still in the state the tick read. *)
Following ==
  \A d \in Driver : job[d].pc \notin {"idle", "release"} =>
    row.state = job[d].row.state /\ row.state \in Live /\ Doing(job[d].pc, row.state)

(* The preimage is on the row only once the client's claim shows it, and from *)
(* then on no refund is sent over that claim.                                 *)
Revealed ==
  /\ row.state \in {"claiming", "claimed"} => row.preimage
  /\ row.preimage => /\ row.state \in {"claiming", "claimed", "stuck"}
                     /\ htlc[row.fundingTxid].kind \in {"claiming", "claimed"}
  /\ \A d \in Driver : job[d].pc = "toClaiming" =>
       htlc[job[d].row.fundingTxid].kind \in {"claiming", "claimed"}

(* From its gates to its broadcast a funding has the lockup under it. *)
Gated ==
  \A d \in Driver :
    \/ job[d].pc \in {"enter", "record", "broadcast"}
    \/ job[d].pc = "publish" /\ ~job[d].recheck
    => clock < RefundAt /\ lockup \in Held \ {"leftover"}

AtomicInv == SoloInv /\ Following /\ Revealed /\ Gated

(* Nobody but the one tick moves the row while it is at work. *)
LEMMA FollowingStep ==
  ASSUME Solo, Inv, Following, operator.pc = "idle", [Next]_vars PROVE Following'
<1>1. PICK d : Driver = {d}
  BY DEF Solo
<1> SUFFICES ASSUME job'[d].pc \notin {"idle", "release"}
             PROVE  row'.state = job'[d].row.state /\ row'.state \in Live /\ Doing(job'[d].pc, row'.state)
  BY <1>1 DEF Following, Doing
<1>2. job \in [Driver -> Job] /\ row \in Row
  BY DEF Inv, TypeOK
<1>3. job[d].pc \notin {"idle", "release"} =>
        row.state = job[d].row.state /\ row.state \in Live /\ Doing(job[d].pc, row.state)
  BY <1>1 DEF Following
<1>4. CASE DriverStep(d)
  <2>1. ~(FailQuoted(d) \/ Fund(d) \/ releaseFundLease(d) \/ ToAwaiting(d) \/ ToRefunding(d) \/
         ToClaiming(d) \/ FailSpent(d) \/ ToRefunded(d) \/ RefundUnaffordable(d) \/ sendRefund(d) \/
         ClaimFails(d) \/ MarkClaimed(d))
    BY <1>1, <1>2
       DEF Done, Idle, FailQuoted, Fund, releaseFundLease, ToAwaiting, ToRefunding, ToClaiming,
       FailSpent, ToRefunded, RefundUnaffordable, sendRefund, ClaimFails, MarkClaimed
  <2>2. CASE Tick(d)
    BY <1>1, <1>2, <1>3, <2>2 DEF Tick, At, Idle, Job, Doing, Live
  <2>3. CASE whenQuoted(d)
    BY <1>1, <1>2, <1>3, <2>3 DEF whenQuoted, At, AtState, Idle, Job, Doing, Live
  <2>4. CASE whenFunded(d)
    <3>1. job[d].pc = "step" /\ Goto(d, "enter") /\ row' = row
      BY <1>1, <1>2, <2>4 DEF whenFunded, At, AtState, Done, Idle
    <3>2. job'[d].row = job[d].row /\ job'[d].pc \in {"enter", "toAwaiting", "broadcast"}
      BY <1>1, <1>2, <3>1 DEF Goto, Job
    <3> QED
      BY <1>1, <1>2, <1>3, <2>4, <3>1, <3>2 DEF whenFunded, AtState, Goto, Job, Doing
  <2>5. CASE EnterFunding(d)
    <3>1. row.state = "funded"
      BY <1>1, <1>2, <2>5 DEF EnterFunding, Won, Idle
    <3>2. row'.state = "funding_onchain"
      BY <1>2, <2>5, <3>1 DEF EnterFunding, transition, Won, write, Row
    <3>3. job'[d].pc = "submit" /\ job'[d].row = row'
      BY <1>1, <1>2, <2>5, <3>1 DEF EnterFunding, Won, Job
    <3> QED
      BY <3>2, <3>3 DEF Doing, Live
  <2>6. CASE recoverFunding(d)
    BY <1>1, <1>2, <1>3, <2>6 DEF recoverFunding, At, AtState, Job, Doing, Live
  <2>7. CASE claimFundLease(d)
    <3>1. row'.state = row.state
      BY <1>2, <2>7 DEF claimFundLease, write, Row
    <3>2. job[d].pc = "lease" /\ Goto(d, "submit")
      BY <1>1, <1>2, <2>7 DEF claimFundLease, At, Then, Goto, Idle
    <3>3. job'[d].row = job[d].row /\ job'[d].pc \in {"submit", "publish"}
      BY <1>1, <1>2, <3>2 DEF Goto, Job
    <3> QED
      BY <1>3, <3>1, <3>2, <3>3 DEF Doing
  <2>8. ~refuseFunding(d)
    BY <1>1, <1>2 DEF refuseFunding, Then, Done, Idle, Job
  <2>9. CASE signFunding(d)
    BY <1>1, <1>2, <1>3, <2>9 DEF signFunding, At, Job, Doing
  <2>10. CASE recordFundingTx(d)
    <3>1. row'.state = row.state
      BY <1>2, <2>10 DEF recordFundingTx, write, Row
    <3>2. job[d].pc = "record" /\ Goto(d, "publish")
      BY <1>1, <1>2, <2>10 DEF recordFundingTx, At, Then, Goto, Idle
    <3>3. job'[d].row = job[d].row /\ job'[d].pc \in {"submit", "publish"}
      BY <1>1, <1>2, <3>2 DEF Goto, Job
    <3> QED
      BY <1>3, <3>1, <3>2, <3>3 DEF Doing
  <2>11. CASE publishFunding(d)
    <3>1. job[d].pc = "publish" /\ row' = row /\ (Goto(d, "toAwaiting") \/ Goto(d, "broadcast"))
      BY <1>1, <1>2, <2>11 DEF publishFunding, At, Done, Idle
    <3>2. job'[d].row = job[d].row /\ job'[d].pc \in {"enter", "toAwaiting", "broadcast"}
      BY <1>1, <1>2, <3>1 DEF Goto, Job
    <3> QED
      BY <1>1, <1>2, <1>3, <2>11, <3>1, <3>2 DEF publishFunding, Goto, Job, Doing
  <2>12. CASE broadcastFunding(d)
    BY <1>1, <1>2, <1>3, <2>12 DEF broadcastFunding, At, Goto, Job, Doing
  <2>13. CASE whenAwaitingClaim(d)
    BY <1>1, <1>2, <1>3, <2>13 DEF whenAwaitingClaim, At, AtState, Idle, Job, Doing
  <2>14. CASE whenRefundingOnchain(d)
    BY <1>1, <1>2, <1>3, <2>14 DEF whenRefundingOnchain, At, AtState, Goto, Done, Idle, Job, Doing
  <2>15. CASE RefundWitness(d)
    <3>1. PICK pc \in {"toClaiming", "failSpent", "push"} : Goto(d, pc)
      BY <2>15 DEF RefundWitness, Witness
    <3> QED
      BY <1>1, <1>2, <1>3, <2>15, <3>1 DEF RefundWitness, At, Goto, Job, Doing
  <2>16. CASE pushOnchainHtlcRefund(d)
    <3>1. row'.state = row.state
      BY <1>2, <2>16 DEF pushOnchainHtlcRefund, write, Row
    <3>2. job[d].pc = "push" /\ job'[d].pc = "sendRefund" /\ job'[d].row = job[d].row
      BY <1>1, <1>2, <2>16 DEF pushOnchainHtlcRefund, At, Job
    <3> QED
      BY <1>3, <3>1, <3>2 DEF Doing
  <2>17. CASE whenClaiming(d)
    BY <1>1, <1>2, <1>3, <2>17 DEF whenClaiming, At, AtState, Goto, Job, Doing
  <2>18. CASE Claim(d)
    BY <1>1, <1>2, <1>3, <2>18 DEF Claim, At, Goto, Job, Doing
  <2>19. CASE ClaimEvidence(d)
    BY <1>1, <1>2, <1>3, <2>19 DEF ClaimEvidence, At, Goto, Done, Idle, fail, transition, Won,
       write, Row, Job, Doing
  <2> QED
    BY <1>4, <2>1, <2>2, <2>3, <2>4, <2>5, <2>6, <2>7, <2>8, <2>9, <2>10, <2>11, <2>12, <2>13,
       <2>14, <2>15, <2>16, <2>17, <2>18, <2>19 DEF DriverStep
<1>5. CASE job'[d] = job[d] /\ (row'.state = row.state \/ row.state = "stuck")
  BY <1>3, <1>5 DEF Live
<1>6. ~RotateKey /\ ~signFundingFails(d) /\ ~Abandon(d) /\ ~ReclaimSlot(d)
  BY <1>1, <1>2 DEF RotateKey, signFundingFails, Abandon, ReclaimSlot, Goto, Done, Idle, Job
<1>7. CASE SweepFind \/ SweepPatch \/ onchainClaimNow
  BY <1>2, <1>5, <1>7 DEF SweepFind, SweepPatch, onchainClaimNow, write, Row
<1> QED
  BY <1>1, <1>4, <1>5, <1>6, <1>7
     DEF Next, SweepStep, Operator, Faults, Client, Miners, vars, others, refundSweep, SweepRefund,
     reclaimOnchainHtlc, SweepAbandon, ClientFunds, ClientReclaims, Advance, ClientClaims, Confirm,
     Reorg

(* Only a tick that saw the client's claim puts the preimage on the row, and  *)
(* only such a row is ever claimed for.                                       *)
RowReveals ==
  /\ row'.preimage = row.preimage
  /\ row'.state \in {"claiming", "claimed"} => row.preimage
  /\ row.preimage => /\ row'.state \in {"claiming", "claimed", "stuck"}
                     /\ row'.fundingTxid = row.fundingTxid

(* Every other write leaves the preimage as it is. *)
LEMMA RowRevealsStep ==
  ASSUME Solo, Inv, Following, Revealed, [Next]_vars
  PROVE  RowReveals \/ \E d \in Driver : ToClaiming(d)
<1>1. PICK d : Driver = {d}
  BY DEF Solo
<1>2. row \in Row
  BY DEF Inv, TypeOK
<1>3. /\ row.state \in {"claiming", "claimed"} => row.preimage
      /\ row.preimage => row.state \in {"claiming", "claimed", "stuck"}
      /\ job[d].pc \notin {"idle", "release"} => row.state = job[d].row.state /\ Doing(job[d].pc, row.state)
  BY <1>1 DEF Revealed, Following
<1>4. CASE row' = row
  BY <1>3, <1>4 DEF RowReveals
<1>5. CASE DriverStep(d)
  <2>1. CASE FailQuoted(d)
    BY <1>2, <1>3, <2>1 DEF FailQuoted, RowReveals, At, fail, failState, transition, Won, write,
       Exposed, Row, Doing
  <2>2. CASE Fund(d)
    BY <1>2, <1>3, <2>2 DEF Fund, RowReveals, At, transition, Won, write, Row, Doing
  <2>3. CASE whenFunded(d)
    BY <1>2, <1>3, <2>3 DEF whenFunded, RowReveals, At, AtState, fail, failState, transition, Won,
       write, Exposed, Row, Doing
  <2>4. CASE EnterFunding(d)
    BY <1>2, <1>3, <2>4 DEF EnterFunding, RowReveals, At, transition, Won, write, Row, Doing
  <2>5. CASE claimFundLease(d)
    BY <1>2, <1>3, <2>5 DEF claimFundLease, RowReveals, At, write, Row, Doing
  <2>6. CASE refuseFunding(d)
    BY <1>2, <1>3, <2>6 DEF refuseFunding, RowReveals, At, fail, failState, transition, Won, write,
       Exposed, MayRecord, Row, Doing
  <2>7. CASE releaseFundLease(d)
    BY <1>2, <1>3, <2>7 DEF releaseFundLease, RowReveals, At, Row, Doing
  <2>8. CASE recordFundingTx(d)
    BY <1>2, <1>3, <2>8 DEF recordFundingTx, RowReveals, At, write, MayRecord, Row, Doing
  <2>9. CASE publishFunding(d)
    BY <1>2, <1>3, <2>9 DEF publishFunding, RowReveals, At, fail, failState, transition, Won, write,
       Exposed, Row, Doing
  <2>10. CASE ToAwaiting(d)
    BY <1>2, <1>3, <2>10 DEF ToAwaiting, RowReveals, At, transition, Won, write, Row, Doing
  <2>11. CASE ToRefunding(d)
    BY <1>2, <1>3, <2>11 DEF ToRefunding, RowReveals, At, transition, Won, write, Row, Doing
  <2>12. CASE FailSpent(d)
    BY <1>2, <1>3, <2>12 DEF FailSpent, RowReveals, At, fail, failState, transition, Won, write,
       Exposed, Row, Doing
  <2>13. CASE ToRefunded(d)
    BY <1>2, <1>3, <2>13 DEF ToRefunded, RowReveals, At, transition, Won, write, Row, Doing
  <2>14. CASE pushOnchainHtlcRefund(d)
    BY <1>2, <1>3, <2>14 DEF pushOnchainHtlcRefund, RowReveals, At, write, Row, Doing
  <2>15. CASE RefundUnaffordable(d)
    BY <1>2, <1>3, <2>15 DEF RefundUnaffordable, RowReveals, At, fail, failState, transition, Won,
       write, Exposed, Row, Doing
  <2>16. CASE ClaimFails(d)
    BY <1>2, <1>3, <2>16 DEF ClaimFails, RowReveals, At, fail, failState, transition, Won, write,
       Exposed, Row, Doing
  <2>17. CASE ClaimEvidence(d)
    BY <1>2, <1>3, <2>17 DEF ClaimEvidence, RowReveals, At, fail, failState, transition, Won, write,
       Exposed, Row, Doing
  <2>18. CASE MarkClaimed(d)
    BY <1>2, <1>3, <2>18 DEF MarkClaimed, RowReveals, At, transition, Won, write, Row, Doing
  <2> QED
    BY <1>1, <1>4, <1>5, <2>1, <2>2, <2>3, <2>4, <2>5, <2>6, <2>7, <2>8, <2>9, <2>10, <2>11, <2>12,
       <2>13, <2>14, <2>15, <2>16, <2>17, <2>18
       DEF DriverStep, Tick, whenQuoted, recoverFunding, signFunding, broadcastFunding,
       whenAwaitingClaim, whenRefundingOnchain, RefundWitness, sendRefund, whenClaiming, Claim
<1>6. CASE SweepFind \/ SweepPatch \/ onchainClaimNow
  BY <1>2, <1>3, <1>6 DEF SweepFind, SweepPatch, onchainClaimNow, transition, Won, write, Row, RowReveals
<1> QED
  BY <1>1, <1>4, <1>5, <1>6
     DEF Next, SweepStep, Operator, Faults, Client, Miners, vars, others, refundSweep, SweepRefund,
     reclaimOnchainHtlc, SweepAbandon, RotateKey, ClientFunds, ClientReclaims, Advance, ReclaimSlot,
     signFundingFails, Abandon, ClientClaims, Confirm, Reorg

(* The client's claim stands, as long as no refund is sent over it. *)
LEMMA ClaimStays ==
  ASSUME Inv, [Next]_vars, NEW t \in Tx, htlc[t].kind \in {"claiming", "claimed"},
         \A d \in Driver : ~sendRefund(d)
  PROVE  htlc'[t].kind \in {"claiming", "claimed"}
BY HtlcMoves DEF HtlcMove

(* Where a tick is sent on to record a preimage from. *)
LEMMA ToClaimingFrom ==
  ASSUME Inv, [Next]_vars, operator.pc = "idle", NEW e \in Driver, job'[e].pc = "toClaiming"
  PROVE  whenAwaitingClaim(e) \/ RefundWitness(e) \/ job'[e] = job[e]
<1>1. job \in [Driver -> Job]
  BY DEF Inv, TypeOK
<1>2. ASSUME NEW d \in Driver, DriverStep(d), d # e PROVE job'[e] = job[e]
  BY <1>1, <1>2
       DEF Goto, Done, Then, DriverStep, Tick, whenQuoted, FailQuoted, Fund, whenFunded,
       EnterFunding, recoverFunding, claimFundLease, refuseFunding, releaseFundLease, signFunding,
       recordFundingTx, publishFunding, broadcastFunding, ToAwaiting, whenAwaitingClaim,
       ToRefunding, ToClaiming, FailSpent, whenRefundingOnchain, RefundWitness, ToRefunded,
       pushOnchainHtlcRefund, RefundUnaffordable, sendRefund, whenClaiming, Claim, ClaimFails,
       ClaimEvidence, MarkClaimed
<1>3. CASE DriverStep(e) /\ ~whenAwaitingClaim(e) /\ ~RefundWitness(e)
  <2>1. ~(FailQuoted(e) \/ Fund(e) \/ releaseFundLease(e) \/ ToAwaiting(e) \/ ToRefunding(e) \/
         ToClaiming(e) \/ FailSpent(e) \/ ToRefunded(e) \/ RefundUnaffordable(e) \/ sendRefund(e) \/
         ClaimFails(e) \/ MarkClaimed(e))
    BY <1>1
       DEF Done, Idle, FailQuoted, Fund, releaseFundLease, ToAwaiting, ToRefunding, ToClaiming,
       FailSpent, ToRefunded, RefundUnaffordable, sendRefund, ClaimFails, MarkClaimed
  <2>2. ~Tick(e)
    BY <1>1 DEF Tick, Idle, Job
  <2>3. ~whenQuoted(e)
    BY <1>1 DEF whenQuoted, Idle, Job
  <2>4. ~whenFunded(e)
    BY <1>1 DEF whenFunded, Goto, Done, Idle, Job
  <2>5. ~EnterFunding(e)
    <3>1. CASE Won("funded")
      <4>1. PICK r : r = row'
        OBVIOUS
      <4>2. EnterFunding(e) => job' = [job EXCEPT ![e] = [job[e] EXCEPT !.pc = "submit", !.row = r, !.fresh = TRUE]]
        BY <1>1, <3>1, <4>1 DEF EnterFunding
      <4>3. [job[e] EXCEPT !.pc = "submit", !.row = r, !.fresh = TRUE].pc = "submit"
        BY <1>1 DEF Job
      <4> QED
        BY <1>1, <4>2, <4>3
    <3>2. CASE ~Won("funded")
      BY <1>1, <3>2 DEF EnterFunding, Idle
    <3> QED
      BY <3>1, <3>2
  <2>6. ~recoverFunding(e)
    <3>1. CASE job[e].row.fundingTx # NoTx
      <4>1. PICK u : u = job[e].row.fundingTx
        OBVIOUS
      <4>2. recoverFunding(e) => job' = [job EXCEPT ![e] = [job[e] EXCEPT !.pc = "publish", !.tx = u, !.recheck = TRUE]]
        BY <1>1, <3>1, <4>1 DEF recoverFunding
      <4>3. [job[e] EXCEPT !.pc = "publish", !.tx = u, !.recheck = TRUE].pc = "publish"
        BY <1>1 DEF Job
      <4> QED
        BY <1>1, <4>2, <4>3
    <3>2. CASE ~(job[e].row.fundingTx # NoTx) /\ \E t \in Tx : htlc[t].kind # "none"
      <4>1. recoverFunding(e) => job' = [job EXCEPT ![e] = [job[e] EXCEPT !.pc = "toAwaiting",
                                          !.tx = CHOOSE t \in Tx : htlc[t].kind # "none"]]
        BY <1>1, <3>2 DEF recoverFunding
      <4> QED
        BY <1>1, <4>1 DEF Job
    <3>3. CASE ~(job[e].row.fundingTx # NoTx) /\ ~\E t \in Tx : htlc[t].kind # "none"
      <4>1. recoverFunding(e) => job' = [job EXCEPT ![e] = [job[e] EXCEPT !.pc = "lease"]]
        BY <1>1, <3>3 DEF recoverFunding
      <4> QED
        BY <1>1, <4>1 DEF Job
    <3> QED
      BY <3>1, <3>2, <3>3
  <2>7. ~claimFundLease(e)
    BY <1>1 DEF claimFundLease, Then, Idle, Job
  <2>8. ~refuseFunding(e)
    BY <1>1 DEF refuseFunding, Done, Then, Idle, Job
  <2>9. ~signFunding(e)
    BY <1>1 DEF signFunding, Job
  <2>10. ~recordFundingTx(e)
    BY <1>1 DEF recordFundingTx, Then, Idle, Job
  <2>11. ~publishFunding(e)
    BY <1>1 DEF publishFunding, Goto, Done, Idle, Job
  <2>12. ~broadcastFunding(e)
    BY <1>1 DEF broadcastFunding, Goto, Job
  <2>13. ~whenRefundingOnchain(e)
    BY <1>1 DEF whenRefundingOnchain, Goto, Done, Idle, Job
  <2>14. ~pushOnchainHtlcRefund(e)
    BY <1>1 DEF pushOnchainHtlcRefund, Job
  <2>15. ~whenClaiming(e)
    BY <1>1 DEF whenClaiming, Goto, Job
  <2>16. ~Claim(e)
    BY <1>1 DEF Claim, Goto, Job
  <2>17. ~ClaimEvidence(e)
    BY <1>1 DEF ClaimEvidence, Goto, Done, Idle, Job
  <2> QED
    BY <1>3, <2>1, <2>2, <2>3, <2>4, <2>5, <2>6, <2>7, <2>8, <2>9, <2>10, <2>11, <2>12, <2>13,
       <2>14, <2>15, <2>16, <2>17 DEF DriverStep
<1>4. ~RotateKey
  BY DEF RotateKey, Idle
<1>5. ASSUME NEW d \in Driver, signFundingFails(d) \/ Abandon(d) PROVE job'[e] = job[e]
  BY <1>1, <1>5 DEF signFundingFails, Abandon, Goto, Done, Idle, Job
<1> QED
  BY <1>2, <1>3, <1>4, <1>5
     DEF Next, SweepStep, Operator, Faults, Client, Miners, vars, ReclaimSlot, refundSweep,
     SweepFind, SweepRefund, SweepPatch, reclaimOnchainHtlc, onchainClaimNow, SweepAbandon,
     ClientFunds, ClientReclaims, Advance, ClientClaims, Confirm, Reorg

(* The preimage on the row stands for a claim that stays on the chain. *)
LEMMA RevealedStep ==
  ASSUME Solo, Inv, Inv', Following, Revealed, operator.pc = "idle", [Next]_vars PROVE Revealed'
<1>1. PICK d : Driver = {d}
  BY DEF Solo
<1>2. job \in [Driver -> Job] /\ row \in Row /\ \A u \in Tx : htlc[u].kind \in Kinds
  BY DEF Inv, TypeOK
<1>3. ASSUME job'[d].pc = "toClaiming"
      PROVE  htlc'[job'[d].row.fundingTxid].kind \in {"claiming", "claimed"}
  <2>1. ~sendRefund(d)
    BY <1>1, <1>2, <1>3 DEF sendRefund, Done, Idle
  <2>2. PICK t \in Tx : t = job'[d].row.fundingTxid
    BY <1>1, <1>3 DEF Inv, TickSound, StillTrue, StepSound, RowSound
  <2>3. job'[d].row = job[d].row /\ htlc[t].kind \in {"claiming", "claimed"}
    <3>1. CASE whenAwaitingClaim(d)
      BY <1>1, <1>2, <1>3, <2>2, <3>1 DEF whenAwaitingClaim, Witness, Idle, Job, Kinds
    <3>2. CASE RefundWitness(d)
      <4>1. \/ Witness(job[d].row.fundingTxid) = "claim" /\ Goto(d, "toClaiming")
            \/ Goto(d, "failSpent") \/ Goto(d, "push")
        BY <3>2 DEF RefundWitness, Witness
      <4>2. Witness(job[d].row.fundingTxid) = "claim" /\ job'[d].row = job[d].row
        BY <1>1, <1>2, <1>3, <4>1 DEF Goto, Job
      <4> QED
        BY <1>2, <2>2, <4>2 DEF Witness, Kinds
    <3>3. CASE job'[d] = job[d]
      BY <1>1, <1>3, <2>2, <3>3 DEF Revealed
    <3> QED
      BY <1>1, <1>3, <3>1, <3>2, <3>3, ToClaimingFrom
  <2> QED
    BY <1>1, <2>1, <2>2, <2>3, ClaimStays
<1>4. CASE ToClaiming(d)
  <2>1. row.state = job[d].row.state /\ htlc' = htlc
    BY <1>1, <1>4 DEF ToClaiming, At, Following, chain
  <2>2. row' = [[row EXCEPT !.state = "claiming", !.preimage = TRUE] EXCEPT !.updated = clock]
    BY <1>4, <2>1 DEF ToClaiming, transition, Won, write
  <2>3. row'.state = "claiming" /\ row'.preimage /\ row'.fundingTxid = row.fundingTxid
    BY <1>2, <2>2 DEF Row
  <2>4. job[d].row.fundingTxid = row.fundingTxid
    BY <1>1, <1>4, <2>1 DEF ToClaiming, At, Inv, TickSound, StillTrue, StepSound
  <2>5. htlc'[row'.fundingTxid].kind \in {"claiming", "claimed"}
    BY <1>1, <1>4, <2>1, <2>3, <2>4 DEF ToClaiming, At, Revealed
  <2> QED
    BY <1>1, <1>3, <2>3, <2>5 DEF Revealed
<1>5. CASE RowReveals
  <2>1. row.preimage => htlc'[row'.fundingTxid].kind \in {"claiming", "claimed"}
    <3> SUFFICES ASSUME row.preimage PROVE htlc'[row'.fundingTxid].kind \in {"claiming", "claimed"}
      OBVIOUS
    <3>1. ~sendRefund(d)
      BY <1>1 DEF sendRefund, At, Following, Doing, Revealed
    <3>2. PICK t \in Tx : t = row.fundingTxid
      BY DEF Inv, RowSound
    <3> QED
      BY <1>1, <1>5, <3>1, <3>2, ClaimStays DEF Revealed, RowReveals
  <2> QED
    BY <1>1, <1>3, <1>5, <2>1 DEF Revealed, RowReveals
<1> QED
  BY <1>1, <1>4, <1>5, RowRevealsStep

(* A step on the way from the gates to the broadcast. *)
OnTheWay(j) ==
  \/ j.pc \in {"enter", "record", "broadcast"}
  \/ j.pc = "publish" /\ ~j.recheck

(* What the gates checked still holds when the funding is sent. *)
LEMMA GatedStep ==
  ASSUME Solo, Inv, Following, Gated, operator.pc = "idle", [Next]_vars PROVE Gated'
<1>1. PICK d : Driver = {d}
  BY DEF Solo
<1> SUFFICES ASSUME OnTheWay(job'[d]) PROVE clock' < RefundAt /\ lockup' \in Held \ {"leftover"}
  BY <1>1 DEF Gated, OnTheWay
<1>2. job \in [Driver -> Job] /\ row \in Row /\ clock \in Nat
      /\ FundStop \in Nat /\ RefundAt \in Nat /\ FundStop < RefundAt
  BY OnchainAssumption DEF Inv, TypeOK
<1>3. OnTheWay(job[d]) => clock < RefundAt /\ lockup \in Held \ {"leftover"}
  BY <1>1 DEF Gated, OnTheWay
<1>4. ~Refuses => clock < RefundAt /\ lockup \in Held \ {"leftover"}
  BY <1>2 DEF Refuses
<1>5. CASE DriverStep(d)
  <2>1. ~(FailQuoted(d) \/ Fund(d) \/ releaseFundLease(d) \/ ToAwaiting(d) \/ ToRefunding(d) \/
         ToClaiming(d) \/ FailSpent(d) \/ ToRefunded(d) \/ RefundUnaffordable(d) \/ sendRefund(d) \/
         ClaimFails(d) \/ MarkClaimed(d))
    BY <1>1, <1>2
       DEF OnTheWay, Done, Idle, FailQuoted, Fund, releaseFundLease, ToAwaiting, ToRefunding,
       ToClaiming, FailSpent, ToRefunded, RefundUnaffordable, sendRefund, ClaimFails, MarkClaimed
  <2>2. ~Tick(d)
    BY <1>1, <1>2 DEF Tick, OnTheWay, Idle, Job
  <2>3. ~whenQuoted(d)
    BY <1>1, <1>2 DEF whenQuoted, OnTheWay, Idle, Job
  <2>4. CASE whenFunded(d)
    BY <1>1, <1>2, <1>3, <1>4, <2>4 DEF whenFunded, OnTheWay, Goto, Done, Idle, At, others, Job
  <2>5. ~EnterFunding(d)
    <3>1. PICK r, j : r = row' /\ j = [job[d] EXCEPT !.pc = "submit", !.row = r, !.fresh = TRUE]
      OBVIOUS
    <3>2. EnterFunding(d) => job'[d] = j \/ job'[d] = Idle
      BY <1>1, <1>2, <3>1 DEF EnterFunding
    <3>3. j.pc = "submit" /\ Idle.pc = "idle"
      BY <1>1, <1>2, <3>1 DEF Job, Idle
    <3> QED
      BY <3>2, <3>3 DEF OnTheWay
  <2>6. ~recoverFunding(d)
    <3>1. PICK u, v : u = job[d].row.fundingTx /\ v = CHOOSE t \in Tx : htlc[t].kind # "none"
      OBVIOUS
    <3>2. recoverFunding(d) =>
            job'[d] \in {[job[d] EXCEPT !.pc = "publish", !.tx = u, !.recheck = TRUE],
                         [job[d] EXCEPT !.pc = "toAwaiting", !.tx = v], [job[d] EXCEPT !.pc = "lease"]}
      BY <1>1, <1>2, <3>1 DEF recoverFunding
    <3>3. /\ [job[d] EXCEPT !.pc = "publish", !.tx = u, !.recheck = TRUE].pc = "publish"
          /\ [job[d] EXCEPT !.pc = "publish", !.tx = u, !.recheck = TRUE].recheck
      BY <1>1, <1>2 DEF Job
    <3>4. /\ [job[d] EXCEPT !.pc = "toAwaiting", !.tx = v].pc = "toAwaiting"
          /\ [job[d] EXCEPT !.pc = "lease"].pc = "lease"
      BY <1>1, <1>2 DEF Job
    <3> QED
      BY <3>2, <3>3, <3>4 DEF OnTheWay
  <2>7. ~claimFundLease(d)
    BY <1>1, <1>2 DEF claimFundLease, OnTheWay, Then, Idle, Job
  <2>8. ~refuseFunding(d)
    BY <1>1, <1>2 DEF refuseFunding, OnTheWay, Done, Then, Idle, Job
  <2>9. CASE signFunding(d)
    BY <1>1, <1>2, <1>3, <1>4, <2>9 DEF signFunding, OnTheWay, At, others, Job
  <2>10. CASE recordFundingTx(d)
    BY <1>1, <1>2, <1>3, <1>4, <2>10 DEF recordFundingTx, OnTheWay, Then, Idle, At, others, Job
  <2>11. CASE publishFunding(d)
    <3>1. clock' = clock /\ lockup' = lockup /\ job[d].pc = "publish"
      BY <2>11 DEF publishFunding, others, At
    <3>2. ~job[d].recheck \/ ~Refuses
      BY <1>1, <1>2, <2>11 DEF publishFunding, Goto, Done, Idle, OnTheWay, Job
    <3> QED
      BY <1>3, <1>4, <3>1, <3>2 DEF OnTheWay
  <2>12. ~broadcastFunding(d)
    BY <1>1, <1>2 DEF broadcastFunding, OnTheWay, Goto, Job
  <2>13. ~whenAwaitingClaim(d)
    BY <1>1, <1>2 DEF whenAwaitingClaim, OnTheWay, Idle, Job
  <2>14. ~whenRefundingOnchain(d)
    BY <1>1, <1>2 DEF whenRefundingOnchain, OnTheWay, Goto, Done, Idle, Job
  <2>15. ~RefundWitness(d)
    <3>1. RefundWitness(d) => Goto(d, "toClaiming") \/ Goto(d, "failSpent") \/ Goto(d, "push")
      BY DEF RefundWitness, Witness
    <3> QED
      BY <1>1, <1>2, <3>1 DEF Goto, OnTheWay, Job
  <2>16. ~pushOnchainHtlcRefund(d)
    BY <1>1, <1>2 DEF pushOnchainHtlcRefund, OnTheWay, Job
  <2>17. ~whenClaiming(d)
    BY <1>1, <1>2 DEF whenClaiming, OnTheWay, Goto, Job
  <2>18. ~Claim(d)
    BY <1>1, <1>2 DEF Claim, OnTheWay, Goto, Job
  <2>19. ~ClaimEvidence(d)
    BY <1>1, <1>2 DEF ClaimEvidence, OnTheWay, Goto, Done, Idle, Job
  <2> QED
    BY <1>5, <2>1, <2>2, <2>3, <2>4, <2>5, <2>6, <2>7, <2>8, <2>9, <2>10, <2>11, <2>12, <2>13,
       <2>14, <2>15, <2>16, <2>17, <2>18, <2>19 DEF DriverStep
<1>6. ~RotateKey /\ ~signFundingFails(d) /\ ~Abandon(d) /\ ~ReclaimSlot(d)
  BY <1>1, <1>2 DEF RotateKey, signFundingFails, Abandon, ReclaimSlot, Goto, Done, Idle, Job, OnTheWay
<1>7. CASE job'[d] = job[d]
  <2>1. /\ clock < RefundAt /\ lockup \in Held \ {"leftover"}
        /\ job[d].pc \in {"enter", "submit", "record", "publish", "broadcast"}
    BY <1>3, <1>7 DEF OnTheWay
  <2>2. sweeper.pc = "idle"
    BY <1>1, <2>1 DEF Following, Doing, Inv, SweepSound
  <2>3. CASE clock' = clock /\ lockup' = lockup
    BY <2>1, <2>3
  <2>4. CASE ClientFunds
    BY <2>1, <2>4 DEF ClientFunds, others, Held
  <2>5. CASE Advance
    BY <1>1, <1>2, <2>1, <2>5 DEF Advance
  <2>6. ~ClientReclaims /\ ~SweepRefund
    BY <1>2, <2>1, <2>2 DEF ClientReclaims, SweepRefund
  <2>7. DriverStep(d) => clock' < RefundAt /\ lockup' \in Held \ {"leftover"}
    BY <1>5
  <2> QED
    BY <1>1, <1>6, <2>3, <2>4, <2>5, <2>6, <2>7
       DEF Next, SweepStep, Operator, Faults, Client, Miners, vars, others, refundSweep, SweepFind,
       SweepPatch, reclaimOnchainHtlc, onchainClaimNow, SweepAbandon, ClientClaims, Confirm, Reorg
<1> QED
  BY <1>1, <1>5, <1>6, <1>7
     DEF Next, SweepStep, Operator, Faults, Client, Miners, vars, refundSweep, SweepFind,
     SweepRefund, SweepPatch, reclaimOnchainHtlc, onchainClaimNow, SweepAbandon, ClientFunds,
     ClientReclaims, Advance, ClientClaims, Confirm, Reorg

(* What the invariant of one process adds, kept and at first. *)
LEMMA AtomicStep == ASSUME Solo PROVE AtomicInv /\ [Next]_vars => AtomicInv'
<1> SUFFICES ASSUME AtomicInv, [Next]_vars PROVE AtomicInv'
  OBVIOUS
<1>1. SoloInv'
  BY SoloStep DEF AtomicInv
<1>2. Following' /\ Revealed' /\ Gated'
  BY <1>1, FollowingStep, RevealedStep, GatedStep DEF AtomicInv, SoloInv
<1> QED
  BY <1>1, <1>2 DEF AtomicInv

(* And they hold at first. *)
LEMMA AtomicInit == Init => AtomicInv
<1> SUFFICES ASSUME Init PROVE AtomicInv
  OBVIOUS
<1>1. /\ \A d \in Driver : job[d].pc = "idle"
      /\ row.state \in {"quoted", "funding_onchain"} /\ ~row.preimage
  BY DEF Init, Idle, NewRow, LegacyRow
<1> QED
  BY <1>1, SoloInit DEF AtomicInv, Following, Revealed, Gated

(* The payout leg is what became of the one HTLC. *)
Leg(h) ==
  CASE h.kind = "claimed" \/ (h.kind = "claiming" /\ row.preimage) -> "taken"
    [] h.kind = "refunded" /\ Elapsed(h.at, ReleaseDelay) -> "withdrawn"
    [] h.kind = "none" -> "none"
    [] OTHER -> "offered"

(* A swap has one HTLC, so the others are none. *)
LEMMA OneHtlc ==
  ASSUME Inv, NEW t \in Tx, htlc[t].kind # "none"
  PROVE  \A u \in Tx \ {t} : htlc[u].kind = "none"
BY OnchainAssumption DEF Inv, RowSound, SingleFunding, Tx, NoTx

(* With the others none, the leg is that of the one. *)
LEMMA PayoutIs == ASSUME NEW t \in Tx, \A u \in Tx \ {t} : htlc[u].kind = "none" PROVE PayoutLeg = Leg(htlc[t])
BY DEF PayoutLeg, Leg

(* The client's leg depends on the lockup alone. *)
LEMMA ClientKept == lockup' = lockup => ClientLeg' = ClientLeg
BY DEF ClientLeg

(* And the payout leg on no more than the HTLC, the clock and the preimage. *)
LEMMA PayoutKept ==
  ASSUME htlc' = htlc, clock' = clock, row'.preimage = row.preimage PROVE PayoutLeg' = PayoutLeg
BY DEF PayoutLeg, Elapsed

(* A funding reaches the chain. *)
Appears == \E t \in Tx : htlc[t].kind = "none" /\ htlc'[t].kind = "out"

(* A step on the chain moves the payout leg as the abstract swap does. *)
LEMMA ChainMoves ==
  ASSUME Inv, Inv', [Next]_vars, htlc' # htlc, row' = row, clock' = clock,
         \A d \in Driver : sendRefund(d) => ~row.preimage
  PROVE  \/ PayoutLeg' = PayoutLeg
         \/ PayoutLeg = "offered" /\ PayoutLeg' \in {"taken", "withdrawn"}
         \/ PayoutLeg = "none" /\ PayoutLeg' = "offered" /\ Appears
<1>1. PICK t \in Tx : htlc'[t] # htlc[t]
  BY DEF Inv, TypeOK
<1>2. HtlcMove(t) /\ htlc'[t].kind # "none" /\ clock \in Nat
  BY <1>1, HtlcMoves DEF HtlcMove, Inv, TypeOK
<1>3. \A u \in Tx \ {t} : htlc'[u].kind = "none"
  <2> SUFFICES ASSUME NEW u \in Tx \ {t}, htlc'[u].kind # "none" PROVE FALSE
    OBVIOUS
  <2>1. t = 0 => row'.fundingTx = NoTx
    BY <1>2 DEF Inv, RowSound
  <2>2. t # 0 => row'.fundingTx = t
    BY <1>2 DEF Inv, SingleFunding
  <2>3. u = 0 => row'.fundingTx = NoTx
    BY DEF Inv, RowSound
  <2>4. u # 0 => row'.fundingTx = u
    BY DEF Inv, SingleFunding
  <2> QED
    BY <2>1, <2>2, <2>3, <2>4, OnchainAssumption DEF Tx, NoTx
<1>4. \A u \in Tx \ {t} : htlc[u].kind = "none"
  BY <1>3, HtlcMoves DEF HtlcMove
<1>5. PayoutLeg = Leg(htlc[t]) /\ PayoutLeg' = Leg(htlc[t])'
  <2>1. PayoutLeg = Leg(htlc[t])
    BY <1>4, PayoutIs
  <2>2. PayoutLeg' = Leg(htlc[t])'
    BY <1>3 DEF PayoutLeg, Leg, Elapsed
  <2> QED
    BY <2>1, <2>2
<1> QED
  BY <1>1, <1>2, <1>5 DEF HtlcMove, Leg, Elapsed, Appears

(* Every step of the corridor is one of the abstract swap, or none. *)
LEMMA SwapStep ==
  ASSUME Solo, AtomicInv, AtomicInv', [Next]_vars PROVE [Swap!Next]_(Swap!vars)
<1>1. PICK d : Driver = {d}
  BY DEF Solo
<1>2. Inv /\ Inv' /\ row \in Row /\ clock \in Nat /\ row'.preimage \in BOOLEAN /\ row.preimage \in BOOLEAN
  BY DEF AtomicInv, SoloInv, Inv, TypeOK, Row
<1>3. CASE htlc' # htlc
  <2>1. \/ broadcastFunding(d) \/ sendRefund(d)
        \/ \E t \in Tx : ClientClaims(t) \/ Confirm(t) \/ Reorg(t)
    BY <1>1, <1>3
       DEF Next, DriverStep, SweepStep, Operator, Faults, Client, Miners, vars, chain, Tick,
       whenQuoted, FailQuoted, Fund, whenFunded, EnterFunding, recoverFunding, claimFundLease,
       refuseFunding, releaseFundLease, signFunding, recordFundingTx, publishFunding, ToAwaiting,
       whenAwaitingClaim, ToRefunding, ToClaiming, FailSpent, whenRefundingOnchain, RefundWitness,
       ToRefunded, pushOnchainHtlcRefund, RefundUnaffordable, whenClaiming, Claim, ClaimFails,
       ClaimEvidence, MarkClaimed, refundSweep, SweepFind, SweepRefund, SweepPatch,
       reclaimOnchainHtlc, onchainClaimNow, SweepAbandon, RotateKey, ClientFunds, ClientReclaims,
       Advance, ReclaimSlot, signFundingFails, Abandon
  <2>2. row' = row /\ clock' = clock /\ lockup' = lockup
    BY <2>1 DEF broadcastFunding, sendRefund, ClientClaims, Confirm, Reorg, others
  <2>3. sendRefund(d) => ~row.preimage
    BY <1>1 DEF sendRefund, At, AtomicInv, Following, Doing, Revealed
  <2>4. \/ PayoutLeg' = PayoutLeg
        \/ PayoutLeg = "offered" /\ PayoutLeg' \in {"taken", "withdrawn"}
        \/ PayoutLeg = "none" /\ PayoutLeg' = "offered" /\ Appears
    BY <1>1, <1>2, <1>3, <2>2, <2>3, ChainMoves
  <2>5. CASE PayoutLeg = "none" /\ PayoutLeg' = "offered" /\ Appears
    <3>1. PICK t \in Tx : htlc[t].kind = "none" /\ htlc'[t].kind = "out"
      BY <2>5 DEF Appears
    <3>2. broadcastFunding(d)
      <4>1. ~sendRefund(d)
        BY <1>2, <3>1 DEF sendRefund, Inv, TypeOK
      <4>2. \A u \in Tx : ~ClientClaims(u) /\ ~Confirm(u) /\ ~Reorg(u)
        BY <1>2, <3>1 DEF ClientClaims, Confirm, Reorg, Inv, TypeOK, Unspent
      <4> QED
        BY <2>1, <4>1, <4>2
    <3>3. lockup \in Held \ {"leftover"}
      BY <1>1, <3>2 DEF broadcastFunding, At, AtomicInv, Gated
    <3>4. ClientLeg = "locked"
      BY <3>3 DEF ClientLeg, Held
    <3> QED
      BY <2>2, <2>5, <3>4, ClientKept DEF Swap!Next, Swap!Offer
  <2> QED
    BY <2>2, <2>4, <2>5, ClientKept DEF Swap!vars, Swap!Next, Swap!Take, Swap!Withdraw
<1>4. CASE htlc' = htlc /\ Advance
  <2>1. row' = row /\ lockup' = lockup
    BY <1>4 DEF Advance
  <2>2. ASSUME NEW t \in Tx, Elapsed(htlc[t].at, ReleaseDelay), htlc[t].kind = "refunded"
        PROVE  Elapsed(htlc[t].at, ReleaseDelay)'
    <3>1. htlc[t].at \in Int /\ ReleaseDelay \in Nat /\ MaxTime \in Nat
      BY <1>2, OnchainAssumption DEF Inv, TypeOK
    <3> QED
      BY <1>2, <1>4, <2>2, <3>1 DEF Elapsed, Advance
  <2>3. PayoutLeg' = PayoutLeg \/ (PayoutLeg = "offered" /\ PayoutLeg' = "withdrawn")
    <3>1. (\A t \in Tx : htlc[t].kind = "none") => PayoutLeg = "none" /\ PayoutLeg' = "none"
      BY <1>4 DEF PayoutLeg
    <3>2. ASSUME NEW t \in Tx, htlc[t].kind # "none"
          PROVE  PayoutLeg' = PayoutLeg \/ (PayoutLeg = "offered" /\ PayoutLeg' = "withdrawn")
      <4>1. \A u \in Tx \ {t} : htlc[u].kind = "none" /\ htlc'[u].kind = "none"
        BY <1>2, <1>4, <3>2, OneHtlc
      <4>2. PayoutLeg = Leg(htlc[t]) /\ PayoutLeg' = Leg(htlc[t])'
        <5>1. PayoutLeg = Leg(htlc[t])
          BY <4>1, PayoutIs
        <5>2. PayoutLeg' = Leg(htlc[t])'
          BY <4>1 DEF PayoutLeg, Leg
        <5> QED
          BY <5>1, <5>2
      <4> QED
        BY <1>4, <2>1, <2>2, <3>2, <4>2 DEF Leg
    <3> QED
      BY <3>1, <3>2
  <2> QED
    BY <2>1, <2>3, ClientKept DEF Swap!vars, Swap!Next, Swap!Withdraw
<1>5. CASE htlc' = htlc /\ ToClaiming(d)
  <2>1. lockup' = lockup /\ clock' = clock
    BY <1>5 DEF ToClaiming, others
  <2>2. PICK t \in Tx : t = job[d].row.fundingTxid /\ htlc[t].kind \in {"claiming", "claimed"}
    BY <1>1, <1>2, <1>5
       DEF ToClaiming, At, AtomicInv, Revealed, Inv, TickSound, StillTrue, StepSound, RowSound
  <2>3. \A u \in Tx \ {t} : htlc[u].kind = "none" /\ htlc'[u].kind = "none"
    BY <1>2, <1>5, <2>2, OneHtlc
  <2>4. row'.preimage
    <3>1. row.state = job[d].row.state
      BY <1>1, <1>5 DEF ToClaiming, At, AtomicInv, Following
    <3>2. row' = [[row EXCEPT !.state = "claiming", !.preimage = TRUE] EXCEPT !.updated = clock]
      BY <1>5, <3>1 DEF ToClaiming, transition, Won, write
    <3> QED
      BY <1>2, <3>2 DEF Row
  <2>5. PayoutLeg \in {"offered", "taken"} /\ PayoutLeg' = "taken"
    <3>1. PayoutLeg \in {"offered", "taken"}
      BY <2>2, <2>3, PayoutIs DEF Leg
    <3>2. PayoutLeg' = "taken"
      <4>1. PayoutLeg' = Leg(htlc[t])'
        BY <2>3 DEF PayoutLeg, Leg
      <4> QED
        BY <1>5, <2>2, <2>4, <4>1 DEF Leg
    <3> QED
      BY <3>1, <3>2
  <2> QED
    BY <2>1, <2>5, ClientKept DEF Swap!vars, Swap!Next, Swap!Take
<1>6. CASE htlc' = htlc /\ ~Advance /\ ~ToClaiming(d)
  <2>1. PayoutLeg' = PayoutLeg
    <3>1. clock' = clock
      BY <1>6, ClockMoves
    <3>2. row'.preimage = row.preimage
      BY <1>1, <1>2, <1>6, RowRevealsStep DEF AtomicInv, RowReveals
    <3> QED
      BY <1>6, <3>1, <3>2, PayoutKept
  <2>2. CASE lockup' = lockup
    BY <2>1, <2>2, ClientKept DEF Swap!vars
  <2>3. CASE ClientFunds
    BY <2>1, <2>3 DEF ClientFunds, ClientLeg, Held, Swap!vars, Swap!Next, Swap!Lock
  <2>4. CASE ClientReclaims
    BY <2>1, <2>4 DEF ClientReclaims, ClientLeg, Held, Swap!Next, Swap!Clawback
  <2>5. CASE SweepRefund
    <3>1. row.state \in {"refused", "refunded"}
      BY <1>2, <2>5 DEF SweepRefund, Inv, SweepSound
    <3>2. PayoutLeg \in {"none", "withdrawn"}
      <4>1. CASE row.state = "refused"
        <5>1. \A t \in Tx : htlc[t].kind = "none"
          BY <1>2, <4>1, OnchainAssumption DEF Inv, RowSound, SingleFunding, Tx, NoTx, Unpaid
        <5> QED
          BY <5>1 DEF PayoutLeg
      <4>2. CASE row.state = "refunded"
        <5>1. PICK t \in Tx : t = row.fundingTxid
          BY <1>2, <4>2 DEF Inv, RowSound
        <5>2. htlc[t].kind = "refunded" /\ Elapsed(htlc[t].at, ReleaseDelay)
          BY <2>5, <4>2, <5>1 DEF SweepRefund, AtomicInv, SoloInv, Closed
        <5>3. PayoutLeg = Leg(htlc[t])
          BY <1>2, <5>2, OneHtlc, PayoutIs
        <5> QED
          BY <5>2, <5>3 DEF Leg
      <4> QED
        BY <3>1, <4>1, <4>2
    <3>3. \/ lockup' = lockup
          \/ lockup \in Held /\ lockup' \in {"refunded", "leftover"}
      BY <2>5 DEF SweepRefund, AfterRefund
    <3> QED
      BY <2>1, <2>2, <3>2, <3>3 DEF ClientLeg, Held, Swap!vars, Swap!Next, Swap!Return
  <2>6. CASE Claim(d) \/ ClaimFails(d) \/ ClaimEvidence(d)
    <3>1. PayoutLeg = "taken"
      <4>1. row.state = "claiming"
        BY <1>1, <2>6 DEF Claim, ClaimFails, ClaimEvidence, At, AtomicInv, Following, Doing
      <4>2. row.preimage /\ htlc[row.fundingTxid].kind \in {"claiming", "claimed"} /\ row.fundingTxid \in Tx
        BY <1>2, <4>1 DEF AtomicInv, Revealed, Inv, RowSound
      <4>3. PayoutLeg = Leg(htlc[row.fundingTxid])
        BY <1>2, <4>2, OneHtlc, PayoutIs
      <4> QED
        BY <4>2, <4>3 DEF Leg
    <3>2. \/ lockup' = lockup
          \/ lockup \in Covers /\ lockup' \in {"claimed", "claimPending"}
          \/ lockup \in {"claimed", "claimPending"} /\ lockup' = "claimed"
      BY <2>6 DEF Claim, ClaimFails, ClaimEvidence
    <3> QED
      BY <2>1, <2>2, <3>1, <3>2 DEF ClientLeg, Held, Covers, Swap!vars, Swap!Next, Swap!Collect
  <2>7. \/ lockup' = lockup \/ ClientFunds \/ ClientReclaims \/ SweepRefund
        \/ Claim(d) \/ ClaimFails(d) \/ ClaimEvidence(d)
    <3>1. DriverStep(d) => lockup' = lockup \/ Claim(d) \/ ClaimFails(d) \/ ClaimEvidence(d)
      BY
         DEF DriverStep, Tick, whenQuoted, FailQuoted, Fund, whenFunded, EnterFunding,
         recoverFunding, claimFundLease, refuseFunding, releaseFundLease, signFunding,
         recordFundingTx, publishFunding, broadcastFunding, ToAwaiting, whenAwaitingClaim,
         ToRefunding, ToClaiming, FailSpent, whenRefundingOnchain, RefundWitness, ToRefunded,
         pushOnchainHtlcRefund, RefundUnaffordable, sendRefund, whenClaiming, MarkClaimed
    <3> QED
      BY <1>1, <3>1
         DEF Next, SweepStep, Operator, Faults, Client, Miners, vars, refundSweep, SweepFind,
         SweepPatch, reclaimOnchainHtlc, onchainClaimNow, SweepAbandon, RotateKey, Advance,
         ReclaimSlot, signFundingFails, Abandon, ClientClaims, Confirm, Reorg
  <2> QED
    BY <2>2, <2>3, <2>4, <2>5, <2>6, <2>7
<1> QED
  BY <1>1, <1>3, <1>4, <1>5, <1>6

(* One process, no row of an earlier release: whatever fails, the corridor    *)
(* implements the abstract swap.                                              *)
THEOREM OnchainRefinesSwap == ASSUME Solo, Legacies = {FALSE} PROVE Spec => ImplementsAtomicSwap
<1>1. Init => Swap!Init
  <2> SUFFICES ASSUME Init PROVE Swap!Init
    OBVIOUS
  <2>1. lockup = "none" /\ \A t \in Tx : htlc[t].kind = "none"
    BY DEF Init, Unspent
  <2> QED
    <3>1. ClientLeg = "none"
      BY <2>1 DEF ClientLeg, Held
    <3>2. PayoutLeg = "none"
      BY <2>1 DEF PayoutLeg
    <3> QED
      BY <3>1, <3>2 DEF Swap!Init
<1>2. AtomicInv /\ AtomicInv' /\ [Next]_vars => [Swap!Next]_(Swap!vars)
  BY SwapStep
<1> QED
  BY <1>1, <1>2, AtomicInit, AtomicStep, PTL DEF Spec, ImplementsAtomicSwap, Swap!Spec
============================================================================
