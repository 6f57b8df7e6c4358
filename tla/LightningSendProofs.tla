------------------------ MODULE LightningSendProofs ------------------------
(***************************************************************************)
(* What holds of a Lightning send swap for every deadline and grace, and   *)
(* any number of crashes and failed calls: first with any number of        *)
(* processes ticking the row on stale copies of it, then, with one         *)
(* process, that no lockup is given back while its payment may succeed.    *)
(***************************************************************************)
EXTENDS LightningSend, TLAPS

----------------------------------------------------------------------------
(* The inductive invariant for any number of processes. *)

(* The payout has reached the client, over Lightning or on the coupled row. *)
Earned(p, q) == p = "settled" \/ q = "revealed"

(* Whatever a tick is about to collect with, it has from a payout that       *)
(* reached the client.                                                       *)
TickEarned(j, p, q) ==
  /\ j.row.preimage \/ j.row.state = "claiming" \/ j.result = "settled" => Earned(p, q)
  /\ j.pc \in {"toClaiming", "claim", "evidence", "markClaimed"} => Earned(p, q)
  /\ j.pc = "markPaid" /\ j.byProbe => Earned(p, q)
  /\ j.pc \in {"step", "startPay", "submit", "response", "patchPayment"} => ~j.byProbe

(* A tick past its dispatch works on a row of the state it was dispatched on. *)
TickPlaced(j) ==
  /\ j.pc = "submit" => j.row.state = "paying"
  /\ j.pc \in {"response", "patchPayment", "markPaid", "verdict", "pushRefund", "toClaiming", "terminal"}
       => j.row.state \in {"paying", "paid"}
  /\ j.pc \in {"findRefund", "refund", "patchRefund"} /\ ~j.closed => j.row.state \in {"paying", "paid"}

(* No tick of a self-payment is on its way to pay. *)
TickCoupled(j, q) == q # "none" => j.row.state \notin {"paying", "paid"} /\ j.pc # "startPay"

(* What a tick is about to record has happened. *)
TickTruthful(j, l) ==
  /\ j.pc = "markClaimed" => l = "claimed"
  /\ j.pc = "patchRefund" /\ j.seen # "many" => l = "refunded"

TickSound(j, p, q, l) ==
  TickEarned(j, p, q) /\ TickPlaced(j) /\ TickCoupled(j, q) /\ TickTruthful(j, l)

TicksSound == \A d \in Driver : TickSound(job[d], pay, peer, lockup)

RowSound ==
  /\ row.preimage \/ row.state \in {"claiming", "claimed"} => Earned(pay, peer)
  /\ CollectsOnlyWhatItPaidFor
  /\ peer # "none" => pay = "none" /\ row.state \notin {"paying", "paid"}
  /\ RowTellsTheTruth
  /\ sweeper.pc = "patch" /\ sweeper.seen # "many" => lockup = "refunded"

Inv == TypeOK /\ TicksSound /\ RowSound

----------------------------------------------------------------------------
(* Types. *)

(* What a tick starts from and ends with. *)
LEMMA IdleType == NewRow \in Row /\ Idle \in Job
BY DEF Idle, NewRow, Job, Row, Steps, SendSwapState, Wallets, NeverTried, Results, Verdicts, Lockups

(* A refusal leaves a row. *)
LEMMA FailType ==
  ASSUME row \in Row, NEW from, fail(from)
  PROVE  row' \in Row
BY DEF fail, failState, transition, Row, SendSwapState

(* What a tick does about the answer of the probe by hash. *)
LEMMA ProbeMoves ==
  ASSUME job \in [Driver -> Job], pay \in PayStates, NEW d \in Driver, PayingProbed(d)
  PROVE  \/ job' = [job EXCEPT ![d] = Idle]
         \/ /\ pay = "settled"
            /\ job' = [job EXCEPT ![d] = [job[d] EXCEPT !.pc = "markPaid", !.result = "settled", !.byProbe = TRUE]]
         \/ /\ pay = "failed"
            /\ job' = [job EXCEPT ![d] = [job[d] EXCEPT !.pc = "verdict", !.result = "failed", !.byProbe = TRUE]]
         \/ /\ pay \in Unseen /\ ~WithinGrace(job[d].row)
            /\ job' = [job EXCEPT ![d] = [job[d] EXCEPT !.pc = "submit", !.fresh = TRUE]]
<1> DEFINE paid == [job[d] EXCEPT !.pc = "markPaid", !.result = "settled", !.byProbe = TRUE]
           failed == [job[d] EXCEPT !.pc = "verdict", !.result = "failed", !.byProbe = TRUE]
           resubmit == [job[d] EXCEPT !.pc = "submit", !.fresh = TRUE]
<1>1. pay \in {"inflight", "settled", "failed"} \cup Unseen
  BY DEF PayStates, Unseen
<1>2. job' = [job EXCEPT ![d] = CASE pay = "inflight" -> Idle
                                  [] pay = "settled" -> paid
                                  [] pay = "failed" -> failed
                                  [] pay \in Unseen -> IF WithinGrace(job[d].row) THEN Idle ELSE resubmit]
  BY DEF PayingProbed
<1> HIDE DEF paid, failed, resubmit
<1>3. \/ job' = [job EXCEPT ![d] = Idle]
      \/ pay = "settled" /\ job' = [job EXCEPT ![d] = paid]
      \/ pay = "failed" /\ job' = [job EXCEPT ![d] = failed]
      \/ pay \in Unseen /\ ~WithinGrace(job[d].row) /\ job' = [job EXCEPT ![d] = resubmit]
  BY <1>1, <1>2 DEF Unseen
<1> QED
  BY <1>3 DEF paid, failed, resubmit

(* What a tick does about the polled state of a payment it knows. *)
LEMMA SettleMoves ==
  ASSUME job \in [Driver -> Job], pay \in PayStates, NEW d \in Driver, settleFromBackend(d)
  PROVE  \/ job' = [job EXCEPT ![d] = Idle]
         \/ /\ job[d].row.preimage \/ pay = "settled"
            /\ job' = [job EXCEPT ![d] = [job[d] EXCEPT !.pc = "toClaiming"]]
         \/ /\ \/ PayAsSeen(job[d].row) \in Unseen /\ ~WithinGrace(job[d].row)
               \/ pay = "failed"
            /\ job' = [job EXCEPT ![d] = [job[d] EXCEPT !.pc = "verdict", !.result = "failed"]]
         \/ job' = [job EXCEPT ![d] = [job[d] EXCEPT !.pc = "markPaid", !.result = "pending"]]
         \/ /\ pay = "settled"
            /\ job' = [job EXCEPT ![d] = [job[d] EXCEPT !.pc = "markPaid", !.result = "settled"]]
<1> DEFINE r == job[d].row
           polled == PayAsSeen(r)
           claim == [job[d] EXCEPT !.pc = "toClaiming"]
           failed == [job[d] EXCEPT !.pc = "verdict", !.result = "failed"]
           pending == [job[d] EXCEPT !.pc = "markPaid", !.result = "pending"]
           settled == [job[d] EXCEPT !.pc = "markPaid", !.result = "settled"]
<1>1. polled \in PayStates /\ (polled # "none" => polled = pay) /\ r.payId \in BOOLEAN
  BY DEF PayAsSeen, PayStates, Job, Row
<1>2. job' = [job EXCEPT ![d] =
        CASE ~r.payId -> IF r.preimage THEN claim ELSE Idle
          [] r.payId /\ polled \in Unseen -> IF WithinGrace(r) THEN Idle ELSE failed
          [] r.payId /\ polled = "failed" -> failed
          [] r.payId /\ polled = "inflight" -> IF r.state = "paying" THEN pending ELSE Idle
          [] r.payId /\ polled = "settled" -> IF r.state = "paying" THEN settled ELSE claim]
  BY DEF settleFromBackend
<1> HIDE DEF r, polled, claim, failed, pending, settled
<1>3. \/ job' = [job EXCEPT ![d] = Idle]
      \/ (r.preimage \/ pay = "settled") /\ job' = [job EXCEPT ![d] = claim]
      \/ ((polled \in Unseen /\ ~WithinGrace(r)) \/ pay = "failed") /\ job' = [job EXCEPT ![d] = failed]
      \/ job' = [job EXCEPT ![d] = pending]
      \/ pay = "settled" /\ job' = [job EXCEPT ![d] = settled]
  BY <1>1, <1>2 DEF PayStates, Unseen
<1> QED
  BY <1>3 DEF r, polled, claim, failed, pending, settled

(* A driver's step keeps the types. *)
LEMMA DriverTypes ==
  ASSUME TypeOK, NEW d \in Driver, DriverStep(d) \/ Abandon(d)
  PROVE  /\ TypeOK'
         /\ job' = [job EXCEPT ![d] = job'[d]]
<1> DEFINE Others == /\ sweeper \in [pc : SweepSteps, seen : Lockups]
                     /\ lockup \in Lockups /\ pay \in PayStates /\ own \in OwnStates
                     /\ peer \in PeerStates /\ config \in Config /\ clock \in Nat /\ faults \in Nat
<1>a. row \in Row /\ job \in [Driver -> Job] /\ Others
  BY DEF TypeOK
<1>b. ASSUME row' \in Row, Others', NEW k \in Job, job' = [job EXCEPT ![d] = k]
      PROVE  TypeOK' /\ job' = [job EXCEPT ![d] = job'[d]]
  BY <1>a, <1>b DEF TypeOK
<1>c. job[d] \in Job
  BY <1>a
<1>d. ASSUME Done(d) PROVE \E k \in Job : job' = [job EXCEPT ![d] = k]
  BY <1>d, IdleType DEF Done
<1>e. ASSUME NEW pc \in Steps, Goto(d, pc) PROVE \E k \in Job : job' = [job EXCEPT ![d] = k]
  <2> DEFINE k == [job[d] EXCEPT !.pc = pc]
  <2>1. k \in Job
    BY <1>c, <1>e DEF Job
  <2>2. job' = [job EXCEPT ![d] = k]
    BY <1>a, <1>e DEF Goto
  <2> QED
    BY <2>1, <2>2
<1>f. clock \in Int /\ config.wallet \in Wallets
  BY <1>a DEF Config
<1>1. ASSUME Tick(d) PROVE TypeOK' /\ job' = [job EXCEPT ![d] = job'[d]]
  <2>1. row' \in Row
    BY <1>1, <1>a DEF Tick
  <2>2. Others'
    BY <1>1, <1>a DEF Tick, env
  <2>3. \E k \in Job : job' = [job EXCEPT ![d] = k]
    BY <1>1, <1>a, <1>c, <1>e, <2>1, IdleType DEF Tick, Job, Steps, Results, Verdicts, Idle
  <2> QED
    BY <1>b, <2>1, <2>2, <2>3
<1>2. ASSUME whenQuoted(d) PROVE TypeOK' /\ job' = [job EXCEPT ![d] = job'[d]]
  <2>1. row' \in Row
    BY <1>2, <1>a DEF whenQuoted
  <2>2. Others'
    BY <1>2, <1>a DEF whenQuoted, env
  <2>3. \E k \in Job : job' = [job EXCEPT ![d] = k]
    BY <1>2, <1>a, <1>c, <1>e, <2>1, IdleType DEF whenQuoted, Job, Steps, Results, Verdicts, Idle
  <2> QED
    BY <1>b, <2>1, <2>2, <2>3
<1>3. ASSUME PatchValue(d) PROVE TypeOK' /\ job' = [job EXCEPT ![d] = job'[d]]
  <2>1. row' \in Row
    BY <1>3, <1>a DEF PatchValue, Row, SendSwapState, Config
  <2>2. Others'
    BY <1>3, <1>a DEF PatchValue, env
  <2>3. \E k \in Job : job' = [job EXCEPT ![d] = k]
    BY <1>3, <1>d, <1>e DEF PatchValue, Steps
  <2> QED
    BY <1>b, <2>1, <2>2, <2>3
<1>4. ASSUME FailQuoted(d) PROVE TypeOK' /\ job' = [job EXCEPT ![d] = job'[d]]
  <2>1. row' \in Row
    BY <1>4, <1>a, FailType DEF FailQuoted
  <2>2. Others'
    BY <1>4, <1>a DEF FailQuoted, env
  <2>3. \E k \in Job : job' = [job EXCEPT ![d] = k]
    BY <1>4, <1>d, <1>e DEF FailQuoted, Steps
  <2> QED
    BY <1>b, <2>1, <2>2, <2>3
<1>5. ASSUME Fund(d) PROVE TypeOK' /\ job' = [job EXCEPT ![d] = job'[d]]
  <2>1. row' \in Row
    BY <1>5, <1>a DEF Fund, transition, Won, Row, SendSwapState, Config
  <2>2. Others'
    BY <1>5, <1>a DEF Fund, env
  <2>3. \E k \in Job : job' = [job EXCEPT ![d] = k]
    BY <1>5, <1>d, <1>e DEF Fund, Steps
  <2> QED
    BY <1>b, <2>1, <2>2, <2>3
<1>6. ASSUME FundedKeyRotated(d) PROVE TypeOK' /\ job' = [job EXCEPT ![d] = job'[d]]
  <2>1. row' \in Row
    BY <1>6, <1>a, FailType DEF FundedKeyRotated
  <2>2. Others'
    BY <1>6, <1>a DEF FundedKeyRotated, env
  <2>3. \E k \in Job : job' = [job EXCEPT ![d] = k]
    BY <1>6, <1>d, <1>e DEF FundedKeyRotated, Steps
  <2> QED
    BY <1>b, <2>1, <2>2, <2>3
<1>7. ASSUME FundedCoupled(d) PROVE TypeOK' /\ job' = [job EXCEPT ![d] = job'[d]]
  <2>1. row' \in Row
    BY <1>7, <1>a, FailType DEF FundedCoupled, transition, Won, Row, SendSwapState, Config
  <2>2. Others'
    BY <1>7, <1>a DEF FundedCoupled, env
  <2>3. \E k \in Job : job' = [job EXCEPT ![d] = k]
    BY <1>7, <1>d, <1>e DEF FundedCoupled, Steps
  <2> QED
    BY <1>b, <2>1, <2>2, <2>3
<1>8. ASSUME FundedPeerRefused(d) PROVE TypeOK' /\ job' = [job EXCEPT ![d] = job'[d]]
  <2>1. row' \in Row
    BY <1>8, <1>a DEF FundedPeerRefused
  <2>2. Others'
    BY <1>8, <1>a DEF FundedPeerRefused, env
  <2>3. \E k \in Job : job' = [job EXCEPT ![d] = k]
    BY <1>8, <1>d, <1>e DEF FundedPeerRefused, Steps
  <2> QED
    BY <1>b, <2>1, <2>2, <2>3
<1>9. ASSUME RefuseCoupled(d) PROVE TypeOK' /\ job' = [job EXCEPT ![d] = job'[d]]
  <2>1. row' \in Row
    BY <1>9, <1>a DEF RefuseCoupled, transition, Won, Row, SendSwapState, Config
  <2>2. Others'
    BY <1>9, <1>a DEF RefuseCoupled, env
  <2>3. \E k \in Job : job' = [job EXCEPT ![d] = k]
    BY <1>9, <1>a, <1>c, <1>e, <2>1, IdleType DEF RefuseCoupled, Job, Steps, Results, Verdicts, Idle
  <2> QED
    BY <1>b, <2>1, <2>2, <2>3
<1>10. ASSUME FundedDecides(d) PROVE TypeOK' /\ job' = [job EXCEPT ![d] = job'[d]]
  <2>1. row' \in Row
    BY <1>10, <1>a, FailType DEF FundedDecides
  <2>2. Others'
    BY <1>10, <1>a DEF FundedDecides, env
  <2>3. \E k \in Job : job' = [job EXCEPT ![d] = k]
    BY <1>10, <1>d, <1>e DEF FundedDecides, Steps
  <2> QED
    BY <1>b, <2>1, <2>2, <2>3
<1>11. ASSUME StartPay(d) PROVE TypeOK' /\ job' = [job EXCEPT ![d] = job'[d]]
  <2>1. row' \in Row
    BY <1>11, <1>a, <1>f DEF StartPay, transition, Won, Row, SendSwapState, Config
  <2>2. Others'
    BY <1>11, <1>a DEF StartPay, env
  <2>3. \E k \in Job : job' = [job EXCEPT ![d] = k]
    BY <1>11, <1>a, <1>c, <1>e, <2>1, IdleType DEF StartPay, Job, Steps, Results, Verdicts, Idle
  <2> QED
    BY <1>b, <2>1, <2>2, <2>3
<1>12. ASSUME PayingForeign(d) PROVE TypeOK' /\ job' = [job EXCEPT ![d] = job'[d]]
  <2>1. row' \in Row
    BY <1>12, <1>a, FailType DEF PayingForeign
  <2>2. Others'
    BY <1>12, <1>a DEF PayingForeign, env
  <2>3. \E k \in Job : job' = [job EXCEPT ![d] = k]
    BY <1>12, <1>d, <1>e DEF PayingForeign, Steps
  <2> QED
    BY <1>b, <2>1, <2>2, <2>3
<1>13. ASSUME PayingProbed(d) PROVE TypeOK' /\ job' = [job EXCEPT ![d] = job'[d]]
  <2>1. row' \in Row
    BY <1>13, <1>a DEF PayingProbed
  <2>2. Others'
    BY <1>13, <1>a DEF PayingProbed, env
  <2>3. \E k \in Job : job' = [job EXCEPT ![d] = k]
    <3>1. /\ [job[d] EXCEPT !.pc = "markPaid", !.result = "settled", !.byProbe = TRUE] \in Job
          /\ [job[d] EXCEPT !.pc = "verdict", !.result = "failed", !.byProbe = TRUE] \in Job
          /\ [job[d] EXCEPT !.pc = "submit", !.fresh = TRUE] \in Job
      BY <1>c DEF Job, Steps, Results
    <3> QED
      BY <1>13, <1>a, <3>1, ProbeMoves, IdleType
  <2> QED
    BY <1>b, <2>1, <2>2, <2>3
<1>14. ASSUME PayingNoPreimage(d) PROVE TypeOK' /\ job' = [job EXCEPT ![d] = job'[d]]
  <2>1. row' \in Row
    BY <1>14, <1>a, FailType DEF PayingNoPreimage
  <2>2. Others'
    BY <1>14, <1>a DEF PayingNoPreimage, env
  <2>3. \E k \in Job : job' = [job EXCEPT ![d] = k]
    BY <1>14, <1>d, <1>e DEF PayingNoPreimage, Steps
  <2> QED
    BY <1>b, <2>1, <2>2, <2>3
<1>15. ASSUME PayingUnprobed(d) PROVE TypeOK' /\ job' = [job EXCEPT ![d] = job'[d]]
  <2>1. row' \in Row
    BY <1>15, <1>a DEF PayingUnprobed
  <2>2. Others'
    BY <1>15, <1>a DEF PayingUnprobed, env
  <2>3. \E k \in Job : job' = [job EXCEPT ![d] = k]
    BY <1>15, <1>d, <1>e DEF PayingUnprobed, Steps
  <2> QED
    BY <1>b, <2>1, <2>2, <2>3
<1>16. ASSUME SubmitRefused(d) PROVE TypeOK' /\ job' = [job EXCEPT ![d] = job'[d]]
  <2>1. row' \in Row
    BY <1>16, <1>a, FailType DEF SubmitRefused, transition, Won, Row, SendSwapState, Config
  <2>2. Others'
    BY <1>16, <1>a DEF SubmitRefused, env
  <2>3. \E k \in Job : job' = [job EXCEPT ![d] = k]
    BY <1>16, <1>d, <1>e DEF SubmitRefused, Steps
  <2> QED
    BY <1>b, <2>1, <2>2, <2>3
<1>17. ASSUME payInvoice(d) PROVE TypeOK' /\ job' = [job EXCEPT ![d] = job'[d]]
  <2>1. row' \in Row
    BY <1>17, <1>a DEF payInvoice
  <2>2. Others'
    BY <1>17, <1>a DEF payInvoice, env, PayStates
  <2>3. \E k \in Job : job' = [job EXCEPT ![d] = k]
    BY <1>17, <1>d, <1>e DEF payInvoice, Steps
  <2> QED
    BY <1>b, <2>1, <2>2, <2>3
<1>18. ASSUME payInvoiceNotStarted(d) PROVE TypeOK' /\ job' = [job EXCEPT ![d] = job'[d]]
  <2>1. row' \in Row
    BY <1>18, <1>a DEF payInvoiceNotStarted, transition, Won, Row, SendSwapState, Config
  <2>2. Others'
    BY <1>18, <1>a DEF payInvoiceNotStarted, env
  <2>3. \E k \in Job : job' = [job EXCEPT ![d] = k]
    <3> DEFINE refused == [job[d] EXCEPT !.pc = "findRefund", !.closed = TRUE]
               failed == [job[d] EXCEPT !.pc = "patchPayment", !.result = "failed"]
    <3>1. {refused, failed, Idle} \subseteq Job
      BY <1>c, IdleType DEF Job, Steps, Results
    <3>2. \/ job' = [job EXCEPT ![d] = Idle] \/ job' = [job EXCEPT ![d] = refused]
          \/ job' = [job EXCEPT ![d] = failed]
      BY <1>18, <1>a DEF payInvoiceNotStarted
    <3> QED
      BY <3>1, <3>2
  <2> QED
    BY <1>b, <2>1, <2>2, <2>3
<1>19. ASSUME PayResponse(d) PROVE TypeOK' /\ job' = [job EXCEPT ![d] = job'[d]]
  <2>1. row' \in Row
    BY <1>19, <1>a DEF PayResponse
  <2>2. Others'
    BY <1>19, <1>a DEF PayResponse, env
  <2>3. \E k \in Job : job' = [job EXCEPT ![d] = k]
    BY <1>19, <1>a, <1>c, <1>e, <2>1, IdleType DEF PayResponse, Job, Steps, Results, Verdicts, Idle
  <2> QED
    BY <1>b, <2>1, <2>2, <2>3
<1>20. ASSUME whenHashBlocked(d) PROVE TypeOK' /\ job' = [job EXCEPT ![d] = job'[d]]
  <2>1. row' \in Row
    BY <1>20, <1>a, FailType DEF whenHashBlocked
  <2>2. Others'
    BY <1>20, <1>a DEF whenHashBlocked, env
  <2>3. \E k \in Job : job' = [job EXCEPT ![d] = k]
    BY <1>20, <1>d, <1>e DEF whenHashBlocked, Steps
  <2> QED
    BY <1>b, <2>1, <2>2, <2>3
<1>21. ASSUME PatchPayment(d) PROVE TypeOK' /\ job' = [job EXCEPT ![d] = job'[d]]
  <2>1. row' \in Row
    BY <1>21, <1>a, <1>f DEF PatchPayment, Row, SendSwapState, Config
  <2>2. Others'
    BY <1>21, <1>a DEF PatchPayment, env
  <2>3. \E k \in Job : job' = [job EXCEPT ![d] = k]
    BY <1>21, <1>d, <1>e DEF PatchPayment, Steps
  <2> QED
    BY <1>b, <2>1, <2>2, <2>3
<1>22. ASSUME settleFromBackend(d) PROVE TypeOK' /\ job' = [job EXCEPT ![d] = job'[d]]
  <2>1. row' \in Row
    BY <1>22, <1>a DEF settleFromBackend
  <2>2. Others'
    BY <1>22, <1>a DEF settleFromBackend, env
  <2>3. \E k \in Job : job' = [job EXCEPT ![d] = k]
    <3>1. /\ [job[d] EXCEPT !.pc = "toClaiming"] \in Job
          /\ [job[d] EXCEPT !.pc = "verdict", !.result = "failed"] \in Job
          /\ [job[d] EXCEPT !.pc = "markPaid", !.result = "pending"] \in Job
          /\ [job[d] EXCEPT !.pc = "markPaid", !.result = "settled"] \in Job
      BY <1>c DEF Job, Steps, Results
    <3> QED
      BY <1>22, <1>a, <3>1, SettleMoves, IdleType
  <2> QED
    BY <1>b, <2>1, <2>2, <2>3
<1>23. ASSUME MarkPaid(d) PROVE TypeOK' /\ job' = [job EXCEPT ![d] = job'[d]]
  <2>1. row' \in Row
    BY <1>23, <1>a DEF MarkPaid, transition, Won, Row, SendSwapState, Config
  <2>2. Others'
    BY <1>23, <1>a DEF MarkPaid, env
  <2>3. \E k \in Job : job' = [job EXCEPT ![d] = k]
    BY <1>23, <1>a, <1>c, <1>e, <2>1, IdleType DEF MarkPaid, Job, Steps, Results, Verdicts, Idle
  <2> QED
    BY <1>b, <2>1, <2>2, <2>3
<1>24. ASSUME claimWithPreimage(d) PROVE TypeOK' /\ job' = [job EXCEPT ![d] = job'[d]]
  <2>1. row' \in Row
    BY <1>24, <1>a, FailType DEF claimWithPreimage, transition, Won, Row, SendSwapState, Config
  <2>2. Others'
    BY <1>24, <1>a DEF claimWithPreimage, env
  <2>3. \E k \in Job : job' = [job EXCEPT ![d] = k]
    BY <1>24, <1>d, <1>e DEF claimWithPreimage, Steps
  <2> QED
    BY <1>b, <2>1, <2>2, <2>3
<1>25. ASSUME refundProvenSelfPayment(d) PROVE TypeOK' /\ job' = [job EXCEPT ![d] = job'[d]]
  <2>1. row' \in Row
    BY <1>25, <1>a DEF refundProvenSelfPayment, transition, Won, Row, SendSwapState, Config
  <2>2. Others'
    BY <1>25, <1>a DEF refundProvenSelfPayment, env
  <2>3. \E k \in Job : job' = [job EXCEPT ![d] = k]
    BY <1>25, <1>a, <1>c, <1>e, <2>1, IdleType DEF refundProvenSelfPayment, Job, Steps, Results,
         Verdicts, Idle
  <2> QED
    BY <1>b, <2>1, <2>2, <2>3
<1>26. ASSUME FindRefund(d) PROVE TypeOK' /\ job' = [job EXCEPT ![d] = job'[d]]
  <2>1. row' \in Row
    BY <1>26, <1>a DEF FindRefund, Row, SendSwapState, Config
  <2>2. Others'
    BY <1>26, <1>a DEF FindRefund, env
  <2>3. \E k \in Job : job' = [job EXCEPT ![d] = k]
    <3> DEFINE found == [job[d] EXCEPT !.pc = "refund", !.seen = lockup,
                                       !.closed = @ \/ job[d].pc = "pushRefund"]
               terminal == [job[d] EXCEPT !.pc = "terminal"]
    <3>1. {found, terminal, Idle} \subseteq Job
      BY <1>a, <1>c, IdleType DEF Job, Steps
    <3>2. \/ job' = [job EXCEPT ![d] = Idle] \/ job' = [job EXCEPT ![d] = found]
          \/ job' = [job EXCEPT ![d] = terminal]
      BY <1>26, <1>a DEF FindRefund
    <3> QED
      BY <3>1, <3>2
  <2> QED
    BY <1>b, <2>1, <2>2, <2>3
<1>27. ASSUME Refund(d) PROVE TypeOK' /\ job' = [job EXCEPT ![d] = job'[d]]
  <2>1. row' \in Row
    BY <1>27, <1>a DEF Refund
  <2>2. Others'
    BY <1>27, <1>a DEF Refund, env, Lockups, Held, Spent, AfterRefund
  <2>3. \E k \in Job : job' = [job EXCEPT ![d] = k]
    <3> DEFINE terminal == [job[d] EXCEPT !.pc = "terminal"]
    <3>1. {terminal, Idle} \subseteq Job
      BY <1>c, IdleType DEF Job, Steps
    <3>2. Goto(d, "patchRefund") \/ job' = [job EXCEPT ![d] = Idle] \/ job' = [job EXCEPT ![d] = terminal]
      BY <1>27 DEF Refund
    <3> QED
      BY <1>e, <3>1, <3>2 DEF Steps
  <2> QED
    BY <1>b, <2>1, <2>2, <2>3
<1>28. ASSUME RefundFails(d) PROVE TypeOK' /\ job' = [job EXCEPT ![d] = job'[d]]
  <2>1. row' \in Row
    BY <1>28, <1>a DEF RefundFails
  <2>2. Others'
    BY <1>28, <1>a DEF RefundFails, env, Lockups, Held, Spent, AfterRefund
  <2>3. \E k \in Job : job' = [job EXCEPT ![d] = k]
    BY <1>28, <1>a, <1>c, <1>e, <2>1, IdleType DEF RefundFails, Job, Steps, Results, Verdicts, Idle
  <2> QED
    BY <1>b, <2>1, <2>2, <2>3
<1>29. ASSUME PatchRefund(d) PROVE TypeOK' /\ job' = [job EXCEPT ![d] = job'[d]]
  <2>1. row' \in Row
    BY <1>29, <1>a DEF PatchRefund, Row, SendSwapState, Config
  <2>2. Others'
    BY <1>29, <1>a DEF PatchRefund, env
  <2>3. \E k \in Job : job' = [job EXCEPT ![d] = k]
    BY <1>29, <1>a, <1>c, <1>e, <2>1, IdleType DEF PatchRefund, Job, Steps, Results, Verdicts, Idle
  <2> QED
    BY <1>b, <2>1, <2>2, <2>3
<1>30. ASSUME settleTerminalFailure(d) PROVE TypeOK' /\ job' = [job EXCEPT ![d] = job'[d]]
  <2>1. row' \in Row
    BY <1>30, <1>a, FailType DEF settleTerminalFailure, transition, Won, Row, SendSwapState, Config
  <2>2. Others'
    BY <1>30, <1>a DEF settleTerminalFailure, env
  <2>3. \E k \in Job : job' = [job EXCEPT ![d] = k]
    BY <1>30, <1>d, <1>e DEF settleTerminalFailure, Steps
  <2> QED
    BY <1>b, <2>1, <2>2, <2>3
<1>31. ASSUME whenClaiming(d) PROVE TypeOK' /\ job' = [job EXCEPT ![d] = job'[d]]
  <2>1. row' \in Row
    BY <1>31, <1>a DEF whenClaiming
  <2>2. Others'
    BY <1>31, <1>a DEF whenClaiming, env
  <2>3. \E k \in Job : job' = [job EXCEPT ![d] = k]
    BY <1>31, <1>d, <1>e DEF whenClaiming, Steps
  <2> QED
    BY <1>b, <2>1, <2>2, <2>3
<1>32. ASSUME Claim(d) PROVE TypeOK' /\ job' = [job EXCEPT ![d] = job'[d]]
  <2>1. row' \in Row
    BY <1>32, <1>a DEF Claim
  <2>2. Others'
    BY <1>32, <1>a DEF Claim, env, Lockups, Held, Spent, AfterRefund
  <2>3. \E k \in Job : job' = [job EXCEPT ![d] = k]
    BY <1>32, <1>d, <1>e DEF Claim, Steps
  <2> QED
    BY <1>b, <2>1, <2>2, <2>3
<1>33. ASSUME ClaimFails(d) PROVE TypeOK' /\ job' = [job EXCEPT ![d] = job'[d]]
  <2>1. row' \in Row
    BY <1>33, <1>a, FailType DEF ClaimFails
  <2>2. Others'
    BY <1>33, <1>a DEF ClaimFails, env, Lockups, Held, Spent, AfterRefund
  <2>3. \E k \in Job : job' = [job EXCEPT ![d] = k]
    BY <1>33, <1>d, <1>e DEF ClaimFails, Steps
  <2> QED
    BY <1>b, <2>1, <2>2, <2>3
<1>34. ASSUME ClaimEvidence(d) PROVE TypeOK' /\ job' = [job EXCEPT ![d] = job'[d]]
  <2>1. row' \in Row
    BY <1>34, <1>a, FailType DEF ClaimEvidence
  <2>2. Others'
    BY <1>34, <1>a DEF ClaimEvidence, env, Lockups, Held, Spent, AfterRefund
  <2>3. \E k \in Job : job' = [job EXCEPT ![d] = k]
    BY <1>34, <1>d, <1>e DEF ClaimEvidence, Steps
  <2> QED
    BY <1>b, <2>1, <2>2, <2>3
<1>35. ASSUME MarkClaimed(d) PROVE TypeOK' /\ job' = [job EXCEPT ![d] = job'[d]]
  <2>1. row' \in Row
    BY <1>35, <1>a DEF MarkClaimed, transition, Won, Row, SendSwapState, Config
  <2>2. Others'
    BY <1>35, <1>a DEF MarkClaimed, env
  <2>3. \E k \in Job : job' = [job EXCEPT ![d] = k]
    BY <1>35, <1>d, <1>e DEF MarkClaimed, Steps
  <2> QED
    BY <1>b, <2>1, <2>2, <2>3
<1>36. ASSUME Abandon(d) PROVE TypeOK' /\ job' = [job EXCEPT ![d] = job'[d]]
  <2>1. row' \in Row
    BY <1>36, <1>a DEF Abandon
  <2>2. Others'
    BY <1>36, <1>a DEF Abandon, env
  <2>3. \E k \in Job : job' = [job EXCEPT ![d] = k]
    BY <1>36, <1>d, <1>e DEF Abandon, Steps
  <2> QED
    BY <1>b, <2>1, <2>2, <2>3
<1> QED
  BY <1>1, <1>2, <1>3, <1>4, <1>5, <1>6, <1>7, <1>8, <1>9, <1>10, <1>11, <1>12, <1>13, <1>14, <1>15,
       <1>16, <1>17, <1>18, <1>19, <1>20, <1>21, <1>22, <1>23, <1>24, <1>25, <1>26, <1>27, <1>28,
       <1>29, <1>30, <1>31, <1>32, <1>33, <1>34, <1>35, <1>36 DEF DriverStep

(* Every step keeps the types. *)
LEMMA TypeStep ==
  ASSUME TypeOK, [Next]_vars
  PROVE  TypeOK'
<1>a. /\ row \in Row /\ job \in [Driver -> Job] /\ sweeper \in [pc : SweepSteps, seen : Lockups]
      /\ lockup \in Lockups /\ pay \in PayStates /\ own \in OwnStates
      /\ peer \in PeerStates /\ config \in Config /\ clock \in Nat /\ faults \in Nat
  BY DEF TypeOK
<1>1. CASE refundSweep
  BY <1>1, <1>a DEF refundSweep, TypeOK, env, SweepSteps
<1>2. CASE SweepFind
  BY <1>2, <1>a DEF SweepFind, TypeOK, env, Row, Lockups, Held, Spent, SweepSteps
<1>3. CASE SweepRefund
  BY <1>3, <1>a DEF SweepRefund, TypeOK, env, AfterRefund, Lockups, Held, Spent, SweepSteps
<1>4. CASE SweepPatch
  BY <1>4, <1>a DEF SweepPatch, TypeOK, env, Row, Lockups, Held, Spent, SweepSteps
<1>5. CASE SweepAbandon
  BY <1>5, <1>a DEF SweepAbandon, TypeOK, env, Lockups, Held, Spent, SweepSteps
<1>6. CASE Reconfigure
  <2>1. config' \in Config
    BY <1>6, <1>a DEF Reconfigure, Config, Wallets
  <2>2. job' \in [Driver -> Job]
    BY <1>6, IdleType DEF Reconfigure
  <2>3. sweeper' \in [pc : SweepSteps, seen : Lockups]
    BY <1>6 DEF Reconfigure, SweepSteps, Lockups
  <2> QED
    BY <1>6, <1>a, <2>1, <2>2, <2>3 DEF Reconfigure, TypeOK
<1>7. CASE ClientFunds
  BY <1>7, <1>a DEF ClientFunds, TypeOK, env, Held, Lockups, Spent, SweepSteps
<1>8. CASE ClientReclaims
  BY <1>8, <1>a DEF ClientReclaims, TypeOK, env, Spent, Lockups, Held, SweepSteps
<1>9. CASE PayRecorded
  BY <1>9, <1>a DEF PayRecorded, TypeOK, env, PayStates
<1>10. CASE PaySettles
  BY <1>10, <1>a DEF PaySettles, TypeOK, env, PayStates, OwnStates
<1>11. CASE PayFails
  BY <1>11, <1>a DEF PayFails, TypeOK, env, PayStates
<1>12. CASE OwnInvoiceMoves
  BY <1>12, <1>a DEF OwnInvoiceMoves, TypeOK, env, OwnStates
<1>13. CASE PeerMoves
  BY <1>13, <1>a DEF PeerMoves, TypeOK, env, PeerStates, OwnStates
<1>14. CASE Advance
  BY <1>14, <1>a DEF Advance, TypeOK, env
<1>15. CASE UNCHANGED vars
  BY <1>15, <1>a DEF vars, TypeOK
<1> QED
  BY <1>1, <1>2, <1>3, <1>4, <1>5, <1>6, <1>7, <1>8, <1>9, <1>10, <1>11, <1>12, <1>13, <1>14, <1>15,
       DriverTypes DEF Next, SweepStep, Faults, Environment, Network

----------------------------------------------------------------------------
(* Any number of processes. *)

(* What a step may never undo: a payout that reached the client, and a spend  *)
(* of the lockup.  Whether the hash is a self-payment is settled at the quote. *)
Lasting ==
  /\ Earned(pay, peer) => Earned(pay', peer')
  /\ peer' # "none" => peer # "none"
  /\ lockup \in {"claimed", "refunded"} => lockup' = lockup

(* So a tick that no step of its own touches stays sound. *)
LEMMA OtherTicks ==
  ASSUME NEW j, TickSound(j, pay, peer, lockup), Lasting
  PROVE  TickSound(j, pay', peer', lockup')
BY DEF TickSound, TickEarned, TickPlaced, TickCoupled, TickTruthful, Lasting

(* An idle tick is about to do nothing. *)
LEMMA IdleSound ==
  ASSUME NEW p, NEW q, NEW l
  PROVE  TickSound(Idle, p, q, l)
BY DEF TickSound, TickEarned, TickPlaced, TickCoupled, TickTruthful, Idle, NewRow

(* A driver's step leaves its tick and the row sound. *)
LEMMA DriverSound ==
  ASSUME Inv, NEW d \in Driver, DriverStep(d) \/ Abandon(d)
  PROVE  TickSound(job'[d], pay', peer', lockup') /\ RowSound' /\ Lasting
<1> DEFINE Goal == TickSound(job'[d], pay', peer', lockup') /\ RowSound' /\ Lasting
<1>a. /\ row \in Row /\ job \in [Driver -> Job] /\ sweeper \in [pc : SweepSteps, seen : Lockups]
      /\ lockup \in Lockups /\ pay \in PayStates /\ peer \in PeerStates
  BY DEF Inv, TypeOK
<1>c. job[d] \in Job /\ job[d].row \in Row
  BY <1>a DEF Job
<1>t. TickSound(job[d], pay, peer, lockup) /\ RowSound
  BY DEF Inv, TicksSound
<1>i. ASSUME Done(d) PROVE TickSound(job'[d], pay', peer', lockup')
  BY <1>i, <1>a, IdleSound DEF Done
<1>1. ASSUME Tick(d) PROVE Goal
  <2>1. TickSound(job'[d], pay', peer', lockup')
    BY <1>1, <1>a, <1>c, <1>t, <1>i, IdleSound DEF Tick, At, TickSound, TickEarned, TickPlaced,
         TickCoupled, TickTruthful, Earned, RowSound, Job, env, Idle, NewRow
  <2>2. RowSound' /\ Lasting
    BY <1>1, <1>a, <1>c, <1>t DEF Tick, At, TickSound, TickEarned, TickPlaced, TickCoupled,
         TickTruthful, Earned, RowSound, CollectsOnlyWhatItPaidFor, RowTellsTheTruth, Lasting, Row,
         env
  <2> QED
    BY <2>1, <2>2
<1>2. ASSUME whenQuoted(d) PROVE Goal
  <2>1. TickSound(job'[d], pay', peer', lockup')
    BY <1>2, <1>a, <1>c, <1>t, <1>i, IdleSound DEF whenQuoted, At, TickSound, TickEarned,
         TickPlaced, TickCoupled, TickTruthful, Earned, RowSound, Job, env
  <2>2. RowSound' /\ Lasting
    BY <1>2, <1>a, <1>c, <1>t DEF whenQuoted, At, TickSound, TickEarned, TickPlaced, TickCoupled,
         TickTruthful, Earned, RowSound, CollectsOnlyWhatItPaidFor, RowTellsTheTruth, Lasting, Row,
         env
  <2> QED
    BY <2>1, <2>2
<1>3. ASSUME PatchValue(d) PROVE Goal
  <2>1. TickSound(job'[d], pay', peer', lockup')
    BY <1>3, <1>a, <1>c, <1>t, <1>i, IdleSound DEF PatchValue, At, Goto, TickSound, TickEarned,
         TickPlaced, TickCoupled, TickTruthful, Earned, RowSound, Job, env
  <2>2. RowSound' /\ Lasting
    BY <1>3, <1>a, <1>c, <1>t DEF PatchValue, At, TickSound, TickEarned, TickPlaced, TickCoupled,
         TickTruthful, Earned, RowSound, CollectsOnlyWhatItPaidFor, RowTellsTheTruth, Lasting, Row,
         env
  <2> QED
    BY <2>1, <2>2
<1>4. ASSUME FailQuoted(d) PROVE Goal
  <2>1. TickSound(job'[d], pay', peer', lockup')
    BY <1>4, <1>i DEF FailQuoted
  <2>2. RowSound' /\ Lasting
    BY <1>4, <1>a, <1>c, <1>t DEF FailQuoted, At, fail, failState, transition, Won, TickSound,
         TickEarned, TickPlaced, TickCoupled, TickTruthful, Earned, RowSound,
         CollectsOnlyWhatItPaidFor, RowTellsTheTruth, Lasting, Row, env
  <2> QED
    BY <2>1, <2>2
<1>5. ASSUME Fund(d) PROVE Goal
  <2>1. TickSound(job'[d], pay', peer', lockup')
    BY <1>5, <1>i DEF Fund
  <2>2. RowSound' /\ Lasting
    BY <1>5, <1>a, <1>c, <1>t DEF Fund, At, transition, Won, TickSound, TickEarned, TickPlaced,
         TickCoupled, TickTruthful, Earned, RowSound, CollectsOnlyWhatItPaidFor, RowTellsTheTruth,
         Lasting, Row, env
  <2> QED
    BY <2>1, <2>2
<1>6. ASSUME FundedKeyRotated(d) PROVE Goal
  <2>1. TickSound(job'[d], pay', peer', lockup')
    BY <1>6, <1>i DEF FundedKeyRotated
  <2>2. RowSound' /\ Lasting
    BY <1>6, <1>a, <1>c, <1>t DEF FundedKeyRotated, fail, failState, transition, Won, AtFunded, At,
         TickSound, TickEarned, TickPlaced, TickCoupled, TickTruthful, Earned, RowSound,
         CollectsOnlyWhatItPaidFor, RowTellsTheTruth, Lasting, Row, env
  <2> QED
    BY <2>1, <2>2
<1>7. ASSUME FundedCoupled(d) PROVE Goal
  <2>1. TickSound(job'[d], pay', peer', lockup')
    BY <1>7, <1>i DEF FundedCoupled
  <2>2. RowSound' /\ Lasting
    BY <1>7, <1>a, <1>c, <1>t DEF FundedCoupled, fail, failState, transition, Won, AtFunded, At,
         TickSound, TickEarned, TickPlaced, TickCoupled, TickTruthful, Earned, RowSound,
         CollectsOnlyWhatItPaidFor, RowTellsTheTruth, Lasting, Row, env
  <2> QED
    BY <2>1, <2>2
<1>8. ASSUME FundedPeerRefused(d) PROVE Goal
  <2>1. TickSound(job'[d], pay', peer', lockup')
    BY <1>8, <1>a, <1>c, <1>t, <1>i, IdleSound DEF FundedPeerRefused, Goto, AtFunded, At, TickSound,
         TickEarned, TickPlaced, TickCoupled, TickTruthful, Earned, RowSound, Job, env
  <2>2. RowSound' /\ Lasting
    BY <1>8, <1>a, <1>c, <1>t DEF FundedPeerRefused, AtFunded, At, TickSound, TickEarned,
         TickPlaced, TickCoupled, TickTruthful, Earned, RowSound, CollectsOnlyWhatItPaidFor,
         RowTellsTheTruth, Lasting, Row, env
  <2> QED
    BY <2>1, <2>2
<1>9. ASSUME RefuseCoupled(d) PROVE Goal
  <2>1. TickSound(job'[d], pay', peer', lockup')
    BY <1>9, <1>a, <1>c, <1>t, <1>i, IdleSound DEF RefuseCoupled, At, transition, Won, TickSound,
         TickEarned, TickPlaced, TickCoupled, TickTruthful, Earned, RowSound, Job, env
  <2>2. RowSound' /\ Lasting
    BY <1>9, <1>a, <1>c, <1>t DEF RefuseCoupled, At, transition, Won, TickSound, TickEarned,
         TickPlaced, TickCoupled, TickTruthful, Earned, RowSound, CollectsOnlyWhatItPaidFor,
         RowTellsTheTruth, Lasting, Row, env
  <2> QED
    BY <2>1, <2>2
<1>10. ASSUME FundedDecides(d) PROVE Goal
  <2>1. TickSound(job'[d], pay', peer', lockup')
    BY <1>10, <1>a, <1>c, <1>t, <1>i, IdleSound DEF FundedDecides, Goto, fail, failState,
         transition, Won, AtFunded, At, Payable, TickSound, TickEarned, TickPlaced, TickCoupled,
         TickTruthful, Earned, RowSound, Job, env
  <2>2. RowSound' /\ Lasting
    BY <1>10, <1>a, <1>c, <1>t DEF FundedDecides, fail, failState, transition, Won, AtFunded, At,
         Payable, TickSound, TickEarned, TickPlaced, TickCoupled, TickTruthful, Earned, RowSound,
         CollectsOnlyWhatItPaidFor, RowTellsTheTruth, Lasting, Row, env
  <2> QED
    BY <2>1, <2>2
<1>11. ASSUME StartPay(d) PROVE Goal
  <2>1. TickSound(job'[d], pay', peer', lockup')
    BY <1>11, <1>a, <1>c, <1>t, <1>i, IdleSound DEF StartPay, At, transition, Won, TickSound,
         TickEarned, TickPlaced, TickCoupled, TickTruthful, Earned, RowSound, Job, env
  <2>2. RowSound' /\ Lasting
    BY <1>11, <1>a, <1>c, <1>t DEF StartPay, At, transition, Won, TickSound, TickEarned, TickPlaced,
         TickCoupled, TickTruthful, Earned, RowSound, CollectsOnlyWhatItPaidFor, RowTellsTheTruth,
         Lasting, Row, env
  <2> QED
    BY <2>1, <2>2
<1>12. ASSUME PayingForeign(d) PROVE Goal
  <2>1. TickSound(job'[d], pay', peer', lockup')
    BY <1>12, <1>i DEF PayingForeign
  <2>2. RowSound' /\ Lasting
    BY <1>12, <1>a, <1>c, <1>t DEF PayingForeign, fail, failState, transition, Won, AtPayingNoId,
         At, Foreign, TickSound, TickEarned, TickPlaced, TickCoupled, TickTruthful, Earned,
         RowSound, CollectsOnlyWhatItPaidFor, RowTellsTheTruth, Lasting, Row, env
  <2> QED
    BY <2>1, <2>2
<1>13. ASSUME PayingProbed(d) PROVE Goal
  <2>1. TickSound(job'[d], pay', peer', lockup')
    <3> DEFINE paid == [job[d] EXCEPT !.pc = "markPaid", !.result = "settled", !.byProbe = TRUE]
               failed == [job[d] EXCEPT !.pc = "verdict", !.result = "failed", !.byProbe = TRUE]
               resubmit == [job[d] EXCEPT !.pc = "submit", !.fresh = TRUE]
    <3>1. pay = "settled" => TickSound(paid, pay, peer, lockup)
      BY <1>13, <1>c, <1>t DEF PayingProbed, AtPayingNoId, At, TickSound, TickEarned, TickPlaced, TickCoupled,
           TickTruthful, Earned, Job
    <3>2. TickSound(failed, pay, peer, lockup)
      BY <1>13, <1>c, <1>t DEF PayingProbed, AtPayingNoId, At, TickSound, TickEarned, TickPlaced, TickCoupled,
           TickTruthful, Earned, Job
    <3>3. TickSound(resubmit, pay, peer, lockup)
      BY <1>13, <1>c, <1>t DEF PayingProbed, AtPayingNoId, At, TickSound, TickEarned, TickPlaced, TickCoupled,
           TickTruthful, Earned, Job
    <3>4. job'[d] = Idle \/ (pay = "settled" /\ job'[d] = paid) \/ job'[d] = failed \/ job'[d] = resubmit
      BY <1>13, <1>a, ProbeMoves
    <3>5. UNCHANGED <<pay, peer, lockup>>
      BY <1>13 DEF PayingProbed, env
    <3> HIDE DEF paid, failed, resubmit
    <3> QED
      BY <3>1, <3>2, <3>3, <3>4, <3>5, IdleSound
  <2>2. RowSound' /\ Lasting
    BY <1>13, <1>a, <1>c, <1>t DEF PayingProbed, AtPayingNoId, At, Foreign, WithinGrace, HasProbe,
         TickSound, TickEarned, TickPlaced, TickCoupled, TickTruthful, Earned, RowSound,
         CollectsOnlyWhatItPaidFor, RowTellsTheTruth, Lasting, Row, env
  <2> QED
    BY <2>1, <2>2
<1>14. ASSUME PayingNoPreimage(d) PROVE Goal
  <2>1. TickSound(job'[d], pay', peer', lockup')
    BY <1>14, <1>i DEF PayingNoPreimage
  <2>2. RowSound' /\ Lasting
    BY <1>14, <1>a, <1>c, <1>t DEF PayingNoPreimage, fail, failState, transition, Won, AtPayingNoId,
         At, Foreign, HasProbe, TickSound, TickEarned, TickPlaced, TickCoupled, TickTruthful,
         Earned, RowSound, CollectsOnlyWhatItPaidFor, RowTellsTheTruth, Lasting, Row, env
  <2> QED
    BY <2>1, <2>2
<1>15. ASSUME PayingUnprobed(d) PROVE Goal
  <2>1. TickSound(job'[d], pay', peer', lockup')
    BY <1>15, <1>a, <1>c, <1>t, <1>i, IdleSound DEF PayingUnprobed, Goto, AtPayingNoId, At, Foreign,
         HasProbe, TickSound, TickEarned, TickPlaced, TickCoupled, TickTruthful, Earned, RowSound,
         Job, env
  <2>2. RowSound' /\ Lasting
    BY <1>15, <1>a, <1>c, <1>t DEF PayingUnprobed, AtPayingNoId, At, Foreign, HasProbe, TickSound,
         TickEarned, TickPlaced, TickCoupled, TickTruthful, Earned, RowSound,
         CollectsOnlyWhatItPaidFor, RowTellsTheTruth, Lasting, Row, env
  <2> QED
    BY <2>1, <2>2
<1>16. ASSUME SubmitRefused(d) PROVE Goal
  <2>1. TickSound(job'[d], pay', peer', lockup')
    BY <1>16, <1>i DEF SubmitRefused
  <2>2. RowSound' /\ Lasting
    BY <1>16, <1>a, <1>c, <1>t DEF SubmitRefused, At, fail, failState, transition, Won, Payable,
         TickSound, TickEarned, TickPlaced, TickCoupled, TickTruthful, Earned, RowSound,
         CollectsOnlyWhatItPaidFor, RowTellsTheTruth, Lasting, Row, env
  <2> QED
    BY <2>1, <2>2
<1>17. ASSUME payInvoice(d) PROVE Goal
  <2>1. TickSound(job'[d], pay', peer', lockup')
    BY <1>17, <1>a, <1>c, <1>t, <1>i, IdleSound DEF payInvoice, At, Goto, Payable, HasProbe,
         TickSound, TickEarned, TickPlaced, TickCoupled, TickTruthful, Earned, RowSound, Job, env
  <2>2. RowSound' /\ Lasting
    BY <1>17, <1>a, <1>c, <1>t DEF payInvoice, At, Payable, HasProbe, TickSound, TickEarned,
         TickPlaced, TickCoupled, TickTruthful, Earned, RowSound, CollectsOnlyWhatItPaidFor,
         RowTellsTheTruth, Lasting, Row, env
  <2> QED
    BY <2>1, <2>2
<1>18. ASSUME payInvoiceNotStarted(d) PROVE Goal
  <2>1. TickSound(job'[d], pay', peer', lockup')
    <3> DEFINE refused == [job[d] EXCEPT !.pc = "findRefund", !.closed = TRUE]
               failed == [job[d] EXCEPT !.pc = "patchPayment", !.result = "failed"]
    <3>1. TickSound(refused, pay, peer, lockup) /\ TickSound(failed, pay, peer, lockup)
      BY <1>18, <1>c, <1>t DEF payInvoiceNotStarted, At, TickSound, TickEarned, TickPlaced, TickCoupled,
           TickTruthful, Earned, Job
    <3>2. job'[d] = Idle \/ job'[d] = refused \/ job'[d] = failed
      BY <1>18, <1>a DEF payInvoiceNotStarted
    <3>3. UNCHANGED <<pay, peer, lockup>>
      BY <1>18 DEF payInvoiceNotStarted, env
    <3> HIDE DEF refused, failed
    <3> QED
      BY <3>1, <3>2, <3>3, IdleSound
  <2>2. RowSound' /\ Lasting
    BY <1>18, <1>a, <1>c, <1>t DEF payInvoiceNotStarted, At, transition, Won, Payable, HasProbe,
         TickSound, TickEarned, TickPlaced, TickCoupled, TickTruthful, Earned, RowSound,
         CollectsOnlyWhatItPaidFor, RowTellsTheTruth, Lasting, Row, env
  <2> QED
    BY <2>1, <2>2
<1>19. ASSUME PayResponse(d) PROVE Goal
  <2>1. TickSound(job'[d], pay', peer', lockup')
    BY <1>19, <1>a, <1>c, <1>t, <1>i, IdleSound DEF PayResponse, At, HasProbe, TickSound,
         TickEarned, TickPlaced, TickCoupled, TickTruthful, Earned, RowSound, Job, env
  <2>2. RowSound' /\ Lasting
    BY <1>19, <1>a, <1>c, <1>t DEF PayResponse, At, HasProbe, TickSound, TickEarned, TickPlaced,
         TickCoupled, TickTruthful, Earned, RowSound, CollectsOnlyWhatItPaidFor, RowTellsTheTruth,
         Lasting, Row, env
  <2> QED
    BY <2>1, <2>2
<1>20. ASSUME whenHashBlocked(d) PROVE Goal
  <2>1. TickSound(job'[d], pay', peer', lockup')
    BY <1>20, <1>i DEF whenHashBlocked
  <2>2. RowSound' /\ Lasting
    BY <1>20, <1>a, <1>c, <1>t DEF whenHashBlocked, At, fail, failState, transition, Won, Payable,
         HasProbe, TickSound, TickEarned, TickPlaced, TickCoupled, TickTruthful, Earned, RowSound,
         CollectsOnlyWhatItPaidFor, RowTellsTheTruth, Lasting, Row, env
  <2> QED
    BY <2>1, <2>2
<1>21. ASSUME PatchPayment(d) PROVE Goal
  <2>1. TickSound(job'[d], pay', peer', lockup')
    BY <1>21, <1>a, <1>c, <1>t, <1>i, IdleSound DEF PatchPayment, At, Goto, TickSound, TickEarned,
         TickPlaced, TickCoupled, TickTruthful, Earned, RowSound, Job, env
  <2>2. RowSound' /\ Lasting
    BY <1>21, <1>a, <1>c, <1>t DEF PatchPayment, At, TickSound, TickEarned, TickPlaced, TickCoupled,
         TickTruthful, Earned, RowSound, CollectsOnlyWhatItPaidFor, RowTellsTheTruth, Lasting, Row,
         env
  <2> QED
    BY <2>1, <2>2
<1>22. ASSUME settleFromBackend(d) PROVE Goal
  <2>1. TickSound(job'[d], pay', peer', lockup')
    <3> DEFINE claim == [job[d] EXCEPT !.pc = "toClaiming"]
               failed == [job[d] EXCEPT !.pc = "verdict", !.result = "failed"]
               pending == [job[d] EXCEPT !.pc = "markPaid", !.result = "pending"]
               settled == [job[d] EXCEPT !.pc = "markPaid", !.result = "settled"]
    <3>1. job[d].row.preimage \/ pay = "settled" => TickSound(claim, pay, peer, lockup)
      BY <1>22, <1>c, <1>t DEF settleFromBackend, Settling, At, TickSound, TickEarned, TickPlaced, TickCoupled,
           TickTruthful, Earned, Job
    <3>2. TickSound(failed, pay, peer, lockup)
      BY <1>22, <1>c, <1>t DEF settleFromBackend, Settling, At, TickSound, TickEarned, TickPlaced, TickCoupled,
           TickTruthful, Earned, Job
    <3>3. TickSound(pending, pay, peer, lockup)
      BY <1>22, <1>c, <1>t DEF settleFromBackend, Settling, At, TickSound, TickEarned, TickPlaced, TickCoupled,
           TickTruthful, Earned, Job
    <3>4. pay = "settled" => TickSound(settled, pay, peer, lockup)
      BY <1>22, <1>c, <1>t DEF settleFromBackend, Settling, At, TickSound, TickEarned, TickPlaced, TickCoupled,
           TickTruthful, Earned, Job
    <3>5. \/ job'[d] = Idle \/ job'[d] = failed \/ job'[d] = pending
          \/ (job[d].row.preimage \/ pay = "settled") /\ job'[d] = claim
          \/ pay = "settled" /\ job'[d] = settled
      BY <1>22, <1>a, SettleMoves
    <3>6. UNCHANGED <<pay, peer, lockup>>
      BY <1>22 DEF settleFromBackend, env
    <3> HIDE DEF claim, failed, pending, settled
    <3> QED
      BY <3>1, <3>2, <3>3, <3>4, <3>5, <3>6, IdleSound
  <2>2. RowSound' /\ Lasting
    BY <1>22, <1>a, <1>c, <1>t DEF settleFromBackend, At, PayAsSeen, Foreign, WithinGrace, Settling,
         TickSound, TickEarned, TickPlaced, TickCoupled, TickTruthful, Earned, RowSound,
         CollectsOnlyWhatItPaidFor, RowTellsTheTruth, Lasting, Row, env
  <2> QED
    BY <2>1, <2>2
<1>23. ASSUME MarkPaid(d) PROVE Goal
  <2>1. TickSound(job'[d], pay', peer', lockup')
    BY <1>23, <1>a, <1>c, <1>t, <1>i, IdleSound DEF MarkPaid, At, transition, Won, TickSound,
         TickEarned, TickPlaced, TickCoupled, TickTruthful, Earned, RowSound, Job, env
  <2>2. RowSound' /\ Lasting
    BY <1>23, <1>a, <1>c, <1>t DEF MarkPaid, At, transition, Won, TickSound, TickEarned, TickPlaced,
         TickCoupled, TickTruthful, Earned, RowSound, CollectsOnlyWhatItPaidFor, RowTellsTheTruth,
         Lasting, Row, env
  <2> QED
    BY <2>1, <2>2
<1>24. ASSUME claimWithPreimage(d) PROVE Goal
  <2>1. TickSound(job'[d], pay', peer', lockup')
    BY <1>24, <1>i DEF claimWithPreimage
  <2>2. RowSound' /\ Lasting
    BY <1>24, <1>a, <1>c, <1>t DEF claimWithPreimage, At, fail, failState, transition, Won,
         TickSound, TickEarned, TickPlaced, TickCoupled, TickTruthful, Earned, RowSound,
         CollectsOnlyWhatItPaidFor, RowTellsTheTruth, Lasting, Row, env
  <2> QED
    BY <2>1, <2>2
<1>25. ASSUME refundProvenSelfPayment(d) PROVE Goal
  <2>1. TickSound(job'[d], pay', peer', lockup')
    BY <1>25, <1>a, <1>c, <1>t, <1>i, IdleSound DEF refundProvenSelfPayment, At, transition, Won,
         TickSound, TickEarned, TickPlaced, TickCoupled, TickTruthful, Earned, RowSound, Job, env
  <2>2. RowSound' /\ Lasting
    BY <1>25, <1>a, <1>c, <1>t DEF refundProvenSelfPayment, At, transition, Won, TickSound,
         TickEarned, TickPlaced, TickCoupled, TickTruthful, Earned, RowSound,
         CollectsOnlyWhatItPaidFor, RowTellsTheTruth, Lasting, Row, env
  <2> QED
    BY <2>1, <2>2
<1>26. ASSUME FindRefund(d) PROVE Goal
  <2>1. TickSound(job'[d], pay', peer', lockup')
    <3> DEFINE found == [job[d] EXCEPT !.pc = "refund", !.seen = lockup,
                                       !.closed = @ \/ job[d].pc = "pushRefund"]
               terminal == [job[d] EXCEPT !.pc = "terminal"]
    <3>1. TickSound(found, pay, peer, lockup)
      BY <1>26, <1>c, <1>t DEF FindRefund, TickSound, TickEarned, TickPlaced, TickCoupled,
           TickTruthful, Earned, Job
    <3>2. ~job[d].closed /\ job[d].pc # "pushRefund" => TickSound(terminal, pay, peer, lockup)
      BY <1>26, <1>c, <1>t DEF FindRefund, TickSound, TickEarned, TickPlaced, TickCoupled,
           TickTruthful, Earned, Job
    <3>3. \/ job'[d] = Idle \/ job'[d] = found
          \/ ~job[d].closed /\ job[d].pc # "pushRefund" /\ job'[d] = terminal
      BY <1>26, <1>a DEF FindRefund
    <3>4. UNCHANGED <<pay, peer, lockup>>
      BY <1>26 DEF FindRefund, env
    <3> HIDE DEF found, terminal
    <3> QED
      BY <3>1, <3>2, <3>3, <3>4, IdleSound
  <2>2. RowSound' /\ Lasting
    BY <1>26, <1>a, <1>c, <1>t DEF FindRefund, At, TickSound, TickEarned, TickPlaced, TickCoupled,
         TickTruthful, Earned, RowSound, CollectsOnlyWhatItPaidFor, RowTellsTheTruth, Lasting, Row,
         env
  <2> QED
    BY <2>1, <2>2
<1>27. ASSUME Refund(d) PROVE Goal
  <2>1. TickSound(job'[d], pay', peer', lockup')
    BY <1>27, <1>a, <1>c, <1>t, <1>i, IdleSound DEF Refund, At, Goto, AfterRefund, TickSound,
         TickEarned, TickPlaced, TickCoupled, TickTruthful, Earned, RowSound, Job, env
  <2>2. RowSound' /\ Lasting
    BY <1>27, <1>a, <1>c, <1>t DEF Refund, At, AfterRefund, TickSound, TickEarned, TickPlaced,
         TickCoupled, TickTruthful, Earned, RowSound, CollectsOnlyWhatItPaidFor, RowTellsTheTruth,
         Lasting, Row, env, Held, Spent, Covers
  <2> QED
    BY <2>1, <2>2
<1>28. ASSUME RefundFails(d) PROVE Goal
  <2>1. TickSound(job'[d], pay', peer', lockup')
    BY <1>28, <1>a, <1>c, <1>t, <1>i, IdleSound DEF RefundFails, At, AfterRefund, TickSound,
         TickEarned, TickPlaced, TickCoupled, TickTruthful, Earned, RowSound, Job, env
  <2>2. RowSound' /\ Lasting
    BY <1>28, <1>a, <1>c, <1>t DEF RefundFails, At, AfterRefund, TickSound, TickEarned, TickPlaced,
         TickCoupled, TickTruthful, Earned, RowSound, CollectsOnlyWhatItPaidFor, RowTellsTheTruth,
         Lasting, Row, env, Held, Spent, Covers
  <2> QED
    BY <2>1, <2>2
<1>29. ASSUME PatchRefund(d) PROVE Goal
  <2>1. TickSound(job'[d], pay', peer', lockup')
    BY <1>29, <1>a, <1>c, <1>t, <1>i, IdleSound DEF PatchRefund, At, TickSound, TickEarned,
         TickPlaced, TickCoupled, TickTruthful, Earned, RowSound, Job, env
  <2>2. RowSound' /\ Lasting
    BY <1>29, <1>a, <1>c, <1>t DEF PatchRefund, At, TickSound, TickEarned, TickPlaced, TickCoupled,
         TickTruthful, Earned, RowSound, CollectsOnlyWhatItPaidFor, RowTellsTheTruth, Lasting, Row,
         env
  <2> QED
    BY <2>1, <2>2
<1>30. ASSUME settleTerminalFailure(d) PROVE Goal
  <2>1. TickSound(job'[d], pay', peer', lockup')
    BY <1>30, <1>i DEF settleTerminalFailure
  <2>2. RowSound' /\ Lasting
    BY <1>30, <1>a, <1>c, <1>t DEF settleTerminalFailure, At, fail, failState, transition, Won,
         TickSound, TickEarned, TickPlaced, TickCoupled, TickTruthful, Earned, RowSound,
         CollectsOnlyWhatItPaidFor, RowTellsTheTruth, Lasting, Row, env
  <2> QED
    BY <2>1, <2>2
<1>31. ASSUME whenClaiming(d) PROVE Goal
  <2>1. TickSound(job'[d], pay', peer', lockup')
    BY <1>31, <1>a, <1>c, <1>t, <1>i, IdleSound DEF whenClaiming, At, Goto, TickSound, TickEarned,
         TickPlaced, TickCoupled, TickTruthful, Earned, RowSound, Job, env
  <2>2. RowSound' /\ Lasting
    BY <1>31, <1>a, <1>c, <1>t DEF whenClaiming, At, TickSound, TickEarned, TickPlaced, TickCoupled,
         TickTruthful, Earned, RowSound, CollectsOnlyWhatItPaidFor, RowTellsTheTruth, Lasting, Row,
         env
  <2> QED
    BY <2>1, <2>2
<1>32. ASSUME Claim(d) PROVE Goal
  <2>1. TickSound(job'[d], pay', peer', lockup')
    BY <1>32, <1>a, <1>c, <1>t, <1>i, IdleSound DEF Claim, At, Goto, TickSound, TickEarned,
         TickPlaced, TickCoupled, TickTruthful, Earned, RowSound, Job, env
  <2>2. RowSound' /\ Lasting
    BY <1>32, <1>a, <1>c, <1>t DEF Claim, At, TickSound, TickEarned, TickPlaced, TickCoupled,
         TickTruthful, Earned, RowSound, CollectsOnlyWhatItPaidFor, RowTellsTheTruth, Lasting, Row,
         env, Held, Spent, Covers
  <2> QED
    BY <2>1, <2>2
<1>33. ASSUME ClaimFails(d) PROVE Goal
  <2>1. TickSound(job'[d], pay', peer', lockup')
    BY <1>33, <1>i DEF ClaimFails
  <2>2. RowSound' /\ Lasting
    BY <1>33, <1>a, <1>c, <1>t DEF ClaimFails, At, fail, failState, transition, Won, TickSound,
         TickEarned, TickPlaced, TickCoupled, TickTruthful, Earned, RowSound,
         CollectsOnlyWhatItPaidFor, RowTellsTheTruth, Lasting, Row, env, Held, Spent, Covers
  <2> QED
    BY <2>1, <2>2
<1>34. ASSUME ClaimEvidence(d) PROVE Goal
  <2>1. TickSound(job'[d], pay', peer', lockup')
    BY <1>34, <1>a, <1>c, <1>t, <1>i, IdleSound DEF ClaimEvidence, At, Goto, fail, failState,
         transition, Won, TickSound, TickEarned, TickPlaced, TickCoupled, TickTruthful, Earned,
         RowSound, Job, env
  <2>2. RowSound' /\ Lasting
    BY <1>34, <1>a, <1>c, <1>t DEF ClaimEvidence, At, fail, failState, transition, Won, TickSound,
         TickEarned, TickPlaced, TickCoupled, TickTruthful, Earned, RowSound,
         CollectsOnlyWhatItPaidFor, RowTellsTheTruth, Lasting, Row, env, Held, Spent, Covers
  <2> QED
    BY <2>1, <2>2
<1>35. ASSUME MarkClaimed(d) PROVE Goal
  <2>1. TickSound(job'[d], pay', peer', lockup')
    BY <1>35, <1>i DEF MarkClaimed
  <2>2. RowSound' /\ Lasting
    BY <1>35, <1>a, <1>c, <1>t DEF MarkClaimed, At, transition, Won, TickSound, TickEarned,
         TickPlaced, TickCoupled, TickTruthful, Earned, RowSound, CollectsOnlyWhatItPaidFor,
         RowTellsTheTruth, Lasting, Row, env
  <2> QED
    BY <2>1, <2>2
<1>36. ASSUME Abandon(d) PROVE Goal
  <2>1. TickSound(job'[d], pay', peer', lockup')
    BY <1>36, <1>i DEF Abandon
  <2>2. RowSound' /\ Lasting
    BY <1>36, <1>a, <1>c, <1>t DEF Abandon, TickSound, TickEarned, TickPlaced, TickCoupled,
         TickTruthful, Earned, RowSound, CollectsOnlyWhatItPaidFor, RowTellsTheTruth, Lasting, Row,
         env
  <2> QED
    BY <2>1, <2>2
<1> QED
  BY <1>1, <1>2, <1>3, <1>4, <1>5, <1>6, <1>7, <1>8, <1>9, <1>10, <1>11, <1>12, <1>13, <1>14, <1>15,
       <1>16, <1>17, <1>18, <1>19, <1>20, <1>21, <1>22, <1>23, <1>24, <1>25, <1>26, <1>27, <1>28,
       <1>29, <1>30, <1>31, <1>32, <1>33, <1>34, <1>35, <1>36 DEF DriverStep

(* A step of the sweep, of the environment or of a restart leaves every tick *)
(* and the row sound.                                                        *)
LEMMA OtherSound ==
  ASSUME Inv, SweepStep \/ SweepAbandon \/ Reconfigure \/ Environment
  PROVE  (job' = job \/ job' = [d \in Driver |-> Idle]) /\ RowSound' /\ Lasting
<1> DEFINE Goal == (job' = job \/ job' = [d \in Driver |-> Idle]) /\ RowSound' /\ Lasting
<1>a. /\ row \in Row /\ sweeper \in [pc : SweepSteps, seen : Lockups]
      /\ lockup \in Lockups /\ pay \in PayStates /\ peer \in PeerStates /\ RowSound
  BY DEF Inv, TypeOK
<1>1. CASE refundSweep
  BY <1>1, <1>a DEF refundSweep, RowSound, CollectsOnlyWhatItPaidFor, RowTellsTheTruth, Earned,
       Lasting, env, Held, Spent
<1>2. CASE SweepFind
  BY <1>2, <1>a DEF SweepFind, RowSound, CollectsOnlyWhatItPaidFor, RowTellsTheTruth, Earned,
       Lasting, env, Row, Held, Spent
<1>3. CASE SweepRefund
  BY <1>3, <1>a DEF SweepRefund, AfterRefund, RowSound, CollectsOnlyWhatItPaidFor, RowTellsTheTruth,
       Earned, Lasting, env, Held, Spent
<1>4. CASE SweepPatch
  BY <1>4, <1>a DEF SweepPatch, RowSound, CollectsOnlyWhatItPaidFor, RowTellsTheTruth, Earned,
       Lasting, env, Row, Held, Spent
<1>5. CASE SweepAbandon
  BY <1>5, <1>a DEF SweepAbandon, RowSound, CollectsOnlyWhatItPaidFor, RowTellsTheTruth, Earned,
       Lasting, env, Held, Spent
<1>6. CASE Reconfigure
  BY <1>6, <1>a DEF Reconfigure, RowSound, CollectsOnlyWhatItPaidFor, RowTellsTheTruth, Earned,
       Lasting, env, Held, Spent
<1>7. CASE ClientFunds
  BY <1>7, <1>a DEF ClientFunds, RowSound, CollectsOnlyWhatItPaidFor, RowTellsTheTruth, Earned,
       Lasting, env, Held, Spent
<1>8. CASE ClientReclaims
  BY <1>8, <1>a DEF ClientReclaims, RowSound, CollectsOnlyWhatItPaidFor, RowTellsTheTruth, Earned,
       Lasting, env, Held, Spent
<1>9. CASE PayRecorded
  BY <1>9, <1>a DEF PayRecorded, RowSound, CollectsOnlyWhatItPaidFor, RowTellsTheTruth, Earned,
       Lasting, env, Held, Spent
<1>10. CASE PaySettles
  BY <1>10, <1>a DEF PaySettles, RowSound, CollectsOnlyWhatItPaidFor, RowTellsTheTruth, Earned,
       Lasting, env, Held, Spent
<1>11. CASE PayFails
  BY <1>11, <1>a DEF PayFails, RowSound, CollectsOnlyWhatItPaidFor, RowTellsTheTruth, Earned,
       Lasting, env, Held, Spent
<1>12. CASE OwnInvoiceMoves
  BY <1>12, <1>a DEF OwnInvoiceMoves, RowSound, CollectsOnlyWhatItPaidFor, RowTellsTheTruth, Earned,
       Lasting, env, Held, Spent
<1>13. CASE PeerMoves
  BY <1>13, <1>a DEF PeerMoves, RowSound, CollectsOnlyWhatItPaidFor, RowTellsTheTruth, Earned,
       Lasting, env
<1>14. CASE Advance
  BY <1>14, <1>a DEF Advance, RowSound, CollectsOnlyWhatItPaidFor, RowTellsTheTruth, Earned,
       Lasting, env, Held, Spent
<1> QED
  BY <1>1, <1>2, <1>3, <1>4, <1>5, <1>6, <1>7, <1>8, <1>9, <1>10, <1>11, <1>12, <1>13, <1>14 DEF
       SweepStep, Environment, Network

(* A new swap satisfies the invariant... *)
LEMMA InvInit == Init => Inv
<1> SUFFICES ASSUME Init PROVE Inv
  OBVIOUS
<1>1. TypeOK
  <2>1. config \in Config
    <3>1. PICK p \in Probes : config = [rotated |-> FALSE, wallet |-> "first", probe |-> p]
      BY DEF Init
    <3> QED
      BY <3>1 DEF Config, Wallets
  <2> QED
    BY <2>1, IdleType, TimeAssumption DEF Init, TypeOK, SweepSteps, Lockups, PayStates, OwnStates, PeerStates
<1>2. TicksSound
  BY IdleSound DEF Init, TicksSound
<1>3. RowSound
  BY DEF Init, RowSound, NewRow, CollectsOnlyWhatItPaidFor, RowTellsTheTruth
<1> QED
  BY <1>1, <1>2, <1>3 DEF Inv

(* ...and every step keeps it. *)
LEMMA InvStep ==
  ASSUME Inv, [Next]_vars
  PROVE  Inv'
<1>1. TypeOK'
  BY TypeStep DEF Inv
<1>2. job \in [Driver -> Job]
  BY DEF Inv, TypeOK
<1>3. ASSUME NEW d \in Driver, DriverStep(d) \/ Abandon(d) PROVE TicksSound' /\ RowSound'
  <2>1. TickSound(job'[d], pay', peer', lockup') /\ RowSound' /\ Lasting
    BY <1>3, DriverSound
  <2>2. job' = [job EXCEPT ![d] = job'[d]]
    BY <1>3, DriverTypes DEF Inv
  <2>3. ASSUME NEW e \in Driver PROVE TickSound(job'[e], pay', peer', lockup')
    <3>1. CASE e = d
      BY <2>1, <3>1
    <3>2. CASE e # d
      <4>1. job'[e] = job[e]
        BY <1>2, <2>2, <3>2
      <4>2. TickSound(job[e], pay, peer, lockup)
        BY DEF Inv, TicksSound
      <4> QED
        BY <2>1, <4>1, <4>2, OtherTicks
    <3> QED
      BY <3>1, <3>2
  <2> QED
    BY <2>1, <2>3 DEF TicksSound
<1>4. ASSUME SweepStep \/ SweepAbandon \/ Reconfigure \/ Environment PROVE TicksSound' /\ RowSound'
  <2>1. (job' = job \/ job' = [d \in Driver |-> Idle]) /\ RowSound' /\ Lasting
    BY <1>4, OtherSound
  <2>2. ASSUME NEW e \in Driver PROVE TickSound(job'[e], pay', peer', lockup')
    <3>1. TickSound(job[e], pay, peer, lockup)
      BY DEF Inv, TicksSound
    <3>2. job'[e] = job[e] \/ job'[e] = Idle
      BY <2>1
    <3> QED
      BY <2>1, <3>1, <3>2, OtherTicks, IdleSound
  <2> QED
    BY <2>1, <2>2 DEF TicksSound
<1>5. CASE UNCHANGED vars
  <2>1. job' = job /\ Lasting
    BY <1>5 DEF vars, Lasting
  <2>2. TicksSound'
    BY <2>1, OtherTicks DEF Inv, TicksSound
  <2>3. RowSound'
    BY <1>5 DEF Inv, vars, RowSound, CollectsOnlyWhatItPaidFor, RowTellsTheTruth
  <2> QED
    BY <1>1, <2>2, <2>3 DEF Inv
<1> QED
  BY <1>1, <1>3, <1>4, <1>5 DEF Inv, Next, Faults

(* The invariant holds of every behaviour. *)
THEOREM SendInvariant == Spec => []Inv
<1>1. Inv /\ [Next]_vars => Inv'
  BY InvStep
<1> QED
  BY InvInit, <1>1, PTL DEF Spec

(* Every variable keeps its type. *)
THEOREM SendTypeCorrect == Spec => []TypeOK
<1>1. Inv => TypeOK
  BY DEF Inv
<1> QED
  BY SendInvariant, <1>1, PTL

(* However many processes tick the row, and however stale the copies they    *)
(* work on: no lockup is collected unpaid, the row says what happened, and a *)
(* self-payment is never paid over Lightning.                                *)
THEOREM StaleTicksSafe == Spec => []StaleTicksAreSafe
<1>1. Inv => StaleTicksAreSafe
  BY DEF Inv, RowSound, StaleTicksAreSafe, CoupledNeverPaid
<1> QED
  BY SendInvariant, <1>1, PTL

(* The compare-and-swap on the state a tick read is enough to keep the row   *)
(* on the edges of its state machine.                                        *)
LEMMA EdgeStep ==
  ASSUME Inv, [Next]_vars, row'.state # row.state
  PROVE  row'.state \in SEND_SWAP_MACHINE[row.state]
<1>a. row \in Row /\ job \in [Driver -> Job]
  BY DEF Inv, TypeOK
<1>1. ASSUME NEW d \in Driver, DriverStep(d) \/ Abandon(d) PROVE row'.state \in SEND_SWAP_MACHINE[row.state]
  <2>c. job[d] \in Job /\ TickPlaced(job[d])
    BY <1>a DEF Inv, TicksSound, TickSound

  <2>1. CASE Tick(d) \/ whenQuoted(d) \/ FundedPeerRefused(d) \/ PayingProbed(d) \/
            PayingUnprobed(d) \/ payInvoice(d) \/ PayResponse(d) \/ settleFromBackend(d) \/
            Refund(d) \/ RefundFails(d) \/ whenClaiming(d) \/ Claim(d) \/ Abandon(d)
    BY <2>1, <1>a DEF Tick, whenQuoted, FundedPeerRefused, PayingProbed, PayingUnprobed, payInvoice,
         PayResponse, settleFromBackend, Refund, RefundFails, whenClaiming, Claim, Abandon, Row
  <2>2. CASE PatchValue(d) \/ PatchPayment(d) \/ FindRefund(d) \/ PatchRefund(d)
    BY <2>2, <1>a DEF PatchValue, PatchPayment, FindRefund, PatchRefund, Row
  <2>3. CASE FailQuoted(d)
    BY <2>3, <1>a DEF FailQuoted, transition, Won, SEND_SWAP_MACHINE, fail, failState, Exposed, Row
  <2>4. CASE Fund(d)
    BY <2>4, <1>a DEF Fund, transition, Won, SEND_SWAP_MACHINE, Row
  <2>5. CASE FundedKeyRotated(d)
    BY <2>5, <1>a DEF FundedKeyRotated, transition, Won, SEND_SWAP_MACHINE, fail, failState,
         Exposed, Row
  <2>6. CASE FundedCoupled(d)
    <3>1. fail("funded") \/ transition("funded", [row EXCEPT !.state = "claiming", !.preimage = TRUE])
      BY <2>6 DEF FundedCoupled
    <3>2. CASE fail("funded")
      BY <3>2, <1>a DEF fail, failState, Exposed, transition, Won, SEND_SWAP_MACHINE, Row
    <3>3. CASE transition("funded", [row EXCEPT !.state = "claiming", !.preimage = TRUE])
      BY <3>3, <1>a DEF transition, Won, SEND_SWAP_MACHINE, Row
    <3> QED
      BY <3>1, <3>2, <3>3
  <2>7. CASE RefuseCoupled(d)
    BY <2>7, <1>a DEF RefuseCoupled, transition, Won, SEND_SWAP_MACHINE, Row
  <2>8. CASE FundedDecides(d)
    BY <2>8, <1>a DEF FundedDecides, transition, Won, SEND_SWAP_MACHINE, fail, failState, Exposed,
         Row
  <2>9. CASE StartPay(d)
    BY <2>9, <1>a DEF StartPay, transition, Won, SEND_SWAP_MACHINE, Row
  <2>10. CASE PayingForeign(d)
    BY <2>10, <1>a DEF PayingForeign, transition, Won, SEND_SWAP_MACHINE, fail, failState, Exposed,
         Row
  <2>11. CASE PayingNoPreimage(d)
    BY <2>11, <1>a DEF PayingNoPreimage, transition, Won, SEND_SWAP_MACHINE, fail, failState,
         Exposed, Row
  <2>12. CASE payInvoiceNotStarted(d)
    BY <2>12, <1>a DEF payInvoiceNotStarted, transition, Won, SEND_SWAP_MACHINE, Row
  <2>13. CASE whenHashBlocked(d)
    BY <2>13, <1>a DEF whenHashBlocked, transition, Won, SEND_SWAP_MACHINE, fail, failState,
         Exposed, Row
  <2>14. CASE MarkPaid(d)
    BY <2>14, <1>a DEF MarkPaid, transition, Won, SEND_SWAP_MACHINE, Row
  <2>15. CASE claimWithPreimage(d)
    <3>1. fail("paid") \/ transition("paid", [row EXCEPT !.state = "claiming", !.preimage = TRUE])
      BY <2>15 DEF claimWithPreimage
    <3>2. CASE fail("paid")
      BY <3>2, <1>a DEF fail, failState, Exposed, transition, Won, SEND_SWAP_MACHINE, Row
    <3>3. CASE transition("paid", [row EXCEPT !.state = "claiming", !.preimage = TRUE])
      BY <3>3, <1>a DEF transition, Won, SEND_SWAP_MACHINE, Row
    <3> QED
      BY <3>1, <3>2, <3>3
  <2>16. CASE SubmitRefused(d)
    BY <2>16, <1>a, <2>c DEF SubmitRefused, transition, Won, SEND_SWAP_MACHINE, fail, failState,
         Exposed, At, TickPlaced, Row
  <2>17. CASE refundProvenSelfPayment(d)
    BY <2>17, <1>a, <2>c DEF refundProvenSelfPayment, transition, Won, SEND_SWAP_MACHINE, At,
         TickPlaced, Row
  <2>18. CASE settleTerminalFailure(d)
    BY <2>18, <1>a, <2>c DEF settleTerminalFailure, transition, Won, SEND_SWAP_MACHINE, fail,
         failState, Exposed, At, TickPlaced, Row
  <2>19. CASE ClaimFails(d)
    BY <2>19, <1>a DEF ClaimFails, transition, Won, SEND_SWAP_MACHINE, fail, failState, Exposed, Row
  <2>20. CASE ClaimEvidence(d)
    BY <2>20, <1>a DEF ClaimEvidence, transition, Won, SEND_SWAP_MACHINE, fail, failState, Exposed,
         Row
  <2>21. CASE MarkClaimed(d)
    BY <2>21, <1>a DEF MarkClaimed, transition, Won, SEND_SWAP_MACHINE, Row
  <2> QED
    BY <1>1, <2>1, <2>2, <2>3, <2>4, <2>5, <2>6, <2>7, <2>8, <2>9, <2>10, <2>11, <2>12, <2>13,
         <2>14, <2>15, <2>16, <2>17, <2>18, <2>19, <2>20, <2>21 DEF DriverStep
<1>2. ASSUME SweepStep \/ SweepAbandon \/ Reconfigure \/ Environment \/ UNCHANGED vars PROVE FALSE
  BY <1>2, <1>a DEF SweepStep, refundSweep, SweepFind, SweepRefund, SweepPatch, SweepAbandon, Reconfigure,
     Environment, Network, ClientFunds, ClientReclaims, PayRecorded, PaySettles, PayFails,
     OwnInvoiceMoves, PeerMoves, Advance, vars, Row
<1> QED
  BY <1>1, <1>2 DEF Next, Faults

(* No handler, however stale its copy, leaves the edges of the machine. *)
THEOREM SendEdgesLegal == Spec => LegalEdges
<1>1. Inv /\ [Next]_vars => [row'.state # row.state => row'.state \in SEND_SWAP_MACHINE[row.state]]_vars
  BY EdgeStep
<1> QED
  BY SendInvariant, <1>1, PTL DEF Spec, LegalEdges

----------------------------------------------------------------------------
(* One process.  The in-flight guard then keeps the row as the tick read it, *)
(* and the stamp of the attempt tells a payment that never left from one     *)
(* whose record is still on its way.                                         *)

(* One process ticks the row; the backend records what it is handed within    *)
(* Grace of the stamp on disk; and no payment the CLTV gate admits is refused  *)
(* unsent by the client library, unless the backend can be asked by hash.      *)
Attended ==
  /\ \A d, e \in Driver : d = e
  /\ LagFromStamp
  /\ PreflightAt > PayBy \/ Probes = {TRUE}

MayBeOut == {"queued", "inflight", "settled"}

(* Where a tick decides that nothing is out, nothing is: before a first       *)
(* submission, on a failure the backend reported, and on the way to a refund. *)
TickSettled(j, p) ==
  /\ j.pc = "submit" /\ j.fresh => p \notin MayBeOut
  /\ j.pc = "patchPayment" /\ j.result = "failed" => p \notin MayBeOut
  /\ j.pc \in {"verdict", "pushRefund", "findRefund", "refund", "patchRefund", "terminal"}
       => p \notin MayBeOut

(* A tick with an answer or a submission ahead of it has the row as it is, on *)
(* the wallet it is configured with; it refunds a self-payment only when the  *)
(* receive row was refused.                                                   *)
SoloTick(j, r, p, q, wallet) ==
  /\ j.pc \in {"step", "submit"} => j.row = r /\ r.state # "refused"
  /\ j.pc = "step" => ~j.fresh
  /\ j.pc = "submit" => r.wallet = wallet
  /\ j.pc \in {"refuseCoupled", "findRefund", "pushRefund", "refund"} /\ q # "none" => q = "refused"
  /\ wallet = "first" => j.row.wallet = "first" /\ TickSettled(j, p)

(* A payment on its way to the record is younger than the grace; one that may  *)
(* be out is on a row that still waits for it.                                 *)
SoloRow ==
  /\ sweeper.pc # "idle" => row.state = "refused"
  /\ row.state = "paying" => row.attempted \in Nat
  /\ row.attempted <= clock
  /\ ~config.rotated /\ peer \in {"paidOut", "revealed"} => row.state \notin {"quoted", "refused"}
  /\ config.wallet = "first" =>
       /\ row.wallet = "first"
       /\ row.state \in {"quoted", "funded"} => pay = "none"
       /\ row.state = "refused" => pay \notin MayBeOut
       /\ pay = "queued" => row.attempted \in Nat /\ clock < row.attempted + Grace
       /\ NeverPaidAndRefunded

SoloTicks == \A d \in Driver : SoloTick(job[d], row, pay, peer, config.wallet)

SoloInv == SoloTicks /\ SoloRow

(* An idle tick is settled. *)
LEMMA IdleSolo ==
  ASSUME NEW r, NEW p, NEW q, NEW wallet
  PROVE  SoloTick(Idle, r, p, q, wallet)
BY DEF SoloTick, TickSettled, Idle, NewRow

(* The process's own steps. *)
LEMMA SoloDriver ==
  ASSUME Attended, Inv, SoloInv, NEW d \in Driver, DriverStep(d) \/ Abandon(d)
  PROVE  SoloTick(job'[d], row', pay', peer', config'.wallet) /\ SoloRow'
<1> DEFINE Goal == SoloTick(job'[d], row', pay', peer', config'.wallet) /\ SoloRow'
<1>a. /\ row \in Row /\ job \in [Driver -> Job] /\ sweeper \in [pc : SweepSteps, seen : Lockups]
      /\ lockup \in Lockups /\ pay \in PayStates /\ peer \in PeerStates /\ clock \in Nat
      /\ config.wallet \in Wallets /\ config.probe \in Probes
  BY DEF Inv, TypeOK, Config
<1>b. Grace \in Nat /\ PayBy \in Nat /\ PreflightAt \in Nat
  BY TimeAssumption
<1>c. job[d] \in Job /\ job[d].row \in Row /\ row.attempted \in Int
  BY <1>a DEF Job, Row
<1>t. TickPlaced(job[d]) /\ TickCoupled(job[d], peer) /\ RowSound
  BY DEF Inv, TicksSound, TickSound
<1>s. SoloTick(job[d], row, pay, peer, config.wallet) /\ SoloRow
  BY DEF SoloInv, SoloTicks
<1>i. ASSUME Done(d) PROVE SoloTick(job'[d], row', pay', peer', config'.wallet)
  BY <1>i, <1>a, IdleSolo DEF Done
<1>1. ASSUME Tick(d) PROVE Goal
  <2>1. SoloTick(job'[d], row', pay', peer', config'.wallet)
    BY <1>1, <1>a, <1>c, <1>t, <1>s, <1>i, IdleSolo DEF Tick, At, SoloTick, TickSettled, MayBeOut,
         SoloRow, TickPlaced, TickCoupled, RowSound, Job, env, Idle, NewRow
  <2>2. SoloRow'
    BY <1>1, <1>a, <1>b, <1>c, <1>t, <1>s DEF Tick, At, SoloRow, NeverPaidAndRefunded, MayBeOut,
         SoloTick, TickSettled, TickPlaced, TickCoupled, RowSound, Attended, Row, env
  <2> QED
    BY <2>1, <2>2
<1>2. ASSUME whenQuoted(d) PROVE Goal
  <2>1. SoloTick(job'[d], row', pay', peer', config'.wallet)
    BY <1>2, <1>a, <1>c, <1>t, <1>s, <1>i, IdleSolo DEF whenQuoted, At, SoloTick, TickSettled,
         MayBeOut, SoloRow, TickPlaced, TickCoupled, RowSound, Job, env
  <2>2. SoloRow'
    BY <1>2, <1>a, <1>b, <1>c, <1>t, <1>s DEF whenQuoted, At, SoloRow, NeverPaidAndRefunded,
         MayBeOut, SoloTick, TickSettled, TickPlaced, TickCoupled, RowSound, Attended, Row, env
  <2> QED
    BY <2>1, <2>2
<1>3. ASSUME PatchValue(d) PROVE Goal
  <2>1. SoloTick(job'[d], row', pay', peer', config'.wallet)
    BY <1>3, <1>a, <1>c, <1>t, <1>s, <1>i, IdleSolo DEF PatchValue, At, Goto, SoloTick, TickSettled,
         MayBeOut, SoloRow, TickPlaced, TickCoupled, RowSound, Job, env
  <2>2. SoloRow'
    BY <1>3, <1>a, <1>b, <1>c, <1>t, <1>s DEF PatchValue, At, SoloRow, NeverPaidAndRefunded,
         MayBeOut, SoloTick, TickSettled, TickPlaced, TickCoupled, RowSound, Attended, Row, env
  <2> QED
    BY <2>1, <2>2
<1>4. ASSUME FailQuoted(d) PROVE Goal
  <2>1. SoloTick(job'[d], row', pay', peer', config'.wallet)
    BY <1>4, <1>i DEF FailQuoted
  <2>2. SoloRow'
    BY <1>4, <1>a, <1>b, <1>c, <1>t, <1>s DEF FailQuoted, At, fail, failState, transition, Won,
         SoloRow, NeverPaidAndRefunded, MayBeOut, SoloTick, TickSettled, TickPlaced, TickCoupled,
         RowSound, Attended, Row, env, Exposed
  <2> QED
    BY <2>1, <2>2
<1>5. ASSUME Fund(d) PROVE Goal
  <2>1. SoloTick(job'[d], row', pay', peer', config'.wallet)
    BY <1>5, <1>i DEF Fund
  <2>2. SoloRow'
    BY <1>5, <1>a, <1>b, <1>c, <1>t, <1>s DEF Fund, At, transition, Won, SoloRow,
         NeverPaidAndRefunded, MayBeOut, SoloTick, TickSettled, TickPlaced, TickCoupled, RowSound,
         Attended, Row, env
  <2> QED
    BY <2>1, <2>2
<1>6. ASSUME FundedKeyRotated(d) PROVE Goal
  <2>1. SoloTick(job'[d], row', pay', peer', config'.wallet)
    BY <1>6, <1>i DEF FundedKeyRotated
  <2>2. SoloRow'
    BY <1>6, <1>a, <1>b, <1>c, <1>t, <1>s DEF FundedKeyRotated, fail, failState, transition, Won,
         AtFunded, At, SoloRow, NeverPaidAndRefunded, MayBeOut, SoloTick, TickSettled, TickPlaced,
         TickCoupled, RowSound, Attended, Row, env, Exposed
  <2> QED
    BY <2>1, <2>2
<1>7. ASSUME FundedCoupled(d) PROVE Goal
  <2>1. SoloTick(job'[d], row', pay', peer', config'.wallet)
    BY <1>7, <1>i DEF FundedCoupled
  <2>2. SoloRow'
    BY <1>7, <1>a, <1>b, <1>c, <1>t, <1>s DEF FundedCoupled, fail, failState, transition, Won,
         AtFunded, At, SoloRow, NeverPaidAndRefunded, MayBeOut, SoloTick, TickSettled, TickPlaced,
         TickCoupled, RowSound, Attended, Row, env, Exposed
  <2> QED
    BY <2>1, <2>2
<1>8. ASSUME FundedPeerRefused(d) PROVE Goal
  <2>1. SoloTick(job'[d], row', pay', peer', config'.wallet)
    BY <1>8, <1>a, <1>c, <1>t, <1>s, <1>i, IdleSolo DEF FundedPeerRefused, Goto, AtFunded, At,
         SoloTick, TickSettled, MayBeOut, SoloRow, TickPlaced, TickCoupled, RowSound, Job, env
  <2>2. SoloRow'
    BY <1>8, <1>a, <1>b, <1>c, <1>t, <1>s DEF FundedPeerRefused, AtFunded, At, SoloRow,
         NeverPaidAndRefunded, MayBeOut, SoloTick, TickSettled, TickPlaced, TickCoupled, RowSound,
         Attended, Row, env
  <2> QED
    BY <2>1, <2>2
<1>9. ASSUME RefuseCoupled(d) PROVE Goal
  <2>1. SoloTick(job'[d], row', pay', peer', config'.wallet)
    BY <1>9, <1>a, <1>c, <1>t, <1>s, <1>i, IdleSolo DEF RefuseCoupled, At, transition, Won,
         SoloTick, TickSettled, MayBeOut, SoloRow, TickPlaced, TickCoupled, RowSound, Job, env
  <2>2. SoloRow'
    BY <1>9, <1>a, <1>b, <1>c, <1>t, <1>s DEF RefuseCoupled, At, transition, Won, SoloRow,
         NeverPaidAndRefunded, MayBeOut, SoloTick, TickSettled, TickPlaced, TickCoupled, RowSound,
         Attended, Row, env
  <2> QED
    BY <2>1, <2>2
<1>10. ASSUME FundedDecides(d) PROVE Goal
  <2>1. SoloTick(job'[d], row', pay', peer', config'.wallet)
    BY <1>10, <1>a, <1>c, <1>t, <1>s, <1>i, IdleSolo DEF FundedDecides, Goto, fail, failState,
         transition, Won, AtFunded, At, Payable, SoloTick, TickSettled, MayBeOut, SoloRow,
         TickPlaced, TickCoupled, RowSound, Job, env
  <2>2. SoloRow'
    BY <1>10, <1>a, <1>b, <1>c, <1>t, <1>s DEF FundedDecides, fail, failState, transition, Won,
         AtFunded, At, Payable, SoloRow, NeverPaidAndRefunded, MayBeOut, SoloTick, TickSettled,
         TickPlaced, TickCoupled, RowSound, Attended, Row, env, Held, Spent, Covers, Exposed
  <2> QED
    BY <2>1, <2>2
<1>11. ASSUME StartPay(d) PROVE Goal
  <2>1. SoloTick(job'[d], row', pay', peer', config'.wallet)
    <3> DEFINE k == [job[d] EXCEPT !.pc = "submit", !.row = row', !.fresh = TRUE]
    <3>1. CASE ~Won("funded")
      BY <1>11, <1>a, <3>1, IdleSolo DEF StartPay
    <3>2. CASE Won("funded")
      <4>1. row' = [row EXCEPT !.state = "paying", !.attempted = clock, !.wallet = config.wallet]
        BY <1>11, <3>2 DEF StartPay, transition
      <4>2. row'.state = "paying" /\ row'.wallet = config.wallet
        BY <4>1, <1>a DEF Row
      <4>3. job'[d] = k /\ UNCHANGED <<pay, peer, config>>
        BY <1>11, <3>2, <1>a DEF StartPay, env
      <4>4. k.pc = "submit" /\ k.row = row'
        BY <1>c DEF Job
      <4>5. config.wallet = "first" => pay = "none"
        BY <3>2, <1>s DEF SoloRow, Won
      <4> HIDE DEF k
      <4> QED
        BY <4>2, <4>3, <4>4, <4>5 DEF SoloTick, TickSettled, MayBeOut
    <3> QED
      BY <3>1, <3>2
  <2>2. SoloRow'
    BY <1>11, <1>a, <1>b, <1>c, <1>t, <1>s DEF StartPay, At, transition, Won, SoloRow,
         NeverPaidAndRefunded, MayBeOut, SoloTick, TickSettled, TickPlaced, TickCoupled, RowSound,
         Attended, Row, env
  <2> QED
    BY <2>1, <2>2
<1>12. ASSUME PayingForeign(d) PROVE Goal
  <2>1. SoloTick(job'[d], row', pay', peer', config'.wallet)
    BY <1>12, <1>i DEF PayingForeign
  <2>2. SoloRow'
    BY <1>12, <1>a, <1>b, <1>c, <1>t, <1>s DEF PayingForeign, fail, failState, transition, Won,
         AtPayingNoId, At, Foreign, SoloRow, NeverPaidAndRefunded, MayBeOut, SoloTick, TickSettled,
         TickPlaced, TickCoupled, RowSound, Attended, Row, env, Exposed
  <2> QED
    BY <2>1, <2>2
<1>13. ASSUME PayingProbed(d) PROVE Goal
  <2>1. SoloTick(job'[d], row', pay', peer', config'.wallet)
    <3> DEFINE paid == [job[d] EXCEPT !.pc = "markPaid", !.result = "settled", !.byProbe = TRUE]
               failed == [job[d] EXCEPT !.pc = "verdict", !.result = "failed", !.byProbe = TRUE]
               resubmit == [job[d] EXCEPT !.pc = "submit", !.fresh = TRUE]
    <3>1. UNCHANGED <<row, pay, peer, config>>
      BY <1>13 DEF PayingProbed, env
    <3>2. /\ job[d].pc = "step" /\ job[d].row = row /\ row.state = "paying"
          /\ row.wallet = config.wallet
      BY <1>13, <1>s DEF PayingProbed, AtPayingNoId, At, Foreign, SoloTick
    <3>3. paid.pc = "markPaid" /\ paid.row = row /\ failed.pc = "verdict" /\ failed.row = row
      BY <3>2, <1>c DEF Job
    <3>4. resubmit.pc = "submit" /\ resubmit.row = row
      BY <3>2, <1>c DEF Job
    <3>5. ~WithinGrace(row) /\ config.wallet = "first" => pay # "queued"
      BY <3>2, <1>s, <1>a, <1>b, <1>c DEF WithinGrace, SoloRow, NeverTried
    <3>6. \/ job'[d] = Idle \/ job'[d] = paid
          \/ pay = "failed" /\ job'[d] = failed
          \/ pay \in Unseen /\ ~WithinGrace(row) /\ job'[d] = resubmit
      BY <1>13, <3>2, <1>a, ProbeMoves
    <3> HIDE DEF paid, failed, resubmit
    <3>7. CASE job'[d] = Idle
      BY <3>7, IdleSolo
    <3>8. CASE job'[d] = paid \/ (pay = "failed" /\ job'[d] = failed)
      BY <3>1, <3>2, <3>3, <3>8 DEF SoloTick, TickSettled, MayBeOut
    <3>9. CASE pay \in Unseen /\ ~WithinGrace(row) /\ job'[d] = resubmit
      BY <3>1, <3>2, <3>4, <3>5, <3>9 DEF SoloTick, TickSettled, MayBeOut, Unseen
    <3> QED
      BY <3>6, <3>7, <3>8, <3>9
  <2>2. SoloRow'
    BY <1>13, <1>a, <1>b, <1>c, <1>t, <1>s DEF PayingProbed, AtPayingNoId, At, Foreign, WithinGrace,
         HasProbe, SoloRow, NeverPaidAndRefunded, MayBeOut, SoloTick, TickSettled, TickPlaced,
         TickCoupled, RowSound, Attended, Row, env
  <2> QED
    BY <2>1, <2>2
<1>14. ASSUME PayingNoPreimage(d) PROVE Goal
  <2>1. SoloTick(job'[d], row', pay', peer', config'.wallet)
    BY <1>14, <1>i DEF PayingNoPreimage
  <2>2. SoloRow'
    BY <1>14, <1>a, <1>b, <1>c, <1>t, <1>s DEF PayingNoPreimage, fail, failState, transition, Won,
         AtPayingNoId, At, Foreign, HasProbe, SoloRow, NeverPaidAndRefunded, MayBeOut, SoloTick,
         TickSettled, TickPlaced, TickCoupled, RowSound, Attended, Row, env, Exposed
  <2> QED
    BY <2>1, <2>2
<1>15. ASSUME PayingUnprobed(d) PROVE Goal
  <2>1. SoloTick(job'[d], row', pay', peer', config'.wallet)
    <3> DEFINE k == [job[d] EXCEPT !.pc = "submit"]
    <3>1. UNCHANGED <<row, pay, peer, config>> /\ job'[d] = k
      BY <1>15, <1>a DEF PayingUnprobed, Goto, env
    <3>2. /\ job[d].pc = "step" /\ job[d].row = row /\ row.state = "paying" /\ row.wallet = config.wallet
      BY <1>15, <1>s DEF PayingUnprobed, AtPayingNoId, At, Foreign, SoloTick
    <3>3. k.pc = "submit" /\ k.row = row /\ ~k.fresh
      BY <1>15, <3>2, <1>c, <1>s DEF Job, SoloTick
    <3> HIDE DEF k
    <3> QED
      BY <3>1, <3>2, <3>3, <1>s DEF SoloTick, TickSettled
  <2>2. SoloRow'
    BY <1>15, <1>a, <1>b, <1>c, <1>t, <1>s DEF PayingUnprobed, AtPayingNoId, At, Foreign, HasProbe,
         SoloRow, NeverPaidAndRefunded, MayBeOut, SoloTick, TickSettled, TickPlaced, TickCoupled,
         RowSound, Attended, Row, env
  <2> QED
    BY <2>1, <2>2
<1>16. ASSUME SubmitRefused(d) PROVE Goal
  <2>1. SoloTick(job'[d], row', pay', peer', config'.wallet)
    BY <1>16, <1>i DEF SubmitRefused
  <2>2. SoloRow'
    BY <1>16, <1>a, <1>b, <1>c, <1>t, <1>s DEF SubmitRefused, At, fail, failState, transition, Won,
         Payable, SoloRow, NeverPaidAndRefunded, MayBeOut, SoloTick, TickSettled, TickPlaced,
         TickCoupled, RowSound, Attended, Row, env, Held, Spent, Covers, Exposed
  <2> QED
    BY <2>1, <2>2
<1>17. ASSUME payInvoice(d) PROVE Goal
  <2>1. SoloTick(job'[d], row', pay', peer', config'.wallet)
    BY <1>17, <1>a, <1>c, <1>t, <1>s, <1>i, IdleSolo DEF payInvoice, At, Goto, Payable, HasProbe,
         SoloTick, TickSettled, MayBeOut, SoloRow, TickPlaced, TickCoupled, RowSound, Job, env
  <2>2. SoloRow'
    BY <1>17, <1>a, <1>b, <1>c, <1>t, <1>s DEF payInvoice, At, Payable, HasProbe, SoloRow,
         NeverPaidAndRefunded, MayBeOut, SoloTick, TickSettled, TickPlaced, TickCoupled, RowSound,
         Attended, Row, env, Held, Spent, Covers
  <2> QED
    BY <2>1, <2>2
<1>18. ASSUME payInvoiceNotStarted(d) PROVE Goal
  <2>1. SoloTick(job'[d], row', pay', peer', config'.wallet)
    <3> DEFINE k == [job[d] EXCEPT !.pc = "findRefund", !.closed = TRUE]
    <3>1. HasProbe
      <4>1. CASE Probes = {TRUE}
        BY <4>1, <1>a DEF HasProbe
      <4>2. CASE PreflightAt > PayBy
        BY <1>18, <4>2, <1>a, <1>b DEF payInvoiceNotStarted, Payable
      <4> QED
        BY <4>1, <4>2 DEF Attended
    <3>2. pay = "none" /\ UNCHANGED <<pay, peer, config>> /\ (job'[d] = Idle \/ job'[d] = k)
      BY <1>18, <1>a, <3>1 DEF payInvoiceNotStarted, env
    <3>3. k.pc = "findRefund" /\ k.row = job[d].row
      BY <1>c DEF Job
    <3>4. peer = "none"
      BY <1>18, <1>t DEF payInvoiceNotStarted, At, TickPlaced, TickCoupled
    <3> HIDE DEF k
    <3> QED
      BY <3>2, <3>3, <3>4, <1>s, IdleSolo DEF SoloTick, TickSettled, MayBeOut
  <2>2. SoloRow'
    BY <1>18, <1>a, <1>b, <1>c, <1>t, <1>s DEF payInvoiceNotStarted, At, transition, Won, Payable,
         HasProbe, SoloRow, NeverPaidAndRefunded, MayBeOut, SoloTick, TickSettled, TickPlaced,
         TickCoupled, RowSound, Attended, Row, env, Held, Spent, Covers
  <2> QED
    BY <2>1, <2>2
<1>19. ASSUME PayResponse(d) PROVE Goal
  <2>1. SoloTick(job'[d], row', pay', peer', config'.wallet)
    BY <1>19, <1>a, <1>c, <1>t, <1>s, <1>i, IdleSolo DEF PayResponse, At, HasProbe, SoloTick,
         TickSettled, MayBeOut, SoloRow, TickPlaced, TickCoupled, RowSound, Job, env
  <2>2. SoloRow'
    BY <1>19, <1>a, <1>b, <1>c, <1>t, <1>s DEF PayResponse, At, HasProbe, SoloRow,
         NeverPaidAndRefunded, MayBeOut, SoloTick, TickSettled, TickPlaced, TickCoupled, RowSound,
         Attended, Row, env
  <2> QED
    BY <2>1, <2>2
<1>20. ASSUME whenHashBlocked(d) PROVE Goal
  <2>1. SoloTick(job'[d], row', pay', peer', config'.wallet)
    BY <1>20, <1>i DEF whenHashBlocked
  <2>2. SoloRow'
    BY <1>20, <1>a, <1>b, <1>c, <1>t, <1>s DEF whenHashBlocked, At, fail, failState, transition,
         Won, Payable, HasProbe, SoloRow, NeverPaidAndRefunded, MayBeOut, SoloTick, TickSettled,
         TickPlaced, TickCoupled, RowSound, Attended, Row, env, Held, Spent, Covers, Exposed
  <2> QED
    BY <2>1, <2>2
<1>21. ASSUME PatchPayment(d) PROVE Goal
  <2>1. SoloTick(job'[d], row', pay', peer', config'.wallet)
    BY <1>21, <1>a, <1>c, <1>t, <1>s, <1>i, IdleSolo DEF PatchPayment, At, Goto, SoloTick,
         TickSettled, MayBeOut, SoloRow, TickPlaced, TickCoupled, RowSound, Job, env
  <2>2. SoloRow'
    BY <1>21, <1>a, <1>b, <1>c, <1>t, <1>s DEF PatchPayment, At, SoloRow, NeverPaidAndRefunded,
         MayBeOut, SoloTick, TickSettled, TickPlaced, TickCoupled, RowSound, Attended, Row, env
  <2> QED
    BY <2>1, <2>2
<1>22. ASSUME settleFromBackend(d) PROVE Goal
  <2>1. SoloTick(job'[d], row', pay', peer', config'.wallet)
    <3> DEFINE claim == [job[d] EXCEPT !.pc = "toClaiming"]
               failed == [job[d] EXCEPT !.pc = "verdict", !.result = "failed"]
               pending == [job[d] EXCEPT !.pc = "markPaid", !.result = "pending"]
               settled == [job[d] EXCEPT !.pc = "markPaid", !.result = "settled"]
    <3>1. UNCHANGED <<row, pay, peer, config>>
      BY <1>22 DEF settleFromBackend, env
    <3>2. job[d].row = row /\ row.state \in {"paying", "paid"}
      BY <1>22, <1>s DEF settleFromBackend, Settling, At, SoloTick
    <3>3. /\ claim.pc = "toClaiming" /\ claim.row = row /\ failed.pc = "verdict" /\ failed.row = row
          /\ pending.pc = "markPaid" /\ pending.row = row /\ settled.pc = "markPaid" /\ settled.row = row
      BY <3>2, <1>c DEF Job
    <3>4. ASSUME config.wallet = "first", pay = "failed" \/ (PayAsSeen(row) \in Unseen /\ ~WithinGrace(row))
          PROVE  pay \notin MayBeOut
      <4>1. PayAsSeen(row) = pay
        BY <3>4, <1>s DEF PayAsSeen, Foreign, SoloRow
      <4>2. ~WithinGrace(row) => pay # "queued"
        BY <3>4, <1>s, <1>a, <1>b, <1>c DEF WithinGrace, SoloRow, NeverTried
      <4> QED
        BY <3>4, <4>1, <4>2 DEF Unseen, MayBeOut
    <3>5. \/ job'[d] = Idle \/ job'[d] = claim \/ job'[d] = pending \/ job'[d] = settled
          \/ /\ pay = "failed" \/ (PayAsSeen(row) \in Unseen /\ ~WithinGrace(row))
             /\ job'[d] = failed
      BY <1>22, <3>2, <1>a, SettleMoves
    <3>6. config.wallet = "first" => row.wallet = "first"
      BY <1>s DEF SoloRow
    <3> HIDE DEF claim, failed, pending, settled
    <3> QED
      BY <3>1, <3>3, <3>4, <3>5, <3>6, IdleSolo DEF SoloTick, TickSettled
  <2>2. SoloRow'
    BY <1>22, <1>a, <1>b, <1>c, <1>t, <1>s DEF settleFromBackend, At, PayAsSeen, Foreign,
         WithinGrace, Settling, SoloRow, NeverPaidAndRefunded, MayBeOut, SoloTick, TickSettled,
         TickPlaced, TickCoupled, RowSound, Attended, Row, env
  <2> QED
    BY <2>1, <2>2
<1>23. ASSUME MarkPaid(d) PROVE Goal
  <2>1. SoloTick(job'[d], row', pay', peer', config'.wallet)
    BY <1>23, <1>a, <1>c, <1>t, <1>s, <1>i, IdleSolo DEF MarkPaid, At, transition, Won, SoloTick,
         TickSettled, MayBeOut, SoloRow, TickPlaced, TickCoupled, RowSound, Job, env
  <2>2. SoloRow'
    BY <1>23, <1>a, <1>b, <1>c, <1>t, <1>s DEF MarkPaid, At, transition, Won, SoloRow,
         NeverPaidAndRefunded, MayBeOut, SoloTick, TickSettled, TickPlaced, TickCoupled, RowSound,
         Attended, Row, env
  <2> QED
    BY <2>1, <2>2
<1>24. ASSUME claimWithPreimage(d) PROVE Goal
  <2>1. SoloTick(job'[d], row', pay', peer', config'.wallet)
    BY <1>24, <1>i DEF claimWithPreimage
  <2>2. SoloRow'
    BY <1>24, <1>a, <1>b, <1>c, <1>t, <1>s DEF claimWithPreimage, At, fail, failState, transition,
         Won, SoloRow, NeverPaidAndRefunded, MayBeOut, SoloTick, TickSettled, TickPlaced,
         TickCoupled, RowSound, Attended, Row, env, Exposed
  <2> QED
    BY <2>1, <2>2
<1>25. ASSUME refundProvenSelfPayment(d) PROVE Goal
  <2>1. SoloTick(job'[d], row', pay', peer', config'.wallet)
    BY <1>25, <1>a, <1>c, <1>t, <1>s, <1>i, IdleSolo DEF refundProvenSelfPayment, At, transition,
         Won, SoloTick, TickSettled, MayBeOut, SoloRow, TickPlaced, TickCoupled, RowSound, Job, env
  <2>2. SoloRow'
    BY <1>25, <1>a, <1>b, <1>c, <1>t, <1>s DEF refundProvenSelfPayment, At, transition, Won,
         SoloRow, NeverPaidAndRefunded, MayBeOut, SoloTick, TickSettled, TickPlaced, TickCoupled,
         RowSound, Attended, Row, env
  <2> QED
    BY <2>1, <2>2
<1>26. ASSUME FindRefund(d) PROVE Goal
  <2>1. SoloTick(job'[d], row', pay', peer', config'.wallet)
    <3> DEFINE found == [job[d] EXCEPT !.pc = "refund", !.seen = lockup,
                                       !.closed = @ \/ job[d].pc = "pushRefund"]
               terminal == [job[d] EXCEPT !.pc = "terminal"]
    <3>1. /\ found.pc = "refund" /\ found.row = job[d].row
          /\ terminal.pc = "terminal" /\ terminal.row = job[d].row
      BY <1>c DEF Job
    <3>2. job'[d] = Idle \/ job'[d] = found \/ job'[d] = terminal
      BY <1>26, <1>a DEF FindRefund
    <3>3. UNCHANGED <<pay, peer, config>> /\ job[d].pc \in {"findRefund", "pushRefund"}
      BY <1>26 DEF FindRefund, env
    <3> HIDE DEF found, terminal
    <3> QED
      BY <3>1, <3>2, <3>3, <1>s, IdleSolo DEF SoloTick, TickSettled
  <2>2. SoloRow'
    BY <1>26, <1>a, <1>b, <1>c, <1>t, <1>s DEF FindRefund, At, SoloRow, NeverPaidAndRefunded,
         MayBeOut, SoloTick, TickSettled, TickPlaced, TickCoupled, RowSound, Attended, Row, env
  <2> QED
    BY <2>1, <2>2
<1>27. ASSUME Refund(d) PROVE Goal
  <2>1. SoloTick(job'[d], row', pay', peer', config'.wallet)
    <3> DEFINE patch == [job[d] EXCEPT !.pc = "patchRefund"]
               terminal == [job[d] EXCEPT !.pc = "terminal"]
    <3>1. /\ patch.pc = "patchRefund" /\ patch.row = job[d].row
          /\ terminal.pc = "terminal" /\ terminal.row = job[d].row
      BY <1>c DEF Job
    <3>2. job'[d] = Idle \/ job'[d] = patch \/ job'[d] = terminal
      BY <1>27, <1>a DEF Refund, Goto
    <3>3. UNCHANGED <<pay, peer, config>> /\ job[d].pc = "refund"
      BY <1>27 DEF Refund, At, env
    <3> HIDE DEF patch, terminal
    <3> QED
      BY <3>1, <3>2, <3>3, <1>s, IdleSolo DEF SoloTick, TickSettled
  <2>2. SoloRow'
    BY <1>27, <1>a, <1>b, <1>c, <1>t, <1>s DEF Refund, At, AfterRefund, SoloRow,
         NeverPaidAndRefunded, MayBeOut, SoloTick, TickSettled, TickPlaced, TickCoupled, RowSound,
         Attended, Row, env, Held, Spent, Covers
  <2> QED
    BY <2>1, <2>2
<1>28. ASSUME RefundFails(d) PROVE Goal
  <2>1. SoloTick(job'[d], row', pay', peer', config'.wallet)
    BY <1>28, <1>a, <1>c, <1>t, <1>s, <1>i, IdleSolo DEF RefundFails, At, AfterRefund, SoloTick,
         TickSettled, MayBeOut, SoloRow, TickPlaced, TickCoupled, RowSound, Job, env
  <2>2. SoloRow'
    BY <1>28, <1>a, <1>b, <1>c, <1>t, <1>s DEF RefundFails, At, AfterRefund, SoloRow,
         NeverPaidAndRefunded, MayBeOut, SoloTick, TickSettled, TickPlaced, TickCoupled, RowSound,
         Attended, Row, env, Held, Spent, Covers
  <2> QED
    BY <2>1, <2>2
<1>29. ASSUME PatchRefund(d) PROVE Goal
  <2>1. SoloTick(job'[d], row', pay', peer', config'.wallet)
    BY <1>29, <1>a, <1>c, <1>t, <1>s, <1>i, IdleSolo DEF PatchRefund, At, SoloTick, TickSettled,
         MayBeOut, SoloRow, TickPlaced, TickCoupled, RowSound, Job, env
  <2>2. SoloRow'
    BY <1>29, <1>a, <1>b, <1>c, <1>t, <1>s DEF PatchRefund, At, SoloRow, NeverPaidAndRefunded,
         MayBeOut, SoloTick, TickSettled, TickPlaced, TickCoupled, RowSound, Attended, Row, env
  <2> QED
    BY <2>1, <2>2
<1>30. ASSUME settleTerminalFailure(d) PROVE Goal
  <2>1. SoloTick(job'[d], row', pay', peer', config'.wallet)
    BY <1>30, <1>i DEF settleTerminalFailure
  <2>2. SoloRow'
    BY <1>30, <1>a, <1>b, <1>c, <1>t, <1>s DEF settleTerminalFailure, At, fail, failState,
         transition, Won, SoloRow, NeverPaidAndRefunded, MayBeOut, SoloTick, TickSettled,
         TickPlaced, TickCoupled, RowSound, Attended, Row, env, Exposed
  <2> QED
    BY <2>1, <2>2
<1>31. ASSUME whenClaiming(d) PROVE Goal
  <2>1. SoloTick(job'[d], row', pay', peer', config'.wallet)
    BY <1>31, <1>a, <1>c, <1>t, <1>s, <1>i, IdleSolo DEF whenClaiming, At, Goto, SoloTick,
         TickSettled, MayBeOut, SoloRow, TickPlaced, TickCoupled, RowSound, Job, env
  <2>2. SoloRow'
    BY <1>31, <1>a, <1>b, <1>c, <1>t, <1>s DEF whenClaiming, At, SoloRow, NeverPaidAndRefunded,
         MayBeOut, SoloTick, TickSettled, TickPlaced, TickCoupled, RowSound, Attended, Row, env
  <2> QED
    BY <2>1, <2>2
<1>32. ASSUME Claim(d) PROVE Goal
  <2>1. SoloTick(job'[d], row', pay', peer', config'.wallet)
    BY <1>32, <1>a, <1>c, <1>t, <1>s, <1>i, IdleSolo DEF Claim, At, Goto, SoloTick, TickSettled,
         MayBeOut, SoloRow, TickPlaced, TickCoupled, RowSound, Job, env
  <2>2. SoloRow'
    BY <1>32, <1>a, <1>b, <1>c, <1>t, <1>s DEF Claim, At, SoloRow, NeverPaidAndRefunded, MayBeOut,
         SoloTick, TickSettled, TickPlaced, TickCoupled, RowSound, Attended, Row, env, Held, Spent,
         Covers
  <2> QED
    BY <2>1, <2>2
<1>33. ASSUME ClaimFails(d) PROVE Goal
  <2>1. SoloTick(job'[d], row', pay', peer', config'.wallet)
    BY <1>33, <1>i DEF ClaimFails
  <2>2. SoloRow'
    BY <1>33, <1>a, <1>b, <1>c, <1>t, <1>s DEF ClaimFails, At, fail, failState, transition, Won,
         SoloRow, NeverPaidAndRefunded, MayBeOut, SoloTick, TickSettled, TickPlaced, TickCoupled,
         RowSound, Attended, Row, env, Held, Spent, Covers, Exposed
  <2> QED
    BY <2>1, <2>2
<1>34. ASSUME ClaimEvidence(d) PROVE Goal
  <2>1. SoloTick(job'[d], row', pay', peer', config'.wallet)
    BY <1>34, <1>a, <1>c, <1>t, <1>s, <1>i, IdleSolo DEF ClaimEvidence, At, Goto, fail, failState,
         transition, Won, SoloTick, TickSettled, MayBeOut, SoloRow, TickPlaced, TickCoupled,
         RowSound, Job, env
  <2>2. SoloRow'
    BY <1>34, <1>a, <1>b, <1>c, <1>t, <1>s DEF ClaimEvidence, At, fail, failState, transition, Won,
         SoloRow, NeverPaidAndRefunded, MayBeOut, SoloTick, TickSettled, TickPlaced, TickCoupled,
         RowSound, Attended, Row, env, Held, Spent, Covers, Exposed
  <2> QED
    BY <2>1, <2>2
<1>35. ASSUME MarkClaimed(d) PROVE Goal
  <2>1. SoloTick(job'[d], row', pay', peer', config'.wallet)
    BY <1>35, <1>i DEF MarkClaimed
  <2>2. SoloRow'
    BY <1>35, <1>a, <1>b, <1>c, <1>t, <1>s DEF MarkClaimed, At, transition, Won, SoloRow,
         NeverPaidAndRefunded, MayBeOut, SoloTick, TickSettled, TickPlaced, TickCoupled, RowSound,
         Attended, Row, env
  <2> QED
    BY <2>1, <2>2
<1>36. ASSUME Abandon(d) PROVE Goal
  <2>1. SoloTick(job'[d], row', pay', peer', config'.wallet)
    BY <1>36, <1>i DEF Abandon
  <2>2. SoloRow'
    BY <1>36, <1>a, <1>b, <1>c, <1>t, <1>s DEF Abandon, SoloRow, NeverPaidAndRefunded, MayBeOut,
         SoloTick, TickSettled, TickPlaced, TickCoupled, RowSound, Attended, Row, env
  <2> QED
    BY <2>1, <2>2
<1> QED
  BY <1>1, <1>2, <1>3, <1>4, <1>5, <1>6, <1>7, <1>8, <1>9, <1>10, <1>11, <1>12, <1>13, <1>14, <1>15,
       <1>16, <1>17, <1>18, <1>19, <1>20, <1>21, <1>22, <1>23, <1>24, <1>25, <1>26, <1>27, <1>28,
       <1>29, <1>30, <1>31, <1>32, <1>33, <1>34, <1>35, <1>36 DEF DriverStep

(* What a step of the sweep, a restart or the environment may do meanwhile:   *)
(* it starts no payment, and touches the row of no tick that works on it.     *)
Meanwhile ==
  /\ pay' \in MayBeOut => pay \in MayBeOut
  /\ row' = row \/ (row.state = "refused" /\ row'.state = "refused" /\ row'.wallet = row.wallet)
  /\ peer \in {"none", "refused"} => peer' = peer
  /\ config' = config

(* So its tick stays as it was. *)
LEMMA SoloKept ==
  ASSUME NEW j, SoloTick(j, row, pay, peer, config.wallet), TickPlaced(j), TickCoupled(j, peer), Meanwhile
  PROVE  SoloTick(j, row', pay', peer', config'.wallet)
BY DEF SoloTick, TickSettled, TickPlaced, TickCoupled, Meanwhile

(* The steps of the sweep, of a restart and of the environment. *)
LEMMA SoloOther ==
  ASSUME Attended, Inv, SoloInv, SweepStep \/ SweepAbandon \/ Reconfigure \/ Environment
  PROVE  /\ SoloRow'
         /\ (job' = job /\ Meanwhile) \/ job' = [d \in Driver |-> Idle]
<1> DEFINE Goal == SoloRow' /\ ((job' = job /\ Meanwhile) \/ job' = [d \in Driver |-> Idle])
<1>a. /\ row \in Row /\ sweeper \in [pc : SweepSteps, seen : Lockups]
      /\ lockup \in Lockups /\ pay \in PayStates /\ peer \in PeerStates /\ clock \in Nat
      /\ config \in Config /\ row.attempted \in Int
  BY DEF Inv, TypeOK, Row
<1>b. Grace \in Nat
  BY TimeAssumption
<1>s. RowSound /\ SoloRow
  BY DEF Inv, SoloInv
<1>1. ASSUME refundSweep PROVE Goal
  BY <1>1, <1>a, <1>b, <1>s DEF refundSweep, SoloRow, NeverPaidAndRefunded, MayBeOut, RowSound,
       Meanwhile, env, Held, Spent
<1>2. ASSUME SweepFind PROVE Goal
  BY <1>2, <1>a, <1>b, <1>s DEF SweepFind, SoloRow, NeverPaidAndRefunded, MayBeOut, RowSound,
       Meanwhile, env, Row, Held, Spent
<1>3. ASSUME SweepRefund PROVE Goal
  BY <1>3, <1>a, <1>b, <1>s DEF SweepRefund, AfterRefund, SoloRow, NeverPaidAndRefunded, MayBeOut,
       RowSound, Meanwhile, env, Held, Spent
<1>4. ASSUME SweepPatch PROVE Goal
  BY <1>4, <1>a, <1>b, <1>s DEF SweepPatch, SoloRow, NeverPaidAndRefunded, MayBeOut, RowSound,
       Meanwhile, env, Row, Held, Spent
<1>5. ASSUME SweepAbandon PROVE Goal
  BY <1>5, <1>a, <1>b, <1>s DEF SweepAbandon, SoloRow, NeverPaidAndRefunded, MayBeOut, RowSound,
       Meanwhile, env, Held, Spent
<1>6. ASSUME Reconfigure PROVE Goal
  BY <1>6, <1>a, <1>b, <1>s DEF Reconfigure, SoloRow, NeverPaidAndRefunded, MayBeOut, RowSound,
       Meanwhile, env, Held, Spent, Config
<1>7. ASSUME ClientFunds PROVE Goal
  BY <1>7, <1>a, <1>b, <1>s DEF ClientFunds, SoloRow, NeverPaidAndRefunded, MayBeOut, RowSound,
       Meanwhile, env, Held, Spent
<1>8. ASSUME ClientReclaims PROVE Goal
  BY <1>8, <1>a, <1>b, <1>s DEF ClientReclaims, SoloRow, NeverPaidAndRefunded, MayBeOut, RowSound,
       Meanwhile, env, Held, Spent
<1>9. ASSUME PayRecorded PROVE Goal
  BY <1>9, <1>a, <1>b, <1>s DEF PayRecorded, SoloRow, NeverPaidAndRefunded, MayBeOut, RowSound,
       Meanwhile, env, Held, Spent
<1>10. ASSUME PaySettles PROVE Goal
  BY <1>10, <1>a, <1>b, <1>s DEF PaySettles, SoloRow, NeverPaidAndRefunded, MayBeOut, RowSound,
       Meanwhile, env, Held, Spent
<1>11. ASSUME PayFails PROVE Goal
  BY <1>11, <1>a, <1>b, <1>s DEF PayFails, SoloRow, NeverPaidAndRefunded, MayBeOut, RowSound,
       Meanwhile, env, Held, Spent
<1>12. ASSUME OwnInvoiceMoves PROVE Goal
  BY <1>12, <1>a, <1>b, <1>s DEF OwnInvoiceMoves, SoloRow, NeverPaidAndRefunded, MayBeOut, RowSound,
       Meanwhile, env, Held, Spent
<1>13. ASSUME PeerMoves PROVE Goal
  BY <1>13, <1>a, <1>b, <1>s DEF PeerMoves, SoloRow, NeverPaidAndRefunded, MayBeOut, RowSound,
       Meanwhile, env
<1>14. ASSUME Advance PROVE Goal
  BY <1>14, <1>a, <1>b, <1>s DEF Advance, SoloRow, NeverPaidAndRefunded, MayBeOut, RowSound,
       Meanwhile, env, Held, Spent
<1> QED
  BY <1>1, <1>2, <1>3, <1>4, <1>5, <1>6, <1>7, <1>8, <1>9, <1>10, <1>11, <1>12, <1>13, <1>14 DEF
       SweepStep, Environment, Network

(* One process keeps its invariant. *)
LEMMA SoloStep ==
  ASSUME Attended, Inv, SoloInv, [Next]_vars
  PROVE  SoloInv'
<1>1. ASSUME NEW d \in Driver, DriverStep(d) \/ Abandon(d) PROVE SoloInv'
  <2>1. SoloTick(job'[d], row', pay', peer', config'.wallet) /\ SoloRow'
    BY <1>1, SoloDriver
  <2>2. \A e \in Driver : e = d
    BY DEF Attended
  <2> QED
    BY <2>1, <2>2 DEF SoloInv, SoloTicks
<1>2. ASSUME SweepStep \/ SweepAbandon \/ Reconfigure \/ Environment PROVE SoloInv'
  <2>1. SoloRow' /\ ((job' = job /\ Meanwhile) \/ job' = [d \in Driver |-> Idle])
    BY <1>2, SoloOther
  <2>2. ASSUME NEW e \in Driver PROVE SoloTick(job'[e], row', pay', peer', config'.wallet)
    <3>1. SoloTick(job[e], row, pay, peer, config.wallet) /\ TickPlaced(job[e]) /\ TickCoupled(job[e], peer)
      BY DEF Inv, SoloInv, SoloTicks, TicksSound, TickSound
    <3>2. (job'[e] = job[e] /\ Meanwhile) \/ job'[e] = Idle
      BY <2>1
    <3> QED
      BY <3>1, <3>2, SoloKept, IdleSolo
  <2> QED
    BY <2>1, <2>2 DEF SoloInv, SoloTicks
<1>3. CASE UNCHANGED vars
  BY <1>3 DEF vars, SoloInv, SoloTicks, SoloTick, TickSettled, SoloRow, NeverPaidAndRefunded
<1> QED
  BY <1>1, <1>2, <1>3 DEF Next, Faults

(* The invariant of one process holds of every behaviour. *)
THEOREM SoloInvariant ==
  ASSUME Attended
  PROVE  Spec => [](Inv /\ SoloInv)
<1>1. Init => Inv /\ SoloInv
  <2>1. Init => Inv
    BY InvInit
  <2>2. ASSUME Init PROVE SoloTicks
    BY <2>2, IdleSolo DEF Init, SoloTicks
  <2>3. ASSUME Init PROVE SoloRow
    BY <2>3 DEF Init, SoloRow, NewRow, NeverTried, NeverPaidAndRefunded, MayBeOut
  <2> QED
    BY <2>1, <2>2, <2>3 DEF SoloInv
<1>2. Inv /\ SoloInv /\ [Next]_vars => (Inv /\ SoloInv)'
  BY InvStep, SoloStep
<1> QED
  BY <1>1, <1>2, PTL DEF Spec

(* The swap is never paid twice: a lockup is not given back while a payment  *)
(* of its invoice may still succeed or has, no payment is lost from a row     *)
(* closed or not yet paying; with everything StaleTicksSafe says.             *)
THEOREM SwapSafe ==
  ASSUME Attended
  PROVE  Spec => []SwapIsSafe
<1>1. Inv /\ SoloInv => SwapIsSafe
  BY DEF Inv, RowSound, SoloInv, SoloRow, SwapIsSafe, CoupledNeverPaid, PaymentNeverForgotten, MayBeOut
<1> QED
  BY SoloInvariant, <1>1, PTL

(* Every payment leaves from the wallet the row names: a restart on another  *)
(* wallet never pays what the first one may have paid.                       *)
THEOREM OneWallet ==
  ASSUME Attended
  PROVE  Spec => OneWalletPays
<1>1. ASSUME Inv, SoloInv, [Next]_vars, pay' # pay, pay \in {"none", "failed"}
      PROVE  row.wallet = config.wallet
  <2>1. ASSUME NEW d \in Driver, DriverStep(d) \/ Abandon(d) PROVE row.wallet = config.wallet
    <3>1. payInvoice(d)
      BY <1>1, <2>1 DEF DriverStep, Tick, whenQuoted, PatchValue, FailQuoted, Fund, FundedKeyRotated,
           FundedCoupled, FundedPeerRefused, RefuseCoupled, FundedDecides, StartPay, PayingForeign,
           PayingProbed, PayingNoPreimage, PayingUnprobed, SubmitRefused, payInvoiceNotStarted, PayResponse,
           whenHashBlocked, PatchPayment, settleFromBackend, MarkPaid, claimWithPreimage,
           refundProvenSelfPayment, FindRefund, Refund, RefundFails, PatchRefund, settleTerminalFailure,
           whenClaiming, Claim, ClaimFails, ClaimEvidence, MarkClaimed, Abandon
    <3> QED
      BY <1>1, <3>1 DEF payInvoice, At, SoloInv, SoloTicks, SoloTick
  <2>2. ASSUME SweepStep \/ SweepAbandon \/ Reconfigure \/ Environment \/ UNCHANGED vars PROVE FALSE
    BY <1>1, <2>2 DEF SweepStep, refundSweep, SweepFind, SweepRefund, SweepPatch, SweepAbandon, Reconfigure,
       Environment, Network, ClientFunds, ClientReclaims, PayRecorded, PaySettles, PayFails,
       OwnInvoiceMoves, PeerMoves, Advance, vars
  <2> QED
    BY <1>1, <2>1, <2>2 DEF Next, Faults
<1>2. Inv /\ SoloInv /\ [Next]_vars
        => [pay' # pay /\ pay \in {"none", "failed"} => row.wallet = config.wallet]_vars
  BY <1>1
<1> QED
  BY SoloInvariant, <1>2, PTL DEF Spec, OneWalletPays

----------------------------------------------------------------------------
(* The corridor implements the abstract swap, up to a reconfiguration. *)

(* The legs only depend on the lockup, the payment and the coupled row. *)
LEMMA LegsKept ==
  ASSUME UNCHANGED <<lockup, pay, peer>>
  PROVE  UNCHANGED <<ClientLeg, PayoutLeg>>
BY DEF ClientLeg, PayoutLeg

(* The payout leg, while the payment and the coupled row stay.            *)
LEMMA PayoutKept ==
  ASSUME UNCHANGED <<pay, peer>>
  PROVE  PayoutLeg' = PayoutLeg
BY DEF PayoutLeg

(* The client's leg, while the lockup stays. *)
LEMMA ClientKept ==
  ASSUME UNCHANGED lockup
  PROVE  ClientLeg' = ClientLeg
BY DEF ClientLeg

(* One step of the corridor is one step of the swap, or none. *)
LEMMA SwapStep ==
  ASSUME Attended, Inv, SoloInv, [Next]_vars, ~Reconfigured'
  PROVE  [Swap!Next]_<<ClientLeg, PayoutLeg>>
<1> DEFINE Goal == [Swap!Next]_<<ClientLeg, PayoutLeg>>
<1>a. /\ lockup \in Lockups /\ pay \in PayStates /\ peer \in PeerStates /\ RowSound /\ SoloRow
      /\ lockup' \in Lockups
  BY TypeStep DEF Inv, SoloInv, TypeOK
<1>b. UNCHANGED config => config.wallet = "first" /\ ~config.rotated
  BY DEF Reconfigured
(* A lockup that was there is given back only while no payout is out. *)
<1>r. ASSUME lockup \in Held, lockup' \in {lockup, "refunded", "leftover"}, UNCHANGED <<pay, peer>>,
             pay \notin MayBeOut, peer \notin {"paidOut", "revealed"}
      PROVE  Goal
  <2>1. PayoutLeg' = PayoutLeg
    BY <1>r, PayoutKept
  <2>2. PayoutLeg \in {"none", "withdrawn"}
    BY <1>r, <1>a DEF PayoutLeg, MayBeOut, PayStates, PeerStates
  <2>3. CASE lockup = "leftover" \/ lockup' = lockup
    <3>1. ClientLeg' = ClientLeg
      BY <2>3, <1>r DEF ClientLeg, Held
    <3> QED
      BY <2>1, <3>1
  <2>4. CASE lockup # "leftover" /\ lockup' # lockup
    <3>1. ClientLeg = "locked"
      BY <2>4, <1>r DEF ClientLeg, Held
    <3>2. ClientLeg' = "returned"
      BY <2>4, <1>r DEF ClientLeg, Held
    <3> QED
      BY <2>1, <2>2, <3>1, <3>2 DEF Swap!Next, Swap!Return
  <2> QED
    BY <2>3, <2>4
(* It is collected only against a payout the client has taken. *)
<1>c. ASSUME lockup \in Covers, lockup' \in {lockup, "claimed", "claimPending"}, UNCHANGED <<pay, peer>>,
             Earned(pay, peer)
      PROVE  Goal
  <2>1. PayoutLeg' = PayoutLeg
    BY <1>c, PayoutKept
  <2>4. PayoutLeg = "taken"
    BY <1>a, <1>c DEF PayoutLeg, Earned, RowSound
  <2>2. ClientLeg = "locked"
    BY <1>c DEF ClientLeg, Covers, Held
  <2>3. ClientLeg' \in {"locked", "collected"}
    BY <1>c DEF ClientLeg, Covers, Held
  <2> QED
    BY <2>1, <2>2, <2>3, <2>4 DEF Swap!Next, Swap!Collect
<1>1. ASSUME NEW d \in Driver, DriverStep(d) \/ Abandon(d) PROVE Goal
  <2>a. /\ TickSound(job[d], pay, peer, lockup)
        /\ SoloTick(job[d], row, pay, peer, config.wallet)
    BY DEF Inv, SoloInv, TicksSound, SoloTicks
  <2>1. CASE payInvoice(d)
    <3>1. /\ config.wallet = "first" /\ peer = "none" /\ UNCHANGED <<lockup, peer>>
          /\ lockup \in Held \ {"leftover"}
      BY <2>1, <1>b, <2>a DEF payInvoice, At, env, Payable, TickSound, TickPlaced, TickCoupled
    <3>2. \/ UNCHANGED pay
          \/ pay = "none" /\ pay' = "orphaned"
          \/ pay \in {"none", "failed"} /\ pay' \in {"queued", "inflight"}
      BY <2>1 DEF payInvoice
    <3>3. ClientLeg' = ClientLeg /\ ClientLeg = "locked"
      BY <3>1, ClientKept DEF ClientLeg, Held
    <3>4. PayoutLeg' = PayoutLeg \/ (PayoutLeg \in {"none", "withdrawn"} /\ PayoutLeg' = "offered")
      BY <3>1, <3>2 DEF PayoutLeg
    <3> QED
      BY <3>3, <3>4 DEF Swap!Next, Swap!Offer
  <2>2. CASE Refund(d) \/ RefundFails(d)
    <3>1. /\ job[d].pc = "refund" /\ UNCHANGED <<pay, peer, config>>
          /\ lockup' = lockup \/ (lockup \in Held /\ lockup' \in {"refunded", "leftover"})
      BY <2>2 DEF Refund, RefundFails, At, AfterRefund, env
    <3>2. pay \notin MayBeOut /\ peer \notin {"paidOut", "revealed"}
      BY <3>1, <1>b, <2>a DEF SoloTick, TickSettled
    <3>3. CASE lockup' = lockup
      BY <3>1, <3>3, LegsKept
    <3> QED
      BY <3>1, <3>2, <3>3, <1>r
  <2>3. CASE Claim(d) \/ ClaimFails(d)
    <3>1. /\ job[d].pc = "claim" /\ UNCHANGED <<pay, peer>>
          /\ lockup' = lockup \/ (lockup \in Covers /\ lockup' \in {"claimed", "claimPending"})
      BY <2>3 DEF Claim, ClaimFails, At, env
    <3>2. Earned(pay, peer)
      BY <3>1, <2>a DEF TickSound, TickEarned
    <3>3. CASE lockup' = lockup
      BY <3>1, <3>3, LegsKept
    <3> QED
      BY <3>1, <3>2, <3>3, <1>c
  <2>4. CASE ClaimEvidence(d)
    <3>1. UNCHANGED <<pay, peer>> /\ (lockup' = lockup \/ (lockup = "claimPending" /\ lockup' = "claimed"))
      BY <2>4 DEF ClaimEvidence, env
    <3>2. ClientLeg' = ClientLeg
      BY <3>1 DEF ClientLeg, Held
    <3> QED
      BY <3>1, <3>2, PayoutKept
  <2>5. CASE \/ Tick(d) \/ whenQuoted(d) \/ PatchValue(d) \/ FailQuoted(d) \/ Fund(d)
            \/ FundedKeyRotated(d) \/ FundedCoupled(d) \/ FundedPeerRefused(d) \/ RefuseCoupled(d)
            \/ FundedDecides(d) \/ StartPay(d) \/ PayingForeign(d) \/ PayingProbed(d)
            \/ PayingNoPreimage(d) \/ PayingUnprobed(d) \/ SubmitRefused(d) \/ payInvoiceNotStarted(d)
            \/ PayResponse(d) \/ whenHashBlocked(d) \/ PatchPayment(d) \/ settleFromBackend(d)
            \/ MarkPaid(d) \/ claimWithPreimage(d) \/ refundProvenSelfPayment(d) \/ FindRefund(d)
            \/ PatchRefund(d) \/ settleTerminalFailure(d) \/ whenClaiming(d) \/ MarkClaimed(d)
            \/ Abandon(d)
    <3>1. UNCHANGED <<lockup, pay, peer>>
      BY <2>5 DEF Tick, whenQuoted, PatchValue, FailQuoted, Fund, FundedKeyRotated, FundedCoupled,
           FundedPeerRefused, RefuseCoupled, FundedDecides, StartPay, PayingForeign, PayingProbed,
           PayingNoPreimage, PayingUnprobed, SubmitRefused, payInvoiceNotStarted, PayResponse,
           whenHashBlocked, PatchPayment, settleFromBackend, MarkPaid, claimWithPreimage,
           refundProvenSelfPayment, FindRefund, PatchRefund, settleTerminalFailure, whenClaiming,
           MarkClaimed, Abandon, env
    <3> QED
      BY <3>1, LegsKept
  <2> QED
    BY <1>1, <2>1, <2>2, <2>3, <2>4, <2>5 DEF DriverStep
<1>2. CASE SweepRefund
  <2>1. /\ sweeper.pc = "refund" /\ UNCHANGED <<pay, peer, config>>
        /\ lockup' = lockup \/ (lockup \in Held /\ lockup' \in {"refunded", "leftover"})
    BY <1>2 DEF SweepRefund, AfterRefund, env
  <2>2. pay \notin MayBeOut /\ peer \notin {"paidOut", "revealed"}
    BY <2>1, <1>a, <1>b DEF SoloRow
  <2>3. CASE lockup' = lockup
    BY <2>1, <2>3, LegsKept
  <2> QED
    BY <2>1, <2>2, <2>3, <1>r
<1>3. CASE ClientFunds
  <2>1. PayoutLeg' = PayoutLeg
    BY <1>3, PayoutKept DEF ClientFunds, env
  <2>2. \/ ClientLeg = "none" /\ ClientLeg' = "locked"
        \/ ClientLeg' = ClientLeg
    BY <1>3 DEF ClientFunds, ClientLeg, Held
  <2> QED
    BY <2>1, <2>2 DEF Swap!Next, Swap!Lock
<1>4. CASE ClientReclaims
  <2>1. PayoutLeg' = PayoutLeg
    BY <1>4, PayoutKept DEF ClientReclaims, env
  <2>2. ClientLeg \in {"locked", "returned"} /\ ClientLeg' = "clawedBack"
    BY <1>4 DEF ClientReclaims, ClientLeg, Held
  <2> QED
    BY <2>1, <2>2 DEF Swap!Next, Swap!Clawback
<1>5. CASE Network
  <2>1. UNCHANGED <<lockup, peer>> /\ peer = "none"
    BY <1>5, <1>a DEF Network, PayRecorded, PaySettles, PayFails, env, RowSound
  <2>2. ClientLeg' = ClientLeg
    BY <2>1, ClientKept
  <2>3. \/ pay = "queued" /\ pay' = "inflight"
        \/ pay = "inflight" /\ pay' \in {"settled", "failed"}
    BY <1>5 DEF Network, PayRecorded, PaySettles, PayFails
  <2>4. PayoutLeg = "offered" /\ PayoutLeg' \in {"offered", "taken", "withdrawn"}
    BY <2>1, <2>3 DEF PayoutLeg
  <2> QED
    BY <2>2, <2>4 DEF Swap!Next, Swap!Take, Swap!Withdraw
<1>6. CASE PeerMoves
  <2>1. UNCHANGED <<lockup, pay>> /\ pay = "none"
    BY <1>6, <1>a DEF PeerMoves, RowSound
  <2>2. ClientLeg' = ClientLeg
    BY <2>1, ClientKept
  <2>3. \/ PayoutLeg' = PayoutLeg
        \/ lockup \in Covers /\ PayoutLeg = "none" /\ PayoutLeg' = "offered"
        \/ PayoutLeg = "offered" /\ PayoutLeg' \in {"taken", "withdrawn"}
    BY <1>6, <2>1 DEF PeerMoves, PayoutLeg
  <2>4. lockup \in Covers => ClientLeg = "locked"
    BY DEF ClientLeg, Covers, Held
  <2> QED
    BY <2>2, <2>3, <2>4 DEF Swap!Next, Swap!Offer, Swap!Take, Swap!Withdraw
<1>7. CASE refundSweep \/ SweepFind \/ SweepPatch \/ SweepAbandon \/ Reconfigure \/ OwnInvoiceMoves \/ Advance \/ UNCHANGED vars
  <2>1. UNCHANGED <<lockup, pay, peer>>
    BY <1>7 DEF refundSweep, SweepFind, SweepPatch, SweepAbandon, Reconfigure, OwnInvoiceMoves,
         Advance, env, vars
  <2> QED
    BY <2>1, LegsKept
<1> QED
  BY <1>1, <1>2, <1>3, <1>4, <1>5, <1>6, <1>7 DEF Next, SweepStep, Faults, Environment

(* Until the operator changes the key or the wallet, every behaviour of one  *)
(* process, with its crashes, retries and refunds from three places, is one  *)
(* of the abstract swap: a lockup is returned only with no payout out, and   *)
(* collected only for a payout taken.                                        *)
THEOREM SendRefinesSwap ==
  ASSUME Attended
  PROVE  Spec => AtomicUntilReconfigured
<1>1. ASSUME Init PROVE Swap!Init
  <2>1. ClientLeg = "none"
    BY <1>1 DEF Init, ClientLeg, Held
  <2>2. pay = "none" /\ peer \in {"none", "quoted"}
    BY <1>1 DEF Init
  <2>3. PayoutLeg = "none"
    BY <2>2 DEF PayoutLeg
  <2> QED
    BY <2>1, <2>3 DEF Swap!Init
<1>2. Inv /\ SoloInv /\ [Next]_vars => [Swap!Next \/ Reconfigured']_<<ClientLeg, PayoutLeg>>
  BY SwapStep
<1> QED
  BY SoloInvariant, <1>1, <1>2, PTL DEF Spec, AtomicUntilReconfigured
============================================================================
