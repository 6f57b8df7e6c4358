----------------------- MODULE LightningReceiveProofs -----------------------
(***************************************************************************)
(* What holds of a receive swap for any number of processes that tick it,  *)
(* any deadlines and any number of crashes.                                *)
(***************************************************************************)
EXTENDS LightningReceive, TLAPS

----------------------------------------------------------------------------
(* Types. *)

(* A tick that moves on to another step, or ends, is still a tick. *)
LEMMA GotoType ==
  ASSUME job \in [Driver -> Job], NEW d \in Driver, NEW pc \in Steps, Goto(d, pc)
  PROVE  job' \in [Driver -> Job]
BY DEF Goto, Job

(* What a tick starts from and ends with. *)
LEMMA IdleType == NewRow \in Row /\ Idle \in Job
BY DEF Idle, NewRow, Job, Row, Steps, ReceiveSwapState, None

(* A tick that ends leaves its driver idle. *)
LEMMA DoneType ==
  ASSUME job \in [Driver -> Job], NEW d \in Driver, Done(d)
  PROVE  job' \in [Driver -> Job]
BY IdleType DEF Done

(* A refusal leaves a row. *)
LEMMA FailType ==
  ASSUME row \in Row, NEW from, fail(from)
  PROVE  row' \in Row
BY DEF fail, failState, transition, Row, ReceiveSwapState

(* Every step keeps the types. *)
LEMMA TypeStep ==
  ASSUME TypeOK, [Next]_vars
  PROVE  TypeOK'
<1> DEFINE Others == operator \in {"idle", "push", "patch"} /\ hold \in HoldStates
                     /\ expiry \in Expiries \cup {None}
                     /\ payout \in PayoutStates /\ fundings \in Nat
                     /\ send \in SendStates /\ clock \in Nat /\ faults \in Nat
<1>a. row \in Row /\ job \in [Driver -> Job] /\ Others
  BY DEF TypeOK
<1>b. ASSUME row' \in Row, job' \in [Driver -> Job], Others' PROVE TypeOK'
  BY <1>b DEF TypeOK
<1>1. ASSUME NEW d \in Driver, Tick(d) PROVE TypeOK'
  <2>1. row' \in Row
    BY <1>1, <1>a DEF Tick
  <2>2. job' \in [Driver -> Job]
    BY <1>1, <1>a, IdleType DEF Tick, Job, Steps, Idle
  <2>3. Others'
    BY <1>1, <1>a DEF Tick, ln, arkade
  <2> QED
    BY <1>b, <2>1, <2>2, <2>3
<1>2. ASSUME NEW d \in Driver, Fail(d) PROVE TypeOK'
  <2>1. row' \in Row
    BY <1>2, <1>a, FailType DEF Fail
  <2>2. job' \in [Driver -> Job]
    BY <1>2, <1>a, GotoType, DoneType DEF Fail, Steps
  <2>3. Others'
    BY <1>2, <1>a DEF Fail, ln, arkade
  <2> QED
    BY <1>b, <2>1, <2>2, <2>3
<1>3. ASSUME NEW d \in Driver, retireInvoice(d) PROVE TypeOK'
  <2>1. row' \in Row
    BY <1>3, <1>a DEF retireInvoice
  <2>2. job' \in [Driver -> Job]
    BY <1>3, <1>a, GotoType, DoneType DEF retireInvoice, Steps, RetireNext
  <2>3. Others'
    BY <1>3, <1>a DEF retireInvoice, ln, arkade, cancelHold, HoldStates
  <2> QED
    BY <1>b, <2>1, <2>2, <2>3
<1>4. ASSUME NEW d \in Driver, whenQuoted(d) PROVE TypeOK'
  <2>1. row' \in Row
    BY <1>4, <1>a DEF whenQuoted
  <2>2. job' \in [Driver -> Job]
    BY <1>4, <1>a, IdleType DEF whenQuoted, Job, Steps, Idle
  <2>3. Others'
    BY <1>4, <1>a DEF whenQuoted, ln, arkade
  <2> QED
    BY <1>b, <2>1, <2>2, <2>3
<1>5. ASSUME NEW d \in Driver, Arm(d) PROVE TypeOK'
  <2>1. row' \in Row
    BY <1>5, <1>a DEF Arm, transition, Row, Job, ReceiveSwapState, None
  <2>2. job' \in [Driver -> Job]
    BY <1>5, <1>a, GotoType, DoneType DEF Arm, Steps
  <2>3. Others'
    BY <1>5, <1>a DEF Arm, ln, arkade
  <2> QED
    BY <1>b, <2>1, <2>2, <2>3
<1>6. ASSUME NEW d \in Driver, QuotedCoupled(d) PROVE TypeOK'
  <2>1. row' \in Row
    BY <1>6, <1>a DEF QuotedCoupled
  <2>2. job' \in [Driver -> Job]
    BY <1>6, <1>a, IdleType DEF QuotedCoupled, Job, Steps, Idle
  <2>3. Others'
    BY <1>6, <1>a DEF QuotedCoupled, ln, arkade
  <2> QED
    BY <1>b, <2>1, <2>2, <2>3
<1>7. ASSUME NEW d \in Driver, ArmCoupled(d) PROVE TypeOK'
  <2>1. row' \in Row
    BY <1>7, <1>a DEF ArmCoupled, transition, Row, Job, ReceiveSwapState, None
  <2>2. job' \in [Driver -> Job]
    BY <1>7, <1>a, GotoType, DoneType DEF ArmCoupled, Steps
  <2>3. Others'
    BY <1>7, <1>a DEF ArmCoupled, ln, arkade
  <2> QED
    BY <1>b, <2>1, <2>2, <2>3
<1>8. ASSUME NEW d \in Driver, whenArmed(d) PROVE TypeOK'
  <2>1. row' \in Row
    BY <1>8, <1>a DEF whenArmed, transition, Row, Job, ReceiveSwapState, None
  <2>2. job' \in [Driver -> Job]
    BY <1>8, <1>a, GotoType, DoneType DEF whenArmed, Steps
  <2>3. Others'
    BY <1>8, <1>a DEF whenArmed, ln, arkade
  <2> QED
    BY <1>b, <2>1, <2>2, <2>3
<1>9. ASSUME NEW d \in Driver, Adopt(d) PROVE TypeOK'
  <2>1. row' \in Row
    BY <1>9, <1>a DEF Adopt, transition, Row, Job, ReceiveSwapState, None
  <2>2. job' \in [Driver -> Job]
    BY <1>9, <1>a, GotoType, DoneType DEF Adopt, Steps
  <2>3. Others'
    BY <1>9, <1>a DEF Adopt, ln, arkade
  <2> QED
    BY <1>b, <2>1, <2>2, <2>3
<1>10. ASSUME NEW d \in Driver, PollHold(d) PROVE TypeOK'
  <2>1. row' \in Row
    BY <1>10, <1>a DEF PollHold
  <2>2. job' \in [Driver -> Job]
    BY <1>10, <1>a, IdleType DEF PollHold, Job, Steps, Idle
  <2>3. Others'
    BY <1>10, <1>a DEF PollHold, ln, arkade
  <2> QED
    BY <1>b, <2>1, <2>2, <2>3
<1>11. ASSUME NEW d \in Driver, FundingGate(d) PROVE TypeOK'
  <2>1. row' \in Row
    BY <1>11, <1>a DEF FundingGate
  <2>2. job' \in [Driver -> Job]
    <3> DEFINE coupled == job[d].htlc = None /\ send \in SendLive
    <3>1. coupled \in BOOLEAN
      OBVIOUS
    <3>2. PICK pc \in {"lease", "fail"} : job' = [job EXCEPT ![d].pc = pc, ![d].coupled = coupled]
      BY <1>11 DEF FundingGate
    <3> HIDE DEF coupled
    <3> DEFINE r == [job[d] EXCEPT !.pc = pc, !.coupled = coupled]
    <3>3. r \in Job
      BY <3>1, <1>a DEF Job, Steps
    <3>4. job' = [job EXCEPT ![d] = r]
      BY <3>2, <1>a
    <3> QED
      BY <3>3, <3>4, <1>a
  <2>3. Others'
    BY <1>11, <1>a DEF FundingGate, ln, arkade
  <2> QED
    BY <1>b, <2>1, <2>2, <2>3
<1>12. ASSUME NEW d \in Driver, ClaimLease(d) PROVE TypeOK'
  <2>1. row' \in Row
    BY <1>12, <1>a DEF ClaimLease, claimFundLease, Row
  <2>2. job' \in [Driver -> Job]
    BY <1>12, <1>a, GotoType, DoneType DEF ClaimLease, Steps
  <2>3. Others'
    BY <1>12, <1>a DEF ClaimLease, ln, arkade
  <2> QED
    BY <1>b, <2>1, <2>2, <2>3
<1>13. ASSUME NEW d \in Driver, Fund(d) PROVE TypeOK'
  <2>1. row' \in Row
    BY <1>13, <1>a DEF Fund
  <2>2. job' \in [Driver -> Job]
    BY <1>13, <1>a, GotoType, DoneType DEF Fund, Steps
  <2>3. Others'
    BY <1>13, <1>a DEF Fund, ln, arkade, PayoutStates
  <2> QED
    BY <1>b, <2>1, <2>2, <2>3
<1>14. ASSUME NEW d \in Driver, NotSubmitted(d) PROVE TypeOK'
  <2>1. row' \in Row
    BY <1>14, <1>a DEF NotSubmitted, releaseFundLease, Row
  <2>2. job' \in [Driver -> Job]
    BY <1>14, <1>a, GotoType, DoneType DEF NotSubmitted, Steps
  <2>3. Others'
    BY <1>14, <1>a DEF NotSubmitted, ln, arkade
  <2> QED
    BY <1>b, <2>1, <2>2, <2>3
<1>15. ASSUME NEW d \in Driver, RefuseCoupled(d) PROVE TypeOK'
  <2>1. row' \in Row
    BY <1>15, <1>a DEF RefuseCoupled, transition, Row, Job, ReceiveSwapState, None
  <2>2. job' \in [Driver -> Job]
    BY <1>15, <1>a, GotoType, DoneType DEF RefuseCoupled, Steps
  <2>3. Others'
    BY <1>15, <1>a DEF RefuseCoupled, ln, arkade
  <2> QED
    BY <1>b, <2>1, <2>2, <2>3
<1>16. ASSUME NEW d \in Driver, PatchStamped(d) PROVE TypeOK'
  <2>1. row' \in Row
    BY <1>16, <1>a DEF PatchStamped, Row
  <2>2. job' \in [Driver -> Job]
    BY <1>16, <1>a, GotoType, DoneType DEF PatchStamped, Steps
  <2>3. Others'
    BY <1>16, <1>a DEF PatchStamped, ln, arkade
  <2> QED
    BY <1>b, <2>1, <2>2, <2>3
<1>17. ASSUME NEW d \in Driver, ConfirmFunding(d) PROVE TypeOK'
  <2>1. row' \in Row
    BY <1>17, <1>a DEF ConfirmFunding
  <2>2. job' \in [Driver -> Job]
    BY <1>17, <1>a, GotoType, DoneType DEF ConfirmFunding, Steps
  <2>3. Others'
    BY <1>17, <1>a DEF ConfirmFunding, ln, arkade
  <2> QED
    BY <1>b, <2>1, <2>2, <2>3
<1>18. ASSUME NEW d \in Driver, whenFunded(d) PROVE TypeOK'
  <2>1. row' \in Row
    BY <1>18, <1>a DEF whenFunded
  <2>2. job' \in [Driver -> Job]
    BY <1>18, <1>a, GotoType, DoneType DEF whenFunded, Steps
  <2>3. Others'
    BY <1>18, <1>a DEF whenFunded, ln, arkade
  <2> QED
    BY <1>b, <2>1, <2>2, <2>3
<1>19. ASSUME NEW d \in Driver, revealToCovclaimd(d) PROVE TypeOK'
  <2>1. row' \in Row
    BY <1>19, <1>a DEF revealToCovclaimd
  <2>2. job' \in [Driver -> Job]
    BY <1>19, <1>a, GotoType, DoneType DEF revealToCovclaimd, Steps
  <2>3. Others'
    BY <1>19, <1>a DEF revealToCovclaimd, ln, arkade
  <2> QED
    BY <1>b, <2>1, <2>2, <2>3
<1>20. ASSUME NEW d \in Driver, PatchRevealed(d) PROVE TypeOK'
  <2>1. row' \in Row
    BY <1>20, <1>a DEF PatchRevealed, Row
  <2>2. job' \in [Driver -> Job]
    BY <1>20, <1>a, GotoType, DoneType DEF PatchRevealed, Steps
  <2>3. Others'
    BY <1>20, <1>a DEF PatchRevealed, ln, arkade
  <2> QED
    BY <1>b, <2>1, <2>2, <2>3
<1>21. ASSUME NEW d \in Driver, SearchPreimage(d) PROVE TypeOK'
  <2>1. row' \in Row
    BY <1>21, <1>a DEF SearchPreimage
  <2>2. job' \in [Driver -> Job]
    BY <1>21, <1>a, GotoType, DoneType DEF SearchPreimage, Steps
  <2>3. Others'
    BY <1>21, <1>a DEF SearchPreimage, ln, arkade
  <2> QED
    BY <1>b, <2>1, <2>2, <2>3
<1>22. ASSUME NEW d \in Driver, ToClaimed(d) PROVE TypeOK'
  <2>1. row' \in Row
    BY <1>22, <1>a DEF ToClaimed, transition, Row, Job, ReceiveSwapState, None
  <2>2. job' \in [Driver -> Job]
    BY <1>22, <1>a, GotoType, DoneType DEF ToClaimed, Steps
  <2>3. Others'
    BY <1>22, <1>a DEF ToClaimed, ln, arkade
  <2> QED
    BY <1>b, <2>1, <2>2, <2>3
<1>23. ASSUME NEW d \in Driver, ToRefunding(d) PROVE TypeOK'
  <2>1. row' \in Row
    BY <1>23, <1>a DEF ToRefunding, transition, Row, Job, ReceiveSwapState, None
  <2>2. job' \in [Driver -> Job]
    BY <1>23, <1>a, GotoType, DoneType DEF ToRefunding, Steps
  <2>3. Others'
    BY <1>23, <1>a DEF ToRefunding, ln, arkade
  <2> QED
    BY <1>b, <2>1, <2>2, <2>3
<1>24. ASSUME NEW d \in Driver, whenClaimed(d) PROVE TypeOK'
  <2>1. row' \in Row
    BY <1>24, <1>a DEF whenClaimed, Row
  <2>2. job' \in [Driver -> Job]
    BY <1>24, <1>a, GotoType, DoneType DEF whenClaimed, Steps
  <2>3. Others'
    BY <1>24, <1>a DEF whenClaimed, ln, arkade
  <2> QED
    BY <1>b, <2>1, <2>2, <2>3
<1>25. ASSUME NEW d \in Driver, settleHold(d) PROVE TypeOK'
  <2>1. row' \in Row
    BY <1>25, <1>a DEF settleHold
  <2>2. job' \in [Driver -> Job]
    BY <1>25, <1>a, GotoType, DoneType DEF settleHold, Steps
  <2>3. Others'
    BY <1>25, <1>a DEF settleHold, ln, arkade, HoldStates
  <2> QED
    BY <1>b, <2>1, <2>2, <2>3
<1>26. ASSUME NEW d \in Driver, SettleFailed(d) PROVE TypeOK'
  <2>1. row' \in Row
    BY <1>26, <1>a, FailType DEF SettleFailed
  <2>2. job' \in [Driver -> Job]
    BY <1>26, <1>a, GotoType, DoneType DEF SettleFailed, Steps
  <2>3. Others'
    BY <1>26, <1>a DEF SettleFailed, ln, arkade
  <2> QED
    BY <1>b, <2>1, <2>2, <2>3
<1>27. ASSUME NEW d \in Driver, MarkSettled(d) PROVE TypeOK'
  <2>1. row' \in Row
    BY <1>27, <1>a DEF MarkSettled, transition, Row, Job, ReceiveSwapState, None
  <2>2. job' \in [Driver -> Job]
    BY <1>27, <1>a, GotoType, DoneType DEF MarkSettled, Steps
  <2>3. Others'
    BY <1>27, <1>a DEF MarkSettled, ln, arkade
  <2> QED
    BY <1>b, <2>1, <2>2, <2>3
<1>28. ASSUME NEW d \in Driver, whenRefunding(d) PROVE TypeOK'
  <2>1. row' \in Row
    BY <1>28, <1>a DEF whenRefunding
  <2>2. job' \in [Driver -> Job]
    BY <1>28, <1>a, GotoType, DoneType DEF whenRefunding, Steps
  <2>3. Others'
    BY <1>28, <1>a DEF whenRefunding, ln, arkade
  <2> QED
    BY <1>b, <2>1, <2>2, <2>3
<1>29. ASSUME NEW d \in Driver, FindFunded(d) PROVE TypeOK'
  <2>1. row' \in Row
    BY <1>29, <1>a DEF FindFunded
  <2>2. job' \in [Driver -> Job]
    BY <1>29, <1>a, GotoType, DoneType DEF FindFunded, Steps
  <2>3. Others'
    BY <1>29, <1>a DEF FindFunded, ln, arkade
  <2> QED
    BY <1>b, <2>1, <2>2, <2>3
<1>30. ASSUME NEW d \in Driver, FinalizePendingRefund(d) PROVE TypeOK'
  <2>1. row' \in Row
    BY <1>30, <1>a, FailType DEF FinalizePendingRefund
  <2>2. job' \in [Driver -> Job]
    BY <1>30, <1>a, GotoType, DoneType DEF FinalizePendingRefund, Steps
  <2>3. Others'
    BY <1>30, <1>a DEF FinalizePendingRefund, ln, arkade, PayoutStates
  <2> QED
    BY <1>b, <2>1, <2>2, <2>3
<1>31. ASSUME NEW d \in Driver, Refund(d) PROVE TypeOK'
  <2>1. row' \in Row
    BY <1>31, <1>a DEF Refund
  <2>2. job' \in [Driver -> Job]
    BY <1>31, <1>a, GotoType, DoneType DEF Refund, Steps
  <2>3. Others'
    BY <1>31, <1>a DEF Refund, ln, arkade, PayoutStates
  <2> QED
    BY <1>b, <2>1, <2>2, <2>3
<1>32. ASSUME NEW d \in Driver, RefundFails(d) PROVE TypeOK'
  <2>1. row' \in Row
    BY <1>32, <1>a, FailType DEF RefundFails
  <2>2. job' \in [Driver -> Job]
    BY <1>32, <1>a, GotoType, DoneType DEF RefundFails, Steps
  <2>3. Others'
    BY <1>32, <1>a DEF RefundFails, ln, arkade, PayoutStates
  <2> QED
    BY <1>b, <2>1, <2>2, <2>3
<1>33. ASSUME NEW d \in Driver, MarkRefunded(d) PROVE TypeOK'
  <2>1. row' \in Row
    BY <1>33, <1>a DEF MarkRefunded, transition, Row, Job, ReceiveSwapState, None
  <2>2. job' \in [Driver -> Job]
    BY <1>33, <1>a, GotoType, DoneType DEF MarkRefunded, Steps
  <2>3. Others'
    BY <1>33, <1>a DEF MarkRefunded, ln, arkade
  <2> QED
    BY <1>b, <2>1, <2>2, <2>3
<1>34. ASSUME NEW d \in Driver, Abandon(d) PROVE TypeOK'
  BY <1>34, <1>a, <1>b, DoneType DEF Abandon, ln, arkade
<1>35. CASE refundNow
  BY <1>35, <1>a, <1>b DEF refundNow, ln, arkade
<1>36. CASE PushRefund
  BY <1>36, <1>a, <1>b DEF PushRefund, ln, arkade, PayoutStates
<1>37. CASE PatchRefundTx
  BY <1>37, <1>a, <1>b DEF PatchRefundTx, ln, arkade, Row
<1>38. CASE PayerPays
  BY <1>38, <1>a, <1>b DEF PayerPays, ln, arkade, HoldStates
<1>39. CASE ClientClaims
  BY <1>39, <1>a, <1>b DEF ClientClaims, ln, arkade, PayoutStates
<1>40. CASE SendMoves
  BY <1>40, <1>a, <1>b, ReceiveAssumption DEF SendMoves, ln, arkade, SendStates
<1>41. CASE HoldLapses
  BY <1>41, <1>a, <1>b DEF HoldLapses, ln, arkade, HoldStates
<1>42. CASE FundingShows
  BY <1>42, <1>a, <1>b DEF FundingShows, ln, arkade, PayoutStates
<1>43. CASE ClaimReadable
  BY <1>43, <1>a, <1>b DEF ClaimReadable, ln, arkade, PayoutStates
<1>44. CASE Advance
  BY <1>44, <1>a, <1>b DEF Advance, ln, arkade
<1>45. CASE UNCHANGED vars
  BY <1>45, <1>a, <1>b DEF vars
<1> QED
  BY <1>1, <1>2, <1>3, <1>4, <1>5, <1>6, <1>7, <1>8, <1>9, <1>10, <1>11, <1>12, <1>13, <1>14, <1>15,
       <1>16, <1>17, <1>18, <1>19, <1>20, <1>21, <1>22, <1>23, <1>24, <1>25, <1>26, <1>27, <1>28,
       <1>29, <1>30, <1>31, <1>32, <1>33, <1>34, <1>35, <1>36, <1>37, <1>38, <1>39, <1>40, <1>41,
       <1>42, <1>43, <1>44, <1>45 DEF Next, DriverStep, OperatorStep, Environment, Rails

----------------------------------------------------------------------------
(* The inductive invariant. *)

(* Places at which a tick holds the lease and has submitted nothing. *)
Holds(d) == job[d].pc \in {"fund", "notSubmitted", "retireRefuse", "refuse"}

(* The lease has one holder, and whoever submitted a funding left it taken:   *)
(* it is what NeverFundedTwice rests on once the row's state, which another    *)
(* process may move, says nothing any more.                                   *)
LeaseExclusive ==
  /\ \A d \in Driver : Holds(d) => row.lease /\ fundings = 0
  /\ \A d, e \in Driver : Holds(d) /\ Holds(e) => d = e
  /\ fundings = 0 \/ (fundings = 1 /\ row.lease)

(* A tick that is past its dispatch still works on a row of that state. *)
Placed ==
  \A d \in Driver :
    /\ job[d].pc \in {"coupled", "retireFail"} => job[d].row.state = "quoted"
    /\ job[d].pc \in {"poll", "gate"} => job[d].row.state = "armed"
    /\ job[d].pc = "search" => job[d].row.state = "funded"
    /\ job[d].pc = "toClaimed" => job[d].row.state \in {"funded", "refunding"}
    /\ job[d].pc = "fail" => job[d].row.state \in {"quoted", "armed"}

(* Every step keeps the lease exclusive. *)
LEMMA LeaseStep ==
  ASSUME TypeOK, LeaseExclusive, [Next]_vars
  PROVE  LeaseExclusive'
<1>a. row \in Row /\ job \in [Driver -> Job] /\ fundings \in Nat
  BY DEF TypeOK
<1>1. ASSUME NEW d \in Driver, Tick(d) PROVE LeaseExclusive'
  BY <1>1, <1>a DEF Tick, LeaseExclusive, Holds, At, AtStep, Goto, Done, Idle, Job, Row, arkade
<1>2. ASSUME NEW d \in Driver, Fail(d) PROVE LeaseExclusive'
  BY <1>2, <1>a DEF Fail, LeaseExclusive, Holds, At, AtStep, Goto, Done, Idle, Job, Row, arkade,
       fail, failState, transition
<1>3. ASSUME NEW d \in Driver, retireInvoice(d) PROVE LeaseExclusive'
  BY <1>3, <1>a DEF retireInvoice, LeaseExclusive, Holds, At, AtStep, Goto, Done, Idle, Job, Row,
       arkade, RetireNext
<1>4. ASSUME NEW d \in Driver, whenQuoted(d) PROVE LeaseExclusive'
  BY <1>4, <1>a DEF whenQuoted, LeaseExclusive, Holds, At, AtStep, Goto, Done, Idle, Job, Row,
       arkade
<1>5. ASSUME NEW d \in Driver, Arm(d) PROVE LeaseExclusive'
  BY <1>5, <1>a DEF Arm, LeaseExclusive, Holds, At, AtStep, Goto, Done, Idle, Job, Row, arkade,
       transition
<1>6. ASSUME NEW d \in Driver, QuotedCoupled(d) PROVE LeaseExclusive'
  BY <1>6, <1>a DEF QuotedCoupled, LeaseExclusive, Holds, At, AtStep, Goto, Done, Idle, Job, Row,
       arkade
<1>7. ASSUME NEW d \in Driver, ArmCoupled(d) PROVE LeaseExclusive'
  BY <1>7, <1>a DEF ArmCoupled, LeaseExclusive, Holds, At, AtStep, Goto, Done, Idle, Job, Row,
       arkade, transition
<1>8. ASSUME NEW d \in Driver, whenArmed(d) PROVE LeaseExclusive'
  BY <1>8, <1>a DEF whenArmed, LeaseExclusive, Holds, At, AtStep, Goto, Done, Idle, Job, Row,
       arkade, transition
<1>9. ASSUME NEW d \in Driver, Adopt(d) PROVE LeaseExclusive'
  BY <1>9, <1>a DEF Adopt, LeaseExclusive, Holds, At, AtStep, Goto, Done, Idle, Job, Row, arkade,
       transition
<1>10. ASSUME NEW d \in Driver, PollHold(d) PROVE LeaseExclusive'
  BY <1>10, <1>a DEF PollHold, LeaseExclusive, Holds, At, AtStep, Goto, Done, Idle, Job, Row, arkade
<1>11. ASSUME NEW d \in Driver, FundingGate(d) PROVE LeaseExclusive'
  BY <1>11, <1>a DEF FundingGate, LeaseExclusive, Holds, At, AtStep, Goto, Done, Idle, Job, Row,
       arkade
<1>12. ASSUME NEW d \in Driver, ClaimLease(d) PROVE LeaseExclusive'
  BY <1>12, <1>a DEF ClaimLease, LeaseExclusive, Holds, At, AtStep, Goto, Done, Idle, Job, Row,
       arkade, claimFundLease, LeaseWon
<1>13. ASSUME NEW d \in Driver, Fund(d) PROVE LeaseExclusive'
  BY <1>13, <1>a DEF Fund, LeaseExclusive, Holds, At, AtStep, Goto, Done, Idle, Job, Row, arkade
<1>14. ASSUME NEW d \in Driver, NotSubmitted(d) PROVE LeaseExclusive'
  BY <1>14, <1>a DEF NotSubmitted, LeaseExclusive, Holds, At, AtStep, Goto, Done, Idle, Job, Row,
       arkade, releaseFundLease
<1>15. ASSUME NEW d \in Driver, RefuseCoupled(d) PROVE LeaseExclusive'
  BY <1>15, <1>a DEF RefuseCoupled, LeaseExclusive, Holds, At, AtStep, Goto, Done, Idle, Job, Row,
       arkade, transition
<1>16. ASSUME NEW d \in Driver, PatchStamped(d) PROVE LeaseExclusive'
  BY <1>16, <1>a DEF PatchStamped, LeaseExclusive, Holds, At, AtStep, Goto, Done, Idle, Job, Row,
       arkade
<1>17. ASSUME NEW d \in Driver, ConfirmFunding(d) PROVE LeaseExclusive'
  BY <1>17, <1>a DEF ConfirmFunding, LeaseExclusive, Holds, At, AtStep, Goto, Done, Idle, Job, Row,
       arkade
<1>18. ASSUME NEW d \in Driver, whenFunded(d) PROVE LeaseExclusive'
  <2>1. row'.lease = row.lease /\ fundings' = fundings
    BY <1>18, <1>a DEF whenFunded, Row, arkade
  <2>2. \A e \in Driver : Holds(e)' => Holds(e)
    BY <1>18, <1>a DEF whenFunded, Holds, Goto, Done, Idle, Job
  <2> QED
    BY <2>1, <2>2 DEF LeaseExclusive
<1>19. ASSUME NEW d \in Driver, revealToCovclaimd(d) PROVE LeaseExclusive'
  BY <1>19, <1>a DEF revealToCovclaimd, LeaseExclusive, Holds, At, AtStep, Goto, Done, Idle, Job,
       Row, arkade
<1>20. ASSUME NEW d \in Driver, PatchRevealed(d) PROVE LeaseExclusive'
  BY <1>20, <1>a DEF PatchRevealed, LeaseExclusive, Holds, At, AtStep, Goto, Done, Idle, Job, Row,
       arkade
<1>21. ASSUME NEW d \in Driver, SearchPreimage(d) PROVE LeaseExclusive'
  BY <1>21, <1>a DEF SearchPreimage, LeaseExclusive, Holds, At, AtStep, Goto, Done, Idle, Job, Row,
       arkade
<1>22. ASSUME NEW d \in Driver, ToClaimed(d) PROVE LeaseExclusive'
  BY <1>22, <1>a DEF ToClaimed, LeaseExclusive, Holds, At, AtStep, Goto, Done, Idle, Job, Row,
       arkade, transition
<1>23. ASSUME NEW d \in Driver, ToRefunding(d) PROVE LeaseExclusive'
  BY <1>23, <1>a DEF ToRefunding, LeaseExclusive, Holds, At, AtStep, Goto, Done, Idle, Job, Row,
       arkade, transition
<1>24. ASSUME NEW d \in Driver, whenClaimed(d) PROVE LeaseExclusive'
  BY <1>24, <1>a DEF whenClaimed, LeaseExclusive, Holds, At, AtStep, Goto, Done, Idle, Job, Row,
       arkade
<1>25. ASSUME NEW d \in Driver, settleHold(d) PROVE LeaseExclusive'
  BY <1>25, <1>a DEF settleHold, LeaseExclusive, Holds, At, AtStep, Goto, Done, Idle, Job, Row,
       arkade
<1>26. ASSUME NEW d \in Driver, SettleFailed(d) PROVE LeaseExclusive'
  BY <1>26, <1>a DEF SettleFailed, LeaseExclusive, Holds, At, AtStep, Goto, Done, Idle, Job, Row,
       arkade, fail, failState, transition
<1>27. ASSUME NEW d \in Driver, MarkSettled(d) PROVE LeaseExclusive'
  BY <1>27, <1>a DEF MarkSettled, LeaseExclusive, Holds, At, AtStep, Goto, Done, Idle, Job, Row,
       arkade, transition
<1>28. ASSUME NEW d \in Driver, whenRefunding(d) PROVE LeaseExclusive'
  BY <1>28, <1>a DEF whenRefunding, LeaseExclusive, Holds, At, AtStep, Goto, Done, Idle, Job, Row,
       arkade
<1>29. ASSUME NEW d \in Driver, FindFunded(d) PROVE LeaseExclusive'
  BY <1>29, <1>a DEF FindFunded, LeaseExclusive, Holds, At, AtStep, Goto, Done, Idle, Job, Row,
       arkade
<1>30. ASSUME NEW d \in Driver, FinalizePendingRefund(d) PROVE LeaseExclusive'
  <2>1. row'.lease = row.lease /\ fundings' = fundings
    BY <1>30, <1>a DEF FinalizePendingRefund, Row, arkade, fail, failState, transition
  <2>2. \A e \in Driver : Holds(e)' => Holds(e)
    BY <1>30, <1>a DEF FinalizePendingRefund, Holds, Goto, Done, Idle, Job
  <2> QED
    BY <2>1, <2>2 DEF LeaseExclusive
<1>31. ASSUME NEW d \in Driver, Refund(d) PROVE LeaseExclusive'
  BY <1>31, <1>a DEF Refund, LeaseExclusive, Holds, At, AtStep, Goto, Done, Idle, Job, Row, arkade
<1>32. ASSUME NEW d \in Driver, RefundFails(d) PROVE LeaseExclusive'
  BY <1>32, <1>a DEF RefundFails, LeaseExclusive, Holds, At, AtStep, Goto, Done, Idle, Job, Row,
       arkade, fail, failState, transition
<1>33. ASSUME NEW d \in Driver, MarkRefunded(d) PROVE LeaseExclusive'
  BY <1>33, <1>a DEF MarkRefunded, LeaseExclusive, Holds, At, AtStep, Goto, Done, Idle, Job, Row,
       arkade, transition
<1>34. ASSUME NEW d \in Driver, Abandon(d) PROVE LeaseExclusive'
  BY <1>34, <1>a DEF Abandon, LeaseExclusive, Holds, At, AtStep, Goto, Done, Idle, Job, Row, arkade
<1>35. CASE refundNow
  BY <1>35, <1>a DEF refundNow, LeaseExclusive, Holds, At, AtStep, Goto, Done, Idle, Job, Row,
       arkade
<1>36. CASE PushRefund
  BY <1>36, <1>a DEF PushRefund, LeaseExclusive, Holds, At, AtStep, Goto, Done, Idle, Job, Row,
       arkade
<1>37. CASE PatchRefundTx
  BY <1>37, <1>a DEF PatchRefundTx, LeaseExclusive, Holds, At, AtStep, Goto, Done, Idle, Job, Row,
       arkade
<1>38. CASE PayerPays
  BY <1>38, <1>a DEF PayerPays, LeaseExclusive, Holds, At, AtStep, Goto, Done, Idle, Job, Row,
       arkade
<1>39. CASE ClientClaims
  BY <1>39, <1>a DEF ClientClaims, LeaseExclusive, Holds, At, AtStep, Goto, Done, Idle, Job, Row,
       arkade
<1>40. CASE SendMoves
  BY <1>40, <1>a DEF SendMoves, LeaseExclusive, Holds, At, AtStep, Goto, Done, Idle, Job, Row,
       arkade
<1>41. CASE HoldLapses
  BY <1>41, <1>a DEF HoldLapses, LeaseExclusive, Holds, At, AtStep, Goto, Done, Idle, Job, Row,
       arkade
<1>42. CASE FundingShows
  BY <1>42, <1>a DEF FundingShows, LeaseExclusive, Holds, At, AtStep, Goto, Done, Idle, Job, Row,
       arkade
<1>43. CASE ClaimReadable
  BY <1>43, <1>a DEF ClaimReadable, LeaseExclusive, Holds, At, AtStep, Goto, Done, Idle, Job, Row,
       arkade
<1>44. CASE Advance
  BY <1>44, <1>a DEF Advance, LeaseExclusive, Holds, At, AtStep, Goto, Done, Idle, Job, Row, arkade
<1>45. CASE UNCHANGED vars
  BY <1>45 DEF vars, LeaseExclusive, Holds, At, AtStep, Goto, Done, Idle, Job, Row, arkade
<1> QED
  BY <1>1, <1>2, <1>3, <1>4, <1>5, <1>6, <1>7, <1>8, <1>9, <1>10, <1>11, <1>12, <1>13, <1>14, <1>15,
       <1>16, <1>17, <1>18, <1>19, <1>20, <1>21, <1>22, <1>23, <1>24, <1>25, <1>26, <1>27, <1>28,
       <1>29, <1>30, <1>31, <1>32, <1>33, <1>34, <1>35, <1>36, <1>37, <1>38, <1>39, <1>40, <1>41,
       <1>42, <1>43, <1>44, <1>45 DEF Next, DriverStep, OperatorStep, Environment, Rails

(* Every step works on the state it was dispatched on. *)
LEMMA PlacedStep ==
  ASSUME TypeOK, Placed, [Next]_vars
  PROVE  Placed'
<1>a. row \in Row /\ job \in [Driver -> Job] /\ fundings \in Nat
  BY DEF TypeOK
<1>1. ASSUME NEW d \in Driver, Tick(d) PROVE Placed'
  BY <1>1, <1>a DEF Tick, Placed, At, AtStep, Goto, Done, Idle, Job
<1>2. ASSUME NEW d \in Driver, Fail(d) PROVE Placed'
  BY <1>2, <1>a DEF Fail, Placed, At, AtStep, Goto, Done, Idle, Job, fail, failState, transition
<1>3. ASSUME NEW d \in Driver, retireInvoice(d) PROVE Placed'
  BY <1>3, <1>a DEF retireInvoice, Placed, At, AtStep, Goto, Done, Idle, Job, RetireNext
<1>4. ASSUME NEW d \in Driver, whenQuoted(d) PROVE Placed'
  BY <1>4, <1>a DEF whenQuoted, Placed, At, AtStep, Goto, Done, Idle, Job
<1>5. ASSUME NEW d \in Driver, Arm(d) PROVE Placed'
  BY <1>5, <1>a DEF Arm, Placed, At, AtStep, Goto, Done, Idle, Job, transition
<1>6. ASSUME NEW d \in Driver, QuotedCoupled(d) PROVE Placed'
  BY <1>6, <1>a DEF QuotedCoupled, Placed, At, AtStep, Goto, Done, Idle, Job
<1>7. ASSUME NEW d \in Driver, ArmCoupled(d) PROVE Placed'
  BY <1>7, <1>a DEF ArmCoupled, Placed, At, AtStep, Goto, Done, Idle, Job, transition
<1>8. ASSUME NEW d \in Driver, whenArmed(d) PROVE Placed'
  BY <1>8, <1>a DEF whenArmed, Placed, At, AtStep, Goto, Done, Idle, Job, transition
<1>9. ASSUME NEW d \in Driver, Adopt(d) PROVE Placed'
  BY <1>9, <1>a DEF Adopt, Placed, At, AtStep, Goto, Done, Idle, Job, transition
<1>10. ASSUME NEW d \in Driver, PollHold(d) PROVE Placed'
  BY <1>10, <1>a DEF PollHold, Placed, At, AtStep, Goto, Done, Idle, Job
<1>11. ASSUME NEW d \in Driver, FundingGate(d) PROVE Placed'
  BY <1>11, <1>a DEF FundingGate, Placed, At, AtStep, Goto, Done, Idle, Job
<1>12. ASSUME NEW d \in Driver, ClaimLease(d) PROVE Placed'
  BY <1>12, <1>a DEF ClaimLease, Placed, At, AtStep, Goto, Done, Idle, Job, claimFundLease, LeaseWon
<1>13. ASSUME NEW d \in Driver, Fund(d) PROVE Placed'
  BY <1>13, <1>a DEF Fund, Placed, At, AtStep, Goto, Done, Idle, Job
<1>14. ASSUME NEW d \in Driver, NotSubmitted(d) PROVE Placed'
  BY <1>14, <1>a DEF NotSubmitted, Placed, At, AtStep, Goto, Done, Idle, Job, releaseFundLease
<1>15. ASSUME NEW d \in Driver, RefuseCoupled(d) PROVE Placed'
  BY <1>15, <1>a DEF RefuseCoupled, Placed, At, AtStep, Goto, Done, Idle, Job, transition
<1>16. ASSUME NEW d \in Driver, PatchStamped(d) PROVE Placed'
  BY <1>16, <1>a DEF PatchStamped, Placed, At, AtStep, Goto, Done, Idle, Job
<1>17. ASSUME NEW d \in Driver, ConfirmFunding(d) PROVE Placed'
  BY <1>17, <1>a DEF ConfirmFunding, Placed, At, AtStep, Goto, Done, Idle, Job
<1>18. ASSUME NEW d \in Driver, whenFunded(d) PROVE Placed'
  BY <1>18, <1>a DEF whenFunded, Placed, At, AtStep, Goto, Done, Idle, Job
<1>19. ASSUME NEW d \in Driver, revealToCovclaimd(d) PROVE Placed'
  BY <1>19, <1>a DEF revealToCovclaimd, Placed, At, AtStep, Goto, Done, Idle, Job
<1>20. ASSUME NEW d \in Driver, PatchRevealed(d) PROVE Placed'
  BY <1>20, <1>a DEF PatchRevealed, Placed, At, AtStep, Goto, Done, Idle, Job
<1>21. ASSUME NEW d \in Driver, SearchPreimage(d) PROVE Placed'
  BY <1>21, <1>a DEF SearchPreimage, Placed, At, AtStep, Goto, Done, Idle, Job
<1>22. ASSUME NEW d \in Driver, ToClaimed(d) PROVE Placed'
  BY <1>22, <1>a DEF ToClaimed, Placed, At, AtStep, Goto, Done, Idle, Job, transition
<1>23. ASSUME NEW d \in Driver, ToRefunding(d) PROVE Placed'
  BY <1>23, <1>a DEF ToRefunding, Placed, At, AtStep, Goto, Done, Idle, Job, transition
<1>24. ASSUME NEW d \in Driver, whenClaimed(d) PROVE Placed'
  BY <1>24, <1>a DEF whenClaimed, Placed, At, AtStep, Goto, Done, Idle, Job
<1>25. ASSUME NEW d \in Driver, settleHold(d) PROVE Placed'
  BY <1>25, <1>a DEF settleHold, Placed, At, AtStep, Goto, Done, Idle, Job
<1>26. ASSUME NEW d \in Driver, SettleFailed(d) PROVE Placed'
  BY <1>26, <1>a DEF SettleFailed, Placed, At, AtStep, Goto, Done, Idle, Job, fail, failState,
       transition
<1>27. ASSUME NEW d \in Driver, MarkSettled(d) PROVE Placed'
  BY <1>27, <1>a DEF MarkSettled, Placed, At, AtStep, Goto, Done, Idle, Job, transition
<1>28. ASSUME NEW d \in Driver, whenRefunding(d) PROVE Placed'
  BY <1>28, <1>a DEF whenRefunding, Placed, At, AtStep, Goto, Done, Idle, Job
<1>29. ASSUME NEW d \in Driver, FindFunded(d) PROVE Placed'
  BY <1>29, <1>a DEF FindFunded, Placed, At, AtStep, Goto, Done, Idle, Job
<1>30. ASSUME NEW d \in Driver, FinalizePendingRefund(d) PROVE Placed'
  BY <1>30, <1>a DEF FinalizePendingRefund, Placed, At, AtStep, Goto, Done, Idle, Job, fail,
       failState, transition
<1>31. ASSUME NEW d \in Driver, Refund(d) PROVE Placed'
  BY <1>31, <1>a DEF Refund, Placed, At, AtStep, Goto, Done, Idle, Job
<1>32. ASSUME NEW d \in Driver, RefundFails(d) PROVE Placed'
  BY <1>32, <1>a DEF RefundFails, Placed, At, AtStep, Goto, Done, Idle, Job, fail, failState,
       transition
<1>33. ASSUME NEW d \in Driver, MarkRefunded(d) PROVE Placed'
  BY <1>33, <1>a DEF MarkRefunded, Placed, At, AtStep, Goto, Done, Idle, Job, transition
<1>34. ASSUME NEW d \in Driver, Abandon(d) PROVE Placed'
  BY <1>34, <1>a DEF Abandon, Placed, At, AtStep, Goto, Done, Idle, Job
<1>35. CASE refundNow
  BY <1>35, <1>a DEF refundNow, Placed, At, AtStep, Goto, Done, Idle, Job
<1>36. CASE PushRefund
  BY <1>36, <1>a DEF PushRefund, Placed, At, AtStep, Goto, Done, Idle, Job
<1>37. CASE PatchRefundTx
  BY <1>37, <1>a DEF PatchRefundTx, Placed, At, AtStep, Goto, Done, Idle, Job
<1>38. CASE PayerPays
  BY <1>38, <1>a DEF PayerPays, Placed, At, AtStep, Goto, Done, Idle, Job
<1>39. CASE ClientClaims
  BY <1>39, <1>a DEF ClientClaims, Placed, At, AtStep, Goto, Done, Idle, Job
<1>40. CASE SendMoves
  BY <1>40, <1>a DEF SendMoves, Placed, At, AtStep, Goto, Done, Idle, Job
<1>41. CASE HoldLapses
  BY <1>41, <1>a DEF HoldLapses, Placed, At, AtStep, Goto, Done, Idle, Job
<1>42. CASE FundingShows
  BY <1>42, <1>a DEF FundingShows, Placed, At, AtStep, Goto, Done, Idle, Job
<1>43. CASE ClaimReadable
  BY <1>43, <1>a DEF ClaimReadable, Placed, At, AtStep, Goto, Done, Idle, Job
<1>44. CASE Advance
  BY <1>44, <1>a DEF Advance, Placed, At, AtStep, Goto, Done, Idle, Job
<1>45. CASE UNCHANGED vars
  BY <1>45 DEF vars, Placed, At, AtStep, Goto, Done, Idle, Job
<1> QED
  BY <1>1, <1>2, <1>3, <1>4, <1>5, <1>6, <1>7, <1>8, <1>9, <1>10, <1>11, <1>12, <1>13, <1>14, <1>15,
       <1>16, <1>17, <1>18, <1>19, <1>20, <1>21, <1>22, <1>23, <1>24, <1>25, <1>26, <1>27, <1>28,
       <1>29, <1>30, <1>31, <1>32, <1>33, <1>34, <1>35, <1>36, <1>37, <1>38, <1>39, <1>40, <1>41,
       <1>42, <1>43, <1>44, <1>45 DEF Next, DriverStep, OperatorStep, Environment, Rails

(* No step moves the row along an edge the machine does not have. *)
LEMMA EdgeStep ==
  ASSUME TypeOK, Placed, [Next]_vars, row'.state # row.state
  PROVE  row'.state \in LnReceiveMachine[row.state]
<1>a. row \in Row /\ job \in [Driver -> Job]
  BY DEF TypeOK
<1>1. ASSUME NEW d \in Driver, Fail(d) PROVE row'.state \in LnReceiveMachine[row.state]
  BY <1>1, <1>a DEF Fail, At, Row, LnReceiveMachine, transition, Won, fail, failState, Exposed,
       Placed
<1>2. ASSUME NEW d \in Driver, Arm(d) PROVE row'.state \in LnReceiveMachine[row.state]
  BY <1>2, <1>a DEF Arm, At, Row, LnReceiveMachine, transition, Won
<1>3. ASSUME NEW d \in Driver, ArmCoupled(d) PROVE row'.state \in LnReceiveMachine[row.state]
  BY <1>3, <1>a DEF ArmCoupled, At, Row, LnReceiveMachine, transition, Won
<1>4. ASSUME NEW d \in Driver, whenArmed(d) PROVE row'.state \in LnReceiveMachine[row.state]
  BY <1>4, <1>a DEF whenArmed, At, Row, LnReceiveMachine, transition, Won
<1>5. ASSUME NEW d \in Driver, Adopt(d) PROVE row'.state \in LnReceiveMachine[row.state]
  BY <1>5, <1>a DEF Adopt, At, Row, LnReceiveMachine, transition, Won
<1>6. ASSUME NEW d \in Driver, RefuseCoupled(d) PROVE row'.state \in LnReceiveMachine[row.state]
  BY <1>6, <1>a DEF RefuseCoupled, At, Row, LnReceiveMachine, transition, Won
<1>7. ASSUME NEW d \in Driver, ToClaimed(d) PROVE row'.state \in LnReceiveMachine[row.state]
  BY <1>7, <1>a DEF ToClaimed, At, Row, LnReceiveMachine, transition, Won, Placed
<1>8. ASSUME NEW d \in Driver, ToRefunding(d) PROVE row'.state \in LnReceiveMachine[row.state]
  BY <1>8, <1>a DEF ToRefunding, At, Row, LnReceiveMachine, transition, Won
<1>9. ASSUME NEW d \in Driver, SettleFailed(d) PROVE row'.state \in LnReceiveMachine[row.state]
  BY <1>9, <1>a DEF SettleFailed, At, Row, LnReceiveMachine, transition, Won, fail, failState,
       Exposed
<1>10. ASSUME NEW d \in Driver, MarkSettled(d) PROVE row'.state \in LnReceiveMachine[row.state]
  BY <1>10, <1>a DEF MarkSettled, At, Row, LnReceiveMachine, transition, Won
<1>11. ASSUME NEW d \in Driver, FinalizePendingRefund(d) PROVE row'.state \in
     LnReceiveMachine[row.state]
  BY <1>11, <1>a DEF FinalizePendingRefund, At, Row, LnReceiveMachine, transition, Won, fail,
       failState, Exposed
<1>12. ASSUME NEW d \in Driver, RefundFails(d) PROVE row'.state \in LnReceiveMachine[row.state]
  BY <1>12, <1>a DEF RefundFails, At, Row, LnReceiveMachine, transition, Won, fail, failState,
       Exposed
<1>13. ASSUME NEW d \in Driver, MarkRefunded(d) PROVE row'.state \in LnReceiveMachine[row.state]
  BY <1>13, <1>a DEF MarkRefunded, At, Row, LnReceiveMachine, transition, Won
<1>14. ASSUME NEW d \in Driver, ClaimLease(d) \/ NotSubmitted(d) \/ PatchStamped(d) \/
     PatchRevealed(d) \/ whenClaimed(d)
      PROVE  FALSE
  BY <1>14, <1>a DEF ClaimLease, NotSubmitted, PatchStamped, PatchRevealed, whenClaimed,
       claimFundLease, releaseFundLease, Row
<1>15. ASSUME NEW d \in Driver,
         \/ Tick(d) \/ retireInvoice(d) \/ whenQuoted(d) \/ QuotedCoupled(d)
         \/ PollHold(d) \/ FundingGate(d) \/ Fund(d) \/ ConfirmFunding(d)
         \/ whenFunded(d) \/ revealToCovclaimd(d) \/ SearchPreimage(d) \/ settleHold(d)
         \/ whenRefunding(d) \/ FindFunded(d) \/ Refund(d) \/ Abandon(d)
      PROVE  FALSE
  BY <1>15 DEF Tick, retireInvoice, whenQuoted, QuotedCoupled, PollHold, FundingGate, Fund,
       ConfirmFunding, whenFunded, revealToCovclaimd, SearchPreimage, settleHold, whenRefunding,
       FindFunded, Refund, Abandon
<1>16. CASE OperatorStep
  BY <1>16, <1>a DEF OperatorStep, refundNow, PushRefund, PatchRefundTx, Row
<1>17. CASE Environment \/ UNCHANGED vars
  BY <1>17 DEF Environment, Rails, PayerPays, ClientClaims, SendMoves, HoldLapses, FundingShows,
       ClaimReadable, Advance, vars
<1> QED
  BY <1>1, <1>2, <1>3, <1>4, <1>5, <1>6, <1>7, <1>8, <1>9, <1>10, <1>11, <1>12, <1>13, <1>14, <1>15,
       <1>16, <1>17 DEF Next, DriverStep

----------------------------------------------------------------------------
(* The theorems. *)

Inv == TypeOK /\ LeaseExclusive /\ Placed

(* Every state a receive swap can reach satisfies the inductive invariant,    *)
(* however many processes tick it.                                           *)
THEOREM ReceiveInvariant == Spec => []Inv
<1>1. Init => Inv
  <2> SUFFICES ASSUME Init PROVE Inv
    OBVIOUS
  <2>1. row \in Row /\ job \in [Driver -> Job]
    BY IdleType DEF Init
  <2>2. TypeOK
    BY <2>1, ReceiveAssumption DEF Init, TypeOK, HoldStates, PayoutStates, SendStates
  <2>3. LeaseExclusive /\ Placed
    BY DEF Init, LeaseExclusive, Holds, Placed, Idle
  <2> QED
    BY <2>2, <2>3 DEF Inv
<1>2. Inv /\ [Next]_vars => Inv'
  BY TypeStep, LeaseStep, PlacedStep DEF Inv
<1> QED
  BY <1>1, <1>2, PTL DEF Spec

(* Every variable of the receive corridor keeps its type. *)
THEOREM ReceiveTypeCorrect == Spec => []TypeOK
<1>1. Inv => TypeOK
  BY DEF Inv
<1> QED
  BY <1>1, ReceiveInvariant, PTL

(* However many processes share the database, and wherever each of them dies, *)
(* arkade.fund submits the payout at most once: the lease is what two ticks   *)
(* that both passed the gates contend for, and only a call that submitted     *)
(* nothing gives it back.                                                     *)
THEOREM FundedAtMostOnce == Spec => []NeverFundedTwice
<1>1. Inv => NeverFundedTwice
  BY DEF Inv, LeaseExclusive, NeverFundedTwice
<1> QED
  BY <1>1, ReceiveInvariant, PTL

(* No tick, on however stale a row, moves the row along an edge that          *)
(* LnReceiveMachine lacks.                                                    *)
THEOREM ReceiveEdgesLegal == Spec => LegalEdges
<1>1. Inv /\ [Next]_vars => [row'.state # row.state => row'.state \in
     LnReceiveMachine[row.state]]_vars
  BY EdgeStep DEF Inv
<1> QED
  BY <1>1, ReceiveInvariant, PTL DEF Spec, LegalEdges

----------------------------------------------------------------------------
(* One attended process. *)

(* One process has the row to itself and is not down for as long as the       *)
(* margins; there is some time to settle in (MIN_SETTLE_WINDOW); and an HTLC   *)
(* outlives the invoice it pays, since the quote asks for a final CLTV delta   *)
(* (minFinalCltvBlocksFor) beyond the window the invoice is payable in.        *)
Alone ==
  /\ \A d, e \in Driver : d = e
  /\ Attended
  /\ Window > 0
  /\ \A e \in Expiries : InvoiceBy <= e

(* The payout is out and nobody has brought it back. *)
Out == payout \in {"sent", "up", "taken", "revealed"}

(* The send lockup is this row's to collect with its preimage. *)
SendOurs == send \in SendFunded \cup {"collecting"}

(* The HTLC is held, with time left for the payout's refund to open first. *)
Covered == hold = "held" /\ RefundAt + Margin <= expiry /\ clock < expiry

(* What an armed row was armed for is still there: the HTLC on record, unless  *)
(* the invoice is past paying, or the send lockup.                             *)
Backed ==
  /\ row.state \notin {"quoted", "refused"} /\ row.htlc = None => SendOurs
  /\ row.state # "refused" /\ row.htlc # None => hold \in {"held", "settled"} \/ clock >= InvoiceBy
  /\ row.state = "quoted" => row.htlc = None /\ ~row.lease

(* A payout against an HTLC keeps it to the end, or an operator is called. *)
Secured ==
  row.htlc # None /\ Out /\ row.state # "stuck" => hold = "settled" \/ Covered

(* What the row, the operator and the node say of the payout. *)
Truthful ==
  /\ payout = "none" <=> fundings = 0
  /\ PayoutNeverForgotten
  /\ RowTellsTheTruth
  /\ row.state = "claimed" => payout = "revealed"
  /\ operator = "patch" => payout = "refunded"
  /\ hold \notin {"open", "retired"} => expiry \in Expiries

(* The state a tick past its dispatch was dispatched on. *)
StateAt ==
  [coupled |-> {"quoted"}, arm |-> {"quoted"}, retireArm |-> {"quoted"}, armCoupled |-> {"quoted"},
   retireFail |-> {"quoted"}, fail |-> {"quoted", "armed"},
   adopt |-> {"armed"}, poll |-> {"armed"}, gate |-> {"armed"}, lease |-> {"armed"}, fund |-> {"armed"},
   notSubmitted |-> {"armed"}, retireRefuse |-> {"armed"}, refuse |-> {"armed"},
   stamp |-> {"armed"}, confirm |-> {"armed"},
   reveal |-> {"funded"}, patchRevealed |-> {"funded"}, search |-> {"funded"},
   toRefunding |-> {"funded"}, toClaimed |-> {"funded", "refunding"},
   settle |-> {"claimed"}, settleFailed |-> {"claimed"}, markSettled |-> {"claimed"},
   findFunded |-> {"refunding"}, refund |-> {"refunding"}, finalize |-> {"refunding"},
   markRefunded |-> {"refunding"}]

(* A tick alone on the row works on the row as it is: what it read is still    *)
(* so, and what it learnt since holds or no longer matters.                   *)
Current(j) ==
  /\ j.pc # "idle" => j.row.state = row.state /\ j.row.htlc = row.htlc
  /\ j.pc = "step" => j.row.lease = row.lease
  /\ j.pc \in DOMAIN StateAt => row.state \in StateAt[j.pc]

Informed(j) ==
  /\ j.pc \in {"fail", "poll", "gate", "lease"} => ~row.lease
  /\ j.pc \in {"adopt", "stamp", "confirm"} => payout # "none"
  /\ j.pc = "arm" => j.htlc \in Expiries /\ (hold = "held" \/ clock >= InvoiceBy)
  /\ j.pc \in {"retireArm", "armCoupled"} => SendOurs
  /\ j.pc = "gate" /\ j.htlc # None => j.htlc = expiry /\ (hold = "held" \/ clock >= expiry)
  /\ j.pc = "gate" /\ j.htlc = None /\ row.htlc # None => clock >= InvoiceBy
  /\ j.pc \in {"lease", "fund"} /\ ~j.coupled => Covered
  /\ j.pc \in {"lease", "fund", "notSubmitted"} /\ j.coupled => row.htlc = None
  /\ j.pc \in {"retireRefuse", "refuse"} => row.htlc = None
  /\ j.pc \in {"toClaimed", "settle", "settleFailed", "markSettled"} => payout = "revealed"
  /\ j.pc = "markSettled" => hold = "settled" \/ (row.htlc = None /\ send # "none")
  /\ j.pc = "markRefunded" => payout = "refunded"

Sound(j) == Current(j) /\ Informed(j)

SoloInv ==
  /\ TypeOK /\ LeaseExclusive
  /\ Backed /\ Secured /\ Truthful
  /\ \A d \in Driver : Sound(job[d])

(* A step that only moves a tick on leaves what is true of the row true. *)
LEMMA QuietStep ==
  ASSUME Backed, Secured, Truthful, UNCHANGED <<row, operator, ln, arkade, send, clock>>
  PROVE  Backed' /\ Secured' /\ Truthful'
BY DEF Backed, Secured, Truthful, Out, SendOurs, Covered, PayoutNeverForgotten, RowTellsTheTruth,
     ln, arkade

(* A tick that is over claims nothing. *)
LEMMA DoneSound ==
  ASSUME job \in [Driver -> Job], NEW d \in Driver, Done(d)
  PROVE  Sound(job[d])'
BY DEF Done, Idle, Sound, Current, Informed, StateAt

(* Every step of one attended process, and every step around it, keeps the    *)
(* invariant.                                                                *)
LEMMA SoloStep ==
  ASSUME Alone, SoloInv, [Next]_vars
  PROVE  SoloInv'
<1>a. /\ row \in Row /\ job \in [Driver -> Job] /\ hold \in HoldStates /\ payout \in PayoutStates
      /\ expiry \in Expiries \cup {None} /\ Expiries \subseteq Nat /\ clock \in Nat /\ fundings \in Nat
      /\ {InvoiceBy, RefundAt, Window, Margin} \subseteq Nat /\ send \in SendStates
  BY ReceiveAssumption DEF SoloInv, TypeOK
<1>b. Backed /\ Secured /\ Truthful /\ LeaseExclusive
  BY DEF SoloInv
<1>c. TypeOK' /\ LeaseExclusive'
  BY TypeStep, LeaseStep DEF SoloInv
<1>d. ASSUME NEW d \in Driver, Backed', Secured', Truthful', Sound(job[d])' PROVE SoloInv'
  BY <1>c, <1>d DEF SoloInv, Alone
<1>e. ASSUME NEW d \in Driver PROVE Current(job[d]) /\ Informed(job[d])
  BY DEF SoloInv, Sound
<1>1. ASSUME NEW d \in Driver, Tick(d) PROVE SoloInv'
  <2>1. Backed' /\ Secured' /\ Truthful'
    BY <1>1, <1>b, QuietStep DEF Tick, ln, arkade
  <2>2. Sound(job[d])'
    BY <1>1, <1>a, <1>b, <1>e DEF Tick, At, Idle, ln, arkade, NewRow, Sound, Current, Informed,
         StateAt, Row, Job
  <2> QED
    BY <1>d, <2>1, <2>2
<1>2. ASSUME NEW d \in Driver, Fail(d) PROVE SoloInv'
  <2>1. Backed'
    BY <1>2, <1>a, <1>b DEF Fail, At, Done, ln, arkade, fail, failState, transition, Won, Exposed,
         Idle, NewRow, Backed, SendOurs, Row
  <2>2. Secured'
    BY <1>2, <1>a, <1>b, <1>e DEF Fail, At, Done, ln, arkade, fail, failState, transition, Won,
         Exposed, Idle, NewRow, Secured, Out, Covered, Row, Job, Current, StateAt
  <2>3. Truthful'
    BY <1>2, <1>a, <1>b, <1>e DEF Fail, At, Done, ln, arkade, fail, failState, transition, Won,
         Exposed, Idle, NewRow, Truthful, PayoutNeverForgotten, RowTellsTheTruth, Row, Job, Current,
         StateAt, Informed, LeaseExclusive, Holds
  <2>4. Sound(job[d])'
    BY <1>2, <1>a, DoneSound DEF Fail
  <2> QED
    BY <1>d, <2>1, <2>2, <2>3, <2>4
<1>3. ASSUME NEW d \in Driver, retireInvoice(d) PROVE SoloInv'
  <2>1. Backed'
    BY <1>3, <1>a, <1>b, <1>e DEF retireInvoice, Goto, arkade, RetireNext, cancelHold, Backed,
         SendOurs, SendFunded, Row, Job, Current, StateAt, Informed
  <2>2. Secured'
    BY <1>3, <1>a, <1>b, <1>e DEF retireInvoice, Goto, arkade, RetireNext, cancelHold, Alone,
         Current, Informed, StateAt, Backed, Secured, Truthful, LeaseExclusive, Holds, Out,
         SendOurs, Covered, PayoutNeverForgotten, RowTellsTheTruth, SendFunded, Row, Job, None,
         HoldStates, PayoutStates
  <2>3. Truthful'
    BY <1>3, <1>a, <1>b DEF retireInvoice, Goto, arkade, RetireNext, cancelHold, Truthful,
         PayoutNeverForgotten, RowTellsTheTruth, Row
  <2>4. Sound(job[d])'
    BY <1>3, <1>a, <1>b, <1>e DEF retireInvoice, Goto, arkade, RetireNext, cancelHold, Sound, Alone,
         Current, Informed, StateAt, Backed, Truthful, LeaseExclusive, Holds, SendOurs, Covered,
         PayoutNeverForgotten, RowTellsTheTruth, SendFunded, Row, Job, None, HoldStates,
         PayoutStates
  <2> QED
    BY <1>d, <2>1, <2>2, <2>3, <2>4
<1>4. ASSUME NEW d \in Driver, whenQuoted(d) PROVE SoloInv'
  <2>1. Backed' /\ Secured' /\ Truthful'
    BY <1>4, <1>b, QuietStep DEF whenQuoted, ln, arkade
  <2>2. Sound(job[d])'
    BY <1>4, <1>a, <1>b, <1>e DEF whenQuoted, AtStep, ln, arkade, At, Sound, Current, Informed,
         StateAt, Row, Job, SendOurs, SendFunded, Covered, Truthful, LeaseExclusive, None
  <2> QED
    BY <1>d, <2>1, <2>2
<1>5. ASSUME NEW d \in Driver, Arm(d) PROVE SoloInv'
  <2>1. Backed'
    BY <1>5, <1>a, <1>b, <1>e DEF Arm, At, Done, ln, arkade, transition, Won, Idle, NewRow, Alone,
         Current, Informed, StateAt, Backed, Secured, Truthful, LeaseExclusive, Holds, Out,
         SendOurs, Covered, PayoutNeverForgotten, RowTellsTheTruth, SendFunded, Row, Job, None,
         HoldStates, PayoutStates
  <2>2. Secured'
    BY <1>5, <1>a, <1>b, <1>e DEF Arm, At, Done, ln, arkade, transition, Won, Idle, NewRow, Alone,
         Current, Informed, StateAt, Backed, Secured, Truthful, LeaseExclusive, Holds, Out,
         SendOurs, Covered, PayoutNeverForgotten, RowTellsTheTruth, SendFunded, Row, Job, None,
         HoldStates, PayoutStates
  <2>3. Truthful'
    BY <1>5, <1>a, <1>b DEF Arm, At, Done, ln, arkade, transition, Won, Idle, NewRow, Truthful,
         PayoutNeverForgotten, RowTellsTheTruth, Row
  <2>4. Sound(job[d])'
    BY <1>5, <1>a, DoneSound DEF Arm
  <2> QED
    BY <1>d, <2>1, <2>2, <2>3, <2>4
<1>6. ASSUME NEW d \in Driver, QuotedCoupled(d) PROVE SoloInv'
  <2>1. Backed' /\ Secured' /\ Truthful'
    BY <1>6, <1>b, QuietStep DEF QuotedCoupled, ln, arkade
  <2>2. Sound(job[d])'
    BY <1>6, <1>a, <1>b, <1>e DEF QuotedCoupled, At, Idle, ln, arkade, SendLive, SendStates, NewRow,
         Sound, Alone, Current, Informed, StateAt, Backed, Truthful, LeaseExclusive, Holds,
         SendOurs, Covered, PayoutNeverForgotten, RowTellsTheTruth, SendFunded, Row, Job, None,
         HoldStates, PayoutStates
  <2> QED
    BY <1>d, <2>1, <2>2
<1>7. ASSUME NEW d \in Driver, ArmCoupled(d) PROVE SoloInv'
  <2>1. Backed'
    BY <1>7, <1>a, <1>b, <1>e DEF ArmCoupled, At, Done, ln, arkade, transition, Won, Idle, NewRow,
         Backed, SendOurs, SendFunded, Row, Job, Current, StateAt, Informed
  <2>2. Secured'
    BY <1>7, <1>a, <1>b DEF ArmCoupled, At, Done, ln, arkade, transition, Won, Idle, NewRow,
         Secured, Out, Covered, Row
  <2>3. Truthful'
    BY <1>7, <1>a, <1>b DEF ArmCoupled, At, Done, ln, arkade, transition, Won, Idle, NewRow,
         Truthful, PayoutNeverForgotten, RowTellsTheTruth, Row
  <2>4. Sound(job[d])'
    BY <1>7, <1>a, DoneSound DEF ArmCoupled
  <2> QED
    BY <1>d, <2>1, <2>2, <2>3, <2>4
<1>8. ASSUME NEW d \in Driver, whenArmed(d) PROVE SoloInv'
  <2>1. Backed'
    BY <1>8, <1>a, <1>b DEF whenArmed, AtStep, Goto, Done, ln, arkade, transition, AtIndexer, Won,
         Idle, NewRow, At, Backed, SendOurs, Row
  <2>2. Secured'
    BY <1>8, <1>a, <1>b DEF whenArmed, AtStep, Goto, Done, ln, arkade, transition, AtIndexer, Won,
         Idle, NewRow, At, Secured, Out, Covered, Row
  <2>3. Truthful'
    BY <1>8, <1>a, <1>b DEF whenArmed, AtStep, Goto, Done, ln, arkade, transition, AtIndexer, Won,
         Idle, NewRow, At, Truthful, PayoutNeverForgotten, RowTellsTheTruth, Row
  <2>4. Sound(job[d])'
    BY <1>8, <1>a, <1>b, <1>e DEF whenArmed, AtStep, Goto, Done, ln, arkade, transition, AtIndexer,
         Won, Idle, NewRow, At, Sound, Current, Informed, StateAt, Row, Job
  <2> QED
    BY <1>d, <2>1, <2>2, <2>3, <2>4
<1>9. ASSUME NEW d \in Driver, Adopt(d) PROVE SoloInv'
  <2>1. Backed'
    BY <1>9, <1>a, <1>b DEF Adopt, At, Done, ln, arkade, transition, Won, Idle, NewRow, Backed,
         SendOurs, Row
  <2>2. Secured'
    BY <1>9, <1>a, <1>b DEF Adopt, At, Done, ln, arkade, transition, Won, Idle, NewRow, Secured,
         Out, Covered, Row
  <2>3. Truthful'
    BY <1>9, <1>a, <1>b DEF Adopt, At, Done, ln, arkade, transition, Won, Idle, NewRow, Truthful,
         PayoutNeverForgotten, RowTellsTheTruth, Row
  <2>4. Sound(job[d])'
    BY <1>9, <1>a, DoneSound DEF Adopt
  <2> QED
    BY <1>d, <2>1, <2>2, <2>3, <2>4
<1>10. ASSUME NEW d \in Driver, PollHold(d) PROVE SoloInv'
  <2>1. Backed' /\ Secured' /\ Truthful'
    BY <1>10, <1>b, QuietStep DEF PollHold, ln, arkade
  <2>2. Sound(job[d])'
    BY <1>10, <1>a, <1>b, <1>e DEF PollHold, At, ln, arkade, Sound, Alone, Current, Informed,
         StateAt, Backed, Truthful, LeaseExclusive, Holds, SendOurs, Covered, PayoutNeverForgotten,
         RowTellsTheTruth, SendFunded, Row, Job, None, HoldStates, PayoutStates
  <2> QED
    BY <1>d, <2>1, <2>2
<1>11. ASSUME NEW d \in Driver, FundingGate(d) PROVE SoloInv'
  <2>1. Backed' /\ Secured' /\ Truthful'
    BY <1>11, <1>b, QuietStep DEF FundingGate, ln, arkade
  <2>2. Sound(job[d])'
    BY <1>11, <1>a, <1>b, <1>e DEF FundingGate, At, ln, arkade, SendLive, Fundable, SendStates,
         Sound, Alone, Current, Informed, StateAt, Backed, Truthful, LeaseExclusive, Holds,
         SendOurs, Covered, PayoutNeverForgotten, RowTellsTheTruth, SendFunded, Row, Job, None,
         HoldStates, PayoutStates
  <2> QED
    BY <1>d, <2>1, <2>2
<1>12. ASSUME NEW d \in Driver, ClaimLease(d) PROVE SoloInv'
  <2>1. Backed'
    BY <1>12, <1>a, <1>b DEF ClaimLease, At, Goto, Done, ln, arkade, claimFundLease, LeaseWon, Idle,
         NewRow, Backed, SendOurs, Row
  <2>2. Secured'
    BY <1>12, <1>a, <1>b DEF ClaimLease, At, Goto, Done, ln, arkade, claimFundLease, LeaseWon, Idle,
         NewRow, Secured, Out, Covered, Row
  <2>3. Truthful'
    BY <1>12, <1>a, <1>b DEF ClaimLease, At, Goto, Done, ln, arkade, claimFundLease, LeaseWon, Idle,
         NewRow, Truthful, PayoutNeverForgotten, RowTellsTheTruth, Row
  <2>4. Sound(job[d])'
    <3>1. CASE LeaseWon
      <4>1. job[d]'.pc = "fund" /\ job[d]'.row = job[d].row /\ job[d]'.coupled = job[d].coupled
        BY <1>12, <1>a, <3>1 DEF ClaimLease, Goto, Job
      <4>2. row'.state = row.state /\ row'.htlc = row.htlc
        BY <1>12, <1>a, <3>1 DEF ClaimLease, claimFundLease, Row
      <4>3. row.state = "armed" /\ job[d].pc = "lease"
        BY <1>12, <3>1 DEF ClaimLease, LeaseWon, At
      <4> QED
        BY <1>12, <1>e, <4>1, <4>2, <4>3 DEF ClaimLease, ln, Sound, Current, Informed, StateAt, Covered
    <3>2. CASE ~LeaseWon
      BY <1>12, <1>a, <3>2, DoneSound DEF ClaimLease
    <3> QED
      BY <3>1, <3>2
  <2> QED
    BY <1>d, <2>1, <2>2, <2>3, <2>4
<1>13. ASSUME NEW d \in Driver, Fund(d) PROVE SoloInv'
  <2>1. Backed'
    BY <1>13, <1>a, <1>b DEF Fund, At, Goto, Done, ln, arkade, Idle, NewRow, Backed, SendOurs, Row
  <2>2. Secured'
    BY <1>13, <1>a, <1>b, <1>e DEF Fund, At, Goto, Done, ln, arkade, Idle, NewRow, Secured, Out,
         Covered, Row, Job, Current, StateAt, Informed, LeaseExclusive, Holds, Truthful
  <2>3. Truthful'
    BY <1>13, <1>a, <1>b, <1>e DEF Fund, At, Goto, Done, ln, arkade, Idle, NewRow, Truthful,
         PayoutNeverForgotten, RowTellsTheTruth, Row, Job, Current, StateAt, Informed,
         LeaseExclusive, Holds
  <2>4. Sound(job[d])'
    BY <1>13, <1>a, <1>b, <1>e DEF Fund, At, Goto, Done, ln, arkade, Idle, NewRow, Sound, Current,
         Informed, StateAt, Row, Job
  <2> QED
    BY <1>d, <2>1, <2>2, <2>3, <2>4
<1>14. ASSUME NEW d \in Driver, NotSubmitted(d) PROVE SoloInv'
  <2>1. Backed'
    BY <1>14, <1>a, <1>b DEF NotSubmitted, At, Goto, Done, ln, arkade, releaseFundLease, Idle,
         NewRow, Backed, SendOurs, Row
  <2>2. Secured'
    BY <1>14, <1>a, <1>b DEF NotSubmitted, At, Goto, Done, ln, arkade, releaseFundLease, Idle,
         NewRow, Secured, Out, Covered, Row
  <2>3. Truthful'
    BY <1>14, <1>a, <1>b DEF NotSubmitted, At, Goto, Done, ln, arkade, releaseFundLease, Idle,
         NewRow, Truthful, PayoutNeverForgotten, RowTellsTheTruth, Row
  <2>4. Sound(job[d])'
    BY <1>14, <1>a, <1>b, <1>e DEF NotSubmitted, At, Goto, Done, ln, arkade, releaseFundLease, Idle,
         NewRow, Sound, Current, Informed, StateAt, Row, Job
  <2> QED
    BY <1>d, <2>1, <2>2, <2>3, <2>4
<1>15. ASSUME NEW d \in Driver, RefuseCoupled(d) PROVE SoloInv'
  <2>1. Backed'
    BY <1>15, <1>a, <1>b DEF RefuseCoupled, At, Done, ln, arkade, transition, Won, Idle, NewRow,
         Backed, SendOurs, Row
  <2>2. Secured'
    BY <1>15, <1>a, <1>b DEF RefuseCoupled, At, Done, ln, arkade, transition, Won, Idle, NewRow,
         Secured, Out, Covered, Row
  <2>3. Truthful'
    BY <1>15, <1>a, <1>b, <1>e DEF RefuseCoupled, At, Done, ln, arkade, transition, Won, Idle,
         NewRow, Truthful, PayoutNeverForgotten, RowTellsTheTruth, Row, Job, Current, StateAt,
         Informed, LeaseExclusive, Holds
  <2>4. Sound(job[d])'
    BY <1>15, <1>a, DoneSound DEF RefuseCoupled
  <2> QED
    BY <1>d, <2>1, <2>2, <2>3, <2>4
<1>16. ASSUME NEW d \in Driver, PatchStamped(d) PROVE SoloInv'
  <2>1. Backed'
    BY <1>16, <1>a, <1>b DEF PatchStamped, At, Goto, ln, arkade, Backed, SendOurs, Row
  <2>2. Secured'
    BY <1>16, <1>a, <1>b DEF PatchStamped, At, Goto, ln, arkade, Secured, Out, Covered, Row
  <2>3. Truthful'
    BY <1>16, <1>a, <1>b DEF PatchStamped, At, Goto, ln, arkade, Truthful, PayoutNeverForgotten,
         RowTellsTheTruth, Row
  <2>4. Sound(job[d])'
    BY <1>16, <1>a, <1>b, <1>e DEF PatchStamped, At, Goto, ln, arkade, Sound, Current, Informed,
         StateAt, Row, Job
  <2> QED
    BY <1>d, <2>1, <2>2, <2>3, <2>4
<1>17. ASSUME NEW d \in Driver, ConfirmFunding(d) PROVE SoloInv'
  <2>1. Backed' /\ Secured' /\ Truthful'
    BY <1>17, <1>b, QuietStep DEF ConfirmFunding, ln, arkade
  <2>2. Sound(job[d])'
    BY <1>17, <1>a, <1>b, <1>e DEF ConfirmFunding, At, Goto, Done, ln, arkade, AtIndexer, Idle,
         NewRow, Sound, Current, Informed, StateAt, Row, Job
  <2> QED
    BY <1>d, <2>1, <2>2
<1>18. ASSUME NEW d \in Driver, whenFunded(d) PROVE SoloInv'
  <2>1. Backed' /\ Secured' /\ Truthful'
    BY <1>18, <1>b, QuietStep DEF whenFunded, ln, arkade
  <2>2. Sound(job[d])'
    BY <1>18, <1>a, <1>b, <1>e DEF whenFunded, AtStep, Goto, Done, ln, arkade, Idle, NewRow, At,
         Sound, Current, Informed, StateAt, Row, Job
  <2> QED
    BY <1>d, <2>1, <2>2
<1>19. ASSUME NEW d \in Driver, revealToCovclaimd(d) PROVE SoloInv'
  <2>1. Backed' /\ Secured' /\ Truthful'
    BY <1>19, <1>b, QuietStep DEF revealToCovclaimd, ln, arkade
  <2>2. Sound(job[d])'
    BY <1>19, <1>a, <1>b, <1>e DEF revealToCovclaimd, At, Goto, Done, ln, arkade, Idle, NewRow,
         Sound, Current, Informed, StateAt, Row, Job
  <2> QED
    BY <1>d, <2>1, <2>2
<1>20. ASSUME NEW d \in Driver, PatchRevealed(d) PROVE SoloInv'
  <2>1. Backed'
    BY <1>20, <1>a, <1>b DEF PatchRevealed, At, Done, ln, arkade, Idle, NewRow, Backed, SendOurs,
         Row
  <2>2. Secured'
    BY <1>20, <1>a, <1>b DEF PatchRevealed, At, Done, ln, arkade, Idle, NewRow, Secured, Out,
         Covered, Row
  <2>3. Truthful'
    BY <1>20, <1>a, <1>b DEF PatchRevealed, At, Done, ln, arkade, Idle, NewRow, Truthful,
         PayoutNeverForgotten, RowTellsTheTruth, Row
  <2>4. Sound(job[d])'
    BY <1>20, <1>a, DoneSound DEF PatchRevealed
  <2> QED
    BY <1>d, <2>1, <2>2, <2>3, <2>4
<1>21. ASSUME NEW d \in Driver, SearchPreimage(d) PROVE SoloInv'
  <2>1. Backed' /\ Secured' /\ Truthful'
    BY <1>21, <1>b, QuietStep DEF SearchPreimage, ln, arkade
  <2>2. Sound(job[d])'
    BY <1>21, <1>a, <1>b, <1>e DEF SearchPreimage, At, Goto, Done, ln, arkade, Idle, NewRow, Sound,
         Current, Informed, StateAt, Row, Job
  <2> QED
    BY <1>d, <2>1, <2>2
<1>22. ASSUME NEW d \in Driver, ToClaimed(d) PROVE SoloInv'
  <2>1. Backed'
    BY <1>22, <1>a, <1>b, <1>e DEF ToClaimed, At, Done, ln, arkade, transition, Won, Idle, NewRow,
         Backed, SendOurs, SendFunded, Row, Job, Current, StateAt
  <2>2. Secured'
    BY <1>22, <1>a, <1>b, <1>e DEF ToClaimed, At, Done, ln, arkade, transition, Won, Idle, NewRow,
         Secured, Out, Covered, Row, Job, Current, StateAt
  <2>3. Truthful'
    BY <1>22, <1>a, <1>b, <1>e DEF ToClaimed, At, Done, ln, arkade, transition, Won, Idle, NewRow,
         Truthful, PayoutNeverForgotten, RowTellsTheTruth, Row, Job, Current, StateAt, Informed
  <2>4. Sound(job[d])'
    BY <1>22, <1>a, DoneSound DEF ToClaimed
  <2> QED
    BY <1>d, <2>1, <2>2, <2>3, <2>4
<1>23. ASSUME NEW d \in Driver, ToRefunding(d) PROVE SoloInv'
  <2>1. Backed'
    BY <1>23, <1>a, <1>b DEF ToRefunding, At, Done, ln, arkade, transition, Won, Idle, NewRow,
         Backed, SendOurs, Row
  <2>2. Secured'
    BY <1>23, <1>a, <1>b DEF ToRefunding, At, Done, ln, arkade, transition, Won, Idle, NewRow,
         Secured, Out, Covered, Row
  <2>3. Truthful'
    BY <1>23, <1>a, <1>b DEF ToRefunding, At, Done, ln, arkade, transition, Won, Idle, NewRow,
         Truthful, PayoutNeverForgotten, RowTellsTheTruth, Row
  <2>4. Sound(job[d])'
    BY <1>23, <1>a, DoneSound DEF ToRefunding
  <2> QED
    BY <1>d, <2>1, <2>2, <2>3, <2>4
<1>24. ASSUME NEW d \in Driver, whenClaimed(d) PROVE SoloInv'
  <2>1. Backed'
    BY <1>24, <1>a, <1>b DEF whenClaimed, AtStep, Goto, ln, arkade, SendLive, SendStates, At,
         Backed, SendOurs, Row
  <2>2. Secured'
    BY <1>24, <1>a, <1>b DEF whenClaimed, AtStep, Goto, ln, arkade, SendLive, SendStates, At,
         Secured, Out, Covered, Row
  <2>3. Truthful'
    BY <1>24, <1>a, <1>b DEF whenClaimed, AtStep, Goto, ln, arkade, SendLive, SendStates, At,
         Truthful, PayoutNeverForgotten, RowTellsTheTruth, Row
  <2>4. Sound(job[d])'
    BY <1>24, <1>a, <1>b, <1>e DEF whenClaimed, AtStep, Goto, ln, arkade, SendLive, SendStates, At,
         Sound, Current, Informed, StateAt, Row, Job, SendOurs, SendFunded, Covered, Truthful,
         LeaseExclusive, None
  <2> QED
    BY <1>d, <2>1, <2>2, <2>3, <2>4
<1>25. ASSUME NEW d \in Driver, settleHold(d) PROVE SoloInv'
  <2>1. Backed'
    BY <1>25, <1>a, <1>b DEF settleHold, At, Goto, arkade, Backed, SendOurs, Row
  <2>2. Secured'
    BY <1>25, <1>a, <1>b DEF settleHold, At, Goto, arkade, Secured, Out, Covered, Row
  <2>3. Truthful'
    BY <1>25, <1>a, <1>b, <1>e DEF settleHold, At, Goto, arkade, Truthful, PayoutNeverForgotten,
         RowTellsTheTruth, Row, Job, Current, StateAt, Informed
  <2>4. Sound(job[d])'
    BY <1>25, <1>a, <1>b, <1>e DEF settleHold, At, Goto, arkade, Sound, Current, Informed, StateAt,
         Row, Job
  <2> QED
    BY <1>d, <2>1, <2>2, <2>3, <2>4
<1>26. ASSUME NEW d \in Driver, SettleFailed(d) PROVE SoloInv'
  <2>1. Backed'
    BY <1>26, <1>a, <1>b DEF SettleFailed, At, Goto, Done, ln, arkade, fail, failState, transition,
         Won, Exposed, Idle, NewRow, Backed, SendOurs, Row
  <2>2. Secured'
    BY <1>26, <1>a, <1>b DEF SettleFailed, At, Goto, Done, ln, arkade, fail, failState, transition,
         Won, Exposed, Idle, NewRow, Secured, Out, Covered, Row
  <2>3. Truthful'
    BY <1>26, <1>a, <1>b DEF SettleFailed, At, Goto, Done, ln, arkade, fail, failState, transition,
         Won, Exposed, Idle, NewRow, Truthful, PayoutNeverForgotten, RowTellsTheTruth, Row
  <2>4. Sound(job[d])'
    BY <1>26, <1>a, <1>b, <1>e DEF SettleFailed, At, Goto, Done, ln, arkade, fail, failState,
         transition, Won, Exposed, Idle, NewRow, Sound, Current, Informed, StateAt, Row, Job
  <2> QED
    BY <1>d, <2>1, <2>2, <2>3, <2>4
<1>27. ASSUME NEW d \in Driver, MarkSettled(d) PROVE SoloInv'
  <2>1. Backed'
    BY <1>27, <1>a, <1>b DEF MarkSettled, At, Done, ln, arkade, transition, Won, Idle, NewRow,
         Backed, SendOurs, Row
  <2>2. Secured'
    BY <1>27, <1>a, <1>b DEF MarkSettled, At, Done, ln, arkade, transition, Won, Idle, NewRow,
         Secured, Out, Covered, Row
  <2>3. Truthful'
    BY <1>27, <1>a, <1>b, <1>e DEF MarkSettled, At, Done, ln, arkade, transition, Won, Idle, NewRow,
         Truthful, PayoutNeverForgotten, RowTellsTheTruth, Row, Job, Current, StateAt, Informed
  <2>4. Sound(job[d])'
    BY <1>27, <1>a, DoneSound DEF MarkSettled
  <2> QED
    BY <1>d, <2>1, <2>2, <2>3, <2>4
<1>28. ASSUME NEW d \in Driver, whenRefunding(d) PROVE SoloInv'
  <2>1. Backed' /\ Secured' /\ Truthful'
    BY <1>28, <1>b, QuietStep DEF whenRefunding, ln, arkade
  <2>2. Sound(job[d])'
    BY <1>28, <1>a, <1>b, <1>e DEF whenRefunding, AtStep, Goto, ln, arkade, At, Sound, Current,
         Informed, StateAt, Row, Job
  <2> QED
    BY <1>d, <2>1, <2>2
<1>29. ASSUME NEW d \in Driver, FindFunded(d) PROVE SoloInv'
  <2>1. Backed' /\ Secured' /\ Truthful'
    BY <1>29, <1>b, QuietStep DEF FindFunded, ln, arkade
  <2>2. Sound(job[d])'
    BY <1>29, <1>a, <1>b, <1>e DEF FindFunded, At, Goto, ln, arkade, Sound, Current, Informed,
         StateAt, Row, Job
  <2> QED
    BY <1>d, <2>1, <2>2
<1>30. ASSUME NEW d \in Driver, FinalizePendingRefund(d) PROVE SoloInv'
  <2>1. Backed'
    BY <1>30, <1>a, <1>b DEF FinalizePendingRefund, At, Goto, Done, ln, fail, failState, transition,
         Won, Exposed, Idle, NewRow, Backed, SendOurs, Row
  <2>2. Secured'
    BY <1>30, <1>a, <1>b DEF FinalizePendingRefund, At, Goto, Done, ln, fail, failState, transition,
         Won, Exposed, Idle, NewRow, Secured, Out, Covered, Row
  <2>3. Truthful'
    BY <1>30, <1>a, <1>b DEF FinalizePendingRefund, At, Goto, Done, ln, fail, failState, transition,
         Won, Exposed, Idle, NewRow, Truthful, PayoutNeverForgotten, RowTellsTheTruth, Row
  <2>4. Sound(job[d])'
    BY <1>30, <1>a, <1>b, <1>e DEF FinalizePendingRefund, At, Goto, Done, ln, fail, failState,
         transition, Won, Exposed, Idle, NewRow, Sound, Current, Informed, StateAt, Row, Job
  <2> QED
    BY <1>d, <2>1, <2>2, <2>3, <2>4
<1>31. ASSUME NEW d \in Driver, Refund(d) PROVE SoloInv'
  <2>1. Backed'
    BY <1>31, <1>a, <1>b DEF Refund, At, Goto, ln, Backed, SendOurs, Row
  <2>2. Secured'
    BY <1>31, <1>a, <1>b DEF Refund, At, Goto, ln, Secured, Out, Covered, Row
  <2>3. Truthful'
    BY <1>31, <1>a, <1>b DEF Refund, At, Goto, ln, Truthful, PayoutNeverForgotten, RowTellsTheTruth,
         Row
  <2>4. Sound(job[d])'
    BY <1>31, <1>a, <1>b, <1>e DEF Refund, At, Goto, ln, Sound, Current, Informed, StateAt, Row, Job
  <2> QED
    BY <1>d, <2>1, <2>2, <2>3, <2>4
<1>32. ASSUME NEW d \in Driver, RefundFails(d) PROVE SoloInv'
  <2>1. Backed'
    BY <1>32, <1>a, <1>b DEF RefundFails, At, Done, ln, fail, failState, transition, Won, Exposed,
         Idle, NewRow, Backed, SendOurs, Row
  <2>2. Secured'
    BY <1>32, <1>a, <1>b DEF RefundFails, At, Done, ln, fail, failState, transition, Won, Exposed,
         Idle, NewRow, Secured, Out, Covered, Row
  <2>3. Truthful'
    BY <1>32, <1>a, <1>b DEF RefundFails, At, Done, ln, fail, failState, transition, Won, Exposed,
         Idle, NewRow, Truthful, PayoutNeverForgotten, RowTellsTheTruth, Row
  <2>4. Sound(job[d])'
    BY <1>32, <1>a, DoneSound DEF RefundFails
  <2> QED
    BY <1>d, <2>1, <2>2, <2>3, <2>4
<1>33. ASSUME NEW d \in Driver, MarkRefunded(d) PROVE SoloInv'
  <2>1. Backed'
    BY <1>33, <1>a, <1>b DEF MarkRefunded, At, Done, ln, arkade, transition, Won, Idle, NewRow,
         Backed, SendOurs, Row
  <2>2. Secured'
    BY <1>33, <1>a, <1>b DEF MarkRefunded, At, Done, ln, arkade, transition, Won, Idle, NewRow,
         Secured, Out, Covered, Row
  <2>3. Truthful'
    BY <1>33, <1>a, <1>b, <1>e DEF MarkRefunded, At, Done, ln, arkade, transition, Won, Idle,
         NewRow, Truthful, PayoutNeverForgotten, RowTellsTheTruth, Row, Job, Current, StateAt,
         Informed
  <2>4. Sound(job[d])'
    BY <1>33, <1>a, DoneSound DEF MarkRefunded
  <2> QED
    BY <1>d, <2>1, <2>2, <2>3, <2>4
<1>34. ASSUME NEW d \in Driver, Abandon(d) PROVE SoloInv'
  <2>1. Backed' /\ Secured' /\ Truthful'
    BY <1>34, <1>b, QuietStep DEF Abandon, ln, arkade
  <2>2. Sound(job[d])'
    BY <1>34, <1>a, DoneSound DEF Abandon
  <2> QED
    BY <1>d, <2>1, <2>2
<1>35. CASE refundNow
  <2>1. Backed'
    BY <1>35, <1>a, <1>b DEF refundNow, ln, arkade, Exposed, Backed, SendOurs, Row
  <2>2. Secured'
    BY <1>35, <1>a, <1>b DEF refundNow, ln, arkade, Exposed, Secured, Out, Covered, Row
  <2>3. Truthful'
    BY <1>35, <1>a, <1>b DEF refundNow, ln, arkade, Exposed, Truthful, PayoutNeverForgotten,
         RowTellsTheTruth, Row
  <2>4. ASSUME NEW d \in Driver PROVE Sound(job[d])'
    BY <1>35, <1>a, <1>b, <1>e DEF refundNow, ln, arkade, Exposed, Sound, Current, Informed,
         StateAt, Row, Job
  <2> QED
    BY <1>c, <2>1, <2>2, <2>3, <2>4 DEF SoloInv
<1>36. CASE PushRefund
  <2>1. Backed'
    BY <1>36, <1>a, <1>b DEF PushRefund, ln, Backed, SendOurs, Row
  <2>2. Secured'
    BY <1>36, <1>a, <1>b DEF PushRefund, ln, Secured, Out, Covered, Row
  <2>3. Truthful'
    BY <1>36, <1>a, <1>b DEF PushRefund, ln, Truthful, PayoutNeverForgotten, RowTellsTheTruth, Row
  <2>4. ASSUME NEW d \in Driver PROVE Sound(job[d])'
    BY <1>36, <1>a, <1>b, <1>e DEF PushRefund, ln, Sound, Current, Informed, StateAt, Row, Job,
         SendOurs, Covered, LeaseExclusive
  <2> QED
    BY <1>c, <2>1, <2>2, <2>3, <2>4 DEF SoloInv
<1>37. CASE PatchRefundTx
  <2>1. Backed'
    BY <1>37, <1>a, <1>b DEF PatchRefundTx, ln, arkade, Backed, SendOurs, Row
  <2>2. Secured'
    BY <1>37, <1>a, <1>b DEF PatchRefundTx, ln, arkade, Secured, Out, Covered, Row
  <2>3. Truthful'
    BY <1>37, <1>a, <1>b DEF PatchRefundTx, ln, arkade, Truthful, PayoutNeverForgotten,
         RowTellsTheTruth, Row
  <2>4. ASSUME NEW d \in Driver PROVE Sound(job[d])'
    BY <1>37, <1>a, <1>b, <1>e DEF PatchRefundTx, ln, arkade, Sound, Current, Informed, StateAt,
         Row, Job, SendOurs, Covered, LeaseExclusive
  <2> QED
    BY <1>c, <2>1, <2>2, <2>3, <2>4 DEF SoloInv
<1>38. CASE PayerPays
  <2>1. Backed'
    BY <1>38, <1>a, <1>b DEF PayerPays, arkade, Backed, SendOurs, Row
  <2>2. Secured'
    BY <1>38, <1>a, <1>b DEF PayerPays, arkade, Secured, Out, Covered, Row
  <2>3. Truthful'
    BY <1>38, <1>a, <1>b DEF PayerPays, arkade, Truthful, PayoutNeverForgotten, RowTellsTheTruth,
         Row
  <2>4. ASSUME NEW d \in Driver PROVE Sound(job[d])'
    BY <1>38, <1>a, <1>b, <1>e DEF PayerPays, arkade, Sound, Alone, Current, Informed, StateAt,
         Backed, Truthful, LeaseExclusive, Holds, SendOurs, Covered, PayoutNeverForgotten,
         RowTellsTheTruth, SendFunded, Row, Job, None, HoldStates, PayoutStates
  <2> QED
    BY <1>c, <2>1, <2>2, <2>3, <2>4 DEF SoloInv
<1>39. CASE ClientClaims
  <2>1. Backed'
    BY <1>39, <1>a, <1>b DEF ClientClaims, ln, Backed, SendOurs, Row
  <2>2. Secured'
    BY <1>39, <1>a, <1>b DEF ClientClaims, ln, Secured, Out, Covered, Row
  <2>3. Truthful'
    BY <1>39, <1>a, <1>b DEF ClientClaims, ln, Truthful, PayoutNeverForgotten, RowTellsTheTruth, Row
  <2>4. ASSUME NEW d \in Driver PROVE Sound(job[d])'
    BY <1>39, <1>a, <1>b, <1>e DEF ClientClaims, ln, Sound, Current, Informed, StateAt, Row, Job,
         SendOurs, Covered, LeaseExclusive
  <2> QED
    BY <1>c, <2>1, <2>2, <2>3, <2>4 DEF SoloInv
<1>40. CASE SendMoves
  <2>1. Backed'
    BY <1>40, <1>a, <1>b, <1>e DEF SendMoves, ln, arkade, Backed, SendOurs, SendFunded, Row, Job,
         Current, StateAt
  <2>2. Secured'
    BY <1>40, <1>a, <1>b DEF SendMoves, ln, arkade, Secured, Out, Covered, Row
  <2>3. Truthful'
    BY <1>40, <1>a, <1>b, ReceiveAssumption DEF SendMoves, ln, arkade, Truthful, PayoutNeverForgotten,
         RowTellsTheTruth, SendFunded, SendStates
  <2>4. ASSUME NEW d \in Driver PROVE Sound(job[d])'
    BY <1>40, <1>a, <1>b, <1>e DEF SendMoves, ln, arkade, Sound, Alone, Current, Informed, StateAt,
         Backed, Truthful, LeaseExclusive, Holds, SendOurs, Covered, PayoutNeverForgotten,
         RowTellsTheTruth, SendFunded, Row, Job, None, HoldStates, PayoutStates
  <2> QED
    BY <1>c, <2>1, <2>2, <2>3, <2>4 DEF SoloInv
<1>41. CASE HoldLapses
  <2>1. Backed'
    <3>1. clock >= InvoiceBy
      BY <1>41, <1>a, <1>b DEF HoldLapses, Alone, Truthful
    <3> QED
      BY <1>41, <1>b, <3>1 DEF HoldLapses, arkade, Backed, SendOurs
  <2>2. Secured'
    <3>1. ~Covered
      BY <1>41, <1>a, <1>b DEF HoldLapses, Covered, Truthful
    <3> QED
      BY <1>41, <1>b, <3>1 DEF HoldLapses, arkade, Secured, Out
  <2>3. Truthful'
    BY <1>41, <1>a, <1>b DEF HoldLapses, arkade, Truthful, PayoutNeverForgotten, RowTellsTheTruth,
         Row
  <2>4. ASSUME NEW d \in Driver PROVE Sound(job[d])'
    BY <1>41, <1>a, <1>b, <1>e DEF HoldLapses, arkade, Sound, Alone, Current, Informed, StateAt,
         Backed, Truthful, LeaseExclusive, Holds, SendOurs, Covered, PayoutNeverForgotten,
         RowTellsTheTruth, SendFunded, Row, Job, None, HoldStates, PayoutStates
  <2> QED
    BY <1>c, <2>1, <2>2, <2>3, <2>4 DEF SoloInv
<1>42. CASE FundingShows
  <2>1. Backed'
    BY <1>42, <1>a, <1>b DEF FundingShows, ln, Backed, SendOurs, Row
  <2>2. Secured'
    BY <1>42, <1>a, <1>b DEF FundingShows, ln, Secured, Out, Covered, Row
  <2>3. Truthful'
    BY <1>42, <1>a, <1>b DEF FundingShows, ln, Truthful, PayoutNeverForgotten, RowTellsTheTruth, Row
  <2>4. ASSUME NEW d \in Driver PROVE Sound(job[d])'
    BY <1>42, <1>a, <1>b, <1>e DEF FundingShows, ln, Sound, Current, Informed, StateAt, Row, Job,
         SendOurs, Covered, LeaseExclusive
  <2> QED
    BY <1>c, <2>1, <2>2, <2>3, <2>4 DEF SoloInv
<1>43. CASE ClaimReadable
  <2>1. Backed'
    BY <1>43, <1>a, <1>b DEF ClaimReadable, ln, Backed, SendOurs, Row
  <2>2. Secured'
    BY <1>43, <1>a, <1>b DEF ClaimReadable, ln, Secured, Out, Covered, Row
  <2>3. Truthful'
    BY <1>43, <1>a, <1>b DEF ClaimReadable, ln, Truthful, PayoutNeverForgotten, RowTellsTheTruth,
         Row
  <2>4. ASSUME NEW d \in Driver PROVE Sound(job[d])'
    BY <1>43, <1>a, <1>b, <1>e DEF ClaimReadable, ln, Sound, Current, Informed, StateAt, Row, Job,
         SendOurs, Covered, LeaseExclusive
  <2> QED
    BY <1>c, <2>1, <2>2, <2>3, <2>4 DEF SoloInv
<1>44. CASE Advance
  <2>1. Backed'
    BY <1>44, <1>a, <1>b DEF Advance, ln, arkade, Committed, Exposed, Funding, Backed, SendOurs, Row
  <2>2. Secured'
    <3> SUFFICES ASSUME row.htlc # None, Out, row.state # "stuck", hold # "settled"
                 PROVE  Covered'
      BY <1>44 DEF Advance, Secured, Out, ln, arkade
    <3>1. Covered
      BY <1>b DEF Secured
    <3>2. Committed
      BY <1>a, <1>b, <3>1 DEF Committed, Exposed, Truthful, PayoutNeverForgotten, RowTellsTheTruth,
           LeaseExclusive, Out, Covered, Row, ReceiveSwapState
    <3> QED
      BY <1>44, <1>a, <3>1, <3>2 DEF Advance, Alone, Covered, ln
  <2>3. Truthful'
    BY <1>44, <1>a, <1>b DEF Advance, ln, arkade, Committed, Exposed, Funding, Truthful,
         PayoutNeverForgotten, RowTellsTheTruth, Row
  <2>4. ASSUME NEW d \in Driver PROVE Sound(job[d])'
    BY <1>44, <1>a, <1>b, <1>e DEF Advance, ln, arkade, Committed, Exposed, Funding, Sound, Alone,
         Current, Informed, StateAt, Backed, Truthful, LeaseExclusive, Holds, SendOurs, Covered,
         PayoutNeverForgotten, RowTellsTheTruth, SendFunded, Row, Job, None, HoldStates,
         PayoutStates
  <2> QED
    BY <1>c, <2>1, <2>2, <2>3, <2>4 DEF SoloInv
<1>45. CASE UNCHANGED vars
  BY <1>45 DEF vars, SoloInv, TypeOK, LeaseExclusive, Holds, Backed, Secured, Truthful, Out,
       SendOurs, Covered, PayoutNeverForgotten, RowTellsTheTruth, Sound, Current, Informed
<1> QED
  BY <1>1, <1>2, <1>3, <1>4, <1>5, <1>6, <1>7, <1>8, <1>9, <1>10, <1>11, <1>12, <1>13, <1>14, <1>15,
       <1>16, <1>17, <1>18, <1>19, <1>20, <1>21, <1>22, <1>23, <1>24, <1>25, <1>26, <1>27, <1>28,
       <1>29, <1>30, <1>31, <1>32, <1>33, <1>34, <1>35, <1>36, <1>37, <1>38, <1>39, <1>40, <1>41,
       <1>42, <1>43, <1>44, <1>45 DEF Next, DriverStep, OperatorStep, Environment, Rails

(* Every state a receive swap reaches with one attended process satisfies the *)
(* stronger invariant: what backs an armed row, what secures a payout, and     *)
(* what each await may rely on.                                                *)
THEOREM SoloReceiveInvariant == ASSUME Alone PROVE Spec => []SoloInv
<1>1. Init => SoloInv
  <2> SUFFICES ASSUME Init PROVE SoloInv
    OBVIOUS
  <2>1. row \in Row /\ job \in [Driver -> Job]
    BY IdleType DEF Init
  <2>2. TypeOK /\ LeaseExclusive
    BY <2>1, ReceiveAssumption DEF Init, TypeOK, HoldStates, PayoutStates, SendStates,
         LeaseExclusive, Holds, Idle
  <2>3. Backed /\ Secured /\ Truthful
    BY DEF Init, NewRow, Backed, Secured, Truthful, Out, PayoutNeverForgotten, RowTellsTheTruth
  <2>4. \A d \in Driver : Sound(job[d])
    BY DEF Init, Idle, Sound, Current, Informed, StateAt
  <2> QED
    BY <2>2, <2>3, <2>4 DEF SoloInv
<1>2. SoloInv /\ [Next]_vars => SoloInv'
  BY SoloStep
<1> QED
  BY <1>1, <1>2, PTL DEF Spec

(* One attended process, over a crash or a lost answer at every await, a       *)
(* payer, client and operator who act when they please and a send row on the   *)
(* same hash: one funding, of which the row knows, nothing claimed for a hold  *)
(* that lapsed, and a row that says what happened.                             *)
THEOREM ReceiveSafe == ASSUME Alone PROVE Spec => []ReceiveIsSafe
<1>1. SoloInv => NeverPaidForNothing
  <2> SUFFICES ASSUME SoloInv, payout \in {"taken", "revealed"}, row.state # "stuck"
               PROVE  hold \in {"held", "settled"} \/ SendOurs
    BY DEF NeverPaidForNothing, SendOurs
  <2>1. row.state \notin {"quoted", "refused"}
    BY DEF SoloInv, Truthful, PayoutNeverForgotten
  <2>2. CASE row.htlc = None
    BY <2>1, <2>2 DEF SoloInv, Backed
  <2>3. CASE row.htlc # None
    BY <2>3 DEF SoloInv, Secured, Out, Covered
  <2> QED
    BY <2>2, <2>3
<1>2. SoloInv => ReceiveIsSafe
  BY <1>1 DEF SoloInv, ReceiveIsSafe, NeverFundedTwice, LeaseExclusive, Truthful
<1> QED
  BY <1>2, SoloReceiveInvariant, PTL

----------------------------------------------------------------------------
(* The abstract swap. *)

(* Without a send row a payout goes out against a held HTLC only, an HTLC is   *)
(* failed back only while none is out, and settled only for one taken.         *)
LEMMA SwapStep ==
  ASSUME Alone, SoloInv, [Next]_vars
  PROVE  [Swap!Next]_(Swap!vars)
<1>a. /\ row \in Row /\ job \in [Driver -> Job] /\ hold \in HoldStates /\ payout \in PayoutStates
      /\ send \in SendStates
  BY DEF SoloInv, TypeOK
<1>b. Backed /\ Truthful /\ LeaseExclusive
  BY DEF SoloInv
<1>c. ASSUME NEW d \in Driver PROVE Current(job[d]) /\ Informed(job[d])
  BY DEF SoloInv, Sound
<1>d. ASSUME send # "none", send' # "none" PROVE UNCHANGED <<ClientLeg, PayoutLeg>>
  BY <1>d DEF ClientLeg, PayoutLeg
<1>e. ASSUME UNCHANGED <<hold, payout, send>> PROVE UNCHANGED <<ClientLeg, PayoutLeg>>
  BY <1>e DEF ClientLeg, PayoutLeg
<1>f. ASSUME UNCHANGED <<ClientLeg, PayoutLeg>> PROVE [Swap!Next]_(Swap!vars)
  BY <1>f DEF Swap!vars
<1>1. ASSUME SendMoves PROVE UNCHANGED <<ClientLeg, PayoutLeg>>
  BY <1>1, <1>d, ReceiveAssumption DEF SendMoves, SendFunded
<1>2. ASSUME NEW d \in Driver, Fund(d), send = "none" PROVE [Swap!Next]_(Swap!vars)
  <2>1. Covered /\ payout = "none"
    BY <1>2, <1>a, <1>b, <1>c DEF Fund, At, Current, Informed, StateAt, Backed, Truthful,
         LeaseExclusive, Holds, SendOurs, SendFunded
  <2>2. CASE payout' = "sent"
    BY <1>2, <2>1, <2>2 DEF Fund, ln, Covered, ClientLeg, PayoutLeg, Swap!Next, Swap!Offer
  <2>3. CASE payout' = payout
    BY <1>2, <2>3, <1>e, <1>f DEF Fund, ln
  <2> QED
    BY <1>2, <2>2, <2>3 DEF Fund, arkade
<1>3. ASSUME NEW d \in Driver, retireInvoice(d), send = "none" PROVE [Swap!Next]_(Swap!vars)
  <2>1. payout = "none"
    BY <1>3, <1>a, <1>b, <1>c DEF retireInvoice, RetireNext, Current, StateAt, Truthful, Holds,
         PayoutNeverForgotten, LeaseExclusive
  <2> QED
    BY <1>3, <2>1, <1>a DEF retireInvoice, cancelHold, arkade, ClientLeg, PayoutLeg, HoldStates,
         Swap!Next, Swap!Return, Swap!vars
<1>4. ASSUME NEW d \in Driver, settleHold(d), send = "none" PROVE [Swap!Next]_(Swap!vars)
  <2>1. payout = "revealed"
    BY <1>4, <1>c DEF settleHold, At, Informed
  <2> QED
    BY <1>4, <2>1, <1>a DEF settleHold, arkade, ClientLeg, PayoutLeg, HoldStates, Swap!Next,
         Swap!Collect, Swap!vars
<1>5. ASSUME NEW d \in Driver, FinalizePendingRefund(d) \/ Refund(d) \/ RefundFails(d), send = "none"
      PROVE  [Swap!Next]_(Swap!vars)
  BY <1>5, <1>a DEF FinalizePendingRefund, Refund, RefundFails, ln, ClientLeg, PayoutLeg,
       PayoutStates, Swap!Next, Swap!Withdraw, Swap!vars
<1>6. ASSUME PushRefund \/ ClientClaims \/ FundingShows \/ ClaimReadable, send = "none"
      PROVE  [Swap!Next]_(Swap!vars)
  BY <1>6, <1>a DEF PushRefund, ClientClaims, FundingShows, ClaimReadable, ln, ClientLeg,
       PayoutLeg, PayoutStates, Swap!Next, Swap!Withdraw, Swap!Take, Swap!vars
<1>7. ASSUME PayerPays \/ HoldLapses, send = "none" PROVE [Swap!Next]_(Swap!vars)
  BY <1>7, <1>a DEF PayerPays, HoldLapses, arkade, ClientLeg, PayoutLeg, Swap!Next, Swap!Lock,
       Swap!Clawback
<1>8. ASSUME NEW d \in Driver,
         \/ Tick(d) \/ Fail(d) \/ whenQuoted(d) \/ Arm(d) \/ QuotedCoupled(d) \/ ArmCoupled(d)
         \/ whenArmed(d) \/ Adopt(d) \/ PollHold(d) \/ FundingGate(d) \/ ClaimLease(d)
         \/ NotSubmitted(d) \/ RefuseCoupled(d) \/ PatchStamped(d) \/ ConfirmFunding(d)
         \/ whenFunded(d) \/ revealToCovclaimd(d) \/ PatchRevealed(d) \/ SearchPreimage(d)
         \/ ToClaimed(d) \/ ToRefunding(d) \/ whenClaimed(d) \/ SettleFailed(d) \/ MarkSettled(d)
         \/ whenRefunding(d) \/ FindFunded(d) \/ MarkRefunded(d) \/ Abandon(d)
      PROVE  UNCHANGED <<hold, payout, send>>
  BY <1>8 DEF Tick, Fail, whenQuoted, Arm, QuotedCoupled, ArmCoupled, whenArmed, Adopt, PollHold,
       FundingGate, ClaimLease, NotSubmitted, RefuseCoupled, PatchStamped, ConfirmFunding,
       whenFunded, revealToCovclaimd, PatchRevealed, SearchPreimage, ToClaimed, ToRefunding,
       whenClaimed, SettleFailed, MarkSettled, whenRefunding, FindFunded, MarkRefunded, Abandon,
       ln, arkade
<1>9. ASSUME refundNow \/ PatchRefundTx \/ Advance \/ UNCHANGED vars
      PROVE  UNCHANGED <<hold, payout, send>>
  BY <1>9 DEF refundNow, PatchRefundTx, Advance, vars, ln, arkade
<1>10. ASSUME ~SendMoves PROVE send' = send
  <2>1. ASSUME NEW d \in Driver, DriverStep(d) \/ Abandon(d) PROVE send' = send
    BY <2>1 DEF DriverStep, Tick, Fail, retireInvoice, whenQuoted, Arm, QuotedCoupled, ArmCoupled,
         whenArmed, Adopt, PollHold, FundingGate, ClaimLease, Fund, NotSubmitted, RefuseCoupled,
         PatchStamped, ConfirmFunding, whenFunded, revealToCovclaimd, PatchRevealed,
         SearchPreimage, ToClaimed, ToRefunding, whenClaimed, settleHold, SettleFailed,
         MarkSettled, whenRefunding, FindFunded, FinalizePendingRefund, Refund, RefundFails,
         MarkRefunded, Abandon
  <2>2. CASE OperatorStep \/ Environment \/ UNCHANGED vars
    BY <1>10, <2>2 DEF OperatorStep, refundNow, PushRefund, PatchRefundTx, Environment, Rails,
         PayerPays, ClientClaims, HoldLapses, FundingShows, ClaimReadable, Advance, vars
  <2> QED
    BY <2>1, <2>2 DEF Next
<1>11. CASE SendMoves
  BY <1>11, <1>1, <1>f
<1>12. CASE ~SendMoves /\ send # "none"
  BY <1>12, <1>10, <1>d, <1>f
<1>13. CASE ~SendMoves /\ send = "none"
  BY <1>13, <1>2, <1>3, <1>4, <1>5, <1>6, <1>7, <1>8, <1>9, <1>e, <1>f DEF Next, DriverStep,
       OperatorStep, Environment, Rails
<1> QED
  BY <1>11, <1>12, <1>13

(* The receive corridor of one attended process implements the abstract swap. *)
THEOREM ReceiveRefinesSwap == ASSUME Alone PROVE Spec => ImplementsAtomicSwap
<1>1. Init => Swap!Init
  BY DEF Init, Swap!Init, ClientLeg, PayoutLeg
<1>2. SoloInv /\ [Next]_vars => [Swap!Next]_(Swap!vars)
  BY SwapStep
<1> QED
  BY <1>1, <1>2, SoloReceiveInvariant, PTL DEF Spec, ImplementsAtomicSwap, Swap!Spec
============================================================================
