--------------------------- MODULE LightningReceive ---------------------------
(***************************************************************************)
(* The Lightning receive corridor, one swap of it.  A payer's HTLC is held *)
(* at the solver's node; against it the solver funds a payout lockup on    *)
(* Arkade; the client's claim of the payout reveals the preimage, and with *)
(* that the solver settles the HTLC.  Here the solver goes first: from the *)
(* funding until the settle it is out of pocket, and the HTLC it counts on *)
(* fails back by itself at its expiry E.                                   *)
(*                                                                         *)
(* As in LightningSend the row is the only state the processes share, a    *)
(* driver is one process ticking it, and each action is the code between   *)
(* two awaits of a tick, on the row as the tick read it (job.row).         *)
(*                                                                         *)
(* A quote whose invoice is also being sold to the send corridor has no    *)
(* payer: it is funded against the client's send lockup instead.  The send *)
(* row is then the environment, and so are the Lightning node, the Arkade  *)
(* server with its indexer, covclaimd and the client.                      *)
(***************************************************************************)
EXTENDS Integers, FiniteSets

CONSTANTS
  Driver,       \* the processes that tick the row
  Peers,        \* the send rows there may be on the same hash ("none" for none)
  SendFundings, \* how a client may fund such a send row
  Expiries,     \* the expiries E a payer's HTLC may have
  InvoiceBy,    \* invoiceExpiresAt
  RefundAt,     \* the payout's refund locktime
  Window,       \* least time to E at funding (MIN_SETTLE_WINDOW, the solo recourse)
  Margin,       \* SETTLE_SAFETY_MARGIN: how long before E the refund must open
  EmptyGrace,   \* EMPTY_LOCKUP_GRACE
  CensorGrace,  \* REFUND_CENSORSHIP_GRACE
  ClaimPacket,  \* what covclaimd gets: "none", a packet to "reveal", or one to "stamp" on the funding
  CanCancel,    \* the backend implements cancelHold
  Attended,     \* no process is down or stalled for as long as the margins
  MaxTime,      \* bound on the clock
  MaxFaults     \* bound on crashes and failed calls

ASSUME ReceiveAssumption ==
  /\ {InvoiceBy, RefundAt, Window, Margin, EmptyGrace, CensorGrace, MaxTime, MaxFaults} \subseteq Nat
  /\ Expiries \subseteq Nat
  /\ Peers \subseteq {"none", "quoted", "short"}
  /\ SendFundings \subseteq {"funded", "split", "unsafe"}
  /\ ClaimPacket \in {"none", "stamp", "reveal"}
  /\ CanCancel \in BOOLEAN /\ Attended \in BOOLEAN
  /\ IsFiniteSet(Driver)

VARIABLES
  row,       \* the receive_swap row
  job,       \* per driver: the tick in progress
  operator,  \* refundNow, which no in-flight guard covers
  hold,      \* the hold invoice at the Lightning node
  expiry,    \* E of the HTLC held against it
  payout,    \* the lockup the solver funds
  fundings,  \* how often it was funded
  send,      \* the send row on the same hash
  clock,
  faults

vars == <<row, job, operator, hold, expiry, payout, fundings, send, clock, faults>>
ln == <<hold, expiry>>
arkade == <<payout, fundings>>

----------------------------------------------------------------------------
(* The state machine of the row. *)
ReceiveSwapState == {"quoted", "armed", "funded", "claimed", "refunding",
                     "settled", "refunded", "refused", "stuck"}
Live == {"quoted", "armed", "funded", "claimed", "refunding"}
Exposed == {"funded", "claimed", "refunding"}

LnReceiveMachine ==
  [quoted |-> {"armed", "refused"},
   armed |-> {"funded", "refused", "stuck"},
   funded |-> {"claimed", "refunding", "refunded", "stuck"},
   claimed |-> {"settled", "stuck"},
   refunding |-> {"refunded", "claimed", "stuck"},
   settled |-> {},
   refunded |-> {},
   refused |-> {},
   stuck |-> {}]

(* The invoice: payable; an HTLC held; settled by us; retired unpaid; the    *)
(* HTLC failed back, by our cancelHold or by its expiry.                     *)
HoldStates == {"open", "held", "settled", "retired", "returned", "lapsed"}

(* The payout: submitted and not yet at the indexer; spendable; claimed by   *)
(* the client, before and after the claim can be read; our refund accepted   *)
(* by the server before it told us; refunded.                                *)
PayoutStates == {"none", "sent", "up", "taken", "revealed", "refundPending", "refunded"}
AtIndexer == PayoutStates \ {"none", "sent"}

(* The send row: none, or too small for this payout; quoted; funded in one    *)
(* output, in several, or with a solo refund that opens too early; refused    *)
(* with the lockup still there; collecting with our preimage; refunded.       *)
SendStates == {"none", "short", "quoted", "funded", "split", "unsafe", "refused", "collecting", "gone"}
SendLive == SendStates \ {"none", "gone"}
SendFunded == {"funded", "split", "unsafe"}

None == -1
Row == [state : ReceiveSwapState, htlc : Expiries \cup {None}, lease : BOOLEAN,
        stamped : BOOLEAN, revealed : BOOLEAN, settleTried : BOOLEAN,
        refundTx : BOOLEAN, since : Nat]

NewRow == [state |-> "quoted", htlc |-> None, lease |-> FALSE, stamped |-> FALSE,
           revealed |-> FALSE, settleTried |-> FALSE, refundTx |-> FALSE, since |-> 0]

Steps == {"idle", "step", "coupled", "arm", "retireArm", "armCoupled", "retireFail", "fail",
          "adopt", "poll", "gate", "lease", "fund", "notSubmitted", "retireRefuse", "refuse",
          "stamp", "confirm", "reveal", "patchRevealed", "search", "toRefunding", "toClaimed",
          "settle", "settleFailed", "markSettled", "findFunded", "refund", "finalize", "markRefunded"}

(* One tick: where it stands, the row it read, the E it was told, and whether *)
(* it funds against the send row.                                            *)
Job == [pc : Steps, row : Row, htlc : Expiries \cup {None}, coupled : BOOLEAN]
Idle == [pc |-> "idle", row |-> NewRow, htlc |-> None, coupled |-> FALSE]

Init ==
  /\ row = NewRow
  /\ job = [d \in Driver |-> Idle]
  /\ operator = "idle"
  /\ hold = "open" /\ expiry = None
  /\ payout = "none" /\ fundings = 0
  /\ send \in Peers
  /\ clock = 0
  /\ faults = 0

----------------------------------------------------------------------------
(* Store operations. *)

(* transition(): a compare-and-swap on the state column. *)
(* Mutant: an UPDATE without its WHERE state = from. *)
WonAlways(from) == TRUE
Won(from) == row.state = from
transition(from, new) == row' = IF Won(from) THEN new ELSE row

(* fail(): an operator looks where money is out, and nothing is lost where   *)
(* none is.                                                                  *)
(* Mutant: a state the machine does not have. *)
failStateUnknown(from) == IF from \in Exposed THEN "stuck" ELSE "failed"
failState(from) == IF from \in Exposed THEN "stuck" ELSE "refused"
fail(from) == transition(from, [row EXCEPT !.state = failState(from)])

(* Won by one caller before it spends. *)
(* Mutant: the lease is not tested for being free. *)
LeaseWonHeld == row.state = "armed"
LeaseWon == row.state = "armed" /\ ~row.lease
claimFundLease == row' = IF LeaseWon THEN [row EXCEPT !.lease = TRUE] ELSE row
releaseFundLease == row' = [row EXCEPT !.lease = FALSE]

At(d, pc) == job[d].pc = pc
AtStep(d, state) == At(d, "step") /\ job[d].row.state = state
Goto(d, pc) == job' = [job EXCEPT ![d].pc = pc]
Done(d) == job' = [job EXCEPT ![d] = Idle]

----------------------------------------------------------------------------
(* tick(): read the row and dispatch on its state. *)
Tick(d) ==
  /\ At(d, "idle")
  /\ row.state \in Live
  /\ job' = [job EXCEPT ![d] = [Idle EXCEPT !.pc = "step", !.row = row]]
  /\ UNCHANGED <<row, operator, ln, arkade, send, clock, faults>>

(* A refusal decided by an earlier step of the tick. *)
Fail(d) ==
  /\ At(d, "fail")
  /\ fail(job[d].row.state)
  /\ Done(d)
  /\ UNCHANGED <<operator, ln, arkade, send, clock, faults>>

(* whenQuoted: a real HTLC wins over everything... *)
whenQuoted(d) ==
  /\ AtStep(d, "quoted")
  /\ job' = [job EXCEPT ![d] = IF hold = "held" THEN [@ EXCEPT !.pc = "arm", !.htlc = expiry]
                               ELSE [@ EXCEPT !.pc = "coupled"]]
  /\ UNCHANGED <<row, operator, ln, arkade, send, clock, faults>>

Arm(d) ==
  /\ At(d, "arm")
  /\ transition("quoted", [row EXCEPT !.state = "armed", !.htlc = job[d].htlc])
  /\ Done(d)
  /\ UNCHANGED <<operator, ln, arkade, send, clock, faults>>

(* ...then a send row on the same hash, and only without one the invoice's   *)
(* expiry.                                                                   *)
QuotedCoupled(d) ==
  /\ At(d, "coupled")
  /\ job' = [job EXCEPT ![d] =
       CASE send \in {"short", "unsafe"} -> [@ EXCEPT !.pc = "fail"]
         [] send = "refused" -> [@ EXCEPT !.pc = "retireFail"]
         [] send = "funded" -> [@ EXCEPT !.pc = "retireArm"]
         [] send \in SendLive \ {"short", "unsafe", "refused", "funded"} -> Idle
         [] send \notin SendLive -> IF clock >= InvoiceBy THEN [@ EXCEPT !.pc = "retireFail"] ELSE Idle]
  /\ UNCHANGED <<row, operator, ln, arkade, send, clock, faults>>

(* retireInvoice: nothing should pay the invoice from here on.  The backend  *)
(* may not be able to, or fail; an HTLC that has arrived since is failed     *)
(* back.                                                                     *)
cancelHold == hold' = CASE hold = "open" -> "retired" [] hold = "held" -> "returned" [] OTHER -> hold
RetireNext == [retireArm |-> "armCoupled", retireFail |-> "fail", retireRefuse |-> "refuse"]
retireInvoice(d) ==
  /\ job[d].pc \in DOMAIN RetireNext
  /\ Goto(d, RetireNext[job[d].pc])
  /\ \/ CanCancel /\ cancelHold /\ UNCHANGED faults
     \/ ~CanCancel /\ UNCHANGED <<hold, faults>>
     \/ CanCancel /\ faults < MaxFaults /\ faults' = faults + 1 /\ UNCHANGED hold
  /\ UNCHANGED <<row, operator, expiry, arkade, send, clock>>

ArmCoupled(d) ==
  /\ At(d, "armCoupled")
  /\ transition("quoted", [row EXCEPT !.state = "armed", !.htlc = None])
  /\ Done(d)
  /\ UNCHANGED <<operator, ln, arkade, send, clock, faults>>

----------------------------------------------------------------------------
(* whenArmed. *)

(* Adoption runs first; then a funding whose answer was lost is waited for,  *)
(* until the refund deadline.                                                *)
whenArmed(d) ==
  /\ AtStep(d, "armed")
  /\ IF payout \in AtIndexer THEN Goto(d, "adopt") /\ UNCHANGED row
     ELSE IF ~job[d].row.lease THEN Goto(d, "poll") /\ UNCHANGED row
     ELSE /\ Done(d)
          /\ IF clock >= RefundAt THEN transition("armed", [row EXCEPT !.state = "stuck"])
             ELSE UNCHANGED row
  /\ UNCHANGED <<operator, ln, arkade, send, clock, faults>>

(* adoptFunding, and the end of a funding confirmed in its own tick. *)
Adopt(d) ==
  /\ At(d, "adopt")
  /\ transition("armed", [row EXCEPT !.state = "funded"])
  /\ Done(d)
  /\ UNCHANGED <<operator, ln, arkade, send, clock, faults>>

(* The hold is polled again, right before the money moves. *)
PollHold(d) ==
  /\ At(d, "poll")
  /\ job' = [job EXCEPT ![d].pc = "gate", ![d].htlc = IF hold = "held" THEN expiry ELSE None]
  /\ UNCHANGED <<row, operator, ln, arkade, send, clock, faults>>

(* Mutant: the gates were asked at arming time and are not asked again. *)
FundableAtArming(e) == TRUE

(* evaluateReceiveFunding. *)
Fundable(e) ==
  /\ clock < InvoiceBy
  /\ e # None
  /\ e - clock >= Window
  /\ RefundAt <= e - Margin

(* The gates: against the send row when no HTLC is held, else against E. *)
FundingGate(d) ==
  /\ At(d, "gate")
  /\ LET coupled == job[d].htlc = None /\ send \in SendLive
         pass == IF coupled THEN send \in {"funded", "split"} /\ clock < InvoiceBy
                 ELSE Fundable(job[d].htlc)
     IN job' = [job EXCEPT ![d].pc = IF pass THEN "lease" ELSE "fail", ![d].coupled = coupled]
  /\ UNCHANGED <<row, operator, ln, arkade, send, clock, faults>>

ClaimLease(d) ==
  /\ At(d, "lease")
  /\ claimFundLease
  /\ IF LeaseWon THEN Goto(d, "fund") ELSE Done(d)
  /\ UNCHANGED <<operator, ln, arkade, send, clock, faults>>

(* arkade.fund: submitted; refused before submission (no coins, below the    *)
(* minimum); or an error that leaves open whether it was submitted.          *)
Fund(d) ==
  /\ At(d, "fund")
  /\ \/ /\ payout' = "sent" /\ fundings' = fundings + 1
        /\ \/ Goto(d, IF ClaimPacket = "stamp" THEN "stamp" ELSE "confirm") /\ UNCHANGED faults
           \/ faults < MaxFaults /\ faults' = faults + 1 /\ Done(d)
     \/ Goto(d, "notSubmitted") /\ UNCHANGED <<arkade, faults>>
     \/ faults < MaxFaults /\ faults' = faults + 1 /\ Done(d) /\ UNCHANGED arkade
  /\ UNCHANGED <<row, operator, ln, send, clock>>

(* FundNotSubmittedError: the lease may be given back, or a coupled quote is *)
(* over.                                                                     *)
NotSubmitted(d) ==
  /\ At(d, "notSubmitted")
  /\ IF job[d].coupled THEN Goto(d, "retireRefuse") /\ UNCHANGED row
     ELSE Done(d) /\ releaseFundLease
  /\ UNCHANGED <<operator, ln, arkade, send, clock, faults>>

RefuseCoupled(d) ==
  /\ At(d, "refuse")
  /\ transition("armed", [row EXCEPT !.state = "refused", !.lease = FALSE])
  /\ Done(d)
  /\ UNCHANGED <<operator, ln, arkade, send, clock, faults>>

PatchStamped(d) ==
  /\ At(d, "stamp")
  /\ row' = [row EXCEPT !.stamped = TRUE]
  /\ Goto(d, "confirm")
  /\ UNCHANGED <<operator, ln, arkade, send, clock, faults>>

(* The funding is polled for until it shows, or the budget is spent. *)
ConfirmFunding(d) ==
  /\ At(d, "confirm")
  /\ IF payout \in AtIndexer THEN Goto(d, "adopt") ELSE Done(d)
  /\ UNCHANGED <<row, operator, ln, arkade, send, clock, faults>>

----------------------------------------------------------------------------
(* Mutant: the deadline is only checked once the payout is spent. *)
whenFundedNoDeadline(d) ==
  /\ AtStep(d, "funded")
  /\ IF payout # "up" THEN Goto(d, "search") ELSE Done(d)
  /\ UNCHANGED <<row, operator, ln, arkade, send, clock, faults>>

(* whenFunded: while the payout is unspent the deadline is checked first, and *)
(* only then is covclaimd told.                                              *)
whenFunded(d) ==
  /\ AtStep(d, "funded")
  /\ LET reveal == ClaimPacket # "none" /\ ~job[d].row.revealed /\ ~job[d].row.stamped
     IN IF payout # "up" THEN Goto(d, "search")
        ELSE IF clock >= RefundAt THEN Goto(d, "toRefunding")
        ELSE IF reveal THEN Goto(d, "reveal")
        ELSE Done(d)
  /\ UNCHANGED <<row, operator, ln, arkade, send, clock, faults>>

(* covclaimd may be unreachable for as long as it likes. *)
revealToCovclaimd(d) ==
  /\ At(d, "reveal")
  /\ Goto(d, "patchRevealed") \/ Done(d)
  /\ UNCHANGED <<row, operator, ln, arkade, send, clock, faults>>

PatchRevealed(d) ==
  /\ At(d, "patchRevealed")
  /\ row' = [row EXCEPT !.revealed = TRUE]
  /\ Done(d)
  /\ UNCHANGED <<operator, ln, arkade, send, clock, faults>>

(* Spent: the preimage can be read, or not yet. *)
SearchPreimage(d) ==
  /\ At(d, "search")
  /\ IF payout = "revealed" THEN Goto(d, "toClaimed")
     ELSE IF clock >= RefundAt THEN Goto(d, "toRefunding")
     ELSE Done(d)
  /\ UNCHANGED <<row, operator, ln, arkade, send, clock, faults>>

ToClaimed(d) ==
  /\ At(d, "toClaimed")
  /\ transition(job[d].row.state, [row EXCEPT !.state = "claimed", !.since = 0])
  /\ Done(d)
  /\ UNCHANGED <<operator, ln, arkade, send, clock, faults>>

ToRefunding(d) ==
  /\ At(d, "toRefunding")
  /\ transition("funded", [row EXCEPT !.state = "refunding", !.since = clock])
  /\ Done(d)
  /\ UNCHANGED <<operator, ln, arkade, send, clock, faults>>

----------------------------------------------------------------------------
(* whenClaimed: nothing to settle on a coupled swap; else the attempt is on  *)
(* disk before the call.                                                     *)
whenClaimed(d) ==
  /\ AtStep(d, "claimed")
  /\ IF job[d].row.htlc = None /\ send \in SendLive
     THEN Goto(d, "markSettled") /\ UNCHANGED row
     ELSE Goto(d, "settle") /\ row' = [row EXCEPT !.settleTried = TRUE]
  /\ UNCHANGED <<operator, ln, arkade, send, clock, faults>>

(* settleHold: settles what is held.  A repeat may be answered as an error,  *)
(* and so is everything else; an answer may be lost.                         *)
settleHold(d) ==
  /\ At(d, "settle")
  /\ \/ /\ hold \in {"held", "settled"} /\ hold' = "settled"
        /\ Goto(d, "markSettled") /\ UNCHANGED faults
     \/ /\ hold = "held" /\ faults < MaxFaults /\ faults' = faults + 1
        /\ hold' \in {"held", "settled"} /\ Goto(d, "settleFailed")
     \/ /\ hold # "held"
        /\ Goto(d, "settleFailed") /\ UNCHANGED <<hold, faults>>
  /\ UNCHANGED <<row, operator, expiry, arkade, send, clock>>

(* Mutant: an error on a repeat is taken for "already settled". *)
SettleFailedAssumes(d) ==
  /\ At(d, "settleFailed")
  /\ IF job[d].row.settleTried THEN Goto(d, "markSettled") ELSE Done(d)
  /\ UNCHANGED <<row, operator, ln, arkade, send, clock, faults>>

(* An error.  On a repeat it may mean "already settled", so the node is asked *)
(* (an answer that does not come counts as no); past E there is nothing left *)
(* to retry.                                                                 *)
SettleFailed(d) ==
  /\ At(d, "settleFailed")
  /\ LET settled == job[d].row.settleTried /\ hold = "settled"
         over == job[d].row.htlc = None \/ clock >= job[d].row.htlc
         giveUp == Done(d) /\ IF over THEN fail("claimed") ELSE UNCHANGED row
     IN \/ settled /\ Goto(d, "markSettled") /\ UNCHANGED <<row, faults>>
        \/ settled /\ faults < MaxFaults /\ faults' = faults + 1 /\ giveUp
        \/ ~settled /\ giveUp /\ UNCHANGED faults
  /\ UNCHANGED <<operator, ln, arkade, send, clock>>

MarkSettled(d) ==
  /\ At(d, "markSettled")
  /\ transition("claimed", [row EXCEPT !.state = "settled"])
  /\ Done(d)
  /\ UNCHANGED <<operator, ln, arkade, send, clock, faults>>

----------------------------------------------------------------------------
(* whenRefunding: a late claim is looked for before anything is pushed... *)
whenRefunding(d) ==
  /\ AtStep(d, "refunding")
  /\ Goto(d, IF payout = "revealed" THEN "toClaimed" ELSE "findFunded")
  /\ UNCHANGED <<row, operator, ln, arkade, send, clock, faults>>

FindFunded(d) ==
  /\ At(d, "findFunded")
  /\ Goto(d, IF payout = "up" THEN "refund" ELSE "finalize")
  /\ UNCHANGED <<row, operator, ln, arkade, send, clock, faults>>

(* finalizePendingRefund: the output is gone, by our own refund or by a claim *)
(* that cannot be read yet.  Only time tells the latter from an anomaly, and  *)
(* E is the last moment at which reading it is of use.                        *)
FinalizePendingRefund(d) ==
  /\ At(d, "finalize")
  /\ LET r == job[d].row
         wait == clock - r.since < EmptyGrace \/ (r.htlc # None /\ clock < r.htlc)
     IN IF payout \in {"refundPending", "refunded"}
        THEN payout' = "refunded" /\ Goto(d, "markRefunded") /\ UNCHANGED row
        ELSE UNCHANGED payout /\ Done(d) /\ IF wait THEN UNCHANGED row ELSE fail("refunding")
  /\ UNCHANGED <<operator, ln, fundings, send, clock, faults>>

(* ...and then the refund is pushed. *)
Refund(d) ==
  /\ At(d, "refund")
  /\ payout = "up" /\ payout' = "refunded"
  /\ Goto(d, "markRefunded")
  /\ UNCHANGED <<row, operator, ln, fundings, send, clock, faults>>

(* It fails: the client was first, or the server refuses or does not answer. *)
RefundFails(d) ==
  /\ At(d, "refund")
  /\ \/ payout # "up" /\ UNCHANGED <<payout, faults>>
     \/ payout = "up" /\ faults < MaxFaults /\ faults' = faults + 1
        /\ payout' \in {"up", "refundPending"}
  /\ IF clock - job[d].row.since >= CensorGrace THEN fail("refunding") ELSE UNCHANGED row
  /\ Done(d)
  /\ UNCHANGED <<operator, ln, fundings, send, clock>>

MarkRefunded(d) ==
  /\ At(d, "markRefunded")
  /\ transition("refunding", [row EXCEPT !.state = "refunded", !.refundTx = TRUE, !.since = 0])
  /\ Done(d)
  /\ UNCHANGED <<operator, ln, arkade, send, clock, faults>>

----------------------------------------------------------------------------
(* refundNow: the operator pushes the refund, whatever the ticks are doing. *)
refundNow ==
  /\ operator = "idle"
  /\ row.state \in Exposed \cup {"stuck"} /\ payout = "up"
  /\ operator' = "push"
  /\ UNCHANGED <<row, job, ln, arkade, send, clock, faults>>

PushRefund ==
  /\ operator = "push"
  /\ IF payout = "up" /\ clock >= RefundAt
     THEN payout' = "refunded" /\ operator' = "patch"
     ELSE UNCHANGED payout /\ operator' = "idle"
  /\ UNCHANGED <<row, job, ln, fundings, send, clock, faults>>

(* The row keeps its state; the write restarts the graces of `refunding`. *)
PatchRefundTx ==
  /\ operator = "patch"
  /\ row' = [row EXCEPT !.refundTx = TRUE, !.since = IF row.state = "refunding" THEN clock ELSE 0]
  /\ operator' = "idle"
  /\ UNCHANGED <<job, ln, arkade, send, clock, faults>>

----------------------------------------------------------------------------
(* A crash, or a call that throws: the tick is gone and nothing else. *)
Abandon(d) ==
  /\ ~At(d, "idle")
  /\ faults < MaxFaults
  /\ faults' = faults + 1
  /\ Done(d)
  /\ UNCHANGED <<row, operator, ln, arkade, send, clock>>

----------------------------------------------------------------------------
(* The environment. *)

PayerPays ==
  /\ hold = "open" /\ clock < InvoiceBy
  /\ \E e \in Expiries : clock < e /\ expiry' = e
  /\ hold' = "held"
  /\ UNCHANGED <<row, job, operator, arkade, send, clock, faults>>

(* At E the node fails the HTLC back. *)
HoldLapses ==
  /\ hold = "held" /\ clock >= expiry
  /\ hold' = "lapsed"
  /\ UNCHANGED <<row, job, operator, expiry, arkade, send, clock, faults>>

FundingShows ==
  /\ payout = "sent" /\ payout' = "up"
  /\ UNCHANGED <<row, job, operator, ln, fundings, send, clock, faults>>

ClaimReadable ==
  /\ payout = "taken" /\ payout' = "revealed"
  /\ UNCHANGED <<row, job, operator, ln, fundings, send, clock, faults>>

(* The client, or covclaimd for it, claims; the claim has no deadline. *)
ClientClaims ==
  /\ payout \in {"sent", "up"} /\ payout' = "taken"
  /\ UNCHANGED <<row, job, operator, ln, fundings, send, clock, faults>>

(* The send corridor drives its row: its client funds it or does not; while  *)
(* this row is live without an HTLC it waits for our preimage, and refuses   *)
(* once this row has recorded one; what it refused it refunds.               *)
SendMoves ==
  /\ \/ send = "quoted" /\ send' \in SendFundings \cup {"refused", "gone"}
     \/ send \in SendFunded /\ row.state # "refused" /\ row.htlc # None /\ send' = "refused"
     \/ send \in SendFunded /\ row.state # "refused" /\ row.htlc = None
        /\ payout = "revealed" /\ send' = "collecting"
     \/ send \in SendFunded /\ row.state = "refused" /\ ~row.lease /\ row.htlc = None
        /\ hold \in {"open", "retired", "returned", "lapsed"} /\ send' = "refused"
     \/ send = "short" /\ send' = "gone"
     \/ send = "refused" /\ send' = "gone"
  /\ UNCHANGED <<row, job, operator, ln, arkade, clock, faults>>

(* A driver between the gate and the call that moves the money. *)
Funding(d) == job[d].pc \in {"gate", "lease", "fund"}

(* Money is out against the HTLC, or about to be. *)
Committed ==
  \/ row.state \in Exposed
  \/ row.state = "armed" /\ row.lease
  \/ \E d \in Driver : Funding(d)

(* Time passes.  A funding has shown by the refund deadline, which is when a *)
(* lost one is given up; and where the process is attended, the safety margin *)
(* after that deadline is enough for it to have settled or refunded.         *)
Advance ==
  /\ clock < MaxTime
  /\ payout = "sent" => clock + 1 < RefundAt
  /\ Attended /\ hold = "held" /\ Committed => clock + 1 < RefundAt + Margin
  /\ clock' = clock + 1
  /\ UNCHANGED <<row, job, operator, ln, arkade, send, faults>>

----------------------------------------------------------------------------
DriverStep(d) ==
  \/ Tick(d) \/ Fail(d) \/ retireInvoice(d)
  \/ whenQuoted(d) \/ Arm(d) \/ QuotedCoupled(d) \/ ArmCoupled(d)
  \/ whenArmed(d) \/ Adopt(d) \/ PollHold(d) \/ FundingGate(d) \/ ClaimLease(d)
  \/ Fund(d) \/ NotSubmitted(d) \/ RefuseCoupled(d) \/ PatchStamped(d) \/ ConfirmFunding(d)
  \/ whenFunded(d) \/ revealToCovclaimd(d) \/ PatchRevealed(d) \/ SearchPreimage(d)
  \/ ToClaimed(d) \/ ToRefunding(d)
  \/ whenClaimed(d) \/ settleHold(d) \/ SettleFailed(d) \/ MarkSettled(d)
  \/ whenRefunding(d) \/ FindFunded(d) \/ FinalizePendingRefund(d)
  \/ Refund(d) \/ RefundFails(d) \/ MarkRefunded(d)

OperatorStep == refundNow \/ PushRefund \/ PatchRefundTx

Rails == HoldLapses \/ FundingShows \/ ClaimReadable

Environment == PayerPays \/ ClientClaims \/ SendMoves \/ Rails \/ Advance

Next == OperatorStep \/ Environment \/ \E d \in Driver : DriverStep(d) \/ Abandon(d)

Spec == Init /\ [][Next]_vars

----------------------------------------------------------------------------
(* Every variable keeps its type. *)
TypeOK ==
  /\ row \in Row
  /\ job \in [Driver -> Job]
  /\ operator \in {"idle", "push", "patch"}
  /\ hold \in HoldStates
  /\ expiry \in Expiries \cup {None}
  /\ payout \in PayoutStates
  /\ fundings \in Nat
  /\ send \in SendStates
  /\ clock \in Nat
  /\ faults \in Nat

(* The payout is funded at most once, over every crash between the call and  *)
(* the row, every lost answer, every retry, and by two processes at once.    *)
NeverFundedTwice == fundings <= 1

(* A payout that is out, spent or not, belongs to a row that says so: it is  *)
(* never one that was closed as refused, which nothing looks at again.       *)
PayoutNeverForgotten ==
  payout # "none" => row.state \notin {"quoted", "refused"}

(* What the client took is paid for: the HTLC is still held or settled, or   *)
(* the send lockup is ours to collect; else an operator has been called.     *)
NeverPaidForNothing ==
  payout \in {"taken", "revealed"} =>
    hold \in {"held", "settled"} \/ send \in SendFunded \cup {"collecting"} \/ row.state = "stuck"

(* The HTLC is only settled for a payout the client took, and what the row   *)
(* says happened, happened.                                                  *)
RowTellsTheTruth ==
  /\ hold = "settled" => payout = "revealed"
  /\ row.state = "settled" =>
       payout = "revealed" /\ (hold = "settled" \/ (row.htlc = None /\ send \in SendStates \ {"none"}))
  /\ row.state = "refunded" \/ row.refundTx => payout = "refunded"

(* No handler, however stale the row it works on, moves the row along an     *)
(* edge the state machine does not have.                                     *)
LegalEdges == [][row'.state # row.state => row'.state \in LnReceiveMachine[row.state]]_vars

(* A receive quote does not stay open, whatever covclaimd, the client or the  *)
(* payer do: it ends settled, refunded, refused, or with an operator.         *)
EveryReceiveResolves == <>(row.state \notin Live)

(* A payout the client has left alone comes back, or an operator has it. *)
PayoutComesBack == payout = "up" ~> (payout # "up" \/ row.state = "stuck")

(* A swap that was in fact paid is not parked as a failure: stated by         *)
(* whenClaimed's comment, which is why the settle attempt is on disk.         *)
SettledIsNotStuck == hold = "settled" => row.state # "stuck"

(* The two legs as the abstract swap sees them; of a hash with a send row on  *)
(* it, whose legs are not this row's alone, it sees nothing.                  *)
ClientLeg ==
  CASE send # "none" \/ hold \in {"open", "retired"} -> "none"
    [] OTHER -> CASE hold = "held" -> "locked"
                  [] hold = "settled" -> "collected"
                  [] hold = "returned" -> "returned"
                  [] hold = "lapsed" -> "clawedBack"

PayoutLeg ==
  CASE send # "none" \/ payout = "none" -> "none"
    [] OTHER -> CASE payout \in {"sent", "up"} -> "offered"
                  [] payout \in {"taken", "revealed"} -> "taken"
                  [] payout \in {"refundPending", "refunded"} -> "withdrawn"

(* Without a send row, every step of the corridor is a step of the abstract  *)
(* swap or none: nothing is offered unless the payer is locked in, and the    *)
(* HTLC is settled only for a payout that was taken.                         *)
Swap == INSTANCE AtomicSwap WITH client <- ClientLeg, payout <- PayoutLeg
ImplementsAtomicSwap == Swap!Spec

(* The process keeps ticking, the node and the indexer catch up, the send     *)
(* corridor moves and time passes.  Clients, payers, covclaimd and operators  *)
(* are not fair.                                                             *)
Fairness ==
  /\ \A d \in Driver : WF_vars(DriverStep(d))
  /\ WF_vars(Rails) /\ WF_vars(SendMoves) /\ WF_vars(Advance)

FairSpec == Spec /\ Fairness

----------------------------------------------------------------------------
(* What one attended process keeps whatever call fails: types, one funding, a payout the row knows of,
   no payout claimed for a hold that lapsed, a row that says what happened. *)
ReceiveIsSafe ==
  TypeOK /\ NeverFundedTwice /\ PayoutNeverForgotten /\ NeverPaidForNothing /\ RowTellsTheTruth
(* Every quote ends, and a payout that stands is taken, comes back or is left to an operator. *)
ReceiveEnds == EveryReceiveResolves /\ PayoutComesBack
============================================================================
