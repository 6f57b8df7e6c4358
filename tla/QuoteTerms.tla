----------------------------- MODULE QuoteTerms -----------------------------
(***************************************************************************)
(* The deadlines and amounts a quote fixes, in the five corridors, and the  *)
(* decisions taken on them later: core/timelocks.ts, core/send.ts,          *)
(* core/receive.ts, core/onchainSend.ts, core/evmSend.ts,                   *)
(* core/evmReceive.ts, evm/blockTime.ts, chainClock.ts, the invoice's       *)
(* hints and the fee arithmetic.                                            *)
(*                                                                          *)
(* A quote is written at one moment of two clocks, unix seconds and the     *)
(* height of the Bitcoin tip (EVM blocks for the EVM corridors), and acted  *)
(* on at a later one. Deployments differ in the server's exit delay, whose  *)
(* size tells whether the scripts count blocks or seconds, and in whether   *)
(* the Lightning rail caps the route it picks, which may change between.    *)
(***************************************************************************)
EXTENDS Integers, FiniteSets, FiniteSetsExt

CONSTANTS
  ExitDelays,      \* the server's exit delay as it reports it
  LockupTimeouts,  \* LOCKUP_TIMEOUT_SECONDS, at most MAX_LOCKUP_TIMEOUT
  Invoices,        \* [final, hints, expiry]: final CLTV delta, [cltv, denied] of each route hint, seconds left
  Fees,            \* [bps, flat, estimate, billable]: the corridor's fee and what the node says the route costs
  Cadences,        \* [fast, slow]: seconds per EVM block
  EvmValidity,     \* EvmValidity_SECONDS, at most 900
  Lockups,         \* sets of [id, share, life]: outputs at a lockup, in shares of Whole, and the seconds their batch lives
  EvmTimeouts,     \* how many EVM blocks ahead a client puts its timeout
  Pauses,          \* how many seconds pass at once
  Paces,           \* seconds per Bitcoin block while they pass
  MaxWaits         \* bound on how often time passes

VARIABLES
  house,           \* the deployment: exit delay, lockup timeout, EVM cadence, acceptUnilateralGap
  capped,          \* whether the Lightning rail caps the route
  at,              \* the moment: seconds, Bitcoin tip, EVM height, height the payer's HTLC times out at, waits so far
  terms            \* the quote, or NoTerms
termsVars == <<house, capped, at, terms>>

NoTerms == [kind |-> "none"]
Start == [now |-> 1700000000, tip |-> 800000, evm |-> 1000, htlc |-> 0, waits |-> 0]
Ceil(a, b) == -((-a) \div b)
Most(a, b) == IF a >= b THEN a ELSE b
Least(a, b) == IF a <= b THEN a ELSE b

----------------------------------------------------------------------------
(* core/timelocks.ts *)
LOCKTIME_THRESHOLD == 500000000
GRANULARITY == 512                                    \* SEQUENCE_GRANULARITY_SECONDS
BLOCK == 600                                          \* NOMINAL_BLOCK_SECONDS, SECONDS_PER_BLOCK
HEADROOM == 8                                         \* SOLO_REFUND_HEADROOM_BLOCKS, and in granules
MAX_BIP68_SECONDS == 65535 * GRANULARITY
MAX_BIP68_BLOCKS == GRANULARITY - HEADROOM - 1
Unit(raw) == IF raw >= GRANULARITY THEN "seconds" ELSE "blocks"
rawDelaySeconds(raw) == IF Unit(raw) = "seconds" THEN raw ELSE raw * BLOCK
isEncodableDelay(raw) == raw > 0 /\ (Unit(raw) = "seconds" => raw % GRANULARITY = 0)
ceilToGranularity(s) == Ceil(s, GRANULARITY) * GRANULARITY
secondsForBlockRung(blocks) == ceilToGranularity(blocks * BLOCK)
Ladder(claim, solo) == [claim |-> claim, refund |-> claim, solo |-> solo]
Servable(exit) == exit > 0 /\ exit <= (IF Unit(exit) = "blocks" THEN MAX_BIP68_BLOCKS ELSE MAX_BIP68_SECONDS)
deriveUnilateralDelays(exit) ==
  IF Unit(exit) = "blocks" THEN Ladder(exit, exit + HEADROOM)
  ELSE Ladder(ceilToGranularity(exit), ceilToGranularity(exit) + HEADROOM * GRANULARITY)
absoluteLocktimeUnit(locktime) == IF locktime >= LOCKTIME_THRESHOLD THEN "seconds" ELSE "blocks"
absoluteLocktimeSeconds(locktime, m) ==
  IF absoluteLocktimeUnit(locktime) = "seconds" THEN locktime ELSE m.now + (locktime - m.tip) * BLOCK
absoluteLocktimeIn(deadline, unit, m) ==
  IF unit = "seconds" THEN deadline ELSE m.tip + Ceil(deadline - m.now, BLOCK)
absoluteLocktimeFor(deadline, delay, m) == absoluteLocktimeIn(deadline, Unit(delay), m)

----------------------------------------------------------------------------
(* core/send.ts, invoice/decode.ts, corridorPolicy.ts *)
MIN_INVOICE_WINDOW == 120
MIN_CLAIM_WINDOW == 5400
REFUND_SAFETY_MARGIN == 7200
MAX_CLIENT_CLTV_BLOCKS == 288
routeCltvBudgetBlocks(capping) == IF capping THEN 432 ELSE 2016

hintTotals(invoice) == {hint.cltv : hint \in {h \in invoice.hints : ~h.denied}}
worstHint(invoice) == Max(hintTotals(invoice) \cup {0})
bestHint(invoice) == IF hintTotals(invoice) = {} THEN 0 ELSE Min(hintTotals(invoice))
decodeInvoice(invoice) == invoice.final + bestHint(invoice) <= MAX_CLIENT_CLTV_BLOCKS
hintCltvBlocks(invoice, capping) == IF capping THEN bestHint(invoice) ELSE worstHint(invoice)
worstCaseHtlcBlocks(invoice, capping) ==
  invoice.final + hintCltvBlocks(invoice, capping) + routeCltvBudgetBlocks(capping)
payableCltvBlocks(invoice, capping, deadline, now) ==
  Least(worstCaseHtlcBlocks(invoice, capping), (deadline - now - REFUND_SAFETY_MARGIN) \div BLOCK)
deadlineContainsHtlc(invoice, capping, deadline, now) ==
  payableCltvBlocks(invoice, capping, deadline, now) >= worstCaseHtlcBlocks(invoice, capping)
lockupDeadlineFor(quotedAt, expiresAt, timeout) == Least(quotedAt + timeout, expiresAt - MIN_INVOICE_WINDOW)
(* Mutant: the time the client has to fund is not added. *)
refundLocktimeForNoWindow(invoice, capping, claimDelay, now, timeout) ==
  Most(now + worstCaseHtlcBlocks(invoice, capping) * BLOCK + REFUND_SAFETY_MARGIN,
       now + rawDelaySeconds(claimDelay) + REFUND_SAFETY_MARGIN)
refundLocktimeFor(invoice, capping, claimDelay, now, timeout) ==
  Most(now + worstCaseHtlcBlocks(invoice, capping) * BLOCK + (IF capping THEN 0 ELSE timeout) + REFUND_SAFETY_MARGIN,
       now + rawDelaySeconds(claimDelay) + REFUND_SAFETY_MARGIN)
unilateralLadderFor(base, refundLocktime, quotedAt) ==
  LET horizon == Most(0, refundLocktime - quotedAt)
      blocks == Most(base.solo, Ceil(horizon, BLOCK))
  IN IF Unit(base.claim) = "seconds" THEN [base EXCEPT !.solo = Most(@, ceilToGranularity(horizon))]
     ELSE IF blocks < GRANULARITY THEN [base EXCEPT !.solo = blocks]
     ELSE Ladder(secondsForBlockRung(base.claim), Most(secondsForBlockRung(base.solo), ceilToGranularity(horizon)))
Encodable(ladder) == isEncodableDelay(ladder.solo) /\ ladder.solo <= MAX_BIP68_SECONDS
refundWithoutReceiverDelayCovers(delay, deadline, quotedAt) == rawDelaySeconds(delay) >= deadline - quotedAt

feeSatsFor(sats, bps, flat) == Ceil(sats * bps, 10000) + flat
payoutSatsFor(give, bps, flat) == give - feeSatsFor(give, bps, flat)
giveSatsFor(payout, bps, flat) ==
  LET first == Ceil((payout + flat) * 10000, 10000 - bps)
  IN Min({give \in first..(first + 2) : payoutSatsFor(give, bps, flat) >= payout})
(* With an estimate, the flat part is what is billable of it, or what the corridor's rate leaves uncovered. *)
NoEstimate == -1
quoteFlat(sats, fee) ==
  IF fee.estimate = NoEstimate THEN fee.flat ELSE Most(fee.billable, fee.estimate - Ceil(sats * fee.bps, 10000))

Amount == 1000
QuoteSend(invoice, fee) ==
  LET delays == deriveUnilateralDelays(house.exit)
      expiresAt == at.now + invoice.expiry
      fundBy == lockupDeadlineFor(at.now, expiresAt, house.timeout)
      deadline == refundLocktimeFor(invoice, capped, delays.claim, at.now, house.timeout)
      ladder == unilateralLadderFor(delays, deadline, at.now)
  IN /\ terms.kind = "none" /\ decodeInvoice(invoice)
     /\ fundBy > at.now
     /\ ~capped => invoice.final + worstHint(invoice) <= MAX_CLIENT_CLTV_BLOCKS
     /\ Encodable(ladder)
     /\ terms' = [kind |-> "send", quoted |-> at, invoice |-> invoice, expiresAt |-> expiresAt, fundBy |-> fundBy,
                  rail |-> capped, deadline |-> deadline, ladder |-> ladder, fee |-> fee,
                  refundLocktime |-> absoluteLocktimeFor(deadline, ladder.claim, at),
                  give |-> giveSatsFor(Amount, fee.bps, quoteFlat(Amount, fee))]
     /\ UNCHANGED <<house, capped, at>>
(* The same payment hash is a receive of the solver's own that is still only quoted: no route, and the send side may *)
(* be refunded only a claim window after the receive side. *)
evaluateCouplingDeadlines(send, receive) == send >= receive + MIN_CLAIM_WINDOW
QuoteCoupled ==
  LET delays == deriveUnilateralDelays(house.exit)
      receive == absoluteLocktimeSeconds(terms.refundLocktime, at)
      claimable == at.now + rawDelaySeconds(delays.claim) + REFUND_SAFETY_MARGIN
      deadline == Most(claimable, receive + MIN_CLAIM_WINDOW)
      fundBy == lockupDeadlineFor(at.now, terms.expiresAt, house.timeout)
      ladder == unilateralLadderFor(delays, deadline, at.now)
  IN /\ terms.kind = "receive" /\ at.htlc = 0 /\ fundBy > at.now
     /\ evaluateCouplingDeadlines(deadline, receive) /\ Encodable(ladder)
     /\ terms' = [kind |-> "coupled", quoted |-> at, fundBy |-> fundBy, deadline |-> deadline, ladder |-> ladder,
                  refundLocktime |-> absoluteLocktimeFor(deadline, ladder.claim, at), receive |-> terms.refundLocktime]
     /\ UNCHANGED <<house, capped, at>>
(* The batches of the latest outputs that make up the funding bound the refund deadline; later ones add nothing. *)
Whole == 2
Shares(outputs) == MapThenSumSet(LAMBDA o : o.share, outputs)
Covering(outputs) == {o \in outputs : Shares({p \in outputs : p.life > o.life}) < Whole}
payDeadline(outputs, deadline) ==
  IF Shares(outputs) < Whole THEN at.now ELSE Min({deadline} \cup {terms.quoted.now + o.life : o \in Covering(outputs)})
(* evaluateSendPayment on a lockup that holds the whole amount, then submitPayment's own checks. *)
SendDeadline(outputs) == payDeadline(outputs, absoluteLocktimeSeconds(terms.refundLocktime, at))
SendPays(outputs) ==
  LET deadline == SendDeadline(outputs)
      budget == payableCltvBlocks(terms.invoice, capped, deadline, at.now)
  IN /\ terms.expiresAt - at.now >= MIN_INVOICE_WINDOW
     /\ deadline - at.now >= MIN_CLAIM_WINDOW
     /\ budget > terms.invoice.final + hintCltvBlocks(terms.invoice, capped)
     /\ ~capped => deadlineContainsHtlc(terms.invoice, capped, deadline, at.now)
     /\ refundWithoutReceiverDelayCovers(terms.ladder.solo, terms.deadline, terms.quoted.now)
(* How many blocks the payment made now may stay in flight. *)
HtlcBlocks(outputs) ==
  IF capped THEN payableCltvBlocks(terms.invoice, capped, SendDeadline(outputs), at.now)
            ELSE worstCaseHtlcBlocks(terms.invoice, capped)

----------------------------------------------------------------------------
(* core/receive.ts *)
MIN_SETTLE_WINDOW == 5400
SETTLE_SAFETY_MARGIN == 900
RECOURSE_MARGIN == 1800                               \* UNILATERAL_RECOURSE_MARGIN
MAX_REFUND_HORIZON == 7200
MAX_FINAL_CLTV_BLOCKS == 2016
HTLC_BLOCK == 150                                     \* HTLC_SECONDS_PER_BLOCK
HOLD_WINDOW == MAX_REFUND_HORIZON - MIN_CLAIM_WINDOW  \* DEFAULT_HOLD_INVOICE_WINDOW
minHtlcWindowFor(solo) ==
  Max({MIN_SETTLE_WINDOW, MAX_REFUND_HORIZON + SETTLE_SAFETY_MARGIN,
       IF house.gap THEN 0 ELSE rawDelaySeconds(solo) + RECOURSE_MARGIN})
minFinalCltvBlocksFor(solo) == Ceil(minHtlcWindowFor(solo), HTLC_BLOCK)
htlcDeadlineFromHeight(timeoutHeight, m) == m.now + (timeoutHeight - m.tip) * HTLC_BLOCK

QuoteReceive ==
  LET delays == deriveUnilateralDelays(house.exit)
  IN /\ terms.kind = "none"
     /\ minFinalCltvBlocksFor(delays.solo) <= MAX_FINAL_CLTV_BLOCKS
     /\ terms' = [kind |-> "receive", quoted |-> at, expiresAt |-> at.now + HOLD_WINDOW, ladder |-> delays,
                  refundLocktime |-> absoluteLocktimeFor(at.now + MAX_REFUND_HORIZON, delays.claim, at),
                  final |-> minFinalCltvBlocksFor(delays.solo)]
     /\ UNCHANGED <<house, capped, at>>
(* External: the payer's HTLC arrives with the CLTV the invoice asks for, before the invoice expires. *)
PayerPays ==
  /\ terms.kind = "receive" /\ at.htlc = 0 /\ at.now < terms.expiresAt
  /\ at' = [at EXCEPT !.htlc = at.tip + terms.final]
  /\ UNCHANGED <<house, capped, terms>>
ReceiveFunds ==
  LET expires == htlcDeadlineFromHeight(at.htlc, at)
  IN /\ at.htlc # 0 /\ at.now < terms.expiresAt
     /\ expires - at.now >= MIN_SETTLE_WINDOW
     /\ absoluteLocktimeSeconds(terms.refundLocktime, at) <= expires - SETTLE_SAFETY_MARGIN
     /\ ~house.gap => at.now + rawDelaySeconds(terms.ladder.solo) + RECOURSE_MARGIN <= expires

----------------------------------------------------------------------------
(* core/onchainSend.ts *)
ONCHAIN_CLAIM_MARGIN == 5400
ONCHAIN_ORDER_MARGIN == 7200
HTLC_REFUND_MTP_MARGIN == 5400
ARKADE_CLAIM_WINDOW == 5400
MIN_ONCHAIN_FUND_WINDOW == 5400
DEFAULT_MIN_CONFIRMATIONS == 1                        \* what a quote asks for: the request names none
htlcLocktimeFor(conf, now) == now + conf * BLOCK + 2 * ONCHAIN_CLAIM_MARGIN
arkadeClaimDeadline(htlcLocktime) == htlcLocktime + HTLC_REFUND_MTP_MARGIN + ARKADE_CLAIM_WINDOW
onchainRefundLocktimeFor(htlcLocktime, claimDelay, now) ==
  Max({htlcLocktime + 2 * ONCHAIN_ORDER_MARGIN, now + rawDelaySeconds(claimDelay) + ONCHAIN_ORDER_MARGIN,
       arkadeClaimDeadline(htlcLocktime)})
QuoteOnchain ==
  LET delays == deriveUnilateralDelays(house.exit)
      conf == DEFAULT_MIN_CONFIRMATIONS
      htlc == htlcLocktimeFor(conf, at.now)
      ladder == unilateralLadderFor(delays, arkadeClaimDeadline(htlc), at.now)
  IN /\ terms.kind = "none" /\ Encodable(ladder)
     /\ terms' = [kind |-> "onchain", quoted |-> at, conf |-> conf, htlcLocktime |-> htlc, ladder |-> ladder,
                  fundBy |-> at.now + 900, refundLocktime |-> onchainRefundLocktimeFor(htlc, delays.claim, at.now)]
     /\ UNCHANGED <<house, capped, at>>
OnchainFunds ==
  /\ at.now < terms.refundLocktime - MIN_ONCHAIN_FUND_WINDOW
  /\ terms.htlcLocktime - at.now > terms.conf * BLOCK + ONCHAIN_CLAIM_MARGIN

----------------------------------------------------------------------------
(* core/evmSend.ts, core/evmReceive.ts, evm/blockTime.ts *)
EVM_ORDER_MARGIN == 7200
EVM_MIN_CLAIM_WINDOW == 1800
EVM_MAX_CLIENT_TIMEOUT == 86400
deadlineSecondsForBlock(block, m) == m.now + (block - m.evm) * house.cadence.fast
blocksForDuration(seconds) == Most(1, seconds \div house.cadence.slow)
evaluateEvmSendLock(evmTimeout, refundLocktime, now) ==
  /\ evmTimeout > now
  /\ now + EVM_MIN_CLAIM_WINDOW <= evmTimeout
  /\ evmTimeout <= refundLocktime - EVM_ORDER_MARGIN
QuoteEvmSend ==
  LET delays == deriveUnilateralDelays(house.exit)
      refund == at.now + Most(delays.claim, EVM_MIN_CLAIM_WINDOW) + EVM_ORDER_MARGIN
      timeout == refund - EVM_ORDER_MARGIN
  IN /\ terms.kind = "none" /\ evaluateEvmSendLock(timeout, refund, at.now)
     /\ terms' = [kind |-> "evmSend", quoted |-> at, refundLocktime |-> refund,
                  timeoutBlock |-> at.evm + blocksForDuration(timeout - at.now),
                  validUntil |-> at.now + EvmValidity]
     /\ UNCHANGED <<house, capped, at>>
(* planEvmSend on a funded lockup. *)
EvmSendLocks == at.now < terms.validUntil
evaluateEvmReceiveFund(evmTimeout, refundLocktime, now) ==
  /\ evmTimeout > now + EVM_ORDER_MARGIN
  /\ evmTimeout <= now + EVM_MAX_CLIENT_TIMEOUT
  /\ now + EVM_MIN_CLAIM_WINDOW <= refundLocktime
  /\ refundLocktime <= evmTimeout - EVM_ORDER_MARGIN
QuoteEvmReceive(blocks) ==
  LET timeout == deadlineSecondsForBlock(at.evm + blocks, at)
      refund == timeout - EVM_ORDER_MARGIN
  IN /\ terms.kind = "none" /\ evaluateEvmReceiveFund(timeout, refund, at.now)
     /\ terms' = [kind |-> "evmReceive", quoted |-> at, refundLocktime |-> refund, timeoutBlock |-> at.evm + blocks,
                  validUntil |-> at.now + EvmValidity]
     /\ UNCHANGED <<house, capped, at>>
(* planEvmReceive on a lock confirmed and old enough, and the second look of the step. *)
EVM_RECEIVE_CLAIM_MARGIN_BLOCKS == 60
evmReceiveFundWindowClosed == at.evm + EVM_RECEIVE_CLAIM_MARGIN_BLOCKS >= terms.timeoutBlock
EvmReceiveFunds == at.now < terms.validUntil /\ ~evmReceiveFundWindowClosed

----------------------------------------------------------------------------
(* Time passes: Bitcoin blocks at any of the paces, EVM blocks inside the cadence the chain was configured with. *)
Wait(seconds, pace, slowly) ==
  LET elapsed == at.now + seconds - terms.quoted.now
      low == terms.quoted.evm + elapsed \div house.cadence.slow
      high == terms.quoted.evm + elapsed \div house.cadence.fast
  IN /\ terms.kind # "none" /\ at.waits < MaxWaits
     /\ at' = [at EXCEPT !.now = @ + seconds, !.tip = @ + seconds \div pace, !.waits = @ + 1,
                         !.evm = IF slowly THEN Most(@, low) ELSE high]
     /\ UNCHANGED <<house, capped, terms>>
(* External: the rail is replaced by one that caps the routes it picks, or by one that does not. *)
SwitchRail == terms.kind = "send" /\ capped' = ~capped /\ UNCHANGED <<house, at, terms>>

TermsInit ==
  /\ house \in [exit : {e \in ExitDelays : Servable(e)}, timeout : LockupTimeouts, cadence : Cadences,
               gap : BOOLEAN]
  /\ capped \in BOOLEAN /\ at = Start /\ terms = NoTerms
TermsNext ==
  \/ \E invoice \in Invoices, fee \in Fees : QuoteSend(invoice, fee)
  \/ QuoteReceive \/ PayerPays \/ QuoteCoupled
  \/ QuoteOnchain
  \/ QuoteEvmSend
  \/ \E blocks \in EvmTimeouts : QuoteEvmReceive(blocks)
  \/ \E seconds \in Pauses, pace \in Paces, slowly \in BOOLEAN : Wait(seconds, pace, slowly)
  \/ SwitchRail
TermsSpec == TermsInit /\ [][TermsNext]_termsVars

----------------------------------------------------------------------------
(* A client that funds within the window it was given is paid for, whatever else lies at the address, unless the *)
(* rail changed, blocks came fast or its own coins are short-lived. *)
SendPayableInTime ==
  terms.kind = "send" /\ at.now <= terms.fundBy /\ capped = terms.rail
    /\ (at.tip - terms.quoted.tip) * BLOCK <= at.now - terms.quoted.now =>
    \A outputs \in Lockups :
      Shares({o \in outputs : terms.quoted.now + o.life >= terms.deadline + BLOCK}) >= Whole => SendPays(outputs)
(* Whatever the rail and the pace since, a payment made now is over, at the nominal pace, a margin before the client's *)
(* refund, and before the batches end of outputs worth the whole amount. *)
HtlcEndsBeforeRefund ==
  terms.kind = "send" => \A outputs \in Lockups : SendPays(outputs) =>
    LET over == at.now + HtlcBlocks(outputs) * BLOCK + REFUND_SAFETY_MARGIN
    IN /\ IF absoluteLocktimeUnit(terms.refundLocktime) = "seconds" THEN over <= terms.refundLocktime
          ELSE at.tip + HtlcBlocks(outputs) + REFUND_SAFETY_MARGIN \div BLOCK <= terms.refundLocktime
       /\ Shares({o \in outputs : terms.quoted.now + o.life >= over}) >= Whole
(* The three delays of a script are encodable, count the same thing and are ordered; the client's lone exit comes *)
(* after the last moment the solver may still need the lockup. *)
LadderHolds ==
  terms.kind \in {"send", "receive", "coupled", "onchain"} =>
    LET l == terms.ladder
    IN /\ {Unit(l.claim), Unit(l.refund)} = {Unit(l.solo)} /\ l.claim <= l.refund /\ l.refund < l.solo
       /\ isEncodableDelay(l.claim) /\ isEncodableDelay(l.solo) /\ l.solo <= MAX_BIP68_SECONDS
       /\ terms.kind \in {"send", "coupled"} => refundWithoutReceiverDelayCovers(l.solo, terms.deadline, terms.quoted.now)
       /\ terms.kind = "onchain" =>
            refundWithoutReceiverDelayCovers(l.solo, arkadeClaimDeadline(terms.htlcLocktime), terms.quoted.now)
(* An HTLC that has just arrived with the CLTV the invoice asked for is one the solver will pay out against. *)
ReceiveFundable ==
  terms.kind = "receive" /\ at.htlc = at.tip + terms.final /\ at.now < terms.expiresAt => ReceiveFunds
(* The solver can fund the HTLC until the client's funding window ends, and its last claim comes before the refund. *)
OnchainInOrder ==
  terms.kind = "onchain" =>
    /\ at.now <= terms.fundBy => OnchainFunds
    /\ OnchainFunds => at.now + terms.conf * BLOCK + ONCHAIN_CLAIM_MARGIN < terms.htlcLocktime
    /\ arkadeClaimDeadline(terms.htlcLocktime) <= terms.refundLocktime
(* While the chain keeps its cadence: the solver's ERC20 lock is refundable a margin before the client can take the *)
(* Arkade sats back, and the solver's Arkade refund opens a margin before the client's ERC20 lock times out; *)
(* whoever holds a payout made inside the quote's validity has time left to claim it. *)
EvmInOrder ==
  /\ terms.kind = "evmSend" =>
       /\ at.now >= terms.refundLocktime - EVM_ORDER_MARGIN => at.evm >= terms.timeoutBlock
       /\ EvmSendLocks => at.evm < terms.timeoutBlock
  /\ terms.kind = "evmReceive" =>
       /\ at.now <= terms.refundLocktime + EVM_ORDER_MARGIN => at.evm <= terms.timeoutBlock
       /\ EvmReceiveFunds => at.now + EVM_MIN_CLAIM_WINDOW - EvmValidity < terms.refundLocktime
(* The send side of a coupled swap stays locked a claim window longer than the receive side, whatever the pace of *)
(* the blocks: nobody is paid by the receive who can still take the send back. *)
CoupledInOrder ==
  terms.kind = "coupled" =>
    LET unit == absoluteLocktimeUnit(terms.refundLocktime)
    IN IF unit = absoluteLocktimeUnit(terms.receive)
       THEN terms.refundLocktime >= terms.receive + (IF unit = "seconds" THEN MIN_CLAIM_WINDOW ELSE MIN_CLAIM_WINDOW \div BLOCK)
       ELSE (at.tip - terms.quoted.tip) * BLOCK >= at.now - terms.quoted.now =>
              absoluteLocktimeSeconds(terms.receive, at) + MIN_CLAIM_WINDOW <= terms.refundLocktime
(* The client gives the least amount that leaves the invoice's after the fee, and the fee covers the node's estimate. *)
FeesCover ==
  terms.kind = "send" =>
    LET flat == quoteFlat(Amount, terms.fee)
    IN /\ payoutSatsFor(terms.give, terms.fee.bps, flat) >= Amount
       /\ payoutSatsFor(terms.give - 1, terms.fee.bps, flat) < Amount
       /\ terms.give - Amount >= terms.fee.estimate
(* Every number a quote fixes leaves the solver and the client the time and the money the swap needs. *)
TermsHold ==
  /\ SendPayableInTime /\ HtlcEndsBeforeRefund /\ LadderHolds /\ ReceiveFundable
  /\ CoupledInOrder /\ OnchainInOrder /\ EvmInOrder /\ FeesCover

=============================================================================
