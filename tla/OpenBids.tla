------------------------------ MODULE OpenBids ------------------------------
(***************************************************************************)
(* What a stranger may make the solver spend before any swap exists: quotes *)
(* per requester (core/rateLimit.ts) and bids on broadcast requests         *)
(* (core/openRfq.ts, the OpenRfqBidder of ingress/relay.ts), with the price *)
(* a bid commits the corridor's quotes to (core/corridorPolicy.ts).         *)
(*                                                                          *)
(* Time is a whole number of Minute-ths, of which a refill adds PerMinute   *)
(* parts of a token each; a token is Minute parts.                          *)
(***************************************************************************)
EXTENDS Integers, Sequences, FiniteSets, FiniteSetsExt, SequencesExt

CONSTANTS
  Keys,        \* requesters
  Limit,       \* QUOTE_RATE_LIMIT
  Window,      \* QUOTE_RATE_WINDOW_SECONDS
  MaxKeys,     \* MAX_TRACKED_KEYS
  PerMinute,   \* maxBidsPerMinute
  Minute,      \* 60_000
  Validity,    \* BID_VALIDITY
  MaxAge,      \* OPEN_RFQ_MAX_AGE_MS
  Opens,       \* [pair, until, age, size, side, amount, low, high]: broadcasts
  Fees,        \* [bps, flat] a deployment may charge
  Limits,       \* [min, max]: the corridor's limits, on what it pays out
  MaxTime,     \* bound on the clock
  MaxTakes     \* bound on the quotes asked for and the broadcasts answered

VARIABLES
  windows,        \* the limiter's map: [key, start, count], oldest first
  granted,        \* granted[k][t]: takes of k allowed at t (history)
  fee,            \* the corridor's fee, fixed at boot
  tokens, lastAt, \* the bid bucket
  bids,           \* bids published, with the broadcast each answers
  now,
  asks            \* requests and broadcasts so far

openVars == <<windows, granted, fee, tokens, lastAt, bids, now, asks>>
NoUntil == 0

BidsInit ==
  /\ windows = <<>> /\ granted = [k \in Keys |-> [t \in 0..MaxTime |-> 0]] /\ fee \in Fees
  /\ tokens = PerMinute * Minute /\ lastAt = 0 /\ bids = <<>> /\ now = 0 /\ asks = 0

-----------------------------------------------------------------------------
(* RateLimiter. *)
Live(w) == now - w.start < Window
(* Drop expired windows; if the map is still full, the oldest half of it. *)
prune(ws) ==
  LET live == SelectSeq(ws, Live)
  IN IF Len(live) < MaxKeys THEN live ELSE SubSeq(live, Len(live) - MaxKeys \div 2 + 1, Len(live))
Tracked(ws) == IF Len(ws) >= MaxKeys THEN prune(ws) ELSE ws
(* A fresh or lapsed key starts a window at the back; a live one counts up to the limit. *)
Grant(k) == granted' = [granted EXCEPT ![k][now] = @ + 1]
take(k) ==
  /\ asks < MaxTakes /\ asks' = asks + 1
  /\ \E ws \in {Tracked(windows)} :
       \/ /\ \A i \in DOMAIN ws : ws[i].key = k => ~Live(ws[i])
          /\ windows' = Append(SelectSeq(ws, LAMBDA w : w.key # k), [key |-> k, start |-> now, count |-> 1])
          /\ Grant(k)
       \/ \E i \in DOMAIN ws :
            /\ ws[i].key = k /\ Live(ws[i])
            /\ IF ws[i].count >= Limit THEN windows' = ws /\ UNCHANGED granted
               ELSE windows' = [ws EXCEPT ![i].count = @ + 1] /\ Grant(k)
  /\ UNCHANGED <<fee, tokens, lastAt, bids, now>>

-----------------------------------------------------------------------------
(* The corridor's fee arithmetic: a share of what the client gives, rounded up, and a flat part. *)
Ceil(a, b) == (a + b - 1) \div b
feeSatsFor(give) == Ceil(give * fee.bps, 10000) + fee.flat
payoutSatsFor(give) == give - feeSatsFor(give)
giveSatsFor(payout) ==
  LET first == Ceil((payout + fee.flat) * 10000, 10000 - fee.bps)
  IN CHOOSE give \in first .. first + 2 : payoutSatsFor(give) >= payout /\ \A less \in first .. give - 1 : payoutSatsFor(less) < payout

(* decideOpenRfqBid: served, in time, of a size the corridor pays out. *)
InTime(open) == IF open.until # NoUntil THEN now <= open.until ELSE open.age <= MaxAge
ToAmount(open) == IF open.side = "to" THEN open.amount ELSE ((open.amount - fee.flat) * 10000) \div (10000 + fee.bps)
Servable(open) ==
  IF open.size = "amount"
    THEN /\ open.side = "to" \/ open.amount > fee.flat
         /\ ToAmount(open) \in Limits.min .. Limits.max
    ELSE open.high >= Limits.min /\ open.low <= Limits.max
decideOpenRfqBid(open) == open.pair = "served" /\ InTime(open) /\ Servable(open)
Terms == [bps |-> fee.bps, flat |-> fee.flat, min |-> Limits.min, max |-> Limits.max, until |-> now + Validity]

(* Mutant: what the bucket holds is not capped. *)
RefilledFreely == tokens + Max({0, now - lastAt}) * PerMinute
(* tokenBucket: a minute's worth at most, nothing for a clock that went back. *)
Refilled == Min({PerMinute * Minute, tokens + Max({0, now - lastAt}) * PerMinute})
(* handleOpenRfq: silence, or one token and a bid. *)
handleOpenRfq(open) ==
  /\ asks < MaxTakes /\ asks' = asks + 1
  /\ IF ~decideOpenRfqBid(open) THEN UNCHANGED <<tokens, lastAt, bids>>
     ELSE /\ lastAt' = now
          /\ IF Refilled < Minute THEN tokens' = Refilled /\ UNCHANGED bids
             ELSE tokens' = Refilled - Minute /\ bids' = Append(bids, [at |-> now, open |-> open, terms |-> Terms])
  /\ UNCHANGED <<windows, granted, fee, now>>

Tick == now < MaxTime /\ now' = now + 1 /\ UNCHANGED <<windows, granted, fee, tokens, lastAt, bids, asks>>

(* The limiter and the bidder share nothing but the clock and the fee. *)
LimiterNext == (\E k \in Keys : take(k)) \/ Tick
BidderNext == (\E open \in Opens : handleOpenRfq(open)) \/ Tick
BidderSpec == BidsInit /\ [][BidderNext]_openVars

-----------------------------------------------------------------------------
(* Takes of k in the last d instants. *)
Taken(k, d) == MapThenSumSet(LAMBDA t : granted[k][t], {t \in 0..now : t > now - d})
(* RateLimiter: a requester gets past two windows' budgets in one window's time only by costing half the table's
   worth of other requesters a quote, and the table never outgrows its bound. *)
QuotesAreRationed ==
  /\ Len(windows) <= MaxKeys
  /\ \A k \in Keys : Taken(k, Window) > 2 * Limit =>
       Cardinality({j \in Keys \ {k} : Taken(j, 2 * Window) > 0}) >= MaxKeys \div 2
(* tokenBucket: over any stretch, a burst and the refill. *)
BidsAreRationed ==
  \A d \in 1 .. MaxTime + 1 :
    Minute * Len(SelectSeq(bids, LAMBDA b : b.at > now - d)) <= PerMinute * Minute + PerMinute * (d - 1)
(* A bid is made only where the corridor pays out such a size: an amount given leaves, at the quote's own price, at
   most what the bid reckoned with, and something. *)
BidsAreServable ==
  \A i \in DOMAIN bids :
    bids[i].open.size = "amount" /\ bids[i].open.side = "from" => payoutSatsFor(bids[i].open.amount) \in 1 .. Limits.max
StrangersAreRationed == QuotesAreRationed /\ BidsAreRationed /\ BidsAreServable

(* docs/rfq-protocol.md: while a bid is unexpired a quote inside its bounds is no worse than the bid,
   from_amount <= ceil(to_amount * (1 + fee_bps/10^4)) + fee_flat. *)
QuotesKeepBids ==
  \A i \in DOMAIN bids :
    LET b == bids[i].terms
    IN now < b.until => \A payout \in {b.min, b.max} :
         giveSatsFor(payout) <= Ceil(payout * (10000 + b.bps), 10000) + b.flat
=============================================================================
