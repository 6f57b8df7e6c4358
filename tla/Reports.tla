------------------------------ MODULE Reports -------------------------------
(***************************************************************************)
(* What the operator is told about the swaps: the profit screen computed    *)
(* from the corridors' ledgers, the swap summary of the periodic report,    *)
(* and the lists the console pages through, all read while rows still move. *)
(*                                                                          *)
(* A value that may be unknown (null in the code) is a set: {} or {v}.       *)
(***************************************************************************)
EXTENDS Integers, Sequences, FiniteSets, FiniteSetsExt, SequencesExt

CONSTANTS
  Sheets,         \* who reads which swaps: [reader |-> "screen" | "summary" | "list",
                  \* terms |-> a function from 1..n to [pair, give, take, spread]]
  LedgerLimit,    \* rows one ledger read returns, at most
  PageLimit,      \* rows of one page
  BucketSeconds,  \* width of a point of the series
  Bands,          \* upper ends of the duration bands but the last, ascending
  LastSecond      \* bound on the clock

VARIABLES
  terms,          \* the terms of each swap
  reader,         \* who reads them in this behaviour; the readers share nothing but the rows
  row,            \* the swap table
  now,            \* unix seconds
  since,          \* swapSummary.ts: where each corridor's next window starts
  running,        \* guardedRead.ts: a ledger read under way, by corridor
  report,         \* the report being composed
  told,           \* every <<swap, updated_at>> a posted report counted
  again,          \* a report counted one of them a second time
  partial,        \* windows a report said were cut at the row cap: <<corridor, from, until>>
  walk            \* a list being paged through

vars == <<terms, reader, row, now, since, running, report, told, again, partial, walk>>

Swaps == DOMAIN terms
Rows == {s \in Swaps : row[s].state # "absent"}
Corridors == {terms[s].pair : s \in Swaps}

-----------------------------------------------------------------------------
(* One swap's economics. *)

Amount(x) == IF x = {} THEN 0 ELSE CHOOSE v \in x : TRUE                          \* `x ?? 0`
Total(S, F(_)) == MapThenSumSet(F, S)
Trunc(a, b) == IF a >= 0 THEN a \div b ELSE -((-a) \div b)                        \* Math.trunc(a / b), b > 0
bpsOf(amount, notional) == IF notional <= 0 THEN {} ELSE {Trunc(amount * 10000, notional)}

phaseOfStates(state) ==
  CASE state = "working" -> "exposed" [] state = "quoted" -> "open" [] state = "claimed" -> "done" [] OTHER -> "failed"
presentedState(r) == IF r.state = "refused" /\ r.refunded THEN "refunded" ELSE r.state
sats(amount) == [asset |-> "btc", amount |-> amount]

economicsOf(p) ==
  LET plain == p.inbound.asset = "btc" /\ p.outbound.asset = "btc"
      in == p.inbound.amount
      out == p.outbound.amount
      gross == IF plain THEN {i - o : i \in in, o \in out} ELSE p.spread
      atRisk == IF ~p.lost THEN {}
                ELSE IF p.exposure # {} THEN p.exposure
                ELSE IF p.outbound.asset = "btc" THEN out ELSE {}
  IN [id |-> p.id, corridor |-> p.corridor, phase |-> phaseOfStates(p.state), settledAt |-> p.settledAt,
      durationSeconds |-> Max({0, p.settledAt - p.quotedAt}),
      inbound |-> p.inbound, outbound |-> p.outbound,
      grossSats |-> gross,
      grossBps |-> IF p.inbound.asset # "btc" THEN {} ELSE UNION {bpsOf(g, i) : g \in gross, i \in in},
      rate |-> {<<o, i>> : o \in out, i \in in},
      realized |-> phaseOfStates(p.state) = "done",
      atRiskSats |-> atRisk, atRiskUnknown |-> p.lost /\ atRisk = {},
      realizedCostSats |-> p.cost,
      netSats |-> {g - c : g \in gross, c \in p.cost}]

\* corridors/economics.ts: what each family's row knows of its two legs.
common(s) ==
  [id |-> s, corridor |-> terms[s].pair, state |-> row[s].state, lost |-> row[s].state = "stuck",
   quotedAt |-> row[s].createdAt, settledAt |-> row[s].updatedAt,
   spread |-> {}, exposure |-> {}, cost |-> {}]
fundedByLifecycle(state, refunded) == state # "quoted" /\ ~(state = "refused" /\ ~refunded)
Arrived(s, amount) == IF row[s].money THEN {amount} ELSE {}                       \* a column records the client's money

sendEconomics(s) ==
  economicsOf([state |-> presentedState(row[s]), cost |-> row[s].fee,
               inbound |-> sats(Arrived(s, terms[s].give)), outbound |-> sats(terms[s].take)] @@ common(s))
receiveEconomics(s) ==
  economicsOf([inbound |-> sats(IF fundedByLifecycle(row[s].state, FALSE) THEN {terms[s].give} ELSE {}),
               outbound |-> sats(terms[s].take)] @@ common(s))
evmSendEconomics(s) ==
  LET funded == fundedByLifecycle(row[s].state, row[s].refunded) IN
  economicsOf([state |-> presentedState(row[s]),
               inbound |-> sats(IF funded THEN {terms[s].give} ELSE {}),
               outbound |-> [asset |-> "token", amount |-> IF funded THEN terms[s].take ELSE {}],
               spread |-> IF funded THEN {terms[s].spread} ELSE {},
               exposure |-> {terms[s].give - terms[s].spread}] @@ common(s))
assetRfqEconomics(s) ==
  economicsOf([inbound |-> [asset |-> "asset", amount |-> Arrived(s, terms[s].give)],
               outbound |-> sats(terms[s].take)] @@ common(s))
EconomicsOf(s) ==
  CASE terms[s].pair = "send" -> sendEconomics(s)
    [] terms[s].pair = "receive" -> receiveEconomics(s)
    [] terms[s].pair = "evm" -> evmSendEconomics(s)
    [] terms[s].pair = "asset" -> assetRfqEconomics(s)

-----------------------------------------------------------------------------
(* Aggregates: analytics/aggregate.ts. *)

priced(r) == r.realized /\ r.grossSats # {}
costed(r) == priced(r) /\ r.realizedCostSats # {}
notionalSats(r) ==
  CASE r.inbound.asset = "btc" /\ r.inbound.amount # {} -> Amount(r.inbound.amount)
    [] r.outbound.asset = "btc" /\ r.outbound.amount # {} -> Amount(r.outbound.amount)
    [] OTHER -> 0
Gross(r) == Amount(r.grossSats)
Cost(r) == Amount(r.realizedCostSats)
AtRisk(r) == Amount(r.atRiskSats)
marginBpsOf(gross, volume) == bpsOf(gross, volume)

summarise(records) ==
  LET pricedRows == {r \in records : priced(r)}
      costedRows == {r \in records : costed(r)}
      realized == {r \in records : r.realized}
      gross == Total(pricedRows, Gross)
      net == Total(costedRows, Gross) - Total(costedRows, Cost)
  IN [count |-> Cardinality(records), realizedCount |-> Cardinality(realized),
      failedCount |-> Cardinality({r \in records : r.phase = "failed"}),
      openCount |-> Cardinality({r \in records : r.phase \in {"open", "exposed"}}),
      pricedCount |-> Cardinality(pricedRows), costedCount |-> Cardinality(costedRows),
      unpricedCount |-> Cardinality(realized) - Cardinality(pricedRows),
      grossSats |-> gross, volumeSats |-> Total(pricedRows, notionalSats),
      marginBps |-> marginBpsOf(gross, Total(pricedRows, notionalSats)),
      realizedCostSats |-> Total(costedRows, Cost),
      netSats |-> IF costedRows = {} THEN {} ELSE {net},
      netMarginBps |-> IF costedRows = {} THEN {} ELSE marginBpsOf(net, Total(costedRows, notionalSats)),
      atRiskSats |-> Total(records, AtRisk),
      atRiskUnknownCount |-> Cardinality({r \in records : r.atRiskUnknown})]

\* One point per bucket from the bucket `from` falls in, with running totals.
Bucket(t) == (t \div BucketSeconds) * BucketSeconds
bucketCount(from, until) == (until - Bucket(from) + BucketSeconds - 1) \div BucketSeconds
Starts(from, until) == {Bucket(from) + i * BucketSeconds : i \in 0..(bucketCount(from, until) - 1)}
series(records, from, until) ==
  LET inside == {r \in records : from <= r.settledAt /\ r.settledAt < until}
      Of(at) == {r \in inside : Bucket(r.settledAt) = at}
      Upto(at) == {r \in inside : Bucket(r.settledAt) <= at}
      Net(S) == IF \E r \in S : costed(r)
                THEN {Total({r \in S : costed(r)}, LAMBDA r : Gross(r) - Cost(r))} ELSE {}
  IN [at \in Starts(from, until) |->
       [count |-> Cardinality(Of(at)), realizedCount |-> Cardinality({r \in Of(at) : r.realized}),
        failedCount |-> Cardinality({r \in Of(at) : r.phase = "failed"}),
        grossSats |-> Total({r \in Of(at) : priced(r)}, Gross),
        cumulativeGrossSats |-> Total({r \in Upto(at) : priced(r)}, Gross),
        volumeSats |-> Total({r \in Of(at) : priced(r)}, notionalSats),
        netSats |-> Net(Of(at)), cumulativeNetSats |-> Net(Upto(at)),
        atRiskSats |-> Total(Of(at), AtRisk)]]

\* The value at ceil(fraction * n), counted from one, of the sorted values; {} of none.
percentile(values, num, den) ==
  IF values = <<>> THEN {}
  ELSE {SortSeq(values, <)[Max({1, (num * Len(values) + den - 1) \div den})]}
Durations(records) == LET s == SetToSeq(records) IN [i \in DOMAIN s |-> s[i].durationSeconds]

byCorridor(records) ==
  [c \in {r.corridor : r \in records} |->
    LET group == {r \in records : r.corridor = c}
        rated == {r \in group : priced(r)}
        spent == {r \in group : costed(r)}
        times == Durations({r \in group : r.realized})
    IN [count |-> Cardinality(group), realizedCount |-> Cardinality({r \in group : r.realized}),
        failedCount |-> Cardinality({r \in group : r.phase = "failed"}),
        grossSats |-> Total(rated, Gross), volumeSats |-> Total(rated, notionalSats),
        netSats |-> IF spent = {} THEN {} ELSE {Total(spent, Gross) - Total(spent, Cost)},
        atRiskSats |-> Total(group, AtRisk),
        medianDurationSeconds |-> percentile(times, 1, 2), p90DurationSeconds |-> percentile(times, 9, 10),
        crossAsset |-> \E r \in group : r.inbound.asset # r.outbound.asset]]

bandOf(seconds) == Min({i \in DOMAIN Bands : seconds < Bands[i]} \cup {Len(Bands) + 1})
byDuration(records) ==
  [i \in 1..(Len(Bands) + 1) |->
    LET group == {r \in records : r.realized /\ bandOf(r.durationSeconds) = i}
        rated == {r \in group : priced(r)}
    IN [count |-> Cardinality(group), grossSats |-> Total(rated, Gross), volumeSats |-> Total(rated, notionalSats)]]

\* Executed rates of the cross-asset fills, beside the mean weighted by what came in.
byFxLeg(records) ==
  LET legs == {r \in records : r.inbound.asset # r.outbound.asset /\ r.rate # {} /\ r.realized}
      Num(r) == Amount(r.outbound.amount)
      Den(r) == Amount(r.inbound.amount)
  IN [c \in {r.corridor : r \in legs} |->
       LET rows == {r \in legs : r.corridor = c}
           num == Total(rows, Num)
           den == Total(rows, Den)
       IN [count |-> Cardinality(rows), mean |-> <<num, den>>,
           driftBps |-> [r \in rows |-> Trunc((num * Den(r) - Num(r) * den) * 10000, num * Den(r))]]]

-----------------------------------------------------------------------------
(* The profit screen. *)

\* The ledger rows of a corridor whose last movement falls in a window, newest
\* first and cut at the limit; rows of one second come in any order.
ledgerRows(c, from, until) ==
  LET found == {s \in Rows : terms[s].pair = c /\ from <= row[s].updatedAt /\ row[s].updatedAt < until}
      Newest(T) == /\ Cardinality(T) = Min({LedgerLimit, Cardinality(found)})
                   /\ \A s \in T, u \in found \ T : row[s].updatedAt >= row[u].updatedAt
  IN {[rows |-> T, truncated |-> Cardinality(found) > LedgerLimit] : T \in {T \in SUBSET found : Newest(T)}}

\* Every corridor is read; one that fails is reported as failed and adds nothing.
scan(from, until, failed) ==
  LET read == Corridors \ failed
      answers == [c \in read |-> ledgerRows(c, from, until)]
  IN {[records |-> {EconomicsOf(s) : s \in UNION {a[c].rows : c \in read}},
       measured |-> read, failed |-> failed, truncated |-> {c \in read : a[c].truncated}] :
        a \in {f \in [read -> UNION {answers[c] : c \in read}] : \A c \in read : f[c] \in answers[c]}}

pnl(from, until, scanned) ==
  [summary |-> summarise(scanned.records), series |-> series(scanned.records, from, until),
   corridors |-> byCorridor(scanned.records), durationBands |-> byDuration(scanned.records),
   fx |-> byFxLeg(scanned.records)]

-----------------------------------------------------------------------------
(* The swap table. *)

Absent == [state |-> "absent", money |-> FALSE, refunded |-> FALSE, fee |-> {}, createdAt |-> 0, updatedAt |-> 0]
NoWalk == [on |-> FALSE]

\* The states of a swap by phase: `working` stands for every exposed one.
Edges == {<<"absent", "quoted">>, <<"quoted", "working">>, <<"quoted", "refused">>,
          <<"working", "claimed">>, <<"working", "stuck">>, <<"working", "refused">>,
          <<"stuck", "working">>, <<"stuck", "refused">>}

\* A write stamps the row; a list under way loses its claim on a row that left its states.
Write(s, r) ==
  /\ row' = [row EXCEPT ![s] = r]
  /\ walk' = IF walk.on THEN [walk EXCEPT !.kept = {k \in @ : k # s \/ r.state \in walk.states}] ELSE walk
  /\ UNCHANGED <<terms, reader, now, since, running, report, told, again, partial>>

insertQuote(s) ==
  /\ row[s].state = "absent" /\ \A q \in Swaps : q < s => row[q].state # "absent"
  /\ Write(s, [Absent EXCEPT !.state = "quoted", !.createdAt = now, !.updatedAt = now])

transition(s, to) ==
  /\ row[s].state # "absent" /\ <<row[s].state, to>> \in Edges
  /\ \E fee \in IF to = "claimed" /\ terms[s].pair = "send" THEN {{}, {1}} ELSE {{}} :
       Write(s, [row[s] EXCEPT !.state = to, !.updatedAt = now, !.fee = fee,
                               !.money = @ \/ to = "working",
                               !.refunded = to = "refused" /\ row[s].state # "quoted"])

\* A later fact about the payment: the fee it really cost.
patch(s) ==
  /\ row[s].state = "claimed" /\ terms[s].pair = "send" /\ row[s].fee = {}
  /\ Write(s, [row[s] EXCEPT !.fee = {1}, !.updatedAt = now])

-----------------------------------------------------------------------------
(* The swap summary of the periodic report. *)

NoRead == [on |-> FALSE]
NoReport == [on |-> FALSE]

\* The rows of a ledger that finished, each with the moment it did.
count(ledger) == {<<s, row[s].updatedAt>> : s \in {s \in ledger.rows : phaseOfStates(row[s].state) \in {"done", "failed"}}}

\* A read still running is joined, with the window it was started for.
startReport ==
  /\ reader = "summary" /\ ~report.on
  /\ running' = [c \in Corridors |->
                   IF running[c].on THEN running[c]
                   ELSE [on |-> TRUE, from |-> since[c], until |-> now, answer |-> {}]]
  /\ report' = [on |-> TRUE, until |-> now, waiting |-> Corridors, counted |-> {}, cut |-> {}]
  /\ UNCHANGED <<terms, reader, row, now, since, told, again, partial, walk>>

query(c) ==
  /\ running[c].on /\ running[c].answer = {}
  /\ \E ledger \in ledgerRows(c, running[c].from, running[c].until) :
       running' = [running EXCEPT ![c].answer = {[found |-> count(ledger), truncated |-> ledger.truncated]}]
  /\ UNCHANGED <<terms, reader, row, now, since, report, told, again, partial, walk>>

\* The answer counts for the report waiting for it, and only then moves the window.
(* Mutant: the window moves to the report's own end, past what an older read covered. *)
AdvancedToReport(c) == report.until
advanced(c) == running[c].until
answer(c) ==
  /\ running[c].on
  /\ \E a \in running[c].answer :
       IF report.on /\ c \in report.waiting
       THEN /\ since' = [since EXCEPT ![c] = advanced(c)]
            /\ report' = [report EXCEPT !.waiting = @ \ {c}, !.counted = @ \cup a.found,
                          !.cut = @ \cup IF a.truncated THEN {<<c, running[c].from, running[c].until>>} ELSE {}]
       ELSE UNCHANGED <<since, report>>
  /\ running' = [running EXCEPT ![c] = NoRead]
  /\ UNCHANGED <<terms, reader, row, now, told, again, partial, walk>>

\* The read throws, or the report stops waiting and the read runs on.
unreadable(c) ==
  /\ report.on /\ c \in report.waiting
  /\ report' = [report EXCEPT !.waiting = @ \ {c}]
  /\ running' \in {running, [running EXCEPT ![c] = NoRead]}
  /\ UNCHANGED <<terms, reader, row, now, since, told, again, partial, walk>>

postReport ==
  /\ report.on /\ report.waiting = {}
  /\ again' = (again \/ told \cap report.counted # {})
  /\ told' = told \cup report.counted
  /\ partial' = partial \cup report.cut
  /\ report' = NoReport
  /\ UNCHANGED <<terms, reader, row, now, since, running, walk>>

-----------------------------------------------------------------------------
(* A list in pages: newest first for the console, oldest first for recovery. *)

Before(a, b) ==
  \/ row[a].createdAt < row[b].createdAt
  \/ row[a].createdAt = row[b].createdAt /\ a < b
Past(s, cursor, order) ==
  \A last \in cursor : IF order = "newest" THEN Before(s, last) ELSE Before(last, s)
startWalk(order, states) ==
  /\ reader = "list" /\ ~walk.on
  /\ walk' = [on |-> TRUE, done |-> FALSE, order |-> order, states |-> states, cursor |-> {}, seen |-> <<>>,
              kept |-> {s \in Rows : row[s].state \in states}]
  /\ UNCHANGED <<terms, reader, row, now, since, running, report, told, again, partial>>

pageQuery ==
  LET found == {s \in Rows : row[s].state \in walk.states /\ Past(s, walk.cursor, walk.order)}
      First(a, b) == IF walk.order = "newest" THEN Before(b, a) ELSE Before(a, b)
  IN SetToSortSeq(found, First)
takePage ==
  /\ walk.on /\ ~walk.done
  /\ LET raw == pageQuery
         page == SubSeq(raw, 1, Min({PageLimit, Len(raw)}))
     IN walk' = [walk EXCEPT !.seen = @ \o page, !.done = Len(raw) <= PageLimit,
                             !.cursor = IF page = <<>> THEN @ ELSE {Last(page)}]
  /\ UNCHANGED <<terms, reader, row, now, since, running, report, told, again, partial>>
endWalk ==
  /\ walk.on /\ walk.done
  /\ walk' = NoWalk
  /\ UNCHANGED <<terms, reader, row, now, since, running, report, told, again, partial>>

-----------------------------------------------------------------------------
Lists == {<<"newest", {"quoted", "working", "claimed", "stuck", "refused"}>>, <<"oldest", {"quoted", "working"}>>}

Tick == now < LastSecond /\ now' = now + 1
        /\ UNCHANGED <<terms, reader, row, since, running, report, told, again, partial, walk>>

Init ==
  /\ \E sheet \in Sheets : terms = sheet.terms /\ reader = sheet.reader
  /\ row = [s \in Swaps |-> Absent] /\ now = 0
  /\ since = [c \in Corridors |-> 0] /\ running = [c \in Corridors |-> NoRead]
  /\ report = NoReport /\ told = {} /\ again = FALSE /\ partial = {} /\ walk = NoWalk
Next ==
  \/ \E s \in Swaps : insertQuote(s) \/ patch(s) \/ \E to \in {"working", "claimed", "stuck", "refused"} : transition(s, to)
  \/ startReport \/ postReport
  \/ \E c \in Corridors : query(c) \/ answer(c) \/ unreadable(c)
  \/ \E l \in Lists : startWalk(l[1], l[2])
  \/ takePage \/ endWalk \/ Tick
Spec == Init /\ [][Next]_vars

-----------------------------------------------------------------------------
(* Properties. *)

\* The shapes of the figures; SUBSET Int stands for a number that may be unknown.
SwapEconomics ==
  [id : Swaps, corridor : Corridors, phase : {"open", "exposed", "done", "failed"}, settledAt : Nat, durationSeconds : Nat,
   inbound : [asset : {"btc", "asset"}, amount : SUBSET Nat], outbound : [asset : {"btc", "token"}, amount : SUBSET Nat],
   grossSats : SUBSET Int, grossBps : SUBSET Int, rate : SUBSET (Nat \X Nat), realized : BOOLEAN,
   atRiskSats : SUBSET Nat, atRiskUnknown : BOOLEAN, realizedCostSats : SUBSET Nat, netSats : SUBSET Int]
SeriesPoint ==
  [count : Nat, realizedCount : Nat, failedCount : Nat, grossSats : Int, cumulativeGrossSats : Int, volumeSats : Nat,
   netSats : SUBSET Int, cumulativeNetSats : SUBSET Int, atRiskSats : Nat]
CorridorBreakdown ==
  [count : Nat, realizedCount : Nat, failedCount : Nat, grossSats : Int, volumeSats : Nat, netSats : SUBSET Int,
   atRiskSats : Nat, medianDurationSeconds : SUBSET Nat, p90DurationSeconds : SUBSET Nat, crossAsset : BOOLEAN]
DurationBand == [count : Nat, grossSats : Int, volumeSats : Nat]
LedgerSummary ==
  [count : Nat, realizedCount : Nat, failedCount : Nat, openCount : Nat, pricedCount : Nat, costedCount : Nat,
   unpricedCount : Nat, grossSats : Int, volumeSats : Nat, marginBps : SUBSET Int, realizedCostSats : Nat,
   netSats : SUBSET Int, netMarginBps : SUBSET Int, atRiskSats : Nat, atRiskUnknownCount : Nat]
WellShaped(p, scanned) ==
  /\ scanned.records \subseteq SwapEconomics /\ p.summary \in LedgerSummary
  /\ \A k \in DOMAIN p.series : p.series[k] \in SeriesPoint
  /\ \A k \in DOMAIN p.corridors : p.corridors[k] \in CorridorBreakdown
  /\ \A k \in DOMAIN p.durationBands : p.durationBands[k] \in DurationBand


\* No report counts one movement of a swap twice, and a finished swap the
\* window has passed was counted, or the report said its window was cut:
\* "its swaps are late rather than lost" (swapSummary.ts).
LateRatherThanLost ==
  /\ ~again
  /\ \A s \in Rows :
       (/\ phaseOfStates(row[s].state) \in {"done", "failed"}
        /\ row[s].updatedAt < since[terms[s].pair]) =>
         \/ <<s, row[s].updatedAt>> \in told \cup (IF report.on THEN report.counted ELSE {})
         \/ \E w \in partial \cup (IF report.on THEN report.cut ELSE {}) :
              w[1] = terms[s].pair /\ w[2] <= row[s].updatedAt /\ row[s].updatedAt < w[3]

\* A list read page by page while rows come and move shows no row twice and
\* misses none that was there from the first page to the last.
ListsAreComplete ==
  walk.on =>
    /\ IsInjective(walk.seen)
    /\ walk.done => walk.kept \subseteq ToSet(walk.seen)

\* Every figure of the profit screen agrees with every other one, a loss is
\* priced or counted as unpriceable, and a row that is missing is in a corridor
\* the screen names as failed or cut.
Sum(f, F(_)) == Total(DOMAIN f, LAMBDA k : F(f[k]))
Agrees(from, until, scanned) ==
  \E p \in {pnl(from, until, scanned)} :
    /\ WellShaped(p, scanned)
    /\ \A i \in 1..2 : \E part \in {<<p.series, p.corridors>>[i]} :
         /\ Sum(part, LAMBDA x : x.count) = p.summary.count
         /\ Sum(part, LAMBDA x : x.realizedCount) = p.summary.realizedCount
         /\ Sum(part, LAMBDA x : x.failedCount) = p.summary.failedCount
         /\ Sum(part, LAMBDA x : x.volumeSats) = p.summary.volumeSats
         /\ Sum(part, LAMBDA x : x.atRiskSats) = p.summary.atRiskSats
         /\ Sum(part, LAMBDA x : Amount(x.netSats)) = Amount(p.summary.netSats)
         /\ (\E k \in DOMAIN part : part[k].netSats # {}) <=> p.summary.netSats # {}
    /\ \A i \in 1..3 :
         Sum(<<p.series, p.corridors, p.durationBands>>[i], LAMBDA x : x.grossSats) = p.summary.grossSats
    /\ Sum(p.durationBands, LAMBDA x : x.count) = p.summary.realizedCount
    /\ \A at \in {Max(DOMAIN p.series)} :
         p.series[at].cumulativeGrossSats = p.summary.grossSats /\ p.series[at].cumulativeNetSats = p.summary.netSats
    /\ p.summary.count = p.summary.realizedCount + p.summary.failedCount + p.summary.openCount
    /\ \A c \in DOMAIN p.fx : \E a, b \in DOMAIN p.fx[c].driftBps : p.fx[c].driftBps[a] >= 0 /\ p.fx[c].driftBps[b] <= 0
    /\ \A s \in {s \in Rows : from <= row[s].updatedAt /\ row[s].updatedAt < until} :
         \/ \E r \in scanned.records :
              r.id = s /\ (row[s].state = "stuck" => r.atRiskSats # {} \/ p.summary.atRiskUnknownCount > 0)
         \/ terms[s].pair \in scanned.failed \cup scanned.truncated
ScreensAgree ==
  reader = "screen" => \A until \in 1..now, failed \in SUBSET Corridors :
    \A from \in 0..(until - 1) : \A scanned \in scan(from, until, failed) : Agrees(from, until, scanned)

ReportsAreTrue == LateRatherThanLost /\ ListsAreComplete /\ ScreensAgree
============================================================================
