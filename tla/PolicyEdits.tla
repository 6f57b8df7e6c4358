---------------------------- MODULE PolicyEdits ----------------------------
(***************************************************************************)
(* Edits an operator makes from the console to what a running solver       *)
(* quotes: stored overrides of the configured knobs, and the rows of the   *)
(* markets it trades (admin/settings.ts, admin/routes/settings.ts,         *)
(* markets.ts, pricingApply.ts, configRevert.ts, admin/db.ts), with the    *)
(* rebuild of the serve list they end in (ops/services.ts,                 *)
(* ops/assetRfqMarkets.ts).                                                *)
(*                                                                         *)
(* A request is a list of writes and reloads that runs in steps; requests  *)
(* of several editors interleave, a write or a reload may fail, and the    *)
(* process may die and boot from what is stored.  Four knobs stand for the *)
(* rest: a corridor's MIN, MAX and OPEN (_ENABLED), read at boot, and         *)
(* ASSET_CARRIER_PRICING, the one that applies live.  Of a market's two    *)
(* directions the sell side carries bounds and a fee of its own; the buy   *)
(* side is open or closed.  Flags of overrides are 1 and 0.                *)
(***************************************************************************)
EXTENDS Integers, Sequences, SequencesExt, FiniteSets

CONSTANTS
  Editor,     \* who may have a request under way
  Config,     \* [Key -> Nat]: what the process was configured with
  Seed,       \* [market -> [symbol, sell, buy]]: how the config file says it is served
  Starts      \* set of [overrides, rows, asks, edits, faults, quotes]: what is stored at first, what editors may
              \* ask for, and the bounds on their requests, on failures and on quotes

Key == {"MIN", "MAX", "OPEN", "PRICING"}
LiveKeys == {"PRICING"}
NoFee == -1
NoSymbol == "none"
NoBounds == [min |-> 0, max |-> -1]
Clear == -1
Low == -1000

VARIABLES
  start,      \* the member of Starts this behaviour began with
  overrides,  \* admin_override: [subset of Key -> value]
  rows,       \* admin_market: [subset of the markets -> row]
  boot,       \* bootOverrides
  policy,     \* services.policy
  served,     \* services.assetRfqMarkets: [market -> terms]
  readable,   \* the markets whose swaps the readers find
  live,       \* the markets with a swap that is not terminal
  quoting,    \* the market a quote in progress holds, or none
  todo,       \* [Editor -> the rest of its request]
  past,       \* [Editor -> what was quoted and what is asked, for the properties]
  queue,      \* replaceQueue
  built,      \* what the rebuild in progress read, or <<>>
  late,       \* markets whose quote ended while a rebuild was under way
  stale,      \* a request ended without its reload
  edits, faults, quotes
vars == <<start, overrides, rows, boot, policy, served, readable, live, quoting, todo, past, queue, built, late, stale,
          edits, faults, quotes>>

-----------------------------------------------------------------------------
(* Knobs *)
validateOverride(k, v) ==
  /\ k \in {"MIN", "MAX"} => v > 0
  /\ k \in {"OPEN", "PRICING"} => v \in {0, 1}
  /\ k = "OPEN" /\ v = 1 => Config.OPEN = 1
Crossed(o) ==
  LET at(k) == IF k \in DOMAIN o THEN o[k] ELSE Config[k] IN at("MIN") > at("MAX")
(* A pair of limits that crosses falls back to the config's pair. *)
applyOverrides(o) ==
  [k \in Key |-> IF k \in DOMAIN o /\ validateOverride(k, o[k]) /\ ~(k \in {"MIN", "MAX"} /\ Crossed(o))
                 THEN o[k] ELSE Config[k]]
setOverride(o, k, v) ==
  [j \in IF v = Clear THEN DOMAIN o \ {k} ELSE DOMAIN o \cup {k} |-> IF j = k THEN v ELSE o[j]]
(* The knobs the console badges pending: an override that moved since boot and changes the value. *)
pendingKeys(o) ==
  {k \in (DOMAIN boot \cup DOMAIN o) \ LiveKeys :
     /\ ~(k \in DOMAIN boot /\ k \in DOMAIN o /\ boot[k] = o[k])
     /\ applyOverrides(boot)[k] # applyOverrides(o)[k]}

(* Which pass of a save a change belongs to (savePassFor): a flag that opens, a maximum that rises, a fee or a
   minimum that falls widens. *)
FlagWidens(opens, after) == IF opens THEN after ELSE ~after
NumberWidens(raising, before, after) == (after > before) = raising
overrideWidens(k, before, after) ==
  IF k \in {"OPEN", "PRICING"} THEN FlagWidens(k = "OPEN", after = 1) ELSE NumberWidens(k = "MAX", before, after)

-----------------------------------------------------------------------------
(* Markets *)
validateAssetMarket(r) ==
  /\ r.sellBase # NoBounds => r.sellBase.min <= r.sellBase.max
  /\ r.servesRfq => r.symbol # NoSymbol /\ (r.rfqSellBase \/ r.rfqBuyBase)
SymbolTaken(rs, m, symbol) == symbol # NoSymbol /\ \E n \in DOMAIN rs \ {m} : rs[n].symbol = symbol
assetMarketPolicy(rs) == \A m \in DOMAIN rs : validateAssetMarket(rs[m]) /\ ~SymbolTaken(rs, m, rs[m].symbol)

carrierPriced(mode, byDefault) == IF mode = "inherit" THEN byDefault ELSE mode = "priced"
SellOpen(r) == r.rfqSellBase /\ r.sellBase.max > 0
Served(r) == r.enabled /\ r.servesRfq /\ (SellOpen(r) \/ r.rfqBuyBase)
assetRfqMarketsFrom(rs, pricing) ==
  [m \in {n \in DOMAIN rs : Served(rs[n])} |->
     [sell |-> IF SellOpen(rs[m]) THEN rs[m].sellBase ELSE [min |-> 0, max |-> 0],
      buy |-> rs[m].rfqBuyBase,
      fee |-> IF rs[m].sellFee = NoFee THEN rs[m].fee ELSE rs[m].sellFee,
      priced |-> carrierPriced(rs[m].carrierMode, pricing = 1)]]
retainReadableMarkets(serving, previous, swaps) == serving \cup (previous \cap swaps)
recoverReadableMarkets(serving, swaps) == serving \cup swaps

(* What a config file says of a market's serving, the symbol dropped where another market has it. *)
servingFor(m, taken) ==
  LET symbol == IF Seed[m].symbol \in taken THEN NoSymbol ELSE Seed[m].symbol
      sell == symbol # NoSymbol /\ Seed[m].sell
      buy == symbol # NoSymbol /\ Seed[m].buy
  IN [symbol |-> symbol, servesRfq |-> sell \/ buy, rfqSellBase |-> sell, rfqBuyBase |-> buy]
ServingOf(r) == [symbol |-> r.symbol, servesRfq |-> r.servesRfq, rfqSellBase |-> r.rfqSellBase, rfqBuyBase |-> r.rfqBuyBase]
WithServing(r, s) ==
  [r EXCEPT !.symbol = s.symbol, !.servesRfq = s.servesRfq, !.rfqSellBase = s.rfqSellBase, !.rfqBuyBase = s.rfqBuyBase]
(* Rows an older binary left are made loadable before they are read. *)
repairServing(rs) ==
  [m \in DOMAIN rs |->
     IF rs[m].servesRfq /\ rs[m].symbol = NoSymbol /\ ~SymbolTaken(rs, m, Seed[m].symbol)
     THEN [rs[m] EXCEPT !.symbol = Seed[m].symbol]
     ELSE IF rs[m].servesRfq /\ (rs[m].symbol = NoSymbol \/ ~(rs[m].rfqSellBase \/ rs[m].rfqBuyBase))
     THEN [rs[m] EXCEPT !.servesRfq = FALSE] ELSE rs[m]]

(* The stored row with only its narrowing changes made; what is not a term rides along with the target. *)
narrowedBounds(stored, target) ==
  IF stored = NoBounds THEN target
  ELSE IF target = NoBounds THEN stored
  ELSE [min |-> IF NumberWidens(FALSE, stored.min, target.min) THEN stored.min ELSE target.min,
        max |-> IF NumberWidens(TRUE, stored.max, target.max) THEN stored.max ELSE target.max]
keptBps(stored, target) ==
  LET bps(r) == IF r.sellFee = NoFee THEN r.fee ELSE r.sellFee
  IN IF NumberWidens(FALSE, bps(stored), bps(target)) THEN stored.sellFee ELSE target.sellFee
narrowedMarket(stored, target, pricing) ==
  LET keep(flag) == IF FlagWidens(TRUE, target[flag]) THEN stored[flag] ELSE target[flag]
  IN [target EXCEPT
        !.enabled = keep("enabled"), !.servesRfq = keep("servesRfq"),
        !.rfqSellBase = keep("rfqSellBase"), !.rfqBuyBase = keep("rfqBuyBase"),
        !.fee = IF NumberWidens(FALSE, stored.fee, target.fee) THEN stored.fee ELSE target.fee,
        !.sellFee = keptBps(stored, target),
        !.carrierMode = IF FlagWidens(FALSE, carrierPriced(target.carrierMode, pricing))
                        THEN stored.carrierMode ELSE target.carrierMode,
        !.sellBase = narrowedBounds(stored.sellBase, target.sellBase)]
interimMarketUnchecked(stored, target, pricing) == narrowedMarket(stored, target, pricing)  \* mutant: no fallback
interimMarket(stored, target, pricing) ==
  LET interim == narrowedMarket(stored, target, pricing) IN IF validateAssetMarket(interim) THEN interim ELSE stored

-----------------------------------------------------------------------------
(* Requests as lists of tasks *)
Set(k, v) == [do |-> "set", key |-> k, value |-> v]
Put(m, r) == [do |-> "put", market |-> m, row |-> r]
Drop(m) == [do |-> "drop", market |-> m]
Rebuild == [do |-> "rebuild"]
Reprice == [do |-> "reprice"]

(* The request: [sets: sequence of [key, value]; puts: sequence of [market, row]]. *)
Asked(o, sets) == FoldLeft(LAMBDA acc, s : setOverride(acc, s.key, s.value), o, sets)
OfPass(sets, before, after, widening) ==
  SelectSeq(sets, LAMBDA s : overrideWidens(s.key, before[s.key], after[s.key]) = widening)
Writes(sets) ==
  LET writes == [i \in 1..Len(sets) |-> Set(sets[i].key, sets[i].value)]
  IN IF \E i \in 1..Len(sets) : sets[i].key \in LiveKeys THEN Append(writes, Reprice) ELSE writes
(* POST /api/pricing/apply: restrictions first, relaxations last, and a market that has no row yet with the latter. *)
applyTasks(req) ==
  LET sets == SelectSeq(req.sets, LAMBDA s : s.value = Clear \/ validateOverride(s.key, s.value))
      before == applyOverrides(overrides)
      after == applyOverrides(Asked(overrides, req.sets))
      pricing == before.PRICING = 1 \/ after.PRICING = 1
      puts == SelectSeq(req.puts, LAMBDA p : validateAssetMarket(p.row))
      standing == SelectSeq(puts, LAMBDA p : p.market \in DOMAIN rows)
  IN Writes(OfPass(sets, before, after, FALSE))
     \o [i \in 1..Len(standing) |-> Put(standing[i].market, interimMarket(rows[standing[i].market], standing[i].row, pricing))]
     \o <<Rebuild>> \o Writes(OfPass(sets, before, after, TRUE))
     \o [i \in 1..Len(puts) |-> Put(puts[i].market, puts[i].row)] \o <<Rebuild>>
(* POST /api/config/revert: serving fields and overrides back to the config, if nothing moved since the preview. *)
Basis == [serving |-> [m \in DOMAIN rows |-> ServingOf(rows[m])], overrides |-> overrides]
Moved(scope) ==
  LET held(m) == {rows[n].symbol : n \in DOMAIN rows \ {m}}
      plan == [m \in scope \cap DOMAIN rows |-> servingFor(m, IF scope = DOMAIN Seed THEN {} ELSE held(m))]
  IN [m \in {n \in DOMAIN plan : plan[n] # ServingOf(rows[n])} |-> plan[m]]
revertTasks(scope) ==
  LET keys == IF scope = DOMAIN Seed THEN DOMAIN overrides ELSE {}
  IN <<[do |-> "revert", serving |-> Moved(scope), keys |-> keys]>>
     \o (IF DOMAIN Moved(scope) # {} THEN <<Rebuild>> ELSE <<>>)
     \o (IF keys \cap LiveKeys # {} THEN <<Reprice>> ELSE <<>>)

Tasks(req) ==
  CASE req.kind = "apply" -> applyTasks(req)
    [] req.kind = "patch" ->
         <<Set(req.key, req.value)>> \o (IF req.key \in LiveKeys THEN <<Reprice>> ELSE <<>>)
    [] req.kind = "put" -> <<Put(req.market, req.row), Rebuild>>
    [] req.kind = "delete" -> <<Drop(req.market), Rebuild>>
    [] req.kind = "revert" -> <<[do |-> "preview", scope |-> req.scope, basis |-> Basis]>>
Accepted(req) ==
  CASE req.kind = "patch" -> req.value = Clear \/ validateOverride(req.key, req.value)
    [] req.kind = "put" -> validateAssetMarket(req.row)
    [] req.kind = "delete" -> req.market \in DOMAIN rows
    [] OTHER -> TRUE

-----------------------------------------------------------------------------
(* How much the solver quotes, as numbers that grow with it: by the markets served, and by a corridor's limits. *)
MarketFields == {"max", "min", "fee", "carrier", "buy"}
MarketWidth(terms) ==
  [i \in (DOMAIN Seed) \X MarketFields |->
     LET m == i[1]
         sells == m \in DOMAIN terms /\ terms[m].sell.max > 0
     IN CASE i[2] = "max" -> IF sells THEN terms[m].sell.max ELSE 0
          [] i[2] = "min" -> IF sells THEN -terms[m].sell.min ELSE Low
          [] i[2] = "fee" -> IF sells THEN -terms[m].fee ELSE Low
          [] i[2] = "carrier" -> IF m \in DOMAIN terms /\ ~terms[m].priced THEN 1 ELSE 0
          [] i[2] = "buy" -> IF m \in DOMAIN terms /\ terms[m].buy THEN 1 ELSE 0]
KnobWidth(knobs) == [k \in {"MIN", "MAX", "OPEN"} |-> IF k = "MIN" THEN -knobs[k] ELSE knobs[k]]
Stored(o, rs) == [markets |-> MarketWidth(assetRfqMarketsFrom(rs, applyOverrides(o).PRICING)), knobs |-> KnobWidth(applyOverrides(o))]
NothingRelaxed(now, was) == \A i \in DOMAIN now : now[i] <= was[i]
AllRestricted(now, was, asked) ==
  \A i \in DOMAIN now : (now[i] <= was[i] \/ now[i] <= asked[i]) /\ (asked[i] < was[i] => now[i] <= asked[i])

Rows(rs, puts) ==
  FoldLeft(LAMBDA acc, p : [m \in DOMAIN acc \cup {p.market} |-> IF m = p.market THEN p.row ELSE acc[m]], rs,
           SelectSeq(puts, LAMBDA p : validateAssetMarket(p.row)))
(* The three saves whose order the two passes do not keep: limits that cross on the way, bounds given to a direction
   that had none, and a row whose narrowed form no validator admits. *)
CrossesMidway(req) ==
  \E some \in SUBSET ToSet(req.sets) : Crossed(Asked(overrides, SelectSeq(req.sets, LAMBDA s : s \in some)))
OpensBounds(req) ==
  \E i \in 1..Len(req.puts) : LET p == req.puts[i] IN
    p.market \in DOMAIN rows /\ (rows[p.market].sellBase = NoBounds) # (p.row.sellBase = NoBounds)
Defers(req) ==
  \E i \in 1..Len(req.puts) : LET p == req.puts[i] IN
    /\ p.market \in DOMAIN rows
    /\ \E b \in BOOLEAN : ~validateAssetMarket(narrowedMarket(rows[p.market], p.row, b))

Idle(e) == todo[e] = <<>>
NoSave == [saves |-> FALSE]
SaveOf(req) ==
  IF req.kind # "apply" THEN NoSave
  ELSE [saves |-> TRUE, live |-> MarketWidth(served), was |-> Stored(overrides, rows),
        asked |-> Stored(Asked(overrides, req.sets), Rows(rows, req.puts)), irregular |-> CrossesMidway(req) \/ OpensBounds(req), defers |-> Defers(req),
        broken |-> FALSE]
Broken(p) == IF p.saves THEN [p EXCEPT !.broken = TRUE] ELSE p

-----------------------------------------------------------------------------
(* Steps *)
Begin(e, req) ==
  /\ Idle(e) /\ edits < start.edits /\ Accepted(req)
  /\ edits' = edits + 1
  /\ todo' = [todo EXCEPT ![e] = Tasks(req)]
  /\ LET others == {f \in Editor \ {e} : ~Idle(f)}
     IN past' = [f \in Editor |-> IF f # e THEN Broken(past[f])
                                  ELSE IF others = {} /\ ~stale THEN SaveOf(req) ELSE Broken(SaveOf(req))]
  /\ UNCHANGED <<overrides, rows, boot, policy, served, readable, live, quoting, queue, built, late, stale, faults, quotes>>

Next1(e) == todo' = [todo EXCEPT ![e] = Tail(@)]
Saving(e) == past[e].saves
Head1(e, do) == ~Idle(e) /\ Head(todo[e]).do = do

WriteOverride(e) ==
  /\ Head1(e, "set")
  /\ overrides' = setOverride(overrides, Head(todo[e]).key, Head(todo[e]).value)
  /\ Next1(e)
  /\ UNCHANGED <<rows, boot, policy, served, readable, live, quoting, past, queue, built, late, stale, edits, faults, quotes>>
putMarket(e) ==
  /\ Head1(e, "put")
  /\ LET t == Head(todo[e]) IN
     /\ ~SymbolTaken(rows, t.market, t.row.symbol)
     /\ rows' = [m \in DOMAIN rows \cup {t.market} |-> IF m = t.market THEN t.row ELSE rows[m]]
  /\ Next1(e)
  /\ UNCHANGED <<overrides, boot, policy, served, readable, live, quoting, past, queue, built, late, stale, edits, faults, quotes>>
deleteMarket(e) ==
  /\ Head1(e, "drop")
  /\ rows' = [m \in DOMAIN rows \ {Head(todo[e]).market} |-> rows[m]]
  /\ Next1(e)
  /\ UNCHANGED <<overrides, boot, policy, served, readable, live, quoting, past, queue, built, late, stale, edits, faults, quotes>>
(* The plan is made again from what is stored now, and refused when that is not what was previewed. *)
Revert(e) ==
  /\ Head1(e, "preview")
  /\ todo' = [todo EXCEPT ![e] = IF Basis = Head(todo[e]).basis THEN revertTasks(Head(todo[e]).scope) ELSE <<>>]
  /\ UNCHANGED <<overrides, rows, boot, policy, served, readable, live, quoting, past, queue, built, late, stale, edits, faults, quotes>>
revertToConfig(e) ==
  /\ Head1(e, "revert")
  /\ LET t == Head(todo[e])
         next == [m \in DOMAIN rows |-> IF m \in DOMAIN t.serving THEN WithServing(rows[m], t.serving[m]) ELSE rows[m]]
         fits == \A m \in DOMAIN next : ~SymbolTaken(next, m, next[m].symbol)
     IN /\ rows' = IF fits THEN next ELSE rows
        /\ overrides' = IF fits THEN [k \in DOMAIN overrides \ t.keys |-> overrides[k]] ELSE overrides
        /\ todo' = [todo EXCEPT ![e] = IF fits THEN Tail(@) ELSE <<>>]
  /\ UNCHANGED <<boot, policy, served, readable, live, quoting, past, queue, built, late, stale, edits, faults, quotes>>

(* A write of a save that fails is reported and the save goes on without it; any other request ends.  The row may
   have been stored before its audit entry failed. *)
WithoutPut(tasks, m) == SelectSeq(tasks, LAMBDA t : ~(t.do = "put" /\ t.market = m))
WithoutReprice(tasks) == SelectSeq(tasks, LAMBDA t : t.do # "reprice")
WriteFails(e) ==
  /\ ~Idle(e) /\ Head(todo[e]).do \in {"set", "put", "drop", "revert"}
  /\ LET t == Head(todo[e])
         taken == t.do = "put" /\ SymbolTaken(rows, t.market, t.row.symbol)
     IN /\ \/ taken /\ UNCHANGED <<faults, rows>>
           \/ /\ ~taken /\ faults < start.faults /\ faults' = faults + 1
              /\ \/ UNCHANGED rows
                 \/ t.do = "put" /\ rows' = [m \in DOMAIN rows \cup {t.market} |-> IF m = t.market THEN t.row ELSE rows[m]]
        /\ todo' = [todo EXCEPT ![e] =
                      IF ~Saving(e) THEN <<>>
                      ELSE IF t.do = "put" THEN WithoutPut(Tail(@), t.market)
                      ELSE IF t.key \in LiveKeys THEN WithoutReprice(Tail(@)) ELSE Tail(@)]
        /\ stale' = (stale \/ rows' # rows)
  /\ past' = [past EXCEPT ![e] = Broken(@)]
  /\ UNCHANGED <<overrides, boot, policy, served, readable, live, quoting, queue, built, late, edits, quotes>>

(* replaceMarkets and replacePolicy queue up; the latter brings the policy as the store has it when it is called. *)
Waiting(e) == \E i \in 1..Len(queue) : queue[i].by = e
Reload(e) ==
  /\ ~Idle(e) /\ Head(todo[e]).do \in {"rebuild", "reprice"} /\ ~Waiting(e)
  /\ queue' = Append(queue, IF Head(todo[e]).do = "rebuild" THEN [by |-> e, next |-> <<>>]
                            ELSE [by |-> e, next |-> <<applyOverrides(overrides)>>])
  /\ UNCHANGED <<overrides, rows, boot, policy, served, readable, live, quoting, todo, past, built, late, stale, edits, faults, quotes>>
(* rebuild, first half: the rows and the live swaps are read. *)
RebuildReads ==
  /\ queue # <<>> /\ built = <<>> /\ assetMarketPolicy(rows)
  /\ LET next == IF Head(queue).next = <<>> THEN policy ELSE Head(queue).next[1]
         markets == assetRfqMarketsFrom(rows, next.PRICING)
     IN built' = <<[policy |-> next, served |-> markets,
                    readable |-> retainReadableMarkets(DOMAIN markets, readable, live)]>>
  /\ UNCHANGED <<overrides, rows, boot, policy, served, readable, live, quoting, todo, past, queue, late, stale, edits, faults, quotes>>
(* Second half: the quoting service swaps its list between two quotes, and the rest follows. *)
RebuildInstalls ==
  /\ built # <<>> /\ quoting = {}
  /\ served' = built[1].served /\ readable' = built[1].readable /\ policy' = built[1].policy
  /\ built' = <<>> /\ queue' = Tail(queue) /\ todo' = [todo EXCEPT ![Head(queue).by] = Tail(@)]
  /\ UNCHANGED <<overrides, rows, boot, live, quoting, past, late, stale, edits, faults, quotes>>
RebuildFails ==
  /\ queue # <<>> /\ built = <<>>
  /\ \/ ~assetMarketPolicy(rows) /\ UNCHANGED faults
     \/ faults < start.faults /\ faults' = faults + 1
  /\ queue' = Tail(queue) /\ todo' = [todo EXCEPT ![Head(queue).by] = <<>>]
  /\ stale' = TRUE /\ past' = [past EXCEPT ![Head(queue).by] = Broken(@)]
  /\ UNCHANGED <<overrides, rows, boot, policy, served, readable, live, quoting, built, late, edits, quotes>>

QuoteBegins(m) ==
  /\ quoting = {} /\ m \in DOMAIN served /\ quotes < start.quotes
  /\ quoting' = {m} /\ quotes' = quotes + 1
  /\ UNCHANGED <<overrides, rows, boot, policy, served, readable, live, todo, past, queue, built, late, stale, edits, faults>>
QuoteEnds ==
  /\ quoting # {}
  /\ \E kept \in {quoting, {}} :
       /\ live' = live \cup kept
       /\ late' = IF built # <<>> THEN late \cup kept ELSE late
  /\ quoting' = {}
  /\ UNCHANGED <<overrides, rows, boot, policy, served, readable, todo, past, queue, built, stale, edits, faults, quotes>>
SwapEnds(m) ==
  /\ m \in live /\ live' = live \ {m} /\ late' = late \ {m}
  /\ UNCHANGED <<overrides, rows, boot, policy, served, readable, quoting, todo, past, queue, built, stale, edits, faults, quotes>>

(* The process dies and boots from what is stored. *)
BootFrom(o, rs, swaps) ==
  LET fixed == repairServing(rs)
      markets == assetRfqMarketsFrom(fixed, applyOverrides(o).PRICING)
  IN /\ rows' = fixed /\ boot' = o /\ policy' = applyOverrides(o) /\ served' = markets
     /\ readable' = recoverReadableMarkets(DOMAIN markets, swaps)
Restart ==
  /\ faults < start.faults /\ faults' = faults + 1
  /\ BootFrom(overrides, rows, live)
  /\ todo' = [e \in Editor |-> <<>>] /\ past' = [e \in Editor |-> NoSave]
  /\ queue' = <<>> /\ built' = <<>> /\ quoting' = {} /\ late' = {} /\ stale' = FALSE
  /\ UNCHANGED <<overrides, live, edits, quotes>>

EditsInit ==
  /\ \E s \in Starts :
       LET fixed == repairServing(s.rows)
           markets == assetRfqMarketsFrom(fixed, applyOverrides(s.overrides).PRICING)
       IN /\ start = s /\ overrides = s.overrides /\ boot = s.overrides /\ rows = fixed
          /\ policy = applyOverrides(s.overrides) /\ served = markets /\ readable = DOMAIN markets
  /\ live = {} /\ quoting = {} /\ todo = [e \in Editor |-> <<>>] /\ past = [e \in Editor |-> NoSave]
  /\ queue = <<>> /\ built = <<>> /\ late = {} /\ stale = FALSE /\ edits = 0 /\ faults = 0 /\ quotes = 0
EditsStep ==
  \/ \E e \in Editor :
       \/ \E req \in start.asks : Begin(e, req)
       \/ WriteOverride(e) \/ putMarket(e) \/ deleteMarket(e) \/ Revert(e) \/ revertToConfig(e)
       \/ WriteFails(e) \/ Reload(e)
  \/ RebuildReads \/ RebuildInstalls \/ RebuildFails
  \/ \E m \in DOMAIN Seed : QuoteBegins(m) \/ SwapEnds(m)
  \/ QuoteEnds \/ Restart
EditsNext == EditsStep /\ UNCHANGED start
EditsSpec == EditsInit /\ [][EditsNext]_vars

-----------------------------------------------------------------------------
(* What is stored always loads: no edit, whole or part, leaves rows that a rebuild or a boot refuses. *)
RowsAlwaysLoad == assetMarketPolicy(rows)
(* A save that no other request, failed or unloaded write or irregular change disturbs has relaxed nothing before every restriction
   is in force: in what the process serves, and in what it would serve if it died here and booted. *)
KeepsOrder(e) ==
  /\ \/ NothingRelaxed(MarketWidth(served), past[e].live)
     \/ AllRestricted(MarketWidth(served), past[e].live, past[e].asked.markets)
  /\ LET stored == Stored(overrides, rows)
         parts == {"markets", "knobs"}
     IN \/ \A x \in parts : NothingRelaxed(stored[x], past[e].was[x])
        \/ \A x \in parts : AllRestricted(stored[x], past[e].was[x], past[e].asked[x])
SaveQuotesNoMore == \A e \in Editor : ~Idle(e) /\ Saving(e) /\ ~past[e].irregular /\ ~past[e].defers /\ ~past[e].broken => KeepsOrder(e)
(* Once every request is over, what is served is what is stored, unless one ended without its reload. *)
LiveFollowsStored ==
  (\A e \in Editor : Idle(e)) /\ ~stale =>
    served = assetRfqMarketsFrom(rows, applyOverrides(overrides).PRICING) /\ policy.PRICING = applyOverrides(overrides).PRICING
(* A swap under way keeps a reader when its market is edited away, if its quote was over when the rebuild read. *)
SwapsStayReadable == live \ late \subseteq readable
EditsAreSafe == RowsAlwaysLoad /\ SaveQuotesNoMore /\ LiveFollowsStored /\ SwapsStayReadable

(* What pricingApply.ts:4 promises of every save that dies midway, "restrictions and no relaxations", but for the rows
   whose narrowing is said to be deferred (pricingApply.ts:124). *)
EverySaveQuotesNoMore == \A e \in Editor : ~Idle(e) /\ Saving(e) /\ ~past[e].defers /\ ~past[e].broken => KeepsOrder(e)
(* What routes/settings.ts:54 says of a knob that is not badged pending: it is what the process is quoting. *)
BannerTellsTheTruth ==
  \A k \in Key \ LiveKeys : k \notin pendingKeys(overrides) => applyOverrides(overrides)[k] = applyOverrides(boot)[k]
(* What assetRfqMarkets.ts:158 says: every previous market with a swap under way is readable. *)
EverySwapReadable == live \subseteq readable
=============================================================================
