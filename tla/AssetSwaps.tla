----------------------------- MODULE AssetSwaps -----------------------------
(***************************************************************************)
(* Trades of an Arkade asset against sats: quotes asked for                 *)
(* (asset/assetRfqOrchestrator.ts over db/assetRfqSwaps.ts) and offers      *)
(* found on chain (ops/assetOffers.ts over db/offerFills.ts).  A maker      *)
(* deposits at a covenant's script; one transaction takes the deposit and   *)
(* pays the maker.  Both services record a fill as selecting before they    *)
(* pick coins and as submitting before they send it, so that a fill of      *)
(* unknown outcome is never sent again.                                     *)
(*                                                                          *)
(* The asset is the market's base, sats its quote: a client that gives      *)
(* gets sats.  A covenant's script follows from what the maker wants.       *)
(***************************************************************************)
EXTENDS Integers, FiniteSets, FiniteSetsExt

CONSTANTS
  Worker,          \* a service of one process
  Crews,           \* which service each worker runs
  FillIds,         \* rows
  Out,             \* deposits
  Asks,            \* [gives, side, amount]: quotes asked for
  PriceCases,      \* more of them, to be priced only
  Offers,          \* [gives, want, amount]: offers published
  Slips,           \* by how much a maker misses the amount quoted
  Feeds,           \* prices, in tenths of a sat per unit
  Market,          \* [feeBps, flat, tolerance, carrier, dust, min, max]
  Inventory,       \* what the solver holds of either leg
  MaxDeferrals,    \* MAX_FILL_DEFERRALS
  MaxEvents,       \* bound on what makers, market, operator and clock do besides depositing
  MaxMishaps       \* bound on crashes, lost answers and rows parked

VARIABLES
  svc,             \* which service a worker runs
  fillRow,         \* the two tables
  deposit,         \* the chain: what lies at the covenants' scripts
  fills,           \* fill transactions sent and not yet executed
  sent,            \* how often a fill of a row was sent
  task,            \* what a worker is doing
  deferrals,       \* per worker and row
  feed,            \* the price
  stock,           \* the solver's inventory, by what the client gives
  asked,           \* rows an operator has approved
  late,            \* whether the quotes' validity is over
  deskEvents, mishaps

assetVars == <<svc, fillRow, deposit, fills, sent, task, deferrals, feed, stock, asked, late, deskEvents, mishaps>>

-----------------------------------------------------------------------------
(* core/assetExactInPrice.ts, core/assetRfq.ts, core/assetOfferPrice.ts *)
BPS == 10000
SCALE == 10
CeilDiv(a, b) == (a + b - 1) \div b
Mid(net, gives, tolerance, price) ==
  IF gives THEN (net * price * (BPS + tolerance)) \div (SCALE * BPS)
           ELSE (net * SCALE * BPS) \div (price * (BPS - tolerance))
assetExactInPayout(net, gives, tolerance, price) ==
  LET mid == Mid(net, gives, tolerance, price) IN mid - CeilDiv(mid * Market.feeBps, BPS)

(* The least input that pays out so much: doubled until it does, then bisected. *)
Reaches(net, payout, gives, price) == assetExactInPayout(net, gives, 0, price) >= payout
Doubled(payout, gives, price) ==
  LET double[hi \in Nat] == IF Reaches(hi, payout, gives, price) THEN hi ELSE double[2 * hi] IN double[1]
Bisected(upper, payout, gives, price) ==
  LET bisect[lo \in Nat, hi \in Nat] ==
        IF lo >= hi THEN lo
        ELSE IF Reaches((lo + hi) \div 2, payout, gives, price) THEN bisect[lo, (lo + hi) \div 2]
        ELSE bisect[(lo + hi) \div 2 + 1, hi]
  IN bisect[1, upper]
assetExactOutInput(payout, gives, price) == Bisected(Doubled(payout, gives, price), payout, gives, price)

(* carrierLegs: an asset output needs sats under it, which the client pays for or gets back. *)
Charged(gives) == IF gives THEN 0 ELSE Market.carrier
Returned(gives) == IF gives THEN Market.carrier ELSE 0
FlatFrom(gives) == Market.flat + Charged(gives)
InBounds(payout) == payout >= Market.min /\ payout <= Market.max
Dusty(gives, to) == gives /\ to < Market.dust
Refused == [from |-> 0, to |-> 0]
ExactOut(ask, price) ==
  LET wanted == ask.amount - Returned(ask.gives)
  IN IF wanted <= 0 \/ ~InBounds(wanted) \/ Dusty(ask.gives, ask.amount) THEN Refused
     ELSE [from |-> assetExactOutInput(wanted, ask.gives, price) + FlatFrom(ask.gives), to |-> ask.amount]
ExactIn(ask, price) ==
  LET net == ask.amount - FlatFrom(ask.gives)
      payout == IF net <= 0 THEN 0 ELSE assetExactInPayout(net, ask.gives, 0, price)
      to == payout + Returned(ask.gives)
  IN IF payout <= 0 \/ ~InBounds(payout) \/ Dusty(ask.gives, to) THEN Refused ELSE [from |-> ask.amount, to |-> to]
resolveAssetQuote(ask, price) == IF ask.side = "to" THEN ExactOut(ask, price) ELSE ExactIn(ask, price)

offerWithinTolerance(gives, amount, want, price) ==
  LET net == amount - FlatFrom(gives)
  IN net > 0 /\ want <= assetExactInPayout(net, gives, Market.tolerance, price) + Returned(gives)

-----------------------------------------------------------------------------
NoFill == [kind |-> "none", state |-> "none", phase |-> "none"]
NoDeposit == [fate |-> "none"]
NoTask == [pc |-> "idle"]
NoOut == 0
Script(gives, want) == <<gives, want>>
Live == [rfq |-> {"quoted", "funded", "filling"}, offer |-> {"fillable", "filling"}]
Holding == {"quoted", "funded", "fillable", "filling", "filled"}    \* the partial unique indices
Open(id) == fillRow[id].kind # "none" /\ fillRow[id].state \in Live[fillRow[id].kind]

AtScript(script) == {o \in Out : deposit[o].fate = "live" /\ deposit[o].script = script}
(* offerDepositFrom: all of it; largestOfferOutpoint: one of them. *)
Deposited(script) == MapThenSumSet(LAMBDA o : deposit[o].amount, AtScript(script))
Largest(script) == {o \in AtScript(script) : \A p \in AtScript(script) : deposit[p].amount <= deposit[o].amount}

(* One wallet is one process, which runs one RFQ service (docs/runbook.md:315); a second *)
(* filler of offers is looked at all the same.                                *)
ASSUME DeskAssumption ==
  /\ NoOut \notin Out
  /\ Crews \subseteq [Worker -> {"rfq", "offer"}]
  /\ \A crew \in Crews, v, w \in Worker : crew[v] = "rfq" /\ crew[w] = "rfq" => v = w

AssetInit ==
  /\ svc \in Crews
  /\ fillRow = [id \in FillIds |-> NoFill] /\ deposit = [o \in Out |-> NoDeposit]
  /\ fills = {} /\ sent = [id \in FillIds |-> 0] /\ task = [w \in Worker |-> NoTask]
  /\ deferrals = [w \in Worker |-> [id \in FillIds |-> 0]]
  /\ feed = Min(Feeds) /\ stock = [gives \in BOOLEAN |-> Inventory] /\ asked \in {{}, FillIds} /\ late = FALSE
  /\ deskEvents = 0 /\ mishaps = 0

-----------------------------------------------------------------------------
(* The stores.  A change names the state it expects; a lost one changes nothing. *)
Swap(id, from, to, phase) ==
  fillRow' = IF fillRow[id].state = from THEN [fillRow EXCEPT ![id].state = to, ![id].phase = phase] ELSE fillRow
Failed(id, from) == IF from \in {"quoted", "funded", "fillable"} THEN "refused" ELSE "stuck"
Fail(id, from) == Swap(id, from, Failed(id, from), fillRow[id].phase)
Selecting(id) == fillRow[id].state = "filling" /\ fillRow[id].phase = "selecting"
Before(id) == IF fillRow[id].kind = "rfq" THEN "funded" ELSE "fillable"
revertUnsubmitted(id) ==
  fillRow' = IF Selecting(id) THEN [fillRow EXCEPT ![id].state = Before(id), ![id].phase = "none"] ELSE fillRow
(* Mutant: any fill under way may be sent. *)
MaySubmitAny(id) == fillRow[id].state = "filling"
MaySubmit(id) == Selecting(id)

Rest(w) == task' = [task EXCEPT ![w] = NoTask]
StepTo(w, pc) == task' = [task EXCEPT ![w].pc = pc]
surroundings == <<svc, deposit, feed, late, asked, deskEvents>>

(* quote: the identifier and the live script are unique. *)
NewRow(kind, state, gives, from, to, out) ==
  [kind |-> kind, state |-> state, phase |-> "none", gives |-> gives, from |-> from, to |-> to,
   script |-> Script(gives, to), out |-> out]
quote(w, id, ask) ==
  \E terms \in {resolveAssetQuote(ask, feed)} :
    /\ svc[w] = "rfq" /\ task[w] = NoTask /\ fillRow[id] = NoFill /\ terms # Refused
    /\ stock[ask.gives] >= terms.to /\ ~late
    /\ \A other \in FillIds : fillRow[other].kind = "rfq" /\ fillRow[other].state \in Holding =>
         fillRow[other].script # Script(ask.gives, terms.to)
    /\ fillRow' = [fillRow EXCEPT ![id] = NewRow("rfq", "quoted", ask.gives, terms.from, terms.to, NoOut)]
    /\ UNCHANGED <<surroundings, fills, sent, task, deferrals, stock, mishaps>>

(* considerInner, on a funding transaction the stream delivers, once or again. *)
consider(w, id, o) ==
  /\ svc[w] = "offer" /\ task[w] = NoTask /\ fillRow[id] = NoFill /\ deposit[o].fate # "none"
  /\ \A other \in FillIds : fillRow[other].kind = "offer" /\ fillRow[other].state \in Holding => fillRow[other].out # o
  /\ \E gives \in {deposit[o].script[1]}, want \in {deposit[o].script[2]}, held \in {Deposited(deposit[o].script)} :
       /\ held > 0 /\ InBounds(want) /\ stock[gives] >= want /\ offerWithinTolerance(gives, held, want, feed)
       /\ fillRow' = [fillRow EXCEPT ![id] = NewRow("offer", "fillable", gives, held, want, o)]
  /\ UNCHANGED <<surroundings, fills, sent, task, deferrals, stock, mishaps>>

(* A tick reads a row, what lies at its script, the inventory and the price, asks the approval gate, and decides; *)
(* what it decided is written later, on the state it read. *)
whenQuoted(id) == IF late THEN "fail" ELSE IF Largest(fillRow[id].script) # {} THEN "fund" ELSE "wait"
(* evaluateAssetFill: in time, enough deposited, enough held. *)
evaluateAssetFill(id) ==
  /\ ~late /\ stock[fillRow[id].gives] >= fillRow[id].to
  /\ \E seen \in Largest(fillRow[id].script) : deposit[seen].amount >= fillRow[id].from
Gated(id) == IF id \in asked THEN "claim" ELSE "wait"
whenFunded(id) == IF evaluateAssetFill(id) THEN Gated(id) ELSE "fail"
whenFillable(id) == IF offerWithinTolerance(fillRow[id].gives, fillRow[id].from, fillRow[id].to, feed) THEN Gated(id) ELSE "fail"
(* whenFilling, recoverFilling: a fill found under way is another's or an earlier life's. *)
whenFilling(id) == IF fillRow[id].phase = "selecting" THEN "revert" ELSE "fail"
drive(id) ==
  CASE fillRow[id].state = "quoted" -> whenQuoted(id)
    [] fillRow[id].state = "funded" -> whenFunded(id)
    [] fillRow[id].state = "fillable" -> whenFillable(id)
    [] fillRow[id].state = "filling" -> whenFilling(id)
Look(w, id) ==
  /\ task[w] = NoTask /\ fillRow[id].kind = svc[w] /\ Open(id)
  /\ \E verdict \in {drive(id)} \ {"wait"} :
       \E out \in IF verdict \in {"fund", "claim"} /\ svc[w] = "rfq" THEN Largest(fillRow[id].script) ELSE {fillRow[id].out} :
         task' = [task EXCEPT ![w] = [pc |-> verdict, id |-> id, state |-> fillRow[id].state, out |-> out]]
  /\ UNCHANGED <<surroundings, fillRow, fills, sent, deferrals, stock, mishaps>>
Act(w) ==
  LET id == task[w].id
      from == task[w].state
  IN /\ \/ task[w].pc = "fail" /\ Fail(id, from) /\ Rest(w)
        \/ task[w].pc = "revert" /\ revertUnsubmitted(id) /\ Rest(w)
        \/ /\ task[w].pc = "fund" /\ Rest(w)
           /\ fillRow' = IF fillRow[id].state # from THEN fillRow ELSE [fillRow EXCEPT ![id].state = "funded", ![id].out = task[w].out]
        \/ /\ task[w].pc = "claim" /\ fillRow[id].state = from
           /\ fillRow' = [fillRow EXCEPT ![id].state = "filling", ![id].phase = "selecting", ![id].out = task[w].out]
           /\ task' = [task EXCEPT ![w].pc = "settle", ![w].state = "filling"]
        \/ task[w].pc = "claim" /\ fillRow[id].state # from /\ fillRow' = fillRow /\ Rest(w)
     /\ UNCHANGED <<surroundings, fills, sent, deferrals, stock, mishaps>>

(* The deposit to spend: a quote's is the one recorded when it was funded, an offer's the one it was found at. *)
quotedOfferSettle(w) == fillRow[task[w].id].out
offerSettle(w) == task[w].out
(* The deposit must be live and worth the price struck; then fulfillOffer picks coins. *)
settle(w) ==
  LET id == task[w].id
      out == IF svc[w] = "rfq" THEN quotedOfferSettle(w) ELSE offerSettle(w)
  IN /\ task[w].pc = "settle"
     /\ task' = [task EXCEPT ![w].out = out,
          ![w].pc = IF ~(deposit[out].fate = "live" /\ deposit[out].amount >= fillRow[id].from) THEN "fail"
                    ELSE IF stock[fillRow[id].gives] < fillRow[id].to THEN "defer" ELSE "mark"]
     /\ UNCHANGED <<surroundings, fillRow, fills, sent, deferrals, stock, mishaps>>
markSubmitting(w) ==
  LET id == task[w].id
  IN /\ task[w].pc = "mark"
     /\ IF MaySubmit(id) THEN fillRow' = [fillRow EXCEPT ![id].phase = "submitting"] /\ StepTo(w, "send")
                         ELSE fillRow' = fillRow /\ StepTo(w, "defer")
     /\ UNCHANGED <<surroundings, fills, sent, deferrals, stock, mishaps>>
fillOffer(w) ==
  /\ task[w].pc = "send" /\ StepTo(w, "await")
  /\ fills' = fills \cup {[id |-> task[w].id, out |-> task[w].out]}
  /\ sent' = [sent EXCEPT ![task[w].id] = @ + 1]
  /\ UNCHANGED <<surroundings, fillRow, deferrals, stock, mishaps>>
Pending(w) == [id |-> task[w].id, out |-> task[w].out] \in fills
TakenBy(id, out) == deposit[out].fate = "taken" /\ deposit[out].by = id
Answered(w) ==
  /\ task[w].pc = "await" /\ TakenBy(task[w].id, task[w].out) /\ Rest(w)
  /\ Swap(task[w].id, "filling", "filled", fillRow[task[w].id].phase)
  /\ UNCHANGED <<surroundings, fills, sent, deferrals, stock, mishaps>>
(* The server refuses what it cannot execute; an answer may also be lost with the fill still on its way. *)
Impossible(w) == deposit[task[w].out].fate # "live" \/ stock[fillRow[task[w].id].gives] < fillRow[task[w].id].to
Rejected(w) ==
  /\ task[w].pc = "await" /\ Pending(w) /\ Impossible(w) /\ StepTo(w, "fail")
  /\ fills' = fills \ {[id |-> task[w].id, out |-> task[w].out]}
  /\ UNCHANGED <<surroundings, fillRow, sent, deferrals, stock, mishaps>>
LostAnswer(w) ==
  /\ task[w].pc = "await" /\ mishaps < MaxMishaps /\ mishaps' = mishaps + 1 /\ StepTo(w, "fail")
  /\ UNCHANGED <<surroundings, fillRow, fills, sent, deferrals, stock>>
(* OfferNotSubmittedError: back to where it was, an offer only so many times. *)
Deferred(w) ==
  LET id == task[w].id
      n == deferrals[w][id] + 1
  IN /\ task[w].pc = "defer" /\ Rest(w)
     /\ IF svc[w] = "rfq" THEN revertUnsubmitted(id) /\ UNCHANGED deferrals
        ELSE IF n <= MaxDeferrals
        THEN revertUnsubmitted(id) /\ deferrals' = IF Selecting(id) THEN [deferrals EXCEPT ![w][id] = n] ELSE deferrals
        ELSE Fail(id, "filling") /\ UNCHANGED deferrals
     /\ UNCHANGED <<surroundings, fills, sent, stock, mishaps>>
DeskCrash(w) ==
  /\ task[w] # NoTask /\ mishaps < MaxMishaps /\ mishaps' = mishaps + 1 /\ Rest(w)
  /\ deferrals' = [deferrals EXCEPT ![w] = [id \in FillIds |-> 0]]
  /\ UNCHANGED <<surroundings, fillRow, fills, sent, stock>>
(* parkVia, by an operator. *)
park(id) ==
  /\ fillRow[id].kind = "rfq" /\ Open(id) /\ mishaps < MaxMishaps /\ mishaps' = mishaps + 1
  /\ Fail(id, fillRow[id].state)
  /\ UNCHANGED <<surroundings, fills, sent, task, deferrals, stock>>

-----------------------------------------------------------------------------
(* External: the chain, the makers, the market, the operator, the clock. *)
ExecuteFill(f) ==
  /\ f \in fills /\ deposit[f.out].fate = "live" /\ stock[fillRow[f.id].gives] >= fillRow[f.id].to
  /\ deposit' = [deposit EXCEPT ![f.out] = [fate |-> "taken", by |-> f.id, script |-> @.script, amount |-> @.amount]]
  /\ stock' = [stock EXCEPT ![fillRow[f.id].gives] = @ - fillRow[f.id].to]
  /\ fills' = fills \ {f}
  /\ UNCHANGED <<svc, fillRow, sent, task, deferrals, feed, asked, late, deskEvents, mishaps>>
others == <<svc, fillRow, fills, sent, task, deferrals, mishaps>>
Deposit(o, script, amount) ==
  /\ deposit[o] = NoDeposit /\ \A p \in Out : p < o => deposit[p] # NoDeposit
  /\ deposit' = [deposit EXCEPT ![o] = [fate |-> "live", script |-> script, amount |-> amount]]
  /\ UNCHANGED <<others, feed, stock, asked, late, deskEvents>>
MakerDeposits ==
  \E o \in Out :
    \/ \E id \in FillIds, slip \in Slips : fillRow[id].kind = "rfq" /\ Deposit(o, fillRow[id].script, fillRow[id].from + slip)
    \/ \E offer \in Offers : Deposit(o, Script(offer.gives, offer.want), offer.amount)
Event == deskEvents < MaxEvents /\ deskEvents' = deskEvents + 1 /\ UNCHANGED others
MakerReclaims(o) ==
  /\ Event /\ deposit[o].fate = "live" /\ deposit' = [deposit EXCEPT ![o].fate = "reclaimed"]
  /\ UNCHANGED <<feed, stock, asked, late>>
FeedMoves == Event /\ feed' \in Feeds \ {feed} /\ UNCHANGED <<deposit, stock, asked, late>>
Approve(id) == Event /\ fillRow[id] # NoFill /\ id \notin asked /\ asked' = asked \cup {id} /\ UNCHANGED <<deposit, feed, stock, late>>
StockSpent(gives) == Event /\ stock[gives] > 0 /\ stock' = [stock EXCEPT ![gives] = 0] /\ UNCHANGED <<deposit, feed, asked, late>>
Expire == ~late /\ late' = TRUE /\ UNCHANGED <<others, deposit, feed, stock, asked, deskEvents>>

WorkerStep(w) ==
  \/ \E id \in FillIds : Look(w, id)
  \/ Act(w) \/ settle(w) \/ markSubmitting(w) \/ fillOffer(w) \/ Answered(w) \/ Rejected(w) \/ Deferred(w)
AssetNext ==
  \/ \E w \in Worker, id \in FillIds : (\A other \in FillIds : other < id => fillRow[other] # NoFill)
       /\ ((\E ask \in Asks : quote(w, id, ask)) \/ (\E o \in Out : consider(w, id, o)))
  \/ \E w \in Worker : WorkerStep(w) \/ LostAnswer(w) \/ DeskCrash(w)
  \/ \E id \in FillIds : park(id) \/ Approve(id)
  \/ \E f \in fills : ExecuteFill(f)
  \/ MakerDeposits \/ FeedMoves \/ Expire
  \/ \E o \in Out : MakerReclaims(o)
  \/ \E gives \in {trade.gives : trade \in Asks \cup Offers} : StockSpent(gives)
AssetSpec == AssetInit /\ [][AssetNext]_assetVars

-----------------------------------------------------------------------------
(* A fill is sent at most once per row, and a row that had one sent never says it had none. *)
SentOnce == \A id \in FillIds : sent[id] <= 1 /\ (sent[id] = 1 => fillRow[id].phase = "submitting" /\ fillRow[id].state \in {"filling", "filled", "stuck"})
(* A filled row took the deposit on its record, and whatever a row took was worth the amount it priced. *)
TakesItsDeposit ==
  /\ \A id \in FillIds : fillRow[id].state = "filled" => TakenBy(id, fillRow[id].out)
  /\ \A o \in Out : deposit[o].fate = "taken" =>
       /\ deposit[o].amount >= fillRow[deposit[o].by].from
       /\ deposit[o].script = fillRow[deposit[o].by].script
(* No two rows of one kind hold one deposit or one script. *)
OneHolder ==
  \A a, b \in FillIds : a # b /\ fillRow[a].kind = fillRow[b].kind /\ fillRow[a].kind # "none" /\ {fillRow[a].state, fillRow[b].state} \subseteq Holding =>
    IF fillRow[a].kind = "rfq" THEN fillRow[a].script # fillRow[b].script ELSE fillRow[a].out # fillRow[b].out
(* Nobody gains by trading back at the price just struck; an amount asked for exactly costs the least that pays it. *)
(* These are facts about numbers, looked at before anything happens. *)
Prices ==
  fillRow = [id \in FillIds |-> NoFill] /\ deposit = [o \in Out |-> NoDeposit] /\ deskEvents = 0 =>
    \A ask \in PriceCases, price \in Feeds :
      \E terms \in {resolveAssetQuote(ask, price)} : terms # Refused =>
        /\ ExactIn([gives |-> ~ask.gives, amount |-> terms.to], price).to <= terms.from
        /\ ask.side = "to" =>
             /\ ExactIn([gives |-> ask.gives, amount |-> terms.from], price).to >= terms.to
             /\ ExactIn([gives |-> ask.gives, amount |-> terms.from - 1], price).to < terms.to
(* Asset fills over crashes, lost answers, two workers and makers that deposit twice or reclaim. *)
FillsTellTheTruth == SentOnce /\ TakesItsDeposit /\ OneHolder

(* Every quote and every offer an operator lets pass ends. *)
FillEnded(id) == fillRow[id] # NoFill /\ ~Open(id)
EveryFillEnds == \A id \in FillIds : (fillRow[id] # NoFill /\ (fillRow[id].kind = "rfq" \/ id \in asked)) ~> FillEnded(id)
=============================================================================
