------------------------------ MODULE Notices -------------------------------
(***************************************************************************)
(* What the operator is told as it happens: the notice of a swap's end with *)
(* the balances read after it, the queue notices are delivered from, the    *)
(* on-chain float quotes are admitted against, and the backoff of a row     *)
(* whose steps fail.  The four share no state; `part` names the one a       *)
(* behaviour follows.                                                       *)
(***************************************************************************)
EXTENDS Integers, Sequences, FiniteSets, FiniteSetsExt, SequencesExt

CONSTANTS
  Parts,        \* the parts followed: "outcomes", "float", "errors"
  Swaps,        \* the swaps that end
  MaxQueue,     \* notices waiting for delivery, at most
  MaxSamples,   \* bound on timed samples and fetches
  Coins,        \* confirmed sats of the on-chain wallet at the start
  FirstBackoff, MaxBackoff, StaleAfter,   \* tickErrors.ts, in clock steps
  LastInstant   \* bound on the clock

VARIABLES
  part,
  moved,        \* the swaps that ended, in order
  told,         \* how far the notice of each swap is
  flight,       \* createBalanceSampler: the read under way
  turn,         \* refreshAfter: a read promised for when the one under way ends
  reading,      \* the balances held, by side: how many ends each one saw, {} when unread
  samples,      \* timed samples taken
  notes,        \* the notices posted
  queue, scheduled, draining, stats, delivered,   \* createNotifier
  coins, held, fetch, drawn,                      \* the on-chain wallet, its sampler, what was withdrawn
  clock, failure, lines, due                      \* TickErrorTracker; the failures each printed line told; the retry each row was promised

outcomes == <<moved, told, flight, turn, reading, samples, notes, queue, scheduled, draining, stats, delivered>>
float == <<coins, held, fetch, drawn>>
errors == <<clock, failure, lines, due>>
vars == <<part, outcomes, float, errors>>

-----------------------------------------------------------------------------
(* The end of a swap and the balances beside it: ops/businessEvents.ts. *)

Sides == {"arkade", "lightning"}
NoFlight == [on |-> FALSE]
Starting == [on |-> TRUE, left |-> Sides, got |-> [x \in Sides |-> {}], failed |-> FALSE]
NoTurn == [on |-> FALSE, waits |-> FALSE]

\* A terminal state is fulfilled or failed; of the failed, only `stuck` is told.
outcomeOfTransition(to) == CASE to = "claimed" -> "fulfilled" [] to \in {"stuck", "refused"} -> "failed" [] OTHER -> "none"
Notable(to) == outcomeOfTransition(to) # "none" /\ (outcomeOfTransition(to) = "failed" => to = "stuck")

\* The store announces the transition; the notice is left to a microtask.
announceTransition(s, to) ==
  /\ told[s] = "open"
  /\ moved' = Append(moved, s)
  /\ told' = [told EXCEPT ![s] = IF Notable(to) THEN "deferred" ELSE "untold"]
  /\ UNCHANGED <<flight, turn, reading, samples, notes, queue, scheduled, draining, stats, delivered>>

\* A promised read is joined; otherwise one is promised, after the one under way.
Promise == IF turn.on THEN turn ELSE [on |-> TRUE, waits |-> flight.on]
refresh(s) ==
  /\ told[s] = "deferred"
  /\ told' = [told EXCEPT ![s] = "promised"]
  /\ turn' = Promise
  /\ UNCHANGED <<moved, flight, reading, samples, notes, queue, scheduled, draining, stats, delivered>>

\* A turn nothing holds back is a microtask: no answer of a backend, and no
\* timer, comes before it.
Due == turn.on /\ ~turn.waits
takeTurn ==
  /\ Due
  /\ turn' = NoTurn
  /\ flight' = IF flight.on THEN flight ELSE Starting
  /\ told' = [s \in Swaps |-> IF told[s] = "promised" THEN "reading" ELSE told[s]]
  /\ UNCHANGED <<moved, reading, samples, notes, queue, scheduled, draining, stats, delivered>>

sample ==
  /\ samples < MaxSamples /\ ~flight.on
  /\ samples' = samples + 1 /\ flight' = Starting
  /\ UNCHANGED <<moved, told, turn, reading, notes, queue, scheduled, draining, stats, delivered>>

readSide(x) ==
  /\ flight.on /\ x \in flight.left /\ ~Due
  /\ flight' \in {[flight EXCEPT !.left = @ \ {x}, !.got[x] = {Len(moved)}],
                  [flight EXCEPT !.left = @ \ {x}, !.failed = TRUE]}
  /\ UNCHANGED <<moved, told, turn, reading, samples, notes, queue, scheduled, draining, stats, delivered>>

\* A side that failed keeps the sample held before.
remember(previous, next) == IF next = {} THEN previous ELSE next
endRead ==
  /\ flight.on /\ flight.left = {} /\ ~Due
  /\ reading' = [x \in Sides |-> remember(reading[x], flight.got[x])]
  /\ told' = [s \in Swaps |-> IF told[s] # "reading" THEN told[s] ELSE IF flight.failed THEN "unrefreshed" ELSE "refreshed"]
  /\ turn' = [turn EXCEPT !.waits = FALSE]
  /\ flight' = NoFlight
  /\ UNCHANGED <<moved, samples, notes, queue, scheduled, draining, stats, delivered>>

refreshTimesOut(s) ==
  /\ told[s] \in {"promised", "reading"} /\ ~Due
  /\ told' = [told EXCEPT ![s] = "unrefreshed"]
  /\ UNCHANGED <<moved, flight, turn, reading, samples, notes, queue, scheduled, draining, stats, delivered>>

-----------------------------------------------------------------------------
(* Delivery: ops/notify.ts. *)

\* The oldest notice makes room; delivery starts in a microtask of its own.
post(s) ==
  /\ told[s] \in {"refreshed", "unrefreshed"}
  /\ told' = [told EXCEPT ![s] = "posted"]
  /\ notes' = notes \cup {[swap |-> s, shows |-> reading, refreshed |-> told[s] = "refreshed"]}
  /\ queue' = Append(IF Len(queue) >= MaxQueue THEN Tail(queue) ELSE queue, s)
  /\ stats' = IF Len(queue) >= MaxQueue THEN [stats EXCEPT !.dropped = @ + 1] ELSE stats
  /\ scheduled' = (scheduled \/ draining = {})
  /\ UNCHANGED <<moved, flight, turn, reading, samples, draining, delivered>>

startDrain ==
  /\ scheduled
  /\ scheduled' = FALSE
  /\ IF draining = {}
     THEN draining' = {Head(queue)} /\ queue' = Tail(queue)
     ELSE UNCHANGED <<draining, queue>>
  /\ UNCHANGED <<moved, told, flight, turn, reading, samples, notes, stats, delivered>>

\* Every sink is tried, a few times each; the next notice follows at once.
Upnext == IF queue = <<>> THEN {} ELSE {Head(queue)}
deliver ==
  /\ \E text \in draining, reached \in BOOLEAN :
       /\ stats' = IF reached THEN [stats EXCEPT !.sent = @ + 1] ELSE [stats EXCEPT !.failed = @ + 1]
       /\ delivered' = IF reached THEN Append(delivered, text) ELSE delivered
  /\ draining' = Upnext
  /\ queue' = IF queue = <<>> THEN queue ELSE Tail(queue)
  /\ UNCHANGED <<moved, told, flight, turn, reading, samples, notes, scheduled>>

-----------------------------------------------------------------------------
(* The on-chain float: ops/floatSampler.ts, and the withdrawal that clears it. *)

NoFetch == [on |-> FALSE]

\* A quote reads the float; an old or missing reading starts a fetch beside it.
startFetch ==
  /\ ~fetch.on /\ samples < MaxSamples
  /\ fetch' = [on |-> TRUE, saw |-> {}] /\ samples' = samples + 1
  /\ UNCHANGED <<coins, held, drawn>>
getBalance ==
  /\ fetch.on /\ fetch.saw = {}
  /\ fetch' = [fetch EXCEPT !.saw = {[sats |-> coins, drawn |-> drawn, raced |-> FALSE]}]
  /\ UNCHANGED <<coins, held, drawn, samples>>
endFetch ==
  /\ fetch.on
  /\ held' \in {held} \cup {{f} : f \in fetch.saw}
  /\ fetch' = NoFetch
  /\ UNCHANGED <<coins, drawn, samples>>

\* The coins leave, and only then is the reading cleared.
railWithdraw(amount) ==
  /\ amount <= coins
  /\ coins' = coins - amount /\ drawn' = drawn + 1 /\ held' = {}
  /\ fetch' = IF fetch.on THEN [fetch EXCEPT !.saw = {[f EXCEPT !.raced = TRUE] : f \in @}] ELSE fetch
  /\ UNCHANGED samples

-----------------------------------------------------------------------------
(* The backoff of failing rows: ops/tickErrors.ts. *)

NoFailure == [on |-> FALSE]
PowersOfTwo == {1, 2, 4, 8, 16}
prune(f) == [s \in Swaps |-> IF f[s].on /\ clock - f[s].last > StaleAfter THEN NoFailure ELSE f[s]]

shouldSkip(s) == failure[s].on /\ clock < failure[s].next

\* The first failure of a kind is told; its repeats at every power of two.
record(s, signature) ==
  /\ ~shouldSkip(s)
  /\ IF ~failure[s].on \/ failure[s].signature # signature
     THEN /\ failure' = [prune(failure) EXCEPT ![s] = [on |-> TRUE, signature |-> signature, count |-> 1,
                          backoff |-> FirstBackoff, next |-> clock + FirstBackoff, unreported |-> 0, last |-> clock]]
          /\ lines' = [lines EXCEPT ![s] = <<1>>]
     ELSE \E backoff \in {Min({failure[s].backoff * 2, MaxBackoff})}, prints \in {failure[s].count + 1 \in PowersOfTwo} :
          /\ failure' = [failure EXCEPT ![s] = [@ EXCEPT !.last = clock, !.count = @ + 1, !.backoff = backoff,
                            !.next = clock + backoff, !.unreported = IF prints THEN 0 ELSE @ + 1]]
          /\ lines' = IF prints THEN [lines EXCEPT ![s] = Append(@, failure[s].unreported + 1)] ELSE lines
  /\ due' = [due EXCEPT ![s] = failure'[s].next]
  /\ UNCHANGED clock
clear(s) ==
  /\ failure[s].on /\ ~shouldSkip(s)
  /\ failure' = [failure EXCEPT ![s] = NoFailure]
  /\ UNCHANGED <<clock, lines, due>>
Passes == clock < LastInstant /\ clock' = clock + 1 /\ UNCHANGED <<failure, lines, due>>

-----------------------------------------------------------------------------
Init ==
  /\ part \in Parts
  /\ moved = <<>> /\ told = [s \in Swaps |-> "open"] /\ flight = NoFlight /\ turn = NoTurn
  /\ reading = [x \in Sides |-> {}] /\ samples = 0 /\ notes = {}
  /\ queue = <<>> /\ scheduled = FALSE /\ draining = {} /\ delivered = <<>>
  /\ stats = [sent |-> 0, failed |-> 0, dropped |-> 0]
  /\ coins = Coins /\ held = {} /\ fetch = NoFetch /\ drawn = 0
  /\ clock = 0 /\ failure = [s \in Swaps |-> NoFailure] /\ lines = [s \in Swaps |-> <<>>] /\ due = [s \in Swaps |-> 0]

OutcomeNext ==
  \/ \E s \in Swaps : refresh(s) \/ refreshTimesOut(s) \/ post(s)
  \/ \E s \in Swaps, to \in {"claimed", "stuck", "refused"} : announceTransition(s, to)
  \/ \E x \in Sides : readSide(x)
  \/ takeTurn \/ sample \/ endRead \/ startDrain \/ deliver
FloatNext ==
  /\ startFetch \/ getBalance \/ endFetch \/ \E amount \in 1..Coins : railWithdraw(amount)
  /\ UNCHANGED <<moved, told, flight, turn, reading, notes, queue, scheduled, draining, stats, delivered>>
ErrorNext == Passes \/ \E s \in Swaps : clear(s) \/ \E signature \in {"arkd", "lnd"} : record(s, signature)

Next ==
  /\ UNCHANGED part
  /\ \/ part = "outcomes" /\ OutcomeNext /\ UNCHANGED <<float, errors>>
     \/ part = "float" /\ FloatNext /\ UNCHANGED errors
     \/ part = "errors" /\ ErrorNext /\ UNCHANGED <<outcomes, float>>
Spec == Init /\ [][Next]_vars

-----------------------------------------------------------------------------
(* Properties. *)

\* A notice that does not say "balances not refreshed" shows, on every side,
\* a balance read after its swap ended.
NoticesAreFresh ==
  \A n \in notes : n.refreshed =>
    \A x \in Sides : \E v \in n.shows[x] : \E i \in 1..v : moved[i] = n.swap

\* No notice waits with nobody to deliver it, and each one posted is waiting,
\* under way, sent, given up on or counted as dropped, in the order posted.
NoticesAreHandled ==
  /\ queue # <<>> => scheduled \/ draining # {}
  /\ Cardinality(notes) = Len(queue) + stats.sent + stats.failed + stats.dropped + Cardinality(draining)
  /\ IsInjective(delivered \o queue)

\* A float reading is of the wallet after every withdrawal, but for a fetch
\* that was under way when the withdrawal cleared the reading.
Taken(f) == f.drawn = drawn
FloatIsFresh == \A f \in held : Taken(f)
FloatIsFreshUnlessFetching == \A f \in held : Taken(f) \/ f.raced

\* Every failure of a row is told by a printed line or counted for the next
\* one, and a row waits out its backoff whatever other rows do.
ErrorsAreTold ==
  \A s \in Swaps :
    /\ failure[s].on => FoldSeq(+, 0, lines[s]) + failure[s].unreported = failure[s].count
    /\ failure[s].on => failure[s].next <= failure[s].last + MaxBackoff
    /\ clock < due[s] => shouldSkip(s)

NoticesAreTrue ==
  /\ NoticesAreFresh
  /\ NoticesAreHandled
  /\ FloatIsFreshUnlessFetching
  /\ ErrorsAreTold
============================================================================
