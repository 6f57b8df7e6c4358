------------------------------- MODULE Books -------------------------------
(***************************************************************************)
(* The balance checkpoints that watch for lost money                        *)
(* (ops/balanceCheckpoints.ts, guardedRead.ts) and the journal of operator   *)
(* withdrawals they read (admin/db.ts, admin/routes/actions.ts,              *)
(* ops/arkadeFunds.ts).  A checkpoint reads the withdrawal journal, the      *)
(* Arkade balance and the other BTC balances one after another while         *)
(* transfers, withdrawals, losses and gains go on, and explains what it can. *)
(* `other` is Lightning and on-chain together; Arkade assets, which are      *)
(* compared without any attribution, are left out, as are reminders.         *)
(***************************************************************************)
EXTENDS Integers, Sequences, FiniteSets, SequencesExt

CONSTANTS
  Ids,            \* rebalances, numbered in the order they are charged
  Withdrawals,    \* operator withdrawals, other numbers
  Debit, Fee,     \* debitSats and feeSats of a rebalance: what it may take, and the fee within it
  Amount, Quoted, \* amountSats of a withdrawal and its quoted fee
  Limit,          \* UNRECOVERED_LIMIT
  Casts           \* what may happen in one behaviour: the transfers and withdrawals, losses, gains and checkpoints

VARIABLES
  cast,           \* the member of Casts at play
  arkade, other,  \* the money, as the rails hold it
  transfer,       \* the rebalance journal and, beside it, what became of the money
  withdrawal,     \* the operator_withdrawal journal and, beside it, the payment
  last,           \* the latest complete checkpoint
  reading,        \* the checkpoint being read
  now, checks, lost, gained,
  torn            \* the world moved while the checkpoint was being read

money == <<arkade, other>>
vars == <<cast, money, transfer, withdrawal, last, reading, now, checks, lost, gained, torn>>

NoTransfer == [state |-> "none", charged |-> 0, updated |-> 0, over |-> {}, txid |-> FALSE, took |-> 0, fate |-> "none"]
NoWithdrawal == [state |-> "none", created |-> 0, fee |-> -1, reference |-> FALSE, at |-> "idle", wire |-> FALSE, took |-> 0]
Credited == Debit - Fee
Idle == [at |-> "idle"]
pendingRebalance(id) == transfer[id].state \in {"submitting", "pending"}
Stir == torn' = (reading.at # "idle")

-----------------------------------------------------------------------------
(* A rebalance, as its journal row and the rails tell it (ops/rebalance.ts).  *)
(* rebalanceOverlapReady: a second transfer may join the one under way only   *)
(* when the latest checkpoint has seen that one's debit.                      *)
rebalanceOverlapReady(id) ==
  /\ last.reb.deferred.on => last.reb.deferred.over = 0 /\ last.reb.deferred.ids = {id}
  /\ last.reb.delayed = {} /\ last.decreases = {}
  /\ id \in DOMAIN last.reb.pending
  /\ last.reb.pending[id].observed /\ last.reb.pending[id].debit > 0 /\ last.started >= transfer[id].charged
Charge(id) ==
  /\ id \in cast.rows /\ transfer[id].state = "none"
  /\ \A o \in Ids : o < id => transfer[o].state # "none"
  /\ LET active == {o \in Ids : pendingRebalance(o)} IN
       /\ \A o \in active : Cardinality(active) = 1 /\ transfer[o].txid /\ rebalanceOverlapReady(o)
       /\ transfer' = [transfer EXCEPT ![id] = [@ EXCEPT !.state = "submitting", !.charged = now, !.updated = now, !.over = active]]
  /\ Stir
  /\ UNCHANGED <<money, withdrawal, last, reading, now, checks, lost, gained>>
Fund(id, debit) ==
  /\ transfer[id].state = "submitting" /\ transfer[id].took = 0 /\ arkade >= debit
  /\ arkade' = arkade - debit
  /\ transfer' = [transfer EXCEPT ![id] = [@ EXCEPT !.state = "pending", !.txid = TRUE, !.took = debit, !.updated = now]]
  /\ Stir
  /\ UNCHANGED <<other, withdrawal, last, reading, now, checks, lost, gained>>
Arrive(id, fate) ==
  /\ transfer[id].state = "pending" /\ transfer[id].fate = "none"
  /\ other' = IF fate = "completed" THEN other + Credited ELSE other
  /\ arkade' = IF fate = "refunded" THEN arkade + transfer[id].took ELSE arkade
  /\ transfer' = [transfer EXCEPT ![id].fate = fate]
  /\ Stir
  /\ UNCHANGED <<withdrawal, last, reading, now, checks, lost, gained>>
Close(id) ==
  /\ transfer[id].state = "pending" /\ transfer[id].fate # "none"
  /\ transfer' = [transfer EXCEPT ![id] = [@ EXCEPT !.state = transfer[id].fate, !.updated = now]]
  /\ Stir
  /\ UNCHANGED <<money, withdrawal, last, reading, now, checks, lost, gained>>

-----------------------------------------------------------------------------
(* A withdrawal: the row is written before anything is pinned, and again just *)
(* before the payment leaves.                                                 *)
Moves == [preparing |-> {"sending", "uncertain", "failed"}, sending |-> {"sent", "uncertain"},
          uncertain |-> {"sent", "failed"}, sent |-> {}, failed |-> {}]
transitionOperatorWithdrawal(w, to, rest) ==
  /\ to \in Moves[withdrawal[w].state]
  /\ withdrawal' = [withdrawal EXCEPT ![w] = [rest EXCEPT !.state = to]]
Elsewhere == Stir /\ UNCHANGED <<transfer, last, reading, now, checks, lost, gained>>

createOperatorWithdrawal(w) ==
  /\ w \in cast.rows /\ withdrawal[w].state = "none"
  /\ withdrawal' = [withdrawal EXCEPT ![w] = [@ EXCEPT !.state = "preparing", !.created = now, !.at = "quoting"]]
  /\ Elsewhere /\ UNCHANGED money
NothingSent(w) ==
  /\ withdrawal[w].at = "quoting"
  /\ transitionOperatorWithdrawal(w, "failed", [withdrawal[w] EXCEPT !.at = "done"])
  /\ Elsewhere /\ UNCHANGED money
onSending(w) ==
  /\ withdrawal[w].at = "quoting"
  /\ transitionOperatorWithdrawal(w, "sending", [withdrawal[w] EXCEPT !.fee = Quoted, !.at = "sending", !.wire = TRUE])
  /\ Elsewhere /\ UNCHANGED money
(* The payment reaches the rail, or never does. *)
Leaves(w, fee) ==
  /\ withdrawal[w].wire /\ arkade >= Amount + fee
  /\ arkade' = arkade - Amount - fee
  /\ withdrawal' = [withdrawal EXCEPT ![w] = [@ EXCEPT !.wire = FALSE, !.took = Amount + fee]]
  /\ Elsewhere /\ UNCHANGED other
Drops(w) ==
  /\ withdrawal[w].wire
  /\ withdrawal' = [withdrawal EXCEPT ![w].wire = FALSE]
  /\ Elsewhere /\ UNCHANGED money
Sent(w) ==
  /\ withdrawal[w].at = "sending" /\ withdrawal[w].took > 0
  /\ transitionOperatorWithdrawal(w, "sent", [withdrawal[w] EXCEPT !.reference = TRUE, !.at = "done"])
  /\ Elsewhere /\ UNCHANGED money
Unanswered(w) ==
  /\ withdrawal[w].at = "sending"
  /\ transitionOperatorWithdrawal(w, "uncertain", [withdrawal[w] EXCEPT !.at = "done"])
  /\ Elsewhere /\ UNCHANGED money
(* The operator closes what no process will close, on evidence (runbook.md):  *)
(* what the history shows as settled was sent, for what it really took; what  *)
(* is on no wire any more was not.                                            *)
Reconcile(w) ==
  /\ withdrawal[w].at = "done" /\ withdrawal[w].state \in {"sending", "uncertain", "sent"}
  /\ \/ /\ withdrawal[w].took > 0
        /\ withdrawal' = [withdrawal EXCEPT ![w] = [@ EXCEPT !.state = "sent", !.reference = TRUE, !.fee = withdrawal[w].took - Amount]]
        /\ withdrawal' # withdrawal
     \/ /\ ~withdrawal[w].wire /\ withdrawal[w].took = 0
        /\ withdrawal' = [withdrawal EXCEPT ![w].state = "failed"]
  /\ Elsewhere /\ UNCHANGED money
(* A crash, or a journal write that fails, leaves the row where it is. *)
Forgotten(w) ==
  /\ withdrawal[w].at \in {"quoting", "sending"}
  /\ withdrawal' = [withdrawal EXCEPT ![w].at = "done"]
  /\ Elsewhere /\ UNCHANGED money

-----------------------------------------------------------------------------
(* The rest of the world. *)
Lose(n) ==
  /\ lost = 0 /\ n \in cast.losses /\ lost' = n
  /\ \/ arkade >= n /\ arkade' = arkade - n /\ UNCHANGED other
     \/ other >= n /\ other' = other - n /\ UNCHANGED arkade
  /\ Stir
  /\ UNCHANGED <<transfer, withdrawal, last, reading, now, checks, gained>>
Gain ==
  /\ gained < cast.gains /\ gained' = gained + 1
  /\ \/ arkade' = arkade + 1 /\ UNCHANGED other
     \/ other' = other + 1 /\ UNCHANGED arkade
  /\ Stir
  /\ UNCHANGED <<transfer, withdrawal, last, reading, now, checks, lost>>

-----------------------------------------------------------------------------
(* What a checkpoint makes of its samples, given the latest complete one.     *)
Pos(n) == IF n > 0 THEN n ELSE 0
Least(a, b) == IF a < b THEN a ELSE b
Sum(f) == FoldFunctionOnSet(LAMBDA a, b : a + b, 0, f, DOMAIN f)
completionAllowance(id, debit) ==
  IF transfer[id].state = "completed" THEN Least(Fee, Pos(debit - Credited)) ELSE 0
NotDeferred == [on |-> FALSE, level |-> 0, since |-> 0, ids |-> {}, over |-> 0, held |-> {}]
HeldNow(prev) == IF prev.decreases = {} THEN {} ELSE {prev.id}

(* checkpointTransfers, and the tracked rows it no longer lists.              *)
Since(prev) ==
  Min({prev.started} \cup {transfer[id].charged : id \in DOMAIN prev.reb.pending}
      \cup (IF prev.reb.deferred.on THEN {prev.reb.deferred.since} ELSE {}))
(* Mutant: a row charged in the second of the baseline is taken for old. *)
ListedAfter(prev) ==
  {id \in Ids : \/ transfer[id].state # "none" /\ transfer[id].charged > Since(prev)
                \/ pendingRebalance(id)
                \/ id \in prev.reb.deferred.ids \cup prev.wd.rids}
Listed(prev) ==
  {id \in Ids : \/ transfer[id].state # "none" /\ transfer[id].charged >= Since(prev)
                \/ pendingRebalance(id)
                \/ id \in prev.reb.deferred.ids \cup prev.wd.rids}

(* accountRebalances: first the rows this checkpoint meets, then the debits   *)
(* not seen yet, each from what is left of the drop.                          *)
Meet(prev, acc, id) ==
  IF id \in prev.reb.seen \/ id \in DOMAIN acc.pending THEN acc
  ELSE IF pendingRebalance(id)
  THEN [acc EXCEPT !.pending = (id :> [observed |-> FALSE, debit |-> 0, remaining |-> 0]) @@ @]
  ELSE LET debit == Least(acc.source, Debit)
           explained == Least(acc.decrease, completionAllowance(id, debit))
       IN [acc EXCEPT !.fee = @ + explained, !.decrease = @ - explained, !.source = @ - debit]
Observe(acc, id) ==
  IF acc.pending[id].observed \/ acc.source = 0 THEN acc
  ELSE LET debit == Least(acc.source, Debit)
           explained == Least(acc.decrease, debit)
       IN [acc EXCEPT !.pending[id] = [observed |-> TRUE, debit |-> debit, remaining |-> explained],
                      !.decrease = @ - explained, !.source = @ - debit]
Drop(prev, r) == Pos(prev.arkade - r.arkade)
Rise(prev, r) == r.arkade + r.other - prev.total
Met(prev, r, rows) ==
  FoldLeft(LAMBDA acc, id : Meet(prev, acc, id),
           [pending |-> prev.reb.pending, fee |-> prev.reb.fee, decrease |-> Pos(-Rise(prev, r)), source |-> Drop(prev, r)],
           SetToSortSeq(rows, <))
Observed(met) == FoldLeft(Observe, met, SetToSortSeq(DOMAIN met.pending, <))
Deferral(prev, r, open) ==
  LET earlier == prev.reb.deferred
      ambiguousRise == open # {} /\ (Rise(prev, r) > 0 \/ Drop(prev, r) > Pos(-Rise(prev, r)))
  IN IF earlier.on THEN IF open = {} /\ DOMAIN prev.reb.pending = {} THEN NotDeferred ELSE [earlier EXCEPT !.ids = @ \cup open]
     ELSE IF ambiguousRise
     THEN [on |-> TRUE, level |-> prev.reb.cmp, ids |-> open, over |-> 0, held |-> HeldNow(prev),
           since |-> Min({prev.finished} \cup {transfer[id].charged : id \in open})]
     ELSE NotDeferred
accountRebalances(prev, r, rows, seen, open, deferred) ==
  LET fee == seen.fee + Sum([id \in DOMAIN seen.pending \ open |-> completionAllowance(id, seen.pending[id].debit)])
  IN [prev.reb EXCEPT
        !.cmp = IF deferred.on THEN deferred.level
                ELSE r.arkade + r.other + fee + Sum([id \in open |-> seen.pending[id].remaining]),
        !.fee = fee, !.seen = rows, !.pending = [id \in open |-> seen.pending[id]],
        !.deferred = deferred, !.delayed = IF deferred.on THEN {} ELSE prev.reb.deferred.held]

(* accountDeferredRebalances: two transfers at once are not told apart; they  *)
(* are waited for, and a checkpoint begun after they ended takes their fees.  *)
Marker(prev, rows) == {id \in rows : transfer[id].over # {} /\ id \notin prev.reb.done}
Overlapping(prev, rows) == prev.reb.deferred.over # 0 \/ Marker(prev, rows) # {}
Joined(prev, marker) ==
  LET ids == transfer[marker].over \cup {marker}
  IN IF prev.reb.deferred.on THEN [prev.reb.deferred EXCEPT !.ids = @ \cup ids, !.over = marker]
     ELSE [on |-> TRUE, level |-> prev.reb.cmp, over |-> marker, ids |-> ids, held |-> HeldNow(prev),
           since |-> Min({prev.started, transfer[marker].charged} \cup
                         {transfer[id].charged : id \in DOMAIN prev.reb.pending})]
Ended(deferred, started) ==
  \A id \in deferred.ids : ~pendingRebalance(id) /\ started > transfer[id].updated
accountDeferredRebalances(prev, r, rows) ==
  LET prior == prev.reb
      held == prior.deferred
      waits(deferred) == [prior EXCEPT !.cmp = deferred.level, !.seen = @ \cup rows, !.pending = <<>>,
                                       !.deferred = deferred, !.delayed = {}]
      allowed == Sum([id \in held.ids |-> completionAllowance(id, Debit)])
  IN IF held.over = 0 THEN waits(Joined(prev, Min(Marker(prev, rows))))
     ELSE IF ~Ended(held, r.started) THEN waits(held)
     ELSE [prior EXCEPT !.cmp = r.arkade + r.other + prior.fee + allowed, !.fee = @ + allowed, !.unsure = @ + allowed,
                        !.done = @ \cup {held.over}, !.seen = @ \cup rows, !.pending = <<>>,
                        !.deferred = NotDeferred, !.delayed = held.held]

(* accountOperatorWithdrawals: a withdrawal is explained once its payment and *)
(* those of the rebalances beside it are in the settled history and the drop  *)
(* of the Arkade balance covers them all; until then BTC is not judged.       *)
historyDebit(id, history) == IF id \in history THEN (IF id \in Ids THEN transfer[id].took ELSE withdrawal[id].took) ELSE -1
NoJournal == [cmp |-> 0, seen |-> {}, drop |-> 0, reserved |-> 0, rids |-> {}, basis |-> <<>>, pending |-> {},
              ambiguous |-> FALSE, on |-> FALSE, held |-> {}, delayed |-> {}]
newRebalanceSourceDebits(prev, rows) ==
  {id \in rows : IF id \in DOMAIN prev.reb.pending THEN ~prev.reb.pending[id].observed ELSE id \notin prev.reb.seen}
Tracked(prev, journal) ==
  LET fresh == DOMAIN journal \ prev.wd.seen
  IN prev.wd.pending \cup {w \in fresh : w \in prev.wd.pending \/ journal[w].state # "failed"}
Live(pending, journal) == {w \in pending : journal[w].state \notin {"preparing", "failed"}}
(* The rebalances whose debits may be mixed up with the withdrawals', and the *)
(* debit each one's fee allowance was worked out from.                        *)
Mixed(prev, rows, live) == prev.wd.rids \cup (IF live = {} THEN {} ELSE newRebalanceSourceDebits(prev, rows))
Basis(prev, reb, rids) ==
  LET from(id) == IF id \in rids /\ id \in DOMAIN reb.pending THEN reb.pending[id].debit
                  ELSE IF id \in rids /\ id \in DOMAIN prev.reb.pending THEN prev.reb.pending[id].debit
                  ELSE prev.wd.basis[id]
  IN [id \in DOMAIN prev.wd.basis \cup (rids \cap (DOMAIN reb.pending \cup DOMAIN prev.reb.pending)) |-> from(id)]
Actual(id, history) == historyDebit(id, IF transfer[id].txid THEN history ELSE {})
Terminal(rids) == \A id \in rids : ~pendingRebalance(id)
EvidenceComplete(rids, basis, live, r) ==
  /\ Terminal(rids)
  /\ Cardinality({w \in live : ~r.journal[w].reference}) <= 1
  /\ \A id \in rids : id \in DOMAIN basis /\ Actual(id, r.history) \in 1..Debit
Exact(row) == IF row.state = "sent" /\ row.reference THEN Amount + row.fee ELSE -2
Proved(r, reb, live, evidence, drop, reserved) ==
  /\ live # {} /\ ~reb.deferred.on /\ evidence
  /\ \A w \in live : Exact(r.journal[w]) = historyDebit(w, r.history)
  /\ drop >= reserved + Sum([w \in live |-> Exact(r.journal[w])])
accountOperatorWithdrawals(prev, r, reb, pending, live, rids, basis, evidence) ==
  LET prior == prev.wd
      drop == prior.drop + (IF live # {} THEN Drop(prev, r) ELSE 0)
      correct == evidence /\ ~reb.deferred.on
      correction == IF ~correct THEN 0
                    ELSE Sum([id \in rids |-> completionAllowance(id, Actual(id, r.history)) - completionAllowance(id, basis[id])])
      reserved == IF evidence THEN Sum([id \in rids |-> Actual(id, r.history)])
                  ELSE prior.reserved + Debit * Cardinality(rids \ prior.rids)
      explained == IF Proved(r, reb, live, evidence, drop, reserved) THEN {w \in pending : r.journal[w].reference} ELSE {}
      debit == Sum([w \in explained |-> Amount + r.journal[w].fee])
      remaining == {w \in pending \ explained : r.journal[w].state # "failed"}
      deferred == \E w \in remaining : r.journal[w].state # "preparing"
      seen == prior.seen \cup ((DOMAIN r.journal \cup pending) \ remaining)
  IN [explained |-> debit, correction |-> correction,
      state |-> IF deferred
                THEN [cmp |-> prior.cmp - debit, seen |-> seen, drop |-> drop, reserved |-> reserved, rids |-> rids,
                      pending |-> remaining, ambiguous |-> rids # {} /\ Terminal(rids) /\ ~evidence,
                      basis |-> IF correct THEN [id \in rids |-> Actual(id, r.history)] @@ basis ELSE basis,
                      on |-> TRUE, held |-> IF prior.on THEN prior.held ELSE HeldNow(prev), delayed |-> {}]
                ELSE [NoJournal EXCEPT !.cmp = reb.cmp + correction, !.seen = seen, !.pending = remaining, !.delayed = prior.held]]

-----------------------------------------------------------------------------
(* recordBalanceCheckpoint.  Of the decreases, each is followed until the     *)
(* level it fell from is back; while BTC is not judged none is given up.      *)
ListedWithdrawals(prev) ==
  LET since == Min({prev.started} \cup {withdrawal[w].created : w \in prev.wd.pending})
      rows == {w \in Withdrawals : withdrawal[w].state # "none" /\
                 (withdrawal[w].created >= since \/ withdrawal[w].state \in {"sending", "uncertain"})}
  IN [w \in rows |-> [state |-> withdrawal[w].state, fee |-> withdrawal[w].fee, reference |-> withdrawal[w].reference]]

(* The clock moves between checkpoints; the balances are read in one go, with *)
(* a history in which some of the payments have settled.                      *)
Executed == {t \in Ids : transfer[t].took > 0} \cup {w \in Withdrawals : withdrawal[w].took > 0}
Begin(passed) ==
  /\ reading.at = "idle" /\ checks < cast.checks
  /\ now' = now + passed /\ torn' = FALSE
  /\ \E journal \in {ListedWithdrawals(last)} :
       \E history \in IF \E w \in DOMAIN journal : journal[w].state = "sent" THEN SUBSET Executed ELSE {{}} :
         reading' = [at |-> "read", started |-> now', journal |-> journal, arkade |-> arkade, other |-> other, history |-> history]
  /\ UNCHANGED <<money, transfer, withdrawal, last, checks, lost, gained>>
(* A read that fails, or a journal that changed meanwhile: the checkpoint is  *)
(* incomplete, and the baseline stays.                                        *)
Incomplete ==
  /\ reading.at = "read" /\ reading' = Idle /\ checks' = checks + 1
  /\ UNCHANGED <<money, transfer, withdrawal, last, now, lost, gained, torn>>

(* Nothing is under way, and what was sent is on record as it happened.       *)
Quiet(r) ==
  /\ ~torn
  /\ \A id \in Ids : ~pendingRebalance(id) /\ (transfer[id].state # "none" => transfer[id].updated < r.started)
  /\ \A w \in Withdrawals : \/ withdrawal[w].state \in {"none", "failed"}
                            \/ withdrawal[w].state = "preparing" /\ withdrawal[w].at = "done"
                            \/ withdrawal[w].state = "sent" /\ Amount + withdrawal[w].fee = withdrawal[w].took
  /\ (\E w \in DOMAIN r.journal : r.journal[w].state = "sent") => r.history = Executed
(* A transfer ended and another was charged between two checkpoints. *)
Blurred(prev, rows) ==
  \E a, b \in rows : /\ a # b /\ b \notin prev.reb.seen
                     /\ ~pendingRebalance(a) /\ (a \in DOMAIN prev.reb.pending \/ a \notin prev.reb.seen)
Followed(prev, explained) ==
  {[d EXCEPT !.before = @ - explained] :
     d \in prev.unrecovered \cup {[id |-> prev.id, before |-> d.before, unsure |-> d.unsure] : d \in prev.decreases}}
isBack(d, level, reb, btcDeferred) == ~btcDeferred /\ level - reb.unsure >= d.before - d.unsure
(* The decreases held back by a deferral are kept before any other. *)
Capped(open, protected) ==
  protected \cup {d \in open \ protected : Cardinality({e \in open \ protected : e.id >= d.id}) + Cardinality(protected) <= Limit}
Checkpoint(prev, r, reb, wd, followed, explained, id) ==
  LET btcDeferred == reb.deferred.on \/ wd.on
      fell == wd.cmp < prev.wd.cmp - explained /\ ~btcDeferred
      held == {d.id : d \in followed} \cap
              UNION {reb.deferred.held, wd.held, reb.delayed, wd.delayed, prev.reb.deferred.held, prev.wd.held}
      open == {d \in followed : ~isBack(d, wd.cmp, reb, btcDeferred)}
      atHand == UNION {reb.deferred.held, wd.held, reb.delayed, wd.delayed}
  IN [id |-> id, started |-> r.started, finished |-> now, arkade |-> r.arkade, total |-> r.arkade + r.other,
      reb |-> IF reb.deferred.on THEN [reb EXCEPT !.deferred.held = held] ELSE reb,
      wd |-> IF wd.on THEN [wd EXCEPT !.held = held] ELSE wd,
      decreases |-> IF fell THEN {[before |-> prev.wd.cmp - explained, unsure |-> prev.reb.unsure]} ELSE {},
      unrecovered |-> Capped(open, {d \in open : d.id \in atHand}),
      torn |-> torn \/ prev.torn \/ Blurred(prev, reb.seen), gone |-> lost - gained,
      quiet |-> Quiet(r), again |-> prev.quiet]
Finish ==
  /\ reading.at = "read"
  /\ ListedWithdrawals(last) = reading.journal
  /\ \E rows \in {Listed(last)} : \E seen \in {Observed(Met(last, reading, rows))} :
     \E open \in {{id \in DOMAIN seen.pending : pendingRebalance(id)}} :
     \E reb \in {IF Overlapping(last, rows) THEN accountDeferredRebalances(last, reading, rows)
                 ELSE accountRebalances(last, reading, rows, seen, open, Deferral(last, reading, open))} :
     \E pending \in {Tracked(last, reading.journal)} : \E live \in {Live(pending, reading.journal)} :
     \E rids \in {Mixed(last, rows, live)} : \E basis \in {Basis(last, reb, rids)} :
     \E evidence \in {EvidenceComplete(rids, basis, live, reading)} :
     \E wd \in {accountOperatorWithdrawals(last, reading, reb, pending, live, rids, basis, evidence)} :
     \E corrected \in {[reb EXCEPT !.cmp = @ + wd.correction, !.fee = @ + wd.correction]} :
     \E followed \in {Followed(last, wd.explained)} :
       last' = Checkpoint(last, reading, corrected, wd.state, followed, wd.explained, checks + 1)
  /\ checks' = checks + 1 /\ reading' = Idle
  /\ UNCHANGED <<money, transfer, withdrawal, now, lost, gained, torn>>

-----------------------------------------------------------------------------
(* The books open with the checkpoint a solver takes when it first starts. *)
BooksInit ==
  /\ cast \in Casts
  /\ arkade = 8 /\ other = 3
  /\ transfer = [id \in Ids |-> NoTransfer] /\ withdrawal = [w \in Withdrawals |-> NoWithdrawal]
  /\ reading = Idle /\ torn = FALSE
  /\ now = 0 /\ checks = 1 /\ lost = 0 /\ gained = 0
  /\ last = [id |-> 1, started |-> 0, finished |-> 0, arkade |-> arkade, total |-> arkade + other,
             reb |-> [cmp |-> arkade + other, fee |-> 0, unsure |-> 0, done |-> {}, seen |-> {}, pending |-> <<>>,
                      deferred |-> NotDeferred, delayed |-> {}],
             wd |-> [NoJournal EXCEPT !.cmp = arkade + other], decreases |-> {}, unrecovered |-> {},
             torn |-> FALSE, gone |-> 0, quiet |-> TRUE, again |-> FALSE]
BooksNext ==
  /\ UNCHANGED cast
  /\ \/ \E id \in Ids : \/ Charge(id) \/ Close(id)
                        \/ \E debit \in Credited..Debit : Fund(id, debit)
                        \/ \E fate \in {"completed", "refunded"} : Arrive(id, fate)
     \/ \E w \in Withdrawals :
          \/ createOperatorWithdrawal(w) \/ NothingSent(w) \/ onSending(w) \/ Drops(w) \/ Sent(w) \/ Unanswered(w)
          \/ Forgotten(w) \/ Reconcile(w)
          \/ \E fee \in {0, Quoted} : Leaves(w, fee)
     \/ (\E n \in cast.losses : Lose(n)) \/ Gain
     \/ (\E passed \in 0..1 : Begin(passed)) \/ Incomplete \/ Finish
BooksSpec == BooksInit /\ [][BooksNext]_vars

-----------------------------------------------------------------------------
Judged(c) == ~c.reb.deferred.on /\ ~c.wd.on
(* Money that left unexplained is followed once nothing is under way, beyond  *)
(* what the fee allowances of completed transfers may hide.                   *)
Slack ==
  Sum([id \in {i \in Ids : transfer[i].state = "completed"} |->
         Debit - transfer[id].took + (IF \A w \in Withdrawals : withdrawal[w].state = "none" THEN 0 ELSE Fee)])
LossIsFollowed ==
  last.quiet /\ Judged(last) /\ last.gone > Slack => last.decreases # {} \/ last.unrecovered # {}
(* A rebalance or a journaled withdrawal never looks like a loss, read in one *)
(* piece and unless one transfer ended and the next began between two reads.  *)
NoFalseAlarm == lost = 0 /\ ~last.torn => last.decreases = {}
(* When all has settled, the second checkpoint judges BTC again; an operator  *)
(* has to help where withdrawals and rebalances cannot be told apart, or      *)
(* where money that came back to Arkade hides a withdrawal's debit.           *)
CameBack == gained > 0 \/ \E id \in Ids : transfer[id].state = "refunded"
ChecksResume ==
  last.quiet /\ last.again =>
    /\ ~last.reb.deferred.on
    /\ last.wd.on => last.wd.ambiguous \/ CameBack
(* Balance checkpoints tell a loss from a transfer. *)
BooksBalance == LossIsFollowed /\ NoFalseAlarm /\ ChecksResume
(* A completed rebalance explains no more than its fee (docs/runbook.md). *)
FeesAreBounded == last.reb.fee <= Fee * Cardinality({id \in Ids : transfer[id].state = "completed"})
=============================================================================
