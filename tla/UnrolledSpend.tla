--------------------------- MODULE UnrolledSpend ---------------------------
(***************************************************************************)
(* Lockups the client moved onto Bitcoin.  The send legs claim them         *)
(* (unrolledSpendStep.ts, whenClaiming), the receive legs refund them       *)
(* (whenRefunding); arkade/unrolledSpend.ts makes the transaction, which    *)
(* arkd co-signs once per output.  A spend is recorded before arkd is       *)
(* asked, so that one whose answer was lost is followed and not repeated.   *)
(*                                                                          *)
(* Time is counted in ADVANCE_INTERVALs.  A spend's fee rate is its name:   *)
(* the same rate makes the same transaction.  An unroll is confirmed when   *)
(* it is seen; bidding against the client's anchor child is left out.       *)
(***************************************************************************)
EXTENDS Integers, FiniteSets, FiniteSetsExt

CONSTANTS
  Worker,        \* processes
  Settings,      \* [leg, outs, crew, dusty, rates, faults]: what a behaviour is about, and a bound on its faults
  SlowRate,      \* the fee rate that needs a child to confirm
  RefundAt,      \* refundLocktime
  ExpiresAt,     \* htlcExpiresAt, when the preimage is worth nothing any more
  ExitDelay,     \* from an unroll to the client's solo leaf
  Margin,        \* COSIGN_EXIT_MARGIN_SECONDS
  Retry,         \* RETRY_AFTER_SECONDS
  BumpAfter,     \* BUMP_AFTER_SECONDS
  MaxTime        \* the last instant stands for all later ones

(* A receive row keeps one unrolled_refund record, so its lockup is one output; a transaction's name is never 0. *)
ASSUME SpendAssumption ==
  /\ {RefundAt, ExpiresAt, ExitDelay, Margin, BumpAfter, MaxTime} \subseteq Int /\ Retry \in Nat \ {0}
  /\ \A s \in Settings :
       /\ s.leg \in {"claim", "refund"} /\ s.outs \subseteq Nat /\ s.rates \subseteq Nat \ {0}
       /\ s.crew \subseteq Worker /\ IsFiniteSet(s.crew)
       /\ s.leg = "refund" => \A o, p \in s.outs : o = p

VARIABLES
  setting,       \* the one of Settings that is followed
  state,         \* the row: "open" (claiming, refunding), "done", "learnt" (the client's claim was found), "stuck"
  steps,         \* unrolled_claim, unrolled_refund: the last step kept per output
  where,         \* the outputs on Arkade: live, claimed, refunded (by the client), unrolled
  l1,            \* what became of an unrolled one
  lag,           \* outputs whose newest spend no explorer shows yet
  last,          \* lastAdvance, per worker and output
  job,           \* what a worker is doing
  clock,
  faults         \* crashes, lost answers, failed reads and dropped transactions so far

spendVars == <<setting, state, steps, where, l1, lag, last, job, clock, faults>>
leg == setting.leg
Outs == setting.outs
AllOuts == UNION {s.outs : s \in Settings}

-----------------------------------------------------------------------------
Step(kind, tx, raw, at, cpfp) == [kind |-> kind, tx |-> tx, raw |-> raw, at |-> at, cpfp |-> cpfp]
Mark(kind) == Step(kind, 0, FALSE, 0, FALSE)
NoStep == Mark("none")
Record(tx, at) == Step("pending", tx, FALSE, at, FALSE)
NotUnrolled == [since |-> 0, signed |-> 0, at |-> "none", child |-> "none"]
Idle == [pc |-> "idle"]

SpendInit ==
  /\ setting \in Settings /\ state = "open" /\ steps = [o \in AllOuts |-> NoStep]
  /\ where = [o \in AllOuts |-> "live"] /\ l1 = [o \in AllOuts |-> NotUnrolled] /\ lag = {}
  /\ last = [w \in Worker |-> [o \in AllOuts |-> -1]] /\ job = [w \in Worker |-> Idle]
  /\ clock = 0 /\ faults = 0

Unrolled == {o \in Outs : where[o] = "unrolled"}
Live == {o \in Outs : where[o] = "live"}
Slow(tx) == tx = SlowRate
Elapsed(at, time) == clock - at >= time \/ (clock = MaxTime /\ lag = {})
Fault == faults < setting.faults /\ faults' = faults + 1
chain == <<where, l1, lag>>

(* What an explorer shows of the spend of an output: nothing, ours or the client's. *)
Shown(o) == IF l1[o].at \in {"mempool", "ours"} /\ o \notin lag THEN "ours" ELSE IF l1[o].at = "theirs" THEN "theirs" ELSE "none"
cosignWindowClosed(o) == clock >= l1[o].since + ExitDelay - Margin
(* adopt: a spend that pays our boarding script is ours, whatever the record says. *)
adopt(o, rec) == IF rec.tx = l1[o].signed THEN [rec EXCEPT !.raw = TRUE] ELSE [Record(l1[o].signed, clock) EXCEPT !.raw = TRUE]

-----------------------------------------------------------------------------
(* A tick: the row and the outputs still on Arkade, then the ones on Bitcoin. *)
Read(w) ==
  /\ job[w] = Idle /\ w \in setting.crew /\ state = "open"
  /\ job' = [job EXCEPT ![w] = [pc |-> "find", steps |-> steps, outputs |-> Live, todo |-> {}, keys |-> {}, rec |-> NoStep]]
  /\ UNCHANGED <<setting, state, steps, chain, last, clock, faults>>
(* preimages.find: a refund first looks for the client's claim. *)
Revealed == leg = "refund" /\ \E o \in Outs : where[o] = "refunded" \/ l1[o].at = "theirs"
Found(w) == Unrolled \cup {o \in Outs : leg = "claim" /\ job[w].steps[o] # NoStep}
Find(w) ==
  /\ job[w].pc = "find"
  /\ IF Revealed THEN state' = (IF state = "open" THEN "learnt" ELSE state) /\ job' = [job EXCEPT ![w] = Idle]
     ELSE /\ state' = state
          /\ job' = [job EXCEPT ![w].pc = "advance", ![w].keys = Found(w),
                                ![w].todo = {o \in Found(w) : job[w].steps[o].kind # "confirmed"}]
  /\ UNCHANGED <<setting, steps, chain, last, clock, faults>>

(* advance: not twice within the interval. *)
Current(w) == Min(job[w].todo)
Waiting(w, o) == last[w][o] = clock /\ clock < MaxTime
Done(w) == [job[w] EXCEPT !.pc = "advance", !.todo = @ \ {Current(w)}]
Throw(w) == job' = [job EXCEPT ![w] = Done(w)] /\ UNCHANGED <<state, steps>>
(* keep: the whole column is written from this worker's copy of it.  A refund keeps its record and acts on the step. *)
keep(w, step) ==
  LET o == Current(w)
      copy == [job[w].steps EXCEPT ![o] = step]
  IN IF leg = "claim" THEN
       /\ steps' = IF step = job[w].steps[o] THEN steps ELSE copy
       /\ state' = state /\ job' = [job EXCEPT ![w] = [Done(w) EXCEPT !.steps = copy]]
     ELSE
       /\ steps' = IF step.kind \in {"pending", "confirmed"} /\ step # job[w].steps[o] THEN [steps EXCEPT ![o] = step] ELSE steps
       /\ state' = IF state # "open" THEN state
                   ELSE IF step.kind = "confirmed" THEN "done"
                   ELSE IF step.kind \in {"spent", "closed"} /\ clock >= ExpiresAt THEN "stuck" ELSE state
       /\ job' = [job EXCEPT ![w] = Idle]
Wait(w) ==
  /\ job[w].pc = "advance" /\ job[w].todo # {} /\ Waiting(w, Current(w)) /\ Throw(w)
  /\ UNCHANGED <<setting, chain, last, clock, faults>>
Begin(w) == job[w].pc = "advance" /\ job[w].todo # {} /\ ~Waiting(w, Current(w)) /\ last' = [last EXCEPT ![w][Current(w)] = clock]
Known(w) == job[w].steps[Current(w)].kind = "pending"

(* start may not run before the refund leaf opens. *)
TooEarly == leg = "refund" /\ clock < RefundAt
Follow(w) ==
  LET o == Current(w)
      rec == adopt(o, job[w].steps[o])
  IN /\ Begin(w) /\ Shown(o) # "none" /\ (Known(w) \/ ~TooEarly)
     /\ IF Shown(o) = "theirs" THEN keep(w, Mark("spent"))
        ELSE IF l1[o].at = "ours" THEN keep(w, [rec EXCEPT !.kind = "confirmed"])
        ELSE job' = [job EXCEPT ![w].pc = "bump", ![w].rec = rec] /\ UNCHANGED <<state, steps>>
     /\ UNCHANGED <<setting, chain, clock, faults>>
(* track, with nothing to see: sent again if its bytes are known, else waited for, else given up, else begun again. *)
StartOver(w) == Known(w) => LET rec == job[w].steps[Current(w)] IN ~rec.raw /\ Elapsed(rec.at, Retry) /\ ~cosignWindowClosed(Current(w))
Resend(w) ==
  LET o == Current(w)
      rec == job[w].steps[o]
  IN /\ Begin(w) /\ Shown(o) = "none" /\ Known(w) /\ ~StartOver(w)
     /\ IF rec.raw THEN
             /\ keep(w, rec)
             /\ l1' = [l1 EXCEPT ![o].at = IF @ = "dropped" /\ l1[o].signed = rec.tx THEN "mempool" ELSE @]
        ELSE keep(w, IF ~Elapsed(rec.at, Retry) THEN rec ELSE Mark("closed")) /\ l1' = l1
     /\ UNCHANGED <<setting, where, lag, clock, faults>>

(* push: refused for an output that cannot pay for its spend; recorded before arkd is asked. *)
Starts(w) == Begin(w) /\ Shown(Current(w)) = "none" /\ StartOver(w) /\ (leg = "refund" => ~TooEarly)
TooSmall(w) ==
  /\ Starts(w) /\ Current(w) \in setting.dusty /\ keep(w, Mark("closed"))
  /\ UNCHANGED <<setting, chain, clock, faults>>
push(w) ==
  LET o == Current(w)
  IN /\ Starts(w) /\ o \notin setting.dusty
     /\ \E rate \in setting.rates :
          LET rec == Record(rate, clock)
          IN /\ steps' = IF leg = "claim" THEN [job[w].steps EXCEPT ![o] = rec] ELSE [steps EXCEPT ![o] = rec]
             /\ job' = [job EXCEPT ![w].pc = "cosign", ![w].rec = rec, ![w].steps = [job[w].steps EXCEPT ![o] = rec]]
     /\ UNCHANGED <<setting, state, chain, clock, faults>>
EarlyWait(w) ==
  /\ Begin(w) /\ Shown(Current(w)) = "none" /\ StartOver(w) /\ TooEarly /\ Throw(w)
  /\ UNCHANGED <<setting, chain, clock, faults>>
PushFails(w) ==
  /\ Starts(w) /\ Fault
  /\ IF cosignWindowClosed(Current(w)) THEN keep(w, Mark("closed")) ELSE Throw(w)
  /\ UNCHANGED <<setting, chain, clock>>

(* arkd signs an output once, for whoever asks first, until the solo leaf opens. *)
Matured(o) == clock >= l1[o].since + ExitDelay
WillSign(o) == l1[o].signed = 0 /\ l1[o].at = "none" /\ ~Matured(o)
Signed(o, tx) == l1' = [l1 EXCEPT ![o].signed = tx, ![o].at = "mempool"]
Cosign(w) ==
  LET o == Current(w)
  IN /\ job[w].pc = "cosign" /\ WillSign(o) /\ Signed(o, job[w].rec.tx)
     /\ \/ keep(w, [job[w].rec EXCEPT !.raw = TRUE]) /\ UNCHANGED <<lag, faults>>
        \/ keep(w, job[w].rec) /\ lag' = lag \cup {o} /\ Fault
     /\ UNCHANGED <<setting, where, last, clock>>
(* An answer lost; a refusal. *)
CosignLost(w) ==
  /\ job[w].pc = "cosign" /\ WillSign(Current(w)) /\ Signed(Current(w), job[w].rec.tx) /\ Fault
  /\ \E hidden \in {{}, {Current(w)}} : lag' = lag \cup hidden
  /\ job' = [job EXCEPT ![w].pc = "refused"]
  /\ UNCHANGED <<setting, state, steps, where, last, clock>>
CosignRefused(w) ==
  /\ job[w].pc = "cosign" /\ ~WillSign(Current(w)) /\ job' = [job EXCEPT ![w].pc = "refused"]
  /\ UNCHANGED <<setting, state, steps, chain, last, clock, faults>>
(* Mutant: a closed window ends it even when the spend was recorded. *)
SavedIsForgotten(w) == Mark("closed")
Saved(w) == job[w].rec
Refused(w) ==
  /\ job[w].pc = "refused"
  /\ IF cosignWindowClosed(Current(w)) THEN keep(w, Saved(w))
     ELSE IF leg = "claim" THEN Throw(w) ELSE job' = [job EXCEPT ![w] = Idle] /\ UNCHANGED <<state, steps>>
  /\ UNCHANGED <<setting, chain, last, clock, faults>>

(* keepChild and bump: a slow spend gets one child, sent again when it is dropped. *)
(* Mutant: the comparison of fee rates the wrong way round. *)
BumpDueWhenFast(w) == ~job[w].rec.cpfp /\ Elapsed(job[w].rec.at, BumpAfter) /\ ~Slow(job[w].rec.tx)
BumpDue(w) == ~job[w].rec.cpfp /\ Elapsed(job[w].rec.at, BumpAfter) /\ Slow(job[w].rec.tx)
bump(w) ==
  LET o == Current(w)
      rec == job[w].rec
  IN /\ job[w].pc = "bump"
     /\ \/ /\ ~BumpDue(w) /\ keep(w, rec)
           /\ l1' = [l1 EXCEPT ![o].child = IF rec.cpfp /\ @ = "dropped" THEN "mempool" ELSE @]
        \/ /\ BumpDue(w) /\ l1[o].child \in {"none", "mempool"}
           /\ keep(w, [rec EXCEPT !.cpfp = TRUE, !.at = IF l1[o].child = "none" THEN clock ELSE @])
           /\ l1' = [l1 EXCEPT ![o].child = "mempool"]
     /\ UNCHANGED <<setting, where, lag, last, clock, faults>>
(* The child's answer is lost, or arkd signed one that was dropped: only the time is kept. *)
BumpLost(w) ==
  LET o == Current(w)
      rec == [job[w].rec EXCEPT !.at = clock]
  IN /\ job[w].pc = "bump" /\ BumpDue(w)
     /\ \/ l1[o].child = "none" /\ Fault /\ l1' = [l1 EXCEPT ![o].child = "mempool"]
        \/ l1[o].child = "dropped" /\ UNCHANGED <<l1, faults>>
     /\ IF leg = "claim" THEN keep(w, rec)
        ELSE steps' = [steps EXCEPT ![o] = rec] /\ job' = [job EXCEPT ![w] = Idle] /\ state' = state
     /\ UNCHANGED <<setting, where, lag, last, clock>>

-----------------------------------------------------------------------------
(* whenClaiming, after its L1 claims have had their turn. *)
Ready(w) == leg = "claim" /\ job[w].pc = "advance" /\ job[w].todo = {}
Kind(w, o) == job[w].steps[o].kind
SettledClaims(w) == \A o \in job[w].keys : Kind(w, o) \in {"spent", "closed", "confirmed"}
LostClaims(w) == \E o \in job[w].keys : Kind(w, o) \in {"spent", "closed"}
End(w, to) == state' = (IF state = "open" THEN to ELSE state) /\ job' = [job EXCEPT ![w] = Idle]
LateOr(w, to) == IF clock >= RefundAt THEN End(w, to) ELSE End(w, state)
(* Too little on Arkade and nothing on Bitcoin: a claim of an earlier life may be found and finished. *)
Short(w) ==
  /\ Ready(w) /\ job[w].keys = {} /\ job[w].outputs # Outs
  /\ IF \E o \in Outs : where[o] \in {"claimed", "refunded"}
       THEN End(w, "stuck") \/ ((\A o \in Outs : where[o] = "claimed") /\ End(w, "done"))
       ELSE LateOr(w, "stuck")
  /\ UNCHANGED <<setting, steps, chain, last, clock, faults>>
(* One Arkade transaction takes every output read at the start of the tick, or none. *)
ClaimOffchain(w) ==
  /\ Ready(w) /\ (job[w].keys # {} \/ job[w].outputs = Outs)
  /\ IF job[w].outputs \subseteq Live
       THEN /\ where' = [o \in AllOuts |-> IF o \in job[w].outputs THEN "claimed" ELSE where[o]]
            /\ \/ state' = state /\ job' = [job EXCEPT ![w].pc = "left"] /\ faults' = faults
               \/ job[w].outputs # {} /\ Fault /\ LateOr(w, "stuck")
       ELSE where' = where /\ faults' = faults /\ LateOr(w, "stuck")
  /\ UNCHANGED <<setting, steps, l1, lag, last, clock>>
(* lockupLeftover: adopted and collected by neither rail. *)
uncollected(w, o) ==
  o \notin job[w].outputs /\ IF where[o] = "unrolled" THEN Kind(w, o) # "confirmed" ELSE where[o] # "claimed"
Leftover(w) == {o \in Outs : uncollected(w, o)}
settleClaims(w) ==
  /\ job[w].pc = "left"
  /\ IF SettledClaims(w) /\ Leftover(w) # {} THEN LateOr(w, "stuck")
     ELSE IF ~SettledClaims(w) THEN End(w, state)
     ELSE End(w, IF LostClaims(w) THEN "stuck" ELSE "done")
  /\ UNCHANGED <<setting, steps, chain, last, clock, faults>>
(* A refund with nothing on Bitcoin is the corridor's other path. *)
NothingUnrolled(w) ==
  /\ leg = "refund" /\ job[w].pc = "advance" /\ job[w].todo = {} /\ job' = [job EXCEPT ![w] = Idle]
  /\ UNCHANGED <<setting, state, steps, chain, last, clock, faults>>

Crash(w) ==
  /\ job[w] # Idle /\ Fault /\ job' = [job EXCEPT ![w] = Idle] /\ last' = [last EXCEPT ![w] = [o \in AllOuts |-> -1]]
  /\ UNCHANGED <<setting, state, steps, chain, clock>>

-----------------------------------------------------------------------------
(* External: the client, Bitcoin, the explorer, the clock. *)
rest == <<setting, state, steps, last, job>>
Unroll(o) ==
  /\ o \in Live /\ where' = [where EXCEPT ![o] = "unrolled"] /\ l1' = [l1 EXCEPT ![o].since = clock]
  /\ UNCHANGED <<rest, lag, clock, faults>>
ClientMay == leg = "refund" \/ clock >= RefundAt
ClientTakes(o) ==
  /\ ClientMay /\ UNCHANGED <<rest, lag, clock, faults>>
  /\ \/ o \in Live /\ where' = [where EXCEPT ![o] = "refunded"] /\ l1' = l1
     \/ /\ o \in Unrolled /\ l1[o].at \in {"none", "mempool", "dropped"} /\ (WillSign(o) \/ Matured(o))
        /\ l1' = [l1 EXCEPT ![o].at = "theirs"] /\ where' = where
Mine(o) ==
  /\ l1[o].at = "mempool" /\ (Slow(l1[o].signed) => l1[o].child = "mempool") /\ l1' = [l1 EXCEPT ![o].at = "ours"]
  /\ UNCHANGED <<rest, where, lag, clock, faults>>
Drop(o) ==
  /\ Fault /\ UNCHANGED <<rest, where, lag, clock>>
  /\ \/ l1[o].at = "mempool" /\ l1' = [l1 EXCEPT ![o].at = "dropped", ![o].child = IF @ = "mempool" THEN "dropped" ELSE @]
     \/ l1[o].at = "mempool" /\ l1[o].child = "mempool" /\ l1' = [l1 EXCEPT ![o].child = "dropped"]
Appear(o) == o \in lag /\ lag' = lag \ {o} /\ UNCHANGED <<rest, where, l1, clock, faults>>
(* arkd answers, and explorers show a spend, well within RETRY_AFTER_SECONDS. *)
Tick ==
  /\ clock < MaxTime /\ lag = {} /\ \A w \in Worker : job[w].pc # "cosign"
  /\ clock' = clock + 1 /\ UNCHANGED <<rest, chain, faults>>

SpenderStep(w) ==
  \/ Read(w) \/ Find(w) \/ Wait(w) \/ Follow(w) \/ Resend(w) \/ TooSmall(w) \/ push(w) \/ EarlyWait(w)
  \/ Cosign(w) \/ CosignRefused(w) \/ Refused(w) \/ bump(w) \/ BumpLost(w)
  \/ Short(w) \/ ClaimOffchain(w) \/ settleClaims(w) \/ NothingUnrolled(w)
SpendNext ==
  \/ \E w \in Worker : SpenderStep(w) \/ PushFails(w) \/ CosignLost(w) \/ Crash(w)
  \/ \E o \in AllOuts : Unroll(o) \/ ClientTakes(o) \/ Mine(o) \/ Drop(o) \/ Appear(o)
  \/ Tick
SpendSpec == SpendInit /\ [][SpendNext]_spendVars

-----------------------------------------------------------------------------
(* A row that ended well has every lockup it adopted: claimed on Arkade, or spent by us on Bitcoin. *)
DoneIsCollected == state = "done" => \A o \in Outs : where[o] = "claimed" \/ l1[o].at = "ours"
(* A spend of ours that can still confirm, or has, is never written off by a worker that has the row to itself. *)
LiveSpendIsFollowed ==
  Cardinality(setting.crew) = 1 => \A o \in Outs : l1[o].at \in {"mempool", "ours"} => steps[o].kind \notin {"closed", "spent"}
(* A refund is not parked while the client's claim could still be used. *)
ParkedOnlyWhenWorthless == leg = "refund" /\ state = "stuck" => clock >= ExpiresAt
(* A claim on Bitcoin ends a row only when its output is really gone or ours. *)
SpendsAreKept == DoneIsCollected /\ LiveSpendIsFollowed /\ ParkedOnlyWhenWorthless

(* A row whose lockup was unrolled ends, when one worker has it to itself. *)
UnrolledHasEnded == Cardinality(setting.crew) = 1 /\ Unrolled # {} => state # "open"
=============================================================================
