---------------------------- MODULE FloatKeeping ----------------------------
(***************************************************************************)
(* Keeping the float alive: the contract pass that registers lockups with   *)
(* the wallet and retires them (contractLifecycle.ts, cli.ts), and the      *)
(* float pass that migrates coins off an old signer, boards deposits,       *)
(* renews what expires, recovers what the server swept and gives swept      *)
(* client lockups back (ops/float.ts, vtxoLifecycle.ts,                     *)
(* sweptLockupRefund.ts).  Recovery is one settlement, all or nothing, so   *)
(* one lockup it cannot sign takes every coin of the float with it.         *)
(*                                                                         *)
(* Two lockups: "send", paid by a client who alone can sign its swept       *)
(* output, and "receive", paid by the solver, signable past OpensAt.  The   *)
(* last day stands for every later one.                                     *)
(***************************************************************************)
EXTENDS Integers

CONSTANTS
  Scenes,      \* the situations followed, see SceneType
  OpensAt,     \* the day the receive lockup's refund leaf opens
  MtpMargin,   \* LOCKUP_RECOVERY_MTP_MARGIN_SECONDS, and how far the chain's median time lags
  Retention,   \* contractRetentionMs: how long a retired contract is kept
  MaxBackoff,  \* the longest wait after failures
  MaxDay       \* bound: the last day

ASSUME FloatAssumption == {OpensAt, MtpMargin, Retention, MaxDay} \subseteq Int

Lockup == {"send", "receive"}
Caller == {"cadence", "admin"}

VARIABLES
  scene,     \* the situation followed
  row,       \* each lockup's swap row, its state
  out,       \* each lockup's output
  late,      \* lockups paid after their contract's retention had passed
  pay,       \* the Lightning payment of the send row
  told,      \* refund_outcome of the send row is recorded
  contract,  \* the wallet's contract rows
  coin,      \* one coin of the float, and whether a funding holds it
  deposit,   \* one deposit at the boarding address
  callers,   \* what each caller of the float pass waits for
  book,      \* the contract pass
  pass,      \* the float pass
  migration, \* migrationThrottle
  throttle,  \* sweptRefundThrottle of the send script
  operator,  \* an operator's refundNow
  day,
  upsets     \* calls that may still fail

floatVars == <<scene, row, out, late, pay, told, contract, coin, deposit, callers, book, pass, migration, throttle, operator, day, upsets>>

-----------------------------------------------------------------------------
SendState == {"quoted", "funded", "paying", "paid", "claiming", "claimed", "refused", "stuck"}
SceneType ==
  [scripts : SUBSET Lockup, start : SendState, byHeight : BOOLEAN, coin : {"fresh", "none", "swept"},
   deposit : {"none", "coming", "oversized"}, wallet : {"same", "other"}, admin : SUBSET {"float", "refund"}, upsets : Nat]
(* The situations followed are of this kind. *)
ASSUME ScenesAssumption == \A s \in Scenes : s \in SceneType
SendLive == {"quoted", "funded", "paying", "paid", "claiming"}
Exposed == {"paying", "paid", "claiming"}
LiveRow(s) == row[s] \in SendLive \cup {"open"}
(* No spend fact: what the contract pass counts as funded. *)
Unspent(s) == out[s] \in {"held", "lapsed", "swept"}
Registered(s) == contract[s].watch \in {"watched", "retained"}

Absent == [watch |-> "none", since |-> 0]
NoBook == [at |-> "idle", live |-> {}, complete |-> TRUE, register |-> {}, disable |-> {}, delete |-> {}]
NoPass == [at |-> "idle", listed |-> {}, rows |-> {}, read |-> "none", reason |-> FALSE]
NoAttempt == [last |-> -MaxBackoff, fails |-> 0]

FloatInit ==
  /\ scene \in Scenes
  /\ row = [s \in Lockup |-> IF s \notin scene.scripts THEN "none" ELSE IF s = "send" THEN scene.start ELSE "open"]
  /\ out = [s \in Lockup |-> IF row[s] \in {"none", "quoted", "refused"} THEN "none" ELSE "held"]
  /\ late = {}
  /\ pay = "none"
  /\ told = FALSE
  /\ contract = [s \in Lockup |-> Absent]
  /\ coin = [st |-> scene.coin, busy |-> FALSE]
  /\ deposit = scene.deposit
  /\ callers = [c \in Caller |-> "no"]
  /\ book = NoBook
  /\ pass = NoPass
  /\ migration = NoAttempt
  /\ throttle = NoAttempt
  /\ operator = "idle"
  /\ day = 0
  /\ upsets = scene.upsets

Upset == upsets > 0 /\ upsets' = upsets - 1
ground == <<scene, row, out, late, pay, told, coin, deposit>>
counter == <<callers, migration, throttle, operator, day>>

-----------------------------------------------------------------------------
(* The contract pass: who is live, then what is registered, then the plan. *)

beginBook ==
  /\ book.at = "idle"
  /\ book' = [NoBook EXCEPT !.at = "live"]
  /\ UNCHANGED <<ground, contract, pass, migration, throttle, operator, day, upsets>>

(* resyncWatchedScripts adopted a script. *)
Adopt == scene.scripts # {} /\ beginBook /\ UNCHANGED callers

readLive ==
  /\ book.at = "live"
  /\ \/ book' = [book EXCEPT !.at = "snapshot", !.live = {s \in Lockup : LiveRow(s)}] /\ UNCHANGED upsets
     \/ Upset /\ book' = [book EXCEPT !.at = "snapshot", !.complete = FALSE]
  /\ UNCHANGED <<ground, contract, pass, counter>>

Retirable(s) == Registered(s) /\ s \notin book.live /\ ~Unspent(s)
Kept(s) == contract[s].watch = "retained" /\ (day - contract[s].since >= Retention \/ day = MaxDay)
planContractLifecycle(known) ==
  [book EXCEPT !.at = "apply",
     !.register = {s \in book.live : s \notin known},
     !.disable = {s \in known : Retirable(s) /\ contract[s].watch = "watched"},
     !.delete = {s \in known : Retirable(s) /\ Kept(s)}]
(* Mutant: plan from whatever was read, as if every store had answered. *)
snapshotTrustsFailedReads ==
  /\ book.at = "snapshot"
  /\ book' = planContractLifecycle({s \in Lockup : Registered(s)})
  /\ UNCHANGED <<ground, contract, pass, counter, upsets>>
snapshotContracts ==
  /\ book.at = "snapshot"
  /\ \/ /\ book' = IF book.complete THEN planContractLifecycle({s \in Lockup : Registered(s)})
                   ELSE [book EXCEPT !.at = "apply", !.register = book.live]
        /\ UNCHANGED upsets
     \/ Upset /\ book' = [book EXCEPT !.at = "apply", !.register = book.live, !.complete = FALSE]
  /\ UNCHANGED <<ground, contract, pass, counter>>

(* createContract of a contract the wallet already has changes nothing. *)
applyPlan(s) ==
  /\ book.at = "apply"
  /\ s \in book.register \cup book.disable \cup book.delete
  /\ book' = [book EXCEPT !.register = @ \ {s}, !.disable = @ \ {s}, !.delete = @ \ {s}]
  /\ \/ /\ contract' = [contract EXCEPT ![s] =
             IF s \in book.delete THEN [watch |-> "deleted", since |-> day]
             ELSE IF s \in book.disable THEN [watch |-> "retained", since |-> day]
             ELSE IF Registered(s) THEN @ ELSE [watch |-> "watched", since |-> 0]]
        /\ UNCHANGED upsets
     \/ Upset /\ UNCHANGED contract
  /\ UNCHANGED <<ground, pass, counter>>

(* Whoever awaited the pass goes on. *)
endBook ==
  /\ book.at = "apply"
  /\ book.register \cup book.disable \cup book.delete = {}
  /\ book' = NoBook
  /\ callers' = [c \in Caller |-> IF callers[c] = "contracts" THEN "queued" ELSE callers[c]]
  /\ UNCHANGED <<ground, contract, pass, migration, throttle, operator, day, upsets>>

-----------------------------------------------------------------------------
(* The float pass: runFloatLifecycle, one at a time. *)

(* The cadence joins the contract pass under way or starts one. *)
CadenceFires ==
  /\ callers["cadence"] = "no"
  /\ callers' = [callers EXCEPT !["cadence"] = "contracts"]
  /\ \/ beginBook
     \/ book.at # "idle" /\ UNCHANGED <<ground, contract, book, pass, migration, throttle, operator, day, upsets>>
AdminFires ==
  /\ "float" \in scene.admin /\ callers["admin"] = "no"
  /\ callers' = [callers EXCEPT !["admin"] = "queued"]
  /\ UNCHANGED <<ground, contract, book, pass, migration, throttle, operator, day, upsets>>

Going(at) == pass' = [pass EXCEPT !.at = at]
Start(c) ==
  /\ callers[c] = "queued" /\ pass.at = "idle"
  /\ callers' = [callers EXCEPT ![c] = "running"]
  /\ Going("migrate")
  /\ UNCHANGED <<ground, contract, book, migration, throttle, operator, day, upsets>>

Backoff(t, first) == IF t.fails = 0 THEN 0 ELSE IF first * 2 ^ (t.fails - 1) < MaxBackoff THEN first * 2 ^ (t.fails - 1) ELSE MaxBackoff
Waited(since, days) == day - since >= days \/ day = MaxDay
(* A third failure waits no longer than the second: both are at the ceiling. *)
Failed(t) == [last |-> day, fails |-> IF t.fails < 2 THEN t.fails + 1 ELSE 2]

(* A failure is an attempt, and a success forgets the failures: one moment tells both waits. *)
migrationDue == Waited(migration.last, 1) /\ Waited(migration.last, Backoff(migration, 2))
(* A coin a funding holds, or a server that fails, is the next attempt's. *)
Migrate ==
  /\ pass.at = "migrate"
  /\ Going("board")
  /\ \/ ~migrationDue /\ UNCHANGED <<coin, migration, upsets>>
     \/ /\ migrationDue /\ ~(coin.st = "old" /\ coin.busy)
        /\ coin' = IF coin.st = "old" THEN [coin EXCEPT !.st = "fresh"] ELSE coin
        /\ migration' = [last |-> day, fails |-> 0]
        /\ UNCHANGED upsets
     \/ /\ migrationDue
        /\ \/ coin.st = "old" /\ coin.busy /\ UNCHANGED upsets
           \/ Upset
        /\ migration' = Failed(migration)
        /\ UNCHANGED coin
  /\ UNCHANGED <<scene, row, out, late, pay, told, deposit, contract, callers, book, throttle, operator, day>>

(* Confirmed, not expired, within what one settlement carries. *)
planBoardingSettle == deposit = "confirmed"
settleBoardedSats ==
  /\ pass.at = "board"
  /\ Going("renew")
  /\ \/ deposit' = (IF planBoardingSettle THEN "settled" ELSE deposit) /\ UNCHANGED upsets
     \/ Upset /\ UNCHANGED deposit
  /\ UNCHANGED <<scene, row, out, late, pay, told, coin, contract, book, counter>>

renewExpiringVtxos ==
  /\ pass.at = "renew"
  /\ Going("list")
  /\ \/ coin' = (IF coin.st = "due" /\ ~coin.busy THEN [coin EXCEPT !.st = "fresh"] ELSE coin) /\ UNCHANGED upsets
     \/ Upset /\ UNCHANGED coin
  /\ UNCHANGED <<scene, row, out, late, pay, told, deposit, contract, book, counter>>

EndPass ==
  /\ pass' = NoPass
  /\ callers' = [c \in Caller |-> IF callers[c] = "running" THEN "no" ELSE callers[c]]
(* A read that fails is reported, and the pass recovers nothing. *)
readFails ==
  /\ pass.at \in {"list", "rows", "guard"}
  /\ Upset /\ EndPass
  /\ UNCHANGED <<ground, contract, book, migration, throttle, operator, day>>

(* What the wallet would sweep, and what by its expiry height it might: only a registered lockup is the wallet's to see. *)
Recoverable == {s \in Lockup : Registered(s) /\ out[s] \in {"lapsed", "swept"}} \cup (IF coin.st = "swept" THEN {"coin"} ELSE {})
recoverableVtxosFrom ==
  /\ pass.at = "list"
  /\ \/ Recoverable = {} /\ EndPass /\ UNCHANGED upsets
     \/ /\ Recoverable # {}
        /\ pass' = [pass EXCEPT !.at = "rows", !.listed = {<<x, x = "coin" \/ out[x] = "swept">> : x \in Recoverable}]
        /\ UNCHANGED <<callers, upsets>>
  /\ UNCHANGED <<ground, contract, book, migration, throttle, operator, day>>
liveLockupRows ==
  /\ pass.at = "rows"
  /\ pass' = [pass EXCEPT !.at = "guard", !.rows = {s \in Lockup : LiveRow(s)}]
  /\ UNCHANGED <<ground, contract, book, counter, upsets>>

(* The client's lockups, by their row or by their contract, and the solver's own whose leaf is not safely open. *)
NotOurs == {s \in {"send"} : s \in pass.rows \/ Registered(s)}
Immature == {s \in {"receive"} : s \in pass.rows /\ day < OpensAt + MtpMargin}
Blocking == {x \in pass.listed : (x[2] /\ x[1] \in NotOurs) \/ x[1] \in Immature}
Guard ==
  /\ pass.at = "guard"
  /\ \/ Blocking = {} /\ Going("recover") /\ UNCHANGED callers
     \/ /\ \E x \in Blocking : x[1] \in NotOurs
        /\ pass' = [pass EXCEPT !.at = "find"] /\ UNCHANGED callers
     \/ Blocking # {} /\ (\A x \in Blocking : x[1] \notin NotOurs) /\ EndPass
  /\ UNCHANGED <<ground, contract, book, migration, throttle, operator, day, upsets>>

(* The median time past trails the clock by up to MtpMargin: the server signs for certain only behind it. *)
Signable(x) == x = "coin" \/ (x = "receive" /\ day >= OpensAt + MtpMargin)
recoverVtxos ==
  /\ pass.at = "recover"
  /\ \/ /\ \A x \in Recoverable : x = "coin" \/ (x = "receive" /\ day >= OpensAt)
        /\ ~(coin.busy /\ "coin" \in Recoverable)
        /\ coin' = IF "coin" \in Recoverable THEN [coin EXCEPT !.st = "fresh"] ELSE coin
        /\ out' = [s \in Lockup |-> IF s \in Recoverable THEN "recovered" ELSE out[s]]
        /\ UNCHANGED upsets
     \/ /\ \/ \E x \in Recoverable : ~Signable(x)
           \/ coin.busy /\ "coin" \in Recoverable
        /\ UNCHANGED <<coin, out, upsets>>
     \/ Upset /\ UNCHANGED <<coin, out>>
  /\ EndPass
  /\ UNCHANGED <<scene, row, late, pay, told, deposit, contract, book, migration, throttle, operator, day>>

-----------------------------------------------------------------------------
(* Giving a swept client lockup back: refundBlockingSweptLockups. *)

sweptRefundDue == Waited(throttle.last, Backoff(throttle, 1))
(* refundSweptLockupFor reads the row, then the outputs, then the payment: each is a moment of its own. *)
findSwept ==
  /\ pass.at = "find"
  /\ \/ ~sweptRefundDue /\ EndPass
     \/ sweptRefundDue /\ pass' = [pass EXCEPT !.at = "decide", !.read = row["send"]] /\ UNCHANGED callers
  /\ UNCHANGED <<ground, contract, book, migration, throttle, operator, day, upsets>>

(* What the payment may be taken for. *)
paymentVerdict ==
  IF scene.wallet = "other" /\ pay # "none" THEN "other-wallet-push-nothing"
  ELSE CASE pay = "none" -> "never-submitted"
         [] pay = "pending" -> "undecided-push-nothing"
         [] pay = "settled" -> "paid-do-not-refund"
         [] pay = "returned" -> "not-paid-refund-is-safe"
RECONCILABLE_SWEPT_STATES == {"paying", "paid", "stuck"}
sweptRefundDecision(read) == read \in RECONCILABLE_SWEPT_STATES /\ paymentVerdict = "not-paid-refund-is-safe"
decideSwept ==
  /\ pass.at = "decide"
  /\ \/ /\ out["send"] = "swept" /\ (pass.read = "refused" \/ sweptRefundDecision(pass.read))
        /\ pass' = [pass EXCEPT !.at = "batch", !.reason = pass.read # "refused"] /\ UNCHANGED callers
     \/ ~(out["send"] = "swept" /\ (pass.read = "refused" \/ sweptRefundDecision(pass.read))) /\ EndPass
  /\ UNCHANGED <<ground, contract, book, migration, throttle, operator, day, upsets>>

(* The batch: refundSweptSwapScript.  The server spends an output once. *)
refundSwept ==
  /\ pass.at = "batch"
  /\ \/ /\ out["send"] = "swept"
        /\ out' = [out EXCEPT !["send"] = "refunded"]
        /\ Going("record") /\ throttle' = NoAttempt /\ UNCHANGED <<callers, upsets>>
     \/ /\ (out["send"] # "swept" /\ UNCHANGED upsets) \/ Upset
        /\ EndPass /\ throttle' = Failed(throttle) /\ UNCHANGED out
  /\ UNCHANGED <<scene, row, late, pay, told, coin, deposit, contract, book, migration, operator, day>>
recordSwept ==
  /\ pass.at = "record"
  /\ told' = TRUE
  /\ \/ pass.reason /\ Going("close") /\ UNCHANGED callers
     \/ ~pass.reason /\ EndPass
  /\ UNCHANGED <<scene, row, out, late, pay, coin, deposit, contract, book, migration, throttle, operator, day, upsets>>
(* The transition is from the state that was read: a row that moved keeps its state. *)
closeSwept ==
  /\ pass.at = "close"
  /\ row' = IF row["send"] = pass.read THEN [row EXCEPT !["send"] = "refused"] ELSE row
  /\ EndPass
  /\ UNCHANGED <<scene, out, late, pay, told, coin, deposit, contract, book, migration, throttle, operator, day, upsets>>

-----------------------------------------------------------------------------
(* An operator's refundNow: the row and the verdict, then the row is taken, then the refund. *)
shop == <<scene, late, coin, deposit, contract, callers, book, pass, migration, throttle, day, upsets>>
refundNowReads ==
  /\ operator = "idle" /\ "refund" \in scene.admin
  /\ row["send"] \in {"quoted", "funded", "stuck", "refused"}
  /\ paymentVerdict \in {"not-paid-refund-is-safe", "never-submitted"}
  /\ Unspent("send")
  /\ operator' = row["send"]
  /\ UNCHANGED <<row, out, pay, told, shop>>
claimRefund ==
  /\ operator \in SendState
  /\ IF row["send"] = operator
     THEN row' = [row EXCEPT !["send"] = "refused"] /\ operator' = "push"
     ELSE operator' = "idle" /\ UNCHANGED row
  /\ UNCHANGED <<out, pay, told, shop>>
pushRefund ==
  /\ operator = "push"
  /\ operator' = "idle"
  /\ IF Unspent("send") THEN out' = [out EXCEPT !["send"] = "refunded"] /\ told' = TRUE ELSE UNCHANGED <<out, told>>
  /\ UNCHANGED <<row, pay, shop>>

-----------------------------------------------------------------------------
(* The corridors, as far as they move the two rows (LightningSend and LightningReceive in full). *)
office == <<scene, coin, deposit, contract, callers, book, pass, migration, throttle, operator, day, upsets>>
SendMoves(to) == row' = [row EXCEPT !["send"] = to]
SendTick ==
  /\ \/ row["send"] = "quoted" /\ out["send"] = "held" /\ SendMoves("funded") /\ UNCHANGED <<out, pay, told>>
     \/ row["send"] \in {"quoted", "funded"} /\ SendMoves("refused") /\ UNCHANGED <<out, pay, told>>
     \/ row["send"] = "funded" /\ out["send"] = "held" /\ SendMoves("paying") /\ UNCHANGED <<out, pay, told>>
     \/ row["send"] = "paying" /\ pay = "none" /\ pay' = "pending" /\ UNCHANGED <<row, out, told>>
     \/ row["send"] = "paying" /\ pay = "settled" /\ SendMoves("paid") /\ UNCHANGED <<out, pay, told>>
     \/ row["send"] \in {"paying", "paid"} /\ pay \in {"pending", "settled"} /\ SendMoves("stuck") /\ UNCHANGED <<out, pay, told>>
     \/ row["send"] \in {"paying", "paid"} /\ pay = "returned" /\ SendMoves("refused") /\ UNCHANGED <<out, pay, told>>
     \/ row["send"] \in {"paid", "stuck"} /\ pay = "settled" /\ out["send"] = "held" /\ SendMoves("claiming") /\ UNCHANGED <<out, pay, told>>
     \/ row["send"] = "claiming" /\ out["send"] = "held" /\ SendMoves("claimed") /\ out' = [out EXCEPT !["send"] = "claimed"] /\ UNCHANGED <<pay, told>>
     \/ row["send"] = "claiming" /\ out["send"] # "held" /\ SendMoves("stuck") /\ UNCHANGED <<out, pay, told>>
     \/ row["send"] = "refused" /\ out["send"] = "held" /\ out' = [out EXCEPT !["send"] = "refunded"] /\ told' = TRUE /\ UNCHANGED <<row, pay>>
  /\ UNCHANGED <<late, office>>
ReceiveEnds ==
  /\ row["receive"] = "open"
  /\ \/ out["receive"] = "held" /\ day >= OpensAt /\ out' = [out EXCEPT !["receive"] = "refunded"]
     \/ out["receive"] \in {"claimed", "recovered"} /\ UNCHANGED out
  /\ row' = [row EXCEPT !["receive"] = "ended"]
  /\ UNCHANGED <<late, pay, told, office>>

(* Clients, the Lightning network, the Arkade server, other users of the float, time. *)
ClientFunds ==
  /\ "send" \in scene.scripts /\ out["send"] = "none"
  /\ out' = [out EXCEPT !["send"] = "held"]
  /\ late' = IF Kept("send") \/ contract["send"].watch = "deleted" THEN late \cup {"send"} ELSE late
  /\ UNCHANGED <<row, pay, told, office>>
ClientClaims ==
  /\ out["receive"] = "held"
  /\ out' = [out EXCEPT !["receive"] = "claimed"]
  /\ UNCHANGED <<row, late, pay, told, office>>
ClientReclaims ==
  /\ out["send"] \in {"held", "swept"} /\ day >= OpensAt
  /\ out' = [out EXCEPT !["send"] = "reclaimed"]
  /\ UNCHANGED <<row, late, pay, told, office>>
PayResolves ==
  /\ pay = "pending"
  /\ pay' \in {"settled", "returned"}
  /\ UNCHANGED <<row, out, late, told, office>>
(* An output past its expiry height is not swept yet. *)
Sweep(s) ==
  /\ \/ out[s] = "held" /\ out' = [out EXCEPT ![s] = IF scene.byHeight THEN "lapsed" ELSE "swept"]
     \/ out[s] = "lapsed" /\ out' = [out EXCEPT ![s] = "swept"]
  /\ UNCHANGED <<row, late, pay, told, office>>
yard == <<scene, row, out, late, pay, told, contract, callers, book, pass, migration, throttle, operator, upsets>>
(* A scene that begins with a swept coin follows that coin alone. *)
CoinAges ==
  /\ scene.coin = "fresh"
  /\ \/ coin.st = "fresh" /\ \E st \in {"old", "due"} : coin' = [coin EXCEPT !.st = st]
     \/ coin.st = "due" /\ coin' = [coin EXCEPT !.st = "swept"]
  /\ UNCHANGED <<yard, deposit, day>>
(* A funding takes the coin, and gives it up or spends it. *)
FundingHolds ==
  /\ scene.coin = "fresh" /\ coin.st \in {"fresh", "due", "old"} /\ ~coin.busy
  /\ coin' = [coin EXCEPT !.busy = TRUE]
  /\ UNCHANGED <<yard, deposit, day>>
FundingEnds ==
  /\ coin.busy
  /\ \E st \in {coin.st, "none"} : coin' = [st |-> st, busy |-> FALSE]
  /\ UNCHANGED <<yard, deposit, day>>
DepositMoves ==
  /\ \/ deposit = "coming" /\ deposit' = "confirmed"
     \/ deposit = "confirmed" /\ deposit' = "expired"
  /\ UNCHANGED <<yard, coin, day>>
NextDay ==
  /\ day < MaxDay
  /\ day' = day + 1
  /\ UNCHANGED <<yard, coin, deposit>>
(* The passes, their callers and both throttles are memory. *)
FloatCrash ==
  /\ Upset
  /\ book' = NoBook /\ pass' = NoPass
  /\ callers' = [c \in Caller |-> "no"]
  /\ migration' = NoAttempt /\ throttle' = NoAttempt /\ operator' = "idle"
  /\ coin' = [coin EXCEPT !.busy = FALSE]
  /\ UNCHANGED <<scene, row, out, late, pay, told, deposit, contract, day>>

BookStep == readLive \/ snapshotContracts \/ (\E s \in Lockup : applyPlan(s)) \/ endBook
PassStep ==
  \/ \E c \in Caller : Start(c)
  \/ Migrate \/ settleBoardedSats \/ renewExpiringVtxos \/ recoverableVtxosFrom \/ liveLockupRows \/ readFails \/ Guard \/ recoverVtxos
  \/ findSwept \/ decideSwept \/ refundSwept \/ recordSwept \/ closeSwept
FloatNext ==
  \/ Adopt \/ BookStep
  \/ CadenceFires \/ AdminFires \/ PassStep
  \/ refundNowReads \/ claimRefund \/ pushRefund
  \/ SendTick \/ ReceiveEnds
  \/ ClientFunds \/ ClientClaims \/ ClientReclaims \/ PayResolves \/ (\E s \in Lockup : Sweep(s))
  \/ CoinAges \/ FundingHolds \/ FundingEnds \/ DepositMoves \/ NextDay \/ FloatCrash
(* The two passes and the cadence run while the process does; the server, the network and time move on. *)
FloatFairness ==
  /\ WF_floatVars(BookStep) /\ WF_floatVars(PassStep) /\ WF_floatVars(CadenceFires)
  /\ WF_floatVars(SendTick) /\ WF_floatVars(ReceiveEnds) /\ WF_floatVars(PayResolves) /\ WF_floatVars(FundingEnds) /\ WF_floatVars(NextDay)
  /\ \A s \in Lockup : WF_floatVars(out[s] = "lapsed" /\ Sweep(s))
FloatSpec == FloatInit /\ [][FloatNext]_floatVars
FairFloatSpec == FloatSpec /\ FloatFairness

-----------------------------------------------------------------------------
(* The client is never given the lockup back while its payment may land or has landed: *)
(* the reconciler and refundNow against the corridor's own ticks. *)
NeverBoth == out["send"] = "refunded" => pay \notin {"pending", "settled"}
(* A contract goes only once its script is empty: an output paid in time is never left without the row that spends it. *)
ContractsAreKept == \A s \in Lockup : contract[s].watch = "deleted" /\ Unspent(s) => s \in late
(* A live swap's lockup is never retired, whatever a failing store or snapshot answered. *)
LiveIsWatched == \A s \in Lockup : LiveRow(s) /\ Unspent(s) => contract[s].watch \in {"none", "watched"}
(* What the guard saw swept, and recovery will still sweep, it can sign. *)
GuardHolds == pass.at = "recover" => \A x \in pass.listed : x[2] /\ x[1] \in Recoverable => Signable(x[1])
(* No lockup is given back over a payment, no contract retired under an output, no recovery started with an output *)
(* it cannot sign. *)
FloatIsSafe == NeverBoth /\ ContractsAreKept /\ LiveIsWatched /\ GuardHolds

(* A lockup nobody can sign and nobody may give back: it was paid for, or another wallet's payment decides. *)
Wedged == Registered("send") /\ out["send"] = "swept" /\ (pay = "settled" \/ scene.wallet = "other")
(* Nothing waits: swept coins come back unless such a lockup holds recovery up, old ones are moved, deposits boarded. *)
FloatIsHome ==
  /\ coin.st # "swept" \/ Wedged
  /\ coin.st # "old" \/ coin.busy
  /\ deposit # "confirmed"
=============================================================================
