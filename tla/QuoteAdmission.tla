--------------------------- MODULE QuoteAdmission ---------------------------
(***************************************************************************)
(* Admission of quotes.  Every corridor's quote() runs the same course:    *)
(* look the payment hash up in its own store and in the other corridors'   *)
(* stores, claim headroom under the house's exposure cap (and, for a       *)
(* Lightning payout, under the balance of the Lightning wallet), insert    *)
(* the row, and hand the claim back in a `finally`.                        *)
(*                                                                         *)
(* Each step below is the code between two awaits, so quotes interleave    *)
(* exactly where the program can be interrupted.  AdmissionControl runs    *)
(* its two checks inside a promise chain, modelled by `lock`; what it      *)
(* READS inside that section is a snapshot of the database, and inserts    *)
(* and releases of other quotes are not kept out of the section.           *)
(*                                                                         *)
(* Amounts are kept exactly: the sum of a set of quotes is the number of   *)
(* its sats, each sat being a pair <<quote, i>>.                           *)
(***************************************************************************)
EXTENDS Integers, Sequences, FiniteSets

CONSTANTS
  Quote,        \* the quote requests that arrive
  Hash,         \* payment hashes
  CorridorOf,   \* the corridor a request asks for
  HashOf,       \* the payment hash a request names
  Give,         \* sats the request would commit (giveSats)
  Float,        \* sats of Lightning payout plus routing fee; 0 off the send corridor
  CapSats,      \* maxExposedSats
  Balance,      \* what the Lightning wallet holds at boot
  Coupling,     \* selfPaymentCoupling: receive-then-send on one hash is served
  OwnInvoice,   \* send requests that name the very invoice the receive corridor minted
  NoQuote       \* nobody holds the serialised section

Corridor == {"send", "receive", "onchain"}

ASSUME QuoteAssumption ==
  /\ IsFiniteSet(Quote)
  /\ CorridorOf \in [Quote -> Corridor]
  /\ HashOf \in [Quote -> Hash]
  /\ Give \in [Quote -> Nat \ {0}]
  /\ Float \in [Quote -> Nat]
  /\ CapSats \in Nat
  /\ Balance \in Nat
  /\ Coupling \in BOOLEAN
  /\ OwnInvoice \subseteq Quote
  /\ NoQuote \notin Quote

VARIABLES
  pc,            \* where each request's quote() stands
  candidate,     \* the receive row a send quote saw on its hash, read first of all
  todo,          \* peer stores a quote has yet to ask
  lock,          \* the quote inside AdmissionControl's serialised section
  committed,     \* per quote, the total committedSats() returned to it
  available,     \* per quote, the wallet balance it was given
  owed,          \* per quote, what owedLightningSats() returned to it
  reserved,      \* AdmissionControl.reserved
  reservedFloat, \* AdmissionControl.reservedFloat
  row,           \* state of the row the quote inserted
  balance        \* what the Lightning wallet holds now

vars == <<pc, candidate, todo, lock, committed, available, owed,
          reserved, reservedFloat, row, balance>>

Steps == {"start", "own", "peers", "balance", "admit", "exposure", "owed",
          "float", "insert", "release", "accepted", "refused"}

(* A row of any corridor, as far as admission can tell rows apart.  "paying" *)
(* is a send row whose payment has left the wallet but not its state; "paid" *)
(* is live and no longer owed; "closed" is terminal and still blocks its     *)
(* hash, since the solver may know its preimage; "returning" is a refused    *)
(* send row whose lockup is not yet back with the client, which blocks too.  *)
RowStates == {"none", "quoted", "paying", "paid", "closed", "returning", "refused"}
LiveStates == {"quoted", "paying", "paid"}
OwedStates == {"quoted", "paying"}

(* Quotes that hold a claim on exposure, and on the wallet. *)
Holding == {"owed", "float", "insert", "release"}
HoldingFloat == {"insert", "release"}

----------------------------------------------------------------------------
(* The sum of an amount over a set of quotes. *)
SatsOf(amount, S) == UNION {{q} \X (1..amount[q]) : q \in S}
Total(amount, S) == Cardinality(SatsOf(amount, S))

Live == {q \in Quote : row[q] \in LiveStates}
Holders == {q \in Quote : pc[q] \in Holding}

(* A coupled payout never leaves over Lightning, so it claims no balance. *)
UsesFloat(q) == Float[q] > 0 /\ candidate[q] = "none"
FloatHolders == {q \in Quote : pc[q] \in HoldingFloat /\ UsesFloat(q)}

(* Claimed, and not yet superseded by a row. *)
Unlanded == {q \in Quote : pc[q] \in Holding /\ row[q] = "none"}

(* totalCommitted(): every live row of every corridor. *)
totalCommitted == Total(Give, Live)

(* The quotes whose row blocks hash h in a corridor's store. *)
Blocking(corridor, h) ==
  {q \in Quote : CorridorOf[q] = corridor /\ HashOf[q] = h
                 /\ row[q] \notin {"none", "refused"}}
findLiveByPaymentHash(corridor, h) == Blocking(corridor, h) # {}

(* owedLightningSats(): send rows whose payment has not been recorded as    *)
(* sent; a row for the very invoice of a live receive row is not paid over  *)
(* Lightning, and is left out.                                              *)
owedLightningSats ==
  Total(Float, {q \in Quote : /\ CorridorOf[q] = "send" /\ row[q] \in OwedStates
                              /\ ~(Coupling /\ q \in OwnInvoice
                                    /\ findLiveByPaymentHash("receive", HashOf[q]))})

(* The stores each corridor is wired to ask, in order. *)
peerStores(corridor) ==
  CASE corridor = "send" -> IF Coupling THEN <<"onchain">> ELSE <<"onchain", "receive">>
    [] corridor = "receive" -> IF Coupling THEN <<"onchain", "send">> ELSE <<"send", "onchain">>
    [] corridor = "onchain" -> <<"send", "receive">>

----------------------------------------------------------------------------
Init ==
  /\ pc = [q \in Quote |-> "start"]
  /\ candidate = [q \in Quote |-> "none"]
  /\ todo = [q \in Quote |-> <<>>]
  /\ lock = NoQuote
  /\ committed = [q \in Quote |-> 0]
  /\ available = [q \in Quote |-> 0]
  /\ owed = [q \in Quote |-> 0]
  /\ reserved = 0
  /\ reservedFloat = 0
  /\ row = [q \in Quote |-> "none"]
  /\ balance = Balance

(* Moves one quote from a step to another. *)
Step(q, from, to) == pc[q] = from /\ pc' = [pc EXCEPT ![q] = to]

(* A send quote looks for a coupled receive row before anything else and    *)
(* decides on that reading later; the other corridors have no such step.    *)
Begin(q) ==
  /\ Step(q, "start", "own")
  /\ candidate' =
       IF Coupling /\ CorridorOf[q] = "send"
       THEN [candidate EXCEPT ![q] =
              IF \E r \in Blocking("receive", HashOf[q]) : row[r] = "quoted" THEN "quoted"
              ELSE IF findLiveByPaymentHash("receive", HashOf[q]) THEN "other"
              ELSE "none"]
       ELSE candidate
  /\ UNCHANGED <<todo, lock, committed, available, owed, reserved, reservedFloat, row, balance>>

(* Refusals decided before any claim: amounts, addresses, deadlines, the rate *)
(* limiter, fees.  Nothing of admission's own is claimed by then.             *)
Decline(q) ==
  /\ pc[q] \in {"own", "peers", "balance"}
  /\ pc' = [pc EXCEPT ![q] = "refused"]
  /\ UNCHANGED <<candidate, todo, lock, committed, available, owed, reserved,
                 reservedFloat, row, balance>>

(* The corridor's own store, and then what the candidate read first says. *)
CheckOwn(q) ==
  /\ pc[q] = "own"
  /\ LET duplicate == \/ findLiveByPaymentHash(CorridorOf[q], HashOf[q])
                      \/ candidate[q] = "other"
                      \/ candidate[q] = "quoted" /\ q \notin OwnInvoice
     IN /\ pc' = [pc EXCEPT ![q] = IF duplicate THEN "refused" ELSE "peers"]
        /\ todo' = [todo EXCEPT ![q] = IF duplicate THEN <<>> ELSE peerStores(CorridorOf[q])]
  /\ UNCHANGED <<candidate, lock, committed, available, owed, reserved, reservedFloat, row, balance>>

(* One await per peer store; then a Lightning payout reads its wallet. *)
CheckPeer(q) ==
  /\ pc[q] = "peers"
  /\ todo[q] # <<>>
  /\ LET hit == findLiveByPaymentHash(Head(todo[q]), HashOf[q])
         last == Len(todo[q]) = 1
     IN /\ todo' = [todo EXCEPT ![q] = IF hit THEN <<>> ELSE Tail(todo[q])]
        /\ pc' = [pc EXCEPT ![q] = IF hit THEN "refused"
                                   ELSE IF ~last THEN "peers"
                                   ELSE IF UsesFloat(q) THEN "balance"
                                   ELSE "admit"]
  /\ UNCHANGED <<candidate, lock, committed, available, owed, reserved, reservedFloat, row, balance>>

(* lightningFloatRequirement: the balance is read OUTSIDE the serialised section. *)
lightningFloatRequirement(q) ==
  /\ Step(q, "balance", "admit")
  /\ available' = [available EXCEPT ![q] = balance]
  /\ UNCHANGED <<candidate, todo, lock, committed, owed, reserved, reservedFloat, row, balance>>

(* admit() enters the promise chain and asks the database for the total. *)
Admit(q) ==
  /\ Step(q, "admit", "exposure")
  /\ lock = NoQuote
  /\ lock' = q
  /\ committed' = [committed EXCEPT ![q] = totalCommitted]
  /\ UNCHANGED <<candidate, todo, available, owed, reserved, reservedFloat, row, balance>>

(* Mutant: counts rows, and not the claims of quotes in flight. *)
ExposureFitsRowsOnly(q) == committed[q] + Give[q] <= CapSats
ExposureFits(q) == committed[q] + reserved + Give[q] <= CapSats

(* Mutant: a refusal leaves the section without ending its turn. *)
claimExposureKeepsTurn(q) ==
  /\ pc[q] = "exposure"
  /\ IF ~ExposureFits(q)
     THEN /\ pc' = [pc EXCEPT ![q] = "refused"]
          /\ UNCHANGED <<lock, reserved>>
     ELSE /\ reserved' = reserved + Give[q]
          /\ IF UsesFloat(q)
             THEN pc' = [pc EXCEPT ![q] = "owed"] /\ lock' = lock
             ELSE pc' = [pc EXCEPT ![q] = "insert"] /\ lock' = NoQuote
  /\ UNCHANGED <<candidate, todo, committed, available, owed, reservedFloat, row, balance>>

(* claimExposure, once the total has arrived. *)
claimExposure(q) ==
  /\ pc[q] = "exposure"
  /\ IF ~ExposureFits(q)
     THEN /\ pc' = [pc EXCEPT ![q] = "refused"]
          /\ lock' = NoQuote
          /\ reserved' = reserved
     ELSE /\ reserved' = reserved + Give[q]
          /\ IF UsesFloat(q)
             THEN pc' = [pc EXCEPT ![q] = "owed"] /\ lock' = lock
             ELSE pc' = [pc EXCEPT ![q] = "insert"] /\ lock' = NoQuote
  /\ UNCHANGED <<candidate, todo, committed, available, owed, reservedFloat, row, balance>>

(* Still inside the section: what the wallet already owes. *)
ReadOwed(q) ==
  /\ Step(q, "owed", "float")
  /\ owed' = [owed EXCEPT ![q] = owedLightningSats]
  /\ UNCHANGED <<candidate, todo, lock, committed, available, reserved, reservedFloat, row, balance>>

FloatFits(q) == owed[q] + reservedFloat + Float[q] <= available[q]

(* Mutant: a refusal keeps the exposure claim. *)
claimFloatKeepsExposure(q) ==
  /\ pc[q] = "float"
  /\ lock' = NoQuote
  /\ pc' = [pc EXCEPT ![q] = IF FloatFits(q) THEN "insert" ELSE "refused"]
  /\ reservedFloat' = IF FloatFits(q) THEN reservedFloat + Float[q] ELSE reservedFloat
  /\ UNCHANGED <<candidate, todo, committed, available, owed, reserved, row, balance>>

(* claimFloat; a refusal hands the exposure claim back before leaving. *)
claimFloat(q) ==
  /\ pc[q] = "float"
  /\ lock' = NoQuote
  /\ IF FloatFits(q)
     THEN /\ pc' = [pc EXCEPT ![q] = "insert"]
          /\ reservedFloat' = reservedFloat + Float[q]
          /\ reserved' = reserved
     ELSE /\ pc' = [pc EXCEPT ![q] = "refused"]
          /\ reserved' = reserved - Give[q]
          /\ reservedFloat' = reservedFloat
  /\ UNCHANGED <<candidate, todo, committed, available, owed, row, balance>>

(* Mutant: a plain INSERT, which trusts the look-up made earlier. *)
insertQuoteUnguarded(q) ==
  /\ Step(q, "insert", "release")
  /\ row' = [row EXCEPT ![q] = "quoted"]
  /\ UNCHANGED <<candidate, todo, lock, committed, available, owed, reserved, reservedFloat, balance>>

(* The row lands unless its own table has a blocking row, in one statement. *)
insertQuote(q) ==
  /\ Step(q, "insert", "release")
  /\ row' = IF findLiveByPaymentHash(CorridorOf[q], HashOf[q])
            THEN row
            ELSE [row EXCEPT ![q] = "quoted"]
  /\ UNCHANGED <<candidate, todo, lock, committed, available, owed, reserved, reservedFloat, balance>>

(* Minting the hold invoice, building the script or the driver itself fails. *)
InsertFails(q) ==
  /\ Step(q, "insert", "release")
  /\ UNCHANGED <<candidate, todo, lock, committed, available, owed, reserved, reservedFloat, row, balance>>

(* The finally: both claims go back, once. *)
Release(q) ==
  /\ pc[q] = "release"
  /\ pc' = [pc EXCEPT ![q] = IF row[q] = "none" THEN "refused" ELSE "accepted"]
  /\ reserved' = reserved - Give[q]
  /\ reservedFloat' = IF UsesFloat(q) THEN reservedFloat - Float[q] ELSE reservedFloat
  /\ UNCHANGED <<candidate, todo, lock, committed, available, owed, row, balance>>

(* The process dies: reservations are memory, rows are not. *)
Crash ==
  /\ \E q \in Quote : pc[q] \notin {"start", "accepted", "refused"}
  /\ pc' = [q \in Quote |-> IF pc[q] \in {"start", "accepted", "refused"} THEN pc[q]
                            ELSE IF row[q] = "none" THEN "refused" ELSE "accepted"]
  /\ lock' = NoQuote
  /\ reserved' = 0
  /\ reservedFloat' = 0
  /\ UNCHANGED <<candidate, todo, committed, available, owed, row, balance>>

----------------------------------------------------------------------------
(* What the rest of the solver does to a row once it is there. *)

(* A send row's payment is submitted: the wallet parts with the sats first, *)
(* and the row leaves "owed" only when the payment is recorded.             *)
PayLightning(q) ==
  /\ CorridorOf[q] = "send" /\ row[q] = "quoted" /\ candidate[q] = "none"
  /\ balance >= Float[q]
  /\ row' = [row EXCEPT ![q] = "paying"]
  /\ balance' = balance - Float[q]
  /\ UNCHANGED <<pc, candidate, todo, lock, committed, available, owed, reserved, reservedFloat>>

RecordPaid(q) ==
  /\ row[q] = "paying"
  /\ row' = [row EXCEPT ![q] = "paid"]
  /\ UNCHANGED <<pc, candidate, todo, lock, committed, available, owed, reserved, reservedFloat, balance>>

(* A payment that fails returns its sats; the row is refused, its lockup   *)
(* back with the client already or not.                                    *)
PaymentReturned(q) ==
  /\ row[q] = "paying"
  /\ \E end \in {"refused", "returning"} : row' = [row EXCEPT ![q] = end]
  /\ balance' = balance + Float[q]
  /\ UNCHANGED <<pc, candidate, todo, lock, committed, available, owed, reserved, reservedFloat>>

(* Rows end: with money moved they keep blocking their hash. *)
Close(q) ==
  /\ row[q] \in {"quoted", "paid"}
  /\ row[q] = "quoted" => CorridorOf[q] # "send" \/ candidate[q] # "none"
  /\ row' = [row EXCEPT ![q] = "closed"]
  /\ UNCHANGED <<pc, candidate, todo, lock, committed, available, owed, reserved, reservedFloat, balance>>

(* Refused before any payout; a send row that was funded owes its lockup. *)
Refuse(q) ==
  /\ row[q] = "quoted"
  /\ \E end \in {"refused", "returning"} :
       /\ end = "returning" => CorridorOf[q] = "send"
       /\ row' = [row EXCEPT ![q] = end]
  /\ UNCHANGED <<pc, candidate, todo, lock, committed, available, owed, reserved, reservedFloat, balance>>

(* The refund sweep has returned the lockup. *)
LockupReturned(q) ==
  /\ row[q] = "returning"
  /\ row' = [row EXCEPT ![q] = "refused"]
  /\ UNCHANGED <<pc, candidate, todo, lock, committed, available, owed, reserved, reservedFloat, balance>>

QuoteStep(q) ==
  \/ Begin(q) \/ Decline(q) \/ CheckOwn(q) \/ CheckPeer(q)
  \/ lightningFloatRequirement(q)
  \/ Admit(q) \/ claimExposure(q) \/ ReadOwed(q) \/ claimFloat(q)
  \/ insertQuote(q) \/ InsertFails(q) \/ Release(q)

RowStep(q) ==
  PayLightning(q) \/ RecordPaid(q) \/ PaymentReturned(q) \/ Close(q) \/ Refuse(q)
  \/ LockupReturned(q)

Next == Crash \/ \E q \in Quote : QuoteStep(q) \/ RowStep(q)

Spec == Init /\ [][Next]_vars

----------------------------------------------------------------------------
(* Every variable keeps its type; the two counters never go negative. *)
TypeOK ==
  /\ pc \in [Quote -> Steps]
  /\ candidate \in [Quote -> {"none", "quoted", "other"}]
  /\ todo \in [Quote -> Seq(Corridor)]
  /\ lock \in Quote \cup {NoQuote}
  /\ committed \in [Quote -> Nat]
  /\ available \in [Quote -> Nat]
  /\ owed \in [Quote -> Nat]
  /\ reserved \in Nat
  /\ reservedFloat \in Nat
  /\ row \in [Quote -> RowStates]
  /\ balance \in Nat

(* AdmissionControl's two counters are exactly the claims of the quotes now *)
(* in flight: no refusal, failed mint, lost insert race, success or crash   *)
(* leaks a claim or hands one back twice.                                   *)
ReservationsAccounted ==
  /\ reserved = Total(Give, Holders)
  /\ reservedFloat = Total(Float, FloatHolders)

(* What the house is exposed to, and what quotes in flight will add to it. *)
Exposure == Total(Give, Live \cup Unlanded)

(* However quotes interleave, live rows and claims in flight together never *)
(* pass TWICE the exposure cap: a total read before another quote's row     *)
(* landed can miss at most the claims that were outstanding when it was     *)
(* read, and those alone never pass the cap.                                *)
ExposureBounded == Exposure <= 2 * CapSats

(* The guarded INSERT is race-proof within a table: at most one row blocks  *)
(* a payment hash in each corridor, whatever the pre-checks of two          *)
(* concurrent quotes saw.                                                   *)
OneRowPerCorridorHash ==
  \A c \in Corridor, h \in Hash : Cardinality(Blocking(c, h)) <= 1

(* Every request is answered and no claim on headroom outlives it: the      *)
(* promise chain never wedges the quotes queued behind it.                  *)
EveryQuoteAnswered ==
  /\ \A q \in Quote : <>(pc[q] \in {"accepted", "refused"})
  /\ <>[](reserved = 0 /\ reservedFloat = 0 /\ lock = NoQuote)

(* Stated by send/orchestrator.ts and receive/orchestrator.ts: the claim is *)
(* handed back only once "either the row counts instead or nothing was      *)
(* committed at all", so the cap holds for concurrent quotes.               *)
ExposureWithinCap == Exposure <= CapSats

(* Stated by send/orchestrator.ts on its peer stores: a hash that is live   *)
(* in any corridor's store is spoken for; only a receive row still quoted,  *)
(* met by a send for the very invoice it minted, may share its hash.        *)
HashSpokenFor ==
  \A q, r \in Quote :
    /\ q # r
    /\ HashOf[q] = HashOf[r]
    /\ q \in Blocking(CorridorOf[q], HashOf[q])
    /\ r \in Blocking(CorridorOf[r], HashOf[r])
    => \/ CorridorOf[q] = "send" /\ CorridorOf[r] = "receive" /\ candidate[q] = "quoted"
       \/ CorridorOf[r] = "send" /\ CorridorOf[q] = "receive" /\ candidate[r] = "quoted"

(* Stated by admissionStrategy.ts on the float requirement, "sats the       *)
(* corridor must HOLD": what send rows have yet to pay out is in the wallet. *)
FloatCovered ==
  Total(Float, {q \in Quote : CorridorOf[q] = "send" /\ row[q] = "quoted" /\ UsesFloat(q)})
    <= balance

(* Node runs every ready continuation, and the promise chain is first come  *)
(* first served.  Rows need not move.                                       *)
Fairness == \A q \in Quote : WF_vars(QuoteStep(q))
FairSpec == Spec /\ Fairness
============================================================================
