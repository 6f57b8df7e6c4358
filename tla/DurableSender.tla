--------------------------- MODULE DurableSender ---------------------------
(***************************************************************************)
(* The journal of signed EVM transactions (evm/durableSender.ts): every    *)
(* call has an identity, one nonce, and a history of signed attempts of    *)
(* rising fees; any number of processes prepare, submit, replace and       *)
(* replay over one database.  A reconciliation and the insert of the       *)
(* replacement it allows are one step; every other await ends a step.  The *)
(* account is the journal's alone.                                         *)
(***************************************************************************)
EXTENDS Naturals, Sequences, FiniteSets, SequencesExt

CONSTANTS
  Id,         \* identities of calls
  Process,    \* processes with the signing key and the database
  MaxFee,     \* the fee ceiling, in bumps
  MaxUpsets,  \* bound on crashes, lost answers and evictions
  MaxReorgs   \* bound on replaced blocks

VARIABLES
  journal,   \* identity -> its nonce
  attempts,  \* identity -> its signed attempts, oldest first
  chain,     \* the mined transactions: entry n holds nonce n - 1
  mempool,   \* the transactions the nodes hold
  job,       \* process -> the call in progress
  upsets,
  reorgs

senderVars == <<journal, attempts, chain, mempool, job, upsets, reorgs>>

NoNonce == -1
Nonce == 0..Cardinality(Id)
Tx == [id : Id, fee : 0..MaxFee]

(* The calls are finitely many, so that a count of nonces is a number. *)
FiniteCalls == IsFiniteSet(Id) /\ Id # {} /\ MaxFee \in Nat

(* An attempt is open (prepared, submitting, submitted and unknown make no    *)
(* difference to any operation) or has an outcome on record.                  *)
Attempt == [fee : 0..MaxFee, decided : BOOLEAN]
Signed(fee) == [fee |-> fee, decided |-> FALSE]

Steps == {"idle", "lookup", "count", "mark", "insert", "reconcile", "send"}
JobOps == {"prepare", "submit", "replace"}
Job == [pc : Steps, op : JobOps, id : Id, number : Nonce, item : Nat]
NoCall == [pc |-> "idle", op |-> "prepare", id |-> CHOOSE i \in Id : TRUE, number |-> 0, item |-> 0]

SenderInit ==
  /\ journal = [i \in Id |-> NoNonce]
  /\ attempts = [i \in Id |-> <<>>]
  /\ chain = <<>>
  /\ mempool = {}
  /\ job = [p \in Process |-> NoCall]
  /\ upsets = 0
  /\ reorgs = 0

----------------------------------------------------------------------------
At(p, pc) == job[p].pc = pc
GoOn(p, pc) == job' = [job EXCEPT ![p].pc = pc]
Return(p) == job' = [job EXCEPT ![p] = NoCall]

db == <<journal, attempts>>
net == <<chain, mempool>>
bounds == <<upsets, reorgs>>

Journaled == {i \in Id : journal[i] # NoNonce}
Latest(i) == Len(attempts[i])

(* eth_getTransactionCount(account, 'pending'): what is mined and what        *)
(* follows it without a gap.                                                  *)
Queued == {journal[t.id] : t \in mempool}
PendingCount ==
  CHOOSE n \in Nonce : /\ n >= Len(chain)
                       /\ Len(chain)..(n - 1) \subseteq Queued
                       /\ n \notin Queued

(* canonicalReceipt of any of the attempts; whichever way it went, the nonce  *)
(* is spent.                                                                  *)
Mined(i) == {n \in DOMAIN chain : chain[n].id = i}
Receipt(i) == {k \in DOMAIN attempts[i] : \E n \in Mined(i) : chain[n].fee = attempts[i][k].fee}
Reconciled(i) ==
  [k \in DOMAIN attempts[i] |-> [attempts[i][k] EXCEPT !.decided = @ \/ k \in Receipt(i)]]
RecordOutcome(i) == attempts' = [attempts EXCEPT ![i] = Reconciled(i)]

----------------------------------------------------------------------------
Call(p, i, op) ==
  /\ At(p, "idle")
  /\ op = "replace" => i \in Journaled
  /\ job' = [job EXCEPT ![p] = [NoCall EXCEPT !.pc = "lookup", !.op = op, !.id = i]]
  /\ UNCHANGED <<db, net, bounds>>

(* prepare: an identity the journal knows is reconciled, another one gets the *)
(* next nonce.                                                                *)
Lookup(p) ==
  /\ At(p, "lookup")
  /\ GoOn(p, IF job[p].id \in Journaled THEN "reconcile" ELSE "count")
  /\ UNCHANGED <<db, net, bounds>>

CountPending(p) ==
  /\ At(p, "count")
  /\ job' = [job EXCEPT ![p].pc = "mark", ![p].number = PendingCount]
  /\ UNCHANGED <<db, net, bounds>>

(* The journal's high mark against the chain's count: above it, an earlier    *)
(* nonce is unresolved and the call throws.                                   *)
(* Mutant: skips what the journal has not seen mined.                         *)
NextNonceSkips(mark, pending) == mark + 1
NextNonce(mark, pending) == IF pending > mark THEN pending ELSE mark

ReadMark(p) ==
  /\ At(p, "mark")
  /\ LET mark == IF Journaled = {} THEN 0 ELSE 1 + CHOOSE n \in Nonce :
                   /\ \E i \in Journaled : journal[i] = n
                   /\ \A i \in Journaled : journal[i] <= n
     IN IF mark > job[p].number THEN Return(p)
        ELSE job' = [job EXCEPT ![p].pc = "insert", ![p].number = NextNonce(mark, job[p].number)]
  /\ UNCHANGED <<db, net, bounds>>

(* The two INSERTs of one database transaction, under PRIMARY KEY(id) and     *)
(* UNIQUE(chain, account, nonce); a conflict starts over.                     *)
Insertable(i, n) == i \notin Journaled /\ n \notin {journal[k] : k \in Id}

Insert(p) ==
  /\ At(p, "insert")
  /\ LET i == job[p].id
         n == job[p].number
     IN IF Insertable(i, n)
        THEN /\ journal' = [journal EXCEPT ![i] = n]
             /\ attempts' = [attempts EXCEPT ![i] = <<Signed(0)>>]
             /\ IF job[p].op = "prepare" THEN Return(p)
                ELSE job' = [job EXCEPT ![p].pc = "send", ![p].number = 0, ![p].item = 1]
        ELSE job' = [job EXCEPT ![p].pc = "lookup", ![p].number = 0] /\ UNCHANGED db
  /\ UNCHANGED <<net, bounds>>

----------------------------------------------------------------------------
(* submit returns without sending once its attempt has an outcome.            *)
AlreadyDecided(a) == a.decided

(* A replacement pays more, up to the ceiling.                                *)
MayBump(fee) == fee < MaxFee

(* reconcile, and what each operation does when no attempt has a receipt: a   *)
(* replacement is signed for the same nonce.                                  *)
Reconcile(p) ==
  /\ At(p, "reconcile")
  /\ LET i == job[p].id
         prior == attempts[i][Latest(i)]
     IN CASE Receipt(i) # {} -> RecordOutcome(i) /\ Return(p)
          [] Receipt(i) = {} /\ job[p].op = "replace" /\ MayBump(prior.fee) ->
               /\ attempts' = [attempts EXCEPT ![i] = Append(@, Signed(prior.fee + 1))]
               /\ job' = [job EXCEPT ![p].pc = "send", ![p].item = Latest(i) + 1]
          [] Receipt(i) = {} /\ job[p].op = "submit" /\ ~AlreadyDecided(prior) ->
               /\ job' = [job EXCEPT ![p].pc = "send", ![p].item = Latest(i)]
               /\ UNCHANGED attempts
          [] OTHER -> Return(p) /\ UNCHANGED attempts
  /\ UNCHANGED <<journal, net, bounds>>

(* What a node does with a raw transaction: a nonce that is mined is refused, *)
(* one it holds already is replaced by a higher fee only.                     *)
Accepts(t) ==
  /\ journal[t.id] >= Len(chain)
  /\ \A held \in mempool : journal[held.id] = journal[t.id] => held.id # t.id \/ held.fee < t.fee
Held(t) == {h \in mempool : journal[h.id] # journal[t.id]} \cup {t}

(* The answer names the transaction; or there is none, though the node may    *)
(* have it, and the receipts are asked once more.                             *)
SendRaw(p) ==
  /\ At(p, "send")
  /\ LET i == job[p].id
         t == [id |-> i, fee |-> attempts[i][job[p].item].fee]
     IN \/ Accepts(t) /\ mempool' = Held(t) /\ UNCHANGED <<attempts, upsets>>
        \/ ~Accepts(t) /\ RecordOutcome(i) /\ UNCHANGED <<mempool, upsets>>
        \/ /\ Accepts(t) /\ upsets < MaxUpsets
           /\ upsets' = upsets + 1
           /\ RecordOutcome(i)
           /\ UNCHANGED mempool
  /\ Return(p)
  /\ UNCHANGED <<journal, chain, reorgs>>

----------------------------------------------------------------------------
ProcessCrash(p) ==
  /\ ~At(p, "idle") /\ upsets < MaxUpsets
  /\ upsets' = upsets + 1
  /\ Return(p)
  /\ UNCHANGED <<db, net, reorgs>>

Evict(t) ==
  /\ t \in mempool /\ upsets < MaxUpsets
  /\ upsets' = upsets + 1
  /\ mempool' = mempool \ {t}
  /\ UNCHANGED <<db, chain, job, reorgs>>

Mine(t) ==
  /\ t \in mempool /\ journal[t.id] = Len(chain)
  /\ chain' = Append(chain, t)
  /\ mempool' = mempool \ {t}
  /\ UNCHANGED <<db, job, bounds>>

(* The last block is replaced and its transaction forgotten. *)
Reorg ==
  /\ chain # <<>> /\ reorgs < MaxReorgs
  /\ reorgs' = reorgs + 1
  /\ chain' = Front(chain)
  /\ UNCHANGED <<db, mempool, job, upsets>>

----------------------------------------------------------------------------
ProcessStep(p) ==
  \/ Lookup(p) \/ CountPending(p) \/ ReadMark(p) \/ Insert(p)
  \/ Reconcile(p) \/ SendRaw(p)

Replay(i) == \E p \in Process : i \in Journaled /\ Call(p, i, "submit")

SenderNext ==
  \/ \E p \in Process : ProcessStep(p) \/ ProcessCrash(p) \/ \E i \in Id, op \in JobOps : Call(p, i, op)
  \/ \E t \in Tx : Mine(t) \/ Evict(t)
  \/ Reorg

SenderSpec == SenderInit /\ [][SenderNext]_senderVars

(* Calls finish, blocks come, and what pending() lists is replayed. *)
SenderFairness ==
  /\ \A p \in Process : WF_senderVars(ProcessStep(p))
  /\ WF_senderVars(\E t \in Tx : Mine(t))
  /\ \A i \in Id : SF_senderVars(Mined(i) = {} /\ Replay(i))

FairSenderSpec == SenderSpec /\ SenderFairness

----------------------------------------------------------------------------
(* Every variable keeps its type. *)
TypeOK ==
  /\ journal \in [Id -> Nonce \cup {NoNonce}]
  /\ attempts \in [Id -> Seq(Attempt)]
  /\ chain \in Seq(Tx)
  /\ mempool \subseteq Tx
  /\ job \in [Process -> Job]

(* However many processes submit, replace and replay an identity and wherever *)
(* one dies, its call is executed once.                                       *)
ExecutedOnce == \A i \in Id : Cardinality(Mined(i)) <= 1

(* A transaction is only ever displaced by another attempt at the same call:  *)
(* no two calls are signed for one nonce.                                     *)
NoncesAreOwned == \A i, k \in Journaled : i # k => journal[i] # journal[k]

(* The signed nonces leave no gap that would hold up the ones after it. *)
NoNonceGap == \A i \in Journaled : 0..(journal[i] - 1) \subseteq {journal[k] : k \in Journaled}

(* With no block replaced, every call that was prepared is mined although     *)
(* answers are lost, processes die and nodes forget, as long as what          *)
(* pending() lists is replayed.                                               *)
PreparedIsMined == \A i \in Id : i \in Journaled ~> Mined(i) # {}

(* docs/provider-funded-evm.md: "reconciliation checks which hash actually    *)
(* mined": a call whose block is replaced is mined again.                     *)
MinedAgain == \A i \in Id : [](i \in Journaled => <>(Mined(i) # {}))

(* Over restarts, lost answers and a second process: a payment is executed once, from a nonce no other
   payment has, and no nonce below one in use is left out. *)
SendsExactlyOnce == ExecutedOnce /\ NoncesAreOwned /\ NoNonceGap
============================================================================
