---------------------------- MODULE HouseProofs ----------------------------
(***************************************************************************)
(* What holds of the parts that keep the solver's own funds, for any        *)
(* number of coins, operations, transfers, calls and faults: the ledger of  *)
(* pinned coins, the refills of its pools, the journal of its EVM account,  *)
(* the fills of its asset desk, and the receivers of the payouts a provider *)
(* funds.                                                                   *)
(***************************************************************************)
EXTENDS CoinReservations, Rebalance, DurableSender, AssetSwaps, PayoutReceiver, FiniteSetTheorems, WellFoundedInduction, TLAPS

(***************************************************************************)
(* The ledger.  No coin is ever pinned twice, and it holds exactly the      *)
(* coins of operations under way: for any coins and any number of           *)
(* operations.                                                              *)
(***************************************************************************)
Stages == {"idle", "listed", "planned", "pinning", "sending"}
TypeInv ==
  /\ stage \in [Ops -> Stages]
  /\ list \in [Ops -> SUBSET Coins] /\ held \in [Ops -> SUBSET Coins]
  /\ counts \in [Coins -> Int] /\ used \subseteq Coins

(* Only a withdrawal holds a coin before it sends, and only a renewal plans. *)
HeldBySenders ==
  \A p \in Ops : /\ stage[p] = "planned" => p \in Renewals
                 /\ p \notin Withdrawals /\ stage[p] # "sending" => held[p] = {}

IInv == TypeInv /\ HeldBySenders /\ Exclusive /\ LedgerIsExact

(* A coin nobody pinned is in nobody's hands. *)
LEMMA Unpinned == ASSUME LedgerIsExact, NEW c \in Coins, c \notin reserved, NEW p \in Ops PROVE c \notin held[p]
  BY DEF LedgerIsExact, reserved

(* Pinning unpinned coins for an operation keeps the ledger exact. *)
LEMMA PinKeeps ==
  ASSUME IInv, NEW p \in Ops, NEW S \in SUBSET Coins, S \cap reserved = {}, reserve(S),
         NEW T \in SUBSET Coins, T = held[p] \cup S, held' = [held EXCEPT ![p] = T]
  PROVE Exclusive' /\ LedgerIsExact' /\ held' \in [Ops -> SUBSET Coins] /\ counts' \in [Coins -> Int]
<1> USE DEF IInv, TypeInv
<1>1. held' \in [Ops -> SUBSET Coins] /\ counts' \in [Coins -> Int]
  BY DEF reserve
<1>2. \A q \in Ops : held'[q] = IF q = p THEN held[p] \cup S ELSE held[q]
  OBVIOUS
<1>3. \A q \in Ops : held[q] \cap S = {}
  BY Unpinned
<1>4. Exclusive'
  BY <1>2, <1>3 DEF Exclusive
<1>5. ASSUME NEW c \in Coins PROVE counts'[c] = IF \E q \in Ops : c \in held'[q] THEN 1 ELSE 0
  <2>1. CASE c \in S
    <3>1. counts[c] = 0
      BY <1>3, <2>1 DEF LedgerIsExact
    <3>2. counts'[c] = 1
      BY <2>1, <3>1 DEF reserve
    <3> QED BY <1>2, <2>1, <3>2
  <2>2. CASE c \notin S
    <3>1. counts'[c] = counts[c]
      BY <2>2 DEF reserve
    <3>2. (\E q \in Ops : c \in held'[q]) <=> (\E q \in Ops : c \in held[q])
      BY <1>2, <2>2
    <3> QED BY <3>1, <3>2 DEF LedgerIsExact
  <2> QED BY <2>1, <2>2
<1> QED BY <1>1, <1>4, <1>5 DEF LedgerIsExact

(* Releasing all an operation holds keeps it exact as well. *)
LEMMA ReleaseKeeps ==
  ASSUME IInv, NEW p \in Ops, release(held[p]), held' = [held EXCEPT ![p] = {}]
  PROVE Exclusive' /\ LedgerIsExact' /\ held' \in [Ops -> SUBSET Coins] /\ counts' \in [Coins -> Int]
<1> USE DEF IInv, TypeInv
<1>1. held' \in [Ops -> SUBSET Coins] /\ counts' \in [Coins -> Int]
  BY DEF release
<1>2. \A q \in Ops : held'[q] = IF q = p THEN {} ELSE held[q]
  OBVIOUS
<1>3. Exclusive'
  BY <1>2 DEF Exclusive
<1>4. ASSUME NEW c \in Coins PROVE counts'[c] = IF \E q \in Ops : c \in held'[q] THEN 1 ELSE 0
  <2>1. CASE c \in held[p]
    <3>1. counts[c] = 1
      BY <2>1 DEF LedgerIsExact
    <3>2. counts'[c] = 0
      BY <2>1, <3>1 DEF release
    <3>3. \A q \in Ops : c \notin held'[q]
      BY <1>2, <2>1 DEF Exclusive
    <3> QED BY <3>2, <3>3
  <2>2. CASE c \notin held[p]
    <3>1. counts'[c] = counts[c]
      BY <2>2 DEF release
    <3>2. (\E q \in Ops : c \in held'[q]) <=> (\E q \in Ops : c \in held[q])
      BY <1>2, <2>2
    <3> QED BY <3>1, <3>2 DEF LedgerIsExact
  <2> QED BY <2>1, <2>2
<1> QED BY <1>1, <1>3, <1>4 DEF LedgerIsExact

LEMMA FinishKeeps == ASSUME IInv, NEW p \in Ops, NEW did \in BOOLEAN, Finish(p, did) PROVE IInv'
<1>1. Exclusive' /\ LedgerIsExact' /\ held' \in [Ops -> SUBSET Coins] /\ counts' \in [Coins -> Int]
  BY ReleaseKeeps DEF Finish
<1>2. TypeInv'
  BY <1>1 DEF IInv, TypeInv, Finish, Stages
<1>3. HeldBySenders'
  BY DEF IInv, TypeInv, HeldBySenders, Finish
<1> QED BY <1>1, <1>2, <1>3 DEF IInv

LEMMA Inductive == IInv /\ [Next]_vars => IInv'
<1> SUFFICES ASSUME IInv, [Next]_vars PROVE IInv'
  OBVIOUS
<1>1. ASSUME NEW p \in Ops, Read(p) PROVE IInv'
  BY <1>1 DEF IInv, TypeInv, HeldBySenders, Exclusive, LedgerIsExact, Read, Fundings, Renewals, Withdrawals, Stages
<1>2. ASSUME NEW p \in Ops, NEW S \in SUBSET Coins, Pick(p, S) PROVE IInv'
  <2>1. held[p] = {}
    BY <1>2 DEF IInv, HeldBySenders, Pick, Fundings, Withdrawals
  <2>2. S \cap reserved = {} /\ S = held[p] \cup S
    BY <1>2, <2>1 DEF Pick, Pickable
  <2>3. Exclusive' /\ LedgerIsExact' /\ held' \in [Ops -> SUBSET Coins] /\ counts' \in [Coins -> Int]
    BY <1>2, <2>2, PinKeeps DEF Pick
  <2>4. TypeInv' /\ HeldBySenders'
    BY <1>2, <2>3 DEF IInv, TypeInv, HeldBySenders, Pick, Stages
  <2> QED BY <2>3, <2>4 DEF IInv
<1>3. ASSUME NEW p \in Ops, NEW S \in SUBSET Coins, Plan(p, S) PROVE IInv'
  BY <1>3 DEF IInv, TypeInv, HeldBySenders, Exclusive, LedgerIsExact, Plan, Renewals, Withdrawals, Stages
<1>4. ASSUME NEW p \in Ops, pinInputs(p) PROVE IInv'
  <2>1. held[p] = {} /\ list[p] \in SUBSET Coins
    BY <1>4 DEF IInv, TypeInv, HeldBySenders, pinInputs, Renewals, Withdrawals
  <2>2. list[p] \cap reserved = {} /\ list[p] = held[p] \cup list[p]
    BY <1>4, <2>1 DEF pinInputs
  <2>3. Exclusive' /\ LedgerIsExact' /\ held' \in [Ops -> SUBSET Coins] /\ counts' \in [Coins -> Int]
    BY <1>4, <2>1, <2>2, PinKeeps DEF pinInputs
  <2>4. TypeInv' /\ HeldBySenders'
    BY <1>4, <2>3 DEF IInv, TypeInv, HeldBySenders, pinInputs, Stages
  <2> QED BY <2>3, <2>4 DEF IInv
<1>5. ASSUME NEW p \in Ops, Yield(p) PROVE IInv'
  BY <1>5 DEF IInv, TypeInv, HeldBySenders, Exclusive, LedgerIsExact, Yield, Stages
<1>6. ASSUME NEW p \in Ops, NEW c \in Coins, AddCoin(p, c) PROVE IInv'
  <2>1. {c} \cap reserved = {} /\ held[p] \cup {c} \in SUBSET Coins
    BY <1>6 DEF AddCoin, Pickable, IInv, TypeInv
  <2>2. Exclusive' /\ LedgerIsExact' /\ held' \in [Ops -> SUBSET Coins] /\ counts' \in [Coins -> Int]
    BY <1>6, <2>1, PinKeeps DEF AddCoin
  <2>3. TypeInv' /\ HeldBySenders'
    BY <1>6, <2>2 DEF IInv, TypeInv, HeldBySenders, AddCoin, Stages
  <2> QED BY <2>2, <2>3 DEF IInv
<1>7. ASSUME NEW p \in Ops, Send(p) PROVE IInv'
  BY <1>7, FinishKeeps DEF Send
<1>8. ASSUME NEW p \in Ops, Refuse(p) PROVE IInv'
  BY <1>8, FinishKeeps DEF Refuse
<1>9. CASE Crash
  BY <1>9 DEF IInv, TypeInv, HeldBySenders, Exclusive, LedgerIsExact, Crash, Stages
<1>10. CASE UNCHANGED vars
  BY <1>10 DEF IInv, TypeInv, HeldBySenders, Exclusive, LedgerIsExact, vars
<1> QED BY <1>1, <1>2, <1>3, <1>4, <1>5, <1>6, <1>7, <1>8, <1>9, <1>10 DEF Next

(* For any coins and any operations, no coin is pinned by two of them and    *)
(* the ledger neither leaks a pin nor frees a coin under a spend, over every  *)
(* interleaving of reads, plans, pins, failures and crashes: what             *)
(* fundLockup.ts, pool.ts and arkadeFunds.ts rely on reservations.ts for.     *)
THEOREM LedgerKept == Spec => []LedgerIsKept
<1>1. Init => IInv
  BY DEF Init, IInv, TypeInv, HeldBySenders, Exclusive, LedgerIsExact, Stages
<1>2. IInv => LedgerIsKept
  BY DEF IInv, LedgerIsKept
<1> QED BY <1>1, <1>2, Inductive, PTL DEF Spec

(***************************************************************************)
(* Refills.  A coin is pinned for exactly one owner, a payment leaves once, *)
(* and no automatic refill passes the limit of its day: for any transfers,  *)
(* coins, policies and faults.                                              *)
(***************************************************************************)
Ended == {"completed", "refunded"}
RowStates == {"none", "quoted", "cancelled"} \cup Active \cup Ended
Transfer ==
  [state : RowStates, origin : {"manual", "automatic"}, inputs : SUBSET FloatCoins, over : Ids \cup {NoId},
   rev : Int, expires : Int, charged : Int, txid : BOOLEAN, cleared : BOOLEAN]
OpPlaces == {"idle", "claimed", "submit", "answer", "tick", "refill", "quoted"}
RefillTypeInv ==
  /\ row \in [Ids -> Transfer] /\ order \in Seq(Ids)
  /\ spent \subseteq FloatCoins /\ wire \subseteq Ids
  /\ paid \in [Ids -> Nat] /\ fate \in [Ids -> {"none", "credited", "refunded"}]
  /\ view \subseteq FloatCoins /\ pins \in [FloatCoins -> Int]
  /\ hold \in [Ids -> {"none", "full", "inputs"}] /\ clearing \subseteq Ids
  /\ policy \in Int /\ op \in [at : OpPlaces, id : Ids \cup {NoId}, left : SUBSET Ids]
  /\ other \subseteq FloatCoins /\ now \in Nat /\ faults \in Nat

(* A row is charged once its payment may leave, and held from then until it is cleared. *)
RowsMakeSense ==
  \A id \in Ids :
    /\ row[id].charged # -1 <=> row[id].state \in Active \cup Ended
    /\ row[id].cleared => row[id].state \in Ended
    /\ hold[id] # "none" <=> row[id].charged # -1 /\ ~row[id].cleared
    /\ id \in clearing => row[id].state \in Ended /\ ~row[id].cleared

(* What the operation under the serialiser may rely on at each of its awaits. *)
OpMakesSense ==
  /\ op.at \in {"claimed", "submit", "answer", "quoted"} => op.id \in Ids
  /\ op.at = "claimed" => row[op.id].state = "quoted" /\ InState(Active) \subseteq {row[op.id].over}
  /\ op.at \in {"submit", "answer"} => row[op.id].state = "submitting"
  /\ op.at = "submit" => paid[op.id] = 0 /\ op.id \notin wire
  /\ op.at = "tick" => op.left \subseteq InState(Active)

(* A coin is pinned once, for one owner: a held transfer, the claim under way or another operation. *)
Claims(c) == op.at = "claimed" /\ c \in row[op.id].inputs
Holds(id, c) == hold[id] # "none" /\ c \in row[id].inputs
PinsAreExact ==
  \A c \in FloatCoins : pins[c] = IF (\E id \in Ids : Holds(id, c)) \/ c \in other \/ Claims(c) THEN 1 ELSE 0
OneOwner ==
  \A c \in FloatCoins :
    /\ \A i, j \in Ids : Holds(i, c) /\ Holds(j, c) => i = j
    /\ \A i \in Ids : Holds(i, c) => c \notin other /\ ~Claims(c)
    /\ Claims(c) => c \notin other

PaymentsLeaveOnce ==
  \A id \in Ids : /\ paid[id] <= 1 /\ (id \in wire => paid[id] = 0)
                  /\ paid[id] > 0 \/ id \in wire => row[id].charged # -1

(* The limit of the day, the claim under way included. *)
Rolling(t) == {id \in Ids : row[id].charged > t - Day /\ row[id].charged # -1 /\ row[id].state \notin {"failed", "cancelled"}}
LimitIsKept ==
  /\ \A k \in DOMAIN order : row[order[k]].charged # -1
  /\ DailyLimit
  /\ op.at = "claimed" /\ row[op.id].origin = "automatic" => Debits(Rolling(now)) + Debit(op.id) <= row[op.id].rev

FewActive ==
  /\ \A i, j \in InState(Critical) : i = j
  /\ \A i, j, k \in InState(Active) : i = j \/ j = k \/ i = k
  /\ \A i, j \in InState(Active) : i # j => row[i].over = j \/ row[j].over = i

RefillInv ==
  /\ RefillTypeInv /\ RowsMakeSense /\ OpMakesSense /\ PinsAreExact /\ OneOwner /\ PaymentsLeaveOnce
  /\ RowTellsTheTruth /\ LimitIsKept /\ FewActive

-----------------------------------------------------------------------------
(* The debits of a set of transfers: numbers, larger for a larger set, and the same while the inputs are. *)
Taken(S) == {p \in S \X FloatCoins : p[2] \in row[p[1]].inputs}

LEMMA TakenIsFinite == ASSUME NEW S \in SUBSET Ids PROVE IsFiniteSet(Taken(S)) /\ Debits(S) \in Nat
<1>1. IsFiniteSet(S)
  BY FS_Subset, RefillAssumption
<1>2. IsFiniteSet(S \X FloatCoins)
  BY <1>1, FS_Product, RefillAssumption
<1>3. Taken(S) \in SUBSET (S \X FloatCoins)
  BY DEF Taken
<1>4. IsFiniteSet(Taken(S))
  BY <1>2, <1>3, FS_Subset
<1> QED BY <1>4, FS_CardinalityType DEF Debits, Taken

LEMMA DebitsGrow == ASSUME NEW T \in SUBSET Ids, NEW S \in SUBSET T PROVE Debits(S) <= Debits(T)
<1>1. Taken(S) \in SUBSET Taken(T)
  BY DEF Taken
<1> QED BY <1>1, TakenIsFinite, FS_Subset DEF Debits, Taken

LEMMA DebitsStay ==
  ASSUME NEW S \in SUBSET Ids, \A i \in S : row'[i].inputs = row[i].inputs
  PROVE  Cardinality({p \in S \X FloatCoins : p[2] \in row'[p[1]].inputs}) = Debits(S)
<1>1. {p \in S \X FloatCoins : p[2] \in row'[p[1]].inputs} = Taken(S)
  BY DEF Taken
<1> QED BY <1>1 DEF Debits, Taken

(* One more transfer adds no more than its own debit. *)
LEMMA DebitsAdd ==
  ASSUME NEW S \in SUBSET Ids, NEW id \in Ids, row[id].inputs \in SUBSET FloatCoins
  PROVE  Debits(S \cup {id}) <= Debits(S) + Debit(id) /\ Debit(id) \in Nat
<1> DEFINE one == {id} \X row[id].inputs
<1>1. IsFiniteSet(row[id].inputs) /\ Debit(id) \in Nat
  BY FS_Subset, FS_CardinalityType, RefillAssumption DEF Debit
<1>2. IsFiniteSet(one) /\ Cardinality(one) = Debit(id)
  <2>1. IsFiniteSet({id}) /\ Cardinality({id}) = 1
    BY FS_Singleton
  <2>2. IsFiniteSet(one) /\ Cardinality(one) = Cardinality({id}) * Cardinality(row[id].inputs)
    BY <1>1, <2>1, FS_Product
  <2> HIDE DEF one
  <2> QED BY <1>1, <2>1, <2>2 DEF Debit
<1>3. Taken(S \cup {id}) \subseteq Taken(S) \cup one
  BY DEF Taken
<1>4. IsFiniteSet(Taken(S) \cup one) /\ Cardinality(Taken(S) \cup one) = Cardinality(Taken(S)) + Cardinality(one) - Cardinality(Taken(S) \cap one)
  BY <1>2, TakenIsFinite, FS_Union
<1>5. IsFiniteSet(Taken(S) \cap one) /\ Cardinality(Taken(S) \cap one) \in Nat /\ Cardinality(one) \in Nat /\ Cardinality(Taken(S)) \in Nat
  BY <1>2, TakenIsFinite, FS_Intersection, FS_CardinalityType
<1>6. Cardinality(Taken(S \cup {id})) <= Cardinality(Taken(S) \cup one) /\ Cardinality(Taken(S \cup {id})) \in Nat
  BY <1>3, <1>4, FS_Subset, FS_CardinalityType
<1>7. Debits(S \cup {id}) = Cardinality(Taken(S \cup {id})) /\ Debits(S) = Cardinality(Taken(S))
  BY DEF Debits, Taken
<1> HIDE DEF one
<1> QED BY <1>1, <1>2, <1>4, <1>5, <1>6, <1>7

-----------------------------------------------------------------------------
(* A step that charges nothing and leaves the charged rows' terms alone keeps the limit. *)
ChargesStay ==
  /\ order' = order /\ now' >= now
  /\ \A i \in Ids : row[i].charged # -1 \/ row'[i].charged # -1 =>
       /\ row'[i].charged = row[i].charged /\ row'[i].inputs = row[i].inputs
       /\ row'[i].origin = row[i].origin /\ row'[i].rev = row[i].rev
  /\ op'.at = "claimed" => op.at = "claimed" /\ op'.id = op.id /\ row'[op.id] = row[op.id]

LEMMA LimitStays ==
  ASSUME RefillInv, RefillTypeInv', RowsMakeSense', ChargesStay
  PROVE  LimitIsKept'
<1> USE DEF RefillInv
<1>0. \A k \in DOMAIN order : order[k] \in Ids
  BY DEF RefillTypeInv
<1>1. \A k \in DOMAIN order' : row'[order'[k]].charged # -1
  BY <1>0 DEF LimitIsKept, ChargesStay
<1>2. DailyLimit'
  <2> SUFFICES ASSUME NEW k \in DOMAIN order', row'[order'[k]].origin = "automatic"
               PROVE Debits(ChargedBy(k))' <= row'[order'[k]].rev
    BY DEF DailyLimit
  <2>0. k \in DOMAIN order /\ order[k] \in Ids /\ k \in Int /\ DOMAIN order = 1..Len(order) /\ Len(order) \in Nat
    BY <1>0 DEF ChargesStay, RefillTypeInv
  <2>1. \A j \in 1..k : order[j] \in Ids /\ row'[order[j]].charged = row[order[j]].charged /\ row'[order[j]].inputs = row[order[j]].inputs
    BY <1>0, <2>0 DEF LimitIsKept, ChargesStay
  <2>2. row'[order[k]].origin = row[order[k]].origin /\ row'[order[k]].rev = row[order[k]].rev /\ row'[order[k]].charged = row[order[k]].charged
    BY <2>0 DEF LimitIsKept, ChargesStay
  <2>3. ChargedBy(k)' = ChargedBy(k)
    BY <2>1, <2>2 DEF ChargedBy, ChargesStay
  <2>4. ChargedBy(k) \in SUBSET Ids /\ \A i \in ChargedBy(k) : row'[i].inputs = row[i].inputs
    BY <2>1 DEF ChargedBy
  <2>5. Debits(ChargedBy(k))' = Debits(ChargedBy(k))
    BY <2>3, <2>4, DebitsStay DEF Debits
  <2>6. Debits(ChargedBy(k)) <= row[order[k]].rev
    BY <2>0, <2>2 DEF LimitIsKept, DailyLimit, ChargesStay
  <2> QED BY <2>2, <2>5, <2>6 DEF ChargesStay
<1>3. ASSUME op'.at = "claimed", row'[op'.id].origin = "automatic"
      PROVE  Debits(Rolling(now))' + Debit(op.id)' <= row'[op'.id].rev
  <2>1. op.at = "claimed" /\ op'.id = op.id /\ row'[op.id] = row[op.id] /\ op.id \in Ids
    BY <1>3 DEF ChargesStay, OpMakesSense
  <2>2. Rolling(now)' \in SUBSET Rolling(now) /\ Rolling(now) \in SUBSET Ids
    <3>1. ASSUME NEW i \in Rolling(now)' PROVE i \in Rolling(now)
      <4>1. i \in Ids /\ row'[i].charged # -1 /\ row'[i].charged > now' - Day
        BY <3>1 DEF Rolling
      <4>2. row[i].charged = row'[i].charged /\ now' >= now /\ now' \in Nat /\ now \in Nat /\ row[i].charged \in Int
        BY <4>1 DEF ChargesStay, RefillTypeInv, Transfer
      <4>3. row[i].state \notin {"failed", "cancelled"}
        BY <4>1, <4>2 DEF RowsMakeSense, Active, Ended
      <4> QED BY <4>1, <4>2, <4>3, RefillAssumption DEF Rolling
    <3> QED BY <3>1 DEF Rolling
  <2>3. \A i \in Rolling(now)' : row'[i].inputs = row[i].inputs
    BY DEF Rolling, ChargesStay
  <2>4. Debits(Rolling(now))' = Debits(Rolling(now)')
    BY <2>2, <2>3, DebitsStay DEF Debits
  <2>5. Debits(Rolling(now)') <= Debits(Rolling(now)) /\ Debits(Rolling(now)') \in Nat /\ Debits(Rolling(now)) \in Nat
    BY <2>2, DebitsGrow, TakenIsFinite
  <2>6. Debit(op.id)' = Debit(op.id)
    BY <2>1 DEF Debit
  <2>7. Debit(op.id) \in Nat /\ row[op.id].rev \in Int
    <3>1. row[op.id] \in Transfer
      BY <2>1 DEF RefillTypeInv
    <3> QED BY <2>1, <3>1, DebitsAdd DEF Transfer
  <2>8. Debits(Rolling(now)) + Debit(op.id) <= row[op.id].rev
    BY <1>3, <2>1 DEF LimitIsKept
  <2> QED BY <2>1, <2>4, <2>5, <2>6, <2>7, <2>8
<1> QED BY <1>1, <1>2, <1>3 DEF LimitIsKept

(* A step that neither holds nor frees a coin keeps the ledger exact. *)
OwnersStay ==
  /\ pins' = pins /\ other' = other
  /\ \A i \in Ids : hold'[i] # "none" <=> hold[i] # "none"
  /\ \A i \in Ids : hold[i] # "none" => row'[i].inputs = row[i].inputs
  /\ op'.at = "claimed" <=> op.at = "claimed"
  /\ op.at = "claimed" => op'.id = op.id /\ row'[op.id].inputs = row[op.id].inputs

LEMMA LedgerStays == ASSUME RefillInv, OwnersStay PROVE PinsAreExact' /\ OneOwner'
<1>1. \A i \in Ids, c \in FloatCoins : Holds(i, c)' <=> Holds(i, c)
  BY DEF Holds, OwnersStay
<1>2. \A c \in FloatCoins : Claims(c)' <=> Claims(c)
  BY DEF Claims, OwnersStay
<1> QED BY <1>1, <1>2 DEF RefillInv, PinsAreExact, OneOwner, OwnersStay

(* A step that makes no transfer active, or critical, keeps few of them so. *)
ActivityShrinks ==
  /\ \A i \in InState(Critical)' : i \in InState(Critical)
  /\ \A i \in InState(Active)' : i \in InState(Active) /\ row'[i].over = row[i].over

LEMMA FewStay == ASSUME RefillInv, ActivityShrinks PROVE FewActive'
<1>1. \A i \in InState(Critical)' : i \in InState(Critical)
  BY DEF ActivityShrinks
<1>2. \A i \in InState(Active)' : i \in InState(Active) /\ row'[i].over = row[i].over
  BY DEF ActivityShrinks
<1>3. FewActive
  BY DEF RefillInv
<1> QED BY <1>1, <1>2, <1>3 DEF FewActive

(* A stuttering step. *)
LEMMA NothingMoves == ASSUME RefillInv, UNCHANGED refillVars PROVE RefillInv'
<1>1. row' = row /\ order' = order /\ spent' = spent /\ wire' = wire /\ paid' = paid /\ fate' = fate /\ view' = view
      /\ pins' = pins /\ hold' = hold /\ clearing' = clearing /\ op' = op /\ other' = other /\ policy' = policy
      /\ now' = now /\ faults' = faults
  BY DEF refillVars, world, memory
<1>2. RefillTypeInv'
  BY <1>1 DEF RefillInv, RefillTypeInv
<1>3. RowsMakeSense'
  BY <1>1 DEF RefillInv, RowsMakeSense
<1>4. OpMakesSense'
  BY <1>1 DEF RefillInv, OpMakesSense, InState
<1>5. PinsAreExact' /\ OneOwner'
  BY <1>1, LedgerStays DEF OwnersStay
<1>6. PaymentsLeaveOnce' /\ RowTellsTheTruth'
  BY <1>1 DEF RefillInv, PaymentsLeaveOnce, RowTellsTheTruth
<1>7. LimitIsKept'
  BY <1>1, <1>2, <1>3, LimitStays DEF ChargesStay, RefillInv, RefillTypeInv
<1>8. FewActive'
  BY <1>1, FewStay DEF ActivityShrinks, InState
<1> QED BY <1>2, <1>3, <1>4, <1>5, <1>6, <1>7, <1>8 DEF RefillInv

(* The parts of the invariant that a step outside the store leaves as they are. *)
LEMMA RowsAlone ==
  ASSUME RefillInv, RefillTypeInv', OpMakesSense', PaymentsLeaveOnce', RowTellsTheTruth', PinsAreExact', OneOwner',
         row' = row, order' = order, hold' = hold, clearing' = clearing, now' >= now,
         op'.at = "claimed" => op.at = "claimed" /\ op'.id = op.id
  PROVE  RefillInv'
<1>1. RowsMakeSense'
  BY DEF RefillInv, RowsMakeSense
<1>2. LimitIsKept'
  BY <1>1, LimitStays DEF ChargesStay
<1>3. FewActive'
  BY FewStay DEF ActivityShrinks, InState
<1> QED BY <1>1, <1>2, <1>3 DEF RefillInv

-----------------------------------------------------------------------------
(* One lemma per action.  First the steps that leave the rows alone. *)
LEMMA SetPolicyStep == ASSUME RefillInv, NEW rev \in Policies, setPolicy(rev) PROVE RefillInv'
<1> USE DEF RefillInv
<1>1. RefillTypeInv'
  BY RefillAssumption DEF RefillTypeInv, setPolicy, Idle, world, memory
<1>2. OpMakesSense'
  BY DEF RefillTypeInv, OpMakesSense, InState, setPolicy, Idle, world, memory
<1>3. PaymentsLeaveOnce' /\ RowTellsTheTruth'
  BY DEF RefillTypeInv, OpMakesSense, PaymentsLeaveOnce, RowTellsTheTruth, setPolicy, Idle, world, memory
<1>4. PinsAreExact' /\ OneOwner'
  BY LedgerStays DEF OwnersStay, setPolicy, Idle, world, memory
<1> QED BY <1>1, <1>2, <1>3, <1>4, RowsAlone DEF RefillTypeInv, setPolicy, Idle, world, memory

LEMMA SubmitStep == ASSUME RefillInv, Submit PROVE RefillInv'
<1> USE DEF RefillInv
<1>1. RefillTypeInv'
  BY DEF RefillTypeInv, Submit, Goto, world, memory, OpPlaces, OpMakesSense
<1>2. OpMakesSense'
  BY DEF RefillTypeInv, OpMakesSense, InState, Submit, Goto, world, memory
<1>3. PaymentsLeaveOnce' /\ RowTellsTheTruth'
  BY DEF RefillTypeInv, OpMakesSense, RowsMakeSense, Active, PaymentsLeaveOnce, RowTellsTheTruth, Submit, Goto, world, memory
<1>4. PinsAreExact' /\ OneOwner'
  BY LedgerStays DEF OwnersStay, Submit, Goto, world, memory
<1> QED BY <1>1, <1>2, <1>3, <1>4, RowsAlone DEF RefillTypeInv, Submit, Goto, world, memory

LEMMA TickBlindStep == ASSUME RefillInv, NEW id \in Ids, TickBlind(id) PROVE RefillInv'
<1> USE DEF RefillInv
<1>1. RefillTypeInv'
  BY DEF RefillTypeInv, TickBlind, Goto, world, memory, OpPlaces
<1>2. OpMakesSense'
  BY DEF RefillTypeInv, OpMakesSense, InState, TickBlind, Goto, world, memory
<1>3. PaymentsLeaveOnce' /\ RowTellsTheTruth'
  BY DEF RefillTypeInv, OpMakesSense, PaymentsLeaveOnce, RowTellsTheTruth, TickBlind, Goto, world, memory
<1>4. PinsAreExact' /\ OneOwner'
  BY LedgerStays DEF OwnersStay, TickBlind, Goto, world, memory
<1> QED BY <1>1, <1>2, <1>3, <1>4, RowsAlone DEF RefillTypeInv, TickBlind, Goto, world, memory

LEMMA TickEndsStep == ASSUME RefillInv, TickEnds PROVE RefillInv'
<1> USE DEF RefillInv
<1>1. RefillTypeInv'
  BY DEF RefillTypeInv, TickEnds, Goto, world, memory, OpPlaces
<1>2. OpMakesSense'
  BY DEF RefillTypeInv, OpMakesSense, InState, TickEnds, Goto, world, memory
<1>3. PaymentsLeaveOnce' /\ RowTellsTheTruth'
  BY DEF RefillTypeInv, OpMakesSense, PaymentsLeaveOnce, RowTellsTheTruth, TickEnds, Goto, world, memory
<1>4. PinsAreExact' /\ OneOwner'
  BY LedgerStays DEF OwnersStay, TickEnds, Goto, world, memory
<1> QED BY <1>1, <1>2, <1>3, <1>4, RowsAlone DEF RefillTypeInv, TickEnds, Goto, world, memory

LEMMA LoseStep == ASSUME RefillInv, NEW id \in Ids, Lose(id) PROVE RefillInv'
<1> USE DEF RefillInv
<1>1. RefillTypeInv'
  BY DEF RefillTypeInv, Lose, world, memory
<1>2. OpMakesSense'
  BY DEF RefillTypeInv, OpMakesSense, InState, Lose, world, memory
<1>3. PaymentsLeaveOnce' /\ RowTellsTheTruth'
  BY DEF RefillTypeInv, OpMakesSense, PaymentsLeaveOnce, RowTellsTheTruth, Lose, world, memory
<1>4. PinsAreExact' /\ OneOwner'
  BY LedgerStays DEF OwnersStay, Lose, world, memory
<1> QED BY <1>1, <1>2, <1>3, <1>4, RowsAlone DEF RefillTypeInv, Lose, world, memory

LEMMA SettleStep == ASSUME RefillInv, NEW id \in Ids, Settle(id) PROVE RefillInv'
<1> USE DEF RefillInv
<1>1. RefillTypeInv'
  BY DEF RefillTypeInv, Settle, world, memory
<1>2. OpMakesSense'
  BY DEF RefillTypeInv, OpMakesSense, InState, Settle, world, memory
<1>3. PaymentsLeaveOnce' /\ RowTellsTheTruth'
  BY DEF RefillTypeInv, OpMakesSense, PaymentsLeaveOnce, RowTellsTheTruth, Settle, world, memory
<1>4. PinsAreExact' /\ OneOwner'
  BY LedgerStays DEF OwnersStay, Settle, world, memory
<1> QED BY <1>1, <1>2, <1>3, <1>4, RowsAlone DEF RefillTypeInv, Settle, world, memory

LEMMA RefreshStep == ASSUME RefillInv, Refresh PROVE RefillInv'
<1> USE DEF RefillInv
<1>1. RefillTypeInv'
  BY DEF RefillTypeInv, Refresh, world, memory
<1>2. OpMakesSense'
  BY DEF RefillTypeInv, OpMakesSense, InState, Refresh, world, memory
<1>3. PaymentsLeaveOnce' /\ RowTellsTheTruth'
  BY DEF RefillTypeInv, OpMakesSense, PaymentsLeaveOnce, RowTellsTheTruth, Refresh, world, memory
<1>4. PinsAreExact' /\ OneOwner'
  BY LedgerStays DEF OwnersStay, Refresh, world, memory
<1> QED BY <1>1, <1>2, <1>3, <1>4, RowsAlone DEF RefillTypeInv, Refresh, world, memory

LEMMA PassStep == ASSUME RefillInv, Pass PROVE RefillInv'
<1> USE DEF RefillInv
<1>1. RefillTypeInv'
  BY DEF RefillTypeInv, Pass, world, memory
<1>2. OpMakesSense'
  BY DEF RefillTypeInv, OpMakesSense, InState, Pass, world, memory
<1>3. PaymentsLeaveOnce' /\ RowTellsTheTruth'
  BY DEF RefillTypeInv, OpMakesSense, PaymentsLeaveOnce, RowTellsTheTruth, Pass, world, memory
<1>4. PinsAreExact' /\ OneOwner'
  BY LedgerStays DEF OwnersStay, Pass, world, memory
<1> QED BY <1>1, <1>2, <1>3, <1>4, RowsAlone DEF RefillTypeInv, Pass, world, memory

LEMMA ExecuteStep == ASSUME RefillInv, NEW id \in Ids, Execute(id) PROVE RefillInv'
<1> USE DEF RefillInv
<1>1. RefillTypeInv'
  BY DEF RefillTypeInv, Execute, world, memory, Transfer
<1>2. OpMakesSense'
  BY DEF RefillTypeInv, OpMakesSense, InState, Execute, world, memory
<1>3. PaymentsLeaveOnce' /\ RowTellsTheTruth'
  BY DEF RefillTypeInv, OpMakesSense, PaymentsLeaveOnce, RowTellsTheTruth, Execute, world, memory
<1>4. PinsAreExact' /\ OneOwner'
  BY LedgerStays DEF OwnersStay, Execute, world, memory
<1> QED BY <1>1, <1>2, <1>3, <1>4, RowsAlone DEF RefillTypeInv, Execute, world, memory

(* Then those that pin and unpin.  A coin that is not reserved has no owner. *)
LEMMA Unowned ==
  ASSUME RefillInv, NEW c \in FloatCoins, c \notin Reserved
  PROVE  pins[c] = 0 /\ c \notin other /\ ~Claims(c) /\ \A i \in Ids : ~Holds(i, c)
  BY DEF RefillInv, PinsAreExact, Reserved

LEMMA OtherPinsStep == ASSUME RefillInv, NEW c \in FloatCoins, OtherPins(c) PROVE RefillInv'
<1> USE DEF RefillInv
<1>1. RefillTypeInv'
  BY DEF RefillTypeInv, OtherPins, pinned, world
<1>2. OpMakesSense'
  BY DEF OpMakesSense, InState, OtherPins, world
<1>3. PaymentsLeaveOnce' /\ RowTellsTheTruth'
  BY DEF PaymentsLeaveOnce, RowTellsTheTruth, OtherPins, world
<1>4. /\ other = {} /\ other' = {c} /\ c \notin Reserved
      /\ \A d \in FloatCoins : pins'[d] = IF d = c THEN pins[d] + 1 ELSE pins[d]
      /\ \A d \in FloatCoins : Claims(d)' <=> Claims(d)
      /\ \A d \in FloatCoins, i \in Ids : Holds(i, d)' <=> Holds(i, d)
  BY DEF OtherPins, pinned, Claims, Holds
<1>5. PinsAreExact' /\ OneOwner'
  BY <1>4, Unowned DEF PinsAreExact, OneOwner
<1>6. row' = row /\ order' = order /\ hold' = hold /\ clearing' = clearing /\ now' = now /\ op' = op /\ now \in Nat
  BY DEF RefillTypeInv, OtherPins
<1> QED BY <1>1, <1>2, <1>3, <1>5, <1>6, RowsAlone

LEMMA OtherSpendsStep == ASSUME RefillInv, OtherSpends PROVE RefillInv'
<1> USE DEF RefillInv
<1>1. RefillTypeInv'
  BY DEF RefillTypeInv, OtherSpends, unpinned
<1>2. OpMakesSense'
  BY DEF OpMakesSense, InState, OtherSpends
<1>3. PaymentsLeaveOnce' /\ RowTellsTheTruth'
  BY DEF PaymentsLeaveOnce, RowTellsTheTruth, OtherSpends
<1>4. /\ other' = {}
      /\ \A d \in FloatCoins : pins'[d] = IF d \in other /\ pins[d] > 0 THEN pins[d] - 1 ELSE pins[d]
      /\ \A d \in FloatCoins : Claims(d)' <=> Claims(d)
      /\ \A d \in FloatCoins, i \in Ids : Holds(i, d)' <=> Holds(i, d)
  BY DEF OtherSpends, unpinned, Claims, Holds
<1>5. PinsAreExact' /\ OneOwner'
  BY <1>4 DEF PinsAreExact, OneOwner
<1> QED BY <1>1, <1>2, <1>3, <1>5, RowsAlone DEF RefillTypeInv, OtherSpends

LEMMA SaveFailsStep == ASSUME RefillInv, SaveFails PROVE RefillInv'
<1> USE DEF RefillInv
<1>0. op.at = "claimed" /\ op.id \in Ids /\ row[op.id].inputs \subseteq FloatCoins
  BY DEF SaveFails, OpMakesSense, RefillTypeInv, Transfer
<1>1. RefillTypeInv'
  BY DEF RefillTypeInv, SaveFails, unpinned, Goto, OpPlaces, world
<1>2. OpMakesSense'
  BY DEF OpMakesSense, SaveFails, Goto
<1>3. PaymentsLeaveOnce' /\ RowTellsTheTruth'
  BY DEF PaymentsLeaveOnce, RowTellsTheTruth, SaveFails, world
<1>4. /\ other' = other
      /\ \A d \in FloatCoins : pins'[d] = IF Claims(d) /\ pins[d] > 0 THEN pins[d] - 1 ELSE pins[d]
      /\ \A d \in FloatCoins : ~Claims(d)'
      /\ \A d \in FloatCoins, i \in Ids : Holds(i, d)' <=> Holds(i, d)
  BY <1>0 DEF SaveFails, unpinned, Claims, Holds, Goto
<1>5. PinsAreExact' /\ OneOwner'
  BY <1>4 DEF PinsAreExact, OneOwner
<1> QED BY <1>1, <1>2, <1>3, <1>5, RowsAlone DEF RefillTypeInv, SaveFails, Goto, world

(* The claim: unreserved coins, the limit of the day looked at, and nobody active but the transfer overlapped. *)
LEMMA PinStep == ASSUME RefillInv, NEW id \in Ids, op.at # "claimed", Pin(id) PROVE RefillInv'
<1> USE DEF RefillInv
<1>0. /\ row' = row /\ order' = order /\ hold' = hold /\ clearing' = clearing /\ now' = now /\ other' = other
      /\ spent' = spent /\ wire' = wire /\ paid' = paid /\ fate' = fate /\ view' = view /\ policy' = policy /\ faults' = faults
      /\ op' = [at |-> "claimed", id |-> id, left |-> {}]
      /\ pins' = pinned(pins, row[id].inputs)
      /\ SendAllowed(id) /\ InputsFree(id)
  BY DEF Pin, PinAllowed, Goto, world
<1>a. row[id] \in Transfer
  BY DEF RefillTypeInv
<1>1. RefillTypeInv'
  BY <1>0, <1>a DEF RefillTypeInv, pinned, OpPlaces
<1>2. OpMakesSense'
  <2>1. row[id].state = "quoted" /\ InState(Active) \subseteq {row[id].over}
    BY <1>0 DEF SendAllowed, checkAdmission
  <2> QED BY <1>0, <2>1 DEF OpMakesSense, InState
<1>3. PaymentsLeaveOnce' /\ RowTellsTheTruth' /\ RowsMakeSense'
  BY <1>0 DEF PaymentsLeaveOnce, RowTellsTheTruth, RowsMakeSense
<1>4. \A d \in FloatCoins : ~Claims(d)
  BY DEF Claims
<1>5. /\ \A d \in FloatCoins : Claims(d)' <=> d \in row[id].inputs
      /\ \A d \in FloatCoins : d \in row[id].inputs => d \notin Reserved
      /\ \A d \in FloatCoins : pins'[d] = IF d \in row[id].inputs THEN pins[d] + 1 ELSE pins[d]
      /\ \A d \in FloatCoins, i \in Ids : Holds(i, d)' <=> Holds(i, d)
  BY <1>0 DEF pinned, Claims, Holds, InputsFree
<1>6. PinsAreExact' /\ OneOwner'
  BY <1>0, <1>4, <1>5, Unowned DEF PinsAreExact, OneOwner
<1>7. /\ \A k \in DOMAIN order : row[order[k]].charged # -1
      /\ DailyLimit' <=> DailyLimit
      /\ (Debits(Rolling(now)) + Debit(op.id))' = Debits(Rolling(now)) + Debit(id)
  BY <1>0 DEF LimitIsKept, DailyLimit, ChargedBy, Debits, Debit, Rolling
<1>8. row[id].origin = "automatic" => Debits(Rolling(now)) + Debit(id) <= row[id].rev
  BY <1>0 DEF SendAllowed, rollingDebit, Rolling
<1>9. LimitIsKept'
  BY <1>0, <1>7, <1>8 DEF LimitIsKept
<1>10. FewActive'
  BY <1>0, FewStay DEF ActivityShrinks, InState
<1> QED BY <1>1, <1>2, <1>3, <1>6, <1>9, <1>10

LEMMA SendStep == ASSUME RefillInv, NEW id \in Ids, send(id) PROVE RefillInv'
  BY PinStep DEF send, Idle
LEMMA RefillSendStep == ASSUME RefillInv, RefillSend PROVE RefillInv'
  BY PinStep DEF RefillSend, RefillInv, OpMakesSense

(* A quote is a row nobody owes anything for. *)
LEMMA QuoteStep ==
  ASSUME RefillInv, NEW id \in Ids, NEW inputs \in SUBSET FloatCoins, NEW over \in Ids \cup {NoId}, NEW origin \in {"manual", "automatic"},
         makeQuote(id, origin, inputs, over), op.at # "claimed", op'.at # "claimed", RefillTypeInv',
         order' = order, spent' = spent, wire' = wire, paid' = paid, fate' = fate, view' = view,
         pins' = pins, hold' = hold, clearing' = clearing, other' = other, now' = now,
         OpMakesSense'
  PROVE  RefillInv'
<1> USE DEF RefillInv
<1>1. row \in [Ids -> Transfer] /\ row[id].state = "none"
      /\ row' = [row EXCEPT ![id] = Preview(origin, inputs, over)]
  BY DEF RefillTypeInv, makeQuote
<1>2. /\ \A i \in Ids \ {id} : row'[i] = row[i]
      /\ row'[id].state = "quoted" /\ row'[id].charged = -1 /\ ~row'[id].cleared
  BY <1>1 DEF Preview
<1>3. row[id].charged = -1 /\ ~row[id].cleared /\ hold[id] = "none" /\ id \notin clearing /\ paid[id] = 0 /\ id \notin wire
  <2>1. row[id].charged = -1 /\ ~row[id].cleared /\ hold[id] = "none" /\ id \notin clearing
    BY <1>1 DEF RowsMakeSense, Active, Ended
  <2>2. paid[id] \in Nat
    BY DEF RefillTypeInv
  <2> QED BY <2>1, <2>2 DEF PaymentsLeaveOnce
<1>4. RowsMakeSense'
  BY <1>2, <1>3 DEF RowsMakeSense, Active, Ended
<1>5. PaymentsLeaveOnce'
  BY <1>2, <1>3 DEF PaymentsLeaveOnce
<1>6. RowTellsTheTruth'
  BY <1>2 DEF RowTellsTheTruth
<1>7. PinsAreExact' /\ OneOwner'
  BY <1>2, <1>3, LedgerStays DEF OwnersStay
<1>8. LimitIsKept'
  <2>1. ChargesStay
    <3>1. now' >= now
      BY DEF RefillTypeInv
    <3> QED BY <1>2, <1>3, <3>1 DEF ChargesStay
  <2> QED BY <1>4, <2>1, LimitStays
<1>9. FewActive'
  BY <1>2, FewStay DEF ActivityShrinks, InState, Active, Critical
<1> QED BY <1>4, <1>5, <1>6, <1>7, <1>8, <1>9

LEMMA QuoteType ==
  ASSUME RefillTypeInv, NEW id \in Ids, NEW inputs \in SUBSET FloatCoins, NEW over \in Ids \cup {NoId}, NEW origin \in {"manual", "automatic"},
         makeQuote(id, origin, inputs, over)
  PROVE  row' \in [Ids -> Transfer]
<1>1. Preview(origin, inputs, over) \in Transfer
  <2>1. now + QuoteLife \in Int /\ policy \in Int /\ -1 \in Int
    BY RefillAssumption DEF RefillTypeInv
  <2>2. "quoted" \in RowStates /\ FALSE \in BOOLEAN
    BY DEF RowStates
  <2> QED BY <2>1, <2>2, Zenon DEF Transfer, Preview
<1> QED BY <1>1 DEF makeQuote, RefillTypeInv

LEMMA PersistQuoteStep ==
  ASSUME RefillInv, NEW id \in Ids, NEW inputs \in SUBSET FloatCoins, NEW over \in Ids \cup {NoId}, PersistQuote(id, inputs, over)
  PROVE  RefillInv'
<1>1. makeQuote(id, "manual", inputs, over) /\ op.at = "idle" /\ op' = op /\ UNCHANGED <<order, world, view, memory, policy, now, faults>>
  BY DEF PersistQuote, Idle, memory
<1>2. row' \in [Ids -> Transfer]
  BY <1>1, QuoteType DEF RefillInv
<1>3. RefillTypeInv'
  BY <1>1, <1>2 DEF RefillInv, RefillTypeInv, world, memory
<1>4. OpMakesSense'
  BY <1>1 DEF OpMakesSense
<1> QED BY <1>1, <1>3, <1>4, QuoteStep DEF world, memory

LEMMA RefillStep ==
  ASSUME RefillInv, NEW id \in Ids, NEW inputs \in SUBSET FloatCoins, Refill(id, inputs)
  PROVE  RefillInv'
<1>1. makeQuote(id, "automatic", inputs, NoId) /\ op.at = "refill" /\ op' = [at |-> "quoted", id |-> id, left |-> {}]
      /\ UNCHANGED <<order, world, view, pins, hold, clearing, other, policy, now, faults>>
  BY DEF Refill, Goto
<1>2. row' \in [Ids -> Transfer]
  BY <1>1, QuoteType DEF RefillInv
<1>3. RefillTypeInv'
  BY <1>1, <1>2 DEF RefillInv, RefillTypeInv, world, OpPlaces
<1>4. OpMakesSense'
  BY <1>1 DEF OpMakesSense
<1> QED BY <1>1, <1>3, <1>4, QuoteStep DEF world

LEMMA CancelStep == ASSUME RefillInv, NEW id \in Ids, cancel(id) PROVE RefillInv'
<1> USE DEF RefillInv
<1>1. /\ op.at = "idle" /\ op' = op /\ row[id].state = "quoted" /\ row' = [row EXCEPT ![id] = [row[id] EXCEPT !.state = "cancelled"]]
      /\ order' = order /\ spent' = spent /\ wire' = wire /\ paid' = paid /\ fate' = fate /\ view' = view
      /\ pins' = pins /\ hold' = hold /\ clearing' = clearing /\ other' = other /\ now' = now /\ policy' = policy /\ faults' = faults
  BY DEF cancel, Idle, save, world, memory
<1>2. row \in [Ids -> Transfer] /\ row[id] \in Transfer
  BY DEF RefillTypeInv
<1>3. [row[id] EXCEPT !.state = "cancelled"] \in Transfer
  BY <1>2 DEF Transfer, RowStates
<1>4. RefillTypeInv'
  BY <1>1, <1>3 DEF RefillTypeInv
<1>5. /\ \A i \in Ids \ {id} : row'[i] = row[i]
      /\ row'[id].state = "cancelled" /\ row'[id].charged = row[id].charged /\ row'[id].cleared = row[id].cleared
      /\ row'[id].inputs = row[id].inputs
  BY <1>1, <1>2 DEF Transfer
<1>6. row[id].charged = -1 /\ ~row[id].cleared /\ hold[id] = "none" /\ id \notin clearing /\ paid[id] = 0 /\ id \notin wire
  <2>1. row[id].charged = -1 /\ ~row[id].cleared /\ hold[id] = "none" /\ id \notin clearing
    BY <1>1 DEF RowsMakeSense, Active, Ended
  <2>2. paid[id] \in Nat
    BY DEF RefillTypeInv
  <2> QED BY <2>1, <2>2 DEF PaymentsLeaveOnce
<1>7. RowsMakeSense'
  BY <1>1, <1>5, <1>6 DEF RowsMakeSense, Active, Ended
<1>8. OpMakesSense'
  BY <1>1 DEF OpMakesSense
<1>9. PaymentsLeaveOnce' /\ RowTellsTheTruth'
  BY <1>1, <1>5, <1>6 DEF PaymentsLeaveOnce, RowTellsTheTruth
<1>10. PinsAreExact' /\ OneOwner'
  BY <1>1, <1>5, <1>6, LedgerStays DEF OwnersStay
<1>11. LimitIsKept'
  <2>1. ChargesStay
    BY <1>1, <1>5, <1>6 DEF ChargesStay, RefillTypeInv
  <2> QED BY <1>4, <1>7, <2>1, LimitStays
<1>12. FewActive'
  BY <1>5, FewStay DEF ActivityShrinks, InState, Active, Critical
<1> QED BY <1>4, <1>7, <1>8, <1>9, <1>10, <1>11, <1>12

-----------------------------------------------------------------------------
(* An active row moves on: pending, uncertain or ended, with the same charge, inputs and terms. *)
LEMMA MoveRow ==
  ASSUME RefillInv, NEW id \in Ids, row[id].state \in Active, NEW r \in Transfer,
         r.state \in {"pending", "needs_reconciliation"} \cup Ended,
         r.inputs = row[id].inputs, r.charged = row[id].charged, r.cleared = row[id].cleared,
         r.origin = row[id].origin, r.rev = row[id].rev, r.over = row[id].over,
         r.state = "completed" => fate[id] = "credited", r.state = "refunded" => fate[id] = "refunded",
         r.state = "needs_reconciliation" => InState(Critical) \subseteq {id},
         row' = [row EXCEPT ![id] = r],
         \A i \in Ids : hold'[i] # "none" <=> hold[i] # "none",
         clearing' = clearing \/ (r.state \in Ended /\ clearing' = clearing \cup {id}),
         pins' = pins, other' = other, order' = order, wire' = wire, paid' = paid, fate' = fate, now' = now,
         op.at # "claimed", op'.at # "claimed", RefillTypeInv', OpMakesSense'
  PROVE  RefillInv'
<1> USE DEF RefillInv
<1>1. row \in [Ids -> Transfer]
  BY DEF RefillTypeInv
<1>2. row'[id] = r /\ \A i \in Ids \ {id} : row'[i] = row[i]
  BY <1>1
<1>3. row[id].charged # -1 /\ ~row[id].cleared /\ id \notin clearing
  BY DEF RowsMakeSense, Active, Ended
<1>4. RowsMakeSense'
  BY <1>2, <1>3 DEF RowsMakeSense, Active
<1>5. PaymentsLeaveOnce'
  BY <1>2 DEF PaymentsLeaveOnce
<1>6. RowTellsTheTruth'
  BY <1>2 DEF RowTellsTheTruth
<1>7. PinsAreExact' /\ OneOwner'
  BY <1>2, LedgerStays DEF OwnersStay
<1>8. LimitIsKept'
  <2>1. now' >= now
    BY DEF RefillTypeInv
  <2>2. ChargesStay
    BY <1>2, <2>1 DEF ChargesStay
  <2> QED BY <1>4, <2>2, LimitStays
<1>9. FewActive'
  <2>1. \A i \in InState(Active)' : i \in InState(Active) /\ row'[i].over = row[i].over
    BY <1>2 DEF InState
  <2>2. \A i, j \in InState(Critical)' : i = j
    <3>1. CASE r.state = "needs_reconciliation"
      BY <1>2, <3>1 DEF InState
    <3>2. CASE r.state # "needs_reconciliation"
      <4>1. InState(Critical)' \subseteq InState(Critical)
        BY <1>2, <3>2 DEF InState, Critical, Ended
      <4> QED BY <4>1 DEF FewActive
    <3> QED BY <3>1, <3>2
  <2> QED BY <2>1, <2>2 DEF FewActive
<1> QED BY <1>4, <1>5, <1>6, <1>7, <1>8, <1>9

(* holdPending of a row that is held pins its inputs once more and lets the older pins go: the ledger is the same. *)
LEMMA HoldPendingKeeps ==
  ASSUME RefillInv, NEW id \in Ids, row[id].state \in Active, holdPending(id)
  PROVE  pins' = pins /\ hold' \in [Ids -> {"none", "full", "inputs"}] /\ \A i \in Ids : hold'[i] # "none" <=> hold[i] # "none"
<1> USE DEF RefillInv
<1>1. hold[id] # "none"
  BY DEF RowsMakeSense, Active, Ended
<1>2. \A c \in FloatCoins : pins[c] >= 0
  BY DEF PinsAreExact
<1>3. pins' = pins
  BY <1>1, <1>2 DEF holdPending, pinned, unpinned, RefillTypeInv
<1> QED BY <1>1, <1>3 DEF holdPending, RefillTypeInv

LEMMA AnswerStep == ASSUME RefillInv, Answer PROVE RefillInv'
<1> USE DEF RefillInv
<1> DEFINE id == op.id
<1>1. id \in Ids /\ row[id] \in Transfer /\ row[id].state = "submitting" /\ row[id].state \in Active
  BY DEF Answer, OpMakesSense, RefillTypeInv, Active
<1>2. PICK r \in Transfer : r = [row[id] EXCEPT !.state = "pending", !.txid = TRUE]
  BY <1>1 DEF Transfer, RowStates, Active
<1>3. /\ r.state = "pending" /\ r.inputs = row[id].inputs /\ r.charged = row[id].charged /\ r.cleared = row[id].cleared
      /\ r.origin = row[id].origin /\ r.rev = row[id].rev /\ r.over = row[id].over
  BY <1>1, <1>2 DEF Transfer
<1>4. /\ op.at = "answer" /\ row' = [row EXCEPT ![id] = r] /\ holdPending(id) /\ view' = view \ row[id].inputs
      /\ op' = [at |-> "idle", id |-> NoId, left |-> {}]
      /\ order' = order /\ spent' = spent /\ wire' = wire /\ paid' = paid /\ fate' = fate /\ clearing' = clearing /\ other' = other
      /\ policy' = policy /\ now' = now /\ faults' = faults
  BY <1>2 DEF Answer, save, Goto, world
<1>5. pins' = pins /\ hold' \in [Ids -> {"none", "full", "inputs"}] /\ \A i \in Ids : hold'[i] # "none" <=> hold[i] # "none"
  BY <1>1, <1>4, HoldPendingKeeps
<1>6. RefillTypeInv'
  BY <1>4, <1>5 DEF RefillTypeInv, OpPlaces
<1>7. OpMakesSense'
  BY <1>4 DEF OpMakesSense
<1> QED BY <1>1, <1>3, <1>4, <1>5, <1>6, <1>7, MoveRow

LEMMA UncertainStep == ASSUME RefillInv, Uncertain PROVE RefillInv'
<1> USE DEF RefillInv
<1> DEFINE id == op.id
<1>1. id \in Ids /\ row[id] \in Transfer /\ row[id].state = "submitting" /\ row[id].state \in Active
  BY DEF Uncertain, OpMakesSense, RefillTypeInv, Active
<1>2. PICK r \in Transfer : r = [row[id] EXCEPT !.state = "needs_reconciliation"]
  BY <1>1 DEF Transfer, RowStates, Active
<1>3. /\ r.state = "needs_reconciliation" /\ r.inputs = row[id].inputs /\ r.charged = row[id].charged /\ r.cleared = row[id].cleared
      /\ r.origin = row[id].origin /\ r.rev = row[id].rev /\ r.over = row[id].over
  BY <1>1, <1>2 DEF Transfer
<1>4. /\ op.at \in {"submit", "answer"} /\ row' = [row EXCEPT ![id] = r] /\ CriticalSource(id, r)
      /\ op' = [at |-> "idle", id |-> NoId, left |-> {}] /\ faults' \in Nat
      /\ order' = order /\ spent' = spent /\ wire' = wire /\ paid' = paid /\ fate' = fate /\ view' = view /\ pins' = pins
      /\ hold' = hold /\ clearing' = clearing /\ other' = other /\ policy' = policy /\ now' = now
  BY <1>2 DEF Uncertain, save, SaveAllowed, Goto, world, RefillTypeInv
<1>5. RefillTypeInv'
  BY <1>4 DEF RefillTypeInv, OpPlaces
<1>6. OpMakesSense'
  BY <1>4 DEF OpMakesSense
<1>7. InState(Critical) \subseteq {id}
  BY <1>3, <1>4 DEF CriticalSource, Critical
<1> QED BY <1>1, <1>3, <1>4, <1>5, <1>6, <1>7, MoveRow

LEMMA TickRowStep == ASSUME RefillInv, NEW id \in Ids, TickRow(id) PROVE RefillInv'
<1> USE DEF RefillInv
<1>1. /\ op.at = "tick" /\ id \in op.left /\ row[id].state \in Active
      /\ op' = [at |-> "tick", id |-> NoId, left |-> op.left \ {id}]
      /\ order' = order /\ spent' = spent /\ wire' = wire /\ paid' = paid /\ fate' = fate /\ view' = view /\ other' = other
      /\ policy' = policy /\ now' = now /\ faults' = faults
  BY DEF TickRow, Goto, world, OpMakesSense, InState
<1>2. row \in [Ids -> Transfer] /\ row[id] \in Transfer
  BY DEF RefillTypeInv
<1>3. ASSUME NEW r \in Transfer, row' = [row EXCEPT ![id] = r] PROVE OpMakesSense'
  <2>1. \A i \in Ids \ {id} : row'[i] = row[i]
    BY <1>2, <1>3
  <2>2. op.left \ {id} \subseteq InState(Active)'
    BY <1>1, <2>1 DEF OpMakesSense, InState
  <2> QED BY <1>1, <2>2 DEF OpMakesSense
<1>4. ASSUME NEW s \in Ended, Terminal(id, s), fate[id] = IF s = "completed" THEN "credited" ELSE "refunded"
      PROVE  RefillInv'
  <2>1. PICK r \in Transfer : r = [row[id] EXCEPT !.state = s]
    BY <1>2 DEF Transfer, RowStates
  <2>2. /\ r.state = s /\ r.inputs = row[id].inputs /\ r.charged = row[id].charged /\ r.cleared = row[id].cleared
        /\ r.origin = row[id].origin /\ r.rev = row[id].rev /\ r.over = row[id].over
    BY <1>2, <2>1 DEF Transfer
  <2>3. row' = [row EXCEPT ![id] = r] /\ clearing' = clearing \cup {id} /\ pins' = pins /\ hold' = hold
    BY <1>4, <2>1 DEF Terminal, save
  <2>4. RefillTypeInv'
    BY <1>1, <2>3 DEF RefillTypeInv, OpPlaces
  <2>5. OpMakesSense'
    BY <1>3, <2>3
  <2>6. r.state = "completed" => fate[id] = "credited"
    BY <1>4, <2>2
  <2>7. r.state = "refunded" => fate[id] = "refunded"
    BY <1>4, <2>2
  <2>8. r.state \in Ended /\ r.state # "needs_reconciliation"
    BY <2>2 DEF Ended
  <2> QED BY <1>1, <2>2, <2>3, <2>4, <2>5, <2>6, <2>7, <2>8, MoveRow
<1>5. ASSUME save(id, [row[id] EXCEPT !.state = "pending", !.txid = TRUE]), holdPending(id), UNCHANGED clearing
      PROVE  RefillInv'
  <2>1. PICK r \in Transfer : r = [row[id] EXCEPT !.state = "pending", !.txid = TRUE]
    BY <1>2 DEF Transfer, RowStates, Active
  <2>2. /\ r.state = "pending" /\ r.inputs = row[id].inputs /\ r.charged = row[id].charged /\ r.cleared = row[id].cleared
        /\ r.origin = row[id].origin /\ r.rev = row[id].rev /\ r.over = row[id].over
    BY <1>2, <2>1 DEF Transfer
  <2>3. row' = [row EXCEPT ![id] = r] /\ clearing' = clearing
    BY <1>5, <2>1 DEF save
  <2>4. pins' = pins /\ hold' \in [Ids -> {"none", "full", "inputs"}] /\ \A i \in Ids : hold'[i] # "none" <=> hold[i] # "none"
    BY <1>1, <1>5, HoldPendingKeeps
  <2>5. RefillTypeInv'
    BY <1>1, <2>3, <2>4 DEF RefillTypeInv, OpPlaces
  <2>6. OpMakesSense'
    BY <1>3, <2>3
  <2> QED BY <1>1, <2>2, <2>3, <2>4, <2>5, <2>6, MoveRow
<1>6. ASSUME UNCHANGED <<row, pins, hold, clearing>> PROVE RefillInv'
  <2>1. RefillTypeInv'
    BY <1>1, <1>6 DEF RefillTypeInv, OpPlaces
  <2>2. OpMakesSense'
    BY <1>1, <1>6 DEF OpMakesSense, InState
  <2>3. PaymentsLeaveOnce' /\ RowTellsTheTruth'
    BY <1>1, <1>6 DEF PaymentsLeaveOnce, RowTellsTheTruth
  <2>4. PinsAreExact' /\ OneOwner'
    BY <1>1, <1>6, LedgerStays DEF OwnersStay
  <2> QED BY <1>1, <1>6, <2>1, <2>2, <2>3, <2>4, RowsAlone DEF RefillTypeInv
<1>7. CASE Credited(id) /\ Terminal(id, "completed")
  BY <1>4, <1>7 DEF Credited, Ended
<1>8. CASE Observed(id) = "refunded" /\ Terminal(id, "refunded")
  BY <1>4, <1>8 DEF Observed, Ended
<1> QED BY <1>5, <1>6, <1>7, <1>8 DEF TickRow

(* The charge: the claim becomes a hold, and the limit looked at when the coins were claimed still stands. *)
LEMMA SaveSubmittingStep == ASSUME RefillInv, SaveSubmitting PROVE RefillInv'
<1> USE DEF RefillInv
<1>0. PICK id \in Ids : id = op.id
  BY DEF SaveSubmitting, OpMakesSense
<1>1. /\ id = op.id /\ op.at = "claimed" /\ id \in Ids /\ row \in [Ids -> Transfer] /\ row[id] \in Transfer /\ row[id].state = "quoted"
      /\ InState(Active) \subseteq {row[id].over} /\ now \in Nat /\ now \in Int
  BY <1>0 DEF SaveSubmitting, OpMakesSense, RefillTypeInv
<1>2. PICK r \in Transfer : r = [row[id] EXCEPT !.state = "submitting", !.charged = now]
  <2>1. "submitting" \in RowStates
    BY DEF RowStates, Active
  <2> QED BY <1>1, <2>1 DEF Transfer
<1>3. /\ r.state = "submitting" /\ r.charged = now /\ r.inputs = row[id].inputs /\ r.cleared = row[id].cleared
      /\ r.origin = row[id].origin /\ r.rev = row[id].rev /\ r.over = row[id].over
  BY <1>1, <1>2 DEF Transfer
<1>4. /\ row' = [row EXCEPT ![id] = r] /\ order' = Append(order, id) /\ hold' = [hold EXCEPT ![id] = "full"]
      /\ op' = [at |-> "submit", id |-> id, left |-> {}] /\ CriticalSource(id, r)
      /\ spent' = spent /\ wire' = wire /\ paid' = paid /\ fate' = fate /\ view' = view /\ pins' = pins
      /\ clearing' = clearing /\ other' = other /\ policy' = policy /\ now' = now /\ faults' = faults
  BY <1>1, <1>2 DEF SaveSubmitting, save, SaveAllowed, Goto, world
<1>5. row'[id] = r /\ (\A i \in Ids \ {id} : row'[i] = row[i]) /\ hold'[id] = "full" /\ (\A i \in Ids \ {id} : hold'[i] = hold[i])
  BY <1>1, <1>4 DEF RefillTypeInv
<1>6. row[id].charged = -1 /\ ~row[id].cleared /\ hold[id] = "none" /\ id \notin clearing /\ paid[id] = 0 /\ id \notin wire
  <2>1. row[id].charged = -1 /\ ~row[id].cleared /\ hold[id] = "none" /\ id \notin clearing
    BY <1>1 DEF RowsMakeSense, Active, Ended
  <2>2. paid[id] \in Nat
    BY <1>1 DEF RefillTypeInv
  <2> QED BY <1>1, <2>1, <2>2 DEF PaymentsLeaveOnce
<1>7. RefillTypeInv'
  BY <1>1, <1>4 DEF RefillTypeInv, OpPlaces
<1>8. RowsMakeSense'
  BY <1>1, <1>3, <1>4, <1>5, <1>6 DEF RowsMakeSense, Active, Ended
<1>9. OpMakesSense'
  BY <1>1, <1>3, <1>4, <1>5, <1>6 DEF OpMakesSense
<1>10. PaymentsLeaveOnce' /\ RowTellsTheTruth'
  BY <1>1, <1>3, <1>4, <1>5 DEF PaymentsLeaveOnce, RowTellsTheTruth
<1>11. PinsAreExact' /\ OneOwner'
  <2>1. \A c \in FloatCoins : ~Claims(c)'
    BY <1>4 DEF Claims
  <2>2. \A c \in FloatCoins : Claims(c) <=> Holds(id, c)'
    BY <1>1, <1>3, <1>5 DEF Claims, Holds
  <2>3. \A i \in Ids \ {id}, c \in FloatCoins : Holds(i, c)' <=> Holds(i, c)
    BY <1>5 DEF Holds
  <2>4. \A c \in FloatCoins : ~Holds(id, c)
    BY <1>6 DEF Holds
  <2>5. \A c \in FloatCoins : (\E i \in Ids : Holds(i, c)') <=> (Claims(c) \/ \E i \in Ids : Holds(i, c))
    BY <1>1, <2>2, <2>3, <2>4
  <2>6. PinsAreExact'
    BY <1>4, <2>1, <2>5 DEF PinsAreExact
  <2>7. OneOwner'
    BY <1>1, <1>4, <2>1, <2>2, <2>3, <2>4 DEF OneOwner
  <2> QED BY <2>6, <2>7
<1>12. LimitIsKept'
  <2>0. PICK n \in Nat : n = Len(order) + 1
    BY DEF RefillTypeInv
  <2>1. /\ n = Len(order) + 1 /\ DOMAIN order = 1..Len(order) /\ Len(order) \in Nat /\ DOMAIN order' = 1..n /\ order'[n] = id
        /\ \A k \in DOMAIN order : order'[k] = order[k] /\ order[k] \in Ids \ {id} /\ row[order[k]].charged # -1
    BY <1>1, <1>4, <1>6, <2>0 DEF RefillTypeInv, LimitIsKept
  <2>2. \A k \in DOMAIN order' : row'[order'[k]].charged # -1
    BY <1>1, <1>3, <1>5, <2>1
  <2>3. ASSUME NEW k \in DOMAIN order, row'[order'[k]].origin = "automatic"
        PROVE  Debits(ChargedBy(k))' <= row'[order'[k]].rev
    <3>1. \A j \in 1..k : j \in DOMAIN order
      BY <2>1
    <3>2. ChargedBy(k)' = ChargedBy(k)
      BY <1>5, <2>1, <3>1 DEF ChargedBy
    <3>3. ChargedBy(k) \in SUBSET Ids /\ \A i \in ChargedBy(k) : row'[i].inputs = row[i].inputs
      BY <1>5, <2>1, <3>1 DEF ChargedBy
    <3>4. Debits(ChargedBy(k))' = Debits(ChargedBy(k))
      BY <3>2, <3>3, DebitsStay DEF Debits
    <3>5. row[order[k]].origin = "automatic" /\ row'[order'[k]].rev = row[order[k]].rev
      BY <1>5, <2>1, <2>3
    <3> QED BY <3>4, <3>5 DEF LimitIsKept, DailyLimit
  <2>4. ASSUME r.origin = "automatic" PROVE Debits(ChargedBy(n))' <= r.rev
    <3> DEFINE S == Rolling(now) \cup {id}
    <3>1. Rolling(now) \in SUBSET Ids /\ S \in SUBSET Ids
      BY <1>1 DEF Rolling
    <3>2. ChargedBy(n)' \in SUBSET S
      <4>1. ASSUME NEW j \in 1..n, row'[order'[j]].charged > now - Day PROVE order'[j] \in S
        <5>1. CASE j = n
          BY <2>1, <5>1
        <5>2. CASE j # n
          <6>1. j \in DOMAIN order
            BY <2>1, <5>2
          <6>2. order'[j] \in Ids \ {id} /\ row[order'[j]].charged # -1 /\ row[order'[j]].charged > now - Day
            BY <1>5, <2>1, <4>1, <6>1
          <6>3. row[order'[j]].state \notin {"failed", "cancelled"}
            BY <6>2 DEF RowsMakeSense, Active, Ended
          <6> QED BY <6>2, <6>3 DEF Rolling
        <5> QED BY <5>1, <5>2
      <4>2. row'[order'[n]].charged = now
        BY <1>3, <1>5, <2>1
      <4> HIDE DEF S
      <4> QED BY <4>1, <4>2 DEF ChargedBy
    <3>3. \A i \in S : row'[i].inputs = row[i].inputs
      BY <1>3, <1>5, <3>1
    <3>4. Debits(ChargedBy(n))' = Debits(ChargedBy(n)')
      <4>1. ChargedBy(n)' \in SUBSET Ids /\ \A i \in ChargedBy(n)' : row'[i].inputs = row[i].inputs
        BY <3>1, <3>2, <3>3
      <4> QED BY <4>1, DebitsStay DEF Debits
    <3>5. Debits(ChargedBy(n)') <= Debits(S)
      BY <3>1, <3>2, DebitsGrow
    <3>6. Debits(S) <= Debits(Rolling(now)) + Debit(id) /\ Debit(id) \in Nat
      BY <1>1, <3>1, DebitsAdd DEF Transfer
    <3>7. Debits(Rolling(now)) + Debit(id) <= r.rev
      BY <1>1, <1>3, <2>4 DEF LimitIsKept
    <3>8. Debits(ChargedBy(n)') \in Nat /\ Debits(S) \in Nat /\ Debits(Rolling(now)) \in Nat /\ r.rev \in Int
      <4>1. ChargedBy(n)' \in SUBSET Ids
        BY <3>1, <3>2
      <4> QED BY <3>1, <4>1, TakenIsFinite DEF Transfer
    <3> HIDE DEF S
    <3> QED BY <3>4, <3>5, <3>6, <3>7, <3>8
  <2>5. DailyLimit'
    <3> SUFFICES ASSUME NEW k \in DOMAIN order', row'[order'[k]].origin = "automatic"
                 PROVE  Debits(ChargedBy(k))' <= row'[order'[k]].rev
      BY DEF DailyLimit
    <3>1. CASE k \in DOMAIN order
      BY <2>3, <3>1
    <3>2. CASE k \notin DOMAIN order
      <4>1. k = n /\ row'[order'[k]] = r
        BY <1>5, <2>1, <3>2
      <4> QED BY <2>4, <4>1
    <3> QED BY <3>1, <3>2
  <2> QED BY <1>4, <2>2, <2>5 DEF LimitIsKept
<1>13. FewActive'
  <2>1. InState(Critical) \subseteq {id}
    BY <1>3, <1>4 DEF CriticalSource, Critical
  <2>2. \A i \in InState(Critical)' : i = id
    BY <1>5, <2>1 DEF InState
  <2>3. \A i \in InState(Active)' : i = id \/ i = row[id].over
    BY <1>1, <1>5 DEF InState
  <2>4. row'[id].over = row[id].over
    BY <1>3, <1>5
  <2> QED BY <2>2, <2>3, <2>4 DEF FewActive
<1> QED BY <1>7, <1>8, <1>9, <1>10, <1>11, <1>12, <1>13

(* At most one element is counted once or not at all. *)
LEMMA CountOfOne == ASSUME NEW S, \A i, j \in S : i = j PROVE Cardinality(S) = IF S = {} THEN 0 ELSE 1
<1>1. CASE S = {}
  BY <1>1, FS_EmptySet
<1>2. CASE S # {}
  <2>1. PICK x \in S : TRUE
    BY <1>2
  <2>2. S = {x}
    BY <2>1
  <2> QED BY <1>2, <2>2, FS_Singleton
<1> QED BY <1>1, <1>2

(* clearTerminalPins gives back the pins of ended transfers whose inputs the wallet has seen gone. *)
LEMMA ClearStep ==
  ASSUME RefillInv, clearTerminalPins, op.at # "claimed", op'.at # "claimed",
         op' \in [at : OpPlaces, id : Ids \cup {NoId}, left : SUBSET Ids],
         order' = order, spent' = spent, wire' = wire, paid' = paid, fate' = fate, view' = view, other' = other,
         policy' = policy, now' = now, faults' = faults,
         op'.at \in {"tick", "refill"}, op'.at = "tick" => op'.left = InState(Active)
  PROVE  RefillInv'
<1> USE DEF RefillInv
<1>1. row \in [Ids -> Transfer] /\ ClearedRows \subseteq Ids
  BY DEF RefillTypeInv, ClearedRows
<1>2. \A i \in ClearedRows : [row[i] EXCEPT !.cleared = TRUE] \in Transfer
  <2> TAKE i \in ClearedRows
  <2>1. row[i] \in Transfer
    BY <1>1
  <2> QED BY <2>1 DEF Transfer
<1>3. row' \in [Ids -> Transfer]
  BY <1>1, <1>2 DEF clearTerminalPins
<1>4. \A i \in Ids : /\ row'[i].state = row[i].state /\ row'[i].inputs = row[i].inputs /\ row'[i].charged = row[i].charged
                     /\ row'[i].origin = row[i].origin /\ row'[i].rev = row[i].rev /\ row'[i].over = row[i].over
  BY <1>1 DEF clearTerminalPins, Transfer
<1>5. \A i \in Ids : row'[i].cleared <=> (row[i].cleared \/ i \in ClearedRows)
  BY <1>1 DEF clearTerminalPins, Transfer
<1>6. \A i \in ClearedRows : row[i].state \in Ended /\ ~row[i].cleared /\ hold[i] # "none"
  BY <1>1 DEF ClearedRows, RowsMakeSense, Ended
<1>7. hold' \in [Ids -> {"none", "full", "inputs"}] /\ \A i \in Ids : hold'[i] = IF i \in ClearedRows THEN "none" ELSE hold[i]
  BY DEF clearTerminalPins, RefillTypeInv
<1>8. ASSUME NEW c \in FloatCoins
      PROVE  /\ pins'[c] = pins[c] - (IF \E i \in ClearedRows : Holds(i, c) THEN 1 ELSE 0)
             /\ pins'[c] \in Int
  <2> DEFINE S == {i \in ClearedRows : c \in row[i].inputs}
  <2>1. \A i \in ClearedRows : Holds(i, c) <=> c \in row[i].inputs
    BY <1>6 DEF Holds
  <2>2. \A i, j \in S : i = j
    BY <1>1, <2>1 DEF OneOwner
  <2>3. Cardinality(S) = IF S = {} THEN 0 ELSE 1
    BY <2>2, CountOfOne
  <2>4. pins'[c] = pins[c] - Cardinality(S) /\ pins[c] \in Int
    BY DEF clearTerminalPins, RefillTypeInv
  <2> QED BY <2>1, <2>3, <2>4
<1>9. RefillTypeInv'
  <2>1. pins' \in [FloatCoins -> Int]
    <3>1. pins' = [c \in FloatCoins |-> pins'[c]]
      BY DEF clearTerminalPins
    <3> QED BY <1>8, <3>1
  <2>2. clearing' \subseteq Ids
    BY DEF clearTerminalPins, RefillTypeInv
  <2> QED BY <1>3, <1>7, <2>1, <2>2 DEF RefillTypeInv
<1>10. RowsMakeSense'
  BY <1>4, <1>5, <1>6, <1>7 DEF RowsMakeSense, clearTerminalPins, Ended, Active
<1>11. OpMakesSense'
  <2>1. InState(Active)' = InState(Active)
    BY <1>4 DEF InState
  <2> QED BY <2>1 DEF OpMakesSense
<1>12. PaymentsLeaveOnce' /\ RowTellsTheTruth'
  BY <1>4 DEF PaymentsLeaveOnce, RowTellsTheTruth
<1>13. PinsAreExact' /\ OneOwner'
  <2>1. \A c \in FloatCoins : ~Claims(c) /\ ~Claims(c)'
    BY DEF Claims
  <2>2. \A i \in Ids, c \in FloatCoins : Holds(i, c)' <=> Holds(i, c) /\ i \notin ClearedRows
    BY <1>4, <1>7 DEF Holds
  <2>3. OneOwner'
    BY <2>1, <2>2 DEF OneOwner
  <2>4. ASSUME NEW c \in FloatCoins PROVE pins'[c] = IF (\E i \in Ids : Holds(i, c)') \/ c \in other' \/ Claims(c)' THEN 1 ELSE 0
    <3>1. CASE \E i \in ClearedRows : Holds(i, c)
      <4>1. PICK i \in ClearedRows : Holds(i, c)
        BY <3>1
      <4>2. pins[c] = 1 /\ c \notin other /\ \A j \in Ids : Holds(j, c) => j = i
        BY <1>1, <4>1 DEF PinsAreExact, OneOwner
      <4> QED BY <1>8, <2>1, <2>2, <4>1, <4>2
    <3>2. CASE ~\E i \in ClearedRows : Holds(i, c)
      <4>1. pins'[c] = pins[c]
        <5>1. pins[c] \in Int
          BY DEF RefillTypeInv
        <5> QED BY <1>8, <3>2, <5>1
      <4>2. \A i \in Ids : Holds(i, c)' <=> Holds(i, c)
        BY <2>2, <3>2
      <4> QED BY <2>1, <4>1, <4>2 DEF PinsAreExact
    <3> QED BY <3>1, <3>2
  <2> QED BY <2>3, <2>4 DEF PinsAreExact
<1>14. LimitIsKept'
  <2>1. now' >= now
    BY DEF RefillTypeInv
  <2>2. ChargesStay
    BY <1>4, <2>1 DEF ChargesStay
  <2> QED BY <1>9, <1>10, <2>2, LimitStays
<1>15. FewActive'
  BY <1>4, FewStay DEF ActivityShrinks, InState
<1> QED BY <1>9, <1>10, <1>11, <1>12, <1>13, <1>14, <1>15

LEMMA TickStep == ASSUME RefillInv, Tick PROVE RefillInv'
<1>1. op.at = "idle" /\ op' = [at |-> "tick", id |-> NoId, left |-> InState(Active)] /\ clearTerminalPins
      /\ UNCHANGED <<order, world, view, other, policy, now, faults>>
  BY DEF Tick, Idle, Goto
<1>2. op' \in [at : OpPlaces, id : Ids \cup {NoId}, left : SUBSET Ids]
  BY <1>1 DEF OpPlaces, InState
<1> QED BY <1>1, <1>2, ClearStep DEF world

LEMMA TickRowsStep == ASSUME RefillInv, TickRows PROVE RefillInv'
<1>1. op.at = "tick" /\ op' = [at |-> "refill", id |-> NoId, left |-> {}] /\ clearTerminalPins
      /\ UNCHANGED <<order, world, view, other, policy, now, faults>>
  BY DEF TickRows, Goto
<1>2. op' \in [at : OpPlaces, id : Ids \cup {NoId}, left : SUBSET Ids]
  BY <1>1 DEF OpPlaces
<1> QED BY <1>1, <1>2, ClearStep DEF world

(* A restart pins again exactly what the transfers held. *)
LEMMA RestartStep == ASSUME RefillInv, Restart PROVE RefillInv'
<1> USE DEF RefillInv
<1>1. /\ row \in [Ids -> Transfer] /\ op' = [at |-> "idle", id |-> NoId, left |-> {}] /\ other' = {} /\ faults' \in Nat
      /\ order' = order /\ spent' = spent /\ wire' = wire /\ paid' = paid /\ fate' = fate /\ view' = view /\ policy' = policy /\ now' = now
  BY DEF RefillTypeInv, Restart, Goto, world
<1>2. \A i \in Ids : Restored(i) \in Transfer
  BY <1>1 DEF Restored, Transfer, RowStates, Active
<1>3. row' \in [Ids -> Transfer] /\ \A i \in Ids : row'[i] = Restored(i)
  BY <1>2 DEF Restart
<1>4. \A i \in Ids : /\ row'[i].inputs = row[i].inputs /\ row'[i].charged = row[i].charged /\ row'[i].cleared = row[i].cleared
                     /\ row'[i].origin = row[i].origin /\ row'[i].rev = row[i].rev /\ row'[i].over = row[i].over
                     /\ row'[i].state = IF row[i].state = "submitting" THEN "needs_reconciliation" ELSE row[i].state
  BY <1>1, <1>3 DEF Restored, Transfer
<1>5. \A i \in Ids : i \in protected <=> hold[i] # "none"
  BY DEF protected, InState, RowsMakeSense, Active, Ended
<1>6. hold' \in [Ids -> {"none", "full", "inputs"}] /\ \A i \in Ids : hold'[i] # "none" <=> hold[i] # "none"
  BY <1>5 DEF Restart
<1>7. \A i \in Ids, c \in FloatCoins : Holds(i, c)' <=> Holds(i, c)
  BY <1>4, <1>6 DEF Holds
<1>8. \A c \in FloatCoins : pins'[c] = IF \E i \in Ids : Holds(i, c) THEN 1 ELSE 0
  <2> TAKE c \in FloatCoins
  <2> DEFINE S == {i \in protected : c \in row[i].inputs}
  <2>1. protected \subseteq Ids
    BY DEF protected, InState
  <2>2. \A i \in Ids : i \in S <=> Holds(i, c)
    BY <1>5 DEF Holds
  <2>3. \A i, j \in S : i = j
    BY <2>1, <2>2 DEF OneOwner
  <2>4. Cardinality(S) = IF S = {} THEN 0 ELSE 1
    BY <2>3, CountOfOne
  <2>5. pins'[c] = Cardinality(S)
    BY DEF Restart
  <2> QED BY <2>1, <2>2, <2>4, <2>5
<1>9. RefillTypeInv'
  <2>1. pins' \in [FloatCoins -> Int]
    <3>1. pins' = [c \in FloatCoins |-> pins'[c]]
      BY DEF Restart
    <3> QED BY <1>8, <3>1
  <2>2. clearing' \subseteq Ids
    BY DEF Restart, TerminalRows, protected, InState
  <2> QED BY <1>1, <1>3, <1>6, <2>1, <2>2 DEF RefillTypeInv, OpPlaces
<1>10. RowsMakeSense'
  <2>1. \A i \in Ids : i \in clearing' => row[i].state \in Ended /\ ~row[i].cleared
    BY DEF Restart, TerminalRows, protected, InState, Ended
  <2> QED BY <1>4, <1>6, <2>1 DEF RowsMakeSense, Active, Ended
<1>11. OpMakesSense'
  BY <1>1 DEF OpMakesSense
<1>12. PaymentsLeaveOnce' /\ RowTellsTheTruth'
  BY <1>1, <1>4 DEF PaymentsLeaveOnce, RowTellsTheTruth
<1>13. PinsAreExact' /\ OneOwner'
  <2>1. \A c \in FloatCoins : ~Claims(c)' /\ c \notin other'
    BY <1>1 DEF Claims
  <2> QED BY <1>7, <1>8, <2>1 DEF PinsAreExact, OneOwner
<1>14. LimitIsKept'
  <2>1. now' >= now
    BY <1>1 DEF RefillTypeInv
  <2>2. ChargesStay
    BY <1>1, <1>4, <2>1 DEF ChargesStay
  <2> QED BY <1>9, <1>10, <2>2, LimitStays
<1>15. FewActive'
  BY <1>4, FewStay DEF ActivityShrinks, InState, Active, Critical
<1> QED BY <1>9, <1>10, <1>11, <1>12, <1>13, <1>14, <1>15

-----------------------------------------------------------------------------
LEMMA RefillInvInit == RefillInit => RefillInv
<1> SUFFICES ASSUME RefillInit PROVE RefillInv
  OBVIOUS
<1>1. NoRow \in Transfer
  <2>1. "none" \in RowStates /\ NoId \in Ids \cup {NoId} /\ 0 \in Int /\ -1 \in Int /\ FALSE \in BOOLEAN
    BY DEF RowStates
  <2> QED BY <2>1, Zenon DEF NoRow, Transfer
<1>2. RefillTypeInv
  BY <1>1, RefillAssumption DEF RefillInit, RefillTypeInv, OpPlaces
<1>3. RowsMakeSense /\ PaymentsLeaveOnce /\ RowTellsTheTruth
  BY DEF RefillInit, NoRow, RowsMakeSense, Active, Ended, PaymentsLeaveOnce, RowTellsTheTruth
<1>4. OpMakesSense
  BY DEF RefillInit, OpMakesSense
<1>5. PinsAreExact /\ OneOwner
  BY DEF RefillInit, PinsAreExact, OneOwner, Holds, Claims
<1>6. LimitIsKept
  <2>1. DOMAIN order = {}
    BY DEF RefillInit
  <2> QED BY <2>1 DEF RefillInit, LimitIsKept, DailyLimit
<1>7. FewActive
  BY DEF RefillInit, NoRow, FewActive, InState, Active, Critical
<1> QED BY <1>2, <1>3, <1>4, <1>5, <1>6, <1>7 DEF RefillInv

LEMMA RefillInvStep == ASSUME RefillInv, [RefillNext]_refillVars PROVE RefillInv'
<1>1. ASSUME NEW id \in Fresh, NEW inputs \in SUBSET FloatCoins, NEW over \in Ids \cup {NoId}, PersistQuote(id, inputs, over) PROVE RefillInv'
  BY <1>1, PersistQuoteStep DEF Fresh
<1>2. ASSUME NEW id \in Fresh, NEW inputs \in SUBSET FloatCoins, Refill(id, inputs) PROVE RefillInv'
  BY <1>2, RefillStep DEF Fresh
<1>3. ASSUME NEW id \in Ids, cancel(id) \/ send(id) \/ TickRow(id) \/ TickBlind(id) \/ Execute(id) \/ Lose(id) \/ Settle(id) PROVE RefillInv'
  BY <1>3, CancelStep, SendStep, TickRowStep, TickBlindStep, ExecuteStep, LoseStep, SettleStep
<1>4. ASSUME SaveSubmitting \/ SaveFails \/ Submit \/ Answer \/ Uncertain PROVE RefillInv'
  BY <1>4, SaveSubmittingStep, SaveFailsStep, SubmitStep, AnswerStep, UncertainStep
<1>5. ASSUME Tick \/ TickRows \/ TickEnds \/ RefillSend \/ Restart PROVE RefillInv'
  BY <1>5, TickStep, TickRowsStep, TickEndsStep, RefillSendStep, RestartStep
<1>6. ASSUME Refresh \/ OtherSpends \/ Pass PROVE RefillInv'
  BY <1>6, RefreshStep, OtherSpendsStep, PassStep
<1>7. ASSUME NEW c \in FloatCoins, OtherPins(c) PROVE RefillInv'
  BY <1>7, OtherPinsStep
<1>8. ASSUME NEW rev \in Policies, setPolicy(rev) PROVE RefillInv'
  BY <1>8, SetPolicyStep
<1>9. CASE UNCHANGED refillVars
  BY <1>9, NothingMoves
<1> QED BY <1>1, <1>2, <1>3, <1>4, <1>5, <1>6, <1>7, <1>8, <1>9 DEF RefillNext

(* What the properties count, from what the invariant says without counting. *)
LEMMA RefillInvSuffices == ASSUME RefillInv PROVE RefillIsSafe
<1> USE DEF RefillInv
<1>1. InputsStayOurs
  <2> SUFFICES ASSUME NEW id \in Ids, row[id].charged # -1, ~row[id].cleared
               PROVE  /\ row[id].inputs \cap other = {} /\ row[id].inputs \subseteq Reserved
                      /\ \A j \in Ids \ {id} : row[j].charged # -1 /\ ~row[j].cleared => row[id].inputs \cap row[j].inputs = {}
    BY DEF InputsStayOurs
  <2>1. hold[id] # "none" /\ row[id].inputs \subseteq FloatCoins
    BY DEF RowsMakeSense, RefillTypeInv, Transfer
  <2>2. \A c \in row[id].inputs : c \in FloatCoins /\ Holds(id, c)
    BY <2>1 DEF Holds
  <2>3. \A c \in row[id].inputs : c \notin other /\ pins[c] = 1
    BY <2>2 DEF OneOwner, PinsAreExact
  <2>4. ASSUME NEW j \in Ids \ {id}, row[j].charged # -1, ~row[j].cleared, NEW c \in row[id].inputs PROVE c \notin row[j].inputs
    <3>1. hold[j] # "none"
      BY <2>4 DEF RowsMakeSense
    <3> QED BY <2>2, <3>1 DEF Holds, OneOwner
  <2> QED BY <2>2, <2>3, <2>4 DEF Reserved
<1>2. PaidOnce
  <2> SUFFICES ASSUME NEW id \in Ids PROVE paid[id] + Cardinality({id} \cap wire) <= 1 /\ (paid[id] > 0 \/ id \in wire => row[id].charged # -1)
    BY DEF PaidOnce
  <2>1. paid[id] \in Nat /\ paid[id] <= 1 /\ (id \in wire => paid[id] = 0) /\ (paid[id] > 0 \/ id \in wire => row[id].charged # -1)
    BY DEF RefillTypeInv, PaymentsLeaveOnce
  <2>2. Cardinality({id} \cap wire) = IF {id} \cap wire = {} THEN 0 ELSE 1
    BY CountOfOne
  <2>3. {id} \cap wire = {} <=> id \notin wire
    OBVIOUS
  <2> QED BY <2>1, <2>2, <2>3
<1>3. RowTellsTheTruth /\ DailyLimit
  BY DEF LimitIsKept
<1>4. OneUncertain
  <2>1. Cardinality(InState(Critical)) <= 1
    BY CountOfOne DEF FewActive
  <2>2. Cardinality(InState(Active)) <= 2
    <3>1. CASE \A i, j \in InState(Active) : i = j
      BY <3>1, CountOfOne
    <3>2. CASE ~\A i, j \in InState(Active) : i = j
      <4>1. PICK i \in InState(Active), j \in InState(Active) : i # j
        BY <3>2
      <4>2. InState(Active) = {i} \cup {j}
        BY <4>1 DEF FewActive
      <4>3. IsFiniteSet({i}) /\ Cardinality({i}) = 1
        BY FS_Singleton
      <4>4. Cardinality({i} \cup {j}) = 2
        <5>1. Cardinality({i} \cup {j}) = IF j \in {i} THEN Cardinality({i}) ELSE Cardinality({i}) + 1
          BY <4>3, FS_AddElement
        <5> QED BY <4>1, <4>3, <5>1
      <4> QED BY <4>2, <4>4
    <3> QED BY <3>1, <3>2
  <2> QED BY <2>1, <2>2 DEF OneUncertain, FewActive
<1>5. PinsAreOwned
  <2> SUFFICES ASSUME NEW c \in FloatCoins
               PROVE  pins[c] = Cardinality({id \in Ids : hold[id] # "none" /\ c \in row[id].inputs}) + Cardinality(other \cap {c})
                                  + IF op.at = "claimed" /\ c \in row[op.id].inputs THEN 1 ELSE 0
    BY DEF PinsAreOwned
  <2> DEFINE H == {id \in Ids : Holds(id, c)}
  <2>1. {id \in Ids : hold[id] # "none" /\ c \in row[id].inputs} = H
    BY DEF Holds
  <2>2. Cardinality(H) = IF H = {} THEN 0 ELSE 1
    BY CountOfOne DEF OneOwner
  <2>3. Cardinality(other \cap {c}) = IF other \cap {c} = {} THEN 0 ELSE 1
    BY CountOfOne
  <2>4. other \cap {c} = {} <=> c \notin other
    OBVIOUS
  <2>5. H = {} <=> ~\E id \in Ids : Holds(id, c)
    OBVIOUS
  <2>6. /\ (\E id \in Ids : Holds(id, c)) => c \notin other /\ ~Claims(c)
        /\ Claims(c) => c \notin other
        /\ pins[c] = IF (\E id \in Ids : Holds(id, c)) \/ c \in other \/ Claims(c) THEN 1 ELSE 0
    BY DEF OneOwner, PinsAreExact
  <2>7. Claims(c) <=> op.at = "claimed" /\ c \in row[op.id].inputs
    BY DEF Claims
  <2>8. Cardinality(H) = (IF \E id \in Ids : Holds(id, c) THEN 1 ELSE 0) /\ Cardinality(other \cap {c}) = (IF c \in other THEN 1 ELSE 0)
    BY <2>2, <2>3, <2>4, <2>5
  <2>9. pins[c] = Cardinality(H) + Cardinality(other \cap {c}) + IF Claims(c) THEN 1 ELSE 0
    <3>1. CASE \E id \in Ids : Holds(id, c)
      BY <2>6, <2>8, <3>1
    <3>2. CASE ~\E id \in Ids : Holds(id, c)
      BY <2>6, <2>8, <3>2
    <3> QED BY <3>1, <3>2
  <2> QED BY <2>1, <2>7, <2>9
<1> QED BY <1>1, <1>2, <1>3, <1>4, <1>5 DEF RefillIsSafe

(* The rows, the ledger, the operation under the serialiser and the world around them stay within their types, and *)
(* every row, hold and claim keeps the meaning the next step relies on (rebalance.ts:99-127, 359-531). *)
THEOREM RefillInvariant == RefillSpec => []RefillInv
<1>1. RefillInit => RefillInv
  BY RefillInvInit
<1>2. RefillInv /\ [RefillNext]_refillVars => RefillInv'
  BY RefillInvStep
<1> QED BY <1>1, <1>2, PTL DEF RefillSpec

(* A refill is safe for any transfers, coins, limits and faults: its coins are nobody else's, its payment leaves once, *)
(* its row says what happened, the day's limit holds, one outcome at most is uncertain and every pin has its owner *)
(* (rebalance.ts:106-125, 212-229, 359-456; rebalanceStore.ts:141-148, 214-221). *)
THEOREM RefillSafety == RefillSpec => []RefillIsSafe
<1>1. RefillInv => RefillIsSafe
  BY RefillInvSuffices
<1> QED BY <1>1, RefillInvariant, PTL

(***************************************************************************)
(* The journal of signed EVM transactions, for any number of processes and  *)
(* calls, any fee ceiling, and any number of crashes, lost answers,         *)
(* evictions and replaced blocks.                                           *)
(***************************************************************************)
(* The inductive invariant. *)
(* The journal's next free nonce. *)
High == Cardinality(Journaled)

(* The nonces on record are the first ones, one per call. *)
Dense == {journal[i] : i \in Journaled} = 0..(High - 1)

(* A mined transaction is of a call on record and sits at that call's nonce. *)
ChainOwned == \A n \in DOMAIN chain : chain[n].id \in Journaled /\ journal[chain[n].id] = n - 1

(* The nodes hold transactions of calls on record, each of which was signed. *)
PoolOwned == \A t \in mempool : t.id \in Journaled
CallsSigned == \A i \in Journaled : attempts[i] # <<>>

(* What a process may rely on however long it waited: the count it took is not  *)
(* beyond the journal, and what it reconciles or sends stays on record.         *)
JobSound(j) ==
  /\ j.pc \in {"mark", "insert"} => j.number <= High
  /\ j.pc \in {"reconcile", "send"} => j.id \in Journaled
  /\ j.pc = "send" => j.item \in DOMAIN attempts[j.id]

JobsSound == \A p \in Process : JobSound(job[p])

Inv ==
  /\ TypeOK /\ NoncesAreOwned /\ Dense
  /\ ChainOwned /\ PoolOwned /\ CallsSigned /\ JobsSound

----------------------------------------------------------------------------
(* Lemmas about the operators. *)

(* A set of natural numbers that has an element has a least one. *)
LEMMA LeastNatural ==
  ASSUME NEW T \in SUBSET Nat, T # {}
  PROVE  \E m \in T : \A k \in T : m <= k
<1>1. \E m \in T : \A k \in T : ~(<<k, m>> \in OpToRel(<, Nat))
  BY NatLessThanWellFounded, WFMin, Zenon
<1>2. PICK m \in T : \A k \in T : ~(<<k, m>> \in OpToRel(<, Nat))
  BY <1>1
<1>3. \A k \in T : ~(k < m)
  BY <1>2 DEF OpToRel
<1> QED
  BY <1>3

(* The journal's size is a number, and no more than the calls there are. *)
LEMMA HighIsNatural ==
  ASSUME FiniteCalls
  PROVE  /\ IsFiniteSet(Journaled)
         /\ High \in Nat /\ Cardinality(Id) \in Nat /\ High <= Cardinality(Id)
<1>1. Journaled \in SUBSET Id
  BY DEF Journaled
<1> QED
  BY <1>1, FS_Subset, FS_CardinalityType DEF FiniteCalls, High

(* The mined transactions are of calls on record: there are no more of them. *)
LEMMA ChainWithinJournal ==
  ASSUME FiniteCalls, TypeOK, Dense, ChainOwned
  PROVE  Len(chain) \in Nat /\ Len(chain) <= High
<1>1. Len(chain) \in Nat
  BY DEF TypeOK
<1>2. CASE Len(chain) = 0
  BY <1>1, <1>2, HighIsNatural
<1>3. CASE Len(chain) # 0
  <2>1. Len(chain) \in DOMAIN chain
    BY <1>1, <1>3 DEF TypeOK
  <2>2. Len(chain) - 1 \in {journal[i] : i \in Journaled}
    BY <2>1 DEF ChainOwned
  <2>3. Len(chain) - 1 \in 0..(High - 1)
    BY <2>2 DEF Dense
  <2> QED
    BY <1>1, <2>3, HighIsNatural
<1> QED
  BY <1>2, <1>3

(* eth_getTransactionCount answers a nonce, and never one beyond the journal. *)
LEMMA CountWithinJournal ==
  ASSUME FiniteCalls, TypeOK, Dense, ChainOwned, PoolOwned
  PROVE  PendingCount \in Nonce /\ PendingCount <= High
<1>1. Len(chain) \in Nat /\ Len(chain) <= High
  BY ChainWithinJournal
<1>2. High \in Nat /\ Cardinality(Id) \in Nat /\ High <= Cardinality(Id)
  BY HighIsNatural
<1>3. Queued \subseteq {journal[i] : i \in Journaled}
  BY DEF Queued, PoolOwned
<1>4. Queued \subseteq 0..(High - 1)
  BY <1>3 DEF Dense
<1> DEFINE Free == {n \in Nat : n >= Len(chain) /\ n \notin Queued}
<1>5. High \in Free
  BY <1>1, <1>2, <1>4
<1>6. Free \in SUBSET Nat /\ Free # {}
  BY <1>5
<1> HIDE DEF Free
<1>7. PICK m \in Free : \A k \in Free : m <= k
  BY <1>6, LeastNatural
<1> USE DEF Free
<1>8. m \in Nonce
  BY <1>2, <1>5, <1>7 DEF Nonce
<1>9. Len(chain)..(m - 1) \subseteq Queued
  BY <1>1, <1>7
<1>10. \E n \in Nonce : /\ n >= Len(chain)
                       /\ Len(chain)..(n - 1) \subseteq Queued
                       /\ n \notin Queued
  BY <1>7, <1>8, <1>9
<1>11. /\ PendingCount \in Nonce /\ PendingCount >= Len(chain)
       /\ Len(chain)..(PendingCount - 1) \subseteq Queued
  BY <1>10, Zenon DEF PendingCount
<1>12. PendingCount = Len(chain) \/ PendingCount - 1 \in Queued
  BY <1>1, <1>2, <1>11 DEF Nonce
<1> QED
  BY <1>1, <1>2, <1>4, <1>11, <1>12 DEF Nonce

(* The journal's high mark, read as the largest nonce plus one, is its size. *)
LEMMA MarkIsHigh ==
  ASSUME FiniteCalls, TypeOK, Dense
  PROVE  (IF Journaled = {} THEN 0 ELSE 1 + CHOOSE n \in Nonce :
                   /\ \E i \in Journaled : journal[i] = n
                   /\ \A i \in Journaled : journal[i] <= n) = High
<1>1. High \in Nat /\ Cardinality(Id) \in Nat /\ High <= Cardinality(Id)
  BY HighIsNatural
<1>2. CASE Journaled = {}
  BY <1>2, FS_EmptySet DEF High
<1>3. CASE Journaled # {}
  <2>1. High >= 1
    BY <1>1, <1>3, HighIsNatural, FS_EmptySet DEF High
  <2> DEFINE Highest(n) == /\ \E i \in Journaled : journal[i] = n
                           /\ \A i \in Journaled : journal[i] <= n
  <2>2. High - 1 \in Nonce /\ Highest(High - 1)
    <3>1. High - 1 \in {journal[i] : i \in Journaled}
      BY <1>1, <2>1 DEF Dense
    <3>2. \A i \in Journaled : journal[i] \in 0..(High - 1)
      BY DEF Dense
    <3> QED
      BY <1>1, <2>1, <3>1, <3>2 DEF Nonce
  <2>3. \A n \in Nonce : Highest(n) => n = High - 1
    <3> SUFFICES ASSUME NEW n \in Nonce, Highest(n) PROVE n = High - 1
      OBVIOUS
    <3>1. n \in 0..(High - 1)
      BY DEF Dense
    <3>2. High - 1 <= n
      BY <2>2
    <3> QED
      BY <1>1, <3>1, <3>2
  <2> HIDE DEF Highest
  <2>4. (CHOOSE n \in Nonce : Highest(n)) = High - 1
    BY <2>2, <2>3
  <2>5. 1 + (High - 1) = High
    BY <1>1
  <2>6. 1 + (CHOOSE n \in Nonce : Highest(n)) = High
    BY <2>4, <2>5, Zenon
  <2> QED
    BY <1>3, <2>6, Zenon DEF Highest
<1> QED
  BY <1>2, <1>3

(* Recording the receipts changes no fee and no number of attempts. *)
LEMMA RecordOutcomeKeeps ==
  ASSUME TypeOK, NEW i \in Id, RecordOutcome(i)
  PROVE  /\ attempts' \in [Id -> Seq(Attempt)]
         /\ \A k \in Id : DOMAIN attempts'[k] = DOMAIN attempts[k]
         /\ \A k \in Id : attempts[k] # <<>> => attempts'[k] # <<>>
<1> DEFINE s == attempts[i]
           r == Reconciled(i)
<1>1. s \in Seq(Attempt) /\ Len(s) \in Nat /\ DOMAIN s = 1..Len(s)
  BY DEF TypeOK
<1>2. DOMAIN r = DOMAIN s
  BY DEF Reconciled
<1>3. ASSUME NEW k \in DOMAIN s PROVE r[k] \in Attempt
  <2>1. s[k] \in Attempt
    BY <1>1
  <2>2. r[k] = [s[k] EXCEPT !.decided = s[k].decided \/ k \in Receipt(i)]
    BY DEF Reconciled
  <2> QED
    BY <2>1, <2>2, Zenon DEF Attempt
<1>4. r \in [1..Len(s) -> Attempt]
  BY <1>1, <1>2, <1>3 DEF Reconciled
<1>5. r \in Seq(Attempt)
  BY <1>1, <1>4
<1>6. s # <<>> => r # <<>>
  BY <1>1, <1>2
<1>7. attempts' = [attempts EXCEPT ![i] = r]
  BY DEF RecordOutcome
<1> HIDE DEF r
<1> QED
  BY <1>2, <1>5, <1>6, <1>7 DEF TypeOK

(* What only moves a process, to a job it may rely on, keeps the rest. *)
LEMMA JobMoves ==
  ASSUME Inv, UNCHANGED <<db, net>>, NEW p \in Process,
         NEW j \in Job, JobSound(j), job' = [job EXCEPT ![p] = j]
  PROVE  Inv'
<1>1. High' = High /\ Journaled' = Journaled
  BY DEF db, High, Journaled
<1>2. TypeOK'
  BY DEF Inv, TypeOK, db, net
<1>3. (NoncesAreOwned /\ Dense /\ ChainOwned /\ PoolOwned /\ CallsSigned)'
  BY <1>1 DEF Inv, NoncesAreOwned, Dense, ChainOwned, PoolOwned, CallsSigned, db, net
<1>4. JobsSound'
  <2> SUFFICES ASSUME NEW q \in Process PROVE JobSound(job[q])'
    BY DEF JobsSound
  <2>1. job'[q] = IF q = p THEN j ELSE job[q]
    BY DEF Inv, TypeOK
  <2>2. JobSound(job'[q])
    BY <2>1 DEF Inv, JobsSound
  <2> QED
    BY <1>1, <2>2 DEF JobSound, db
<1> QED
  BY <1>2, <1>3, <1>4 DEF Inv

(* An idle process relies on nothing. *)
LEMMA IdleSound ==
  ASSUME FiniteCalls
  PROVE  NoCall \in Job /\ JobSound(NoCall)
<1>1. (CHOOSE i \in Id : TRUE) \in Id
  BY DEF FiniteCalls
<1>2. 0 \in Nonce
  BY HighIsNatural DEF Nonce
<1> QED
  BY <1>1, <1>2 DEF NoCall, Job, JobSound, Steps, JobOps

LEMMA InitInv ==
  ASSUME FiniteCalls, SenderInit
  PROVE  Inv
<1>1. Journaled = {} /\ High = 0
  BY FS_EmptySet DEF SenderInit, Journaled, High
<1>2. TypeOK
  BY IdleSound DEF SenderInit, TypeOK
<1>3. NoncesAreOwned /\ Dense /\ ChainOwned /\ PoolOwned /\ CallsSigned
  BY <1>1 DEF SenderInit, NoncesAreOwned, Dense, ChainOwned, PoolOwned, CallsSigned
<1>4. JobsSound
  BY IdleSound DEF SenderInit, JobsSound
<1> QED
  BY <1>2, <1>3, <1>4 DEF Inv

----------------------------------------------------------------------------
(* One lemma per step of a process. *)

LEMMA CallKeepsInv ==
  ASSUME FiniteCalls, Inv, NEW p \in Process, NEW i \in Id, NEW what \in JobOps, Call(p, i, what)
  PROVE  Inv'
<1> DEFINE j == [NoCall EXCEPT !.pc = "lookup", !.op = what, !.id = i]
<1>1. j \in Job /\ JobSound(j)
  BY IdleSound DEF Job, JobSound, Steps
<1>2. job' = [job EXCEPT ![p] = j] /\ UNCHANGED <<db, net>>
  BY DEF Call
<1> HIDE DEF j
<1> QED
  BY <1>1, <1>2, JobMoves

LEMMA LookupKeepsInv ==
  ASSUME Inv, NEW p \in Process, Lookup(p)
  PROVE  Inv'
<1> DEFINE j == [job[p] EXCEPT !.pc = IF job[p].id \in Journaled THEN "reconcile" ELSE "count"]
<1>1. job[p] \in Job
  BY DEF Inv, TypeOK
<1>2. j \in Job /\ JobSound(j)
  BY <1>1 DEF Job, JobSound, Steps
<1>3. job' = [job EXCEPT ![p] = j] /\ UNCHANGED <<db, net>>
  BY DEF Lookup, GoOn
<1> HIDE DEF j
<1> QED
  BY <1>2, <1>3, JobMoves

LEMMA CountPendingKeepsInv ==
  ASSUME FiniteCalls, Inv, NEW p \in Process, CountPending(p)
  PROVE  Inv'
<1> DEFINE j == [job[p] EXCEPT !.pc = "mark", !.number = PendingCount]
<1>1. job[p] \in Job
  BY DEF Inv, TypeOK
<1>2. PendingCount \in Nonce /\ PendingCount <= High
  BY CountWithinJournal DEF Inv
<1>3. j \in Job /\ JobSound(j)
  BY <1>1, <1>2 DEF Job, JobSound, Steps
<1>4. job' = [job EXCEPT ![p] = j] /\ UNCHANGED <<db, net>>
  BY <1>1 DEF CountPending, Inv, TypeOK, Job
<1> HIDE DEF j
<1> QED
  BY <1>3, <1>4, JobMoves

(* The nonce taken is the journal's next free one as it was read. *)
LEMMA ReadMarkKeepsInv ==
  ASSUME FiniteCalls, Inv, NEW p \in Process, ReadMark(p)
  PROVE  Inv'
<1>1. job[p] \in Job /\ JobSound(job[p]) /\ job[p].pc = "mark"
  BY DEF Inv, TypeOK, JobsSound, ReadMark, At
<1>2. High \in Nat /\ Cardinality(Id) \in Nat
  BY HighIsNatural
<1>3. IF High > job[p].number THEN Return(p)
      ELSE job' = [job EXCEPT ![p].pc = "insert", ![p].number = NextNonce(High, job[p].number)]
  BY MarkIsHigh, Zenon DEF ReadMark, Inv
<1>4. UNCHANGED <<db, net>>
  BY DEF ReadMark
<1>5. CASE High > job[p].number
  BY <1>3, <1>4, <1>5, IdleSound, JobMoves DEF Return
<1>6. CASE ~(High > job[p].number)
  <2> DEFINE j == [job[p] EXCEPT !.pc = "insert", !.number = NextNonce(High, job[p].number)]
  <2>1. job[p].number \in Nonce /\ job[p].number <= High
    BY <1>1 DEF Job, JobSound
  <2>2. NextNonce(High, job[p].number) = job[p].number
    BY <1>2, <1>6, <2>1 DEF NextNonce, Nonce
  <2>3. j \in Job /\ JobSound(j)
    BY <1>1, <2>1, <2>2 DEF Job, JobSound, Steps
  <2>4. job' = [job EXCEPT ![p] = j]
    BY <1>1, <1>3, <1>6 DEF Inv, TypeOK, Job
  <2> HIDE DEF j
  <2> QED
    BY <1>4, <2>3, <2>4, JobMoves
<1> QED
  BY <1>5, <1>6

(* A process that writes the next free nonce, whatever the journal was when it  *)
(* read it, keeps the nonces dense and owned; any other write is refused.       *)
LEMMA InsertKeepsInv ==
  ASSUME FiniteCalls, Inv, NEW p \in Process, Insert(p)
  PROVE  Inv'
<1> DEFINE i == job[p].id
           n == job[p].number
<1>1. job[p] \in Job /\ JobSound(job[p]) /\ job[p].pc = "insert"
  BY DEF Inv, TypeOK, JobsSound, Insert, At
<1>2. i \in Id /\ n \in Nonce /\ n <= High
  BY <1>1 DEF Job, JobSound
<1>3. High \in Nat /\ Cardinality(Id) \in Nat /\ IsFiniteSet(Journaled)
  BY HighIsNatural
<1>4. net' = net
  BY DEF Insert
<1>5. CASE ~Insertable(i, n)
  <2> DEFINE j == [job[p] EXCEPT !.pc = "lookup", !.number = 0]
  <2>1. job' = [job EXCEPT ![p] = j] /\ UNCHANGED db
    BY <1>1, <1>5 DEF Insert, Inv, TypeOK, Job
  <2>2. 0 \in Nonce
    BY <1>3 DEF Nonce
  <2>3. j \in Job /\ JobSound(j)
    BY <1>1, <2>2 DEF Job, JobSound, Steps
  <2> HIDE DEF j
  <2> QED
    BY <1>4, <2>1, <2>3, JobMoves
<1>6. CASE Insertable(i, n)
  <2>1. /\ journal' = [journal EXCEPT ![i] = n]
        /\ attempts' = [attempts EXCEPT ![i] = <<Signed(0)>>]
    BY <1>6 DEF Insert
  <2>2. i \notin Journaled /\ n \notin {journal[k] : k \in Id}
    BY <1>6 DEF Insertable
  <2>3. n \in Nat /\ n # NoNonce
    BY <1>2, <1>3 DEF Nonce, NoNonce
  <2>4. journal \in [Id -> Nonce \cup {NoNonce}]
    BY DEF Inv, TypeOK
  <2>5. Journaled' = Journaled \cup {i}
    BY <1>2, <2>1, <2>3, <2>4 DEF Journaled
  <2>6. High' = High + 1
    BY <1>3, <2>2, <2>5, FS_AddElement DEF High
  <2>7. {journal[k] : k \in Journaled} = 0..(High - 1)
    BY DEF Inv, Dense
  <2>8. n = High
    <3>1. n \notin 0..(High - 1)
      BY <2>2, <2>7 DEF Journaled
    <3> QED
      BY <1>2, <1>3, <2>3, <3>1
  <2>9. \A k \in Journaled : k \in Id /\ k # i /\ journal'[k] = journal[k]
    BY <1>2, <2>1, <2>2, <2>4 DEF Journaled
  <2>10. journal'[i] = n
    BY <1>2, <2>1, <2>4
  <2>11. {journal'[k] : k \in Journaled'} = {journal[k] : k \in Journaled} \cup {n}
    BY <2>5, <2>9, <2>10
  <2>12. Dense'
    <3>1. 0..(High - 1) \cup {n} = 0..High
      BY <1>3, <2>8
    <3>2. High' - 1 = High
      BY <1>3, <2>6
    <3> QED
      BY <2>7, <2>11, <3>1, <3>2 DEF Dense
  <2>13. NoncesAreOwned'
    BY <2>2, <2>5, <2>9, <2>10 DEF Inv, NoncesAreOwned
  <2>14. ChainOwned' /\ PoolOwned'
    BY <1>4, <2>5, <2>9 DEF Inv, ChainOwned, PoolOwned, net
  <2>15. attempts \in [Id -> Seq(Attempt)] /\ Signed(0) \in Attempt
    <3>1. 0 \in 0..MaxFee
      BY DEF FiniteCalls
    <3>2. Signed(0) \in Attempt
      BY <3>1, Zenon DEF Signed, Attempt
    <3> QED
      BY <3>2 DEF Inv, TypeOK
  <2>16. CallsSigned'
    BY <1>2, <2>1, <2>5, <2>9, <2>15 DEF Inv, CallsSigned
  <2>17. attempts' \in [Id -> Seq(Attempt)]
    BY <1>2, <2>1, <2>15
  <2>18. PICK j \in Job : job' = [job EXCEPT ![p] = j] /\ JobSound(j)'
    <3>1. CASE job[p].op = "prepare"
      <4>1. job' = [job EXCEPT ![p] = NoCall]
        BY <1>6, <3>1 DEF Insert, Return
      <4>2. JobSound(NoCall)'
        BY DEF JobSound, NoCall
      <4> QED
        BY <4>1, <4>2, IdleSound
    <3>2. CASE job[p].op # "prepare"
      <4>1. 0 \in Nonce
        BY <1>3 DEF Nonce
      <4>2. PICK j \in Job : /\ j = [job[p] EXCEPT !.pc = "send", !.number = 0, !.item = 1]
                             /\ j.pc = "send" /\ j.id = i /\ j.item = 1
        <5> DEFINE e == [job[p] EXCEPT !.pc = "send", !.number = 0, !.item = 1]
        <5>1. e \in Job
          BY <1>1, <4>1 DEF Job, Steps
        <5>2. e.pc = "send" /\ e.id = i /\ e.item = 1
          BY <1>1 DEF Job
        <5> QED
          BY <5>1, <5>2, Zenon
      <4>3. job' = [job EXCEPT ![p] = j]
        BY <1>1, <1>6, <3>2, <4>2 DEF Insert, Inv, TypeOK, Job
      <4>4. i \in Journaled' /\ 1 \in DOMAIN attempts'[i]
        BY <1>2, <2>1, <2>5, <2>15
      <4>5. JobSound(j)'
        BY <4>2, <4>4 DEF JobSound
      <4> QED
        BY <4>3, <4>5
    <3> QED
      BY <3>1, <3>2
  <2>19. TypeOK'
    BY <1>2, <1>4, <2>1, <2>4, <2>17, <2>18 DEF Inv, TypeOK, net
  <2>20. JobsSound'
    <3> SUFFICES ASSUME NEW q \in Process, q # p PROVE JobSound(job[q])'
      BY <2>18 DEF JobsSound, Inv, TypeOK
    <3>1. job'[q] = job[q] /\ JobSound(job[q]) /\ job[q] \in Job
      BY <2>18 DEF Inv, TypeOK, JobsSound
    <3>2. job[q].number \in Nat
      BY <1>3, <3>1 DEF Job, Nonce
    <3>3. job[q].id \in Journaled => DOMAIN attempts'[job[q].id] = DOMAIN attempts[job[q].id]
      BY <2>1, <2>9, <2>15
    <3> QED
      BY <1>3, <2>5, <2>6, <3>1, <3>2, <3>3 DEF JobSound
  <2> QED
    BY <2>12, <2>13, <2>14, <2>16, <2>19, <2>20 DEF Inv
<1> QED
  BY <1>5, <1>6

(* What keeps the journal and forgets no attempt keeps what every process       *)
(* relies on.                                                                    *)
LEMMA AttemptsGrow ==
  ASSUME Inv, UNCHANGED <<journal, net>>,
         attempts' \in [Id -> Seq(Attempt)],
         \A k \in Id : DOMAIN attempts[k] \subseteq DOMAIN attempts'[k],
         \A k \in Id : attempts[k] # <<>> => attempts'[k] # <<>>,
         NEW p \in Process, NEW j \in Job,
         job' = [job EXCEPT ![p] = j], JobSound(j)'
  PROVE  Inv'
<1>1. High' = High /\ Journaled' = Journaled
  BY DEF High, Journaled
<1>2. TypeOK'
  BY DEF Inv, TypeOK, net
<1>3. (NoncesAreOwned /\ Dense /\ ChainOwned /\ PoolOwned)'
  BY <1>1 DEF Inv, NoncesAreOwned, Dense, ChainOwned, PoolOwned, net
<1>4. CallsSigned'
  BY <1>1 DEF Inv, CallsSigned, Journaled
<1>5. JobsSound'
  <2> SUFFICES ASSUME NEW q \in Process, q # p PROVE JobSound(job[q])'
    BY DEF JobsSound, Inv, TypeOK
  <2>1. job'[q] = job[q] /\ JobSound(job[q]) /\ job[q].id \in Id
    BY DEF Inv, TypeOK, JobsSound, Job
  <2> QED
    BY <1>1, <2>1 DEF JobSound
<1> QED
  BY <1>2, <1>3, <1>4, <1>5 DEF Inv

LEMMA ReconcileKeepsInv ==
  ASSUME FiniteCalls, Inv, NEW p \in Process, Reconcile(p)
  PROVE  Inv'
<1> DEFINE i == job[p].id
           prior == attempts[i][Latest(i)]
<1>1. job[p] \in Job /\ i \in Id /\ i \in Journaled
  BY DEF Inv, TypeOK, JobsSound, JobSound, Reconcile, At, Job
<1>2. UNCHANGED <<journal, net>>
  BY DEF Reconcile
<1>3. attempts[i] \in Seq(Attempt) /\ attempts[i] # <<>>
  BY <1>1 DEF Inv, TypeOK, CallsSigned
<1>4. Latest(i) \in Nat /\ Latest(i) \in DOMAIN attempts[i] /\ DOMAIN attempts[i] = 1..Latest(i)
  BY <1>3 DEF Latest
<1>5. prior \in Attempt
  BY <1>3, <1>4
<1>6. JobSound(NoCall)'
  BY DEF JobSound, NoCall
<1>7. CASE Receipt(i) # {}
  <2>1. RecordOutcome(i) /\ Return(p)
    BY <1>7, Zenon DEF Reconcile
  <2> QED
    BY <1>1, <1>2, <1>6, <2>1, RecordOutcomeKeeps, AttemptsGrow, IdleSound DEF Return, Inv
<1>8. CASE Receipt(i) = {} /\ job[p].op = "replace" /\ MayBump(prior.fee)
  <2> DEFINE a == Signed(prior.fee + 1)
  <2>1. /\ attempts' = [attempts EXCEPT ![i] = Append(@, a)]
        /\ job' = [job EXCEPT ![p].pc = "send", ![p].item = Latest(i) + 1]
    BY <1>8, Zenon DEF Reconcile
  <2>2. a \in Attempt
    <3>1. prior.fee + 1 \in 0..MaxFee
      BY <1>5, <1>8 DEF MayBump, Attempt, FiniteCalls
    <3> QED
      BY <3>1, Zenon DEF Signed, Attempt
  <2>3. PICK j \in Job : /\ j = [job[p] EXCEPT !.pc = "send", !.item = Latest(i) + 1]
                         /\ j.pc = "send" /\ j.id = i /\ j.item = Latest(i) + 1
    <3> DEFINE e == [job[p] EXCEPT !.pc = "send", !.item = Latest(i) + 1]
    <3>1. Latest(i) + 1 \in Nat
      BY <1>4
    <3>2. e \in Job
      BY <1>1, <3>1 DEF Job, Steps
    <3>3. e.pc = "send" /\ e.id = i /\ e.item = Latest(i) + 1
      BY <1>1 DEF Job
    <3> QED
      BY <3>2, <3>3, Zenon
  <2>4. job' = [job EXCEPT ![p] = j]
    BY <1>1, <2>1, <2>3 DEF Inv, TypeOK, Job
  <2> HIDE DEF a
  <2>5. attempts' \in [Id -> Seq(Attempt)]
    BY <1>1, <2>1, <2>2 DEF Inv, TypeOK
  <2>6. \A k \in Id : attempts'[k] = IF k = i THEN Append(attempts[i], a) ELSE attempts[k]
    BY <1>1, <2>1 DEF Inv, TypeOK
  <2>7. DOMAIN attempts'[i] = 1..(Latest(i) + 1)
    <3>1. attempts'[i] = Append(attempts[i], a) /\ Len(attempts[i]) = Latest(i)
      BY <1>1, <2>6 DEF Latest
    <3> QED
      BY <1>3, <2>2, <3>1
  <2>8. \A k \in Id : DOMAIN attempts[k] \subseteq DOMAIN attempts'[k]
    BY <1>4, <2>6, <2>7
  <2>9. \A k \in Id : attempts[k] # <<>> => attempts'[k] # <<>>
    <3>1. attempts'[i] # <<>>
      BY <1>4, <2>7
    <3> QED
      BY <2>6, <3>1
  <2>10. i \in Journaled' /\ Latest(i) + 1 \in DOMAIN attempts'[i]
    BY <1>1, <1>2, <1>4, <2>7 DEF Journaled
  <2>11. JobSound(j)'
    BY <2>3, <2>10 DEF JobSound
  <2> QED
    BY <1>2, <2>3, <2>4, <2>5, <2>8, <2>9, <2>11, AttemptsGrow
<1>9. CASE Receipt(i) = {} /\ job[p].op = "submit" /\ ~AlreadyDecided(prior)
  <2> DEFINE j == [job[p] EXCEPT !.pc = "send", !.item = Latest(i)]
  <2>1. /\ job' = [job EXCEPT ![p].pc = "send", ![p].item = Latest(i)]
        /\ UNCHANGED attempts
    BY <1>9, Zenon DEF Reconcile
  <2>2. job' = [job EXCEPT ![p] = j]
    BY <1>1, <2>1 DEF Inv, TypeOK, Job
  <2>3. j \in Job /\ JobSound(j)
    BY <1>1, <1>4 DEF Job, Steps, JobSound
  <2> HIDE DEF j
  <2> QED
    BY <1>2, <2>1, <2>2, <2>3, JobMoves DEF db
<1>10. CASE ~(Receipt(i) # {}) /\ ~(Receipt(i) = {} /\ job[p].op = "replace" /\ MayBump(prior.fee))
            /\ ~(Receipt(i) = {} /\ job[p].op = "submit" /\ ~AlreadyDecided(prior))
  <2>1. Return(p) /\ UNCHANGED attempts
    BY <1>10, Zenon DEF Reconcile
  <2> QED
    BY <1>2, <2>1, IdleSound, JobMoves DEF Return, db
<1> QED
  BY <1>7, <1>8, <1>9, <1>10

(* A node takes a transaction of a call on record, or the receipts are read. *)
LEMMA SendRawKeepsInv ==
  ASSUME FiniteCalls, Inv, NEW p \in Process, SendRaw(p)
  PROVE  Inv'
<1> DEFINE i == job[p].id
           t == [id |-> i, fee |-> attempts[i][job[p].item].fee]
<1>1. job[p] \in Job /\ i \in Id /\ i \in Journaled /\ job[p].item \in DOMAIN attempts[i]
  BY DEF Inv, TypeOK, JobsSound, JobSound, SendRaw, At, Job
<1>2. job' = [job EXCEPT ![p] = NoCall] /\ UNCHANGED <<journal, chain>>
  BY DEF SendRaw, Return
<1>3. JobSound(NoCall)'
  BY DEF JobSound, NoCall
<1>4. \/ mempool' = Held(t) /\ UNCHANGED attempts
      \/ RecordOutcome(i) /\ UNCHANGED mempool
  BY DEF SendRaw
<1>5. CASE RecordOutcome(i) /\ UNCHANGED mempool
  BY <1>1, <1>2, <1>3, <1>5, RecordOutcomeKeeps, AttemptsGrow, IdleSound DEF Inv, net
<1>6. CASE mempool' = Held(t) /\ UNCHANGED attempts
  <2>1. attempts[i] \in Seq(Attempt)
    BY <1>1 DEF Inv, TypeOK
  <2>2. t \in Tx
    <3>1. attempts[i][job[p].item] \in Attempt
      BY <1>1, <2>1
    <3>2. attempts[i][job[p].item].fee \in 0..MaxFee
      BY <3>1 DEF Attempt
    <3> QED
      BY <1>1, <3>2 DEF Tx
  <2>3. t.id \in Journaled
    BY <1>1
  <2> HIDE DEF t
  <2>4. mempool' \subseteq mempool \cup {t}
    BY <1>6 DEF Held
  <2>5. Journaled' = Journaled /\ High' = High
    BY <1>2 DEF Journaled, High
  <2>6. TypeOK'
    BY <1>2, <1>6, <2>2, <2>4, IdleSound DEF Inv, TypeOK
  <2>7. (NoncesAreOwned /\ Dense /\ ChainOwned /\ CallsSigned)'
    BY <1>2, <1>6, <2>5 DEF Inv, NoncesAreOwned, Dense, ChainOwned, CallsSigned
  <2>8. PoolOwned'
    BY <2>3, <2>4, <2>5 DEF Inv, PoolOwned
  <2>9. JobsSound'
    BY <1>2, <1>3, <1>6, <2>5 DEF Inv, TypeOK, JobsSound, JobSound
  <2> QED
    BY <2>6, <2>7, <2>8, <2>9 DEF Inv
<1> QED
  BY <1>4, <1>5, <1>6

----------------------------------------------------------------------------
(* What the nodes and the chain do. *)

(* A block takes the transaction of the next nonce, which is that of its call. *)
LEMMA MineKeepsInv ==
  ASSUME Inv, NEW t \in Tx, Mine(t)
  PROVE  Inv'
<1>1. /\ t \in mempool /\ journal[t.id] = Len(chain)
      /\ chain' = Append(chain, t) /\ mempool' \subseteq mempool
      /\ UNCHANGED <<journal, attempts, job>>
  BY DEF Mine, db
<1>2. Journaled' = Journaled /\ High' = High
  BY <1>1 DEF Journaled, High
<1>3. chain \in Seq(Tx) /\ Len(chain) \in Nat
  BY DEF Inv, TypeOK
<1>4. TypeOK'
  BY <1>1, <1>3 DEF Inv, TypeOK
<1>5. (NoncesAreOwned /\ Dense /\ CallsSigned /\ PoolOwned)'
  BY <1>1, <1>2 DEF Inv, NoncesAreOwned, Dense, CallsSigned, PoolOwned
<1>6. ChainOwned'
  <2> SUFFICES ASSUME NEW n \in DOMAIN chain'
               PROVE  chain'[n].id \in Journaled /\ journal[chain'[n].id] = n - 1
    BY <1>1, <1>2 DEF ChainOwned
  <2>1. n \in 1..(Len(chain) + 1)
    BY <1>1, <1>3
  <2>2. CASE n = Len(chain) + 1
    <3>1. chain'[n] = t
      BY <1>1, <1>3, <2>2
    <3> QED
      BY <1>1, <1>3, <2>2, <3>1 DEF Inv, PoolOwned
  <2>3. CASE n # Len(chain) + 1
    <3>1. n \in DOMAIN chain /\ chain'[n] = chain[n]
      BY <1>1, <1>3, <2>1, <2>3
    <3> QED
      BY <3>1 DEF Inv, ChainOwned
  <2> QED
    BY <2>2, <2>3
<1>7. JobsSound'
  BY <1>1, <1>2 DEF Inv, JobsSound, JobSound
<1> QED
  BY <1>4, <1>5, <1>6, <1>7 DEF Inv

(* A node forgets, or the last block is replaced: no call loses its nonce. *)
LEMMA ForgettingKeepsInv ==
  ASSUME Inv, UNCHANGED <<journal, attempts, job>>,
         \/ mempool' \subseteq mempool /\ UNCHANGED chain
         \/ chain # <<>> /\ chain' = Front(chain) /\ UNCHANGED mempool
  PROVE  Inv'
<1>1. Journaled' = Journaled /\ High' = High
  BY DEF Journaled, High
<1>2. chain \in Seq(Tx)
  BY DEF Inv, TypeOK
<1>3. /\ chain' \in Seq(Tx) /\ mempool' \subseteq mempool
      /\ \A n \in DOMAIN chain' : n \in DOMAIN chain /\ chain'[n] = chain[n]
  BY <1>2 DEF Front
<1>4. TypeOK'
  BY <1>3 DEF Inv, TypeOK
<1>5. (NoncesAreOwned /\ Dense /\ CallsSigned /\ PoolOwned)'
  BY <1>1, <1>3 DEF Inv, NoncesAreOwned, Dense, CallsSigned, PoolOwned
<1>6. ChainOwned'
  BY <1>1, <1>3 DEF Inv, ChainOwned
<1>7. JobsSound'
  BY <1>1 DEF Inv, JobsSound, JobSound
<1> QED
  BY <1>4, <1>5, <1>6, <1>7 DEF Inv

----------------------------------------------------------------------------
(* Every reachable state of the journal is sound, for any number of processes   *)
(* that prepare, submit, replace and replay calls over one database and any     *)
(* number of crashes, lost answers, evictions and replaced blocks.              *)
THEOREM SenderInvariant ==
  ASSUME FiniteCalls
  PROVE  SenderSpec => []Inv
<1>1. SenderInit => Inv
  BY InitInv
<1>2. Inv /\ [SenderNext]_senderVars => Inv'
  <2> SUFFICES ASSUME Inv, [SenderNext]_senderVars PROVE Inv'
    OBVIOUS
  <2>1. ASSUME NEW p \in Process, ProcessStep(p) PROVE Inv'
    BY <2>1, LookupKeepsInv, CountPendingKeepsInv, ReadMarkKeepsInv, InsertKeepsInv,
       ReconcileKeepsInv, SendRawKeepsInv DEF ProcessStep
  <2>2. ASSUME NEW p \in Process, ProcessCrash(p) PROVE Inv'
    BY <2>2, IdleSound, JobMoves DEF ProcessCrash, Return
  <2>3. ASSUME NEW p \in Process, NEW i \in Id, NEW what \in JobOps, Call(p, i, what) PROVE Inv'
    BY <2>3, CallKeepsInv
  <2>4. ASSUME NEW t \in Tx, Mine(t) PROVE Inv'
    BY <2>4, MineKeepsInv
  <2>5. ASSUME NEW t \in Tx, Evict(t) PROVE Inv'
    BY <2>5, ForgettingKeepsInv DEF Evict, db
  <2>6. ASSUME Reorg PROVE Inv'
    BY <2>6, ForgettingKeepsInv DEF Reorg, db
  <2>7. ASSUME UNCHANGED senderVars PROVE Inv'
    BY <2>7, ForgettingKeepsInv DEF senderVars
  <2> QED
    BY <2>1, <2>2, <2>3, <2>4, <2>5, <2>6, <2>7 DEF SenderNext
<1> QED
  BY <1>1, <1>2, PTL DEF SenderSpec

(* A call is mined at its own nonce only, so at most once. *)
LEMMA MinedOnce ==
  ASSUME Inv
  PROVE  ExecutedOnce
<1> SUFFICES ASSUME NEW i \in Id PROVE Cardinality(Mined(i)) <= 1
  BY DEF ExecutedOnce
<1>1. DOMAIN chain \subseteq Nat
  BY DEF Inv, TypeOK
<1>2. \A n \in Mined(i) : n \in Nat /\ journal[i] = n - 1
  BY <1>1 DEF Mined, Inv, ChainOwned
<1>3. CASE Mined(i) = {}
  BY <1>3, FS_EmptySet
<1>4. CASE Mined(i) # {}
  <2>1. PICK n \in Mined(i) : TRUE
    BY <1>4
  <2>2. Mined(i) = {n}
    BY <1>2, <2>1
  <2>3. Cardinality({n}) = 1
    BY FS_Singleton, Zenon
  <2> QED
    BY <2>2, <2>3
<1> QED
  BY <1>3, <1>4

(* Over restarts, lost answers and any number of processes, submit, replace and  *)
(* replay execute a payment once, from a nonce no other payment has, and prepare *)
(* leaves out no nonce below one in use.                                         *)
THEOREM SenderSendsExactlyOnce ==
  ASSUME FiniteCalls
  PROVE  SenderSpec => []SendsExactlyOnce
<1>1. Inv => SendsExactlyOnce
  <2> SUFFICES ASSUME Inv PROVE ExecutedOnce /\ NoncesAreOwned /\ NoNonceGap
    BY DEF SendsExactlyOnce
  <2>1. High \in Nat
    BY HighIsNatural
  <2>2. ASSUME NEW i \in Journaled PROVE 0..(journal[i] - 1) \subseteq {journal[k] : k \in Journaled}
    <3>1. {journal[k] : k \in Journaled} = 0..(High - 1)
      BY DEF Inv, Dense
    <3>2. journal[i] \in 0..(High - 1)
      BY <2>2, <3>1
    <3>3. 0..(journal[i] - 1) \subseteq 0..(High - 1)
      BY <2>1, <3>2
    <3> QED
      BY <3>1, <3>3
  <2> QED
    BY <2>2, MinedOnce DEF Inv, NoNonceGap
<1> QED
  BY <1>1, SenderInvariant, PTL

(***************************************************************************)
(* The desk that trades assets.                                             *)
(***************************************************************************)
RowFields == {"kind", "state", "phase", "gives", "from", "to", "script", "out"}
TaskFields == {"pc", "id", "state", "out"}
FillStates == Holding \cup {"refused", "stuck"}
FillPhases == {"none", "selecting", "submitting"}
TaskSteps == {"fail", "revert", "fund", "claim", "settle", "mark", "defer", "send", "await"}
Struck(id) == fillRow[id] # NoFill
(* A deposit at the row's script. *)
Stands(o, id) == o \in Out /\ deposit[o].fate # "none" /\ deposit[o].script = fillRow[id].script
Covers(o, id) == deposit[o].amount >= fillRow[id].from
DepositFits(o) ==
  deposit[o].fate # "none" =>
    /\ {"fate", "script", "amount"} \subseteq DOMAIN deposit[o]
    /\ deposit[o].script = Script(deposit[o].script[1], deposit[o].script[2])
    /\ deposit[o].fate = "taken" =>
         deposit[o].by \in FillIds /\ Struck(deposit[o].by) /\ Stands(o, deposit[o].by) /\ Covers(o, deposit[o].by)
(* How far a fill got is told by its state; what it was struck for lies on the chain. *)
RowFits(id) ==
  LET r == fillRow[id]
  IN /\ DOMAIN r = RowFields /\ r.kind \in {"rfq", "offer"} /\ r.state \in FillStates /\ r.phase \in FillPhases
     /\ r.script = Script(r.script[1], r.script[2])
     /\ r.state \in {"quoted", "funded", "fillable", "refused"} => r.phase = "none"
     /\ r.state = "filling" => r.phase # "none"
     /\ r.state = "filled" => r.phase = "submitting" /\ r.out # NoOut /\ TakenBy(id, r.out)
     /\ r.kind = "offer" => r.out # NoOut /\ r.state \notin {"quoted", "funded"}
     /\ r.kind = "rfq" => r.state # "fillable"
     /\ r.out # NoOut => Stands(r.out, id)
(* What a worker has in hand. *)
TaskFits(w) ==
  LET t == task[w]
  IN task[w] # NoTask =>
       /\ DOMAIN t = TaskFields /\ t.pc \in TaskSteps /\ t.id \in FillIds /\ Struck(t.id) /\ fillRow[t.id].kind = svc[w]
       /\ svc[w] = "offer" => t.out = fillRow[t.id].out
       /\ t.pc = "fund" => t.state = "quoted"
       /\ t.pc = "claim" => t.state \in {"funded", "fillable"}
       /\ t.pc \in {"fund", "claim"} => Stands(t.out, t.id)
       /\ t.pc = "settle" => fillRow[t.id].out # NoOut
       /\ t.pc \in {"mark", "send", "await"} =>
            t.out # NoOut /\ t.out = fillRow[t.id].out /\ Stands(t.out, t.id) /\ Covers(t.out, t.id)
       /\ t.pc \in {"send", "await"} => fillRow[t.id].phase = "submitting"
       /\ t.pc = "send" => sent[t.id] = 0
SendsAlone ==
  \A v, w \in Worker : v # w /\ task[v].pc = "send" /\ task[w].pc = "send" => task[v].id # task[w].id
FillFits(f) ==
  f = [id |-> f.id, out |-> f.out] /\ f.id \in FillIds /\ Struck(f.id) /\ Stands(f.out, f.id) /\ Covers(f.out, f.id)
DeskFits ==
  /\ svc \in Crews /\ DOMAIN fillRow = FillIds /\ DOMAIN deposit = Out /\ sent \in [FillIds -> Nat]
  /\ \A o \in Out : DepositFits(o)
  /\ \A id \in FillIds : Struck(id) => RowFits(id)
  /\ \A f \in fills : FillFits(f)
  /\ SentOnce /\ OneHolder
AssetInv ==
  /\ DeskFits
  /\ DOMAIN task = Worker /\ \A w \in Worker : TaskFits(w)
  /\ SendsAlone

(* What a step may do to rows and deposits that others rely on: a row keeps   *)
(* what it was struck for and how far its fill got, a deposit what it is.     *)
RowsLast ==
  \A x \in FillIds : Struck(x) =>
    /\ Struck(x)' /\ fillRow'[x].kind = fillRow[x].kind /\ fillRow'[x].script = fillRow[x].script
    /\ fillRow'[x].from = fillRow[x].from /\ (fillRow[x].phase = "submitting" => fillRow'[x].phase = "submitting")
DepositsLast ==
  \A o \in Out : deposit[o].fate # "none" =>
    /\ deposit'[o].fate # "none" /\ deposit'[o].script = deposit[o].script /\ deposit'[o].amount = deposit[o].amount
    /\ deposit[o].fate = "taken" => deposit'[o].fate = "taken" /\ deposit'[o].by = deposit[o].by

LEMMA StandsLasts ==
  ASSUME RowsLast, DepositsLast, NEW x \in FillIds, Struck(x), NEW o, Stands(o, x)
  PROVE Struck(x)' /\ Stands(o, x)' /\ (Covers(o, x) => Covers(o, x)')
BY DEF RowsLast, DepositsLast, Stands, Covers

LEMMA TaskLasts ==
  ASSUME RowsLast, DepositsLast, UNCHANGED svc, NEW w \in Worker, TaskFits(w), task'[w] = task[w],
         task[w] # NoTask => fillRow'[task[w].id].out = fillRow[task[w].id].out,
         task[w].pc = "send" => sent'[task[w].id] = sent[task[w].id]
  PROVE TaskFits(w)'
<1> SUFFICES ASSUME task[w] # NoTask PROVE TaskFits(w)'
  BY DEF TaskFits, NoTask
<1>1. PICK t : t = task[w]
  OBVIOUS
<1>2. /\ DOMAIN t = TaskFields /\ t.pc \in TaskSteps /\ t.id \in FillIds /\ Struck(t.id) /\ fillRow[t.id].kind = svc[w]
      /\ svc[w] = "offer" => t.out = fillRow[t.id].out
      /\ t.pc = "fund" => t.state = "quoted"
      /\ t.pc = "claim" => t.state \in {"funded", "fillable"}
      /\ t.pc \in {"fund", "claim"} => Stands(t.out, t.id)
      /\ t.pc = "settle" => fillRow[t.id].out # NoOut
      /\ t.pc \in {"mark", "send", "await"} =>
           t.out # NoOut /\ t.out = fillRow[t.id].out /\ Stands(t.out, t.id) /\ Covers(t.out, t.id)
      /\ t.pc \in {"send", "await"} => fillRow[t.id].phase = "submitting"
      /\ t.pc = "send" => sent[t.id] = 0
  BY <1>1 DEF TaskFits
<1>3. Struck(t.id)' /\ fillRow'[t.id].kind = svc'[w] /\ fillRow'[t.id].out = fillRow[t.id].out
  BY <1>1, <1>2 DEF RowsLast
<1>4. t.pc \in {"fund", "claim"} => Stands(t.out, t.id)'
  BY <1>2, StandsLasts
<1>5. t.pc \in {"mark", "send", "await"} => Stands(t.out, t.id)' /\ Covers(t.out, t.id)'
  BY <1>2, StandsLasts
<1>6. t.pc \in {"send", "await"} => fillRow'[t.id].phase = "submitting"
  BY <1>2 DEF RowsLast
<1>7. t.pc = "send" => sent'[t.id] = 0
  BY <1>1, <1>2
<1>8. task'[w] = t
  BY <1>1
<1> QED BY <1>2, <1>3, <1>4, <1>5, <1>6, <1>7, <1>8 DEF TaskFits, Stands, Covers, Struck

LEMMA FillLasts ==
  ASSUME RowsLast, DepositsLast, NEW f, FillFits(f)
  PROVE FillFits(f)'
BY StandsLasts DEF FillFits

LEMMA DepositLasts ==
  ASSUME RowsLast, DepositsLast, NEW o \in Out, DepositFits(o), deposit'[o] = deposit[o]
  PROVE DepositFits(o)'
<1> SUFFICES ASSUME deposit[o].fate # "none" PROVE DepositFits(o)'
  BY DEF DepositFits
<1>1. deposit[o].fate = "taken" =>
        /\ deposit[o].by \in FillIds /\ Struck(deposit[o].by)
        /\ Stands(o, deposit[o].by) /\ Covers(o, deposit[o].by)
  BY DEF DepositFits
<1>2. deposit[o].fate = "taken" => Struck(deposit[o].by)' /\ Stands(o, deposit[o].by)' /\ Covers(o, deposit[o].by)'
  BY <1>1, StandsLasts
<1>3. /\ {"fate", "script", "amount"} \subseteq DOMAIN deposit[o]
      /\ deposit[o].script = Script(deposit[o].script[1], deposit[o].script[2])
  BY DEF DepositFits
<1> QED BY <1>1, <1>2, <1>3 DEF DepositFits, Script, Stands, Covers, Struck

LEMMA RowLasts ==
  ASSUME RowsLast, DepositsLast, NEW x \in FillIds, Struck(x), RowFits(x), fillRow'[x] = fillRow[x]
  PROVE RowFits(x)'
<1>1. fillRow[x].out # NoOut => Stands(fillRow[x].out, x) /\ Stands(fillRow[x].out, x)'
  BY StandsLasts DEF RowFits
<1>2. fillRow[x].state = "filled" => TakenBy(x, fillRow[x].out)'
  <2> SUFFICES ASSUME fillRow[x].state = "filled" PROVE TakenBy(x, fillRow[x].out)'
    OBVIOUS
  <2>1. fillRow[x].out \in Out /\ deposit[fillRow[x].out].fate # "none" /\ TakenBy(x, fillRow[x].out)
    BY <1>1 DEF RowFits, Stands
  <2> QED BY <2>1 DEF DepositsLast, TakenBy
<1> QED BY <1>1, <1>2 DEF RowFits, Script, Stands

LEMMA InitialDesk == AssetInit => AssetInv
<1> SUFFICES ASSUME AssetInit PROVE AssetInv
  OBVIOUS
<1>1. /\ svc \in Crews /\ fills = {} /\ DOMAIN fillRow = FillIds /\ DOMAIN deposit = Out /\ DOMAIN task = Worker
      /\ \A id \in FillIds : fillRow[id] = NoFill /\ sent[id] = 0
      /\ \A o \in Out : deposit[o] = NoDeposit
      /\ \A w \in Worker : task[w] = NoTask
      /\ sent \in [FillIds -> Nat]
  BY DEF AssetInit
<1>2. \A o \in Out : DepositFits(o)
  BY <1>1 DEF DepositFits, NoDeposit
<1>3. \A w \in Worker : TaskFits(w) /\ task[w].pc # "send"
  BY <1>1 DEF TaskFits, NoTask
<1>4. SentOnce /\ OneHolder
  BY <1>1 DEF SentOnce, OneHolder, NoFill
<1> QED BY <1>1, <1>2, <1>3, <1>4 DEF AssetInv, DeskFits, Struck, SendsAlone

(* One row changes its state, its phase and its deposit. *)
Moved(id, s, p, o) ==
  /\ DOMAIN fillRow' = FillIds /\ (\A x \in FillIds : x # id => fillRow'[x] = fillRow[x])
  /\ DOMAIN fillRow'[id] = RowFields
  /\ fillRow'[id].kind = fillRow[id].kind /\ fillRow'[id].script = fillRow[id].script
  /\ fillRow'[id].from = fillRow[id].from
  /\ fillRow'[id].state = s /\ fillRow'[id].phase = p /\ fillRow'[id].out = o

LEMMA EditedRow ==
  ASSUME AssetInv, NEW id \in FillIds, Struck(id), NEW s, NEW p,
         fillRow' = [fillRow EXCEPT ![id].state = s, ![id].phase = p]
  PROVE Moved(id, s, p, fillRow[id].out)
<1>1. DOMAIN fillRow = FillIds /\ DOMAIN fillRow[id] = RowFields
  BY DEF AssetInv, DeskFits, RowFits
<1> QED BY <1>1 DEF Moved, RowFields

LEMMA UneditedRow ==
  ASSUME AssetInv, NEW id \in FillIds, Struck(id), fillRow' = fillRow
  PROVE Moved(id, fillRow[id].state, fillRow[id].phase, fillRow[id].out)
<1>1. DOMAIN fillRow = FillIds /\ DOMAIN fillRow[id] = RowFields
  BY DEF AssetInv, DeskFits, RowFits
<1> QED BY <1>1 DEF Moved

(* A legal change of one row disturbs nothing but the tasks about it. *)
LEMMA RowMovesOn ==
  ASSUME AssetInv, NEW id \in FillIds, Struck(id), NEW s, NEW p, NEW o, Moved(id, s, p, o),
         UNCHANGED <<svc, deposit, sent>>, fills' \subseteq fills, RowFits(id)',
         fillRow[id].phase = "submitting" => p = "submitting",
         s \in Holding => fillRow[id].state \in Holding,
         fillRow[id].kind = "offer" => o = fillRow[id].out
  PROVE /\ DeskFits' /\ RowsLast /\ DepositsLast
        /\ \A v \in Worker : task'[v] = task[v] /\ (o = fillRow[id].out \/ task[v] = NoTask \/ task[v].id # id) => TaskFits(v)'
<1>1. RowsLast
  <2>1. fillRow[id].kind \in {"rfq", "offer"}
    BY DEF AssetInv, DeskFits, RowFits
  <2>2. Struck(id)'
    BY <2>1 DEF Moved, Struck, NoFill
  <2>3. ASSUME NEW x \in FillIds, x # id, Struck(x) PROVE Struck(x)' /\ fillRow'[x] = fillRow[x]
    BY <2>3 DEF Moved, Struck, NoFill
  <2> QED BY <2>2, <2>3 DEF RowsLast, Moved
<1>2. DepositsLast
  BY DEF DepositsLast
<1>3. \A d \in Out : DepositFits(d)'
  BY <1>1, <1>2, DepositLasts DEF AssetInv, DeskFits
<1>4. ASSUME NEW x \in FillIds, Struck(x)' PROVE RowFits(x)'
  <2>1. CASE x = id
    BY <2>1
  <2>2. CASE x # id
    <3>1. fillRow'[x] = fillRow[x]
      BY <2>2 DEF Moved
    <3>2. Struck(x)
      BY <1>4, <3>1 DEF Struck, NoFill
    <3> QED BY <1>1, <1>2, <3>1, <3>2, RowLasts DEF AssetInv, DeskFits
  <2> QED BY <2>1, <2>2
<1>5. \A f \in fills' : FillFits(f)'
  BY <1>1, <1>2, FillLasts DEF AssetInv, DeskFits
<1>6. SentOnce'
  <2> SUFFICES ASSUME NEW x \in FillIds
               PROVE sent[x] <= 1 /\ (sent[x] = 1 => fillRow'[x].phase = "submitting" /\ fillRow'[x].state \in {"filling", "filled", "stuck"})
    BY DEF SentOnce
  <2>1. sent[x] <= 1 /\ (sent[x] = 1 => fillRow[x].phase = "submitting" /\ fillRow[x].state \in {"filling", "filled", "stuck"})
    BY DEF AssetInv, DeskFits, SentOnce
  <2>2. CASE x # id
    BY <2>1, <2>2 DEF Moved
  <2>3. CASE x = id /\ sent[x] = 1
    <3>1. fillRow'[id].phase = "submitting"
      BY <2>1, <2>3 DEF Moved
    <3>2. fillRow'[id].state \in FillStates /\ fillRow'[id].state \notin {"quoted", "funded", "fillable", "refused"}
      BY <3>1 DEF RowFits
    <3> QED BY <2>1, <2>3, <3>1, <3>2 DEF FillStates, Holding
  <2> QED BY <2>1, <2>2, <2>3
<1>7. OneHolder'
  <2> SUFFICES ASSUME NEW a \in FillIds, NEW b \in FillIds, a # b, fillRow'[a].kind = fillRow'[b].kind, fillRow'[a].kind # "none",
                      {fillRow'[a].state, fillRow'[b].state} \subseteq Holding
               PROVE IF fillRow'[a].kind = "rfq" THEN fillRow'[a].script # fillRow'[b].script ELSE fillRow'[a].out # fillRow'[b].out
    BY DEF OneHolder, Holding
  <2>1. \A x \in {a, b} : /\ fillRow'[x].kind = fillRow[x].kind /\ fillRow'[x].script = fillRow[x].script
                          /\ fillRow'[x].state \in Holding => fillRow[x].state \in Holding
                          /\ fillRow[x].kind = "offer" => fillRow'[x].out = fillRow[x].out
    BY DEF Moved
  <2>2. \A x \in {a, b} : fillRow[x].kind # "rfq" /\ fillRow[x].kind # "none" => fillRow[x].kind = "offer"
    <3>1. \A x \in {a, b} : fillRow[x] = NoFill \/ fillRow[x].kind \in {"rfq", "offer"}
      BY DEF AssetInv, DeskFits, RowFits, Struck
    <3> QED BY <3>1 DEF NoFill
  <2>3. {fillRow[a].state, fillRow[b].state} \subseteq Holding
    BY <2>1
  <2>4. IF fillRow[a].kind = "rfq" THEN fillRow[a].script # fillRow[b].script ELSE fillRow[a].out # fillRow[b].out
    BY <2>1, <2>3 DEF AssetInv, DeskFits, OneHolder
  <2> QED BY <2>1, <2>2, <2>4
<1>8. ASSUME NEW v \in Worker, task'[v] = task[v], o = fillRow[id].out \/ task[v] = NoTask \/ task[v].id # id PROVE TaskFits(v)'
  <2>1. TaskFits(v)
    BY DEF AssetInv
  <2>2. task[v] # NoTask => task[v].id \in FillIds
    BY <2>1 DEF TaskFits
  <2>3. task[v] # NoTask => fillRow'[task[v].id].out = fillRow[task[v].id].out
    BY <1>8, <2>2 DEF Moved
  <2> QED BY <1>1, <1>2, <1>8, <2>1, <2>3, TaskLasts
<1>9. svc' \in Crews /\ DOMAIN fillRow' = FillIds /\ DOMAIN deposit' = Out /\ sent' \in [FillIds -> Nat]
  BY DEF AssetInv, DeskFits, Moved
<1>10. DeskFits'
  BY <1>3, <1>4, <1>5, <1>6, <1>7, <1>9 DEF DeskFits
<1> QED BY <1>1, <1>2, <1>8, <1>10

(* A step of one worker: its row moves legally and its own task is in order. *)
LEMMA WorkerMoves ==
  ASSUME AssetInv, NEW w \in Worker, task[w] # NoTask, NEW id \in FillIds, id = task[w].id,
         NEW s, NEW p, NEW o, Moved(id, s, p, o),
         UNCHANGED <<svc, deposit, sent>>, fills' \subseteq fills, RowFits(id)',
         fillRow[id].phase = "submitting" => p = "submitting",
         s \in Holding => fillRow[id].state \in Holding,
         fillRow[id].kind = "offer" => o = fillRow[id].out,
         DOMAIN task' = Worker, \A v \in Worker : v # w => task'[v] = task[v],
         RowsLast /\ DepositsLast => TaskFits(w)',
         task'[w].pc = "send" => task'[w].id = id /\ fillRow[id].phase # "submitting"
  PROVE AssetInv'
<1>2. Struck(id) /\ fillRow[id].kind = svc[w] /\ svc[w] \in {"rfq", "offer"}
  BY DEF AssetInv, DeskFits, TaskFits, RowFits
<1>3. /\ DeskFits' /\ RowsLast /\ DepositsLast
      /\ \A v \in Worker : task'[v] = task[v] /\ (o = fillRow[id].out \/ task[v] = NoTask \/ task[v].id # id) => TaskFits(v)'
  BY <1>2, RowMovesOn
<1>4. ASSUME NEW v \in Worker PROVE TaskFits(v)'
  <2>1. CASE v = w
    BY <1>3, <2>1
  <2>2. CASE v # w
    <3>1. o = fillRow[id].out \/ task[v] = NoTask \/ task[v].id # id
      <4> SUFFICES ASSUME o # fillRow[id].out, task[v] # NoTask, task[v].id = id PROVE FALSE
        OBVIOUS
      <4>1. svc[w] = "rfq" /\ svc[v] = "rfq"
        BY <1>2 DEF AssetInv, TaskFits
      <4> QED BY <2>2, <4>1, DeskAssumption DEF AssetInv, DeskFits
    <3> QED BY <1>3, <2>2, <3>1
  <2> QED BY <2>1, <2>2
<1>5. SendsAlone'
  <2> SUFFICES ASSUME NEW u \in Worker, NEW v \in Worker, u # v, task'[u].pc = "send", task'[v].pc = "send",
                      task'[u].id = task'[v].id
               PROVE FALSE
    BY DEF SendsAlone
  <2>1. ASSUME NEW x \in Worker, x # w, task'[x].pc = "send", task'[x].id = id
        PROVE fillRow[id].phase = "submitting"
    <3>1. task[x].pc = "send" /\ task[x].id = id /\ task[x] # NoTask
      BY <2>1 DEF NoTask
    <3> QED BY <3>1 DEF AssetInv, TaskFits
  <2>2. CASE u = w \/ v = w
    BY <2>1, <2>2
  <2>3. CASE u # w /\ v # w
    BY <2>3 DEF AssetInv, SendsAlone
  <2> QED BY <2>2, <2>3
<1> QED BY <1>3, <1>4, <1>5 DEF AssetInv

(* The same, where the worker is done. *)
LEMMA WorkerEnds ==
  ASSUME AssetInv, NEW w \in Worker, task[w] # NoTask, NEW id \in FillIds, id = task[w].id,
         NEW s, NEW p, NEW o, Moved(id, s, p, o),
         UNCHANGED <<svc, deposit, sent>>, fills' \subseteq fills, RowFits(id)',
         fillRow[id].phase = "submitting" => p = "submitting",
         s \in Holding => fillRow[id].state \in Holding,
         fillRow[id].kind = "offer" => o = fillRow[id].out,
         Rest(w)
  PROVE AssetInv'
<1>1. DOMAIN task' = Worker /\ task'[w] = NoTask /\ \A v \in Worker : v # w => task'[v] = task[v]
  BY DEF Rest, AssetInv
<1>2. TaskFits(w)' /\ task'[w].pc # "send"
  BY <1>1 DEF TaskFits, NoTask
<1> QED BY <1>1, <1>2, WorkerMoves

(* And where only its task goes on. *)
LEMMA DeskRests ==
  ASSUME AssetInv, UNCHANGED <<fillRow, svc, deposit, sent>>, fills' \subseteq fills
  PROVE /\ DeskFits' /\ RowsLast /\ DepositsLast
        /\ \A v \in Worker : task'[v] = task[v] => TaskFits(v)'
<1>1. RowsLast /\ DepositsLast
  BY DEF RowsLast, DepositsLast, Struck, NoFill
<1>2. \A d \in Out : DepositFits(d)'
  BY <1>1, DepositLasts DEF AssetInv, DeskFits
<1>3. \A x \in FillIds : Struck(x)' => RowFits(x)'
  BY <1>1, RowLasts DEF AssetInv, DeskFits, Struck, NoFill
<1>4. \A f \in fills' : FillFits(f)'
  BY <1>1, FillLasts DEF AssetInv, DeskFits
<1>5. SentOnce' /\ OneHolder'
  BY DEF AssetInv, DeskFits, SentOnce, OneHolder, Holding
<1>6. DeskFits'
  BY <1>2, <1>3, <1>4, <1>5 DEF AssetInv, DeskFits
<1>7. \A v \in Worker : task'[v] = task[v] => TaskFits(v)'
  BY <1>1, TaskLasts DEF AssetInv
<1> QED BY <1>1, <1>6, <1>7

LEMMA WorkerGoesOn ==
  ASSUME AssetInv, NEW w \in Worker, UNCHANGED <<fillRow, svc, deposit, sent>>, fills' \subseteq fills,
         DOMAIN task' = Worker, \A v \in Worker : v # w => task'[v] = task[v], TaskFits(w)', task'[w].pc # "send"
  PROVE AssetInv'
<1>1. DeskFits' /\ \A v \in Worker : TaskFits(v)'
  BY DeskRests
<1>2. SendsAlone'
  BY DEF AssetInv, SendsAlone
<1> QED BY <1>1, <1>2 DEF AssetInv

(* The facts a step of a worker starts from. *)
LEMMA TaskInHand ==
  ASSUME AssetInv, NEW w \in Worker, task[w].pc # "idle"
  PROVE /\ task[w] # NoTask /\ DOMAIN task = Worker /\ DOMAIN task[w] = TaskFields /\ task[w].id \in FillIds
        /\ Struck(task[w].id) /\ RowFits(task[w].id) /\ fillRow[task[w].id].kind = svc[w] /\ TaskFits(w)
<1>1. task[w] # NoTask
  BY DEF NoTask
<1> QED BY <1>1 DEF AssetInv, TaskFits, DeskFits

(* Fail and revertUnsubmitted leave the row as it should be. *)
LEMMA FailMoves ==
  ASSUME AssetInv, NEW id \in FillIds, Struck(id), NEW from, Fail(id, from), UNCHANGED deposit
  PROVE \E s : /\ Moved(id, s, fillRow[id].phase, fillRow[id].out) /\ RowFits(id)'
               /\ s \in Holding => fillRow[id].state \in Holding
<1>0. RowFits(id)
  BY DEF AssetInv, DeskFits
<1>1. CASE fillRow[id].state = from
  <2>1. PICK s : s = Failed(id, from)
    OBVIOUS
  <2>2. /\ s \in {"refused", "stuck"} /\ (s = "refused" => fillRow[id].state \in {"quoted", "funded", "fillable"})
    BY <1>1, <2>1 DEF Failed
  <2>3. Moved(id, s, fillRow[id].phase, fillRow[id].out)
    BY <1>1, <2>1, EditedRow DEF Fail, Swap
  <2>4. RowFits(id)'
    BY <1>0, <2>2, <2>3 DEF RowFits, Moved, FillStates, Stands, Script
  <2>5. s \notin Holding
    BY <2>2 DEF Holding
  <2> QED BY <2>3, <2>4, <2>5
<1>2. CASE fillRow[id].state # from
  <2>1. fillRow' = fillRow
    BY <1>2 DEF Fail, Swap
  <2>2. Moved(id, fillRow[id].state, fillRow[id].phase, fillRow[id].out)
    BY <2>1, UneditedRow
  <2>3. RowFits(id)'
    BY <1>0, <2>1 DEF RowFits, Stands, TakenBy, Script
  <2> QED BY <2>2, <2>3
<1> QED BY <1>1, <1>2

LEMMA RevertMoves ==
  ASSUME AssetInv, NEW id \in FillIds, Struck(id), revertUnsubmitted(id), UNCHANGED deposit
  PROVE \E s, p : /\ Moved(id, s, p, fillRow[id].out) /\ RowFits(id)'
                  /\ fillRow[id].phase = "submitting" => p = "submitting"
                  /\ s \in Holding => fillRow[id].state \in Holding
<1>0. RowFits(id)
  BY DEF AssetInv, DeskFits
<1>1. CASE Selecting(id)
  <2>1. PICK s : s = Before(id)
    OBVIOUS
  <2>2. /\ s \in {"funded", "fillable"} /\ (s = "funded" <=> fillRow[id].kind = "rfq")
    BY <2>1 DEF Before
  <2>3. Moved(id, s, "none", fillRow[id].out)
    BY <1>1, <2>1, EditedRow DEF revertUnsubmitted
  <2>4. RowFits(id)'
    BY <1>0, <2>2, <2>3 DEF RowFits, Moved, FillStates, Holding, FillPhases, Stands, Script
  <2>5. fillRow[id].state \in Holding /\ fillRow[id].phase # "submitting"
    BY <1>1 DEF Holding, Selecting
  <2> QED BY <2>3, <2>4, <2>5
<1>2. CASE ~Selecting(id)
  <2>1. fillRow' = fillRow
    BY <1>2 DEF revertUnsubmitted
  <2>2. Moved(id, fillRow[id].state, fillRow[id].phase, fillRow[id].out)
    BY <2>1, UneditedRow
  <2>3. RowFits(id)'
    BY <1>0, <2>1 DEF RowFits, Stands, TakenBy, Script
  <2> QED BY <2>2, <2>3
<1> QED BY <1>1, <1>2

----------------------------------------------------------------------------
(* The workers. *)
LEMMA LargestStands ==
  \A id \in FillIds : \A o \in Largest(fillRow[id].script) : Stands(o, id)
BY DEF Largest, AtScript, Stands

LEMMA LookKeeps == ASSUME AssetInv, NEW w \in Worker, NEW id \in FillIds, Look(w, id) PROVE AssetInv'
<1>1. /\ UNCHANGED <<fillRow, svc, deposit, sent>> /\ fills' = fills /\ task[w] = NoTask /\ fillRow[id].kind = svc[w] /\ Open(id)
  BY DEF Look, surroundings
<1>2. Struck(id) /\ RowFits(id)
  BY <1>1 DEF Struck, Open, NoFill, AssetInv, DeskFits
<1>3. PICK verdict \in {drive(id)} \ {"wait"} :
        \E out \in IF verdict \in {"fund", "claim"} /\ svc[w] = "rfq" THEN Largest(fillRow[id].script) ELSE {fillRow[id].out} :
          task' = [task EXCEPT ![w] = [pc |-> verdict, id |-> id, state |-> fillRow[id].state, out |-> out]]
  BY DEF Look
<1>4. PICK out \in IF verdict \in {"fund", "claim"} /\ svc[w] = "rfq" THEN Largest(fillRow[id].script) ELSE {fillRow[id].out} :
        task' = [task EXCEPT ![w] = [pc |-> verdict, id |-> id, state |-> fillRow[id].state, out |-> out]]
  BY <1>3
<1>5. /\ DOMAIN task' = Worker /\ (\A v \in Worker : v # w => task'[v] = task[v])
      /\ DOMAIN task'[w] = TaskFields
      /\ task'[w].pc = verdict /\ task'[w].id = id /\ task'[w].state = fillRow[id].state /\ task'[w].out = out
  BY <1>4 DEF AssetInv, TaskFields
<1>6. fillRow[id].state \in {"quoted", "funded", "fillable", "filling"}
  BY <1>1, <1>2 DEF Open, Live, RowFits
<1>7. /\ verdict \in {"fail", "revert", "fund", "claim"}
      /\ verdict = "fund" => fillRow[id].state = "quoted"
      /\ verdict = "claim" => fillRow[id].state \in {"funded", "fillable"}
  BY <1>3, <1>6 DEF drive, whenQuoted, whenFunded, whenFillable, whenFilling, Gated
<1>8. svc[w] \in {"rfq", "offer"}
  BY <1>1, <1>2 DEF RowFits
<1>9. svc[w] = "offer" => out = fillRow[id].out /\ out # NoOut
  BY <1>1, <1>2, <1>4 DEF RowFits
<1>10. verdict \in {"fund", "claim"} => Stands(out, id)
  <2>1. CASE svc[w] = "rfq"
    BY <1>4, <2>1, LargestStands
  <2>2. CASE svc[w] = "offer"
    BY <1>2, <1>9, <2>2 DEF RowFits
  <2> QED BY <1>8, <2>1, <2>2
<1>11. TaskFits(w)'
  BY <1>1, <1>2, <1>5, <1>7, <1>9, <1>10 DEF TaskFits, TaskSteps, Stands, Struck, NoFill
<1>12. task'[w].pc # "send"
  BY <1>5, <1>7
<1> QED BY <1>1, <1>5, <1>11, <1>12, WorkerGoesOn

LEMMA ActKeeps == ASSUME AssetInv, NEW w \in Worker, Act(w) PROVE AssetInv'
<1>0. PICK id, from : id = task[w].id /\ from = task[w].state
  OBVIOUS
<1>1. UNCHANGED <<svc, deposit, sent>> /\ fills' = fills
  BY DEF Act, surroundings
<1>2. task[w].pc \in {"fail", "revert", "fund", "claim"} /\ task[w].pc # "idle"
  BY DEF Act
<1>3. /\ task[w] # NoTask /\ id \in FillIds /\ Struck(id) /\ RowFits(id) /\ fillRow[id].kind = svc[w] /\ TaskFits(w)
      /\ DOMAIN task = Worker /\ DOMAIN task[w] = TaskFields
  BY <1>0, <1>2, TaskInHand
<1>4. CASE Fail(id, from) /\ Rest(w)
  <2>1. PICK s : /\ Moved(id, s, fillRow[id].phase, fillRow[id].out) /\ RowFits(id)'
                 /\ s \in Holding => fillRow[id].state \in Holding
    BY <1>1, <1>3, <1>4, FailMoves
  <2> QED BY <1>0, <1>1, <1>3, <1>4, <2>1, WorkerEnds
<1>5. CASE revertUnsubmitted(id) /\ Rest(w)
  <2>1. PICK s, p : /\ Moved(id, s, p, fillRow[id].out) /\ RowFits(id)'
                    /\ fillRow[id].phase = "submitting" => p = "submitting"
                    /\ s \in Holding => fillRow[id].state \in Holding
    BY <1>1, <1>3, <1>5, RevertMoves
  <2> QED BY <1>0, <1>1, <1>3, <1>5, <2>1, WorkerEnds
<1>6. CASE Rest(w) /\ fillRow' = fillRow
  <2>1. Moved(id, fillRow[id].state, fillRow[id].phase, fillRow[id].out)
    BY <1>3, <1>6, UneditedRow
  <2>2. RowFits(id)'
    BY <1>1, <1>3, <1>6 DEF RowFits, Stands, TakenBy, Script
  <2> QED BY <1>0, <1>1, <1>3, <1>6, <2>1, <2>2, WorkerEnds
<1>7. CASE /\ task[w].pc = "fund" /\ Rest(w) /\ fillRow[id].state = from
           /\ fillRow' = [fillRow EXCEPT ![id].state = "funded", ![id].out = task[w].out]
  <2>1. PICK o : o = task[w].out
    OBVIOUS
  <2>2. fillRow[id].state = "quoted" /\ Stands(o, id) /\ o # NoOut /\ fillRow[id].kind = "rfq" /\ fillRow[id].phase = "none"
    BY <1>0, <1>3, <1>7, <2>1, DeskAssumption DEF TaskFits, RowFits, Stands
  <2>3. Moved(id, "funded", fillRow[id].phase, o)
    <3>1. DOMAIN fillRow = FillIds /\ DOMAIN fillRow[id] = RowFields
      BY <1>3 DEF AssetInv, DeskFits, RowFits
    <3> QED BY <1>3, <1>7, <2>1, <3>1 DEF Moved, RowFields
  <2>4. RowFits(id)'
    BY <1>1, <1>3, <2>2, <2>3 DEF RowFits, Moved, FillStates, Holding, Stands, Script
  <2>5. fillRow[id].state \in Holding
    BY <2>2 DEF Holding
  <2> QED BY <1>0, <1>1, <1>3, <1>7, <2>2, <2>3, <2>4, <2>5, WorkerEnds
<1>8. CASE /\ task[w].pc = "claim" /\ fillRow[id].state = from
           /\ fillRow' = [fillRow EXCEPT ![id].state = "filling", ![id].phase = "selecting", ![id].out = task[w].out]
           /\ task' = [task EXCEPT ![w].pc = "settle", ![w].state = "filling"]
  <2>1. PICK o : o = task[w].out
    OBVIOUS
  <2>2. /\ fillRow[id].state \in {"funded", "fillable"} /\ Stands(o, id) /\ o # NoOut /\ fillRow[id].phase = "none"
        /\ fillRow[id].kind = "offer" => o = fillRow[id].out
    BY <1>0, <1>3, <1>8, <2>1, DeskAssumption DEF TaskFits, RowFits, Stands
  <2>3. Moved(id, "filling", "selecting", o)
    <3>1. DOMAIN fillRow = FillIds /\ DOMAIN fillRow[id] = RowFields
      BY <1>3 DEF AssetInv, DeskFits, RowFits
    <3> QED BY <1>3, <1>8, <2>1, <3>1 DEF Moved, RowFields
  <2>4. RowFits(id)'
    BY <1>1, <1>3, <2>2, <2>3 DEF RowFits, Moved, FillStates, FillPhases, Holding, Stands, Script
  <2>5. fillRow[id].state \in Holding
    BY <2>2 DEF Holding
  <2>6. /\ DOMAIN task' = Worker /\ (\A v \in Worker : v # w => task'[v] = task[v])
        /\ DOMAIN task'[w] = TaskFields
        /\ task'[w].pc = "settle" /\ task'[w].id = id /\ task'[w].out = o
    BY <1>0, <1>3, <1>8, <2>1 DEF TaskFields
  <2>7. RowsLast => TaskFits(w)'
    <3>1. RowsLast => Struck(id)' /\ fillRow'[id].kind = svc'[w]
      BY <1>1, <1>3 DEF RowsLast
    <3>2. fillRow'[id].out = o
      BY <2>3 DEF Moved
    <3> QED BY <1>3, <2>2, <2>6, <3>1, <3>2 DEF TaskFits, TaskSteps, Struck
  <2> QED BY <1>0, <1>1, <1>3, <2>2, <2>3, <2>4, <2>5, <2>6, <2>7, WorkerMoves
<1> QED BY <1>0, <1>4, <1>5, <1>6, <1>7, <1>8 DEF Act

LEMMA SettleKeeps == ASSUME AssetInv, NEW w \in Worker, settle(w) PROVE AssetInv'
<1>0. PICK id : id = task[w].id
  OBVIOUS
<1>1. UNCHANGED <<fillRow, svc, deposit, sent>> /\ fills' = fills /\ task[w].pc = "settle"
  BY DEF settle, surroundings
<1>2. /\ task[w] # NoTask /\ id \in FillIds /\ Struck(id) /\ RowFits(id) /\ fillRow[id].kind = svc[w] /\ TaskFits(w)
      /\ DOMAIN task = Worker /\ DOMAIN task[w] = TaskFields
  BY <1>0, <1>1, TaskInHand
<1>3. PICK out, pc : /\ out = IF svc[w] = "rfq" THEN quotedOfferSettle(w) ELSE offerSettle(w)
                     /\ pc = IF ~(deposit[out].fate = "live" /\ deposit[out].amount >= fillRow[id].from) THEN "fail"
                             ELSE IF stock[fillRow[id].gives] < fillRow[id].to THEN "defer" ELSE "mark"
  OBVIOUS
<1>4. out = fillRow[id].out /\ out # NoOut /\ Stands(out, id)
  BY <1>0, <1>1, <1>2, <1>3 DEF quotedOfferSettle, offerSettle, TaskFits, RowFits
<1>5. pc \in {"fail", "defer", "mark"} /\ (pc = "mark" => Covers(out, id))
  BY <1>3 DEF Covers
<1>6. task' = [task EXCEPT ![w].out = out, ![w].pc = pc]
  BY <1>0, <1>3 DEF settle
<1>7. /\ DOMAIN task' = Worker /\ (\A v \in Worker : v # w => task'[v] = task[v])
      /\ DOMAIN task'[w] = TaskFields /\ task'[w].pc = pc /\ task'[w].id = id /\ task'[w].out = out
  BY <1>0, <1>2, <1>6 DEF TaskFields
<1>8. TaskFits(w)'
  BY <1>1, <1>2, <1>4, <1>5, <1>7 DEF TaskFits, TaskSteps, Stands, Covers, Struck, NoFill
<1> QED BY <1>1, <1>5, <1>7, <1>8, WorkerGoesOn

(* A worker goes on to a step at which nothing is claimed of it. *)
LEMMA GivesUp ==
  ASSUME AssetInv, NEW w \in Worker, task[w].pc # "idle", NEW pc \in {"fail", "defer"}, StepTo(w, pc),
         UNCHANGED <<fillRow, svc, deposit, sent>>, fills' \subseteq fills
  PROVE AssetInv'
<1>1. /\ task[w] # NoTask /\ task[w].id \in FillIds /\ Struck(task[w].id) /\ fillRow[task[w].id].kind = svc[w] /\ TaskFits(w)
      /\ DOMAIN task = Worker /\ DOMAIN task[w] = TaskFields
  BY TaskInHand
<1>2. /\ DOMAIN task' = Worker /\ (\A v \in Worker : v # w => task'[v] = task[v])
      /\ DOMAIN task'[w] = TaskFields /\ task'[w].pc = pc /\ task'[w].id = task[w].id /\ task'[w].out = task[w].out
  BY <1>1 DEF StepTo, TaskFields
<1>3. TaskFits(w)'
  BY <1>1, <1>2 DEF TaskFits, TaskSteps, Struck, NoFill
<1> QED BY <1>2, <1>3, WorkerGoesOn

LEMMA MarkKeeps == ASSUME AssetInv, NEW w \in Worker, markSubmitting(w) PROVE AssetInv'
<1>0. PICK id : id = task[w].id
  OBVIOUS
<1>1. UNCHANGED <<svc, deposit, sent>> /\ fills' = fills /\ task[w].pc = "mark"
  BY DEF markSubmitting, surroundings
<1>2. /\ task[w] # NoTask /\ id \in FillIds /\ Struck(id) /\ RowFits(id) /\ fillRow[id].kind = svc[w] /\ TaskFits(w)
      /\ DOMAIN task = Worker /\ DOMAIN task[w] = TaskFields
  BY <1>0, <1>1, TaskInHand
<1>3. CASE ~MaySubmit(id)
  <2>1. fillRow' = fillRow /\ StepTo(w, "defer")
    BY <1>0, <1>3 DEF markSubmitting
  <2> QED BY <1>1, <2>1, GivesUp
<1>4. CASE MaySubmit(id)
  <2>1. /\ fillRow' = [fillRow EXCEPT ![id].phase = "submitting"] /\ StepTo(w, "send")
        /\ fillRow[id].state = "filling" /\ fillRow[id].phase = "selecting"
    BY <1>0, <1>4 DEF markSubmitting, MaySubmit, Selecting
  <2>2. Moved(id, "filling", "submitting", fillRow[id].out)
    <3>1. DOMAIN fillRow = FillIds /\ DOMAIN fillRow[id] = RowFields
      BY <1>2 DEF AssetInv, DeskFits, RowFits
    <3> QED BY <1>2, <2>1, <3>1 DEF Moved, RowFields
  <2>3. RowFits(id)'
    BY <1>1, <1>2, <2>1, <2>2 DEF RowFits, Moved, FillStates, FillPhases, Holding, Stands, Script
  <2>4. /\ DOMAIN task' = Worker /\ (\A v \in Worker : v # w => task'[v] = task[v])
        /\ DOMAIN task'[w] = TaskFields /\ task'[w].pc = "send" /\ task'[w].id = id /\ task'[w].out = task[w].out
    BY <1>0, <1>2, <2>1 DEF StepTo, TaskFields
  <2>5. sent[id] = 0
    <3>1. sent[id] \in Nat /\ sent[id] <= 1 /\ sent[id] # 1
      BY <1>2, <2>1 DEF AssetInv, DeskFits, SentOnce
    <3> QED BY <3>1
  <2>6. task[w].out # NoOut /\ task[w].out = fillRow[id].out /\ Stands(task[w].out, id) /\ Covers(task[w].out, id)
    BY <1>0, <1>1, <1>2 DEF TaskFits
  <2>7. ASSUME RowsLast, DepositsLast PROVE TaskFits(w)'
    <3>1. PICK o : o = task[w].out
      OBVIOUS
    <3>2. Struck(id)' /\ Stands(o, id)' /\ Covers(o, id)' /\ fillRow'[id].kind = svc'[w]
      BY <1>1, <1>2, <2>6, <2>7, <3>1, StandsLasts DEF RowsLast
    <3>3. fillRow'[id].out = o /\ fillRow'[id].phase = "submitting" /\ sent'[id] = 0 /\ o # NoOut
      BY <1>1, <2>2, <2>5, <2>6, <3>1 DEF Moved
    <3> QED BY <1>2, <2>4, <3>1, <3>2, <3>3 DEF TaskFits, TaskSteps
  <2>8. "filling" \in Holding
    BY DEF Holding
  <2> QED BY <1>0, <1>1, <1>2, <2>1, <2>2, <2>3, <2>4, <2>7, <2>8, WorkerMoves
<1> QED BY <1>3, <1>4

LEMMA FillOfferKeeps == ASSUME AssetInv, NEW w \in Worker, fillOffer(w) PROVE AssetInv'
<1>0. PICK id, out : id = task[w].id /\ out = task[w].out
  OBVIOUS
<1>1. /\ UNCHANGED <<fillRow, svc, deposit>> /\ fills' = fills \cup {[id |-> id, out |-> out]} /\ task[w].pc = "send"
      /\ sent' = [sent EXCEPT ![id] = @ + 1] /\ StepTo(w, "await")
  BY <1>0 DEF fillOffer, surroundings
<1>2. /\ task[w] # NoTask /\ id \in FillIds /\ Struck(id) /\ RowFits(id) /\ fillRow[id].kind = svc[w] /\ TaskFits(w)
      /\ DOMAIN task = Worker /\ DOMAIN task[w] = TaskFields
  BY <1>0, <1>1, TaskInHand
<1>3. /\ out # NoOut /\ out = fillRow[id].out /\ Stands(out, id) /\ Covers(out, id)
      /\ fillRow[id].phase = "submitting" /\ sent[id] = 0
  BY <1>0, <1>1, <1>2 DEF TaskFits
<1>4. RowsLast /\ DepositsLast
  BY <1>1 DEF RowsLast, DepositsLast, Struck, NoFill
<1>5. sent \in [FillIds -> Nat] /\ sent' \in [FillIds -> Nat] /\ sent'[id] = 1 /\ \A x \in FillIds : x # id => sent'[x] = sent[x]
  BY <1>1, <1>2, <1>3 DEF AssetInv, DeskFits
<1>6. SentOnce'
  <2>1. fillRow[id].state \in {"filling", "filled", "stuck"}
    BY <1>2, <1>3 DEF RowFits, FillStates, Holding
  <2>2. \A x \in FillIds : x # id => sent[x] <= 1 /\ (sent[x] = 1 => fillRow[x].phase = "submitting" /\ fillRow[x].state \in {"filling", "filled", "stuck"})
    BY DEF AssetInv, DeskFits, SentOnce
  <2> QED BY <1>1, <1>3, <1>5, <2>1, <2>2 DEF SentOnce
<1>7. \A f \in fills' : FillFits(f)'
  <2>1. PICK f : f = [id |-> id, out |-> out]
    OBVIOUS
  <2>2. FillFits(f)
    BY <1>2, <1>3, <2>1 DEF FillFits
  <2>3. \A g \in fills : FillFits(g)'
    BY <1>4, FillLasts DEF AssetInv, DeskFits
  <2> QED BY <1>1, <1>4, <2>1, <2>2, <2>3, FillLasts
<1>8. DeskFits'
  <2>1. \A d \in Out : DepositFits(d)'
    BY <1>1, <1>4, DepositLasts DEF AssetInv, DeskFits
  <2>2. \A x \in FillIds : Struck(x)' => RowFits(x)'
    BY <1>1, <1>4, RowLasts DEF AssetInv, DeskFits, Struck, NoFill
  <2>3. OneHolder'
    BY <1>1 DEF AssetInv, DeskFits, OneHolder, Holding
  <2> QED BY <1>1, <1>5, <1>6, <1>7, <2>1, <2>2, <2>3 DEF AssetInv, DeskFits
<1>9. /\ DOMAIN task' = Worker /\ (\A v \in Worker : v # w => task'[v] = task[v])
      /\ DOMAIN task'[w] = TaskFields /\ task'[w].pc = "await" /\ task'[w].id = id /\ task'[w].out = out
  BY <1>0, <1>1, <1>2 DEF StepTo, TaskFields
<1>10. ASSUME NEW v \in Worker PROVE TaskFits(v)'
  <2>1. CASE v = w
    BY <1>1, <1>2, <1>3, <1>9, <2>1 DEF TaskFits, TaskSteps, Stands, Covers, Struck, NoFill
  <2>2. CASE v # w
    <3>1. task'[v] = task[v] /\ TaskFits(v)
      BY <1>9, <2>2 DEF AssetInv
    <3>2. task[v].pc = "send" => task[v].id # id /\ task[v].id \in FillIds
      BY <1>0, <1>1, <2>2, <3>1 DEF AssetInv, SendsAlone, TaskFits, NoTask
    <3> QED BY <1>1, <1>4, <1>5, <3>1, <3>2, TaskLasts
  <2> QED BY <2>1, <2>2
<1>11. SendsAlone'
  BY <1>9 DEF AssetInv, SendsAlone
<1> QED BY <1>8, <1>9, <1>10, <1>11 DEF AssetInv

LEMMA AnsweredKeeps == ASSUME AssetInv, NEW w \in Worker, Answered(w) PROVE AssetInv'
<1>0. PICK id : id = task[w].id
  OBVIOUS
<1>1. /\ UNCHANGED <<svc, deposit, sent>> /\ fills' = fills /\ task[w].pc = "await" /\ Rest(w)
      /\ TakenBy(id, task[w].out) /\ Swap(id, "filling", "filled", fillRow[id].phase)
  BY <1>0 DEF Answered, surroundings
<1>2. /\ task[w] # NoTask /\ id \in FillIds /\ Struck(id) /\ RowFits(id) /\ fillRow[id].kind = svc[w] /\ TaskFits(w)
  BY <1>0, <1>1, TaskInHand
<1>3. fillRow[id].phase = "submitting" /\ fillRow[id].out = task[w].out /\ fillRow[id].out # NoOut
  BY <1>0, <1>1, <1>2 DEF TaskFits
<1>4. CASE fillRow[id].state = "filling"
  <2>1. Moved(id, "filled", fillRow[id].phase, fillRow[id].out)
    BY <1>1, <1>2, <1>4, EditedRow DEF Swap
  <2>2. RowFits(id)'
    BY <1>1, <1>2, <1>3, <1>4, <2>1 DEF RowFits, Moved, FillStates, Holding, Stands, TakenBy, Script
  <2>3. "filling" \in Holding
    BY DEF Holding
  <2> QED BY <1>0, <1>1, <1>2, <1>4, <2>1, <2>2, <2>3, WorkerEnds
<1>5. CASE fillRow[id].state # "filling"
  <2>1. fillRow' = fillRow
    BY <1>1, <1>5 DEF Swap
  <2>2. Moved(id, fillRow[id].state, fillRow[id].phase, fillRow[id].out)
    BY <1>2, <2>1, UneditedRow
  <2>3. RowFits(id)'
    BY <1>1, <1>2, <2>1 DEF RowFits, Stands, TakenBy, Script
  <2> QED BY <1>0, <1>1, <1>2, <2>2, <2>3, WorkerEnds
<1> QED BY <1>4, <1>5

LEMMA DeferredKeeps == ASSUME AssetInv, NEW w \in Worker, Deferred(w) PROVE AssetInv'
<1>0. PICK id : id = task[w].id
  OBVIOUS
<1>1. /\ UNCHANGED <<svc, deposit, sent>> /\ fills' = fills /\ task[w].pc = "defer" /\ Rest(w)
      /\ revertUnsubmitted(id) \/ Fail(id, "filling")
  BY <1>0 DEF Deferred, surroundings
<1>2. /\ task[w] # NoTask /\ id \in FillIds /\ Struck(id)
  BY <1>0, <1>1, TaskInHand
<1>3. CASE Fail(id, "filling")
  <2>1. PICK s : /\ Moved(id, s, fillRow[id].phase, fillRow[id].out) /\ RowFits(id)'
                 /\ s \in Holding => fillRow[id].state \in Holding
    BY <1>1, <1>2, <1>3, FailMoves
  <2> QED BY <1>0, <1>1, <1>2, <2>1, WorkerEnds
<1>4. CASE revertUnsubmitted(id)
  <2>1. PICK s, p : /\ Moved(id, s, p, fillRow[id].out) /\ RowFits(id)'
                    /\ fillRow[id].phase = "submitting" => p = "submitting"
                    /\ s \in Holding => fillRow[id].state \in Holding
    BY <1>1, <1>2, <1>4, RevertMoves
  <2> QED BY <1>0, <1>1, <1>2, <2>1, WorkerEnds
<1> QED BY <1>1, <1>3, <1>4

LEMMA WorkersKeep ==
  ASSUME AssetInv, NEW w \in Worker, WorkerStep(w) \/ LostAnswer(w) \/ DeskCrash(w)
  PROVE AssetInv'
<1>1. CASE Rejected(w)
  BY <1>1, GivesUp DEF Rejected, surroundings
<1>2. CASE LostAnswer(w)
  BY <1>2, GivesUp DEF LostAnswer, surroundings
<1>3. CASE DeskCrash(w)
  <2>1. UNCHANGED <<fillRow, svc, deposit, sent>> /\ fills' = fills /\ Rest(w)
    BY <1>3 DEF DeskCrash, surroundings
  <2>2. /\ DOMAIN task' = Worker /\ task'[w] = NoTask /\ \A v \in Worker : v # w => task'[v] = task[v]
    BY <2>1 DEF Rest, AssetInv
  <2>3. TaskFits(w)' /\ task'[w].pc # "send"
    BY <2>2 DEF TaskFits, NoTask
  <2> QED BY <2>1, <2>2, <2>3, WorkerGoesOn
<1> QED BY <1>1, <1>2, <1>3, LookKeeps, ActKeeps, SettleKeeps, MarkKeeps, FillOfferKeeps, AnsweredKeeps, DeferredKeeps DEF WorkerStep

LEMMA ParkKeeps == ASSUME AssetInv, NEW id \in FillIds, park(id) PROVE AssetInv'
<1>1. UNCHANGED <<svc, deposit, sent, task>> /\ fills' = fills /\ Fail(id, fillRow[id].state) /\ fillRow[id].kind = "rfq"
  BY DEF park, surroundings
<1>2. Struck(id)
  BY <1>1 DEF Struck, NoFill
<1>3. PICK s : /\ Moved(id, s, fillRow[id].phase, fillRow[id].out) /\ RowFits(id)'
               /\ s \in Holding => fillRow[id].state \in Holding
  BY <1>1, <1>2, FailMoves
<1>4. DeskFits' /\ \A v \in Worker : TaskFits(v)'
  BY <1>1, <1>2, <1>3, RowMovesOn
<1>5. SendsAlone'
  BY <1>1 DEF AssetInv, SendsAlone
<1> QED BY <1>1, <1>4, <1>5 DEF AssetInv

----------------------------------------------------------------------------
(* A new row: nothing speaks of it yet. *)
LEMMA NewRowKeeps ==
  ASSUME AssetInv, NEW id \in FillIds, fillRow[id] = NoFill, NEW r, fillRow' = [fillRow EXCEPT ![id] = r],
         UNCHANGED <<svc, deposit, fills, sent, task>>,
         DOMAIN r = RowFields, r.phase = "none", r.script = Script(r.script[1], r.script[2]),
         \/ r.kind = "rfq" /\ r.state = "quoted" /\ r.out = NoOut
         \/ /\ r.kind = "offer" /\ r.state = "fillable" /\ r.out # NoOut /\ r.out \in Out
            /\ deposit[r.out].fate # "none" /\ deposit[r.out].script = r.script,
         \A x \in FillIds : fillRow[x].kind = r.kind /\ fillRow[x].state \in Holding =>
           (r.kind = "rfq" => fillRow[x].script # r.script) /\ (r.kind = "offer" => fillRow[x].out # r.out)
  PROVE AssetInv'
<1>3. DOMAIN fillRow' = FillIds /\ fillRow'[id] = r /\ \A x \in FillIds : x # id => fillRow'[x] = fillRow[x]
  BY DEF AssetInv, DeskFits
<1>4. RowsLast /\ DepositsLast
  BY <1>3 DEF RowsLast, DepositsLast, Struck, NoFill
<1>5. RowFits(id)'
  BY <1>3 DEF RowFits, FillStates, FillPhases, Holding, Stands, Script
<1>6. ASSUME NEW x \in FillIds, Struck(x)' PROVE RowFits(x)'
  <2>1. CASE x = id
    BY <1>5, <2>1
  <2>2. CASE x # id
    <3>1. fillRow'[x] = fillRow[x] /\ Struck(x)
      BY <1>3, <1>6, <2>2 DEF Struck, NoFill
    <3> QED BY <1>4, <3>1, RowLasts DEF AssetInv, DeskFits
  <2> QED BY <2>1, <2>2
<1>7. \A d \in Out : DepositFits(d)'
  BY <1>4, DepositLasts DEF AssetInv, DeskFits
<1>8. \A f \in fills' : FillFits(f)'
  BY <1>4, FillLasts DEF AssetInv, DeskFits
<1>9. SentOnce'
  <2>1. \A x \in FillIds : sent[x] <= 1 /\ (sent[x] = 1 => fillRow[x].phase = "submitting" /\ fillRow[x].state \in {"filling", "filled", "stuck"})
    BY DEF AssetInv, DeskFits, SentOnce
  <2>2. sent[id] # 1
    BY <2>1 DEF NoFill
  <2> QED BY <1>3, <2>1, <2>2 DEF SentOnce
<1>10. OneHolder'
  <2> SUFFICES ASSUME NEW a \in FillIds, NEW b \in FillIds, a # b, fillRow'[a].kind = fillRow'[b].kind, fillRow'[a].kind # "none",
                      {fillRow'[a].state, fillRow'[b].state} \subseteq Holding
               PROVE IF fillRow'[a].kind = "rfq" THEN fillRow'[a].script # fillRow'[b].script ELSE fillRow'[a].out # fillRow'[b].out
    BY DEF OneHolder, Holding
  <2>1. CASE a # id /\ b # id
    <3>1. fillRow'[a] = fillRow[a] /\ fillRow'[b] = fillRow[b]
      BY <1>3, <2>1
    <3> QED BY <3>1 DEF AssetInv, DeskFits, OneHolder
  <2>2. CASE a = id
    <3>1. fillRow'[a] = r /\ fillRow'[b] = fillRow[b]
      BY <1>3, <2>2
    <3> QED BY <3>1
  <2>3. CASE b = id
    <3>1. fillRow'[b] = r /\ fillRow'[a] = fillRow[a]
      BY <1>3, <2>3
    <3> QED BY <3>1
  <2> QED BY <2>1, <2>2, <2>3
<1>11. ASSUME NEW v \in Worker PROVE TaskFits(v)'
  <2>1. TaskFits(v)
    BY DEF AssetInv
  <2>2. task[v] # NoTask => task[v].id \in FillIds /\ task[v].id # id
    BY <2>1 DEF TaskFits, Struck
  <2>3. task[v] # NoTask => fillRow'[task[v].id].out = fillRow[task[v].id].out
    BY <1>3, <2>2
  <2> QED BY <1>4, <2>1, <2>3, TaskLasts
<1>12. SendsAlone'
  BY DEF AssetInv, SendsAlone
<1>13. DeskFits'
  BY <1>3, <1>6, <1>7, <1>8, <1>9, <1>10 DEF AssetInv, DeskFits
<1> QED BY <1>11, <1>12, <1>13 DEF AssetInv

LEMMA QuoteKeeps == ASSUME AssetInv, NEW w, NEW id \in FillIds, NEW ask, quote(w, id, ask) PROVE AssetInv'
<1>1. PICK terms : /\ fillRow[id] = NoFill
                   /\ \A x \in FillIds : fillRow[x].kind = "rfq" /\ fillRow[x].state \in Holding => fillRow[x].script # Script(ask.gives, terms.to)
                   /\ fillRow' = [fillRow EXCEPT ![id] = NewRow("rfq", "quoted", ask.gives, terms.from, terms.to, NoOut)]
                   /\ UNCHANGED <<svc, deposit, fills, sent, task>>
  BY DEF quote, surroundings
<1>2. PICK r : r = NewRow("rfq", "quoted", ask.gives, terms.from, terms.to, NoOut)
  OBVIOUS
<1>3. /\ DOMAIN r = RowFields /\ r.kind = "rfq" /\ r.state = "quoted" /\ r.phase = "none" /\ r.out = NoOut
      /\ r.script = Script(ask.gives, terms.to) /\ r.script = Script(r.script[1], r.script[2])
  BY <1>2 DEF NewRow, RowFields, Script
<1>4. fillRow' = [fillRow EXCEPT ![id] = r]
  BY <1>1, <1>2
<1>5. \A x \in FillIds : fillRow[x].kind = r.kind /\ fillRow[x].state \in Holding =>
        (r.kind = "rfq" => fillRow[x].script # r.script) /\ (r.kind = "offer" => fillRow[x].out # r.out)
  BY <1>1, <1>3
<1>6. UNCHANGED <<svc, deposit, fills, sent, task>> /\ fillRow[id] = NoFill
  BY <1>1
<1> QED BY <1>3, <1>4, <1>5, <1>6, NewRowKeeps

LEMMA ConsiderKeeps == ASSUME AssetInv, NEW w, NEW id \in FillIds, NEW o \in Out, consider(w, id, o) PROVE AssetInv'
<1>1. /\ fillRow[id] = NoFill /\ deposit[o].fate # "none" /\ UNCHANGED <<svc, deposit, fills, sent, task>>
      /\ \A x \in FillIds : fillRow[x].kind = "offer" /\ fillRow[x].state \in Holding => fillRow[x].out # o
  BY DEF consider, surroundings
<1>2. PICK gives, want, there : /\ gives = deposit[o].script[1] /\ want = deposit[o].script[2]
                                /\ fillRow' = [fillRow EXCEPT ![id] = NewRow("offer", "fillable", gives, there, want, o)]
  BY DEF consider
<1>3. deposit[o].script = Script(gives, want)
  BY <1>1, <1>2 DEF AssetInv, DeskFits, DepositFits
<1>4. o # NoOut
  BY DeskAssumption
<1>5. PICK r : r = NewRow("offer", "fillable", gives, there, want, o)
  OBVIOUS
<1>6. /\ DOMAIN r = RowFields /\ r.kind = "offer" /\ r.state = "fillable" /\ r.phase = "none" /\ r.out = o
      /\ r.script = Script(gives, want) /\ r.script = Script(r.script[1], r.script[2])
  BY <1>5 DEF NewRow, RowFields, Script
<1>7. fillRow' = [fillRow EXCEPT ![id] = r]
  BY <1>2, <1>5
<1> QED BY <1>1, <1>3, <1>4, <1>6, <1>7, NewRowKeeps

(* Deposits come and go: nothing else changes. *)
LEMMA DepositsMoveOn ==
  ASSUME AssetInv, UNCHANGED <<svc, fillRow, sent, task>>, fills' \subseteq fills, DOMAIN deposit' = Out, DepositsLast,
         \A d \in Out : deposit'[d] = deposit[d] \/ DepositFits(d)'
  PROVE AssetInv'
<1>1. RowsLast
  BY DEF RowsLast, Struck, NoFill
<1>2. \A d \in Out : DepositFits(d)'
  BY <1>1, DepositLasts DEF AssetInv, DeskFits
<1>3. \A x \in FillIds : Struck(x)' => RowFits(x)'
  BY <1>1, RowLasts DEF AssetInv, DeskFits, Struck, NoFill
<1>4. \A f \in fills' : FillFits(f)'
  BY <1>1, FillLasts DEF AssetInv, DeskFits
<1>5. SentOnce' /\ OneHolder'
  BY DEF AssetInv, DeskFits, SentOnce, OneHolder, Holding
<1>6. DeskFits'
  BY <1>2, <1>3, <1>4, <1>5 DEF AssetInv, DeskFits
<1>7. \A v \in Worker : TaskFits(v)'
  BY <1>1, TaskLasts DEF AssetInv
<1>8. SendsAlone'
  BY DEF AssetInv, SendsAlone
<1> QED BY <1>6, <1>7, <1>8 DEF AssetInv

LEMMA ExecuteKeeps == ASSUME AssetInv, NEW f \in fills, ExecuteFill(f) PROVE AssetInv'
<1>1. FillFits(f)
  BY DEF AssetInv, DeskFits
<1>2. PICK o, id : o = f.out /\ id = f.id
  OBVIOUS
<1>3. o \in Out /\ id \in FillIds /\ Struck(id) /\ Stands(o, id) /\ Covers(o, id) /\ DepositFits(o)
  BY <1>1, <1>2 DEF FillFits, Stands, AssetInv, DeskFits
<1>4. PICK d : d = [fate |-> "taken", by |-> id, script |-> deposit[o].script, amount |-> deposit[o].amount]
  OBVIOUS
<1>5. /\ UNCHANGED <<svc, fillRow, sent, task>> /\ fills' \subseteq fills /\ deposit[o].fate = "live"
      /\ deposit' = [deposit EXCEPT ![o] = d]
  BY <1>2, <1>4 DEF ExecuteFill
<1>6. DOMAIN deposit' = Out /\ deposit'[o] = d /\ \A x \in Out : x # o => deposit'[x] = deposit[x]
  BY <1>3, <1>5 DEF AssetInv, DeskFits
<1>7. /\ d.fate = "taken" /\ d.by = id /\ d.script = deposit[o].script /\ d.amount = deposit[o].amount
      /\ {"fate", "script", "amount"} \subseteq DOMAIN d
  BY <1>4
<1>8. DepositsLast
  BY <1>5, <1>6, <1>7 DEF DepositsLast
<1>9. DepositFits(o)'
  <2>1. Struck(id)' /\ Stands(o, id)' /\ Covers(o, id)'
    BY <1>3, <1>5, <1>6, <1>7 DEF Stands, Covers, Struck, NoFill
  <2>2. d.script = Script(d.script[1], d.script[2])
    BY <1>3, <1>5, <1>7 DEF DepositFits
  <2> QED BY <1>3, <1>6, <1>7, <2>1, <2>2 DEF DepositFits, Script, Struck, Stands, Covers
<1> QED BY <1>5, <1>6, <1>8, <1>9, DepositsMoveOn

LEMMA DepositKeeps ==
  ASSUME AssetInv, NEW o \in Out, NEW a, NEW b, NEW amount, Deposit(o, Script(a, b), amount)
  PROVE AssetInv'
<1>1. PICK d : d = [fate |-> "live", script |-> Script(a, b), amount |-> amount]
  OBVIOUS
<1>2. UNCHANGED <<svc, fillRow, sent, task>> /\ fills' = fills /\ deposit[o] = NoDeposit /\ deposit' = [deposit EXCEPT ![o] = d]
  BY <1>1 DEF Deposit, others
<1>3. DOMAIN deposit' = Out /\ deposit'[o] = d /\ \A x \in Out : x # o => deposit'[x] = deposit[x]
  BY <1>2 DEF AssetInv, DeskFits
<1>4. DepositsLast
  BY <1>2, <1>3 DEF DepositsLast, NoDeposit
<1>5. d.fate = "live" /\ {"fate", "script", "amount"} \subseteq DOMAIN d /\ d.script = Script(d.script[1], d.script[2])
  BY <1>1 DEF Script
<1>6. DepositFits(o)'
  BY <1>3, <1>5 DEF DepositFits, Script
<1> QED BY <1>2, <1>3, <1>4, <1>6, DepositsMoveOn

LEMMA MakersKeep == ASSUME AssetInv, MakerDeposits \/ (\E o \in Out : MakerReclaims(o)) PROVE AssetInv'
<1>1. ASSUME NEW o \in Out, NEW id \in FillIds, NEW slip \in Slips, fillRow[id].kind = "rfq",
             Deposit(o, fillRow[id].script, fillRow[id].from + slip)
      PROVE AssetInv'
  <2>1. Struck(id)
    BY <1>1 DEF Struck, NoFill
  <2>2. PICK a, b : fillRow[id].script = Script(a, b)
    BY <2>1 DEF AssetInv, DeskFits, RowFits
  <2> QED BY <1>1, <2>2, DepositKeeps
<1>2. ASSUME NEW o \in Out, NEW offer \in Offers, Deposit(o, Script(offer.gives, offer.want), offer.amount) PROVE AssetInv'
  BY <1>2, DepositKeeps
<1>3. ASSUME NEW o \in Out, MakerReclaims(o) PROVE AssetInv'
  <2>1. /\ UNCHANGED <<svc, fillRow, sent, task>> /\ fills' = fills /\ deposit[o].fate = "live"
        /\ deposit' = [deposit EXCEPT ![o].fate = "reclaimed"]
    BY <1>3 DEF MakerReclaims, Event, others
  <2>2. DepositFits(o) /\ DOMAIN deposit = Out
    BY DEF AssetInv, DeskFits
  <2>3. {"fate", "script", "amount"} \subseteq DOMAIN deposit[o] /\ deposit[o].script = Script(deposit[o].script[1], deposit[o].script[2])
    BY <2>1, <2>2 DEF DepositFits
  <2>4. /\ DOMAIN deposit' = Out /\ (\A x \in Out : x # o => deposit'[x] = deposit[x])
        /\ DOMAIN deposit'[o] = DOMAIN deposit[o] /\ deposit'[o].fate = "reclaimed"
        /\ deposit'[o].script = deposit[o].script /\ deposit'[o].amount = deposit[o].amount
    BY <2>1, <2>2, <2>3
  <2>5. DepositsLast
    BY <2>1, <2>4 DEF DepositsLast
  <2>6. DepositFits(o)'
    BY <2>3, <2>4 DEF DepositFits, Script
  <2> QED BY <2>1, <2>4, <2>5, <2>6, DepositsMoveOn
<1> QED BY <1>1, <1>2, <1>3 DEF MakerDeposits

(* The desk's invariant, over crashes, lost answers, stale ticks and makers   *)
(* that deposit twice or reclaim.                                             *)
THEOREM AssetInvariant == AssetSpec => []AssetInv
<1>1. AssetInit => AssetInv
  BY InitialDesk
<1>2. AssetInv /\ [AssetNext]_assetVars => AssetInv'
  <2> SUFFICES ASSUME AssetInv, [AssetNext]_assetVars PROVE AssetInv'
    OBVIOUS
  <2>1. CASE UNCHANGED <<svc, fillRow, deposit, fills, sent, task>>
    <3>1. DeskFits' /\ \A v \in Worker : TaskFits(v)'
      BY <2>1, DeskRests
    <3>2. SendsAlone' /\ DOMAIN task' = Worker
      BY <2>1 DEF AssetInv, SendsAlone
    <3> QED BY <3>1, <3>2 DEF AssetInv
  <2>2. CASE UNCHANGED assetVars
    BY <2>1, <2>2 DEF assetVars
  <2>3. ASSUME NEW id \in FillIds, Approve(id) PROVE AssetInv'
    BY <2>1, <2>3 DEF Approve, Event, others
  <2>4. CASE FeedMoves \/ Expire
    BY <2>1, <2>4 DEF FeedMoves, Expire, Event, others
  <2>5. ASSUME NEW gives, StockSpent(gives) PROVE AssetInv'
    BY <2>1, <2>5 DEF StockSpent, Event, others
  <2> QED BY <2>2, <2>3, <2>4, <2>5, QuoteKeeps, ConsiderKeeps, WorkersKeep, ParkKeeps, ExecuteKeeps, MakersKeep DEF AssetNext
<1> QED BY <1>1, <1>2, PTL DEF AssetSpec

(* A fill is sent at most once per row, a filled row took the very deposit on *)
(* its record, which covers the price struck, and no two rows hold one        *)
(* deposit or one script.                                                     *)
THEOREM FillsAreTrue == AssetSpec => []FillsTellTheTruth
<1>1. AssetInv => FillsTellTheTruth
  <2> SUFFICES ASSUME AssetInv PROVE FillsTellTheTruth
    OBVIOUS
  <2>1. \A id \in FillIds : fillRow[id].state = "filled" => TakenBy(id, fillRow[id].out)
    BY DEF AssetInv, DeskFits, RowFits, Struck, NoFill
  <2>2. \A o \in Out : deposit[o].fate = "taken" =>
          deposit[o].amount >= fillRow[deposit[o].by].from /\ deposit[o].script = fillRow[deposit[o].by].script
    BY DEF AssetInv, DeskFits, DepositFits, Stands, Covers
  <2> QED BY <2>1, <2>2 DEF FillsTellTheTruth, TakesItsDeposit, AssetInv, DeskFits
<1> QED BY <1>1, AssetInvariant, PTL

(***************************************************************************)
(* The receiver of a provider-funded payout.                                *)
(***************************************************************************)
(* The receiver's balance will do, it has been activated, or it is too late: *)
(* whichever it is, it stays so up the chain.                               *)
Ready(k) == blocks[k].world.active \/ blocks[k].world.bal >= Amount \/ base + k >= Cutoff
ChainIsSound ==
  /\ Len(blocks) \in 1..MaxBlocks
  /\ settled <= Len(blocks) /\ Depth(Len(blocks)) <= settled
  /\ \A k \in 1..Len(blocks) : blocks[k].branch <= branch
  /\ \A i, j \in 1..Len(blocks) : i <= j /\ Ready(i) => Ready(j)

(* A header that was read: a block of its name is not made again. *)
Known(hd) == hd.h >= 1 /\ hd.branch <= branch /\ (hd.branch = branch => hd.h <= Len(blocks))
Inspected == {"stable", "stableTip", "act"}
Evidence == {"receipt", "header", "depth", "again", "final"}
Chosen == {"header", "depth", "again", "final"}
(* What a call may be at which step. *)
CallsFit ==
  /\ call.pc \in {"read", "stable", "stableTip"} => call.op \in Inspecting
  /\ call.pc = "act" => call.op \in Inspecting \cup {"refund"}
  /\ call.pc \in Evidence \cup {"logs"} => call.op \in {"claimEvidence", "refundEvidence"}
  /\ call.pc \in {"depth", "again"} => call.op = "claimEvidence"
(* The tip read first is a block whose depth was reached, unless it was replaced. *)
TipIsSound ==
  call.pc \notin {"idle", "view"} =>
    /\ Known(call.tip)
    /\ ~deep \/ Canonical(call.tip) => Depth(call.tip.h) <= settled
(* The block observed lies that deep under it, and what was read there is what is there. *)
SeenIsSound ==
  call.pc \notin {"idle", "view", "target"} =>
    /\ Known(call.seen) /\ call.seen.h <= Depth(call.tip.h)
    /\ Canonical(call.tip) => Canonical(call.seen)
    /\ call.pc \in Inspected /\ call.op \in Inspecting =>
         /\ ~deep => Canonical(call.seen)
         /\ Canonical(call.seen) => call.world = blocks[call.seen.h].world
(* The logs still to be looked at, and the one being looked at, are on the observed block's branch. *)
LogsAreSound ==
  call.pc \in Evidence =>
    /\ call.logs # {}
    /\ \A hd \in call.logs :
         /\ Known(hd) /\ hd.h <= call.seen.h
         /\ Canonical(call.seen) => Canonical(hd) /\ blocks[hd.h].log \in Wanted
    /\ call.pc \in Chosen /\ Canonical(call.seen) => ExactCall(blocks[Candidate.h].log)
    /\ call.pc \in {"again", "final"} /\ call.op = "claimEvidence" /\ Canonical(Candidate) => Candidate.h <= settled
(* What was told lies among the settled blocks. *)
ToldIsSettled ==
  /\ told["claim"] <= settled /\ told["alarm"] <= settled
  /\ ~deep => told["refund"] <= settled
(* What is signed was worth signing, and stays so. *)
SignedIsSound ==
  ~deep =>
    /\ "activate" \in signed => \A k \in 1..Len(blocks) : k >= settled => Ready(k)
    /\ "refund" \in signed => base + settled >= Timelock \/ base + 1 >= Timelock
CallIsSound == CallsFit /\ TipIsSound /\ SeenIsSound /\ LogsAreSound
ReceiverInv ==
  /\ ReceiverTypeOK /\ scene \in Scenes /\ ChainIsSound /\ CallIsSound /\ ToldIsSettled /\ SignedIsSound /\ ReceiverIsSafe

LEMMA DepthFacts ==
  \A n \in Nat : /\ Depth(n) \in Nat /\ Depth(n) <= n
                 /\ \A m \in Nat : m <= n => Depth(m) <= Depth(n)
BY ReceiverAssumption DEF Depth, Max2

(* The worlds and blocks of the model are what they should be. *)
LEMMA ReceiverBounds == MaxBlocks \in Nat /\ MaxBlocks >= 1 /\ MaxForks \in Nat
BY ReceiverAssumption

LEMMA ReceiverTypes ==
  ASSUME ReceiverInv
  PROVE /\ blocks \in Seq(Block) /\ Len(blocks) \in Nat /\ Len(blocks) >= 1
        /\ \A k \in 1..Len(blocks) : blocks[k] \in Block
        /\ tipWorld \in World /\ scene \in SceneType /\ base \in Nat /\ branch \in 0..MaxForks
        /\ settled \in Nat /\ Height \in Nat /\ Height = base + Len(blocks) + 1
        /\ deep \in BOOLEAN
        /\ call \in CallType /\ told \in [Answers -> 0..MaxBlocks]
<1>1. blocks \in Seq(Block) /\ Len(blocks) \in Nat /\ Len(blocks) >= 1
  BY DEF ReceiverInv, ReceiverTypeOK, ChainIsSound
<1>2. \A k \in 1..Len(blocks) : blocks[k] \in Block
  BY <1>1
<1>3. tipWorld \in World
  BY <1>1, <1>2 DEF tipWorld, Block
<1>4. scene \in SceneType /\ base \in Nat
  BY ReceiverAssumption DEF ReceiverInv, SceneType, base
<1>5. branch \in 0..MaxForks /\ settled \in Nat /\ deep \in BOOLEAN /\ call \in CallType /\ told \in [Answers -> 0..MaxBlocks]
  BY ReceiverAssumption DEF ReceiverInv, ReceiverTypeOK
<1> QED BY <1>1, <1>2, <1>3, <1>4, <1>5 DEF Height

(* There is a first log to look at. *)
LEMMA FirstLog ==
  ASSUME call \in CallType, call.logs # {}
  PROVE Candidate \in call.logs
<1>1. call.logs \subseteq Header
  BY DEF CallType
<1> DEFINE heights == {hd.h : hd \in call.logs}
<1>2. heights \subseteq Nat /\ heights # {}
  BY <1>1, ReceiverAssumption DEF Header
<1>3. \E n \in heights : \A m \in heights : n <= m
  BY <1>2, LeastNatural
<1>4. \E hd \in call.logs : \A later \in call.logs : hd.h <= later.h
  BY <1>3
<1> QED BY <1>4 DEF Candidate

LEMMA InitialReceiver == ReceiverInit => ReceiverInv
<1> SUFFICES ASSUME ReceiverInit PROVE ReceiverInv
  OBVIOUS
<1>1. scene \in SceneType /\ scene.world \in World /\ base \in Nat
  BY ReceiverAssumption DEF ReceiverInit, SceneType, base
<1>2. PICK b : b = [branch |-> 0, own |-> "none", ok |-> TRUE, log |-> "none", world |-> scene.world]
  OBVIOUS
<1>3. b \in Block /\ b.branch = 0 /\ b.world = scene.world
  BY <1>1, <1>2, ReceiverAssumption DEF Block, Events
<1>4. blocks = <<b>> /\ Len(blocks) = 1 /\ blocks[1] = b /\ blocks \in Seq(Block)
  BY <1>2, <1>3 DEF ReceiverInit
<1>5. settled \in 0..1 /\ settled = Depth(1) /\ ~deep /\ call = NoBackendCall /\ told = Nothing /\ branch = 0
  BY DepthFacts DEF ReceiverInit
<1>6. ReceiverTypeOK
  <2>1. NoBackendCall \in CallType
    BY ReceiverAssumption DEF NoBackendCall, CallType, Operations, CallSteps, Header, NoHeader, World, Unread, Locks
  <2>2. Nothing \in [Answers -> 0..MaxBlocks]
    BY ReceiverAssumption DEF Nothing
  <2>3. aired \subseteq signed /\ signed \subseteq Own
    BY <1>1 DEF ReceiverInit, SceneType
  <2>4. branch \in 0..MaxForks /\ settled \in 0..MaxBlocks
    BY <1>5, ReceiverAssumption
  <2>5. deep \in BOOLEAN
    BY DEF ReceiverInit
  <2> QED BY <1>4, <1>5, <2>1, <2>2, <2>3, <2>4, <2>5 DEF ReceiverTypeOK
<1>7. ChainIsSound
  BY <1>1, <1>3, <1>4, <1>5, ReceiverAssumption DEF ChainIsSound
<1>8. CallIsSound
  BY <1>5 DEF CallIsSound, CallsFit, TipIsSound, SeenIsSound, LogsAreSound, NoBackendCall, Evidence, Inspected
<1>9. ToldIsSettled
  BY <1>5 DEF ToldIsSettled, Nothing, Answers
<1>10. SignedIsSound
  <2>1. signed = scene.sent /\ scene \in Scenes
    BY DEF ReceiverInit
  <2>2. "activate" \in signed => Ready(1)
    BY <1>1, <1>3, <1>4, <2>1, ReceiverAssumption DEF Ready, base
  <2>3. "refund" \in signed => base + 1 >= Timelock
    BY <1>1, <2>1, ReceiverAssumption DEF base
  <2> QED BY <1>4, <2>2, <2>3 DEF SignedIsSound
<1>11. ReceiverIsSafe
  BY <1>4, <1>5 DEF ReceiverIsSafe, EvidenceHolds, On, ActivationIsGood, RefundIsMature, WindowIsKept, Nothing, Answers
<1>12. scene \in Scenes
  BY DEF ReceiverInit
<1> QED BY <1>6, <1>7, <1>8, <1>9, <1>10, <1>11, <1>12 DEF ReceiverInv

----------------------------------------------------------------------------
(* The chain moves.  What a call knows of it is kept when no block is made   *)
(* twice, what lies under a block that stays does too, and only a deep        *)
(* replacement takes settled blocks.                                          *)
HeadersLast ==
  \A hd \in Header : Known(hd) =>
    /\ Known(hd)'
    /\ Canonical(hd)' =>
         /\ Canonical(hd) /\ blocks'[hd.h] = blocks[hd.h]
         /\ \A x \in Nat : x <= hd.h /\ x <= settled => x <= settled'
         /\ \A under \in Header : Known(under) /\ Canonical(under) /\ under.h <= hd.h => Canonical(under)'
SettledLasts ==
  ~deep' => /\ ~deep /\ settled <= settled'
            /\ \A hd \in Header : Known(hd) /\ Canonical(hd) /\ hd.h <= settled => Canonical(hd)'

LEMMA CallOutlasts ==
  ASSUME ReceiverInv, HeadersLast, SettledLasts, UNCHANGED <<scene, call>>, settled' \in Nat
  PROVE CallIsSound'
<1>1. call \in CallType /\ call' = call /\ settled \in Nat
  BY ReceiverTypes
<1>2. call.tip \in Header /\ call.seen \in Header /\ call.logs \subseteq Header
  BY <1>1 DEF CallType
<1>3. call.tip.h \in Nat /\ call.seen.h \in Nat /\ Depth(call.tip.h) \in Nat /\ Depth(call.tip.h) <= call.tip.h
  BY <1>2, DepthFacts, ReceiverAssumption DEF Header
<1>4. CallIsSound
  BY DEF ReceiverInv
<1>5. CallsFit'
  BY <1>1, <1>4 DEF CallIsSound, CallsFit
<1>6. TipIsSound'
  <2> SUFFICES ASSUME call.pc \notin {"idle", "view"}
               PROVE /\ Known(call.tip)' 
                     /\ ~deep' \/ Canonical(call.tip)' => Depth(call.tip.h)' <= settled'
    BY <1>1 DEF TipIsSound
  <2>1. Known(call.tip) /\ (~deep \/ Canonical(call.tip) => Depth(call.tip.h) <= settled)
    BY <1>4 DEF CallIsSound, TipIsSound
  <2>2. Known(call.tip)' /\ (Canonical(call.tip)' => Canonical(call.tip))
    BY <1>1, <1>2, <2>1 DEF HeadersLast, Known, Canonical
  <2>3. Depth(call.tip.h)' = Depth(call.tip.h)
    BY <1>1 DEF Depth, Max2
  <2>4. Canonical(call.tip)' => Depth(call.tip.h) <= settled'
    BY <1>1, <1>2, <1>3, <2>1, <2>2 DEF HeadersLast, Canonical
  <2>5. ~deep' => Depth(call.tip.h) <= settled'
    BY <1>1, <1>3, <2>1 DEF SettledLasts
  <2> QED BY <2>2, <2>3, <2>4, <2>5
<1>7. SeenIsSound'
  <2> SUFFICES ASSUME call.pc \notin {"idle", "view", "target"}
               PROVE /\ Known(call.seen)' /\ call.seen.h <= Depth(call.tip.h)
                     /\ Canonical(call.tip)' => Canonical(call.seen)'
                     /\ call.pc \in Inspected /\ call.op \in Inspecting =>
                          /\ ~deep' => Canonical(call.seen)'
                          /\ Canonical(call.seen)' => call.world = blocks'[call.seen.h].world
    BY <1>1 DEF SeenIsSound, Depth, Max2, Inspected, Inspecting
  <2>1. /\ Known(call.tip) /\ Known(call.seen) /\ call.seen.h <= Depth(call.tip.h)
        /\ ~deep \/ Canonical(call.tip) => Depth(call.tip.h) <= settled
    BY <1>4 DEF CallIsSound, TipIsSound, SeenIsSound
  <2>2. /\ Canonical(call.tip) => Canonical(call.seen)
        /\ call.pc \in Inspected /\ call.op \in Inspecting =>
             /\ ~deep => Canonical(call.seen)
             /\ Canonical(call.seen) => call.world = blocks[call.seen.h].world
    BY <1>4 DEF CallIsSound, SeenIsSound
  <2>3. /\ Known(call.seen)'
        /\ Canonical(call.seen)' => Canonical(call.seen) /\ blocks'[call.seen.h] = blocks[call.seen.h]
    BY <1>1, <1>2, <2>1 DEF HeadersLast, Known, Canonical
  <2>4. Canonical(call.tip)' => Canonical(call.seen)'
    <3>1. call.seen.h <= call.tip.h
      BY <1>3, <2>1
    <3> QED BY <1>1, <1>2, <2>1, <2>2, <3>1 DEF HeadersLast, Canonical
  <2>5. ASSUME call.pc \in Inspected, call.op \in Inspecting, ~deep' PROVE Canonical(call.seen)'
    <3>1. Canonical(call.seen) /\ call.seen.h <= settled
      BY <1>1, <1>3, <2>1, <2>2, <2>5 DEF SettledLasts
    <3> QED BY <1>1, <1>2, <2>1, <2>5, <3>1 DEF SettledLasts, Canonical
  <2> QED BY <2>1, <2>2, <2>3, <2>4, <2>5
<1>8. LogsAreSound'
  <2> SUFFICES ASSUME call.pc \in Evidence PROVE LogsAreSound'
    BY <1>1 DEF LogsAreSound, Evidence
  <2>1. /\ Known(call.seen) /\ call.logs # {}
        /\ \A hd \in call.logs : /\ Known(hd) /\ hd.h <= call.seen.h
                                 /\ Canonical(call.seen) => Canonical(hd) /\ blocks[hd.h].log \in Wanted
    BY <1>4 DEF CallIsSound, SeenIsSound, LogsAreSound, Evidence
  <2>2. /\ call.pc \in Chosen /\ Canonical(call.seen) => ExactCall(blocks[Candidate.h].log)
        /\ call.pc \in {"again", "final"} /\ call.op = "claimEvidence" /\ Canonical(Candidate) => Candidate.h <= settled
    BY <1>4 DEF CallIsSound, LogsAreSound
  <2>3. Candidate \in call.logs /\ Candidate \in Header /\ Candidate.h \in Nat
    BY <1>1, <1>2, <2>1, FirstLog, ReceiverAssumption DEF Header
  <2>4. Candidate' = Candidate /\ Wanted' = Wanted
    BY <1>1 DEF Candidate, Wanted, ClaimLogs, RefundLogs
  <2>5. Canonical(call.seen)' => Canonical(call.seen) /\ \A hd \in call.logs : Canonical(hd) /\ Canonical(hd)'
    BY <1>1, <1>2, <2>1 DEF HeadersLast, Canonical
  <2>6. \A hd \in call.logs : Known(hd)' /\ (Canonical(hd)' => Canonical(hd) /\ blocks'[hd.h] = blocks[hd.h])
    BY <1>2, <2>1 DEF HeadersLast
  <2>7. Canonical(Candidate)' => Canonical(Candidate) /\ (Candidate.h <= settled => Candidate.h <= settled')
    BY <1>2, <2>1, <2>3, <2>4 DEF HeadersLast, Canonical
  <2>8. \A hd \in call.logs : /\ Known(hd)' /\ hd.h <= call.seen.h
                              /\ Canonical(call.seen)' => Canonical(hd)' /\ blocks'[hd.h].log \in Wanted
    BY <2>1, <2>5, <2>6
  <2>9. call.pc \in Chosen /\ Canonical(call.seen)' => ExactCall(blocks'[Candidate.h].log)
    BY <2>2, <2>3, <2>5, <2>6
  <2>10. call.pc \in {"again", "final"} /\ call.op = "claimEvidence" /\ Canonical(Candidate)' => Candidate.h <= settled'
    BY <2>2, <2>7
  <2> QED BY <1>1, <2>1, <2>4, <2>8, <2>9, <2>10 DEF LogsAreSound, ExactCall, Chosen
<1> QED BY <1>5, <1>6, <1>7, <1>8 DEF CallIsSound

(* A block is added. *)
LEMMA GrowKeeps ==
  ASSUME ReceiverInv, NEW own \in Own \cup {"none"}, NEW ok \in BOOLEAN, NEW log \in Events, NEW w \in World,
         Grow(own, ok, log, w),
         tipWorld.active \/ tipWorld.bal >= Amount => w.active \/ w.bal >= Amount \/ Height >= Cutoff,
         own = "activate" /\ ~ok => deep \/ Height >= Cutoff \/ tipWorld.active \/ tipWorld.lock = "open",
         own = "refund" /\ ~ok => deep \/ tipWorld.lock # "open",
         w.active /\ ~tipWorld.active => Height < Cutoff
  PROVE ReceiverInv'
<1>0. PICK n : n = Len(blocks)
  OBVIOUS
<1>1. PICK b : b = [branch |-> branch, own |-> own, ok |-> ok, log |-> log, world |-> w]
  OBVIOUS
<1>2. /\ b \in Block /\ b.branch = branch /\ b.own = own /\ b.ok = ok /\ b.world = w
  BY <1>1, ReceiverTypes DEF Block
<1>3. /\ n \in Nat /\ n >= 1 /\ n < MaxBlocks
      /\ blocks' = Append(blocks, b)
      /\ UNCHANGED <<scene, branch, deep, signed, aired, call, told>>
      /\ settled' = Max2(settled, Depth(n + 1))
  BY <1>0, <1>1, ReceiverTypes DEF Grow
<1>4. /\ blocks' \in Seq(Block) /\ Len(blocks') = n + 1
      /\ blocks'[n + 1] = b /\ \A k \in 1..n : blocks'[k] = blocks[k]
  BY <1>0, <1>2, <1>3, ReceiverTypes
<1>5. base' = base /\ base \in Nat /\ Height = base + (n + 1) /\ tipWorld = blocks[n].world /\ tipWorld \in World
  <2>1. base' = base
    BY <1>3 DEF base
  <2>2. base \in Nat /\ tipWorld \in World /\ Height = base + Len(blocks) + 1
    BY ReceiverTypes
  <2>4. Height = base + (n + 1)
    BY <1>0, <1>3, <2>2
  <2>3. tipWorld = blocks[n].world
    BY <1>0 DEF tipWorld
  <2> QED BY <2>1, <2>2, <2>3, <2>4
<1>6. /\ settled \in Nat /\ settled' \in Nat /\ settled <= settled' /\ settled' <= n + 1 /\ Depth(n + 1) <= settled'
      /\ Depth(n + 1)' = Depth(n + 1)
  <2>1. Depth(n + 1) \in Nat /\ Depth(n + 1) <= n + 1
    BY <1>3, DepthFacts
  <2>2. settled \in Nat /\ settled <= n
    BY <1>0, ReceiverTypes DEF ReceiverInv, ChainIsSound
  <2> QED BY <1>3, <2>1, <2>2 DEF Max2, Depth
<1>7. HeadersLast
  <2> SUFFICES ASSUME NEW hd \in Header, Known(hd)
               PROVE /\ Known(hd)'
                     /\ Canonical(hd)' =>
                          /\ Canonical(hd) /\ blocks'[hd.h] = blocks[hd.h]
                          /\ \A x \in Nat : x <= hd.h /\ x <= settled => x <= settled'
                          /\ \A under \in Header : Known(under) /\ Canonical(under) /\ under.h <= hd.h => Canonical(under)'
    BY DEF HeadersLast
  <2>1. hd.h \in Nat /\ hd.h >= 1 /\ hd.branch \in Nat
    BY ReceiverAssumption DEF Header, Known
  <2>2. Known(hd)'
    BY <1>0, <1>3, <1>4, <2>1, ReceiverTypes DEF Known
  <2>3. Canonical(hd)' => Canonical(hd) /\ blocks'[hd.h] = blocks[hd.h]
    BY <1>0, <1>2, <1>3, <1>4, <2>1 DEF Known, Canonical
  <2>4. \A x \in Nat : x <= settled => x <= settled'
    BY <1>6
  <2>5. \A under \in Header : Known(under) /\ Canonical(under) => Canonical(under)'
    BY <1>0, <1>3, <1>4, ReceiverAssumption DEF Known, Canonical, Header
  <2> QED BY <2>2, <2>3, <2>4, <2>5
<1>8. SettledLasts
  <2>1. \A hd \in Header : Known(hd) /\ Canonical(hd) => Canonical(hd)'
    BY <1>0, <1>3, <1>4, ReceiverAssumption DEF Known, Canonical, Header
  <2> QED BY <1>3, <1>6, <2>1 DEF SettledLasts
<1>9. CallIsSound'
  BY <1>3, <1>6, <1>7, <1>8, CallOutlasts
<1>10. ReceiverTypeOK'
  <2>1. settled' \in 0..MaxBlocks
    BY <1>3, <1>6, ReceiverAssumption
  <2> QED BY <1>3, <1>4, <2>1 DEF ReceiverInv, ReceiverTypeOK, CallType, Block, World, Header
<1>11. Ready(n) => Ready(n + 1)'
  <2>1. b.world = w /\ w.bal \in Nat /\ tipWorld.bal \in Nat
    BY <1>2, <1>5 DEF World
  <2>2. blocks'[n + 1].world = w /\ blocks[n].world = tipWorld
    BY <1>2, <1>4, <1>5
  <2>3. CASE tipWorld.active \/ tipWorld.bal >= Amount
    BY <1>5, <2>2, <2>3 DEF Ready
  <2>4. CASE base + n >= Cutoff
    BY <1>3, <1>5, <2>4, ReceiverAssumption DEF Ready
  <2> QED BY <2>2, <2>3, <2>4 DEF Ready
<1>12. \A k \in 1..n : Ready(k)' <=> Ready(k)
  BY <1>4, <1>5 DEF Ready
<1>13. ChainIsSound'
  <2>1. \A k \in 1..Len(blocks') : blocks'[k].branch <= branch'
    BY <1>0, <1>2, <1>3, <1>4, ReceiverTypes DEF ReceiverInv, ChainIsSound
  <2>2. \A i, j \in 1..n : i <= j /\ Ready(i) => Ready(j)
    BY <1>0 DEF ReceiverInv, ChainIsSound
  <2>3. ASSUME NEW i \in 1..(n + 1), NEW j \in 1..(n + 1), i <= j, Ready(i)' PROVE Ready(j)'
    <3>1. CASE j <= n
      BY <1>3, <1>12, <2>2, <2>3, <3>1
    <3>2. CASE i <= n /\ j = n + 1
      <4>1. Ready(n)
        BY <1>3, <1>12, <2>2, <2>3, <3>2
      <4> QED BY <1>11, <3>2, <4>1
    <3>3. CASE i = n + 1
      BY <1>3, <2>3, <3>3
    <3> QED BY <1>3, <3>1, <3>2, <3>3
  <2> QED BY <1>3, <1>4, <1>6, <2>1, <2>3, ReceiverAssumption DEF ChainIsSound
<1>14. ToldIsSettled'
  <2>1. told \in [Answers -> Nat]
    BY ReceiverTypes, ReceiverAssumption
  <2>2. told["claim"] \in Nat /\ told["alarm"] \in Nat /\ told["refund"] \in Nat
    BY <2>1 DEF Answers
  <2> QED BY <1>3, <1>6, <2>2 DEF ReceiverInv, ToldIsSettled
<1>15. SignedIsSound'
  <2> SUFFICES ASSUME ~deep
               PROVE /\ "activate" \in signed => \A k \in 1..(n + 1) : k >= settled' => Ready(k)'
                     /\ "refund" \in signed => base + settled' >= Timelock \/ base + 1 >= Timelock
    BY <1>3, <1>4, <1>5 DEF SignedIsSound
  <2>1. ASSUME "activate" \in signed, NEW k \in 1..(n + 1), k >= settled' PROVE Ready(k)'
    <3>1. \A j \in 1..n : j >= settled => Ready(j)
      BY <1>0, <2>1 DEF ReceiverInv, SignedIsSound
    <3>2. settled <= n
      BY <1>0 DEF ReceiverInv, ChainIsSound
    <3>3. CASE k <= n
      BY <1>6, <1>12, <2>1, <3>1, <3>3
    <3>4. CASE k = n + 1
      BY <1>3, <1>11, <3>1, <3>2, <3>4
    <3> QED BY <1>3, <3>3, <3>4
  <2>2. "refund" \in signed => base + settled' >= Timelock \/ base + 1 >= Timelock
    BY <1>5, <1>6, ReceiverAssumption DEF ReceiverInv, SignedIsSound
  <2> QED BY <2>1, <2>2
<1>16. ReceiverIsSafe'
  <2>1. ReceiverIsSafe /\ ToldIsSettled /\ settled <= n
    BY <1>0 DEF ReceiverInv, ChainIsSound
  <2>2. told \in [Answers -> Nat]
    BY ReceiverTypes, ReceiverAssumption
  <2>3. told["claim"] \in Nat /\ told["alarm"] \in Nat /\ told["refund"] \in Nat
    BY <2>2 DEF Answers
  <2>4. EvidenceHolds'
    BY <1>0, <1>3, <1>4, <2>1, <2>3 DEF ReceiverIsSafe, EvidenceHolds, On, InvalidExactLock
  <2>5. ActivationIsGood'
    <3> SUFFICES ASSUME NEW k \in 2..(n + 1), blocks'[k].own = "activate", ~blocks'[k].ok
                 PROVE deep \/ base + k >= Cutoff \/ blocks'[k - 1].world.active \/ blocks'[k - 1].world.lock = "open"
      BY <1>3, <1>4, <1>5 DEF ActivationIsGood
    <3>1. CASE k <= n
      BY <1>0, <1>3, <1>4, <2>1, <3>1 DEF ReceiverIsSafe, ActivationIsGood
    <3>2. CASE k = n + 1
      <4>1. k - 1 = n /\ n \in 1..n
        BY <1>3, <3>2
      <4>2. blocks'[k - 1] = blocks[n] /\ blocks'[k] = b
        BY <1>4, <3>2, <4>1
      <4>3. own = "activate" /\ ~ok
        BY <1>2, <4>2
      <4>4. base + k = Height
        BY <1>5, <3>2
      <4> QED BY <1>5, <4>2, <4>3, <4>4
    <3>3. k <= n \/ k = n + 1
      BY <1>3
    <3> QED BY <3>1, <3>2, <3>3
  <2>6. RefundIsMature'
    <3> SUFFICES ASSUME NEW k \in 2..(n + 1), blocks'[k].own = "refund", ~blocks'[k].ok
                 PROVE deep \/ blocks'[k - 1].world.lock # "open"
      BY <1>3, <1>4 DEF RefundIsMature
    <3>1. CASE k <= n
      BY <1>0, <1>3, <1>4, <2>1, <3>1 DEF ReceiverIsSafe, RefundIsMature
    <3>2. CASE k = n + 1
      BY <1>2, <1>3, <1>4, <1>5, <3>2
    <3>3. k <= n \/ k = n + 1
      BY <1>3
    <3> QED BY <3>1, <3>2, <3>3
  <2>7. WindowIsKept'
    <3> SUFFICES ASSUME NEW k \in 2..(n + 1), blocks'[k].world.active, ~blocks'[k - 1].world.active
                 PROVE base + k < Cutoff
      BY <1>3, <1>4, <1>5 DEF WindowIsKept
    <3>1. CASE k <= n
      BY <1>0, <1>3, <1>4, <2>1, <3>1 DEF ReceiverIsSafe, WindowIsKept
    <3>2. CASE k = n + 1
      BY <1>2, <1>3, <1>4, <1>5, <3>2
    <3>3. k <= n \/ k = n + 1
      BY <1>3
    <3> QED BY <3>1, <3>2, <3>3
  <2> QED BY <2>4, <2>5, <2>6, <2>7 DEF ReceiverIsSafe
<1>17. scene' \in Scenes
  BY <1>3 DEF ReceiverInv
<1> QED BY <1>9, <1>10, <1>13, <1>14, <1>15, <1>16, <1>17 DEF ReceiverInv

(* The blocks above the n-th are replaced. *)
LEMMA ForkKeeps ==
  ASSUME ReceiverInv, NEW n \in 1..MaxBlocks, Fork(n)
  PROVE ReceiverInv'
<1>1. /\ n \in Nat /\ n >= 1 /\ n < Len(blocks) /\ Len(blocks) \in Nat /\ branch \in Nat /\ settled \in Nat
      /\ blocks' = SubSeq(blocks, 1, n) /\ branch' = branch + 1 /\ branch < MaxForks
      /\ UNCHANGED <<scene, signed, aired, call>>
  BY ReceiverTypes, ReceiverAssumption DEF Fork
<1>2. /\ blocks' \in Seq(Block) /\ Len(blocks') = n /\ \A k \in 1..n : blocks'[k] = blocks[k]
  BY <1>1, ReceiverTypes
<1>3. base' = base /\ base \in Nat
  BY <1>1, ReceiverTypes DEF base
<1>4. /\ settled' \in Nat /\ settled' <= n /\ settled' <= settled
      /\ n < settled => settled' = n
      /\ n >= settled => settled' = settled
  BY <1>1 DEF Fork
<1>5. deep' \in BOOLEAN /\ (deep' <=> deep \/ n < settled)
  BY DEF Fork
<1>6. ~deep' => ~deep /\ n >= settled /\ settled' = settled
  <2>1. n < settled \/ n >= settled
    BY <1>1
  <2>2. n >= settled => settled' = settled
    BY <1>4
  <2> QED BY <1>5, <2>1, <2>2
<1>7. HeadersLast
  <2> SUFFICES ASSUME NEW hd \in Header, Known(hd)
               PROVE /\ Known(hd)'
                     /\ Canonical(hd)' =>
                          /\ Canonical(hd) /\ blocks'[hd.h] = blocks[hd.h]
                          /\ \A x \in Nat : x <= hd.h /\ x <= settled => x <= settled'
                          /\ \A under \in Header : Known(under) /\ Canonical(under) /\ under.h <= hd.h => Canonical(under)'
    BY DEF HeadersLast
  <2>1. hd.h \in Nat /\ hd.h >= 1 /\ hd.branch \in Nat
    BY ReceiverAssumption DEF Header, Known
  <2>2. Known(hd)'
    BY <1>1, <2>1 DEF Known
  <2>3. Canonical(hd)' => hd.h <= n /\ Canonical(hd) /\ blocks'[hd.h] = blocks[hd.h]
    BY <1>1, <1>2, <2>1 DEF Canonical
  <2>4. hd.h <= n => \A x \in Nat : x <= hd.h /\ x <= settled => x <= settled'
    BY <1>1, <1>4, <2>1
  <2>5. hd.h <= n => \A under \in Header : Known(under) /\ Canonical(under) /\ under.h <= hd.h => Canonical(under)'
    BY <1>1, <1>2, <2>1, ReceiverAssumption DEF Known, Canonical, Header
  <2> QED BY <2>2, <2>3, <2>4, <2>5
<1>8. SettledLasts
  <2>1. n >= settled => \A hd \in Header : Known(hd) /\ Canonical(hd) /\ hd.h <= settled => Canonical(hd)'
    <3> SUFFICES ASSUME n >= settled, NEW hd \in Header, Known(hd), Canonical(hd), hd.h <= settled PROVE Canonical(hd)'
      OBVIOUS
    <3>1. hd.h \in Nat /\ hd.h >= 1
      BY ReceiverBounds DEF Header, Known
    <3>2. hd.h \in 1..n
      BY <1>1, <3>1
    <3>3. blocks'[hd.h] = blocks[hd.h]
      BY <1>2, <3>2
    <3> QED BY <1>2, <3>2, <3>3 DEF Canonical
  <2>2. settled' = settled => settled <= settled'
    BY <1>1
  <2> QED BY <1>6, <2>1, <2>2 DEF SettledLasts
<1>9. CallIsSound'
  BY <1>1, <1>4, <1>7, <1>8, CallOutlasts
<1>10. /\ told \in [Answers -> 0..MaxBlocks] /\ told' \in [Answers -> 0..MaxBlocks]
       /\ \A a \in Answers : /\ told[a] \in Nat /\ told'[a] \in Nat
                             /\ told'[a] = told[a] \/ told'[a] = 0
                             /\ n < settled => told'[a] <= n
                             /\ n >= settled => told'[a] = told[a]
  <2>1. told \in [Answers -> 0..MaxBlocks] /\ \A a \in Answers : told[a] \in Nat
    BY ReceiverTypes, ReceiverAssumption
  <2>2. CASE n < settled
    <3>1. told' = [a \in Answers |-> IF told[a] > n THEN 0 ELSE told[a]]
      BY <2>2 DEF Fork
    <3>2. \A a \in Answers : told'[a] = IF told[a] > n THEN 0 ELSE told[a]
      BY <3>1
    <3>3. told' \in [Answers -> 0..MaxBlocks]
      BY <2>1, <3>1, ReceiverAssumption
    <3> QED BY <1>1, <2>1, <2>2, <3>2, <3>3
  <2>3. CASE n >= settled
    <3>1. told' = told
      BY <1>1, <2>3 DEF Fork
    <3> QED BY <1>1, <2>1, <2>3, <3>1
  <2> QED BY <1>1, <2>2, <2>3
<1>11. ReceiverTypeOK'
  <2>1. settled' \in 0..MaxBlocks /\ branch' \in 0..MaxForks
    BY <1>1, <1>4, ReceiverAssumption
  <2>2. aired' \subseteq signed' /\ signed' \subseteq Own /\ call' \in CallType
    BY <1>1 DEF ReceiverInv, ReceiverTypeOK
  <2> QED BY <1>2, <1>5, <1>10, <2>1, <2>2 DEF ReceiverTypeOK
<1>12. \A k \in 1..n : Ready(k)' <=> Ready(k)
  BY <1>2, <1>3 DEF Ready
<1>13. ChainIsSound'
  <2>1. \A k \in 1..n : blocks'[k].branch <= branch'
    <3>1. \A k \in 1..n : blocks[k].branch <= branch /\ blocks[k].branch \in Nat
      <4> SUFFICES ASSUME NEW k \in 1..n PROVE blocks[k].branch <= branch /\ blocks[k].branch \in Nat
        OBVIOUS
      <4>1. k \in 1..Len(blocks)
        BY <1>1
      <4>2. blocks[k].branch <= branch
        BY <4>1 DEF ReceiverInv, ChainIsSound
      <4>3. blocks[k] \in Block
        BY <4>1, ReceiverTypes
      <4> QED BY <4>2, <4>3, ReceiverBounds DEF Block
    <3>2. branch' = branch + 1 /\ branch \in Nat /\ \A k \in 1..n : blocks'[k].branch = blocks[k].branch
      BY <1>1, <1>2
    <3>3. \A x \in Nat : x <= branch => x <= branch'
      BY <3>2
    <3> QED BY <3>1, <3>2, <3>3
  <2>2. \A i, j \in 1..n : i <= j /\ Ready(i) => Ready(j)
    BY <1>1 DEF ReceiverInv, ChainIsSound
  <2>3. Depth(n) <= settled'
    <3>1. Depth(n) \in Nat /\ Depth(n) <= n /\ Depth(n) <= Depth(Len(blocks))
      BY <1>1, DepthFacts
    <3>2. Depth(Len(blocks)) <= settled /\ Depth(Len(blocks)) \in Nat
      BY <1>1, DepthFacts DEF ReceiverInv, ChainIsSound
    <3> QED BY <1>1, <1>4, <3>1, <3>2
  <2>4. \A i, j \in 1..n : i <= j /\ Ready(i)' => Ready(j)'
    BY <1>12, <2>2
  <2>5. Depth(Len(blocks))' = Depth(n)
    BY <1>2 DEF Depth, Max2
  <2> QED BY <1>1, <1>2, <1>4, <2>1, <2>3, <2>4, <2>5 DEF ChainIsSound
<1>14. ToldIsSettled'
  <2>1. \A a \in {"claim", "alarm"} : told'[a] <= settled'
    <3> SUFFICES ASSUME NEW a \in {"claim", "alarm"} PROVE told'[a] <= settled'
      OBVIOUS
    <3>1. told[a] <= settled /\ a \in Answers
      BY DEF ReceiverInv, ToldIsSettled, Answers
    <3> QED BY <1>1, <1>4, <1>10, <3>1
  <2>2. n >= settled /\ told["refund"] <= settled => told'["refund"] <= settled'
    BY <1>1, <1>4, <1>10 DEF Answers
  <2>3. ~deep => told["refund"] <= settled
    BY DEF ReceiverInv, ToldIsSettled
  <2> QED BY <1>6, <2>1, <2>2, <2>3 DEF ToldIsSettled
<1>15. SignedIsSound'
  <2>1. ~deep /\ "activate" \in signed => \A k \in 1..n : k >= settled => Ready(k)
    BY <1>1 DEF ReceiverInv, SignedIsSound
  <2>2. ~deep /\ "refund" \in signed => base + settled >= Timelock \/ base + 1 >= Timelock
    BY DEF ReceiverInv, SignedIsSound
  <2>3. ASSUME ~deep' PROVE /\ "activate" \in signed' => \A k \in 1..Len(blocks') : k >= settled' => Ready(k)'
                            /\ "refund" \in signed' => base' + settled' >= Timelock \/ base' + 1 >= Timelock
    BY <1>1, <1>2, <1>3, <1>6, <1>12, <2>1, <2>2, <2>3
  <2> QED BY <2>3 DEF SignedIsSound
<1>16. ReceiverIsSafe'
  <2>1. EvidenceHolds /\ ActivationIsGood /\ RefundIsMature /\ WindowIsKept /\ ToldIsSettled
    BY DEF ReceiverInv, ReceiverIsSafe
  <2>2. \A a \in {"claim", "alarm"} : told'[a] <= n /\ (told'[a] = told[a] \/ told'[a] = 0)
    <3> SUFFICES ASSUME NEW a \in {"claim", "alarm"} PROVE told'[a] <= n /\ (told'[a] = told[a] \/ told'[a] = 0)
      OBVIOUS
    <3>1. told[a] <= settled /\ a \in Answers
      BY <2>1 DEF ToldIsSettled, Answers
    <3> QED BY <1>1, <1>10, <3>1
  <2>3. told["claim"] \in Nat /\ told["alarm"] \in Nat /\ told["refund"] \in Nat
    BY <1>10 DEF Answers
  <2>4. On(told["claim"], {"claim", "nested"})'
    BY <1>1, <1>2, <2>1, <2>2, <2>3 DEF EvidenceHolds, On
  <2>5. told'["alarm"] > 0 => told'["alarm"] <= Len(blocks') /\ InvalidExactLock(blocks'[told'["alarm"]].world)
    BY <1>1, <1>2, <2>1, <2>2, <2>3 DEF EvidenceHolds, InvalidExactLock
  <2>6. ~deep' => On(told["refund"], {"refunded"})'
    <3>1. ~deep => told["refund"] <= settled /\ On(told["refund"], {"refunded"})
      BY <2>1 DEF ToldIsSettled, EvidenceHolds
    <3>2. n >= settled => told'["refund"] = told["refund"]
      BY <1>10 DEF Answers
    <3>3. n >= settled /\ told["refund"] <= settled /\ On(told["refund"], {"refunded"}) => On(told["refund"], {"refunded"})'
      BY <1>1, <1>2, <2>3, <3>2 DEF On
    <3> QED BY <1>6, <3>1, <3>3
  <2>7. EvidenceHolds'
    BY <1>5, <2>4, <2>5, <2>6 DEF EvidenceHolds, InvalidExactLock
  <2>8. ActivationIsGood'
    <3>1. ASSUME NEW k \in 2..n, blocks[k].own = "activate", ~blocks[k].ok
          PROVE deep \/ base + k >= Cutoff \/ blocks[k - 1].world.active \/ blocks[k - 1].world.lock = "open"
      BY <1>1, <2>1, <3>1 DEF ActivationIsGood
    <3>2. deep => deep'
      BY <1>5
    <3>3. \A k \in 2..n : blocks'[k] = blocks[k] /\ blocks'[k - 1] = blocks[k - 1]
      BY <1>1, <1>2
    <3> QED BY <1>2, <1>3, <3>1, <3>2, <3>3 DEF ActivationIsGood
  <2>9. RefundIsMature'
    <3>1. ASSUME NEW k \in 2..n, blocks[k].own = "refund", ~blocks[k].ok
          PROVE deep \/ blocks[k - 1].world.lock # "open"
      BY <1>1, <2>1, <3>1 DEF RefundIsMature
    <3>2. deep => deep'
      BY <1>5
    <3>3. \A k \in 2..n : blocks'[k] = blocks[k] /\ blocks'[k - 1] = blocks[k - 1]
      BY <1>1, <1>2
    <3> QED BY <1>2, <3>1, <3>2, <3>3 DEF RefundIsMature
  <2>10. WindowIsKept'
    <3>3. \A k \in 2..n : blocks'[k] = blocks[k] /\ blocks'[k - 1] = blocks[k - 1]
      BY <1>1, <1>2
    <3> QED BY <1>1, <1>2, <1>3, <2>1, <3>3 DEF WindowIsKept
  <2> QED BY <2>7, <2>8, <2>9, <2>10 DEF ReceiverIsSafe
<1>17. scene' \in Scenes
  BY <1>1 DEF ReceiverInv
<1> QED BY <1>9, <1>11, <1>13, <1>14, <1>15, <1>16, <1>17 DEF ReceiverInv

(* What the contracts do to the receiver. *)
LEMMA ContractsKeep ==
  ASSUME NEW w \in World, NEW n \in Nat
  PROVE /\ w.bal \in 0..MaxDelivered /\ w.active \in BOOLEAN
        /\ MayActivate(w, n) => activate(w) \in World /\ activate(w).active /\ n < Cutoff
        /\ recover(w, n) \in World /\ recover(w, n).active = w.active
        /\ w.active \/ w.bal >= Amount => recover(w, n).active \/ recover(w, n).bal >= Amount \/ n >= Cutoff
        /\ \A l \in Locks : /\ [w EXCEPT !.lock = l] \in World
                            /\ [w EXCEPT !.lock = l].active = w.active /\ [w EXCEPT !.lock = l].bal = w.bal
<1>1. w.bal \in 0..MaxDelivered /\ w.active \in BOOLEAN /\ w.lock \in Locks /\ Amount \in Nat /\ Cutoff \in Nat /\ MaxDelivered \in Nat
  BY ReceiverAssumption DEF World
<1>2. MayActivate(w, n) => activate(w) \in World /\ activate(w).active /\ n < Cutoff
  BY <1>1 DEF MayActivate, activate, World, Locks
<1>3. Recoverable(w, n) \in 0..w.bal
  BY <1>1 DEF Recoverable, Max2
<1>4. PICK r : r = recover(w, n)
  OBVIOUS
<1>5. r \in World /\ r.active = w.active /\ r.bal = w.bal - Recoverable(w, n)
  BY <1>1, <1>3, <1>4 DEF recover, World
<1>6. w.active => r.active
  BY <1>5
<1>7. ~w.active /\ w.bal >= Amount => r.bal >= Amount \/ n >= Cutoff
  BY <1>1, <1>5 DEF Recoverable, Max2
<1>8. \A l \in Locks : /\ [w EXCEPT !.lock = l] \in World
                       /\ [w EXCEPT !.lock = l].active = w.active /\ [w EXCEPT !.lock = l].bal = w.bal
  BY DEF World
<1> QED BY <1>1, <1>2, <1>4, <1>5, <1>6, <1>7, <1>8

(* A block that leaves the receiver's balance and activation alone. *)
LEMMA QuietBlock ==
  ASSUME ReceiverInv, NEW log \in Events, NEW w \in World, w.active = tipWorld.active, w.bal >= tipWorld.bal,
         Grow("none", TRUE, log, w)
  PROVE ReceiverInv'
<1>1. w.bal \in Nat /\ tipWorld.bal \in Nat /\ Amount \in Nat /\ Height \in Nat
  BY ReceiverTypes, ReceiverAssumption DEF World
<1>2. tipWorld.bal >= Amount => w.bal >= Amount
  BY <1>1
<1>3. tipWorld.active \/ tipWorld.bal >= Amount => w.active \/ w.bal >= Amount \/ Height >= Cutoff
  BY <1>2
<1>4. ~(w.active /\ ~tipWorld.active)
  OBVIOUS
<1>5. "none" \in Own \cup {"none"} /\ TRUE \in BOOLEAN /\ "none" # "activate" /\ "none" # "refund"
  BY DEF Own
<1> QED BY <1>3, <1>4, <1>5, GrowKeeps

(* The solver's own transaction is executed, or reverts. *)
LEMMA MineOwnKeeps ==
  ASSUME ReceiverInv, NEW t \in Own, MineOwn(t)
  PROVE ReceiverInv'
<1>1. tipWorld \in World /\ Height \in Nat /\ base \in Nat /\ settled \in Nat /\ Len(blocks) \in Nat /\ Height = base + Len(blocks) + 1
  BY ReceiverTypes
<1>2. t \in signed
  BY DEF MineOwn, ReceiverInv, ReceiverTypeOK
<1>3. PICK ok : ok = Succeeds(t, tipWorld, Height)
  OBVIOUS
<1>4. PICK log, w : /\ log = IF t = "refund" /\ ok THEN "refunded" ELSE "none"
                    /\ w = IF ok THEN Effect(t, tipWorld, Height) ELSE tipWorld
  OBVIOUS
<1>5. Grow(t, ok, log, w)
  BY <1>3, <1>4 DEF MineOwn
<1>6. log \in Events
  BY <1>4 DEF Events
<1>7. ok \in BOOLEAN
  <2>1. CASE t = "activate"
    BY <1>3, <2>1, Zenon DEF Succeeds, MayActivate
  <2>2. CASE t = "recover"
    BY <1>3, <2>2 DEF Succeeds
  <2>3. CASE t = "refund"
    BY <1>3, <2>3, Zenon DEF Succeeds, MayRefund
  <2> QED BY <2>1, <2>2, <2>3 DEF Own
<1>8. CASE ~ok
  <2>1. w = tipWorld
    BY <1>4, <1>8
  <2>2. t = "activate" => deep \/ Height >= Cutoff \/ tipWorld.active \/ tipWorld.lock = "open"
    <3> SUFFICES ASSUME t = "activate", ~deep PROVE Height >= Cutoff \/ tipWorld.active \/ tipWorld.lock = "open"
      BY ReceiverTypes
    <3>1. settled <= Len(blocks) /\ Len(blocks) >= 1
      BY DEF ReceiverInv, ChainIsSound
    <3>2. Ready(Len(blocks))
      BY <1>1, <1>2, <3>1 DEF ReceiverInv, SignedIsSound
    <3>3. ~MayActivate(tipWorld, Height)
      BY <1>3, <1>8 DEF Succeeds
    <3>4. tipWorld.active \/ tipWorld.bal >= Amount \/ base + Len(blocks) >= Cutoff
      BY <3>2 DEF Ready, tipWorld
    <3>5. base + Len(blocks) >= Cutoff => Height >= Cutoff
      BY <1>1, ReceiverAssumption
    <3>6. ~(Height < Cutoff) => Height >= Cutoff
      BY <1>1, ReceiverAssumption
    <3> QED BY <3>3, <3>4, <3>5, <3>6 DEF MayActivate
  <2>3. t = "refund" => deep \/ tipWorld.lock # "open"
    <3> SUFFICES ASSUME t = "refund", ~deep PROVE tipWorld.lock # "open"
      BY ReceiverTypes
    <3>1. settled <= Len(blocks) /\ Len(blocks) >= 1
      BY DEF ReceiverInv, ChainIsSound
    <3>2. base + settled >= Timelock \/ base + 1 >= Timelock
      BY <1>2 DEF ReceiverInv, SignedIsSound
    <3>3. Height >= Timelock
      BY <1>1, <3>1, <3>2, ReceiverAssumption
    <3>4. ~MayRefund(tipWorld, Height)
      BY <1>3, <1>8 DEF Succeeds
    <3> QED BY <3>3, <3>4 DEF MayRefund
  <2>4. w \in World /\ t \in Own \cup {"none"}
    BY <1>1, <2>1
  <2> QED BY <1>5, <1>6, <1>7, <2>1, <2>2, <2>3, <2>4, GrowKeeps
<1>9. CASE ok
  <2>1. w = Effect(t, tipWorld, Height)
    BY <1>4, <1>9
  <2>2. /\ w \in World
        /\ tipWorld.active \/ tipWorld.bal >= Amount => w.active \/ w.bal >= Amount \/ Height >= Cutoff
        /\ w.active /\ ~tipWorld.active => Height < Cutoff
    <3>1. CASE t = "activate"
      <4>1. MayActivate(tipWorld, Height) /\ w = activate(tipWorld)
        BY <1>3, <1>9, <2>1, <3>1 DEF Succeeds, Effect
      <4> QED BY <1>1, <4>1, ContractsKeep
    <3>2. CASE t = "recover"
      <4>1. w = recover(tipWorld, Height)
        BY <2>1, <3>2 DEF Effect
      <4> QED BY <1>1, <4>1, ContractsKeep
    <3>3. CASE t = "refund"
      <4>1. w = [tipWorld EXCEPT !.lock = "refunded"] /\ "refunded" \in Locks
        BY <2>1, <3>3 DEF Effect, Locks
      <4> QED BY <1>1, <4>1, ContractsKeep
    <3> QED BY <3>1, <3>2, <3>3 DEF Own
  <2>3. t \in Own \cup {"none"}
    OBVIOUS
  <2> QED BY <1>5, <1>6, <1>7, <1>9, <2>2, <2>3, GrowKeeps
<1> QED BY <1>7, <1>8, <1>9

(* Whatever the chain does. *)
LEMMA ChainKeeps == ASSUME ReceiverInv, Chain PROVE ReceiverInv'
<1>1. tipWorld \in World /\ Height \in Nat /\ tipWorld.bal \in Nat /\ tipWorld.bal >= tipWorld.bal
  BY ReceiverTypes, ReceiverAssumption DEF World
<1>2. {"claim", "nested", "twin", "refunded", "nestedRefund", "none"} \subseteq Events /\ {"open", "claimed", "refunded"} \subseteq Locks
  BY DEF Events, Locks
<1>3. ASSUME NEW t \in Own, MineOwn(t) PROVE ReceiverInv'
  BY <1>3, MineOwnKeeps
<1>4. CASE Empty
  BY <1>1, <1>2, <1>4, QuietBlock DEF Empty
<1>5. CASE Deliver
  <2>1. PICK w : w = [tipWorld EXCEPT !.bal = tipWorld.bal + 1]
    OBVIOUS
  <2>2. Grow("none", TRUE, "none", w) /\ tipWorld.bal < MaxDelivered
    BY <1>5, <2>1 DEF Deliver
  <2>3. w \in World /\ w.active = tipWorld.active /\ w.bal >= tipWorld.bal
    BY <1>1, <2>1, <2>2, ReceiverAssumption DEF World
  <2> QED BY <1>2, <2>2, <2>3, QuietBlock
<1>6. CASE StrangerActivates
  <2>1. PICK w : w = activate(tipWorld)
    OBVIOUS
  <2>2. Grow("none", TRUE, "none", w) /\ MayActivate(tipWorld, Height)
    BY <1>6, <2>1 DEF StrangerActivates
  <2>3. w \in World /\ w.active /\ Height < Cutoff
    BY <1>1, <2>1, <2>2, ContractsKeep
  <2>4. "none" \in Own \cup {"none"} /\ TRUE \in BOOLEAN /\ "none" # "activate" /\ "none" # "refund"
    BY DEF Own
  <2> QED BY <1>2, <2>2, <2>3, <2>4, GrowKeeps
<1>7. CASE StrangerRecovers
  <2>1. PICK w : w = recover(tipWorld, Height)
    OBVIOUS
  <2>2. Grow("none", TRUE, "none", w)
    BY <1>7, <2>1 DEF StrangerRecovers
  <2>3. /\ w \in World /\ w.active = tipWorld.active
        /\ tipWorld.active \/ tipWorld.bal >= Amount => w.active \/ w.bal >= Amount \/ Height >= Cutoff
    BY <1>1, <2>1, ContractsKeep
  <2>4. "none" \in Own \cup {"none"} /\ TRUE \in BOOLEAN /\ "none" # "activate" /\ "none" # "refund"
    BY DEF Own
  <2> QED BY <1>2, <2>2, <2>3, <2>4, GrowKeeps
<1>8. ASSUME NEW l \in Locks, NEW log \in Events, Grow("none", TRUE, log, [tipWorld EXCEPT !.lock = l]) PROVE ReceiverInv'
  <2>1. PICK w : w = [tipWorld EXCEPT !.lock = l]
    OBVIOUS
  <2>2. w \in World /\ w.active = tipWorld.active /\ w.bal >= tipWorld.bal
    BY <1>1, <2>1, ContractsKeep
  <2> QED BY <1>8, <2>1, <2>2, QuietBlock
<1>9. CASE StrangerLocks
  BY <1>2, <1>8, <1>9 DEF StrangerLocks
<1>10. ASSUME NEW log \in {"claim", "nested"}, ClientClaims(log) PROVE ReceiverInv'
  BY <1>2, <1>8, <1>10 DEF ClientClaims
<1>11. CASE TwinClaimed
  BY <1>1, <1>2, <1>11, QuietBlock DEF TwinClaimed
<1>12. ASSUME NEW log \in RefundLogs, StrangerRefunds(log) PROVE ReceiverInv'
  BY <1>2, <1>8, <1>12 DEF StrangerRefunds, RefundLogs
<1>13. ASSUME NEW n \in 1..MaxBlocks, Fork(n) PROVE ReceiverInv'
  BY <1>13, ForkKeeps
<1> QED BY <1>3, <1>4, <1>5, <1>6, <1>7, <1>9, <1>10, <1>11, <1>12, <1>13 DEF Chain

----------------------------------------------------------------------------
(* The backend.  A step of a call leaves the chain alone. *)
LEMMA CallStep ==
  ASSUME ReceiverInv, UNCHANGED chainState, call' \in CallType, CallIsSound',
         aired' \subseteq signed', signed' \subseteq Own, SignedIsSound',
         told' \in [Answers -> 0..MaxBlocks], ToldIsSettled', EvidenceHolds'
  PROVE ReceiverInv'
<1>1. UNCHANGED <<scene, blocks, branch, settled, deep>>
  BY DEF chainState
<1>2. ReceiverTypeOK' /\ scene' \in Scenes
  BY <1>1 DEF ReceiverInv, ReceiverTypeOK
<1>3. ChainIsSound'
  BY <1>1 DEF ReceiverInv, ChainIsSound, Ready, base, Depth, Max2
<1>4. ActivationIsGood' /\ RefundIsMature' /\ WindowIsKept'
  BY <1>1 DEF ReceiverInv, ReceiverIsSafe, ActivationIsGood, RefundIsMature, WindowIsKept, base
<1> QED BY <1>2, <1>3, <1>4 DEF ReceiverInv, ReceiverIsSafe

LEMMA SilentStep ==
  ASSUME ReceiverInv, UNCHANGED chainState, UNCHANGED told, call' \in CallType, CallIsSound',
         aired' \subseteq signed', signed' \subseteq Own, SignedIsSound'
  PROVE ReceiverInv'
<1>1. UNCHANGED <<scene, blocks, branch, settled, deep>>
  BY DEF chainState
<1>2. told' \in [Answers -> 0..MaxBlocks] /\ ToldIsSettled' /\ EvidenceHolds'
  BY <1>1 DEF ReceiverInv, ReceiverTypeOK, ToldIsSettled, ReceiverIsSafe, EvidenceHolds, On, InvalidExactLock
<1> QED BY <1>2, CallStep

LEMMA ReadingStep ==
  ASSUME ReceiverInv, UNCHANGED tellers, call' \in CallType, CallIsSound'
  PROVE ReceiverInv'
<1>1. UNCHANGED chainState /\ UNCHANGED <<signed, aired, told>>
  BY DEF tellers
<1>2. aired' \subseteq signed' /\ signed' \subseteq Own
  BY <1>1 DEF ReceiverInv, ReceiverTypeOK
<1>3. SignedIsSound'
  BY <1>1 DEF ReceiverInv, SignedIsSound, chainState, Ready, base
<1> QED BY <1>1, <1>2, <1>3, SilentStep

LEMMA NoCallFits == NoBackendCall \in CallType
BY ReceiverAssumption DEF NoBackendCall, CallType, Operations, CallSteps, Header, NoHeader, World, Unread, Locks

LEMMA EndedCall == ASSUME EndCall PROVE call' \in CallType /\ CallIsSound'
<1>2. call' = NoBackendCall /\ call'.pc = "idle"
  BY DEF EndCall, NoBackendCall
<1> QED BY <1>2, NoCallFits DEF CallIsSound, CallsFit, TipIsSound, SeenIsSound, LogsAreSound, Evidence

LEMMA EndedReading == ASSUME ReceiverInv, UNCHANGED tellers, EndCall PROVE ReceiverInv'
BY EndedCall, ReadingStep

(* The parts of a call that goes on to its next step. *)
LEMMA Proceeding ==
  ASSUME ReceiverInv, NEW pc \in CallSteps, Proceed(pc)
  PROVE /\ call' \in CallType /\ call'.pc = pc /\ call'.op = call.op /\ call'.tip = call.tip /\ call'.seen = call.seen
        /\ call'.world = call.world /\ call'.logs = call.logs /\ Candidate' = Candidate /\ Wanted' = Wanted
<1>1. call \in CallType /\ call' = [call EXCEPT !.pc = pc]
  BY ReceiverTypes DEF Proceed
<1>2. /\ call' \in CallType /\ call'.pc = pc /\ call'.op = call.op /\ call'.tip = call.tip /\ call'.seen = call.seen
      /\ call'.world = call.world /\ call'.logs = call.logs
  BY <1>1 DEF CallType
<1> QED BY <1>2 DEF Candidate, Wanted, ClaimLogs, RefundLogs

(* A header of the chain is known and canonical. *)
LEMMA HeaderOfChain ==
  ASSUME ReceiverInv
  PROVE \A n \in 1..Len(blocks) :
          /\ HeaderAt(n) \in Header /\ HeaderAt(n).h = n /\ Known(HeaderAt(n)) /\ Canonical(HeaderAt(n))
<1> SUFFICES ASSUME NEW n \in 1..Len(blocks)
             PROVE /\ HeaderAt(n) \in Header /\ HeaderAt(n).h = n /\ Known(HeaderAt(n)) /\ Canonical(HeaderAt(n))
  OBVIOUS
<1>1. /\ Len(blocks) \in Nat /\ Len(blocks) <= MaxBlocks /\ blocks[n] \in Block /\ blocks[n].branch <= branch /\ branch \in Nat
  <2>1. Len(blocks) \in Nat /\ blocks[n] \in Block /\ branch \in Nat
    BY ReceiverTypes, ReceiverBounds
  <2>2. Len(blocks) <= MaxBlocks /\ blocks[n].branch <= branch
    BY ReceiverBounds DEF ReceiverInv, ChainIsSound
  <2> QED BY <2>1, <2>2
<1>2. blocks[n].branch \in 0..MaxForks
  BY <1>1 DEF Block
<1> QED BY <1>1, <1>2, ReceiverAssumption DEF HeaderAt, Header, Known, Canonical

LEMMA StartKeeps == ASSUME ReceiverInv, NEW o \in Operations, Start(o) PROVE ReceiverInv'
<1>1. UNCHANGED tellers /\ call' = [NoBackendCall EXCEPT !.op = o, !.pc = "view"]
  BY DEF Start
<1>2. call' \in CallType /\ call'.pc = "view"
  BY <1>1, NoCallFits DEF CallType, CallSteps
<1>3. CallIsSound'
  BY <1>2 DEF CallIsSound, CallsFit, TipIsSound, SeenIsSound, LogsAreSound, Evidence
<1> QED BY <1>1, <1>2, <1>3, ReadingStep

LEMMA ViewKeeps == ASSUME ReceiverInv, View PROVE ReceiverInv'
<1>1. UNCHANGED tellers /\ UNCHANGED <<scene, blocks, branch, settled, deep>>
  BY DEF View, tellers, chainState
<1>2. CASE EndCall
  BY <1>1, <1>2, EndedReading
<1>3. CASE call' = [call EXCEPT !.pc = "target", !.tip = HeaderAt(Len(blocks))]
  <2>1. Len(blocks) \in 1..Len(blocks)
    BY ReceiverTypes
  <2>2. PICK hd : hd = HeaderAt(Len(blocks))
    OBVIOUS
  <2>3. hd \in Header /\ hd.h = Len(blocks) /\ Known(hd)
    BY <2>1, <2>2, HeaderOfChain
  <2>4. call' \in CallType /\ call'.pc = "target" /\ call'.tip = hd
    BY <1>3, <2>2, <2>3, ReceiverTypes DEF CallType, CallSteps
  <2>5. Depth(Len(blocks)) <= settled
    BY DEF ReceiverInv, ChainIsSound
  <2>6. TipIsSound'
    BY <1>1, <2>3, <2>4, <2>5 DEF TipIsSound, Known, Depth, Max2
  <2>7. CallIsSound'
    BY <2>4, <2>6 DEF CallIsSound, CallsFit, SeenIsSound, LogsAreSound, Evidence
  <2> QED BY <1>1, <2>4, <2>7, ReadingStep
<1> QED BY <1>2, <1>3 DEF View

LEMMA TargetKeeps == ASSUME ReceiverInv, Target PROVE ReceiverInv'
<1>1. UNCHANGED tellers /\ UNCHANGED <<scene, blocks, branch, settled, deep>> /\ call.pc = "target"
  BY DEF Target, tellers, chainState, AtStep
<1>2. PICK n \in Targets(call.tip.h) :
        IF n > Len(blocks) THEN EndCall
        ELSE call' = [call EXCEPT !.seen = HeaderAt(n),
               !.pc = CASE call.op \in Inspecting -> "read"
                        [] call.op = "refund" -> "act"
                        [] OTHER -> "logs"]
  BY DEF Target
<1>3. call \in CallType /\ call.tip \in Header /\ call.tip.h \in Nat
  BY ReceiverTypes, ReceiverAssumption DEF CallType, Header
<1>4. Known(call.tip) /\ (~deep \/ Canonical(call.tip) => Depth(call.tip.h) <= settled)
  BY <1>1 DEF ReceiverInv, CallIsSound, TipIsSound
<1>5. n \in Nat /\ n >= 1 /\ n <= Depth(call.tip.h) /\ Depth(call.tip.h) \in Nat /\ Depth(call.tip.h) <= call.tip.h
  BY <1>2, <1>3, DepthFacts DEF Targets
<1>6. CASE n > Len(blocks)
  BY <1>1, <1>2, <1>6, EndedReading
<1>7. CASE ~(n > Len(blocks))
  <2>1. n \in 1..Len(blocks)
    BY <1>5, <1>7, ReceiverTypes
  <2>2. PICK hd : hd = HeaderAt(n)
    OBVIOUS
  <2>3. hd \in Header /\ hd.h = n /\ Known(hd) /\ Canonical(hd)
    BY <2>1, <2>2, HeaderOfChain
  <2>4. PICK pc : pc = CASE call.op \in Inspecting -> "read"
                         [] call.op = "refund" -> "act"
                         [] OTHER -> "logs"
    OBVIOUS
  <2>5. /\ pc \in {"read", "act", "logs"}
        /\ pc = "read" => call.op \in Inspecting
        /\ pc = "act" => call.op = "refund"
        /\ pc = "logs" => call.op \in {"claimEvidence", "refundEvidence"}
    <3>1. call.op \in Operations
      BY <1>3 DEF CallType
    <3> QED BY <2>4, <3>1 DEF Operations, Inspecting
  <2>6. call' = [call EXCEPT !.seen = hd, !.pc = pc]
    BY <1>2, <1>7, <2>2, <2>4
  <2>7. call' \in CallType /\ call'.pc = pc /\ call'.op = call.op /\ call'.tip = call.tip /\ call'.seen = hd
    BY <1>3, <2>3, <2>5, <2>6 DEF CallType, CallSteps
  <2>8. CallsFit'
    BY <2>5, <2>7 DEF CallsFit, Inspecting, Evidence
  <2>9. TipIsSound'
    BY <1>1, <1>4, <2>7 DEF TipIsSound, Known, Canonical, Depth, Max2
  <2>10. Known(hd)' /\ Canonical(hd)'
    BY <1>1, <2>3 DEF Known, Canonical
  <2>11. call.op = "refund" => call.op \notin Inspecting
    BY DEF Inspecting
  <2>12. SeenIsSound'
    BY <1>1, <1>5, <2>3, <2>5, <2>7, <2>10, <2>11 DEF SeenIsSound, Inspected, Known, Canonical, Depth, Max2
  <2>13. LogsAreSound'
    BY <2>5, <2>7 DEF LogsAreSound, Evidence
  <2> QED BY <1>1, <2>7, <2>8, <2>9, <2>12, <2>13, ReadingStep DEF CallIsSound
<1> QED BY <1>6, <1>7

(* A call that keeps its headers while the chain stands still. *)
LEMMA HeadersStand ==
  ASSUME ReceiverInv, UNCHANGED <<scene, blocks, branch, settled, deep>>, call.pc \notin {"idle", "view", "target"},
         call'.tip = call.tip, call'.seen = call.seen
  PROVE /\ TipIsSound'
        /\ Known(call.seen)' /\ (call.seen.h <= Depth(call.tip.h))' /\ (Canonical(call.tip) => Canonical(call.seen))'
        /\ Canonical(call.seen)' <=> Canonical(call.seen)
        /\ Known(call.tip) /\ Known(call.seen) /\ call.seen.h <= Depth(call.tip.h)
        /\ ~deep \/ Canonical(call.tip) => Depth(call.tip.h) <= settled
        /\ Canonical(call.tip) => Canonical(call.seen)
        /\ call.seen.h \in Nat /\ call.seen.h >= 1 /\ Depth(call.tip.h) \in Nat
<1>1. /\ Known(call.tip) /\ Known(call.seen) /\ call.seen.h <= Depth(call.tip.h)
      /\ ~deep \/ Canonical(call.tip) => Depth(call.tip.h) <= settled
      /\ Canonical(call.tip) => Canonical(call.seen)
  BY DEF ReceiverInv, CallIsSound, TipIsSound, SeenIsSound
<1>2. call.tip.h \in Nat /\ call.seen.h \in Nat
  BY ReceiverTypes, ReceiverAssumption DEF CallType, Header
<1>3. TipIsSound'
  BY <1>1 DEF TipIsSound, Known, Canonical, Depth, Max2
<1>4. Known(call.seen)' /\ (Canonical(call.tip) => Canonical(call.seen))' /\ (Canonical(call.seen)' <=> Canonical(call.seen))
  BY <1>1 DEF Known, Canonical
<1>5. (call.seen.h <= Depth(call.tip.h))'
  BY <1>1 DEF Depth, Max2
<1>6. call.seen.h >= 1 /\ Depth(call.tip.h) \in Nat
  BY <1>1, <1>2, DepthFacts DEF Known
<1> QED BY <1>1, <1>2, <1>3, <1>4, <1>5, <1>6

LEMMA ReadWorldKeeps == ASSUME ReceiverInv, ReadWorld PROVE ReceiverInv'
<1>1. UNCHANGED tellers /\ UNCHANGED <<scene, blocks, branch, settled, deep>> /\ call.pc = "read" /\ call \in CallType
  BY ReceiverTypes DEF ReadWorld, tellers, chainState, AtStep
<1>2. CASE ~Canonical(call.seen)
  BY <1>1, <1>2, EndedReading DEF ReadWorld
<1>3. CASE Canonical(call.seen)
  <2>1. PICK w : w = blocks[call.seen.h].world
    OBVIOUS
  <2>2. call' = [call EXCEPT !.pc = "stable", !.world = w]
    BY <1>3, <2>1 DEF ReadWorld
  <2>3. call.seen.h \in 1..Len(blocks)
    <3>1. Known(call.seen)
      BY <1>1 DEF ReceiverInv, CallIsSound, SeenIsSound
    <3> QED BY <1>1, <1>3, <3>1, ReceiverAssumption DEF Canonical, Known, CallType, Header
  <2>4. w \in World
    BY <2>1, <2>3, ReceiverTypes DEF Block
  <2>5. /\ call' \in CallType /\ call'.pc = "stable" /\ call'.op = call.op /\ call'.tip = call.tip /\ call'.seen = call.seen
        /\ call'.world = w
    BY <1>1, <2>2, <2>4 DEF CallType, CallSteps
  <2>6. /\ TipIsSound' /\ Known(call.seen)' /\ (call.seen.h <= Depth(call.tip.h))' /\ (Canonical(call.tip) => Canonical(call.seen))'
        /\ Canonical(call.seen)'
    BY <1>1, <1>3, <2>5, HeadersStand
  <2>7. call'.world = blocks'[call'.seen.h].world
    BY <1>1, <2>1, <2>5
  <2>8. SeenIsSound'
    BY <2>6, <2>7 DEF SeenIsSound
  <2>9. CallsFit'
    BY <1>1, <2>5 DEF ReceiverInv, CallIsSound, CallsFit, Evidence
  <2>10. LogsAreSound'
    BY <2>5 DEF LogsAreSound, Evidence
  <2> QED BY <1>1, <2>5, <2>6, <2>8, <2>9, <2>10, ReadingStep DEF CallIsSound
<1> QED BY <1>2, <1>3

(* An inspection goes on to its next check, or to the act. *)
LEMMA InspectionGoesOn ==
  ASSUME ReceiverInv, UNCHANGED <<scene, blocks, branch, settled, deep>>, call.pc \in {"stable", "stableTip"},
         NEW pc \in {"stableTip", "act"}, Proceed(pc)
  PROVE call' \in CallType /\ CallIsSound'
<1>1. pc \in CallSteps
  BY DEF CallSteps
<1>2. /\ call' \in CallType /\ call'.pc = pc /\ call'.op = call.op /\ call'.tip = call.tip /\ call'.seen = call.seen
      /\ call'.world = call.world
  BY <1>1, Proceeding
<1>3. call.op \in Inspecting
  BY DEF ReceiverInv, CallIsSound, CallsFit
<1>4. /\ TipIsSound' /\ Known(call.seen)' /\ (call.seen.h <= Depth(call.tip.h))' /\ (Canonical(call.tip) => Canonical(call.seen))'
      /\ Canonical(call.seen)' <=> Canonical(call.seen)
  BY <1>2, HeadersStand
<1>5. /\ ~deep => Canonical(call.seen)
      /\ Canonical(call.seen) => call.world = blocks[call.seen.h].world
  BY <1>3 DEF ReceiverInv, CallIsSound, SeenIsSound, Inspected
<1>6. SeenIsSound'
  BY <1>2, <1>4, <1>5 DEF SeenIsSound
<1>7. CallsFit'
  BY <1>2, <1>3 DEF CallsFit, Evidence, Inspecting
<1>8. LogsAreSound'
  BY <1>2 DEF LogsAreSound, Evidence
<1> QED BY <1>2, <1>4, <1>6, <1>7, <1>8 DEF CallIsSound

LEMMA StableKeeps == ASSUME ReceiverInv, Stable PROVE ReceiverInv'
<1>1. UNCHANGED tellers /\ UNCHANGED <<scene, blocks, branch, settled, deep>> /\ call.pc = "stable"
  BY DEF Stable, tellers, chainState, AtStep
<1>2. CASE EndCall
  BY <1>1, <1>2, EndedReading
<1>3. CASE Proceed("stableTip")
  BY <1>1, <1>3, InspectionGoesOn, ReadingStep
<1> QED BY <1>2, <1>3 DEF Stable

LEMMA StableTipKeeps == ASSUME ReceiverInv, StableTip PROVE ReceiverInv'
<1>1. /\ UNCHANGED <<scene, blocks, branch, settled, deep>> /\ UNCHANGED chainState /\ UNCHANGED <<signed, aired>>
      /\ call.pc = "stableTip" /\ call \in CallType
  BY ReceiverTypes DEF StableTip, chainState, AtStep
<1>2. call' \in CallType /\ CallIsSound'
  <2>1. CASE EndCall
    BY <2>1, EndedCall
  <2>2. CASE Proceed("act")
    BY <1>1, <2>2, InspectionGoesOn
  <2> QED BY <2>1, <2>2 DEF StableTip
<1>3. aired' \subseteq signed' /\ signed' \subseteq Own /\ SignedIsSound'
  BY <1>1 DEF ReceiverInv, ReceiverTypeOK, SignedIsSound, Ready, base
<1>4. CASE told' = told
  BY <1>1, <1>2, <1>3, <1>4, SilentStep
<1>5. CASE told' # told
  <2>1. Canonical(call.tip) /\ InvalidExactLock(call.world) /\ told' = [told EXCEPT !["alarm"] = call.seen.h]
    BY <1>5 DEF StableTip
  <2>2. /\ call.op \in Inspecting /\ Known(call.seen) /\ call.seen.h <= Depth(call.tip.h) /\ Depth(call.tip.h) <= settled
        /\ Canonical(call.seen) /\ call.world = blocks[call.seen.h].world
    BY <1>1, <2>1 DEF ReceiverInv, CallIsSound, CallsFit, TipIsSound, SeenIsSound, Inspected
  <2>3. call.seen.h \in 0..MaxBlocks /\ call.tip.h \in Nat /\ Depth(call.tip.h) \in Nat
    BY <1>1, DepthFacts, ReceiverAssumption DEF CallType, Header
  <2>4. call.seen.h \in Nat /\ call.seen.h <= settled /\ settled <= Len(blocks) /\ settled \in Nat /\ Len(blocks) \in Nat
    <3>1. settled \in Nat /\ Len(blocks) \in Nat
      BY ReceiverTypes
    <3>2. settled <= Len(blocks)
      BY DEF ReceiverInv, ChainIsSound
    <3>3. call.seen.h \in Nat
      BY <2>3, ReceiverAssumption
    <3>4. call.seen.h <= settled
      BY <2>2, <2>3, <3>1, <3>3
    <3> QED BY <3>1, <3>2, <3>3, <3>4
  <2>5. told \in [Answers -> 0..MaxBlocks]
    BY ReceiverTypes
  <2>6. /\ told' \in [Answers -> 0..MaxBlocks] /\ told'["alarm"] = call.seen.h
        /\ told'["claim"] = told["claim"] /\ told'["refund"] = told["refund"]
    BY <2>1, <2>3, <2>5 DEF Answers
  <2>7. ToldIsSettled'
    BY <1>1, <2>4, <2>6 DEF ReceiverInv, ToldIsSettled
  <2>8. EvidenceHolds'
    <3>1. InvalidExactLock(blocks[call.seen.h].world) /\ call.seen.h <= Len(blocks)
      BY <2>1, <2>2, <2>4
    <3>2. On(told["claim"], {"claim", "nested"})' /\ (deep \/ On(told["refund"], {"refunded"}))'
      BY <1>1, <2>6 DEF ReceiverInv, ReceiverIsSafe, EvidenceHolds, On
    <3> QED BY <1>1, <2>6, <3>1, <3>2 DEF EvidenceHolds, InvalidExactLock
  <2> QED BY <1>1, <1>2, <1>3, <2>6, <2>7, <2>8, CallStep
<1> QED BY <1>4, <1>5

(* What the observed block shows is worth signing for stays so above it. *)
LEMMA SeenIsReady ==
  ASSUME ReceiverInv, ~deep, call.pc = "act"
  PROVE /\ call.seen.h \in Nat /\ call.seen.h >= 1 /\ call.seen.h <= settled /\ settled <= Len(blocks)
        /\ call.op \in Inspecting /\ (call.world.active \/ call.world.bal >= Amount) =>
             \A k \in 1..Len(blocks) : k >= settled => Ready(k)
<1>1. call \in CallType /\ call.tip.h \in Nat /\ call.seen.h \in Nat /\ settled \in Nat /\ Len(blocks) \in Nat
  BY ReceiverTypes, ReceiverAssumption DEF CallType, Header
<1>2. Known(call.seen) /\ call.seen.h <= Depth(call.tip.h) /\ Depth(call.tip.h) <= settled /\ settled <= Len(blocks)
  BY DEF ReceiverInv, CallIsSound, TipIsSound, SeenIsSound, ChainIsSound
<1>3. call.seen.h >= 1 /\ call.seen.h <= settled
  <2>1. Depth(call.tip.h) \in Nat
    BY <1>1, DepthFacts
  <2>2. call.seen.h >= 1
    BY <1>2 DEF Known
  <2> QED BY <1>1, <1>2, <2>1, <2>2
<1>4. ASSUME call.op \in Inspecting, call.world.active \/ call.world.bal >= Amount
      PROVE \A k \in 1..Len(blocks) : k >= settled => Ready(k)
  <2>1. call.world = blocks[call.seen.h].world
    BY <1>4 DEF ReceiverInv, CallIsSound, SeenIsSound, Inspected
  <2>2. Ready(call.seen.h)
    BY <1>4, <2>1 DEF Ready
  <2> QED BY <1>1, <1>2, <1>3, <2>2 DEF ReceiverInv, ChainIsSound
<1> QED BY <1>1, <1>2, <1>3, <1>4

LEMMA ActsKeep ==
  ASSUME ReceiverInv, ActActivate \/ PrepareActivation \/ ResolveExpired \/ ActRecover \/ ActRefund
  PROVE ReceiverInv'
<1>1. /\ UNCHANGED chainState /\ UNCHANGED <<scene, blocks, branch, settled, deep>> /\ UNCHANGED told
      /\ call.pc = "act" /\ EndCall
  BY DEF ActActivate, PrepareActivation, ResolveExpired, ActRecover, ActRefund, chainState, AtStep
<1>2. call' \in CallType /\ CallIsSound'
  BY <1>1, EndedCall
<1>3. aired \subseteq signed /\ signed \subseteq Own
  BY DEF ReceiverInv, ReceiverTypeOK
<1>4. aired' \subseteq signed' /\ signed' \subseteq Own
  BY <1>3 DEF ActActivate, PrepareActivation, ResolveExpired, ActRecover, ActRefund, SignAndSend, Sign, Own
<1>5. /\ "activate" \in signed' /\ "activate" \notin signed => call.op \in Inspecting /\ (call.world.active \/ call.world.bal >= Amount)
      /\ "refund" \in signed' /\ "refund" \notin signed => base + call.seen.h >= Timelock
  <2>1. CASE ActActivate
    BY <2>1 DEF ActActivate, SignAndSend, Sign, Activatable, Inspecting
  <2>2. CASE PrepareActivation
    BY <2>2 DEF PrepareActivation, Sign, Activatable, Inspecting
  <2>3. CASE ResolveExpired
    BY <2>3 DEF ResolveExpired
  <2>4. CASE ActRecover
    BY <2>4 DEF ActRecover, SignAndSend, Sign
  <2>5. CASE ActRefund
    BY <2>5 DEF ActRefund, SignAndSend, Sign
  <2> QED BY <2>1, <2>2, <2>3, <2>4, <2>5
<1>6. SignedIsSound'
  <2> SUFFICES ASSUME ~deep
               PROVE /\ "activate" \in signed' => \A k \in 1..Len(blocks) : k >= settled => Ready(k)
                     /\ "refund" \in signed' => base + settled >= Timelock \/ base + 1 >= Timelock
    BY <1>1 DEF SignedIsSound, Ready, base
  <2>1. "activate" \in signed' => \A k \in 1..Len(blocks) : k >= settled => Ready(k)
    BY <1>1, <1>5, SeenIsReady DEF ReceiverInv, SignedIsSound
  <2>2. call.seen.h \in Nat /\ call.seen.h <= settled
    BY <1>1, SeenIsReady
  <2>3. base \in Nat /\ settled \in Nat /\ Timelock \in Nat
    BY ReceiverTypes, ReceiverAssumption
  <2>4. base + call.seen.h >= Timelock => base + settled >= Timelock
    BY <2>2, <2>3
  <2>5. "refund" \in signed' => base + settled >= Timelock \/ base + 1 >= Timelock
    BY <1>5, <2>4 DEF ReceiverInv, SignedIsSound
  <2> QED BY <2>1, <2>5
<1> QED BY <1>1, <1>2, <1>4, <1>6, SilentStep

LEMMA BroadcastKeeps == ASSUME ReceiverInv, BroadcastRaw PROVE ReceiverInv'
<1>1. /\ UNCHANGED chainState /\ UNCHANGED <<scene, blocks, branch, settled, deep>> /\ UNCHANGED <<signed, call, told>>
      /\ aired' = signed
  BY DEF BroadcastRaw, chainState
<1>2. call' \in CallType /\ CallIsSound'
  <2>1. Candidate' = Candidate /\ Wanted' = Wanted
    BY <1>1 DEF Candidate, Wanted, ClaimLogs, RefundLogs
  <2>2. CallsFit' /\ TipIsSound' /\ SeenIsSound'
    BY <1>1 DEF ReceiverInv, CallIsSound, CallsFit, TipIsSound, SeenIsSound, Known, Canonical, Depth, Max2
  <2>3. LogsAreSound'
    BY <1>1, <2>1 DEF ReceiverInv, CallIsSound, LogsAreSound, Known, Canonical, ExactCall
  <2> QED BY <1>1, <2>2, <2>3, ReceiverTypes DEF CallIsSound
<1>3. aired' \subseteq signed' /\ signed' \subseteq Own /\ SignedIsSound'
  BY <1>1 DEF ReceiverInv, ReceiverTypeOK, SignedIsSound, Ready, base
<1> QED BY <1>1, <1>2, <1>3, SilentStep


----------------------------------------------------------------------------
(* Evidence.  What a call that looks at logs has in hand. *)
LEMMA LogInHand ==
  ASSUME ReceiverInv, call.pc \in Evidence
  PROVE /\ call \in CallType /\ Candidate \in call.logs /\ call.logs \subseteq Header
        /\ Candidate.h \in 1..MaxBlocks /\ Known(Candidate) /\ Candidate.h <= call.seen.h
        /\ Canonical(call.seen) => Canonical(Candidate) /\ blocks[Candidate.h].log \in Wanted
        /\ call.pc \notin {"idle", "view", "target"} /\ call.op \in {"claimEvidence", "refundEvidence"}
<1>1. call \in CallType /\ call.logs # {}
  BY ReceiverTypes DEF ReceiverInv, CallIsSound, LogsAreSound
<1>2. Candidate \in call.logs /\ call.logs \subseteq Header
  BY <1>1, FirstLog DEF CallType
<1>3. /\ Known(Candidate) /\ Candidate.h <= call.seen.h
      /\ Canonical(call.seen) => Canonical(Candidate) /\ blocks[Candidate.h].log \in Wanted
  BY <1>2 DEF ReceiverInv, CallIsSound, LogsAreSound
<1>4. Candidate.h \in 1..MaxBlocks
  BY <1>2, <1>3, ReceiverAssumption DEF Header, Known
<1>5. call.pc \notin {"idle", "view", "target"} /\ call.op \in {"claimEvidence", "refundEvidence"}
  BY DEF Evidence, ReceiverInv, CallIsSound, CallsFit
<1> QED BY <1>1, <1>2, <1>3, <1>4, <1>5

(* The call goes on to the next check of the log it looks at. *)
LEMMA EvidenceGoesOn ==
  ASSUME ReceiverInv, UNCHANGED tellers, call.pc \in Evidence, NEW pc \in Chosen, Proceed(pc),
         pc \in {"depth", "again"} => call.op = "claimEvidence",
         Canonical(call.seen) => ExactCall(blocks[Candidate.h].log),
         pc \in {"again", "final"} /\ call.op = "claimEvidence" /\ Canonical(Candidate) => Candidate.h <= settled
  PROVE ReceiverInv'
<1>1. UNCHANGED <<scene, blocks, branch, settled, deep>> /\ pc \in CallSteps /\ pc \in Evidence
  BY DEF tellers, chainState, CallSteps, Chosen, Evidence
<1>2. /\ call' \in CallType /\ call'.pc = pc /\ call'.op = call.op /\ call'.tip = call.tip /\ call'.seen = call.seen
      /\ call'.logs = call.logs /\ Candidate' = Candidate /\ Wanted' = Wanted
  BY <1>1, Proceeding
<1>3. call.pc \notin {"idle", "view", "target"} /\ call.op \in {"claimEvidence", "refundEvidence"}
  BY LogInHand
<1>4. /\ TipIsSound' /\ Known(call.seen)' /\ (call.seen.h <= Depth(call.tip.h))' /\ (Canonical(call.tip) => Canonical(call.seen))'
      /\ Canonical(call.seen)' <=> Canonical(call.seen)
  BY <1>1, <1>2, <1>3, HeadersStand
<1>5. SeenIsSound'
  BY <1>1, <1>2, <1>4 DEF SeenIsSound, Inspected, Evidence
<1>6. CallsFit'
  BY <1>1, <1>2, <1>3 DEF CallsFit, Evidence
<1>7. \A hd \in call.logs : /\ Known(hd) /\ hd.h <= call.seen.h
                            /\ Canonical(call.seen) => Canonical(hd) /\ blocks[hd.h].log \in Wanted
  BY DEF ReceiverInv, CallIsSound, LogsAreSound
<1>8. call.logs # {}
  BY DEF ReceiverInv, CallIsSound, LogsAreSound
<1>9. LogsAreSound'
  <2>1. \A hd \in call'.logs : /\ Known(hd)' /\ hd.h <= call'.seen.h
                               /\ Canonical(call.seen)' => Canonical(hd)' /\ blocks'[hd.h].log \in Wanted'
    BY <1>1, <1>2, <1>4, <1>7 DEF Known, Canonical
  <2>2. Canonical(call.seen)' => ExactCall(blocks[Candidate.h].log)'
    BY <1>1, <1>2, <1>4 DEF ExactCall
  <2>3. Canonical(Candidate)' <=> Canonical(Candidate)
    BY <1>1, <1>2 DEF Canonical
  <2>4. (call.pc \in {"again", "final"} /\ call.op = "claimEvidence" /\ Canonical(Candidate) => Candidate.h <= settled)'
    BY <1>1, <1>2, <2>3
  <2> QED BY <1>2, <1>8, <2>1, <2>2, <2>4 DEF LogsAreSound
<1> QED BY <1>2, <1>4, <1>5, <1>6, <1>9, ReadingStep DEF CallIsSound

(* The log is passed over: there is another one, or the call ends. *)
LEMMA NextLogKeeps ==
  ASSUME ReceiverInv, UNCHANGED tellers, call.pc \in Evidence, NextLog
  PROVE ReceiverInv'
<1>1. UNCHANGED <<scene, blocks, branch, settled, deep>>
  BY DEF tellers, chainState
<1>2. CASE EndCall
  BY <1>2, EndedReading
<1>3. CASE Cardinality(call.logs) # 1 /\ call' = [call EXCEPT !.pc = "receipt", !.logs = @ \ {Candidate}]
  <2>1. PICK rest : rest = call.logs \ {Candidate}
    OBVIOUS
  <2>2. rest # {}
    <3>1. SUFFICES ASSUME rest = {} PROVE FALSE
      OBVIOUS
    <3>2. call.logs = {Candidate}
      BY <2>1, <3>1, LogInHand
    <3>3. Cardinality({Candidate}) = 1
      BY FS_Singleton
    <3> QED BY <1>3, <3>2, <3>3
  <2>3. call' = [call EXCEPT !.pc = "receipt", !.logs = rest]
    BY <1>3, <2>1
  <2>4. call \in CallType /\ rest \subseteq Header
    BY <2>1, LogInHand
  <2>5. /\ call' \in CallType /\ call'.pc = "receipt" /\ call'.op = call.op /\ call'.tip = call.tip /\ call'.seen = call.seen
        /\ call'.logs = rest
    BY <2>3, <2>4 DEF CallType, CallSteps
  <2>6. Wanted' = Wanted
    BY <2>5 DEF Wanted, ClaimLogs, RefundLogs
  <2>7. call.pc \notin {"idle", "view", "target"} /\ call.op \in {"claimEvidence", "refundEvidence"}
    BY LogInHand
  <2>8. /\ TipIsSound' /\ Known(call.seen)' /\ (call.seen.h <= Depth(call.tip.h))' /\ (Canonical(call.tip) => Canonical(call.seen))'
        /\ Canonical(call.seen)' <=> Canonical(call.seen)
    BY <1>1, <2>5, <2>7, HeadersStand
  <2>9. SeenIsSound'
    BY <2>5, <2>8 DEF SeenIsSound, Inspected
  <2>10. CallsFit'
    BY <2>5, <2>7 DEF CallsFit, Evidence
  <2>11. \A hd \in rest : /\ Known(hd) /\ hd.h <= call.seen.h
                          /\ Canonical(call.seen) => Canonical(hd) /\ blocks[hd.h].log \in Wanted
    BY <2>1 DEF ReceiverInv, CallIsSound, LogsAreSound
  <2>12. \A hd \in call'.logs : /\ Known(hd)' /\ hd.h <= call'.seen.h
                                /\ Canonical(call.seen)' => Canonical(hd)' /\ blocks'[hd.h].log \in Wanted'
    BY <1>1, <2>5, <2>6, <2>8, <2>11 DEF Known, Canonical
  <2>13. LogsAreSound'
    BY <2>2, <2>5, <2>12 DEF LogsAreSound, Chosen
  <2> QED BY <2>5, <2>8, <2>9, <2>10, <2>13, ReadingStep DEF CallIsSound
<1> QED BY <1>2, <1>3 DEF NextLog

LEMMA GetLogsKeeps == ASSUME ReceiverInv, GetLogs PROVE ReceiverInv'
<1>1. UNCHANGED tellers /\ UNCHANGED <<scene, blocks, branch, settled, deep>> /\ call.pc = "logs" /\ call \in CallType
  BY ReceiverTypes DEF GetLogs, tellers, chainState, AtStep
<1>2. PICK found : found = {n \in 1..Len(blocks) : n <= call.seen.h /\ blocks[n].log \in Wanted}
  OBVIOUS
<1>3. CASE EndCall
  BY <1>1, <1>3, EndedReading
<1>4. CASE found # {} /\ call' = [call EXCEPT !.pc = "receipt", !.logs = {HeaderAt(n) : n \in found}]
  <2>1. PICK hds : hds = {HeaderAt(n) : n \in found}
    OBVIOUS
  <2>2. hds # {} /\ hds \subseteq Header
    BY <1>2, <1>4, <2>1, HeaderOfChain
  <2>3. \A hd \in hds : Known(hd) /\ hd.h <= call.seen.h /\ Canonical(hd) /\ blocks[hd.h].log \in Wanted
    BY <1>2, <2>1, HeaderOfChain
  <2>4. call' = [call EXCEPT !.pc = "receipt", !.logs = hds]
    BY <1>4, <2>1
  <2>5. /\ call' \in CallType /\ call'.pc = "receipt" /\ call'.op = call.op /\ call'.tip = call.tip /\ call'.seen = call.seen
        /\ call'.logs = hds
    BY <1>1, <2>2, <2>4 DEF CallType, CallSteps
  <2>6. Wanted' = Wanted
    BY <2>5 DEF Wanted, ClaimLogs, RefundLogs
  <2>7. call.op \in {"claimEvidence", "refundEvidence"}
    BY <1>1 DEF ReceiverInv, CallIsSound, CallsFit
  <2>8. /\ TipIsSound' /\ Known(call.seen)' /\ (call.seen.h <= Depth(call.tip.h))' /\ (Canonical(call.tip) => Canonical(call.seen))'
    BY <1>1, <2>5, HeadersStand
  <2>9. SeenIsSound'
    BY <2>5, <2>8 DEF SeenIsSound, Inspected
  <2>10. CallsFit'
    BY <2>5, <2>7 DEF CallsFit, Evidence
  <2>11. \A hd \in call'.logs : /\ Known(hd)' /\ hd.h <= call'.seen.h
                                /\ Canonical(call.seen)' => Canonical(hd)' /\ blocks'[hd.h].log \in Wanted'
    BY <1>1, <2>3, <2>5, <2>6 DEF Known, Canonical
  <2>12. LogsAreSound'
    BY <2>2, <2>5, <2>11 DEF LogsAreSound, Chosen
  <2> QED BY <1>1, <2>5, <2>8, <2>9, <2>10, <2>12, ReadingStep DEF CallIsSound
<1> QED BY <1>2, <1>3, <1>4 DEF GetLogs

LEMMA ReadReceiptKeeps == ASSUME ReceiverInv, ReadReceipt PROVE ReceiverInv'
<1>1. UNCHANGED tellers /\ call.pc = "receipt" /\ call.pc \in Evidence
  BY DEF ReadReceipt, AtStep, Evidence
<1>2. CASE EndCall
  BY <1>1, <1>2, EndedReading
<1>3. CASE NextLog
  BY <1>1, <1>3, NextLogKeeps
<1>4. CASE Canonical(Candidate) /\ ExactCall(blocks[Candidate.h].log) /\ Proceed("header")
  <2>1. "header" \in Chosen /\ "header" \notin {"depth", "again", "final"}
    BY DEF Chosen
  <2> QED BY <1>1, <1>4, <2>1, EvidenceGoesOn
<1> QED BY <1>2, <1>3, <1>4 DEF ReadReceipt

LEMMA LogChecksKeep ==
  ASSUME ReceiverInv, ReadHeader \/ CanonicalReceipt \/ ReadDepth \/ ReadHeaderAgain
  PROVE ReceiverInv'
<1>1. UNCHANGED tellers /\ call.pc \in {"header", "depth", "again"} /\ call.pc \in Evidence /\ call.pc \in Chosen
  BY DEF ReadHeader, CanonicalReceipt, ReadDepth, ReadHeaderAgain, AtStep, Evidence, Chosen
<1>2. Canonical(call.seen) => ExactCall(blocks[Candidate.h].log)
  BY <1>1 DEF ReceiverInv, CallIsSound, LogsAreSound
<1>3. {"depth", "again", "final"} \subseteq Chosen
  BY DEF Chosen
<1>4. CASE EndCall
  BY <1>1, <1>4, EndedReading
<1>5. CASE NextLog
  BY <1>1, <1>5, NextLogKeeps
<1>6. CASE ReadHeader /\ Proceed("depth")
  <2>1. call.op = "claimEvidence"
    BY <1>6 DEF ReadHeader
  <2> QED BY <1>1, <1>2, <1>3, <1>6, <2>1, EvidenceGoesOn
<1>7. CASE CanonicalReceipt /\ Proceed("final")
  <2>1. call.op = "refundEvidence"
    BY <1>7 DEF CanonicalReceipt
  <2> QED BY <1>1, <1>2, <1>3, <1>7, <2>1, EvidenceGoesOn
<1>8. CASE ReadDepth /\ Candidate.h <= Depth(Len(blocks)) /\ Proceed("again")
  <2>1. call.pc = "depth" /\ call.op = "claimEvidence"
    BY <1>8 DEF ReadDepth, AtStep, ReceiverInv, CallIsSound, CallsFit
  <2>2. Len(blocks) \in Nat /\ settled \in Nat /\ Depth(Len(blocks)) \in Nat /\ Candidate.h \in Nat
    <3>1. Len(blocks) \in Nat /\ settled \in Nat
      BY ReceiverTypes
    <3>2. Candidate.h \in 1..MaxBlocks
      BY <1>1, LogInHand
    <3>3. Depth(Len(blocks)) \in Nat
      BY <3>1, DepthFacts
    <3>4. Candidate.h \in Nat
      BY <3>2, ReceiverAssumption
    <3> QED BY <3>1, <3>3, <3>4
  <2>3. Depth(Len(blocks)) <= settled
    BY DEF ReceiverInv, ChainIsSound
  <2>4. Candidate.h <= settled
    BY <1>8, <2>2, <2>3
  <2> QED BY <1>1, <1>2, <1>3, <1>8, <2>1, <2>4, EvidenceGoesOn
<1>9. CASE ReadHeaderAgain /\ Proceed("final")
  <2>1. call.pc = "again" /\ call.op = "claimEvidence"
    BY <1>9 DEF ReadHeaderAgain, AtStep, ReceiverInv, CallIsSound, CallsFit
  <2>2. Canonical(Candidate) => Candidate.h <= settled
    BY <1>1, <2>1 DEF ReceiverInv, CallIsSound, LogsAreSound
  <2> QED BY <1>1, <1>2, <1>3, <1>9, <2>1, <2>2, EvidenceGoesOn
<1> QED BY <1>4, <1>5, <1>6, <1>7, <1>8, <1>9 DEF ReadHeader, CanonicalReceipt, ReadDepth, ReadHeaderAgain

(* The answer: the log's block lies under the observed one, which is on the chain still. *)
LEMMA TellEvidenceKeeps == ASSUME ReceiverInv, TellEvidence PROVE ReceiverInv'
<1>1. /\ UNCHANGED <<scene, blocks, branch, settled, deep>> /\ UNCHANGED chainState /\ UNCHANGED <<signed, aired>>
      /\ call.pc = "final" /\ call.pc \in Evidence /\ call.pc \in Chosen /\ EndCall
  BY DEF TellEvidence, chainState, AtStep, Evidence, Chosen
<1>2. call' \in CallType /\ CallIsSound'
  BY <1>1, EndedCall
<1>3. aired' \subseteq signed' /\ signed' \subseteq Own /\ SignedIsSound'
  BY <1>1 DEF ReceiverInv, ReceiverTypeOK, SignedIsSound, Ready, base
<1>4. CASE ~Canonical(call.seen)
  <2>1. told' = told
    BY <1>4 DEF TellEvidence, StillStable
  <2> QED BY <1>1, <1>2, <1>3, <2>1, SilentStep
<1>5. CASE Canonical(call.seen)
  <2>1. /\ call \in CallType /\ Candidate.h \in 1..MaxBlocks /\ Canonical(Candidate) /\ blocks[Candidate.h].log \in Wanted
        /\ Candidate.h <= call.seen.h /\ call.op \in {"claimEvidence", "refundEvidence"}
    BY <1>1, <1>5, LogInHand
  <2>2. ExactCall(blocks[Candidate.h].log) /\ (call.op = "claimEvidence" => Candidate.h <= settled)
    BY <1>1, <1>5, <2>1 DEF ReceiverInv, CallIsSound, LogsAreSound
  <2>3. Candidate.h <= Len(blocks) /\ Candidate.h \in Nat /\ call.seen.h \in Nat /\ call.tip.h \in Nat /\ settled \in Nat
    BY <2>1, ReceiverTypes, ReceiverAssumption DEF Canonical, CallType, Header
  <2>4. told \in [Answers -> 0..MaxBlocks]
    BY ReceiverTypes
  <2>5. CASE call.op = "claimEvidence"
    <3>1. told' = [told EXCEPT !["claim"] = Candidate.h]
      BY <1>5, <2>5 DEF TellEvidence, StillStable
    <3>2. /\ told' \in [Answers -> 0..MaxBlocks] /\ told'["claim"] = Candidate.h
          /\ told'["refund"] = told["refund"] /\ told'["alarm"] = told["alarm"]
      BY <2>1, <2>4, <3>1, ReceiverAssumption DEF Answers
    <3>3. ToldIsSettled'
      BY <1>1, <2>2, <2>5, <3>2 DEF ReceiverInv, ToldIsSettled
    <3>4. blocks[Candidate.h].log \in {"claim", "nested"}
      BY <2>1, <2>2, <2>5 DEF Wanted, ClaimLogs, ExactCall
    <3>5. /\ (deep \/ On(told["refund"], {"refunded"}))'
          /\ (told["alarm"] > 0 => told["alarm"] <= Len(blocks) /\ InvalidExactLock(blocks[told["alarm"]].world))'
      BY <1>1, <3>2 DEF ReceiverInv, ReceiverIsSafe, EvidenceHolds, On, InvalidExactLock
    <3>6. EvidenceHolds'
      BY <1>1, <2>3, <3>2, <3>4, <3>5 DEF EvidenceHolds, On
    <3> QED BY <1>1, <1>2, <1>3, <3>2, <3>3, <3>6, CallStep
  <2>6. CASE call.op = "refundEvidence"
    <3>1. told' = [told EXCEPT !["refund"] = Candidate.h]
      BY <1>5, <2>6 DEF TellEvidence, StillStable
    <3>2. /\ told' \in [Answers -> 0..MaxBlocks] /\ told'["refund"] = Candidate.h
          /\ told'["claim"] = told["claim"] /\ told'["alarm"] = told["alarm"]
      BY <2>1, <2>4, <3>1, ReceiverAssumption DEF Answers
    <3>3. ~deep => Candidate.h <= settled
      <4>1. call.seen.h <= Depth(call.tip.h) /\ (~deep => Depth(call.tip.h) <= settled)
        BY <1>1 DEF ReceiverInv, CallIsSound, TipIsSound, SeenIsSound
      <4>2. Depth(call.tip.h) \in Nat
        BY <2>3, DepthFacts
      <4>3. Depth(call.tip.h) <= settled => Candidate.h <= settled
        BY <2>1, <2>3, <4>1, <4>2
      <4> QED BY <4>1, <4>3
    <3>4. ToldIsSettled'
      BY <1>1, <3>2, <3>3 DEF ReceiverInv, ToldIsSettled
    <3>5. blocks[Candidate.h].log \in {"refunded"}
      BY <2>1, <2>2, <2>6 DEF Wanted, RefundLogs, ExactCall
    <3>6. /\ On(told["claim"], {"claim", "nested"})'
          /\ (told["alarm"] > 0 => told["alarm"] <= Len(blocks) /\ InvalidExactLock(blocks[told["alarm"]].world))'
      BY <1>1, <3>2 DEF ReceiverInv, ReceiverIsSafe, EvidenceHolds, On, InvalidExactLock
    <3>7. On(told["refund"], {"refunded"})'
      BY <1>1, <2>3, <3>2, <3>5 DEF On
    <3>8. EvidenceHolds'
      BY <3>6, <3>7 DEF EvidenceHolds
    <3> QED BY <1>1, <1>2, <1>3, <3>2, <3>4, <3>8, CallStep
  <2> QED BY <2>1, <2>5, <2>6
<1> QED BY <1>4, <1>5

LEMMA BackendKeeps == ASSUME ReceiverInv, Backend PROVE ReceiverInv'
<1>1. scene.ops \subseteq Operations
  BY ReceiverTypes DEF SceneType
<1>2. CASE Fault
  BY <1>2, EndedReading DEF Fault
<1> QED BY <1>1, <1>2, StartKeeps, ViewKeeps, TargetKeeps, ReadWorldKeeps, StableKeeps, StableTipKeeps, ActsKeep,
           BroadcastKeeps, GetLogsKeeps, ReadReceiptKeeps, LogChecksKeep, TellEvidenceKeeps DEF Backend

(* Whatever the chain does and whenever it is read: the receiver's invariant. *)
THEOREM ReceiverInvariant == ReceiverSpec => []ReceiverInv
<1>1. ReceiverInit => ReceiverInv
  BY InitialReceiver
<1>2. ReceiverInv /\ [ReceiverNext]_receiverVars => ReceiverInv'
  <2> SUFFICES ASSUME ReceiverInv, [ReceiverNext]_receiverVars PROVE ReceiverInv'
    OBVIOUS
  <2>1. CASE UNCHANGED receiverVars
    <3>1. UNCHANGED <<scene, blocks, branch, settled, deep>> /\ UNCHANGED <<signed, aired, call, told>>
      BY <2>1 DEF receiverVars
    <3>2. UNCHANGED tellers
      BY <3>1 DEF tellers, chainState
    <3>3. Candidate' = Candidate /\ Wanted' = Wanted
      BY <3>1 DEF Candidate, Wanted, ClaimLogs, RefundLogs
    <3>4. CallsFit' /\ TipIsSound' /\ SeenIsSound'
      BY <3>1 DEF ReceiverInv, CallIsSound, CallsFit, TipIsSound, SeenIsSound, Known, Canonical, Depth, Max2
    <3>5. LogsAreSound'
      BY <3>1, <3>3 DEF ReceiverInv, CallIsSound, LogsAreSound, Known, Canonical, ExactCall
    <3>6. call' \in CallType
      BY <3>1, ReceiverTypes
    <3> QED BY <3>2, <3>4, <3>5, <3>6, ReadingStep DEF CallIsSound
  <2>2. CASE Chain
    BY <2>2, ChainKeeps
  <2>3. CASE Backend
    BY <2>3, BackendKeeps
  <2> QED BY <2>1, <2>2, <2>3 DEF ReceiverNext
<1> QED BY <1>1, <1>2, PTL DEF ReceiverSpec

(* No answer of the backend mixes two branches or speaks of a twin, its one   *)
(* activation and its refund fail only for somebody else's doing, and a lock  *)
(* is opened before the cutoff.                                               *)
THEOREM ReceiverSafe == ReceiverSpec => []ReceiverIsSafe
<1>1. ReceiverInv => ReceiverIsSafe
  BY DEF ReceiverInv
<1> QED BY <1>1, ReceiverInvariant, PTL
=============================================================================
