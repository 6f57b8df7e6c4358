------------------------ MODULE QuoteAdmissionProofs ------------------------
(***************************************************************************)
(* What holds of quote admission for any number of concurrent quotes, any  *)
(* amounts and any cap.                                                    *)
(***************************************************************************)
EXTENDS QuoteAdmission, FiniteSetTheorems, TLAPS

----------------------------------------------------------------------------
(* Sums of amounts over sets of quotes. *)

(* The sats of finitely many quotes are finitely many. *)
LEMMA SatsFinite ==
  ASSUME NEW amount \in [Quote -> Nat], NEW S \in SUBSET Quote
  PROVE  IsFiniteSet(SatsOf(amount, S))
<1> DEFINE F == {{q} \X (1..amount[q]) : q \in S}
           f == [q \in S |-> {q} \X (1..amount[q])]
<1>1. IsFiniteSet(S)
  BY FS_Subset, QuoteAssumption
<1>2. f \in Surjection(S, F)
  BY DEF Surjection
<1>3. IsFiniteSet(F)
  BY <1>1, <1>2, FS_Surjection
<1>4. ASSUME NEW T \in F PROVE IsFiniteSet(T)
  <2>1. PICK q \in S : T = {q} \X (1..amount[q])
    OBVIOUS
  <2>2. IsFiniteSet({q})
    BY FS_Singleton
  <2>3. amount[q] \in Int
    OBVIOUS
  <2>4. IsFiniteSet(1..amount[q])
    BY <2>3, FS_Interval
  <2> QED
    BY <2>1, <2>2, <2>4, FS_Product
<1> QED
  BY <1>3, <1>4, FS_UNION DEF SatsOf

(* A sum is a natural number, and no sum of a part exceeds that of the whole. *)
LEMMA TotalMonotone ==
  ASSUME NEW amount \in [Quote -> Nat], NEW T \in SUBSET Quote, NEW S \in SUBSET T
  PROVE  Total(amount, S) \in Nat /\ Total(amount, T) \in Nat
         /\ Total(amount, S) <= Total(amount, T)
<1>1. SatsOf(amount, S) \subseteq SatsOf(amount, T)
  BY DEF SatsOf
<1>2. IsFiniteSet(SatsOf(amount, T)) /\ IsFiniteSet(SatsOf(amount, S))
  BY SatsFinite
<1> QED
  BY <1>1, <1>2, FS_Subset, FS_CardinalityType DEF Total

(* The sum over a union is at most the two sums together. *)
LEMMA TotalUnion ==
  ASSUME NEW amount \in [Quote -> Nat], NEW S \in SUBSET Quote, NEW T \in SUBSET Quote
  PROVE  Total(amount, S \cup T) <= Total(amount, S) + Total(amount, T)
<1> DEFINE A == SatsOf(amount, S)
           B == SatsOf(amount, T)
<1>1. SatsOf(amount, S \cup T) = A \cup B
  BY DEF SatsOf
<1>2. IsFiniteSet(A) /\ IsFiniteSet(B)
  BY SatsFinite
<1>3. Cardinality(A \cup B) = Cardinality(A) + Cardinality(B) - Cardinality(A \cap B)
  BY <1>2, FS_Union
<1>4. Cardinality(A) \in Nat /\ Cardinality(B) \in Nat /\ Cardinality(A \cap B) \in Nat
  BY <1>2, FS_Intersection, FS_CardinalityType
<1>5. Total(amount, S \cup T) = Cardinality(A \cup B)
  BY <1>1 DEF Total
<1>6. Total(amount, S) = Cardinality(A) /\ Total(amount, T) = Cardinality(B)
  BY DEF Total
<1> HIDE DEF A, B
<1> QED
  BY <1>3, <1>4, <1>5, <1>6

(* One quote more adds its own amount. *)
LEMMA TotalAdd ==
  ASSUME NEW amount \in [Quote -> Nat], NEW S \in SUBSET Quote,
         NEW q \in Quote, q \notin S
  PROVE  Total(amount, S \cup {q}) = Total(amount, S) + amount[q]
<1> DEFINE A == SatsOf(amount, S)
           B == {q} \X (1..amount[q])
<1>1. SatsOf(amount, S \cup {q}) = A \cup B
  BY DEF SatsOf
<1>2. A \cap B = {}
  BY DEF SatsOf
<1>3. IsFiniteSet(A)
  BY SatsFinite
<1>4. IsFiniteSet(B) /\ Cardinality(B) = amount[q]
  <2>1. IsFiniteSet({q}) /\ Cardinality({q}) = 1
    BY FS_Singleton
  <2>2. IsFiniteSet(1..amount[q]) /\ Cardinality(1..amount[q]) = amount[q]
    BY FS_Interval
  <2>3. IsFiniteSet(B) /\ Cardinality(B) = Cardinality({q}) * Cardinality(1..amount[q])
    BY <2>1, <2>2, FS_Product
  <2> QED
    BY <2>1, <2>2, <2>3
<1>5. Cardinality(A \cup B) = Cardinality(A) + Cardinality(B) - Cardinality(A \cap B)
  BY <1>3, <1>4, FS_Union
<1>6. Cardinality(A) \in Nat
  BY <1>3, FS_CardinalityType
<1>7. Total(amount, S \cup {q}) = Cardinality(A \cup B)
  BY <1>1 DEF Total
<1>8. Total(amount, S) = Cardinality(A)
  BY DEF Total
<1>9. Cardinality(A \cap B) = 0
  BY <1>2, FS_EmptySet
<1>10. amount[q] \in Nat
  OBVIOUS
<1> HIDE DEF A, B
<1> QED
  BY <1>4, <1>5, <1>6, <1>7, <1>8, <1>9, <1>10

(* One quote less takes its own amount away. *)
LEMMA TotalRemove ==
  ASSUME NEW amount \in [Quote -> Nat], NEW S \in SUBSET Quote, NEW q \in S
  PROVE  Total(amount, S \ {q}) = Total(amount, S) - amount[q]
<1> DEFINE R == S \ {q}
<1>1. R \cup {q} = S
  OBVIOUS
<1>2. Total(amount, R \cup {q}) = Total(amount, R) + amount[q]
  BY TotalAdd
<1>3. Total(amount, R) \in Nat /\ amount[q] \in Nat
  BY TotalMonotone
<1>4. Total(amount, S) = Total(amount, R) + amount[q]
  BY <1>1, <1>2
<1> HIDE DEF R
<1>5. Total(amount, R) = Total(amount, S) - amount[q]
  BY <1>3, <1>4
<1> QED
  BY <1>5 DEF R

(* Nothing adds up to nothing. *)
LEMMA TotalEmpty ==
  ASSUME NEW amount
  PROVE  Total(amount, {}) = 0
BY FS_EmptySet DEF Total, SatsOf

----------------------------------------------------------------------------
(* The inductive invariant. *)

(* The quote that holds the promise chain is the one inside the section. *)
LockHeld ==
  \A q \in Quote : pc[q] \in {"exposure", "owed", "float"} <=> lock = q

(* Only a quote whose payout leaves the Lightning wallet claims balance. *)
FloatUsed == \A q \in Quote : pc[q] \in {"owed", "float"} => UsesFloat(q)

(* A row exists only from its insert on. *)
RowsHaveLanded == \A q \in Quote : row[q] # "none" => pc[q] \in {"release", "accepted"}

(* Claims in flight alone never pass the cap. *)
ReservedWithinCap == reserved <= CapSats

(* A snapshot that is still to be used misses at most the claims that were in *)
(* flight when it was taken: nobody else can claim in the meantime, and what  *)
(* others do then only turns claims into rows or gives them back.             *)
SnapshotSound ==
  \A q \in Quote : pc[q] = "exposure" => Exposure <= committed[q] + CapSats

Structure == LockHeld /\ FloatUsed /\ RowsHaveLanded
AdmissionInv ==
  /\ TypeOK /\ Structure
  /\ ReservationsAccounted /\ ReservedWithinCap
  /\ SnapshotSound /\ ExposureBounded
  /\ OneRowPerCorridorHash

----------------------------------------------------------------------------
(* The amounts are functions to the naturals. *)
LEMMA Amounts ==
  /\ Give \in [Quote -> Nat] /\ Float \in [Quote -> Nat]
  /\ Live \subseteq Quote /\ Unlanded \subseteq Quote
  /\ Holders \subseteq Quote /\ FloatHolders \subseteq Quote
BY QuoteAssumption DEF Live, Unlanded, Holders, FloatHolders

(* A claim counted in a reservation is covered by it. *)
LEMMA ClaimCounted ==
  ASSUME TypeOK, ReservationsAccounted, NEW q \in Quote
  PROVE  /\ q \in Holders => reserved - Give[q] \in Nat
         /\ q \in FloatHolders => reservedFloat - Float[q] \in Nat
<1>1. ASSUME q \in Holders PROVE reserved - Give[q] \in Nat
  <2>1. Total(Give, Holders \ {q}) = Total(Give, Holders) - Give[q]
    BY <1>1, TotalRemove, Amounts
  <2>2. Total(Give, Holders \ {q}) \in Nat
    BY TotalMonotone, Amounts
  <2> QED
    BY <2>1, <2>2 DEF ReservationsAccounted
<1>2. ASSUME q \in FloatHolders PROVE reservedFloat - Float[q] \in Nat
  <2>1. Total(Float, FloatHolders \ {q}) = Total(Float, FloatHolders) - Float[q]
    BY <1>2, TotalRemove, Amounts
  <2>2. Total(Float, FloatHolders \ {q}) \in Nat
    BY TotalMonotone, Amounts
  <2> QED
    BY <2>1, <2>2 DEF ReservationsAccounted
<1> QED
  BY <1>1, <1>2

(* Totals over rows are natural numbers. *)
LEMMA TotalsAreNat ==
  totalCommitted \in Nat /\ owedLightningSats \in Nat
<1>1. totalCommitted \in Nat
  BY TotalMonotone, Amounts DEF totalCommitted
<1>2. owedLightningSats \in Nat
  <2> DEFINE S == {q \in Quote : /\ CorridorOf[q] = "send" /\ row[q] \in OwedStates
                                 /\ ~(Coupling /\ q \in OwnInvoice
                                       /\ findLiveByPaymentHash("receive", HashOf[q]))}
  <2>1. S \in SUBSET Quote
    OBVIOUS
  <2>2. Total(Float, S) \in Nat
    BY <2>1, TotalMonotone, Amounts
  <2> QED
    BY <2>2 DEF owedLightningSats
<1> QED
  BY <1>1, <1>2

(* Every step keeps the types. *)
LEMMA TypeStep ==
  TypeOK /\ Structure /\ ReservationsAccounted /\ [Next]_vars => TypeOK'
<1> SUFFICES ASSUME TypeOK, Structure, ReservationsAccounted, [Next]_vars
             PROVE  TypeOK'
  OBVIOUS
<1> USE QuoteAssumption
<1>0. \A q \in Quote : Give[q] \in Nat /\ Float[q] \in Nat
  BY Amounts
<1>5. \A q \in Quote : reserved + Give[q] \in Nat /\ reservedFloat + Float[q] \in Nat
  BY <1>0 DEF TypeOK
<1>1. CASE Crash
  BY <1>1 DEF TypeOK, Crash, Steps
<1>2. ASSUME NEW q \in Quote, QuoteStep(q) PROVE TypeOK'
  <2>1. CASE Begin(q)
    BY <2>1 DEF TypeOK, Begin, Step, Steps
  <2>2. CASE Decline(q)
    BY <2>2 DEF TypeOK, Decline, Steps
  <2>3. CASE CheckOwn(q)
    <3>1. peerStores(CorridorOf[q]) \in Seq(Corridor)
      <4>1. <<"onchain">> \in Seq(Corridor) /\ <<"onchain", "receive">> \in Seq(Corridor)
            /\ <<"onchain", "send">> \in Seq(Corridor) /\ <<"send", "onchain">> \in Seq(Corridor)
            /\ <<"send", "receive">> \in Seq(Corridor)
        BY DEF Corridor
      <4>2. CorridorOf[q] \in {"send", "receive", "onchain"}
        BY DEF Corridor
      <4> QED
        BY <4>1, <4>2 DEF peerStores
    <3> QED
      BY <2>3, <3>1 DEF TypeOK, CheckOwn, Steps
  <2>4. CASE CheckPeer(q)
    BY <2>4 DEF TypeOK, CheckPeer, Steps
  <2>5. CASE lightningFloatRequirement(q)
    BY <2>5 DEF TypeOK, lightningFloatRequirement, Step, Steps
  <2>6. CASE Admit(q)
    BY <2>6, TotalsAreNat DEF TypeOK, Admit, Step, Steps
  <2>7. CASE claimExposure(q)
    <3>1. CASE ~ExposureFits(q)
      BY <2>7, <3>1 DEF TypeOK, claimExposure, Steps
    <3>2. CASE ExposureFits(q) /\ UsesFloat(q)
      BY <1>5, <2>7, <3>2 DEF TypeOK, claimExposure, Steps
    <3>3. CASE ExposureFits(q) /\ ~UsesFloat(q)
      BY <1>5, <2>7, <3>3 DEF TypeOK, claimExposure, Steps
    <3> QED
      BY <3>1, <3>2, <3>3
  <2>8. CASE ReadOwed(q)
    BY <2>8, TotalsAreNat DEF TypeOK, ReadOwed, Step, Steps
  <2>9. CASE claimFloat(q)
    <3>1. q \in Holders
      BY <2>9 DEF claimFloat, Holders, Holding
    <3>2. reserved - Give[q] \in Nat
      BY <3>1, ClaimCounted
    <3>3. CASE FloatFits(q)
      BY <1>5, <2>9, <3>3 DEF TypeOK, claimFloat, Steps
    <3>4. CASE ~FloatFits(q)
      BY <2>9, <3>2, <3>4 DEF TypeOK, claimFloat, Steps
    <3> QED
      BY <3>3, <3>4
  <2>10. CASE insertQuote(q)
    BY <2>10 DEF TypeOK, insertQuote, Step, Steps, RowStates
  <2>11. CASE InsertFails(q)
    BY <2>11 DEF TypeOK, InsertFails, Step, Steps
  <2>12. CASE Release(q)
    <3>1. q \in Holders /\ (UsesFloat(q) => q \in FloatHolders)
      BY <2>12 DEF Release, Holders, Holding, FloatHolders, HoldingFloat
    <3>2. /\ reserved - Give[q] \in Nat
          /\ UsesFloat(q) => reservedFloat - Float[q] \in Nat
      BY <3>1, ClaimCounted
    <3> QED
      BY <2>12, <3>2 DEF TypeOK, Release, Steps
  <2> QED
    BY <1>2, <2>1, <2>2, <2>3, <2>4, <2>5, <2>6, <2>7, <2>8, <2>9, <2>10, <2>11, <2>12
       DEF QuoteStep
<1>3. ASSUME NEW q \in Quote, RowStep(q) PROVE TypeOK'
  <2>1. CASE PayLightning(q)
    BY <1>0, <2>1 DEF PayLightning, TypeOK, RowStates
  <2>2. CASE PaymentReturned(q)
    BY <1>0, <2>2 DEF PaymentReturned, TypeOK, RowStates
  <2>3. CASE RecordPaid(q) \/ Close(q) \/ Refuse(q) \/ LockupReturned(q)
    BY <2>3 DEF RecordPaid, Close, Refuse, LockupReturned, TypeOK, RowStates
  <2> QED
    BY <1>3, <2>1, <2>2, <2>3 DEF RowStep
<1>4. CASE UNCHANGED vars
  BY <1>4 DEF TypeOK, vars
<1> QED
  BY <1>1, <1>2, <1>3, <1>4 DEF Next

(* Every step keeps reservations, locks and rows in agreement. *)
LEMMA StructureStep ==
  TypeOK /\ Structure /\ [Next]_vars => Structure'
<1> SUFFICES ASSUME TypeOK, Structure, [Next]_vars PROVE Structure'
  OBVIOUS
<1> USE QuoteAssumption DEF TypeOK, Structure, LockHeld, FloatUsed, RowsHaveLanded, UsesFloat
<1>1. CASE Crash
  BY <1>1 DEF Crash
<1>2. ASSUME NEW q \in Quote, QuoteStep(q) PROVE Structure'
  <2>1. CASE Begin(q)
    BY <2>1 DEF Begin, Step
  <2>2. CASE Decline(q) \/ CheckOwn(q)
    BY <2>2 DEF Decline, CheckOwn
  <2>3. CASE CheckPeer(q)
    BY <2>3 DEF CheckPeer
  <2>4. CASE lightningFloatRequirement(q)
    BY <2>4 DEF lightningFloatRequirement, Step
  <2>10. CASE Admit(q)
    BY <2>10 DEF Admit, Step
  <2>5. CASE claimExposure(q)
    <3>1. CASE ~ExposureFits(q)
      BY <2>5, <3>1 DEF claimExposure
    <3>2. CASE ExposureFits(q) /\ UsesFloat(q)
      BY <2>5, <3>2 DEF claimExposure
    <3>3. CASE ExposureFits(q) /\ ~UsesFloat(q)
      BY <2>5, <3>3 DEF claimExposure
    <3> QED
      BY <3>1, <3>2, <3>3
  <2>6. CASE ReadOwed(q)
    BY <2>6 DEF ReadOwed, Step
  <2>7. CASE claimFloat(q)
    BY <2>7 DEF claimFloat
  <2>8. CASE insertQuote(q) \/ InsertFails(q)
    BY <2>8 DEF insertQuote, InsertFails, Step
  <2>9. CASE Release(q)
    BY <2>9 DEF Release
  <2> QED
    BY <1>2, <2>1, <2>2, <2>3, <2>4, <2>5, <2>6, <2>7, <2>8, <2>9, <2>10 DEF QuoteStep
<1>3. ASSUME NEW q \in Quote, RowStep(q) PROVE Structure'
  BY <1>3 DEF RowStep, PayLightning, RecordPaid, PaymentReturned, Close, Refuse, LockupReturned
<1>4. CASE UNCHANGED vars
  BY <1>4 DEF vars
<1> QED
  BY <1>1, <1>2, <1>3, <1>4 DEF Next

(* The two counters stay the claims in flight, and within the cap. *)
LEMMA AccountsStep ==
  TypeOK /\ Structure /\ ReservationsAccounted /\ ReservedWithinCap /\ [Next]_vars
    => ReservationsAccounted' /\ ReservedWithinCap'
<1> SUFFICES ASSUME TypeOK, Structure, ReservationsAccounted, ReservedWithinCap, [Next]_vars
             PROVE  ReservationsAccounted' /\ ReservedWithinCap'
  OBVIOUS
<1> USE QuoteAssumption
<1>0. \A q \in Quote : Give[q] \in Nat /\ Float[q] \in Nat
  BY Amounts
<1>a. ASSUME Holders' = Holders, FloatHolders' = FloatHolders,
             reserved' = reserved, reservedFloat' = reservedFloat
      PROVE  ReservationsAccounted' /\ ReservedWithinCap'
  BY <1>a DEF ReservationsAccounted, ReservedWithinCap
<1>1. CASE Crash
  <2>1. Holders' = {} /\ FloatHolders' = {}
    BY <1>1 DEF Crash, Holders, FloatHolders, Holding, HoldingFloat, TypeOK, Steps
  <2> QED
    BY <1>1, <2>1, TotalEmpty DEF Crash, ReservationsAccounted, ReservedWithinCap
<1>2. ASSUME NEW q \in Quote, QuoteStep(q) PROVE ReservationsAccounted' /\ ReservedWithinCap'
  <2>1. CASE Begin(q) \/ Decline(q) \/ CheckOwn(q) \/ CheckPeer(q)
    <3>1. Holders' = Holders
      BY <2>1 DEF Begin, Decline, CheckOwn, CheckPeer, Step, TypeOK, Holders, Holding
    <3>2. FloatHolders' = FloatHolders
      BY <2>1 DEF Begin, Decline, CheckOwn, CheckPeer, Step, TypeOK, FloatHolders,
                  HoldingFloat, UsesFloat
    <3>3. reserved' = reserved /\ reservedFloat' = reservedFloat
      BY <2>1 DEF Begin, Decline, CheckOwn, CheckPeer
    <3> QED
      BY <1>a, <3>1, <3>2, <3>3
  <2>2. CASE lightningFloatRequirement(q) \/ Admit(q) \/ ReadOwed(q) \/ insertQuote(q) \/ InsertFails(q)
    <3> USE DEF lightningFloatRequirement, Admit, ReadOwed, insertQuote, InsertFails, Step
    <3>1. Holders' = Holders
      BY <2>2 DEF TypeOK, Holders, Holding
    <3>2. FloatHolders' = FloatHolders
      BY <2>2 DEF TypeOK, FloatHolders, HoldingFloat, UsesFloat
    <3>3. reserved' = reserved /\ reservedFloat' = reservedFloat
      BY <2>2
    <3> QED
      BY <1>a, <3>1, <3>2, <3>3
  <2>3. CASE claimExposure(q) /\ ~ExposureFits(q)
    <3>1. Holders' = Holders
      BY <2>3 DEF claimExposure, TypeOK, Holders, Holding
    <3>2. FloatHolders' = FloatHolders
      BY <2>3 DEF claimExposure, TypeOK, FloatHolders, HoldingFloat, UsesFloat
    <3> QED
      BY <1>a, <2>3, <3>1, <3>2 DEF claimExposure
  <2>4. CASE claimExposure(q) /\ ExposureFits(q)
    <3>1. Holders' = Holders \cup {q} /\ q \notin Holders
      <4>1. CASE UsesFloat(q)
        BY <2>4, <4>1 DEF claimExposure, TypeOK, Holders, Holding
      <4>2. CASE ~UsesFloat(q)
        BY <2>4, <4>2 DEF claimExposure, TypeOK, Holders, Holding
      <4> QED
        BY <4>1, <4>2
    <3>2. FloatHolders' = FloatHolders
      <4>1. CASE UsesFloat(q)
        BY <2>4, <4>1 DEF claimExposure, TypeOK, FloatHolders, HoldingFloat, UsesFloat
      <4>2. CASE ~UsesFloat(q)
        BY <2>4, <4>2 DEF claimExposure, TypeOK, FloatHolders, HoldingFloat, UsesFloat
      <4> QED
        BY <4>1, <4>2
    <3>3. Total(Give, Holders \cup {q}) = Total(Give, Holders) + Give[q]
      BY <3>1, TotalAdd, Amounts
    <3>4. reserved' = reserved + Give[q] /\ reservedFloat' = reservedFloat
      BY <2>4 DEF claimExposure
    <3>5. ReservationsAccounted'
      BY <3>1, <3>2, <3>3, <3>4 DEF ReservationsAccounted
    <3>6. committed[q] \in Nat /\ reserved \in Nat /\ Give[q] \in Nat
      BY <1>0 DEF TypeOK
    <3>7. committed[q] + reserved + Give[q] <= CapSats
      BY <2>4 DEF ExposureFits
    <3>8. ReservedWithinCap'
      BY <3>4, <3>6, <3>7 DEF ReservedWithinCap
    <3> QED
      BY <3>5, <3>8
  <2>5. CASE claimFloat(q) /\ FloatFits(q)
    <3>1. Holders' = Holders
      BY <2>5 DEF claimFloat, TypeOK, Holders, Holding
    <3>2. UsesFloat(q)
      BY <2>5 DEF claimFloat, Structure, FloatUsed
    <3>3. FloatHolders' = FloatHolders \cup {q} /\ q \notin FloatHolders
      BY <2>5, <3>2 DEF claimFloat, TypeOK, FloatHolders, HoldingFloat, UsesFloat
    <3>4. Total(Float, FloatHolders \cup {q}) = Total(Float, FloatHolders) + Float[q]
      BY <3>3, TotalAdd, Amounts
    <3>5. reserved' = reserved /\ reservedFloat' = reservedFloat + Float[q]
      BY <2>5 DEF claimFloat
    <3> QED
      BY <3>1, <3>3, <3>4, <3>5 DEF ReservationsAccounted, ReservedWithinCap
  <2>6. CASE claimFloat(q) /\ ~FloatFits(q)
    <3>1. Holders' = Holders \ {q} /\ q \in Holders
      BY <2>6 DEF claimFloat, TypeOK, Holders, Holding
    <3>2. FloatHolders' = FloatHolders
      BY <2>6 DEF claimFloat, TypeOK, FloatHolders, HoldingFloat, UsesFloat
    <3>3. Total(Give, Holders \ {q}) = Total(Give, Holders) - Give[q]
      BY <3>1, TotalRemove, Amounts
    <3>4. reserved' = reserved - Give[q] /\ reservedFloat' = reservedFloat
      BY <2>6 DEF claimFloat
    <3>5. ReservationsAccounted'
      BY <3>1, <3>2, <3>3, <3>4 DEF ReservationsAccounted
    <3>6. reserved \in Nat /\ Give[q] \in Nat
      BY <1>0 DEF TypeOK
    <3>7. ReservedWithinCap'
      BY <3>4, <3>6 DEF ReservedWithinCap
    <3> QED
      BY <3>5, <3>7
  <2>7. CASE Release(q)
    <3>1. Holders' = Holders \ {q} /\ q \in Holders
      BY <2>7 DEF Release, TypeOK, Holders, Holding
    <3>2. FloatHolders' = FloatHolders \ {q}
      BY <2>7 DEF Release, TypeOK, FloatHolders, HoldingFloat, UsesFloat
    <3>3. Total(Give, Holders \ {q}) = Total(Give, Holders) - Give[q]
      BY <3>1, TotalRemove, Amounts
    <3>4. reserved' = reserved - Give[q]
      BY <2>7 DEF Release
    <3>5. reserved \in Nat /\ Give[q] \in Nat
      BY <1>0 DEF TypeOK
    <3>6. ReservedWithinCap'
      BY <3>4, <3>5 DEF ReservedWithinCap
    <3>7. CASE UsesFloat(q)
      <4>1. q \in FloatHolders
        BY <2>7, <3>7 DEF Release, FloatHolders, HoldingFloat
      <4>2. Total(Float, FloatHolders \ {q}) = Total(Float, FloatHolders) - Float[q]
        BY <4>1, TotalRemove, Amounts
      <4>3. reservedFloat' = reservedFloat - Float[q]
        BY <2>7, <3>7 DEF Release
      <4> QED
        BY <3>1, <3>2, <3>3, <3>4, <3>6, <4>2, <4>3 DEF ReservationsAccounted
    <3>8. CASE ~UsesFloat(q)
      <4>1. FloatHolders \ {q} = FloatHolders
        BY <3>8 DEF FloatHolders
      <4>2. reservedFloat' = reservedFloat
        BY <2>7, <3>8 DEF Release
      <4> QED
        BY <3>1, <3>2, <3>3, <3>4, <3>6, <4>1, <4>2 DEF ReservationsAccounted
    <3> QED
      BY <3>7, <3>8
  <2> QED
    BY <1>2, <2>1, <2>2, <2>3, <2>4, <2>5, <2>6, <2>7 DEF QuoteStep
<1>3. ASSUME NEW q \in Quote, RowStep(q) PROVE ReservationsAccounted' /\ ReservedWithinCap'
  <2>1. /\ UNCHANGED <<pc, candidate, reserved, reservedFloat>>
    BY <1>3 DEF RowStep, PayLightning, RecordPaid, PaymentReturned, Close, Refuse, LockupReturned
  <2>2. Holders' = Holders /\ FloatHolders' = FloatHolders
    BY <2>1 DEF Holders, FloatHolders, UsesFloat
  <2> QED
    BY <1>a, <2>1, <2>2
<1>4. CASE UNCHANGED vars
  <2>1. Holders' = Holders /\ FloatHolders' = FloatHolders
    BY <1>4 DEF vars, Holders, FloatHolders, UsesFloat
  <2> QED
    BY <1>a, <1>4, <2>1 DEF vars
<1> QED
  BY <1>1, <1>2, <1>3, <1>4 DEF Next

----------------------------------------------------------------------------
(* Every step but a successful claim leaves the rows and claims there were,  *)
(* or fewer.                                                                 *)
LEMMA OnlyClaimsAdd ==
  ASSUME TypeOK, Structure, [Next]_vars,
         ~\E q \in Quote : claimExposure(q) /\ ExposureFits(q)
  PROVE  (Live \cup Unlanded)' \subseteq Live \cup Unlanded
<1> USE QuoteAssumption
<1> USE DEF Live, Unlanded, LiveStates, Holding, TypeOK
<1>1. CASE Crash
  BY <1>1 DEF Crash
<1>2. ASSUME NEW q \in Quote, QuoteStep(q)
      PROVE  (Live \cup Unlanded)' \subseteq Live \cup Unlanded
  <2>1. CASE Begin(q) \/ Decline(q) \/ CheckOwn(q) \/ CheckPeer(q)
    BY <2>1 DEF Begin, Decline, CheckOwn, CheckPeer, Step
  <2>2. CASE lightningFloatRequirement(q) \/ Admit(q) \/ ReadOwed(q) \/ InsertFails(q)
    BY <2>2 DEF lightningFloatRequirement, Admit, ReadOwed, InsertFails, Step
  <2>3. CASE claimExposure(q)
    <3>1. ~ExposureFits(q)
      BY <2>3
    <3> QED
      BY <2>3, <3>1 DEF claimExposure
  <2>4. CASE claimFloat(q)
    BY <2>4 DEF claimFloat
  <2>5. CASE insertQuote(q)
    <3>1. row[q] = "none"
      BY <2>5 DEF insertQuote, Step, Structure, RowsHaveLanded
    <3> QED
      BY <2>5, <3>1 DEF insertQuote, Step
  <2>6. CASE Release(q)
    BY <2>6 DEF Release
  <2> QED
    BY <1>2, <2>1, <2>2, <2>3, <2>4, <2>5, <2>6 DEF QuoteStep
<1>3. ASSUME NEW q \in Quote, RowStep(q)
      PROVE  (Live \cup Unlanded)' \subseteq Live \cup Unlanded
  BY <1>3 DEF RowStep, PayLightning, RecordPaid, PaymentReturned, Close, Refuse, LockupReturned
<1>4. CASE UNCHANGED vars
  BY <1>4 DEF vars
<1> QED
  BY <1>1, <1>2, <1>3, <1>4 DEF Next

(* Exposure is a natural number, and at most the rows and the claims. *)
LEMMA ExposureSplit ==
  Exposure \in Nat /\ Exposure <= totalCommitted + Total(Give, Holders)
<1>1. Live \cup Unlanded \in SUBSET Quote /\ Unlanded \in SUBSET Holders
  BY Amounts DEF Unlanded, Holders
<1>2. Exposure \in Nat
  BY <1>1, Amounts, TotalMonotone DEF Exposure
<1>3. Exposure <= totalCommitted + Total(Give, Unlanded)
  BY TotalUnion, Amounts DEF Exposure, totalCommitted
<1>4. Total(Give, Unlanded) \in Nat /\ Total(Give, Holders) \in Nat
      /\ Total(Give, Unlanded) <= Total(Give, Holders)
  BY <1>1, Amounts, TotalMonotone
<1> QED
  BY <1>2, <1>3, <1>4, TotalsAreNat

(* No step takes what is exposed over twice the cap. *)
LEMMA ExposureStep ==
  TypeOK /\ Structure /\ ReservationsAccounted /\ ReservedWithinCap
    /\ SnapshotSound /\ ExposureBounded /\ [Next]_vars
    => SnapshotSound' /\ ExposureBounded'
<1> SUFFICES ASSUME TypeOK, Structure, ReservationsAccounted, ReservedWithinCap,
                    SnapshotSound, ExposureBounded, [Next]_vars
             PROVE  SnapshotSound' /\ ExposureBounded'
  OBVIOUS
<1> USE QuoteAssumption
<1>0. Exposure \in Nat /\ CapSats \in Nat
  BY ExposureSplit
<1>1. ASSUME NEW q \in Quote, claimExposure(q), ExposureFits(q)
      PROVE  SnapshotSound' /\ ExposureBounded'
  <2>1. /\ pc[q] = "exposure" /\ row' = row
        /\ pc' = [pc EXCEPT ![q] = IF UsesFloat(q) THEN "owed" ELSE "insert"]
    BY <1>1 DEF claimExposure
  <2>2. (Live \cup Unlanded)' \subseteq (Live \cup Unlanded) \cup {q}
    BY <2>1 DEF Live, Unlanded, Holding, TypeOK
  <2>3. Exposure' \in Nat /\ Exposure' <= Exposure + Give[q]
    <3> DEFINE E == Live \cup Unlanded
    <3>1. E \in SUBSET Quote /\ E \cup {q} \in SUBSET Quote /\ {q} \in SUBSET Quote
      BY Amounts
    <3>2. Total(Give, E') <= Total(Give, E \cup {q}) /\ Total(Give, E') \in Nat
          /\ Total(Give, E \cup {q}) \in Nat
      BY <2>2, <3>1, TotalMonotone, Amounts
    <3>3. Total(Give, E \cup {q}) <= Total(Give, E) + Total(Give, {q})
      BY <3>1, TotalUnion, Amounts
    <3>4. Total(Give, {} \cup {q}) = Total(Give, {}) + Give[q]
      BY TotalAdd, Amounts
    <3>5. Total(Give, {q}) = Give[q]
      BY <3>4, TotalEmpty, Amounts
    <3>6. Exposure = Total(Give, E) /\ Exposure' = Total(Give, E')
      BY DEF Exposure
    <3>7. Give[q] \in Nat
      BY Amounts
    <3> HIDE DEF E
    <3> QED
      BY <1>0, <3>2, <3>3, <3>5, <3>6, <3>7
  <2>4. committed[q] + reserved + Give[q] <= CapSats
    BY <1>1 DEF ExposureFits
  <2>5. Exposure <= committed[q] + CapSats
    BY <2>1 DEF SnapshotSound
  <2>6. committed[q] \in Nat /\ reserved \in Nat /\ Give[q] \in Nat
    BY Amounts DEF TypeOK
  <2>7. ExposureBounded'
    BY <1>0, <2>3, <2>4, <2>5, <2>6 DEF ExposureBounded
  <2>8. \A p \in Quote : pc'[p] # "exposure"
    BY <2>1 DEF Structure, LockHeld, TypeOK
  <2> QED
    BY <2>7, <2>8 DEF SnapshotSound
<1>2. ASSUME ~\E q \in Quote : claimExposure(q) /\ ExposureFits(q)
      PROVE  SnapshotSound' /\ ExposureBounded'
  <2>1. (Live \cup Unlanded)' \subseteq Live \cup Unlanded
    BY <1>2, OnlyClaimsAdd
  <2>2. Exposure' \in Nat /\ Exposure' <= Exposure
    <3>1. Live \cup Unlanded \in SUBSET Quote
      BY Amounts
    <3> QED
      BY <2>1, <3>1, TotalMonotone, Amounts DEF Exposure
  <2>3. ExposureBounded'
    BY <1>0, <2>2 DEF ExposureBounded
  <2>4. ASSUME NEW p \in Quote, pc'[p] = "exposure"
        PROVE  Exposure' <= committed'[p] + CapSats
    <3>1. CASE pc[p] = "exposure" /\ committed' = committed
      <4>1. committed[p] \in Nat /\ Exposure <= committed[p] + CapSats
        BY <3>1 DEF TypeOK, SnapshotSound
      <4> QED
        BY <1>0, <2>2, <3>1, <4>1
    <3>2. CASE Admit(p)
      <4>1. committed'[p] = totalCommitted
        BY <3>2 DEF Admit, TypeOK
      <4>2. Total(Give, Holders) <= CapSats /\ Total(Give, Holders) \in Nat
        BY TotalMonotone, Amounts DEF ReservationsAccounted, ReservedWithinCap
      <4> QED
        BY <1>0, <2>2, <4>1, <4>2, ExposureSplit, TotalsAreNat
    <3>3. (pc[p] = "exposure" /\ committed' = committed) \/ Admit(p)
      <4> USE DEF TypeOK
      <4>1. CASE Crash
        BY <2>4, <4>1 DEF Crash
      <4>2. ASSUME NEW q \in Quote, QuoteStep(q)
            PROVE  (pc[p] = "exposure" /\ committed' = committed) \/ Admit(p)
        <5>1. CASE Admit(q)
          <6>1. CASE q = p
            BY <5>1, <6>1
          <6>2. CASE q # p
            BY <2>4, <5>1, <6>2 DEF Admit, Step, Structure, LockHeld
          <6> QED
            BY <6>1, <6>2
        <5>2. CASE claimExposure(q)
          BY <2>4, <5>2 DEF claimExposure
        <5>3. CASE QuoteStep(q) /\ ~Admit(q) /\ ~claimExposure(q)
          BY <2>4, <5>3 DEF QuoteStep, Begin, Decline, CheckOwn, CheckPeer, lightningFloatRequirement,
                            ReadOwed, claimFloat, insertQuote, InsertFails, Release, Step
        <5> QED
          BY <4>2, <5>1, <5>2, <5>3
      <4>3. ASSUME NEW q \in Quote, RowStep(q)
            PROVE  (pc[p] = "exposure" /\ committed' = committed) \/ Admit(p)
        BY <2>4, <4>3 DEF RowStep, PayLightning, RecordPaid, PaymentReturned, Close, Refuse, LockupReturned
      <4>4. CASE UNCHANGED vars
        BY <2>4, <4>4 DEF vars
      <4> QED
        BY <4>1, <4>2, <4>3, <4>4 DEF Next
    <3> QED
      BY <3>1, <3>2, <3>3
  <2> QED
    BY <2>3, <2>4 DEF SnapshotSound
<1> QED
  BY <1>1, <1>2

----------------------------------------------------------------------------
(* A step adds a blocking row only where there was none on that hash in that *)
(* corridor: the guard is part of the INSERT.                                *)
LEMMA OneRowStep ==
  TypeOK /\ OneRowPerCorridorHash /\ [Next]_vars => OneRowPerCorridorHash'
<1> SUFFICES ASSUME TypeOK, OneRowPerCorridorHash, [Next]_vars,
                    NEW c \in Corridor, NEW h \in Hash
             PROVE  Cardinality(Blocking(c, h)') <= 1
  BY DEF OneRowPerCorridorHash
<1> USE QuoteAssumption
<1>0. Cardinality(Blocking(c, h)) <= 1 /\ IsFiniteSet(Blocking(c, h))
  <2>1. Blocking(c, h) \in SUBSET Quote
    BY DEF Blocking
  <2> QED
    BY <2>1, FS_Subset DEF OneRowPerCorridorHash
<1>a. ASSUME Blocking(c, h)' \subseteq Blocking(c, h)
      PROVE  Cardinality(Blocking(c, h)') <= 1
  <2>1. Cardinality(Blocking(c, h)') <= Cardinality(Blocking(c, h))
    BY <1>0, <1>a, FS_Subset
  <2>2. Cardinality(Blocking(c, h)') \in Nat /\ Cardinality(Blocking(c, h)) \in Nat
    BY <1>0, <1>a, FS_Subset, FS_CardinalityType
  <2> QED
    BY <1>0, <2>1, <2>2
<1>1. ASSUME NEW q \in Quote, insertQuote(q)
      PROVE  Cardinality(Blocking(c, h)') <= 1
  <2>1. CASE findLiveByPaymentHash(CorridorOf[q], HashOf[q])
    <3>1. Blocking(c, h)' = Blocking(c, h)
      BY <1>1, <2>1 DEF insertQuote, Blocking
    <3> QED
      BY <1>a, <3>1
  <2>2. CASE ~findLiveByPaymentHash(CorridorOf[q], HashOf[q])
    <3>1. row' = [row EXCEPT ![q] = "quoted"]
      BY <1>1, <2>2 DEF insertQuote
    <3>2. CASE CorridorOf[q] = c /\ HashOf[q] = h
      <4>1. Blocking(c, h)' = {q}
        BY <2>2, <3>1, <3>2 DEF findLiveByPaymentHash, Blocking, TypeOK
      <4> QED
        BY <4>1, FS_Singleton
    <3>3. CASE ~(CorridorOf[q] = c /\ HashOf[q] = h)
      <4>1. Blocking(c, h)' \subseteq Blocking(c, h)
        BY <3>1, <3>3 DEF Blocking, TypeOK
      <4> QED
        BY <1>a, <4>1
    <3> QED
      BY <3>2, <3>3
  <2> QED
    BY <2>1, <2>2
<1>2. ASSUME NEW q \in Quote, RowStep(q)
      PROVE  Cardinality(Blocking(c, h)') <= 1
  <2>1. Blocking(c, h)' \subseteq Blocking(c, h)
    BY <1>2 DEF RowStep, PayLightning, RecordPaid, PaymentReturned, Close, Refuse, LockupReturned, Blocking, TypeOK
  <2> QED
    BY <1>a, <2>1
<1>3. CASE row' = row
  <2>1. Blocking(c, h)' = Blocking(c, h)
    BY <1>3 DEF Blocking
  <2> QED
    BY <1>a, <2>1
<1>4. row' = row \/ (\E q \in Quote : insertQuote(q) \/ RowStep(q))
  BY DEF Next, vars, Crash, QuoteStep, Begin, Decline, CheckOwn, CheckPeer,
         lightningFloatRequirement, Admit, claimExposure, ReadOwed, claimFloat, InsertFails, Release
<1> QED
  BY <1>1, <1>2, <1>3, <1>4

----------------------------------------------------------------------------
(* Everything the invariant says holds before the first quote. *)
LEMMA AdmissionInit == Init => AdmissionInv
<1> SUFFICES ASSUME Init PROVE AdmissionInv
  OBVIOUS
<1> USE QuoteAssumption
<1>1. Live = {} /\ Unlanded = {} /\ Holders = {} /\ FloatHolders = {}
  BY DEF Init, Live, LiveStates, Unlanded, Holders, FloatHolders, Holding, HoldingFloat
<1>2. TypeOK
  <2>1. <<>> \in Seq(Corridor)
    OBVIOUS
  <2> QED
    BY <2>1 DEF Init, TypeOK, Steps, RowStates
<1>3. Structure
  BY DEF Init, Structure, LockHeld, FloatUsed, RowsHaveLanded
<1>4. ReservationsAccounted /\ ReservedWithinCap
  BY <1>1, TotalEmpty DEF Init, ReservationsAccounted, ReservedWithinCap
<1>5. SnapshotSound /\ ExposureBounded
  <2>1. Exposure = 0
    BY <1>1, TotalEmpty DEF Exposure
  <2> QED
    BY <2>1 DEF Init, SnapshotSound, ExposureBounded
<1>6. OneRowPerCorridorHash
  <2>1. ASSUME NEW c \in Corridor, NEW h \in Hash PROVE Cardinality(Blocking(c, h)) <= 1
    <3>1. Blocking(c, h) = {}
      BY DEF Init, Blocking
    <3>2. Cardinality(Blocking(c, h)) = 0
      BY <3>1, FS_EmptySet
    <3> QED
      BY <3>2
  <2> QED
    BY <2>1 DEF OneRowPerCorridorHash
<1> QED
  BY <1>2, <1>3, <1>4, <1>5, <1>6 DEF AdmissionInv

(* The invariant is inductive. *)
LEMMA AdmissionStep == AdmissionInv /\ [Next]_vars => AdmissionInv'
BY TypeStep, StructureStep, AccountsStep, ExposureStep, OneRowStep DEF AdmissionInv

(* Whatever quotes arrive and however they interleave with each other, with  *)
(* the rows of earlier swaps and with crashes, the inductive invariant of    *)
(* admission holds.                                                          *)
THEOREM AdmissionInvariant == Spec => []AdmissionInv
BY AdmissionInit, AdmissionStep, PTL DEF Spec

(* Types: above all, neither reservation counter ever goes below zero,       *)
(* whichever of its four hand-back paths a quote leaves by.                  *)
THEOREM TypeCorrect == Spec => []TypeOK
<1>1. AdmissionInv => TypeOK
  BY DEF AdmissionInv
<1> QED
  BY <1>1, AdmissionInvariant, PTL

(* AdmissionControl's counters are exactly the claims of the quotes in       *)
(* flight, for any number of quotes and any amounts.                         *)
THEOREM ReservationsExact == Spec => []ReservationsAccounted
<1>1. AdmissionInv => ReservationsAccounted
  BY DEF AdmissionInv
<1> QED
  BY <1>1, AdmissionInvariant, PTL

(* The overshoot of the exposure cap that a stale total allows is never more *)
(* than the cap once over, for any number of quotes, amounts and cap.        *)
THEOREM ExposureAtMostTwiceCap == Spec => []ExposureBounded
<1>1. AdmissionInv => ExposureBounded
  BY DEF AdmissionInv
<1> QED
  BY <1>1, AdmissionInvariant, PTL

(* No corridor ever holds two rows that block the same payment hash.         *)
THEOREM HashUniquePerCorridor == Spec => []OneRowPerCorridorHash
<1>1. AdmissionInv => OneRowPerCorridorHash
  BY DEF AdmissionInv
<1> QED
  BY <1>1, AdmissionInvariant, PTL
============================================================================
