----------------------------- MODULE CoinPool -----------------------------
(***************************************************************************)
(* The shape of the Arkade float: planPool cuts large coins into the sizes *)
(* swaps need and merges small ones (arkade/vtxoPool.ts), a renewal splits *)
(* coins about to expire (arkade/vtxoLifecycle.ts), and a lockup picks its *)
(* coins (arkade/lockupFunding.ts).  The wallet lists coins in an order of *)
(* its own; here they are kept sorted.                                     *)
(***************************************************************************)
EXTENDS Integers, Sequences, FiniteSets, SequencesExt, TLC

CONSTANTS
  Deposits,       \* amounts that may arrive
  Amounts,        \* amounts of lockups to fund
  MaxSats,        \* limits.maxSats
  MaxExposed,     \* maxExposedSats
  MaxCount,       \* coins the pool may hold before it consolidates
  MaxInputs,      \* inputs a reshape starts with
  TooLarge,       \* inputs at which the server answers TX_TOO_LARGE
  MaxOutputs,     \* MAX_SPLIT_OUTPUTS
  Dust,           \* the server's dust, and its least VTXO
  MaxAmount,      \* the server's ceiling on one output, -1 for none
  OutputFee,      \* its fee on one renewed output
  MaxEvents       \* bound on deposits, lockups and coins that come due

VARIABLES
  coins,    \* the float's unreserved coins
  inputs,   \* maxInputs of the reshape in progress
  events

vars == <<coins, inputs, events>>

Coin(value) == [value |-> value, expiry |-> 2, assets |-> FALSE]
(* FoldLeft, with every intermediate result computed once. *)
Fold(op(_, _), base, seq) ==
  LET f[i \in 0..Len(seq)] == IF i = 0 THEN base ELSE CHOOSE r \in {op(acc, seq[i]) : acc \in {f[i - 1]}} : TRUE
  IN f[Len(seq)]
SumOf(s) == Fold(LAMBDA sum, x : sum + x, 0, s)
Values(cs) == [i \in DOMAIN cs |-> cs[i].value]
At(cs, order) == [i \in DOMAIN order |-> cs[order[i]]]
Indices(cs, S) == SelectSeq([i \in 1..Len(cs) |-> i], LAMBDA i : i \in S)
Sorted(cs, S, Before(_, _)) == SortSeq(Indices(cs, S), LAMBDA i, j : Before(i, j) \/ (~Before(j, i) /\ i < j))

Lower(a, b) == \/ a.value < b.value
               \/ a.value = b.value /\ a.expiry < b.expiry
               \/ a.value = b.value /\ a.expiry = b.expiry /\ a.assets /\ ~b.assets
Listed(cs) == At(cs, Sorted(cs, DOMAIN cs, LAMBDA i, j : Lower(cs[i], cs[j])))
Without(cs, S) == At(cs, Indices(cs, DOMAIN cs \ S))

(* usableSatsOf: the sats under an asset are not for spending. *)
Usable(c) == IF c.assets THEN c.value - Dust ELSE c.value
Due(c) == c.expiry = 1
RenewalDue(c) == Due(c) /\ (MaxAmount < 0 \/ c.value <= MaxAmount)

Least(a, b) == IF a < b THEN a ELSE b
Most(a, b) == IF a < b THEN b ELSE a

(* poolTarget: twice as many small coins as swaps at once, and one large more. *)
Concurrent == Most(1, MaxExposed \div Most(1, MaxSats))
Target == << [size |-> Most(1, MaxSats \div 4), want |-> 2 * Concurrent],
             [size |-> MaxSats, want |-> Concurrent + 1] >>
Smallest == Target[1].size
Largest == Target[2].size
RungOf(v) == IF v >= Target[2].size THEN 2 ELSE IF v >= Target[1].size THEN 1 ELSE 0
Ceiling == Most(MaxCount, Target[1].want + Target[2].want)

(* The coins a rung has use for, latest expiry first. *)
Kept(cs) ==
  LET latestFirst == Sorted(cs, DOMAIN cs, LAMBDA i, j : cs[i].expiry > cs[j].expiry)
      keep(acc, i) ==
        LET r == RungOf(Usable(cs[i]))
        IN IF r = 0 \/ Usable(cs[i]) >= 2 * Largest \/ acc.have[r] >= Target[r].want THEN acc
           ELSE [set |-> acc.set \cup {i}, have |-> [acc.have EXCEPT ![r] = @ + 1]]
  IN Fold(keep, [set |-> {}, have |-> <<0, 0>>], latestFirst)

Take(cs, order, enough(_, _), limit) ==
  Fold(LAMBDA acc, i : IF Len(acc.at) >= limit \/ enough(acc.gross, cs[i].value) THEN acc
                           ELSE [at |-> Append(acc.at, i), gross |-> acc.gross + cs[i].value],
           [at |-> <<>>, gross |-> 0], order)

(* Pieces of the sizes that are short, one of each at a time. *)
RECURSIVE CutRound(_, _), Cut(_, _), GrowTail(_, _), FitTail(_, _)
Fits(r) == Target[r].size >= Dust /\ (MaxAmount < 0 \/ Target[r].size <= MaxAmount)
CutRound(st, slots) ==
  Fold(LAMBDA acc, r : IF Len(acc.pieces) < slots - 1 /\ Fits(r) /\ acc.missing[r] > 0 /\ acc.left >= Target[r].size
                           THEN [pieces |-> Append(acc.pieces, Target[r].size),
                                 left |-> acc.left - Target[r].size,
                                 missing |-> [acc.missing EXCEPT ![r] = @ - 1]]
                           ELSE acc, st, <<1, 2>>)
Cut(st, slots) == LET next == CutRound(st, slots) IN IF next = st THEN st ELSE Cut(next, slots)

(* What is left over joins the last pieces until it is no dust, and goes out  *)
(* in even chunks under the ceiling.                                          *)
Undo(st) == [st EXCEPT !.left = @ + Last(st.pieces), !.pieces = Front(@)]
ChunksOf(left) == IF MaxAmount >= 0 /\ left > MaxAmount THEN (left + MaxAmount - 1) \div MaxAmount
                  ELSE IF left > 0 THEN 1 ELSE 0
LeftIsDust(st) == st.left > 0 /\ st.left < Dust /\ st.pieces # <<>>
GrowTail(st, slots) == IF LeftIsDust(st) THEN GrowTail(Undo(st), slots) ELSE st
FitTail(st, slots) ==
  IF MaxAmount >= 0 /\ st.left > MaxAmount /\ st.pieces # <<>> /\ Len(st.pieces) + ChunksOf(st.left) > slots
  THEN FitTail(Undo(st), slots) ELSE st
Evenly(sum, parts) == [i \in 1..parts |-> sum \div parts + IF i <= sum % parts THEN 1 ELSE 0]

(* What a plan may take: no coin of a rung, and none a renewal will reshape. *)
Loose(cs, kept) == {i \in DOMAIN cs : i \notin kept.set /\ ~RenewalDue(cs[i])}

Nothing == [inputs |-> {}, outputs |-> <<>>, carrier |-> 0, merge |-> FALSE]

(* The plan is to merge loose coins at the ceiling, to cut some when a rung   *)
(* is short, or nothing.                                                      *)
Older(a, b) == a.expiry < b.expiry \/ (a.expiry = b.expiry /\ a.value < b.value)
AtCeiling(cs) == Len(cs) >= Ceiling
Need(missing) == Dust + missing[1] * Target[1].size + missing[2] * Target[2].size
Inputs(cs, kept, missing, limit) ==
  IF AtCeiling(cs)
  THEN Take(cs, Sorted(cs, Loose(cs, kept), LAMBDA i, j : Older(cs[i], cs[j])),
            LAMBDA gross, v : MaxAmount >= 0 /\ gross + v > (MaxOutputs - 1) * MaxAmount, limit)
  ELSE Take(cs, Sorted(cs, Loose(cs, kept), LAMBDA i, j : cs[i].value > cs[j].value),
            LAMBDA gross, v : gross >= Need(missing), limit)
Slots(cs, taken, extra) ==
  IF AtCeiling(cs) THEN MaxOutputs - extra
  ELSE Least(MaxOutputs - extra, Ceiling - (Len(cs) - Len(taken.at)) - extra)
Carve(gross, missing, slots) ==
  FitTail(GrowTail(Cut([pieces |-> <<>>, left |-> gross, missing |-> missing], slots), slots), slots)
Bounded(v) == v >= Dust /\ (MaxAmount < 0 \/ v <= MaxAmount)
(* A merge must lose a coin; a cut must make a piece. *)
Judged(cs, taken, carrier, slots, cut, outputs) ==
  IF /\ Len(outputs) <= slots /\ \A k \in DOMAIN outputs : Bounded(outputs[k])
     /\ IF AtCeiling(cs) THEN cut.left >= 0 /\ Len(outputs) + (IF carrier > 0 THEN 1 ELSE 0) < Len(taken.at)
                         ELSE cut.pieces # <<>>
  THEN [inputs |-> {taken.at[k] : k \in DOMAIN taken.at}, outputs |-> outputs, carrier |-> carrier, merge |-> AtCeiling(cs)]
  ELSE Nothing
PlanOut(cs, taken, carrier, slots, cut) ==
  IF slots < 2 THEN Nothing ELSE Judged(cs, taken, carrier, slots, cut, cut.pieces \o Evenly(cut.left, ChunksOf(cut.left)))
PlanCut(cs, taken, missing, carrier, slots) ==
  PlanOut(cs, taken, carrier, slots, Carve(taken.gross - carrier, missing, slots))
PlanIn(cs, taken, missing, carrier) ==
  PlanCut(cs, taken, missing, carrier, Slots(cs, taken, IF carrier > 0 THEN 1 ELSE 0))
PlanFor(cs, missing, taken) ==
  IF IF AtCeiling(cs) THEN Len(taken.at) < 2 ELSE taken.at = <<>> \/ missing = <<0, 0>> THEN Nothing
  ELSE PlanIn(cs, taken, missing, IF \E k \in DOMAIN taken.at : cs[taken.at[k]].assets THEN Dust ELSE 0)
PlanKeeping(cs, kept, missing, limit) ==
  IF MaxAmount >= 0 /\ MaxAmount < Dust THEN Nothing ELSE PlanFor(cs, missing, Inputs(cs, kept, missing, limit))
PlanWith(cs, kept, limit) == PlanKeeping(cs, kept, [r \in {1, 2} |-> Target[r].want - kept.have[r]], limit)
planPool(cs, limit) == PlanWith(cs, Kept(cs), limit)

Reshaped(cs, plan) ==
  Listed(Without(cs, plan.inputs)
         \o [i \in DOMAIN plan.outputs |-> Coin(plan.outputs[i])]
         \o IF plan.carrier > 0 THEN <<[Coin(plan.carrier) EXCEPT !.assets = TRUE]>> ELSE <<>>)

----------------------------------------------------------------------------
(* splitRenewalOutputs: the coins due go out as pieces of the target sizes,   *)
(* largest first, then as full outputs, the rest in one more.                 *)
Cost(amount) == amount + OutputFee
TailSlots(value) == (value + Cost(MaxAmount) - 1) \div Cost(MaxAmount)
Capped(amount) == IF MaxAmount >= 0 THEN Least(amount, MaxAmount) ELSE amount

RECURSIVE Rung(_, _, _), Full(_)
MayCut(st, size) ==
  /\ st.left - Cost(size) >= Dust
  /\ MaxAmount >= 0 => Len(st.pieces) + 1 + TailSlots(st.left - Cost(size)) <= MaxOutputs
Rung(st, size, want) ==
  IF want > 0 /\ Len(st.pieces) < MaxOutputs - 1 /\ MayCut(st, size)
  THEN Rung([pieces |-> Append(st.pieces, size), left |-> st.left - Cost(size)], size, want - 1)
  ELSE st
Full(st) ==
  IF MaxAmount >= Dust /\ Len(st.pieces) < MaxOutputs - 1 /\ st.left - OutputFee > MaxAmount
  THEN Full([pieces |-> Append(st.pieces, MaxAmount), left |-> st.left - Cost(MaxAmount)])
  ELSE st

LastPiece(st, last) ==
  IF last >= Dust THEN Append(st.pieces, last)
  ELSE IF st.pieces = <<>> THEN <<>>
  ELSE Append(Front(st.pieces), Capped(st.left + Last(st.pieces)))
Closed(st) == LastPiece(st, Capped(st.left - OutputFee))
RungCut(st, r) == IF Fits(r) THEN Rung(st, Target[r].size, Target[r].want) ELSE st
splitRenewalOutputs(gross) ==
  IF gross <= 0 THEN <<>> ELSE Closed(Full(Fold(RungCut, [pieces |-> <<>>, left |-> gross], <<2, 1>>)))

(* renewExpiringVtxos: the due coins that can be renewed whole, as many as    *)
(* the outputs can carry.                                                     *)
RenewalInputs(cs) ==
  LET due == {i \in DOMAIN cs : Due(cs[i]) /\ (MaxAmount < 0 \/ cs[i].value - OutputFee <= MaxAmount)}
      capacity == MaxOutputs * Cost(MaxAmount)
  IN Take(cs, Indices(cs, due), LAMBDA gross, v : MaxAmount >= 0 /\ gross + v > capacity, MaxInputs)

(* selectLockupFunding: latest expiry first, then largest; coins that outlive *)
(* the swap alone if they will do.                                            *)
Enough(acc, amount) ==
  LET change == acc.raw - amount
  IN /\ acc.usable >= amount
     /\ change = 0 \/ change >= Dust
ByLife(cs, S) ==
  LET before(i, j) == \/ cs[i].expiry > cs[j].expiry
                      \/ cs[i].expiry = cs[j].expiry /\ Usable(cs[i]) > Usable(cs[j])
  IN Sorted(cs, S, before)
Grow(cs, acc, i) ==
  [at |-> acc.at \cup {i}, usable |-> acc.usable + Usable(cs[i]), raw |-> acc.raw + cs[i].value]
NoCoins == [at |-> {}, usable |-> 0, raw |-> 0]
(* Mutant: one coin must do. *)
FundFromOne(cs, S, amount) ==
  Fold(LAMBDA acc, i : IF acc.at # {} THEN acc ELSE Grow(cs, acc, i), NoCoins, ByLife(cs, S))
FundFrom(cs, S, amount) ==
  Fold(LAMBDA acc, i : IF Enough(acc, amount) THEN acc ELSE Grow(cs, acc, i), NoCoins, ByLife(cs, S))
Preferred(preferred, fallback, amount) == IF Enough(preferred, amount) THEN preferred ELSE fallback
selectLockupFunding(cs, amount) ==
  LET candidates == {i \in DOMAIN cs : Usable(cs[i]) > 0}
  IN Preferred(FundFrom(cs, {i \in candidates : ~Due(cs[i])}, amount), FundFrom(cs, candidates, amount), amount)

----------------------------------------------------------------------------
Init == coins = <<>> /\ inputs = MaxInputs /\ events = 0

Event == events < MaxEvents /\ events' = events + 1

Deposit(v, assets) ==
  /\ Event
  /\ coins' = Listed(Append(coins, [Coin(v) EXCEPT !.assets = assets]))
  /\ inputs' = MaxInputs

(* One coin, or the whole float when it came out of one batch. *)
ComeDue(S) ==
  /\ Event /\ \E i \in S : ~Due(coins[i])
  /\ coins' = Listed([i \in DOMAIN coins |-> IF i \in S THEN [coins[i] EXCEPT !.expiry = 1] ELSE coins[i]])
  /\ inputs' = MaxInputs

(* A coin's assets follow its change. *)
FundLockup(amount) ==
  \E s \in {selectLockupFunding(coins, amount)} : \E change \in {s.raw - amount} :
     /\ Event /\ Enough(s, amount)
     /\ coins' = Listed(Without(coins, s.at)
                       \o IF change = 0 THEN <<>>
                          ELSE <<[Coin(change) EXCEPT !.assets = \E i \in s.at : coins[i].assets]>>)
     /\ inputs' = MaxInputs

Plan == planPool(coins, inputs)

mintPool ==
  \E plan \in {Plan} :
    /\ plan.outputs # <<>> /\ Cardinality(plan.inputs) < TooLarge
    /\ coins' = Reshaped(coins, plan)
    /\ inputs' = MaxInputs
    /\ UNCHANGED events

(* TX_TOO_LARGE: half the inputs, and the plan is made anew. *)
Halved(n) == n \div 2
mintTooLarge ==
  \E plan \in {Plan} :
    /\ plan.outputs # <<>> /\ Cardinality(plan.inputs) >= TooLarge /\ Cardinality(plan.inputs) > 1
    /\ inputs' = Halved(Cardinality(plan.inputs))
    /\ UNCHANGED <<coins, events>>

renewExpiringVtxos ==
  \E taken \in {RenewalInputs(coins)} : \E pieces \in {splitRenewalOutputs(taken.gross)} :
     /\ taken.at # <<>> /\ pieces # <<>> /\ pieces[1] >= Dust
     /\ coins' = Listed(Without(coins, {taken.at[k] : k \in DOMAIN taken.at}) \o [k \in DOMAIN pieces |-> Coin(pieces[k])])
     /\ inputs' = MaxInputs
     /\ UNCHANGED events

Next ==
  \/ \E v \in Deposits, assets \in BOOLEAN : Deposit(v, assets)
  \/ \E i \in DOMAIN coins : ComeDue({i}) \/ ComeDue(DOMAIN coins)
  \/ \E amount \in Amounts : FundLockup(amount)
  \/ mintPool \/ mintTooLarge \/ renewExpiringVtxos

Spec == Init /\ [][Next]_vars

----------------------------------------------------------------------------
Total(cs) == SumOf(Values(cs))

(* Whatever is minted adds up: no plan spends more than it puts out or less,  *)
(* and every output is one the server takes.                                  *)
PlanBalances ==
  LET p == Plan
  IN p.outputs # <<>> =>
       /\ SumOf(p.outputs) + p.carrier = SumOf([k \in DOMAIN Indices(coins, p.inputs) |-> coins[Indices(coins, p.inputs)[k]].value])
       /\ \A k \in DOMAIN p.outputs : p.outputs[k] >= Dust /\ (MaxAmount >= 0 => p.outputs[k] <= MaxAmount)
       /\ Len(p.outputs) + (IF p.carrier > 0 THEN 1 ELSE 0) <= MaxOutputs

(* A renewal pays the fees of its outputs and no more, within the bounds. *)
RenewalBalances ==
  LET gross == RenewalInputs(coins).gross
      pieces == splitRenewalOutputs(gross)
  IN pieces # <<>> =>
       /\ SumOf(pieces) + OutputFee * Len(pieces) = gross
       /\ Len(pieces) <= MaxOutputs
       /\ \A k \in DOMAIN pieces : pieces[k] >= Dust /\ (MaxAmount >= 0 => pieces[k] <= MaxAmount)

(* Minting never takes the pool past its ceiling, nor a coin from a rung. *)
Have(cs, r) == Kept(cs).have[r]
MintKeepsStock ==
  LET after == Reshaped(coins, Plan)
  IN Plan.outputs # <<>> =>
       /\ Len(after) <= Most(Ceiling, Len(coins))
       /\ \A r \in {1, 2} : Have(after, r) >= Have(coins, r)

(* Left alone, the pool comes to rest: no float is cut and merged for ever,   *)
(* and a plan too large for the server is given up after a few halvings.      *)
RECURSIVE Rests(_, _, _)
Rests(cs, limit, n) ==
  \E p \in {planPool(cs, limit)} :
    LET size == Cardinality(p.inputs)
    IN \/ p.outputs = <<>>
       \/ size >= TooLarge /\ size = 1
       \/ size >= TooLarge /\ n > 0 /\ Rests(cs, Halved(size), n - 1)
       \/ size < TooLarge /\ n > 0 /\ Rests(Reshaped(cs, p), MaxInputs, n - 1)
PoolSettles == Rests(coins, inputs, 2 * (Len(coins) + Ceiling))

(* A pool that has what it wants funds every swap it is meant for. *)
PoolServes ==
  (\A r \in {1, 2} : Have(coins, r) = Target[r].want)
    => \A amount \in Amounts : amount <= MaxSats => Enough(selectLockupFunding(coins, amount), amount)

(* Whatever is deposited and funded, plans and renewals balance, minting never takes the stock apart,
   reshaping comes to rest, and what the pool promises it can fund. *)
PoolIsSound == PlanBalances /\ RenewalBalances /\ MintKeepsStock /\ PoolSettles /\ PoolServes
============================================================================
