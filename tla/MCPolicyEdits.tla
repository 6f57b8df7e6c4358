--------------------------- MODULE MCPolicyEdits ---------------------------
(* Edits from the console: saves in and out of order, alone and two at a time, with failures and with quotes under way. *)
EXTENDS Integers, Sequences

VARIABLES
  start, overrides, rows, boot, policy, served, readable, live, quoting, todo, past, queue, built, late, stale, edits, faults, quotes

Row(symbol, sell, buy, mode, fee, sellFee, low, high) ==
  [symbol |-> symbol, enabled |-> TRUE, servesRfq |-> TRUE, rfqSellBase |-> sell, rfqBuyBase |-> buy, carrierMode |-> mode,
   fee |-> fee, sellFee |-> sellFee, sellBase |-> [min |-> low, max |-> high]]
Unbounded(r) == [r EXCEPT !.sellBase = [min |-> 0, max |-> -1]]
Apply(sets, puts) == [kind |-> "apply", sets |-> sets, puts |-> puts]
Patch(k, v) == [kind |-> "patch", key |-> k, value |-> v]
To(k, v) == [key |-> k, value |-> v]
As(m, r) == [market |-> m, row |-> r]
None == [k \in {} |-> 0]
One(m, r) == [n \in {m} |-> r]
Both(r, s) == [n \in {1, 2} |-> IF n = 1 THEN r ELSE s]

A == Row("A", TRUE, TRUE, "inherit", 2, -1, 1, 5)
B == Row("B", TRUE, FALSE, "priced", 1, 3, 2, 4)

Save1 == Apply(<<To("PRICING", 0), To("MAX", 8)>>, <<As(1, [A EXCEPT !.carrierMode = "priced", !.fee = 1, !.sellFee = 3])>>)
Save2 == Apply(<<To("PRICING", 1), To("MIN", 3)>>,
               <<As(1, Row("A", TRUE, FALSE, "inherit", 3, 1, 0, 3)), As(2, [B EXCEPT !.carrierMode = "inherit", !.sellBase.max = 6])>>)
Save3 == Apply(<<>>, <<As(1, Row("A", FALSE, TRUE, "off", 2, -1, 1, 5)), As(2, Row("B", TRUE, TRUE, "priced", 1, 4, 5, 6))>>)
Opening == Apply(<<>>, <<As(1, A), As(2, [B EXCEPT !.sellFee = 4])>>)
Limits == Apply(<<To("MIN", 9), To("MAX", 9)>>, <<>>)
Floor == [k \in {"MIN", "MAX"} |-> IF k = "MIN" THEN 5 ELSE 6]
Place(m, r) == [kind |-> "put", market |-> m, row |-> r]
Delete(m) == [kind |-> "delete", market |-> m]
RevertTo(scope) == [kind |-> "revert", scope |-> scope]
Priced == [k \in {"PRICING"} |-> 1]
Start(o, rs, asks, n, f, q) == [overrides |-> o, rows |-> rs, asks |-> asks, edits |-> n, faults |-> f, quotes |-> q]
PE == INSTANCE PolicyEdits WITH
  Editor <- {"x", "y"}, Config <- [MIN |-> 1, MAX |-> 10, OPEN |-> 1, PRICING |-> 0],
  Seed <- Both([symbol |-> "A", sell |-> TRUE, buy |-> FALSE], [symbol |-> "B", sell |-> TRUE, buy |-> TRUE]),
  Starts <- {Start(Priced, Both(A, B), {Save1, Save2, Save3, RevertTo({1, 2})}, 1, 2, 0),
             Start(Priced, Both(Unbounded(A), B), {Opening}, 1, 1, 0),
             Start(Floor, One(1, A), {Patch("MAX", 3), Limits}, 1, 1, 0),
             Start(Priced, Both(A, B), {Save1, Save3}, 2, 1, 0),
             Start(None, One(1, [A EXCEPT !.symbol = "none"]), {Save1, Save2}, 1, 1, 0),
             Start(Priced, Both(A, B), {Save1, Patch("PRICING", -1), RevertTo({2}), Place(2, [B EXCEPT !.symbol = "C"]),
                                        Place(2, [B EXCEPT !.symbol = "A"])}, 2, 0, 0),
             Start(Priced, Both(A, B), {Delete(1), Patch("MAX", 3)}, 1, 1, 1)}
EditsInit == PE!EditsInit
EditsNext == PE!EditsNext
EditsSpec == PE!EditsSpec
(* PolicyEdits: what is stored loads and is what is served, and an orderly save never quotes more than either side of it. *)
EditsAreSafe == PE!EditsAreSafe
(* pricingApply.ts:4: a save that dies midway has applied restrictions and no relaxations. *)
EverySaveQuotesNoMore == PE!EverySaveQuotesNoMore
(* routes/settings.ts:54: a knob that is not badged pending is what the process is quoting. *)
BannerTellsTheTruth == PE!BannerTellsTheTruth
(* assetRfqMarkets.ts:158: every previous market with a swap under way keeps a reader. *)
EverySwapReadable == PE!EverySwapReadable
=============================================================================
