----------------------------- MODULE MCOperator ----------------------------
(***************************************************************************)
(* Two processes on one send swap, and what the operator is told of swaps:  *)
(* a behaviour follows one of them and leaves the others at their start.    *)
(***************************************************************************)
EXTENDS MCLightningSend

VARIABLES
  focus,                                                                                \* the component under way
  terms, reader, table, second, since, running, report, told, again, partial, walk,     \* Reports
  part, moved, notified, flight, turn, samples, shown, notes, queue, scheduled, draining, stats, delivered,
  coins, held, fetch, drawn, ticks, failure, lines, due                                 \* Notices

Deal(pair, give, take, spread) == [pair |-> pair, give |-> give, take |-> take, spread |-> spread]

RP == INSTANCE Reports WITH
  Sheets <- {[reader |-> who, terms |-> <<Deal("send", 9, {7}, 0), Deal("send", 5, {}, 0)>>] : who \in {"screen", "summary", "list"}} \cup
            {[reader |-> "screen", terms |-> <<Deal("receive", 8, {9}, 0), Deal("asset", 4, {6}, 0)>>],
             [reader |-> "screen", terms |-> <<Deal("evm", 9, {20}, 1), Deal("evm", 6, {15}, 2)>>],
             [reader |-> "screen", terms |-> <<Deal("evm", 9, {20}, 1), Deal("send", 6, {7}, 0)>>]},
  LedgerLimit <- 1, PageLimit <- 1, BucketSeconds <- 2, Bands <- <<1, 2>>, LastSecond <- 2,
  row <- table, now <- second
NT == INSTANCE Notices WITH
  Parts <- {"outcomes", "float", "errors"}, Swaps <- {1, 2}, MaxQueue <- 1, MaxSamples <- 1, Coins <- 3,
  FirstBackoff <- 1, MaxBackoff <- 4, StaleAfter <- 5, LastInstant <- 8,
  told <- notified, reading <- shown, clock <- ticks

reports == <<terms, reader, table, second, since, running, report, told, again, partial, walk>>
notices == <<part, moved, notified, flight, turn, samples, shown, notes, queue, scheduled, draining, stats, delivered,
             coins, held, fetch, drawn, ticks, failure, lines, due>>

OperatorInit ==
  /\ focus \in {"send", "reports", "notices"}
  /\ Init /\ RP!Init /\ NT!Init
  /\ focus = "send" \/ (peer = "none" /\ own = "foreign")
  /\ focus = "reports" \/ reader = "list"
  /\ focus = "notices" \/ part = "float"
OperatorNext ==
  /\ UNCHANGED focus
  /\ \/ focus = "send" /\ Next /\ UNCHANGED <<reports, notices>>
     \/ focus = "reports" /\ RP!Next /\ UNCHANGED <<vars, notices>>
     \/ focus = "notices" /\ NT!Next /\ UNCHANGED <<vars, reports>>
OperatorSpec == OperatorInit /\ [][OperatorNext]_<<focus, vars, reports, notices>>

-----------------------------------------------------------------------------
(* Reports, Notices: the operator is told of every swap, once, and figures that agree. *)
OperatorIsTold == (focus = "reports" => RP!ReportsAreTrue) /\ (focus = "notices" => NT!NoticesAreTrue)
=============================================================================
