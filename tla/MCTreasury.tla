----------------------------- MODULE MCTreasury ----------------------------
(***************************************************************************)
(* Two processes on one receive swap, and the parts that keep the solver's  *)
(* accounts: a behaviour follows one of them and leaves the other at its    *)
(* start.                                                                   *)
(***************************************************************************)
EXTENDS MCLightningReceive

VARIABLES
  focus,                                                                         \* the component under way
  cast, purse, other, transfer, withdrawal, last, reading, today, checks, lost, gained, torn   \* Books

Cast(rows, losses, gains, checkpoints) == [rows |-> rows, losses |-> losses, gains |-> gains, checks |-> checkpoints]
BK == INSTANCE Books WITH
  Ids <- {1, 2}, Withdrawals <- {11}, Debit <- 3, Fee <- 1, Amount <- 2, Quoted <- 1, Limit <- 20,
  Casts <- {Cast({1}, {2}, 0, 4), Cast({11}, {2}, 0, 4),
            Cast({1}, {}, 1, 4), Cast({1, 11}, {}, 0, 3),
            Cast({1, 2}, {}, 0, 3)},
  now <- today, arkade <- purse

books == <<cast, purse, other, transfer, withdrawal, last, reading, today, checks, lost, gained, torn>>

TreasuryInit ==
  /\ focus \in {"receive", "books"}
  /\ Init /\ BK!BooksInit
  /\ IF focus = "books" THEN send = "none" ELSE cast.rows = {11}
TreasuryNext ==
  /\ UNCHANGED focus
  /\ \/ focus = "receive" /\ Next /\ UNCHANGED books
     \/ focus = "books" /\ BK!BooksNext /\ UNCHANGED vars
TreasurySpec == TreasuryInit /\ [][TreasuryNext]_<<focus, vars, books>>

-----------------------------------------------------------------------------
(* Books: balance checkpoints tell a loss from a transfer. *)
BooksBalance == focus = "books" => BK!BooksBalance
=============================================================================
