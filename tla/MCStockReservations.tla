------------------------ MODULE MCStockReservations ------------------------
(***************************************************************************)
(* Small instances of StockReservations: four reserves, two of them the    *)
(* same operation, against 7 on hand; a release and two consumes.          *)
(***************************************************************************)
EXTENDS StockReservations

CONSTANTS sign, signAgain,            \* reserves: 3, and the same 3 again
          banner, panel,              \* reserves: 5, and 2 that may oversell
          cancel, make, remake,       \* a release and two consumes
          web, shop                   \* processes

MCOrder == [r \in Requests |-> IF r \in {sign, signAgain} THEN sign ELSE r]
MCQty == [r \in Requests |-> IF r = panel THEN 2 ELSE IF r = banner THEN 5 ELSE 3]
MCOversell == [r \in Requests |-> r = panel]
MCTarget == [c \in Settlements |-> IF c = make THEN banner ELSE sign]
MCKind == [c \in Settlements |-> IF c = cancel THEN "released" ELSE "consumed"]
MCUsed == [c \in Settlements |-> 3]
MCTwoProcesses == [c \in Calls |-> IF c \in Requests THEN web ELSE shop]
=============================================================================
