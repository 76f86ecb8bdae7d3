------------------------------- MODULE Totals -------------------------------
(***************************************************************************)
(* Totals of amounts, of which ledgers, positions and gates keep one each. *)
(***************************************************************************)
EXTENDS Integers, FiniteSetsExt

\* The total of amount[x], for the x in S.
TotalOf(amount, S) == MapThenSumSet(LAMBDA x : amount[x], S)
=============================================================================
