---------------------------- MODULE AtomicStock ----------------------------
(***************************************************************************)
(* What a stock ledger promises: material is reserved, released and        *)
(* consumed in one step each, a hold is granted only out of what is on     *)
(* hand and not held already, unless overselling was asked for, and a hold *)
(* is settled once.                                                        *)
(***************************************************************************)
EXTENDS Integers, Totals

CONSTANTS Requests, Qty, Oversell
VARIABLES onHand, holds, spent   \* spent: the holds that were settled

Init == onHand \in Nat /\ holds = {} /\ spent = {}

Reserve(r) ==
  /\ r \notin holds \cup spent
  /\ Oversell[r] \/ TotalOf(Qty, holds) + Qty[r] <= onHand
  /\ holds' = holds \cup {r}
  /\ UNCHANGED <<onHand, spent>>

\* Released, with `onHand' as it was, or consumed, by whatever was used.
Settle(r) ==
  /\ r \in holds
  /\ holds' = holds \ {r}
  /\ spent' = spent \cup {r}
  /\ onHand' <= onHand

Next == \E r \in Requests : Reserve(r) \/ Settle(r)

Spec == Init /\ [][Next]_<<onHand, holds, spent>>
=============================================================================
