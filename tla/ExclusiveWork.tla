--------------------------- MODULE ExclusiveWork ---------------------------
(***************************************************************************)
(* What a lease promises: an item is worked on by at most one worker at a  *)
(* time.  Workers come to hold an item only when nobody does, one item at  *)
(* a time; they may lose any of what they hold at any moment (they finish, *)
(* they crash, or their lease runs out).                                   *)
(***************************************************************************)
CONSTANTS Items, Workers
VARIABLE holders   \* holders[i]: who may work on item i right now

Init == holders = [i \in Items |-> {}]

Take(i, w) ==
  /\ holders[i] = {}
  /\ holders' = [holders EXCEPT ![i] = {w}]

Lose == holders' \in [Items -> SUBSET Workers] /\ \A i \in Items : holders'[i] \subseteq holders[i]

Next == Lose \/ \E i \in Items, w \in Workers : Take(i, w)

Spec == Init /\ [][Next]_holders
=============================================================================
