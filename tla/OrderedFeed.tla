---------------------------- MODULE OrderedFeed ----------------------------
(***************************************************************************)
(* What an outbox and the bus behind it promise the consumers of a shop's  *)
(* events: everyone sees the events in the order they were recorded, as    *)
(* often as it takes, and no event is put away before everyone who wants   *)
(* it has answered it, be it with a dead letter.                           *)
(***************************************************************************)
EXTENDS Naturals

CONSTANTS Entries, Readers, Wanted

VARIABLES
  given,     \* given[r]: the entries r has been shown
  answered,  \* answered[r]: those r is done with
  settled    \* entries that will not be sent again

vars == <<given, answered, settled>>

Init ==
  /\ given = [r \in Readers |-> {}]
  /\ answered = [r \in Readers |-> {}]
  /\ settled = {}

\* r is shown an entry, never one that skips an entry r has not seen.
Give(r, e) ==
  /\ e \in Wanted[r]
  /\ {f \in Wanted[r] : f < e} \subseteq given[r]
  /\ given' = [given EXCEPT ![r] = @ \cup {e}]

Answer(r, e) ==
  /\ e \in given[r]
  /\ answered' = [answered EXCEPT ![r] = @ \cup {e}]

Settle(e) ==
  /\ \A r \in Readers : e \in Wanted[r] => e \in answered[r]
  /\ settled' = settled \cup {e}
  /\ UNCHANGED <<given, answered>>

Next ==
  \E e \in Entries :
    \/ Settle(e)
    \/ \E r \in Readers : \/ Give(r, e) /\ UNCHANGED <<answered, settled>>
                          \/ Answer(r, e) /\ UNCHANGED <<given, settled>>
    \/ \E r, s \in Readers : Answer(r, e) /\ Give(s, e) /\ UNCHANGED settled

Spec == Init /\ [][Next]_vars
=============================================================================
