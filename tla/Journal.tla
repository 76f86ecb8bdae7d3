------------------------------ MODULE Journal ------------------------------
(***************************************************************************)
(* What a ledger promises those who post to it: a journal that only grows, *)
(* in which no idempotency key occurs twice, and no answer that claims an  *)
(* entry the journal does not have.                                        *)
(***************************************************************************)
EXTENDS Sequences, Naturals

CONSTANT Entry  \* records with a field `key'

VARIABLES
  journal,  \* the entries, by sequence number
  claimed   \* entries somebody was told are posted

Posted == {journal[n] : n \in DOMAIN journal}

Init == journal = <<>> /\ claimed = {}

Post(e) ==
  /\ \A f \in Posted : f.key # e.key
  /\ journal' = Append(journal, e)
  /\ claimed' = claimed \/ claimed' = claimed \cup {e}

Claim(e) ==
  /\ e \in Posted
  /\ claimed' = claimed \cup {e}
  /\ UNCHANGED journal

Next == \E e \in Entry : Post(e) \/ Claim(e)

Spec == Init /\ [][Next]_<<journal, claimed>>
=============================================================================
