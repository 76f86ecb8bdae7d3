---------------------------- MODULE OneTopology ----------------------------
(***************************************************************************)
(* What the agreement on a topology promises: an epoch has one topology    *)
(* version at most, once decided for good; a replica acts only on what was *)
(* decided and never goes back to an earlier epoch.                        *)
(***************************************************************************)
EXTENDS Naturals

CONSTANTS Replicas, Epochs, Versions, NoVersion
VARIABLES
  decided,  \* the decisions [epoch, version]
  acting    \* acting[r]: the decision that replica r acts on

Undecided == [epoch |-> 0, version |-> NoVersion]

Init == decided = {} /\ acting = [r \in Replicas |-> Undecided]

Decide(epoch, version) ==
  /\ \A d \in decided : d.epoch # epoch
  /\ decided' = decided \cup {[epoch |-> epoch, version |-> version]}
  /\ UNCHANGED acting

Activate(r, d) ==
  /\ acting[r].epoch <= d.epoch
  /\ acting' = [acting EXCEPT ![r] = d]
  /\ UNCHANGED decided

Next ==
  \/ \E epoch \in Epochs, version \in Versions : Decide(epoch, version)
  \/ \E r \in Replicas, d \in decided : Activate(r, d)

Spec == Init /\ [][Next]_<<decided, acting>>
=============================================================================
