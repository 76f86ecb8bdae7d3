------------------------ MODULE ActivationConsensus ------------------------
(***************************************************************************)
(* How the replicas of the neural fabric agree on one active topology.     *)
(*   packages/neural-fabric/src/distributed/activationConsensus.ts         *)
(*                                                                         *)
(* The code is four functions of a replica's state; the host that carries  *)
(* proposals, votes and outcomes between replicas is not in the            *)
(* repository.  Any proposal may reach any replica at any time, votes may  *)
(* be counted at any time by anyone, and an outcome may be applied late,   *)
(* again or never.  What a replica has promised and what it holds as       *)
(* active survive (the host keeps ReplicaState).                           *)
(***************************************************************************)
EXTENDS Naturals, FiniteSets

CONSTANTS
  Replicas,   \* the configured set, the denominator of a quorum
  Others,     \* voters that are not configured
  Versions,   \* topology versions
  NoVersion,
  MaxEpoch    \* bound: proposals go up to this epoch

ASSUME ConsensusAssumption ==
  /\ IsFiniteSet(Replicas) /\ Others \cap Replicas = {}
  /\ NoVersion \notin Versions
  /\ MaxEpoch \in Nat

VARIABLES
  seen,     \* seen[r]: highestEpochSeen
  active,   \* active[r]: activeEpoch and activeVersionId
  votes,    \* the votes that configured replicas granted
  commits   \* the outcomes of tallies that committed

consensusVars == <<seen, active, votes, commits>>

Epochs == 1..MaxEpoch
Outcomes == [epoch : Epochs, version : Versions]

NotActive == [epoch |-> 0, version |-> NoVersion]

ConsensusInit ==
  /\ seen = [r \in Replicas |-> 0]
  /\ active = [r \in Replicas |-> NotActive]
  /\ votes = {}
  /\ commits = {}

-----------------------------------------------------------------------------

\* A refused vote changes nothing and is not counted: it is left out.  A
\* rollback is a proposal of an older version at a higher epoch.
Vote(r, epoch, version) ==
  /\ epoch > seen[r]
  /\ seen' = [seen EXCEPT ![r] = epoch]
  /\ votes' = votes \cup {[by |-> r, epoch |-> epoch, version |-> version]}
  /\ UNCHANGED <<active, commits>>

\* Who says to have granted a proposal: voters that are not configured may say
\* so of any.
Granted(epoch, version) ==
  {v.by : v \in {x \in votes : x.epoch = epoch /\ x.version = version}} \cup Others

\* Mutant: votes are counted whoever gave them.
ValidFromAnyone(epoch, version) == Granted(epoch, version)

Valid(epoch, version) == Granted(epoch, version) \cap Replicas

QuorumSize == Cardinality(Replicas) \div 2 + 1

Tally(epoch, version) ==
  /\ Cardinality(Valid(epoch, version)) >= QuorumSize
  /\ commits' = commits \cup {[epoch |-> epoch, version |-> version]}
  /\ UNCHANGED <<seen, active, votes>>

ApplyCommit(r, outcome) ==
  /\ outcome.epoch >= active[r].epoch
  /\ active' = [active EXCEPT ![r] = outcome]
  /\ seen' = [seen EXCEPT ![r] = IF outcome.epoch > @ THEN outcome.epoch ELSE @]
  /\ UNCHANGED <<votes, commits>>

ConsensusNext ==
  \/ \E r \in Replicas, epoch \in Epochs, version \in Versions : Vote(r, epoch, version)
  \/ \E epoch \in Epochs, version \in Versions : Tally(epoch, version)
  \/ \E r \in Replicas, outcome \in commits : ApplyCommit(r, outcome)

ConsensusSpec == ConsensusInit /\ [][ConsensusNext]_consensusVars

-----------------------------------------------------------------------------
(* Properties                                                              *)

ConsensusTypeOK ==
  /\ seen \in [Replicas -> 0..MaxEpoch]
  /\ active \in [Replicas -> Outcomes \cup {NotActive}]
  /\ votes \subseteq [by : Replicas, epoch : Epochs, version : Versions]
  /\ commits \subseteq Outcomes

\* "One topology active at a time": however proposals of rivals, votes and
\* late outcomes cross, an epoch has one version, replicas act on outcomes
\* only, and none goes back.
Topology == INSTANCE OneTopology WITH decided <- commits, acting <- active
ImplementsOneTopology == Topology!Spec
=============================================================================
