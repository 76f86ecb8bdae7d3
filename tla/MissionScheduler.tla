-------------------------- MODULE MissionScheduler --------------------------
(***************************************************************************)
(* Which missions may run at the same time.                                *)
(*   packages/foundry-evolutioniq/src/mission/scheduler.ts                 *)
(*                                                                         *)
(* `admit' offers missions to its host, which starts them one by one and   *)
(* records each start with `admitted'; anything else may happen between.   *)
(* One loop of the host does so.  A mission stands for all those that ask  *)
(* for the same thing: once it was released it may be proposed again,      *)
(* under a new id.                                                         *)
(***************************************************************************)
EXTENDS MissionControl, Integers, FiniteSets, SequencesExt

CONSTANTS
  Components,       \* Components[m]: scope.components
  Weight,           \* Weight[m]: PRIORITY_WEIGHT of its priority
  Environment, Repository,
  Withdrawn,        \* the missions that somebody may dequeue
  MaxConcurrent, MaxPerEnvironment, MaxPerRepository,
  Starvation        \* starvationThreshold

ASSUME SchedulerAssumption ==
  /\ Weight \in [Missions -> 1..1000]
  /\ \A m \in Missions : Components[m] # {}
  /\ Withdrawn \subseteq Missions
  /\ {MaxConcurrent, MaxPerEnvironment, MaxPerRepository, Starvation} \subseteq Nat \ {0}

VARIABLES
  queued,       \* `queued'
  ahead,        \* ahead[m]: those whose queuedAt is before that of m
  passedOver,   \* passedOver of each mission, counted up to Starvation
  admitted,     \* `running'
  offers        \* what admit answered and the host has yet to start

schedulerVars == <<queued, ahead, passedOver, admitted, offers>>

SchedulerInit ==
  /\ queued = {}
  /\ ahead = [m \in Missions |-> {}]
  /\ passedOver = [m \in Missions |-> 0]
  /\ admitted = {}
  /\ offers = <<>>

\* Missions are deleted from the queue.
Leave(S) ==
  /\ queued' = queued \ S
  /\ ahead' = [m \in Missions |-> IF m \in S THEN {} ELSE ahead[m] \ S]

Enqueue(m) ==
  /\ mission[m] \in {"AUTHORIZED", "PROVISIONED"}
  /\ m \notin queued \cup admitted
  /\ queued' = queued \cup {m}
  /\ ahead' = [ahead EXCEPT ![m] = queued]
  /\ passedOver' = [passedOver EXCEPT ![m] = 0]
  /\ UNCHANGED <<admitted, offers>>

Dequeue(m) ==
  /\ m \in Withdrawn \cap queued
  /\ Leave({m})
  /\ UNCHANGED <<passedOver, admitted, offers>>

\* effectivePriority.  Missions queued earlier were passed over as often or
\* more, so that the order of the queue tells starved ones apart as the
\* count beyond Starvation does.
Effective(m) ==
  passedOver[m] + (IF passedOver[m] >= Starvation THEN 1000 ELSE Weight[m])

Before(m, n) == \/ Effective(m) > Effective(n)
                \/ Effective(m) = Effective(n) /\ m \in ahead[n]

\* conflictsFor, of the missions that are running or offered already.
Alike(m, Scope, running) == {n \in running : Scope[n] = Scope[m]}

Conflicts(m, running) ==
  \/ \E n \in running \ {m} : Components[m] \cap Components[n] # {}
  \/ \E S \in {<<running, MaxConcurrent>>,
               <<Alike(m, Environment, running), MaxPerEnvironment>>,
               <<Alike(m, Repository, running), MaxPerRepository>>} :
       Cardinality(S[1]) >= S[2]

\* Mutant: only what is running is in the way, not what this round admits.
OffersAlone(given, candidates) ==
  /\ \A i, j \in DOMAIN given : i < j => Before(given[i], given[j])
  /\ ToSet(given) = {m \in candidates : ~Conflicts(m, admitted)}

\* What the loop over the candidates answers: in their order, each that neither
\* the missions running nor those answered before it are in the way of.
Offers(given, candidates) ==
  /\ \A i, j \in DOMAIN given : i < j => Before(given[i], given[j])
  /\ ToSet(given) =
       {m \in candidates :
          ~Conflicts(m, admitted \cup {n \in ToSet(given) : Before(n, m)})}

\* admit drops the missions that ended in the queue.
Admit ==
  /\ offers = <<>>
  /\ Leave({m \in queued : mission[m] \in Ended})
  /\ offers' \in SeqOf(queued', Cardinality(queued'))
  /\ Offers(offers', queued')
  /\ <<queued, offers>>' # <<queued, offers>>
  /\ UNCHANGED <<passedOver, admitted>>

\* Mutant: nobody is passed over.
StartUncounted ==
  /\ offers # <<>>
  /\ offers' = Tail(offers)
  /\ LET m == Head(offers) IN
       IF m \in queued THEN Leave({m}) /\ admitted' = admitted \cup {m}
                      ELSE UNCHANGED <<queued, ahead, admitted>>
  /\ UNCHANGED passedOver

\* admitted: all that stay in the queue were passed over once more.  A mission
\* that is no longer queued is refused.
Start ==
  /\ offers # <<>>
  /\ offers' = Tail(offers)
  /\ LET m == Head(offers) IN
       IF m \in queued
       THEN /\ Leave({m})
            /\ admitted' = admitted \cup {m}
            /\ passedOver' = [q \in Missions |->
                 IF q \in queued \ {m} /\ passedOver[q] < Starvation
                 THEN passedOver[q] + 1 ELSE passedOver[q]]
       ELSE UNCHANGED <<queued, ahead, admitted, passedOver>>

\* released, by the host, when the mission has ended; then one like it may be
\* proposed.
Release(m) ==
  /\ m \in admitted /\ mission[m] \in Ended
  /\ admitted' = admitted \ {m}
  /\ mission' = [mission EXCEPT ![m] = "none"]
  /\ UNCHANGED <<asked, queued, ahead, passedOver, offers>>

SchedulerStep(m) ==
  \/ (Enqueue(m) \/ Dequeue(m)) /\ UNCHANGED missionVars
  \/ Release(m)

SchedulerNext ==
  \/ \E m \in Missions : SchedulerStep(m)
  \/ (Admit \/ Start) /\ UNCHANGED missionVars

\* Missions and their scheduler.
ScheduledInit == MissionInit /\ SchedulerInit

ScheduledNext ==
  \/ \E m \in Missions : MissionStep(m) /\ UNCHANGED schedulerVars
  \/ \E c \in Askers : AuthorizationStep(c) /\ UNCHANGED schedulerVars
  \/ SchedulerNext

ScheduledSpec == ScheduledInit /\ [][ScheduledNext]_<<missionVars, schedulerVars>>

-----------------------------------------------------------------------------

\* The queue is ordered: of any two missions in it, one came first.
SchedulerTypeOK ==
  /\ queued \subseteq Missions
  /\ ahead \in [Missions -> SUBSET queued]
  /\ \A m, n \in queued : m # n => (m \in ahead[n] <=> n \notin ahead[m])
  /\ passedOver \in [Missions -> 0..Starvation]
  /\ admitted \subseteq Missions
  /\ offers \in Seq(Missions)

\* Two missions whose scopes intersect do not run together, although two of
\* them may be offered in one round and started while others end.
MissionsDisjoint ==
  \A m, n \in admitted : m # n => Components[m] \cap Components[n] = {}

\* "A starved mission eventually runs": none waits in the queue for ever.
NoneStarves == \A m \in Missions : m \in queued ~> m \notin queued
=============================================================================
