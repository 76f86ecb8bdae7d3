--------------------------- MODULE FoundryProofs ---------------------------
(***************************************************************************)
(* Proofs about Foundry's missions, their scheduler and the supervision of *)
(* agents, for any missions, agents, scopes, limits and bounds.            *)
(***************************************************************************)
EXTENDS MCFoundry, TotalsProofs

-----------------------------------------------------------------------------
(* Missions                                                                *)

\* While Governance is asked about a proposal, nothing else happens to it, but
\* that another such call is permitted.
AskedInv ==
  \A c \in Askers :
    asked[c] = "PROPOSED" => mission[AsksFor[c]] \in {"PROPOSED", "AUTHORIZED"}

MissionInv == MissionTypeOK /\ AskedInv

LEMMA StateFacts ==
  /\ Ended \cap DOMAIN Legal = {}
  /\ \A from, to : Allowed(from, to) => from \in DOMAIN Legal /\ to \in MissionStates
  /\ \A from : Allowed(from, "AUTHORIZED") => from = "PROPOSED"
  /\ \A from, to : Allowed(from, to) => to \notin {"PROPOSED", "none"}
  /\ \A from, to : Allowed(from, to) /\ to = "AUTHORIZED" => from = "PROPOSED"
  /\ Failures \subseteq MissionStates /\ DOMAIN Legal \subseteq MissionStates
  /\ {"none", "idle", "answered"} \cap MissionStates = {}
BY DEF Ended, Failures, Interrupts, Legal, Allowed, MissionStates

LEMMA MissionStarts == MissionInit => MissionInv
BY DEF MissionInit, MissionInv, MissionTypeOK, AskedInv

LEMMA MissionStepKeeps ==
  ASSUME Interposing = FALSE, MissionInv, NEW m \in Missions, MissionStep(m)
  PROVE  /\ MissionInv'
         /\ asked' = asked
         /\ \A n \in Missions : n # m => mission'[n] = mission[n]
         /\ mission[m] \notin Ended
         /\ mission'[m] \notin {"none", "PROPOSED"} \/ mission[m] = "none"
         /\ mission'[m] = "AUTHORIZED" => mission[m] = "PROPOSED"
<1> USE MissionAssumption
<1>1. ~UnderQuestion(m) /\ asked' = asked
  BY DEF MissionStep, Free, Propose, Advance, TerminateMission
<1>2. \A c \in Askers : asked[c] = "PROPOSED" => AsksFor[c] # m
  BY <1>1 DEF UnderQuestion
<1>3. \/ mission[m] = "none" /\ mission' = [mission EXCEPT ![m] = "PROPOSED"]
      \/ \E to \in MissionStates :
           /\ Allowed(mission[m], to)
           /\ mission' = [mission EXCEPT ![m] = to]
  <2>1. CASE Propose(m)
    BY <2>1 DEF Propose
  <2>2. CASE Advance(m)
    BY <2>2, StateFacts DEF Advance, Apply
  <2>3. CASE TerminateMission(m)
    BY <2>3, StateFacts DEF TerminateMission, Apply
  <2> QED
    BY <2>1, <2>2, <2>3 DEF MissionStep
<1>4. "PROPOSED" \in MissionStates
  BY DEF MissionStates, Legal
<1>5. MissionTypeOK'
  BY <1>1, <1>3, <1>4 DEF MissionInv, MissionTypeOK
<1>6. \A n \in Missions : n # m => mission'[n] = mission[n]
  BY <1>3 DEF MissionInv, MissionTypeOK
<1>7. AskedInv'
  BY <1>1, <1>2, <1>6 DEF MissionInv, AskedInv
<1>8. "none" \notin Ended
  BY DEF Ended, Failures, Interrupts
<1> QED
  BY <1>1, <1>3, <1>5, <1>6, <1>7, <1>8, StateFacts DEF MissionInv, MissionTypeOK

LEMMA AuthorizationKeeps ==
  ASSUME MissionInv, NEW c \in Askers, AuthorizationStep(c)
  PROVE  /\ MissionInv'
         /\ \A n \in Missions : \/ mission'[n] = mission[n]
                               \/ /\ mission[n] \in {"PROPOSED", "AUTHORIZED"}
                                  /\ mission'[n] = "AUTHORIZED"
<1> USE MissionAssumption
<1>1. CASE Ask(c)
  BY <1>1, StateFacts DEF Ask, MissionInv, MissionTypeOK, AskedInv
<1>2. CASE Permit(c)
  <2>1. asked[c] = "PROPOSED" /\ mission' = [mission EXCEPT ![AsksFor[c]] = "AUTHORIZED"]
    BY <1>2, StateFacts DEF Permit, Apply
  <2>2. mission[AsksFor[c]] \in {"PROPOSED", "AUTHORIZED"}
    BY <2>1 DEF MissionInv, AskedInv
  <2>3. MissionTypeOK'
    BY <1>2, <2>1 DEF Permit, MissionInv, MissionTypeOK, MissionStates, Legal
  <2>4. AskedInv'
    BY <1>2, <2>1 DEF Permit, MissionInv, MissionTypeOK, AskedInv
  <2> QED
    BY <2>1, <2>2, <2>3, <2>4 DEF MissionInv, MissionTypeOK
<1>3. CASE Deny(c)
  BY <1>3 DEF Deny, MissionInv, MissionTypeOK, AskedInv
<1> QED
  BY <1>1, <1>2, <1>3 DEF AuthorizationStep


-----------------------------------------------------------------------------
(* The scheduler                                                           *)

\* What is running and what is offered: no two of them share a component.
Taken == admitted \cup ToSet(offers)

Apart == \A m, n \in Taken : m # n => Components[m] \cap Components[n] = {}

ScheduledInv == MissionTypeOK /\ SchedulerTypeOK /\ Apart

LEMMA SchedulerStarts == SchedulerInit => SchedulerTypeOK /\ Apart
BY SchedulerAssumption DEF SchedulerInit, SchedulerTypeOK, Apart, Taken, ToSet

\* The order of the queue survives whoever leaves it.
LEMMA LeaveKeeps ==
  ASSUME SchedulerTypeOK, NEW S, Leave(S)
  PROVE  /\ queued' \subseteq queued
         /\ ahead' \in [Missions -> SUBSET queued']
         /\ \A m, n \in queued' : m # n => (m \in ahead'[n] <=> n \notin ahead'[m])
BY DEF SchedulerTypeOK, Leave

\* Of two missions that are offered, one is before the other and was reserved
\* when the other was judged.
LEMMA OffersApart ==
  ASSUME NEW given \in Seq(Missions), NEW candidates, Offers(given, candidates),
         \A m, n \in admitted : m # n => Components[m] \cap Components[n] = {}
  PROVE  \A m, n \in admitted \cup ToSet(given) :
           m # n => Components[m] \cap Components[n] = {}
<1>1. \A m \in ToSet(given), n \in admitted : m # n => Components[m] \cap Components[n] = {}
  BY DEF Offers, Conflicts
<1>2. ASSUME NEW m \in ToSet(given), NEW n \in ToSet(given), Before(n, m), m # n
      PROVE  Components[m] \cap Components[n] = {}
  BY <1>2 DEF Offers, Conflicts
<1>3. \A m, n \in ToSet(given) : m # n => Before(n, m) \/ Before(m, n)
  <2> SUFFICES ASSUME NEW i \in DOMAIN given, NEW j \in DOMAIN given, given[i] # given[j]
               PROVE  Before(given[i], given[j]) \/ Before(given[j], given[i])
    BY DEF ToSet
  <2> QED
    BY DEF Offers
<1> QED
  BY <1>1, <1>2, <1>3

LEMMA AdmitKeeps ==
  ASSUME ScheduledInv, Admit
  PROVE  SchedulerTypeOK' /\ Apart'
<1>1. /\ Leave({m \in queued : mission[m] \in Ended})
      /\ offers' \in SeqOf(queued', Cardinality(queued'))
      /\ Offers(offers', queued')
      /\ offers = <<>> /\ passedOver' = passedOver /\ admitted' = admitted
  BY DEF Admit
<1>2. offers' \in Seq(Missions)
  <2>1. PICK n \in 0 .. Cardinality(queued') : offers' \in [1 .. n -> queued']
    BY <1>1 DEF SeqOf
  <2>2. queued' \subseteq Missions
    BY <1>1, LeaveKeeps DEF ScheduledInv, SchedulerTypeOK
  <2>3. n \in Nat
    BY <2>1
  <2> QED
    BY <2>1, <2>2, <2>3
<1>3. SchedulerTypeOK'
  BY <1>1, <1>2, LeaveKeeps DEF ScheduledInv, SchedulerTypeOK
<1>4. \A m, n \in admitted : m # n => Components[m] \cap Components[n] = {}
  BY DEF ScheduledInv, Apart, Taken
<1>5. Apart'
  BY <1>1, <1>2, <1>4, OffersApart DEF Apart, Taken
<1> QED
  BY <1>3, <1>5

LEMMA StartKeeps ==
  ASSUME ScheduledInv, Start
  PROVE  SchedulerTypeOK' /\ Apart'
<1> DEFINE m == Head(offers)
<1>1. /\ offers # <<>> /\ offers' = Tail(offers)
      /\ \/ /\ m \in queued /\ Leave({m}) /\ admitted' = admitted \cup {m}
            /\ passedOver' = [q \in Missions |->
                 IF q \in queued \ {m} /\ passedOver[q] < Starvation
                 THEN passedOver[q] + 1 ELSE passedOver[q]]
         \/ UNCHANGED <<queued, ahead, admitted, passedOver>>
  BY DEF Start
<1>2. offers \in Seq(Missions)
  BY DEF ScheduledInv, SchedulerTypeOK
<1>3. m \in ToSet(offers) /\ m \in Missions /\ offers' \in Seq(Missions)
      /\ ToSet(offers') \subseteq ToSet(offers)
  BY <1>1, <1>2 DEF ToSet
<1> HIDE DEF m
<1>4. Starvation \in Nat
  BY SchedulerAssumption
<1>5. passedOver' \in [Missions -> 0 .. Starvation]
  <2>1. passedOver \in [Missions -> 0 .. Starvation]
    BY DEF ScheduledInv, SchedulerTypeOK
  <2>2. \A q \in Missions : passedOver[q] < Starvation => passedOver[q] + 1 \in 0 .. Starvation
    BY <1>4, <2>1
  <2>3. CASE UNCHANGED passedOver
    BY <2>1, <2>3
  <2>4. CASE passedOver' = [q \in Missions |->
                 IF q \in queued \ {m} /\ passedOver[q] < Starvation
                 THEN passedOver[q] + 1 ELSE passedOver[q]]
    BY <2>1, <2>2, <2>4
  <2> QED
    BY <1>1, <2>3, <2>4
<1>6. SchedulerTypeOK'
  BY <1>1, <1>3, <1>5, LeaveKeeps DEF ScheduledInv, SchedulerTypeOK
<1>7. Taken' \subseteq Taken
  BY <1>1, <1>3 DEF Taken
<1>8. Apart'
  BY <1>7 DEF ScheduledInv, Apart
<1> QED
  BY <1>6, <1>8

LEMMA SchedulerStepKeeps ==
  ASSUME ScheduledInv, NEW m \in Missions, SchedulerStep(m)
  PROVE  SchedulerTypeOK' /\ Apart' /\ MissionTypeOK'
<1>1. CASE Enqueue(m) /\ UNCHANGED missionVars
  <2>1. SchedulerTypeOK'
    BY <1>1, SchedulerAssumption DEF Enqueue, ScheduledInv, SchedulerTypeOK
  <2> QED
    BY <1>1, <2>1 DEF Enqueue, ScheduledInv, Apart, Taken, missionVars, MissionTypeOK
<1>2. CASE Dequeue(m) /\ UNCHANGED missionVars
  <2>1. SchedulerTypeOK'
    BY <1>2, LeaveKeeps DEF Dequeue, ScheduledInv, SchedulerTypeOK
  <2> QED
    BY <1>2, <2>1 DEF Dequeue, ScheduledInv, Apart, Taken, missionVars, MissionTypeOK
<1>3. CASE Release(m)
  <2>1. SchedulerTypeOK' /\ MissionTypeOK'
    BY <1>3 DEF Release, ScheduledInv, SchedulerTypeOK, MissionTypeOK
  <2>2. Taken' \subseteq Taken
    BY <1>3 DEF Release, Taken
  <2> QED
    BY <2>1, <2>2 DEF ScheduledInv, Apart
<1> QED
  BY <1>1, <1>2, <1>3 DEF SchedulerStep

\* A step that is no mission's scheduler's own.
LEMMA SchedulerIdle ==
  ASSUME SchedulerTypeOK, Apart, UNCHANGED schedulerVars
  PROVE  SchedulerTypeOK' /\ Apart'
BY DEF SchedulerTypeOK, Apart, Taken, schedulerVars

\* Each transition of a mission leads to a state of a mission.
LEMMA MissionTypes ==
  ASSUME MissionTypeOK,
         \/ \E m \in Missions : MissionStep(m)
         \/ \E c \in Askers : AuthorizationStep(c)
  PROVE  MissionTypeOK'
<1> USE MissionAssumption
<1>1. ASSUME NEW m \in Missions, MissionStep(m) PROVE MissionTypeOK'
  <2>1. \/ mission' = [mission EXCEPT ![m] = "PROPOSED"]
        \/ \E to \in MissionStates : mission' = [mission EXCEPT ![m] = to]
    BY <1>1, StateFacts DEF MissionStep, Propose, Advance, TerminateMission, Apply
  <2>2. asked' = asked /\ "PROPOSED" \in MissionStates
    BY <1>1 DEF MissionStep, Propose, Advance, TerminateMission, MissionStates, Legal
  <2> QED
    BY <2>1, <2>2 DEF MissionTypeOK
<1>2. ASSUME NEW c \in Askers, AuthorizationStep(c) PROVE MissionTypeOK'
  <2>1. "AUTHORIZED" \in MissionStates
    BY DEF MissionStates, Legal
  <2> QED
    BY <1>2, <2>1 DEF AuthorizationStep, Ask, Permit, Deny, Apply, MissionTypeOK
<1> QED
  BY <1>1, <1>2

LEMMA ScheduledStep ==
  ScheduledInv /\ [ScheduledNext]_<<missionVars, schedulerVars>> => ScheduledInv'
<1> SUFFICES ASSUME ScheduledInv, [ScheduledNext]_<<missionVars, schedulerVars>>
             PROVE  ScheduledInv'
  OBVIOUS
<1>1. CASE \E m \in Missions : MissionStep(m) /\ UNCHANGED schedulerVars
  BY <1>1, SchedulerIdle, MissionTypes DEF ScheduledInv
<1>2. CASE \E c \in Askers : AuthorizationStep(c) /\ UNCHANGED schedulerVars
  BY <1>2, SchedulerIdle, MissionTypes DEF ScheduledInv
<1>3. CASE \E m \in Missions : SchedulerStep(m)
  BY <1>3, SchedulerStepKeeps DEF ScheduledInv
<1>4. CASE Admit /\ UNCHANGED missionVars
  BY <1>4, AdmitKeeps DEF ScheduledInv, missionVars, MissionTypeOK
<1>5. CASE Start /\ UNCHANGED missionVars
  BY <1>5, StartKeeps DEF ScheduledInv, missionVars, MissionTypeOK
<1>6. CASE UNCHANGED <<missionVars, schedulerVars>>
  BY <1>6, SchedulerIdle DEF ScheduledInv, missionVars, MissionTypeOK
<1> QED
  BY <1>1, <1>2, <1>3, <1>4, <1>5, <1>6 DEF ScheduledNext, SchedulerNext

\* Missions whose scopes intersect never run together, for any missions and
\* scopes, however often Governance is asked, hosts start what they were offered
\* late, and missions end, leave the queue or are proposed again.
THEOREM MissionsStayDisjoint == ScheduledSpec => []MissionsDisjoint
<1>1. ScheduledInit => ScheduledInv
  BY SchedulerStarts, MissionStarts DEF ScheduledInit, ScheduledInv, MissionInv
<1>2. ScheduledInv => MissionsDisjoint
  BY DEF ScheduledInv, Apart, Taken, MissionsDisjoint
<1> QED
  BY <1>1, <1>2, ScheduledStep, PTL DEF ScheduledSpec

-----------------------------------------------------------------------------
(* Agents and the supervisor                                               *)

SeenCopy == [id : Agents, copy : Copy, overdue : SUBSET AllLimits]
Containment == [id : Agents \cup {NoAgent}, copy : Copy, cause : Causes, left : Nat]

AgentTypes ==
  /\ agent \in [Agents -> Copy]
  /\ spawned \in Seq(Agents)
  /\ overdue \in [Agents -> SUBSET AllLimits]

StopTypes ==
  /\ ticking \in BOOLEAN
  /\ call \in [Callers -> Containment]
  /\ sweep \in [on : BOOLEAN, list : Seq(SeenCopy)]
  /\ records \subseteq [id : Agents, mission : MissionStates]

\* An agent is listed when it is spawned, once.
SpawnedOnce ==
  /\ \A a \in Agents : agent[a].state # "none" <=> \E i \in DOMAIN spawned : spawned[i] = a
  /\ \A i, j \in DOMAIN spawned : spawned[i] = spawned[j] => i = j

\* Whatever is contained, or may come to be, has been spawned, ...
Known(a) == a \in Agents /\ agent[a].state # "none"

KnownInv ==
  /\ \A i \in DOMAIN sweep.list : Known(sweep.list[i].id)
  /\ \A c \in Callers : call[c].left # 0 => Known(call[c].id)

\* ... and its mission was authorized by then.
BegunInv ==
  \A a \in Agents : Known(a) => mission[MissionOf[a]] \notin {"none", "PROPOSED", "AUTHORIZED"}

AgentInv == AgentTypes /\ SpawnedOnce
StopInv == StopTypes /\ KnownInv
SupervisedInv == MissionInv /\ AgentInv /\ StopInv /\ BegunInv /\ RecordsAgree

LEMMA SupervisedStarts == SupervisedInit => SupervisedInv
<1> SUFFICES ASSUME SupervisedInit PROVE SupervisedInv
  OBVIOUS
<1> USE AgentAssumption DEF SupervisedInit, SupervisionInit
<1>1. [state |-> "none", spent |-> 0] \in Copy
  BY DEF Copy
<1>2. NotCalled \in Containment /\ NotCalled.left = 0
  BY <1>1 DEF NotCalled, Containment, Causes, EndFor
<1>3. AgentInv
  BY <1>1 DEF AgentInv, AgentTypes, SpawnedOnce
<1>4. StopInv
  BY <1>2 DEF StopInv, StopTypes, KnownInv, NoSweep
<1>5. BegunInv /\ RecordsAgree
  BY DEF BegunInv, Known, RecordsAgree
<1> QED
  BY <1>3, <1>4, <1>5, MissionStarts DEF SupervisedInv

\* What the two groups of invariants need of a step that leaves the missions,
\* or the containments, or the agents alone.
LEMMA MissionsIdle ==
  ASSUME MissionInv, BegunInv, RecordsAgree, UNCHANGED missionVars, records' = records,
         \A a \in Agents : Known(a)' => Known(a)
  PROVE  MissionInv' /\ BegunInv' /\ RecordsAgree'
<1>1. mission' = mission /\ asked' = asked
  BY DEF missionVars
<1> QED
  BY <1>1 DEF MissionInv, MissionTypeOK, AskedInv, BegunInv, RecordsAgree

LEMMA StopsIdle ==
  ASSUME StopInv, UNCHANGED stopVars, \A a \in Agents : Known(a) => Known(a)'
  PROVE  StopInv'
<1>1. call' = call /\ ticking' = ticking /\ sweep' = sweep /\ records' = records
  BY DEF stopVars
<1>2. \A a : Known(a) => Known(a)'
  BY DEF Known
<1> QED
  BY <1>1, <1>2 DEF StopInv, StopTypes, KnownInv

LEMMA SpawnKeeps ==
  ASSUME SupervisedInv, NEW a \in Agents, Spawn(a), UNCHANGED missionVars
  PROVE  SupervisedInv'
<1> USE AgentAssumption DEF SupervisedInv, AgentInv
<1>1. /\ agent[a].state = "none" /\ mission[MissionOf[a]] = "PROVISIONED"
      /\ agent' = [agent EXCEPT ![a].state = "PROVISIONED"]
      /\ spawned' = Append(spawned, a) /\ overdue' = overdue /\ UNCHANGED stopVars
      /\ mission' = mission /\ asked' = asked
  BY DEF Spawn, missionVars
<1>2. AgentTypes'
  <2>1. [agent[a] EXCEPT !.state = "PROVISIONED"] \in Copy
    BY DEF AgentTypes, Copy
  <2>2. agent' = [agent EXCEPT ![a] = [agent[a] EXCEPT !.state = "PROVISIONED"]]
    BY <1>1
  <2> QED
    BY <1>1, <2>1, <2>2 DEF AgentTypes
<1>3. \A b \in Agents : agent'[b].state = IF b = a THEN "PROVISIONED" ELSE agent[b].state
  BY <1>1 DEF AgentTypes, Copy
<1>4. SpawnedOnce'
  <2>1. /\ DOMAIN spawned' = DOMAIN spawned \cup {Len(spawned) + 1}
        /\ DOMAIN spawned = 1 .. Len(spawned) /\ Len(spawned) \in Nat
        /\ \A i \in DOMAIN spawned : spawned'[i] = spawned[i]
        /\ spawned'[Len(spawned) + 1] = a
    BY <1>1 DEF AgentTypes
  <2>2. \A i \in DOMAIN spawned : spawned[i] # a
    BY <1>1 DEF SpawnedOnce
  <2>3. \A b \in Agents : agent'[b].state # "none" <=> \E i \in DOMAIN spawned' : spawned'[i] = b
    BY <1>3, <2>1 DEF SpawnedOnce
  <2> QED
    BY <2>1, <2>2, <2>3 DEF SpawnedOnce
<1>5. \A b \in Agents : /\ Known(b) => Known(b)'
                        /\ Known(b)' => Known(b) \/ b = a
  BY <1>3 DEF Known
<1>6. StopInv'
  BY <1>1, <1>5, StopsIdle
<1>7. MissionInv' /\ BegunInv' /\ RecordsAgree'
  BY <1>1, <1>5 DEF MissionInv, MissionTypeOK, AskedInv, BegunInv, RecordsAgree, stopVars
<1> QED
  BY <1>2, <1>4, <1>6, <1>7

\* The other steps of an agent neither list nor forget it.
LEMMA AgentStepKeeps ==
  ASSUME SupervisedInv, NEW a \in Agents, UNCHANGED missionVars,
         RecordAction(a) \/ Heartbeat(a) \/ ReleaseAgent(a) \/ ReachLimit(a)
  PROVE  SupervisedInv'
<1> USE AgentAssumption DEF SupervisedInv, AgentInv
<1>1. Active(a) /\ spawned' = spawned /\ UNCHANGED stopVars /\ records' = records
  BY DEF RecordAction, Heartbeat, ReleaseAgent, ReachLimit, stopVars
<1>2. overdue' \in [Agents -> SUBSET AllLimits]
  BY DEF RecordAction, Heartbeat, ReleaseAgent, ReachLimit, AgentTypes
<1>3. \E copy \in Copy : /\ agent' = [agent EXCEPT ![a] = copy]
                         /\ copy.state # "none"
  <2>0. agent[a] \in Copy /\ agent[a].state \in Working
    BY <1>1 DEF AgentTypes, Active
  <2>1. CASE RecordAction(a)
    <3>1. [state |-> "RUNNING", spent |-> agent[a].spent + 1] \in Copy
      BY <2>0, <2>1 DEF RecordAction, Copy
    <3>2. agent' = [agent EXCEPT ![a] = [state |-> "RUNNING", spent |-> agent[a].spent + 1]]
      BY <2>1 DEF RecordAction, AgentTypes
    <3> QED
      BY <3>1, <3>2
  <2>2. CASE ReleaseAgent(a)
    <3>1. [agent[a] EXCEPT !.state = "RELEASED"] \in Copy
      BY <2>0 DEF Copy
    <3>2. agent' = [agent EXCEPT ![a] = [agent[a] EXCEPT !.state = "RELEASED"]]
      BY <2>2 DEF ReleaseAgent
    <3> QED
      BY <3>1, <3>2, <2>0 DEF Copy
  <2>3. CASE agent' = agent
    <3>1. agent' = [agent EXCEPT ![a] = agent[a]]
      BY <2>3 DEF AgentTypes
    <3> QED
      BY <3>1, <2>0 DEF Working
  <2> QED
    BY <2>1, <2>2, <2>3 DEF Heartbeat, ReachLimit
<1>4. \A b \in Agents : agent'[b].state # "none" <=> agent[b].state # "none"
  BY <1>1, <1>3 DEF AgentTypes, Active, Working
<1>5. AgentTypes' /\ SpawnedOnce'
  BY <1>1, <1>2, <1>3, <1>4 DEF AgentTypes, SpawnedOnce
<1>6. \A b \in Agents : Known(b) <=> Known(b)'
  BY <1>4 DEF Known
<1> QED
  BY <1>1, <1>5, <1>6, StopsIdle, MissionsIdle

\* Every ground for a containment is a cause.
LEMMA GroundsAreCauses ==
  ASSUME NEW s PROVE Grounds(s) \subseteq Causes
BY DEF Grounds, Causes, EndFor

LEMMA ContainIsTyped ==
  ASSUME NEW a \in Agents, NEW copy \in Copy, NEW cause \in Causes
  PROVE  Contain(a, copy, cause) \in Containment /\ Contain(a, copy, cause).id = a
BY AgentAssumption DEF Contain, Containment

LEMMA NotCalledIsTyped == NotCalled \in Containment /\ NotCalled.left = 0
<1>1. [state |-> "none", spent |-> 0] \in Copy
  BY AgentAssumption DEF Copy
<1> QED
  BY <1>1 DEF NotCalled, Containment, Causes, EndFor

\* A sweep goes on with some of what it listed, and contains one of them.
LEMMA SweepOnKeeps ==
  ASSUME SupervisedInv, NEW list \in Seq(SeenCopy), SweepOn(list),
         \A i \in DOMAIN list : Known(list[i].id),
         UNCHANGED <<agentVars, ticking, records>>
  PROVE  StopInv'
<1> DEFINE due == {i \in DOMAIN list : list[i].copy.state \in Working /\ Grounds(list[i]) # {}}
<1> USE DEF SupervisedInv, StopInv
<1>0. ticking' = ticking /\ records' = records /\ agent' = agent
  BY DEF agentVars
<1>1. CASE due = {}
  <2>1. sweep' = NoSweep /\ call' = call
    BY <1>1 DEF SweepOn
  <2> QED
    BY <1>0, <2>1 DEF StopTypes, KnownInv, Known, NoSweep
<1>2. CASE due # {}
  <2>0. due \in SUBSET Nat
    OBVIOUS
  <2>1. \E i \in due : \A j \in due : i <= j
    <3> HIDE DEF due
    <3> QED BY <1>2, <2>0, LeastNatural
  <2>2. PICK i \in due : \E cause \in Grounds(list[i]) :
          /\ sweep' = [on |-> TRUE, list |-> SubSeq(list, i + 1, Len(list))]
          /\ call' = [call EXCEPT ![Supervisor] = Contain(list[i].id, list[i].copy, cause)]
    <3> DEFINE first == CHOOSE i \in due : \A j \in due : i <= j
    <3>1. first \in due
      BY <2>1
    <3>2. /\ sweep' = [on |-> TRUE, list |-> SubSeq(list, first + 1, Len(list))]
          /\ \E cause \in Grounds(list[first]) :
               call' = [call EXCEPT ![Supervisor] = Contain(list[first].id, list[first].copy, cause)]
      BY <1>2 DEF SweepOn
    <3> HIDE DEF first
    <3> QED
      BY <3>1, <3>2
  <2>3. PICK cause \in Causes :
          call' = [call EXCEPT ![Supervisor] = Contain(list[i].id, list[i].copy, cause)]
    BY <2>2, GroundsAreCauses
  <2>4. /\ i \in 1 .. Len(list) /\ list[i] \in SeenCopy /\ Known(list[i].id)
    OBVIOUS
  <2>5. /\ Contain(list[i].id, list[i].copy, cause) \in Containment
        /\ Contain(list[i].id, list[i].copy, cause).id = list[i].id
    BY <2>4, ContainIsTyped DEF SeenCopy
  <2>6. /\ sweep' \in [on : BOOLEAN, list : Seq(SeenCopy)]
        /\ \A j \in DOMAIN sweep'.list : \E k \in DOMAIN list : sweep'.list[j] = list[k]
    <3> DEFINE rest == SubSeq(list, i + 1, Len(list))
    <3>1. /\ rest \in Seq(SeenCopy)
          /\ \A j \in DOMAIN rest : rest[j] = list[i + j] /\ i + j \in DOMAIN list
      BY <2>4
    <3>2. sweep'.list = rest /\ sweep' = [on |-> TRUE, list |-> rest]
      BY <2>2
    <3> HIDE DEF rest
    <3> QED
      BY <3>1, <3>2
  <2>7. call' \in [Callers -> Containment]
    BY <2>3, <2>5 DEF StopTypes
  <2>8. \A c \in Callers : call'[c].left # 0 => Known(call'[c].id)
    BY <2>3, <2>4, <2>5 DEF StopTypes, KnownInv
  <2>9. \A j \in DOMAIN sweep'.list : Known(sweep'.list[j].id)
    BY <2>6
  <2> QED
    BY <1>0, <2>6, <2>7, <2>8, <2>9 DEF StopTypes, KnownInv, Known
<1> QED
  BY <1>1, <1>2

\* An agent is stopped as it was read; its mission ends, or ended otherwise, and
\* what is recorded of it holds from then on.
LEMMA ContainedKeeps ==
  ASSUME SupervisedInv, NEW c \in Callers, Contained(c)
  PROVE  SupervisedInv'
<1> DEFINE a == call[c].id
           m == MissionOf[a]
<1> USE AgentAssumption
<1>1. /\ a \in Agents /\ Known(a) /\ m \in Missions
      /\ mission[m] \in MissionStates \ {"none", "PROPOSED", "AUTHORIZED"}
  <2>1. Known(a)
    BY DEF SupervisedInv, StopInv, KnownInv, Contained
  <2> QED
    BY <2>1 DEF Known, SupervisedInv, BegunInv, MissionInv, MissionTypeOK
<1> DEFINE state == Outcome(m, call[c].cause).state
<1>2. /\ agent' = [agent EXCEPT ![a] = [call[c].copy EXCEPT !.state = "TERMINATED"]]
      /\ mission' = [mission EXCEPT ![m] = state]
      /\ records' = records \cup {[id |-> a, mission |-> state]}
      /\ call' = [call EXCEPT ![c] = NotCalled]
      /\ UNCHANGED <<asked, spawned, overdue, ticking, sweep>>
  BY DEF Contained, Outcome
<1>3. /\ state \in MissionStates \ {"none", "PROPOSED", "AUTHORIZED"}
      /\ mission[m] \in Ended => state = mission[m]
  <2>1. call[c].cause \in Causes
    BY DEF SupervisedInv, StopInv, StopTypes, Containment
  <2>2. EndFor[call[c].cause] \in Failures
    BY <2>1 DEF Causes, EndFor, Failures, Interrupts
  <2> QED
    BY <1>1, <2>2, StateFacts DEF Outcome
<1>4. call[c].copy \in Copy
  BY DEF SupervisedInv, StopInv, StopTypes, Containment
<1> HIDE DEF a, m, state
<1>5. AgentTypes' /\ \A b \in Agents : Known(b) <=> Known(b)'
  <2>1. [call[c].copy EXCEPT !.state = "TERMINATED"] \in Copy
    BY <1>4 DEF Copy
  <2>2. [call[c].copy EXCEPT !.state = "TERMINATED"].state = "TERMINATED"
    BY <1>4 DEF Copy
  <2> QED
    BY <1>1, <1>2, <2>1, <2>2 DEF SupervisedInv, AgentInv, AgentTypes, Known
<1>6. AgentInv'
  BY <1>2, <1>5 DEF SupervisedInv, AgentInv, SpawnedOnce, Known
<1>7. StopInv'
  <2>1. StopTypes'
    BY <1>1, <1>2, <1>3, NotCalledIsTyped DEF SupervisedInv, StopInv, StopTypes
  <2>2. \A d : Known(d) => Known(d)'
    BY <1>5 DEF Known
  <2>3. KnownInv'
    BY <1>2, <2>2, NotCalledIsTyped DEF SupervisedInv, StopInv, StopTypes, KnownInv
  <2> QED
    BY <2>1, <2>3 DEF StopInv
<1>8. MissionTypeOK'
  BY <1>2, <1>3 DEF SupervisedInv, MissionInv, MissionTypeOK
<1>9. \A n \in Missions : mission'[n] = IF n = m THEN state ELSE mission[n]
  BY <1>1, <1>2 DEF SupervisedInv, MissionInv, MissionTypeOK
<1>10. AskedInv'
  BY <1>1, <1>2, <1>9, MissionAssumption DEF SupervisedInv, MissionInv, AskedInv
<1>11. BegunInv'
  BY <1>3, <1>5, <1>9 DEF SupervisedInv, BegunInv
<1>12. RecordsAgree'
  <2> SUFFICES ASSUME NEW r \in records', r.mission \in Ended
               PROVE  mission'[MissionOf[r.id]] = r.mission
    BY DEF RecordsAgree
  <2>1. CASE r = [id |-> a, mission |-> state]
    BY <1>1, <1>9, <2>1 DEF m
  <2>2. CASE r \in records
    <3>1. r.id \in Agents /\ mission[MissionOf[r.id]] = r.mission
      BY <2>2 DEF SupervisedInv, RecordsAgree, StopInv, StopTypes
    <3> QED
      BY <1>3, <1>9, <3>1
  <2> QED
    BY <1>2, <2>1, <2>2
<1> QED
  BY <1>6, <1>7, <1>8, <1>10, <1>11, <1>12 DEF SupervisedInv, MissionInv

\* Calls of an operator, and a freeze that is not the last.
LEMMA CallKeeps ==
  ASSUME SupervisedInv, NEW c \in Callers, Terminate(c) \/ Freeze(c), UNCHANGED missionVars
  PROVE  SupervisedInv'
<1> USE AgentAssumption
<1>0. UNCHANGED <<agentVars, ticking, sweep, records>> /\ agent' = agent /\ spawned' = spawned
      /\ overdue' = overdue
  BY DEF Terminate, Freeze, agentVars
<1>1. \E next \in Containment :
        /\ call' = [call EXCEPT ![c] = next]
        /\ next.left # 0 => Known(next.id)
  <2>1. CASE Terminate(c)
    <3>1. PICK a \in Agents, cause \in OperatorCauses :
            Active(a) /\ call' = [call EXCEPT ![c] = Contain(a, agent[a], cause)]
      BY <2>1 DEF Terminate
    <3>2. agent[a] \in Copy /\ Known(a)
      BY <3>1 DEF SupervisedInv, AgentInv, AgentTypes, Active, Working, Known
    <3>3. cause \in Causes
      OBVIOUS
    <3>4. Contain(a, agent[a], cause) \in Containment /\ Contain(a, agent[a], cause).id = a
      BY ONLY <3>2, <3>3, ContainIsTyped
    <3> QED
      BY <3>1, <3>2, <3>4
  <2>2. CASE Freeze(c)
    <3>1. /\ call[c] \in Containment /\ call[c].left > 1
          /\ call' = [call EXCEPT ![c] = [call[c] EXCEPT !.left = call[c].left - 1]]
      BY <2>2 DEF Freeze, SupervisedInv, StopInv, StopTypes
    <3>2. /\ [call[c] EXCEPT !.left = call[c].left - 1] \in Containment
          /\ [call[c] EXCEPT !.left = call[c].left - 1].id = call[c].id
      BY <3>1 DEF Containment
    <3>3. Known(call[c].id)
      BY <3>1 DEF SupervisedInv, StopInv, KnownInv, Containment
    <3> QED
      BY <3>1, <3>2, <3>3
  <2> QED
    BY <2>1, <2>2
<1>2. StopInv'
  BY <1>0, <1>1 DEF SupervisedInv, StopInv, StopTypes, KnownInv, Known
<1>3. AgentInv'
  BY <1>0 DEF SupervisedInv, AgentInv, AgentTypes, SpawnedOnce
<1>4. \A a \in Agents : Known(a)' => Known(a)
  BY <1>0 DEF Known
<1> QED
  BY <1>0, <1>2, <1>3, <1>4, MissionsIdle DEF SupervisedInv

LEMMA SweepKeeps ==
  ASSUME SupervisedInv, UNCHANGED missionVars,
         TickSweep \/ ResumeSweep \/ SweepThrows \/ StartStop
  PROVE  SupervisedInv'
<1>0. UNCHANGED agentVars /\ records' = records /\ agent' = agent /\ spawned' = spawned
      /\ overdue' = overdue
  BY DEF TickSweep, ResumeSweep, SweepThrows, StartStop, agentVars
<1>1. StopInv'
  <2>1. CASE TickSweep
    <3> DEFINE list == [i \in DOMAIN spawned |-> Seen(spawned[i])]
    <3>1. \A a \in Agents : Seen(a) \in SeenCopy /\ Seen(a).id = a
      BY DEF Seen, SeenCopy, SupervisedInv, AgentInv, AgentTypes
    <3>2. list \in Seq(SeenCopy)
      BY <3>1 DEF SupervisedInv, AgentInv, AgentTypes
    <3>3. \A i \in DOMAIN spawned : spawned[i] \in Agents /\ Known(spawned[i])
      BY DEF SupervisedInv, AgentInv, AgentTypes, SpawnedOnce, Known
    <3>4. \A i \in DOMAIN list : Known(list[i].id)
      BY <3>1, <3>3
    <3>5. SweepOn(list) /\ UNCHANGED <<agentVars, ticking, records>>
      BY <2>1 DEF TickSweep
    <3> HIDE DEF list
    <3> QED
      BY <3>2, <3>4, <3>5, SweepOnKeeps
  <2>2. CASE ResumeSweep
    <3>1. sweep.list \in Seq(SeenCopy) /\ \A i \in DOMAIN sweep.list : Known(sweep.list[i].id)
      BY DEF SupervisedInv, StopInv, StopTypes, KnownInv
    <3> QED
      BY <2>2, <3>1, SweepOnKeeps DEF ResumeSweep
  <2>3. CASE SweepThrows \/ StartStop
    <3>1. NoSweep \in [on : BOOLEAN, list : Seq(SeenCopy)] /\ DOMAIN NoSweep.list = {}
      BY DEF NoSweep
    <3>2. call' = call /\ ticking' \in BOOLEAN /\ sweep' \in {sweep, NoSweep}
      BY <2>3 DEF SweepThrows, StartStop, SupervisedInv, StopInv, StopTypes
    <3>3. StopTypes'
      BY <1>0, <3>1, <3>2 DEF SupervisedInv, StopInv, StopTypes
    <3>4. KnownInv'
      BY <1>0, <3>1, <3>2 DEF SupervisedInv, StopInv, KnownInv, Known
    <3> QED
      BY <3>3, <3>4 DEF StopInv
  <2> QED
    BY <2>1, <2>2, <2>3
<1>2. AgentInv'
  BY <1>0 DEF SupervisedInv, AgentInv, AgentTypes, SpawnedOnce
<1>3. \A a \in Agents : Known(a)' => Known(a)
  BY <1>0 DEF Known
<1> QED
  BY <1>0, <1>1, <1>2, <1>3, MissionsIdle DEF SupervisedInv

\* A mission that is carried on keeps what was recorded of its end.
LEMMA HostKeeps ==
  ASSUME Interposing = FALSE, SupervisedInv, UNCHANGED supervisionVars,
         \/ \E m \in Missions : MissionStep(m)
         \/ \E c \in Askers : AuthorizationStep(c)
  PROVE  SupervisedInv'
<1> USE AgentAssumption
<1>0. /\ UNCHANGED stopVars /\ agent' = agent /\ spawned' = spawned /\ overdue' = overdue
      /\ records' = records
  BY DEF supervisionVars, agentVars, stopVars
<1>1. AgentInv' /\ StopInv'
  <2>1. \A a \in Agents : Known(a) => Known(a)'
    BY <1>0 DEF Known
  <2> QED
    BY <1>0, <2>1, StopsIdle DEF SupervisedInv, AgentInv, AgentTypes, SpawnedOnce
<1>2. /\ MissionInv'
      /\ \A n \in Missions :
           /\ mission[n] \in Ended => mission'[n] = mission[n]
           /\ mission[n] \notin {"none", "PROPOSED", "AUTHORIZED"}
                => mission'[n] \notin {"none", "PROPOSED", "AUTHORIZED"}
  <2>1. ASSUME NEW m \in Missions, MissionStep(m)
        PROVE  <1>2
    BY <2>1, MissionStepKeeps DEF SupervisedInv
  <2>2. ASSUME NEW c \in Askers, AuthorizationStep(c)
        PROVE  <1>2
    <3>1. {"PROPOSED", "AUTHORIZED"} \cap Ended = {}
      BY DEF Ended, Failures, Interrupts
    <3> QED
      BY <2>2, <3>1, AuthorizationKeeps DEF SupervisedInv
  <2> QED
    BY <2>1, <2>2
<1>3. BegunInv'
  BY <1>0, <1>2 DEF SupervisedInv, BegunInv, Known
<1>4. RecordsAgree'
  BY <1>0, <1>2 DEF SupervisedInv, RecordsAgree, StopInv, StopTypes
<1> QED
  BY <1>1, <1>2, <1>3, <1>4 DEF SupervisedInv

LEMMA SupervisedStep ==
  ASSUME Interposing = FALSE, SupervisedInv,
         [SupervisedNext]_<<missionVars, supervisionVars>>
  PROVE  SupervisedInv'
<1>1. CASE \E a \in Agents : MissionStep(MissionOf[a]) /\ UNCHANGED supervisionVars
  BY <1>1, HostKeeps, AgentAssumption
<1>2. CASE \E c \in Askers : AuthorizationStep(c) /\ UNCHANGED supervisionVars
  BY <1>2, HostKeeps
<1>3. CASE SupervisionNext
  <2>1. CASE \E a \in Agents : AgentStep(a) /\ UNCHANGED missionVars
    BY <2>1, SpawnKeeps, AgentStepKeeps DEF AgentStep
  <2>2. CASE \E c \in Callers : \/ Terminate(c) /\ UNCHANGED missionVars
                                \/ Freeze(c) \/ Contained(c)
    <3>1. \A c \in Callers : Freeze(c) => UNCHANGED missionVars
      BY DEF Freeze
    <3> QED
      BY <2>2, <3>1, CallKeeps, ContainedKeeps
  <2>3. CASE (TickSweep \/ ResumeSweep \/ SweepThrows \/ StartStop) /\ UNCHANGED missionVars
    BY <2>3, SweepKeeps
  <2> QED
    BY <1>3, <2>1, <2>2, <2>3 DEF SupervisionNext
<1>4. CASE UNCHANGED <<missionVars, supervisionVars>>
  <2>1. /\ UNCHANGED stopVars /\ agent' = agent /\ spawned' = spawned /\ overdue' = overdue
        /\ UNCHANGED missionVars /\ records' = records
    BY <1>4 DEF supervisionVars, agentVars, stopVars
  <2>2. \A a \in Agents : Known(a) <=> Known(a)'
    BY <2>1 DEF Known
  <2> QED
    BY <2>1, <2>2, StopsIdle, MissionsIdle DEF SupervisedInv, AgentInv, AgentTypes, SpawnedOnce
<1> QED
  BY <1>1, <1>2, <1>3, <1>4 DEF SupervisedNext

\* What a termination recorded of a mission that ended stays true of it: for any
\* agents and missions, whoever contains which agents at the same time, and
\* whatever hosts and Governance do meanwhile, as long as nothing happens to a
\* mission while Governance is asked about it.
THEOREM TerminationRecordsAgree ==
  ASSUME Interposing = FALSE
  PROVE  SupervisedSpec => []RecordsAgree
<1>1. SupervisedInv /\ [SupervisedNext]_<<missionVars, supervisionVars>> => SupervisedInv'
  BY SupervisedStep
<1>2. SupervisedInv => RecordsAgree
  BY DEF SupervisedInv
<1> QED
  BY <1>1, <1>2, SupervisedStarts, PTL DEF SupervisedSpec

-----------------------------------------------------------------------------
(* The two instances together                                              *)

\* Nothing was spawned where missions are scheduled: a mission that is released
\* there, for another to be proposed in its place, has no agent and no record.
FoundryInv ==
  /\ ScheduledInv /\ SupervisedInv
  /\ foundryPart = "missions" => records = {} /\ \A a \in Agents : ~Known(a)

LEMMA FoundryStarts == FoundryInit => FoundryInv
<1> SUFFICES ASSUME FoundryInit PROVE FoundryInv
  OBVIOUS
<1>1. ScheduledInv
  BY SchedulerStarts, MissionStarts DEF FoundryInit, ScheduledInit, ScheduledInv, MissionInv
<1>2. SupervisedInv
  BY SupervisedStarts DEF FoundryInit
<1>3. records = {} /\ \A a \in Agents : ~Known(a)
  BY DEF FoundryInit, SupervisedInit, SupervisionInit, Known
<1> QED
  BY <1>1, <1>2, <1>3 DEF FoundryInv

LEMMA AgentsKeep ==
  ASSUME Interposing = FALSE, FoundryInv, AgentsStep
  PROVE  FoundryInv'
<1>1. SupervisedInv'
  BY SupervisedStep DEF AgentsStep, FoundryInv
<1>2. ScheduledInv'
  BY <1>1, SchedulerIdle DEF AgentsStep, FoundryInv, ScheduledInv, SupervisedInv, MissionInv
<1> QED
  BY <1>1, <1>2 DEF AgentsStep, FoundryInv

\* The scheduler leaves missions alone, but for one that ended and is released:
\* nobody is asking about it.
LEMMA SchedulerLeavesMissions ==
  ASSUME SupervisedInv, SchedulerNext, UNCHANGED supervisionVars, records = {},
         \A a \in Agents : ~Known(a)
  PROVE  SupervisedInv'
<1>0. /\ UNCHANGED stopVars /\ agent' = agent /\ spawned' = spawned /\ overdue' = overdue
      /\ records' = records
  BY DEF supervisionVars, agentVars, stopVars
<1>1. AgentInv' /\ StopInv'
  <2>1. \A a \in Agents : Known(a) <=> Known(a)'
    BY <1>0 DEF Known
  <2> QED
    BY <1>0, <2>1, StopsIdle DEF SupervisedInv, AgentInv, AgentTypes, SpawnedOnce
<1>2. BegunInv' /\ RecordsAgree'
  BY <1>0 DEF BegunInv, Known, RecordsAgree
<1>3. MissionInv'
  <2>1. CASE UNCHANGED missionVars
    BY <2>1 DEF missionVars, SupervisedInv, MissionInv, MissionTypeOK, AskedInv
  <2>2. CASE \E m \in Missions : Release(m)
    <3>1. PICK m \in Missions : Release(m)
      BY <2>2
    <3>2. {"PROPOSED", "AUTHORIZED"} \cap Ended = {}
      BY DEF Ended, Failures, Interrupts
    <3> QED
      BY <3>1, <3>2, MissionAssumption
         DEF Release, SupervisedInv, MissionInv, MissionTypeOK, AskedInv
  <2> QED
    BY <2>1, <2>2 DEF SchedulerNext, SchedulerStep
<1> QED
  BY <1>1, <1>2, <1>3 DEF SupervisedInv

LEMMA QueueKeeps ==
  ASSUME Interposing = FALSE, FoundryInv, QueueStep(ScheduledNext)
  PROVE  FoundryInv'
<1>1. /\ foundryPart = "missions" /\ ScheduledNext /\ UNCHANGED supervisionVars
      /\ foundryPart' = foundryPart
  BY DEF QueueStep
<1>2. ScheduledInv'
  BY <1>1, ScheduledStep DEF FoundryInv
<1>3. records = {} /\ \A a \in Agents : ~Known(a)
  BY <1>1 DEF FoundryInv
<1>4. records' = records /\ agent' = agent
  BY <1>1 DEF supervisionVars, agentVars, stopVars
<1>5. SupervisedInv'
  <2>1. CASE \/ \E m \in Missions : MissionStep(m)
             \/ \E c \in Askers : AuthorizationStep(c)
    BY <1>1, <2>1, HostKeeps DEF FoundryInv
  <2>2. CASE SchedulerNext
    BY <1>1, <1>3, <2>2, SchedulerLeavesMissions DEF FoundryInv
  <2> QED
    BY <1>1, <2>1, <2>2 DEF ScheduledNext
<1> QED
  BY <1>1, <1>2, <1>3, <1>4, <1>5 DEF FoundryInv, Known

LEMMA FoundryStep ==
  ASSUME Interposing = FALSE, FoundryInv, [FoundryNext]_foundryVars
  PROVE  FoundryInv'
<1>1. CASE AgentsStep
  BY <1>1, AgentsKeep
<1>2. CASE QueueStep(\E m \in Missions : Carried(m) /\ MissionStep(m) /\ UNCHANGED schedulerVars)
  BY <1>2, QueueKeeps DEF QueueStep, ScheduledNext
<1>3. CASE QueueStep(\E c \in Askers : AuthorizationStep(c) /\ UNCHANGED schedulerVars)
  BY <1>3, QueueKeeps DEF QueueStep, ScheduledNext
<1>4. CASE QueueStep(SchedulerNext)
  BY <1>4, QueueKeeps DEF QueueStep, ScheduledNext
<1>5. CASE UNCHANGED foundryVars
  <2>1. /\ UNCHANGED <<missionVars, schedulerVars>> /\ UNCHANGED <<missionVars, supervisionVars>>
        /\ foundryPart' = foundryPart
    BY <1>5 DEF foundryVars
  <2>2. records' = records /\ agent' = agent
    BY <2>1 DEF supervisionVars, agentVars, stopVars
  <2> QED
    BY <2>1, <2>2, ScheduledStep, SupervisedStep DEF FoundryInv, Known
<1> QED
  BY <1>1, <1>2, <1>3, <1>4, <1>5 DEF FoundryNext

\* The map of agents lists each once, so that it is no longer than there are
\* agents.
LEMMA SpawnedBounded ==
  ASSUME AgentInv
  PROVE  spawned \in SeqOf(Agents, Cardinality(Agents)) /\ IsInjective(spawned)
<1>1. spawned \in Seq(Agents) /\ IsFiniteSet(Agents)
  BY AgentAssumption DEF AgentInv, AgentTypes
<1>2. IsInjective(spawned)
  BY DEF AgentInv, SpawnedOnce, IsInjective
<1>3. spawned \in Injection(1 .. Len(spawned), Agents) /\ Len(spawned) \in Nat
  <2>1. spawned \in [1 .. Len(spawned) -> Agents] /\ Len(spawned) \in Nat
    BY <1>1
  <2> QED
    BY <1>2, <2>1 DEF Injection
<1>4. Cardinality(1 .. Len(spawned)) <= Cardinality(Agents)
  BY <1>1, <1>3, FS_Injection
<1>5. Cardinality(1 .. Len(spawned)) = Len(spawned)
  <2>1. \A n \in Nat : Cardinality(1 .. n) = IF 1 > n THEN 0 ELSE n - 1 + 1
    BY FS_Interval
  <2>2. \A n \in Nat : (IF 1 > n THEN 0 ELSE n - 1 + 1) = n
    OBVIOUS
  <2> QED
    BY <1>3, <2>1, <2>2
<1>6. Cardinality(Agents) \in Nat
  BY <1>1, FS_CardinalityType
<1>7. Len(spawned) \in 0 .. Cardinality(Agents)
  BY <1>3, <1>4, <1>5, <1>6
<1>8. spawned \in [1 .. Len(spawned) -> Agents]
  BY <1>1
<1> QED
  BY <1>2, <1>7, <1>8 DEF SeqOf

\* Every variable of missions, scheduler and supervision keeps its type in the
\* two instances composed: no mission is in a state it cannot be in, the queue
\* stays ordered, and an agent is listed once.
THEOREM FoundryTypesCorrect ==
  ASSUME Interposing = FALSE
  PROVE  FoundrySpec => []FoundryTypes
<1>1. FoundryInv /\ [FoundryNext]_foundryVars => FoundryInv'
  BY FoundryStep
<1>2. FoundryInv => FoundryTypes
  <2> SUFFICES ASSUME FoundryInv PROVE FoundryTypes
    OBVIOUS
  <2>1. MissionTypeOK /\ SchedulerTypeOK /\ AgentInv /\ StopTypes
    BY DEF FoundryInv, ScheduledInv, SupervisedInv, StopInv
  <2>2. \A c \in Callers : call[c] \in Containment
    BY <2>1 DEF StopTypes
  <2>3. SupervisionTypeOK
    BY <2>1, <2>2, SpawnedBounded
       DEF SupervisionTypeOK, AgentInv, AgentTypes, StopTypes, Containment
  <2> QED
    BY <2>1, <2>3 DEF FoundryTypes
<1> QED
  BY <1>1, <1>2, FoundryStarts, PTL DEF FoundrySpec

\* What the run checks of the composed instances, of any: missions whose scopes
\* intersect do not run together, and a termination's record stays true.
THEOREM FoundryCorrect ==
  ASSUME Interposing = FALSE
  PROVE  FoundrySpec => [](MissionsDisjoint /\ RecordsAgree)
<1>1. FoundryInv /\ [FoundryNext]_foundryVars => FoundryInv'
  BY FoundryStep
<1>2. FoundryInv => MissionsDisjoint /\ RecordsAgree
  BY DEF FoundryInv, ScheduledInv, SupervisedInv, Apart, Taken, MissionsDisjoint
<1> QED
  BY <1>1, <1>2, FoundryStarts, PTL DEF FoundrySpec
=============================================================================
