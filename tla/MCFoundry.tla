----------------------------- MODULE MCFoundry -----------------------------
(***************************************************************************)
(* Small instances of Foundry: two agents of one mission, an operator who  *)
(* means to stop `crane', and the supervisor ("agents"); and three         *)
(* missions in the queue, whose hosts carry them out ("missions").         *)
(***************************************************************************)
EXTENDS MissionScheduler, AgentSupervision

CONSTANTS FoundryParts,
          repair, drift, audit,   \* missions
          crane, mole,            \* agents
          steward, curator,       \* calls of requestAuthorization
          parser, ledger          \* components

VARIABLE foundryPart

foundryVars == <<foundryPart, missionVars, schedulerVars, supervisionVars>>

MCAsksFor == [c \in Askers |-> drift]
MCMissionOf == [a \in Agents |-> repair]
MCLimits == [a \in Agents |-> IF a = crane THEN {"lease"} ELSE {"silence"}]
MCSpaces == [a \in Agents |-> IF a = crane THEN 2 ELSE 1]

\* One component each, two of them the same; or one that needs both.
MCComponents == [m \in Missions |-> {IF m = audit THEN ledger ELSE parser}]
MCWideComponents ==
  [m \in Missions |-> IF m = drift THEN {parser, ledger} ELSE {IF m = audit THEN ledger ELSE parser}]
MCWeight == [m \in Missions |-> IF m = drift THEN 1 ELSE 10]
MCEnvironment == [m \in Missions |-> "SIMULATION"]
MCRepository == [m \in Missions |-> IF m = repair THEN "core" ELSE "web"]

FoundryInit ==
  /\ foundryPart \in FoundryParts
  /\ ScheduledInit /\ SupervisedInit

AgentsStep ==
  /\ foundryPart = "agents"
  /\ SupervisedNext
  /\ \A c \in Operators : call'[c].id # mole
  /\ UNCHANGED <<foundryPart, schedulerVars>>

QueueStep(A) == foundryPart = "missions" /\ A /\ UNCHANGED <<foundryPart, supervisionVars>>

\* A host begins a mission once it was admitted.
Carried(m) == mission[m] \in {"AUTHORIZED", "PROVISIONED"} => m \in admitted

FoundryNext ==
  \/ AgentsStep
  \/ QueueStep(\E m \in Missions : Carried(m) /\ MissionStep(m) /\ UNCHANGED schedulerVars)
  \/ QueueStep(\E c \in Askers : AuthorizationStep(c) /\ UNCHANGED schedulerVars)
  \/ QueueStep(SchedulerNext)

SupervisorRuns(A) ==
  foundryPart = "agents" /\ A /\ UNCHANGED <<foundryPart, schedulerVars>>

\* The ticker ticks and freezes are answered; a host that was offered a mission
\* starts it, carries it out and says when it has ended.
FoundryFairness ==
  /\ WF_foundryVars(SupervisorRuns(\/ (TickSweep \/ ResumeSweep) /\ UNCHANGED missionVars
                                   \/ Freeze(Supervisor) \/ Contained(Supervisor)))
  /\ WF_foundryVars(QueueStep((Admit \/ Start) /\ UNCHANGED missionVars))
  /\ \A m \in Missions :
       WF_foundryVars(QueueStep(\/ m \in admitted /\ Advance(m) /\ UNCHANGED schedulerVars
                                \/ Release(m)))

FoundrySpec == FoundryInit /\ [][FoundryNext]_foundryVars /\ FoundryFairness

FoundryTypes == MissionTypeOK /\ SchedulerTypeOK /\ SupervisionTypeOK
=============================================================================
