-------------------------- MODULE AgentSupervision --------------------------
(***************************************************************************)
(* Foundry's agents, and the supervisor that stops them.                   *)
(*   packages/foundry-evolutioniq/src/agents/runtime.ts, scheduler.ts      *)
(*                                                                         *)
(* Everything but a containment is one turn of the event loop.  `contain'  *)
(* awaits once for each workspace it freezes, and writes the agent, as it  *)
(* read it, and the mission after the last one.  A sweep contains one      *)
(* agent after the other, from the list it made at its start.              *)
(*                                                                         *)
(* An agent's credential is revoked in the map exactly when its state is   *)
(* TERMINATED or RELEASED, so it is left out.  Clocks are left out: a set  *)
(* that time adds to tells which of an agent's limits have passed.         *)
(***************************************************************************)
EXTENDS MissionControl, FiniteSets, SequencesExt

CONSTANTS
  Agents, NoAgent,
  MissionOf,       \* MissionOf[a]: the mission an agent is spawned for
  Spaces,          \* Spaces[a]: how many workspaces it has in the sandbox
  Supervisor,      \* the scheduler's sweeps, a caller of contain
  Operators,       \* callers of terminate
  OperatorCauses,  \* the causes they give
  Limits,          \* Limits[a]: what may come to stop it
  MaxActions,      \* budget.maxActions
  MaxAgents        \* maxConcurrentAgents

Callers == Operators \cup {Supervisor}

\* CAUSE_TO_MISSION_STATE
EndFor == [LEASE_EXPIRED |-> "LEASE_EXPIRED", SCOPE_EXCEEDED |-> "SCOPE_EXCEEDED",
           SENTINEL_FINDING |-> "TERMINATED_BY_SENTINEL",
           GOVERNANCE_REVOCATION |-> "TERMINATED_BY_GOVERNANCE",
           VALIDATION_REJECTED |-> "VALIDATION_REJECTED",
           BUDGET_EXHAUSTED |-> "FAILED", MISSION_DEADLINE |-> "FAILED",
           OPERATOR_ABORT |-> "ABORTED"]
Causes == DOMAIN EndFor

\* expiresAt of the lease, the mission's maxDurationMs, the time since the last
\* heartbeat, the budget's maxDurationMs; and a forcing finding of Sentinel's.
TimeLimits == {"lease", "deadline", "silence", "duration"}
AllLimits == TimeLimits \cup {"finding"}

ASSUME AgentAssumption ==
  /\ IsFiniteSet(Agents) /\ NoAgent \notin Agents
  /\ MissionOf \in [Agents -> Missions]
  /\ Spaces \in [Agents -> Nat \ {0}]
  /\ Supervisor \notin Operators
  /\ OperatorCauses \subseteq Causes /\ Limits \in [Agents -> SUBSET AllLimits]
  /\ MaxActions \in Nat \ {0} /\ MaxAgents \in Nat \ {0}

VARIABLES
  agent,      \* agents: state and actions spent of each
  spawned,    \* the order of the map
  overdue,    \* overdue[a]: the limits that have passed
  call,       \* the containment each caller has under way
  ticking,    \* scheduler.ts: `running'
  sweep,      \* scheduler.ts: `sweeping', and the rest of the sweep's list
  records     \* terminations

agentVars == <<agent, spawned, overdue>>
stopVars == <<call, ticking, sweep, records>>
supervisionVars == <<agentVars, stopVars>>

Working == {"PROVISIONED", "RUNNING"}
Active(a) == agent[a].state \in Working

\* What a sweep sees of an agent and of time: as they were at its start.
Seen(a) == [id |-> a, copy |-> agent[a], overdue |-> overdue[a] \ {"finding"}]

NotCalled == [id |-> NoAgent, copy |-> [state |-> "none", spent |-> 0],
              cause |-> "OPERATOR_ABORT", left |-> 0]
NoSweep == [on |-> FALSE, list |-> <<>>]

SupervisionInit ==
  /\ agent = [a \in Agents |-> [state |-> "none", spent |-> 0]]
  /\ spawned = <<>>
  /\ overdue = [a \in Agents |-> {}]
  /\ call = [c \in Callers |-> NotCalled]
  /\ ticking = TRUE
  /\ sweep = NoSweep
  /\ records = {}

-----------------------------------------------------------------------------
(* What an agent does, and what happens to it                              *)

Spawn(a) ==
  /\ agent[a].state = "none"
  /\ mission[MissionOf[a]] = "PROVISIONED"
  /\ Cardinality({b \in Agents : Active(b)}) < MaxAgents
  /\ agent' = [agent EXCEPT ![a].state = "PROVISIONED"]
  /\ spawned' = Append(spawned, a)
  /\ UNCHANGED <<overdue, stopVars>>

\* Mutant: the action is counted but its budget is not looked at.
RecordActionUnpaid(a) ==
  /\ Active(a) /\ "lease" \notin overdue[a]
  /\ agent' = [agent EXCEPT ![a] = [state |-> "RUNNING", spent |-> @.spent + 1]]
  /\ overdue' = [overdue EXCEPT ![a] = @ \ {"silence"}]
  /\ agent'[a].spent <= MaxActions + 1
  /\ UNCHANGED <<spawned, stopVars>>

\* leasePermits refuses once the lease has expired; an action is a heartbeat.
RecordAction(a) ==
  /\ Active(a) /\ "lease" \notin overdue[a]
  /\ agent[a].spent < MaxActions
  /\ agent' = [agent EXCEPT ![a] = [state |-> "RUNNING", spent |-> @.spent + 1]]
  /\ overdue' = [overdue EXCEPT ![a] = @ \ {"silence"}]
  /\ UNCHANGED <<spawned, stopVars>>

Heartbeat(a) ==
  /\ Active(a)
  /\ overdue' = [overdue EXCEPT ![a] = @ \ {"silence"}]
  /\ UNCHANGED <<agent, spawned, stopVars>>

ReleaseAgent(a) ==
  /\ Active(a)
  /\ agent' = [agent EXCEPT ![a].state = "RELEASED"]
  /\ UNCHANGED <<spawned, overdue, stopVars>>

\* Time passes, or Sentinel finds something.
ReachLimit(a) ==
  /\ Active(a)
  /\ \E limit \in Limits[a] : overdue' = [overdue EXCEPT ![a] = @ \cup {limit}]
  /\ UNCHANGED <<agent, spawned, stopVars>>

-----------------------------------------------------------------------------
(* contain                                                                 *)

Contain(a, copy, cause) == [id |-> a, copy |-> copy, cause |-> cause, left |-> Spaces[a]]

Terminate(c) ==
  /\ c \in Operators /\ call[c] = NotCalled
  /\ \E a \in Agents, cause \in OperatorCauses :
       /\ Active(a)
       /\ call' = [call EXCEPT ![c] = Contain(a, agent[a], cause)]
  /\ UNCHANGED <<agentVars, ticking, sweep, records>>

\* One freeze was answered: it is done or it threw, and containment goes on.
Freeze(c) ==
  /\ call[c].left > 1
  /\ call' = [call EXCEPT ![c].left = @ - 1]
  /\ UNCHANGED <<agentVars, ticking, sweep, records, missionVars>>

\* Mutant: the record says what was intended, not what the mission became.
IntendedOutcome(m, cause) ==
  [state |-> EndFor[cause], now |-> IF Allowed(mission[m], EndFor[cause])
                                    THEN EndFor[cause] ELSE mission[m]]

\* What missions.terminate makes of the mission, and what the record says.
Outcome(m, cause) ==
  LET state == IF Allowed(mission[m], EndFor[cause]) THEN EndFor[cause] ELSE mission[m] IN
  [state |-> state, now |-> state]

\* The last freeze was answered: the agent as it was read, stopped; then the
\* mission; then the record of both.
Contained(c) ==
  LET a == call[c].id
      m == MissionOf[a]
      outcome == Outcome(m, call[c].cause)
  IN /\ call[c].left = 1
     /\ agent' = [agent EXCEPT ![a] = [call[c].copy EXCEPT !.state = "TERMINATED"]]
     /\ mission' = [mission EXCEPT ![m] = outcome.now]
     /\ records' = records \cup {[id |-> a, mission |-> outcome.state]}
     /\ call' = [call EXCEPT ![c] = NotCalled]
     /\ UNCHANGED <<asked, spawned, overdue, ticking, sweep>>

-----------------------------------------------------------------------------
(* supervise, driven by the scheduler                                      *)

\* Mutant: nobody listens for heartbeats.
GroundsUnheard(s) ==
  IF "finding" \in overdue[s.id] THEN {"SENTINEL_FINDING"}
  ELSE IF "lease" \in s.overdue THEN {"LEASE_EXPIRED"}
  ELSE IF "deadline" \in s.overdue /\ mission[MissionOf[s.id]] \notin Ended
    THEN {"MISSION_DEADLINE"}
  ELSE IF "duration" \in s.overdue \/ s.copy.spent >= MaxActions
    THEN {"BUDGET_EXHAUSTED"}
  ELSE {}

\* Sentinel is asked when the agent's turn comes; the rest was read before.
\* A deadline binds while the mission is under way.
Grounds(s) ==
  IF "finding" \in overdue[s.id] THEN {"SENTINEL_FINDING"}
  ELSE IF "lease" \in s.overdue THEN {"LEASE_EXPIRED"}
  ELSE IF "deadline" \in s.overdue /\ mission[MissionOf[s.id]] \notin Ended
    THEN {"MISSION_DEADLINE"}
  ELSE IF {"silence", "duration"} \cap s.overdue # {} \/ s.copy.spent >= MaxActions
    THEN {"BUDGET_EXHAUSTED"}
  ELSE {}

\* The loop over those that were active, up to the first that must be contained.
SweepOn(list) ==
  LET due == {i \in DOMAIN list : list[i].copy.state \in Working /\ Grounds(list[i]) # {}} IN
  IF due = {} THEN sweep' = NoSweep /\ UNCHANGED call
  ELSE LET i == CHOOSE i \in due : \A j \in due : i <= j IN
       /\ sweep' = [on |-> TRUE, list |-> SubSeq(list, i + 1, Len(list))]
       /\ \E cause \in Grounds(list[i]) :
            call' = [call EXCEPT ![Supervisor] = Contain(list[i].id, list[i].copy, cause)]

\* A sweep that overlaps another is skipped.
TickSweep ==
  /\ ticking /\ ~sweep.on
  /\ SweepOn([i \in DOMAIN spawned |-> Seen(spawned[i])])
  /\ UNCHANGED <<agentVars, ticking, records>>

ResumeSweep ==
  /\ sweep.on /\ call[Supervisor] = NotCalled
  /\ SweepOn(sweep.list)
  /\ UNCHANGED <<agentVars, ticking, records>>

\* Sentinel cannot be asked, or the audit seam threw: the sweep is over, and the
\* scheduler goes on.  A sweep that throws at once changes nothing.
SweepThrows ==
  /\ sweep.on /\ call[Supervisor] = NotCalled
  /\ sweep' = NoSweep
  /\ UNCHANGED <<agentVars, call, ticking, records>>

StartStop ==
  /\ ticking' = ~ticking
  /\ UNCHANGED <<agentVars, call, sweep, records>>

AgentStep(a) == \/ Spawn(a) \/ RecordAction(a) \/ Heartbeat(a) \/ ReleaseAgent(a)
                \/ ReachLimit(a)

SupervisionNext ==
  \/ \E a \in Agents : AgentStep(a) /\ UNCHANGED missionVars
  \/ \E c \in Callers : \/ Terminate(c) /\ UNCHANGED missionVars
                        \/ Freeze(c) \/ Contained(c)
  \/ (TickSweep \/ ResumeSweep \/ SweepThrows \/ StartStop) /\ UNCHANGED missionVars

\* Agents and the missions they work on, which their hosts carry on meanwhile.
SupervisedInit == MissionInit /\ SupervisionInit

SupervisedNext ==
  \/ \E a \in Agents : MissionStep(MissionOf[a]) /\ UNCHANGED supervisionVars
  \/ \E c \in Askers : AuthorizationStep(c) /\ UNCHANGED supervisionVars
  \/ SupervisionNext

SupervisedSpec == SupervisedInit /\ [][SupervisedNext]_<<missionVars, supervisionVars>>

-----------------------------------------------------------------------------
(* Properties                                                              *)

Copy == [state : {"none", "PROVISIONED", "RUNNING", "TERMINATED", "RELEASED"},
         spent : 0..MaxActions]

SupervisionTypeOK ==
  /\ agent \in [Agents -> Copy]
  /\ spawned \in SeqOf(Agents, Cardinality(Agents)) /\ IsInjective(spawned)
  /\ overdue \in [Agents -> SUBSET AllLimits]
  /\ \A c \in Callers : call[c].copy \in Copy /\ call[c].cause \in Causes /\ call[c].left \in Nat
  /\ sweep.on \in BOOLEAN /\ ticking \in BOOLEAN
  /\ \A r \in records : r.id \in Agents /\ r.mission \in MissionStates

\* "The two records agree because one derives from the other": a termination
\* reports the end that its mission came to and keeps, whoever else ended the
\* mission or stopped the agent meanwhile.
RecordsAgree ==
  \A r \in records : r.mission \in Ended => mission[MissionOf[r.id]] = r.mission

\* What no call of the agent would tell: an agent that is past a limit, or that
\* Sentinel found something against, is stopped in the end, whatever it does and
\* whoever else is contained, as long as the supervisor is not.
Due(a) == \/ overdue[a] \ {"deadline"} # {}
          \/ "deadline" \in overdue[a] /\ mission[MissionOf[a]] \notin Ended
OverdueStopped ==
  \A a \in Agents : (Active(a) /\ Due(a)) ~> (~Active(a) \/ ~Due(a) \/ ~ticking)
=============================================================================
