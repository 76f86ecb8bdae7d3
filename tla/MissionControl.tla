--------------------------- MODULE MissionControl ---------------------------
(***************************************************************************)
(* Foundry's missions: units of authorized change whose state Foundry owns *)
(* and the agents that work on them do not.                                *)
(*   packages/foundry-evolutioniq/src/mission/mission.ts                   *)
(*                                                                         *)
(* Every transition is taken in one turn of the event loop but one:        *)
(* requestAuthorization reads the mission, awaits Governance, and applies  *)
(* the transition to what it read.  A RUNNING mission's phase and the      *)
(* history are left out: no guard reads them.  So is the agent's name: a   *)
(* mission has one whenever it is PROVISIONED.                             *)
(***************************************************************************)
EXTENDS Naturals

CONSTANTS
  Missions,     \* mission ids
  Askers,       \* calls of requestAuthorization
  AsksFor,      \* AsksFor[c]: the mission it is about
  Ends,         \* failure states that somebody ends a mission in
  Interposing   \* may a mission change while Governance is asked about it?

Interrupts == {"TERMINATED_BY_SENTINEL", "TERMINATED_BY_GOVERNANCE",
               "LEASE_EXPIRED", "SCOPE_EXCEEDED"}
Failures == Interrupts \cup {"FAILED", "ABORTED", "VALIDATION_REJECTED"}
Ended == Failures \cup {"COMPLETED"}

Legal == [PROPOSED |-> {"AUTHORIZED", "ABORTED", "TERMINATED_BY_GOVERNANCE"},
          AUTHORIZED |-> {"PROVISIONED", "ABORTED", "FAILED"},
          PROVISIONED |-> {"RUNNING", "ABORTED", "FAILED"},
          RUNNING |-> {"AWAITING_VALIDATION", "FAILED", "ABORTED"},
          AWAITING_VALIDATION |-> {"COMPLETED", "VALIDATION_REJECTED", "FAILED"}]
MissionStates == DOMAIN Legal \cup Ended

ASSUME MissionAssumption ==
  /\ AsksFor \in [Askers -> Missions]
  /\ Ends \subseteq Failures
  /\ Interposing \in BOOLEAN

VARIABLES
  mission,   \* the state of each mission; "none" before it is proposed
  asked      \* the state each call read before it asked, or where it is

missionVars == <<mission, asked>>

MissionInit ==
  /\ mission = [m \in Missions |-> "none"]
  /\ asked = [c \in Askers |-> "idle"]

\* transitionAllowed: nothing follows a terminal state, and an interrupt may
\* follow any other.
Allowed(from, to) == from \in DOMAIN Legal /\ to \in Interrupts \cup Legal[from]

\* apply, on the copy of the mission that the caller read.
Apply(m, from, to) ==
  /\ Allowed(from, to)
  /\ mission' = [mission EXCEPT ![m] = to]

-----------------------------------------------------------------------------

Propose(m) ==
  /\ mission[m] = "none"
  /\ mission' = [mission EXCEPT ![m] = "PROPOSED"]
  /\ UNCHANGED asked

\* authorize (a human's decision), provision, begin, submitForValidation and
\* concludeValidation, accepted: what they read is what they change.
Advance(m) ==
  /\ \E to \in {"AUTHORIZED", "PROVISIONED", "RUNNING", "AWAITING_VALIDATION", "COMPLETED"} :
       Apply(m, mission[m], to)
  /\ UNCHANGED asked

\* terminate, and concludeValidation when the work was not good enough.
TerminateMission(m) ==
  /\ \E end \in Ends : Apply(m, mission[m], end)
  /\ UNCHANGED asked

Ask(c) ==
  /\ asked[c] = "idle"
  /\ mission[AsksFor[c]] # "none"
  /\ asked' = [asked EXCEPT ![c] = mission[AsksFor[c]]]
  /\ UNCHANGED mission

UnderQuestion(m) == \E c \in Askers : AsksFor[c] = m /\ asked[c] \notin {"idle", "answered"}

\* Governance permits: the copy that was read is what becomes AUTHORIZED.
Permit(c) ==
  /\ asked[c] \notin {"idle", "answered"}
  /\ Apply(AsksFor[c], asked[c], "AUTHORIZED")
  /\ asked' = [asked EXCEPT ![c] = "answered"]

\* Governance denies, cannot be reached, or the transition is refused.
Deny(c) ==
  /\ asked[c] \notin {"idle", "answered"}
  /\ asked' = [asked EXCEPT ![c] = "answered"]
  /\ UNCHANGED mission

Free(m) == Interposing \/ ~UnderQuestion(m)

MissionStep(m) == Free(m) /\ (Propose(m) \/ Advance(m) \/ TerminateMission(m))
AuthorizationStep(c) == (Free(AsksFor[c]) /\ Ask(c)) \/ Permit(c) \/ Deny(c)

-----------------------------------------------------------------------------

MissionTypeOK ==
  /\ mission \in [Missions -> MissionStates \cup {"none"}]
  /\ asked \in [Askers -> MissionStates \cup {"idle", "answered"}]

\* "A mission that ended cannot continue": nothing but a new mission in its place
\* follows a terminal state, whoever asked whatever before the mission ended.
EndedStays ==
  [][\A m \in Missions :
       mission[m] \in Ended => mission'[m] \in {mission[m], "none"}]_missionVars
=============================================================================
