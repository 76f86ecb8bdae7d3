\* An operator and the supervisor stop two agents of one mission; and three
\* missions, two of one component, wait in the queue of a scheduler.
SPECIFICATION FoundrySpec
CONSTANTS
  FoundryParts = {"agents", "missions"}
  repair = repair
  drift = drift
  audit = audit
  crane = crane
  mole = mole
  steward = steward
  curator = curator
  parser = parser
  ledger = ledger
  Missions = {repair, drift, audit}
  Askers = {steward}
  AsksFor <- MCAsksFor
  Ends = {"FAILED"}
  Interposing = FALSE
  Components <- MCComponents
  Weight <- MCWeight
  Environment <- MCEnvironment
  Repository <- MCRepository
  MaxConcurrent = 2
  MaxPerEnvironment = 2
  MaxPerRepository = 2
  Starvation = 2
  Withdrawn = {audit}
  Agents = {crane, mole}
  NoAgent = NoAgent
  MissionOf <- MCMissionOf
  Spaces <- MCSpaces
  Supervisor = Supervisor
  Operators = {curator}
  OperatorCauses = {"VALIDATION_REJECTED"}
  Limits <- MCLimits
  MaxActions = 1
  MaxAgents = 2
CHECK_DEADLOCK FALSE
INVARIANTS FoundryTypes MissionsDisjoint RecordsAgree
PROPERTIES NoneStarves OverdueStopped
