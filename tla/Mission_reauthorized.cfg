\* A mission that ends while Governance is asked about it.
SPECIFICATION FoundrySpec
CONSTANTS
  FoundryParts = {"missions"}
  repair = repair
  drift = drift
  audit = audit
  crane = crane
  mole = mole
  steward = steward
  curator = curator
  parser = parser
  ledger = ledger
  Missions = {repair, drift}
  Askers = {steward}
  AsksFor <- MCAsksFor
  Ends = {"FAILED"}
  Interposing = TRUE
  Components <- MCComponents
  Weight <- MCWeight
  Environment <- MCEnvironment
  Repository <- MCRepository
  MaxConcurrent = 2
  MaxPerEnvironment = 2
  MaxPerRepository = 2
  Starvation = 2
  Withdrawn = {}
  Agents = {crane, mole}
  NoAgent = NoAgent
  MissionOf <- MCMissionOf
  Spaces <- MCSpaces
  Supervisor = Supervisor
  Operators = {curator}
  OperatorCauses = {"VALIDATION_REJECTED"}
  Limits <- MCLimits
  MaxActions = 1
  MaxAgents = 2
CHECK_DEADLOCK FALSE
PROPERTIES EndedStays
