\* Late reports let two workers hold one job.
SPECIFICATION Spec
CONSTANTS
  nest = nest
  cut = cut
  parse = parse
  floor = floor
  any = any
  forge = forge
  receipt = receipt
  NoWorker = NoWorker
  Jobs = {nest}
  Workers = {floor, any}
  Types = {forge, receipt}
  JobType <- MCJobType
  Priority <- MCPriority
  Serves <- MCServes
  SlowWorkers = TRUE
  LateReports = TRUE
  MaxCrashes = 0
  AttemptCap = 4
  Leases = {2}
  HeartbeatLease = 2
  MaxAttempts = 3
  Backoffs = {0}
CHECK_DEADLOCK FALSE
INVARIANTS ExclusiveClaims
