\* The job queue, the outbox and its bus, the capacity gate and the circuit
\* breaker of platform-runtime, one in each behaviour.
SPECIFICATION RuntimeSpec
CONSTANTS
  nest = nest
  cut = cut
  parse = parse
  floor = floor
  any = any
  forge = forge
  receipt = receipt
  shop = shop
  web = web
  NoWorker = NoWorker
  NoTenant = NoTenant
  Jobs = {nest, cut, parse}
  Workers = {floor, any}
  Types = {forge, receipt}
  JobType <- MCJobType
  Priority <- MCPriority
  Serves <- MCServes
  SlowWorkers = TRUE
  LateReports = FALSE
  MaxCrashes = 1
  AttemptCap = 3
  Leases = {1, 2}
  HeartbeatLease = 2
  MaxAttempts = 2
  Backoffs = {0, 1}
  MaxEntries = 2
  Drains = {floor, any}
  Readers <- MCReaders
  Wanted <- MCWanted
  Limit = 2
  MaxTries = 2
  MaxFaults = 1
  DimSet = {"compute", "model"}
  Total <- MCTotal
  Reserve <- MCReserve
  Share <- MCShare
  BurstMax = 1
  DegradeAbove = 85
  RecoverBelow = 65
  SpendCeiling = 1
  Tenants = {shop, web}
  Works <- MCWorks
  Actuals = {0, 2}
  Calls = {floor, any, shop}
  FailureThreshold = 2
  SuccessThreshold = 2
  OpenFor = 2
CHECK_DEADLOCK FALSE
INVARIANTS RuntimeTypes IndexesInStep
INVARIANTS ReserveRunnable TenantBounded
PROPERTIES ImplementsExclusiveWork PunctualJobsSettle
PROPERTIES ImplementsOrderedFeed EverythingPublished Recovers
