\* An entry reversed by a posting that names it, then by `reverse'.
SPECIFICATION BusinessSpec
CONSTANTS
  north = north
  south = south
  clerk = clerk
  cook = cook
  keeper = keeper
  invoice = invoice
  accrual = accrual
  prepare = prepare
  review = review
  ann = ann
  engine = engine
  NoEntry = NoEntry
  Nobody = Nobody
  NoBalance = NoBalance
  Runtimes = {north, south}
  Posters = {clerk, cook}
  Closers = {keeper}
  RuntimeOf <- MCRuntimeOf
  Proposals <- MCProposals
  LastPeriod = 2
  ReversalPeriods = {2}
  FirstStates <- MCFirstStates
  MaxAppendRetries = 1
  Tasks = {}
  Predecessors <- MCPredecessors
  Blocking = {}
  Required = {}
  Reviews = {}
  Reviewer <- MCReviewer
  People = {ann, engine}
  Humans = {ann}
  Outcomes = {"balanced", "unsubstantiated-unknown"}
  Accounts = {}
  Balances = {"b1"}
  Adjustments = {}
  Decisions = {}
  cut = cut
  pack = pack
  first = first
  again = again
  changed = changed
  elsewhere = elsewhere
  NoCall = NoCall
  Steps = {cut, pack}
  DependsOn <- MCDependsOn
  Optional = {pack}
  QcSteps = {}
  Users = {}
  FirstLog <- MCFirstLog
  MaxEvents = 2
  Creates = {}
  HostOf <- MCHostOf
  KeyOf <- MCKeyOf
  InputOf <- MCInputOf
  Items = {1, 2}
  Original <- MCOriginal
  Receipts = {"wire", "cheque"}
  Received <- MCReceived
  RemittanceRefs <- MCRemittanceRefs
  CashCalls = {}
  InputTo <- MCInputTo
  MaxCashCrashes = 0
CHECK_DEADLOCK FALSE
INVARIANTS ReversedAtMostOnce
