\* A balance that changes, and is computed once more, after a certification.
SPECIFICATION BusinessSpec
CONSTANTS
  north = north
  south = south
  clerk = clerk
  cook = cook
  keeper = keeper
  invoice = invoice
  accrual = accrual
  prepare = prepare
  review = review
  ann = ann
  engine = engine
  NoEntry = NoEntry
  Nobody = Nobody
  NoBalance = NoBalance
  Runtimes = {north, south}
  Posters = {clerk}
  Closers = {keeper}
  RuntimeOf <- MCRuntimeOf
  Proposals <- MCProposals
  LastPeriod = 2
  ReversalPeriods = {2}
  FirstStates <- MCFirstStates
  MaxAppendRetries = 1
  Tasks = {}
  Predecessors <- MCPredecessors
  Blocking = {}
  Required = {}
  Reviews = {}
  Reviewer <- MCReviewer
  People = {ann, engine}
  Humans = {ann}
  Outcomes = {"balanced", "unsubstantiated-unknown"}
  Accounts = {"bank"}
  Balances = {"b1", "b2"}
  Adjustments = {}
  Decisions = {1, 2}
  cut = cut
  pack = pack
  first = first
  again = again
  changed = changed
  elsewhere = elsewhere
  NoCall = NoCall
  Steps = {cut, pack}
  DependsOn <- MCDependsOn
  Optional = {pack}
  QcSteps = {}
  Users = {}
  FirstLog <- MCFirstLog
  MaxEvents = 2
  Creates = {}
  HostOf <- MCHostOf
  KeyOf <- MCKeyOf
  InputOf <- MCInputOf
  Items = {1, 2}
  Original <- MCOriginal
  Receipts = {"wire", "cheque"}
  Received <- MCReceived
  RemittanceRefs <- MCRemittanceRefs
  CashCalls = {}
  InputTo <- MCInputTo
  MaxCashCrashes = 0
CHECK_DEADLOCK FALSE
INVARIANTS CertifiedBalance
