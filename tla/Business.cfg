\* Posting, reversing and closing in one book, the people of a period close and
\* of a work order, the creation of work orders, and the application of cash, one
\* in each behaviour.
SPECIFICATION BusinessSpec
CONSTANTS
  north = north
  south = south
  clerk = clerk
  cook = cook
  keeper = keeper
  invoice = invoice
  accrual = accrual
  prepare = prepare
  review = review
  ann = ann
  engine = engine
  NoEntry = NoEntry
  Nobody = Nobody
  NoCall = NoCall
  NoBalance = NoBalance
  Runtimes = {north, south}
  Posters = {clerk, cook}
  Closers = {keeper}
  RuntimeOf <- MCRuntimeOf
  Proposals <- MCProposals
  LastPeriod = 2
  ReversalPeriods = {2}
  FirstStates <- MCFirstStates
  MaxAppendRetries = 1
  Tasks = {prepare, review}
  Predecessors <- MCPredecessors
  Blocking = {review}
  Required = {prepare}
  Reviews = {review}
  Reviewer <- MCReviewer
  People = {ann, engine}
  Humans = {ann}
  Outcomes = {"balanced", "unsubstantiated-unknown"}
  Accounts = {"bank"}
  Balances = {"b1"}
  Adjustments = {"depreciation"}
  Decisions = {1, 2}
  cut = cut
  pack = pack
  first = first
  again = again
  changed = changed
  elsewhere = elsewhere
  Steps = {cut, pack}
  DependsOn <- MCDependsOn
  Optional = {pack}
  QcSteps = {}
  Users = {clerk, cook}
  FirstLog <- MCFirstLog
  MaxEvents = 4
  Creates = {first, again, changed, elsewhere}
  HostOf <- MCHostOf
  KeyOf <- MCKeyOf
  InputOf <- MCInputOf
  Items = {1, 2}
  Original <- MCOriginal
  Receipts = {"wire", "cheque"}
  Received <- MCReceived
  RemittanceRefs <- MCRemittanceRefs
  CashCalls = {1, 2, 3, 4, 5, 6, 7}
  InputTo <- MCInputTo
  MaxCashCrashes = 1
CHECK_DEADLOCK FALSE
INVARIANTS BusinessTypes MarkedIsReversed SignedOffIsDone
INVARIANTS CacheIsAReplay DependenciesFirst OneOrderPerKey CommandsConverge AmountsWithin
PROPERTIES ImplementsJournal
