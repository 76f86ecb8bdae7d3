\* Two starts and a resume, however slow, a stop and a crash; calls that end
\* within their leases, with sweeps that finish what a crash left; replicas that
\* agree on the active topology; reserves in a process that may crash, with
\* settlements one after the other; and two members of a consumer group that
\* answer late and more than once, with dead letters sent again.
SPECIFICATION CoordinationSpec
CONSTANTS
  Parts = {"race", "timely", "topology", "stock", "delivery"}
  north = north
  south = south
  east = east
  order = order
  repeat = repeat
  resume = resume
  sweepA = sweepA
  sweepB = sweepB
  Nobody = Nobody
  Instances = {north, south, east}
  Call <- MCCall
  Passes = {order, repeat, resume}
  Owner <- MCOwner
  NumSteps = 3
  Compensable = {1, 2}
  NeedAuth = {2}
  GiveAuth = {1}
  LeaseMs = 1
  SlowPasses = TRUE
  MaxCrashes = 1
  MaxStops = 1
  VersionCap = 3
  west = west
  stray = stray
  plain = plain
  dense = dense
  Replicas = {north, south, east, west}
  Others = {stray}
  Versions = {plain, dense}
  NoVersion = NoVersion
  MaxEpoch = 2
  sign = sign
  signAgain = signAgain
  banner = banner
  panel = panel
  cancel = cancel
  make = make
  remake = remake
  web = web
  shop = shop
  Requests = {sign, signAgain, banner, panel}
  Settlements = {cancel, remake}
  Processes = {web, shop}
  Mortal = {web}
  Process <- MCTwoProcesses
  Order <- MCOrder
  Qty <- MCQty
  Oversell <- MCOversell
  Target <- MCTarget
  Kind <- MCKind
  Used <- MCUsed
  OnHand = 7
  MaxAttempts = 2
  Overlapping = FALSE
  cut = cut
  price = price
  ship = ship
  floor = floor
  audit = audit
  group = group
  archive = archive
  jacket = jacket
  billing = billing
  NoKey = NoKey
  NoOp = NoOp
  Messages = {price, ship}
  Subs = {floor, audit}
  Groups = {group}
  GroupOf <- MCOneGroup
  Receives <- MCSplit
  KeyOf <- MCKeyOf
  OpOf <- MCOpOf
  Tries <- MCTries
  Ordered = {floor}
  AtMostOnce = {audit}
  Expiring = {}
  Idempotent = {audit}
  Limit = 2
  InOrder = FALSE
  MaxRestarts = 0
  MaxReplays = 1
CHECK_DEADLOCK FALSE
INVARIANTS CoordinationTypes CopiesAreCurrent HonestOutcome TimelyEffects
INVARIANTS LedgerExact OneHoldPerOperation
PROPERTIES ImplementsOneTopology TerminalStays TimelyExclusiveWork TimelyOver
PROPERTIES ImplementsAtomicStock OnceAccepted
