\* Two groups, one that asks for order and one that does not, whose consumers
\* answer in the order of the log, with a restart of the host and a replay.
SPECIFICATION EventFairSpec
CONSTANTS
  cut = cut
  price = price
  ship = ship
  floor = floor
  audit = audit
  group = group
  archive = archive
  jacket = jacket
  billing = billing
  NoKey = NoKey
  NoOp = NoOp
  Messages = {cut, ship}
  Subs = {floor, audit}
  Groups = {group, archive}
  GroupOf <- MCTwoGroups
  Receives <- MCReceives
  KeyOf <- MCKeyOf
  OpOf <- MCOpOf
  Tries <- MCTries
  Ordered = {audit}
  AtMostOnce = {}
  Expiring = {floor}
  Idempotent = {audit}
  Limit = 2
  InOrder = TRUE
  MaxRestarts = 1
  MaxReplays = 1
CHECK_DEADLOCK FALSE
INVARIANTS NoLoss RetryReachable
PROPERTIES FifoWithinKey EventuallySettled
