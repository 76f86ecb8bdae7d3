\* An event held back for order is passed over by the checkpoint.
SPECIFICATION ConsumerSpec
CONSTANTS
  cut = cut
  price = price
  ship = ship
  floor = floor
  audit = audit
  group = group
  archive = archive
  jacket = jacket
  billing = billing
  NoKey = NoKey
  NoOp = NoOp
  Messages = {cut, price, ship}
  Subs = {floor}
  Groups = {group}
  GroupOf <- MCOneGroup
  Receives <- MCReceives
  KeyOf <- MCKeyOf
  OpOf <- MCOpOf
  Tries <- MCTries
  Ordered = {floor}
  AtMostOnce = {}
  Expiring = {}
  Idempotent = {}
  Limit = 2
  InOrder = TRUE
  MaxRestarts = 1
  MaxReplays = 0
CHECK_DEADLOCK FALSE
INVARIANTS NoLossInOrder
