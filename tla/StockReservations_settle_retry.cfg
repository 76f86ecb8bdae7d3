\* A settlement that died between its writes is tried again.
SPECIFICATION StockSpec
CONSTANTS
  sign = sign
  signAgain = signAgain
  banner = banner
  panel = panel
  cancel = cancel
  make = make
  remake = remake
  web = web
  shop = shop
  Requests = {sign, panel}
  Settlements = {cancel, remake}
  Processes = {web, shop}
  Mortal = {shop}
  Process <- MCTwoProcesses
  Order <- MCOrder
  Qty <- MCQty
  Oversell <- MCOversell
  Target <- MCTarget
  Kind <- MCKind
  Used <- MCUsed
  OnHand = 7
  MaxAttempts = 3
  Overlapping = FALSE
CHECK_DEADLOCK FALSE
INVARIANTS LedgerCoversHolds
