\* A sweep whose candidate was compensated meanwhile.
SPECIFICATION MCSafety
CONSTANTS
  Parts = {"race"}
  north = north
  south = south
  east = east
  order = order
  repeat = repeat
  resume = resume
  sweepA = sweepA
  sweepB = sweepB
  Nobody = Nobody
  Instances = {north, south, east}
  Call <- MCCall
  Passes = {order, sweepA, sweepB}
  Owner <- MCOwner
  NumSteps = 2
  Compensable = {1}
  NeedAuth = {}
  GiveAuth = {}
  LeaseMs = 1
  SlowPasses = FALSE
  MaxCrashes = 1
  MaxStops = 0
  VersionCap = 6
CHECK_DEADLOCK FALSE
PROPERTIES TerminalStays
