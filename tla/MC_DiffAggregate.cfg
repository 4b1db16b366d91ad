CONSTANTS
  Paths = {p1, p2}
  HunksIn <- MCHunksIn
  MaxFiles = 3
INIT Init
NEXT Next
INVARIANTS TypeOK StatsMatchSpec
CHECK_DEADLOCK FALSE
