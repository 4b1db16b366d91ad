CONSTANTS
  Paths <- MCPaths
  Nums <- MCNums
  NoValue = NoValue
  Inputs <- DeltasInputs
SPECIFICATION Spec
INVARIANTS StatsConsistent
CHECK_DEADLOCK FALSE
