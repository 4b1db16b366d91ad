CONSTANTS
  Paths <- MCPaths
  Nums <- MCNums
  NoValue = NoValue
  Inputs <- DeltasInputs
SPECIFICATION Spec
INVARIANTS AdapterCorrect
\* Diff::try_from returns Ok or Err and then stops.
CHECK_DEADLOCK FALSE
