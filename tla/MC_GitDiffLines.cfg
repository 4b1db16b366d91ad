CONSTANTS
  Paths <- MCPaths
  Nums <- MCNums
  NoValue = NoValue
  Inputs <- LinesInputs
SPECIFICATION Spec
INVARIANTS TypeOK AdapterCorrect
\* Diff::try_from returns Ok or Err and then stops.
CHECK_DEADLOCK FALSE
