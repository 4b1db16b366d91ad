\* get_tree over every root of depth <= 2 (MC_GetTree.tla).
CONSTANTS
  Names <- MCNames
  Contents <- MCContents
  TreeIds <- MCTreeIds
  Tree <- MCTree
  Roots <- MCRoots
SPECIFICATION Spec
INVARIANTS TypeOK GetTreeCorrect
PROPERTIES FileMapAccumulates
\* get_tree returns; the model stops once pc = "done".
CHECK_DEADLOCK FALSE
