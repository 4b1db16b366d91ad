CONSTANTS
  Labels <- MCLabels
  RootLabel = 0
  Contents <- MCContents
  DirIds <- MCDirIds
  Tree <- MCTree
  Roots <- MCRoots
SPECIFICATION Spec
INVARIANTS TypeOK PathDiscipline
PROPERTIES TreeDiffRefines
\* Diff::diff returns: once the outermost collect_diff has returned the
\* computation has stopped, which is not a deadlock.
CHECK_DEADLOCK FALSE
