CONSTANTS
  Labels <- MCLabels
  RootLabel = 0
  Contents <- DeepContents
  DirIds <- DeepDirIds
  Tree <- DeepTree
  Roots <- DeepRoots
SPECIFICATION Spec
INVARIANTS PathDiscipline
PROPERTIES TreeDiffRefines
\* Diff::diff returns: once the outermost collect_diff has returned the
\* computation has stopped, which is not a deadlock.
CHECK_DEADLOCK FALSE
