-------------------------- MODULE TreeDiffRefinement --------------------------
(***************************************************************************)
(* The merge-join of TreeDiff implements the contract of TreeDiffAbstract: *)
(* until the outermost collect_diff returns nothing is visible, and the    *)
(* Diff it returns is the contract's.                                      *)
(***************************************************************************)
EXTENDS TreeDiff

Abs == INSTANCE TreeDiffAbstract
         WITH diff <- IF Done THEN diff ELSE EmptyDiff, done <- Done

\* Diff::diff terminates, and the Diff it returns lists exactly the created,
\* deleted and modified files of the two snapshots, each once, in
\* depth-first sorted order: the cursors of collect_diff, the type-change
\* arms and the file enumeration of collect_files_inner lose, duplicate or
\* misplace no file, whatever the shapes of the two trees.
TreeDiffRefines == Abs!ASpec
=============================================================================
