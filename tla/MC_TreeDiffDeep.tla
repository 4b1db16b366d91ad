--------------------------- MODULE MC_TreeDiffDeep ---------------------------
(***************************************************************************)
(* Three-level snapshots with one file content: the roots are the Level2   *)
(* directories and the directories Level3 whose name 1 holds a non-empty   *)
(* Level2 directory and whose name 2 holds nothing or a file.  Deleting or *)
(* creating such a subtree makes collect_files_inner recurse; two of them  *)
(* make collect_diff nest twice.                                           *)
(***************************************************************************)
EXTENDS MC_TreeDiff

DeepContents == { [size |-> 1, checksum |-> "a"] }
Level3 == { MkDir(c) : c \in { x \in [1..2 -> Absent \cup AFile(DeepContents)
                                              \cup ADir(Level2(DeepContents))] :
                                 x[1][1] = "dir" /\ x[1][2] # << >> /\ x[2][1] # "dir" } }
DeepDirIds == Level1(DeepContents) \cup Level2(DeepContents) \cup Level3
DeepTree == [d \in DeepDirIds |-> d]
DeepRoots == Level2(DeepContents) \cup Level3
=============================================================================
