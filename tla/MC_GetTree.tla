------------------------------ MODULE MC_GetTree ------------------------------
(***************************************************************************)
(* Git trees for TLC.  A tree is its own identity (Tree[t] = t), as git   *)
(* trees are content-addressed.  Each of the names 1..2 holds nothing, a   *)
(* blob (valid, with an invalid name, or whose object cannot be loaded), a *)
(* submodule commit, or, in a root, a subtree (valid, with an invalid      *)
(* name, or unloadable) whose entries are chosen the same way without      *)
(* subtrees.  So every outcome of tree_entry_to_file_and_path occurs at    *)
(* both depths, two blobs share one directory path, and a failure can come *)
(* after files were already put into the map.                              *)
(***************************************************************************)
EXTENDS GetTreeReference

MCNames == {1, 2}
MCContents == {"c"}

Blobs == { [kind |-> "blob", name |-> n, objOk |-> o, nameOk |-> m, file |-> "c"] :
            n \in MCNames, o \in BOOLEAN, m \in BOOLEAN } \
         { [kind |-> "blob", name |-> n, objOk |-> FALSE, nameOk |-> FALSE, file |-> "c"] :
            n \in MCNames }
Commits == { [kind |-> "commit", name |-> n] : n \in MCNames }
Subtrees(S) == { [kind |-> "tree", name |-> n, objOk |-> o, nameOk |-> m, sub |-> t] :
                  n \in MCNames, o \in BOOLEAN, m \in BOOLEAN, t \in S } \
               { [kind |-> "tree", name |-> n, objOk |-> FALSE, nameOk |-> FALSE, sub |-> t] :
                  n \in MCNames, t \in S }

\* The tree whose entry at name n is chosen from c[n] (<<>> for nothing).
MkTree(c) == c[1] \o c[2]
At(n, E) == { << >> } \cup { << e >> : e \in { x \in E : x.name = n } }

Level1 == { MkTree(c) : c \in At(1, Blobs \cup Commits) \X At(2, Blobs \cup Commits) }
Level2 == { MkTree(c) : c \in At(1, Blobs \cup Commits \cup Subtrees(Level1))
                             \X At(2, Blobs \cup Subtrees(Level1)) }

MCTreeIds == Level1 \cup Level2
MCTree == [t \in MCTreeIds |-> t]
MCRoots == Level2
=============================================================================
