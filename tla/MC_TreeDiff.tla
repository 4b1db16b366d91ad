----------------------------- MODULE MC_TreeDiff -----------------------------
(***************************************************************************)
(* Snapshots for TLC.  A directory is its own identity (Tree[d] = d); its  *)
(* entries are built from a choice, per name 1..2, of nothing, a file, or  *)
(* a subdirectory.  Level1(C) are the non-empty directories of files with  *)
(* contents C, Level2(C) the directories (the empty one included) whose    *)
(* entries are files or Level1 directories.                                *)
(* The run MC_TreeDiff diffs every pair of Level2 snapshots with two file  *)
(* contents of equal size and different checksum, so every same-name       *)
(* File/Directory combination and both outcomes of the size/checksum test  *)
(* occur.  The run MC_TreeDiffDeep (MC_TreeDiffDeep.tla) adds a third      *)
(* level, where collect_files_inner recurses and collect_diff nests twice. *)
(***************************************************************************)
EXTENDS TreeDiffRefinement

MCLabels == {1, 2}

\* What a directory holds at one name: nothing, a file or a subdirectory.
Absent == { << "none" >> }
AFile(C) == { << "file", x >> : x \in C }
ADir(S) == { << "dir", d >> : d \in S }

\* The sorted directory whose entry at name l is described by c[l].
MkDir(c) ==
  LET ent == [l \in 1..2 |->
                CASE c[l][1] = "none" -> << >>
                  [] c[l][1] = "file" ->
                       << [kind |-> "file", name |-> l, file |-> c[l][2]] >>
                  [] c[l][1] = "dir" ->
                       << [kind |-> "dir", name |-> l, dir |-> c[l][2]] >>]
  IN  ent[1] \o ent[2]

Level1(C) == { MkDir(c) : c \in [1..2 -> Absent \cup AFile(C)] } \ {<< >>}
Level2(C) == { MkDir(c) : c \in [1..2 -> Absent \cup AFile(C) \cup ADir(Level1(C))] }

MCContents == { [size |-> 1, checksum |-> "a"], [size |-> 1, checksum |-> "b"] }
MCDirIds == Level1(MCContents) \cup Level2(MCContents)
MCTree == [d \in MCDirIds |-> d]
MCRoots == Level2(MCContents)
=============================================================================
