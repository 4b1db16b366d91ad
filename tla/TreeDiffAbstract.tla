--------------------------- MODULE TreeDiffAbstract ---------------------------
(***************************************************************************)
(* What Diff::diff(left, right) promises (spec section 4.1): in one call,  *)
(* the files only in right are created, the files only in left deleted,    *)
(* and the files in both whose size or checksum differ modified; every     *)
(* path is prefixed with right's root label, and each list is in the       *)
(* depth-first order of sorted names, i.e. lexicographic order of paths.   *)
(* A file and a directory at one name are different paths, so a type      *)
(* change is a create plus deletes, never a modification.  Only TLC uses   *)
(* this module: FilesOf recurses over the directory table.                 *)
(***************************************************************************)
EXTENDS Naturals, Sequences, FiniteSets

CONSTANTS Labels, RootLabel, Contents, DirIds, Tree, Roots

VARIABLES left, right, diff, done

avars == <<left, right, diff, done>>

\* The files below directory d, with their paths relative to d.
RECURSIVE FilesOf(_)
FilesOf(d) ==
  UNION { IF e.kind = "file"
            THEN { [path |-> << e.name >>, file |-> e.file] }
            ELSE { [path |-> << e.name >> \o r.path, file |-> r.file] :
                     r \in FilesOf(e.dir) }
          : e \in { Tree[d][k] : k \in 1..Len(Tree[d]) } }

PathsOf(d) == { r.path : r \in FilesOf(d) }
ContentAt(d, p) == (CHOOSE r \in FilesOf(d) : r.path = p).file

\* s precedes t in the order of a depth-first walk over sorted names.
LexLt(s, t) ==
  \/ Len(s) < Len(t) /\ s = SubSeq(t, 1, Len(s))
  \/ \E k \in 1..Len(s) :
       /\ k <= Len(t)
       /\ SubSeq(s, 1, k - 1) = SubSeq(t, 1, k - 1)
       /\ s[k] < t[k]

\* The paths of S, in that order, each below the root label.
Listed(S) ==
  [k \in 1..Cardinality(S) |->
     << RootLabel >> \o
       (CHOOSE p \in S : Cardinality({q \in S : LexLt(q, p)}) = k - 1)]

Created == PathsOf(right) \ PathsOf(left)
Deleted == PathsOf(left) \ PathsOf(right)
Modified == { p \in PathsOf(left) \cap PathsOf(right) :
                ContentAt(left, p) # ContentAt(right, p) }

AInit ==
  /\ left \in Roots
  /\ right \in Roots
  /\ diff = [created |-> << >>, deleted |-> << >>, modified |-> << >>]
  /\ done = FALSE

Compute ==
  /\ ~done
  /\ diff' = [created |-> Listed(Created), deleted |-> Listed(Deleted),
              modified |-> Listed(Modified)]
  /\ done' = TRUE
  /\ UNCHANGED <<left, right>>

ASpec == AInit /\ [][Compute]_avars /\ WF_avars(Compute)
=============================================================================
