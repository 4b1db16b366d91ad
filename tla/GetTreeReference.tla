--------------------------- MODULE GetTreeReference ---------------------------
(***************************************************************************)
(* What get_tree promises, as a reference computed from the whole tree:    *)
(* the pre-order sequence of entries git_tree_walk visits, the first entry *)
(* whose conversion fails, and the map from each directory path to its     *)
(* blobs in tree order.  The visit sequence is RECURSIVE, so this module   *)
(* is for TLC only.                                                        *)
(***************************************************************************)
EXTENDS GetTree

\* The visits of entries k.. of tree t, walked under path p; a subtree's
\* visits follow the visit of its entry.
RECURSIVE VisitsFrom(_, _, _, _)
VisitsFrom(t, p, ok, k) ==
  IF k > Len(Tree[t]) THEN << >>
  ELSE LET e == Tree[t][k]
           f == [path |-> p, pathOk |-> ok]
           sub == IF Outcome(f, e) = "NotBlob"
                    THEN VisitsFrom(e.sub, Append(p, e.name), ok /\ e.nameOk, 1)
                    ELSE << >>
       IN  << [frame |-> f, e |-> e] >> \o sub \o VisitsFrom(t, p, ok, k + 1)

Walk == VisitsFrom(root, << >>, TRUE, 1)
Fails(v) == Outcome(v.frame, v.e) = "Git"
Clean == \A k \in 1..Len(Walk) : ~Fails(Walk[k])
\* The first failing visit, and the error the callback latches for it.
FirstBad == Walk[CHOOSE k \in 1..Len(Walk) : Fails(Walk[k]) /\ \A j \in 1..k - 1 : ~Fails(Walk[j])]
FirstError == [src |-> "entry", path |-> FirstBad.frame.path, name |-> FirstBad.e.name]

\* The blobs that go into the map, and the map the spec of Snapshot loading
\* asks for: each directory path with at least one blob, to its blobs in order.
Added == SelectSeq(Walk, LAMBDA v : Outcome(v.frame, v.e) = "Ok")
RefMap ==
  [p \in {Added[k].frame.path : k \in 1..Len(Added)} |->
     LET at == SelectSeq(Added, LAMBDA v : v.frame.path = p)
     IN  [k \in 1..Len(at) |-> [name |-> at[k].e.name, file |-> at[k].e.file]]]

\* When get_tree returns: Ok with exactly the reference map when no entry
\* of the walked tree fails to convert (submodules and subtrees skipped,
\* blobs of one directory kept in tree order in one NonEmpty); otherwise
\* the error the callback kept ("we want to keep the error and abort") for
\* the first failing entry in walk order, with no later entry overwriting
\* it; or the find_commit / peel_to_tree error before the walk.
GetTreeCorrect ==
  pc = "done" =>
    \/ ret = [kind |-> "Err", err |-> [src |-> "git"]]
    \/ Clean /\ ret = [kind |-> "Ok", files |-> RefMap]
    \/ ~Clean /\ ret = [kind |-> "Err", err |-> FirstError]

=============================================================================
