------------------------------ MODULE GetTree ------------------------------
(***************************************************************************)
(* Snapshot loading of radicle-surf: Browser::get_tree, its tree-walk       *)
(* callback, Browser::tree_entry_to_file_and_path and                      *)
(* Browser::update_file_map (src/radicle-surf/src/vcs/git.rs).              *)
(*                                                                         *)
(* A git tree is a table Tree: Tree[t] is the sequence of entries of tree  *)
(* t in the order libgit2 stores them.  An entry is a blob, a subtree or a *)
(* commit (a submodule).  objOk says whether entry.to_object(repo)         *)
(* succeeds, nameOk whether the entry's name is valid UTF-8 and a valid    *)
(* Label.  libgit2's pre-order git_tree_walk is an explicit stack of       *)
(* frames, one per tree being walked, each with its cursor and walk path.  *)
(* The callback's captured Result, file_paths_or_error, is the variable    *)
(* fpe; a path is the sequence of directory names below the root.          *)
(***************************************************************************)
EXTENDS Naturals, Sequences

CONSTANTS
  Names,     \* entry names
  Contents,  \* blob contents (contents and size of a directory::File)
  TreeIds,   \* identities of git tree objects
  Tree,      \* Tree[t]: the entries of tree t
  Roots      \* the trees a commit may peel to

BlobEntry == [kind : {"blob"}, name : Names, objOk : BOOLEAN, nameOk : BOOLEAN,
              file : Contents]
TreeEntry == [kind : {"tree"}, name : Names, objOk : BOOLEAN, nameOk : BOOLEAN,
              sub : TreeIds]
CommitEntry == [kind : {"commit"}, name : Names]
Entry == BlobEntry \cup TreeEntry \cup CommitEntry

ASSUME TreeAssumption == Tree \in [TreeIds -> Seq(Entry)] /\ Roots \subseteq TreeIds

Pos == Nat \ {0}
Path == Seq(Names)
\* One level of git_tree_walk: the tree, its cursor, the walk path, and
\* whether file_system::Path::try_from accepts that path.
Frame == [tree : TreeIds, i : Pos, path : Path, pathOk : BOOLEAN]
\* The value of the HashMap: a NonEmpty of (Label, File), kept as a sequence.
FileRec == [name : Names, file : Contents]
\* Where a TreeWalkError::Git came from: the path and name of its entry.
EntryError == [src : {"entry"}, path : Path, name : Names]
\* get_tree's own errors: those of find_commit / peel_to_tree, and the
\* TreeWalkError::Git an entry latched.
Errors == EntryError \cup [src : {"git"}]

VARIABLES
  root,   \* the tree the commit peels to
  pc,     \* "start", "walk", then "done"
  stack,  \* git_tree_walk's recursion
  fpe,    \* file_paths_or_error
  ret     \* the Result get_tree returns, once pc = "done"

vars == <<root, pc, stack, fpe, ret>>

Init ==
  /\ root \in Roots
  /\ pc = "start"
  /\ stack = << >>
  /\ fpe = [kind |-> "Ok", files |-> << >>]
  /\ ret = [kind |-> "None"]
-----------------------------------------------------------------------------
\* repo.find_commit(..)? and peel_to_tree()? succeed: the walk starts at the
\* root with the empty path ("" is Path::root()).
LoadRoot ==
  /\ pc = "start"
  /\ pc' = "walk"
  /\ stack' = << [tree |-> root, i |-> 1, path |-> << >>, pathOk |-> TRUE] >>
  /\ UNCHANGED <<root, fpe, ret>>

\* One of them fails: get_tree returns that git error.
LoadFail ==
  /\ pc = "start"
  /\ pc' = "done"
  /\ ret' = [kind |-> "Err", err |-> [src |-> "git"]]
  /\ UNCHANGED <<root, stack, fpe>>

Top == stack[Len(stack)]
Cur == Tree[Top.tree][Top.i]
InTree == pc = "walk" /\ stack # << >> /\ Top.i <= Len(Tree[Top.tree])

\* tree_entry_to_file_and_path, by the order of its checks: the walk path
\* is converted first, a Commit is skipped, to_object may fail, a non-blob
\* is NotBlob, and the name is converted last.
Outcome(f, e) ==
  IF ~f.pathOk THEN "Git"
  ELSE IF e.kind = "commit" THEN "Commit"
  ELSE IF ~e.objOk THEN "Git"
  ELSE IF e.kind # "blob" THEN "NotBlob"
  ELSE IF ~e.nameOk THEN "Git"
  ELSE "Ok"

\* Move the cursor of the walked tree past its current entry.
Bump(f) == [tree |-> f.tree, i |-> f.i + 1, path |-> f.path, pathOk |-> f.pathOk]
Advance(s) == [s EXCEPT ![Len(s)] = Bump(s[Len(s)])]

\* update_file_map: push (name, file) onto the entry of path, or insert a
\* new NonEmpty.
\* Mutant: the existing entry is replaced rather than pushed onto.
UpdateFileMapReplace(files, p, r) ==
  [q \in DOMAIN files \cup {p} |-> IF q = p THEN << r >> ELSE files[q]]

UpdateFileMap(files, p, r) ==
  [q \in DOMAIN files \cup {p} |->
     IF q # p THEN files[q]
     ELSE IF p \in DOMAIN files THEN Append(files[p], r) ELSE << r >>]

\* Ok((path, name, file)): the file goes into the map while it is Ok; the
\* callback returns TreeWalkResult::Ok.
AddFile ==
  /\ InTree /\ Outcome(Top, Cur) = "Ok"
  /\ fpe' = IF fpe.kind = "Ok"
              THEN [fpe EXCEPT !.files = UpdateFileMap(@, Top.path,
                                   [name |-> Cur.name, file |-> Cur.file])]
              ELSE fpe
  /\ stack' = Advance(stack)
  /\ UNCHANGED <<root, pc, ret>>

\* TreeWalkError::Commit: a submodule is skipped.
SkipCommit ==
  /\ InTree /\ Outcome(Top, Cur) = "Commit"
  /\ stack' = Advance(stack)
  /\ UNCHANGED <<root, pc, fpe, ret>>

\* TreeWalkError::NotBlob on a subtree: the callback returns Ok and libgit2
\* walks the subtree under path + name + "/" before the next entry.
\* Mutant: the subtree's cursor starts at 0.
DescendAtZero ==
  /\ InTree /\ Outcome(Top, Cur) = "NotBlob"
  /\ stack' = Append(Advance(stack),
                     [tree |-> Cur.sub, i |-> 0, path |-> Append(Top.path, Cur.name),
                      pathOk |-> Top.pathOk /\ Cur.nameOk])
  /\ UNCHANGED <<root, pc, fpe, ret>>

Descend ==
  /\ InTree /\ Outcome(Top, Cur) = "NotBlob"
  /\ stack' = Append(Advance(stack),
                     [tree |-> Cur.sub, i |-> 1, path |-> Append(Top.path, Cur.name),
                      pathOk |-> Top.pathOk /\ Cur.nameOk])
  /\ UNCHANGED <<root, pc, fpe, ret>>

\* TreeWalkError::Git(err): the callback stores Err(err) and returns Abort;
\* the walk stops, Tree::walk returns Ok(()) (git2 drops git_tree_walk's
\* result), and get_tree returns file_paths_or_error, the latched error.
Latch ==
  /\ InTree /\ Outcome(Top, Cur) = "Git"
  /\ fpe' = [kind |-> "Err", err |-> [src |-> "entry", path |-> Top.path, name |-> Cur.name]]
  /\ pc' = "done"
  /\ ret' = fpe'
  /\ UNCHANGED <<root, stack>>

\* A subtree is exhausted: libgit2 returns to the parent tree.
Ascend ==
  /\ pc = "walk" /\ Len(stack) > 1 /\ Top.i > Len(Tree[Top.tree])
  /\ stack' = SubSeq(stack, 1, Len(stack) - 1)
  /\ UNCHANGED <<root, pc, fpe, ret>>

\* The root is exhausted: the walk returns Ok and get_tree returns
\* file_paths_or_error.
WalkDone ==
  /\ pc = "walk" /\ Len(stack) = 1 /\ Top.i > Len(Tree[Top.tree])
  /\ pc' = "done"
  /\ ret' = fpe
  /\ UNCHANGED <<root, stack, fpe>>

Next ==
  \/ LoadRoot \/ LoadFail
  \/ AddFile \/ SkipCommit \/ Descend \/ Latch
  \/ Ascend \/ WalkDone

Spec == Init /\ [][Next]_vars
-----------------------------------------------------------------------------
\* A HashMap<Path, NonEmpty<(Label, File)>>: every value is non-empty.
IsFileMap(f) ==
  /\ DOMAIN f \subseteq Path
  /\ \A p \in DOMAIN f : f[p] \in Seq(FileRec) /\ f[p] # << >>

\* The type invariant.
TypeOK ==
  /\ root \in Roots
  /\ pc \in {"start", "walk", "done"}
  /\ stack \in Seq(Frame)
  /\ fpe.kind \in {"Ok", "Err"}
  /\ fpe.kind = "Ok" => IsFileMap(fpe.files)
  /\ fpe.kind = "Err" => fpe.err \in EntryError
  /\ ret.kind \in {"None", "Ok", "Err"}
  /\ ret.kind = "Ok" => IsFileMap(ret.files)
  /\ ret.kind = "Err" => ret.err \in Errors

\* file_paths_or_error only accumulates: once the callback has latched a
\* TreeWalkError::Git it keeps that error, and while it is Ok each
\* update_file_map keeps every path and every (Label, File) already
\* recorded, in order, at the front of that path's NonEmpty.
IsPrefix(s, t) == Len(s) <= Len(t) /\ \A k \in 1..Len(s) : s[k] = t[k]
FileMapAccumulates ==
  [][/\ fpe.kind = "Err" => fpe' = fpe
     /\ fpe.kind = "Ok" /\ fpe'.kind = "Ok" =>
          \A p \in DOMAIN fpe.files :
            p \in DOMAIN fpe'.files /\ IsPrefix(fpe.files[p], fpe'.files[p])]_vars

=============================================================================
