------------------------------ MODULE TreeDiff ------------------------------
(***************************************************************************)
(* The tree differ of radicle-surf: Diff::diff, Diff::collect_diff and the *)
(* file enumeration Diff::collect_files_inner (src/radicle-surf/src/diff.rs)*)
(*                                                                         *)
(* Both recursions are modelled as an explicit call stack.  A "diff" frame *)
(* is one activation of collect_diff with its two cursors over the sorted  *)
(* contents of the old and the new directory; a "collect" frame is one     *)
(* activation of collect_files_inner with its cursor over one directory.   *)
(* The shared, mutable path accumulator (Rc<RefCell<Path>>) is the         *)
(* variable path; the Vec that collect_files fills is the variable files.  *)
(* A snapshot is a table Tree of directories: Tree[d] is the sequence of   *)
(* entries of directory d, sorted by name, as Directory::contents() yields *)
(* them.  Entry names are naturals ordered by <, an abstraction of Label's *)
(* Ord.  Hunks of the recorded files are always empty on this path and     *)
(* moved/copied stay empty, so the Diff keeps the three path lists.        *)
(***************************************************************************)
EXTENDS Naturals, Sequences

CONSTANTS
  Labels,     \* names of directory entries
  RootLabel,  \* right.current(), the label the path accumulator starts with
  Contents,   \* file contents: records with a size and a checksum
  DirIds,     \* identities of directories
  Tree,       \* Tree[d]: the entries of directory d, sorted by name
  Roots       \* directories that may be passed to Diff::diff

PathElem == Labels \cup {RootLabel}
Path == Seq(PathElem)

FileEntry == [kind : {"file"}, name : Labels, file : Contents]
DirEntry == [kind : {"dir"}, name : Labels, dir : DirIds]
Entry == FileEntry \cup DirEntry

ASSUME LabelsAssumption == Labels \subseteq Nat /\ RootLabel \in Nat
ASSUME TreeAssumption == Tree \in [DirIds -> Seq(Entry)] /\ Roots \subseteq DirIds
\* The differ requires pre-sorted contents (spec section 6); names in one
\* directory are unique.
ASSUME TreeSorted ==
  \A d \in DirIds : \A i, j \in 1..Len(Tree[d]) :
     i < j => Tree[d][i].name < Tree[d][j].name

Pos == Nat \ {0}

\* One activation of collect_diff: cursors oi/ni into the old and new
\* contents, the label pushed for it, and pend, the DeleteFile that the
\* Directory(new)/File(old) arm adds after add_created_files returns.
DiffFrame == [kind : {"diff"}, old : DirIds, new : DirIds, oi : Pos, ni : Pos,
              label : PathElem, pend : Seq(Path)]
\* One activation of collect_files_inner over directory dir; into names the
\* Diff list the enclosing add_created_files/add_deleted_files appends to.
CollectFrame == [kind : {"collect"}, dir : DirIds, i : Pos, label : Labels,
                 into : {"created", "deleted"}]
Frame == DiffFrame \cup CollectFrame

VARIABLES
  left,    \* the old directory (argument left of Diff::diff)
  right,   \* the new directory (argument right)
  stack,   \* the call stack of collect_diff / collect_files_inner
  path,    \* the shared path accumulator parent_path
  files,   \* the Vec<T> filled by collect_files_inner
  diff     \* the Diff being built: created, deleted, modified paths

vars == <<left, right, stack, path, files, diff>>

\* The three lists of Diff that this path fills (Diff::new() empties all five).
DiffLists == {"created", "deleted", "modified"}
EmptyDiff == [k \in DiffLists |-> << >>]

Init ==
  /\ left \in Roots
  /\ right \in Roots
  /\ stack = << [kind |-> "diff", old |-> left, new |-> right, oi |-> 1,
                 ni |-> 1, label |-> RootLabel, pend |-> << >>] >>
  /\ path = << RootLabel >>
  /\ files = << >>
  /\ diff = EmptyDiff

-----------------------------------------------------------------------------
Top == stack[Len(stack)]
WithTop(f) == [stack EXCEPT ![Len(stack)] = f]
Front(s) == SubSeq(s, 1, Len(s) - 1)

HasOld(f) == f.oi <= Len(Tree[f.old])
HasNew(f) == f.ni <= Len(Tree[f.new])
OldEntry(f) == Tree[f.old][f.oi]
NewEntry(f) == Tree[f.new][f.ni]

\* path.push(name) on a clone of parent_path
Child(e) == Append(path, e.name)

\* collect_files_inner(dir) entered: it pushes dir.current() and starts a loop
CollectFrameOf(e, into) ==
  [kind |-> "collect", dir |-> e.dir, i |-> 1, label |-> e.name, into |-> into]

\* add_created_files / add_deleted_files (via collect_files_from_entry),
\* called from the frame on top, which continues as f2.
AddFiles(e, into, f2) ==
  \/ /\ e.kind = "file"
     /\ diff' = [diff EXCEPT ![into] = Append(@, Child(e))]
     /\ stack' = WithTop(f2)
     /\ UNCHANGED path
  \/ /\ e.kind = "dir"
     /\ stack' = Append(WithTop(f2), CollectFrameOf(e, into))
     /\ path' = Append(path, e.name)
     /\ UNCHANGED diff

DiffTop == stack # << >> /\ Top.kind = "diff"
Both == HasOld(Top) /\ HasNew(Top)
SameName == NewEntry(Top).name = OldEntry(Top).name
AdvOld == [Top EXCEPT !.oi = @ + 1]
AdvNew == [Top EXCEPT !.ni = @ + 1]
AdvBoth == [AdvOld EXCEPT !.ni = @ + 1]

\* Ordering::Greater: the old entry is deleted, the old cursor advances.
Greater ==
  /\ DiffTop /\ Both
  /\ NewEntry(Top).name > OldEntry(Top).name
  /\ AddFiles(OldEntry(Top), "deleted", AdvOld)
  /\ UNCHANGED <<left, right, files>>

\* Ordering::Less: the new entry is created, the new cursor advances.
Less ==
  /\ DiffTop /\ Both
  /\ NewEntry(Top).name < OldEntry(Top).name
  /\ AddFiles(NewEntry(Top), "created", AdvNew)
  /\ UNCHANGED <<left, right, files>>

\* Mutant: only the sizes are compared.
FileChangedSizeOnly(o, n) == o.size # n.size

FileChanged(o, n) == o.size # n.size \/ o.checksum # n.checksum

\* Equal names, File/File: a modification when size or checksum differ.
EqualFiles ==
  /\ DiffTop /\ Both /\ SameName
  /\ NewEntry(Top).kind = "file" /\ OldEntry(Top).kind = "file"
  /\ diff' = IF FileChanged(OldEntry(Top).file, NewEntry(Top).file)
               THEN [diff EXCEPT !["modified"] = Append(@, Child(NewEntry(Top)))]
               ELSE diff
  /\ stack' = WithTop(AdvBoth)
  /\ UNCHANGED <<left, right, path, files>>

\* Equal names, File(new)/Directory(old): the file is created, every file
\* under the old directory deleted.
FileOverDir ==
  /\ DiffTop /\ Both /\ SameName
  /\ NewEntry(Top).kind = "file" /\ OldEntry(Top).kind = "dir"
  /\ diff' = [diff EXCEPT !["created"] = Append(@, Child(NewEntry(Top)))]
  /\ stack' = Append(WithTop(AdvBoth), CollectFrameOf(OldEntry(Top), "deleted"))
  /\ path' = Append(path, OldEntry(Top).name)
  /\ UNCHANGED <<left, right, files>>

\* Equal names, Directory(new)/File(old): the old file's path is taken
\* first, every file under the new directory is created, then the old file
\* is deleted (pend, added when the enumeration returns).
DirOverFile ==
  /\ DiffTop /\ Both /\ SameName
  /\ NewEntry(Top).kind = "dir" /\ OldEntry(Top).kind = "file"
  /\ stack' = Append(WithTop([AdvBoth EXCEPT !.pend = << Child(OldEntry(Top)) >>]),
                     CollectFrameOf(NewEntry(Top), "created"))
  /\ path' = Append(path, NewEntry(Top).name)
  /\ UNCHANGED <<left, right, files, diff>>

\* Mutant: the nested activation starts its cursors at 0 (off by one).
DescendFromZero ==
  /\ DiffTop /\ Both /\ SameName
  /\ NewEntry(Top).kind = "dir" /\ OldEntry(Top).kind = "dir"
  /\ stack' = Append(WithTop(AdvBoth),
                     [kind |-> "diff", old |-> OldEntry(Top).dir,
                      new |-> NewEntry(Top).dir, oi |-> 0, ni |-> 0,
                      label |-> NewEntry(Top).name, pend |-> << >>])
  /\ path' = Append(path, NewEntry(Top).name)
  /\ UNCHANGED <<left, right, files, diff>>

\* Equal names, Directory/Directory: push the name, recurse.
Descend ==
  /\ DiffTop /\ Both /\ SameName
  /\ NewEntry(Top).kind = "dir" /\ OldEntry(Top).kind = "dir"
  /\ stack' = Append(WithTop(AdvBoth),
                     [kind |-> "diff", old |-> OldEntry(Top).dir,
                      new |-> NewEntry(Top).dir, oi |-> 1, ni |-> 1,
                      label |-> NewEntry(Top).name, pend |-> << >>])
  /\ path' = Append(path, NewEntry(Top).name)
  /\ UNCHANGED <<left, right, files, diff>>

\* (Some(old), None): the rest of the old directory is deleted.
OldOnly ==
  /\ DiffTop /\ HasOld(Top) /\ ~HasNew(Top)
  /\ AddFiles(OldEntry(Top), "deleted", AdvOld)
  /\ UNCHANGED <<left, right, files>>

\* (None, Some(new)): the rest of the new directory is created.
NewOnly ==
  /\ DiffTop /\ ~HasOld(Top) /\ HasNew(Top)
  /\ AddFiles(NewEntry(Top), "created", AdvNew)
  /\ UNCHANGED <<left, right, files>>

\* Mutant: the caller forgets parent_path.pop() after the recursive call.
DiffReturnNoPop ==
  /\ DiffTop /\ ~HasOld(Top) /\ ~HasNew(Top)
  /\ Len(stack) > 1
  /\ stack' = Front(stack)
  /\ UNCHANGED <<left, right, path, files, diff>>

\* A nested collect_diff returns; the caller pops parent_path.
DiffReturn ==
  /\ DiffTop /\ ~HasOld(Top) /\ ~HasNew(Top)
  /\ Len(stack) > 1
  /\ stack' = Front(stack)
  /\ path' = Front(path)
  /\ UNCHANGED <<left, right, files, diff>>

\* The outermost collect_diff returns and Diff::diff returns the Diff.
Finish ==
  /\ DiffTop /\ ~HasOld(Top) /\ ~HasNew(Top)
  /\ Len(stack) = 1
  /\ stack' = << >>
  /\ UNCHANGED <<left, right, path, files, diff>>
-----------------------------------------------------------------------------
CollectTop == stack # << >> /\ Top.kind = "collect"
HasEntry == Top.i <= Len(Tree[Top.dir])
CurEntry == Tree[Top.dir][Top.i]

\* collect_files_inner, a File entry: files.push(mapper(parent_path + name)).
CollectFile ==
  /\ CollectTop /\ HasEntry
  /\ CurEntry.kind = "file"
  /\ files' = Append(files, Child(CurEntry))
  /\ stack' = WithTop([Top EXCEPT !.i = @ + 1])
  /\ UNCHANGED <<left, right, path, diff>>

\* Mutant: the recursion into a subdirectory does not push its label.
CollectSubdirNoPush ==
  /\ CollectTop /\ HasEntry
  /\ CurEntry.kind = "dir"
  /\ stack' = Append(WithTop([Top EXCEPT !.i = @ + 1]),
                     CollectFrameOf(CurEntry, Top.into))
  /\ UNCHANGED <<left, right, path, files, diff>>

\* collect_files_inner, a Directory entry: recurse (the callee pushes).
CollectSubdir ==
  /\ CollectTop /\ HasEntry
  /\ CurEntry.kind = "dir"
  /\ stack' = Append(WithTop([Top EXCEPT !.i = @ + 1]),
                     CollectFrameOf(CurEntry, Top.into))
  /\ path' = Append(path, CurEntry.name)
  /\ UNCHANGED <<left, right, files, diff>>

\* Mutant: collect_files_inner returns without parent_path.pop().
CollectReturnNoPop ==
  /\ CollectTop /\ ~HasEntry
  /\ Len(stack) > 1
  /\ stack[Len(stack) - 1].kind = "collect"
  /\ stack' = Front(stack)
  /\ UNCHANGED <<left, right, path, files, diff>>

\* A nested collect_files_inner pops parent_path and returns.
CollectReturn ==
  /\ CollectTop /\ ~HasEntry
  /\ Len(stack) > 1
  /\ stack[Len(stack) - 1].kind = "collect"
  /\ stack' = Front(stack)
  /\ path' = Front(path)
  /\ UNCHANGED <<left, right, files, diff>>

\* The outermost collect_files_inner pops parent_path and returns;
\* add_created_files/add_deleted_files appends the collected Vec, and the
\* Directory(new)/File(old) arm then adds its pending DeleteFile.
CollectDone ==
  /\ CollectTop /\ ~HasEntry
  /\ Len(stack) > 1
  /\ stack[Len(stack) - 1].kind = "diff"
  /\ LET caller == stack[Len(stack) - 1]
         collected == [diff EXCEPT ![Top.into] = @ \o files]
     IN  /\ diff' = [collected EXCEPT !["deleted"] = @ \o caller.pend]
         /\ stack' = [Front(stack) EXCEPT ![Len(stack) - 1] =
                        [caller EXCEPT !.pend = << >>]]
  /\ path' = Front(path)
  /\ files' = << >>
  /\ UNCHANGED <<left, right>>

Next ==
  \/ Greater \/ Less \/ EqualFiles \/ FileOverDir \/ DirOverFile \/ Descend
  \/ OldOnly \/ NewOnly \/ DiffReturn \/ Finish
  \/ CollectFile \/ CollectSubdir \/ CollectReturn \/ CollectDone

\* Diff::diff is a synchronous call that runs until it returns.
Spec == Init /\ [][Next]_vars /\ WF_vars(Next)

Done == stack = << >>

-----------------------------------------------------------------------------
\* Type invariant.
TypeOK ==
  /\ left \in DirIds /\ right \in DirIds
  /\ stack \in Seq(Frame)
  /\ path \in Path
  /\ files \in Seq(Path)
  /\ diff \in [DiffLists -> Seq(Path)]

\* The labels pushed for the activations of a stack, bottom first.
LabelsOf(s) == [k \in 1..Len(s) |-> s[k].label]

\* The shared path accumulator always spells the chain of directories that
\* the active collect_diff / collect_files_inner activations stand in:
\* every push in Descend, FileOverDir, DirOverFile, the add_*_files calls
\* and collect_files_inner is undone by exactly one pop, at the right time
\* (the caller pops after collect_diff, the callee before returning from
\* collect_files_inner), so no recorded path carries a stale component.
PathDiscipline ==
  /\ stack # << >> => stack[1].label = RootLabel /\ path = LabelsOf(stack)
  /\ stack = << >> => path = << RootLabel >>
=============================================================================
