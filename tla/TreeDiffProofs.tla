---------------------------- MODULE TreeDiffProofs ----------------------------
(***************************************************************************)
(* Proofs about the tree differ, for every table of directories Tree, set *)
(* of labels and contents that satisfy the assumptions of TreeDiff.        *)
(***************************************************************************)
EXTENDS TreeDiff, TLAPS

\* The frame on top of a non-empty stack of frames is a frame.
LEMMA TopType ==
  ASSUME stack \in Seq(Frame), stack # << >>
  PROVE  Top \in Frame
BY DEF Top

\* Replacing the top frame by a frame keeps a stack of frames.
LEMMA WithTopType ==
  ASSUME stack \in Seq(Frame), stack # << >>, NEW f \in Frame
  PROVE  WithTop(f) \in Seq(Frame)
BY DEF WithTop

\* Dropping the last element keeps the element type.
LEMMA FrontType ==
  ASSUME NEW S, NEW s \in Seq(S)
  PROVE  Front(s) \in Seq(S)
BY DEF Front

\* The entry under a cursor that has not run off its directory.
LEMMA EntryType ==
  ASSUME NEW d \in DirIds, NEW k \in Pos, k <= Len(Tree[d])
  PROVE  Tree[d][k] \in Entry
BY TreeAssumption DEF Pos

\* A path extended by one label is a path.
LEMMA ChildType ==
  ASSUME path \in Path, NEW e \in Entry
  PROVE  Child(e) \in Path
BY LabelsAssumption DEF Child, Path, PathElem, Entry, FileEntry, DirEntry

\* The collect frame entered for a directory entry.
LEMMA CollectFrameType ==
  ASSUME NEW e \in DirEntry, NEW into \in {"created", "deleted"}
  PROVE  CollectFrameOf(e, into) \in Frame
BY DEF CollectFrameOf, Frame, CollectFrame, DirEntry, Pos

\* Advancing the cursors of a diff frame keeps a diff frame.
LEMMA AdvanceType ==
  ASSUME NEW r \in DiffFrame
  PROVE  /\ [r EXCEPT !.oi = @ + 1] \in DiffFrame
         /\ [r EXCEPT !.ni = @ + 1] \in DiffFrame
BY DEF DiffFrame, Pos

\* The diff frame on top, with its cursors advanced, is still a diff frame.
LEMMA AdvType ==
  ASSUME stack \in Seq(Frame), DiffTop
  PROVE  /\ Top \in DiffFrame
         /\ AdvOld \in DiffFrame
         /\ AdvNew \in DiffFrame
         /\ AdvBoth \in DiffFrame
<1>1. Top \in DiffFrame
  BY TopType DEF DiffTop, Frame, DiffFrame, CollectFrame
<1>2. AdvOld \in DiffFrame /\ AdvNew \in DiffFrame
  BY <1>1, AdvanceType DEF AdvOld, AdvNew
<1>3. AdvBoth \in DiffFrame
  BY <1>2, AdvanceType DEF AdvBoth
<1>4. QED
  BY <1>1, <1>2, <1>3

\* The entries under both cursors of the diff frame on top.
LEMMA CurEntries ==
  ASSUME stack \in Seq(Frame), DiffTop
  PROVE  /\ HasOld(Top) => OldEntry(Top) \in Entry
         /\ HasNew(Top) => NewEntry(Top) \in Entry
<1>1. Top \in DiffFrame
  BY AdvType
<1>2. QED
  BY <1>1, EntryType DEF HasOld, HasNew, OldEntry, NewEntry, DiffFrame

\* The diff lists, extended at one of created/deleted/modified by a path.
LEMMA DiffConcatType ==
  ASSUME NEW f \in [DiffLists -> Seq(Path)], NEW k \in DiffLists, NEW q \in Seq(Path)
  PROVE  [f EXCEPT ![k] = @ \o q] \in [DiffLists -> Seq(Path)]
OBVIOUS

\* The diff lists, extended at one list by a path.
LEMMA DiffAppendType ==
  ASSUME diff \in [DiffLists -> Seq(Path)], NEW k \in DiffLists, NEW q \in Path
  PROVE  [diff EXCEPT ![k] = Append(@, q)] \in [DiffLists -> Seq(Path)]
OBVIOUS

\* add_created_files / add_deleted_files keep the types.
LEMMA AddFilesType ==
  ASSUME TypeOK, stack # << >>, NEW e \in Entry,
         NEW into \in {"created", "deleted"}, NEW f2 \in Frame,
         AddFiles(e, into, f2)
  PROVE  /\ stack' \in Seq(Frame)
         /\ path' \in Path
         /\ diff' \in [DiffLists -> Seq(Path)]
<1>1. WithTop(f2) \in Seq(Frame)
  BY WithTopType DEF TypeOK
<1>2. CASE e.kind = "file" /\ diff' = [diff EXCEPT ![into] = Append(@, Child(e))]
            /\ stack' = WithTop(f2) /\ UNCHANGED path
  BY <1>1, <1>2, ChildType, DiffAppendType DEF TypeOK, DiffLists
<1>3. CASE e.kind = "dir" /\ stack' = Append(WithTop(f2), CollectFrameOf(e, into))
            /\ path' = Append(path, e.name) /\ UNCHANGED diff
  <2>1. e \in DirEntry
    BY <1>3 DEF Entry, FileEntry
  <2>2. QED
    BY <1>1, <1>3, <2>1, CollectFrameType, LabelsAssumption
       DEF TypeOK, Path, PathElem, DirEntry
<1>4. QED
  BY <1>2, <1>3 DEF AddFiles

\* The collect frame on top, its cursor advanced, and its current entry.
LEMMA CollectTopType ==
  ASSUME stack \in Seq(Frame), CollectTop
  PROVE  /\ Top \in CollectFrame
         /\ [Top EXCEPT !.i = @ + 1] \in CollectFrame
         /\ HasEntry => CurEntry \in Entry
<1>1. Top \in CollectFrame
  BY TopType DEF CollectTop, Frame, DiffFrame, CollectFrame
<1>2. [Top EXCEPT !.i = @ + 1] \in CollectFrame
  BY <1>1 DEF CollectFrame, Pos
<1>3. HasEntry => CurEntry \in Entry
  BY <1>1, EntryType DEF HasEntry, CurEntry, CollectFrame
<1>4. QED
  BY <1>1, <1>2, <1>3

\* Recording the pending DeleteFile keeps a diff frame.
LEMMA PendType ==
  ASSUME NEW r \in DiffFrame, NEW q \in Path
  PROVE  [r EXCEPT !.pend = << q >>] \in DiffFrame
<1>1. << q >> \in Seq(Path)
  OBVIOUS
<1>2. QED
  BY <1>1 DEF DiffFrame

\* Clearing the pending DeleteFile keeps a diff frame.
LEMMA PendClearType ==
  ASSUME NEW r \in DiffFrame
  PROVE  [r EXCEPT !.pend = << >>] \in DiffFrame
<1>1. << >> \in Seq(Path)
  OBVIOUS
<1>2. QED
  BY <1>1 DEF DiffFrame

\* The facts every step of the differ needs about the frame on top.
LEMMA DiffTopFacts ==
  ASSUME TypeOK, DiffTop
  PROVE  /\ stack # << >>
         /\ AdvOld \in Frame /\ AdvNew \in Frame /\ AdvBoth \in Frame
         /\ HasOld(Top) => OldEntry(Top) \in Entry
         /\ HasNew(Top) => NewEntry(Top) \in Entry
BY AdvType, CurEntries DEF TypeOK, DiffTop, Frame

-----------------------------------------------------------------------------
\* Init establishes the type invariant.
LEMMA TypeInit == Init => TypeOK
<1> SUFFICES ASSUME Init PROVE TypeOK
  OBVIOUS
<1>1. stack \in Seq(Frame)
  BY TreeAssumption, LabelsAssumption
     DEF Init, Frame, DiffFrame, Pos, PathElem, Path
<1>2. path \in Path /\ files \in Seq(Path) /\ diff \in [DiffLists -> Seq(Path)]
  BY DEF Init, Path, PathElem, EmptyDiff
<1>3. QED
  BY <1>1, <1>2, TreeAssumption DEF Init, TypeOK

\* Every step of the differ preserves the type invariant.
LEMMA TypeStep == TypeOK /\ [Next]_vars => TypeOK'
<1> SUFFICES ASSUME TypeOK, [Next]_vars PROVE TypeOK'
  OBVIOUS
<1>a. left \in DirIds /\ right \in DirIds /\ files \in Seq(Path)
      /\ stack \in Seq(Frame) /\ path \in Path /\ diff \in [DiffLists -> Seq(Path)]
  BY DEF TypeOK
\* The cursor-driven arms that call add_created_files / add_deleted_files.
<1>1. CASE Greater \/ OldOnly
  <2>1. DiffTop /\ HasOld(Top) /\ AddFiles(OldEntry(Top), "deleted", AdvOld)
        /\ UNCHANGED <<left, right, files>>
    BY <1>1 DEF Greater, OldOnly, Both
  <2>2. stack # << >> /\ AdvOld \in Frame /\ OldEntry(Top) \in Entry
    BY <2>1, DiffTopFacts
  <2>3. QED
    BY <2>1, <2>2, AddFilesType, <1>a DEF TypeOK
<1>2. CASE Less \/ NewOnly
  <2>1. DiffTop /\ HasNew(Top) /\ AddFiles(NewEntry(Top), "created", AdvNew)
        /\ UNCHANGED <<left, right, files>>
    BY <1>2 DEF Less, NewOnly, Both
  <2>2. stack # << >> /\ AdvNew \in Frame /\ NewEntry(Top) \in Entry
    BY <2>1, DiffTopFacts
  <2>3. QED
    BY <2>1, <2>2, AddFilesType, <1>a DEF TypeOK
\* The four same-name arms.
<1>3. CASE EqualFiles \/ FileOverDir \/ DirOverFile \/ Descend
  <2>1. DiffTop /\ HasOld(Top) /\ HasNew(Top)
    BY <1>3 DEF EqualFiles, FileOverDir, DirOverFile, Descend, Both
  <2>2. /\ stack # << >> /\ AdvBoth \in Frame
        /\ OldEntry(Top) \in Entry /\ NewEntry(Top) \in Entry
    BY <2>1, DiffTopFacts
  <2>3. WithTop(AdvBoth) \in Seq(Frame)
    BY <2>2, <1>a, WithTopType
  <2>4. Child(OldEntry(Top)) \in Path /\ Child(NewEntry(Top)) \in Path
    BY <2>2, <1>a, ChildType
  <2>5. CASE EqualFiles
    <3>1. diff' \in [DiffLists -> Seq(Path)]
      BY <2>5, <2>4, <1>a, DiffAppendType DEF EqualFiles, DiffLists
    <3>2. QED
      BY <3>1, <2>3, <2>5, <1>a DEF EqualFiles, TypeOK
  <2>6. CASE FileOverDir
    <3>1. OldEntry(Top) \in DirEntry
      BY <2>6, <2>2 DEF FileOverDir, Entry, FileEntry
    <3>2. CollectFrameOf(OldEntry(Top), "deleted") \in Frame
      BY <3>1, CollectFrameType
    <3>3. diff' \in [DiffLists -> Seq(Path)]
      BY <2>6, <2>4, <1>a, DiffAppendType DEF FileOverDir, DiffLists
    <3>4. path' \in Path
      BY <2>6, <3>1, <1>a, LabelsAssumption DEF FileOverDir, DirEntry, Path, PathElem
    <3>5. QED
      BY <3>2, <3>3, <3>4, <2>3, <2>6, <1>a DEF FileOverDir, TypeOK
  <2>7. CASE DirOverFile
    <3>1. NewEntry(Top) \in DirEntry
      BY <2>7, <2>2 DEF DirOverFile, Entry, FileEntry
    <3>2. CollectFrameOf(NewEntry(Top), "created") \in Frame
      BY <3>1, CollectFrameType
    <3>3. [AdvBoth EXCEPT !.pend = << Child(OldEntry(Top)) >>] \in Frame
      BY <2>2, <2>4, PendType DEF Frame, DiffFrame, CollectFrame
    <3>4. WithTop([AdvBoth EXCEPT !.pend = << Child(OldEntry(Top)) >>]) \in Seq(Frame)
      BY <3>3, <2>2, <1>a, WithTopType
    <3>5. path' \in Path
      BY <2>7, <3>1, <1>a, LabelsAssumption DEF DirOverFile, DirEntry, Path, PathElem
    <3>6. QED
      BY <3>2, <3>4, <3>5, <2>7, <1>a DEF DirOverFile, TypeOK
  <2>8. CASE Descend
    <3>1. OldEntry(Top) \in DirEntry /\ NewEntry(Top) \in DirEntry
      BY <2>8, <2>2 DEF Descend, Entry, FileEntry
    <3>2. [kind |-> "diff", old |-> OldEntry(Top).dir, new |-> NewEntry(Top).dir,
           oi |-> 1, ni |-> 1, label |-> NewEntry(Top).name, pend |-> << >>] \in Frame
      BY <3>1, LabelsAssumption DEF DirEntry, Frame, DiffFrame, Pos, PathElem
    <3>3. path' \in Path
      BY <2>8, <3>1, <1>a, LabelsAssumption DEF Descend, DirEntry, Path, PathElem
    <3>4. QED
      BY <3>2, <3>3, <2>3, <2>8, <1>a DEF Descend, TypeOK
  <2>9. QED
    BY <1>3, <2>5, <2>6, <2>7, <2>8
\* The returns of collect_diff.
<1>4. CASE DiffReturn \/ Finish
  <2>1. Front(stack) \in Seq(Frame) /\ Front(path) \in Path
    BY <1>a, FrontType DEF Path
  <2>2. << >> \in Seq(Frame)
    OBVIOUS
  <2>3. QED
    BY <1>4, <2>1, <2>2, <1>a DEF DiffReturn, Finish, TypeOK
\* The steps of collect_files_inner.
<1>5. CASE CollectFile \/ CollectSubdir \/ CollectReturn
  <2>1. CollectTop
    BY <1>5 DEF CollectFile, CollectSubdir, CollectReturn
  <2>2. /\ stack # << >>
        /\ Top \in CollectFrame
        /\ [Top EXCEPT !.i = @ + 1] \in Frame
        /\ HasEntry => CurEntry \in Entry
    BY <2>1, <1>a, CollectTopType DEF CollectTop, Frame
  <2>3. WithTop([Top EXCEPT !.i = @ + 1]) \in Seq(Frame)
    BY <2>2, <1>a, WithTopType
  <2>4. CASE CollectFile
    <3>1. Child(CurEntry) \in Path
      BY <2>4, <2>2, <1>a, ChildType DEF CollectFile
    <3>2. files' \in Seq(Path)
      BY <2>4, <3>1, <1>a DEF CollectFile
    <3>3. QED
      BY <2>3, <2>4, <3>2, <1>a DEF CollectFile, TypeOK
  <2>5. CASE CollectSubdir
    <3>1. CurEntry \in DirEntry
      BY <2>5, <2>2 DEF CollectSubdir, Entry, FileEntry
    <3>2. CollectFrameOf(CurEntry, Top.into) \in Frame
      BY <3>1, <2>2, CollectFrameType DEF CollectFrame
    <3>3. path' \in Path
      BY <2>5, <3>1, <1>a, LabelsAssumption DEF CollectSubdir, DirEntry, Path, PathElem
    <3>4. QED
      BY <2>3, <2>5, <3>2, <3>3, <1>a DEF CollectSubdir, TypeOK
  <2>6. CASE CollectReturn
    <3>1. Front(stack) \in Seq(Frame) /\ Front(path) \in Path
      BY <1>a, FrontType DEF Path
    <3>2. QED
      BY <2>6, <3>1, <1>a DEF CollectReturn, TypeOK
  <2>7. QED
    BY <1>5, <2>4, <2>5, <2>6
<1>6. CASE CollectDone
  <2>1. CollectTop /\ Len(stack) > 1 /\ stack[Len(stack) - 1].kind = "diff"
    BY <1>6 DEF CollectDone
  <2>2. Top \in CollectFrame
    BY <2>1, <1>a, CollectTopType
  <2>3. stack[Len(stack) - 1] \in DiffFrame
    BY <2>1, <1>a DEF Frame, CollectFrame
  <2>4. [diff EXCEPT ![Top.into] = @ \o files] \in [DiffLists -> Seq(Path)]
    BY <2>2, <1>a, DiffConcatType DEF CollectFrame, DiffLists
  <2>5. stack[Len(stack) - 1].pend \in Seq(Path)
    BY <2>3 DEF DiffFrame
  <2>6. [[diff EXCEPT ![Top.into] = @ \o files] EXCEPT
           !["deleted"] = @ \o stack[Len(stack) - 1].pend] \in [DiffLists -> Seq(Path)]
    BY <2>4, <2>5, DiffConcatType DEF DiffLists
  <2>7. [stack[Len(stack) - 1] EXCEPT !.pend = << >>] \in DiffFrame
    BY <2>3, PendClearType
  <2>8. [Front(stack) EXCEPT ![Len(stack) - 1] =
            [stack[Len(stack) - 1] EXCEPT !.pend = << >>]] \in Seq(Frame)
    BY <2>1, <2>7, <1>a, FrontType DEF Front, Frame
  <2>9. Front(path) \in Path
    BY <1>a, FrontType DEF Path
  <2>10. /\ diff' = [[diff EXCEPT ![Top.into] = @ \o files] EXCEPT
                       !["deleted"] = @ \o stack[Len(stack) - 1].pend]
         /\ stack' = [Front(stack) EXCEPT ![Len(stack) - 1] =
                         [stack[Len(stack) - 1] EXCEPT !.pend = << >>]]
         /\ path' = Front(path) /\ files' = << >>
         /\ left' = left /\ right' = right
    BY <1>6 DEF CollectDone
  <2>11. diff' \in [DiffLists -> Seq(Path)]
    BY <2>6, <2>10
  <2>12. stack' \in Seq(Frame)
    BY <2>8, <2>10
  <2>13. path' = Front(path) /\ files' = << >> /\ left' = left /\ right' = right
    BY <2>10
  <2>14. QED
    BY <2>9, <2>11, <2>12, <2>13, <1>a DEF TypeOK
<1>7. CASE UNCHANGED vars
  BY <1>7 DEF vars, TypeOK
<1>8. QED
  BY <1>1, <1>2, <1>3, <1>4, <1>5, <1>6, <1>7 DEF Next

\* Type correctness of the tree differ.
THEOREM TypeCorrect == Spec => []TypeOK
BY TypeInit, TypeStep, PTL DEF Spec

=============================================================================
