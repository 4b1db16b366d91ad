-------------------------- MODULE TreeDiffPathProofs --------------------------
(***************************************************************************)
(* Proof that the shared path accumulator of Diff::collect_diff and        *)
(* Diff::collect_files_inner is pushed and popped in step with the call    *)
(* stack (PathDiscipline), for every table of directories.                *)
(*                                                                         *)
(* PathDiscipline is not inductive by itself: a pop (DiffReturn,           *)
(* CollectReturn, CollectDone) must know that the label it removes is not  *)
(* the root, and Finish must know that a one-frame stack leaves only the   *)
(* root label.  PathInv adds that the first path component is RootLabel,  *)
(* together with TypeOK it is inductive.                                   *)
(***************************************************************************)
EXTENDS TreeDiffProofs

PathInv ==
  /\ Len(path) >= 1
  /\ path[1] = RootLabel
  /\ stack # << >> => path = LabelsOf(stack)
  /\ stack = << >> => path = << RootLabel >>

\* Replacing one frame by a frame with the same label keeps the labels.
LEMMA LabelsReplace ==
  ASSUME NEW s \in Seq(Frame), NEW i \in 1..Len(s), NEW f \in Frame,
         f.label = s[i].label
  PROVE  LabelsOf([s EXCEPT ![i] = f]) = LabelsOf(s)
BY DEF LabelsOf

\* Pushing a frame pushes its label.
LEMMA LabelsAppend ==
  ASSUME NEW s \in Seq(Frame), NEW g \in Frame
  PROVE  LabelsOf(Append(s, g)) = Append(LabelsOf(s), g.label)
BY DEF LabelsOf

\* Popping a frame pops its label.
LEMMA LabelsFront ==
  ASSUME NEW s \in Seq(Frame), s # << >>
  PROVE  LabelsOf(Front(s)) = Front(LabelsOf(s))
BY DEF LabelsOf, Front

\* The top frame replaced by one with the same label.
LEMMA WithTopLabels ==
  ASSUME stack \in Seq(Frame), stack # << >>, NEW f \in Frame,
         f.label = Top.label
  PROVE  LabelsOf(WithTop(f)) = LabelsOf(stack)
<1>1. Len(stack) \in 1..Len(stack)
  OBVIOUS
<1>2. QED
  BY <1>1, LabelsReplace DEF WithTop, Top

\* Dropping the last of two or more elements keeps the others.
LEMMA FrontFacts ==
  ASSUME NEW S, NEW s \in Seq(S), Len(s) > 1
  PROVE  /\ Front(s) \in Seq(S)
         /\ Len(Front(s)) = Len(s) - 1
         /\ Front(s) # << >>
         /\ \A k \in 1..Len(s) - 1 : Front(s)[k] = s[k]
<1>1. Front(s) \in Seq(S) /\ Len(Front(s)) = Len(s) - 1
  BY DEF Front
<1>2. \A k \in 1..Len(s) - 1 : Front(s)[k] = s[k]
  BY DEF Front
<1>3. QED
  BY <1>1, <1>2

-----------------------------------------------------------------------------
\* A step that replaces the top frame and leaves path alone.
LEMMA ReplaceStep ==
  ASSUME TypeOK, PathInv, stack # << >>, NEW f \in Frame, f.label = Top.label,
         stack' = WithTop(f), path' = path
  PROVE  PathInv'
<1>1. LabelsOf(stack') = path
  BY WithTopLabels DEF TypeOK, PathInv
<1>2. stack' # << >>
  BY DEF WithTop, TypeOK
<1>3. QED
  BY <1>1, <1>2 DEF PathInv

\* A step that replaces the top frame and pushes a frame and its label.
LEMMA PushStep ==
  ASSUME TypeOK, PathInv, stack # << >>, NEW f \in Frame, f.label = Top.label,
         NEW g \in Frame, stack' = Append(WithTop(f), g),
         path' = Append(path, g.label)
  PROVE  PathInv'
<1>1. WithTop(f) \in Seq(Frame)
  BY WithTopType DEF TypeOK
<1>2. LabelsOf(stack') = Append(LabelsOf(WithTop(f)), g.label)
  BY <1>1, LabelsAppend
<1>3. LabelsOf(stack') = path'
  BY <1>2, WithTopLabels DEF TypeOK, PathInv
<1>4. Len(path') >= 1 /\ path'[1] = RootLabel
  BY DEF TypeOK, PathInv, Path
<1>5. stack' # << >>
  BY <1>1
<1>6. QED
  BY <1>3, <1>4, <1>5 DEF PathInv

\* A step that pops a frame of a stack of two or more, and its label.
LEMMA PopStep ==
  ASSUME TypeOK, PathInv, Len(stack) > 1, stack' = Front(stack),
         path' = Front(path)
  PROVE  PathInv'
<1>1. stack # << >> /\ path = LabelsOf(stack)
  BY DEF TypeOK, PathInv
<1>2. LabelsOf(stack') = path'
  BY <1>1, LabelsFront DEF TypeOK
<1>3. Len(path) = Len(stack)
  BY <1>1 DEF LabelsOf
<1>4. Len(path') >= 1 /\ path'[1] = RootLabel /\ stack' # << >>
  <2>1. path \in Seq(PathElem) /\ stack \in Seq(Frame) /\ Len(path) > 1
    BY <1>3 DEF TypeOK, Path
  <2>2. Len(path') = Len(path) - 1 /\ path'[1] = path[1] /\ stack' # << >>
    BY <2>1, FrontFacts
  <2>3. QED
    BY <2>1, <2>2 DEF PathInv
<1>5. QED
  BY <1>2, <1>4 DEF PathInv

\* CollectDone: pop the collect frame and clear the caller's pend.
LEMMA CollectDoneStep ==
  ASSUME TypeOK, PathInv, Len(stack) > 1, NEW c \in Frame,
         c.label = stack[Len(stack) - 1].label,
         stack' = [Front(stack) EXCEPT ![Len(stack) - 1] = c],
         path' = Front(path)
  PROVE  PathInv'
<1>1. Front(stack) \in Seq(Frame) /\ Front(stack) # << >>
  BY FrontFacts DEF TypeOK
<1>2. Len(stack) - 1 \in 1..Len(Front(stack))
      /\ Front(stack)[Len(stack) - 1] = stack[Len(stack) - 1]
  BY FrontFacts DEF TypeOK
<1>3. LabelsOf(stack') = LabelsOf(Front(stack))
  BY <1>1, <1>2, LabelsReplace
<1>4. stack # << >> /\ path = LabelsOf(stack) /\ Len(path) = Len(stack)
  BY DEF TypeOK, PathInv, LabelsOf
<1>5. LabelsOf(stack') = path'
  BY <1>3, <1>4, LabelsFront DEF TypeOK
<1>6. Len(path') >= 1 /\ path'[1] = RootLabel /\ stack' # << >>
  <2>1. path \in Seq(PathElem) /\ Len(path) > 1
    BY <1>4 DEF TypeOK, Path
  <2>2. Len(path') = Len(path) - 1 /\ path'[1] = path[1]
    BY <2>1, FrontFacts
  <2>3. stack' # << >>
    BY <1>1, <1>2
  <2>4. QED
    BY <2>1, <2>2, <2>3 DEF PathInv
<1>7. QED
  BY <1>5, <1>6 DEF PathInv


\* add_created_files / add_deleted_files: a file leaves path alone, a
\* directory enters collect_files_inner, which pushes its label.
LEMMA AddFilesPath ==
  ASSUME TypeOK, PathInv, stack # << >>, NEW e \in Entry,
         NEW into \in {"created", "deleted"}, NEW f2 \in Frame,
         f2.label = Top.label, AddFiles(e, into, f2)
  PROVE  PathInv'
<1>1. CASE e.kind = "file" /\ stack' = WithTop(f2) /\ path' = path
  BY <1>1, ReplaceStep
<1>2. CASE e.kind = "dir" /\ stack' = Append(WithTop(f2), CollectFrameOf(e, into))
           /\ path' = Append(path, e.name)
  <2>1. e \in DirEntry
    BY <1>2 DEF Entry, FileEntry
  <2>2. CollectFrameOf(e, into) \in Frame /\ CollectFrameOf(e, into).label = e.name
    BY <2>1, CollectFrameType DEF CollectFrameOf
  <2>3. QED
    BY <1>2, <2>2, PushStep
<1>3. QED
  BY <1>1, <1>2 DEF AddFiles

-----------------------------------------------------------------------------
\* Init establishes PathInv.
LEMMA PathInit == Init => PathInv
BY DEF Init, PathInv, LabelsOf

\* Every step of the differ preserves PathInv.
LEMMA PathStep == TypeOK /\ PathInv /\ [Next]_vars => PathInv'
<1> SUFFICES ASSUME TypeOK, PathInv, [Next]_vars PROVE PathInv'
  OBVIOUS
<1>1. CASE Greater \/ OldOnly
  <2>1. DiffTop /\ HasOld(Top) /\ AddFiles(OldEntry(Top), "deleted", AdvOld)
    BY <1>1 DEF Greater, OldOnly, Both
  <2>2. stack # << >> /\ AdvOld \in Frame /\ OldEntry(Top) \in Entry
    BY <2>1, DiffTopFacts
  <2>3. AdvOld.label = Top.label
    BY DEF AdvOld
  <2>4. QED
    BY <2>1, <2>2, <2>3, AddFilesPath
<1>2. CASE Less \/ NewOnly
  <2>1. DiffTop /\ HasNew(Top) /\ AddFiles(NewEntry(Top), "created", AdvNew)
    BY <1>2 DEF Less, NewOnly, Both
  <2>2. stack # << >> /\ AdvNew \in Frame /\ NewEntry(Top) \in Entry
    BY <2>1, DiffTopFacts
  <2>3. AdvNew.label = Top.label
    BY DEF AdvNew
  <2>4. QED
    BY <2>1, <2>2, <2>3, AddFilesPath
<1>3. CASE EqualFiles \/ FileOverDir \/ DirOverFile \/ Descend
  <2>1. DiffTop /\ HasOld(Top) /\ HasNew(Top)
    BY <1>3 DEF EqualFiles, FileOverDir, DirOverFile, Descend, Both
  <2>2. /\ stack # << >> /\ AdvBoth \in Frame
        /\ OldEntry(Top) \in Entry /\ NewEntry(Top) \in Entry
    BY <2>1, DiffTopFacts
  <2>3. AdvBoth.label = Top.label
    BY DEF AdvBoth, AdvOld
  <2>4. CASE EqualFiles
    BY <2>4, <2>2, <2>3, ReplaceStep DEF EqualFiles
  <2>5. CASE FileOverDir
    <3>1. OldEntry(Top) \in DirEntry
      BY <2>5, <2>2 DEF FileOverDir, Entry, FileEntry
    <3>2. /\ CollectFrameOf(OldEntry(Top), "deleted") \in Frame
          /\ CollectFrameOf(OldEntry(Top), "deleted").label = OldEntry(Top).name
      BY <3>1, CollectFrameType DEF CollectFrameOf
    <3>3. QED
      BY <2>5, <2>2, <2>3, <3>2, PushStep DEF FileOverDir
  <2>6. CASE DirOverFile
    <3>1. NewEntry(Top) \in DirEntry
      BY <2>6, <2>2 DEF DirOverFile, Entry, FileEntry
    <3>2. /\ CollectFrameOf(NewEntry(Top), "created") \in Frame
          /\ CollectFrameOf(NewEntry(Top), "created").label = NewEntry(Top).name
      BY <3>1, CollectFrameType DEF CollectFrameOf
    <3>3. /\ [AdvBoth EXCEPT !.pend = << Child(OldEntry(Top)) >>] \in Frame
          /\ [AdvBoth EXCEPT !.pend = << Child(OldEntry(Top)) >>].label = Top.label
      BY <2>2, <2>3, ChildType, PendType DEF TypeOK, Frame, DiffFrame, CollectFrame
    <3>4. QED
      BY <2>6, <2>2, <3>2, <3>3, PushStep DEF DirOverFile
  <2>7. CASE Descend
    <3>1. OldEntry(Top) \in DirEntry /\ NewEntry(Top) \in DirEntry
      BY <2>7, <2>2 DEF Descend, Entry, FileEntry
    <3> DEFINE g == [kind |-> "diff", old |-> OldEntry(Top).dir,
                     new |-> NewEntry(Top).dir, oi |-> 1, ni |-> 1,
                     label |-> NewEntry(Top).name, pend |-> << >>]
    <3>2. g \in Frame /\ g.label = NewEntry(Top).name
      BY <3>1, LabelsAssumption DEF DirEntry, Frame, DiffFrame, Pos, PathElem
    <3>3. stack' = Append(WithTop(AdvBoth), g) /\ path' = Append(path, g.label)
      BY <2>7 DEF Descend
    <3>4. QED
      BY <2>2, <2>3, <3>2, <3>3, PushStep
  <2>8. QED
    BY <1>3, <2>4, <2>5, <2>6, <2>7
<1>4. CASE DiffReturn
  BY <1>4, PopStep DEF DiffReturn
<1>5. CASE Finish
  <2>1. stack # << >> /\ Len(stack) = 1 /\ stack' = << >> /\ path' = path
    BY <1>5 DEF Finish, DiffTop
  <2>2. path = LabelsOf(stack)
    BY <2>1 DEF PathInv
  <2>3. path = << RootLabel >>
    BY <2>1, <2>2 DEF PathInv, LabelsOf
  <2>4. QED
    BY <2>1, <2>3 DEF PathInv
<1>6. CASE CollectFile \/ CollectSubdir
  <2>1. CollectTop /\ HasEntry
    BY <1>6 DEF CollectFile, CollectSubdir
  <2>2. /\ stack # << >>
        /\ Top \in CollectFrame
        /\ [Top EXCEPT !.i = @ + 1] \in Frame
        /\ [Top EXCEPT !.i = @ + 1].label = Top.label
        /\ CurEntry \in Entry
    BY <2>1, CollectTopType DEF TypeOK, CollectTop, Frame
  <2>3. CASE CollectFile
    BY <2>3, <2>2, ReplaceStep DEF CollectFile
  <2>4. CASE CollectSubdir
    <3>1. CurEntry \in DirEntry
      BY <2>4, <2>2 DEF CollectSubdir, Entry, FileEntry
    <3>2. /\ CollectFrameOf(CurEntry, Top.into) \in Frame
          /\ CollectFrameOf(CurEntry, Top.into).label = CurEntry.name
      BY <3>1, <2>2, CollectFrameType DEF CollectFrameOf, CollectFrame
    <3>3. QED
      BY <2>4, <2>2, <3>2, PushStep DEF CollectSubdir
  <2>5. QED
    BY <1>6, <2>3, <2>4
<1>7. CASE CollectReturn
  BY <1>7, PopStep DEF CollectReturn
<1>8. CASE CollectDone
  <2>1. Len(stack) > 1 /\ stack[Len(stack) - 1].kind = "diff"
    BY <1>8 DEF CollectDone
  <2>2. stack[Len(stack) - 1] \in DiffFrame
    BY <2>1 DEF TypeOK, Frame, CollectFrame
  <2>3. /\ [stack[Len(stack) - 1] EXCEPT !.pend = << >>] \in Frame
        /\ [stack[Len(stack) - 1] EXCEPT !.pend = << >>].label
             = stack[Len(stack) - 1].label
    BY <2>2, PendClearType DEF Frame, DiffFrame
  <2>4. /\ stack' = [Front(stack) EXCEPT ![Len(stack) - 1] =
                       [stack[Len(stack) - 1] EXCEPT !.pend = << >>]]
        /\ path' = Front(path)
    BY <1>8 DEF CollectDone
  <2>5. QED
    BY <2>1, <2>3, <2>4, CollectDoneStep
<1>9. CASE UNCHANGED vars
  BY <1>9 DEF vars, PathInv, LabelsOf
<1>10. QED
  BY <1>1, <1>2, <1>3, <1>4, <1>5, <1>6, <1>7, <1>8, <1>9 DEF Next

\* The path accumulator is in step with the call stack of collect_diff and
\* collect_files_inner in every reachable state, whatever the trees.
THEOREM PathDisciplineHolds == Spec => []PathDiscipline
<1>1. Init => TypeOK /\ PathInv
  BY TypeInit, PathInit
<1>2. TypeOK /\ PathInv /\ [Next]_vars => (TypeOK /\ PathInv)'
  BY TypeStep, PathStep
<1>3. TypeOK /\ PathInv => PathDiscipline
  BY DEF PathInv, PathDiscipline, LabelsOf
<1>4. QED
  BY <1>1, <1>2, <1>3, PTL DEF Spec

=============================================================================
