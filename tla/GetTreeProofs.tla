---------------------------- MODULE GetTreeProofs ----------------------------
(***************************************************************************)
(* Proofs about get_tree for every git tree table: the walk and the        *)
(* callback keep their types, and file_paths_or_error only accumulates.    *)
(***************************************************************************)
EXTENDS GetTree, TLAPS

(***************************************************************************)
(* TypeOK is not inductive: Top is only defined while the walk stack is    *)
(* non-empty, and updating the files of fpe (a record EXCEPT) needs fpe to *)
(* be exactly a record with the fields of its kind.  The accumulation     *)
(* property also needs that the callback has latched nothing while the     *)
(* walk runs: a latch ends it.                                             *)
(***************************************************************************)
GInv ==
  /\ TypeOK
  /\ pc = "walk" => stack # << >>
  /\ pc # "done" => fpe.kind = "Ok"
  /\ fpe.kind = "Ok" => fpe = [kind |-> "Ok", files |-> fpe.files]

-----------------------------------------------------------------------------
\* tree_entry_to_file_and_path returns Ok only for a blob, and NotBlob
\* only for a subtree, whatever the walk path.
LEMMA OutcomeKind ==
  ASSUME NEW f \in Frame, NEW e \in Entry
  PROVE  /\ Outcome(f, e) = "Ok" => e \in BlobEntry
         /\ Outcome(f, e) = "NotBlob" => e \in TreeEntry
<1>1. CASE e \in BlobEntry
  BY <1>1 DEF Outcome, BlobEntry
<1>2. CASE e \in TreeEntry
  BY <1>2 DEF Outcome, TreeEntry
<1>3. CASE e \in CommitEntry
  <2>1. e.kind = "commit"
    BY <1>3 DEF CommitEntry
  <2> QED BY <2>1 DEF Outcome
<1> QED BY <1>1, <1>2, <1>3 DEF Entry

\* Moving the cursor of the top frame keeps a walk stack a walk stack and
\* changes nothing but that cursor.
LEMMA AdvanceFrame ==
  ASSUME NEW s \in Seq(Frame), s # << >>
  PROVE  /\ Advance(s) \in Seq(Frame)
         /\ Len(Advance(s)) = Len(s)
         /\ Advance(s)[Len(s)] = Bump(s[Len(s)])
         /\ \A k \in 1..Len(s) - 1 : Advance(s)[k] = s[k]
<1> DEFINE n == Len(s)
<1>1. n \in Nat \ {0}
  OBVIOUS
<1>2. s[n] \in Frame
  BY <1>1
<1>3. Bump(s[n]) \in Frame
  BY <1>2 DEF Frame, Pos, Bump
<1> QED BY <1>1, <1>3 DEF Advance

\* update_file_map keeps a map of non-empty NonEmpty values, and keeps
\* every path and its files already recorded at the front.
LEMMA UpdateFileMapGrows ==
  ASSUME NEW f, IsFileMap(f), NEW p \in Path, NEW r \in FileRec
  PROVE  /\ IsFileMap(UpdateFileMap(f, p, r))
         /\ \A q \in DOMAIN f : /\ q \in DOMAIN UpdateFileMap(f, p, r)
                                /\ IsPrefix(f[q], UpdateFileMap(f, p, r)[q])
<1>1. IsFileMap(UpdateFileMap(f, p, r))
  BY DEF IsFileMap, UpdateFileMap
<1>2. ASSUME NEW q \in DOMAIN f
      PROVE  /\ q \in DOMAIN UpdateFileMap(f, p, r)
             /\ IsPrefix(f[q], UpdateFileMap(f, p, r)[q])
  <2>1. f[q] \in Seq(FileRec)
    BY DEF IsFileMap
  <2>2. CASE q = p
    BY <2>1, <2>2 DEF UpdateFileMap, IsPrefix
  <2>3. CASE q # p
    BY <2>1, <2>3 DEF UpdateFileMap, IsPrefix
  <2> QED BY <2>2, <2>3
<1> QED BY <1>1, <1>2

\* A count above one has a positive predecessor.
LEMMA NatPred == ASSUME NEW n \in Nat, n > 1 PROVE n - 1 \in Nat \ {0}
OBVIOUS

\* Popping the top of a stack of two or more frames leaves a non-empty stack.
LEMMA PopFrame ==
  ASSUME NEW S, NEW s \in Seq(S), Len(s) > 1
  PROVE  SubSeq(s, 1, Len(s) - 1) \in Seq(S) /\ SubSeq(s, 1, Len(s) - 1) # << >>
<1>1. Len(s) - 1 \in Nat \ {0}
  <2>1. Len(s) \in Nat
    OBVIOUS
  <2> QED BY <2>1, NatPred, Zenon
<1>2. Len(SubSeq(s, 1, Len(s) - 1)) = Len(s) - 1 /\ Len(<< >>) = 0
  OBVIOUS
<1>3. SubSeq(s, 1, Len(s) - 1) # << >>
  BY <1>1, <1>2, Zenon
<1>4. SubSeq(s, 1, Len(s) - 1) \in Seq(S)
  OBVIOUS
<1> QED BY <1>3, <1>4

\* The entry under the cursor of a walked tree is an entry of that tree.
LEMMA CurEntry ==
  ASSUME TreeAssumption, stack \in Seq(Frame), stack # << >>,
         Top.i <= Len(Tree[Top.tree])
  PROVE  Top \in Frame /\ Cur \in Entry
<1>1. Top \in Frame
  BY DEF Top
<1>2. Tree[Top.tree] \in Seq(Entry)
  BY <1>1 DEF Frame
<1> QED BY <1>1, <1>2 DEF Cur, Frame, Pos
-----------------------------------------------------------------------------
\* Every step of get_tree keeps GInv: the callback's arms, libgit2's
\* descent and ascent, the latch and the end of the walk.
LEMMA GInvInductive == Spec => []GInv
<1> USE TreeAssumption
<1>1. Init => GInv
  BY DEF Init, GInv, TypeOK, IsFileMap, Errors
<1>2. GInv /\ [Next]_vars => GInv'
  <2> SUFFICES ASSUME GInv, [Next]_vars PROVE GInv'
    OBVIOUS
  <2>0. TypeOK
    BY DEF GInv
  <2>1. CASE LoadRoot
    BY <2>0, <2>1 DEF LoadRoot, GInv, TypeOK, Frame, Pos, Path
  <2>2. CASE LoadFail
    BY <2>0, <2>2 DEF LoadFail, GInv, TypeOK, Errors
  <2>3. CASE AddFile
    <3>1. stack # << >> /\ Top \in Frame /\ Cur \in BlobEntry
      BY <2>0, <2>3, CurEntry, OutcomeKind DEF AddFile, InTree, GInv, TypeOK
    <3>2. [name |-> Cur.name, file |-> Cur.file] \in FileRec
      BY <3>1 DEF BlobEntry, FileRec
    <3>3. Advance(stack) \in Seq(Frame) /\ Advance(stack) # << >>
      BY <2>0, <3>1, AdvanceFrame DEF TypeOK
    <3>4. CASE fpe.kind = "Ok"
      <4> DEFINE nf == UpdateFileMap(fpe.files, Top.path, [name |-> Cur.name, file |-> Cur.file])
      <4>1. fpe' = [kind |-> "Ok", files |-> nf]
        BY <2>3, <3>4 DEF AddFile, GInv
      <4>2. IsFileMap(nf)
        BY <2>0, <3>1, <3>2, <3>4, UpdateFileMapGrows DEF TypeOK, Frame
      <4> QED BY <2>0, <2>3, <3>3, <4>1, <4>2 DEF AddFile, GInv, TypeOK
    <3>5. CASE fpe.kind # "Ok"
      BY <2>0, <2>3, <3>3, <3>5 DEF AddFile, GInv, TypeOK
    <3> QED BY <3>4, <3>5
  <2>4. CASE SkipCommit
    <3>1. stack # << >> /\ Advance(stack) \in Seq(Frame) /\ Advance(stack) # << >>
      BY <2>0, <2>4, AdvanceFrame DEF SkipCommit, InTree, TypeOK
    <3> QED BY <2>0, <2>4, <3>1 DEF SkipCommit, GInv, TypeOK
  <2>5. CASE Descend
    <3>1. stack # << >> /\ Top \in Frame /\ Cur \in TreeEntry
      BY <2>0, <2>5, CurEntry, OutcomeKind DEF Descend, InTree, GInv, TypeOK
    <3>2. [tree |-> Cur.sub, i |-> 1, path |-> Append(Top.path, Cur.name),
           pathOk |-> Top.pathOk /\ Cur.nameOk] \in Frame
      BY <3>1 DEF Frame, TreeEntry, Pos, Path
    <3>3. Advance(stack) \in Seq(Frame)
      BY <2>0, <3>1, AdvanceFrame DEF TypeOK
    <3> QED BY <2>0, <2>5, <3>2, <3>3 DEF Descend, GInv, TypeOK
  <2>6. CASE Latch
    <3>1. stack # << >> /\ Top \in Frame /\ Cur \in Entry
      BY <2>0, <2>6, CurEntry DEF Latch, InTree, GInv, TypeOK
    <3>2. Cur.name \in Names /\ Top.path \in Path
      BY <3>1 DEF Entry, BlobEntry, TreeEntry, CommitEntry, Frame
    <3> QED BY <2>0, <2>6, <3>2 DEF Latch, GInv, TypeOK, EntryError, Errors
  <2>7. CASE Ascend
    <3>1. Len(stack) > 1 /\ stack \in Seq(Frame)
      BY <2>0, <2>7 DEF Ascend, TypeOK
    <3>2. SubSeq(stack, 1, Len(stack) - 1) \in Seq(Frame)
          /\ SubSeq(stack, 1, Len(stack) - 1) # << >>
      BY <3>1, PopFrame
    <3> QED BY <2>0, <2>7, <3>2 DEF Ascend, GInv, TypeOK
  <2>8. CASE WalkDone
    <3>1. fpe.kind = "Err" => fpe.err \in Errors
      BY <2>0 DEF TypeOK, Errors
    <3> QED BY <2>0, <2>8, <3>1 DEF WalkDone, GInv, TypeOK
  <2>9. CASE UNCHANGED vars
    BY <2>9 DEF vars, GInv, TypeOK
  <2> QED BY <2>1, <2>2, <2>3, <2>4, <2>5, <2>6, <2>7, <2>8, <2>9 DEF Next
<1> QED BY <1>1, <1>2, PTL DEF Spec

\* get_tree's walk stack, callback state and result keep their types: the
\* walk stack holds frames of trees of the table, file_paths_or_error is a
\* map of non-empty NonEmpty values or an entry's error, and the result is
\* such a map or one of get_tree's errors.
THEOREM GetTreeTypeCorrect == Spec => []TypeOK
<1>1. GInv => TypeOK
  BY DEF GInv
<1> QED BY <1>1, GInvInductive, PTL

\* One step of get_tree keeps every path and file already in the map, and
\* keeps a latched error.
LEMMA AccumulatesStep ==
  GInv /\ [Next]_vars =>
    [/\ fpe.kind = "Err" => fpe' = fpe
     /\ fpe.kind = "Ok" /\ fpe'.kind = "Ok" =>
          \A p \in DOMAIN fpe.files :
            p \in DOMAIN fpe'.files /\ IsPrefix(fpe.files[p], fpe'.files[p])]_vars
<1> SUFFICES ASSUME GInv, [Next]_vars
             PROVE  /\ fpe.kind = "Err" => fpe' = fpe
                    /\ fpe.kind = "Ok" /\ fpe'.kind = "Ok" =>
                         \A p \in DOMAIN fpe.files :
                           p \in DOMAIN fpe'.files /\ IsPrefix(fpe.files[p], fpe'.files[p])
  OBVIOUS
<1>1. CASE AddFile
  <2>1. pc = "walk" /\ fpe.kind = "Ok"
    BY <1>1 DEF AddFile, InTree, GInv
  <2>2. stack # << >> /\ Top \in Frame /\ Cur \in BlobEntry
    BY <1>1, <2>1, CurEntry, OutcomeKind, TreeAssumption DEF AddFile, InTree, GInv, TypeOK
  <2>3. [name |-> Cur.name, file |-> Cur.file] \in FileRec /\ Top.path \in Path
    BY <2>2 DEF BlobEntry, FileRec, Frame
  <2> DEFINE nf == UpdateFileMap(fpe.files, Top.path, [name |-> Cur.name, file |-> Cur.file])
  <2>4. fpe' = [kind |-> "Ok", files |-> nf]
    BY <1>1, <2>1 DEF AddFile, GInv
  <2>5. IsFileMap(fpe.files)
    BY <2>1 DEF GInv, TypeOK
  <2> QED BY <2>1, <2>3, <2>4, <2>5, UpdateFileMapGrows
<1>2. CASE fpe' = fpe
  <2>1. ASSUME fpe.kind = "Ok", NEW p \in DOMAIN fpe.files
        PROVE  IsPrefix(fpe.files[p], fpe.files[p])
    <3>1. fpe.files[p] \in Seq(FileRec)
      BY <2>1 DEF GInv, TypeOK, IsFileMap
    <3> QED BY <3>1 DEF IsPrefix
  <2> QED BY <1>2, <2>1
<1>3. CASE Latch
  BY <1>3 DEF Latch, InTree, GInv
<1> QED BY <1>1, <1>2, <1>3
        DEF Next, LoadRoot, LoadFail, SkipCommit, Descend, Ascend, WalkDone, vars

\* The HashMap get_tree builds never loses what update_file_map put into
\* it (no path dropped, no NonEmpty shortened or reordered), and the error
\* the callback latches is never overwritten.
THEOREM FileMapAccumulatesHolds == Spec => FileMapAccumulates
<1>1. Spec => []GInv
  BY GInvInductive
<1>2. Spec => [][Next]_vars
  BY PTL DEF Spec
<1> QED BY <1>1, <1>2, AccumulatesStep, PTL DEF FileMapAccumulates
=============================================================================
