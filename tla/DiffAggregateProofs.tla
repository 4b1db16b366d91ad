------------------------- MODULE DiffAggregateProofs -------------------------
(***************************************************************************)
(* Type correctness of the Diff builders, for every set of paths, every    *)
(* set of hunk lists and every bound on the number of calls.               *)
(***************************************************************************)
EXTENDS DiffAggregate, TLAPS

(***************************************************************************)
(* stats() counts only additions in created files and only deletions in    *)
(* deleted ones.  It agrees with the spec because the builders are given   *)
(* such files: the inductive invariant AInv records that every line of a   *)
(* created (deleted) file is an Addition (Deletion).                       *)
(***************************************************************************)
OnlyKind(files, k) ==
  \A i \in 1..Len(files) : \A j \in 1..Len(Hs(files[i].diff)) :
    \A l \in 1..Len(Hs(files[i].diff)[j]) : Hs(files[i].diff)[j][l] = k

Kinds == OnlyKind(created, "Addition") /\ OnlyKind(deleted, "Deletion")
AInv == TypeOK /\ Kinds

\* A FileDiff a created or deleted file is built with is a FileDiff.
LEMMA DiffsOfType ==
  ASSUME AggregateAssumption, NEW k \in LineKinds
  PROVE  DiffsOf(k) \subseteq FileDiff
BY DEF DiffsOf, OnlyOf, FileDiff, AggregateAssumption

\* Each builder appends one well-formed entry to one of the five Vecs and
\* keeps the others: every list of the Diff holds entries of its type, and
\* the builders never run past the bound on calls.
THEOREM AggregateTypeCorrect == Spec => []TypeOK
<1> USE AggregateAssumption
<1>1. Init => TypeOK
  BY DEF Init, TypeOK, Calls
<1>2. TypeOK /\ [Next]_vars => TypeOK'
  <2> SUFFICES ASSUME TypeOK, [Next]_vars PROVE TypeOK'
    OBVIOUS
  <2>1. ASSUME NEW p \in Paths, NEW d \in DiffsOf("Addition"), AddCreatedFile(p, d)
        PROVE  TypeOK'
    <3>1. [path |-> p, diff |-> d] \in ChangeFile
      BY DiffsOfType DEF ChangeFile, LineKinds
    <3> QED BY <2>1, <3>1 DEF AddCreatedFile, Room, TypeOK, Calls
  <2>2. ASSUME NEW p \in Paths, NEW d \in DiffsOf("Deletion"), AddDeletedFile(p, d)
        PROVE  TypeOK'
    <3>1. [path |-> p, diff |-> d] \in ChangeFile
      BY DiffsOfType DEF ChangeFile, LineKinds
    <3> QED BY <2>2, <3>1 DEF AddDeletedFile, Room, TypeOK, Calls
  <2>3. ASSUME NEW p \in Paths, NEW hs \in HunksIn, NEW e \in Eof, AddModifiedFile(p, hs, e)
        PROVE  TypeOK'
    <3>1. [path |-> p, diff |-> [type |-> "plain", hunks |-> hs], eof |-> e] \in ModifiedFile
      BY DEF ModifiedFile, FileDiff
    <3> QED BY <2>3, <3>1 DEF AddModifiedFile, Room, TypeOK, Calls
  <2>4. ASSUME NEW p \in Paths, AddModifiedBinaryFile(p) PROVE TypeOK'
    <3>1. [path |-> p, diff |-> [type |-> "binary"], eof |-> "None"] \in ModifiedFile
      BY DEF ModifiedFile, FileDiff, Eof
    <3> QED BY <2>4, <3>1 DEF AddModifiedBinaryFile, Room, TypeOK, Calls
  <2>5. ASSUME NEW o \in Paths, NEW n \in Paths, AddMovedFile(o, n) PROVE TypeOK'
    BY <2>5 DEF AddMovedFile, Room, TypeOK, Calls, PathPair
  <2>6. ASSUME NEW o \in Paths, NEW n \in Paths, AddCopiedFile(o, n) PROVE TypeOK'
    BY <2>6 DEF AddCopiedFile, Room, TypeOK, Calls, PathPair
  <2>7. CASE UNCHANGED vars
    BY <2>7 DEF vars, TypeOK, Calls
  <2> QED BY <2>1, <2>2, <2>3, <2>4, <2>5, <2>6, <2>7 DEF Next
<1> QED BY <1>1, <1>2, PTL DEF Spec
-----------------------------------------------------------------------------
\* A created (deleted) file is built with lines of one kind only.
LEMMA DiffsOfKind ==
  ASSUME NEW k, NEW d \in DiffsOf(k)
  PROVE  \A j \in 1..Len(Hs(d)) : \A l \in 1..Len(Hs(d)[j]) : Hs(d)[j][l] = k
<1>1. CASE d = [type |-> "binary"]
  BY <1>1 DEF Hs
<1>2. CASE d \in {[type |-> "plain", hunks |-> hs] : hs \in OnlyOf(k)}
  <2>1. PICK hs \in OnlyOf(k) : d = [type |-> "plain", hunks |-> hs]
    BY <1>2
  <2>2. Hs(d) = hs
    BY <2>1 DEF Hs
  <2> QED BY <2>1, <2>2 DEF OnlyOf
<1> QED BY <1>1, <1>2 DEF DiffsOf

\* Appending a file whose lines are all of kind k keeps a list of such files.
LEMMA OnlyKindAppend ==
  ASSUME NEW files \in Seq(ChangeFile), NEW k, OnlyKind(files, k),
         NEW p, NEW d, \A j \in 1..Len(Hs(d)) : \A l \in 1..Len(Hs(d)[j]) : Hs(d)[j][l] = k
  PROVE  OnlyKind(Append(files, [path |-> p, diff |-> d]), k)
<1> DEFINE nf == Append(files, [path |-> p, diff |-> d])
<1> SUFFICES ASSUME NEW i \in 1..Len(nf)
             PROVE  \A j \in 1..Len(Hs(nf[i].diff)) : \A l \in 1..Len(Hs(nf[i].diff)[j]) :
                      Hs(nf[i].diff)[j][l] = k
  BY DEF OnlyKind
<1>1. CASE i = Len(files) + 1
  <2>1. nf[i].diff = d
    BY <1>1
  <2> QED BY <2>1
<1>2. CASE i \in 1..Len(files)
  <2>1. nf[i] = files[i]
    BY <1>2
  <2> QED BY <1>2, <2>1 DEF OnlyKind
<1> QED BY <1>1, <1>2

\* A list whose lines are all of kind k has no line of another kind.
LEMMA NoLinesOfOtherKind ==
  ASSUME NEW tag, NEW files, NEW k, NEW k2, k # k2, OnlyKind(files, k)
  PROVE  LinesIn(tag, files, k2) = {}
BY DEF LinesIn, OnlyKind

\* Every builder keeps created files additions-only and deleted files
\* deletions-only.
LEMMA KindsStep == TypeOK /\ Kinds /\ [Next]_vars => Kinds'
<1> SUFFICES ASSUME TypeOK, Kinds, [Next]_vars PROVE Kinds'
  OBVIOUS
<1>1. ASSUME NEW p \in Paths, NEW d \in DiffsOf("Addition"), AddCreatedFile(p, d)
      PROVE  Kinds'
  <2>1. OnlyKind(created', "Addition")
    BY <1>1, DiffsOfKind, OnlyKindAppend DEF AddCreatedFile, Kinds, TypeOK
  <2> QED BY <1>1, <2>1 DEF AddCreatedFile, Kinds
<1>2. ASSUME NEW p \in Paths, NEW d \in DiffsOf("Deletion"), AddDeletedFile(p, d)
      PROVE  Kinds'
  <2>1. OnlyKind(deleted', "Deletion")
    BY <1>2, DiffsOfKind, OnlyKindAppend DEF AddDeletedFile, Kinds, TypeOK
  <2> QED BY <1>2, <2>1 DEF AddDeletedFile, Kinds
<1>3. UNCHANGED <<created, deleted>> => Kinds'
  BY DEF Kinds, OnlyKind
<1> QED BY <1>1, <1>2, <1>3
        DEF Next, AddModifiedFile, AddModifiedBinaryFile, AddMovedFile, AddCopiedFile, vars

\* With only additions in created files and only deletions in deleted
\* ones, stats()'s three loops match the spec's count over every file.
LEMMA StatsFromKinds == TypeOK /\ Kinds => StatsMatchSpec
<1> SUFFICES ASSUME TypeOK, Kinds PROVE Stats = SpecStats
  BY DEF StatsMatchSpec
<1>1. LinesIn("deleted", deleted, "Addition") = {}
  BY NoLinesOfOtherKind DEF Kinds
<1>2. LinesIn("created", created, "Deletion") = {}
  BY NoLinesOfOtherKind DEF Kinds
<1>3. AllLines("Addition") = LinesIn("modified", modified, "Addition")
                               \cup LinesIn("created", created, "Addition")
  BY <1>1 DEF AllLines
<1>4. AllLines("Deletion") = LinesIn("modified", modified, "Deletion")
                               \cup LinesIn("deleted", deleted, "Deletion")
  BY <1>2 DEF AllLines
<1>5. Len(modified) + Len(created) + Len(deleted) = Len(created) + Len(deleted) + Len(modified)
  BY DEF TypeOK
<1> QED BY <1>3, <1>4, <1>5 DEF Stats, SpecStats

\* Diff::stats() returns the spec's statistics for every Diff the builders
\* can produce, for every set of paths, hunk lists and call bound: its
\* per-list loops (created: additions, deleted: deletions, modified: both)
\* count exactly the Addition and Deletion lines of all Plain files.
THEOREM StatsMatchSpecHolds == Spec => []StatsMatchSpec
<1>1. Init => Kinds
  BY DEF Init, Kinds, OnlyKind
<1>2. Spec => []TypeOK
  BY AggregateTypeCorrect
<1> QED BY <1>1, <1>2, KindsStep, StatsFromKinds, PTL DEF Spec
=============================================================================
