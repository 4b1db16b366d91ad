---------------------------- MODULE DiffAggregate ----------------------------
(***************************************************************************)
(* The Diff aggregate of radicle-surf (src/radicle-surf/src/diff.rs): the  *)
(* five lists of Diff, its append-only builders add_created_file,          *)
(* add_deleted_file, add_modified_file, add_modified_binary_file,          *)
(* add_moved_file and add_copied_file, and Diff::stats().                  *)
(*                                                                         *)
(* A line of a hunk is its LineDiff variant; the line text, numbers and    *)
(* the hunk header do not enter stats() and are left out.  The hunks a     *)
(* builder receives come from small constant sets: HunksIn is what a       *)
(* modified file may carry, and a created (deleted) file is Binary or      *)
(* carries only additions (deletions), as a patch of an added (deleted)    *)
(* file does.                                                              *)
(***************************************************************************)
EXTENDS Naturals, Sequences, FiniteSets

CONSTANTS
  Paths,     \* file paths
  HunksIn,   \* the Vec<Hunk> values a caller passes, as sequences of hunks
  MaxFiles   \* bound on the number of builder calls

LineKinds == {"Addition", "Deletion", "Context"}
Hunk == Seq(LineKinds)
Eof == {"OldMissing", "NewMissing", "BothMissing", "None"}
FileDiff == [type : {"binary"}] \cup [type : {"plain"}, hunks : Seq(Hunk)]
ChangeFile == [path : Paths, diff : FileDiff]
ModifiedFile == [path : Paths, diff : FileDiff, eof : Eof]
PathPair == [old_path : Paths, new_path : Paths]

ASSUME AggregateAssumption ==
  /\ HunksIn \subseteq Seq(Hunk)
  /\ MaxFiles \in Nat

\* The hunks of an added (deleted) file: those of HunksIn with additions
\* (deletions) only.
\* A created or deleted file's FileDiff is Binary or Plain with such hunks.
OnlyOf(k) == { hs \in HunksIn : \A i \in 1..Len(hs) : \A j \in 1..Len(hs[i]) : hs[i][j] = k }
DiffsOf(k) == {[type |-> "binary"]} \cup {[type |-> "plain", hunks |-> hs] : hs \in OnlyOf(k)}

VARIABLES created, deleted, moved, copied, modified

vars == <<created, deleted, moved, copied, modified>>

\* Diff::new(): five empty Vecs.
Init ==
  /\ created = << >> /\ deleted = << >> /\ moved = << >>
  /\ copied = << >> /\ modified = << >>

Calls == Len(created) + Len(deleted) + Len(moved) + Len(copied) + Len(modified)
Room == Calls < MaxFiles
-----------------------------------------------------------------------------
\* add_created_file(path, diff) / add_deleted_file(path, diff).
AddCreatedFile(p, d) ==
  /\ Room
  /\ created' = Append(created, [path |-> p, diff |-> d])
  /\ UNCHANGED <<deleted, moved, copied, modified>>

AddDeletedFile(p, d) ==
  /\ Room
  /\ deleted' = Append(deleted, [path |-> p, diff |-> d])
  /\ UNCHANGED <<created, moved, copied, modified>>

\* add_modified_file(path, hunks, eof): FileDiff::Plain with the hunks.
AddModifiedFile(p, hs, e) ==
  /\ Room
  /\ modified' = Append(modified, [path |-> p, diff |-> [type |-> "plain", hunks |-> hs], eof |-> e])
  /\ UNCHANGED <<created, deleted, moved, copied>>

\* Mutant: the binary ModifiedFile is pushed without its eof field.
AddModifiedBinaryFileNoEof(p) ==
  /\ Room
  /\ modified' = Append(modified, [path |-> p, diff |-> [type |-> "binary"]])
  /\ UNCHANGED <<created, deleted, moved, copied>>

\* add_modified_binary_file(path): FileDiff::Binary, eof None.
AddModifiedBinaryFile(p) ==
  /\ Room
  /\ modified' = Append(modified, [path |-> p, diff |-> [type |-> "binary"], eof |-> "None"])
  /\ UNCHANGED <<created, deleted, moved, copied>>

\* add_moved_file(old, new) / add_copied_file(old, new).
AddMovedFile(o, n) ==
  /\ Room
  /\ moved' = Append(moved, [old_path |-> o, new_path |-> n])
  /\ UNCHANGED <<created, deleted, copied, modified>>

AddCopiedFile(o, n) ==
  /\ Room
  /\ copied' = Append(copied, [old_path |-> o, new_path |-> n])
  /\ UNCHANGED <<created, deleted, moved, modified>>

Next ==
  \/ \E p \in Paths, d \in DiffsOf("Addition") : AddCreatedFile(p, d)
  \/ \E p \in Paths, d \in DiffsOf("Deletion") : AddDeletedFile(p, d)
  \/ \E p \in Paths, hs \in HunksIn, e \in Eof : AddModifiedFile(p, hs, e)
  \/ \E p \in Paths : AddModifiedBinaryFile(p)
  \/ \E o, n \in Paths : AddMovedFile(o, n) \/ AddCopiedFile(o, n)

Spec == Init /\ [][Next]_vars
-----------------------------------------------------------------------------
(***************************************************************************)
(* Diff::stats(): three loops, each over the hunks of the Plain files of   *)
(* one list and over their lines, adding one to a counter per matching     *)
(* line.  A counter ends as the number of line positions its loops matched: *)
(* insertions counts the Addition lines of modified and of created files,  *)
(* deletions the Deletion lines of modified and of deleted files.  A        *)
(* position is (list, file, hunk, line), so the loops' positions are       *)
(* disjoint.                                                               *)
(***************************************************************************)
\* `if let FileDiff::Plain { ref hunks } = file.diff`: a Binary file has none.
Hs(d) == IF d.type = "binary" THEN << >> ELSE d.hunks

\* The positions of the lines of kind k in the files of list tag.
LinesIn(tag, files, k) ==
  UNION { UNION { { <<tag, i, j, l>> :
                     l \in { m \in 1..Len(Hs(files[i].diff)[j]) : Hs(files[i].diff)[j][m] = k } } :
                  j \in 1..Len(Hs(files[i].diff)) } :
          i \in 1..Len(files) }

\* Mutant: the created loop, copied from the deleted one, adds its Addition
\* lines to deletions.
StatsCreatedIntoDeletions ==
  [files_changed |-> Len(modified) + Len(created) + Len(deleted),
   insertions |-> Cardinality(LinesIn("modified", modified, "Addition")),
   deletions |-> Cardinality(LinesIn("modified", modified, "Deletion")
                               \cup LinesIn("created", created, "Addition")
                               \cup LinesIn("deleted", deleted, "Deletion"))]

Stats ==
  [files_changed |-> Len(modified) + Len(created) + Len(deleted),
   insertions |-> Cardinality(LinesIn("modified", modified, "Addition")
                                \cup LinesIn("created", created, "Addition")),
   deletions |-> Cardinality(LinesIn("modified", modified, "Deletion")
                               \cup LinesIn("deleted", deleted, "Deletion"))]
-----------------------------------------------------------------------------
\* The type invariant.
TypeOK ==
  /\ created \in Seq(ChangeFile) /\ deleted \in Seq(ChangeFile)
  /\ moved \in Seq(PathPair) /\ copied \in Seq(PathPair)
  /\ modified \in Seq(ModifiedFile)
  /\ Calls <= MaxFiles

\* The spec's statistics (sections 3 and 8): files_changed counts the
\* created, deleted and modified files; insertions (deletions) count the
\* Addition (Deletion) lines of every Plain FileDiff of the Diff, whichever
\* list it is in, Context lines never.
AllLines(k) ==
  LinesIn("created", created, k) \cup LinesIn("deleted", deleted, k)
    \cup LinesIn("modified", modified, k)
SpecStats ==
  [files_changed |-> Len(created) + Len(deleted) + Len(modified),
   insertions |-> Cardinality(AllLines("Addition")),
   deletions |-> Cardinality(AllLines("Deletion"))]

\* Stats consistency and line-count consistency: for every Diff the
\* builders can produce, stats() derives exactly the spec's counts, however
\* binary, moved and copied entries and context lines are interleaved.
StatsMatchSpec == Stats = SpecStats
=============================================================================
