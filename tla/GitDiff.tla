------------------------------- MODULE GitDiff -------------------------------
(***************************************************************************)
(* The content-diff adapter of radicle-surf: TryFrom<git2::Diff> for Diff, *)
(* the per-delta helpers created/deleted/modified/renamed/copied,         *)
(* DiffContent::try_from(git2::Patch) and Modification::try_from(DiffLine) *)
(* (src/radicle-surf/src/diff/git.rs).                                     *)
(*                                                                         *)
(* The git2::Diff is an input: a sequence of deltas, each with a status,   *)
(* its two optional paths, the outcome of Patch::from_diff (a patch, no    *)
(* patch, or a git error) and the binary flag of the file.  A patch is a   *)
(* sequence of hunks, a hunk a sequence of native line records: an origin  *)
(* and two optional line numbers.  Fetching a hunk or a line from git2 may *)
(* fail; a line with origin "FetchError" stands for either failure (both   *)
(* abort the whole conversion in the same way).  Line contents and hunk    *)
(* headers are copied verbatim and abstracted away.  The conversion is a   *)
(* state machine: one step per delta of the outer loop and one per hunk    *)
(* end or line of the inner loops of DiffContent::try_from.                *)
(***************************************************************************)
EXTENDS Naturals, Sequences

CONSTANTS
  Paths,    \* file paths
  Nums,     \* line numbers
  Inputs,   \* the git2::Diff values (sequences of deltas) to convert
  NoValue   \* None (a missing path or line number; an unset field)

DeltaStatus ==
  {"Added", "Deleted", "Modified", "Renamed", "Copied", "Unmodified", "Typechange"}
Markers == {"ContextEOFNL", "AddEOFNL", "DeleteEOFNL"}
Origins == {"Line", "FetchError"} \cup Markers
NumOpt == Nums \cup {NoValue}
LineRec == [origin : Origins, old : NumOpt, new : NumOpt]
Patch == Seq(Seq(LineRec))
\* from_diff: the outcome of Patch::from_diff, Ok(Some(patch)), Ok(None) or a
\* git error; patch is the patch of the Some case (empty otherwise).
Delta == [status : DeltaStatus, old : Paths \cup {NoValue}, new : Paths \cup {NoValue},
          from_diff : {"Some", "None", "Error"}, patch : Patch, binary : BOOLEAN]

ASSUME InputsAssumption ==
  /\ Inputs \subseteq Seq(Delta)
  /\ NoValue \notin Nums /\ NoValue \notin Paths

LineDiff == [kind : {"Addition", "Deletion"}, num : Nums]
              \cup [kind : {"Context"}, old : Nums, new : Nums]
EofKinds == {"OldMissing", "NewMissing", "BothMissing", "NoneMissing"}
\* None is neither a line of a hunk nor the stats of a diff.
ASSUME NoValueAssumption == NoValue \notin LineDiff \cup [files_changed : Nat]

Content == [kind : {"Binary"}] \cup [kind : {"Plain"}, hunks : Seq(Seq(LineDiff)), eof : EofKinds]
Entry == [path : Paths, content : Content] \cup [old : Paths, new : Paths]
Lists == {"created", "deleted", "modified", "moved", "copied"}
Errors == {"Git", "PathUnavailable", "PatchUnavailable", "DeltaUnhandled", "Invalid"}

VARIABLES
  deltas,   \* git_diff.deltas()
  pc,       \* "stats", "delta", "patch", then "done" (Ok) or "failed" (Err)
  idx,      \* the delta being converted (1-based enumerate index)
  out,      \* the Diff being built: its five lists
  stats,    \* diff.stats, NoValue until set
  h, l,     \* hunk and line cursors of DiffContent::try_from
  hunks,    \* its Vec of finished hunks
  lines,    \* the lines of the hunk being scanned
  oldEof,   \* old_missing_eof
  newEof,   \* new_missing_eof
  err       \* the error returned, NoValue while none

vars == <<deltas, pc, idx, out, stats, h, l, hunks, lines, oldEof, newEof, err>>

Init ==
  /\ deltas \in Inputs
  /\ pc = "stats"
  /\ idx = 1
  /\ out = [k \in Lists |-> << >>]
  /\ stats = NoValue
  /\ h = 1 /\ l = 1 /\ hunks = << >> /\ lines = << >>
  /\ oldEof = FALSE /\ newEof = FALSE
  /\ err = NoValue
-----------------------------------------------------------------------------
\* The ? operator: the conversion returns Err(e); the Diff is dropped.
Fail(e) ==
  /\ pc' = "failed" /\ err' = e
  /\ UNCHANGED <<deltas, idx, out, stats, h, l, hunks, lines, oldEof, newEof>>

\* diff.stats = git_diff.stats()?.into(): libgit2 counts every delta as a
\* changed file (git_diff_get_stats sets files_changed to the delta count).
GetStats ==
  /\ pc = "stats"
  /\ stats' = [files_changed |-> Len(deltas)]
  /\ pc' = "delta"
  /\ UNCHANGED <<deltas, idx, out, h, l, hunks, lines, oldEof, newEof, err>>

\* git_diff.stats() returns a git error.
StatsFail ==
  /\ pc = "stats"
  /\ Fail("Git")

Cur == deltas[idx]
InDelta == pc = "delta" /\ idx <= Len(deltas)

\* diff.insert_added / insert_deleted / insert_modified / insert_moved /
\* insert_copied: append to one list of the Diff.
Insert(k, e) == out' = [out EXCEPT ![k] = Append(@, e)]

FileStatuses == {"Added", "Deleted", "Modified"}
\* Mutant: every file delta takes the new file's path.
FilePathAlwaysNew(d) == d.new

\* created/modified take the new file's path, deleted the old file's.
FilePath(d) == IF d.status = "Deleted" THEN d.old ELSE d.new
TargetList(d) ==
  CASE d.status = "Added" -> "created"
    [] d.status = "Deleted" -> "deleted"
    [] d.status = "Modified" -> "modified"

\* created/deleted/modified: the file's path is missing.
PathMissing ==
  /\ InDelta /\ Cur.status \in FileStatuses
  /\ FilePath(Cur) = NoValue
  /\ Fail("PathUnavailable")

\* git2::Patch::from_diff(git_diff, idx)? fails.
PatchFail ==
  /\ InDelta /\ Cur.status \in FileStatuses
  /\ FilePath(Cur) # NoValue
  /\ Cur.from_diff = "Error"
  /\ Fail("Git")

\* Some(patch): DiffContent::try_from(patch) starts with empty hunks and
\* both EOF flags false.
StartPatch ==
  /\ InDelta /\ Cur.status \in FileStatuses
  /\ FilePath(Cur) # NoValue
  /\ Cur.from_diff = "Some"
  /\ pc' = "patch"
  /\ h' = 1 /\ l' = 1 /\ hunks' = << >> /\ lines' = << >>
  /\ oldEof' = FALSE /\ newEof' = FALSE
  /\ UNCHANGED <<deltas, idx, out, stats, err>>

\* No patch for a binary file: DiffContent::Binary is inserted.
InsertBinary ==
  /\ InDelta /\ Cur.status \in FileStatuses
  /\ FilePath(Cur) # NoValue
  /\ Cur.from_diff = "None" /\ Cur.binary
  /\ Insert(TargetList(Cur), [path |-> FilePath(Cur), content |-> [kind |-> "Binary"]])
  /\ idx' = idx + 1
  /\ UNCHANGED <<deltas, pc, stats, h, l, hunks, lines, oldEof, newEof, err>>

\* No patch for a text file: PatchUnavailable.
NoPatch ==
  /\ InDelta /\ Cur.status \in FileStatuses
  /\ FilePath(Cur) # NoValue
  /\ Cur.from_diff = "None" /\ ~Cur.binary
  /\ Fail("PatchUnavailable")

\* renamed/copied: both paths are required, the old one is read first.
PairMissing ==
  /\ InDelta /\ Cur.status \in {"Renamed", "Copied"}
  /\ Cur.old = NoValue \/ Cur.new = NoValue
  /\ Fail("PathUnavailable")

PairList(d) == IF d.status = "Renamed" THEN "moved" ELSE "copied"

\* renamed/copied: insert_moved / insert_copied with the two paths.
InsertPair ==
  /\ InDelta /\ Cur.status \in {"Renamed", "Copied"}
  /\ Cur.old # NoValue /\ Cur.new # NoValue
  /\ Insert(PairList(Cur), [old |-> Cur.old, new |-> Cur.new])
  /\ idx' = idx + 1
  /\ UNCHANGED <<deltas, pc, stats, h, l, hunks, lines, oldEof, newEof, err>>

\* Any other status: DeltaUnhandled.
Unhandled ==
  /\ InDelta
  /\ Cur.status \notin FileStatuses \cup {"Renamed", "Copied"}
  /\ Fail("DeltaUnhandled")

\* The loop over the deltas ends: Ok(diff).
AllDone ==
  /\ pc = "delta" /\ idx > Len(deltas)
  /\ pc' = "done"
  /\ UNCHANGED <<deltas, idx, out, stats, h, l, hunks, lines, oldEof, newEof, err>>
-----------------------------------------------------------------------------
P == Cur.patch
InLine == pc = "patch" /\ h <= Len(P) /\ l <= Len(P[h])
Rec == P[h][l]

\* Modification::try_from(DiffLine): classification by the two line numbers;
\* NoValue for (None, None), which is Err(Invalid).
ModificationOf(r) ==
  IF r.old = NoValue /\ r.new # NoValue THEN [kind |-> "Addition", num |-> r.new]
  ELSE IF r.old # NoValue /\ r.new = NoValue THEN [kind |-> "Deletion", num |-> r.old]
  ELSE IF r.old # NoValue /\ r.new # NoValue
       THEN [kind |-> "Context", old |-> r.old, new |-> r.new]
  ELSE NoValue

\* A "no newline at end of file" marker sets its flags and is skipped.
MarkerLine ==
  /\ InLine /\ Rec.origin \in Markers
  /\ oldEof' = (oldEof \/ Rec.origin \in {"ContextEOFNL", "AddEOFNL"})
  /\ newEof' = (newEof \/ Rec.origin \in {"ContextEOFNL", "DeleteEOFNL"})
  /\ l' = l + 1
  /\ UNCHANGED <<deltas, pc, idx, out, stats, h, hunks, lines, err>>

\* patch.hunk(h)? or patch.line_in_hunk(h, l)? fails.
LineFetchFail ==
  /\ InLine /\ Rec.origin = "FetchError"
  /\ Fail("Git")

\* Mutant: the classification result is pushed unchecked.
PushLineUnchecked ==
  /\ InLine /\ Rec.origin = "Line"
  /\ lines' = Append(lines, ModificationOf(Rec))
  /\ l' = l + 1
  /\ UNCHANGED <<deltas, pc, idx, out, stats, h, hunks, oldEof, newEof, err>>

\* An ordinary line is classified and pushed.
PushLine ==
  /\ InLine /\ Rec.origin = "Line"
  /\ ModificationOf(Rec) # NoValue
  /\ lines' = Append(lines, ModificationOf(Rec))
  /\ l' = l + 1
  /\ UNCHANGED <<deltas, pc, idx, out, stats, h, hunks, oldEof, newEof, err>>

\* A line with neither line number: Err(Invalid) aborts the conversion.
InvalidLine ==
  /\ InLine /\ Rec.origin = "Line"
  /\ ModificationOf(Rec) = NoValue
  /\ Fail("Invalid")

\* Mutant: the EOF flags are declared inside the hunk loop.
EndHunkResetEof ==
  /\ pc = "patch" /\ h <= Len(P) /\ l > Len(P[h])
  /\ hunks' = Append(hunks, lines)
  /\ lines' = << >>
  /\ h' = h + 1 /\ l' = 1
  /\ oldEof' = FALSE /\ newEof' = FALSE
  /\ UNCHANGED <<deltas, pc, idx, out, stats, err>>

\* The lines of hunk h are done: hunks.push(Hunk { header, lines }).
EndHunk ==
  /\ pc = "patch" /\ h <= Len(P) /\ l > Len(P[h])
  /\ hunks' = Append(hunks, lines)
  /\ lines' = << >>
  /\ h' = h + 1 /\ l' = 1
  /\ UNCHANGED <<deltas, pc, idx, out, stats, oldEof, newEof, err>>

\* The four-way EOF table of DiffContent::try_from.
EofOf(o, n) ==
  CASE o /\ n -> "BothMissing"
    [] o /\ ~n -> "OldMissing"
    [] ~o /\ n -> "NewMissing"
    [] ~o /\ ~n -> "NoneMissing"

\* All hunks are done: Ok(DiffContent::Plain { hunks, eof }) is inserted by
\* created/deleted/modified, and the delta loop continues.
EndPatch ==
  /\ pc = "patch" /\ h > Len(P)
  /\ Insert(TargetList(Cur),
            [path |-> FilePath(Cur), content |-> [kind |-> "Plain", hunks |-> hunks, eof |-> EofOf(oldEof, newEof)]])
  /\ pc' = "delta"
  /\ idx' = idx + 1
  /\ UNCHANGED <<deltas, stats, h, l, hunks, lines, oldEof, newEof, err>>

Next ==
  \/ GetStats \/ StatsFail
  \/ PathMissing \/ PatchFail \/ StartPatch \/ InsertBinary \/ NoPatch
  \/ PairMissing \/ InsertPair \/ Unhandled \/ AllDone
  \/ MarkerLine \/ LineFetchFail \/ PushLine \/ InvalidLine \/ EndHunk \/ EndPatch

Spec == Init /\ [][Next]_vars

-----------------------------------------------------------------------------
\* Type invariant.
TypeOK ==
  /\ deltas \in Seq(Delta)
  /\ pc \in {"stats", "delta", "patch", "done", "failed"}
  /\ idx \in 1..Len(deltas) + 1
  /\ out \in [Lists -> Seq(Entry)]
  /\ stats \in {NoValue} \cup [files_changed : Nat]
  /\ h \in Nat \ {0} /\ l \in Nat \ {0}
  /\ hunks \in Seq(Seq(LineDiff)) /\ lines \in Seq(LineDiff)
  /\ oldEof \in BOOLEAN /\ newEof \in BOOLEAN
  /\ err \in Errors \cup {NoValue}

(***************************************************************************)
(* The reference conversion, written from section 4.3 of the spec: what   *)
(* one delta must become, or the error it must fail with.  Where the spec  *)
(* keeps some elements of a sequence in order (the ordinary lines of a     *)
(* hunk, the deltas of one status), the kept sequence is described by the  *)
(* increasing map from its positions onto the kept indices; there is only  *)
(* one such sequence.                                                      *)
(***************************************************************************)
\* Increasing maps from 1..m onto the index set I.
Enumerations(m, I) ==
  { g \in [1..m -> I] : /\ \A a, b \in 1..m : a < b => g[a] < g[b]
                        /\ \A i \in I : \E j \in 1..m : g[j] = i }

\* Per-line classification table.
SpecLine(r) ==
  IF r.old = NoValue THEN [kind |-> "Addition", num |-> r.new]
  ELSE IF r.new = NoValue THEN [kind |-> "Deletion", num |-> r.old]
  ELSE [kind |-> "Context", old |-> r.old, new |-> r.new]
\* The indices of the ordinary lines of a hunk: the EOF markers are dropped.
Ordinary(hk) == { i \in 1..Len(hk) : hk[i].origin = "Line" }
\* ls is the hunk hk: its ordinary lines, in order, classified.
IsSpecHunk(ls, hk) ==
  \E g \in Enumerations(Len(ls), Ordinary(hk)) :
    \A j \in 1..Len(ls) : ls[j] = SpecLine(hk[g[j]])
Positions(p) == UNION { {<< i, j >> : j \in 1..Len(p[i])} : i \in 1..Len(p) }
RecAt(p, q) == p[q[1]][q[2]]
HasMarker(p, M) == \E q \in Positions(p) : RecAt(p, q).origin \in M
OldMarkers == {"ContextEOFNL", "AddEOFNL"}
NewMarkers == {"ContextEOFNL", "DeleteEOFNL"}
\* The EOF table: old-missing and new-missing flags to the four outcomes.
SpecEof(o, n) ==
  IF o THEN (IF n THEN "BothMissing" ELSE "OldMissing")
  ELSE (IF n THEN "NewMissing" ELSE "NoneMissing")
\* c is the content of patch p: one hunk per hunk of p, and the EOF outcome
\* of the markers of all hunks together.
IsSpecContent(c, p) ==
  /\ c.kind = "Plain"
  /\ c = [kind |-> "Plain", hunks |-> c.hunks,
          eof |-> SpecEof(HasMarker(p, OldMarkers), HasMarker(p, NewMarkers))]
  /\ Len(c.hunks) = Len(p)
  /\ \A i \in 1..Len(p) : IsSpecHunk(c.hunks[i], p[i])
\* The lines that abort a patch: a failed fetch or a line with no numbers.
BadAt(p) ==
  { q \in Positions(p) :
      \/ RecAt(p, q).origin = "FetchError"
      \/ RecAt(p, q).origin = "Line" /\ RecAt(p, q).old = NoValue
                                     /\ RecAt(p, q).new = NoValue }
FirstBad(p) ==
  CHOOSE q \in BadAt(p) : \A r \in BadAt(p) :
    q[1] < r[1] \/ (q[1] = r[1] /\ q[2] <= r[2])
SpecPatchErr(p) ==
  IF RecAt(p, FirstBad(p)).origin = "FetchError" THEN "Git" ELSE "Invalid"
\* The error a delta must fail with, or NoValue.
SpecErr(d) ==
  IF d.status \in {"Added", "Modified"} /\ d.new = NoValue THEN "PathUnavailable"
  ELSE IF d.status = "Deleted" /\ d.old = NoValue THEN "PathUnavailable"
  ELSE IF d.status \in {"Added", "Deleted", "Modified"} THEN
         IF d.from_diff = "Error" THEN "Git"
         ELSE IF d.from_diff = "None" THEN (IF d.binary THEN NoValue ELSE "PatchUnavailable")
         ELSE IF BadAt(d.patch) # {} THEN SpecPatchErr(d.patch)
         ELSE NoValue
  ELSE IF d.status \in {"Renamed", "Copied"} THEN
         IF d.old = NoValue \/ d.new = NoValue THEN "PathUnavailable" ELSE NoValue
  ELSE "DeltaUnhandled"
\* The list a delta must go to.
SpecListName(d) ==
  IF d.status = "Added" THEN "created"
  ELSE IF d.status = "Deleted" THEN "deleted"
  ELSE IF d.status = "Modified" THEN "modified"
  ELSE IF d.status = "Renamed" THEN "moved"
  ELSE IF d.status = "Copied" THEN "copied"
  ELSE "none"
\* e is the entry a delta must add: the two paths of a rename or copy; the
\* path of the file (the old one when it is deleted) and its content.
IsSpecEntry(e, d) ==
  IF d.status \in {"Renamed", "Copied"} THEN e = [old |-> d.old, new |-> d.new]
  ELSE /\ e = [path |-> IF d.status = "Deleted" THEN d.old ELSE d.new,
               content |-> e.content]
       /\ IF d.from_diff = "None" THEN e.content = [kind |-> "Binary"]
          ELSE IsSpecContent(e.content, d.patch)
\* The deltas among the first n that go to list k.
Sent(n, k) == { i \in 1..n : SpecListName(deltas[i]) = k }
\* es is list k after the first n deltas, all of which succeed.
IsSpecList(es, n, k) ==
  \E g \in Enumerations(Len(es), Sent(n, k)) :
    \A j \in 1..Len(es) : IsSpecEntry(es[j], deltas[g[j]])

\* The adapter is the reference conversion: when Diff::try_from returns Ok,
\* every delta succeeded and each of the five lists holds the deltas of its
\* status, in delta order, with the hunks of the patch stripped of the EOF
\* markers and the EOF outcome of all hunks together; when it returns Err,
\* the error is that of git_diff.stats() or of the first failing delta, and
\* the Diff under construction holds exactly the deltas before it (nothing
\* of the failing file was committed).
AdapterCorrect ==
  /\ pc = "done" =>
       /\ \A i \in 1..Len(deltas) : SpecErr(deltas[i]) = NoValue
       /\ \A k \in Lists : IsSpecList(out[k], Len(deltas), k)
  /\ pc = "failed" =>
       \/ stats = NoValue /\ err = "Git"
       \/ /\ stats # NoValue
          /\ SpecErr(deltas[idx]) = err
          /\ \A j \in 1..idx - 1 : SpecErr(deltas[j]) = NoValue
          /\ \A k \in Lists : IsSpecList(out[k], idx - 1, k)

\* The spec's stats invariant: files_changed = |created| + |deleted| +
\* |modified| for the Diff that Diff::try_from returns.
StatsConsistent ==
  pc = "done" =>
    stats.files_changed = Len(out["created"]) + Len(out["deleted"]) + Len(out["modified"])

=============================================================================
