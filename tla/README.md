# Verification models of radicle-surf's diff core

This directory holds TLA+ models of the diff machinery of `radicle-surf`
(`src/radicle-surf/src/diff.rs`, `src/radicle-surf/src/diff/git.rs`,
`src/radicle-surf/src/vcs/git.rs`), the TLC configurations that check them on
small instances, and TLAPS proofs of their main safety invariants for every
instance.

## 1. The system

The code has three parts that meet in one data type, `Diff`:

* **TreeDiffer** (`diff.rs`, `Diff::diff`, `collect_diff`,
  `collect_files_from_entry`, `collect_files`, `collect_files_inner`,
  `add_created_files`, `add_deleted_files`). It is a recursive merge-join over
  the name-sorted contents of two `Directory` snapshots. It records created,
  deleted and modified files. A shared, mutable path accumulator
  (`Rc<RefCell<Path>>`) is pushed before a recursion and popped after it.
  There are two recursions with opposite conventions:
  * `collect_diff`'s caller pushes and pops around the call (lines 406–413);
  * `collect_files_inner` pushes its own label on entry and pops it before
    returning (lines 471, 484).

  The four same-name arms (File/File, File/Dir, Dir/File, Dir/Dir) dispatch on
  the kinds of the two entries. The Dir(new)/File(old) arm clones the old
  file's path first, then enumerates the new subtree, and only then appends
  the `DeleteFile`.
* **Diff aggregate** (`diff.rs` 282–598). `Diff::new`, the append-only
  `add_*` builders and `stats()`.
* **Content-diff adapter** (`diff/git.rs`). It converts a `git2::Diff` into a
  `Diff`, one delta at a time:
  * it classifies the delta status;
  * `DiffContent::try_from(Patch)` scans the hunks and their lines;
  * `Modification::try_from(DiffLine)` classifies a line by its two optional
    line numbers;
  * three kinds of EOF marker set two flags, which are combined after the
    scan.

  Every failure aborts with `?`. This file is written against a `Diff` API
  (`insert_added`, `stats` field, `DiffContent`, `Modification`,
  `EofNewLine::NoneMissing`) that `diff.rs` does not define.
* **Snapshot loading** (`vcs/git.rs`, `Browser::get_tree`, `update_file_map`,
  `tree_entry_to_file_and_path`). A pre-order git tree walk whose callback
  fills a map or latches the first git error and aborts the walk.
* **Browser navigation** (`vcs/git.rs` 183–514). `Browser::new`,
  `new_with_namespace`, `switch_namespace`, `which_namespace`, `head`,
  `branch`, `tag`, `commit` and `rev`. A Browser holds a `RepositoryRef`, a
  shared reference. git2's `set_namespace` takes `&self`, so the namespace is
  state of the Repository that every Browser over it reads and writes. The
  Repository's reference resolution lives in `vcs/git/repo.rs`, which is not
  in this tree; it is a constant table in the model.

Nothing runs concurrently. The interleavings that matter are those of the
activations of the two recursions on the one shared path accumulator, the
order in which nested calls append to the three lists, and the order of calls
of several Browsers that share one Repository.

## 2. Modules

| module | what it is |
|---|---|
| `TreeDiff` | the tree differ as a state machine (below) |
| `TreeDiffAbstract` | the contract: one step that sets the three lists to the sets the spec defines, in DFS order (uses a RECURSIVE operator, so TLC only) |
| `TreeDiffRefinement` | `INSTANCE TreeDiffAbstract` under the refinement mapping; defines `TreeDiffRefines` |
| `MC_TreeDiff`, `MC_TreeDiffDeep` | the model values and tree tables for TLC |
| `TreeDiffProofs` | TLAPS: type correctness |
| `TreeDiffPathProofs` | TLAPS: the path-accumulator discipline |
| `GitDiff` | the content-diff adapter `TryFrom<git2::Diff> for Diff` as a state machine, with a reference conversion written from the spec |
| `MC_GitDiff` | input tables for TLC: per-line patches and per-delta mixes |
| `GitDiffProofs` | TLAPS: type correctness of the adapter, and that it is the reference conversion |
| `DiffAggregate`, `MC_DiffAggregate` | the `Diff` builders and `stats()`, with the spec's statistics |
| `GetTree` | `get_tree` and its walk callback as a state machine over an explicit walk stack |
| `GetTreeReference` | the pre-order visit sequence, first failing entry and expected file map (RECURSIVE, TLC only) |
| `MC_GetTree` | every tree of depth ≤ 2 over names {1,2} with every entry outcome |
| `Browser`, `MC_Browser` | two Browsers over one Repository, with a constant resolution table |
| `BrowserProofs`, `GetTreeProofs`, `DiffAggregateProofs` | TLAPS: the Browser, get_tree and builder theorems, and `stats()` against the spec |

### TreeDiff: state and actions

Snapshots are the constant table `Tree : DirIds -> Seq(Entry)`. An entry is
either `[kind |-> "file", name, file]` or `[kind |-> "dir", name, dir]`. Names
are naturals compared with `<`, standing for `Label`'s `Ord`. `TreeSorted`
assumes each directory is strictly sorted, which is the spec's precondition on
snapshots.

The two recursions are one explicit call stack `stack`:

* a `"diff"` frame is one `collect_diff` activation. It holds the cursors
  `oi`/`ni` of `old_iter`/`new_iter` and the label it was pushed with. Its
  `pend` field holds the `DeleteFile` that the Dir(new)/File(old) arm adds
  after `add_created_files` returns.
* a `"collect"` frame is one `collect_files_inner` activation. It holds the
  cursor `i` of its `for` loop and which list (`into`) its outermost caller
  appends to.

The other variables:

* `path` is the shared accumulator;
* `files` is the `Vec` of `collect_files`;
* `diff` holds the `created`/`deleted`/`modified` lists, as paths.

`moved` and `copied` stay empty on this path. Hunks are always empty on this
path, so they are left out.

Each action is one step of the code, from one call or loop iteration to the
next:

| action | code |
|---|---|
| `Greater`, `Less` | `Ordering::Greater/Less` arms: `add_deleted_files`/`add_created_files` on the entry, advance one cursor |
| `EqualFiles` | File/File: `add_modified_file` if size or checksum differ (`FileChanged`) |
| `FileOverDir` | File(new)/Dir(old): `add_created_file`, then enter `add_deleted_files` on the old directory |
| `DirOverFile` | Dir(new)/File(old): clone the old file's path into `pend`, enter `add_created_files` |
| `Descend` | Dir/Dir: push the name, call `collect_diff` |
| `OldOnly`, `NewOnly` | the `(Some, None)` and `(None, Some)` arms |
| `DiffReturn` | a nested `collect_diff` leaves its loop; the caller pops |
| `Finish` | the outermost `collect_diff` returns and `Diff::diff` returns |
| `CollectFile`, `CollectSubdir` | one iteration of `collect_files_inner`'s loop |
| `CollectReturn` | a nested `collect_files_inner` pops and returns |
| `CollectDone` | the outermost one pops and returns; `add_*_files` appends the `Vec`; the Dir/File arm appends `pend` |

`AddFiles` is `collect_files_from_entry`. For a file it appends one path
directly. For a directory it enters `collect_files_inner`, which pushes the
directory's label.

### GitDiff: state and actions

The input is one `git2::Diff`, the sequence `deltas` chosen from the constant
`Inputs`. A delta is a record:

* `status` is the `git2::Delta`;
* `old`/`new` are the two file paths, or `NoValue` when libgit2 has none;
* `from_diff` says what `Patch::from_diff` returns: `"Some"`, `"None"`, or
  `"Error"`;
* `patch` holds the hunks of native lines. Each line has an origin, which is
  an ordinary line, one of the three EOF markers, or `"FetchError"` for
  `patch.line_in_hunk(..)?` failing. It also has two optional line numbers;
* `binary` is the delta's binary flag.

The variables follow the code:

* `pc` is the place in `Diff::try_from`;
* `idx` is the `enumerate` index;
* `out` is the five lists of the `Diff`;
* `stats` is the copied `DiffStats`;
* `h`/`l` are the hunk and line cursors of `DiffContent::try_from`;
* `hunks`/`lines` are its buffers;
* `oldEof`/`newEof` are its two flags;
* `err` is the error returned by `?`.

| action | code (`diff/git.rs`) |
|---|---|
| `GetStats`, `StatsFail` | `git_diff.stats()?` and the copy into `diff.stats` (152–169) |
| `StartPatch`, `PatchFail`, `NoPatch`, `InsertBinary` | the Added/Deleted/Modified arms: `Patch::from_diff(..)?`, then either `DiffContent::try_from(patch)?` or the binary / `PatchUnavailable` fallbacks (188–255) |
| `PathMissing` | the path of the file is `None`: `PathUnavailable` |
| `InsertPair`, `PairMissing` | the Renamed/Copied arms, which need both paths (257–283) |
| `Unhandled` | every other status: `DeltaUnhandled` (178–180) |
| `AllDone` | the loop ends and `Ok(diff)` is returned |
| `MarkerLine` | one of the three EOF markers sets a flag (105–120) |
| `PushLine`, `InvalidLine` | `Modification::try_from(line)?`: a line is classified by its two optional numbers, and `(None, None)` fails (121–122, 139–150) |
| `LineFetchFail` | `patch.line_in_hunk(..)?` fails |
| `EndHunk` | a hunk's lines are collected |
| `EndPatch` | the EOF table (126–131) gives the `DiffContent`, and the file is inserted under its path |

`Fail(e)` is each `?`. It sets `pc` to `"failed"` and keeps the partly built
`Diff`, which the caller never sees. Each property below refers to `out` only
on the path that returns `Ok`, or to what was inserted before the failing
delta.

`diff/git.rs` is written against a `Diff` API that `diff.rs` does not have:
`insert_added`, `insert_deleted`, `insert_modified`, `insert_moved`,
`insert_copied`, a `stats` field, `DiffContent`, `Modification` and
`EofNewLine::NoneMissing`. So `Insert(k, e)` is modelled from the spec, and is
marked so in the map. Everything else in the module comes from
`diff/git.rs`.

### DiffAggregate: state and actions

The five variables are the five `Vec`s of `Diff` (lines 35–41); `Init` is
`Diff::new`. One action per builder: `AddCreatedFile`, `AddDeletedFile`,
`AddModifiedFile`, `AddModifiedBinaryFile`, `AddMovedFile`, `AddCopiedFile`
(lines 487–538), each an append, bounded by `MaxFiles` calls in all. A hunk
is the sequence of its lines' `LineDiff` variants: text, line numbers and
header do not enter `stats()`. Created (deleted) files are Binary or carry
only additions (deletions), as the patch of an added (deleted) file does;
modified files carry any hunks of the constant set `HunksIn`. `Stats` is
`stats()` (551–598): `Hs` is the `if let FileDiff::Plain` of a file, and
`LinesIn(tag, files, k)` the positions (list, file, hunk, line) of the lines
of kind `k` that a loop visits; each counter is the number of positions its
loops matched, which is what one increment per matched line adds up to.

### GetTree: state and actions

`root` is the tree the commit peels to, `pc` the phase, `stack` libgit2's
pre-order walk (one frame per tree: tree, cursor, walk path, and whether
`Path::try_from` accepts that path), `fpe` the callback's captured
`file_paths_or_error`, `ret` the returned `Result`. `LoadRoot`/`LoadFail`
are `find_commit(..)?.peel_to_tree()?`. `Outcome(frame, entry)` is
`tree_entry_to_file_and_path` with its checks in the code's order (walk
path, Commit, `to_object`, NotBlob, name). The callback's arms are
`AddFile` (with `update_file_map`), `SkipCommit`, `Descend` (NotBlob on a
subtree: libgit2 walks it next) and `Latch` (a git error: stored, walk
aborted). `Ascend` and `WalkDone` are libgit2 leaving a subtree and the
root. After an abort the walk stops, and `Tree::walk` returns `Ok(())`:
the git2 bindings of this code's time drop `git_tree_walk`'s result. The
repository pins no git2 version. `get_tree` then returns
`file_paths_or_error` (line 1119), which is the latched error, as the
callback's comment intends. So `Latch` sets `ret` to the new `fpe`.

### Browser: state and actions

`ns` is the Repository's namespace, `alive[b]` whether Browser `b` exists,
`history[b]` its History (a model value). Ghosts: `from[b]`, the namespace
that History was resolved in, and `switcher`, the Browser whose call last
set the namespace. `Resolve[n][r]` stands for `repository.get_history(r)`
in namespace `n` (`Err` when it fails). Actions: `New`, `NewWithNamespace`
(switches the Repository before resolving, and leaves it switched on
failure), `SwitchNamespace` (consumes the Browser; on a failed resolve the
Browser is gone and the Repository stays switched), `SwitchFail`
(`set_namespace` fails: the Browser is consumed), and `Head`, `Branch`,
`Tag`, `Commit`, `Rev`, which resolve in the current namespace after their
kind checks (`NotBranch`, `NotTag`).

## 3. Properties and runs

* `TypeOK` is the type invariant.
* `PathDiscipline` says two things. While `Diff::diff` runs, `path` equals
  the labels of the active activations, bottom first, and the bottom label is
  `right.current()`. After it returns, `path` is back to the root.

  Breaking it takes a push or pop that is missing or misplaced in either
  recursion. The model only catches that through a chain of nested calls,
  because the two recursions pop on opposite sides of the call.
* `TreeDiffRefines` (in `TreeDiffRefinement`) says the differ implements
  `TreeDiffAbstract!ASpec` under the mapping `diff <- IF Done THEN diff ELSE
  EmptyDiff`, `done <- Done`. It asserts several things:
  * when `Diff::diff` returns, `created` lists exactly the files of the new
    tree whose path is not a file of the old tree;
  * `deleted` lists the converse;
  * `modified` lists the common paths whose contents differ;
  * each list is in lexicographic path order (the DFS order of the sorted
    walk), with no duplicates, and every path is prefixed by the root label;
  * `Diff::diff` does return (liveness, under the fairness below).

  It covers the spec's type-change policy, its idempotence property and its
  concrete scenario.

| run | cfg | instance | checks |
|---|---|---|---|
| `tree_diff` | `MC_TreeDiff.cfg` | roots: every directory of depth ≤ 2 over names {1,2} and two contents of equal size but different checksum; all pairs of them | `TypeOK`, `PathDiscipline`, `TreeDiffRefines`; 131,890 states |
| `tree_diff_deep` | `MC_TreeDiffDeep.cfg` | one content; roots of depth ≤ 2 plus depth-3 trees whose subdirectory 1 is non-empty | `PathDiscipline`, `TreeDiffRefines`; 49,365 states; reaches `CollectSubdir`/`CollectReturn` |

Why these bounds suffice:

* Two names are enough to produce each relative order (`<`, `=`, `>`) at every
  level.
* In the first run the two contents have the same size and differ only in
  checksum, so a size-only comparison is caught (the `FileChangedSizeOnly`
  mutant).
* Depth 2 gives every same-name combination of kinds one level under the
  root, including type changes whose subtree is a non-empty directory.
* Depth 3 is needed for `collect_files_inner` to recurse into a subdirectory
  of a subtree it enumerates.

**The adapter.** `GitDiff` defines a reference conversion written from the
spec: `IsSpecEntry`, `IsSpecList`, `SpecErr`, `IsSpecContent` and `SpecEof`.
It includes the per-line classification (`SpecLine`) and the four-way EOF
table. Where the spec keeps some elements of a sequence in order (the
ordinary lines of a hunk, the deltas that go to one list), the kept
sequence is described by an increasing map from its positions onto the
kept indices (`Enumerations`). Exactly one sequence has such a map, so this
states the same as a `SelectSeq`, in a form the provers can use.

* `AdapterCorrect`: when the conversion returns `Ok`, no delta has an error,
  and each of the five lists is exactly the reference list of all the deltas,
  in delta order. When it returns `Err`, one of two things is true. Either
  `stats()` failed. Or `err` is the reference error of the current delta,
  every earlier delta converts without error, and the lists hold exactly the
  reference entries of the earlier deltas, with nothing of the current delta
  (no partial hunk).

  Breaking it takes a step of one of two loop levels. Examples are a skipped
  delta, a marker that is classified as a line, a flag that is not reset, or
  a line that fails to be rejected.
* `StatsConsistent`: the spec's `files_changed = |created| + |deleted| +
  |modified|` holds of the stored stats.

| run | cfg | instance | checks |
|---|---|---|---|
| `adapter_lines` | `MC_GitDiffLines.cfg` | one Modified delta. Its patch has up to 2 hunks of up to 2 lines each. Each line is any of: an ordinary line with each number present or absent, each of the three markers, or a fetch failure | `TypeOK`, `AdapterCorrect`; 44,469 states |
| `adapter_deltas` | `MC_GitDiffDeltas.cfg` | up to 2 deltas. Each delta takes every status, each path present or missing, each `from_diff` outcome, an empty or a one-line patch, and each binary flag | `AdapterCorrect`; 133,782 states |
| `adapter_stats` | `MC_GitDiffStats.cfg` | as `adapter_deltas` | `StatsConsistent`: **violation expected** |

Why these bounds suffice:

* Two lines per hunk are enough for a marker to come before or after an
  ordinary line.
* Two hunks are enough for a flag, or the line buffer, to carry over between
  hunks.
* Two deltas are enough for a failure after a successful insert, and for the
  order of the lists.

**Finding: `adapter_stats`.** `Diff::try_from` copies libgit2's `DiffStats`
(line 169). libgit2 counts every delta in `files_changed`, including renamed
and copied ones. The model of that call rests on this fact about libgit2:
`files_changed` is the number of deltas. The spec instead defines
`files_changed` as `|created| + |deleted| + |modified|`. TLC finds a diff
with one Renamed delta that gets `files_changed = 1` while all three lists
are empty.

**Fairness.** `TreeDiff` has `WF_vars(Next)` in `Spec`: `Diff::diff` is a
synchronous, single-threaded call that keeps executing until it returns, so
some step is always taken while it is running. `GitDiff`, `GetTree`,
`Browser` and `DiffAggregate` state no liveness and assume no fairness;
`Diff::try_from` and `get_tree` iterate with `for` loops and a libgit2 walk
over finite data, so their termination is not a question worth a run. The
models stop only when the call has returned, which is why the runs set
`CHECK_DEADLOCK FALSE`.

**Mutants.** Each property is shown to be sensitive to a plausible bug:

* `Descend` starting its cursors at 0 breaks `TypeOK`;
* a missing caller pop in `DiffReturn` breaks `PathDiscipline`;
* a missing pop in `CollectReturn` breaks `PathDiscipline`;
* comparing sizes only breaks `TreeDiffRefines`;
* a `collect_files_inner` recursion that does not push breaks
  `TreeDiffRefines`.

In the adapter:

* a line classification without the `(None, None)` check breaks `TypeOK`,
  because it yields a line with no numbers;
* the EOF flags being reset at the end of each hunk break `AdapterCorrect`;
* a file path that is always taken from the new side breaks `AdapterCorrect`
  through a `Deleted` delta.

**The aggregate.** `StatsMatchSpec`: for every `Diff` the builders can
produce, `stats()` equals the spec's statistics, computed over all Plain
files of the three lists at once (insertions = Addition lines, deletions =
Deletion lines, `files_changed` = the three lengths). The mutant in which
the created loop, copied from the deleted one, adds its additions to
`deletions` breaks it; a binary `ModifiedFile`
pushed without its `eof` breaks `TypeOK`.

| run | cfg | instance | checks |
|---|---|---|---|
| `diff_stats` | `MC_DiffAggregate.cfg` | two paths, up to 3 builder calls, six hunk lists (empty, an empty hunk, single-kind hunks, a mixed hunk with context, two hunks) | `TypeOK`, `StatsMatchSpec`; 222,137 states |

Three calls give every pair of lists and a file of each kind between them;
the hunk lists give context lines and several hunks per file. `stats()`
counts only additions in created files and only deletions in deleted ones;
that agrees with the spec only because such files never carry the other
kind, which is what the inputs encode. `CHECK_DEADLOCK FALSE`: the model
stops at the `MaxFiles` bound.

**Snapshot loading.** `GetTreeReference` computes, from the whole tree, the
visit sequence of a pre-order walk, the first entry whose conversion fails
(`FirstError`) and the map the spec asks for (`RefMap`: each directory path
with a blob to its blobs in tree order).

* `GetTreeCorrect`: when `get_tree` returns, it returned the load error; or
  no entry fails and it returned `Ok(RefMap)`; or some entry fails, it
  returned the error the callback latched for the first failing entry in
  walk order, which no later entry overwrote. A replacing `update_file_map`
  breaks it (two blobs in one directory).
* `FileMapAccumulates` (an action property): while the callback runs,
  `file_paths_or_error` only accumulates. No step drops a path or shortens
  or reorders a NonEmpty, and a latched error is never overwritten. A
  replacing `update_file_map` breaks it.
* A subtree cursor starting at 0 breaks `TypeOK`.

| run | cfg | instance | checks |
|---|---|---|---|
| `get_tree` | `MC_GetTree.cfg` | 6,320 roots: each of names 1, 2 empty, a blob (ok, bad name, unloadable), a submodule, or a subtree of the same shape without subtrees | `TypeOK`, `GetTreeCorrect`, `FileMapAccumulates`; 32,443 states |

Depth 2 puts every outcome under a subdirectory whose own path or name may
be invalid; two names give two blobs in one directory and a failure after
files were added.

**Browsers.**

* `StaleOnlyByOthers`: a live Browser whose history was resolved in a
  namespace other than the Repository's was made stale by another Browser's
  switch, never by its own calls. Resolving before switching in
  `switch_namespace` breaks it.
* `NamespaceCoherent`: `which_namespace` ("the current namespace we're
  browsing in") equals the namespace every live Browser's history came from.

| run | cfg | instance | checks |
|---|---|---|---|
| `browser` | `MC_Browser.cfg` | two Browsers, three namespaces and the default, six revisions of each kind, some failing in some namespaces | `TypeOK`, `StaleOnlyByOthers`; 3,739 states |
| `browser_shared` | `MC_BrowserShared.cfg` | the same | `NamespaceCoherent`: **violation expected** |

The Browser spec has no fairness: it is a library driven by its caller,
which may stop at any time.

**Finding: `browser_shared`.** Two Browsers over one Repository: when one
switches namespace, the other keeps its history but its `which_namespace`
(line 272) reports the new namespace. The same happens to a single Browser
when `new_with_namespace` or `switch_namespace` fails after switching: the
Repository stays switched.

## 4. What is proved

For every value of the constants that satisfies `LabelsAssumption`,
`TreeAssumption` and `TreeSorted` (or, for the adapter, `InputsAssumption`),
TLAPS proves the theorems below (the adapter's correctness also from
`NoValueAssumption`: None is neither a `LineDiff` nor a stats record; the Browser theorems from
`BrowserAssumption`, the get_tree theorems from `TreeAssumption` of
`GetTree`, the aggregate's from `AggregateAssumption`).

* `TreeDiffProofs!TypeCorrect`: `Spec => []TypeOK`. It is inductive as it
  stands. There is one case per group of actions. It rests on lemmas about
  the stack helpers:
  * `WithTopType`, `FrontType`, `AdvType` and `CollectTopType` for the stack
    operations;
  * `AddFilesType` for `collect_files_from_entry`;
  * `DiffConcatType` for the appends.
* `TreeDiffPathProofs!PathDisciplineHolds`: `Spec => []PathDiscipline`.
  `PathDiscipline` alone is not inductive. For a pop to be safe, the proof must
  know that the popped path still starts with the root label. For `Finish` to
  end at `<<RootLabel>>`, it must know that `path` has the stack's length. The
  strengthening `PathInv` adds `Len(path) >= 1 /\ path[1] = RootLabel`, and
  `TypeOK /\ PathInv` is inductive. The step lemmas give the effect of each
  kind of step on the labels of the stack:
  * `ReplaceStep`: a top frame is replaced by one with the same label;
  * `PushStep`: a frame is pushed together with its label;
  * `PopStep`: a frame is popped together with its label;
  * `CollectDoneStep`: the pop that also rewrites the caller.

  They rest on three lemmas about `LabelsOf`:
  * `LabelsReplace`;
  * `LabelsAppend`;
  * `LabelsFront`.

* `GitDiffProofs!GitDiffTypeCorrect`: `Spec => []TypeOK` for the adapter.
  `TypeOK` alone is not inductive, because `EndPatch` inserts
  `FilePath(Cur)` into `TargetList(Cur)` and advances `idx`. The
  strengthening `GInv` adds one fact. While a patch is being converted, the
  current delta exists, it is a file delta, and it has a path. `StartPatch`
  establishes that fact, which is the code's order: the path is checked
  before `Patch::from_diff`.
* `GitDiffProofs!AdapterCorrectHolds`: `Spec => []AdapterCorrect`.
  `AdapterCorrect` speaks only of the final states, so it is far from
  inductive. The strengthening `AInv` says, at every step:
  * `DoneOK`: every delta before `idx` has no reference error, and each list
    is the reference list (`IsSpecList`) of the deltas before `idx`;
  * `StageOK` and `FailOK`: the stats are read before any delta, and a
    failure carries the stats' error or the reference error of delta `idx`;
  * `PatchInv`, inside `DiffContent::try_from`: the finished hunks are the
    reference hunks of the first `h - 1` hunks, the scanned lines are the
    reference lines of the ordinary lines before `l`, no line before the
    cursor `(h, l)` aborts the patch, and each EOF flag is true exactly when
    a marker of its side lies before the cursor.

  There is one step lemma per kind of step:
  * `MarkerStep`, `PushStep` and `EndHunkStep` for the inner loops;
  * `EndPatchStep`, where the cursor has passed every position, so the patch
    has no aborting line and the flags are the markers of the whole patch;
  * `LineFetchFailStep` and `InvalidLineStep`, where `AbortAtCursor` shows
    that the line under the cursor is the patch's first aborting line
    (`FirstBadIs`);
  * `InsertStep` and `FailStep` for the delta loop.

  They rest on lemmas about the operators: `EnumExtend` (keeping one more
  index extends the enumeration), `ListStep` (an insert keeps every list
  the reference list), the cursor lemmas `PassedLine`, `PassedHunk` and
  `PassedEnds`, and `ModificationSpec`, `EofSpec` and `ListSpec`, which say
  that the code's `Modification::try_from`, EOF table and list choice are
  the spec's.

  The lemmas used are:
  * `CurType`, `RecType`, `ModificationType` and `EofType`, for the values
    that are read;
  * `InsertType`, for the appends;
  * `FileDeltaFacts`, for the path and list of a file delta.

* `BrowserProofs!BrowserTypeCorrect` and
  `BrowserProofs!StaleOnlyByOthersHolds`: `Spec => []TypeOK` and
  `Spec => []StaleOnlyByOthers`. Neither is inductive alone: a switch by
  Browser `b` makes staleness depend on `b` being a Browser and not
  `NoBrowser`, and a live Browser's History type depends on the resolve
  having succeeded. `Inv == TypeOK /\ StaleOnlyByOthers` is inductive
  (lemma `InvInductive`), with one step per action (the constructors and
  the switch split on whether the resolve fails) and the lemma
  `ResolveType`.
* `GetTreeProofs!GetTreeTypeCorrect`: `Spec => []TypeOK` for get_tree.
  `TypeOK` is not inductive: `Top` and `Cur` are only meaningful while the
  walk stack is non-empty, and updating the files of `fpe` needs `fpe` to be
  exactly a record of its kind. The inductive `GInv` adds `pc = "walk" =>
  stack # <<>>`, `fpe.kind = "Ok" => fpe = [kind |-> "Ok", files |->
  fpe.files]` and `pc # "done" => fpe.kind = "Ok"` (a latch ends the walk);
  TLC checks `GInv` on the `get_tree` instance. The lemmas: `OutcomeKind`
  (`tree_entry_to_file_and_path` returns Ok only for a blob and NotBlob only
  for a subtree), `AdvanceFrame` and `PopFrame` (the walk stack's cursor
  move and pop), `CurEntry` (the entry under the cursor is an entry of the
  table) and `UpdateFileMapGrows`.
* `GetTreeProofs!FileMapAccumulatesHolds`: `Spec => FileMapAccumulates`,
  the action property. Lemma `AccumulatesStep` shows that every step
  allowed by `GInv` is an accumulation step: `AddFile` through
  `UpdateFileMapGrows`, `Latch` because no error is latched while the walk
  runs, and every other action leaves `fpe` unchanged.
* `DiffAggregateProofs!AggregateTypeCorrect`: `Spec => []TypeOK` for the
  builders. It is inductive as it stands, with the lemma `DiffsOfType`.
* `DiffAggregateProofs!StatsMatchSpecHolds`: `Spec => []StatsMatchSpec`,
  for every `HunksIn` and `MaxFiles`. `StatsMatchSpec` is not inductive:
  `stats()` skips the deletions of created files and the additions of
  deleted files, and agrees with the spec only while there are none. The
  inductive invariant is `TypeOK /\ Kinds`, where `Kinds` says that every
  line of a created (deleted) file is an Addition (Deletion). `KindsStep`
  shows that each builder preserves it (`DiffsOfKind` for the diffs a
  builder receives, `OnlyKindAppend` for the append); `NoLinesOfOtherKind`
  turns `Kinds` into the emptiness of the skipped position sets, and
  `StatsFromKinds` concludes that both sides count the same set. Because
  the counters are cardinalities of position sets and not folds, no
  induction over the hunk data is needed.

To be provable, some definitions are written in the form the provers
read. `GetTree`'s `Outcome` and `GitDiff`'s `ModificationOf` and `SpecErr`
are `IF` chains instead of `CASE`s, because neither backend handles `CASE`;
the checks stay in the code's order.
`Advance` moves the cursor through the named `Bump` instead of a nested
`@`, which tlapm 1.4.5 expands wrongly.

The following are only model-checked:

* `TreeDiffRefines`. Its abstract side computes the file set of a tree with a
  RECURSIVE operator. The provers cannot reason about that, or about any
  induction over the tree data.
* The liveness part of `TreeDiffRefines`: that `Diff::diff` returns.
  Liveness under fairness is outside TLAPS's reach here.
* `GetTreeCorrect`. Its reference side (`GetTreeReference`) is a
  RECURSIVE visit sequence, and relating the walk stack to it needs
  induction over the tree data.

## 5. Not modelled, and why

* **`Hunks::try_from(Patch)`** (`diff.rs` 183–202). It calls
  `LineDiff::try_from(git2::DiffLine)`, which this tree does not define, so
  the conversion of a line cannot be translated from the source.
* **The Repository** (`vcs/git/repo.rs`, not in this tree): reference
  resolution, history and `set_namespace` are a constant table and a
  variable. So Browser navigation is only partly modelled.
* **The rest of `vcs/git.rs`**: branch, tag and namespace listings, `last_commit`,
  `file_history`, signatures. These are read-only queries over `git2`,
  without state of their own.
* **Line serialization and field conversions**. These are pure formatting. They
  are not modelled.
* **Rename detection**. The code does not implement it (the spec says so).
