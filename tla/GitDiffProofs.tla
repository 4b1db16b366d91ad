----------------------------- MODULE GitDiffProofs -----------------------------
(***************************************************************************)
(* Proofs about the content-diff adapter, for every git2::Diff the input   *)
(* set allows: type correctness, and that Diff::try_from is the reference  *)
(* conversion of the spec (AdapterCorrect).  TypeOK alone is not           *)
(* inductive: EndPatch advances the delta index and inserts the file under *)
(* its path into its list; only the fact that a patch is converted for an  *)
(* existing file delta with a path keeps the index in range and the        *)
(* inserted entry well typed.                                              *)
(***************************************************************************)
EXTENDS GitDiff, TLAPS

GInv ==
  /\ TypeOK
  /\ pc = "patch" => /\ idx <= Len(deltas)
                     /\ Cur.status \in FileStatuses
                     /\ FilePath(Cur) # NoValue

\* The delta under the cursor of the outer loop.
LEMMA CurType ==
  ASSUME TypeOK, idx <= Len(deltas)
  PROVE  Cur \in Delta
BY DEF TypeOK, Cur

\* The native line record under the cursors of the inner loops.
LEMMA RecType ==
  ASSUME GInv, InLine
  PROVE  Rec \in LineRec
<1>1. Cur \in Delta
  BY CurType DEF GInv, InLine
<1>2. P \in Patch
  BY <1>1 DEF P, Delta
<1>3. QED
  BY <1>2 DEF Rec, InLine, Patch, TypeOK, GInv

\* Modification::try_from yields a LineDiff unless it fails.
LEMMA ModificationType ==
  ASSUME NEW r \in LineRec, ModificationOf(r) # NoValue
  PROVE  ModificationOf(r) \in LineDiff
BY InputsAssumption DEF ModificationOf, LineRec, NumOpt, LineDiff

\* The EOF table yields one of the four outcomes.
LEMMA EofType ==
  ASSUME NEW o \in BOOLEAN, NEW n \in BOOLEAN
  PROVE  EofOf(o, n) \in EofKinds
BY DEF EofOf, EofKinds

\* Appending an entry to one list keeps the five lists well typed.
LEMMA InsertType ==
  ASSUME NEW f \in [Lists -> Seq(Entry)], NEW k \in Lists, NEW e \in Entry
  PROVE  [f EXCEPT ![k] = Append(@, e)] \in [Lists -> Seq(Entry)]
OBVIOUS

\* The path and the list of a file delta.
LEMMA FileDeltaFacts ==
  ASSUME NEW d \in Delta, d.status \in FileStatuses, FilePath(d) # NoValue
  PROVE  FilePath(d) \in Paths /\ TargetList(d) \in Lists
BY DEF Delta, FilePath, TargetList, FileStatuses, Lists

-----------------------------------------------------------------------------
\* Init establishes the invariant.
LEMMA GInit == Init => GInv
<1> SUFFICES ASSUME Init PROVE GInv
  OBVIOUS
<1>1. deltas \in Seq(Delta)
  BY InputsAssumption DEF Init
<1>2. idx \in 1..Len(deltas) + 1 /\ pc # "patch"
  BY <1>1 DEF Init
<1>3. out \in [Lists -> Seq(Entry)]
  BY DEF Init
<1>4. stats \in {NoValue} \cup [files_changed : Nat] /\ err \in Errors \cup {NoValue}
  BY DEF Init
<1>7. h \in Nat \ {0} /\ l \in Nat \ {0}
  BY DEF Init
<1>9. oldEof \in BOOLEAN /\ newEof \in BOOLEAN
  BY DEF Init
<1>8. hunks \in Seq(Seq(LineDiff)) /\ lines \in Seq(LineDiff)
  BY DEF Init
<1>5. pc \in {"stats", "delta", "patch", "done", "failed"}
  BY DEF Init
<1>6. QED
  BY <1>1, <1>2, <1>3, <1>4, <1>5, <1>7, <1>8, <1>9 DEF GInv, TypeOK

\* Every step preserves the invariant.
LEMMA GStep == GInv /\ [Next]_vars => GInv'
<1> SUFFICES ASSUME GInv, [Next]_vars PROVE GInv'
  OBVIOUS
<1>a. TypeOK
  BY DEF GInv
\* The error exits: Fail(e) touches pc and err only.
<1>1. ASSUME NEW e \in Errors, Fail(e) PROVE GInv'
  BY <1>1, <1>a DEF Fail, GInv, TypeOK
<1>2. CASE StatsFail \/ PathMissing \/ PatchFail \/ NoPatch \/ PairMissing
           \/ Unhandled \/ LineFetchFail \/ InvalidLine
  BY <1>2, <1>1 DEF StatsFail, PathMissing, PatchFail, NoPatch, PairMissing,
                    Unhandled, LineFetchFail, InvalidLine, Errors
<1>3. CASE GetStats
  BY <1>3, <1>a DEF GetStats, GInv, TypeOK
<1>4. CASE StartPatch
  <2>1. Cur' = Cur
    BY <1>4 DEF StartPatch, Cur
  \* The provers need the Boolean flags apart from the integer cursors.
  <2>2. oldEof' \in BOOLEAN /\ newEof' \in BOOLEAN
    BY <1>4 DEF StartPatch
  <2>3. TypeOK'
    BY <1>4, <1>a, <2>2 DEF StartPatch, TypeOK
  <2>4. idx' <= Len(deltas') /\ Cur'.status \in FileStatuses /\ FilePath(Cur') # NoValue
    BY <1>4, <2>1 DEF StartPatch, InDelta
  <2>5. QED
    BY <2>3, <2>4 DEF GInv
<1>5. CASE InsertBinary
  <2>1. Cur \in Delta /\ FilePath(Cur) \in Paths /\ TargetList(Cur) \in Lists
    BY <1>5, <1>a, CurType, FileDeltaFacts DEF InsertBinary, InDelta
  <2>2. [path |-> FilePath(Cur), content |-> [kind |-> "Binary"]] \in Entry
    BY <2>1 DEF Entry, Content
  <2>3. out' \in [Lists -> Seq(Entry)]
    BY <1>5, <2>1, <2>2, <1>a, InsertType DEF InsertBinary, Insert, TypeOK
  <2>4. QED
    BY <1>5, <2>3, <1>a DEF InsertBinary, InDelta, GInv, TypeOK
<1>6. CASE InsertPair
  <2>1. Cur \in Delta
    BY <1>6, <1>a, CurType DEF InsertPair, InDelta
  <2>2. [old |-> Cur.old, new |-> Cur.new] \in Entry /\ PairList(Cur) \in Lists
    BY <1>6, <2>1 DEF InsertPair, Delta, Entry, PairList, Lists
  <2>3. out' \in [Lists -> Seq(Entry)]
    BY <1>6, <2>2, <1>a, InsertType DEF InsertPair, Insert, TypeOK
  <2>4. QED
    BY <1>6, <2>3, <1>a DEF InsertPair, InDelta, GInv, TypeOK
<1>7. CASE AllDone
  BY <1>7, <1>a DEF AllDone, GInv, TypeOK
<1>8. CASE MarkerLine
  <2>1. Cur' = Cur
    BY <1>8 DEF MarkerLine, Cur
  <2>2. QED
    BY <1>8, <2>1, <1>a DEF MarkerLine, InLine, GInv, TypeOK
<1>9. CASE PushLine
  <2>1. Rec \in LineRec
    BY <1>9, RecType DEF PushLine
  <2>2. ModificationOf(Rec) \in LineDiff
    BY <1>9, <2>1, ModificationType DEF PushLine
  <2>3. Cur' = Cur
    BY <1>9 DEF PushLine, Cur
  <2>4. QED
    BY <1>9, <2>2, <2>3, <1>a DEF PushLine, InLine, GInv, TypeOK
<1>10. CASE EndHunk
  <2>1. Cur' = Cur
    BY <1>10 DEF EndHunk, Cur
  <2>2. QED
    BY <1>10, <2>1, <1>a DEF EndHunk, GInv, TypeOK
<1>11. CASE EndPatch
  <2>1. idx <= Len(deltas) /\ Cur \in Delta
    BY <1>11, <1>a, CurType DEF EndPatch, GInv
  <2>2. FilePath(Cur) \in Paths /\ TargetList(Cur) \in Lists
    BY <1>11, <2>1, FileDeltaFacts DEF EndPatch, GInv
  <2>3. EofOf(oldEof, newEof) \in EofKinds
    BY <1>a, EofType DEF TypeOK
  <2>4. [path |-> FilePath(Cur),
         content |-> [kind |-> "Plain", hunks |-> hunks, eof |-> EofOf(oldEof, newEof)]]
          \in Entry
    BY <2>2, <2>3, <1>a DEF Entry, Content, TypeOK
  <2>5. out' \in [Lists -> Seq(Entry)]
    BY <1>11, <2>2, <2>4, <1>a, InsertType DEF EndPatch, Insert, TypeOK
  <2>6. QED
    BY <1>11, <2>1, <2>5, <1>a DEF EndPatch, GInv, TypeOK
<1>12. CASE UNCHANGED vars
  BY <1>12 DEF vars, GInv, TypeOK, Cur, FilePath
<1>13. QED
  BY <1>2, <1>3, <1>4, <1>5, <1>6, <1>7, <1>8, <1>9, <1>10, <1>11, <1>12 DEF Next

\* Every state of Diff::try_from is well typed: the delta index stays within
\* the deltas plus one, and the lists only receive well-formed entries.
THEOREM GitDiffTypeCorrect == Spec => []TypeOK
<1>1. Init => GInv
  BY GInit
<1>2. GInv /\ [Next]_vars => GInv'
  BY GStep
<1>3. GInv => TypeOK
  BY DEF GInv
<1>4. QED
  BY <1>1, <1>2, <1>3, PTL DEF Spec

-----------------------------------------------------------------------------
(***************************************************************************)
(* Correctness of the conversion.  AdapterCorrect is not inductive: it     *)
(* speaks of the final states only.  The strengthening says that at every  *)
(* step the deltas before idx succeeded and the five lists are the         *)
(* reference lists of those deltas, and, inside DiffContent::try_from,     *)
(* that the finished hunks and the scanned lines of the current hunk are   *)
(* the reference ones, that no line before the cursor aborts the patch,    *)
(* and that each EOF flag records a marker before the cursor.              *)
(***************************************************************************)
\* Position q comes before position r in the order the loops visit them.
Lt(q, r) == q[1] < r[1] \/ (q[1] = r[1] /\ q[2] < r[2])
\* The positions of patch p before position r.
Passed(p, r) == { q \in Positions(p) : Lt(q, r) }
\* The positions of the current patch that the inner loops have passed.
Before == Passed(P, << h, l >>)
\* The ordinary lines of hunk hk before index m.
OrdinaryUpTo(hk, m) == { i \in 1..m - 1 : i <= Len(hk) /\ hk[i].origin = "Line" }

PatchInv ==
  /\ Cur.from_diff = "Some"
  /\ h \in 1..Len(P) + 1
  /\ h <= Len(P) => l \in 1..Len(P[h]) + 1
  /\ Len(hunks) = h - 1
  /\ \A i \in 1..h - 1 : IsSpecHunk(hunks[i], P[i])
  /\ h <= Len(P) =>
       \E g \in Enumerations(Len(lines), OrdinaryUpTo(P[h], l)) :
         \A j \in 1..Len(lines) : lines[j] = SpecLine(P[h][g[j]])
  /\ BadAt(P) \cap Before = {}
  /\ oldEof = \E q \in Before : RecAt(P, q).origin \in OldMarkers
  /\ newEof = \E q \in Before : RecAt(P, q).origin \in NewMarkers

\* The stage of the conversion and the stats it has read.
StageOK ==
  /\ pc = "stats" => idx = 1 /\ stats = NoValue
  /\ pc \in {"delta", "patch"} => stats # NoValue
  /\ pc = "done" => idx = Len(deltas) + 1
\* The deltas before idx succeeded, and the lists hold their entries.
DoneOK ==
  /\ \A j \in 1..idx - 1 : SpecErr(deltas[j]) = NoValue
  /\ \A k \in Lists : IsSpecList(out[k], idx - 1, k)
\* An error is that of the stats or of the delta at idx.
FailOK ==
  pc = "failed" =>
    \/ stats = NoValue /\ err = "Git"
    \/ stats # NoValue /\ idx <= Len(deltas) /\ SpecErr(Cur) = err

AInv == GInv /\ StageOK /\ DoneOK /\ FailOK /\ (pc = "patch" => PatchInv)

-----------------------------------------------------------------------------
\* The empty sequence keeps nothing.
LEMMA EnumEmpty ==
  [j \in 1..0 |-> 0] \in Enumerations(0, {})
BY DEF Enumerations

\* Keeping one more index x, beyond all kept ones, extends the map by x.
LEMMA EnumExtend ==
  ASSUME NEW m \in Nat, NEW I \in SUBSET Nat, NEW g \in Enumerations(m, I),
         NEW x \in Nat, \A i \in I : i < x
  PROVE  [j \in 1..m + 1 |-> IF j = m + 1 THEN x ELSE g[j]] \in Enumerations(m + 1, I \cup {x})
<1> DEFINE g2 == [j \in 1..m + 1 |-> IF j = m + 1 THEN x ELSE g[j]]
<1>1. g \in [1..m -> I] /\ \A a, b \in 1..m : a < b => g[a] < g[b]
  BY DEF Enumerations
<1>2. \A i \in I : \E j \in 1..m : g[j] = i
  BY DEF Enumerations
<1>3. g2 \in [1..m + 1 -> I \cup {x}]
  BY <1>1
<1>4. \A a, b \in 1..m + 1 : a < b => g2[a] < g2[b]
  <2> SUFFICES ASSUME NEW a \in 1..m + 1, NEW b \in 1..m + 1, a < b PROVE g2[a] < g2[b]
    OBVIOUS
  <2>1. CASE b = m + 1
    <3>1. g[a] \in I
      BY <1>1, <2>1
    <3>2. g2[a] = g[a] /\ g2[b] = x
      BY <2>1
    <3>3. g[a] < x
      BY <3>1
    <3>4. QED
      BY <3>2, <3>3
  <2>4. CASE b # m + 1
    BY <1>1, <2>4
  <2>5. QED
    BY <2>1, <2>4
<1>5. \A i \in I \cup {x} : \E j \in 1..m + 1 : g2[j] = i
  BY <1>2
<1>6. QED
  BY <1>3, <1>4, <1>5, Zenon DEF Enumerations

\* Modification::try_from agrees with the spec's table where it succeeds,
\* and fails exactly on a line with neither number.
LEMMA ModificationSpec ==
  ASSUME NEW r \in LineRec
  PROVE  /\ ModificationOf(r) = NoValue <=> (r.old = NoValue /\ r.new = NoValue)
         /\ ModificationOf(r) # NoValue => ModificationOf(r) = SpecLine(r)
BY NoValueAssumption DEF ModificationOf, SpecLine, LineRec, NumOpt, LineDiff

\* The EOF table of the code is the spec's.
LEMMA EofSpec ==
  ASSUME NEW o \in BOOLEAN, NEW n \in BOOLEAN
  PROVE  EofOf(o, n) = SpecEof(o, n)
BY DEF EofOf, SpecEof

\* created/deleted/modified and renamed/copied insert into the spec's list.
LEMMA ListSpec ==
  ASSUME NEW d \in Delta
  PROVE  /\ d.status \in FileStatuses => TargetList(d) = SpecListName(d)
         /\ d.status \in {"Renamed", "Copied"} => PairList(d) = SpecListName(d)
BY DEF TargetList, PairList, SpecListName, FileStatuses

\* Inserting the entry of delta n + 1 into its list keeps every list the
\* reference list, now of the first n + 1 deltas.
LEMMA ListStep ==
  ASSUME NEW n \in Nat, NEW o \in [Lists -> Seq(Entry)],
         \A k \in Lists : IsSpecList(o[k], n, k),
         NEW e, IsSpecEntry(e, deltas[n + 1]),
         SpecListName(deltas[n + 1]) \in Lists
  PROVE  \A k \in Lists :
           IsSpecList([o EXCEPT ![SpecListName(deltas[n + 1])] = Append(@, e)][k], n + 1, k)
<1> DEFINE k0 == SpecListName(deltas[n + 1])
           o2 == [o EXCEPT ![k0] = Append(@, e)]
<1> SUFFICES ASSUME NEW k \in Lists PROVE IsSpecList(o2[k], n + 1, k)
  OBVIOUS
<1>1. PICK g \in Enumerations(Len(o[k]), Sent(n, k)) :
             \A j \in 1..Len(o[k]) : IsSpecEntry(o[k][j], deltas[g[j]])
  BY DEF IsSpecList
<1>2. Sent(n, k) \in SUBSET Nat /\ \A i \in Sent(n, k) : i < n + 1
  BY DEF Sent
<1>3. CASE k = k0
  <2> DEFINE m == Len(o[k])
             g2 == [j \in 1..m + 1 |-> IF j = m + 1 THEN n + 1 ELSE g[j]]
  <2>1. Sent(n + 1, k) = Sent(n, k) \cup {n + 1}
    BY <1>3 DEF Sent
  <2>2. m \in Nat
    OBVIOUS
  <2>3. g2 \in Enumerations(m + 1, Sent(n, k) \cup {n + 1})
    <3>1. g \in Enumerations(m, Sent(n, k)) /\ n + 1 \in Nat
      BY <1>1
    <3>2. QED
      BY <1>2, <2>2, <3>1, EnumExtend, Zenon
  <2>4. g2 \in Enumerations(m + 1, Sent(n + 1, k))
    BY <2>1, <2>3
  <2>5. o2[k] = Append(o[k], e) /\ Len(o2[k]) = m + 1
    BY <1>3
  <2>6. \A j \in 1..m + 1 : IsSpecEntry(o2[k][j], deltas[g2[j]])
    BY <1>1, <1>3, <2>5
  <2>7. QED
    BY <2>4, <2>5, <2>6 DEF IsSpecList
<1>4. CASE k # k0
  <2>1. Sent(n + 1, k) = Sent(n, k)
    BY <1>4 DEF Sent
  <2>2. o2[k] = o[k]
    BY <1>4
  <2>3. QED
    BY <1>1, <2>1, <2>2 DEF IsSpecList
<1>5. QED
  BY <1>3, <1>4

\* A cursor in 1..n + 1 that is past n is at n + 1.
LEMMA PastEnd == ASSUME NEW n \in Nat, NEW i \in 1..n + 1, i > n PROVE i = n + 1
OBVIOUS

\* A position of a patch is a hunk index and a line index within it.
LEMMA PositionsDef ==
  ASSUME NEW p \in Patch
  PROVE  /\ \A q \in Positions(p) : \E i \in 1..Len(p) : \E j \in 1..Len(p[i]) : q = << i, j >>
         /\ \A i \in 1..Len(p) : \A j \in 1..Len(p[i]) : << i, j >> \in Positions(p)
BY DEF Positions

\* The first aborting line is the one before which no line aborts.
LEMMA FirstBadIs ==
  ASSUME NEW p \in Patch, NEW q0 \in BadAt(p), \A q \in BadAt(p) : ~Lt(q, q0)
  PROVE  FirstBad(p) = q0
<1> DEFINE Least(q) == \A r \in BadAt(p) : q[1] < r[1] \/ (q[1] = r[1] /\ q[2] <= r[2])
<1>1. \A q \in BadAt(p) : \E i \in 1..Len(p) : \E j \in 1..Len(p[i]) : q = << i, j >>
  BY PositionsDef DEF BadAt
<1>2. Least(q0)
  BY <1>1 DEF Lt
<1>3. FirstBad(p) \in BadAt(p) /\ Least(FirstBad(p))
  BY <1>2 DEF FirstBad
<1>4. QED
  BY <1>1, <1>2, <1>3

\* The cursor moves past one line of hunk h.
LEMMA PassedLine ==
  ASSUME NEW p \in Patch, NEW i \in 1..Len(p), NEW j \in 1..Len(p[i])
  PROVE  Passed(p, << i, j + 1 >>) = Passed(p, << i, j >>) \cup {<< i, j >>}
BY PositionsDef DEF Passed, Lt

\* The cursor moves from the end of hunk i to the start of hunk i + 1.
LEMMA PassedHunk ==
  ASSUME NEW p \in Patch, NEW i \in 1..Len(p)
  PROVE  Passed(p, << i + 1, 1 >>) = Passed(p, << i, Len(p[i]) + 1 >>)
BY PositionsDef DEF Passed, Lt

\* Nothing comes before the first position, and every position before the
\* end of the last hunk.
LEMMA PassedEnds ==
  ASSUME NEW p \in Patch, NEW j \in Nat
  PROVE  /\ Passed(p, << 1, 1 >>) = {}
         /\ Passed(p, << Len(p) + 1, j >>) = Positions(p)
BY PositionsDef DEF Passed, Lt

-----------------------------------------------------------------------------
\* Init establishes the strengthened invariant.
LEMMA AInit == Init => AInv
<1> SUFFICES ASSUME Init PROVE AInv
  OBVIOUS
<1>1. GInv
  BY GInit
<1>2. \A k \in Lists : IsSpecList(out[k], 0, k)
  <2> SUFFICES ASSUME NEW k \in Lists PROVE IsSpecList(out[k], 0, k)
    OBVIOUS
  <2>1. out[k] = << >> /\ Sent(0, k) = {}
    BY DEF Init, Sent
  <2>2. Len(out[k]) = 0
    BY <2>1
  <2>3. [j \in 1..0 |-> 0] \in Enumerations(Len(out[k]), Sent(0, k))
    BY <2>1, <2>2, EnumEmpty
  <2>4. QED
    BY <2>2, <2>3 DEF IsSpecList
<1>3. QED
  BY <1>1, <1>2 DEF Init, AInv, StageOK, DoneOK, FailOK

\* The strengthened invariant gives the correctness of the outcome.
LEMMA AInvCorrect == AInv => AdapterCorrect
BY DEF AInv, StageOK, DoneOK, FailOK, AdapterCorrect, Cur

\* A delta, or a line of its patch, fails with the error the spec gives it.
LEMMA FailStep ==
  ASSUME AInv, GInv', pc \in {"delta", "patch"}, idx <= Len(deltas),
         NEW e, SpecErr(Cur) = e, Fail(e)
  PROVE  AInv'
<1>1. stats # NoValue
  BY DEF AInv, StageOK
<1>2. StageOK' /\ FailOK'
  BY <1>1 DEF Fail, StageOK, FailOK, Cur
<1>3. DoneOK'
  BY DEF Fail, AInv, DoneOK, IsSpecList, Sent
<1>4. QED
  BY <1>2, <1>3 DEF AInv, Fail

\* A delta succeeds: its entry goes to its list and the loop moves on.
LEMMA InsertStep ==
  ASSUME AInv, GInv', pc \in {"delta", "patch"}, pc' = "delta",
         idx <= Len(deltas), idx' = idx + 1,
         deltas' = deltas, stats' = stats,
         NEW e, IsSpecEntry(e, Cur), SpecListName(Cur) \in Lists, SpecErr(Cur) = NoValue,
         out' = [out EXCEPT ![SpecListName(Cur)] = Append(@, e)]
  PROVE  AInv'
<1>1. idx \in Nat \ {0} /\ out \in [Lists -> Seq(Entry)]
  BY DEF AInv, GInv, TypeOK
<1>2. StageOK'
  BY DEF AInv, StageOK
<1>3. \A j \in 1..idx : SpecErr(deltas[j]) = NoValue
  BY <1>1 DEF AInv, DoneOK, Cur
<1>4. \A k \in Lists : IsSpecList(out'[k], idx, k)
  <2>1. idx - 1 \in Nat /\ (idx - 1) + 1 = idx
    BY <1>1
  <2>2. \A k \in Lists : IsSpecList(out[k], idx - 1, k)
    BY DEF AInv, DoneOK
  <2>3. QED
    BY <1>1, <2>1, <2>2, ListStep DEF Cur
<1>5. DoneOK'
  <2>1. idx' - 1 = idx
    BY <1>1
  <2>2. (\A j \in 1..idx - 1 : SpecErr(deltas[j]) = NoValue)'
    BY <1>3, <2>1
  <2>3. ASSUME NEW k \in Lists PROVE IsSpecList(out[k], idx - 1, k)'
    <3>1. Sent(idx - 1, k)' = Sent(idx, k)
      BY <2>1 DEF Sent
    <3>2. IsSpecList(out'[k], idx, k)
      BY <1>4
    <3>3. QED
      BY <3>1, <3>2 DEF IsSpecList
  <2>4. QED
    BY <2>2, <2>3 DEF DoneOK
<1>6. QED
  BY <1>2, <1>5 DEF AInv, FailOK

\* While a patch is converted, the current delta is a file delta with a
\* path and a patch.
LEMMA PatchFacts ==
  ASSUME AInv, pc = "patch"
  PROVE  /\ idx <= Len(deltas) /\ Cur \in Delta /\ P \in Patch
         /\ Cur.status \in FileStatuses /\ FilePath(Cur) # NoValue
         /\ PatchInv
<1>1. idx <= Len(deltas) /\ Cur.status \in FileStatuses /\ FilePath(Cur) # NoValue
  BY DEF AInv, GInv
<1>2. Cur \in Delta
  BY <1>1, CurType DEF AInv, GInv
<1>3. QED
  BY <1>1, <1>2 DEF AInv, P, Delta

\* A step inside the patch loops that keeps the loop invariant keeps the
\* whole invariant: the outer state is untouched.
LEMMA InnerStep ==
  ASSUME AInv, GInv', pc = "patch", pc' = "patch",
         UNCHANGED <<deltas, idx, out, stats, err>>, PatchInv'
  PROVE  AInv'
<1>1. StageOK' /\ FailOK'
  BY DEF AInv, StageOK, FailOK
<1>2. DoneOK'
  BY DEF AInv, DoneOK, IsSpecList, Sent
<1>3. QED
  BY <1>1, <1>2 DEF AInv

\* MarkerLine: a marker is no ordinary line and aborts nothing; the flag of
\* its side records it.
LEMMA MarkerStep ==
  ASSUME AInv, GInv', MarkerLine
  PROVE  AInv'
<1>1. /\ idx <= Len(deltas) /\ P \in Patch /\ PatchInv
      /\ h \in 1..Len(P) /\ l \in 1..Len(P[h])
  BY PatchFacts DEF MarkerLine, InLine, PatchInv
<1>2. Cur' = Cur /\ P' = P /\ Rec \in LineRec /\ Rec.origin \in Markers
  BY <1>1 DEF MarkerLine, Cur, P, Rec, InLine, Patch
<1>3. Before' = Before \cup {<< h, l >>}
  BY <1>1, <1>2, PassedLine DEF MarkerLine, Before
<1>4. << h, l >> \notin BadAt(P)
  BY <1>2 DEF BadAt, RecAt, Rec, Markers
<1>5. OrdinaryUpTo(P[h], l + 1) = OrdinaryUpTo(P[h], l)
  BY <1>1, <1>2 DEF OrdinaryUpTo, Rec, Markers
<1>6. RecAt(P, << h, l >>) = Rec
  BY DEF RecAt, Rec
<1>7. PatchInv'
  <2>1. (Cur.from_diff = "Some" /\ h \in 1..Len(P) + 1)'
    BY <1>1, <1>2 DEF MarkerLine, PatchInv
  <2>2. (h <= Len(P) => l \in 1..Len(P[h]) + 1)'
    BY <1>1, <1>2 DEF MarkerLine
  <2>3. (Len(hunks) = h - 1 /\ \A i \in 1..h - 1 : IsSpecHunk(hunks[i], P[i]))'
    BY <1>1, <1>2 DEF MarkerLine, PatchInv
  <2>4. (h <= Len(P) =>
          \E g \in Enumerations(Len(lines), OrdinaryUpTo(P[h], l)) :
            \A j \in 1..Len(lines) : lines[j] = SpecLine(P[h][g[j]]))'
    BY <1>1, <1>2, <1>5 DEF MarkerLine, PatchInv
  <2>5. (BadAt(P) \cap Before = {})'
    BY <1>1, <1>2, <1>3, <1>4 DEF PatchInv
  <2>6. oldEof' = \E q \in Before' : RecAt(P, q).origin \in OldMarkers
    BY <1>1, <1>3, <1>6 DEF MarkerLine, PatchInv, OldMarkers
  <2>7. newEof' = \E q \in Before' : RecAt(P, q).origin \in NewMarkers
    BY <1>1, <1>3, <1>6 DEF MarkerLine, PatchInv, NewMarkers
  <2>8. QED
    BY <1>2, <2>1, <2>2, <2>3, <2>4, <2>5, <2>6, <2>7 DEF PatchInv
<1>8. pc = "patch" /\ pc' = "patch" /\ UNCHANGED <<deltas, idx, out, stats, err>>
  BY DEF MarkerLine, InLine
<1>9. QED
  BY <1>7, <1>8, InnerStep

\* PushLine: an ordinary line with a number is classified as the spec's
\* table says and extends the scanned lines; it aborts nothing and sets no
\* flag.
LEMMA PushStep ==
  ASSUME AInv, GInv', PushLine
  PROVE  AInv'
<1>1. /\ idx <= Len(deltas) /\ P \in Patch /\ PatchInv
      /\ h \in 1..Len(P) /\ l \in 1..Len(P[h])
      /\ lines \in Seq(LineDiff)
  BY PatchFacts DEF PushLine, InLine, PatchInv, AInv, GInv, TypeOK
<1>2. Cur' = Cur /\ P' = P /\ Rec \in LineRec /\ Rec.origin = "Line"
  BY <1>1 DEF PushLine, Cur, P, Rec, InLine, Patch
<1>3. Before' = Before \cup {<< h, l >>}
  BY <1>1, <1>2, PassedLine DEF PushLine, Before
<1>4. ModificationOf(Rec) = SpecLine(Rec) /\ ~(Rec.old = NoValue /\ Rec.new = NoValue)
  BY <1>2, ModificationSpec DEF PushLine
<1>5. << h, l >> \notin BadAt(P)
  BY <1>2, <1>4 DEF BadAt, RecAt, Rec
<1>6. RecAt(P, << h, l >>) = Rec
  BY DEF RecAt, Rec
<1>7. (\E g \in Enumerations(Len(lines), OrdinaryUpTo(P[h], l)) :
         \A j \in 1..Len(lines) : lines[j] = SpecLine(P[h][g[j]]))'
  <2>1. PICK g \in Enumerations(Len(lines), OrdinaryUpTo(P[h], l)) :
               \A j \in 1..Len(lines) : lines[j] = SpecLine(P[h][g[j]])
    BY <1>1 DEF PatchInv
  <2> DEFINE m == Len(lines)
             g2 == [j \in 1..m + 1 |-> IF j = m + 1 THEN l ELSE g[j]]
  <2>2. OrdinaryUpTo(P[h], l + 1) = OrdinaryUpTo(P[h], l) \cup {l}
    BY <1>1, <1>2 DEF OrdinaryUpTo, Rec
  <2>3. OrdinaryUpTo(P[h], l) \in SUBSET Nat /\ \A i \in OrdinaryUpTo(P[h], l) : i < l
    BY <1>1 DEF OrdinaryUpTo
  <2>4. m \in Nat /\ l \in Nat
    BY <1>1
  <2>5. g2 \in Enumerations(m + 1, OrdinaryUpTo(P[h], l) \cup {l})
    BY <2>1, <2>3, <2>4, EnumExtend
  <2>6. lines' = Append(lines, SpecLine(Rec)) /\ Len(lines') = m + 1
    BY <1>1, <1>4 DEF PushLine
  <2>7. \A j \in 1..m + 1 : lines'[j] = SpecLine(P[h][g2[j]])
    BY <1>1, <2>1, <2>4, <2>6 DEF Rec
  <2>8. QED
    BY <1>2, <2>2, <2>5, <2>6, <2>7 DEF PushLine
<1>8. PatchInv'
  <2>1. (Cur.from_diff = "Some" /\ h \in 1..Len(P) + 1)'
    BY <1>1, <1>2 DEF PushLine, PatchInv
  <2>2. (h <= Len(P) => l \in 1..Len(P[h]) + 1)'
    BY <1>1, <1>2 DEF PushLine
  <2>3. (Len(hunks) = h - 1 /\ \A i \in 1..h - 1 : IsSpecHunk(hunks[i], P[i]))'
    BY <1>1, <1>2 DEF PushLine, PatchInv
  <2>4. (BadAt(P) \cap Before = {})'
    BY <1>1, <1>2, <1>3, <1>5 DEF PatchInv
  <2>5. oldEof' = \E q \in Before' : RecAt(P, q).origin \in OldMarkers
    BY <1>1, <1>2, <1>3, <1>6 DEF PushLine, PatchInv, OldMarkers
  <2>6. newEof' = \E q \in Before' : RecAt(P, q).origin \in NewMarkers
    BY <1>1, <1>2, <1>3, <1>6 DEF PushLine, PatchInv, NewMarkers
  <2>7. QED
    BY <1>2, <1>7, <2>1, <2>2, <2>3, <2>4, <2>5, <2>6 DEF PatchInv
<1>9. pc = "patch" /\ pc' = "patch" /\ UNCHANGED <<deltas, idx, out, stats, err>>
  BY DEF PushLine, InLine
<1>10. QED
  BY <1>8, <1>9, InnerStep

\* EndHunk: the scanned lines are the whole hunk's ordinary lines, so the
\* pushed hunk is the reference hunk; the next hunk starts with nothing
\* scanned and the same positions passed.
LEMMA EndHunkStep ==
  ASSUME AInv, GInv', EndHunk
  PROVE  AInv'
<1>1. /\ idx <= Len(deltas) /\ P \in Patch /\ PatchInv
      /\ h \in 1..Len(P) /\ l = Len(P[h]) + 1
      /\ lines \in Seq(LineDiff) /\ hunks \in Seq(Seq(LineDiff))
  BY PatchFacts DEF EndHunk, PatchInv, AInv, GInv, TypeOK
<1>2. Cur' = Cur /\ P' = P
  BY DEF EndHunk, Cur, P
<1>3. Before' = Before
  BY <1>1, <1>2, PassedHunk DEF EndHunk, Before
<1>4. IsSpecHunk(lines, P[h])
  <2>1. OrdinaryUpTo(P[h], l) = Ordinary(P[h])
    BY <1>1 DEF OrdinaryUpTo, Ordinary
  <2>2. QED
    BY <1>1, <2>1 DEF PatchInv, IsSpecHunk
<1>5. (Len(hunks) = h - 1 /\ \A i \in 1..h - 1 : IsSpecHunk(hunks[i], P[i]))'
  <2>1. hunks' = Append(hunks, lines) /\ h' = h + 1
    BY DEF EndHunk
  <2>2. Len(hunks') = h /\ hunks'[h] = lines
    BY <1>1, <2>1 DEF PatchInv
  <2>3. \A i \in 1..h - 1 : hunks'[i] = hunks[i]
    BY <1>1, <2>1 DEF PatchInv
  <2>4. QED
    BY <1>1, <1>2, <1>4, <2>1, <2>2, <2>3 DEF PatchInv
<1>6. (\E g \in Enumerations(Len(lines), OrdinaryUpTo(P[h], l)) :
         \A j \in 1..Len(lines) : lines[j] = SpecLine(P[h][g[j]]))'
  <2>1. lines' = << >> /\ l' = 1
    BY DEF EndHunk
  <2>2. OrdinaryUpTo(P[h], l)' = {} /\ Len(lines') = 0
    BY <2>1 DEF OrdinaryUpTo
  <2>3. [j \in 1..0 |-> 0] \in Enumerations(Len(lines'), OrdinaryUpTo(P[h], l)')
    BY <2>2, EnumEmpty
  <2>4. QED
    BY <2>2, <2>3
<1>7. PatchInv'
  <2>1. (Cur.from_diff = "Some" /\ h \in 1..Len(P) + 1)'
    BY <1>1, <1>2 DEF EndHunk, PatchInv
  <2>2. (h <= Len(P) => l \in 1..Len(P[h]) + 1)'
    BY <1>1, <1>2 DEF EndHunk
  <2>3. (BadAt(P) \cap Before = {})'
    BY <1>1, <1>2, <1>3 DEF PatchInv
  <2>4. (oldEof = \E q \in Before : RecAt(P, q).origin \in OldMarkers)'
    BY <1>1, <1>2, <1>3 DEF EndHunk, PatchInv
  <2>5. (newEof = \E q \in Before : RecAt(P, q).origin \in NewMarkers)'
    BY <1>1, <1>2, <1>3 DEF EndHunk, PatchInv
  <2>6. QED
    BY <1>5, <1>6, <2>1, <2>2, <2>3, <2>4, <2>5 DEF PatchInv
<1>8. pc = "patch" /\ pc' = "patch" /\ UNCHANGED <<deltas, idx, out, stats, err>>
  BY DEF EndHunk
<1>9. QED
  BY <1>7, <1>8, InnerStep

\* EndPatch: every position of the patch has been passed, none aborts, the
\* flags are the markers of the whole patch, and all hunks are the reference
\* hunks; the file's entry is the reference entry and the delta succeeds.
LEMMA EndPatchStep ==
  ASSUME AInv, GInv', EndPatch
  PROVE  AInv'
<1>1. /\ idx <= Len(deltas) /\ Cur \in Delta /\ P \in Patch /\ PatchInv
      /\ Cur.status \in FileStatuses /\ FilePath(Cur) # NoValue
      /\ h = Len(P) + 1 /\ l \in Nat
      /\ oldEof \in BOOLEAN /\ newEof \in BOOLEAN
  <2>1. /\ idx <= Len(deltas) /\ Cur \in Delta /\ P \in Patch /\ PatchInv
        /\ Cur.status \in FileStatuses /\ FilePath(Cur) # NoValue
    BY PatchFacts DEF EndPatch
  <2>2. Len(P) \in Nat /\ h \in 1..Len(P) + 1 /\ h > Len(P)
    BY <2>1 DEF EndPatch, PatchInv
  <2>3. h = Len(P) + 1
    BY <2>2, PastEnd, Zenon
  <2>4. l \in Nat
    BY DEF AInv, GInv, TypeOK
  <2>5. oldEof \in BOOLEAN /\ newEof \in BOOLEAN
    BY DEF AInv, GInv, TypeOK
  <2>6. QED
    BY <2>1, <2>3, <2>4, <2>5
<1>2. Before = Positions(P)
  BY <1>1, PassedEnds DEF Before
<1>3. BadAt(P) = {}
  BY <1>1, <1>2 DEF PatchInv, BadAt
<1>4. oldEof = HasMarker(P, OldMarkers) /\ newEof = HasMarker(P, NewMarkers)
  BY <1>1, <1>2 DEF PatchInv, HasMarker
<1>5. SpecErr(Cur) = NoValue
  BY <1>1, <1>3 DEF SpecErr, FilePath, FileStatuses, PatchInv, P
<1> DEFINE c == [kind |-> "Plain", hunks |-> hunks, eof |-> EofOf(oldEof, newEof)]
           e == [path |-> FilePath(Cur), content |-> c]
<1>6. IsSpecContent(c, P)
  <2>1. EofOf(oldEof, newEof) = SpecEof(HasMarker(P, OldMarkers), HasMarker(P, NewMarkers))
    BY <1>1, <1>4, EofSpec
  <2>2. Len(hunks) = Len(P) /\ \A i \in 1..Len(P) : IsSpecHunk(hunks[i], P[i])
    BY <1>1 DEF PatchInv
  <2>3. QED
    BY <2>1, <2>2 DEF IsSpecContent
<1>7. IsSpecEntry(e, Cur)
  BY <1>1, <1>6 DEF IsSpecEntry, FilePath, FileStatuses, PatchInv, P
<1>8. TargetList(Cur) = SpecListName(Cur) /\ SpecListName(Cur) \in Lists
  BY <1>1, ListSpec, FileDeltaFacts
<1>9. out' = [out EXCEPT ![SpecListName(Cur)] = Append(@, e)]
  BY <1>8 DEF EndPatch, Insert
<1>10. /\ pc = "patch" /\ pc' = "delta" /\ idx' = idx + 1
       /\ deltas' = deltas /\ stats' = stats
  BY DEF EndPatch
<1>11. QED
  BY <1>1, <1>5, <1>7, <1>8, <1>9, <1>10, InsertStep

\* A line that aborts the patch under the cursor is the patch's first
\* aborting line, and the delta fails with the patch's error.
LEMMA AbortAtCursor ==
  ASSUME AInv, InLine, << h, l >> \in BadAt(P)
  PROVE  /\ idx <= Len(deltas)
         /\ SpecErr(Cur) = SpecPatchErr(P)
         /\ RecAt(P, FirstBad(P)) = Rec
<1>1. /\ idx <= Len(deltas) /\ Cur \in Delta /\ P \in Patch /\ PatchInv
      /\ Cur.status \in FileStatuses /\ FilePath(Cur) # NoValue
  BY PatchFacts DEF InLine
<1>2. \A q \in BadAt(P) : ~Lt(q, << h, l >>)
  BY <1>1 DEF PatchInv, Before, Passed, BadAt
<1>3. FirstBad(P) = << h, l >>
  BY <1>1, <1>2, FirstBadIs
<1>4. SpecErr(Cur) = SpecPatchErr(P)
  BY <1>1 DEF SpecErr, FilePath, FileStatuses, PatchInv, P
<1>5. QED
  BY <1>1, <1>3, <1>4 DEF RecAt, Rec

\* LineFetchFail: the failed fetch is the first aborting line: Git.
LEMMA LineFetchFailStep ==
  ASSUME AInv, GInv', LineFetchFail
  PROVE  AInv'
<1>1. << h, l >> \in BadAt(P) /\ Rec.origin = "FetchError"
  <2>1. P \in Patch /\ PatchInv /\ h \in 1..Len(P) /\ l \in 1..Len(P[h])
    BY PatchFacts DEF LineFetchFail, InLine, PatchInv
  <2>2. << h, l >> \in Positions(P)
    BY <2>1, PositionsDef
  <2>3. QED
    BY <2>2 DEF LineFetchFail, BadAt, RecAt, Rec
<1>2. idx <= Len(deltas) /\ SpecErr(Cur) = "Git"
  BY <1>1, AbortAtCursor DEF LineFetchFail, SpecPatchErr
<1>3. QED
  BY <1>2, FailStep DEF LineFetchFail, InLine

\* InvalidLine: the line with no numbers is the first aborting line:
\* Invalid.
LEMMA InvalidLineStep ==
  ASSUME AInv, GInv', InvalidLine
  PROVE  AInv'
<1>1. << h, l >> \in BadAt(P) /\ Rec.origin = "Line"
  <2>1. P \in Patch /\ PatchInv /\ h \in 1..Len(P) /\ l \in 1..Len(P[h])
    BY PatchFacts DEF InvalidLine, InLine, PatchInv
  <2>2. << h, l >> \in Positions(P)
    BY <2>1, PositionsDef
  <2>3. Rec \in LineRec
    BY <2>1 DEF Rec, Patch
  <2>4. Rec.old = NoValue /\ Rec.new = NoValue
    BY <2>3, ModificationSpec DEF InvalidLine
  <2>5. QED
    BY <2>2, <2>4 DEF InvalidLine, BadAt, RecAt, Rec
<1>2. idx <= Len(deltas) /\ SpecErr(Cur) = "Invalid"
  BY <1>1, AbortAtCursor DEF InvalidLine, SpecPatchErr
<1>3. QED
  BY <1>2, FailStep DEF InvalidLine, InLine

\* Every step preserves the strengthened invariant.
LEMMA AStep == AInv /\ [Next]_vars => AInv'
<1> SUFFICES ASSUME AInv, [Next]_vars PROVE AInv'
  OBVIOUS
<1>0. GInv'
  BY GStep DEF AInv
<1>a. TypeOK /\ (InDelta => Cur \in Delta)
  BY CurType DEF AInv, GInv, TypeOK, InDelta
\* The per-delta errors, each the one the spec gives the delta.
<1>1. CASE PathMissing
  <2>1. SpecErr(Cur) = "PathUnavailable"
    BY <1>1 DEF PathMissing, SpecErr, FilePath, FileStatuses
  <2>2. QED
    BY <1>0, <1>1, <2>1, FailStep DEF PathMissing, InDelta
<1>2. CASE PatchFail
  <2>1. SpecErr(Cur) = "Git"
    BY <1>2 DEF PatchFail, SpecErr, FilePath, FileStatuses
  <2>2. QED
    BY <1>0, <1>2, <2>1, FailStep DEF PatchFail, InDelta
<1>3. CASE NoPatch
  <2>1. SpecErr(Cur) = "PatchUnavailable"
    BY <1>3 DEF NoPatch, SpecErr, FilePath, FileStatuses
  <2>2. QED
    BY <1>0, <1>3, <2>1, FailStep DEF NoPatch, InDelta
<1>4. CASE PairMissing
  <2>1. SpecErr(Cur) = "PathUnavailable"
    BY <1>4 DEF PairMissing, SpecErr
  <2>2. QED
    BY <1>0, <1>4, <2>1, FailStep DEF PairMissing, InDelta
<1>5. CASE Unhandled
  <2>1. SpecErr(Cur) = "DeltaUnhandled"
    BY <1>5 DEF Unhandled, SpecErr, FileStatuses
  <2>2. QED
    BY <1>0, <1>5, <2>1, FailStep DEF Unhandled, InDelta
\* The per-delta inserts.
<1>6. CASE InsertBinary
  <2> DEFINE e == [path |-> FilePath(Cur), content |-> [kind |-> "Binary"]]
  <2>1. Cur \in Delta /\ Cur.status \in FileStatuses /\ FilePath(Cur) # NoValue
    BY <1>6, <1>a DEF InsertBinary
  <2>2. SpecErr(Cur) = NoValue /\ IsSpecEntry(e, Cur)
    BY <1>6, <2>1 DEF InsertBinary, SpecErr, IsSpecEntry, FilePath, FileStatuses
  <2>3. TargetList(Cur) = SpecListName(Cur) /\ SpecListName(Cur) \in Lists
    BY <2>1, ListSpec, FileDeltaFacts
  <2>4. QED
    BY <1>0, <1>6, <2>2, <2>3, InsertStep DEF InsertBinary, InDelta, Insert
<1>7. CASE InsertPair
  <2> DEFINE e == [old |-> Cur.old, new |-> Cur.new]
  <2>1. Cur \in Delta /\ Cur.status \in {"Renamed", "Copied"}
    BY <1>7, <1>a DEF InsertPair
  <2>2. SpecErr(Cur) = NoValue /\ IsSpecEntry(e, Cur)
    BY <1>7, <2>1 DEF InsertPair, SpecErr, IsSpecEntry
  <2>3. PairList(Cur) = SpecListName(Cur) /\ SpecListName(Cur) \in Lists
    BY <2>1, ListSpec DEF PairList, Lists
  <2>4. QED
    BY <1>0, <1>7, <2>2, <2>3, InsertStep DEF InsertPair, InDelta, Insert
\* The inner loops.
<1>8. CASE MarkerLine
  BY <1>0, <1>8, MarkerStep
<1>9. CASE PushLine
  BY <1>0, <1>9, PushStep
<1>10. CASE EndHunk
  BY <1>0, <1>10, EndHunkStep
<1>11. CASE EndPatch
  BY <1>0, <1>11, EndPatchStep
<1>12. CASE LineFetchFail
  BY <1>0, <1>12, LineFetchFailStep
<1>13. CASE InvalidLine
  BY <1>0, <1>13, InvalidLineStep
\* Reading the stats, its failure, the start of a patch and the end.
<1>14. CASE GetStats
  <2>1. stats' # NoValue
    BY <1>14, NoValueAssumption DEF GetStats
  <2>2. QED
    BY <1>0, <1>14, <2>1 DEF GetStats, AInv, StageOK, DoneOK, FailOK, IsSpecList, Sent
<1>15. CASE StatsFail
  <2>1. stats = NoValue
    BY <1>15 DEF StatsFail, AInv, StageOK
  <2>2. QED
    BY <1>0, <1>15, <2>1 DEF StatsFail, Fail, AInv, StageOK, DoneOK, FailOK, IsSpecList, Sent
<1>16. CASE StartPatch
  <2>1. Cur \in Delta /\ P \in Patch /\ Cur.from_diff = "Some"
    BY <1>16, <1>a DEF StartPatch, InDelta, P, Delta
  <2>2. Cur' = Cur /\ P' = P /\ h' = 1 /\ l' = 1
    BY <1>16 DEF StartPatch, Cur, P
  <2>3. Before' = {}
    BY <2>1, <2>2, PassedEnds DEF Before
  <2>4. OrdinaryUpTo(P[h], l)' = {} /\ Len(lines') = 0 /\ Len(hunks') = 0
    BY <1>16, <2>2 DEF StartPatch, OrdinaryUpTo
  <2>5. [j \in 1..0 |-> 0] \in Enumerations(Len(lines'), OrdinaryUpTo(P[h], l)')
    BY <2>4, EnumEmpty
  <2>6. PatchInv'
    <3>1. (Cur.from_diff = "Some" /\ h \in 1..Len(P) + 1)'
      BY <2>1, <2>2
    <3>2. (h <= Len(P) => l \in 1..Len(P[h]) + 1)'
      BY <2>1, <2>2
    <3>3. (Len(hunks) = h - 1 /\ \A i \in 1..h - 1 : IsSpecHunk(hunks[i], P[i]))'
      BY <2>2, <2>4
    <3>4. (BadAt(P) \cap Before = {})'
      BY <2>2, <2>3
    <3>5. oldEof' = FALSE /\ newEof' = FALSE
      BY <1>16 DEF StartPatch
    <3>6. (/\ oldEof = \E q \in Before : RecAt(P, q).origin \in OldMarkers
           /\ newEof = \E q \in Before : RecAt(P, q).origin \in NewMarkers)'
      BY <2>3, <3>5
    <3>7. (h <= Len(P) =>
             \E g \in Enumerations(Len(lines), OrdinaryUpTo(P[h], l)) :
               \A j \in 1..Len(lines) : lines[j] = SpecLine(P[h][g[j]]))'
      BY <2>4, <2>5
    <3>8. QED
      BY <3>1, <3>2, <3>3, <3>4, <3>6, <3>7 DEF PatchInv
  <2>7. stats # NoValue /\ pc' = "patch" /\ UNCHANGED <<deltas, idx, out, stats, err>>
    BY <1>16 DEF StartPatch, InDelta, AInv, StageOK
  <2>8. StageOK' /\ DoneOK' /\ FailOK'
    BY <2>7 DEF AInv, StageOK, DoneOK, FailOK, IsSpecList, Sent
  <2>9. QED
    BY <1>0, <2>6, <2>8 DEF AInv
<1>17. CASE AllDone
  <2>1. idx = Len(deltas) + 1
    <3>1. Len(deltas) \in Nat /\ idx \in 1..Len(deltas) + 1 /\ idx > Len(deltas)
      BY <1>17 DEF AllDone, AInv, GInv, TypeOK
    <3>2. QED
      BY <3>1, PastEnd, Zenon
  <2>2. pc' = "done" /\ UNCHANGED <<deltas, idx, out, stats, err>>
    BY <1>17 DEF AllDone
  <2>3. StageOK' /\ FailOK'
    BY <2>1, <2>2 DEF StageOK, FailOK
  <2>4. DoneOK'
    BY <2>2 DEF AInv, DoneOK, IsSpecList, Sent
  <2>5. QED
    BY <1>0, <2>2, <2>3, <2>4 DEF AInv
<1>18. CASE UNCHANGED vars
  BY <1>0, <1>18 DEF vars, AInv, StageOK, DoneOK, FailOK, IsSpecList, Sent, PatchInv,
                     Cur, P, Before, Passed, OrdinaryUpTo
<1>19. QED
  BY <1>1, <1>2, <1>3, <1>4, <1>5, <1>6, <1>7, <1>8, <1>9, <1>10, <1>11, <1>12, <1>13,
     <1>14, <1>15, <1>16, <1>17, <1>18 DEF Next

\* Diff::try_from is the reference conversion of section 4.3, for every
\* git2::Diff: when it returns Ok, every delta succeeded and the five lists
\* hold, in delta order, exactly the reference entries of the deltas of
\* their status (hunks without EOF markers, the EOF outcome of the whole
\* patch); when it returns Err, the error is that of git_diff.stats() or
\* that of the first failing delta (its first aborting line, for a patch),
\* and the lists hold exactly the deltas before it.
THEOREM AdapterCorrectHolds == Spec => []AdapterCorrect
<1>1. Init => AInv
  BY AInit
<1>2. AInv /\ [Next]_vars => AInv'
  BY AStep
<1>3. AInv => AdapterCorrect
  BY AInvCorrect
<1>4. QED
  BY <1>1, <1>2, <1>3, PTL DEF Spec

=============================================================================
