------------------------------ MODULE MC_GitDiff ------------------------------
(***************************************************************************)
(* Instances of the content-diff adapter for TLC.                         *)
(***************************************************************************)
EXTENDS GitDiff

MCPaths == {"a"}
MCNums == {1}

\* Sequences of at most two elements of S.
UpTo2(S) == {<< >>} \cup {<< x >> : x \in S} \cup {<< x, y >> : x, y \in S}

\* Every native line record over one line number: the four number
\* combinations of an ordinary line, the three EOF markers and a failed fetch.
LineKinds ==
  {[origin |-> "Line", old |-> o, new |-> n] : o, n \in MCNums \cup {NoValue}}
    \cup {[origin |-> m, old |-> NoValue, new |-> NoValue] : m \in Markers \cup {"FetchError"}}

\* One modified text file whose patch has at most two hunks of at most two
\* lines each.
LinesInputs ==
  { << [status |-> "Modified", old |-> "a", new |-> "a", from_diff |-> "Some",
         patch |-> p, binary |-> FALSE] >> :
      p \in UpTo2(UpTo2(LineKinds)) }

AddLine == [origin |-> "Line", old |-> NoValue, new |-> 1]

\* Every kind of delta: each status, each combination of missing paths, no
\* patch, a failing patch, an empty patch and a one-line patch, binary or not.
DeltaKinds ==
  { [status |-> s, old |-> pp[1], new |-> pp[2], from_diff |-> fp[1], patch |-> fp[2],
     binary |-> b] :
      s \in DeltaStatus,
      pp \in {<< "a", "a" >>, << NoValue, "a" >>, << "a", NoValue >>},
      fp \in {<< "None", << >> >>, << "Error", << >> >>, << "Some", << >> >>,
             << "Some", << << AddLine >> >> >>},
      b \in BOOLEAN }

\* git2::Diff values of at most two deltas.
DeltasInputs == UpTo2(DeltaKinds)
=============================================================================
