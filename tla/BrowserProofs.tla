---------------------------- MODULE BrowserProofs ----------------------------
(***************************************************************************)
(* Proofs about the Browser model: type correctness and that a Browser's   *)
(* own calls never leave it stale, for every set of Browsers, namespaces,  *)
(* revisions and every resolution table.                                   *)
(***************************************************************************)
EXTENDS Browser, TLAPS

Inv == TypeOK /\ StaleOnlyByOthers

\* A resolve that succeeds yields a History.
LEMMA ResolveType ==
  ASSUME BrowserAssumption, NEW n \in NS, NEW r \in Revs, Resolve[n][r] # Err
  PROVE  Resolve[n][r] \in Histories
BY DEF BrowserAssumption

\* Every constructor, switch and navigation step keeps the type invariant
\* and staleness-only-by-others together (the inductive invariant Inv).
LEMMA InvInductive == Init /\ [][Next]_vars => []Inv
<1> USE BrowserAssumption
<1>1. Init => Inv
  BY DEF Init, Inv, TypeOK, StaleOnlyByOthers, NS
<1>2. Inv /\ [Next]_vars => Inv'
  <2> SUFFICES ASSUME Inv, [Next]_vars PROVE Inv'
    OBVIOUS
  <2>1. ASSUME NEW b \in Browsers, NEW r \in Revs, New(b, r) PROVE Inv'
    <3>1. GetHistory(r) \in Histories
      BY <2>1, ResolveType DEF New, GetHistory, Inv, TypeOK
    <3> QED BY <2>1, <3>1 DEF New, Set, Inv, TypeOK, StaleOnlyByOthers
  <2>2. ASSUME NEW b \in Browsers, NEW n \in Namespaces, NEW r \in Revs,
               NewWithNamespace(b, n, r) PROVE Inv'
    <3>1. CASE Resolve[n][r] # Err
      <4>1. Resolve[n][r] \in Histories
        BY <3>1, ResolveType DEF NS
      <4> QED BY <2>2, <3>1, <4>1 DEF NewWithNamespace, Inv, TypeOK, StaleOnlyByOthers, NS
    <3>2. CASE Resolve[n][r] = Err
      BY <2>2, <3>2 DEF NewWithNamespace, Inv, TypeOK, StaleOnlyByOthers, NS
    <3> QED BY <3>1, <3>2
  <2>3. ASSUME NEW b \in Browsers, NEW n \in Namespaces, NEW r \in Revs,
               SwitchNamespace(b, n, r) PROVE Inv'
    <3>1. CASE Resolve[n][r] # Err
      <4>1. Resolve[n][r] \in Histories
        BY <3>1, ResolveType DEF NS
      <4> QED BY <2>3, <3>1, <4>1 DEF SwitchNamespace, Inv, TypeOK, StaleOnlyByOthers, NS
    <3>2. CASE Resolve[n][r] = Err
      BY <2>3, <3>2 DEF SwitchNamespace, Inv, TypeOK, StaleOnlyByOthers, NS
    <3> QED BY <3>1, <3>2
  <2>4. ASSUME NEW b \in Browsers, SwitchFail(b) PROVE Inv'
    BY <2>4 DEF SwitchFail, Inv, TypeOK, StaleOnlyByOthers
  <2>5. ASSUME NEW b \in Browsers, NEW r \in Revs, NEW check, Navigate(b, r, check)
        PROVE Inv'
    <3>1. GetHistory(r) \in Histories
      BY <2>5, ResolveType DEF Navigate, GetHistory, Inv, TypeOK
    <3> QED BY <2>5, <3>1 DEF Navigate, Set, Inv, TypeOK, StaleOnlyByOthers
  <2>6. CASE UNCHANGED vars
    BY <2>6 DEF vars, Inv, TypeOK, StaleOnlyByOthers
  <2> QED BY <2>1, <2>2, <2>3, <2>4, <2>5, <2>6
          DEF Next, Head, Branch, Tag, Commit, Rev
<1> QED BY <1>1, <1>2, PTL

\* Browser construction returns Err rather than a Browser without a
\* History (new, new_with_namespace, switch_namespace resolve before they
\* build): a live Browser always has a History, and the namespace, the
\* Browsers and the last switcher keep their types.
THEOREM BrowserTypeCorrect == Spec => []TypeOK
<1>1. Inv => TypeOK
  BY DEF Inv
<1> QED BY <1>1, InvInductive, PTL DEF Spec

\* switch_namespace and new_with_namespace set the Repository's namespace
\* before they resolve, and navigation resolves in the current namespace:
\* a live Browser stale with respect to the Repository's namespace was made
\* so by another Browser.
THEOREM StaleOnlyByOthersHolds == Spec => []StaleOnlyByOthers
<1>1. Inv => StaleOnlyByOthers
  BY DEF Inv
<1> QED BY <1>1, InvInductive, PTL DEF Spec
=============================================================================
