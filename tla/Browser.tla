------------------------------ MODULE Browser ------------------------------
(***************************************************************************)
(* Navigation of radicle-surf's git Browser (src/radicle-surf/src/vcs/     *)
(* git.rs): Browser::new, new_with_namespace, switch_namespace,            *)
(* which_namespace, head, branch, tag, commit and rev.                     *)
(*                                                                         *)
(* Several Browsers may be built over one Repository: a RepositoryRef is a *)
(* shared reference, and git2's set_namespace takes &self, so the          *)
(* namespace is state of the Repository that every Browser over it reads.  *)
(* The Repository (src/vcs/git/repo.rs is not part of this tree) is the    *)
(* constant table Resolve: Resolve[n][r] is the History that revision r    *)
(* resolves to in namespace n, or Err.  A History is a model value.  The   *)
(* ghost variable from records the namespace each Browser's history was    *)
(* resolved in, and the ghost switcher the Browser whose call last set the *)
(* Repository's namespace (NoBrowser before any).                          *)
(***************************************************************************)
EXTENDS Naturals

CONSTANTS
  Browsers,    \* the Browser values a caller holds
  Namespaces,  \* namespaces, NoNamespace for the repository's default
  NoNamespace,
  Revs,        \* revisions: references and commit ids
  Kind,        \* Kind[r]: "branch", "remote", "tag", "head" or "oid"
  Histories,   \* the histories revisions resolve to
  Resolve,     \* Resolve[n][r]: the History of r in namespace n, or Err
  Err,
  NoBrowser

NS == Namespaces \cup {NoNamespace}

ASSUME BrowserAssumption ==
  /\ NoNamespace \notin Namespaces
  /\ Err \notin Histories
  /\ NoBrowser \notin Browsers
  /\ Kind \in [Revs -> {"branch", "remote", "tag", "head", "oid"}]
  /\ Resolve \in [NS -> [Revs -> Histories \cup {Err}]]

VARIABLES
  ns,       \* the Repository's namespace (git2 set_namespace / namespace_bytes)
  alive,    \* alive[b]: Browser b exists (built and not consumed)
  history,  \* history[b]: its History
  from,     \* from[b]: the namespace that History was resolved in
  switcher  \* the Browser whose call last switched the Repository

vars == <<ns, alive, history, from, switcher>>

Init ==
  /\ ns = NoNamespace
  /\ alive = [b \in Browsers |-> FALSE]
  /\ history = [b \in Browsers |-> Err]
  /\ from = [b \in Browsers |-> NoNamespace]
  /\ switcher = NoBrowser
-----------------------------------------------------------------------------
\* repository.get_history(rev): resolves in the namespace the Repository is
\* in at the time of the call.
GetHistory(r) == Resolve[ns][r]

\* vcs::Browser::set: the Browser now browses history h, resolved in ns.
Set(b, h) ==
  /\ history' = [history EXCEPT ![b] = h]
  /\ from' = [from EXCEPT ![b] = ns]

\* Browser::new(repository, rev): get_history(rev)?, then init.
New(b, r) ==
  /\ ~alive[b]
  /\ GetHistory(r) # Err
  /\ alive' = [alive EXCEPT ![b] = TRUE]
  /\ Set(b, GetHistory(r))
  /\ UNCHANGED <<ns, switcher>>

\* Mutant: the Browser is built although get_history failed.
NewWithNamespaceUnchecked(b, n, r) ==
  /\ ~alive[b]
  /\ ns' = n /\ switcher' = b
  /\ alive' = [alive EXCEPT ![b] = TRUE]
  /\ history' = [history EXCEPT ![b] = Resolve[n][r]]
  /\ from' = [from EXCEPT ![b] = n]

\* Browser::new_with_namespace(repository, namespace, rev): references()?
\* and switch_namespace(..)? succeed; the Repository is switched; then
\* get_history(rev)? in the new namespace.  Its failure after the switch
\* returns Err and leaves the Repository switched.
NewWithNamespace(b, n, r) ==
  /\ ~alive[b]
  /\ ns' = n /\ switcher' = b
  /\ IF Resolve[n][r] # Err
       THEN /\ alive' = [alive EXCEPT ![b] = TRUE]
            /\ history' = [history EXCEPT ![b] = Resolve[n][r]]
            /\ from' = [from EXCEPT ![b] = n]
       ELSE UNCHANGED <<alive, history, from>>

\* Mutant: the history is resolved before the Repository is switched.
SwitchNamespaceLate(b, n, r) ==
  /\ alive[b]
  /\ ns' = n /\ switcher' = b
  /\ IF GetHistory(r) # Err
       THEN /\ Set(b, GetHistory(r))
            /\ UNCHANGED alive
       ELSE /\ alive' = [alive EXCEPT ![b] = FALSE]
            /\ UNCHANGED <<history, from>>

\* Browser::switch_namespace(self, namespace, rev): consumes the Browser;
\* the Repository is switched, then get_history(rev)?.  On Err the old
\* Browser is gone and the Repository stays in the new namespace.
SwitchNamespace(b, n, r) ==
  /\ alive[b]
  /\ ns' = n /\ switcher' = b
  /\ IF Resolve[n][r] # Err
       THEN /\ history' = [history EXCEPT ![b] = Resolve[n][r]]
            /\ from' = [from EXCEPT ![b] = n]
            /\ UNCHANGED alive
       ELSE /\ alive' = [alive EXCEPT ![b] = FALSE]
            /\ UNCHANGED <<history, from>>

\* switch_namespace fails before the Repository is touched
\* (set_namespace(..)? returns Err): the Browser is consumed all the same.
\* (new_with_namespace failing there changes nothing: a stutter.)
SwitchFail(b) ==
  /\ alive[b]
  /\ alive' = [alive EXCEPT ![b] = FALSE]
  /\ UNCHANGED <<ns, history, from, switcher>>

\* An operation of a live Browser that sets the history of revision r when
\* r passes check, and leaves the Browser unchanged on Err.
Navigate(b, r, check) ==
  /\ alive[b]
  /\ check
  /\ GetHistory(r) # Err
  /\ Set(b, GetHistory(r))
  /\ UNCHANGED <<ns, alive, switcher>>

\* head(): repository.head()?; branch(): reference(..)? with the check
\* is_branch || is_remote, else NotBranch; tag(): is_tag, else NotTag;
\* commit(oid) and rev(rev): get_history(..)?.
Head(b) == \E r \in Revs : Kind[r] = "head" /\ Navigate(b, r, TRUE)
Branch(b, r) == Navigate(b, r, Kind[r] \in {"branch", "remote"})
Tag(b, r) == Navigate(b, r, Kind[r] = "tag")
Commit(b, r) == Navigate(b, r, Kind[r] = "oid")
Rev(b, r) == Navigate(b, r, TRUE)

\* which_namespace(): the Repository's namespace_bytes().
WhichNamespace == ns

Next ==
  \E b \in Browsers :
    \/ \E r \in Revs : New(b, r)
    \/ \E n \in Namespaces, r \in Revs : NewWithNamespace(b, n, r)
    \* switch_namespace takes a reference (impl Into<Ref>), not a commit id.
    \/ \E n \in Namespaces, r \in Revs : Kind[r] # "oid" /\ SwitchNamespace(b, n, r)
    \/ SwitchFail(b)
    \/ Head(b)
    \/ \E r \in Revs : Branch(b, r) \/ Tag(b, r) \/ Commit(b, r) \/ Rev(b, r)

Spec == Init /\ [][Next]_vars
-----------------------------------------------------------------------------
\* The type invariant; a live Browser always has a History (every
\* constructor returns Err rather than a Browser without one).
TypeOK ==
  /\ ns \in NS
  /\ alive \in [Browsers -> BOOLEAN]
  /\ history \in [Browsers -> Histories \cup {Err}]
  /\ \A b \in Browsers : alive[b] => history[b] \in Histories
  /\ from \in [Browsers -> NS]
  /\ switcher \in Browsers \cup {NoBrowser}

\* A Browser's own calls never leave it browsing a namespace other than the
\* Repository's: switch_namespace and new_with_namespace switch before they
\* resolve, and every navigation resolves in the current namespace.  A live
\* Browser whose history was resolved elsewhere was made stale by a switch
\* of another Browser over the same Repository.
StaleOnlyByOthers ==
  \A b \in Browsers :
    alive[b] /\ from[b] # ns => switcher \notin {b, NoBrowser}

\* which_namespace's contract, "what is the current namespace we're
\* browsing in": for every live Browser, the namespace the Repository
\* reports is the one its history was resolved in, after any sequence of
\* new / new_with_namespace / switch_namespace / navigation calls and
\* their failures.
NamespaceCoherent ==
  \A b \in Browsers : alive[b] => from[b] = WhichNamespace
=============================================================================
