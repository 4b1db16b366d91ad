\* which_namespace with two Browsers over one Repository (MC_Browser.tla).
CONSTANTS
  Browsers = {b1, b2}
  NoBrowser = NoBrowser
  Namespaces = {"n1", "n2", "n3"}
  NoNamespace = "none"
  Revs <- MCRevs
  Kind <- MCKind
  Histories <- MCHistories
  Resolve <- MCResolve
  Err = "err"
SPECIFICATION Spec
INVARIANTS NamespaceCoherent
