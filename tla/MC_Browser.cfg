\* Two Browsers over one Repository with four namespaces (MC_Browser.tla).
CONSTANTS
  Browsers = {b1, b2}
  NoBrowser = NoBrowser
  Namespaces = {"n1", "n2", "n3"}
  NoNamespace = "none"
  Revs <- MCRevs
  Kind <- MCKind
  Histories <- MCHistories
  Resolve <- MCResolve
  Err = "err"
SPECIFICATION Spec
INVARIANTS TypeOK StaleOnlyByOthers
