------------------------------ MODULE MC_Browser ------------------------------
(***************************************************************************)
(* A Repository for TLC: the default namespace and three others, a HEAD,  *)
(* a local and a remote branch, a tag and two commit ids.  Each namespace  *)
(* resolves the references to different histories, and some of them to    *)
(* Err, so that every navigation call both succeeds and fails somewhere,   *)
(* and a switch can fail after the Repository was switched.  Commit ids    *)
(* resolve alike in every namespace.                                       *)
(***************************************************************************)
EXTENDS Browser

MCRevs == {"hd", "br", "rm", "tg", "id", "i2"}
MCKind == [r \in MCRevs |-> CASE r = "hd" -> "head" [] r = "br" -> "branch"
                              [] r = "rm" -> "remote" [] r = "tg" -> "tag"
                              [] r \in {"id", "i2"} -> "oid"]
MCHistories == {"h0", "h1", "h2", "h3", "h4"}
MCResolve ==
  [n \in {"none", "n1", "n2", "n3"} |->
     CASE n = "none" -> [hd |-> "h0", br |-> "h0", rm |-> "h2", tg |-> "err", id |-> "h1", i2 |-> "h4"]
       [] n = "n1" -> [hd |-> "h1", br |-> "h1", rm |-> "err", tg |-> "h2", id |-> "h1", i2 |-> "h4"]
       [] n = "n2" -> [hd |-> "err", br |-> "h2", rm |-> "h3", tg |-> "err", id |-> "h1", i2 |-> "h4"]
       [] n = "n3" -> [hd |-> "h3", br |-> "err", rm |-> "h0", tg |-> "h3", id |-> "h1", i2 |-> "h4"]]
=============================================================================
