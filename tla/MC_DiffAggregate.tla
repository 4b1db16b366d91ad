--------------------------- MODULE MC_DiffAggregate ---------------------------
(***************************************************************************)
(* Diffs of up to MaxFiles builder calls over two paths.  The hunk lists   *)
(* include the empty list, an empty hunk, single-kind hunks and a mixed    *)
(* hunk with context, and a list of two hunks, so that stats() meets       *)
(* context lines, several hunks per file and binary files in every list.   *)
(***************************************************************************)
EXTENDS DiffAggregate

MCHunksIn ==
  { << >>, << << >> >>,
    << <<"Addition", "Addition">> >>, << <<"Deletion">> >>,
    << <<"Context", "Addition", "Deletion">>, <<"Deletion">> >>,
    << <<"Addition">>, <<"Addition">> >> }
=============================================================================
