------------------------- MODULE MCRequestPipeline -------------------------
(***************************************************************************)
(* RequestPipeline for TLC.                                                *)
(***************************************************************************)
EXTENDS RequestPipeline, TLC

Symmetry == Permutations(Requests)

\* Status 0 stands for the default, 600 and -1 are out of range.
SomeStatuses == {0, 600}
SomeTimes == {-1, 0, 1, 2}
FewTimes == {0, 1}

\* The empty suffix, and the suffix of one path.
CONSTANTS chat, embeddings
SomePaths == {chat, embeddings}
SomeFilters == {SomePaths, {chat}}
=============================================================================
