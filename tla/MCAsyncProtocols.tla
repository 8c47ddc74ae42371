------------------------- MODULE MCAsyncProtocols -------------------------
(***************************************************************************)
(* AsyncProtocols for TLC.                                                 *)
(***************************************************************************)
EXTENDS AsyncProtocols, TLC

\* Goroutines of either sort are interchangeable.
Symmetry == Permutations(Handlers) \cup Permutations(Pollers)
=============================================================================
