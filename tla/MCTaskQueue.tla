---------------------------- MODULE MCTaskQueue ----------------------------
(***************************************************************************)
(* TaskQueue for TLC.                                                      *)
(***************************************************************************)
EXTENDS TaskQueue, TLC

\* Handlers are interchangeable; only runs without liveness use this.
Symmetry == Permutations(Handlers)
=============================================================================
