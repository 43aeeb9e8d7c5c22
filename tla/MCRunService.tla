---------------------------- MODULE MCRunService ----------------------------
(***************************************************************************)
(* Small instances of a served run.                                        *)
(***************************************************************************)
EXTENDS RunService, TLC

\* Threads are interchangeable: nothing but their number tells them apart.
Interchangeable == Permutations(Threads)
=============================================================================
