------------------------- MODULE MCIntegrationStore -------------------------
(***************************************************************************)
(* Small instances of the credential store.                                *)
(***************************************************************************)
EXTENDS IntegrationStoreProofs, TLC

\* Nothing depends on which thread is which.
Interchangeable == Permutations(Threads)
=============================================================================
