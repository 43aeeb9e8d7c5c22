--------------------------- MODULE MCConnections ---------------------------
(***************************************************************************)
(* Small instances of signing in and connecting.                           *)
(***************************************************************************)
EXTENDS Connections, TLC

\* Flows are interchangeable: each may become of any kind.
Interchangeable == Permutations(Flows)

\* Projects do not depend on each other, so that one shows what becomes of each.
OneProject == {<<"google", "repo">>}
=============================================================================
