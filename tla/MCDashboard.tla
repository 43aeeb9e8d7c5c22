----------------------------- MODULE MCDashboard -----------------------------
(***************************************************************************)
(* Small instances of a page and its runs.                                 *)
(***************************************************************************)
EXTENDS Dashboard
=============================================================================
