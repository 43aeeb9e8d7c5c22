--------------------------- MODULE MCRemoteTools ---------------------------
(***************************************************************************)
(* Small instances of plans of remote calls.                               *)
(***************************************************************************)
EXTENDS RemoteTools

\* Each reading tool with its arguments, ...
Lookups == {<<Planned(t, {"needed"})>> : t \in Reads}

\* ... a branch that is proposed and released, with a base by name, by commit
\* and by default, ...
Releases ==
  {<<Planned("github_create_branch", {"needed"} \cup from),
     Planned("github_create_pr", {"needed"}),
     Planned("vercel_deploy", {"production"})>> :
     from \in {{}, {"from_branch"}, {"from_commit"}}}

\* ... and deployments by themselves and in sequence.
Deployments ==
  {<<Planned("vercel_deploy", {})>>,
   <<Planned("vercel_redeploy", {"needed", "production"})>>,
   <<Planned("vercel_deploy", {"production"}), Planned("vercel_status", {"needed"}),
     Planned("vercel_redeploy", {"needed"})>>}

SmallPlans == Lookups \cup Releases \cup Deployments
=============================================================================
