----------------------------- MODULE MCWorkspace -----------------------------
(***************************************************************************)
(* Small instances of work in a repository.                                *)
(***************************************************************************)
EXTENDS Workspace, TLC

On(tool, key, value) == Planned(tool, {<<key, value>>})
Open == Planned("git_checkout", {<<"branch", "topic">>, <<"create", "yes">>})
Stage == On("git_add", "files", "mine")
Message == On("git_commit", "message", "fix")

\* A change that is published on a branch of its own or of others, with a command run in
\* the middle of it, ...
Publications ==
  {<<open, Stage, Message, push>> :
     open \in {Open, On("git_checkout", "branch", "topic")},
     push \in {On("git_push", "branch", "topic"), Planned("git_push", {})}}
  \cup
  {<<Open, On(run, "command", c), Stage, Message, Planned("git_push", {})>> :
     run \in Runners, c \in {"edit", "switch"}}

\* ... a branch that is made and brought up to date, ...
Updates ==
  {<<On("git_branch", "create", "topic"), On("git_checkout", "branch", "topic"),
     pull, Planned("git_add", {}), Message>> :
     pull \in {Planned("git_pull", {}), On("git_pull", "branch", "main")}}

\* ... and calls that only look, or that are refused.
Others ==
  {<<Planned(t, {})>> : t \in {"git_status", "git_diff", "git_log", "git_branch"}}
  \cup
  {<<On("terminal_exec", "command", "blocked")>>,
   <<Planned("terminal_exec", {<<"command", "edit">>, <<"cwd", "outside">>})>>,
   <<Planned("sandbox_exec", {<<"command", "blocked">>})>>,
   <<Message, On("git_push", "branch", "main")>>,
   <<On("git_push", "branch", "main")>>}

\* Refspecs of each kind: the branch HEAD is on, HEAD or a branch as another
\* one, and a branch by its full name.
SmallRefspec ==
  "HEAD" :> [from |-> "HEAD", to |-> "HEAD"] @@
  "HEAD:main" :> [from |-> "HEAD", to |-> "main"] @@
  "topic:main" :> [from |-> "topic", to |-> "main"] @@
  "refs/heads/main" :> [from |-> "main", to |-> "main"]

Refspecs ==
  {<<Open, Stage, Message, On("git_push", "branch", arg)>> : arg \in DOMAIN SmallRefspec}

SmallPlans == Publications \cup Updates \cup Others \cup Refspecs
=============================================================================
