---------------------------- MODULE RemoteTools ----------------------------
(***************************************************************************)
(* The tools for GitHub, Vercel and the web under the recovery engine.     *)
(*                                                                         *)
(* A run works off a plan of remote tool calls.  A call is up to two       *)
(* requests; the answer to a request may be lost, or the request may reach *)
(* the remote only after the tool gave up on it.  The loop then calls the  *)
(* tool again, so that what a tool does is done once only if the remote    *)
(* refuses to do it twice.  The permission gate, which asks before a call, *)
(* is Orchestrator's and does not change what a call does.                 *)
(*                                                                         *)
(* Of the arguments only those matter that decide what is requested, of an *)
(* answer only the class of the ToolResult made of it.                     *)
(***************************************************************************)
EXTENDS TaskLoop, FiniteSets

CONSTANT Plans  \* the sequences of tasks the run may have planned

GitHubReads == {"github_get_repo", "github_list_files", "github_get_file",
                "github_get_pr", "github_actions_status", "github_search_repos"}
VercelReads == {"vercel_status", "vercel_logs", "vercel_list_projects"}
GitHubWrites == {"github_create_branch", "github_create_pr"}
VercelWrites == {"vercel_deploy", "vercel_redeploy"}
WebReads == {"web_fetch", "web_search"}
Reads == GitHubReads \cup VercelReads \cup WebReads
Tools == Reads \cup GitHubWrites \cup VercelWrites

\* run() of these rejects a call without its arguments.
NeedsArgs == {"github_get_file", "github_create_branch", "github_create_pr",
              "github_get_pr", "github_search_repos", "vercel_status",
              "vercel_logs", "vercel_redeploy", "web_fetch", "web_search"}

\* Arguments given: those the tool needs, a base to branch from (by default
\* HEAD, which is neither a branch nor a commit), the production target.
Given == SUBSET {"needed", "from_branch", "from_commit", "production"}
Task == [tool : Tools, given : Given, attempts : Nat]
Fresh(t) == t.attempts = 0

\* What a POST asks the remote to make.
Things == {"branch", "pr", "preview", "production"}

ASSUME PlanAssumption ==
  Plans \subseteq {p \in Seq(Task) : p # <<>> /\ \A i \in DOMAIN p : Fresh(p[i])}

VARIABLES
  planned,    \* the plan as it was made
  tokens,     \* the services whose token is in the environment
  base,       \* inside create_branch: "sha", or a "name" POSTed as one
  remote,     \* how many of each thing there are
  reported,   \* how many of each thing a successful result told of
  late,       \* requests given up on that the remote has yet to see
  lost        \* number of requests to make something without an answer

loop == <<progress, base>>
world == <<remote, reported, late, lost>>
setting == <<planned, tokens>>
vars == <<setting, loop, approvals, world>>

None == [x \in Things |-> 0]

Init ==
  /\ planned \in Plans /\ StartOn(planned)
  /\ tokens \in SUBSET {"GITHUB_TOKEN", "VERCEL_TOKEN"}
  /\ base = "unknown"
  /\ remote \in {None, [None EXCEPT !["branch"] = 1]}
  /\ reported = None /\ late = None /\ lost = 0

-----------------------------------------------------------------------------
(* A call: the checks it begins with, and its requests.                    *)

TokenOf(tool) ==
  IF tool \in GitHubReads \cup GitHubWrites THEN "GITHUB_TOKEN"
                                            ELSE "VERCEL_TOKEN"

Resume == Approve /\ UNCHANGED <<setting, base, world>>

Call(tool) ==
  /\ verdict = "running" /\ Now.tool = tool /\ base = "unknown"
  /\ UNCHANGED <<setting, approvals>>

HasToken == Now.tool \in WebReads \/ TokenOf(Now.tool) \in tokens

\* Slip: a call without its arguments is sent all the same.
AcceptedUnchecked == HasToken

Accepted ==
  /\ HasToken
  /\ Now.tool \in NeedsArgs => "needed" \in Now.given

\* _no_token, which is a PERMISSION failure, or "missing ...".
Rejected ==
  /\ ~Accepted
  /\ IF HasToken THEN Fail ELSE Escalate
  /\ UNCHANGED <<base, world>>

\* A GET fails as TRANSIENT, or as TOOL_ERROR where the exception is left to
\* Tool.invoke: recovery treats the two alike.
Read(tool) ==
  /\ Call(tool)
  /\ \/ Rejected
     \/ Accepted /\ (Succeed \/ Fail) /\ UNCHANGED <<base, world>>

GetRepo == Read("github_get_repo")
ListFiles == Read("github_list_files")
GetFile == Read("github_get_file")
GetPR == Read("github_get_pr")
ActionsStatus == Read("github_actions_status")
SearchRepos == Read("github_search_repos")
DeploymentStatus == Read("vercel_status")
DeploymentLogs == Read("vercel_logs")
ListProjects == Read("vercel_list_projects")
WebFetch == Read("web_fetch")
WebSearch == Read("web_search")

\* The remote makes a branch or a pull request once, and deploys again
\* whenever it is asked to.
Makes(x) ==
  CASE x = "branch" -> remote["branch"] = 0
    [] x = "pr" -> remote["branch"] = 1 /\ remote["pr"] = 0
    [] OTHER -> TRUE

One(count, x) == [count EXCEPT ![x] = @ + 1]

\* A POST is answered, refused or not delivered, its answer is lost, or the
\* tool gives up on it while it is still under way.
Answered(x) ==
  /\ Makes(x) /\ remote' = One(remote, x) /\ reported' = One(reported, x)
  /\ Succeed
  /\ UNCHANGED <<late, lost>>
NotMade == Fail /\ UNCHANGED world
AnswerLost(x) ==
  /\ Makes(x) /\ remote' = One(remote, x) /\ lost' = lost + 1
  /\ Fail
  /\ UNCHANGED <<reported, late>>
GivenUp(x) ==
  /\ late' = One(late, x) /\ lost' = lost + 1
  /\ Fail
  /\ UNCHANGED <<remote, reported>>

\* Slip: an answer without an address is taken for a failure.
PostWantsUrl(x) ==
  \/ Answered(x) \/ NotMade \/ AnswerLost(x) \/ GivenUp(x)
  \/ /\ Makes(x) /\ remote' = One(remote, x)
     /\ Fail
     /\ UNCHANGED <<reported, late, lost>>

\* Slip: a refusal is taken to mean that the thing is there already.
PostExists(x) == Answered(x) \/ (Succeed /\ UNCHANGED world)
                 \/ AnswerLost(x) \/ GivenUp(x)

Post(x) == Answered(x) \/ NotMade \/ AnswerLost(x) \/ GivenUp(x)

\* github_create_branch first asks for the commit of the base.  A refusal makes
\* it send the base as it is, which is right for a commit only.
ResolveBase ==
  /\ Call("github_create_branch") /\ Accepted
  /\ \/ /\ \/ "from_branch" \in Now.given /\ base' = "sha"
           \/ base' = IF "from_commit" \in Now.given THEN "sha" ELSE "name"
        /\ UNCHANGED progress
     \/ Fail /\ UNCHANGED base
  /\ UNCHANGED world

CreateBranch ==
  /\ verdict = "running" /\ base # "unknown"
  /\ IF base = "sha" THEN Post("branch") ELSE NotMade
  /\ base' = "unknown"
  /\ UNCHANGED <<setting, approvals>>

RejectBranch == Call("github_create_branch") /\ Rejected

CreatePR ==
  /\ Call("github_create_pr")
  /\ Rejected \/ (Accepted /\ Post("pr") /\ UNCHANGED base)

Target == IF "production" \in Now.given THEN "production" ELSE "preview"

Deploy ==
  /\ Call("vercel_deploy")
  /\ Rejected \/ (Accepted /\ Post(Target) /\ UNCHANGED base)

Redeploy ==
  /\ Call("vercel_redeploy")
  /\ Rejected \/ (Accepted /\ Post(Target) /\ UNCHANGED base)

\* A request that was given up on arrives after all.
Arrive(x) ==
  /\ late[x] > 0 /\ late' = [late EXCEPT ![x] = @ - 1]
  /\ remote' = IF Makes(x) THEN One(remote, x) ELSE remote
  /\ UNCHANGED <<setting, loop, approvals, reported, lost>>

Reading ==
  \/ GetRepo \/ ListFiles \/ GetFile \/ GetPR \/ ActionsStatus \/ SearchRepos
  \/ DeploymentStatus \/ DeploymentLogs \/ ListProjects
  \/ WebFetch \/ WebSearch
Writing ==
  \/ RejectBranch \/ ResolveBase \/ CreateBranch \/ CreatePR \/ Deploy \/ Redeploy
Next == Reading \/ Writing \/ Resume \/ \E x \in Things : Arrive(x)

Spec == Init /\ [][Next]_vars

-----------------------------------------------------------------------------
(* Types.                                                                  *)

\* Every variable has the type its counterpart in the code has.
TypeOK ==
  /\ planned \in Plans /\ tokens \subseteq {"GITHUB_TOKEN", "VERCEL_TOKEN"}
  /\ LoopTypeOK /\ tasks \in Seq(Task) /\ revised \subseteq Tools
  /\ base \in {"unknown", "sha", "name"}
  /\ remote \in [Things -> Nat] /\ reported \in [Things -> Nat]
  /\ late \in [Things -> Nat] /\ lost \in Nat

-----------------------------------------------------------------------------
(* Safety.                                                                 *)

Makers(x, p) ==
  {i \in DOMAIN p :
     CASE x = "branch" -> p[i].tool = "github_create_branch"
       [] x = "pr" -> p[i].tool = "github_create_pr"
       [] x = "production" -> /\ p[i].tool \in VercelWrites
                              /\ "production" \in p[i].given
       [] OTHER -> /\ p[i].tool \in VercelWrites
                   /\ "production" \notin p[i].given}

\* A plan that was worked off left behind at the remote all that it was to
\* make, whatever was retried, revised or resumed on the way.
SuccessIsReal ==
  verdict = "done" =>
    \A x \in Things : remote[x] >= Cardinality(Makers(x, planned))

\* As long as no answer was lost, the remote holds what the results told of
\* and no more: a failed call left nothing behind.
NothingUnreported ==
  lost = 0 =>
    /\ \A x \in {"pr", "preview", "production"} : remote[x] = reported[x]
    /\ remote["branch"] >= reported["branch"]

\* A planned release to production, posted again for every lost answer, is
\* made at most as often as the recovery engine calls a task; remediations
\* never go to production.
ReleasesBounded ==
  remote["production"] + late["production"] <=
    (MaxTaskRetries + 1) * Cardinality(Makers("production", planned)) + revisions

\* A revision does not help a tool that needs arguments: its remediation has
\* none, fails at every attempt, and takes the run down with it.
RemediesNeedArgs == verdict = "done" => revised \cap NeedsArgs = {}
=============================================================================
