------------------------------ MODULE Workspace ------------------------------
(***************************************************************************)
(* The tools that work in the repository of a run: git_tool.py,            *)
(* terminal.py, docker_sandbox.py and run_command of builtins.py under     *)
(* the recovery engine.                                                    *)
(*                                                                         *)
(* The repository is what these tools share: where HEAD is, which changed  *)
(* files are staged or committed on a branch, and what the remote has.  A  *)
(* command that times out is given up on, but what it started may go on    *)
(* working in the repository beside the tools called after it.  A git      *)
(* that times out is killed, before or after it did its work, and may      *)
(* leave the lock of the index behind.                                     *)
(*                                                                         *)
(* The contents of a branch are the files whose change is in it.  The      *)
(* branch that is given to git_push may be any refspec git takes that adds *)
(* commits to one branch; to the other tools it is a plain name.           *)
(***************************************************************************)
EXTENDS TaskLoop, FiniteSets

CONSTANTS
  Plans,     \* the sequences of tasks the run may have planned
  Branches,  \* names, "detached" for a HEAD that is on none of them
  Refspec,   \* what git pushes where for an argument that is no plain name
  Files,     \* the files that are changed, by the run or by others
  Theirs     \* of these, the ones others have pushed

\* _PROTECTED_BRANCHES.
Protected == {"main", "master", "production", "release"}
Home == "main"

\* What a command does that matters here; terminal_exec refuses a blocked one.
Commands == {"edit", "switch", "blocked"}

Names == Branches \ {"detached"}

ASSUME WorkspaceAssumption ==
  /\ {Home, "detached"} \subseteq Branches
  /\ (DOMAIN Refspec \cup {"HEAD"}) \cap Branches = {}
  /\ \A arg \in DOMAIN Refspec :
       Refspec[arg] \in [from : Names \cup {"HEAD"}, to : Names \cup {"HEAD"}]
  /\ Theirs \subseteq Files
  /\ Plans \subseteq Seq([tool : STRING, given : SUBSET (STRING \X STRING),
                          attempts : {0}]) \ {<<>>}
  /\ \A plan \in Plans : \A i \in DOMAIN plan : \A pair \in plan[i].given :
       /\ pair[1] = "branch" =>
            \/ pair[2] \in Names
            \/ plan[i].tool = "git_push" /\ pair[2] \in DOMAIN Refspec
       /\ pair[1] = "create" /\ plan[i].tool = "git_branch" => pair[2] \in Names
       /\ pair[1] = "command" => pair[2] \in Commands

VARIABLES
  planned,  \* the plan as it was made
  head,     \* the branch checked out
  exists,   \* the local branches
  holds,    \* what is committed on each branch
  changed,  \* files that differ from the index
  staged,   \* files whose change is in the index
  locked,   \* is .git/index.lock there?
  origin,   \* what the remote has of each branch
  target,   \* git_push without a branch: the one it found to be current
  loose     \* commands a process of which outlived its call

tree == <<head, exists, holds, changed, staged>>
repo == <<tree, locked, origin>>
vars == <<planned, progress, approvals, repo, target, loose>>

Init ==
  /\ planned \in Plans /\ StartOn(planned)
  /\ head = Home /\ exists = {Home} /\ holds = [b \in Branches |-> {}]
  /\ changed = Files \ Theirs /\ staged = {} /\ locked = FALSE
  /\ origin \in [Branches -> {{}, Theirs}]
  /\ target = "unknown" /\ loose = {}

Resume == Approve /\ UNCHANGED <<planned, repo, target, loose>>

Given(key) == {pair[2] : pair \in {p \in Now.given : p[1] = key}}

Call(tool) ==
  /\ verdict = "running" /\ Now.tool = tool
  /\ UNCHANGED <<planned, approvals>>

-----------------------------------------------------------------------------
(* Commands.                                                               *)

\* An edit changes files, a switch leaves the branch by any of the ways git has.
Does(c) ==
  /\ \/ c = "edit" /\ changed' = changed \cup (Files \ Theirs) /\ UNCHANGED <<head, holds>>
     \/ /\ c = "switch"
        /\ head' \in {Home, "detached"}
        /\ holds' = [holds EXCEPT !["detached"] =
                       IF head' = "detached" THEN holds[head] ELSE @]
        /\ UNCHANGED changed
     \/ UNCHANGED <<head, holds, changed>>
  /\ UNCHANGED <<exists, staged, locked, origin>>

\* The exit code tells of success only.  At a timeout the shell, or the client
\* of the container, is killed, and not what it started.
Shell(c) ==
  /\ Does(c)
  /\ \/ (Succeed \/ Fail) /\ UNCHANGED loose
     \/ Fail /\ loose' = loose \cup {c}

MissingCommand == Given("command") = {} /\ Fail /\ UNCHANGED <<repo, loose>>

TerminalExec ==
  /\ Call("terminal_exec")
  /\ \/ MissingCommand
     \/ /\ "blocked" \in Given("command") \/ "outside" \in Given("cwd")
        /\ Given("command") # {} /\ Escalate
        /\ UNCHANGED <<repo, loose>>
     \/ /\ "outside" \notin Given("cwd")
        /\ \E c \in Given("command") \ {"blocked"} : Shell(c)
  /\ UNCHANGED target

\* run_command refuses nothing.
RunCommand ==
  /\ Call("run_command")
  /\ MissingCommand \/ \E c \in Given("command") : Shell(c)
  /\ UNCHANGED target

\* Docker is looked for at every call.  The workspace is mounted read-write, so
\* that a command does the same in the container as without.
RunDocker == \E c \in Given("command") : Shell(c)
RunLocal == \E c \in Given("command") : Shell(c)
SandboxExec ==
  /\ Call("sandbox_exec")
  /\ MissingCommand \/ RunDocker \/ RunLocal
  /\ UNCHANGED target

\* A process that outlived its call goes on with its command.
Stray(c) ==
  /\ c \in loose /\ Does(c)
  /\ UNCHANGED <<planned, progress, approvals, target, loose>>

-----------------------------------------------------------------------------
(* Git.                                                                    *)

\* A git that may do `effect': it exits with 0 having done so, with an error,
\* or is killed by the timeout, which Tool.invoke turns into a tool error.
Git(may, effect) ==
  /\ \/ may /\ effect /\ Succeed /\ UNCHANGED locked
     \/ Fail /\ UNCHANGED tree /\ locked' \in {locked, TRUE}
     \/ may /\ effect /\ Fail /\ locked' \in {locked, TRUE}
  /\ UNCHANGED <<origin, target, loose>>

\* git status and git diff refresh the index while they are at it, git log and
\* git branch only read.
Look == (Succeed \/ Fail) /\ UNCHANGED <<repo, target, loose>>
Status == Call("git_status") /\ Git(TRUE, UNCHANGED tree)
Diff == Call("git_diff") /\ Git(TRUE, UNCHANGED tree)
Log == Call("git_log") /\ Look

\* A tool whose argument is missing does not get as far as git.
Rejected == Fail /\ UNCHANGED <<repo, target, loose>>

Branch ==
  /\ Call("git_branch")
  /\ \/ Given("create") = {} /\ Look
     \/ \E b \in Given("create") :
          Git(b \notin exists,
              /\ exists' = exists \cup {b}
              /\ holds' = [holds EXCEPT ![b] = holds[head]]
              /\ UNCHANGED <<head, changed, staged>>)

\* What b has then: what it had, what HEAD has if it is created, and if only the
\* remote has it what the remote had when it was last asked.
CheckedOut(b) ==
  CASE b \in exists -> {holds[b]}
    [] Given("create") # {} -> {holds[head]}
    [] OTHER -> SUBSET origin[b]

Checkout ==
  /\ Call("git_checkout")
  /\ \/ Given("branch") = {} /\ Rejected
     \/ \E b \in Given("branch") :
          Git(~locked /\ (Given("create") # {} => b \notin exists),
              /\ head' = b /\ exists' = exists \cup {b}
              /\ \E new \in CheckedOut(b) : holds' = [holds EXCEPT ![b] = new]
              /\ UNCHANGED <<changed, staged>>)

Stages(files) ==
  Git(~locked, /\ staged' = staged \cup files /\ changed' = changed \ files
               /\ UNCHANGED <<head, exists, holds>>)

\* Slip: whatever is changed is staged.
AddAll == Call("git_add") /\ Stages(changed)

\* Without files it is everything that is staged.
Add ==
  /\ Call("git_add")
  /\ IF Given("files") = {} THEN Stages(changed) ELSE Stages(changed \cap Given("files"))

Record ==
  /\ holds' = [holds EXCEPT ![head] = @ \cup staged] /\ staged' = {}
  /\ UNCHANGED <<head, exists, changed>>

\* Slip: the exit code of git commit is not looked at.
CommitUnchecked ==
  /\ Call("git_commit")
  /\ \/ Given("message") = {} /\ Rejected
     \/ Given("message") # {} /\ Git(staged # {} /\ ~locked, Record)
     \/ Given("message") # {} /\ Succeed /\ UNCHANGED <<repo, target, loose>>

\* With nothing staged, as after a commit that was killed too late, git fails.
Commit ==
  /\ Call("git_commit")
  /\ \/ Given("message") = {} /\ Rejected
     \/ Given("message") # {} /\ Git(staged # {} /\ ~locked, Record)

\* git_push asks for the current branch first, if it is given none.
FindTarget ==
  /\ Call("git_push") /\ Given("branch") = {} /\ target = "unknown"
  /\ \/ target' = head /\ UNCHANGED progress
     \/ Fail /\ UNCHANGED target
  /\ UNCHANGED <<repo, loose>>

\* What git takes the argument of git push for.  A HEAD that is on no branch
\* can be pushed, but not to where it is.
Ref(name) == IF name = "HEAD" THEN head ELSE name
Source(arg) == Ref(IF arg \in DOMAIN Refspec THEN Refspec[arg].from ELSE arg)
Destination(arg) == Ref(IF arg \in DOMAIN Refspec THEN Refspec[arg].to ELSE arg)

\* The remote takes what only adds to what it has.
Sends(arg) ==
  LET from == Source(arg)  to == Destination(arg) IN
  \/ /\ from \in exists \cup {"detached"} /\ to \in Names
     /\ origin[to] \subseteq holds[from]
     /\ origin' = [origin EXCEPT ![to] = holds[from]]
     /\ Succeed \/ Fail
  \/ Fail /\ UNCHANGED origin

\* Slip: only a branch that is named is checked.
PushNamedOnly ==
  /\ Call("git_push") /\ (Given("branch") # {} \/ target # "unknown")
  /\ \E b \in Given("branch") \cup ({target} \ {"unknown"}) :
       CASE b = "detached" -> Fail /\ UNCHANGED origin
         [] b \in Protected \cap Given("branch") -> Escalate /\ UNCHANGED origin
         [] OTHER -> Sends(b)
  /\ target' = "unknown"
  /\ UNCHANGED <<tree, locked, loose>>

\* The argument is compared with the names of the protected branches as it is.
Push ==
  /\ Call("git_push") /\ (Given("branch") # {} \/ target # "unknown")
  /\ \E b \in Given("branch") \cup ({target} \ {"unknown"}) :
       CASE b = "detached" -> Fail /\ UNCHANGED origin
         [] b \in Protected -> Escalate /\ UNCHANGED origin
         [] OTHER -> Sends(b)
  /\ target' = "unknown"
  /\ UNCHANGED <<tree, locked, loose>>

\* What a pull adds; if it meets a conflict it leaves changed files behind.
Pulled == LET from == IF Given("branch") = {} THEN {head} \ {"detached"}
                                             ELSE Given("branch")
           IN UNION {origin[b] : b \in from}

Pull ==
  /\ Call("git_pull")
  /\ \/ Git(~locked /\ (Given("branch") # {} \/ head # "detached"),
            /\ holds' = [holds EXCEPT ![head] = @ \cup Pulled]
            /\ UNCHANGED <<head, exists, changed, staged>>)
     \/ /\ ~locked /\ Fail
        /\ changed' = changed \cup Pulled
        /\ UNCHANGED <<head, exists, holds, staged, locked, origin, target, loose>>

Tool ==
  \/ TerminalExec \/ RunCommand \/ SandboxExec
  \/ Status \/ Diff \/ Log \/ Branch \/ Checkout \/ Add \/ Commit
  \/ FindTarget \/ Push \/ Pull
Next == Tool \/ Resume \/ \E c \in Commands : Stray(c)

Spec == Init /\ [][Next]_vars

-----------------------------------------------------------------------------
(* Types.                                                                  *)

\* Every variable has the type its counterpart in the code has.
TypeOK ==
  /\ planned \in Plans /\ LoopTypeOK
  /\ head \in Branches /\ exists \subseteq Branches
  /\ holds \in [Branches -> SUBSET Files]
  /\ changed \subseteq Files /\ staged \subseteq Files /\ locked \in BOOLEAN
  /\ origin \in [Branches -> SUBSET Files]
  /\ target \in Branches \cup {"unknown"} /\ loose \subseteq Commands

-----------------------------------------------------------------------------
(* Safety.                                                                 *)

\* A protected branch of the remote is moved by no push but one that was planned
\* with a refspec whose destination it is: not by a remediation, nor by a
\* process that outlived its call and changes the branch between the two steps
\* of a push of "the current branch".
OnlyRefspecsPass ==
  [][\A b \in Protected \cap Branches : origin'[b] # origin[b] =>
       /\ Now.tool = "git_push"
       /\ \E arg \in Given("branch") \cap DOMAIN Refspec : Destination(arg) = b]_vars

Is(task, tool, key, value) ==
  task.tool = tool /\ <<key, value>> \in task.given

Keys(task) == {pair[1] : pair \in task.given}
PlansToAdd(task, f) ==
  \/ Is(task, "git_add", "files", f)
  \/ task.tool = "git_add" /\ "files" \notin Keys(task)

\* Only a remediation of git_add, which is called without files, lets a commit
\* hold a change of the run's that was not planned to be in one.
CommittedAsPlanned ==
  "git_add" \notin revised =>
    \A f \in (UNION {holds[b] : b \in Branches}) \ Theirs :
      \E i \in DOMAIN planned : PlansToAdd(planned[i], f)

Runners == {"terminal_exec", "run_command", "sandbox_exec"}
Only(task, key, value) == \A pair \in task.given : pair[1] = key => pair[2] = value

\* The plan checks b out, adds the change of f, commits and pushes, and nothing
\* before adds it to another branch.  Until it is pushed nothing is planned that
\* leaves b, except for commands if it is the current branch that is pushed.
Publishes(b, f, i, j, m, k) ==
  /\ i < j /\ j < m /\ m < k
  /\ Is(planned[i], "git_checkout", "branch", b) /\ Only(planned[i], "branch", b)
  /\ PlansToAdd(planned[j], f) /\ planned[m].tool = "git_commit"
  /\ planned[k].tool = "git_push" /\ Only(planned[k], "branch", b)
  /\ \A n \in 1 .. i : planned[n].tool # "git_add"
  /\ \A n \in i + 1 .. k : planned[n].tool # "git_checkout"
  /\ "branch" \in Keys(planned[k]) =>
       \A n \in i + 1 .. k : planned[n].tool \notin Runners

\* A plan that is done has published what it planned to, unless a process that
\* outlived its call left the branch: no killed git, lock that stayed, repeated
\* commit or remediation is taken for the work having been done.
DoneIsPublished ==
  verdict = "done" /\ loose = {} =>
    \A b \in Branches, f \in Files \ Theirs :
      (\E i, j, m, k \in DOMAIN planned : Publishes(b, f, i, j, m, k)) => f \in origin[b]
=============================================================================
