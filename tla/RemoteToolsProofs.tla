-------------------------- MODULE RemoteToolsProofs --------------------------
(***************************************************************************)
(* For any plans and limits: as long as no answer was lost the remote has  *)
(* what the results told of; a run one of whose remediations lacks its     *)
(* arguments never completes; a run that is done left behind all that its  *)
(* plan was to make; and releases to production are bounded.               *)
(*                                                                         *)
(* The second follows from what stays in the plan: a remediation without   *)
(* arguments can only be taken away by succeeding, which it cannot.  The   *)
(* last two count: what is at the remote and what is left to be made never *)
(* falls short of the plan, and what was posted and what may still be      *)
(* posted never exceeds the retries and revisions there are.               *)
(***************************************************************************)
EXTENDS RemoteTools, TaskLoopProofs, FiniteSetTheorems, FunctionTheorems

LoopTyped ==
  /\ tasks \in Seq(TaskOf(Tools, Given))
  /\ verdict \in {"running", "waiting", "done", "failed"}
  /\ base \in {"unknown", "sha", "name"}

\* There are calls left until the end, and none after it.
Going ==
  /\ verdict \in {"running", "waiting"} => tasks # <<>>
  /\ verdict = "done" => tasks = <<>>

\* Between the two requests of create_branch its arguments have been checked.
Branching ==
  base # "unknown" => verdict = "running" /\ Now.tool = "github_create_branch"
                      /\ "needed" \in Now.given

Remedied == \A t \in revised \cap NeedsArgs : <<t, {}>> \in Calls

LoopInv == LoopTyped /\ Going /\ Branching /\ Remedied

WorldTyped ==
  /\ remote \in [Things -> Nat] /\ reported \in [Things -> Nat]
  /\ late \in [Things -> Nat] /\ lost \in Nat

\* What was given up on may arrive only if an answer was lost.
Honest == lost = 0 => NothingUnreported /\ \A x \in Things : late[x] = 0

WorldInv == WorldTyped /\ Honest

-----------------------------------------------------------------------------
(* The remote.                                                             *)

LEMMA OneLemma ==
  ASSUME NEW count \in [Things -> Nat], NEW x \in Things
  PROVE  /\ One(count, x) \in [Things -> Nat]
         /\ One(count, x)[x] = count[x] + 1
         /\ \A y \in Things \ {x} : One(count, x)[y] = count[y]
BY DEF One

LEMMA PostWorld ==
  ASSUME WorldInv, NEW x \in Things, Post(x) PROVE WorldInv'
<1>0. Things = {"branch", "pr", "preview", "production"}
  BY DEF Things
<1>1. CASE Answered(x)
  <2>1. /\ remote' = One(remote, x) /\ reported' = One(reported, x)
        /\ UNCHANGED <<late, lost>>
    BY <1>1 DEF Answered
  <2>2. WorldTyped'
    BY <2>1, OneLemma DEF WorldInv, WorldTyped
  <2>3. \A y \in Things : \/ remote'[y] = remote[y] /\ reported'[y] = reported[y]
                          \/ remote'[y] = remote[y] + 1 /\ reported'[y] = reported[y] + 1
    <3>1. /\ remote'[x] = remote[x] + 1
          /\ \A y \in Things \ {x} : remote'[y] = remote[y]
      BY <2>1, OneLemma DEF WorldInv, WorldTyped
    <3>2. /\ reported'[x] = reported[x] + 1
          /\ \A y \in Things \ {x} : reported'[y] = reported[y]
      BY <2>1, OneLemma DEF WorldInv, WorldTyped
    <3> QED
      BY <3>1, <3>2
  <2>4. Honest'
    BY <1>0, <2>1, <2>3 DEF WorldInv, WorldTyped, Honest, NothingUnreported
  <2> QED
    BY <2>2, <2>4 DEF WorldInv
<1>2. CASE NotMade
  BY <1>2 DEF NotMade, world, WorldInv, WorldTyped, Honest, NothingUnreported
<1>3. CASE AnswerLost(x) \/ GivenUp(x)
  <2>1. /\ lost' = lost + 1 /\ UNCHANGED reported
        /\ remote' \in {remote, One(remote, x)} /\ late' \in {late, One(late, x)}
    BY <1>3 DEF AnswerLost, GivenUp
  <2>2. WorldTyped'
    BY <2>1, OneLemma DEF WorldInv, WorldTyped
  <2>3. lost' # 0
    BY <2>1 DEF WorldInv, WorldTyped
  <2> QED
    BY <2>2, <2>3 DEF WorldInv, Honest
<1> QED
  BY <1>1, <1>2, <1>3 DEF Post

LEMMA ArriveWorld ==
  ASSUME WorldInv, NEW x \in Things, Arrive(x) PROVE WorldInv'
<1>1. /\ late[x] > 0 /\ late' = [late EXCEPT ![x] = @ - 1]
      /\ remote' \in {remote, One(remote, x)} /\ UNCHANGED <<reported, lost>>
  BY DEF Arrive
<1>2. lost # 0
  BY <1>1 DEF WorldInv, WorldTyped, Honest
<1>3. late' \in [Things -> Nat]
  BY <1>1 DEF WorldInv, WorldTyped
<1>4. WorldTyped'
  BY <1>1, <1>3, OneLemma DEF WorldInv, WorldTyped
<1> QED
  BY <1>1, <1>2, <1>4 DEF WorldInv, Honest

LEMMA SameWorld ==
  ASSUME WorldInv, UNCHANGED world PROVE WorldInv'
BY DEF world, WorldInv, WorldTyped, Honest, NothingUnreported

-----------------------------------------------------------------------------
(* The loop.                                                               *)

\* A call ends: it succeeds only with the arguments its tool needs.
LEMMA OutcomeKeeps ==
  ASSUME LoopInv, verdict = "running", base' = "unknown",
         Fail \/ Escalate \/ (Succeed /\ (Now.tool \in NeedsArgs => "needed" \in Now.given))
  PROVE  LoopInv'
<1>0. tasks \in Seq(TaskOf(Tools, Given)) /\ tasks # <<>> /\ {} \in Given
  BY DEF LoopInv, LoopTyped, Going, Given
<1>1. CASE Fail
  <2>1. /\ tasks' \in Seq(TaskOf(Tools, Given)) /\ tasks' # <<>>
        /\ verdict' \in {"running", "failed"}
        /\ \/ UNCHANGED <<Calls, revised>>
           \/ Calls' = Calls \cup {<<Now.tool, {}>>} /\ revised' = revised \cup {Now.tool}
    BY <1>0, <1>1, FailLemma
  <2>2. CASE UNCHANGED <<Calls, revised>>
    BY <2>1, <2>2 DEF LoopInv, LoopTyped, Going, Branching, Remedied
  <2>3. CASE Calls' = Calls \cup {<<Now.tool, {}>>} /\ revised' = revised \cup {Now.tool}
    <3>1. Remedied'
      BY <2>3 DEF LoopInv, Remedied
    <3> QED
      BY <2>1, <3>1 DEF LoopInv, LoopTyped, Going, Branching
  <2> QED
    BY <2>1, <2>2, <2>3
<1>2. CASE Escalate
  <2>1. /\ tasks' \in Seq(TaskOf(Tools, Given)) /\ tasks' # <<>> /\ verdict' = "waiting"
        /\ UNCHANGED <<Calls, revised>>
    BY <1>0, <1>2, EscalateLemma
  <2>2. Remedied'
    BY <2>1 DEF LoopInv, Remedied
  <2> QED
    BY <2>1, <2>2 DEF LoopInv, LoopTyped, Going, Branching
<1>3. CASE Succeed /\ (Now.tool \in NeedsArgs => "needed" \in Now.given)
  <2>1. /\ tasks' \in Seq(TaskOf(Tools, Given))
        /\ verdict' = (IF tasks' = <<>> THEN "done" ELSE "running")
        /\ Calls \subseteq Calls' \cup {InHand} /\ UNCHANGED revised
    BY <1>0, <1>3, SucceedLemma
  <2>2. \A t \in NeedsArgs : <<t, {}>> # InHand
    BY <1>3 DEF InHand
  <2>3. Remedied'
    BY <2>1, <2>2 DEF LoopInv, Remedied
  <2> QED
    BY <2>1, <2>3 DEF LoopInv, LoopTyped, Going, Branching
<1> QED
  BY <1>1, <1>2, <1>3

LEMMA SameLoop ==
  ASSUME LoopInv, UNCHANGED loop PROVE LoopInv'
BY DEF loop, progress, LoopInv, LoopTyped, Going, Branching, Now, Remedied, Calls

LEMMA RejectedKeeps ==
  ASSUME LoopInv, WorldInv, verdict = "running", base = "unknown", Rejected
  PROVE  LoopInv' /\ WorldInv'
<1>1. (Fail \/ Escalate) /\ base' = "unknown" /\ UNCHANGED world
  BY DEF Rejected
<1> QED
  BY <1>1, OutcomeKeeps, SameWorld

\* The end of a request, once the arguments are there.
LEMMA PostKeeps ==
  ASSUME LoopInv, WorldInv, verdict = "running", base' = "unknown",
         NEW x \in Things, Post(x), Now.tool \in NeedsArgs => "needed" \in Now.given
  PROVE  LoopInv' /\ WorldInv'
<1>1. Fail \/ Succeed
  BY DEF Post, Answered, NotMade, AnswerLost, GivenUp
<1> QED
  BY <1>1, OutcomeKeeps, PostWorld

LEMMA ReadingKeeps ==
  ASSUME LoopInv, WorldInv, Reading PROVE LoopInv' /\ WorldInv'
<1>1. PICK tool \in Tools : Read(tool)
  BY DEF Reading, GetRepo, ListFiles, GetFile, GetPR, ActionsStatus, SearchRepos,
         DeploymentStatus, DeploymentLogs, ListProjects,
         WebFetch, WebSearch, Tools, Reads, GitHubReads, VercelReads, WebReads
<1>2. verdict = "running" /\ base = "unknown"
  BY <1>1 DEF Read, Call
<1>3. CASE Rejected
  BY <1>2, <1>3, RejectedKeeps
<1>4. CASE Accepted /\ (Succeed \/ Fail) /\ UNCHANGED <<base, world>>
  <2>1. Now.tool \in NeedsArgs => "needed" \in Now.given
    BY <1>4 DEF Accepted
  <2> QED
    BY <1>2, <1>4, <2>1, OutcomeKeeps, SameWorld
<1> QED
  BY <1>1, <1>3, <1>4 DEF Read

LEMMA WritingKeeps ==
  ASSUME LoopInv, WorldInv, Writing PROVE LoopInv' /\ WorldInv'
<1>1. CASE RejectBranch
  BY <1>1, RejectedKeeps DEF RejectBranch, Call
<1>2. CASE ResolveBase
  <2>1. /\ verdict = "running" /\ base = "unknown" /\ Now.tool = "github_create_branch"
        /\ "needed" \in Now.given /\ UNCHANGED world
    BY <1>2 DEF ResolveBase, Call, Accepted, NeedsArgs
  <2>2. CASE base' \in {"sha", "name"} /\ UNCHANGED progress
    <3>1. LoopInv'
      BY <2>1, <2>2 DEF progress, LoopInv, LoopTyped, Going, Branching, Now, Remedied, Calls
    <3> QED
      BY <2>1, <3>1, SameWorld
  <2>3. CASE Fail /\ UNCHANGED base
    BY <2>1, <2>3, OutcomeKeeps, SameWorld
  <2> QED
    BY <1>2, <2>2, <2>3 DEF ResolveBase
<1>3. CASE CreateBranch
  <2>1. /\ verdict = "running" /\ base' = "unknown"
        /\ Now.tool \in NeedsArgs => "needed" \in Now.given
    BY <1>3 DEF CreateBranch, LoopInv, Branching
  <2>2. Post("branch")
    BY <1>3 DEF CreateBranch, Post
  <2> QED
    BY <2>1, <2>2, PostKeeps DEF Things
<1>4. ASSUME NEW tool \in Tools, Call(tool), NEW x \in Things,
             Rejected \/ (Accepted /\ Post(x) /\ UNCHANGED base)
      PROVE  LoopInv' /\ WorldInv'
  <2>1. verdict = "running" /\ base = "unknown"
    BY <1>4 DEF Call
  <2>2. CASE Rejected
    BY <2>1, <2>2, RejectedKeeps
  <2>3. CASE Accepted /\ Post(x) /\ UNCHANGED base
    <3>1. Now.tool \in NeedsArgs => "needed" \in Now.given
      BY <2>3 DEF Accepted
    <3> QED
      BY <2>1, <2>3, <3>1, PostKeeps
  <2> QED
    BY <1>4, <2>2, <2>3
<1>5. Target \in Things /\ "pr" \in Things
  BY DEF Target, Things
<1>6. {"github_create_pr", "vercel_deploy", "vercel_redeploy"} \subseteq Tools
  BY DEF Tools, GitHubWrites, VercelWrites
<1> QED
  BY <1>1, <1>2, <1>3, <1>4, <1>5, <1>6 DEF Writing, CreatePR, Deploy, Redeploy

LEMMA NextKeeps == LoopInv /\ WorldInv /\ [Next]_vars => LoopInv' /\ WorldInv'
<1> SUFFICES ASSUME LoopInv, WorldInv, [Next]_vars PROVE LoopInv' /\ WorldInv'
  OBVIOUS
<1>1. CASE Reading
  BY <1>1, ReadingKeeps
<1>2. CASE Writing
  BY <1>2, WritingKeeps
<1>3. CASE Resume
  <2>1. verdict = "waiting" /\ verdict' = "running" /\ UNCHANGED <<tasks, revised, base>>
    BY <1>3 DEF Resume, Approve
  <2>2. LoopInv'
    BY <2>1 DEF LoopInv, LoopTyped, Going, Branching, Now, Remedied, Calls
  <2> QED
    BY <1>3, <2>2, SameWorld DEF Resume
<1>4. ASSUME NEW x \in Things, Arrive(x) PROVE LoopInv' /\ WorldInv'
  BY <1>4, ArriveWorld, SameLoop DEF Arrive
<1>5. CASE UNCHANGED vars
  BY <1>5, SameLoop, SameWorld DEF vars
<1> QED
  BY <1>1, <1>2, <1>3, <1>4, <1>5 DEF Next

LEMMA AlwaysInv == Spec => [](LoopInv /\ WorldInv)
<1>1. Init => LoopInv /\ WorldInv
  <2> SUFFICES ASSUME Init PROVE LoopInv /\ WorldInv
    OBVIOUS
  <2>1. planned \in Seq(TaskOf(Tools, Given)) /\ planned # <<>>
    BY PlanAssumption DEF Init, Task, TaskOf
  <2>2. LoopInv
    BY <2>1 DEF Init, StartOn, LoopInv, LoopTyped, Going, Branching, Remedied
  <2>3. remote \in [Things -> Nat] /\ remote["pr"] = 0 /\ remote["preview"] = 0
        /\ remote["production"] = 0
    BY DEF Init, None, Things
  <2>4. reported = [x \in Things |-> 0] /\ late = [x \in Things |-> 0] /\ lost = 0
    BY DEF Init, None
  <2>5. WorldInv
    BY <2>3, <2>4 DEF WorldInv, WorldTyped, Honest, NothingUnreported, Things
  <2> QED
    BY <2>2, <2>5
<1> QED
  BY <1>1, NextKeeps, PTL DEF Spec

\* As long as every request was answered or surely not made, GitHub and Vercel
\* hold what the results of the tools told of and no more, however often a tool
\* was retried, remedied or resumed.
THEOREM FailureLeavesNothing == Spec => []NothingUnreported
<1>1. WorldInv => NothingUnreported
  BY DEF WorldInv, Honest, NothingUnreported
<1> QED
  BY <1>1, AlwaysInv, PTL

\* A run in which the planner remedied a tool that needs arguments does not
\* complete: the remediation, which has none, is never taken off the plan.
THEOREM RemedyCannotHelp == Spec => []RemediesNeedArgs
<1>1. LoopInv => RemediesNeedArgs
  <2> SUFFICES ASSUME LoopInv, verdict = "done", NEW t \in revised \cap NeedsArgs
               PROVE  FALSE
    BY DEF RemediesNeedArgs
  <2>1. tasks = <<>> /\ <<t, {}>> \in Calls
    BY DEF LoopInv, Going, Remedied
  <2> QED
    BY <2>1 DEF Calls
<1> QED
  BY <1>1, AlwaysInv, PTL

-----------------------------------------------------------------------------
(* Types.                                                                  *)

\* What a step does to the loop is the end of a call or a resumption.
LEMMA LoopSteps ==
  ASSUME [Next]_vars, LoopInv
  PROVE  /\ UNCHANGED setting
         /\ \/ UNCHANGED <<progress, approvals>>
            \/ Approve
            \/ (Succeed \/ Fail \/ Escalate) /\ UNCHANGED approvals /\ verdict = "running"
<1>1. CASE Reading
  BY <1>1 DEF Reading, GetRepo, ListFiles, GetFile, GetPR, ActionsStatus, SearchRepos,
              DeploymentStatus, DeploymentLogs, ListProjects, WebFetch, WebSearch, Read, Call, Rejected
<1>2. CASE Writing
  <2>1. UNCHANGED <<setting, approvals>> /\ verdict = "running"
    BY <1>2 DEF Writing, RejectBranch, ResolveBase, CreateBranch, CreatePR, Deploy,
                Redeploy, Call
  <2>2. UNCHANGED progress \/ Succeed \/ Fail \/ Escalate
    BY <1>2 DEF Writing, RejectBranch, ResolveBase, CreateBranch, CreatePR, Deploy,
                Redeploy, Rejected, Post, Answered, NotMade, AnswerLost, GivenUp
  <2> QED
    BY <2>1, <2>2
<1>3. CASE Resume
  BY <1>3 DEF Resume
<1>4. CASE \E x \in Things : Arrive(x)
  BY <1>4 DEF Arrive, loop
<1>5. CASE UNCHANGED vars
  BY <1>5 DEF vars, loop
<1> QED
  BY <1>1, <1>2, <1>3, <1>4, <1>5 DEF Next

\* Whatever the remote and the recovery engine do, tasks are calls of the tools
\* modelled here and everything that is counted is a number.
THEOREM RemoteTypes == Spec => []TypeOK
<1> DEFINE Rest == /\ planned \in Plans /\ tokens \subseteq {"GITHUB_TOKEN", "VERCEL_TOKEN"}
                   /\ LoopTypeOK /\ revised \subseteq Tools
<1>1. Init => Rest
  BY DEF Init, StartOn, LoopTypeOK
<1>2. LoopInv /\ Rest /\ [Next]_vars => Rest'
  <2> SUFFICES ASSUME LoopInv, Rest, [Next]_vars PROVE Rest'
    OBVIOUS
  <2>1. UNCHANGED setting
    BY LoopSteps
  <2>2. LoopTypeOK'
    BY LoopSteps, LoopTypes DEF progress
  <2>3. revised' \subseteq Tools
    <3>1. tasks \in Seq(TaskOf(Tools, Given)) /\ (verdict = "running" => tasks # <<>>)
      BY DEF LoopInv, LoopTyped, Going
    <3>2. CASE UNCHANGED progress \/ Approve
      BY <3>2 DEF progress, Approve
    <3>3. CASE (Succeed \/ Fail \/ Escalate) /\ verdict = "running"
      BY <3>1, <3>3, RevisedLemma
    <3> QED
      BY <3>2, <3>3, LoopSteps
  <2> QED
    BY <2>1, <2>2, <2>3 DEF setting
<1>3. LoopInv /\ WorldInv /\ Rest => TypeOK
  BY DEF LoopInv, LoopTyped, WorldInv, WorldTyped, TypeOK, Task, TaskOf
<1> QED
  BY <1>1, <1>2, <1>3, AlwaysInv, PTL DEF Spec

-----------------------------------------------------------------------------
(* Counting the tasks left.                                               *)

\* How many elements of a sequence are in a set.
Count(K, s) == Cardinality({i \in DOMAIN s : s[i] \in K})

LEMMA CountCons ==
  ASSUME NEW S, NEW s \in Seq(S), NEW e \in S, NEW K
  PROVE  /\ Count(K, s) \in Nat
         /\ Count(K, <<e>> \o s) = Count(K, s) + IF e \in K THEN 1 ELSE 0
<1> DEFINE q == <<e>> \o s
           old == {i \in DOMAIN s : s[i] \in K}
           new == {i \in DOMAIN q : q[i] \in K}
           moved == {i + 1 : i \in old}
           f == [i \in old |-> i + 1]
<1>1. /\ DOMAIN s = 1 .. Len(s) /\ Len(s) \in Nat
      /\ DOMAIN q = 1 .. (Len(s) + 1) /\ q[1] = e
      /\ \A i \in 1 .. Len(s) : q[i + 1] = s[i]
  OBVIOUS
<1>2. IsFiniteSet(old) /\ Cardinality(old) \in Nat
  <2>1. IsFiniteSet(1 .. Len(s))
    BY <1>1, FS_Interval
  <2>2. old \in SUBSET (1 .. Len(s))
    BY <1>1
  <2> HIDE DEF old
  <2> QED
    BY <2>1, <2>2, FS_Subset, FS_CardinalityType
<1>3. \A i \in old : i \in 1 .. Len(s)
  BY <1>1
<1>4. ExistsBijection(old, moved)
  <2>1. f \in [old -> moved] /\ \A i \in old : f[i] = i + 1
    OBVIOUS
  <2>2. \A i, j \in old : f[i] = f[j] => i = j
    BY <1>1, <1>3, <2>1
  <2>3. \A m \in moved : \E i \in old : f[i] = m
    BY <2>1
  <2> HIDE DEF f, moved, old
  <2>4. f \in Bijection(old, moved)
    BY <2>1, <2>2, <2>3, Fun_IsBij
  <2> QED
    BY <2>4 DEF ExistsBijection
<1>5. IsFiniteSet(moved) /\ Cardinality(moved) = Cardinality(old)
  <2> HIDE DEF old, moved
  <2> QED
    BY <1>2, <1>4, FS_Bijection
<1>6. 1 \notin moved
  BY <1>1, <1>3
<1> HIDE DEF q
<1>7. \A i \in DOMAIN q : i # 1 => i - 1 \in DOMAIN s /\ (i - 1) + 1 = i
  BY <1>1
<1>8. new = moved \cup (IF e \in K THEN {1} ELSE {})
  <2>1. moved \subseteq new
    BY <1>1
  <2>2. \A i \in new : i # 1 => i \in moved
    BY <1>1, <1>7
  <2>3. 1 \in new <=> e \in K
    BY <1>1
  <2> QED
    BY <2>1, <2>2, <2>3
<1> HIDE DEF old, new, moved
<1>9. Cardinality(new) = Cardinality(old) + IF e \in K THEN 1 ELSE 0
  <2>1. CASE e \in K
    BY <1>2, <1>5, <1>6, <1>8, <2>1, FS_AddElement
  <2>2. CASE e \notin K
    BY <1>2, <1>5, <1>8, <2>2
  <2> QED
    BY <2>1, <2>2
<1> QED
  BY <1>2, <1>9 DEF Count, old, new, q

LEMMA LoopCounts ==
  ASSUME NEW T, NEW G, tasks \in Seq(TaskOf(T, G)), tasks # <<>>, {} \in G, NEW K
  PROVE  LET rest == Count(K, Tail(tasks))
             again == rest + IF Again \in K THEN 1 ELSE 0
         IN /\ rest \in Nat
            /\ Count(K, tasks) = rest + IF Now \in K THEN 1 ELSE 0
            /\ Succeed => Count(K, tasks') = rest
            /\ Retry \/ Abort \/ Escalate => Count(K, tasks') = again
            /\ Replan => Count(K, tasks') = again + IF Remediation \in K THEN 1 ELSE 0
<1> DEFINE rest == Count(K, Tail(tasks))
           again == rest + IF Again \in K THEN 1 ELSE 0
<1>1. /\ Now \in TaskOf(T, G) /\ Again \in TaskOf(T, G)
      /\ Remediation \in TaskOf(T, G)
      /\ Tail(tasks) \in Seq(TaskOf(T, G))
      /\ tasks = <<Now>> \o Tail(tasks)
      /\ Attempted = <<Again>> \o Tail(tasks)
  BY TasksSplit
<1> DEFINE S == TaskOf(T, G)
           tail == Tail(tasks)
           all == Attempted
<1>2. tail \in Seq(S) /\ all \in Seq(S)
  BY <1>1, AttemptedLemma
<1>3. /\ rest = Count(K, tail) /\ rest \in Nat /\ all = <<Again>> \o tail
      /\ tasks = <<Now>> \o tail
  <2>1. Count(K, tail) \in Nat
    <3> HIDE DEF tail, S
    <3> QED
      BY <1>1, <1>2, CountCons
  <2> QED
    BY <1>1, <2>1
<1>4. ASSUME NEW e \in S, NEW s \in Seq(S)
      PROVE  Count(K, <<e>> \o s) = Count(K, s) + IF e \in K THEN 1 ELSE 0
  BY CountCons
<1>5. /\ Count(K, all) = again
      /\ Count(K, tasks) = rest + IF Now \in K THEN 1 ELSE 0
      /\ Count(K, <<Remediation>> \o all) =
           again + IF Remediation \in K THEN 1 ELSE 0
  <2> HIDE DEF tail, S, all, rest
  <2> QED
    BY <1>1, <1>2, <1>3, <1>4, ZenonT(60) DEF S
<1>6. /\ Succeed => tasks' = Tail(tasks)
      /\ Retry \/ Abort \/ Escalate => tasks' = Attempted
      /\ Replan => tasks' = <<Remediation>> \o Attempted
  BY DEF Succeed, Retry, Abort, Escalate, Replan
<1> HIDE DEF rest, again
<1> QED
  BY <1>3, <1>5, <1>6 DEF rest, again

-----------------------------------------------------------------------------
(* What tasks make, and what is made of them.                              *)

\* The tasks that make a thing.
MakersOf(x) ==
  {t \in Task :
     CASE x = "branch" -> t.tool = "github_create_branch"
       [] x = "pr" -> t.tool = "github_create_pr"
       [] x = "production" -> /\ t.tool \in VercelWrites
                              /\ "production" \in t.given
       [] OTHER -> /\ t.tool \in VercelWrites
                   /\ "production" \notin t.given}

LEMMA MakersCounted ==
  ASSUME NEW p \in Seq(Task), NEW x
  PROVE  Cardinality(Makers(x, p)) = Count(MakersOf(x), p)
<1>1. \A i \in DOMAIN p : p[i] \in Task
  OBVIOUS
<1>2. Makers(x, p) = {i \in DOMAIN p : p[i] \in MakersOf(x)}
  BY <1>1 DEF Makers, MakersOf
<1> QED
  BY <1>2 DEF Count

\* A task makes one thing at most, whatever its attempts are.
LEMMA MakersDistinct ==
  ASSUME NEW t \in Task, NEW u \in Task, NEW x \in Things, NEW y \in Things
  PROVE  /\ t \in MakersOf(x) /\ t \in MakersOf(y) => x = y
         /\ t.tool = u.tool /\ t.given = u.given =>
              (t \in MakersOf(x) <=> u \in MakersOf(x))
BY DEF MakersOf, Things, VercelWrites

\* How a step works on the tasks left and on the remote at once: a call that
\* succeeds has made what its task is to make.
LEMMA StepOfWorld ==
  ASSUME [Next]_vars, LoopInv
  PROVE  /\ UNCHANGED planned
         /\ \/ UNCHANGED <<progress, world>>
            \/ UNCHANGED <<world, tasks, revisions>> /\ Approve
            \/ UNCHANGED progress /\ \E x \in Things : Arrive(x)
            \/ /\ verdict = "running"
               /\ \/ /\ UNCHANGED world /\ Succeed
                     /\ \A x \in Things : Now \notin MakersOf(x)
                  \/ UNCHANGED world /\ (Fail \/ Escalate)
                  \/ \E x \in Things : /\ Now \in MakersOf(x)
                                       /\ \/ Answered(x)
                                          \/ AnswerLost(x) \/ GivenUp(x)
<1>0. verdict = "running" => Now \in Task
  <2>1. verdict = "running" => tasks # <<>> /\ tasks \in Seq(Task)
    BY DEF LoopInv, LoopTyped, Going, Task, TaskOf
  <2> QED
    BY <2>1 DEF Now
<1>1. ASSUME Rejected
      PROVE  UNCHANGED world /\ (Fail \/ Escalate)
  BY <1>1 DEF Rejected
<1>2. ASSUME NEW x \in Things, Post(x), verdict = "running", Now \in MakersOf(x)
      PROVE  \/ UNCHANGED world /\ (Fail \/ Escalate)
             \/ /\ Now \in MakersOf(x)
                /\ Answered(x) \/ AnswerLost(x) \/ GivenUp(x)
  BY <1>2 DEF Post, NotMade
<1>3. CASE Reading
  <2>1. PICK tool \in Reads : Read(tool)
    BY <1>3 DEF Reading, GetRepo, ListFiles, GetFile, GetPR, ActionsStatus,
       SearchRepos, DeploymentStatus, DeploymentLogs, ListProjects,
       WebFetch, WebSearch, Reads, GitHubReads, VercelReads, WebReads
  <2>2. /\ verdict = "running" /\ Now.tool = tool /\ UNCHANGED planned
    BY <2>1 DEF Read, Call, setting
  <2>3. \A x \in Things : Now \notin MakersOf(x)
    BY <2>2 DEF MakersOf, Things, VercelWrites, Reads, GitHubReads, VercelReads, WebReads
  <2> QED
    BY <1>1, <2>1, <2>2, <2>3 DEF Read
<1>4. CASE RejectBranch
  BY <1>1, <1>4 DEF RejectBranch, Call, setting
<1>5. CASE ResolveBase
  BY <1>5 DEF ResolveBase, Call, setting
<1>6. CASE CreateBranch
  <2>1. /\ verdict = "running" /\ UNCHANGED planned
        /\ Now.tool = "github_create_branch"
    BY <1>6 DEF CreateBranch, setting, LoopInv, Branching
  <2>2. Now \in MakersOf("branch")
    BY <1>0, <2>1 DEF MakersOf
  <2>3. Post("branch") \/ NotMade
    BY <1>6 DEF CreateBranch
  <2>4. CASE NotMade
    BY <2>1, <2>4 DEF NotMade
  <2> QED
    BY <1>2, <2>1, <2>2, <2>3, <2>4 DEF Things
<1>7. CASE CreatePR
  <2>1. /\ verdict = "running" /\ UNCHANGED planned /\ Now.tool = "github_create_pr"
        /\ Rejected \/ Post("pr")
    BY <1>7 DEF CreatePR, Call, setting
  <2>2. Now \in MakersOf("pr")
    BY <1>0, <2>1 DEF MakersOf
  <2> QED
    BY <1>1, <1>2, <2>1, <2>2 DEF Things
<1>8. CASE Deploy \/ Redeploy
  <2>1. /\ verdict = "running" /\ UNCHANGED planned /\ Now.tool \in VercelWrites
        /\ Rejected \/ Post(Target)
    BY <1>8 DEF Deploy, Redeploy, Call, setting, VercelWrites
  <2>2. Target \in Things /\ Now \in MakersOf(Target)
    BY <1>0, <2>1 DEF MakersOf, Target, Things
  <2> QED
    BY <1>1, <1>2, <2>1, <2>2
<1>9. CASE Resume
  BY <1>9 DEF Resume, Approve, setting
<1>10. CASE \E x \in Things : Arrive(x)
  BY <1>10 DEF Arrive, setting, loop
<1>11. CASE UNCHANGED vars
  BY <1>11 DEF vars, setting, loop, world
<1> QED
  BY <1>3, <1>4, <1>5, <1>6, <1>7, <1>8, <1>9, <1>10, <1>11 DEF Next, Writing

-----------------------------------------------------------------------------
(* Success is real.                                                        *)

\* What is at the remote and what is still to be made is enough.
Enough ==
  /\ planned \in Seq(Task)
  /\ \A x \in Things :
       remote[x] + Count(MakersOf(x), tasks) >= Count(MakersOf(x), planned)

LEMMA NothingLeft == ASSUME NEW K PROVE Count(K, <<>>) = 0
<1>1. {i \in DOMAIN <<>> : <<>>[i] \in K} = {}
  OBVIOUS
<1> QED
  BY <1>1, FS_EmptySet DEF Count

LEMMA CountNat ==
  ASSUME NEW S, NEW s \in Seq(S), NEW K PROVE Count(K, s) \in Nat
<1> SUFFICES ASSUME Count(K, s) \notin Nat PROVE FALSE
  OBVIOUS
<1>1. \A e \in S : Count(K, s) \in Nat
  BY CountCons
<1>2. S = {}
  BY <1>1
<1>3. s = <<>>
  BY <1>2
<1> QED
  BY <1>3, NothingLeft

LEMMA NextEnough ==
  ASSUME LoopInv, WorldInv, Enough, [Next]_vars PROVE Enough'
<1>1. /\ planned' = planned /\ tasks \in Seq(Task)
      /\ \A y \in Things : remote[y] \in Nat
  BY StepOfWorld DEF LoopInv, LoopTyped, Task, TaskOf, WorldInv, WorldTyped
<1> SUFFICES ASSUME NEW y \in Things
             PROVE  remote'[y] + Count(MakersOf(y), tasks')
                      >= Count(MakersOf(y), planned)
  BY <1>1 DEF Enough
<1> DEFINE K == MakersOf(y)
           plans == Count(K, planned)
           left == Count(K, tasks)
           rest == Count(K, Tail(tasks))
<1>2. /\ remote[y] + left >= plans /\ remote[y] \in Nat
      /\ left \in Nat /\ plans \in Nat
  BY <1>1, CountNat DEF Enough
<1>3. verdict = "running" =>
        /\ Now \in Task /\ Again \in Task
        /\ Again \in K <=> Now \in K
        /\ rest \in Nat /\ left = rest + IF Now \in K THEN 1 ELSE 0
        /\ Succeed => Count(K, tasks') = rest
        /\ Fail \/ Escalate => Count(K, tasks') >= left
  <2> SUFFICES ASSUME verdict = "running"
               PROVE  /\ Now \in Task /\ Again \in Task
                      /\ Again \in K <=> Now \in K
                      /\ rest \in Nat /\ left = rest + IF Now \in K THEN 1 ELSE 0
                      /\ Succeed => Count(K, tasks') = rest
                      /\ Fail \/ Escalate => Count(K, tasks') >= left
    OBVIOUS
  <2>1. tasks \in Seq(TaskOf(Tools, Given)) /\ tasks # <<>> /\ {} \in Given
    BY DEF LoopInv, LoopTyped, Going, Given
  <2>2. Now \in Task /\ Again \in Task /\ (Again \in K <=> Now \in K)
    <3>1. /\ Now \in Task /\ Again \in Task
          /\ Again.tool = Now.tool /\ Again.given = Now.given
      BY <2>1, TasksSplit DEF Task, TaskOf
    <3> QED
      BY <3>1, MakersDistinct
  <2>3. LET again == rest + IF Again \in K THEN 1 ELSE 0
        IN /\ rest \in Nat
           /\ left = rest + IF Now \in K THEN 1 ELSE 0
           /\ Succeed => Count(K, tasks') = rest
           /\ Retry \/ Abort \/ Escalate => Count(K, tasks') = again
           /\ Replan => Count(K, tasks') = again + IF Remediation \in K THEN 1 ELSE 0
    BY <2>1, LoopCounts
  <2> HIDE DEF K, rest, left
  <2>4. Fail \/ Escalate => Count(K, tasks') >= left
    BY <2>2, <2>3 DEF Fail
  <2> QED
    BY <2>2, <2>3, <2>4
<1>4. CASE UNCHANGED <<progress, world>>
  BY <1>2, <1>4 DEF progress, world
<1>5. CASE UNCHANGED <<world, tasks, revisions>>
  BY <1>2, <1>5 DEF world
<1>6. CASE UNCHANGED progress /\ \E x \in Things : Arrive(x)
  <2>1. PICK x \in Things : remote' \in {remote, One(remote, x)}
    BY <1>6 DEF Arrive
  <2>2. remote'[y] \in {remote[y], remote[y] + 1}
    BY <2>1, OneLemma DEF WorldInv, WorldTyped
  <2>3. tasks' = tasks
    BY <1>6 DEF progress
  <2>4. remote'[y] >= remote[y] /\ remote'[y] \in Nat
    BY <1>2, <2>2
  <2>5. Count(K, tasks') = left
    BY <2>3
  <2> HIDE DEF K, left, plans, rest
  <2> QED
    BY <1>2, <2>4, <2>5 DEF K, plans
<1>7. CASE /\ verdict = "running" /\ UNCHANGED world /\ Succeed
           /\ \A x \in Things : Now \notin MakersOf(x)
  <2>1. Count(K, tasks') = left /\ remote' = remote
    BY <1>3, <1>7 DEF world
  <2> QED
    BY <1>2, <2>1
<1>8. CASE verdict = "running" /\ UNCHANGED world /\ (Fail \/ Escalate)
  <2>1. Count(K, tasks') >= left /\ remote' = remote /\ Count(K, tasks') \in Nat
    <3>1. tasks' \in Seq(TaskOf(Tools, Given))
      BY NextKeeps DEF LoopInv, LoopTyped
    <3> QED
      BY <1>3, <1>8, <3>1, CountNat DEF world
  <2> HIDE DEF K, left, plans, rest
  <2> QED
    BY <1>2, <2>1 DEF K, plans
<1>9. ASSUME verdict = "running", NEW x \in Things, Now \in MakersOf(x),
             Answered(x) \/ AnswerLost(x) \/ GivenUp(x)
      PROVE  remote'[y] + Count(MakersOf(y), tasks') >= Count(MakersOf(y), planned)
  <2>1. CASE Answered(x)
    <3>1. remote' = One(remote, x) /\ Count(K, tasks') = rest
      BY <1>3, <1>9, <2>1 DEF Answered
    <3>2. CASE y = x
      <4>1. remote'[y] = remote[y] + 1 /\ left = rest + 1 /\ rest \in Nat
        BY <1>3, <1>9, <3>1, <3>2, OneLemma DEF WorldInv, WorldTyped
      <4> HIDE DEF left, plans, rest
      <4> QED
        BY <1>2, <3>1, <4>1 DEF plans
    <3>3. CASE y # x
      <4>1. remote'[y] = remote[y]
        BY <3>1, <3>3, OneLemma DEF WorldInv, WorldTyped
      <4>2. Now \notin K
        BY <1>3, <1>9, <3>3, MakersDistinct
      <4> HIDE DEF left, plans, rest
      <4> QED
        BY <1>2, <1>3, <1>9, <3>1, <4>1, <4>2 DEF plans
    <3> QED
      BY <3>2, <3>3
  <2>2. CASE AnswerLost(x) \/ GivenUp(x)
    <3>1. Fail /\ remote' \in {remote, One(remote, x)}
      BY <2>2 DEF AnswerLost, GivenUp
    <3>2. remote'[y] \in {remote[y], remote[y] + 1}
      BY <3>1, OneLemma DEF WorldInv, WorldTyped
    <3>3. Count(K, tasks') >= left /\ Count(K, tasks') \in Nat
      <4>1. tasks' \in Seq(TaskOf(Tools, Given))
        BY NextKeeps DEF LoopInv, LoopTyped
      <4> QED
        BY <1>3, <1>9, <3>1, <4>1, CountNat
    <3>4. remote'[y] >= remote[y] /\ remote'[y] \in Nat
      BY <1>2, <3>2
    <3> HIDE DEF K, left, plans, rest
    <3> QED
      BY <1>2, <3>3, <3>4 DEF K, plans
  <2> QED
    BY <1>9, <2>1, <2>2
<1> QED
  BY <1>4, <1>5, <1>6, <1>7, <1>8, <1>9, StepOfWorld

\* A run that is done has left at GitHub and at Vercel everything its plan was
\* to make, for every plan, whatever got lost, was retried, remedied or resumed.
THEOREM SuccessLeavesAll == Spec => []SuccessIsReal
<1>1. Init => Enough
  <2> SUFFICES ASSUME Init PROVE Enough
    OBVIOUS
  <2>1. planned \in Seq(Task) /\ tasks = planned
    BY PlanAssumption DEF Init, StartOn
  <2>2. \A x \in Things : remote[x] \in Nat
    BY DEF Init, None
  <2>3. \A x \in Things : Count(MakersOf(x), planned) \in Nat
    BY <2>1, CountNat
  <2> QED
    BY <2>1, <2>2, <2>3 DEF Enough
<1>2. LoopInv /\ WorldInv /\ Enough /\ [Next]_vars => Enough'
  BY NextEnough
<1>3. LoopInv /\ WorldInv /\ Enough => SuccessIsReal
  <2> SUFFICES ASSUME LoopInv, WorldInv, Enough, verdict = "done", NEW x \in Things
               PROVE  remote[x] >= Cardinality(Makers(x, planned))
    BY DEF SuccessIsReal
  <2>1. tasks = <<>> /\ remote[x] \in Nat
    BY DEF LoopInv, Going, WorldInv, WorldTyped
  <2>2. Count(MakersOf(x), tasks) = 0
    BY <2>1, NothingLeft
  <2>3. Cardinality(Makers(x, planned)) = Count(MakersOf(x), planned)
    BY MakersCounted DEF Enough
  <2>4. remote[x] + 0 >= Count(MakersOf(x), planned)
    BY <2>2 DEF Enough
  <2> QED
    BY <2>1, <2>3, <2>4
<1> QED
  BY <1>1, <1>2, <1>3, AlwaysInv, PTL DEF Spec

-----------------------------------------------------------------------------
(* Releases are bounded.                                                   *)

Releases == MakersOf("production")
Untried == {t \in Releases : t.attempts = 0}

\* A task behind the one in hand was not tried yet, or more often than the
\* retries allow: it is there because a remediation was put in front of it.
Settled == {t \in Task : t.attempts = 0 \/ t.attempts > MaxTaskRetries}

\* How often a task in hand may still be posted, other than by a revision, ...
Due(t) ==
  IF t \in Releases
  THEN 1 + IF t.attempts <= MaxTaskRetries THEN MaxTaskRetries - t.attempts ELSE 0
  ELSE 0

\* ... and those behind it.
DueBehind(s) == MaxTaskRetries * Count(Untried, s) + Count(Releases, s)

Owed == IF tasks = <<>> THEN 0 ELSE Due(Now) + DueBehind(Tail(tasks))

Posted == remote["production"] + late["production"]

\* Every post of a planned release is one of those due, one that a revision
\* allowed, or the last one of a run that gave up.
Charged ==
  /\ planned \in Seq(Task) /\ revisions \in Nat
  /\ tasks # <<>> => Tail(tasks) \in Seq(Settled)
  /\ verdict = "failed" => tasks # <<>>
  /\ Posted + Owed <=
       (MaxTaskRetries + 1) * Count(Releases, planned) + revisions
         + IF verdict = "failed" /\ Now \in Releases THEN 1 ELSE 0

LEMMA SeqSubset ==
  ASSUME NEW S, NEW T, S \subseteq T, NEW s \in Seq(S) PROVE s \in Seq(T)
<1>1. s \in [1 .. Len(s) -> T] /\ Len(s) \in Nat
  OBVIOUS
<1> QED
  BY <1>1

LEMMA DueNat ==
  ASSUME NEW t \in Task
  PROVE  Due(t) \in Nat /\ (t \in Releases => Due(t) > 0) /\ (t \notin Releases => Due(t) = 0)
BY LimitAssumption DEF Due, Task

LEMMA DueCons ==
  ASSUME NEW s \in Seq(Task), NEW e \in Task
  PROVE  /\ DueBehind(s) \in Nat
         /\ e \in Settled => DueBehind(<<e>> \o s) = Due(e) + DueBehind(s)
<1> DEFINE u == Count(Untried, s)
           r == Count(Releases, s)
           u1 == Count(Untried, <<e>> \o s)
           r1 == Count(Releases, <<e>> \o s)
<1>1. u \in Nat /\ r \in Nat /\ MaxTaskRetries \in Nat /\ e.attempts \in Nat
  BY CountNat, LimitAssumption DEF Task
<1>2. /\ u1 = u + IF e \in Untried THEN 1 ELSE 0
      /\ r1 = r + IF e \in Releases THEN 1 ELSE 0
  BY CountCons
<1>3. DueBehind(s) = MaxTaskRetries * u + r /\ MaxTaskRetries * u \in Nat
  BY <1>1 DEF DueBehind
<1>4. DueBehind(<<e>> \o s) = MaxTaskRetries * u1 + r1
  BY DEF DueBehind
<1>5. e \in Settled =>
        Due(e) = (IF e \in Untried THEN MaxTaskRetries ELSE 0)
                   + IF e \in Releases THEN 1 ELSE 0
  BY <1>1 DEF Settled, Due, Untried
<1> HIDE DEF u, r, u1, r1
<1>6. MaxTaskRetries * (u + 1) = MaxTaskRetries * u + MaxTaskRetries
  BY <1>1
<1>7. MaxTaskRetries * u1 = MaxTaskRetries * u + IF e \in Untried THEN MaxTaskRetries ELSE 0
  BY <1>1, <1>2, <1>6
<1> QED
  BY <1>1, <1>2, <1>3, <1>4, <1>5, <1>7

\* When a settled task comes to hand nothing else is due.
LEMMA OwedSettled ==
  ASSUME NEW s \in Seq(Settled)
  PROVE  /\ s # <<>> => /\ Tail(s) \in Seq(Settled)
                        /\ Due(s[1]) + DueBehind(Tail(s)) = DueBehind(s)
         /\ s = <<>> => DueBehind(s) = 0
<1>1. CASE s = <<>>
  <2>1. Count(Untried, s) = 0 /\ Count(Releases, s) = 0
    BY <1>1, NothingLeft
  <2> QED
    BY <1>1, <2>1, LimitAssumption DEF DueBehind
<1>2. CASE s # <<>>
  <2> DEFINE tail == Tail(s)
  <2>1. s[1] \in Settled /\ tail \in Seq(Settled) /\ s = <<s[1]>> \o tail
    BY <1>2
  <2>2. s[1] \in Task /\ tail \in Seq(Task)
    <3>1. Settled \subseteq Task
      BY DEF Settled
    <3> HIDE DEF tail
    <3> QED
      BY <2>1, <3>1, SeqSubset
  <2> HIDE DEF tail
  <2>3. DueBehind(<<s[1]>> \o tail) = Due(s[1]) + DueBehind(tail)
    BY <2>1, <2>2, DueCons
  <2> QED
    BY <1>2, <2>1, <2>3 DEF tail
<1> QED
  BY <1>1, <1>2

Mine == IF Now \in Releases THEN 1 ELSE 0

\* What the end of a call leaves due.
LEMMA CallOwes ==
  ASSUME LoopInv, Charged, verdict = "running", Succeed \/ Fail \/ Escalate
  PROVE  /\ Owed \in Nat /\ Owed' \in Nat
         /\ tasks' # <<>> => Tail(tasks') \in Seq(Settled)
         /\ Succeed \/ Retry => Owed' + Mine <= Owed
         /\ Owed' <= Owed
         /\ Abort => Mine' = Mine
<1> DEFINE rest == Tail(tasks)
<1>1. /\ tasks \in Seq(TaskOf(Tools, Given)) /\ tasks # <<>> /\ {} \in Given
      /\ TaskOf(Tools, Given) = Task
  BY DEF LoopInv, LoopTyped, Going, Given, Task, TaskOf
<1>2. /\ Now \in Task /\ Again \in Task /\ Remediation \in Task
      /\ rest \in Seq(Task) /\ Attempted = <<Again>> \o rest
      /\ Again.tool = Now.tool /\ Again.given = Now.given
      /\ Again.attempts = Now.attempts + 1
  BY <1>1, TasksSplit
<1>3. rest \in Seq(Settled)
  BY <1>1 DEF Charged
<1>4. /\ Again \in Releases <=> Now \in Releases
      /\ Remediation \notin Releases
  <2>1. Again \in Releases <=> Now \in Releases
    BY <1>2, MakersDistinct DEF Releases, Things
  <2> QED
    BY <2>1 DEF Releases, MakersOf, Remediation, Planned
<1>5. Now.attempts \in Nat /\ MaxTaskRetries \in Nat
  BY <1>2, LimitAssumption DEF Task
<1>6. /\ Due(Now) \in Nat /\ Due(Again) \in Nat /\ Due(Remediation) = 0
      /\ Due(Now) >= Mine /\ Mine \in Nat
      /\ Due(Again) <= Due(Now)
      /\ Now.attempts < MaxTaskRetries => Due(Again) + Mine <= Due(Now)
  BY <1>2, <1>4, <1>5, DueNat DEF Due, Mine
<1>7. DueBehind(rest) \in Nat /\ Owed = Due(Now) + DueBehind(rest)
  <2>1. DueBehind(rest) \in Nat
    <3> HIDE DEF rest
    <3> QED
      BY <1>2, DueCons
  <2> QED
    BY <1>1, <2>1 DEF Owed
<1>8. CASE Succeed
  <2>1. tasks' = rest /\ ~Abort
    BY <1>1, <1>8 DEF Succeed, Abort
  <2> HIDE DEF rest
  <2>2. Owed' = DueBehind(rest)
    BY <1>3, <2>1, OwedSettled DEF Owed, Now
  <2>3. tasks' # <<>> => Tail(tasks') \in Seq(Settled)
    BY <1>3, <2>1, OwedSettled
  <2> QED
    BY <1>6, <1>7, <2>1, <2>2, <2>3
<1>9. CASE Retry \/ Abort \/ Escalate
  <2>1. /\ tasks' = <<Again>> \o rest
        /\ Retry => Now.attempts < MaxTaskRetries
    BY <1>2, <1>9 DEF Retry, Abort, Escalate
  <2>2. tasks' # <<>> /\ tasks'[1] = Again /\ Tail(tasks') = rest
    BY <1>2, <2>1
  <2>3. Owed' = Due(Again) + DueBehind(rest)
    BY <2>2 DEF Owed, Now
  <2>4. Mine' = Mine
    BY <1>4, <2>2 DEF Mine, Now
  <2>5. ~Succeed
    BY <1>1, <2>1 DEF Succeed
  <2>6. Retry => Due(Again) + Mine <= Due(Now)
    BY <1>6, <2>1
  <2>7. Tail(tasks') \in Seq(Settled)
    BY <1>3, <2>2
  <2> HIDE DEF rest
  <2>8. /\ Owed' \in Nat /\ Owed' <= Owed
        /\ Retry => Owed' + Mine <= Owed
    BY <1>6, <1>7, <2>3, <2>6
  <2> QED
    BY <1>6, <1>7, <2>4, <2>5, <2>7, <2>8
<1>10. CASE Replan
  <2>1. tasks' = <<Remediation>> \o (<<Again>> \o rest) /\ ~Retry /\ ~Abort
    BY <1>2, <1>5, <1>10 DEF Replan, Retry, Abort
  <2> DEFINE behind == <<Again>> \o rest
  <2>2. behind \in Seq(Task)
    BY <1>2
  <2>3. tasks' # <<>> /\ tasks'[1] = Remediation /\ Tail(tasks') = behind
    <3> HIDE DEF behind
    <3> QED
      BY <1>2, <2>1, <2>2 DEF behind
  <2>4. Again \in Settled
    BY <1>2, <1>5, <1>10 DEF Replan, Settled
  <2>5. DueBehind(behind) = Due(Again) + DueBehind(rest)
    <3> HIDE DEF rest
    <3> QED
      BY <1>2, <2>4, DueCons
  <2>6. Owed' = Due(Remediation) + DueBehind(behind)
    BY <2>3 DEF Owed, Now
  <2>7. behind \in Seq(Settled)
    <3> HIDE DEF rest
    <3> QED
      BY <1>3, <2>4
  <2>8. ~Succeed
    BY <1>1, <2>1 DEF Succeed
  <2> HIDE DEF behind, rest
  <2>9. Owed' \in Nat /\ Owed' <= Owed
    BY <1>6, <1>7, <2>5, <2>6
  <2>10. Owed \in Nat
    BY <1>6, <1>7
  <2>11. tasks' # <<>> => Tail(tasks') \in Seq(Settled)
    BY <2>3, <2>7
  <2> QED
    BY <2>1, <2>8, <2>9, <2>10, <2>11
<1> QED
  BY <1>8, <1>9, <1>10 DEF Fail

\* A run that failed on a release posted it for one last time.
Last == IF verdict = "failed" /\ Now \in Releases THEN 1 ELSE 0

Budget == (MaxTaskRetries + 1) * Count(Releases, planned)

LEMMA ChargedNat ==
  ASSUME LoopInv, WorldInv, Charged
  PROVE  /\ Posted \in Nat /\ Owed \in Nat /\ Budget \in Nat /\ revisions \in Nat
         /\ Posted + Owed <= Budget + revisions + Last
<1>1. Posted \in Nat /\ revisions \in Nat
  BY SMTT(30) DEF Posted, WorldInv, WorldTyped, Charged, Things
<1>2. Budget \in Nat
  <2>1. Count(Releases, planned) \in Nat
    BY CountNat DEF Charged
  <2> QED
    BY <2>1, LimitAssumption DEF Budget
<1>3. Owed \in Nat
  <2>1. CASE tasks = <<>>
    BY <2>1 DEF Owed
  <2>2. CASE tasks # <<>>
    <3> DEFINE tail == Tail(tasks)
    <3>1. Now \in Task /\ tail \in Seq(Task)
      <4>1. tasks \in Seq(Task)
        BY DEF LoopInv, LoopTyped, Task, TaskOf
      <4> QED
        BY <2>2, <4>1 DEF Now
    <3> HIDE DEF tail
    <3>2. Due(Now) \in Nat /\ DueBehind(tail) \in Nat
      BY <3>1, DueNat, DueCons
    <3> QED
      BY <2>2, <3>2 DEF Owed, tail
  <2> QED
    BY <2>1, <2>2
<1> QED
  BY <1>1, <1>2, <1>3 DEF Charged, Budget, Last

\* One request makes at most one release, and that of a task that is to.
LEMMA PostedMoves ==
  ASSUME WorldInv
  PROVE  /\ UNCHANGED world => Posted' = Posted
         /\ \A x \in Things :
              /\ Arrive(x) => \E n \in Nat : Posted' = n /\ n <= Posted
              /\ (/\ Now \in Task /\ Now \in MakersOf(x)
                  /\ Answered(x) \/ AnswerLost(x) \/ GivenUp(x)) =>
                   \E n \in Nat : Posted' = n /\ n <= Posted + Mine
<1> DEFINE r == remote["production"]
           w == late["production"]
<1>1. r \in Nat /\ w \in Nat /\ Posted = r + w /\ "production" \in Things
  BY DEF WorldInv, WorldTyped, Posted, Things
<1>2. UNCHANGED world => Posted' = Posted
  BY DEF world, Posted
<1>3. ASSUME NEW x \in Things, Arrive(x)
      PROVE  \E n \in Nat : Posted' = n /\ n <= Posted
  <2>1. /\ late[x] > 0 /\ late' = [late EXCEPT ![x] = @ - 1]
        /\ remote' \in {remote, One(remote, x)}
    BY <1>3 DEF Arrive
  <2>2. CASE x = "production"
    <3>1. late'["production"] = w - 1 /\ w > 0
      BY <2>1, <2>2 DEF WorldInv, WorldTyped
    <3>2. remote'["production"] \in {r, r + 1}
      BY <2>1, <2>2, OneLemma DEF WorldInv, WorldTyped
    <3> HIDE DEF r, w
    <3> QED
      BY <1>1, <3>1, <3>2 DEF Posted
  <2>3. CASE x # "production"
    <3>1. late'["production"] = w /\ remote'["production"] = r
      BY <1>1, <2>1, <2>3, OneLemma DEF WorldInv, WorldTyped
    <3> QED
      BY <1>1, <3>1 DEF Posted
  <2> QED
    BY <2>2, <2>3
<1>4. ASSUME NEW x \in Things, Now \in Task, Now \in MakersOf(x),
             Answered(x) \/ AnswerLost(x) \/ GivenUp(x)
      PROVE  \E n \in Nat : Posted' = n /\ n <= Posted + Mine
  <2>1. \/ remote' = One(remote, x) /\ late' = late
        \/ remote' = remote /\ late' = One(late, x)
    BY <1>4 DEF Answered, AnswerLost, GivenUp
  <2>2. CASE x = "production"
    <3>1. Mine = 1
      BY <1>4, <2>2 DEF Mine, Releases
    <3>2. \/ remote'["production"] = r + 1 /\ late'["production"] = w
          \/ remote'["production"] = r /\ late'["production"] = w + 1
      BY <2>1, <2>2, OneLemma DEF WorldInv, WorldTyped
    <3> HIDE DEF r, w
    <3> QED
      BY <1>1, <3>1, <3>2 DEF Posted
  <2>3. CASE x # "production"
    <3>1. Mine \in Nat
      BY DEF Mine
    <3>2. remote'["production"] = r /\ late'["production"] = w
      BY <1>1, <2>1, <2>3, OneLemma DEF WorldInv, WorldTyped
    <3> HIDE DEF r, w
    <3> QED
      BY <1>1, <3>1, <3>2 DEF Posted
  <2> QED
    BY <2>2, <2>3
<1> QED
  BY <1>2, <1>3, <1>4

\* The account, after a step that posts so much and leaves so much owed.
LEMMA Pays ==
  ASSUME NEW posted \in Nat, NEW owed \in Nat, NEW allowed \in Nat, NEW mine \in Nat,
         NEW posted1 \in Nat, NEW owed1 \in Nat, NEW allowed1 \in Nat, NEW last1 \in Nat,
         posted + owed <= allowed, owed1 <= owed,
         \/ posted1 <= posted /\ allowed1 >= allowed
         \/ posted1 <= posted + mine /\ owed1 + mine <= owed /\ allowed1 >= allowed
         \/ posted1 <= posted + mine /\ allowed1 >= allowed + 1 /\ mine <= 1
         \/ posted1 <= posted + mine /\ allowed1 >= allowed /\ last1 = mine
  PROVE  posted1 + owed1 <= allowed1 + last1
OBVIOUS

LEMMA CallCharged ==
  ASSUME LoopInv, WorldInv, Charged, verdict = "running", UNCHANGED planned,
         NEW posted1 \in Nat, Posted' = posted1,
         \/ (Succeed \/ Fail) /\ posted1 <= Posted + Mine
         \/ Escalate /\ posted1 = Posted
  PROVE  Charged'
<1>1. /\ Owed \in Nat /\ Owed' \in Nat /\ Owed' <= Owed
      /\ tasks' # <<>> => Tail(tasks') \in Seq(Settled)
      /\ (Succeed \/ Retry) => Owed' + Mine <= Owed
      /\ Abort => Mine' = Mine
      /\ Mine \in {0, 1}
  BY CallOwes DEF Mine
<1>2. /\ Posted \in Nat /\ Budget \in Nat /\ revisions \in Nat
      /\ Posted + Owed <= Budget + revisions
  <2>1. Last = 0
    BY DEF Last
  <2> QED
    BY <2>1, ChargedNat
<1>3. Last' \in Nat /\ (Abort => Last' = Mine)
  BY <1>1 DEF Last, Mine, Abort
<1>4. Budget' = Budget
  BY DEF Budget
<1>5. PICK revisions1 \in Nat : /\ revisions' = revisions1 /\ revisions1 >= revisions
                                /\ Replan => revisions1 = revisions + 1
  BY <1>2 DEF Succeed, Fail, Retry, Replan, Abort, Escalate
<1> DEFINE allowed == Budget + revisions
           allowed1 == Budget + revisions1
           owed1 == Owed'
           last1 == Last'
<1>6. /\ allowed \in Nat /\ allowed1 \in Nat /\ allowed1 >= allowed
      /\ Replan => allowed1 >= allowed + 1
      /\ Posted + Owed <= allowed
  <2>1. /\ revisions1 \in Nat /\ revisions1 >= revisions
        /\ Replan => revisions1 = revisions + 1
    BY <1>5
  <2> QED
    BY <1>2, <2>1
<1>7. posted1 + owed1 <= allowed1 + last1
  <2>1. /\ owed1 \in Nat /\ last1 \in Nat /\ owed1 <= Owed
        /\ (Succeed \/ Retry) => owed1 + Mine <= Owed
        /\ Abort => last1 = Mine
    BY <1>1, <1>3
  <2> Mine \in Nat /\ Mine <= 1
    BY <1>1
  <2> HIDE DEF allowed, allowed1, owed1, last1
  <2>2. CASE Escalate /\ posted1 = Posted
    BY <1>1, <1>2, <1>6, <2>1, <2>2, Pays
  <2>3. CASE (Succeed \/ Retry) /\ posted1 <= Posted + Mine
    BY <1>1, <1>2, <1>6, <2>1, <2>3, Pays
  <2>4. CASE Replan /\ posted1 <= Posted + Mine
    BY <1>1, <1>2, <1>6, <2>1, <2>4, Pays
  <2>5. CASE Abort /\ posted1 <= Posted + Mine
    BY <1>1, <1>2, <1>6, <2>1, <2>5, Pays
  <2> QED
    BY <2>2, <2>3, <2>4, <2>5 DEF Fail
<1>8. planned' \in Seq(Task)
  BY DEF Charged
<1>9. verdict' = "failed" => tasks' # <<>>
  <2>1. tasks # <<>> /\ tasks \in Seq(TaskOf(Tools, Given)) /\ {} \in Given
    BY DEF LoopInv, LoopTyped, Going, Given
  <2>2. (Fail \/ Escalate) => tasks' # <<>>
    BY <2>1, FailLemma, EscalateLemma
  <2>3. Succeed => verdict' # "failed"
    BY DEF Succeed
  <2> QED
    BY <2>2, <2>3
<1>10. Posted' + Owed' <= Budget' + revisions' + Last'
  BY <1>4, <1>5, <1>7
<1> QED
  BY <1>1, <1>5, <1>8, <1>9, <1>10 DEF Charged, Budget, Last

LEMMA NextCharged ==
  ASSUME LoopInv, WorldInv, Charged, [Next]_vars PROVE Charged'
<1>1. /\ Posted \in Nat /\ Mine \in Nat /\ Owed \in Nat /\ Budget \in Nat
      /\ revisions \in Nat
      /\ Posted + Owed <= Budget + revisions + Last /\ Last \in Nat
  BY ChargedNat DEF Mine, Last
<1>2. UNCHANGED planned
  BY StepOfWorld
<1>3. ASSUME UNCHANGED progress, NEW posted1 \in Nat, Posted' = posted1, posted1 <= Posted
      PROVE  Charged'
  <2>1. UNCHANGED <<tasks, revisions, verdict, planned>>
    BY <1>2, <1>3 DEF progress
  <2>2. Owed' = Owed /\ Last' = Last /\ Budget' = Budget
    BY <2>1 DEF Owed, Last, Budget, Now
  <2>3. posted1 + Owed <= Budget + revisions + Last
    BY <1>1, <1>3
  <2>4. Posted' + Owed' <= Budget' + revisions' + Last'
    BY <1>3, <2>1, <2>2, <2>3
  <2> QED
    BY <2>1, <2>4 DEF Charged, Budget, Last
<1>4. CASE UNCHANGED <<progress, world>>
  BY <1>1, <1>3, <1>4, PostedMoves
<1>5. CASE UNCHANGED <<world, tasks, revisions>> /\ Approve
  <2>1. UNCHANGED <<tasks, revisions, planned>> /\ Posted' = Posted
    BY <1>2, <1>5, PostedMoves
  <2>2. Owed' = Owed /\ Budget' = Budget /\ Last = 0 /\ Last' = 0 /\ verdict' # "failed"
    BY <1>5, <2>1 DEF Owed, Last, Budget, Now, Approve
  <2>3. Posted' + Owed' <= Budget' + revisions' + Last'
    BY <1>1, <2>1, <2>2
  <2> QED
    BY <2>1, <2>2, <2>3 DEF Charged, Budget, Last
<1>6. CASE UNCHANGED progress /\ \E x \in Things : Arrive(x)
  BY <1>3, <1>6, PostedMoves
<1>7. CASE verdict = "running" /\ UNCHANGED world /\ (Succeed \/ Fail \/ Escalate)
  <2>1. Posted' = Posted
    BY <1>7, PostedMoves
  <2>2. Posted <= Posted + Mine
    BY <1>1
  <2> QED
    BY <1>1, <1>2, <1>7, <2>1, <2>2, CallCharged
<1>8. ASSUME verdict = "running", NEW x \in Things, Now \in MakersOf(x),
             Answered(x) \/ AnswerLost(x) \/ GivenUp(x)
      PROVE  Charged'
  <2>1. Now \in Task
    <3>1. tasks \in Seq(Task) /\ tasks # <<>>
      BY <1>8 DEF LoopInv, LoopTyped, Going, Task, TaskOf
    <3> QED
      BY <3>1 DEF Now
  <2>2. PICK posted1 \in Nat : Posted' = posted1 /\ posted1 <= Posted + Mine
    BY <1>8, <2>1, PostedMoves
  <2>3. Succeed \/ Fail
    BY <1>8 DEF Answered, AnswerLost, GivenUp
  <2> QED
    BY <1>2, <1>8, <2>2, <2>3, CallCharged
<1> QED
  BY <1>4, <1>5, <1>6, <1>7, <1>8, StepOfWorld

LEMMA InitCharged == Init => Charged
<1> SUFFICES ASSUME Init PROVE Charged
  OBVIOUS
<1>1. /\ planned \in Seq(Task) /\ tasks = planned /\ planned # <<>>
      /\ \A i \in DOMAIN planned : planned[i].attempts = 0
      /\ revisions = 0 /\ verdict = "running"
  BY PlanAssumption DEF Init, StartOn, Fresh
<1>2. planned \in Seq(Settled)
  <2>1. /\ planned \in [1 .. Len(planned) -> Task] /\ Len(planned) \in Nat
        /\ DOMAIN planned = 1 .. Len(planned)
    BY <1>1
  <2>2. \A i \in 1 .. Len(planned) : planned[i] \in Settled
    BY <1>1, <2>1 DEF Settled
  <2> QED
    BY <2>1, <2>2
<1>3. Owed = DueBehind(planned) /\ Tail(tasks) \in Seq(Settled)
  BY <1>1, <1>2, OwedSettled DEF Owed, Now
<1>4. Count(Untried, planned) = Count(Releases, planned)
  <2>1. \A i \in DOMAIN planned : planned[i] \in Untried <=> planned[i] \in Releases
    BY <1>1 DEF Untried
  <2> QED
    BY <2>1 DEF Count
<1>5. Posted = 0
  <2>1. "production" \in Things /\ "production" # "branch"
    BY DEF Things
  <2>2. remote["production"] = 0 /\ late["production"] = 0
    BY <2>1 DEF Init, None
  <2> QED
    BY <2>2 DEF Posted
<1> DEFINE c == Count(Releases, planned)
<1>6. c \in Nat /\ MaxTaskRetries \in Nat
  BY <1>1, CountNat, LimitAssumption
<1>7. DueBehind(planned) = MaxTaskRetries * c + c
  BY <1>4 DEF DueBehind
<1> HIDE DEF c
<1>8. (MaxTaskRetries + 1) * c = MaxTaskRetries * c + c /\ MaxTaskRetries * c \in Nat
  BY <1>6
<1>9. Last = 0
  BY <1>1 DEF Last
<1>10. Posted + Owed <= (MaxTaskRetries + 1) * c + revisions + Last
  BY <1>1, <1>3, <1>5, <1>6, <1>7, <1>8, <1>9
<1> QED
  BY <1>1, <1>3, <1>10 DEF Charged, Last, c

\* A release to production is posted, counting those still under way, at most
\* as often as the recovery engine calls its task and revises the plan, for
\* every plan and every limit: a lost answer never starts a run of releases.
THEOREM ReleasesAreBounded == Spec => []ReleasesBounded
<1>1. LoopInv /\ WorldInv /\ Charged => ReleasesBounded
  <2> SUFFICES ASSUME LoopInv, WorldInv, Charged PROVE ReleasesBounded
    OBVIOUS
  <2>1. /\ Posted \in Nat /\ Owed \in Nat /\ Budget \in Nat /\ revisions \in Nat
        /\ Posted + Owed <= Budget + revisions + Last
    BY ChargedNat
  <2>2. Last = 1 => Owed >= 1
    <3> SUFFICES ASSUME verdict = "failed", Now \in Releases PROVE Owed >= 1
      BY DEF Last
    <3> DEFINE tail == Tail(tasks)
    <3>1. tasks # <<>> /\ Now \in Task /\ tail \in Seq(Task)
      <4>1. tasks \in Seq(Task) /\ tasks # <<>>
        BY DEF LoopInv, LoopTyped, Charged, Task, TaskOf
      <4> QED
        BY <4>1 DEF Now
    <3> HIDE DEF tail
    <3>2. Due(Now) \in Nat /\ Due(Now) > 0 /\ DueBehind(tail) \in Nat
      BY <3>1, DueNat, DueCons
    <3>3. Owed = Due(Now) + DueBehind(tail)
      BY <3>1 DEF Owed, tail
    <3> QED
      BY <3>2, <3>3
  <2>3. Last \in {0, 1}
    BY DEF Last
  <2>4. Posted <= Budget + revisions
    BY <2>1, <2>2, <2>3
  <2>5. Cardinality(Makers("production", planned)) = Count(Releases, planned)
    BY MakersCounted DEF Charged, Releases
  <2> QED
    BY <2>4, <2>5 DEF ReleasesBounded, Posted, Budget
<1> QED
  BY <1>1, InitCharged, NextCharged, AlwaysInv, PTL DEF Spec
==============================================================================
