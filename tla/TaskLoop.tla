------------------------------ MODULE TaskLoop ------------------------------
(***************************************************************************)
(* The agent's loop as the tools see it: what becomes of the tasks left    *)
(* when a call succeeds, fails or needs a human.                           *)
(*                                                                         *)
(* Orchestrator has the loop itself.  Here its nodes between two calls are *)
(* one step, and the task in hand is the first of those left, since a      *)
(* remediation goes in front of what it remedies.  The modules of tools    *)
(* extend this one and say how a call ends.                                *)
(***************************************************************************)
EXTENDS Naturals, Sequences

CONSTANTS
  MaxTaskRetries,    \* settings.max_task_retries
  MaxPlanRevisions,  \* settings.max_plan_revisions
  MaxApprovals       \* bound: resumptions

ASSUME LimitAssumption ==
  /\ MaxTaskRetries \in Nat
  /\ MaxPlanRevisions \in Nat
  /\ MaxApprovals \in Nat

VARIABLES
  tasks,      \* the tasks left, the one in hand first: each names its tool,
              \* the arguments given and the attempts made
  revisions,  \* AgentState.plan_revisions
  revised,    \* tools for which a remediation was planned
  verdict,    \* "running", "waiting" for a human, "done" or "failed"
  approvals   \* number of resumptions

progress == <<tasks, revisions, revised, verdict>>

StartOn(plan) ==
  /\ tasks = plan /\ revisions = 0 /\ revised = {}
  /\ verdict = "running" /\ approvals = 0

Planned(tool, given) == [tool |-> tool, given |-> given, attempts |-> 0]
Now == tasks[1]
Attempted == [tasks EXCEPT ![1].attempts = @ + 1]

\* Planner.revise_after_failure: what remedies a call of the tools modelled
\* here is the same tool, called without arguments.
Remediation == Planned(Now.tool, {})

Succeed ==
  /\ tasks' = Tail(tasks)
  /\ verdict' = IF Len(tasks) = 1 THEN "done" ELSE verdict
  /\ UNCHANGED <<revisions, revised>>

Retry ==
  /\ Now.attempts < MaxTaskRetries
  /\ tasks' = Attempted
  /\ UNCHANGED <<revisions, revised, verdict>>

\* Slip: attempts are counted for the revision, not for the task.
ReplanForgetful ==
  /\ Now.attempts >= MaxTaskRetries /\ revisions < MaxPlanRevisions
  /\ tasks' = <<Remediation>> \o [tasks EXCEPT ![1].attempts = 0]
  /\ revisions' = revisions + 1
  /\ revised' = revised \cup {Now.tool}
  /\ UNCHANGED verdict

Replan ==
  /\ Now.attempts >= MaxTaskRetries /\ revisions < MaxPlanRevisions
  /\ tasks' = <<Remediation>> \o Attempted
  /\ revisions' = revisions + 1
  /\ revised' = revised \cup {Now.tool}
  /\ UNCHANGED verdict

Abort ==
  /\ Now.attempts >= MaxTaskRetries /\ revisions >= MaxPlanRevisions
  /\ tasks' = Attempted
  /\ verdict' = "failed"
  /\ UNCHANGED <<revisions, revised>>

\* RecoveryEngine.decide on a transient or a tool error.
Fail == Retry \/ Replan \/ Abort

\* ... and on a permission failure.
Escalate ==
  /\ tasks' = Attempted
  /\ verdict' = "waiting"
  /\ UNCHANGED <<revisions, revised>>

\* A human approves the escalated call: the loop makes it again.
Approve ==
  /\ verdict = "waiting" /\ approvals < MaxApprovals
  /\ verdict' = "running" /\ approvals' = approvals + 1
  /\ UNCHANGED <<tasks, revisions, revised>>

LoopTypeOK ==
  /\ revisions \in Nat /\ approvals \in Nat
  /\ verdict \in {"running", "waiting", "done", "failed"}
=============================================================================
