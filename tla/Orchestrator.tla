---------------------------- MODULE Orchestrator ----------------------------
(***************************************************************************)
(* The closed loop of agent/orchestrator.py with the parts it calls: the   *)
(* planner, the permission gate, the recovery engine and the verifier.     *)
(*                                                                         *)
(* One run, driven by at most one thread at a time: resume() is entered    *)
(* only when no earlier call of it is still in its loop.  (RunService      *)
(* drops that assumption.)  A handler is one step, since nothing else      *)
(* writes the AgentState while the loop runs.                              *)
(*                                                                         *)
(* A tool is a name, a tool call is one of the outcomes the recovery       *)
(* engine and the verifier tell apart, and a task keeps what the loop      *)
(* reads: tool, whether it was given arguments, dependencies, attempts,    *)
(* last result.                                                            *)
(***************************************************************************)
EXTENDS Naturals, Sequences, FiniteSets, SequencesExt

CONSTANTS
  NoTool,            \* Task.tool is None
  Registered,        \* names in the ToolRegistry
  RiskOf,            \* ToolSpec.risk of each registered tool
  NeedsArgs,         \* tools whose run() rejects an empty argument dict
  ToolResults,       \* what each registered tool may return
  Drafts,            \* the task lists the model provider may plan
  Autonomy,          \* settings.autonomy of the run
  MaxTaskRetries,    \* settings.max_task_retries
  MaxPlanRevisions,  \* settings.max_plan_revisions
  MaxSteps,          \* Orchestrator._max_steps
  MayRaise,          \* may the model provider and the memory store fail?
  MaxDrives          \* bound: calls of resume() that grant nothing new

Risks == {"safe", "elevated", "dangerous"}
Failures == {"transient", "tool_error", "logic_error", "permission", "fatal",
             "unknown"}
\* A successful result may carry a deploy_url: a simulated or a live one.
Successes == {"ok", "ok_simulated_url", "ok_live_url"}
Results == Successes \cup Failures
TaskStatus == {"pending", "running", "completed", "skipped", "failed"}
RunStatus == {"running", "awaiting_approval", "completed", "failed", "blocked"}
Nodes == {"START", "UNDERSTAND", "CREATE_PLAN", "SELECT_NEXT", "EXECUTE",
          "OBSERVE", "DECIDE", "VERIFY", "STORE_MEMORY", "END"}

\* What a task may name: a registered tool, an unknown one, or none.
ToolNames == Registered \cup {NoTool, "unregistered"}
         \cup {"run_tests", "http_check", "deploy", "write_file"}
Draft == Seq([tool : ToolNames, args : BOOLEAN, deps : SUBSET Nat])

ASSUME ToolAssumption ==
  /\ RiskOf \in [Registered -> Risks]
  /\ NeedsArgs \subseteq Registered
  /\ ToolResults \in [Registered -> SUBSET Results]
  /\ {NoTool, "unregistered"} \cap Registered = {}

\* An unusable answer of the model is replaced by a canned list of tasks.
ASSUME DraftAssumption == Drafts \subseteq Draft \ {<<>>}

ASSUME LimitAssumption ==
  /\ MaxTaskRetries \in Nat
  /\ MaxPlanRevisions \in Nat
  /\ MaxSteps \in Nat
  /\ MaxDrives \in Nat
  /\ MayRaise \in BOOLEAN
  /\ Autonomy \in {"supervised", "autonomous"}

VARIABLES
  node,       \* AgentState.node
  status,     \* AgentState.status
  plan,       \* AgentState.plan.tasks; empty while there is no plan
  current,    \* AgentState.current_task_id; 0 is None
  revisions,  \* AgentState.plan_revisions
  verified,   \* AgentState.scratch["verification"]["verified"]
  approved,   \* PermissionManager.approved_tools
  driving,    \* is a call of resume() in its loop?
  steps,      \* that call's local step counter
  drives,     \* number of calls of resume() so far
  report,     \* the ExecutionResult of the last call that returned
  asked,      \* data.tool of the last APPROVAL_REQUIRED event, if any
  announced,  \* the OBJECTIVE_COMPLETED / OBJECTIVE_FAILED events published
  lessons     \* the long-term experiences recorded about this run

task == <<plan, current, revisions>>
call == <<driving, steps, drives, report>>
human == <<approved, asked>>
outcome == <<verified, announced, lessons>>
vars == <<node, status, task, call, human, outcome>>

NoReport == [status |-> "running", verified |-> FALSE]

-----------------------------------------------------------------------------
(* The plan: shared/contracts.py Plan, agent/planner.py.                   *)

NewTask(id, tool, args, deps, fixes) ==
  [id |-> id, tool |-> tool, args |-> args, deps |-> deps, fixes |-> fixes,
   status |-> "pending", attempts |-> 0, result |-> "none"]

PlanOf(draft) ==
  [i \in DOMAIN draft |->
     NewTask(i, draft[i].tool, draft[i].args, draft[i].deps, 0)]

Done(p) == {p[i].id : i \in {j \in DOMAIN p : p[j].status = "completed"}}

IsComplete(p) == \A i \in DOMAIN p : p[i].status \in {"completed", "skipped"}

HasFailure(p) == \E i \in DOMAIN p : p[i].status = "failed"

\* Slip: a task is picked up without regard to its dependencies.
ReadyUnordered(p) == {i \in DOMAIN p : p[i].status = "pending"}

\* Positions next_task() would accept; it returns the first of them.
Ready(p) ==
  {i \in DOMAIN p : p[i].status = "pending" /\ p[i].deps \subseteq Done(p)}

Holds(p, id) == \E i \in DOMAIN p : p[i].id = id
At(p, id) == CHOOSE i \in DOMAIN p : p[i].id = id

RemediationTool(tool) ==
  IF tool \in {"run_tests", "http_check", "deploy"} THEN "write_file" ELSE tool

\* The remediation task takes over the dependencies of the failed one; it is
\* given no arguments.
Remediation(p, k) ==
  NewTask(Len(p) + 1, RemediationTool(p[k].tool), FALSE, p[k].deps, p[k].id)

\* Slip: the failed task is not reset to pending.
ReviseWithoutReset(p, k) ==
  InsertAt([p EXCEPT ![k].deps = {Remediation(p, k).id}], k, Remediation(p, k))

\* Slip: the remediation task replaces the failed one.
ReviseOverwrites(p, k) == [p EXCEPT ![k] = Remediation(p, k)]

\* It goes in front of the failed task, which now depends on it alone.
Revise(p, k) ==
  InsertAt([p EXCEPT ![k].status = "pending",
                     ![k].deps = {Remediation(p, k).id}],
           k, Remediation(p, k))

-----------------------------------------------------------------------------
(* The permission gate, a tool call, the recovery engine, the verifier.    *)

Allowed(tool) ==
  \/ RiskOf[tool] = "safe"
  \/ tool \in approved
  \/ RiskOf[tool] = "elevated" /\ Autonomy = "autonomous"

Outcomes(t) ==
  IF t.tool \in NeedsArgs /\ ~t.args THEN {"tool_error"} ELSE ToolResults[t.tool]

\* Slip: one revision too many.
DecisionOffByOne(t) ==
  LET revise == IF revisions <= MaxPlanRevisions THEN "REPLAN" ELSE "ABORT"
  IN CASE t.result = "fatal" -> "ABORT"
       [] t.result = "permission" -> "ESCALATE"
       [] t.result \in {"transient", "tool_error"} ->
            IF t.attempts <= MaxTaskRetries THEN "RETRY" ELSE revise
       [] OTHER -> revise

Decision(t) ==
  LET revise == IF revisions < MaxPlanRevisions THEN "REPLAN" ELSE "ABORT"
  IN CASE t.result = "fatal" -> "ABORT"
       [] t.result = "permission" -> "ESCALATE"
       [] t.result \in {"transient", "tool_error"} ->
            IF t.attempts <= MaxTaskRetries THEN "RETRY" ELSE revise
       [] OTHER -> revise

\* Evidence the verifier looks at: a test task that was executed, ...
TestsPassed(p) ==
  LET ran == {i \in DOMAIN p : p[i].tool = "run_tests" /\ p[i].result # "none"}
  IN ran # {} => \E i \in ran : p[i].result \in Successes

\* ... and the last deployment, whose URL is fetched unless it is simulated.
SmokeChecks(p) ==
  LET deployed == {i \in DOMAIN p :
                     p[i].result \in {"ok_simulated_url", "ok_live_url"}}
  IN IF /\ deployed # {}
        /\ "http_check" \in Registered
        /\ p[Max(deployed)].result = "ok_live_url"
       THEN BOOLEAN
       ELSE {TRUE}

-----------------------------------------------------------------------------
(* The drive loop.                                                         *)

Init ==
  /\ node = "START" /\ status = "running"
  /\ plan = <<>> /\ current = 0 /\ revisions = 0
  /\ approved = {} /\ asked = NoTool
  /\ driving = FALSE /\ steps = 0 /\ drives = 0 /\ report = NoReport
  /\ verified = FALSE /\ announced = <<>> /\ lessons = <<>>

\* resume(state, approvals): POST .../start grants nothing, POST .../approve
\* grants the tools it is given.  A grant of the tool asked for is not counted
\* against MaxDrives: there are finitely many tools.
Resume(tools) ==
  /\ ~driving
  /\ drives < MaxDrives \/ (tools = {asked} /\ asked \notin approved)
  /\ approved' = approved \cup tools
  /\ node' = IF node = "START" THEN "UNDERSTAND" ELSE node
  /\ status' = IF status = "awaiting_approval" THEN "running" ELSE status
  /\ driving' = TRUE /\ steps' = 0 /\ drives' = drives + 1
  /\ UNCHANGED <<report, task, asked, outcome>>

\* One iteration of the loop: the handler of node n runs.
Turn(n) ==
  /\ driving /\ status # "awaiting_approval"
  /\ node = n /\ steps < MaxSteps
  /\ steps' = steps + 1
  /\ UNCHANGED <<driving, drives, report>>

\* The loop is left at END, at the step budget or to wait for a human.
Return ==
  /\ driving
  /\ node = "END" \/ steps >= MaxSteps \/ status = "awaiting_approval"
  /\ status' = IF steps >= MaxSteps /\ status = "running" THEN "failed"
                                                          ELSE status
  /\ report' = [status |-> status', verified |-> verified]
  /\ driving' = FALSE
  /\ UNCHANGED <<node, steps, drives, task, human, outcome>>

\* Slip: the failure is handed to the memory node, which announces it again.
FailIntoMemory ==
  /\ MayRaise
  /\ node' = "STORE_MEMORY" /\ status' = "failed"
  /\ announced' = Append(announced, "OBJECTIVE_FAILED")
  /\ lessons' \in {lessons,
                   Append(lessons, [outcome |-> "failed", verified |-> FALSE])}
  /\ UNCHANGED verified

\* _fail_from_exception: the state fails, and the lesson is kept if it can be.
FailFromException ==
  /\ MayRaise
  /\ node' = "END" /\ status' = "failed"
  /\ announced' = Append(announced, "OBJECTIVE_FAILED")
  /\ lessons' \in {lessons,
                   Append(lessons, [outcome |-> "failed", verified |-> FALSE])}
  /\ UNCHANGED verified

-----------------------------------------------------------------------------
(* The node handlers.                                                      *)

Understand ==
  /\ Turn("UNDERSTAND")
  /\ \/ node' = "CREATE_PLAN" /\ UNCHANGED <<status, outcome>>
     \/ FailFromException
  /\ UNCHANGED <<task, human>>

CreatePlan ==
  /\ Turn("CREATE_PLAN")
  /\ \/ \E d \in Drafts : plan' = PlanOf(d)
        /\ node' = "SELECT_NEXT" /\ UNCHANGED <<status, outcome>>
     \/ \E p \in {plan} \cup {PlanOf(d) : d \in Drafts} : plan' = p
        /\ FailFromException
  /\ UNCHANGED <<current, revisions, human>>

AllDone ==
  /\ IsComplete(plan)
  /\ node' = "VERIFY"
  /\ UNCHANGED <<status, task>>

NothingRunnable ==
  /\ ~IsComplete(plan) /\ Ready(plan) = {}
  /\ status' = IF HasFailure(plan) THEN "failed" ELSE "blocked"
  /\ node' = "STORE_MEMORY"
  /\ UNCHANGED task

StartTask ==
  /\ ~IsComplete(plan) /\ Ready(plan) # {}
  /\ LET k == Min(Ready(plan))
     IN /\ current' = plan[k].id
        /\ plan' = [plan EXCEPT ![k].status = "running"]
  /\ node' = "EXECUTE"
  /\ UNCHANGED <<status, revisions>>

SelectNext ==
  /\ Turn("SELECT_NEXT")
  /\ AllDone \/ NothingRunnable \/ StartTask
  /\ UNCHANGED <<human, outcome>>

\* _execute by its three exits.  Its fourth, "current task missing", needs a
\* plan that lost a task: CurrentTaskPresent shows that there is none.
ExecuteNothing(k) ==
  /\ plan[k].tool \notin Registered
  /\ plan' = [plan EXCEPT ![k].status = "completed"]
  /\ node' = "SELECT_NEXT"
  /\ UNCHANGED <<status, human>>

ExecuteGated(k) ==
  /\ plan[k].tool \in Registered /\ ~Allowed(plan[k].tool)
  /\ asked' = plan[k].tool
  /\ status' = "awaiting_approval"
  /\ UNCHANGED <<node, plan, approved>>

\* Slip: the attempt is not counted.
ExecuteForgetsAttempt(k) ==
  /\ plan[k].tool \in Registered /\ Allowed(plan[k].tool)
  /\ \E r \in Outcomes(plan[k]) : plan' = [plan EXCEPT ![k].result = r]
  /\ node' = "OBSERVE"
  /\ UNCHANGED <<status, human>>

ExecuteTool(k) ==
  /\ plan[k].tool \in Registered /\ Allowed(plan[k].tool)
  /\ \E r \in Outcomes(plan[k]) :
       plan' = [plan EXCEPT ![k].attempts = @ + 1, ![k].result = r]
  /\ node' = "OBSERVE"
  /\ UNCHANGED <<status, human>>

Execute ==
  /\ Turn("EXECUTE")
  /\ LET k == At(plan, current)
     IN ExecuteNothing(k) \/ ExecuteGated(k) \/ ExecuteTool(k)
  /\ UNCHANGED <<current, revisions, outcome>>

\* The session note is written between the status change and its event.
Observe ==
  /\ Turn("OBSERVE")
  /\ LET k == At(plan, current)
         ok == plan[k].result \in Successes
     IN /\ plan' = IF ok THEN [plan EXCEPT ![k].status = "completed"] ELSE plan
        /\ \/ /\ node' = IF ok THEN "SELECT_NEXT" ELSE "DECIDE"
              /\ UNCHANGED <<status, outcome>>
           \/ FailFromException
  /\ UNCHANGED <<current, revisions, human>>

\* Slips of a retry: the task keeps running, or is skipped instead.
RetryStaysRunning(k) ==
  /\ Decision(plan[k]) = "RETRY"
  /\ node' = "SELECT_NEXT"
  /\ UNCHANGED <<plan, status, revisions, human>>

RetrySkips(k) ==
  /\ Decision(plan[k]) = "RETRY"
  /\ plan' = [plan EXCEPT ![k].status = "skipped"]
  /\ node' = "SELECT_NEXT"
  /\ UNCHANGED <<status, revisions, human>>

Retry(k) ==
  /\ Decision(plan[k]) = "RETRY"
  /\ plan' = [plan EXCEPT ![k].status = "pending"]
  /\ node' = "SELECT_NEXT"
  /\ UNCHANGED <<status, revisions, human>>

Replan(k) ==
  /\ Decision(plan[k]) = "REPLAN"
  /\ plan' = Revise(plan, k)
  /\ revisions' = revisions + 1
  /\ node' = "SELECT_NEXT"
  /\ UNCHANGED <<status, human>>

Escalate(k) ==
  /\ Decision(plan[k]) = "ESCALATE"
  /\ asked' = NoTool
  /\ status' = "awaiting_approval"
  /\ node' = "EXECUTE"
  /\ UNCHANGED <<plan, revisions, approved>>

\* Slip: the run ends without a visit to the memory node.
AbortEnds(k) ==
  /\ Decision(plan[k]) = "ABORT"
  /\ plan' = [plan EXCEPT ![k].status = "failed"]
  /\ status' = "failed"
  /\ node' = "END"
  /\ UNCHANGED <<revisions, human>>

Abort(k) ==
  /\ Decision(plan[k]) = "ABORT"
  /\ plan' = [plan EXCEPT ![k].status = "failed"]
  /\ status' = "failed"
  /\ node' = "STORE_MEMORY"
  /\ UNCHANGED <<revisions, human>>

Decide ==
  /\ Turn("DECIDE")
  /\ LET k == At(plan, current)
     IN Retry(k) \/ Replan(k) \/ Escalate(k) \/ Abort(k)
  /\ UNCHANGED <<current, outcome>>

Verify ==
  /\ Turn("VERIFY")
  /\ \E smoke \in SmokeChecks(plan) :
       verified' = (IsComplete(plan) /\ TestsPassed(plan) /\ smoke)
  /\ status' = IF verified' THEN "completed" ELSE "failed"
  /\ node' = "STORE_MEMORY"
  /\ UNCHANGED <<task, human, announced, lessons>>

\* Nothing is announced for a blocked objective.
Announcement(s) ==
  CASE s = "completed" -> <<"OBJECTIVE_COMPLETED">>
    [] s = "failed" -> <<"OBJECTIVE_FAILED">>
    [] OTHER -> <<>>

\* Slip: the end is announced before the experience is recorded.
StoreMemoryAfterwards ==
  /\ Turn("STORE_MEMORY")
  /\ \/ /\ lessons' = Append(lessons, [outcome |-> status, verified |-> verified])
        /\ announced' = announced \o Announcement(status)
        /\ node' = "END"
        /\ UNCHANGED <<status, verified>>
     \/ /\ MayRaise
        /\ announced' = Append(announced \o Announcement(status),
                               "OBJECTIVE_FAILED")
        /\ node' = "END" /\ status' = "failed"
        /\ UNCHANGED <<verified, lessons>>
  /\ UNCHANGED <<task, human>>

StoreMemory ==
  /\ Turn("STORE_MEMORY")
  /\ \/ /\ lessons' = Append(lessons, [outcome |-> status, verified |-> verified])
        /\ announced' = announced \o Announcement(status)
        /\ node' = "END"
        /\ UNCHANGED <<status, verified>>
     \/ FailFromException
  /\ UNCHANGED <<task, human>>

Handler ==
  \/ Understand \/ CreatePlan \/ SelectNext \/ Execute
  \/ Observe \/ Decide \/ Verify \/ StoreMemory

Next ==
  \/ \E tools \in SUBSET Registered : Resume(tools)
  \/ Handler
  \/ Return

Spec == Init /\ [][Next]_vars

\* The thread that drives the run keeps being scheduled.
Driven == WF_vars(Handler \/ Return)
\* A human eventually grants the tool that an approval request names.
Grant ==
  /\ status = "awaiting_approval" /\ asked \in Registered \ approved
  /\ Resume({asked})
Attended == WF_vars(Grant)
\* The client starts the run.
Started == WF_vars(node = "START" /\ Resume({}))

FairSpec == Spec /\ Driven /\ Attended /\ Started

-----------------------------------------------------------------------------
(* Types.                                                                  *)

Task == [id : Nat, tool : ToolNames, args : BOOLEAN, deps : SUBSET Nat,
         fixes : Nat, status : TaskStatus, attempts : Nat,
         result : {"none"} \cup Results]

\* Every variable has the type its field or attribute has in the code.
TypeOK ==
  /\ node \in Nodes /\ status \in RunStatus
  /\ plan \in Seq(Task) /\ current \in Nat /\ revisions \in Nat
  /\ verified \in BOOLEAN
  /\ approved \subseteq Registered /\ asked \in Registered \cup {NoTool}
  /\ driving \in BOOLEAN /\ steps \in Nat /\ drives \in Nat
  /\ report \in [status : RunStatus, verified : BOOLEAN]
  /\ announced \in Seq({"OBJECTIVE_COMPLETED", "OBJECTIVE_FAILED"})
  /\ lessons \in Seq([outcome : RunStatus, verified : BOOLEAN])

-----------------------------------------------------------------------------
(* Safety.                                                                 *)

\* A task runs, and counts as done, only when everything it depends on is
\* done: replanning, which rewires dependencies while the plan is half
\* executed, never lets a task overtake its remediation.
OrderRespected ==
  \A i \in DOMAIN plan :
    plan[i].status \in {"running", "completed"} =>
      plan[i].deps \subseteq Done(plan)

\* A draft whose tasks depend on earlier ones only, as every provider of
\* models/ plans them, ...
ForwardDraft(d) == \A i \in DOMAIN d : d[i].deps \subseteq 1..(i - 1)

\* ... never reaches "no runnable task (dependency deadlock)", however often
\* it is revised, retried, paused and resumed.
NoDependencyDeadlock ==
  (\A d \in Drafts : ForwardDraft(d)) => status # "blocked"

\* The assertions of _observe and _decide, and the case _execute guards
\* against: the task the loop works on is in the plan, and has a result once
\* it was executed.
CurrentTaskPresent ==
  /\ node \in {"EXECUTE", "OBSERVE", "DECIDE"} => Holds(plan, current)
  /\ node \in {"OBSERVE", "DECIDE"} => plan[At(plan, current)].result # "none"

\* A run says COMPLETED only when the verifier passed it and the last call of
\* every tool it planned succeeded: a later success of another test task does
\* not hide a failed one.
CompletedIsEarned ==
  status = "completed" =>
    /\ verified /\ plan # <<>> /\ IsComplete(plan)
    /\ \A i \in DOMAIN plan :
         plan[i].tool \in Registered => plan[i].result \in Successes

\* A finished run has told its listeners exactly once how it ended, the event
\* agrees with the status, and so does the one lesson it may have recorded,
\* whichever handler raised and whether or not memory was there.
EndConsistent ==
  node = "END" =>
    /\ announced = Announcement(status)
    /\ lessons = <<>> \/ (Len(lessons) = 1 /\ lessons[1].outcome = status)

\* Recovery is bounded: at most MaxPlanRevisions revisions, one remediation
\* task for each, and a task is attempted again only for a retry within the
\* limit, a revision made for it, or a human who resumed the run.
Remedies(id) == {i \in DOMAIN plan : plan[i].fixes = id}
RecoveryBounded ==
  /\ revisions <= MaxPlanRevisions
  /\ Cardinality({i \in DOMAIN plan : plan[i].fixes # 0}) = revisions
  /\ \A i \in DOMAIN plan :
       plan[i].attempts <=
         MaxTaskRetries + Cardinality(Remedies(plan[i].id)) + drives

\* The step budget is a backstop: the retry and revision limits alone end a
\* call of resume() within this many handlers.
StepsBoundedByRecovery ==
  steps <= 5 + 3 * Len(plan)
             + 4 * (MaxTaskRetries * Len(plan) + MaxPlanRevisions + 1)

\* A call of resume() that returned FAILED has told the listeners, with one
\* exception: it ran out of steps, and then nobody hears of it.
OnlyBudgetIsSilent ==
  ~driving /\ report.status = "failed" /\ announced = <<>> => steps >= MaxSteps

-----------------------------------------------------------------------------
(* What a step may never do.                                               *)

\* Revising a plan loses no work: no task disappears, tasks keep their order,
\* and a completed task is never touched again.
WorkKept ==
  [][/\ \A i \in DOMAIN plan : Holds(plan', plan[i].id)
     /\ \A i, j \in DOMAIN plan :
          i < j => At(plan', plan[i].id) < At(plan', plan[j].id)
     /\ \A i \in DOMAIN plan :
          plan[i].status = "completed" => plan'[At(plan', plan[i].id)] = plan[i]
    ]_vars

-----------------------------------------------------------------------------
(* The promise a run makes.                                                *)

Promise == INSTANCE Objective WITH
  todo <- {plan[i].id : i \in DOMAIN plan} \ Done(plan),
  done <- Done(plan),
  waiting <- (status = "awaiting_approval"),
  verdict <- announced

\* The loop with its nodes, retries, revisions, pauses and exceptions does
\* nothing that the promise of Objective does not allow.
KeepsPromise == Promise!Spec

-----------------------------------------------------------------------------
(* Liveness.                                                               *)

\* A run that is started, and whose human grants what it asks for, ends, or
\* waits for ever for the permission that an escalated failure asks for.
RunEnds ==
  \/ <>(node = "END")
  \/ []<>(status = "awaiting_approval" /\ asked = NoTool)
=============================================================================
