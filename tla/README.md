# Kalki in TLA+

A verification project for Kalki, a Python service that takes one engineering
objective, plans it with a language model, works the plan off with tools,
recovers from failures, asks a human where a tool needs permission, verifies the
result and remembers what it learned. The modules here are translated from the
Python and JavaScript code of the repository; docs and tests are used to find out
what the code is meant to do.

Contents: [system](#1-the-system), [modules](#2-the-modules),
[what is checked](#3-what-is-checked), [bounds](#4-bounds),
[fairness](#5-fairness), [what is proved](#6-what-is-proved),
[where code and documents differ](#7-where-code-and-documents-differ),
[what is left out](#8-what-is-left-out), [plan](#9-plan).

## 1. The system

A client posts an objective. The API (`api/app.py`) hands it to `KalkiService`
(`backend/service.py`), which keeps one `RunHandle` per run: an `AgentState`, an
`Orchestrator`, an `EventBus`, and the result once there is one. `POST start` and
`POST approve` each spawn a daemon thread that calls `Orchestrator.resume()` on
the shared state. The orchestrator walks the state through its nodes; each
handler publishes events. The service's subscriber saves the state to the
database at every event, and an SSE generator reads the bus's history and follows
it until the status of the run tells it to close. The dashboard
(`frontend/js/app.js`) opens that stream, shows an approval button when it gets
`APPROVAL_REQUIRED`, and asks for the result when the stream has ended.

```
client -- POST start / approve --> KalkiService -- thread --> Orchestrator.resume
   ^                                  |  handle.result            |  AgentState
   |                                  v                           v
   +---- SSE (history, status) ---- EventBus <---- emit ---- node handlers
                                      |                    planner, gate, tools,
                                      v                    recovery, verifier,
                              database (agent_runs)        memory, model provider
```

| component | state | operations | what makes it hard | what makes it correct |
|---|---|---|---|---|
| drive loop, `agent/orchestrator.py` | `AgentState` (node, status, plan, current task, revisions, scratch), a local step counter | `run`, `resume`, eight node handlers, `_fail_from_exception` | pause and resume, exceptions half-way through a handler, a step budget | one announced end that agrees with the status; success only when earned; bounded recovery |
| planner, `agent/planner.py`, `shared/contracts.py` | the task list | `plan`, `replan`, `next_task`, `is_complete` | revising a half-executed plan, repeatedly | nothing lost, nothing overtaken, never stuck |
| recovery engine, `agent/recovery.py` | none | `decide` | attempts survive revisions | retries and revisions are bounded |
| permission gate, `agent/permissions.py` | tools granted | `approve`, `check` | grants come from another thread | no call without permission |
| verifier, `agent/verification.py` | none | `verify` | partial evidence | a verdict that cannot be had by skipping work |
| built-in tools, `agent/tools/` | the working tree | `run` of seven tools | every failure class, writes that fail half-way, commands that outlive their timeout | a call yields a result, never an exception |
| event bus, `agent/events.py` | history, sequence number | `emit`, `publish`, `subscribe`, `history` | numbered under a lock, delivered outside it | a reader skips nothing and repeats nothing |
| run service, `backend/service.py` | handles | create, start, approve, result, events | several threads on one state | a step is not executed twice, a grant is not lost |
| run persistence, `backend/persistence.py` | rows of runs | `save_state` | written at events only | an ended run's row tells its end |
| stream, `api/app.py` | position of each stream | replay, poll, flush | status and history are read separately | closes, and misses nothing but the report of the end |
| integration store, `backend/persistence.py`, `api/integrations.py` | dictionary in memory, table; local projects | save, get, delete of credentials; pairing, listing, removing of projects | lock around the dictionary only, failing statements, restarts, several processes over one table | what was written last holds; memory and table agree |
| sign-in and connections, `api/auth.py`, `api/integrations.py`, start of `frontend/js/app.js` | the browser's token, authorizations under way, credentials | logins, callbacks, connect, disconnect, logout, `/me` | callbacks that come late or again, sessions that expire, requests without a token | a credential is saved once, for whom it was asked, and stays disconnected |
| git, terminal and sandbox tools, `tools/git_tool.py`, `tools/terminal.py`, `sandbox/docker_sandbox.py` | the repository, its index and lock, the remote | eleven tools | killed commands, strays that go on, retries, remediations without arguments | what is committed was planned, done means published, protected branches stay |
| filesystem tools, `tools/filesystem.py` | files of the workspace | read, write, edit, list, search | line arithmetic, writes that fail half-way | read, edit and search mean the same lines |
| GitHub and Vercel tools, `integrations/` | the remote's branches, pull requests, deployments | thirteen tools, each up to two requests | lost and late answers, retries of what is not idempotent | success is real, repetition is bounded |
| dashboard, `frontend/js/app.js` with its adapters | mode, running flag, active run, subscription, result panel | start, stop, switch, approve, events, answers | answers and streams of another run, interrupted streams, early stops | never waits for nothing, ends on the verdict |
| model providers, `models/` | fallback order | `plan`, `complete` | outages, unusable answers | a non-empty plan or an exception |
| memory, `memory/` | experiences, embeddings | remember, recall | may fail at any call | a failed store does not change the verdict silently |
| web tools, database tools | none | one request, one statement | | the failure class that recovery decides on |

`PROJECT.json` lists all of them with their status, and under `hazards` every
place found so far that a test would hardly reach, with the properties that watch
it.

## 2. The modules

| module | what it models |
|---|---|
| `Objective` | abstract: what a run promises. Work is planned once, gets done and stays done, more may turn up, the run may wait for a human, and it ends once, positively only when nothing is left to do. |
| `Orchestrator` | the drive loop with planner, gate, recovery engine and verifier; one action per node handler. Implements `Objective`. |
| `OrchestratorProofs` | its inductive invariant and theorems. |
| `MCOrchestrator` | tools, tool results and drafts for its runs. |
| `RunService` | the same run as threads, bus, database row and stream see it; a handler is the sequence of its visible effects. Implements `Objective`. |
| `RunServiceProofs` | its inductive invariants and theorems. |
| `MCRunService` | its symmetry set. |
| `Credential` | abstract: a register that a write unsettles and that gives no older answer once it has settled. |
| `IntegrationStore` | the credential store: the dictionaries of several processes, the table, overlapping requests, restarts, failing statements. Implements `Credential`. |
| `IntegrationStoreProofs` | its inductive invariant and theorems. |
| `MCIntegrationStore` | its symmetry set. |
| `TaskLoop` | the drive loop as tools see it: what becomes of the tasks left when a call succeeds, fails or needs a human. The two modules of tools that follow extend it. |
| `TaskLoopProofs` | lemmas on what a call's end does to the sequence of tasks, for both. |
| `RemoteTools` | GitHub, Vercel and web tools: requests, lost and late answers. |
| `RemoteToolsProofs` | its inductive invariant and theorems. |
| `MCRemoteTools` | plans of remote calls. |
| `Workspace` | git, terminal and sandbox tools and `run_command` over one repository. |
| `WorkspaceProofs` | its inductive invariant and theorems. |
| `MCWorkspace` | plans of git and shell calls. |
| `FileTools` | filesystem tools, and the built-in ones for files, over texts of words and line ends. |
| `MCFileTools` | two files and three texts. |
| `Connections` | signing in, connecting and disconnecting, local projects. Takes the store of credentials as a settled register. |
| `ConnectionsProofs` | its inductive invariants and theorems. |
| `MCConnections` | its symmetry set and one local project. |
| `Dashboard` | the page over a service that runs, pauses and ends as `RunService` has it. |
| `DashboardProofs` | its inductive invariant and theorems. |
| `MCDashboard` | the module the run of the page starts from. |

### Orchestrator

| in the module | in the code |
|---|---|
| `node`, `status`, `current`, `revisions` | the fields of `AgentState` |
| `plan`, a sequence of records `id, tool, args, deps, status, attempts, result, fixes` | `AgentState.plan.tasks`; `fixes` names the task a remediation was made for (in the code, the title of the remediation) |
| `verified` | `scratch["verification"]["verified"]` |
| `approved` | `PermissionManager.approved_tools` |
| `driving`, `steps`, `report` | the frame of a call of `resume()`, and what it returned |
| `asked` | `data.tool` of the last `APPROVAL_REQUIRED` |
| `announced`, `lessons` | the terminal events published; the experiences recorded |
| `Resume(tools)` | the head of `resume(state, approvals)` |
| `Understand` ... `StoreMemory` | the node handlers, each with every call it makes that changes state |
| `FailFromException` | the `except` around a handler: it may strike wherever the handler calls the model provider or the memory store, after the writes the handler made before that |
| `Return` | leaving the loop, with the step budget's late failure |
| `Ready`, `IsComplete`, `Revise`, `Decision`, `Allowed`, `TestsPassed`, `SmokeChecks` | `Plan.next_task`, `Plan.is_complete`, `Planner.replan`, `RecoveryEngine.decide`, `PermissionManager.check`, the checks of `VerificationEngine` |

A tool call is the outcome that recovery and verification tell apart: one of three
successes (a deployment URL that is fetched, one that is simulated, none) or one
of six failure classes. A draft is any non-empty list of tasks: dependencies may
point forward, in circles or nowhere.

### RunService

`Orchestrator` takes a handler as one step. That is sound while one thread drives
a run and nobody looks. `RunService` drops both assumptions. A handler becomes a
script of effects (`Set`, `Put`, `Publish`, `Fallible`, `Then`, `Goto`), computed
from the state where the code computes it, and any other thread, the stream or
the client may act between two effects. Where the granularity matters it is the
code's: the loop reads the node for its condition and again to find the handler
(`Loop`, `Dispatch`); `emit` appends to the history before its subscriber saves
the row; the node is stored before the pause check; a write to a task goes to the
plan object the handler found, even if another thread has replaced it. The three
assignments at the head of `resume()` are one step, since nothing in between is
read in a combination that this hides.

Retries, revisions and escalations are left to `Orchestrator`: their effects on
others are those of a gate request and of an abort.

### IntegrationStore

An operation is the steps between which other requests can run: the dictionary
under its lock, then the statement on the table; a get that misses the dictionary
reads the table and then fills the dictionary.

| in the module | in the code |
|---|---|
| `cache` | `_mem_integrations[(user, provider)]`, one in each process: `vercel.json` routes `/api` to `api/app.py` as a function of which several instances may run |
| `table` | the row of `user_integrations` |
| `request` | what each thread of a server is doing: FastAPI runs the endpoints in a thread pool |
| `Save`, `Persist`; `Get`, `Query`, `Fill`; `Delete`, `Erase` | the steps of the three operations; `Fails` is the `except` that logs and goes on |
| `Restart(p)` | a process ends and starts: its dictionary is empty, its requests are cut off |
| `last` | a history variable: what the last write wrote, whether it ran to its end with no other beside it (`alone`), whether its statement worked (`stored`), and the processes that held nothing older (`clean`) |

`Overlap` says whether requests may overlap and `Outages` which statements may fail.
The run and the theorems leave both open; a smaller choice shows what a single cause does.

### TaskLoop, RemoteTools, Workspace

`TaskLoop` folds the nodes between two calls into one step, which is sound for the
tools because nothing they touch changes in between: the task in hand is the first
of `tasks`, a remediation is put in front of what it remedies (`planner.py` inserts it
there and makes it the only dependency), attempts are counted before the call and
survive a revision. A call ends with `Succeed`, `Fail` (retry, revision or abort, as
`RecoveryEngine.decide` has it for transient and tool errors) or `Escalate`
(permission). `Approve` is a resumption. The remediation is the same tool without
arguments, as `_remediation_tool` gives for every tool of `RemoteTools` and `Workspace`. The
permission gate before a call, which `Orchestrator` has, is left out: it decides
whether a call is made and not what it does.

| in the module | in the code |
|---|---|
| `remote`, `reported`, `late`, `lost` | what the remote has; what results told of; requests given up on; how many POSTs went without an answer |
| `Accepted`, `Rejected` | `_no_token` and the checks for arguments |
| `Post(x)` | one `urlopen` of `_api_call` or `_vercel_call`: answered, refused or undelivered, answered in vain, timed out while under way |
| `ResolveBase`, `CreateBranch` | the two requests of `GitHubCreateBranchTool` |
| `head`, `exists`, `holds`, `changed`, `staged`, `locked`, `origin` | the repository: HEAD, branches, the files whose change each has, working tree, index, `.git/index.lock`, the remote |
| `Git(may, effect)` | `_git`: exit code 0 with the effect, an error, or killed by the timeout before or after the effect, perhaps leaving the lock |
| `Shell(c)`, `loose`, `Stray(c)` | a shell or container whose client is killed at the timeout, and what it started going on |
| `FindTarget`, `Push` | the two gits of `GitPushTool`; the argument is compared with the protected names as it is |
| `Refspec`, `Source`, `Destination`, `Sends` | what git takes that argument for: a branch, or a refspec from a source to a destination, `HEAD` being the current branch |

`Status` and `Diff` refresh the index and so may leave its lock; `CheckedOut` is what a
branch has after a checkout, also one that only the remote had. A branch holds the files
whose change is in it; two changes of one file are one. A command edits, leaves the
branch, or neither; anything it could do between these is a stray's later step.

### FileTools

A text is a sequence of words and line ends, so that `splitlines(keepends=True)`, its
slices and their concatenation are the sequence operators of the community modules.
`ReadRange` and `ReplaceRange` follow the slices, overlong bounds included, and a negative
end, which counts from the last line.
Writing empties a file first, so that a failure leaves a prefix. `List` and `Search` are
functions of the files, with the order and the early exits of the code; so is `ListDir`.
`ReadFile` and `WriteFile`, the built-in tools, differ from `Read` and `Write` in that a
path that leads out of the workspace is a tool error, which is retried, and not a matter
for a human. An empty
`old_text` is left out: Python's `replace` puts the new text between all characters.

### Connections

A flow is one authorization, or one submission of a Vercel token: its `kind`, where it
is `at`, the `user` in its state parameter (or profile), whether the state is `fresh`,
and what became of its `code`. A callback is four steps (`Callback`, `Exchange`,
`Profile`, `Save`), between which anything else may happen. `Requester(header)` is
`get_required_user` with its fallback to the guest. `gone` is a ghost: a credential was
disconnected while no authorization that could bring it back was under way.

A request about a local project changes `listed` (`_mem_local_projects`) and then has a
statement to execute, which stays in `statements` until `Execute` runs it or it fails.
`doubt` is a ghost for the projects of which the table need not follow the memory.

### Dashboard

`running`, `active`, `unsub`, `mode` and the panel are the page's fields;
`creating`, `results` and `approving` are its calls that are not yet answered, so that
each `await` is a place where anything else may happen. `stream` and `seen` are its
`EventSource`s. `Works` and `Concludes` give the service the orders that `RunService`
shows: the status is final before the last event is there, and a run may end without
one. `astray` is a ghost that records that the page was about to mix two runs.

## 3. What is checked

Definitions commented `Slip` are plausible mistakes in the code they stand next to.
They are no part of any specification; each property is known to fail when one of
them takes the place of the definition it is a slip of.

| run | specification | shows |
|---|---|---|
| `orch_core` | `Orchestrator` over built-in tools, supervised, all failure classes, failing memory and model, one retry, two revisions; fair | the inductive invariant of the proofs (types included), `NoDependencyDeadlock`, `CompletedIsEarned`, `EndConsistent`, `RecoveryBounded`, `StepsBoundedByRecovery`; `WorkKept` of every step; it implements `Objective`; `RunEnds` |
| `orch_scripted` | plans with a diamond listed out of order, a cycle, a dangling dependency; a budget of nine steps, so that calls are cut short and resumed | `OrderRespected`, `OnlyBudgetIsSilent` |
| `svc_follow` | `RunService`: pause, approval after the thread returned, failures anywhere, a stream that starts late and comes back; fair | `StreamIsReplay`, `VerdictIsLast`, `EndIsRecorded`, `ToolsRunOnce`, `OnlyTheEndIsMissed`; it implements `Objective` at this granularity too; `StreamCloses`, `RunEnds` |
| `svc_race` | the approval arrives on the event: two threads on one state | `GateHolds` and `OrderKept` survive even so |
| `cred_all` | `IntegrationStore`: two processes, overlapping requests, any statement failing, restarts anywhere | `LastWriteHolds`, it implements `Credential` |
| `remote` | `RemoteTools` over look-ups, releases (branch, pull request, production) and deployments; one retry, two revisions, one resumption | `SuccessIsReal`, `NothingUnreported`, `ReleasesBounded`, `RemediesNeedArgs` |
| `commands` | `Workspace` over publications with a command in the middle, updates, pushes of refspecs, and calls that are refused | `CommittedAsPlanned`, `DoneIsPublished`; `OnlyRefspecsPass` of every step |
| `files` | every text that writes and edits make of two files | `SearchTellsWhere`, `EditKeepsTheRest` |
| `connect` | two flows of any kind, one local project, a page and an API client | `SavedOnceForItsUser`, `DisconnectionLasts`, `RowsFollow` |
| `dash` | two runs on one page | `NeverStuck`, `ListensWhileRunning`, `ShowsTheVerdict` |

The remaining runs, `svc_early` and `connect_guest`, each check one statement of the
documentation that the code does not keep, and end in a counterexample; see section 7.

What the main properties say:

- `NoDependencyDeadlock`. A plan whose tasks depend on earlier ones only never
  ends as "no runnable task (dependency deadlock)", however often it is revised,
  retried, paused and resumed.
- `CompletedIsEarned`. COMPLETED means verified, everything done, and the last
  call of every planned tool succeeded. The verifier itself is satisfied by any
  passing test task; that this hides no failed one follows from how tasks complete.
- `EndConsistent`. At END exactly one terminal event was published (none for a
  blocked run), it agrees with the status, and so does the lesson, also when the
  handler that announces the end raises.
- `RecoveryBounded`, `StepsBoundedByRecovery`. Attempts survive revisions and a
  remediation may fail and be revised itself, yet calls of a tool and handlers of
  a call of `resume()` stay within bounds that do not mention the step budget.
- `OnlyBudgetIsSilent`. A call that returned FAILED has published `OBJECTIVE_FAILED`,
  unless it ran out of steps: then nobody but the caller hears of it.
- `WorkKept`. A revision drops and reorders no task and touches no completed one.
- `KeepsPromise`. Every step, exceptions included, is one the promise allows.
- `StreamIsReplay`. What a subscriber got is the history from where it started,
  without gap or repetition.
- `EndIsRecorded`. Once nobody drives a run that announced its end, its row and its
  stored result tell what was announced. Before that they may lag, see section 7.
- `ToolsRunOnce`. A pause and its approval repeat no call. Holds as long as one thread at
  a time drives the run (`svc_follow`, and the theorem for every such behaviour), and not
  when a client approves as soon as the status says so (section 7).
- `OrderKept`. Each tool is called after those of all earlier tasks were called, by
  whichever thread. That they have also returned, as a listener sees it, holds only while
  one thread drives: with three tasks and two threads `TOOL_STARTED` of a task can be
  published before the other thread has published `TOOL_RETURNED` of the one before it.
- `OnlyTheEndIsMissed`. A client whose stream was closed by a pause has got the request it
  is to answer; one whose stream was closed by the end has got all of the work and misses
  no more than the report of the end, whichever failure made it. The code does not give
  more, see section 7.
- `StreamCloses`. A stream that is being served closes, whether the run ends or waits, so
  that the page can go on to the result or to the approval.
- `LastWriteHolds`. However requests overlap, statements fail and processes restart: once a
  write has returned that had no other write beside it and whose statement worked, the
  table has what it wrote, and each memory has that or nothing, unless the memory belongs to
  another process that held a credential when the write began, or a get had read the row
  before the write changed it. Each of these exceptions is needed: in each the code does let
  a deleted credential live, see section 7.
- `SuccessIsReal`. A plan that was worked off left at the remote all it was to make: a
  branch that exists already, a base that does not resolve or an answer that is lost
  is never taken for success.
- `ReleasesBounded`. A production release whose answers are lost is made at most once for
  each attempt the recovery engine grants its task, and never by a remediation.
- `RemediesNeedArgs`. A run that revised its plan for a tool that needs arguments does
  not complete: revision helps only tools that work without them.
- `CommittedAsPlanned`. What is committed was planned to be added, or came from others.
  The one exception is the remediation of `git_add`, which stages everything.
- `DoneIsPublished`. A plan that checks out a branch, adds a file that only the run changes,
  commits and pushes, with nothing planned in between that leaves the branch, and is done,
  has the file's change on that branch at the remote, unless a command outlived its call.
- `OnlyRefspecsPass`. A push moves a protected branch of the remote only if it was planned
  with a refspec that has it as its destination. A remediation does not, nor does a push of
  "the current branch" while a stray command changes which one that is. That no push
  does, as the tool says, would be false, see section 7.
- `SearchTellsWhere`, `EditKeepsTheRest`. The line numbers of a search are those a read
  takes; an edit of lines that a read shows replaces these and no others, also in a text
  whose last line has no end.
- `SavedOnceForItsUser`, `DisconnectionLasts`. Callbacks loaded again, logouts, expiring
  sessions and restarts in between neither save a credential twice nor for another user,
  nor bring back one that was disconnected, unless an authorization for it was under way.
- `RowsFollow`. The memory of local projects changes first and the table after it: unless
  requests for a project overlapped, its statement failed, or the server restarted
  since, the table has it exactly if the memory lists it. A project from before a
  restart, which the memory does not list, is still removed from the table.
- `NeverStuck`. A page that says a run is running, and so refuses to start one, waits for
  something that will end this.
- `ListensWhileRunning`, `ShowsTheVerdict`. A stopped page does not listen on, and a page
  that followed a run to its end shows its verdict, as long as it was about one run at a
  time; `astray` says what is excepted.

## 4. Bounds

- `Orchestrator`: up to four tasks in a draft, two revisions (the code's default is
  three), one or two retries (two), `MaxDrives` calls of `resume()` that grant
  nothing new (2 or 3). Approvals of a tool that was asked for are not bounded.
  Two revisions are enough for a remediation that is remediated itself, one retry
  for the `<=` in the limit to matter. The step budget is the code's 200 except
  where it is the subject (`orch_scripted`, with nine); by
  `StepsBoundedByRecovery` a call never comes near 200 in the other runs.
- `RunService`: one or two tasks, of which one is gated; two threads, one for the
  start and one for the approval; one `POST start`. A second start on a run that
  is being driven may make both threads plan again until the step budget is used
  up; that hazard is listed, not modelled. In `svc_race` the budget is six handlers
  a thread: they take one thread through `UNDERSTAND`, `CREATE_PLAN`, `SELECT_NEXT`,
  `EXECUTE`, and both through the calls of the gated tool and, between them, the
  selection of the next task.
- `IntegrationStore`: two processes, three requests under way together, two tokens; how many
  requests there are in all is not bounded. A write, another one beside it and a get that
  fills are the most that an exception needs.
- `RemoteTools`: plans of up to three calls, one retry, two revisions, one resumption. A
  release is posted up to twice and revised; what arrives late may arrive at any time.
- `Workspace`: plans of up to five calls, the branches `main`, `topic` and a detached HEAD, the
  refspecs `HEAD`, `HEAD:main`, `topic:main` and `refs/heads/main`,
  a file to publish, one not to publish and one of others; one retry, two revisions.
  Two gits in a row may be killed, the lock may stay or not.
- `FileTools`: texts of up to four words and line ends in two files: up to four lines,
  with and without a last line end. Line numbers from -1 to past the last line, at most two
  results.
- `Connections`: two flows and one local project, of the user who signs in by Google. Each
  property relates a credential to the one flow that brought it and at most one other, or
  is about one project; the theorems have any number.
- `Dashboard`: two runs, one event each before the last. Mixing two runs takes two; a
  third adds no kind of leftover that the second has not.

`CHECK_DEADLOCK FALSE` stands where the system stops: a run that has reached its end, has
failed or waits has no further step. The runs of `IntegrationStore`, `FileTools`,
`Connections` and `Dashboard` are checked for deadlock.

## 5. Fairness

- `Driven`, `WF(Drive(t))`: a Python thread that can go on does, since nothing in
  the loop blocks on another thread.
- `Follow`: the SSE generator polls with a sleep; the event loop serves it.
- `Started`, `PostStart`: the client starts the run it created.
- `Attended`, `PostApprove`: a human grants what the run asks for. Without it a
  paused run waits for ever, as intended. For an escalated permission failure the
  request names no tool that could be granted, hence the second disjunct of
  `Orchestrator`'s `RunEnds`.

A client may ask for what comes after a stream has closed (`Reopen`), but nothing relies
on it: the dashboard closes its `EventSource` at `_end` (`adapters/api-adapter.js:255`)
and does not subscribe to that run again. No strong fairness is used. The modules added to
these two state no fairness: a remote need not answer, a person need not come back, and
that a tool's run ends follows from `Orchestrator`.

## 6. What is proved

Each theorem holds for every value of the constants, under the named assumptions of the
modules, which give the constants their types, and under what its own statement assumes.

### Orchestrator, for every registry, set of drafts, autonomy and limit

Assumptions: `ToolAssumption`, `DraftAssumption` and `LimitAssumption`, which only
give the constants their types, and that a draft is not empty
(`models/base.py` replaces an unusable answer by canned tasks).

`OrderRespected`, `CompletedIsEarned` and `EndConsistent` are not inductive by
themselves. `Inv` adds:

- `IdsFresh`: ids are unique and within `1..Len(plan)`, so that the id of the next
  remediation, `Len + 1`, is fresh;
- `DependsOnEarlier`, when all drafts are forward: the remediation is inserted in
  front of the failed task, takes over its dependencies and becomes its only one, so
  that dependencies still point backwards in the list;
- `OneRunning`: from selection to decision the task in hand is the only one running,
  everything else is pending or completed, and a task is given up only where the run
  ends;
- `ResultsKnown`: a completed task with a tool has a successful last result; one in
  DECIDE has a failed one;
- `StatusFits`: which status goes with which node; nothing is announced before END.

There is one lemma for each action (`ResumeInv` ... `StoreMemoryInv`) over lemmas
about inserting into a sequence (`InsertAtProperties`, `ReviseProperties`), about a
plan of which one task changed (`PlanUpdate`) or which was revised (`PlanRevision`),
and `SomethingReady`: by well-founded induction on positions, an incomplete plan
with backward dependencies and no running task has a task that is ready. Theorems:
`Invariance`, `TypeCorrect`, `OrderIsRespected`, `NeverBlocked`,
`TaskAlwaysPresent`, `CompletionIsEarned`, `EndIsConsistent`.

On `Inv` rest:

- `WorkIsKept`, an action property: whatever a step does to the plan, the old tasks embed
  in the new ones in their order, completed ones unchanged.
- `RecoveryIsBounded`. `RecoveryInv` counts: there is one remediation for each revision,
  and a task that may be tried again has a try left (`TryLeft`), by the retries, the
  remediations made for it and the calls of `resume()`. The bound of the property alone
  is not inductive, since it does not tell a task that may be tried from one that was.
- `LimitsEndTheCall`. `StepsInv` is an amortised count of handlers: `Worth` says how many
  may have run since the last event that is paid for, where a completed task pays for
  three handlers and each try within the limit (`Tried`) and each revision for four. With
  the bounds on these it gives `StepsBoundedByRecovery`.
- `SilenceIsBudget`, with `NoneSkipped`: no task is ever skipped, so that a plan without
  a failed task is complete or blocked.
- `PromiseIsKept`: the initial states map to those of `Objective`, and each action to one
  of its actions or a stutter; an exception after the verdict maps to its change of mind.

### RunService, for any number of threads, starts and tasks

What a thread is about to do is a sequence of effects, so an invariant about the middle of
a handler is one about the effects that are left. `ScriptsAre` lists the scripts,
`Grounded` what each effect was decided from, and `ThreadMoves` that a step takes the
first effect away, chooses a script, or takes up an effect of the loop.

- `TypeCorrect`. `TypeInv` adds `Ready` (a node that works on a task finds a plan and a
  task, even if another thread moved the node there), `Ripe` (the effects that lead there
  come after those that make it so) and `Fresh` (no plan before the first one is stored).
- `ReplayIsExact`. `StreamInv` adds that the position of a stream is in the history.
- `GateIsKept`. `GateInv`: every grant follows a request, and a call that is yet to be
  made has its grant (`Guarded`).
- `OrderIsKept`. `OrderInv`: no effect that is yet to come puts a result, a completion, a
  choice or a call down for a task whose predecessors were not called (`Ordered`), and
  the same of what is in the state already.
- `VerdictIsFinal`, `EndIsKept`, and below `RunKeepsPromise`. These assume `Serial`: the run
  is started once, and an approval waits until the thread has returned. The code enforces
  neither; without them the properties fail, see section 7. `SerialInv` says that then one
  thread at most drives. `EndInv` says that a verdict that is yet to be published is the
  first and agrees with the status (`Foretold`), that once it is out the status keeps to it
  (`Decision`) and the driver only winds up (`WindsUp`), and that the row and the result
  have it or will (`Recorded`).
- `ToolsAreCalledOnce`. Its condition is on the behaviour and not on the constants:
  `Spec /\ []OneDriver`, whoever starts and approves, how often and when. So it says that a
  second thread in the loop is the only way in which this code calls a tool twice; section 7
  has that way. `OnceInv` says that a call stands at the head of its
  script and gives way to no other handler before it is observed (`Orderly`); that what
  is left to do fits what was called so far (`Timely`): a task is chosen or gone to only
  when it was not called and is marked, or about to be, as taken; that a task that was
  called is no longer pending (`Undertaken`); and that `EXECUTE` is left before the loop
  comes back to it (`AtWork`).
- `RunKeepsPromise`: under `Serial` too, `RunService` implements `Objective`. Its verdict
  is what was published, taken by position (`Announced`), so that one more verdict appends
  one (`Spoken`). What a handler does to the plan, the status and the verdict it does in
  separate effects, so the invariant `PromiseInv` says that those still to come fit
  together:
  - of what is left of a script (`Shaped`, `Apt`): a request ends by setting the node and
    looking whether to pause; a new plan comes before all else that cannot fail; one
    effect at most touches plan, results or task states; a task that is yet to be marked
    completed has the result "ok"; success is set only on a plan that is complete;
  - of the state: a completed task has the result "ok" (`Earned`), only a fatal result is
    decided on (`Deciding`), tasks are taken and judged from a plan (`Footing`), and a
    completed run has completed all of its tasks (`Complete`);
  - of who drives while the run waits: that thread has only to leave, or is there to
    resume (`Idles`, `Parted`).

  `WorkMoves` then maps each effect to a step on the tasks of `Objective`, `VoiceMoves` to
  one on its status and verdict, and `NextPromise` puts the two together.

### IntegrationStore

For any number of processes, threads and tokens, with requests that overlap, statements
that fail and restarts, as `Overlap` and `Outages` may allow. `LastWriteHolds` says nothing
while a write is under way, nor of a get that is about to fill a memory. `Holds` adds both:
a write that has none beside it is the last one (`WriterIsLast`); the table has what a
settled write wrote (`TableHolds`); and in a clean process neither the memory nor a get that
fills it has an older credential (`CleanHold`). One lemma for each step, and
`StoreInvariant` puts them together. Theorems: `StoreTypes`, `LastWriteIsKept`, and
`AnswersAreSettled`, the refinement of `Credential`, in which the token is what was written
last and the store is calm when no memory is excepted.

### Connections, for any number of flows and local projects

Assumption: that no flow is the value for none. `SavedOnceForItsUser` is strengthened by
what is known of a flow at each place (`OnceAt`): until it has saved, its code is
unspent or it is on the way to its only save. `DisconnectionLasts` needs `Quiet`: for a
credential that is gone, only flows that have saved already are under way, and these are
stopped where their code is exchanged. `RowsFollow` needs what is about to be executed
(`Agrees`): a project that is not in doubt has at most one statement under way, and that
one makes the table what the memory is. Theorems: `SavesOnce`, `StaysDisconnected`,
`RowsFollowTheList`, `ConnectionTypes`.

### Dashboard, for any number of runs and events

`NeverStuck` is inductive with the types. `ListensWhileRunning` needs `OneAtATime`: as
long as nothing went astray there is at most one call to create a run, open stream or
demo, and the open stream is the one a stop closes; `NoSources` relates that to the count
that a start looks at. `VerdictIsShown` rests on `ShowInv`: a waiting run has asked
(`Waited`); as long as nothing went astray, all that is under way is of the active run,
and a result is asked for only when its stream has ended (`Following`); then the panel
shows that run's verdict or an approval is due (`Presented`). Theorems: `NotStuck`,
`ListensOnlyWhileRunning`, `VerdictIsShown`, `DashboardTypes`.

### TaskLoop, RemoteTools and Workspace, for any plans and limits

`TaskLoopProofs` has one lemma for each way a call ends (`SucceedLemma`, `FailLemma`,
`EscalateLemma`) on the set `Calls` of tools and arguments that are left: success takes
one away, failure adds at most the remediation of the task in hand, and what is revised
only grows. `Follows` says how far a run is along its plan: what is left is a suffix of
the plan with remediations in front. Both modules of tools rest on them.

- `RemoteToolsProofs`. `Remedied` says that the remediation of a tool that needs arguments
  is still left, since it can only be taken away by succeeding: `RemedyCannotHelp`.
  `Honest` says that nothing is late while no answer was lost: `FailureLeavesNothing`.
  `SuccessLeavesAll` counts (`Enough`): what is at the remote and the calls left that make
  more are together at least what was planned. `ReleasesAreBounded` charges every post of
  a release, sent or late, to a try that is left or to a revision (`Charged`); a
  remediation has no arguments and releases nothing to production.
- `WorkspaceProofs`. `Justified` says that each call left was planned or is a remediation
  without arguments, and `Held` that index, branches and remote hold only rightful changes
  unless `git_add` was remedied. Every action but `git_add` moves changes that the
  repository has already (`DoesMoves` ... `PullMoves`). From it follows
  `CommitsAsPlanned`. `OnlyRefspecsMoveProtected` is an action property, for any refspecs: what
  is pushed was planned, or is the branch found to be current, whose name is compared.
  `PublishedWhenDone` follows one change through the plan: `Published` relates the place
  the run has come to (`Follows`) to where the change then is (`Phase`: in the working
  tree, the index, the branch or the remote), and `Aimed` says that the target of a push
  that is half done is the current branch. `WorkspaceAssumption` gives plans their types,
  `Branches` the names that plans use, and `Refspec` branches to be from and to.
- `RemoteTypes`, `WorkspaceTypes`: types.

### Only model-checked

- `OnlyTheEndIsMissed`, which relates what a stream has got to what a handler is about to
  publish.
- Liveness (`RunEnds`, `StreamCloses`): liveness under fairness and `ENABLED` are out of the
  prover's reach.
- `FileTools`: lines are the concatenation of a sequence of sequences, and facts on that
  are inductions over data, out of the prover's reach.

## 7. Where code and documents differ

Each of these has a run that ends in the counterexample and an entry under `findings`
with the lines on both sides.

| run | what happens |
|---|---|
| `svc_early` | an approval sent on the event is overwritten by the pause it answers, and the run waits for ever |
| `connect_guest` | the dashboard connects GitHub by a navigation, which carries no token, and the account is connected to the guest whom all users share |

The models show more of the kind, without a run of its own:

- The approval request of an escalation names no tool (`agent/orchestrator.py:412`), while
  `docs/CONTRACTS.md:123` tells the client to approve the tool it names.
- The remediation of a failed check is a `write_file` without arguments
  (`agent/planner.py:47`), which cannot succeed (`agent/tools/builtins.py:81`), where
  `tests/test_tools_integration.py:57` says "The remediation fixes the bug." So are the
  remediations of remote tools and of `git_commit` and `git_checkout`; that of `git_add`
  works, and stages everything.
- An approval sent on the status, as `docs/CONTRACTS.md:123` advises, starts a second thread
  before the first has left the loop (`backend/service.py:104`). `resume()` sets the status
  back before the first thread looks whether to pause (`agent/orchestrator.py:236`, `:258`),
  both go on, and the approved tool is called twice, where `docs/AGENT_FLOW.md:54` says that
  the run "continues from exactly where it stopped". With `ApproveWhen = "status"`,
  `ToolsRunOnce` fails.
- A stream that looks at the status between verdict and announcement closes without the
  terminal event (`agent/orchestrator.py:439`, `api/app.py:153`), although it flushes "any
  final events" (`api/app.py:156`). This is what `OnlyTheEndIsMissed` allows to be missed.
- A disconnect "Disconnects and clears" the credential (`api/integrations.py:365`), but it
  comes back in the memory of a process where a get had read the row before
  (`backend/persistence.py:215`), it stays in the memory of other processes (`:195`), and it
  stays in the table when the DELETE fails, which is reported as success (`:247`). These are
  the exceptions of `LastWriteHolds`.
- A push of `HEAD`, `HEAD:main`, `topic:main` or `refs/heads/main` passes the comparison with
  the protected names (`tools/git_tool.py:274`) and moves `main` (`:280`), where the tool says
  "Pushing to protected branches is blocked." (`:246`). This is the exception of
  `OnlyRefspecsPass`.
- Local projects are stored but never read back (`backend/persistence.py:319`): after a
  restart registered projects are not listed (`api/integrations.py:393`). `RowsFollow` takes
  such projects for doubtful until they are paired or removed again.
- A result that is not stored yet is `{}`, which the dashboard presents as "Objective not
  completed", whatever the verdict (`NoResult` in `Dashboard`; `backend/service.py:87`,
  `frontend/js/components/result-panel.js:42`).
- The dashboard presents the first `TASK_COMPLETED` as the end of the objective
  (`frontend/js/app.js:777`) until the result replaces it, and does not listen to a run
  again after its approval.
- A stop after a switch to the other mode stops nothing of the demo (`:664`), and a run
  whose creation is answered after a stop is listened to by a page that is not running
  (`:690`), which the next start then mixes with its own.
- `vercel_deploy` has succeeded when the deployment is queued
  (`integrations/vercel_tool.py:103`); `github_create_branch` posts a base that does not
  resolve, by default `HEAD`, as a commit (`integrations/github_tool.py:220`).
- `fs_edit` "Returns the updated file content" (`tools/filesystem.py:128`); it returns
  `edited` and the path (`:175`).
- COMPLETED is called terminal (`shared/contracts.py:55`), but turns FAILED when
  recording the experience raises (`agent/orchestrator.py:449`, `:486`). A stream that read
  the status before closes with an `_end` that says completed.
  `EndConsistent` says what still holds then.
- A call that exhausts its steps fails without an event (`agent/orchestrator.py:261`),
  the exception in `OnlyBudgetIsSilent`.
- A paused run's row says running: `APPROVAL_REQUIRED` is published, and the row
  saved, before the status is set (`:336`, `:340`).
- The result is stored after the terminal event (`backend/service.py:87`), so that a
  client that was just told the end may get an empty one.
- In the races of `svc_race` two threads can also trip `_observe`'s assertion, which
  publishes `OBJECTIVE_FAILED` in the middle of a run that goes on. Two `POST start`
  calls send each other's node back.

## 8. What is left out

- Text: prompts, titles, logs, reasons of decisions, events that only accompany
  others. Ranking of memories by embeddings is arithmetic on floats.
- Database tools: a call is one statement over a connection of its own, in SQL.
- What the web tools make of a page; the output of commands and tests; the fallback plan of
  `models/base.py` and the built-in `run_tests`, `http_check` and `deploy`, beyond the
  outcomes that `Orchestrator` has for them.
- Of the repository: contents of changes and conflicts between them; a checkout that is
  killed half-way through the working tree; refspecs that force or delete, and refspecs
  given to pull or checkout.
- Limits of containers; encodings and regular expressions of the filesystem tools.
- Of `api/auth.py` and `api/integrations.py`: token formats, signatures, and the listings
  of repositories and projects, which change nothing.
- Of the page: badges, tabs, pickers and panels that only render; that it moves on at all
  (liveness), since it depends on answers that nobody guarantees. A restart of the service
  under a page that follows a run.
- Model providers' fallbacks and the parsing of their answers: one call that keeps no state,
  over text.
- The database being down for run rows: `save_state` then does nothing.
- Reloading runs after a restart: the code has none. A run lives in the memory of one
  process, while `vercel.json` routes `/api` to a function of which several instances may run;
  a request about a run that another instance has is answered with 404.
- `public/`, an older copy of the dashboard, and the scripts and demos.

## 9. Plan

Done: the loop and its theorems; the served run, its theorems and that it implements
`Objective`; the credential store over several processes and its theorems; the tools over
remote services, repository and files; signing in and connecting; the dashboard; the
theorems of these. Next, in this order:

1. The fallback plan over tests, checks and deployments under recovery: that what is
   deployed was tested as it is.
2. The order of the other `RunService` effects as a refinement: that `Dashboard`'s service
   (`Works`, `Concludes`) is implemented by `RunService`.
3. Model registry: provider choice and fallback, with the draft assumption of
   `Orchestrator` as what it promises.
