----------------------------- MODULE RunService -----------------------------
(***************************************************************************)
(* One run as backend/service.py, api/app.py and agent/events.py serve it: *)
(* POST start and POST approve each spawn a thread that drives the shared  *)
(* AgentState, every published event goes to the history of the EventBus   *)
(* and to the database, and an SSE stream follows the history until the    *)
(* status tells it to close.                                               *)
(*                                                                         *)
(* Orchestrator takes a node handler as one step.  Here a handler is the   *)
(* sequence of its effects on what others can see, and threads, stream and *)
(* clients interleave between any two of them.  What a handler decides on  *)
(* the way it decides when it gets there (Then).  Retries, revisions and   *)
(* escalations, which publish and change the status in ways that the gate  *)
(* and the abort do already, are left to Orchestrator; so are the events   *)
(* that go with others of the same handler (MEMORY_RETRIEVED,              *)
(* CODE_CHANGED).  The database is up: a row is as fresh as it can be.     *)
(***************************************************************************)
EXTENDS Naturals, Sequences, FiniteSets

CONSTANTS
  Threads,      \* bound: one for each POST start or approve
  Starts,       \* bound: number of POST start
  Watched,      \* does a client open an event stream?
  Jobs,         \* length of the plan; each task depends on the one before it
  Gated,        \* tasks whose tool needs an approval
  ToolOutcomes, \* what a tool may return
  MayRaise,     \* may the model provider and the memory store fail?
  MaxSteps,     \* Orchestrator._max_steps
  ApproveWhen   \* what a client waits for before it answers a request

ASSUME ServiceAssumption ==
  /\ IsFiniteSet(Threads)
  /\ Starts \in Nat /\ Jobs \in Nat \ {0} /\ MaxSteps \in Nat
  /\ Gated \subseteq 1..Jobs
  /\ ToolOutcomes \subseteq {"ok", "fatal"}
  /\ MayRaise \in BOOLEAN
  /\ Watched \in BOOLEAN
  /\ ApproveWhen \in {"event", "status", "returned"}

VARIABLES
  state,     \* the AgentState that all threads share
  granted,   \* tasks whose tool PermissionManager.approved_tools holds
  history,   \* EventBus._history; an event's seq is its position
  row,       \* status and node in the agent_runs table
  result,    \* RunHandle.result
  thread,    \* life of each thread
  todo,      \* effects each thread has yet to perform in its handler
  steps,     \* each thread's count of handlers
  stream,    \* one GET events?stream=1; end is the status its _end carries
  starts,    \* number of POST start
  answered   \* position in the history of the last request a client answered

agent == <<state, granted>>
driver == <<thread, todo, steps>>
client == <<starts, answered>>
vars == <<agent, history, row, result, driver, stream, client>>

\* Slip: a failed run is not taken for an ended one.
ClosingUnlessFailed == {"completed", "blocked", "awaiting_approval"}

Closing == {"completed", "failed", "blocked", "awaiting_approval"}
Verdicts == {"OBJECTIVE_COMPLETED", "OBJECTIVE_FAILED"}

-----------------------------------------------------------------------------
(* Effects.                                                                *)

Set(field, value) == [do |-> "set", field |-> field, value |-> value]
Fallible == [do |-> "fallible"]               \* model provider or memory
Then(what) == [do |-> "then", what |-> what]
Leave == [do |-> "leave"]                     \* what follows the loop

\* A write to a task goes to the plan the handler found: once another thread
\* has replaced the plan it changes nothing that anyone can see.
Put(k, field, value) ==
  [do |-> "put", plan |-> state.plan, task |-> k,
   field |-> field, value |-> value]

\* emit() appends under the lock, then calls the subscribers in this thread;
\* the first of them is _persist_event.
Publish(type, k) ==
  <<[do |-> "emit", type |-> type, task |-> k], [do |-> "save"]>>

\* The loop stores the node and looks whether to pause.
Goto(node) == <<Set("node", node), [do |-> "pause?"]>>

\* What a handler does, given the state it starts from.
StatusOf(k) == state.tasks[k].status
Completed == \A k \in DOMAIN state.tasks : StatusOf(k) = "completed"
Pick == {k \in DOMAIN state.tasks :
           /\ StatusOf(k) = "pending"
           /\ k > 1 => StatusOf(k - 1) = "completed"}

\* Slips in the handling of an exception: the status is set after its event,
\* or the memory node is entered as after any other failure.
Noted ==
  {Publish("MEMORY_STORED", 0)} \cup IF MayRaise THEN {<<>>} ELSE {}

FailureSetsLate ==
  {Publish("OBJECTIVE_FAILED", 0) \o <<Set("status", "failed")>>
     \o noted \o Goto("END") : noted \in Noted}

FailureIntoMemory ==
  {<<Set("status", "failed")>> \o Publish("OBJECTIVE_FAILED", 0)
     \o noted \o Goto("STORE_MEMORY") : noted \in Noted}

Failure ==
  {<<Set("status", "failed")>> \o Publish("OBJECTIVE_FAILED", 0)
     \o noted \o Goto("END") : noted \in Noted}

CreatePlan ==
  <<Fallible, [do |-> "plan"]>> \o Publish("PLAN_CREATED", 0)
    \o <<Fallible>> \o Goto("SELECT_NEXT")

Take(k) ==
  <<Set("current", k), Put(k, "status", "running")>>
    \o Publish("TASK_STARTED", k) \o Goto("EXECUTE")

\* Slip: the task that was planned last is taken, ready or not.
SelectNextLatest ==
  IF Completed THEN {Goto("VERIFY")}
  ELSE {Take(k) : k \in {i \in DOMAIN state.tasks :
                           /\ StatusOf(i) # "completed"
                           /\ \A j \in (i + 1)..Jobs : StatusOf(j) = "completed"}}

SelectNext ==
  IF Completed THEN {Goto("VERIFY")}
  ELSE IF Pick = {}
  THEN {<<Set("status", IF \E k \in DOMAIN state.tasks : StatusOf(k) = "failed"
                        THEN "failed" ELSE "blocked")>> \o Goto("STORE_MEMORY")}
  ELSE {Take(k) : k \in {i \in Pick : \A j \in Pick : i <= j}}

Request(k) ==
  Publish("APPROVAL_REQUIRED", k) \o <<Set("status", "awaiting_approval")>>
    \o Goto("EXECUTE")

Call(k, outcome) ==
  Publish("TOOL_STARTED", k) \o <<Put(k, "result", outcome)>>
    \o Publish("TOOL_RETURNED", k) \o Goto("OBSERVE")

\* Slip: the permission gate is not asked.
ExecuteUngated == {Call(state.current, outcome) : outcome \in ToolOutcomes}

\* Slip: the status tells of the pause before the request does.
ExecuteAsksLate ==
  LET k == state.current
  IN IF k \in Gated \ granted
     THEN {<<Set("status", "awaiting_approval")>> \o Publish("APPROVAL_REQUIRED", k)
             \o Goto("EXECUTE")}
     ELSE {Call(k, outcome) : outcome \in ToolOutcomes}

Execute ==
  LET k == state.current
  IN IF k \in Gated \ granted THEN {Request(k)}
     ELSE {Call(k, outcome) : outcome \in ToolOutcomes}

\* Its assertion fails when the current task was not executed yet.
Observe ==
  LET k == state.current
  IN CASE state.tasks[k].result = "none" -> Failure
       [] state.tasks[k].result = "ok" ->
            {<<Put(k, "status", "completed"), Fallible>>
               \o Publish("TASK_COMPLETED", k) \o Goto("SELECT_NEXT")}
       [] state.tasks[k].result = "fatal" -> {<<Fallible>> \o Goto("DECIDE")}

\* Slip: an aborted run announces its end at once.
AbortAnnounces ==
  LET k == state.current
  IN Publish("RECOVERY_STARTED", k)
       \o <<Put(k, "status", "failed"), Set("status", "failed")>>
       \o Publish("OBJECTIVE_FAILED", k) \o Goto("STORE_MEMORY")

Abort ==
  LET k == state.current
  IN Publish("RECOVERY_STARTED", k)
       \o <<Put(k, "status", "failed"), Set("status", "failed")>>
       \o Publish("TASK_FAILED", k) \o Goto("STORE_MEMORY")

\* Slip: the verdict is stored as it is, not as a status.
JudgeRaw ==
  {Publish("VERIFICATION_COMPLETED", 0)
     \o <<Set("status", IF verified THEN "verified" ELSE "failed")>>
     \o Goto("STORE_MEMORY")
   : verified \in IF Completed THEN BOOLEAN ELSE {FALSE}}

\* The verifier's verdict; further checks of its own may fail too.
Judge ==
  {Publish("VERIFICATION_COMPLETED", 0)
     \o <<Set("status", IF verified THEN "completed" ELSE "failed")>>
     \o Goto("STORE_MEMORY")
   : verified \in IF Completed THEN BOOLEAN ELSE {FALSE}}

Announce ==
  (CASE state.status = "completed" -> Publish("OBJECTIVE_COMPLETED", 0)
     [] state.status = "failed" -> Publish("OBJECTIVE_FAILED", 0)
     [] OTHER -> <<>>) \o Goto("END")

Scripts(what) ==
  CASE what = "UNDERSTAND" ->
         {Publish("LOG", 0) \o <<Fallible>> \o Goto("CREATE_PLAN")}
    [] what = "CREATE_PLAN" -> {CreatePlan}
    [] what = "SELECT_NEXT" -> SelectNext
    [] what = "EXECUTE" -> Execute
    [] what = "OBSERVE" -> Observe
    [] what = "DECIDE" -> {Abort}
    [] what = "VERIFY" -> {Publish("VERIFICATION_STARTED", 0) \o <<Then("JUDGE")>>}
    [] what = "JUDGE" -> Judge
    [] what = "STORE_MEMORY" ->
         {<<Fallible>> \o Publish("MEMORY_STORED", 0) \o <<Then("ANNOUNCE")>>}
    [] what = "ANNOUNCE" -> {Announce}
    [] what = "END" -> {<<Set("status", "failed"), Leave>>}

-----------------------------------------------------------------------------
(* Threads.                                                                *)

Init ==
  /\ state = [node |-> "START", status |-> "running", current |-> 0,
              plan |-> 0, tasks |-> <<>>]
  /\ granted = {} /\ history = <<>>
  /\ row = [node |-> "START", status |-> "running"]
  /\ result = "none"
  /\ thread = [t \in Threads |-> "none"] /\ todo = [t \in Threads |-> <<>>]
  /\ steps = [t \in Threads |-> 0]
  /\ stream = [at |-> "unopened", from |-> 0, last |-> 0, got |-> <<>>,
               end |-> "none"]
  /\ starts = 0 /\ answered = 0

Driving == {t \in Threads : thread[t] = "driving"}

Spawn(approvals) ==
  /\ \E t \in Threads :
       /\ thread[t] = "none"
       /\ thread' = [thread EXCEPT ![t] = "driving"]
       /\ todo' = [todo EXCEPT ![t] = <<[do |-> "resume", tools |-> approvals]>>]
  /\ UNCHANGED <<agent, history, row, result, steps, stream>>

PostStart ==
  /\ starts < Starts /\ starts' = starts + 1
  /\ Spawn({})
  /\ UNCHANGED answered

\* The client approves the tool of the last request, once for each request.
\* The dashboard shows the button as soon as it gets the event.
Occurs(type) == {i \in DOMAIN history : history[i].type = type}
LastRequests ==
  {i \in Occurs("APPROVAL_REQUIRED") :
     \A j \in Occurs("APPROVAL_REQUIRED") : j <= i}
PostApprove ==
  /\ \E i \in LastRequests :
       i > answered /\ answered' = i /\ Spawn({history[i].task})
  /\ ApproveWhen \in {"status", "returned"} => state.status = "awaiting_approval"
  /\ ApproveWhen = "returned" => Driving = {}
  /\ UNCHANGED starts

\* The next effect of thread t is of this kind; the others are left to do.
Faces(t, kind) ==
  thread[t] = "driving" /\ todo[t] # <<>> /\ Head(todo[t]).do = kind
Rest(t) == todo' = [todo EXCEPT ![t] = Tail(@)]
Replace(t, script) == todo' = [todo EXCEPT ![t] = script]

\* Slips: the run starts over, or is not told that it goes on.
ResumeAfresh(t) ==
  /\ Faces(t, "resume") /\ Rest(t)
  /\ granted' = granted \cup Head(todo[t]).tools
  /\ state' = [state EXCEPT
       !.node = "UNDERSTAND",
       !.status = IF @ = "awaiting_approval" THEN "running" ELSE @]
  /\ UNCHANGED <<history, row, result, thread, steps, stream, client>>

ResumeStaysPaused(t) ==
  /\ Faces(t, "resume") /\ Rest(t)
  /\ granted' = granted \cup Head(todo[t]).tools
  /\ state' = [state EXCEPT !.node = IF @ = "START" THEN "UNDERSTAND" ELSE @]
  /\ UNCHANGED <<history, row, result, thread, steps, stream, client>>

\* The first lines of resume().
Resume(t) ==
  /\ Faces(t, "resume") /\ Rest(t)
  /\ granted' = granted \cup Head(todo[t]).tools
  /\ state' = [state EXCEPT
       !.node = IF @ = "START" THEN "UNDERSTAND" ELSE @,
       !.status = IF @ = "awaiting_approval" THEN "running" ELSE @]
  /\ UNCHANGED <<history, row, result, thread, steps, stream, client>>

\* The head of the loop looks at the node, ...
Loop(t) ==
  /\ thread[t] = "driving" /\ todo[t] = <<>>
  /\ IF state.node # "END" /\ steps[t] < MaxSteps
     THEN /\ Replace(t, <<[do |-> "dispatch"]>>)
          /\ steps' = [steps EXCEPT ![t] = @ + 1]
     ELSE Replace(t, <<Leave>>) /\ UNCHANGED steps
  /\ UNCHANGED <<agent, history, row, result, thread, stream, client>>

\* ... and looks it up again to find its handler.
Dispatch(t) ==
  /\ Faces(t, "dispatch")
  /\ \E script \in Scripts(state.node) : Replace(t, script)
  /\ UNCHANGED <<agent, history, row, result, thread, steps, stream, client>>

Pause(t) ==
  /\ Faces(t, "pause?")
  /\ IF state.status = "awaiting_approval" THEN Replace(t, <<Leave>>) ELSE Rest(t)
  /\ UNCHANGED <<agent, history, row, result, thread, steps, stream, client>>

\* The result is built when the loop is left, ...
LeaveLoop(t) ==
  /\ Faces(t, "leave")
  /\ state' = [state EXCEPT !.status =
                 IF steps[t] >= MaxSteps /\ @ = "running" THEN "failed" ELSE @]
  /\ Replace(t, <<[do |-> "result", status |-> state'.status]>>)
  /\ UNCHANGED <<granted, history, row, result, thread, steps, stream, client>>

\* ... and stored by the service.
StoreResult(t) ==
  /\ Faces(t, "result") /\ Rest(t)
  /\ result' = Head(todo[t]).status
  /\ thread' = [thread EXCEPT ![t] = "returned"]
  /\ UNCHANGED <<agent, history, row, steps, stream, client>>

Write(t) ==
  /\ Faces(t, "set") /\ Rest(t)
  /\ LET e == Head(todo[t]) IN state' = [state EXCEPT ![e.field] = e.value]
  /\ UNCHANGED <<granted, history, row, result, thread, steps, stream, client>>

WriteTask(t) ==
  /\ Faces(t, "put") /\ Rest(t)
  /\ LET e == Head(todo[t])
     IN state' = IF e.plan = state.plan
                 THEN [state EXCEPT !.tasks[e.task][e.field] = e.value]
                 ELSE state
  /\ UNCHANGED <<granted, history, row, result, thread, steps, stream, client>>

StorePlan(t) ==
  /\ Faces(t, "plan") /\ Rest(t)
  /\ state' = [state EXCEPT
       !.plan = @ + 1,
       !.tasks = [k \in 1..Jobs |-> [status |-> "pending", result |-> "none"]]]
  /\ UNCHANGED <<granted, history, row, result, thread, steps, stream, client>>

Emit(t) ==
  /\ Faces(t, "emit") /\ Rest(t)
  /\ history' = Append(history, [type |-> Head(todo[t]).type,
                                 task |-> Head(todo[t]).task])
  /\ UNCHANGED <<agent, row, result, thread, steps, stream, client>>

Save(t) ==
  /\ Faces(t, "save") /\ Rest(t)
  /\ row' = [node |-> state.node, status |-> state.status]
  /\ UNCHANGED <<agent, history, result, thread, steps, stream, client>>

TryCall(t) ==
  /\ Faces(t, "fallible")
  /\ \/ Rest(t)
     \/ MayRaise /\ \E script \in Failure : Replace(t, script)
  /\ UNCHANGED <<agent, history, row, result, thread, steps, stream, client>>

Continue(t) ==
  /\ Faces(t, "then")
  /\ \E script \in Scripts(Head(todo[t]).what) : Replace(t, script)
  /\ UNCHANGED <<agent, history, row, result, thread, steps, stream, client>>

Drive(t) ==
  \/ Resume(t) \/ Loop(t) \/ Dispatch(t) \/ Pause(t) \/ LeaveLoop(t)
  \/ StoreResult(t) \/ Write(t) \/ WriteTask(t) \/ StorePlan(t)
  \/ Emit(t) \/ Save(t) \/ TryCall(t) \/ Continue(t)

-----------------------------------------------------------------------------
(* The stream.                                                             *)

\* A client opens it, from the start or after what it knows already, ...
Open ==
  /\ Watched /\ stream.at = "unopened"
  /\ \E after \in {0, Len(history)} :
       stream' = [stream EXCEPT !.at = "replay", !.from = after, !.last = after]
  /\ UNCHANGED <<agent, history, row, result, driver, client>>

\* ... and once it was closed may ask for what comes after.  The dashboard does
\* not: it closes its EventSource at _end.
Reopen ==
  /\ stream.at = "closed" /\ stream.last < Len(history)
  /\ stream' = [stream EXCEPT !.at = "replay", !.end = "none"]
  /\ UNCHANGED <<agent, history, row, result, driver, client>>

\* Slip: the position is not moved on.
DeliverAgain(next) ==
  stream' = [stream EXCEPT
    !.at = next,
    !.got = @ \o SubSeq(history, stream.last + 1, Len(history))]

Deliver(next) ==
  stream' = [stream EXCEPT
    !.at = next, !.last = Len(history),
    !.got = @ \o SubSeq(history, stream.last + 1, Len(history))]

Replay ==
  /\ stream.at = "replay" /\ Deliver("check")
  /\ UNCHANGED <<agent, history, row, result, driver, client>>

CheckStatus ==
  /\ stream.at = "check"
  /\ stream' = IF state.status \in Closing
               THEN [stream EXCEPT !.at = "flush", !.end = state.status]
               ELSE [stream EXCEPT !.at = "replay"]
  /\ UNCHANGED <<agent, history, row, result, driver, client>>

Flush ==
  /\ stream.at = "flush" /\ Deliver("closed")
  /\ UNCHANGED <<agent, history, row, result, driver, client>>

Follow == Replay \/ CheckStatus \/ Flush

Next ==
  \/ PostStart \/ PostApprove
  \/ \E t \in Threads : Drive(t)
  \/ Open \/ Reopen \/ Follow

Spec == Init /\ [][Next]_vars

\* Threads and the event loop keep being scheduled, the client starts the run
\* and answers its requests.
FairSpec ==
  /\ Spec
  /\ \A t \in Threads : WF_vars(Drive(t))
  /\ WF_vars(Follow) /\ WF_vars(PostStart) /\ WF_vars(PostApprove)

-----------------------------------------------------------------------------
(* Properties.                                                             *)

EventTypes ==
  {"LOG", "PLAN_CREATED", "TASK_STARTED", "APPROVAL_REQUIRED", "TOOL_STARTED",
   "TOOL_RETURNED", "TASK_COMPLETED", "RECOVERY_STARTED", "TASK_FAILED",
   "VERIFICATION_STARTED", "VERIFICATION_COMPLETED", "MEMORY_STORED"} \cup Verdicts
Event == [type : EventTypes, task : 0..Jobs]
RunStatus == {"running"} \cup Closing
Nodes == {"START", "UNDERSTAND", "CREATE_PLAN", "SELECT_NEXT", "EXECUTE",
          "OBSERVE", "DECIDE", "VERIFY", "STORE_MEMORY", "END"}
TaskRecord == [status : {"pending", "running", "completed", "failed"},
               result : {"none"} \cup ToolOutcomes]

\* Every variable has the type of what it stands for.
TypeOK ==
  /\ state \in [node : Nodes, status : RunStatus, current : 0..Jobs,
                plan : Nat, tasks : {<<>>} \cup [1..Jobs -> TaskRecord]]
  /\ granted \subseteq Gated
  /\ history \in Seq(Event)
  /\ row \in [node : Nodes, status : RunStatus]
  /\ result \in {"none"} \cup RunStatus
  /\ thread \in [Threads -> {"none", "driving", "returned"}]
  /\ \A t \in Threads : thread[t] # "driving" => todo[t] = <<>>
  /\ steps \in [Threads -> 0..MaxSteps]
  /\ stream.at \in {"unopened", "replay", "check", "flush", "closed"}
  /\ stream.got \in Seq(Event) /\ stream.end \in {"none"} \cup Closing
  /\ starts \in 0..Starts /\ answered \in Nat

\* A subscriber gets the events after the one it named once each, in order and
\* without a gap, whatever is published while it is served.
StreamIsReplay ==
  stream.got = SubSeq(history, stream.from + 1, stream.last)

Told == {i \in DOMAIN history : history[i].type \in Verdicts}

\* At most one terminal event is published and no event of the run's own work
\* comes after it; only the note that memory was stored may.
VerdictIsLast ==
  \A i \in Told : \A j \in DOMAIN history :
    j > i => history[j].type = "MEMORY_STORED"

\* When nobody drives a run that has announced its end, its row in the
\* database and its stored result tell the status that was announced.
EndIsRecorded ==
  Driving = {} /\ Told # {} =>
    /\ row.status = state.status /\ result = state.status
    /\ \A i \in Told :
         history[i].type = "OBJECTIVE_COMPLETED" <=> row.status = "completed"

\* Is the run driven by one thread at a time?
OneDriver ==
  \A t \in Threads : \A u \in Threads :
    thread[t] = "driving" /\ thread[u] = "driving" => t = u

\* A paused run continues from exactly where it stopped: the tool of a task is
\* called once, since nothing here is retried or planned again.
ToolsRunOnce ==
  \A k \in 1..Jobs :
    Cardinality({i \in Occurs("TOOL_STARTED") : history[i].task = k})
      <= 1

\* A gated tool is called only after its request and a human's grant.
GateHolds ==
  \A i \in Occurs("TOOL_STARTED") :
    history[i].task \in Gated =>
      /\ history[i].task \in granted
      /\ \E j \in Occurs("APPROVAL_REQUIRED") :
           j < i /\ history[j].task = history[i].task

\* No tool is called before the tools of all the tasks it depends on were.
OrderKept ==
  \A i \in Occurs("TOOL_STARTED") : \A k \in 1..(history[i].task - 1) :
    \E j \in Occurs("TOOL_STARTED") : j < i /\ history[j].task = k

\* The verdicts that were published, in their order.
Announced ==
  [i \in 1..Cardinality(Told) |->
     history[CHOOSE j \in Told : Cardinality({h \in Told : h < j}) = i - 1].type]

\* The run as its listeners see it keeps the promise of Objective.
Promise == INSTANCE Objective WITH
  todo <- {k \in DOMAIN state.tasks : StatusOf(k) # "completed"},
  done <- {k \in DOMAIN state.tasks : StatusOf(k) = "completed"},
  waiting <- (state.status = "awaiting_approval"),
  verdict <- Announced
KeepsPromise == Promise!Spec

\* A client whose stream a pause has ended has got the request to answer, and
\* one whose stream the end of the run has ended misses no more than the report
\* of it: no part of the work, whichever failure made the end.
OnlyTheEndIsMissed ==
  stream.at = "closed" =>
    /\ stream.end = "awaiting_approval" =>
         \E i \in Occurs("APPROVAL_REQUIRED") : i <= stream.last
    /\ stream.end \in {"completed", "failed"} =>
         \A i \in (stream.last + 1)..Len(history) :
           history[i].type \in {"TASK_FAILED", "MEMORY_STORED"} \cup Verdicts

\* Every stream closes, whether the run ends or waits for its client.
StreamCloses == (stream.at = "replay") ~> (stream.at = "closed")

\* A run that was started and whose requests are answered ends.
RunEnds == <>(state.node = "END" /\ Driving = {})

-----------------------------------------------------------------------------
(* A claim of the documentation that the code does not keep.               *)

\* Approving gated tools resumes the run: it is not left waiting for a tool
\* that has been granted already.
ApprovalNotLost ==
  Driving = {} /\ state.status = "awaiting_approval" =>
    \A i \in LastRequests : history[i].task \notin granted
=============================================================================
