------------------------------ MODULE Dashboard ------------------------------
(***************************************************************************)
(* The page that starts runs and follows them: frontend/js/app.js with its *)
(* adapters, over the service that RunService models in detail.            *)
(*                                                                         *)
(* The page keeps one flag, one run id and one function to unsubscribe,    *)
(* and awaits answers in between: what a start, a stream or a request for  *)
(* a result left under way acts on the page whenever it comes, whichever   *)
(* run the page is about by then.  `astray' records that this happened;    *)
(* the properties say what holds until then, and what holds even so.       *)
(* Badges, tabs and the panels that only render are left out.              *)
(***************************************************************************)
EXTENDS Naturals, Sequences, FiniteSets

CONSTANTS
  MaxRuns,   \* bound: the runs that may be created, by their numbers
  MaxSteps   \* bound: events of a run before its last

ASSUME DashboardAssumption ==
  /\ MaxRuns \in Nat /\ MaxSteps \in Nat

Runs == 1 .. MaxRuns
NoRun == 0
Verdicts == {"completed", "failed"}

VARIABLES
  status,     \* the service: the status of each run, "none" before it is made
  log,        \* its events so far
  mode,       \* KalkiApp.mode
  running,    \* KalkiApp.isRunning
  active,     \* KalkiApp.activeRunId
  unsub,      \* KalkiApp.unsubscribe: the run whose stream it closes
  creating,   \* createTask calls not yet answered
  stream,     \* the EventSource of each run: "none", "open" or "closed"
  seen,       \* number of events it has delivered
  results,    \* getResult calls not yet answered
  approving,  \* approveTask calls not yet answered
  shown,      \* the result panel: of which run, and what it says
  banner,     \* does the deploy panel ask for an approval?
  mock,       \* events the demo has yet to play, 0 if it is not playing
  astray      \* was a run started while something of another was under way,
              \* or created after it was stopped, or its result not got?

service == <<status, log>>
page == <<mode, running, active, unsub, shown, banner>>
calls == <<creating, results, approving>>
streams == <<stream, seen>>
vars == <<service, page, calls, streams, mock, astray>>

Nothing == [run |-> NoRun, says |-> "nothing"]
\* The demo plays many events, of which only the last has an effect here.
DemoLength == 1

Init ==
  /\ status = [r \in Runs |-> "none"] /\ log = [r \in Runs |-> <<>>]
  /\ mode \in {"live", "demo"}
  /\ running = FALSE /\ active = NoRun /\ unsub = NoRun
  /\ creating = {} /\ results = {} /\ approving = {}
  /\ stream = [r \in Runs |-> "none"] /\ seen = [r \in Runs |-> 0]
  /\ shown = Nothing /\ banner = FALSE /\ mock = 0
  /\ astray = FALSE

Open == {r \in Runs : stream[r] = "open"}
Sources == Cardinality(creating) + Cardinality(Open) + (IF mock > 0 THEN 1 ELSE 0)

-----------------------------------------------------------------------------
(* The service, as far as the page can tell.                               *)

Says(r, event) == log' = [log EXCEPT ![r] = Append(@, event)]

Works(r) ==
  /\ status[r] = "going" /\ Len(log[r]) < MaxSteps
  /\ \/ Says(r, "TASK_COMPLETED") /\ UNCHANGED status
     \/ Says(r, "APPROVAL_REQUIRED") /\ status' = [status EXCEPT ![r] = "waiting"]
  /\ UNCHANGED <<page, calls, streams, mock, astray>>

\* The status is set first, and a run that is out of steps says nothing.  The
\* page takes a TASK_FAILED as it takes the OBJECTIVE_FAILED that follows it.
Concludes(r) ==
  \/ /\ status[r] = "going"
     /\ \E v \in Verdicts : status' = [status EXCEPT ![r] = v]
     /\ UNCHANGED <<log, page, calls, streams, mock, astray>>
  \/ /\ status[r] \in Verdicts /\ Len(log[r]) <= MaxSteps
     /\ \A i \in DOMAIN log[r] : log[r][i] \notin Verdicts
     /\ Says(r, status[r])
     /\ UNCHANGED <<status, page, calls, streams, mock, astray>>

-----------------------------------------------------------------------------
(* Starting and stopping.                                                  *)

\* setMode asks nothing of a run that is going on.
SetMode(m) ==
  /\ mode # m /\ mode' = m
  /\ UNCHANGED <<service, running, active, unsub, shown, banner>>
  /\ UNCHANGED <<calls, streams, mock, astray>>

Begins ==
  /\ ~running /\ running' = TRUE
  /\ shown' = Nothing /\ banner' = FALSE
  /\ astray' = (astray \/ Sources > 0 \/ results # {} \/ approving # {})
  /\ UNCHANGED <<service, mode, unsub, results, approving, streams>>

\* runMockExecution: the mock's run id is none of the service's.
StartDemo ==
  /\ mode = "demo" /\ Begins
  /\ mock' = DemoLength /\ active' = NoRun
  /\ UNCHANGED creating

\* runLiveAPIExecution, up to its await.
StartLive(r) ==
  /\ mode = "live" /\ Begins
  /\ r = 1 + Cardinality(creating \cup {x \in Runs : status[x] # "none"})
  /\ creating' = creating \cup {r}
  /\ UNCHANGED <<mock, active>>

\* ... and after it.  The run has been created and started.
Created(r) ==
  /\ r \in creating /\ creating' = creating \ {r}
  /\ status' = [status EXCEPT ![r] = "going"]
  /\ active' = r /\ unsub' = r /\ stream' = [stream EXCEPT ![r] = "open"]
  /\ astray' = (astray \/ ~running)
  /\ UNCHANGED <<log, mode, running, shown, banner, results, approving>>
  /\ UNCHANGED <<seen, mock>>

\* An error, or an answer that is lost: the run may have been started.
NotCreated(r) ==
  /\ r \in creating /\ creating' = creating \ {r}
  /\ status' \in {status, [status EXCEPT ![r] = "going"]}
  /\ running' = FALSE
  /\ UNCHANGED <<log, mode, active, unsub, shown, banner, results, approving>>
  /\ UNCHANGED <<streams, mock, astray>>

\* Slip: the stream is left open.
StopListening ==
  /\ running /\ running' = FALSE
  /\ mock' = IF mode = "demo" THEN 0 ELSE mock
  /\ unsub' = NoRun
  /\ UNCHANGED <<service, mode, active, shown, banner, calls, streams>>
  /\ UNCHANGED astray

\* handleStopRun: the run itself goes on, and so does a demo if the mode was
\* switched meanwhile.
Stop ==
  /\ running /\ running' = FALSE
  /\ mock' = IF mode = "demo" THEN 0 ELSE mock
  /\ unsub' = NoRun
  /\ stream' = [r \in Runs |-> IF r = unsub THEN "closed" ELSE stream[r]]
  /\ UNCHANGED <<service, mode, active, shown, banner, calls, seen>>
  /\ UNCHANGED astray

-----------------------------------------------------------------------------
(* Events and answers.                                                     *)

\* handleIncomingEvent: the first task completed is presented as the end.
Handles(r, event) ==
  /\ shown' = CASE event \in {"completed", "TASK_COMPLETED"} ->
                     [run |-> r, says |-> "completed"]
                [] event = "failed" -> [run |-> r, says |-> "failed"]
                [] OTHER -> shown
  /\ \/ banner' = (banner \/ event = "APPROVAL_REQUIRED")
     \/ UNCHANGED banner \* the request of an escalation names no tool

Receive(r) ==
  /\ stream[r] = "open" /\ seen[r] < Len(log[r])
  /\ seen' = [seen EXCEPT ![r] = @ + 1]
  /\ Handles(r, log[r][seen'[r]])
  /\ UNCHANGED <<service, mode, running, active, unsub, calls, stream>>
  /\ UNCHANGED <<mock, astray>>

\* Slip: only the end of the active run's stream is heeded.
EndOfActive(r) ==
  /\ stream[r] = "open" /\ seen[r] = Len(log[r])
  /\ status[r] \in Verdicts \cup {"waiting"}
  /\ stream' = [stream EXCEPT ![r] = "closed"]
  /\ IF unsub = r /\ status[r] \in Verdicts
     THEN running' = FALSE /\ results' = results \cup {active}
     ELSE UNCHANGED <<running, results>>
  /\ UNCHANGED <<service, mode, active, unsub, shown, banner>>
  /\ UNCHANGED <<creating, approving, seen, mock, astray>>

\* _end, and finishRun up to its await: it asks for the result of the run that
\* is active now.
End(r) ==
  /\ stream[r] = "open" /\ seen[r] = Len(log[r])
  /\ status[r] \in Verdicts \cup {"waiting"}
  /\ stream' = [stream EXCEPT ![r] = "closed"]
  /\ running' = FALSE
  /\ results' = IF active = NoRun THEN results ELSE results \cup {active}
  /\ UNCHANGED <<service, mode, active, unsub, shown, banner>>
  /\ UNCHANGED <<creating, approving, seen, mock, astray>>

\* Slip: what the events have shown already is left alone.
ResultKept(r) ==
  /\ r \in results /\ results' = results \ {r}
  /\ shown' = IF shown = Nothing THEN [run |-> r, says |-> status[r]] ELSE shown
  /\ UNCHANGED <<service, mode, running, active, unsub, banner>>
  /\ UNCHANGED <<creating, approving, streams, mock, astray>>

Result(r) ==
  /\ r \in results /\ results' = results \ {r}
  /\ shown' = [run |-> r, says |-> status[r]]
  /\ UNCHANGED <<service, mode, running, active, unsub, banner>>
  /\ UNCHANGED <<creating, approving, streams, mock, astray>>

\* An error leaves the panel as it is; a result that _drive has not stored yet
\* is empty, which the panel presents as "Objective not completed".
NoResult(r) ==
  /\ r \in results /\ results' = results \ {r}
  /\ shown' \in {shown, [run |-> r, says |-> "failed"]}
  /\ astray' = TRUE
  /\ UNCHANGED <<service, mode, running, active, unsub, banner>>
  /\ UNCHANGED <<creating, approving, streams, mock>>

\* The connection breaks: EventSource opens it again, from the first event.
Drop(r) ==
  /\ stream[r] = "open"
  /\ seen' = [seen EXCEPT ![r] = 0]
  /\ UNCHANGED <<service, page, calls, stream, mock, astray>>

\* scheduleNext: the demo plays its events, the last of which completes it.
MockPlays ==
  /\ mock > 0 /\ mock' = mock - 1
  /\ Handles(NoRun, IF mock = 1 THEN "completed" ELSE "TASK_STARTED")
  /\ running' = IF mock = 1 THEN FALSE ELSE running
  /\ UNCHANGED <<service, mode, active, unsub, calls, streams, astray>>

\* handleApproveGatedAction, up to its await: only a live page asks the service.
Approve ==
  /\ banner
  /\ IF active # NoRun /\ mode = "live"
     THEN approving' = approving \cup {active} /\ UNCHANGED banner
     ELSE banner' = FALSE /\ UNCHANGED approving
  /\ UNCHANGED <<service, mode, running, active, unsub, shown, creating, results>>
  /\ UNCHANGED <<streams, mock, astray>>

\* ... and after it, whether the service took the approval or not.
Approved(r) ==
  /\ r \in approving /\ approving' = approving \ {r}
  /\ \/ status[r] = "waiting" /\ status' = [status EXCEPT ![r] = "going"]
     \/ UNCHANGED status
  /\ banner' = FALSE
  /\ UNCHANGED <<log, mode, running, active, unsub, shown, creating, results>>
  /\ UNCHANGED <<streams, mock, astray>>

Answers ==
  \/ MockPlays
  \/ \E r \in Runs :
       \/ Created(r) \/ NotCreated(r) \/ Receive(r) \/ End(r)
       \/ Result(r) \/ NoResult(r) \/ Approved(r)
Next ==
  \/ Answers \/ Stop \/ StartDemo \/ Approve
  \/ \E m \in {"live", "demo"} : SetMode(m)
  \/ \E r \in Runs : StartLive(r) \/ Drop(r) \/ Works(r) \/ Concludes(r)

Spec == Init /\ [][Next]_vars

-----------------------------------------------------------------------------
(* Types.                                                                  *)

\* Every variable has the type its counterpart in the code has.
TypeOK ==
  /\ status \in [Runs -> {"none", "going", "waiting"} \cup Verdicts]
  /\ log \in [Runs -> Seq({"TASK_COMPLETED", "APPROVAL_REQUIRED"} \cup Verdicts)]
  /\ mode \in {"live", "demo"} /\ running \in BOOLEAN
  /\ active \in Runs \cup {NoRun} /\ unsub \in Runs \cup {NoRun}
  /\ creating \subseteq Runs /\ results \subseteq Runs /\ approving \subseteq Runs
  /\ stream \in [Runs -> {"none", "open", "closed"}] /\ seen \in [Runs -> Nat]
  /\ shown \in [run : Runs \cup {NoRun},
                says : {"nothing", "none", "going", "waiting"} \cup Verdicts]
  /\ banner \in BOOLEAN
  /\ mock \in Nat
  /\ astray \in BOOLEAN

-----------------------------------------------------------------------------
(* Safety.                                                                 *)

\* While the page says that a run is running, and so lets none be started,
\* there is something under way that will end this: an answer to createTask, a
\* stream or a demo, whatever was stopped, switched or left under way before.
NeverStuck == running => creating # {} \/ Open # {} \/ mock > 0

\* The page listens to a run only while it says that one is running, unless the
\* run was stopped before createTask had answered, or another was started while
\* something of it was under way.
ListensWhileRunning ==
  ~running /\ ~astray => Open = {}

\* When all is answered, the page shows the verdict of the run it followed to
\* the end, if it has got its result (an empty one is presented as a failure,
\* whatever the verdict): neither the tasks completed on the way, nor events that come again
\* after an interruption, nor a terminal event the stream ended before, stay on
\* in its place.
FollowedToTheEnd(r) ==
  /\ active = r /\ stream[r] = "closed" /\ unsub = r /\ results = {} /\ Sources = 0
  /\ status[r] \in Verdicts /\ "APPROVAL_REQUIRED" \notin {log[r][i] : i \in DOMAIN log[r]}
ShowsTheVerdict ==
  \A r \in Runs :
    FollowedToTheEnd(r) /\ ~astray /\ shown # Nothing =>
      shown = [run |-> r, says |-> status[r]]
=============================================================================
