--------------------------- MODULE DashboardProofs ---------------------------
(***************************************************************************)
(* For any number of runs and events: a page that says it is running has   *)
(* something under way that ends this; it listens to a run only while it   *)
(* says so, unless something was left under way; and it ends up showing    *)
(* the verdict of the run that it followed.                                *)
(*                                                                         *)
(* NeverStuck is inductive once the types are known.  The second needs     *)
(* what one start at a time means: at most one request, stream or demo is  *)
(* under way, and the stream that is open is the one that stopping would   *)
(* close.  The third adds that all of these, and the results to come, are  *)
(* of the active run, and that a result is asked for when a run has ended. *)
(***************************************************************************)
EXTENDS Dashboard, FiniteSetTheorems, TLAPS

Typed ==
  /\ creating \subseteq Runs /\ mock \in Nat
  /\ unsub \in Runs \cup {NoRun}
  /\ stream \in [Runs -> {"none", "open", "closed"}]

\* At most one source of events is under way, and none that is not running.
OneAtATime ==
  /\ creating # {} => Open = {} /\ mock = 0
  /\ mock > 0 => Open = {}
  /\ \A r, s \in creating : r = s
  /\ Open \subseteq {unsub}
  /\ ~running => Open = {}

IInv == Typed /\ NeverStuck /\ (~astray => OneAtATime)

-----------------------------------------------------------------------------
\* What Sources counts is nothing exactly when nothing is under way.
LEMMA NoSources ==
  ASSUME Typed, ~(Sources > 0) PROVE creating = {} /\ Open = {} /\ mock = 0
<1>1. IsFiniteSet(Runs)
  BY FS_Interval, DashboardAssumption DEF Runs
<1>2. IsFiniteSet(creating) /\ IsFiniteSet(Open)
  BY <1>1, FS_Subset DEF Typed, Open
<1>3. Cardinality(creating) \in Nat /\ Cardinality(Open) \in Nat
  BY <1>2, FS_CardinalityType
<1>4. Cardinality(creating) = 0 /\ Cardinality(Open) = 0 /\ mock = 0
  BY <1>3 DEF Sources, Typed
<1> QED
  BY <1>2, <1>4, FS_EmptySet

\* A step that leaves the flag, what is under way and the unsubscriber alone.
LEMMA Unmoved ==
  ASSUME IInv, UNCHANGED <<creating, mock, unsub, stream, running>>, astray => astray'
  PROVE  IInv'
BY DEF IInv, Typed, NeverStuck, OneAtATime, Open

LEMMA ServiceKeeps ==
  ASSUME IInv, NEW r \in Runs,
         \/ Works(r) \/ Concludes(r) \/ Receive(r) \/ Result(r) \/ NoResult(r)
         \/ Drop(r) \/ Approve \/ Approved(r) \/ \E m \in {"live", "demo"} : SetMode(m)
  PROVE  IInv'
<1>1. UNCHANGED <<creating, mock, unsub, stream, running>> /\ (astray => astray')
  BY DEF Works, Concludes, Receive, Result, NoResult, Drop, Approve, Approved,
         SetMode, service, page, calls, streams
<1> QED
  BY <1>1, Unmoved

\* Begins counts what is under way: if it marks nothing, there is nothing.
LEMMA StartKeeps ==
  ASSUME IInv, StartDemo \/ \E r \in Runs : StartLive(r) PROVE IInv'
<1>1. Typed /\ running' = TRUE /\ UNCHANGED <<unsub, stream>>
  BY DEF IInv, StartDemo, StartLive, Begins, streams
<1>2. ~astray' => creating = {} /\ Open = {} /\ mock = 0
  BY <1>1, NoSources DEF StartDemo, StartLive, Begins
<1>3. \/ mock' = 1 /\ creating' = creating
      \/ mock' = mock /\ \E r \in Runs : creating' = creating \cup {r}
  BY DEF StartDemo, StartLive, DemoLength
<1> QED
  BY <1>1, <1>2, <1>3 DEF IInv, Typed, NeverStuck, OneAtATime, Open

LEMMA CreatedKeeps ==
  ASSUME IInv, NEW r \in Runs, Created(r) PROVE IInv'
<1>1. /\ Typed /\ r \in creating /\ creating' = creating \ {r} /\ unsub' = r
      /\ stream' = [stream EXCEPT ![r] = "open"] /\ UNCHANGED <<mock, running>>
  BY DEF IInv, Created
<1>0. ~astray' => ~astray /\ running
  BY DEF Created
<1>2. Open' = Open \cup {r}
  BY <1>1 DEF Typed, Open
<1>3. Typed'
  BY <1>1 DEF Typed
<1>4. ~astray' => OneAtATime'
  BY <1>0, <1>1, <1>2 DEF IInv, OneAtATime, Typed
<1> QED
  BY <1>2, <1>3, <1>4 DEF IInv, NeverStuck

LEMMA NotCreatedKeeps ==
  ASSUME IInv, NEW r \in Runs, NotCreated(r) PROVE IInv'
<1>1. /\ r \in creating /\ creating' = creating \ {r} /\ running' = FALSE
      /\ UNCHANGED <<mock, unsub, stream, astray>>
  BY DEF NotCreated, streams
<1> QED
  BY <1>1 DEF IInv, Typed, NeverStuck, OneAtATime, Open

LEMMA StopKeeps ==
  ASSUME IInv, Stop PROVE IInv'
<1>1. /\ Typed /\ running' = FALSE /\ mock' \in {0, mock} /\ unsub' = NoRun
      /\ stream' = [r \in Runs |-> IF r = unsub THEN "closed" ELSE stream[r]]
      /\ UNCHANGED <<creating, astray>>
  BY DEF IInv, Stop, calls
<1>2. Open' = Open \ {unsub}
  BY <1>1 DEF Typed, Open
<1>3. Typed'
  BY <1>1 DEF Typed
<1>4. ~astray' => OneAtATime'
  BY <1>1, <1>2 DEF IInv, OneAtATime, Typed
<1> QED
  BY <1>1, <1>3, <1>4 DEF IInv, NeverStuck

LEMMA EndKeeps ==
  ASSUME IInv, NEW r \in Runs, End(r) PROVE IInv'
<1>1. /\ Typed /\ running' = FALSE /\ r \in Open
      /\ stream' = [stream EXCEPT ![r] = "closed"]
      /\ UNCHANGED <<creating, mock, unsub, astray>>
  BY DEF IInv, End, Open
<1>2. Open' = Open \ {r}
  BY <1>1 DEF Typed, Open
<1>3. Typed'
  BY <1>1 DEF Typed
<1>4. ~astray' => OneAtATime'
  BY <1>1, <1>2 DEF IInv, OneAtATime, Typed
<1> QED
  BY <1>1, <1>3, <1>4 DEF IInv, NeverStuck

LEMMA DemoKeeps ==
  ASSUME IInv, MockPlays PROVE IInv'
<1>1. /\ mock \in Nat /\ mock > 0 /\ mock' = mock - 1
      /\ UNCHANGED <<creating, unsub, stream, astray>>
  BY DEF IInv, Typed, MockPlays, calls, streams
<1>2. CASE mock = 1 /\ running' = FALSE
  BY <1>1, <1>2 DEF IInv, Typed, NeverStuck, OneAtATime, Open
<1>3. CASE mock # 1 /\ running' = running
  BY <1>1, <1>3 DEF IInv, Typed, NeverStuck, OneAtATime, Open
<1> QED
  BY <1>2, <1>3 DEF MockPlays

LEMMA AlwaysIInv == Spec => []IInv
<1>1. Init => IInv
  BY DEF Init, IInv, Typed, NeverStuck, OneAtATime, Open, Runs, NoRun
<1>2. IInv /\ [Next]_vars => IInv'
  <2> SUFFICES ASSUME IInv, [Next]_vars PROVE IInv'
    OBVIOUS
  <2>1. ASSUME Answers PROVE IInv'
    BY <2>1, DemoKeeps, CreatedKeeps, NotCreatedKeeps, ServiceKeeps, EndKeeps DEF Answers
  <2>2. CASE Stop
    BY <2>2, StopKeeps
  <2>3. ASSUME StartDemo \/ \E r \in Runs : StartLive(r) PROVE IInv'
    BY <2>3, StartKeeps
  <2>4. ASSUME NEW r \in Runs, Drop(r) \/ Works(r) \/ Concludes(r) PROVE IInv'
    BY <2>4, ServiceKeeps
  <2>5. ASSUME Approve \/ \E m \in {"live", "demo"} : SetMode(m) PROVE IInv'
    <3>1. UNCHANGED <<creating, mock, unsub, stream, running, astray>>
      BY <2>5 DEF Approve, SetMode, calls, streams
    <3> QED
      BY <3>1, Unmoved
  <2>6. CASE UNCHANGED vars
    BY <2>6, Unmoved DEF vars, calls, page, streams
  <2> QED
    BY <2>1, <2>2, <2>3, <2>4, <2>5, <2>6 DEF Next
<1> QED
  BY <1>1, <1>2, PTL DEF Spec

\* Whatever is stopped, switched or left under way, a page that says it is
\* running has an answer, a stream or a demo to come that ends it: app.js never
\* leaves isRunning set for good.
THEOREM NotStuck == Spec => []NeverStuck
<1>1. IInv => NeverStuck
  BY DEF IInv
<1> QED
  BY <1>1, AlwaysIInv, PTL

\* A page that says nothing is running listens to no run, as long as nothing
\* was stopped before it was created or started over what was under way.
THEOREM ListensOnlyWhileRunning == Spec => []ListensWhileRunning
<1>1. IInv => ListensWhileRunning
  BY DEF IInv, OneAtATime, ListensWhileRunning
<1> QED
  BY <1>1, AlwaysIInv, PTL

-----------------------------------------------------------------------------
(* Types.                                                                  *)

Events == {"TASK_COMPLETED", "APPROVAL_REQUIRED"} \cup Verdicts

LEMMA SaysTyped ==
  ASSUME log \in [Runs -> Seq(Events)], NEW r \in Runs, NEW event \in Events, Says(r, event)
  PROVE  log' \in [Runs -> Seq(Events)]
<1>1. Append(log[r], event) \in Seq(Events)
  OBVIOUS
<1> QED
  BY <1>1 DEF Says

Panel == [run : Runs \cup {NoRun},
          says : {"nothing", "none", "going", "waiting"} \cup Verdicts]

LEMMA HandlesTyped ==
  ASSUME shown \in Panel, banner \in BOOLEAN, NEW r \in Runs \cup {NoRun}, NEW event, Handles(r, event)
  PROVE  shown' \in Panel /\ banner' \in BOOLEAN
<1> USE DEF Panel, Verdicts
<1>1. banner' \in BOOLEAN
  BY DEF Handles
<1>2. CASE event \in {"completed", "TASK_COMPLETED"}
  BY <1>1, <1>2 DEF Handles
<1>3. CASE event = "failed"
  BY <1>1, <1>3 DEF Handles
<1>4. CASE event \notin {"completed", "TASK_COMPLETED", "failed"}
  BY <1>1, <1>4 DEF Handles
<1> QED
  BY <1>2, <1>3, <1>4

\* The page, the calls under way and the service's side of them keep their types.
THEOREM DashboardTypes == Spec => []TypeOK
<1> USE DEF NoRun
<1>1. Init => TypeOK
  <2> SUFFICES ASSUME Init PROVE TypeOK
    OBVIOUS
  <2>1. shown \in Panel
    BY DEF Init, Nothing, Panel
  <2>2. log \in [Runs -> Seq(Events)]
    BY DEF Init
  <2>3. status \in [Runs -> {"none", "going", "waiting"} \cup Verdicts]
    BY DEF Init
  <2> QED
    BY <2>1, <2>2, <2>3 DEF Init, TypeOK, Panel, Events
<1>2. TypeOK /\ [Next]_vars => TypeOK'
  <2> SUFFICES ASSUME TypeOK, [Next]_vars PROVE TypeOK'
    OBVIOUS
  <2> USE DEF TypeOK, service, page, calls, streams
  <2>1. ASSUME NEW r \in Runs, Works(r) PROVE TypeOK'
    <3>1. log' \in [Runs -> Seq(Events)]
      BY <2>1, SaysTyped DEF Works, Events
    <3>2. status' \in [Runs -> {"none", "going", "waiting"} \cup Verdicts]
      BY <2>1 DEF Works
    <3> QED
      BY <2>1, <3>1, <3>2 DEF Works, Events
  <2>2. ASSUME NEW r \in Runs, Concludes(r) PROVE TypeOK'
    <3>1. log' \in [Runs -> Seq(Events)]
      BY <2>2, SaysTyped DEF Concludes, Events
    <3>2. status' \in [Runs -> {"none", "going", "waiting"} \cup Verdicts]
      BY <2>2 DEF Concludes
    <3> QED
      BY <2>2, <3>1, <3>2 DEF Concludes, Events
  <2>3. ASSUME NEW m \in {"live", "demo"}, SetMode(m) PROVE TypeOK'
    BY <2>3 DEF SetMode
  <2>4. CASE StartDemo
    BY <2>4 DEF StartDemo, Begins, DemoLength, Nothing
  <2>5. ASSUME NEW r \in Runs, StartLive(r) PROVE TypeOK'
    BY <2>5 DEF StartLive, Begins, Nothing
  <2>6. ASSUME NEW r \in Runs, Created(r) PROVE TypeOK'
    BY <2>6 DEF Created
  <2>7. ASSUME NEW r \in Runs, NotCreated(r) PROVE TypeOK'
    BY <2>7 DEF NotCreated
  <2>8. CASE Stop
    BY <2>8 DEF Stop
  <2>9. ASSUME NEW r \in Runs, Receive(r) PROVE TypeOK'
    BY <2>9, HandlesTyped DEF Receive, Panel
  <2>10. ASSUME NEW r \in Runs, End(r) PROVE TypeOK'
    BY <2>10 DEF End
  <2>11. ASSUME NEW r \in Runs, Result(r) \/ NoResult(r) PROVE TypeOK'
    <3>1. CASE Result(r)
      <4>1. shown' \in Panel
        BY <3>1 DEF Result, Panel
      <4> QED
        BY <3>1, <4>1 DEF Result, Panel
    <3>2. CASE NoResult(r)
      <4>1. shown' \in Panel
        BY <3>2 DEF NoResult, Panel, Verdicts
      <4> QED
        BY <3>2, <4>1 DEF NoResult, Panel
    <3> QED
      BY <2>11, <3>1, <3>2
  <2>12. ASSUME NEW r \in Runs, Drop(r) PROVE TypeOK'
    BY <2>12 DEF Drop
  <2>13. CASE MockPlays
    <3>1. \E event : Handles(NoRun, event)
      <4> DEFINE played == IF mock = 1 THEN "completed" ELSE "TASK_STARTED"
      <4>1. Handles(NoRun, played)
        BY <2>13 DEF MockPlays
      <4> QED
        BY <4>1
    <3>2. shown' \in Panel /\ banner' \in BOOLEAN
      BY <3>1, HandlesTyped DEF Panel
    <3>3. mock' \in Nat
      BY <2>13 DEF MockPlays
    <3>4. running' \in BOOLEAN
      BY <2>13 DEF MockPlays
    <3> QED
      BY <2>13, <3>2, <3>3, <3>4 DEF MockPlays, Panel
  <2>14. CASE Approve
    BY <2>14 DEF Approve
  <2>15. ASSUME NEW r \in Runs, Approved(r) PROVE TypeOK'
    BY <2>15 DEF Approved
  <2>16. CASE UNCHANGED vars
    BY <2>16 DEF vars
  <2> QED
    BY <2>1, <2>2, <2>3, <2>4, <2>5, <2>6, <2>7, <2>8, <2>9, <2>10, <2>11, <2>12, <2>13,
       <2>14, <2>15, <2>16 DEF Next, Answers
<1> QED
  BY <1>1, <1>2, PTL DEF Spec

-----------------------------------------------------------------------------
(* The verdict.                                                            *)

Asked(r) == "APPROVAL_REQUIRED" \in {log[r][i] : i \in DOMAIN log[r]}

\* A run waits only after it asked.
Waited == \A r \in Runs : status[r] = "waiting" => Asked(r)

\* Its stream has ended for good, or for an approval that it asked for.
Ended(r) == status[r] \in Verdicts \/ Asked(r)

\* What is under way is of the active run, or there is none: only a result
\* that was asked for at the end of its stream is to come, and once that came
\* the panel is about that run.
Following ==
  /\ Open \subseteq {active}
  /\ mock > 0 => active = NoRun
  /\ creating # {} => shown = Nothing /\ results = {}
  /\ results # {} => Open = {}
  /\ \A r \in results : r = active /\ Ended(r)

Presented ==
  active \in Runs /\ unsub = active /\ results = {} /\ Open = {} /\ shown # Nothing =>
    \/ Asked(active)
    \/ status[active] \in Verdicts /\ shown = [run |-> active, says |-> status[active]]

ShowInv == Waited /\ (~astray => Following /\ Presented)

Known == IInv /\ TypeOK

LEMMA SaysAsked ==
  ASSUME TypeOK, NEW r \in Runs, NEW x \in Runs, NEW event, Says(r, event)
  PROVE  /\ Asked(x) => Asked(x)'
         /\ event = "APPROVAL_REQUIRED" => Asked(r)'
<1>1. /\ log[r] \in Seq(Events) /\ log \in [Runs -> Seq(Events)]
      /\ log' = [log EXCEPT ![r] = Append(log[r], event)]
  BY DEF TypeOK, Events, Says
<1> DEFINE old == log[r]
           new == Append(old, event)
<1>2. /\ DOMAIN new = 1 .. (Len(old) + 1) /\ DOMAIN old = 1 .. Len(old) /\ Len(old) \in Nat
      /\ \A i \in DOMAIN old : i \in DOMAIN new /\ new[i] = old[i]
      /\ new[Len(old) + 1] = event /\ Len(old) + 1 \in DOMAIN new
  BY <1>1
<1>3. log'[r] = new /\ (x # r => log'[x] = log[x])
  BY <1>1
<1> HIDE DEF new
<1> QED
  BY <1>2, <1>3 DEF Asked

\* Steps of the service: what a run has asked stays so, and only a run that
\* goes on gets another status.
LEMMA ServiceShows ==
  ASSUME Known, ShowInv, NEW r \in Runs, Works(r) \/ Concludes(r)
  PROVE  ShowInv'
<1>1. /\ UNCHANGED <<page, calls, streams, mock, astray>>
      /\ \/ UNCHANGED log
         \/ \E event : Says(r, event)
  BY DEF Works, Concludes
<1>2. \A x \in Runs : Asked(x) => Asked(x)'
  <2>1. CASE UNCHANGED log
    BY <2>1 DEF Asked
  <2> QED
    BY <1>1, <2>1, SaysAsked DEF Known
<1>3. \A x \in Runs : \/ status'[x] = status[x]
                      \/ status[x] = "going" /\ status'[x] \in Verdicts
                      \/ status'[x] = "waiting" /\ Asked(x)' /\ status[x] = "going"
  <2>1. CASE Concludes(r)
    BY <2>1 DEF Concludes, Known, TypeOK, service
  <2>2. CASE Works(r)
    <3>1. CASE Says(r, "APPROVAL_REQUIRED") /\ status' = [status EXCEPT ![r] = "waiting"]
      BY <2>2, <3>1, SaysAsked DEF Works, Known, TypeOK
    <3> QED
      BY <2>2, <3>1 DEF Works, service
  <2> QED
    BY <2>1, <2>2
<1>4. "going" \notin Verdicts /\ "waiting" \notin Verdicts
  BY DEF Verdicts
<1>5. Waited'
  BY <1>2, <1>3, <1>4 DEF ShowInv, Waited
<1>6. \A x \in Runs : Ended(x) => Ended(x)'
  BY <1>2, <1>3, <1>4 DEF Ended
<1>7. UNCHANGED <<mode, running, active, unsub, shown, banner, creating, results, stream, mock, astray>>
  BY <1>1 DEF page, calls, streams
<1>8. Open' = Open
  BY <1>7 DEF Open
<1>9. results \subseteq Runs
  BY DEF Known, TypeOK
<1>10. Following => Following'
  BY <1>6, <1>7, <1>8, <1>9 DEF Following
<1>11. Presented => Presented'
  BY <1>2, <1>3, <1>4, <1>7, <1>8 DEF Presented
<1> QED
  BY <1>5, <1>7, <1>10, <1>11 DEF ShowInv

\* Steps that leave the service alone.
LEMMA PageWaits ==
  ASSUME ShowInv, UNCHANGED service PROVE Waited' /\ \A r : (Ended(r)' = Ended(r)) /\ (Asked(r)' = Asked(r))
BY DEF ShowInv, Waited, Asked, Ended, service

LEMMA StartShows ==
  ASSUME Known, ShowInv, StartDemo \/ \E r \in Runs : StartLive(r) PROVE ShowInv'
<1>1. /\ shown' = Nothing /\ UNCHANGED <<service, stream, results>>
      /\ astray' = (astray \/ Sources > 0 \/ results # {} \/ approving # {})
  BY DEF StartDemo, StartLive, Begins, streams
<1>2. ~astray' => creating = {} /\ Open = {} /\ mock = 0 /\ results = {} /\ ~astray
  BY <1>1, NoSources DEF Known, IInv
<1>3. Open' = Open
  BY <1>1 DEF Open
<1>4. mock' = 0 \/ mock' = mock \/ active' = NoRun
  BY DEF StartDemo, StartLive
<1>5. ~astray' => Following' /\ Presented'
  BY <1>1, <1>2, <1>3, <1>4 DEF Following, Presented
<1> QED
  BY <1>1, <1>5, PageWaits DEF ShowInv

LEMMA CreatedShows ==
  ASSUME Known, ShowInv, NEW r \in Runs, Created(r) PROVE ShowInv'
<1>1. /\ r \in creating /\ stream' = [stream EXCEPT ![r] = "open"] /\ active' = r
      /\ status' = [status EXCEPT ![r] = "going"]
      /\ creating' = creating \ {r}
      /\ UNCHANGED <<log, shown, results, mock>> /\ (~astray' => ~astray)
  BY DEF Created
<1>2. /\ stream \in [Runs -> {"none", "open", "closed"}]
      /\ status \in [Runs -> {"none", "going", "waiting"} \cup Verdicts]
  BY DEF Known, TypeOK
<1>3. Open' = Open \cup {r}
  BY <1>1, <1>2 DEF Open
<1>4. Waited'
  BY <1>1, <1>2 DEF ShowInv, Waited, Asked
<1>5. ~astray' => /\ Following /\ Open = {} /\ results = {} /\ mock = 0
                  /\ creating' = {}
  BY <1>1 DEF ShowInv, Known, IInv, Following, OneAtATime
<1>6. ~astray' => Following' /\ Presented'
  BY <1>1, <1>3, <1>5 DEF Following, Presented
<1> QED
  BY <1>4, <1>6 DEF ShowInv

LEMMA NotCreatedShows ==
  ASSUME Known, ShowInv, NEW r \in Runs, NotCreated(r) PROVE ShowInv'
<1>1. /\ r \in creating /\ creating' = creating \ {r}
      /\ status' \in {status, [status EXCEPT ![r] = "going"]}
      /\ UNCHANGED <<log, active, unsub, shown, results, stream, mock, astray>>
  BY DEF NotCreated, streams
<1>2. status \in [Runs -> {"none", "going", "waiting"} \cup Verdicts]
  BY DEF Known, TypeOK
<1>3. Open' = Open
  BY <1>1 DEF Open
<1>4. Waited'
  BY <1>1, <1>2 DEF ShowInv, Waited, Asked
<1>5. ~astray' => shown' = Nothing /\ results = {} /\ Following
  BY <1>1 DEF ShowInv, Following
<1>6. ~astray' => Following' /\ Presented'
  BY <1>1, <1>3, <1>5 DEF Following, Presented
<1> QED
  BY <1>4, <1>6 DEF ShowInv

LEMMA StopShows ==
  ASSUME Known, ShowInv, Stop PROVE ShowInv'
<1>1. /\ mock' \in {0, mock} /\ unsub' = NoRun
      /\ stream' = [r \in Runs |-> IF r = unsub THEN "closed" ELSE stream[r]]
      /\ UNCHANGED <<service, active, shown, creating, results, astray>>
  BY DEF Stop, calls
<1>2. Open' = Open \ {unsub}
  BY <1>1 DEF Known, TypeOK, Open
<1>3. \A r : Ended(r)' = Ended(r)
  BY <1>1, PageWaits
<1>4. Following => Following'
  BY <1>1, <1>2, <1>3 DEF Following, Known, TypeOK
<1>5. Presented'
  BY <1>1 DEF Presented, Runs, NoRun
<1> QED
  BY <1>1, <1>4, <1>5, PageWaits DEF ShowInv

LEMMA EndShows ==
  ASSUME Known, ShowInv, NEW r \in Runs, End(r) PROVE ShowInv'
<1>1. /\ r \in Open /\ status[r] \in Verdicts \cup {"waiting"}
      /\ stream' = [stream EXCEPT ![r] = "closed"]
      /\ results' = IF active = NoRun THEN results ELSE results \cup {active}
      /\ UNCHANGED <<service, active, unsub, shown, creating, mock, astray>>
  BY DEF End, Open
<1>2. Open' = Open \ {r}
  BY <1>1 DEF Known, TypeOK, Open
<1>3. Ended(r)' /\ \A x : Ended(x)' = Ended(x)
  <2>1. Ended(r)
    BY <1>1 DEF ShowInv, Waited, Ended
  <2> QED
    BY <1>1, <2>1, PageWaits
<1>4. ~astray => /\ active = r /\ Open = {r} /\ creating = {} /\ mock = 0
                 /\ results' = {r} /\ r # NoRun
  <2> SUFFICES ASSUME ~astray
               PROVE  /\ active = r /\ Open = {r} /\ creating = {} /\ mock = 0
                      /\ results' = {r} /\ r # NoRun
    OBVIOUS
  <2>1. Following /\ OneAtATime /\ mock \in Nat
    BY DEF ShowInv, Known, IInv, Typed
  <2>2. active = r /\ Open = {r} /\ results = {} /\ creating = {} /\ mock = 0
    BY <1>1, <2>1 DEF Following, OneAtATime
  <2>3. r # NoRun
    BY DEF Runs, NoRun
  <2> QED
    BY <1>1, <2>2, <2>3
<1>5. ~astray => Following' /\ Presented'
  BY <1>1, <1>2, <1>3, <1>4 DEF Following, Presented
<1> QED
  BY <1>1, <1>5, PageWaits DEF ShowInv

LEMMA ReceiveShows ==
  ASSUME Known, ShowInv, NEW r \in Runs, Receive(r) PROVE ShowInv'
<1>1. /\ r \in Open /\ UNCHANGED <<service, active, unsub, creating, results, stream, mock, astray>>
  BY DEF Receive, Open, calls
<1>2. Open' = Open
  BY <1>1 DEF Open
<1>3. \A x : Ended(x)' = Ended(x)
  BY <1>1, PageWaits
<1>4. ~astray => Following' /\ Presented'
  BY <1>1, <1>2, <1>3 DEF ShowInv, Known, IInv, Following, OneAtATime, Presented
<1> QED
  BY <1>1, <1>4, PageWaits DEF ShowInv

LEMMA ResultShows ==
  ASSUME Known, ShowInv, NEW r \in Runs, Result(r) PROVE ShowInv'
<1>1. /\ r \in results /\ results' = results \ {r}
      /\ shown' = [run |-> r, says |-> status[r]]
      /\ UNCHANGED <<service, active, unsub, creating, stream, mock, astray>>
  BY DEF Result, streams
<1>2. Open' = Open
  BY <1>1 DEF Open
<1>3. \A x : Ended(x)' = Ended(x) /\ Asked(x)' = Asked(x)
  BY <1>1, PageWaits
<1>4. ~astray => r = active /\ Ended(r) /\ creating = {} /\ Following
  BY <1>1 DEF ShowInv, Following
<1>5. ~astray => Following'
  BY <1>1, <1>2, <1>3, <1>4 DEF Following
<1>6. ~astray => Presented'
  BY <1>1, <1>3, <1>4 DEF Presented, Ended, service
<1> QED
  BY <1>1, <1>5, <1>6, PageWaits DEF ShowInv

LEMMA DemoShows ==
  ASSUME Known, ShowInv, MockPlays PROVE ShowInv'
<1>1. /\ mock \in Nat /\ mock > 0 /\ mock' = mock - 1
      /\ UNCHANGED <<service, active, unsub, creating, results, stream, astray>>
  BY DEF Known, TypeOK, MockPlays, calls, streams
<1>2. Open' = Open
  BY <1>1 DEF Open
<1>3. \A x : Ended(x)' = Ended(x)
  BY <1>1, PageWaits
<1>4. ~astray => active = NoRun /\ creating = {} /\ Following
  BY <1>1 DEF ShowInv, Following, Known, IInv, OneAtATime
<1>5. ~astray => Following' /\ Presented'
  BY <1>1, <1>2, <1>3, <1>4 DEF Following, Presented, Runs, NoRun
<1> QED
  BY <1>1, <1>5, PageWaits DEF ShowInv

\* An approval changes the status of a run that asked for it.
LEMMA ApprovedShows ==
  ASSUME Known, ShowInv, NEW r \in Runs, Approved(r) PROVE ShowInv'
<1>1. /\ UNCHANGED <<log, active, unsub, shown, creating, results, stream, mock, astray>>
      /\ \/ status[r] = "waiting" /\ status' = [status EXCEPT ![r] = "going"]
         \/ UNCHANGED status
  BY DEF Approved, streams
<1>2. Open' = Open /\ \A x : Asked(x)' = Asked(x)
  BY <1>1 DEF Open, Asked
<1>3. \A x \in Runs : /\ status'[x] = status[x] \/ (Asked(x) /\ status'[x] = "going")
                      /\ Ended(x) => Ended(x)'
  BY <1>1, <1>2 DEF ShowInv, Waited, Known, TypeOK, Ended
<1>4. Waited'
  BY <1>2, <1>3 DEF ShowInv, Waited
<1>5. results \subseteq Runs
  BY DEF Known, TypeOK
<1>6. Following => Following'
  BY <1>1, <1>2, <1>3, <1>5 DEF Following
<1>7. Presented => Presented'
  BY <1>1, <1>2, <1>3 DEF Presented
<1> QED
  BY <1>1, <1>4, <1>6, <1>7 DEF ShowInv

\* Steps that do not touch what the invariant is about.
LEMMA OtherShows ==
  ASSUME ShowInv, UNCHANGED <<service, active, unsub, shown, creating, results, stream, mock>>,
         astray' \/ astray' = astray
  PROVE  ShowInv'
<1>1. Open' = Open
  BY DEF Open
<1>2. \A x : Ended(x)' = Ended(x) /\ Asked(x)' = Asked(x)
  BY PageWaits
<1>3. Following => Following'
  BY <1>1, <1>2 DEF Following
<1>4. Presented => Presented'
  BY <1>1, <1>2 DEF Presented, service
<1> QED
  BY <1>3, <1>4, PageWaits DEF ShowInv

LEMMA NoResultShows ==
  ASSUME Known, ShowInv, NEW r \in Runs, NoResult(r) PROVE ShowInv'
BY PageWaits DEF NoResult, ShowInv

\* After its stream has ended and its result was got, the panel shows the
\* verdict of the run that was followed, whatever tasks, interruptions or
\* approvals there were on the way, for any number of runs and events.
THEOREM VerdictIsShown == Spec => []ShowsTheVerdict
<1>1. Init => ShowInv
  BY DEF Init, ShowInv, Waited, Following, Presented, Open, Runs, NoRun
<1>2. IInv /\ TypeOK /\ ShowInv /\ [Next]_vars => ShowInv'
  <2> SUFFICES ASSUME Known, ShowInv, [Next]_vars PROVE ShowInv'
    BY DEF Known
  <2>1. CASE Answers
    BY <2>1, DemoShows, CreatedShows, NotCreatedShows, ReceiveShows, EndShows, ResultShows,
       NoResultShows, ApprovedShows DEF Answers
  <2>2. CASE Stop
    BY <2>2, StopShows
  <2>3. CASE StartDemo \/ \E r \in Runs : StartLive(r)
    BY <2>3, StartShows
  <2>4. ASSUME NEW r \in Runs, Works(r) \/ Concludes(r) PROVE ShowInv'
    BY <2>4, ServiceShows
  <2>5. ASSUME \/ Approve \/ \E r \in Runs : Drop(r)
               \/ \E m \in {"live", "demo"} : SetMode(m)
               \/ UNCHANGED vars
        PROVE ShowInv'
    <3>1. UNCHANGED <<service, active, unsub, shown, creating, results, stream, mock, astray>>
      BY <2>5 DEF Approve, Drop, SetMode, vars, page, calls, streams
    <3> QED
      BY <3>1, OtherShows
  <2> QED
    BY <2>1, <2>2, <2>3, <2>4, <2>5 DEF Next
<1>3. IInv /\ TypeOK /\ ShowInv => ShowsTheVerdict
  <2> SUFFICES ASSUME IInv, TypeOK, ShowInv, NEW r \in Runs, FollowedToTheEnd(r), ~astray,
                      shown # Nothing
               PROVE  shown = [run |-> r, says |-> status[r]]
    BY DEF ShowsTheVerdict
  <2>1. /\ active = r /\ unsub = r /\ results = {} /\ stream[r] = "closed" /\ ~Asked(r)
    BY DEF FollowedToTheEnd, Asked
  <2>2. Open = {}
    BY <2>1 DEF ShowInv, Following, Open
  <2> QED
    BY <2>1, <2>2 DEF ShowInv, Presented
<1> QED
  BY <1>1, <1>2, <1>3, AlwaysIInv, DashboardTypes, PTL DEF Spec
==============================================================================
