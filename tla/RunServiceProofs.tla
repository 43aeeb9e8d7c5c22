-------------------------- MODULE RunServiceProofs --------------------------
(***************************************************************************)
(* For any number of threads, starts and tasks, and with the threads, the  *)
(* stream and the clients interleaved in any way: the variables keep their *)
(* types, a stream delivers what was published, a gated tool is called     *)
(* only when it was granted, and no tool before those it waits for.  With  *)
(* one driver at a time the verdict is the last that is published, the row *)
(* and the result tell it, the tool of a task is called once, and the run  *)
(* implements Objective.                                                   *)
(*                                                                         *)
(* What a thread is about to do is a sequence of effects, so an invariant  *)
(* of a handler halfway through is one of the effects that are left.  Most *)
(* of the module says which effects a script can have (ScriptsAre and what *)
(* follows it), and what each was decided from (Grounded).  Then each      *)
(* invariant is kept for one reason: a step takes the first effect away,   *)
(* decides on a script, or takes up an effect of the loop (ThreadMoves).   *)
(***************************************************************************)
EXTENDS RunService, FiniteSetTheorems, SequenceTheorems, TLAPS

-----------------------------------------------------------------------------
(* Effects, and the scripts they are put together to.                      *)

TaskStatus == {"pending", "running", "completed", "failed"}

Aims == Nodes \ {"START"}   \* nobody goes back there

NodeSets == [do : {"set"}, field : {"node"}, value : Aims]
StatusSets == [do : {"set"}, field : {"status"}, value : RunStatus]
Choices == [do : {"set"}, field : {"current"}, value : 1..Jobs]
StatusPuts ==
  [do : {"put"}, plan : Nat, task : 1..Jobs, field : {"status"}, value : TaskStatus]
ResultPuts ==
  [do : {"put"}, plan : Nat, task : 1..Jobs, field : {"result"}, value : ToolOutcomes]
Emits == [do : {"emit"}, type : EventTypes, task : 0..Jobs]
Thens == [do : {"then"}, what : {"JUDGE", "ANNOUNCE"}]
Resumes == [do : {"resume"}, tools : SUBSET Gated]
Results == [do : {"result"}, status : RunStatus]
Others == [do : {"save", "pause?", "fallible", "leave", "plan", "dispatch"}]

Effect ==
  NodeSets \cup StatusSets \cup Choices \cup StatusPuts \cup ResultPuts
    \cup Emits \cup Thens \cup Resumes \cup Results \cup Others

EmitOf(type, k) == [do |-> "emit", type |-> type, task |-> k]
Row == [do |-> "save"]
Look == [do |-> "pause?"]

\* A script and the effects it has.
Has(s, effects) == s \in Seq(Effect) /\ s # <<>> /\ Range(s) = effects

LEMMA One ==
  ASSUME NEW S, NEW a \in S
  PROVE  <<a>> \in Seq(S) /\ <<a>> # <<>> /\ Len(<<a>>) = 1 /\ Head(<<a>>) = a
         /\ Range(<<a>>) = {a} /\ Tail(<<a>>) = <<>>
<1>1. <<a>> \in Seq(S) /\ <<a>> # <<>> /\ Len(<<a>>) = 1 /\ Head(<<a>>) = a
      /\ Tail(<<a>>) = <<>> /\ <<a>>[1] = a
  OBVIOUS
<1>2. Range(<<a>>) = {<<a>>[i] : i \in 1 .. Len(<<a>>)}
  BY <1>1, RangeEquality
<1> QED
  BY <1>1, <1>2

LEMMA Two ==
  ASSUME NEW S, NEW a \in S, NEW b \in S
  PROVE  <<a, b>> \in Seq(S) /\ <<a, b>> # <<>> /\ Head(<<a, b>>) = a
         /\ Range(<<a, b>>) = {a, b}
<1>1. <<a, b>> \in Seq(S) /\ <<a, b>> # <<>> /\ Len(<<a, b>>) = 2
      /\ Head(<<a, b>>) = a /\ <<a, b>>[1] = a /\ <<a, b>>[2] = b
  OBVIOUS
<1>2. Range(<<a, b>>) = {<<a, b>>[i] : i \in 1 .. Len(<<a, b>>)}
  BY <1>1, RangeEquality
<1>3. 1 .. 2 = {1, 2}
  OBVIOUS
<1> QED
  BY <1>1, <1>2, <1>3

LEMMA Shorter ==
  ASSUME NEW S, NEW s \in Seq(S), s # <<>>
  PROVE  /\ Tail(s) \in Seq(S) /\ Range(Tail(s)) \subseteq Range(s)
         /\ Head(s) \in Range(s) /\ Head(s) \in S
         /\ Range(s) = {Head(s)} \cup Range(Tail(s))
         /\ Len(s) = 1 <=> Tail(s) = <<>>
<1>1. /\ Len(s) \in Nat /\ Len(s) >= 1 /\ Head(s) \in S /\ Tail(s) \in Seq(S)
      /\ Len(Tail(s)) = Len(s) - 1
      /\ \A i \in 1 .. Len(Tail(s)) : Tail(s)[i] = s[i + 1]
      /\ Head(s) = s[1]
  BY HeadTailProperties
<1>2. /\ Range(s) = {s[i] : i \in 1 .. Len(s)}
      /\ Range(Tail(s)) = {Tail(s)[i] : i \in 1 .. Len(Tail(s))}
  BY <1>1, RangeEquality, ZenonT(60)
<1>3. Head(s) \in Range(s)
  BY <1>1, <1>2
<1>4. ASSUME NEW e \in Range(Tail(s)) PROVE e \in Range(s)
  <2>1. PICK i \in 1 .. Len(Tail(s)) : e = Tail(s)[i]
    BY <1>2
  <2>2. i + 1 \in 1 .. Len(s) /\ e = s[i + 1]
    BY <1>1, <2>1
  <2> QED
    BY <1>2, <2>2
<1>5. ASSUME NEW e \in Range(s), e # Head(s) PROVE e \in Range(Tail(s))
  <2>1. PICK i \in 1 .. Len(s) : e = s[i]
    BY <1>2
  <2>2. i - 1 \in 1 .. Len(Tail(s)) /\ e = Tail(s)[i - 1]
    BY <1>1, <1>5, <2>1
  <2> QED
    BY <1>2, <2>2
<1>6. Len(s) = 1 <=> Tail(s) = <<>>
  BY <1>1
<1> QED
  BY <1>1, <1>3, <1>4, <1>5, <1>6

\* Scripts are put together.
LEMMA Together ==
  ASSUME NEW s, NEW E, Has(s, E), NEW r, NEW F, Has(r, F)
  PROVE  Has(s \o r, E \cup F) /\ Head(s \o r) = Head(s)
<1>1. s \o r \in Seq(Effect) /\ s \o r # <<>> /\ Head(s \o r) = Head(s)
  BY ConcatProperties DEF Has
<1>2. Range(s \o r) = E \cup F
  BY RangeConcatenation DEF Has
<1> QED
  BY <1>1, <1>2 DEF Has

LEMMA Single ==
  ASSUME NEW e \in Effect
  PROVE  Has(<<e>>, {e}) /\ Head(<<e>>) = e
BY One DEF Has

LEMMA Pair ==
  ASSUME NEW e \in Effect, NEW f \in Effect
  PROVE  Has(<<e, f>>, {e, f}) /\ Head(<<e, f>>) = e
BY Two DEF Has

LEMMA Others1 ==
  /\ Row \in Effect /\ Look \in Effect /\ Fallible \in Effect /\ Leave \in Effect
  /\ [do |-> "plan"] \in Effect /\ [do |-> "dispatch"] \in Effect
BY DEF Effect, Others, Row, Look, Fallible, Leave

LEMMA SetTyped ==
  /\ \A n \in Aims : Set("node", n) \in Effect
  /\ \A v \in RunStatus : Set("status", v) \in Effect
  /\ \A k \in 1..Jobs : Set("current", k) \in Effect
BY DEF Effect, NodeSets, StatusSets, Choices, Set

LEMMA PublishHas ==
  ASSUME NEW type \in EventTypes, NEW k \in 0..Jobs
  PROVE  Has(Publish(type, k), {EmitOf(type, k), Row})
         /\ Head(Publish(type, k)) = EmitOf(type, k)
<1>1. EmitOf(type, k) \in Effect
  BY DEF Effect, Emits, EmitOf
<1>2. Publish(type, k) = <<EmitOf(type, k), Row>>
  BY DEF Publish, EmitOf, Row
<1> QED
  BY <1>1, <1>2, Others1, Pair

LEMMA GotoHas ==
  ASSUME NEW n \in Aims
  PROVE  Has(Goto(n), {Set("node", n), Look}) /\ Head(Goto(n)) = Set("node", n)
<1>1. Goto(n) = <<Set("node", n), Look>>
  BY DEF Goto, Look
<1> QED
  BY <1>1, Others1, SetTyped, Pair

-----------------------------------------------------------------------------
(* What each handler does.                                                 *)

StateOK ==
  /\ state \in [node : Nodes, status : RunStatus, current : 0..Jobs,
                plan : Nat, tasks : {<<>>} \cup [1..Jobs -> TaskRecord]]
  /\ granted \subseteq Gated

Planned == state.tasks \in [1..Jobs -> TaskRecord]

LEMMA PutTyped ==
  ASSUME StateOK, NEW k \in 1..Jobs
  PROVE  /\ \A v \in TaskStatus : Put(k, "status", v) \in Effect
         /\ \A v \in ToolOutcomes : Put(k, "result", v) \in Effect
BY DEF StateOK, Put, Effect, StatusPuts, ResultPuts

FailureEffects ==
  {Set("status", "failed"), EmitOf("OBJECTIVE_FAILED", 0), Row, Set("node", "END"), Look}

LEMMA FailureHas ==
  ASSUME NEW s \in Failure
  PROVE  /\ Has(s, FailureEffects)
              \/ Has(s, FailureEffects \cup {EmitOf("MEMORY_STORED", 0)})
         /\ Head(s) = Set("status", "failed")
<1> DEFINE a == <<Set("status", "failed")>>
           b == a \o Publish("OBJECTIVE_FAILED", 0)
<1>1. Has(a, {Set("status", "failed")}) /\ Head(a) = Set("status", "failed")
  <2>1. Set("status", "failed") \in Effect
    BY SetTyped DEF RunStatus, Closing
  <2> QED
    BY <2>1, Single
<1>2. 0 \in 0..Jobs
  BY ServiceAssumption
<1>3. /\ "OBJECTIVE_FAILED" \in EventTypes /\ "MEMORY_STORED" \in EventTypes
      /\ "END" \in Aims
  BY DEF EventTypes, Verdicts, Aims, Nodes
<1>4. /\ Has(b, {Set("status", "failed")} \cup {EmitOf("OBJECTIVE_FAILED", 0), Row})
      /\ Head(b) = Set("status", "failed")
  BY <1>1, <1>2, <1>3, PublishHas, Together
<1>5. Has(Goto("END"), {Set("node", "END"), Look})
  BY <1>3, GotoHas
<1> HIDE DEF a, b
<1>6. PICK noted \in Noted : s = (b \o noted) \o Goto("END")
  BY DEF Failure, a, b
<1>7. CASE noted = <<>>
  <2>1. b \o noted = b
    BY <1>4, <1>7, ConcatEmptySeq DEF Has
  <2>2. Has(s, ({Set("status", "failed")} \cup {EmitOf("OBJECTIVE_FAILED", 0), Row})
                 \cup {Set("node", "END"), Look})
        /\ Head(s) = Set("status", "failed")
    BY <1>4, <1>5, <1>6, <2>1, Together
  <2>3. ({Set("status", "failed")} \cup {EmitOf("OBJECTIVE_FAILED", 0), Row})
                 \cup {Set("node", "END"), Look} = FailureEffects
    BY DEF FailureEffects
  <2> QED
    BY <2>2, <2>3
<1>8. CASE noted = Publish("MEMORY_STORED", 0)
  <2>1. Has(noted, {EmitOf("MEMORY_STORED", 0), Row})
    BY <1>2, <1>3, <1>8, PublishHas
  <2>2. /\ Has(b \o noted, ({Set("status", "failed")} \cup {EmitOf("OBJECTIVE_FAILED", 0), Row})
                 \cup {EmitOf("MEMORY_STORED", 0), Row})
        /\ Head(b \o noted) = Set("status", "failed")
    BY <1>4, <2>1, Together
  <2>3. /\ Has(s, (({Set("status", "failed")} \cup {EmitOf("OBJECTIVE_FAILED", 0), Row})
                     \cup {EmitOf("MEMORY_STORED", 0), Row})
                   \cup {Set("node", "END"), Look})
        /\ Head(s) = Set("status", "failed")
    BY <1>5, <1>6, <2>2, Together
  <2>4. (({Set("status", "failed")} \cup {EmitOf("OBJECTIVE_FAILED", 0), Row})
                     \cup {EmitOf("MEMORY_STORED", 0), Row})
                   \cup {Set("node", "END"), Look}
          = FailureEffects \cup {EmitOf("MEMORY_STORED", 0)}
    BY DEF FailureEffects
  <2> QED
    BY <2>3, <2>4
<1> QED
  BY <1>6, <1>7, <1>8 DEF Noted

PlanEffects ==
  {Fallible, [do |-> "plan"], EmitOf("PLAN_CREATED", 0), Row,
   Set("node", "SELECT_NEXT"), Look}

LEMMA CreatePlanHas == Has(CreatePlan, PlanEffects) /\ Head(CreatePlan) = Fallible
<1>1. /\ 0 \in 0..Jobs /\ "PLAN_CREATED" \in EventTypes /\ "SELECT_NEXT" \in Aims
  BY ServiceAssumption DEF EventTypes, Aims, Nodes
<1> DEFINE a == <<Fallible, [do |-> "plan"]>>
           b == a \o Publish("PLAN_CREATED", 0)
           c == b \o <<Fallible>>
<1>2. Has(a, {Fallible, [do |-> "plan"]}) /\ Head(a) = Fallible
  BY Others1, Pair
<1>3. /\ Has(b, {Fallible, [do |-> "plan"]} \cup {EmitOf("PLAN_CREATED", 0), Row})
      /\ Head(b) = Fallible
  BY <1>1, <1>2, PublishHas, Together
<1>4. Has(<<Fallible>>, {Fallible})
  BY Others1, Single
<1>5. Has(c, ({Fallible, [do |-> "plan"]} \cup {EmitOf("PLAN_CREATED", 0), Row})
             \cup {Fallible}) /\ Head(c) = Fallible
  BY <1>3, <1>4, Together
<1>6. Has(Goto("SELECT_NEXT"), {Set("node", "SELECT_NEXT"), Look})
  BY <1>1, GotoHas
<1>7. CreatePlan = c \o Goto("SELECT_NEXT")
  BY DEF CreatePlan
<1> HIDE DEF a, b, c
<1>8. /\ Has(CreatePlan, (({Fallible, [do |-> "plan"]} \cup {EmitOf("PLAN_CREATED", 0), Row})
                           \cup {Fallible}) \cup {Set("node", "SELECT_NEXT"), Look})
      /\ Head(CreatePlan) = Fallible
  BY <1>5, <1>6, <1>7, Together
<1>9. (({Fallible, [do |-> "plan"]} \cup {EmitOf("PLAN_CREATED", 0), Row})
         \cup {Fallible}) \cup {Set("node", "SELECT_NEXT"), Look} = PlanEffects
  BY DEF PlanEffects
<1> QED
  BY <1>8, <1>9

TakeEffects(k) ==
  {Set("current", k), Put(k, "status", "running"), EmitOf("TASK_STARTED", k), Row,
   Set("node", "EXECUTE"), Look}

LEMMA TakeHas ==
  ASSUME StateOK, NEW k \in 1..Jobs
  PROVE  Has(Take(k), TakeEffects(k)) /\ Head(Take(k)) = Set("current", k)
<1>1. k \in 0..Jobs /\ "TASK_STARTED" \in EventTypes /\ "EXECUTE" \in Aims
      /\ "running" \in TaskStatus
  BY DEF EventTypes, Aims, Nodes, TaskStatus
<1> DEFINE a == <<Set("current", k), Put(k, "status", "running")>>
           b == a \o Publish("TASK_STARTED", k)
<1>2. /\ Has(a, {Set("current", k), Put(k, "status", "running")})
      /\ Head(a) = Set("current", k)
  BY <1>1, SetTyped, PutTyped, Pair
<1>3. /\ Has(b, {Set("current", k), Put(k, "status", "running")}
                  \cup {EmitOf("TASK_STARTED", k), Row})
      /\ Head(b) = Set("current", k)
  BY <1>1, <1>2, PublishHas, Together
<1>4. Has(Goto("EXECUTE"), {Set("node", "EXECUTE"), Look})
  BY <1>1, GotoHas
<1>5. Take(k) = b \o Goto("EXECUTE")
  BY DEF Take
<1> HIDE DEF a, b
<1>6. /\ Has(Take(k), ({Set("current", k), Put(k, "status", "running")}
                        \cup {EmitOf("TASK_STARTED", k), Row})
                      \cup {Set("node", "EXECUTE"), Look})
      /\ Head(Take(k)) = Set("current", k)
  <2> DEFINE E == {Set("current", k), Put(k, "status", "running")}
                    \cup {EmitOf("TASK_STARTED", k), Row}
             F == {Set("node", "EXECUTE"), Look}
  <2>1. Has(b, E) /\ Has(Goto("EXECUTE"), F) /\ Head(b) = Set("current", k)
    BY <1>3, <1>4
  <2> HIDE DEF E, F
  <2>2. Has(b \o Goto("EXECUTE"), E \cup F) /\ Head(b \o Goto("EXECUTE")) = Set("current", k)
    BY <2>1, Together
  <2>3. Has(Take(k), E \cup F) /\ Head(Take(k)) = Set("current", k)
    BY <1>5, <2>2
  <2> QED
    BY <2>3 DEF E, F
<1>7. ({Set("current", k), Put(k, "status", "running")}
         \cup {EmitOf("TASK_STARTED", k), Row})
        \cup {Set("node", "EXECUTE"), Look} = TakeEffects(k)
  BY DEF TakeEffects
<1> QED
  BY <1>6, <1>7

IdleEffects(status) == {Set("status", status), Set("node", "STORE_MEMORY"), Look}

\* Either all is done, or nothing is ready, or the first ready task is taken.
LEMMA SelectNextHas ==
  ASSUME StateOK, NEW s \in SelectNext
  PROVE  \/ Has(s, {Set("node", "VERIFY"), Look})
         \/ Has(s, IdleEffects("failed")) \/ Has(s, IdleEffects("blocked"))
         \/ /\ Planned
            /\ \E k \in Pick : /\ k \in 1..Jobs /\ Head(s) = Set("current", k)
                               /\ s = Take(k) /\ Has(s, TakeEffects(k))
<1>1. "VERIFY" \in Aims /\ "STORE_MEMORY" \in Aims
  BY DEF Aims, Nodes
<1>2. CASE Completed
  <2>1. s = Goto("VERIFY")
    BY <1>2 DEF SelectNext
  <2> QED
    BY <1>1, <2>1, GotoHas
<1>3. CASE ~Completed /\ Pick = {}
  <2>1. PICK v \in {"failed", "blocked"} : s = <<Set("status", v)>> \o Goto("STORE_MEMORY")
    BY <1>3 DEF SelectNext
  <2>2. v \in RunStatus
    BY DEF RunStatus, Closing
  <2>3. Has(<<Set("status", v)>>, {Set("status", v)})
    BY <2>2, SetTyped, Single
  <2>4. Has(s, {Set("status", v)} \cup {Set("node", "STORE_MEMORY"), Look})
    BY <1>1, <2>1, <2>3, GotoHas, Together
  <2>5. {Set("status", v)} \cup {Set("node", "STORE_MEMORY"), Look} = IdleEffects(v)
    BY DEF IdleEffects
  <2> QED
    BY <2>1, <2>4, <2>5
<1>4. CASE ~Completed /\ Pick # {}
  <2>1. PICK k \in Pick : s = Take(k)
    BY <1>4 DEF SelectNext
  <2>2. k \in DOMAIN state.tasks
    BY DEF Pick
  <2>3. Planned
    BY <2>2 DEF StateOK, Planned
  <2>4. k \in 1..Jobs
    BY <2>2, <2>3 DEF Planned
  <2> QED
    BY <2>1, <2>3, <2>4, TakeHas
<1> QED
  BY <1>2, <1>3, <1>4

\* The scripts of the other handlers.
Done(k) ==
  <<Put(k, "status", "completed"), Fallible>> \o Publish("TASK_COMPLETED", k)
    \o Goto("SELECT_NEXT")
ToDecide == <<Fallible>> \o Goto("DECIDE")
Judged(v) ==
  Publish("VERIFICATION_COMPLETED", 0) \o <<Set("status", v)>> \o Goto("STORE_MEMORY")
Said(type) == Publish(type, 0) \o Goto("END")
Begin == Publish("LOG", 0) \o <<Fallible>> \o Goto("CREATE_PLAN")
Check == Publish("VERIFICATION_STARTED", 0) \o <<Then("JUDGE")>>
Remember == <<Fallible>> \o Publish("MEMORY_STORED", 0) \o <<Then("ANNOUNCE")>>
Late == <<Set("status", "failed"), Leave>>

RequestEffects(k) ==
  {EmitOf("APPROVAL_REQUIRED", k), Row, Set("status", "awaiting_approval"),
   Set("node", "EXECUTE"), Look}

LEMMA RequestHas ==
  ASSUME NEW k \in 1..Jobs
  PROVE  Has(Request(k), RequestEffects(k)) /\ Head(Request(k)) = EmitOf("APPROVAL_REQUIRED", k)
<1>1. /\ k \in 0..Jobs
      /\ "APPROVAL_REQUIRED" \in EventTypes /\ "EXECUTE" \in Aims
      /\ Set("status", "awaiting_approval") \in Effect
  BY SetTyped DEF EventTypes, Aims, Nodes, RunStatus, Closing
<1>2. Has(Publish("APPROVAL_REQUIRED", k), {EmitOf("APPROVAL_REQUIRED", k), Row}) /\ Head(Publish("APPROVAL_REQUIRED", k)) = EmitOf("APPROVAL_REQUIRED", k)
  BY <1>1, PublishHas
<1>3. Has(<<Set("status", "awaiting_approval")>>, {Set("status", "awaiting_approval")}) /\ Head(<<Set("status", "awaiting_approval")>>) = Set("status", "awaiting_approval")
  BY <1>1, Single
<1>4. Has(Goto("EXECUTE"), {Set("node", "EXECUTE"), Look}) /\ Head(Goto("EXECUTE")) = Set("node", "EXECUTE")
  BY <1>1, GotoHas
<1> DEFINE a == Publish("APPROVAL_REQUIRED", k)
           b == <<Set("status", "awaiting_approval")>>
           c == Goto("EXECUTE")
           A == {EmitOf("APPROVAL_REQUIRED", k), Row}
           B == {Set("status", "awaiting_approval")}
           C == {Set("node", "EXECUTE"), Look}
<1>5. /\ Head(a) = EmitOf("APPROVAL_REQUIRED", k) /\ Has(a, A) /\ Has(b, B) /\ Has(c, C)
  BY <1>2, <1>3, <1>4
<1>6. Request(k) = a \o b \o c
  BY DEF Request
<1>7. A \cup B \cup C = RequestEffects(k)
  BY DEF RequestEffects
<1> HIDE DEF a, b, c, A, B, C
<1>8. Has(a \o b, A \cup B) /\ Head(a \o b) = EmitOf("APPROVAL_REQUIRED", k)
  BY <1>5, Together
<1>9. Has(a \o b \o c, A \cup B \cup C) /\ Head(a \o b \o c) = EmitOf("APPROVAL_REQUIRED", k)
  BY <1>5, <1>8, Together
<1> QED
  BY <1>6, <1>7, <1>9

CallEffects(k, outcome) ==
  {EmitOf("TOOL_STARTED", k), Row, Put(k, "result", outcome),
   EmitOf("TOOL_RETURNED", k), Set("node", "OBSERVE"), Look}

LEMMA CallHas ==
  ASSUME StateOK, NEW k \in 1..Jobs, NEW outcome \in ToolOutcomes
  PROVE  Has(Call(k, outcome), CallEffects(k, outcome)) /\ Head(Call(k, outcome)) = EmitOf("TOOL_STARTED", k)
<1>1. /\ k \in 0..Jobs
      /\ "TOOL_STARTED" \in EventTypes /\ "TOOL_RETURNED" \in EventTypes
      /\ "OBSERVE" \in Aims /\ Put(k, "result", outcome) \in Effect
  BY PutTyped DEF EventTypes, Aims, Nodes
<1>2. Has(Publish("TOOL_STARTED", k), {EmitOf("TOOL_STARTED", k), Row}) /\ Head(Publish("TOOL_STARTED", k)) = EmitOf("TOOL_STARTED", k)
  BY <1>1, PublishHas
<1>3. Has(<<Put(k, "result", outcome)>>, {Put(k, "result", outcome)}) /\ Head(<<Put(k, "result", outcome)>>) = Put(k, "result", outcome)
  BY <1>1, Single
<1>4. Has(Publish("TOOL_RETURNED", k), {EmitOf("TOOL_RETURNED", k), Row}) /\ Head(Publish("TOOL_RETURNED", k)) = EmitOf("TOOL_RETURNED", k)
  BY <1>1, PublishHas
<1>5. Has(Goto("OBSERVE"), {Set("node", "OBSERVE"), Look}) /\ Head(Goto("OBSERVE")) = Set("node", "OBSERVE")
  BY <1>1, GotoHas
<1> DEFINE a == Publish("TOOL_STARTED", k)
           b == <<Put(k, "result", outcome)>>
           c == Publish("TOOL_RETURNED", k)
           d == Goto("OBSERVE")
           A == {EmitOf("TOOL_STARTED", k), Row}
           B == {Put(k, "result", outcome)}
           C == {EmitOf("TOOL_RETURNED", k), Row}
           D == {Set("node", "OBSERVE"), Look}
<1>6. /\ Head(a) = EmitOf("TOOL_STARTED", k) /\ Has(a, A) /\ Has(b, B) /\ Has(c, C) /\ Has(d, D)
  BY <1>2, <1>3, <1>4, <1>5
<1>7. Call(k, outcome) = a \o b \o c \o d
  BY DEF Call
<1>8. A \cup B \cup C \cup D = CallEffects(k, outcome)
  BY DEF CallEffects
<1> HIDE DEF a, b, c, d, A, B, C, D
<1>9. Has(a \o b, A \cup B) /\ Head(a \o b) = EmitOf("TOOL_STARTED", k)
  BY <1>6, Together
<1>10. Has(a \o b \o c, A \cup B \cup C) /\ Head(a \o b \o c) = EmitOf("TOOL_STARTED", k)
  BY <1>6, <1>9, Together
<1>11. Has(a \o b \o c \o d, A \cup B \cup C \cup D) /\ Head(a \o b \o c \o d) = EmitOf("TOOL_STARTED", k)
  BY <1>6, <1>10, Together
<1> QED
  BY <1>7, <1>8, <1>11

DoneEffects(k) ==
  {Put(k, "status", "completed"), Fallible, EmitOf("TASK_COMPLETED", k), Row,
   Set("node", "SELECT_NEXT"), Look}

LEMMA DoneHas ==
  ASSUME StateOK, NEW k \in 1..Jobs
  PROVE  Has(Done(k), DoneEffects(k)) /\ Head(Done(k)) = Put(k, "status", "completed")
<1>1. /\ k \in 0..Jobs /\ "TASK_COMPLETED" \in EventTypes /\ "SELECT_NEXT" \in Aims
      /\ Put(k, "status", "completed") \in Effect /\ Fallible \in Effect
  BY PutTyped, Others1 DEF EventTypes, Aims, Nodes, TaskStatus
<1>2. Has(<<Put(k, "status", "completed"), Fallible>>, {Put(k, "status", "completed"), Fallible}) /\ Head(<<Put(k, "status", "completed"), Fallible>>) = Put(k, "status", "completed")
  BY <1>1, Pair
<1>3. Has(Publish("TASK_COMPLETED", k), {EmitOf("TASK_COMPLETED", k), Row}) /\ Head(Publish("TASK_COMPLETED", k)) = EmitOf("TASK_COMPLETED", k)
  BY <1>1, PublishHas
<1>4. Has(Goto("SELECT_NEXT"), {Set("node", "SELECT_NEXT"), Look}) /\ Head(Goto("SELECT_NEXT")) = Set("node", "SELECT_NEXT")
  BY <1>1, GotoHas
<1> DEFINE a == <<Put(k, "status", "completed"), Fallible>>
           b == Publish("TASK_COMPLETED", k)
           c == Goto("SELECT_NEXT")
           A == {Put(k, "status", "completed"), Fallible}
           B == {EmitOf("TASK_COMPLETED", k), Row}
           C == {Set("node", "SELECT_NEXT"), Look}
<1>5. /\ Head(a) = Put(k, "status", "completed") /\ Has(a, A) /\ Has(b, B) /\ Has(c, C)
  BY <1>2, <1>3, <1>4
<1>6. Done(k) = a \o b \o c
  BY DEF Done
<1>7. A \cup B \cup C = DoneEffects(k)
  BY DEF DoneEffects
<1> HIDE DEF a, b, c, A, B, C
<1>8. Has(a \o b, A \cup B) /\ Head(a \o b) = Put(k, "status", "completed")
  BY <1>5, Together
<1>9. Has(a \o b \o c, A \cup B \cup C) /\ Head(a \o b \o c) = Put(k, "status", "completed")
  BY <1>5, <1>8, Together
<1> QED
  BY <1>6, <1>7, <1>9

DecideEffects ==
  {Fallible, Set("node", "DECIDE"), Look}

LEMMA ToDecideHas ==
  Has(ToDecide, DecideEffects) /\ Head(ToDecide) = Fallible
<1>1. Fallible \in Effect /\ "DECIDE" \in Aims
  BY Others1 DEF Aims, Nodes
<1>2. Has(<<Fallible>>, {Fallible}) /\ Head(<<Fallible>>) = Fallible
  BY <1>1, Single
<1>3. Has(Goto("DECIDE"), {Set("node", "DECIDE"), Look}) /\ Head(Goto("DECIDE")) = Set("node", "DECIDE")
  BY <1>1, GotoHas
<1> DEFINE a == <<Fallible>>
           b == Goto("DECIDE")
           A == {Fallible}
           B == {Set("node", "DECIDE"), Look}
<1>4. /\ Head(a) = Fallible /\ Has(a, A) /\ Has(b, B)
  BY <1>2, <1>3
<1>5. ToDecide = a \o b
  BY DEF ToDecide
<1>6. A \cup B = DecideEffects
  BY DEF DecideEffects
<1> HIDE DEF a, b, A, B
<1>7. Has(a \o b, A \cup B) /\ Head(a \o b) = Fallible
  BY <1>4, Together
<1> QED
  BY <1>5, <1>6, <1>7

AbortEffects(k) ==
  {EmitOf("RECOVERY_STARTED", k), Row, Put(k, "status", "failed"),
   Set("status", "failed"), EmitOf("TASK_FAILED", k), Set("node", "STORE_MEMORY"), Look}

LEMMA AbortHas ==
  ASSUME StateOK, state.current \in 1..Jobs
  PROVE  Has(Abort, AbortEffects(state.current)) /\ Head(Abort) = EmitOf("RECOVERY_STARTED", state.current)
<1>1. /\ state.current \in 0..Jobs
      /\ "RECOVERY_STARTED" \in EventTypes /\ "TASK_FAILED" \in EventTypes
      /\ "STORE_MEMORY" \in Aims /\ Put(state.current, "status", "failed") \in Effect
      /\ Set("status", "failed") \in Effect
  BY PutTyped, SetTyped DEF EventTypes, Aims, Nodes, TaskStatus, RunStatus, Closing
<1>2. Has(Publish("RECOVERY_STARTED", state.current), {EmitOf("RECOVERY_STARTED", state.current), Row}) /\ Head(Publish("RECOVERY_STARTED", state.current)) = EmitOf("RECOVERY_STARTED", state.current)
  BY <1>1, PublishHas
<1>3. Has(<<Put(state.current, "status", "failed"), Set("status", "failed")>>, {Put(state.current, "status", "failed"), Set("status", "failed")}) /\ Head(<<Put(state.current, "status", "failed"), Set("status", "failed")>>) = Put(state.current, "status", "failed")
  BY <1>1, Pair
<1>4. Has(Publish("TASK_FAILED", state.current), {EmitOf("TASK_FAILED", state.current), Row}) /\ Head(Publish("TASK_FAILED", state.current)) = EmitOf("TASK_FAILED", state.current)
  BY <1>1, PublishHas
<1>5. Has(Goto("STORE_MEMORY"), {Set("node", "STORE_MEMORY"), Look}) /\ Head(Goto("STORE_MEMORY")) = Set("node", "STORE_MEMORY")
  BY <1>1, GotoHas
<1> DEFINE a == Publish("RECOVERY_STARTED", state.current)
           b == <<Put(state.current, "status", "failed"), Set("status", "failed")>>
           c == Publish("TASK_FAILED", state.current)
           d == Goto("STORE_MEMORY")
           A == {EmitOf("RECOVERY_STARTED", state.current), Row}
           B == {Put(state.current, "status", "failed"), Set("status", "failed")}
           C == {EmitOf("TASK_FAILED", state.current), Row}
           D == {Set("node", "STORE_MEMORY"), Look}
<1>6. /\ Head(a) = EmitOf("RECOVERY_STARTED", state.current) /\ Has(a, A) /\ Has(b, B) /\ Has(c, C) /\ Has(d, D)
  BY <1>2, <1>3, <1>4, <1>5
<1>7. Abort = a \o b \o c \o d
  BY DEF Abort
<1>8. A \cup B \cup C \cup D = AbortEffects(state.current)
  BY DEF AbortEffects
<1> HIDE DEF a, b, c, d, A, B, C, D
<1>9. Has(a \o b, A \cup B) /\ Head(a \o b) = EmitOf("RECOVERY_STARTED", state.current)
  BY <1>6, Together
<1>10. Has(a \o b \o c, A \cup B \cup C) /\ Head(a \o b \o c) = EmitOf("RECOVERY_STARTED", state.current)
  BY <1>6, <1>9, Together
<1>11. Has(a \o b \o c \o d, A \cup B \cup C \cup D) /\ Head(a \o b \o c \o d) = EmitOf("RECOVERY_STARTED", state.current)
  BY <1>6, <1>10, Together
<1> QED
  BY <1>7, <1>8, <1>11

JudgeEffects(v) ==
  {EmitOf("VERIFICATION_COMPLETED", 0), Row, Set("status", v),
   Set("node", "STORE_MEMORY"), Look}

LEMMA JudgedHas ==
  ASSUME NEW v \in {"completed", "failed"}
  PROVE  Has(Judged(v), JudgeEffects(v)) /\ Head(Judged(v)) = EmitOf("VERIFICATION_COMPLETED", 0)
<1>1. /\ 0 \in 0..Jobs /\ "VERIFICATION_COMPLETED" \in EventTypes
      /\ "STORE_MEMORY" \in Aims /\ Set("status", v) \in Effect
  BY ServiceAssumption, SetTyped DEF EventTypes, Aims, Nodes, RunStatus, Closing
<1>2. Has(Publish("VERIFICATION_COMPLETED", 0), {EmitOf("VERIFICATION_COMPLETED", 0), Row}) /\ Head(Publish("VERIFICATION_COMPLETED", 0)) = EmitOf("VERIFICATION_COMPLETED", 0)
  BY <1>1, PublishHas
<1>3. Has(<<Set("status", v)>>, {Set("status", v)}) /\ Head(<<Set("status", v)>>) = Set("status", v)
  BY <1>1, Single
<1>4. Has(Goto("STORE_MEMORY"), {Set("node", "STORE_MEMORY"), Look}) /\ Head(Goto("STORE_MEMORY")) = Set("node", "STORE_MEMORY")
  BY <1>1, GotoHas
<1> DEFINE a == Publish("VERIFICATION_COMPLETED", 0)
           b == <<Set("status", v)>>
           c == Goto("STORE_MEMORY")
           A == {EmitOf("VERIFICATION_COMPLETED", 0), Row}
           B == {Set("status", v)}
           C == {Set("node", "STORE_MEMORY"), Look}
<1>5. /\ Head(a) = EmitOf("VERIFICATION_COMPLETED", 0) /\ Has(a, A) /\ Has(b, B) /\ Has(c, C)
  BY <1>2, <1>3, <1>4
<1>6. Judged(v) = a \o b \o c
  BY DEF Judged
<1>7. A \cup B \cup C = JudgeEffects(v)
  BY DEF JudgeEffects
<1> HIDE DEF a, b, c, A, B, C
<1>8. Has(a \o b, A \cup B) /\ Head(a \o b) = EmitOf("VERIFICATION_COMPLETED", 0)
  BY <1>5, Together
<1>9. Has(a \o b \o c, A \cup B \cup C) /\ Head(a \o b \o c) = EmitOf("VERIFICATION_COMPLETED", 0)
  BY <1>5, <1>8, Together
<1> QED
  BY <1>6, <1>7, <1>9

SaidEffects(type) ==
  {EmitOf(type, 0), Row, Set("node", "END"), Look}

LEMMA SaidHas ==
  ASSUME NEW type \in Verdicts
  PROVE  Has(Said(type), SaidEffects(type)) /\ Head(Said(type)) = EmitOf(type, 0)
<1>1. /\ 0 \in 0..Jobs /\ type \in EventTypes /\ "END" \in Aims
  BY ServiceAssumption DEF EventTypes, Aims, Nodes
<1>2. Has(Publish(type, 0), {EmitOf(type, 0), Row}) /\ Head(Publish(type, 0)) = EmitOf(type, 0)
  BY <1>1, PublishHas
<1>3. Has(Goto("END"), {Set("node", "END"), Look}) /\ Head(Goto("END")) = Set("node", "END")
  BY <1>1, GotoHas
<1> DEFINE a == Publish(type, 0)
           b == Goto("END")
           A == {EmitOf(type, 0), Row}
           B == {Set("node", "END"), Look}
<1>4. /\ Head(a) = EmitOf(type, 0) /\ Has(a, A) /\ Has(b, B)
  BY <1>2, <1>3
<1>5. Said(type) = a \o b
  BY DEF Said
<1>6. A \cup B = SaidEffects(type)
  BY DEF SaidEffects
<1> HIDE DEF a, b, A, B
<1>7. Has(a \o b, A \cup B) /\ Head(a \o b) = EmitOf(type, 0)
  BY <1>4, Together
<1> QED
  BY <1>5, <1>6, <1>7

BeginEffects ==
  {EmitOf("LOG", 0), Row, Fallible, Set("node", "CREATE_PLAN"), Look}

LEMMA BeginHas ==
  Has(Begin, BeginEffects) /\ Head(Begin) = EmitOf("LOG", 0)
<1>1. /\ 0 \in 0..Jobs /\ "LOG" \in EventTypes
      /\ "CREATE_PLAN" \in Aims /\ Fallible \in Effect
  BY ServiceAssumption, Others1 DEF EventTypes, Aims, Nodes
<1>2. Has(Publish("LOG", 0), {EmitOf("LOG", 0), Row}) /\ Head(Publish("LOG", 0)) = EmitOf("LOG", 0)
  BY <1>1, PublishHas
<1>3. Has(<<Fallible>>, {Fallible}) /\ Head(<<Fallible>>) = Fallible
  BY <1>1, Single
<1>4. Has(Goto("CREATE_PLAN"), {Set("node", "CREATE_PLAN"), Look}) /\ Head(Goto("CREATE_PLAN")) = Set("node", "CREATE_PLAN")
  BY <1>1, GotoHas
<1> DEFINE a == Publish("LOG", 0)
           b == <<Fallible>>
           c == Goto("CREATE_PLAN")
           A == {EmitOf("LOG", 0), Row}
           B == {Fallible}
           C == {Set("node", "CREATE_PLAN"), Look}
<1>5. /\ Head(a) = EmitOf("LOG", 0) /\ Has(a, A) /\ Has(b, B) /\ Has(c, C)
  BY <1>2, <1>3, <1>4
<1>6. Begin = a \o b \o c
  BY DEF Begin
<1>7. A \cup B \cup C = BeginEffects
  BY DEF BeginEffects
<1> HIDE DEF a, b, c, A, B, C
<1>8. Has(a \o b, A \cup B) /\ Head(a \o b) = EmitOf("LOG", 0)
  BY <1>5, Together
<1>9. Has(a \o b \o c, A \cup B \cup C) /\ Head(a \o b \o c) = EmitOf("LOG", 0)
  BY <1>5, <1>8, Together
<1> QED
  BY <1>6, <1>7, <1>9

CheckEffects ==
  {EmitOf("VERIFICATION_STARTED", 0), Row, Then("JUDGE")}

LEMMA CheckHas ==
  Has(Check, CheckEffects) /\ Head(Check) = EmitOf("VERIFICATION_STARTED", 0)
<1>1. /\ 0 \in 0..Jobs /\ "VERIFICATION_STARTED" \in EventTypes
      /\ Then("JUDGE") \in Effect
  BY ServiceAssumption DEF EventTypes, Then, Effect, Thens
<1>2. Has(Publish("VERIFICATION_STARTED", 0), {EmitOf("VERIFICATION_STARTED", 0), Row}) /\ Head(Publish("VERIFICATION_STARTED", 0)) = EmitOf("VERIFICATION_STARTED", 0)
  BY <1>1, PublishHas
<1>3. Has(<<Then("JUDGE")>>, {Then("JUDGE")}) /\ Head(<<Then("JUDGE")>>) = Then("JUDGE")
  BY <1>1, Single
<1> DEFINE a == Publish("VERIFICATION_STARTED", 0)
           b == <<Then("JUDGE")>>
           A == {EmitOf("VERIFICATION_STARTED", 0), Row}
           B == {Then("JUDGE")}
<1>4. /\ Head(a) = EmitOf("VERIFICATION_STARTED", 0) /\ Has(a, A) /\ Has(b, B)
  BY <1>2, <1>3
<1>5. Check = a \o b
  BY DEF Check
<1>6. A \cup B = CheckEffects
  BY DEF CheckEffects
<1> HIDE DEF a, b, A, B
<1>7. Has(a \o b, A \cup B) /\ Head(a \o b) = EmitOf("VERIFICATION_STARTED", 0)
  BY <1>4, Together
<1> QED
  BY <1>5, <1>6, <1>7

RememberEffects ==
  {Fallible, EmitOf("MEMORY_STORED", 0), Row, Then("ANNOUNCE")}

LEMMA RememberHas ==
  Has(Remember, RememberEffects) /\ Head(Remember) = Fallible
<1>1. /\ 0 \in 0..Jobs /\ "MEMORY_STORED" \in EventTypes
      /\ Then("ANNOUNCE") \in Effect /\ Fallible \in Effect
  BY ServiceAssumption, Others1 DEF EventTypes, Then, Effect, Thens
<1>2. Has(<<Fallible>>, {Fallible}) /\ Head(<<Fallible>>) = Fallible
  BY <1>1, Single
<1>3. Has(Publish("MEMORY_STORED", 0), {EmitOf("MEMORY_STORED", 0), Row}) /\ Head(Publish("MEMORY_STORED", 0)) = EmitOf("MEMORY_STORED", 0)
  BY <1>1, PublishHas
<1>4. Has(<<Then("ANNOUNCE")>>, {Then("ANNOUNCE")}) /\ Head(<<Then("ANNOUNCE")>>) = Then("ANNOUNCE")
  BY <1>1, Single
<1> DEFINE a == <<Fallible>>
           b == Publish("MEMORY_STORED", 0)
           c == <<Then("ANNOUNCE")>>
           A == {Fallible}
           B == {EmitOf("MEMORY_STORED", 0), Row}
           C == {Then("ANNOUNCE")}
<1>5. /\ Head(a) = Fallible /\ Has(a, A) /\ Has(b, B) /\ Has(c, C)
  BY <1>2, <1>3, <1>4
<1>6. Remember = a \o b \o c
  BY DEF Remember
<1>7. A \cup B \cup C = RememberEffects
  BY DEF RememberEffects
<1> HIDE DEF a, b, c, A, B, C
<1>8. Has(a \o b, A \cup B) /\ Head(a \o b) = Fallible
  BY <1>5, Together
<1>9. Has(a \o b \o c, A \cup B \cup C) /\ Head(a \o b \o c) = Fallible
  BY <1>5, <1>8, Together
<1> QED
  BY <1>6, <1>7, <1>9

LateEffects == {Set("status", "failed"), Leave}

LEMMA LateHas == Has(Late, LateEffects) /\ Head(Late) = Set("status", "failed")
<1>1. Set("status", "failed") \in Effect
  BY SetTyped DEF RunStatus, Closing
<1> QED
  BY <1>1, Others1, Pair DEF Late, LateEffects

-----------------------------------------------------------------------------
(* What a script may contain, given the state it was decided in.           *)

Working == {"EXECUTE", "OBSERVE", "DECIDE"}
Handlers == (Nodes \ {"START"}) \cup {"JUDGE", "ANNOUNCE"}
ToWork == [do : {"set"}, field : {"node"}, value : Working]

LEMMA ScriptsAre ==
  /\ Scripts("UNDERSTAND") = {Begin} /\ Scripts("CREATE_PLAN") = {CreatePlan}
  /\ Scripts("SELECT_NEXT") = SelectNext /\ Scripts("EXECUTE") = Execute
  /\ Scripts("OBSERVE") = Observe /\ Scripts("DECIDE") = {Abort}
  /\ Scripts("VERIFY") = {Check} /\ Scripts("JUDGE") = Judge
  /\ Scripts("STORE_MEMORY") = {Remember} /\ Scripts("ANNOUNCE") = {Announce}
  /\ Scripts("END") = {Late}
BY DEF Scripts, Begin, Check, Remember, Late

LEMMA ExecuteHas ==
  ASSUME StateOK, NEW k \in 1..Jobs, k = state.current, NEW s \in Execute
  PROVE  \/ k \in Gated \ granted /\ s = Request(k) /\ Has(s, RequestEffects(k))
         \/ /\ k \notin Gated \ granted
            /\ \E outcome \in ToolOutcomes :
                 s = Call(k, outcome) /\ Has(s, CallEffects(k, outcome))
            /\ Head(s) = EmitOf("TOOL_STARTED", k)
BY RequestHas, CallHas DEF Execute

LEMMA ObserveHas ==
  ASSUME StateOK, Planned, NEW k \in 1..Jobs, k = state.current, NEW s \in Observe
  PROVE  \/ state.tasks[k].result = "none" /\ s \in Failure
         \/ state.tasks[k].result = "ok" /\ Has(s, DoneEffects(k))
         \/ state.tasks[k].result = "fatal" /\ Has(s, DecideEffects)
<1>1. state.tasks[k].result \in {"none", "ok", "fatal"}
  BY ServiceAssumption DEF Planned, TaskRecord
<1>2. CASE state.tasks[k].result = "none"
  BY <1>2 DEF Observe
<1>3. CASE state.tasks[k].result = "ok"
  <2>1. s = Done(k)
    BY <1>3 DEF Observe, Done
  <2> QED
    BY <1>3, <2>1, DoneHas
<1>4. CASE state.tasks[k].result = "fatal"
  <2>1. s = ToDecide
    BY <1>4 DEF Observe, ToDecide
  <2> QED
    BY <1>4, <2>1, ToDecideHas
<1> QED
  BY <1>1, <1>2, <1>3, <1>4

LEMMA JudgeHas ==
  ASSUME NEW s \in Judge
  PROVE  \/ Completed /\ Has(s, JudgeEffects("completed"))
         \/ Has(s, JudgeEffects("failed"))
<1>1. PICK verified \in (IF Completed THEN BOOLEAN ELSE {FALSE}) :
        s = Judged(IF verified THEN "completed" ELSE "failed")
  BY DEF Judge, Judged
<1> QED
  BY <1>1, JudgedHas

LEMMA AnnounceHas ==
  \/ state.status = "completed" /\ Has(Announce, SaidEffects("OBJECTIVE_COMPLETED"))
  \/ state.status = "failed" /\ Has(Announce, SaidEffects("OBJECTIVE_FAILED"))
  \/ /\ state.status \notin {"completed", "failed"}
     /\ Has(Announce, {Set("node", "END"), Look})
<1>1. CASE state.status = "completed"
  <2>1. Announce = Said("OBJECTIVE_COMPLETED")
    BY <1>1 DEF Announce, Said
  <2> QED
    BY <1>1, <2>1, SaidHas DEF Verdicts
<1>2. CASE state.status = "failed"
  <2>1. Announce = Said("OBJECTIVE_FAILED")
    BY <1>2 DEF Announce, Said
  <2> QED
    BY <1>2, <2>1, SaidHas DEF Verdicts
<1>3. CASE state.status \notin {"completed", "failed"}
  <2>1. Announce = <<>> \o Goto("END")
    BY <1>3 DEF Announce
  <2>2. Has(Goto("END"), {Set("node", "END"), Look})
    BY GotoHas DEF Aims, Nodes
  <2>3. <<>> \o Goto("END") = Goto("END")
    BY <2>2, ConcatEmptySeq DEF Has
  <2> QED
    BY <1>3, <2>1, <2>2, <2>3
<1> QED
  BY <1>1, <1>2, <1>3

Finish == Set("node", "END")
MemoryNote == EmitOf("MEMORY_STORED", 0)
VerdictEmits == [do : {"emit"}, type : Verdicts, task : 0..Jobs]

\* What may be left to do once the verdict was published.
Quiet == {Row, MemoryNote, Finish, Look}

\* s publishes verdict e and winds the run up.
Pronounces(s, e) ==
  /\ s # <<>> /\ Head(s) = e /\ Range(Tail(s)) \subseteq Quiet
  /\ Finish \in Range(Tail(s)) /\ Row \in Range(Tail(s))

Judgment == state.status \in {"completed", "failed"}
Agrees(type) == (type = "OBJECTIVE_COMPLETED") <=> (state.status = "completed")

\* A verdict is published at once, or after the status was set to failed.
Announces(s, e) ==
  \/ Judgment /\ Agrees(e.type) /\ Pronounces(s, e)
  \/ /\ e.type = "OBJECTIVE_FAILED" /\ Head(s) = Set("status", "failed")
     /\ Pronounces(Tail(s), e)

LEMMA TailConcat ==
  ASSUME NEW S, NEW r \in Seq(S), NEW s \in Seq(S), r # <<>>
  PROVE  Tail(r \o s) = Tail(r) \o s /\ Head(r \o s) = Head(r) /\ r \o s # <<>>
OBVIOUS

LEMMA Joined ==
  ASSUME NEW r \in Seq(Effect), NEW s \in Seq(Effect), r # <<>>
  PROVE  /\ r \o s \in Seq(Effect) /\ r \o s # <<>>
         /\ Head(r \o s) = Head(r) /\ Tail(r \o s) = Tail(r) \o s
         /\ Range(r \o s) = Range(r) \cup Range(s)
<1>1. Tail(r \o s) = Tail(r) \o s /\ Head(r \o s) = Head(r) /\ r \o s # <<>>
  BY TailConcat
<1>2. r \o s \in Seq(Effect)
  BY ConcatProperties
<1>3. Range(r \o s) = Range(r) \cup Range(s)
  BY RangeConcatenation
<1> QED
  BY <1>1, <1>2, <1>3

LEMMA SaidPronounces ==
  ASSUME NEW type \in Verdicts
  PROVE  Pronounces(Said(type), EmitOf(type, 0))
<1> DEFINE p == Publish(type, 0)
           g == Goto("END")
<1>1. type \in EventTypes /\ 0 \in 0..Jobs /\ "END" \in Aims
  BY ServiceAssumption DEF EventTypes, Aims, Nodes
<1>2. Has(p, {EmitOf(type, 0), Row}) /\ Head(p) = EmitOf(type, 0)
  BY <1>1, PublishHas
<1>3. Has(g, {Finish, Look})
  BY <1>1, GotoHas DEF Finish
<1>4. Tail(p) = <<Row>>
  BY DEF Publish, Row
<1>5. Said(type) = p \o g
  BY DEF Said
<1> HIDE DEF p, g
<1>6. Said(type) # <<>> /\ Head(Said(type)) = EmitOf(type, 0) /\ Tail(Said(type)) = <<Row>> \o g
  <2>1. p \in Seq(Effect) /\ p # <<>> /\ g \in Seq(Effect)
    BY <1>2, <1>3 DEF Has
  <2>2. p \o g # <<>> /\ Head(p \o g) = Head(p) /\ Tail(p \o g) = Tail(p) \o g
    BY <2>1, Joined
  <2> QED
    BY <1>2, <1>4, <1>5, <2>2, Zenon
<1>7. Has(<<Row>> \o g, {Row} \cup {Finish, Look})
  BY <1>3, Others1, Single, Together
<1> QED
  BY <1>6, <1>7 DEF Pronounces, Quiet, Has

LEMMA FailurePronounces ==
  ASSUME NEW s \in Failure
  PROVE  /\ Head(s) = Set("status", "failed")
         /\ Pronounces(Tail(s), EmitOf("OBJECTIVE_FAILED", 0))
<1> DEFINE a == <<Set("status", "failed")>>
           p == Publish("OBJECTIVE_FAILED", 0)
           g == Goto("END")
<1>1. /\ "OBJECTIVE_FAILED" \in EventTypes /\ "MEMORY_STORED" \in EventTypes
      /\ 0 \in 0..Jobs /\ "END" \in Aims /\ "failed" \in RunStatus
  BY ServiceAssumption DEF EventTypes, Verdicts, Aims, Nodes, RunStatus, Closing
<1>2. /\ Has(p, {EmitOf("OBJECTIVE_FAILED", 0), Row}) /\ Head(p) = EmitOf("OBJECTIVE_FAILED", 0)
      /\ Has(g, {Finish, Look})
  BY <1>1, PublishHas, GotoHas DEF Finish
<1>3. Tail(p) = <<Row>> /\ Has(<<Row>>, {Row})
  BY Others1, Single DEF Publish, Row
<1>4. /\ a \in Seq(Effect) /\ a # <<>> /\ Head(a) = Set("status", "failed")
      /\ Tail(a) = <<>>
  BY <1>1, SetTyped, One
<1>5. PICK noted \in Noted : s = ((a \o p) \o noted) \o g
  BY DEF Failure
<1>6. noted \in Seq(Effect) /\ Range(noted) \subseteq {MemoryNote, Row}
  <2>1. CASE noted = <<>>
    <3>1. Range(<<>>) = {} /\ <<>> \in Seq(Effect)
      BY DEF Range
    <3> QED
      BY <2>1, <3>1
  <2>2. CASE noted = Publish("MEMORY_STORED", 0)
    BY <1>1, <2>2, PublishHas DEF Has, MemoryNote
  <2> QED
    BY <2>1, <2>2 DEF Noted
<1> HIDE DEF a, p, g
<1>7. /\ p \in Seq(Effect) /\ p # <<>> /\ g \in Seq(Effect) /\ Range(g) = {Finish, Look}
      /\ <<Row>> \in Seq(Effect) /\ <<Row>> # <<>> /\ Range(<<Row>>) = {Row}
  BY <1>2, <1>3 DEF Has
<1> DEFINE ap == a \o p
           apn == ap \o noted
           pn == p \o noted
           rn == <<Row>> \o noted
<1>8. /\ ap \in Seq(Effect) /\ ap # <<>> /\ Head(ap) = Head(a) /\ Tail(ap) = Tail(a) \o p
      /\ pn \in Seq(Effect) /\ pn # <<>> /\ Head(pn) = Head(p) /\ Tail(pn) = Tail(p) \o noted
      /\ rn \in Seq(Effect) /\ rn # <<>> /\ Range(rn) = Range(<<Row>>) \cup Range(noted)
  BY <1>4, <1>6, <1>7, Joined
<1>9. Tail(ap) = p
  BY <1>4, <1>7, <1>8, ConcatEmptySeq
<1>10. Tail(pn) = rn
  BY <1>3, <1>8
<1> HIDE DEF ap
<1>11. /\ apn \in Seq(Effect) /\ apn # <<>> /\ Head(apn) = Head(ap)
       /\ Tail(apn) = Tail(ap) \o noted
  BY <1>6, <1>8, Joined
<1>12. Tail(apn) = pn
  BY <1>9, <1>11
<1>13. s = apn \o g
  BY <1>5 DEF ap
<1> HIDE DEF apn, pn, rn
<1>14. /\ Head(apn \o g) = Head(apn) /\ Tail(apn \o g) = Tail(apn) \o g
       /\ pn \o g # <<>> /\ Head(pn \o g) = Head(pn) /\ Tail(pn \o g) = Tail(pn) \o g
       /\ Range(rn \o g) = Range(rn) \cup Range(g)
  BY <1>7, <1>8, <1>11, Joined
<1>15. Head(s) = Set("status", "failed") /\ Tail(s) = pn \o g
  BY <1>4, <1>8, <1>11, <1>12, <1>13, <1>14, Zenon
<1>16. /\ Tail(s) # <<>> /\ Head(Tail(s)) = EmitOf("OBJECTIVE_FAILED", 0)
       /\ Tail(Tail(s)) = rn \o g
  BY <1>2, <1>8, <1>10, <1>14, <1>15, Zenon
<1>17. Range(rn \o g) = ({Row} \cup Range(noted)) \cup {Finish, Look}
  BY <1>7, <1>8, <1>14, Zenon
<1>18. /\ Range(Tail(Tail(s))) \subseteq Quiet /\ Finish \in Range(Tail(Tail(s)))
       /\ Row \in Range(Tail(Tail(s)))
  BY <1>6, <1>16, <1>17 DEF Quiet
<1> QED
  BY <1>15, <1>16, <1>18 DEF Pronounces

\* What each effect of a script was decided from.
Grounded(e, s, what) ==
  /\ e.do \notin {"result", "resume", "dispatch"}
  /\ e \in ToWork => Planned /\ (state.current # 0 \/ Head(s) \in Choices)
  /\ e \in Choices =>
       /\ Planned
       /\ e.value > 1 => state.tasks[e.value - 1].status = "completed"
  /\ e \in Emits /\ e.type = "APPROVAL_REQUIRED" => e.task \in Gated
  /\ e \in Emits /\ e.type = "TOOL_STARTED" =>
       e.task = state.current /\ e.task # 0 /\ e.task \notin Gated \ granted
  /\ e \in ResultPuts =>
       e.task = state.current /\ Head(s) = EmitOf("TOOL_STARTED", e.task)
  /\ e \in StatusPuts /\ e.value = "completed" =>
       /\ Planned /\ e.task = state.current
       /\ state.tasks[e.task].result = "ok"
  /\ e \in VerdictEmits => Announces(s, e)

\* An exception's script says nothing of tasks.
LEMMA FailureIsGrounded ==
  ASSUME NEW s \in Failure, NEW what
  PROVE  /\ s \in Seq(Effect) /\ s # <<>>
         /\ \A e \in Range(s) : Grounded(e, s, what)
<1> DEFINE E == FailureEffects \cup {EmitOf("MEMORY_STORED", 0)}
<1>1. Range(s) \subseteq E /\ s \in Seq(Effect) /\ s # <<>>
  BY FailureHas DEF Has
<1>2. ASSUME NEW e \in E PROVE e \in VerdictEmits => Announces(s, e)
  <2>1. CASE e = EmitOf("OBJECTIVE_FAILED", 0)
    BY <2>1, FailurePronounces DEF Announces, EmitOf
  <2>2. CASE e # EmitOf("OBJECTIVE_FAILED", 0)
    BY <2>2 DEF FailureEffects, VerdictEmits, Verdicts, Set, EmitOf, Row, Look
  <2> QED
    BY <2>1, <2>2
<1>3. ASSUME NEW e \in E PROVE Grounded(e, s, what)
  BY <1>2 DEF
    FailureEffects, Grounded, VerdictEmits, Verdicts, ToWork, Working, Choices,
    Emits, ResultPuts, StatusPuts, Set, Put, EmitOf, Row, Look, Fallible, Then,
    Leave
<1> QED
  BY <1>1, <1>3

LEMMA Decided ==
  ASSUME StateOK, NEW what \in Handlers,
         what \in Working => Planned /\ state.current # 0,
         NEW s \in Scripts(what)
  PROVE  /\ s \in Seq(Effect) /\ s # <<>>
         /\ \A e \in Range(s) : Grounded(e, s, what)
<1>1. CASE what = "UNDERSTAND"
  <2>1. Has(s, BeginEffects)
    BY <1>1, ScriptsAre, BeginHas
  <2>2. CASE Has(s, BeginEffects)
    <3>1. Range(s) = BeginEffects /\ s \in Seq(Effect) /\ s # <<>>
      BY <2>2 DEF Has
    <3>2. ASSUME NEW e \in BeginEffects PROVE Grounded(e, s, what)
      BY <1>1, <2>2 DEF
        BeginEffects, Grounded, VerdictEmits, Verdicts, ToWork, Working,
        Choices, Emits, ResultPuts, StatusPuts, Set, Put, EmitOf, Row, Look,
        Fallible, Then, Leave
    <3> QED
      BY <3>1, <3>2
  <2> QED
    BY <2>1, <2>2
<1>2. CASE what = "CREATE_PLAN"
  <2>1. Has(s, PlanEffects)
    BY <1>2, ScriptsAre, CreatePlanHas
  <2>2. CASE Has(s, PlanEffects)
    <3>1. Range(s) = PlanEffects /\ s \in Seq(Effect) /\ s # <<>>
      BY <2>2 DEF Has
    <3>2. ASSUME NEW e \in PlanEffects PROVE Grounded(e, s, what)
      BY <1>2, <2>2 DEF
        PlanEffects, Grounded, VerdictEmits, Verdicts, ToWork, Working,
        Choices, Emits, ResultPuts, StatusPuts, Set, Put, EmitOf, Row, Look,
        Fallible, Then, Leave
    <3> QED
      BY <3>1, <3>2
  <2> QED
    BY <2>1, <2>2
<1>3. CASE what = "SELECT_NEXT"
  <2>1. \/ Has(s, {Set("node", "VERIFY"), Look})
        \/ Has(s, IdleEffects("failed")) \/ Has(s, IdleEffects("blocked"))
        \/ /\ Planned
           /\ \E k \in Pick : /\ k \in 1..Jobs /\ Head(s) = Set("current", k)
                              /\ Has(s, TakeEffects(k))
    BY <1>3, ScriptsAre, SelectNextHas
  <2>2. CASE Has(s, {Set("node", "VERIFY"), Look})
    <3>1. Range(s) = {Set("node", "VERIFY"), Look} /\ s \in Seq(Effect) /\ s # <<>>
      BY <2>2 DEF Has
    <3>2. ASSUME NEW e \in {Set("node", "VERIFY"), Look} PROVE Grounded(e, s, what)
      BY DEF
        Grounded, VerdictEmits, Verdicts, ToWork, Working, Choices, Emits,
        ResultPuts, StatusPuts, Set, Put, EmitOf, Row, Look, Fallible, Then,
        Leave
    <3> QED
      BY <3>1, <3>2
  <2>3. ASSUME NEW v \in {"failed", "blocked"}, Has(s, IdleEffects(v))
        PROVE  /\ s \in Seq(Effect) /\ s # <<>>
               /\ \A e \in Range(s) : Grounded(e, s, what)
    <3>1. Range(s) = IdleEffects(v) /\ s \in Seq(Effect) /\ s # <<>>
      BY <2>3 DEF Has
    <3>2. ASSUME NEW e \in IdleEffects(v) PROVE Grounded(e, s, what)
      BY DEF
        IdleEffects, Grounded, VerdictEmits, Verdicts, ToWork, Working,
        Choices, Emits, ResultPuts, StatusPuts, Set, Put, EmitOf, Row, Look,
        Fallible, Then, Leave
    <3> QED
      BY <3>1, <3>2
  <2>4. ASSUME Planned, NEW k \in Pick, k \in 1..Jobs, Head(s) = Set("current", k),
               Has(s, TakeEffects(k))
        PROVE  /\ s \in Seq(Effect) /\ s # <<>>
               /\ \A e \in Range(s) : Grounded(e, s, what)
    <3>1. Range(s) = TakeEffects(k) /\ s \in Seq(Effect) /\ s # <<>>
      BY <2>4 DEF Has
    <3>2. k > 1 => state.tasks[k - 1].status = "completed"
      BY DEF Pick, StatusOf
    <3>3. ASSUME NEW e \in TakeEffects(k) PROVE Grounded(e, s, what)
      BY <2>4, <3>2 DEF
        TakeEffects, Grounded, VerdictEmits, Verdicts, ToWork, Working,
        Choices, Emits, ResultPuts, StatusPuts, Set, Put, EmitOf, Row, Look,
        Fallible, Then, Leave
    <3> QED
      BY <3>1, <3>3
  <2> QED
    BY <2>1, <2>2, <2>3, <2>4
<1>4. CASE what = "EXECUTE"
  <2> DEFINE k == state.current
  <2>1. k \in 1..Jobs /\ Planned
    BY <1>4 DEF Working, StateOK
  <2>2. \/ k \in Gated \ granted /\ Has(s, RequestEffects(k))
        \/ /\ k \notin Gated \ granted
           /\ \E outcome \in ToolOutcomes : Has(s, CallEffects(k, outcome))
           /\ Head(s) = EmitOf("TOOL_STARTED", k)
    BY <1>4, <2>1, ScriptsAre, ExecuteHas
  <2>3. CASE k \in Gated \ granted /\ Has(s, RequestEffects(k))
    <3>1. Range(s) = RequestEffects(k) /\ s \in Seq(Effect) /\ s # <<>>
      BY <2>3 DEF Has
    <3>2. ASSUME NEW e \in RequestEffects(k) PROVE Grounded(e, s, what)
      BY <2>1, <2>3 DEF
        RequestEffects, Grounded, VerdictEmits, Verdicts, ToWork, Working,
        Choices, Emits, ResultPuts, StatusPuts, Set, Put, EmitOf, Row, Look,
        Fallible, Then, Leave
    <3> QED
      BY <3>1, <3>2
  <2>4. ASSUME k \notin Gated \ granted, NEW outcome \in ToolOutcomes,
               Has(s, CallEffects(k, outcome)), Head(s) = EmitOf("TOOL_STARTED", k)
        PROVE  /\ s \in Seq(Effect) /\ s # <<>>
               /\ \A e \in Range(s) : Grounded(e, s, what)
    <3>1. Range(s) = CallEffects(k, outcome) /\ s \in Seq(Effect) /\ s # <<>>
      BY <2>4 DEF Has
    <3>2. ASSUME NEW e \in CallEffects(k, outcome) PROVE Grounded(e, s, what)
      BY <2>1, <2>4 DEF
        CallEffects, Grounded, VerdictEmits, Verdicts, ToWork, Working,
        Choices, Emits, ResultPuts, StatusPuts, Set, Put, EmitOf, Row, Look,
        Fallible, Then, Leave
    <3> QED
      BY <3>1, <3>2
  <2> QED
    BY <2>2, <2>3, <2>4
<1>5. CASE what = "OBSERVE"
  <2> DEFINE k == state.current
  <2>1. k \in 1..Jobs /\ Planned
    BY <1>5 DEF Working, StateOK
  <2>2. \/ state.tasks[k].result = "none" /\ s \in Failure
        \/ state.tasks[k].result = "ok" /\ Has(s, DoneEffects(k))
        \/ state.tasks[k].result = "fatal" /\ Has(s, DecideEffects)
    BY <1>5, <2>1, ScriptsAre, ObserveHas
  <2>3. CASE s \in Failure
    BY <2>3, FailureIsGrounded
  <2>4. CASE state.tasks[k].result = "ok" /\ Has(s, DoneEffects(k))
    <3>1. Range(s) = DoneEffects(k) /\ s \in Seq(Effect) /\ s # <<>>
      BY <2>4 DEF Has
    <3>2. ASSUME NEW e \in DoneEffects(k) PROVE Grounded(e, s, what)
      BY <2>1, <2>4 DEF
        DoneEffects, Grounded, VerdictEmits, Verdicts, ToWork, Working,
        Choices, Emits, ResultPuts, StatusPuts, Set, Put, EmitOf, Row, Look,
        Fallible, Then, Leave
    <3> QED
      BY <3>1, <3>2
  <2>5. CASE Has(s, DecideEffects)
    <3>1. Range(s) = DecideEffects /\ s \in Seq(Effect) /\ s # <<>>
      BY <2>5 DEF Has
    <3>2. ASSUME NEW e \in DecideEffects PROVE Grounded(e, s, what)
      BY <2>1 DEF
        DecideEffects, Grounded, VerdictEmits, Verdicts, ToWork, Working,
        Choices, Emits, ResultPuts, StatusPuts, Set, Put, EmitOf, Row, Look,
        Fallible, Then, Leave
    <3> QED
      BY <3>1, <3>2
  <2> QED
    BY <2>2, <2>3, <2>4, <2>5
<1>6. CASE what = "DECIDE"
  <2>1. Has(s, AbortEffects(state.current))
    BY <1>6, ScriptsAre, AbortHas DEF Working, StateOK
  <2>2. CASE Has(s, AbortEffects(state.current))
    <3>1. Range(s) = AbortEffects(state.current) /\ s \in Seq(Effect) /\ s # <<>>
      BY <2>2 DEF Has
    <3>2. ASSUME NEW e \in AbortEffects(state.current) PROVE Grounded(e, s, what)
      BY <1>6, <2>2 DEF
        AbortEffects, Grounded, VerdictEmits, Verdicts, ToWork, Working,
        Choices, Emits, ResultPuts, StatusPuts, Set, Put, EmitOf, Row, Look,
        Fallible, Then, Leave
    <3> QED
      BY <3>1, <3>2
  <2> QED
    BY <2>1, <2>2
<1>7. CASE what = "VERIFY"
  <2>1. Has(s, CheckEffects)
    BY <1>7, ScriptsAre, CheckHas
  <2>2. CASE Has(s, CheckEffects)
    <3>1. Range(s) = CheckEffects /\ s \in Seq(Effect) /\ s # <<>>
      BY <2>2 DEF Has
    <3>2. ASSUME NEW e \in CheckEffects PROVE Grounded(e, s, what)
      BY <1>7, <2>2 DEF
        CheckEffects, Grounded, VerdictEmits, Verdicts, ToWork, Working,
        Choices, Emits, ResultPuts, StatusPuts, Set, Put, EmitOf, Row, Look,
        Fallible, Then, Leave
    <3> QED
      BY <3>1, <3>2
  <2> QED
    BY <2>1, <2>2
<1>8. CASE what = "JUDGE"
  <2>1. Has(s, JudgeEffects("completed")) \/ Has(s, JudgeEffects("failed"))
    BY <1>8, ScriptsAre, JudgeHas
  <2>2. CASE Has(s, JudgeEffects("completed"))
    <3>1. Range(s) = JudgeEffects("completed") /\ s \in Seq(Effect) /\ s # <<>>
      BY <2>2 DEF Has
    <3>2. ASSUME NEW e \in JudgeEffects("completed") PROVE Grounded(e, s, what)
      BY <1>8, <2>2 DEF
        JudgeEffects, Grounded, VerdictEmits, Verdicts, ToWork, Working,
        Choices, Emits, ResultPuts, StatusPuts, Set, Put, EmitOf, Row, Look,
        Fallible, Then, Leave
    <3> QED
      BY <3>1, <3>2
  <2>3. CASE Has(s, JudgeEffects("failed"))
    <3>1. Range(s) = JudgeEffects("failed") /\ s \in Seq(Effect) /\ s # <<>>
      BY <2>3 DEF Has
    <3>2. ASSUME NEW e \in JudgeEffects("failed") PROVE Grounded(e, s, what)
      BY <1>8, <2>3 DEF
        JudgeEffects, Grounded, VerdictEmits, Verdicts, ToWork, Working,
        Choices, Emits, ResultPuts, StatusPuts, Set, Put, EmitOf, Row, Look,
        Fallible, Then, Leave
    <3> QED
      BY <3>1, <3>2
  <2> QED
    BY <2>1, <2>2, <2>3
<1>9. CASE what = "STORE_MEMORY"
  <2>1. Has(s, RememberEffects)
    BY <1>9, ScriptsAre, RememberHas
  <2>2. CASE Has(s, RememberEffects)
    <3>1. Range(s) = RememberEffects /\ s \in Seq(Effect) /\ s # <<>>
      BY <2>2 DEF Has
    <3>2. ASSUME NEW e \in RememberEffects PROVE Grounded(e, s, what)
      BY <1>9, <2>2 DEF
        RememberEffects, Grounded, VerdictEmits, Verdicts, ToWork, Working,
        Choices, Emits, ResultPuts, StatusPuts, Set, Put, EmitOf, Row, Look,
        Fallible, Then, Leave
    <3> QED
      BY <3>1, <3>2
  <2> QED
    BY <2>1, <2>2
<1>10. CASE what = "ANNOUNCE"
  <2>1. s = Announce
    BY <1>10, ScriptsAre
  <2>2. ASSUME NEW type \in Verdicts, Agrees(type), Judgment, s = Said(type)
        PROVE  /\ s \in Seq(Effect) /\ s # <<>>
               /\ \A e \in Range(s) : Grounded(e, s, what)
    <3>1. Range(s) = SaidEffects(type) /\ s \in Seq(Effect) /\ s # <<>>
      BY <2>2, SaidHas DEF Has
    <3>2. ASSUME NEW e \in SaidEffects(type) PROVE e \in VerdictEmits => Announces(s, e)
      <4>1. CASE e = EmitOf(type, 0)
        BY <2>2, <4>1, SaidPronounces DEF Announces, EmitOf
      <4>2. CASE e # EmitOf(type, 0)
        BY <4>2 DEF SaidEffects, VerdictEmits, Set, EmitOf, Row, Look
      <4> QED
        BY <4>1, <4>2
    <3>3. ASSUME NEW e \in SaidEffects(type) PROVE Grounded(e, s, what)
      BY <3>2 DEF
        SaidEffects, Grounded, VerdictEmits, Verdicts, ToWork, Working,
        Choices, Emits, ResultPuts, StatusPuts, Set, Put, EmitOf, Row, Look,
        Fallible, Then, Leave
    <3> QED
      BY <3>1, <3>3
  <2>3. CASE state.status \in {"completed", "failed"}
    <3>1. PICK type \in Verdicts : Agrees(type) /\ s = Said(type)
      BY <2>1, <2>3 DEF Announce, Said, Agrees, Verdicts
    <3> QED
      BY <2>2, <2>3, <3>1 DEF Judgment
  <2>4. CASE state.status \notin {"completed", "failed"}
    <3>1. Has(s, {Set("node", "END"), Look})
      BY <2>1, <2>4, AnnounceHas
    <3>2. Range(s) = {Set("node", "END"), Look} /\ s \in Seq(Effect) /\ s # <<>>
      BY <3>1 DEF Has
    <3>3. ASSUME NEW e \in {Set("node", "END"), Look} PROVE Grounded(e, s, what)
      BY DEF
        Grounded, VerdictEmits, Verdicts, ToWork, Working, Choices, Emits,
        ResultPuts, StatusPuts, Set, Put, EmitOf, Row, Look, Fallible, Then,
        Leave
    <3> QED
      BY <3>2, <3>3
  <2> QED
    BY <2>3, <2>4
<1>11. CASE what = "END"
  <2>1. Has(s, LateEffects)
    BY <1>11, ScriptsAre, LateHas
  <2>2. CASE Has(s, LateEffects)
    <3>1. Range(s) = LateEffects /\ s \in Seq(Effect) /\ s # <<>>
      BY <2>2 DEF Has
    <3>2. ASSUME NEW e \in LateEffects PROVE Grounded(e, s, what)
      BY <1>11, <2>2 DEF
        LateEffects, Grounded, VerdictEmits, Verdicts, ToWork, Working,
        Choices, Emits, ResultPuts, StatusPuts, Set, Put, EmitOf, Row, Look,
        Fallible, Then, Leave
    <3> QED
      BY <3>1, <3>2
  <2> QED
    BY <2>1, <2>2
<1> QED
  BY <1>1, <1>2, <1>3, <1>4, <1>5, <1>6, <1>7, <1>8, <1>9, <1>10, <1>11 DEF
    Handlers, Nodes

-----------------------------------------------------------------------------
(* Types.                                                                  *)

\* What thread t has yet to do makes sense when it gets there.
Ripe(t) ==
  \A e \in Range(todo[t]) :
    /\ e \in Results => Len(todo[t]) = 1
    /\ e \in ToWork => Planned /\ (state.current # 0 \/ Head(todo[t]) \in Choices)
    /\ e \in Emits /\ e.type = "APPROVAL_REQUIRED" => e.task \in Gated

Ready == state.node \in Working => Planned /\ state.current # 0

\* Nothing is dispatched before the first thread has resumed.
Fresh ==
  state.node = "START" =>
    \A t \in Threads : thread[t] = "driving" =>
      todo[t] # <<>> /\ Head(todo[t]).do = "resume"

GatedAsk == \A i \in Occurs("APPROVAL_REQUIRED") : history[i].task \in Gated

TypeInv ==
  /\ TypeOK
  /\ todo \in [Threads -> Seq(Effect)]
  /\ \A t \in Threads : Ripe(t)
  /\ Ready /\ Fresh /\ GatedAsk

\* What is once there stays.
Onward ==
  /\ Planned => Planned'
  /\ state.current # 0 => state'.current # 0

LEMMA InitTyped == Init => TypeInv
<1> SUFFICES ASSUME Init PROVE TypeInv
  OBVIOUS
<1>1. TypeOK
  BY ServiceAssumption DEF Init, TypeOK, Nodes, RunStatus
<1>2. todo \in [Threads -> Seq(Effect)] /\ \A t \in Threads : todo[t] = <<>>
  BY DEF Init
<1>3. ASSUME NEW t \in Threads PROVE Ripe(t)
  <2>1. Range(todo[t]) = {}
    BY <1>2 DEF Range
  <2> QED
    BY <2>1 DEF Ripe
<1>4. Ready /\ Fresh /\ GatedAsk
  BY DEF Init, Ready, Working, Fresh, GatedAsk, Occurs
<1> QED
  BY <1>1, <1>2, <1>3, <1>4 DEF TypeInv

LEMMA RipeStays ==
  ASSUME NEW t \in Threads, Ripe(t), Onward, todo'[t] = todo[t]
  PROVE  Ripe(t)'
BY DEF Ripe, Onward

LEMMA RipeRest ==
  ASSUME NEW t \in Threads, todo[t] \in Seq(Effect), Ripe(t), Onward, todo[t] # <<>>,
         todo'[t] = Tail(todo[t]), Head(todo[t]) \notin Results,
         Head(todo[t]) \in Choices => state'.current # 0
  PROVE  Ripe(t)'
<1>1. /\ Range(Tail(todo[t])) \subseteq Range(todo[t])
      /\ Len(todo[t]) = 1 <=> Tail(todo[t]) = <<>>
  BY Shorter
<1>2. ASSUME NEW e \in Range(Tail(todo[t])) PROVE e \notin Results
  <2> SUFFICES ASSUME e \in Results PROVE FALSE
    OBVIOUS
  <2>1. Tail(todo[t]) = <<>>
    BY <1>1 DEF Ripe
  <2>2. Range(<<>>) = {}
    BY DEF Range
  <2> QED
    BY <2>1, <2>2
<1>3. ASSUME NEW e \in Range(Tail(todo[t])), e \in ToWork
      PROVE  Planned' /\ state'.current # 0
  BY <1>1, <1>3 DEF Ripe, Onward
<1>4. ASSUME NEW e \in Range(Tail(todo[t])), e \in Emits, e.type = "APPROVAL_REQUIRED"
      PROVE  e.task \in Gated
  BY <1>1, <1>4 DEF Ripe
<1> QED
  BY <1>2, <1>3, <1>4 DEF Ripe

LEMMA RipeScript ==
  ASSUME NEW t \in Threads, NEW s \in Seq(Effect), NEW what,
         \A e \in Range(s) : Grounded(e, s, what), Onward, todo'[t] = s
  PROVE  Ripe(t)'
<1>1. ASSUME NEW e \in Range(s) PROVE e \notin Results
  BY DEF Grounded, Results
<1>2. ASSUME NEW e \in Range(s), e \in ToWork
      PROVE  Planned' /\ (state'.current # 0 \/ Head(s) \in Choices)
  BY <1>2 DEF Grounded, Onward
<1>3. ASSUME NEW e \in Range(s), e \in Emits, e.type = "APPROVAL_REQUIRED"
      PROVE  e.task \in Gated
  BY <1>3 DEF Grounded
<1> QED
  BY <1>1, <1>2, <1>3 DEF Ripe

LEMMA RipeSingle ==
  ASSUME NEW t \in Threads, NEW e \in Effect, e \notin ToWork, e \notin Emits,
         todo'[t] = <<e>>
  PROVE  Ripe(t)'
<1>1. Range(<<e>>) = {e} /\ Len(<<e>>) = 1
  BY One
<1> QED
  BY <1>1 DEF Ripe

\* A thread goes on with s, whatever it did to the rest.
LEMMA ThreadStep ==
  ASSUME TypeInv, NEW t \in Threads, NEW s \in Seq(Effect),
         thread[t] = "driving", todo' = [todo EXCEPT ![t] = s],
         \/ thread' = thread
         \/ s = <<>> /\ thread' = [thread EXCEPT ![t] = "returned"],
         StateOK', history' \in Seq(Event),
         row' \in [node : Nodes, status : RunStatus],
         result' \in {"none"} \cup RunStatus, steps' \in [Threads -> 0..MaxSteps],
         UNCHANGED <<stream, client>>, Onward, Ripe(t)', Ready',
         state'.node # "START", GatedAsk'
  PROVE  TypeInv'
<1>1. todo' \in [Threads -> Seq(Effect)] /\ todo'[t] = s
      /\ \A u \in Threads \ {t} : todo'[u] = todo[u]
  BY DEF TypeInv
<1>2. ASSUME NEW u \in Threads PROVE Ripe(u)'
  BY <1>1, RipeStays DEF TypeInv
<1>3. \A u \in Threads : thread'[u] # "driving" => todo'[u] = <<>>
  BY <1>1 DEF TypeInv, TypeOK
<1>4. thread' \in [Threads -> {"none", "driving", "returned"}]
  BY DEF TypeInv, TypeOK
<1>5. TypeOK'
  BY <1>3, <1>4 DEF TypeInv, TypeOK, StateOK, client
<1> QED
  BY <1>1, <1>2, <1>5 DEF TypeInv, Fresh

LEMMA Facing ==
  ASSUME TypeInv, NEW t \in Threads, NEW kind, Faces(t, kind)
  PROVE  /\ thread[t] = "driving" /\ todo[t] \in Seq(Effect) /\ todo[t] # <<>>
         /\ Head(todo[t]) \in Effect /\ Head(todo[t]) \in Range(todo[t])
         /\ Head(todo[t]).do = kind /\ Tail(todo[t]) \in Seq(Effect)
         /\ Range(Tail(todo[t])) \subseteq Range(todo[t])
         /\ kind # "resume" => state.node # "START"
<1>1. thread[t] = "driving" /\ todo[t] \in Seq(Effect) /\ todo[t] # <<>>
      /\ Head(todo[t]).do = kind
  BY DEF Faces, TypeInv
<1>2. kind # "resume" => state.node # "START"
  BY <1>1 DEF TypeInv, Fresh
<1> QED
  BY <1>1, <1>2, Shorter

\* What a driver does is decided by what it faces.
LEMMA Taken ==
  ASSUME NEW t \in Threads, Drive(t)
  PROVE  /\ thread[t] = "driving"
         /\ todo[t] = <<>> => Loop(t)
         /\ todo[t] # <<>> /\ Head(todo[t]).do = "emit" => Emit(t)
         /\ todo[t] # <<>> /\ Head(todo[t]).do # "emit" => ~Emit(t)
         /\ todo[t] # <<>> /\ Head(todo[t]).do = "set" => Write(t)
         /\ todo[t] # <<>> /\ Head(todo[t]).do = "put" => WriteTask(t)
         /\ todo[t] # <<>> /\ Head(todo[t]).do = "save" => Save(t)
         /\ todo[t] # <<>> /\ Head(todo[t]).do = "pause?" => Pause(t)
         /\ todo[t] # <<>> /\ Head(todo[t]).do = "leave" => LeaveLoop(t)
         /\ todo[t] # <<>> /\ Head(todo[t]).do = "result" => StoreResult(t)
<1> DEFINE kind == Head(todo[t]).do
<1>1. /\ thread[t] = "driving"
      /\ \/ todo[t] = <<>> /\ Loop(t)
         \/ /\ todo[t] # <<>>
            /\ \/ kind = "resume" /\ Resume(t)
               \/ kind = "dispatch" /\ Dispatch(t)
               \/ kind = "pause?" /\ Pause(t)
               \/ kind = "leave" /\ LeaveLoop(t)
               \/ kind = "result" /\ StoreResult(t)
               \/ kind = "set" /\ Write(t)
               \/ kind = "put" /\ WriteTask(t)
               \/ kind = "plan" /\ StorePlan(t)
               \/ kind = "emit" /\ Emit(t)
               \/ kind = "save" /\ Save(t)
               \/ kind = "fallible" /\ TryCall(t)
               \/ kind = "then" /\ Continue(t)
  <2>1. /\ Loop(t) => thread[t] = "driving" /\ todo[t] = <<>>
        /\ \A k : Faces(t, k) => thread[t] = "driving" /\ todo[t] # <<>> /\ kind = k
    BY DEF Loop, Faces
  <2>2. /\ Resume(t) => Faces(t, "resume")
        /\ Dispatch(t) => Faces(t, "dispatch")
        /\ Pause(t) => Faces(t, "pause?")
        /\ LeaveLoop(t) => Faces(t, "leave")
        /\ StoreResult(t) => Faces(t, "result")
        /\ Write(t) => Faces(t, "set")
        /\ WriteTask(t) => Faces(t, "put")
        /\ StorePlan(t) => Faces(t, "plan")
        /\ Emit(t) => Faces(t, "emit")
        /\ Save(t) => Faces(t, "save")
        /\ TryCall(t) => Faces(t, "fallible")
        /\ Continue(t) => Faces(t, "then")
    BY DEF Resume, Dispatch, Pause, LeaveLoop, StoreResult, Write, WriteTask,
           StorePlan, Emit, Save, TryCall, Continue
  <2> HIDE DEF kind
  <2> QED
    BY <2>1, <2>2 DEF Drive
<1>2. Emit(t) => kind = "emit"
  BY DEF Emit, Faces
<1> HIDE DEF kind
<1>3. /\ thread[t] = "driving"
      /\ todo[t] = <<>> => Loop(t)
      /\ todo[t] # <<>> =>
           /\ kind = "emit" <=> Emit(t)
           /\ kind = "set" => Write(t)
           /\ kind = "put" => WriteTask(t)
           /\ kind = "save" => Save(t)
           /\ kind = "pause?" => Pause(t)
           /\ kind = "leave" => LeaveLoop(t)
           /\ kind = "result" => StoreResult(t)
  BY <1>1, <1>2
<1> QED
  BY <1>3 DEF kind

LEMMA Kinds ==
  ASSUME NEW e \in Effect
  PROVE  /\ e.do = "set" <=> e \in NodeSets \cup StatusSets \cup Choices
         /\ e.do = "put" <=> e \in StatusPuts \cup ResultPuts
         /\ e.do = "emit" <=> e \in Emits
         /\ e.do = "then" <=> e \in Thens
         /\ e.do = "resume" <=> e \in Resumes
         /\ e.do = "result" <=> e \in Results
         /\ e \in ToWork <=> e \in NodeSets /\ e.value \in Working
BY DEF Effect, NodeSets, StatusSets, Choices, StatusPuts, ResultPuts, Emits, Thens,
       Resumes, Results, Others, ToWork, Working, Aims, Nodes

LEMMA ResumeTyped ==
  ASSUME TypeInv, NEW t \in Threads, Resume(t)
  PROVE  TypeInv'
<1> DEFINE e == Head(todo[t])
<1>1. /\ thread[t] = "driving" /\ todo[t] \in Seq(Effect) /\ todo[t] # <<>>
      /\ e \in Resumes /\ Tail(todo[t]) \in Seq(Effect)
  BY Facing, Kinds DEF Resume
<1>2. /\ todo' = [todo EXCEPT ![t] = Tail(todo[t])] /\ thread' = thread
      /\ granted' = granted \cup e.tools
      /\ state' = [state EXCEPT
           !.node = IF @ = "START" THEN "UNDERSTAND" ELSE @,
           !.status = IF @ = "awaiting_approval" THEN "running" ELSE @]
      /\ UNCHANGED <<history, row, result, steps, stream, client>>
  BY DEF Resume, Rest
<1>3. StateOK /\ StateOK' /\ state'.node # "START"
  BY <1>1, <1>2, ZenonT(60) DEF TypeInv, TypeOK, StateOK, Resumes, Nodes, RunStatus, Closing
<1>4. Onward /\ Ready' /\ GatedAsk'
  BY <1>2, <1>3 DEF TypeInv, StateOK, Onward, Ready, GatedAsk, Planned, Working, Occurs
<1>5. Ripe(t)'
  <2>1. todo'[t] = Tail(todo[t])
    BY <1>2 DEF TypeInv
  <2>2. e \notin Results /\ e \notin Choices
    BY <1>1 DEF Resumes, Results, Choices
  <2> QED
    BY <1>1, <1>4, <2>1, <2>2, RipeRest DEF TypeInv
<1>6. /\ history' \in Seq(Event) /\ row' \in [node : Nodes, status : RunStatus]
      /\ result' \in {"none"} \cup RunStatus /\ steps' \in [Threads -> 0..MaxSteps]
  BY <1>2 DEF TypeInv, TypeOK
<1> QED
  BY <1>1, <1>2, <1>3, <1>4, <1>5, <1>6, ThreadStep

\* Steps that change nothing but what is left to do.
LEMMA TodoStep ==
  ASSUME TypeInv, NEW t \in Threads, NEW s \in Seq(Effect),
         thread[t] = "driving", todo' = [todo EXCEPT ![t] = s],
         state.node # "START", steps' \in [Threads -> 0..MaxSteps],
         UNCHANGED <<state, granted, history, row, result, thread, stream, client>>,
         Ripe(t)'
  PROVE  TypeInv'
<1>1. StateOK' /\ Onward /\ Ready' /\ GatedAsk' /\ state'.node # "START"
  BY DEF TypeInv, TypeOK, StateOK, Onward, Ready, GatedAsk, Planned, Occurs
<1>2. /\ history' \in Seq(Event) /\ row' \in [node : Nodes, status : RunStatus]
      /\ result' \in {"none"} \cup RunStatus /\ thread' = thread
      /\ UNCHANGED <<stream, client>>
  BY DEF TypeInv, TypeOK
<1> QED
  BY <1>1, <1>2, ThreadStep

LEMMA LoopTyped ==
  ASSUME TypeInv, NEW t \in Threads, Loop(t)
  PROVE  TypeInv'
<1>1. thread[t] = "driving" /\ todo[t] = <<>>
      /\ UNCHANGED <<state, granted, history, row, result, thread, stream, client>>
  BY DEF Loop, agent
<1>2. state.node # "START"
  BY <1>1 DEF TypeInv, Fresh
<1>3. PICK e \in {[do |-> "dispatch"], Leave} :
        /\ todo' = [todo EXCEPT ![t] = <<e>>]
        /\ steps' \in [Threads -> 0..MaxSteps]
  <2>1. CASE state.node # "END" /\ steps[t] < MaxSteps
    <3>1. steps[t] \in 0..MaxSteps /\ steps[t] + 1 \in 0..MaxSteps
      BY <2>1, ServiceAssumption DEF TypeInv, TypeOK
    <3>2. steps' = [steps EXCEPT ![t] = steps[t] + 1]
          /\ todo' = [todo EXCEPT ![t] = <<[do |-> "dispatch"]>>]
      BY <2>1 DEF Loop, Replace
    <3>3. steps' \in [Threads -> 0..MaxSteps]
      BY <3>1, <3>2 DEF TypeInv, TypeOK
    <3> QED
      BY <3>2, <3>3
  <2>2. CASE ~(state.node # "END" /\ steps[t] < MaxSteps)
    <3>1. steps' = steps /\ todo' = [todo EXCEPT ![t] = <<Leave>>]
      BY <2>2 DEF Loop, Replace
    <3> QED
      BY <3>1 DEF TypeInv, TypeOK
  <2> QED
    BY <2>1, <2>2
<1>4. e \in Effect /\ e \notin ToWork /\ e \notin Emits /\ <<e>> \in Seq(Effect)
  BY Others1, One DEF Leave, ToWork, Emits
<1>5. Ripe(t)'
  <2>1. todo'[t] = <<e>>
    BY <1>3 DEF TypeInv
  <2> QED
    BY <1>4, <2>1, RipeSingle
<1> QED
  BY <1>1, <1>2, <1>3, <1>4, <1>5, TodoStep

LEMMA ScriptTyped ==
  ASSUME TypeInv, NEW t \in Threads, thread[t] = "driving", state.node # "START",
         NEW s \in Seq(Effect), NEW what, \A e \in Range(s) : Grounded(e, s, what),
         todo' = [todo EXCEPT ![t] = s],
         UNCHANGED <<agent, history, row, result, thread, steps, stream, client>>
  PROVE  TypeInv'
<1>1. /\ UNCHANGED <<state, granted, history, row, result, thread, stream, client>>
      /\ steps' = steps /\ steps' \in [Threads -> 0..MaxSteps]
  BY DEF agent, TypeInv, TypeOK
<1>2. todo'[t] = s /\ Onward
  BY <1>1 DEF TypeInv, Onward, Planned
<1>3. Ripe(t)'
  BY <1>2, RipeScript
<1> QED
  BY <1>1, <1>3, TodoStep

LEMMA DispatchTyped ==
  ASSUME TypeInv, NEW t \in Threads, Dispatch(t)
  PROVE  TypeInv'
<1>1. thread[t] = "driving" /\ state.node # "START"
  BY Facing DEF Dispatch
<1>2. /\ StateOK /\ state.node \in Handlers
      /\ state.node \in Working => Planned /\ state.current # 0
  BY <1>1 DEF TypeInv, TypeOK, StateOK, Ready, Handlers
<1>3. PICK s \in Scripts(state.node) : todo' = [todo EXCEPT ![t] = s]
  BY DEF Dispatch, Replace
<1>4. s \in Seq(Effect) /\ \A e \in Range(s) : Grounded(e, s, state.node)
  BY <1>2, Decided
<1>5. UNCHANGED <<agent, history, row, result, thread, steps, stream, client>>
  BY DEF Dispatch
<1> QED
  BY <1>1, <1>3, <1>4, <1>5, ScriptTyped

LEMMA ContinueTyped ==
  ASSUME TypeInv, NEW t \in Threads, Continue(t)
  PROVE  TypeInv'
<1> DEFINE what == Head(todo[t]).what
<1>1. thread[t] = "driving" /\ state.node # "START" /\ Head(todo[t]) \in Thens
  BY Facing, Kinds DEF Continue
<1>2. StateOK /\ what \in Handlers /\ what \notin Working
  BY <1>1 DEF TypeInv, TypeOK, StateOK, Handlers, Thens, Working
<1>3. PICK s \in Scripts(what) : todo' = [todo EXCEPT ![t] = s]
  BY DEF Continue, Replace
<1> HIDE DEF what
<1>4. s \in Seq(Effect) /\ \A e \in Range(s) : Grounded(e, s, what)
  BY <1>2, Decided
<1>5. UNCHANGED <<agent, history, row, result, thread, steps, stream, client>>
  BY DEF Continue
<1> QED
  BY <1>1, <1>3, <1>4, <1>5, ScriptTyped

\* A step over an effect that leaves the rest of the system as it is.
LEMMA RestTyped ==
  ASSUME TypeInv, NEW t \in Threads, NEW kind \in {"pause?", "fallible"},
         Faces(t, kind), Rest(t),
         UNCHANGED <<agent, history, row, result, thread, steps, stream, client>>
  PROVE  TypeInv'
<1> DEFINE e == Head(todo[t])
<1>1. /\ thread[t] = "driving" /\ todo[t] \in Seq(Effect) /\ todo[t] # <<>>
      /\ e \in Effect /\ e.do = kind /\ Tail(todo[t]) \in Seq(Effect)
      /\ state.node # "START"
  BY Facing
<1>2. e \notin Results /\ e \notin Choices
  BY <1>1 DEF Results, Choices
<1>3. /\ UNCHANGED <<state, granted, history, row, result, thread, stream, client>>
      /\ steps' = steps /\ steps' \in [Threads -> 0..MaxSteps]
      /\ todo' = [todo EXCEPT ![t] = Tail(todo[t])]
  BY DEF agent, Rest, TypeInv, TypeOK
<1>4. todo'[t] = Tail(todo[t]) /\ Onward
  BY <1>3 DEF TypeInv, Onward, Planned
<1>5. Ripe(t)'
  BY <1>1, <1>2, <1>4, RipeRest DEF TypeInv
<1> QED
  BY <1>1, <1>3, <1>5, TodoStep

LEMMA SingleTyped ==
  ASSUME TypeInv, NEW t \in Threads, thread[t] = "driving", state.node # "START",
         NEW e \in Effect, e \notin ToWork, e \notin Emits,
         todo' = [todo EXCEPT ![t] = <<e>>],
         UNCHANGED <<agent, history, row, result, thread, steps, stream, client>>
  PROVE  TypeInv'
<1>1. /\ UNCHANGED <<state, granted, history, row, result, thread, stream, client>>
      /\ steps' \in [Threads -> 0..MaxSteps]
  BY DEF agent, TypeInv, TypeOK
<1>2. todo'[t] = <<e>> /\ <<e>> \in Seq(Effect)
  BY One DEF TypeInv
<1>3. Ripe(t)'
  BY <1>2, RipeSingle
<1> QED
  BY <1>1, <1>2, <1>3, TodoStep

LEMMA PauseTyped ==
  ASSUME TypeInv, NEW t \in Threads, Pause(t)
  PROVE  TypeInv'
<1>1. thread[t] = "driving" /\ state.node # "START" /\ Faces(t, "pause?")
      /\ UNCHANGED <<agent, history, row, result, thread, steps, stream, client>>
  BY Facing DEF Pause
<1>2. CASE state.status = "awaiting_approval"
  <2>1. todo' = [todo EXCEPT ![t] = <<Leave>>]
    BY <1>2 DEF Pause, Replace
  <2>2. Leave \in Effect /\ Leave \notin ToWork /\ Leave \notin Emits
    BY Others1 DEF Leave, ToWork, Emits
  <2> QED
    BY <1>1, <2>1, <2>2, SingleTyped
<1>3. CASE state.status # "awaiting_approval"
  BY <1>1, <1>3, RestTyped DEF Pause
<1> QED
  BY <1>2, <1>3

LEMMA TryCallTyped ==
  ASSUME TypeInv, NEW t \in Threads, TryCall(t)
  PROVE  TypeInv'
<1>1. thread[t] = "driving" /\ state.node # "START" /\ Faces(t, "fallible")
      /\ UNCHANGED <<agent, history, row, result, thread, steps, stream, client>>
  BY Facing DEF TryCall
<1>2. CASE Rest(t)
  BY <1>1, <1>2, RestTyped
<1>3. ASSUME NEW s \in Failure, Replace(t, s)
      PROVE  TypeInv'
  <2>1. s \in Seq(Effect) /\ \A e \in Range(s) : Grounded(e, s, "FAILURE")
    BY FailureIsGrounded
  <2>2. todo' = [todo EXCEPT ![t] = s]
    BY <1>3 DEF Replace
  <2> QED
    BY <1>1, <2>1, <2>2, ScriptTyped
<1> QED
  BY <1>2, <1>3 DEF TryCall

LEMMA LeaveLoopTyped ==
  ASSUME TypeInv, NEW t \in Threads, LeaveLoop(t)
  PROVE  TypeInv'
<1>1. /\ thread[t] = "driving" /\ state.node # "START" /\ thread' = thread
      /\ UNCHANGED <<granted, history, row, result, thread, steps, stream, client>>
  BY Facing DEF LeaveLoop
<1>2. PICK v \in RunStatus : state' = [state EXCEPT !.status = v]
  <2>1. state.status \in RunStatus /\ "failed" \in RunStatus
    BY DEF TypeInv, TypeOK, RunStatus, Closing
  <2>2. \/ state' = [state EXCEPT !.status = "failed"]
        \/ state' = [state EXCEPT !.status = state.status]
    BY DEF LeaveLoop
  <2> QED
    BY <2>1, <2>2
<1>3. StateOK' /\ Onward /\ Ready' /\ GatedAsk' /\ state'.node # "START"
      /\ state'.status \in RunStatus
  BY <1>1, <1>2 DEF TypeInv, TypeOK, StateOK, Onward, Ready, GatedAsk, Planned, Occurs
<1> DEFINE e == [do |-> "result", status |-> state'.status]
<1>4. e \in Effect /\ e \notin ToWork /\ e \notin Emits
  BY <1>3 DEF Effect, Results, ToWork, Emits
<1>5. todo' = [todo EXCEPT ![t] = <<e>>]
  BY DEF LeaveLoop, Replace
<1> HIDE DEF e
<1>6. Ripe(t)' /\ <<e>> \in Seq(Effect)
  <2>1. todo'[t] = <<e>>
    BY <1>5 DEF TypeInv
  <2> QED
    BY <1>4, <2>1, RipeSingle, One
<1>7. /\ history' \in Seq(Event) /\ row' \in [node : Nodes, status : RunStatus]
      /\ result' \in {"none"} \cup RunStatus /\ steps' \in [Threads -> 0..MaxSteps]
      /\ UNCHANGED <<stream, client>>
  BY <1>1 DEF TypeInv, TypeOK
<1> QED
  BY <1>1, <1>3, <1>5, <1>6, <1>7, ThreadStep

LEMMA StoreResultTyped ==
  ASSUME TypeInv, NEW t \in Threads, StoreResult(t)
  PROVE  TypeInv'
<1> DEFINE e == Head(todo[t])
<1>1. /\ thread[t] = "driving" /\ state.node # "START" /\ e \in Results
      /\ todo[t] \in Seq(Effect) /\ todo[t] # <<>> /\ e \in Range(todo[t])
  BY Facing, Kinds DEF StoreResult
<1>2. Tail(todo[t]) = <<>>
  BY <1>1, Shorter DEF TypeInv, Ripe
<1>3. /\ todo' = [todo EXCEPT ![t] = <<>>] /\ <<>> \in Seq(Effect)
      /\ thread' = [thread EXCEPT ![t] = "returned"] /\ result' = e.status
      /\ UNCHANGED <<state, granted, history, row, steps, stream, client>>
  <2>1. todo' = [todo EXCEPT ![t] = Tail(todo[t])]
    BY DEF StoreResult, Rest
  <2>2. todo' = [todo EXCEPT ![t] = <<>>]
    BY <1>2, <2>1
  <2> QED
    BY <2>2 DEF StoreResult, agent
<1>4. StateOK' /\ Onward /\ Ready' /\ GatedAsk' /\ state'.node # "START"
  BY <1>1, <1>3 DEF TypeInv, TypeOK, StateOK, Onward, Ready, GatedAsk, Planned, Occurs
<1>5. Ripe(t)'
  <2>1. Range(<<>>) = {} /\ todo'[t] = <<>>
    BY <1>3 DEF Range, TypeInv
  <2> QED
    BY <2>1 DEF Ripe
<1>6. /\ history' \in Seq(Event) /\ row' \in [node : Nodes, status : RunStatus]
      /\ result' \in {"none"} \cup RunStatus /\ steps' \in [Threads -> 0..MaxSteps]
      /\ UNCHANGED <<stream, client>>
  BY <1>1, <1>3 DEF TypeInv, TypeOK, Results
<1> QED
  BY <1>1, <1>3, <1>4, <1>5, <1>6, ThreadStep

\* What a write leaves of the state.
LEMMA Written ==
  ASSUME TypeInv, NEW t \in Threads, Write(t)
  PROVE  LET e == Head(todo[t])
         IN  \/ e \in NodeSets /\ state' = [state EXCEPT !.node = e.value]
             \/ e \in StatusSets /\ state' = [state EXCEPT !.status = e.value]
             \/ e \in Choices /\ state' = [state EXCEPT !.current = e.value]
<1> DEFINE e == Head(todo[t])
<1>1. e \in NodeSets \cup StatusSets \cup Choices
  BY Facing, Kinds DEF Write
<1>2. state' = [state EXCEPT ![e.field] = e.value]
  BY DEF Write
<1>3. CASE e \in NodeSets
  <2>1. e.field = "node"
    BY <1>3 DEF NodeSets
  <2> QED
    BY <1>2, <1>3, <2>1
<1>4. CASE e \in StatusSets
  <2>1. e.field = "status"
    BY <1>4 DEF StatusSets
  <2> QED
    BY <1>2, <1>4, <2>1
<1>5. CASE e \in Choices
  <2>1. e.field = "current"
    BY <1>5 DEF Choices
  <2> QED
    BY <1>2, <1>5, <2>1
<1> QED
  BY <1>1, <1>3, <1>4, <1>5

\* A step over an effect that changes the state.
LEMMA ChangeTyped ==
  ASSUME TypeInv, NEW t \in Threads, NEW kind, Faces(t, kind), kind \notin {"resume", "result"},
         Rest(t), StateOK', Onward, state'.node # "START", Ready',
         Head(todo[t]) \in Choices => state'.current # 0,
         UNCHANGED <<granted, history, row, result, thread, steps, stream, client>>
  PROVE  TypeInv'
<1> DEFINE e == Head(todo[t])
<1>1. /\ thread[t] = "driving" /\ todo[t] \in Seq(Effect) /\ todo[t] # <<>>
      /\ e \in Effect /\ e.do = kind /\ Tail(todo[t]) \in Seq(Effect)
  BY Facing
<1>2. e \notin Results
  BY <1>1 DEF Results
<1>3. /\ todo' = [todo EXCEPT ![t] = Tail(todo[t])] /\ thread' = thread
      /\ history' \in Seq(Event) /\ row' \in [node : Nodes, status : RunStatus]
      /\ result' \in {"none"} \cup RunStatus /\ steps' \in [Threads -> 0..MaxSteps]
      /\ UNCHANGED <<stream, client>> /\ GatedAsk'
  BY DEF Rest, TypeInv, TypeOK, GatedAsk, Occurs
<1>4. todo'[t] = Tail(todo[t])
  BY <1>3 DEF TypeInv
<1>5. Ripe(t)'
  BY <1>1, <1>2, <1>4, RipeRest DEF TypeInv
<1> QED
  BY <1>1, <1>3, <1>5, ThreadStep

LEMMA WriteTyped ==
  ASSUME TypeInv, NEW t \in Threads, Write(t)
  PROVE  TypeInv'
<1> DEFINE e == Head(todo[t])
<1>1. /\ state.node # "START" /\ e \in Range(todo[t]) /\ e \in Effect
      /\ Faces(t, "set") /\ Rest(t)
      /\ UNCHANGED <<granted, history, row, result, thread, steps, stream, client>>
  BY Facing DEF Write
<1>2. \/ e \in NodeSets /\ state' = [state EXCEPT !.node = e.value]
      \/ e \in StatusSets /\ state' = [state EXCEPT !.status = e.value]
      \/ e \in Choices /\ state' = [state EXCEPT !.current = e.value]
  BY Written
<1>3. StateOK /\ Ready /\ (e \in ToWork => Planned /\ (state.current # 0 \/ e \in Choices))
  BY <1>1 DEF TypeInv, TypeOK, StateOK, Ripe
<1>4. CASE e \in NodeSets /\ state' = [state EXCEPT !.node = e.value]
  <2>1. /\ StateOK' /\ state'.node # "START" /\ state'.node = e.value
        /\ state'.current = state.current /\ state'.tasks = state.tasks
    BY <1>1, <1>3, <1>4 DEF StateOK, NodeSets, Aims
  <2>2. e \notin Choices /\ (e.value \in Working => e \in ToWork)
    BY <1>1, <1>4, Kinds DEF NodeSets, Choices
  <2>3. Onward /\ Ready'
    BY <1>3, <2>1, <2>2 DEF Onward, Ready, Planned
  <2> QED
    BY <1>1, <2>1, <2>2, <2>3, ChangeTyped
<1>5. CASE e \in StatusSets /\ state' = [state EXCEPT !.status = e.value]
  <2>1. /\ StateOK' /\ state'.node = state.node /\ e \notin Choices
        /\ state'.current = state.current /\ state'.tasks = state.tasks
    BY <1>1, <1>3, <1>5 DEF StateOK, StatusSets, Choices
  <2>2. Onward /\ Ready'
    BY <1>3, <2>1 DEF Onward, Ready, Planned
  <2> QED
    BY <1>1, <2>1, <2>2, ChangeTyped
<1>6. CASE e \in Choices /\ state' = [state EXCEPT !.current = e.value]
  <2>1. /\ StateOK' /\ state'.node = state.node
        /\ state'.current # 0 /\ state'.tasks = state.tasks
    BY <1>1, <1>3, <1>6 DEF StateOK, Choices
  <2>2. Onward /\ Ready'
    BY <1>3, <2>1 DEF Onward, Ready, Planned
  <2> QED
    BY <1>1, <2>1, <2>2, ChangeTyped
<1> QED
  BY <1>2, <1>4, <1>5, <1>6

LEMMA InTask ==
  ASSUME NEW s, NEW k, NEW v
  PROVE  /\ [s EXCEPT !.tasks[k]["status"] = v]
              = [s EXCEPT !.tasks = [s.tasks EXCEPT ![k] = [s.tasks[k] EXCEPT !.status = v]]]
         /\ [s EXCEPT !.tasks[k]["result"] = v]
              = [s EXCEPT !.tasks = [s.tasks EXCEPT ![k] = [s.tasks[k] EXCEPT !.result = v]]]
OBVIOUS

\* A write to a task changes one field of one task, or nothing.
LEMMA TaskWritten ==
  ASSUME TypeInv, NEW t \in Threads, WriteTask(t)
  PROVE  LET e == Head(todo[t])
         IN  \/ state' = state /\ (Planned => e.plan # state.plan)
             \/ /\ Planned /\ e.task \in 1..Jobs
                /\ e \in StatusPuts /\ e.value \in TaskStatus
                /\ state' = [state EXCEPT !.tasks =
                     [state.tasks EXCEPT ![e.task] =
                          [state.tasks[e.task] EXCEPT !.status = e.value]]]
             \/ /\ Planned /\ e.task \in 1..Jobs
                /\ e \in ResultPuts /\ e.value \in ToolOutcomes
                /\ state' = [state EXCEPT !.tasks =
                     [state.tasks EXCEPT ![e.task] =
                          [state.tasks[e.task] EXCEPT !.result = e.value]]]
<1> DEFINE e == Head(todo[t])
<1>1. e \in StatusPuts \cup ResultPuts
  BY Facing, Kinds DEF WriteTask
<1>2. \/ state' = state /\ e.plan # state.plan
      \/ state' = [state EXCEPT !.tasks[e.task][e.field] = e.value]
  BY DEF WriteTask
<1>3. CASE ~Planned
  <2>1. state \in [node : Nodes, status : RunStatus, current : 0..Jobs,
                   plan : Nat, tasks : {<<>>}]
    BY <1>3 DEF TypeInv, TypeOK, Planned
  <2>2. state.tasks = <<>> /\ DOMAIN state.tasks = {}
    BY <2>1
  <2>3. [state.tasks EXCEPT ![e.task] = [@ EXCEPT ![e.field] = e.value]] = state.tasks
    BY <2>2
  <2>4. [state EXCEPT !.tasks[e.task][e.field] = e.value] = state
    BY <2>1, <2>3
  <2> QED
    BY <1>2, <1>3, <2>4
<1>4. CASE Planned /\ e \in StatusPuts
  <2>1. e.field = "status" /\ e.value \in TaskStatus /\ e.task \in 1..Jobs
    BY <1>4 DEF StatusPuts
  <2>2. \/ state' = state /\ e.plan # state.plan
        \/ state' = [state EXCEPT !.tasks[e.task]["status"] = e.value]
    BY <1>2, <2>1
  <2>3. \/ state' = state /\ e.plan # state.plan
        \/ state' = [state EXCEPT !.tasks =
                       [state.tasks EXCEPT ![e.task] =
                          [state.tasks[e.task] EXCEPT !.status = e.value]]]
    BY <2>2, InTask
  <2> QED
    BY <1>4, <2>1, <2>3
<1>5. CASE Planned /\ e \in ResultPuts
  <2>1. e.field = "result" /\ e.value \in ToolOutcomes /\ e.task \in 1..Jobs
    BY <1>5 DEF ResultPuts
  <2>2. \/ state' = state /\ e.plan # state.plan
        \/ state' = [state EXCEPT !.tasks[e.task]["result"] = e.value]
    BY <1>2, <2>1
  <2>3. \/ state' = state /\ e.plan # state.plan
        \/ state' = [state EXCEPT !.tasks =
                       [state.tasks EXCEPT ![e.task] =
                          [state.tasks[e.task] EXCEPT !.result = e.value]]]
    BY <2>2, InTask
  <2> QED
    BY <1>5, <2>1, <2>3
<1> QED
  BY <1>1, <1>3, <1>4, <1>5

LEMMA WriteTaskTyped ==
  ASSUME TypeInv, NEW t \in Threads, WriteTask(t)
  PROVE  TypeInv'
<1> DEFINE e == Head(todo[t])
<1>1. /\ state.node # "START" /\ Faces(t, "put") /\ Rest(t) /\ e \notin Choices
      /\ UNCHANGED <<granted, history, row, result, thread, steps, stream, client>>
  BY Facing DEF WriteTask, Choices
<1>2. StateOK /\ Ready
  BY DEF TypeInv, TypeOK, StateOK
<1>3. /\ StateOK' /\ state'.node = state.node /\ state'.current = state.current
      /\ Planned => Planned'
  <2>1. CASE state' = state
    BY <1>1, <1>2, <2>1 DEF StateOK, Planned
  <2>2. ASSUME Planned, NEW k \in 1..Jobs, NEW v \in TaskStatus,
               state' = [state EXCEPT !.tasks =
                           [state.tasks EXCEPT ![k] = [state.tasks[k] EXCEPT !.status = v]]]
        PROVE  /\ StateOK' /\ state'.node = state.node /\ state'.current = state.current
               /\ Planned => Planned'
    <3>1. state.tasks[k] \in TaskRecord
      BY <2>2 DEF Planned
    <3>2. [state.tasks[k] EXCEPT !.status = v] \in TaskRecord
      BY <3>1 DEF TaskRecord, TaskStatus
    <3>3. state'.tasks \in [1..Jobs -> TaskRecord]
      <4> DEFINE r == [state.tasks[k] EXCEPT !.status = v]
      <4>1. state'.tasks = [state.tasks EXCEPT ![k] = r]
        BY <1>2, <2>2 DEF StateOK
      <4>2. r \in TaskRecord /\ state.tasks \in [1..Jobs -> TaskRecord]
        BY <2>2, <3>2 DEF Planned
      <4> HIDE DEF r
      <4> QED
        BY <4>1, <4>2
    <3> QED
      BY <1>1, <1>2, <2>2, <3>3 DEF StateOK, Planned
  <2>3. ASSUME Planned, NEW k \in 1..Jobs, NEW v \in ToolOutcomes,
               state' = [state EXCEPT !.tasks =
                           [state.tasks EXCEPT ![k] = [state.tasks[k] EXCEPT !.result = v]]]
        PROVE  /\ StateOK' /\ state'.node = state.node /\ state'.current = state.current
               /\ Planned => Planned'
    <3>1. state.tasks[k] \in TaskRecord
      BY <2>3 DEF Planned
    <3>2. [state.tasks[k] EXCEPT !.result = v] \in TaskRecord
      BY <3>1 DEF TaskRecord
    <3>3. state'.tasks \in [1..Jobs -> TaskRecord]
      <4> DEFINE r == [state.tasks[k] EXCEPT !.result = v]
      <4>1. state'.tasks = [state.tasks EXCEPT ![k] = r]
        BY <1>2, <2>3 DEF StateOK
      <4>2. r \in TaskRecord /\ state.tasks \in [1..Jobs -> TaskRecord]
        BY <2>3, <3>2 DEF Planned
      <4> HIDE DEF r
      <4> QED
        BY <4>1, <4>2
    <3> QED
      BY <1>1, <1>2, <2>3, <3>3 DEF StateOK, Planned
  <2> QED
    BY <2>1, <2>2, <2>3, TaskWritten
<1>4. Onward /\ Ready' /\ state'.node # "START"
  BY <1>1, <1>2, <1>3 DEF Onward, Ready
<1> QED
  BY <1>1, <1>3, <1>4, ChangeTyped

LEMMA StorePlanTyped ==
  ASSUME TypeInv, NEW t \in Threads, StorePlan(t)
  PROVE  TypeInv'
<1> DEFINE e == Head(todo[t])
<1>1. /\ state.node # "START" /\ Faces(t, "plan") /\ Rest(t) /\ e \notin Choices
      /\ UNCHANGED <<granted, history, row, result, thread, steps, stream, client>>
  BY Facing DEF StorePlan, Choices
<1>2. StateOK /\ Ready
  BY DEF TypeInv, TypeOK, StateOK
<1> DEFINE fresh == [k \in 1..Jobs |-> [status |-> "pending", result |-> "none"]]
<1>3. fresh \in [1..Jobs -> TaskRecord]
  BY DEF TaskRecord
<1>4. state' = [state EXCEPT !.plan = @ + 1, !.tasks = fresh]
  BY DEF StorePlan
<1> HIDE DEF fresh
<1>5. StateOK' /\ Planned' /\ state'.node = state.node /\ state'.current = state.current
  <2>1. /\ state'.plan = state.plan + 1 /\ state'.tasks = fresh
        /\ state'.node = state.node /\ state'.current = state.current
        /\ state'.status = state.status
    BY <1>2, <1>4 DEF StateOK
  <2>2. state.plan + 1 \in Nat
    BY <1>2 DEF StateOK
  <2> QED
    BY <1>1, <1>2, <1>3, <1>4, <2>1, <2>2 DEF StateOK, Planned
<1>6. Onward /\ Ready' /\ state'.node # "START"
  BY <1>1, <1>2, <1>5 DEF Onward, Ready
<1> QED
  BY <1>1, <1>5, <1>6, ChangeTyped

\* An event is appended.
LEMMA Emitted ==
  ASSUME TypeInv, NEW t \in Threads, Emit(t)
  PROVE  LET e == Head(todo[t])
             event == [type |-> e.type, task |-> e.task]
         IN  /\ e \in Emits /\ e.type \in EventTypes /\ e.task \in 0..Jobs
             /\ event \in Event /\ Len(history) \in Nat
             /\ history' \in Seq(Event) /\ Len(history') = Len(history) + 1
             /\ \A i \in 1 .. Len(history) : history'[i] = history[i]
             /\ history'[Len(history) + 1] = event
<1> DEFINE e == Head(todo[t])
           event == [type |-> e.type, task |-> e.task]
<1>1. e \in Emits
  BY Facing, Kinds DEF Emit
<1>2. e.type \in EventTypes /\ e.task \in 0..Jobs /\ event \in Event
  BY <1>1 DEF Emits, Event
<1>3. history' = Append(history, event) /\ history \in Seq(Event)
  BY DEF Emit, TypeInv, TypeOK
<1> HIDE DEF event
<1>4. /\ Len(history) \in Nat
      /\ history' \in Seq(Event) /\ Len(history') = Len(history) + 1
      /\ \A i \in 1 .. Len(history) : history'[i] = history[i]
      /\ history'[Len(history) + 1] = event
  BY <1>2, <1>3, AppendProperties, LenProperties
<1> QED
  BY <1>1, <1>2, <1>4 DEF event

LEMMA EmitTyped ==
  ASSUME TypeInv, NEW t \in Threads, Emit(t)
  PROVE  TypeInv'
<1> DEFINE e == Head(todo[t])
<1>1. /\ thread[t] = "driving" /\ todo[t] \in Seq(Effect) /\ todo[t] # <<>>
      /\ e \in Range(todo[t]) /\ Tail(todo[t]) \in Seq(Effect) /\ state.node # "START"
  BY Facing DEF Emit
<1>2. /\ todo' = [todo EXCEPT ![t] = Tail(todo[t])] /\ thread' = thread
      /\ UNCHANGED <<state, granted, row, result, steps, stream, client>>
  BY DEF Emit, Rest, agent
<1>3. /\ e \in Emits /\ history' \in Seq(Event) /\ Len(history') = Len(history) + 1
      /\ \A i \in 1 .. Len(history) : history'[i] = history[i]
      /\ Len(history) \in Nat
      /\ history'[Len(history) + 1] = [type |-> e.type, task |-> e.task]
  BY Emitted
<1>4. StateOK' /\ Onward /\ Ready' /\ state'.node # "START"
  BY <1>1, <1>2 DEF TypeInv, TypeOK, StateOK, Onward, Ready, Planned
<1>5. Ripe(t)'
  <2>1. todo'[t] = Tail(todo[t])
    BY <1>2 DEF TypeInv
  <2>2. e \notin Results /\ e \notin Choices
    BY <1>3 DEF Emits, Results, Choices
  <2> QED
    BY <1>1, <1>4, <2>1, <2>2, RipeRest DEF TypeInv
<1>6. GatedAsk'
  <2> SUFFICES ASSUME NEW i \in DOMAIN history', history'[i].type = "APPROVAL_REQUIRED"
               PROVE  history'[i].task \in Gated
    BY DEF GatedAsk, Occurs
  <2>1. i \in 1 .. Len(history) + 1
    BY <1>3
  <2>2. CASE i \in 1 .. Len(history)
    <3>1. history[i].type = "APPROVAL_REQUIRED" /\ i \in DOMAIN history
      BY <1>3, <2>2 DEF TypeInv, TypeOK
    <3> QED
      BY <1>3, <2>2, <3>1 DEF TypeInv, GatedAsk, Occurs
  <2>3. CASE i = Len(history) + 1
    <3>1. e.type = "APPROVAL_REQUIRED" /\ history'[i].task = e.task
      BY <1>3, <2>3
    <3> QED
      BY <1>1, <1>3, <3>1 DEF TypeInv, Ripe
  <2> QED
    BY <1>3, <2>1, <2>2, <2>3
<1>7. /\ row' \in [node : Nodes, status : RunStatus]
      /\ result' \in {"none"} \cup RunStatus /\ steps' \in [Threads -> 0..MaxSteps]
      /\ UNCHANGED <<stream, client>>
  BY <1>2 DEF TypeInv, TypeOK
<1> QED
  BY <1>1, <1>2, <1>3, <1>4, <1>5, <1>6, <1>7, ThreadStep

LEMMA SaveTyped ==
  ASSUME TypeInv, NEW t \in Threads, Save(t)
  PROVE  TypeInv'
<1> DEFINE e == Head(todo[t])
<1>1. /\ thread[t] = "driving" /\ todo[t] \in Seq(Effect) /\ todo[t] # <<>>
      /\ e.do = "save" /\ Tail(todo[t]) \in Seq(Effect) /\ state.node # "START"
  BY Facing DEF Save
<1>2. /\ todo' = [todo EXCEPT ![t] = Tail(todo[t])] /\ thread' = thread
      /\ row' = [node |-> state.node, status |-> state.status]
      /\ UNCHANGED <<state, granted, history, result, steps, stream, client>>
  BY DEF Save, Rest, agent
<1>3. StateOK' /\ Onward /\ Ready' /\ GatedAsk' /\ state'.node # "START"
  BY <1>1, <1>2 DEF TypeInv, TypeOK, StateOK, Onward, Ready, GatedAsk, Planned, Occurs
<1>4. Ripe(t)'
  <2>1. todo'[t] = Tail(todo[t])
    BY <1>2 DEF TypeInv
  <2>2. e \notin Results /\ e \notin Choices
    BY <1>1 DEF Results, Choices
  <2> QED
    BY <1>1, <1>3, <2>1, <2>2, RipeRest DEF TypeInv
<1>5. /\ row' \in [node : Nodes, status : RunStatus] /\ history' \in Seq(Event)
      /\ result' \in {"none"} \cup RunStatus /\ steps' \in [Threads -> 0..MaxSteps]
      /\ UNCHANGED <<stream, client>>
  BY <1>2 DEF TypeInv, TypeOK
<1> QED
  BY <1>1, <1>2, <1>3, <1>4, <1>5, ThreadStep

LEMMA SpawnTyped ==
  ASSUME TypeInv, NEW A \in SUBSET Gated, Spawn(A),
         starts' \in 0..Starts, answered' \in Nat
  PROVE  TypeInv'
<1> DEFINE e == [do |-> "resume", tools |-> A]
<1>1. PICK t \in Threads :
        /\ thread[t] = "none" /\ thread' = [thread EXCEPT ![t] = "driving"]
        /\ todo' = [todo EXCEPT ![t] = <<e>>]
  BY DEF Spawn
<1>2. UNCHANGED <<state, granted, history, row, result, steps, stream>>
  BY DEF Spawn, agent
<1>3. e \in Effect /\ e \notin ToWork /\ e \notin Emits /\ e.do = "resume"
  BY DEF Effect, Resumes, ToWork, Emits
<1> HIDE DEF e
<1>4. <<e>> \in Seq(Effect) /\ <<e>> # <<>> /\ Head(<<e>>) = e
  BY <1>3, One
<1>5. todo' \in [Threads -> Seq(Effect)] /\ todo'[t] = <<e>>
      /\ \A u \in Threads \ {t} : todo'[u] = todo[u]
  BY <1>1, <1>4 DEF TypeInv
<1>6. thread' \in [Threads -> {"none", "driving", "returned"}] /\ thread'[t] = "driving"
      /\ \A u \in Threads \ {t} : thread'[u] = thread[u]
  BY <1>1 DEF TypeInv, TypeOK
<1>7. \A u \in Threads : thread'[u] # "driving" => todo'[u] = <<>>
  BY <1>5, <1>6 DEF TypeInv, TypeOK
<1>8. TypeOK'
  BY <1>2, <1>6, <1>7 DEF TypeInv, TypeOK
<1>9. ASSUME NEW u \in Threads PROVE Ripe(u)'
  <2>1. CASE u = t
    BY <1>3, <1>5, <2>1, RipeSingle
  <2>2. CASE u # t
    BY <1>2, <1>5, <2>2, RipeStays DEF TypeInv, Onward, Planned
  <2> QED
    BY <2>1, <2>2
<1>10. Ready' /\ GatedAsk'
  BY <1>2 DEF TypeInv, Ready, Planned, GatedAsk, Occurs
<1>11. Fresh'
  <2> SUFFICES ASSUME state'.node = "START", NEW u \in Threads, thread'[u] = "driving"
               PROVE  todo'[u] # <<>> /\ Head(todo'[u]).do = "resume"
    BY DEF Fresh
  <2>1. CASE u = t
    BY <1>3, <1>4, <1>5, <2>1
  <2>2. CASE u # t
    BY <1>2, <1>5, <1>6, <2>2 DEF TypeInv, Fresh
  <2> QED
    BY <2>1, <2>2
<1> QED
  BY <1>5, <1>8, <1>9, <1>10, <1>11 DEF TypeInv

LEMMA ClientTyped ==
  ASSUME TypeInv, PostStart \/ PostApprove
  PROVE  TypeInv'
<1>1. CASE PostStart
  <2>1. starts' = starts + 1 /\ starts < Starts /\ answered' = answered /\ Spawn({})
    BY <1>1 DEF PostStart
  <2>2. starts \in 0..Starts /\ Starts \in Nat /\ answered \in Nat
    BY ServiceAssumption DEF TypeInv, TypeOK
  <2>3. starts' \in 0..Starts /\ answered' \in Nat
    <3>1. starts + 1 \in 0..Starts
      BY <2>1, <2>2
    <3> QED
      BY <2>1, <2>2, <3>1
  <2> QED
    BY <2>1, <2>3, SpawnTyped
<1>2. CASE PostApprove
  <2>1. PICK i \in LastRequests : answered' = i /\ Spawn({history[i].task})
    BY <1>2 DEF PostApprove
  <2>2. i \in Occurs("APPROVAL_REQUIRED")
    BY DEF LastRequests
  <2>3. i \in Nat
    BY <2>2 DEF Occurs, TypeInv, TypeOK
  <2>4. {history[i].task} \in SUBSET Gated
    BY <2>2 DEF TypeInv, GatedAsk
  <2>5. starts' \in 0..Starts
    BY <1>2 DEF PostApprove, TypeInv, TypeOK
  <2> QED
    BY <2>1, <2>3, <2>4, <2>5, SpawnTyped
<1> QED
  BY <1>1, <1>2

LEMMA DriveTyped ==
  ASSUME TypeInv, NEW t \in Threads, Drive(t)
  PROVE  TypeInv'
BY ResumeTyped, LoopTyped, DispatchTyped, PauseTyped, LeaveLoopTyped, StoreResultTyped,
   WriteTyped, WriteTaskTyped, StorePlanTyped, EmitTyped, SaveTyped, TryCallTyped,
   ContinueTyped DEF Drive

-----------------------------------------------------------------------------
(* The stream.                                                             *)

\* What was delivered is the part of the history from where the client began
\* to where the stream is, and the history only grows behind that.
StreamInv ==
  /\ stream \in [at : {"unopened", "replay", "check", "flush", "closed"},
                 from : Nat, last : Nat, got : Seq(Event),
                 end : {"none"} \cup Closing]
  /\ stream.from <= stream.last /\ stream.last <= Len(history)
  /\ StreamIsReplay
  /\ stream.at = "unopened" => stream.got = <<>>

LEMMA InitStream == Init => StreamInv
<1> SUFFICES ASSUME Init PROVE StreamInv
  OBVIOUS
<1>1. SubSeq(history, 1, 0) = <<>>
  BY SubSeqEmpty
<1> QED
  BY <1>1 DEF Init, StreamInv, StreamIsReplay

\* The stream and the history it was taken from, when the history goes on.
LEMMA LongerHistory ==
  ASSUME NEW h \in Seq(Event), NEW e \in Event, NEW m \in Nat, NEW n \in Nat,
         m <= n, n <= Len(h)
  PROVE  SubSeq(Append(h, e), m + 1, n) = SubSeq(h, m + 1, n)
<1>1. Append(h, e) = h \o <<e>> /\ <<e>> \in Seq(Event) /\ Len(h) \in Nat
  BY AppendIsConcat
<1>2. CASE m = n
  <2>1. n < m + 1 /\ m + 1 \in Int /\ n \in Int
    BY <1>2
  <2> QED
    BY <2>1, SubSeqEmpty
<1>3. CASE m < n
  <2>1. m + 1 \in 1 .. Len(h) /\ n \in 1 .. Len(h)
    BY <1>1, <1>3
  <2> QED
    BY <1>1, <2>1, SubSeqOfConcat1
<1> QED
  BY <1>2, <1>3

LEMMA DriveStream ==
  ASSUME TypeInv, StreamInv, NEW t \in Threads, Drive(t)
  PROVE  StreamInv'
<1>1. stream' = stream
  BY DEF Drive, Resume, Loop, Dispatch, Pause, LeaveLoop, StoreResult, Write, WriteTask,
         StorePlan, Emit, Save, TryCall, Continue
<1>2. CASE history' = history
  BY <1>1, <1>2 DEF StreamInv, StreamIsReplay
<1>3. CASE Emit(t)
  <2> DEFINE e == [type |-> Head(todo[t]).type, task |-> Head(todo[t]).task]
  <2>1. /\ e \in Event /\ Len(history) \in Nat /\ Len(history') = Len(history) + 1
    BY <1>3, Emitted
  <2>2. history' = Append(history, e) /\ history \in Seq(Event)
    BY <1>3 DEF Emit, TypeInv, TypeOK
  <2>3. /\ stream.from \in Nat /\ stream.last \in Nat
        /\ stream.from <= stream.last /\ stream.last <= Len(history)
        /\ stream.got = SubSeq(history, stream.from + 1, stream.last)
    BY DEF StreamInv, StreamIsReplay
  <2> HIDE DEF e
  <2>4. stream.got = SubSeq(Append(history, e), stream.from + 1, stream.last)
    BY <2>1, <2>2, <2>3, LongerHistory
  <2>5. stream.last <= Len(history) + 1
    BY <2>1, <2>3
  <2>6. stream.got = SubSeq(history', stream.from + 1, stream.last)
        /\ stream.last <= Len(history')
    BY <2>1, <2>2, <2>4, <2>5
  <2> QED
    BY <1>1, <2>6 DEF StreamInv, StreamIsReplay
<1>4. history' = history \/ Emit(t)
  BY DEF Drive, Resume, Loop, Dispatch, Pause, LeaveLoop, StoreResult, Write, WriteTask,
         StorePlan, Save, TryCall, Continue
<1> QED
  BY <1>2, <1>3, <1>4

\* A delivery catches up with the history, without a gap.
LEMMA Delivered ==
  ASSUME TypeInv, StreamInv, NEW next \in {"check", "closed"}, Deliver(next),
         history' = history
  PROVE  StreamInv'
<1>1. /\ stream.from \in Nat /\ stream.last \in Nat /\ history \in Seq(Event)
      /\ stream.from <= stream.last /\ stream.last <= Len(history)
      /\ stream.got = SubSeq(history, stream.from + 1, stream.last)
      /\ Len(history) \in Nat
  BY DEF StreamInv, StreamIsReplay, TypeInv, TypeOK
<1> DEFINE got == SubSeq(history, stream.from + 1, Len(history))
<1>2. got \in Seq(Event)
  <2>1. \A i \in stream.from + 1 .. Len(history) : history[i] \in Event
    <3> SUFFICES ASSUME NEW i \in stream.from + 1 .. Len(history)
                 PROVE  history[i] \in Event
      OBVIOUS
    <3>1. i \in 1 .. Len(history)
      BY <1>1
    <3> QED
      BY <1>1, <3>1, ElementOfSeq
  <2>2. stream.from + 1 \in Int /\ Len(history) \in Int
    BY <1>1
  <2> QED
    BY <2>1, <2>2, SubSeqProperties
<1>3. stream.got \o SubSeq(history, stream.last + 1, Len(history)) = got
  <2>1. /\ stream.from + 1 \in 1 .. Len(history) + 1
        /\ stream.last \in (stream.from + 1) - 1 .. Len(history)
        /\ Len(history) \in stream.last .. Len(history)
    BY <1>1
  <2> QED
    BY <1>1, <2>1, ConcatAdjacentSubSeq
<1> HIDE DEF got
<1>4. stream' = [stream EXCEPT !.at = next, !.last = Len(history), !.got = got]
  BY <1>3 DEF Deliver
<1>5. /\ stream'.at = next /\ stream'.from = stream.from
      /\ stream'.last = Len(history) /\ stream'.got = got
      /\ stream' \in [at : {"unopened", "replay", "check", "flush", "closed"},
                      from : Nat, last : Nat, got : Seq(Event),
                      end : {"none"} \cup Closing]
  BY <1>1, <1>2, <1>4 DEF StreamInv
<1>6. stream'.from <= stream'.last /\ stream'.last <= Len(history')
  <2>1. stream.from <= Len(history) /\ Len(history) <= Len(history)
    BY <1>1
  <2> QED
    BY <1>5, <2>1
<1> QED
  BY <1>5, <1>6 DEF StreamInv, StreamIsReplay, got

LEMMA StreamMoves ==
  ASSUME TypeInv, StreamInv, Open \/ Reopen \/ Follow
  PROVE  TypeInv' /\ StreamInv'
<1>1. UNCHANGED <<state, granted, history, row, result, thread, todo, steps, client>>
  BY DEF Open, Reopen, Follow, Replay, CheckStatus, Flush, agent, driver
<1>2. StreamInv'
  <2>1. CASE Open
    <3>1. PICK after \in {0, Len(history)} :
            stream' = [stream EXCEPT !.at = "replay", !.from = after, !.last = after]
      BY <2>1 DEF Open
    <3>2. stream.at = "unopened" /\ Len(history) \in Nat
      BY <2>1 DEF Open, TypeInv, TypeOK
    <3>3. /\ after \in Nat /\ after <= Len(history)
      BY <3>2
    <3>4. stream.got = <<>>
      BY <3>2 DEF StreamInv
    <3>5. SubSeq(history, after + 1, after) = <<>>
      <4>1. after < after + 1 /\ after + 1 \in Int /\ after \in Int
        BY <3>3
      <4> QED
        BY <4>1, SubSeqEmpty
    <3>6. /\ stream'.at = "replay" /\ stream'.from = after /\ stream'.last = after
          /\ stream'.got = stream.got
          /\ stream' \in [at : {"unopened", "replay", "check", "flush", "closed"},
                          from : Nat, last : Nat, got : Seq(Event),
                          end : {"none"} \cup Closing]
      BY <3>1, <3>3 DEF StreamInv
    <3>7. after <= after
      BY <3>3
    <3> QED
      BY <1>1, <3>3, <3>4, <3>5, <3>6, <3>7 DEF StreamInv, StreamIsReplay
  <2>2. CASE Reopen
    BY <1>1, <2>2 DEF Reopen, StreamInv, StreamIsReplay
  <2>3. CASE Replay
    BY <1>1, <2>3, Delivered DEF Replay
  <2>4. CASE CheckStatus
    BY <1>1, <2>4 DEF CheckStatus, StreamInv, StreamIsReplay
  <2>5. CASE Flush
    BY <1>1, <2>5, Delivered DEF Flush
  <2> QED
    BY <2>1, <2>2, <2>3, <2>4, <2>5 DEF Follow
<1>3. TypeOK'
  BY <1>1, <1>2 DEF TypeInv, TypeOK, StreamInv, client
<1>4. ASSUME NEW t \in Threads PROVE Ripe(t)'
  BY <1>1, RipeStays DEF TypeInv, Onward, Planned
<1> QED
  BY <1>1, <1>2, <1>3, <1>4 DEF TypeInv, Ready, Planned, Fresh, GatedAsk, Occurs

LEMMA Step ==
  ASSUME TypeInv, StreamInv, [Next]_vars
  PROVE  TypeInv' /\ StreamInv'
<1>1. CASE PostStart \/ PostApprove
  <2>1. stream' = stream /\ history' = history
    BY <1>1 DEF PostStart, PostApprove, Spawn
  <2>2. StreamInv'
    BY <2>1 DEF StreamInv, StreamIsReplay
  <2> QED
    BY <1>1, <2>2, ClientTyped
<1>2. ASSUME NEW t \in Threads, Drive(t) PROVE TypeInv' /\ StreamInv'
  BY <1>2, DriveTyped, DriveStream
<1>3. CASE Open \/ Reopen \/ Follow
  BY <1>3, StreamMoves
<1>4. CASE UNCHANGED vars
  <2>1. UNCHANGED <<state, granted, history, row, result, thread, todo, steps, stream,
                    starts, answered>>
    BY <1>4 DEF vars, agent, driver, client
  <2>2. ASSUME NEW t \in Threads PROVE Ripe(t)'
    BY <2>1, RipeStays DEF TypeInv, Onward, Planned
  <2>3. TypeOK'
    BY <2>1 DEF TypeInv, TypeOK
  <2>4. StreamInv'
    BY <2>1 DEF StreamInv, StreamIsReplay
  <2> QED
    BY <2>1, <2>2, <2>3, <2>4 DEF TypeInv, Ready, Planned, Fresh, GatedAsk, Occurs
<1> QED
  BY <1>1, <1>2, <1>3, <1>4 DEF Next

LEMMA Typing == Spec => [](TypeInv /\ StreamInv)
<1>1. Init => TypeInv /\ StreamInv
  BY InitTyped, InitStream
<1>2. (TypeInv /\ StreamInv) /\ [Next]_vars => (TypeInv /\ StreamInv)'
  BY Step
<1> QED
  BY <1>1, <1>2, PTL DEF Spec

\* Whatever threads, stream and clients do in which order, each variable keeps
\* its type: no handler finds a state it cannot handle.
THEOREM TypeCorrect == Spec => []TypeOK
<1>1. TypeInv => TypeOK
  BY DEF TypeInv
<1> QED
  BY <1>1, Typing, PTL

\* An SSE subscriber has got, when its connection has caught up to an event,
\* all events since the one it started after, once each and in order, however
\* many threads publish meanwhile and however often it comes back.
THEOREM ReplayIsExact == Spec => []StreamIsReplay
<1>1. StreamInv => StreamIsReplay
  BY DEF StreamInv
<1> QED
  BY <1>1, Typing, PTL

-----------------------------------------------------------------------------
(* The gate and the order.                                                 *)

Asked(k) == \E j \in Occurs("APPROVAL_REQUIRED") : history[j].task = k
Started(k) == \E j \in Occurs("TOOL_STARTED") : history[j].task = k

\* Grants follow requests, and a call that is yet to be made has its grant.
Guarded(t) ==
  \A e \in Range(todo[t]) :
    /\ e \in Resumes => \A k \in e.tools : Asked(k)
    /\ e \in Emits /\ e.type = "TOOL_STARTED" /\ e.task \in Gated => e.task \in granted

GateInv ==
  /\ GateHolds
  /\ \A k \in granted : Asked(k)
  /\ \A t \in Threads : Guarded(t)

\* Nothing is put down for a task, or called after it, before it was called.
Ordered(t) ==
  \A e \in Range(todo[t]) :
    /\ e \in ResultPuts =>
         Started(e.task) \/ Head(todo[t]) = EmitOf("TOOL_STARTED", e.task)
    /\ e \in StatusPuts /\ e.value = "completed" => Started(e.task)
    /\ e \in Choices => \A k \in 1 .. e.value - 1 : Started(k)
    /\ e \in Emits /\ e.type = "TOOL_STARTED" => \A k \in 1 .. e.task - 1 : Started(k)

OrderInv ==
  /\ OrderKept
  /\ \A t \in Threads : Ordered(t)
  /\ \A k \in 1 .. state.current - 1 : Started(k)
  /\ Planned => \A k \in 1..Jobs :
       (state.tasks[k].result # "none" \/ state.tasks[k].status = "completed")
         => Started(k)

\* What a step of a thread does to what it has yet to do: it goes on to the
\* next effect, decides on a script, or takes up an effect that says nothing
\* of tasks.
Ways(what) == IF what = "FAILURE" THEN Failure ELSE Scripts(what)
Turns == Results \cup {Leave, [do |-> "dispatch"]}
WentOn(t) == todo[t] # <<>> /\ todo'[t] = Tail(todo[t])
Chose(t) ==
  /\ UNCHANGED <<state, granted, history>>
  /\ \E what \in Handlers \cup {"FAILURE"} :
       /\ \A e \in Range(todo'[t]) : Grounded(e, todo'[t], what)
       /\ todo'[t] # <<>> /\ todo'[t] \in Ways(what)
       /\ what \in Nodes => Faces(t, "dispatch") /\ what = state.node
       /\ what = "JUDGE" => Then("JUDGE") \in Range(todo[t])
TookUp(t) ==
  /\ UNCHANGED <<granted, history>>
  /\ state'.tasks = state.tasks /\ state'.current = state.current
  /\ \E e \in Turns : Range(todo'[t]) = {e}

LEMMA TookUpIf ==
  ASSUME NEW t \in Threads, NEW e \in Turns, todo'[t] = <<e>>,
         UNCHANGED <<granted, history>>,
         state'.tasks = state.tasks, state'.current = state.current
  PROVE  TookUp(t)
<1>1. Range(<<e>>) = {e}
  <2>1. e \in Effect
    BY Others1 DEF Turns, Effect
  <2> QED
    BY <2>1, One
<1> QED
  BY <1>1 DEF TookUp

LEMMA ThreadMoves ==
  ASSUME TypeInv, NEW t \in Threads, Drive(t)
  PROVE  /\ WentOn(t) \/ Chose(t) \/ TookUp(t)
         /\ \A u \in Threads \ {t} : todo'[u] = todo[u]
         /\ history' = history \/ Emit(t)
         /\ \/ granted' = granted
            \/ Resume(t) /\ granted' = granted \cup Head(todo[t]).tools
<1> DEFINE D == WentOn(t) \/ Chose(t) \/ TookUp(t)
<1>1. todo \in [Threads -> Seq(Effect)]
  BY DEF TypeInv
<1>2. \A u \in Threads \ {t} : todo'[u] = todo[u]
  BY <1>1 DEF Drive, Resume, Loop, Dispatch, Pause, LeaveLoop, StoreResult, Write, WriteTask,
         StorePlan, Emit, Save, TryCall, Continue, Rest, Replace
<1>3. history' = history \/ Emit(t)
  BY DEF Drive, Resume, Loop, Dispatch, Pause, LeaveLoop, StoreResult, Write, WriteTask,
         StorePlan, Save, TryCall, Continue
<1>4. \/ granted' = granted
      \/ Resume(t) /\ granted' = granted \cup Head(todo[t]).tools
  BY DEF Drive, Resume, Loop, Dispatch, Pause, LeaveLoop, StoreResult, Write, WriteTask,
         StorePlan, Emit, Save, TryCall, Continue, agent
<1>5. ASSUME Rest(t), todo[t] # <<>> PROVE D
  BY <1>1, <1>5 DEF Rest, WentOn
<1>6. ASSUME \/ Resume(t) \/ StoreResult(t) \/ Write(t) \/ WriteTask(t) \/ StorePlan(t)
             \/ Emit(t) \/ Save(t)
      PROVE  D
  BY <1>5, <1>6 DEF Resume, StoreResult, Write, WriteTask, StorePlan, Emit, Save, Faces
<1>7. ASSUME NEW s \in Failure, Replace(t, s), UNCHANGED <<state, granted, history>>
      PROVE  D
  <2>1. s # <<>> /\ \A e \in Range(s) : Grounded(e, s, "FAILURE")
    BY FailureIsGrounded
  <2>2. todo'[t] = s
    BY <1>1, <1>7 DEF Replace
  <2> QED
    BY <1>7, <2>1, <2>2 DEF Chose, Ways, Nodes
<1>8. ASSUME NEW what \in Handlers, what \in Working => Planned /\ state.current # 0,
             what \in Nodes => Faces(t, "dispatch") /\ what = state.node,
             what = "JUDGE" => Then("JUDGE") \in Range(todo[t]),
             NEW s \in Scripts(what), Replace(t, s), UNCHANGED <<state, granted, history>>
      PROVE  D
  <2>1. StateOK
    BY DEF TypeInv, TypeOK, StateOK
  <2>2. s # <<>> /\ \A e \in Range(s) : Grounded(e, s, what)
    BY <1>8, <2>1, Decided
  <2>3. todo'[t] = s
    BY <1>1, <1>8 DEF Replace
  <2> QED
    <3>1. what # "FAILURE"
      BY DEF Handlers, Nodes
    <3> QED
      BY <1>8, <2>2, <2>3, <3>1 DEF Chose, Ways
<1>9. ASSUME NEW e \in Turns, Replace(t, <<e>>),
             UNCHANGED <<granted, history>>,
             state'.tasks = state.tasks, state'.current = state.current
      PROVE  D
  <2>1. todo'[t] = <<e>>
    BY <1>1, <1>9 DEF Replace
  <2> QED
    BY <1>9, <2>1, TookUpIf
<1>10. Leave \in Turns /\ [do |-> "dispatch"] \in Turns
  BY DEF Turns
<1>11. ASSUME Loop(t) PROVE D
  <2>1. UNCHANGED <<state, granted, history>>
    BY <1>11 DEF Loop, agent
  <2>2. Replace(t, <<Leave>>) \/ Replace(t, <<[do |-> "dispatch"]>>)
    BY <1>11 DEF Loop
  <2> QED
    BY <1>9, <1>10, <2>1, <2>2
<1>12. ASSUME Pause(t) PROVE D
  <2>1. UNCHANGED <<state, granted, history>> /\ todo[t] # <<>>
    BY <1>12 DEF Pause, agent, Faces
  <2>2. Replace(t, <<Leave>>) \/ Rest(t)
    BY <1>12 DEF Pause
  <2> QED
    BY <1>5, <1>9, <1>10, <2>1, <2>2
<1>13. ASSUME LeaveLoop(t) PROVE D
  <2> DEFINE e == [do |-> "result", status |-> state'.status]
  <2>1. TypeInv'
    BY <1>13, LeaveLoopTyped
  <2>2. e \in Results
    BY <2>1 DEF TypeInv, TypeOK, Results
  <2>3. Replace(t, <<e>>) /\ UNCHANGED <<granted, history>>
    BY <1>13 DEF LeaveLoop
  <2>4. state'.tasks = state.tasks /\ state'.current = state.current
    BY <1>13 DEF LeaveLoop, TypeInv, TypeOK
  <2> HIDE DEF e
  <2> QED
    BY <1>9, <2>2, <2>3, <2>4 DEF Turns
<1>14. ASSUME Dispatch(t) PROVE D
  <2>1. UNCHANGED <<state, granted, history>>
    BY <1>14 DEF Dispatch, agent
  <2>2. state.node # "START"
    BY <1>14, Facing DEF Dispatch
  <2>3. /\ state.node \in Handlers /\ Faces(t, "dispatch")
        /\ state.node \in Working => Planned /\ state.current # 0
        /\ state.node # "JUDGE"
    BY <1>14, <2>2 DEF TypeInv, TypeOK, Ready, Handlers, Dispatch, Nodes
  <2> QED
    BY <1>8, <1>14, <2>1, <2>3 DEF Dispatch
<1>15. ASSUME Continue(t) PROVE D
  <2>1. UNCHANGED <<state, granted, history>>
    BY <1>15 DEF Continue, agent
  <2>2. Head(todo[t]) \in Thens
    BY <1>15, Facing, Kinds DEF Continue
  <2>3. /\ Head(todo[t]).what \in Handlers
        /\ Head(todo[t]).what \notin Working \cup Nodes
    BY <2>2 DEF Handlers, Thens, Working, Nodes
  <2>4. Head(todo[t]).what = "JUDGE" => Then("JUDGE") \in Range(todo[t])
    <3>1. Head(todo[t]) \in Range(todo[t])
      BY <1>15, Facing DEF Continue
    <3> QED
      BY <2>2, <3>1 DEF Thens, Then
  <2> QED
    BY <1>8, <1>15, <2>1, <2>3, <2>4 DEF Continue
<1>16. ASSUME TryCall(t) PROVE D
  <2>1. UNCHANGED <<state, granted, history>> /\ todo[t] # <<>>
    BY <1>16 DEF TryCall, agent, Faces
  <2>2. Rest(t) \/ \E s \in Failure : Replace(t, s)
    BY <1>16 DEF TryCall
  <2> QED
    BY <1>5, <1>7, <2>1, <2>2
<1>17. D
  BY <1>6, <1>11, <1>12, <1>13, <1>14, <1>15, <1>16 DEF Drive
<1> QED
  BY <1>2, <1>3, <1>4, <1>17

\* What was asked for or called stays in the history.
LEMMA Remembered ==
  ASSUME TypeInv, NEW t \in Threads, Drive(t)
  PROVE  /\ \A k : Asked(k) => Asked(k)'
         /\ \A k : Started(k) => Started(k)'
<1>1. CASE history' = history
  BY <1>1 DEF Asked, Started, Occurs
<1>2. CASE Emit(t)
  <2>1. ASSUME NEW type, NEW j \in Occurs(type)
        PROVE  /\ j \in DOMAIN history' /\ history'[j] = history[j]
               /\ history[j].type = type
    <3>1. /\ Len(history') = Len(history) + 1 /\ history' \in Seq(Event)
          /\ Len(history) \in Nat
          /\ \A i \in 1 .. Len(history) : history'[i] = history[i]
      BY <1>2, Emitted
    <3>2. j \in 1 .. Len(history) /\ history[j].type = type
      BY DEF Occurs, TypeInv, TypeOK
    <3>3. DOMAIN history' = 1 .. Len(history')
      BY <3>1
    <3>4. j \in 1 .. Len(history')
      BY <3>1, <3>2
    <3> QED
      BY <3>1, <3>2, <3>3, <3>4
  <2> QED
    BY <2>1 DEF Asked, Started, Occurs
<1> QED
  BY <1>1, <1>2, ThreadMoves

\* An event that is emitted is the last of the history.
LEMMA Latest ==
  ASSUME TypeInv, NEW t \in Threads, Emit(t), NEW i \in DOMAIN history'
  PROVE  LET e == Head(todo[t])
         IN  /\ e \in Emits /\ e \in Range(todo[t])
             /\ \/ i \in DOMAIN history /\ history'[i] = history[i]
                \/ /\ i = Len(history) + 1 /\ i \notin DOMAIN history
                   /\ history'[i].type = e.type /\ history'[i].task = e.task
                   /\ \A j \in DOMAIN history : j < i
<1> DEFINE e == Head(todo[t])
<1>1. /\ Len(history') = Len(history) + 1 /\ history' \in Seq(Event)
      /\ Len(history) \in Nat /\ e \in Emits
      /\ \A j \in 1 .. Len(history) : history'[j] = history[j]
      /\ history'[Len(history) + 1] = [type |-> e.type, task |-> e.task]
  BY Emitted
<1>2. e \in Range(todo[t])
  BY Facing DEF Emit
<1>3. DOMAIN history = 1 .. Len(history) /\ DOMAIN history' = 1 .. Len(history')
  BY <1>1 DEF TypeInv, TypeOK
<1> HIDE DEF e
<1>4. CASE i \in 1 .. Len(history)
  BY <1>1, <1>2, <1>3, <1>4 DEF e
<1>5. CASE i = Len(history) + 1
  <2>1. /\ i \notin 1 .. Len(history) /\ \A j \in 1 .. Len(history) : j < i
    BY <1>1, <1>5
  <2>2. history'[i].type = e.type /\ history'[i].task = e.task
    BY <1>1, <1>5
  <2> QED
    BY <1>1, <1>2, <1>3, <1>5, <2>1, <2>2 DEF e
<1>6. i \in 1 .. Len(history) + 1
  BY <1>1, <1>3
<1> QED
  BY <1>1, <1>4, <1>5, <1>6

LEMMA DriveGate ==
  ASSUME TypeInv, GateInv, NEW t \in Threads, Drive(t)
  PROVE  GateInv'
<1>1. /\ \A k : Asked(k) => Asked(k)'
      /\ granted \subseteq granted'
  BY Remembered, ThreadMoves
<1>2. ASSUME NEW k \in granted' PROVE Asked(k)'
  <2>1. CASE k \in granted
    BY <1>1, <2>1 DEF GateInv
  <2>2. CASE k \notin granted
    <3>1. Resume(t) /\ k \in Head(todo[t]).tools
      BY <2>2, ThreadMoves
    <3>2. Head(todo[t]) \in Resumes /\ Head(todo[t]) \in Range(todo[t])
      BY <3>1, Facing, Kinds DEF Resume
    <3>3. Asked(k)
      BY <3>1, <3>2 DEF GateInv, Guarded
    <3> QED
      BY <1>1, <3>3
  <2> QED
    BY <2>1, <2>2
<1>3. ASSUME NEW u \in Threads PROVE Guarded(u)'
  <2> SUFFICES ASSUME NEW e \in Range(todo'[u])
               PROVE  /\ e \in Resumes => \A k \in e.tools : Asked(k)'
                      /\ e \in Emits /\ e.type = "TOOL_STARTED" /\ e.task \in Gated
                           => e.task \in granted'
    BY DEF Guarded
  <2>1. CASE e \in Range(todo[u])
    BY <1>1, <2>1 DEF GateInv, Guarded
  <2>2. CASE u = t /\ Chose(t)
    <3>1. PICK what : Grounded(e, todo'[t], what)
      BY <2>2 DEF Chose
    <3>2. granted' = granted
      BY <2>2 DEF Chose
    <3> QED
      BY <3>1, <3>2 DEF Grounded, Resumes
  <2>3. CASE u = t /\ TookUp(t)
    <3>1. e \in Turns
      BY <2>3 DEF TookUp
    <3> QED
      BY <3>1 DEF Turns, Leave, Results, Resumes, Emits
  <2>4. u = t /\ WentOn(t) => e \in Range(todo[u])
    BY Shorter DEF WentOn, TypeInv
  <2> QED
    BY <2>1, <2>2, <2>3, <2>4, ThreadMoves
<1>4. GateHolds'
  <2> SUFFICES ASSUME NEW i \in DOMAIN history', history'[i].type = "TOOL_STARTED",
                      history'[i].task \in Gated
               PROVE  /\ history'[i].task \in granted'
                      /\ \E j \in DOMAIN history' :
                           /\ history'[j].type = "APPROVAL_REQUIRED"
                           /\ j < i /\ history'[j].task = history'[i].task
    BY DEF GateHolds, Occurs
  <2>1. CASE history' = history
    BY <1>1, <2>1 DEF GateInv, GateHolds, Occurs
  <2>2. CASE Emit(t)
    <3>1. \A j \in DOMAIN history : j \in DOMAIN history' /\ history'[j] = history[j]
      <4>1. /\ Len(history') = Len(history) + 1 /\ history' \in Seq(Event)
            /\ Len(history) \in Nat
            /\ \A j \in 1 .. Len(history) : history'[j] = history[j]
        BY <2>2, Emitted
      <4>2. DOMAIN history = 1 .. Len(history) /\ DOMAIN history' = 1 .. Len(history')
        BY <4>1 DEF TypeInv, TypeOK
      <4> QED
        BY <4>1, <4>2
    <3>2. CASE i \in DOMAIN history /\ history'[i] = history[i]
      BY <1>1, <3>1, <3>2 DEF GateInv, GateHolds, Occurs
    <3>3. ASSUME i \notin DOMAIN history, NEW e \in Range(todo[t]), e \in Emits,
                 history'[i].type = e.type, history'[i].task = e.task,
                 \A j \in DOMAIN history : j < i
          PROVE  /\ history'[i].task \in granted'
                 /\ \E j \in DOMAIN history' :
                      /\ history'[j].type = "APPROVAL_REQUIRED"
                      /\ j < i /\ history'[j].task = history'[i].task
      <4>1. e.task \in granted
        BY <3>3 DEF GateInv, Guarded
      <4>2. Asked(e.task)
        BY <4>1 DEF GateInv
      <4> QED
        BY <1>1, <3>1, <3>3, <4>1, <4>2 DEF Asked, Occurs
    <3> QED
      BY <2>2, <3>2, <3>3, Latest
  <2> QED
    BY <2>1, <2>2, ThreadMoves
<1> QED
  BY <1>2, <1>3, <1>4 DEF GateInv

LEMMA Below ==
  ASSUME OrderKept, NEW k, Started(k)
  PROVE  \A j \in 1 .. k - 1 : Started(j)
<1>1. PICK i \in Occurs("TOOL_STARTED") : history[i].task = k
  BY DEF Started
<1>2. ASSUME NEW j \in 1 .. k - 1 PROVE Started(j)
  <2>1. \E h \in Occurs("TOOL_STARTED") : h < i /\ history[h].task = j
    BY <1>1 DEF OrderKept
  <2> QED
    BY <2>1 DEF Started
<1> QED
  BY <1>2

LEMMA EmittedStart ==
  ASSUME TypeInv, NEW t \in Threads, Emit(t), NEW k, Head(todo[t]) = EmitOf("TOOL_STARTED", k)
  PROVE  Started(k)'
<1>1. /\ Len(history) \in Nat
      /\ history' \in Seq(Event) /\ Len(history') = Len(history) + 1
      /\ history'[Len(history) + 1]
           = [type |-> Head(todo[t]).type, task |-> Head(todo[t]).task]
  BY Emitted
<1>2. history'[Len(history) + 1].type = "TOOL_STARTED"
      /\ history'[Len(history) + 1].task = k
  BY <1>1 DEF EmitOf
<1>3. DOMAIN history' = 1 .. Len(history') /\ Len(history) + 1 \in 1 .. Len(history')
  BY <1>1
<1> QED
  BY <1>2, <1>3 DEF Started, Occurs

\* Where the tasks and the current task change.
LEMMA StateMoves ==
  ASSUME TypeInv, NEW t \in Threads, Drive(t)
  PROVE  /\ \/ state'.current = state.current
            \/ /\ Head(todo[t]) \in Choices /\ Head(todo[t]) \in Range(todo[t])
               /\ state'.current = Head(todo[t]).value
         /\ state'.tasks = state.tasks \/ WriteTask(t) \/ StorePlan(t)
<1>1. ASSUME Write(t)
      PROVE  /\ \/ state'.current = state.current
                \/ /\ Head(todo[t]) \in Choices /\ Head(todo[t]) \in Range(todo[t])
                   /\ state'.current = Head(todo[t]).value
             /\ state'.tasks = state.tasks
  <2>1. Head(todo[t]) \in Range(todo[t])
    BY <1>1, Facing DEF Write
  <2> QED
    BY <1>1, <2>1, Written, ZenonT(60) DEF TypeInv, TypeOK
<1>2. ASSUME WriteTask(t) \/ StorePlan(t)
      PROVE  state'.current = state.current
  BY <1>2 DEF WriteTask, StorePlan, TypeInv, TypeOK
<1>3. ASSUME Resume(t) \/ LeaveLoop(t)
      PROVE  state'.current = state.current /\ state'.tasks = state.tasks
  BY <1>3 DEF Resume, LeaveLoop, TypeInv, TypeOK
<1>4. ASSUME \/ Loop(t) \/ Dispatch(t) \/ Pause(t) \/ StoreResult(t) \/ Emit(t) \/ Save(t)
             \/ TryCall(t) \/ Continue(t)
      PROVE  state' = state
  BY <1>4 DEF Loop, Dispatch, Pause, StoreResult, Emit, Save, TryCall, Continue, agent
<1> QED
  BY <1>1, <1>2, <1>3, <1>4 DEF Drive

LEMMA DriveOrder ==
  ASSUME TypeInv, OrderInv, NEW t \in Threads, Drive(t)
  PROVE  OrderInv'
<1>1. \A k : Started(k) => Started(k)'
  BY Remembered
<1>2. OrderKept
  BY DEF OrderInv
<1>3. ASSUME NEW u \in Threads PROVE Ordered(u)'
  <2>1. CASE u # t
    <3>1. todo'[u] = todo[u]
      BY <2>1, ThreadMoves
    <3> QED
      BY <1>1, <3>1 DEF OrderInv, Ordered
  <2>2. CASE WentOn(t)
    <3>1. todo[t] # <<>> /\ todo'[t] = Tail(todo[t])
          /\ Range(todo'[t]) \subseteq Range(todo[t])
      BY <2>2, Shorter DEF WentOn, TypeInv
    <3>2. ASSUME NEW e \in Range(todo'[t]), e \in ResultPuts
          PROVE  Started(e.task)'
      <4>1. CASE Started(e.task)
        BY <1>1, <4>1
      <4>2. CASE Head(todo[t]) = EmitOf("TOOL_STARTED", e.task)
        <5>1. Head(todo[t]).do = "emit"
          BY <4>2 DEF EmitOf
        <5>2. Emit(t)
          BY <3>1, <5>1, Taken
        <5> QED
          BY <4>2, <5>2, EmittedStart
      <4> QED
        BY <3>1, <3>2, <4>1, <4>2 DEF OrderInv, Ordered
    <3>3. ASSUME NEW e \in Range(todo'[t])
          PROVE  /\ e \in StatusPuts /\ e.value = "completed" => Started(e.task)'
                 /\ e \in Choices => \A k \in 1 .. e.value - 1 : Started(k)'
                 /\ e \in Emits /\ e.type = "TOOL_STARTED" =>
                      \A k \in 1 .. e.task - 1 : Started(k)'
      BY <1>1, <3>1 DEF OrderInv, Ordered
    <3> QED
      BY <3>2, <3>3, <2>1 DEF Ordered
  <2>3. CASE Chose(t)
    <3>1. PICK what : \A e \in Range(todo'[t]) : Grounded(e, todo'[t], what)
      BY <2>3 DEF Chose
    <3>2. ASSUME NEW e \in Range(todo'[t]), e \in ResultPuts
          PROVE  Head(todo'[t]) = EmitOf("TOOL_STARTED", e.task)
      BY <3>1, <3>2 DEF Grounded
    <3>3. ASSUME NEW e \in Range(todo'[t]), e \in StatusPuts, e.value = "completed"
          PROVE  Started(e.task)'
      <4>1. Planned /\ state.tasks[e.task].result = "ok" /\ e.task \in 1..Jobs
        BY <3>1, <3>3 DEF Grounded, StatusPuts
      <4> QED
        BY <1>1, <4>1 DEF OrderInv
    <3>4. ASSUME NEW e \in Range(todo'[t]), e \in Choices, NEW k \in 1 .. e.value - 1
          PROVE  Started(k)'
      <4>1. /\ Planned /\ e.value \in 1..Jobs /\ Jobs \in Nat
            /\ e.value > 1 => state.tasks[e.value - 1].status = "completed"
        BY <3>1, <3>4, ServiceAssumption DEF Grounded, Choices
      <4>2. e.value > 1 /\ e.value - 1 \in 1..Jobs
        BY <4>1
      <4>3. Started(e.value - 1)
        BY <4>1, <4>2 DEF OrderInv
      <4>4. \A j \in 1 .. (e.value - 1) - 1 : Started(j)
        BY <1>2, <4>3, Below
      <4>5. k = e.value - 1 \/ k \in 1 .. (e.value - 1) - 1
        BY <4>1
      <4> QED
        BY <1>1, <4>3, <4>4, <4>5
    <3>5. ASSUME NEW e \in Range(todo'[t]), e \in Emits, e.type = "TOOL_STARTED",
                 NEW k \in 1 .. e.task - 1
          PROVE  Started(k)'
      BY <1>1, <3>1, <3>5 DEF Grounded, OrderInv
    <3> QED
      BY <2>1, <3>2, <3>3, <3>4, <3>5 DEF Ordered
  <2>4. CASE TookUp(t)
    <3>1. \A e \in Range(todo'[t]) : e \in Turns
      BY <2>4 DEF TookUp
    <3>2. ASSUME NEW e \in Range(todo'[t])
          PROVE  e \notin ResultPuts /\ e \notin StatusPuts /\ e \notin Choices
                 /\ e \notin Emits
      BY <3>1 DEF Turns, Leave, Results, ResultPuts, StatusPuts, Choices, Emits
    <3> QED
      BY <2>1, <3>2 DEF Ordered
  <2> QED
    BY <2>1, <2>2, <2>3, <2>4, ThreadMoves
<1>4. ASSUME NEW k \in 1 .. state'.current - 1 PROVE Started(k)'
  <2>1. CASE state'.current = state.current
    BY <1>1, <1>4, <2>1 DEF OrderInv
  <2>2. CASE /\ Head(todo[t]) \in Choices /\ Head(todo[t]) \in Range(todo[t])
             /\ state'.current = Head(todo[t]).value
    BY <1>1, <1>4, <2>2 DEF OrderInv, Ordered
  <2> QED
    BY <2>1, <2>2, StateMoves
<1>5. ASSUME Planned', NEW k \in 1..Jobs,
             state'.tasks[k].result # "none" \/ state'.tasks[k].status = "completed"
      PROVE  Started(k)'
  <2> DEFINE e == Head(todo[t])
  <2>1. CASE state'.tasks = state.tasks
    BY <1>1, <1>5, <2>1 DEF OrderInv, Planned
  <2>2. CASE StorePlan(t)
    <3>1. state'.tasks = [i \in 1..Jobs |-> [status |-> "pending", result |-> "none"]]
      BY <2>2 DEF StorePlan, TypeInv, TypeOK
    <3> QED
      BY <1>5, <3>1
  <2>3. CASE WriteTask(t)
    <3>1. e \in Range(todo[t]) /\ e.do = "put"
      BY <2>3, Facing DEF WriteTask
    <3>2. CASE state' = state
      BY <1>1, <1>5, <3>2 DEF OrderInv, Planned
    <3>3. ASSUME Planned, e.task \in 1..Jobs, e \in StatusPuts,
                 state' = [state EXCEPT !.tasks =
                            [state.tasks EXCEPT ![e.task] =
                              [state.tasks[e.task] EXCEPT !.status = e.value]]]
          PROVE  Started(k)'
      <4>1. e.value = "completed" => Started(e.task)
        BY <3>1, <3>3 DEF OrderInv, Ordered
      <4> HIDE DEF e
      <4>2. state'.tasks = [state.tasks EXCEPT ![e.task] =
                              [state.tasks[e.task] EXCEPT !.status = e.value]]
        BY <3>3 DEF TypeInv, TypeOK
      <4>3. CASE k # e.task
        <5>1. state'.tasks[k] = state.tasks[k]
          BY <3>3, <4>2, <4>3 DEF Planned
        <5> QED
          BY <1>1, <1>5, <3>3, <5>1 DEF OrderInv
      <4>4. CASE k = e.task
        <5>1. state'.tasks[k] = [state.tasks[k] EXCEPT !.status = e.value]
              /\ state.tasks[k] \in TaskRecord
          BY <3>3, <4>2, <4>4 DEF Planned
        <5>2. state'.tasks[k].result = state.tasks[k].result
              /\ state'.tasks[k].status = e.value
          BY <5>1 DEF TaskRecord
        <5> QED
          BY <1>1, <1>5, <3>3, <4>1, <4>4, <5>2 DEF OrderInv
      <4> QED
        BY <4>3, <4>4
    <3>4. ASSUME Planned, e.task \in 1..Jobs, e \in ResultPuts,
                 state' = [state EXCEPT !.tasks =
                            [state.tasks EXCEPT ![e.task] =
                              [state.tasks[e.task] EXCEPT !.result = e.value]]]
          PROVE  Started(k)'
      <4>1. Started(e.task)
        <5>1. e # EmitOf("TOOL_STARTED", e.task)
          BY <3>1 DEF EmitOf
        <5> QED
          BY <3>1, <3>4, <5>1 DEF OrderInv, Ordered
      <4> HIDE DEF e
      <4>2. state'.tasks = [state.tasks EXCEPT ![e.task] =
                              [state.tasks[e.task] EXCEPT !.result = e.value]]
        BY <3>4 DEF TypeInv, TypeOK
      <4>3. CASE k # e.task
        <5>1. state'.tasks[k] = state.tasks[k]
          BY <3>4, <4>2, <4>3 DEF Planned
        <5> QED
          BY <1>1, <1>5, <3>4, <5>1 DEF OrderInv
      <4>4. CASE k = e.task
        BY <1>1, <4>1, <4>4
      <4> QED
        BY <4>3, <4>4
    <3> QED
      BY <2>3, <3>2, <3>3, <3>4, TaskWritten
  <2> QED
    BY <2>1, <2>2, <2>3, StateMoves
<1>6. OrderKept'
  <2> SUFFICES ASSUME NEW i \in DOMAIN history', history'[i].type = "TOOL_STARTED",
                      NEW k \in 1 .. history'[i].task - 1
               PROVE  \E j \in DOMAIN history' :
                        /\ history'[j].type = "TOOL_STARTED"
                        /\ j < i /\ history'[j].task = k
    BY DEF OrderKept, Occurs
  <2>1. CASE history' = history
    BY <1>2, <2>1 DEF OrderKept, Occurs
  <2>2. CASE Emit(t)
    <3>1. \A j \in DOMAIN history : j \in DOMAIN history' /\ history'[j] = history[j]
      <4>1. /\ Len(history') = Len(history) + 1 /\ history' \in Seq(Event)
            /\ Len(history) \in Nat
            /\ \A j \in 1 .. Len(history) : history'[j] = history[j]
        BY <2>2, Emitted
      <4>2. DOMAIN history = 1 .. Len(history) /\ DOMAIN history' = 1 .. Len(history')
        BY <4>1 DEF TypeInv, TypeOK
      <4> QED
        BY <4>1, <4>2
    <3>2. CASE i \in DOMAIN history /\ history'[i] = history[i]
      BY <1>2, <3>1, <3>2 DEF OrderKept, Occurs
    <3>3. ASSUME NEW e \in Range(todo[t]), e \in Emits,
                 history'[i].type = e.type, history'[i].task = e.task,
                 \A j \in DOMAIN history : j < i
          PROVE  \E j \in DOMAIN history' :
                   /\ history'[j].type = "TOOL_STARTED"
                   /\ j < i /\ history'[j].task = k
      <4>1. Started(k)
        BY <3>3 DEF OrderInv, Ordered
      <4> QED
        BY <3>1, <3>3, <4>1 DEF Started, Occurs
    <3> QED
      BY <2>2, <3>2, <3>3, Latest
  <2> QED
    BY <2>1, <2>2, ThreadMoves
<1> QED
  BY <1>3, <1>4, <1>5, <1>6 DEF OrderInv

\* Clients and the stream spawn threads with grants that were asked for, and
\* change nothing else.
LEMMA OtherSteps ==
  ASSUME TypeInv, GateInv, OrderInv,
         PostStart \/ PostApprove \/ Open \/ Reopen \/ Follow \/ UNCHANGED vars
  PROVE  GateInv' /\ OrderInv'
<1>1. UNCHANGED <<state, granted, history>>
  BY DEF PostStart, PostApprove, Spawn, Open, Reopen, Follow, Replay, CheckStatus, Flush,
         vars, agent
<1>2. ASSUME NEW u \in Threads
      PROVE  \/ todo'[u] = todo[u]
             \/ \E A : /\ todo'[u] = <<[do |-> "resume", tools |-> A]>>
                       /\ \A k \in A : Asked(k)
                       /\ A \in SUBSET Gated
  <2>1. CASE Open \/ Reopen \/ Follow \/ UNCHANGED vars
    BY <2>1 DEF Open, Reopen, Follow, Replay, CheckStatus, Flush, vars, driver
  <2>2. ASSUME NEW A, Spawn(A), \A k \in A : Asked(k), A \in SUBSET Gated
        PROVE  \/ todo'[u] = todo[u]
               \/ \E B : /\ todo'[u] = <<[do |-> "resume", tools |-> B]>>
                         /\ \A k \in B : Asked(k)
                         /\ B \in SUBSET Gated
    <3>1. PICK t \in Threads : todo' = [todo EXCEPT ![t] = <<[do |-> "resume", tools |-> A]>>]
      BY <2>2 DEF Spawn
    <3>2. todo'[u] = todo[u] \/ todo'[u] = <<[do |-> "resume", tools |-> A]>>
      BY <3>1 DEF TypeInv
    <3> QED
      BY <2>2, <3>2
  <2>3. CASE PostStart
    <3>1. Spawn({})
      BY <2>3 DEF PostStart
    <3> QED
      BY <2>2, <3>1
  <2>4. CASE PostApprove
    <3>1. PICK i \in LastRequests : Spawn({history[i].task})
      BY <2>4 DEF PostApprove
    <3>2. i \in Occurs("APPROVAL_REQUIRED")
      BY DEF LastRequests
    <3>3. Asked(history[i].task) /\ {history[i].task} \in SUBSET Gated
      BY <3>2 DEF Asked, TypeInv, GatedAsk
    <3> QED
      BY <2>2, <3>1, <3>3
  <2> QED
    BY <2>1, <2>3, <2>4
<1>3. ASSUME NEW u \in Threads PROVE Guarded(u)' /\ Ordered(u)'
  <2>1. CASE todo'[u] = todo[u]
    BY <1>1, <2>1 DEF GateInv, OrderInv, Guarded, Ordered, Asked, Started, Occurs
  <2>2. ASSUME NEW A \in SUBSET Gated, todo'[u] = <<[do |-> "resume", tools |-> A]>>,
               \A k \in A : Asked(k)
        PROVE  Guarded(u)' /\ Ordered(u)'
    <3> DEFINE e == [do |-> "resume", tools |-> A]
    <3>1. e \in Effect
      BY DEF Effect, Resumes
    <3>2. Range(todo'[u]) = {e}
      BY <2>2, <3>1, One
    <3>3. \A k \in A : Asked(k)'
      BY <1>1, <2>2 DEF Asked, Occurs
    <3>4. Guarded(u)'
      BY <3>2, <3>3 DEF Guarded, Emits
    <3>5. e \notin ResultPuts /\ e \notin StatusPuts /\ e \notin Choices /\ e \notin Emits
      BY DEF ResultPuts, StatusPuts, Choices, Emits
    <3> HIDE DEF e
    <3>6. Ordered(u)'
      BY <3>2, <3>5 DEF Ordered
    <3> QED
      BY <3>4, <3>6
  <2> QED
    BY <1>2, <2>1, <2>2
<1>4. GateHolds' /\ OrderKept' /\ \A k : (Asked(k) => Asked(k)') /\ (Started(k) => Started(k)')
  BY <1>1 DEF GateInv, OrderInv, GateHolds, OrderKept, Asked, Started, Occurs
<1> QED
  BY <1>1, <1>3, <1>4 DEF GateInv, OrderInv, Planned

LEMMA InitGate == Init => GateInv /\ OrderInv
<1> SUFFICES ASSUME Init PROVE GateInv /\ OrderInv
  OBVIOUS
<1>1. /\ history = <<>> /\ granted = {} /\ state.current = 0 /\ state.tasks = <<>>
      /\ \A t \in Threads : todo[t] = <<>>
  BY DEF Init
<1>2. Range(<<>>) = {} /\ \A type : Occurs(type) = {}
  BY <1>1 DEF Range, Occurs
<1>3. \A t \in Threads : Guarded(t) /\ Ordered(t)
  BY <1>1, <1>2 DEF Guarded, Ordered
<1>4. ~Planned
  BY <1>1, ServiceAssumption DEF Planned
<1> QED
  BY <1>1, <1>2, <1>3, <1>4 DEF GateInv, OrderInv, GateHolds, OrderKept

LEMMA Gating == Spec => [](GateInv /\ OrderInv)
<1>1. Init => GateInv /\ OrderInv
  BY InitGate
<1>2. TypeInv /\ StreamInv /\ (GateInv /\ OrderInv) /\ [Next]_vars => (GateInv /\ OrderInv)'
  BY DriveGate, DriveOrder, OtherSteps DEF Next
<1> QED
  BY <1>1, <1>2, Typing, PTL DEF Spec

\* A gated tool is called only after its request was published and a human
\* granted it, with any number of threads driving the run at once, whatever
\* the client waited for before it answered.
THEOREM GateIsKept == Spec => []GateHolds
<1>1. GateInv => GateHolds
  BY DEF GateInv
<1> QED
  BY <1>1, Gating, PTL

\* No thread calls a tool before the tools of all the tasks it depends on were
\* called, by whichever thread: none is skipped although each decides from
\* what it reads of a state that the others write to.
THEOREM OrderIsKept == Spec => []OrderKept
<1>1. OrderInv => OrderKept
  BY DEF OrderInv
<1> QED
  BY <1>1, Gating, PTL

-----------------------------------------------------------------------------
(* The end of a run that has one driver at a time: it is started once, and *)
(* who approves waits for the thread to return.                            *)

Serial == Starts <= 1 /\ ApproveWhen = "returned"

SerialInv ==
  /\ OneDriver
  /\ starts = 0 => history = <<>> /\ \A t \in Threads : thread[t] # "driving"

\* Thread t has only to wind up: to note, save and leave for the end node, or to
\* return the status that is in the row.
Winding(t) ==
  \/ /\ Range(todo[t]) \subseteq Quiet
     /\ state.node = "END" \/ Finish \in Range(todo[t])
  \/ /\ state.node = "END" /\ row.status = state.status
     /\ \/ todo[t] = <<Leave>>
        \/ todo[t] = <<[do |-> "result", status |-> state.status]>>

\* Once the verdict was published, the status stays what it tells, ...
Decision ==
  Told # {} => Judgment /\ \A i \in Told : Agrees(history[i].type)

\* ... the driver winds up, ...
WindsUp ==
  Told # {} => \A t \in Threads : thread[t] = "driving" => Winding(t)

\* ... and the row and the result have it, or will.
Recorded ==
  Told # {} =>
    /\ \/ row.status = state.status
       \/ \E t \in Threads : thread[t] = "driving" /\ Row \in Range(todo[t])
    /\ \/ result = state.status
       \/ \E t \in Threads : thread[t] = "driving"

\* A verdict that is yet to be published is the first one, and true.
Foretold ==
  \A t \in Threads : \A e \in Range(todo[t]) :
    e \in VerdictEmits => Told = {} /\ Announces(todo[t], e)

EndInv == VerdictIsLast /\ Decision /\ WindsUp /\ Recorded /\ Foretold

\* A driver alone: the others have nothing to do.
LEMMA Alone ==
  ASSUME TypeInv, OneDriver, NEW t \in Threads, thread[t] = "driving"
  PROVE  \A u \in Threads \ {t} : thread[u] # "driving" /\ todo[u] = <<>>
BY DEF OneDriver, TypeInv, TypeOK

LEMMA DriveSerial ==
  ASSUME TypeInv, SerialInv, NEW t \in Threads, Drive(t)
  PROVE  SerialInv'
<1>1. thread[t] = "driving"
  BY Taken
<1>2. \A u \in Threads : thread'[u] = "driving" => thread[u] = "driving"
  <2>1. thread' = thread \/ thread' = [thread EXCEPT ![t] = "returned"]
    BY DEF Drive, Resume, Loop, Dispatch, Pause, LeaveLoop, StoreResult, Write, WriteTask,
           StorePlan, Emit, Save, TryCall, Continue
  <2> QED
    BY <2>1 DEF TypeInv, TypeOK
<1>3. starts' = starts
  BY DEF Drive, Resume, Loop, Dispatch, Pause, LeaveLoop, StoreResult, Write, WriteTask,
         StorePlan, Emit, Save, TryCall, Continue, client
<1> QED
  BY <1>1, <1>2, <1>3 DEF SerialInv, OneDriver

\* Which verdicts a step of a thread adds to those that were published.
LEMMA ToldMoves ==
  ASSUME TypeInv, NEW t \in Threads, Drive(t)
  PROVE  /\ \A i \in Told : i \in Told' /\ history'[i] = history[i]
         /\ \A i \in Told' :
              \/ i \in Told
              \/ /\ Emit(t) /\ Head(todo[t]) \in VerdictEmits
                 /\ history'[i].type = Head(todo[t]).type
                 /\ \A j \in DOMAIN history' : j <= i
<1>1. CASE history' = history
  BY <1>1 DEF Told
<1>2. CASE Emit(t)
  <2>1. /\ Len(history') = Len(history) + 1 /\ history' \in Seq(Event)
        /\ Len(history) \in Nat
        /\ \A i \in 1 .. Len(history) : history'[i] = history[i]
    BY <1>2, Emitted
  <2>2. DOMAIN history = 1 .. Len(history) /\ DOMAIN history' = 1 .. Len(history')
    BY <2>1 DEF TypeInv, TypeOK
  <2>3. \A i \in DOMAIN history : i \in DOMAIN history' /\ history'[i] = history[i]
    BY <2>1, <2>2
  <2>4. ASSUME NEW i \in DOMAIN history', i \notin DOMAIN history,
               history'[i].type \in Verdicts
        PROVE  /\ Head(todo[t]) \in VerdictEmits /\ history'[i].type = Head(todo[t]).type
               /\ \A j \in DOMAIN history' : j <= i
    <3>1. Head(todo[t]) \in Emits /\ history'[i].type = Head(todo[t]).type
          /\ i = Len(history) + 1
      BY <1>2, <2>4, Latest
    <3>2. Head(todo[t]) \in VerdictEmits
      BY <2>4, <3>1 DEF Emits, VerdictEmits
    <3>3. \A j \in 1 .. Len(history') : j <= i
      BY <2>1, <3>1
    <3> QED
      BY <2>2, <3>1, <3>2, <3>3
  <2> QED
    BY <1>2, <2>3, <2>4 DEF Told
<1> QED
  BY <1>1, <1>2, ThreadMoves

\* The verdicts that are yet to be published.
LEMMA DriveForetold ==
  ASSUME TypeInv, SerialInv, Foretold, NEW t \in Threads, Drive(t), thread[t] = "driving",
         Told = {},
         NEW s, s = todo'[t], NEW e \in Range(s), e \in VerdictEmits
  PROVE  Announces(s, e)' /\ ~Emit(t)
<1>1. CASE Chose(t)
  <2>1. PICK what : Grounded(e, s, what)
    BY <1>1 DEF Chose
  <2>2. Announces(s, e) /\ state' = state /\ history' = history
    BY <1>1, <2>1 DEF Chose, Grounded
  <2>3. ~Emit(t)
    <3>1. Emit(t) => Len(history') = Len(history) + 1 /\ Len(history) \in Nat
      BY Emitted
    <3> QED
      BY <2>2, <3>1
  <2> QED
    BY <2>2, <2>3 DEF Announces, Judgment, Agrees
<1>2. CASE TookUp(t)
  BY <1>2 DEF TookUp, Turns, Leave, Results, VerdictEmits
<1>3. CASE WentOn(t)
  <2>1. /\ todo[t] \in Seq(Effect) /\ todo[t] # <<>> /\ s = Tail(todo[t])
        /\ e \in Range(todo[t])
    BY <1>3, Shorter DEF WentOn, TypeInv
  <2>2. Announces(todo[t], e)
    BY <2>1 DEF Foretold
  <2>3. e \notin Quiet
    BY DEF VerdictEmits, Verdicts, Quiet, Row, MemoryNote, EmitOf, Finish, Set, Look
  <2>4. /\ e.type = "OBJECTIVE_FAILED" /\ Head(todo[t]) = Set("status", "failed")
        /\ Pronounces(s, e)
    BY <2>1, <2>2, <2>3 DEF Announces, Pronounces
  <2>5. Head(todo[t]).do = "set" /\ Head(todo[t]).field = "status"
        /\ Head(todo[t]).value = "failed"
    BY <2>4 DEF Set
  <2>6. Write(t) /\ ~Emit(t)
    BY <2>1, <2>5, Taken
  <2>7. state'.status = "failed"
    BY <2>5, <2>6 DEF Write, TypeInv, TypeOK
  <2> QED
    BY <2>4, <2>6, <2>7 DEF Announces, Judgment, Agrees, Pronounces
<1> QED
  BY <1>1, <1>2, <1>3, ThreadMoves

\* The verdict is published.
LEMMA Pronounced ==
  ASSUME TypeInv, SerialInv, EndInv, NEW t \in Threads, Drive(t), thread[t] = "driving",
         Told = {}, Told' # {}
  PROVE  EndInv'
<1> DEFINE e == Head(todo[t])
           rest == Tail(todo[t])
<1>1. \A i \in Told' :
        /\ Emit(t) /\ e \in VerdictEmits /\ history'[i].type = e.type
        /\ \A j \in DOMAIN history' : j <= i
  BY ToldMoves
<1>2. Emit(t) /\ e \in VerdictEmits /\ e \in Range(todo[t])
  BY <1>1, Facing DEF Emit
<1>3. Announces(todo[t], e)
  BY <1>2 DEF EndInv, Foretold
<1>4. Judgment /\ Agrees(e.type) /\ Pronounces(todo[t], e)
  BY <1>2, <1>3 DEF Announces, VerdictEmits, Set
<1>5. /\ state' = state /\ thread' = thread /\ todo'[t] = rest
      /\ \A u \in Threads \ {t} : todo'[u] = <<>> /\ thread'[u] # "driving"
  BY <1>2, Alone DEF Emit, Rest, agent, TypeInv, SerialInv
<1>6. Range(todo'[t]) \subseteq Quiet /\ Finish \in Range(todo'[t]) /\ Row \in Range(todo'[t])
  BY <1>4, <1>5 DEF Pronounces
<1> HIDE DEF e, rest
<1>7. VerdictIsLast'
  <2> SUFFICES ASSUME NEW i \in Told', NEW j \in DOMAIN history', j > i
               PROVE  FALSE
    BY DEF VerdictIsLast
  <2>1. j <= i /\ i \in DOMAIN history' /\ DOMAIN history' \subseteq Nat
    <3>1. history' \in Seq(Event)
      BY <1>2, Emitted
    <3> QED
      BY <1>1, <3>1 DEF Told
  <2>2. i \in Nat /\ j \in Nat
    BY <2>1
  <2> QED
    BY <2>1, <2>2
<1>8. Decision'
  BY <1>1, <1>4, <1>5 DEF Decision, Judgment, Agrees
<1>9. WindsUp'
  BY <1>5, <1>6 DEF WindsUp, Winding
<1>10. Recorded'
  BY <1>5, <1>6 DEF Recorded
<1>11. Foretold'
  <2>1. \A u \in Threads \ {t} : Range(todo'[u]) = {}
    BY <1>5 DEF Range
  <2>2. \A f \in Quiet : f \notin VerdictEmits
    BY DEF VerdictEmits, Verdicts, Quiet, Row, MemoryNote, EmitOf, Finish, Set, Look
  <2> QED
    BY <1>6, <2>1, <2>2 DEF Foretold
<1> QED
  BY <1>7, <1>8, <1>9, <1>10, <1>11 DEF EndInv

\* What a driver does after the verdict.
LEMMA WindingStep ==
  ASSUME TypeInv, SerialInv, EndInv, NEW t \in Threads, Drive(t), thread[t] = "driving",
         Told # {}
  PROVE  /\ state'.status = state.status
         /\ Emit(t) => Head(todo[t]) = MemoryNote
         /\ Range(todo'[t]) \subseteq Quiet \cup Others \cup Results
         /\ thread'[t] = "driving" => Winding(t)'
         /\ thread'[t] # "driving" => row'.status = state.status /\ result' = state.status
         /\ \/ row'.status = state.status
            \/ /\ thread'[t] = "driving" /\ Row \in Range(todo'[t])
               /\ row' = row
<1> DEFINE e == Head(todo[t])
<1>1. /\ Judgment /\ Winding(t)
      /\ row.status = state.status \/ Row \in Range(todo[t])
  BY Alone DEF EndInv, Decision, WindsUp, Recorded, SerialInv
<1>2. todo \in [Threads -> Seq(Effect)] /\ thread \in [Threads -> {"none", "driving", "returned"}]
      /\ StateOK /\ row \in [node : Nodes, status : RunStatus]
  BY DEF TypeInv, TypeOK, StateOK
<1>3. CASE todo[t] = <<>>
  <2>1. Range(todo[t]) = {}
    BY <1>3 DEF Range
  <2>2. state.node = "END" /\ row.status = state.status
    BY <1>1, <1>3, <2>1 DEF Winding
  <2>3. Loop(t)
    BY <1>3, Taken
  <2>4. todo'[t] = <<Leave>> /\ UNCHANGED <<state, row, thread>> /\ ~Emit(t)
    BY <1>2, <1>3, <2>2, <2>3 DEF Loop, Replace, agent, Emit, Faces
  <2>5. Range(todo'[t]) = {Leave} /\ Leave \in Others
    BY <2>4, Others1, One DEF Others, Leave
  <2> QED
    BY <2>2, <2>4, <2>5 DEF Winding
<1>4. CASE todo[t] # <<>> /\ Range(todo[t]) \subseteq Quiet
           /\ (state.node = "END" \/ Finish \in Range(todo[t]))
  <2>1. /\ e \in Quiet /\ Range(Tail(todo[t])) \subseteq Quiet
        /\ Range(todo[t]) = {e} \cup Range(Tail(todo[t]))
    BY <1>2, <1>4, Shorter
  <2>2. CASE e = Row
    <3>1. Save(t)
      BY <1>4, <2>2, Taken DEF Row
    <3>2. /\ todo'[t] = Tail(todo[t]) /\ UNCHANGED <<state, thread>>
          /\ row'.status = state.status /\ ~Emit(t)
      BY <1>2, <2>2, <3>1 DEF Save, Rest, agent, Emit, Faces, Row
    <3>3. Finish # Row
      BY DEF Finish, Row, Set
    <3>4. Winding(t)'
      BY <1>4, <2>1, <2>2, <3>2, <3>3 DEF Winding
    <3> QED
      BY <2>1, <3>2, <3>4
  <2>3. CASE e = MemoryNote
    <3>1. Emit(t)
      BY <1>4, <2>3, Taken DEF MemoryNote, EmitOf
    <3>2. todo'[t] = Tail(todo[t]) /\ UNCHANGED <<state, row, thread>>
      BY <1>2, <3>1 DEF Emit, Rest, agent
    <3>3. Finish # MemoryNote /\ Row # MemoryNote
      BY DEF Finish, Row, Set, MemoryNote, EmitOf
    <3>4. Winding(t)'
      BY <1>4, <2>1, <2>3, <3>2, <3>3 DEF Winding
    <3>5. row.status = state.status \/ Row \in Range(todo'[t])
      BY <1>1, <2>1, <2>3, <3>2, <3>3
    <3> QED
      BY <2>1, <2>3, <3>2, <3>4, <3>5
  <2>4. CASE e = Finish
    <3>1. Write(t)
      BY <1>4, <2>4, Taken DEF Finish, Set
    <3>2. /\ todo'[t] = Tail(todo[t]) /\ UNCHANGED <<row, thread>>
          /\ state' = [state EXCEPT !.node = "END"] /\ ~Emit(t)
      <4>1. e.do = "set" /\ e.field = "node" /\ e.value = "END"
        BY <2>4 DEF Finish, Set
      <4>2. todo'[t] = Tail(todo[t]) /\ UNCHANGED <<row, thread>>
            /\ state' = [state EXCEPT ![e.field] = e.value]
        BY <1>2, <3>1 DEF Write, Rest
      <4>3. ~Emit(t)
        BY <4>1 DEF Emit, Faces
      <4> QED
        BY <4>1, <4>2, <4>3
    <3>3. state'.node = "END" /\ state'.status = state.status
      BY <1>2, <3>2 DEF StateOK
    <3>4. Row # Finish
      BY DEF Finish, Row, Set
    <3>5. Winding(t)'
      BY <2>1, <3>2, <3>3 DEF Winding
    <3>6. row.status = state.status \/ Row \in Range(todo'[t])
      BY <1>1, <2>1, <2>4, <3>2, <3>4
    <3> QED
      BY <2>1, <3>2, <3>3, <3>5, <3>6
  <2>5. CASE e = Look
    <3>1. Pause(t)
      BY <1>4, <2>5, Taken DEF Look
    <3>2. todo'[t] = Tail(todo[t]) /\ UNCHANGED <<state, row, thread>> /\ ~Emit(t)
      BY <1>1, <1>2, <2>5, <3>1 DEF Pause, Rest, agent, Judgment, Emit, Faces, Look
    <3>3. Row # Look /\ Finish # Look
      BY DEF Finish, Row, Set, Look
    <3>4. Winding(t)'
      BY <1>4, <2>1, <2>5, <3>2, <3>3 DEF Winding
    <3>5. row.status = state.status \/ Row \in Range(todo'[t])
      BY <1>1, <2>1, <2>5, <3>2, <3>3
    <3> QED
      BY <2>1, <3>2, <3>4, <3>5
  <2> QED
    BY <2>1, <2>2, <2>3, <2>4, <2>5 DEF Quiet
<1>5. CASE todo[t] = <<Leave>> /\ state.node = "END" /\ row.status = state.status
  <2>1. LeaveLoop(t)
    <3>1. todo[t] # <<>> /\ Head(todo[t]) = Leave
      BY <1>5
    <3> QED
      BY <3>1, Taken DEF Leave
  <2>2. state'.status = state.status /\ state'.node = "END"
        /\ UNCHANGED <<row, thread>> /\ ~Emit(t)
    BY <1>1, <1>2, <1>5, <2>1 DEF LeaveLoop, StateOK, Judgment, Emit, Faces
  <2>3. todo'[t] = <<[do |-> "result", status |-> state'.status]>>
    BY <1>2, <2>1 DEF LeaveLoop, Replace
  <2>4. [do |-> "result", status |-> state'.status] \in Results
        /\ [do |-> "result", status |-> state'.status] \in Effect
    BY <1>2, <2>2 DEF StateOK, Results, Effect
  <2>5. Range(todo'[t]) = {[do |-> "result", status |-> state'.status]}
    BY <2>3, <2>4, One
  <2>6. Winding(t)'
    BY <1>5, <2>2, <2>3 DEF Winding
  <2> QED
    BY <1>5, <2>2, <2>4, <2>5, <2>6
<1>6. CASE todo[t] = <<[do |-> "result", status |-> state.status]>>
           /\ row.status = state.status
  <2>1. StoreResult(t)
    BY <1>6, Taken
  <2>2. /\ UNCHANGED <<state, row>> /\ result' = state.status /\ thread'[t] = "returned"
        /\ todo'[t] = Tail(todo[t]) /\ ~Emit(t)
    BY <1>2, <1>6, <2>1 DEF StoreResult, Rest, agent, Emit, Faces
  <2>3. Range(todo'[t]) = {}
    BY <1>6, <2>2 DEF Range
  <2> QED
    BY <1>6, <2>2, <2>3
<1>7. \/ todo[t] = <<>> /\ Range(todo[t]) \subseteq Quiet
      \/ todo[t] # <<>> /\ Range(todo[t]) \subseteq Quiet
           /\ (state.node = "END" \/ Finish \in Range(todo[t]))
      \/ todo[t] = <<Leave>> /\ state.node = "END" /\ row.status = state.status
      \/ todo[t] = <<[do |-> "result", status |-> state.status]>>
           /\ row.status = state.status
  BY <1>1 DEF Winding
<1> QED
  BY <1>3, <1>4, <1>5, <1>6, <1>7

LEMMA NoVerdict ==
  ASSUME NEW e \in Quiet \cup Others \cup Results \cup Resumes
  PROVE  e \notin VerdictEmits
BY DEF VerdictEmits, Verdicts, Quiet, Row, MemoryNote, EmitOf, Finish, Set, Look, Others,
       Results, Resumes

LEMMA DriveEnd ==
  ASSUME TypeInv, SerialInv, EndInv, NEW t \in Threads, Drive(t)
  PROVE  EndInv'
<1>1. thread[t] = "driving"
  BY Taken
<1>2. \A u \in Threads \ {t} : todo'[u] = <<>> /\ thread'[u] # "driving"
  <2>1. thread' = thread \/ thread' = [thread EXCEPT ![t] = "returned"]
    BY DEF Drive, Resume, Loop, Dispatch, Pause, LeaveLoop, StoreResult, Write, WriteTask,
           StorePlan, Emit, Save, TryCall, Continue
  <2> QED
    BY <1>1, <2>1, Alone, ThreadMoves DEF TypeInv, TypeOK, SerialInv
<1>3. \A u \in Threads \ {t} : Range(todo'[u]) = {}
  BY <1>2 DEF Range
<1>4. CASE Told = {} /\ Told' # {}
  BY <1>1, <1>4, Pronounced
<1>5. CASE Told = {} /\ Told' = {}
  <2>1. Foretold'
    <3> SUFFICES ASSUME NEW s, s = todo'[t], NEW e \in Range(s), e \in VerdictEmits
                 PROVE  Announces(s, e)'
      BY <1>3, <1>5 DEF Foretold, Announces, Pronounces, Judgment, Agrees
    <3> QED
      BY <1>1, <1>5, DriveForetold DEF EndInv
  <2> QED
    BY <1>5, <2>1 DEF EndInv, VerdictIsLast, Decision, WindsUp, Recorded
<1>6. CASE Told # {}
  <2>1. /\ state'.status = state.status
        /\ Emit(t) => Head(todo[t]) = MemoryNote
        /\ Range(todo'[t]) \subseteq Quiet \cup Others \cup Results
        /\ thread'[t] = "driving" => Winding(t)'
        /\ thread'[t] # "driving" => row'.status = state.status /\ result' = state.status
        /\ \/ row'.status = state.status
           \/ thread'[t] = "driving" /\ Row \in Range(todo'[t])
    BY <1>1, <1>6, WindingStep
  <2>2. MemoryNote.type = "MEMORY_STORED" /\ MemoryNote \notin VerdictEmits
    BY DEF MemoryNote, EmitOf, VerdictEmits, Verdicts
  <2>3. Told' = Told /\ \A i \in Told : history'[i] = history[i]
    BY <2>1, <2>2, ToldMoves
  <2>4. VerdictIsLast'
    <3> SUFFICES ASSUME NEW i \in Told, NEW j \in DOMAIN history', j > i
                 PROVE  history'[j].type = "MEMORY_STORED"
      BY <2>3 DEF VerdictIsLast
    <3>1. VerdictIsLast /\ i \in DOMAIN history
      BY DEF EndInv, Told
    <3>2. CASE j \in DOMAIN history /\ history'[j] = history[j]
      BY <3>1, <3>2 DEF VerdictIsLast
    <3>3. CASE Emit(t)
      BY <2>1, <2>2, <3>2, <3>3, Latest
    <3>4. CASE history' = history
      BY <3>2, <3>4
    <3> QED
      BY <3>3, <3>4, ThreadMoves
  <2>5. Decision'
    BY <1>6, <2>1, <2>3 DEF EndInv, Decision, Judgment, Agrees
  <2>6. WindsUp'
    BY <1>2, <2>1 DEF WindsUp
  <2>7. Recorded'
    BY <2>1 DEF Recorded
  <2>8. Foretold'
    BY <1>3, <2>1, NoVerdict DEF Foretold
  <2> QED
    BY <2>4, <2>5, <2>6, <2>7, <2>8 DEF EndInv
<1> QED
  BY <1>4, <1>5, <1>6

\* A client brings a driver in only while there is none and no verdict.
LEMMA ClientEnd ==
  ASSUME Serial, TypeInv, SerialInv, EndInv, PostStart \/ PostApprove
  PROVE  SerialInv' /\ EndInv'
<1>1. /\ Told = {} /\ starts' # 0
      /\ \A u \in Threads : thread[u] # "driving" /\ todo[u] = <<>>
  <2>1. CASE PostStart
    <3>1. starts = 0 /\ starts' # 0
      BY <2>1, ServiceAssumption DEF PostStart, Serial, TypeInv, TypeOK
    <3>2. Told = {}
      BY <3>1 DEF SerialInv, Told
    <3> QED
      BY <3>1, <3>2 DEF SerialInv, TypeInv, TypeOK
  <2>2. CASE PostApprove
    <3>1. /\ Driving = {} /\ state.status = "awaiting_approval" /\ starts' = starts
          /\ LastRequests # {}
      BY <2>2 DEF PostApprove, Serial
    <3>2. Told = {}
      BY <3>1 DEF EndInv, Decision, Judgment
    <3>3. starts # 0
      BY <3>1 DEF SerialInv, LastRequests, Occurs
    <3> QED
      BY <3>1, <3>2, <3>3 DEF Driving, TypeInv, TypeOK
  <2> QED
    BY <2>1, <2>2
<1>2. PICK A \in SUBSET Gated : Spawn(A)
  <2>1. CASE PostStart
    BY <2>1 DEF PostStart
  <2>2. CASE PostApprove
    <3>1. PICK i \in LastRequests : Spawn({history[i].task})
      BY <2>2 DEF PostApprove
    <3>2. history[i].task \in Gated
      BY DEF LastRequests, TypeInv, GatedAsk
    <3> QED
      BY <3>1, <3>2
  <2> QED
    BY <2>1, <2>2
<1>3. PICK t \in Threads :
        /\ thread' = [thread EXCEPT ![t] = "driving"]
        /\ todo' = [todo EXCEPT ![t] = <<[do |-> "resume", tools |-> A]>>]
        /\ history' = history
  BY <1>2 DEF Spawn
<1>4. Told' = {}
  BY <1>1, <1>3 DEF Told
<1>5. SerialInv'
  BY <1>1, <1>3 DEF SerialInv, OneDriver, TypeInv, TypeOK
<1>6. Foretold'
  <2> DEFINE e == [do |-> "resume", tools |-> A]
  <2>1. e \in Effect /\ e \in Resumes
    BY DEF Effect, Resumes
  <2> HIDE DEF e
  <2>2. Range(<<e>>) = {e} /\ Range(<<>>) = {}
    BY <2>1, One DEF Range
  <2>3. \A u \in Threads : todo'[u] = <<e>> \/ todo'[u] = <<>>
    BY <1>1, <1>3 DEF TypeInv, e
  <2>4. \A u \in Threads : \A f \in Range(todo'[u]) : f \notin VerdictEmits
    BY <2>1, <2>2, <2>3, NoVerdict
  <2> QED
    BY <2>4 DEF Foretold
<1> QED
  BY <1>4, <1>5, <1>6 DEF EndInv, VerdictIsLast, Decision, WindsUp, Recorded

LEMMA EndStep ==
  ASSUME Serial, TypeInv, SerialInv, EndInv, [Next]_vars
  PROVE  SerialInv' /\ EndInv'
<1>1. CASE PostStart \/ PostApprove
  BY <1>1, ClientEnd
<1>2. ASSUME NEW t \in Threads, Drive(t) PROVE SerialInv' /\ EndInv'
  BY <1>2, DriveSerial, DriveEnd
<1>3. CASE Open \/ Reopen \/ Follow \/ UNCHANGED vars
  <2>1. UNCHANGED <<state, history, row, result, thread, todo, starts>>
    BY <1>3 DEF Open, Reopen, Follow, Replay, CheckStatus, Flush, vars, agent, driver, client
  <2>2. SerialInv'
    BY <2>1 DEF SerialInv, OneDriver
  <2>3. Told' = Told
    BY <2>1 DEF Told
  <2>4. VerdictIsLast' /\ Decision' /\ Recorded'
    BY <2>1, <2>3 DEF EndInv, VerdictIsLast, Decision, Judgment, Agrees, Recorded
  <2>5. WindsUp'
    BY <2>1, <2>3 DEF EndInv, WindsUp, Winding
  <2>6. Foretold'
    BY <2>1, <2>3 DEF EndInv, Foretold, Announces, Judgment, Agrees
  <2> QED
    BY <2>2, <2>4, <2>5, <2>6 DEF EndInv
<1> QED
  BY <1>1, <1>2, <1>3 DEF Next

LEMMA InitEnd == Init => SerialInv /\ EndInv
<1> SUFFICES ASSUME Init PROVE SerialInv /\ EndInv
  OBVIOUS
<1>1. history = <<>> /\ \A t \in Threads : thread[t] = "none" /\ todo[t] = <<>>
  BY DEF Init
<1>2. Told = {} /\ Range(<<>>) = {}
  BY <1>1 DEF Told, Range
<1> QED
  BY <1>1, <1>2 DEF SerialInv, OneDriver, EndInv, VerdictIsLast, Decision, WindsUp, Recorded, Foretold

LEMMA Ending ==
  ASSUME Serial
  PROVE  Spec => [](SerialInv /\ EndInv)
<1>1. Init => SerialInv /\ EndInv
  BY InitEnd
<1>2. TypeInv /\ StreamInv /\ (SerialInv /\ EndInv) /\ [Next]_vars => (SerialInv /\ EndInv)'
  BY EndStep
<1> QED
  BY <1>1, <1>2, Typing, PTL DEF Spec

\* Where a run is started once and whoever approves waits for the thread to
\* return, at most one terminal event is published, and of the run's own work
\* nothing after it: whatever fails on the way, the exception's handler and
\* the memory node do not both announce the end.
THEOREM VerdictIsFinal ==
  ASSUME Serial
  PROVE  Spec => []VerdictIsLast
<1>1. EndInv => VerdictIsLast
  BY DEF EndInv
<1> QED
  BY <1>1, Ending, PTL

\* Under the same use of the API the row in the database and the stored result
\* tell, once the thread has returned, the status that was announced, although
\* the row is saved only when an event is published.
THEOREM EndIsKept ==
  ASSUME Serial
  PROVE  Spec => []EndIsRecorded
<1>1. EndInv => EndIsRecorded
  <2> SUFFICES ASSUME EndInv, Driving = {}, Told # {} PROVE EndIsRecorded
    BY DEF EndIsRecorded
  <2>1. \A t \in Threads : thread[t] # "driving"
    BY DEF Driving
  <2> QED
    BY <2>1 DEF EndInv, Decision, Recorded, Agrees, EndIsRecorded
<1> QED
  BY <1>1, Ending, PTL
-----------------------------------------------------------------------------
(* How often a tool is called, with one driver at a time.                  *)

Observed == Set("node", "OBSERVE")
Engaged == Set("node", "EXECUTE")
Fetch == [do |-> "plan"]
Starting == [do : {"emit"}, type : {"TOOL_STARTED"}, task : 0..Jobs]
Restarts == {Set("node", "UNDERSTAND"), Set("node", "CREATE_PLAN")}

\* No tool was called yet.
Bare == \A k \in 1..Jobs : ~Started(k)

\* A call comes first, the handler gives way to no other before it is observed,
\* and the node is set when all else is done.
Orderly(s) ==
  \A i \in 1..Len(s) :
    /\ s[i] \in Starting => i = 1
    /\ s[i] = Observed => \A j \in 1..(i - 1) : s[j].do \in {"emit", "save", "put"}
    /\ s[i] = Engaged => \A j \in (i + 1)..Len(s) : s[j] = Look

\* Task k is up for its call: it is marked as taken, or s does so.
Due(k, s) ==
  /\ Planned /\ k \in 1..Jobs /\ ~Started(k)
  /\ \/ StatusOf(k) # "pending"
     \/ \E p \in Range(s) : p \in StatusPuts /\ p.task = k /\ p.plan = state.plan
  /\ Fetch \notin Range(s)

\* What is left to do fits what was called so far.
Timely(s) ==
  \A e \in Range(s) :
    /\ e \in Starting =>
         /\ state.node = "EXECUTE" /\ e.task = state.current
         /\ ~Started(state.current) /\ Observed \in Range(s)
    /\ e = Observed => Range(s) \cap (Choices \cup Restarts \cup {Engaged, Fetch}) = {}
    /\ e \in Choices => state.node # "EXECUTE" /\ Due(e.value, s)
    /\ e = Engaged => Range(s) \cap Choices # {} \/ Due(state.current, s)
    /\ e = Fetch => Bare /\ state.node # "EXECUTE"
    /\ e \in Restarts => Bare
    /\ e \in StatusPuts => e.value # "pending"

\* No task was called twice, ...
CalledOnce ==
  \A i, j \in Occurs("TOOL_STARTED") : history[i].task = history[j].task => i = j

\* ... one that was called is not to be taken again, ...
Undertaken ==
  \A k \in 1..Jobs : Started(k) => Planned /\ StatusOf(k) # "pending"

\* ... none was called before the plan was made, ...
Unbegun == state.node \in {"START", "UNDERSTAND", "CREATE_PLAN"} => Bare

\* ... and the current one is at its node until its call is observed.
AtWork ==
  state.node = "EXECUTE" =>
    /\ StatusOf(state.current) # "pending"
    /\ Started(state.current) => \E t \in Threads : Observed \in Range(todo[t])

OnceInv ==
  /\ CalledOnce /\ Undertaken /\ Unbegun /\ AtWork
  /\ \A t \in Threads : Orderly(todo[t]) /\ Timely(todo[t])

\* Most scripts call for nothing.
Dull(e) ==
  /\ e \notin Starting \cup Choices \cup Restarts \cup {Observed, Engaged, Fetch}
  /\ e \in StatusPuts => e.value # "pending"

LEMMA Elements ==
  ASSUME NEW s \in Seq(Effect)
  PROVE  /\ Len(s) \in Nat /\ \A i \in 1..Len(s) : s[i] \in Range(s)
         /\ \A e \in Range(s) : \E i \in 1..Len(s) : e = s[i]
<1>1. Range(s) = {s[i] : i \in 1 .. Len(s)}
  BY RangeEquality
<1>2. Len(s) \in Nat
  OBVIOUS
<1> QED
  BY <1>1, <1>2

LEMMA Steady ==
  ASSUME NEW s \in Seq(Effect),
         \A e \in Range(s) : e \notin Starting \cup {Observed, Engaged}
  PROVE  Orderly(s)
<1>1. \A i \in 1..Len(s) : s[i] \notin Starting /\ s[i] # Observed /\ s[i] # Engaged
  BY Elements
<1> QED
  BY <1>1 DEF Orderly

LEMMA DullScript ==
  ASSUME NEW s \in Seq(Effect), \A e \in Range(s) : Dull(e)
  PROVE  Orderly(s) /\ Timely(s)
<1>1. Orderly(s)
  BY Steady DEF Dull
<1>2. Timely(s)
  BY DEF Dull, Timely
<1> QED
  BY <1>1, <1>2

LEMMA DullEffects ==
  /\ \A e \in FailureEffects \cup {EmitOf("MEMORY_STORED", 0)} : Dull(e)
  /\ \A k : \A e \in DoneEffects(k) \cup AbortEffects(k) : Dull(e)
  /\ \A v : \A e \in IdleEffects(v) \cup JudgeEffects(v) : Dull(e)
  /\ \A e \in DecideEffects \cup CheckEffects \cup RememberEffects \cup LateEffects : Dull(e)
  /\ \A type \in Verdicts : \A e \in SaidEffects(type) : Dull(e)
  /\ \A n \in {"VERIFY", "END"} : \A e \in {Set("node", n), Look} : Dull(e)
<1> USE DEF Dull, Starting, Choices, Restarts, Observed, Engaged, Fetch, StatusPuts, Set, Put,
            EmitOf, Row, Look, Fallible, Then, Leave
<1>1. \A e \in FailureEffects \cup {EmitOf("MEMORY_STORED", 0)} : Dull(e)
  BY DEF FailureEffects
<1>2. ASSUME NEW k PROVE \A e \in DoneEffects(k) \cup AbortEffects(k) : Dull(e)
  BY DEF DoneEffects, AbortEffects
<1>3. ASSUME NEW v PROVE \A e \in IdleEffects(v) \cup JudgeEffects(v) : Dull(e)
  BY DEF IdleEffects, JudgeEffects
<1>4. \A e \in DecideEffects \cup CheckEffects \cup RememberEffects \cup LateEffects : Dull(e)
  BY DEF DecideEffects, CheckEffects, RememberEffects, LateEffects
<1>5. ASSUME NEW type \in Verdicts PROVE \A e \in SaidEffects(type) : Dull(e)
  BY DEF SaidEffects, Verdicts
<1>6. ASSUME NEW n \in {"VERIFY", "END"} PROVE \A e \in {Set("node", n), Look} : Dull(e)
  OBVIOUS
<1> HIDE DEF Dull
<1> QED
  BY <1>1, <1>2, <1>3, <1>4, <1>5, <1>6

LEMMA PairOrderly ==
  ASSUME NEW a, NEW b, b \notin Starting \cup {Observed, Engaged}, a = Engaged => b = Look
  PROVE  Orderly(<<a, b>>)
<1> DEFINE s == <<a, b>>
<1>1. Len(s) = 2 /\ s[1] = a /\ s[2] = b
  OBVIOUS
<1> HIDE DEF s
<1>2. Orderly(s)
  <2> SUFFICES ASSUME NEW i \in 1..2
               PROVE  /\ s[i] \in Starting => i = 1
                      /\ s[i] = Observed => \A j \in 1..(i - 1) : s[j].do \in {"emit", "save", "put"}
                      /\ s[i] = Engaged => \A j \in (i + 1)..2 : s[j] = Look
    BY <1>1 DEF Orderly
  <2>1. CASE i = 1
    <3>1. (i + 1)..2 = {2} /\ 1..(i - 1) = {}
      BY <2>1
    <3> QED
      BY <1>1, <2>1, <3>1
  <2>2. CASE i = 2
    BY <1>1, <2>2
  <2> QED
    BY <2>1, <2>2
<1> QED
  BY <1>2 DEF s

LEMMA GotoOrderly == \A n : Orderly(Goto(n))
<1> SUFFICES ASSUME NEW n PROVE Orderly(Goto(n))
  OBVIOUS
<1>1. Goto(n) = <<Set("node", n), Look>>
  BY DEF Goto, Look
<1>2. Look \notin Starting \cup {Observed, Engaged}
  BY DEF Starting, Observed, Engaged, Set, Look
<1> QED
  BY <1>1, <1>2, PairOrderly

LEMMA PublishOrderly == \A type, k : Orderly(Publish(type, k))
<1> SUFFICES ASSUME NEW type, NEW k PROVE Orderly(Publish(type, k))
  OBVIOUS
<1>1. Publish(type, k) = <<EmitOf(type, k), Row>>
  BY DEF Publish, EmitOf, Row
<1>2. Row \notin Starting \cup {Observed, Engaged} /\ EmitOf(type, k) # Engaged
  BY DEF Starting, Observed, Engaged, Set, Row, EmitOf
<1> QED
  BY <1>1, <1>2, PairOrderly

\* Scripts are put together.
LEMMA JoinOrderly ==
  ASSUME NEW s, NEW E, Has(s, E), Orderly(s), NEW r, NEW F, Has(r, F), Orderly(r),
         F \cap Starting = {},
         Observed \in F => \A e \in E : e.do \in {"emit", "save", "put"},
         Engaged \in E => F \subseteq {Look}
  PROVE  Orderly(s \o r)
<1> DEFINE d == s \o r
           n == Len(s)
           m == Len(r)
           Busy(e) == e.do \in {"emit", "save", "put"}
<1>1. /\ n \in Nat /\ m \in Nat /\ Len(d) = n + m
      /\ \A i \in 1..n : d[i] = s[i] /\ s[i] \in E
      /\ \A i \in (n + 1)..(n + m) : d[i] = r[i - n] /\ i - n \in 1..m /\ r[i - n] \in F
  <2>1. s \in Seq(Effect) /\ r \in Seq(Effect) /\ E = Range(s) /\ F = Range(r)
    BY DEF Has
  <2>2. n \in Nat /\ \A i \in 1..n : s[i] \in E
    BY <2>1, Elements
  <2>3. m \in Nat /\ \A i \in 1..m : r[i] \in F
    BY <2>1, Elements
  <2>4. /\ Len(d) = n + m
        /\ \A i \in 1..(n + m) : d[i] = IF i <= n THEN s[i] ELSE r[i - n]
    BY <2>1, ConcatProperties
  <2> HIDE DEF d, n, m
  <2> QED
    BY <2>2, <2>3, <2>4
<1>2. /\ \A i \in 1..n : /\ s[i] \in Starting => i = 1
                         /\ s[i] = Observed => \A j \in 1..(i - 1) : Busy(s[j])
                         /\ s[i] = Engaged => \A j \in (i + 1)..n : s[j] = Look
      /\ \A i \in 1..m : /\ r[i] = Observed => \A j \in 1..(i - 1) : Busy(r[j])
                         /\ r[i] = Engaged => \A j \in (i + 1)..m : r[j] = Look
  BY DEF Orderly
<1> HIDE DEF d, n, m, Busy
<1>3. ASSUME NEW i \in 1..n
      PROVE  /\ d[i] \in Starting => i = 1
             /\ d[i] = Observed => \A j \in 1..(i - 1) : Busy(d[j])
             /\ d[i] = Engaged => \A j \in (i + 1)..(n + m) : d[j] = Look
  <2>1. \A j \in 1..(i - 1) : j \in 1..n
    BY <1>1
  <2>2. \A j \in (i + 1)..(n + m) : (j \in (i + 1)..n /\ j \in 1..n) \/ j \in (n + 1)..(n + m)
    BY <1>1
  <2>3. d[i] = Engaged => Engaged \in E
    BY <1>1
  <2>4. d[i] = Engaged => F \subseteq {Look}
    BY <2>3
  <2> QED
    BY <1>1, <1>2, <2>1, <2>2, <2>4
<1>4. ASSUME NEW i \in (n + 1)..(n + m)
      PROVE  /\ d[i] \notin Starting
             /\ d[i] = Observed => \A j \in 1..(i - 1) : Busy(d[j])
             /\ d[i] = Engaged => \A j \in (i + 1)..(n + m) : d[j] = Look
  <2>1. ASSUME NEW j \in 1..(i - 1)
        PROVE  j \in 1..n \/ (j \in (n + 1)..(n + m) /\ j - n \in 1..((i - n) - 1))
    <3>1. n \in Nat /\ m \in Nat
      BY <1>1
    <3>2. CASE j <= n
      BY <3>1, <3>2
    <3>3. CASE j > n
      BY <3>1, <3>3
    <3> QED
      BY <3>1, <3>2, <3>3
  <2>2. \A j \in (i + 1)..(n + m) : j \in (n + 1)..(n + m) /\ j - n \in ((i - n) + 1)..m
    BY <1>1
  <2>3. d[i] = r[i - n] /\ i - n \in 1..m /\ r[i - n] \in F
    BY <1>1
  <2>4. d[i] = Observed => \A e \in E : Busy(e)
    BY <2>3 DEF Busy
  <2>5. d[i] = Observed => \A j \in 1..((i - n) - 1) : Busy(r[j])
    BY <1>2, <2>3
  <2>6. d[i] = Engaged => \A j \in ((i - n) + 1)..m : r[j] = Look
    BY <1>2, <2>3
  <2>7. d[i] = Observed => \A j \in 1..(i - 1) : Busy(d[j])
    BY <1>1, <2>1, <2>4, <2>5
  <2>8. d[i] = Engaged => \A j \in (i + 1)..(n + m) : d[j] = Look
    BY <1>1, <2>2, <2>6
  <2> QED
    BY <2>3, <2>7, <2>8
<1>5. \A i \in 1..(n + m) : i \in 1..n \/ i \in (n + 1)..(n + m)
  BY <1>1
<1> QED
  BY <1>1, <1>3, <1>4, <1>5 DEF Orderly, d, Busy

\* The scripts that call for something, in their order.
LEMMA TakeOrderly ==
  ASSUME StateOK, NEW k \in 1..Jobs
  PROVE  Orderly(Take(k))
<1>1. k \in 0..Jobs /\ "TASK_STARTED" \in EventTypes /\ "EXECUTE" \in Aims
      /\ "running" \in TaskStatus
  BY DEF EventTypes, Aims, Nodes, TaskStatus
<1> DEFINE p == Set("current", k)
           q == Put(k, "status", "running")
           a == <<p, q>>
           b == Publish("TASK_STARTED", k)
           c == Goto("EXECUTE")
           A == {p, q}
           B == {EmitOf("TASK_STARTED", k), Row}
           C == {Engaged, Look}
<1>2. Has(a, A) /\ Has(b, B) /\ Has(c, C) /\ Take(k) = a \o b \o c
  <2>1. Has(a, A)
    BY <1>1, SetTyped, PutTyped, Pair
  <2>2. Has(b, B) /\ Has(c, C)
    BY <1>1, PublishHas, GotoHas DEF Engaged
  <2> QED
    BY <2>1, <2>2 DEF Take
<1>3. Orderly(a) /\ Orderly(b) /\ Orderly(c)
  <2>1. q \notin Starting \cup {Observed, Engaged} /\ p # Engaged
    BY DEF Starting, Observed, Engaged, Set, Put
  <2>2. Orderly(a)
    BY <2>1, PairOrderly
  <2> QED
    BY <2>2, PublishOrderly, GotoOrderly
<1>4. /\ B \cap Starting = {} /\ C \cap Starting = {} /\ Observed \notin B \cup C
      /\ Engaged \notin A \cup B
  BY DEF Starting, Observed, Engaged, Set, Put, EmitOf, Row, Look
<1> HIDE DEF a, b, c, A, B, C
<1>5. Has(a \o b, A \cup B)
  BY <1>2, Together
<1>6. Orderly(a \o b)
  BY <1>2, <1>3, <1>4, JoinOrderly
<1>7. Orderly((a \o b) \o c)
  BY <1>2, <1>3, <1>4, <1>5, <1>6, JoinOrderly
<1> QED
  BY <1>2, <1>7

LEMMA RequestOrderly ==
  ASSUME NEW k \in 1..Jobs
  PROVE  Orderly(Request(k))
<1>1. /\ k \in 0..Jobs
      /\ "APPROVAL_REQUIRED" \in EventTypes /\ "EXECUTE" \in Aims
      /\ Set("status", "awaiting_approval") \in Effect
  BY SetTyped DEF EventTypes, Aims, Nodes, RunStatus, Closing
<1> DEFINE p == Set("status", "awaiting_approval")
           a == Publish("APPROVAL_REQUIRED", k)
           b == <<p>>
           c == Goto("EXECUTE")
           A == {EmitOf("APPROVAL_REQUIRED", k), Row}
           B == {p}
           C == {Engaged, Look}
<1>2. Has(a, A) /\ Has(b, B) /\ Has(c, C) /\ Request(k) = a \o b \o c
  <2>1. Has(a, A) /\ Has(b, B)
    BY <1>1, PublishHas, Single
  <2>2. Has(c, C)
    BY <1>1, GotoHas DEF Engaged
  <2> QED
    BY <2>1, <2>2 DEF Request
<1>3. /\ B \cap Starting = {} /\ C \cap Starting = {} /\ Observed \notin B \cup C
      /\ Engaged \notin A \cup B
  BY DEF Starting, Observed, Engaged, Set, EmitOf, Row, Look
<1>4. Orderly(a) /\ Orderly(b) /\ Orderly(c)
  <2>1. Orderly(b)
    <3> HIDE DEF b, B
    <3> QED
      BY <1>2, <1>3, Steady DEF Has
  <2> QED
    BY <2>1, PublishOrderly, GotoOrderly
<1> HIDE DEF a, b, c, A, B, C
<1>5. Has(a \o b, A \cup B)
  BY <1>2, Together
<1>6. Orderly(a \o b)
  BY <1>2, <1>3, <1>4, JoinOrderly
<1>7. Orderly((a \o b) \o c)
  BY <1>2, <1>3, <1>4, <1>5, <1>6, JoinOrderly
<1> QED
  BY <1>2, <1>7

LEMMA CallOrderly ==
  ASSUME StateOK, NEW k \in 1..Jobs, NEW outcome \in ToolOutcomes
  PROVE  Orderly(Call(k, outcome))
<1>1. /\ k \in 0..Jobs
      /\ "TOOL_STARTED" \in EventTypes /\ "TOOL_RETURNED" \in EventTypes
      /\ "OBSERVE" \in Aims /\ Put(k, "result", outcome) \in Effect
  BY PutTyped DEF EventTypes, Aims, Nodes
<1> DEFINE p == Put(k, "result", outcome)
           a == Publish("TOOL_STARTED", k)
           b == <<p>>
           c == Publish("TOOL_RETURNED", k)
           d == Goto("OBSERVE")
           A == {EmitOf("TOOL_STARTED", k), Row}
           B == {p}
           C == {EmitOf("TOOL_RETURNED", k), Row}
           D == {Observed, Look}
<1>2. Has(a, A) /\ Has(b, B) /\ Has(c, C) /\ Has(d, D) /\ Call(k, outcome) = a \o b \o c \o d
  <2>1. Has(a, A) /\ Has(c, C) /\ Has(b, B)
    BY <1>1, PublishHas, Single
  <2>2. Has(d, D)
    BY <1>1, GotoHas DEF Observed
  <2> QED
    BY <2>1, <2>2 DEF Call
<1>3. /\ (B \cup C \cup D) \cap Starting = {} /\ Observed \notin B \cup C
      /\ Engaged \notin A \cup B \cup C
      /\ \A e \in A \cup B \cup C : e.do \in {"emit", "save", "put"}
  BY DEF Starting, Observed, Engaged, Set, Put, EmitOf, Row, Look
<1>4. Orderly(a) /\ Orderly(b) /\ Orderly(c) /\ Orderly(d)
  <2>1. Orderly(b)
    <3> HIDE DEF b, B
    <3> QED
      BY <1>2, <1>3, Steady DEF Has
  <2> QED
    BY <2>1, PublishOrderly, GotoOrderly
<1> HIDE DEF a, b, c, d, A, B, C, D
<1>5. Has(a \o b, A \cup B)
  BY <1>2, Together
<1>6. Has(a \o b \o c, A \cup B \cup C)
  BY <1>2, <1>5, Together
<1>7. Orderly(a \o b)
  BY <1>2, <1>3, <1>4, JoinOrderly
<1>8. Orderly((a \o b) \o c)
  BY <1>2, <1>3, <1>4, <1>5, <1>7, JoinOrderly
<1>9. Orderly(((a \o b) \o c) \o d)
  BY <1>2, <1>3, <1>4, <1>6, <1>8, JoinOrderly
<1> QED
  BY <1>2, <1>9

LEMMA DullHas ==
  ASSUME NEW s, NEW E, Has(s, E), \A e \in E : Dull(e)
  PROVE  Orderly(s) /\ Timely(s)
BY DullScript DEF Has

LEMMA TakeFits ==
  ASSUME StateOK, Planned, Undertaken, state.node # "EXECUTE",
         NEW k \in Pick, k \in 1..Jobs
  PROVE  Orderly(Take(k)) /\ Timely(Take(k))
<1> DEFINE s == Take(k)
           put == Put(k, "status", "running")
<1>1. Range(s) = TakeEffects(k)
  BY TakeHas DEF Has
<1>2. ~Started(k)
  BY DEF Pick, Undertaken, StatusOf
<1>3. put \in TakeEffects(k) /\ put \in StatusPuts /\ put.task = k /\ put.plan = state.plan
  BY DEF TakeEffects, Put, StatusPuts, StateOK, TaskStatus
<1>4. Set("current", k) \in TakeEffects(k) /\ Set("current", k) \in Choices
  BY DEF TakeEffects, Set, Choices
<1>5. ASSUME NEW e \in TakeEffects(k)
      PROVE  /\ e \notin Starting \cup Restarts /\ e # Observed /\ e # Fetch
             /\ e \in Choices => e.value = k
             /\ e \in StatusPuts => e.value # "pending"
  BY <1>5 DEF TakeEffects, Starting, Restarts, Observed, Fetch, Choices, StatusPuts, Set, Put,
              EmitOf, Row, Look
<1> HIDE DEF s, put
<1>6. Due(k, s)
  BY <1>1, <1>2, <1>3, <1>5 DEF Due
<1>7. Timely(s)
  BY <1>1, <1>4, <1>5, <1>6 DEF Timely
<1> QED
  BY <1>7, TakeOrderly DEF s

LEMMA RequestFits ==
  ASSUME StateOK, Planned, NEW k \in 1..Jobs, k = state.current,
         StatusOf(k) # "pending", ~Started(k)
  PROVE  Orderly(Request(k)) /\ Timely(Request(k))
<1> DEFINE s == Request(k)
<1>1. Range(s) = RequestEffects(k)
  BY RequestHas DEF Has
<1>2. ASSUME NEW e \in RequestEffects(k)
      PROVE  e \notin Starting \cup Choices \cup Restarts \cup StatusPuts \cup {Observed, Fetch}
  BY <1>2 DEF RequestEffects, Starting, Restarts, Observed, Fetch, Choices, StatusPuts, Set,
              EmitOf, Row, Look
<1> HIDE DEF s
<1>3. Due(k, s)
  BY <1>1, <1>2 DEF Due
<1>4. Timely(s)
  BY <1>1, <1>2, <1>3 DEF Timely
<1> QED
  BY <1>4, RequestOrderly DEF s

LEMMA CallFits ==
  ASSUME StateOK, state.node = "EXECUTE", NEW k \in 1..Jobs, k = state.current, ~Started(k),
         NEW outcome \in ToolOutcomes
  PROVE  Orderly(Call(k, outcome)) /\ Timely(Call(k, outcome))
<1> DEFINE s == Call(k, outcome)
<1>1. Range(s) = CallEffects(k, outcome)
  BY CallHas DEF Has
<1>2. ASSUME NEW e \in CallEffects(k, outcome)
      PROVE  /\ e \notin Choices \cup Restarts \cup StatusPuts \cup {Engaged, Fetch}
             /\ e \in Starting => e.task = k
  BY <1>2 DEF CallEffects, Starting, Restarts, Engaged, Fetch, Choices, StatusPuts, Set, Put,
              EmitOf, Row, Look
<1>3. Observed \in CallEffects(k, outcome)
  BY DEF CallEffects, Observed
<1> HIDE DEF s
<1>4. Timely(s)
  BY <1>1, <1>2, <1>3 DEF Timely
<1> QED
  BY <1>4, CallOrderly DEF s

LEMMA EarlyFits ==
  ASSUME Bare
  PROVE  /\ Orderly(Begin) /\ Timely(Begin)
         /\ state.node # "EXECUTE" => Orderly(CreatePlan) /\ Timely(CreatePlan)
<1>1. Has(Begin, BeginEffects) /\ Has(CreatePlan, PlanEffects)
  BY BeginHas, CreatePlanHas
<1>2. ASSUME NEW e \in BeginEffects \cup PlanEffects
      PROVE  /\ e \notin Starting \cup Choices \cup StatusPuts \cup {Observed, Engaged}
             /\ e = Fetch => e \notin BeginEffects
  BY <1>2 DEF BeginEffects, PlanEffects, Starting, Choices, StatusPuts, Observed, Engaged, Fetch,
              Set, EmitOf, Row, Look, Fallible
<1>3. Orderly(Begin) /\ Orderly(CreatePlan)
  BY <1>1, <1>2, Steady DEF Has
<1>4. Timely(Begin) /\ (state.node # "EXECUTE" => Timely(CreatePlan))
  BY <1>1, <1>2 DEF Has, Timely
<1> QED
  BY <1>3, <1>4

\* What a handler decides on fits what was called so far.
LEMMA ScriptFits ==
  ASSUME StateOK, Undertaken, Unbegun, NEW what \in Handlers,
         what \in Working => Planned /\ state.current # 0,
         what \in Nodes => what = state.node,
         what = "EXECUTE" => StatusOf(state.current) # "pending" /\ ~Started(state.current),
         NEW s \in Scripts(what)
  PROVE  Orderly(s) /\ Timely(s)
<1>1. what \in {"UNDERSTAND", "CREATE_PLAN", "SELECT_NEXT", "EXECUTE", "OBSERVE", "DECIDE",
                "VERIFY", "STORE_MEMORY", "END", "JUDGE", "ANNOUNCE"}
  BY DEF Handlers, Nodes
<1>2. what \in Working => state.current \in 1..Jobs
  BY ServiceAssumption DEF StateOK
<1>3. CASE what \in {"UNDERSTAND", "CREATE_PLAN"}
  <2>1. state.node = what /\ state.node # "EXECUTE"
    BY <1>3 DEF Nodes
  <2>2. Bare
    BY <1>3, <2>1 DEF Unbegun
  <2>3. s \in {Begin, CreatePlan}
    BY <1>3, ScriptsAre
  <2> QED
    BY <2>1, <2>2, <2>3, EarlyFits
<1>4. CASE what = "SELECT_NEXT"
  <2>1. s \in SelectNext /\ state.node # "EXECUTE"
    BY <1>4, ScriptsAre DEF Nodes
  <2>2. CASE \/ Has(s, {Set("node", "VERIFY"), Look})
             \/ Has(s, IdleEffects("failed")) \/ Has(s, IdleEffects("blocked"))
    BY <2>2, DullHas, DullEffects
  <2>3. CASE Planned /\ \E k \in Pick : k \in 1..Jobs /\ s = Take(k)
    BY <2>1, <2>3, TakeFits
  <2> QED
    BY <2>1, <2>2, <2>3, SelectNextHas
<1>5. CASE what = "EXECUTE"
  <2>1. s \in Execute /\ state.node = "EXECUTE" /\ state.current \in 1..Jobs /\ Planned
    BY <1>2, <1>5, ScriptsAre DEF Nodes, Working
  <2>2. s = Request(state.current) \/ \E outcome \in ToolOutcomes : s = Call(state.current, outcome)
    BY <2>1, ExecuteHas
  <2> QED
    BY <1>5, <2>1, <2>2, RequestFits, CallFits
<1>6. CASE what = "OBSERVE"
  <2>1. s \in Observe /\ state.current \in 1..Jobs /\ Planned
    BY <1>2, <1>6, ScriptsAre DEF Working
  <2>2. \/ s \in Failure \/ Has(s, DoneEffects(state.current)) \/ Has(s, DecideEffects)
    BY <2>1, ObserveHas
  <2>3. s \in Failure =>
          Has(s, FailureEffects) \/ Has(s, FailureEffects \cup {EmitOf("MEMORY_STORED", 0)})
    BY FailureHas
  <2> QED
    BY <2>2, <2>3, DullHas, DullEffects
<1>7. CASE what = "DECIDE"
  <2>1. s = Abort /\ state.current \in 1..Jobs
    BY <1>2, <1>7, ScriptsAre DEF Working
  <2> QED
    BY <2>1, AbortHas, DullHas, DullEffects
<1>8. CASE what = "JUDGE"
  <2>1. s \in Judge
    BY <1>8, ScriptsAre
  <2> QED
    BY <2>1, JudgeHas, DullHas, DullEffects
<1>9. CASE what = "ANNOUNCE"
  <2>1. s = Announce
    BY <1>9, ScriptsAre
  <2>2. "OBJECTIVE_COMPLETED" \in Verdicts /\ "OBJECTIVE_FAILED" \in Verdicts
    BY DEF Verdicts
  <2> QED
    BY <2>1, <2>2, AnnounceHas, DullHas, DullEffects
<1>10. CASE what \in {"VERIFY", "STORE_MEMORY", "END"}
  <2>1. s \in {Check, Remember, Late}
    BY <1>10, ScriptsAre
  <2> QED
    BY <2>1, CheckHas, RememberHas, LateHas, DullHas, DullEffects
<1> QED
  BY <1>1, <1>3, <1>4, <1>5, <1>6, <1>7, <1>8, <1>9, <1>10

LEMMA FailureFits ==
  ASSUME NEW s \in Failure
  PROVE  Orderly(s) /\ Timely(s)
BY FailureHas, DullHas, DullEffects

\* How the node, the plan and the calls change.
LEMMA NodeMoves ==
  ASSUME TypeInv, NEW t \in Threads, Drive(t)
  PROVE  /\ \/ state'.node = state.node
            \/ /\ todo[t] # <<>> /\ Head(todo[t]) \in NodeSets
               /\ Head(todo[t]) \in Range(todo[t]) /\ state'.node = Head(todo[t]).value
            \/ state.node = "START" /\ state'.node = "UNDERSTAND"
         /\ state'.plan = state.plan \/ StorePlan(t)
<1>1. ASSUME Write(t)
      PROVE  /\ \/ state'.node = state.node
                \/ /\ todo[t] # <<>> /\ Head(todo[t]) \in NodeSets
                   /\ Head(todo[t]) \in Range(todo[t]) /\ state'.node = Head(todo[t]).value
             /\ state'.plan = state.plan
  <2>1. Head(todo[t]) \in Range(todo[t]) /\ todo[t] # <<>>
    BY <1>1, Facing DEF Write
  <2> QED
    BY <1>1, <2>1, Written, ZenonT(60) DEF TypeInv, TypeOK
<1>2. ASSUME WriteTask(t) PROVE state'.node = state.node /\ state'.plan = state.plan
  BY <1>2 DEF WriteTask, TypeInv, TypeOK
<1>3. ASSUME StorePlan(t) PROVE state'.node = state.node
  BY <1>3 DEF StorePlan, TypeInv, TypeOK
<1>4. ASSUME LeaveLoop(t) PROVE state'.node = state.node /\ state'.plan = state.plan
  BY <1>4 DEF LeaveLoop, TypeInv, TypeOK
<1>5. ASSUME Resume(t)
      PROVE  /\ state'.node = state.node \/ (state.node = "START" /\ state'.node = "UNDERSTAND")
             /\ state'.plan = state.plan
  BY <1>5 DEF Resume, TypeInv, TypeOK
<1>6. ASSUME \/ Loop(t) \/ Dispatch(t) \/ Pause(t) \/ StoreResult(t) \/ Emit(t) \/ Save(t)
             \/ TryCall(t) \/ Continue(t)
      PROVE  state' = state
  BY <1>6 DEF Loop, Dispatch, Pause, StoreResult, Emit, Save, TryCall, Continue, agent
<1> QED
  BY <1>1, <1>2, <1>3, <1>4, <1>5, <1>6 DEF Drive

LEMMA StartMoves ==
  ASSUME TypeInv, NEW t \in Threads, Drive(t), NEW k, Started(k)', ~Started(k)
  PROVE  /\ todo[t] # <<>> /\ Head(todo[t]) \in Starting /\ Head(todo[t]) \in Range(todo[t])
         /\ Head(todo[t]).task = k /\ Emit(t)
<1>1. Emit(t)
  BY ThreadMoves DEF Started, Occurs
<1>2. PICK i \in DOMAIN history' : history'[i].type = "TOOL_STARTED" /\ history'[i].task = k
  BY DEF Started, Occurs
<1>3. ~(i \in DOMAIN history /\ history'[i] = history[i])
  BY <1>2 DEF Started, Occurs
<1>4. /\ Head(todo[t]) \in Emits /\ Head(todo[t]) \in Range(todo[t])
      /\ history'[i].type = Head(todo[t]).type /\ history'[i].task = Head(todo[t]).task
  BY <1>1, <1>3, Latest
<1>5. todo[t] # <<>>
  BY <1>1, Facing DEF Emit
<1> QED
  BY <1>1, <1>2, <1>4, <1>5 DEF Starting, Emits

\* What an ordered script begins with.
LEMMA Begins ==
  ASSUME NEW s \in Seq(Effect), s # <<>>, Orderly(s)
  PROVE  /\ \A e \in Range(Tail(s)) : e \notin Starting
         /\ Observed \in Range(s) =>
              Head(s) = Observed
                \/ (Head(s).do \in {"emit", "save", "put"} /\ Observed \in Range(Tail(s)))
         /\ Head(s) = Engaged => Range(Tail(s)) \subseteq {Look}
         /\ Orderly(Tail(s))
<1> DEFINE r == Tail(s)
<1>1. /\ Len(s) \in Nat /\ Len(s) >= 1 /\ r \in Seq(Effect) /\ Len(r) = Len(s) - 1
      /\ \A i \in 1 .. Len(r) : r[i] = s[i + 1]
      /\ Head(s) = s[1]
  BY HeadTailProperties
<1>2. /\ \A e \in Range(r) : \E i \in 1..Len(r) : e = r[i]
      /\ \A e \in Range(s) : \E i \in 1..Len(s) : e = s[i]
      /\ Range(s) = {Head(s)} \cup Range(r)
  BY <1>1, Elements, Shorter
<1>3. \A i \in 1..Len(s) :
        /\ s[i] \in Starting => i = 1
        /\ s[i] = Observed => \A j \in 1..(i - 1) : s[j].do \in {"emit", "save", "put"}
        /\ s[i] = Engaged => \A j \in (i + 1)..Len(s) : s[j] = Look
  BY DEF Orderly
<1> HIDE DEF r
<1>4. \A i \in 1..Len(r) : i + 1 \in 1..Len(s) /\ i + 1 # 1
  BY <1>1
<1>5. \A e \in Range(r) : e \notin Starting
  BY <1>1, <1>2, <1>3, <1>4
<1>6. ASSUME Observed \in Range(s), Head(s) # Observed
      PROVE  Head(s).do \in {"emit", "save", "put"} /\ Observed \in Range(r)
  <2>1. PICK i \in 1..Len(s) : Observed = s[i]
    BY <1>2, <1>6
  <2>2. 1 \in 1..(i - 1)
    BY <1>1, <1>6, <2>1
  <2> QED
    BY <1>1, <1>2, <1>3, <1>6, <2>1, <2>2
<1>7. ASSUME Head(s) = Engaged, NEW e \in Range(r) PROVE e = Look
  <2>1. PICK i \in 1..Len(r) : e = r[i]
    BY <1>2
  <2>2. i + 1 \in (1 + 1)..Len(s) /\ 1 \in 1..Len(s)
    BY <1>1
  <2> QED
    BY <1>1, <1>3, <1>7, <2>1, <2>2
<1>8. ASSUME NEW i \in 1..Len(r)
      PROVE  /\ r[i] \in Starting => i = 1
             /\ r[i] = Observed => \A j \in 1..(i - 1) : r[j].do \in {"emit", "save", "put"}
             /\ r[i] = Engaged => \A j \in (i + 1)..Len(r) : r[j] = Look
  <2>1. \A j \in 1..(i - 1) : j \in 1..Len(r) /\ j + 1 \in 1..((i + 1) - 1)
    BY <1>1
  <2>2. \A j \in (i + 1)..Len(r) : j \in 1..Len(r) /\ j + 1 \in ((i + 1) + 1)..Len(s)
    BY <1>1
  <2>3. r[i] = s[i + 1] /\ i + 1 \in 1..Len(s) /\ r[i] \notin Starting
    BY <1>1, <1>3, <1>4
  <2>4. r[i] = Observed => \A j \in 1..(i - 1) : r[j].do \in {"emit", "save", "put"}
    BY <1>1, <1>3, <2>1, <2>3
  <2>5. r[i] = Engaged => \A j \in (i + 1)..Len(r) : r[j] = Look
    BY <1>1, <1>3, <2>2, <2>3
  <2> QED
    BY <2>3, <2>4, <2>5
<1> QED
  BY <1>5, <1>6, <1>7, <1>8 DEF Orderly, r

\* A task that was taken stays so, until another plan is made.
LEMMA StatusMoves ==
  ASSUME TypeInv, NEW t \in Threads, Drive(t), ~StorePlan(t), Timely(todo[t]),
         Planned, NEW k \in 1..Jobs
  PROVE  /\ Planned'
         /\ state.tasks[k].status # "pending" => state'.tasks[k].status # "pending"
         /\ Head(todo[t]) \in StatusPuts /\ Head(todo[t]).task = k /\ todo[t] # <<>>
              /\ Head(todo[t]).plan = state.plan => state'.tasks[k].status # "pending"
<1> DEFINE e == Head(todo[t])
<1>1. CASE ~WriteTask(t)
  <2>1. state'.tasks = state.tasks
    BY <1>1, StateMoves
  <2>2. todo[t] # <<>> => e.do # "put"
    BY <1>1, Taken
  <2> QED
    BY <2>1, <2>2 DEF Planned, StatusPuts
<1>2. CASE WriteTask(t)
  <2>1. e \in Range(todo[t])
    BY <1>2, Facing DEF WriteTask
  <2>2. e \in StatusPuts => e.value # "pending"
    BY <2>1 DEF Timely
  <2>3. CASE state' = state /\ e.plan # state.plan
    BY <2>3 DEF Planned
  <2>4. ASSUME e.task \in 1..Jobs, e \in StatusPuts, e.value \in TaskStatus,
               state' = [state EXCEPT !.tasks =
                          [state.tasks EXCEPT ![e.task] =
                            [state.tasks[e.task] EXCEPT !.status = e.value]]]
        PROVE  /\ Planned'
               /\ state.tasks[k].status # "pending" => state'.tasks[k].status # "pending"
               /\ e.task = k => state'.tasks[k].status # "pending"
    <3> HIDE DEF e
    <3>1. state'.tasks = [state.tasks EXCEPT ![e.task] =
                            [state.tasks[e.task] EXCEPT !.status = e.value]]
      BY <2>4 DEF TypeInv, TypeOK
    <3>2. state.tasks[e.task] \in TaskRecord /\ state.tasks[k] \in TaskRecord
      BY <2>4 DEF Planned
    <3>3. [state.tasks[e.task] EXCEPT !.status = e.value] \in TaskRecord
          /\ [state.tasks[e.task] EXCEPT !.status = e.value].status = e.value
      BY <2>4, <3>2 DEF TaskRecord, TaskStatus
    <3>4. Planned'
      BY <3>1, <3>3 DEF Planned
    <3>5. CASE k # e.task
      <4>1. state'.tasks[k] = state.tasks[k]
        BY <2>4, <3>1, <3>5 DEF Planned
      <4> QED
        BY <3>4, <3>5, <4>1
    <3>6. CASE k = e.task
      <4>1. state'.tasks[k] = [state.tasks[e.task] EXCEPT !.status = e.value]
        BY <3>1, <3>6 DEF Planned
      <4> QED
        BY <2>2, <2>4, <3>3, <3>4, <4>1
    <3> QED
      BY <3>5, <3>6
  <2>5. ASSUME e.task \in 1..Jobs, e \in ResultPuts, e.value \in ToolOutcomes,
               state' = [state EXCEPT !.tasks =
                          [state.tasks EXCEPT ![e.task] =
                            [state.tasks[e.task] EXCEPT !.result = e.value]]]
        PROVE  /\ Planned'
               /\ state'.tasks[k].status = state.tasks[k].status
    <3> HIDE DEF e
    <3>1. state'.tasks = [state.tasks EXCEPT ![e.task] =
                            [state.tasks[e.task] EXCEPT !.result = e.value]]
      BY <2>5 DEF TypeInv, TypeOK
    <3>2. state.tasks[e.task] \in TaskRecord
      BY <2>5 DEF Planned
    <3>3. /\ [state.tasks[e.task] EXCEPT !.result = e.value] \in TaskRecord
          /\ [state.tasks[e.task] EXCEPT !.result = e.value].status
               = state.tasks[e.task].status
      BY <2>5, <3>2 DEF TaskRecord
    <3>4. Planned'
      BY <3>1, <3>3 DEF Planned
    <3>5. CASE k # e.task
      <4>1. state'.tasks[k] = state.tasks[k]
        BY <2>5, <3>1, <3>5 DEF Planned
      <4> QED
        BY <3>4, <4>1
    <3>6. CASE k = e.task
      <4>1. state'.tasks[k] = [state.tasks[e.task] EXCEPT !.result = e.value]
        BY <3>1, <3>6 DEF Planned
      <4> QED
        BY <3>3, <3>4, <3>6, <4>1
    <3> QED
      BY <3>5, <3>6
  <2>6. e \in ResultPuts => e \notin StatusPuts
    BY DEF ResultPuts, StatusPuts
  <2>7. \/ state' = state /\ e.plan # state.plan
        \/ /\ e.task \in 1..Jobs /\ e \in StatusPuts /\ e.value \in TaskStatus
           /\ state' = [state EXCEPT !.tasks =
                [state.tasks EXCEPT ![e.task] =
                  [state.tasks[e.task] EXCEPT !.status = e.value]]]
        \/ /\ e.task \in 1..Jobs /\ e \in ResultPuts /\ e.value \in ToolOutcomes
           /\ state' = [state EXCEPT !.tasks =
                [state.tasks EXCEPT ![e.task] =
                  [state.tasks[e.task] EXCEPT !.result = e.value]]]
    BY <1>2, TaskWritten
  <2> HIDE DEF e
  <2>8. /\ Planned'
        /\ state.tasks[k].status # "pending" => state'.tasks[k].status # "pending"
        /\ e \in StatusPuts /\ e.task = k /\ e.plan = state.plan
             => state'.tasks[k].status # "pending"
    BY <2>3, <2>4, <2>5, <2>6, <2>7
  <2> QED
    BY <2>8 DEF e
<1> QED
  BY <1>1, <1>2

LEMMA PlanFaced ==
  ASSUME TypeInv, NEW t \in Threads, StorePlan(t)
  PROVE  Head(todo[t]) = Fetch /\ Fetch \in Range(todo[t])
<1>1. /\ Head(todo[t]) \in Effect /\ Head(todo[t]).do = "plan"
      /\ Head(todo[t]) \in Range(todo[t])
  BY Facing DEF StorePlan
<1>2. Head(todo[t]) \in Others
  BY <1>1 DEF Effect, NodeSets, StatusSets, Choices, StatusPuts, ResultPuts, Emits, Thens,
              Resumes, Results
<1>3. Head(todo[t]) = Fetch
  BY <1>1, <1>2 DEF Others, Fetch
<1> QED
  BY <1>1, <1>3

\* A call is made at the node of the task, and observed by who makes it.
LEMMA CallMade ==
  ASSUME TypeInv, NEW t \in Threads, Drive(t), Timely(todo[t]), NEW k, Started(k)', ~Started(k)
  PROVE  /\ k = state.current /\ state.node = "EXECUTE" /\ Observed \in Range(todo[t])
         /\ state' = state /\ todo[t] # <<>> /\ Head(todo[t]).do = "emit"
<1>1. /\ todo[t] # <<>> /\ Head(todo[t]) \in Starting /\ Head(todo[t]) \in Range(todo[t])
      /\ Head(todo[t]).task = k /\ Emit(t)
  BY StartMoves
<1>2. state' = state
  BY <1>1 DEF Emit, agent
<1>3. /\ k = state.current /\ state.node = "EXECUTE" /\ Observed \in Range(todo[t])
  BY <1>1 DEF Timely
<1> QED
  BY <1>1, <1>2, <1>3 DEF Starting

\* What is left after a step still fits.
LEMMA TimelyRest ==
  ASSUME TypeInv, NEW t \in Threads, Drive(t), Orderly(todo[t]), Timely(todo[t]),
         NEW r, todo[t] # <<>>, r = Tail(todo[t])
  PROVE  Timely(r)'
<1> DEFINE s == todo[t]
           h == Head(todo[t])
<1>1. /\ s \in Seq(Effect) /\ s # <<>> /\ Orderly(s) /\ Timely(s) /\ h = Head(s)
      /\ r = Tail(s)
  BY DEF TypeInv
<1>2. Range(s) = {h} \cup Range(r) /\ h \in Effect
  BY <1>1, Shorter
<1>3. /\ \A e \in Range(r) : e \notin Starting
      /\ h = Engaged => Range(r) \subseteq {Look}
  BY <1>1, Begins
<1>4. \/ state'.node = state.node
      \/ h \in NodeSets /\ state'.node = h.value
      \/ state.node = "START" /\ state'.node = "UNDERSTAND"
  BY NodeMoves
<1>5. h \in NodeSets /\ h.value = "EXECUTE" => h = Engaged
  BY DEF NodeSets, Engaged, Set
<1>6. state.node # "EXECUTE" /\ h # Engaged => state'.node # "EXECUTE"
  BY <1>4, <1>5
<1>7. ASSUME Observed \notin Range(s), NEW k, Started(k)' PROVE Started(k)
  BY <1>1, <1>7, CallMade
<1>8. ASSUME Observed \notin Range(s), NEW k, Due(k, s) PROVE Due(k, r)'
  <2>1. Planned /\ k \in 1..Jobs /\ ~Started(k) /\ Fetch \notin Range(s)
    BY <1>8 DEF Due
  <2>2. ~StorePlan(t)
    BY <2>1, PlanFaced
  <2>3. state'.plan = state.plan
    BY <2>2, NodeMoves
  <2>4. /\ Planned'
        /\ state.tasks[k].status # "pending" => state'.tasks[k].status # "pending"
        /\ h \in StatusPuts /\ h.task = k /\ h.plan = state.plan
             => state'.tasks[k].status # "pending"
    BY <1>1, <2>1, <2>2, StatusMoves
  <2>5. ~Started(k)'
    BY <1>7, <1>8, <2>1
  <2>6. \/ state.tasks[k].status # "pending"
        \/ \E p \in Range(s) : p \in StatusPuts /\ p.task = k /\ p.plan = state.plan
    BY <1>8 DEF Due, StatusOf
  <2>7. \/ state'.tasks[k].status # "pending"
        \/ \E p \in Range(r) : p \in StatusPuts /\ p.task = k /\ p.plan = state'.plan
    BY <1>2, <2>3, <2>4, <2>6
  <2>8. Fetch \notin Range(r)
    BY <1>2, <2>1
  <2> HIDE DEF s, h
  <2> QED
    BY <2>1, <2>4, <2>5, <2>7, <2>8 DEF Due, StatusOf
<1>9. ASSUME Bare, Observed \notin Range(s) PROVE Bare'
  BY <1>7, <1>9 DEF Bare
<1>10. /\ Look \notin Choices \cup Restarts \cup {Engaged, Fetch, Observed}
  BY DEF Look, Choices, Restarts, Engaged, Fetch, Observed, Set
<1> HIDE DEF s, h
<1>11. ASSUME NEW e \in Range(r), e \in Choices \cup Restarts \cup {Engaged, Fetch}
       PROVE  Observed \notin Range(s) /\ h # Engaged
  BY <1>1, <1>2, <1>3, <1>10, <1>11 DEF Timely
<1>12. ASSUME NEW e \in Range(r), e \in Choices
       PROVE  state'.node # "EXECUTE" /\ Due(e.value, r)'
  <2>1. Observed \notin Range(s) /\ h # Engaged
    BY <1>11, <1>12
  <2>2. state.node # "EXECUTE" /\ Due(e.value, s)
    BY <1>1, <1>2, <1>12 DEF Timely
  <2> QED
    BY <1>6, <1>8, <2>1, <2>2
<1>13. ASSUME Engaged \in Range(r), NEW c, c = state'.current
       PROVE  Range(r) \cap Choices # {} \/ Due(c, r)'
  <2>1. Observed \notin Range(s)
    BY <1>11, <1>13
  <2>2. Range(s) \cap Choices # {} \/ Due(state.current, s)
    BY <1>1, <1>2, <1>13 DEF Timely
  <2>3. CASE h \in Choices
    <3>1. Due(h.value, s)
      BY <1>1, <1>2, <2>3 DEF Timely
    <3>2. state'.current = h.value
      <4>1. h.do = "set" /\ h \notin NodeSets \cup StatusSets
        BY <2>3 DEF Choices, NodeSets, StatusSets
      <4>2. Write(t)
        BY <1>1, <4>1, Taken DEF s, h
      <4>3. state' = [state EXCEPT !.current = h.value]
        BY <4>1, <4>2, Written DEF h
      <4> QED
        BY <4>3 DEF TypeInv, TypeOK
    <3> QED
      BY <1>8, <1>13, <2>1, <3>1, <3>2
  <2>4. CASE h \notin Choices
    <3>1. state'.current = state.current
      BY <2>4, StateMoves DEF h
    <3>2. Due(state.current, s) => Due(c, s)
      BY <1>13, <3>1
    <3> QED
      BY <1>2, <1>8, <2>1, <2>2, <2>4, <3>2
  <2> QED
    BY <2>3, <2>4
<1>14. ASSUME NEW e \in Range(r)
       PROVE  /\ e = Observed => Range(r) \cap (Choices \cup Restarts \cup {Engaged, Fetch}) = {}
              /\ e = Fetch => Bare' /\ state'.node # "EXECUTE"
              /\ e \in Restarts => Bare'
              /\ e \in StatusPuts => e.value # "pending"
  <2>1. e = Observed => Range(s) \cap (Choices \cup Restarts \cup {Engaged, Fetch}) = {}
    BY <1>1, <1>2 DEF Timely
  <2>2. /\ e = Fetch => Bare /\ state.node # "EXECUTE"
        /\ e \in Restarts => Bare
        /\ e \in StatusPuts => e.value # "pending"
    BY <1>1, <1>2 DEF Timely
  <2>3. e \in Restarts \cup {Fetch} => Observed \notin Range(s) /\ h # Engaged
    BY <1>11
  <2> QED
    BY <1>2, <1>6, <1>9, <2>1, <2>2, <2>3
<1>15. Engaged \in Range(r) =>
         Range(r) \cap Choices # {} \/ Due(state.current, r)'
  <2>1. PICK c : c = state'.current
    OBVIOUS
  <2> QED
    BY <1>13, <2>1 DEF Due
<1> QED
  BY <1>3, <1>12, <1>14, <1>15 DEF Timely

\* What a thread has left to do fits after each of its steps.
LEMMA TodoOnce ==
  ASSUME TypeInv, OneDriver, OnceInv, NEW t \in Threads, Drive(t)
  PROVE  \A u \in Threads : (Orderly(todo[u]) /\ Timely(todo[u]))'
<1>1. /\ TypeInv' /\ thread[t] = "driving" /\ Orderly(todo[t]) /\ Timely(todo[t])
      /\ todo[t] \in Seq(Effect) /\ todo'[t] \in Seq(Effect)
  BY DriveTyped, Taken DEF OnceInv, TypeInv
<1>2. \A u \in Threads \ {t} : todo'[u] = <<>>
  BY <1>1, Alone, ThreadMoves
<1>3. PICK r \in Seq(Effect) : r = todo'[t]
  BY <1>1
<1>4. Orderly(r) /\ Timely(r)'
  <2>1. CASE WentOn(t)
    <3>1. todo[t] # <<>> /\ r = Tail(todo[t])
      BY <1>3, <2>1 DEF WentOn
    <3> QED
      BY <1>1, <3>1, Begins, TimelyRest
  <2>2. CASE Chose(t)
    <3>1. PICK what \in Handlers \cup {"FAILURE"} :
            /\ r \in Ways(what)
            /\ what \in Nodes => Faces(t, "dispatch") /\ what = state.node
      BY <1>3, <2>2 DEF Chose
    <3>2. UNCHANGED <<state, granted, history>>
      BY <2>2 DEF Chose
    <3>3. Orderly(r) /\ Timely(r)
      <4>1. CASE what = "FAILURE"
        BY <3>1, <4>1, FailureFits DEF Ways
      <4>2. CASE what # "FAILURE"
        <5>1. what \in Handlers /\ r \in Scripts(what) /\ StateOK /\ Undertaken /\ Unbegun
          BY <3>1, <4>2 DEF Ways, TypeInv, TypeOK, StateOK, OnceInv
        <5>2. what \in Working => Planned /\ state.current # 0
          BY <3>1 DEF Working, Nodes, TypeInv, Ready
        <5>3. ASSUME what = "EXECUTE"
              PROVE  StatusOf(state.current) # "pending" /\ ~Started(state.current)
          <6>1. Faces(t, "dispatch") /\ state.node = "EXECUTE"
            BY <3>1, <5>3 DEF Nodes
          <6>2. todo[t] # <<>> /\ Head(todo[t]).do = "dispatch"
            BY <6>1 DEF Faces
          <6>3. Head(todo[t]) # Observed /\ Head(todo[t]).do \notin {"emit", "save", "put"}
            BY <6>2 DEF Observed, Set
          <6>4. Observed \notin Range(todo[t])
            BY <1>1, <6>2, <6>3, Begins
          <6>5. \A u \in Threads : Observed \notin Range(todo[u])
            BY <1>1, <6>4, Alone DEF Range
          <6> QED
            BY <6>1, <6>5 DEF OnceInv, AtWork
        <5> QED
          BY <3>1, <5>1, <5>2, <5>3, ScriptFits
      <4> QED
        BY <4>1, <4>2
    <3> QED
      BY <3>2, <3>3 DEF Timely, Due, Planned, StatusOf, Started, Occurs, Bare
  <2>3. CASE TookUp(t)
    <3>1. PICK e \in Turns : Range(r) = {e}
      BY <1>3, <2>3 DEF TookUp
    <3>2. Dull(e)
      BY DEF Turns, Results, Leave, Dull, Starting, Choices, Restarts, Observed, Engaged, Fetch,
             StatusPuts, Set
    <3>3. Orderly(r)
      BY <3>1, <3>2, DullScript
    <3>4. Timely(r)'
      BY <3>1, <3>2 DEF Dull, Timely
    <3> QED
      BY <3>3, <3>4
  <2> QED
    BY <2>1, <2>2, <2>3, ThreadMoves
<1>5. ASSUME NEW u \in Threads PROVE (Orderly(todo[u]) /\ Timely(todo[u]))'
  <2>1. CASE u = t
    BY <1>3, <1>4, <2>1 DEF Orderly, Timely, Due
  <2>2. CASE u # t
    <3>1. todo'[u] = <<>>
      BY <1>2, <2>2
    <3>2. Range(<<>>) = {} /\ Len(<<>>) = 0
      BY DEF Range
    <3>3. 1..0 = {}
      OBVIOUS
    <3> QED
      BY <3>1, <3>2, <3>3 DEF Orderly, Timely
  <2> QED
    BY <2>1, <2>2
<1> QED
  BY <1>5

\* What was called before a step, and is called with it, was called once.
LEMMA CalledOnceStays ==
  ASSUME TypeInv, CalledOnce, NEW t \in Threads, Drive(t), Timely(todo[t])
  PROVE  CalledOnce'
<1>1. CASE history' = history
  BY <1>1 DEF CalledOnce, Occurs
<1>2. CASE Emit(t)
  <2> DEFINE e == Head(todo[t])
             Old(i) == i \in DOMAIN history /\ history'[i] = history[i]
             New(i) == /\ i = Len(history) + 1
                       /\ history'[i].type = e.type /\ history'[i].task = e.task
  <2>1. \A i \in DOMAIN history' : Old(i) \/ New(i)
    BY <1>2, Latest
  <2>2. ASSUME NEW i \in DOMAIN history', New(i), history'[i].type = "TOOL_STARTED",
               NEW j \in DOMAIN history', Old(j), history'[j].type = "TOOL_STARTED"
        PROVE  history'[i].task # history'[j].task
    <3>1. Started(history[j].task)
      BY <2>2 DEF Started, Occurs
    <3>2. e \in Emits /\ e \in Range(todo[t])
      BY <1>2, Facing, Emitted DEF Emit
    <3>3. e \in Starting
      BY <2>2, <3>2 DEF Emits, Starting
    <3>4. e.task = state.current /\ ~Started(state.current)
      BY <3>2, <3>3 DEF Timely
    <3> HIDE DEF e
    <3> QED
      BY <2>2, <3>1, <3>4
  <2>3. ASSUME NEW i \in DOMAIN history', Old(i), history'[i].type = "TOOL_STARTED",
               NEW j \in DOMAIN history', Old(j), history'[j].type = "TOOL_STARTED",
               history'[i].task = history'[j].task
        PROVE  i = j
    BY <2>3 DEF CalledOnce, Occurs
  <2> QED
    BY <2>1, <2>2, <2>3 DEF CalledOnce, Occurs
<1> QED
  BY <1>1, <1>2, ThreadMoves

LEMMA DriveOnce ==
  ASSUME TypeInv, OneDriver, OnceInv, NEW t \in Threads, Drive(t)
  PROVE  OnceInv'
<1> DEFINE s == todo[t]
           h == Head(todo[t])
<1>1. /\ thread[t] = "driving" /\ Orderly(s) /\ Timely(s) /\ s \in Seq(Effect)
      /\ CalledOnce /\ Undertaken /\ Unbegun /\ AtWork
  BY Taken DEF OnceInv, TypeInv
<1>2. CalledOnce'
  BY <1>1, CalledOnceStays
<1>3. ASSUME NEW k, Started(k)', ~Started(k)
      PROVE  /\ k = state.current /\ state.node = "EXECUTE" /\ Observed \in Range(s)
             /\ state' = state /\ s # <<>> /\ h.do = "emit"
  BY <1>1, <1>3, CallMade
<1>4. ASSUME StorePlan(t)
      PROVE  /\ Bare /\ Bare' /\ state.node # "EXECUTE"
  <2>1. Fetch \in Range(s)
    BY <1>4, PlanFaced
  <2>2. Bare /\ state.node # "EXECUTE"
    BY <1>1, <2>1 DEF Timely
  <2> QED
    BY <1>3, <2>2 DEF Bare
<1>5. ASSUME Planned, ~StorePlan(t), NEW k \in 1..Jobs, state.tasks[k].status # "pending"
      PROVE  Planned' /\ state'.tasks[k].status # "pending"
  BY <1>1, <1>5, StatusMoves
<1>6. Undertaken'
  <2> SUFFICES ASSUME NEW k \in 1..Jobs, Started(k)'
               PROVE  Planned' /\ state'.tasks[k].status # "pending"
    BY DEF Undertaken, StatusOf
  <2>1. CASE Started(k)
    <3>1. Planned /\ state.tasks[k].status # "pending"
      BY <1>1, <2>1 DEF Undertaken, StatusOf
    <3>2. ~StorePlan(t)
      BY <1>4, <2>1 DEF Bare
    <3> QED
      BY <1>5, <3>1, <3>2
  <2>2. CASE ~Started(k)
    <3>1. k = state.current /\ state.node = "EXECUTE" /\ state' = state
      BY <1>3, <2>2
    <3>2. Planned /\ state.tasks[k].status # "pending"
      BY <1>1, <3>1 DEF AtWork, StatusOf, TypeInv, Ready, Working
    <3> QED
      BY <3>1, <3>2 DEF Planned
  <2> QED
    BY <2>1, <2>2
<1>7. /\ \/ state'.node = state.node
         \/ s # <<>> /\ h \in NodeSets /\ h \in Range(s) /\ state'.node = h.value
         \/ state.node = "START" /\ state'.node = "UNDERSTAND"
  BY NodeMoves
<1> DEFINE Early == {"START", "UNDERSTAND", "CREATE_PLAN"}
<1>8. Unbegun'
  <2> SUFFICES ASSUME state'.node \in Early PROVE Bare'
    BY DEF Unbegun
  <2>1. Bare
    <3>1. CASE state'.node = state.node
      BY <1>1, <3>1 DEF Unbegun
    <3>2. CASE h \in NodeSets /\ h \in Range(s) /\ state'.node = h.value
      <4>1. h \in Restarts
        BY <3>2 DEF NodeSets, Restarts, Aims, Set
      <4> QED
        BY <1>1, <3>2, <4>1 DEF Timely
    <3>3. CASE state.node = "START"
      BY <1>1, <3>3 DEF Unbegun
    <3> QED
      BY <1>7, <3>1, <3>2, <3>3
  <2>2. ASSUME NEW k \in 1..Jobs, Started(k)' PROVE FALSE
    BY <1>3, <2>1, <2>2 DEF Bare
  <2> QED
    BY <2>2 DEF Bare
<1>9. AtWork'
  <2> SUFFICES ASSUME state'.node = "EXECUTE"
               PROVE  /\ state'.tasks[state'.current].status # "pending"
                      /\ Started(state.current)' => Observed \in Range(todo'[t])
    BY DEF AtWork, StatusOf
  <2>1. CASE state.node = "EXECUTE"
    <3>1. state'.current = state.current
      <4>1. ASSUME h \in Choices, h \in Range(s) PROVE FALSE
        BY <1>1, <2>1, <4>1 DEF Timely
      <4> QED
        BY <4>1, StateMoves
    <3>2. ~StorePlan(t)
      BY <1>4, <2>1
    <3>3. Planned /\ state.current \in 1..Jobs /\ state.tasks[state.current].status # "pending"
      BY <1>1, <2>1, ServiceAssumption DEF AtWork, StatusOf, TypeInv, TypeOK, Ready, Working
    <3>4. state'.tasks[state'.current].status # "pending"
      BY <1>5, <3>1, <3>2, <3>3
    <3>5. ASSUME Started(state.current)' PROVE Observed \in Range(todo'[t])
      <4>1. Observed \in Range(s)
        <5>1. PICK k : k = state.current
          OBVIOUS
        <5>2. Started(k)'
          BY <3>1, <3>5, <5>1 DEF Started
        <5>3. CASE Started(k)
          <6>1. PICK u \in Threads : Observed \in Range(todo[u])
            BY <1>1, <2>1, <5>1, <5>3 DEF AtWork
          <6>2. todo[u] # <<>>
            BY <6>1 DEF Range
          <6> QED
            BY <1>1, <6>1, <6>2, Alone
        <5> QED
          BY <1>3, <5>2, <5>3
      <4>2. s # <<>>
        BY <4>1 DEF Range
      <4>3. h = Observed \/ (h.do \in {"emit", "save", "put"} /\ Observed \in Range(Tail(s)))
        BY <1>1, <4>1, <4>2, Begins
      <4>4. h # Observed
        <5> SUFFICES ASSUME h = Observed PROVE FALSE
          OBVIOUS
        <5>1. h.do = "set" /\ h \in NodeSets /\ h.value = "OBSERVE"
          BY DEF Observed, Set, NodeSets, Aims, Nodes
        <5>2. Write(t) /\ h \notin StatusSets \cup Choices
          BY <4>2, <5>1, Taken DEF StatusSets, Choices, NodeSets
        <5>3. state'.node = "OBSERVE"
          BY <5>1, <5>2, Written DEF TypeInv, TypeOK
        <5> QED
          BY <5>3
      <4>5. Rest(t)
        BY <4>2, <4>3, <4>4, Taken DEF Emit, Save, WriteTask
      <4>6. todo'[t] = Tail(s)
        BY <4>5 DEF Rest, TypeInv
      <4> QED
        BY <4>3, <4>4, <4>6
    <3> QED
      BY <3>4, <3>5
  <2>2. CASE state.node # "EXECUTE"
    <3>1. s # <<>> /\ h \in NodeSets /\ h \in Range(s) /\ h.value = "EXECUTE"
      BY <1>7, <2>2
    <3>2. h = Engaged /\ h.do = "set"
      BY <3>1 DEF NodeSets, Engaged, Set
    <3>3. Range(s) \subseteq {Engaged, Look}
      BY <1>1, <3>1, <3>2, Begins, Shorter
    <3>4. Engaged \notin Choices \cup StatusPuts /\ Look \notin Choices \cup StatusPuts
      BY DEF Engaged, Look, Set, Choices, StatusPuts
    <3>5. Due(state.current, s)
      BY <1>1, <3>1, <3>2, <3>3, <3>4 DEF Timely
    <3>6. /\ Planned /\ state.current \in 1..Jobs /\ ~Started(state.current)
          /\ state.tasks[state.current].status # "pending"
      BY <3>3, <3>4, <3>5 DEF Due, StatusOf
    <3>7. state'.current = state.current /\ ~StorePlan(t)
      BY <3>2, <3>4, StateMoves, PlanFaced DEF Fetch, Engaged, Set
    <3>8. ~Started(state.current)'
      <4>1. PICK k : k = state.current
        OBVIOUS
      <4>2. ~Started(k)'
        BY <1>3, <3>2, <3>6, <4>1
      <4> QED
        BY <3>7, <4>1, <4>2 DEF Started
    <3> QED
      BY <1>5, <3>6, <3>7, <3>8
  <2> QED
    BY <2>1, <2>2
<1>10. \A u \in Threads : (Orderly(todo[u]) /\ Timely(todo[u]))'
  BY TodoOnce
<1> QED
  BY <1>2, <1>6, <1>8, <1>9, <1>10 DEF OnceInv

\* Clients and the stream change nothing that the calls depend on.
LEMMA OtherOnce ==
  ASSUME TypeInv, OnceInv,
         PostStart \/ PostApprove \/ Open \/ Reopen \/ Follow \/ UNCHANGED vars
  PROVE  OnceInv'
<1>1. UNCHANGED <<state, history>>
  BY DEF PostStart, PostApprove, Spawn, Open, Reopen, Follow, Replay, CheckStatus, Flush,
         vars, agent
<1>2. ASSUME NEW u \in Threads
      PROVE  \/ todo'[u] = todo[u]
             \/ \E A \in SUBSET Gated :
                  todo[u] = <<>> /\ todo'[u] = <<[do |-> "resume", tools |-> A]>>
  <2>1. CASE Open \/ Reopen \/ Follow \/ UNCHANGED vars
    BY <2>1 DEF Open, Reopen, Follow, Replay, CheckStatus, Flush, vars, driver
  <2>2. CASE PostStart \/ PostApprove
    <3>1. PICK A \in SUBSET Gated : Spawn(A)
      <4>1. CASE PostStart
        BY <4>1 DEF PostStart
      <4>2. CASE PostApprove
        <5>1. PICK i \in LastRequests : Spawn({history[i].task})
          BY <4>2 DEF PostApprove
        <5>2. history[i].task \in Gated
          BY DEF LastRequests, TypeInv, GatedAsk
        <5> QED
          BY <5>1, <5>2
      <4> QED
        BY <2>2, <4>1, <4>2
    <3>2. PICK t \in Threads :
            /\ thread[t] = "none"
            /\ todo' = [todo EXCEPT ![t] = <<[do |-> "resume", tools |-> A]>>]
      BY <3>1 DEF Spawn
    <3>3. todo[t] = <<>>
      BY <3>2 DEF TypeInv, TypeOK
    <3> QED
      BY <3>2, <3>3 DEF TypeInv
  <2> QED
    BY <2>1, <2>2
<1>3. ASSUME NEW u \in Threads PROVE (Orderly(todo[u]) /\ Timely(todo[u]))'
  <2>1. CASE todo'[u] = todo[u]
    BY <1>1, <2>1
       DEF OnceInv, Orderly, Timely, Due, Planned, StatusOf, Started, Occurs, Bare
  <2>2. ASSUME NEW A \in SUBSET Gated, todo'[u] = <<[do |-> "resume", tools |-> A]>>
        PROVE  (Orderly(todo[u]) /\ Timely(todo[u]))'
    <3> DEFINE e == [do |-> "resume", tools |-> A]
    <3>1. e \in Effect /\ Dull(e)
      BY DEF Effect, Resumes, Dull, Starting, Choices, Restarts, Observed, Engaged, Fetch,
             StatusPuts, Set
    <3> HIDE DEF e
    <3>2. PICK r : r = <<e>>
      OBVIOUS
    <3>3. r \in Seq(Effect) /\ Range(r) = {e}
      BY <3>1, <3>2, One
    <3>4. Orderly(r) /\ Timely(r)'
      BY <3>1, <3>3, DullScript DEF Dull, Timely
    <3>5. todo'[u] = r
      BY <2>2, <3>2 DEF e
    <3> QED
      BY <3>4, <3>5 DEF Orderly, Timely, Due
  <2> QED
    BY <1>2, <2>1, <2>2
<1>4. AtWork'
  <2>1. Range(<<>>) = {}
    BY DEF Range
  <2>2. ASSUME NEW u \in Threads, Observed \in Range(todo[u])
        PROVE  Observed \in Range(todo'[u])
    <3>1. todo[u] # <<>>
      BY <2>1, <2>2
    <3>2. todo'[u] = todo[u]
      BY <1>2, <3>1
    <3> QED
      BY <2>2, <3>2
  <2> QED
    BY <1>1, <2>2 DEF OnceInv, AtWork, StatusOf, Started, Occurs
<1>5. CalledOnce' /\ Undertaken' /\ Unbegun'
  BY <1>1 DEF OnceInv, CalledOnce, Undertaken, Unbegun, Bare, Started, Occurs, Planned, StatusOf
<1> QED
  BY <1>3, <1>4, <1>5 DEF OnceInv

LEMMA InitOnce == Init => OnceInv
<1> SUFFICES ASSUME Init PROVE OnceInv
  OBVIOUS
<1>1. /\ history = <<>> /\ state.node = "START" /\ \A t \in Threads : todo[t] = <<>>
  BY DEF Init
<1>2. Range(<<>>) = {} /\ Len(<<>>) = 0 /\ 1..0 = {} /\ \A type : Occurs(type) = {}
  BY <1>1 DEF Range, Occurs
<1>3. \A t \in Threads : Orderly(todo[t]) /\ Timely(todo[t])
  BY <1>1, <1>2 DEF Orderly, Timely
<1>4. \A k : ~Started(k)
  BY <1>2 DEF Started
<1> QED
  BY <1>1, <1>2, <1>3, <1>4 DEF OnceInv, CalledOnce, Undertaken, Unbegun, Bare, AtWork

LEMMA Calling == Spec /\ []OneDriver => []OnceInv
<1>1. Init => OnceInv
  BY InitOnce
<1>2. TypeInv /\ StreamInv /\ OneDriver /\ OnceInv /\ [Next]_vars => OnceInv'
  BY DriveOnce, OtherOnce DEF Next
<1> QED
  BY <1>1, <1>2, Typing, PTL DEF Spec

\* As long as one thread at a time drives a run, however often it is started,
\* paused and resumed, whatever its clients wait for and wherever a failure ends
\* it, the tool of a task is called once: a paused run goes on from where it
\* stopped.
THEOREM ToolsAreCalledOnce == Spec /\ []OneDriver => []ToolsRunOnce
<1>1. OnceInv => ToolsRunOnce
  <2> SUFFICES ASSUME OnceInv, NEW k \in 1..Jobs
               PROVE  Cardinality({i \in Occurs("TOOL_STARTED") : history[i].task = k}) <= 1
    BY DEF ToolsRunOnce
  <2> DEFINE Calls == {i \in Occurs("TOOL_STARTED") : history[i].task = k}
  <2>1. \A i, j \in Calls : i = j
    BY DEF OnceInv, CalledOnce
  <2> HIDE DEF Calls
  <2>2. Calls = {} \/ \E i : Calls = {i}
    <3> SUFFICES ASSUME NEW i \in Calls PROVE Calls = {i}
      OBVIOUS
    <3>1. \A j \in Calls : j = i
      BY <2>1
    <3> QED
      BY <3>1
  <2>3. Cardinality(Calls) = 0 \/ Cardinality(Calls) = 1
    BY <2>2, FS_EmptySet, FS_Singleton
  <2> QED
    BY <2>3 DEF Calls
<1> QED
  BY <1>1, Calling, PTL
-----------------------------------------------------------------------------
(* The promise, with one driver at a time.                                 *)

Hold == Set("status", "awaiting_approval")
Success == Set("status", "completed")
Given == Set("node", "DECIDE")

\* What has to do with the plan: a script does one of these at most.
Touches == StatusPuts \cup ResultPuts \cup {Fetch, Given}

\* A request ends where the run waits, and a plan comes before all else.
Shaped(s) ==
  \A i \in 1..Len(s) :
    /\ s[i] = Hold => Len(s) = i + 2 /\ s[i + 1] = Engaged /\ s[i + 2] = Look
    /\ s[i] = Fetch => \A j \in 1..(i - 1) : s[j] = Fallible

ResultOf(k) == state.tasks[k].result

\* What is left to do fits the plan and the results.
Apt(s) ==
  /\ \A p, q \in Range(s) \cap Touches : p = q
  /\ Given \in Range(s) => Range(s) \cap Choices = {}
  /\ \A e \in Range(s) :
       /\ e \in NodeSets /\ e.value \in {"SELECT_NEXT", "VERIFY"} =>
            Planned \/ Fetch \in Range(s)
       /\ e = Then("JUDGE") => Planned
       /\ e = Success => Planned /\ Completed
       /\ e \in ResultPuts \cup Choices \cup {Fetch} => state.node # "DECIDE"
       /\ e = Given => ResultOf(state.current) = "fatal"
       /\ e \in StatusPuts /\ e.plan = state.plan =>
            IF e.value = "completed" THEN ResultOf(e.task) = "ok"
                                     ELSE StatusOf(e.task) # "completed"
       /\ e \in ResultPuts /\ e.plan = state.plan => StatusOf(e.task) # "completed"

\* A task is completed when its result is ok, ...
Earned == Planned => \A k \in 1..Jobs : StatusOf(k) = "completed" => ResultOf(k) = "ok"

\* ... only a fatal result is decided on, ...
Deciding == state.node = "DECIDE" => ResultOf(state.current) = "fatal"

\* ... tasks are taken and judged from a plan, ...
Footing == state.node \in {"SELECT_NEXT", "VERIFY"} => Planned

\* ... all of it is done in a completed run, ...
Complete == state.status = "completed" => Planned /\ Completed

\* ... and who still drives while the run waits has only to leave, or is there
\* to resume it.
Waits == state.status = "awaiting_approval"
Parted(s) ==
  \/ Len(s) = 2 /\ s[1] = Engaged /\ s[2] = Look
  \/ Len(s) = 1 /\ s[1] \in {Look, Leave} \cup Results \cup Resumes
Idles == Waits => \A t \in Threads : thread[t] = "driving" => Parted(todo[t])

PromiseInv ==
  /\ Earned /\ Deciding /\ Footing /\ Complete /\ Idles
  /\ \A t \in Threads : Shaped(todo[t]) /\ Apt(todo[t])

\* Most effects have nothing to do with any of this.
Aloof(e) ==
  /\ e \notin Touches \cup Choices \cup {Success, Then("JUDGE")}
  /\ e \in NodeSets => e.value \notin {"SELECT_NEXT", "VERIFY"}

LEMMA AloofScript ==
  ASSUME NEW s, \A e \in Range(s) : Aloof(e)
  PROVE  Apt(s)
BY DEF Apt, Aloof, Touches

LEMMA AloofEffects ==
  /\ \A e \in FailureEffects \cup {EmitOf("MEMORY_STORED", 0)} : Aloof(e)
  /\ \A k : \A e \in RequestEffects(k) : Aloof(e)
  /\ \A v \in {"failed", "blocked"} : \A e \in IdleEffects(v) \cup JudgeEffects(v) : Aloof(e)
  /\ \A e \in BeginEffects \cup RememberEffects \cup LateEffects : Aloof(e)
  /\ \A type \in Verdicts : \A e \in SaidEffects(type) \cup {Set("node", "END"), Look} : Aloof(e)
<1> USE DEF Aloof, Touches, Choices, StatusPuts, ResultPuts, NodeSets, Success, Given, Fetch,
            Set, EmitOf, Row, Look, Fallible, Then, Leave
<1>1. \A e \in FailureEffects \cup {EmitOf("MEMORY_STORED", 0)} : Aloof(e)
  BY DEF FailureEffects
<1>2. ASSUME NEW k PROVE \A e \in RequestEffects(k) : Aloof(e)
  BY DEF RequestEffects
<1>3. ASSUME NEW v \in {"failed", "blocked"}
      PROVE  \A e \in IdleEffects(v) \cup JudgeEffects(v) : Aloof(e)
  BY DEF IdleEffects, JudgeEffects
<1>4. \A e \in BeginEffects \cup RememberEffects \cup LateEffects : Aloof(e)
  BY DEF BeginEffects, RememberEffects, LateEffects
<1>5. ASSUME NEW type \in Verdicts
      PROVE  \A e \in SaidEffects(type) \cup {Set("node", "END"), Look} : Aloof(e)
  BY DEF SaidEffects, Verdicts
<1> HIDE DEF Aloof
<1> QED
  BY <1>1, <1>2, <1>3, <1>4, <1>5

\* A script without a request and a plan has nothing to place.
LEMMA PlainShaped ==
  ASSUME NEW s \in Seq(Effect), Hold \notin Range(s), Fetch \notin Range(s)
  PROVE  Shaped(s)
<1>1. \A i \in 1..Len(s) : s[i] # Hold /\ s[i] # Fetch
  BY Elements
<1> QED
  BY <1>1 DEF Shaped

LEMMA JoinShaped ==
  ASSUME NEW s, NEW E, Has(s, E), Shaped(s), NEW r, NEW F, Has(r, F), Shaped(r),
         Hold \notin E, Fetch \notin F
  PROVE  Shaped(s \o r)
<1> DEFINE d == s \o r
           n == Len(s)
           m == Len(r)
<1>1. /\ n \in Nat /\ m \in Nat /\ Len(d) = n + m
      /\ \A i \in 1..n : d[i] = s[i] /\ s[i] \in E
      /\ \A i \in (n + 1)..(n + m) : d[i] = r[i - n] /\ i - n \in 1..m /\ r[i - n] \in F
  <2>1. s \in Seq(Effect) /\ r \in Seq(Effect) /\ E = Range(s) /\ F = Range(r)
    BY DEF Has
  <2>2. n \in Nat /\ \A i \in 1..n : s[i] \in E
    BY <2>1, Elements
  <2>3. m \in Nat /\ \A i \in 1..m : r[i] \in F
    BY <2>1, Elements
  <2>4. /\ Len(d) = n + m
        /\ \A i \in 1..(n + m) : d[i] = IF i <= n THEN s[i] ELSE r[i - n]
    BY <2>1, ConcatProperties
  <2> HIDE DEF d, n, m
  <2> QED
    BY <2>2, <2>3, <2>4
<1>2. /\ \A i \in 1..n : s[i] = Fetch => \A j \in 1..(i - 1) : s[j] = Fallible
      /\ \A i \in 1..m :
           r[i] = Hold => m = i + 2 /\ r[i + 1] = Engaged /\ r[i + 2] = Look
  BY DEF Shaped
<1> HIDE DEF d, n, m
<1>3. ASSUME NEW i \in 1..n
      PROVE  d[i] # Hold /\ (d[i] = Fetch => \A j \in 1..(i - 1) : d[j] = Fallible)
  <2>1. \A j \in 1..(i - 1) : j \in 1..n
    BY <1>1
  <2> QED
    BY <1>1, <1>2, <2>1
<1>4. ASSUME NEW i \in (n + 1)..(n + m)
      PROVE  /\ d[i] # Fetch
             /\ d[i] = Hold => n + m = i + 2 /\ d[i + 1] = Engaged /\ d[i + 2] = Look
  <2>1. d[i] = r[i - n] /\ i - n \in 1..m /\ r[i - n] \in F
    BY <1>1
  <2>2. ASSUME d[i] = Hold PROVE n + m = i + 2 /\ d[i + 1] = Engaged /\ d[i + 2] = Look
    <3>1. m = (i - n) + 2 /\ r[(i - n) + 1] = Engaged /\ r[(i - n) + 2] = Look
      BY <1>2, <2>1, <2>2
    <3>2. /\ n + m = i + 2 /\ i + 1 \in (n + 1)..(n + m) /\ i + 2 \in (n + 1)..(n + m)
          /\ (i + 1) - n = (i - n) + 1 /\ (i + 2) - n = (i - n) + 2
      BY <1>1, <3>1
    <3> QED
      BY <1>1, <3>1, <3>2
  <2> QED
    BY <2>1, <2>2
<1>5. \A i \in 1..(n + m) : i \in 1..n \/ i \in (n + 1)..(n + m)
  BY <1>1
<1> QED
  BY <1>1, <1>3, <1>4, <1>5 DEF Shaped, d

LEMMA PlanShaped == Shaped(CreatePlan)
<1>1. /\ 0 \in 0..Jobs /\ "PLAN_CREATED" \in EventTypes /\ "SELECT_NEXT" \in Aims
  BY ServiceAssumption DEF EventTypes, Aims, Nodes
<1> DEFINE a == <<Fallible, Fetch>>
           b == Publish("PLAN_CREATED", 0)
           c == <<Fallible>>
           d == Goto("SELECT_NEXT")
           A == {Fallible, Fetch}
           B == {EmitOf("PLAN_CREATED", 0), Row}
           C == {Fallible}
           D == {Set("node", "SELECT_NEXT"), Look}
<1>2. Has(a, A) /\ Has(b, B) /\ Has(c, C) /\ Has(d, D)
  BY <1>1, Others1, Pair, Single, PublishHas, GotoHas DEF Fetch
<1>3. CreatePlan = a \o b \o c \o d
  BY DEF CreatePlan, Fetch
<1>4. /\ Hold \notin A \cup B \cup C \cup D /\ Fetch \notin B \cup C \cup D
      /\ Fallible # Fetch
  BY DEF Hold, Fetch, Set, EmitOf, Row, Look, Fallible
<1>5. Shaped(a)
  <2>1. Len(a) = 2 /\ a[1] = Fallible /\ a[2] = Fetch
    OBVIOUS
  <2> HIDE DEF a
  <2>2. \A i \in 1..2 : i = 1 \/ i = 2
    OBVIOUS
  <2>3. 1..(1 - 1) = {} /\ 1..(2 - 1) = {1}
    OBVIOUS
  <2>4. Fallible # Hold /\ Fetch # Hold
    BY <1>4
  <2> QED
    BY <1>4, <2>1, <2>2, <2>3, <2>4 DEF Shaped
<1> HIDE DEF a, b, c, d, A, B, C, D
<1>6. Shaped(b) /\ Shaped(c) /\ Shaped(d)
  BY <1>2, <1>4, PlainShaped DEF Has
<1>7. Has(a \o b, A \cup B) /\ Shaped(a \o b)
  BY <1>2, <1>4, <1>5, <1>6, Together, JoinShaped
<1>8. Has(a \o b \o c, A \cup B \cup C) /\ Shaped(a \o b \o c)
  BY <1>2, <1>4, <1>6, <1>7, Together, JoinShaped
<1>9. Shaped(a \o b \o c \o d)
  BY <1>2, <1>4, <1>6, <1>8, JoinShaped
<1> QED
  BY <1>3, <1>9

LEMMA RequestShaped ==
  ASSUME NEW k \in 1..Jobs
  PROVE  Shaped(Request(k))
<1>1. /\ k \in 0..Jobs
      /\ "APPROVAL_REQUIRED" \in EventTypes /\ "EXECUTE" \in Aims
      /\ Hold \in Effect /\ Engaged \in Effect /\ Look \in Effect
  BY SetTyped, Others1
     DEF EventTypes, Aims, Nodes, RunStatus, Closing, Hold, Engaged
<1> DEFINE a == Publish("APPROVAL_REQUIRED", k)
           b == <<Hold>>
           c == Goto("EXECUTE")
           A == {EmitOf("APPROVAL_REQUIRED", k), Row}
           B == {Hold}
           C == {Engaged, Look}
<1>2. Has(a, A) /\ Has(b, B) /\ Has(c, C) /\ Request(k) = (a \o b) \o c
  <2>1. Has(a, A) /\ Has(b, B)
    BY <1>1, PublishHas, Single
  <2>2. Has(c, C)
    BY <1>1, GotoHas DEF Engaged
  <2> QED
    BY <2>1, <2>2 DEF Request, Hold
<1>3. /\ Hold \notin A \cup C /\ Fetch \notin A \cup B \cup C
  BY DEF Hold, Fetch, Engaged, Set, EmitOf, Row, Look
<1>4. Len(b) = 1 /\ b[1] = Hold /\ Len(c) = 2 /\ c[1] = Engaged /\ c[2] = Look
  BY DEF Goto, Engaged, Look
<1>0. a \o (b \o c) = (a \o b) \o c
  <2>1. PICK p, q, r, u, v : a = <<p, q>> /\ b = <<r>> /\ c = <<u, v>>
    BY Zenon DEF Publish, Goto
  <2>2. <<p, q>> \o (<<r>> \o <<u, v>>) = (<<p, q>> \o <<r>>) \o <<u, v>>
    OBVIOUS
  <2> HIDE DEF a, b, c
  <2> QED
    BY <2>1, <2>2
<1> HIDE DEF a, b, c, A, B, C
<1>5. /\ a \in Seq(Effect) /\ b \in Seq(Effect) /\ c \in Seq(Effect)
      /\ a \o (b \o c) = (a \o b) \o c
  <2>1. a \in Seq(Effect) /\ b \in Seq(Effect) /\ c \in Seq(Effect)
    BY <1>2, Zenon DEF Has
  <2> QED
    BY <1>0, <2>1, Zenon
<1>6. Shaped(b \o c)
  <2>1. /\ Len(b \o c) = 3
        /\ \A i \in 1..3 : (b \o c)[i] = IF i <= 1 THEN b[i] ELSE c[i - 1]
    <3>1. /\ Len(b \o c) = Len(b) + Len(c)
          /\ \A i \in 1..(Len(b) + Len(c)) :
               (b \o c)[i] = IF i <= Len(b) THEN b[i] ELSE c[i - Len(b)]
      BY <1>5, ConcatProperties
    <3>2. Len(b) + Len(c) = 3
      BY <1>4
    <3> QED
      BY <1>4, <3>1, <3>2
  <2>2. 1 \in 1..3 /\ 2 \in 1..3 /\ 3 \in 1..3 /\ \A i \in 1..3 : i = 1 \/ i = 2 \/ i = 3
    OBVIOUS
  <2>3. (b \o c)[1] = Hold /\ (b \o c)[2] = Engaged /\ (b \o c)[3] = Look
    BY <1>4, <2>1, <2>2
  <2>4. Engaged # Hold /\ Look # Hold /\ Hold # Fetch /\ Engaged # Fetch /\ Look # Fetch
    BY DEF Hold, Fetch, Engaged, Set, Look
  <2>5. PICK d : d = b \o c
    OBVIOUS
  <2>6. Len(d) = 3 /\ d[1] = Hold /\ d[2] = Engaged /\ d[3] = Look
    BY <2>1, <2>3, <2>5
  <2>7. ASSUME NEW i \in 1..3
        PROVE  /\ d[i] = Hold => i = 1
               /\ d[i] # Fetch
    BY <2>2, <2>4, <2>6
  <2> QED
    BY <2>5, <2>6, <2>7 DEF Shaped
<1>7. Has(b \o c, B \cup C) /\ Shaped(a)
  BY <1>2, <1>3, Together, PlainShaped DEF Has
<1>8. Fetch \notin B \cup C
  BY <1>3
<1> QED
  BY <1>2, <1>3, <1>5, <1>6, <1>7, <1>8, JoinShaped

\* The scripts that have to do with the plan, each for its reason.
LEMMA PlanApt ==
  ASSUME state.node # "DECIDE", NEW s, Range(s) = PlanEffects
  PROVE  Apt(s)
<1>1. ASSUME NEW e \in PlanEffects
      PROVE  /\ e \notin StatusPuts \cup ResultPuts \cup Choices \cup {Given, Success, Then("JUDGE")}
             /\ e \in Touches => e = Fetch
  BY <1>1 DEF PlanEffects, Touches, StatusPuts, ResultPuts, Choices, Given, Success, Fetch,
              Set, EmitOf, Row, Look, Fallible, Then
<1>2. Fetch \in Range(s)
  BY DEF PlanEffects, Fetch
<1> QED
  BY <1>1, <1>2 DEF Apt

LEMMA TakeApt ==
  ASSUME StateOK, state.node = "SELECT_NEXT", NEW k \in Pick, k \in 1..Jobs,
         NEW s, Range(s) = TakeEffects(k)
  PROVE  Apt(s)
<1>1. ASSUME NEW e \in TakeEffects(k)
      PROVE  /\ e \notin ResultPuts \cup {Fetch, Given, Success, Then("JUDGE")}
             /\ e \in NodeSets => e.value \notin {"SELECT_NEXT", "VERIFY"}
             /\ e \in StatusPuts => e = Put(k, "status", "running")
  BY <1>1 DEF TakeEffects, NodeSets, StatusPuts, ResultPuts, Given, Success, Fetch,
              Set, Put, EmitOf, Row, Look, Then
<1>2. StatusOf(k) = "pending"
  BY DEF Pick
<1>3. /\ Put(k, "status", "running").task = k
      /\ Put(k, "status", "running").value = "running"
  BY DEF Put
<1>4. \A e \in Range(s) : e \in StatusPuts =>
        e.value # "completed" /\ StatusOf(e.task) # "completed"
  BY <1>1, <1>2, <1>3
<1>5. \A p, q \in Range(s) \cap Touches : p = q
  BY <1>1 DEF Touches
<1> QED
  BY <1>1, <1>4, <1>5 DEF Apt

LEMMA CallApt ==
  ASSUME StateOK, state.node = "EXECUTE", NEW k \in 1..Jobs, StatusOf(k) # "completed",
         NEW outcome \in ToolOutcomes, NEW s, Range(s) = CallEffects(k, outcome)
  PROVE  Apt(s)
<1>1. ASSUME NEW e \in CallEffects(k, outcome)
      PROVE  /\ e \notin StatusPuts \cup Choices \cup {Fetch, Given, Success, Then("JUDGE")}
             /\ e \in NodeSets => e.value \notin {"SELECT_NEXT", "VERIFY"}
             /\ e \in ResultPuts => e = Put(k, "result", outcome)
  BY <1>1 DEF CallEffects, NodeSets, StatusPuts, ResultPuts, Choices, Given, Success, Fetch,
              Set, Put, EmitOf, Row, Look, Then
<1>2. Put(k, "result", outcome).task = k
  BY DEF Put
<1>3. \A e \in Range(s) : e \in ResultPuts => StatusOf(e.task) # "completed"
  BY <1>1, <1>2
<1>4. \A p, q \in Range(s) \cap Touches : p = q
  BY <1>1 DEF Touches
<1> QED
  BY <1>1, <1>3, <1>4 DEF Apt

LEMMA DoneApt ==
  ASSUME Planned, NEW k \in 1..Jobs, ResultOf(k) = "ok", NEW s, Range(s) = DoneEffects(k)
  PROVE  Apt(s)
<1>1. ASSUME NEW e \in DoneEffects(k)
      PROVE  /\ e \notin ResultPuts \cup Choices \cup {Fetch, Given, Success, Then("JUDGE")}
             /\ e \in StatusPuts => e = Put(k, "status", "completed")
  BY <1>1 DEF DoneEffects, StatusPuts, ResultPuts, Choices, Given, Success, Fetch,
              Set, Put, EmitOf, Row, Look, Fallible, Then
<1>2. /\ Put(k, "status", "completed").task = k
      /\ Put(k, "status", "completed").value = "completed"
  BY DEF Put
<1>3. \A e \in Range(s) : e \in StatusPuts =>
        e.value = "completed" /\ ResultOf(e.task) = "ok"
  BY <1>1, <1>2
<1>4. \A p, q \in Range(s) \cap Touches : p = q
  BY <1>1 DEF Touches
<1> QED
  BY <1>1, <1>3, <1>4 DEF Apt

LEMMA ToDecideApt ==
  ASSUME ResultOf(state.current) = "fatal", NEW s, Range(s) = DecideEffects
  PROVE  Apt(s)
<1>1. ASSUME NEW e \in DecideEffects
      PROVE  /\ e \notin StatusPuts \cup ResultPuts \cup Choices \cup {Fetch, Success, Then("JUDGE")}
             /\ e \in NodeSets => e.value \notin {"SELECT_NEXT", "VERIFY"}
  BY <1>1 DEF DecideEffects, NodeSets, StatusPuts, ResultPuts, Choices, Success, Fetch,
              Set, EmitOf, Row, Look, Fallible, Then
<1>2. \A p, q \in Range(s) \cap Touches : p = q
  BY <1>1 DEF Touches
<1> QED
  BY <1>1, <1>2 DEF Apt

LEMMA AbortApt ==
  ASSUME NEW k \in 1..Jobs, StatusOf(k) # "completed", NEW s, Range(s) = AbortEffects(k)
  PROVE  Apt(s)
<1>1. ASSUME NEW e \in AbortEffects(k)
      PROVE  /\ e \notin ResultPuts \cup Choices \cup {Fetch, Given, Success, Then("JUDGE")}
             /\ e \in NodeSets => e.value \notin {"SELECT_NEXT", "VERIFY"}
             /\ e \in StatusPuts => e = Put(k, "status", "failed")
  BY <1>1 DEF AbortEffects, NodeSets, StatusPuts, ResultPuts, Choices, Given, Success, Fetch,
              Set, Put, EmitOf, Row, Look, Then
<1>2. Put(k, "status", "failed").task = k /\ Put(k, "status", "failed").value = "failed"
  BY DEF Put
<1>3. \A e \in Range(s) : e \in StatusPuts =>
        e.value # "completed" /\ StatusOf(e.task) # "completed"
  BY <1>1, <1>2
<1>4. \A p, q \in Range(s) \cap Touches : p = q
  BY <1>1 DEF Touches
<1> QED
  BY <1>1, <1>3, <1>4 DEF Apt

LEMMA JudgingApt ==
  ASSUME Planned, NEW s,
         \/ Completed /\ Range(s) = JudgeEffects("completed")
         \/ Range(s) = CheckEffects
         \/ Range(s) = {Set("node", "VERIFY"), Look}
  PROVE  Apt(s)
<1>1. ASSUME NEW e \in JudgeEffects("completed") \cup CheckEffects \cup {Set("node", "VERIFY"), Look}
      PROVE  e \notin Touches \cup Choices
  BY <1>1 DEF JudgeEffects, CheckEffects, Touches, StatusPuts, ResultPuts, Choices, Given, Fetch,
              Set, EmitOf, Row, Look, Then
<1>2. Success \notin CheckEffects \cup {Set("node", "VERIFY"), Look}
  BY DEF CheckEffects, Success, Set, EmitOf, Row, Look, Then
<1>3. Range(s) \cap (Touches \cup Choices) = {} /\ (Success \in Range(s) => Completed)
  BY <1>1, <1>2
<1> QED
  BY <1>3 DEF Apt, Touches

\* Only the request holds the run, and only the planning fetches a plan.
LEMMA PlainEffects ==
  LET Plain(E) == Hold \notin E /\ Fetch \notin E
  IN  /\ Plain(FailureEffects) /\ Plain(FailureEffects \cup {EmitOf("MEMORY_STORED", 0)})
      /\ \A k : Plain(TakeEffects(k)) /\ Plain(DoneEffects(k)) /\ Plain(AbortEffects(k))
      /\ \A k, o : Plain(CallEffects(k, o))
      /\ \A v \in {"completed", "failed", "blocked"} :
           Plain(IdleEffects(v)) /\ Plain(JudgeEffects(v))
      /\ Plain(BeginEffects) /\ Plain(RememberEffects) /\ Plain(LateEffects)
      /\ Plain(DecideEffects) /\ Plain(CheckEffects)
      /\ \A type : Plain(SaidEffects(type))
      /\ \A n : Plain({Set("node", n), Look})
<1> USE DEF Hold, Fetch, Set, Put, EmitOf, Row, Look, Fallible, Then, Leave
<1> DEFINE Plain(E) == Hold \notin E /\ Fetch \notin E
<1>1. Plain(FailureEffects) /\ Plain(FailureEffects \cup {EmitOf("MEMORY_STORED", 0)})
  BY DEF FailureEffects
<1>2. ASSUME NEW k
      PROVE  Plain(TakeEffects(k)) /\ Plain(DoneEffects(k)) /\ Plain(AbortEffects(k))
  BY DEF TakeEffects, DoneEffects, AbortEffects
<1>3. ASSUME NEW k, NEW o PROVE Plain(CallEffects(k, o))
  BY DEF CallEffects
<1>4. ASSUME NEW v \in {"completed", "failed", "blocked"}
      PROVE  Plain(IdleEffects(v)) /\ Plain(JudgeEffects(v))
  BY DEF IdleEffects, JudgeEffects
<1>5. Plain(BeginEffects) /\ Plain(RememberEffects) /\ Plain(LateEffects)
  BY DEF BeginEffects, RememberEffects, LateEffects
<1>6. Plain(DecideEffects) /\ Plain(CheckEffects)
  BY DEF DecideEffects, CheckEffects
<1>7. ASSUME NEW type PROVE Plain(SaidEffects(type))
  BY DEF SaidEffects
<1>8. ASSUME NEW n PROVE Plain({Set("node", n), Look})
  OBVIOUS
<1> QED
  BY <1>1, <1>2, <1>3, <1>4, <1>5, <1>6, <1>7, <1>8, Zenon

LEMMA HasShaped ==
  ASSUME NEW s, NEW E, Has(s, E), Hold \notin E, Fetch \notin E
  PROVE  Shaped(s)
BY PlainShaped DEF Has

LEMMA HasAloof ==
  ASSUME NEW s, NEW E, Has(s, E), \A e \in E : Aloof(e)
  PROVE  Apt(s)
BY AloofScript DEF Has

LEMMA FailureApt ==
  ASSUME NEW s \in Failure
  PROVE  Shaped(s) /\ Apt(s)
<1>1. Has(s, FailureEffects) \/ Has(s, FailureEffects \cup {EmitOf("MEMORY_STORED", 0)})
  BY FailureHas
<1>2. Shaped(s)
  BY <1>1, PlainEffects, HasShaped
<1>3. Apt(s)
  BY <1>1, AloofEffects, HasAloof
<1> QED
  BY <1>2, <1>3

\* What a handler decides on fits the plan and the results.
LEMMA ScriptApt ==
  ASSUME StateOK, Earned, Deciding, Footing, OrderInv, NEW what \in Handlers,
         what \in Working => Planned /\ state.current # 0,
         what \in Nodes => what = state.node,
         what = "EXECUTE" => ~Started(state.current),
         what = "JUDGE" => Planned,
         NEW s \in Scripts(what)
  PROVE  Shaped(s) /\ Apt(s)
<1>1. what \in {"UNDERSTAND", "CREATE_PLAN", "SELECT_NEXT", "EXECUTE", "OBSERVE", "DECIDE",
                "VERIFY", "STORE_MEMORY", "END", "JUDGE", "ANNOUNCE"}
  BY DEF Handlers, Nodes
<1>2. what \in Working => state.current \in 1..Jobs
  BY ServiceAssumption DEF StateOK
<1>3. CASE what \in {"UNDERSTAND", "STORE_MEMORY", "END"}
  <2>1. Has(s, BeginEffects) \/ Has(s, RememberEffects) \/ Has(s, LateEffects)
    BY <1>3, ScriptsAre, BeginHas, RememberHas, LateHas
  <2>2. Shaped(s)
    BY <2>1, PlainEffects, HasShaped
  <2>3. Apt(s)
    BY <2>1, AloofEffects, HasAloof
  <2> QED
    BY <2>2, <2>3
<1>4. CASE what = "CREATE_PLAN"
  <2>1. s = CreatePlan /\ state.node # "DECIDE"
    BY <1>4, ScriptsAre DEF Nodes
  <2>2. Range(CreatePlan) = PlanEffects
    BY CreatePlanHas DEF Has
  <2> QED
    BY <2>1, <2>2, PlanShaped, PlanApt
<1>5. CASE what = "SELECT_NEXT"
  <2>1. s \in SelectNext /\ state.node = "SELECT_NEXT" /\ Planned
    BY <1>5, ScriptsAre DEF Nodes, Footing
  <2>2. CASE Has(s, {Set("node", "VERIFY"), Look})
    <3>1. Shaped(s)
      BY <2>2, PlainEffects, HasShaped
    <3>2. Apt(s)
      BY <2>1, <2>2, JudgingApt DEF Has
    <3> QED
      BY <3>1, <3>2
  <2>3. CASE Has(s, IdleEffects("failed")) \/ Has(s, IdleEffects("blocked"))
    <3>1. Shaped(s)
      BY <2>3, PlainEffects, HasShaped
    <3>2. Apt(s)
      BY <2>3, AloofEffects, HasAloof
    <3> QED
      BY <3>1, <3>2
  <2>4. ASSUME NEW k \in Pick, k \in 1..Jobs, Has(s, TakeEffects(k)) PROVE Shaped(s) /\ Apt(s)
    <3>1. Shaped(s)
      BY <2>4, PlainEffects, HasShaped
    <3>2. Apt(s)
      BY <2>1, <2>4, TakeApt DEF Has
    <3> QED
      BY <3>1, <3>2
  <2> QED
    BY <2>1, <2>2, <2>3, <2>4, SelectNextHas
<1>6. CASE what = "EXECUTE"
  <2>1. PICK k \in 1..Jobs : k = state.current
    BY <1>2, <1>6 DEF Working
  <2>2. s \in Execute /\ state.node = "EXECUTE" /\ Planned
    BY <1>6, ScriptsAre DEF Nodes, Working
  <2>3. StatusOf(k) # "completed"
    BY <1>6, <2>1, <2>2 DEF OrderInv, StatusOf
  <2>4. CASE s = Request(k) /\ Has(s, RequestEffects(k))
    <3>1. Apt(s)
      BY <2>4, AloofEffects, HasAloof
    <3> QED
      BY <2>4, <3>1, RequestShaped
  <2>5. ASSUME NEW outcome \in ToolOutcomes, Has(s, CallEffects(k, outcome))
        PROVE  Shaped(s) /\ Apt(s)
    <3>1. Shaped(s)
      BY <2>5, PlainEffects, HasShaped
    <3>2. Apt(s)
      BY <2>2, <2>3, <2>5, CallApt DEF Has
    <3> QED
      BY <3>1, <3>2
  <2> QED
    BY <2>1, <2>2, <2>4, <2>5, ExecuteHas
<1>7. CASE what = "OBSERVE"
  <2>1. PICK k \in 1..Jobs : k = state.current
    BY <1>2, <1>7 DEF Working
  <2>2. s \in Observe /\ Planned
    BY <1>7, ScriptsAre DEF Working
  <2>3. CASE ResultOf(k) = "ok" /\ Has(s, DoneEffects(k))
    <3>1. Shaped(s)
      BY <2>3, PlainEffects, HasShaped
    <3>2. Apt(s)
      BY <2>2, <2>3, DoneApt DEF Has
    <3> QED
      BY <3>1, <3>2
  <2>4. CASE ResultOf(k) = "fatal" /\ Has(s, DecideEffects)
    <3>1. Shaped(s)
      BY <2>4, PlainEffects, HasShaped
    <3>2. Apt(s)
      BY <2>1, <2>4, ToDecideApt DEF Has
    <3> QED
      BY <3>1, <3>2
  <2> QED
    BY <2>1, <2>2, <2>3, <2>4, ObserveHas, FailureApt DEF ResultOf
<1>8. CASE what = "DECIDE"
  <2>1. PICK k \in 1..Jobs : k = state.current
    BY <1>2, <1>8 DEF Working
  <2>2. s = Abort /\ state.node = "DECIDE" /\ Planned
    BY <1>8, ScriptsAre DEF Nodes, Working
  <2>3. StatusOf(k) # "completed"
    BY <2>1, <2>2 DEF Deciding, Earned
  <2>4. Has(s, AbortEffects(k))
    BY <2>1, <2>2, AbortHas
  <2>5. Shaped(s)
    BY <2>4, PlainEffects, HasShaped
  <2>6. Apt(s)
    BY <2>3, <2>4, AbortApt DEF Has
  <2> QED
    BY <2>5, <2>6
<1>9. CASE what = "VERIFY"
  <2>1. Has(s, CheckEffects) /\ Planned
    BY <1>9, ScriptsAre, CheckHas DEF Nodes, Footing
  <2>2. Shaped(s)
    BY <2>1, PlainEffects, HasShaped
  <2>3. Apt(s)
    BY <2>1, JudgingApt DEF Has
  <2> QED
    BY <2>2, <2>3
<1>10. CASE what = "JUDGE"
  <2>1. \/ Completed /\ Has(s, JudgeEffects("completed"))
        \/ Has(s, JudgeEffects("failed"))
    BY <1>10, ScriptsAre, JudgeHas
  <2>2. Shaped(s)
    BY <2>1, PlainEffects, HasShaped
  <2>3. Apt(s)
    <3>1. CASE Completed /\ Has(s, JudgeEffects("completed"))
      BY <1>10, <3>1, JudgingApt DEF Has
    <3>2. CASE Has(s, JudgeEffects("failed"))
      BY <3>2, AloofEffects, HasAloof
    <3> QED
      BY <2>1, <3>1, <3>2
  <2> QED
    BY <2>2, <2>3
<1>11. CASE what = "ANNOUNCE"
  <2>1. "OBJECTIVE_COMPLETED" \in Verdicts /\ "OBJECTIVE_FAILED" \in Verdicts
    BY DEF Verdicts
  <2>2. \/ \E type \in Verdicts : Has(s, SaidEffects(type))
        \/ Has(s, {Set("node", "END"), Look})
    BY <1>11, <2>1, ScriptsAre, AnnounceHas
  <2>3. Shaped(s)
    BY <2>2, PlainEffects, HasShaped
  <2>4. Apt(s)
    BY <2>1, <2>2, AloofEffects, HasAloof
  <2> QED
    BY <2>3, <2>4
<1> QED
  BY <1>1, <1>3, <1>4, <1>5, <1>6, <1>7, <1>8, <1>9, <1>10, <1>11

\* What is left of a shaped script.
LEMMA ShapedRest ==
  ASSUME NEW s \in Seq(Effect), s # <<>>, Shaped(s)
  PROVE  /\ Shaped(Tail(s))
         /\ Head(s) = Hold => Parted(Tail(s))
         /\ Fetch \in Range(Tail(s)) => Head(s) = Fallible
<1> DEFINE r == Tail(s)
<1>1. /\ Len(s) \in Nat /\ Len(s) >= 1 /\ r \in Seq(Effect) /\ Len(r) = Len(s) - 1
      /\ \A i \in 1 .. Len(r) : r[i] = s[i + 1]
      /\ Head(s) = s[1]
  BY HeadTailProperties
<1>2. \A e \in Range(r) : \E i \in 1..Len(r) : e = r[i]
  BY <1>1, Elements
<1>3. \A i \in 1..Len(s) :
        /\ s[i] = Hold => Len(s) = i + 2 /\ s[i + 1] = Engaged /\ s[i + 2] = Look
        /\ s[i] = Fetch => \A j \in 1..(i - 1) : s[j] = Fallible
  BY DEF Shaped
<1> HIDE DEF r
<1>4. \A i \in 1..Len(r) : i + 1 \in 1..Len(s)
  BY <1>1
<1>5. ASSUME NEW i \in 1..Len(r)
      PROVE  /\ r[i] = Hold => Len(r) = i + 2 /\ r[i + 1] = Engaged /\ r[i + 2] = Look
             /\ r[i] = Fetch => \A j \in 1..(i - 1) : r[j] = Fallible
  <2>1. ASSUME r[i] = Hold PROVE Len(r) = i + 2 /\ r[i + 1] = Engaged /\ r[i + 2] = Look
    <3>1. /\ Len(s) = (i + 1) + 2 /\ s[(i + 1) + 1] = Engaged /\ s[(i + 1) + 2] = Look
      BY <1>1, <1>3, <1>4, <2>1
    <3>2. Len(r) = i + 2 /\ i + 1 \in 1..Len(r) /\ i + 2 \in 1..Len(r)
          /\ (i + 2) + 1 = (i + 1) + 2
      BY <1>1, <3>1
    <3> QED
      BY <1>1, <3>1, <3>2
  <2>2. \A j \in 1..(i - 1) : j \in 1..Len(r) /\ j + 1 \in 1..((i + 1) - 1)
    BY <1>1
  <2>3. r[i] = s[i + 1] /\ i + 1 \in 1..Len(s)
    BY <1>1, <1>4
  <2>4. r[i] = Fetch => \A j \in 1..(i - 1) : r[j] = Fallible
    BY <1>1, <1>3, <2>2, <2>3
  <2> QED
    BY <2>1, <2>4
<1>6. ASSUME Head(s) = Hold PROVE Parted(r)
  <2>1. 1 \in 1..Len(s)
    BY <1>1
  <2>2. Len(s) = 1 + 2 /\ s[1 + 1] = Engaged /\ s[1 + 2] = Look
    BY <1>1, <1>3, <1>6, <2>1
  <2>3. Len(r) = 2 /\ 1 \in 1..Len(r) /\ 2 \in 1..Len(r) /\ 2 + 1 = 1 + 2
    BY <1>1, <2>2
  <2> QED
    BY <1>1, <2>2, <2>3 DEF Parted
<1>7. ASSUME Fetch \in Range(r) PROVE Head(s) = Fallible
  <2>1. PICK i \in 1..Len(r) : Fetch = r[i]
    BY <1>2, <1>7
  <2>2. 1 \in 1..((i + 1) - 1)
    BY <1>1
  <2> QED
    BY <1>1, <1>3, <1>4, <2>1, <2>2
<1> QED
  BY <1>5, <1>6, <1>7 DEF Shaped, r

\* How a task changes where no plan is made: by the write of one field.
LEMMA TaskMoves ==
  ASSUME TypeInv, NEW t \in Threads, Drive(t), ~StorePlan(t), NEW k \in 1..Jobs,
         NEW h, h = Head(todo[t])
  PROVE  /\ Planned => Planned'
         /\ \/ state'.tasks[k] = state.tasks[k]
            \/ /\ h \in StatusPuts /\ h.task = k /\ h.plan = state.plan /\ WriteTask(t)
               /\ state'.tasks[k].status = h.value
               /\ state'.tasks[k].result = state.tasks[k].result
            \/ /\ h \in ResultPuts /\ h.task = k /\ h.plan = state.plan /\ WriteTask(t)
               /\ state'.tasks[k].status = state.tasks[k].status
<1>1. CASE ~WriteTask(t) \/ state' = state
  <2>1. state'.tasks = state.tasks
    BY <1>1, StateMoves
  <2> QED
    BY <2>1 DEF Planned
<1>2. CASE WriteTask(t) /\ state' # state
  <2>1. h.plan = state.plan
    BY <1>2 DEF WriteTask
  <2>2. \/ /\ Planned /\ h.task \in 1..Jobs /\ h \in StatusPuts /\ h.value \in TaskStatus
           /\ state' = [state EXCEPT !.tasks =
                [state.tasks EXCEPT ![h.task] =
                  [state.tasks[h.task] EXCEPT !.status = h.value]]]
        \/ /\ Planned /\ h.task \in 1..Jobs /\ h \in ResultPuts /\ h.value \in ToolOutcomes
           /\ state' = [state EXCEPT !.tasks =
                [state.tasks EXCEPT ![h.task] =
                  [state.tasks[h.task] EXCEPT !.result = h.value]]]
    BY <1>2, TaskWritten
  <2>3. StateOK
    BY DEF TypeInv, TypeOK, StateOK
  <2>4. state.tasks[h.task] \in TaskRecord /\ state.tasks[k] \in TaskRecord
    BY <2>2 DEF Planned
  <2>5. CASE /\ h \in StatusPuts /\ h.value \in TaskStatus
             /\ state' = [state EXCEPT !.tasks =
                  [state.tasks EXCEPT ![h.task] =
                    [state.tasks[h.task] EXCEPT !.status = h.value]]]
    <3>1. state'.tasks = [state.tasks EXCEPT ![h.task] =
                            [state.tasks[h.task] EXCEPT !.status = h.value]]
      BY <2>3, <2>5 DEF StateOK
    <3>2. /\ [state.tasks[h.task] EXCEPT !.status = h.value] \in TaskRecord
          /\ [state.tasks[h.task] EXCEPT !.status = h.value].status = h.value
          /\ [state.tasks[h.task] EXCEPT !.status = h.value].result = state.tasks[h.task].result
      BY <2>4, <2>5 DEF TaskRecord, TaskStatus
    <3>3. Planned'
      BY <2>2, <3>1, <3>2 DEF Planned
    <3>4. CASE k # h.task
      <4>1. state'.tasks[k] = state.tasks[k]
        BY <2>2, <3>1, <3>4 DEF Planned
      <4> QED
        BY <3>3, <4>1
    <3>5. CASE k = h.task
      <4>1. state'.tasks[k] = [state.tasks[h.task] EXCEPT !.status = h.value]
        BY <2>2, <3>1, <3>5 DEF Planned
      <4> QED
        BY <1>2, <2>1, <2>5, <3>2, <3>3, <3>5, <4>1
    <3> QED
      BY <3>4, <3>5
  <2>6. CASE /\ h \in ResultPuts /\ h.value \in ToolOutcomes
             /\ state' = [state EXCEPT !.tasks =
                  [state.tasks EXCEPT ![h.task] =
                    [state.tasks[h.task] EXCEPT !.result = h.value]]]
    <3>1. state'.tasks = [state.tasks EXCEPT ![h.task] =
                            [state.tasks[h.task] EXCEPT !.result = h.value]]
      BY <2>3, <2>6 DEF StateOK
    <3>2. /\ [state.tasks[h.task] EXCEPT !.result = h.value] \in TaskRecord
          /\ [state.tasks[h.task] EXCEPT !.result = h.value].status = state.tasks[h.task].status
      BY <2>4, <2>6 DEF TaskRecord
    <3>3. Planned'
      BY <2>2, <3>1, <3>2 DEF Planned
    <3>4. CASE k # h.task
      <4>1. state'.tasks[k] = state.tasks[k]
        BY <2>2, <3>1, <3>4 DEF Planned
      <4> QED
        BY <3>3, <4>1
    <3>5. CASE k = h.task
      <4>1. state'.tasks[k] = [state.tasks[h.task] EXCEPT !.result = h.value]
        BY <2>2, <3>1, <3>5 DEF Planned
      <4> QED
        BY <1>2, <2>1, <2>6, <3>2, <3>3, <3>5, <4>1
    <3> QED
      BY <3>4, <3>5
  <2> QED
    BY <2>2, <2>5, <2>6
<1> QED
  BY <1>1, <1>2

\* A new plan is one of which nothing is done.
LEMMA PlanStored ==
  ASSUME TypeInv, NEW t \in Threads, StorePlan(t)
  PROVE  /\ Planned'
         /\ \A k \in 1..Jobs :
              state'.tasks[k].status = "pending" /\ state'.tasks[k].result = "none"
<1>1. state'.tasks = [k \in 1..Jobs |-> [status |-> "pending", result |-> "none"]]
  BY DEF StorePlan, TypeInv, TypeOK
<1> QED
  BY <1>1 DEF Planned, TaskRecord

\* Before the plan is made nothing is done.
LEMMA NothingDone ==
  ASSUME OrderInv, NEW t \in Threads, Timely(todo[t]), Fetch \in Range(todo[t]), Planned
  PROVE  /\ \A k \in 1..Jobs : StatusOf(k) # "completed"
         /\ ~Completed
<1>1. \A k \in 1..Jobs : StatusOf(k) # "completed"
  BY DEF OrderInv, Timely, Bare, StatusOf
<1>2. 1 \in 1..Jobs
  BY ServiceAssumption
<1> QED
  BY <1>1, <1>2 DEF Completed, Planned

\* Once all is done it stays so.
LEMMA CompletedStays ==
  ASSUME TypeInv, OrderInv, NEW t \in Threads, Drive(t), Apt(todo[t]), Timely(todo[t]),
         Planned, Completed
  PROVE  Planned' /\ Completed'
<1>1. ~StorePlan(t)
  BY PlanFaced, NothingDone
<1>2. Planned'
  <2>1. 1 \in 1..Jobs
    BY ServiceAssumption
  <2> QED
    BY <1>1, <2>1, TaskMoves
<1>3. PICK h : h = Head(todo[t])
  OBVIOUS
<1>4. ASSUME NEW k \in 1..Jobs PROVE state'.tasks[k].status = "completed"
  <2>1. state.tasks[k].status = "completed"
    BY DEF Completed, Planned, StatusOf
  <2>2. CASE h \in StatusPuts /\ h.task = k /\ h.plan = state.plan /\ WriteTask(t)
             /\ state'.tasks[k].status = h.value
    <3>1. h \in Range(todo[t])
      BY <1>3, <2>2, Facing DEF WriteTask
    <3>2. h.value = "completed"
      BY <2>1, <2>2, <3>1 DEF Apt, StatusOf
    <3> QED
      BY <2>2, <3>2
  <2> QED
    BY <1>1, <1>3, <2>1, <2>2, TaskMoves
<1> QED
  BY <1>2, <1>4 DEF Completed, Planned, StatusOf

LEMMA Fetched ==
  ASSUME NEW t \in Threads, Drive(t), todo[t] # <<>>, Head(todo[t]) = Fetch
  PROVE  StorePlan(t)
<1>1. Head(todo[t]).do = "plan"
  BY DEF Fetch
<1>2. /\ ~Loop(t) /\ \A kind : Faces(t, kind) => kind = "plan"
  BY <1>1 DEF Loop, Faces
<1>3. \/ Resume(t) \/ Dispatch(t) \/ Pause(t) \/ LeaveLoop(t) \/ StoreResult(t) \/ Write(t)
      \/ WriteTask(t) \/ Emit(t) \/ Save(t) \/ TryCall(t) \/ Continue(t)
      => \E kind : kind # "plan" /\ Faces(t, kind)
  BY DEF Resume, Dispatch, Pause, LeaveLoop, StoreResult, Write, WriteTask, Emit, Save,
         TryCall, Continue
<1> QED
  BY <1>2, <1>3 DEF Drive

LEMMA PlannedStays ==
  ASSUME TypeInv, NEW t \in Threads, Drive(t), Planned
  PROVE  Planned'
<1>1. CASE StorePlan(t)
  BY <1>1, PlanStored
<1>2. CASE ~StorePlan(t)
  <2>1. 1 \in 1..Jobs
    BY ServiceAssumption
  <2> QED
    BY <1>2, <2>1, TaskMoves
<1> QED
  BY <1>1, <1>2

\* What is left after a step is still apt.
LEMMA AptRest ==
  ASSUME TypeInv, OrderInv, NEW t \in Threads, Drive(t), Shaped(todo[t]), Apt(todo[t]),
         Timely(todo[t]), NEW r, todo[t] # <<>>, r = Tail(todo[t])
  PROVE  Apt(r)'
<1> DEFINE s == todo[t]
           h == Head(todo[t])
<1>1. /\ s \in Seq(Effect) /\ s # <<>> /\ h = Head(s) /\ r = Tail(s)
      /\ Range(s) = {h} \cup Range(r) /\ h \in Effect
  BY Shorter DEF TypeInv
<1>2. /\ \A p, q \in Range(s) \cap Touches : p = q
      /\ Given \in Range(s) => Range(s) \cap Choices = {}
  BY DEF Apt
<1>3. ASSUME NEW e \in Range(s)
      PROVE  /\ e \in NodeSets /\ e.value \in {"SELECT_NEXT", "VERIFY"} =>
                  Planned \/ Fetch \in Range(s)
             /\ e = Then("JUDGE") => Planned
             /\ e = Success => Planned /\ Completed
             /\ e \in ResultPuts \cup Choices \cup {Fetch} => state.node # "DECIDE"
             /\ e = Given => ResultOf(state.current) = "fatal"
             /\ e \in StatusPuts /\ e.plan = state.plan =>
                  IF e.value = "completed" THEN ResultOf(e.task) = "ok"
                                           ELSE StatusOf(e.task) # "completed"
             /\ e \in ResultPuts /\ e.plan = state.plan => StatusOf(e.task) # "completed"
  BY <1>3 DEF Apt
<1>4. Planned => Planned'
  BY PlannedStays
<1>5. StorePlan(t) => h = Fetch /\ Planned'
  BY PlanFaced, PlanStored
<1>6. h = Fetch => StorePlan(t)
  BY <1>1, Fetched
<1>7. \/ state'.node = state.node
      \/ h \in NodeSets /\ state'.node = h.value
      \/ state.node = "START" /\ state'.node = "UNDERSTAND"
  BY NodeMoves
<1>8. state'.plan = state.plan \/ StorePlan(t)
  BY NodeMoves
<1>9. h \in NodeSets /\ h.value = "DECIDE" => h = Given
  BY DEF NodeSets, Given, Set
<1>10. /\ Given \notin StatusPuts \cup ResultPuts \cup Choices \cup {Fetch}
       /\ Fetch \notin StatusPuts \cup ResultPuts \cup Choices
       /\ StatusPuts \cap ResultPuts = {}
       /\ Given \in ToWork
  BY DEF Given, Fetch, Set, StatusPuts, ResultPuts, Choices, ToWork, Working
<1>11. Planned /\ Completed => Planned' /\ Completed'
  BY CompletedStays
<1>12. /\ state'.current = state.current \/ h \in Choices
  BY StateMoves
<1>13. Given \in Range(s) => Planned /\ (state.current # 0 \/ h \in Choices)
  BY <1>10 DEF TypeInv, Ripe
<1>14. ASSUME ~StorePlan(t), NEW k \in 1..Jobs
       PROVE  \/ state'.tasks[k] = state.tasks[k]
              \/ /\ h \in StatusPuts /\ h.task = k
                 /\ state'.tasks[k].status = h.value
                 /\ state'.tasks[k].result = state.tasks[k].result
              \/ h \in ResultPuts /\ h.task = k /\ state'.tasks[k].status = state.tasks[k].status
  BY <1>14, TaskMoves
<1>15. state.current \in 0..Jobs
  BY DEF TypeInv, TypeOK
<1> HIDE DEF s, h
<1>16. ASSUME NEW e \in Range(r)
       PROVE  /\ e \in NodeSets /\ e.value \in {"SELECT_NEXT", "VERIFY"} =>
                   Planned' \/ Fetch \in Range(r)
              /\ e = Then("JUDGE") => Planned'
              /\ e = Success => Planned' /\ Completed'
  BY <1>1, <1>3, <1>4, <1>5, <1>6, <1>11
<1>17. ASSUME NEW e \in Range(r), e \in ResultPuts \cup Choices \cup {Fetch}
       PROVE  state'.node # "DECIDE"
  <2>1. state.node # "DECIDE"
    BY <1>1, <1>3, <1>17
  <2>2. h # Given
    <3> SUFFICES ASSUME h = Given PROVE FALSE
      OBVIOUS
    <3>1. Given \in Range(s) \cap Touches /\ e \in Range(s)
      BY <1>1 DEF Touches
    <3>2. e \notin Choices
      BY <1>2, <3>1
    <3>3. e \in Touches
      BY <1>17, <3>2 DEF Touches
    <3>4. e = Given
      BY <1>2, <3>1, <3>3
    <3> QED
      BY <1>10, <1>17, <3>4
  <2> QED
    BY <1>7, <1>9, <2>1, <2>2
<1>18. ASSUME Given \in Range(r) PROVE state'.tasks[state'.current].result = "fatal"
  <2>1. /\ h \notin Choices /\ h \notin StatusPuts \cup ResultPuts \cup {Fetch}
        /\ Planned /\ state.current # 0 /\ state.tasks[state.current].result = "fatal"
    <3>1. Given \in Range(s) /\ h \in Range(s)
      BY <1>1, <1>18
    <3>2. h \notin Choices
      BY <1>2, <3>1
    <3>3. h \notin StatusPuts \cup ResultPuts \cup {Fetch}
      BY <1>2, <1>10, <3>1 DEF Touches
    <3> QED
      BY <1>3, <1>13, <3>1, <3>2, <3>3 DEF ResultOf
  <2>2. ~StorePlan(t) /\ state'.current = state.current /\ state.current \in 1..Jobs
    BY <1>5, <1>12, <1>15, <2>1, ServiceAssumption
  <2>3. state'.tasks[state.current] = state.tasks[state.current]
    BY <1>14, <2>1, <2>2
  <2> QED
    BY <2>1, <2>2, <2>3
<1>19. ASSUME NEW e \in Range(r), e \in StatusPuts \cup ResultPuts, e.plan = state'.plan
       PROVE  /\ ~StorePlan(t) /\ e.plan = state.plan /\ e.task \in 1..Jobs
              /\ h \in StatusPuts \cup ResultPuts => h = e
  <2>1. ~StorePlan(t)
    <3> SUFFICES ASSUME StorePlan(t) PROVE FALSE
      OBVIOUS
    <3>1. Fetch \in Range(s) \cap Touches
      BY <1>1, <1>5 DEF Touches
    <3>2. e \in Range(s) \cap Touches
      BY <1>1, <1>19 DEF Touches
    <3>3. e = Fetch
      BY <1>2, <3>1, <3>2
    <3> QED
      BY <1>10, <1>19, <3>3
  <2>2. h \in StatusPuts \cup ResultPuts => h = e
    BY <1>1, <1>2, <1>19 DEF Touches
  <2>3. e.task \in 1..Jobs
    BY <1>19 DEF StatusPuts, ResultPuts
  <2> QED
    BY <1>8, <1>19, <2>1, <2>2, <2>3
<1>20. ASSUME NEW e \in Range(r), e \in StatusPuts, e.plan = state'.plan
       PROVE  IF e.value = "completed" THEN state'.tasks[e.task].result = "ok"
                                       ELSE state'.tasks[e.task].status # "completed"
  <2>1. /\ ~StorePlan(t) /\ e.plan = state.plan /\ e.task \in 1..Jobs
        /\ h \in StatusPuts \cup ResultPuts => h = e
    BY <1>19, <1>20
  <2>2. IF e.value = "completed" THEN state.tasks[e.task].result = "ok"
                                 ELSE state.tasks[e.task].status # "completed"
    BY <1>1, <1>3, <1>20, <2>1 DEF ResultOf, StatusOf
  <2>3. \/ state'.tasks[e.task] = state.tasks[e.task]
        \/ /\ state'.tasks[e.task].status = e.value
           /\ state'.tasks[e.task].result = state.tasks[e.task].result
    BY <1>10, <1>14, <1>20, <2>1
  <2> QED
    BY <2>2, <2>3
<1>21. ASSUME NEW e \in Range(r), e \in ResultPuts, e.plan = state'.plan
       PROVE  state'.tasks[e.task].status # "completed"
  <2>1. /\ ~StorePlan(t) /\ e.plan = state.plan /\ e.task \in 1..Jobs
        /\ h \in StatusPuts \cup ResultPuts => h = e
    BY <1>19, <1>21
  <2>2. state.tasks[e.task].status # "completed"
    BY <1>1, <1>3, <1>21, <2>1 DEF StatusOf
  <2>3. \/ state'.tasks[e.task] = state.tasks[e.task]
        \/ state'.tasks[e.task].status = state.tasks[e.task].status
    BY <1>10, <1>14, <1>21, <2>1
  <2> QED
    BY <2>2, <2>3
<1>22. /\ \A p, q \in Range(r) \cap Touches : p = q
       /\ Given \in Range(r) => Range(r) \cap Choices = {}
  BY <1>1, <1>2
<1>23. ASSUME NEW e \in Range(r)
       PROVE  /\ e \in NodeSets /\ e.value \in {"SELECT_NEXT", "VERIFY"} =>
                   Planned' \/ Fetch \in Range(r)
              /\ e = Then("JUDGE") => Planned'
              /\ e = Success => Planned' /\ Completed'
              /\ e \in ResultPuts \cup Choices \cup {Fetch} => state'.node # "DECIDE"
              /\ e = Given => state'.tasks[state'.current].result = "fatal"
              /\ e \in StatusPuts /\ e.plan = state'.plan =>
                   IF e.value = "completed" THEN state'.tasks[e.task].result = "ok"
                                            ELSE state'.tasks[e.task].status # "completed"
              /\ e \in ResultPuts /\ e.plan = state'.plan =>
                   state'.tasks[e.task].status # "completed"
  BY <1>16, <1>17, <1>18, <1>20, <1>21, Zenon
<1> QED
  BY <1>22, <1>23, Zenon DEF Apt, ResultOf, StatusOf

\* What a thread has left to do is shaped and apt after each of its steps.
LEMMA TodoPromise ==
  ASSUME TypeInv, SerialInv, OrderInv, OnceInv, PromiseInv, NEW t \in Threads, Drive(t)
  PROVE  \A u \in Threads : (Shaped(todo[u]) /\ Apt(todo[u]))'
<1>1. /\ TypeInv' /\ thread[t] = "driving" /\ Orderly(todo[t]) /\ Timely(todo[t])
      /\ Shaped(todo[t]) /\ Apt(todo[t])
      /\ todo[t] \in Seq(Effect) /\ todo'[t] \in Seq(Effect)
  BY DriveTyped, Taken DEF OnceInv, PromiseInv, TypeInv
<1>2. \A u \in Threads \ {t} : todo'[u] = <<>>
  BY <1>1, Alone, ThreadMoves DEF SerialInv
<1>3. PICK r \in Seq(Effect) : r = todo'[t]
  BY <1>1
<1>4. Shaped(r) /\ Apt(r)'
  <2>1. CASE WentOn(t)
    <3>1. todo[t] # <<>> /\ r = Tail(todo[t])
      BY <1>3, <2>1 DEF WentOn
    <3>2. Shaped(r)
      BY <1>1, <3>1, ShapedRest
    <3> QED
      BY <1>1, <3>1, <3>2, AptRest
  <2>2. CASE Chose(t)
    <3>1. PICK what \in Handlers \cup {"FAILURE"} :
            /\ r \in Ways(what)
            /\ what \in Nodes => Faces(t, "dispatch") /\ what = state.node
            /\ what = "JUDGE" => Then("JUDGE") \in Range(todo[t])
      BY <1>3, <2>2 DEF Chose
    <3>2. UNCHANGED <<state, granted, history>>
      BY <2>2 DEF Chose
    <3>3. Shaped(r) /\ Apt(r)
      <4>1. CASE what = "FAILURE"
        BY <3>1, <4>1, FailureApt DEF Ways
      <4>2. CASE what # "FAILURE"
        <5>1. /\ what \in Handlers /\ r \in Scripts(what) /\ StateOK
              /\ Earned /\ Deciding /\ Footing
          BY <3>1, <4>2 DEF Ways, TypeInv, TypeOK, StateOK, PromiseInv
        <5>2. what \in Working => Planned /\ state.current # 0
          BY <3>1 DEF Working, Nodes, TypeInv, Ready
        <5>3. what = "JUDGE" => Planned
          BY <1>1, <3>1 DEF Apt
        <5>4. ASSUME what = "EXECUTE" PROVE ~Started(state.current)
          <6>1. Faces(t, "dispatch") /\ state.node = "EXECUTE"
            BY <3>1, <5>4 DEF Nodes
          <6>2. todo[t] # <<>> /\ Head(todo[t]).do = "dispatch"
            BY <6>1 DEF Faces
          <6>3. Head(todo[t]) # Observed /\ Head(todo[t]).do \notin {"emit", "save", "put"}
            BY <6>2 DEF Observed, Set
          <6>4. Observed \notin Range(todo[t])
            BY <1>1, <6>2, <6>3, Begins
          <6>5. \A u \in Threads : Observed \notin Range(todo[u])
            BY <1>1, <6>4, Alone DEF Range, SerialInv
          <6> QED
            BY <6>1, <6>5 DEF OnceInv, AtWork
        <5> QED
          BY <3>1, <5>1, <5>2, <5>3, <5>4, ScriptApt
      <4> QED
        BY <4>1, <4>2
    <3> QED
      BY <3>2, <3>3 DEF Apt, Planned, Completed, StatusOf, ResultOf
  <2>3. CASE TookUp(t)
    <3>1. PICK e \in Turns : Range(r) = {e}
      BY <1>3, <2>3 DEF TookUp
    <3>2. Aloof(e) /\ e # Hold /\ e # Fetch
      BY DEF Turns, Results, Leave, Aloof, Touches, Choices, Success, Then, NodeSets, Given,
             Fetch, Hold, StatusPuts, ResultPuts, Set
    <3>3. Shaped(r)
      BY <3>1, <3>2, PlainShaped
    <3>4. Apt(r)'
      BY <3>1, <3>2 DEF Apt, Aloof, Touches
    <3> QED
      BY <3>3, <3>4
  <2> QED
    BY <2>1, <2>2, <2>3, ThreadMoves
<1>5. ASSUME NEW u \in Threads PROVE (Shaped(todo[u]) /\ Apt(todo[u]))'
  <2>1. CASE u = t
    BY <1>3, <1>4, <2>1 DEF Shaped, Apt
  <2>2. CASE u # t
    <3>1. todo'[u] = <<>>
      BY <1>2, <2>2
    <3>2. Range(<<>>) = {} /\ Len(<<>>) = 0
      BY DEF Range
    <3>3. 1..0 = {}
      OBVIOUS
    <3> QED
      BY <3>1, <3>2, <3>3 DEF Shaped, Apt
  <2> QED
    BY <2>1, <2>2
<1> QED
  BY <1>5

\* How the status of the run changes.
LEMMA RunMoves ==
  ASSUME TypeInv, NEW t \in Threads, Drive(t), NEW h, h = Head(todo[t])
  PROVE  \/ state'.status = state.status
         \/ Write(t) /\ h \in StatusSets /\ h \in Range(todo[t]) /\ state'.status = h.value
         \/ Resume(t) /\ Waits /\ state'.status = "running"
         \/ LeaveLoop(t) /\ state.status = "running" /\ state'.status = "failed"
<1>1. ASSUME Write(t)
      PROVE  \/ state'.status = state.status
             \/ h \in StatusSets /\ h \in Range(todo[t]) /\ state'.status = h.value
  <2>1. h \in Range(todo[t])
    BY <1>1, Facing DEF Write
  <2> QED
    BY <1>1, <2>1, Written, ZenonT(60) DEF TypeInv, TypeOK
<1>2. ASSUME WriteTask(t) \/ StorePlan(t)
      PROVE  state'.status = state.status
  BY <1>2 DEF WriteTask, StorePlan, TypeInv, TypeOK
<1>3. ASSUME Resume(t)
      PROVE  state'.status = state.status \/ (Waits /\ state'.status = "running")
  BY <1>3 DEF Resume, TypeInv, TypeOK, Waits
<1>4. ASSUME LeaveLoop(t)
      PROVE  \/ state'.status = state.status
             \/ state.status = "running" /\ state'.status = "failed"
  BY <1>4 DEF LeaveLoop, TypeInv, TypeOK
<1>5. ASSUME \/ Loop(t) \/ Dispatch(t) \/ Pause(t) \/ StoreResult(t) \/ Emit(t) \/ Save(t)
             \/ TryCall(t) \/ Continue(t)
      PROVE  state' = state
  BY <1>5 DEF Loop, Dispatch, Pause, StoreResult, Emit, Save, TryCall, Continue, agent
<1> QED
  BY <1>1, <1>2, <1>3, <1>4, <1>5 DEF Drive

\* While the run waits, its driver leaves it as it is, or resumes it.
LEMMA PartedStep ==
  ASSUME TypeInv, NEW t \in Threads, Drive(t), Waits, Parted(todo[t]), NEW r, r = todo'[t]
  PROVE  /\ state'.tasks = state.tasks /\ history' = history
         /\ state'.status \in {state.status, "running"}
         /\ Waits' /\ thread'[t] = "driving" => Parted(r)
<1> DEFINE s == todo[t]
           h == Head(todo[t])
<1>1. s \in Seq(Effect) /\ s # <<>> /\ todo \in [Threads -> Seq(Effect)]
      /\ state \in [node : Nodes, status : RunStatus, current : 0..Jobs,
                    plan : Nat, tasks : {<<>>} \cup [1..Jobs -> TaskRecord]]
      /\ thread \in [Threads -> {"none", "driving", "returned"}]
  <2>1. s \in Seq(Effect) /\ todo \in [Threads -> Seq(Effect)] /\ Len(<<>>) = 0
    BY DEF TypeInv
  <2> QED
    BY <2>1 DEF Parted, TypeInv, TypeOK
<1>2. h = s[1] /\ Len(Tail(s)) = Len(s) - 1
      /\ \A i \in 1..Len(Tail(s)) : Tail(s)[i] = s[i + 1]
  BY <1>1, HeadTailProperties
<1>3. CASE Len(s) = 2 /\ s[1] = Engaged /\ s[2] = Look
  <2>1. h = Engaged /\ h.do = "set" /\ h.field = "node" /\ h.value = "EXECUTE"
    BY <1>2, <1>3 DEF Engaged, Set
  <2>2. Write(t)
    BY <1>1, <2>1, Taken
  <2>3. state' = [state EXCEPT !.node = "EXECUTE"] /\ history' = history /\ r = Tail(s)
    <3>1. state' = [state EXCEPT ![h.field] = h.value] /\ history' = history /\ r = Tail(s)
      BY <1>1, <2>2 DEF Write, Rest
    <3> QED
      BY <2>1, <3>1
  <2>4. Len(r) = 1 /\ r[1] = Look
    <3>1. Len(Tail(s)) = 1 /\ 1 \in 1..1 /\ 1 + 1 = 2
      BY <1>2, <1>3
    <3> QED
      BY <1>2, <1>3, <2>3, <3>1
  <2> QED
    BY <1>1, <2>3, <2>4 DEF Parted
<1>4. CASE s[1] = Look
  <2>1. Pause(t)
    BY <1>1, <1>2, <1>4, Taken DEF Look
  <2>2. state' = state /\ history' = history /\ r = <<Leave>>
    BY <1>1, <2>1 DEF Pause, Replace, agent, Waits
  <2>3. Len(r) = 1 /\ r[1] = Leave
    BY <2>2
  <2> QED
    BY <2>2, <2>3 DEF Parted
<1>5. CASE s[1] = Leave
  <2>1. LeaveLoop(t)
    BY <1>1, <1>2, <1>5, Taken DEF Leave
  <2>2. state' = state /\ history' = history
    BY <1>1, <2>1 DEF LeaveLoop, Waits
  <2>3. r = <<[do |-> "result", status |-> state'.status]>>
    BY <1>1, <2>1 DEF LeaveLoop, Replace
  <2>4. [do |-> "result", status |-> state'.status] \in Results
    BY <1>1, <2>2 DEF Results
  <2>5. Len(r) = 1 /\ r[1] = [do |-> "result", status |-> state'.status]
    BY <2>3
  <2> QED
    BY <2>2, <2>4, <2>5 DEF Parted
<1>6. CASE s[1] \in Results
  <2>1. StoreResult(t)
    BY <1>1, <1>2, <1>6, Taken DEF Results
  <2> QED
    BY <1>1, <2>1 DEF StoreResult, agent
<1>7. CASE s[1] \in Resumes
  <2>1. h.do = "resume"
    BY <1>2, <1>7 DEF Resumes
  <2>2. /\ ~Loop(t) /\ \A kind : Faces(t, kind) => kind = "resume"
    BY <1>1, <2>1 DEF Loop, Faces
  <2>3. \/ StorePlan(t) \/ Dispatch(t) \/ Pause(t) \/ LeaveLoop(t) \/ StoreResult(t) \/ Write(t)
        \/ WriteTask(t) \/ Emit(t) \/ Save(t) \/ TryCall(t) \/ Continue(t)
        => \E kind : kind # "resume" /\ Faces(t, kind)
    BY DEF StorePlan, Dispatch, Pause, LeaveLoop, StoreResult, Write, WriteTask, Emit, Save,
           TryCall, Continue
  <2>4. Resume(t)
    BY <2>2, <2>3 DEF Drive
  <2> QED
    BY <1>1, <2>4 DEF Resume, Waits
<1> QED
  BY <1>3, <1>4, <1>5, <1>6, <1>7 DEF Parted

LEMMA DrivePromise ==
  ASSUME TypeInv, SerialInv, OrderInv, OnceInv, PromiseInv, NEW t \in Threads, Drive(t)
  PROVE  PromiseInv'
<1>1. /\ thread[t] = "driving" /\ Timely(todo[t]) /\ Shaped(todo[t]) /\ Apt(todo[t])
      /\ todo[t] \in Seq(Effect)
      /\ Earned /\ Deciding /\ Footing /\ Complete /\ Idles
  BY Taken DEF OnceInv, PromiseInv, TypeInv
<1>2. PICK h : h = Head(todo[t])
  OBVIOUS
<1>3. /\ todo \in [Threads -> Seq(Effect)]
      /\ state \in [node : Nodes, status : RunStatus, current : 0..Jobs,
                    plan : Nat, tasks : {<<>>} \cup [1..Jobs -> TaskRecord]]
      /\ thread \in [Threads -> {"none", "driving", "returned"}]
  BY DEF TypeInv, TypeOK
<1>4. Planned => Planned'
  BY PlannedStays
<1>5. Planned /\ Completed => Planned' /\ Completed'
  BY <1>1, CompletedStays
<1>6. StorePlan(t) =>
        /\ h = Fetch /\ Fetch \in Range(todo[t])
        /\ \A k \in 1..Jobs : state'.tasks[k].status = "pending"
  BY <1>2, PlanFaced, PlanStored
<1>7. WriteTask(t) => h \in Range(todo[t])
  BY <1>2, Facing DEF WriteTask
<1>8. Earned'
  <2> SUFFICES ASSUME Planned', NEW k \in 1..Jobs, state'.tasks[k].status = "completed"
               PROVE  state'.tasks[k].result = "ok"
    BY DEF Earned, StatusOf, ResultOf
  <2>1. ~StorePlan(t)
    BY <1>6
  <2>2. Planned
    <3>1. CASE WriteTask(t)
      <4>1. state' = state \/ Planned
        BY <3>1, TaskWritten
      <4> QED
        BY <4>1 DEF Planned
    <3>2. CASE ~WriteTask(t)
      <4>1. state'.tasks = state.tasks
        BY <2>1, <3>2, StateMoves
      <4> QED
        BY <4>1 DEF Planned
    <3> QED
      BY <3>1, <3>2
  <2>3. state.tasks[k].status = "completed" => state.tasks[k].result = "ok"
    BY <1>1, <2>2 DEF Earned, StatusOf, ResultOf
  <2>4. CASE state'.tasks[k] = state.tasks[k]
    BY <2>3, <2>4
  <2>5. CASE /\ h \in StatusPuts /\ h.task = k /\ h.plan = state.plan /\ WriteTask(t)
             /\ state'.tasks[k].status = h.value
             /\ state'.tasks[k].result = state.tasks[k].result
    BY <1>1, <1>7, <2>5 DEF Apt, ResultOf
  <2>6. CASE /\ h \in ResultPuts /\ h.task = k /\ h.plan = state.plan /\ WriteTask(t)
             /\ state'.tasks[k].status = state.tasks[k].status
    BY <1>1, <1>7, <2>6 DEF Apt, StatusOf
  <2> QED
    BY <1>2, <2>1, <2>4, <2>5, <2>6, TaskMoves
<1>9. /\ \/ state'.node = state.node
         \/ todo[t] # <<>> /\ h \in NodeSets /\ h \in Range(todo[t]) /\ state'.node = h.value
         \/ state.node = "START" /\ state'.node = "UNDERSTAND"
  BY <1>2, NodeMoves
<1>10. Deciding'
  <2> SUFFICES ASSUME state'.node = "DECIDE"
               PROVE  state'.tasks[state'.current].result = "fatal"
    BY DEF Deciding, ResultOf
  <2>1. CASE state.node = "DECIDE"
    <3>1. state.tasks[state.current].result = "fatal" /\ state.current \in 1..Jobs
      BY <1>1, <1>3, <2>1, ServiceAssumption DEF Deciding, ResultOf, TypeInv, Ready, Working
    <3>2. \A e \in Range(todo[t]) : e \notin ResultPuts \cup Choices \cup {Fetch}
      BY <1>1, <2>1 DEF Apt
    <3>3. state'.current = state.current
      BY <3>2, StateMoves
    <3>4. ~StorePlan(t)
      BY <1>6, <3>2
    <3>5. state'.tasks[state.current].result = state.tasks[state.current].result
      BY <1>2, <1>7, <3>1, <3>2, <3>4, TaskMoves
    <3> QED
      BY <3>1, <3>3, <3>5
  <2>2. CASE state.node # "DECIDE"
    <3>1. todo[t] # <<>> /\ h \in NodeSets /\ h \in Range(todo[t]) /\ h.value = "DECIDE"
      BY <1>9, <2>2
    <3>2. h = Given
      BY <3>1 DEF NodeSets, Given, Set
    <3>3. state.tasks[state.current].result = "fatal"
      BY <1>1, <3>1, <3>2 DEF Apt, ResultOf
    <3>4. h.do = "set" /\ h \notin StatusSets \cup Choices
      BY <3>2 DEF Given, Set, StatusSets, Choices
    <3>5. Write(t)
      BY <1>2, <3>1, <3>4, Taken
    <3>6. state' = [state EXCEPT !.node = h.value]
      BY <1>2, <3>4, <3>5, Written
    <3>7. state'.current = state.current /\ state'.tasks = state.tasks
      BY <1>3, <3>6
    <3> QED
      BY <3>3, <3>7
  <2> QED
    BY <2>1, <2>2
<1>11. Footing'
  <2> SUFFICES ASSUME state'.node \in {"SELECT_NEXT", "VERIFY"} PROVE Planned
    BY <1>4 DEF Footing
  <2>1. CASE state'.node = state.node
    BY <1>1, <2>1 DEF Footing
  <2>2. CASE todo[t] # <<>> /\ h \in NodeSets /\ h \in Range(todo[t]) /\ state'.node = h.value
    <3>1. Planned \/ Fetch \in Range(todo[t])
      BY <1>1, <2>2 DEF Apt
    <3>2. h # Fetch /\ h # Fallible
      BY <2>2 DEF NodeSets, Fetch, Fallible
    <3>3. Fetch \notin Range(todo[t])
      BY <1>1, <1>2, <2>2, <3>2, Shorter, ShapedRest
    <3> QED
      BY <3>1, <3>3
  <2> QED
    BY <1>9, <2>1, <2>2
<1>12. /\ \/ state'.status = state.status
          \/ Write(t) /\ h \in StatusSets /\ h \in Range(todo[t]) /\ state'.status = h.value
          \/ state'.status \in {"running", "failed"}
  BY <1>2, RunMoves
<1>13. Complete'
  <2> SUFFICES ASSUME state'.status = "completed" PROVE Planned /\ Completed
    BY <1>5 DEF Complete
  <2>1. CASE state'.status = state.status
    BY <1>1, <2>1 DEF Complete
  <2>2. CASE Write(t) /\ h \in StatusSets /\ h \in Range(todo[t]) /\ state'.status = h.value
    <3>1. h = Success
      BY <2>2 DEF StatusSets, Success, Set
    <3> QED
      BY <1>1, <2>2, <3>1 DEF Apt
  <2> QED
    BY <1>12, <2>1, <2>2
<1>14. Idles'
  <2> SUFFICES ASSUME Waits', NEW u \in Threads, thread'[u] = "driving"
               PROVE  Parted(todo'[u])
    BY DEF Idles, Parted
  <2>1. u = t
    <3>1. thread' = thread \/ thread' = [thread EXCEPT ![t] = "returned"]
      BY DEF Drive, Resume, Loop, Dispatch, Pause, LeaveLoop, StoreResult, Write, WriteTask,
             StorePlan, Emit, Save, TryCall, Continue
    <3> QED
      BY <1>1, <1>3, <3>1, Alone DEF SerialInv
  <2>2. PICK r : r = todo'[t]
    OBVIOUS
  <2>3. CASE Waits
    <3>1. Parted(todo[t])
      BY <1>1, <2>3 DEF Idles
    <3>2. Parted(r)
      BY <2>1, <2>2, <2>3, <3>1, PartedStep
    <3> QED
      BY <2>1, <2>2, <3>2
  <2>4. CASE Write(t) /\ h \in StatusSets /\ h \in Range(todo[t]) /\ state'.status = h.value
    <3>1. h = Hold
      BY <2>4 DEF StatusSets, Hold, Set, Waits
    <3>2. r = Tail(todo[t]) /\ todo[t] # <<>>
      BY <1>3, <2>2, <2>4 DEF Write, Rest, Faces
    <3>3. Parted(r)
      BY <1>1, <1>2, <3>1, <3>2, ShapedRest
    <3> QED
      BY <2>1, <2>2, <3>3
  <2> QED
    BY <1>12, <2>3, <2>4 DEF Waits
<1> QED
  BY <1>8, <1>10, <1>11, <1>13, <1>14, TodoPromise DEF PromiseInv

\* Clients and the stream change nothing of this, but for a driver who is there
\* to resume the run.
LEMMA OtherPromise ==
  ASSUME TypeInv, PromiseInv,
         PostStart \/ PostApprove \/ Open \/ Reopen \/ Follow \/ UNCHANGED vars
  PROVE  PromiseInv' /\ UNCHANGED <<state, history>>
<1>1. UNCHANGED <<state, history>>
  BY DEF PostStart, PostApprove, Spawn, Open, Reopen, Follow, Replay, CheckStatus, Flush,
         vars, agent
<1>2. ASSUME NEW u \in Threads
      PROVE  \/ todo'[u] = todo[u] /\ thread'[u] = thread[u]
             \/ \E A \in SUBSET Gated : todo'[u] = <<[do |-> "resume", tools |-> A]>>
  <2>1. CASE Open \/ Reopen \/ Follow \/ UNCHANGED vars
    BY <2>1 DEF Open, Reopen, Follow, Replay, CheckStatus, Flush, vars, driver
  <2>2. CASE PostStart \/ PostApprove
    <3>1. PICK A \in SUBSET Gated : Spawn(A)
      <4>1. CASE PostStart
        BY <4>1 DEF PostStart
      <4>2. CASE PostApprove
        <5>1. PICK i \in LastRequests : Spawn({history[i].task})
          BY <4>2 DEF PostApprove
        <5>2. history[i].task \in Gated
          BY DEF LastRequests, TypeInv, GatedAsk
        <5> QED
          BY <5>1, <5>2
      <4> QED
        BY <2>2, <4>1, <4>2
    <3>2. PICK t \in Threads :
            /\ thread' = [thread EXCEPT ![t] = "driving"]
            /\ todo' = [todo EXCEPT ![t] = <<[do |-> "resume", tools |-> A]>>]
      BY <3>1 DEF Spawn
    <3> QED
      BY <3>2 DEF TypeInv, TypeOK
  <2> QED
    BY <2>1, <2>2
<1>3. ASSUME NEW u \in Threads, NEW r, r = todo'[u]
      PROVE  /\ Shaped(r) /\ Apt(r)'
             /\ Waits /\ thread'[u] = "driving" => Parted(r)
  <2>1. CASE todo'[u] = todo[u] /\ thread'[u] = thread[u]
    <3>1. Shaped(r) /\ Apt(r) /\ (Waits /\ thread[u] = "driving" => Parted(r))
      BY <1>3, <2>1 DEF PromiseInv, Idles
    <3> QED
      BY <1>1, <2>1, <3>1 DEF Apt, Planned, Completed, StatusOf, ResultOf
  <2>2. ASSUME NEW A \in SUBSET Gated, r = <<[do |-> "resume", tools |-> A]>>
        PROVE  Shaped(r) /\ Apt(r)' /\ Parted(r)
    <3> DEFINE e == [do |-> "resume", tools |-> A]
    <3>1. e \in Effect /\ e \in Resumes /\ Aloof(e) /\ e # Hold /\ e # Fetch
      BY DEF Effect, Resumes, Aloof, Touches, Choices, Success, Then, NodeSets, Given,
             Fetch, Hold, StatusPuts, ResultPuts, Set
    <3>2. r = <<e>>
      BY <2>2
    <3> HIDE DEF e
    <3>3. r \in Seq(Effect) /\ Range(r) = {e} /\ Len(r) = 1 /\ r[1] = e
      BY <3>1, <3>2, One
    <3>4. Shaped(r)
      BY <3>1, <3>3, PlainShaped
    <3>5. Apt(r)'
      BY <3>1, <3>3 DEF Apt, Aloof, Touches
    <3>6. Parted(r)
      BY <3>1, <3>3 DEF Parted
    <3> QED
      BY <3>4, <3>5, <3>6
  <2> QED
    BY <1>2, <1>3, <2>1, <2>2
<1>4. ASSUME NEW u \in Threads
      PROVE  /\ (Shaped(todo[u]) /\ Apt(todo[u]))'
             /\ (Waits /\ thread[u] = "driving" => Parted(todo[u]))'
  <2>1. PICK r : r = todo'[u]
    OBVIOUS
  <2>2. Shaped(r) /\ Apt(r)' /\ (Waits /\ thread'[u] = "driving" => Parted(r))
    BY <1>3, <2>1
  <2>3. (Shaped(todo[u]) /\ Apt(todo[u]))'
    BY <2>1, <2>2 DEF Shaped, Apt
  <2>4. (Waits /\ thread[u] = "driving" => Parted(todo[u]))'
    BY <1>1, <2>1, <2>2 DEF Waits, Parted
  <2> QED
    BY <2>3, <2>4
<1>5. Earned' /\ Deciding' /\ Footing' /\ Complete'
  BY <1>1 DEF PromiseInv, Earned, Deciding, Footing, Complete, Planned, Completed, StatusOf,
              ResultOf
<1>6. Idles'
  BY <1>4 DEF Idles
<1> QED
  BY <1>1, <1>4, <1>5, <1>6 DEF PromiseInv

LEMMA InitPromise == Init => PromiseInv
<1> SUFFICES ASSUME Init PROVE PromiseInv
  OBVIOUS
<1>1. /\ state.node = "START" /\ state.status = "running" /\ state.tasks = <<>>
      /\ \A t \in Threads : todo[t] = <<>>
  BY DEF Init
<1>2. Range(<<>>) = {} /\ Len(<<>>) = 0 /\ 1..0 = {}
  BY DEF Range
<1>3. \A t \in Threads : Shaped(todo[t]) /\ Apt(todo[t])
  BY <1>1, <1>2 DEF Shaped, Apt
<1>4. ~Planned
  <2>1. 1 \in 1..Jobs /\ DOMAIN state.tasks = {}
    BY <1>1, ServiceAssumption
  <2> QED
    BY <2>1 DEF Planned
<1> QED
  BY <1>1, <1>3, <1>4 DEF PromiseInv, Earned, Deciding, Footing, Complete, Idles, Waits

LEMMA Promising ==
  ASSUME Serial
  PROVE  Spec => []PromiseInv
<1>1. Init => PromiseInv
  BY InitPromise
<1>2. /\ TypeInv /\ StreamInv /\ (SerialInv /\ EndInv) /\ (GateInv /\ OrderInv) /\ OnceInv
      /\ PromiseInv /\ [Next]_vars
      => PromiseInv'
  BY DrivePromise, OtherPromise DEF Next
<1>3. SerialInv => OneDriver
  BY DEF SerialInv
<1> QED
  BY <1>1, <1>2, <1>3, Typing, Gating, Ending, Calling, PTL DEF Spec

-----------------------------------------------------------------------------
(* The promise, step by step.                                              *)

Left(tasks) == {k \in DOMAIN tasks : tasks[k].status # "completed"}
Made(tasks) == {k \in DOMAIN tasks : tasks[k].status = "completed"}

\* The verdicts of a history: where they are, and what they say.
VerdictsIn(h) == {i \in DOMAIN h : h[i].type \in Verdicts}
Spoken(h) ==
  [i \in 1..Cardinality(VerdictsIn(h)) |->
     h[CHOOSE j \in VerdictsIn(h) :
         Cardinality({g \in VerdictsIn(h) : g < j}) = i - 1].type]

LEMMA NothingSpoken ==
  ASSUME NEW h, VerdictsIn(h) = {}
  PROVE  Spoken(h) = <<>>
<1>1. Cardinality(VerdictsIn(h)) = 0 /\ 1..0 = {}
  BY FS_EmptySet
<1> QED
  BY <1>1 DEF Spoken

LEMMA OneSpoken ==
  ASSUME NEW h \in Seq(Event), NEW n, VerdictsIn(h) = {n}
  PROVE  Spoken(h) = <<h[n].type>>
<1> DEFINE V == VerdictsIn(h)
<1>1. n \in Nat /\ V = {n}
  BY DEF VerdictsIn
<1>2. Cardinality(V) = 1
  BY <1>1, FS_Singleton
<1>3. 1..1 = {1}
  OBVIOUS
<1>4. {g \in V : g < n} = {}
  BY <1>1
<1>5. Cardinality({g \in V : g < n}) = 1 - 1
  <2>1. Cardinality({}) = 0 /\ 0 = 1 - 1
    BY FS_EmptySet
  <2> QED
    BY <1>4, <2>1
<1>6. Spoken(h) = [i \in 1..Cardinality(V) |->
                     h[CHOOSE j \in V : Cardinality({g \in V : g < j}) = i - 1].type]
  BY DEF Spoken
<1> HIDE DEF V
<1>7. (CHOOSE j \in V : Cardinality({g \in V : g < j}) = 1 - 1) = n
  BY <1>1, <1>5
<1>8. \A i \in 1..1 : i = 1
  BY <1>3
<1>9. \A i \in 1..1 :
        h[CHOOSE j \in V : Cardinality({g \in V : g < j}) = i - 1].type = h[n].type
  BY <1>7, <1>8
<1>10. Spoken(h) = [i \in 1..1 |-> h[n].type]
  BY <1>2, <1>6, <1>9
<1> QED
  BY <1>10

\* There is at most one.
LEMMA OneTold ==
  ASSUME TypeInv, VerdictIsLast, Told # {}
  PROVE  \E n : Told = {n}
<1>1. PICK n : n \in Told
  OBVIOUS
<1>2. \A i \in Told : i \in Nat /\ i \in DOMAIN history
  BY DEF Told, TypeInv, TypeOK
<1>3. ASSUME NEW i \in Told, NEW j \in Told, j > i PROVE FALSE
  <2>1. history[j].type = "MEMORY_STORED" /\ history[j].type \in Verdicts
    BY <1>2, <1>3 DEF VerdictIsLast, Told
  <2> QED
    BY <2>1 DEF Verdicts
<1>4. \A i \in Told : i = n
  BY <1>1, <1>2, <1>3
<1> QED
  BY <1>1, <1>4

\* How a step of a thread changes the work: not at all, or while the run works
\* a plan is made or a task is finished.
LEMMA WorkMoves ==
  ASSUME TypeInv, OrderInv, OnceInv, PromiseInv, NEW t \in Threads, Drive(t),
         NEW p, p = state.tasks, NEW q, q = state'.tasks
  PROVE  \/ Left(q) = Left(p) /\ Made(q) = Made(p)
         \/ /\ state'.status = state.status
            /\ \/ Left(p) = {} /\ Made(p) = {} /\ Left(q) # {} /\ Made(q) = {}
               \/ \E k \in Left(p) : Left(q) = Left(p) \ {k} /\ Made(q) = Made(p) \cup {k}
<1>1. Timely(todo[t]) /\ Apt(todo[t])
  BY DEF OnceInv, PromiseInv
<1>2. p \in {<<>>} \cup [1..Jobs -> TaskRecord] /\ 1 \in 1..Jobs
  BY ServiceAssumption DEF TypeInv, TypeOK
<1>3. CASE StorePlan(t)
  <2>1. q \in [1..Jobs -> TaskRecord] /\ \A k \in 1..Jobs : q[k].status = "pending"
    BY <1>3, PlanStored DEF Planned
  <2>2. Left(q) = 1..Jobs /\ Made(q) = {} /\ state'.status = state.status
    BY <1>3, <2>1 DEF Left, Made, StorePlan, TypeInv, TypeOK
  <2>3. CASE Planned
    <3>1. \A k \in 1..Jobs : p[k].status # "completed"
      BY <1>1, <1>3, <2>3, PlanFaced, NothingDone DEF StatusOf
    <3>2. Left(p) = 1..Jobs /\ Made(p) = {}
      BY <2>3, <3>1 DEF Left, Made, Planned
    <3> QED
      BY <2>2, <3>2
  <2>4. CASE ~Planned
    <3>1. DOMAIN p = {}
      BY <1>2, <2>4 DEF Planned
    <3>2. Left(p) = {} /\ Made(p) = {}
      BY <3>1 DEF Left, Made
    <3> QED
      BY <1>2, <2>2, <3>2
  <2> QED
    BY <2>3, <2>4
<1>4. CASE WriteTask(t) /\ state' # state
  <2>1. PICK h : h = Head(todo[t])
    OBVIOUS
  <2>2. /\ Planned /\ h.task \in 1..Jobs /\ h \in Range(todo[t])
        /\ h \in StatusPuts \/ h \in ResultPuts
    <3>1. h \in Range(todo[t])
      BY <1>4, <2>1, Facing DEF WriteTask
    <3> QED
      BY <1>4, <2>1, <3>1, TaskWritten
  <2>3. Planned' /\ ~StorePlan(t) /\ state'.status = state.status
    <3>1. ~StorePlan(t)
      BY <1>4 DEF StorePlan, WriteTask, Faces
    <3>2. state'.status = state.status
      BY <1>4 DEF WriteTask, TypeInv, TypeOK
    <3> QED
      BY <2>2, <3>1, <3>2, PlannedStays
  <2>4. DOMAIN p = 1..Jobs /\ DOMAIN q = 1..Jobs
    BY <2>2, <2>3 DEF Planned
  <2>5. ASSUME NEW k \in 1..Jobs
        PROVE  \/ q[k].status = p[k].status
               \/ h \in StatusPuts /\ h.task = k /\ h.plan = state.plan
                    /\ q[k].status = h.value
    BY <2>1, <2>3, TaskMoves
  <2>6. h \in StatusPuts /\ h.plan = state.plan /\ h.value # "completed"
          => p[h.task].status # "completed"
    BY <1>1, <2>2 DEF Apt, StatusOf
  <2>7. CASE \A k \in 1..Jobs : q[k].status = "completed" <=> p[k].status = "completed"
    BY <2>4, <2>7 DEF Left, Made
  <2>8. ASSUME NEW k \in 1..Jobs, ~(q[k].status = "completed" <=> p[k].status = "completed")
        PROVE  /\ k \in Left(p) /\ Left(q) = Left(p) \ {k} /\ Made(q) = Made(p) \cup {k}
    <3>1. k = h.task /\ q[k].status = "completed" /\ p[k].status # "completed"
      BY <2>5, <2>6, <2>8
    <3>2. \A i \in 1..Jobs : i # k => q[i].status = p[i].status
      BY <2>5, <3>1
    <3> QED
      BY <2>4, <3>1, <3>2 DEF Left, Made
  <2> QED
    BY <2>3, <2>7, <2>8
<1>5. CASE ~StorePlan(t) /\ (~WriteTask(t) \/ state' = state)
  <2>1. q = p
    BY <1>5, StateMoves
  <2> QED
    BY <2>1
<1> QED
  BY <1>3, <1>4, <1>5

\* What a step of a thread tells: nothing once the verdict is out; while the run
\* waits, that it goes on; and else that it waits, or the verdict, or nothing.
LEMMA VoiceMoves ==
  ASSUME TypeInv, SerialInv, EndInv, OrderInv, OnceInv, PromiseInv,
         NEW t \in Threads, Drive(t), NEW p, p = state.tasks, NEW q, q = state'.tasks,
         NEW a, a = Spoken(history), NEW b, b = Spoken(history')
  PROVE  \/ q = p /\ b = a /\ (Waits' <=> Waits)
         \/ Waits /\ ~Waits' /\ q = p /\ b = a
         \/ /\ ~Waits /\ a = <<>>
            /\ \/ b = a /\ ~Waits'
               \/ b = a /\ Waits' /\ q = p
               \/ b = <<"OBJECTIVE_FAILED">> /\ ~Waits' /\ q = p
               \/ /\ b = <<"OBJECTIVE_COMPLETED">> /\ ~Waits' /\ q = p
                  /\ Planned /\ Completed
<1>1. /\ thread[t] = "driving" /\ TypeInv' /\ history \in Seq(Event) /\ history' \in Seq(Event)
  BY Taken, DriveTyped DEF TypeInv, TypeOK
<1>2. VerdictsIn(history) = Told /\ VerdictsIn(history') = Told'
  BY DEF VerdictsIn, Told
<1>3. CASE Told # {}
  <2>1. state'.status = state.status /\ (Emit(t) => Head(todo[t]) = MemoryNote)
    BY <1>1, <1>3, WindingStep
  <2>2. MemoryNote \notin VerdictEmits
    BY DEF MemoryNote, EmitOf, VerdictEmits, Verdicts
  <2>3. Told' = Told /\ \A i \in Told : history'[i] = history[i]
    BY <2>1, <2>2, ToldMoves
  <2>4. PICK n : Told = {n}
    BY <1>3, OneTold DEF EndInv
  <2>5. a = <<history[n].type>> /\ b = <<history'[n].type>>
    BY <1>1, <1>2, <2>3, <2>4, OneSpoken
  <2>6. b = a
    BY <2>3, <2>4, <2>5
  <2>7. \A kind : Faces(t, kind) => kind \notin {"put", "plan"}
    <3> SUFFICES ASSUME NEW kind, Faces(t, kind) PROVE kind \notin {"put", "plan"}
      OBVIOUS
    <3>1. todo[t] # <<>> /\ Head(todo[t]) \in Range(todo[t]) /\ Head(todo[t]).do = kind
      BY Facing
    <3>2. Winding(t)
      BY <1>1, <1>3 DEF EndInv, WindsUp
    <3>3. CASE Range(todo[t]) \subseteq Quiet
      BY <3>1, <3>3 DEF Quiet, Row, MemoryNote, EmitOf, Finish, Set, Look
    <3>4. CASE todo[t] = <<Leave>>
      BY <3>1, <3>4 DEF Leave
    <3>5. CASE todo[t] = <<[do |-> "result", status |-> state.status]>>
      BY <3>1, <3>5
    <3> QED
      BY <3>2, <3>3, <3>4, <3>5 DEF Winding
  <2>8. ~WriteTask(t) /\ ~StorePlan(t)
    BY <2>7 DEF WriteTask, StorePlan
  <2>9. q = p
    BY <2>8, StateMoves
  <2> QED
    BY <2>1, <2>6, <2>9 DEF Waits
<1>4. CASE Waits
  <2>1. Parted(todo[t])
    BY <1>1, <1>4 DEF PromiseInv, Idles
  <2>2. PICK r : r = todo'[t]
    OBVIOUS
  <2>3. q = p /\ history' = history
    BY <1>4, <2>1, <2>2, PartedStep
  <2> QED
    BY <1>4, <2>3
<1>5. CASE Told = {} /\ ~Waits
  <2>1. a = <<>>
    BY <1>2, <1>5, NothingSpoken
  <2>2. CASE Told' = {}
    <3>1. b = a
      BY <1>2, <2>1, <2>2, NothingSpoken
    <3>2. CASE Waits'
      <4>1. ~WriteTask(t) /\ ~StorePlan(t)
        BY <1>5, <3>2 DEF WriteTask, StorePlan, Waits, TypeInv, TypeOK
      <4>2. q = p
        BY <4>1, StateMoves
      <4> QED
        BY <1>5, <2>1, <3>1, <3>2, <4>2
    <3> QED
      BY <1>5, <2>1, <3>1, <3>2
  <2>3. CASE Told' # {}
    <3> DEFINE e == Head(todo[t])
    <3>1. \A i \in Told' :
            /\ Emit(t) /\ e \in VerdictEmits /\ history'[i].type = e.type
      BY <1>5, ToldMoves
    <3>2. Emit(t) /\ e \in VerdictEmits /\ e \in Range(todo[t])
      BY <2>3, <3>1, Facing DEF Emit
    <3>3. Announces(todo[t], e)
      BY <3>2 DEF EndInv, Foretold
    <3>4. Judgment /\ Agrees(e.type)
      BY <3>2, <3>3 DEF Announces, VerdictEmits, Set
    <3>5. state' = state
      BY <3>2 DEF Emit, agent
    <3>6. e.type \in Verdicts
      BY <3>2 DEF VerdictEmits
    <3> HIDE DEF e
    <3>7. EndInv'
      BY DriveEnd
    <3>8. \E n : Told' = {n}
      <4>1. PICK n : n \in Told'
        BY <2>3
      <4>2. \A i \in Told' : i \in Nat /\ i \in DOMAIN history'
        BY <1>1 DEF Told
      <4>3. ASSUME NEW i \in Told', NEW j \in Told', j > i PROVE FALSE
        <5>1. history'[j].type = "MEMORY_STORED" /\ history'[j].type \in Verdicts
          BY <3>7, <4>2, <4>3 DEF EndInv, VerdictIsLast, Told
        <5> QED
          BY <5>1 DEF Verdicts
      <4>4. \A i \in Told' : i = n
        BY <4>1, <4>2, <4>3
      <4> QED
        BY <4>1, <4>4
    <3>9. b = <<e.type>>
      <4>1. PICK n : Told' = {n}
        BY <3>8
      <4>2. b = <<history'[n].type>>
        BY <1>1, <1>2, <4>1, OneSpoken
      <4> QED
        BY <3>1, <4>1, <4>2
    <3>10. e.type = "OBJECTIVE_COMPLETED" => Planned /\ Completed
      BY <3>4 DEF Agrees, PromiseInv, Complete
    <3> QED
      BY <1>5, <2>1, <3>5, <3>6, <3>9, <3>10 DEF Verdicts, Waits
  <2> QED
    BY <2>2, <2>3
<1> QED
  BY <1>3, <1>4, <1>5

LEMMA NextPromise ==
  ASSUME TypeInv, SerialInv, EndInv, OrderInv, OnceInv, PromiseInv, [Next]_vars
  PROVE  [Promise!Next]_(Promise!vars)
<1> DEFINE p == state.tasks
           q == state'.tasks
           a == Spoken(history)
           b == Spoken(history')
<1>1. /\ {k \in DOMAIN state.tasks : StatusOf(k) # "completed"} = Left(p)
      /\ {k \in DOMAIN state.tasks : StatusOf(k) # "completed"}' = Left(q)
      /\ {k \in DOMAIN state.tasks : StatusOf(k) = "completed"} = Made(p)
      /\ {k \in DOMAIN state.tasks : StatusOf(k) = "completed"}' = Made(q)
      /\ Announced = a /\ Announced' = b
  BY DEF Left, Made, StatusOf, Announced, Spoken, VerdictsIn, Told
<1>2. CASE PostStart \/ PostApprove \/ Open \/ Reopen \/ Follow \/ UNCHANGED vars
  <2>1. state' = state /\ history' = history
    BY <1>2, OtherPromise
  <2>2. Left(q) = Left(p) /\ Made(q) = Made(p) /\ b = a /\ state'.status = state.status
    BY <2>1
  <2> HIDE DEF p, q, a, b
  <2> QED
    BY <1>1, <2>2 DEF Promise!vars
<1>3. ASSUME NEW t \in Threads, Drive(t)
      PROVE  [Promise!Next]_(Promise!vars)
  <2>1. \/ Left(q) = Left(p) /\ Made(q) = Made(p)
        \/ /\ state'.status = state.status
           /\ \/ Left(p) = {} /\ Made(p) = {} /\ Left(q) # {} /\ Made(q) = {}
              \/ \E k \in Left(p) : Left(q) = Left(p) \ {k} /\ Made(q) = Made(p) \cup {k}
    BY <1>3, WorkMoves
  <2>2. \/ q = p /\ b = a /\ (Waits' <=> Waits)
        \/ Waits /\ ~Waits' /\ q = p /\ b = a
        \/ /\ ~Waits /\ a = <<>>
           /\ \/ b = a /\ ~Waits'
              \/ b = a /\ Waits' /\ q = p
              \/ b = <<"OBJECTIVE_FAILED">> /\ ~Waits' /\ q = p
              \/ /\ b = <<"OBJECTIVE_COMPLETED">> /\ ~Waits' /\ q = p
                 /\ Planned /\ Completed
    BY <1>3, VoiceMoves
  <2>3. Planned /\ Completed => Left(p) = {} /\ Made(p) # {}
    <3>1. 1 \in 1..Jobs
      BY ServiceAssumption
    <3> QED
      BY <3>1 DEF Planned, Completed, StatusOf, Left, Made
  <2>4. q = p => Left(q) = Left(p) /\ Made(q) = Made(p)
    OBVIOUS
  <2> HIDE DEF p, q, a, b
  <2> QED
    BY <1>1, <2>1, <2>2, <2>3, <2>4
    DEF Waits, Promise!Next, Promise!vars, Promise!Plan, Promise!Finish, Promise!Revise,
        Promise!Ask, Promise!Answer, Promise!Succeed, Promise!Fail, Promise!Working
<1> QED
  BY <1>2, <1>3 DEF Next

\* Under the same use of the API the run as its listeners see it, however its
\* handlers, threads, stream and clients interleave, does only what Objective
\* allows: work is planned once, what was done stays done while the run waits
\* and after a failure, and the one verdict is positive only when all is done.
THEOREM RunKeepsPromise ==
  ASSUME Serial
  PROVE  Spec => KeepsPromise
<1>1. Init => Promise!Init
  <2> SUFFICES ASSUME Init PROVE Promise!Init
    OBVIOUS
  <2>1. history = <<>> /\ state.tasks = <<>> /\ state.status = "running"
    BY DEF Init
  <2>2. Told = {} /\ VerdictsIn(history) = {} /\ DOMAIN state.tasks = {}
    BY <2>1 DEF Told, VerdictsIn
  <2>3. Announced = <<>>
    <3>1. Announced = Spoken(history)
      BY DEF Announced, Spoken, VerdictsIn, Told
    <3> QED
      BY <2>2, <3>1, NothingSpoken
  <2> QED
    BY <2>1, <2>2, <2>3 DEF Promise!Init
<1>2. /\ TypeInv /\ StreamInv /\ (SerialInv /\ EndInv) /\ (GateInv /\ OrderInv) /\ OnceInv
      /\ PromiseInv /\ [Next]_vars
      => [Promise!Next]_(Promise!vars)
  BY NextPromise
<1>3. SerialInv => OneDriver
  BY DEF SerialInv
<1> QED
  BY <1>1, <1>2, <1>3, Typing, Gating, Ending, Calling, Promising, PTL
     DEF Spec, KeepsPromise, Promise!Spec
=============================================================================
