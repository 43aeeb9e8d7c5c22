--------------------------- MODULE TaskLoopProofs ---------------------------
(***************************************************************************)
(* What the loop does to the calls that are left, for any tasks and limits.*)
(* The modules of tools differ in what arguments there are: a lemma takes  *)
(* their sets of tools and of arguments as T and G.                        *)
(***************************************************************************)
EXTENDS TaskLoop, TLAPS

TaskOf(T, G) == [tool : T, given : G, attempts : Nat]

\* The calls left, without their order and the attempts made.
Calls == {<<tasks[i].tool, tasks[i].given>> : i \in DOMAIN tasks}
InHand == <<Now.tool, Now.given>>

\* Trying a task again changes nothing but its attempts.
LEMMA AttemptedLemma ==
  ASSUME NEW T, NEW G, tasks \in Seq(TaskOf(T, G)), tasks # <<>>
  PROVE  /\ Attempted \in Seq(TaskOf(T, G)) /\ Attempted # <<>>
         /\ Len(Attempted) = Len(tasks)
         /\ \A i \in DOMAIN tasks : /\ Attempted[i].tool = tasks[i].tool
                                    /\ Attempted[i].given = tasks[i].given
<1>1. /\ DOMAIN tasks = 1 .. Len(tasks) /\ 1 \in DOMAIN tasks
      /\ \A i \in DOMAIN tasks : tasks[i] \in TaskOf(T, G)
  OBVIOUS
<1>2. Attempted \in [DOMAIN tasks -> TaskOf(T, G)]
  <2>1. [tasks[1] EXCEPT !.attempts = @ + 1] \in TaskOf(T, G)
    BY <1>1 DEF TaskOf
  <2> QED
    BY <1>1, <2>1 DEF Attempted
<1>3. Attempted \in Seq(TaskOf(T, G)) /\ Len(Attempted) = Len(tasks)
  BY <1>1, <1>2
<1>4. ASSUME NEW i \in DOMAIN tasks
      PROVE  /\ Attempted[i].tool = tasks[i].tool /\ Attempted[i].given = tasks[i].given
  <2>1. CASE i = 1
    <3>1. Attempted[1] = [tasks[1] EXCEPT !.attempts = @ + 1]
      BY <1>1 DEF Attempted
    <3> QED
      BY <1>1, <2>1, <3>1 DEF TaskOf
  <2>2. CASE i # 1
    BY <2>2 DEF Attempted
  <2> QED
    BY <2>1, <2>2
<1> QED
  BY <1>1, <1>3, <1>4

\* The task in hand once it was attempted again.
Again == [Now EXCEPT !.attempts = @ + 1]

\* What a call's end makes of the tasks, head and tail.
LEMMA TasksSplit ==
  ASSUME NEW T, NEW G, tasks \in Seq(TaskOf(T, G)), tasks # <<>>, {} \in G
  PROVE  /\ Now \in TaskOf(T, G) /\ Again \in TaskOf(T, G)
         /\ Remediation \in TaskOf(T, G)
         /\ Tail(tasks) \in Seq(TaskOf(T, G))
         /\ tasks = <<Now>> \o Tail(tasks)
         /\ Attempted = <<Again>> \o Tail(tasks)
         /\ Again.tool = Now.tool /\ Again.given = Now.given
         /\ Again.attempts = Now.attempts + 1
<1>1. /\ Now \in TaskOf(T, G) /\ Tail(tasks) \in Seq(TaskOf(T, G))
      /\ tasks = <<Now>> \o Tail(tasks)
  BY DEF Now
<1>2. /\ Again \in TaskOf(T, G) /\ Remediation \in TaskOf(T, G)
      /\ Again.tool = Now.tool /\ Again.given = Now.given
      /\ Again.attempts = Now.attempts + 1
  BY <1>1 DEF Again, Remediation, Planned, TaskOf
<1>3. Attempted = <<Again>> \o Tail(tasks)
  <2>1. Attempted = [tasks EXCEPT ![1] = Again]
    BY DEF Attempted, Again, Now
  <2> HIDE DEF Again, Now
  <2> QED
    BY <1>2, <2>1
<1> QED
  BY <1>1, <1>2, <1>3

LEMMA EscalateLemma ==
  ASSUME NEW T, NEW G, tasks \in Seq(TaskOf(T, G)), tasks # <<>>, Escalate
  PROVE  /\ tasks' \in Seq(TaskOf(T, G)) /\ tasks' # <<>> /\ verdict' = "waiting"
         /\ UNCHANGED <<Calls, InHand, revised, revisions>>
<1>1. tasks' = Attempted
  BY DEF Escalate
<1>2. DOMAIN tasks' = DOMAIN tasks /\ 1 \in DOMAIN tasks
  BY <1>1, AttemptedLemma
<1>3. \A i \in DOMAIN tasks : tasks'[i].tool = tasks[i].tool /\ tasks'[i].given = tasks[i].given
  BY <1>1, AttemptedLemma
<1>4. Calls' = Calls /\ InHand' = InHand
  BY <1>2, <1>3 DEF Calls, InHand, Now
<1> QED
  BY <1>1, <1>4, AttemptedLemma DEF Escalate

\* A failure leaves the calls, and may add a remediation in front of them.
LEMMA FailLemma ==
  ASSUME NEW T, NEW G, tasks \in Seq(TaskOf(T, G)), tasks # <<>>, {} \in G, Fail
  PROVE  /\ tasks' \in Seq(TaskOf(T, G)) /\ tasks' # <<>>
         /\ verdict' \in {verdict, "failed"}
         /\ \/ UNCHANGED <<Calls, InHand, revised, revisions>>
            \/ /\ Calls' = Calls \cup {<<Now.tool, {}>>}
               /\ revised' = revised \cup {Now.tool}
               /\ revisions' = revisions + 1
<1>0. /\ DOMAIN tasks = 1 .. Len(tasks) /\ 1 \in DOMAIN tasks /\ tasks[1] \in TaskOf(T, G)
  OBVIOUS
<1>1. CASE tasks' = Attempted /\ UNCHANGED <<revised, revisions>> /\ verdict' \in {verdict, "failed"}
  <2>1. DOMAIN tasks' = DOMAIN tasks /\ tasks' \in Seq(TaskOf(T, G)) /\ tasks' # <<>>
    BY <1>1, AttemptedLemma
  <2>2. \A i \in DOMAIN tasks : tasks'[i].tool = tasks[i].tool /\ tasks'[i].given = tasks[i].given
    BY <1>1, AttemptedLemma
  <2>3. Calls' = Calls /\ InHand' = InHand
    BY <1>0, <2>1, <2>2 DEF Calls, InHand, Now
  <2> QED
    BY <1>1, <2>1, <2>3
<1>2. CASE Replan
  <2>1. Remediation \in TaskOf(T, G) /\ Remediation.tool = Now.tool /\ Remediation.given = {}
    BY <1>0 DEF Remediation, Planned, Now, TaskOf
  <2>2. tasks' = <<Remediation>> \o Attempted
    BY <1>2 DEF Replan
  <2>3. /\ tasks' \in Seq(TaskOf(T, G)) /\ tasks' # <<>>
        /\ DOMAIN tasks' = 1 .. (Len(tasks) + 1)
        /\ tasks'[1] = Remediation
        /\ \A i \in 1 .. Len(tasks) : tasks'[i + 1] = Attempted[i]
    BY <2>1, <2>2, AttemptedLemma
  <2>4. \A i \in DOMAIN tasks :
          tasks'[i + 1].tool = tasks[i].tool /\ tasks'[i + 1].given = tasks[i].given
    BY <1>0, <2>3, AttemptedLemma
  <2>5. Calls' \subseteq Calls \cup {<<Now.tool, {}>>}
    <3>1. SUFFICES ASSUME NEW j \in DOMAIN tasks'
                   PROVE  <<tasks'[j].tool, tasks'[j].given>> \in Calls \cup {<<Now.tool, {}>>}
      BY DEF Calls
    <3>2. CASE j = 1
      BY <2>1, <2>3, <3>2
    <3>3. CASE j # 1
      <4>1. j - 1 \in DOMAIN tasks /\ (j - 1) + 1 = j
        BY <1>0, <2>3, <3>3
      <4>2. tasks'[j].tool = tasks[j - 1].tool /\ tasks'[j].given = tasks[j - 1].given
        BY <2>4, <4>1
      <4> QED
        BY <4>1, <4>2 DEF Calls
    <3> QED
      BY <3>2, <3>3
  <2>6. Calls \cup {<<Now.tool, {}>>} \subseteq Calls'
    <3>1. <<Now.tool, {}>> \in Calls'
      <4>1. 1 \in DOMAIN tasks'
        BY <2>3
      <4> QED
        BY <2>1, <2>3, <4>1 DEF Calls
    <3>2. ASSUME NEW i \in DOMAIN tasks PROVE <<tasks[i].tool, tasks[i].given>> \in Calls'
      <4>1. i + 1 \in DOMAIN tasks'
        BY <1>0, <2>3
      <4> QED
        BY <2>4, <4>1 DEF Calls
    <3> QED
      BY <3>1, <3>2 DEF Calls
  <2> QED
    BY <1>2, <2>3, <2>5, <2>6 DEF Replan
<1> QED
  BY <1>1, <1>2 DEF Fail, Retry, Abort

\* A success takes the call in hand away, and is the end if it was the last.
LEMMA SucceedLemma ==
  ASSUME NEW T, NEW G, tasks \in Seq(TaskOf(T, G)), tasks # <<>>, Succeed
  PROVE  /\ tasks' \in Seq(TaskOf(T, G))
         /\ verdict' = (IF tasks' = <<>> THEN "done" ELSE verdict)
         /\ Calls' \subseteq Calls /\ Calls \subseteq Calls' \cup {InHand}
         /\ UNCHANGED <<revised, revisions>>
<1>1. /\ DOMAIN tasks = 1 .. Len(tasks) /\ Len(tasks) \in Nat /\ Len(tasks) > 0
      /\ tasks' = Tail(tasks)
  BY DEF Succeed
<1>2. /\ tasks' \in Seq(TaskOf(T, G)) /\ Len(tasks') = Len(tasks) - 1
      /\ DOMAIN tasks' = 1 .. (Len(tasks) - 1)
      /\ \A i \in 1 .. (Len(tasks) - 1) : tasks'[i] = tasks[i + 1]
  BY <1>1
<1>3. tasks' = <<>> <=> Len(tasks) = 1
  BY <1>1, <1>2
<1>4. Calls' \subseteq Calls
  <2>1. ASSUME NEW i \in DOMAIN tasks' PROVE i + 1 \in DOMAIN tasks /\ tasks'[i] = tasks[i + 1]
    BY <1>1, <1>2
  <2> QED
    BY <2>1 DEF Calls
<1>5. Calls \subseteq Calls' \cup {InHand}
  <2>1. SUFFICES ASSUME NEW j \in DOMAIN tasks
                 PROVE  <<tasks[j].tool, tasks[j].given>> \in Calls' \cup {InHand}
    BY DEF Calls
  <2>2. CASE j = 1
    BY <2>2 DEF InHand, Now
  <2>3. CASE j # 1
    <3>1. j - 1 \in DOMAIN tasks' /\ tasks'[j - 1] = tasks[j]
      BY <1>1, <1>2, <2>3
    <3> QED
      BY <3>1 DEF Calls
  <2> QED
    BY <2>2, <2>3
<1> QED
  BY <1>2, <1>3, <1>4, <1>5 DEF Succeed

\* The call in hand is one of those left.
LEMMA InHandLemma ==
  ASSUME NEW T, NEW G, tasks \in Seq(TaskOf(T, G)), tasks # <<>>
  PROVE  InHand \in Calls /\ Now.tool \in T /\ Now.given \in G /\ Now.attempts \in Nat
<1>1. 1 \in DOMAIN tasks /\ tasks[1] \in TaskOf(T, G)
  OBVIOUS
<1> QED
  BY <1>1 DEF InHand, Calls, Now, TaskOf

\* However a call ends, and when a human approves one, the counters stay numbers.
LEMMA LoopTypes ==
  ASSUME LoopTypeOK,
         \/ UNCHANGED <<revisions, verdict, approvals>>
         \/ Approve
         \/ (Succeed \/ Fail \/ Escalate) /\ UNCHANGED approvals
  PROVE  LoopTypeOK'
<1>1. CASE UNCHANGED <<revisions, verdict, approvals>>
  BY <1>1 DEF LoopTypeOK
<1>2. CASE Approve
  BY <1>2 DEF LoopTypeOK, Approve
<1>3. CASE (Succeed \/ Fail \/ Escalate) /\ UNCHANGED approvals
  BY <1>3 DEF LoopTypeOK, Succeed, Fail, Retry, Replan, Abort, Escalate
<1> QED
  BY <1>1, <1>2, <1>3

LEMMA RevisedLemma ==
  ASSUME NEW T, NEW G, tasks \in Seq(TaskOf(T, G)), tasks # <<>>, revised \subseteq T,
         Succeed \/ Fail \/ Escalate
  PROVE  revised' \subseteq T
<1>1. Now.tool \in T
  BY InHandLemma
<1> QED
  BY <1>1 DEF Succeed, Fail, Retry, Replan, Abort, Escalate

-----------------------------------------------------------------------------
(* The way along a plan.                                                   *)

\* Those left are the planned ones from p on, behind the remediations of the
\* first of these: r calls of its tool without arguments.
Follows(left, plan, p, r) ==
  /\ p \in 1 .. Len(plan) + 1 /\ r \in Nat
  /\ Len(left) = r + (Len(plan) + 1 - p)
  /\ p = Len(plan) + 1 => r = 0
  /\ \A n \in 1 .. r : left[n].tool = plan[p].tool /\ left[n].given = {}
  /\ \A n \in p .. Len(plan) : /\ left[r + 1 + n - p].tool = plan[n].tool
                               /\ left[r + 1 + n - p].given = plan[n].given

LEMMA FollowsHead ==
  ASSUME NEW T, NEW G, NEW left \in Seq(TaskOf(T, G)), NEW plan \in Seq(TaskOf(T, G)),
         NEW p, NEW r, Follows(left, plan, p, r), left # <<>>
  PROVE  /\ p \in 1 .. Len(plan) /\ left[1].tool = plan[p].tool
         /\ \/ r = 0 /\ left[1].given = plan[p].given
            \/ r > 0 /\ left[1].given = {}
<1>1. /\ Len(left) \in Nat /\ Len(left) > 0 /\ Len(plan) \in Nat /\ r \in Nat
      /\ p \in 1 .. Len(plan) + 1
      /\ Len(left) = r + (Len(plan) + 1 - p)
      /\ p = Len(plan) + 1 => r = 0
  BY DEF Follows
<1>2. p \in 1 .. Len(plan)
  BY <1>1
<1>3. CASE r = 0
  <2>1. p \in p .. Len(plan) /\ 0 + 1 + p - p = 1
    BY <1>2
  <2> QED
    BY <1>2, <1>3, <2>1 DEF Follows
<1>4. CASE r > 0
  <2>1. 1 \in 1 .. r
    BY <1>1, <1>4
  <2> QED
    BY <1>2, <1>4, <2>1 DEF Follows
<1> QED
  BY <1>1, <1>3, <1>4

LEMMA FollowsSucceed ==
  ASSUME NEW T, NEW G, NEW left \in Seq(TaskOf(T, G)), NEW plan \in Seq(TaskOf(T, G)),
         NEW p, NEW r, Follows(left, plan, p, r), left # <<>>
  PROVE  \/ r > 0 /\ Follows(Tail(left), plan, p, r - 1)
         \/ r = 0 /\ Follows(Tail(left), plan, p + 1, 0)
<1>1. /\ Len(left) \in Nat /\ Len(left) > 0 /\ Len(plan) \in Nat /\ r \in Nat
      /\ p \in 1 .. Len(plan) + 1 /\ p \in Nat
      /\ Len(left) = r + (Len(plan) + 1 - p)
      /\ p = Len(plan) + 1 => r = 0
      /\ \A n \in 1 .. r : left[n].tool = plan[p].tool /\ left[n].given = {}
      /\ \A n \in p .. Len(plan) : /\ left[r + 1 + n - p].tool = plan[n].tool
                                   /\ left[r + 1 + n - p].given = plan[n].given
  BY DEF Follows
<1> DEFINE tail == Tail(left)
<1>2. /\ Len(tail) = Len(left) - 1
      /\ \A n \in 1 .. Len(left) - 1 : tail[n] = left[n + 1]
  BY <1>1
<1> HIDE DEF tail
<1>3. CASE r > 0
  <2>1. \A n \in 1 .. r - 1 : tail[n].tool = plan[p].tool /\ tail[n].given = {}
    <3> TAKE n \in 1 .. r - 1
    <3>1. n \in 1 .. Len(left) - 1 /\ n + 1 \in 1 .. r
      BY <1>1, <1>3
    <3> QED
      BY <1>1, <1>2, <3>1
  <2>2. ASSUME NEW n \in p .. Len(plan)
        PROVE  /\ tail[(r - 1) + 1 + n - p].tool = plan[n].tool
               /\ tail[(r - 1) + 1 + n - p].given = plan[n].given
    <3>1. /\ (r - 1) + 1 + n - p \in 1 .. Len(left) - 1
          /\ ((r - 1) + 1 + n - p) + 1 = r + 1 + n - p
      BY <1>1, <1>3
    <3>2. tail[(r - 1) + 1 + n - p] = left[r + 1 + n - p]
      BY <1>2, <3>1
    <3> QED
      BY <1>1, <3>2
  <2>3. r - 1 \in Nat /\ Len(tail) = (r - 1) + (Len(plan) + 1 - p) /\ p # Len(plan) + 1
    BY <1>1, <1>2, <1>3
  <2> QED
    BY <1>1, <1>3, <2>1, <2>2, <2>3 DEF Follows, tail
<1>4. CASE r = 0
  <2>1. /\ p + 1 \in 1 .. Len(plan) + 1 /\ Len(tail) = 0 + (Len(plan) + 1 - (p + 1))
    BY <1>1, <1>2, <1>4
  <2>2. ASSUME NEW n \in p + 1 .. Len(plan)
        PROVE  /\ tail[0 + 1 + n - (p + 1)].tool = plan[n].tool
               /\ tail[0 + 1 + n - (p + 1)].given = plan[n].given
    <3>1. /\ 0 + 1 + n - (p + 1) \in 1 .. Len(left) - 1
          /\ (0 + 1 + n - (p + 1)) + 1 = r + 1 + n - p
          /\ n \in p .. Len(plan)
      BY <1>1, <1>4
    <3>2. tail[0 + 1 + n - (p + 1)] = left[r + 1 + n - p]
      BY <1>2, <3>1
    <3> QED
      BY <1>1, <3>1, <3>2
  <2> QED
    BY <1>1, <1>4, <2>1, <2>2 DEF Follows, tail
<1> QED
  BY <1>1, <1>3, <1>4

LEMMA FollowsAgain ==
  ASSUME NEW T, NEW G, NEW left \in Seq(TaskOf(T, G)), NEW plan \in Seq(TaskOf(T, G)),
         NEW p, NEW r, Follows(left, plan, p, r), left # <<>>,
         NEW more \in Seq(TaskOf(T, G)), Len(more) = Len(left),
         \A n \in 1 .. Len(left) : more[n].tool = left[n].tool /\ more[n].given = left[n].given
  PROVE  Follows(more, plan, p, r)
<1>1. /\ Len(left) \in Nat /\ Len(plan) \in Nat /\ r \in Nat
      /\ p \in 1 .. Len(plan) + 1
      /\ Len(left) = r + (Len(plan) + 1 - p)
  BY DEF Follows
<1>2. \A n \in 1 .. r : n \in 1 .. Len(left)
  BY <1>1
<1>3. \A n \in p .. Len(plan) : r + 1 + n - p \in 1 .. Len(left)
  BY <1>1
<1> QED
  BY <1>1, <1>2, <1>3 DEF Follows

LEMMA ConsLemma ==
  ASSUME NEW S, NEW s \in Seq(S), NEW e \in S
  PROVE  /\ Len(<<e>> \o s) = Len(s) + 1 /\ (<<e>> \o s)[1] = e
         /\ \A n \in 1 .. Len(s) : (<<e>> \o s)[n + 1] = s[n]
OBVIOUS

LEMMA FollowsReplan ==
  ASSUME NEW T, NEW G, NEW left \in Seq(TaskOf(T, G)), NEW plan \in Seq(TaskOf(T, G)),
         NEW p, NEW r, Follows(left, plan, p, r), left # <<>>,
         NEW e \in TaskOf(T, G), e.tool = left[1].tool, e.given = {}
  PROVE  Follows(<<e>> \o left, plan, p, r + 1)
<1>1. /\ Len(left) \in Nat /\ Len(left) > 0 /\ Len(plan) \in Nat /\ r \in Nat
      /\ p \in 1 .. Len(plan) /\ p \in Nat
      /\ Len(left) = r + (Len(plan) + 1 - p)
      /\ \A n \in 1 .. r : left[n].tool = plan[p].tool /\ left[n].given = {}
      /\ \A n \in p .. Len(plan) : /\ left[r + 1 + n - p].tool = plan[n].tool
                                   /\ left[r + 1 + n - p].given = plan[n].given
      /\ left[1].tool = plan[p].tool
  BY FollowsHead DEF Follows
<1> DEFINE q == <<e>> \o left
<1>2. /\ Len(q) = Len(left) + 1 /\ q[1] = e
      /\ \A n \in 1 .. Len(left) : q[n + 1] = left[n]
  BY ConsLemma
<1> HIDE DEF q
<1>3. ASSUME NEW n \in 1 .. r + 1 PROVE q[n].tool = plan[p].tool /\ q[n].given = {}
  <2>1. CASE n = 1
    BY <1>1, <1>2, <2>1
  <2>2. CASE n # 1
    <3>1. n - 1 \in 1 .. r /\ n - 1 \in 1 .. Len(left) /\ (n - 1) + 1 = n
      BY <1>1, <2>2
    <3>2. q[n] = left[n - 1]
      BY <1>2, <3>1
    <3> QED
      BY <1>1, <3>1, <3>2
  <2> QED
    BY <2>1, <2>2
<1>4. ASSUME NEW n \in p .. Len(plan)
      PROVE  /\ q[(r + 1) + 1 + n - p].tool = plan[n].tool
             /\ q[(r + 1) + 1 + n - p].given = plan[n].given
  <2>1. /\ r + 1 + n - p \in 1 .. Len(left)
        /\ (r + 1) + 1 + n - p = (r + 1 + n - p) + 1
    <3>1. /\ Len(left) \in Nat /\ Len(plan) \in Nat /\ r \in Nat /\ p \in 1 .. Len(plan)
          /\ Len(left) = r + (Len(plan) + 1 - p)
      BY <1>1
    <3> QED
      BY <3>1
  <2>2. q[(r + 1) + 1 + n - p] = left[r + 1 + n - p]
    BY <1>2, <2>1
  <2> QED
    BY <1>1, <2>2
<1>5. r + 1 \in Nat /\ Len(q) = (r + 1) + (Len(plan) + 1 - p) /\ p # Len(plan) + 1
      /\ p \in 1 .. Len(plan) + 1
  BY <1>1, <1>2
<1> QED
  BY <1>3, <1>4, <1>5 DEF Follows, q

\* How the end of a call moves along the plan.
LEMMA FollowsOn ==
  ASSUME NEW T, NEW G, tasks \in Seq(TaskOf(T, G)), tasks # <<>>, {} \in G,
         NEW plan \in Seq(TaskOf(T, G)), NEW p, NEW r, Follows(tasks, plan, p, r)
  PROVE  /\ p \in 1 .. Len(plan) /\ Now.tool = plan[p].tool
         /\ r = 0 => Now.given = plan[p].given
         /\ r # 0 => Now.given = {}
         /\ Succeed => \/ r # 0 /\ Follows(tasks', plan, p, r - 1)
                       \/ r = 0 /\ Follows(tasks', plan, p + 1, 0)
         /\ Fail \/ Escalate => \E s : Follows(tasks', plan, p, s)
<1>1. /\ p \in 1 .. Len(plan) /\ Now.tool = plan[p].tool
      /\ r = 0 => Now.given = plan[p].given
      /\ r # 0 => Now.given = {}
  BY FollowsHead DEF Now, Follows
<1>2. Succeed => \/ r # 0 /\ Follows(tasks', plan, p, r - 1)
                 \/ r = 0 /\ Follows(tasks', plan, p + 1, 0)
  <2>1. Succeed => tasks' = Tail(tasks)
    BY DEF Succeed
  <2>2. \/ r > 0 /\ Follows(Tail(tasks), plan, p, r - 1)
        \/ r = 0 /\ Follows(Tail(tasks), plan, p + 1, 0)
    BY FollowsSucceed
  <2>3. r > 0 => r # 0
    BY DEF Follows
  <2> QED
    BY <2>1, <2>2, <2>3
<1> DEFINE all == Attempted
<1>3. all \in Seq(TaskOf(T, G)) /\ all # <<>> /\ all[1].tool = Now.tool
      /\ Follows(all, plan, p, r)
  <2>1. /\ all \in Seq(TaskOf(T, G)) /\ all # <<>> /\ Len(all) = Len(tasks)
        /\ \A n \in 1 .. Len(tasks) : all[n].tool = tasks[n].tool /\ all[n].given = tasks[n].given
        /\ 1 \in 1 .. Len(tasks)
    BY AttemptedLemma
  <2> HIDE DEF all
  <2> QED
    BY <2>1, FollowsAgain DEF Now
<1>4. Remediation \in TaskOf(T, G) /\ Remediation.tool = Now.tool /\ Remediation.given = {}
  BY TasksSplit DEF Remediation, Planned
<1>5. Fail \/ Escalate => tasks' = all \/ tasks' = <<Remediation>> \o all
  BY DEF Fail, Retry, Replan, Abort, Escalate
<1> HIDE DEF all
<1>6. Follows(<<Remediation>> \o all, plan, p, r + 1)
  BY <1>3, <1>4, FollowsReplan DEF Now
<1> QED
  BY <1>1, <1>2, <1>3, <1>5, <1>6

\* A call either succeeds or does not.
LEMMA NotBoth ==
  ASSUME NEW T, NEW G, tasks \in Seq(TaskOf(T, G)), tasks # <<>>, {} \in G, Fail \/ Escalate
  PROVE  ~Succeed
<1>1. Attempted \in Seq(TaskOf(T, G)) /\ Len(Attempted) = Len(tasks) /\ Len(tasks) \in Nat
      /\ Len(tasks) > 0 /\ Len(Tail(tasks)) = Len(tasks) - 1
  BY AttemptedLemma
<1> DEFINE all == Attempted
<1>2. Remediation \in TaskOf(T, G)
  BY TasksSplit
<1>3. tasks' = all \/ tasks' = <<Remediation>> \o all
  BY DEF Fail, Retry, Replan, Abort, Escalate
<1> HIDE DEF all
<1>4. Len(tasks') = Len(tasks) \/ Len(tasks') = Len(tasks) + 1
  BY <1>1, <1>2, <1>3 DEF all
<1>5. Succeed => Len(tasks') = Len(tasks) - 1
  BY <1>1 DEF Succeed
<1> QED
  BY <1>1, <1>4, <1>5
==============================================================================
