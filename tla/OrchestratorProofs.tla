------------------------- MODULE OrchestratorProofs -------------------------
(***************************************************************************)
(* The inductive invariant of the drive loop and the theorems that follow  *)
(* from it for every registry, every set of drafts and every limit.        *)
(***************************************************************************)
EXTENDS Orchestrator, FiniteSetTheorems, FunctionTheorems, SequenceTheorems,
        WellFoundedInduction, TLAPS

\* Task ids are unique and drawn from 1..Len(p): the id of the next
\* remediation task, Len(p) + 1, is fresh.
IdsFresh(p) ==
  /\ \A i \in DOMAIN p : p[i].id \in 1..Len(p)
  /\ \A i, j \in DOMAIN p : p[i].id = p[j].id => i = j

\* Every task depends on tasks in front of it only: forward drafts are so, and
\* stay so under revision.
AllForward == \A d \in Drafts : ForwardDraft(d)
DependsOnEarlier(p) ==
  \A i \in DOMAIN p : \A d \in p[i].deps :
    \E j \in DOMAIN p : j < i /\ p[j].id = d

\* OrderRespected, of any plan.
Ordered(p) ==
  \A i \in DOMAIN p :
    p[i].status \in {"running", "completed"} => p[i].deps \subseteq Done(p)

\* Between the selection of a task and the decision about it that task, and
\* no other one, is running; a task is given up only where the run ends.
InHand == {"EXECUTE", "OBSERVE", "DECIDE"}
OneRunning ==
  /\ node \in {"START", "UNDERSTAND", "CREATE_PLAN"} => plan = <<>>
  /\ node \in InHand \cup {"SELECT_NEXT", "VERIFY"} => plan # <<>>
  /\ node \in InHand =>
       \E k \in DOMAIN plan : plan[k].id = current /\ plan[k].status = "running"
  /\ node \in InHand \cup {"SELECT_NEXT", "VERIFY"} =>
       \A i \in DOMAIN plan :
         \/ plan[i].status \in {"pending", "completed"}
         \/ node \in InHand /\ plan[i].id = current

\* What the last call of a tool returned, where the loop relies on it.
ResultsKnown ==
  /\ \A i \in DOMAIN plan :
       plan[i].status = "completed" /\ plan[i].tool \in Registered =>
         plan[i].result \in Successes
  /\ \A i \in DOMAIN plan :
       plan[i].id = current =>
         /\ node \in {"OBSERVE", "DECIDE"} => plan[i].result \in Results
         /\ node = "DECIDE" => plan[i].result \in Failures

\* The status fits the node, and nothing is announced before the end.
StatusFits ==
  /\ status = "awaiting_approval" => node = "EXECUTE"
  /\ status = "blocked" => ~AllForward
  /\ node = "VERIFY" => IsComplete(plan)
  /\ status = "completed" => node \in {"STORE_MEMORY", "END"}
  /\ node \in {"STORE_MEMORY", "END"} => status # "running"
  /\ node # "END" => announced = <<>> /\ lessons = <<>>

Inv ==
  /\ TypeOK
  /\ IdsFresh(plan)
  /\ AllForward => DependsOnEarlier(plan)
  /\ OneRunning
  /\ ResultsKnown
  /\ StatusFits
  /\ Ordered(plan)
  /\ CompletedIsEarned
  /\ EndConsistent

-----------------------------------------------------------------------------
(* Lemmas about plans.                                                     *)

\* What inserting an element into a sequence yields, position by position.
LEMMA InsertAtProperties ==
  ASSUME NEW S, NEW s \in Seq(S), NEW k \in 1..Len(s), NEW e \in S
  PROVE  /\ InsertAt(s, k, e) \in Seq(S)
         /\ Len(InsertAt(s, k, e)) = Len(s) + 1
         /\ \A i \in 1..(Len(s) + 1) :
              InsertAt(s, k, e)[i] = IF i < k THEN s[i]
                                     ELSE IF i = k THEN e ELSE s[i - 1]
<1> DEFINE front == SubSeq(s, 1, k - 1)
           back == SubSeq(s, k, Len(s))
           mid == front \o <<e>>
<1>1. /\ front \in Seq(S) /\ Len(front) = k - 1
      /\ \A i \in 1..(k - 1) : front[i] = s[i]
  BY SubSeqProperties
<1>2. /\ back \in Seq(S) /\ Len(back) = Len(s) - k + 1
      /\ \A i \in 1..(Len(s) - k + 1) : back[i] = s[k + i - 1]
  BY SubSeqProperties
<1>3. /\ mid \in Seq(S) /\ Len(mid) = k
      /\ \A i \in 1..k : mid[i] = IF i < k THEN s[i] ELSE e
  <2>1. <<e>> \in Seq(S) /\ Len(<<e>>) = 1 /\ <<e>>[1] = e
    OBVIOUS
  <2> HIDE DEF front
  <2>2. /\ mid \in Seq(S) /\ Len(mid) = (k - 1) + 1
        /\ \A i \in 1..((k - 1) + 1) :
             mid[i] = IF i <= k - 1 THEN front[i] ELSE <<e>>[i - (k - 1)]
    BY <1>1, <2>1, ConcatProperties
  <2>3. ASSUME NEW i \in 1..k PROVE mid[i] = IF i < k THEN s[i] ELSE e
    BY <1>1, <2>1, <2>2
  <2> QED BY <2>2, <2>3
<1>4. /\ mid \o back \in Seq(S) /\ Len(mid \o back) = Len(s) + 1
      /\ \A i \in 1..(Len(s) + 1) :
           (mid \o back)[i] = IF i <= k THEN mid[i] ELSE back[i - k]
  <2> HIDE DEF mid, back
  <2>1. /\ mid \o back \in Seq(S) /\ Len(mid \o back) = Len(mid) + Len(back)
        /\ \A i \in 1..(Len(mid) + Len(back)) :
             (mid \o back)[i] = IF i <= Len(mid) THEN mid[i] ELSE back[i - Len(mid)]
    BY <1>2, <1>3, ConcatProperties
  <2>2. Len(mid) + Len(back) = Len(s) + 1
    BY <1>2, <1>3
  <2> QED BY <1>3, <2>1, <2>2
<1>5. InsertAt(s, k, e) = mid \o back
  BY DEF InsertAt
<1>6. ASSUME NEW i \in 1..(Len(s) + 1)
      PROVE  (mid \o back)[i] = IF i < k THEN s[i]
                                ELSE IF i = k THEN e ELSE s[i - 1]
  <2>1. CASE i <= k
    BY <2>1, <1>3, <1>4
  <2>2. CASE i > k
    <3>1. i - k \in 1..(Len(s) - k + 1) /\ k + (i - k) - 1 = i - 1
      BY <2>2
    <3> QED BY <2>2, <3>1, <1>2, <1>4
  <2> QED BY <2>1, <2>2
<1> QED BY <1>4, <1>5, <1>6

\* A non-empty set of natural numbers has a least element, so that Min is one.
LEMMA MinProperties ==
  ASSUME NEW T \in SUBSET Nat, T # {}
  PROVE  Min(T) \in T /\ \A y \in T : Min(T) <= y
<1> DEFINE below == OpToRel(<, Nat)
<1>1. IsWellFoundedOn(below, Nat)
  BY NatLessThanWellFounded
<1>2. \A x, y \in Nat : y < x => <<y, x>> \in below
  BY DEF OpToRel
<1> HIDE DEF below
<1>3. PICK x \in T : \A y \in T : ~(<<y, x>> \in below)
  BY <1>1, WFMin
<1>4. ASSUME NEW y \in T PROVE x <= y
  <2>1. ~(y < x)
    BY <1>2, <1>3
  <2> QED BY <2>1
<1>5. \E m \in T : \A y \in T : m <= y
  BY <1>4
<1> QED BY <1>5 DEF Min

\* The same, one position at a time.
LEMMA InsertAtElement ==
  ASSUME NEW S, NEW s \in Seq(S), NEW k \in 1..Len(s), NEW e \in S,
         NEW i \in 1..(Len(s) + 1)
  PROVE  /\ i < k => InsertAt(s, k, e)[i] = s[i]
         /\ i = k => InsertAt(s, k, e)[i] = e
         /\ i > k => InsertAt(s, k, e)[i] = s[i - 1]
<1>1. \A j \in 1..(Len(s) + 1) :
        InsertAt(s, k, e)[j] = IF j < k THEN s[j]
                               ELSE IF j = k THEN e ELSE s[j - 1]
  BY InsertAtProperties
<1> QED BY <1>1

\* Replacing a task and inserting another in front of it.
ReplaceInsert(p, k, t, e) == InsertAt([p EXCEPT ![k] = t], k, e)

LEMMA ReplaceInsertProperties ==
  ASSUME NEW p \in Seq(Task), NEW k \in 1..Len(p), NEW t \in Task, NEW e \in Task
  PROVE  LET q == ReplaceInsert(p, k, t, e)
         IN /\ q \in Seq(Task) /\ Len(q) = Len(p) + 1
            /\ \A i \in 1..(Len(p) + 1) :
                 /\ i < k => q[i] = p[i]
                 /\ i = k => q[i] = e
                 /\ i = k + 1 => q[i] = t
                 /\ i > k + 1 => q[i] = p[i - 1]
<1> DEFINE s == [p EXCEPT ![k] = t]
           q == InsertAt(s, k, e)
<1>1. Len(p) \in Nat
  BY LenProperties
<1>2. /\ s \in Seq(Task) /\ Len(s) = Len(p)
      /\ \A i \in 1..Len(p) : s[i] = IF i = k THEN t ELSE p[i]
  BY ExceptSeq
<1> HIDE DEF s
<1>3. s \in Seq(Task) /\ k \in 1..Len(s)
  BY <1>2
<1>4. q \in Seq(Task) /\ Len(q) = Len(p) + 1
  <2>1. InsertAt(s, k, e) \in Seq(Task) /\ Len(InsertAt(s, k, e)) = Len(s) + 1
    BY <1>3, InsertAtProperties
  <2> QED BY <1>2, <2>1
<1>5. ASSUME NEW i \in 1..(Len(p) + 1)
      PROVE  /\ i < k => q[i] = p[i]
             /\ i = k => q[i] = e
             /\ i = k + 1 => q[i] = t
             /\ i > k + 1 => q[i] = p[i - 1]
  <2>1. i \in 1..(Len(s) + 1)
    BY <1>2
  <2>2. /\ i < k => q[i] = s[i]
        /\ i = k => q[i] = e
        /\ i > k => q[i] = s[i - 1]
    BY <1>3, <2>1, InsertAtElement
  <2>3. i < k => i \in 1..Len(p) /\ i # k
    BY <1>1
  <2>4. i = k + 1 => i > k /\ i - 1 = k
    BY <1>1
  <2>5. i > k + 1 => i > k /\ i - 1 # k /\ i - 1 \in 1..Len(p)
    BY <1>1
  <2> HIDE DEF q
  <2> QED BY <1>2, <2>2, <2>3, <2>4, <2>5
<1> QED BY <1>4, <1>5 DEF s, ReplaceInsert

LEMMA ReplaceInsertElement ==
  ASSUME NEW p \in Seq(Task), NEW k \in 1..Len(p), NEW t \in Task, NEW e \in Task,
         NEW i \in 1..(Len(p) + 1)
  PROVE  /\ i < k => ReplaceInsert(p, k, t, e)[i] = p[i]
         /\ i = k => ReplaceInsert(p, k, t, e)[i] = e
         /\ i = k + 1 => ReplaceInsert(p, k, t, e)[i] = t
         /\ i > k + 1 => ReplaceInsert(p, k, t, e)[i] = p[i - 1]
<1> DEFINE q == ReplaceInsert(p, k, t, e)
<1>1. \A j \in 1..(Len(p) + 1) :
        /\ j < k => q[j] = p[j]
        /\ j = k => q[j] = e
        /\ j = k + 1 => q[j] = t
        /\ j > k + 1 => q[j] = p[j - 1]
  BY ReplaceInsertProperties
<1> QED BY <1>1

\* The failed task as a revision leaves it.
Reset(p, k) ==
  [p[k] EXCEPT !.status = "pending", !.deps = {Remediation(p, k).id}]

\* What a revision does to the plan, position by position.
LEMMA ReviseProperties ==
  ASSUME NEW p \in Seq(Task), NEW k \in DOMAIN p
  PROVE  /\ Remediation(p, k) \in Task /\ Remediation(p, k).id = Len(p) + 1
         /\ Revise(p, k) \in Seq(Task) /\ Len(Revise(p, k)) = Len(p) + 1
         /\ \A i \in 1..(Len(p) + 1) :
              /\ i < k => Revise(p, k)[i] = p[i]
              /\ i = k => Revise(p, k)[i] = Remediation(p, k)
              /\ i = k + 1 => Revise(p, k)[i] = Reset(p, k)
              /\ i > k + 1 => Revise(p, k)[i] = p[i - 1]
<1> DEFINE fix == Remediation(p, k)
           failed == Reset(p, k)
           q == ReplaceInsert(p, k, failed, fix)
<1>1. p[k] \in Task /\ Len(p) \in Nat /\ k \in 1..Len(p)
  BY LenProperties
<1>2. RemediationTool(p[k].tool) \in ToolNames
  BY <1>1 DEF RemediationTool, Task, ToolNames
<1>3. fix \in Task /\ fix.id = Len(p) + 1
  BY <1>1, <1>2 DEF Remediation, NewTask, Task, TaskStatus
<1>4. failed \in Task
  BY <1>1, <1>3 DEF Reset, Task, TaskStatus
<1>5. Revise(p, k) = q
  BY DEF Revise, ReplaceInsert, Reset
<1> HIDE DEF fix, failed
<1>6. /\ q \in Seq(Task) /\ Len(q) = Len(p) + 1
      /\ \A i \in 1..(Len(p) + 1) :
           /\ i < k => q[i] = p[i]
           /\ i = k => q[i] = fix
           /\ i = k + 1 => q[i] = failed
           /\ i > k + 1 => q[i] = p[i - 1]
  <2>1. q \in Seq(Task) /\ Len(q) = Len(p) + 1
    BY <1>1, <1>3, <1>4, ReplaceInsertProperties
  <2>2. ASSUME NEW i \in 1..(Len(p) + 1)
        PROVE  /\ i < k => q[i] = p[i]
               /\ i = k => q[i] = fix
               /\ i = k + 1 => q[i] = failed
               /\ i > k + 1 => q[i] = p[i - 1]
    BY <1>1, <1>3, <1>4, ReplaceInsertElement
  <2> HIDE DEF q
  <2> QED BY <2>1, <2>2
<1> HIDE DEF q
<1> QED BY <1>3, <1>5, <1>6 DEF fix, failed

LEMMA ReviseElement ==
  ASSUME NEW p \in Seq(Task), NEW k \in DOMAIN p, NEW i \in 1..(Len(p) + 1)
  PROVE  /\ i < k => Revise(p, k)[i] = p[i]
         /\ i = k => Revise(p, k)[i] = Remediation(p, k)
         /\ i = k + 1 => Revise(p, k)[i] = Reset(p, k)
         /\ i > k + 1 => Revise(p, k)[i] = p[i - 1]
<1> DEFINE q == Revise(p, k)
<1>1. \A j \in 1..(Len(p) + 1) :
        /\ j < k => q[j] = p[j]
        /\ j = k => q[j] = Remediation(p, k)
        /\ j = k + 1 => q[j] = Reset(p, k)
        /\ j > k + 1 => q[j] = p[j - 1]
  BY ReviseProperties
<1> QED BY <1>1

-----------------------------------------------------------------------------
(* Lemmas about the states of a run.                                       *)

\* A step that writes fields of one unfinished task, but not its id or its
\* dependencies, and starts or completes it only when these are done.
LEMMA PlanUpdate ==
  ASSUME Inv, NEW k \in DOMAIN plan, NEW t \in Task,
         t.id = plan[k].id, t.deps = plan[k].deps,
         plan[k].status # "completed",
         t.status \in {"running", "completed"} => plan[k].deps \subseteq Done(plan),
         plan' = [plan EXCEPT ![k] = t]
  PROVE  /\ plan' \in Seq(Task) /\ Len(plan') = Len(plan)
         /\ DOMAIN plan' = DOMAIN plan
         /\ \A i \in DOMAIN plan : plan'[i] = IF i = k THEN t ELSE plan[i]
         /\ IdsFresh(plan')
         /\ AllForward => DependsOnEarlier(plan')
         /\ Ordered(plan')
<1>1. plan \in Seq(Task)
  BY DEF Inv, TypeOK
<1>2. /\ plan' \in Seq(Task) /\ Len(plan') = Len(plan)
      /\ DOMAIN plan' = DOMAIN plan
      /\ \A i \in DOMAIN plan : plan'[i] = IF i = k THEN t ELSE plan[i]
  BY <1>1, ExceptSeq
<1>3. \A i \in DOMAIN plan : /\ plan'[i].id = plan[i].id
                             /\ plan'[i].deps = plan[i].deps
  BY <1>2
<1>4. IdsFresh(plan')
  BY <1>2, <1>3 DEF Inv, IdsFresh
<1>5. AllForward => DependsOnEarlier(plan')
  BY <1>2, <1>3 DEF Inv, DependsOnEarlier
<1>6. Done(plan) \subseteq Done(plan')
  BY <1>2 DEF Done
<1>7. ASSUME NEW i \in DOMAIN plan', plan'[i].status \in {"running", "completed"}
      PROVE  plan'[i].deps \subseteq Done(plan')
  BY <1>2, <1>6, <1>7 DEF Inv, Ordered
<1> QED BY <1>2, <1>4, <1>5, <1>7 DEF Ordered

\* A revision keeps the ids unique, the dependencies pointing backwards and the
\* order respected, provided the failed task was not completed.
LEMMA PlanRevision ==
  ASSUME Inv, NEW k \in DOMAIN plan, plan[k].status # "completed",
         plan' = Revise(plan, k)
  PROVE  /\ plan' \in Seq(Task) /\ Len(plan') = Len(plan) + 1
         /\ IdsFresh(plan')
         /\ AllForward => DependsOnEarlier(plan')
         /\ Ordered(plan')
<1> DEFINE fix == Remediation(plan, k)
           failed == Reset(plan, k)
<1>1. plan \in Seq(Task) /\ Len(plan) \in Nat /\ DOMAIN plan = 1..Len(plan)
  BY LenProperties DEF Inv, TypeOK
<1>2. /\ fix \in Task /\ fix.id = Len(plan) + 1
      /\ plan' \in Seq(Task) /\ Len(plan') = Len(plan) + 1
      /\ \A i \in 1..(Len(plan) + 1) :
           /\ i < k => plan'[i] = plan[i]
           /\ i = k => plan'[i] = fix
           /\ i = k + 1 => plan'[i] = failed
           /\ i > k + 1 => plan'[i] = plan[i - 1]
  <2>1. /\ fix \in Task /\ fix.id = Len(plan) + 1
        /\ plan' \in Seq(Task) /\ Len(plan') = Len(plan) + 1
    BY <1>1, ReviseProperties
  <2>2. ASSUME NEW i \in 1..(Len(plan) + 1)
        PROVE  /\ i < k => plan'[i] = plan[i]
               /\ i = k => plan'[i] = fix
               /\ i = k + 1 => plan'[i] = failed
               /\ i > k + 1 => plan'[i] = plan[i - 1]
    BY <1>1, ReviseElement
  <2> QED BY <2>1, <2>2
<1>3. DOMAIN plan' = 1..(Len(plan) + 1)
  BY <1>2, LenProperties
<1>4. fix.status = "pending" /\ fix.deps = plan[k].deps
  BY DEF Remediation, NewTask
<1>5. /\ failed.status = "pending" /\ failed.deps = {fix.id}
      /\ failed.id = plan[k].id
  BY <1>1 DEF Reset, Task
<1> HIDE DEF fix, failed
\* Where the tasks of the old plan, except the failed one, are now.
<1> DEFINE now(i) == IF i < k THEN i ELSE i + 1
<1>6. ASSUME NEW i \in DOMAIN plan
      PROVE  /\ now(i) \in DOMAIN plan'
             /\ plan'[now(i)].id = plan[i].id
             /\ i # k => plan'[now(i)] = plan[i]
  <2>1. CASE i < k
    BY <2>1, <1>1, <1>2, <1>3
  <2>2. CASE i = k
    BY <2>2, <1>1, <1>2, <1>3, <1>5
  <2>3. CASE i > k
    <3>1. i + 1 \in 1..(Len(plan) + 1) /\ i + 1 > k + 1 /\ (i + 1) - 1 = i
      BY <2>3, <1>1
    <3>2. plan'[i + 1] = plan[(i + 1) - 1]
      BY <3>1, <1>2
    <3> QED BY <2>3, <3>1, <3>2, <1>1, <1>3
  <2> QED BY <1>1, <2>1, <2>2, <2>3
<1>7. ASSUME NEW i \in DOMAIN plan'
      PROVE  i = k \/ \E j \in DOMAIN plan : i = now(j)
  <2>1. CASE i < k
    BY <2>1, <1>1, <1>3
  <2>2. CASE i > k
    <3> i - 1 \in DOMAIN plan /\ ~(i - 1 < k) /\ (i - 1) + 1 = i
      BY <2>2, <1>1, <1>3
    <3> QED BY <2>2
  <2> QED BY <1>1, <1>3, <2>1, <2>2
<1>8. k \in DOMAIN plan' /\ plan'[k] = fix
  BY <1>1, <1>2, <1>3
<1>9. \A i, j \in DOMAIN plan : (now(i) = now(j) => i = j) /\ (i < j => now(i) < now(j))
  BY <1>1
<1>10. now(k) = k + 1
  BY <1>1
<1> HIDE DEF now
<1>11. IdsFresh(plan')
  <2>1. ASSUME NEW j \in DOMAIN plan
        PROVE  plan'[now(j)].id \in 1..Len(plan)
    BY <1>6 DEF Inv, IdsFresh
  <2>2. ASSUME NEW i \in DOMAIN plan' PROVE plan'[i].id \in 1..Len(plan')
    <3>1. CASE i = k
      BY <3>1, <1>1, <1>2, <1>8
    <3>2. ASSUME NEW j \in DOMAIN plan, i = now(j)
          PROVE  plan'[i].id \in 1..Len(plan')
      BY <3>2, <2>1, <1>1, <1>2
    <3> QED BY <3>1, <3>2, <1>7
  <2>3. ASSUME NEW i \in DOMAIN plan', i # k, plan'[i].id = plan'[k].id
        PROVE  FALSE
    <3>1. plan'[i].id = Len(plan) + 1
      BY <2>3, <1>2, <1>8
    <3>2. PICK j \in DOMAIN plan : i = now(j)
      BY <2>3, <1>7
    <3> QED BY <3>1, <3>2, <2>1, <1>1
  <2>4. ASSUME NEW i \in DOMAIN plan', NEW j \in DOMAIN plan',
               plan'[i].id = plan'[j].id, i # k, j # k
        PROVE  i = j
    <3>1. PICK g \in DOMAIN plan : i = now(g)
      BY <2>4, <1>7
    <3>2. PICK h \in DOMAIN plan : j = now(h)
      BY <2>4, <1>7
    <3>3. plan[g].id = plan[h].id
      BY <3>1, <3>2, <2>4, <1>6
    <3> QED BY <3>1, <3>2, <3>3 DEF Inv, IdsFresh
  <2> QED BY <2>2, <2>3, <2>4, <1>8 DEF IdsFresh
<1>12. ASSUME AllForward PROVE DependsOnEarlier(plan')
  <2> SUFFICES ASSUME NEW i \in DOMAIN plan', NEW d \in plan'[i].deps
               PROVE  \E j \in DOMAIN plan' : j < i /\ plan'[j].id = d
    BY DEF DependsOnEarlier
  <2>1. \A h \in DOMAIN plan : \A e \in plan[h].deps :
          \E j \in DOMAIN plan : j < h /\ plan[j].id = e
    BY <1>12 DEF Inv, DependsOnEarlier
  <2>2. CASE i = k
    <3>1. PICK j \in DOMAIN plan : j < k /\ plan[j].id = d
      BY <2>1, <2>2, <1>4, <1>8
    <3>2. j \in DOMAIN plan' /\ plan'[j] = plan[j]
      BY <3>1, <1>1, <1>2, <1>3
    <3> QED BY <2>2, <3>1, <3>2
  <2>3. CASE i = now(k)
    <3>1. plan'[i] = failed
      BY <2>3, <1>1, <1>2, <1>10
    <3>2. d = fix.id
      BY <3>1, <1>5
    <3>3. k < i
      BY <2>3, <1>1, <1>10
    <3> QED BY <3>2, <3>3, <1>8
  <2>4. ASSUME NEW h \in DOMAIN plan, h # k, i = now(h)
        PROVE  \E j \in DOMAIN plan' : j < i /\ plan'[j].id = d
    <3>1. PICK j \in DOMAIN plan : j < h /\ plan[j].id = d
      BY <2>1, <2>4, <1>6
    <3>2. now(j) \in DOMAIN plan' /\ now(j) < i /\ plan'[now(j)].id = d
      BY <3>1, <2>4, <1>6, <1>9
    <3> QED BY <3>2
  <2> QED BY <1>7, <2>2, <2>3, <2>4
<1>13. Done(plan) \subseteq Done(plan')
  <2> SUFFICES ASSUME NEW i \in DOMAIN plan, plan[i].status = "completed"
               PROVE  plan[i].id \in Done(plan')
    BY DEF Done
  <2>1. now(i) \in DOMAIN plan' /\ plan'[now(i)] = plan[i]
    BY <1>6
  <2> QED BY <2>1 DEF Done
<1>14. Ordered(plan')
  <2> SUFFICES ASSUME NEW i \in DOMAIN plan',
                      plan'[i].status \in {"running", "completed"}
               PROVE  plan'[i].deps \subseteq Done(plan')
    BY DEF Ordered
  <2>1. i # k
    BY <1>4, <1>8
  <2>2. PICK h \in DOMAIN plan : i = now(h)
    BY <2>1, <1>7
  <2>3. h # k
    BY <2>2, <1>1, <1>2, <1>5, <1>10
  <2>4. plan'[i] = plan[h]
    BY <2>2, <2>3, <1>6
  <2>5. plan[h].deps \subseteq Done(plan)
    BY <2>4 DEF Inv, Ordered
  <2> QED BY <2>4, <2>5, <1>13
<1> QED BY <1>2, <1>11, <1>12, <1>14

\* The plan made of a draft: nothing in it has been tried yet.
LEMMA FreshPlan ==
  ASSUME NEW d \in Drafts
  PROVE  /\ PlanOf(d) \in Seq(Task) /\ PlanOf(d) # <<>>
         /\ IdsFresh(PlanOf(d)) /\ Ordered(PlanOf(d))
         /\ AllForward => DependsOnEarlier(PlanOf(d))
         /\ \A i \in DOMAIN PlanOf(d) : /\ PlanOf(d)[i].status = "pending"
                                        /\ PlanOf(d)[i].attempts = 0
<1> DEFINE p == PlanOf(d)
<1>1. /\ d \in Seq([tool : ToolNames, args : BOOLEAN, deps : SUBSET Nat])
      /\ d # <<>>
  BY DraftAssumption DEF Draft
<1>2. Len(d) \in Nat /\ DOMAIN d = 1..Len(d) /\ Len(d) # 0
  BY <1>1, LenProperties, EmptySeq
<1>3. DOMAIN p = 1..Len(d)
  BY <1>2 DEF PlanOf
<1>4. ASSUME NEW i \in 1..Len(d)
      PROVE  /\ p[i] \in Task /\ p[i].id = i /\ p[i].deps = d[i].deps
             /\ p[i].status = "pending" /\ p[i].attempts = 0
  <2>1. d[i] \in [tool : ToolNames, args : BOOLEAN, deps : SUBSET Nat]
    BY <1>1, ElementOfSeq
  <2>2. p[i] = NewTask(i, d[i].tool, d[i].args, d[i].deps, 0)
    BY <1>2 DEF PlanOf
  <2> QED BY <2>1, <2>2, <1>2 DEF NewTask, Task, TaskStatus
<1>5. p = [i \in 1..Len(d) |-> p[i]]
  BY <1>2 DEF PlanOf
<1>6. p \in Seq(Task) /\ Len(p) = Len(d)
  <2> HIDE DEF p
  <2>1. p \in [1..Len(d) -> Task]
    BY <1>4, <1>5
  <2>2. p \in Seq(Task)
    BY <1>2, <2>1, SeqDef
  <2>3. Len(p) \in Nat /\ 1..Len(p) = 1..Len(d)
    BY <1>3, <2>2, LenProperties
  <2> QED BY <2>2, <2>3, <1>2
<1>7. AllForward => \A i \in 1..Len(d) : d[i].deps \subseteq 1..(i - 1)
  BY <1>2 DEF AllForward, ForwardDraft
<1> HIDE DEF p
<1>8. p # <<>>
  BY <1>2, <1>6
<1>9. IdsFresh(p)
  BY <1>2, <1>3, <1>4, <1>6 DEF IdsFresh
<1>10. Ordered(p)
  BY <1>3, <1>4 DEF Ordered
<1>11. AllForward => DependsOnEarlier(p)
  <2> SUFFICES ASSUME AllForward, NEW i \in DOMAIN p, NEW e \in p[i].deps
               PROVE  \E j \in DOMAIN p : j < i /\ p[j].id = e
    BY DEF DependsOnEarlier
  <2>1. e \in 1..(i - 1)
    BY <1>3, <1>4, <1>7
  <2>2. e \in 1..Len(d) /\ e < i /\ p[e].id = e
    BY <2>1, <1>2, <1>3, <1>4
  <2> QED BY <2>2, <1>3
<1> QED BY <1>3, <1>4, <1>6, <1>8, <1>9, <1>10, <1>11 DEF p

\* From its selection to the decision about it, the current task is the one
\* that _execute, _observe and _decide find under its id.
LEMMA TaskInHand ==
  ASSUME Inv, node \in InHand
  PROVE  LET k == At(plan, current)
         IN /\ k \in DOMAIN plan /\ plan[k] \in Task
            /\ plan[k].id = current /\ plan[k].status = "running"
            /\ plan[k].deps \subseteq Done(plan)
            /\ \A i \in DOMAIN plan :
                 i # k => plan[i].status \in {"pending", "completed"}
<1> DEFINE k == At(plan, current)
<1>1. PICK j \in DOMAIN plan : plan[j].id = current /\ plan[j].status = "running"
  BY DEF Inv, OneRunning
<1>2. k \in DOMAIN plan /\ plan[k].id = current
  BY <1>1 DEF At
<1>3. k = j
  BY <1>1, <1>2 DEF Inv, IdsFresh
<1>4. plan[k] \in Task
  BY <1>2, ElementOfSeq, LenProperties DEF Inv, TypeOK
<1>5. plan[k].deps \subseteq Done(plan)
  BY <1>1, <1>3 DEF Inv, Ordered
<1>6. ASSUME NEW i \in DOMAIN plan, i # k
      PROVE  plan[i].status \in {"pending", "completed"}
  <2>1. plan[i].id # current
    BY <1>2, <1>6 DEF Inv, IdsFresh
  <2> QED BY <2>1 DEF Inv, OneRunning
<1> QED BY <1>1, <1>2, <1>3, <1>4, <1>5, <1>6

\* If tasks depend on earlier ones only, the first unfinished one is ready.
LEMMA SomethingReady ==
  ASSUME Inv, AllForward, node = "SELECT_NEXT", ~IsComplete(plan)
  PROVE  Ready(plan) # {}
<1> DEFINE open == {i \in DOMAIN plan : plan[i].status # "completed"}
<1>1. plan \in Seq(Task) /\ Len(plan) \in Nat /\ DOMAIN plan = 1..Len(plan)
  BY LenProperties DEF Inv, TypeOK
<1>2. \A i \in DOMAIN plan : plan[i].status \in {"pending", "completed"}
  BY DEF Inv, OneRunning, InHand
<1>3. open \in SUBSET Nat /\ open # {}
  BY <1>1, <1>2 DEF IsComplete
<1> DEFINE k == Min(open)
<1>4. k \in open /\ \A i \in open : k <= i
  BY <1>3, MinProperties
<1> HIDE DEF k
<1>5. ASSUME NEW e \in plan[k].deps PROVE e \in Done(plan)
  <2>1. PICK j \in DOMAIN plan : j < k /\ plan[j].id = e
    BY <1>4 DEF Inv, DependsOnEarlier
  <2>2. j \notin open
    BY <2>1, <1>1, <1>4
  <2> QED BY <2>1, <2>2 DEF Done
<1>6. k \in Ready(plan)
  BY <1>2, <1>4, <1>5 DEF Ready
<1> QED BY <1>6

-----------------------------------------------------------------------------
(* Every action keeps the invariant.                                       *)

LEMMA InitInv == Init => Inv
<1> SUFFICES ASSUME Init PROVE Inv
  OBVIOUS
<1>1. TypeOK
  <2>1. /\ plan \in Seq(Task)
        /\ announced \in Seq({"OBJECTIVE_COMPLETED", "OBJECTIVE_FAILED"})
        /\ lessons \in Seq([outcome : RunStatus, verified : BOOLEAN])
    BY EmptySeq DEF Init
  <2>2. report \in [status : RunStatus, verified : BOOLEAN]
    BY DEF Init, NoReport, RunStatus
  <2> QED BY <2>1, <2>2 DEF Init, TypeOK, Nodes, RunStatus
<1>2. IdsFresh(plan) /\ DependsOnEarlier(plan) /\ Ordered(plan)
  BY EmptySeq DEF Init, IdsFresh, DependsOnEarlier, Ordered
<1>3. OneRunning /\ ResultsKnown /\ StatusFits
  BY DEF Init, OneRunning, ResultsKnown, StatusFits, InHand
<1>4. CompletedIsEarned /\ EndConsistent
  BY DEF Init, CompletedIsEarned, EndConsistent
<1> QED BY <1>1, <1>2, <1>3, <1>4 DEF Inv

LEMMA ResumeInv ==
  ASSUME Inv, NEW tools \in SUBSET Registered, Resume(tools)
  PROVE  Inv'
<1>1. UNCHANGED <<plan, current, revisions, report, asked, verified, announced,
                  lessons>>
  BY DEF Resume, task, outcome
<1>2. TypeOK'
  BY <1>1 DEF Inv, TypeOK, Resume, Nodes, RunStatus
<1>3. /\ IdsFresh(plan') /\ Ordered(plan')
      /\ AllForward => DependsOnEarlier(plan')
  BY <1>1 DEF Inv
<1>4. OneRunning' /\ ResultsKnown'
  BY <1>1 DEF Inv, OneRunning, ResultsKnown, InHand, Resume
<1>5. StatusFits'
  BY <1>1 DEF Inv, StatusFits, Resume, IsComplete
<1>6. CompletedIsEarned' /\ EndConsistent'
  BY <1>1 DEF Inv, CompletedIsEarned, EndConsistent, StatusFits, Announcement,
              IsComplete, Resume
<1> QED BY <1>2, <1>3, <1>4, <1>5, <1>6 DEF Inv

LEMMA ReturnInv ==
  ASSUME Inv, Return
  PROVE  Inv'
<1>1. UNCHANGED <<node, steps, drives, plan, current, revisions, approved, asked,
                  verified, announced, lessons>>
  BY DEF Return, task, human, outcome
<1>2. TypeOK'
  BY <1>1 DEF Inv, TypeOK, Return, RunStatus
<1>3. /\ IdsFresh(plan') /\ Ordered(plan')
      /\ AllForward => DependsOnEarlier(plan')
  BY <1>1 DEF Inv
<1>4. OneRunning' /\ ResultsKnown'
  BY <1>1 DEF Inv, OneRunning, ResultsKnown
<1>5. StatusFits'
  BY <1>1 DEF Inv, StatusFits, Return, IsComplete
<1>6. CompletedIsEarned' /\ EndConsistent'
  BY <1>1 DEF Inv, CompletedIsEarned, EndConsistent, StatusFits, Announcement,
              IsComplete, Return
<1> QED BY <1>2, <1>3, <1>4, <1>5, <1>6 DEF Inv

\* An exception in a handler, whatever it did to the plan before.
LEMMA FailInv ==
  ASSUME Inv, node # "END", FailFromException,
         plan' \in Seq(Task), IdsFresh(plan'), Ordered(plan'),
         AllForward => DependsOnEarlier(plan'),
         \A i \in DOMAIN plan' :
           plan'[i].status = "completed" /\ plan'[i].tool \in Registered =>
             plan'[i].result \in Successes,
         steps' = steps + 1,
         UNCHANGED <<driving, drives, report, current, revisions, human>>
  PROVE  Inv'
<1>1. /\ node' = "END" /\ status' = "failed" /\ verified' = verified
      /\ announced' = <<"OBJECTIVE_FAILED">>
      /\ \/ lessons' = <<>>
         \/ lessons' = <<[outcome |-> "failed", verified |-> FALSE]>>
  BY DEF FailFromException, Inv, StatusFits
<1>2. TypeOK'
  <2>1. announced' \in Seq({"OBJECTIVE_COMPLETED", "OBJECTIVE_FAILED"})
    BY <1>1
  <2> DEFINE Lesson == [outcome : RunStatus, verified : BOOLEAN]
             failure == [outcome |-> "failed", verified |-> FALSE]
  <2>2. failure \in Lesson
    BY DEF RunStatus
  <2>3. lessons' = <<>> \/ lessons' = <<failure>>
    BY <1>1
  <2> HIDE DEF failure, Lesson
  <2>4. lessons' \in Seq(Lesson)
    <3>1. CASE lessons' = <<>>
      BY <3>1, EmptySeq
    <3>2. CASE lessons' = <<failure>>
      <4> <<failure>> \in Seq(Lesson)
        BY <2>2
      <4> QED BY <3>2
    <3> QED BY <2>3, <3>1, <3>2
  <2> QED BY <1>1, <2>1, <2>4 DEF Inv, TypeOK, human, Nodes, RunStatus, Lesson
<1>3. OneRunning' /\ ResultsKnown' /\ StatusFits'
  BY <1>1 DEF OneRunning, ResultsKnown, StatusFits, InHand
<1>4. CompletedIsEarned' /\ EndConsistent'
  BY <1>1 DEF CompletedIsEarned, EndConsistent, Announcement
<1> QED BY <1>2, <1>3, <1>4 DEF Inv

LEMMA UnderstandInv ==
  ASSUME Inv, Understand
  PROVE  Inv'
<1>1. /\ node = "UNDERSTAND" /\ steps' = steps + 1
      /\ UNCHANGED <<driving, drives, report, plan, current, revisions, human>>
  BY DEF Understand, Turn, task
<1>2. CASE FailFromException
  BY <1>1, <1>2, FailInv DEF Inv, TypeOK, ResultsKnown
<1>3. CASE node' = "CREATE_PLAN" /\ UNCHANGED <<status, outcome>>
  <2>1. TypeOK'
    BY <1>1, <1>3 DEF Inv, TypeOK, human, outcome, Nodes
  <2>2. /\ IdsFresh(plan') /\ Ordered(plan')
        /\ AllForward => DependsOnEarlier(plan')
    BY <1>1 DEF Inv
  <2>3. OneRunning' /\ ResultsKnown' /\ StatusFits'
    BY <1>1, <1>3 DEF Inv, OneRunning, ResultsKnown, StatusFits, InHand, outcome
  <2>4. CompletedIsEarned' /\ EndConsistent'
    BY <1>1, <1>3 DEF Inv, CompletedIsEarned, EndConsistent, StatusFits
  <2> QED BY <2>1, <2>2, <2>3, <2>4 DEF Inv
<1> QED BY <1>2, <1>3 DEF Understand

LEMMA CreatePlanInv ==
  ASSUME Inv, CreatePlan
  PROVE  Inv'
<1>1. /\ node = "CREATE_PLAN" /\ steps' = steps + 1
      /\ UNCHANGED <<driving, drives, report, current, revisions, human>>
  BY DEF CreatePlan, Turn
<1>2. ASSUME FailFromException, plan' = plan
      PROVE  Inv'
  BY <1>1, <1>2, FailInv DEF Inv, TypeOK, ResultsKnown
<1>3. ASSUME FailFromException, NEW d \in Drafts, plan' = PlanOf(d)
      PROVE  Inv'
  BY <1>1, <1>3, FailInv, FreshPlan
<1>4. ASSUME NEW d \in Drafts, plan' = PlanOf(d), node' = "SELECT_NEXT",
             UNCHANGED <<status, outcome>>
      PROVE  Inv'
  <2>1. /\ plan' \in Seq(Task) /\ plan' # <<>>
        /\ IdsFresh(plan') /\ Ordered(plan')
        /\ AllForward => DependsOnEarlier(plan')
        /\ \A i \in DOMAIN plan' : plan'[i].status = "pending"
    BY <1>4, FreshPlan
  <2>2. TypeOK'
    BY <1>1, <1>4, <2>1 DEF Inv, TypeOK, human, outcome, Nodes
  <2>3. OneRunning' /\ ResultsKnown' /\ StatusFits'
    BY <1>1, <1>4, <2>1
       DEF Inv, OneRunning, ResultsKnown, StatusFits, InHand, outcome
  <2>4. CompletedIsEarned' /\ EndConsistent'
    BY <1>1, <1>4 DEF Inv, CompletedIsEarned, EndConsistent, StatusFits
  <2> QED BY <2>1, <2>2, <2>3, <2>4 DEF Inv
<1> QED BY <1>2, <1>3, <1>4 DEF CreatePlan

LEMMA SelectNextInv ==
  ASSUME Inv, SelectNext
  PROVE  Inv'
<1>1. /\ node = "SELECT_NEXT" /\ steps' = steps + 1
      /\ UNCHANGED <<driving, drives, report, human, outcome>>
      /\ status # "awaiting_approval" /\ status # "completed"
      /\ status = "blocked" => ~AllForward
      /\ announced = <<>> /\ lessons = <<>>
  BY DEF SelectNext, Turn, Inv, StatusFits
<1>2. CASE AllDone
  <2>1. /\ node' = "VERIFY" /\ IsComplete(plan)
        /\ UNCHANGED <<status, plan, current, revisions>>
    BY <1>2 DEF AllDone, task
  <2>2. TypeOK'
    BY <1>1, <2>1 DEF Inv, TypeOK, human, outcome, Nodes
  <2>3. OneRunning' /\ ResultsKnown'
    BY <1>1, <2>1 DEF Inv, OneRunning, ResultsKnown, InHand
  <2>4. StatusFits'
    BY <1>1, <2>1 DEF Inv, StatusFits, IsComplete, SelectNext, Turn, outcome
  <2>5. CompletedIsEarned' /\ EndConsistent'
    BY <1>1, <2>1 DEF CompletedIsEarned, EndConsistent
  <2> QED BY <2>1, <2>2, <2>3, <2>4, <2>5 DEF Inv
<1>3. CASE NothingRunnable
  <2>1. /\ node' = "STORE_MEMORY" /\ ~IsComplete(plan) /\ Ready(plan) = {}
        /\ status' \in {"failed", "blocked"}
        /\ UNCHANGED <<plan, current, revisions>>
    BY <1>3 DEF NothingRunnable, task
  <2>2. ~AllForward
    BY <1>1, <2>1, SomethingReady
  <2>3. TypeOK'
    BY <1>1, <2>1 DEF Inv, TypeOK, human, outcome, Nodes, RunStatus
  <2>4. OneRunning' /\ ResultsKnown'
    BY <1>1, <2>1 DEF Inv, OneRunning, ResultsKnown, InHand
  <2>5. StatusFits'
    BY <1>1, <2>1, <2>2 DEF StatusFits, outcome
  <2>6. CompletedIsEarned' /\ EndConsistent'
    BY <1>1, <2>1 DEF CompletedIsEarned, EndConsistent
  <2> QED BY <2>1, <2>3, <2>4, <2>5, <2>6 DEF Inv
<1>4. CASE StartTask
  <2> DEFINE k == Min(Ready(plan))
             t == [plan[k] EXCEPT !.status = "running"]
  <2>1. plan \in Seq(Task) /\ Len(plan) \in Nat /\ DOMAIN plan = 1..Len(plan)
    BY LenProperties DEF Inv, TypeOK
  <2>2. k \in Ready(plan)
    <3> Ready(plan) \in SUBSET Nat /\ Ready(plan) # {}
      BY <1>4, <2>1 DEF Ready, StartTask
    <3> QED BY MinProperties
  <2>3. /\ node' = "EXECUTE" /\ current' = plan[k].id
        /\ plan' = [plan EXCEPT ![k].status = "running"]
        /\ UNCHANGED <<status, revisions>>
    BY <1>4 DEF StartTask
  <2> HIDE DEF k
  <2>4. /\ k \in DOMAIN plan /\ plan[k] \in Task
        /\ plan[k].status = "pending" /\ plan[k].deps \subseteq Done(plan)
    BY <2>1, <2>2 DEF Ready
  <2>5. /\ t \in Task /\ t.id = plan[k].id /\ t.deps = plan[k].deps
        /\ t.status = "running" /\ plan' = [plan EXCEPT ![k] = t]
    BY <2>3, <2>4 DEF Task, TaskStatus
  <2> HIDE DEF t
  <2>6. /\ plan' \in Seq(Task) /\ Len(plan') = Len(plan)
        /\ DOMAIN plan' = DOMAIN plan
        /\ \A i \in DOMAIN plan : plan'[i] = IF i = k THEN t ELSE plan[i]
        /\ IdsFresh(plan') /\ Ordered(plan')
        /\ AllForward => DependsOnEarlier(plan')
    BY <2>4, <2>5, PlanUpdate
  <2>7. TypeOK'
    <3> current' \in Nat
      BY <2>3, <2>4 DEF Task
    <3> QED BY <1>1, <2>3, <2>6 DEF Inv, TypeOK, human, outcome, Nodes
  <2>8. OneRunning'
    <3>1. plan' # <<>>
      BY <1>1, <2>1, <2>4, <2>6, EmptySeq
    <3>2. plan'[k].id = current' /\ plan'[k].status = "running"
      BY <2>3, <2>4, <2>5, <2>6
    <3>3. ASSUME NEW i \in DOMAIN plan', i # k
          PROVE  plan'[i].status \in {"pending", "completed"}
      BY <3>3, <1>1, <2>6 DEF Inv, OneRunning, InHand
    <3> QED BY <2>3, <2>4, <2>6, <3>1, <3>2, <3>3 DEF OneRunning, InHand
  <2>9. ResultsKnown'
    BY <2>3, <2>5, <2>6 DEF Inv, ResultsKnown
  <2>10. StatusFits'
    BY <1>1, <2>3 DEF Inv, StatusFits, outcome, SelectNext, Turn
  <2>11. CompletedIsEarned' /\ EndConsistent'
    BY <1>1, <2>3 DEF CompletedIsEarned, EndConsistent
  <2> QED BY <2>6, <2>7, <2>8, <2>9, <2>10, <2>11 DEF Inv
<1> QED BY <1>2, <1>3, <1>4 DEF SelectNext

LEMMA ExecuteInv ==
  ASSUME Inv, Execute
  PROVE  Inv'
<1> DEFINE k == At(plan, current)
<1>1. /\ node = "EXECUTE" /\ steps' = steps + 1
      /\ UNCHANGED <<driving, drives, report, current, revisions, outcome>>
      /\ status # "awaiting_approval" /\ status # "completed"
      /\ announced = <<>> /\ lessons = <<>>
      /\ status = "blocked" => ~AllForward
  BY DEF Execute, Turn, Inv, StatusFits
<1>2. /\ k \in DOMAIN plan /\ plan[k] \in Task
      /\ plan[k].id = current /\ plan[k].status = "running"
      /\ plan[k].deps \subseteq Done(plan)
      /\ \A i \in DOMAIN plan :
           i # k => plan[i].status \in {"pending", "completed"}
  BY <1>1, TaskInHand DEF InHand
<1>3. plan # <<>>
  BY <1>1 DEF Inv, OneRunning, InHand
<1>4. ExecuteNothing(k) \/ ExecuteGated(k) \/ ExecuteTool(k)
  BY DEF Execute
<1> HIDE DEF k
<1>5. CASE ExecuteGated(k)
  <2>1. /\ node' = "EXECUTE" /\ status' = "awaiting_approval" /\ plan' = plan
        /\ asked' \in Registered /\ approved' = approved
    BY <1>1, <1>5 DEF ExecuteGated
  <2>2. TypeOK'
    BY <1>1, <2>1 DEF Inv, TypeOK, outcome, RunStatus
  <2>3. OneRunning' /\ ResultsKnown'
    BY <1>1, <2>1 DEF Inv, OneRunning, ResultsKnown, InHand
  <2>4. StatusFits' /\ CompletedIsEarned' /\ EndConsistent'
    BY <1>1, <2>1 DEF StatusFits, CompletedIsEarned, EndConsistent, outcome
  <2> QED BY <2>1, <2>2, <2>3, <2>4 DEF Inv
<1>6. CASE ExecuteNothing(k)
  <2> DEFINE t == [plan[k] EXCEPT !.status = "completed"]
  <2>1. /\ plan[k].tool \notin Registered
        /\ node' = "SELECT_NEXT" /\ UNCHANGED <<status, human>>
    BY <1>6 DEF ExecuteNothing
  <2>2. /\ t \in Task /\ t.id = plan[k].id /\ t.deps = plan[k].deps
        /\ t.tool = plan[k].tool
        /\ t.status = "completed" /\ plan' = [plan EXCEPT ![k] = t]
    BY <1>2, <1>6 DEF ExecuteNothing, Task, TaskStatus
  <2> HIDE DEF t
  <2>3. /\ plan' \in Seq(Task) /\ Len(plan') = Len(plan)
        /\ DOMAIN plan' = DOMAIN plan
        /\ \A i \in DOMAIN plan : plan'[i] = IF i = k THEN t ELSE plan[i]
        /\ IdsFresh(plan') /\ Ordered(plan')
        /\ AllForward => DependsOnEarlier(plan')
    BY <1>2, <2>2, PlanUpdate
  <2>4. TypeOK'
    BY <1>1, <2>1, <2>3 DEF Inv, TypeOK, human, outcome, Nodes
  <2>5. OneRunning'
    <3>1. plan' # <<>>
      BY <1>2, <2>3, EmptySeq
    <3>2. \A i \in DOMAIN plan' : plan'[i].status \in {"pending", "completed"}
      BY <1>2, <2>2, <2>3
    <3> QED BY <2>1, <3>1, <3>2 DEF OneRunning, InHand
  <2>6. ResultsKnown'
    BY <2>1, <2>2, <2>3 DEF Inv, ResultsKnown
  <2>7. StatusFits' /\ CompletedIsEarned' /\ EndConsistent'
    BY <1>1, <2>1 DEF Inv, StatusFits, CompletedIsEarned, EndConsistent, outcome
  <2> QED BY <2>3, <2>4, <2>5, <2>6, <2>7 DEF Inv
<1>7. CASE ExecuteTool(k)
  <2>1. PICK r \in Outcomes(plan[k]) :
          plan' = [plan EXCEPT ![k].attempts = @ + 1, ![k].result = r]
    BY <1>7 DEF ExecuteTool
  <2>2. /\ plan[k].tool \in Registered
        /\ node' = "OBSERVE" /\ UNCHANGED <<status, human>>
    BY <1>7 DEF ExecuteTool
  <2>3. r \in Results
    <3>1. ToolResults[plan[k].tool] \in SUBSET Results
      BY <2>2, ToolAssumption
    <3> QED BY <2>1, <3>1 DEF Outcomes, Results, Failures
  <2> DEFINE t == [plan[k] EXCEPT !.attempts = @ + 1, !.result = r]
  <2>4. /\ t \in Task /\ t.id = plan[k].id /\ t.deps = plan[k].deps
        /\ t.status = "running" /\ t.result = r
        /\ plan' = [plan EXCEPT ![k] = t]
    <3> DEFINE tried == [plan[k] EXCEPT !.attempts = @ + 1]
    <3>1. tried \in Task
      BY <1>2 DEF Task
    <3>2. t = [tried EXCEPT !.result = r]
      BY <1>2 DEF Task
    <3>3. t \in Task
      <4> HIDE DEF tried, t
      <4> QED BY <2>3, <3>1, <3>2 DEF Task
    <3>4. t \in Task /\ t.id = plan[k].id /\ t.deps = plan[k].deps
      BY <1>2, <3>3 DEF Task
    <3>5. t.status = "running" /\ t.result = r
      BY <1>2 DEF Task
    <3>6. plan' = [plan EXCEPT ![k] = t]
      BY <2>1
    <3> QED BY <3>4, <3>5, <3>6
  <2> HIDE DEF t
  <2>5. /\ plan' \in Seq(Task) /\ Len(plan') = Len(plan)
        /\ DOMAIN plan' = DOMAIN plan
        /\ \A i \in DOMAIN plan : plan'[i] = IF i = k THEN t ELSE plan[i]
        /\ IdsFresh(plan') /\ Ordered(plan')
        /\ AllForward => DependsOnEarlier(plan')
    BY <1>2, <2>4, PlanUpdate
  <2>6. TypeOK'
    BY <1>1, <2>2, <2>5 DEF Inv, TypeOK, human, outcome, Nodes
  <2>7. OneRunning'
    <3>1. plan' # <<>>
      BY <1>2, <2>5, EmptySeq
    <3>2. plan'[k].id = current' /\ plan'[k].status = "running"
      BY <1>1, <1>2, <2>4, <2>5
    <3>3. \A i \in DOMAIN plan' :
            i # k => plan'[i].status \in {"pending", "completed"}
      BY <1>2, <2>5
    <3> QED BY <1>2, <2>2, <2>5, <3>1, <3>2, <3>3 DEF OneRunning, InHand
  <2>8. ResultsKnown'
    <3>1. \A i \in DOMAIN plan' : plan'[i].id = current' => i = k
      BY <1>1, <1>2, <2>4, <2>5 DEF Inv, IdsFresh
    <3> QED BY <2>2, <2>3, <2>4, <2>5, <3>1 DEF Inv, ResultsKnown
  <2>9. StatusFits' /\ CompletedIsEarned' /\ EndConsistent'
    BY <1>1, <2>2 DEF Inv, StatusFits, CompletedIsEarned, EndConsistent, outcome
  <2> QED BY <2>5, <2>6, <2>7, <2>8, <2>9 DEF Inv
<1> QED BY <1>4, <1>5, <1>6, <1>7

LEMMA ObserveInv ==
  ASSUME Inv, Observe
  PROVE  Inv'
<1> DEFINE k == At(plan, current)
           ok == plan[k].result \in Successes
           t == [plan[k] EXCEPT !.status = "completed"]
<1>1. /\ node = "OBSERVE" /\ steps' = steps + 1
      /\ UNCHANGED <<driving, drives, report, current, revisions, human>>
      /\ status # "awaiting_approval" /\ status # "completed"
      /\ announced = <<>> /\ lessons = <<>>
      /\ status = "blocked" => ~AllForward
  BY DEF Observe, Turn, Inv, StatusFits
<1>2. /\ k \in DOMAIN plan /\ plan[k] \in Task
      /\ plan[k].id = current /\ plan[k].status = "running"
      /\ plan[k].deps \subseteq Done(plan)
      /\ \A i \in DOMAIN plan :
           i # k => plan[i].status \in {"pending", "completed"}
  BY <1>1, TaskInHand DEF InHand
<1>3. plan # <<>>
  BY <1>1 DEF Inv, OneRunning, InHand
<1>4. /\ plan' = IF ok THEN [plan EXCEPT ![k].status = "completed"] ELSE plan
      /\ \/ /\ node' = IF ok THEN "SELECT_NEXT" ELSE "DECIDE"
            /\ UNCHANGED <<status, outcome>>
         \/ FailFromException
  BY DEF Observe
<1>5. plan[k].result \in Results
  BY <1>1, <1>2 DEF Inv, ResultsKnown
<1>6. /\ t \in Task /\ t.id = plan[k].id /\ t.deps = plan[k].deps
      /\ t.status = "completed" /\ t.result = plan[k].result
      /\ [plan EXCEPT ![k].status = "completed"] = [plan EXCEPT ![k] = t]
  BY <1>2 DEF Task, TaskStatus
<1> HIDE DEF k, t
<1>7. CASE ok
  <2>1. /\ plan' \in Seq(Task) /\ Len(plan') = Len(plan)
        /\ DOMAIN plan' = DOMAIN plan
        /\ \A i \in DOMAIN plan : plan'[i] = IF i = k THEN t ELSE plan[i]
        /\ IdsFresh(plan') /\ Ordered(plan')
        /\ AllForward => DependsOnEarlier(plan')
    BY <1>2, <1>4, <1>6, <1>7, PlanUpdate
  <2>2. \A i \in DOMAIN plan' :
          plan'[i].status = "completed" /\ plan'[i].tool \in Registered =>
            plan'[i].result \in Successes
    BY <1>6, <1>7, <2>1 DEF Inv, ResultsKnown
  <2>3. CASE FailFromException
    BY <1>1, <2>1, <2>2, <2>3, FailInv
  <2>4. CASE node' = "SELECT_NEXT" /\ UNCHANGED <<status, outcome>>
    <3>1. TypeOK'
      BY <1>1, <2>1, <2>4 DEF Inv, TypeOK, human, outcome, Nodes
    <3>2. OneRunning'
      <4>1. plan' # <<>>
        BY <1>2, <2>1, EmptySeq
      <4>2. \A i \in DOMAIN plan' : plan'[i].status \in {"pending", "completed"}
        BY <1>2, <1>6, <2>1
      <4> QED BY <2>4, <4>1, <4>2 DEF OneRunning, InHand
    <3>3. ResultsKnown'
      BY <2>2, <2>4 DEF ResultsKnown
    <3>4. StatusFits' /\ CompletedIsEarned' /\ EndConsistent'
      BY <1>1, <2>4 DEF Inv, StatusFits, CompletedIsEarned, EndConsistent, outcome
    <3> QED BY <2>1, <3>1, <3>2, <3>3, <3>4 DEF Inv
  <2> QED BY <1>4, <1>7, <2>3, <2>4
<1>8. CASE ~ok
  <2>1. plan' = plan /\ plan[k].result \in Failures
    BY <1>4, <1>5, <1>8 DEF Results
  <2>2. CASE FailFromException
    BY <1>1, <2>1, <2>2, FailInv DEF Inv, TypeOK, ResultsKnown
  <2>3. CASE node' = "DECIDE" /\ UNCHANGED <<status, outcome>>
    <3>1. TypeOK'
      BY <1>1, <2>1, <2>3 DEF Inv, TypeOK, human, outcome, Nodes
    <3>2. OneRunning'
      BY <1>1, <2>1, <2>3 DEF Inv, OneRunning, InHand
    <3>3. ResultsKnown'
      <4>1. \A i \in DOMAIN plan : plan[i].id = current => i = k
        BY <1>2 DEF Inv, IdsFresh
      <4> QED BY <1>1, <1>5, <2>1, <2>3, <4>1 DEF Inv, ResultsKnown
    <3>4. StatusFits' /\ CompletedIsEarned' /\ EndConsistent'
      BY <1>1, <2>1, <2>3
         DEF Inv, StatusFits, CompletedIsEarned, EndConsistent, outcome
    <3> QED BY <2>1, <3>1, <3>2, <3>3, <3>4 DEF Inv
  <2> QED BY <1>4, <1>8, <2>2, <2>3
<1> QED BY <1>7, <1>8

LEMMA DecideInv ==
  ASSUME Inv, Decide
  PROVE  Inv'
<1> DEFINE k == At(plan, current)
<1>1. /\ node = "DECIDE" /\ steps' = steps + 1
      /\ UNCHANGED <<driving, drives, report, current, outcome>>
      /\ status # "awaiting_approval" /\ status # "completed"
      /\ announced = <<>> /\ lessons = <<>>
      /\ status = "blocked" => ~AllForward
  BY DEF Decide, Turn, Inv, StatusFits
<1>2. /\ k \in DOMAIN plan /\ plan[k] \in Task
      /\ plan[k].id = current /\ plan[k].status = "running"
      /\ plan[k].deps \subseteq Done(plan)
      /\ \A i \in DOMAIN plan :
           i # k => plan[i].status \in {"pending", "completed"}
  BY <1>1, TaskInHand DEF InHand
<1>3. plan # <<>>
  BY <1>1 DEF Inv, OneRunning, InHand
<1>4. Retry(k) \/ Replan(k) \/ Escalate(k) \/ Abort(k)
  BY DEF Decide
<1> HIDE DEF k
<1>5. CASE Escalate(k)
  <2>1. /\ node' = "EXECUTE" /\ status' = "awaiting_approval" /\ plan' = plan
        /\ asked' = NoTool /\ UNCHANGED <<approved, revisions>>
    BY <1>5 DEF Escalate
  <2>2. TypeOK'
    BY <1>1, <2>1 DEF Inv, TypeOK, outcome, Nodes, RunStatus
  <2>3. OneRunning' /\ ResultsKnown'
    BY <1>1, <2>1 DEF Inv, OneRunning, ResultsKnown, InHand
  <2>4. StatusFits' /\ CompletedIsEarned' /\ EndConsistent'
    BY <1>1, <2>1 DEF StatusFits, CompletedIsEarned, EndConsistent, outcome
  <2> QED BY <2>1, <2>2, <2>3, <2>4 DEF Inv
<1>6. CASE Replan(k)
  <2>1. /\ node' = "SELECT_NEXT" /\ plan' = Revise(plan, k)
        /\ revisions' = revisions + 1 /\ UNCHANGED <<status, human>>
    BY <1>6 DEF Replan
  <2>2. /\ plan' \in Seq(Task) /\ Len(plan') = Len(plan) + 1
        /\ IdsFresh(plan') /\ Ordered(plan')
        /\ AllForward => DependsOnEarlier(plan')
    BY <1>2, <2>1, PlanRevision
  <2>3. plan \in Seq(Task) /\ Len(plan) \in Nat /\ DOMAIN plan = 1..Len(plan)
    BY LenProperties DEF Inv, TypeOK
  \* A task of the new plan is new, reset or an old one.
  <2>4. ASSUME NEW i \in DOMAIN plan'
        PROVE  \/ plan'[i].status = "pending"
               \/ \E j \in DOMAIN plan : j # k /\ plan'[i] = plan[j]
    <3>1. i \in 1..(Len(plan) + 1)
      BY <2>2, LenProperties
    <3>2. /\ i < k => plan'[i] = plan[i]
          /\ i = k => plan'[i] = Remediation(plan, k)
          /\ i = k + 1 => plan'[i] = Reset(plan, k)
          /\ i > k + 1 => plan'[i] = plan[i - 1]
      BY <1>2, <2>1, <2>3, <3>1, ReviseElement
    <3>3. Remediation(plan, k).status = "pending"
      BY DEF Remediation, NewTask
    <3>4. Reset(plan, k).status = "pending"
      BY <1>2 DEF Reset, Task
    <3>5. i < k => i \in DOMAIN plan /\ i # k
      BY <1>2, <2>3, <3>1
    <3>6. i > k + 1 => i - 1 \in DOMAIN plan /\ i - 1 # k
      BY <1>2, <2>3, <3>1
    <3>7. i < k \/ i = k \/ i = k + 1 \/ i > k + 1
      BY <1>2, <2>3, <3>1
    <3> QED BY <3>2, <3>3, <3>4, <3>5, <3>6, <3>7
  <2>5. TypeOK'
    BY <1>1, <2>1, <2>2 DEF Inv, TypeOK, human, outcome, Nodes
  <2>6. OneRunning'
    <3>1. plan' # <<>>
      BY <2>2, <2>3, EmptySeq
    <3>2. \A i \in DOMAIN plan' : plan'[i].status \in {"pending", "completed"}
      BY <1>2, <2>4
    <3> QED BY <2>1, <3>1, <3>2 DEF OneRunning, InHand
  <2>7. ResultsKnown'
    BY <2>1, <2>4 DEF Inv, ResultsKnown
  <2>8. StatusFits' /\ CompletedIsEarned' /\ EndConsistent'
    BY <1>1, <2>1 DEF Inv, StatusFits, CompletedIsEarned, EndConsistent, outcome
  <2> QED BY <2>2, <2>5, <2>6, <2>7, <2>8 DEF Inv
<1>7. CASE Retry(k)
  <2> DEFINE t == [plan[k] EXCEPT !.status = "pending"]
  <2>1. node' = "SELECT_NEXT" /\ UNCHANGED <<status, revisions, human>>
    BY <1>7 DEF Retry
  <2>2. /\ t \in Task /\ t.id = plan[k].id /\ t.deps = plan[k].deps
        /\ t.status = "pending" /\ plan' = [plan EXCEPT ![k] = t]
    BY <1>2, <1>7 DEF Retry, Task, TaskStatus
  <2> HIDE DEF t
  <2>3. /\ plan' \in Seq(Task) /\ Len(plan') = Len(plan)
        /\ DOMAIN plan' = DOMAIN plan
        /\ \A i \in DOMAIN plan : plan'[i] = IF i = k THEN t ELSE plan[i]
        /\ IdsFresh(plan') /\ Ordered(plan')
        /\ AllForward => DependsOnEarlier(plan')
    BY <1>2, <2>2, PlanUpdate
  <2>4. TypeOK'
    BY <1>1, <2>1, <2>3 DEF Inv, TypeOK, human, outcome, Nodes
  <2>5. OneRunning'
    <3>1. plan' # <<>>
      BY <1>2, <2>3, EmptySeq
    <3>2. \A i \in DOMAIN plan' : plan'[i].status \in {"pending", "completed"}
      BY <1>2, <2>2, <2>3
    <3> QED BY <2>1, <3>1, <3>2 DEF OneRunning, InHand
  <2>6. ResultsKnown'
    BY <2>1, <2>2, <2>3 DEF Inv, ResultsKnown
  <2>7. StatusFits' /\ CompletedIsEarned' /\ EndConsistent'
    BY <1>1, <2>1 DEF Inv, StatusFits, CompletedIsEarned, EndConsistent, outcome
  <2> QED BY <2>3, <2>4, <2>5, <2>6, <2>7 DEF Inv
<1>8. CASE Abort(k)
  <2> DEFINE t == [plan[k] EXCEPT !.status = "failed"]
  <2>1. /\ node' = "STORE_MEMORY" /\ status' = "failed"
        /\ UNCHANGED <<revisions, human>>
    BY <1>8 DEF Abort
  <2>2. /\ t \in Task /\ t.id = plan[k].id /\ t.deps = plan[k].deps
        /\ t.status = "failed" /\ plan' = [plan EXCEPT ![k] = t]
    BY <1>2, <1>8 DEF Abort, Task, TaskStatus
  <2> HIDE DEF t
  <2>3. /\ plan' \in Seq(Task) /\ Len(plan') = Len(plan)
        /\ DOMAIN plan' = DOMAIN plan
        /\ \A i \in DOMAIN plan : plan'[i] = IF i = k THEN t ELSE plan[i]
        /\ IdsFresh(plan') /\ Ordered(plan')
        /\ AllForward => DependsOnEarlier(plan')
    BY <1>2, <2>2, PlanUpdate
  <2>4. TypeOK'
    BY <1>1, <2>1, <2>3 DEF Inv, TypeOK, human, outcome, Nodes, RunStatus
  <2>5. OneRunning'
    BY <2>1 DEF OneRunning, InHand
  <2>6. ResultsKnown'
    BY <2>1, <2>2, <2>3 DEF Inv, ResultsKnown
  <2>7. StatusFits' /\ CompletedIsEarned' /\ EndConsistent'
    BY <1>1, <2>1 DEF StatusFits, CompletedIsEarned, EndConsistent, outcome
  <2> QED BY <2>3, <2>4, <2>5, <2>6, <2>7 DEF Inv
<1> QED BY <1>4, <1>5, <1>6, <1>7, <1>8

LEMMA VerifyInv ==
  ASSUME Inv, Verify
  PROVE  Inv'
<1>1. /\ node = "VERIFY" /\ steps' = steps + 1 /\ node' = "STORE_MEMORY"
      /\ UNCHANGED <<driving, drives, report, plan, current, revisions, human,
                     announced, lessons>>
  BY DEF Verify, Turn, task
<1>2. PICK smoke \in SmokeChecks(plan) :
        verified' = (IsComplete(plan) /\ TestsPassed(plan) /\ smoke)
  BY DEF Verify
<1>3. smoke \in BOOLEAN
  BY DEF SmokeChecks
<1>4. verified' \in BOOLEAN
  BY <1>2, <1>3, Zenon
<1>5. status' = IF verified' THEN "completed" ELSE "failed"
  BY DEF Verify
<1>6. TypeOK'
  <2>1. status' \in RunStatus /\ node' \in Nodes
    BY <1>1, <1>5 DEF RunStatus, Nodes
  <2> QED BY <1>1, <1>4, <2>1 DEF Inv, TypeOK, human
<1>7. OneRunning' /\ ResultsKnown'
  BY <1>1 DEF Inv, OneRunning, ResultsKnown, InHand
<1>8. StatusFits'
  BY <1>1, <1>5 DEF Inv, StatusFits
<1>9. CompletedIsEarned'
  <2> SUFFICES ASSUME status' = "completed"
               PROVE  /\ verified' /\ plan # <<>> /\ IsComplete(plan)
                      /\ \A i \in DOMAIN plan :
                           plan[i].tool \in Registered =>
                             plan[i].result \in Successes
    BY <1>1 DEF CompletedIsEarned
  <2>1. verified'
    BY <1>5
  <2>2. plan # <<>> /\ IsComplete(plan)
    BY <1>1 DEF Inv, OneRunning, StatusFits, InHand
  <2>3. \A i \in DOMAIN plan : plan[i].status = "completed"
    BY <1>1, <2>2 DEF Inv, OneRunning, InHand, IsComplete
  <2> QED BY <2>1, <2>2, <2>3 DEF Inv, ResultsKnown
<1>10. EndConsistent'
  BY <1>1 DEF EndConsistent
<1> QED BY <1>1, <1>6, <1>7, <1>8, <1>9, <1>10 DEF Inv

LEMMA StoreMemoryInv ==
  ASSUME Inv, StoreMemory
  PROVE  Inv'
<1>1. /\ node = "STORE_MEMORY" /\ steps' = steps + 1
      /\ UNCHANGED <<driving, drives, report, plan, current, revisions, human>>
      /\ status # "running" /\ status # "awaiting_approval"
      /\ announced = <<>> /\ lessons = <<>>
  BY DEF StoreMemory, Turn, task, Inv, StatusFits
<1>2. CASE FailFromException
  BY <1>1, <1>2, FailInv DEF Inv, TypeOK, ResultsKnown
<1>3. CASE /\ lessons' = Append(lessons, [outcome |-> status, verified |-> verified])
           /\ announced' = announced \o Announcement(status)
           /\ node' = "END"
           /\ UNCHANGED <<status, verified>>
  <2> DEFINE Lesson == [outcome : RunStatus, verified : BOOLEAN]
             lesson == [outcome |-> status, verified |-> verified]
             Ends == {"OBJECTIVE_COMPLETED", "OBJECTIVE_FAILED"}
  <2>1. lesson \in Lesson /\ lesson.outcome = status
    BY DEF Inv, TypeOK
  <2>2. lessons' = <<lesson>>
    BY <1>1, <1>3
  <2>3. lessons' \in Seq(Lesson) /\ Len(lessons') = 1 /\ lessons'[1].outcome = status
    <3> HIDE DEF lesson, Lesson
    <3> QED BY <2>1, <2>2
  <2>4. Announcement(status) \in Seq(Ends)
    <3>1. <<>> \in Seq(Ends)
      BY EmptySeq
    <3>2. \A e \in Ends : <<e>> \in Seq(Ends)
      OBVIOUS
    <3>3. /\ <<"OBJECTIVE_COMPLETED">> \in Seq(Ends)
          /\ <<"OBJECTIVE_FAILED">> \in Seq(Ends)
      BY <3>2
    <3> HIDE DEF Ends
    <3> QED BY <3>1, <3>3 DEF Announcement
  <2>5. announced' = Announcement(status)
    BY <1>1, <1>3, <2>4, ConcatEmptySeq
  <2>6. TypeOK'
    BY <1>1, <1>3, <2>3, <2>4, <2>5 DEF Inv, TypeOK, human, Nodes
  <2>7. OneRunning' /\ ResultsKnown' /\ StatusFits'
    BY <1>1, <1>3 DEF Inv, OneRunning, ResultsKnown, StatusFits, InHand
  <2>8. CompletedIsEarned'
    BY <1>1, <1>3 DEF Inv, CompletedIsEarned, IsComplete
  <2>9. EndConsistent'
    BY <1>3, <2>3, <2>5 DEF EndConsistent
  <2> QED BY <1>1, <2>6, <2>7, <2>8, <2>9 DEF Inv
<1> QED BY <1>2, <1>3 DEF StoreMemory

LEMMA NextInv == Inv /\ [Next]_vars => Inv'
<1> SUFFICES ASSUME Inv, [Next]_vars PROVE Inv'
  OBVIOUS
<1>1. ASSUME NEW tools \in SUBSET Registered, Resume(tools) PROVE Inv'
  BY <1>1, ResumeInv
<1>2. CASE Handler
  BY <1>2, UnderstandInv, CreatePlanInv, SelectNextInv, ExecuteInv, ObserveInv,
     DecideInv, VerifyInv, StoreMemoryInv DEF Handler
<1>3. CASE Return
  BY <1>3, ReturnInv
<1>4. CASE UNCHANGED vars
  BY <1>4 DEF vars, task, call, human, outcome, Inv, TypeOK, OneRunning,
     ResultsKnown, StatusFits, CompletedIsEarned, EndConsistent, IsComplete
<1> QED BY <1>1, <1>2, <1>3, <1>4 DEF Next

-----------------------------------------------------------------------------
(* The theorems.                                                           *)

\* The strengthening of the safety properties is an invariant.
THEOREM Invariance == Spec => []Inv
BY InitInv, NextInv, PTL DEF Spec

\* AgentState and the attributes of the manager objects keep their types.
THEOREM TypeCorrect == Spec => []TypeOK
<1>1. Inv => TypeOK
  BY DEF Inv
<1> QED BY <1>1, Invariance, PTL

\* No task runs, or counts as done, before everything it depends on is done,
\* for any draft, cyclic ones included, and however the plan is revised.
THEOREM OrderIsRespected == Spec => []OrderRespected
<1>1. Inv => OrderRespected
  BY DEF Inv, Ordered, OrderRespected
<1> QED BY <1>1, Invariance, PTL

\* With drafts whose tasks depend on earlier ones only, _select_next never
\* takes the exit "no runnable task (dependency deadlock)".
THEOREM NeverBlocked == Spec => []NoDependencyDeadlock
<1>1. Inv => NoDependencyDeadlock
  BY DEF Inv, StatusFits, NoDependencyDeadlock, AllForward
<1> QED BY <1>1, Invariance, PTL

\* The assertions in _observe and _decide hold, and _execute always finds its
\* task.
THEOREM TaskAlwaysPresent == Spec => []CurrentTaskPresent
<1>1. Inv => CurrentTaskPresent
  <2> SUFFICES ASSUME Inv, node \in InHand
               PROVE  /\ Holds(plan, current)
                      /\ node \in {"OBSERVE", "DECIDE"} =>
                           plan[At(plan, current)].result # "none"
    BY DEF CurrentTaskPresent, InHand
  <2> DEFINE k == At(plan, current)
  <2>1. k \in DOMAIN plan /\ plan[k].id = current
    BY TaskInHand
  <2> HIDE DEF k
  <2>2. "none" \notin Results
    BY DEF Results, Successes, Failures
  <2>3. node \in {"OBSERVE", "DECIDE"} => plan[k].result # "none"
    BY <2>1, <2>2 DEF Inv, ResultsKnown
  <2> QED BY <2>1, <2>3 DEF Holds, k
<1> QED BY <1>1, Invariance, PTL

\* A run is never COMPLETED without the verifier's consent, an unfinished task
\* or a tool whose last call failed.
THEOREM CompletionIsEarned == Spec => []CompletedIsEarned
<1>1. Inv => CompletedIsEarned
  BY DEF Inv
<1> QED BY <1>1, Invariance, PTL

\* Exactly one terminal event, in agreement with the status and the lesson,
\* has been published when the run is at END.
THEOREM EndIsConsistent == Spec => []EndConsistent
<1>1. Inv => EndConsistent
  BY DEF Inv
<1> QED BY <1>1, Invariance, PTL

-----------------------------------------------------------------------------
(* What a step may do to the plan.                                         *)

\* Two versions of one task.
SameTask(t, u) ==
  /\ t.id = u.id /\ t.tool = u.tool /\ t.args = u.args
  /\ t.deps = u.deps /\ t.fixes = u.fixes

\* A step writes the status, the attempts and the result of one task that is
\* not completed: it is picked up, tried, done, to be tried again or given up.
Rewritten(k, t) ==
  /\ t \in Task /\ SameTask(t, plan[k])
  /\ plan[k].status # "completed" /\ status # "awaiting_approval"
  /\ plan[k].id = IF node = "SELECT_NEXT" THEN current' ELSE current
  /\ t.attempts =
       plan[k].attempts + IF node' = "OBSERVE" THEN 1 ELSE 0
  /\ \/ /\ node = "SELECT_NEXT" /\ node' = "EXECUTE"
        /\ plan[k].status = "pending" /\ t.status = "running"
     \/ node = "EXECUTE" /\ node' = "OBSERVE" /\ t.status = "running"
     \/ /\ node \in {"EXECUTE", "OBSERVE"} /\ node' \in {"SELECT_NEXT", "END"}
        /\ t.status = "completed"
     \/ /\ node = "DECIDE" /\ node' = "SELECT_NEXT"
        /\ t.status = "pending" /\ Decision(plan[k]) = "RETRY"
     \/ node = "DECIDE" /\ node' = "STORE_MEMORY" /\ t.status = "failed"
  /\ plan' = [plan EXCEPT ![k] = t]

\* The plan is made, has one task rewritten, or is revised for the task in
\* hand; nothing else happens to it.
PlanStep ==
  \/ /\ plan' = plan /\ revisions' = revisions
     /\ node = "SELECT_NEXT" => node' # "EXECUTE"
     /\ node = "EXECUTE" => node' = "EXECUTE"
     /\ node = "OBSERVE" => node' \in {"OBSERVE", "DECIDE", "END"}
     /\ node = "DECIDE" => node' \in {"DECIDE", "EXECUTE"}
  \/ /\ plan = <<>> /\ node = "CREATE_PLAN" /\ node' \in {"SELECT_NEXT", "END"}
     /\ revisions' = revisions
     /\ \E d \in Drafts : plan' = PlanOf(d)
  \/ /\ revisions' = revisions
     /\ \E k \in DOMAIN plan : \E t : Rewritten(k, t)
  \/ \E k \in DOMAIN plan :
       /\ plan[k].status # "completed" /\ plan[k].id = current
       /\ node = "DECIDE" /\ node' = "SELECT_NEXT"
       /\ Decision(plan[k]) = "REPLAN"
       /\ plan' = Revise(plan, k) /\ revisions' = revisions + 1

LEMMA StepOfPlan == Inv /\ [Next]_vars => PlanStep
<1> SUFFICES ASSUME Inv, [Next]_vars PROVE PlanStep
  OBVIOUS
<1> DEFINE k == At(plan, current)
<1>1. node \in InHand =>
        /\ k \in DOMAIN plan /\ plan[k] \in Task
        /\ plan[k].id = current /\ plan[k].status = "running"
  BY TaskInHand
\* A step that gives the task in hand another status.
<1>2. ASSUME node \in InHand, NEW s \in TaskStatus,
             plan' = [plan EXCEPT ![k].status = s],
             status # "awaiting_approval", revisions' = revisions,
             \/ /\ node = "DECIDE" /\ node' = "SELECT_NEXT"
                /\ s = "pending" /\ Decision(plan[k]) = "RETRY"
             \/ node = "DECIDE" /\ node' = "STORE_MEMORY" /\ s = "failed"
             \/ /\ node \in {"EXECUTE", "OBSERVE"} /\ s = "completed"
                /\ node' \in {"SELECT_NEXT", "END"}
      PROVE  PlanStep
  <2> DEFINE t == [plan[k] EXCEPT !.status = s]
  <2>1. /\ t \in Task /\ t.status = s /\ t.attempts = plan[k].attempts
        /\ SameTask(t, plan[k])
    BY <1>1, <1>2 DEF Task, SameTask
  <2>2. plan' = [plan EXCEPT ![k] = t] /\ plan[k].attempts \in Nat
    BY <1>1, <1>2 DEF Task
  <2>3. /\ k \in DOMAIN plan /\ plan[k].id = current
        /\ plan[k].status = "running" /\ revisions' = revisions
        /\ node # "SELECT_NEXT" /\ node' # "OBSERVE"
        /\ status # "awaiting_approval"
    BY <1>1, <1>2
  <2>4. \/ /\ node = "DECIDE" /\ node' = "SELECT_NEXT"
           /\ t.status = "pending" /\ Decision(plan[k]) = "RETRY"
        \/ node = "DECIDE" /\ node' = "STORE_MEMORY" /\ t.status = "failed"
        \/ /\ node \in {"EXECUTE", "OBSERVE"} /\ t.status = "completed"
           /\ node' \in {"SELECT_NEXT", "END"}
    BY <1>2, <2>1
  <2> HIDE DEF t, k
  <2>5. Rewritten(k, t)
    BY <2>1, <2>2, <2>3, <2>4 DEF Rewritten
  <2> QED BY <2>3, <2>5 DEF PlanStep
<1>3. CASE CreatePlan
  <2>1. plan = <<>> /\ node = "CREATE_PLAN" /\ node' \in {"SELECT_NEXT", "END"}
    BY <1>3 DEF CreatePlan, Turn, Inv, OneRunning, FailFromException
  <2> QED BY <1>3, <2>1 DEF CreatePlan, PlanStep
<1>4. CASE SelectNext
  <2>1. ASSUME StartTask PROVE PlanStep
    <3> DEFINE m == Min(Ready(plan))
               t == [plan[m] EXCEPT !.status = "running"]
    <3>1. plan \in Seq(Task) /\ Len(plan) \in Nat /\ DOMAIN plan = 1..Len(plan)
      BY LenProperties DEF Inv, TypeOK
    <3>2. Ready(plan) \in SUBSET Nat /\ Ready(plan) # {}
      BY <2>1, <3>1 DEF Ready, StartTask
    <3>3. m \in DOMAIN plan /\ plan[m].status = "pending"
      BY <3>2, MinProperties DEF Ready
    <3>4. plan' = [plan EXCEPT ![m] = t]
      BY <2>1 DEF StartTask
    <3> HIDE DEF m
    <3>5. plan[m] \in Task
      BY <3>1, <3>3, ElementOfSeq
    <3>6. /\ t \in Task /\ t.status = "running" /\ t.attempts = plan[m].attempts
          /\ SameTask(t, plan[m])
      BY <3>5 DEF Task, TaskStatus, SameTask
    <3>7. /\ node = "SELECT_NEXT" /\ node' = "EXECUTE"
          /\ status # "awaiting_approval"
          /\ current' = plan[m].id /\ revisions' = revisions
      BY <1>4, <2>1 DEF SelectNext, Turn, StartTask, m
    <3>9. plan[m].attempts \in Nat
      BY <3>5 DEF Task
    <3> HIDE DEF t
    <3>8. Rewritten(m, t)
      BY <3>3, <3>4, <3>6, <3>7, <3>9 DEF Rewritten
    <3> QED BY <3>3, <3>7, <3>8 DEF PlanStep
  <2>2. /\ node = "SELECT_NEXT"
        /\ StartTask \/ (UNCHANGED task /\ node' # "EXECUTE")
    BY <1>4 DEF SelectNext, Turn, AllDone, NothingRunnable
  <2> QED BY <2>1, <2>2 DEF task, PlanStep
<1>5. CASE Execute
  <2>1. /\ node = "EXECUTE" /\ node \in InHand
        /\ status # "awaiting_approval" /\ revisions' = revisions
    BY <1>5 DEF Execute, Turn, InHand
  <2>2. CASE ExecuteNothing(k)
    BY <1>2, <2>1, <2>2 DEF ExecuteNothing, TaskStatus
  <2>3. CASE ExecuteGated(k)
    BY <2>1, <2>3 DEF ExecuteGated, PlanStep
  <2>4. CASE ExecuteTool(k)
    <3>1. PICK r \in Outcomes(plan[k]) :
            plan' = [plan EXCEPT ![k].attempts = @ + 1, ![k].result = r]
      BY <2>4 DEF ExecuteTool
    <3>2. r \in Results
      <4>1. plan[k].tool \in Registered
        BY <2>4 DEF ExecuteTool
      <4>2. ToolResults[plan[k].tool] \subseteq Results
        BY <4>1, ToolAssumption
      <4> QED BY <3>1, <4>2 DEF Outcomes, Results, Failures
    <3> DEFINE t == [plan[k] EXCEPT !.attempts = @ + 1, !.result = r]
    <3>3. /\ t \in Task /\ t.status = "running"
          /\ t.attempts = plan[k].attempts + 1
          /\ SameTask(t, plan[k])
      <4> DEFINE tried == [plan[k] EXCEPT !.attempts = @ + 1]
      <4>1. plan[k] \in Task /\ plan[k].status = "running"
        BY <1>1, <2>1
      <4> HIDE DEF k
      <4>2. /\ tried \in Task /\ tried.status = "running"
            /\ tried.attempts = plan[k].attempts + 1
            /\ SameTask(tried, plan[k])
        BY <4>1 DEF Task, SameTask
      <4>3. t = [tried EXCEPT !.result = r]
        BY <4>1 DEF Task
      <4> HIDE DEF tried, t
      <4> QED BY <3>2, <4>2, <4>3 DEF Task, SameTask
    <3>4. plan' = [plan EXCEPT ![k] = t]
      BY <1>1, <2>1, <3>1 DEF Task
    <3> HIDE DEF t, k
    <3>5. node' = "OBSERVE"
      BY <2>4 DEF ExecuteTool
    <3>6. Rewritten(k, t)
      BY <1>1, <2>1, <3>3, <3>4, <3>5 DEF Rewritten
    <3> QED BY <1>1, <2>1, <3>6 DEF PlanStep
  <2> QED BY <1>5, <2>2, <2>3, <2>4 DEF Execute
<1>6. CASE Observe
  <2>1. /\ node = "OBSERVE" /\ node \in InHand
        /\ status # "awaiting_approval" /\ revisions' = revisions
    BY <1>6 DEF Observe, Turn, InHand
  <2>2. \/ plan' = plan /\ node' \in {"DECIDE", "END"}
        \/ /\ plan' = [plan EXCEPT ![k].status = "completed"]
           /\ node' \in {"SELECT_NEXT", "END"}
    BY <1>6 DEF Observe, FailFromException
  <2>3. CASE plan' = plan /\ node' \in {"DECIDE", "END"}
    BY <2>1, <2>3 DEF PlanStep
  <2> QED BY <1>2, <2>1, <2>2, <2>3 DEF TaskStatus
<1>7. CASE Decide
  <2>1. node = "DECIDE" /\ node \in InHand /\ status # "awaiting_approval"
    BY <1>7 DEF Decide, Turn, InHand
  <2>2. CASE Retry(k)
    BY <1>2, <2>1, <2>2 DEF Retry, TaskStatus
  <2>3. CASE Escalate(k)
    BY <2>1, <2>3 DEF Escalate, PlanStep
  <2>4. CASE Abort(k)
    BY <1>2, <2>1, <2>4 DEF Abort, TaskStatus
  <2>5. CASE Replan(k)
    <3> HIDE DEF k
    <3> QED BY <1>1, <2>1, <2>5 DEF Replan, PlanStep
  <2> QED BY <1>7, <2>2, <2>3, <2>4, <2>5 DEF Decide
<1>8. ASSUME \/ \E tools \in SUBSET Registered : Resume(tools)
             \/ Return \/ Understand \/ Verify \/ StoreMemory \/ UNCHANGED vars
      PROVE  PlanStep
  BY <1>8 DEF Resume, Return, Understand, Verify, StoreMemory, Turn, vars, task,
     PlanStep
<1> QED BY <1>3, <1>4, <1>5, <1>6, <1>7, <1>8 DEF Next, Handler

\* What a rewritten task leaves alone.
LEMMA RewrittenFields ==
  ASSUME Inv, NEW k \in DOMAIN plan, NEW t, Rewritten(k, t)
  PROVE  /\ SameTask(t, plan[k])
         /\ DOMAIN plan' = DOMAIN plan /\ Len(plan') = Len(plan)
         /\ plan'[k] = t
         /\ \A i \in DOMAIN plan : i # k => plan'[i] = plan[i]
<1>1. plan \in Seq(Task)
  BY DEF Inv, TypeOK
<1>3. t \in Task /\ plan' = [plan EXCEPT ![k] = t]
  BY DEF Rewritten
<1>4. /\ Len(plan') = Len(plan) /\ DOMAIN plan' = DOMAIN plan
      /\ \A i \in DOMAIN plan : plan'[i] = IF i = k THEN t ELSE plan[i]
  BY <1>1, <1>3, ExceptSeq
<1> QED BY <1>4 DEF Rewritten

\* Where a revision leaves the tasks of a plan.
Moved(k, i) == IF i < k THEN i ELSE i + 1

LEMMA RevisionMoves ==
  ASSUME NEW p \in Seq(Task), NEW k \in DOMAIN p
  PROVE  LET q == Revise(p, k)
         IN /\ DOMAIN p = 1..Len(p) /\ Len(p) \in Nat
            /\ DOMAIN q = 1..(Len(p) + 1)
            /\ \A i \in DOMAIN p :
                 /\ Moved(k, i) \in DOMAIN q /\ Moved(k, i) # k
                 /\ q[Moved(k, i)] = IF i = k THEN Reset(p, k) ELSE p[i]
            /\ \A i, j \in DOMAIN p :
                 /\ Moved(k, i) = Moved(k, j) => i = j
                 /\ i < j => Moved(k, i) < Moved(k, j)
            /\ \A j \in DOMAIN q :
                 j = k \/ \E i \in DOMAIN p : j = Moved(k, i)
            /\ k \in DOMAIN q /\ q[k] = Remediation(p, k)
<1> DEFINE q == Revise(p, k)
<1>1. DOMAIN p = 1..Len(p) /\ Len(p) \in Nat
  BY LenProperties
<1>2. DOMAIN q = 1..(Len(p) + 1)
  <2>1. q \in Seq(Task) /\ Len(q) = Len(p) + 1
    BY ReviseProperties
  <2> HIDE DEF q
  <2> QED BY <2>1, LenProperties
<1>3. \A i \in 1..(Len(p) + 1) :
        /\ i < k => q[i] = p[i]
        /\ i = k => q[i] = Remediation(p, k)
        /\ i = k + 1 => q[i] = Reset(p, k)
        /\ i > k + 1 => q[i] = p[i - 1]
  BY ReviseElement
<1> HIDE DEF q
<1>4. ASSUME NEW i \in DOMAIN p
      PROVE  /\ Moved(k, i) \in DOMAIN q /\ Moved(k, i) # k
             /\ q[Moved(k, i)] = IF i = k THEN Reset(p, k) ELSE p[i]
  <2>1. CASE i < k
    BY <1>1, <1>2, <1>3, <2>1 DEF Moved
  <2>2. CASE i = k
    BY <1>1, <1>2, <1>3, <2>2 DEF Moved
  <2>3. CASE i > k
    <3>1. i + 1 \in 1..(Len(p) + 1) /\ i + 1 > k + 1 /\ (i + 1) - 1 = i
      BY <1>1, <2>3
    <3>2. q[i + 1] = p[(i + 1) - 1]
      BY <1>3, <3>1
    <3> QED BY <1>1, <1>2, <2>3, <3>1, <3>2 DEF Moved
  <2> QED BY <1>1, <2>1, <2>2, <2>3
<1>5. \A i, j \in DOMAIN p : /\ Moved(k, i) = Moved(k, j) => i = j
                             /\ i < j => Moved(k, i) < Moved(k, j)
  BY <1>1 DEF Moved
<1>6. ASSUME NEW j \in DOMAIN q
      PROVE  j = k \/ \E i \in DOMAIN p : j = Moved(k, i)
  <2>1. CASE j < k
    BY <1>1, <1>2, <2>1 DEF Moved
  <2>2. CASE j > k
    <3> j - 1 \in DOMAIN p /\ ~(j - 1 < k) /\ (j - 1) + 1 = j
      BY <1>1, <1>2, <2>2
    <3> QED BY DEF Moved
  <2> QED BY <1>1, <1>2, <2>1, <2>2
<1>7. k \in DOMAIN q /\ q[k] = Remediation(p, k)
  BY <1>1, <1>2, <1>3
<1> QED BY <1>1, <1>2, <1>4, <1>5, <1>6, <1>7 DEF q

-----------------------------------------------------------------------------
(* No work is lost.                                                        *)

LEMMA AtPosition ==
  ASSUME NEW p, IdsFresh(p), NEW i \in DOMAIN p
  PROVE  Holds(p, p[i].id) /\ At(p, p[i].id) = i
<1>1. Holds(p, p[i].id)
  BY DEF Holds
<1>2. At(p, p[i].id) \in DOMAIN p /\ p[At(p, p[i].id)].id = p[i].id
  BY DEF At
<1> QED BY <1>1, <1>2 DEF IdsFresh

NoWorkLost ==
  /\ \A i \in DOMAIN plan : Holds(plan', plan[i].id)
  /\ \A i, j \in DOMAIN plan :
       i < j => At(plan', plan[i].id) < At(plan', plan[j].id)
  /\ \A i \in DOMAIN plan :
       plan[i].status = "completed" => plan'[At(plan', plan[i].id)] = plan[i]

\* It is enough to say where each task of the plan has gone.
LEMMA KeptByMoving ==
  ASSUME IdsFresh(plan'), NEW to \in [DOMAIN plan -> DOMAIN plan'],
         \A i \in DOMAIN plan : plan'[to[i]].id = plan[i].id,
         \A i, j \in DOMAIN plan : i < j => to[i] < to[j],
         \A i \in DOMAIN plan :
           plan[i].status = "completed" => plan'[to[i]] = plan[i]
  PROVE  NoWorkLost
<1>1. ASSUME NEW i \in DOMAIN plan
      PROVE  Holds(plan', plan[i].id) /\ At(plan', plan[i].id) = to[i]
  <2>1. to[i] \in DOMAIN plan' /\ plan'[to[i]].id = plan[i].id
    OBVIOUS
  <2> QED BY <2>1, AtPosition
<1> QED BY <1>1 DEF NoWorkLost

LEMMA StepKeepsWork == Inv /\ [Next]_vars => NoWorkLost
<1> SUFFICES ASSUME Inv, [Next]_vars PROVE NoWorkLost
  OBVIOUS
<1>1. IdsFresh(plan) /\ IdsFresh(plan') /\ plan \in Seq(Task)
  BY NextInv DEF Inv, TypeOK
<1>2. CASE plan' = plan
  <2> DEFINE to == [i \in DOMAIN plan |-> i]
  <2>1. /\ to \in [DOMAIN plan -> DOMAIN plan']
        /\ \A i \in DOMAIN plan : to[i] = i
    BY <1>2
  <2> HIDE DEF to
  <2> QED BY <1>1, <1>2, <2>1, KeptByMoving
<1>3. CASE plan = <<>>
  BY <1>3 DEF NoWorkLost
<1>4. ASSUME NEW k \in DOMAIN plan, NEW t, Rewritten(k, t)
      PROVE  NoWorkLost
  <2> DEFINE to == [i \in DOMAIN plan |-> i]
  <2>1. /\ t.id = plan[k].id /\ DOMAIN plan' = DOMAIN plan /\ plan'[k] = t
        /\ \A i \in DOMAIN plan : i # k => plan'[i] = plan[i]
    BY <1>4, RewrittenFields DEF SameTask
  <2>2. /\ to \in [DOMAIN plan -> DOMAIN plan']
        /\ \A i \in DOMAIN plan : to[i] = i
    BY <2>1
  <2>3. plan[k].status # "completed"
    BY <1>4 DEF Rewritten
  <2>4. \A i \in DOMAIN plan : plan'[i].id = plan[i].id
    BY <2>1
  <2> HIDE DEF to
  <2> QED BY <1>1, <2>1, <2>2, <2>3, <2>4, KeptByMoving
<1>5. ASSUME NEW k \in DOMAIN plan, plan[k].status # "completed",
             plan' = Revise(plan, k)
      PROVE  NoWorkLost
  <2> DEFINE to == [i \in DOMAIN plan |-> Moved(k, i)]
  <2>1. \A i \in DOMAIN plan : to[i] = Moved(k, i)
    OBVIOUS
  <2>2. to \in [DOMAIN plan -> DOMAIN plan']
    BY <1>1, <1>5, RevisionMoves
  <2>3. Reset(plan, k).id = plan[k].id
    <3>1. plan[k] \in Task
      BY <1>1
    <3> QED BY <3>1 DEF Reset, Task
  <2> HIDE DEF to
  <2>4. \A i \in DOMAIN plan :
          plan'[to[i]] = IF i = k THEN Reset(plan, k) ELSE plan[i]
    <3>1. \A i \in DOMAIN plan :
            Revise(plan, k)[Moved(k, i)] =
              IF i = k THEN Reset(plan, k) ELSE plan[i]
      BY <1>1, RevisionMoves
    <3> QED BY <1>5, <2>1, <3>1
  <2>5. \A i, j \in DOMAIN plan : i < j => to[i] < to[j]
    BY <1>1, <2>1, RevisionMoves
  <2>6. \A i \in DOMAIN plan :
          /\ plan'[to[i]].id = plan[i].id
          /\ plan[i].status = "completed" => plan'[to[i]] = plan[i]
    BY <1>5, <2>3, <2>4
  <2> QED BY <1>1, <2>2, <2>5, <2>6, KeptByMoving
<1> QED BY <1>2, <1>3, <1>4, <1>5, StepOfPlan DEF PlanStep

\* However often a plan is revised and retried, no task disappears or is
\* overtaken by one that was behind it, and a completed one is never touched.
THEOREM WorkIsKept == Spec => WorkKept
<1>1. Inv /\ [Next]_vars =>
        [/\ \A i \in DOMAIN plan : Holds(plan', plan[i].id)
         /\ \A i, j \in DOMAIN plan :
              i < j => At(plan', plan[i].id) < At(plan', plan[j].id)
         /\ \A i \in DOMAIN plan :
              plan[i].status = "completed" =>
                plan'[At(plan', plan[i].id)] = plan[i]]_vars
  BY StepKeepsWork DEF NoWorkLost
<1> QED BY <1>1, Invariance, PTL DEF Spec, WorkKept

-----------------------------------------------------------------------------
(* Recovery is bounded.                                                    *)

\* The positions of the tasks that were made to remedy one of a set of tasks.
Fixing(p, ids) == {i \in DOMAIN p : p[i].fixes \in ids}

LEMMA FixingFinite ==
  ASSUME NEW p \in Seq(Task), NEW ids
  PROVE  IsFiniteSet(Fixing(p, ids)) /\ Cardinality(Fixing(p, ids)) \in Nat
<1>1. IsFiniteSet(1..Len(p))
  BY LenProperties, FS_Interval
<1>2. Fixing(p, ids) \in SUBSET (1..Len(p))
  BY LenProperties DEF Fixing
<1> QED BY <1>1, <1>2, FS_Subset, FS_CardinalityType

\* A revision adds one remediation, and it is for the failed task.
LEMMA RevisionAddsOne ==
  ASSUME NEW p \in Seq(Task), NEW k \in DOMAIN p, NEW ids
  PROVE  Cardinality(Fixing(Revise(p, k), ids)) =
           Cardinality(Fixing(p, ids)) + IF p[k].id \in ids THEN 1 ELSE 0
<1> DEFINE old == Fixing(p, ids)
           moved == {Moved(k, i) : i \in old}
           f == [i \in old |-> Moved(k, i)]
           q == Revise(p, k)
<1>1. Remediation(p, k).fixes = p[k].id
  BY DEF Remediation, NewTask
<1>2. Reset(p, k).fixes = p[k].fixes
  <2>1. p[k] \in Task
    OBVIOUS
  <2> QED BY <2>1 DEF Reset, Task
<1>3. IsFiniteSet(old) /\ Cardinality(old) \in Nat
  BY FixingFinite
<1>4. old \subseteq DOMAIN p
  BY DEF Fixing
<1>5. ExistsBijection(old, moved)
  <2>1. \A i \in old : f[i] = Moved(k, i)
    OBVIOUS
  <2>2. f \in [old -> moved]
    OBVIOUS
  <2>3. \A i, j \in old : f[i] = f[j] => i = j
    BY <1>4, <2>1, RevisionMoves
  <2>4. \A m \in moved : \E i \in old : f[i] = m
    BY <2>1
  <2> HIDE DEF f, moved
  <2>5. f \in Bijection(old, moved)
    BY <2>2, <2>3, <2>4, Fun_IsBij
  <2> QED BY <2>5 DEF ExistsBijection
<1>6. IsFiniteSet(moved) /\ Cardinality(moved) = Cardinality(old)
  BY <1>3, <1>5, FS_Bijection
<1>7. k \notin moved
  BY <1>4, RevisionMoves
<1>8. \A i \in DOMAIN p :
        Moved(k, i) \in DOMAIN q /\ q[Moved(k, i)].fixes = p[i].fixes
  <2>1. \A i \in DOMAIN p :
          /\ Moved(k, i) \in DOMAIN q
          /\ q[Moved(k, i)] = IF i = k THEN Reset(p, k) ELSE p[i]
    BY RevisionMoves
  <2> QED BY <1>2, <2>1
<1>9. \A j \in DOMAIN q : j = k \/ \E i \in DOMAIN p : j = Moved(k, i)
  BY RevisionMoves
<1>10. k \in DOMAIN q /\ q[k].fixes = p[k].id
  BY <1>1, RevisionMoves
<1> HIDE DEF q
<1>11. Fixing(q, ids) = IF p[k].id \in ids THEN moved \cup {k} ELSE moved
  <2>1. \A j \in Fixing(q, ids) : j \in moved \/ (j = k /\ p[k].id \in ids)
    BY <1>8, <1>9, <1>10 DEF Fixing
  <2>2. moved \subseteq Fixing(q, ids)
    BY <1>8 DEF Fixing
  <2>3. p[k].id \in ids => k \in Fixing(q, ids)
    BY <1>10 DEF Fixing
  <2>4. CASE p[k].id \in ids
    BY <2>1, <2>2, <2>3, <2>4
  <2>5. CASE p[k].id \notin ids
    BY <2>1, <2>2, <2>5
  <2> QED BY <2>4, <2>5
<1> HIDE DEF moved, old
<1>12. Cardinality(moved \cup {k}) = Cardinality(moved) + 1
  BY <1>6, <1>7, FS_AddElement
<1>13. Cardinality(Fixing(q, ids)) =
         Cardinality(old) + IF p[k].id \in ids THEN 1 ELSE 0
  BY <1>3, <1>6, <1>11, <1>12
<1> QED BY <1>13 DEF q, old

\* How often a task may have been tried: for its retries, for each revision
\* made for it, and once for each call of resume().
Tries(p, calls, id) == MaxTaskRetries + Cardinality(Fixing(p, {id})) + calls

Within(p, calls, t) == t.attempts <= Tries(p, calls, t.id)
TryLeft(p, calls, t) == t.attempts < Tries(p, calls, t.id)

\* Every task is within its tries, and one that is about to be tried has a try
\* left: a retry is only decided within MaxTaskRetries, a revision and a
\* resumption both add one.
RecoveryInv ==
  /\ node # "START" => drives > 0
  /\ revisions <= MaxPlanRevisions
  /\ Cardinality(Fixing(plan, Nat \ {0})) = revisions
  /\ \A i \in DOMAIN plan :
       /\ Within(plan, drives, plan[i])
       /\ \/ plan[i].status = "pending"
          \/ /\ node = "EXECUTE" /\ status # "awaiting_approval"
             /\ plan[i].id = current
          => TryLeft(plan, drives, plan[i])

LEMMA RecoveryInvBounds == Inv /\ RecoveryInv => RecoveryBounded
<1> SUFFICES ASSUME Inv, RecoveryInv PROVE RecoveryBounded
  OBVIOUS
<1>1. \A i \in DOMAIN plan : plan[i].fixes \in Nat
  <2> SUFFICES ASSUME NEW i \in DOMAIN plan PROVE plan[i].fixes \in Nat
    OBVIOUS
  <2>1. plan[i] \in Task
    BY DEF Inv, TypeOK
  <2> QED BY <2>1 DEF Task
<1>2. {i \in DOMAIN plan : plan[i].fixes # 0} = Fixing(plan, Nat \ {0})
  BY <1>1 DEF Fixing
<1>3. \A id : Remedies(id) = Fixing(plan, {id})
  BY DEF Fixing, Remedies
<1> QED BY <1>2, <1>3 DEF RecoveryInv, RecoveryBounded, Within, Tries

LEMMA InitRecovery == Init => RecoveryInv
<1> SUFFICES ASSUME Init PROVE RecoveryInv
  OBVIOUS
<1>1. plan = <<>> /\ DOMAIN plan = {} /\ node = "START" /\ revisions = 0
  BY DEF Init
<1>2. Fixing(plan, Nat \ {0}) = {}
  BY <1>1 DEF Fixing
<1>3. Cardinality(Fixing(plan, Nat \ {0})) = 0
  BY <1>2, FS_EmptySet
<1>4. MaxPlanRevisions \in Nat
  BY LimitAssumption
<1> QED BY <1>1, <1>3, <1>4 DEF RecoveryInv

\* A plan nobody wrote a remediation into yet.
LEMMA NothingFixed ==
  ASSUME NEW d \in Drafts
  PROVE  Cardinality(Fixing(PlanOf(d), Nat \ {0})) = 0
<1>1. \A i \in DOMAIN PlanOf(d) : PlanOf(d)[i].fixes = 0
  BY DEF PlanOf, NewTask
<1>2. Fixing(PlanOf(d), Nat \ {0}) = {}
  BY <1>1 DEF Fixing
<1> QED BY <1>2, FS_EmptySet

LEMMA NextRecovery == Inv /\ RecoveryInv /\ [Next]_vars => RecoveryInv'
<1> SUFFICES ASSUME Inv, RecoveryInv, [Next]_vars PROVE RecoveryInv'
  OBVIOUS
<1>1. /\ plan \in Seq(Task) /\ drives \in Nat /\ revisions \in Nat
      /\ MaxTaskRetries \in Nat /\ MaxPlanRevisions \in Nat
      /\ \A i \in DOMAIN plan : plan[i] \in Task /\ plan[i].attempts \in Nat
                                /\ plan[i].id \in Nat
  <2>1. plan \in Seq(Task) /\ drives \in Nat /\ revisions \in Nat
    BY DEF Inv, TypeOK
  <2>2. \A i \in DOMAIN plan : plan[i] \in Task
    BY <2>1
  <2> QED BY <2>1, <2>2, LimitAssumption DEF Task
<1>2. ASSUME NEW ids PROVE Cardinality(Fixing(plan, ids)) \in Nat
  BY <1>1, FixingFinite
<1>3. ASSUME NEW id \in Nat
      PROVE  /\ Cardinality(Fixing(plan, {id})) \in Nat /\ Tries(plan, drives, id) \in Nat
             /\ Tries(plan, drives, id) >= MaxTaskRetries + drives
  BY <1>1, <1>2 DEF Tries
<1>4. /\ plan' \in Seq(Task) /\ IdsFresh(plan') /\ IdsFresh(plan)
      /\ \A i \in DOMAIN plan' : plan'[i].id \in Nat /\ plan'[i].attempts \in Nat
  <2>1. plan' \in Seq(Task) /\ IdsFresh(plan') /\ IdsFresh(plan)
    BY NextInv DEF Inv, TypeOK
  <2>2. \A i \in DOMAIN plan' : plan'[i] \in Task
    BY <2>1
  <2> QED BY <2>1, <2>2 DEF Task
<1>5. /\ drives \in Nat /\ revisions \in Nat /\ drives' \in Nat
       /\ MaxTaskRetries \in Nat /\ MaxPlanRevisions \in Nat
  BY <1>1, NextInv DEF Inv, TypeOK
<1>6. ASSUME NEW id \in Nat
       PROVE  /\ Tries(plan', drives', id) \in Nat
              /\ drives' > 0 => Tries(plan', drives', id) # 0
  <2>1. Cardinality(Fixing(plan', {id})) \in Nat
    BY <1>4, FixingFinite
  <2> QED BY <1>5, <2>1 DEF Tries
<1>7. node' # "START" => drives' > 0
  BY <1>1 DEF RecoveryInv, Next, Handler, Resume, Return, Understand, CreatePlan,
     SelectNext, Execute, Observe, Decide, Verify, StoreMemory, Turn, vars, call
<1>8. ASSUME NEW tools \in SUBSET Registered, Resume(tools)
      PROVE  RecoveryInv'
  <2>1. /\ plan' = plan /\ revisions' = revisions /\ drives' = drives + 1
        /\ current' = current
    BY <1>8 DEF Resume, task
  <2>2. ASSUME NEW id \in Nat
        PROVE  Tries(plan', drives', id) = Tries(plan, drives, id) + 1
    <3>1. Cardinality(Fixing(plan, {id})) \in Nat
      BY <1>3
    <3> QED BY <1>5, <2>1, <3>1 DEF Tries
  <2>3. ASSUME NEW i \in DOMAIN plan'
        PROVE  Within(plan', drives', plan'[i]) /\ TryLeft(plan', drives', plan'[i])
    <3>1. plan[i].attempts <= Tries(plan, drives, plan[i].id)
      BY <2>1 DEF RecoveryInv, Within
    <3>2. plan[i].attempts \in Nat /\ plan[i].id \in Nat
      BY <1>1, <2>1
    <3>3. /\ Tries(plan, drives, plan[i].id) \in Nat
          /\ Tries(plan', drives', plan[i].id) = Tries(plan, drives, plan[i].id) + 1
      BY <1>3, <2>2, <3>2
    <3>4. plan[i].attempts < Tries(plan', drives', plan[i].id)
      BY <3>1, <3>2, <3>3
    <3> QED BY <2>1, <3>2, <3>3, <3>4 DEF Within, TryLeft
  <2> QED BY <1>7, <2>1, <2>3 DEF RecoveryInv
\* No other step changes the number of calls.
<1>9. (~ \E tools \in SUBSET Registered : Resume(tools)) => drives' = drives
  BY DEF Next, Handler, Return, Understand, CreatePlan,
     SelectNext, Execute, Observe, Decide, Verify, StoreMemory, Turn, vars, call
<1>10. ASSUME drives' = drives, plan' = plan, revisions' = revisions,
             node = "SELECT_NEXT" => node' # "EXECUTE"
      PROVE  RecoveryInv'
  <2>1. node' = "EXECUTE" /\ status' # "awaiting_approval" =>
          node = "EXECUTE" /\ status # "awaiting_approval" /\ current' = current
    BY <1>1, <1>10 DEF Next, Handler, Resume, Return, Understand, CreatePlan,
       SelectNext, AllDone, NothingRunnable, StartTask, Execute, ExecuteNothing,
       ExecuteGated, ExecuteTool, Observe, Decide, Retry, Replan, Escalate, Abort,
       Verify, StoreMemory, FailFromException, Turn, vars, call, task
  <2> QED BY <1>7, <1>10, <2>1 DEF RecoveryInv
<1>11. ASSUME drives' = drives, revisions' = revisions, plan = <<>>,
             node = "CREATE_PLAN", node' # "EXECUTE",
             NEW d \in Drafts, plan' = PlanOf(d)
      PROVE  RecoveryInv'
  <2>1. \A i \in DOMAIN plan' : plan'[i].attempts = 0
    BY <1>11, FreshPlan
  <2>2. Cardinality(Fixing(plan', Nat \ {0})) = 0
    BY <1>11, NothingFixed
  <2>3. revisions = 0
    <3>1. Fixing(plan, Nat \ {0}) = {}
      BY <1>11 DEF Fixing
    <3> QED BY <3>1, FS_EmptySet DEF RecoveryInv
  <2>4. drives > 0
    BY <1>11 DEF RecoveryInv
  <2>5. ASSUME NEW id \in Nat PROVE 0 < Tries(plan', drives', id)
    <3>1. Cardinality(Fixing(plan', {id})) \in Nat
      BY <1>4, FixingFinite
    <3> QED BY <1>1, <1>11, <2>4, <3>1 DEF Tries
  <2>6. ASSUME NEW i \in DOMAIN plan'
        PROVE  Within(plan', drives', plan'[i]) /\ TryLeft(plan', drives', plan'[i])
    <3>1. 0 < Tries(plan', drives', plan'[i].id)
      BY <1>4, <2>5
    <3>2. plan'[i].attempts = 0
      BY <2>1
    <3>3. Tries(plan', drives', plan'[i].id) \in Nat
      BY <1>4, <1>6
    <3> QED BY <3>1, <3>2, <3>3 DEF Within, TryLeft
  <2>7. revisions' <= MaxPlanRevisions
    BY <1>11 DEF RecoveryInv
  <2> QED BY <1>7, <1>11, <2>2, <2>3, <2>6, <2>7 DEF RecoveryInv
<1>12. ASSUME drives' = drives, revisions' = revisions,
              NEW k \in DOMAIN plan, NEW t, Rewritten(k, t)
       PROVE  RecoveryInv'
  <2>1. /\ t.id = plan[k].id /\ t.fixes = plan[k].fixes
        /\ DOMAIN plan' = DOMAIN plan /\ plan'[k] = t
        /\ \A i \in DOMAIN plan : i # k => plan'[i] = plan[i]
    BY <1>12, RewrittenFields DEF SameTask
  <2>2. \A ids : Fixing(plan', ids) = Fixing(plan, ids)
    BY <2>1 DEF Fixing
  <2>3. ASSUME NEW u
        PROVE  /\ Within(plan', drives', u) <=> Within(plan, drives, u)
               /\ TryLeft(plan', drives', u) <=> TryLeft(plan, drives, u)
    BY <1>12, <2>2 DEF Within, TryLeft, Tries
  <2>4. drives > 0
    BY <1>12 DEF RecoveryInv, Rewritten
  <2>5. /\ Within(plan, drives, t)
        /\ t.status = "pending" \/ node' = "EXECUTE" => TryLeft(plan, drives, t)
    <3> DEFINE n == Tries(plan, drives, plan[k].id)
    <3>1. Decision(plan[k]) = "RETRY" => plan[k].attempts <= MaxTaskRetries
      BY DEF Decision
    <3>2. /\ plan[k].id = IF node = "SELECT_NEXT" THEN current' ELSE current
          /\ t.attempts = plan[k].attempts + IF node' = "OBSERVE" THEN 1 ELSE 0
          /\ status # "awaiting_approval"
      BY <1>12 DEF Rewritten
    <3>3. /\ plan[k].attempts <= n
          /\ plan[k].status = "pending" => plan[k].attempts < n
          /\ node = "EXECUTE" => plan[k].attempts < n
      BY <3>2 DEF RecoveryInv, Within, TryLeft
    <3>4. n \in Nat /\ n >= MaxTaskRetries + drives /\ plan[k].attempts \in Nat
      BY <1>1, <1>3
    <3>5. CASE node = "SELECT_NEXT" /\ node' = "EXECUTE" /\ plan[k].status = "pending"
      BY <2>1, <3>2, <3>3, <3>4, <3>5 DEF Within, TryLeft
    <3>6. CASE node = "EXECUTE" /\ node' = "OBSERVE" /\ t.status = "running"
      BY <2>1, <3>2, <3>3, <3>4, <3>6 DEF Within, TryLeft
    <3>7. CASE /\ node' # "OBSERVE" /\ node' # "EXECUTE"
               /\ plan[k].attempts <= MaxTaskRetries
      BY <1>1, <2>1, <2>4, <3>2, <3>4, <3>7 DEF Within, TryLeft
    <3>8. CASE node' # "OBSERVE" /\ node' # "EXECUTE" /\ t.status # "pending"
      BY <2>1, <3>2, <3>3, <3>4, <3>8 DEF Within
    <3> QED BY <1>12, <3>1, <3>5, <3>6, <3>7, <3>8 DEF Rewritten
  <2>6. ASSUME NEW i \in DOMAIN plan, i # k, node' = "EXECUTE"
        PROVE  plan[i].id # current'
    <3>1. current' = plan[k].id
      BY <1>12, <2>6 DEF Rewritten
    <3> QED BY <1>4, <2>6, <3>1 DEF IdsFresh
  <2>7. ASSUME NEW i \in DOMAIN plan'
        PROVE  /\ Within(plan', drives', plan'[i])
               /\ \/ plan'[i].status = "pending"
                  \/ node' = "EXECUTE" /\ plan'[i].id = current'
                  => TryLeft(plan', drives', plan'[i])
    <3>1. CASE i = k
      BY <2>1, <2>3, <2>5, <3>1
    <3>2. CASE i # k
      BY <2>1, <2>3, <2>6, <3>2 DEF RecoveryInv
    <3> QED BY <3>1, <3>2
  <2> QED BY <1>7, <1>12, <2>2, <2>7 DEF RecoveryInv
<1>13. ASSUME drives' = drives, NEW k \in DOMAIN plan, node = "DECIDE",
              node' = "SELECT_NEXT", Decision(plan[k]) = "REPLAN",
              plan' = Revise(plan, k), revisions' = revisions + 1
       PROVE  RecoveryInv'
  <2>1. revisions' <= MaxPlanRevisions
    <3>1. revisions < MaxPlanRevisions
      BY <1>13 DEF Decision
    <3> QED BY <1>1, <1>13, <3>1
  <2>2. plan[k].id \in Nat \ {0}
    BY <1>1, <1>4 DEF IdsFresh
  <2>3. Cardinality(Fixing(plan', Nat \ {0})) = revisions'
    <3>1. Cardinality(Fixing(Revise(plan, k), Nat \ {0})) =
            Cardinality(Fixing(plan, Nat \ {0}))
              + IF plan[k].id \in Nat \ {0} THEN 1 ELSE 0
      BY <1>1, RevisionAddsOne
    <3> QED BY <1>1, <1>13, <2>2, <3>1 DEF RecoveryInv
  <2>4. ASSUME NEW id \in Nat
        PROVE  Tries(plan', drives', id) =
                 Tries(plan, drives, id) + IF id = plan[k].id THEN 1 ELSE 0
    <3>1. Cardinality(Fixing(Revise(plan, k), {id})) =
            Cardinality(Fixing(plan, {id}))
              + IF plan[k].id \in {id} THEN 1 ELSE 0
      BY <1>1, RevisionAddsOne
    <3> DEFINE before == Cardinality(Fixing(plan, {id}))
               after == Cardinality(Fixing(plan', {id}))
    <3>2. after = before + IF id = plan[k].id THEN 1 ELSE 0
      BY <1>13, <3>1
    <3>3. before \in Nat
      BY <1>3
    <3> HIDE DEF before, after
    <3>4. MaxTaskRetries + after + drives' =
            MaxTaskRetries + before + drives + IF id = plan[k].id THEN 1 ELSE 0
      BY <1>1, <1>13, <3>2, <3>3
    <3> QED BY <3>4 DEF Tries, before, after
  <2>5. drives > 0
    BY <1>13 DEF RecoveryInv
  <2>6. Remediation(plan, k).attempts = 0 /\ Remediation(plan, k).id = Len(plan) + 1
    BY DEF Remediation, NewTask
  <2>7. /\ Reset(plan, k).id = plan[k].id
        /\ Reset(plan, k).attempts = plan[k].attempts
    BY <1>1 DEF Reset, Task
  <2>8. ASSUME NEW j \in DOMAIN plan'
        PROVE  /\ Within(plan', drives', plan'[j])
               /\ plan'[j].status = "pending" => TryLeft(plan', drives', plan'[j])
    <3>1. CASE j = k
      <4>1. plan'[j] = Remediation(plan, k)
        BY <1>1, <1>13, <3>1, RevisionMoves
      <4>2. plan'[j].id \in Nat /\ plan'[j].attempts = 0
        BY <1>4, <2>6, <4>1
      <4>3. Tries(plan', drives', plan'[j].id) \in Nat \ {0}
        BY <1>6, <2>5, <4>2, <1>13
      <4> QED BY <4>2, <4>3 DEF Within, TryLeft
    <3>2. ASSUME NEW i \in DOMAIN plan, j = Moved(k, i)
          PROVE  /\ Within(plan', drives', plan'[j])
                 /\ plan'[j].status = "pending" => TryLeft(plan', drives', plan'[j])
      <4>1. plan'[j] = IF i = k THEN Reset(plan, k) ELSE plan[i]
        BY <1>1, <1>13, <3>2, RevisionMoves
      <4>2. /\ plan[i].attempts <= Tries(plan, drives, plan[i].id)
            /\ plan[i].status = "pending" =>
                 plan[i].attempts < Tries(plan, drives, plan[i].id)
        BY DEF RecoveryInv, Within, TryLeft
      <4>3. /\ plan'[j].attempts = plan[i].attempts
            /\ plan'[j].id = plan[i].id
            /\ i # k => plan'[j].status = plan[i].status
        BY <2>7, <4>1
      <4>4. /\ Tries(plan', drives', plan[i].id) =
                 Tries(plan, drives, plan[i].id)
                   + IF plan[i].id = plan[k].id THEN 1 ELSE 0
            /\ Tries(plan, drives, plan[i].id) \in Nat
            /\ plan[i].attempts \in Nat
        BY <1>1, <1>3, <2>4
      <4>5. CASE i = k
        BY <4>2, <4>3, <4>4, <4>5 DEF Within, TryLeft
      <4>6. CASE i # k
        BY <4>2, <4>3, <4>4, <4>6 DEF Within, TryLeft
      <4> QED BY <4>5, <4>6
    <3> QED BY <1>1, <1>13, <3>1, <3>2, RevisionMoves
  <2> QED BY <1>7, <1>13, <2>1, <2>3, <2>8 DEF RecoveryInv
<1> QED BY <1>8, <1>9, <1>10, <1>11, <1>12, <1>13, StepOfPlan DEF PlanStep

\* However a run fails, pauses and is revised, there are at most as many
\* revisions as allowed, one remediation for each, and no task is tried more
\* often than its retries, its remediations and the calls of resume() explain.
THEOREM RecoveryIsBounded == Spec => []RecoveryBounded
<1>1. Inv /\ RecoveryInv => RecoveryBounded
  BY RecoveryInvBounds
<1> QED BY <1>1, InitRecovery, NextRecovery, Invariance, PTL DEF Spec

-----------------------------------------------------------------------------
(* A silent failure is an exhausted step budget.                           *)

\* A call returns FAILED at END, where the failure was announced, or because
\* its steps are used up; afterwards nothing changes until the next call.
THEOREM SilenceIsBudget == Spec => []OnlyBudgetIsSilent
<1>1. Init => OnlyBudgetIsSilent
  BY DEF Init, OnlyBudgetIsSilent, NoReport
<1>2. Inv /\ OnlyBudgetIsSilent /\ [Next]_vars => OnlyBudgetIsSilent'
  <2> SUFFICES ASSUME Inv, OnlyBudgetIsSilent, [Next]_vars
               PROVE  OnlyBudgetIsSilent'
    OBVIOUS
  <2>1. ASSUME NEW tools \in SUBSET Registered, Resume(tools)
        PROVE  OnlyBudgetIsSilent'
    BY <2>1 DEF Resume, OnlyBudgetIsSilent
  <2>2. ASSUME Handler PROVE driving'
    BY <2>2 DEF Handler, Understand, CreatePlan, SelectNext, Execute, Observe,
       Decide, Verify, StoreMemory, Turn
  <2>3. CASE Return
    <3>1. /\ report'.status = status' /\ steps' = steps
          /\ announced' = announced
      BY <2>3 DEF Return, outcome
    <3>2. CASE node = "END" /\ ~(steps >= MaxSteps)
      <4>1. status' = status /\ announced = Announcement(status)
        BY <2>3, <3>2 DEF Return, Inv, EndConsistent
      <4>2. status = "failed" => announced # <<>>
        BY <4>1 DEF Announcement
      <4> QED BY <3>1, <4>1, <4>2 DEF OnlyBudgetIsSilent
    <3>3. CASE status = "awaiting_approval"
      BY <2>3, <3>1, <3>3 DEF Return, OnlyBudgetIsSilent
    <3>4. CASE steps >= MaxSteps
      BY <3>1, <3>4 DEF OnlyBudgetIsSilent
    <3> QED BY <2>3, <3>2, <3>3, <3>4 DEF Return
  <2>4. CASE UNCHANGED vars
    BY <2>4 DEF vars, call, outcome, OnlyBudgetIsSilent
  <2> QED BY <2>1, <2>2, <2>3, <2>4 DEF Next, OnlyBudgetIsSilent
<1> QED BY <1>1, <1>2, Invariance, PTL DEF Spec

-----------------------------------------------------------------------------
(* The promise of Objective is kept.                                       *)

\* The abstract todo.
Open(p) == {p[i].id : i \in DOMAIN p} \ Done(p)

\* No handler skips a task, so that a complete plan has nothing left to do.
NoneSkipped == \A i \in DOMAIN plan : plan[i].status # "skipped"

LEMMA InitNoneSkipped == Init => NoneSkipped
BY DEF Init, NoneSkipped

LEMMA NextNoneSkipped == Inv /\ NoneSkipped /\ [Next]_vars => NoneSkipped'
<1> SUFFICES ASSUME Inv, NoneSkipped, [Next]_vars PROVE NoneSkipped'
  OBVIOUS
<1>1. plan \in Seq(Task)
  BY DEF Inv, TypeOK
<1>2. CASE plan' = plan
  BY <1>2 DEF NoneSkipped
<1>3. ASSUME NEW d \in Drafts, plan' = PlanOf(d) PROVE NoneSkipped'
  <2>1. \A i \in DOMAIN PlanOf(d) : PlanOf(d)[i].status = "pending"
    BY DEF PlanOf, NewTask
  <2> QED BY <1>3, <2>1 DEF NoneSkipped
<1>4. ASSUME NEW k \in DOMAIN plan, NEW t, Rewritten(k, t) PROVE NoneSkipped'
  <2>1. /\ DOMAIN plan' = DOMAIN plan /\ plan'[k] = t
        /\ \A i \in DOMAIN plan : i # k => plan'[i] = plan[i]
    BY <1>4, RewrittenFields
  <2>2. t.status # "skipped"
    BY <1>4 DEF Rewritten
  <2> QED BY <2>1, <2>2 DEF NoneSkipped
<1>5. ASSUME NEW k \in DOMAIN plan, plan' = Revise(plan, k) PROVE NoneSkipped'
  <2>1. Remediation(plan, k).status = "pending"
    BY DEF Remediation, NewTask
  <2>2. Reset(plan, k).status = "pending"
    <3>1. plan[k] \in Task
      BY <1>1
    <3> QED BY <3>1 DEF Reset, Task
  <2>3. ASSUME NEW j \in DOMAIN plan' PROVE plan'[j].status # "skipped"
    <3>1. CASE j = k
      <4>1. plan'[j] = Remediation(plan, k)
        BY <1>1, <1>5, <3>1, RevisionMoves
      <4> QED BY <2>1, <4>1
    <3>2. ASSUME NEW i \in DOMAIN plan, j = Moved(k, i)
          PROVE  plan'[j].status # "skipped"
      <4>1. plan'[j] = IF i = k THEN Reset(plan, k) ELSE plan[i]
        BY <1>1, <1>5, <3>2, RevisionMoves
      <4> QED BY <2>2, <4>1 DEF NoneSkipped
    <3> QED BY <1>1, <1>5, <3>1, <3>2, RevisionMoves
  <2> QED BY <2>3 DEF NoneSkipped
<1> QED BY <1>2, <1>3, <1>4, <1>5, StepOfPlan DEF PlanStep

\* What a step makes of the work: it stays, it is planned, one task is done,
\* or one is added.
LEMMA StepOfWork ==
  ASSUME Inv, [Next]_vars
  PROVE  \/ plan' = plan
         \/ /\ node = "CREATE_PLAN" /\ Open(plan) = {} /\ Done(plan) = {}
            /\ Open(plan') # {} /\ Done(plan') = {}
         \/ /\ node \in {"SELECT_NEXT"} \cup InHand
            /\ Open(plan') = Open(plan) /\ Done(plan') = Done(plan)
         \/ /\ node \in InHand
            /\ \E id \in Open(plan) : /\ Open(plan') = Open(plan) \ {id}
                                      /\ Done(plan') = Done(plan) \cup {id}
         \/ /\ node \in InHand
            /\ Open(plan) \subseteq Open(plan') /\ Done(plan') = Done(plan)
<1>1. plan \in Seq(Task) /\ IdsFresh(plan) /\ IdsFresh(plan')
  BY NextInv DEF Inv, TypeOK
<1>2. ASSUME plan = <<>>, NEW d \in Drafts, plan' = PlanOf(d)
      PROVE  /\ Open(plan) = {} /\ Done(plan) = {}
             /\ Open(plan') # {} /\ Done(plan') = {}
  <2>1. Open(plan) = {} /\ Done(plan) = {}
    BY <1>2 DEF Open, Done
  <2>2. \A i \in DOMAIN plan' : plan'[i].status = "pending"
    BY <1>2 DEF PlanOf, NewTask
  <2>3. Done(plan') = {}
    BY <2>2 DEF Done
  <2>4. PICK i : i \in DOMAIN plan'
    <3>1. plan' # <<>> /\ plan' \in Seq(Task)
      BY <1>2, FreshPlan
    <3> QED BY <3>1
  <2> QED BY <2>1, <2>3, <2>4 DEF Open
<1>3. ASSUME NEW k \in DOMAIN plan, NEW t, Rewritten(k, t)
      PROVE  \/ /\ node \in {"SELECT_NEXT"} \cup InHand
                /\ Open(plan') = Open(plan) /\ Done(plan') = Done(plan)
             \/ /\ node \in InHand
                /\ \E id \in Open(plan) :
                     /\ Open(plan') = Open(plan) \ {id}
                     /\ Done(plan') = Done(plan) \cup {id}
  <2>1. /\ t.id = plan[k].id /\ DOMAIN plan' = DOMAIN plan /\ plan'[k] = t
        /\ \A i \in DOMAIN plan : i # k => plan'[i] = plan[i]
    BY <1>3, RewrittenFields DEF SameTask
  <2>2. plan[k].status # "completed"
    BY <1>3 DEF Rewritten
  <2>3. {plan'[i].id : i \in DOMAIN plan'} = {plan[i].id : i \in DOMAIN plan}
    BY <2>1
  <2>4. node \in {"SELECT_NEXT"} \cup InHand
    BY <1>3 DEF Rewritten, InHand
  <2>5. CASE t.status # "completed"
    <3>1. Done(plan') = Done(plan)
      BY <2>1, <2>2, <2>5 DEF Done
    <3> QED BY <2>3, <2>4, <3>1 DEF Open
  <2>6. CASE t.status = "completed"
    <3>1. Done(plan') = Done(plan) \cup {plan[k].id}
      BY <2>1, <2>6 DEF Done
    <3>2. plan[k].id \notin Done(plan)
      BY <1>1, <2>2 DEF Done, IdsFresh
    <3>3. node \in InHand
      BY <1>3, <2>6 DEF Rewritten, InHand
    <3> QED BY <2>3, <3>1, <3>2, <3>3 DEF Open
  <2> QED BY <2>5, <2>6
<1>4. ASSUME NEW k \in DOMAIN plan, plan' = Revise(plan, k),
             plan[k].status # "completed"
      PROVE  Open(plan) \subseteq Open(plan') /\ Done(plan') = Done(plan)
  <2>1. /\ Reset(plan, k).id = plan[k].id
        /\ Reset(plan, k).status = "pending"
    <3>1. plan[k] \in Task
      BY <1>1
    <3> QED BY <3>1 DEF Reset, Task
  <2>2. Remediation(plan, k).status = "pending"
    BY DEF Remediation, NewTask
  <2>3. \A i \in DOMAIN plan :
          /\ Moved(k, i) \in DOMAIN plan'
          /\ plan'[Moved(k, i)] = IF i = k THEN Reset(plan, k) ELSE plan[i]
    BY <1>1, <1>4, RevisionMoves
  <2>4. k \in DOMAIN plan' /\ plan'[k] = Remediation(plan, k)
    BY <1>1, <1>4, RevisionMoves
  <2>5. \A j \in DOMAIN plan' : j = k \/ \E i \in DOMAIN plan : j = Moved(k, i)
    BY <1>1, <1>4, RevisionMoves
  <2>6. \A i \in DOMAIN plan :
          /\ plan'[Moved(k, i)].id = plan[i].id
          /\ plan'[Moved(k, i)].status = "completed"
               <=> plan[i].status = "completed"
    BY <1>4, <2>1, <2>3
  <2>7. Done(plan') \subseteq Done(plan)
    BY <2>2, <2>4, <2>5, <2>6 DEF Done
  <2>8. Done(plan) \subseteq Done(plan')
    BY <2>3, <2>6 DEF Done
  <2>9. {plan[i].id : i \in DOMAIN plan} \subseteq {plan'[i].id : i \in DOMAIN plan'}
    BY <2>3, <2>6
  <2> QED BY <2>7, <2>8, <2>9 DEF Open
<1> QED BY <1>2, <1>3, <1>4, StepOfPlan DEF PlanStep, InHand

Waiting == status = "awaiting_approval"

\* What a step tells the human, and that it does so only while the run works.
LEMMA StepOfVoice ==
  ASSUME Inv, [Next]_vars
  PROVE  /\ plan' # plan => ~Waiting /\ announced = <<>>
         /\ \/ (Waiting' <=> Waiting) /\ announced' = announced
            \/ Waiting /\ ~Waiting' /\ announced' = announced /\ plan' = plan
            \/ /\ ~Waiting /\ announced = <<>> /\ plan' = plan
               /\ Waiting' /\ announced' = announced
            \/ /\ ~Waiting /\ announced = <<>> /\ ~Waiting'
               /\ announced' = <<"OBJECTIVE_FAILED">>
            \/ /\ ~Waiting /\ announced = <<>> /\ plan' = plan
               /\ status = "completed" /\ ~Waiting'
               /\ announced' = <<"OBJECTIVE_COMPLETED">>
<1>1. ASSUME NEW n, n # "END", Turn(n) PROVE ~Waiting /\ announced = <<>>
  BY <1>1 DEF Turn, Waiting, Inv, StatusFits
<1>2. ASSUME FailFromException, announced = <<>>
      PROVE  ~Waiting' /\ announced' = <<"OBJECTIVE_FAILED">>
  BY <1>2 DEF FailFromException, Waiting
<1>3. ASSUME NEW tools \in SUBSET Registered, Resume(tools)
      PROVE  /\ plan' = plan /\ announced' = announced
             /\ (Waiting' <=> Waiting) \/ (Waiting /\ ~Waiting')
  BY <1>3 DEF Resume, task, outcome, Waiting
<1>4. CASE Return
  <2>1. plan' = plan /\ announced' = announced
    BY <1>4 DEF Return, task, outcome
  <2>2. (Waiting' <=> Waiting)
    BY <1>4 DEF Return, Waiting
  <2> QED BY <2>1, <2>2
<1>5. CASE Understand
  <2>1. ~Waiting /\ announced = <<>> /\ plan' = plan
    BY <1>1, <1>5 DEF Understand, task
  <2> QED BY <1>2, <1>5, <2>1 DEF Understand, outcome, Waiting
<1>6. CASE CreatePlan
  <2>1. ~Waiting /\ announced = <<>>
    BY <1>1, <1>6 DEF CreatePlan
  <2> QED BY <1>2, <1>6, <2>1 DEF CreatePlan, outcome, Waiting
<1>7. CASE SelectNext
  <2>1. ~Waiting /\ announced = <<>> /\ announced' = announced
    BY <1>1, <1>7 DEF SelectNext, outcome
  <2>2. ~Waiting'
    BY <1>7, <2>1 DEF SelectNext, AllDone, NothingRunnable, StartTask, Waiting
  <2> QED BY <2>1, <2>2
<1>8. CASE Execute
  <2>1. ~Waiting /\ announced = <<>> /\ announced' = announced
    BY <1>1, <1>8 DEF Execute, outcome
  <2> DEFINE k == At(plan, current)
  <2>3. ExecuteNothing(k) \/ ExecuteGated(k) \/ ExecuteTool(k)
    BY <1>8 DEF Execute
  <2> HIDE DEF k
  <2>2. ~Waiting' \/ plan' = plan
    <3>1. ExecuteNothing(k) => UNCHANGED status
      BY DEF ExecuteNothing
    <3>2. ExecuteTool(k) => UNCHANGED status
      BY DEF ExecuteTool
    <3>3. ExecuteGated(k) => status' = "awaiting_approval" /\ plan' = plan
      BY DEF ExecuteGated
    <3> QED BY <2>1, <2>3, <3>1, <3>2, <3>3 DEF Waiting
  <2> QED BY <2>1, <2>2
<1>9. CASE Observe
  <2>1. ~Waiting /\ announced = <<>>
    BY <1>1, <1>9 DEF Observe
  <2>2. UNCHANGED <<status, outcome>> \/ FailFromException
    BY <1>9 DEF Observe
  <2> QED BY <1>2, <2>1, <2>2 DEF outcome, Waiting
<1>10. CASE Decide
  <2>1. ~Waiting /\ announced = <<>> /\ announced' = announced
    BY <1>1, <1>10 DEF Decide, outcome
  <2> DEFINE k == At(plan, current)
  <2>3. Retry(k) \/ Replan(k) \/ Escalate(k) \/ Abort(k)
    BY <1>10 DEF Decide
  <2> HIDE DEF k
  <2>2. ~Waiting' \/ plan' = plan
    <3>1. Retry(k) \/ Replan(k) => UNCHANGED status
      BY DEF Retry, Replan
    <3>2. Escalate(k) => plan' = plan /\ status' = "awaiting_approval"
      BY DEF Escalate
    <3>3. Abort(k) => status' = "failed"
      BY DEF Abort
    <3> QED BY <2>1, <2>3, <3>1, <3>2, <3>3 DEF Waiting
  <2> QED BY <2>1, <2>2
<1>11. CASE Verify
  <2>1. /\ ~Waiting /\ announced = <<>> /\ announced' = announced
        /\ plan' = plan
    BY <1>1, <1>11 DEF Verify, task
  <2>2. ~Waiting'
    BY <1>11 DEF Verify, Waiting
  <2> QED BY <2>1, <2>2
<1>12. CASE StoreMemory
  <2>1. ~Waiting /\ announced = <<>> /\ plan' = plan
    BY <1>1, <1>12 DEF StoreMemory, task
  <2>2. CASE FailFromException
    BY <1>2, <2>1, <2>2
  <2>3. CASE announced' = announced \o Announcement(status) /\ status' = status
    <3>1. announced' = Announcement(status)
      BY <2>1, <2>3, ConcatEmptySeq DEF Announcement
    <3> QED BY <2>1, <2>3, <3>1 DEF Announcement, Waiting
  <2> QED BY <1>12, <2>2, <2>3 DEF StoreMemory
<1>13. CASE UNCHANGED vars
  BY <1>13 DEF vars, task, outcome, Waiting
<1> QED
  BY <1>3, <1>4, <1>5, <1>6, <1>7, <1>8, <1>9, <1>10, <1>11, <1>12, <1>13
     DEF Next, Handler

LEMMA NextPromise ==
  Inv /\ NoneSkipped /\ [Next]_vars => [Promise!Next]_(Promise!vars)
<1> SUFFICES ASSUME Inv, NoneSkipped, [Next]_vars
             PROVE  [Promise!Next]_(Promise!vars)
  OBVIOUS
<1> DEFINE todo == Open(plan)
           done == Done(plan)
           todo1 == Open(plan')
           done1 == Done(plan')
<1>1. /\ ({plan[i].id : i \in DOMAIN plan} \ Done(plan)) = todo
      /\ ({plan[i].id : i \in DOMAIN plan} \ Done(plan))' = todo1
      /\ Done(plan)' = done1
  BY DEF Open, Done
<1>2. status = "completed" => todo = {} /\ done # {}
  <2> SUFFICES ASSUME status = "completed" PROVE todo = {} /\ done # {}
    OBVIOUS
  <2>1. /\ plan # <<>> /\ plan \in Seq(Task)
        /\ \A i \in DOMAIN plan : plan[i].status = "completed"
    BY DEF Inv, TypeOK, CompletedIsEarned, IsComplete, NoneSkipped
  <2>2. \E i : i \in DOMAIN plan
    BY <2>1
  <2> QED BY <2>1, <2>2 DEF Open, Done
<1> QED
  BY <1>1, <1>2, StepOfWork, StepOfVoice
  DEF Waiting, Promise!Next, Promise!vars, Promise!Plan, Promise!Finish,
      Promise!Revise, Promise!Ask, Promise!Answer, Promise!Succeed, Promise!Fail,
      Promise!Working
\* Whatever the registry, the drafts and the limits: the loop with its retries,
\* revisions, pauses and exceptions does only what Objective allows, step by
\* step.
THEOREM PromiseIsKept == Spec => KeepsPromise
<1>1. Init => Promise!Init
  BY DEF Init, Promise!Init, Done
<1> QED
  BY <1>1, InitNoneSkipped, NextNoneSkipped, NextPromise, Invariance, PTL
     DEF Spec, KeepsPromise, Promise!Spec

-----------------------------------------------------------------------------
(* The limits end a call before its step budget does.                      *)

\* The tries within the retry limit that were made: pairs of a task's id and
\* the number of a try.
Tried(p) ==
  {x \in (1..Len(p)) \X (1..MaxTaskRetries) :
     \E i \in DOMAIN p : p[i].id = x[1] /\ x[2] <= p[i].attempts}

\* Both measures are bounded by the length of the plan.
LEMMA TriedBound ==
  ASSUME NEW p \in Seq(Task)
  PROVE  /\ IsFiniteSet(Tried(p)) /\ Cardinality(Tried(p)) \in Nat
         /\ Cardinality(Tried(p)) <= Len(p) * MaxTaskRetries
<1>1. Len(p) \in Nat /\ MaxTaskRetries \in Nat
  BY LenProperties, LimitAssumption
<1>2. /\ IsFiniteSet(1..Len(p)) /\ Cardinality(1..Len(p)) = Len(p)
      /\ IsFiniteSet(1..MaxTaskRetries)
      /\ Cardinality(1..MaxTaskRetries) = MaxTaskRetries
  <2>1. ASSUME NEW n \in Nat
        PROVE  IsFiniteSet(1..n) /\ Cardinality(1..n) = n
    <3>1. IsFiniteSet(1..n) /\ Cardinality(1..n) = IF 1 > n THEN 0 ELSE n - 1 + 1
      BY FS_Interval
    <3> QED BY <3>1
  <2> QED BY <1>1, <2>1
<1> DEFINE pairs == (1..Len(p)) \X (1..MaxTaskRetries)
<1>3. IsFiniteSet(pairs) /\ Cardinality(pairs) = Len(p) * MaxTaskRetries
  BY <1>2, FS_Product, ZenonT(60)
<1>4. Tried(p) \in SUBSET pairs
  BY DEF Tried
<1> HIDE DEF pairs
<1> QED BY <1>3, <1>4, FS_Subset, FS_CardinalityType

LEMMA DoneBound ==
  ASSUME NEW p \in Seq(Task), IdsFresh(p)
  PROVE  /\ IsFiniteSet(Done(p)) /\ Cardinality(Done(p)) \in Nat
         /\ Cardinality(Done(p)) <= Len(p)
<1>1. Len(p) \in Nat
  BY LenProperties
<1>2. IsFiniteSet(1..Len(p)) /\ Cardinality(1..Len(p)) = Len(p)
  <2>1. /\ IsFiniteSet(1..Len(p))
        /\ Cardinality(1..Len(p)) = IF 1 > Len(p) THEN 0 ELSE Len(p) - 1 + 1
    BY <1>1, FS_Interval
  <2> QED BY <1>1, <2>1
<1>3. Done(p) \in SUBSET (1..Len(p))
  BY DEF Done, IdsFresh
<1> QED BY <1>2, <1>3, FS_Subset, FS_CardinalityType

\* The try in hand is one the retry limit covers.
Trying(p, n, id) ==
  /\ n \in {"OBSERVE", "DECIDE"}
  /\ \E i \in DOMAIN p : p[i].id = id /\ p[i].attempts <= MaxTaskRetries

\* How many handlers ran at most since the call or a retry, a revision or a
\* completed task, when the loop is at node n.
Worth(n, s) ==
  IF n = "EXECUTE" /\ s = "awaiting_approval" THEN 6
  ELSE [START |-> 0, UNDERSTAND |-> 0, CREATE_PLAN |-> 1, SELECT_NEXT |-> 2,
        EXECUTE |-> 3, OBSERVE |-> 4, DECIDE |-> 5, VERIFY |-> 3,
        STORE_MEMORY |-> 6, END |-> 7][n]

\* Every completed task pays for three handlers; every try within the limit
\* and every revision for four, a try only when it was decided about.
StepsInv ==
  steps + 4 * (IF Trying(plan, node, current) THEN 1 ELSE 0)
    <= Worth(node, status) + 3 * Cardinality(Done(plan))
         + 4 * (Cardinality(Tried(plan)) + revisions)

LEMMA StepsInvBounds == Inv /\ RecoveryInv /\ StepsInv => StepsBoundedByRecovery
<1> SUFFICES ASSUME Inv, RecoveryInv, StepsInv PROVE StepsBoundedByRecovery
  OBVIOUS
<1> DEFINE d == Cardinality(Done(plan))
           t == Cardinality(Tried(plan))
           w == Worth(node, status)
           n == Len(plan)
           most == n * MaxTaskRetries
<1>1. plan \in Seq(Task) /\ IdsFresh(plan) /\ steps \in Nat /\ revisions \in Nat
      /\ node \in Nodes
  BY DEF Inv, TypeOK
<1>2. d \in Nat /\ t \in Nat /\ d <= n /\ t <= most
  BY <1>1, TriedBound, DoneBound
<1>3. /\ n \in Nat /\ MaxTaskRetries \in Nat /\ MaxPlanRevisions \in Nat
      /\ revisions <= MaxPlanRevisions
  BY <1>1, LenProperties, LimitAssumption DEF RecoveryInv
<1>4. most \in Nat /\ MaxTaskRetries * n = most
  BY <1>3
<1>5. w \in Nat /\ w <= 7
  BY <1>1 DEF Worth, Nodes
<1>6. steps <= w + 3 * d + 4 * (t + revisions)
  <2> DEFINE x == IF Trying(plan, node, current) THEN 1 ELSE 0
  <2>1. x \in Nat /\ steps + 4 * x <= w + 3 * d + 4 * (t + revisions)
    BY DEF StepsInv
  <2> HIDE DEF x, w, d, t
  <2> QED BY <1>1, <1>2, <1>5, <2>1
<1> HIDE DEF d, t, w, n, most
<1>7. steps <= 5 + 3 * n + 4 * (most + MaxPlanRevisions + 1)
  BY <1>1, <1>2, <1>3, <1>4, <1>5, <1>6
<1> QED BY <1>4, <1>7 DEF StepsBoundedByRecovery, n

\* Which node follows which, and that a handler counts.
LEMMA StepOfSteps ==
  ASSUME Inv, [Next]_vars
  PROVE  \/ steps' = 0
         \/ /\ steps' = steps /\ node' = node /\ plan' = plan
            /\ revisions' = revisions /\ current' = current
            /\ Waiting => Waiting'
         \/ /\ steps' = steps + 1 /\ ~Waiting
            /\ current' = current \/ node = "SELECT_NEXT"
            /\ node' = "EXECUTE" /\ node # "SELECT_NEXT" => Waiting'
            /\ \/ node # "END" /\ node' = "END"
               \/ node = "UNDERSTAND" /\ node' = "CREATE_PLAN"
               \/ node = "CREATE_PLAN" /\ node' = "SELECT_NEXT"
               \/ /\ node = "SELECT_NEXT"
                  /\ node' \in {"EXECUTE", "VERIFY", "STORE_MEMORY"}
               \/ /\ node = "EXECUTE"
                  /\ node' \in {"SELECT_NEXT", "OBSERVE", "EXECUTE"}
               \/ node = "OBSERVE" /\ node' \in {"SELECT_NEXT", "DECIDE"}
               \/ /\ node = "DECIDE"
                  /\ node' \in {"SELECT_NEXT", "EXECUTE", "STORE_MEMORY"}
               \/ node = "VERIFY" /\ node' = "STORE_MEMORY"
<1> DEFINE k == At(plan, current)
<1>1. CASE \E tools \in SUBSET Registered : Resume(tools)
  BY <1>1 DEF Resume
<1>2. CASE Return
  BY <1>2 DEF Return, task, Waiting
<1>3. CASE UNCHANGED vars
  BY <1>3 DEF vars, task, call, Waiting
<1>4. CASE Understand
  BY <1>4 DEF Understand, Turn, FailFromException, task, Waiting
<1>5. CASE CreatePlan
  BY <1>5 DEF CreatePlan, Turn, FailFromException, Waiting
<1>6. CASE SelectNext
  BY <1>6 DEF SelectNext, Turn, AllDone, NothingRunnable, StartTask, task, Waiting
<1>7. CASE Execute
  <2>1. /\ ExecuteNothing(k) \/ ExecuteGated(k) \/ ExecuteTool(k)
        /\ node = "EXECUTE" /\ steps' = steps + 1 /\ ~Waiting
        /\ current' = current
    BY <1>7 DEF Execute, Turn, Waiting
  <2> HIDE DEF k
  <2>2. ExecuteNothing(k) => node' = "SELECT_NEXT"
    BY DEF ExecuteNothing
  <2>3. ExecuteTool(k) => node' = "OBSERVE"
    BY DEF ExecuteTool
  <2>4. ExecuteGated(k) => node' = node /\ Waiting'
    BY DEF ExecuteGated, Waiting
  <2> QED BY <2>1, <2>2, <2>3, <2>4
<1>8. CASE Observe
  BY <1>8 DEF Observe, Turn, FailFromException, Waiting
<1>9. CASE Decide
  <2>1. /\ Retry(k) \/ Replan(k) \/ Escalate(k) \/ Abort(k)
        /\ node = "DECIDE" /\ steps' = steps + 1 /\ ~Waiting
        /\ current' = current
    BY <1>9 DEF Decide, Turn, Waiting
  <2> HIDE DEF k
  <2>2. Retry(k) \/ Replan(k) => node' = "SELECT_NEXT"
    BY DEF Retry, Replan
  <2>3. Escalate(k) => node' = "EXECUTE" /\ Waiting'
    BY DEF Escalate, Waiting
  <2>4. Abort(k) => node' = "STORE_MEMORY"
    BY DEF Abort
  <2> QED BY <2>1, <2>2, <2>3, <2>4
<1>10. CASE Verify
  BY <1>10 DEF Verify, Turn, task, Waiting
<1>11. CASE StoreMemory
  BY <1>11 DEF StoreMemory, Turn, FailFromException, task, Waiting
<1> QED
  BY <1>1, <1>2, <1>3, <1>4, <1>5, <1>6, <1>7, <1>8, <1>9, <1>10, <1>11
     DEF Next, Handler

\* A revision adds no try and completes nothing.
LEMMA RevisionPaysNothing ==
  ASSUME NEW p \in Seq(Task), IdsFresh(p), NEW k \in DOMAIN p,
         p[k].status # "completed"
  PROVE  Tried(Revise(p, k)) = Tried(p) /\ Done(Revise(p, k)) = Done(p)
<1> DEFINE q == Revise(p, k)
<1>1. /\ Reset(p, k).id = p[k].id /\ Reset(p, k).status = "pending"
      /\ Reset(p, k).attempts = p[k].attempts
  <2>1. p[k] \in Task
    OBVIOUS
  <2> QED BY <2>1 DEF Reset, Task
<1>2. /\ Remediation(p, k).status = "pending" /\ Remediation(p, k).attempts = 0
  BY DEF Remediation, NewTask
<1>3. /\ \A i \in DOMAIN p :
           /\ Moved(k, i) \in DOMAIN q
           /\ q[Moved(k, i)] = IF i = k THEN Reset(p, k) ELSE p[i]
      /\ \A j \in DOMAIN q : j = k \/ \E i \in DOMAIN p : j = Moved(k, i)
      /\ k \in DOMAIN q /\ q[k] = Remediation(p, k)
  BY RevisionMoves
<1>4. Len(q) = Len(p) + 1 /\ Len(p) \in Nat /\ DOMAIN p = 1..Len(p)
  BY ReviseProperties, LenProperties
<1> HIDE DEF q
<1>5. \A i \in DOMAIN p :
        /\ q[Moved(k, i)].id = p[i].id
        /\ q[Moved(k, i)].attempts = p[i].attempts
        /\ q[Moved(k, i)].status = "completed" <=> p[i].status = "completed"
  BY <1>1, <1>3
<1>6. Done(q) = Done(p)
  <2>1. Done(q) \subseteq Done(p)
    BY <1>2, <1>3, <1>5 DEF Done
  <2>2. Done(p) \subseteq Done(q)
    BY <1>3, <1>5 DEF Done
  <2> QED BY <2>1, <2>2
<1>7. Tried(q) = Tried(p)
  <2>1. ASSUME NEW x \in Tried(q) PROVE x \in Tried(p)
    <3>1. PICK j \in DOMAIN q : q[j].id = x[1] /\ x[2] <= q[j].attempts
      BY DEF Tried
    <3>2. x \in (1..Len(q)) \X (1..MaxTaskRetries) /\ x[2] \in 1..MaxTaskRetries
      BY DEF Tried
    <3>3. j # k
      BY <1>2, <1>3, <3>1, <3>2, LimitAssumption
    <3>4. PICK i \in DOMAIN p : j = Moved(k, i)
      BY <1>3, <3>3
    <3>5. p[i].id = x[1] /\ x[2] <= p[i].attempts
      BY <1>5, <3>1, <3>4
    <3>6. p[i].id \in 1..Len(p)
      BY DEF IdsFresh
    <3>7. x \in (1..Len(p)) \X (1..MaxTaskRetries)
      BY <3>2, <3>5, <3>6
    <3> QED BY <3>5, <3>7 DEF Tried
  <2>2. ASSUME NEW x \in Tried(p) PROVE x \in Tried(q)
    <3>1. PICK i \in DOMAIN p : p[i].id = x[1] /\ x[2] <= p[i].attempts
      BY DEF Tried
    <3>2. x \in (1..Len(q)) \X (1..MaxTaskRetries)
      BY <1>4 DEF Tried
    <3>3. /\ Moved(k, i) \in DOMAIN q
          /\ q[Moved(k, i)].id = x[1] /\ x[2] <= q[Moved(k, i)].attempts
      BY <1>3, <1>5, <3>1
    <3> QED BY <3>2, <3>3 DEF Tried
  <2> QED BY <2>1, <2>2
<1> QED BY <1>6, <1>7 DEF q

\* Rewriting a task pays for its completion and for a try within the limit.
LEMMA RewritingPays ==
  ASSUME Inv, NEW k \in DOMAIN plan, NEW t, Rewritten(k, t)
  PROVE  /\ Cardinality(Done(plan')) = Cardinality(Done(plan))
              + IF t.status = "completed" THEN 1 ELSE 0
         /\ Cardinality(Tried(plan')) = Cardinality(Tried(plan))
              + IF node' = "OBSERVE" /\ t.attempts <= MaxTaskRetries THEN 1 ELSE 0
<1>1. /\ t.id = plan[k].id /\ DOMAIN plan' = DOMAIN plan /\ plan'[k] = t
      /\ Len(plan') = Len(plan)
      /\ \A i \in DOMAIN plan : i # k => plan'[i] = plan[i]
  BY RewrittenFields DEF SameTask
<1>2. /\ plan \in Seq(Task) /\ IdsFresh(plan) /\ plan[k] \in Task
  BY DEF Inv, TypeOK
<1>3. /\ plan[k].status # "completed" /\ plan[k].attempts \in Nat
      /\ t.attempts = plan[k].attempts + IF node' = "OBSERVE" THEN 1 ELSE 0
  BY <1>2 DEF Rewritten, Task
<1>4. Cardinality(Done(plan')) = Cardinality(Done(plan))
        + IF t.status = "completed" THEN 1 ELSE 0
  <2>1. IsFiniteSet(Done(plan)) /\ Cardinality(Done(plan)) \in Nat
    BY <1>2, DoneBound
  <2>2. CASE t.status = "completed"
    <3>1. Done(plan') = Done(plan) \cup {plan[k].id}
      BY <1>1, <2>2 DEF Done
    <3>2. plan[k].id \notin Done(plan)
      BY <1>2, <1>3 DEF Done, IdsFresh
    <3> QED BY <2>1, <2>2, <3>1, <3>2, FS_AddElement
  <2>3. CASE t.status # "completed"
    <3>1. Done(plan') = Done(plan)
      BY <1>1, <1>3, <2>3 DEF Done
    <3> QED BY <2>1, <2>3, <3>1
  <2> QED BY <2>2, <2>3
<1>5. Cardinality(Tried(plan')) = Cardinality(Tried(plan))
        + IF node' = "OBSERVE" /\ t.attempts <= MaxTaskRetries THEN 1 ELSE 0
  <2>1. IsFiniteSet(Tried(plan)) /\ Cardinality(Tried(plan)) \in Nat
    BY <1>2, TriedBound
  <2> DEFINE id == plan[k].id
             last == <<id, t.attempts>>
  <2>2. CASE node' # "OBSERVE"
    <3>1. \A i \in DOMAIN plan : /\ plan'[i].id = plan[i].id
                                 /\ plan'[i].attempts = plan[i].attempts
      BY <1>1, <1>3, <2>2
    <3>2. Tried(plan') = Tried(plan)
      BY <1>1, <3>1 DEF Tried
    <3> QED BY <2>1, <2>2, <3>2
  <2>3. ASSUME node' = "OBSERVE", NEW x \in (1..Len(plan)) \X (1..MaxTaskRetries)
        PROVE  x \in Tried(plan') <=> x \in Tried(plan) \/ x = last
    <3>1. /\ x = <<x[1], x[2]>> /\ x[2] \in Nat
          /\ t.attempts = plan[k].attempts + 1
      BY <1>3, <2>3, LimitAssumption
    <3>2. x = last <=> x[1] = id /\ x[2] = t.attempts
      BY <3>1
    <3>3. x \in Tried(plan') <=>
            \E i \in DOMAIN plan : plan'[i].id = x[1] /\ x[2] <= plan'[i].attempts
      BY <1>1, <2>3 DEF Tried
    <3>4. x \in Tried(plan) <=>
            \E i \in DOMAIN plan : plan[i].id = x[1] /\ x[2] <= plan[i].attempts
      BY <2>3 DEF Tried
    <3>5. x[2] <= t.attempts <=> x[2] <= plan[k].attempts \/ x[2] = t.attempts
      BY <1>3, <3>1
    <3> HIDE DEF last
    <3> QED BY <1>1, <3>2, <3>3, <3>4, <3>5
  <2>4. CASE node' = "OBSERVE" /\ t.attempts <= MaxTaskRetries
    <3>1. last \in (1..Len(plan)) \X (1..MaxTaskRetries)
      <4>1. id \in 1..Len(plan)
        BY <1>2 DEF IdsFresh
      <4>2. t.attempts \in 1..MaxTaskRetries
        BY <1>3, <2>4, LimitAssumption
      <4> QED BY <4>1, <4>2
    <3>2. last \notin Tried(plan)
      <4> SUFFICES ASSUME NEW i \in DOMAIN plan, plan[i].id = id,
                          t.attempts <= plan[i].attempts
                   PROVE  FALSE
        BY DEF Tried
      <4>1. i = k
        BY <1>2 DEF IdsFresh
      <4> QED BY <1>3, <2>4, <4>1
    <3>3. Tried(plan') = Tried(plan) \cup {last}
      <4>1. Tried(plan') \subseteq (1..Len(plan)) \X (1..MaxTaskRetries)
        BY <1>1 DEF Tried
      <4>2. Tried(plan) \subseteq (1..Len(plan)) \X (1..MaxTaskRetries)
        BY DEF Tried
      <4> HIDE DEF last
      <4> QED BY <2>3, <2>4, <3>1, <4>1, <4>2
    <3> HIDE DEF last
    <3> QED BY <2>1, <2>4, <3>2, <3>3, FS_AddElement
  <2>5. CASE node' = "OBSERVE" /\ ~(t.attempts <= MaxTaskRetries)
    <3>1. last \notin (1..Len(plan)) \X (1..MaxTaskRetries)
      BY <2>5, LimitAssumption
    <3>2. Tried(plan') = Tried(plan)
      <4>1. Tried(plan') \subseteq (1..Len(plan)) \X (1..MaxTaskRetries)
        BY <1>1 DEF Tried
      <4>2. Tried(plan) \subseteq (1..Len(plan)) \X (1..MaxTaskRetries)
        BY DEF Tried
      <4> HIDE DEF last
      <4> QED BY <2>3, <2>5, <3>1, <4>1, <4>2
    <3> HIDE DEF last
    <3> QED BY <2>1, <2>5, <3>2
  <2> QED BY <2>2, <2>4, <2>5
<1> QED BY <1>4, <1>5

LEMMA InitSteps == Init => StepsInv
<1> SUFFICES ASSUME Init PROVE StepsInv
  OBVIOUS
<1>1. /\ plan \in Seq(Task) /\ IdsFresh(plan) /\ steps = 0 /\ revisions = 0
      /\ node = "START"
  BY InitInv DEF Init, Inv, TypeOK
<1>2. Cardinality(Done(plan)) \in Nat /\ Cardinality(Tried(plan)) \in Nat
  BY <1>1, TriedBound, DoneBound
<1>3. Worth(node, status) = 0 /\ ~Trying(plan, node, current)
  BY <1>1 DEF Worth, Trying
<1> QED BY <1>1, <1>2, <1>3 DEF StepsInv

LEMMA NextSteps == Inv /\ StepsInv /\ [Next]_vars => StepsInv'
<1> SUFFICES ASSUME Inv, StepsInv, [Next]_vars PROVE StepsInv'
  OBVIOUS
<1> DEFINE d == Cardinality(Done(plan))
           d1 == Cardinality(Done(plan'))
           t == Cardinality(Tried(plan))
           t1 == Cardinality(Tried(plan'))
           w == Worth(node, status)
           w1 == Worth(node', status')
           h == IF Trying(plan, node, current) THEN 1 ELSE 0
           h1 == IF Trying(plan', node', current') THEN 1 ELSE 0
<1>1. /\ plan \in Seq(Task) /\ IdsFresh(plan) /\ node \in Nodes
      /\ plan' \in Seq(Task) /\ IdsFresh(plan') /\ node' \in Nodes
      /\ steps \in Nat /\ revisions \in Nat
      /\ steps' \in Nat /\ revisions' \in Nat
  BY NextInv DEF Inv, TypeOK
<1>2. d \in Nat /\ d1 \in Nat /\ t \in Nat /\ t1 \in Nat
  BY <1>1, TriedBound, DoneBound
<1>3. /\ w \in Nat /\ w1 \in Nat
      /\ node \in {"OBSERVE", "DECIDE"} => w >= 4
      /\ node' \in {"OBSERVE", "DECIDE"} => w1 >= 4
  BY <1>1 DEF Worth, Nodes
<1>4. /\ h \in {0, 1} /\ h1 \in {0, 1}
      /\ node' \notin {"OBSERVE", "DECIDE"} => h1 = 0
  BY DEF Trying
<1>5. steps + 4 * h <= w + 3 * d + 4 * (t + revisions)
  BY DEF StepsInv
<1>6. SUFFICES steps' + 4 * h1 <= w1 + 3 * d1 + 4 * (t1 + revisions')
  BY DEF StepsInv
\* Every handler is worth one step more than the one before it, or is paid for.
<1>7. /\ w = IF node = "EXECUTE" /\ Waiting THEN 6 ELSE
             [START |-> 0, UNDERSTAND |-> 0, CREATE_PLAN |-> 1,
              SELECT_NEXT |-> 2, EXECUTE |-> 3, OBSERVE |-> 4, DECIDE |-> 5,
              VERIFY |-> 3, STORE_MEMORY |-> 6, END |-> 7][node]
      /\ w1 = IF node' = "EXECUTE" /\ Waiting' THEN 6 ELSE
             [START |-> 0, UNDERSTAND |-> 0, CREATE_PLAN |-> 1,
              SELECT_NEXT |-> 2, EXECUTE |-> 3, OBSERVE |-> 4, DECIDE |-> 5,
              VERIFY |-> 3, STORE_MEMORY |-> 6, END |-> 7][node']
  BY DEF Worth, Waiting
<1>8. CASE steps' = 0
  <2>1. 4 * h1 <= w1 /\ h1 \in Nat
    BY <1>3, <1>4
  <2>2. w1 \in Nat /\ d1 \in Nat /\ t1 \in Nat /\ revisions' \in Nat
    BY <1>1, <1>2, <1>3
  <2> HIDE DEF d, d1, t, t1, w, w1, h, h1
  <2>3. ASSUME NEW a \in Nat, NEW b \in Nat, NEW c \in Nat, NEW e \in Nat,
               NEW f \in Nat, 4 * a <= b
        PROVE  0 + 4 * a <= b + 3 * c + 4 * (e + f)
    BY <2>3
  <2>4. 0 + 4 * h1 <= w1 + 3 * d1 + 4 * (t1 + revisions')
    BY <2>1, <2>2, <2>3
  <2> QED BY <1>8, <2>4
<1>9. CASE /\ steps' = steps /\ node' = node /\ plan' = plan
           /\ revisions' = revisions /\ current' = current
           /\ Waiting => Waiting'
  <2>1. d1 = d /\ t1 = t /\ h1 = h
    BY <1>9
  <2>2. w1 >= w
    BY <1>1, <1>7, <1>9 DEF Nodes
  <2> HIDE DEF d, d1, t, t1, w, w1, h, h1
  <2> QED BY <1>1, <1>2, <1>3, <1>4, <1>5, <1>9, <2>1, <2>2
<1>10. CASE /\ steps' = steps + 1 /\ ~Waiting
            /\ current' = current \/ node = "SELECT_NEXT"
            /\ node' = "EXECUTE" /\ node # "SELECT_NEXT" => Waiting'
            /\ \/ node # "END" /\ node' = "END"
               \/ node = "UNDERSTAND" /\ node' = "CREATE_PLAN"
               \/ node = "CREATE_PLAN" /\ node' = "SELECT_NEXT"
               \/ /\ node = "SELECT_NEXT"
                  /\ node' \in {"EXECUTE", "VERIFY", "STORE_MEMORY"}
               \/ /\ node = "EXECUTE"
                  /\ node' \in {"SELECT_NEXT", "OBSERVE", "EXECUTE"}
               \/ node = "OBSERVE" /\ node' \in {"SELECT_NEXT", "DECIDE"}
               \/ /\ node = "DECIDE"
                  /\ node' \in {"SELECT_NEXT", "EXECUTE", "STORE_MEMORY"}
               \/ node = "VERIFY" /\ node' = "STORE_MEMORY"
  <2>1. CASE /\ plan' = plan /\ revisions' = revisions
             /\ node = "SELECT_NEXT" => node' # "EXECUTE"
             /\ node = "EXECUTE" => node' = "EXECUTE"
             /\ node = "OBSERVE" => node' \in {"OBSERVE", "DECIDE", "END"}
             /\ node = "DECIDE" => node' \in {"DECIDE", "EXECUTE"}
    <3>1. d1 = d /\ t1 = t
      BY <2>1
    <3>2. h1 <= h
      BY <1>10, <2>1 DEF Trying
    <3>3. w1 >= w + 1
      BY <1>1, <1>7, <1>10, <2>1 DEF Nodes
    <3>4. /\ h \in Nat /\ h1 \in Nat /\ w \in Nat /\ w1 \in Nat
          /\ steps' = steps + 1 /\ revisions' = revisions
      BY <1>3, <1>4, <1>10, <2>1
    <3>5. steps \in Nat /\ revisions \in Nat
      BY <1>1
    <3> HIDE DEF d, d1, t, t1, w, w1, h, h1
    <3>6. steps + 1 + 4 * h1 <= w1 + 3 * d + 4 * (t + revisions)
      BY <1>2, <1>5, <3>2, <3>3, <3>4, <3>5
    <3> QED BY <3>1, <3>4, <3>6
  <2>2. CASE /\ plan = <<>> /\ node = "CREATE_PLAN"
             /\ node' \in {"SELECT_NEXT", "END"} /\ revisions' = revisions
    <3>1. d = 0 /\ t = 0
      <4>1. Done(plan) = {} /\ Tried(plan) = {}
        BY <2>2 DEF Done, Tried
      <4> QED BY <4>1, FS_EmptySet
    <3>2. h1 = 0 /\ w1 >= w + 1
      BY <1>1, <1>4, <1>7, <2>2 DEF Nodes
    <3> HIDE DEF d, d1, t, t1, w, w1, h, h1
    <3> QED BY <1>1, <1>2, <1>3, <1>4, <1>5, <1>10, <2>2, <3>1, <3>2
  <2>3. ASSUME revisions' = revisions, NEW k \in DOMAIN plan, NEW u,
               Rewritten(k, u)
        PROVE  steps' + 4 * h1 <= w1 + 3 * d1 + 4 * (t1 + revisions')
    <3>1. /\ d1 = d + IF u.status = "completed" THEN 1 ELSE 0
          /\ t1 = t + IF node' = "OBSERVE" /\ u.attempts <= MaxTaskRetries
                      THEN 1 ELSE 0
      BY <2>3, RewritingPays
    <3>2. /\ u.id = plan[k].id /\ plan'[k] = u /\ DOMAIN plan' = DOMAIN plan
      BY <2>3, RewrittenFields DEF SameTask
    <3>3. CASE /\ node = "SELECT_NEXT" /\ node' = "EXECUTE"
      <4>1. h1 = 0 /\ w = 2 /\ w1 >= 3
        BY <1>4, <1>7, <3>3
      <4>2. d1 >= d /\ t1 >= t
        BY <1>2, <3>1
      <4> HIDE DEF d, d1, t, t1, w, w1, h, h1
      <4> QED BY <1>1, <1>2, <1>3, <1>4, <1>5, <1>10, <2>3, <4>1, <4>2
    <3>4. CASE node = "EXECUTE" /\ node' = "OBSERVE" /\ u.status = "running"
      <4>1. h1 = 1 => u.attempts <= MaxTaskRetries
        <5> SUFFICES ASSUME Trying(plan', node', current')
                     PROVE  u.attempts <= MaxTaskRetries
          OBVIOUS
        <5>1. PICK i \in DOMAIN plan' : /\ plan'[i].id = current'
                                        /\ plan'[i].attempts <= MaxTaskRetries
          BY DEF Trying
        <5>2. u.id = current'
          BY <1>10, <2>3, <3>2, <3>4 DEF Rewritten
        <5>3. i = k
          BY <1>1, <3>2, <5>1, <5>2 DEF IdsFresh
        <5> QED BY <3>2, <5>1, <5>3
      <4>2. t1 >= t + h1 /\ d1 = d
        BY <1>2, <1>4, <3>1, <3>4, <4>1
      <4>3. w = 3 /\ w1 = 4
        BY <1>7, <2>3, <3>4 DEF Rewritten, Waiting
      <4> HIDE DEF d, d1, t, t1, w, w1, h, h1
      <4> QED BY <1>1, <1>2, <1>4, <1>5, <1>10, <2>3, <4>2, <4>3
    <3>5. CASE /\ node \in {"EXECUTE", "OBSERVE"}
               /\ node' \in {"SELECT_NEXT", "END"} /\ u.status = "completed"
      <4>1. h1 = 0 /\ w <= 4 /\ w1 >= 2
        BY <1>4, <1>7, <2>3, <3>5 DEF Rewritten, Waiting
      <4>2. d1 = d + 1 /\ t1 = t
        BY <1>2, <3>1, <3>5
      <4> HIDE DEF d, d1, t, t1, w, w1, h, h1
      <4> QED BY <1>1, <1>2, <1>3, <1>4, <1>5, <1>10, <2>3, <4>1, <4>2
    <3>6. CASE /\ node = "DECIDE" /\ node' = "SELECT_NEXT"
               /\ Decision(plan[k]) = "RETRY" /\ u.status = "pending"
      <4>1. h1 = 0 /\ w = 5 /\ w1 = 2
        BY <1>4, <1>7, <3>6
      <4>2. h = 1
        <5>1. plan[k].attempts <= MaxTaskRetries
          BY <3>6 DEF Decision
        <5>2. plan[k].id = current
          BY <2>3, <3>6 DEF Rewritten
        <5> QED BY <3>6, <5>1, <5>2 DEF Trying
      <4>3. d1 = d /\ t1 = t
        BY <1>2, <3>1, <3>6
      <4> HIDE DEF d, d1, t, t1, w, w1, h, h1
      <4> QED BY <1>1, <1>2, <1>3, <1>4, <1>5, <1>10, <2>3, <4>1, <4>2, <4>3
    <3>7. CASE node = "DECIDE" /\ node' = "STORE_MEMORY" /\ u.status = "failed"
      <4>1. h1 = 0 /\ w = 5 /\ w1 = 6
        BY <1>4, <1>7, <3>7
      <4>2. d1 = d /\ t1 = t
        BY <1>2, <3>1, <3>7
      <4> HIDE DEF d, d1, t, t1, w, w1, h, h1
      <4> QED BY <1>1, <1>2, <1>3, <1>4, <1>5, <1>10, <2>3, <4>1, <4>2
    <3> QED BY <2>3, <3>3, <3>4, <3>5, <3>6, <3>7 DEF Rewritten
  <2>4. ASSUME NEW k \in DOMAIN plan, plan[k].status # "completed",
               node = "DECIDE", node' = "SELECT_NEXT",
               plan' = Revise(plan, k), revisions' = revisions + 1
        PROVE  steps' + 4 * h1 <= w1 + 3 * d1 + 4 * (t1 + revisions')
    <3>1. d1 = d /\ t1 = t
      BY <1>1, <2>4, RevisionPaysNothing
    <3>2. h1 = 0 /\ w = 5 /\ w1 = 2
      BY <1>4, <1>7, <2>4
    <3> HIDE DEF d, d1, t, t1, w, w1, h, h1
    <3> QED BY <1>1, <1>2, <1>3, <1>4, <1>5, <1>10, <2>4, <3>1, <3>2
  <2> HIDE DEF d, d1, t, t1, w, w1, h, h1
  <2> QED BY <2>1, <2>2, <2>3, <2>4, StepOfPlan DEF PlanStep
<1> HIDE DEF d, d1, t, t1, w, w1, h, h1
<1> QED BY <1>8, <1>9, <1>10, StepOfSteps

\* The retry and revision limits alone end a call of resume(): whatever the
\* tools return, the number of handlers is linear in the tasks, the retries
\* allowed for each, and the revisions.
THEOREM LimitsEndTheCall == Spec => []StepsBoundedByRecovery
<1>1. Inv /\ RecoveryInv /\ StepsInv => StepsBoundedByRecovery
  BY StepsInvBounds
<1> QED
  BY <1>1, InitRecovery, NextRecovery, InitSteps, NextSteps, Invariance, PTL
     DEF Spec
=============================================================================
