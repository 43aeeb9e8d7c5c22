------------------------------ MODULE Objective ------------------------------
(***************************************************************************)
(* What a run promises to the person who posed the objective, without the  *)
(* machinery of nodes, retries and revisions: work is planned once, parts  *)
(* of it get done and stay done, more work may turn up, the run may wait   *)
(* for a human, and it ends once, with a verdict that is only positive     *)
(* when nothing is left to do.  agent/orchestrator.py implements it, see   *)
(* KeepsPromise in Orchestrator.                                           *)
(***************************************************************************)
EXTENDS Naturals, Sequences

VARIABLES
  todo,     \* tasks still to be done
  done,     \* tasks done
  waiting,  \* is the run waiting for a human?
  verdict   \* what was announced at the end

vars == <<todo, done, waiting, verdict>>

Init == todo = {} /\ done = {} /\ waiting = FALSE /\ verdict = <<>>

Working == ~waiting /\ verdict = <<>>

Plan ==
  /\ Working /\ todo = {} /\ done = {}
  /\ todo' # {} /\ done' = {}
  /\ UNCHANGED <<waiting, verdict>>

Finish ==
  /\ Working
  /\ \E t \in todo : todo' = todo \ {t} /\ done' = done \cup {t}
  /\ UNCHANGED <<waiting, verdict>>

\* A revision of the plan adds work; it neither drops work nor undoes any.
Revise ==
  /\ Working
  /\ todo \subseteq todo' /\ todo' \cap done = {} /\ done' = done
  /\ UNCHANGED <<waiting, verdict>>

Ask == Working /\ waiting' = TRUE /\ UNCHANGED <<todo, done, verdict>>

Answer == waiting /\ waiting' = FALSE /\ UNCHANGED <<todo, done, verdict>>

Succeed ==
  /\ Working /\ todo = {} /\ done # {}
  /\ verdict' = <<"OBJECTIVE_COMPLETED">>
  /\ UNCHANGED <<todo, done, waiting>>

\* A failure may interrupt the run just after a last bit of progress.
Fail ==
  /\ Working
  /\ done \subseteq done' /\ todo \subseteq todo' \cup done'
  /\ verdict' = <<"OBJECTIVE_FAILED">>
  /\ UNCHANGED waiting

Next == Plan \/ Finish \/ Revise \/ Ask \/ Answer \/ Succeed \/ Fail

Spec == Init /\ [][Next]_vars
=============================================================================
