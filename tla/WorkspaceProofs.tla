--------------------------- MODULE WorkspaceProofs ---------------------------
(***************************************************************************)
(* For any plans, branches and files: git_push never moves a protected     *)
(* branch, a commit holds what the plan adds, unless git_add was remedied, *)
(* and a plan that is done has published what it planned to.               *)
(*                                                                         *)
(* The first holds of every step.  The second follows a change from the    *)
(* index to a branch and to the remote and back: only git_add lets one in, *)
(* and what is left to be called is planned or a remediation.  The third   *)
(* follows the plan: what is left are its tasks from one on, behind        *)
(* remediations of that one, and how far a change has come is known from   *)
(* which one that is, because a call that succeeds has done its work and   *)
(* none undoes that of another.                                            *)
(***************************************************************************)
EXTENDS Workspace, TaskLoopProofs

Arguments == SUBSET (STRING \X STRING)
AsPlanned == {<<planned[i].tool, planned[i].given>> : i \in DOMAIN planned}

Typed ==
  /\ planned \in Plans
  /\ tasks \in Seq(TaskOf(STRING, Arguments))
  /\ verdict \in {"running", "waiting"} => tasks # <<>>
  /\ head \in Branches /\ exists \subseteq Branches /\ changed \subseteq Files
  /\ holds \in [Branches -> SUBSET Files] /\ staged \subseteq Files
  /\ origin \in [Branches -> SUBSET Files]

\* A call that is left was planned, or is a remediation without arguments.
Justified == \A c \in Calls : c \in AsPlanned \/ (c[1] \in revised /\ c[2] = {})

\* The changes that may be in the index, in a branch or at the remote.
Rightful == Theirs \cup {f \in Files : \E i \in DOMAIN planned : PlansToAdd(planned[i], f)}

\* What the index, a branch or the remote has.
InRepo == {f \in Files : f \in staged \/ \E b \in Branches : f \in holds[b] \cup origin[b]}

Held == "git_add" \notin revised => InRepo \subseteq Rightful

IInv == Typed /\ Justified /\ Held

-----------------------------------------------------------------------------
(* The loop.                                                               *)

LoopInv ==
  /\ tasks \in Seq(TaskOf(STRING, Arguments))
  /\ verdict \in {"running", "waiting"} => tasks # <<>>
  /\ Justified

\* However a call ends, those left are planned or remediations, and a tool that
\* was remedied stays so.
LEMMA OutcomeKeeps ==
  ASSUME LoopInv, verdict = "running", UNCHANGED planned, Succeed \/ Fail \/ Escalate
  PROVE  LoopInv' /\ revised \subseteq revised'
<1>0. tasks \in Seq(TaskOf(STRING, Arguments)) /\ tasks # <<>> /\ {} \in Arguments
  BY DEF LoopInv, Arguments
<1>1. AsPlanned' = AsPlanned
  BY DEF AsPlanned
<1>2. CASE Succeed
  <2>1. /\ tasks' \in Seq(TaskOf(STRING, Arguments))
        /\ verdict' = (IF tasks' = <<>> THEN "done" ELSE "running")
        /\ Calls' \subseteq Calls /\ UNCHANGED revised
    BY <1>0, <1>2, SucceedLemma
  <2> QED
    BY <1>1, <2>1 DEF LoopInv, Justified
<1>3. CASE Escalate
  <2>1. /\ tasks' \in Seq(TaskOf(STRING, Arguments)) /\ tasks' # <<>>
        /\ UNCHANGED <<Calls, revised>>
    BY <1>0, <1>3, EscalateLemma
  <2> QED
    BY <1>1, <2>1 DEF LoopInv, Justified
<1>4. CASE Fail
  <2>1. /\ tasks' \in Seq(TaskOf(STRING, Arguments)) /\ tasks' # <<>>
        /\ \/ UNCHANGED <<Calls, revised>>
           \/ Calls' = Calls \cup {<<Now.tool, {}>>} /\ revised' = revised \cup {Now.tool}
    BY <1>0, <1>4, FailLemma
  <2>2. CASE UNCHANGED <<Calls, revised>>
    BY <1>1, <2>1, <2>2 DEF LoopInv, Justified
  <2>3. CASE Calls' = Calls \cup {<<Now.tool, {}>>} /\ revised' = revised \cup {Now.tool}
    <3>1. Justified'
      BY <1>1, <2>3 DEF LoopInv, Justified
    <3> QED
      BY <2>1, <2>3, <3>1 DEF LoopInv
  <2> QED
    BY <2>1, <2>2, <2>3
<1> QED
  BY <1>2, <1>3, <1>4

LEMMA SameLoop ==
  ASSUME LoopInv, UNCHANGED <<planned, tasks, revised>>,
         verdict' = verdict \/ verdict \in {"running", "waiting"}
  PROVE  LoopInv' /\ revised \subseteq revised'
BY DEF LoopInv, Justified, Calls, AsPlanned

LEMMA LoopPart == IInv => LoopInv
BY DEF IInv, Typed, LoopInv

-----------------------------------------------------------------------------
(* The repository.                                                         *)

RepoTyped ==
  /\ head \in Branches /\ exists \subseteq Branches /\ changed \subseteq Files
  /\ holds \in [Branches -> SUBSET Files] /\ staged \subseteq Files
  /\ origin \in [Branches -> SUBSET Files]

\* A step by which the repository gets no change that it did not have.
Moves == RepoTyped' /\ InRepo' \subseteq InRepo

LEMMA DoesMoves ==
  ASSUME RepoTyped, NEW c, Does(c) PROVE Moves
<1>0. Home \in Branches /\ "detached" \in Branches /\ Theirs \subseteq Files
  BY WorkspaceAssumption
<1>1. UNCHANGED <<exists, staged, origin>>
  BY DEF Does
<1>2. CASE UNCHANGED <<head, holds>> /\ changed' \subseteq Files
  BY <1>1, <1>2 DEF Moves, RepoTyped, InRepo
<1>3. CASE /\ head' \in {Home, "detached"} /\ UNCHANGED changed
           /\ holds' = [holds EXCEPT !["detached"] =
                          IF head' = "detached" THEN holds[head] ELSE @]
  <2>1. \A b \in Branches : holds'[b] \in {holds[b], holds[head]}
    BY <1>0, <1>3 DEF RepoTyped
  <2>2. RepoTyped'
    BY <1>0, <1>1, <1>3, <2>1 DEF RepoTyped
  <2> QED
    BY <1>1, <2>1, <2>2 DEF Moves, RepoTyped, InRepo
<1> QED
  BY <1>2, <1>3 DEF Does, RepoTyped

LEMMA SameMoves ==
  ASSUME RepoTyped, UNCHANGED <<tree, origin>> PROVE Moves
BY DEF RepoTyped, Moves, tree, InRepo

\* A branch gets what another has, or what the remote had of it.
LEMMA CopyMoves ==
  ASSUME RepoTyped, NEW b \in Branches,
         NEW new \in {holds[b], holds[head]} \cup SUBSET origin[b],
         head' \in Branches, exists' \subseteq Branches,
         UNCHANGED <<changed, staged, origin>>, holds' = [holds EXCEPT ![b] = new]
  PROVE  Moves
<1>1. \A d \in Branches : holds'[d] \subseteq holds[d] \cup holds[head] \cup origin[d]
  BY DEF RepoTyped
<1>2. RepoTyped'
  BY <1>1 DEF RepoTyped
<1> QED
  BY <1>1, <1>2 DEF Moves, RepoTyped, InRepo

LEMMA RecordMoves ==
  ASSUME RepoTyped, Record, UNCHANGED origin PROVE Moves
<1>1. \A d \in Branches : holds'[d] \subseteq holds[d] \cup staged
  BY DEF Record, RepoTyped
<1>2. RepoTyped'
  BY <1>1 DEF Record, RepoTyped
<1> QED
  BY <1>1, <1>2 DEF Moves, Record, RepoTyped, InRepo

LEMMA SendsMoves ==
  ASSUME RepoTyped, UNCHANGED tree, NEW from \in Branches, NEW to \in Branches,
         origin' = [origin EXCEPT ![to] = holds[from]]
  PROVE  Moves
<1>1. \A d \in Branches : origin'[d] \in {origin[d], holds[from]}
  BY DEF RepoTyped
<1>2. RepoTyped'
  BY <1>1 DEF tree, RepoTyped
<1> QED
  BY <1>1, <1>2 DEF Moves, tree, RepoTyped, InRepo

LEMMA PullMoves ==
  ASSUME RepoTyped, NEW new \in SUBSET Files,
         \A f \in new : \E b \in Branches : f \in origin[b],
         \/ /\ holds' = [holds EXCEPT ![head] = @ \cup new]
            /\ UNCHANGED <<head, exists, changed, staged, origin>>
         \/ changed' = changed \cup new /\ UNCHANGED <<head, exists, holds, staged, origin>>
  PROVE  Moves
<1>1. \A d \in Branches : holds'[d] \subseteq holds[d] \cup new
  BY DEF RepoTyped
<1>2. RepoTyped'
  BY <1>1 DEF RepoTyped
<1> QED
  BY <1>1, <1>2 DEF Moves, RepoTyped, InRepo

-----------------------------------------------------------------------------
(* The steps.                                                              *)

LEMMA RepoPart == IInv => RepoTyped
BY DEF IInv, Typed, RepoTyped

LEMMA Joined ==
  ASSUME IInv, LoopInv', revised \subseteq revised', UNCHANGED planned, Moves
  PROVE  IInv'
<1>1. Rightful' = Rightful
  BY DEF Rightful
<1>2. Held'
  BY <1>1 DEF IInv, Held, Moves
<1>3. Typed' /\ Justified'
  BY DEF IInv, LoopInv, Typed, Moves, RepoTyped
<1> QED
  BY <1>2, <1>3 DEF IInv

\* A call that ends, and moves the repository no further than Moves.
LEMMA Ends ==
  ASSUME IInv, verdict = "running", UNCHANGED planned, Moves, Succeed \/ Fail \/ Escalate
  PROVE  IInv'
BY LoopPart, OutcomeKeeps, Joined

\* The call in hand was planned, or is a remediation.
LEMMA InHandJustified ==
  ASSUME IInv, verdict = "running"
  PROVE  /\ Now.given \subseteq STRING \X STRING
         /\ \/ Now.given = {} /\ Now.tool \in revised
            \/ \E i \in DOMAIN planned : /\ planned[i].tool = Now.tool
                                         /\ planned[i].given = Now.given
<1>1. InHand \in Calls /\ Now.given \in Arguments
  BY InHandLemma DEF IInv, Typed
<1>2. InHand \in AsPlanned \/ (InHand[1] \in revised /\ InHand[2] = {})
  BY <1>1 DEF IInv, Justified
<1>3. InHand[1] = Now.tool /\ InHand[2] = Now.given
  BY DEF InHand
<1>4. ASSUME NEW i \in DOMAIN planned, InHand = <<planned[i].tool, planned[i].given>>
      PROVE  planned[i].tool = Now.tool /\ planned[i].given = Now.given
  BY <1>4 DEF InHand
<1> QED
  BY <1>1, <1>2, <1>3, <1>4 DEF AsPlanned, Arguments

\* Its arguments name branches and commands.
LEMMA GivenNames ==
  ASSUME IInv, verdict = "running"
  PROVE  /\ Given("branch") \subseteq Names \cup DOMAIN Refspec
         /\ Now.tool # "git_push" => Given("branch") \subseteq Branches
         /\ Now.tool = "git_branch" => Given("create") \subseteq Branches
         /\ Given("command") \subseteq Commands
<1>1. planned \in Plans
  BY DEF IInv, Typed
<1>2. CASE Now.given = {}
  BY <1>2 DEF Given
<1>3. CASE \E i \in DOMAIN planned : planned[i].tool = Now.tool /\ planned[i].given = Now.given
  <2>1. \A pair \in Now.given :
          /\ pair[1] = "branch" =>
               pair[2] \in Names \/ (Now.tool = "git_push" /\ pair[2] \in DOMAIN Refspec)
          /\ pair[1] = "create" /\ Now.tool = "git_branch" => pair[2] \in Names
          /\ pair[1] = "command" => pair[2] \in Commands
    BY <1>1, <1>3, WorkspaceAssumption
  <2> QED
    BY <2>1 DEF Given, Names
<1> QED
  BY <1>2, <1>3, InHandJustified

LEMMA CommandsKeep ==
  ASSUME IInv, TerminalExec \/ RunCommand \/ SandboxExec PROVE IInv'
<1>1. verdict = "running" /\ UNCHANGED planned
  BY DEF TerminalExec, RunCommand, SandboxExec, Call
<1>2. \/ UNCHANGED repo /\ (Fail \/ Escalate)
      \/ \E c \in Given("command") : Shell(c)
  BY DEF TerminalExec, RunCommand, SandboxExec, MissingCommand, RunDocker, RunLocal
<1>3. CASE UNCHANGED repo /\ (Fail \/ Escalate)
  BY <1>1, <1>3, RepoPart, SameMoves, Ends DEF repo
<1>4. ASSUME NEW c, Shell(c) PROVE IInv'
  <2>1. Does(c) /\ (Succeed \/ Fail)
    BY <1>4 DEF Shell
  <2> QED
    BY <1>1, <2>1, RepoPart, DoesMoves, Ends
<1> QED
  BY <1>2, <1>3, <1>4

LEMMA LooksKeep ==
  ASSUME IInv, verdict = "running", UNCHANGED <<planned, tree, origin>>,
         Succeed \/ Fail
  PROVE  IInv'
BY RepoPart, SameMoves, Ends

LEMMA BranchKeeps ==
  ASSUME IInv, Branch PROVE IInv'
<1>1. verdict = "running" /\ Now.tool = "git_branch" /\ UNCHANGED planned
  BY DEF Branch, Call
<1>2. CASE Look
  BY <1>1, <1>2, LooksKeep DEF Look, repo
<1>3. ASSUME NEW b \in Given("create"), UNCHANGED origin, Succeed \/ Fail,
             \/ UNCHANGED tree
             \/ /\ holds' = [holds EXCEPT ![b] = holds[head]]
                /\ exists' = exists \cup {b} /\ UNCHANGED <<head, changed, staged>>
      PROVE  IInv'
  <2>1. CASE UNCHANGED tree
    BY <1>1, <1>3, <2>1, RepoPart, SameMoves, Ends
  <2>2. CASE /\ holds' = [holds EXCEPT ![b] = holds[head]]
             /\ exists' = exists \cup {b} /\ UNCHANGED <<head, changed, staged>>
    <3>1. b \in Branches /\ head' \in Branches /\ exists' \subseteq Branches
      BY <1>1, <2>2, RepoPart, GivenNames DEF RepoTyped
    <3>2. Moves
      BY <1>3, <2>2, <3>1, RepoPart, CopyMoves
    <3> QED
      BY <1>1, <1>3, <3>2, Ends
  <2> QED
    BY <1>3, <2>1, <2>2
<1> QED
  BY <1>2, <1>3 DEF Branch, Git

LEMMA CheckoutKeeps ==
  ASSUME IInv, Checkout PROVE IInv'
<1>1. verdict = "running" /\ Now.tool = "git_checkout" /\ UNCHANGED planned
  BY DEF Checkout, Call
<1>2. CASE Rejected
  BY <1>1, <1>2, LooksKeep DEF Rejected, repo
<1>3. ASSUME NEW b \in Given("branch"), NEW may,
             Git(may, /\ head' = b /\ exists' = exists \cup {b}
                      /\ \E new \in CheckedOut(b) : holds' = [holds EXCEPT ![b] = new]
                      /\ UNCHANGED <<changed, staged>>)
      PROVE  IInv'
  <2>1. b \in Branches /\ UNCHANGED origin /\ (Succeed \/ Fail)
    BY <1>1, <1>3, GivenNames DEF Git
  <2>2. CASE UNCHANGED tree
    BY <1>1, <2>1, <2>2, RepoPart, SameMoves, Ends
  <2>3. CASE /\ head' = b /\ exists' = exists \cup {b}
             /\ \E new \in CheckedOut(b) : holds' = [holds EXCEPT ![b] = new]
             /\ UNCHANGED <<changed, staged>>
    <3>1. PICK new \in {holds[b], holds[head]} \cup SUBSET origin[b] :
            holds' = [holds EXCEPT ![b] = new]
      BY <2>3 DEF CheckedOut
    <3>2. head' \in Branches /\ exists' \subseteq Branches
      BY <2>1, <2>3, RepoPart DEF RepoTyped
    <3>3. Moves
      BY <2>1, <2>3, <3>1, <3>2, RepoPart, CopyMoves
    <3> QED
      BY <1>1, <2>1, <3>3, Ends
  <2> QED
    BY <1>3, <2>2, <2>3 DEF Git
<1> QED
  BY <1>2, <1>3 DEF Checkout

LEMMA CommitKeeps ==
  ASSUME IInv, Commit PROVE IInv'
<1>1. verdict = "running" /\ UNCHANGED planned
  BY DEF Commit, Call
<1>2. CASE Rejected
  BY <1>1, <1>2, LooksKeep DEF Rejected, repo
<1>3. CASE Git(staged # {} /\ ~locked, Record)
  <2>1. UNCHANGED origin /\ (Succeed \/ Fail) /\ (UNCHANGED tree \/ Record)
    BY <1>3 DEF Git
  <2>2. Moves
    BY <2>1, RepoPart, SameMoves, RecordMoves
  <2> QED
    BY <1>1, <2>1, <2>2, Ends
<1> QED
  BY <1>2, <1>3 DEF Commit

\* What git_add without a remedy stages was planned to be added.
LEMMA AddKeeps ==
  ASSUME IInv, Add PROVE IInv'
<1>1. verdict = "running" /\ Now.tool = "git_add" /\ UNCHANGED planned
  BY DEF Add, Call
<1>2. PICK files \in {changed, changed \cap Given("files")} :
        /\ Git(~locked, /\ staged' = staged \cup files /\ changed' = changed \ files
                        /\ UNCHANGED <<head, exists, holds>>)
        /\ files = IF Given("files") = {} THEN changed ELSE changed \cap Given("files")
  BY DEF Add, Stages
<1>3. UNCHANGED origin /\ (Succeed \/ Fail)
  BY <1>2 DEF Git
<1>4. CASE UNCHANGED tree
  BY <1>1, <1>3, <1>4, RepoPart, SameMoves, Ends
<1>5. CASE /\ staged' = staged \cup files /\ changed' = changed \ files
           /\ UNCHANGED <<head, exists, holds>>
  <2>1. LoopInv' /\ revised \subseteq revised'
    BY <1>1, <1>3, LoopPart, OutcomeKeeps
  <2>2. RepoTyped' /\ InRepo' \subseteq InRepo \cup files /\ files \subseteq Files
    BY <1>2, <1>3, <1>5, RepoPart DEF RepoTyped, InRepo
  <2>3. ASSUME "git_add" \notin revised, NEW f \in files PROVE f \in Rightful
    <3>1. PICK i \in DOMAIN planned :
            planned[i].tool = "git_add" /\ planned[i].given = Now.given
      BY <1>1, <2>3, InHandJustified
    <3>2. CASE Given("files") = {}
      <4>1. "files" \notin Keys(planned[i])
        BY <3>1, <3>2 DEF Keys, Given
      <4> QED
        BY <2>2, <2>3, <3>1, <4>1 DEF Rightful, PlansToAdd
    <3>3. CASE f \in Given("files")
      <4>1. PICK pair \in Now.given : pair[1] = "files" /\ pair[2] = f
        BY <3>3 DEF Given
      <4>2. pair = <<"files", f>>
        BY <1>1, <4>1, InHandJustified
      <4> QED
        BY <2>2, <2>3, <3>1, <4>1, <4>2 DEF Rightful, PlansToAdd, Is
    <3> QED
      BY <1>2, <2>3, <3>2, <3>3
  <2>4. Rightful' = Rightful
    BY <1>1 DEF Rightful
  <2>5. Held'
    BY <2>1, <2>2, <2>3, <2>4 DEF IInv, Held
  <2>6. Typed' /\ Justified'
    BY <1>1, <2>1, <2>2 DEF IInv, Typed, LoopInv, RepoTyped
  <2> QED
    BY <2>5, <2>6 DEF IInv
<1> QED
  BY <1>2, <1>4, <1>5 DEF Git

LEMMA FindTargetKeeps ==
  ASSUME IInv, FindTarget PROVE IInv'
<1>1. verdict = "running" /\ UNCHANGED <<planned, repo>> /\ (UNCHANGED progress \/ Fail)
  BY DEF FindTarget, Call
<1>2. CASE Fail
  BY <1>1, <1>2, LooksKeep DEF repo
<1>3. CASE UNCHANGED progress
  <2>1. LoopInv' /\ revised \subseteq revised'
    BY <1>1, <1>3, LoopPart, SameLoop DEF progress
  <2> QED
    BY <1>1, <2>1, RepoPart, SameMoves, Joined DEF repo
<1> QED
  BY <1>1, <1>2, <1>3

LEMMA PushKeeps ==
  ASSUME IInv, Push PROVE IInv'
<1>1. verdict = "running" /\ UNCHANGED <<planned, tree>>
  BY DEF Push, Call
<1>2. PICK b : \/ UNCHANGED origin /\ (Fail \/ Escalate)
               \/ Sends(b)
  BY DEF Push
<1>3. CASE UNCHANGED origin /\ (Fail \/ Escalate)
  BY <1>1, <1>3, RepoPart, SameMoves, Ends
<1>4. CASE Sends(b)
  <2>1. /\ Succeed \/ Fail
        /\ \/ UNCHANGED origin
           \/ /\ Source(b) \in Branches /\ Destination(b) \in Branches
              /\ origin' = [origin EXCEPT ![Destination(b)] = holds[Source(b)]]
    BY <1>4, RepoPart, WorkspaceAssumption DEF Sends, RepoTyped, Names
  <2>2. Moves
    BY <1>1, <2>1, RepoPart, SameMoves, SendsMoves
  <2> QED
    BY <1>1, <2>1, <2>2, Ends
<1> QED
  BY <1>2, <1>3, <1>4

LEMMA PullKeeps ==
  ASSUME IInv, Pull PROVE IInv'
<1>1. /\ verdict = "running" /\ Now.tool = "git_pull" /\ UNCHANGED <<planned, origin>>
      /\ Succeed \/ Fail
  BY DEF Pull, Call, Git
<1>2. /\ Pulled \in SUBSET Files
      /\ \A f \in Pulled : \E b \in Branches : f \in origin[b]
  <2>1. ASSUME NEW f \in Pulled PROVE \E b \in Branches : f \in origin[b]
    BY <1>1, GivenNames, RepoPart DEF Pulled, RepoTyped
  <2> QED
    BY <2>1, RepoPart DEF RepoTyped
<1>3. \/ UNCHANGED tree
      \/ /\ holds' = [holds EXCEPT ![head] = @ \cup Pulled]
         /\ UNCHANGED <<head, exists, changed, staged>>
      \/ changed' = changed \cup Pulled /\ UNCHANGED <<head, exists, holds, staged>>
  BY DEF Pull, Git
<1>4. Moves
  BY <1>1, <1>2, <1>3, RepoPart, SameMoves, PullMoves
<1> QED
  BY <1>1, <1>4, Ends

LEMMA AlwaysIInv == Spec => []IInv
<1>1. Init => IInv
  <2> SUFFICES ASSUME Init PROVE IInv
    OBVIOUS
  <2>1. planned \in Seq(TaskOf(STRING, Arguments)) /\ planned # <<>>
    <3> DEFINE Fresh == [tool : STRING, given : Arguments, attempts : {0}]
    <3>1. planned \in Seq(Fresh) /\ planned # <<>>
      BY WorkspaceAssumption DEF Init, Arguments
    <3>2. Fresh \subseteq TaskOf(STRING, Arguments)
      BY DEF TaskOf
    <3> HIDE DEF Fresh
    <3> QED
      BY <3>1, <3>2
  <2>2. Typed
    BY <2>1, WorkspaceAssumption DEF Init, StartOn, Typed
  <2>3. Justified
    BY DEF Init, StartOn, Justified, Calls, AsPlanned
  <2>4. InRepo \subseteq Theirs
    BY DEF Init, InRepo
  <2> QED
    BY <2>2, <2>3, <2>4 DEF IInv, Held, Rightful
<1>2. IInv /\ [Next]_vars => IInv'
  <2> SUFFICES ASSUME IInv, [Next]_vars PROVE IInv'
    OBVIOUS
  <2>1. CASE Status \/ Diff \/ Log
    BY <2>1, LooksKeep DEF Status, Diff, Log, Call, Look, Git, repo
  <2>2. CASE Tool
    BY <2>1, <2>2, CommandsKeep, BranchKeeps, CheckoutKeeps, AddKeeps, CommitKeeps,
       FindTargetKeeps, PushKeeps, PullKeeps DEF Tool
  <2>3. CASE Resume
    <3>1. UNCHANGED <<planned, repo, tasks, revised>> /\ verdict = "waiting"
      BY <2>3 DEF Resume, Approve
    <3>2. LoopInv' /\ revised \subseteq revised'
      BY <3>1, LoopPart, SameLoop
    <3> QED
      BY <3>1, <3>2, RepoPart, SameMoves, Joined DEF repo
  <2>4. ASSUME NEW c, Stray(c) PROVE IInv'
    <3>1. Does(c) /\ UNCHANGED <<planned, progress>>
      BY <2>4 DEF Stray
    <3>2. LoopInv' /\ revised \subseteq revised'
      BY <3>1, LoopPart, SameLoop DEF progress
    <3> QED
      BY <3>1, <3>2, RepoPart, DoesMoves, Joined
  <2>5. CASE UNCHANGED vars
    <3>1. UNCHANGED <<planned, progress, repo>>
      BY <2>5 DEF vars
    <3>2. LoopInv' /\ revised \subseteq revised'
      BY <3>1, LoopPart, SameLoop DEF progress
    <3> QED
      BY <3>1, <3>2, RepoPart, SameMoves, Joined DEF repo
  <2> QED
    BY <2>2, <2>3, <2>4, <2>5 DEF Next
<1> QED
  BY <1>1, <1>2, PTL DEF Spec

\* A commit holds, and a push publishes, what the plan adds or others did: a
\* command that goes on after its timeout, a pull, a branch or a repeated call
\* lets nothing else in.  Only a remediation of git_add does.
THEOREM CommitsAsPlanned == Spec => []CommittedAsPlanned
<1>1. IInv => CommittedAsPlanned
  <2> SUFFICES ASSUME IInv, "git_add" \notin revised,
                      NEW b \in Branches, NEW f \in holds[b], f \notin Theirs
               PROVE  \E i \in DOMAIN planned : PlansToAdd(planned[i], f)
    BY DEF CommittedAsPlanned
  <2>1. f \in InRepo
    BY RepoPart DEF RepoTyped, InRepo
  <2> QED
    BY <2>1 DEF IInv, Held, Rightful
<1> QED
  BY <1>1, AlwaysIInv, PTL

-----------------------------------------------------------------------------
(* Types.                                                                  *)

\* The plan, the loop and the repository keep their types: HEAD is on one of the
\* branches, and only the files there are get staged, committed and pushed.
THEOREM WorkspaceTypes == Spec => []TypeOK
<1> DEFINE Rest == /\ planned \in Plans /\ LoopTypeOK /\ exists \subseteq Branches
                   /\ locked \in BOOLEAN
                   /\ target \in Branches \cup {"unknown"} /\ loose \subseteq Commands
<1>1. Init => Rest
  <2>1. Home \in Branches
    BY WorkspaceAssumption
  <2>2. Init => LoopTypeOK
    BY DEF Init, StartOn, LoopTypeOK
  <2> QED
    BY <2>1, <2>2 DEF Init
<1>2. IInv /\ Rest /\ [Next]_vars => Rest'
  <2> SUFFICES ASSUME IInv, Rest, [Next]_vars PROVE Rest'
    OBVIOUS
  <2>0. Home \in Branches /\ head \in Branches /\ (verdict = "running" => tasks # <<>>)
    BY WorkspaceAssumption DEF IInv, Typed
  <2> DEFINE Loop == \/ UNCHANGED <<progress, approvals>> \/ Approve
                     \/ (Succeed \/ Fail \/ Escalate) /\ UNCHANGED approvals
             Kept == /\ planned' = planned /\ exists' \subseteq Branches
                     /\ locked' \in BOOLEAN
                     /\ target' \in Branches \cup {"unknown"} /\ loose' \subseteq Commands
  <2>1. ASSUME Loop, Kept PROVE Rest'
    BY <2>1, LoopTypes DEF progress
  <2>2. ASSUME UNCHANGED <<planned, repo, target, loose>>, Loop PROVE Rest'
    BY <2>1, <2>2 DEF repo, tree
  <2>3. CASE TerminalExec \/ RunCommand \/ SandboxExec
    <3>1. verdict = "running" /\ UNCHANGED <<planned, approvals, target>>
      BY <2>3 DEF TerminalExec, RunCommand, SandboxExec, Call
    <3>2. CASE UNCHANGED <<repo, loose>> /\ (Fail \/ Escalate)
      BY <2>2, <3>1, <3>2
    <3>3. ASSUME NEW c \in Given("command"), Shell(c) PROVE Rest'
      <4>1. c \in Commands
        BY <3>1, <3>3, GivenNames
      <4>2. /\ UNCHANGED <<exists, locked>> /\ loose' \subseteq loose \cup {c}
            /\ Succeed \/ Fail
        BY <3>3 DEF Shell, Does
      <4> QED
        BY <2>1, <3>1, <4>1, <4>2
    <3> QED
      BY <2>3, <3>2, <3>3
         DEF TerminalExec, RunCommand, SandboxExec, MissingCommand, RunDocker, RunLocal
  <2>5. ASSUME verdict = "running", UNCHANGED <<planned, approvals>>, Succeed \/ Fail,
               exists' \subseteq Branches, locked' \in BOOLEAN, UNCHANGED <<target, loose>>
        PROVE  Rest'
    BY <2>1, <2>5
  <2>4. CASE Status \/ Diff \/ Log
    <3>1. verdict = "running" /\ UNCHANGED <<planned, approvals>>
      BY <2>4 DEF Status, Diff, Log, Call
    <3>2. /\ Succeed \/ Fail
          /\ UNCHANGED <<exists, target, loose>> /\ locked' \in {locked, TRUE}
      BY <2>4 DEF Status, Diff, Log, Look, Git, repo, tree
    <3> QED
      BY <2>5, <3>1, <3>2
  <2>6. CASE Branch
    <3>1. verdict = "running" /\ UNCHANGED <<planned, approvals>> /\ Now.tool = "git_branch"
      BY <2>6 DEF Branch, Call
    <3>2. CASE Look
      BY <2>2, <3>1, <3>2 DEF Look
    <3>3. ASSUME NEW b \in Given("create"), locked' \in {locked, TRUE}, Succeed \/ Fail,
                 UNCHANGED exists \/ exists' = exists \cup {b}, UNCHANGED <<target, loose>>
          PROVE  Rest'
      <4>1. b \in Branches
        BY <3>1, <3>3, GivenNames
      <4> QED
        BY <2>5, <3>1, <3>3, <4>1
    <3> QED
      BY <2>6, <3>2, <3>3 DEF Branch, Git, tree
  <2>7. CASE Checkout
    <3>1. /\ verdict = "running" /\ UNCHANGED <<planned, approvals>>
          /\ Now.tool = "git_checkout"
      BY <2>7 DEF Checkout, Call
    <3>2. CASE Rejected
      BY <2>2, <3>1, <3>2 DEF Rejected
    <3>3. ASSUME NEW b \in Given("branch"), locked' \in {locked, TRUE}, Succeed \/ Fail,
                 UNCHANGED exists \/ exists' = exists \cup {b}, UNCHANGED <<target, loose>>
          PROVE  Rest'
      <4>1. b \in Branches
        BY <3>1, <3>3, GivenNames
      <4> QED
        BY <2>5, <3>1, <3>3, <4>1
    <3> QED
      BY <2>7, <3>2, <3>3 DEF Checkout, Git, tree
  <2>8. CASE Add \/ Commit \/ Pull
    <3>1. verdict = "running" /\ UNCHANGED <<planned, approvals>>
      BY <2>8 DEF Add, Commit, Pull, Call
    <3>2. /\ Succeed \/ Fail
          /\ UNCHANGED <<exists, target, loose>> /\ locked' \in {locked, TRUE}
      BY <2>8 DEF Add, Stages, Commit, Pull, Git, Rejected, Record, repo, tree
    <3> QED
      BY <2>5, <3>1, <3>2
  <2>9. CASE FindTarget \/ Push
    <3>1. /\ verdict = "running" /\ UNCHANGED <<planned, approvals, exists, locked, loose>>
          /\ target' \in {target, head, "unknown"}
      BY <2>9 DEF FindTarget, Push, Call, repo, tree
    <3>2. UNCHANGED progress \/ Succeed \/ Fail \/ Escalate
      BY <2>9 DEF FindTarget, Push, Sends
    <3> QED
      BY <2>0, <2>1, <3>1, <3>2
  <2>10. CASE Resume
    BY <2>2, <2>10 DEF Resume
  <2>11. ASSUME NEW c \in Commands, Stray(c) PROVE Rest'
    <3>1. UNCHANGED <<planned, progress, approvals, exists, locked, target, loose>>
      BY <2>11 DEF Stray, Does
    <3> QED
      BY <2>1, <3>1
  <2>12. CASE UNCHANGED vars
    BY <2>2, <2>12 DEF vars
  <2> QED
    BY <2>3, <2>4, <2>6, <2>7, <2>8, <2>9, <2>10, <2>11, <2>12 DEF Next, Tool
<1>3. IInv /\ Rest => TypeOK
  BY DEF IInv, Typed, TypeOK
<1> QED
  BY <1>1, <1>2, <1>3, AlwaysIInv, PTL DEF Spec

-----------------------------------------------------------------------------
(* The protected branches.                                                 *)

\* Only a push that was planned with a refspec moves a protected branch of the
\* remote, and only the one it names: git_push refuses a plain name, given or
\* found to be current, and a remediation names nothing.
THEOREM OnlyRefspecsMoveProtected == Spec => OnlyRefspecsPass
<1>1. IInv /\ TypeOK /\ [Next]_vars =>
        [\A b \in Protected \cap Branches : origin'[b] # origin[b] =>
           /\ Now.tool = "git_push"
           /\ \E arg \in Given("branch") \cap DOMAIN Refspec : Destination(arg) = b]_vars
  <2> SUFFICES ASSUME IInv, TypeOK, Next, NEW b \in Protected \cap Branches,
                      origin'[b] # origin[b]
               PROVE  /\ Now.tool = "git_push"
                      /\ \E arg \in Given("branch") \cap DOMAIN Refspec : Destination(arg) = b
    OBVIOUS
  <2>1. Push
    BY DEF Next, Tool, TerminalExec, RunCommand, SandboxExec, MissingCommand, RunDocker,
           RunLocal, Shell, Does, Status, Diff, Log, Look, Branch, Checkout, Add, Stages,
           Commit, Git, Rejected, FindTarget, Pull, Resume, Stray, repo
  <2>2. PICK arg \in Given("branch") \cup ({target} \ {"unknown"}) :
          arg \notin Protected \cup {"detached"} /\ Sends(arg)
    BY <2>1 DEF Push
  <2>3. Destination(arg) = b
    BY <2>2 DEF Sends, TypeOK
  <2>4. arg \in Branches => Destination(arg) = arg
    BY WorkspaceAssumption DEF Destination, Ref
  <2>5. arg \notin Branches
    BY <2>2, <2>3, <2>4
  <2>6. arg \in Given("branch") /\ Given("branch") \subseteq Names \cup DOMAIN Refspec
    BY <2>1, <2>2, <2>5, GivenNames DEF Push, Call, TypeOK
  <2> QED
    BY <2>1, <2>3, <2>5, <2>6 DEF Push, Call, Names
<1> QED
  BY <1>1, AlwaysIInv, WorkspaceTypes, PTL DEF Spec, OnlyRefspecsPass

-----------------------------------------------------------------------------
(* What a call does to the change of f and to the branch b.                *)

Away == head \in {Home, "detached"}
On(b) == head = b /\ b \notin {Home, "detached"} /\ b \in exists

\* What is found once stays: HEAD moves only by a checkout or a command, a
\* change goes from a file to the index to the branch, a branch of the remote
\* only grows.
Stays(b, f) ==
  /\ f \in origin[b] => f \in origin'[b]
  /\ Now.tool # "git_add" /\ f \in changed => f \in changed'
  /\ Now.tool # "git_checkout" =>
       /\ head' = head \/ (Now.tool \in Runners /\ head' \in {Home, "detached"})
       /\ On(b) => /\ b \in exists'
                   /\ f \in holds[b] => f \in holds'[b]
                   /\ f \in staged => f \in staged' \cup holds'[b]
                   /\ f \in changed => f \in changed' \cup staged'

\* What a call does that succeeds.
Achieves(b, f) ==
  /\ Now.tool = "git_checkout" /\ <<"branch", b>> \in Now.given /\ Only(Now, "branch", b) =>
       head' = b /\ b \in exists'
  /\ PlansToAdd(Now, f) /\ f \in changed => f \in staged'
  /\ Now.tool = "git_commit" /\ On(b) /\ f \in staged => f \in holds'[b]
  /\ Now.tool = "git_push" /\ Only(Now, "branch", b) =>
       \/ <<"branch", b>> \in Now.given /\ b \notin {Home, "detached"} /\ origin'[b] = holds[b]
       \/ "branch" \notin Keys(Now) /\ ~Away /\ origin'[head] = holds[head]

\* Between the two steps of a push of the current branch nothing else is called.
Aimed ==
  target # "unknown" => /\ verdict = "running" /\ Now.tool = "git_push" /\ Given("branch") = {}
                        /\ loose = {} => target = head

LEMMA GivenKeys ==
  ASSUME IInv, verdict = "running"
  PROVE  \A key :
           /\ (Given(key) = {}) <=> (key \notin Keys(Now))
           /\ \A x : (x \in Given(key)) <=> (<<key, x>> \in Now.given)
           /\ \A y : Only(Now, key, y) => \A x \in Given(key) : x = y
<1>1. Now.given \subseteq STRING \X STRING
  BY InHandJustified
<1>2. \A pair \in Now.given : pair = <<pair[1], pair[2]>>
  BY <1>1
<1> QED
  BY <1>2 DEF Given, Keys, Only

\* A call that fails, or is not over, achieves nothing.
LEMMA Unfinished ==
  ASSUME IInv, verdict = "running", Fail \/ Escalate \/ UNCHANGED progress
  PROVE  ~Succeed
<1>1. tasks \in Seq(TaskOf(STRING, Arguments)) /\ tasks # <<>> /\ {} \in Arguments
  BY DEF IInv, Typed, Arguments
<1>2. UNCHANGED progress => ~Succeed
  <2>1. Len(Tail(tasks)) # Len(tasks)
    BY <1>1
  <2> QED
    BY <2>1 DEF progress, Succeed
<1> QED
  BY <1>1, <1>2, NotBoth

\* A step that leaves the repository alone, but for what is pushed.
LEMMA TreeStays ==
  ASSUME NEW b, NEW f, UNCHANGED tree, f \in origin[b] => f \in origin'[b]
  PROVE  Stays(b, f)
<1>1. UNCHANGED <<head, exists, holds, changed, staged>>
  BY DEF tree
<1>2. On(b) => /\ b \in exists'
               /\ f \in holds[b] => f \in holds'[b]
               /\ f \in staged => f \in staged' \cup holds'[b]
               /\ f \in changed => f \in changed' \cup staged'
  BY <1>1 DEF On
<1> QED
  BY <1>1, <1>2 DEF Stays

LEMMA LooksStay ==
  ASSUME NEW b, NEW f, UNCHANGED repo \/ UNCHANGED <<tree, origin>> PROVE Stays(b, f)
BY TreeStays DEF repo

LEMMA CommandsStay ==
  ASSUME IInv, NEW b \in Branches, NEW f, TerminalExec \/ RunCommand \/ SandboxExec
  PROVE  Stays(b, f) /\ Achieves(b, f)
<1>1. verdict = "running" /\ Now.tool \in Runners
  BY DEF TerminalExec, RunCommand, SandboxExec, Call, Runners
<1>2. Achieves(b, f)
  BY <1>1 DEF Achieves, Runners, PlansToAdd, Is
<1>3. \/ UNCHANGED repo
      \/ \E c : Does(c)
  BY DEF TerminalExec, RunCommand, SandboxExec, MissingCommand, RunDocker, RunLocal, Shell
<1>4. ASSUME NEW c, Does(c) PROVE Stays(b, f)
  <2>1. /\ UNCHANGED <<exists, staged, origin>> /\ changed \subseteq changed'
        /\ UNCHANGED head \/ head' \in {Home, "detached"}
        /\ UNCHANGED holds \/ \E x : holds' = [holds EXCEPT !["detached"] = x]
    BY <1>4 DEF Does
  <2>2. b # "detached" => holds'[b] = holds[b]
    BY <2>1, RepoPart DEF RepoTyped
  <2> QED
    BY <1>1, <2>1, <2>2 DEF Stays, On
<1> QED
  BY <1>2, <1>3, <1>4, LooksStay

LEMMA BranchStays ==
  ASSUME IInv, NEW b \in Branches, NEW f, Branch
  PROVE  Stays(b, f) /\ Achieves(b, f)
<1>1. verdict = "running" /\ Now.tool = "git_branch"
  BY DEF Branch, Call
<1>2. Achieves(b, f)
  BY <1>1 DEF Achieves, PlansToAdd, Is
<1>3. \/ UNCHANGED repo
      \/ UNCHANGED <<tree, origin>>
      \/ \E x : /\ x \notin exists /\ exists' = exists \cup {x}
                /\ holds' = [holds EXCEPT ![x] = holds[head]]
                /\ UNCHANGED <<head, changed, staged, origin>>
  BY DEF Branch, Look, Git
<1>5. ASSUME NEW x, x \notin exists, exists' = exists \cup {x},
             holds' = [holds EXCEPT ![x] = holds[head]],
             UNCHANGED <<head, changed, staged, origin>>
      PROVE  Stays(b, f)
  <2>1. b \in exists => holds'[b] = holds[b]
    BY <1>5, RepoPart DEF RepoTyped
  <2> QED
    BY <1>5, <2>1 DEF Stays, On
<1> QED
  BY <1>2, <1>3, <1>5, LooksStay

LEMMA CheckoutStays ==
  ASSUME IInv, NEW b \in Branches, NEW f, Checkout
  PROVE  Stays(b, f) /\ (Succeed => Achieves(b, f))
<1>1. verdict = "running" /\ Now.tool = "git_checkout"
  BY DEF Checkout, Call
<1>2. UNCHANGED <<changed, origin>>
  BY DEF Checkout, Rejected, Git, repo, tree
<1>3. Stays(b, f)
  BY <1>1, <1>2 DEF Stays
<1>4. ASSUME Succeed, <<"branch", b>> \in Now.given, Only(Now, "branch", b)
      PROVE  head' = b /\ b \in exists'
  <2>1. ~(Fail \/ Escalate)
    BY <1>1, <1>4, Unfinished
  <2>2. b \in Given("branch")
    BY <1>4 DEF Given
  <2>3. PICK x \in Given("branch") : head' = x /\ exists' = exists \cup {x}
    BY <2>1, <2>2 DEF Checkout, Git
  <2>4. x = b
    BY <1>1, <1>4, <2>3, GivenKeys
  <2> QED
    BY <2>3, <2>4
<1>5. Succeed => Achieves(b, f)
  BY <1>1, <1>4 DEF Achieves, PlansToAdd, Is
<1> QED
  BY <1>3, <1>5

LEMMA AddStays ==
  ASSUME IInv, NEW b \in Branches, NEW f, Add
  PROVE  Stays(b, f) /\ (Succeed => Achieves(b, f))
<1>1. verdict = "running" /\ Now.tool = "git_add"
  BY DEF Add, Call
<1>2. PICK files :
        /\ Git(~locked, /\ staged' = staged \cup files /\ changed' = changed \ files
                        /\ UNCHANGED <<head, exists, holds>>)
        /\ files = IF Given("files") = {} THEN changed ELSE changed \cap Given("files")
  BY DEF Add, Stages
<1>3. /\ UNCHANGED origin
      /\ \/ UNCHANGED tree /\ Fail
         \/ /\ staged' = staged \cup files /\ changed' = changed \ files
            /\ UNCHANGED <<head, exists, holds>>
  BY <1>2 DEF Git
<1>4. Stays(b, f)
  <2>1. CASE UNCHANGED tree
    BY <1>3, <2>1, LooksStay
  <2>2. CASE /\ staged' = staged \cup files /\ changed' = changed \ files
             /\ UNCHANGED <<head, exists, holds>>
    BY <1>1, <1>3, <2>2 DEF Stays, On
  <2> QED
    BY <1>3, <2>1, <2>2
<1>5. ASSUME Succeed, PlansToAdd(Now, f), f \in changed PROVE f \in staged'
  <2>1. ~Fail
    BY <1>1, <1>5, Unfinished
  <2>2. Given("files") = {} \/ f \in Given("files")
    BY <1>1, <1>5, GivenKeys DEF PlansToAdd, Is
  <2> QED
    BY <1>2, <1>3, <1>5, <2>1, <2>2
<1>6. Succeed => Achieves(b, f)
  BY <1>1, <1>5 DEF Achieves
<1> QED
  BY <1>4, <1>6

LEMMA CommitStays ==
  ASSUME IInv, NEW b \in Branches, NEW f, Commit
  PROVE  Stays(b, f) /\ (Succeed => Achieves(b, f))
<1>1. verdict = "running" /\ Now.tool = "git_commit"
  BY DEF Commit, Call
<1>2. UNCHANGED origin /\ ((UNCHANGED tree /\ Fail) \/ Record)
  BY DEF Commit, Rejected, Git, repo
<1>3. Record => /\ head = b => holds'[b] = holds[b] \cup staged
                /\ b # head => holds'[b] = holds[b]
                /\ UNCHANGED <<head, exists, changed>>
  BY RepoPart DEF Record, RepoTyped
<1>4. Stays(b, f)
  BY <1>2, <1>3 DEF Stays, On, tree
<1>5. ASSUME Succeed, On(b), f \in staged PROVE f \in holds'[b]
  <2>1. ~Fail
    BY <1>1, <1>5, Unfinished
  <2> QED
    BY <1>2, <1>3, <1>5, <2>1 DEF On
<1>6. Succeed => Achieves(b, f)
  BY <1>1, <1>5 DEF Achieves, PlansToAdd, Is
<1> QED
  BY <1>4, <1>6

LEMMA PullStays ==
  ASSUME IInv, NEW b \in Branches, NEW f, Pull
  PROVE  Stays(b, f) /\ Achieves(b, f)
<1>1. verdict = "running" /\ Now.tool = "git_pull"
  BY DEF Pull, Call
<1>2. Achieves(b, f)
  BY <1>1 DEF Achieves, PlansToAdd, Is
<1>3. /\ UNCHANGED origin
      /\ \/ UNCHANGED tree
         \/ holds' = [holds EXCEPT ![head] = @ \cup Pulled] /\ UNCHANGED <<head, exists, changed, staged>>
         \/ changed' = changed \cup Pulled /\ UNCHANGED <<head, exists, holds, staged>>
  BY DEF Pull, Git
<1>4. holds[b] \subseteq holds'[b]
  <2>1. holds' = holds \/ holds' = [holds EXCEPT ![head] = @ \cup Pulled]
    BY <1>3 DEF tree
  <2> QED
    BY <2>1, RepoPart DEF RepoTyped
<1>5. Stays(b, f)
  BY <1>3, <1>4 DEF Stays, On, tree
<1> QED
  BY <1>2, <1>5

LEMMA PushStays ==
  ASSUME IInv, Aimed, loose = {}, NEW b \in Branches, NEW f, Push
  PROVE  Stays(b, f) /\ (Succeed => Achieves(b, f))
<1>1. verdict = "running" /\ Now.tool = "git_push" /\ UNCHANGED tree
  BY DEF Push, Call
<1>2. PICK x \in Given("branch") \cup ({target} \ {"unknown"}) :
        \/ UNCHANGED origin /\ (Fail \/ Escalate)
        \/ x \notin Protected \cup {"detached"} /\ Sends(x)
  BY DEF Push
<1>3. \/ UNCHANGED origin /\ (Fail \/ Escalate)
      \/ /\ x \notin {Home, "detached"}
         /\ origin' = [origin EXCEPT ![Destination(x)] = holds[Source(x)]]
         /\ origin[Destination(x)] \subseteq holds[Source(x)]
  BY <1>2 DEF Sends, Protected, Home
<1>0. x \in Branches => Source(x) = x /\ Destination(x) = x
  BY WorkspaceAssumption DEF Source, Destination, Ref
<1>4. Stays(b, f)
  <2>1. f \in origin[b] => f \in origin'[b]
    BY <1>3, RepoPart DEF RepoTyped
  <2> QED
    BY <1>1, <2>1, TreeStays
<1>5. ASSUME Succeed, Only(Now, "branch", b)
      PROVE  \/ <<"branch", b>> \in Now.given /\ b \notin {Home, "detached"} /\ origin'[b] = holds[b]
             \/ "branch" \notin Keys(Now) /\ ~Away /\ origin'[head] = holds[head]
  <2>1. ~(Fail \/ Escalate)
    BY <1>1, <1>5, Unfinished
  <2>2. /\ x \notin {Home, "detached"}
        /\ x \in Branches => origin' = [origin EXCEPT ![x] = holds[x]]
    BY <1>0, <1>3, <2>1
  <2>3. CASE x \in Given("branch")
    <3>1. x = b /\ <<"branch", b>> \in Now.given
      BY <1>1, <1>5, <2>3, GivenKeys
    <3> QED
      BY <2>2, <3>1, RepoPart DEF RepoTyped
  <2>4. CASE x = target /\ target # "unknown"
    <3>1. x = head /\ "branch" \notin Keys(Now)
      BY <1>1, <2>4, GivenKeys DEF Aimed
    <3> QED
      BY <2>2, <3>1, RepoPart DEF RepoTyped, Away
  <2> QED
    BY <1>2, <2>3, <2>4
<1>6. Succeed => Achieves(b, f)
  BY <1>1, <1>5 DEF Achieves, PlansToAdd, Is
<1> QED
  BY <1>4, <1>6

LEMMA ToolStays ==
  ASSUME IInv, Aimed, loose = {}, NEW b \in Branches, NEW f, Tool
  PROVE  /\ Stays(b, f) /\ (Succeed => Achieves(b, f))
         /\ verdict = "running" /\ UNCHANGED planned
         /\ Succeed \/ Fail \/ Escalate \/ UNCHANGED progress
<1>1. /\ verdict = "running" /\ UNCHANGED planned
      /\ Succeed \/ Fail \/ Escalate \/ UNCHANGED progress
  BY DEF Tool, TerminalExec, RunCommand, SandboxExec, MissingCommand, RunDocker, RunLocal, Shell,
         Status, Diff, Log, Look, Branch, Checkout, Add, Stages, Commit, Git, Rejected,
         FindTarget, Push, Sends, Pull, Call
<1>2. CASE Status \/ Diff \/ Log
  <2>1. UNCHANGED <<tree, origin>> /\ Now.tool \in {"git_status", "git_diff", "git_log"}
    BY <1>2 DEF Status, Diff, Log, Look, Git, Call, repo
  <2>2. Achieves(b, f)
    BY <2>1 DEF Achieves, PlansToAdd, Is
  <2> QED
    BY <1>1, <2>1, <2>2, LooksStay
<1>3. CASE FindTarget
  <2>1. UNCHANGED repo /\ (UNCHANGED progress \/ Fail)
    BY <1>3 DEF FindTarget
  <2>2. ~Succeed
    BY <1>1, <2>1, Unfinished
  <2> QED
    BY <1>1, <2>1, <2>2, LooksStay
<1> QED
  BY <1>1, <1>2, <1>3, CommandsStay, BranchStays, CheckoutStays, AddStays, CommitStays,
     PushStays, PullStays DEF Tool

-----------------------------------------------------------------------------
(* A publication.                                                          *)

\* How far the change of f has come when the tasks from p on are left: it is in
\* the work tree, then in the index or on b, then on b, then at the remote.  If
\* a command left b, then b is not what will be pushed.
Phase(b, f, i, j, m, k, p) ==
  /\ p <= i => f \in changed
  /\ i < p /\ p <= k =>
       /\ Away \/ On(b)
       /\ Away => b \in {Home, "detached"} \/ "branch" \notin Keys(planned[k])
       /\ On(b) => /\ f \in changed \cup staged \cup holds[b]
                   /\ j < p => f \in staged \cup holds[b]
                   /\ m < p => f \in holds[b]
  /\ k < p => f \in origin[b]

Published ==
  loose = {} =>
    \A b \in Branches, f \in Files \ Theirs, i, j, m, k \in DOMAIN planned :
      Publishes(b, f, i, j, m, k) =>
        \E p, r : Follows(tasks, planned, p, r) /\ Phase(b, f, i, j, m, k, p)

Finished == verdict = "done" => tasks = <<>>

PubInv == Aimed /\ Published /\ Finished

LEMMA PlanTyped ==
  ASSUME planned \in Plans
  PROVE  planned \in Seq(TaskOf(STRING, Arguments)) /\ planned # <<>>
<1> DEFINE Fresh == [tool : STRING, given : Arguments, attempts : {0}]
<1>1. planned \in Seq(Fresh) /\ planned # <<>>
  BY WorkspaceAssumption DEF Arguments
<1>2. Fresh \subseteq TaskOf(STRING, Arguments)
  BY DEF TaskOf
<1> HIDE DEF Fresh
<1> QED
  BY <1>1, <1>2

\* A call leaves the phase as it was, ...
LEMMA PhaseStays ==
  ASSUME NEW b \in Branches, NEW f, NEW i \in Nat, NEW j \in Nat, NEW m \in Nat, NEW k \in Nat,
         NEW p \in Nat, p > 0, Publishes(b, f, i, j, m, k), Phase(b, f, i, j, m, k, p),
         Now.tool = planned[p].tool, Stays(b, f), UNCHANGED planned
  PROVE  Phase(b, f, i, j, m, k, p)'
<1>1. p <= i => f \in changed'
  <2>1. p <= i => p \in 1 .. i
    OBVIOUS
  <2>2. p <= i => Now.tool # "git_add"
    BY <2>1 DEF Publishes
  <2> QED
    BY <2>2 DEF Phase, Stays
<1>2. k < p => f \in origin'[b]
  BY DEF Phase, Stays
<1>3. ASSUME i < p, p <= k
      PROVE  /\ (Away \/ On(b))'
             /\ Away' => b \in {Home, "detached"} \/ "branch" \notin Keys(planned[k])
             /\ On(b)' => /\ f \in changed' \cup staged' \cup holds'[b]
                          /\ j < p => f \in staged' \cup holds'[b]
                          /\ m < p => f \in holds'[b]
  <2>1. p \in i + 1 .. k
    BY <1>3
  <2>2. /\ Now.tool # "git_checkout"
        /\ Now.tool \in Runners => "branch" \notin Keys(planned[k])
    BY <2>1 DEF Publishes, Runners
  <2>3. head' = head \/ (Now.tool \in Runners /\ head' \in {Home, "detached"})
    BY <2>2 DEF Stays
  <2>4. On(b) => /\ b \in exists'
                 /\ f \in holds[b] => f \in holds'[b]
                 /\ f \in staged => f \in staged' \cup holds'[b]
                 /\ f \in changed => f \in changed' \cup staged'
    BY <2>2 DEF Stays
  <2>5. /\ Away \/ On(b)
        /\ Away => b \in {Home, "detached"} \/ "branch" \notin Keys(planned[k])
        /\ On(b) => /\ f \in changed \cup staged \cup holds[b]
                    /\ j < p => f \in staged \cup holds[b]
                    /\ m < p => f \in holds[b]
    BY <1>3 DEF Phase
  <2>6. Away \/ On(b) => (Away \/ On(b))'
    BY <2>3, <2>4 DEF Away, On
  <2>7. On(b)' => On(b)
    BY <2>3, <2>5 DEF Away, On
  <2>8. Away' => Away \/ "branch" \notin Keys(planned[k])
    BY <2>2, <2>3 DEF Away
  <2> QED
    BY <2>4, <2>5, <2>6, <2>7, <2>8
<1> QED
  BY <1>1, <1>2, <1>3 DEF Phase

\* ... and the success of the planned one makes it the next.
LEMMA PhaseNext ==
  ASSUME NEW b \in Branches, NEW f, NEW i \in Nat, NEW j \in Nat, NEW m \in Nat, NEW k \in Nat,
         NEW p \in Nat, p > 0, Publishes(b, f, i, j, m, k), Phase(b, f, i, j, m, k, p),
         Now.tool = planned[p].tool, Now.given = planned[p].given,
         Stays(b, f), Achieves(b, f), UNCHANGED planned
  PROVE  Phase(b, f, i, j, m, k, p + 1)'
<1>0. i < j /\ j < m /\ m < k
  BY DEF Publishes
<1>1. Phase(b, f, i, j, m, k, p)'
  BY PhaseStays
<1>2. p + 1 <= i => f \in changed'
  BY <1>1 DEF Phase
<1>3. CASE p = i
  <2>1. Now.tool = "git_checkout" /\ <<"branch", b>> \in Now.given /\ Only(Now, "branch", b)
    BY <1>3 DEF Publishes, Is, Only
  <2>2. head' = b /\ b \in exists'
    BY <2>1 DEF Achieves
  <2>3. f \in changed'
    BY <1>1, <1>3 DEF Phase
  <2>4. (Away \/ On(b))' /\ (Away' => b \in {Home, "detached"})
    BY <2>2 DEF Away, On
  <2>5. ~(p + 1 <= i) /\ ~(j < p + 1) /\ ~(m < p + 1) /\ ~(k < p + 1)
    BY <1>0, <1>3
  <2> QED
    BY <2>3, <2>4, <2>5 DEF Phase
<1>4. CASE i < p /\ p < k
  <2>1. /\ (Away \/ On(b))'
        /\ Away' => b \in {Home, "detached"} \/ "branch" \notin Keys(planned[k])
        /\ On(b)' => /\ f \in changed' \cup staged' \cup holds'[b]
                     /\ j < p => f \in staged' \cup holds'[b]
                     /\ m < p => f \in holds'[b]
    BY <1>1, <1>4 DEF Phase
  <2>2. Now.tool # "git_checkout" /\ p \in i + 1 .. k
    BY <1>4 DEF Publishes
  <2>3. On(b)' => On(b)
    BY <1>4, <2>2 DEF Stays, Phase, Away, On
  <2>4. On(b) => /\ f \in holds[b] => f \in holds'[b]
                 /\ f \in staged => f \in staged' \cup holds'[b]
    BY <2>2 DEF Stays
  <2>5. p = j /\ On(b)' => f \in staged' \cup holds'[b]
    <3> SUFFICES ASSUME p = j, On(b)' PROVE f \in staged' \cup holds'[b]
      OBVIOUS
    <3>1. PlansToAdd(Now, f)
      BY DEF Publishes, PlansToAdd, Is, Keys
    <3>2. f \in changed \cup staged \cup holds[b]
      BY <1>4, <2>3 DEF Phase
    <3> QED
      BY <2>3, <2>4, <3>1, <3>2 DEF Achieves
  <2>6. p = m /\ On(b)' => f \in holds'[b]
    <3> SUFFICES ASSUME p = m, On(b)' PROVE f \in holds'[b]
      OBVIOUS
    <3>1. Now.tool = "git_commit"
      BY DEF Publishes
    <3>2. f \in staged \cup holds[b]
      BY <1>0, <1>4, <2>3 DEF Phase
    <3> QED
      BY <2>3, <2>4, <3>1, <3>2 DEF Achieves
  <2>7. /\ j < p + 1 => j < p \/ p = j
        /\ m < p + 1 => m < p \/ p = m
        /\ ~(k < p + 1) /\ ~(p + 1 <= i)
    BY <1>4
  <2> QED
    BY <2>1, <2>5, <2>6, <2>7 DEF Phase
<1>5. CASE p = k
  <2>1. Now.tool = "git_push" /\ Only(Now, "branch", b)
    BY <1>5 DEF Publishes, Only
  <2>2. \/ <<"branch", b>> \in Now.given /\ b \notin {Home, "detached"} /\ origin'[b] = holds[b]
        \/ "branch" \notin Keys(Now) /\ ~Away /\ origin'[head] = holds[head]
    BY <2>1 DEF Achieves
  <2>3. /\ Away \/ On(b)
        /\ Away => b \in {Home, "detached"} \/ "branch" \notin Keys(planned[k])
        /\ On(b) => f \in holds[b]
    BY <1>0, <1>5 DEF Phase
  <2>4. <<"branch", b>> \in Now.given => "branch" \in Keys(planned[k])
    BY <1>5 DEF Keys
  <2>5. f \in origin'[b]
    BY <2>2, <2>3, <2>4 DEF On
  <2>6. ~(p + 1 <= i) /\ ~(p + 1 <= k)
    BY <1>0, <1>5
  <2> QED
    BY <2>5, <2>6 DEF Phase
<1>6. CASE p < i
  BY <1>0, <1>2, <1>6 DEF Phase
<1>7. CASE k < p
  <2>1. f \in origin'[b] /\ ~(p + 1 <= i) /\ ~(p + 1 <= k)
    BY <1>0, <1>1, <1>7 DEF Phase
  <2> QED
    BY <2>1 DEF Phase
<1> QED
  BY <1>0, <1>3, <1>4, <1>5, <1>6, <1>7

LEMMA NextPublished ==
  ASSUME IInv, PubInv, [Next]_vars PROVE Published'
<1> SUFFICES ASSUME loose' = {}, NEW b \in Branches, NEW f \in Files \ Theirs,
                    NEW i \in DOMAIN planned', NEW j \in DOMAIN planned',
                    NEW m \in DOMAIN planned', NEW k \in DOMAIN planned',
                    Publishes(b, f, i, j, m, k)'
             PROVE  \E p, r : /\ Follows(tasks', planned', p, r)
                              /\ Phase(b, f, i, j, m, k, p)'
  BY DEF Published
<1>1. planned' = planned /\ loose = {}
  <2>1. loose = {} \/ loose' # {}
    BY DEF Next, Tool, TerminalExec, RunCommand, SandboxExec, MissingCommand, RunDocker, RunLocal, Shell,
         Status, Diff, Log, Look, Branch, Checkout, Add, Stages, Commit, Git, Rejected,
         FindTarget, Push, Sends, Pull, Call, Stray, Resume, vars
  <2>2. planned' = planned
    BY DEF Next, Tool, TerminalExec, RunCommand, SandboxExec, Status, Diff, Log, Branch, Checkout, Add,
         Commit, FindTarget, Push, Pull, Call, Stray, Resume, vars
  <2> QED
    BY <2>1, <2>2
<1>2. Publishes(b, f, i, j, m, k)
  BY <1>1 DEF Publishes
<1>3. PICK p, r : Follows(tasks, planned, p, r) /\ Phase(b, f, i, j, m, k, p)
  BY <1>1, <1>2 DEF PubInv, Published
<1>4. planned \in Seq(TaskOf(STRING, Arguments)) /\ tasks \in Seq(TaskOf(STRING, Arguments))
      /\ {} \in Arguments
  BY PlanTyped DEF IInv, Typed, Arguments
<1>5. /\ i \in Nat /\ j \in Nat /\ m \in Nat /\ k \in Nat
      /\ p \in Nat /\ p > 0
  BY <1>1, <1>3, <1>4 DEF Follows
<1>6. ASSUME UNCHANGED <<tasks, tree, origin>>
      PROVE  Follows(tasks', planned', p, r) /\ Phase(b, f, i, j, m, k, p)'
  BY <1>1, <1>3, <1>6 DEF Phase, Away, On, tree
<1>7. CASE Tool
  <2>1. /\ Stays(b, f) /\ (Succeed => Achieves(b, f)) /\ verdict = "running"
        /\ Succeed \/ Fail \/ Escalate \/ UNCHANGED progress
    BY <1>1, <1>7, ToolStays DEF PubInv
  <2>2. tasks # <<>>
    BY <2>1 DEF IInv, Typed
  <2>3. /\ Now.tool = planned[p].tool
        /\ r = 0 => Now.given = planned[p].given
        /\ Succeed => \/ r # 0 /\ Follows(tasks', planned, p, r - 1)
                      \/ r = 0 /\ Follows(tasks', planned, p + 1, 0)
        /\ Fail \/ Escalate => \E s : Follows(tasks', planned, p, s)
    BY <1>3, <1>4, <2>2, FollowsOn
  <2>4. Phase(b, f, i, j, m, k, p)'
    BY <1>1, <1>2, <1>3, <1>5, <2>1, <2>3, PhaseStays
  <2>5. Succeed /\ r = 0 => Phase(b, f, i, j, m, k, p + 1)'
    BY <1>1, <1>2, <1>3, <1>5, <2>1, <2>3, PhaseNext
  <2>6. CASE Succeed
    <3>1. CASE r = 0
      BY <1>1, <2>3, <2>5, <2>6, <3>1
    <3>2. CASE r # 0
      BY <1>1, <2>3, <2>4, <2>6, <3>2
    <3> QED
      BY <3>1, <3>2
  <2>7. CASE Fail \/ Escalate
    BY <1>1, <2>3, <2>4, <2>7
  <2>8. CASE UNCHANGED progress
    <3>1. tasks' = tasks
      BY <2>8 DEF progress
    <3> QED
      BY <1>1, <1>3, <2>4, <3>1
  <2> QED
    BY <2>1, <2>6, <2>7, <2>8
<1>8. CASE Resume \/ UNCHANGED vars
  <2>1. UNCHANGED <<tasks, tree, origin>>
    BY <1>8 DEF Resume, Approve, vars, progress, repo
  <2> QED
    BY <1>6, <2>1
<1> QED
  BY <1>1, <1>7, <1>8 DEF Next, Stray

LEMMA NextAimed ==
  ASSUME IInv, PubInv, [Next]_vars PROVE Aimed'
<1>1. CASE FindTarget
  <2>1. /\ verdict = "running" /\ Now.tool = "git_push" /\ Given("branch") = {}
        /\ target = "unknown" /\ UNCHANGED <<repo, loose>>
        /\ \/ target' = head /\ UNCHANGED progress
           \/ UNCHANGED target
    BY <1>1 DEF FindTarget, Call
  <2> QED
    BY <2>1 DEF Aimed, repo, tree, progress, Now, Given
<1>2. CASE Push
  BY <1>2 DEF Push, Aimed
<1>3. CASE Tool /\ ~FindTarget /\ ~Push
  <2>1. UNCHANGED target /\ verdict = "running" /\ Now.tool # "git_push"
    BY <1>3 DEF Tool, TerminalExec, RunCommand, SandboxExec,
         Status, Diff, Log, Look, Branch, Checkout, Add, Stages, Commit, Git, Rejected,
         Pull, Call
  <2> QED
    BY <2>1 DEF PubInv, Aimed
<1>4. CASE Resume
  <2>1. UNCHANGED target /\ verdict = "waiting"
    BY <1>4 DEF Resume, Approve
  <2> QED
    BY <2>1 DEF PubInv, Aimed
<1>5. ASSUME NEW c, Stray(c) PROVE Aimed'
  <2>1. loose # {} /\ UNCHANGED <<target, loose, progress>>
    BY <1>5 DEF Stray
  <2> QED
    BY <2>1 DEF PubInv, Aimed, progress, Now, Given
<1>6. CASE UNCHANGED vars
  BY <1>6 DEF PubInv, Aimed, vars, repo, tree, progress, Now, Given
<1> QED
  BY <1>1, <1>2, <1>3, <1>4, <1>5, <1>6 DEF Next

LEMMA NextFinished ==
  ASSUME IInv, PubInv, [Next]_vars PROVE Finished'
<1>1. CASE Tool
  <2>1. verdict = "running" /\ (Succeed \/ Fail \/ Escalate \/ UNCHANGED progress)
    BY <1>1 DEF Tool, TerminalExec, RunCommand, SandboxExec, MissingCommand, RunDocker, RunLocal, Shell,
         Status, Diff, Log, Look, Branch, Checkout, Add, Stages, Commit, Git, Rejected,
         FindTarget, Push, Sends, Pull, Call
  <2>2. tasks \in Seq(TaskOf(STRING, Arguments)) /\ tasks # <<>> /\ {} \in Arguments
    BY <2>1 DEF IInv, Typed, Arguments
  <2>3. Succeed => Finished'
    BY <2>1, <2>2, SucceedLemma DEF Finished
  <2>4. Fail => verdict' # "done"
    BY <2>1 DEF Fail, Retry, Replan, Abort
  <2>5. Escalate \/ UNCHANGED progress => verdict' # "done"
    BY <2>1 DEF Escalate, progress
  <2> QED
    BY <2>1, <2>3, <2>4, <2>5 DEF Finished
<1>2. CASE Resume
  BY <1>2 DEF Resume, Approve, Finished
<1>3. CASE UNCHANGED progress
  BY <1>3 DEF progress, PubInv, Finished
<1> QED
  BY <1>1, <1>2, <1>3 DEF Next, Stray, vars

\* For any plan and any limits: a run that is done has published, on the branch
\* that the plan checks out, every change that it adds, commits and pushes
\* there, unless a process outlived its call.
THEOREM PublishedWhenDone == Spec => []DoneIsPublished
<1>1. Init => PubInv
  <2> SUFFICES ASSUME Init PROVE PubInv
    OBVIOUS
  <2>1. planned \in Seq(TaskOf(STRING, Arguments)) /\ planned # <<>>
    BY PlanTyped DEF Init
  <2>2. Follows(tasks, planned, 1, 0)
    <3>1. Len(planned) \in Nat /\ Len(planned) > 0
      BY <2>1
    <3>2. \A n \in 1 .. Len(planned) : 0 + 1 + n - 1 = n
      OBVIOUS
    <3>3. tasks = planned
      BY DEF Init, StartOn
    <3> QED
      BY <3>1, <3>2, <3>3 DEF Follows
  <2>3. ASSUME NEW b, NEW f \in Files \ Theirs, NEW i \in DOMAIN planned, NEW j, NEW m, 
               NEW k \in DOMAIN planned
        PROVE  Phase(b, f, i, j, m, k, 1)
    <3>1. f \in changed
      BY DEF Init
    <3>2. i \in Nat /\ i >= 1 /\ k \in Nat /\ k >= 1
      BY <2>1
    <3> QED
      BY <3>1, <3>2 DEF Phase
  <2>4. Aimed /\ Finished
    BY DEF Init, StartOn, Aimed, Finished
  <2> QED
    BY <2>2, <2>3, <2>4 DEF PubInv, Published
<1>2. IInv /\ PubInv /\ [Next]_vars => PubInv'
  BY NextAimed, NextPublished, NextFinished DEF PubInv
<1>3. IInv /\ PubInv => DoneIsPublished
  <2> SUFFICES ASSUME IInv, PubInv, verdict = "done", loose = {},
                      NEW b \in Branches, NEW f \in Files \ Theirs,
                      NEW i \in DOMAIN planned, NEW j \in DOMAIN planned,
                      NEW m \in DOMAIN planned, NEW k \in DOMAIN planned,
                      Publishes(b, f, i, j, m, k)
               PROVE  f \in origin[b]
    BY DEF DoneIsPublished
  <2>1. PICK p, r : Follows(tasks, planned, p, r) /\ Phase(b, f, i, j, m, k, p)
    BY DEF PubInv, Published
  <2>2. tasks = <<>> /\ planned \in Seq(TaskOf(STRING, Arguments))
    BY PlanTyped DEF PubInv, Finished, IInv, Typed
  <2>3. k < p
    <3>1. /\ Len(tasks) = 0 /\ Len(tasks) = r + (Len(planned) + 1 - p)
          /\ p \in 1 .. Len(planned) + 1 /\ r \in Nat
      BY <2>1, <2>2 DEF Follows
    <3>2. Len(planned) \in Nat /\ k \in 1 .. Len(planned)
      BY <2>2
    <3> QED
      BY <3>1, <3>2
  <2> QED
    BY <2>1, <2>3 DEF Phase
<1> QED
  BY <1>1, <1>2, <1>3, AlwaysIInv, PTL DEF Spec
==============================================================================
