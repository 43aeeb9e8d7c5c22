--------------------------- MODULE MCOrchestrator ---------------------------
(***************************************************************************)
(* Small instances of the drive loop.  The tools are built-in ones with    *)
(* the risks of agent/tools/builtins.py, and git_push, which works without *)
(* arguments; what they may return covers every failure class the recovery *)
(* engine tells apart.                                                     *)
(***************************************************************************)
EXTENDS OrchestratorProofs

Draw(tool, args, deps) == [tool |-> tool, args |-> args, deps |-> deps]

BuiltinTools == {"run_tests", "write_file", "deploy", "git_push"}
BuiltinRisk == [t \in BuiltinTools |->
                  IF t = "run_tests" THEN "safe" ELSE "elevated"]
BuiltinNeedsArgs == {"write_file"}

\* Anything can go wrong.
FlakyResults ==
  [t \in BuiltinTools |->
     CASE t = "run_tests" -> {"ok", "logic_error", "transient"}
       [] t = "write_file" -> {"ok", "tool_error", "fatal"}
       [] t = "deploy" -> {"ok_live_url", "permission", "unknown"}
       [] t = "git_push" -> {"ok", "tool_error", "permission"}]

\* The fallback decomposition of models/base.py, and a plan parsed from a
\* model's answer, whose tasks carry no arguments.
ChainDrafts ==
  { <<Draw("write_file", TRUE, {}), Draw("run_tests", TRUE, {1}),
      Draw("deploy", TRUE, {2})>>,
    <<Draw("run_tests", FALSE, {}), Draw(NoTool, FALSE, {1}),
      Draw("git_push", FALSE, {2})>> }

\* Plans of a scripted provider: a diamond listed out of order, a cycle, and
\* a dependency on a task that does not exist.
ScriptedTools == {"run_tests", "http_check", "rollback"}
ScriptedRisk == [t \in ScriptedTools |->
                   IF t = "rollback" THEN "dangerous" ELSE "safe"]
ScriptedResults ==
  [t \in ScriptedTools |->
     CASE t = "run_tests" -> {"ok", "transient"}
       [] t = "http_check" -> {"ok", "tool_error"}
       [] t = "rollback" -> {"ok_simulated_url", "permission"}]
ScriptedDrafts ==
  { <<Draw("run_tests", TRUE, {2, 3}), Draw("rollback", TRUE, {4}),
      Draw("http_check", TRUE, {4}), Draw("unregistered", FALSE, {})>>,
    <<Draw("run_tests", TRUE, {}), Draw("http_check", TRUE, {3}),
      Draw("rollback", TRUE, {2})>>,
    <<Draw("http_check", TRUE, {7}), Draw("run_tests", TRUE, {})>> }
=============================================================================
