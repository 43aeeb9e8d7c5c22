SPECIFICATION Spec
CONSTANTS
  NoTool = NoTool
  Registered <- ScriptedTools
  RiskOf <- ScriptedRisk
  NeedsArgs = {}
  ToolResults <- ScriptedResults
  Drafts <- ScriptedDrafts
  Autonomy = "supervised"
  MaxTaskRetries = 1
  MaxPlanRevisions = 1
  MaxSteps = 9
  MayRaise = TRUE
  MaxDrives = 3
INVARIANTS
  OrderRespected
  OnlyBudgetIsSilent
CHECK_DEADLOCK FALSE
