SPECIFICATION FairSpec
CONSTANTS
  NoTool = NoTool
  Registered <- BuiltinTools
  RiskOf <- BuiltinRisk
  NeedsArgs <- BuiltinNeedsArgs
  ToolResults <- FlakyResults
  Drafts <- ChainDrafts
  Autonomy = "supervised"
  MaxTaskRetries = 1
  MaxPlanRevisions = 2
  MaxSteps = 200
  MayRaise = TRUE
  MaxDrives = 2
INVARIANTS
  Inv
  NoDependencyDeadlock
  CompletedIsEarned
  EndConsistent
  RecoveryBounded
  StepsBoundedByRecovery
PROPERTIES
  WorkKept
  KeepsPromise
  RunEnds
\* A run stops for good at END.
CHECK_DEADLOCK FALSE
