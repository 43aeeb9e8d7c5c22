SPECIFICATION Spec
CONSTANTS
  Threads = {t1, t2}
  Starts = 1
  Watched = FALSE
  Jobs = 1
  Gated = {1}
  ToolOutcomes = {"ok"}
  MayRaise = FALSE
  MaxSteps = 200
  ApproveWhen = "event"
INVARIANTS
  ApprovalNotLost
CHECK_DEADLOCK FALSE
