SPECIFICATION Spec
CONSTANTS
  Threads = {t1, t2}
  Starts = 1
  Watched = FALSE
  Jobs = 2
  Gated = {1}
  ToolOutcomes = {"ok"}
  MayRaise = FALSE
  MaxSteps = 6
  ApproveWhen = "event"
SYMMETRY Interchangeable
INVARIANTS
  GateHolds
  OrderKept
CHECK_DEADLOCK FALSE
