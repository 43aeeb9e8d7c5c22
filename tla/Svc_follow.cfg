SPECIFICATION FairSpec
CONSTANTS
  Threads = {t1, t2}
  Starts = 1
  Watched = TRUE
  Jobs = 2
  Gated = {2}
  ToolOutcomes = {"ok", "fatal"}
  MayRaise = TRUE
  MaxSteps = 200
  ApproveWhen = "returned"
INVARIANTS
  TypeOK
  StreamIsReplay
  VerdictIsLast
  EndIsRecorded
  ToolsRunOnce
  OnlyTheEndIsMissed
PROPERTIES
  KeepsPromise
  StreamCloses
  RunEnds
CHECK_DEADLOCK FALSE
