SPECIFICATION Spec
CONSTANTS
  Plans <- SmallPlans
  MaxTaskRetries = 1
  MaxPlanRevisions = 2
  MaxApprovals = 1
INVARIANTS
  SuccessIsReal
  NothingUnreported
  ReleasesBounded
  RemediesNeedArgs
\* A run that is done, has failed or waits has no further step.
CHECK_DEADLOCK FALSE
