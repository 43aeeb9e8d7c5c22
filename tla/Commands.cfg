SPECIFICATION Spec
CONSTANTS
  Plans <- SmallPlans
  Refspec <- SmallRefspec
  Branches = {"main", "topic", "detached"}
  Files = {"mine", "other", "theirs"}
  Theirs = {"theirs"}
  MaxTaskRetries = 1
  MaxPlanRevisions = 2
  MaxApprovals = 1
INVARIANTS
  CommittedAsPlanned
  DoneIsPublished
PROPERTIES
  OnlyRefspecsPass
\* A run that is done, has failed or waits has no further step.
CHECK_DEADLOCK FALSE
