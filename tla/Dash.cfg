SPECIFICATION Spec
CONSTANTS
  MaxRuns = 2
  MaxSteps = 1
INVARIANTS
  NeverStuck
  ListensWhileRunning
  ShowsTheVerdict
