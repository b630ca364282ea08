SPECIFICATION FairSpec
CONSTANTS
  N = 3
  Budgets <- MCTwo
CHECK_DEADLOCK FALSE
INVARIANTS PoppedCompleted
PROPERTIES OneAtATime FailureStops UpgradeEnds
