SPECIFICATION FairSpec
CONSTANTS
  Units = {u1, u2}
  Relations = 2
  Budgets <- MCThree
  None = None
CHECK_DEADLOCK FALSE
INVARIANTS UserlistMatches TracesRemoved
PROPERTIES SecretKept AllConfigured
