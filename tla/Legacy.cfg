SPECIFICATION FairSpec
CONSTANTS
  Units = {u1, u2}
  Clients = {c1, c2}
  Budgets <- MCTwo
  None = None
CHECK_DEADLOCK FALSE
INVARIANTS  PasswordWorks
PROPERTIES LiveUserKept LegacyServed LegacyRemoved
