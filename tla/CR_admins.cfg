SPECIFICATION FixedLeaderSpec
CONSTANTS
  Units = {u1, u2}
  Relations = {1, 2}
  Databases = {d1, d2}
  DbOf <- MCOwnDb
  AdminRelations = {1}
  GroupAdmins = {1}
  LateAdmins = {2}
  Rejected = {}
  Last <- MCLast
  UserBeforeDb = TRUE
  LeaderMayLeave = FALSE
  Budgets <- MCCalm
  Absent = Absent
  Null = Null
  NoRel = NoRel
  NoUnit = NoUnit
CHECK_DEADLOCK FALSE
PROPERTIES RequestAnswered
