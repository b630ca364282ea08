SPECIFICATION FixedLeaderSpec
CONSTANTS
  Units = {u1, u2}
  Relations = {1}
  Databases = {d1}
  DbOf <- MCSharedDb
  AdminRelations = {1}
  GroupAdmins = {}
  LateAdmins = {}
  Rejected = {}
  Last <- MCLast
  UserBeforeDb = TRUE
  LeaderMayLeave = FALSE
  Budgets <- MCRepairs
  Absent = Absent
  Null = Null
  NoRel = NoRel
  NoUnit = NoUnit
CHECK_DEADLOCK FALSE
PROPERTIES RequestAnswered ContainerStarts
