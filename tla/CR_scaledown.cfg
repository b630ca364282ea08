SPECIFICATION Spec
CONSTANTS
  Units = {u1, u2}
  Relations = {1}
  Databases = {d1}
  DbOf <- MCSharedDb
  AdminRelations = {1}
  GroupAdmins = {1}
  LateAdmins = {}
  Rejected = {}
  Last <- MCLast
  UserBeforeDb = FALSE
  LeaderMayLeave = TRUE
  Budgets <- MCLeaveRemovalCrash
  Absent = Absent
  Null = Null
  NoRel = NoRel
  NoUnit = NoUnit
SYMMETRY UnitSymmetry
CHECK_DEADLOCK FALSE
INVARIANTS TypeOK GrantedCanLogIn BrokenExcused
PROPERTIES LiveUserKept
