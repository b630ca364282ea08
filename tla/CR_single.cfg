SPECIFICATION Spec
CONSTANTS
  Units = {u1}
  Relations = {1, 2, 3}
  Databases = {d1, d2}
  DbOf <- MCThreeDb
  AdminRelations = {1}
  GroupAdmins = {1}
  LateAdmins = {}
  Rejected = {3}
  Last <- MCLast
  UserBeforeDb = TRUE
  LeaderMayLeave = FALSE
  Budgets <- MCTwoRemovalsCrash
  Absent = Absent
  Null = Null
  NoRel = NoRel
  NoUnit = NoUnit
SYMMETRY UnitSymmetry
CHECK_DEADLOCK FALSE
INVARIANTS GrantedCanLogIn UserRemoved
