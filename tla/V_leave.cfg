SPECIFICATION Spec
CONSTANTS
  Units = {u1, u2}
  Relations = {1, 2}
  Databases = {d1, d2}
  DbOf <- MCOwnDb
  AdminRelations = {}
  GroupAdmins = {}
  LateAdmins = {}
  Rejected = {}
  Last <- MCLast
  UserBeforeDb = TRUE
  LeaderMayLeave = TRUE
  Budgets <- MCLeave
  Absent = Absent
  Null = Null
  NoRel = NoRel
  NoUnit = NoUnit
SYMMETRY UnitSymmetry
CHECK_DEADLOCK FALSE
INVARIANTS GrantedIsRouted
