SPECIFICATION Spec
CONSTANTS
  Units = {u1, u2, u3}
  Relations = {1}
  Databases = {d1}
  DbOf <- MCSharedDb
  AdminRelations = {}
  GroupAdmins = {}
  LateAdmins = {1}
  Rejected = {}
  Last <- MCLast
  UserBeforeDb = TRUE
  LeaderMayLeave = FALSE
  Budgets <- MCRolloutBudgets
  Absent = Absent
  Null = Null
  NoRel = NoRel
  NoUnit = NoUnit
SYMMETRY UnitSymmetry
CHECK_DEADLOCK FALSE
INVARIANTS GrantedIsRouted AckedIsRendered
