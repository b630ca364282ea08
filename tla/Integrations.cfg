SPECIFICATION FairSpec
CONSTANTS
  None = None
  Deleted = Deleted
  Absent = Absent
  Providers = {p1, p2}
  Requirers = {r1, r2}
  SecretFields = {f, g}
  Renamed = {g}
  Values = {a, b}
  CsrLimit = 5
  Lokis = {l1, l2, l3}
  Leader = l1
  Pods = {u1, u2}
  Grafanas = {g1, g2}
  Monitors = {m1, m2}
  Applications = {a1, a2}
  UserRelations = {c1, c2}
  AdminRelations = {c2}
  SuperUser = SuperUser
  LegacyRelations = {d1, d2}
  RoutedClients = {1, 2, 3}
  AdminClients = {2}
  ExchangeBudgets <- MCExchangeBudgets
  TlsBudgets <- MCTlsBudgets
  LogBudgets <- MCLogBudgets
  ScrapeRevisions <- MCScrapeRevisions
  ScrapePorts <- MCScrapePorts
  ScrapeBudgets <- MCScrapeBudgets
  DashboardBudgets <- MCDashboardBudgets
  RuleFiles <- MCRuleFiles
  RuleBudgets <- MCRuleBudgets
  StatusCodes <- MCStatusCodes
  StatusBudgets <- MCStatusBudgets
  ClientDatabases <- MCClientDatabases
  ClientDatabase <- MCClientDatabase
  UserBudgets <- MCUserBudgets
  UnitBudgets <- MCUnitBudgets
  RouteNames <- MCRouteNames
  RouteDatabase <- MCRouteDatabase
  RouteBudgets <- MCRouteBudgets
CHECK_DEADLOCK FALSE
INVARIANTS TypeOK AskedOnce CredentialsReadable ReadsBack OnePlace KeyMatches TlsFollows ConfigurationsHold AccessKept
PROPERTIES NoTableLost Served
