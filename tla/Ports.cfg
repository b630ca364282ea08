SPECIFICATION FairSpec
CONSTANTS
  Units = {u1, u2}
  Clients = {1, 2}
  Ports = {6432, 6433}
  Types = {"ClusterIP", "NodePort", "LoadBalancer"}
  Budgets <- MCDisturbed
  None = None
CHECK_DEADLOCK FALSE
INVARIANTS NoStaleService
PROPERTIES RolledOut ToldEventually
