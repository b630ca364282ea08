--------------------------- MODULE MCIntegrations ---------------------------
(***************************************************************************)
(* The bounds of the parts of Integrations.                                *)
(***************************************************************************)
EXTENDS Integrations, FiniteSetsExt

\* Budgets that have one disturbance of each of two kinds.
OfTwo(kinds) == {[d \in kinds |-> IF d \in {x, y} THEN 1 ELSE 0] : x, y \in kinds}

MCExchangeBudgets ==
  OfTwo({"provider_elections", "requirer_elections", "failures", "upgrades", "updates"})

TlsDisturbances ==
  {"removals", "keys", "revocations", "expiries", "restarts", "failures", "misconfigs"}
Twice == {"expiries", "failures"}
MCTlsBudgets ==
  {[d \in TlsDisturbances |-> IF d \notin b THEN 0 ELSE IF d \in Twice THEN 2 ELSE 1] :
     b \in kSubset(3, TlsDisturbances)}

MCLogBudgets == {[removals |-> 1, departures |-> 2, restarts |-> 2, downloads |-> 1]}

\* The second revision adds a job.
MCScrapeRevisions == {1, 2}
MCScrapePorts == [r \in MCScrapeRevisions |-> 1..r]
MCScrapeBudgets ==
  OfTwo({"elections", "leaves", "refreshes", "replacements", "restarts"}) \union
  {[elections |-> 0, leaves |-> 0, refreshes |-> 2, replacements |-> 0, restarts |-> 0]}

DashboardDisturbances ==
  {"elections", "refreshes", "additions", "publications", "removals", "grafana_elections"}
MCDashboardBudgets ==
  OfTwo(DashboardDisturbances) \union
  {[d \in DashboardDisturbances |-> IF d = x THEN 2 ELSE 0] : x \in DashboardDisturbances}

\* Two files of which the groups have the same name, or two that are valid.
RuleFile(dir, stem, form) ==
  [dir |-> dir, stem |-> stem, form |-> form, names |-> {<<"g">>}, sound |-> TRUE]
MCRuleFiles ==
  {{RuleFile(<<"a">>, <<"b">>, "rule"), RuleFile(<<>>, <<"a", "b">>, "rule")},
   {RuleFile(<<>>, <<"c">>, "groups"), RuleFile(<<>>, <<"b">>, "neither")}}
MCRuleBudgets ==
  {[d \in {"refreshes", "elections", "removals", "upgrades"} |-> IF d \in b THEN 1 ELSE 0] :
     b \in {{"refreshes", "elections"}, {"removals"}, {"upgrades"}}}

MCStatusCodes == {1, 2}
MCStatusBudgets == {[calls |-> 3, failures |-> 1]}

\* All clients request the same database, and two of them may be removed.
MCClientDatabases == {"d", "postgres"}
MCClientDatabase == [c \in UserRelations |-> "d"]
MCUserBudgets ==
  {[errors |-> 1, crashes |-> 0, removals |-> 2], [errors |-> 0, crashes |-> 1, removals |-> 2]}

\* Two legacy relations, both of which may be removed, and one disturbance of another kind.
UnitDisturbances ==
  {"outages", "stops", "misconfigurations", "enablings", "removals", "roles", "errors"}
MCUnitBudgets ==
  {[d \in UnitDisturbances |-> IF d = "removals" THEN 2 ELSE IF d = x THEN 1 ELSE 0] :
     x \in UnitDisturbances}

\* The clients but the first request the same database; another one is nobody's.
MCRouteNames == {"d", "e", "f"}
MCRouteDatabase == [c \in RoutedClients |-> IF c = 1 THEN "d" ELSE "e"]
MCRouteBudgets ==
  OfTwo({"elections", "removals", "refusals", "creations", "drops", "replicas"})
=============================================================================
