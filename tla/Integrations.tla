--------------------------- MODULE Integrations ---------------------------
(***************************************************************************)
(* The libraries behind the relations of the charm, and what its leader    *)
(* does in PostgreSQL.  They share no state, so a behaviour is one of one  *)
(* of them, and the rest stays as it is before its first hook.             *)
(***************************************************************************)
EXTENDS Naturals

CONSTANTS
  None, Deleted, Absent,
  (* DataExchange, PeerSecrets *)
  Providers, Requirers, ExchangeBudgets, SecretFields, Renamed, Values,
  (* Certificates, LogProxy *)
  CsrLimit, TlsBudgets, Lokis, Leader, LogBudgets,
  (* Scraping *)
  Pods, ScrapeRevisions, ScrapePorts, ScrapeBudgets,
  (* Dashboards, Alerts *)
  Grafanas, DashboardBudgets, Monitors, Applications, RuleFiles, RuleBudgets,
  (* RelationStatuses, UnitStatus *)
  StatusCodes, StatusBudgets, LegacyRelations, UnitBudgets,
  (* PostgresUsers *)
  UserRelations, AdminRelations, SuperUser, ClientDatabases, ClientDatabase, UserBudgets,
  (* DatabaseRoutes *)
  RoutedClients, AdminClients, RouteNames, RouteDatabase, RouteBudgets

VARIABLES
  part,
  (* DataExchange *)
  providing, requiring, request, wanted, asked, plain, secret, endpoints, seen, view,
  requested, created, hasSecrets, began, toProvider, toRequirer, spent,
  (* PeerSecrets *)
  databag, labelled, legacy, unlabelled, uri, expected,
  (* Certificates *)
  tlsRelated, key, csr, cert, made, keyOf, csrs, toAnswer, issued, revoked, age, notice,
  deferred, toUnit, toOperator, tlsHooks, tlsConfigOK, tlsUp, file, tls, tlsSpent,
  (* LogProxy *)
  related, dying, present, leaving, toLoki, offered, published, hooks, failing, up, cached,
  installed, planned, config, running, logSpent,
  (* Scraping *)
  scrapeLeader, members, scrapeRevision, address, host, jobs, joining, toPrepare, toScrape,
  targets, scrapeSpent,
  (* Dashboards *)
  dashLeader, dashRevision, stored, dashRelated, dashboards, updating, relating, leading,
  rendered, shown, changed, broken, peerChanged, dashSpent,
  (* Alerts *)
  kind, app, topology, ruleLeader, ruleRelated, rules, event, told, toMonitor, upgraded, toCharm,
  applied, ruleSpent,
  (* RelationStatuses *)
  resource, statuses, subordinate, ready, codes, active, statusChanged, statusSpent,
  (* PostgresUsers *)
  status, named, hook, roles, databases, connecting, creating, owner, rights, auth, late, reach,
  userSpent,
  (* UnitStatus *)
  unitStatus, backend, valid, pgbouncerRuns, enabled, asks, state, pending, refused, unitSpent,
  (* DatabaseRoutes *)
  routesLeader, granted, heard, dbsConfig, readonly, datname, authDbs, replicas, toRender, ini,
  routesSpent

Parts == {"exchange", "secrets", "tls", "logs", "metrics", "dashboards", "alerts", "statuses",
          "users", "unit", "routes"}

----------------------------------------------------------------------------
(* The parts *)

Exchange == INSTANCE DataExchange WITH Budgets <- ExchangeBudgets

Secrets == INSTANCE PeerSecrets WITH Fields <- SecretFields

\* No value is mistaken for none.
ASSUME SecretsAssumption == Secrets!Distinct

\* A number of requests.
ASSUME CsrLimitAssumption == CsrLimit \in Nat

Tls == INSTANCE Certificates WITH
  Requests <- CsrLimit,
  related <- tlsRelated, requested <- csrs, asked <- toAnswer, hooks <- tlsHooks,
  configOK <- tlsConfigOK, up <- tlsUp, spent <- tlsSpent, Budgets <- TlsBudgets

Logs == INSTANCE LogProxy WITH spent <- logSpent, Budgets <- LogBudgets

Metrics == INSTANCE Scraping WITH
  Units <- Pods, Revisions <- ScrapeRevisions, PortsOf <- ScrapePorts,
  leader <- scrapeLeader, revision <- scrapeRevision, ready <- toPrepare, spent <- scrapeSpent,
  Budgets <- ScrapeBudgets

ASSUME ScrapingAssumption == Metrics!Parameters

Boards == INSTANCE Dashboards WITH
  Units <- Pods,
  leader <- dashLeader, revision <- dashRevision, related <- dashRelated, databag <- dashboards,
  creating <- relating, spent <- dashSpent, Budgets <- DashboardBudgets

Rules == INSTANCE Alerts WITH
  Units <- Monitors, Apps <- Applications, FileSets <- RuleFiles,
  leader <- ruleLeader, related <- ruleRelated, published <- rules, spent <- ruleSpent,
  Budgets <- RuleBudgets

Statuses == INSTANCE RelationStatuses WITH
  Units <- Requirers, Codes <- StatusCodes,
  requested <- resource, stored <- codes, toRequirer <- statusChanged, spent <- statusSpent,
  Budgets <- StatusBudgets

Users == INSTANCE PostgresUsers WITH
  Relations <- UserRelations, Admins <- AdminRelations, Databases <- ClientDatabases,
  DbOf <- ClientDatabase, Postgres <- "postgres", Admin <- SuperUser,
  published <- named, spent <- userSpent, Budgets <- UserBudgets

ASSUME UsersAssumption == Users!Parameters

Unit == INSTANCE UnitStatus WITH
  Relations <- LegacyRelations, status <- unitStatus, running <- pgbouncerRuns,
  spent <- unitSpent, Budgets <- UnitBudgets

Routes == INSTANCE DatabaseRoutes WITH
  Units <- Pods, Relations <- RoutedClients, Admins <- AdminClients, Names <- RouteNames,
  DbOf <- RouteDatabase,
  leader <- routesLeader, state <- granted, config <- dbsConfig, auth <- authDbs,
  pending <- toRender, spent <- routesSpent, Budgets <- RouteBudgets

ASSUME RoutesAssumption == Routes!Parameters

exchange == <<providing, requiring, request, wanted, asked, plain, secret, endpoints, seen, view,
              requested, created, hasSecrets, began, toProvider, toRequirer, spent>>
secrets == <<databag, labelled, legacy, unlabelled, uri, expected>>
certificates == <<tlsRelated, key, csr, cert, made, keyOf, csrs, toAnswer, issued, revoked, age,
                  notice, deferred, toUnit, toOperator, tlsHooks, tlsConfigOK, tlsUp, file, tls,
                  tlsSpent>>
logs == <<related, dying, present, leaving, toLoki, offered, published, hooks, failing, up, cached,
          installed, planned, config, running, logSpent>>
metrics == <<scrapeLeader, members, scrapeRevision, address, host, jobs, joining, toPrepare,
             toScrape, targets, scrapeSpent>>
boards == <<dashLeader, dashRevision, stored, dashRelated, dashboards, updating, relating, leading,
            rendered, shown, changed, broken, peerChanged, dashSpent>>
alerts == <<kind, app, topology, ruleLeader, ruleRelated, rules, event, told, toMonitor, upgraded,
            toCharm, applied, ruleSpent>>
resources == <<resource, statuses, subordinate, ready, codes, active, statusChanged, statusSpent>>
users == <<status, named, hook, roles, databases, connecting, creating, owner, rights, auth, late,
           reach, userSpent>>
unit == <<unitStatus, backend, valid, pgbouncerRuns, enabled, asks, state, pending, refused,
          unitSpent>>
routes == <<routesLeader, granted, heard, dbsConfig, readonly, datname, authDbs, replicas, toRender,
            ini, routesSpent>>

others == <<metrics, boards, alerts, resources, users, unit, routes>>
vars == <<part, exchange, secrets, certificates, logs, others>>

----------------------------------------------------------------------------

Runs(p) == part = p

One(set) == CHOOSE x \in set : TRUE

\* A relation of which no hook is to come, or a databag without a field.
ExchangeIdle ==
  /\ providing = One(Providers) /\ requiring = One(Requirers)
  /\ request = FALSE /\ wanted = FALSE /\ asked = FALSE
  /\ plain = {} /\ secret = {} /\ endpoints = Exchange!Unset
  /\ seen = [u \in Requirers |-> [plain |-> {}, uri |-> FALSE, endpoints |-> Exchange!Unset]]
  /\ view = [u \in Requirers |-> [credentials |-> FALSE, endpoints |-> Exchange!Unset]]
  /\ requested = 0 /\ created = [u \in Requirers |-> 0] /\ hasSecrets = {}
  /\ began = {} /\ toProvider = {} /\ toRequirer = {}
  /\ spent = [d \in Exchange!Disturbances |-> 0]

SecretsIdle ==
  /\ databag = [f \in SecretFields |-> None] /\ expected = databag
  /\ labelled = Absent /\ legacy = Absent /\ unlabelled = Absent /\ uri = FALSE

\* Which unit leads first makes no difference, nor which application is the first.
Init ==
  /\ part \in Parts
  /\ IF part = "exchange" THEN Exchange!Init ELSE ExchangeIdle
  /\ IF part = "secrets" THEN Secrets!Init ELSE SecretsIdle
  /\ Tls!Init /\ Logs!Init /\ Users!Init
  /\ Metrics!Init /\ (part # "metrics" => scrapeLeader = One(Pods))
  /\ Boards!Init /\ dashLeader = One(Pods) /\ leading = One(Grafanas)
  /\ Rules!Init /\ ruleLeader = One(Monitors) /\ app[1] = One(Applications)
  /\ part # "alerts" => /\ kind = "loki" /\ app[2] = app[1]
                        /\ \A r \in DOMAIN topology : topology[r] = "labels"
  /\ Statuses!Init /\ (part # "statuses" => ~subordinate)
  /\ Unit!Init /\ (part # "unit" => asks = {})
  /\ Routes!Init /\ routesLeader = One(Pods)

Next ==
  /\ UNCHANGED part
  /\ \/ /\ Runs("exchange") /\ Exchange!Next
        /\ UNCHANGED <<secrets, certificates, logs, others>>
     \/ /\ Runs("secrets") /\ Secrets!Next
        /\ UNCHANGED <<exchange, certificates, logs, others>>
     \/ /\ Runs("tls") /\ Tls!Next
        /\ UNCHANGED <<exchange, secrets, logs, others>>
     \/ /\ Runs("logs") /\ Logs!Next
        /\ UNCHANGED <<exchange, secrets, certificates, others>>
     \/ /\ UNCHANGED <<exchange, secrets, certificates, logs>>
        /\ \/ /\ Runs("metrics") /\ Metrics!Next
              /\ UNCHANGED <<boards, alerts, resources, users, unit, routes>>
           \/ /\ Runs("dashboards") /\ Boards!Next
              /\ UNCHANGED <<metrics, alerts, resources, users, unit, routes>>
           \/ /\ Runs("alerts") /\ Rules!Next
              /\ UNCHANGED <<metrics, boards, resources, users, unit, routes>>
           \/ /\ Runs("statuses") /\ Statuses!Next
              /\ UNCHANGED <<metrics, boards, alerts, users, unit, routes>>
           \/ /\ Runs("users") /\ Users!Next
              /\ UNCHANGED <<metrics, boards, alerts, resources, unit, routes>>
           \/ /\ Runs("unit") /\ Unit!Next
              /\ UNCHANGED <<metrics, boards, alerts, resources, users, routes>>
           \/ /\ Runs("routes") /\ Routes!Next
              /\ UNCHANGED <<metrics, boards, alerts, resources, users, unit>>

Spec == Init /\ [][Next]_vars

\* Each part is fair as its module says, as long as it is the one that runs.
FairSpec ==
  /\ Spec
  /\ WF_exchange(Runs("exchange") /\ Exchange!Hooks)
  /\ WF_certificates(Runs("tls") /\ Tls!Handlers)
  /\ WF_logs(Runs("logs") /\ Logs!Hooks)
  /\ WF_metrics(Runs("metrics") /\ Metrics!Hooks)
  /\ WF_boards(Runs("dashboards") /\ Boards!Hooks)
  /\ WF_alerts(Runs("alerts") /\ Rules!Hooks)
  /\ WF_resources(Runs("statuses") /\ Statuses!Hooks)
  /\ WF_users(Runs("users") /\ Users!Hooks)
  /\ \A r \in LegacyRelations : WF_unit(Runs("unit") /\ Unit!Broken(r))
  /\ WF_routes(Runs("routes") /\ Routes!UpdateStatus)
  /\ \A r \in RoutedClients : WF_routes(Runs("routes") /\ Routes!DatabaseRequested(r))
  /\ \A u \in Pods : WF_routes(Runs("routes") /\ Routes!Renders(u))

----------------------------------------------------------------------------
(* The properties of the parts; a part that does not run is as it was. *)

\* The variables of the parts have their types.
TypeOK ==
  /\ part \in Parts
  /\ Runs("exchange") => Exchange!TypeOK
  /\ Runs("secrets") => Secrets!TypeOK
  /\ Runs("tls") => Tls!TypeOK
  /\ Runs("logs") => Logs!TypeOK
  /\ Runs("metrics") => Metrics!TypeOK
  /\ Runs("dashboards") => Boards!TypeOK
  /\ Runs("alerts") => Rules!TypeOK
  /\ Runs("statuses") => Statuses!TypeOK
  /\ Runs("users") => Users!TypeOK
  /\ Runs("unit") => Unit!TypeOK
  /\ Runs("routes") => Routes!TypeOK

\* A database is requested once, and database-created emitted once for each unit
\* (data_interfaces.py:2271-2279, 3556-3576, 3914-3929).
AskedOnce == Runs("exchange") => Exchange!RequestedOnce /\ Exchange!CreatedOnce

\* The requirer can read the credentials that there are (data_interfaces.py:1545-1573).
CredentialsReadable == Runs("exchange") => Exchange!CredentialsReadable

\* A secret of the peer relation reads back as it was set last (charm.py:738-804).
ReadsBack == Runs("secrets") => Secrets!ReadsBack

\* A secret of the peer relation is in one place (data_interfaces.py:2503-2564).
OnePlace == Runs("secrets") => Secrets!OnePlace

\* The key in the container is the one of the certificate there, or is about to be
\* (postgresql_tls.py:134-161).
KeyMatches == Runs("tls") => Tls!KeyMatches

\* TLS is enabled only with its files in the container, and only while the relation is there,
\* but for what the next hook repairs (charm.py:349-350, 806-835, postgresql_tls.py:122-132).
TlsFollows == Runs("tls") => Tls!TlsHasFiles /\ Tls!TlsEnds

\* promtail runs with the configuration in its file, and Prometheus accepts the one it gets, as
\* no two jobs have the same name (loki_push_api.py:1829-1901, prometheus_scrape.py:1193-1235).
ConfigurationsHold ==
  /\ Runs("logs") => Logs!RunsAsConfigured
  /\ Runs("metrics") => Metrics!JobNamesUnique

\* Clients keep their access and can log in, through the wildcard as well, while others come
\* and go (postgresql.py:214-378, 476-540, backend_database.py:482-531).
AccessKept ==
  /\ Runs("users") => Users!AccessKept /\ Users!LoginsWork
  /\ Runs("routes") => Routes!WildcardChecked

\* No table is lost with the user that owns it (postgresql.py:343-378).
NoTableLost == Users!NoTableLost

\* What the one side of a relation offers the other ends up with, or takes back, each in its
\* module: credentials, a certificate, a promtail, scrape jobs, dashboards, alert rules, the
\* status of a resource, a user, entries for reading only; and the status of the unit lets go of
\* a block whose cause is gone.
Served ==
  <>[](/\ Runs("exchange") => Exchange!Exchanged
       /\ Runs("tls") => Tls!TlsServed
       /\ Runs("logs") => Logs!LogsShipped
       /\ Runs("metrics") => Metrics!MetricsScraped
       /\ Runs("dashboards") => Boards!DashboardsShown
       /\ Runs("alerts") => Rules!AlertsApplied
       /\ Runs("statuses") => Statuses!StatusesAgree
       /\ Runs("users") => Users!UsersSettle
       /\ Runs("unit") => Unit!BlockCleared
       /\ Runs("routes") => Routes!EntriesSettle)
=============================================================================
