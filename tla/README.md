# TLA+ models of the pgbouncer-k8s charm

The charm runs one pgbouncer per unit in front of a PostgreSQL application. It has no
process of its own: Juju calls it with an event (a *hook*), the handlers run to the
end, and everything that must survive is in relation databags, Juju secrets,
PostgreSQL and the files of the workload container. Its hard problems are therefore
those of a distributed system: every unit sees its own sequence of hooks, only the
leader may write the application databags, a failed hook throws its databag writes
away but not what it did to PostgreSQL, a handler may put its event off
(`event.defer()`), and deferred events come back in front of whatever hook happens to
run next, on the same unit, even if that unit is no longer the leader or the relation
no longer exists.

Paths below are relative to the repository.

## Inventory

| Component | Source | State it keeps | Operations |
|---|---|---|---|
| Client relation provider | `src/relations/pgbouncer_provider.py` | credentials and endpoints in the client databags, `..._departing` flags in the unit databag | `_on_database_requested`, `_on_relation_departed`, `_on_relation_broken`, `update_connection_info`, `update_endpoints` |
| Peer relation | `src/relations/peers.py` | app databag (`pgb_dbs_config`, `current_port`, `readonly_dbs`), unit databag (`pgb_dbs` hash, `container_initialised`, `userlist_nonce`) | `_on_created`, `_on_changed`, `_on_departed`, `_on_leader_elected` |
| Charm | `src/charm.py` | pgbouncer.ini and userlist in the container, pebble services, unit status, K8s service | `_on_pgbouncer_pebble_ready`, `_on_config_changed`, `_on_update_status`, `generate/get/set_relation_databases`, `render_pgb_config`, `reconcile_k8s_service`, `push_tls_files_to_workload`, `update_status` |
| Read-only databases and the wildcard | `src/charm.py`, `src/relations/pgbouncer_provider.py` | `readonly_dbs`, the `"*"` entry of `pgb_dbs_config` | `_collect_readonly_dbs`, `_get_readonly_dbs`, `_get_relation_config` |
| Peer secrets | `src/charm.py`, `lib/charms/data_platform_libs/v0/data_interfaces.py` | labelled and older secrets, databag fields | `get_secret`, `set_secret`, `remove_secret`, `DataPeerData` |
| Database relation library | `data_interfaces.py` | the `data` diffs in the databags of both sides, secrets, `requested-secrets` | `DatabaseProvides` and `DatabaseRequires`, from relation-created to database-created and endpoints-changed |
| Resource statuses | `data_interfaces.py` | codes in the provider's databag, stored codes of each unit | raise, resolve, clear; status-raised and status-resolved |
| PostgreSQL client | `lib/charms/postgresql_k8s/v0/postgresql.py`, `src/relations/backend_database.py` | users, databases, owners, grants, auth function | `create_user`, `create_database`, `delete_user`, `initialise/remove_auth_function` |
| Backend relation | `src/relations/backend_database.py` | auth user and password, secret with the userlist, departing flag | `_on_database_created` (leader and follower), `_on_endpoints_changed`, `_on_relation_departed`, `_on_relation_broken`, `ready` |
| Legacy `db`, `db-admin` | `src/relations/db.py` | legacy databags, users and databases | joined, changed, departed, broken |
| Rolling upgrade | `src/upgrade.py`, `lib/charms/data_platform_libs/v0/upgrade.py` | upgrade stack, unit states, StatefulSet partition | pre-upgrade-check, upgrade-charm, pebble-ready, upgrade-changed, resume |
| TLS | `lib/charms/postgresql_k8s/v0/postgresql_tls.py`, `lib/charms/tls_certificates_interface/v2/tls_certificates.py` | key, CSR, certificate, CA in secrets; requests in the databag; files | set key, certificate available, expiring, invalidated, relation broken |
| Unit status | `src/charm.py`, `src/relations/db.py`, `backend_database.py` | the status that `juju status` shows | `update_status`, `check_pgb_running`, `check_backend`, blocks of the relations |
| Logs | `lib/charms/loki_k8s/v0/loki_push_api.py` | promtail in the container, endpoints, alert rules | `LogProxyConsumer`, `LokiPushApiProvider`, `LokiPushApiConsumer` |
| Metrics | `lib/charms/prometheus_k8s/v0/prometheus_scrape.py` | unit addresses, scrape jobs, alert rules | `MetricsEndpointProvider`, `MetricsEndpointConsumer` |
| Dashboards | `lib/charms/grafana_k8s/v0/grafana_dashboard.py` | stored templates, databag, Grafana's peer data | `GrafanaDashboardProvider`, `GrafanaDashboardConsumer` |
| Rendered file, helpers | `templates/`, `src/config.py`, `pgb.py`, `data_models.py` | none | pool sizes, hashes, passwords, validation |

How they interact. The leader writes the map from relation id to database
(`pgb_dbs_config`) to the peer databag; Juju tells the other units (peers-changed),
which render it and publish its hash; the leader, whose request was deferred
meanwhile, compares the hashes and only then creates the user and the database in
PostgreSQL and hands out credentials. pebble-ready, config-changed, endpoints-changed
and upgrade all render the same file from the same databag. The backend relation
decides whether anything can be granted or revoked at all, and the secret with the
userlist whether a client can log in. The legacy relations run the same agreement on
databases with other databags. Every handler reaches the databags through
`data_interfaces.py`, whose diffs decide which events there are. The observability
libraries share nothing with these but the container and the leadership of the unit.

What is hard here, and for each component what makes it correct:

* *Client relations*: a client with credentials can connect through every unit (its
  database is routed, its user, database and auth function exist); requests are
  answered; removal removes exactly the user of the removed relation. Threatened by
  elections, failed hooks, restarts, unreachable backends, stale acknowledgements,
  deferred requests that outlive their relation.
* *Configuration and ports*: service, recorded port and the endpoints of clients agree
  in the end. Threatened by the order of leader and followers, refusals of the
  Kubernetes API and hooks that fail half-way.
* *Backend*: auth user, secret and userlist agree; removal of the relation cleans up
  once; scale-down cleans up nothing.
* *Legacy relations*: joined, changed and broken wait for each other's databag writes
  and must not wait for ever; published credentials work.
* *Upgrade*: one unit at a time, none skipped, a failed unit stops the rollout.
* *TLS*: the files in the container are one matching set, for a valid certificate.
* *PostgreSQL*: no client loses its tables, privileges or the auth function because
  another one is granted, refused, retried or removed.
* *Secrets*: what was written is read back, whichever revision wrote it first.
* *Exchange of a relation*: asked once, told once, nothing lost.
* *Unit status*: a block is shown while, and only while, its cause lasts.
* *Logs, metrics, dashboards, alerts*: what one side offers the other has in the end,
  and takes back when it is gone.

The whole list of hazards, at their lines, with the properties that address them, is
in `PROJECT.json`.

## Modules

| Module | Contents | Checked by | Proofs |
|---|---|---|---|
| `ClientRelations` | the client relation from relation-changed to relation-broken on all units; implements `Provisioning` | `MCClientRelations`, seven runs | `ClientRelations_proofs`, `Routing_proofs`, `Logins_proofs` |
| `Provisioning` | what the charm promises the client of a database relation | as a property of `CR_elections` | `Logins_proofs` |
| `PortRollout` | ports, Kubernetes service and endpoints | `MCPortRollout`, `Ports` | `PortRollout_proofs` |
| `BackendLifecycle` | the relation to PostgreSQL | `MCBackendLifecycle`, `Backend` | `BackendLifecycle_proofs` |
| `LegacyDb` | the relations `db` and `db-admin` | `MCLegacyDb`, `Legacy` | `LegacyDb_proofs` |
| `RollingUpgrade` | the upgrade on Kubernetes; implements `UpgradeOrder` | `MCRollingUpgrade`, `Upgrade` | `RollingUpgrade_proofs` |
| `UpgradeOrder` | what a rolling upgrade promises | as a property of `Upgrade` | `RollingUpgrade_proofs` |
| `Integrations` | the eleven parts below, one of which runs in a behaviour | `MCIntegrations`, `Integrations` | `Integrations_proofs` |
| `DataExchange` | one database relation, both ends of `data_interfaces.py` | part of `Integrations` | `Integrations_proofs` |
| `PeerSecrets` | secrets of the peer relation | part of `Integrations` | `Integrations_proofs` |
| `DatabaseRoutes` | wildcard and read-only entries | part of `Integrations` | `Integrations_proofs` |
| `PostgresUsers` | statements of the leader in PostgreSQL, while clients create tables | part of `Integrations` | `Integrations_proofs` |
| `Certificates` | a unit, its certificates and the operator that issues them | part of `Integrations` | `Integrations_proofs` |
| `LogProxy` | promtail and the units of Loki | part of `Integrations` | `Integrations_proofs` |
| `Scraping` | scrape jobs and targets | part of `Integrations` | `Integrations_proofs` |
| `UnitStatus` | who sets and clears the status | part of `Integrations` | `Integrations_proofs` |
| `RelationStatuses` | statuses that a provider raises for its requirers | part of `Integrations` | `Integrations_proofs` |
| `Dashboards` | dashboards of pgbouncer in Grafana | part of `Integrations` | `Integrations_proofs` |
| `Alerts` | alert rules in Loki and Prometheus | part of `Integrations` | `Integrations_proofs` |

The head of every module names the code it models and its simplifications. In all of
them `spent` counts the disturbances of a behaviour against `Budgets`, `pending` (or
`hooks`, `to...`) is what Juju is still to deliver to whom, and an event that is
deferred without any effect stays there. Definitions whose name ends in what a slip
would do (`KnownAny`, `RemoveNoAuthFunction`, `NextPartitionAlways`, ...) are variants
of the definition that follows them, with which the properties are known to fail;
nothing else uses them.

### How ClientRelations corresponds to the code

*Hooks.* `hook[u]` is what unit `u` is doing: the event, the notices still to be
handled (`todo`: the deferred ones first, then the event itself, as `Framework.reemit`
does), the notices kept by `defer()` (`kept`) and the unit's own peer databag as the
hook sees it (`bag`). `StartHook` takes any event Juju has for the unit; Juju's only
ordering guarantee that the code relies on is that relation-broken is last
(`Deliverable`). Each handler is one action, with the early returns of the code as its
alternatives: `_on_database_requested` is `DropRequest` (not leader), `AwaitBackend`,
`RequestMisconfigured`, `AwaitPeers`, `Grant`, `Refuse`, `RequestFails`,
`RequestOfDeadRelation`, `ProvisioningFails`, `GrantTooEarly`; `_on_relation_broken` is `IgnoreBroken`,
`KeepRelation`, `Revoke`, `RevokeFails`; `Peers._on_changed` is `PeersUnready`,
`PeersTooEarly`, `PeersMisconfigured`, `PeersChanged`. `Commit` flushes the databags
and tells the other units; `Discard` throws them away and gives the event back.

*Data.* `pgb_dbs_config` is `Config`: a database, nothing or JSON null under each
relation id, and the `auth_dbname` of `"*"`. A hash stands for its content. `app` is
what the leader has committed, `buf` what its running hook reads and writes.
`ready[u]` says that pebble-ready got to its end for the running container;
`hook[u].bag.init` is `container_initialised`, which stays when the container
restarts, so that `is_container_ready` may be true of a container that is not
configured (`PassesForReady`). `pg` holds the users by relation id, the databases, and
the databases in which the auth function may be called. PostgreSQL refuses invalid roles
(`Rejected`) and, where users are created first, the second attempt of a relation with
the role admin (`Unalterable`: `ALTER ROLE ... IN ROLE` is no statement); that and an error
which the handler catches (`RequestFails`, at any of the statements) block the unit and
drop the request, while an uncaught one fails the hook, which is retried.

*Environment* (external, modelled from how the code uses it): clients add and remove
relations, leadership moves between hooks, a unit is scaled down, a hook fails at any
point, the container restarts, PostgreSQL is unreachable or the K8s service missing,
the juju configuration becomes invalid and is repaired.

*Assumptions about Juju and ops*: a unit that is scaled down sees relation-departed
with itself as the departing unit and then relation-broken, for each of its relations;
`model.relations` leaves out the relation whose relation-broken is being handled, but
the event can still read that relation's data; a deferred event of a relation that is
gone reads `None`; the databag writes of a failed hook are discarded, and the hook is
retried, possibly after other pending events (Juju itself retries it first; the model
allows both); a failed update-status is not retried.

*Left out*: see the head of the module for its simplifications. Versions, TLS flags
and URIs in the client databags are not modelled, as no handler reads them; endpoints
are in `PortRollout`, statuses in `UnitStatus`.

### How the other modules correspond to the code

In these modules a hook is one step, or one step for each event it handles: what it
writes to databags is seen by nobody before it ends, and units do not share anything
else. Where a hook changes something outside its transaction (a service, a user, a
file, the exporter) and may fail after it, the failure is an action of its own that
keeps the effect and discards the databags.

* `PortRollout`: `ConfigChanged` is the hook on leader and follower, with
  `PortChanged` for the comparison with `current_port`, `Applied` for
  `reconcile_k8s_service` and `Restarted` for reload or restart.
  `ConfigChangedRefused` is the API's refusal, `ConfigChangedFails` a hook that breaks
  off after it applied the service, `ConfigChangedDeferred` one that cannot reach the
  container and is deferred, having recorded the port all the same. `EndpointOf` is what
  `get_hosts_ports` makes of a service and the configured port, `ServedBy` where that
  service really is. `Told` is `update_endpoints`, `ToldInOrder` its return at the first
  relation without credentials.
* `BackendLifecycle`: one action for each outcome of `_on_database_created`
  (`LeaderAwaits`, `LeaderInitialises`, `AuthFunctionFails`, `FollowerDrops`,
  `FollowerAwaits`, `FollowerCopies`), handled as the event itself ("changed") or as
  the deferred one ("created"); `Departed`, `BrokenIgnored` and `Broken` for the end;
  `PeersChanged` and `PebbleReady` copy the userlist again. A password is a number,
  the userlist the password in it.
* `LegacyDb`: `JoinedIgnored`, `JoinedWaits`, `JoinedCreates`, `JoinedFails`,
  `JoinedRaises` are the outcomes of relation-joined; a hook of the leader that breaks
  off after it created the user (`JoinedRaises`, a failure) loses its databags, one that
  PostgreSQL refuses (`JoinedFails`, a refusal) is caught and keeps them.
  `BrokenIgnored`, `Broken` and `BrokenLate` are those of relation-broken, the last one
  deferred; as the relation is gone then, nobody can read its databag any more (`Readable`)
  and the event stays "late" for ever. `bag[u]` is the
  databag of the unit, `appbag` that of the application, `dbs` the configuration, `acks`
  the hashes.
* `RollingUpgrade`: `state`, `stack` and `stored` are the databags of the upgrade
  relation, `target`, `partition` and `rev` the StatefulSet. `OnUpgradeChanged` is the
  handler of the library that pops the stack; `PebbleReady` completes a unit and
  lowers the partition.
* `DataExchange`: `asked` is the diff the provider stores, `seen[u]` that of a unit of
  the requirer; `plain` and `secret` are where fields are; `hasSecrets` the sides
  whose Juju has secrets.
* `PeerSecrets`: the databag, the secret with today's label, the one with the label of
  an earlier revision, and the one that only its URI in the databag leads to.
  `SetOrRemove` is `set_secret`, which removes a field that is set to None.
* `DatabaseRoutes`: `Scanned` is `generate_relation_databases`, `Tells` what makes
  peers-changed, `Collected` is `_collect_readonly_dbs`; `ini[u]` is what unit `u` has
  rendered.
* `PostgresUsers`: the hook of the leader statement by statement: user, database,
  connect, privileges, auth function, publication; or orphan check, users, reassign,
  drop owned, drop role. `Crash` ends it anywhere, and it is retried.
* `Certificates`: a certificate is the number of its request. `UnitChanged` is
  relation-changed of the requirer, `SecretExpired` the expiry of its secret,
  `Deferred` a certificate-available that was put off. `Pushes` is
  `push_tls_files_to_workload`, `PushFails` one that breaks off between two of its files
  or before pgbouncer.ini (`AvailableFails` in the event itself, `DeferredFails` in the
  deferred one). `Renders` is what `render_pgb_config` makes of the secrets:
  `ConfigChanged` and `OtherHook` (peers-changed, database-requested and the others) do it
  at any time, also in a container that has restarted and not seen pebble-ready. With an
  invalid configuration (`configOK`) it leaves the file alone, and pebble-ready fails until
  `Reconfigure`.
* `UnitStatus`: `Checked` is `check_pgb_running`, `Updated` is `update_status`.
* `LogProxy`, `Scraping`, `Dashboards`, `Alerts`, `RelationStatuses`: one action for
  each handler of provider and consumer.

Composition. `PortRollout` takes from `ClientRelations` only that clients get
credentials (`Grant`), `DatabaseRoutes` that requests are answered once all units
agree, `ClientRelations` from `BackendLifecycle` only that the backend is ready or
not. `Integrations` puts eleven modules that share no state into one behaviour each:
`part` says which of them runs, the others stay as they were initially, so that the
state space is their sum.

## Runs

Every kind of disturbance is counted, and the counts of a behaviour stay below one of
the `Budgets` of the instance, so that the state space is finite; within them a
disturbance may happen at any moment. With several budgets the instance covers each of
several combinations in one run without their sum. One or two occurrences are enough
for the races listed under the hazards: each consists of one disturbance, or two,
between two steps of the protocol. Deadlock is not checked: with the budgets spent and
all requests answered the charm has nothing to do. Relations of `ClientRelations` are
numbers because Juju lists them in order of their id, and `Last` picks the largest;
units are interchangeable, so the safety runs use symmetry.

| Run | Instance | Properties |
|---|---|---|
| `CR_elections` | 2 units, 2 relations with own databases, one admin, one admin by a late role; 1 election | LiveEntryKept, Provisioned |
| `CR_rollout` | 3 units, 1 relation; a follower leaves, or a container restarts, or a hook fails | GrantedIsRouted, AckedIsRendered |
| `CR_single` | 1 unit, 3 relations on 2 databases, one refused, one an admin of PostgreSQL 14; 2 removals with 1 failed hook or 1 caught error, or 1 of each | GrantedCanLogIn, UserRemoved |
| `CR_scaledown` | 2 units, 1 relation, database created before user; any unit leaves, 1 removal, 1 failed hook | TypeOK, GrantedCanLogIn, BrokenExcused, LiveUserKept |
| `CR_admins` | 2 units, 2 admins; no disturbance, fair | RequestAnswered |
| `CR_repairs` | 2 units, 1 relation; 1 invalid configuration, or 1 restart, or 1 outage with 1 failed hook, fair | RequestAnswered, ContainerStarts |
| `Ports` | 2 units, 2 clients, 2 ports, 3 types; 1 change with a restart, a departure or an unreachable container, or 2 changes with an election, a refusal or a failed hook; fair | NoStaleService, RolledOut, ToldEventually |
| `Upgrade` | 3 units; any 2 kinds of disturbance; fair | PoppedCompleted, OneAtATime, FailureStops, UpgradeEnds |
| `Backend` | 2 units, 2 backends one after the other; any 3 kinds of disturbance, or 2 elections and another one; fair | UserlistMatches, TracesRemoved, SecretKept, AllConfigured |
| `Legacy` | 2 units, 2 clients that may overlap; pairs of disturbances, or 2 failed hooks and a refusal; fair | PublishedIsRouted, PasswordWorks, LiveUserKept, LegacyServed, LegacyRemoved |
| `Integrations` | the eleven parts, with the bounds in `MCIntegrations`; fair | TypeOK and those of the parts, below |
| `V_leave` | 2 units, 2 relations; the leader leaves | GrantedIsRouted, violated |

The properties of the client relation: `GrantedIsRouted` (credentials imply a route in
every running pgbouncer), `AckedIsRendered` (an acknowledged configuration is the
rendered one), `Provisioned` (the specification `Provisioning`, with `phase` computed
from `client` and the leader's databag, `running` from `members` and `ready`, `routes`
from `ini` and `users` from `pg`: every step requests, ends, announces, renders,
creates or drops a user, stops a unit, or changes nothing there), `GrantedCanLogIn` (user, database and auth function of a client exist,
or the request that reinstalls the function is queued, or its second attempt was refused), `LiveEntryKept` (the entry of
a living relation never leaves the configuration), `UserRemoved` (a removed relation
whose hooks have all run has no user), `LiveUserKept` (only a removed relation loses
its user), `BrokenExcused` (the inductive invariant behind it, see Proofs),
`RequestAnswered` (a request of a relation that stays ends in credentials or in
a blocked unit), `ContainerStarts` (a container is configured, the first time and after a
restart); both unless a unit is `HeldUp` for ever: peers-changed, pending or deferred, fails
every attempt of pebble-ready.

Ports: `NoStaleService` (once `current_port` is today's port, so is the service's),
`RolledOut` (service, record and the leader's process agree in the end),
`ToldEventually` (what clients were told last is what `get_hosts_ports` says, and the
service can be reached there, unless it was never given the port of today: then clients
are told a port that nothing serves). Upgrade:
`OneAtATime` is the specification `UpgradeOrder` with `working`, `finished` and
`healthy` computed from states, revisions and checks: every step of the rollout begins
one unit, finishes one, gives up or changes nothing there. `PoppedCompleted` relates
the stack to what the units have done, `FailureStops` says that no other pod gets the
revision while a unit is failed, unless the rollout was given up before, `UpgradeEnds` that an undisturbed upgrade ends.
Backend: `UserlistMatches` (the secret has the password of the auth user, or an event
that will set it is queued, if the leader stays or no auth function fails and no backend
is removed), `TracesRemoved`, `SecretKept` (scale-down does not remove
the secret), `AllConfigured` (all units end up with the userlist). Legacy:
`PublishedIsRouted`, `PasswordWorks` (the published password is the one in PostgreSQL,
unless PostgreSQL refused a user or a failure meets an election), `LiveUserKept`,
`LegacyServed` (through failures, unless refused), `LegacyRemoved` (user and routes of a
removed relation go, unless its relation-broken is late).

`Integrations` checks for each part what its module states: `AskedOnce` and
`CredentialsReadable` (DataExchange), `ReadsBack` and `OnePlace` (PeerSecrets),
`KeyMatches` and `TlsFollows` (Certificates: a pair of key and certificate that do not
match, or TLS without its files or its relation, lasts only until the event that was put
off, the next certificate, a valid configuration or pebble-ready), `ConfigurationsHold` (LogProxy,
Scraping), `AccessKept` (PostgresUsers: tables, privileges, logins; DatabaseRoutes:
the wildcard), `NoTableLost` (PostgresUsers) and `Served`: every part comes to rest
with both sides in agreement.

The properties name, as a condition on `spent` or on `led`, the disturbances under
which the code does not keep them; each of these conditions is one of the divergences
below, and without it TLC finds a counterexample.

The two fair runs of `ClientRelations` with two units, `CR_admins` and `CR_repairs`,
fix the first leader (`FixedLeaderSpec`) instead of using symmetry, which TLC cannot
combine with liveness. They have no elections, so the choice of the leader makes no
difference. `Integrations` fixes the first leader of most parts, where it makes no
difference either.

### Fairness

Every fairness condition is of the kind "Juju goes on delivering the hooks it has for
a unit, update-status recurs, and whoever broke something repairs it". Nothing obliges
a client to add or remove a relation, a disturbance to happen, or a hook to succeed
where it may fail.

* `ClientRelations`: weak fairness of everything a unit does by itself, strong
  fairness of starting a hook for what is pending, as update-status hooks recur for
  ever but do not starve the others; repairs; a lease nobody holds is taken. The
  recurring update-status, which re-emits deferred events, is what the code itself
  counts on.
* `PortRollout`, `BackendLifecycle`, `RollingUpgrade`: weak fairness of each kind of
  hook of each unit; Kubernetes gives a load balancer its address and replaces pods;
  the operator trusts the application, PostgreSQL comes back, the operator resumes
  once.
* `LegacyDb`: likewise, and strong fairness of `JoinedCreates`: every hook of the
  leader re-emits all its deferred events, so the one the peers agree with has its
  turn.
* The parts of `Integrations`: weak fairness of the hooks as a whole, since each hook
  is taken off when it has run (in `Certificates` with the operator, who answers requests
  and repairs the configuration); in `UnitStatus` of the relation-broken of each
  relation, and in `DatabaseRoutes` of each kind of hook, because update-status recurs
  there.

## Where the code does not do what its documentation says

`V_leave` is a run of its own: a leader on its way out re-emits a deferred request,
regenerates the configuration from the relations it still has and publishes it, so
that a client with credentials loses its route, although "This unit is being removed,
so don't update the relation." The other divergences met while modelling are exempted
by a condition of a property (or by the instance, for the client relations):

* *Client relations*. A deferred request dies with the leadership of its unit
  (pgbouncer_provider.py:116). If a unit handles relation-broken before it is elected
  and the other one after, both act as followers and the user stays (226); it stays
  too if the backend is unreachable at relation-broken, as nothing is deferred, and a
  request deferred beyond the removal creates it again. relation-broken of a refused
  request fails for ever, because remove_auth_function connects to a database that
  does not exist (240). `container_initialised` outlives the container: a deferred
  peers-changed can fail pebble-ready on every retry (charm.py:715-718, `HeldUp`). With an invalid
  configuration and an unreachable backend `render_pgb_config` returns silently and
  the hash is published all the same. A second attempt that PostgreSQL refuses, or one
  whose error is caught, blocks the unit and drops the request: if the first one broke off
  after it had removed the auth function, a database that others use stays without it
  (pgbouncer_provider.py:180-196, `GivenUp`).
* *Wildcard and read-only databases*. relation-broken leaves the wildcard: its
  `auth_dbname` stays a database whose auth function went with its last relation, or
  is moved to one that does not exist yet or never will
  (pgbouncer_provider.py:139-144, 232-240). The leader's own file stays stale after it
  wrote `readonly_dbs` or removed a relation, until its next render
  (charm.py:490-507).
* *PostgreSQL*. A hook that breaks off between remove_auth_function and
  initialise_auth_function, and whose retry is refused, leaves a shared database
  without the function; the retry of an admin's request is always refused, as `ALTER
  ROLE ... IN ROLE` is no statement although the comment says "Create or update the
  user.". A table created between REASSIGN OWNED and DROP OWNED by the removed client
  is dropped. The removal of a refused request whose database was never created blocks
  everything after it.
* *Ports*. A follower whose config-changed comes after the leader recorded the port
  only reloads and does not listen on the new one (charm.py:388-401, against
  config.yaml:8). A change that is taken back while the hook that applied it fails
  leaves the service on the other port (387-401). A config-changed that the Kubernetes API
  refuses is not tried again (265-268, 390-391), and one that a unit handled before it was
  elected neither; clients are told the configured port all the same (564-583), which the
  service does not have. If the container cannot be reached the event is deferred, but
  current_port is recorded, so that the retry finds no change and only reloads: pgbouncer
  stays on the old port, although "Only update the config once the services have been
  restarted" (394-401).
* *Pools*. Each process of a unit gets the whole of `max_db_connections` as its limit
  (charm.py:1041-1062), against "Do not allow more than this many server connections
  per database" (config.yaml:32); a calculation, not modelled.
* *Upgrade*. A second resume-upgrade before the leader pops raises the partition
  again, and the upgrade stalls (library 842-847). pre-upgrade-check is accepted in
  the middle of an upgrade. The leader pops itself before it is refused the partition.
  A hook that fails after the partition was patched lets two units upgrade at once. An
  incompatible revision can spread if the highest unit leads and pre-upgrade-check
  comes before its pebble-ready. A leader in recovery whose container restarts
  completes and lowers the partition (upgrade.py:146 against the comment at 949 of the
  library); one that is not restarted stays there. An election can lose the pop.
* *Backend*. A unit whose auth function failed takes the deferred event with it when
  it leaves; a leader that leaves while the backend is removed leaves the secret, and
  followers copy a stale userlist. database-created deferred across a removal is
  handled for the next backend, whose own hook then sets another password. A leader
  replaced between its failed attempt and the retry retries as a follower, which copies
  the old secret and forgets; a follower that copied a stale secret may lead next, with
  the password it has not set.
  peers-changed during an outage switches the exporter off until the next one. A
  follower that is not ready drops database-created, and "Pebble ready will set the
  config" (backend_database.py:304) is not enough if the leader is not done. The
  removal of the auth user (431-455) is out of reach.
* *Legacy*. The databag of a new leader is empty: relation-broken is deferred for
  ever, connection information is not updated, and the regenerated configuration drops
  the relation. So it is when the backend is out of reach at relation-broken: "wait for it
  to be initialised before removing everything", but the event is tried again when the
  relation and its databag are gone, so that user and route stay (db.py:459-474). A joined that followers dropped is lost with an election. An earlier
  leader that leads again publishes its old password. A create that fails leaves
  published credentials without a user, or with the user of an earlier attempt and its
  password. relation-broken on a follower with a filled
  databag writes the databag of the application and fails (db.py:476).
* *Unit status*. If the extension is enabled before the blocked relation is removed,
  as the message advises, relation-broken is put off for ever and the block stays
  (db.py:462-475). "invalid role(s)" is never cleared (charm.py:635-640); other
  handlers overwrite the block, after which update-status shows active. The status of
  a refused request goes with the next update-status.
* *Secrets*. remove_secret leaves a renamed key that an earlier revision stored in the
  databag (charm.py:797-804).
* *TLS*. A certificate revoked before the unit took it is unknown and never renewed
  (postgresql_tls.py:167-169). A new key with a revocation or an expiry can renew for
  ever, because the request that is withdrawn is not the one of the certificate in use
  (171-182). A container that restarts between a new key and its certificate gets a
  pair that does not match, and so does one to which the connection breaks after the first
  of three files (charm.py:806-826), until the event that is put off then is handled. As
  any hook enables TLS by the secrets (1050), TLS may be on without its files until
  then. A deferred certificate-available restores the certificate of a relation that is
  gone. relation-broken is to wait if the configuration cannot be updated
  (postgresql_tls.py:130-132), but `update_config` always returns True (charm.py:831-835):
  with an invalid configuration TLS stays on until the configuration is valid again.
* *Exchange*. An election between the hooks of two units loses a request
  (data_interfaces.py:3556-3558, 3829-3832). A password changed in a secret emits no
  event.
* *Statuses of resources*. Of a subordinate that was not ready a status is raised
  again and again, or stays for ever; so does one resolved before a failed hook is
  retried (data_interfaces.py:3883-3900).
* *Logs*. relation-departed stops a service that is not in the plan if promtail was
  never set up, and fails on every retry (loki_push_api.py:1881-1901). A failed
  download is not tried again until the next event.
* *Metrics*. Scrape jobs are not set on leader-elected: an election between
  relation-joined hooks leaves them unset or stale (prometheus_scrape.py:1491-1522).
* *Dashboards*. An election of Grafana loses changes and removals that followers
  ignored; an "event" with errors is never cleared.
* *Alerts*. One relation's invalid rules keep Loki's followers from applying any, and
  rules without labels stay (loki_push_api.py:1334-1359); two relations of one
  application share an identifier; a group of directory `a`, file `b` has the name of
  that of file `a_b`; errors once told are never cleared.

## Proofs

Eight modules hold theorems. Each is proved for every value of the constants (units,
relations, databases, budgets). What is assumed of these is in named ASSUMEs, which
TLC evaluates on the runs: `ConstantsAssumption` and the like say that sets are finite
where they are counted and that numbers are numbers; `AbsentAssumption` and `Distinct`
(`SecretsAssumption`) that the mark of what is not there is no value;
`CsrLimitAssumption` and the `Parameters` of three modules (`UsersAssumption`,
`ScrapingAssumption`, `RoutesAssumption`) are about the types of what they name, and say
that there is a first revision of the charm and a highest relation in any set of those.
The theorems of `Routing_proofs` and `Logins_proofs` have hypotheses of
their own, below. Each proof follows the same pattern: an inductive invariant, which
TLC checked on the runs' instances and beyond them before it was proved, a lemma that
the properties follow from it, one lemma for each kind of step, and the theorem.

`ClientRelations_proofs`

* `TypeCorrect`: `Spec => []TypeOK`.
* `BrokenIsExcused`: `Spec => []BrokenExcused`, where `BrokenExcused` is the inductive
  invariant behind the departing flag. `LiveUserKept` alone is not inductive: whether
  `Revoke` drops the user of a living relation depends on a flag that was buffered in
  the hook of relation-departed, committed or discarded, read again by the hook of
  relation-broken, popped there, and restored if that hook fails. The invariant
  follows the flag: relation-broken and relation-departed are only ever handled as the
  event of the hook itself, never as a deferred notice (`LeavesLast`); a hook loses at
  most the flag of its own relation-broken (`FlagKept`); a relation-departed hook that
  has handled its event has the flag (`FlagSet`); the hook of relation-broken of a
  living relation started with the flag committed (`BrokenFlagged`); and a pending
  relation-broken of a living relation is behind relation-departed or has the flag
  committed (`BrokenExpected`). One lemma per kind of step: undisturbed units, failed
  hooks, ordinary handlers, start, commit, the two handlers that change the flag.
* `LiveUserIsKept`: `Spec => LiveUserKept`, from the above: only `Revoke` removes a
  user, and it runs without the flag only for a relation that is being removed.

`Routing_proofs`

* `CredentialsAreRouted`: `Spec => []GrantedIsRouted`, and `AcksAreRendered`:
  `Spec => []AckedIsRendered`, under two hypotheses, both of them divergences above: the
  leader is not scaled down (`~LeaderMayLeave`, else `V_leave`), and no behaviour has
  both an outage of the backend and an invalid configuration (`ApartBudgets`), since a
  unit then acknowledges without having rendered. A route is in six places: in the
  leader's hook, in the databag, in what another unit's hook reads, in the hash that it
  writes and publishes, and in its file. `Routing` orders them: what is committed is
  still in the hook of whoever leads (`EntriesKept`), what a unit acknowledges it reads
  and runs with (`EntriesKept`, `AcksRendered`), who has or gets credentials is in all
  that a unit may still render and in what it has rendered (`CredsRouted`). A relation
  that has not begun is in none of them (`Unforeseen`, since an acknowledgment is never
  withdrawn), and a living one is bound on all units that stay, so that a regenerated
  configuration has it (`Bound`).
* `EntriesOfTheLivingStay`: `Spec => LiveEntryKept`, from the first hypothesis alone.

`Logins_proofs`

* `CredentialsLogIn`: `Spec => []GrantedCanLogIn`, if the leader is neither scaled down
  nor deposed (`~LeaderMayLeave`, `NoElections`): the auth function of a shared database
  is removed by a request that may then fail, and a deferred request, which would
  install it again, dies with the leadership of its unit. Failed hooks, outages, invalid
  configurations, caught errors, restarts, removals and scale-down of the others are in,
  and so is the second attempt that PostgreSQL refuses, which the property excuses: what
  is left of it then is a blocked unit after a failed hook (`Tried`). The property
  says that a request is outstanding on some unit; the invariant says where in the
  leader it is: `OnItsWay`, as relation-changed that is pending or handled and not in
  the diff yet, as the event it becomes, deferred, or kept by the hook that runs. That
  it cannot get lost takes `Requests` (a request in a hook is also deferred from an
  earlier one, or comes with relation-changed, so that a failure leaves it behind) and
  `SeenOnce` (relation-changed that is retried is not in the diff, since the diff is
  discarded with the hook). `Login` is `GrantedCanLogIn` of what the leader's hook would
  commit, and `Credited` that those with credentials have their entry there, without
  which `Revoke` would take the function of a database in use. Every step is one of
  five kinds (`LeaderSteps`): elsewhere, the start of a hook of the leader, its commit,
  a handler that fails and one that does not.
* `RequestsAreProvisioned`: `Spec => Provisioned`, the refinement of `Provisioning`,
  under the hypotheses of `CredentialsAreRouted`: with elections, failed hooks,
  restarts and outages in any number. `AddRelation` maps to `Request`,
  `RemoveRelation` to `End`, the leader's `Commit` to `Announce`, whatever renders to
  `Route`, the outcomes of `_on_database_requested` that reach PostgreSQL to
  `CreateUser`, `Revoke` to `DropUser`, a restart or a departure to `Stop`, the rest to
  a stutter. Beyond `Routing` it takes that a hook handles only what it was started
  for or deferred, and of relations that have begun (`Heard`), and that credentials,
  buffered or committed, are given only to those that have a user in PostgreSQL
  (`CredsHaveUsers`).
* `ProvisionedIsServed`: `Provisioned => []Provision!ServedWork`: what follows from the
  abstract specification alone, that who is served has a user and is routed by all
  units that run.
* `RemovedUsersGo`: `Spec => []UserRemoved`, if in addition PostgreSQL is always
  reachable (`NoOutages`), and no request outlives its relation on a backend that
  creates the user first (`NoLateUsers`: it creates the database first, or there is one
  unit). `Users`: a relation has a user only between its beginning and the end of the
  leader's relation-broken, and the last notice of that hook drops it; `Stays`: no
  departing flag of the leader keeps it from that; `Alone`: without peers a request is
  never put off.

`RollingUpgrade_proofs`

* `StackHoldsTheRest`: `Spec => []PoppedCompleted`, and `FailedUnitStops`:
  `Spec => FailureStops`, from `IInv`: until the operator gives up, what a unit reports
  is about the revision it was asked to run (`Reported`), all units above one that has
  begun and all above the partition are done (`InOrder`), and those that have left the
  stack are done, or were refused the partition after they were (`Stacked`). After the
  rollout was given up nothing orders it, hence `~givenUp` in the properties too.
* `UpgradesInOrder`: `Spec => OneAtATime`, the refinement of `UpgradeOrder`: the initial
  states map to initial states, and each step to `Begin`, `Finish`, `GiveUp` or a
  stutter.

`BackendLifecycle_proofs`, `LegacyDb_proofs`

* `ScaleDownKeepsSecret` and `ScaleDownKeepsUsers` prove the same of the flags of the
  other two relations. `SecretKept` and `LiveUserKept` need to know why
  relation-broken is pending: because the relation is gone, or the unit is leaving and
  has relation-departed before it or the flag set (`BrokenLeaves`), and that units
  that are gone have no hooks (`GoneAreSilent`). For the legacy relations a user
  exists only with its credentials published (`BrokenPublished`), or a retried joined
  could undo what it did.
* `UserlistIsCurrent`: `Spec => []UserlistMatches`. Where the leader stays, one whose
  secret differs tries again (`LeaderRetries`); where leaders change but nothing fails,
  secret and password are set together and the secret is that of the backend there is
  (`SecretOfBackend`), or it was removed with its relation (`SecretRemoved`).
* `NoTraceIsLeft`: `Spec => []TracesRemoved`. A unit that has handled the end has no
  trace, and a database-created that is still deferred will find no secret (`Cleaned`).
* `PublishedRoutesStay`: `Spec => []PublishedIsRouted`: the leader generates its
  databases with all that is published, and the others have acknowledged them and
  rendered what they acknowledged (`PublishedAreSet`, `PublishedAreAcked`). That needs
  the databag of the leader to be what is published (`OneLeader`).
* `PublishedPasswordWorks`: `Spec => []PasswordWorks`, by `PublishedWork`: a retry finds
  the password in the databag or, if the failed hook lost it, no published one. A unit
  that leads after one that has left has no credentials of its own (`OwnBag`).

`PortRollout_proofs`

* `RecordedPortIsServed`: `Spec => []NoStaleService`. The record alone says nothing of
  the service when the configuration changes again, so the invariant says which port
  the service had when it was recorded: the recorded one unless a hook failed in
  between (`RecordedIsServed`), today's if today's is recorded and the change was not
  taken back (`RecordedTodayIsServed`), and before any change there is one port
  (`OnePortAtFirst`).

`Integrations_proofs`: the parts of `Integrations`, each with an invariant of its own,
which is one of the whole because only the part that was chosen takes steps (`OnePart`).

* `CredentialsCanBeRead` and `AskedAndToldOnce` (DataExchange): that the requirer can
  read what was given depends on when each side got secrets, so the invariant follows
  that order (`OneWay`: what is in a secret was asked for in one; `CredentialsFirst`: no
  URIs without credentials), and `Counted` counts events against what the diffs have
  stored and the hooks that failed.
* `SecretsReadBack` and `InOnePlace` (PeerSecrets): `ReadsBack` is inductive only
  together with `OnePlace`, since a field that is both in the databag and in a secret
  would read differently after the databag is cleaned; and `OnePlace` only with the
  types, which say which secret is found first.
* `WildcardIsChecked` (DatabaseRoutes; half of `AccessKept`): by `ClientsServed`, a
  granted client's database has the auth function and its relation an entry, so that
  nobody else's removal takes the function away.
* `KeyIsOfCertificate` and `TlsFollowsItsFiles` (Certificates): the last request was
  made with the key there is, and no certificate is for a request to come (`KeysKept`), so
  that whoever pushes all files for the last request pushes a matching pair. What a push that
  breaks off or a restart leaves is a pair that does not match only while the certificate
  stored is not the one for the last request, or while that one is deferred (`FilesMatch`).
  `TlsHasFiles` is not inductive, as any hook enables TLS by what is stored: the invariant
  says of a stored certificate, enabled or not, that its files are there or its event is
  put off (`FilesThere`). Events are put off only by failures, containers come back only
  after restarts, and requests do not outlive the relation (`TracesLeft`).
* `ConfigurationsHoldAlways` (LogProxy, Scraping): promtail runs only as a
  service of the plan, for units of Loki that have published an endpoint
  (`RunsAsService`), and with what is in its file; scrape jobs with one name are told
  apart (`DedupedOnce`).
* `TablesAreKept` and `AccessIsKept` (PostgresUsers): an invariant about every point at
  which a hook can break off. The statements left to a hook fit what it has done
  (`HooksFit`); what a client uses is in its own database and has an owner (`Tables`);
  what the removed client owned when DROP OWNED comes was created after REASSIGN OWNED
  (`Reassigned`); privileges (`Access`) are there for whoever was granted access and
  before the hook grants it, and so is the auth function (`Logins`), except while
  another request of the database removes and creates it again.

* `PartsAreTyped`: `Spec => []TypeOK`, from one theorem for each part, or from the part's
  invariant above. Most are inductive alone, and say more than types where the code
  relies on it: a failing hook of the logs is for a unit of Loki that leaves
  (`LogsTyped`), Grafana keeps only dashboards that can be decoded (`BoardsTyped`), a
  monitor has files only with a group of rules (`RulesTyped`), auth functions are only
  in databases that there are (`RoutesAreTyped`). That of PostgreSQL is not inductive:
  it says that no privilege, table or function is of a user that was dropped, and needs
  `RolesInv` (`UsersTyped`). A user has something only in the database it requested,
  which exists (`Places`), because a request creates the user, then the database, then
  grants (`Created`); so the list of databases that delete_user reads is enough, however
  late it is used, and when DROP ROLE is reached the user has nothing (`Cleaned`).

Model-checked only: all liveness properties, which are out of the prover's reach.

## Not modelled

* The calculation of pool sizes and parameters of pgbouncer.ini, `pgb.py`,
  `constants.py`, log rotation, the SQL scripts and the pebble layers: functions and
  texts without state.
* The handlers of data_interfaces.py for other products, the upgrade of machine
  charms, the aggregators of dashboards and metrics and the log forwarder: the charm
  does not instantiate them.
* `endpoints-changed` of the backend, versions and TLS flags in client databags,
  hostnames in the peer databag: they render, or are read by nobody in the charm.
* Tracing and the wording of logs and statuses.
* An upgrade hook that fails after it patched the partition, two relations that tell
  Prometheus jobs of the same name, a file that `push_file` leaves out without a word because
  the connection breaks between two of its checks, a caught error of PostgreSQL for a
  relation that is gone already.
* Races between two units' writes to Kubernetes, since only the leader writes there.
