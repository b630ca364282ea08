--------------------------- MODULE ClientRelations ---------------------------
(***************************************************************************)
(* The `database` client relation of the pgbouncer-k8s charm: how a        *)
(* request of a client application is granted, routed by every unit and    *)
(* revoked.  PgBouncerProvider (relations/pgbouncer_provider.py), Peers    *)
(* (relations/peers.py), the database bookkeeping of charm.py, and the     *)
(* part of data_interfaces.py that turns relation-changed into             *)
(* database-requested.                                                     *)
(*                                                                         *)
(* A unit runs one hook at a time.  A hook re-emits every deferred event,  *)
(* oldest first, and then its own; each handler is one action.  What a     *)
(* hook writes to a databag is buffered (buf, hook[u].bag) and becomes     *)
(* visible when the hook commits; a hook that fails discards it and is     *)
(* retried, but what it did to PostgreSQL and to the unit's files stays.   *)
(*                                                                         *)
(* Simplifications:                                                        *)
(*  - leadership moves between hooks: the old and the new leader are idle; *)
(*  - a hash of pgb_dbs_config stands for its content (no collisions);     *)
(*  - an error of PostgreSQL that is caught meets a living relation;      *)
(*  - the backend relation exists and keeps its data: PostgreSQL may be    *)
(*    unreachable, the K8s service may be missing;                         *)
(*  - all units exist from the start; a unit may be removed;               *)
(*  - a client writes its database name as it joins;                       *)
(*  - equal deferred notices are kept once (their handlers are idempotent);*)
(*  - the peers are told of a new configuration or a new acknowledgement,  *)
(*    not of the flags in the unit databag, which change nothing for them. *)
(***************************************************************************)
EXTENDS Naturals, Sequences

CONSTANTS
  Units,            \* units of the pgbouncer application
  Relations,        \* ids of the client relations
  Databases,        \* database names
  DbOf,             \* DbOf[r]: the database that r requests
  AdminRelations,   \* relations whose roles add "*" in both places that compute it
  GroupAdmins,      \* those of them with the role admin itself, which create_user adds
  LateAdmins,       \* relations whose roles only _on_database_requested knows
  Rejected,         \* requests that PostgreSQL refuses (invalid roles)
  Last,             \* Last[S]: the relation of S that Juju lists last
  UserBeforeDb,     \* PostgreSQL 14 backend: create_user precedes create_database
  LeaderMayLeave,   \* may scale-down hit the leader (or a unit about to lead)?
  Budgets,          \* the disturbances together stay within one of these budgets
  Absent,           \* no such key
  Null,             \* the JSON null that stands for the name of a dead relation
  NoRel, NoUnit

Disturbances ==
  {"elections", "leaves", "crashes", "errors", "outages", "misconfigs", "restarts", "removals"}

ASSUME ConstantsAssumption ==
  /\ DbOf \in [Relations -> Databases]
  /\ AdminRelations \subseteq Relations /\ LateAdmins \subseteq Relations
  /\ GroupAdmins \subseteq AdminRelations
  /\ Rejected \subseteq Relations
  /\ \A S \in (SUBSET Relations) \ {{}} : Last[S] \in S
  /\ UserBeforeDb \in BOOLEAN /\ LeaderMayLeave \in BOOLEAN
  /\ Budgets \subseteq [Disturbances -> Nat]
  /\ Absent \notin Databases /\ Null \notin Databases /\ Absent # Null
  /\ NoRel \notin Relations /\ NoUnit \notin Units

VARIABLES
  leader,    \* the unit that holds Juju's leadership lease
  members,   \* units in the peer relation
  leaving,   \* members that scale-down is removing
  client,    \* client[r]: "none", "alive" or "dying"
  bound,     \* bound[u]: relations that exist for u (relation-broken not finished)
  backend,   \* "down": check_backend fails; "no_endpoints": there is no K8s service
  configOK,  \* the juju configuration passes validation
  app,       \* committed application databags, written by the leader
  buf,       \* what the leader's hook sees of them: app plus its own writes
  bag,       \* bag[u]: committed unit databag of the peer relation
  hook,      \* hook[u]: the hook that u is running
  pending,   \* pending[u]: events Juju has still to deliver to u
  deferred,  \* deferred[u]: notices kept for u's next hook
  ready,     \* ready[u]: pgbouncer is configured and running in the container
  ini,       \* ini[u]: databases of the pgbouncer.ini on u, Absent without one
  pg,        \* PostgreSQL: relation users, databases, databases with auth function
  refused,   \* requests that ended in a BlockedStatus
  spent      \* disturbances so far

juju == <<leader, members, leaving, client, bound>>
env == <<backend, configOK, spent>>
vars == <<leader, members, leaving, client, bound, backend, configOK, app, buf, bag,
          hook, pending, deferred, ready, ini, pg, refused, spent>>

----------------------------------------------------------------------------
(* Data *)

UnitKinds == {"idle", "update_status", "pebble_ready", "config_changed", "peers_changed"}
RelationKinds ==
  {"relation_changed", "database_requested", "relation_departed", "relation_broken"}

\* An event, or the notice of a deferred one.
Event == [kind : UnitKinds, rel : {NoRel}] \union [kind : RelationKinds, rel : Relations]
Ev(kind, r) == [kind |-> kind, rel |-> r]
Idle == Ev("idle", NoRel)

\* pgb_dbs_config: the name under each relation id, and auth_dbname under "*".
Config == [dbs : [Relations -> Databases \union {Absent, Null}], wild : Databases \union {Absent}]
ASSUME AbsentAssumption == Absent \notin Config
NoDatabases == [dbs |-> [r \in Relations |-> Absent], wild |-> Absent]

\* seen: relations whose request is recorded in the "data" diff of the databag;
\* cred: relations whose databag holds a username and a password.
AppData == [cfg : Config, seen : SUBSET Relations, cred : SUBSET Relations]
\* ack: the configuration whose hash the unit published; init: container_initialised.
UnitData == [ack : Config \union {Absent}, departing : SUBSET Relations, init : BOOLEAN]
Hook == [ev : Event, todo : Seq(Event), kept : Seq(Event), bag : UnitData]

TypeOK ==
  /\ leader \in Units \union {NoUnit}
  /\ members \subseteq Units
  /\ leaving \subseteq members
  /\ client \in [Relations -> {"none", "alive", "dying"}]
  /\ bound \in [Units -> SUBSET Relations]
  /\ backend \in {"ready", "no_endpoints", "down"}
  /\ configOK \in BOOLEAN
  /\ app \in AppData
  /\ buf \in AppData
  /\ bag \in [Units -> UnitData]
  /\ hook \in [Units -> Hook]
  /\ pending \in [Units -> SUBSET Event]
  /\ deferred \in [Units -> Seq(Event)]
  /\ ready \in [Units -> BOOLEAN]
  /\ ini \in [Units -> Config \union {Absent}]
  /\ pg \in [users : SUBSET Relations, dbs : SUBSET Databases, auth : SUBSET Databases]
  /\ refused \subseteq Relations
  /\ spent \in [Disturbances -> Nat]

Init ==
  /\ leader \in Units
  /\ members = Units
  /\ leaving = {}
  /\ client = [r \in Relations |-> "none"]
  /\ bound = [u \in Units |-> {}]
  /\ backend = "ready"
  /\ configOK = TRUE
  /\ app = [cfg |-> NoDatabases, seen |-> {}, cred |-> {}]
  /\ buf = app
  /\ bag = [u \in Units |-> [ack |-> Absent, departing |-> {}, init |-> FALSE]]
  /\ hook = [u \in Units |-> [ev |-> Idle, todo |-> <<>>, kept |-> <<>>, bag |-> bag[u]]]
  /\ pending = [u \in Units |-> {Ev("pebble_ready", NoRel)}]
  /\ deferred = [u \in Units |-> <<>>]
  /\ ready = [u \in Units |-> FALSE]
  /\ ini = [u \in Units |-> Absent]
  /\ pg = [users |-> {}, dbs |-> {}, auth |-> {}]
  /\ refused = {}
  /\ spent = [d \in Disturbances |-> 0]

----------------------------------------------------------------------------
(* Hooks *)

Spend(d) ==
  /\ spent' = [spent EXCEPT ![d] = @ + 1]
  /\ \E budget \in Budgets : \A x \in Disturbances : spent'[x] <= budget[x]

InHook(u) == hook[u].ev # Idle
NoHook(unitData) == [ev |-> Idle, todo |-> <<>>, kept |-> <<>>, bag |-> unitData]

\* relation-broken follows relation-changed, and relation-departed on a unit that leaves.
Deliverable(u, e) ==
  e.kind = "relation_broken" =>
    /\ Ev("relation_changed", e.rel) \notin pending[u]
    /\ Ev("relation_departed", e.rel) \notin pending[u]

\* ops re-emits the deferred notices before the event of the hook.
RunHook(u, e) ==
  /\ u \in members /\ ~InHook(u)
  /\ hook' = [hook EXCEPT ![u] = [ev |-> e, todo |-> Append(deferred[u], e),
                                  kept |-> <<>>, bag |-> bag[u]]]
  /\ UNCHANGED <<juju, env, app, buf, bag, deferred, ready, ini, pg, refused>>

Start(u, e) ==
  /\ e \in pending[u] /\ Deliverable(u, e)
  /\ RunHook(u, e)
  /\ pending' = [pending EXCEPT ![u] = @ \ {e}]
StartHook(u) == \E e \in pending[u] : Start(u, e)

\* update-status; only worth a step when it re-emits something.
StartUpdateStatus(u) ==
  /\ deferred[u] # <<>>
  /\ RunHook(u, Ev("update_status", NoRel))
  /\ UNCHANGED pending

\* The hook succeeded: its databag writes are flushed and the other units hear of them.
Commit(u) ==
  /\ InHook(u) /\ hook[u].todo = <<>>
  /\ app' = IF u = leader THEN buf ELSE app
  /\ bag' = [bag EXCEPT ![u] = hook[u].bag]
  /\ deferred' = [deferred EXCEPT ![u] = hook[u].kept]
  /\ hook' = [hook EXCEPT ![u] = NoHook(hook[u].bag)]
  /\ bound' = [bound EXCEPT ![u] =
       IF hook[u].ev.kind = "relation_broken" THEN @ \ {hook[u].ev.rel} ELSE @]
  /\ pending' = IF app'.cfg = app.cfg /\ bag'[u].ack = bag[u].ack THEN pending
                ELSE [v \in Units |-> IF v \in members \ {u}
                                      THEN pending[v] \union {Ev("peers_changed", NoRel)}
                                      ELSE pending[v]]
  /\ UNCHANGED <<leader, members, leaving, client, env, buf, ready, ini, pg, refused>>

\* The hook failed: its databag writes are lost and Juju will run it again.
Discard(u) ==
  /\ hook' = [hook EXCEPT ![u] = NoHook(bag[u])]
  /\ buf' = IF u = leader THEN app ELSE buf
  /\ pending' = IF hook[u].ev.kind = "update_status" THEN pending
                ELSE [pending EXCEPT ![u] = @ \union {hook[u].ev}]
  /\ UNCHANGED <<juju, app, bag, deferred, ready, ini>>

Crash(u) ==
  /\ InHook(u)
  /\ Spend("crashes")
  /\ Discard(u)
  /\ UNCHANGED <<backend, configOK, pg, refused>>

----------------------------------------------------------------------------
(* Handlers: the first notice of hook[u].todo is handled, or kept for later. *)

Handling(u, kind) == InHook(u) /\ hook[u].todo # <<>> /\ Head(hook[u].todo).kind = kind
Rel(u) == Head(hook[u].todo).rel

Queued(queue, e) == \E i \in DOMAIN queue : queue[i] = e
Handled(h) == [h EXCEPT !.todo = Tail(@)]
Kept(h) ==
  [h EXCEPT !.todo = Tail(@),
            !.kept = IF Queued(@, Head(h.todo)) THEN @ ELSE Append(@, Head(h.todo))]

Finish(u) == hook' = [hook EXCEPT ![u] = Handled(@)]
Defer(u) == hook' = [hook EXCEPT ![u] = Kept(@)]

\* The peer application databag as a handler of u reads it.
ViewCfg(u) == IF u = leader THEN buf.cfg ELSE app.cfg

\* render_pgb_config does nothing with an invalid configuration or without a container.
Rendered(u, cfg) == IF configOK /\ ready[u] THEN [ini EXCEPT ![u] = cfg] ELSE ini

\* is_container_ready, when pgbouncer runs; a restarted container that is up but
\* not configured yet passes for ready too, since its flag is still in the databag.
ContainerReady(u) == ready[u] /\ hook[u].bag.init
PassesForReady(u) == ~ready[u] /\ hook[u].bag.init

\* A handler may find the container unavailable, but not in the pebble-ready hook.
SeenUnready(u) ==
  ~ContainerReady(u) /\ ~(PassesForReady(u) /\ hook[u].ev.kind = "pebble_ready")

\* The handler reads the invalid configuration and raises: the hook fails.
Misread(u) == ~configOK /\ Discard(u) /\ UNCHANGED <<env, pg, refused>>

UpdateStatus(u) ==
  /\ Handling(u, "update_status") /\ (configOK \/ u # leader)
  /\ Finish(u)
  /\ UNCHANGED <<juju, env, app, buf, bag, pending, deferred, ready, ini, pg, refused>>

\* update_client_connection_info of the leader needs the port.
UpdateStatusMisconfigured(u) == Handling(u, "update_status") /\ u = leader /\ Misread(u)

\* Mutant: a unit that has been initialised is left as it is.
PebbleReadyOnce(u) ==
  /\ Handling(u, "pebble_ready") /\ configOK
  /\ ready' = [ready EXCEPT ![u] = @ \/ ~hook[u].bag.init]
  /\ ini' = [ini EXCEPT ![u] = IF hook[u].bag.init THEN @ ELSE ViewCfg(u)]
  /\ hook' = [hook EXCEPT ![u] = [Handled(@) EXCEPT !.bag.init = TRUE]]
  /\ UNCHANGED <<juju, env, app, buf, bag, pending, deferred, pg, refused>>

PebbleReady(u) ==
  /\ Handling(u, "pebble_ready") /\ configOK
  /\ ready' = [ready EXCEPT ![u] = TRUE]
  /\ ini' = [ini EXCEPT ![u] = ViewCfg(u)]
  /\ hook' = [hook EXCEPT ![u] = [Handled(@) EXCEPT !.bag.init = TRUE]]
  /\ UNCHANGED <<juju, env, app, buf, bag, pending, deferred, pg, refused>>

\* _pgbouncer_layer needs the port for the metrics service.
PebbleReadyMisconfigured(u) == Handling(u, "pebble_ready") /\ Misread(u)

\* Without pgbouncer's services the handler gives up, with or without a retry.
ConfigChanged(u) ==
  /\ Handling(u, "config_changed")
  /\ \/ ~ContainerReady(u) /\ Defer(u)
     \/ (ContainerReady(u) \/ PassesForReady(u)) /\ Finish(u)
  /\ ini' = IF ContainerReady(u) THEN Rendered(u, ViewCfg(u)) ELSE ini
  /\ UNCHANGED <<juju, env, app, buf, bag, pending, deferred, ready, pg, refused>>

PeersUnready(u) ==
  /\ Handling(u, "peers_changed") /\ SeenUnready(u)
  /\ Defer(u)
  /\ UNCHANGED <<juju, env, app, buf, bag, pending, deferred, ready, ini, pg, refused>>

\* check_pgb_running finds no pgbouncer service and raises PebbleConnectionError.
PeersTooEarly(u) ==
  /\ Handling(u, "peers_changed") /\ PassesForReady(u)
  /\ Discard(u)
  /\ UNCHANGED <<env, pg, refused>>

\* The metrics service needs the port, unless the backend is down.
PeersMisconfigured(u) ==
  Handling(u, "peers_changed") /\ ContainerReady(u) /\ backend # "down" /\ Misread(u)

PeersServed(u) ==
  Handling(u, "peers_changed") /\ ContainerReady(u) /\ (configOK \/ backend = "down")

\* Mutant: the hash is acknowledged, the configuration not rendered.
PeersChangedUnrendered(u) ==
  /\ PeersServed(u)
  /\ hook' = [hook EXCEPT ![u] = [Handled(@) EXCEPT !.bag.ack = ViewCfg(u)]]
  /\ UNCHANGED <<juju, env, app, buf, bag, pending, deferred, ready, ini, pg, refused>>

\* Mutant: a unit acknowledges the first configuration only.
PeersChangedOnce(u) ==
  /\ PeersServed(u)
  /\ IF bag[u].ack # Absent THEN Finish(u)
     ELSE hook' = [hook EXCEPT ![u] = [Handled(@) EXCEPT !.bag.ack = ViewCfg(u)]]
  /\ ini' = Rendered(u, ViewCfg(u))
  /\ UNCHANGED <<juju, env, app, buf, bag, pending, deferred, ready, pg, refused>>

\* Peers._on_changed: render what the leader decided and acknowledge its hash.
PeersChanged(u) ==
  /\ PeersServed(u)
  /\ hook' = [hook EXCEPT ![u] = [Handled(@) EXCEPT !.bag.ack = ViewCfg(u)]]
  /\ ini' = Rendered(u, ViewCfg(u))
  /\ UNCHANGED <<juju, env, app, buf, bag, pending, deferred, ready, pg, refused>>

\* DatabaseProvides: only the leader keeps the diff, and only a database name
\* that the diff does not know yet is a request.
RelationChanged(u) ==
  /\ Handling(u, "relation_changed")
  /\ IF u = leader /\ Rel(u) \notin buf.seen
     THEN /\ buf' = [buf EXCEPT !.seen = @ \union {Rel(u)}]
          /\ hook' = [hook EXCEPT ![u].todo =
                        <<Ev("database_requested", Rel(u))>> \o Tail(@)]
     ELSE Finish(u) /\ UNCHANGED buf
  /\ UNCHANGED <<juju, env, app, bag, pending, deferred, ready, ini, pg, refused>>

----------------------------------------------------------------------------
(* _on_database_requested *)

\* model.relations: a relation whose relation-broken is being handled is not in it.
Active(u) == {r \in bound[u] : hook[u].ev # Ev("relation_broken", r)}

\* The database of the event: None when the relation no longer exists for u.
RequestedDb(u) == IF Rel(u) \in bound[u] THEN DbOf[Rel(u)] ELSE Null

\* Mutant: only relations that already have credentials are scanned.
GeneratedFromGranted(u) ==
  [dbs  |-> [r \in Relations |-> IF r \in Active(u) \cap buf.cred THEN DbOf[r] ELSE Absent],
   wild |-> IF Active(u) \cap AdminRelations = {} THEN Absent ELSE DbOf[Last[Active(u)]]]

\* generate_relation_databases: "auth_dbname" is the loop variable the scan ends with.
Generated(u) ==
  [dbs  |-> [r \in Relations |-> IF r \in Active(u) THEN DbOf[r] ELSE Absent],
   wild |-> IF Active(u) \cap AdminRelations = {} THEN Absent ELSE DbOf[Last[Active(u)]]]

\* Mutant: the roles of a relation are believed though the relation is gone.
RequestedConfigOfDead(u) ==
  [dbs  |-> [Generated(u).dbs EXCEPT ![Rel(u)] = RequestedDb(u)],
   wild |-> IF Rel(u) \in AdminRelations \union LateAdmins THEN RequestedDb(u)
            ELSE Generated(u).wild]

\* The configuration that the request writes: generated, plus its own entry.
RequestedConfig(u) ==
  LET r == Rel(u)
      admin == r \in bound[u] /\ r \in AdminRelations \union LateAdmins
  IN [dbs  |-> [Generated(u).dbs EXCEPT ![r] = RequestedDb(u)],
      wild |-> IF admin THEN RequestedDb(u) ELSE Generated(u).wild]

\* Mutants: any acknowledgement counts; one unit is enough.
SyncedOnce(u, cfg) == \A v \in members \ {u} : bag[v].ack # Absent
SyncedWithOne(u, cfg) == members = {u} \/ \E v \in members \ {u} : bag[v].ack = cfg

\* Every other unit of the peer relation has acknowledged this configuration.
Synced(u, cfg) == \A v \in members \ {u} : bag[v].ack = cfg

DropRequest(u) ==
  /\ Handling(u, "database_requested") /\ u # leader
  /\ Finish(u)
  /\ UNCHANGED <<juju, env, app, buf, bag, pending, deferred, ready, ini, pg, refused>>

\* Mutant: an unreachable backend ends the request.
AwaitBackendNever(u) ==
  /\ Handling(u, "database_requested") /\ u = leader /\ backend # "ready"
  /\ Finish(u)
  /\ UNCHANGED <<juju, env, app, buf, bag, pending, deferred, ready, ini, pg, refused>>

AwaitBackend(u) ==
  /\ Handling(u, "database_requested") /\ u = leader /\ backend # "ready"
  /\ Defer(u)
  /\ UNCHANGED <<juju, env, app, buf, bag, pending, deferred, ready, ini, pg, refused>>

\* read_write_endpoints reads the invalid configuration and raises.
RequestMisconfigured(u) ==
  Handling(u, "database_requested") /\ u = leader /\ backend = "ready" /\ Misread(u)

Servable(u) ==
  Handling(u, "database_requested") /\ u = leader /\ backend = "ready" /\ configOK

AwaitPeers(u) ==
  /\ Servable(u) /\ ~Synced(u, RequestedConfig(u))
  /\ buf' = [buf EXCEPT !.cfg = RequestedConfig(u)]
  /\ Defer(u)
  /\ UNCHANGED <<juju, env, app, bag, pending, deferred, ready, ini, pg, refused>>

Provisionable(u) == Servable(u) /\ Synced(u, RequestedConfig(u))

\* create_user of PostgreSQL 14 alters a role that exists, and ALTER ROLE has no IN ROLE.
Unalterable(u) == UserBeforeDb /\ Rel(u) \in GroupAdmins \cap pg.users

\* PostgreSQL does what it is asked to.
Acceptable(u) == Provisionable(u) /\ Rel(u) \in bound[u] \ Rejected /\ ~Unalterable(u)

\* Mutant: the auth function is installed only in a database that is created.
GrantOnCreation(u) ==
  /\ Acceptable(u)
  /\ pg' = [users |-> pg.users \union {Rel(u)},
            dbs   |-> pg.dbs \union {DbOf[Rel(u)]},
            auth  |-> IF DbOf[Rel(u)] \in pg.dbs THEN pg.auth ELSE pg.auth \union {DbOf[Rel(u)]}]
  /\ buf' = [buf EXCEPT !.cfg = RequestedConfig(u), !.cred = @ \union {Rel(u)}]
  /\ ini' = Rendered(u, RequestedConfig(u))
  /\ Finish(u)
  /\ UNCHANGED <<juju, env, app, bag, pending, deferred, ready, refused>>

Grant(u) ==
  /\ Acceptable(u)
  /\ pg' = [users |-> pg.users \union {Rel(u)},
            dbs   |-> pg.dbs \union {DbOf[Rel(u)]},
            auth  |-> pg.auth \union {DbOf[Rel(u)]}]
  /\ buf' = [buf EXCEPT !.cfg = RequestedConfig(u), !.cred = @ \union {Rel(u)}]
  /\ ini' = Rendered(u, RequestedConfig(u))
  /\ Finish(u)
  /\ UNCHANGED <<juju, env, app, bag, pending, deferred, ready, refused>>

\* The unit blocks, nothing is deferred.
Blocks(u) ==
  /\ buf' = [buf EXCEPT !.cfg = RequestedConfig(u)]
  /\ refused' = refused \union {Rel(u)}
  /\ Finish(u)
  /\ UNCHANGED <<juju, backend, configOK, app, bag, pending, deferred, ready, ini>>

\* PostgreSQL refuses the user.
Refuse(u) ==
  /\ Provisionable(u) /\ Rel(u) \in bound[u] /\ ~Acceptable(u)
  /\ pg' = IF UserBeforeDb THEN pg ELSE [pg EXCEPT !.dbs = @ \union {DbOf[Rel(u)]}]
  /\ Blocks(u) /\ UNCHANGED spent

\* An error of create_user or create_database: what was done before it stays.
RequestFails(u) ==
  /\ Acceptable(u) /\ Spend("errors")
  /\ pg' \in {pg, IF UserBeforeDb THEN [pg EXCEPT !.users = @ \union {Rel(u)}]
                  ELSE [pg EXCEPT !.dbs = @ \union {DbOf[Rel(u)]}],
              [pg EXCEPT !.users = @ \union {Rel(u)}, !.dbs = @ \union {DbOf[Rel(u)]}]}
  /\ Blocks(u)

\* There is no database named None: an exception nobody catches.
RequestOfDeadRelation(u) ==
  /\ Provisionable(u) /\ Rel(u) \notin bound[u]
  /\ pg' = IF UserBeforeDb THEN [pg EXCEPT !.users = @ \union {Rel(u)}] ELSE pg
  /\ Discard(u)
  /\ UNCHANGED <<env, refused>>

\* PostgreSQL fails half-way: the auth function of the database is gone for now.
ProvisioningFails(u) ==
  /\ Acceptable(u)
  /\ Spend("crashes")
  /\ pg' = [users |-> pg.users \union {Rel(u)},
            dbs   |-> pg.dbs \union {DbOf[Rel(u)]},
            auth  |-> pg.auth \ {DbOf[Rel(u)]}]
  /\ Discard(u)
  /\ UNCHANGED <<backend, configOK, refused>>

\* The user is there, but render_pgb_config finds no pgbouncer service.
GrantTooEarly(u) ==
  /\ Acceptable(u) /\ PassesForReady(u)
  /\ pg' = [users |-> pg.users \union {Rel(u)},
            dbs   |-> pg.dbs \union {DbOf[Rel(u)]},
            auth  |-> pg.auth \union {DbOf[Rel(u)]}]
  /\ Discard(u)
  /\ UNCHANGED <<env, refused>>

----------------------------------------------------------------------------
(* _on_relation_departed and _on_relation_broken *)

Flagged(h, rels) == [h EXCEPT !.todo = Tail(@), !.bag.departing = rels]

\* Mutant: the departing flag is not set.
RelationDepartedUnflagged(u) ==
  /\ Handling(u, "relation_departed")
  /\ Finish(u)
  /\ UNCHANGED <<juju, env, app, buf, bag, pending, deferred, ready, ini, pg, refused>>

\* Only a unit that is itself removed sees departing_unit = itself.
RelationDeparted(u) ==
  /\ Handling(u, "relation_departed")
  /\ hook' = [hook EXCEPT ![u] = Flagged(@, @.bag.departing \union {Rel(u)})]
  /\ UNCHANGED <<juju, env, app, buf, bag, pending, deferred, ready, ini, pg, refused>>

IgnoreBroken(u) ==
  /\ Handling(u, "relation_broken") /\ (backend = "down" \/ u # leader)
  /\ Finish(u)
  /\ UNCHANGED <<juju, env, app, buf, bag, pending, deferred, ready, ini, pg, refused>>

Revocable(u) == Handling(u, "relation_broken") /\ backend # "down" /\ u = leader

\* This unit is being removed, so don't update the relation.
KeepRelation(u) ==
  /\ Revocable(u) /\ Rel(u) \in hook[u].bag.departing
  /\ hook' = [hook EXCEPT ![u] = Flagged(@, @.bag.departing \ {Rel(u)})]
  /\ UNCHANGED <<juju, env, app, buf, bag, pending, deferred, ready, ini, pg, refused>>

\* Mutant: the databases of the other relations are not looked at.
OrphanedDbsUnshared(u) == {d \in Databases : buf.cfg.dbs[Rel(u)] = d}

\* The database whose auth function goes with the relation: no other entry names it.
OrphanedDbs(u) ==
  {d \in Databases : /\ buf.cfg.dbs[Rel(u)] = d
                     /\ \A r \in Relations \ {Rel(u)} : buf.cfg.dbs[r] # d}

\* Mutant: the entries to drop are found by database name.
RevokeByName(u) ==
  /\ Revocable(u) /\ Rel(u) \notin hook[u].bag.departing
  /\ OrphanedDbs(u) \subseteq pg.dbs
  /\ buf' = [buf EXCEPT !.cfg.dbs =
       [r \in Relations |-> IF @[r] = @[Rel(u)] THEN Absent ELSE @[r]]]
  /\ pg' = [pg EXCEPT !.users = @ \ {Rel(u)}, !.auth = @ \ OrphanedDbs(u)]
  /\ Finish(u)
  /\ UNCHANGED <<juju, env, app, bag, pending, deferred, ready, ini, refused>>

\* Mutant: the user goes only when its database is not shared.
RevokeLast(u) ==
  /\ Revocable(u) /\ Rel(u) \notin hook[u].bag.departing
  /\ OrphanedDbs(u) \subseteq pg.dbs
  /\ buf' = [buf EXCEPT !.cfg.dbs[Rel(u)] = Absent]
  /\ pg' = IF OrphanedDbs(u) = {} THEN pg
           ELSE [pg EXCEPT !.users = @ \ {Rel(u)}, !.auth = @ \ OrphanedDbs(u)]
  /\ Finish(u)
  /\ UNCHANGED <<juju, env, app, bag, pending, deferred, ready, ini, refused>>

Revoke(u) ==
  /\ Revocable(u) /\ Rel(u) \notin hook[u].bag.departing
  /\ OrphanedDbs(u) \subseteq pg.dbs
  /\ buf' = [buf EXCEPT !.cfg.dbs[Rel(u)] = Absent]
  /\ pg' = [pg EXCEPT !.users = @ \ {Rel(u)}, !.auth = @ \ OrphanedDbs(u)]
  /\ Finish(u)
  /\ UNCHANGED <<juju, env, app, bag, pending, deferred, ready, ini, refused>>

\* The database was never created: remove_auth_function cannot connect to it.
RevokeFails(u) ==
  /\ Revocable(u) /\ Rel(u) \notin hook[u].bag.departing
  /\ ~(OrphanedDbs(u) \subseteq pg.dbs)
  /\ Discard(u)
  /\ UNCHANGED <<env, pg, refused>>

----------------------------------------------------------------------------
(* The environment: clients, Juju, Kubernetes, PostgreSQL *)

Deliver(us, es) == [v \in Units |-> IF v \in us THEN pending[v] \union es ELSE pending[v]]

AddRelation(r) ==
  /\ client[r] = "none"
  /\ client' = [client EXCEPT ![r] = "alive"]
  /\ bound' = [v \in Units |-> IF v \in members \ leaving THEN bound[v] \union {r} ELSE bound[v]]
  /\ pending' = Deliver(members \ leaving, {Ev("relation_changed", r)})
  /\ UNCHANGED <<leader, members, leaving, env, app, buf, bag, hook, deferred, ready, ini,
                 pg, refused>>

RemoveRelation(r) ==
  /\ client[r] = "alive"
  /\ Spend("removals")
  /\ client' = [client EXCEPT ![r] = "dying"]
  /\ pending' = [v \in Units |-> IF r \in bound[v]
                                 THEN pending[v] \union {Ev("relation_broken", r)}
                                 ELSE pending[v]]
  /\ UNCHANGED <<leader, members, leaving, bound, backend, configOK, app, buf, bag, hook,
                 deferred, ready, ini, pg, refused>>

ElectLeader(u) ==
  /\ u \in members \ leaving /\ u # leader /\ ~InHook(u)
  /\ IF leader = NoUnit THEN UNCHANGED spent ELSE ~InHook(leader) /\ Spend("elections")
  /\ leader' = u
  /\ UNCHANGED <<members, leaving, client, bound, backend, configOK, app, buf, bag, hook,
                 pending, deferred, ready, ini, pg, refused>>

\* Scale-down of u: Juju ends each of its relations, though the relations live on.
Leave(u) ==
  /\ u \in members \ leaving /\ members \ leaving # {u}
  /\ LeaderMayLeave \/ u # leader
  /\ ~InHook(u)
  /\ Spend("leaves")
  /\ leaving' = leaving \union {u}
  /\ pending' = [pending EXCEPT ![u] =
       {e \in @ : e.kind # "relation_changed"}
         \union {Ev(k, r) : k \in {"relation_departed", "relation_broken"}, r \in bound[u]}]
  /\ UNCHANGED <<leader, members, client, bound, backend, configOK, app, buf, bag, hook,
                 deferred, ready, ini, pg, refused>>

UnitGone(u) ==
  /\ u \in leaving /\ bound[u] = {} /\ ~InHook(u)
  /\ members' = members \ {u}
  /\ leaving' = leaving \ {u}
  /\ leader' = IF u = leader THEN NoUnit ELSE leader
  /\ pending' = [pending EXCEPT ![u] = {}]
  /\ deferred' = [deferred EXCEPT ![u] = <<>>]
  /\ ready' = [ready EXCEPT ![u] = FALSE]
  /\ ini' = [ini EXCEPT ![u] = Absent]
  /\ UNCHANGED <<client, bound, env, app, buf, bag, hook, pg, refused>>

\* The workload container restarts with an empty file system.
ContainerRestart(u) ==
  /\ ready[u]
  /\ Spend("restarts")
  /\ ready' = [ready EXCEPT ![u] = FALSE]
  /\ ini' = [ini EXCEPT ![u] = Absent]
  /\ pending' = Deliver({u}, {Ev("pebble_ready", NoRel)})
  /\ UNCHANGED <<juju, backend, configOK, app, buf, bag, hook, deferred, pg, refused>>

Outage ==
  /\ backend = "ready"
  /\ Spend("outages")
  /\ backend' \in {"no_endpoints", "down"}
  /\ UNCHANGED <<juju, configOK, app, buf, bag, hook, pending, deferred, ready, ini, pg, refused>>

Recover ==
  /\ backend # "ready"
  /\ backend' = "ready"
  /\ UNCHANGED <<juju, configOK, spent, app, buf, bag, hook, pending, deferred, ready, ini,
                 pg, refused>>

Misconfigure ==
  /\ configOK
  /\ Spend("misconfigs")
  /\ configOK' = FALSE
  /\ pending' = Deliver(members, {Ev("config_changed", NoRel)})
  /\ UNCHANGED <<juju, backend, app, buf, bag, hook, deferred, ready, ini, pg, refused>>

Reconfigure ==
  /\ ~configOK
  /\ configOK' = TRUE
  /\ pending' = Deliver(members, {Ev("config_changed", NoRel)})
  /\ UNCHANGED <<juju, backend, spent, app, buf, bag, hook, deferred, ready, ini, pg, refused>>

----------------------------------------------------------------------------
Handle(u) ==
  \/ UpdateStatus(u) \/ UpdateStatusMisconfigured(u)
  \/ PebbleReady(u) \/ PebbleReadyMisconfigured(u) \/ ConfigChanged(u)
  \/ PeersUnready(u) \/ PeersTooEarly(u) \/ PeersMisconfigured(u) \/ PeersChanged(u)
  \/ RelationChanged(u)
  \/ DropRequest(u) \/ AwaitBackend(u) \/ RequestMisconfigured(u) \/ AwaitPeers(u)
  \/ Grant(u) \/ Refuse(u) \/ RequestFails(u) \/ RequestOfDeadRelation(u) \/ GrantTooEarly(u)
  \/ RelationDeparted(u) \/ IgnoreBroken(u) \/ KeepRelation(u) \/ Revoke(u) \/ RevokeFails(u)

Work(u) ==
  StartHook(u) \/ StartUpdateStatus(u) \/ Handle(u) \/ Commit(u) \/ UnitGone(u)

Disturb(u) ==
  \/ Crash(u) \/ ProvisioningFails(u) \/ ElectLeader(u) \/ Leave(u) \/ ContainerRestart(u)

Next ==
  \/ \E u \in Units : Work(u) \/ Disturb(u)
  \/ \E r \in Relations : AddRelation(r) \/ RemoveRelation(r)
  \/ Outage \/ Recover \/ Misconfigure \/ Reconfigure

Spec == Init /\ [][Next]_vars

\* A unit agent never stops working, and update-status does not keep it from what
\* is pending; PostgreSQL and the operator repair what broke; a lease that nobody holds is
\* taken.  Clients and disturbances are never forced.
Fairness ==
  /\ \A u \in Units : WF_vars(Work(u)) /\ SF_vars(StartHook(u))
  /\ WF_vars(Recover \/ Reconfigure)
  /\ WF_vars(leader = NoUnit /\ \E u \in Units : ElectLeader(u))

FairSpec == Spec /\ Fairness

----------------------------------------------------------------------------
(* Properties *)

Alive(r) == client[r] = "alive"
Routes(cfg, r) == cfg # Absent /\ cfg.dbs[r] = DbOf[r]

\* A client that has been given credentials finds its database in the
\* pgbouncer.ini of every running unit: what the acknowledgements of
\* _on_database_requested and Peers._on_changed are for.
GrantedIsRouted ==
  \A r \in app.cred : Alive(r) =>
    /\ Routes(app.cfg, r)
    /\ \A u \in members \ leaving : ready[u] => Routes(ini[u], r)

\* An acknowledgement means that the unit runs with what it acknowledged: every
\* living relation of the acknowledged configuration is in its pgbouncer.ini.
AckedIsRendered ==
  \A u \in members \ leaving, r \in Relations :
    Alive(r) /\ Routes(bag[u].ack, r) /\ ready[u] => Routes(ini[u], r)

\* The request of r is still to be handled by some unit.
Outstanding(r) ==
  \E u \in members :
    \/ pending[u] \cap {Ev("relation_changed", r), Ev("database_requested", r)} # {}
    \/ hook[u].ev = Ev("relation_changed", r)
    \/ Queued(deferred[u], Ev("database_requested", r))

\* A second attempt of s was refused: the first one may have taken away the auth function.
GivenUp(s) == spent["crashes"] > 0 /\ s \in refused \ Rejected

\* A client that has been given credentials can log in: its user and database
\* exist, and whoever removes the auth function of a database it shares with
\* another relation is about to install it again (the request is still queued
\* on the leader, as an event or as a deferred notice), unless the second attempt ended in a
\* blocked unit, which tries no third time (pgbouncer_provider.py:182-196).
GrantedCanLogIn ==
  \A r \in app.cred : Alive(r) =>
    /\ r \in pg.users /\ DbOf[r] \in pg.dbs
    /\ \/ DbOf[r] \in pg.auth
       \/ \E s \in Relations : DbOf[s] = DbOf[r] /\ (Outstanding(s) \/ GivenUp(s))

\* The user of a relation is dropped only when the relation itself is removed,
\* never because a unit (the leader included) is scaled down: the purpose of the
\* departing flag.
LiveUserKept ==
  [][\A r \in pg.users \ pg'.users : client[r] = "dying"]_vars

\* What the departing flag has to survive for LiveUserKept: relation-broken of a living
\* relation is pending only behind relation-departed, or with the flag already in the
\* databag; and its hook starts, fails and is retried with the flag still there.
LeaveKinds == {"relation_departed", "relation_broken"}
LeavesLast(u) ==
  /\ \A i \in DOMAIN deferred[u] : deferred[u][i].kind \notin LeaveKinds
  /\ \A i \in DOMAIN hook[u].kept : hook[u].kept[i].kind \notin LeaveKinds
  /\ \A i \in DOMAIN hook[u].todo : hook[u].todo[i].kind \in LeaveKinds =>
       i = Len(hook[u].todo) /\ hook[u].todo[i] = hook[u].ev
FlagKept(u) ==
  \A r \in bag[u].departing : r \in hook[u].bag.departing \/ hook[u].ev = Ev("relation_broken", r)
FlagSet(u) ==
  \A r \in Relations : hook[u].ev = Ev("relation_departed", r) =>
    \/ r \in hook[u].bag.departing
    \/ \E i \in DOMAIN hook[u].todo : hook[u].todo[i] = hook[u].ev
BrokenFlagged(u) ==
  \A r \in Relations : hook[u].ev = Ev("relation_broken", r) =>
    \/ client[r] = "dying"
    \/ r \in bag[u].departing /\ (hook[u].todo = <<>> \/ r \in hook[u].bag.departing)
BrokenExpected(u) ==
  \A r \in Relations : Ev("relation_broken", r) \in pending[u] =>
    \/ client[r] = "dying"
    \/ Ev("relation_departed", r) \in pending[u]
    \/ hook[u].ev = Ev("relation_departed", r)
    \/ r \in bag[u].departing /\ hook[u].ev # Ev("relation_broken", r)
BrokenExcused ==
  \A u \in Units :
    LeavesLast(u) /\ FlagKept(u) /\ FlagSet(u) /\ BrokenFlagged(u) /\ BrokenExpected(u)

\* While a relation lives, no later request, revocation or election takes its
\* entry out of the configuration that the peers follow.
LiveEntryKept ==
  [][\A r \in Relations : Alive(r) /\ Routes(app.cfg, r) => Routes(app'.cfg, r)]_vars

\* How far a relation is, for its client; the units that serve clients; what these route.
Phase(r) ==
  CASE client[r] = "none"  -> "unknown"
    [] client[r] = "dying" -> "ended"
    [] Alive(r) /\ r \in app.cred -> "served"
    [] Alive(r) /\ r \notin app.cred /\ Routes(app.cfg, r) -> "admitted"
    [] OTHER -> "requested"
Running == {u \in members \ leaving : ready[u]}
RoutesOf(u) == IF u \in Running THEN {r \in Relations : Routes(ini[u], r)} ELSE {}

\* The whole way of a request, through databags that are flushed or lost, hashes and elections,
\* is one of Provisioning: a user only when all other units route its database, credentials only
\* when all do, and neither route nor entry is lost again (pgbouncer_provider.py:107-206).
Provision == INSTANCE Provisioning WITH
  phase <- [r \in Relations |-> Phase(r)], running <- Running,
  routes <- [u \in Units |-> RoutesOf(u)], users <- pg.users
Provisioned == Provision!Spec

\* A container that has lost its services gets them back from pebble-ready alone.  A peers-changed
\* that comes first fails and is retried, and one that was deferred comes before each attempt
\* of pebble-ready (charm.py:715-718).
HeldUp(u) ==
  LET e == Ev("peers_changed", NoRel)
  IN  ~ready[u] /\ bag[u].init /\ (e \in pending[u] \/ hook[u].ev = e \/ Queued(deferred[u], e))

\* Every request is answered in the end: with credentials or with a blocked unit,
\* unless the client gives up, or a unit is held up for ever.
RequestAnswered ==
  \A r \in Relations :
    \/ Alive(r) ~> (r \in app.cred \/ r \in refused \/ ~Alive(r))
    \/ <>[](\E u \in members : HeldUp(u))

\* A container is configured and started in the end, the first time and after each restart,
\* unless it is held up for ever: _on_pgbouncer_pebble_ready, "define and start pgbouncer
\* workload", is retried until it gets there.
ContainerStarts ==
  \A u \in Units : []<>(ready[u] \/ u \notin members) \/ <>[]HeldUp(u)

\* Once every unit has finished relation-broken the user of the relation is gone.
UserRemoved ==
  \A r \in Relations :
    client[r] = "dying" /\ (\A u \in members : r \notin bound[u]) => r \notin pg.users

=============================================================================
