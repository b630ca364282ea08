----------------------------- MODULE PortRollout -----------------------------
(***************************************************************************)
(* How a change of listen_port or expose-external reaches the pgbouncer    *)
(* processes, the Kubernetes service and the clients: config-changed,      *)
(* update-status and reconcile_k8s_service of charm.py, the publication of *)
(* endpoints in relations/pgbouncer_provider.py, and the peer events that  *)
(* lead to one of the two.                                                 *)
(*                                                                         *)
(* A hook is one step: what it writes to databags is seen by nobody before *)
(* it ends, and hooks of one unit do not overlap.  A hook that fails       *)
(* leaves behind what it did to the service and to the container.          *)
(*                                                                         *)
(* Simplifications:                                                        *)
(*  - the backend is there, and the configuration is valid;                *)
(*  - events wait for the state of the container their handler needs, as   *)
(*    if they were deferred until then;                                    *)
(*  - the metrics exporter, which has its own idea of the port, is left out *)
(*  - the node port that Kubernetes allots is named by the service port;   *)
(*  - the containers are running when the model starts.                    *)
(***************************************************************************)
EXTENDS Naturals

CONSTANTS
  Units,     \* units of the pgbouncer application
  Clients,   \* client relations, numbered in the order in which Juju lists them
  Ports,     \* values of listen_port
  Types,     \* values of expose-external, as service types
  Budgets,   \* the disturbances together stay within one of these budgets
  None       \* no service, no port, no endpoint

Disturbances ==
  {"changes", "elections", "leaves", "restarts", "crashes", "refusals", "disconnects"}

ASSUME PortAssumption ==
  /\ Clients \subseteq Nat
  /\ Types \subseteq {"ClusterIP", "NodePort", "LoadBalancer"}
  /\ Budgets \subseteq [Disturbances -> Nat]
  /\ None \notin Ports /\ None \notin [type : Types, port : Ports]

VARIABLES
  leader,     \* the unit that is the leader
  members,    \* units in the peer relation
  config,     \* listen_port and expose-external as the operator set them
  pending,    \* pending[u]: events Juju has still to deliver to u
  container,  \* container[u]: up, down, or up without pgbouncer (restarted)
  listen,     \* listen[u]: the port on which pgbouncer on u listens
  current,    \* current_port in the peer application databag
  service,    \* the Kubernetes service
  ingress,    \* the load balancer of the service has an address
  trusted,    \* the Kubernetes API lets the charm write the service
  granted,    \* clients with a database and credentials
  published,  \* published[c]: the endpoints in the databag of c
  spent       \* disturbances so far

units == <<leader, members>>
workload == <<container, listen>>
k8s == <<service, ingress, trusted>>
clients == <<granted, published>>
vars == <<units, config, pending, workload, current, k8s, clients, spent>>

Events == {"config_changed", "peers_changed", "peers_departed", "leader_elected", "pebble_ready"}
Service == [type : Types, port : Ports]
\* Node ports are reached through the nodes of the units, other types by one name.
Endpoints == [port : Ports, hosts : SUBSET Units]

TypeOK ==
  /\ members \subseteq Units /\ leader \in members
  /\ config \in Service
  /\ pending \in [Units -> SUBSET Events]
  /\ container \in [Units -> {"up", "down", "bare"}]
  /\ listen \in [Units -> Ports \union {None}]
  /\ current \in Ports \union {None}
  /\ service \in Service \union {None}
  /\ ingress \in BOOLEAN /\ trusted \in BOOLEAN
  /\ granted \subseteq Clients
  /\ published \in [Clients -> Endpoints \union {None}]
  /\ spent \in [Disturbances -> Nat]

Init ==
  /\ leader \in Units
  /\ members = Units
  /\ config \in Service
  /\ pending = [u \in Units |-> {"config_changed"}]
  /\ container = [u \in Units |-> "up"]
  /\ listen = [u \in Units |-> config.port]
  /\ current = None
  /\ service = None
  /\ ingress = FALSE
  /\ trusted = TRUE
  /\ granted = {}
  /\ published = [c \in Clients |-> None]
  /\ spent = [d \in Disturbances |-> 0]

Spend(d) ==
  /\ spent' = [spent EXCEPT ![d] = @ + 1]
  /\ \E budget \in Budgets : \A x \in Disturbances : spent'[x] <= budget[x]

----------------------------------------------------------------------------
(* Endpoints *)

\* Mutant: the port that was recorded, for the port that is configured.
EndpointOfRecorded(svc, lb) ==
  IF svc = None \/ (svc # None /\ svc.type = "LoadBalancer" /\ ~lb) THEN None
  ELSE [port |-> current, hosts |-> IF svc.type = "NodePort" THEN members ELSE {}]

\* get_hosts_ports, for a service svc: a node port is read from the service, any other port
\* from the configuration of today, which the service may not have.
EndpointOf(svc, lb) ==
  IF svc = None \/ (svc # None /\ svc.type = "LoadBalancer" /\ ~lb) THEN None
  ELSE IF svc.type = "NodePort" THEN [port |-> svc.port, hosts |-> members]
  ELSE [port |-> config.port, hosts |-> {}]

\* Where the service svc can be reached.
ServedBy(svc, lb) ==
  IF EndpointOf(svc, lb) = None THEN None ELSE [EndpointOf(svc, lb) EXCEPT !.port = svc.port]

\* check_service_connectivity: Kubernetes picks any unit for the connection.
MayConnect(svc, lb, ports) ==
  /\ EndpointOf(svc, lb) # None /\ EndpointOf(svc, lb) = ServedBy(svc, lb)
  /\ \E u \in members : ports[u] = svc.port

\* update_connection_info of every relation: those with credentials are told.
PublishedTo(cs, endpoint) == [c \in Clients |-> IF c \in cs THEN endpoint ELSE published[c]]

\* update_endpoints without an argument stops at the first relation without credentials.
ToldInOrder(endpoint) ==
  PublishedTo({c \in granted : \A d \in Clients : d < c => d \in granted}, endpoint)

\* update_connection_info of each relation does not.
Told(endpoint) == PublishedTo(granted, endpoint)

----------------------------------------------------------------------------
(* Hooks *)

Done(u, e) == [pending EXCEPT ![u] = @ \ {e}]
Notified(p, us, e) == [v \in Units |-> IF v \in us THEN p[v] \union {e} ELSE p[v]]

\* Mutant: a changed port alone is not applied.
MustApplyType(changed) == service = None \/ (service # None /\ service.type # config.type)

\* reconcile_k8s_service has something to apply.
MustApply(changed) == changed \/ service = None \/ (service # None /\ service.type # config.type)

Applied(u, changed) == IF u = leader /\ MustApply(changed) THEN config ELSE service
IngressOf(svc) == ingress /\ service # None /\ svc.type = service.type

\* render_pgb_config(restart): a reload does not change the port of a process.
Restarted(u, restart) ==
  IF container[u] = "up" /\ restart THEN [listen EXCEPT ![u] = config.port] ELSE listen

\* Mutant: a port that was never recorded counts as unchanged.
PortChangedSince == current \notin {None, config.port}

PortChanged == current # config.port

\* The API refuses the service: the leader blocks and leaves everything as it is.
ConfigChangedRefused(u) ==
  /\ "config_changed" \in pending[u] /\ container[u] # "down"
  /\ u = leader /\ MustApply(PortChanged) /\ ~trusted
  /\ pending' = Done(u, "config_changed")
  /\ UNCHANGED <<units, config, workload, current, k8s, clients, spent>>

Reconciles(u) ==
  /\ "config_changed" \in pending[u] /\ container[u] # "down"
  /\ u = leader /\ MustApply(PortChanged) => trusted
  /\ service' = Applied(u, PortChanged)
  /\ ingress' = IngressOf(service')
  /\ UNCHANGED <<units, config, container, trusted, granted>>

\* What follows the rendering: current_port, and the connection information if the service
\* can be reached.
Records(u) ==
  /\ current' = IF u = leader THEN config.port ELSE current
  /\ \/ UNCHANGED published
     \/ /\ u = leader /\ MayConnect(service', ingress', listen')
        /\ published' = Told(EndpointOf(service', ingress'))

RecordNews(p, u) == IF current' = current THEN p ELSE Notified(p, members \ {u}, "peers_changed")

ConfigChanged(u) ==
  /\ Reconciles(u)
  /\ listen' = Restarted(u, PortChanged)
  /\ Records(u)
  /\ pending' = RecordNews(Done(u, "config_changed"), u)
  /\ UNCHANGED spent

\* The container cannot be reached while the configuration is rendered: the event is deferred,
\* and the port is recorded all the same.
ConfigChangedDeferred(u) ==
  /\ Reconciles(u)
  /\ Spend("disconnects")
  /\ listen' \in {listen, Restarted(u, PortChanged)}
  /\ Records(u)
  /\ pending' = RecordNews(pending, u)

\* The hook fails: current_port is lost, the service and the restart are not.
ConfigChangedFails(u) ==
  /\ Reconciles(u)
  /\ Spend("crashes")
  /\ listen' = Restarted(u, PortChanged)
  /\ UNCHANGED <<pending, current, published>>

PeersChanged(u) ==
  /\ "peers_changed" \in pending[u] /\ container[u] = "up"
  /\ pending' = Done(u, "peers_changed")
  /\ published' = IF u = leader THEN ToldInOrder(EndpointOf(service, ingress)) ELSE published
  /\ UNCHANGED <<units, config, container, listen, current, k8s, granted, spent>>

\* update_client_connection_info: on peers-departed, on leader-elected and regularly.
ConnectionInfo(u) == published' = IF u = leader THEN Told(EndpointOf(service, ingress)) ELSE published

PeersDeparted(u) ==
  /\ "peers_departed" \in pending[u]
  /\ pending' = Done(u, "peers_departed")
  /\ ConnectionInfo(u)
  /\ UNCHANGED <<units, config, workload, current, k8s, granted, spent>>

LeaderElected(u) ==
  /\ "leader_elected" \in pending[u]
  /\ pending' = Done(u, "leader_elected")
  /\ ConnectionInfo(u)
  /\ UNCHANGED <<units, config, workload, current, k8s, granted, spent>>

UpdateStatus(u) ==
  /\ u = leader
  /\ ConnectionInfo(u)
  /\ UNCHANGED <<units, config, pending, workload, current, k8s, granted, spent>>

\* pgbouncer starts with the configuration of today; the new
\* userlist_nonce in the databag is news to the other units.
PebbleReady(u) ==
  /\ "pebble_ready" \in pending[u] /\ container[u] # "up"
  /\ container' = [container EXCEPT ![u] = "up"]
  /\ listen' = [listen EXCEPT ![u] = config.port]
  /\ pending' = Notified(Done(u, "pebble_ready"), members \ {u}, "peers_changed")
  /\ UNCHANGED <<units, config, current, k8s, clients, spent>>

\* The end of _on_database_requested.
Grant(c) ==
  /\ c \notin granted
  /\ EndpointOf(service, ingress) # None
  /\ granted' = granted \union {c}
  /\ published' = [published EXCEPT ![c] = EndpointOf(service, ingress)]
  /\ UNCHANGED <<units, config, pending, workload, current, k8s, spent>>

----------------------------------------------------------------------------
(* The environment: the operator, Juju, Kubernetes *)

SetConfig ==
  /\ Spend("changes")
  /\ config' \in Service \ {config}
  /\ pending' = Notified(pending, members, "config_changed")
  /\ UNCHANGED <<units, workload, current, k8s, clients>>

Elect(u) ==
  /\ u \in members \ {leader}
  /\ Spend("elections")
  /\ leader' = u
  /\ pending' = Notified(pending, {u}, "leader_elected")
  /\ UNCHANGED <<members, config, workload, current, k8s, clients>>

Leave(u) ==
  /\ u \in members \ {leader}
  /\ Spend("leaves")
  /\ members' = members \ {u}
  /\ listen' = [listen EXCEPT ![u] = None]
  /\ container' = [container EXCEPT ![u] = "down"]
  /\ pending' = [Notified(pending, members \ {u}, "peers_departed") EXCEPT ![u] = {}]
  /\ UNCHANGED <<leader, config, current, k8s, clients>>

\* container_initialised survives a restart, so a container that is up again passes
\* for ready before pebble-ready.
ContainerRestart(u) ==
  /\ u \in members /\ container[u] = "up"
  /\ Spend("restarts")
  /\ container' \in {[container EXCEPT ![u] = state] : state \in {"down", "bare"}}
  /\ listen' = [listen EXCEPT ![u] = None]
  /\ pending' = Notified(pending, {u}, "pebble_ready")
  /\ UNCHANGED <<units, config, current, k8s, clients>>

AssignIngress ==
  /\ service # None /\ service.type = "LoadBalancer" /\ ~ingress
  /\ ingress' = TRUE
  /\ UNCHANGED <<units, config, pending, workload, current, service, trusted, clients, spent>>

Untrust ==
  /\ trusted /\ Spend("refusals")
  /\ trusted' = FALSE
  /\ UNCHANGED <<units, config, pending, workload, current, service, ingress, clients>>

Trust ==
  /\ ~trusted
  /\ trusted' = TRUE
  /\ UNCHANGED <<units, config, pending, workload, current, service, ingress, clients, spent>>
----------------------------------------------------------------------------
(* Specification *)

Hooks(u) ==
  \/ ConfigChangedRefused(u) \/ ConfigChanged(u)
  \/ ConfigChangedDeferred(u) \/ ConfigChangedFails(u)
  \/ PeersChanged(u) \/ PeersDeparted(u) \/ LeaderElected(u)
  \/ UpdateStatus(u) \/ PebbleReady(u)

Environment ==
  \/ SetConfig \/ AssignIngress \/ Untrust \/ Trust
  \/ \E u \in Units : Elect(u) \/ Leave(u) \/ ContainerRestart(u)

Next == Environment \/ (\E u \in Units : Hooks(u)) \/ (\E c \in Clients : Grant(c))

Spec == Init /\ [][Next]_vars

\* Juju delivers every event and update-status again and again, Kubernetes gives a
\* load balancer its address, and the operator trusts the application in the end.
Fairness ==
  /\ \A u \in Units :
       /\ WF_vars(ConfigChangedRefused(u) \/ ConfigChanged(u))
       /\ WF_vars(PeersChanged(u)) /\ WF_vars(PeersDeparted(u)) /\ WF_vars(LeaderElected(u))
       /\ WF_vars(UpdateStatus(u)) /\ WF_vars(PebbleReady(u))
  /\ WF_vars(AssignIngress) /\ WF_vars(Trust)

FairSpec == Spec /\ Fairness

----------------------------------------------------------------------------
(* Properties *)

\* The operator takes a change back while the hook that applied it fails again: the retry finds
\* the port that was recorded, and leaves the service with the other one.
MayBeTakenBack == spent["changes"] > 1 /\ spent["crashes"] > 0

\* current_port is written after the service was applied: once it names the port of today, the
\* service serves that port, whoever leads and however often the API refused, unless a change
\* was taken back while its hook failed (charm.py:387-401).
NoStaleService ==
  current = config.port /\ ~MayBeTakenBack => service # None /\ service.port = config.port

\* Unless the leader changes, the API refuses or a change is taken back too early, a change of
\* either option ends with a service of the wanted type and port, with that port recorded, and
\* with the leader listening on it, through failed hooks and restarts; if the container could
\* not be reached, the retry finds the port recorded and leaves pgbouncer on the old one
\* (charm.py:384-401).
RolledOut ==
  <>[](spent["elections"] + spent["refusals"] = 0 /\ ~MayBeTakenBack =>
         /\ service = config /\ current = config.port
         /\ listen[leader] = config.port \/ spent["disconnects"] > 0)

\* The leader never applies the port of today: it was refused and does not try again, it took
\* over after its own config-changed, or the change was taken back.
NeverApplied ==
  /\ service # None /\ service.port # config.port
  /\ spent["elections"] + spent["refusals"] > 0 \/ MayBeTakenBack

\* Every client with credentials is told, for good, where the service can be reached now: after
\* a change of port or type, after the load balancer got its address, after a unit left, and
\* after elections, unless the service was never given the port of today, which is what
\* the clients are told then (charm.py:521-523, charm.py:564-583, peers.py:144-150).
ToldEventually ==
  <>[]\A c \in granted :
        /\ published[c] = EndpointOf(service, ingress)
        /\ NeverApplied \/ published[c] = ServedBy(service, ingress)
=============================================================================
