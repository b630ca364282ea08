------------------------------ MODULE LogProxy ------------------------------
(***************************************************************************)
(* Log forwarding: LogProxyConsumer of loki_push_api.py, which runs        *)
(* promtail next to pgbouncer in the container of a unit, and              *)
(* LokiPushApiProvider, from which it gets the URL of promtail and the     *)
(* endpoints.                                                              *)
(*                                                                         *)
(* A hook is one step.  Simplifications:                                   *)
(*  - one relation at a time, and its promtail never changes;              *)
(*  - a configuration is the set of its clients, an endpoint the unit that *)
(*    has published it;                                                    *)
(*  - alert rules, syslog and promtail as a charm resource are left out.   *)
(***************************************************************************)
EXTENDS Naturals

CONSTANTS
  Lokis,   \* units of Loki
  Leader,  \* the one that leads
  None,
  Budgets  \* the disturbances together stay within one of these budgets

Disturbances == {"removals", "departures", "restarts", "downloads"}

VARIABLES
  related,    \* the relation exists
  dying,      \* and is being removed
  present,    \* units of Loki that the unit sees in it
  leaving,    \* those whose relation-departed is to come
  toLoki,     \* units of Loki whose relation-joined and relation-changed are to come
  offered,    \* the leader of Loki has published the URL of promtail
  published,  \* units of Loki that have published an endpoint
  hooks,      \* other hooks to come for the unit
  failing,    \* relation-departed of this unit of Loki fails, and is retried
  up,         \* the container can be connected to
  cached,     \* promtail has been downloaded to the charm container,
  installed,  \* pushed to the container of pgbouncer,
  planned,    \* and is one of its services
  config,     \* the clients in its configuration file, None without one
  running,    \* the clients promtail was started with, None if it does not run
  spent       \* disturbances so far

loki == <<toLoki, offered, published>>
relation == <<related, dying>>
promtail == <<cached, installed, planned, config, running>>
vars == <<relation, present, leaving, loki, hooks, failing, up, promtail, spent>>

TypeOK ==
  /\ related \in BOOLEAN /\ dying \in BOOLEAN /\ offered \in BOOLEAN /\ up \in BOOLEAN
  /\ cached \in BOOLEAN /\ installed \in BOOLEAN /\ planned \in BOOLEAN
  /\ present \subseteq Lokis /\ leaving \subseteq present
  /\ toLoki \subseteq Lokis /\ published \subseteq Lokis
  /\ hooks \subseteq {"created", "changed", "pebble_ready"}
  /\ failing \in leaving \union {None}
  /\ config \in (SUBSET Lokis) \union {None} /\ running \in (SUBSET Lokis) \union {None}
  /\ (planned => up /\ installed)  \* a service of a container that has its program
  /\ spent \in [Disturbances -> Nat]

Init ==
  /\ related = FALSE /\ dying = FALSE /\ present = {} /\ leaving = {}
  /\ toLoki = {} /\ offered = FALSE /\ published = {}
  /\ hooks = {} /\ failing = None /\ up = TRUE
  /\ cached = FALSE /\ installed = FALSE /\ planned = FALSE
  /\ config = None /\ running = None
  /\ spent = [d \in Disturbances |-> 0]

Spend(d) ==
  /\ spent' = [spent EXCEPT ![d] = @ + 1]
  /\ \E budget \in Budgets : \A x \in Disturbances : spent'[x] <= budget[x]

----------------------------------------------------------------------------
(* The unit *)

\* _clients_list: the endpoints of the units that are seen.
Clients == present \intersect published

\* _setup_promtail.  "Loki may send endpoints late": without any, promtail is not started.
SetUp ==
  /\ cached' = TRUE /\ installed' = TRUE /\ planned' = TRUE
  /\ config' = Clients
  /\ running' = (IF Clients # {} THEN Clients ELSE running)
  /\ UNCHANGED spent

\* Mutant: the service is added all the same.
DownloadIgnored ==
  /\ ~installed /\ ~cached /\ Spend("downloads")
  /\ planned' = TRUE
  /\ UNCHANGED <<cached, installed, config, running>>

\* "Promtail binary couldn't be downloaded": only told, and not tried again until the next
\* relation-changed or pebble-ready.
DownloadFails ==
  /\ ~installed /\ ~cached /\ Spend("downloads")
  /\ UNCHANGED promtail

SetUpIfOffered ==
  IF offered THEN SetUp \/ DownloadFails ELSE UNCHANGED <<promtail, spent>>

Hook(h) ==
  /\ h \in hooks /\ failing = None
  /\ hooks' = hooks \ {h}
  /\ UNCHANGED <<relation, present, leaving, loki, failing, up>>

Created ==
  /\ Hook("created")
  /\ IF up THEN SetUpIfOffered ELSE UNCHANGED <<promtail, spent>>

\* Mutant: the new configuration is for the next start.
ReconfiguredOnly ==
  config' = Clients /\ UNCHANGED <<cached, installed, planned, running, spent>>

Reconfigured ==
  /\ config' = Clients
  /\ running' = (IF Clients # {} THEN Clients ELSE running)
  /\ UNCHANGED <<cached, installed, planned, spent>>

Changed ==
  /\ Hook("changed")
  /\ IF ~up THEN UNCHANGED <<promtail, spent>>
     ELSE IF planned THEN Reconfigured ELSE SetUpIfOffered

\* Mutant: promtail is set up by relation hooks only.
PebbleReadyIdle == Hook("pebble_ready") /\ UNCHANGED <<promtail, spent>>

\* Without a container it fails, and is retried.
PebbleReady ==
  /\ up /\ Hook("pebble_ready")
  /\ IF related THEN SetUpIfOffered ELSE UNCHANGED <<promtail, spent>>

\* The unit that departs is not seen any more.
Departed(u) ==
  /\ u \in leaving /\ failing \in {None, u} /\ (up => planned)
  /\ present' = present \ {u} /\ leaving' = leaving \ {u} /\ failing' = None
  /\ LET clients == (present \ {u}) \intersect published
     IN /\ config' = (IF up THEN clients ELSE config)
        /\ running' = (IF up /\ clients # {} THEN clients ELSE None)
  /\ published' = published \ {u}
  /\ UNCHANGED <<relation, toLoki, offered, hooks, up, cached, installed, planned, spent>>

\* The configuration is pushed; a service that is not in the plan cannot be stopped, nor
\* restarted: the hook fails, and every other hook of the unit waits for it.
DepartedFails(u) ==
  /\ u \in leaving /\ failing = None /\ up /\ ~planned
  /\ failing' = u
  /\ config' = (present \ {u}) \intersect published
  /\ UNCHANGED <<relation, present, leaving, loki, hooks, up, cached, installed, planned, running, spent>>

----------------------------------------------------------------------------
(* Loki *)

\* Relation-joined and relation-changed of one unit of Loki.
LokiChanged(u) ==
  /\ u \in toLoki
  /\ toLoki' = toLoki \ {u}
  /\ offered' = (offered \/ u = Leader)
  /\ published' = published \union {u}
  /\ hooks' = hooks \union {"changed"}
  /\ UNCHANGED <<relation, present, leaving, failing, up, promtail, spent>>

----------------------------------------------------------------------------
(* Juju and Kubernetes *)

Relate ==
  /\ ~related
  /\ related' = TRUE /\ hooks' = hooks \union {"created"}
  /\ UNCHANGED <<dying, present, leaving, loki, failing, up, promtail, spent>>

LokiJoins(u) ==
  /\ related /\ ~dying /\ "created" \notin hooks /\ failing = None
  /\ u \notin present
  /\ present' = present \union {u} /\ toLoki' = toLoki \union {u}
  /\ hooks' = hooks \union {"changed"}
  /\ UNCHANGED <<relation, leaving, offered, published, failing, up, promtail, spent>>

\* Scale-down of Loki, not of its leader.
LokiLeaves(u) ==
  /\ u \in present \ leaving /\ u # Leader /\ ~dying
  /\ Spend("departures")
  /\ leaving' = leaving \union {u} /\ toLoki' = toLoki \ {u}
  /\ UNCHANGED <<relation, present, offered, published, hooks, failing, up, promtail>>

Remove ==
  /\ related /\ ~dying /\ "created" \notin hooks
  /\ Spend("removals")
  /\ dying' = TRUE /\ leaving' = present /\ toLoki' = {} /\ hooks' = hooks \ {"changed"}
  /\ UNCHANGED <<related, present, offered, published, failing, up, promtail>>

\* relation-broken, which the charm does not handle.
RelationBroken ==
  /\ dying /\ present = {} /\ failing = None
  /\ related' = FALSE /\ dying' = FALSE /\ offered' = FALSE
  /\ UNCHANGED <<present, leaving, toLoki, published, hooks, failing, up, promtail, spent>>

\* What is in the container is lost.
ContainerStops ==
  /\ up /\ Spend("restarts")
  /\ up' = FALSE
  /\ installed' = FALSE /\ planned' = FALSE /\ config' = None /\ running' = None
  /\ UNCHANGED <<relation, present, leaving, loki, hooks, failing, cached>>

ContainerStarts ==
  /\ ~up
  /\ up' = TRUE /\ hooks' = hooks \union {"pebble_ready"}
  /\ UNCHANGED <<relation, present, leaving, loki, failing, promtail, spent>>

----------------------------------------------------------------------------
(* Specification *)

Next ==
  \/ Created \/ Changed \/ PebbleReady
  \/ \E u \in Lokis :
       Departed(u) \/ DepartedFails(u) \/ LokiChanged(u) \/ LokiJoins(u) \/ LokiLeaves(u)
  \/ Relate \/ Remove \/ RelationBroken \/ ContainerStops \/ ContainerStarts

Spec == Init /\ [][Next]_vars

Hooks ==
  \/ Created \/ Changed \/ PebbleReady \/ RelationBroken \/ ContainerStarts
  \/ \E u \in Lokis : Departed(u) \/ LokiChanged(u)

\* Hooks are delivered, and a container that stopped is started again.
Fairness == WF_vars(Hooks)

FairSpec == Spec /\ Fairness

----------------------------------------------------------------------------
(* Properties *)

\* promtail runs with the configuration in its file, which names units of Loki that are there:
\* every way to write the file ends in a restart or a stop, and without the relation, or a unit
\* of Loki in it, no restart of the container starts it (loki_push_api.py:1829-1901).
RunsAsConfigured == running # None => running = config /\ running # {} /\ running \subseteq present

\* Logs are shipped to every unit of Loki that has published an endpoint, whatever came first:
\* the relation, the URL, an endpoint or the container (loki_push_api.py:1829-1879).  Not if
\* the download fails and nothing happens after it, nor if relation-departed came before
\* promtail was set up (loki_push_api.py:1898).
LogsShipped ==
  related /\ ~dying /\ Clients # {} /\ offered /\ failing = None /\ spent["downloads"] = 0 =>
    running = Clients
=============================================================================
