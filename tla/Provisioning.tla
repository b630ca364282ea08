---------------------------- MODULE Provisioning ----------------------------
(***************************************************************************)
(* What the charm promises the client of a database relation, without      *)
(* hooks, databags, hashes and leaders.  A relation is requested, admitted *)
(* to the configuration, served, and ended.  A user is created when all    *)
(* units but one route its database, credentials are given when all do,    *)
(* what was admitted or served stays so until the client ends it, and no   *)
(* unit that writes its routes leaves such a relation out.                 *)
(***************************************************************************)
CONSTANTS
  Units,       \* units that may route
  Relations    \* relations of clients

VARIABLES
  phase,     \* phase[r]: how far the relation is
  running,   \* units that run and are to stay
  routes,    \* routes[u]: relations whose database u routes
  users      \* relations that have a user in PostgreSQL

vars == <<phase, running, routes, users>>

Phases == {"unknown", "requested", "admitted", "served", "ended"}

TypeOK ==
  /\ phase \in [Relations -> Phases]
  /\ running \subseteq Units
  /\ routes \in [Units -> SUBSET Relations]
  /\ users \subseteq Relations

Init ==
  /\ phase = [r \in Relations |-> "unknown"]
  /\ running = {}
  /\ routes = [u \in Units |-> {}]
  /\ users = {}

Known == {r \in Relations : phase[r] # "unknown"}
Living == {r \in Known : phase[r] # "ended"}
Admitted == {r \in Living : phase[r] # "requested"}

RoutedBy(us) == {r \in Relations : \A u \in us : r \in routes[u]}

\* A client relates.
Request(r) ==
  /\ phase[r] = "unknown"
  /\ phase' = [phase EXCEPT ![r] = "requested"]
  /\ UNCHANGED <<running, routes, users>>

\* A client ends the relation.
End(r) ==
  /\ r \in Living
  /\ phase' = [phase EXCEPT ![r] = "ended"]
  /\ UNCHANGED <<running, routes, users>>

\* The application tells its units and clients, in one transaction.
Announce ==
  /\ phase' \in [Relations -> Phases]
  /\ \A r \in Relations : phase'[r] # phase[r] =>
       \/ phase[r] = "requested" /\ phase'[r] = "admitted"
       \/ /\ phase[r] \in {"requested", "admitted"} /\ phase'[r] = "served"
          /\ r \in users \cap RoutedBy(running)
  /\ UNCHANGED <<running, routes, users>>

\* u writes its routes: all that is admitted, and nothing that nobody has asked for.
Routed(u) ==
  \E rels \in SUBSET Known :
    Admitted \subseteq rels /\ routes' = [routes EXCEPT ![u] = rels]

Route(u) ==
  /\ running' = running \union {u}
  /\ Routed(u)
  /\ UNCHANGED <<phase, users>>

\* u stops, or is about to be removed.
Stop(u) ==
  /\ running' = running \ {u}
  /\ routes' = [routes EXCEPT ![u] = {}]
  /\ UNCHANGED <<phase, users>>

\* u creates the user of r, for which all other units are prepared; for a relation that
\* has just ended it may come too late to ask them.
CreateUser(u, r) ==
  /\ r \in Known
  /\ r \in Living => r \in RoutedBy(running \ {u})
  /\ users' = users \union {r}
  /\ UNCHANGED routes \/ (u \in running /\ Routed(u))
  /\ UNCHANGED <<phase, running>>

DropUser(r) ==
  /\ phase[r] = "ended"
  /\ users' = users \ {r}
  /\ UNCHANGED <<phase, running, routes>>

Next ==
  \/ Announce
  \/ \E r \in Relations : Request(r) \/ End(r) \/ DropUser(r)
  \/ \E u \in Units : Route(u) \/ Stop(u) \/ \E r \in Relations : CreateUser(u, r)

Spec == Init /\ [][Next]_vars

\* Who is served has a user and is routed by every unit that runs.
ServedWork ==
  \A r \in Relations : phase[r] = "served" => r \in users \cap RoutedBy(running)
=============================================================================
