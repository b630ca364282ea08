----------------------------- MODULE UnitStatus -----------------------------
(***************************************************************************)
(* The status of the unit: which handlers set it, which of them look at    *)
(* what it was, and when it is set again after its cause is gone.  From    *)
(* update_status and check_pgb_running of charm.py, check_backend of       *)
(* backend_database.py, the extensions of the legacy relations (db.py) and *)
(* the requests of clients that PostgreSQL refuses                         *)
(* (pgbouncer_provider.py).                                                *)
(*                                                                         *)
(* Simplifications:                                                        *)
(*  - the application has one unit, which leads;                           *)
(*  - the backend is ready or it is not, and the hooks of its relation end *)
(*    as update-status does, without being told apart from it;             *)
(*  - the extension is enabled or not; clients ask for it or for none.     *)
(***************************************************************************)
EXTENDS Naturals

CONSTANTS
  Relations,  \* of the legacy interfaces
  Budgets     \* the disturbances together stay within one of these budgets

Disturbances == {"outages", "stops", "misconfigurations", "enablings", "removals", "roles", "errors"}

VARIABLES
  status,   \* of the unit, and what it says
  backend,  \* the backend is ready
  valid,    \* so is the configuration of the charm
  running,  \* pgbouncer runs
  enabled,  \* PostgreSQL has the extension
  asks,     \* relations of which the client asks for the extension
  state,    \* state[r] of relation r
  pending,  \* pending[r]: its hooks to come, those put off included
  refused,  \* a client asks for roles that there are not
  spent     \* disturbances so far

world == <<backend, valid, running, enabled>>
relations == <<asks, state, pending, refused>>
vars == <<status, world, relations, spent>>

\* Statuses that update_status leaves alone.
Sticky == {"extensions", "role"}

TypeOK ==
  /\ status \in {"active", "waiting_for_backend", "no_backend", "configuration", "not_running",
                 "failed"} \union Sticky
  /\ backend \in BOOLEAN /\ valid \in BOOLEAN /\ running \in BOOLEAN /\ enabled \in BOOLEAN
  /\ asks \subseteq Relations
  /\ state \in [Relations -> {"none", "related", "served", "gone"}]
  /\ pending \in [Relations -> SUBSET {"joined", "changed", "broken"}]
  /\ refused \in {"none", "asked", "refused"}
  /\ spent \in [Disturbances -> Nat]

Init ==
  /\ status = "no_backend" /\ backend = FALSE /\ valid = TRUE /\ running = TRUE
  /\ enabled = FALSE /\ asks \in SUBSET Relations
  /\ state = [r \in Relations |-> "none"] /\ pending = [r \in Relations |-> {}]
  /\ refused = "none"
  /\ spent = [d \in Disturbances |-> 0]

Spend(d) ==
  /\ spent' = [spent EXCEPT ![d] = @ + 1]
  /\ \E budget \in Budgets : \A x \in Disturbances : spent'[x] <= budget[x]

----------------------------------------------------------------------------

\* check_pgb_running
Checked(s) == IF running \/ s = "extensions" THEN s ELSE "not_running"

\* update_status
Updated(s) ==
  CASE s \in Sticky -> s
    [] s \notin Sticky /\ ~valid -> "configuration"
    [] s \notin Sticky /\ valid /\ ~backend -> "no_backend"
    [] s \notin Sticky /\ valid /\ backend -> IF running THEN "active" ELSE Checked(s)

\* is_postgresql_plugin_enabled: no extension is enabled in a backend it cannot reach.
PluginEnabled == enabled /\ backend

\* _check_extensions
Extensions(r) == r \in asks => PluginEnabled

\* _block_on_extensions
Blocked(r) == ~Extensions(r) /\ status' = "extensions"

\* Mutant: the relation that is removed is looked at too.
BlockingAny(r) == {x \in Relations : state[x] \notin {"none", "gone"} /\ ~Extensions(x)}

Blocking(r) == {x \in Relations \ {r} : state[x] \notin {"none", "gone"} /\ ~Extensions(x)}

\* _check_for_blocking_relations
Unblocked(r, s) == IF s = "extensions" /\ Blocking(r) = {} THEN "active" ELSE s

Done(r, hook) == pending' = [pending EXCEPT ![r] = @ \ {hook}]

\* check_backend fails, and the event is put off.
Waits == status' = "waiting_for_backend" /\ UNCHANGED pending

\* The request is blocked for its extension, or granted, or PostgreSQL fails.
Joined(r) ==
  /\ "joined" \in pending[r] /\ state[r] = "related"
  /\ IF ~backend THEN Waits /\ UNCHANGED <<state, spent>>
     ELSE /\ Done(r, "joined")
          /\ \/ Blocked(r) /\ UNCHANGED <<state, spent>>
             \/ /\ Extensions(r) /\ UNCHANGED spent
                /\ state' = [state EXCEPT ![r] = "served"] /\ status' = Updated(status)
             \/ /\ Extensions(r) /\ Spend("errors")
                /\ status' = "failed" /\ UNCHANGED state
  /\ UNCHANGED <<world, asks, refused>>

\* Put off until the relation has been served.
Changed(r) ==
  /\ "changed" \in pending[r] /\ state[r] # "gone"
  /\ IF ~backend THEN Waits
     ELSE IF state[r] = "related" THEN UNCHANGED <<status, pending>>
     ELSE /\ Done(r, "changed")
          /\ status' = IF valid THEN Checked(status) ELSE "configuration"
  /\ UNCHANGED <<world, asks, state, refused, spent>>

\* Put off for ever if the relation was not served, as it is gone then: unless its extension is
\* not enabled.
Broken(r) ==
  /\ "broken" \in pending[r]
  /\ LET s == IF backend THEN status ELSE "waiting_for_backend"
         done == state[r] # "gone" /\ ((backend /\ state[r] = "served") \/ ~Extensions(r))
     IN IF done THEN Done(r, "broken") /\ status' = Unblocked(r, s) ELSE UNCHANGED pending /\ status' = s
  /\ state' = [state EXCEPT ![r] = "gone"]
  /\ UNCHANGED <<world, asks, refused, spent>>

UpdateStatus ==
  /\ status' = Updated(status)
  /\ UNCHANGED <<world, relations, spent>>

\* A database-requested with roles that there are not; it is put off without a backend.
DatabaseRequested ==
  /\ refused = "asked"
  /\ IF ~backend THEN status' = "waiting_for_backend" /\ UNCHANGED refused
     ELSE status' = "role" /\ refused' = "refused"
  /\ UNCHANGED <<world, asks, state, pending, spent>>

----------------------------------------------------------------------------
(* Clients, Juju, PostgreSQL and Kubernetes *)

Relate(r) ==
  /\ state[r] = "none"
  /\ state' = [state EXCEPT ![r] = "related"]
  /\ pending' = [pending EXCEPT ![r] = {"joined", "changed"}]
  /\ UNCHANGED <<status, world, asks, refused, spent>>

\* relation-broken is the last hook of a relation.
Remove(r) ==
  /\ state[r] \in {"related", "served"} /\ "broken" \notin pending[r]
  /\ Spend("removals")
  /\ pending' = [pending EXCEPT ![r] = (@ \ {"joined"}) \union {"broken"}]
  /\ UNCHANGED <<status, world, asks, state, refused>>

AskForRole ==
  /\ refused = "none"
  /\ Spend("roles")
  /\ refused' = "asked"
  /\ UNCHANGED <<status, world, asks, state, pending>>

BackendReady == ~backend /\ backend' = TRUE /\ UNCHANGED <<status, valid, running, enabled, relations, spent>>

Outage ==
  /\ backend /\ Spend("outages")
  /\ backend' = FALSE
  /\ UNCHANGED <<status, valid, running, enabled, relations>>

\* config-changed follows, and ends as update-status does.
Repair == ~valid /\ valid' = TRUE /\ UNCHANGED <<status, backend, running, enabled, relations, spent>>

Misconfigure ==
  /\ valid /\ Spend("misconfigurations")
  /\ valid' = FALSE
  /\ UNCHANGED <<status, backend, running, enabled, relations>>

\* pebble-ready follows.
Start == ~running /\ running' = TRUE /\ UNCHANGED <<status, backend, valid, enabled, relations, spent>>

Stop ==
  /\ running /\ Spend("stops")
  /\ running' = FALSE
  /\ UNCHANGED <<status, backend, valid, enabled, relations>>

\* "Please enable extensions through `juju config` and add the relation again."
Enable ==
  /\ ~enabled /\ Spend("enablings")
  /\ enabled' = TRUE
  /\ UNCHANGED <<status, backend, valid, running, relations>>

Next ==
  \/ UpdateStatus \/ DatabaseRequested
  \/ \E r \in Relations : Joined(r) \/ Changed(r) \/ Broken(r) \/ Relate(r) \/ Remove(r)
  \/ AskForRole \/ BackendReady \/ Outage \/ Repair \/ Misconfigure \/ Start \/ Stop \/ Enable

Spec == Init /\ [][Next]_vars

\* Juju delivers relation-broken, whatever other hooks recur.
Fairness == \A r \in Relations : WF_vars(Broken(r))

----------------------------------------------------------------------------
(* Properties *)

\* A block on extensions ends with its cause, although each of several relations may be the
\* cause and other handlers set the status meanwhile (db.py:182-198, 457-493).  If the
\* extension has been enabled before the relation was removed, as the message of the block
\* advises, relation-broken is put off and the block stays for ever.
BlockCleared ==
  status = "extensions" /\ spent["enablings"] = 0 => \E r \in asks : state[r] # "gone"
=============================================================================
