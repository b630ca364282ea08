-------------------------- MODULE BackendLifecycle --------------------------
(***************************************************************************)
(* The relation to PostgreSQL, from the credentials that PostgreSQL shares *)
(* to its removal: relations/backend_database.py, the requirer side of     *)
(* data_interfaces.py that turns relation-changed into database-created,   *)
(* and render_auth_file of charm.py.                                       *)
(*                                                                         *)
(* The leader creates the auth user with a fresh password, installs the    *)
(* auth function and puts the userlist with the password in a secret of    *)
(* the application; every unit copies the secret to a file of its          *)
(* container.  pgbouncer asks PostgreSQL for the passwords of clients as   *)
(* that user, so a unit whose file differs lets nobody in.                 *)
(*                                                                         *)
(* A hook is one step, and so is the handling of a deferred event.         *)
(* Simplifications:                                                        *)
(*  - there is one backend relation at a time, and a new one only after    *)
(*    every unit has handled the end of the one before;                    *)
(*  - the passwords of the monitoring and admin users stay what they are,  *)
(*    the userlist is told by the password of the auth user;               *)
(*  - relation-departed never names a unit of this application other than  *)
(*    the one that runs the hook (Juju does so in peer relations only), so *)
(*    that the removal of the auth user in that handler is out of reach;   *)
(*  - hooks that need pebble and find no container are retried: they wait. *)
(***************************************************************************)
EXTENDS Naturals

CONSTANTS
  Units,      \* units of the pgbouncer application
  Relations,  \* how many backend relations there are, one after the other
  Budgets,    \* the disturbances together stay within one of these budgets
  None        \* no password

Disturbances == {"removals", "elections", "leaves", "restarts", "failures", "outages"}

ASSUME BackendAssumption ==
  /\ Relations \in Nat
  /\ Budgets \subseteq [Disturbances -> Nat]
  /\ None \notin Nat

VARIABLES
  leader,
  members,    \* units in the peer relation
  flagged,    \* units whose databag says that they leave the backend relation
  relation,   \* the backend relation: 1, 2, ..., or 0 while there is none
  count,      \* backend relations so far
  shared,     \* PostgreSQL has shared credentials, so that `postgres` is not None
  reachable,  \* PostgreSQL answers
  authUser,   \* authUser[r]: the password of the auth user of relation r in PostgreSQL
  passwords,  \* passwords generated so far
  secret,     \* the userlist in the secret, as the password in it
  file,       \* file[u]: the userlist in the container
  rendered,   \* rendered[u]: the relation for which pgbouncer.ini was rendered
  exporter,   \* units whose metrics exporter is enabled
  up,         \* units whose container runs
  pending,    \* pending[u]: events Juju or the framework has still to deliver to u
  spent       \* disturbances so far

units == <<leader, members, flagged>>
backend == <<relation, count, shared, reachable>>
keys == <<authUser, passwords, secret>>
workload == <<file, rendered, exporter>>
vars == <<units, backend, keys, workload, up, pending, spent>>

\* changed is the relation-changed in which a unit sees the credentials first; created
\* is a database-created that was deferred.
Events == {"changed", "created", "departed", "broken", "pebble_ready", "peers_changed"}
Password == Nat \union {None}

TypeOK ==
  /\ leader \in members /\ members \subseteq Units /\ flagged \subseteq Units
  /\ relation \in 0 .. Relations /\ count \in 0 .. Relations
  /\ shared \in BOOLEAN /\ reachable \in BOOLEAN
  /\ authUser \in [1 .. Relations -> Password] /\ passwords \in Nat
  /\ secret \in Password
  /\ file \in [Units -> Password] /\ rendered \in [Units -> 0 .. Relations]
  /\ exporter \subseteq up /\ up \subseteq Units
  /\ pending \in [Units -> SUBSET Events]
  /\ spent \in [Disturbances -> Nat]

Init ==
  /\ leader \in Units /\ members = Units /\ flagged = {}
  /\ relation = 0 /\ count = 0 /\ shared = FALSE /\ reachable = TRUE
  /\ authUser = [r \in 1 .. Relations |-> None] /\ passwords = 0 /\ secret = None
  /\ file = [u \in Units |-> None] /\ rendered = [u \in Units |-> 0] /\ exporter = {}
  /\ up = Units
  /\ pending = [u \in Units |-> {}]
  /\ spent = [d \in Disturbances |-> 0]

Spend(d) ==
  /\ spent' = [spent EXCEPT ![d] = @ + 1]
  /\ \E budget \in Budgets : \A x \in Disturbances : spent'[x] <= budget[x]

----------------------------------------------------------------------------
(* Helpers *)

\* The property `postgres` is not None.
Postgres == relation # 0 /\ shared

\* The property `ready`.
Ready == Postgres /\ secret # None /\ reachable

\* render_pgb_config on the units us, of which those without a container get nothing.
Rendered(us) ==
  [u \in Units |-> IF u \in us \intersect up THEN IF Postgres THEN relation ELSE 0
                   ELSE rendered[u]]

\* toggle_monitoring_layer
Toggled(u, enabled) == IF enabled THEN exporter \union {u} ELSE exporter \ {u}

\* u is done with the events in gone and puts off those in kept.
Handled(u, gone, kept) == [pending EXCEPT ![u] = (@ \ gone) \union kept]
Told(p, u) == [v \in Units |-> IF v \in members \ {u} THEN p[v] \union {"peers_changed"} ELSE p[v]]

----------------------------------------------------------------------------
(* database-created, in the relation-changed hook or deferred *)

Creating(u, e) == e \in {"changed", "created"} \intersect pending[u]

\* A hook handles what was deferred before its own event.
Both(e) == {e, "created"}

\* In the hook, _on_relation_changed follows and renders.
AlsoRendered(u, e) == IF e = "changed" THEN Rendered({u}) ELSE rendered

\* No pgbouncer, no credentials, or no hash of a password without PostgreSQL.
LeaderAwaits(u) ==
  /\ "changed" \in pending[u] /\ u = leader
  /\ u \notin up \/ ~Postgres \/ ~reachable
  /\ pending' = Handled(u, {"changed"}, {"created"})
  /\ rendered' = Rendered({u})
  /\ UNCHANGED <<units, backend, keys, file, exporter, up, spent>>

Initialising(u, e) == Creating(u, e) /\ u = leader /\ u \in up /\ Postgres /\ reachable

NewAuthUser ==
  /\ passwords' = passwords + 1
  /\ authUser' = [authUser EXCEPT ![relation] = passwords']

LeaderInitialises(u, e) ==
  /\ Initialising(u, e)
  /\ NewAuthUser
  /\ secret' = passwords'
  /\ file' = [file EXCEPT ![u] = secret']
  /\ rendered' = Rendered({u})
  /\ exporter' = Toggled(u, TRUE)
  /\ pending' = Told(Handled(u, Both(e), {}), u)
  /\ UNCHANGED <<units, backend, up, spent>>

\* Mutant: the failure is logged, and that is all.
AuthFunctionForgotten(u, e) ==
  /\ Initialising(u, e)
  /\ Spend("failures")
  /\ NewAuthUser
  /\ pending' = Handled(u, Both(e), {})
  /\ rendered' = AlsoRendered(u, e)
  /\ UNCHANGED <<units, backend, secret, file, exporter, up>>

\* initialise_auth_function fails: the user has its new password all the same.
AuthFunctionFails(u, e) ==
  /\ Initialising(u, e)
  /\ Spend("failures")
  /\ NewAuthUser
  /\ pending' = Handled(u, Both(e), {"created"})
  /\ rendered' = AlsoRendered(u, e)
  /\ UNCHANGED <<units, backend, secret, file, exporter, up>>

\* "Pebble ready will set the config".
FollowerDrops(u, e) ==
  /\ Creating(u, e) /\ u # leader /\ u \notin up
  /\ pending' = Handled(u, Both(e), {})
  /\ UNCHANGED <<units, backend, keys, workload, up, spent>>

\* Mutant: a follower without the secret forgets the event.
FollowerAwaitsNothing(u) ==
  /\ "changed" \in pending[u] /\ u # leader /\ u \in up /\ secret = None
  /\ pending' = Handled(u, {"changed"}, {})
  /\ rendered' = Rendered({u})
  /\ UNCHANGED <<units, backend, keys, file, exporter, up, spent>>

FollowerAwaits(u) ==
  /\ "changed" \in pending[u] /\ u # leader /\ u \in up /\ secret = None
  /\ pending' = Handled(u, {"changed"}, {"created"})
  /\ rendered' = Rendered({u})
  /\ UNCHANGED <<units, backend, keys, file, exporter, up, spent>>

FollowerCopies(u, e) ==
  /\ Creating(u, e) /\ u # leader /\ u \in up /\ secret # None
  /\ file' = [file EXCEPT ![u] = secret]
  /\ rendered' = Rendered({u})
  /\ exporter' = Toggled(u, TRUE)
  /\ pending' = Handled(u, Both(e), {})
  /\ UNCHANGED <<units, backend, keys, up, spent>>

----------------------------------------------------------------------------
(* The other hooks *)

\* Mutant: the flag is not set.
DepartedUnflagged(u) ==
  /\ "departed" \in pending[u]
  /\ rendered' = Rendered({u})
  /\ pending' = Handled(u, {"departed"}, {})
  /\ UNCHANGED <<units, backend, keys, file, exporter, up, spent>>

\* A unit that is scaled down is the departing unit in its own hook.
Departed(u) ==
  /\ "departed" \in pending[u]
  /\ flagged' = flagged \union {u}
  /\ rendered' = Rendered({u})
  /\ pending' = Handled(u, {"departed"}, {})
  /\ UNCHANGED <<leader, members, backend, keys, file, exporter, up, spent>>

\* A deferred event that can be handled comes first, any other one is put off again.
Breaking(u) ==
  /\ "broken" \in pending[u] /\ "departed" \notin pending[u]
  /\ \A e \in {"changed", "created"} :
       Creating(u, e) => IF u = leader THEN ~Initialising(u, e) ELSE secret = None

BrokenIgnored(u) ==
  /\ Breaking(u) /\ u \in flagged
  /\ pending' = Handled(u, {"broken"}, {})
  /\ UNCHANGED <<units, backend, keys, workload, up, spent>>

\* Mutant: the secret stays.
BrokenKeepsSecret(u) ==
  /\ Breaking(u) /\ u \notin flagged /\ u \in up
  /\ exporter' = Toggled(u, FALSE)
  /\ file' = [file EXCEPT ![u] = None]
  /\ rendered' = [rendered EXCEPT ![u] = 0]
  /\ pending' = Handled(u, {"broken"}, {})
  /\ UNCHANGED <<units, backend, keys, up, spent>>

Broken(u) ==
  /\ Breaking(u) /\ u \notin flagged /\ u \in up
  /\ exporter' = Toggled(u, FALSE)
  /\ file' = [file EXCEPT ![u] = None]
  /\ secret' = IF u = leader THEN None ELSE secret
  /\ rendered' = [rendered EXCEPT ![u] = 0]
  /\ pending' = IF secret' # secret THEN Told(Handled(u, {"broken"}, {}), u)
                ELSE Handled(u, {"broken"}, {})
  /\ UNCHANGED <<units, backend, authUser, passwords, up, spent>>

\* A new userlist_nonce, so a new file.  The exporter needs a password of its own, which is
\* generated before the first auth user and kept.
PebbleReady(u) ==
  /\ "pebble_ready" \in pending[u]
  /\ up' = up \union {u}
  /\ file' = [file EXCEPT ![u] = secret]
  /\ rendered' = [rendered EXCEPT ![u] = IF Postgres THEN relation ELSE 0]
  /\ exporter' = Toggled(u, Postgres /\ passwords # 0)
  /\ pending' = Told(Handled(u, {"pebble_ready"}, {}), u)
  /\ UNCHANGED <<units, backend, keys, spent>>

\* Mutant: peers-changed does not wait for the container.
PeersChangedAnyway(u) ==
  /\ "peers_changed" \in pending[u]
  /\ rendered' = Rendered({u})
  /\ exporter' = Toggled(u, Ready)
  /\ pending' = Handled(u, {"peers_changed"}, {})
  /\ UNCHANGED <<units, backend, keys, file, up, spent>>

\* peers-changed and secret-changed render the configuration, not the file.
PeersChanged(u) ==
  /\ "peers_changed" \in pending[u] /\ u \in up
  /\ rendered' = Rendered({u})
  /\ exporter' = Toggled(u, Ready)
  /\ pending' = Handled(u, {"peers_changed"}, {})
  /\ UNCHANGED <<units, backend, keys, file, up, spent>>

----------------------------------------------------------------------------
(* PostgreSQL, Juju, Kubernetes *)

Queued(us, es) == [u \in Units |-> IF u \in us THEN pending[u] \union es ELSE pending[u]]

Relate ==
  /\ relation = 0 /\ count < Relations
  /\ \A u \in members : "broken" \notin pending[u]
  /\ relation' = count + 1 /\ count' = count + 1
  /\ UNCHANGED <<units, shared, reachable, keys, workload, up, pending, spent>>

ShareCredentials ==
  /\ relation # 0 /\ ~shared
  /\ shared' = TRUE
  /\ pending' = Queued(members, {"changed"})
  /\ UNCHANGED <<units, relation, count, reachable, keys, workload, up, spent>>

\* What was not delivered yet of a relation that ends is not delivered any more.
RemoveBackend ==
  /\ relation # 0
  /\ Spend("removals")
  /\ relation' = 0 /\ shared' = FALSE
  /\ pending' = [u \in Units |-> IF u \in members THEN (pending[u] \ {"changed"}) \union {"broken"}
                                 ELSE pending[u]]
  /\ UNCHANGED <<units, count, reachable, keys, workload, up>>

Leave(u) ==
  /\ relation # 0 /\ members # {u} /\ u \in members
  /\ Spend("leaves")
  /\ pending' = Queued({u}, {"departed", "broken"})
  /\ UNCHANGED <<units, backend, keys, workload, up>>

\* Another unit leads when the leader has left.
Gone(u) ==
  /\ u \in flagged /\ "broken" \notin pending[u] /\ u \in members
  /\ members' = members \ {u}
  /\ leader' \in IF leader = u THEN members \ {u} ELSE {leader}
  /\ file' = [file EXCEPT ![u] = None] /\ rendered' = [rendered EXCEPT ![u] = 0]
  /\ exporter' = exporter \ {u} /\ up' = up \ {u}
  /\ pending' = [pending EXCEPT ![u] = {}]
  /\ UNCHANGED <<flagged, backend, keys, spent>>

Elect(u) ==
  /\ u \in members \ {leader}
  /\ Spend("elections")
  /\ leader' = u
  /\ UNCHANGED <<members, flagged, backend, keys, workload, up, pending>>

ContainerRestart(u) ==
  /\ u \in members \intersect up
  /\ Spend("restarts")
  /\ up' = up \ {u}
  /\ file' = [file EXCEPT ![u] = None] /\ rendered' = [rendered EXCEPT ![u] = 0]
  /\ exporter' = exporter \ {u}
  /\ pending' = Queued({u}, {"pebble_ready"})
  /\ UNCHANGED <<units, backend, keys>>

Outage ==
  /\ reachable /\ Spend("outages")
  /\ reachable' = FALSE
  /\ UNCHANGED <<units, relation, count, shared, keys, workload, up, pending>>

Recover ==
  /\ ~reachable
  /\ reachable' = TRUE
  /\ UNCHANGED <<units, relation, count, shared, keys, workload, up, pending, spent>>

----------------------------------------------------------------------------
(* Specification *)

CreatedHooks(u) ==
  \/ LeaderAwaits(u) \/ FollowerAwaits(u)
  \/ \E e \in {"changed", "created"} :
       \/ LeaderInitialises(u, e) \/ AuthFunctionFails(u, e)
       \/ FollowerDrops(u, e) \/ FollowerCopies(u, e)

OtherHooks(u) ==
  Departed(u) \/ BrokenIgnored(u) \/ Broken(u) \/ PebbleReady(u) \/ PeersChanged(u)

Environment ==
  \/ Relate \/ ShareCredentials \/ RemoveBackend \/ Outage \/ Recover
  \/ \E u \in Units : Leave(u) \/ Gone(u) \/ Elect(u) \/ ContainerRestart(u)

Next == Environment \/ \E u \in Units : CreatedHooks(u) \/ OtherHooks(u)

Spec == Init /\ [][Next]_vars

\* Events are delivered and deferred ones tried again; PostgreSQL comes back.
Fairness ==
  /\ \A u \in Units :
       /\ WF_vars(LeaderAwaits(u) \/ FollowerAwaits(u))
       /\ \A e \in {"changed", "created"} :
            WF_vars(LeaderInitialises(u, e) \/ FollowerDrops(u, e) \/ FollowerCopies(u, e))
       /\ WF_vars(Departed(u)) /\ WF_vars(BrokenIgnored(u) \/ Broken(u)) /\ WF_vars(Gone(u))
       /\ WF_vars(PebbleReady(u)) /\ WF_vars(PeersChanged(u))
  /\ WF_vars(Recover)

FairSpec == Spec /\ Fairness

----------------------------------------------------------------------------
(* Properties *)

\* A unit whose auth function failed takes the deferred event with it when it leaves, and a
\* leader that leaves while the backend is removed leaves the secret for the next backend.
LeavesApart == spent["leaves"] = 0 \/ spent["failures"] + spent["removals"] = 0

\* So it is with elections: a former leader handles the deferred event as a follower, which
\* copies the secret there is, and a follower that has done so may lead next.
LeaderStays == spent["elections"] + spent["leaves"] = 0
NothingFails == spent["failures"] + spent["removals"] = 0

\* The userlist in the secret has the password that the auth user of the backend has,
\* or a database-created that will set both is still to come: with a leader that stays through
\* failures of the auth function, removals and new relations, and else through elections and
\* scale-down (backend_database.py:349-386).
UserlistMatches ==
  /\ secret # None /\ Postgres /\ authUser[relation] # secret
  /\ LeaderStays \/ NothingFails
  => \E u \in members : {"changed", "created"} \intersect pending[u] # {}

\* Only the removal of the relation removes the secret: scale-down does not, of the
\* leader neither (the departing flag, backend_database.py:422-429 and 462-467).
SecretKept == [][secret # None /\ secret' = None => relation = 0]_vars

\* When every unit has handled the end of the relation no trace of it is left: neither
\* the secret nor a file, a route or an exporter (backend_database.py:457-480), unless
\* a leader or a container changed meanwhile or the unit was leaving anyway.
TracesRemoved ==
  /\ relation = 0 /\ \A u \in members : "broken" \notin pending[u]
  /\ spent["elections"] + spent["restarts"] + spent["leaves"] = 0
  => secret = None /\ \A u \in members : file[u] = None /\ rendered[u] = 0 /\ u \notin exporter

\* A database-created that was deferred when the backend went away is handled for the next
\* one, and then the hook of the next one sets another password.
RemovalsApart == spent["removals"] = 0 \/ spent["failures"] + spent["outages"] = 0

\* Every unit gets the userlist of the backend it has and a configuration for it, for
\* good: after outages and failures, when units leave and when the backend is removed and
\* another one related.  The exporter stays disabled if peers-changed met an outage.
AllConfigured ==
  <>[](/\ Postgres /\ LeavesApart /\ RemovalsApart
       /\ spent["elections"] + spent["restarts"] = 0
       => \A u \in members :
            /\ file[u] = authUser[relation] /\ rendered[u] = relation
            /\ u \in exporter \/ spent["outages"] > 0)
=============================================================================
