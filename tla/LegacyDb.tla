------------------------------ MODULE LegacyDb ------------------------------
(***************************************************************************)
(* The legacy relations `db` and `db-admin` (relations/db.py): the leader  *)
(* alone handles relation-joined, waits until every other unit has routed  *)
(* the database, writes the credentials in its own databag and in that of  *)
(* the application, and then creates the user.  What the other handlers do *)
(* depends on the databag of the unit that runs them, which is empty on    *)
(* every unit but those that have led.                                     *)
(*                                                                         *)
(* A hook is one step, and so is the handling of a deferred event; an      *)
(* event that is deferred without an effect stays where it is.             *)
(* Simplifications:                                                        *)
(*  - a relation has one remote unit, whose database is known when it      *)
(*    joins, and requests no extensions;                                   *)
(*  - a relation is removed only once its credentials are published;       *)
(*  - two dictionaries of databases with the same entries have the same    *)
(*    hash: the order of the entries would only delay the leader;          *)
(*  - the two relation names differ in the wildcard entry and the role of  *)
(*    the user alone, so that a client stands for a relation of either;    *)
(*  - the containers run.                                                  *)
(***************************************************************************)
EXTENDS Naturals

CONSTANTS
  Units,    \* units of the pgbouncer application
  Clients,  \* relations of the names db and db-admin
  Budgets,  \* the disturbances together stay within one of these budgets
  None      \* no credentials

Disturbances ==
  {"overlaps", "removals", "elections", "leaves", "failures", "refusals", "outages",
   "renders"}

ASSUME LegacyAssumption ==
  /\ Budgets \subseteq [Disturbances -> Nat]
  /\ None \notin Nat

VARIABLES
  leader,
  led,        \* units that lead or have led
  members,    \* units in the peer relation
  flagged,    \* flagged[u]: relations u leaves, by its departing flags
  related,    \* clients related now
  bag,        \* bag[u][c]: the password in the databag of u in the relation of c
  appbag,     \* appbag[c]: the password in the databag of the application
  connected,  \* relations with the connection string and host in the databag
  users,      \* users[c]: the password of the user of c in PostgreSQL
  passwords,  \* passwords generated so far
  dbs,        \* pgb_dbs_config
  acks,       \* acks[u]: what pgb_dbs in the peer databag of u is the hash of
  rendered,   \* rendered[u]: databases in the pgbouncer.ini of u
  pending,    \* pending[u]: events of the relations still to be handled by u
  peers,      \* units with a peer-relation-changed to come
  reachable,  \* check_backend succeeds
  spent       \* disturbances so far

units == <<leader, led, members, flagged>>
databags == <<bag, appbag, connected>>
backend == <<users, passwords, reachable>>
routes == <<dbs, acks, rendered, peers>>
vars == <<units, related, databags, backend, routes, pending, spent>>

\* A relation-broken that was deferred is late: the relation is gone when it is tried again.
Events == {"joined", "changed", "departed", "broken", "late"} \X Clients
Password == Nat \union {None}

\* Connection details are published with credentials.
TypeOK ==
  /\ leader \in members \intersect led /\ members \subseteq Units /\ led \subseteq Units
  /\ flagged \in [Units -> SUBSET Clients] /\ related \subseteq Clients
  /\ bag \in [Units -> [Clients -> Password]] /\ appbag \in [Clients -> Password]
  /\ connected \subseteq {c \in Clients : appbag[c] # None}
  /\ users \in [Clients -> Password] /\ passwords \in Nat /\ reachable \in BOOLEAN
  /\ dbs \subseteq Clients
  /\ acks \in [Units -> SUBSET Clients] /\ rendered \in [Units -> SUBSET Clients]
  /\ peers \subseteq Units
  /\ pending \in [Units -> SUBSET Events]
  /\ spent \in [Disturbances -> Nat]

Init ==
  /\ leader \in Units /\ led = {leader} /\ members = Units
  /\ flagged = [u \in Units |-> {}] /\ related = {}
  /\ bag = [u \in Units |-> [c \in Clients |-> None]]
  /\ appbag = [c \in Clients |-> None] /\ connected = {}
  /\ users = [c \in Clients |-> None] /\ passwords = 0 /\ reachable = TRUE
  /\ dbs = {} /\ peers = {}
  /\ acks = [u \in Units |-> {}] /\ rendered = [u \in Units |-> {}]
  /\ pending = [u \in Units |-> {}]
  /\ spent = [d \in Disturbances |-> 0]

Spend(d) ==
  /\ spent' = [spent EXCEPT ![d] = @ + 1]
  /\ \E budget \in Budgets : \A x \in Disturbances : spent'[x] <= budget[x]

----------------------------------------------------------------------------
(* relation-joined *)

Done(u, e, c) == pending' = [pending EXCEPT ![u] = @ \ {<<e, c>>}]

\* set_relation_databases
SetDatabases(u, ds) ==
  /\ dbs' = ds
  /\ peers' = IF ds = dbs THEN peers ELSE peers \union (members \ {u})

\* generate_relation_databases knows a relation by the databag of the leader.
Generated(u) == {c \in related : bag[u][c] # None}

\* Mutant: a unit that has routed something will do.
SyncedOnce(u, ds) == \A v \in members \ {u} : acks[v] # {}

\* "We skip the leader so we don't have to wait on the defer".
Synced(u, ds) == \A v \in members \ {u} : acks[v] = ds

\* The password in the databag, or a new one.
NextPassword(u, c) == IF bag[u][c] = None THEN passwords + 1 ELSE bag[u][c]

JoinedIgnored(u, c) ==
  /\ <<"joined", c>> \in pending[u] /\ u # leader
  /\ Done(u, "joined", c)
  /\ UNCHANGED <<units, related, databags, backend, routes, spent>>

Joining(u, c) == <<"joined", c>> \in pending[u] /\ u = leader /\ reachable

\* Mutant: the event is not deferred.
JoinedDropped(u, c) ==
  LET ds == Generated(u) \union {c}
  IN  /\ Joining(u, c) /\ ~Synced(u, ds)
      /\ SetDatabases(u, ds)
      /\ Done(u, "joined", c)
      /\ UNCHANGED <<units, related, databags, backend, acks, rendered, spent>>

JoinedWaits(u, c) ==
  LET ds == Generated(u) \union {c}
  IN  /\ Joining(u, c) /\ ~Synced(u, ds)
      /\ SetDatabases(u, ds)
      /\ UNCHANGED <<units, related, databags, backend, acks, rendered, pending, spent>>

Publishes(u, c) ==
  LET ds == Generated(u) \union {c}
  IN  /\ Joining(u, c) /\ Synced(u, ds)
      /\ SetDatabases(u, ds)
      /\ bag' = [bag EXCEPT ![u][c] = NextPassword(u, c)]
      /\ appbag' = [appbag EXCEPT ![c] = NextPassword(u, c)]
      /\ passwords' = passwords + 1
      /\ Done(u, "joined", c)
      /\ UNCHANGED <<units, related, connected, reachable, acks, rendered>>

\* Mutant: create_user leaves a user that exists as it is.
JoinedCreatesOnce(u, c) ==
  /\ Publishes(u, c)
  /\ users' = [users EXCEPT ![c] = IF @ = None THEN NextPassword(u, c) ELSE @]
  /\ UNCHANGED spent

JoinedCreates(u, c) ==
  /\ Publishes(u, c)
  /\ users' = [users EXCEPT ![c] = NextPassword(u, c)]
  /\ UNCHANGED spent

\* The database or the user is refused: the databags are written by then, a user created before
\* its database stays, and the unit is blocked.
JoinedFails(u, c) ==
  /\ Publishes(u, c)
  /\ Spend("refusals")
  /\ users' \in {users, [users EXCEPT ![c] = NextPassword(u, c)]}

\* The auth function raises: Juju forgets what the hook wrote and runs it again.
JoinedRaises(u, c) ==
  /\ Joining(u, c) /\ Synced(u, Generated(u) \union {c})
  /\ Spend("failures")
  /\ users' = [users EXCEPT ![c] = NextPassword(u, c)] /\ passwords' = passwords + 1
  /\ UNCHANGED <<units, related, databags, reachable, routes, pending>>

----------------------------------------------------------------------------
(* The other hooks *)

\* The databags of a relation can be read until its broken has been delivered.
Readable(u, c) == <<"broken", c>> \in pending[u] \/ (c \in related /\ c \notin flagged[u])

\* Mutant: the databag of the unit is not looked at.
ChangedUnchecked(u, c) ==
  /\ <<"changed", c>> \in pending[u] /\ reachable
  /\ rendered' = [rendered EXCEPT ![u] = dbs]
  /\ connected' = IF u = leader THEN connected \union {c} ELSE connected
  /\ appbag' = IF u = leader THEN [appbag EXCEPT ![c] = bag[u][c]] ELSE appbag
  /\ Done(u, "changed", c)
  /\ UNCHANGED <<units, related, bag, backend, dbs, acks, peers, spent>>

Changed(u, c) ==
  /\ <<"changed", c>> \in pending[u] /\ reachable /\ Readable(u, c) /\ bag[u][c] # None
  /\ rendered' = [rendered EXCEPT ![u] = dbs]
  /\ connected' = IF u = leader THEN connected \union {c} ELSE connected
  /\ appbag' = IF u = leader THEN [appbag EXCEPT ![c] = bag[u][c]] ELSE appbag
  /\ Done(u, "changed", c)
  /\ UNCHANGED <<units, related, bag, backend, dbs, acks, peers, spent>>

\* update_client_connection_info, by update-status among others.
UpdateStatus(u) ==
  /\ u = leader
  /\ connected' = connected \union Generated(u)
  /\ UNCHANGED <<units, related, bag, appbag, backend, routes, pending, spent>>

\* Mutant: the flag of another relation name.
DepartedUnflagged(u, c) ==
  /\ <<"departed", c>> \in pending[u]
  /\ Done(u, "departed", c)
  /\ UNCHANGED <<units, related, databags, backend, routes, spent>>

\* The unit that leaves is this one.
Departed(u, c) ==
  /\ <<"departed", c>> \in pending[u]
  /\ flagged' = [flagged EXCEPT ![u] = @ \union {c}]
  /\ Done(u, "departed", c)
  /\ UNCHANGED <<leader, led, members, related, databags, backend, routes, spent>>

Breaking(u, c) == <<"broken", c>> \in pending[u] /\ <<"departed", c>> \notin pending[u]

BrokenIgnored(u, c) ==
  /\ Breaking(u, c) /\ c \in flagged[u]
  /\ Done(u, "broken", c)
  /\ UNCHANGED <<units, related, databags, backend, routes, spent>>

\* Mutant: the entry of the relation stays.
BrokenKeepsEntry(u, c) ==
  /\ Breaking(u, c) /\ c \notin flagged[u] /\ reachable /\ bag[u][c] # None /\ u = leader
  /\ users' = [users EXCEPT ![c] = None]
  /\ Done(u, "broken", c)
  /\ UNCHANGED <<units, related, databags, passwords, reachable, routes, spent>>

\* Without a backend, or without credentials in the databag of the unit, the event is
\* deferred: for ever, as the databag of a relation that is gone is empty.
BrokenLate(u, c) ==
  /\ Breaking(u, c) /\ c \notin flagged[u] /\ (~reachable \/ bag[u][c] = None)
  /\ pending' = [pending EXCEPT ![u] = (@ \ {<<"broken", c>>}) \union {<<"late", c>>}]
  /\ UNCHANGED <<units, related, databags, backend, routes, spent>>

\* A unit that has credentials and does not lead fails, and tries again, as it writes the
\* application's databag.
Broken(u, c) ==
  /\ Breaking(u, c) /\ c \notin flagged[u] /\ reachable /\ bag[u][c] # None /\ u = leader
  /\ SetDatabases(u, dbs \ {c})
  /\ users' = [users EXCEPT ![c] = None]
  /\ Done(u, "broken", c)
  /\ UNCHANGED <<units, related, databags, passwords, reachable, acks, rendered, spent>>

PeersChanged(u) ==
  /\ u \in peers
  /\ rendered' = [rendered EXCEPT ![u] = dbs] /\ acks' = [acks EXCEPT ![u] = dbs]
  /\ peers' = (peers \ {u}) \union (IF acks[u] = dbs THEN {} ELSE members \ {u})
  /\ UNCHANGED <<units, related, databags, backend, dbs, pending, spent>>

\* config-changed, endpoints-changed and others render without an acknowledgement.
Renders(u) ==
  /\ u \in members
  /\ Spend("renders")
  /\ rendered' = [rendered EXCEPT ![u] = dbs]
  /\ UNCHANGED <<units, related, databags, backend, dbs, acks, peers, pending>>

----------------------------------------------------------------------------
(* PostgreSQL and Juju *)

Queued(us, es) == [u \in Units |-> IF u \in us THEN pending[u] \union es ELSE pending[u]]

Relate(c) ==
  /\ c \notin related /\ appbag[c] = None
  /\ IF related = {} THEN UNCHANGED spent ELSE Spend("overlaps")
  /\ related' = related \union {c}
  /\ pending' = Queued(members, {<<"joined", c>>, <<"changed", c>>})
  /\ UNCHANGED <<units, databags, backend, routes>>

\* What was deferred stays deferred.
Remove(c) ==
  /\ c \in related /\ appbag[c] # None
  /\ \A u \in members : <<"joined", c>> \notin pending[u]
  /\ Spend("removals")
  /\ related' = related \ {c}
  /\ pending' = Queued(members, {<<"broken", c>>})
  /\ UNCHANGED <<units, databags, backend, routes>>

Leave(u) ==
  /\ u \in members /\ members # {u} /\ flagged[u] = {} /\ related # {}
  /\ Spend("leaves")
  /\ pending' = Queued({u}, {"departed", "broken"} \X related)
  /\ UNCHANGED <<units, related, databags, backend, routes>>

\* Another unit leads when the leader has left.
Gone(u) ==
  /\ u \in members /\ flagged[u] # {}
  /\ \A c \in Clients : {<<"departed", c>>, <<"broken", c>>} \intersect pending[u] = {}
  /\ members' = members \ {u}
  /\ leader' \in IF leader = u THEN members \ {u} ELSE {leader}
  /\ led' = led \union {leader'}
  /\ pending' = [pending EXCEPT ![u] = {}] /\ peers' = peers \ {u}
  /\ UNCHANGED <<flagged, related, databags, backend, dbs, acks, rendered, spent>>

Elect(u) ==
  /\ u \in members \ {leader}
  /\ Spend("elections")
  /\ leader' = u /\ led' = led \union {u}
  /\ UNCHANGED <<members, flagged, related, databags, backend, routes, pending>>

Outage ==
  /\ reachable /\ Spend("outages")
  /\ reachable' = FALSE
  /\ UNCHANGED <<units, related, databags, users, passwords, routes, pending>>

Recover ==
  /\ ~reachable
  /\ reachable' = TRUE
  /\ UNCHANGED <<units, related, databags, users, passwords, routes, pending, spent>>

----------------------------------------------------------------------------
(* Specification *)

Hooks(u, c) ==
  \/ JoinedIgnored(u, c) \/ JoinedWaits(u, c)
  \/ JoinedCreates(u, c) \/ JoinedFails(u, c) \/ JoinedRaises(u, c)
  \/ Changed(u, c) \/ Departed(u, c) \/ BrokenIgnored(u, c)
  \/ BrokenLate(u, c) \/ Broken(u, c)
Environment ==
  \/ Outage \/ Recover
  \/ \E c \in Clients : Relate(c) \/ Remove(c)
  \/ \E u \in Units : Leave(u) \/ Gone(u) \/ Elect(u) \/ Renders(u)

Next ==
  \/ Environment
  \/ \E u \in Units : UpdateStatus(u) \/ PeersChanged(u) \/ \E c \in Clients : Hooks(u, c)

Spec == Init /\ [][Next]_vars

\* Events are delivered; PostgreSQL comes back.  Every hook of the leader tries all the
\* events it has deferred, so that none for which the others are ready is passed over for
\* ever in favour of one that sets other databases.
Fairness ==
  /\ \A u \in Units :
       /\ WF_vars(PeersChanged(u)) /\ WF_vars(UpdateStatus(u)) /\ WF_vars(Gone(u))
       /\ \A c \in Clients :
            /\ WF_vars(JoinedIgnored(u, c)) /\ WF_vars(JoinedWaits(u, c))
            /\ SF_vars(JoinedCreates(u, c)) /\ WF_vars(Changed(u, c)) /\ WF_vars(Departed(u, c))
            /\ WF_vars(BrokenIgnored(u, c)) /\ WF_vars(BrokenLate(u, c)) /\ WF_vars(Broken(u, c))
  /\ WF_vars(Recover)

FairSpec == Spec /\ Fairness

----------------------------------------------------------------------------
(* Properties *)

\* Whoever reads credentials in the databag of the application is let in by every unit but
\* the leader: the others have acknowledged the databases with this one among them, and
\* no later joined takes it away (db.py:242-260).  A unit that rendered in between, or a
\* new leader, which generates the databases without its predecessors' relations, may.
PublishedIsRouted ==
  led = {leader} /\ spent["renders"] = 0 =>
    \A c \in related, u \in members \ {leader} : appbag[c] # None => c \in rendered[u]

\* A leader that leads again publishes what its own databag has, and a new leader that fails
\* after it has created the user leaves the password of the one before.
LeadersApart == led = {leader} \/ spent["elections"] + spent["failures"] = 0

\* The password in the databag is the one in PostgreSQL, however often the hook failed after it
\* had created the user (db.py:262-304), unless PostgreSQL refused a user, whose password is
\* published then all the same.
PasswordWorks ==
  LeadersApart /\ spent["refusals"] = 0 =>
    \A c \in related : appbag[c] # None => users[c] \in {appbag[c], None}

\* A unit that is scaled down deletes no user of a relation that goes on (db.py:422-427
\* and 456-457).
LiveUserKept == [][\A c \in related : users[c] # None => users'[c] # None]_vars

\* While the leader stays, every related client has its user, its credentials and its
\* connection details in the end, unless PostgreSQL refused it.
LegacyServed ==
  <>[](led = {leader} /\ spent["refusals"] = 0 =>
         \A c \in related : c \in connected /\ users[c] # None)

\* While the leader stays, the user and the routes of a relation that was removed are gone
\* in the end, unless the backend was away when the leader handled relation-broken, which is
\* deferred for ever then (db.py:456-483).
LegacyRemoved ==
  <>[](led = {leader} =>
         \A c \in Clients \ related :
           \/ <<"late", c>> \in pending[leader] /\ spent["outages"] > 0
           \/ users[c] = None /\ c \notin dbs /\ \A u \in members \ {leader} : c \notin rendered[u])
=============================================================================
