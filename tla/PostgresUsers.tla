--------------------------- MODULE PostgresUsers ---------------------------
(***************************************************************************)
(* What the leader does in PostgreSQL for client relations, one statement  *)
(* or transaction after the other: create_user, create_database and        *)
(* delete_user of postgresql.py and the auth function, as                  *)
(* _on_database_requested and _on_relation_broken of pgbouncer_provider.py *)
(* call them, while clients with credentials create tables.                *)
(*                                                                         *)
(* Simplifications:                                                        *)
(*  - one leader, which handles one hook after the other; that all units   *)
(*    have the configuration, and which of them handles what, is the       *)
(*    matter of ClientRelations;                                           *)
(*  - a client creates one table, in its database, and has one schema.     *)
(***************************************************************************)
EXTENDS Naturals, FiniteSets

CONSTANTS
  Relations,
  Admins,     \* the relations with the extra user role admin
  Databases,
  DbOf,       \* DbOf[r]: the database that relation r requests
  Postgres,   \* the database there always is
  Admin,      \* the user of the charm, a superuser
  None,
  Budgets     \* the disturbances together stay within one of these budgets

Disturbances == {"errors", "crashes", "removals"}

VARIABLES
  status,     \* status[r] of relation r for its client
  published,  \* relations with the name of the database in the databag of the charm
  hook,       \* the hook that the leader runs or has to retry
  roles,      \* relations whose user exists
  databases,  \* that exist
  connecting, \* relations whose user may connect to their database
  creating,   \* relations whose user may create tables there
  owner,      \* owner[t]: of the table that the client of relation t created
  rights,     \* <<r, t>>: the user of r has privileges on that table
  auth,       \* auth[d]: the owner of the auth function in database d
  late,       \* tables created after the relation was removed
  reach,      \* reach[r]: tables there were when r got its privileges, and its own: for the
              \* properties
  spent       \* disturbances so far

access == <<connecting, creating, rights>>
catalog == <<roles, databases, access, owner, auth>>
client == <<status, published, reach>>
vars == <<client, hook, catalog, late, spent>>

Steps == {"user", "database", "connect", "privileges", "remove", "initialise", "publish",
          "orphan", "list", "reassign", "drop", "role", "end"}

Running(r, step) == hook # None /\ hook.relation = r /\ hook.step = step

\* A hook for a relation, at one of its steps.
Hook == [relation : Relations, step : Steps, left : SUBSET Databases, database : Databases,
         owned : SUBSET Relations]

\* Finitely many relations request databases, and no value is mistaken for none.
Parameters ==
  /\ IsFiniteSet(Relations) /\ DbOf \in [Relations -> Databases] /\ Postgres \in Databases
  /\ None \notin Relations \union {Admin} \union Hook

TypeOK ==
  /\ status \in [Relations -> {"none", "requested", "granted", "refused", "dying", "gone"}]
  /\ published \subseteq Relations /\ roles \subseteq Relations /\ databases \subseteq Databases
  /\ connecting \subseteq roles /\ creating \subseteq roles
  /\ hook \in Hook \union {None}
  /\ owner \in [Relations -> roles \union {Admin, None}]
  /\ rights \subseteq roles \X Relations
  /\ auth \in [Databases -> roles \union {Admin, None}]
  /\ late \subseteq Relations /\ reach \in [Relations -> SUBSET Relations]
  /\ spent \in [Disturbances -> Nat]

Init ==
  /\ status = [r \in Relations |-> "none"] /\ published = {} /\ hook = None
  /\ roles = {} /\ databases = {Postgres}
  /\ connecting = {} /\ creating = {} /\ rights = {}
  /\ owner = [r \in Relations |-> None] /\ auth = [d \in Databases |-> None]
  /\ late = {} /\ reach = [r \in Relations |-> {}]
  /\ spent = [d \in Disturbances |-> 0]

Spend(d) ==
  /\ spent' = [spent EXCEPT ![d] = @ + 1]
  /\ \E budget \in Budgets : \A x \in Disturbances : spent'[x] <= budget[x]

\* The tables in database d.
Tables(d) == {t \in Relations : DbOf[t] = d /\ owner[t] # None}

Go(step) == hook' = [hook EXCEPT !.step = step]

----------------------------------------------------------------------------
(* _on_database_requested *)

StartRequest(r) ==
  /\ hook = None /\ status[r] = "requested"
  /\ hook' = [relation |-> r, step |-> "user", left |-> {}, database |-> Postgres,
              owned |-> {}]
  /\ UNCHANGED <<client, catalog, late, spent>>

\* A psycopg2.Error blocks the unit: the request is over.
Refuse(r) ==
  /\ hook' = None
  /\ status' = [status EXCEPT ![r] = "refused"]
  /\ UNCHANGED <<published, reach, catalog, late>>

\* create_user: an existing role is altered, which has no form that adds it to another.
CreateUser(r) ==
  /\ Running(r, "user")
  /\ IF r \in roles /\ r \in Admins THEN Refuse(r)
     ELSE /\ roles' = roles \union {r} /\ Go("database")
          /\ UNCHANGED <<client, databases, access, owner, auth, late>>
  /\ UNCHANGED spent

CreateDatabase(r) ==
  /\ Running(r, "database")
  /\ databases' = databases \union {DbOf[r]} /\ Go("connect")
  /\ UNCHANGED <<client, roles, access, owner, auth, late, spent>>

GrantConnect(r) ==
  /\ Running(r, "connect")
  /\ connecting' = connecting \union {r} /\ Go("privileges")
  /\ UNCHANGED <<client, roles, databases, creating, rights, owner, auth, late, spent>>

\* relations_accessing_this_database: each databag with the name of the database counts.
Accessing(d) ==
  LET rs == {r \in Relations : DbOf[r] = d /\ status[r] \notin {"none", "gone"}}
  IN Cardinality(rs) + Cardinality(rs \intersect published)

\* Mutant: the user always becomes the owner.
OwnsAlways(r) == TRUE

Owns(r) == Accessing(DbOf[r]) = 1

\* _generate_database_privileges_statements: all tables and functions get the user for an owner,
\* or the user gets privileges on all tables.
GrantPrivileges(r) ==
  /\ Running(r, "privileges")
  /\ creating' = creating \union {r}
  /\ IF Owns(r)
     THEN /\ owner' = [t \in Relations |-> IF t \in Tables(DbOf[r]) THEN r ELSE owner[t]]
          /\ auth' = IF auth[DbOf[r]] = None THEN auth ELSE [auth EXCEPT ![DbOf[r]] = r]
          /\ UNCHANGED rights
     ELSE /\ rights' = rights \union {<<r, t>> : t \in Tables(DbOf[r])}
          /\ UNCHANGED <<owner, auth>>
  /\ reach' = [reach EXCEPT ![r] = Tables(DbOf[r])]
  /\ Go("remove")
  /\ UNCHANGED <<status, published, roles, databases, connecting, late, spent>>

\* Mutant: the auth function is not dropped first.
RemoveNoAuthFunction(r) ==
  /\ Running(r, "remove") /\ Go("initialise")
  /\ UNCHANGED <<client, catalog, late, spent>>

RemoveAuthFunction(r) ==
  /\ Running(r, "remove")
  /\ auth' = [auth EXCEPT ![DbOf[r]] = None] /\ Go("initialise")
  /\ UNCHANGED <<client, roles, databases, access, owner, late, spent>>

\* CREATE OR REPLACE FUNCTION keeps the owner that there is.
InitialiseAuthFunction(r) ==
  /\ Running(r, "initialise")
  /\ auth' = [auth EXCEPT ![DbOf[r]] = IF @ = None THEN Admin ELSE @] /\ Go("publish")
  /\ UNCHANGED <<client, roles, databases, access, owner, late, spent>>

\* set_credentials and set_database, and the end of the hook.
Publish(r) ==
  /\ Running(r, "publish")
  /\ hook' = None
  /\ status' = [status EXCEPT ![r] = "granted"]
  /\ published' = published \union {r}
  /\ UNCHANGED <<reach, catalog, late, spent>>

RequestFails(r) ==
  /\ \E step \in {"user", "database", "connect", "privileges"} : Running(r, step)
  /\ Spend("errors")
  /\ Refuse(r)

----------------------------------------------------------------------------
(* _on_relation_broken *)

StartBroken(r) ==
  /\ hook = None /\ status[r] = "dying"
  /\ hook' = [relation |-> r, step |-> "orphan", left |-> {}, database |-> Postgres,
              owned |-> {}]
  /\ UNCHANGED <<client, catalog, late, spent>>

\* The auth function of a database that nobody else uses: which has to exist.
RemoveOrphaned(r) ==
  /\ Running(r, "orphan") /\ Go("list")
  /\ IF \E x \in Relations \ {r} : DbOf[x] = DbOf[r] /\ status[x] \notin {"none", "gone"}
     THEN UNCHANGED auth
     ELSE DbOf[r] \in databases /\ auth' = [auth EXCEPT ![DbOf[r]] = None]
  /\ UNCHANGED <<client, roles, databases, access, owner, late, spent>>

\* Mutant: it is not checked whether the user exists.
ListUsersNot(r) ==
  /\ Running(r, "list") /\ hook' = [hook EXCEPT !.step = "reassign", !.left = databases]
  /\ UNCHANGED <<client, catalog, late, spent>>

\* "First of all, check whether the user exists."
ListUsers(r) ==
  /\ Running(r, "list")
  /\ hook' = IF r \in roles THEN [hook EXCEPT !.step = "reassign", !.left = databases]
             ELSE [hook EXCEPT !.step = "end"]
  /\ UNCHANGED <<client, catalog, late, spent>>

\* Mutant: what the user owns is not reassigned.
OwnedNot(r, d) == {}

Owned(r, d) == {t \in Tables(d) : owner[t] = r}

\* REASSIGN OWNED in the next database, in a transaction that DROP OWNED ends.
Reassign(r, d) ==
  /\ Running(r, "reassign") /\ r \in roles /\ d \in hook.left
  /\ hook' = [hook EXCEPT !.step = "drop", !.left = @ \ {d}, !.database = d, !.owned = Owned(r, d)]
  /\ UNCHANGED <<client, catalog, late, spent>>

\* DROP OWNED, and with it all privileges in this database and on databases; tables that were
\* created after the statement before are not spared.
DropOwned(r) ==
  /\ Running(r, "drop")
  /\ LET d == hook.database
     IN /\ owner' = [t \in Relations |->
                       IF t \in hook.owned THEN Admin
                       ELSE IF t \in Tables(d) /\ owner[t] = r THEN None ELSE owner[t]]
        /\ rights' = {p \in rights : ~(p[1] = r /\ DbOf[p[2]] = d) /\ owner'[p[2]] # None}
        /\ creating' = IF d = DbOf[r] THEN creating \ {r} ELSE creating
        /\ auth' = [auth EXCEPT ![d] = IF @ = r THEN Admin ELSE @]
  /\ connecting' = connecting \ {r}
  /\ hook' = [hook EXCEPT !.step = IF hook.left = {} THEN "role" ELSE "reassign", !.owned = {}]
  /\ UNCHANGED <<client, roles, databases, late, spent>>

\* DROP ROLE, which is refused as long as there is something left.
DropRole(r) ==
  /\ Running(r, "role") /\ r \in roles
  /\ \A t \in Relations : owner[t] # r
  /\ roles' = roles \ {r} /\ Go("end")
  /\ UNCHANGED <<client, databases, access, owner, auth, late, spent>>

End(r) ==
  /\ Running(r, "end")
  /\ hook' = None
  /\ status' = [status EXCEPT ![r] = "gone"]
  /\ UNCHANGED <<published, reach, catalog, late, spent>>

----------------------------------------------------------------------------
(* Hooks that fail *)

First == IF status[hook.relation] = "dying" THEN "orphan" ELSE "user"

Retried == hook' = [relation |-> hook.relation, step |-> First, left |-> {}, database |-> Postgres,
                    owned |-> {}]

\* The agent of the unit, or its connection to PostgreSQL, breaks off: the hook is run again.
Crash ==
  /\ hook # None /\ hook.step # First
  /\ Spend("crashes")
  /\ Retried
  /\ UNCHANGED <<client, catalog, late>>

\* DROP ROLE fails: the hook is run again.
DropRoleFails(r) ==
  /\ Running(r, "role") /\ \E t \in Relations : owner[t] = r
  /\ Retried
  /\ UNCHANGED <<client, catalog, late, spent>>

----------------------------------------------------------------------------
(* Clients *)

Request(r) ==
  /\ status[r] = "none"
  /\ status' = [status EXCEPT ![r] = "requested"]
  /\ UNCHANGED <<published, reach, hook, catalog, late, spent>>

\* Also with a connection from before the relation was removed.
CreateTable(r) ==
  /\ r \in published \intersect creating /\ owner[r] = None /\ r \notin late \union reach[r]
  /\ owner' = [owner EXCEPT ![r] = r]
  /\ reach' = [reach EXCEPT ![r] = @ \union {r}]
  /\ late' = IF status[r] = "dying" THEN late \union {r} ELSE late
  /\ UNCHANGED <<status, published, hook, roles, databases, access, auth, spent>>

\* Juju delivers no relation-changed after that; a hook that fails is run again first.
Remove(r) ==
  /\ status[r] \in {"requested", "granted", "refused"}
  /\ hook # None => hook.relation # r
  /\ Spend("removals")
  /\ status' = [status EXCEPT ![r] = "dying"]
  /\ UNCHANGED <<published, reach, hook, catalog, late>>

----------------------------------------------------------------------------
(* Specification *)

Statement(r) ==
  \/ CreateUser(r) \/ CreateDatabase(r) \/ GrantConnect(r) \/ GrantPrivileges(r)
  \/ RemoveAuthFunction(r) \/ InitialiseAuthFunction(r) \/ Publish(r)
  \/ RemoveOrphaned(r) \/ ListUsers(r) \/ DropOwned(r) \/ DropRole(r) \/ DropRoleFails(r) \/ End(r)
  \/ \E d \in Databases : Reassign(r, d)

Next ==
  \/ Crash
  \/ \E r \in Relations :
       \/ StartRequest(r) \/ StartBroken(r) \/ Statement(r) \/ RequestFails(r)
       \/ Request(r) \/ CreateTable(r) \/ Remove(r)

Spec == Init /\ [][Next]_vars

Hooks == \E r \in Relations : StartRequest(r) \/ StartBroken(r) \/ Statement(r)

\* The leader runs its hooks to the end, and Juju delivers the next one.
Fairness == WF_vars(Hooks)

FairSpec == Spec /\ Fairness

----------------------------------------------------------------------------
(* Properties *)

\* The removal of a user loses no table, whoever owns it, and however often it is retried.  A
\* table that the client of the removed relation creates between REASSIGN OWNED and DROP OWNED
\* is lost (postgresql.py:343-378).
NoTableLost == [][\A t \in Relations \ late : owner[t] # None => owner'[t] # None]_vars

\* A client keeps what it can reach when it gets its privileges, the tables of others in the
\* same database included, and what it creates: while others come and go, and although tables
\* change their owner (postgresql.py:214-271, 343-378, 476-540).
AccessKept ==
  \A r \in Relations : status[r] = "granted" =>
    /\ r \in connecting \intersect creating
    /\ \A t \in reach[r] \ late : owner[t] = r \/ <<r, t>> \in rights

\* The auth function that a client logs in by is a superuser's, or it could not read passwords,
\* although a request takes over all functions in the database: unless another request for the
\* same database is being handled, or was refused when it was retried after it had removed the
\* function (postgresql.py:481-497, pgbouncer_provider.py:181-196, backend_database.py:482-531).
LoginsWork ==
  \A r \in Relations : status[r] = "granted" =>
    \/ auth[DbOf[r]] = Admin
    \/ hook # None /\ DbOf[hook.relation] = DbOf[r]
    \/ /\ spent["crashes"] > 0
       /\ \E x \in Relations \ published : DbOf[x] = DbOf[r] /\ status[x] # "none"

\* Requests are granted and users of removed relations dropped, whatever is retried.  An error
\* in create_user or create_database ends a request, and a retried hook cannot alter the role
\* of an admin; the removal of a request that was refused before it had a database fails for
\* ever, and all that comes after it waits (postgresql.py:317-334, pgbouncer_provider.py:184-196,
\* 234-240).
Stuck == hook # None /\ hook.step = "orphan" /\ DbOf[hook.relation] \notin databases

UsersSettle ==
  spent["errors"] = 0 /\ ~Stuck => \A r \in Relations :
    /\ status[r] \notin {"requested", "dying"}
    /\ status[r] = "gone" => r \notin roles
    /\ status[r] = "refused" => r \in Admins /\ spent["crashes"] > 0
=============================================================================
