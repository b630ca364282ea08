--------------------------- MODULE DatabaseRoutes ---------------------------
(***************************************************************************)
(* Which databases pgbouncer.ini has entries for, and through which        *)
(* database logins are checked: the databases of the relations, the        *)
(* wildcard of the admins, and the read-only entries of the databases that *)
(* only PostgreSQL knows of (_collect_readonly_dbs, _get_readonly_dbs and  *)
(* _get_relation_config of charm.py).                                      *)
(*                                                                         *)
(* ClientRelations has the requests in detail; here a hook is one step,    *)
(* clients ask one after the other, and every container and PostgreSQL are *)
(* there.  A request waits on the unit that has put it off, and one that   *)
(* was refused is not removed.                                             *)
(***************************************************************************)
EXTENDS Naturals

CONSTANTS
  Units,
  Relations,  \* of clients
  Admins,     \* the relations whose client asks for an admin role
  Names,      \* of databases, without postgres and pgbouncer
  DbOf,       \* DbOf[r]: the database relation r asks for
  None,       \* no wildcard
  Budgets     \* the disturbances together stay within one of these budgets

Disturbances == {"elections", "removals", "refusals", "creations", "drops", "replicas"}

VARIABLES
  leader,
  state,     \* state[r] of relation r
  heard,     \* heard[r]: the unit that has put off its request
  config,    \* pgb_dbs_config: relations with an entry, and auth_dbname of the wildcard
  readonly,  \* readonly_dbs
  datname,   \* databases of PostgreSQL
  auth,      \* those of them with the auth function
  replicas,  \* the backend has read-only endpoints
  pending,   \* units that have a hook to come in which they render
  ini,       \* ini[u]: the entries of pgbouncer.ini on u
  spent      \* disturbances so far

postgres == <<datname, auth, replicas>>
vars == <<leader, state, heard, config, readonly, postgres, pending, ini, spent>>

\* Relations request databases with a name, and of those that do one has the highest id.
Parameters ==
  /\ DbOf \in [Relations -> Names]
  /\ \A rs \in (SUBSET Relations) \ {{}} : \E r \in rs : \A x \in rs : x <= r

Configs == [relations : SUBSET Relations, wildcard : Names \union {None}]

TypeOK ==
  /\ leader \in Units
  /\ state \in [Relations -> {"none", "asked", "granted", "refused", "gone"}]
  /\ heard \in [Relations -> Units]
  /\ config \in Configs
  /\ readonly \subseteq Names /\ datname \subseteq Names /\ auth \subseteq datname
  /\ replicas \in BOOLEAN
  /\ pending \subseteq Units
  /\ ini \in [Units -> [names : SUBSET Names, wildcard : Names \union {None},
                        readonly : SUBSET Names]]
  /\ spent \in [Disturbances -> Nat]

Init ==
  /\ leader \in Units
  /\ state = [r \in Relations |-> "none"] /\ heard = [r \in Relations |-> leader]
  /\ config = [relations |-> {}, wildcard |-> None] /\ readonly = {}
  /\ datname = {} /\ auth = {} /\ replicas = TRUE
  /\ pending = {}
  /\ ini = [u \in Units |-> [names |-> {}, wildcard |-> None, readonly |-> {}]]
  /\ spent = [d \in Disturbances |-> 0]

Spend(d) ==
  /\ spent' = [spent EXCEPT ![d] = @ + 1]
  /\ \E budget \in Budgets : \A x \in Disturbances : spent'[x] <= budget[x]

----------------------------------------------------------------------------

Named(relations) == {DbOf[r] : r \in relations}

\* _get_readonly_dbs: "*" reads them, so there are none without a wildcard.
ReadonlyEntries == IF config.wildcard # None /\ replicas THEN readonly ELSE {}

\* render_pgb_config
Rendered ==
  [names |-> Named(config.relations), wildcard |-> config.wildcard, readonly |-> ReadonlyEntries]

\* Mutant: all databases are collected.
CollectedAll == datname

\* _collect_readonly_dbs
Collected == datname \ Named(config.relations)

\* Mutant: the peers are not told of databases to read only.
TellsRequests ==
  pending' = IF config' # config THEN pending \union (Units \ {leader}) ELSE pending

\* The peers of the leader see the databag change.
Tells ==
  pending' = IF <<config', readonly'>> # <<config, readonly>>
             THEN pending \union (Units \ {leader}) ELSE pending

Scanned == {r \in Relations : state[r] \notin {"none", "gone"}}

\* The loop variable that is left by the scan, in the order of relation ids.
LastScanned == DbOf[CHOOSE r \in Scanned : \A x \in Scanned : x <= r]

\* generate_relation_databases, and the entry of the request.
Requested(r) ==
  [relations |-> Scanned,
   wildcard |-> IF r \in Admins THEN DbOf[r]
                ELSE IF Scanned \intersect Admins # {} THEN LastScanned ELSE None]

\* Credentials are given once the peers have rendered; then the leader renders as well.
DatabaseRequested(r) ==
  /\ state[r] = "asked" /\ heard[r] = leader
  /\ config' = Requested(r) /\ UNCHANGED <<leader, heard, readonly, replicas>> /\ Tells
  /\ \/ pending' \ {leader} # {} /\ UNCHANGED <<state, datname, auth, ini, spent>>
     \/ /\ pending' \ {leader} = {}
        /\ state' = [state EXCEPT ![r] = "granted"]
        /\ datname' = datname \union {DbOf[r]} /\ auth' = auth \union {DbOf[r]}
        /\ ini' = [ini EXCEPT ![leader] = Rendered']
        /\ UNCHANGED spent
     \/ /\ pending' \ {leader} = {} /\ Spend("refusals")
        /\ state' = [state EXCEPT ![r] = "refused"]
        /\ UNCHANGED <<datname, auth, ini>>

\* Mutant: the auth function goes with any relation on the database.
BrokenUnshared(r) ==
  /\ state[r] = "granted" /\ Spend("removals")
  /\ state' = [state EXCEPT ![r] = "gone"]
  /\ config' = [config EXCEPT !.relations = @ \ {r}]
  /\ UNCHANGED readonly /\ Tells
  /\ auth' = auth \ {DbOf[r]}
  /\ UNCHANGED <<leader, heard, datname, replicas, ini>>

\* relation-broken on the leader, which renders nothing: the wildcard stays, whoever it was
\* for, and logins through it are checked in the same database.
Broken(r) ==
  /\ state[r] = "granted" /\ Spend("removals")
  /\ state' = [state EXCEPT ![r] = "gone"]
  /\ config' = [config EXCEPT !.relations = @ \ {r}]
  /\ UNCHANGED readonly /\ Tells
  /\ auth' = IF DbOf[r] \in Named(config'.relations) THEN auth ELSE auth \ {DbOf[r]}
  /\ UNCHANGED <<leader, heard, datname, replicas, ini>>

\* The leader alone collects, and renders nothing.
UpdateStatus ==
  /\ readonly' = Collected /\ UNCHANGED config /\ Tells
  /\ UNCHANGED <<leader, state, heard, postgres, ini, spent>>

\* peers-changed, or a change of the backend's endpoints.
Renders(u) ==
  /\ u \in pending
  /\ pending' = pending \ {u}
  /\ ini' = [ini EXCEPT ![u] = Rendered]
  /\ UNCHANGED <<leader, state, heard, config, readonly, postgres, spent>>

----------------------------------------------------------------------------
(* Clients, PostgreSQL and Juju *)

Relate(r) ==
  /\ state[r] = "none" /\ \A x \in Relations : state[x] # "asked"
  /\ state' = [state EXCEPT ![r] = "asked"] /\ heard' = [heard EXCEPT ![r] = leader]
  /\ UNCHANGED <<leader, config, readonly, postgres, pending, ini, spent>>

\* An admin creates a database, or drops one that nobody has requested.
CreateDatabase(n) ==
  /\ n \notin datname /\ Spend("creations")
  /\ datname' = datname \union {n}
  /\ UNCHANGED <<leader, state, heard, config, readonly, auth, replicas, pending, ini>>

DropDatabase(n) ==
  /\ n \in datname \ Named(config.relations) /\ Spend("drops")
  /\ datname' = datname \ {n} /\ auth' = auth \ {n}
  /\ UNCHANGED <<leader, state, heard, config, readonly, replicas, pending, ini>>

Scale ==
  /\ Spend("replicas")
  /\ replicas' = ~replicas /\ pending' = Units
  /\ UNCHANGED <<leader, state, heard, config, readonly, datname, auth, ini>>

Elect(u) ==
  /\ u # leader /\ Spend("elections")
  /\ leader' = u
  /\ UNCHANGED <<state, heard, config, readonly, postgres, pending, ini>>

----------------------------------------------------------------------------
(* Specification *)

Next ==
  \/ UpdateStatus \/ Scale
  \/ \E r \in Relations : Relate(r) \/ DatabaseRequested(r) \/ Broken(r)
  \/ \E n \in Names : CreateDatabase(n) \/ DropDatabase(n)
  \/ \E u \in Units : Renders(u) \/ Elect(u)

Spec == Init /\ [][Next]_vars

\* Juju delivers the hooks of each kind and goes on with update-status.
Fairness ==
  /\ WF_vars(UpdateStatus)
  /\ \A r \in Relations : WF_vars(DatabaseRequested(r))
  /\ \A u \in Units : WF_vars(Renders(u))

----------------------------------------------------------------------------
(* Properties *)

\* Databases that clients request or admins create and drop end up with one entry for
\* reading on every follower, whoever wrote the lists they are rendered from.  The leader does
\* not see its own lists change, and renders with the next grant or endpoint; a unit that loses
\* leadership takes that with it (charm.py:467-507, 1049).
EntriesSettle ==
  spent["elections"] = 0 =>
    \A u \in Units \ {leader} :
      /\ ini[u] = Rendered
      /\ replicas /\ ini[u].wildcard # None =>
           ini[u].names \union ini[u].readonly = datname \union Named(config.relations)
      /\ ini[u].names \intersect ini[u].readonly = {}

\* Logins through the wildcard, and to the databases to read only, are checked in a database
\* that has the auth function, although each admin's request moves the wildcard there: as long
\* as a client of that database is left (pgbouncer_provider.py:139-144, 232-240).  When the
\* last one goes the wildcard stays without, and before the next one is granted.
WildcardChecked ==
  \/ config.wildcard \in auth \union {None}
  \/ \A r \in Relations : DbOf[r] = config.wildcard => state[r] # "granted"
=============================================================================
