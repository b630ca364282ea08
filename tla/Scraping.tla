------------------------------ MODULE Scraping ------------------------------
(***************************************************************************)
(* Metrics: MetricsEndpointProvider of prometheus_scrape.py, by which the  *)
(* units of pgbouncer publish where their exporters are, and               *)
(* MetricsEndpointConsumer, from which Prometheus gets its scrape jobs.    *)
(*                                                                         *)
(* A hook is one step.  Simplifications:                                   *)
(*  - one relation, which stays, and one unit of Prometheus, since each    *)
(*    reads the databags for itself;                                       *)
(*  - a pod has a new address whenever it is replaced, the number of its   *)
(*    replacements; there is no external URL;                              *)
(*  - all jobs are valid; labels, relabelling and alert rules are left out.*)
(***************************************************************************)
EXTENDS Naturals, Sequences

CONSTANTS
  Units,      \* of pgbouncer
  Revisions,  \* of its charm: numbers from 1
  PortsOf,    \* PortsOf[r]: the ports of the jobs of revision r, one job each, without a name
  Budgets     \* the disturbances together stay within one of these budgets

Disturbances == {"elections", "leaves", "refreshes", "replacements", "restarts"}

VARIABLES
  leader,
  members,   \* units in the relation
  revision,  \* revision[u]: of the charm that unit u runs
  address,   \* address[u]: of the pod
  host,      \* host[u]: in the databag of unit u, 0 without one
  jobs,      \* in the databag of the application: the revision of the jobs, 0 without them
  joining,   \* units with a relation-joined to come
  ready,     \* and with a pebble-ready to come
  toScrape,  \* Prometheus has a relation-changed or relation-departed to come
  targets,   \* the scrape jobs in its configuration
  spent      \* disturbances so far

databags == <<host, jobs>>
charm == <<leader, members, revision, address>>
vars == <<charm, databags, joining, ready, toScrape, targets, spent>>

\* The revision that is deployed is one of them.
Parameters == 1 \in Revisions

Ports == UNION {PortsOf[r] : r \in Revisions}

TypeOK ==
  /\ leader \in members /\ members \subseteq Units
  /\ revision \in [Units -> Revisions]
  /\ address \in [Units -> Nat] /\ host \in [Units -> Nat]
  /\ jobs \in Revisions \union {0}
  /\ joining \subseteq members /\ ready \subseteq members
  /\ toScrape \in BOOLEAN
  /\ \A j \in targets : j.unit \in Units /\ j.port \in Ports /\ j.address \in Nat \ {0}
  /\ spent \in [Disturbances -> Nat]

Init ==
  /\ members = Units /\ leader \in Units
  /\ revision = [u \in Units |-> 1] /\ address = [u \in Units |-> 1]
  /\ host = [u \in Units |-> 0] /\ jobs = 0
  /\ joining = Units /\ ready = {}
  /\ toScrape = FALSE /\ targets = {}
  /\ spent = [d \in Disturbances |-> 0]

Spend(d) ==
  /\ spent' = [spent EXCEPT ![d] = @ + 1]
  /\ \E budget \in Budgets : \A x \in Disturbances : spent'[x] <= budget[x]

----------------------------------------------------------------------------
(* The units of pgbouncer *)

Notify == toScrape' = (toScrape \/ databags' # databags)

\* Mutant: the address is published once.
SetScrapeJobSpecOnce(u) ==
  /\ host' = IF host[u] = 0 THEN [host EXCEPT ![u] = address[u]] ELSE host
  /\ jobs' = IF u = leader THEN revision[u] ELSE jobs

\* set_scrape_job_spec: every unit its address, the leader the jobs too.
SetScrapeJobSpec(u) ==
  /\ host' = [host EXCEPT ![u] = address[u]]
  /\ jobs' = IF u = leader THEN revision[u] ELSE jobs

RelationJoined(u) ==
  /\ u \in joining
  /\ joining' = joining \ {u}
  /\ SetScrapeJobSpec(u) /\ Notify
  /\ UNCHANGED <<charm, ready, targets, spent>>

\* The refresh event of a charm with one container.
PebbleReady(u) ==
  /\ u \in ready
  /\ ready' = ready \ {u}
  /\ SetScrapeJobSpec(u) /\ Notify
  /\ UNCHANGED <<charm, joining, targets, spent>>

----------------------------------------------------------------------------
(* Prometheus *)

\* _relation_hosts: units without an address are skipped.
RelationHosts == {u \in members : host[u] # 0}

\* expand_wildcard_targets_into_individual_jobs, of jobs that all have the prefix for a name:
\* a job for each unit and port, with the number of the unit in its name.
Expanded(r) ==
  {[name |-> <<u>>, unit |-> u, port |-> p, address |-> host[u]] : u \in RelationHosts, p \in PortsOf[r]}

\* Mutants: jobs keep their names; jobs of the same name are taken for the same job.
DedupedNever(js) == js
DedupedByName(js) == {j \in js : \A k \in js : k.name = j.name => j.port <= k.port}

\* _dedupe_job_names: jobs of the same name get the hash of their content appended.
Deduped(js) ==
  {IF \E k \in js : k # j /\ k.name = j.name
   THEN [j EXCEPT !.name = @ \o <<j.port, j.address>>] ELSE j : j \in js}

\* jobs: deduplicated for each relation, and again for all of them.
ScrapeJobs == IF jobs = 0 THEN {} ELSE Deduped(Deduped(Expanded(jobs)))

TargetsChanged ==
  /\ toScrape
  /\ toScrape' = FALSE
  /\ targets' = ScrapeJobs
  /\ UNCHANGED <<charm, databags, joining, ready, spent>>

----------------------------------------------------------------------------
(* Juju and Kubernetes *)

\* Nothing is published when a unit becomes the leader.
Elect ==
  /\ Spend("elections")
  /\ leader' \in members \ {leader}
  /\ UNCHANGED <<members, revision, address, databags, joining, ready, toScrape, targets>>

\* Scale-down of a follower: Prometheus is told by relation-departed.
Leave(u) ==
  /\ u \in members \ {leader}
  /\ Spend("leaves")
  /\ members' = members \ {u}
  /\ joining' = joining \ {u} /\ ready' = ready \ {u}
  /\ toScrape' = TRUE
  /\ UNCHANGED <<leader, revision, address, databags, targets>>

\* The pod of a unit is replaced, with the same charm or a newer one.
Replace(u, r) ==
  /\ u \in members /\ r \in {revision[u], revision[u] + 1} \intersect Revisions
  /\ Spend(IF r = revision[u] THEN "replacements" ELSE "refreshes")
  /\ revision' = [revision EXCEPT ![u] = r]
  /\ address' = [address EXCEPT ![u] = @ + 1]
  /\ ready' = ready \union {u}
  /\ UNCHANGED <<leader, members, databags, joining, toScrape, targets>>

ContainerRestart(u) ==
  /\ u \in members
  /\ Spend("restarts")
  /\ ready' = ready \union {u}
  /\ UNCHANGED <<charm, databags, joining, toScrape, targets>>

----------------------------------------------------------------------------
(* Specification *)

Next ==
  \/ \E u \in Units : RelationJoined(u) \/ PebbleReady(u) \/ Leave(u) \/ ContainerRestart(u)
  \/ \E u \in Units, r \in Revisions : Replace(u, r)
  \/ TargetsChanged \/ Elect

Spec == Init /\ [][Next]_vars

Hooks == TargetsChanged \/ \E u \in Units : RelationJoined(u) \/ PebbleReady(u)

\* Juju goes on delivering hooks.
Fairness == WF_vars(Hooks)

FairSpec == Spec /\ Fairness

----------------------------------------------------------------------------
(* Properties *)

\* Prometheus refuses a configuration with two jobs of one name: jobs without a name of
\* their own, or the same one, never make for it (prometheus_scrape.py:893-921, 1193-1233).
JobNamesUnique == \A j, k \in targets : j.name = k.name => j = k

\* Every port of every unit ends up being scraped, at the address the pod has now, units that
\* are gone are not, and a new revision brings its own jobs: whatever the order of the hooks.
\* An election between the relation-joined hooks of two units, or after the pebble-ready of
\* the one that leads next, leaves the jobs as they are (prometheus_scrape.py:1491-1522).
MetricsScraped ==
  spent["elections"] = 0 =>
    {[unit |-> j.unit, port |-> j.port, address |-> j.address] : j \in targets}
      = {[unit |-> u, port |-> p, address |-> address[u]] :
           u \in members, p \in PortsOf[revision[leader]]}
=============================================================================
