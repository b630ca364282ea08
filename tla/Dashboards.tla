----------------------------- MODULE Dashboards -----------------------------
(***************************************************************************)
(* Dashboards: GrafanaDashboardProvider of grafana_dashboard.py, by which  *)
(* the leader of pgbouncer publishes the dashboards of its charm, and      *)
(* GrafanaDashboardConsumer, by which the leader of Grafana keeps those of *)
(* all relations in its peer relation.                                     *)
(*                                                                         *)
(* A hook is one step.  Simplifications:                                   *)
(*  - the other relation of Grafana is with another application of the     *)
(*    same charm, of which only what it publishes is modelled;             *)
(*  - a charm has one dashboard, whose uid is that of the charm and whose  *)
(*    version that of the revision; another one can be added by code;      *)
(*  - no hook of Grafana fails; the conversion of dashboards is left out.  *)
(***************************************************************************)
EXTENDS Naturals

CONSTANTS
  Units,     \* of pgbouncer
  Grafanas,  \* units of Grafana
  None,
  Budgets    \* the disturbances together stay within one of these budgets

Disturbances ==
  {"elections", "refreshes", "additions", "publications", "removals", "grafana_elections"}

Ours == 1
Relations == {Ours, 2}
Revisions == {1, 2}

\* A template is garbled if it cannot be decoded, and broken if it is no JSON.
Template == [uid : {"charm", "added"}, version : Revisions, form : {"good", "broken", "garbled"}]

VARIABLES
  leader,
  revision,    \* revision[u]: of the charm of unit u
  stored,      \* stored[u]: the templates in the StoredState of unit u
  related,     \* relations that exist
  databag,     \* databag[r]: the templates published on relation r, None without any
  updating,    \* units with a hook to come that loads the dashboards
  creating,    \* units with a relation-created to come
  leading,     \* the unit of Grafana that leads
  rendered,    \* rendered[r]: the dashboards in the peer relation of Grafana
  shown,       \* shown[g]: what unit g has given to Grafana
  changed,     \* changed[g]: relations with a relation-changed to come for unit g
  broken,      \* broken[g]: and with a relation-broken to come
  peerChanged, \* units of Grafana with a relation-changed of the peer relation to come
  spent        \* disturbances so far

provider == <<leader, revision, stored, updating, creating>>
consumer == <<rendered, shown, peerChanged>>
vars == <<provider, related, databag, leading, consumer, changed, broken, spent>>

TypeOK ==
  /\ leader \in Units /\ leading \in Grafanas
  /\ revision \in [Units -> Revisions]
  /\ stored \in [Units -> SUBSET Template]
  /\ related \subseteq Relations
  /\ databag \in [Relations -> (SUBSET Template) \union {None}]
  /\ updating \subseteq Units /\ creating \subseteq Units /\ peerChanged \subseteq Grafanas
  /\ rendered \in [Relations -> SUBSET {t \in Template : t.form = "good"}]
  /\ shown \in [Grafanas ->
                 SUBSET [uid : {"charm", "added"}, version : Revisions, relation : Relations]]
  /\ changed \in [Grafanas -> SUBSET Relations] /\ broken \in [Grafanas -> SUBSET Relations]
  /\ spent \in [Disturbances -> Nat]

Init ==
  /\ leader \in Units /\ leading \in Grafanas
  /\ revision = [u \in Units |-> 1] /\ stored = [u \in Units |-> {}]
  /\ related = Relations /\ databag = [r \in Relations |-> None]
  /\ updating = {} /\ creating = Units
  /\ rendered = [r \in Relations |-> {}] /\ shown = [g \in Grafanas |-> {}]
  /\ changed = [g \in Grafanas |-> {}] /\ broken = [g \in Grafanas |-> {}]
  /\ peerChanged = {}
  /\ spent = [d \in Disturbances |-> 0]

Spend(d) ==
  /\ spent' = [spent EXCEPT ![d] = @ + 1]
  /\ \E budget \in Budgets : \A x \in Disturbances : spent'[x] <= budget[x]

----------------------------------------------------------------------------
(* The units of pgbouncer *)

\* _upset_dashboards_on_relation, which makes for a relation-changed whatever it writes.
Upset(r, templates) ==
  IF r \in related
  THEN /\ databag' = [databag EXCEPT ![r] = templates]
       /\ changed' = [g \in Grafanas |-> changed[g] \union ({r} \ broken[g])]
  ELSE UNCHANGED <<databag, changed>>

Upsets(u) == IF u = leader THEN Upset(Ours, stored'[u]) ELSE UNCHANGED <<databag, changed>>

\* load_dashboards_from_dir
Files(r) == {[uid |-> "charm", version |-> r, form |-> "good"]}

\* Mutant: dashboards of the charm that are stored stay.
LoadedBeside(u) == [stored EXCEPT ![u] = @ \union Files(revision[u])]

\* Dashboards of files are replaced, those added by code stay.
Loaded(u) ==
  [stored EXCEPT ![u] = {t \in @ : t.uid # "charm"} \union Files(revision[u])]

\* leader-elected, upgrade-charm and config-changed.
UpdateAllDashboardsFromDir(u) ==
  /\ u \in updating
  /\ updating' = updating \ {u}
  /\ stored' = Loaded(u)
  /\ Upsets(u)
  /\ UNCHANGED <<leader, revision, creating, related, leading, consumer, broken, spent>>

RelationCreated(u) ==
  /\ u \in creating
  /\ creating' = creating \ {u}
  /\ stored' = IF u = leader THEN Loaded(u) ELSE stored
  /\ Upsets(u)
  /\ UNCHANGED <<leader, revision, updating, related, leading, consumer, broken, spent>>

\* "Update of storage must be done irrespective of leadership".
AddDashboard(u) ==
  /\ Spend("additions")
  /\ \E form \in {"good", "broken"} :
       stored' = [stored EXCEPT ![u] = @ \union {[uid |-> "added", version |-> 1, form |-> form]}]
  /\ Upsets(u)
  /\ UNCHANGED <<leader, revision, updating, creating, related, leading, consumer, broken>>

RemoveNonBuiltinDashboards(u) ==
  /\ \E t \in stored[u] : t.uid = "added"
  /\ stored' = [stored EXCEPT ![u] = {t \in @ : t.uid = "charm"}]
  /\ Upsets(u)
  /\ UNCHANGED <<leader, revision, updating, creating, related, leading, consumer, broken, spent>>

----------------------------------------------------------------------------
(* The units of Grafana *)

All(rs) ==
  UNION {{[uid |-> t.uid, version |-> t.version, relation |-> r] : t \in rs[r]} : r \in Relations}

\* Mutant: of two dashboards of one uid the one of the highest relation is kept.
KeptByRelation(rs) ==
  {d \in All(rs) : \A e \in All(rs) : e.uid = d.uid => e.relation <= d.relation}

\* dashboards: of those of one uid the highest version, and the highest relation then.
Kept(rs) ==
  {d \in All(rs) : \A e \in All(rs) :
     e.uid = d.uid => e.version < d.version \/ (e.version = d.version /\ e.relation <= d.relation)}

\* Templates that are no JSON are left out, one that is garbled leaves out all.
Garbled(r) == databag[r] # None /\ \E t \in databag[r] : t.form = "garbled"
Rendered(r) ==
  IF databag[r] = None \/ Garbled(r) THEN {} ELSE {t \in databag[r] : t.form = "good"}

\* set_peer_data if there is a change, and dashboards_changed then or if dropped says so.
Store(g, rs, dropped) ==
  /\ rendered' = rs
  /\ shown' = IF rs # rendered \/ dropped THEN [shown EXCEPT ![g] = Kept(rs)] ELSE shown
  /\ peerChanged' = IF rs # rendered THEN peerChanged \union (Grafanas \ {g}) ELSE peerChanged

RelationChanged(g, r) ==
  /\ r \in changed[g]
  /\ changed' = [changed EXCEPT ![g] = @ \ {r}]
  /\ IF g = leading /\ databag[r] # None
     THEN Store(g, [rendered EXCEPT ![r] = Rendered(r)], Garbled(r))
     ELSE UNCHANGED consumer
  /\ UNCHANGED <<provider, related, databag, leading, broken, spent>>

\* Mutant: the leader has no need of it, and neither has a follower that has dashboards.
PeerChangedOnce(g) ==
  /\ g \in peerChanged
  /\ peerChanged' = peerChanged \ {g}
  /\ shown' = IF g = leading \/ shown[g] # {} THEN shown ELSE [shown EXCEPT ![g] = Kept(rendered)]
  /\ UNCHANGED <<provider, related, databag, leading, rendered, changed, broken, spent>>

PeerChanged(g) ==
  /\ g \in peerChanged
  /\ peerChanged' = peerChanged \ {g}
  /\ shown' = IF g = leading THEN shown ELSE [shown EXCEPT ![g] = Kept(rendered)]
  /\ UNCHANGED <<provider, related, databag, leading, rendered, changed, broken, spent>>

RelationBroken(g, r) ==
  /\ r \in broken[g]
  /\ broken' = [broken EXCEPT ![g] = @ \ {r}]
  /\ changed' = [changed EXCEPT ![g] = @ \ {r}]
  /\ IF g = leading THEN Store(g, [rendered EXCEPT ![r] = {}], FALSE) ELSE UNCHANGED consumer
  /\ UNCHANGED <<provider, related, databag, leading, spent>>

----------------------------------------------------------------------------
(* Juju, and the application of the other relation *)

Elect ==
  /\ Spend("elections")
  /\ leader' \in Units \ {leader}
  /\ updating' = updating \union {leader'}
  /\ UNCHANGED <<revision, stored, creating, related, databag, leading, consumer, changed, broken>>

Refresh(u) ==
  /\ revision[u] = 1
  /\ Spend("refreshes")
  /\ revision' = [revision EXCEPT ![u] = 2]
  /\ updating' = updating \union {u}
  /\ UNCHANGED <<leader, stored, creating, related, databag, leading, consumer, changed, broken>>

OtherPublishes ==
  /\ Spend("publications")
  /\ \E t \in Template :
       t.uid = "charm" /\ t.form # "broken" /\ (t.form = "garbled" => t.version = 1) /\ Upset(2, {t})
  /\ UNCHANGED <<provider, related, leading, consumer, broken>>

Remove(r) ==
  /\ r \in related
  /\ Spend("removals")
  /\ related' = related \ {r}
  /\ broken' = [g \in Grafanas |-> broken[g] \union {r}]
  /\ creating' = IF r = Ours THEN {} ELSE creating
  /\ UNCHANGED <<leader, revision, stored, updating, databag, leading, consumer, changed>>

GrafanaElects ==
  /\ Spend("grafana_elections")
  /\ leading' \in Grafanas \ {leading}
  /\ UNCHANGED <<provider, related, databag, consumer, changed, broken>>

----------------------------------------------------------------------------
(* Specification *)

Next ==
  \/ \E u \in Units :
       \/ UpdateAllDashboardsFromDir(u) \/ RelationCreated(u)
       \/ AddDashboard(u) \/ RemoveNonBuiltinDashboards(u) \/ Refresh(u)
  \/ \E g \in Grafanas :
       \/ PeerChanged(g)
       \/ \E r \in Relations :
            RelationChanged(g, r) \/ RelationBroken(g, r)
  \/ Elect \/ OtherPublishes \/ GrafanaElects
  \/ \E r \in Relations : Remove(r)

Spec == Init /\ [][Next]_vars

Hooks ==
  \/ \E u \in Units : UpdateAllDashboardsFromDir(u) \/ RelationCreated(u)
  \/ \E g \in Grafanas :
       \/ PeerChanged(g)
       \/ \E r \in Relations : RelationChanged(g, r) \/ RelationBroken(g, r)

\* Juju goes on delivering hooks.
Fairness == WF_vars(Hooks)

FairSpec == Spec /\ Fairness

----------------------------------------------------------------------------
(* Properties *)

\* The databag ends up with all the dashboards that the leader has and none of an earlier
\* revision of its charm: after elections, while units are refreshed one by one, and although
\* dashboards are added on each unit (grafana_dashboard.py:1190-1275).
Published ==
  Ours \in related =>
    /\ databag[Ours] = stored[leader]
    /\ \A t \in stored[leader] : t.uid = "charm" => t.version = revision[leader]

\* All units of Grafana end up showing one dashboard for each uid, the latest of what the
\* relations that remain publish and can be decoded, and nothing else.  An election of Grafana
\* can lose a change or a removal, which followers do not look at (grafana_dashboard.py:
\* 1446-1497, 1661-1691).
Available == All([r \in Relations |-> IF r \in related THEN Rendered(r) ELSE {}])

Shown ==
  spent["grafana_elections"] = 0 =>
    \A g \in Grafanas :
      /\ shown[g] \subseteq Available
      /\ \A d, e \in shown[g] : d.uid = e.uid => d = e
      /\ \A a \in Available : \E d \in shown[g] : d.uid = a.uid /\ d.version >= a.version

DashboardsShown == Published /\ Shown
=============================================================================
