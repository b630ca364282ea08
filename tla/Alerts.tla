------------------------------- MODULE Alerts -------------------------------
(***************************************************************************)
(* Alert rules: the charm reads the files of its revision and publishes    *)
(* the groups (loki_push_api.py, and prometheus_scrape.py in the same      *)
(* way); LokiPushApiProvider and MetricsEndpointConsumer put together      *)
(* what all relations publish, one file of rules for each identifier.      *)
(*                                                                         *)
(* A hook is one step.  Simplifications:                                   *)
(*  - the monitor is Loki or Prometheus, and applies the alerts it is told *)
(*    have changed at once; cos-tool is there, and refuses expressions     *)
(*    that are broken and groups of the same name;                         *)
(*  - a name is the sequence of its words, those between underscores;      *)
(*  - the leader of a charm does not change; labels in expressions are     *)
(*    left out.                                                            *)
(***************************************************************************)
EXTENDS Naturals, Sequences

CONSTANTS
  Units,     \* of the monitor
  Apps,      \* that may be at the other end of a relation
  FileSets,  \* the sets of files a revision of their charms may have
  None,
  Budgets    \* the disturbances together stay within one of these budgets

Disturbances == {"refreshes", "elections", "removals", "upgrades"}

Relations == {1, 2}

VARIABLES
  kind,        \* of the monitor
  app,         \* app[r]: the application on relation r
  topology,    \* how the rules on relation r tell their application: in labels, as metadata, not
  leader,      \* the unit of the monitor that leads
  related,     \* relations that exist
  published,   \* published[r]: groups in the databag of app[r], None without any
  event,       \* event[r]: errors in the databag of the monitor
  told,        \* told[r]: the charm of app[r] was told of errors last
  toMonitor,   \* toMonitor[u]: relations with a relation-changed or relation-broken to come
  upgraded,    \* units with an upgrade-charm to come
  toCharm,     \* relations with a relation-changed to come for the leader of their application
  applied,     \* applied[u]: the files of rules of unit u
  spent        \* disturbances so far

fixed == <<kind, app, topology>>
monitor == <<leader, event, applied, upgraded>>
vars == <<fixed, monitor, related, published, told, toMonitor, toCharm, spent>>

----------------------------------------------------------------------------
(* AlertRules: from files to groups *)

\* _group_name: the identifier, the directories and the name, as one.
GroupName(r, file, name) ==
  (IF topology[r] = "labels" THEN <<app[r]>> ELSE <<>>) \o file.dir \o name \o <<"alerts">>

\* _from_file: a file of one rule is a group with the name of the file, and one of neither form
\* is left out.
FromFile(r, file) ==
  CASE file.form = "groups" -> {[name |-> GroupName(r, file, n), sound |-> TRUE] : n \in file.names}
    [] file.form = "rule" -> {[name |-> GroupName(r, file, file.stem), sound |-> file.sound]}
    [] file.form = "neither" -> {}

\* _from_dir, with what comes from which file.
FromDir(r, files) ==
  UNION {{[file |-> f, name |-> g.name, sound |-> g.sound] : g \in FromFile(r, f)} : f \in files}

\* validate_alert_rules
Valid(groups) ==
  /\ \A g \in groups : g.sound
  /\ \A g, h \in groups : g.name = h.name => g = h

TypeOK ==
  /\ kind \in {"loki", "prometheus"}
  /\ app \in [Relations -> Apps] /\ topology \in [Relations -> {"labels", "metadata", "none"}]
  /\ leader \in Units /\ related \subseteq Relations
  /\ DOMAIN published = Relations
  /\ event \in [Relations -> BOOLEAN] /\ told \in [Relations -> BOOLEAN]
  /\ toMonitor \in [Units -> SUBSET Relations] /\ upgraded \subseteq Units
  /\ toCharm \subseteq Relations
  /\ DOMAIN applied = Units
  /\ \A u \in Units : \A e \in applied[u] : e.relation \in Relations /\ e.groups # {}
  /\ spent \in [Disturbances -> Nat]

\* Rules for Loki have metadata, those of PrometheusRulesProvider neither that nor labels.
Init ==
  /\ kind \in {"loki", "prometheus"}
  /\ app \in [Relations -> Apps]
  /\ topology \in [Relations -> {"labels", IF kind = "loki" THEN "metadata" ELSE "none"}]
  /\ leader \in Units /\ related = Relations
  /\ published = [r \in Relations |-> None]
  /\ event = [r \in Relations |-> FALSE] /\ told = event
  /\ toMonitor = [u \in Units |-> {}] /\ toCharm = {} /\ upgraded = {}
  /\ applied = [u \in Units |-> {}]
  /\ spent = [d \in Disturbances |-> 0]

Spend(d) ==
  /\ spent' = [spent EXCEPT ![d] = @ + 1]
  /\ \E budget \in Budgets : \A x \in Disturbances : spent'[x] <= budget[x]

----------------------------------------------------------------------------
(* The charms *)

\* _handle_alert_rules and set_scrape_job_spec of the leader, with the files of its revision:
\* when the relation is joined, and again after a refresh.
Publish(r) ==
  /\ r \in related
  /\ \E files \in FileSets : published' = [published EXCEPT ![r] = FromDir(r, files)]
  /\ toMonitor' = IF published' = published THEN toMonitor
                  ELSE [u \in Units |-> toMonitor[u] \union {r}]
  /\ UNCHANGED <<fixed, monitor, related, told, toCharm>>

RelationJoined(r) == published[r] = None /\ Publish(r) /\ UNCHANGED spent

Refresh(r) == published[r] # None /\ Spend("refreshes") /\ Publish(r)

\* alert_rule_status_changed, with or without errors.
CharmChanged(r) ==
  /\ r \in toCharm
  /\ toCharm' = toCharm \ {r}
  /\ told' = [told EXCEPT ![r] = event[r] \/ @]
  /\ UNCHANGED <<fixed, monitor, related, published, toMonitor, spent>>

----------------------------------------------------------------------------
(* The monitor *)

\* Relations with rules.
Offering == {r \in related : published[r] \notin {None, {}}}

\* _get_identifier_by_alert_rules: from labels, or else from metadata, or else the name of a
\* group.
Identified(r) ==
  IF topology[r] # "none" THEN {<<app[r]>>} ELSE {g.name : g \in published[r]}

\* Mutant: the identifier is that of the application.
IdentifierOfApp(r) == CHOOSE i \in Identified(r) : TRUE

\* Prometheus appends the relation, Loki does not.
Identifier(r) ==
  LET i == CHOOSE i \in Identified(r) : TRUE
  IN IF kind = "prometheus" THEN Append(i, r) ELSE i

Refused == {r \in Offering : ~Valid(published[r])}

\* Mutant: rules are taken before they are validated.
AcceptedAll == Offering

\* Loki takes rules without labels before it validates them.
Accepted ==
  (Offering \ Refused) \union {r \in Refused : kind = "loki" /\ topology[r] = "metadata"}

\* alerts: of relations with the same identifier the last one.
Alerts ==
  {[identifier |-> Identifier(r), relation |-> r, groups |-> published[r]] :
     r \in {x \in Accepted : \A y \in Accepted : Identifier(y) = Identifier(x) => y <= x}}

\* Errors are only ever added; a follower leaves them to the leader, or fails to write them.
Evaluates(u) ==
  /\ kind = "loki" => u = leader \/ Refused = {}
  /\ applied' = [applied EXCEPT ![u] = Alerts]
  /\ event' = IF u = leader THEN [r \in Relations |-> event[r] \/ r \in Refused] ELSE event
  /\ toCharm' = toCharm \union {r \in Relations : event'[r] # event[r]}

\* Loki looks at the rules only if the relation has some, or is gone.
MonitorChanged(u, r) ==
  /\ r \in toMonitor[u]
  /\ toMonitor' = [toMonitor EXCEPT ![u] = @ \ {r}]
  /\ IF kind = "loki" /\ r \in related /\ published[r] = None
     THEN UNCHANGED <<applied, event, toCharm>> ELSE Evaluates(u)
  /\ UNCHANGED <<fixed, leader, upgraded, related, published, told, spent>>

\* _on_lifecycle_event
UpgradeCharm(u) ==
  /\ u \in upgraded
  /\ upgraded' = upgraded \ {u}
  /\ IF \E r \in related : published[r] # None THEN Evaluates(u)
     ELSE UNCHANGED <<applied, event, toCharm>>
  /\ UNCHANGED <<fixed, leader, related, published, told, toMonitor, spent>>

----------------------------------------------------------------------------
(* Juju *)

Elect ==
  /\ Spend("elections")
  /\ leader' \in Units \ {leader}
  /\ UNCHANGED <<fixed, event, applied, upgraded, related, published, told, toMonitor, toCharm>>

Remove(r) ==
  /\ r \in related
  /\ Spend("removals")
  /\ related' = related \ {r}
  /\ toMonitor' = [u \in Units |-> toMonitor[u] \union {r}]
  /\ toCharm' = toCharm \ {r}
  /\ UNCHANGED <<fixed, monitor, published, told>>

Upgrade ==
  /\ kind = "loki"
  /\ Spend("upgrades")
  /\ upgraded' = Units
  /\ UNCHANGED <<fixed, leader, event, applied, related, published, told, toMonitor, toCharm>>

Next ==
  \/ \E r \in Relations : RelationJoined(r) \/ Refresh(r) \/ CharmChanged(r) \/ Remove(r)
  \/ \E u \in Units : UpgradeCharm(u) \/ \E r \in Relations : MonitorChanged(u, r)
  \/ Elect \/ Upgrade

Spec == Init /\ [][Next]_vars

Hooks ==
  \/ \E r \in Relations : RelationJoined(r) \/ CharmChanged(r)
  \/ \E u \in Units : UpgradeCharm(u) \/ \E r \in Relations : MonitorChanged(u, r)

\* Juju goes on delivering hooks, and retries those that fail.
Fairness == WF_vars(Hooks)

FairSpec == Spec /\ Fairness

----------------------------------------------------------------------------
(* Properties *)

\* Every unit ends up with the rules of every relation that are valid, as they were published
\* last, and with none of those that are not, or of relations that are gone.  Prometheus has a
\* file for each relation, "to allow for cases for there are two relations which eventually
\* scrape the same application"; with Loki two relations of one application share it
\* (prometheus_scrape.py:924-1011).  Loki does all this only as long as all rules are valid:
\* otherwise a follower fails, and rules without labels stay (loki_push_api.py:1334-1359).
AppliedBy(u) ==
  /\ \A e \in applied[u] : e.relation \in Offering \ Refused /\ e.groups = published[e.relation]
  /\ \A r \in Offering \ Refused :
       \E e \in applied[u] : e.identifier = Identifier(r) /\ (kind = "prometheus" => e.relation = r)

\* The charm whose rules Prometheus refuses is told, unless the leader of the monitor changed:
\* the next one may have looked at the rules already (prometheus_scrape.py:1002-1007,
\* 1468-1484).
ErrorsTold == spent["elections"] = 0 => \A r \in Refused : told[r]

AlertsApplied ==
  (kind = "loki" => Refused = {}) => ErrorsTold /\ \A u \in Units : AppliedBy(u)
=============================================================================
