---------------------------- MODULE DataExchange ----------------------------
(***************************************************************************)
(* One database relation between two applications that use                 *)
(* data_interfaces.py: PgBouncerProvider and a client, or PostgreSQL and   *)
(* BackendDatabaseRequires.                                                *)
(*                                                                         *)
(* Who notices what is decided by diffs: the provider keeps the last data  *)
(* of the requirer it has seen in its application databag, each unit of    *)
(* the requirer the last data of the provider in its own.  Credentials are *)
(* in a Juju secret or, if one of the sides had none when the relation     *)
(* began, in the databag.                                                  *)
(*                                                                         *)
(* A hook is one step.  Simplifications:                                   *)
(*  - the database is provided in the hook that requests it, or the hook   *)
(*    fails: ClientRelations has what delays it;                           *)
(*  - the relation stays; entity types, aliases and subordinates are not   *)
(*    used by this charm;                                                  *)
(*  - user name and password are one field, the URIs another; the TLS      *)
(*    fields go the way of the URIs.                                       *)
(***************************************************************************)
EXTENDS Naturals

CONSTANTS
  Providers,  \* units
  Requirers,
  Budgets     \* the disturbances together stay within one of these budgets

Disturbances == {"provider_elections", "requirer_elections", "failures", "upgrades", "updates"}
Fields == {"credentials", "uris"}

VARIABLES
  providing,  \* the leader of the providers
  requiring,  \* and of the requirers
  request,    \* the databag of the requirer has the database
  wanted,     \* and the fields that it wants in secrets
  asked,      \* the provider has seen the request
  plain,      \* fields in the databag of the provider
  secret,     \* fields in its secret, whose URI is in the databag
  endpoints,  \* endpoints in the databag: the version of either kind, 0 for none
  seen,       \* seen[u]: what unit u of the requirer has seen of the provider
  view,       \* view[u]: what its charm has read when it was told last
  requested,  \* database-requested events
  created,    \* created[u]: database-created events of unit u
  hasSecrets, \* the sides whose Juju has secrets
  began,      \* requirers whose relation-created is to come
  toProvider, \* units with a relation-changed to come
  toRequirer,
  spent       \* disturbances so far

leaders == <<providing, requiring>>
demand == <<request, wanted>>
offer == <<plain, secret, endpoints>>
hooks == <<began, toProvider, toRequirer>>
vars == <<leaders, demand, asked, offer, seen, view, requested, created, hasSecrets, hooks, spent>>

Kinds == {"endpoints", "read_only"}
Unset == [k \in Kinds |-> 0]
Offered == [plain |-> plain, uri |-> secret # {}, endpoints |-> endpoints]

TypeOK ==
  /\ providing \in Providers /\ requiring \in Requirers
  /\ request \in BOOLEAN /\ wanted \in BOOLEAN /\ asked \in BOOLEAN
  /\ (wanted \/ asked => request)
  /\ plain \subseteq Fields /\ secret \subseteq Fields
  /\ endpoints \in [Kinds -> Nat]
  /\ seen \in [Requirers -> [plain : SUBSET Fields, uri : BOOLEAN, endpoints : [Kinds -> Nat]]]
  /\ view \in [Requirers -> [credentials : BOOLEAN, endpoints : [Kinds -> Nat]]]
  /\ requested \in Nat /\ created \in [Requirers -> Nat]
  /\ hasSecrets \subseteq {"provider", "requirer"}
  /\ began \subseteq Requirers /\ toProvider \subseteq Providers /\ toRequirer \subseteq Requirers
  /\ spent \in [Disturbances -> Nat]

Init ==
  /\ providing \in Providers /\ requiring \in Requirers
  /\ request = FALSE /\ wanted = FALSE /\ asked = FALSE
  /\ plain = {} /\ secret = {} /\ endpoints = Unset
  /\ seen = [u \in Requirers |-> [plain |-> {}, uri |-> FALSE, endpoints |-> Unset]]
  /\ view = [u \in Requirers |-> [credentials |-> FALSE, endpoints |-> Unset]]
  /\ requested = 0 /\ created = [u \in Requirers |-> 0]
  /\ hasSecrets \in SUBSET {"provider", "requirer"}
  /\ began = Requirers /\ toProvider = Providers /\ toRequirer = Requirers
  /\ spent = [d \in Disturbances |-> 0]

Spend(d) ==
  /\ spent' = [spent EXCEPT ![d] = @ + 1]
  /\ \E budget \in Budgets : \A x \in Disturbances : spent'[x] <= budget[x]

----------------------------------------------------------------------------
(* The provider *)

\* Mutants: a secret that nobody asked for; and one besides the databag.
SecretlyUnasked == "provider" \in hasSecrets /\ plain = {}
SecretlyBeside == wanted /\ "provider" \in hasSecrets

\* "If the relation started on a databag, we just stay on the databag".
Secretly == wanted /\ "provider" \in hasSecrets /\ plain = {}

\* update_relation_data: a secret is added or updated, the rest goes to the databag.
Written(fields) ==
  /\ secret' = IF Secretly THEN secret \union fields ELSE secret
  /\ plain' = IF Secretly THEN plain ELSE plain \union fields

\* What is in a secret is not written to the databag, where units would see a change.
Notify == toRequirer' = IF Offered' # Offered THEN Requirers ELSE toRequirer

\* set_credentials and the first update_endpoints.
Grant == Written(Fields) /\ endpoints' = [k \in Kinds |-> 1]

\* Mutant: a follower that leads again has nothing to compare with.
ProviderChangedAgain(u) ==
  /\ u \in toProvider
  /\ toProvider' = toProvider \ {u}
  /\ IF u = providing /\ request
     THEN requested' = requested + 1 /\ Grant /\ Notify
     ELSE UNCHANGED <<requested, offer, toRequirer>>
  /\ asked' = (asked \/ (u = providing /\ request))
  /\ UNCHANGED <<leaders, demand, seen, view, created, hasSecrets, began, spent>>

\* Mutant: the data is taken as seen, whatever it is.
ProviderChangedBlind(u) ==
  /\ u \in toProvider
  /\ toProvider' = toProvider \ {u}
  /\ IF u = providing /\ request /\ ~asked
     THEN requested' = requested + 1 /\ Grant /\ Notify
     ELSE UNCHANGED <<requested, offer, toRequirer>>
  /\ asked' = (asked \/ u = providing)
  /\ UNCHANGED <<leaders, demand, seen, view, created, hasSecrets, began, spent>>

\* "Leader only": what a follower was told of is not looked at again.
ProviderChanged(u) ==
  /\ u \in toProvider
  /\ toProvider' = toProvider \ {u}
  /\ IF u = providing /\ request /\ ~asked
     THEN asked' = TRUE /\ requested' = requested + 1 /\ Grant /\ Notify
     ELSE UNCHANGED <<asked, requested, offer, toRequirer>>
  /\ UNCHANGED <<leaders, demand, seen, view, created, hasSecrets, began, spent>>

\* The database is requested, and the hook fails.
ProviderFails(u) ==
  /\ u \in toProvider /\ u = providing /\ request /\ ~asked
  /\ Spend("failures")
  /\ requested' = requested + 1
  /\ UNCHANGED <<leaders, demand, asked, offer, seen, view, created, hasSecrets, hooks>>

Granted == "credentials" \in plain \union secret

\* update_endpoints in any other hook of the leader: either kind of endpoints changes.
UpdateEndpoints ==
  /\ Granted /\ Spend("updates")
  /\ \E ks \in SUBSET Kinds :
       ks # {} /\ endpoints' = [k \in Kinds |-> IF k \in ks THEN endpoints[k] + 1 ELSE endpoints[k]]
  /\ Written({"uris"})
  /\ Notify
  /\ UNCHANGED <<leaders, demand, asked, seen, view, requested, created, hasSecrets, began, toProvider>>

----------------------------------------------------------------------------
(* The requirer *)

\* The names of the fields it wants in secrets: after any of its relation-created.
Wants == wanted' = (wanted \/ "requirer" \in hasSecrets)

RequirerCreated(u) ==
  /\ u \in began
  /\ began' = began \ {u}
  /\ IF u = requiring
     THEN request' = TRUE /\ Wants /\ toProvider' = Providers
     ELSE UNCHANGED <<demand, toProvider>>
  /\ UNCHANGED <<leaders, asked, offer, seen, view, requested, created, hasSecrets, toRequirer, spent>>

\* _get_group_secret_contents
InSecret(f) == "requirer" \in hasSecrets /\ f \in secret

\* _fetch_relation_data_without_secrets
InDatabag(f) == f \in plain

\* "Processing "normal" fields.  May include leftover from what we couldn't retrieve as a
\* secret."
Readable == InSecret("credentials") \/ InDatabag("credentials")

Read == [credentials |-> Readable, endpoints |-> endpoints]

\* _main_credentials_shared
Shared(u) ==
  \/ secret # {} /\ ~seen[u].uri
  \/ "credentials" \in plain \ seen[u].plain

ToldEndpoints(u) == \E k \in Kinds : endpoints[k] # seen[u].endpoints[k]

\* The diff, and the event it makes for: database-created, endpoints-changed or
\* read-only-endpoints-changed, never two of them.
Noticed(u) ==
  /\ created' = IF Shared(u) THEN [created EXCEPT ![u] = @ + 1] ELSE created
  /\ view' = IF Shared(u) \/ ToldEndpoints(u) THEN [view EXCEPT ![u] = Read] ELSE view

\* Mutant: the data is taken as seen after database-created only.
RequirerChangedUnseen(u) ==
  /\ u \in toRequirer \ began
  /\ toRequirer' = toRequirer \ {u}
  /\ created' = IF Shared(u) THEN [created EXCEPT ![u] = @ + 1] ELSE created
  /\ view' = IF Shared(u) THEN [view EXCEPT ![u] = Read] ELSE view
  /\ seen' = [seen EXCEPT ![u] = Offered]
  /\ toProvider' = IF seen' = seen THEN toProvider ELSE Providers
  /\ UNCHANGED <<leaders, demand, asked, offer, requested, hasSecrets, began, spent>>

\* The units of the provider are told of the data that is kept in the databag of the unit.
RequirerChanged(u) ==
  /\ u \in toRequirer \ began
  /\ toRequirer' = toRequirer \ {u}
  /\ Noticed(u)
  /\ seen' = [seen EXCEPT ![u] = Offered]
  /\ toProvider' = IF seen' = seen THEN toProvider ELSE Providers
  /\ UNCHANGED <<leaders, demand, asked, offer, requested, hasSecrets, began, spent>>

\* The charm has been told, and the hook fails: it is told again.
RequirerFails(u) ==
  /\ u \in toRequirer \ began /\ (Shared(u) \/ ToldEndpoints(u))
  /\ Spend("failures")
  /\ Noticed(u)
  /\ UNCHANGED <<leaders, demand, asked, offer, seen, requested, hasSecrets, hooks>>

----------------------------------------------------------------------------
(* Juju *)

ProviderElection ==
  /\ Spend("provider_elections")
  /\ providing' \in Providers \ {providing}
  /\ UNCHANGED <<requiring, demand, asked, offer, seen, view, requested, created, hasSecrets, hooks>>

RequirerElection ==
  /\ Spend("requirer_elections")
  /\ requiring' \in Requirers \ {requiring}
  /\ UNCHANGED <<providing, demand, asked, offer, seen, view, requested, created, hasSecrets, hooks>>

\* One of the models moves to a Juju that has secrets.
Upgrade ==
  /\ Spend("upgrades")
  /\ \E side \in {"provider", "requirer"} \ hasSecrets : hasSecrets' = hasSecrets \union {side}
  /\ UNCHANGED <<leaders, demand, asked, offer, seen, view, requested, created, hooks>>

----------------------------------------------------------------------------
(* Specification *)

Next ==
  \/ \E u \in Providers : ProviderChanged(u) \/ ProviderFails(u)
  \/ \E u \in Requirers : RequirerCreated(u) \/ RequirerChanged(u) \/ RequirerFails(u)
  \/ UpdateEndpoints \/ ProviderElection \/ RequirerElection \/ Upgrade

Spec == Init /\ [][Next]_vars

Hooks ==
  \/ \E u \in Providers : ProviderChanged(u)
  \/ \E u \in Requirers : RequirerCreated(u) \/ RequirerChanged(u)

\* Juju goes on delivering the hooks of a relation.
Fairness == WF_vars(Hooks)

FairSpec == Spec /\ Fairness

----------------------------------------------------------------------------
(* Properties *)

\* A database is requested once, whoever leads and however often the databags change: only a
\* failed hook asks again (data_interfaces.py:565-607, 3556-3576).
RequestedOnce == requested <= 1 + spent["failures"]

\* Once there are credentials the requirer can read them, whichever side had secrets when the
\* relation began and whichever has got them since (data_interfaces.py:1545-1573).
CredentialsReadable == Granted => Readable

\* database-created is emitted once for each unit, although credentials may be in two places
\* and the databag changes with every update (data_interfaces.py:2271-2279, 3914-3929).
CreatedOnce == \A u \in Requirers : created[u] <= 1 + spent["failures"]

\* The request is answered, and every unit of the requirer ends up with the credentials and
\* the current endpoints of both kinds, although a diff makes for one event only.  An
\* election between the hooks of two units can lose the request on either side
\* (data_interfaces.py:3556-3558, 3829-3832).
Exchanged ==
  Granted \/ (spent["provider_elections"] = 0 /\ spent["requirer_elections"] = 0) =>
    \A u \in Requirers : view[u] = [credentials |-> TRUE, endpoints |-> endpoints]
=============================================================================
