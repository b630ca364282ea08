------------------------ MODULE Integrations_proofs ------------------------
(***************************************************************************)
(* Theorems about the parts of Integrations, for every number of units,    *)
(* relations, fields and values and for all disturbances.                  *)
(*                                                                         *)
(* Each part has an inductive invariant of its own; that only one part     *)
(* takes steps makes it an invariant of the whole.                         *)
(***************************************************************************)
EXTENDS Integrations, SequenceTheorems, FiniteSetTheorems, TLAPS

\* The part that runs is chosen at first.
LEMMA OnePart == ASSUME [Next]_vars PROVE part' = part
BY DEF Next, vars

\* A step is one of the part that runs.
LEMMA ExchangeSteps ==
  ASSUME [Next]_vars, Runs("exchange")
  PROVE  [Exchange!Next]_(Exchange!vars)
<1>1. Exchange!Next \/ UNCHANGED exchange
  BY DEF Next, vars, Runs, others
<1> QED BY <1>1 DEF exchange, Exchange!vars, Exchange!leaders, Exchange!demand, Exchange!offer,
                    Exchange!hooks

LEMMA SecretsSteps ==
  ASSUME [Next]_vars, Runs("secrets")
  PROVE  [Secrets!Next]_(Secrets!vars)
<1>1. Secrets!Next \/ UNCHANGED secrets
  BY DEF Next, vars, Runs, others
<1> QED BY <1>1 DEF secrets, Secrets!vars

LEMMA RoutesSteps ==
  ASSUME [Next]_vars, Runs("routes")
  PROVE  [Routes!Next]_(Routes!vars)
<1>1. Routes!Next \/ UNCHANGED routes
  BY DEF Next, vars, Runs, others
<1> QED BY <1>1 DEF routes, Routes!vars, Routes!postgres

LEMMA TlsSteps ==
  ASSUME [Next]_vars, Runs("tls")
  PROVE  [Tls!Next]_(Tls!vars)
<1>1. Tls!Next \/ UNCHANGED certificates
  BY DEF Next, vars, Runs, others
<1> QED BY <1>1 DEF certificates, Tls!vars, Tls!secrets, Tls!unitbag, Tls!operator, Tls!workload

LEMMA LogsSteps ==
  ASSUME [Next]_vars, Runs("logs")
  PROVE  [Logs!Next]_(Logs!vars)
<1>1. Logs!Next \/ UNCHANGED logs
  BY DEF Next, vars, Runs, others
<1> QED BY <1>1 DEF logs, Logs!vars, Logs!relation, Logs!loki, Logs!promtail

LEMMA MetricsSteps ==
  ASSUME [Next]_vars, Runs("metrics")
  PROVE  [Metrics!Next]_(Metrics!vars)
<1>1. Metrics!Next \/ UNCHANGED metrics
  BY DEF Next, vars, Runs, others
<1> QED BY <1>1 DEF metrics, Metrics!vars, Metrics!charm, Metrics!databags

LEMMA UsersSteps ==
  ASSUME [Next]_vars, Runs("users")
  PROVE  [Users!Next]_(Users!vars)
<1>1. Users!Next \/ UNCHANGED users
  BY DEF Next, vars, Runs, others
<1> QED BY <1>1 DEF users, Users!vars, Users!client, Users!catalog, Users!access

----------------------------------------------------------------------------
(* A database relation *)

\* Credentials are in a secret only if both sides have them, and then nothing is in the
\* databag: once either is there, later fields follow.
OneWay ==
  /\ wanted => "requirer" \in hasSecrets
  /\ secret # {} => wanted /\ "provider" \in hasSecrets /\ plain = {}

\* No field is written before the credentials, nor seen before it is written.
CredentialsFirst ==
  /\ secret # {} => "credentials" \in secret
  /\ plain # {} => "credentials" \in plain
  /\ \A u \in Requirers : seen[u].plain \subseteq plain /\ (seen[u].uri => secret # {})

\* 1 once unit u has kept that there are credentials.
Kept(u) == IF seen[u].uri \/ "credentials" \in seen[u].plain THEN 1 ELSE 0

\* Each event but those of failed hooks is the one that the diff was kept for.
Counted ==
  /\ requested <= (IF asked THEN 1 ELSE 0) + spent["failures"]
  /\ \A u \in Requirers : created[u] <= Kept(u) + spent["failures"]

ExchangeInv == Exchange!TypeOK /\ OneWay /\ CredentialsFirst /\ Counted

\* The invariant has what is claimed of the model.
LEMMA ExchangeGives ==
  ASSUME ExchangeInv
  PROVE  Exchange!RequestedOnce /\ Exchange!CredentialsReadable /\ Exchange!CreatedOnce
<1>1. spent["failures"] \in Nat /\ requested \in Nat /\ created \in [Requirers -> Nat]
  BY DEF ExchangeInv, Exchange!TypeOK, Exchange!Disturbances
<1>2. Exchange!RequestedOnce
  BY <1>1 DEF ExchangeInv, Counted, Exchange!RequestedOnce
<1>3. Exchange!CreatedOnce
  <2> SUFFICES ASSUME NEW u \in Requirers PROVE created[u] <= 1 + spent["failures"]
    BY DEF Exchange!CreatedOnce
  <2>1. created[u] <= Kept(u) + spent["failures"] /\ Kept(u) \in {0, 1} /\ created[u] \in Nat
    BY <1>1 DEF ExchangeInv, Counted, Kept
  <2> QED BY <1>1, <2>1
<1>4. Exchange!CredentialsReadable
  BY DEF ExchangeInv, OneWay, Exchange!CredentialsReadable, Exchange!Granted, Exchange!Readable,
         Exchange!InSecret, Exchange!InDatabag
<1> QED BY <1>2, <1>3, <1>4

\* A disturbance adds one to its own count.
LEMMA SpendCounts ==
  ASSUME Exchange!TypeOK, NEW d \in Exchange!Disturbances, Exchange!Spend(d)
  PROVE  /\ spent' \in [Exchange!Disturbances -> Nat]
         /\ spent'[d] = spent[d] + 1
         /\ \A x \in Exchange!Disturbances \ {d} : spent'[x] = spent[x]
BY DEF Exchange!TypeOK, Exchange!Spend

\* What is written goes where the credentials are, or all to one place.
LEMMA ExchangeWrittenKeeps ==
  ASSUME ExchangeInv, NEW fs \in SUBSET Exchange!Fields, "credentials" \in fs \/ Exchange!Granted,
         Exchange!Written(fs), wanted' = wanted, hasSecrets' = hasSecrets, seen' = seen
  PROVE  /\ OneWay' /\ CredentialsFirst'
         /\ plain' \subseteq Exchange!Fields /\ secret' \subseteq Exchange!Fields
<1>1. CASE Exchange!Secretly
  <2>1. plain' = {} /\ secret' = secret \union fs /\ plain = {}
    BY <1>1 DEF Exchange!Written, Exchange!Secretly
  <2>2. "credentials" \in secret'
    BY <2>1 DEF Exchange!Granted
  <2> QED BY <1>1, <2>1, <2>2 DEF Exchange!Secretly, ExchangeInv, OneWay, CredentialsFirst,
                                  Exchange!TypeOK
<1>2. CASE ~Exchange!Secretly
  <2>1. plain' = plain \union fs /\ secret' = secret
    BY <1>2 DEF Exchange!Written
  <2>2. secret = {}
    BY <1>2 DEF Exchange!Secretly, ExchangeInv, OneWay
  <2>3. "credentials" \in plain'
    BY <2>1, <2>2 DEF Exchange!Granted
  <2> QED BY <2>1, <2>2, <2>3 DEF ExchangeInv, OneWay, CredentialsFirst, Exchange!TypeOK
<1> QED BY <1>1, <1>2

\* The leader answers the request once, or nothing changes.
LEMMA ProviderChangedKeeps ==
  ASSUME ExchangeInv, NEW u \in Providers, Exchange!ProviderChanged(u)
  PROVE  ExchangeInv'
<1>1. /\ UNCHANGED <<Exchange!leaders, Exchange!demand, seen, view, created, hasSecrets, began,
                     spent>>
      /\ toProvider' = toProvider \ {u}
  BY DEF Exchange!ProviderChanged
<1>2. CASE u = providing /\ request /\ ~asked
  <2>1. /\ asked' = TRUE /\ requested' = requested + 1
        /\ Exchange!Written(Exchange!Fields) /\ endpoints' = [k \in Exchange!Kinds |-> 1]
        /\ Exchange!Notify
    BY <1>2 DEF Exchange!ProviderChanged, Exchange!Grant
  <2>2. /\ OneWay' /\ CredentialsFirst'
        /\ plain' \subseteq Exchange!Fields /\ secret' \subseteq Exchange!Fields
    BY <1>1, <2>1, ExchangeWrittenKeeps DEF Exchange!Fields, Exchange!demand
  <2>3. Exchange!TypeOK'
    BY <1>1, <1>2, <2>1, <2>2 DEF ExchangeInv, Exchange!TypeOK, Exchange!Notify, Exchange!leaders,
                                  Exchange!demand
  <2>4. Counted'
    <3>1. requested' <= 1 + spent["failures"]
      BY <1>2, <2>1 DEF ExchangeInv, Counted, Exchange!TypeOK, Exchange!Disturbances
    <3> QED BY <1>1, <2>1, <3>1 DEF ExchangeInv, Counted, Kept
  <2> QED BY <2>2, <2>3, <2>4 DEF ExchangeInv
<1>3. CASE ~(u = providing /\ request /\ ~asked)
  <2>1. UNCHANGED <<asked, requested, Exchange!offer, toRequirer>>
    BY <1>3 DEF Exchange!ProviderChanged
  <2> QED BY <1>1, <2>1
          DEF ExchangeInv, Exchange!TypeOK, OneWay, CredentialsFirst, Counted, Kept,
              Exchange!leaders, Exchange!demand, Exchange!offer
<1> QED BY <1>2, <1>3

\* A hook that fails may have asked.
LEMMA ProviderFailsKeeps ==
  ASSUME ExchangeInv, NEW u \in Providers, Exchange!ProviderFails(u)
  PROVE  ExchangeInv'
<1>1. /\ Exchange!Spend("failures") /\ requested' = requested + 1
      /\ UNCHANGED <<Exchange!leaders, Exchange!demand, asked, Exchange!offer, seen, view, created,
                     hasSecrets, Exchange!hooks>>
  BY DEF Exchange!ProviderFails
<1>2. spent' \in [Exchange!Disturbances -> Nat] /\ spent'["failures"] = spent["failures"] + 1
  BY <1>1, SpendCounts DEF ExchangeInv, Exchange!Disturbances
<1>3. Exchange!TypeOK'
  BY <1>1, <1>2 DEF ExchangeInv, Exchange!TypeOK, Exchange!leaders, Exchange!demand,
                    Exchange!offer, Exchange!hooks
<1>4. OneWay' /\ CredentialsFirst'
  BY <1>1 DEF ExchangeInv, OneWay, CredentialsFirst, Exchange!demand, Exchange!offer
<1>5. requested \in Nat /\ created \in [Requirers -> Nat] /\ spent["failures"] \in Nat
  BY DEF ExchangeInv, Exchange!TypeOK, Exchange!Disturbances
<1>6. \A v \in Requirers : created'[v] <= Kept(v)' + spent'["failures"]
  <2> TAKE v \in Requirers
  <2>1. created[v] <= Kept(v) + spent["failures"] /\ Kept(v) \in {0, 1} /\ created[v] \in Nat
    BY <1>5 DEF ExchangeInv, Counted, Kept
  <2>2. created'[v] = created[v] /\ Kept(v)' = Kept(v)
    BY <1>1 DEF Kept
  <2> QED BY <1>2, <1>5, <2>1, <2>2
<1>7. requested' <= (IF asked' THEN 1 ELSE 0) + spent'["failures"]
  BY <1>1, <1>2, <1>5 DEF ExchangeInv, Counted
<1> QED BY <1>3, <1>4, <1>6, <1>7 DEF ExchangeInv, Counted

\* Other disturbances leave the count of failures.
LEMMA CountKept ==
  ASSUME ExchangeInv, NEW d \in Exchange!Disturbances \ {"failures"}, Exchange!Spend(d),
         UNCHANGED <<asked, requested, created, seen>>
  PROVE  Counted' /\ spent' \in [Exchange!Disturbances -> Nat]
<1>1. spent' \in [Exchange!Disturbances -> Nat] /\ spent'["failures"] = spent["failures"]
  BY SpendCounts DEF ExchangeInv, Exchange!Disturbances
<1> QED BY <1>1 DEF ExchangeInv, Counted, Kept

\* The endpoints change while the relation lasts.
LEMMA UpdateEndpointsKeeps == ASSUME ExchangeInv, Exchange!UpdateEndpoints PROVE ExchangeInv'
<1>1. /\ Exchange!Granted /\ Exchange!Spend("updates") /\ Exchange!Written({"uris"})
      /\ Exchange!Notify
      /\ UNCHANGED <<Exchange!leaders, Exchange!demand, asked, seen, view, requested, created,
                     hasSecrets, began, toProvider>>
  BY DEF Exchange!UpdateEndpoints
<1>2. endpoints' \in [Exchange!Kinds -> Nat]
  BY DEF Exchange!UpdateEndpoints, ExchangeInv, Exchange!TypeOK
<1>3. /\ OneWay' /\ CredentialsFirst'
      /\ plain' \subseteq Exchange!Fields /\ secret' \subseteq Exchange!Fields
  BY <1>1, ExchangeWrittenKeeps DEF Exchange!Fields, Exchange!demand
<1>4. Counted' /\ spent' \in [Exchange!Disturbances -> Nat]
  BY <1>1, CountKept DEF Exchange!Disturbances
<1>5. Exchange!TypeOK'
  BY <1>1, <1>2, <1>3, <1>4 DEF ExchangeInv, Exchange!TypeOK, Exchange!Notify, Exchange!leaders,
                                Exchange!demand
<1> QED BY <1>3, <1>4, <1>5 DEF ExchangeInv

\* What a unit of the requirer keeps or counts, and the rest of the invariant.
elsewhere == <<Exchange!leaders, Exchange!demand, asked, Exchange!offer, requested, hasSecrets>>

\* What the requirer does.
LEMMA RequirerKeeps ==
  ASSUME ExchangeInv, NEW u \in Requirers, UNCHANGED elsewhere, began' = began,
         toRequirer' \subseteq Requirers, toProvider' \subseteq Providers,
         Exchange!Noticed(u), spent' \in [Exchange!Disturbances -> Nat],
         \/ spent' = spent /\ seen' = [seen EXCEPT ![u] = Exchange!Offered]
         \/ spent'["failures"] = spent["failures"] + 1 /\ seen' = seen
  PROVE  ExchangeInv'
<1>1. /\ created' = IF Exchange!Shared(u) THEN [created EXCEPT ![u] = @ + 1] ELSE created
      /\ view' \in {view, [view EXCEPT ![u] = Exchange!Read]}
  BY DEF Exchange!Noticed
<1>2. /\ requested \in Nat /\ created \in [Requirers -> Nat] /\ spent["failures"] \in Nat
      /\ seen \in [Requirers ->
                     [plain : SUBSET Exchange!Fields, uri : BOOLEAN,
                      endpoints : [Exchange!Kinds -> Nat]]]
  BY DEF ExchangeInv, Exchange!TypeOK, Exchange!Disturbances
<1>3. Exchange!Offered
        \in [plain : SUBSET Exchange!Fields, uri : BOOLEAN, endpoints : [Exchange!Kinds -> Nat]]
  BY DEF ExchangeInv, Exchange!TypeOK, Exchange!Offered
<1>4. Exchange!Read \in [credentials : BOOLEAN, endpoints : [Exchange!Kinds -> Nat]]
  BY DEF ExchangeInv, Exchange!TypeOK, Exchange!Read, Exchange!Readable, Exchange!InSecret,
         Exchange!InDatabag
<1>5. Exchange!TypeOK'
  <2>1. seen' \in [Requirers ->
                     [plain : SUBSET Exchange!Fields, uri : BOOLEAN,
                      endpoints : [Exchange!Kinds -> Nat]]]
    BY <1>2, <1>3
  <2>2. view' \in [Requirers -> [credentials : BOOLEAN, endpoints : [Exchange!Kinds -> Nat]]]
    BY <1>1, <1>4 DEF ExchangeInv, Exchange!TypeOK
  <2>3. created' \in [Requirers -> Nat]
    BY <1>1, <1>2
  <2> QED BY <2>1, <2>2, <2>3 DEF ExchangeInv, Exchange!TypeOK, elsewhere, Exchange!leaders,
                                  Exchange!demand, Exchange!offer
<1>6. OneWay'
  BY DEF ExchangeInv, OneWay, elsewhere, Exchange!demand, Exchange!offer
<1>7. CredentialsFirst'
  <2>1. Exchange!Offered.plain = plain /\ (Exchange!Offered.uri <=> secret # {})
    BY DEF Exchange!Offered
  <2>2. ASSUME NEW v \in Requirers
        PROVE  seen'[v].plain \subseteq plain /\ (seen'[v].uri => secret # {})
    <3>1. seen'[v] \in {seen[v], Exchange!Offered}
      BY <1>2
    <3> QED BY <2>1, <3>1 DEF ExchangeInv, CredentialsFirst
  <2> QED BY <2>2 DEF ExchangeInv, CredentialsFirst, elsewhere, Exchange!offer
<1>8. requested' <= (IF asked' THEN 1 ELSE 0) + spent'["failures"]
  BY <1>2 DEF ExchangeInv, Counted, elsewhere
<1>9. ASSUME NEW v \in Requirers
      PROVE  created'[v] <= Kept(v)' + spent'["failures"]
  <2>1. /\ created[v] <= Kept(v) + spent["failures"] /\ created[v] \in Nat
        /\ Kept(v) \in {0, 1} /\ Kept(v)' \in {0, 1}
    BY <1>2 DEF ExchangeInv, Counted, Kept
  <2>2. CASE v # u
    <3>1. created'[v] = created[v]
      BY <1>1, <1>2, <2>2
    <3>2. Kept(v)' = Kept(v)
      BY <1>2, <2>2 DEF Kept
    <3> QED BY <1>2, <2>1, <3>1, <3>2
  <2>3. CASE v = u /\ ~Exchange!Shared(u)
    <3>1. created'[v] = created[v]
      BY <1>1, <2>3
    <3>2. Kept(v) = 1 => Kept(v)' = 1
      BY <1>2, <2>3 DEF Kept, Exchange!Offered, ExchangeInv, CredentialsFirst
    <3> QED BY <1>2, <2>1, <3>1, <3>2
  <2>4. CASE v = u /\ Exchange!Shared(u)
    <3>1. created'[v] = created[v] + 1
      BY <1>1, <1>2, <2>4
    <3>2. Kept(v) = 0
      BY <2>4 DEF Kept, Exchange!Shared, ExchangeInv, OneWay, CredentialsFirst
    <3>3. CASE spent' = spent /\ seen' = [seen EXCEPT ![u] = Exchange!Offered]
      <4>1. Kept(v)' = 1
        BY <1>2, <2>4, <3>3 DEF Kept, Exchange!Shared, Exchange!Offered
      <4> QED BY <1>2, <2>1, <3>1, <3>2, <3>3, <4>1
    <3>4. CASE spent'["failures"] = spent["failures"] + 1 /\ seen' = seen
      BY <1>2, <2>1, <3>1, <3>2, <3>4
    <3> QED BY <3>3, <3>4
  <2> QED BY <2>2, <2>3, <2>4
<1> QED BY <1>5, <1>6, <1>7, <1>8, <1>9 DEF ExchangeInv, Counted

\* An event makes a unit count and keep; a failed one makes it count alone.
LEMMA RequirerChangedKeeps ==
  ASSUME ExchangeInv, NEW u \in Requirers, Exchange!RequirerChanged(u) \/ Exchange!RequirerFails(u)
  PROVE  ExchangeInv'
<1>1. CASE Exchange!RequirerChanged(u)
  BY <1>1, RequirerKeeps DEF Exchange!RequirerChanged, elsewhere, ExchangeInv, Exchange!TypeOK
<1>2. CASE Exchange!RequirerFails(u)
  <2>1. /\ Exchange!Spend("failures") /\ Exchange!Noticed(u)
        /\ UNCHANGED <<elsewhere, seen, Exchange!hooks>>
    BY <1>2 DEF Exchange!RequirerFails, elsewhere
  <2>2. spent' \in [Exchange!Disturbances -> Nat] /\ spent'["failures"] = spent["failures"] + 1
    BY <2>1, SpendCounts DEF ExchangeInv, Exchange!Disturbances
  <2> QED BY <2>1, <2>2, RequirerKeeps DEF elsewhere, Exchange!hooks, ExchangeInv, Exchange!TypeOK
<1> QED BY <1>1, <1>2

\* The leader of the requirer asks; only then it may want secrets.
LEMMA RequirerCreatedKeeps ==
  ASSUME ExchangeInv, NEW u \in Requirers, Exchange!RequirerCreated(u)
  PROVE  ExchangeInv'
<1>1. /\ began' \subseteq Requirers
      /\ UNCHANGED <<Exchange!leaders, asked, Exchange!offer, seen, view, requested, created,
                     hasSecrets, toRequirer, spent>>
      /\ \/ request' = TRUE /\ Exchange!Wants /\ toProvider' = Providers
         \/ UNCHANGED <<Exchange!demand, toProvider>>
  BY DEF Exchange!RequirerCreated, ExchangeInv, Exchange!TypeOK
<1>2. request' \in BOOLEAN /\ wanted' \in BOOLEAN /\ (wanted' \/ asked' => request')
  <2>1. CASE request' = TRUE /\ Exchange!Wants
    BY <2>1 DEF Exchange!Wants
  <2>2. CASE UNCHANGED Exchange!demand
    BY <1>1, <2>2 DEF ExchangeInv, Exchange!TypeOK, Exchange!demand
  <2> QED BY <1>1, <2>1, <2>2
<1>3. toProvider' \subseteq Providers
  BY <1>1 DEF ExchangeInv, Exchange!TypeOK
<1>4. Exchange!TypeOK'
  BY <1>1, <1>2, <1>3 DEF ExchangeInv, Exchange!TypeOK, Exchange!leaders, Exchange!offer
<1>5. OneWay'
  BY <1>1 DEF ExchangeInv, Exchange!TypeOK, OneWay, Exchange!Wants, Exchange!demand, Exchange!offer
<1> QED BY <1>1, <1>4, <1>5 DEF ExchangeInv, CredentialsFirst, Counted, Kept, Exchange!offer

\* Elections, and a model that gets secrets.
LEMMA ExchangeJujuKeeps ==
  ASSUME ExchangeInv, Exchange!ProviderElection \/ Exchange!RequirerElection \/ Exchange!Upgrade
  PROVE  ExchangeInv'
<1>1. UNCHANGED <<Exchange!demand, asked, Exchange!offer, seen, view, requested, created,
                  Exchange!hooks>>
  BY DEF Exchange!ProviderElection, Exchange!RequirerElection, Exchange!Upgrade
<1>2. Counted' /\ spent' \in [Exchange!Disturbances -> Nat]
  BY <1>1, CountKept DEF Exchange!ProviderElection, Exchange!RequirerElection, Exchange!Upgrade,
                         Exchange!Disturbances
<1>3. hasSecrets \subseteq hasSecrets' /\ hasSecrets' \subseteq {"provider", "requirer"}
  BY DEF Exchange!ProviderElection, Exchange!RequirerElection, Exchange!Upgrade, ExchangeInv,
         Exchange!TypeOK
<1>4. providing' \in Providers /\ requiring' \in Requirers
  BY DEF Exchange!ProviderElection, Exchange!RequirerElection, Exchange!Upgrade, ExchangeInv,
         Exchange!TypeOK, Exchange!leaders
<1>5. Exchange!TypeOK'
  BY <1>1, <1>2, <1>3, <1>4 DEF ExchangeInv, Exchange!TypeOK, Exchange!demand, Exchange!offer,
                                Exchange!hooks
<1>6. OneWay' /\ CredentialsFirst'
  BY <1>1, <1>3 DEF ExchangeInv, OneWay, CredentialsFirst, Exchange!demand, Exchange!offer
<1> QED BY <1>2, <1>5, <1>6 DEF ExchangeInv

\* The invariant holds at first.
LEMMA ExchangeInit ==
  ASSUME Exchange!Init
  PROVE  ExchangeInv
<1>1. /\ \A u \in Requirers :
           seen[u] = [plain |-> {}, uri |-> FALSE, endpoints |-> Exchange!Unset]
      /\ \A u \in Requirers : seen[u].plain = {} /\ seen[u].uri = FALSE /\ created[u] = 0
      /\ spent["failures"] = 0
  BY DEF Exchange!Init, Exchange!Disturbances
<1>2. Exchange!TypeOK
  <2>1. Exchange!Unset \in [Exchange!Kinds -> Nat]
    BY DEF Exchange!Unset
  <2>2. /\ seen \in [Requirers ->
                     [plain : SUBSET Exchange!Fields, uri : BOOLEAN,
                      endpoints : [Exchange!Kinds -> Nat]]]
        /\ view \in [Requirers -> [credentials : BOOLEAN, endpoints : [Exchange!Kinds -> Nat]]]
    BY <2>1 DEF Exchange!Init
  <2> QED BY <2>1, <2>2 DEF Exchange!Init, Exchange!TypeOK
<1>3. OneWay /\ CredentialsFirst
  BY <1>1 DEF Exchange!Init, OneWay, CredentialsFirst
<1>4. Counted
  BY <1>1 DEF Exchange!Init, Counted, Kept
<1> QED BY <1>2, <1>3, <1>4 DEF ExchangeInv

\* The invariant is preserved by every hook and disturbance.
LEMMA ExchangeKeep ==
  ASSUME ExchangeInv, [Exchange!Next]_(Exchange!vars)
  PROVE  ExchangeInv'
<1>1. ASSUME NEW u \in Providers, Exchange!ProviderChanged(u) \/ Exchange!ProviderFails(u)
      PROVE  ExchangeInv'
  BY <1>1, ProviderChangedKeeps, ProviderFailsKeeps
<1>2. ASSUME NEW u \in Requirers,
             Exchange!RequirerCreated(u) \/ Exchange!RequirerChanged(u) \/ Exchange!RequirerFails(u)
      PROVE  ExchangeInv'
  BY <1>2, RequirerCreatedKeeps, RequirerChangedKeeps
<1>3. CASE UNCHANGED Exchange!vars
  BY <1>3 DEF Exchange!vars, Exchange!leaders, Exchange!demand, Exchange!offer, Exchange!hooks,
              ExchangeInv, Exchange!TypeOK, OneWay, CredentialsFirst, Counted, Kept
<1> QED BY <1>1, <1>2, <1>3, UpdateEndpointsKeeps, ExchangeJujuKeeps DEF Exchange!Next

\* The invariant holds in every state.
THEOREM ExchangeInvariant == Spec => [](Runs("exchange") => ExchangeInv)
<1>1. Init => (Runs("exchange") => ExchangeInv)
  BY ExchangeInit DEF Init, Runs
<1>2. (Runs("exchange") => ExchangeInv) /\ [Next]_vars => (Runs("exchange") => ExchangeInv)'
  BY ExchangeSteps, ExchangeKeep, OnePart DEF Runs
<1> QED BY <1>1, <1>2, PTL DEF Spec

\* Credentials that were given can be read, whichever side had secrets when the relation began
\* and whichever has got them since (data_interfaces.py:1545-1573).
THEOREM CredentialsCanBeRead == Spec => []CredentialsReadable
<1>1. (Runs("exchange") => ExchangeInv) => CredentialsReadable
  BY ExchangeGives DEF CredentialsReadable
<1> QED BY <1>1, ExchangeInvariant, PTL

\* A database is requested once, and each unit of the requirer told once that it was created;
\* only failed hooks ask and tell again (data_interfaces.py:2271-2279, 3556-3576).
THEOREM AskedAndToldOnce == Spec => []AskedOnce
<1>1. (Runs("exchange") => ExchangeInv) => AskedOnce
  BY ExchangeGives DEF AskedOnce
<1> QED BY <1>1, ExchangeInvariant, PTL

----------------------------------------------------------------------------
(* The secrets of the peer relation *)

\* ReadsBack alone is not inductive: a field that is removed from the secret would show what
\* the databag has of it, unless it is in one place.
SecretsInv == Secrets!TypeOK /\ Secrets!OnePlace /\ Secrets!ReadsBack

\* A secret that is found has a content.
LEMMA FoundType ==
  ASSUME Secrets!TypeOK
  PROVE  Secrets!Found \in Secrets!Content \union {Absent}
BY DEF Secrets!TypeOK, Secrets!Found

\* What is written is found next, in the place it belongs, and is a content.
LEMMA WrittenFound ==
  ASSUME Secrets!Distinct, Secrets!TypeOK, Secrets!Found # Absent, NEW c \in Secrets!Content,
         labelled' = Secrets!Written(c), UNCHANGED <<legacy, unlabelled>>, uri' \in {uri, FALSE}
  PROVE  Secrets!Found' = c /\ labelled' \in Secrets!Content \union {Absent}
<1>1. CASE c = Secrets!Found
  BY <1>1 DEF Secrets!Written, Secrets!Labels, Secrets!Found, Secrets!TypeOK, Secrets!Distinct
<1>2. CASE c # Secrets!Found
  BY <1>2 DEF Secrets!Written, Secrets!Found, Secrets!Distinct
<1> QED BY <1>1, <1>2

\* SetSecret writes one field and leaves what the secrets have of the others.
LEMMA SetFound ==
  ASSUME Secrets!Distinct, Secrets!TypeOK, NEW f \in SecretFields, NEW v \in Values,
         Secrets!SetSecret(f, v)
  PROVE  /\ Secrets!Found' \in Secrets!Content /\ labelled' \in Secrets!Content \union {Absent}
         /\ Secrets!Found'[f] = v
         /\ \A g \in SecretFields \ {f} :
              Secrets!Found'[g] = IF Secrets!Found = Absent THEN None ELSE Secrets!Found[g]
<1>1. CASE Secrets!Found = Absent
  <2>1. Secrets!Placed(f, v) \in Secrets!Content
    BY DEF Secrets!Placed, Secrets!Content
  <2>2. labelled' = Secrets!Placed(f, v)
    BY <1>1 DEF Secrets!SetSecret, Secrets!Updated
  <2>3. Secrets!Found' = Secrets!Placed(f, v)
    BY <2>1, <2>2 DEF Secrets!Found, Secrets!Distinct
  <2> QED BY <1>1, <2>1, <2>2, <2>3 DEF Secrets!Placed
<1>2. CASE Secrets!Found # Absent
  <2> DEFINE c == [Secrets!Found EXCEPT ![f] = v]
  <2>1. Secrets!Found \in Secrets!Content
    BY <1>2, FoundType
  <2>2. c \in Secrets!Content /\ c[f] = v /\ \A g \in SecretFields \ {f} : c[g] = Secrets!Found[g]
    BY <2>1 DEF Secrets!Content
  <2>3. labelled' = Secrets!Written(c) /\ UNCHANGED <<legacy, unlabelled>> /\ uri' = FALSE
    BY <1>2 DEF Secrets!SetSecret, Secrets!Updated, Secrets!Migrates
  <2> HIDE DEF c
  <2>4. Secrets!Found' = c /\ labelled' \in Secrets!Content \union {Absent}
    BY <1>2, <2>2, <2>3, WrittenFound
  <2> QED BY <1>2, <2>2, <2>4
<1> QED BY <1>1, <1>2

\* SetSecret preserves the invariant.
LEMMA SetKeeps ==
  ASSUME Secrets!Distinct, SecretsInv, NEW f \in SecretFields, NEW v \in Values,
         Secrets!SetSecret(f, v)
  PROVE  SecretsInv'
<1> USE DEF SecretsInv
<1>1. /\ databag' = [databag EXCEPT ![f] = None]
      /\ expected' = [expected EXCEPT ![f] = v]
      /\ uri' = FALSE
      /\ UNCHANGED <<legacy, unlabelled>>
  BY DEF Secrets!SetSecret, Secrets!Migrates, Secrets!WithoutField
<1>2. Secrets!TypeOK'
  BY <1>1, SetFound DEF Secrets!TypeOK
<1>3. /\ databag'[f] = None /\ expected'[f] = v
      /\ \A g \in SecretFields \ {f} : databag'[g] = databag[g] /\ expected'[g] = expected[g]
  BY <1>1 DEF Secrets!TypeOK
<1>4. /\ Secrets!InSecret(f)' = v
      /\ \A g \in SecretFields \ {f} : Secrets!InSecret(g)' = Secrets!InSecret(g)
  BY SetFound DEF Secrets!InSecret, Secrets!Current, Secrets!Contents, Secrets!Distinct
<1>5. Secrets!OnePlace'
  <2>1. Secrets!Current' \subseteq Secrets!Current \union {f}
    BY SetFound DEF Secrets!Current, Secrets!Contents, Secrets!Distinct
  <2>2. Secrets!Current \subseteq SecretFields
    BY DEF Secrets!Current, Secrets!Contents
  <2> QED BY <1>3, <2>1, <2>2 DEF Secrets!OnePlace
<1>6. Secrets!ReadsBack'
  <2>1. Secrets!GetSecret(f)' = expected'[f]
    BY <1>3, <1>4 DEF Secrets!GetSecret
  <2>2. \A g \in SecretFields \ {f} : Secrets!GetSecret(g)' = Secrets!GetSecret(g)
    BY <1>3, <1>4 DEF Secrets!GetSecret
  <2> QED BY <1>3, <2>1, <2>2 DEF Secrets!ReadsBack
<1> QED BY <1>2, <1>5, <1>6

\* RemoveSecret preserves the invariant.
LEMMA RemoveKeeps ==
  ASSUME Secrets!Distinct, SecretsInv, NEW f \in SecretFields, Secrets!RemoveSecret(f)
  PROVE  SecretsInv'
<1> USE DEF SecretsInv
<1>1. expected' = [expected EXCEPT ![f] = None] /\ UNCHANGED <<legacy, unlabelled, uri>>
  BY DEF Secrets!RemoveSecret
<1>2. /\ expected'[f] = None
      /\ \A g \in SecretFields \ {f} : expected'[g] = expected[g]
  BY <1>1 DEF Secrets!TypeOK
<1>3. CASE f \in Secrets!Current
  <2> DEFINE c == [Secrets!Found EXCEPT ![f] = Deleted]
  <2>1. Secrets!Found \in Secrets!Content /\ Secrets!Found # Absent
    BY <1>3, FoundType DEF Secrets!Current
  <2>2. /\ c \in Secrets!Content /\ c[f] = Deleted
        /\ \A g \in SecretFields \ {f} : c[g] = Secrets!Found[g]
    BY <2>1 DEF Secrets!Content
  <2>3. labelled' = Secrets!Written(c) /\ UNCHANGED databag
    BY <1>3 DEF Secrets!RemoveSecret, Secrets!Deletes
  <2> HIDE DEF c
  <2>4. Secrets!Found' = c /\ labelled' \in Secrets!Content \union {Absent}
    BY <1>1, <2>1, <2>2, <2>3, WrittenFound DEF Secrets!TypeOK
  <2>5. Secrets!TypeOK'
    BY <1>1, <2>3, <2>4 DEF Secrets!TypeOK
  <2>6. Secrets!Current' = Secrets!Current \ {f}
    BY <2>1, <2>2, <2>4 DEF Secrets!Current, Secrets!Contents, Secrets!Distinct
  <2>7. /\ Secrets!InSecret(f)' = None
        /\ \A g \in SecretFields \ {f} : Secrets!InSecret(g)' = Secrets!InSecret(g)
    BY <2>2, <2>4, <2>6 DEF Secrets!InSecret
  <2>8. Secrets!OnePlace'
    BY <2>3, <2>6 DEF Secrets!OnePlace
  <2>9. databag'[f] = None
    BY <1>3, <2>3 DEF Secrets!OnePlace
  <2> QED BY <1>2, <2>3, <2>5, <2>7, <2>8, <2>9 DEF Secrets!ReadsBack, Secrets!GetSecret
<1>4. CASE f \notin Secrets!Current
  <2>1. /\ databag' = IF f \in Renamed THEN databag ELSE [databag EXCEPT ![f] = None]
        /\ UNCHANGED labelled
    BY <1>4 DEF Secrets!RemoveSecret, Secrets!Deletes, Secrets!WithoutField
  <2>2. Secrets!TypeOK'
    BY <1>1, <2>1 DEF Secrets!TypeOK
  <2>3. /\ \A g \in SecretFields \ {f} : databag'[g] = databag[g]
        /\ databag'[f] = IF f \in Renamed THEN databag[f] ELSE None
    BY <2>1 DEF Secrets!TypeOK
  <2>4. /\ Secrets!Current' = Secrets!Current
        /\ \A g \in SecretFields : Secrets!InSecret(g)' = Secrets!InSecret(g)
    BY <1>1, <2>1 DEF Secrets!Current, Secrets!Found, Secrets!InSecret
  <2>5. Secrets!InSecret(f) = None
    BY <1>4 DEF Secrets!InSecret
  <2>6. Secrets!OnePlace'
    BY <1>4, <2>3, <2>4 DEF Secrets!OnePlace, Secrets!Current, Secrets!Contents
  <2>7. \A g \in SecretFields \ {f} : Secrets!GetSecret(g)' = Secrets!GetSecret(g)
    BY <2>3, <2>4 DEF Secrets!GetSecret
  <2>8. Secrets!GetSecret(f)' = IF f \in Renamed THEN databag[f] ELSE None
    BY <2>3, <2>4, <2>5 DEF Secrets!GetSecret
  <2>9. Secrets!ReadsBack'
    BY <1>2, <2>3, <2>7, <2>8 DEF Secrets!ReadsBack
  <2> QED BY <2>2, <2>6, <2>9
<1> QED BY <1>3, <1>4

\* The invariant holds at first, wherever the earlier revision kept its values.
LEMMA SecretsInit ==
  ASSUME Secrets!Distinct, Secrets!Init
  PROVE  SecretsInv
<1>1. PICK old \in [SecretFields -> Values \union {None}], place \in {"databag", "legacy", "uri"} :
        /\ databag = IF place = "databag" THEN old ELSE [f \in SecretFields |-> None]
        /\ legacy = IF place = "legacy" THEN old ELSE Absent
        /\ unlabelled = IF place = "uri" THEN old ELSE Absent
        /\ uri = (place = "uri")
        /\ labelled = Absent
        /\ expected = old
  BY DEF Secrets!Init
<1>2. old \in Secrets!Content /\ old # Absent /\ \A f \in SecretFields : old[f] # Deleted
  BY DEF Secrets!Content, Secrets!Distinct
<1>3. Secrets!TypeOK
  BY <1>1, <1>2 DEF Secrets!TypeOK
<1>4. CASE place = "databag"
  <2>1. Secrets!Current = {} /\ databag = old
    BY <1>1, <1>4 DEF Secrets!Current, Secrets!Found
  <2> QED BY <1>1, <1>3, <2>1 DEF SecretsInv, Secrets!OnePlace, Secrets!ReadsBack,
                                  Secrets!GetSecret, Secrets!InSecret
<1>5. CASE place # "databag"
  <2>1. Secrets!Found = old /\ \A f \in SecretFields : databag[f] = None
    BY <1>1, <1>2, <1>5 DEF Secrets!Found
  <2>2. \A f \in SecretFields : Secrets!InSecret(f) = old[f]
    BY <1>2, <2>1 DEF Secrets!InSecret, Secrets!Current, Secrets!Contents
  <2>3. Secrets!OnePlace
    BY <2>1 DEF Secrets!OnePlace, Secrets!Current, Secrets!Contents
  <2> QED BY <1>1, <1>3, <2>1, <2>2, <2>3 DEF SecretsInv, Secrets!ReadsBack, Secrets!GetSecret
<1> QED BY <1>4, <1>5

\* The invariant is preserved by every call.
LEMMA SecretsKeep ==
  ASSUME SecretsInv, [Secrets!Next]_(Secrets!vars)
  PROVE  SecretsInv'
<1>1. CASE Secrets!Next
  <2>1. PICK f \in SecretFields, v \in Values \union {None} :
          Secrets!RemoveSecret(f) \/ Secrets!SetOrRemove(f, v)
    BY <1>1 DEF Secrets!Next
  <2>2. Secrets!RemoveSecret(f) \/ (v \in Values /\ Secrets!SetSecret(f, v))
    BY <2>1 DEF Secrets!SetOrRemove
  <2> QED BY <2>2, SetKeeps, RemoveKeeps, SecretsAssumption
<1>2. CASE UNCHANGED Secrets!vars
  BY <1>2 DEF Secrets!vars, SecretsInv, Secrets!TypeOK, Secrets!OnePlace, Secrets!ReadsBack,
              Secrets!GetSecret, Secrets!InSecret, Secrets!Current, Secrets!Contents, Secrets!Found
<1> QED BY <1>1, <1>2

\* The invariant holds in every state.
THEOREM SecretsInvariant == Spec => [](Runs("secrets") => SecretsInv)
<1>1. Init => (Runs("secrets") => SecretsInv)
  BY SecretsInit, SecretsAssumption DEF Init, Runs
<1>2. (Runs("secrets") => SecretsInv) /\ [Next]_vars => (Runs("secrets") => SecretsInv)'
  BY SecretsSteps, SecretsKeep, OnePart DEF Runs
<1> QED BY <1>1, <1>2, PTL DEF Spec

\* A field reads as it was written last, wherever an earlier revision kept it and whichever
\* other fields have moved since (charm.py:738-804).
THEOREM SecretsReadBack == Spec => []ReadsBack
BY SecretsInvariant, PTL DEF SecretsInv, ReadsBack

\* A field that a secret has is not in the databag (data_interfaces.py:2731-2743).
THEOREM InOnePlace == Spec => []OnePlace
BY SecretsInvariant, PTL DEF SecretsInv, OnePlace

----------------------------------------------------------------------------
(* Read-only databases and the wildcard *)

\* What of the types the proof needs.
RoutesTyped ==
  /\ granted \in [RoutedClients -> {"none", "asked", "granted", "refused", "gone"}]
  /\ dbsConfig = [relations |-> dbsConfig.relations, wildcard |-> dbsConfig.wildcard]

\* The database of a client that has its user has the auth function, and the relation an entry:
\* so nobody else's removal takes the function away.
ClientsServed ==
  \A r \in RoutedClients : granted[r] = "granted" =>
    RouteDatabase[r] \in authDbs /\ r \in dbsConfig.relations

RoutesInv == RoutesTyped /\ ClientsServed

\* What the invariant says of the wildcard.
LEMMA RoutesGives == ASSUME RoutesInv PROVE Routes!WildcardChecked
BY DEF RoutesInv, ClientsServed, Routes!WildcardChecked

\* Steps that leave the requests and their entries may add auth functions.
LEMMA RoutesStutterKeeps ==
  ASSUME RoutesInv, UNCHANGED <<granted, dbsConfig>>, authDbs \subseteq authDbs'
  PROVE  RoutesInv'
BY DEF RoutesInv, RoutesTyped, ClientsServed

\* A request is entered with all that were made before it.
LEMMA DatabaseRequestedKeeps ==
  ASSUME RoutesInv, NEW r \in RoutedClients, Routes!DatabaseRequested(r)
  PROVE  RoutesInv'
<1>1. dbsConfig' = Routes!Requested(r) /\ granted[r] = "asked"
  BY DEF Routes!DatabaseRequested
<1>2. dbsConfig'.relations = Routes!Scanned /\ RoutesTyped'
  <2>1. dbsConfig' = [relations |-> Routes!Scanned, wildcard |-> dbsConfig'.wildcard]
    BY <1>1 DEF Routes!Requested
  <2>2. \/ granted' = granted
        \/ \E s \in {"granted", "refused"} : granted' = [granted EXCEPT ![r] = s]
    BY DEF Routes!DatabaseRequested
  <2> QED BY <2>1, <2>2 DEF RoutesInv, RoutesTyped
<1>3. /\ authDbs \subseteq authDbs'
      /\ \/ granted' = granted
         \/ granted' = [granted EXCEPT ![r] = "refused"]
         \/ granted' = [granted EXCEPT ![r] = "granted"] /\ RouteDatabase[r] \in authDbs'
  BY DEF Routes!DatabaseRequested
<1>4. ClientsServed'
  <2> SUFFICES ASSUME NEW x \in RoutedClients, granted'[x] = "granted"
               PROVE  RouteDatabase[x] \in authDbs' /\ x \in dbsConfig'.relations
    BY DEF ClientsServed
  <2>1. CASE x = r
    BY <1>1, <1>2, <1>3, <2>1 DEF RoutesInv, RoutesTyped, Routes!Scanned
  <2>2. CASE x # r
    <3>1. granted[x] = "granted"
      BY <1>3, <2>2 DEF RoutesInv, RoutesTyped
    <3> QED BY <1>2, <1>3, <3>1 DEF RoutesInv, ClientsServed, Routes!Scanned
  <2> QED BY <2>1, <2>2
<1> QED BY <1>2, <1>4 DEF RoutesInv

\* The auth function stays as long as another relation has an entry for the database.
LEMMA BrokenKeeps ==
  ASSUME RoutesInv, NEW r \in RoutedClients, Routes!Broken(r)
  PROVE  RoutesInv'
<1>1. /\ granted' = [granted EXCEPT ![r] = "gone"]
      /\ dbsConfig' = [dbsConfig EXCEPT !.relations = @ \ {r}]
      /\ authDbs' = IF RouteDatabase[r] \in Routes!Named(dbsConfig'.relations)
                    THEN authDbs ELSE authDbs \ {RouteDatabase[r]}
  BY DEF Routes!Broken
<1>2. RoutesTyped' /\ dbsConfig'.relations = dbsConfig.relations \ {r}
  BY <1>1 DEF RoutesInv, RoutesTyped
<1>3. ASSUME NEW x \in RoutedClients, granted'[x] = "granted"
      PROVE  RouteDatabase[x] \in authDbs' /\ x \in dbsConfig'.relations
  <2>1. x # r /\ granted[x] = "granted"
    BY <1>1, <1>3 DEF RoutesInv, RoutesTyped
  <2>2. x \in dbsConfig'.relations /\ RouteDatabase[x] \in authDbs
    BY <1>2, <2>1 DEF RoutesInv, ClientsServed
  <2>3. RouteDatabase[x] \in Routes!Named(dbsConfig'.relations)
    BY <2>2 DEF Routes!Named
  <2> QED BY <1>1, <2>2, <2>3
<1> QED BY <1>2, <1>3 DEF RoutesInv, ClientsServed

\* A database that has an entry is not dropped.
LEMMA DropDatabaseKeeps ==
  ASSUME RoutesInv, NEW n \in RouteNames, Routes!DropDatabase(n)
  PROVE  RoutesInv'
<1>1. /\ n \notin Routes!Named(dbsConfig.relations) /\ authDbs' = authDbs \ {n}
      /\ UNCHANGED <<granted, dbsConfig>>
  BY DEF Routes!DropDatabase
<1>2. ASSUME NEW x \in RoutedClients, granted[x] = "granted"
      PROVE  RouteDatabase[x] \in authDbs' /\ x \in dbsConfig.relations
  BY <1>1, <1>2 DEF RoutesInv, ClientsServed, Routes!Named
<1> QED BY <1>1, <1>2 DEF RoutesInv, RoutesTyped, ClientsServed

\* The invariant holds at first.
LEMMA RoutesInit ==
  ASSUME Routes!Init
  PROVE  RoutesInv
BY DEF Routes!Init, RoutesInv, RoutesTyped, ClientsServed

\* The invariant is preserved by every hook and disturbance.
LEMMA RoutesKeep ==
  ASSUME RoutesInv, [Routes!Next]_(Routes!vars)
  PROVE  RoutesInv'
<1>1. ASSUME NEW r \in RoutedClients, Routes!Relate(r) PROVE RoutesInv'
  <2>1. granted' = [granted EXCEPT ![r] = "asked"] /\ UNCHANGED <<dbsConfig, authDbs>>
    BY <1>1 DEF Routes!Relate, Routes!postgres
  <2>2. \A x \in RoutedClients : granted'[x] = "granted" => granted[x] = "granted"
    BY <2>1 DEF RoutesInv, RoutesTyped
  <2> QED BY <2>1, <2>2 DEF RoutesInv, RoutesTyped, ClientsServed
<1>2. CASE Routes!UpdateStatus \/ Routes!Scale \/ UNCHANGED Routes!vars
  BY <1>2, RoutesStutterKeeps DEF Routes!UpdateStatus, Routes!Scale, Routes!vars, Routes!postgres
<1>3. ASSUME NEW u \in Pods, Routes!Renders(u) \/ Routes!Elect(u) PROVE RoutesInv'
  BY <1>3, RoutesStutterKeeps DEF Routes!Renders, Routes!Elect, Routes!postgres
<1>4. ASSUME NEW n \in RouteNames, Routes!CreateDatabase(n) PROVE RoutesInv'
  BY <1>4, RoutesStutterKeeps DEF Routes!CreateDatabase
<1> QED BY <1>1, <1>2, <1>3, <1>4, DatabaseRequestedKeeps, BrokenKeeps, DropDatabaseKeeps
        DEF Routes!Next

\* The invariant holds in every state.
THEOREM RoutesInvariant == Spec => [](Runs("routes") => RoutesInv)
<1>1. Init => (Runs("routes") => RoutesInv)
  BY RoutesInit DEF Init, Runs
<1>2. (Runs("routes") => RoutesInv) /\ [Next]_vars => (Runs("routes") => RoutesInv)'
  BY RoutesSteps, RoutesKeep, OnePart DEF Runs
<1> QED BY <1>1, <1>2, PTL DEF Spec

\* Whoever asked for the wildcard and whichever requests were refused or removed since, its
\* logins are checked while a client of its database is left (pgbouncer_provider.py:139-144,
\* 232-240).
THEOREM WildcardIsChecked == Spec => [](Runs("routes") => Routes!WildcardChecked)
<1>1. (Runs("routes") => RoutesInv) => (Runs("routes") => Routes!WildcardChecked)
  BY RoutesGives
<1> QED BY <1>1, RoutesInvariant, PTL

----------------------------------------------------------------------------
(* TLS *)

\* The last request was made with the key there is, and the container has no certificate for
\* a request to come.
KeysKept ==
  /\ made > 0 => key # 0
  /\ csr = made
  /\ csr # 0 => keyOf[csr] = key
  /\ file.cert <= made

\* What leaves a trace: events are put off by failures, the container comes back after restarts.
TracesLeft ==
  /\ tlsSpent["failures"] = 0 => deferred = {}
  /\ "pebble_ready" \in tlsHooks => tlsSpent["restarts"] > 0
  /\ ~tlsRelated => csrs = {}

\* Only a restart or a push that broke off brings a key next to another one's certificate, and
\* the certificate for the last request only as long as it is to be pushed again.
FilesMatch ==
  file.cert # 0 /\ keyOf[file.cert] # file.key =>
    /\ tlsSpent["restarts"] > 0 \/ tlsSpent["failures"] > 0
    /\ tlsUp /\ cert = csr => csr \in deferred

\* TlsHasFiles is not inductive: any hook enables TLS, by the certificate that is stored.
FilesThere ==
  tlsUp /\ (tls \/ cert # 0) =>
    \/ file.key # 0 /\ file.cert # 0
    \/ cert \in deferred \/ (cert # csr /\ tlsSpent["failures"] > 0)

TlsInv ==
  /\ Tls!TypeOK
  /\ KeysKept /\ TracesLeft /\ FilesMatch /\ FilesThere
  /\ Tls!TlsEnds

\* From it follow the properties.
LEMMA TlsGives == ASSUME TlsInv PROVE Tls!KeyMatches /\ Tls!TlsHasFiles
<1>1. tlsSpent["restarts"] \in Nat /\ tlsSpent["failures"] \in Nat
  BY DEF TlsInv, Tls!TypeOK, Tls!Disturbances
<1>2. ASSUME tlsUp, file.cert # 0, keyOf[file.cert] # file.key PROVE Tls!Repairable
  <2>1. tlsSpent["restarts"] + tlsSpent["failures"] > 0
    BY <1>1, <1>2 DEF TlsInv, FilesMatch
  <2> QED BY <1>2, <2>1 DEF TlsInv, FilesMatch, Tls!Repairable
<1>3. Tls!TlsHasFiles
  BY DEF TlsInv, FilesThere, Tls!TlsHasFiles
<1> QED BY <1>2, <1>3 DEF Tls!KeyMatches

\* What the proofs need of the types of the counters.
LEMMA TlsCounts ==
  ASSUME Tls!TypeOK, NEW d \in Tls!Disturbances, Tls!Spend(d)
  PROVE  /\ tlsSpent' \in [Tls!Disturbances -> Nat]
         /\ tlsSpent'[d] = tlsSpent[d] + 1 /\ tlsSpent'[d] > 0
         /\ \A x \in Tls!Disturbances \ {d} : tlsSpent'[x] = tlsSpent[x]
BY DEF Tls!TypeOK, Tls!Spend

TlsEvents == {"joined", "broken", "config_changed", "pebble_ready"}

\* The invariant holds at first.
LEMMA TlsInit ==
  ASSUME Tls!Init
  PROVE  TlsInv
<1>1. Tls!TypeOK
  <2>1. /\ keyOf \in [Tls!Csrs -> 0 .. CsrLimit]
        /\ age \in [Tls!Csrs -> {"fresh", "expiring", "expired"}]
        /\ notice \in [Tls!Csrs -> {"none", "expiring", "expired"}]
        /\ file \in [key : 0 .. CsrLimit, cert : 0 .. CsrLimit]
        /\ tlsSpent \in [Tls!Disturbances -> Nat]
    BY CsrLimitAssumption DEF Tls!Init, Tls!NoFile
  <2>2. /\ {key, csr, cert, made} \subseteq 0 .. CsrLimit /\ cert <= csr /\ csr <= made
    BY CsrLimitAssumption DEF Tls!Init
  <2>3. {tlsRelated, toUnit, toOperator, tlsConfigOK, tlsUp, tls} \subseteq BOOLEAN
    BY DEF Tls!Init
  <2>4. {csrs, toAnswer, issued, deferred} \subseteq SUBSET (1 .. made) /\ revoked \subseteq issued
    BY DEF Tls!Init
  <2>5. tlsHooks \subseteq TlsEvents
    BY DEF Tls!Init
  <2> QED BY <2>1, <2>2, <2>3, <2>4, <2>5 DEF Tls!TypeOK, TlsEvents
<1> QED BY <1>1 DEF Tls!Init, TlsInv, KeysKept, TracesLeft, FilesMatch, FilesThere, Tls!TlsEnds,
                    Tls!NoFile, Tls!Disturbances

\* Steps that leave the secrets, the files and the requests of the unit.
unitTls == <<tlsRelated, key, csr, cert, made, keyOf, csrs, deferred, tlsHooks, tlsConfigOK,
             tlsUp, file, tls>>

\* What the operator of TLS certificates does, and time, leaves the unit alone.
LEMMA OperatorKeeps ==
  ASSUME TlsInv,
         \/ Tls!OperatorChanged \/ Tls!RevokeAll
         \/ \E c \in Tls!Csrs : Tls!Issue(c) \/ Tls!Ages(c) \/ Tls!SecretForgotten(c)
  PROVE  TlsInv'
<1>1. UNCHANGED unitTls
  BY DEF unitTls, Tls!OperatorChanged, Tls!RevokeAll, Tls!Issue, Tls!Ages, Tls!SecretForgotten,
         Tls!secrets, Tls!unitbag, Tls!workload
<1>2. /\ tlsSpent' \in [Tls!Disturbances -> Nat]
      /\ \A d \in {"failures", "restarts"} : tlsSpent'[d] = tlsSpent[d]
  BY TlsCounts DEF TlsInv, Tls!TypeOK, Tls!Disturbances, Tls!OperatorChanged, Tls!RevokeAll,
                   Tls!Issue, Tls!Ages, Tls!SecretForgotten
<1>3. Tls!TypeOK'
  <2>1. CASE Tls!OperatorChanged
    BY <1>1, <1>2, <2>1 DEF unitTls, TlsInv, Tls!TypeOK, Tls!OperatorChanged, Tls!workload,
                            Tls!RevokesUnrequested, Tls!Removes
  <2>2. CASE Tls!RevokeAll
    BY <1>1, <1>2, <2>2 DEF unitTls, TlsInv, Tls!TypeOK, Tls!RevokeAll, Tls!workload
  <2>3. ASSUME NEW c \in Tls!Csrs, Tls!Issue(c) PROVE Tls!TypeOK'
    BY <1>1, <1>2, <2>3 DEF unitTls, TlsInv, Tls!TypeOK, Tls!Issue, Tls!workload, Tls!Publishes
  <2>4. ASSUME NEW c \in Tls!Csrs, Tls!Ages(c) PROVE Tls!TypeOK'
    BY <1>1, <1>2, <2>4 DEF unitTls, TlsInv, Tls!TypeOK, Tls!Ages, Tls!workload
  <2>5. ASSUME NEW c \in Tls!Csrs, Tls!SecretForgotten(c) PROVE Tls!TypeOK'
    BY <1>1, <1>2, <2>5 DEF unitTls, TlsInv, Tls!TypeOK, Tls!SecretForgotten, Tls!operator,
                            Tls!workload
  <2> QED BY <2>1, <2>2, <2>3, <2>4, <2>5
<1> QED BY <1>1, <1>2, <1>3 DEF unitTls, TlsInv, KeysKept, TracesLeft, FilesMatch, FilesThere,
                                Tls!TlsEnds

\* A step that makes a request: with a key for it, or with the one there is.
LEMMA AddsKeeps ==
  ASSUME TlsInv, NEW k \in 1 .. CsrLimit, NEW S \in SUBSET csrs, Tls!Adds(k, S),
         k = key \/ k = made + 1
  PROVE  /\ {key', csr', made'} \subseteq 1 .. CsrLimit /\ csr' = made' /\ made' = made + 1
         /\ keyOf' \in [Tls!Csrs -> 0 .. CsrLimit]
         /\ keyOf'[csr'] = key' /\ key' = k
         /\ \A c \in 1 .. made : keyOf'[c] = keyOf[c]
         /\ csrs' \subseteq 1 .. made' /\ (~tlsRelated => csrs' = {})
         /\ toOperator' \in BOOLEAN
<1>1. /\ made \in 0 .. CsrLimit /\ keyOf \in [Tls!Csrs -> 0 .. CsrLimit] /\ csrs \subseteq 1 .. made
      /\ tlsRelated \in BOOLEAN
  BY DEF TlsInv, Tls!TypeOK
<1>2. /\ made < CsrLimit /\ made' = made + 1 /\ csr' = made' /\ key' = k
      /\ keyOf' = [keyOf EXCEPT ![made'] = k]
      /\ csrs' = IF tlsRelated THEN S \union {made'} ELSE S
      /\ toOperator' = tlsRelated
  BY DEF Tls!Adds
<1>3. made' \in 1 .. CsrLimit
  BY <1>1, <1>2, CsrLimitAssumption
<1>4. /\ keyOf' \in [Tls!Csrs -> 0 .. CsrLimit] /\ keyOf'[made'] = k
      /\ \A c \in 1 .. made : keyOf'[c] = keyOf[c]
  BY <1>1, <1>2, <1>3, CsrLimitAssumption DEF Tls!Csrs
<1>5. ~tlsRelated => S = {}
  BY DEF TlsInv, TracesLeft
<1> QED BY <1>1, <1>2, <1>3, <1>4, <1>5, CsrLimitAssumption

\* A step that makes a request and leaves the certificate and the container.
LEMMA RequestKeeps ==
  ASSUME TlsInv, NEW k \in 1 .. CsrLimit, NEW S \in SUBSET csrs, Tls!Adds(k, S),
         UNCHANGED <<tlsRelated, cert, deferred, tlsConfigOK, tlsUp, file, tls, Tls!operator>>,
         toUnit' \in BOOLEAN, notice' \in [Tls!Csrs -> {"none", "expiring", "expired"}],
         tlsSpent' \in [Tls!Disturbances -> Nat],
         \A d \in {"failures", "restarts"} : tlsSpent'[d] = tlsSpent[d],
         k = key \/ k = made + 1, tlsHooks' \in {tlsHooks, tlsHooks \ {"joined"}}
  PROVE  TlsInv'
<1>1. /\ {key', csr', made'} \subseteq 1 .. CsrLimit /\ csr' = made' /\ made' = made + 1
      /\ keyOf' \in [Tls!Csrs -> 0 .. CsrLimit]
      /\ keyOf'[csr'] = key' /\ key' = k
      /\ \A c \in 1 .. made : keyOf'[c] = keyOf[c]
      /\ csrs' \subseteq 1 .. made' /\ (~tlsRelated => csrs' = {})
      /\ toOperator' \in BOOLEAN
  BY AddsKeeps
<1>2. /\ made \in Nat /\ cert \in Nat /\ csr \in Nat /\ file.cert \in Nat /\ file.key \in Nat
      /\ cert <= csr /\ csr <= made
      /\ {toAnswer, issued, deferred} \subseteq SUBSET (1 .. made) /\ revoked \subseteq issued
      /\ tlsHooks \subseteq TlsEvents
  BY CsrLimitAssumption DEF TlsInv, Tls!TypeOK, TlsEvents
<1>3. Tls!TypeOK'
  <2>1. {toAnswer, issued, deferred} \subseteq SUBSET (1 .. made')
    BY <1>1, <1>2
  <2>2. {key, csr, cert, made}' \subseteq 0 .. CsrLimit /\ (cert <= csr)' /\ (csr <= made)'
    BY <1>1, <1>2, CsrLimitAssumption DEF TlsInv, Tls!TypeOK
  <2>3. /\ {csrs, toAnswer, issued, deferred}' \subseteq SUBSET (1 .. made')
        /\ (revoked \subseteq issued)'
    BY <1>1, <1>2, <2>1 DEF Tls!operator
  <2>4. tlsHooks' \subseteq TlsEvents
    BY <1>2
  <2> QED BY <1>1, <2>2, <2>3, <2>4 DEF TlsInv, Tls!TypeOK, Tls!operator, TlsEvents
<1>4. KeysKept'
  BY <1>1, <1>2 DEF TlsInv, KeysKept
<1>5. TracesLeft'
  BY <1>1 DEF TlsInv, TracesLeft
<1>6. cert' # csr' /\ cert' = cert /\ file' = file /\ tlsUp' = tlsUp /\ tls' = tls
  BY <1>1, <1>2
<1>7. FilesMatch'
  BY <1>1, <1>2, <1>6 DEF TlsInv, KeysKept, FilesMatch
<1>8. FilesThere'
  BY <1>6 DEF TlsInv, FilesThere
<1>9. Tls!TlsEnds'
  BY DEF TlsInv, Tls!TlsEnds
<1> QED BY <1>3, <1>4, <1>5, <1>7, <1>8, <1>9 DEF TlsInv

\* What a hook renders is one of the two.
LEMMA RenderedIs ==
  ASSUME TlsInv, NEW c, Tls!Renders(c)
  PROVE  /\ tls' \in BOOLEAN
         /\ tlsUp /\ tlsConfigOK => tls' = (key # 0 /\ c # 0)
         /\ tlsUp /\ tls' => tls \/ (key # 0 /\ c # 0)
BY DEF Tls!Renders, Tls!Rendered, TlsInv, Tls!TypeOK

\* A unit takes a certificate for its last request.
LEMMA TakesKeeps ==
  ASSUME TlsInv, NEW c \in 1 .. made, Tls!Known(c), Tls!Takes(c),
         UNCHANGED <<tlsRelated, key, csr, made, keyOf, csrs, toOperator, Tls!operator, tlsHooks,
                     tlsConfigOK, tlsUp, tlsSpent>>,
         deferred' \subseteq deferred, csrs # {} \/ deferred # {},
         toUnit' \in BOOLEAN, notice' \in [Tls!Csrs -> {"none", "expiring", "expired"}]
  PROVE  TlsInv'
<1>1. /\ cert' = c /\ c = csr
      /\ \/ file' = [key |-> key, cert |-> c] /\ tls' \in BOOLEAN
         \/ ~tlsUp /\ file' = file /\ tls' = tls
  BY DEF Tls!Known, Tls!Takes, Tls!Pushes, Tls!TlsFiles, Tls!Rendered, TlsInv, Tls!TypeOK
<1>2. made \in Nat /\ c \in Nat /\ c # 0 /\ c <= made
  BY CsrLimitAssumption DEF TlsInv, Tls!TypeOK
<1>3. key # 0 /\ keyOf[c] = key
  BY <1>1, <1>2 DEF TlsInv, KeysKept
<1>4. /\ made \in Nat /\ key \in 0 .. CsrLimit /\ csr \in 0 .. CsrLimit /\ csr <= made
      /\ file \in [key : 0 .. CsrLimit, cert : 0 .. CsrLimit]
  BY CsrLimitAssumption DEF TlsInv, Tls!TypeOK
<1>5. deferred \subseteq 1 .. made
  BY DEF TlsInv, Tls!TypeOK
<1>6. Tls!TypeOK'
  <2>1. [key |-> key, cert |-> c] \in [key : 0 .. CsrLimit, cert : 0 .. CsrLimit]
    BY <1>1, <1>4
  <2>2. file' \in [key : 0 .. CsrLimit, cert : 0 .. CsrLimit]
    BY <1>1, <1>4, <2>1
  <2>3. {key, csr, cert, made}' \subseteq 0 .. CsrLimit /\ (cert <= csr)' /\ (csr <= made)'
    BY <1>1, <1>4 DEF TlsInv, Tls!TypeOK
  <2>4. tls' \in BOOLEAN /\ tlsUp' \in BOOLEAN
    BY <1>1 DEF TlsInv, Tls!TypeOK
  <2> QED BY <1>4, <1>5, <2>2, <2>3, <2>4 DEF TlsInv, Tls!TypeOK, Tls!operator
<1>7. KeysKept' /\ TracesLeft'
  BY <1>1, <1>2, <1>4 DEF TlsInv, KeysKept, TracesLeft
<1>8. FilesMatch' /\ FilesThere'
  BY <1>1, <1>2, <1>3 DEF TlsInv, FilesMatch, FilesThere
<1>9. Tls!TlsEnds'
  BY DEF TlsInv, Tls!TlsEnds, TracesLeft
<1> QED BY <1>6, <1>7, <1>8, <1>9 DEF TlsInv

\* The unit takes a certificate for its last request.
LEMMA UnitChangedKeeps == ASSUME TlsInv, Tls!UnitChanged PROVE TlsInv'
<1>1. /\ toUnit' = FALSE /\ notice' = Tls!Noticed
      /\ UNCHANGED <<tlsRelated, Tls!operator, tlsHooks, tlsConfigOK, tlsUp, deferred, tlsSpent>>
  BY DEF Tls!UnitChanged, Tls!ChangedHook
<1>2. Tls!Noticed \in [Tls!Csrs -> {"none", "expiring", "expired"}]
  BY DEF Tls!Noticed, Tls!NextNotice, TlsInv, Tls!TypeOK
<1>3. tlsSpent' \in [Tls!Disturbances -> Nat]
  BY <1>1 DEF TlsInv, Tls!TypeOK
<1>4. Tls!Seen \subseteq csrs /\ Tls!Seen \subseteq 1 .. made
  BY DEF Tls!Seen, TlsInv, Tls!TypeOK
<1>5. CASE Tls!RevokedRenewed
  <2>1. /\ Tls!Adds(key, csrs \ {csr}) /\ UNCHANGED <<cert, file, tls>>
    BY <1>5 DEF Tls!UnitChanged, Tls!Renew, Tls!Renews, Tls!Without
  <2>2. key \in 1 .. CsrLimit
    BY <1>4, <1>5, CsrLimitAssumption DEF Tls!RevokedRenewed, TlsInv, Tls!TypeOK, KeysKept
  <2> QED BY <1>1, <1>2, <1>3, <2>1, <2>2, RequestKeeps
<1>6. CASE ~Tls!RevokedRenewed
  <2>1. UNCHANGED <<key, csr, made, keyOf, csrs, toOperator>>
    BY <1>6 DEF Tls!UnitChanged, Tls!NoRequest, Tls!unitbag
  <2>2. CASE UNCHANGED <<cert, file, tls>>
    <3>1. Tls!TypeOK'
      BY <1>1, <1>2, <1>3, <2>1, <2>2 DEF TlsInv, Tls!TypeOK, Tls!operator
    <3> QED BY <1>1, <2>1, <2>2, <3>1 DEF TlsInv, KeysKept, TracesLeft, FilesMatch, FilesThere,
                                          Tls!TlsEnds
  <2>3. ASSUME NEW c \in Tls!Seen, Tls!Known(c), Tls!Takes(c) PROVE TlsInv'
    BY <1>1, <1>2, <1>4, <2>1, <2>3, TakesKeeps
  <2> QED BY <1>6, <2>2, <2>3 DEF Tls!UnitChanged
<1> QED BY <1>5, <1>6

\* An event that was put off is handled again, for a request that may be over.
LEMMA DeferredKeeps == ASSUME TlsInv, NEW c \in Tls!Csrs, Tls!Deferred(c) PROVE TlsInv'
<1>1. /\ c \in deferred /\ deferred' = deferred \ {c}
      /\ UNCHANGED <<tlsRelated, key, csr, made, keyOf, csrs, Tls!operator, notice, toUnit,
                     toOperator, tlsHooks, tlsConfigOK, tlsUp, tlsSpent>>
  BY DEF Tls!Deferred, Tls!unitbag
<1>2. /\ c \in 1 .. made /\ notice \in [Tls!Csrs -> {"none", "expiring", "expired"}]
      /\ toUnit \in BOOLEAN
  BY <1>1 DEF TlsInv, Tls!TypeOK
<1>3. CASE Tls!Known(c)
  BY <1>1, <1>2, <1>3, TakesKeeps DEF Tls!Deferred
<1>4. CASE ~Tls!Known(c)
  <2>1. UNCHANGED <<cert, file, tls>> /\ c # csr
    BY <1>4 DEF Tls!Deferred, Tls!Known
  <2>2. Tls!TypeOK'
    BY <1>1, <2>1 DEF TlsInv, Tls!TypeOK, Tls!operator
  <2>3. tlsSpent["failures"] > 0
    BY <1>1 DEF TlsInv, TracesLeft, Tls!TypeOK, Tls!Disturbances
  <2>4. KeysKept' /\ TracesLeft' /\ Tls!TlsEnds'
    BY <1>1, <2>1 DEF TlsInv, KeysKept, TracesLeft, Tls!TlsEnds
  <2>5. FilesMatch' /\ FilesThere'
    BY <1>1, <2>1, <2>3 DEF TlsInv, FilesMatch, FilesThere
  <2> QED BY <2>2, <2>4, <2>5 DEF TlsInv
<1> QED BY <1>3, <1>4

\* A certificate that ends is renewed with the key there is.
LEMMA SecretExpiredKeeps == ASSUME TlsInv, NEW c \in Tls!Csrs, Tls!SecretExpired(c) PROVE TlsInv'
<1>1. /\ c \in issued
      /\ notice' = [notice EXCEPT ![c] = IF age[c] = "expired" THEN "none" ELSE "expired"]
      /\ UNCHANGED <<tlsRelated, cert, Tls!operator, deferred, toUnit, tlsHooks, tlsConfigOK,
                     tlsUp, file, tls, tlsSpent>>
  BY DEF Tls!SecretExpired, Tls!workload
<1>2. notice' \in [Tls!Csrs -> {"none", "expiring", "expired"}] /\ toUnit' \in BOOLEAN
  BY <1>1 DEF TlsInv, Tls!TypeOK
<1>3. tlsSpent' \in [Tls!Disturbances -> Nat]
  BY <1>1 DEF TlsInv, Tls!TypeOK
<1>4. c \in 1 .. made
  BY <1>1 DEF TlsInv, Tls!TypeOK
<1>5. CASE c = cert
  <2>1. /\ Tls!Adds(key, csrs \ {csr})
    BY <1>5 DEF Tls!SecretExpired, Tls!Renew, Tls!Renews, Tls!Without
  <2>2. key \in 1 .. CsrLimit
    BY <1>4, <1>5, CsrLimitAssumption DEF TlsInv, Tls!TypeOK, KeysKept
  <2> QED BY <1>1, <1>2, <1>3, <2>1, <2>2, RequestKeeps
<1>6. CASE c # cert
  <2>1. UNCHANGED <<key, csr, made, keyOf, csrs, toOperator>>
    BY <1>6 DEF Tls!SecretExpired, Tls!NoRequest, Tls!unitbag
  <2>2. Tls!TypeOK'
    BY <1>1, <1>2, <1>3, <2>1 DEF TlsInv, Tls!TypeOK, Tls!operator
  <2> QED BY <1>1, <2>1, <2>2 DEF TlsInv, KeysKept, TracesLeft, FilesMatch, FilesThere,
                                  Tls!TlsEnds
<1> QED BY <1>5, <1>6

\* A request with a new key.
LEMMA AsksKeeps == ASSUME TlsInv, Tls!Joined \/ Tls!SetPrivateKey PROVE TlsInv'
<1>1. /\ Tls!Adds(made + 1, csrs)
      /\ UNCHANGED <<tlsRelated, cert, Tls!operator, notice, deferred, toUnit, tlsConfigOK,
                     tlsUp, file, tls>>
  BY DEF Tls!Joined, Tls!SetPrivateKey, Tls!RequestCertificate, Tls!workload
<1>2. notice' \in [Tls!Csrs -> {"none", "expiring", "expired"}] /\ toUnit' \in BOOLEAN
  BY <1>1 DEF TlsInv, Tls!TypeOK
<1>3. made + 1 \in 1 .. CsrLimit
  BY <1>1, CsrLimitAssumption DEF Tls!Adds, TlsInv, Tls!TypeOK
<1>4. CASE Tls!Joined
  <2>1. tlsHooks' = tlsHooks \ {"joined"} /\ tlsSpent' = tlsSpent
    BY <1>4 DEF Tls!Joined
  <2>2. tlsSpent' \in [Tls!Disturbances -> Nat]
    BY <2>1 DEF TlsInv, Tls!TypeOK
  <2> QED BY <1>1, <1>2, <1>3, <2>1, <2>2, RequestKeeps
<1>5. CASE Tls!SetPrivateKey
  <2>1. Tls!Spend("keys") /\ tlsHooks' = tlsHooks
    BY <1>5 DEF Tls!SetPrivateKey
  <2>2. /\ tlsSpent' \in [Tls!Disturbances -> Nat]
        /\ \A d \in {"failures", "restarts"} : tlsSpent'[d] = tlsSpent[d]
    BY <2>1, TlsCounts DEF TlsInv, Tls!Disturbances
  <2> QED BY <1>1, <1>2, <1>3, <2>1, <2>2, RequestKeeps
<1> QED BY <1>4, <1>5

\* The certificate is stored, and its files, of which some may have arrived, wait for the event
\* to be handled again.
LEMMA PushFailsKeeps ==
  ASSUME TlsInv, NEW c \in 1 .. made, Tls!PushFails(c),
         UNCHANGED <<tlsRelated, Tls!operator, tlsHooks, tlsConfigOK, tlsUp>>,
         toUnit' \in BOOLEAN, notice' \in [Tls!Csrs -> {"none", "expiring", "expired"}]
  PROVE  TlsInv'
<1>1. /\ c = csr /\ cert' = c /\ deferred' = deferred \union {c}
      /\ Tls!Spend("failures") /\ UNCHANGED <<key, csr, made, keyOf, csrs, toOperator>>
  BY DEF Tls!PushFails, Tls!Known, Tls!NoRequest, Tls!unitbag
<1>2. /\ tlsSpent' \in [Tls!Disturbances -> Nat] /\ tlsSpent'["failures"] > 0
      /\ tlsSpent'["restarts"] = tlsSpent["restarts"]
  BY <1>1, TlsCounts DEF TlsInv, Tls!Disturbances
<1>3. /\ file' \in {file, [file EXCEPT !.key = key], [key |-> key, cert |-> c]}
      /\ tls' \in BOOLEAN
  BY DEF Tls!PushFails, Tls!TlsFiles, Tls!Rendered, TlsInv, Tls!TypeOK
<1>4. /\ made \in Nat /\ c \in Nat /\ c <= made /\ key \in 0 .. CsrLimit
      /\ csr \in 0 .. CsrLimit /\ deferred \subseteq 1 .. made
      /\ file \in [key : 0 .. CsrLimit, cert : 0 .. CsrLimit]
  BY CsrLimitAssumption DEF TlsInv, Tls!TypeOK
<1>5. file' \in [key : 0 .. CsrLimit, cert : 0 .. CsrLimit] /\ file'.cert \in {file.cert, c}
  BY <1>1, <1>3, <1>4
<1>6. Tls!TypeOK'
  <2>1. {key, csr, cert, made}' \subseteq 0 .. CsrLimit /\ (cert <= csr)' /\ (csr <= made)'
    BY <1>1, <1>4 DEF TlsInv, Tls!TypeOK
  <2>2. {csrs, toAnswer, issued, deferred}' \subseteq SUBSET (1 .. made')
    BY <1>1, <1>4 DEF TlsInv, Tls!TypeOK, Tls!operator
  <2> QED BY <1>1, <1>2, <1>3, <1>5, <2>1, <2>2 DEF TlsInv, Tls!TypeOK, Tls!operator
<1>7. KeysKept' /\ TracesLeft'
  BY <1>1, <1>2, <1>4, <1>5 DEF TlsInv, KeysKept, TracesLeft
<1>8. FilesMatch' /\ FilesThere'
  BY <1>1, <1>2 DEF FilesMatch, FilesThere
<1>9. Tls!TlsEnds'
  BY <1>2 DEF Tls!TlsEnds
<1> QED BY <1>6, <1>7, <1>8, <1>9 DEF TlsInv

\* Whether the event is new, or was put off before.
LEMMA FailuresKeep ==
  ASSUME TlsInv, NEW c \in Tls!Csrs, Tls!AvailableFails(c) \/ Tls!DeferredFails(c)
  PROVE  TlsInv'
<1>1. CASE Tls!AvailableFails(c)
  <2>1. /\ notice' = Tls!Noticed /\ toUnit' = FALSE /\ Tls!PushFails(c)
        /\ c \in Tls!Seen /\ UNCHANGED <<tlsRelated, Tls!operator, tlsHooks, tlsConfigOK, tlsUp>>
    BY <1>1 DEF Tls!AvailableFails, Tls!ChangedHook
  <2>2. Tls!Noticed \in [Tls!Csrs -> {"none", "expiring", "expired"}]
    BY DEF Tls!Noticed, Tls!NextNotice, TlsInv, Tls!TypeOK
  <2>3. c \in 1 .. made
    BY <2>1 DEF Tls!Seen, TlsInv, Tls!TypeOK
  <2> QED BY <2>1, <2>2, <2>3, PushFailsKeeps
<1>2. CASE Tls!DeferredFails(c)
  <2>1. /\ c \in deferred /\ Tls!PushFails(c)
        /\ UNCHANGED <<tlsRelated, Tls!operator, notice, toUnit, tlsHooks, tlsConfigOK, tlsUp>>
    BY <1>2 DEF Tls!DeferredFails
  <2>2. /\ c \in 1 .. made /\ toUnit' \in BOOLEAN
        /\ notice' \in [Tls!Csrs -> {"none", "expiring", "expired"}]
    BY <2>1 DEF TlsInv, Tls!TypeOK
  <2> QED BY <2>1, <2>2, PushFailsKeeps
<1> QED BY <1>1, <1>2

\* The relation is gone, the files of the certificate stay, and TLS with them as long as the
\* configuration is invalid.
LEMMA BrokenTlsKeeps == ASSUME TlsInv, Tls!Broken PROVE TlsInv'
<1>1. /\ cert' = 0 /\ Tls!Renders(0) /\ tlsHooks' = tlsHooks \ {"broken"}
      /\ UNCHANGED <<tlsRelated, key, csr, made, keyOf, csrs, Tls!operator, notice, deferred,
                     toUnit, toOperator, tlsConfigOK, tlsUp, file, tlsSpent>>
  BY DEF Tls!Broken, Tls!unitbag
<1>2. /\ tls' \in BOOLEAN
      /\ tlsUp /\ tlsConfigOK => ~tls'
      /\ tlsUp /\ tls' => tls
  BY <1>1, RenderedIs
<1>3. Tls!TypeOK'
  <2>1. {key, csr, cert, made}' \subseteq 0 .. CsrLimit /\ (cert <= csr)' /\ (csr <= made)'
    BY <1>1, CsrLimitAssumption DEF TlsInv, Tls!TypeOK
  <2> QED BY <1>1, <1>2, <2>1 DEF TlsInv, Tls!TypeOK, Tls!operator
<1>4. KeysKept' /\ TracesLeft'
  BY <1>1 DEF TlsInv, KeysKept, TracesLeft
<1>5. /\ made \in Nat /\ csr \in Nat /\ cert \in Nat /\ file.cert \in Nat
      /\ deferred \subseteq 1 .. made /\ cert <= csr
  BY CsrLimitAssumption DEF TlsInv, Tls!TypeOK
<1>6. FilesMatch'
  BY <1>1, <1>5 DEF TlsInv, KeysKept, FilesMatch
<1>7. FilesThere'
  <2> SUFFICES ASSUME tlsUp, tls, ~(file.key # 0 /\ file.cert # 0)
               PROVE  csr # 0 /\ tlsSpent["failures"] > 0
    BY <1>1, <1>2 DEF FilesThere
  <2>1. cert \in deferred \/ (cert # csr /\ tlsSpent["failures"] > 0)
    BY DEF TlsInv, FilesThere
  <2>2. CASE cert \in deferred
    BY <1>5, <2>2 DEF TlsInv, KeysKept, TracesLeft, Tls!TypeOK, Tls!Disturbances
  <2>3. CASE cert # csr /\ tlsSpent["failures"] > 0
    BY <1>5, <2>3
  <2> QED BY <2>1, <2>2, <2>3
<1>8. Tls!TlsEnds'
  BY <1>1, <1>2 DEF Tls!TlsEnds
<1> QED BY <1>3, <1>4, <1>6, <1>7, <1>8 DEF TlsInv

\* The other hooks that render enable TLS by the certificate that is stored.
LEMMA OtherHooksKeep == ASSUME TlsInv, Tls!ConfigChanged \/ Tls!OtherHook PROVE TlsInv'
<1>1. /\ Tls!Renders(cert)
      /\ \/ tlsHooks' = tlsHooks
         \/ tlsHooks' = tlsHooks \ {"config_changed"}
      /\ UNCHANGED <<tlsRelated, key, csr, cert, made, keyOf, csrs, Tls!operator, notice, deferred,
                     toUnit, toOperator, tlsConfigOK, tlsUp, file, tlsSpent>>
  BY DEF Tls!ConfigChanged, Tls!OtherHook, Tls!unitbag, Tls!secrets
<1>2. /\ tls' \in BOOLEAN
      /\ tlsUp /\ tlsConfigOK => tls' = (key # 0 /\ cert # 0)
      /\ tlsUp /\ tls' => tls \/ cert # 0
  BY <1>1, RenderedIs
<1>3. Tls!TypeOK'
  BY <1>1, <1>2 DEF TlsInv, Tls!TypeOK, Tls!operator
<1>4. KeysKept' /\ TracesLeft' /\ FilesMatch' /\ FilesThere'
  BY <1>1, <1>2 DEF TlsInv, KeysKept, TracesLeft, FilesMatch, FilesThere
<1>5. Tls!TlsEnds'
  BY <1>1, <1>2 DEF TlsInv, Tls!TlsEnds
<1> QED BY <1>3, <1>4, <1>5 DEF TlsInv

\* A container without files gets those of the certificate that is stored, whether or not the
\* hook ends.
LEMMA PebbleReadyKeeps == ASSUME TlsInv, Tls!PebbleReady \/ Tls!PebbleReadyFails PROVE TlsInv'
<1>1. /\ "pebble_ready" \in tlsHooks
      /\ file' = (IF cert # 0 THEN [key |-> key, cert |-> cert] ELSE file)
      /\ UNCHANGED <<tlsRelated, key, csr, cert, made, keyOf, csrs, Tls!operator, notice,
                     deferred, toUnit, toOperator, tlsConfigOK, tlsSpent>>
      /\ \/ /\ tlsHooks' = tlsHooks \ {"pebble_ready"} /\ tlsUp' = TRUE
            /\ tls' = (key # 0 /\ cert # 0)
         \/ UNCHANGED <<tlsHooks, tlsUp, tls>> /\ ~tlsConfigOK
  BY DEF Tls!PebbleReady, Tls!PebbleReadyFails, Tls!unitbag, Tls!secrets, Tls!TlsFiles,
         Tls!Restored, Tls!Rendered
<1>2. /\ made \in Nat /\ cert \in Nat /\ csr \in Nat /\ file.cert \in Nat /\ cert <= made
      /\ tlsSpent["restarts"] \in Nat /\ tlsSpent["restarts"] > 0
  BY <1>1, CsrLimitAssumption DEF TlsInv, TracesLeft, Tls!TypeOK, Tls!Disturbances
<1>3. file' \in [key : 0 .. CsrLimit, cert : 0 .. CsrLimit]
  BY <1>1 DEF TlsInv, Tls!TypeOK
<1>4. Tls!TypeOK'
  BY <1>1, <1>3 DEF TlsInv, Tls!TypeOK, Tls!operator
<1>5. cert # 0 => file'.cert = cert /\ file'.key = key /\ key # 0
  BY <1>1, <1>2 DEF TlsInv, KeysKept
<1>6. KeysKept' /\ TracesLeft'
  BY <1>1, <1>2 DEF TlsInv, KeysKept, TracesLeft
<1>7. FilesMatch'
  BY <1>1, <1>2, <1>5 DEF TlsInv, KeysKept, FilesMatch
<1>8. FilesThere'
  BY <1>1, <1>5 DEF TlsInv, FilesThere
<1>9. Tls!TlsEnds'
  BY <1>1 DEF TlsInv, Tls!TlsEnds
<1> QED BY <1>4, <1>6, <1>7, <1>8, <1>9 DEF TlsInv

\* The relation comes and goes, and so does the container with its files.
LEMMA RelationKeeps == ASSUME TlsInv, Tls!Relate \/ Tls!Remove \/ Tls!ContainerRestart PROVE TlsInv'
<1>1. CASE Tls!Relate
  <2>1. /\ ~tlsRelated /\ "broken" \notin tlsHooks /\ tlsRelated' = TRUE
        /\ tlsHooks' = tlsHooks \union {"joined"}
        /\ UNCHANGED <<key, csr, cert, made, keyOf, csrs, Tls!operator, notice, deferred, toUnit,
                     toOperator, tlsConfigOK, tlsUp, file, tls, tlsSpent>>
    BY <1>1 DEF Tls!Relate, Tls!unitbag, Tls!secrets, Tls!workload
  <2>2. Tls!TypeOK'
    BY <2>1 DEF TlsInv, Tls!TypeOK, Tls!operator
  <2> QED BY <2>1, <2>2 DEF TlsInv, KeysKept, TracesLeft, FilesMatch, FilesThere, Tls!TlsEnds
<1>2. CASE Tls!Remove
  <2>1. /\ "joined" \notin tlsHooks /\ tlsRelated' = FALSE /\ tlsHooks' = tlsHooks \union {"broken"}
        /\ csrs' = {} /\ toAnswer' = {} /\ issued' = {} /\ revoked' = {} /\ toUnit' = FALSE
        /\ toOperator' = FALSE
        /\ Tls!Spend("removals")
        /\ UNCHANGED <<key, csr, cert, made, keyOf, age, notice, deferred, tlsConfigOK, tlsUp,
                       file, tls>>
    BY <1>2 DEF Tls!Remove, Tls!secrets, Tls!workload
  <2>2. /\ tlsSpent' \in [Tls!Disturbances -> Nat]
        /\ \A d \in {"failures", "restarts"} : tlsSpent'[d] = tlsSpent[d]
    BY <2>1, TlsCounts DEF TlsInv, Tls!Disturbances
  <2>3. Tls!TypeOK'
    BY <2>1, <2>2 DEF TlsInv, Tls!TypeOK
  <2> QED BY <2>1, <2>2, <2>3 DEF TlsInv, KeysKept, TracesLeft, FilesMatch, FilesThere,
                                  Tls!TlsEnds
<1>3. CASE Tls!ContainerRestart
  <2>1. /\ tlsUp' = FALSE /\ file' = [key |-> 0, cert |-> 0] /\ tls' = FALSE
        /\ tlsHooks' = tlsHooks \union {"pebble_ready"}
        /\ Tls!Spend("restarts")
        /\ UNCHANGED <<tlsRelated, key, csr, cert, made, keyOf, csrs, Tls!operator, notice,
                       deferred, toUnit, toOperator, tlsConfigOK>>
    BY <1>3 DEF Tls!ContainerRestart, Tls!unitbag, Tls!secrets, Tls!NoFile
  <2>2. /\ tlsSpent' \in [Tls!Disturbances -> Nat] /\ tlsSpent'["restarts"] > 0
        /\ tlsSpent'["failures"] = tlsSpent["failures"]
    BY <2>1, TlsCounts DEF TlsInv, Tls!Disturbances
  <2>3. file' \in [key : 0 .. CsrLimit, cert : 0 .. CsrLimit] /\ file'.cert = 0
    BY <2>1, CsrLimitAssumption
  <2>4. Tls!TypeOK'
    BY <2>1, <2>2, <2>3 DEF TlsInv, Tls!TypeOK, Tls!operator
  <2>5. made \in Nat
    BY DEF TlsInv, Tls!TypeOK
  <2>6. KeysKept' /\ TracesLeft' /\ FilesMatch' /\ FilesThere'
    BY <2>1, <2>2, <2>3, <2>5 DEF TlsInv, KeysKept, TracesLeft, FilesMatch, FilesThere
  <2> QED BY <2>1, <2>2, <2>4, <2>6 DEF TlsInv, Tls!TlsEnds
<1> QED BY <1>1, <1>2, <1>3

\* So does a valid configuration.
LEMMA ConfigurationKeeps == ASSUME TlsInv, Tls!Misconfigure \/ Tls!Reconfigure PROVE TlsInv'
<1>1. /\ UNCHANGED <<tlsRelated, key, csr, cert, made, keyOf, csrs, Tls!operator, notice,
                     deferred, toUnit, toOperator, tlsUp, file, tls>>
      /\ \/ tlsConfigOK' = FALSE /\ tlsHooks' = tlsHooks
         \/ tlsConfigOK' = TRUE /\ tlsHooks' = tlsHooks \union {"config_changed"}
  BY DEF Tls!Misconfigure, Tls!Reconfigure, Tls!unitbag, Tls!secrets
<1>2. /\ tlsSpent' \in [Tls!Disturbances -> Nat]
      /\ \A d \in {"failures", "restarts"} : tlsSpent'[d] = tlsSpent[d]
  BY TlsCounts DEF Tls!Misconfigure, Tls!Reconfigure, TlsInv, Tls!TypeOK, Tls!Disturbances
<1>3. Tls!TypeOK'
  BY <1>1, <1>2 DEF TlsInv, Tls!TypeOK, Tls!operator
<1>4. KeysKept' /\ TracesLeft' /\ FilesMatch' /\ FilesThere'
  BY <1>1, <1>2 DEF TlsInv, KeysKept, TracesLeft, FilesMatch, FilesThere
<1> QED BY <1>1, <1>2, <1>3, <1>4 DEF TlsInv, Tls!TlsEnds

\* Every step keeps the invariant.
LEMMA TlsKeep == ASSUME TlsInv, [Tls!Next]_(Tls!vars) PROVE TlsInv'
<1>1. CASE UNCHANGED Tls!vars
  BY <1>1 DEF Tls!vars, Tls!secrets, Tls!unitbag, Tls!operator, Tls!workload, TlsInv, Tls!TypeOK,
              KeysKept, TracesLeft, FilesMatch, FilesThere, Tls!TlsEnds
<1> QED BY <1>1, OperatorKeeps, UnitChangedKeeps, DeferredKeeps, SecretExpiredKeeps, AsksKeeps,
           FailuresKeep, BrokenTlsKeeps, OtherHooksKeep, PebbleReadyKeeps, RelationKeeps,
           ConfigurationKeeps
  DEF Tls!Next, Tls!Handlers, Tls!Environment

\* The invariant holds in every state.
THEOREM TlsInvariant == Spec => [](Runs("tls") => TlsInv)
<1>1. Init => (Runs("tls") => TlsInv)
  BY TlsInit DEF Init, Runs
<1>2. (Runs("tls") => TlsInv) /\ [Next]_vars => (Runs("tls") => TlsInv)'
  BY TlsSteps, TlsKeep, OnePart DEF Runs
<1> QED BY <1>1, <1>2, PTL DEF Spec

\* Whichever requests were renewed, revoked or put off, whichever pushes broke off and whenever
\* the container restarted, the certificate that pgbouncer reads is one for the key next to it,
\* or the event that brings the right one is still to come (postgresql_tls.py:113-161).
THEOREM KeyIsOfCertificate == Spec => []KeyMatches
<1>1. TlsInv => Tls!KeyMatches
  BY TlsGives
<1> QED BY <1>1, TlsInvariant, PTL DEF KeyMatches

\* TLS needs its files, whatever hook renders it, and the relation, or a valid configuration is
\* still to be rendered; what a push that broke off left out is still to come
\* (charm.py:349-350, 806-835, 1027-1050, postgresql_tls.py:122-161).
THEOREM TlsFollowsItsFiles == Spec => []TlsFollows
<1>1. TlsInv => Tls!TlsHasFiles /\ Tls!TlsEnds
  BY TlsGives DEF TlsInv
<1> QED BY <1>1, TlsInvariant, PTL DEF TlsFollows

----------------------------------------------------------------------------
(* Logs and metrics *)

\* promtail runs as a service of the container, for units of Loki that have published an endpoint.
RunsAsService ==
  /\ planned => up
  /\ running # None => planned /\ running \subseteq published

LogsInv == RunsAsService /\ Logs!RunsAsConfigured

\* Every way to write the configuration, for the clients that are seen.
LEMMA SetUpKeeps ==
  ASSUME LogsInv, up, Logs!SetUp \/ Logs!Reconfigured, planned \/ Logs!SetUp,
         UNCHANGED <<present, published, up>>
  PROVE  LogsInv'
<1>1. /\ config' = present \intersect published
      /\ running' = IF present \intersect published # {} THEN present \intersect published
                    ELSE running
      /\ planned'
  BY DEF Logs!SetUp, Logs!Reconfigured, Logs!Clients
<1>2. CASE present \intersect published # {}
  BY <1>1, <1>2 DEF LogsInv, RunsAsService, Logs!RunsAsConfigured
<1>3. CASE present \intersect published = {}
  <2>1. running = None /\ running' = None
    BY <1>1, <1>3 DEF LogsInv, RunsAsService, Logs!RunsAsConfigured
  <2> QED BY <1>1, <2>1 DEF LogsInv, RunsAsService, Logs!RunsAsConfigured
<1> QED BY <1>2, <1>3

\* Steps that leave promtail.
LEMMA LogsFrame ==
  ASSUME LogsInv, UNCHANGED Logs!promtail, present \subseteq present',
         published \subseteq published',
         up => up'
  PROVE  LogsInv'
BY DEF LogsInv, RunsAsService, Logs!RunsAsConfigured, Logs!promtail

\* promtail is set up if there is an endpoint, unless the download fails.
LEMMA SetUpIfOfferedKeeps ==
  ASSUME LogsInv, up, Logs!SetUpIfOffered, UNCHANGED <<present, published, up>>
  PROVE  LogsInv'
<1>1. Logs!SetUp \/ UNCHANGED Logs!promtail
  BY DEF Logs!SetUpIfOffered, Logs!DownloadFails
<1> QED BY <1>1, SetUpKeeps, LogsFrame

\* The hooks that set promtail up, where a unit of Loki offers an endpoint.
LEMMA LogsHookKeeps ==
  ASSUME LogsInv, Logs!Created \/ Logs!Changed \/ Logs!PebbleReady
  PROVE  LogsInv'
<1>1. UNCHANGED <<present, published, up>>
  BY DEF Logs!Created, Logs!Changed, Logs!PebbleReady, Logs!Hook, Logs!loki
<1>2. \/ UNCHANGED Logs!promtail
      \/ up /\ Logs!SetUpIfOffered
      \/ up /\ planned /\ Logs!Reconfigured
  BY DEF Logs!Created, Logs!Changed, Logs!PebbleReady
<1> QED BY <1>1, <1>2, SetUpKeeps, SetUpIfOfferedKeeps, LogsFrame

\* A client that leaves is taken out, or the hook fails as there is no promtail.
LEMMA DepartedKeeps ==
  ASSUME LogsInv, NEW u \in Lokis, Logs!Departed(u) \/ Logs!DepartedFails(u)
  PROVE  LogsInv'
<1> DEFINE clients == (present \ {u}) \intersect published
<1>1. CASE Logs!Departed(u)
  <2>1. /\ present' = present \ {u} /\ published' = published \ {u} /\ (up => planned)
        /\ config' = (IF up THEN clients ELSE config)
        /\ running' = (IF up /\ clients # {} THEN clients ELSE None)
        /\ UNCHANGED <<up, planned>>
    BY <1>1 DEF Logs!Departed
  <2>2. clients \subseteq present' /\ clients \subseteq published'
    BY <2>1
  <2> HIDE DEF clients
  <2> QED BY <2>1, <2>2 DEF LogsInv, RunsAsService, Logs!RunsAsConfigured
<1>2. CASE Logs!DepartedFails(u)
  <2>1. /\ ~planned /\ UNCHANGED <<present, published, up, planned, running>>
    BY <1>2 DEF Logs!DepartedFails, Logs!loki
  <2> QED BY <2>1 DEF LogsInv, RunsAsService, Logs!RunsAsConfigured
<1> QED BY <1>1, <1>2

\* Every step keeps the invariant.
LEMMA LogsKeep ==
  ASSUME LogsInv, [Logs!Next]_(Logs!vars)
  PROVE  LogsInv'
<1>1. ASSUME NEW u \in Lokis, Logs!LokiChanged(u) \/ Logs!LokiJoins(u) \/ Logs!LokiLeaves(u)
      PROVE  LogsInv'
  BY <1>1, LogsFrame DEF Logs!LokiChanged, Logs!LokiJoins, Logs!LokiLeaves
<1>2. CASE Logs!Relate \/ Logs!Remove \/ Logs!RelationBroken \/ Logs!ContainerStarts
  BY <1>2, LogsFrame DEF Logs!Relate, Logs!Remove, Logs!RelationBroken, Logs!ContainerStarts,
                         Logs!loki
<1>3. CASE Logs!ContainerStops
  BY <1>3 DEF Logs!ContainerStops, LogsInv, RunsAsService, Logs!RunsAsConfigured
<1>4. CASE UNCHANGED Logs!vars
  BY <1>4, LogsFrame DEF Logs!vars, Logs!loki
<1> QED BY <1>1, <1>2, <1>3, <1>4, LogsHookKeeps, DepartedKeeps DEF Logs!Next

\* The invariant holds in every state.
THEOREM LogsInvariant == Spec => [](Runs("logs") => LogsInv)
<1>1. Init => (Runs("logs") => LogsInv)
  BY DEF Init, Logs!Init, LogsInv, RunsAsService, Logs!RunsAsConfigured
<1>2. (Runs("logs") => LogsInv) /\ [Next]_vars => (Runs("logs") => LogsInv)'
  BY LogsSteps, LogsKeep, OnePart DEF Runs
<1> QED BY <1>1, <1>2, PTL DEF Spec

\* A job for unit u and port p under the name n.
Job(n, u, p) == [name |-> n, unit |-> u, port |-> p, address |-> host[u]]

\* A number, port and address make a name of three parts.
LEMMA NameAppended ==
  ASSUME NEW x, NEW y, NEW z
  PROVE  <<x>> \o <<y, z>> = <<x, y, z>>
<1> DEFINE S == {x, y, z}
<1>1. <<x>> \in Seq(S) /\ <<y, z>> \in Seq(S) /\ Len(<<x>>) = 1 /\ Len(<<y, z>>) = 2
  OBVIOUS
<1>2. <<x, y, z>> \in Seq(S) /\ Len(<<x, y, z>>) = 3
  OBVIOUS
<1>3. <<x>> \o <<y, z>> \in Seq(S) /\ Len(<<x>> \o <<y, z>>) = 3
  BY <1>1
<1>4. \A i \in 1..3 : (<<x>> \o <<y, z>>)[i] = <<x, y, z>>[i]
  BY <1>1
<1> HIDE DEF S
<1> QED BY <1>2, <1>3, <1>4, SeqEqual

\* What a job is called that is one of several of its unit.
LEMMA JobRenamed ==
  ASSUME NEW u, NEW p
  PROVE  [Job(<<u>>, u, p) EXCEPT !.name = @ \o <<p, host[u]>>] = Job(<<u, p, host[u]>>, u, p)
<1>1. <<u>> \o <<p, host[u]>> = <<u, p, host[u]>>
  BY NameAppended
<1>2. [Job(<<u>>, u, p) EXCEPT !.name = @ \o <<p, host[u]>>] = Job(<<u>> \o <<p, host[u]>>, u, p)
  BY DEF Job
<1> QED BY <1>1, <1>2, Zenon

\* The jobs of one unit have the same name if there are several, but then none keeps it.
LEMMA DedupedOnce ==
  ASSUME NEW r
  PROVE  \A j, k \in Metrics!Deduped(Metrics!Expanded(r)) : j.name = k.name => j = k
<1> SUFFICES ASSUME NEW j \in Metrics!Deduped(Metrics!Expanded(r)),
                    NEW k \in Metrics!Deduped(Metrics!Expanded(r)), j.name = k.name
             PROVE  j = k
  OBVIOUS
<1> DEFINE E == Metrics!Expanded(r)
<1> DEFINE Twin(x) == \E y \in E : y # x /\ y.name = x.name
<1>1. \A x \in E : x = Job(<<x.unit>>, x.unit, x.port)
  BY DEF Metrics!Expanded, Job
<1>2. PICK a \in E : j = IF Twin(a) THEN [a EXCEPT !.name = @ \o <<a.port, a.address>>] ELSE a
  BY DEF Metrics!Deduped
<1>3. PICK b \in E : k = IF Twin(b) THEN [b EXCEPT !.name = @ \o <<b.port, b.address>>] ELSE b
  BY DEF Metrics!Deduped
<1>4. /\ a = Job(<<a.unit>>, a.unit, a.port) /\ b = Job(<<b.unit>>, b.unit, b.port)
  BY <1>1
<1> HIDE DEF E
<1> HIDE DEF Twin
<1>5. j = Job(IF Twin(a) THEN <<a.unit, a.port, host[a.unit]>> ELSE <<a.unit>>, a.unit, a.port)
  <2>1. a.address = host[a.unit]
    BY <1>4 DEF Job
  <2>2. [a EXCEPT !.name = @ \o <<a.port, a.address>>]
          = Job(<<a.unit, a.port, host[a.unit]>>, a.unit, a.port)
    <3>1. [Job(<<a.unit>>, a.unit, a.port) EXCEPT !.name = @ \o <<a.port, host[a.unit]>>]
            = Job(<<a.unit, a.port, host[a.unit]>>, a.unit, a.port)
      BY JobRenamed
    <3>2. a = Job(<<a.unit>>, a.unit, a.port)
      BY <1>4
    <3> QED BY <3>1, <3>2, <2>1, Zenon
  <2> QED BY <1>2, <1>4, <2>2
<1>6. k = Job(IF Twin(b) THEN <<b.unit, b.port, host[b.unit]>> ELSE <<b.unit>>, b.unit, b.port)
  <2>1. b.address = host[b.unit]
    BY <1>4 DEF Job
  <2>2. [b EXCEPT !.name = @ \o <<b.port, b.address>>]
          = Job(<<b.unit, b.port, host[b.unit]>>, b.unit, b.port)
    <3>1. [Job(<<b.unit>>, b.unit, b.port) EXCEPT !.name = @ \o <<b.port, host[b.unit]>>]
            = Job(<<b.unit, b.port, host[b.unit]>>, b.unit, b.port)
      BY JobRenamed
    <3>2. b = Job(<<b.unit>>, b.unit, b.port)
      BY <1>4
    <3> QED BY <3>1, <3>2, <2>1, Zenon
  <2> QED BY <1>3, <1>4, <2>2
<1>7. (Twin(a) <=> Twin(b)) /\ a.unit = b.unit /\ (Twin(a) => a.port = b.port)
  BY <1>5, <1>6 DEF Job
<1>8. CASE Twin(a)
  BY <1>5, <1>6, <1>7, <1>8
<1>9. CASE ~Twin(a)
  <2>1. a.name = b.name
    BY <1>4, <1>7 DEF Job
  <2> QED BY <1>2, <1>3, <1>7, <1>9, <2>1 DEF Twin
<1> QED BY <1>8, <1>9

\* What is deduplicated again for all relations stays as it is.
LEMMA JobsTaken ==
  ASSUME Metrics!TargetsChanged
  PROVE  \/ targets' = {}
         \/ jobs # 0 /\ targets' = Metrics!Deduped(Metrics!Expanded(jobs))
<1> DEFINE D == Metrics!Deduped(Metrics!Expanded(jobs))
<1>1. \A j, k \in D : j.name = k.name => j = k
  BY DedupedOnce
<1>2. Metrics!Deduped(D) = D
  BY <1>1 DEF Metrics!Deduped
<1> QED BY <1>2 DEF Metrics!TargetsChanged, Metrics!ScrapeJobs

\* Jobs are deduplicated whenever Prometheus takes them.
LEMMA MetricsKeep ==
  ASSUME Metrics!JobNamesUnique, [Metrics!Next]_(Metrics!vars)
  PROVE  Metrics!JobNamesUnique'
<1>1. CASE targets' = targets
  BY <1>1 DEF Metrics!JobNamesUnique
<1>2. CASE Metrics!TargetsChanged
  <2> DEFINE D == Metrics!Deduped(Metrics!Expanded(jobs))
  <2>1. \A j, k \in D : j.name = k.name => j = k
    BY DedupedOnce
  <2> QED BY <1>2, <2>1, JobsTaken DEF Metrics!JobNamesUnique
<1>3. ~Metrics!TargetsChanged => targets' = targets
  BY DEF Metrics!Next, Metrics!vars, Metrics!RelationJoined, Metrics!PebbleReady, Metrics!Leave,
         Metrics!ContainerRestart, Metrics!Replace, Metrics!Elect
<1> QED BY <1>1, <1>2, <1>3

\* Whichever units of Loki come and go, promtail runs with the configuration in its file; and
\* jobs that would have the same name get their ports and addresses into it
\* (loki_push_api.py:1829-1901, prometheus_scrape.py:1193-1235).
THEOREM ConfigurationsHoldAlways == Spec => []ConfigurationsHold
<1>1. Init => (Runs("metrics") => Metrics!JobNamesUnique)
  BY DEF Init, Metrics!Init, Metrics!JobNamesUnique
<1>2. (Runs("metrics") => Metrics!JobNamesUnique) /\ [Next]_vars
        => (Runs("metrics") => Metrics!JobNamesUnique)'
  BY MetricsSteps, MetricsKeep, OnePart DEF Runs
<1> QED BY <1>1, <1>2, LogsInvariant, PTL DEF Spec, ConfigurationsHold, LogsInv

----------------------------------------------------------------------------
(* The users in PostgreSQL *)

UserTypes ==
  /\ hook \in Users!Hook \union {None}
  /\ status \in [UserRelations -> {"none", "requested", "granted", "refused", "dying", "gone"}]
  /\ owner \in [UserRelations -> UserRelations \union {SuperUser, None}]
  /\ auth \in [ClientDatabases -> UserRelations \union {SuperUser, None}]
  /\ reach \in [UserRelations -> SUBSET UserRelations]
  /\ rights \subseteq UserRelations \X UserRelations
  /\ databases \subseteq ClientDatabases
  /\ userSpent \in [Users!Disturbances -> Nat]

\* The steps of a hook for a request, of which the rest are for a removed relation.
RequestSteps ==
  {"user", "database", "connect", "privileges", "remove", "initialise", "publish"}

\* A hook is for a relation that has requested a database or is removed, and only credentials that
\* were published may be used.
HooksFit ==
  /\ \A r \in UserRelations : status[r] \in {"none", "requested", "refused"} => r \notin named
  /\ hook # None =>
       status[hook.relation] = IF hook.step \in RequestSteps THEN "requested" ELSE "dying"

\* What client r can reach.
Reaches(r) ==
  /\ r \in connecting \intersect creating
  /\ \A t \in reach[r] \ late : owner[t] = r \/ <<r, t>> \in rights

Tables ==
  /\ \A r \in UserRelations : \A t \in reach[r] : ClientDatabase[t] = ClientDatabase[r]
  /\ \A p \in rights : owner[p[2]] # None

\* A request gives access in some steps, and keeps it to its end.
Access ==
  /\ \A r \in UserRelations : status[r] = "granted" => Reaches(r)
  /\ hook # None /\ hook.step = "privileges" => hook.relation \in connecting
  /\ hook # None /\ hook.step \in {"remove", "initialise", "publish"} => Reaches(hook.relation)

\* What REASSIGN OWNED does not have when the transaction ends was created after it.
Reassigned ==
  hook # None /\ hook.step = "drop" =>
    /\ \A t \in hook.owned : owner[t] = hook.relation
    /\ \A t \in Users!Tables(hook.database) \ late : owner[t] = hook.relation => t \in hook.owned

\* A request for the database of r that was run again, and has not been granted.
Retries(r) ==
  /\ userSpent["crashes"] > 0
  /\ \E x \in UserRelations \ named : ClientDatabase[x] = ClientDatabase[r] /\ status[x] # "none"

Initialises(r) ==
  hook # None /\ hook.step = "initialise" /\ ClientDatabase[hook.relation] = ClientDatabase[r]

Logins ==
  /\ \A r \in UserRelations : status[r] = "granted" =>
       auth[ClientDatabase[r]] = SuperUser \/ Retries(r) \/ Initialises(r)
  /\ hook # None /\ hook.step = "initialise" => auth[ClientDatabase[hook.relation]] = None
  /\ hook # None /\ hook.step = "publish" => auth[ClientDatabase[hook.relation]] = SuperUser

UsersInv == UserTypes /\ HooksFit /\ Tables /\ Access /\ Reassigned /\ Logins

\* The instance has these operators under names of its own.
LEMMA UsersFinite ==
  ASSUME NEW S
  PROVE  (Users!IsFiniteSet(S) <=> IsFiniteSet(S)) /\ Users!Cardinality(S) = Cardinality(S)
BY DEF Users!IsFiniteSet, IsFiniteSet, Users!Cardinality, Cardinality

\* A relation that owns what there is in its database is the only one that has it.
LEMMA OwnsAlone ==
  ASSUME status \in [UserRelations -> {"none", "requested", "granted", "refused", "dying", "gone"}],
         NEW r \in UserRelations, status[r] = "requested", Users!Owns(r),
         NEW x \in UserRelations, ClientDatabase[x] = ClientDatabase[r], status[x] = "granted"
  PROVE  FALSE
<1> DEFINE rs == {y \in UserRelations : ClientDatabase[y] = ClientDatabase[r]
                                         /\ status[y] \notin {"none", "gone"}}
<1>1. IsFiniteSet(UserRelations)
  BY UsersAssumption, UsersFinite DEF Users!Parameters
<1>2. IsFiniteSet(rs) /\ IsFiniteSet(rs \intersect named)
  <2>1. rs \in SUBSET UserRelations /\ rs \intersect named \in SUBSET UserRelations
    OBVIOUS
  <2> HIDE DEF rs
  <2> QED BY <1>1, <2>1, FS_Subset
<1>3. Cardinality(rs) \in Nat /\ Cardinality(rs \intersect named) \in Nat
  BY <1>2, FS_CardinalityType
<1>4. Cardinality(rs) + Cardinality(rs \intersect named) = 1
  <2>1. Users!Cardinality(rs) + Users!Cardinality(rs \intersect named) = 1
    BY DEF Users!Owns, Users!Accessing
  <2> HIDE DEF rs
  <2> QED BY <2>1, UsersFinite
<1>5. r \in rs /\ x \in rs /\ r # x
  OBVIOUS
<1> HIDE DEF rs
<1>6. Cardinality(rs) # 0
  BY <1>2, <1>5, FS_EmptySet
<1>7. Cardinality(rs) = 1
  BY <1>3, <1>4, <1>6
<1>8. PICK y : rs = {y}
  BY <1>2, <1>7, FS_Singleton
<1> QED BY <1>5, <1>8

\* The next step of a hook, or its end, leaves a hook that differs in its step.
LEMMA StepsOn ==
  ASSUME hook \in Users!Hook, NEW s \in Users!Steps, Users!Go(s)
  PROVE  /\ hook' \in Users!Hook /\ hook' # None
         /\ hook'.step = s /\ hook'.relation = hook.relation
<1>1. hook' \in Users!Hook /\ hook'.step = s /\ hook'.relation = hook.relation
  BY DEF Users!Hook, Users!Go
<1>2. None \notin Users!Hook
  BY UsersAssumption DEF Users!Parameters
<1> QED BY <1>1, <1>2

\* The hook that a step is one of.
LEMMA RunsFor ==
  ASSUME UserTypes, NEW r, NEW s, Users!Running(r, s)
  PROVE  /\ hook # None /\ hook \in Users!Hook /\ hook.relation = r /\ hook.step = s
         /\ r \in UserRelations
BY DEF UserTypes, Users!Running, Users!Hook

\* A request that begins.
LEMMA StartRequestKeeps ==
  ASSUME UsersInv, NEW r \in UserRelations, Users!StartRequest(r) \/ Users!StartBroken(r)
  PROVE  UsersInv'
<1>1. /\ UNCHANGED <<status, named, databases, connecting, creating, owner, rights, auth, late,
                     reach, userSpent>>
      /\ hook = None
  BY DEF Users!StartRequest, Users!StartBroken, Users!client, Users!catalog, Users!access
<1>2. /\ hook' \in Users!Hook /\ hook'.relation = r
      /\ \/ hook'.step = "user" /\ status[r] = "requested"
         \/ hook'.step = "orphan" /\ status[r] = "dying"
  BY UsersAssumption DEF Users!StartRequest, Users!StartBroken, Users!Hook, Users!Steps,
                         Users!Parameters
<1>3. UserTypes'
  BY <1>1, <1>2 DEF UsersInv, UserTypes
<1>4. HooksFit'
  BY <1>1, <1>2 DEF UsersInv, HooksFit, RequestSteps
<1>5. Tables'
  BY <1>1 DEF UsersInv, Tables
<1>6. Access'
  BY <1>1, <1>2 DEF UsersInv, Access, Reaches
<1>7. Reassigned'
  BY <1>1, <1>2 DEF Reassigned
<1>8. Logins'
  BY <1>1, <1>2 DEF UsersInv, Logins, Retries, Initialises
<1> QED BY <1>3, <1>4, <1>5, <1>6, <1>7, <1>8 DEF UsersInv

\* A request that is refused, or a hook that ends otherwise.
LEMMA EndKeeps ==
  ASSUME UsersInv, hook # None, hook' = None, hook.step # "initialise",
         NEW s \in {"refused", "gone"},
         s = "refused" <=> hook.step \in RequestSteps,
         status' = [status EXCEPT ![hook.relation] = s],
         userSpent' \in [Users!Disturbances -> Nat], userSpent'["crashes"] >= userSpent["crashes"],
         UNCHANGED <<named, databases, connecting, creating, owner, rights, auth, late, reach>>
  PROVE  UsersInv'
<1>1. hook.relation \in UserRelations
  BY DEF UsersInv, UserTypes, Users!Hook
<1>2. status' \in [UserRelations -> {"none", "requested", "granted", "refused", "dying", "gone"}]
  BY <1>1 DEF UsersInv, UserTypes
<1>3. UserTypes'
  BY <1>2 DEF UsersInv, UserTypes
<1>4. \A r \in UserRelations : status'[r] = IF r = hook.relation THEN s ELSE status[r]
  BY DEF UsersInv, UserTypes
<1>5. HooksFit'
  BY <1>1, <1>4 DEF UsersInv, HooksFit
<1>6. Tables'
  BY DEF UsersInv, Tables
<1>7. Access'
  BY <1>4 DEF UsersInv, Access, Reaches
<1>8. Reassigned'
  BY DEF Reassigned
<1>9. Logins'
  <2>1. \A r : Retries(r) => Retries(r)'
    <3> SUFFICES ASSUME NEW r, Retries(r) PROVE Retries(r)'
      OBVIOUS
    <3>1. PICK x \in UserRelations \ named : ClientDatabase[x] = ClientDatabase[r]
                 /\ status[x] # "none"
      BY DEF Retries
    <3>2. status'[x] # "none" /\ x \in UserRelations \ named'
      BY <1>4, <3>1
    <3>3. userSpent'["crashes"] > 0
      BY DEF Retries, UsersInv, UserTypes, Users!Disturbances
    <3> QED BY <3>1, <3>2, <3>3 DEF Retries
  <2>2. \A r : ~Initialises(r)
    BY DEF Initialises
  <2> QED BY <1>4, <2>1, <2>2 DEF UsersInv, Logins
<1> QED BY <1>3, <1>5, <1>6, <1>7, <1>8, <1>9 DEF UsersInv

AuthTypes == auth \in [ClientDatabases -> UserRelations \union {SuperUser, None}]

\* A request stays one that was run again until it is granted.
LEMMA RetriesStay ==
  ASSUME UserTypes, UserTypes', NEW r, Retries(r), named' = named,
         \A x \in UserRelations : status[x] # "none" => status'[x] # "none",
         userSpent'["crashes"] >= userSpent["crashes"]
  PROVE  Retries(r)'
<1>1. PICK x \in UserRelations \ named : ClientDatabase[x] = ClientDatabase[r] /\ status[x] # "none"
  BY DEF Retries
<1>2. x \in UserRelations \ named' /\ status'[x] # "none"
  BY <1>1
<1>3. userSpent'["crashes"] > 0
  BY DEF Retries, UserTypes, Users!Disturbances
<1> QED BY <1>1, <1>2, <1>3 DEF Retries

\* Steps that change none of the access that there is.
LEMMA StepKeeps ==
  ASSUME UsersInv, hook # None, hook' \in Users!Hook, hook'.relation = hook.relation,
         hook'.step \in RequestSteps <=> hook.step \in RequestSteps,
         hook'.step = "privileges" => hook.relation \in connecting',
         hook'.step \in {"remove", "initialise", "publish"} =>
           hook.step \in {"remove", "initialise", "publish"},
         hook'.step # "drop",
         connecting \subseteq connecting',
         AuthTypes', databases' \subseteq ClientDatabases,
         userSpent' \in [Users!Disturbances -> Nat],
         UNCHANGED <<status, named, creating, owner, rights, late, reach>>,
         Logins'
  PROVE  UsersInv'
<1>1. UserTypes'
  BY DEF UsersInv, UserTypes, AuthTypes
<1>2. HooksFit'
  BY DEF UsersInv, HooksFit
<1>3. Tables'
  BY DEF UsersInv, Tables
<1>4. \A r : Reaches(r) => Reaches(r)'
  BY DEF Reaches
<1>5. Access'
  BY <1>4 DEF UsersInv, Access
<1>6. Reassigned'
  BY DEF Reassigned
<1> QED BY <1>1, <1>2, <1>3, <1>5, <1>6 DEF UsersInv

\* Steps of which the auth function takes no notice.
LEMMA QuietStepKeeps ==
  ASSUME UsersInv, NEW r, NEW s \in Users!Steps, NEW t \in Users!Steps,
         Users!Running(r, s), Users!Go(t),
         s \notin {"initialise", "privileges"},
         t \notin {"initialise", "publish", "remove", "drop"},
         t \in RequestSteps <=> s \in RequestSteps,
         t = "privileges" => r \in connecting',
         connecting \subseteq connecting',
         databases' \subseteq ClientDatabases,
         UNCHANGED <<status, named, creating, owner, rights, auth, late, reach, userSpent>>
  PROVE  UsersInv'
<1>1. /\ hook # None /\ hook \in Users!Hook /\ hook.relation = r /\ hook.step = s
      /\ hook' \in Users!Hook /\ hook'.step = t /\ hook'.relation = r
  BY RunsFor, StepsOn DEF UsersInv
<1>2. AuthTypes' /\ userSpent' \in [Users!Disturbances -> Nat]
  BY DEF UsersInv, UserTypes, AuthTypes
<1>3. Logins'
  BY <1>1 DEF UsersInv, Logins, Retries, Initialises
<1> QED BY <1>1, <1>2, <1>3, StepKeeps

\* The user and the database, and a request that is refused.
LEMMA RequestStepsKeep ==
  ASSUME UsersInv, NEW r \in UserRelations,
         \/ Users!CreateUser(r) \/ Users!CreateDatabase(r) \/ Users!GrantConnect(r)
         \/ Users!RequestFails(r)
  PROVE  UsersInv'
<1> DEFINE rest == <<status, named, creating, owner, rights, auth, late, reach, userSpent>>
<1>0. databases' \subseteq ClientDatabases
  <2>1. databases' = databases \/ databases' = databases \union {ClientDatabase[r]}
    BY DEF Users!CreateUser, Users!CreateDatabase, Users!GrantConnect, Users!RequestFails,
           Users!Refuse, Users!catalog
  <2> QED BY <2>1, UsersAssumption DEF UsersInv, UserTypes, Users!Parameters
<1>1. ASSUME NEW s \in {"user", "database", "connect", "privileges"}, Users!Running(r, s),
             Users!Refuse(r), userSpent' = userSpent \/ Users!Spend("errors")
      PROVE  UsersInv'
  <2>1. /\ hook # None /\ hook' = None /\ hook.relation = r
        /\ hook.step \in RequestSteps /\ hook.step # "initialise"
        /\ status' = [status EXCEPT ![hook.relation] = "refused"]
        /\ UNCHANGED <<named, databases, connecting, creating, owner, rights, auth, late, reach>>
    BY <1>1, RunsFor DEF UsersInv, Users!Refuse, Users!catalog, Users!access, RequestSteps
  <2>2. userSpent' \in [Users!Disturbances -> Nat] /\ userSpent'["crashes"] >= userSpent["crashes"]
    BY <1>1 DEF UsersInv, UserTypes, Users!Spend, Users!Disturbances
  <2> QED BY <2>1, <2>2, EndKeeps
<1>2. CASE Users!CreateUser(r)
  <2>1. CASE Users!Refuse(r)
    BY <1>1, <1>2, <2>1 DEF Users!CreateUser
  <2>2. CASE ~Users!Refuse(r)
    <3>1. /\ Users!Running(r, "user") /\ Users!Go("database")
          /\ UNCHANGED connecting /\ UNCHANGED rest
      BY <1>2, <2>2 DEF Users!CreateUser, Users!client, Users!access
    <3> QED BY <1>0, <3>1, QuietStepKeeps DEF RequestSteps, Users!Steps
  <2> QED BY <2>1, <2>2
<1>3. CASE Users!CreateDatabase(r)
  <2>1. /\ Users!Running(r, "database") /\ Users!Go("connect")
        /\ UNCHANGED connecting /\ UNCHANGED rest
    BY <1>3 DEF Users!CreateDatabase, Users!client, Users!access
  <2> QED BY <1>0, <2>1, QuietStepKeeps DEF RequestSteps, Users!Steps
<1>4. CASE Users!GrantConnect(r)
  <2>1. /\ Users!Running(r, "connect") /\ Users!Go("privileges")
        /\ connecting' = connecting \union {r} /\ UNCHANGED rest
    BY <1>4 DEF Users!GrantConnect, Users!client
  <2> QED BY <1>0, <2>1, QuietStepKeeps DEF RequestSteps, Users!Steps
<1>5. CASE Users!RequestFails(r)
  BY <1>1, <1>5 DEF Users!RequestFails
<1> QED BY <1>2, <1>3, <1>4, <1>5

\* Tables change their owner only where no other client has access to them.
LEMMA GrantPrivilegesKeeps ==
  ASSUME UsersInv, NEW r \in UserRelations, Users!GrantPrivileges(r)
  PROVE  UsersInv'
<1>1. /\ hook # None /\ hook \in Users!Hook /\ hook.relation = r /\ hook.step = "privileges"
      /\ hook' \in Users!Hook /\ hook'.step = "remove" /\ hook'.relation = r
  BY RunsFor, StepsOn DEF UsersInv, Users!GrantPrivileges, Users!Steps
<1>2. /\ UNCHANGED <<status, named, databases, connecting, late, userSpent>>
      /\ creating' = creating \union {r}
      /\ reach' = [reach EXCEPT ![r] = Users!Tables(ClientDatabase[r])]
  BY DEF Users!GrantPrivileges
<1>3. /\ status \in [UserRelations -> {"none", "requested", "granted", "refused", "dying", "gone"}]
      /\ owner \in [UserRelations -> UserRelations \union {SuperUser, None}]
      /\ auth \in [ClientDatabases -> UserRelations \union {SuperUser, None}]
      /\ reach \in [UserRelations -> SUBSET UserRelations]
      /\ rights \subseteq UserRelations \X UserRelations
  BY DEF UsersInv, UserTypes
<1>4. status[r] = "requested" /\ r \in connecting
  BY <1>1 DEF UsersInv, HooksFit, Access, RequestSteps
<1>5. r # None
  BY UsersAssumption DEF Users!Parameters
<1> DEFINE ts == Users!Tables(ClientDatabase[r])
<1>6. /\ ts \subseteq UserRelations
      /\ \A t \in ts : ClientDatabase[t] = ClientDatabase[r] /\ owner[t] # None
  BY DEF Users!Tables
<1>7. \A t \in UserRelations \ ts : ClientDatabase[t] # ClientDatabase[r] \/ owner[t] = None
  BY DEF Users!Tables
<1> HIDE DEF ts
<1>8. /\ owner' \in [UserRelations -> UserRelations \union {SuperUser, None}]
      /\ \A t \in UserRelations :
           owner'[t] = owner[t] \/ (t \in ts /\ owner'[t] = r /\ Users!Owns(r))
      /\ AuthTypes'
      /\ \A d \in ClientDatabases : auth'[d] = auth[d] \/ (d = ClientDatabase[r] /\ Users!Owns(r))
      /\ rights \subseteq rights' /\ rights' \subseteq rights \union {<<r, t>> : t \in ts}
      /\ \A t \in ts : owner'[t] = r \/ <<r, t>> \in rights'
  <2>1. CASE Users!Owns(r)
    <3>1. /\ owner' = [t \in UserRelations |-> IF t \in ts THEN r ELSE owner[t]]
          /\ auth' = (IF auth[ClientDatabase[r]] = None THEN auth
                      ELSE [auth EXCEPT ![ClientDatabase[r]] = r])
          /\ rights' = rights
      BY <2>1 DEF Users!GrantPrivileges, ts
    <3> QED BY <1>3, <1>6, <2>1, <3>1 DEF AuthTypes
  <2>2. CASE ~Users!Owns(r)
    <3>1. rights' = rights \union {<<r, t>> : t \in ts} /\ owner' = owner /\ auth' = auth
      BY <2>2 DEF Users!GrantPrivileges, ts
    <3> QED BY <1>3, <1>6, <3>1 DEF AuthTypes
  <2> QED BY <2>1, <2>2
<1>9. \A x \in UserRelations : reach'[x] = IF x = r THEN ts ELSE reach[x]
  BY <1>2, <1>3 DEF ts
<1>10. \A x \in UserRelations :
         status[x] = "granted" /\ Users!Owns(r) => ClientDatabase[x] # ClientDatabase[r]
  BY <1>3, <1>4, OwnsAlone
<1>11. UserTypes'
  <2>1. rights' \subseteq UserRelations \X UserRelations
    BY <1>3, <1>6, <1>8
  <2>2. reach' \in [UserRelations -> SUBSET UserRelations]
    BY <1>2, <1>3, <1>6 DEF ts
  <2> QED BY <1>1, <1>2, <1>8, <2>1, <2>2 DEF UsersInv, UserTypes, AuthTypes
<1>12. HooksFit'
  BY <1>1, <1>2, <1>4 DEF UsersInv, HooksFit, RequestSteps
<1>13. Tables'
  <2>1. \A x \in UserRelations : \A t \in reach'[x] : ClientDatabase[t] = ClientDatabase[x]
    BY <1>6, <1>9 DEF UsersInv, Tables
  <2>2. ASSUME NEW p \in rights' PROVE owner'[p[2]] # None
    <3>1. p \in rights \/ \E t \in ts : p = <<r, t>>
      BY <1>8
    <3>2. p[2] \in UserRelations /\ owner[p[2]] # None
      BY <1>3, <1>6, <3>1 DEF UsersInv, Tables
    <3> QED BY <1>5, <1>8, <3>2
  <2> QED BY <2>1, <2>2 DEF Tables
<1>14. Access'
  <2>1. Reaches(r)'
    BY <1>2, <1>4, <1>8, <1>9 DEF Reaches
  <2>2. ASSUME NEW x \in UserRelations, status[x] = "granted" PROVE Reaches(x)'
    <3>1. Reaches(x) /\ x # r
      BY <1>4, <2>2 DEF UsersInv, Access
    <3>2. \A t \in reach[x] : t \in UserRelations /\ ClientDatabase[t] = ClientDatabase[x]
      BY <1>3 DEF UsersInv, Tables
    <3>3. \A t \in reach[x] : owner'[t] = owner[t]
      BY <1>6, <1>8, <1>10, <2>2, <3>2
    <3> QED BY <1>2, <1>8, <1>9, <3>1, <3>3 DEF Reaches
  <2> QED BY <1>1, <1>2, <2>1, <2>2 DEF Access
<1>15. Reassigned'
  BY <1>1 DEF Reassigned
<1>16. Logins'
  <2>1. ASSUME NEW x \in UserRelations, status[x] = "granted"
        PROVE  auth'[ClientDatabase[x]] = SuperUser \/ Retries(x)'
    <3>1. auth[ClientDatabase[x]] = SuperUser \/ Retries(x)
      BY <1>1, <2>1 DEF UsersInv, Logins, Initialises
    <3>2. ClientDatabase[x] \in ClientDatabases
      BY UsersAssumption DEF Users!Parameters
    <3>3. auth'[ClientDatabase[x]] = auth[ClientDatabase[x]]
      BY <1>8, <1>10, <2>1, <3>2
    <3>4. Retries(x) => Retries(x)'
      BY <1>2 DEF Retries
    <3> QED BY <3>1, <3>3, <3>4
  <2> QED BY <1>1, <1>2, <2>1 DEF Logins
<1> QED BY <1>11, <1>12, <1>13, <1>14, <1>15, <1>16 DEF UsersInv

\* The auth function is gone until the next step.
LEMMA RemoveAuthFunctionKeeps ==
  ASSUME UsersInv, NEW r \in UserRelations, Users!RemoveAuthFunction(r)
  PROVE  UsersInv'
<1>1. /\ hook # None /\ hook \in Users!Hook /\ hook.relation = r /\ hook.step = "remove"
      /\ hook' \in Users!Hook /\ hook' # None /\ hook'.step = "initialise" /\ hook'.relation = r
  BY RunsFor, StepsOn DEF UsersInv, Users!RemoveAuthFunction, Users!Steps
<1>2. /\ UNCHANGED <<status, named, databases, connecting, creating, owner, rights, late, reach,
                   userSpent>>
      /\ auth' = [auth EXCEPT ![ClientDatabase[r]] = None]
  BY DEF Users!RemoveAuthFunction, Users!client, Users!access
<1>3. /\ AuthTypes /\ AuthTypes' /\ databases' \subseteq ClientDatabases
      /\ userSpent' \in [Users!Disturbances -> Nat]
  BY <1>2 DEF UsersInv, UserTypes, AuthTypes
<1>4. ClientDatabase[r] \in ClientDatabases
  BY UsersAssumption DEF Users!Parameters
<1>5. Logins'
  <2>1. \A x \in UserRelations : Retries(x) => Retries(x)'
    BY <1>2 DEF Retries
  <2>2. auth'[ClientDatabase[r]] = None
    BY <1>2, <1>3, <1>4 DEF AuthTypes
  <2>3. \A x \in UserRelations : status[x] = "granted" =>
          auth[ClientDatabase[x]] = SuperUser \/ Retries(x)
    BY <1>1 DEF UsersInv, Logins, Initialises
  <2>4. \A x \in UserRelations : ClientDatabase[x] # ClientDatabase[r] =>
          auth'[ClientDatabase[x]] = auth[ClientDatabase[x]]
    BY <1>2, <1>3, UsersAssumption DEF AuthTypes, Users!Parameters
  <2> QED BY <1>1, <1>2, <2>1, <2>2, <2>3, <2>4 DEF Logins, Initialises
<1> QED BY <1>1, <1>2, <1>3, <1>5, StepKeeps DEF RequestSteps

\* The auth function is new, and so the superuser owns it.
LEMMA InitialiseAuthFunctionKeeps ==
  ASSUME UsersInv, NEW r \in UserRelations, Users!InitialiseAuthFunction(r)
  PROVE  UsersInv'
<1>1. /\ hook # None /\ hook \in Users!Hook /\ hook.relation = r /\ hook.step = "initialise"
      /\ hook' \in Users!Hook /\ hook' # None /\ hook'.step = "publish" /\ hook'.relation = r
  BY RunsFor, StepsOn DEF UsersInv, Users!InitialiseAuthFunction, Users!Steps
<1>2. /\ UNCHANGED <<status, named, databases, connecting, creating, owner, rights, late, reach,
                   userSpent>>
      /\ auth' = [auth EXCEPT ![ClientDatabase[r]] = IF @ = None THEN SuperUser ELSE @]
  BY DEF Users!InitialiseAuthFunction, Users!client, Users!access
<1>3. /\ AuthTypes /\ AuthTypes' /\ databases' \subseteq ClientDatabases
      /\ userSpent' \in [Users!Disturbances -> Nat]
  <2>1. AuthTypes
    BY DEF UsersInv, UserTypes, AuthTypes
  <2> QED BY <1>2, <2>1 DEF UsersInv, UserTypes, AuthTypes
<1>4. \A x \in UserRelations : ClientDatabase[x] \in ClientDatabases
  BY UsersAssumption DEF Users!Parameters
<1>5. Logins'
  <2>1. \A x \in UserRelations : Retries(x) => Retries(x)'
    BY <1>2 DEF Retries
  <2>2. auth'[ClientDatabase[r]] = SuperUser
    BY <1>1, <1>2, <1>3, <1>4 DEF AuthTypes, UsersInv, Logins
  <2>3. \A x \in UserRelations : ClientDatabase[x] # ClientDatabase[r] =>
          auth'[ClientDatabase[x]] = auth[ClientDatabase[x]]
    BY <1>2, <1>3, <1>4 DEF AuthTypes
  <2> QED BY <1>1, <1>2, <2>1, <2>2, <2>3 DEF UsersInv, Logins, Initialises
<1> QED BY <1>1, <1>2, <1>3, <1>5, StepKeeps DEF RequestSteps

\* The client gets its credentials.
LEMMA PublishKeeps ==
  ASSUME UsersInv, NEW r \in UserRelations, Users!Publish(r)
  PROVE  UsersInv'
<1>1. /\ hook # None /\ hook \in Users!Hook /\ hook.relation = r /\ hook.step = "publish"
      /\ hook' = None
  BY RunsFor DEF UsersInv, Users!Publish
<1>2. /\ UNCHANGED <<databases, connecting, creating, owner, rights, auth, late, reach, userSpent>>
      /\ status' = [status EXCEPT ![r] = "granted"] /\ named' = named \union {r}
  BY DEF Users!Publish, Users!catalog, Users!access
<1>3. UserTypes'
  BY <1>1, <1>2 DEF UsersInv, UserTypes
<1>4. \A x \in UserRelations : status'[x] = IF x = r THEN "granted" ELSE status[x]
  BY <1>2 DEF UsersInv, UserTypes
<1>5. HooksFit'
  BY <1>1, <1>2, <1>4 DEF UsersInv, HooksFit
<1>6. Tables'
  BY <1>2 DEF UsersInv, Tables
<1>7. Access'
  BY <1>1, <1>2, <1>4 DEF UsersInv, Access, Reaches
<1>8. Reassigned'
  BY <1>1 DEF Reassigned
<1>9. Logins'
  <2>1. auth[ClientDatabase[r]] = SuperUser
    BY <1>1 DEF UsersInv, Logins
  <2>2. ASSUME NEW x \in UserRelations, status'[x] = "granted",
               ClientDatabase[x] # ClientDatabase[r]
        PROVE  auth[ClientDatabase[x]] = SuperUser \/ Retries(x)'
    <3>1. auth[ClientDatabase[x]] = SuperUser \/ Retries(x)
      BY <1>1, <1>4, <2>2 DEF UsersInv, Logins, Initialises
    <3>2. ASSUME Retries(x) PROVE Retries(x)'
      <4>1. PICK y \in UserRelations \ named : ClientDatabase[y] = ClientDatabase[x]
                   /\ status[y] # "none"
        BY <3>2 DEF Retries
      <4>2. y # r /\ status'[y] # "none" /\ y \notin named'
        BY <1>2, <1>4, <2>2, <4>1
      <4> QED BY <1>2, <3>2, <4>1, <4>2 DEF Retries
    <3> QED BY <3>1, <3>2
  <2> QED BY <1>1, <1>2, <2>1, <2>2 DEF Logins
<1> QED BY <1>3, <1>5, <1>6, <1>7, <1>8, <1>9 DEF UsersInv

\* The auth function of a database that nobody uses, and the user at last.
LEMMA RemovedStepsKeep ==
  ASSUME UsersInv, NEW r \in UserRelations,
         \/ Users!RemoveOrphaned(r) \/ Users!ListUsers(r) \/ Users!DropRole(r) \/ Users!End(r)
  PROVE  UsersInv'
<1> DEFINE rest == <<status, named, databases, connecting, creating, owner, rights, late, reach,
                     userSpent>>
<1>1. CASE Users!RemoveOrphaned(r)
  <2>1. /\ hook # None /\ hook \in Users!Hook /\ hook.relation = r /\ hook.step = "orphan"
        /\ hook' \in Users!Hook /\ hook' # None /\ hook'.step = "list" /\ hook'.relation = r
    BY <1>1, RunsFor, StepsOn DEF UsersInv, Users!RemoveOrphaned, Users!Steps
  <2>2. UNCHANGED rest
    BY <1>1 DEF Users!RemoveOrphaned, Users!client, Users!access
  <2>3. status[r] = "dying"
    BY <2>1 DEF UsersInv, HooksFit, RequestSteps
  <2>4. \/ auth' = auth
        \/ /\ auth' = [auth EXCEPT ![ClientDatabase[r]] = None]
           /\ \A x \in UserRelations \ {r} :
                ClientDatabase[x] = ClientDatabase[r] => status[x] \in {"none", "gone"}
    BY <1>1 DEF Users!RemoveOrphaned
  <2>5. /\ AuthTypes' /\ databases' \subseteq ClientDatabases
        /\ userSpent' \in [Users!Disturbances -> Nat]
    BY <2>2, <2>4 DEF UsersInv, UserTypes, AuthTypes
  <2>6. Logins'
    <3>1. \A x \in UserRelations : Retries(x) => Retries(x)'
      BY <2>2 DEF Retries
    <3>2. \A x \in UserRelations : status[x] = "granted" =>
            auth'[ClientDatabase[x]] = auth[ClientDatabase[x]]
      BY <2>3, <2>4, UsersAssumption DEF UsersInv, UserTypes, Users!Parameters
    <3>3. \A x \in UserRelations : status[x] = "granted" =>
            auth[ClientDatabase[x]] = SuperUser \/ Retries(x)
      BY <2>1 DEF UsersInv, Logins, Initialises
    <3> QED BY <2>1, <2>2, <3>1, <3>2, <3>3 DEF Logins
  <2> QED BY <2>1, <2>2, <2>5, <2>6, StepKeeps DEF RequestSteps
<1>2. CASE Users!ListUsers(r)
  <2>1. /\ hook # None /\ hook \in Users!Hook /\ hook.relation = r /\ hook.step = "list"
    BY <1>2, RunsFor DEF UsersInv, Users!ListUsers
  <2>2. UNCHANGED rest /\ auth' = auth
    BY <1>2 DEF Users!ListUsers, Users!client, Users!catalog, Users!access
  <2>3. /\ hook' \in Users!Hook /\ hook'.relation = r
        /\ hook'.step \in {"reassign", "end"}
    <3>1. \/ hook' = [hook EXCEPT !.step = "reassign", !.left = databases]
          \/ hook' = [hook EXCEPT !.step = "end"]
      BY <1>2 DEF Users!ListUsers
    <3>2. databases \subseteq ClientDatabases
      BY DEF UsersInv, UserTypes
    <3> QED BY <2>1, <3>1, <3>2 DEF Users!Hook, Users!Steps
  <2>4. /\ AuthTypes' /\ databases' \subseteq ClientDatabases
        /\ userSpent' \in [Users!Disturbances -> Nat]
    BY <2>2 DEF UsersInv, UserTypes, AuthTypes
  <2>5. Logins'
    BY <2>1, <2>2, <2>3 DEF UsersInv, Logins, Retries, Initialises
  <2> QED BY <2>1, <2>2, <2>3, <2>4, <2>5, StepKeeps DEF RequestSteps
<1>3. CASE Users!DropRole(r)
  <2>0. databases' \subseteq ClientDatabases
    BY <1>3 DEF Users!DropRole, UsersInv, UserTypes
  <2>1. Users!Running(r, "role") /\ Users!Go("end") /\ UNCHANGED rest /\ auth' = auth
    BY <1>3 DEF Users!DropRole, Users!client, Users!access
  <2> QED BY <2>0, <2>1, QuietStepKeeps DEF RequestSteps, Users!Steps
<1>4. CASE Users!End(r)
  <2>1. hook # None /\ hook.relation = r /\ hook.step = "end"
    BY <1>4, RunsFor DEF UsersInv, Users!End
  <2>2. hook' = None /\ status' = [status EXCEPT ![hook.relation] = "gone"]
    BY <1>4, <2>1 DEF Users!End
  <2>3. UNCHANGED <<named, databases, connecting, creating, owner, rights, auth, late, reach,
                    userSpent>>
    BY <1>4 DEF Users!End, Users!catalog, Users!access
  <2>4. userSpent' \in [Users!Disturbances -> Nat] /\ userSpent'["crashes"] >= userSpent["crashes"]
    BY <2>3 DEF UsersInv, UserTypes, Users!Disturbances
  <2> QED BY <2>1, <2>2, <2>3, <2>4, EndKeeps DEF RequestSteps
<1> QED BY <1>1, <1>2, <1>3, <1>4

\* The tables to reassign are those that the user owns.
LEMMA ReassignKeeps ==
  ASSUME UsersInv, NEW r \in UserRelations, NEW d \in ClientDatabases, Users!Reassign(r, d)
  PROVE  UsersInv'
<1>1. /\ hook # None /\ hook \in Users!Hook /\ hook.relation = r /\ hook.step = "reassign"
  BY RunsFor DEF UsersInv, Users!Reassign
<1>2. /\ UNCHANGED <<status, named, databases, connecting, creating, owner, rights, auth, late,
                     reach, userSpent>>
      /\ hook' = [hook EXCEPT !.step = "drop", !.left = @ \ {d}, !.database = d,
                              !.owned = Users!Owned(r, d)]
  BY DEF Users!Reassign, Users!client, Users!catalog, Users!access
<1>3. Users!Owned(r, d) \subseteq UserRelations
  BY DEF Users!Owned, Users!Tables
<1>4. /\ hook' \in Users!Hook /\ hook'.relation = r /\ hook'.step = "drop" /\ hook'.database = d
      /\ hook'.owned = Users!Owned(r, d)
  BY <1>1, <1>2, <1>3 DEF Users!Hook, Users!Steps
<1>5. UserTypes'
  BY <1>2, <1>4 DEF UsersInv, UserTypes
<1>6. HooksFit'
  BY <1>1, <1>2, <1>4 DEF UsersInv, HooksFit, RequestSteps
<1>7. Tables'
  BY <1>2 DEF UsersInv, Tables
<1>8. Access'
  BY <1>2, <1>4 DEF UsersInv, Access, Reaches
<1>9. Reassigned'
  BY <1>2, <1>4 DEF Reassigned, Users!Owned, Users!Tables
<1>10. Logins'
  BY <1>1, <1>2, <1>4 DEF UsersInv, Logins, Retries, Initialises
<1> QED BY <1>5, <1>6, <1>7, <1>8, <1>9, <1>10 DEF UsersInv

\* No client but that of the removed relation loses anything when the transaction ends.
LEMMA DropOwnedKeeps ==
  ASSUME UsersInv, NEW r \in UserRelations, Users!DropOwned(r)
  PROVE  /\ UsersInv'
         /\ \A t \in UserRelations \ late : owner[t] # None => owner'[t] # None
<1> DEFINE d == hook.database
<1>1. /\ hook # None /\ hook \in Users!Hook /\ hook.relation = r /\ hook.step = "drop"
      /\ d \in ClientDatabases /\ hook.owned \subseteq UserRelations
  BY RunsFor DEF UsersInv, Users!DropOwned, Users!Hook
<1>2. status[r] = "dying"
  BY <1>1 DEF UsersInv, HooksFit, RequestSteps
<1>3. /\ UNCHANGED <<status, named, databases, late, reach, userSpent>>
      /\ connecting' = connecting \ {r}
      /\ creating' = IF d = ClientDatabase[r] THEN creating \ {r} ELSE creating
      /\ auth' = [auth EXCEPT ![d] = IF @ = r THEN SuperUser ELSE @]
  BY DEF Users!DropOwned, Users!client
<1>4. owner' = [t \in UserRelations |->
                  IF t \in hook.owned THEN SuperUser
                  ELSE IF t \in Users!Tables(d) /\ owner[t] = r THEN None ELSE owner[t]]
  BY DEF Users!DropOwned
<1>5. rights' = {p \in rights : ~(p[1] = r /\ ClientDatabase[p[2]] = d) /\ owner'[p[2]] # None}
  BY DEF Users!DropOwned
<1>6. hook' = [hook EXCEPT !.step = IF hook.left = {} THEN "role" ELSE "reassign", !.owned = {}]
  BY DEF Users!DropOwned
<1>7. hook' \in Users!Hook /\ hook'.relation = r /\ hook'.step \in {"role", "reassign"}
  BY <1>1, <1>6 DEF Users!Hook, Users!Steps
<1>8. /\ \A t \in hook.owned : owner[t] = r
      /\ \A t \in Users!Tables(d) \ late : owner[t] = r => t \in hook.owned
  BY <1>1 DEF UsersInv, Reassigned
<1>9. /\ owner \in [UserRelations -> UserRelations \union {SuperUser, None}]
      /\ auth \in [ClientDatabases -> UserRelations \union {SuperUser, None}]
      /\ rights \subseteq UserRelations \X UserRelations
      /\ reach \in [UserRelations -> SUBSET UserRelations]
  BY DEF UsersInv, UserTypes
<1>10. SuperUser # None /\ r # None
  BY UsersAssumption DEF Users!Parameters
<1>11. \A t \in UserRelations : owner[t] # r => owner'[t] = owner[t]
  BY <1>4, <1>8
<1>12. \A t \in UserRelations \ late : owner[t] # None => owner'[t] # None
  BY <1>4, <1>8, <1>10
<1> HIDE DEF d
<1>13. UserTypes'
  <2>1. owner' \in [UserRelations -> UserRelations \union {SuperUser, None}]
    BY <1>4, <1>9
  <2>2. auth' \in [ClientDatabases -> UserRelations \union {SuperUser, None}]
    BY <1>3, <1>9
  <2>3. rights' \subseteq UserRelations \X UserRelations
    BY <1>5, <1>9
  <2> QED BY <1>3, <1>7, <2>1, <2>2, <2>3 DEF UsersInv, UserTypes
<1>14. HooksFit'
  BY <1>2, <1>3, <1>7 DEF UsersInv, HooksFit, RequestSteps
<1>15. Tables'
  BY <1>3, <1>5 DEF UsersInv, Tables
<1>16. Access'
  <2>1. ASSUME NEW x \in UserRelations, status[x] = "granted" PROVE Reaches(x)'
    <3>1. Reaches(x) /\ x # r
      BY <1>2, <2>1 DEF UsersInv, Access
    <3>2. ASSUME NEW t \in reach[x] \ late PROVE owner'[t] = x \/ <<x, t>> \in rights'
      <4>1. t \in UserRelations
        BY <1>9
      <4>2. CASE owner[t] = x
        BY <1>11, <3>1, <4>1, <4>2
      <4>3. CASE <<x, t>> \in rights
        <5>1. owner[t] # None
          BY <4>3 DEF UsersInv, Tables
        <5>2. owner'[t] # None
          BY <1>12, <4>1, <5>1
        <5> QED BY <1>5, <3>1, <4>3, <5>2
      <4> QED BY <3>1, <4>2, <4>3 DEF Reaches
    <3>3. x \in connecting' \intersect creating'
      BY <1>3, <3>1 DEF Reaches
    <3> QED BY <1>3, <3>2, <3>3 DEF Reaches
  <2> QED BY <1>3, <1>7, <2>1 DEF Access
<1>17. Reassigned'
  BY <1>7 DEF Reassigned
<1>18. Logins'
  <2>1. \A x \in UserRelations : Retries(x) => Retries(x)'
    BY <1>3 DEF Retries
  <2>2. \A x \in ClientDatabases : auth[x] = SuperUser => auth'[x] = SuperUser
    BY <1>3, <1>9
  <2>3. \A x \in UserRelations : ClientDatabase[x] \in ClientDatabases
    BY UsersAssumption DEF Users!Parameters
  <2>4. \A x \in UserRelations : status[x] = "granted" =>
          auth[ClientDatabase[x]] = SuperUser \/ Retries(x)
    BY <1>1 DEF UsersInv, Logins, Initialises
  <2> QED BY <1>3, <1>7, <2>1, <2>2, <2>3, <2>4 DEF Logins
<1> QED BY <1>12, <1>13, <1>14, <1>15, <1>16, <1>17, <1>18 DEF UsersInv

\* A hook that is run again begins anew: and if it had removed the auth function, leaves the rest
\* without until it comes to it again.
LEMMA RetriedKeeps ==
  ASSUME UsersInv, hook # None, Users!Retried,
         hook.step = "initialise" => userSpent'["crashes"] > 0,
         userSpent'["crashes"] >= userSpent["crashes"], userSpent' \in [Users!Disturbances -> Nat],
         UNCHANGED <<status, named, databases, connecting, creating, owner, rights, auth, late,
                     reach>>
  PROVE  UsersInv'
<1>1. hook \in Users!Hook /\ hook.relation \in UserRelations
  BY DEF UsersInv, UserTypes, Users!Hook
<1>2. /\ hook' \in Users!Hook /\ hook'.relation = hook.relation
      /\ hook'.step = IF status[hook.relation] = "dying" THEN "orphan" ELSE "user"
  BY <1>1, UsersAssumption
     DEF Users!Retried, Users!First, Users!Hook, Users!Steps, Users!Parameters
<1>3. /\ hook'.step \in {"user", "orphan"}
      /\ hook'.step \in RequestSteps <=> hook.step \in RequestSteps
      /\ hook.step \in RequestSteps => status[hook.relation] = "requested"
  BY <1>2 DEF UsersInv, HooksFit, RequestSteps
<1>4. AuthTypes' /\ databases' \subseteq ClientDatabases
  BY DEF UsersInv, UserTypes, AuthTypes
<1>5. Logins'
  <2>1. ASSUME NEW x \in UserRelations, status[x] = "granted"
        PROVE  auth[ClientDatabase[x]] = SuperUser \/ Retries(x)'
    <3>1. CASE Retries(x)
      <4>1. userSpent'["crashes"] > 0
        BY <3>1 DEF Retries, UsersInv, UserTypes, Users!Disturbances
      <4> QED BY <3>1, <4>1 DEF Retries
    <3>2. CASE Initialises(x)
      <4>1. hook.relation \notin named /\ status[hook.relation] = "requested"
        BY <1>1, <1>3, <3>2 DEF UsersInv, HooksFit, Initialises, RequestSteps
      <4> QED BY <1>1, <3>2, <4>1 DEF Initialises, Retries
    <3> QED BY <2>1, <3>1, <3>2 DEF UsersInv, Logins
  <2> QED BY <1>3, <2>1 DEF Logins
<1> QED BY <1>2, <1>3, <1>4, <1>5, StepKeeps

\* Hooks that fail.
LEMMA CrashKeeps ==
  ASSUME UsersInv, Users!Crash \/ \E r \in UserRelations : Users!DropRoleFails(r)
  PROVE  UsersInv'
<1>1. CASE Users!Crash
  <2>1. hook # None /\ Users!Retried
    BY <1>1 DEF Users!Crash
  <2>2. UNCHANGED <<status, named, databases, connecting, creating, owner, rights, auth, late,
                    reach>>
    BY <1>1 DEF Users!Crash, Users!client, Users!catalog, Users!access
  <2>3. userSpent' = [userSpent EXCEPT !["crashes"] = @ + 1]
    BY <1>1 DEF Users!Crash, Users!Spend
  <2>4. userSpent \in [Users!Disturbances -> Nat] /\ "crashes" \in Users!Disturbances
    BY DEF UsersInv, UserTypes, Users!Disturbances
  <2>5. /\ userSpent'["crashes"] > 0 /\ userSpent'["crashes"] >= userSpent["crashes"]
        /\ userSpent' \in [Users!Disturbances -> Nat]
    BY <2>3, <2>4
  <2> QED BY <2>1, <2>2, <2>5, RetriedKeeps
<1>2. ASSUME NEW r \in UserRelations, Users!DropRoleFails(r) PROVE UsersInv'
  <2>1. hook # None /\ hook.step = "role" /\ Users!Retried
    BY <1>2, RunsFor DEF UsersInv, Users!DropRoleFails
  <2>2. /\ userSpent' = userSpent
        /\ UNCHANGED <<status, named, databases, connecting, creating, owner, rights, auth, late,
                       reach>>
    BY <1>2 DEF Users!DropRoleFails, Users!client, Users!catalog, Users!access
  <2>3. userSpent["crashes"] \in Nat /\ userSpent \in [Users!Disturbances -> Nat]
    BY DEF UsersInv, UserTypes, Users!Disturbances
  <2> QED BY <2>1, <2>2, <2>3, RetriedKeeps
<1> QED BY <1>1, <1>2

\* A client creates its table, perhaps while its user is removed.
LEMMA CreateTableKeeps ==
  ASSUME UsersInv, NEW r \in UserRelations, Users!CreateTable(r)
  PROVE  UsersInv'
<1>1. /\ r \in named \intersect creating /\ owner[r] = None
      /\ owner' = [owner EXCEPT ![r] = r]
      /\ reach' = [reach EXCEPT ![r] = @ \union {r}]
      /\ late' = IF status[r] = "dying" THEN late \union {r} ELSE late
      /\ UNCHANGED <<status, named, hook, databases, connecting, creating, rights, auth, userSpent>>
  BY DEF Users!CreateTable, Users!access
<1>2. /\ owner \in [UserRelations -> UserRelations \union {SuperUser, None}]
      /\ reach \in [UserRelations -> SUBSET UserRelations]
      /\ rights \subseteq UserRelations \X UserRelations
  BY DEF UsersInv, UserTypes
<1>3. r # None
  BY UsersAssumption DEF Users!Parameters
<1>4. /\ \A t \in UserRelations : owner'[t] = IF t = r THEN r ELSE owner[t]
      /\ \A x \in UserRelations : reach'[x] = IF x = r THEN reach[r] \union {r} ELSE reach[x]
  BY <1>1, <1>2
<1>5. UserTypes'
  <2>1. owner' \in [UserRelations -> UserRelations \union {SuperUser, None}]
    BY <1>1, <1>2
  <2>2. reach' \in [UserRelations -> SUBSET UserRelations]
    BY <1>1, <1>2
  <2> QED BY <1>1, <2>1, <2>2 DEF UsersInv, UserTypes
<1>6. HooksFit'
  BY <1>1 DEF UsersInv, HooksFit
<1>7. Tables'
  <2>1. \A x \in UserRelations : \A t \in reach'[x] : ClientDatabase[t] = ClientDatabase[x]
    BY <1>4 DEF UsersInv, Tables
  <2>2. ASSUME NEW p \in rights PROVE owner'[p[2]] # None
    <3>1. p[2] \in UserRelations /\ owner[p[2]] # None
      BY <1>2 DEF UsersInv, Tables
    <3> QED BY <1>3, <1>4, <3>1
  <2> QED BY <1>1, <2>1, <2>2 DEF Tables
<1>8. Access'
  <2>1. ASSUME NEW x \in UserRelations, Reaches(x) PROVE Reaches(x)'
    <3>1. ASSUME NEW t \in reach'[x] \ late' PROVE owner'[t] = x \/ <<x, t>> \in rights
      <4>1. t \in UserRelations
        BY <1>2, <1>4
      <4>2. CASE t = r /\ x = r
        BY <1>4, <4>1, <4>2
      <4>3. CASE t # r \/ x # r
        <5>1. t \in reach[x] \ late
          BY <1>1, <1>4, <4>3
        <5>2. owner[t] = x \/ <<x, t>> \in rights
          BY <2>1, <5>1 DEF Reaches
        <5>3. x # None
          BY UsersAssumption DEF Users!Parameters
        <5> QED BY <1>1, <1>4, <4>1, <5>2, <5>3
      <4> QED BY <4>2, <4>3
    <3> QED BY <1>1, <2>1, <3>1 DEF Reaches
  <2>2. hook # None => hook.relation \in UserRelations
    BY DEF UsersInv, UserTypes, Users!Hook
  <2> QED BY <1>1, <2>1, <2>2 DEF UsersInv, Access
<1>9. Reassigned'
  <2> SUFFICES ASSUME hook # None, hook.step = "drop" PROVE Reassigned'
    BY <1>1 DEF Reassigned
  <2>1. /\ hook.relation \in UserRelations /\ hook.owned \subseteq UserRelations
        /\ status[hook.relation] = "dying"
    BY DEF UsersInv, UserTypes, HooksFit, Users!Hook, RequestSteps
  <2>2. /\ \A t \in hook.owned : owner[t] = hook.relation
        /\ \A t \in Users!Tables(hook.database) \ late :
             owner[t] = hook.relation => t \in hook.owned
    BY DEF UsersInv, Reassigned
  <2>3. hook.relation # None
    BY <2>1, UsersAssumption DEF Users!Parameters
  <2>4. \A t \in hook.owned : owner'[t] = hook.relation
    BY <1>1, <1>4, <2>1, <2>2, <2>3
  <2>5. ASSUME NEW t \in Users!Tables(hook.database)' \ late', owner'[t] = hook.relation
        PROVE  t \in hook.owned
    <3>1. t \in UserRelations /\ ClientDatabase[t] = hook.database
      BY <1>1 DEF Users!Tables
    <3>2. t # r
      BY <1>1, <1>4, <2>1, <2>5
    <3>3. t \in Users!Tables(hook.database) \ late /\ owner[t] = hook.relation
      BY <1>1, <1>4, <2>3, <2>5, <3>1, <3>2 DEF Users!Tables
    <3> QED BY <2>2, <3>3
  <2> QED BY <1>1, <2>4, <2>5 DEF Reassigned
<1>10. Logins'
  BY <1>1 DEF UsersInv, Logins, Retries, Initialises
<1> QED BY <1>5, <1>6, <1>7, <1>8, <1>9, <1>10 DEF UsersInv

\* Relations come and go.
LEMMA ClientKeeps ==
  ASSUME UsersInv, NEW r \in UserRelations, Users!Request(r) \/ Users!Remove(r)
  PROVE  UsersInv'
<1>1. UNCHANGED <<named, reach, hook, databases, connecting, creating, owner, rights, auth, late>>
  BY DEF Users!Request, Users!Remove, Users!catalog, Users!access
<1>2. \/ /\ status[r] = "none" /\ status' = [status EXCEPT ![r] = "requested"]
      \/ /\ status[r] \in {"requested", "granted", "refused"}
         /\ status' = [status EXCEPT ![r] = "dying"] /\ (hook # None => hook.relation # r)
  BY DEF Users!Request, Users!Remove
<1>3. /\ status \in [UserRelations -> {"none", "requested", "granted", "refused", "dying", "gone"}]
      /\ userSpent \in [Users!Disturbances -> Nat]
  BY DEF UsersInv, UserTypes
<1>4. userSpent' \in [Users!Disturbances -> Nat] /\ userSpent'["crashes"] >= userSpent["crashes"]
  BY <1>3 DEF Users!Request, Users!Remove, Users!Spend, Users!Disturbances
<1>5. status' \in [UserRelations -> {"none", "requested", "granted", "refused", "dying", "gone"}]
  BY <1>2, <1>3
<1>6. /\ \A x \in UserRelations : x # r => status'[x] = status[x]
      /\ status'[r] \in {"requested", "dying"} /\ (status'[r] = "requested" => status[r] = "none")
  BY <1>2, <1>3
<1>7. UserTypes /\ UserTypes'
  BY <1>1, <1>4, <1>5 DEF UsersInv, UserTypes
<1>8. HooksFit'
  <2>1. hook # None => hook.relation \in UserRelations
    BY DEF UsersInv, UserTypes, Users!Hook
  <2>2. hook # None => hook.relation # r
    BY <1>2 DEF UsersInv, HooksFit
  <2> QED BY <1>1, <1>6, <2>1, <2>2 DEF UsersInv, HooksFit
<1>9. Tables'
  BY <1>1 DEF UsersInv, Tables
<1>10. Access'
  BY <1>1, <1>6 DEF UsersInv, Access, Reaches
<1>11. Reassigned'
  BY <1>1 DEF UsersInv, Reassigned, Users!Tables
<1>12. Logins'
  <2>1. \A x \in UserRelations : status[x] # "none" => status'[x] # "none"
    BY <1>6
  <2>2. \A x \in UserRelations : Retries(x) => Retries(x)'
    BY <1>1, <1>4, <1>7, <2>1, RetriesStay
  <2>3. \A x \in UserRelations : status'[x] = "granted" => status[x] = "granted"
    BY <1>6
  <2>4. \A x \in UserRelations : Initialises(x) => Initialises(x)'
    BY <1>1 DEF Initialises
  <2> QED BY <1>1, <2>2, <2>3, <2>4 DEF UsersInv, Logins
<1> QED BY <1>7, <1>8, <1>9, <1>10, <1>11, <1>12 DEF UsersInv

\* The invariant is about the variables of the part.
LEMMA UsersStutter ==
  ASSUME UsersInv, UNCHANGED Users!vars
  PROVE  UsersInv'
<1>1. UNCHANGED <<status, named, hook, databases, connecting, creating, owner, rights, auth, late,
                  reach, userSpent>>
  BY DEF Users!vars, Users!client, Users!catalog, Users!access
<1>2. UserTypes'
  BY <1>1 DEF UsersInv, UserTypes
<1>3. HooksFit' /\ Tables'
  BY <1>1 DEF UsersInv, HooksFit, Tables
<1>4. Access'
  BY <1>1 DEF UsersInv, Access, Reaches
<1>5. Reassigned'
  BY <1>1 DEF UsersInv, Reassigned, Users!Tables
<1>6. Logins'
  BY <1>1 DEF UsersInv, Logins, Retries, Initialises
<1> QED BY <1>2, <1>3, <1>4, <1>5, <1>6 DEF UsersInv

\* Every step keeps the invariant.
LEMMA UsersKeep ==
  ASSUME UsersInv, [Users!Next]_(Users!vars)
  PROVE  UsersInv'
<1>1. ASSUME NEW r \in UserRelations, Users!Statement(r) PROVE UsersInv'
  BY <1>1, RequestStepsKeep, GrantPrivilegesKeeps, RemoveAuthFunctionKeeps,
     InitialiseAuthFunctionKeeps, PublishKeeps, RemovedStepsKeep, ReassignKeeps, DropOwnedKeeps,
     CrashKeeps
     DEF Users!Statement
<1> QED BY <1>1, StartRequestKeeps, RequestStepsKeep, CrashKeeps, CreateTableKeeps, ClientKeeps,
           UsersStutter
        DEF Users!Next

\* The invariant holds at first.
LEMMA UsersInit ==
  ASSUME Init
  PROVE  UsersInv
<1>1. /\ status = [r \in UserRelations |-> "none"] /\ named = {} /\ hook = None
      /\ databases = {"postgres"} /\ connecting = {} /\ creating = {} /\ rights = {}
      /\ owner = [r \in UserRelations |-> None] /\ auth = [d \in ClientDatabases |-> None]
      /\ late = {} /\ reach = [r \in UserRelations |-> {}]
      /\ userSpent = [d \in Users!Disturbances |-> 0]
  BY DEF Init, Users!Init
<1>2. UserTypes
  BY <1>1, UsersAssumption DEF UserTypes, Users!Parameters
<1> QED BY <1>1, <1>2 DEF UsersInv, HooksFit, Tables, Access, Reassigned, Logins

\* The invariant holds in every state.
THEOREM UsersInvariant == Spec => [](Runs("users") => UsersInv)
<1>1. Init => (Runs("users") => UsersInv)
  BY UsersInit
<1>2. (Runs("users") => UsersInv) /\ [Next]_vars => (Runs("users") => UsersInv)'
  BY UsersSteps, UsersKeep, OnePart DEF Runs
<1> QED BY <1>1, <1>2, PTL DEF Spec

\* What the invariant says of the clients.
LEMMA UsersGive ==
  ASSUME UsersInv
  PROVE  Users!AccessKept /\ Users!LoginsWork
<1>1. Users!AccessKept
  BY DEF UsersInv, Access, Reaches, Users!AccessKept
<1>2. Users!LoginsWork
  BY DEF UsersInv, Logins, Retries, Initialises, Users!LoginsWork
<1> QED BY <1>1, <1>2

\* Only three statements change the owner of a table.
LEMMA OwnersStay ==
  ASSUME UsersInv, Users!Next, NEW t \in UserRelations \ late, owner[t] # None
  PROVE  owner'[t] # None
<1>1. ASSUME NEW r \in UserRelations, Users!GrantPrivileges(r) PROVE owner'[t] # None
  <2>1. r # None
    BY UsersAssumption DEF Users!Parameters
  <2>2. \/ owner' = owner
        \/ owner' = [x \in UserRelations |->
                       IF x \in Users!Tables(ClientDatabase[r]) THEN r ELSE owner[x]]
    BY <1>1 DEF Users!GrantPrivileges
  <2> QED BY <2>1, <2>2
<1>2. ASSUME NEW r \in UserRelations, Users!CreateTable(r) PROVE owner'[t] # None
  <2>1. r # None
    BY UsersAssumption DEF Users!Parameters
  <2>2. /\ owner' = [owner EXCEPT ![r] = r]
        /\ owner \in [UserRelations -> UserRelations \union {SuperUser, None}]
    BY <1>2 DEF Users!CreateTable, UsersInv, UserTypes
  <2> QED BY <2>1, <2>2
<1>3. ASSUME NEW r \in UserRelations, Users!DropOwned(r) PROVE owner'[t] # None
  BY <1>3, DropOwnedKeeps
<1>4. ASSUME NEW r \in UserRelations,
             \/ Users!StartRequest(r) \/ Users!StartBroken(r) \/ Users!RequestFails(r)
             \/ Users!Request(r) \/ Users!Remove(r)
      PROVE  owner' = owner
  BY <1>4 DEF Users!StartRequest, Users!StartBroken, Users!RequestFails, Users!Refuse,
              Users!Request, Users!Remove, Users!catalog
<1>5. ASSUME NEW r \in UserRelations,
             \/ Users!CreateUser(r) \/ Users!CreateDatabase(r) \/ Users!GrantConnect(r)
             \/ Users!RemoveAuthFunction(r) \/ Users!InitialiseAuthFunction(r) \/ Users!Publish(r)
             \/ Users!RemoveOrphaned(r) \/ Users!ListUsers(r) \/ Users!DropRole(r)
             \/ Users!DropRoleFails(r) \/ Users!End(r)
             \/ \E d \in ClientDatabases : Users!Reassign(r, d)
      PROVE  owner' = owner
  BY <1>5 DEF Users!CreateUser, Users!Refuse, Users!CreateDatabase, Users!GrantConnect,
              Users!RemoveAuthFunction, Users!InitialiseAuthFunction, Users!Publish,
              Users!RemoveOrphaned, Users!ListUsers, Users!DropRole, Users!DropRoleFails,
              Users!End, Users!Reassign, Users!catalog
<1>6. Users!Crash => owner' = owner
  BY DEF Users!Crash, Users!catalog
<1> QED BY <1>1, <1>2, <1>3, <1>4, <1>5, <1>6 DEF Users!Next, Users!Statement

\* Tables change their owner with the clients, but none is lost that was created before its
\* client was removed (postgresql.py:214-271, 343-378).
THEOREM TablesAreKept == Spec => NoTableLost
<1>1. (Runs("users") => UsersInv) /\ [Next]_vars
        => [\A t \in UserRelations \ late : owner[t] # None => owner'[t] # None]_(Users!vars)
  <2> SUFFICES ASSUME Runs("users") => UsersInv, [Next]_vars, ~UNCHANGED Users!vars
               PROVE  \A t \in UserRelations \ late : owner[t] # None => owner'[t] # None
    OBVIOUS
  <2>1. Runs("users")
    <3>1. Runs("users") \/ UNCHANGED users
      BY DEF Next, vars, others
    <3> QED BY <3>1 DEF users, Users!vars, Users!client, Users!catalog, Users!access
  <2>2. Users!Next
    BY <2>1, UsersSteps
  <2> QED BY <2>1, <2>2, OwnersStay
<1> QED BY <1>1, UsersInvariant, PTL DEF Spec, NoTableLost, Users!NoTableLost

\* A client that was granted access keeps it: others that share its database, that are refused,
\* retried or removed take neither its tables nor its privileges, and its logins are checked by
\* a function that may read passwords (postgresql.py:214-378, 476-540,
\* backend_database.py:482-531).
THEOREM AccessIsKept == Spec => []AccessKept
<1>1. (Runs("users") => UsersInv) /\ (Runs("routes") => Routes!WildcardChecked) => AccessKept
  BY UsersGive DEF AccessKept
<1> QED BY <1>1, UsersInvariant, WildcardIsChecked, PTL

----------------------------------------------------------------------------
(* The status of the unit *)

LEMMA UnitSteps ==
  ASSUME [Next]_vars, Runs("unit")
  PROVE  [Unit!Next]_(Unit!vars)
<1>1. Unit!Next \/ UNCHANGED unit
  BY DEF Next, vars, Runs, others
<1> QED BY <1>1 DEF unit, Unit!vars, Unit!world, Unit!relations

\* What a disturbance counts.
LEMMA UnitCounts ==
  ASSUME Unit!TypeOK, NEW d \in Unit!Disturbances, Unit!Spend(d)
  PROVE  unitSpent' \in [Unit!Disturbances -> Nat]
BY DEF Unit!TypeOK, Unit!Spend

\* The statuses that are set, looking at what the status was.
LEMMA StatusSet ==
  ASSUME Unit!TypeOK, NEW r \in LegacyRelations
  PROVE  LET Status == {"active", "waiting_for_backend", "no_backend", "configuration",
                        "not_running", "failed", "extensions", "role"}
         IN /\ unitStatus \in Status /\ Unit!Updated(unitStatus) \in Status
            /\ Unit!Checked(unitStatus) \in Status
            /\ \A s \in Status : Unit!Unblocked(r, s) \in Status
<1>1. /\ valid \in BOOLEAN /\ backend \in BOOLEAN
      /\ unitStatus \in {"active", "waiting_for_backend", "no_backend", "configuration",
                         "not_running", "failed", "extensions", "role"}
  BY DEF Unit!TypeOK, Unit!Sticky
<1> QED BY <1>1 DEF Unit!Updated, Unit!Checked, Unit!Unblocked, Unit!Sticky

\* The hooks of the legacy relations.
LEMMA UnitHooksTyped ==
  ASSUME Unit!TypeOK, NEW r \in LegacyRelations,
         Unit!Joined(r) \/ Unit!Changed(r) \/ Unit!Broken(r)
  PROVE  Unit!TypeOK'
<1>1. /\ state \in [LegacyRelations -> {"none", "related", "served", "gone"}]
      /\ pending \in [LegacyRelations -> SUBSET {"joined", "changed", "broken"}]
  BY DEF Unit!TypeOK
<1>2. UNCHANGED <<Unit!world, asks, refused>>
  BY DEF Unit!Joined, Unit!Changed, Unit!Broken
<1>3. unitSpent' \in [Unit!Disturbances -> Nat]
  <2>1. unitSpent' = unitSpent \/ Unit!Spend("errors")
    BY DEF Unit!Joined, Unit!Changed, Unit!Broken
  <2> QED BY <2>1, UnitCounts DEF Unit!TypeOK, Unit!Disturbances
<1>4. state' \in [LegacyRelations -> {"none", "related", "served", "gone"}]
  <2>1. state' = state \/ \E s \in {"served", "gone"} : state' = [state EXCEPT ![r] = s]
    BY DEF Unit!Joined, Unit!Changed, Unit!Broken
  <2> QED BY <1>1, <2>1
<1>5. pending' \in [LegacyRelations -> SUBSET {"joined", "changed", "broken"}]
  <2>1. pending' = pending \/ \E h \in {"joined", "changed", "broken"} : Unit!Done(r, h)
    BY DEF Unit!Joined, Unit!Changed, Unit!Broken, Unit!Waits
  <2> QED BY <1>1, <2>1 DEF Unit!Done
<1>6. unitStatus' \in {"active", "waiting_for_backend", "no_backend", "configuration",
                       "not_running", "failed"} \union Unit!Sticky
  <2>1. CASE Unit!Joined(r)
    BY <2>1, StatusSet DEF Unit!Joined, Unit!Waits, Unit!Blocked, Unit!Sticky
  <2>2. CASE Unit!Changed(r)
    BY <2>2, StatusSet DEF Unit!Changed, Unit!Waits, Unit!Sticky
  <2>3. CASE Unit!Broken(r)
    BY <2>3, StatusSet DEF Unit!Broken, Unit!Sticky
  <2> QED BY <2>1, <2>2, <2>3
<1> QED BY <1>2, <1>3, <1>4, <1>5, <1>6 DEF Unit!TypeOK, Unit!world

\* Relations of the clients, which set no status.
LEMMA UnitClientsTyped ==
  ASSUME Unit!TypeOK, NEW r \in LegacyRelations, Unit!Relate(r) \/ Unit!Remove(r)
  PROVE  Unit!TypeOK'
<1>1. /\ state \in [LegacyRelations -> {"none", "related", "served", "gone"}]
      /\ pending \in [LegacyRelations -> SUBSET {"joined", "changed", "broken"}]
  BY DEF Unit!TypeOK
<1>2. UNCHANGED <<unitStatus, Unit!world, asks, refused>>
  BY DEF Unit!Relate, Unit!Remove
<1>3. unitSpent' \in [Unit!Disturbances -> Nat]
  BY UnitCounts DEF Unit!Relate, Unit!Remove, Unit!TypeOK, Unit!Disturbances
<1>4. state' \in [LegacyRelations -> {"none", "related", "served", "gone"}]
  BY <1>1 DEF Unit!Relate, Unit!Remove
<1>5. pending' \in [LegacyRelations -> SUBSET {"joined", "changed", "broken"}]
  BY <1>1 DEF Unit!Relate, Unit!Remove
<1> QED BY <1>2, <1>3, <1>4, <1>5 DEF Unit!TypeOK, Unit!world

\* The rest of the charm, the operator, and what the charm has no say in.
LEMMA UnitWorldTyped ==
  ASSUME Unit!TypeOK,
         \/ Unit!UpdateStatus \/ Unit!DatabaseRequested \/ Unit!AskForRole \/ Unit!BackendReady
         \/ Unit!Outage \/ Unit!Repair \/ Unit!Misconfigure \/ Unit!Start \/ Unit!Stop
         \/ Unit!Enable
  PROVE  Unit!TypeOK'
<1>1. UNCHANGED <<asks, state, pending>>
  BY DEF Unit!UpdateStatus, Unit!DatabaseRequested, Unit!AskForRole, Unit!BackendReady,
         Unit!Outage, Unit!Repair, Unit!Misconfigure, Unit!Start, Unit!Stop, Unit!Enable,
         Unit!relations
<1>2. unitSpent' \in [Unit!Disturbances -> Nat]
  <2>1. unitSpent' = unitSpent \/ \E d \in Unit!Disturbances : Unit!Spend(d)
    BY DEF Unit!UpdateStatus, Unit!DatabaseRequested, Unit!AskForRole, Unit!BackendReady,
           Unit!Outage, Unit!Repair, Unit!Misconfigure, Unit!Start, Unit!Stop, Unit!Enable,
           Unit!Disturbances
  <2> QED BY <2>1, UnitCounts DEF Unit!TypeOK
<1>3. \/ UNCHANGED unitStatus
      \/ unitStatus' \in {Unit!Updated(unitStatus), "waiting_for_backend", "role"}
  BY DEF Unit!UpdateStatus, Unit!DatabaseRequested, Unit!AskForRole, Unit!BackendReady,
         Unit!Outage, Unit!Repair, Unit!Misconfigure, Unit!Start, Unit!Stop, Unit!Enable
<1>4. unitStatus' \in {"active", "waiting_for_backend", "no_backend", "configuration",
                       "not_running", "failed"} \union Unit!Sticky
  <2>1. Unit!Updated(unitStatus)
          \in {"active", "waiting_for_backend", "no_backend", "configuration", "not_running",
               "failed"} \union Unit!Sticky
    <3>1. valid \in BOOLEAN /\ backend \in BOOLEAN
      BY DEF Unit!TypeOK
    <3> QED BY <3>1 DEF Unit!TypeOK, Unit!Updated, Unit!Checked, Unit!Sticky
  <2> QED BY <1>3, <2>1 DEF Unit!TypeOK, Unit!Sticky
<1>5. /\ backend' \in BOOLEAN /\ valid' \in BOOLEAN /\ pgbouncerRuns' \in BOOLEAN
      /\ enabled' \in BOOLEAN
  BY DEF Unit!UpdateStatus, Unit!DatabaseRequested, Unit!AskForRole, Unit!BackendReady,
         Unit!Outage, Unit!Repair, Unit!Misconfigure, Unit!Start, Unit!Stop, Unit!Enable,
         Unit!world, Unit!TypeOK
<1>6. refused' \in {"none", "asked", "refused"}
  BY DEF Unit!UpdateStatus, Unit!DatabaseRequested, Unit!AskForRole, Unit!BackendReady,
         Unit!Outage, Unit!Repair, Unit!Misconfigure, Unit!Start, Unit!Stop, Unit!Enable,
         Unit!relations, Unit!TypeOK
<1> QED BY <1>1, <1>2, <1>4, <1>5, <1>6 DEF Unit!TypeOK

\* The unit has one of the statuses, and relations the hooks, that the charm knows.
THEOREM UnitTyped == Spec => [](Runs("unit") => Unit!TypeOK)
<1>1. Init => (Runs("unit") => Unit!TypeOK)
  <2>1. Init => Unit!Init
    BY DEF Init
  <2>2. ASSUME Unit!Init PROVE Unit!TypeOK
    <3>1. /\ state \in [LegacyRelations -> {"none", "related", "served", "gone"}]
          /\ pending \in [LegacyRelations -> SUBSET {"joined", "changed", "broken"}]
          /\ unitSpent \in [Unit!Disturbances -> Nat]
      BY <2>2 DEF Unit!Init
    <3>2. /\ unitStatus = "no_backend" /\ refused = "none" /\ asks \subseteq LegacyRelations
          /\ backend \in BOOLEAN /\ valid \in BOOLEAN /\ pgbouncerRuns \in BOOLEAN
          /\ enabled \in BOOLEAN
      BY <2>2 DEF Unit!Init
    <3> QED BY <3>1, <3>2 DEF Unit!TypeOK
  <2> QED BY <2>1, <2>2
<1>2. ASSUME Unit!TypeOK, [Unit!Next]_(Unit!vars) PROVE Unit!TypeOK'
  <2>1. CASE UNCHANGED Unit!vars
    BY <1>2, <2>1 DEF Unit!TypeOK, Unit!vars, Unit!world, Unit!relations
  <2> QED BY <1>2, <2>1, UnitHooksTyped, UnitClientsTyped, UnitWorldTyped DEF Unit!Next
<1>3. (Runs("unit") => Unit!TypeOK) /\ [Next]_vars => (Runs("unit") => Unit!TypeOK)'
  BY <1>2, UnitSteps, OnePart DEF Runs
<1> QED BY <1>1, <1>3, PTL DEF Spec

----------------------------------------------------------------------------
(* The types of the parts of which nothing else is proved, or which it does not need *)

LEMMA StatusesSteps ==
  ASSUME [Next]_vars, Runs("statuses")
  PROVE  [Statuses!Next]_(Statuses!vars)
<1>1. Statuses!Next \/ UNCHANGED resources
  BY DEF Next, vars, Runs, others
<1> QED BY <1>1 DEF resources, Statuses!vars, Statuses!provider

\* A status is published only after the resource was requested.
LEMMA PublishTyped ==
  ASSUME Statuses!TypeOK, NEW cs \in SUBSET StatusCodes, Statuses!Publish(cs)
  PROVE  Statuses!TypeOK'
<1>1. statusSpent' \in [Statuses!Disturbances -> Nat]
  BY DEF Statuses!Publish, Statuses!Spend, Statuses!Disturbances, Statuses!TypeOK
<1> QED BY <1>1 DEF Statuses!Publish, Statuses!TypeOK

\* What a unit of the requirer is told is among the codes.
LEMMA StatusChangedTyped ==
  ASSUME Statuses!TypeOK, NEW u \in Requirers,
         Statuses!RelationChanged(u) \/ Statuses!RelationChangedFails(u)
  PROVE  Statuses!TypeOK'
<1>1. statusSpent' \in [Statuses!Disturbances -> Nat]
  BY DEF Statuses!RelationChanged, Statuses!RelationChangedFails, Statuses!Spend,
         Statuses!Disturbances, Statuses!TypeOK
<1>2. codes' \in [Requirers -> SUBSET StatusCodes]
  BY DEF Statuses!RelationChanged, Statuses!RelationChangedFails, Statuses!TypeOK
<1>3. active' \in [Requirers -> SUBSET StatusCodes]
  BY DEF Statuses!RelationChanged, Statuses!RelationChangedFails, Statuses!Emitted,
         Statuses!TypeOK
<1> QED BY <1>1, <1>2, <1>3
        DEF Statuses!RelationChanged, Statuses!RelationChangedFails, Statuses!provider,
            Statuses!TypeOK

\* There is no status of a resource that was not requested (data_interfaces.py:2329-2366).
THEOREM StatusesTyped == Spec => [](Runs("statuses") => Statuses!TypeOK)
<1>1. Init => (Runs("statuses") => Statuses!TypeOK)
  <2>1. Init => Statuses!Init
    BY DEF Init
  <2>2. ASSUME Statuses!Init PROVE Statuses!TypeOK
    <3>1. /\ codes \in [Requirers -> SUBSET StatusCodes]
          /\ active \in [Requirers -> SUBSET StatusCodes]
          /\ statusSpent \in [Statuses!Disturbances -> Nat]
      BY <2>2 DEF Statuses!Init
    <3>2. /\ resource \in BOOLEAN /\ subordinate \in BOOLEAN /\ ready \in BOOLEAN
          /\ statuses = {} /\ statusChanged = {}
      BY <2>2 DEF Statuses!Init
    <3> QED BY <3>1, <3>2 DEF Statuses!TypeOK
  <2> QED BY <2>1, <2>2
<1>2. ASSUME Statuses!TypeOK, [Statuses!Next]_(Statuses!vars) PROVE Statuses!TypeOK'
  <2>1. CASE Statuses!Request \/ Statuses!GetReady \/ UNCHANGED Statuses!vars
    BY <1>2, <2>1 DEF Statuses!Request, Statuses!GetReady, Statuses!vars, Statuses!provider,
                      Statuses!TypeOK
  <2>2. CASE Statuses!ClearStatuses
    BY <1>2, <2>2, PublishTyped DEF Statuses!ClearStatuses
  <2>3. ASSUME NEW c \in StatusCodes, Statuses!RaiseStatus(c) \/ Statuses!ResolveStatus(c)
        PROVE  Statuses!TypeOK'
    BY <1>2, <2>3, PublishTyped DEF Statuses!RaiseStatus, Statuses!ResolveStatus, Statuses!TypeOK
  <2> QED BY <1>2, <2>1, <2>2, <2>3, StatusChangedTyped DEF Statuses!Next
<1>3. (Runs("statuses") => Statuses!TypeOK) /\ [Next]_vars => (Runs("statuses") => Statuses!TypeOK)'
  BY <1>2, StatusesSteps, OnePart DEF Runs
<1> QED BY <1>1, <1>3, PTL DEF Spec

\* promtail is planned only in a container that is there and has the program.
LEMMA PromtailTyped ==
  ASSUME Logs!TypeOK, UNCHANGED <<related, dying, present, leaving, toLoki, offered, published, up>>,
         hooks' \subseteq {"created", "changed", "pebble_ready"}, failing' = failing,
         \/ UNCHANGED <<Logs!promtail, logSpent>>
         \/ up /\ Logs!SetUpIfOffered
         \/ up /\ Logs!Reconfigured
  PROVE  Logs!TypeOK'
<1>1. \/ UNCHANGED <<Logs!promtail, logSpent>>
      \/ up /\ Logs!SetUp
      \/ UNCHANGED Logs!promtail /\ Logs!Spend("downloads")
      \/ up /\ Logs!Reconfigured
  BY DEF Logs!SetUpIfOffered, Logs!DownloadFails
<1>2. logSpent' \in [Logs!Disturbances -> Nat]
  BY <1>1 DEF Logs!TypeOK, Logs!SetUp, Logs!Reconfigured, Logs!Spend, Logs!Disturbances
<1>3. /\ cached' \in BOOLEAN /\ installed' \in BOOLEAN /\ planned' \in BOOLEAN
      /\ planned' => up /\ installed'
  <2>1. CASE up /\ Logs!SetUp
    BY <2>1 DEF Logs!SetUp
  <2>2. CASE UNCHANGED <<cached, installed, planned>>
    BY <2>2 DEF Logs!TypeOK
  <2> QED BY <1>1, <2>1, <2>2 DEF Logs!Reconfigured, Logs!promtail
<1>4. config' \in (SUBSET Lokis) \union {None} /\ running' \in (SUBSET Lokis) \union {None}
  BY <1>1 DEF Logs!TypeOK, Logs!SetUp, Logs!Reconfigured, Logs!Clients, Logs!promtail
<1> QED BY <1>2, <1>3, <1>4 DEF Logs!TypeOK

\* The hooks of the unit that set promtail up.
LEMMA LogsHookTyped ==
  ASSUME Logs!TypeOK, Logs!Created \/ Logs!Changed \/ Logs!PebbleReady
  PROVE  Logs!TypeOK'
<1>1. /\ UNCHANGED <<related, dying, present, leaving, toLoki, offered, published, failing, up>>
      /\ hooks' \subseteq hooks
  BY DEF Logs!Created, Logs!Changed, Logs!PebbleReady, Logs!Hook, Logs!relation, Logs!loki
<1>2. \/ UNCHANGED <<Logs!promtail, logSpent>>
      \/ up /\ Logs!SetUpIfOffered
      \/ up /\ Logs!Reconfigured
  <2>1. CASE Logs!Created
    BY <2>1 DEF Logs!Created
  <2>2. CASE Logs!Changed
    BY <2>2 DEF Logs!Changed
  <2>3. CASE Logs!PebbleReady
    BY <2>3 DEF Logs!PebbleReady
  <2> QED BY <2>1, <2>2, <2>3
<1>3. hooks' \subseteq {"created", "changed", "pebble_ready"}
  BY <1>1 DEF Logs!TypeOK
<1> QED BY <1>1, <1>2, <1>3, PromtailTyped

\* A unit of Loki goes, or the hook that says so fails.
LEMMA DepartedTyped ==
  ASSUME Logs!TypeOK, NEW u \in Lokis, Logs!Departed(u) \/ Logs!DepartedFails(u)
  PROVE  Logs!TypeOK'
<1>1. UNCHANGED <<related, dying, toLoki, offered, hooks, up, cached, installed, planned, logSpent>>
  BY DEF Logs!Departed, Logs!DepartedFails, Logs!relation, Logs!loki
<1>2. /\ present' \subseteq Lokis /\ leaving' \subseteq present' /\ published' \subseteq Lokis
      /\ failing' \in leaving' \union {None}
  BY DEF Logs!Departed, Logs!DepartedFails, Logs!loki, Logs!TypeOK
<1>3. config' \in (SUBSET Lokis) \union {None} /\ running' \in (SUBSET Lokis) \union {None}
  <2>1. /\ published \subseteq Lokis /\ present \subseteq Lokis
        /\ config \in (SUBSET Lokis) \union {None} /\ running \in (SUBSET Lokis) \union {None}
    BY DEF Logs!TypeOK
  <2>2. CASE Logs!Departed(u)
    <3> DEFINE clients == (present \ {u}) \intersect published
    <3>1. /\ config' = (IF up THEN clients ELSE config)
          /\ running' = (IF up /\ clients # {} THEN clients ELSE None)
      BY <2>2 DEF Logs!Departed
    <3>2. clients \in SUBSET Lokis
      BY <2>1
    <3> HIDE DEF clients
    <3> QED BY <2>1, <3>1, <3>2
  <2>3. CASE Logs!DepartedFails(u)
    BY <2>1, <2>3 DEF Logs!DepartedFails
  <2> QED BY <2>2, <2>3
<1> QED BY <1>1, <1>2, <1>3 DEF Logs!TypeOK

\* Units of Loki, the relation and the container.
LEMMA LogsJujuTyped ==
  ASSUME Logs!TypeOK,
         \/ \E u \in Lokis : Logs!LokiChanged(u) \/ Logs!LokiJoins(u) \/ Logs!LokiLeaves(u)
         \/ Logs!Relate \/ Logs!Remove \/ Logs!RelationBroken \/ Logs!ContainerStarts
  PROVE  Logs!TypeOK'
<1>1. UNCHANGED Logs!promtail /\ (up => up')
  BY DEF Logs!LokiChanged, Logs!LokiJoins, Logs!LokiLeaves, Logs!Relate, Logs!Remove,
         Logs!RelationBroken, Logs!ContainerStarts
<1>2. logSpent' \in [Logs!Disturbances -> Nat]
  BY DEF Logs!LokiChanged, Logs!LokiJoins, Logs!LokiLeaves, Logs!Relate, Logs!Remove,
         Logs!RelationBroken, Logs!ContainerStarts, Logs!Spend, Logs!Disturbances, Logs!TypeOK
<1>3. /\ related' \in BOOLEAN /\ dying' \in BOOLEAN /\ offered' \in BOOLEAN /\ up' \in BOOLEAN
      /\ toLoki' \subseteq Lokis /\ published' \subseteq Lokis
      /\ hooks' \subseteq {"created", "changed", "pebble_ready"}
  BY DEF Logs!LokiChanged, Logs!LokiJoins, Logs!LokiLeaves, Logs!Relate, Logs!Remove,
         Logs!RelationBroken, Logs!ContainerStarts, Logs!relation, Logs!loki, Logs!TypeOK
<1>4. /\ present' \subseteq Lokis /\ leaving' \subseteq present'
      /\ failing' \in leaving' \union {None}
  BY DEF Logs!LokiChanged, Logs!LokiJoins, Logs!LokiLeaves, Logs!Relate, Logs!Remove,
         Logs!RelationBroken, Logs!ContainerStarts, Logs!relation, Logs!loki, Logs!TypeOK
<1> QED BY <1>1, <1>2, <1>3, <1>4 DEF Logs!TypeOK, Logs!promtail

\* promtail is a service only of a container that is there and has the program, and a hook fails
\* only for a unit of Loki that is leaving (loki_push_api.py:1829-1901).
THEOREM LogsTyped == Spec => [](Runs("logs") => Logs!TypeOK)
<1>1. Init => (Runs("logs") => Logs!TypeOK)
  <2>1. Init => Logs!Init
    BY DEF Init
  <2>2. ASSUME Logs!Init PROVE Logs!TypeOK
    <3>1. logSpent \in [Logs!Disturbances -> Nat]
      BY <2>2 DEF Logs!Init
    <3>2. /\ related \in BOOLEAN /\ dying \in BOOLEAN /\ offered \in BOOLEAN /\ up \in BOOLEAN
          /\ cached \in BOOLEAN /\ installed \in BOOLEAN /\ planned = FALSE
      BY <2>2 DEF Logs!Init
    <3>3. /\ present = {} /\ leaving = {} /\ toLoki = {} /\ published = {} /\ hooks = {}
          /\ failing = None /\ config = None /\ running = None
      BY <2>2 DEF Logs!Init
    <3>4. present \subseteq Lokis /\ leaving \subseteq present /\ failing \in leaving \union {None}
      BY <3>3
    <3>5. config \in (SUBSET Lokis) \union {None} /\ running \in (SUBSET Lokis) \union {None}
      BY <3>3
    <3> QED BY <3>1, <3>2, <3>3, <3>4, <3>5, Zenon DEF Logs!TypeOK
  <2> QED BY <2>1, <2>2
<1>2. ASSUME Logs!TypeOK, [Logs!Next]_(Logs!vars) PROVE Logs!TypeOK'
  <2>1. CASE Logs!ContainerStops
    <3>1. logSpent' \in [Logs!Disturbances -> Nat]
      BY <1>2, <2>1 DEF Logs!ContainerStops, Logs!Spend, Logs!Disturbances, Logs!TypeOK
    <3>2. /\ UNCHANGED <<related, dying, present, leaving, toLoki, offered, published, hooks,
                          failing, cached>>
          /\ up' = FALSE /\ installed' = FALSE /\ planned' = FALSE
          /\ config' = None /\ running' = None
      BY <2>1 DEF Logs!ContainerStops, Logs!relation, Logs!loki
    <3>3. up' \in BOOLEAN /\ installed' \in BOOLEAN /\ planned' \in BOOLEAN
      BY <3>2
    <3>4. config' \in (SUBSET Lokis) \union {None} /\ running' \in (SUBSET Lokis) \union {None}
      BY <3>2
    <3> QED BY <1>2, <3>1, <3>2, <3>3, <3>4 DEF Logs!TypeOK
  <2>2. CASE UNCHANGED Logs!vars
    BY <1>2, <2>2 DEF Logs!vars, Logs!relation, Logs!loki, Logs!promtail, Logs!TypeOK
  <2> QED BY <1>2, <2>1, <2>2, LogsHookTyped, DepartedTyped, LogsJujuTyped DEF Logs!Next
<1>3. (Runs("logs") => Logs!TypeOK) /\ [Next]_vars => (Runs("logs") => Logs!TypeOK)'
  BY <1>2, LogsSteps, OnePart DEF Runs
<1> QED BY <1>1, <1>3, PTL DEF Spec

\* Only units with an address have jobs, for the ports of a revision.
LEMMA TargetsTyped ==
  ASSUME Metrics!TypeOK, Metrics!TargetsChanged
  PROVE  \A j \in targets' :
           j.unit \in Pods /\ j.port \in Metrics!Ports /\ j.address \in Nat \ {0}
<1> SUFFICES ASSUME NEW j \in targets'
             PROVE  j.unit \in Pods /\ j.port \in Metrics!Ports /\ j.address \in Nat \ {0}
  OBVIOUS
<1>1. jobs \in ScrapeRevisions /\ j \in Metrics!Deduped(Metrics!Expanded(jobs))
  BY JobsTaken DEF Metrics!TypeOK
<1>2. PICK a \in Metrics!Expanded(jobs) :
        j = [a EXCEPT !.name = @ \o <<a.port, a.address>>] \/ j = a
  BY <1>1 DEF Metrics!Deduped
<1>3. PICK v \in Metrics!RelationHosts, p \in ScrapePorts[jobs] :
        a = [name |-> <<v>>, unit |-> v, port |-> p, address |-> host[v]]
  BY <1>2 DEF Metrics!Expanded
<1>4. j.unit = v /\ j.port = p /\ j.address = host[v]
  BY <1>2, <1>3
<1>5. v \in Pods /\ host[v] \in Nat \ {0}
  BY DEF Metrics!RelationHosts, Metrics!TypeOK
<1>6. p \in Metrics!Ports
  BY <1>1 DEF Metrics!Ports
<1> QED BY <1>4, <1>5, <1>6

\* Steps that leave the targets.
LEMMA MetricsStepsTyped ==
  ASSUME Metrics!TypeOK, targets' = targets,
         \/ \E u \in Pods : \/ Metrics!RelationJoined(u) \/ Metrics!PebbleReady(u)
                            \/ Metrics!Leave(u) \/ Metrics!ContainerRestart(u)
         \/ \E u \in Pods, r \in ScrapeRevisions : Metrics!Replace(u, r)
         \/ Metrics!Elect
  PROVE  Metrics!TypeOK'
<1>1. /\ scrapeRevision \in [Pods -> ScrapeRevisions] /\ address \in [Pods -> Nat]
      /\ host \in [Pods -> Nat] /\ scrapeSpent \in [Metrics!Disturbances -> Nat]
      /\ toScrape \in BOOLEAN
  BY DEF Metrics!TypeOK
<1>2. /\ scrapeLeader' \in members' /\ members' \subseteq Pods
      /\ joining' \subseteq members' /\ toPrepare' \subseteq members'
  BY DEF Metrics!RelationJoined, Metrics!PebbleReady, Metrics!Leave, Metrics!ContainerRestart,
         Metrics!Replace, Metrics!Elect, Metrics!charm, Metrics!TypeOK
<1>3. scrapeRevision' \in [Pods -> ScrapeRevisions] /\ address' \in [Pods -> Nat]
  BY <1>1 DEF Metrics!RelationJoined, Metrics!PebbleReady, Metrics!Leave,
              Metrics!ContainerRestart, Metrics!Replace, Metrics!Elect, Metrics!charm
<1>4. host' \in [Pods -> Nat] /\ jobs' \in ScrapeRevisions \union {0}
  <2>1. UNCHANGED Metrics!databags \/ \E u \in Pods : Metrics!SetScrapeJobSpec(u)
    BY DEF Metrics!RelationJoined, Metrics!PebbleReady, Metrics!Leave, Metrics!ContainerRestart,
           Metrics!Replace, Metrics!Elect
  <2> QED BY <1>1, <2>1 DEF Metrics!SetScrapeJobSpec, Metrics!databags, Metrics!TypeOK
<1>5. toScrape' \in BOOLEAN
  BY <1>1 DEF Metrics!RelationJoined, Metrics!PebbleReady, Metrics!Leave,
              Metrics!ContainerRestart, Metrics!Replace, Metrics!Elect, Metrics!Notify
<1>6. scrapeSpent' \in [Metrics!Disturbances -> Nat]
  BY <1>1 DEF Metrics!RelationJoined, Metrics!PebbleReady, Metrics!Leave,
              Metrics!ContainerRestart, Metrics!Replace, Metrics!Elect, Metrics!Spend,
              Metrics!Disturbances
<1> QED BY <1>2, <1>3, <1>4, <1>5, <1>6 DEF Metrics!TypeOK

\* The leader is one of the units in the relation, and Prometheus scrapes only what a unit has
\* published (prometheus_scrape.py:893-921, 1491-1522).
THEOREM MetricsTyped == Spec => [](Runs("metrics") => Metrics!TypeOK)
<1>1. Init => (Runs("metrics") => Metrics!TypeOK)
  <2>1. Init => Metrics!Init
    BY DEF Init
  <2>2. ASSUME Metrics!Init PROVE Metrics!TypeOK
    <3>1. /\ scrapeRevision \in [Pods -> ScrapeRevisions] /\ address \in [Pods -> Nat]
          /\ host \in [Pods -> Nat] /\ scrapeSpent \in [Metrics!Disturbances -> Nat]
      BY <2>2, ScrapingAssumption DEF Metrics!Init, Metrics!Parameters
    <3>2. /\ scrapeLeader \in members /\ members \subseteq Pods /\ jobs = 0
          /\ joining \subseteq members /\ toPrepare \subseteq members
          /\ toScrape = FALSE /\ targets = {}
      BY <2>2 DEF Metrics!Init
    <3> QED BY <3>1, <3>2 DEF Metrics!TypeOK
  <2> QED BY <2>1, <2>2
<1>2. ASSUME Metrics!TypeOK, [Metrics!Next]_(Metrics!vars) PROVE Metrics!TypeOK'
  <2>1. CASE Metrics!TargetsChanged
    BY <1>2, <2>1, TargetsTyped DEF Metrics!TargetsChanged, Metrics!charm, Metrics!databags,
                                    Metrics!TypeOK
  <2>2. CASE UNCHANGED Metrics!vars
    BY <1>2, <2>2 DEF Metrics!vars, Metrics!charm, Metrics!databags, Metrics!TypeOK
  <2>3. ASSUME NEW u \in Pods, \/ Metrics!RelationJoined(u) \/ Metrics!PebbleReady(u)
                               \/ Metrics!Leave(u) \/ Metrics!ContainerRestart(u)
        PROVE  Metrics!TypeOK'
    <3>1. targets' = targets
      BY <2>3 DEF Metrics!RelationJoined, Metrics!PebbleReady, Metrics!Leave,
                  Metrics!ContainerRestart
    <3> QED BY <1>2, <2>3, <3>1, MetricsStepsTyped
  <2>4. ASSUME \/ \E u \in Pods, r \in ScrapeRevisions : Metrics!Replace(u, r)
               \/ Metrics!Elect
        PROVE  Metrics!TypeOK'
    <3>1. targets' = targets
      BY <2>4 DEF Metrics!Replace, Metrics!Elect
    <3> QED BY <1>2, <2>4, <3>1, MetricsStepsTyped
  <2> QED BY <1>2, <2>1, <2>2, <2>3, <2>4 DEF Metrics!Next
<1>3. (Runs("metrics") => Metrics!TypeOK) /\ [Next]_vars => (Runs("metrics") => Metrics!TypeOK)'
  BY <1>2, MetricsSteps, OnePart DEF Runs
<1> QED BY <1>1, <1>3, PTL DEF Spec

LEMMA BoardsSteps ==
  ASSUME [Next]_vars, Runs("dashboards")
  PROVE  [Boards!Next]_(Boards!vars)
<1>1. Boards!Next \/ UNCHANGED boards
  BY DEF Next, vars, Runs, others
<1> QED BY <1>1 DEF boards, Boards!vars, Boards!provider, Boards!consumer

\* What a disturbance counts.
LEMMA BoardsCounts ==
  ASSUME Boards!TypeOK, NEW d \in Boards!Disturbances, Boards!Spend(d)
  PROVE  dashSpent' \in [Boards!Disturbances -> Nat]
BY DEF Boards!TypeOK, Boards!Spend

\* What is published on a relation, and who is told.
LEMMA UpsetTyped ==
  ASSUME Boards!TypeOK, NEW r \in Boards!Relations, NEW ts \in SUBSET Boards!Template,
         Boards!Upset(r, ts)
  PROVE  /\ dashboards' \in [Boards!Relations -> (SUBSET Boards!Template) \union {None}]
         /\ changed' \in [Grafanas -> SUBSET Boards!Relations]
BY DEF Boards!TypeOK, Boards!Upset

\* The files of a revision are templates.
LEMMA LoadedTyped ==
  ASSUME Boards!TypeOK, NEW u \in Pods
  PROVE  Boards!Loaded(u) \in [Pods -> SUBSET Boards!Template]
<1>1. dashRevision[u] \in Boards!Revisions /\ stored \in [Pods -> SUBSET Boards!Template]
  BY DEF Boards!TypeOK
<1>2. Boards!Files(dashRevision[u]) \subseteq Boards!Template
  BY <1>1 DEF Boards!Files, Boards!Template
<1> QED BY <1>1, <1>2 DEF Boards!Loaded

\* The hooks and the code of a unit of pgbouncer.
LEMMA ProviderTyped ==
  ASSUME Boards!TypeOK, NEW u \in Pods,
         \/ Boards!UpdateAllDashboardsFromDir(u) \/ Boards!RelationCreated(u)
         \/ Boards!AddDashboard(u) \/ Boards!RemoveNonBuiltinDashboards(u)
  PROVE  Boards!TypeOK'
<1>1. /\ UNCHANGED <<dashLeader, dashRevision, dashRelated, leading, rendered, shown, peerChanged,
                     broken>>
      /\ updating' \subseteq updating /\ relating' \subseteq relating
      /\ Boards!Upsets(u)
  BY DEF Boards!UpdateAllDashboardsFromDir, Boards!RelationCreated, Boards!AddDashboard,
         Boards!RemoveNonBuiltinDashboards, Boards!consumer
<1>2. stored' \in [Pods -> SUBSET Boards!Template]
  <2>1. stored \in [Pods -> SUBSET Boards!Template]
    BY DEF Boards!TypeOK
  <2>2. \A form \in {"good", "broken"} :
          [uid |-> "added", version |-> 1, form |-> form] \in Boards!Template
    BY DEF Boards!Template, Boards!Revisions
  <2>3. CASE Boards!UpdateAllDashboardsFromDir(u) \/ Boards!RelationCreated(u)
    BY <2>1, <2>3, LoadedTyped DEF Boards!UpdateAllDashboardsFromDir, Boards!RelationCreated
  <2>4. CASE Boards!AddDashboard(u)
    BY <2>1, <2>2, <2>4 DEF Boards!AddDashboard
  <2>5. CASE Boards!RemoveNonBuiltinDashboards(u)
    BY <2>1, <2>5 DEF Boards!RemoveNonBuiltinDashboards
  <2> QED BY <2>3, <2>4, <2>5
<1>3. /\ dashboards' \in [Boards!Relations -> (SUBSET Boards!Template) \union {None}]
      /\ changed' \in [Grafanas -> SUBSET Boards!Relations]
  <2>1. CASE Boards!Upset(Boards!Ours, stored'[u])
    BY <1>2, <2>1, UpsetTyped DEF Boards!Relations
  <2>2. CASE UNCHANGED <<dashboards, changed>>
    BY <2>2 DEF Boards!TypeOK
  <2> QED BY <1>1, <2>1, <2>2 DEF Boards!Upsets
<1>4. dashSpent' \in [Boards!Disturbances -> Nat]
  <2>1. dashSpent' = dashSpent \/ Boards!Spend("additions")
    BY DEF Boards!UpdateAllDashboardsFromDir, Boards!RelationCreated, Boards!AddDashboard,
           Boards!RemoveNonBuiltinDashboards
  <2> QED BY <2>1, BoardsCounts DEF Boards!TypeOK, Boards!Disturbances
<1> QED BY <1>1, <1>2, <1>3, <1>4 DEF Boards!TypeOK

\* What Grafana keeps of a relation are dashboards, and what it shows is kept.
LEMMA RenderedTyped ==
  ASSUME Boards!TypeOK, NEW r \in Boards!Relations
  PROVE  Boards!Rendered(r) \subseteq {t \in Boards!Template : t.form = "good"}
BY DEF Boards!TypeOK, Boards!Rendered

LEMMA KeptTyped ==
  ASSUME NEW rs \in [Boards!Relations -> SUBSET {t \in Boards!Template : t.form = "good"}]
  PROVE  Boards!Kept(rs)
           \subseteq [uid : {"charm", "added"}, version : Boards!Revisions, relation : Boards!Relations]
<1> SUFFICES ASSUME NEW d \in Boards!All(rs)
             PROVE  d \in [uid : {"charm", "added"}, version : Boards!Revisions,
                           relation : Boards!Relations]
  BY DEF Boards!Kept
<1>1. PICK r \in Boards!Relations : \E t \in rs[r] :
        d = [uid |-> t.uid, version |-> t.version, relation |-> r]
  BY DEF Boards!All
<1>2. PICK t \in rs[r] : d = [uid |-> t.uid, version |-> t.version, relation |-> r]
  BY <1>1
<1>3. t.uid \in {"charm", "added"} /\ t.version \in Boards!Revisions
  BY DEF Boards!Template
<1> QED BY <1>2, <1>3

\* What a unit of Grafana stores and shows.
LEMMA StoreTyped ==
  ASSUME Boards!TypeOK, NEW g \in Grafanas, NEW dropped,
         NEW rs \in [Boards!Relations -> SUBSET {t \in Boards!Template : t.form = "good"}],
         Boards!Store(g, rs, dropped)
  PROVE  /\ rendered' \in [Boards!Relations -> SUBSET {t \in Boards!Template : t.form = "good"}]
         /\ shown' \in [Grafanas -> SUBSET [uid : {"charm", "added"}, version : Boards!Revisions,
                                            relation : Boards!Relations]]
         /\ peerChanged' \subseteq Grafanas
BY KeptTyped DEF Boards!TypeOK, Boards!Store

\* The hooks of a unit of Grafana.
LEMMA ConsumerTyped ==
  ASSUME Boards!TypeOK, NEW g \in Grafanas,
         \/ Boards!PeerChanged(g)
         \/ \E r \in Boards!Relations : Boards!RelationChanged(g, r) \/ Boards!RelationBroken(g, r)
  PROVE  Boards!TypeOK'
<1>1. UNCHANGED <<dashLeader, dashRevision, stored, updating, relating, dashRelated, dashboards,
                  leading, dashSpent>>
  BY DEF Boards!PeerChanged, Boards!RelationChanged, Boards!RelationBroken, Boards!provider
<1>2. /\ changed' \in [Grafanas -> SUBSET Boards!Relations]
      /\ broken' \in [Grafanas -> SUBSET Boards!Relations]
  <2>1. /\ changed' = changed \/ \E r : changed' = [changed EXCEPT ![g] = @ \ {r}]
        /\ broken' = broken \/ \E r : broken' = [broken EXCEPT ![g] = @ \ {r}]
    BY DEF Boards!PeerChanged, Boards!RelationChanged, Boards!RelationBroken
  <2>2. \A t \in [Grafanas -> SUBSET Boards!Relations] : \A r :
          [t EXCEPT ![g] = @ \ {r}] \in [Grafanas -> SUBSET Boards!Relations]
    OBVIOUS
  <2>3. /\ changed \in [Grafanas -> SUBSET Boards!Relations]
        /\ broken \in [Grafanas -> SUBSET Boards!Relations]
    BY DEF Boards!TypeOK
  <2> QED BY <2>1, <2>2, <2>3
<1>3. rendered \in [Boards!Relations -> SUBSET {t \in Boards!Template : t.form = "good"}]
  BY DEF Boards!TypeOK
<1>4. /\ rendered' \in [Boards!Relations -> SUBSET {t \in Boards!Template : t.form = "good"}]
      /\ shown' \in [Grafanas -> SUBSET [uid : {"charm", "added"}, version : Boards!Revisions,
                                         relation : Boards!Relations]]
      /\ peerChanged' \subseteq Grafanas
  <2>1. CASE Boards!PeerChanged(g)
    BY <1>3, <2>1, KeptTyped DEF Boards!PeerChanged, Boards!TypeOK
  <2>2. CASE UNCHANGED Boards!consumer
    BY <2>2 DEF Boards!consumer, Boards!TypeOK
  <2>3. CASE \E r \in Boards!Relations :
               Boards!Store(g, [rendered EXCEPT ![r] = Boards!Rendered(r)], Boards!Garbled(r))
    <3>1. PICK r \in Boards!Relations :
            Boards!Store(g, [rendered EXCEPT ![r] = Boards!Rendered(r)], Boards!Garbled(r))
      BY <2>3
    <3>2. [rendered EXCEPT ![r] = Boards!Rendered(r)]
            \in [Boards!Relations -> SUBSET {t \in Boards!Template : t.form = "good"}]
      BY <1>3, RenderedTyped
    <3> QED BY <3>1, <3>2, StoreTyped
  <2>4. CASE \E r \in Boards!Relations : Boards!Store(g, [rendered EXCEPT ![r] = {}], FALSE)
    <3>1. PICK r \in Boards!Relations : Boards!Store(g, [rendered EXCEPT ![r] = {}], FALSE)
      BY <2>4
    <3>2. [rendered EXCEPT ![r] = {}]
            \in [Boards!Relations -> SUBSET {t \in Boards!Template : t.form = "good"}]
      BY <1>3
    <3> QED BY <3>1, <3>2, StoreTyped
  <2> QED BY <2>1, <2>2, <2>3, <2>4 DEF Boards!RelationChanged, Boards!RelationBroken
<1> QED BY <1>1, <1>2, <1>4 DEF Boards!TypeOK

\* Juju and the other application.
LEMMA BoardsJujuTyped ==
  ASSUME Boards!TypeOK,
         \/ \E u \in Pods : Boards!Refresh(u)
         \/ \E r \in Boards!Relations : Boards!Remove(r)
         \/ Boards!Elect \/ Boards!OtherPublishes \/ Boards!GrafanaElects
  PROVE  Boards!TypeOK'
<1>1. UNCHANGED <<stored, rendered, shown, peerChanged>>
  BY DEF Boards!Refresh, Boards!Remove, Boards!Elect, Boards!OtherPublishes,
         Boards!GrafanaElects, Boards!provider, Boards!consumer
<1>2. dashSpent' \in [Boards!Disturbances -> Nat]
  <2>1. \E d \in Boards!Disturbances : Boards!Spend(d)
    BY DEF Boards!Refresh, Boards!Remove, Boards!Elect, Boards!OtherPublishes,
           Boards!GrafanaElects, Boards!Disturbances
  <2> QED BY <2>1, BoardsCounts
<1>3. /\ dashLeader' \in Pods /\ leading' \in Grafanas
      /\ dashRevision' \in [Pods -> Boards!Revisions]
      /\ updating' \subseteq Pods /\ relating' \subseteq Pods
      /\ dashRelated' \subseteq Boards!Relations
  BY DEF Boards!Refresh, Boards!Remove, Boards!Elect, Boards!OtherPublishes,
         Boards!GrafanaElects, Boards!provider, Boards!TypeOK, Boards!Revisions
<1>4. broken' \in [Grafanas -> SUBSET Boards!Relations]
  BY DEF Boards!Refresh, Boards!Remove, Boards!Elect, Boards!OtherPublishes,
         Boards!GrafanaElects, Boards!TypeOK
<1>5. /\ dashboards' \in [Boards!Relations -> (SUBSET Boards!Template) \union {None}]
      /\ changed' \in [Grafanas -> SUBSET Boards!Relations]
  <2>1. CASE Boards!OtherPublishes
    <3>1. PICK t \in Boards!Template : Boards!Upset(2, {t})
      BY <2>1 DEF Boards!OtherPublishes
    <3>2. 2 \in Boards!Relations /\ {t} \in SUBSET Boards!Template
      BY DEF Boards!Relations
    <3> QED BY <3>1, <3>2, UpsetTyped
  <2>2. CASE ~Boards!OtherPublishes
    BY <2>2 DEF Boards!Refresh, Boards!Remove, Boards!Elect, Boards!GrafanaElects,
                Boards!TypeOK
  <2> QED BY <2>1, <2>2
<1> QED BY <1>1, <1>2, <1>3, <1>4, <1>5 DEF Boards!TypeOK

\* Grafana keeps only dashboards that can be decoded and are JSON, whatever is published
\* (grafana_dashboard.py:1446-1497).
THEOREM BoardsTyped == Spec => [](Runs("dashboards") => Boards!TypeOK)
<1>1. Init => (Runs("dashboards") => Boards!TypeOK)
  <2>1. Init => Boards!Init
    BY DEF Init
  <2>2. ASSUME Boards!Init PROVE Boards!TypeOK
    BY <2>2 DEF Boards!Init, Boards!TypeOK, Boards!Revisions
  <2> QED BY <2>1, <2>2
<1>2. ASSUME Boards!TypeOK, [Boards!Next]_(Boards!vars) PROVE Boards!TypeOK'
  <2>1. CASE UNCHANGED Boards!vars
    BY <1>2, <2>1 DEF Boards!vars, Boards!provider, Boards!consumer, Boards!TypeOK
  <2> QED BY <1>2, <2>1, ProviderTyped, ConsumerTyped, BoardsJujuTyped DEF Boards!Next
<1>3. (Runs("dashboards") => Boards!TypeOK) /\ [Next]_vars
        => (Runs("dashboards") => Boards!TypeOK)'
  BY <1>2, BoardsSteps, OnePart DEF Runs
<1> QED BY <1>1, <1>3, PTL DEF Spec

LEMMA RulesSteps ==
  ASSUME [Next]_vars, Runs("alerts")
  PROVE  [Rules!Next]_(Rules!vars)
<1>1. Rules!Next \/ UNCHANGED alerts
  BY DEF Next, vars, Runs, others
<1> QED BY <1>1 DEF alerts, Rules!vars, Rules!fixed, Rules!monitor

\* What a disturbance counts.
LEMMA RulesCounts ==
  ASSUME Rules!TypeOK, NEW d \in Rules!Disturbances, Rules!Spend(d)
  PROVE  ruleSpent' \in [Rules!Disturbances -> Nat]
BY DEF Rules!TypeOK, Rules!Spend

\* What the leader of a charm publishes.
LEMMA RulesPublished ==
  ASSUME Rules!TypeOK, NEW r \in Rules!Relations, Rules!RelationJoined(r) \/ Rules!Refresh(r)
  PROVE  Rules!TypeOK'
<1>1. ruleSpent' \in [Rules!Disturbances -> Nat]
  <2>1. ruleSpent' = ruleSpent \/ Rules!Spend("refreshes")
    BY DEF Rules!RelationJoined, Rules!Refresh
  <2> QED BY <2>1, RulesCounts DEF Rules!TypeOK, Rules!Disturbances
<1>2. Rules!Publish(r)
  BY DEF Rules!RelationJoined, Rules!Refresh
<1>3. DOMAIN rules' = Rules!Relations
  BY <1>2 DEF Rules!Publish, Rules!TypeOK
<1>4. toMonitor' \in [Monitors -> SUBSET Rules!Relations]
  BY <1>2 DEF Rules!Publish, Rules!TypeOK
<1>5. UNCHANGED <<kind, app, topology, ruleLeader, event, applied, upgraded, ruleRelated, told,
                  toCharm>>
  BY <1>2 DEF Rules!Publish, Rules!fixed, Rules!monitor
<1> QED BY <1>1, <1>3, <1>4, <1>5 DEF Rules!TypeOK

\* Only rules that a relation offers are made into files.
LEMMA AlertsTyped ==
  ASSUME Rules!TypeOK
  PROVE  \A e \in Rules!Alerts : e.relation \in Rules!Relations /\ e.groups # {}
<1> SUFFICES ASSUME NEW e \in Rules!Alerts
             PROVE  e.relation \in Rules!Relations /\ e.groups # {}
  OBVIOUS
<1>1. PICK r \in Rules!Accepted : e.relation = r /\ e.groups = rules[r]
  BY DEF Rules!Alerts
<1>2. r \in Rules!Offering
  BY DEF Rules!Accepted, Rules!Refused
<1> QED BY <1>1, <1>2 DEF Rules!Offering, Rules!TypeOK

\* What a unit of the monitor makes of all rules.
LEMMA EvaluatesTyped ==
  ASSUME Rules!TypeOK, NEW u \in Monitors,
         Rules!Evaluates(u) \/ UNCHANGED <<applied, event, toCharm>>
  PROVE  /\ DOMAIN applied' = Monitors
         /\ \A v \in Monitors : \A e \in applied'[v] :
              e.relation \in Rules!Relations /\ e.groups # {}
         /\ event' \in [Rules!Relations -> BOOLEAN] /\ toCharm' \subseteq Rules!Relations
<1>1. CASE Rules!Evaluates(u)
  <2>1. /\ applied' = [applied EXCEPT ![u] = Rules!Alerts]
        /\ event' \in [Rules!Relations -> BOOLEAN]
        /\ toCharm' \subseteq Rules!Relations
    BY <1>1 DEF Rules!Evaluates, Rules!TypeOK
  <2> QED BY <2>1, AlertsTyped DEF Rules!TypeOK
<1>2. CASE UNCHANGED <<applied, event, toCharm>>
  BY <1>2 DEF Rules!TypeOK
<1> QED BY <1>1, <1>2

\* The hooks of a unit of the monitor.
LEMMA MonitorTyped ==
  ASSUME Rules!TypeOK, NEW u \in Monitors,
         Rules!UpgradeCharm(u) \/ \E r \in Rules!Relations : Rules!MonitorChanged(u, r)
  PROVE  Rules!TypeOK'
<1>1. /\ UNCHANGED <<kind, app, topology, ruleLeader, ruleRelated, rules, told, ruleSpent>>
      /\ Rules!Evaluates(u) \/ UNCHANGED <<applied, event, toCharm>>
  BY DEF Rules!UpgradeCharm, Rules!MonitorChanged, Rules!fixed
<1>2. toMonitor' \in [Monitors -> SUBSET Rules!Relations] /\ upgraded' \subseteq Monitors
  BY DEF Rules!UpgradeCharm, Rules!MonitorChanged, Rules!TypeOK
<1> QED BY <1>1, <1>2, EvaluatesTyped DEF Rules!TypeOK

\* The charms that are told, and Juju.
LEMMA RulesJujuTyped ==
  ASSUME Rules!TypeOK,
         \/ \E r \in Rules!Relations : Rules!CharmChanged(r) \/ Rules!Remove(r)
         \/ Rules!Elect \/ Rules!Upgrade
  PROVE  Rules!TypeOK'
<1>1. UNCHANGED <<kind, app, topology, event, applied, rules>>
  BY DEF Rules!CharmChanged, Rules!Remove, Rules!Elect, Rules!Upgrade, Rules!fixed, Rules!monitor
<1>2. ruleSpent' \in [Rules!Disturbances -> Nat]
  <2>1. ruleSpent' = ruleSpent \/ \E d \in Rules!Disturbances : Rules!Spend(d)
    BY DEF Rules!CharmChanged, Rules!Remove, Rules!Elect, Rules!Upgrade, Rules!Disturbances
  <2> QED BY <2>1, RulesCounts DEF Rules!TypeOK
<1>3. /\ ruleLeader' \in Monitors /\ ruleRelated' \subseteq Rules!Relations
      /\ toMonitor' \in [Monitors -> SUBSET Rules!Relations] /\ upgraded' \subseteq Monitors
      /\ toCharm' \subseteq Rules!Relations
  BY DEF Rules!CharmChanged, Rules!Remove, Rules!Elect, Rules!Upgrade, Rules!monitor, Rules!TypeOK
<1>4. told' \in [Rules!Relations -> BOOLEAN]
  BY DEF Rules!CharmChanged, Rules!Remove, Rules!Elect, Rules!Upgrade, Rules!TypeOK
<1> QED BY <1>1, <1>2, <1>3, <1>4 DEF Rules!TypeOK

\* A unit of the monitor has files only for relations that offer rules, and only for those with
\* a group (loki_push_api.py:1334-1359, prometheus_scrape.py:924-1011).
THEOREM RulesTyped == Spec => [](Runs("alerts") => Rules!TypeOK)
<1>1. Init => (Runs("alerts") => Rules!TypeOK)
  <2>1. Init => Rules!Init
    BY DEF Init
  <2>2. ASSUME Rules!Init PROVE Rules!TypeOK
    <3>1. /\ kind \in {"loki", "prometheus"} /\ app \in [Rules!Relations -> Applications]
          /\ topology \in [Rules!Relations -> {"labels", "metadata", "none"}]
          /\ event \in [Rules!Relations -> BOOLEAN] /\ told \in [Rules!Relations -> BOOLEAN]
          /\ toMonitor \in [Monitors -> SUBSET Rules!Relations]
          /\ ruleSpent \in [Rules!Disturbances -> Nat]
      BY <2>2 DEF Rules!Init
    <3>2. /\ ruleLeader \in Monitors /\ ruleRelated = Rules!Relations
          /\ DOMAIN rules = Rules!Relations /\ toCharm = {} /\ upgraded = {}
          /\ applied = [u \in Monitors |-> {}]
      BY <2>2 DEF Rules!Init
    <3> QED BY <3>1, <3>2 DEF Rules!TypeOK
  <2> QED BY <2>1, <2>2
<1>2. ASSUME Rules!TypeOK, [Rules!Next]_(Rules!vars) PROVE Rules!TypeOK'
  <2>1. CASE UNCHANGED Rules!vars
    BY <1>2, <2>1 DEF Rules!vars, Rules!fixed, Rules!monitor, Rules!TypeOK
  <2> QED BY <1>2, <2>1, RulesPublished, MonitorTyped, RulesJujuTyped DEF Rules!Next
<1>3. (Runs("alerts") => Rules!TypeOK) /\ [Next]_vars => (Runs("alerts") => Rules!TypeOK)'
  BY <1>2, RulesSteps, OnePart DEF Runs
<1> QED BY <1>1, <1>3, PTL DEF Spec

\* Entries of databases that clients request.
LEMMA NamedTyped ==
  ASSUME NEW rs \in SUBSET RoutedClients
  PROVE  Routes!Named(rs) \subseteq RouteNames
BY RoutesAssumption DEF Routes!Named, Routes!Parameters

\* A request that is entered is one of those that the scan of relations ends with.
LEMMA RequestedTyped ==
  ASSUME Routes!TypeOK, NEW r \in RoutedClients, granted[r] = "asked"
  PROVE  Routes!Requested(r) \in Routes!Configs
<1>1. Routes!Scanned \in (SUBSET RoutedClients) \ {{}}
  BY DEF Routes!Scanned
<1>2. \E x \in Routes!Scanned : \A y \in Routes!Scanned : y <= x
  BY <1>1, RoutesAssumption DEF Routes!Parameters
<1>3. \A x \in RoutedClients : RouteDatabase[x] \in RouteNames
  BY RoutesAssumption DEF Routes!Parameters
<1>4. Routes!LastScanned \in RouteNames
  BY <1>1, <1>2, <1>3 DEF Routes!LastScanned
<1> QED BY <1>1, <1>3, <1>4 DEF Routes!Requested, Routes!Configs

\* What is rendered from what the leader has written.
LEMMA RouteRendered ==
  ASSUME dbsConfig \in Routes!Configs, readonly \subseteq RouteNames
  PROVE  Routes!Rendered \in [names : SUBSET RouteNames, wildcard : RouteNames \union {None},
                              readonly : SUBSET RouteNames]
<1>1. dbsConfig.relations \in SUBSET RoutedClients /\ dbsConfig.wildcard \in RouteNames \union {None}
  BY DEF Routes!Configs
<1> QED BY <1>1, NamedTyped DEF Routes!Rendered, Routes!ReadonlyEntries

\* What a disturbance counts.
LEMMA RoutesCounts ==
  ASSUME Routes!TypeOK, NEW d \in Routes!Disturbances, Routes!Spend(d)
  PROVE  routesSpent' \in [Routes!Disturbances -> Nat]
BY DEF Routes!TypeOK, Routes!Spend

\* A hook of the leader for a relation: what it writes, and what it does in PostgreSQL.
LEMMA RequestTyped ==
  ASSUME Routes!TypeOK, NEW r \in RoutedClients, Routes!DatabaseRequested(r)
  PROVE  Routes!TypeOK'
<1>1. /\ granted[r] = "asked" /\ dbsConfig' = Routes!Requested(r)
      /\ UNCHANGED <<routesLeader, heard, readonly, replicas>> /\ Routes!Tells
  BY DEF Routes!DatabaseRequested
<1>2. dbsConfig' \in Routes!Configs
  BY <1>1, RequestedTyped
<1>3. toRender' \subseteq Pods
  BY <1>1 DEF Routes!Tells, Routes!TypeOK
<1>4. granted' \in [RoutedClients -> {"none", "asked", "granted", "refused", "gone"}]
  BY DEF Routes!DatabaseRequested, Routes!TypeOK
<1>5. datname' \subseteq RouteNames /\ authDbs' \subseteq datname'
  <2>1. RouteDatabase[r] \in RouteNames
    BY RoutesAssumption DEF Routes!Parameters
  <2> QED BY <2>1 DEF Routes!DatabaseRequested, Routes!TypeOK
<1>6. ini' \in [Pods -> [names : SUBSET RouteNames, wildcard : RouteNames \union {None},
                         readonly : SUBSET RouteNames]]
  <2>1. readonly' \subseteq RouteNames
    BY <1>1 DEF Routes!TypeOK
  <2>2. Routes!Rendered' \in [names : SUBSET RouteNames, wildcard : RouteNames \union {None},
                              readonly : SUBSET RouteNames]
    <3>1. /\ dbsConfig'.relations \in SUBSET RoutedClients
          /\ dbsConfig'.wildcard \in RouteNames \union {None}
      BY <1>2 DEF Routes!Configs
    <3>2. Routes!Named(dbsConfig'.relations) \subseteq RouteNames
      BY <3>1, NamedTyped
    <3> QED BY <2>1, <3>1, <3>2 DEF Routes!Rendered, Routes!ReadonlyEntries
  <2>3. ini' = ini \/ ini' = [ini EXCEPT ![routesLeader] = Routes!Rendered']
    BY DEF Routes!DatabaseRequested
  <2> QED BY <2>2, <2>3 DEF Routes!TypeOK
<1>7. routesSpent' \in [Routes!Disturbances -> Nat]
  <2>1. routesSpent' = routesSpent \/ Routes!Spend("refusals")
    BY DEF Routes!DatabaseRequested
  <2> QED BY <2>1, RoutesCounts DEF Routes!TypeOK, Routes!Disturbances
<1> QED BY <1>1, <1>2, <1>3, <1>4, <1>5, <1>6, <1>7 DEF Routes!TypeOK

LEMMA RemovalTyped ==
  ASSUME Routes!TypeOK, NEW r \in RoutedClients, Routes!Broken(r)
  PROVE  Routes!TypeOK'
<1>1. /\ granted' = [granted EXCEPT ![r] = "gone"]
      /\ dbsConfig' = [dbsConfig EXCEPT !.relations = @ \ {r}]
      /\ Routes!Tells /\ Routes!Spend("removals") /\ authDbs' \subseteq authDbs
      /\ UNCHANGED <<readonly, routesLeader, heard, datname, replicas, ini>>
  BY DEF Routes!Broken
<1>2. dbsConfig' \in Routes!Configs
  BY <1>1 DEF Routes!TypeOK, Routes!Configs
<1>3. toRender' \subseteq Pods
  BY <1>1 DEF Routes!Tells, Routes!TypeOK
<1>4. granted' \in [RoutedClients -> {"none", "asked", "granted", "refused", "gone"}]
  BY <1>1 DEF Routes!TypeOK
<1>5. routesSpent' \in [Routes!Disturbances -> Nat]
  BY <1>1, RoutesCounts DEF Routes!Disturbances
<1> QED BY <1>1, <1>2, <1>3, <1>4, <1>5 DEF Routes!TypeOK

\* A client relates, units render, the leader collects what PostgreSQL has.
LEMMA RoutesHooksTyped ==
  ASSUME Routes!TypeOK,
         \/ \E r \in RoutedClients : Routes!Relate(r)
         \/ \E u \in Pods : Routes!Renders(u)
         \/ Routes!UpdateStatus
  PROVE  Routes!TypeOK'
<1>1. UNCHANGED <<routesLeader, dbsConfig, datname, authDbs, replicas, routesSpent>>
  BY DEF Routes!Relate, Routes!Renders, Routes!UpdateStatus, Routes!postgres
<1>2. /\ granted' \in [RoutedClients -> {"none", "asked", "granted", "refused", "gone"}]
      /\ heard' \in [RoutedClients -> Pods]
  <2>1. \/ UNCHANGED <<granted, heard>>
        \/ \E r \in RoutedClients : /\ granted' = [granted EXCEPT ![r] = "asked"]
                                    /\ heard' = [heard EXCEPT ![r] = routesLeader]
    BY DEF Routes!Relate, Routes!Renders, Routes!UpdateStatus
  <2>2. /\ granted \in [RoutedClients -> {"none", "asked", "granted", "refused", "gone"}]
        /\ heard \in [RoutedClients -> Pods] /\ routesLeader \in Pods
    BY DEF Routes!TypeOK
  <2> QED BY <2>1, <2>2
<1>3. readonly' \subseteq RouteNames
  BY DEF Routes!Relate, Routes!Renders, Routes!UpdateStatus, Routes!Collected, Routes!TypeOK
<1>4. toRender' \subseteq Pods
  BY DEF Routes!Relate, Routes!Renders, Routes!UpdateStatus, Routes!Tells, Routes!TypeOK
<1>5. ini' \in [Pods -> [names : SUBSET RouteNames, wildcard : RouteNames \union {None},
                         readonly : SUBSET RouteNames]]
  BY RouteRendered DEF Routes!Relate, Routes!Renders, Routes!UpdateStatus, Routes!TypeOK
<1> QED BY <1>1, <1>2, <1>3, <1>4, <1>5 DEF Routes!TypeOK

\* PostgreSQL and its admins, elections.
LEMMA RoutesWorldTyped ==
  ASSUME Routes!TypeOK,
         \/ \E n \in RouteNames : Routes!CreateDatabase(n) \/ Routes!DropDatabase(n)
         \/ \E u \in Pods : Routes!Elect(u)
         \/ Routes!Scale
  PROVE  Routes!TypeOK'
<1>1. UNCHANGED <<granted, heard, dbsConfig, readonly, ini>>
  BY DEF Routes!CreateDatabase, Routes!DropDatabase, Routes!Elect, Routes!Scale, Routes!postgres
<1>2. routesSpent' \in [Routes!Disturbances -> Nat]
  <2>1. \E d \in Routes!Disturbances : Routes!Spend(d)
    BY DEF Routes!CreateDatabase, Routes!DropDatabase, Routes!Elect, Routes!Scale,
           Routes!Disturbances
  <2> QED BY <2>1, RoutesCounts
<1>3. /\ routesLeader' \in Pods /\ toRender' \subseteq Pods
      /\ datname' \subseteq RouteNames /\ authDbs' \subseteq datname'
  BY DEF Routes!CreateDatabase, Routes!DropDatabase, Routes!Elect, Routes!Scale, Routes!postgres,
         Routes!TypeOK
<1>4. replicas' \in BOOLEAN
  BY DEF Routes!CreateDatabase, Routes!DropDatabase, Routes!Elect, Routes!Scale, Routes!postgres,
         Routes!TypeOK
<1> QED BY <1>1, <1>2, <1>3, <1>4 DEF Routes!TypeOK

\* The auth function is only in databases that there are, and no list of the charm names others
\* than were requested or found (charm.py:467-507).
THEOREM RoutesAreTyped == Spec => [](Runs("routes") => Routes!TypeOK)
<1>1. Init => (Runs("routes") => Routes!TypeOK)
  <2>1. Init => Routes!Init
    BY DEF Init
  <2>2. ASSUME Routes!Init PROVE Routes!TypeOK
    <3>1. /\ granted \in [RoutedClients -> {"none", "asked", "granted", "refused", "gone"}]
          /\ heard \in [RoutedClients -> Pods] /\ dbsConfig \in Routes!Configs
          /\ ini \in [Pods -> [names : SUBSET RouteNames, wildcard : RouteNames \union {None},
                               readonly : SUBSET RouteNames]]
          /\ routesSpent \in [Routes!Disturbances -> Nat]
      BY <2>2 DEF Routes!Init, Routes!Configs
    <3>2. /\ routesLeader \in Pods /\ readonly = {} /\ datname = {} /\ authDbs = {}
          /\ replicas = TRUE /\ toRender = {}
      BY <2>2 DEF Routes!Init
    <3> QED BY <3>1, <3>2 DEF Routes!TypeOK
  <2> QED BY <2>1, <2>2
<1>2. ASSUME Routes!TypeOK, [Routes!Next]_(Routes!vars) PROVE Routes!TypeOK'
  <2>1. CASE UNCHANGED Routes!vars
    BY <1>2, <2>1 DEF Routes!vars, Routes!postgres, Routes!TypeOK
  <2> QED BY <1>2, <2>1, RequestTyped, RemovalTyped, RoutesHooksTyped, RoutesWorldTyped
          DEF Routes!Next
<1>3. (Runs("routes") => Routes!TypeOK) /\ [Next]_vars => (Runs("routes") => Routes!TypeOK)'
  BY <1>2, RoutesSteps, OnePart DEF Runs
<1> QED BY <1>1, <1>3, PTL DEF Spec

----------------------------------------------------------------------------
(* The users in PostgreSQL: nothing refers to a user that was dropped *)

\* What is granted to users, and what they own, is of users that there are.
Roles ==
  /\ named \subseteq UserRelations /\ roles \subseteq UserRelations
  /\ late \subseteq UserRelations
  /\ connecting \subseteq roles /\ creating \subseteq roles
  /\ \A t \in UserRelations : owner[t] \in roles \union {SuperUser, None}
  /\ \A p \in rights : p[1] \in roles
  /\ \A d \in ClientDatabases : auth[d] \in roles \union {SuperUser, None}

\* What DROP OWNED has to take from the user of r, in its database, before it can be dropped.
Held(r) ==
  \/ r \in creating
  \/ auth[ClientDatabase[r]] = r /\ r # SuperUser
  \/ \E t \in UserRelations : <<r, t>> \in rights

\* A user has something only in the database that it requested, which exists.
Places ==
  /\ "postgres" \in databases
  /\ \A r \in UserRelations : Held(r) => ClientDatabase[r] \in databases
  /\ \A p \in rights : ClientDatabase[p[2]] = ClientDatabase[p[1]]
  /\ \A d \in ClientDatabases :
       auth[d] \in UserRelations \ {SuperUser} => ClientDatabase[auth[d]] = d

\* The user that a request has created by now, and its database.
Created ==
  hook # None =>
    /\ hook.step \in RequestSteps \ {"user"} => hook.relation \in roles
    /\ hook.step \in RequestSteps \ {"user", "database"} =>
         ClientDatabase[hook.relation] \in databases

\* The databases that are left for DROP OWNED are enough.
Cleaned ==
  hook # None =>
    /\ hook.step \in {"reassign", "drop", "role"} => hook.relation \in roles
    /\ hook.step = "reassign" => hook.left # {}
    /\ hook.step = "reassign" /\ Held(hook.relation) => ClientDatabase[hook.relation] \in hook.left
    /\ hook.step = "drop" /\ Held(hook.relation) =>
         ClientDatabase[hook.relation] \in hook.left \union {hook.database}
    /\ hook.step = "role" => ~Held(hook.relation) /\ hook.relation \notin connecting

RolesInv == Roles /\ Places /\ Created /\ Cleaned

\* Steps that give no user anything but access to its database, and drop none.
LEMMA NothingGranted ==
  ASSUME UserTypes, UserTypes', RolesInv,
         roles \subseteq roles', roles' \subseteq UserRelations, databases \subseteq databases',
         connecting' \subseteq roles', named' \subseteq UserRelations,
         UNCHANGED <<creating, owner, rights, late>>,
         \A d \in ClientDatabases : auth'[d] \in {auth[d], SuperUser, None}
  PROVE  Roles' /\ Places' /\ \A r \in UserRelations : Held(r)' => Held(r)
<1>1. \A r \in UserRelations : ClientDatabase[r] \in ClientDatabases /\ r # None
  BY UsersAssumption DEF Users!Parameters
<1>2. ASSUME NEW r \in UserRelations, Held(r)' PROVE Held(r)
  <2>1. auth'[ClientDatabase[r]] \in {auth[ClientDatabase[r]], SuperUser, None}
    BY <1>1
  <2> QED BY <1>1, <1>2, <2>1 DEF Held
<1>3. Roles'
  BY DEF RolesInv, Roles
<1>4. Places'
  <2>1. \A r \in UserRelations : Held(r)' => ClientDatabase[r] \in databases'
    BY <1>2 DEF RolesInv, Places
  <2>2. ASSUME NEW d \in ClientDatabases, auth'[d] \in UserRelations \ {SuperUser}
        PROVE  ClientDatabase[auth'[d]] = d
    <3>1. auth'[d] = auth[d]
      BY <1>1, <2>2
    <3> QED BY <2>2, <3>1 DEF RolesInv, Places
  <2> QED BY <2>1, <2>2 DEF RolesInv, Places
<1> QED BY <1>2, <1>3, <1>4

\* A hook that begins, is run again or ends.
LEMMA HooksHold ==
  ASSUME UserTypes, UserTypes', RolesInv,
         \/ hook' = None
         \/ hook' # None /\ hook'.step \in {"user", "orphan", "list", "end"},
         named' \subseteq UserRelations,
         UNCHANGED <<roles, databases, connecting, creating, owner, rights, late>>,
         \A d \in ClientDatabases : auth'[d] \in {auth[d], SuperUser, None}
  PROVE  RolesInv'
<1>1. Roles' /\ Places'
  BY NothingGranted DEF RolesInv, Roles
<1>2. Created' /\ Cleaned'
  BY DEF Created, Cleaned, RequestSteps
<1> QED BY <1>1, <1>2 DEF RolesInv

LEMMA StartsHold ==
  ASSUME UserTypes, UserTypes', RolesInv, NEW r \in UserRelations,
         \/ Users!StartRequest(r) \/ Users!StartBroken(r) \/ Users!RequestFails(r)
         \/ Users!Publish(r) \/ Users!End(r) \/ Users!RemoveOrphaned(r)
  PROVE  RolesInv'
<1>1. UNCHANGED <<roles, databases, connecting, creating, owner, rights, late>>
  BY DEF Users!StartRequest, Users!StartBroken, Users!RequestFails, Users!Refuse, Users!Publish,
         Users!End, Users!RemoveOrphaned, Users!catalog, Users!access
<1>2. named' \in {named, named \union {r}}
  BY DEF Users!StartRequest, Users!StartBroken, Users!RequestFails, Users!Refuse, Users!Publish,
         Users!End, Users!RemoveOrphaned, Users!client
<1>3. named' \subseteq UserRelations
  BY <1>2 DEF RolesInv, Roles
<1>4. \A d \in ClientDatabases : auth'[d] \in {auth[d], SuperUser, None}
  <2>1. auth' = auth \/ auth' = [auth EXCEPT ![ClientDatabase[r]] = None]
    BY DEF Users!StartRequest, Users!StartBroken, Users!RequestFails, Users!Refuse, Users!Publish,
           Users!End, Users!RemoveOrphaned, Users!catalog
  <2> QED BY <2>1 DEF UserTypes
<1>5. hook' = None \/ (hook' # None /\ hook'.step \in {"user", "orphan", "list", "end"})
  <2>1. CASE Users!StartRequest(r) \/ Users!StartBroken(r)
    <3>1. hook' # None
      BY <2>1, UsersAssumption
         DEF Users!StartRequest, Users!StartBroken, Users!Parameters, Users!Hook, Users!Steps
    <3> QED BY <2>1, <3>1 DEF Users!StartRequest, Users!StartBroken
  <2>2. CASE Users!RemoveOrphaned(r)
    BY <2>2, RunsFor, StepsOn DEF Users!RemoveOrphaned, Users!Steps
  <2>3. CASE Users!RequestFails(r) \/ Users!Publish(r) \/ Users!End(r)
    BY <2>3 DEF Users!RequestFails, Users!Refuse, Users!Publish, Users!End
  <2> QED BY <2>1, <2>2, <2>3
<1> QED BY <1>1, <1>3, <1>4, <1>5, HooksHold

LEMMA RetriesHold ==
  ASSUME UserTypes, UserTypes', RolesInv,
         Users!Crash \/ \E r \in UserRelations : Users!DropRoleFails(r)
  PROVE  RolesInv'
<1>1. Users!Retried /\ hook # None
  BY DEF Users!Crash, Users!DropRoleFails, Users!Running
<1>2. UNCHANGED <<named, roles, databases, connecting, creating, owner, rights, auth, late>>
  BY DEF Users!Crash, Users!DropRoleFails, Users!client, Users!catalog, Users!access
<1>3. hook.relation \in UserRelations
  BY <1>1 DEF UserTypes, Users!Hook
<1>4. hook' \in Users!Hook /\ hook'.step \in {"user", "orphan"}
  BY <1>1, <1>3, UsersAssumption
     DEF Users!Retried, Users!First, Users!Hook, Users!Steps, Users!Parameters
<1>5. hook' # None
  BY <1>4, UsersAssumption DEF Users!Parameters
<1> QED BY <1>2, <1>4, <1>5, HooksHold DEF RolesInv, Roles

\* The steps of a request: what they leave to DROP OWNED they leave in the database that it
\* created, and after the user.
LEMMA RequestsHold ==
  ASSUME UserTypes, UserTypes', RolesInv, NEW r \in UserRelations,
         \/ Users!CreateUser(r) \/ Users!CreateDatabase(r) \/ Users!GrantConnect(r)
         \/ Users!RemoveAuthFunction(r) \/ Users!InitialiseAuthFunction(r)
  PROVE  RolesInv'
<1>1. CASE hook' = None
  <2>1. UNCHANGED <<named, roles, databases, connecting, creating, owner, rights, auth, late>>
    <3>1. /\ \A s \in Users!Steps : ~Users!Go(s)
      <4> SUFFICES ASSUME NEW s \in Users!Steps, Users!Go(s) PROVE FALSE
        OBVIOUS
      <4>1. hook \in Users!Hook
        BY RunsFor DEF Users!CreateUser, Users!CreateDatabase, Users!GrantConnect,
                       Users!RemoveAuthFunction, Users!InitialiseAuthFunction
      <4> QED BY <1>1, <4>1, StepsOn
    <3> QED BY <3>1 DEF Users!CreateUser, Users!Refuse, Users!CreateDatabase, Users!GrantConnect,
                        Users!RemoveAuthFunction, Users!InitialiseAuthFunction, Users!catalog,
                        Users!access, Users!Steps
  <2> QED BY <1>1, <2>1, HooksHold DEF RolesInv, Roles
<1>2. ASSUME NEW s \in RequestSteps, NEW t \in RequestSteps \ {"user"},
             Users!Running(r, s), Users!Go(t), r \in roles',
             t # "database" => ClientDatabase[r] \in databases',
             roles \subseteq roles', roles' \subseteq roles \union {r},
             databases \subseteq databases',
             connecting' \subseteq connecting \union {r},
             UNCHANGED <<named, creating, owner, rights, late>>,
             auth' = auth \/ (\E x \in {SuperUser, None} :
                                auth' = [auth EXCEPT ![ClientDatabase[r]] = x])
      PROVE  RolesInv'
  <2>1. /\ hook # None /\ hook \in Users!Hook
        /\ hook' # None /\ hook'.step = t /\ hook'.relation = r
    BY <1>2, RunsFor, StepsOn DEF RequestSteps, Users!Steps
  <2>2. \A d \in ClientDatabases : auth'[d] \in {auth[d], SuperUser, None}
    BY <1>2 DEF UserTypes
  <2>3. /\ named' \subseteq UserRelations /\ roles' \subseteq UserRelations
        /\ connecting' \subseteq roles'
    BY <1>2 DEF RolesInv, Roles
  <2>4. Roles' /\ Places'
    BY <1>2, <2>2, <2>3, NothingGranted
  <2>5. Created'
    BY <1>2, <2>1 DEF Created
  <2>6. Cleaned'
    BY <1>2, <2>1 DEF Cleaned, RequestSteps
  <2> QED BY <2>4, <2>5, <2>6 DEF RolesInv
<1>3. CASE Users!CreateUser(r) /\ hook' # None
  <2>1. /\ Users!Running(r, "user") /\ Users!Go("database") /\ roles' = roles \union {r}
        /\ UNCHANGED <<named, databases, connecting, creating, owner, rights, auth, late>>
    BY <1>3 DEF Users!CreateUser, Users!Refuse, Users!client, Users!access
  <2> QED BY <1>2, <2>1 DEF RequestSteps
<1>4. CASE Users!CreateDatabase(r)
  <2>1. /\ Users!Running(r, "database") /\ Users!Go("connect")
        /\ databases' = databases \union {ClientDatabase[r]}
        /\ UNCHANGED <<named, roles, connecting, creating, owner, rights, auth, late>>
    BY <1>4 DEF Users!CreateDatabase, Users!client, Users!access
  <2>2. r \in roles
    BY <2>1 DEF RolesInv, Created, Users!Running, RequestSteps
  <2> QED BY <1>2, <2>1, <2>2 DEF RequestSteps
<1>5. CASE Users!GrantConnect(r)
  <2>1. /\ Users!Running(r, "connect") /\ Users!Go("privileges")
        /\ connecting' = connecting \union {r}
        /\ UNCHANGED <<named, roles, databases, creating, owner, rights, auth, late>>
    BY <1>5 DEF Users!GrantConnect, Users!client
  <2>2. r \in roles /\ ClientDatabase[r] \in databases
    BY <2>1 DEF RolesInv, Created, Users!Running, RequestSteps
  <2> QED BY <1>2, <2>1, <2>2 DEF RequestSteps
<1>6. CASE Users!RemoveAuthFunction(r)
  <2>1. /\ Users!Running(r, "remove") /\ Users!Go("initialise")
        /\ auth' = [auth EXCEPT ![ClientDatabase[r]] = None]
        /\ UNCHANGED <<named, roles, databases, connecting, creating, owner, rights, late>>
    BY <1>6 DEF Users!RemoveAuthFunction, Users!client, Users!access
  <2>2. r \in roles /\ ClientDatabase[r] \in databases
    BY <2>1 DEF RolesInv, Created, Users!Running, RequestSteps
  <2> QED BY <1>2, <2>1, <2>2 DEF RequestSteps
<1>7. CASE Users!InitialiseAuthFunction(r)
  <2>1. /\ Users!Running(r, "initialise") /\ Users!Go("publish")
        /\ \/ auth' = [auth EXCEPT ![ClientDatabase[r]] = SuperUser]
           \/ auth' = auth
        /\ UNCHANGED <<named, roles, databases, connecting, creating, owner, rights, late>>
    BY <1>7 DEF Users!InitialiseAuthFunction, Users!client, Users!access, UserTypes
  <2>2. r \in roles /\ ClientDatabase[r] \in databases
    BY <2>1 DEF RolesInv, Created, Users!Running, RequestSteps
  <2> QED BY <1>2, <2>1, <2>2 DEF RequestSteps
<1> QED BY <1>1, <1>3, <1>4, <1>5, <1>6, <1>7

\* The privileges on what there is in its database, which may make it an owner there.
LEMMA GrantPrivilegesHolds ==
  ASSUME UserTypes, UserTypes', RolesInv, NEW r \in UserRelations, Users!GrantPrivileges(r)
  PROVE  RolesInv'
<1>1. /\ hook # None /\ hook \in Users!Hook /\ hook.relation = r /\ hook.step = "privileges"
      /\ hook' # None /\ hook'.step = "remove" /\ hook'.relation = r
  BY RunsFor, StepsOn DEF Users!GrantPrivileges, Users!Steps
<1>2. /\ UNCHANGED <<named, roles, databases, connecting, late>>
      /\ creating' = creating \union {r}
      /\ owner' = owner \/ owner' = [t \in UserRelations |->
                             IF t \in Users!Tables(ClientDatabase[r]) THEN r ELSE owner[t]]
      /\ rights' = rights
           \/ rights' = rights \union {<<r, t>> : t \in Users!Tables(ClientDatabase[r])}
      /\ auth' = auth \/ auth' = [auth EXCEPT ![ClientDatabase[r]] = r]
  BY DEF Users!GrantPrivileges
<1>3. r \in roles /\ ClientDatabase[r] \in databases
  BY <1>1 DEF RolesInv, Created, RequestSteps
<1>4. \A p \in rights' : p \in rights \/ (p[1] = r /\ ClientDatabase[p[2]] = ClientDatabase[r])
  BY <1>2 DEF Users!Tables
<1>5. \A d \in ClientDatabases : auth'[d] = auth[d] \/ (d = ClientDatabase[r] /\ auth'[d] = r)
  BY <1>2 DEF UserTypes
<1>6. \A t \in UserRelations : owner'[t] \in {owner[t], r}
  BY <1>2
<1>7. Roles'
  BY <1>2, <1>3, <1>4, <1>5, <1>6 DEF RolesInv, Roles
<1>8. Places'
  <2>1. \A x \in UserRelations : ClientDatabase[x] \in ClientDatabases
    BY UsersAssumption DEF Users!Parameters
  <2>2. ASSUME NEW x \in UserRelations, Held(x)' PROVE x = r \/ Held(x)
    <3>1. x # r /\ x \in creating' => x \in creating
      BY <1>2
    <3>2. x # r => auth'[ClientDatabase[x]] = auth[ClientDatabase[x]]
                     \/ auth'[ClientDatabase[x]] # x
      BY <1>5, <2>1
    <3>3. \A t : x # r /\ <<x, t>> \in rights' => <<x, t>> \in rights
      BY <1>4
    <3> QED BY <2>2, <3>1, <3>2, <3>3 DEF Held
  <2>3. \A d \in ClientDatabases :
          auth'[d] \in UserRelations \ {SuperUser} => ClientDatabase[auth'[d]] = d
    BY <1>5 DEF RolesInv, Places
  <2> QED BY <1>2, <1>3, <1>4, <2>2, <2>3 DEF RolesInv, Places
<1>9. Created' /\ Cleaned'
  BY <1>1, <1>2, <1>3 DEF Created, Cleaned
<1> QED BY <1>7, <1>8, <1>9 DEF RolesInv

\* The users to drop are listed, and all databases with them.
LEMMA ListUsersHolds ==
  ASSUME UserTypes, UserTypes', RolesInv, NEW r \in UserRelations, Users!ListUsers(r)
  PROVE  RolesInv'
<1>1. hook # None /\ hook \in Users!Hook /\ hook.relation = r /\ hook.step = "list"
  BY RunsFor DEF Users!ListUsers
<1>2. UNCHANGED <<named, roles, databases, connecting, creating, owner, rights, auth, late>>
  BY DEF Users!ListUsers, Users!client, Users!catalog, Users!access
<1>3. CASE r \in roles
  <2>1. hook' = [hook EXCEPT !.step = "reassign", !.left = databases]
    BY <1>3 DEF Users!ListUsers
  <2>2. /\ hook'.step = "reassign" /\ hook'.relation = r /\ hook'.left = databases
    BY <1>1, <2>1 DEF Users!Hook
  <2>3. Roles' /\ Places' /\ (Held(r)' => Held(r))
    BY <1>2, NothingGranted DEF RolesInv, Roles
  <2>4. Created' /\ Cleaned'
    BY <1>2, <1>3, <2>2, <2>3 DEF RolesInv, Places, Created, Cleaned, RequestSteps
  <2> QED BY <2>3, <2>4 DEF RolesInv
<1>4. CASE r \notin roles
  <2>1. Users!Go("end")
    BY <1>4 DEF Users!ListUsers, Users!Go
  <2>2. hook' # None /\ hook'.step = "end"
    BY <1>1, <2>1, StepsOn DEF Users!Steps
  <2> QED BY <1>2, <2>2, HooksHold DEF RolesInv, Roles
<1> QED BY <1>3, <1>4

\* The next database is no longer left once its transaction ends.
LEMMA ReassignHolds ==
  ASSUME UserTypes, UserTypes', RolesInv, NEW r \in UserRelations, NEW d \in ClientDatabases,
         Users!Reassign(r, d)
  PROVE  RolesInv'
<1>1. hook # None /\ hook \in Users!Hook /\ hook.relation = r /\ hook.step = "reassign"
  BY RunsFor DEF Users!Reassign
<1>2. UNCHANGED <<named, roles, databases, connecting, creating, owner, rights, auth, late>>
  BY DEF Users!Reassign, Users!client, Users!catalog, Users!access
<1>3. hook' = [hook EXCEPT !.step = "drop", !.left = @ \ {d}, !.database = d,
                           !.owned = Users!Owned(r, d)]
  BY DEF Users!Reassign
<1>4. /\ hook'.step = "drop" /\ hook'.relation = r /\ hook'.left = hook.left \ {d}
      /\ hook'.database = d
  BY <1>1, <1>3 DEF Users!Hook
<1>5. Roles' /\ Places' /\ (Held(r)' => Held(r))
  BY <1>2, NothingGranted DEF RolesInv, Roles
<1>6. Created' /\ Cleaned'
  BY <1>1, <1>2, <1>4, <1>5 DEF RolesInv, Created, Cleaned, RequestSteps
<1> QED BY <1>5, <1>6 DEF RolesInv

\* DROP OWNED takes all that the user has in the database, and other users have what they had.
LEMMA DropOwnedHolds ==
  ASSUME UserTypes, UserTypes', RolesInv, NEW r \in UserRelations, Users!DropOwned(r)
  PROVE  RolesInv'
<1> DEFINE d == hook.database
<1>1. /\ hook # None /\ hook \in Users!Hook /\ hook.relation = r /\ hook.step = "drop"
      /\ d \in ClientDatabases
  BY RunsFor DEF Users!DropOwned, Users!Hook
<1>2. /\ UNCHANGED <<named, roles, databases, late>>
      /\ connecting' = connecting \ {r}
      /\ creating' = IF d = ClientDatabase[r] THEN creating \ {r} ELSE creating
      /\ auth' = [auth EXCEPT ![d] = IF @ = r THEN SuperUser ELSE @]
  BY DEF Users!DropOwned, Users!client
<1>3. \A t \in UserRelations : owner'[t] \in {owner[t], SuperUser, None}
  <2>1. owner' = [t \in UserRelations |->
                  IF t \in hook.owned THEN SuperUser
                  ELSE IF t \in Users!Tables(d) /\ owner[t] = r THEN None ELSE owner[t]]
    BY DEF Users!DropOwned
  <2> QED BY <2>1
<1>4. /\ rights' \subseteq rights
      /\ \A p \in rights' : ~(p[1] = r /\ ClientDatabase[p[2]] = d)
  BY DEF Users!DropOwned
<1>5. hook' = [hook EXCEPT !.step = IF hook.left = {} THEN "role" ELSE "reassign", !.owned = {}]
  BY DEF Users!DropOwned
<1>6. /\ hook'.relation = r /\ hook'.left = hook.left
      /\ hook'.step = IF hook.left = {} THEN "role" ELSE "reassign"
  BY <1>1, <1>5 DEF Users!Hook
<1>7. \A x \in UserRelations : ClientDatabase[x] \in ClientDatabases /\ x # None
  BY UsersAssumption DEF Users!Parameters
<1>8. \A x \in ClientDatabases : auth'[x] = IF x = d /\ auth[x] = r THEN SuperUser ELSE auth[x]
  BY <1>2 DEF UserTypes
<1> HIDE DEF d
<1>9. ASSUME NEW x \in UserRelations, Held(x)' PROVE Held(x)
  BY <1>2, <1>4, <1>7, <1>8, <1>9 DEF Held
<1>10. d = ClientDatabase[r] => ~Held(r)'
  <2> SUFFICES ASSUME d = ClientDatabase[r] PROVE ~Held(r)'
    OBVIOUS
  <2>1. r \notin creating'
    BY <1>2
  <2>2. auth'[ClientDatabase[r]] = r => r = SuperUser
    BY <1>7, <1>8
  <2>3. ASSUME NEW t \in UserRelations, <<r, t>> \in rights' PROVE FALSE
    <3>1. <<r, t>> \in rights
      BY <1>4, <2>3
    <3>2. ClientDatabase[t] = ClientDatabase[r]
      BY <3>1 DEF RolesInv, Places
    <3> QED BY <1>4, <2>3, <3>2
  <2> QED BY <2>1, <2>2, <2>3 DEF Held
<1>11. Roles'
  BY <1>2, <1>3, <1>4, <1>8 DEF RolesInv, Roles
<1>12. Places'
  <2>1. \A x \in ClientDatabases :
          auth'[x] \in UserRelations \ {SuperUser} => ClientDatabase[auth'[x]] = x
    BY <1>8 DEF RolesInv, Places
  <2> QED BY <1>2, <1>4, <1>9, <2>1 DEF RolesInv, Places
<1>13. Created'
  BY <1>6 DEF Created, RequestSteps
<1>14. Cleaned'
  <2>1. r \in roles' /\ (Held(r) => ClientDatabase[r] \in hook.left \union {d})
    BY <1>1, <1>2 DEF RolesInv, Cleaned, d
  <2>2. Held(r)' => ClientDatabase[r] \in hook.left
    BY <1>9, <1>10, <2>1
  <2> QED BY <1>2, <1>6, <2>1, <2>2 DEF Cleaned
<1> QED BY <1>11, <1>12, <1>13, <1>14 DEF RolesInv

\* A user that is dropped has left nothing behind.
LEMMA DropRoleHolds ==
  ASSUME UserTypes, UserTypes', RolesInv, NEW r \in UserRelations, Users!DropRole(r)
  PROVE  RolesInv'
<1>1. hook # None /\ hook \in Users!Hook /\ hook.relation = r /\ hook.step = "role"
  BY RunsFor DEF Users!DropRole
<1>2. /\ UNCHANGED <<named, databases, connecting, creating, owner, rights, auth, late>>
      /\ roles' = roles \ {r} /\ \A t \in UserRelations : owner[t] # r
  BY DEF Users!DropRole, Users!client, Users!access
<1>3. hook' # None /\ hook'.step = "end"
  BY <1>1, StepsOn DEF Users!DropRole, Users!Steps
<1>4. ~Held(r) /\ r \notin connecting
  BY <1>1 DEF RolesInv, Cleaned
<1>5. Roles'
  <2>1. \A p \in rights : p[1] # r
    <3>1. \A p \in rights : p = <<p[1], p[2]>> /\ p[2] \in UserRelations
      BY DEF UserTypes
    <3> QED BY <1>4, <3>1 DEF Held
  <2>2. \A d \in ClientDatabases : auth[d] = r => r = SuperUser
    BY <1>4 DEF RolesInv, Places, Held
  <2>3. connecting' \subseteq roles' /\ creating' \subseteq roles'
    BY <1>2, <1>4 DEF RolesInv, Roles, Held
  <2> QED BY <1>2, <2>1, <2>2, <2>3 DEF RolesInv, Roles
<1>6. Places'
  BY <1>2 DEF RolesInv, Places, Held
<1>7. Created' /\ Cleaned'
  BY <1>3 DEF Created, Cleaned, RequestSteps
<1> QED BY <1>5, <1>6, <1>7 DEF RolesInv

\* Clients, of which one with a user may create a table.
LEMMA ClientsHold ==
  ASSUME UserTypes, UserTypes', RolesInv, NEW r \in UserRelations,
         Users!CreateTable(r) \/ Users!Request(r) \/ Users!Remove(r)
  PROVE  RolesInv'
<1>1. UNCHANGED <<named, hook, roles, databases, connecting, creating, rights, auth>>
  BY DEF Users!CreateTable, Users!Request, Users!Remove, Users!catalog, Users!access
<1>2. /\ late' \in {late, late \union {r}}
      /\ owner' = owner \/ (r \in creating /\ owner' = [owner EXCEPT ![r] = r])
  BY DEF Users!CreateTable, Users!Request, Users!Remove, Users!catalog
<1>3. \A t \in UserRelations : owner'[t] = owner[t] \/ (owner'[t] = r /\ r \in roles)
  BY <1>2 DEF UserTypes, RolesInv, Roles
<1>4. Roles'
  BY <1>1, <1>2, <1>3 DEF RolesInv, Roles
<1>5. Places'
  BY <1>1 DEF RolesInv, Places, Held
<1>6. Created'
  BY <1>1 DEF RolesInv, Created
<1>7. Cleaned'
  BY <1>1 DEF RolesInv, Cleaned, Held
<1> QED BY <1>4, <1>5, <1>6, <1>7 DEF RolesInv

LEMMA RolesKeep ==
  ASSUME UserTypes, UserTypes', RolesInv, [Users!Next]_(Users!vars)
  PROVE  RolesInv'
<1>1. CASE UNCHANGED Users!vars
  <2>1. UNCHANGED <<named, hook, roles, databases, connecting, creating, owner, rights, auth, late>>
    BY <1>1 DEF Users!vars, Users!client, Users!catalog, Users!access
  <2>2. Roles'
    BY <2>1 DEF RolesInv, Roles
  <2>3. Places'
    BY <2>1 DEF RolesInv, Places, Held
  <2>4. Created' /\ Cleaned'
    BY <2>1 DEF RolesInv, Created, Cleaned, Held
  <2> QED BY <2>2, <2>3, <2>4 DEF RolesInv
<1>2. ASSUME NEW r \in UserRelations, Users!Statement(r) PROVE RolesInv'
  BY <1>2, RequestsHold, GrantPrivilegesHolds, StartsHold, ListUsersHolds, ReassignHolds,
     DropOwnedHolds, DropRoleHolds, RetriesHold DEF Users!Statement
<1>3. CASE Users!Next
  BY <1>2, <1>3, StartsHold, RetriesHold, ClientsHold DEF Users!Next
<1> QED BY <1>1, <1>3

\* No privilege, table or function is of a user that was dropped, or never created: DROP OWNED
\* has been run in the one database where the user could have something when DROP ROLE is
\* reached, although the list of databases is older (postgresql.py:343-378).
THEOREM UsersTyped == Spec => [](Runs("users") => Users!TypeOK)
<1>1. Init => (Runs("users") => RolesInv)
  <2> SUFFICES ASSUME Users!Init PROVE RolesInv
    BY DEF Init
  <2>1. /\ named = {} /\ hook = None /\ roles = {} /\ databases = {"postgres"}
        /\ connecting = {} /\ creating = {} /\ rights = {} /\ late = {}
        /\ \A t \in UserRelations : owner[t] = None
        /\ \A d \in ClientDatabases : auth[d] = None
    BY DEF Users!Init
  <2>2. \A r \in UserRelations : ClientDatabase[r] \in ClientDatabases /\ r # None
    BY UsersAssumption DEF Users!Parameters
  <2>3. Roles /\ Created /\ Cleaned
    BY <2>1 DEF Roles, Created, Cleaned
  <2>4. Places
    BY <2>1, <2>2 DEF Places, Held
  <2> QED BY <2>3, <2>4 DEF RolesInv
<1>2. /\ Runs("users") => UserTypes
      /\ (Runs("users") => UserTypes)'
      /\ Runs("users") => RolesInv
      /\ [Next]_vars
      => (Runs("users") => RolesInv)'
  BY UsersSteps, RolesKeep, OnePart DEF Runs
<1>3. UserTypes /\ RolesInv => Users!TypeOK
  <2> SUFFICES ASSUME UserTypes, RolesInv PROVE Users!TypeOK
    OBVIOUS
  <2>1. /\ owner \in [UserRelations -> roles \union {SuperUser, None}]
        /\ auth \in [ClientDatabases -> roles \union {SuperUser, None}]
    BY DEF UserTypes, RolesInv, Roles
  <2>2. rights \subseteq roles \X UserRelations
    BY DEF UserTypes, RolesInv, Roles
  <2> QED BY <2>1, <2>2 DEF UserTypes, RolesInv, Roles, Users!TypeOK
<1>4. UsersInv => UserTypes
  BY DEF UsersInv
<1>5. Spec => [](Runs("users") => UserTypes)
  BY <1>4, UsersInvariant, PTL
<1> QED BY <1>1, <1>2, <1>3, <1>5, PTL DEF Spec

----------------------------------------------------------------------------
(* All parts *)

\* The variables of every part have their types, for every number of units, relations, databases
\* and certificate requests, and in PostgreSQL nothing refers to a user that was dropped
\* (postgresql.py:214-378, and what each module is about).
THEOREM PartsAreTyped == Spec => []TypeOK
<1>1. Init => part \in Parts
  BY DEF Init
<1>2. part \in Parts /\ [Next]_vars => (part \in Parts)'
  BY OnePart
<1>3. /\ ExchangeInv => Exchange!TypeOK
      /\ SecretsInv => Secrets!TypeOK
      /\ TlsInv => Tls!TypeOK
  BY DEF ExchangeInv, SecretsInv, TlsInv
<1>4. /\ part \in Parts
      /\ Runs("exchange") => ExchangeInv
      /\ Runs("secrets") => SecretsInv
      /\ Runs("tls") => TlsInv
      /\ Runs("logs") => Logs!TypeOK
      /\ Runs("metrics") => Metrics!TypeOK
      /\ Runs("dashboards") => Boards!TypeOK
      /\ Runs("alerts") => Rules!TypeOK
      /\ Runs("statuses") => Statuses!TypeOK
      /\ Runs("users") => Users!TypeOK
      /\ Runs("unit") => Unit!TypeOK
      /\ Runs("routes") => Routes!TypeOK
      => TypeOK
  BY <1>3 DEF TypeOK
<1> QED BY <1>1, <1>2, <1>4, ExchangeInvariant, SecretsInvariant, TlsInvariant, LogsTyped,
           MetricsTyped, BoardsTyped, RulesTyped, StatusesTyped, UsersTyped, UnitTyped,
           RoutesAreTyped, PTL DEF Spec
=============================================================================
