---------------------- MODULE BackendLifecycle_proofs ----------------------
(***************************************************************************)
(* Theorems about BackendLifecycle, for every number of units, relations   *)
(* and disturbances: no scale-down removes the secret of a backend that    *)
(* stays; the userlist in the secret is that of the auth user, or will be; *)
(* and a backend that is gone leaves no trace.                             *)
(***************************************************************************)
EXTENDS BackendLifecycle, TLAPS

\* What of the types the proof needs.
Typed ==
  /\ pending \in [Units -> SUBSET Events]
  /\ passwords \in Nat

\* Nothing is delivered to a unit that has gone, so that a new relation meets no broken of the
\* one before it.
GoneAreSilent == \A u \in Units \ members : pending[u] = {}

\* As long as there is a backend, relation-broken comes only to a unit that leaves, after a
\* relation-departed that sets its flag.
BrokenLeaves ==
  relation # 0 =>
    \A u \in Units : "broken" \in pending[u] => u \in flagged \/ "departed" \in pending[u]

Inv == Typed /\ GoneAreSilent /\ BrokenLeaves

\* What of the state the invariant is about.
rest == <<members, flagged, relation, passwords>>

\* A hook of u takes events out of its own queue, tells the other units that are left, and adds
\* neither a departed nor a broken.
HookOf(u) ==
  /\ pending[u] # {} /\ pending' \in [Units -> SUBSET Events]
  /\ "broken" \in pending'[u] => "broken" \in pending[u]
  /\ "departed" \in pending[u] => "departed" \in pending'[u]
  /\ \A v \in Units \ {u} : \/ pending'[v] = pending[v]
                            \/ v \in members /\ pending'[v] = pending[v] \union {"peers_changed"}

LEMMA HookKeeps ==
  ASSUME Inv, NEW u \in Units, HookOf(u), UNCHANGED <<members, flagged, relation>>,
         passwords' \in Nat
  PROVE  Inv'
BY DEF Inv, Typed, GoneAreSilent, BrokenLeaves, HookOf

LEMMA HandledIsHook ==
  ASSUME Inv, NEW u \in Units, pending[u] # {},
         NEW gone \in SUBSET (Events \ {"departed"}), NEW kept \in SUBSET (Events \ {"broken"}),
         pending' \in {Handled(u, gone, kept), Told(Handled(u, gone, kept), u)}
  PROVE  HookOf(u)
<1> DEFINE done == Handled(u, gone, kept)
<1>1. /\ done \in [Units -> SUBSET Events]
      /\ done[u] = (pending[u] \ gone) \union kept
      /\ \A v \in Units \ {u} : done[v] = pending[v]
  BY DEF Handled, Inv, Typed
<1>2. CASE pending' = done
  BY <1>1, <1>2 DEF HookOf
<1>3. CASE pending' = Told(done, u)
  <2> HIDE DEF done
  <2>1. /\ pending' \in [Units -> SUBSET Events]
        /\ pending'[u] = done[u]
        /\ \A v \in Units \ {u} :
             pending'[v] = IF v \in members THEN done[v] \union {"peers_changed"} ELSE done[v]
    BY <1>1, <1>3 DEF Told, Events
  <2> QED BY <1>1, <2>1 DEF HookOf
<1> QED BY <1>2, <1>3

\* database-created, in its hook or deferred.
LEMMA CreatedKeeps ==
  ASSUME Inv, NEW u \in Units, CreatedHooks(u)
  PROVE  Inv' /\ (secret # None => secret' # None)
<1>1. CASE LeaderAwaits(u) \/ FollowerAwaits(u)
  <2>1. /\ pending[u] # {} /\ pending' = Handled(u, {"changed"}, {"created"})
        /\ UNCHANGED <<rest, secret>>
    BY <1>1 DEF LeaderAwaits, FollowerAwaits, rest, units, backend, keys
  <2>2. HookOf(u)
    BY <2>1, HandledIsHook DEF Events
  <2> QED BY <2>1, <2>2, HookKeeps DEF rest, Inv, Typed
<1>2. ASSUME NEW e \in {"changed", "created"},
             LeaderInitialises(u, e) \/ AuthFunctionFails(u, e)
      PROVE  Inv' /\ (secret # None => secret' # None)
  <2>1. /\ pending[u] # {} /\ passwords' = passwords + 1
        /\ secret' \in {secret, passwords'}
        /\ UNCHANGED <<members, flagged, relation>>
    BY <1>2 DEF LeaderInitialises, AuthFunctionFails, Initialising, Creating, NewAuthUser, units,
                backend
  <2>2. passwords' \in Nat /\ passwords' # None
    BY <2>1, BackendAssumption DEF Inv, Typed
  <2>3. \/ pending' = Told(Handled(u, Both(e), {}), u)
        \/ pending' = Handled(u, Both(e), {"created"})
    BY <1>2 DEF LeaderInitialises, AuthFunctionFails
  <2>4. HookOf(u)
    BY <2>1, <2>3, HandledIsHook DEF Both, Events
  <2> QED BY <2>1, <2>2, <2>4, HookKeeps
<1>3. ASSUME NEW e \in {"changed", "created"}, FollowerDrops(u, e) \/ FollowerCopies(u, e)
      PROVE  Inv' /\ (secret # None => secret' # None)
  <2>1. /\ pending[u] # {} /\ pending' = Handled(u, Both(e), {})
        /\ UNCHANGED <<rest, secret>>
    BY <1>3 DEF FollowerDrops, FollowerCopies, Creating, rest, units, backend, keys
  <2>2. HookOf(u)
    BY <2>1, HandledIsHook DEF Both, Events
  <2> QED BY <2>1, <2>2, HookKeeps DEF rest, Inv, Typed
<1> QED BY <1>1, <1>2, <1>3 DEF CreatedHooks

\* The flag takes the place of the departed.
LEMMA DepartedKeeps == ASSUME Inv, NEW u \in Units, Departed(u) PROVE Inv'
<1>1. /\ flagged' = flagged \union {u} /\ pending' = Handled(u, {"departed"}, {})
      /\ UNCHANGED <<members, relation, passwords>> /\ pending[u] # {}
  BY DEF Departed, backend, keys
<1>2. /\ pending' \in [Units -> SUBSET Events] /\ pending'[u] \subseteq pending[u]
      /\ \A v \in Units \ {u} : pending'[v] = pending[v]
  BY <1>1 DEF Handled, Inv, Typed
<1> QED BY <1>1, <1>2 DEF Inv, Typed, GoneAreSilent, BrokenLeaves

\* relation-broken on a unit without the flag, the only step that may remove the secret.
LEMMA BrokenRemoves ==
  ASSUME Inv, NEW u \in Units, Broken(u)
  PROVE  Inv' /\ relation = 0
<1>1. /\ pending[u] # {} /\ UNCHANGED rest
      /\ pending' \in {Handled(u, {"broken"}, {}), Told(Handled(u, {"broken"}, {}), u)}
  BY DEF Broken, Breaking, rest, units, backend
<1>2. HookOf(u)
  BY <1>1, HandledIsHook DEF Events
<1>3. relation = 0
  BY DEF Broken, Breaking, Inv, BrokenLeaves
<1> QED BY <1>1, <1>2, <1>3, HookKeeps DEF rest, Inv, Typed

LEMMA OtherHooksKeep ==
  ASSUME Inv, NEW u \in Units, BrokenIgnored(u) \/ PebbleReady(u) \/ PeersChanged(u)
  PROVE  Inv' /\ UNCHANGED secret
<1>1. pending[u] # {} /\ UNCHANGED <<rest, secret>>
  BY DEF BrokenIgnored, Breaking, PebbleReady, PeersChanged, rest, units, backend, keys
<1>2. \E gone \in SUBSET (Events \ {"departed"}) :
        pending' \in {Handled(u, gone, {}), Told(Handled(u, gone, {}), u)}
  BY DEF BrokenIgnored, PebbleReady, PeersChanged, Events
<1>3. HookOf(u)
  BY <1>1, <1>2, HandledIsHook
<1> QED BY <1>1, <1>3, HookKeeps DEF rest, Inv, Typed

\* Other units than members get no event; a new relation begins when every member has handled
\* the end of the one before.
LEMMA EnvironmentKeeps ==
  ASSUME Inv, Environment
  PROVE  Inv' /\ UNCHANGED secret
<1>1. UNCHANGED <<secret, passwords>>
  BY DEF Environment, Relate, ShareCredentials, RemoveBackend, Outage, Recover, Leave, Gone, Elect,
         ContainerRestart, keys
<1>2. CASE Relate
  <2>1. UNCHANGED <<members, flagged, pending>> /\ \A u \in members : "broken" \notin pending[u]
    BY <1>2 DEF Relate, units
  <2>2. \A u \in Units : "broken" \notin pending[u]
    BY <2>1 DEF Inv, GoneAreSilent
  <2> QED BY <1>1, <2>1, <2>2 DEF Inv, Typed, GoneAreSilent, BrokenLeaves
<1>3. CASE ShareCredentials
  <2>1. UNCHANGED <<members, flagged, relation>> /\ pending' = Queued(members, {"changed"})
    BY <1>3 DEF ShareCredentials, units
  <2>2. pending' \in [Units -> SUBSET Events]
    BY <2>1 DEF Queued, Events, Inv, Typed
  <2>3. \A u \in Units :
          /\ u \notin members => pending'[u] = pending[u]
          /\ "broken" \in pending'[u] => "broken" \in pending[u]
          /\ "departed" \in pending[u] => "departed" \in pending'[u]
    BY <2>1 DEF Queued
  <2> QED BY <1>1, <2>1, <2>2, <2>3 DEF Inv, Typed, GoneAreSilent, BrokenLeaves
<1>4. CASE RemoveBackend
  <2>1. /\ relation' = 0 /\ UNCHANGED members
        /\ pending' = [u \in Units |->
             IF u \in members THEN (pending[u] \ {"changed"}) \union {"broken"} ELSE pending[u]]
    BY <1>4 DEF RemoveBackend, units
  <2> QED BY <1>1, <2>1 DEF Inv, Typed, GoneAreSilent, BrokenLeaves, Events
<1>5. ASSUME NEW u \in Units, Leave(u) PROVE Inv'
  <2>1. /\ u \in members /\ UNCHANGED <<members, flagged, relation>>
        /\ pending' = Queued({u}, {"departed", "broken"})
    BY <1>5 DEF Leave, units, backend
  <2>2. /\ pending' \in [Units -> SUBSET Events] /\ "departed" \in pending'[u]
        /\ \A v \in Units \ {u} : pending'[v] = pending[v]
    BY <2>1 DEF Queued, Events, Inv, Typed
  <2> QED BY <1>1, <2>1, <2>2 DEF Inv, Typed, GoneAreSilent, BrokenLeaves
<1>6. ASSUME NEW u \in Units, Gone(u) PROVE Inv'
  <2>1. /\ members' = members \ {u} /\ pending' = [pending EXCEPT ![u] = {}]
        /\ UNCHANGED <<flagged, relation>>
    BY <1>6 DEF Gone, backend
  <2> QED BY <1>1, <2>1 DEF Inv, Typed, GoneAreSilent, BrokenLeaves
<1>7. ASSUME NEW u \in Units, ContainerRestart(u) PROVE Inv'
  <2>1. /\ u \in members /\ UNCHANGED <<members, flagged, relation>>
        /\ pending' = Queued({u}, {"pebble_ready"})
    BY <1>7 DEF ContainerRestart, units, backend
  <2>2. pending' \in [Units -> SUBSET Events]
    BY <2>1 DEF Queued, Events, Inv, Typed
  <2>3. \A v \in Units :
          /\ v \notin members => pending'[v] = pending[v]
          /\ "broken" \in pending'[v] => "broken" \in pending[v]
          /\ "departed" \in pending[v] => "departed" \in pending'[v]
    BY <2>1 DEF Queued
  <2> QED BY <1>1, <2>1, <2>2, <2>3 DEF Inv, Typed, GoneAreSilent, BrokenLeaves
<1>8. CASE Outage \/ Recover \/ \E u \in Units : Elect(u)
  <2>1. UNCHANGED <<members, flagged, relation, pending>>
    BY <1>8 DEF Outage, Recover, Elect, units, backend
  <2> QED BY <1>1, <2>1 DEF Inv, Typed, GoneAreSilent, BrokenLeaves
<1> QED BY <1>1, <1>2, <1>3, <1>4, <1>5, <1>6, <1>7, <1>8 DEF Environment

\* Every step keeps the invariant, and the secret as long as there is a backend.
LEMMA StepKeeps ==
  ASSUME Inv, [Next]_vars
  PROVE  Inv' /\ (secret # None /\ secret' = None => relation = 0)
<1>1. CASE Environment
  BY <1>1, EnvironmentKeeps
<1>2. ASSUME NEW u \in Units, CreatedHooks(u) \/ OtherHooks(u)
      PROVE  Inv' /\ (secret # None /\ secret' = None => relation = 0)
  <2>1. CASE CreatedHooks(u)
    BY <2>1, CreatedKeeps
  <2>2. CASE Departed(u)
    BY <2>2, DepartedKeeps DEF Departed, keys
  <2>3. CASE Broken(u)
    BY <2>3, BrokenRemoves
  <2>4. CASE BrokenIgnored(u) \/ PebbleReady(u) \/ PeersChanged(u)
    BY <2>4, OtherHooksKeep
  <2> QED BY <1>2, <2>1, <2>2, <2>3, <2>4 DEF OtherHooks
<1>3. CASE UNCHANGED vars
  BY <1>3 DEF vars, units, backend, keys, Inv, Typed, GoneAreSilent, BrokenLeaves
<1> QED BY <1>1, <1>2, <1>3 DEF Next

\* The invariant holds at first and in every state after.
THEOREM InvHolds == Spec => []Inv
<1>1. Init => Inv
  BY DEF Init, Inv, Typed, GoneAreSilent, BrokenLeaves
<1> QED BY <1>1, StepKeeps, PTL DEF Spec

\* As long as there is a backend the secret with the userlist stays: no unit that leaves, the
\* leader neither, removes it, however its events come (backend_database.py:422-429, 462-467).
THEOREM ScaleDownKeepsSecret == Spec => SecretKept
<1>1. Inv /\ [Next]_vars => [secret # None /\ secret' = None => relation = 0]_vars
  BY StepKeeps
<1> QED BY <1>1, InvHolds, PTL DEF Spec, SecretKept
----------------------------------------------------------------------------
(* The userlist and the traces of the relation *)

Shapes ==
  /\ leader \in members /\ members \subseteq Units
  /\ relation \in 0 .. Relations /\ count \in 0 .. Relations
  /\ shared \in BOOLEAN /\ (shared => relation # 0)
  /\ secret \in Password /\ authUser \in [1 .. Relations -> Password]
  /\ file \in [Units -> Password] /\ rendered \in [Units -> 0 .. Relations]
  /\ spent \in [Disturbances -> Nat]

\* Without scale-down no unit leaves.
NobodyLeaves ==
  spent["leaves"] = 0 => flagged = {} /\ \A u \in Units : "departed" \notin pending[u]

\* Relation-changed is about credentials that are there.
ChangedIsShared == ~shared => \A u \in Units : "changed" \notin pending[u]

\* A password is set in PostgreSQL and in the secret together, unless the auth function fails, and
\* a secret is for the backend there is, unless that was removed.
SecretOfBackend == NothingFails /\ secret # None => relation # 0 /\ authUser[relation] = secret

\* A leader that stays removes the secret when it handles the end of the relation.
SecretRemoved ==
  LeaderStays /\ secret # None /\ ~shared => relation = 0 /\ "broken" \in pending[leader]

\* A leader that stays, and whose secret differs, tries again.
LeaderRetries ==
  LeaderStays /\ shared /\ secret # None /\ authUser[relation] # secret
  => {"changed", "created"} \intersect pending[leader] # {}

NoTrace(u) == file[u] = None /\ rendered[u] = 0 /\ u \notin exporter

\* A unit that has handled the end of the relation has no trace of it, and none comes back: a
\* deferred database-created that is left waits for a secret.
Cleaned ==
  LeaderStays /\ spent["restarts"] = 0 =>
    /\ members \subseteq up /\ \A u \in Units : "pebble_ready" \notin pending[u]
    /\ \A u \in members : relation = 0 /\ "broken" \notin pending[u] =>
         NoTrace(u) /\ ("created" \in pending[u] => secret = None)

Userlist == NobodyLeaves /\ ChangedIsShared /\ SecretOfBackend /\ SecretRemoved /\ LeaderRetries
Whole == Inv /\ Shapes /\ Userlist /\ Cleaned

\* A disturbance adds to its own count, so that what a property allows before it allows after.
LEMMA Spent ==
  ASSUME Shapes, NEW d \in Disturbances, Spend(d)
  PROVE  /\ spent' \in [Disturbances -> Nat]
         /\ spent'[d] = spent[d] + 1 /\ \A x \in Disturbances \ {d} : spent'[x] = spent[x]
BY DEF Shapes, Spend

\* What the handlers of u have in common: the other queues and workloads are left alone, and what
\* is rendered without credentials has no route.
Handling(u, gone, kept) ==
  /\ pending' \in {Handled(u, gone, kept), Told(Handled(u, gone, kept), u)}
  /\ UNCHANGED <<units, backend>>

LEMMA QueueOfHandling ==
  ASSUME Whole, NEW u \in Units, NEW gone \in SUBSET Events, NEW kept \in SUBSET Events,
         Handling(u, gone, kept)
  PROVE  /\ pending'[u] = (pending[u] \ gone) \union kept
         /\ \A v \in Units \ {u}, e \in Events \ {"peers_changed"} :
              e \in pending'[v] <=> e \in pending[v]
<1> DEFINE done == Handled(u, gone, kept)
<1>1. /\ done[u] = (pending[u] \ gone) \union kept
      /\ \A v \in Units \ {u} : done[v] = pending[v]
  BY DEF Handled, Whole, Inv, Typed
<1>2. CASE pending' = done
  BY <1>1, <1>2
<1>3. CASE pending' = Told(done, u)
  <2> HIDE DEF done
  <2> QED BY <1>1, <1>3 DEF Told
<1> QED BY <1>2, <1>3 DEF Handling

LEMMA RenderedShape ==
  ASSUME Shapes, NEW us
  PROVE  /\ Rendered(us) \in [Units -> 0 .. Relations]
         /\ \A u \in Units : u \notin us => Rendered(us)[u] = rendered[u]
         /\ relation = 0 => \A u \in Units : rendered[u] = 0 => Rendered(us)[u] = 0
BY BackendAssumption DEF Shapes, Rendered, Postgres

\* Handlers that set no password.
LEMMA QuietHandling ==
  ASSUME Whole, NEW u \in Units, NEW gone \in SUBSET Events, NEW kept \in SUBSET {"created"},
         Handling(u, gone, kept), UNCHANGED <<secret, authUser, spent>>,
         LeaderStays /\ u = leader => gone \intersect {"broken", "created"} = {},
         u = leader /\ "changed" \in gone => "created" \in kept,
         kept # {} => "changed" \in pending[u],
         file' \in [Units -> Password], rendered' \in [Units -> 0 .. Relations]
  PROVE  Shapes' /\ Userlist'
<1>1. /\ pending'[u] = (pending[u] \ gone) \union kept
      /\ \A v \in Units \ {u}, e \in Events \ {"peers_changed"} :
           e \in pending'[v] <=> e \in pending[v]
  BY QueueOfHandling DEF Events
<1>2. UNCHANGED <<leader, members, flagged, relation, count, shared, spent, secret, authUser>>
  BY DEF Handling, units, backend
<1>3. Shapes'
  BY <1>2 DEF Whole, Shapes
<1>4. leader \in Units
  BY DEF Whole, Shapes
<1>5. NobodyLeaves' /\ ChangedIsShared'
  BY <1>1, <1>2 DEF Whole, Userlist, NobodyLeaves, ChangedIsShared, Events
<1>6. SecretOfBackend'
  BY <1>2 DEF Whole, Userlist, SecretOfBackend, NothingFails
<1>7. SecretRemoved'
  BY <1>1, <1>2, <1>4 DEF Whole, Userlist, SecretRemoved, LeaderStays, Events
<1>8. LeaderRetries'
  BY <1>1, <1>2, <1>4 DEF Whole, Userlist, LeaderRetries, LeaderStays, Events
<1> QED BY <1>3, <1>5, <1>6, <1>7, <1>8 DEF Userlist

\* The traces of u after a handler of u.
LEMMA CleanHandling ==
  ASSUME Whole, NEW u \in Units, NEW gone \in SUBSET Events, NEW kept \in SUBSET {"created"},
         Handling(u, gone, kept),
         LeaderStays' /\ spent'["restarts"] = 0 => LeaderStays /\ spent["restarts"] = 0,
         secret' = secret \/ shared \/ secret' = None,
         members \subseteq up => members \subseteq up',
         kept # {} => "changed" \in pending[u],
         \A v \in Units \ {u} : file'[v] = file[v] /\ rendered'[v] = rendered[v],
         exporter' \ {u} = exporter \ {u},
         /\ LeaderStays /\ spent["restarts"] = 0 /\ relation = 0 /\ u \in members
         /\ "broken" \notin pending'[u]
         => NoTrace(u)' /\ ("created" \in pending'[u] => secret' = None)
  PROVE  Cleaned'
<1>1. /\ pending'[u] = (pending[u] \ gone) \union kept
      /\ \A v \in Units \ {u}, e \in Events \ {"peers_changed"} :
           e \in pending'[v] <=> e \in pending[v]
  BY QueueOfHandling DEF Events
<1>2. UNCHANGED <<leader, members, flagged, relation, count, shared>>
  BY DEF Handling, units, backend
<1> SUFFICES ASSUME LeaderStays, spent["restarts"] = 0
             PROVE  Cleaned'
  BY <1>2 DEF Cleaned
<1>3. members' \subseteq up' /\ \A v \in Units : "pebble_ready" \notin pending'[v]
  BY <1>1, <1>2 DEF Whole, Cleaned, Events
<1>4. ASSUME NEW v \in members', relation' = 0, "broken" \notin pending'[v]
      PROVE  NoTrace(v)' /\ ("created" \in pending'[v] => secret' = None)
  <2>1. CASE v = u
    BY <2>1, <1>2, <1>4
  <2>2. CASE v # u
    <3>1. v \in members /\ v \in Units /\ relation = 0 /\ "broken" \notin pending[v]
      BY <2>2, <1>1, <1>2, <1>4 DEF Whole, Shapes, Events
    <3>2. NoTrace(v) /\ ("created" \in pending[v] => secret = None)
      BY <3>1 DEF Whole, Cleaned
    <3>3. "created" \in pending'[v] <=> "created" \in pending[v]
      BY <3>1, <2>2, <1>1 DEF Events
    <3>4. ~shared
      BY <3>1 DEF Whole, Shapes
    <3>5. NoTrace(v)'
      BY <3>1, <3>2, <2>2 DEF NoTrace
    <3> QED BY <3>2, <3>3, <3>4, <3>5
  <2> QED BY <2>1, <2>2
<1> QED BY <1>3, <1>4 DEF Cleaned

LEMMA AwaitsCleanly ==
  ASSUME Whole, NEW u \in Units, LeaderAwaits(u) \/ FollowerAwaits(u)
  PROVE  Shapes' /\ Userlist' /\ Cleaned'
<1>1. /\ Handling(u, {"changed"}, {"created"}) /\ "changed" \in pending[u]
      /\ UNCHANGED <<secret, authUser, spent, file, exporter, up>>
      /\ rendered' = Rendered({u})
  BY DEF LeaderAwaits, FollowerAwaits, Handling, keys
<1>2. /\ rendered' \in [Units -> 0 .. Relations]
      /\ \A v \in Units \ {u} : rendered'[v] = rendered[v]
      /\ file' \in [Units -> Password]
  BY <1>1, RenderedShape DEF Whole, Shapes
<1>3. Shapes' /\ Userlist'
  BY <1>1, <1>2, QuietHandling DEF Events
<1>4. relation # 0 /\ UNCHANGED members
  BY <1>1 DEF Whole, Userlist, ChangedIsShared, Shapes, Handling, units
<1>5. LeaderStays' => LeaderStays
  BY <1>1 DEF LeaderStays
<1>6. Cleaned'
  BY <1>1, <1>2, <1>4, <1>5, CleanHandling DEF Events
<1> QED BY <1>3, <1>6

LEMMA FollowersCleanly ==
  ASSUME Whole, NEW u \in Units, NEW e \in {"changed", "created"},
         FollowerDrops(u, e) \/ FollowerCopies(u, e)
  PROVE  Shapes' /\ Userlist' /\ Cleaned'
<1>1. /\ Handling(u, Both(e), {}) /\ u # leader /\ e \in pending[u]
      /\ UNCHANGED <<secret, authUser, spent, up>>
  BY DEF FollowerDrops, FollowerCopies, Creating, Handling, keys
<1>2. /\ rendered' \in {rendered, Rendered({u})}
      /\ file' \in {file, [file EXCEPT ![u] = secret]}
      /\ exporter' \in {exporter, exporter \union {u}}
  BY DEF FollowerDrops, FollowerCopies, workload, Toggled
<1>3. /\ rendered' \in [Units -> 0 .. Relations] /\ file' \in [Units -> Password]
      /\ \A v \in Units \ {u} : file'[v] = file[v] /\ rendered'[v] = rendered[v]
  <2>1. /\ Rendered({u}) \in [Units -> 0 .. Relations]
        /\ \A v \in Units \ {u} : Rendered({u})[v] = rendered[v]
    BY RenderedShape DEF Whole
  <2> QED BY <1>2, <2>1 DEF Whole, Shapes
<1>4. Both(e) \in SUBSET Events /\ Both(e) \subseteq {"changed", "created"}
  BY DEF Both, Events
<1>5. Shapes' /\ Userlist'
  BY <1>1, <1>3, <1>4, QuietHandling
<1>6. ~(/\ LeaderStays /\ spent["restarts"] = 0 /\ relation = 0 /\ u \in members
        /\ "broken" \notin pending'[u])
  <2> SUFFICES ASSUME LeaderStays, spent["restarts"] = 0, relation = 0, u \in members,
                      "broken" \notin pending'[u]
               PROVE  FALSE
    OBVIOUS
  <2>1. "broken" \notin pending[u]
    <3>1. {} \in SUBSET Events /\ Handling(u, Both(e), {})
      BY <1>1
    <3>2. /\ pending'[u] = (pending[u] \ Both(e)) \union {}
          /\ \A v \in Units \ {u}, x \in Events \ {"peers_changed"} :
               x \in pending'[v] <=> x \in pending[v]
      BY <1>4, <3>1, QueueOfHandling
    <3> QED BY <1>4, <3>2
  <2>2. u \in up /\ ("created" \in pending[u] => secret = None)
    BY <2>1 DEF Whole, Cleaned
  <2>3. "changed" \notin pending[u]
    BY DEF Whole, Userlist, ChangedIsShared, Shapes
  <2>4. secret # None
    BY <2>2 DEF FollowerDrops, FollowerCopies
  <2> QED BY <1>1, <2>2, <2>3, <2>4
<1>7. LeaderStays' => LeaderStays
  BY <1>1 DEF LeaderStays
<1>8. Cleaned'
  BY <1>1, <1>2, <1>3, <1>4, <1>6, <1>7, CleanHandling
<1> QED BY <1>5, <1>8

LEMMA OthersCleanly ==
  ASSUME Whole, NEW u \in Units, BrokenIgnored(u) \/ PebbleReady(u) \/ PeersChanged(u)
  PROVE  Shapes' /\ Userlist' /\ Cleaned'
<1>1. UNCHANGED <<secret, authUser, spent, units, backend>> /\ u \in Units
  BY DEF BrokenIgnored, PebbleReady, PeersChanged, keys
<1>2. rendered' \in [Units -> 0 .. Relations] /\ file' \in [Units -> Password]
  <2>1. Rendered({u}) \in [Units -> 0 .. Relations] /\ 0 \in 0 .. Relations
    BY RenderedShape, BackendAssumption DEF Whole
  <2>2. rendered' \in [Units -> 0 .. Relations]
    BY <2>1 DEF BrokenIgnored, PebbleReady, PeersChanged, workload, Whole, Shapes
  <2>3. file' \in [Units -> Password]
    BY DEF BrokenIgnored, PebbleReady, PeersChanged, workload, Whole, Shapes
  <2> QED BY <2>2, <2>3
<1>3. /\ \A v \in Units \ {u} : file'[v] = file[v] /\ rendered'[v] = rendered[v]
      /\ exporter' \ {u} = exporter \ {u} /\ up \subseteq up'
  BY RenderedShape
  DEF BrokenIgnored, PebbleReady, PeersChanged, workload, Toggled, Whole, Shapes
<1>4. LeaderStays' => LeaderStays
  BY <1>1 DEF LeaderStays
<1>5. UNCHANGED members
  BY <1>1 DEF units
<1>6. CASE BrokenIgnored(u)
  <2>1. Handling(u, {"broken"}, {}) /\ u \in flagged
    BY <1>1, <1>6 DEF BrokenIgnored, Handling
  <2>2. ~LeaderStays
    BY <2>1, <1>1 DEF Whole, Userlist, NobodyLeaves, LeaderStays, Shapes, Disturbances
  <2>3. Shapes' /\ Userlist'
    BY <1>1, <1>2, <2>1, <2>2, QuietHandling DEF Events
  <2>4. Cleaned'
    BY <1>4, <2>2 DEF Cleaned
  <2> QED BY <2>3, <2>4
<1>7. CASE PebbleReady(u)
  <2>1. Handling(u, {"pebble_ready"}, {}) /\ "pebble_ready" \in pending[u]
    BY <1>1, <1>7 DEF PebbleReady, Handling
  <2>2. Shapes' /\ Userlist'
    BY <1>1, <1>2, <2>1, QuietHandling DEF Events
  <2>3. ~(LeaderStays /\ spent["restarts"] = 0)
    BY <2>1 DEF Whole, Cleaned
  <2>4. Cleaned'
    BY <1>1, <1>4, <2>3 DEF Cleaned
  <2> QED BY <2>2, <2>4
<1>8. CASE PeersChanged(u)
  <2>1. /\ Handling(u, {"peers_changed"}, {}) /\ rendered' = Rendered({u})
        /\ exporter' = Toggled(u, Ready) /\ UNCHANGED <<file, up>>
    BY <1>1, <1>8 DEF PeersChanged, Handling
  <2>2. Shapes' /\ Userlist'
    BY <1>1, <1>2, <2>1, QuietHandling DEF Events
  <2>3. ASSUME LeaderStays, spent["restarts"] = 0, relation = 0, u \in members,
               "broken" \notin pending'[u]
        PROVE  NoTrace(u)' /\ ("created" \in pending'[u] => secret' = None)
    <3>1. pending'[u] = pending[u] \ {"peers_changed"}
      <4>1. {} \in SUBSET Events /\ {"peers_changed"} \in SUBSET Events
        BY DEF Events
      <4>2. pending'[u] = (pending[u] \ {"peers_changed"}) \union {}
        BY <2>1, <4>1, QueueOfHandling
      <4> QED BY <4>2
    <3>2. NoTrace(u) /\ ("created" \in pending[u] => secret = None)
      BY <3>1, <2>3 DEF Whole, Cleaned
    <3>3. rendered'[u] = 0
      BY <2>1, <2>3, <3>2, RenderedShape DEF NoTrace, Whole
    <3>4. u \notin exporter'
      BY <2>1, <2>3 DEF Toggled, Ready, Postgres
    <3> QED BY <1>1, <2>1, <3>1, <3>2, <3>3, <3>4 DEF NoTrace
  <2>4. Cleaned'
    BY <1>1, <1>3, <1>4, <1>5, <2>1, <2>3, CleanHandling DEF Events
  <2> QED BY <2>2, <2>4
<1> QED BY <1>6, <1>7, <1>8

\* The leader sets both passwords, or only that in PostgreSQL, and keeps the event then.
LEMMA LeaderCleanly ==
  ASSUME Whole, NEW u \in Units, NEW e \in {"changed", "created"},
         LeaderInitialises(u, e) \/ AuthFunctionFails(u, e)
  PROVE  Shapes' /\ Userlist' /\ Cleaned'
<1> DEFINE kept == IF pending' = Handled(u, Both(e), {"created"}) THEN {"created"} ELSE {}
<1>1. /\ e \in pending[u] /\ u = leader /\ relation # 0 /\ shared
      /\ UNCHANGED <<leader, members, flagged, relation, count, shared, up>>
  BY DEF LeaderInitialises, AuthFunctionFails, Initialising, Creating, Postgres, units, backend
<1>2. /\ passwords' \in Password /\ relation \in 1 .. Relations
      /\ authUser' = [authUser EXCEPT ![relation] = passwords']
  <2>1. NewAuthUser
    BY DEF LeaderInitialises, AuthFunctionFails
  <2>2. passwords' \in Password
    BY <2>1 DEF NewAuthUser, Whole, Inv, Typed, Password
  <2>3. relation \in 1 .. Relations
    BY <1>1, BackendAssumption DEF Whole, Shapes
  <2> QED BY <2>1, <2>2, <2>3 DEF NewAuthUser
<1>3. authUser' \in [1 .. Relations -> Password] /\ authUser'[relation] = passwords'
  BY <1>2 DEF Whole, Shapes
<1>4. Both(e) \in SUBSET Events /\ Both(e) = {"changed", "created"} \intersect Both(e)
  BY DEF Both, Events
<1>5. CASE LeaderInitialises(u, e)
  <2>1. /\ Handling(u, Both(e), {}) /\ spent' = spent /\ secret' = passwords'
        /\ file' = [file EXCEPT ![u] = passwords'] /\ rendered' = Rendered({u})
        /\ exporter' = exporter \union {u}
    BY <1>5 DEF LeaderInitialises, Handling, Toggled
  <2>2. /\ rendered' \in [Units -> 0 .. Relations]
        /\ \A v \in Units \ {u} : file'[v] = file[v] /\ rendered'[v] = rendered[v]
        /\ file' \in [Units -> Password]
    BY <2>1, <1>2, RenderedShape DEF Whole, Shapes
  <2>3. Shapes'
    BY <1>1, <1>2, <1>3, <2>1, <2>2 DEF Whole, Shapes
  <2>4. /\ pending'[u] = (pending[u] \ Both(e)) \union {}
        /\ \A v \in Units \ {u}, x \in Events \ {"peers_changed"} :
             x \in pending'[v] <=> x \in pending[v]
    <3>1. {} \in SUBSET Events
      OBVIOUS
    <3> QED BY <1>4, <2>1, <3>1, QueueOfHandling
  <2>5. NobodyLeaves' /\ ChangedIsShared'
    BY <1>1, <2>1, <2>4 DEF Whole, Userlist, NobodyLeaves, ChangedIsShared, Events
  <2>6. SecretOfBackend' /\ SecretRemoved' /\ LeaderRetries'
    BY <1>1, <1>3, <2>1 DEF SecretOfBackend, SecretRemoved, LeaderRetries
  <2>7. LeaderStays' => LeaderStays
    BY <2>1 DEF LeaderStays
  <2>8. Cleaned'
    BY <1>1, <1>4, <2>1, <2>2, <2>7, CleanHandling
  <2> QED BY <2>3, <2>5, <2>6, <2>8 DEF Userlist
<1>6. CASE AuthFunctionFails(u, e)
  <2>1. /\ Handling(u, Both(e), {"created"}) /\ Spend("failures")
        /\ UNCHANGED <<secret, file, exporter>>
        /\ rendered' \in {rendered, Rendered({u})}
    BY <1>6 DEF AuthFunctionFails, AlsoRendered, Handling
  <2>2. /\ spent' \in [Disturbances -> Nat] /\ spent'["failures"] = spent["failures"] + 1
        /\ \A x \in Disturbances \ {"failures"} : spent'[x] = spent[x]
    BY <2>1, Spent DEF Whole, Disturbances
  <2>3. /\ rendered' \in [Units -> 0 .. Relations]
        /\ \A v \in Units \ {u} : file'[v] = file[v] /\ rendered'[v] = rendered[v]
    <3>1. /\ Rendered({u}) \in [Units -> 0 .. Relations]
          /\ \A v \in Units \ {u} : Rendered({u})[v] = rendered[v]
      BY RenderedShape DEF Whole
    <3> QED BY <2>1, <3>1 DEF Whole, Shapes
  <2>4. Shapes'
    BY <1>1, <1>2, <1>3, <2>1, <2>2, <2>3 DEF Whole, Shapes
  <2>5. /\ pending'[u] = (pending[u] \ Both(e)) \union {"created"}
        /\ \A v \in Units \ {u}, x \in Events \ {"peers_changed"} :
             x \in pending'[v] <=> x \in pending[v]
    BY <1>4, <2>1, QueueOfHandling DEF Events
  <2>6. NobodyLeaves' /\ ChangedIsShared'
    BY <1>1, <2>2, <2>5
    DEF Whole, Userlist, NobodyLeaves, ChangedIsShared, Events, Disturbances
  <2>7. SecretOfBackend'
    BY <2>2 DEF SecretOfBackend, NothingFails, Whole, Shapes, Disturbances
  <2>8. SecretRemoved' /\ LeaderRetries'
    BY <1>1, <2>1, <2>5 DEF SecretRemoved, LeaderRetries
  <2>9. LeaderStays' /\ spent'["restarts"] = 0 => LeaderStays /\ spent["restarts"] = 0
    BY <2>2 DEF LeaderStays, Disturbances
  <2>10. Cleaned'
    <3>1. ASSUME LeaderStays', spent'["restarts"] = 0 PROVE Cleaned'
      <4>1. members' \subseteq up'
        BY <1>1, <2>9, <3>1 DEF Whole, Cleaned
      <4>2. \A v \in Units : "pebble_ready" \notin pending'[v]
        BY <1>4, <2>5, <2>9, <3>1 DEF Whole, Cleaned, Events
      <4> QED BY <1>1, <4>1, <4>2 DEF Cleaned
    <3> QED BY <3>1 DEF Cleaned
  <2> QED BY <2>4, <2>6, <2>7, <2>8, <2>10 DEF Userlist
<1> QED BY <1>5, <1>6

LEMMA DepartedCleanly ==
  ASSUME Whole, NEW u \in Units, Departed(u)
  PROVE  Shapes' /\ Userlist' /\ Cleaned'
<1>1. /\ pending' = Handled(u, {"departed"}, {}) /\ rendered' = Rendered({u})
      /\ UNCHANGED <<leader, members, relation, count, shared, secret, authUser, file, spent>>
      /\ "departed" \in pending[u]
  BY DEF Departed, backend, keys
<1>2. rendered' \in [Units -> 0 .. Relations]
  BY <1>1, RenderedShape DEF Whole
<1>3. Shapes'
  BY <1>1, <1>2 DEF Whole, Shapes
<1>4. spent["leaves"] # 0 /\ ~LeaderStays /\ ~LeaderStays'
  BY <1>1 DEF Whole, Userlist, NobodyLeaves, LeaderStays, Shapes, Disturbances
<1>5. ChangedIsShared'
  BY <1>1 DEF Whole, Userlist, ChangedIsShared, Handled, Inv, Typed
<1>6. SecretOfBackend'
  BY <1>1 DEF Whole, Userlist, SecretOfBackend, NothingFails
<1> QED BY <1>1, <1>3, <1>4, <1>5, <1>6
        DEF Userlist, NobodyLeaves, SecretRemoved, LeaderRetries, Cleaned

\* The hook of the leader removes the secret; what was deferred does not bring it back.
LEMMA BrokenCleanly ==
  ASSUME Whole, NEW u \in Units, Broken(u)
  PROVE  Shapes' /\ Userlist' /\ Cleaned'
<1>1. /\ Handling(u, {"broken"}, {}) /\ UNCHANGED <<authUser, spent, up>>
      /\ exporter' = exporter \ {u} /\ secret' = IF u = leader THEN None ELSE secret
      /\ file' = [file EXCEPT ![u] = None] /\ rendered' = [rendered EXCEPT ![u] = 0]
      /\ u # leader /\ "created" \in pending[u] => secret = None
  BY DEF Broken, Breaking, Creating, Handling, Toggled
<1>2. UNCHANGED <<leader, members, flagged, relation, count, shared>>
  BY <1>1 DEF Handling, units, backend
<1>3. relation = 0 /\ ~shared
  BY BrokenRemoves DEF Whole, Shapes
<1>4. Shapes'
  BY <1>1, <1>2, BackendAssumption DEF Whole, Shapes, Password
<1>5. /\ pending'[u] = (pending[u] \ {"broken"}) \union {}
      /\ \A v \in Units \ {u}, x \in Events \ {"peers_changed"} :
           x \in pending'[v] <=> x \in pending[v]
  <2>1. {} \in SUBSET Events /\ {"broken"} \in SUBSET Events
    BY DEF Events
  <2> QED BY <1>1, <2>1, QueueOfHandling
<1>6. NobodyLeaves' /\ ChangedIsShared'
  BY <1>1, <1>2, <1>5 DEF Whole, Userlist, NobodyLeaves, ChangedIsShared, Events
<1>7. SecretOfBackend' /\ LeaderRetries'
  BY <1>1, <1>2, <1>3 DEF Whole, Userlist, SecretOfBackend, LeaderRetries, NothingFails
<1>8. SecretRemoved'
  BY <1>1, <1>2, <1>5 DEF Whole, Userlist, SecretRemoved, LeaderStays, Shapes, Events
<1>9. NoTrace(u)' /\ ("created" \in pending'[u] => secret' = None)
  BY <1>1, <1>5 DEF NoTrace, Whole, Shapes
<1>10. LeaderStays' => LeaderStays
  BY <1>1 DEF LeaderStays
<1>11. /\ \A v \in Units \ {u} : file'[v] = file[v] /\ rendered'[v] = rendered[v]
       /\ exporter' \ {u} = exporter \ {u} /\ (secret' = secret \/ secret' = None)
  BY <1>1 DEF Whole, Shapes
<1>12. Cleaned'
  BY <1>1, <1>2, <1>9, <1>10, <1>11, CleanHandling DEF Events
<1> QED BY <1>4, <1>6, <1>7, <1>8, <1>12 DEF Userlist

LEMMA EnvironmentCleanly ==
  ASSUME Whole, Environment
  PROVE  Shapes' /\ Userlist' /\ Cleaned'
<1>1. CASE Relate
  <2>1. /\ relation = 0 /\ relation' = count + 1 /\ count' = count + 1 /\ count < Relations
        /\ UNCHANGED <<leader, members, flagged, shared, secret, authUser, file, rendered, exporter,
                       up, pending, spent>>
        /\ \A u \in members : "broken" \notin pending[u]
    BY <1>1 DEF Relate, units, keys, workload
  <2>2. relation' \in 0 .. Relations /\ relation' # 0
    BY <2>1, BackendAssumption DEF Whole, Shapes
  <2>3. Shapes'
    BY <2>1, <2>2 DEF Whole, Shapes
  <2>4. NobodyLeaves' /\ ChangedIsShared'
    BY <2>1 DEF Whole, Userlist, NobodyLeaves, ChangedIsShared
  <2>5. SecretOfBackend'
    BY <2>1 DEF Whole, Userlist, SecretOfBackend, NothingFails
  <2>6. ~shared /\ (LeaderStays => secret = None)
    BY <2>1 DEF Whole, Userlist, SecretRemoved, Shapes
  <2>7. SecretRemoved' /\ LeaderRetries'
    BY <2>1, <2>6 DEF SecretRemoved, LeaderRetries, LeaderStays
  <2>8. Cleaned'
    BY <2>1, <2>2 DEF Whole, Cleaned, LeaderStays
  <2> QED BY <2>3, <2>4, <2>5, <2>7, <2>8 DEF Userlist
<1>2. CASE ShareCredentials
  <2>1. /\ relation # 0 /\ ~shared /\ shared' = TRUE /\ pending' = Queued(members, {"changed"})
        /\ UNCHANGED <<leader, members, flagged, relation, count, secret, authUser, file, rendered,
                       exporter, up, spent>>
    BY <1>2 DEF ShareCredentials, units, keys, workload
  <2>2. \A u \in Units, e \in Events \ {"changed"} : e \in pending'[u] <=> e \in pending[u]
    BY <2>1 DEF Queued
  <2>3. Shapes'
    BY <2>1 DEF Whole, Shapes
  <2>4. NobodyLeaves' /\ ChangedIsShared'
    BY <2>1, <2>2 DEF Whole, Userlist, NobodyLeaves, ChangedIsShared, Events
  <2>5. SecretOfBackend'
    BY <2>1 DEF Whole, Userlist, SecretOfBackend, NothingFails
  <2>6. LeaderStays => secret = None
    BY <2>1 DEF Whole, Userlist, SecretRemoved
  <2>7. SecretRemoved' /\ LeaderRetries'
    BY <2>1, <2>6 DEF SecretRemoved, LeaderRetries, LeaderStays
  <2>8. Cleaned'
    BY <2>1, <2>2 DEF Whole, Cleaned, LeaderStays, Events
  <2> QED BY <2>3, <2>4, <2>5, <2>7, <2>8 DEF Userlist
<1>3. CASE RemoveBackend
  <2>1. /\ relation' = 0 /\ shared' = FALSE /\ relation # 0 /\ Spend("removals")
        /\ UNCHANGED <<leader, members, flagged, count, secret, authUser, file, rendered, exporter,
                       up>>
        /\ pending' = [u \in Units |->
             IF u \in members THEN (pending[u] \ {"changed"}) \union {"broken"} ELSE pending[u]]
    BY <1>3 DEF RemoveBackend, units, keys, workload
  <2>2. /\ spent' \in [Disturbances -> Nat] /\ spent'["removals"] = spent["removals"] + 1
        /\ \A x \in Disturbances \ {"removals"} : spent'[x] = spent[x]
    BY <2>1, Spent DEF Whole, Disturbances
  <2>3. Shapes'
    <3>1. 0 \in 0 .. Relations
      BY BackendAssumption
    <3> QED BY <2>1, <2>2, <3>1 DEF Whole, Shapes
  <2>4. \A u \in members : u \in Units /\ "broken" \in pending'[u]
    BY <2>1 DEF Whole, Shapes
  <2>5. NobodyLeaves'
    BY <2>1, <2>2 DEF Whole, Userlist, NobodyLeaves, Disturbances
  <2>6. ChangedIsShared'
    BY <2>1 DEF ChangedIsShared, Whole, Inv, GoneAreSilent
  <2>7. SecretOfBackend'
    BY <2>2 DEF SecretOfBackend, NothingFails, Whole, Shapes, Disturbances
  <2>8. SecretRemoved' /\ LeaderRetries'
    BY <2>1, <2>4 DEF SecretRemoved, LeaderRetries, Whole, Shapes
  <2>9. LeaderStays' /\ spent'["restarts"] = 0 => LeaderStays /\ spent["restarts"] = 0
    BY <2>2 DEF LeaderStays, Disturbances
  <2>10. Cleaned'
    BY <2>1, <2>4, <2>9 DEF Cleaned, Whole
  <2> QED BY <2>3, <2>5, <2>6, <2>7, <2>8, <2>10 DEF Userlist
<1>4. ASSUME NEW u \in Units, Leave(u) PROVE Shapes' /\ Userlist' /\ Cleaned'
  <2>1. /\ Spend("leaves") /\ pending' = Queued({u}, {"departed", "broken"})
        /\ UNCHANGED <<leader, members, flagged, relation, count, shared, secret, authUser, file,
                       rendered>>
    BY <1>4 DEF Leave, units, backend, keys, workload
  <2>2. /\ spent' \in [Disturbances -> Nat] /\ spent'["leaves"] = spent["leaves"] + 1
        /\ \A x \in Disturbances \ {"leaves"} : spent'[x] = spent[x]
    BY <2>1, Spent DEF Whole, Disturbances
  <2>3. Shapes'
    BY <2>1, <2>2 DEF Whole, Shapes
  <2>4. spent'["leaves"] # 0 /\ ~LeaderStays'
    BY <2>2 DEF LeaderStays, Whole, Shapes, Disturbances
  <2>5. ChangedIsShared'
    BY <2>1 DEF Whole, Userlist, ChangedIsShared, Queued
  <2>6. SecretOfBackend'
    BY <2>1, <2>2 DEF Whole, Userlist, SecretOfBackend, NothingFails, Disturbances
  <2> QED BY <2>3, <2>4, <2>5, <2>6
          DEF Userlist, NobodyLeaves, SecretRemoved, LeaderRetries, Cleaned
<1>5. ASSUME NEW u \in Units, Gone(u) PROVE Shapes' /\ Userlist' /\ Cleaned'
  <2>1. /\ u \in flagged /\ u \in members
        /\ members' = members \ {u}
        /\ leader' \in IF leader = u THEN members \ {u} ELSE {leader}
        /\ file' = [file EXCEPT ![u] = None] /\ rendered' = [rendered EXCEPT ![u] = 0]
        /\ pending' = [pending EXCEPT ![u] = {}]
        /\ UNCHANGED <<flagged, relation, count, shared, secret, authUser, spent>>
    BY <1>5 DEF Gone, backend, keys
  <2>2. Shapes'
    BY <2>1, BackendAssumption DEF Whole, Shapes, Password
  <2>3. spent["leaves"] # 0 /\ ~LeaderStays /\ ~LeaderStays'
    BY <2>1 DEF Whole, Userlist, NobodyLeaves, LeaderStays, Shapes, Disturbances
  <2>4. ChangedIsShared'
    BY <2>1 DEF Whole, Userlist, ChangedIsShared, Inv, Typed
  <2>5. SecretOfBackend'
    BY <2>1 DEF Whole, Userlist, SecretOfBackend, NothingFails
  <2> QED BY <2>1, <2>2, <2>3, <2>4, <2>5
          DEF Userlist, NobodyLeaves, SecretRemoved, LeaderRetries, Cleaned
<1>6. ASSUME NEW u \in Units, Elect(u) PROVE Shapes' /\ Userlist' /\ Cleaned'
  <2>1. /\ Spend("elections") /\ leader' = u /\ u \in members
        /\ UNCHANGED <<members, flagged, relation, count, shared, secret, authUser, file, rendered,
                       pending>>
    BY <1>6 DEF Elect, backend, keys, workload
  <2>2. /\ spent' \in [Disturbances -> Nat] /\ spent'["elections"] = spent["elections"] + 1
        /\ \A x \in Disturbances \ {"elections"} : spent'[x] = spent[x]
    BY <2>1, Spent DEF Whole, Disturbances
  <2>3. Shapes'
    BY <2>1, <2>2 DEF Whole, Shapes
  <2>4. ~LeaderStays'
    BY <2>2 DEF LeaderStays, Whole, Shapes, Disturbances
  <2>5. NobodyLeaves' /\ ChangedIsShared'
    BY <2>1, <2>2 DEF Whole, Userlist, NobodyLeaves, ChangedIsShared, Disturbances
  <2>6. SecretOfBackend'
    BY <2>1, <2>2 DEF Whole, Userlist, SecretOfBackend, NothingFails, Disturbances
  <2> QED BY <2>3, <2>4, <2>5, <2>6 DEF Userlist, SecretRemoved, LeaderRetries, Cleaned
<1>7. ASSUME NEW u \in Units, ContainerRestart(u) PROVE Shapes' /\ Userlist' /\ Cleaned'
  <2>1. /\ Spend("restarts") /\ pending' = Queued({u}, {"pebble_ready"})
        /\ file' = [file EXCEPT ![u] = None] /\ rendered' = [rendered EXCEPT ![u] = 0]
        /\ UNCHANGED <<leader, members, flagged, relation, count, shared, secret, authUser>>
    BY <1>7 DEF ContainerRestart, units, backend, keys
  <2>2. /\ spent' \in [Disturbances -> Nat] /\ spent'["restarts"] = spent["restarts"] + 1
        /\ \A x \in Disturbances \ {"restarts"} : spent'[x] = spent[x]
    BY <2>1, Spent DEF Whole, Disturbances
  <2>3. Shapes'
    BY <2>1, <2>2, BackendAssumption DEF Whole, Shapes, Password
  <2>4. spent'["restarts"] # 0 /\ (LeaderStays' <=> LeaderStays)
    BY <2>2 DEF LeaderStays, Whole, Shapes, Disturbances
  <2>5. \A v \in Units, e \in Events \ {"pebble_ready"} : e \in pending'[v] <=> e \in pending[v]
    BY <2>1 DEF Queued
  <2>6. leader \in Units
    BY DEF Whole, Shapes
  <2>7. NobodyLeaves' /\ ChangedIsShared'
    BY <2>1, <2>2, <2>5
    DEF Whole, Userlist, NobodyLeaves, ChangedIsShared, Events, Disturbances
  <2>8. SecretOfBackend'
    BY <2>1, <2>2 DEF Whole, Userlist, SecretOfBackend, NothingFails, Disturbances
  <2>9. SecretRemoved' /\ LeaderRetries'
    BY <2>1, <2>4, <2>5, <2>6 DEF Whole, Userlist, SecretRemoved, LeaderRetries, Events
  <2> QED BY <2>3, <2>4, <2>7, <2>8, <2>9 DEF Userlist, Cleaned
<1>8. CASE Outage \/ Recover
  <2>1. /\ UNCHANGED <<leader, members, flagged, relation, count, shared, secret, authUser, file,
                       rendered, exporter, up, pending>>
        /\ spent' = spent \/ Spend("outages")
    BY <1>8 DEF Outage, Recover, units, keys, workload
  <2>2. /\ spent' \in [Disturbances -> Nat]
        /\ \A x \in Disturbances \ {"outages"} : spent'[x] = spent[x]
    BY <2>1, Spent DEF Whole, Shapes, Disturbances
  <2>3. (LeaderStays' <=> LeaderStays) /\ (NothingFails' <=> NothingFails)
    BY <2>2 DEF LeaderStays, NothingFails, Disturbances
  <2>4. spent'["leaves"] = spent["leaves"] /\ spent'["restarts"] = spent["restarts"]
    BY <2>2 DEF Disturbances
  <2>5. Shapes'
    BY <2>1, <2>2 DEF Whole, Shapes
  <2>6. Userlist'
    BY <2>1, <2>3, <2>4
    DEF Whole, Userlist, NobodyLeaves, ChangedIsShared, SecretOfBackend, SecretRemoved,
        LeaderRetries
  <2>7. Cleaned'
    BY <2>1, <2>3, <2>4 DEF Whole, Cleaned, NoTrace
  <2> QED BY <2>5, <2>6, <2>7
<1> QED BY <1>1, <1>2, <1>3, <1>4, <1>5, <1>6, <1>7, <1>8 DEF Environment

THEOREM WholeHolds == Spec => []Whole
<1>1. Init => Whole
  <2> SUFFICES ASSUME Init PROVE Whole
    OBVIOUS
  <2>1. Inv
    BY DEF Init, Inv, Typed, GoneAreSilent, BrokenLeaves
  <2>2. Shapes
    <3>1. 0 \in 0 .. Relations /\ None \in Password
      BY BackendAssumption DEF Password
    <3> QED BY <3>1 DEF Init, Shapes
  <2>3. Userlist
    BY DEF Init, Userlist, NobodyLeaves, ChangedIsShared, SecretOfBackend, SecretRemoved,
           LeaderRetries
  <2>4. Cleaned
    BY DEF Init, Cleaned, NoTrace
  <2> QED BY <2>1, <2>2, <2>3, <2>4 DEF Whole
<1>2. Whole /\ [Next]_vars => Whole'
  <2> SUFFICES ASSUME Whole, [Next]_vars PROVE Shapes' /\ Userlist' /\ Cleaned'
    BY StepKeeps DEF Whole
  <2>1. CASE Environment
    BY <2>1, EnvironmentCleanly
  <2>2. ASSUME NEW u \in Units, CreatedHooks(u) \/ OtherHooks(u)
        PROVE  Shapes' /\ Userlist' /\ Cleaned'
    BY <2>2, AwaitsCleanly, FollowersCleanly, LeaderCleanly, DepartedCleanly, BrokenCleanly,
       OthersCleanly
    DEF CreatedHooks, OtherHooks
  <2>3. CASE UNCHANGED vars
    BY <2>3 DEF vars, units, backend, keys, workload, Whole, Shapes, Userlist, NobodyLeaves,
                ChangedIsShared, SecretOfBackend, SecretRemoved, LeaderRetries, LeaderStays,
                NothingFails, Cleaned, NoTrace
  <2> QED BY <2>1, <2>2, <2>3 DEF Next
<1> QED BY <1>1, <1>2, PTL DEF Spec

\* The userlist in the secret has the password of the auth user, or the leader has the event that
\* will set both, as long as the leader stays or nothing fails (backend_database.py:349-386).
THEOREM UserlistIsCurrent == Spec => []UserlistMatches
<1>1. Whole => UserlistMatches
  BY DEF Whole, Shapes, Userlist, SecretOfBackend, LeaderRetries, UserlistMatches, Postgres,
         LeaderStays, NothingFails
<1> QED BY <1>1, WholeHolds, PTL

\* Once every unit has handled the end of the relation no trace of it is left, whatever was deferred
\* (backend_database.py:457-480).
THEOREM NoTraceIsLeft == Spec => []TracesRemoved
<1>1. Whole => TracesRemoved
  <2> SUFFICES ASSUME Whole, relation = 0, \A u \in members : "broken" \notin pending[u],
                      spent["elections"] + spent["restarts"] + spent["leaves"] = 0
               PROVE  secret = None /\ \A u \in members : NoTrace(u)
    BY DEF TracesRemoved, NoTrace
  <2>1. LeaderStays /\ spent["restarts"] = 0
    BY DEF LeaderStays, Whole, Shapes, Disturbances
  <2>2. ~shared /\ leader \in members
    BY DEF Whole, Shapes
  <2> QED BY <2>1, <2>2 DEF Whole, Userlist, SecretRemoved, Cleaned
<1> QED BY <1>1, WholeHolds, PTL
=============================================================================
