-------------------------- MODULE LegacyDb_proofs --------------------------
(***************************************************************************)
(* Theorems about LegacyDb, for every number of units, clients and         *)
(* disturbances: no scale-down deletes the user of a client that stays,    *)
(* and whoever is given credentials is routed and let in.                  *)
(***************************************************************************)
EXTENDS LegacyDb, TLAPS

\* What of the types the proof needs.
Typed ==
  /\ pending \in [Units -> SUBSET Events]
  /\ flagged \in [Units -> SUBSET Clients]
  /\ bag \in [Units -> [Clients -> Password]]
  /\ appbag \in [Clients -> Password]
  /\ users \in [Clients -> Password]
  /\ passwords \in Nat

\* As long as a client is related, relation-broken comes only to a unit that leaves, after a
\* relation-departed that sets its flag.
BrokenLeaves ==
  \A u \in Units, c \in related :
    <<"broken", c>> \in pending[u] => c \in flagged[u] \/ <<"departed", c>> \in pending[u]

\* A relation that ends has credentials, and keeps them: a client without is a new one.
BrokenPublished ==
  \A u \in Units, c \in Clients \ related : <<"broken", c>> \in pending[u] => appbag[c] # None

Inv == Typed /\ related \subseteq Clients /\ BrokenLeaves /\ BrokenPublished

\* Credentials stay.
AppbagKept ==
  appbag' \in [Clients -> Password] /\ \A c \in Clients : appbag[c] # None => appbag'[c] # None

\* Users stay.
UsersKept ==
  users' \in [Clients -> Password] /\ \A c \in Clients : users[c] # None => users'[c] # None

\* A hook takes neither a departed out of a queue nor puts a broken into one.
QueuesKept ==
  /\ pending' \in [Units -> SUBSET Events]
  /\ \A u \in Units, c \in Clients :
       /\ <<"broken", c>> \in pending'[u] => <<"broken", c>> \in pending[u]
       /\ <<"departed", c>> \in pending[u] => <<"departed", c>> \in pending'[u]

LEMMA HookKeeps ==
  ASSUME Inv, QueuesKept, AppbagKept, users' \in [Clients -> Password],
         bag' \in [Units -> [Clients -> Password]], passwords' \in Nat, UNCHANGED <<related, flagged>>
  PROVE  Inv'
<1>1. Typed' /\ related' \subseteq Clients
  BY DEF Inv, Typed, QueuesKept, AppbagKept
<1>2. BrokenLeaves'
  BY DEF Inv, BrokenLeaves, QueuesKept
<1>3. BrokenPublished'
  BY DEF Inv, BrokenPublished, QueuesKept, AppbagKept
<1> QED BY <1>1, <1>2, <1>3 DEF Inv

LEMMA DoneKeepsQueues ==
  ASSUME Inv, NEW u \in Units, NEW c \in Clients, NEW e \in {"joined", "changed", "broken"},
         Done(u, e, c)
  PROVE  QueuesKept
<1>1. /\ pending' \in [Units -> SUBSET Events]
      /\ pending'[u] = pending[u] \ {<<e, c>>} /\ \A v \in Units \ {u} : pending'[v] = pending[v]
  BY DEF Done, Inv, Typed
<1>2. \A d \in Clients : <<"departed", d>> # <<e, c>>
  OBVIOUS
<1> QED BY <1>1, <1>2 DEF QueuesKept

\* The password that is published is one.
LEMMA NextPasswordIs ==
  ASSUME Inv, NEW u \in Units, NEW c \in Clients
  PROVE  NextPassword(u, c) \in Nat
BY DEF NextPassword, Inv, Typed, Password

LEMMA PublishesKeeps ==
  ASSUME Inv, NEW u \in Units, NEW c \in Clients, Publishes(u, c)
  PROVE  /\ QueuesKept /\ AppbagKept /\ UNCHANGED <<related, flagged>>
         /\ bag' \in [Units -> [Clients -> Password]] /\ passwords' \in Nat
<1>1. NextPassword(u, c) \in Nat /\ NextPassword(u, c) # None
  BY NextPasswordIs, LegacyAssumption
<1>2. /\ bag' = [bag EXCEPT ![u][c] = NextPassword(u, c)]
      /\ appbag' = [appbag EXCEPT ![c] = NextPassword(u, c)]
      /\ passwords' = passwords + 1 /\ Done(u, "joined", c) /\ UNCHANGED <<related, flagged>>
  BY DEF Publishes, units
<1>3. AppbagKept
  BY <1>1, <1>2 DEF AppbagKept, Inv, Typed, Password
<1>4. bag' \in [Units -> [Clients -> Password]]
  BY <1>1, <1>2 DEF Inv, Typed, Password
<1> QED BY <1>2, <1>3, <1>4, DoneKeepsQueues DEF Inv, Typed

\* relation-joined creates users, or leaves them.
LEMMA JoinedKeeps ==
  ASSUME Inv, NEW u \in Units, NEW c \in Clients,
         \/ JoinedIgnored(u, c) \/ JoinedWaits(u, c) \/ JoinedCreates(u, c)
         \/ JoinedFails(u, c) \/ JoinedRaises(u, c)
  PROVE  Inv' /\ UsersKept
<1>1. NextPassword(u, c) \in Nat /\ NextPassword(u, c) # None
  BY NextPasswordIs, LegacyAssumption
<1>2. UsersKept
  <2>1. users' \in {users, [users EXCEPT ![c] = NextPassword(u, c)]}
    BY DEF JoinedIgnored, JoinedWaits, JoinedCreates, JoinedFails, JoinedRaises, backend
  <2> QED BY <1>1, <2>1 DEF UsersKept, Inv, Typed, Password
<1>3. CASE JoinedCreates(u, c) \/ JoinedFails(u, c)
  <2>1. Publishes(u, c)
    BY <1>3 DEF JoinedCreates, JoinedFails
  <2> QED BY <1>2, <2>1, PublishesKeeps, HookKeeps DEF UsersKept
<1>4. CASE JoinedIgnored(u, c)
  BY <1>2, <1>4, DoneKeepsQueues, HookKeeps
     DEF JoinedIgnored, units, databags, backend, UsersKept, AppbagKept, Inv, Typed
<1>5. CASE JoinedWaits(u, c) \/ JoinedRaises(u, c)
  <2>1. UNCHANGED <<related, flagged, pending, bag, appbag>> /\ passwords' \in Nat
    BY <1>5 DEF JoinedWaits, JoinedRaises, units, databags, backend, Inv, Typed
  <2>2. QueuesKept /\ AppbagKept
    BY <2>1 DEF QueuesKept, AppbagKept, Inv, Typed
  <2> QED BY <1>2, <2>1, <2>2, HookKeeps DEF UsersKept, Inv, Typed
<1> QED BY <1>2, <1>3, <1>4, <1>5

\* relation-changed publishes what the databag of the unit has.
LEMMA ChangedKeeps ==
  ASSUME Inv, NEW u \in Units, NEW c \in Clients, Changed(u, c)
  PROVE  Inv' /\ UsersKept
<1>1. /\ bag[u][c] # None /\ appbag' \in {appbag, [appbag EXCEPT ![c] = bag[u][c]]}
      /\ Done(u, "changed", c) /\ UNCHANGED <<related, flagged, bag, users, passwords>>
  BY DEF Changed, units, backend
<1>2. AppbagKept /\ UsersKept
  BY <1>1 DEF AppbagKept, UsersKept, Inv, Typed
<1> QED BY <1>1, <1>2, DoneKeepsQueues, HookKeeps DEF Inv, Typed

\* The flag takes the place of the departed.
LEMMA DepartedKeeps ==
  ASSUME Inv, NEW u \in Units, NEW c \in Clients, Departed(u, c)
  PROVE  Inv' /\ UsersKept
<1>1. /\ flagged' = [flagged EXCEPT ![u] = @ \union {c}] /\ Done(u, "departed", c)
      /\ UNCHANGED <<related, bag, appbag, users, passwords>>
  BY DEF Departed, databags, backend
<1>2. /\ pending' \in [Units -> SUBSET Events] /\ pending'[u] = pending[u] \ {<<"departed", c>>}
      /\ \A v \in Units \ {u} : pending'[v] = pending[v]
  BY <1>1 DEF Done, Inv, Typed
<1>3. /\ flagged' \in [Units -> SUBSET Clients] /\ flagged'[u] = flagged[u] \union {c}
      /\ \A v \in Units \ {u} : flagged'[v] = flagged[v]
  BY <1>1 DEF Inv, Typed
<1>4. Typed' /\ UsersKept
  BY <1>1, <1>2, <1>3 DEF Inv, Typed, UsersKept
<1>5. BrokenLeaves'
  BY <1>1, <1>2, <1>3 DEF Inv, BrokenLeaves
<1>6. BrokenPublished'
  BY <1>1, <1>2 DEF Inv, BrokenPublished
<1> QED BY <1>1, <1>4, <1>5, <1>6 DEF Inv

\* relation-broken on a unit without the flag: the client has gone.
LEMMA BrokenKeeps ==
  ASSUME Inv, NEW u \in Units, NEW c \in Clients, Broken(u, c) \/ BrokenIgnored(u, c)
  PROVE  Inv' /\ \A d \in related : users[d] # None => users'[d] # None
<1>1. /\ Done(u, "broken", c) /\ UNCHANGED <<related, flagged, bag, appbag, passwords>>
      /\ \/ users' = users
         \/ c \notin related /\ users' = [users EXCEPT ![c] = None]
  BY DEF Broken, BrokenIgnored, Breaking, units, databags, backend, Inv, BrokenLeaves
<1>2. users' \in [Clients -> Password]
  BY <1>1 DEF Inv, Typed, Password
<1>3. AppbagKept
  BY <1>1 DEF AppbagKept, Inv, Typed
<1> QED BY <1>1, <1>2, <1>3, DoneKeepsQueues, HookKeeps DEF Inv, Typed

\* A relation-broken that is deferred disturbs nothing: nobody looks at it again.
LEMMA LateKeeps ==
  ASSUME Inv, NEW u \in Units, NEW c \in Clients, BrokenLate(u, c)
  PROVE  Inv' /\ UsersKept
<1>1. /\ pending' = [pending EXCEPT ![u] = (@ \ {<<"broken", c>>}) \union {<<"late", c>>}]
      /\ UNCHANGED <<related, flagged, bag, appbag, users, passwords>>
  BY DEF BrokenLate, units, databags, backend
<1>2. <<"late", c>> \in Events
  BY DEF Events
<1>3. pending' \in [Units -> SUBSET Events]
  BY <1>1, <1>2 DEF Inv, Typed
<1>4. QueuesKept
  BY <1>1, <1>3 DEF QueuesKept, Inv, Typed
<1>5. AppbagKept /\ UsersKept
  BY <1>1 DEF AppbagKept, UsersKept, Inv, Typed
<1> QED BY <1>1, <1>4, <1>5, HookKeeps DEF Inv, Typed

\* The steps that are no hooks of a relation leave users, credentials and flags.
LEMMA EnvironmentKeeps ==
  ASSUME Inv, Environment
  PROVE  Inv' /\ UsersKept
<1>1. UNCHANGED <<bag, appbag, users, passwords, flagged>>
  BY DEF Environment, Relate, Remove, Leave, Gone, Elect, Outage, Recover, Renders, units, databags,
         backend
<1>2. UsersKept
  BY <1>1 DEF UsersKept, Inv, Typed
<1>3. ASSUME NEW c \in Clients, Relate(c) PROVE Inv'
  <2>1. /\ c \notin related /\ appbag[c] = None /\ related' = related \union {c}
        /\ pending' = Queued(members, {<<"joined", c>>, <<"changed", c>>})
    BY <1>3 DEF Relate
  <2>2. QueuesKept
    BY <2>1 DEF Queued, QueuesKept, Events, Inv, Typed
  <2>3. \A u \in Units : <<"broken", c>> \notin pending[u]
    BY <2>1 DEF Inv, BrokenPublished
  <2>4. Typed'
    BY <1>1, <2>2 DEF Inv, Typed, QueuesKept
  <2>5. BrokenLeaves'
    BY <1>1, <2>1, <2>2, <2>3 DEF Inv, BrokenLeaves, QueuesKept
  <2>6. BrokenPublished'
    BY <1>1, <2>1, <2>2 DEF Inv, BrokenPublished, QueuesKept
  <2> QED BY <2>1, <2>4, <2>5, <2>6 DEF Inv
<1>4. ASSUME NEW c \in Clients, Remove(c) PROVE Inv'
  <2>1. /\ appbag[c] # None /\ related' = related \ {c}
        /\ pending' = Queued(members, {<<"broken", c>>})
    BY <1>4 DEF Remove
  <2>2. pending' \in [Units -> SUBSET Events]
    BY <2>1 DEF Queued, Events, Inv, Typed
  <2>3. \A u \in Units, d \in Clients :
          /\ <<"broken", d>> \in pending'[u] => d = c \/ <<"broken", d>> \in pending[u]
          /\ <<"departed", d>> \in pending[u] => <<"departed", d>> \in pending'[u]
    BY <2>1 DEF Queued, Inv, Typed
  <2>4. BrokenLeaves'
    BY <1>1, <2>1, <2>3 DEF Inv, BrokenLeaves
  <2>5. BrokenPublished'
    BY <1>1, <2>1, <2>3 DEF Inv, BrokenPublished
  <2> QED BY <1>1, <2>1, <2>2, <2>4, <2>5 DEF Inv, Typed
<1>5. ASSUME NEW u \in Units, Leave(u) PROVE Inv'
  <2>1. pending' = Queued({u}, {"departed", "broken"} \X related) /\ UNCHANGED related
    BY <1>5 DEF Leave
  <2>2. pending' \in [Units -> SUBSET Events]
    BY <2>1 DEF Queued, Events, Inv, Typed
  <2>3. /\ \A v \in Units, d \in Clients :
             <<"departed", d>> \in pending[v] => <<"departed", d>> \in pending'[v]
        /\ \A d \in related : <<"departed", d>> \in pending'[u]
        /\ \A v \in Units \ {u} : pending'[v] = pending[v]
        /\ \A d \in Clients \ related :
             <<"broken", d>> \in pending'[u] => <<"broken", d>> \in pending[u]
    BY <2>1 DEF Queued, Inv, Typed
  <2>4. BrokenLeaves'
    BY <1>1, <2>1, <2>3 DEF Inv, BrokenLeaves
  <2>5. BrokenPublished'
    BY <1>1, <2>1, <2>3 DEF Inv, BrokenPublished
  <2> QED BY <1>1, <2>1, <2>2, <2>4, <2>5 DEF Inv, Typed
<1>6. ASSUME NEW u \in Units, Gone(u) PROVE Inv'
  <2>1. pending' = [pending EXCEPT ![u] = {}] /\ UNCHANGED related
    BY <1>6 DEF Gone
  <2> QED BY <1>1, <2>1 DEF Inv, Typed, BrokenLeaves, BrokenPublished
<1>7. ASSUME Outage \/ Recover \/ \E u \in Units : Elect(u) \/ Renders(u)
      PROVE  Inv'
  <2>1. UNCHANGED <<related, pending>>
    BY <1>7 DEF Outage, Recover, Elect, Renders
  <2> QED BY <1>1, <2>1 DEF Inv, Typed, BrokenLeaves, BrokenPublished
<1> QED BY <1>2, <1>3, <1>4, <1>5, <1>6, <1>7 DEF Environment

\* Every step keeps the invariant, and the users of the clients that are related.
LEMMA StepKeeps ==
  ASSUME Inv, [Next]_vars
  PROVE  Inv' /\ \A c \in related : users[c] # None => users'[c] # None
<1> USE DEF UsersKept
<1>1. CASE Environment
  BY <1>1, EnvironmentKeeps DEF Inv
<1>2. ASSUME NEW u \in Units, NEW c \in Clients, Hooks(u, c)
      PROVE  Inv' /\ \A d \in related : users[d] # None => users'[d] # None
  BY <1>2, JoinedKeeps, ChangedKeeps, DepartedKeeps, LateKeeps, BrokenKeeps DEF Hooks, Inv
<1>3. CASE (\E u \in Units : UpdateStatus(u) \/ PeersChanged(u)) \/ UNCHANGED vars
  <2>1. UNCHANGED <<related, flagged, pending, bag, appbag, users, passwords>>
    BY <1>3 DEF UpdateStatus, PeersChanged, vars, units, databags, backend
  <2> QED BY <2>1 DEF Inv, Typed, BrokenLeaves, BrokenPublished
<1> QED BY <1>1, <1>2, <1>3 DEF Next

\* The invariant holds at first and in every state after.
THEOREM InvHolds == Spec => []Inv
<1>1. Init => Inv
  BY LegacyAssumption DEF Init, Inv, Typed, BrokenLeaves, BrokenPublished, Password
<1> QED BY <1>1, StepKeeps, PTL DEF Spec

\* As long as a client is related its user stays: no unit that leaves deletes it, whichever
\* leads and however its events come (db.py:422-427, 456-457).
THEOREM ScaleDownKeepsUsers == Spec => LiveUserKept
<1>1. Inv /\ [Next]_vars => [\A c \in related : users[c] # None => users'[c] # None]_vars
  BY StepKeeps
<1> QED BY <1>1, InvHolds, PTL DEF Spec, LiveUserKept
----------------------------------------------------------------------------
(* Credentials and routes *)

Shapes ==
  /\ leader \in members \intersect led /\ members \subseteq Units /\ dbs \subseteq Clients
  /\ acks \in [Units -> SUBSET Clients] /\ rendered \in [Units -> SUBSET Clients]
  /\ spent \in [Disturbances -> Nat]

\* As long as nobody else has led, the databag of the application is a copy of the leader's.
OneLeader ==
  led = {leader} =>
    /\ spent["elections"] = 0
    /\ \A c \in Clients : bag[leader][c] = appbag[c]
    /\ \A u \in Units \ {leader}, c \in Clients : bag[u][c] = None

\* A unit that leads after one that has left has no credentials but those it publishes.
OwnBag ==
  spent["elections"] = 0 =>
    \A u \in members, c \in Clients : bag[u][c] # None => u = leader /\ appbag[c] = bag[u][c]

PublishedWork ==
  LeadersApart /\ spent["refusals"] = 0 =>
    \A c \in Clients : appbag[c] # None => users[c] \in {appbag[c], None}

Published == {c \in related : appbag[c] # None}

\* The leader generates the databases with all that is published.
PublishedAreSet == led = {leader} => Published \subseteq dbs

\* What the others have acknowledged they have rendered, and all that is published is in it.
PublishedAreAcked ==
  led = {leader} /\ spent["renders"] = 0 =>
    \A u \in members \ {leader} : Published \subseteq acks[u] /\ rendered[u] = acks[u]

Whole ==
  /\ Inv /\ Shapes /\ OneLeader /\ OwnBag /\ PublishedWork
  /\ PublishedAreSet /\ PublishedAreAcked

\* A disturbance adds to its own count.
LEMMA SpentOne ==
  ASSUME Shapes, NEW d \in Disturbances, Spend(d)
  PROVE  /\ spent' \in [Disturbances -> Nat] /\ spent'[d] # 0
         /\ \A x \in Disturbances \ {d} : spent'[x] = spent[x]
BY DEF Shapes, Spend

\* Most steps touch neither credentials nor databases.
Quiet ==
  /\ UNCHANGED <<leader, led, members, bag, appbag, users, dbs, acks, rendered>>
  /\ related' \subseteq Clients /\ Published' \subseteq Published
  /\ spent' \in [Disturbances -> Nat]
  /\ \A d \in Disturbances \ {"overlaps", "removals", "leaves", "outages"} : spent'[d] = spent[d]

LEMMA QuietKeeps ==
  ASSUME Whole, Inv', Quiet
  PROVE  Whole'
<1>1. \A d \in {"elections", "failures", "refusals", "renders"} : spent'[d] = spent[d]
  BY DEF Quiet, Disturbances
<1>2. Shapes' /\ OneLeader' /\ OwnBag'
  BY <1>1 DEF Quiet, Whole, Shapes, OneLeader, OwnBag
<1>3. PublishedWork'
  BY <1>1 DEF Quiet, Whole, PublishedWork, LeadersApart
<1>4. PublishedAreSet' /\ PublishedAreAcked'
  BY <1>1 DEF Quiet, Whole, PublishedAreSet, PublishedAreAcked
<1> QED BY <1>2, <1>3, <1>4 DEF Whole

LEMMA QuietSteps ==
  ASSUME Whole,
         \/ Outage \/ Recover
         \/ \E c \in Clients : Relate(c) \/ Remove(c)
         \/ \E u \in Units :
              \/ Leave(u) \/ UpdateStatus(u)
              \/ \E c \in Clients :
                   \/ JoinedIgnored(u, c) \/ Departed(u, c)
                   \/ BrokenIgnored(u, c) \/ BrokenLate(u, c)
  PROVE  Quiet
<1>1. /\ UNCHANGED <<leader, led, members, bag, appbag, users, dbs, acks, rendered>>
      /\ \/ spent' = spent
         \/ \E d \in {"overlaps", "removals", "leaves", "outages"} : Spend(d)
  BY DEF Outage, Recover, Relate, Remove, Leave, UpdateStatus, JoinedIgnored, Departed,
         BrokenIgnored, BrokenLate, units, databags, backend, routes
<1>2. /\ spent' \in [Disturbances -> Nat]
      /\ \A d \in Disturbances \ {"overlaps", "removals", "leaves", "outages"} :
           spent'[d] = spent[d]
  <2>1. CASE spent' = spent
    BY <2>1 DEF Whole, Shapes
  <2>2. ASSUME NEW d \in {"overlaps", "removals", "leaves", "outages"}, Spend(d)
        PROVE  /\ spent' \in [Disturbances -> Nat]
               /\ \A x \in Disturbances \ {"overlaps", "removals", "leaves", "outages"} :
                    spent'[x] = spent[x]
    BY <2>2, SpentOne DEF Whole, Disturbances
  <2> QED BY <1>1, <2>1, <2>2
<1>3. \/ related' \subseteq related
      \/ \E c \in Clients : appbag[c] = None /\ related' = related \union {c}
  BY DEF Outage, Recover, Relate, Remove, Leave, UpdateStatus, JoinedIgnored, Departed,
         BrokenIgnored, BrokenLate
<1>4. related' \subseteq Clients /\ Published' \subseteq Published
  BY <1>1, <1>3 DEF Published, Whole, Inv
<1> QED BY <1>1, <1>2, <1>4 DEF Quiet

\* What the leader generates, before anybody else has led.
LEMMA GeneratedIs ==
  ASSUME Whole, led = {leader}
  PROVE  Generated(leader) = Published
BY DEF Whole, OneLeader, Generated, Published, Inv

LEMMA WaitsKeeps ==
  ASSUME Whole, Inv', NEW u \in Units, NEW c \in Clients, JoinedWaits(u, c)
  PROVE  Whole'
<1>1. /\ u = leader /\ dbs' = Generated(u) \union {c}
      /\ UNCHANGED <<leader, led, members, related, bag, appbag, users, acks, rendered, spent>>
  BY DEF JoinedWaits, Joining, SetDatabases, units, databags, backend
<1>2. Shapes'
  BY <1>1 DEF Whole, Inv, Shapes, Generated
<1>3. OneLeader' /\ OwnBag' /\ PublishedWork' /\ PublishedAreAcked'
  BY <1>1 DEF Whole, OneLeader, OwnBag, PublishedWork, LeadersApart, PublishedAreAcked, Published
<1>4. PublishedAreSet'
  BY <1>1, GeneratedIs DEF PublishedAreSet, Published
<1> QED BY <1>2, <1>3, <1>4 DEF Whole

\* The one step that adds to what is published: the others have all of it.
LEMMA PublishesAlone ==
  ASSUME Whole, Inv', NEW u \in Units, NEW c \in Clients, Publishes(u, c),
         \/ users' = [users EXCEPT ![c] = NextPassword(u, c)] /\ spent' = spent
         \/ JoinedFails(u, c)
  PROVE  Whole'
<1>1. NextPassword(u, c) \in Nat /\ NextPassword(u, c) # None
  BY NextPasswordIs, LegacyAssumption DEF Whole
<1>2. /\ u = leader /\ dbs' = Generated(u) \union {c}
      /\ \A v \in members \ {u} : acks[v] = Generated(u) \union {c}
      /\ bag' = [bag EXCEPT ![u][c] = NextPassword(u, c)]
      /\ appbag' = [appbag EXCEPT ![c] = NextPassword(u, c)]
      /\ UNCHANGED <<leader, led, members, related, acks, rendered>>
  BY DEF Publishes, Joining, Synced, SetDatabases, units
<1>3. /\ appbag'[c] = NextPassword(u, c) /\ bag'[u][c] = NextPassword(u, c)
      /\ \A d \in Clients \ {c} : appbag'[d] = appbag[d] /\ bag'[u][d] = bag[u][d]
      /\ \A v \in Units \ {u} : bag'[v] = bag[v]
  BY <1>2 DEF Whole, Inv, Typed
<1>4. /\ spent' \in [Disturbances -> Nat]
      /\ \A x \in {"elections", "failures", "renders"} : spent'[x] = spent[x]
      /\ spent'["refusals"] = 0 =>
           spent["refusals"] = 0 /\ users' = [users EXCEPT ![c] = NextPassword(u, c)]
  <2>1. CASE spent' = spent /\ users' = [users EXCEPT ![c] = NextPassword(u, c)]
    BY <2>1 DEF Whole, Shapes
  <2>2. CASE JoinedFails(u, c)
    BY <2>2, SpentOne DEF JoinedFails, Disturbances, Whole
  <2> QED BY <2>1, <2>2
<1>5. Shapes'
  BY <1>2, <1>4 DEF Whole, Inv, Shapes, Generated
<1>6. OneLeader'
  BY <1>2, <1>3, <1>4 DEF Whole, OneLeader
<1>7. OwnBag'
  BY <1>2, <1>3, <1>4 DEF Whole, OwnBag, Shapes
<1>8. PublishedWork'
  <2> SUFFICES ASSUME LeadersApart', spent'["refusals"] = 0, NEW d \in Clients, appbag'[d] # None
               PROVE  users'[d] \in {appbag'[d], None}
    BY DEF PublishedWork
  <2>1. LeadersApart /\ spent["refusals"] = 0
    BY <1>2, <1>4 DEF LeadersApart
  <2>2. users'[c] = NextPassword(u, c) /\ (d # c => users'[d] = users[d])
    BY <1>4 DEF Whole, Inv, Typed
  <2>3. appbag[d] # None => users[d] \in {appbag[d], None}
    BY <2>1 DEF Whole, PublishedWork
  <2> QED BY <1>3, <2>2, <2>3
<1>9. Published' \subseteq Published \union {c}
  BY <1>2, <1>3 DEF Published, Whole, Inv
<1>10. PublishedAreSet'
  BY <1>2, <1>9, GeneratedIs DEF PublishedAreSet
<1>11. PublishedAreAcked'
  BY <1>2, <1>4, <1>9, GeneratedIs DEF Whole, PublishedAreAcked
<1> QED BY <1>5, <1>6, <1>7, <1>8, <1>10, <1>11 DEF Whole

\* The hook runs again with the password in the databag, or with none published.
LEMMA RaisesKeeps ==
  ASSUME Whole, Inv', NEW u \in Units, NEW c \in Clients, JoinedRaises(u, c)
  PROVE  Whole'
<1>1. /\ u = leader /\ Spend("failures") /\ users' = [users EXCEPT ![c] = NextPassword(u, c)]
      /\ UNCHANGED <<leader, led, members, related, bag, appbag, dbs, acks, rendered>>
  BY DEF JoinedRaises, Joining, units, databags, routes
<1>2. /\ spent' \in [Disturbances -> Nat] /\ spent'["failures"] # 0
      /\ \A x \in {"elections", "refusals", "renders"} : spent'[x] = spent[x]
  BY <1>1, SpentOne DEF Disturbances, Whole
<1>3. Shapes' /\ OneLeader' /\ OwnBag' /\ PublishedAreSet' /\ PublishedAreAcked'
  BY <1>1, <1>2 DEF Whole, Shapes, OneLeader, OwnBag, PublishedAreSet, PublishedAreAcked, Published
<1>4. PublishedWork'
  <2> SUFFICES ASSUME LeadersApart', spent'["refusals"] = 0, NEW d \in Clients, appbag'[d] # None
               PROVE  users'[d] \in {appbag'[d], None}
    BY DEF PublishedWork
  <2>1. led = {leader}
    BY <1>1, <1>2 DEF LeadersApart, Disturbances
  <2>2. users'[c] = NextPassword(u, c) /\ (d # c => users'[d] = users[d])
    BY <1>1 DEF Whole, Inv, Typed
  <2>3. users[d] \in {appbag[d], None} /\ bag[u][d] = appbag[d]
    BY <1>1, <1>2, <2>1 DEF Whole, PublishedWork, LeadersApart, OneLeader
  <2> QED BY <1>1, <2>2, <2>3 DEF NextPassword
<1> QED BY <1>3, <1>4 DEF Whole

\* relation-changed publishes again what is published.
LEMMA ChangedAgain ==
  ASSUME Whole, Inv', NEW u \in Units, NEW c \in Clients, Changed(u, c)
  PROVE  Whole'
<1>1. /\ bag[u][c] # None /\ rendered' = [rendered EXCEPT ![u] = dbs]
      /\ appbag' = IF u = leader THEN [appbag EXCEPT ![c] = bag[u][c]] ELSE appbag
      /\ UNCHANGED <<leader, led, members, related, bag, users, dbs, acks, spent>>
  BY DEF Changed, units, backend
<1>2. spent["elections"] = 0 => appbag' = appbag
  BY <1>1 DEF Whole, OwnBag, Shapes, Inv, Typed
<1>3. led = {leader} => u = leader
  BY <1>1 DEF Whole, OneLeader
<1>4. Shapes'
  <2>1. rendered' \in [Units -> SUBSET Clients]
    BY <1>1 DEF Whole, Shapes
  <2> QED BY <1>1, <2>1 DEF Whole, Shapes
<1>5. OneLeader' /\ OwnBag'
  BY <1>1, <1>2 DEF Whole, OneLeader, OwnBag
<1>6. LeadersApart => spent["elections"] = 0
  BY DEF LeadersApart, Whole, OneLeader, Shapes, Disturbances
<1>7. PublishedWork'
  BY <1>1, <1>2, <1>6 DEF Whole, PublishedWork, LeadersApart
<1>8. led = {leader} => Published' = Published
  BY <1>1, <1>2 DEF Whole, OneLeader, Published
<1>9. PublishedAreSet' /\ PublishedAreAcked'
  BY <1>1, <1>3, <1>8 DEF Whole, PublishedAreSet, PublishedAreAcked, Shapes
<1> QED BY <1>4, <1>5, <1>7, <1>9 DEF Whole

\* What is taken away is not related any more.
LEMMA BrokenAgain ==
  ASSUME Whole, Inv', NEW u \in Units, NEW c \in Clients, Broken(u, c)
  PROVE  Whole'
<1>1. /\ c \notin related /\ dbs' = dbs \ {c} /\ users' = [users EXCEPT ![c] = None]
      /\ UNCHANGED <<leader, led, members, related, bag, appbag, acks, rendered, spent>>
  BY DEF Broken, Breaking, SetDatabases, units, databags, Whole, Inv, BrokenLeaves
<1>2. Shapes' /\ OneLeader' /\ OwnBag' /\ PublishedAreAcked'
  BY <1>1 DEF Whole, Shapes, OneLeader, OwnBag, PublishedAreAcked, Published
<1>3. PublishedWork'
  <2>1. users'[c] = None /\ \A d \in Clients \ {c} : users'[d] = users[d]
    BY <1>1 DEF Whole, Inv, Typed
  <2> QED BY <1>1, <2>1 DEF Whole, PublishedWork, LeadersApart
<1>4. PublishedAreSet'
  BY <1>1 DEF Whole, PublishedAreSet, Published
<1> QED BY <1>2, <1>3, <1>4 DEF Whole

\* peer-relation-changed acknowledges what it renders.
LEMMA RendersKeep ==
  ASSUME Whole, Inv', NEW u \in Units, PeersChanged(u) \/ Renders(u)
  PROVE  Whole'
<1>1. /\ rendered' = [rendered EXCEPT ![u] = dbs]
      /\ UNCHANGED <<leader, led, members, related, bag, appbag, users, dbs>>
  BY DEF PeersChanged, Renders, units, databags, backend
<1>2. /\ spent' \in [Disturbances -> Nat]
      /\ \A x \in {"elections", "failures", "refusals"} : spent'[x] = spent[x]
      /\ spent'["renders"] = 0 => spent["renders"] = 0 /\ acks' = [acks EXCEPT ![u] = dbs]
  <2>1. CASE PeersChanged(u)
    BY <2>1 DEF PeersChanged, Whole, Shapes
  <2>2. CASE Renders(u)
    BY <2>2, SpentOne DEF Renders, Disturbances, Whole
  <2> QED BY <2>1, <2>2
<1>3. Shapes'
  <2>1. acks' \in {acks, [acks EXCEPT ![u] = dbs]}
    BY DEF PeersChanged, Renders
  <2> QED BY <1>1, <1>2, <2>1 DEF Whole, Shapes
<1>4. OneLeader' /\ OwnBag' /\ PublishedAreSet'
  BY <1>1, <1>2 DEF Whole, OneLeader, OwnBag, PublishedAreSet, Published
<1>5. PublishedWork'
  BY <1>1, <1>2 DEF Whole, PublishedWork, LeadersApart
<1>6. PublishedAreAcked'
  BY <1>1, <1>2 DEF Whole, PublishedAreAcked, PublishedAreSet, Published, Shapes
<1> QED BY <1>3, <1>4, <1>5, <1>6 DEF Whole

\* Who leads after the first leader is known to have led; who leads after one that has left has
\* nothing in its databag.
LEMMA MembersKeep ==
  ASSUME Whole, Inv', NEW u \in Units, Gone(u) \/ Elect(u)
  PROVE  Whole'
<1>1. UNCHANGED <<related, bag, appbag, users, dbs, acks, rendered>>
  BY DEF Gone, Elect, databags, backend, routes
<1>2. CASE Gone(u)
  <2>1. /\ u \in members /\ members' = members \ {u} /\ led' = led \union {leader'}
        /\ leader' \in IF leader = u THEN members \ {u} ELSE {leader}
        /\ spent' = spent
    BY <1>2 DEF Gone
  <2>2. led' = {leader'} => led = {leader} /\ leader' = leader
    BY <2>1 DEF Whole, Shapes
  <2>3. Shapes' /\ OneLeader'
    BY <1>1, <2>1, <2>2 DEF Whole, Shapes, OneLeader
  <2>4. OwnBag'
    BY <1>1, <2>1 DEF Whole, OwnBag
  <2>5. PublishedWork'
    BY <1>1, <2>1, <2>2 DEF Whole, PublishedWork, LeadersApart
  <2>6. PublishedAreSet' /\ PublishedAreAcked'
    BY <1>1, <2>1, <2>2 DEF Whole, PublishedAreSet, PublishedAreAcked, Published
  <2> QED BY <2>3, <2>4, <2>5, <2>6 DEF Whole
<1>3. CASE Elect(u)
  <2>1. /\ u \in members \ {leader} /\ leader' = u /\ led' = led \union {u} /\ members' = members
        /\ Spend("elections")
    BY <1>3 DEF Elect
  <2>2. spent' \in [Disturbances -> Nat] /\ spent'["elections"] # 0
    BY <2>1, SpentOne DEF Whole, Disturbances
  <2>3. led' # {leader'}
    BY <2>1 DEF Whole, Shapes
  <2>4. Shapes'
    BY <1>1, <2>1, <2>2 DEF Whole, Shapes
  <2>5. ~LeadersApart'
    BY <2>2, <2>3 DEF LeadersApart, Disturbances
  <2> QED BY <2>2, <2>3, <2>4, <2>5
          DEF Whole, OneLeader, OwnBag, PublishedWork, PublishedAreSet, PublishedAreAcked
<1> QED BY <1>2, <1>3

THEOREM WholeHolds == Spec => []Whole
<1>1. Init => Whole
  <2> SUFFICES ASSUME Init PROVE Whole
    OBVIOUS
  <2>1. Inv
    BY LegacyAssumption DEF Init, Inv, Typed, BrokenLeaves, BrokenPublished, Password
  <2>2. Shapes
    BY DEF Init, Shapes
  <2>3. OneLeader /\ OwnBag /\ PublishedWork /\ PublishedAreSet /\ PublishedAreAcked
    BY DEF Init, OneLeader, OwnBag, PublishedWork, PublishedAreSet, PublishedAreAcked, Published,
           Disturbances
  <2> QED BY <2>1, <2>2, <2>3 DEF Whole
<1>2. Whole /\ [Next]_vars => Whole'
  <2> SUFFICES ASSUME Whole, [Next]_vars PROVE Whole'
    OBVIOUS
  <2>1. Inv'
    BY StepKeeps DEF Whole
  <2>2. CASE Environment
    BY <2>1, <2>2, QuietSteps, QuietKeeps, RendersKeep, MembersKeep DEF Environment
  <2>3. ASSUME NEW u \in Units, UpdateStatus(u) \/ PeersChanged(u) PROVE Whole'
    BY <2>1, <2>3, QuietSteps, QuietKeeps, RendersKeep
  <2>4. ASSUME NEW u \in Units, NEW c \in Clients, Hooks(u, c) PROVE Whole'
    <3>1. CASE \/ JoinedIgnored(u, c) \/ Departed(u, c)
               \/ BrokenIgnored(u, c) \/ BrokenLate(u, c)
      BY <2>1, <3>1, QuietSteps, QuietKeeps
    <3>2. CASE JoinedCreates(u, c) \/ JoinedFails(u, c)
      BY <2>1, <3>2, PublishesAlone DEF JoinedCreates, JoinedFails
    <3> QED BY <2>1, <2>4, <3>1, <3>2, WaitsKeeps, RaisesKeeps, ChangedAgain, BrokenAgain DEF Hooks
  <2>5. CASE UNCHANGED vars
    BY <2>1, <2>5 DEF vars, units, databags, backend, routes, Whole, Shapes, OneLeader, OwnBag,
                      PublishedWork, LeadersApart, PublishedAreSet, PublishedAreAcked, Published
  <2> QED BY <2>2, <2>3, <2>4, <2>5 DEF Next
<1> QED BY <1>1, <1>2, PTL DEF Spec

\* While the first leader leads, every other unit has rendered all the databases whose credentials
\* are published (db.py:242-260).
THEOREM PublishedRoutesStay == Spec => []PublishedIsRouted
<1>1. Whole => PublishedIsRouted
  BY DEF Whole, PublishedAreAcked, Published, PublishedIsRouted
<1> QED BY <1>1, WholeHolds, PTL

\* The password that is published is that of the user, through hooks that fail and run again and
\* leaders that leave (db.py:262-304).
THEOREM PublishedPasswordWorks == Spec => []PasswordWorks
<1>1. Whole => PasswordWorks
  BY DEF Whole, Inv, PublishedWork, PasswordWorks
<1> QED BY <1>1, WholeHolds, PTL
=============================================================================
