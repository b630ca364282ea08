---------------------------- MODULE Routing_proofs ----------------------------
(***************************************************************************)
(* Theorems about the routes of ClientRelations: a client with credentials *)
(* finds its database in the pgbouncer.ini of every running unit, whatever *)
(* is related, removed, elected, restarted, scaled down or fails meanwhile.*)
(*                                                                         *)
(* Two things that the code does not survive are assumed away, and named:  *)
(* scale-down of the leader, and an unreachable PostgreSQL together with   *)
(* an invalid juju configuration (see the README, divergences).            *)
(***************************************************************************)
EXTENDS ClientRelations_proofs

\* In no behaviour are there both outages and an invalid configuration.
ApartBudgets == \A b \in Budgets : b["misconfigs"] = 0 \/ b["outages"] = 0

\* The leader is not being scaled down.
LeaderStays == leader \in members \ leaving

\* At most one of PostgreSQL and the configuration is ever in trouble.
TroubleApart ==
  /\ spent["misconfigs"] = 0 \/ spent["outages"] = 0
  /\ ~configOK => spent["misconfigs"] > 0
  /\ backend # "ready" => spent["outages"] > 0

\* Nothing is buffered between hooks.
Flushed ==
  /\ ~InHook(leader) => buf = app
  /\ \A u \in Units : ~InHook(u) => hook[u].bag = bag[u]

\* A living relation exists for every unit that stays, and no unit has heard of the end of
\* a relation before it began.
Bound ==
  \A u \in Units, r \in Relations :
    /\ Alive(r) /\ u \in members \ leaving => r \in bound[u]
    /\ client[r] = "none" => r \notin bound[u]
    /\ (client[r] = "none" \/ (Alive(r) /\ u \in members \ leaving)) =>
         Ev("relation_broken", r) \notin pending[u] /\ hook[u].ev # Ev("relation_broken", r)

\* Nothing is configured, acknowledged or granted before its relation.
Unforeseen ==
  \A r \in Relations : client[r] = "none" =>
    /\ ~Routes(app.cfg, r) /\ ~Routes(buf.cfg, r)
    /\ r \notin app.cred /\ r \notin buf.cred
    /\ \A u \in Units : ~Routes(bag[u].ack, r) /\ ~Routes(hook[u].bag.ack, r)

\* What is committed is still there in the leader's hook; what a unit acknowledges, in its
\* hook or for all to see, is there in what it reads and in what it runs with.
EntriesKept ==
  \A r \in Relations : Alive(r) =>
    /\ Routes(app.cfg, r) => Routes(buf.cfg, r)
    /\ \A u \in Units :
         /\ Routes(bag[u].ack, r) => Routes(app.cfg, r)
         /\ Routes(hook[u].bag.ack, r) => Routes(ViewCfg(u), r)
AcksRendered ==
  \A r \in Relations, u \in members \ leaving :
    Alive(r) /\ ready[u] /\ (Routes(bag[u].ack, r) \/ Routes(hook[u].bag.ack, r)) =>
      Routes(ini[u], r)

\* Who has credentials, or gets them when the leader's hook ends, is in all that a unit may
\* render, and in what the running units have rendered.
CredsRouted ==
  /\ app.cred \subseteq buf.cred
  /\ \A r \in Relations : Alive(r) =>
       /\ r \in app.cred => Routes(app.cfg, r)
       /\ r \in buf.cred =>
            \A u \in members \ leaving :
              Routes(ViewCfg(u), r) /\ (ready[u] => Routes(ini[u], r))

Standing == LeaderStays /\ TroubleApart /\ Flushed /\ Bound
Entries == Unforeseen /\ EntriesKept /\ AcksRendered /\ CredsRouted
Routing == Standing /\ Entries

----------------------------------------------------------------------------
(* What every handler leaves alone *)

\* A handler changes the hook of its unit only, and what it may write to; unless it fails,
\* the hook goes on with the same event.
LEMMA HandlerFrame ==
  ASSUME TypeOK, NEW u \in Units, Handle(u)
  PROVE  /\ InHook(u)
         /\ UNCHANGED <<leader, members, leaving, client, bound>>
         /\ UNCHANGED <<backend, configOK, app, bag, deferred>>
         /\ RequestFails(u) \/ UNCHANGED spent
         /\ \A v \in Units \ {u} : hook'[v] = hook[v]
         /\ Discard(u) \/ (hook'[u].ev = hook[u].ev /\ UNCHANGED pending)
<1>0. hook \in [Units -> Hook]
  BY DEF TypeOK
<1>1. ASSUME hook' = [hook EXCEPT ![u] = Handled(@)] \/ hook' = [hook EXCEPT ![u] = Kept(@)]
      PROVE  hook'[u].ev = hook[u].ev /\ \A v \in Units \ {u} : hook'[v] = hook[v]
  BY <1>0, <1>1 DEF Handled, Kept, Hook
<1>2. CASE \/ UpdateStatus(u) \/ ConfigChanged(u) \/ PeersUnready(u) \/ DropRequest(u)
           \/ AwaitBackend(u) \/ AwaitPeers(u) \/ Grant(u) \/ Refuse(u) \/ RequestFails(u)
           \/ IgnoreBroken(u) \/ Revoke(u)
  <2>1. Finish(u) \/ Defer(u)
    BY <1>2 DEF UpdateStatus, ConfigChanged, PeersUnready, DropRequest, AwaitBackend, AwaitPeers,
                Grant, Refuse, RequestFails, Blocks, IgnoreBroken, Revoke
  <2>2. InHook(u)
    BY <1>2 DEF UpdateStatus, ConfigChanged, PeersUnready, DropRequest, AwaitBackend, AwaitPeers,
                Grant, Refuse, RequestFails, Blocks, IgnoreBroken, Revoke, Provisionable,
                Acceptable, Servable, Revocable, Handling
  <2>3. /\ UNCHANGED <<juju, backend, configOK, app, bag, pending, deferred>>
        /\ RequestFails(u) \/ UNCHANGED spent
    BY <1>2 DEF env, UpdateStatus, ConfigChanged, PeersUnready, DropRequest, AwaitBackend,
                AwaitPeers, Grant, Refuse, RequestFails, Blocks, IgnoreBroken, Revoke
  <2> QED BY <1>1, <2>1, <2>2, <2>3 DEF Finish, Defer, juju
<1>3. CASE PebbleReady(u) \/ PeersChanged(u)
  <2>1. hook'[u].ev = hook[u].ev /\ \A v \in Units \ {u} : hook'[v] = hook[v]
    BY <1>0, <1>3 DEF PebbleReady, PeersChanged, Handled, Hook, UnitData
  <2> QED BY <1>3, <2>1 DEF PebbleReady, PeersChanged, PeersServed, Handling, juju, env
<1>4. CASE RelationChanged(u)
  <2>1. hook'[u].ev = hook[u].ev /\ \A v \in Units \ {u} : hook'[v] = hook[v]
    BY <1>0, <1>1, <1>4 DEF RelationChanged, Finish, Hook
  <2> QED BY <1>4, <2>1 DEF RelationChanged, Handling, juju, env
<1>5. CASE RelationDeparted(u) \/ KeepRelation(u)
  <2>1. hook'[u].ev = hook[u].ev /\ \A v \in Units \ {u} : hook'[v] = hook[v]
    BY <1>0, <1>5 DEF RelationDeparted, KeepRelation, Flagged, Hook, UnitData
  <2> QED BY <1>5, <2>1 DEF RelationDeparted, KeepRelation, Revocable, Handling, juju, env
<1>6. CASE \/ UpdateStatusMisconfigured(u) \/ PebbleReadyMisconfigured(u) \/ PeersTooEarly(u)
           \/ PeersMisconfigured(u) \/ RequestMisconfigured(u) \/ RequestOfDeadRelation(u)
           \/ GrantTooEarly(u) \/ RevokeFails(u)
  <2>1. Discard(u) /\ UNCHANGED env /\ InHook(u)
    BY <1>6 DEF UpdateStatusMisconfigured, PebbleReadyMisconfigured, PeersTooEarly,
                PeersMisconfigured, RequestMisconfigured, RequestOfDeadRelation, GrantTooEarly,
                RevokeFails, Misread, Provisionable, Acceptable, Servable, Revocable, Handling
  <2> QED BY <1>0, <2>1 DEF Discard, juju, env
<1> QED BY <1>2, <1>3, <1>4, <1>5, <1>6 DEF Handle

\* Starting a hook.
LEMMA StartFrame ==
  ASSUME TypeOK, NEW u \in Units, StartHook(u) \/ StartUpdateStatus(u)
  PROVE  /\ u \in members /\ ~InHook(u)
         /\ UNCHANGED <<leader, members, leaving, client, bound>>
         /\ UNCHANGED <<backend, configOK, spent, app, buf, bag, deferred, ready, ini>>
         /\ \A v \in Units \ {u} : hook'[v] = hook[v] /\ pending'[v] = pending[v]
         /\ hook'[u].bag = bag[u] /\ pending'[u] \subseteq pending[u]
         /\ hook'[u].ev \in pending[u] \/ hook'[u].ev.kind = "update_status"
<1>1. CASE StartHook(u)
  BY <1>1 DEF StartHook, Start, RunHook, TypeOK, juju, env
<1>2. CASE StartUpdateStatus(u)
  BY <1>2 DEF StartUpdateStatus, RunHook, Ev, TypeOK, juju, env
<1> QED BY <1>1, <1>2

\* A disturbance is counted, and never brings a configuration and PostgreSQL both in trouble.
LEMMA SpendApart ==
  ASSUME ApartBudgets, TypeOK, NEW d \in Disturbances, Spend(d)
  PROVE  /\ spent'["misconfigs"] = 0 \/ spent'["outages"] = 0
         /\ \A x \in Disturbances : spent[x] > 0 => spent'[x] > 0
         /\ spent'[d] > 0
<1>1. PICK b \in Budgets : \A x \in Disturbances : spent'[x] <= b[x]
  BY DEF Spend
<1>2. /\ spent \in [Disturbances -> Nat] /\ spent' = [spent EXCEPT ![d] = @ + 1]
      /\ b \in [Disturbances -> Nat]
  BY ConstantsAssumption DEF Spend, TypeOK
<1>3. /\ spent'[d] = spent[d] + 1 /\ spent' \in [Disturbances -> Nat]
      /\ \A x \in Disturbances \ {d} : spent'[x] = spent[x]
  BY <1>2
<1>4. {"misconfigs", "outages"} \subseteq Disturbances /\ (b["misconfigs"] = 0 \/ b["outages"] = 0)
  BY DEF Disturbances, ApartBudgets
<1> QED BY <1>1, <1>2, <1>3, <1>4

----------------------------------------------------------------------------
(* The parts of the invariant that stand on their own *)

LEMMA LeaderStaysStep ==
  ASSUME ~LeaderMayLeave, TypeOK, LeaderStays, [Next]_vars
  PROVE  LeaderStays'
<1>1. ASSUME NEW u \in Units, Handle(u) \/ StartHook(u) \/ StartUpdateStatus(u)
      PROVE  LeaderStays'
  BY <1>1, HandlerFrame, StartFrame DEF LeaderStays
<1>2. ASSUME NEW u \in Units, Commit(u) \/ Crash(u) \/ ProvisioningFails(u) \/ ContainerRestart(u)
      PROVE  LeaderStays'
  BY <1>2 DEF LeaderStays, Commit, Crash, ProvisioningFails, ContainerRestart, Discard, juju
<1>3. ASSUME NEW u \in Units, UnitGone(u) \/ ElectLeader(u) \/ Leave(u)
      PROVE  LeaderStays'
  BY <1>3 DEF LeaderStays, UnitGone, ElectLeader, Leave
<1>4. ASSUME NEW r \in Relations, AddRelation(r) \/ RemoveRelation(r) PROVE LeaderStays'
  BY <1>4 DEF LeaderStays, AddRelation, RemoveRelation
<1>5. CASE Outage \/ Recover \/ Misconfigure \/ Reconfigure \/ UNCHANGED vars
  BY <1>5 DEF LeaderStays, Outage, Recover, Misconfigure, Reconfigure, juju, vars
<1> QED BY <1>1, <1>2, <1>3, <1>4, <1>5 DEF Next, Work, Disturb

LEMMA TroubleApartStep ==
  ASSUME ApartBudgets, TypeOK, TroubleApart, [Next]_vars
  PROVE  TroubleApart'
<1>1. ASSUME UNCHANGED <<backend, configOK, spent>> PROVE TroubleApart'
  BY <1>1 DEF TroubleApart
<1>2. ASSUME NEW d \in Disturbances, Spend(d), UNCHANGED <<backend, configOK>>
      PROVE  TroubleApart'
  BY <1>2, SpendApart DEF TroubleApart, Disturbances
<1>3. ASSUME NEW u \in Units, Handle(u) \/ StartHook(u) \/ StartUpdateStatus(u)
      PROVE  TroubleApart'
  <2>1. UNCHANGED <<backend, configOK>> /\ (RequestFails(u) \/ UNCHANGED spent)
    BY <1>3, HandlerFrame, StartFrame
  <2>2. RequestFails(u) => Spend("errors")
    BY DEF RequestFails
  <2> QED BY <1>1, <1>2, <2>1, <2>2 DEF Disturbances
<1>4. ASSUME NEW u \in Units, Commit(u) \/ UnitGone(u) PROVE TroubleApart'
  BY <1>1, <1>4 DEF Commit, UnitGone, env
<1>5. ASSUME NEW u \in Units,
             Crash(u) \/ ProvisioningFails(u) \/ ContainerRestart(u) \/ ElectLeader(u) \/ Leave(u)
      PROVE  TroubleApart'
  BY <1>1, <1>2, <1>5
     DEF Crash, ProvisioningFails, ContainerRestart, ElectLeader, Leave, Disturbances
<1>6. ASSUME NEW r \in Relations, AddRelation(r) \/ RemoveRelation(r) PROVE TroubleApart'
  BY <1>1, <1>2, <1>6 DEF AddRelation, RemoveRelation, Disturbances, env
<1>7. CASE Outage
  BY <1>7, SpendApart DEF Outage, TroubleApart, Disturbances
<1>8. CASE Misconfigure
  BY <1>8, SpendApart DEF Misconfigure, TroubleApart, Disturbances
<1>9. CASE Recover \/ Reconfigure \/ UNCHANGED vars
  BY <1>9 DEF Recover, Reconfigure, TroubleApart, vars
<1> QED BY <1>3, <1>4, <1>5, <1>6, <1>7, <1>8, <1>9 DEF Next, Work, Disturb

\* Only the leader's hook writes to the application databags.
LEMMA OnlyLeaderWrites ==
  ASSUME NEW u \in Units, Handle(u), u # leader
  PROVE  UNCHANGED buf
<1>1. ASSUME Discard(u) PROVE UNCHANGED buf
  BY <1>1 DEF Discard
<1>2. ~(Servable(u) \/ Revocable(u) \/ RequestMisconfigured(u) \/ UpdateStatusMisconfigured(u))
  BY DEF Servable, Revocable, RequestMisconfigured, UpdateStatusMisconfigured
<1>3. ~(\/ AwaitPeers(u) \/ Grant(u) \/ Refuse(u) \/ RequestFails(u)
        \/ RequestOfDeadRelation(u) \/ GrantTooEarly(u) \/ KeepRelation(u) \/ Revoke(u)
        \/ RevokeFails(u))
  BY <1>2 DEF AwaitPeers, Grant, Refuse, RequestFails, Blocks, RequestOfDeadRelation,
              GrantTooEarly, Provisionable, Acceptable, KeepRelation, Revoke, RevokeFails
<1>4. RelationChanged(u) => UNCHANGED buf
  BY DEF RelationChanged
<1> QED BY <1>1, <1>2, <1>3, <1>4
        DEF Handle, UpdateStatus, PebbleReady, PebbleReadyMisconfigured, ConfigChanged,
            PeersUnready, PeersTooEarly, PeersMisconfigured, PeersChanged, DropRequest,
            AwaitBackend, RelationDeparted, IgnoreBroken, Misread

LEMMA FlushedStep ==
  ASSUME IInv, LeaderStays, Flushed, [Next]_vars
  PROVE  Flushed'
<1>0. /\ hook \in [Units -> Hook] /\ bag \in [Units -> UnitData] /\ leader \in Units
      /\ \A h \in UnitData : NoHook(h).ev = Idle /\ NoHook(h).bag = h
  BY DEF IInv, TypeOK, LeaderStays, NoHook
<1>1. ASSUME NEW u \in Units, Discard(u), UNCHANGED leader PROVE Flushed'
  BY <1>0, <1>1 DEF Flushed, Discard, InHook
<1>2. ASSUME NEW u \in Units, Handle(u) PROVE Flushed'
  <2>1. TypeOK
    BY DEF IInv
  <2>2. CASE ~Discard(u)
    BY <1>0, <1>2, <2>1, <2>2, HandlerFrame, OnlyLeaderWrites DEF Flushed, InHook
  <2> QED BY <1>1, <1>2, <2>1, <2>2, HandlerFrame
<1>3. ASSUME NEW u \in Units, StartHook(u) \/ StartUpdateStatus(u) PROVE Flushed'
  BY <1>0, <1>3, StartFrame DEF Flushed, InHook, IInv
<1>4. ASSUME NEW u \in Units, Commit(u) PROVE Flushed'
  BY <1>0, <1>4 DEF Flushed, Commit, InHook, Hook
<1>5. ASSUME NEW u \in Units, Crash(u) \/ ProvisioningFails(u) PROVE Flushed'
  BY <1>1, <1>5 DEF Crash, ProvisioningFails, Discard, juju
<1>6. ASSUME NEW u \in Units, ContainerRestart(u) \/ UnitGone(u) \/ ElectLeader(u) \/ Leave(u)
      PROVE  Flushed'
  BY <1>0, <1>6, ConstantsAssumption
     DEF Flushed, InHook, ContainerRestart, UnitGone, ElectLeader, Leave, LeaderStays, juju
<1>7. ASSUME NEW r \in Relations, AddRelation(r) \/ RemoveRelation(r) PROVE Flushed'
  BY <1>7 DEF Flushed, InHook, AddRelation, RemoveRelation
<1>8. CASE Outage \/ Recover \/ Misconfigure \/ Reconfigure \/ UNCHANGED vars
  BY <1>8 DEF Flushed, InHook, Outage, Recover, Misconfigure, Reconfigure, juju, vars
<1> QED BY <1>2, <1>3, <1>4, <1>5, <1>6, <1>7, <1>8 DEF Next, Work, Disturb

\* A step that removes nobody's relation and delivers no relation-broken.
LEMMA BoundKept ==
  ASSUME TypeOK, Bound, UNCHANGED <<client, bound>>,
         members' \ leaving' \subseteq members \ leaving,
         \A u \in Units, r \in Relations :
           Ev("relation_broken", r) \in pending'[u] \/ hook'[u].ev = Ev("relation_broken", r) =>
             \/ Ev("relation_broken", r) \in pending[u]
             \/ hook[u].ev = Ev("relation_broken", r)
             \/ r \in bound[u] /\ u \in leaving'
  PROVE  Bound'
BY DEF Bound, Alive

LEMMA BoundStep ==
  ASSUME TypeOK, Bound, [Next]_vars
  PROVE  Bound'
<1> DEFINE Broken(r) == Ev("relation_broken", r)
<1>0. /\ \A u \in Units : hook[u].ev \in Event /\ pending[u] \subseteq Event
      /\ \A r \in Relations : Broken(r) # Idle /\ Broken(r).kind = "relation_broken"
      /\ \A e \in Event : e.kind = "relation_broken" => e = Broken(e.rel) /\ e.rel \in Relations
      /\ \A h \in UnitData : NoHook(h).ev = Idle
  BY DEF TypeOK, Hook, Event, Ev, Idle, NoHook, UnitKinds
<1>1. ASSUME NEW u \in Units, Discard(u) PROVE Bound'
  <2>1. /\ \A v \in Units \ {u} : hook'[v] = hook[v] /\ pending'[v] = pending[v]
        /\ hook'[u].ev = Idle /\ pending'[u] \subseteq pending[u] \union {hook[u].ev}
        /\ UNCHANGED <<members, leaving, client, bound>>
    BY <1>0, <1>1 DEF TypeOK, Discard, juju
  <2> QED BY <1>0, <2>1, BoundKept
<1>2. ASSUME NEW u \in Units, Handle(u) PROVE Bound'
  BY <1>1, <1>2, HandlerFrame, BoundKept
<1>3. ASSUME NEW u \in Units, StartHook(u) \/ StartUpdateStatus(u) PROVE Bound'
  <2>1. /\ \A v \in Units \ {u} : hook'[v] = hook[v] /\ pending'[v] = pending[v]
        /\ pending'[u] \subseteq pending[u]
        /\ hook'[u].ev \in pending[u] \/ hook'[u].ev.kind = "update_status"
        /\ UNCHANGED <<members, leaving, client, bound>>
    BY <1>3, StartFrame
  <2> QED BY <1>0, <2>1, BoundKept
<1>4. ASSUME NEW u \in Units, Commit(u) PROVE Bound'
  <2>1. /\ UNCHANGED <<members, leaving, client>>
        /\ \A v \in Units : hook'[v] = hook[v] \/ hook'[v].ev = Idle
        /\ \A v \in Units, r \in Relations : Broken(r) \in pending'[v] => Broken(r) \in pending[v]
        /\ \A v \in Units : \A r \in bound[v] \ bound'[v] : hook[v].ev = Broken(r)
        /\ \A v \in Units : bound'[v] \subseteq bound[v]
    <3>1. \A r \in Relations : Broken(r) # Ev("peers_changed", NoRel)
      BY DEF Ev
    <3>2. \A v \in Units, r \in Relations : Broken(r) \in pending'[v] => Broken(r) \in pending[v]
      BY <1>4, <3>1 DEF Commit, TypeOK
    <3>3. \A v \in Units : \A r \in bound[v] \ bound'[v] : hook[v].ev = Broken(r)
      BY <1>0, <1>4 DEF Commit, TypeOK
    <3> QED BY <1>0, <1>4, <3>2, <3>3 DEF Commit, TypeOK, Hook
  <2> QED BY <1>0, <2>1 DEF Bound, Alive
<1>5. ASSUME NEW u \in Units, Crash(u) \/ ProvisioningFails(u) PROVE Bound'
  BY <1>1, <1>5 DEF Crash, ProvisioningFails
<1>6. ASSUME NEW u \in Units, ContainerRestart(u) PROVE Bound'
  BY <1>6, BoundKept DEF ContainerRestart, Deliver, Ev, juju
<1>7. ASSUME NEW u \in Units, ElectLeader(u) PROVE Bound'
  BY <1>7, BoundKept DEF ElectLeader
<1>8. ASSUME NEW u \in Units, Leave(u) PROVE Bound'
  <2>1. \A v \in Units, r \in Relations : Broken(r) \in pending'[v] =>
          Broken(r) \in pending[v] \/ (r \in bound[v] /\ v \in leaving')
    BY <1>8 DEF Leave, TypeOK, Ev
  <2> QED BY <1>8, <2>1, BoundKept DEF Leave
<1>9. ASSUME NEW u \in Units, UnitGone(u) PROVE Bound'
  <2>1. \A v \in Units : pending'[v] \subseteq pending[v]
    BY <1>9 DEF UnitGone, TypeOK
  <2> QED BY <1>9, <2>1, BoundKept DEF UnitGone
<1>10. ASSUME NEW r \in Relations, AddRelation(r) PROVE Bound'
  <2>1. /\ client[r] = "none" /\ client' = [client EXCEPT ![r] = "alive"]
        /\ UNCHANGED <<members, leaving, hook>>
    BY <1>10 DEF AddRelation
  <2>2. ASSUME NEW v \in Units
        PROVE  /\ v \in members \ leaving => r \in bound'[v]
               /\ \A q \in Relations \ {r} : q \in bound'[v] <=> q \in bound[v]
    BY <1>10 DEF AddRelation
  <2>3. \A v \in Units, q \in Relations : Broken(q) \in pending'[v] <=> Broken(q) \in pending[v]
    BY <1>10 DEF AddRelation, Deliver, Ev
  <2>4. client' \in [Relations -> {"none", "alive", "dying"}] /\ client'[r] = "alive"
        /\ \A q \in Relations \ {r} : client'[q] = client[q]
    BY <2>1 DEF TypeOK
  <2> HIDE DEF Broken
  <2>5. ASSUME NEW v \in Units, NEW q \in Relations PROVE
          /\ Alive(q)' /\ v \in members \ leaving => q \in bound'[v]
          /\ client'[q] = "none" => q \notin bound'[v]
    <3>1. CASE q = r
      <4>1. client'[r] # "none" /\ (v \in members \ leaving => r \in bound'[v])
        BY <2>2, <2>4
      <4> QED BY <3>1, <4>1
    <3>2. CASE q # r
      <4>1. client'[q] = client[q] /\ (q \in bound'[v] <=> q \in bound[v])
        BY <2>2, <2>4, <3>2
      <4> QED BY <4>1 DEF Bound, Alive
    <3> QED BY <3>1, <3>2
  <2>6. ASSUME NEW v \in Units, NEW q \in Relations,
               client'[q] = "none" \/ (Alive(q)' /\ v \in members \ leaving)
        PROVE  Broken(q) \notin pending'[v] /\ hook'[v].ev # Broken(q)
    <3>1. client[q] = "none" \/ (Alive(q) /\ v \in members \ leaving)
      BY <2>1, <2>4, <2>6 DEF Alive
    <3>2. Broken(q) \notin pending[v] /\ hook[v].ev # Broken(q)
      BY <3>1 DEF Bound, Broken
    <3> QED BY <2>1, <2>3, <3>2
  <2> QED BY <2>1, <2>5, <2>6 DEF Bound, Broken
<1>11. ASSUME NEW r \in Relations, RemoveRelation(r) PROVE Bound'
  <2>1. /\ client[r] = "alive" /\ client' = [client EXCEPT ![r] = "dying"]
        /\ UNCHANGED <<members, leaving, hook, bound>>
    BY <1>11 DEF RemoveRelation
  <2>2. \A v \in Units, q \in Relations \ {r} :
          Broken(q) \in pending'[v] <=> Broken(q) \in pending[v]
    BY <1>11 DEF RemoveRelation, Ev
  <2> QED BY <2>1, <2>2 DEF Bound, Alive, TypeOK
<1>12. CASE Outage \/ Recover \/ UNCHANGED vars
  BY <1>12, BoundKept DEF Outage, Recover, juju, vars
<1>13. CASE Misconfigure \/ Reconfigure
  BY <1>13, BoundKept DEF Misconfigure, Reconfigure, Deliver, Ev, juju
<1> QED BY <1>2, <1>3, <1>4, <1>5, <1>6, <1>7, <1>8, <1>9, <1>10, <1>11, <1>12, <1>13
        DEF Next, Work, Disturb

----------------------------------------------------------------------------
(* Steps that lose no entry *)

\* The leader may change between its hooks, relations may begin and end, and a leader's hook may
\* rewrite its configuration for the living relations; a unit acknowledges and renders what it
\* reads.
Harmless ==
  /\ UNCHANGED <<app, bag>>
  /\ leader' = leader \/ (buf = app /\ buf' = app)
  /\ members' \ leaving' \subseteq members \ leaving
  /\ buf'.cred = buf.cred
  /\ \A r \in Relations :
       /\ client'[r] = "none" => client[r] = "none"
       /\ client'[r] = "alive" => client[r] \in {"none", "alive"}
       /\ client[r] = "alive" /\ Routes(buf.cfg, r) => Routes(buf'.cfg, r)
       /\ client[r] = "none" => ~Routes(buf'.cfg, r)
  /\ \A v \in Units :
       \/ /\ hook'[v].bag.ack = hook[v].bag.ack
          /\ ready'[v] => ready[v] /\ ini'[v] = ini[v]
       \/ /\ hook'[v].bag.ack \in {hook[v].bag.ack, ViewCfg(v)}
          /\ ready'[v] => ini'[v] = ViewCfg(v)

LEMMA HarmlessKeeps ==
  ASSUME Entries, Harmless, members' \subseteq Units
  PROVE  Entries'
<1>1. ASSUME NEW v \in Units, NEW r \in Relations
      PROVE  /\ Alive(r) /\ Routes(ViewCfg(v), r) => Routes(ViewCfg(v)', r)
             /\ client[r] = "none" => ~Routes(ViewCfg(v), r) /\ ~Routes(ViewCfg(v)', r)
  BY DEF Entries, Unforeseen, Harmless, ViewCfg, Alive
<1>2. Unforeseen'
  <2> SUFFICES ASSUME NEW r \in Relations, client'[r] = "none"
               PROVE  /\ ~Routes(app'.cfg, r) /\ ~Routes(buf'.cfg, r)
                      /\ r \notin app'.cred /\ r \notin buf'.cred
                      /\ \A u \in Units : /\ ~Routes(bag'[u].ack, r)
                                          /\ ~Routes(hook'[u].bag.ack, r)
    BY DEF Unforeseen
  <2>1. /\ client[r] = "none" /\ ~Routes(buf'.cfg, r)
        /\ buf'.cred = buf.cred /\ app' = app /\ bag' = bag
    BY DEF Harmless
  <2>2. \A u \in Units : ~Routes(hook'[u].bag.ack, r)
    BY <1>1, <2>1 DEF Entries, Unforeseen, Harmless
  <2> QED BY <2>1, <2>2 DEF Entries, Unforeseen
<1>3. EntriesKept'
  <2> SUFFICES ASSUME NEW r \in Relations, client'[r] = "alive"
               PROVE  /\ Routes(app'.cfg, r) => Routes(buf'.cfg, r)
                      /\ \A u \in Units :
                           /\ Routes(bag'[u].ack, r) => Routes(app'.cfg, r)
                           /\ Routes(hook'[u].bag.ack, r) => Routes(ViewCfg(u)', r)
    BY DEF EntriesKept, Alive
  <2>1. CASE client[r] = "none"
    <3>1. /\ ~Routes(app'.cfg, r)
          /\ \A u \in Units : ~Routes(bag'[u].ack, r)
      BY <2>1 DEF Entries, Unforeseen, Harmless
    <3>2. \A u \in Units : ~Routes(hook'[u].bag.ack, r)
      BY <1>1, <2>1 DEF Entries, Unforeseen, Harmless
    <3> QED BY <3>1, <3>2
  <2>2. CASE client[r] = "alive"
    <3>1. Routes(app'.cfg, r) => Routes(buf'.cfg, r)
      BY <2>2 DEF Entries, EntriesKept, Harmless, Alive
    <3>2. \A u \in Units : Routes(bag'[u].ack, r) => Routes(app'.cfg, r)
      BY <2>2 DEF Entries, EntriesKept, Harmless, Alive
    <3>3. \A u \in Units : Routes(hook'[u].bag.ack, r) => Routes(ViewCfg(u)', r)
      BY <1>1, <2>2 DEF Entries, EntriesKept, Harmless, Alive
    <3> QED BY <3>1, <3>2, <3>3
  <2> QED BY <2>1, <2>2 DEF Harmless
<1>4. AcksRendered'
  <2> SUFFICES ASSUME NEW r \in Relations, NEW u \in members' \ leaving',
                      client'[r] = "alive", ready'[u],
                      Routes(bag'[u].ack, r) \/ Routes(hook'[u].bag.ack, r)
               PROVE  Routes(ini'[u], r)
    BY DEF AcksRendered, Alive
  <2>0. u \in Units /\ u \in members \ leaving
    BY DEF Harmless
  <2>1. client[r] # "none"
    BY <1>1, <2>0 DEF Entries, Unforeseen, Harmless
  <2>2. Alive(r)
    BY <2>1 DEF Harmless, Alive
  <2>3. CASE hook'[u].bag.ack = hook[u].bag.ack /\ ready[u] /\ ini'[u] = ini[u]
    BY <2>0, <2>2, <2>3 DEF Entries, AcksRendered, Harmless
  <2>4. CASE ini'[u] = ViewCfg(u) /\ hook'[u].bag.ack \in {hook[u].bag.ack, ViewCfg(u)}
    BY <2>0, <2>2, <2>4 DEF Entries, EntriesKept, Harmless, ViewCfg
  <2> QED BY <2>0, <2>3, <2>4 DEF Harmless
<1>5. CredsRouted'
  <2>1. app'.cred \subseteq buf'.cred
    BY DEF Entries, CredsRouted, Harmless
  <2>2. ASSUME NEW r \in Relations, client'[r] = "alive"
        PROVE  /\ r \in app'.cred => Routes(app'.cfg, r)
               /\ r \in buf'.cred =>
                    \A u \in members' \ leaving' :
                      Routes(ViewCfg(u)', r) /\ (ready'[u] => Routes(ini'[u], r))
    <3>1. CASE client[r] = "none"
      BY <3>1 DEF Entries, Unforeseen, Harmless
    <3>2. CASE Alive(r)
      <4>1. r \in app'.cred => Routes(app'.cfg, r)
        BY <3>2 DEF Entries, CredsRouted, Harmless
      <4>2. ASSUME r \in buf'.cred, NEW u \in members' \ leaving'
            PROVE  Routes(ViewCfg(u)', r) /\ (ready'[u] => Routes(ini'[u], r))
        <5>1. u \in Units /\ u \in members \ leaving /\ r \in buf.cred
          BY <4>2 DEF Harmless
        <5>2. Routes(ViewCfg(u), r) /\ (ready[u] => Routes(ini[u], r))
          BY <3>2, <5>1 DEF Entries, CredsRouted
        <5> QED BY <1>1, <3>2, <5>1, <5>2 DEF Harmless
      <4> QED BY <4>1, <4>2
    <3> QED BY <2>2, <3>1, <3>2 DEF Harmless, Alive
  <2> QED BY <2>1, <2>2 DEF CredsRouted, Alive
<1> QED BY <1>2, <1>3, <1>4, <1>5 DEF Entries

\* The configuration that the leader generates has every living relation, and none that is
\* still to come.
LEMMA LeaderRoutesAll ==
  ASSUME TypeOK, LeaderStays, Bound, Rel(leader) \in Relations, NEW r \in Relations
  PROVE  /\ Alive(r) => Routes(RequestedConfig(leader), r)
         /\ client[r] = "none" => ~Routes(RequestedConfig(leader), r)
<1>0. leader \in Units /\ leader \in members \ leaving
  BY DEF LeaderStays, TypeOK
<1>1. RequestedConfig(leader) # Absent
  BY <1>0, ConfigType, AbsentAssumption
<1>2. RequestedConfig(leader).dbs[r] =
        IF r = Rel(leader) THEN RequestedDb(leader)
        ELSE IF r \in Active(leader) THEN DbOf[r] ELSE Absent
  BY DEF RequestedConfig, Generated
<1>3. DbOf[r] # Absent /\ DbOf[r] # Null
  BY ConstantsAssumption
<1>4. ASSUME Alive(r) PROVE r \in bound[leader] /\ r \in Active(leader)
  BY <1>0, <1>4 DEF Bound, Active
<1>5. ASSUME client[r] = "none" PROVE r \notin bound[leader] /\ r \notin Active(leader)
  BY <1>0, <1>5 DEF Bound, Active
<1>6. ASSUME Alive(r) PROVE Routes(RequestedConfig(leader), r)
  BY <1>1, <1>2, <1>4, <1>6 DEF Routes, RequestedDb
<1>7. ASSUME client[r] = "none" PROVE ~Routes(RequestedConfig(leader), r)
  BY <1>2, <1>3, <1>5, <1>7 DEF Routes, RequestedDb
<1> QED BY <1>6, <1>7

\* A failed hook goes back to what is committed.
LEMMA DiscardEntries ==
  ASSUME TypeOK, Entries, NEW u \in Units, Discard(u)
  PROVE  Entries'
<1>1. /\ hook'[u].bag = bag[u] /\ \A v \in Units \ {u} : hook'[v] = hook[v]
      /\ buf' = (IF u = leader THEN app ELSE buf)
      /\ UNCHANGED <<leader, members, leaving, client, app, bag, ready, ini>>
      /\ members \subseteq Units
  BY DEF Discard, NoHook, TypeOK, juju
<1>2. Unforeseen'
  BY <1>1 DEF Entries, Unforeseen
<1>3. EntriesKept'
  <2> SUFFICES ASSUME NEW r \in Relations, Alive(r)
               PROVE  /\ Routes(app.cfg, r) => Routes(buf'.cfg, r)
                      /\ \A v \in Units :
                           /\ Routes(bag[v].ack, r) => Routes(app.cfg, r)
                           /\ Routes(hook'[v].bag.ack, r) => Routes(ViewCfg(v)', r)
    BY <1>1 DEF EntriesKept, Alive
  <2> QED BY <1>1 DEF Entries, EntriesKept, ViewCfg
<1>4. AcksRendered'
  BY <1>1 DEF Entries, AcksRendered, Alive
<1>5. CredsRouted'
  <2>1. app'.cred \subseteq buf'.cred
    BY <1>1 DEF Entries, CredsRouted
  <2>2. ASSUME NEW r \in Relations, Alive(r)'
        PROVE  /\ r \in app'.cred => Routes(app'.cfg, r)
               /\ r \in buf'.cred =>
                    \A v \in members' \ leaving' :
                      Routes(ViewCfg(v)', r) /\ (ready'[v] => Routes(ini'[v], r))
    <3>1. Alive(r) /\ (r \in app.cred => Routes(app.cfg, r))
      BY <1>1, <2>2 DEF Entries, CredsRouted, Alive
    <3>2. ASSUME r \in buf'.cred, NEW v \in members \ leaving
          PROVE  Routes(ViewCfg(v)', r) /\ (ready[v] => Routes(ini[v], r))
      <4>1. r \in buf.cred
        BY <1>1, <3>2 DEF Entries, CredsRouted
      <4>2. Routes(ViewCfg(v), r) /\ (ready[v] => Routes(ini[v], r))
        BY <3>1, <3>2, <4>1 DEF Entries, CredsRouted
      <4> QED BY <1>1, <3>1, <3>2, <4>2 DEF ViewCfg
    <3> QED BY <1>1, <3>1, <3>2
  <2> QED BY <2>1, <2>2 DEF CredsRouted
<1> QED BY <1>2, <1>3, <1>4, <1>5 DEF Entries

\* A hook that succeeds publishes what it wrote: no entry, and what follows from the others.
LEMMA CommitEntries ==
  ASSUME TypeOK, Routing, NEW u \in Units, Commit(u)
  PROVE  Entries'
<1>1. /\ hook'[u].bag = hook[u].bag /\ bag'[u] = hook[u].bag
      /\ \A v \in Units \ {u} : hook'[v] = hook[v] /\ bag'[v] = bag[v]
      /\ app' = (IF u = leader THEN buf ELSE app)
      /\ UNCHANGED <<leader, members, leaving, client, buf, ready, ini>>
      /\ members \subseteq Units /\ leader \in members \ leaving /\ Entries
  BY DEF Commit, NoHook, TypeOK, Routing, Standing, LeaderStays, env
<1>2. Unforeseen'
  BY <1>1 DEF Entries, Unforeseen
<1>3. EntriesKept'
  <2> SUFFICES ASSUME NEW r \in Relations, Alive(r)
               PROVE  /\ Routes(app'.cfg, r) => Routes(buf.cfg, r)
                      /\ \A v \in Units :
                           /\ Routes(bag'[v].ack, r) => Routes(app'.cfg, r)
                           /\ Routes(hook'[v].bag.ack, r) => Routes(ViewCfg(v)', r)
    BY <1>1 DEF EntriesKept, Alive
  <2> QED BY <1>1 DEF Entries, EntriesKept, ViewCfg
<1>4. AcksRendered'
  BY <1>1 DEF Entries, AcksRendered, Alive
<1>5. CredsRouted'
  <2>1. app'.cred \subseteq buf'.cred
    BY <1>1 DEF Entries, CredsRouted
  <2>2. ASSUME NEW r \in Relations, Alive(r)'
        PROVE  /\ r \in app'.cred => Routes(app'.cfg, r)
               /\ r \in buf'.cred =>
                    \A v \in members' \ leaving' :
                      Routes(ViewCfg(v)', r) /\ (ready'[v] => Routes(ini'[v], r))
    <3>1. /\ Alive(r)
          /\ r \in app.cred => Routes(app.cfg, r)
          /\ r \in buf.cred =>
               \A v \in members \ leaving :
                 Routes(ViewCfg(v), r) /\ (ready[v] => Routes(ini[v], r))
      BY <1>1, <2>2 DEF Entries, CredsRouted, Alive
    <3>2. r \in buf.cred => Routes(buf.cfg, r)
      BY <1>1, <3>1 DEF ViewCfg
    <3> QED BY <1>1, <3>1, <3>2 DEF ViewCfg
  <2> QED BY <2>1, <2>2 DEF CredsRouted
<1> QED BY <1>2, <1>3, <1>4, <1>5 DEF Entries

\* Credentials are given when every other unit runs with the entry, and the leader renders it.
LEMMA GrantEntries ==
  ASSUME TypeOK, Routing, NEW u \in Units, Grant(u)
  PROVE  Entries'
<1> DEFINE cfg == RequestedConfig(u)
<1>0. /\ u = leader /\ Rel(u) \in Relations /\ Rel(u) \in bound[u] /\ configOK
      /\ \A v \in members \ {u} : bag[v].ack = cfg
      /\ hook[u] \in Hook /\ members \subseteq Units
      /\ LeaderStays /\ Bound /\ Entries
  BY HandlingType DEF Grant, Provisionable, Acceptable, Servable, Synced, RelationKinds, TypeOK,
                      Routing, Standing
<1>1. \A r \in Relations : /\ Alive(r) => Routes(cfg, r)
                           /\ client[r] = "none" => ~Routes(cfg, r)
  BY <1>0, LeaderRoutesAll
<1>2. client[Rel(u)] # "none"
  BY <1>0 DEF Bound
<1> HIDE DEF cfg
<1>3. /\ buf'.cfg = cfg /\ buf'.cred = buf.cred \union {Rel(u)}
      /\ \A v \in Units : hook'[v].bag = hook[v].bag
      /\ \A v \in Units \ {u} : ini'[v] = ini[v]
      /\ ready[u] => ini'[u] = cfg
      /\ UNCHANGED <<leader, members, leaving, client, app, bag, ready>>
  <2>1. buf' = [buf EXCEPT !.cfg = cfg, !.cred = @ \union {Rel(u)}]
    BY DEF Grant, cfg
  <2>2. buf'.cfg = cfg /\ buf'.cred = buf.cred \union {Rel(u)}
    BY <2>1 DEF TypeOK, AppData
  <2>3. \A v \in Units : hook'[v].bag = hook[v].bag
    BY <1>0 DEF Grant, Finish, Handled, TypeOK, Hook
  <2>4. ini' = IF ready[u] THEN [ini EXCEPT ![u] = cfg] ELSE ini
    BY <1>0 DEF Grant, Rendered, cfg
  <2> QED BY <2>2, <2>3, <2>4 DEF Grant, TypeOK, juju
<1>4. Unforeseen'
  BY <1>0, <1>1, <1>2, <1>3 DEF Entries, Unforeseen
<1>5. EntriesKept'
  <2> SUFFICES ASSUME NEW r \in Relations, Alive(r)
               PROVE  /\ Routes(app.cfg, r) => Routes(buf'.cfg, r)
                      /\ \A v \in Units :
                           /\ Routes(bag[v].ack, r) => Routes(app.cfg, r)
                           /\ Routes(hook'[v].bag.ack, r) => Routes(ViewCfg(v)', r)
    BY <1>3 DEF EntriesKept, Alive
  <2> QED BY <1>0, <1>1, <1>3 DEF Entries, EntriesKept, ViewCfg
<1>6. AcksRendered'
  <2> SUFFICES ASSUME NEW r \in Relations, NEW v \in members \ leaving, Alive(r), ready[v],
                      Routes(bag[v].ack, r) \/ Routes(hook'[v].bag.ack, r)
               PROVE  Routes(ini'[v], r)
    BY <1>3 DEF AcksRendered, Alive
  <2> QED BY <1>0, <1>1, <1>3 DEF Entries, AcksRendered
<1>7. CredsRouted'
  <2>1. app'.cred \subseteq buf'.cred
    BY <1>0, <1>3 DEF Entries, CredsRouted
  <2>2. ASSUME NEW r \in Relations, Alive(r), r \in buf'.cred, NEW v \in members \ leaving
        PROVE  Routes(ViewCfg(v)', r) /\ (ready[v] => Routes(ini'[v], r))
    <3>1. CASE v = u
      BY <1>0, <1>1, <1>3, <2>2, <3>1 DEF ViewCfg
    <3>2. CASE v # u /\ r \in buf.cred
      BY <1>0, <1>3, <2>2, <3>2 DEF Entries, CredsRouted, ViewCfg
    <3>3. CASE v # u /\ r = Rel(u)
      <4>1. Routes(bag[v].ack, r)
        BY <1>0, <1>1, <2>2, <3>3
      <4>2. Routes(app.cfg, r) /\ (ready[v] => Routes(ini[v], r))
        BY <1>0, <2>2, <4>1 DEF Entries, EntriesKept, AcksRendered
      <4> QED BY <1>0, <1>3, <3>3, <4>2 DEF ViewCfg
    <3> QED BY <1>3, <2>2, <3>1, <3>2, <3>3
  <2>3. ASSUME NEW r \in Relations, Alive(r) PROVE r \in app.cred => Routes(app.cfg, r)
    BY <1>0, <2>3 DEF Entries, CredsRouted
  <2> QED BY <1>3, <2>1, <2>2, <2>3 DEF CredsRouted, Alive
<1> QED BY <1>4, <1>5, <1>6, <1>7 DEF Entries

\* A handler that writes no configuration and renders nothing.
LEMMA QuietEntries ==
  ASSUME TypeOK, Entries, UNCHANGED <<leader, members, leaving, client, app, bag, ready, ini>>,
         buf'.cfg = buf.cfg, buf'.cred = buf.cred,
         \A v \in Units : hook'[v].bag.ack = hook[v].bag.ack
  PROVE  Entries'
<1>1. Harmless
  BY DEF Harmless, Entries, Unforeseen
<1> QED BY <1>1, HarmlessKeeps DEF TypeOK

\* The leader writes a configuration with every living relation that the last one had.
LEMMA WriteEntries ==
  ASSUME TypeOK, Entries, UNCHANGED <<leader, members, leaving, client, app, bag, ready, ini>>,
         buf'.cred = buf.cred,
         \A r \in Relations : /\ Alive(r) /\ Routes(buf.cfg, r) => Routes(buf'.cfg, r)
                              /\ client[r] = "none" => ~Routes(buf'.cfg, r),
         \A v \in Units : hook'[v].bag.ack = hook[v].bag.ack
  PROVE  Entries'
<1>1. Harmless
  BY DEF Harmless, Alive
<1> QED BY <1>1, HarmlessKeeps DEF TypeOK

\* A unit renders the configuration that it reads, and may acknowledge it.
LEMMA RenderEntries ==
  ASSUME TypeOK, Entries, NEW u \in Units,
         UNCHANGED <<leader, members, leaving, client, app, buf, bag>>,
         \A v \in Units \ {u} : hook'[v] = hook[v] /\ ready'[v] = ready[v] /\ ini'[v] = ini[v],
         ini'[u] = ViewCfg(u), hook'[u].bag.ack \in {hook[u].bag.ack, ViewCfg(u)}
  PROVE  Entries'
<1>1. Harmless
  BY DEF Harmless, Entries, Unforeseen
<1> QED BY <1>1, HarmlessKeeps DEF TypeOK

\* What Revoke takes out of the configuration is one entry.
LEMMA Revoked ==
  ASSUME TypeOK, NEW u \in Units, Revoke(u), Rel(u) \in Relations,
         NEW r \in Relations, r # Rel(u)
  PROVE  /\ buf'.cred = buf.cred
         /\ Routes(buf'.cfg, r) <=> Routes(buf.cfg, r)
<1>1. buf \in AppData /\ buf.cfg \in Config
  BY DEF TypeOK, AppData
<1>2. buf' = [buf EXCEPT !.cfg.dbs[Rel(u)] = Absent]
  BY DEF Revoke
<1>3. buf'.cred = buf.cred /\ buf'.cfg = [buf.cfg EXCEPT !.dbs[Rel(u)] = Absent]
  BY <1>1, <1>2 DEF AppData
<1>4. buf'.cfg \in Config /\ buf'.cfg.dbs[r] = buf.cfg.dbs[r]
  BY <1>1, <1>3 DEF Config
<1> QED BY <1>1, <1>3, <1>4, AbsentAssumption DEF Routes

\* Every handler keeps the entries: where one of them goes, its relation is removed.
LEMMA HandlerEntries ==
  ASSUME IInv, Routing, NEW u \in Units, Handle(u)
  PROVE  Entries'
<1>0. TypeOK /\ Entries /\ hook \in [Units -> Hook] /\ Rel(u) = Head(hook[u].todo).rel
  BY DEF IInv, TypeOK, Routing, Rel
<1>1. /\ UNCHANGED <<leader, members, leaving, client, app, bag>>
      /\ \A v \in Units \ {u} : hook'[v] = hook[v]
  BY <1>0, HandlerFrame
<1>2. CASE Discard(u)
  BY <1>0, <1>2, DiscardEntries
<1>3. CASE Grant(u)
  BY <1>0, <1>3, GrantEntries
<1>4. CASE \/ UpdateStatus(u) \/ PeersUnready(u) \/ DropRequest(u) \/ AwaitBackend(u)
           \/ RelationChanged(u) \/ RelationDeparted(u) \/ IgnoreBroken(u) \/ KeepRelation(u)
  <2>1. hook'[u].bag.ack = hook[u].bag.ack
    <3>1. CASE RelationDeparted(u) \/ KeepRelation(u)
      <4>1. PICK S : hook' = [hook EXCEPT ![u] = Flagged(@, S)]
        BY <3>1 DEF RelationDeparted, KeepRelation
      <4>2. Flagged(hook[u], S).bag.ack = hook[u].bag.ack
        BY <1>0 DEF Flagged, Hook, UnitData
      <4> QED BY <1>0, <4>1, <4>2
    <3>2. CASE hook' = [hook EXCEPT ![u].todo = <<Ev("database_requested", Rel(u))>> \o Tail(@)]
      BY <1>0, <3>2 DEF Hook
    <3>3. CASE Finish(u) \/ Defer(u)
      BY <1>0, <3>3 DEF Finish, Defer, Handled, Kept, Hook
    <3> QED BY <1>4, <3>1, <3>2, <3>3
            DEF UpdateStatus, PeersUnready, DropRequest, AwaitBackend, RelationChanged,
                IgnoreBroken
  <2>2. UNCHANGED <<ready, ini>> /\ buf'.cfg = buf.cfg /\ buf'.cred = buf.cred
    BY <1>0, <1>4
       DEF UpdateStatus, PeersUnready, DropRequest, AwaitBackend, RelationChanged,
           RelationDeparted, IgnoreBroken, KeepRelation, TypeOK, AppData
  <2> QED BY <1>0, <1>1, <2>1, <2>2, QuietEntries
<1>5. CASE PebbleReady(u) \/ PeersChanged(u)
  <2>1. hook'[u].bag.ack \in {hook[u].bag.ack, ViewCfg(u)} /\ UNCHANGED buf
    <3>1. CASE PebbleReady(u)
      BY <1>0, <3>1 DEF PebbleReady, Handled, Hook, UnitData
    <3>2. CASE PeersChanged(u)
      BY <1>0, <3>2 DEF PeersChanged, Handled, Hook, UnitData
    <3> QED BY <1>5, <3>1, <3>2
  <2>2. PeersChanged(u) => configOK /\ ready[u]
    BY DEF PeersChanged, PeersServed, ContainerReady, Routing, Standing, TroubleApart
  <2>3. /\ ini'[u] = ViewCfg(u)
        /\ \A v \in Units \ {u} : ready'[v] = ready[v] /\ ini'[v] = ini[v]
    BY <1>0, <1>5, <2>2 DEF PebbleReady, PeersChanged, Rendered, TypeOK
  <2> QED BY <1>0, <1>1, <2>1, <2>3, RenderEntries
<1>6. CASE ConfigChanged(u)
  <2>1. hook'[u].bag.ack = hook[u].bag.ack /\ UNCHANGED <<buf, ready>>
    BY <1>0, <1>6 DEF ConfigChanged, Finish, Defer, Handled, Kept, Hook
  <2>2. CASE ini' = ini
    BY <1>0, <1>1, <2>1, <2>2, QuietEntries
  <2>3. CASE ini' = [ini EXCEPT ![u] = ViewCfg(u)]
    <3>1. ini'[u] = ViewCfg(u) /\ \A v \in Units \ {u} : ini'[v] = ini[v]
      BY <1>0, <2>3 DEF TypeOK
    <3> QED BY <1>0, <1>1, <2>1, <3>1, RenderEntries
  <2> QED BY <1>6, <2>2, <2>3 DEF ConfigChanged, Rendered
<1>7. CASE AwaitPeers(u) \/ Refuse(u) \/ RequestFails(u)
  <2>1. /\ u = leader /\ Rel(u) \in Relations /\ LeaderStays /\ Bound
        /\ buf'.cfg = RequestedConfig(u) /\ buf'.cred = buf.cred
        /\ hook'[u].bag.ack = hook[u].bag.ack /\ UNCHANGED <<ready, ini>>
    <3>1. u = leader /\ Rel(u) \in Relations /\ LeaderStays /\ Bound
      BY <1>0, <1>7, HandlingType
         DEF AwaitPeers, Refuse, RequestFails, Blocks, Provisionable, Acceptable, Servable,
             RelationKinds, Routing, Standing
    <3>2. buf'.cfg = RequestedConfig(u) /\ buf'.cred = buf.cred
      BY <1>0, <1>7 DEF AwaitPeers, Refuse, RequestFails, Blocks, TypeOK, AppData
    <3>3. hook'[u].bag.ack = hook[u].bag.ack /\ UNCHANGED <<ready, ini>>
      BY <1>0, <1>7 DEF AwaitPeers, Refuse, RequestFails, Blocks, Finish, Defer, Handled, Kept,
                        Hook
    <3> QED BY <3>1, <3>2, <3>3
  <2>2. \A r \in Relations : /\ Alive(r) /\ Routes(buf.cfg, r) => Routes(buf'.cfg, r)
                             /\ client[r] = "none" => ~Routes(buf'.cfg, r)
    BY <1>0, <2>1, LeaderRoutesAll
  <2> QED BY <1>0, <1>1, <2>1, <2>2, WriteEntries
<1>8. CASE Revoke(u)
  <2>1. Rel(u) \in Relations /\ client[Rel(u)] = "dying"
    BY <1>0, <1>8, HandlingType, RevokedIsDying DEF Revoke, Revocable, RelationKinds
  <2>2. buf'.cred = buf.cred /\ hook'[u].bag.ack = hook[u].bag.ack /\ UNCHANGED <<ready, ini>>
    BY <1>0, <1>8 DEF Revoke, Finish, Handled, TypeOK, AppData, Hook
  <2>3. \A r \in Relations : /\ Alive(r) /\ Routes(buf.cfg, r) => Routes(buf'.cfg, r)
                             /\ client[r] = "none" => ~Routes(buf'.cfg, r)
    BY <1>0, <1>8, <2>1, Revoked DEF Alive, Entries, Unforeseen
  <2> QED BY <1>0, <1>1, <2>2, <2>3, WriteEntries
<1> QED BY <1>2, <1>3, <1>4, <1>5, <1>6, <1>7, <1>8
        DEF Handle, UpdateStatusMisconfigured, PebbleReadyMisconfigured, PeersTooEarly,
            PeersMisconfigured, RequestMisconfigured, RequestOfDeadRelation, GrantTooEarly,
            RevokeFails, Misread

\* Hooks start, units come and go, and relations begin and end without losing an entry.
LEMMA EnvironmentEntries ==
  ASSUME IInv, Routing,
         \/ \E u \in Units : \/ StartHook(u) \/ StartUpdateStatus(u) \/ UnitGone(u)
                             \/ ElectLeader(u) \/ Leave(u) \/ ContainerRestart(u)
         \/ \E r \in Relations : AddRelation(r) \/ RemoveRelation(r)
         \/ Outage \/ Recover \/ Misconfigure \/ Reconfigure \/ UNCHANGED vars
  PROVE  Entries'
<1>0. TypeOK /\ Entries /\ LeaderStays /\ Flushed
  BY DEF IInv, Routing, Standing
<1>1. ASSUME NEW u \in Units, StartHook(u) \/ StartUpdateStatus(u) PROVE Entries'
  <2>1. \A v \in Units : hook'[v].bag.ack = hook[v].bag.ack
    BY <1>0, <1>1, StartFrame DEF Flushed
  <2> QED BY <1>0, <1>1, <2>1, StartFrame, QuietEntries
<1>2. ASSUME UNCHANGED <<app, buf, bag, hook, leader>>,
             members' \ leaving' \subseteq members \ leaving, members' \subseteq Units,
             \A r \in Relations : client'[r] # client[r] =>
               (client[r] = "none" /\ client'[r] = "alive") \/ client'[r] = "dying",
             \A v \in Units : ready'[v] => ready[v] /\ ini'[v] = ini[v]
      PROVE  Entries'
  <2>1. Harmless
    BY <1>0, <1>2 DEF Harmless, Entries, Unforeseen
  <2> QED BY <1>0, <1>2, <2>1, HarmlessKeeps
<1>3. ASSUME NEW u \in Units, ElectLeader(u) PROVE Entries'
  <2>1. buf = app /\ UNCHANGED <<members, leaving, client, app, buf, bag, hook, ready, ini>>
    BY <1>0, <1>3, ConstantsAssumption DEF ElectLeader, Flushed, LeaderStays, TypeOK
  <2>2. Harmless
    BY <1>0, <2>1 DEF Harmless, Entries, Unforeseen
  <2> QED BY <1>0, <2>1, <2>2, HarmlessKeeps DEF TypeOK
<1>4. ASSUME NEW u \in Units, UnitGone(u) \/ Leave(u) \/ ContainerRestart(u) PROVE Entries'
  <2>1. CASE UnitGone(u)
    BY <1>0, <1>2, <2>1 DEF UnitGone, LeaderStays, TypeOK
  <2>2. CASE Leave(u)
    BY <1>0, <1>2, <2>2 DEF Leave, TypeOK
  <2>3. CASE ContainerRestart(u)
    BY <1>0, <1>2, <2>3 DEF ContainerRestart, TypeOK, juju
  <2> QED BY <1>4, <2>1, <2>2, <2>3
<1>5. ASSUME NEW r \in Relations, AddRelation(r) \/ RemoveRelation(r) PROVE Entries'
  BY <1>0, <1>2, <1>5 DEF AddRelation, RemoveRelation, TypeOK
<1>6. CASE Outage \/ Recover \/ Misconfigure \/ Reconfigure \/ UNCHANGED vars
  BY <1>0, <1>2, <1>6 DEF Outage, Recover, Misconfigure, Reconfigure, juju, vars, TypeOK
<1> QED BY <1>1, <1>3, <1>4, <1>5, <1>6

----------------------------------------------------------------------------
(* Theorems *)

\* The invariant holds where the leader is not scaled down and at most one of PostgreSQL and
\* the configuration is ever in trouble.
THEOREM RoutingInvariant ==
  ASSUME ~LeaderMayLeave, ApartBudgets
  PROVE  Spec => []Routing
<1>1. Init => Routing
  <2> SUFFICES ASSUME Init PROVE Routing
    OBVIOUS
  <2>1. /\ app.cfg = NoDatabases /\ buf.cfg = NoDatabases /\ app.cred = {} /\ buf = app
        /\ \A u \in Units : bag[u].ack = Absent /\ hook[u].bag = bag[u] /\ hook[u].ev = Idle
        /\ \A u \in Units : pending[u] = {Ev("pebble_ready", NoRel)} /\ ~ready[u]
        /\ \A u \in Units : bound[u] = {}
        /\ \A r \in Relations : client[r] = "none"
    BY DEF Init
  <2>2. \A r \in Relations : Ev("relation_broken", r) # Idle
                             /\ Ev("relation_broken", r) # Ev("pebble_ready", NoRel)
    BY DEF Idle, Ev
  <2>3. \A r \in Relations : ~Routes(NoDatabases, r) /\ ~Routes(Absent, r)
    BY ConstantsAssumption DEF Routes, NoDatabases
  <2>4. LeaderStays /\ TroubleApart
    BY DEF Init, LeaderStays, TroubleApart, Disturbances
  <2>5. Flushed /\ Bound
    BY <2>1, <2>2 DEF Flushed, Bound, Alive
  <2>6. Unforeseen
    BY <2>1, <2>3 DEF Unforeseen
  <2>7. EntriesKept /\ AcksRendered /\ CredsRouted
    BY <2>1, <2>3 DEF EntriesKept, AcksRendered, CredsRouted, Alive
  <2> QED BY <2>4, <2>5, <2>6, <2>7 DEF Routing, Standing, Entries
<1>2. IInv /\ Routing /\ [Next]_vars => Routing'
  <2> SUFFICES ASSUME IInv, Routing, [Next]_vars PROVE Routing'
    OBVIOUS
  <2>1. Standing'
    BY LeaderStaysStep, TroubleApartStep, FlushedStep, BoundStep DEF IInv, Routing, Standing
  <2>2. ASSUME NEW u \in Units, Handle(u) \/ Commit(u) \/ Crash(u) \/ ProvisioningFails(u)
        PROVE  Entries'
    BY <2>2, HandlerEntries, CommitEntries, DiscardEntries
       DEF IInv, Routing, Crash, ProvisioningFails
  <2>3. Entries'
    BY <2>2, EnvironmentEntries DEF Next, Work, Disturb
  <2> QED BY <2>1, <2>3 DEF Routing
<1> QED BY <1>1, <1>2, TypeCorrect, BrokenIsExcused, PTL DEF Spec, IInv

\* A client that has credentials finds its database in the pgbouncer.ini of every running
\* unit: _on_database_requested gives them when all peers have acknowledged the configuration.
THEOREM CredentialsAreRouted ==
  ASSUME ~LeaderMayLeave, ApartBudgets
  PROVE  Spec => []GrantedIsRouted
<1>1. TypeOK /\ Routing => GrantedIsRouted
  BY DEF TypeOK, AppData, Routing, Entries, CredsRouted, GrantedIsRouted
<1> QED BY <1>1, TypeCorrect, RoutingInvariant, PTL

\* What a unit has acknowledged in its databag (Peers._on_changed) it runs with.
THEOREM AcksAreRendered ==
  ASSUME ~LeaderMayLeave, ApartBudgets
  PROVE  Spec => []AckedIsRendered
<1>1. Routing => AckedIsRendered
  BY DEF Routing, Entries, AcksRendered, AckedIsRendered
<1> QED BY <1>1, RoutingInvariant, PTL

----------------------------------------------------------------------------
(* The committed configuration alone, whatever fails at the same time *)

\* What the leader's hook would commit has the entries of the living relations.
Committing ==
  \A r \in Relations :
    /\ client[r] = "none" => ~Routes(app.cfg, r) /\ ~Routes(buf.cfg, r)
    /\ Alive(r) /\ Routes(app.cfg, r) => Routes(buf.cfg, r)

ConfigInv == LeaderStays /\ Flushed /\ Bound /\ Committing

\* A handler that does not fail writes all living relations, or drops one that is not.
LEMMA HandlerConfig ==
  ASSUME IInv, ConfigInv, NEW u \in Units, Handle(u), ~Discard(u), NEW r \in Relations
  PROVE  /\ Alive(r) /\ Routes(buf.cfg, r) => Routes(buf'.cfg, r)
         /\ client[r] = "none" => ~Routes(buf'.cfg, r)
<1>0. TypeOK /\ buf \in AppData /\ LeaderStays /\ Bound
      /\ (client[r] = "none" => ~Routes(buf.cfg, r))
  BY DEF IInv, TypeOK, ConfigInv, Committing
<1>1. CASE buf'.cfg = buf.cfg
  BY <1>0, <1>1
<1>2. CASE AwaitPeers(u) \/ Refuse(u) \/ RequestFails(u) \/ Grant(u)
  <2>1. u = leader /\ Rel(u) \in Relations
    BY <1>0, <1>2, HandlingType
       DEF AwaitPeers, Refuse, RequestFails, Blocks, Grant, Provisionable, Acceptable, Servable,
           RelationKinds
  <2>2. buf'.cfg = RequestedConfig(u)
    BY <1>0, <1>2 DEF AwaitPeers, Refuse, RequestFails, Blocks, Grant, AppData
  <2> QED BY <1>0, <2>1, <2>2, LeaderRoutesAll
<1>3. CASE Revoke(u)
  <2>1. Rel(u) \in Relations /\ client[Rel(u)] = "dying"
    BY <1>0, <1>3, HandlingType, RevokedIsDying DEF Revoke, Revocable, RelationKinds
  <2>2. CASE r # Rel(u)
    BY <1>0, <1>3, <2>1, <2>2, Revoked
  <2> QED BY <2>1, <2>2 DEF Alive
<1>4. CASE RelationChanged(u)
  BY <1>0, <1>1, <1>4 DEF RelationChanged, AppData
<1> QED BY <1>1, <1>2, <1>3, <1>4
        DEF Handle, UpdateStatus, UpdateStatusMisconfigured, PebbleReady,
            PebbleReadyMisconfigured, ConfigChanged, PeersUnready, PeersTooEarly,
            PeersMisconfigured, PeersChanged, DropRequest, AwaitBackend, RequestMisconfigured,
            RequestOfDeadRelation, GrantTooEarly, RelationDeparted, IgnoreBroken, KeepRelation,
            RevokeFails, Misread

LEMMA CommittingStep ==
  ASSUME IInv, ConfigInv, [Next]_vars
  PROVE  Committing'
<1>1. ASSUME UNCHANGED <<app, buf>>,
             \A r \in Relations : client'[r] # client[r] =>
               (client[r] = "none" /\ client'[r] = "alive") \/ client'[r] = "dying"
      PROVE  Committing'
  BY <1>1 DEF ConfigInv, Committing, Alive
<1>2. ASSUME NEW u \in Units, Discard(u) PROVE Committing'
  BY <1>2 DEF Discard, ConfigInv, Committing, Alive, juju
<1>3. ASSUME NEW u \in Units, Handle(u), ~Discard(u) PROVE Committing'
  <2>1. UNCHANGED <<client, app>>
    BY <1>3, HandlerFrame DEF IInv
  <2> QED BY <1>3, <2>1, HandlerConfig DEF ConfigInv, Committing, Alive
<1>4. ASSUME NEW u \in Units, Commit(u) PROVE Committing'
  BY <1>4 DEF Commit, ConfigInv, Committing, Alive
<1>5. ASSUME NEW u \in Units, StartHook(u) \/ StartUpdateStatus(u) PROVE Committing'
  BY <1>1, <1>5, StartFrame DEF IInv
<1>6. ASSUME NEW u \in Units,
             UnitGone(u) \/ ElectLeader(u) \/ Leave(u) \/ ContainerRestart(u)
      PROVE  Committing'
  BY <1>1, <1>6 DEF UnitGone, ElectLeader, Leave, ContainerRestart, juju
<1>7. ASSUME NEW r \in Relations, AddRelation(r) \/ RemoveRelation(r) PROVE Committing'
  BY <1>1, <1>7 DEF AddRelation, RemoveRelation, IInv, TypeOK
<1>8. CASE Outage \/ Recover \/ Misconfigure \/ Reconfigure \/ UNCHANGED vars
  BY <1>1, <1>8 DEF Outage, Recover, Misconfigure, Reconfigure, juju, vars
<1> QED BY <1>2, <1>3, <1>4, <1>5, <1>6, <1>7, <1>8
        DEF Next, Work, Disturb, Crash, ProvisioningFails

\* The committed configuration and what it rests on, from the first state on.
LEMMA ConfigInit == Init => ConfigInv
<1> SUFFICES ASSUME Init PROVE ConfigInv
  OBVIOUS
<1>1. /\ app.cfg = NoDatabases /\ buf = app
      /\ \A u \in Units : hook[u].bag = bag[u] /\ hook[u].ev = Idle /\ bound[u] = {}
      /\ \A u \in Units : pending[u] = {Ev("pebble_ready", NoRel)}
      /\ \A r \in Relations : client[r] = "none"
  BY DEF Init
<1>2. \A r \in Relations : Ev("relation_broken", r) # Idle
                           /\ Ev("relation_broken", r) # Ev("pebble_ready", NoRel)
  BY DEF Idle, Ev
<1>3. \A r \in Relations : ~Routes(NoDatabases, r)
  BY ConstantsAssumption DEF Routes, NoDatabases
<1>4. LeaderStays
  BY DEF Init, LeaderStays
<1>5. Flushed /\ Bound
  BY <1>1, <1>2 DEF Flushed, Bound, Alive
<1>6. Committing
  BY <1>1, <1>3 DEF Committing, Alive
<1> QED BY <1>4, <1>5, <1>6 DEF ConfigInv

LEMMA ConfigStep ==
  ASSUME ~LeaderMayLeave, IInv, ConfigInv, [Next]_vars
  PROVE  ConfigInv'
<1>1. LeaderStays' /\ Flushed' /\ Bound'
  BY LeaderStaysStep, FlushedStep, BoundStep DEF IInv, ConfigInv
<1> QED BY <1>1, CommittingStep DEF ConfigInv

LEMMA ConfigInvariant ==
  ASSUME ~LeaderMayLeave
  PROVE  Spec => [](IInv /\ ConfigInv)
<1>1. IInv /\ ConfigInv /\ [Next]_vars => ConfigInv'
  BY ConfigStep
<1> QED BY <1>1, ConfigInit, TypeCorrect, BrokenIsExcused, PTL DEF Spec, IInv

\* The entry of a living relation stays in the configuration that the peers follow, whatever
\* requests, revocations, elections and failed hooks come after it.
THEOREM EntriesOfTheLivingStay ==
  ASSUME ~LeaderMayLeave
  PROVE  Spec => LiveEntryKept
<1>1. IInv /\ ConfigInv /\ [Next]_vars =>
        [\A r \in Relations : Alive(r) /\ Routes(app.cfg, r) => Routes(app'.cfg, r)]_vars
  <2> SUFFICES ASSUME IInv, ConfigInv, Next, NEW r \in Relations, Alive(r), Routes(app.cfg, r)
               PROVE  Routes(app'.cfg, r)
    BY DEF vars
  <2>1. ASSUME NEW u \in Units, Commit(u) PROVE Routes(app'.cfg, r)
    BY <2>1 DEF Commit, ConfigInv, Committing
  <2>2. ASSUME NEW u \in Units, Handle(u) \/ StartHook(u) \/ StartUpdateStatus(u)
        PROVE  Routes(app'.cfg, r)
    BY <2>2, HandlerFrame, StartFrame DEF IInv
  <2>3. ASSUME NEW u \in Units, UnitGone(u) \/ Disturb(u) PROVE UNCHANGED app
    BY <2>3 DEF UnitGone, Disturb, Crash, ProvisioningFails, Discard, ElectLeader, Leave,
                ContainerRestart
  <2>4. ASSUME NEW q \in Relations, AddRelation(q) \/ RemoveRelation(q) PROVE UNCHANGED app
    BY <2>4 DEF AddRelation, RemoveRelation
  <2>5. CASE Outage \/ Recover \/ Misconfigure \/ Reconfigure
    BY <2>5 DEF Outage, Recover, Misconfigure, Reconfigure
  <2> QED BY <2>1, <2>2, <2>3, <2>4, <2>5 DEF Next, Work
<1> QED BY <1>1, ConfigInvariant, PTL DEF Spec, LiveEntryKept
=============================================================================
