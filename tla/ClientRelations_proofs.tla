------------------------ MODULE ClientRelations_proofs ------------------------
(***************************************************************************)
(* Theorems about ClientRelations, for every set of units, relations and   *)
(* databases, every budget of disturbances and every listing order: its    *)
(* types, and that the departing flag does its job.                        *)
(***************************************************************************)
EXTENDS ClientRelations, SequenceTheorems, TLAPS

----------------------------------------------------------------------------
(* Types *)

\* Taking a notice off a hook, or keeping it, leaves a hook.
LEMMA HandledType ==
  ASSUME NEW h \in Hook, h.todo # <<>>
  PROVE  /\ Handled(h) \in Hook
         /\ Kept(h) \in Hook
         /\ Head(h.todo) \in Event
<1>1. /\ Head(h.todo) \in Event
      /\ Tail(h.todo) \in Seq(Event)
      /\ Append(h.kept, Head(h.todo)) \in Seq(Event)
  BY HeadTailProperties, AppendProperties DEF Hook
<1> QED BY <1>1 DEF Handled, Kept, Hook

\* Changing the departing flags of the databag that the hook holds leaves a hook.
LEMMA FlaggedType ==
  ASSUME NEW h \in Hook, h.todo # <<>>, NEW S \in SUBSET Relations
  PROVE  Flagged(h, S) \in Hook
<1>1. Tail(h.todo) \in Seq(Event)
  BY HeadTailProperties DEF Hook
<1> QED BY <1>1 DEF Flagged, Hook, UnitData

\* An idle unit's hook record.
LEMMA NoHookType ==
  ASSUME NEW b \in UnitData
  PROVE  NoHook(b) \in Hook
BY EmptySeq DEF NoHook, Hook, Idle, Ev, Event, UnitKinds

\* Every configuration that a request can write is a Config.
LEMMA ConfigType ==
  ASSUME TypeOK, NEW u \in Units, Rel(u) \in Relations
  PROVE  /\ Generated(u) \in Config
         /\ RequestedDb(u) \in Databases \union {Null}
         /\ RequestedConfig(u) \in Config
<1>0. Active(u) \subseteq Relations
  BY DEF Active, TypeOK
<1>1. Generated(u) \in Config
  <2>1. Active(u) # {} => Last[Active(u)] \in Relations
    BY <1>0, ConstantsAssumption
  <2> QED BY <1>0, <2>1, ConstantsAssumption DEF Generated, Config
<1>2. RequestedDb(u) \in Databases \union {Null}
  BY ConstantsAssumption DEF RequestedDb
<1>3. Rel(u) \in bound[u] => RequestedDb(u) \in Databases
  BY ConstantsAssumption DEF RequestedDb
<1> QED BY <1>1, <1>2, <1>3 DEF RequestedConfig, Config

\* What is an event: the notices that Juju, ops and the charm itself emit.
LEMMA EventType ==
  /\ \A k \in UnitKinds : Ev(k, NoRel) \in Event
  /\ \A k \in RelationKinds, r \in Relations : Ev(k, r) \in Event
  /\ Idle \in Event
  /\ \A e \in Event : e.kind \in RelationKinds => e.rel \in Relations
BY DEF Event, Ev, UnitKinds, RelationKinds, Idle

\* What a handler may use of the notice that it handles.
LEMMA HandlingType ==
  ASSUME TypeOK, NEW u \in Units, NEW k, Handling(u, k)
  PROVE  /\ hook[u] \in Hook
         /\ hook[u].todo \in Seq(Event)
         /\ hook[u].todo # <<>>
         /\ Handled(hook[u]) \in Hook
         /\ Kept(hook[u]) \in Hook
         /\ k \in RelationKinds => Rel(u) \in Relations
<1>1. hook[u] \in Hook /\ hook[u].todo # <<>>
  BY DEF TypeOK, Handling
<1>2. Head(hook[u].todo) \in Event
  BY <1>1, HandledType
<1> QED BY <1>1, <1>2, HandledType, EventType DEF Handling, Rel, Hook

\* A failed hook keeps the types of all that it touches.
LEMMA DiscardType ==
  ASSUME TypeOK, NEW u \in Units, Discard(u)
  PROVE  /\ hook' \in [Units -> Hook]
         /\ buf' \in AppData
         /\ pending' \in [Units -> SUBSET Event]
         /\ UNCHANGED <<juju, app, bag, deferred, ready, ini>>
<1>1. NoHook(bag[u]) \in Hook
  BY NoHookType DEF TypeOK
<1>2. hook[u].ev \in Event
  BY DEF TypeOK, Hook
<1> QED BY <1>1, <1>2 DEF Discard, TypeOK

\* Counting a disturbance.
LEMMA SpendType ==
  ASSUME TypeOK, NEW d \in Disturbances, Spend(d)
  PROVE  spent' \in [Disturbances -> Nat]
BY DEF TypeOK, Spend

\* Starting a hook with its deferred notices in front.
LEMMA RunHookType ==
  ASSUME TypeOK, NEW u \in Units, NEW e \in Event, RunHook(u, e),
         pending' \in [Units -> SUBSET Event]
  PROVE  TypeOK'
<1>1. Append(deferred[u], e) \in Seq(Event)
  BY AppendProperties DEF TypeOK
<1>2. [ev |-> e, todo |-> Append(deferred[u], e), kept |-> <<>>, bag |-> bag[u]] \in Hook
  BY <1>1, EmptySeq DEF Hook, TypeOK
<1>3. hook' \in [Units -> Hook]
  BY <1>2 DEF RunHook, TypeOK
<1> QED BY <1>3 DEF RunHook, TypeOK, juju, env

\* Every variable keeps its type.
THEOREM TypeCorrect == Spec => []TypeOK
<1>1. Init => TypeOK
  <2> SUFFICES ASSUME Init PROVE TypeOK
    OBVIOUS
  <2>1. app \in AppData /\ buf \in AppData
    BY DEF Init, AppData, Config, NoDatabases
  <2>2. bag \in [Units -> UnitData]
    BY DEF Init, UnitData
  <2>3. hook \in [Units -> Hook]
    BY <2>2, EventType, EmptySeq DEF Init, Hook
  <2>4. pending \in [Units -> SUBSET Event] /\ deferred \in [Units -> Seq(Event)]
    BY EventType, EmptySeq DEF Init, UnitKinds
  <2> QED BY <2>1, <2>2, <2>3, <2>4 DEF Init, TypeOK, Disturbances
<1>2. TypeOK /\ [Next]_vars => TypeOK'
  <2> SUFFICES ASSUME TypeOK, [Next]_vars PROVE TypeOK'
    OBVIOUS
  <2>1. ASSUME NEW u \in Units, StartHook(u) PROVE TypeOK'
    <3>1. PICK e \in pending[u] : RunHook(u, e) /\ pending' = [pending EXCEPT ![u] = @ \ {e}]
      BY <2>1 DEF StartHook, Start
    <3>2. e \in Event /\ pending' \in [Units -> SUBSET Event]
      BY <3>1 DEF TypeOK
    <3> QED BY <3>1, <3>2, RunHookType
  <2>2. ASSUME NEW u \in Units, StartUpdateStatus(u) PROVE TypeOK'
    <3>1. Ev("update_status", NoRel) \in Event
      BY EventType DEF UnitKinds
    <3> QED BY <2>2, <3>1, RunHookType DEF StartUpdateStatus, TypeOK
  <2>3. ASSUME NEW u \in Units, Commit(u) PROVE TypeOK'
    <3>1. hook[u].bag \in UnitData /\ hook[u].kept \in Seq(Event)
      BY DEF TypeOK, Hook
    <3>2. NoHook(hook[u].bag) \in Hook
      BY <3>1, NoHookType
    <3>3. hook' \in [Units -> Hook] /\ bag' \in [Units -> UnitData]
          /\ deferred' \in [Units -> Seq(Event)]
      BY <2>3, <3>1, <3>2 DEF Commit, TypeOK
    <3>4. app' \in AppData /\ bound' \in [Units -> SUBSET Relations]
      BY <2>3 DEF Commit, TypeOK
    <3>5. pending' \in [Units -> SUBSET Event]
      BY <2>3, EventType DEF Commit, TypeOK, UnitKinds
    <3> QED BY <2>3, <3>3, <3>4, <3>5 DEF Commit, TypeOK, env
  <2>4. ASSUME NEW u \in Units, Handle(u) PROVE TypeOK'
    <3>0. ViewCfg(u) \in Config
      BY DEF ViewCfg, TypeOK, AppData
    <3>1. CASE UpdateStatus(u)
      <4>1. Handled(hook[u]) \in Hook
        BY <3>1, HandlingType DEF UpdateStatus
      <4> QED BY <3>1, <4>1 DEF UpdateStatus, Finish, TypeOK, juju, env
    <3>2. CASE PebbleReady(u)
      <4>1. Handled(hook[u]) \in Hook
        BY <3>2, HandlingType DEF PebbleReady
      <4>2. [Handled(hook[u]) EXCEPT !.bag.init = TRUE] \in Hook
        BY <4>1 DEF Hook, UnitData
      <4> QED BY <3>0, <3>2, <4>2 DEF PebbleReady, TypeOK, juju, env
    <3>3. CASE ConfigChanged(u)
      <4>1. Handled(hook[u]) \in Hook /\ Kept(hook[u]) \in Hook
        BY <3>3, HandlingType DEF ConfigChanged
      <4>2. hook' \in [Units -> Hook]
        BY <3>3, <4>1 DEF ConfigChanged, Finish, Defer, TypeOK
      <4> QED BY <3>0, <3>3, <4>2 DEF ConfigChanged, Rendered, TypeOK, juju, env
    <3>4. CASE PeersChanged(u)
      <4>1. Handled(hook[u]) \in Hook
        BY <3>4, HandlingType DEF PeersChanged, PeersServed
      <4>2. [Handled(hook[u]) EXCEPT !.bag.ack = ViewCfg(u)] \in Hook
        BY <3>0, <4>1 DEF Hook, UnitData
      <4>3. hook' \in [Units -> Hook]
        BY <3>4, <4>2 DEF PeersChanged, TypeOK
      <4> QED BY <3>0, <3>4, <4>3 DEF PeersChanged, Rendered, TypeOK, juju, env
    <3>5. CASE RelationChanged(u)
      <4>1. /\ Handled(hook[u]) \in Hook /\ Rel(u) \in Relations
            /\ hook[u] \in Hook /\ hook[u].todo \in Seq(Event) /\ hook[u].todo # <<>>
        BY <3>5, HandlingType DEF RelationChanged, RelationKinds
      <4>2. <<Ev("database_requested", Rel(u))>> \o Tail(hook[u].todo) \in Seq(Event)
        BY <4>1, EventType, HeadTailProperties, ConcatProperties DEF RelationKinds
      <4>3. [hook[u] EXCEPT !.todo = <<Ev("database_requested", Rel(u))>> \o Tail(@)] \in Hook
        BY <4>1, <4>2 DEF Hook
      <4>4. hook' \in [Units -> Hook]
        BY <3>5, <4>1, <4>3 DEF RelationChanged, Finish, TypeOK
      <4>5. buf' \in AppData
        <5>1. [buf EXCEPT !.seen = @ \union {Rel(u)}] \in AppData
          BY <4>1 DEF TypeOK, AppData
        <5> QED BY <3>5, <5>1 DEF RelationChanged, TypeOK
      <4> QED BY <3>5, <4>4, <4>5 DEF RelationChanged, TypeOK, juju, env
    <3>6. CASE DropRequest(u) \/ AwaitBackend(u) \/ PeersUnready(u)
      <4>1. Handled(hook[u]) \in Hook /\ Kept(hook[u]) \in Hook
        BY <3>6, HandlingType DEF DropRequest, AwaitBackend, PeersUnready
      <4>2. hook' \in [Units -> Hook]
        BY <3>6, <4>1 DEF DropRequest, AwaitBackend, PeersUnready, Finish, Defer, TypeOK
      <4>3. UNCHANGED <<juju, env, app, buf, bag, pending, deferred, ready, ini, pg, refused>>
        BY <3>6 DEF DropRequest, AwaitBackend, PeersUnready
      <4> QED BY <4>2, <4>3 DEF TypeOK, juju, env
    <3>7. CASE \/ UpdateStatusMisconfigured(u) \/ PebbleReadyMisconfigured(u)
               \/ PeersTooEarly(u) \/ PeersMisconfigured(u) \/ RequestMisconfigured(u)
               \/ RevokeFails(u)
      <4>1. Discard(u) /\ UNCHANGED <<env, pg, refused>>
        BY <3>7 DEF UpdateStatusMisconfigured, PebbleReadyMisconfigured, PeersTooEarly,
           PeersMisconfigured, RequestMisconfigured, RevokeFails, Misread
      <4> QED BY <4>1, DiscardType DEF TypeOK, juju, env
    <3>8. CASE Servable(u)
      <4>1. Handled(hook[u]) \in Hook /\ Kept(hook[u]) \in Hook /\ Rel(u) \in Relations
        BY <3>8, HandlingType DEF Servable, RelationKinds
      <4>2. RequestedConfig(u) \in Config
        BY <4>1, ConfigType
      <4>3. DbOf[Rel(u)] \in Databases
        BY <4>1, ConstantsAssumption
      <4>4. CASE AwaitPeers(u)
        BY <4>1, <4>2, <4>4 DEF AwaitPeers, Defer, TypeOK, AppData, juju, env
      <4>5. CASE Grant(u)
        <5>1. buf' \in AppData
          BY <4>1, <4>2, <4>5 DEF Grant, TypeOK, AppData
        <5>2. pg' \in [users : SUBSET Relations, dbs : SUBSET Databases, auth : SUBSET Databases]
          BY <4>1, <4>3, <4>5 DEF Grant, TypeOK
        <5> QED BY <4>1, <4>2, <4>5, <5>1, <5>2 DEF Grant, Finish, Rendered, TypeOK, juju, env
      <4>6. CASE Refuse(u)
        <5>1. buf' \in AppData
          BY <4>1, <4>2, <4>6 DEF Refuse, Blocks, TypeOK, AppData
        <5>2. pg' \in [users : SUBSET Relations, dbs : SUBSET Databases, auth : SUBSET Databases]
          BY <4>1, <4>3, <4>6 DEF Refuse, Blocks, TypeOK
        <5> QED BY <4>1, <4>6, <5>1, <5>2 DEF Refuse, Blocks, Finish, TypeOK, juju, env
      <4>7. CASE RequestOfDeadRelation(u)
        <5>1. pg' \in [users : SUBSET Relations, dbs : SUBSET Databases, auth : SUBSET Databases]
          BY <4>1, <4>7 DEF RequestOfDeadRelation, TypeOK
        <5> QED BY <4>7, <5>1, DiscardType DEF RequestOfDeadRelation, TypeOK, juju, env
      <4>8. CASE GrantTooEarly(u)
        <5>1. pg' \in [users : SUBSET Relations, dbs : SUBSET Databases, auth : SUBSET Databases]
          BY <4>1, <4>3, <4>8 DEF GrantTooEarly, TypeOK
        <5> QED BY <4>8, <5>1, DiscardType DEF GrantTooEarly, TypeOK, juju, env
      <4>9. CASE RequestFails(u)
        <5>1. pg' \in [users : SUBSET Relations, dbs : SUBSET Databases, auth : SUBSET Databases]
          <6>1. /\ pg.users \union {Rel(u)} \in SUBSET Relations
                /\ pg.dbs \union {DbOf[Rel(u)]} \in SUBSET Databases
            BY <4>1, <4>3 DEF TypeOK
          <6> QED BY <4>9, <6>1 DEF RequestFails, TypeOK
        <5>2. buf' \in AppData
          BY <4>1, <4>2, <4>9 DEF RequestFails, Blocks, TypeOK, AppData
        <5>3. hook' \in [Units -> Hook] /\ refused' \subseteq Relations
          BY <4>1, <4>9 DEF RequestFails, Blocks, Finish, TypeOK
        <5> QED BY <4>9, <5>1, <5>2, <5>3, SpendType
                DEF RequestFails, Blocks, Disturbances, TypeOK, juju
      <4>10. \/ AwaitPeers(u) \/ Grant(u) \/ Refuse(u) \/ RequestFails(u)
             \/ RequestOfDeadRelation(u) \/ GrantTooEarly(u)
        BY <2>4, <3>8 DEF Handle, Servable, Handling, UpdateStatus, UpdateStatusMisconfigured,
           PebbleReady, PebbleReadyMisconfigured, ConfigChanged, PeersUnready, PeersTooEarly,
           PeersMisconfigured, PeersChanged, PeersServed, RelationChanged, DropRequest,
           AwaitBackend, RequestMisconfigured, Misread, RelationDeparted, IgnoreBroken,
           KeepRelation, Revoke, RevokeFails, Revocable
      <4> QED BY <4>4, <4>5, <4>6, <4>7, <4>8, <4>9, <4>10
    <3>9. CASE RelationDeparted(u) \/ KeepRelation(u)
      <4>1. hook[u] \in Hook /\ hook[u].todo # <<>> /\ Rel(u) \in Relations
        BY <3>9, HandlingType DEF RelationDeparted, KeepRelation, Revocable, RelationKinds
      <4>2. hook[u].bag.departing \subseteq Relations
        BY <4>1 DEF Hook, UnitData
      <4>3. hook' \in [Units -> Hook]
        <5>1. CASE RelationDeparted(u)
          <6>1. Flagged(hook[u], hook[u].bag.departing \union {Rel(u)}) \in Hook
            BY <4>1, <4>2, FlaggedType
          <6> QED BY <5>1, <6>1 DEF RelationDeparted, TypeOK
        <5>2. CASE KeepRelation(u)
          <6>1. Flagged(hook[u], hook[u].bag.departing \ {Rel(u)}) \in Hook
            BY <4>1, <4>2, FlaggedType
          <6> QED BY <5>2, <6>1 DEF KeepRelation, TypeOK
        <5> QED BY <3>9, <5>1, <5>2
      <4>4. UNCHANGED <<juju, env, app, buf, bag, pending, deferred, ready, ini, pg, refused>>
        BY <3>9 DEF RelationDeparted, KeepRelation
      <4> QED BY <4>3, <4>4 DEF TypeOK, juju, env
    <3>10. CASE IgnoreBroken(u)
      <4>1. Handled(hook[u]) \in Hook
        BY <3>10, HandlingType DEF IgnoreBroken
      <4> QED BY <3>10, <4>1 DEF IgnoreBroken, Finish, TypeOK, juju, env
    <3>11. CASE Revoke(u)
      <4>1. Handled(hook[u]) \in Hook /\ Rel(u) \in Relations
        BY <3>11, HandlingType DEF Revoke, Revocable, RelationKinds
      <4>2. buf' \in AppData
        BY <3>11, <4>1 DEF Revoke, TypeOK, AppData, Config
      <4>3. pg' \in [users : SUBSET Relations, dbs : SUBSET Databases, auth : SUBSET Databases]
        BY <3>11 DEF Revoke, TypeOK
      <4> QED BY <3>11, <4>1, <4>2, <4>3 DEF Revoke, Finish, TypeOK, juju, env
    <3> QED BY <2>4, <3>1, <3>2, <3>3, <3>4, <3>5, <3>6, <3>7, <3>8, <3>9, <3>10, <3>11
            DEF Handle, AwaitPeers, Grant, Refuse, Blocks, RequestFails, RequestOfDeadRelation,
                GrantTooEarly, Provisionable, Acceptable
  <2>5. ASSUME NEW u \in Units, UnitGone(u) PROVE TypeOK'
    <3>1. deferred' \in [Units -> Seq(Event)]
      BY <2>5, EmptySeq DEF UnitGone, TypeOK
    <3> QED BY <2>5, <3>1 DEF UnitGone, TypeOK, juju, env
  <2>6. ASSUME NEW u \in Units, Crash(u) PROVE TypeOK'
    BY <2>6, DiscardType, SpendType DEF Crash, Disturbances, TypeOK, juju
  <2>7. ASSUME NEW u \in Units, ProvisioningFails(u) PROVE TypeOK'
    <3>1. Rel(u) \in Relations
      BY <2>7, HandlingType DEF ProvisioningFails, Provisionable, Acceptable, Servable,
                                RelationKinds
    <3>2. pg' \in [users : SUBSET Relations, dbs : SUBSET Databases, auth : SUBSET Databases]
      BY <2>7, <3>1, ConstantsAssumption DEF ProvisioningFails, TypeOK
    <3> QED BY <2>7, <3>2, DiscardType, SpendType
            DEF ProvisioningFails, Disturbances, TypeOK, juju
  <2>8. ASSUME NEW u \in Units, ElectLeader(u) PROVE TypeOK'
    <3>1. spent' \in [Disturbances -> Nat]
      BY <2>8, SpendType DEF ElectLeader, Disturbances, TypeOK
    <3> QED BY <2>8, <3>1 DEF ElectLeader, TypeOK
  <2>9. ASSUME NEW u \in Units, Leave(u) PROVE TypeOK'
    <3>1. pending' \in [Units -> SUBSET Event]
      <4>1. \A k \in {"relation_departed", "relation_broken"}, r \in bound[u] : Ev(k, r) \in Event
        BY EventType DEF TypeOK, RelationKinds
      <4> QED BY <2>9, <4>1 DEF Leave, TypeOK
    <3> QED BY <2>9, <3>1, SpendType DEF Leave, Disturbances, TypeOK
  <2>10. ASSUME NEW u \in Units, ContainerRestart(u) PROVE TypeOK'
    <3>1. Ev("pebble_ready", NoRel) \in Event
      BY EventType DEF UnitKinds
    <3>2. spent' \in [Disturbances -> Nat] /\ pending' \in [Units -> SUBSET Event]
      BY <2>10, <3>1, SpendType DEF ContainerRestart, Deliver, Disturbances, TypeOK
    <3> QED BY <2>10, <3>2 DEF ContainerRestart, TypeOK, juju
  <2>11. ASSUME NEW r \in Relations, AddRelation(r) PROVE TypeOK'
    <3>1. Ev("relation_changed", r) \in Event
      BY EventType DEF RelationKinds
    <3> QED BY <2>11, <3>1 DEF AddRelation, Deliver, TypeOK, env
  <2>12. ASSUME NEW r \in Relations, RemoveRelation(r) PROVE TypeOK'
    <3>1. Ev("relation_broken", r) \in Event
      BY EventType DEF RelationKinds
    <3>2. spent' \in [Disturbances -> Nat] /\ pending' \in [Units -> SUBSET Event]
      BY <2>12, <3>1, SpendType DEF RemoveRelation, Disturbances, TypeOK
    <3> QED BY <2>12, <3>2 DEF RemoveRelation, TypeOK
  <2>13. CASE Outage
    BY <2>13, SpendType DEF Outage, Disturbances, TypeOK, juju
  <2>14. CASE Recover
    BY <2>14 DEF Recover, TypeOK, juju
  <2>15. CASE Misconfigure \/ Reconfigure
    <3>1. Ev("config_changed", NoRel) \in Event
      BY EventType DEF UnitKinds
    <3>2. spent' \in [Disturbances -> Nat]
      BY <2>15, SpendType DEF Misconfigure, Reconfigure, Disturbances, TypeOK
    <3>3. pending' \in [Units -> SUBSET Event]
      <4>1. pending' = Deliver(members, {Ev("config_changed", NoRel)})
        BY <2>15 DEF Misconfigure, Reconfigure
      <4> QED BY <3>1, <4>1 DEF Deliver, TypeOK
    <3>4. /\ configOK' \in BOOLEAN
          /\ UNCHANGED <<juju, backend, app, buf, bag, hook, deferred, ready, ini, pg, refused>>
      BY <2>15 DEF Misconfigure, Reconfigure
    <3> QED BY <3>2, <3>3, <3>4 DEF TypeOK, juju
  <2>16. CASE UNCHANGED vars
    BY <2>16 DEF vars, TypeOK
  <2> QED BY <2>1, <2>2, <2>3, <2>4, <2>5, <2>6, <2>7, <2>8, <2>9, <2>10, <2>11, <2>12, <2>13,
             <2>14, <2>15, <2>16 DEF Next, Work, Disturb
<1> QED BY <1>1, <1>2, PTL DEF Spec

----------------------------------------------------------------------------
(* The departing flag: whatever the interleaving of hooks, failures, retries, elections and   *)
(* scale-downs, the PostgreSQL user of a living relation is never dropped.  The invariant is  *)
(* BrokenExcused: a unit that is to handle relation-broken of a living relation has the flag  *)
(* in its databag, or gets it first, and no failed hook loses it.                             *)

IInv == TypeOK /\ BrokenExcused

UnitInv(u) ==
  LeavesLast(u) /\ FlagKept(u) /\ FlagSet(u) /\ BrokenFlagged(u) /\ BrokenExpected(u)

\* No unit is disturbed by a step that leaves its hook, its notices and its databag
\* alone, and that delivers relation-broken only to excuse it.
LEMMA Undisturbed ==
  ASSUME IInv, NEW v \in Units,
         hook'[v] = hook[v], bag'[v] = bag[v], deferred'[v] = deferred[v],
         \A r \in Relations : client[r] = "dying" => client'[r] = "dying",
         \A r \in Relations : Ev("relation_broken", r) \in pending'[v] =>
           \/ client'[r] = "dying"
           \/ Ev("relation_departed", r) \in pending'[v]
           \/ /\ Ev("relation_broken", r) \in pending[v]
              /\ Ev("relation_departed", r) \notin pending[v]
  PROVE  UnitInv(v)'
<1>1. UnitInv(v)
  BY DEF IInv, BrokenExcused, UnitInv
<1>2. LeavesLast(v)' /\ FlagKept(v)' /\ FlagSet(v)'
  BY <1>1 DEF UnitInv, LeavesLast, FlagKept, FlagSet
<1>3. BrokenFlagged(v)'
  BY <1>1 DEF UnitInv, BrokenFlagged
<1>4. BrokenExpected(v)'
  BY <1>1 DEF UnitInv, BrokenExpected
<1> QED BY <1>2, <1>3, <1>4 DEF UnitInv

\* A failed hook hands its event back, and the flag is still in the databag.
LEMMA DiscardInv ==
  ASSUME IInv, NEW u \in Units, Discard(u)
  PROVE  BrokenExcused'
<1>0. TypeOK /\ UnitInv(u) /\ hook[u].ev \in Event
  BY DEF IInv, BrokenExcused, UnitInv, TypeOK, Hook
<1>1. /\ hook'[u] = NoHook(bag[u])
      /\ \A v \in Units \ {u} : hook'[v] = hook[v] /\ pending'[v] = pending[v]
      /\ UNCHANGED <<bag, deferred, client>>
      /\ pending'[u] \subseteq pending[u] \union {hook[u].ev}
      /\ hook[u].ev.kind # "update_status" => pending'[u] = pending[u] \union {hook[u].ev}
      /\ hook[u].ev.kind = "update_status" => pending'[u] = pending[u]
  BY <1>0 DEF Discard, TypeOK, juju
<1>2. ASSUME NEW v \in Units, v # u PROVE UnitInv(v)'
  BY <1>1, <1>2, Undisturbed
<1>3. UnitInv(u)'
  <2>1. LeavesLast(u)' /\ FlagKept(u)' /\ FlagSet(u)' /\ BrokenFlagged(u)'
    BY <1>0, <1>1 DEF UnitInv, NoHook, LeavesLast, FlagKept, FlagSet, BrokenFlagged, Idle, Ev
  <2>2. ASSUME NEW r \in Relations, Ev("relation_broken", r) \in pending'[u]
        PROVE  \/ client'[r] = "dying"
               \/ Ev("relation_departed", r) \in pending'[u]
               \/ r \in bag'[u].departing /\ hook'[u].ev # Ev("relation_broken", r)
    <3>1. CASE hook[u].ev = Ev("relation_broken", r)
      BY <1>0, <1>1, <3>1 DEF UnitInv, BrokenFlagged, NoHook, Idle, Ev
    <3>2. CASE hook[u].ev # Ev("relation_broken", r)
      <4>1. Ev("relation_broken", r) \in pending[u]
        BY <1>1, <2>2, <3>2
      <4>2. CASE hook[u].ev = Ev("relation_departed", r)
        BY <1>1, <4>2 DEF Ev
      <4> QED BY <1>0, <1>1, <4>1, <4>2 DEF UnitInv, BrokenExpected, NoHook, Idle, Ev
    <3> QED BY <3>1, <3>2
  <2> QED BY <2>1, <2>2 DEF UnitInv, BrokenExpected
<1> QED BY <1>2, <1>3 DEF BrokenExcused, UnitInv

\* The sequence with one more notice at its end.
LEMMA Appended ==
  ASSUME NEW s \in Seq(Event), NEW e \in Event, NEW t, t = Append(s, e)
  PROVE  /\ Len(s) \in Nat /\ DOMAIN s = 1 .. Len(s)
         /\ DOMAIN t = 1 .. Len(s) + 1
         /\ t[Len(s) + 1] = e
         /\ \A i \in 1 .. Len(s) : t[i] = s[i]
         /\ \A i \in 1 .. Len(s) + 1 : i \in 1 .. Len(s) \/ i = Len(s) + 1
  OBVIOUS

\* The sequence with another notice in the place of its first one.
WithHead(e, s) == <<e>> \o Tail(s)

LEMMA HeadReplaced ==
  ASSUME NEW s \in Seq(Event), s # <<>>, NEW e \in Event
  PROVE  /\ Len(WithHead(e, s)) = Len(s) /\ DOMAIN WithHead(e, s) = 1 .. Len(s)
         /\ WithHead(e, s)[1] = e
         /\ \A i \in 2 .. Len(s) : WithHead(e, s)[i] = s[i]
<1> DEFINE t == WithHead(e, s)
<1>1. /\ Len(s) \in Nat \ {0}
      /\ Tail(s) \in Seq(Event) /\ Len(Tail(s)) = Len(s) - 1
      /\ \A i \in 1 .. Len(s) - 1 : Tail(s)[i] = s[i + 1]
  BY HeadTailProperties
<1>2. /\ t \in Seq(Event) /\ Len(t) = 1 + Len(Tail(s)) /\ t[1] = e
      /\ \A i \in 2 .. Len(s) : t[i] = Tail(s)[i - 1]
  BY <1>1 DEF WithHead
<1> HIDE DEF t
<1>3. \A i \in 2 .. Len(s) : t[i] = s[i]
  BY <1>1, <1>2
<1>4. Len(t) = Len(s) /\ DOMAIN t = 1 .. Len(s)
  BY <1>1, <1>2
<1> QED BY <1>2, <1>3, <1>4 DEF t

\* A handler other than that of relation-departed takes its notice off the hook and
\* leaves the flags alone.
LEMMA HandlerInv ==
  ASSUME IInv, NEW u \in Units, NEW k, Handling(u, k), k # "relation_departed",
         hook'[u].ev = hook[u].ev,
         hook'[u].bag.departing = hook[u].bag.departing,
         \/ hook'[u].todo = Tail(hook[u].todo)
         \/ /\ k = "relation_changed"
            /\ \E e \in Event : /\ e.kind = "database_requested"
                                /\ hook'[u].todo = <<e>> \o Tail(hook[u].todo),
         \/ hook'[u].kept = hook[u].kept
         \/ /\ k \notin LeaveKinds
            /\ hook'[u].kept = Append(hook[u].kept, Head(hook[u].todo)),
         \A v \in Units \ {u} : hook'[v] = hook[v],
         UNCHANGED <<client, bag, pending, deferred>>
  PROVE  BrokenExcused'
<1>0. UnitInv(u) /\ hook[u] \in Hook /\ hook[u].todo \in Seq(Event) /\ hook[u].todo # <<>>
      /\ hook[u].kept \in Seq(Event)
  BY HandlingType DEF IInv, BrokenExcused, UnitInv, TypeOK, Hook
<1>1. ASSUME NEW v \in Units, v # u PROVE UnitInv(v)'
  BY <1>1, Undisturbed
<1>2. UnitInv(u)'
  <2>1. /\ Len(hook[u].todo) \in Nat \ {0}
        /\ Tail(hook[u].todo) \in Seq(Event)
        /\ Len(Tail(hook[u].todo)) = Len(hook[u].todo) - 1
        /\ \A i \in 1 .. Len(Tail(hook[u].todo)) :
             Tail(hook[u].todo)[i] = hook[u].todo[i + 1]
        /\ Head(hook[u].todo) = hook[u].todo[1]
        /\ hook[u].todo[1].kind = k
    BY <1>0, HeadTailProperties DEF Handling
  <2>2. \A i \in DOMAIN hook'[u].todo : hook'[u].todo[i].kind \in LeaveKinds =>
          i = Len(hook'[u].todo) /\ hook'[u].todo[i] = hook'[u].ev
    <3>1. \A i \in DOMAIN hook[u].todo : hook[u].todo[i].kind \in LeaveKinds =>
            i = Len(hook[u].todo) /\ hook[u].todo[i] = hook[u].ev
      BY <1>0 DEF UnitInv, LeavesLast
    <3>2. CASE hook'[u].todo = Tail(hook[u].todo)
      BY <1>0, <2>1, <3>1, <3>2
    <3>3. ASSUME NEW e \in Event, e.kind = "database_requested",
                 hook'[u].todo = <<e>> \o Tail(hook[u].todo)
          PROVE  \A i \in DOMAIN hook'[u].todo : hook'[u].todo[i].kind \in LeaveKinds =>
                   i = Len(hook'[u].todo) /\ hook'[u].todo[i] = hook'[u].ev
      <4>1. /\ Len(hook'[u].todo) = Len(hook[u].todo)
            /\ DOMAIN hook'[u].todo = 1 .. Len(hook[u].todo)
            /\ hook'[u].todo[1] = e
            /\ \A i \in 2 .. Len(hook[u].todo) : hook'[u].todo[i] = hook[u].todo[i]
        <5>1. hook'[u].todo = WithHead(e, hook[u].todo)
          BY <3>3 DEF WithHead
        <5> QED BY <1>0, <5>1, HeadReplaced
      <4>2. /\ DOMAIN hook[u].todo = 1 .. Len(hook[u].todo)
            /\ \A i \in 1 .. Len(hook[u].todo) : i = 1 \/ i \in 2 .. Len(hook[u].todo)
        BY <1>0, <2>1
      <4>3. e.kind \notin LeaveKinds
        BY <3>3 DEF LeaveKinds
      <4>4. ASSUME NEW i \in 1 .. Len(hook[u].todo), hook'[u].todo[i].kind \in LeaveKinds
            PROVE  i = Len(hook'[u].todo) /\ hook'[u].todo[i] = hook'[u].ev
        <5>1. i \in 2 .. Len(hook[u].todo)
          BY <4>1, <4>2, <4>3, <4>4, Zenon
        <5> QED BY <3>1, <4>1, <4>2, <4>4, <5>1, Zenon
      <4> QED BY <4>1, <4>4, Zenon
    <3> QED BY <3>2, <3>3
  <2>3. \A i \in DOMAIN hook'[u].kept : hook'[u].kept[i].kind \notin LeaveKinds
    <3>1. \A i \in DOMAIN hook[u].kept : hook[u].kept[i].kind \notin LeaveKinds
      BY <1>0 DEF UnitInv, LeavesLast
    <3>2. CASE /\ k \notin LeaveKinds
               /\ hook'[u].kept = Append(hook[u].kept, Head(hook[u].todo))
      <4>1. /\ DOMAIN hook[u].kept = 1 .. Len(hook[u].kept)
            /\ DOMAIN hook'[u].kept = 1 .. Len(hook[u].kept) + 1
            /\ hook'[u].kept[Len(hook[u].kept) + 1] = Head(hook[u].todo)
            /\ \A i \in 1 .. Len(hook[u].kept) : hook'[u].kept[i] = hook[u].kept[i]
            /\ \A i \in 1 .. Len(hook[u].kept) + 1 :
                 i \in 1 .. Len(hook[u].kept) \/ i = Len(hook[u].kept) + 1
        <5> DEFINE s == hook[u].kept
                   t == hook'[u].kept
                   x == Head(hook[u].todo)
        <5>1. s \in Seq(Event) /\ x \in Event /\ t = Append(s, x)
          BY <1>0, <3>2, HandledType
        <5> HIDE DEF s, t, x
        <5>2. /\ DOMAIN s = 1 .. Len(s) /\ DOMAIN t = 1 .. Len(s) + 1
              /\ t[Len(s) + 1] = x /\ \A i \in 1 .. Len(s) : t[i] = s[i]
              /\ \A i \in 1 .. Len(s) + 1 : i \in 1 .. Len(s) \/ i = Len(s) + 1
          BY <5>1, Appended
        <5> QED BY <5>2 DEF s, t, x
      <4>2. Head(hook[u].todo).kind = k
        BY <2>1
      <4> QED BY <3>1, <3>2, <4>1, <4>2, Zenon
    <3> QED BY <3>1, <3>2
  <2>4. LeavesLast(u)'
    BY <1>0, <2>2, <2>3 DEF UnitInv, LeavesLast
  <2>5. FlagKept(u)' /\ BrokenExpected(u)'
    BY <1>0 DEF UnitInv, FlagKept, BrokenExpected
  <2>6. FlagSet(u)'
    <3> SUFFICES ASSUME NEW r \in Relations, hook[u].ev = Ev("relation_departed", r),
                        NEW i \in DOMAIN hook[u].todo, hook[u].todo[i] = hook[u].ev
                 PROVE  \E j \in DOMAIN hook'[u].todo : hook'[u].todo[j] = hook'[u].ev
      BY <1>0 DEF UnitInv, FlagSet
    <3>1. i \in 2 .. Len(hook[u].todo)
      BY <1>0, <2>1 DEF Ev
    <3>2. CASE hook'[u].todo = Tail(hook[u].todo)
      <4>1. i - 1 \in DOMAIN hook'[u].todo /\ hook'[u].todo[i - 1] = hook[u].todo[i]
        BY <1>0, <2>1, <3>1, <3>2
      <4> QED BY <4>1
    <3>3. ASSUME NEW e \in Event, hook'[u].todo = <<e>> \o Tail(hook[u].todo)
          PROVE  \E j \in DOMAIN hook'[u].todo : hook'[u].todo[j] = hook'[u].ev
      <4>1. /\ DOMAIN hook'[u].todo = 1 .. Len(hook[u].todo)
            /\ \A j \in 2 .. Len(hook[u].todo) : hook'[u].todo[j] = hook[u].todo[j]
        <5>1. hook'[u].todo = WithHead(e, hook[u].todo)
          BY <3>3 DEF WithHead
        <5> QED BY <1>0, <5>1, HeadReplaced
      <4>2. i \in 1 .. Len(hook[u].todo)
        BY <2>1, <3>1
      <4>3. hook'[u].todo[i] = hook'[u].ev
        BY <3>1, <4>1, Zenon
      <4> QED BY <4>1, <4>2, <4>3, Zenon
    <3> QED BY <3>2, <3>3
  <2>7. BrokenFlagged(u)'
    BY <1>0 DEF UnitInv, BrokenFlagged
  <2> QED BY <2>4, <2>5, <2>6, <2>7 DEF UnitInv
<1> QED BY <1>1, <1>2 DEF BrokenExcused, UnitInv

\* A hook starts with the databag, flags included, and with the deferred notices in
\* front of its own event.
LEMMA StartInv ==
  ASSUME IInv, NEW u \in Units, NEW e \in Event, RunHook(u, e),
         pending'[u] \subseteq pending[u],
         \A r \in Relations : e # Ev("relation_departed", r) =>
           (Ev("relation_departed", r) \in pending[u] => Ev("relation_departed",
              r) \in pending'[u]),
         \A r \in Relations : e = Ev("relation_broken", r) =>
           /\ e \in pending[u] /\ e \notin pending'[u]
           /\ Ev("relation_departed", r) \notin pending[u],
         \A v \in Units \ {u} : pending'[v] = pending[v]
  PROVE  BrokenExcused'
<1>0. TypeOK /\ UnitInv(u) /\ hook[u].ev = Idle /\ deferred[u] \in Seq(Event)
  BY DEF IInv, BrokenExcused, UnitInv, TypeOK, RunHook, InHook
<1>1. /\ hook'[u].ev = e /\ hook'[u].todo = Append(deferred[u], e)
      /\ hook'[u].kept = <<>> /\ hook'[u].bag = bag[u]
      /\ \A v \in Units \ {u} : hook'[v] = hook[v]
      /\ UNCHANGED <<bag, deferred, client>>
  BY <1>0 DEF RunHook, TypeOK, juju
<1>2. ASSUME NEW v \in Units, v # u PROVE UnitInv(v)'
  BY <1>1, <1>2, Undisturbed
<1>3. UnitInv(u)'
  <2>1. /\ DOMAIN hook'[u].todo = 1 .. Len(deferred[u]) + 1
        /\ Len(hook'[u].todo) = Len(deferred[u]) + 1
        /\ hook'[u].todo[Len(deferred[u]) + 1] = e
        /\ \A i \in 1 .. Len(deferred[u]) : hook'[u].todo[i] = deferred[u][i]
    BY <1>0, <1>1
  <2>2. LeavesLast(u)'
    <3>1. \A i \in DOMAIN deferred[u] : deferred[u][i].kind \notin LeaveKinds
      BY <1>0 DEF UnitInv, LeavesLast
    <3> QED BY <1>0, <1>1, <2>1, <3>1 DEF LeavesLast
  <2>3. FlagKept(u)'
    BY <1>1 DEF FlagKept
  <2>4. FlagSet(u)'
    BY <1>0, <1>1, <2>1 DEF FlagSet
  <2>5. ASSUME NEW r \in Relations, Ev("relation_broken", r) \in pending[u],
               Ev("relation_departed", r) \notin pending[u]
        PROVE  client[r] = "dying" \/ r \in bag[u].departing
    BY <1>0, <2>5 DEF UnitInv, BrokenExpected, Idle, Ev
  <2>6. BrokenFlagged(u)'
    BY <1>1, <2>5 DEF BrokenFlagged
  <2>7. BrokenExpected(u)'
    BY <1>1, <2>5 DEF BrokenExpected
  <2> QED BY <2>2, <2>3, <2>4, <2>6, <2>7 DEF UnitInv
<1> QED BY <1>2, <1>3 DEF BrokenExcused, UnitInv

\* A hook that succeeds publishes its flags and forgets only that of its own relation.
LEMMA CommitInv ==
  ASSUME IInv, NEW u \in Units, Commit(u)
  PROVE  BrokenExcused'
<1>0. TypeOK /\ UnitInv(u)
  BY DEF IInv, BrokenExcused, UnitInv
<1>1. /\ hook[u].todo = <<>>
      /\ hook'[u] = NoHook(hook[u].bag)
      /\ bag'[u] = hook[u].bag /\ deferred'[u] = hook[u].kept
      /\ \A v \in Units \ {u} : /\ hook'[v] = hook[v] /\ bag'[v] = bag[v]
                                  /\ deferred'[v] = deferred[v]
      /\ UNCHANGED client
      /\ \A v \in Units, r \in Relations, k \in LeaveKinds :
           Ev(k, r) \in pending'[v] <=> Ev(k, r) \in pending[v]
  <2>1. \A r \in Relations, k \in LeaveKinds : Ev(k, r) # Ev("peers_changed", NoRel)
    BY DEF LeaveKinds, Ev
  <2>2. \A v \in Units : \/ pending'[v] = pending[v]
                         \/ pending'[v] = pending[v] \union {Ev("peers_changed", NoRel)}
    BY <1>0 DEF Commit, TypeOK
  <2>3. \A v \in Units, r \in Relations, k \in LeaveKinds :
           Ev(k, r) \in pending'[v] <=> Ev(k, r) \in pending[v]
    BY <2>1, <2>2
  <2> QED BY <1>0, <2>3 DEF Commit, TypeOK
<1>2. ASSUME NEW v \in Units, v # u PROVE UnitInv(v)'
  BY <1>1, <1>2, Undisturbed DEF LeaveKinds
<1>3. UnitInv(u)'
  <2>1. LeavesLast(u)' /\ FlagKept(u)' /\ FlagSet(u)' /\ BrokenFlagged(u)'
    BY <1>0, <1>1 DEF UnitInv, NoHook, LeavesLast, FlagKept, FlagSet, BrokenFlagged, Idle, Ev
  <2>2. ASSUME NEW r \in Relations, Ev("relation_broken", r) \in pending'[u]
        PROVE  \/ client'[r] = "dying"
               \/ Ev("relation_departed", r) \in pending'[u]
               \/ r \in bag'[u].departing /\ hook'[u].ev # Ev("relation_broken", r)
    <3>1. Ev("relation_broken", r) \in pending[u]
      BY <1>1, <2>2 DEF LeaveKinds
    <3>2. CASE hook[u].ev = Ev("relation_departed", r)
      <4>1. r \in hook[u].bag.departing
        BY <1>0, <1>1, <3>2 DEF UnitInv, FlagSet
      <4> QED BY <1>1, <4>1 DEF NoHook, Idle, Ev
    <3>3. CASE r \in bag[u].departing /\ hook[u].ev # Ev("relation_broken", r)
      BY <1>0, <1>1, <3>3 DEF UnitInv, FlagKept, NoHook, Idle, Ev
    <3> QED BY <1>0, <1>1, <3>1, <3>2, <3>3 DEF UnitInv, BrokenExpected, LeaveKinds
  <2> QED BY <2>1, <2>2 DEF UnitInv, BrokenExpected
<1> QED BY <1>2, <1>3 DEF BrokenExcused, UnitInv

\* Setting the flag (relation-departed) and taking it back (relation-broken).
LEMMA DepartedInv ==
  ASSUME IInv, NEW u \in Units, RelationDeparted(u) \/ KeepRelation(u)
  PROVE  BrokenExcused'
<1>0. /\ TypeOK /\ UnitInv(u)
      /\ hook[u] \in Hook /\ hook[u].todo \in Seq(Event) /\ hook[u].todo # <<>>
      /\ Rel(u) \in Relations
      /\ UNCHANGED <<client, bag, pending, deferred>>
      /\ Head(hook[u].todo).kind \in LeaveKinds
  BY HandlingType DEF IInv, BrokenExcused, UnitInv, RelationDeparted, KeepRelation, Revocable,
                      RelationKinds, LeaveKinds, Handling, juju
<1>1. /\ Len(hook[u].todo) = 1 /\ Tail(hook[u].todo) = <<>>
      /\ Head(hook[u].todo) = hook[u].ev
      /\ hook[u].ev = Ev(Head(hook[u].todo).kind, Rel(u))
  <2>1. /\ Len(hook[u].todo) \in Nat \ {0} /\ Head(hook[u].todo) = hook[u].todo[1]
        /\ 1 \in DOMAIN hook[u].todo /\ hook[u].todo[1] \in Event
        /\ Len(Tail(hook[u].todo)) = Len(hook[u].todo) - 1
        /\ Tail(hook[u].todo) \in Seq(Event)
    BY <1>0, HeadTailProperties, HandledType
  <2>2. 1 = Len(hook[u].todo) /\ hook[u].todo[1] = hook[u].ev
    BY <1>0, <2>1 DEF UnitInv, LeavesLast
  <2>3. Tail(hook[u].todo) = <<>>
    <3>1. Len(Tail(hook[u].todo)) = 0
      BY <2>1, <2>2
    <3> QED BY <2>1, <3>1, EmptySeq
  <2>4. hook[u].todo[1] = Ev(hook[u].todo[1].kind, hook[u].todo[1].rel)
    BY <2>1 DEF Event, Ev
  <2> QED BY <2>1, <2>2, <2>3, <2>4 DEF Rel
<1>2. ASSUME NEW v \in Units, v # u PROVE UnitInv(v)'
  <2>1. hook'[v] = hook[v]
    BY <1>0, <1>2 DEF TypeOK, RelationDeparted, KeepRelation
  <2> QED BY <1>0, <2>1, Undisturbed
<1>3. UnitInv(u)'
  <2>1. CASE RelationDeparted(u)
    <3>1. /\ hook[u].ev = Ev("relation_departed", Rel(u))
          /\ hook'[u].ev = hook[u].ev /\ hook'[u].todo = <<>> /\ hook'[u].kept = hook[u].kept
          /\ hook'[u].bag.departing = hook[u].bag.departing \union {Rel(u)}
      BY <1>0, <1>1, <2>1 DEF RelationDeparted, Handling, Flagged, TypeOK, Hook, UnitData
    <3> QED BY <1>0, <3>1 DEF UnitInv, LeavesLast, FlagKept, FlagSet, BrokenFlagged,
                              BrokenExpected, Ev
  <2>2. CASE KeepRelation(u)
    <3>1. /\ hook[u].ev = Ev("relation_broken", Rel(u))
          /\ hook'[u].ev = hook[u].ev /\ hook'[u].todo = <<>> /\ hook'[u].kept = hook[u].kept
          /\ hook'[u].bag.departing = hook[u].bag.departing \ {Rel(u)}
      BY <1>0, <1>1, <2>2
         DEF KeepRelation, Revocable, Handling, Flagged, TypeOK, Hook, UnitData
    <3> QED BY <1>0, <3>1 DEF UnitInv, LeavesLast, FlagKept, FlagSet, BrokenFlagged,
                              BrokenExpected, Ev
  <2> QED BY <2>1, <2>2
<1> QED BY <1>2, <1>3 DEF BrokenExcused, UnitInv

\* A unit that has the notice of relation-broken before it, without the flag, is not
\* being scaled down: the relation itself is removed.
LEMMA RevokedIsDying ==
  ASSUME IInv, NEW u \in Units, Revocable(u), Rel(u) \notin hook[u].bag.departing
  PROVE  client[Rel(u)] = "dying"
<1>1. /\ UnitInv(u) /\ hook[u].todo \in Seq(Event) /\ hook[u].todo # <<>>
      /\ Rel(u) \in Relations /\ Head(hook[u].todo).kind = "relation_broken"
      /\ Head(hook[u].todo) \in Event
  BY HandlingType, HandledType
     DEF IInv, BrokenExcused, UnitInv, Revocable, Handling, RelationKinds
<1>2. Head(hook[u].todo) = hook[u].ev
  BY <1>1, HeadTailProperties DEF UnitInv, LeavesLast, LeaveKinds
<1>3. hook[u].ev = Ev("relation_broken", Rel(u))
  BY <1>1, <1>2 DEF Rel, Event, Ev
<1> QED BY <1>1, <1>3 DEF UnitInv, BrokenFlagged

\* An action of hook u that is an ordinary handler: it finishes or keeps its notice.
LEMMA OrdinaryInv ==
  ASSUME IInv, NEW u \in Units, Handle(u), ~Discard(u),
         ~(RelationDeparted(u) \/ KeepRelation(u))
  PROVE  BrokenExcused'
<1> DEFINE h == hook[u]
           Quiet == UNCHANGED <<client, bag, pending, deferred>>
           Done == hook' = [hook EXCEPT ![u] = Handled(@)]
           Later == hook' = [hook EXCEPT ![u] = Kept(@)]
<1>0. TypeOK /\ h \in Hook
  BY DEF IInv, TypeOK
<1>1. /\ Handled(h).ev = h.ev /\ Handled(h).kept = h.kept
      /\ Handled(h).todo = Tail(h.todo) /\ Handled(h).bag = h.bag
      /\ Kept(h).ev = h.ev /\ Kept(h).todo = Tail(h.todo) /\ Kept(h).bag = h.bag
      /\ Kept(h).kept = h.kept \/ Kept(h).kept = Append(h.kept, Head(h.todo))
  BY <1>0 DEF Handled, Kept, Hook
<1>2. ASSUME NEW k, Handling(u, k), k # "relation_departed", Quiet, Done
      PROVE  BrokenExcused'
  BY <1>0, <1>1, <1>2, HandlerInv DEF TypeOK
<1>3. ASSUME NEW k, Handling(u, k), k \notin LeaveKinds, Quiet, Later
      PROVE  BrokenExcused'
  BY <1>0, <1>1, <1>3, HandlerInv DEF TypeOK, LeaveKinds
<1>4. CASE UpdateStatus(u)
  BY <1>2, <1>4 DEF UpdateStatus, Finish, juju
<1>5. CASE PebbleReady(u)
  <2>1. /\ hook'[u].ev = h.ev /\ hook'[u].kept = h.kept /\ hook'[u].todo = Tail(h.todo)
        /\ hook'[u].bag.departing = h.bag.departing
        /\ \A v \in Units \ {u} : hook'[v] = hook[v]
    BY <1>0, <1>1, <1>5, HandlingType DEF PebbleReady, TypeOK, Hook, UnitData
  <2> QED BY <1>5, <2>1, HandlerInv DEF PebbleReady, juju
<1>6. CASE ConfigChanged(u)
  BY <1>2, <1>3, <1>6 DEF ConfigChanged, Finish, Defer, LeaveKinds, juju
<1>7. CASE PeersUnready(u)
  BY <1>3, <1>7 DEF PeersUnready, Defer, LeaveKinds, juju
<1>8. CASE PeersChanged(u)
  <2>1. /\ hook'[u].ev = h.ev /\ hook'[u].kept = h.kept /\ hook'[u].todo = Tail(h.todo)
        /\ hook'[u].bag.departing = h.bag.departing
        /\ \A v \in Units \ {u} : hook'[v] = hook[v]
    BY <1>0, <1>1, <1>8, HandlingType DEF PeersChanged, PeersServed, TypeOK, Hook, UnitData
  <2> QED BY <1>8, <2>1, HandlerInv DEF PeersChanged, PeersServed, juju
<1>9. CASE RelationChanged(u)
  <2>1. CASE Finish(u)
    BY <1>2, <1>9, <2>1 DEF RelationChanged, Finish, juju
  <2>2. CASE hook' = [hook EXCEPT ![u].todo =
                        <<Ev("database_requested", Rel(u))>> \o Tail(@)]
    <3>1. /\ hook'[u].ev = h.ev /\ hook'[u].kept = h.kept /\ hook'[u].bag = h.bag
          /\ hook'[u].todo = <<Ev("database_requested", Rel(u))>> \o Tail(h.todo)
          /\ \A v \in Units \ {u} : hook'[v] = hook[v]
      BY <1>0, <2>2 DEF TypeOK, Hook
    <3>2. /\ Ev("database_requested", Rel(u)) \in Event
          /\ Ev("database_requested", Rel(u)).kind = "database_requested"
      BY <1>0, <1>9, HandlingType, EventType DEF RelationChanged, RelationKinds, Ev
    <3>3. Handling(u, "relation_changed") /\ Quiet
      BY <1>9 DEF RelationChanged, juju
    <3> QED BY <3>1, <3>2, <3>3, HandlerInv
  <2> QED BY <1>9, <2>1, <2>2 DEF RelationChanged
<1>10. CASE DropRequest(u)
  BY <1>2, <1>10 DEF DropRequest, Finish, juju
<1>11. CASE AwaitBackend(u)
  BY <1>3, <1>11 DEF AwaitBackend, Defer, LeaveKinds, juju
<1>12. CASE AwaitPeers(u)
  BY <1>3, <1>12 DEF AwaitPeers, Servable, Defer, LeaveKinds, juju
<1>13. CASE Grant(u)
  BY <1>2, <1>13 DEF Grant, Provisionable, Acceptable, Servable, Finish, juju
<1>14. CASE Refuse(u)
  BY <1>2, <1>14 DEF Refuse, Blocks, Provisionable, Acceptable, Servable, Finish, juju
<1>15. CASE IgnoreBroken(u)
  BY <1>2, <1>15 DEF IgnoreBroken, Finish, juju
<1>16. CASE Revoke(u)
  BY <1>2, <1>16 DEF Revoke, Revocable, Finish, juju
<1>17. CASE RequestFails(u)
  BY <1>2, <1>17 DEF RequestFails, Blocks, Provisionable, Acceptable, Servable, Finish, juju
<1> QED BY <1>4, <1>5, <1>6, <1>7, <1>8, <1>9, <1>10, <1>11, <1>12, <1>13, <1>14, <1>15, <1>16,
           <1>17
        DEF Handle, UpdateStatusMisconfigured, PebbleReadyMisconfigured, PeersTooEarly,
            PeersMisconfigured, RequestMisconfigured, RequestOfDeadRelation, GrantTooEarly,
            RevokeFails, Misread

\* relation-broken of a living relation is always excused by the departing flag.
THEOREM BrokenIsExcused == Spec => []BrokenExcused
<1>1. Init => BrokenExcused
  <2> SUFFICES ASSUME Init, NEW u \in Units PROVE UnitInv(u)
    BY DEF BrokenExcused, UnitInv
  <2>1. /\ hook[u].ev = Idle /\ hook[u].todo = <<>> /\ hook[u].kept = <<>> /\ deferred[u] = <<>>
        /\ bag[u].departing = {} /\ pending[u] = {Ev("pebble_ready", NoRel)}
    BY DEF Init
  <2>2. \A r \in Relations, k \in LeaveKinds :
         Ev(k, r) # Idle /\ Ev(k, r) # Ev("pebble_ready", NoRel)
    BY DEF LeaveKinds, Ev, Idle
  <2>3. LeavesLast(u) /\ FlagKept(u)
    BY <2>1 DEF LeavesLast, FlagKept
  <2>4. FlagSet(u) /\ BrokenFlagged(u) /\ BrokenExpected(u)
    BY <2>1, <2>2 DEF FlagSet, BrokenFlagged, BrokenExpected, LeaveKinds
  <2> QED BY <2>3, <2>4 DEF UnitInv
<1>2. IInv /\ [Next]_vars => BrokenExcused'
  <2> SUFFICES ASSUME IInv, [Next]_vars PROVE BrokenExcused'
    OBVIOUS
  <2>0. TypeOK
    BY DEF IInv
  <2>1. ASSUME UNCHANGED <<hook, bag, deferred>>,
               \A r \in Relations : client[r] = "dying" => client'[r] = "dying",
               \A v \in Units, r \in Relations : Ev("relation_broken", r) \in pending'[v] =>
                 \/ client'[r] = "dying"
                 \/ Ev("relation_departed", r) \in pending'[v]
                 \/ /\ Ev("relation_broken", r) \in pending[v]
                    /\ Ev("relation_departed", r) \notin pending[v]
        PROVE  BrokenExcused'
    BY <2>1, Undisturbed DEF BrokenExcused, UnitInv
  <2>2. ASSUME UNCHANGED <<client, hook, bag, deferred, pending>> PROVE BrokenExcused'
    BY <2>1, <2>2
  <2>3. ASSUME NEW k \in UnitKinds \union {"relation_changed"}, NEW s, UNCHANGED client,
               UNCHANGED <<hook, bag, deferred>>,
               NEW U \in SUBSET Units, pending' = Deliver(U, {Ev(k, s)})
        PROVE  BrokenExcused'
    <3>1. \A v \in Units : pending'[v] = pending[v] \/ pending'[v] = pending[v] \union {Ev(k, s)}
      BY <2>3 DEF Deliver
    <3>2. \A r \in Relations, l \in LeaveKinds : Ev(l, r) # Ev(k, s)
      BY <2>3 DEF Ev, UnitKinds, LeaveKinds
    <3> QED BY <2>1, <2>3, <3>1, <3>2 DEF LeaveKinds
  <2>4. ASSUME NEW u \in Units, StartHook(u) PROVE BrokenExcused'
    <3>1. PICK e \in pending[u] : Deliverable(u, e) /\ RunHook(u, e)
                                  /\ pending' = [pending EXCEPT ![u] = @ \ {e}]
      BY <2>4 DEF StartHook, Start
    <3>2. e \in Event /\ pending'[u] = pending[u] \ {e}
          /\ \A v \in Units \ {u} : pending'[v] = pending[v]
      BY <2>0, <3>1 DEF TypeOK
    <3>3. \A r \in Relations : e = Ev("relation_broken", r) =>
            Ev("relation_departed", r) \notin pending[u]
      BY <3>1 DEF Deliverable, Ev
    <3> QED BY <3>1, <3>2, <3>3, StartInv
  <2>5. ASSUME NEW u \in Units, StartUpdateStatus(u) PROVE BrokenExcused'
    <3>1. Ev("update_status", NoRel) \in Event
          /\ \A r \in Relations : Ev("update_status", NoRel) # Ev("relation_broken", r)
      BY EventType DEF UnitKinds, Ev
    <3> QED BY <2>5, <3>1, StartInv DEF StartUpdateStatus
  <2>6. ASSUME NEW u \in Units, Commit(u) PROVE BrokenExcused'
    BY <2>6, CommitInv
  <2>7. ASSUME NEW u \in Units, Handle(u) PROVE BrokenExcused'
    BY <2>7, DiscardInv, DepartedInv, OrdinaryInv
  <2>8. ASSUME NEW u \in Units, UnitGone(u) PROVE BrokenExcused'
    <3>1. \A v \in Units \ {u} : UnitInv(v)'
      BY <2>0, <2>8, Undisturbed DEF UnitGone, IInv, BrokenExcused, BrokenExpected, TypeOK
    <3>2. UnitInv(u)'
      BY <2>0, <2>8 DEF UnitGone, IInv, BrokenExcused, UnitInv, LeavesLast, FlagKept, FlagSet,
                        BrokenFlagged, BrokenExpected, TypeOK
    <3> QED BY <3>1, <3>2 DEF BrokenExcused, UnitInv
  <2>9. ASSUME NEW u \in Units, Crash(u) \/ ProvisioningFails(u) PROVE BrokenExcused'
    BY <2>9, DiscardInv DEF Crash, ProvisioningFails
  <2>10. ASSUME NEW u \in Units, ElectLeader(u) PROVE BrokenExcused'
    BY <2>2, <2>10 DEF ElectLeader
  <2>11. ASSUME NEW u \in Units, Leave(u) PROVE BrokenExcused'
    <3>1. ASSUME NEW v \in Units, NEW r \in Relations, Ev("relation_broken", r) \in pending'[v]
          PROVE  \/ Ev("relation_departed", r) \in pending'[v]
                 \/ /\ Ev("relation_broken", r) \in pending[v]
                    /\ Ev("relation_departed", r) \notin pending[v]
      <4>1. CASE v # u
        BY <2>0, <2>11, <3>1, <4>1 DEF Leave, TypeOK
      <4>2. CASE v = u /\ r \in bound[u]
        BY <2>0, <2>11, <4>2 DEF Leave, TypeOK
      <4>3. CASE v = u /\ r \notin bound[u]
        <5>0. \A k \in LeaveKinds, q \in bound[u] : Ev("relation_broken", r) # Ev(k, q)
          BY <4>3 DEF Ev
        <5>1. Ev("relation_broken", r) \in pending[u]
          BY <2>0, <2>11, <3>1, <4>3, <5>0 DEF Leave, TypeOK, LeaveKinds
        <5>2. Ev("relation_departed", r) \in pending[u] =>
                Ev("relation_departed", r) \in pending'[u]
          BY <2>0, <2>11 DEF Leave, TypeOK, Ev
        <5> QED BY <4>3, <5>1, <5>2
      <4> QED BY <4>1, <4>2, <4>3
    <3> QED BY <2>1, <2>11, <3>1 DEF Leave
  <2>12. ASSUME NEW u \in Units, ContainerRestart(u) PROVE BrokenExcused'
    BY <2>3, <2>12 DEF ContainerRestart, UnitKinds, juju
  <2>13. ASSUME NEW r \in Relations, AddRelation(r) PROVE BrokenExcused'
    <3>1. \A q \in Relations : client[q] = "dying" => client'[q] = "dying"
      BY <2>0, <2>13 DEF AddRelation, TypeOK
    <3>2. \A v \in Units : \/ pending'[v] = pending[v]
                          \/ pending'[v] = pending[v] \union {Ev("relation_changed", r)}
      BY <2>13 DEF AddRelation, Deliver
    <3>3. \A q \in Relations : Ev("relation_broken", q) # Ev("relation_changed", r)
      BY DEF Ev
    <3>4. UNCHANGED <<hook, bag, deferred>>
      BY <2>13 DEF AddRelation
    <3> QED BY <2>1, <3>1, <3>2, <3>3, <3>4
  <2>14. ASSUME NEW r \in Relations, RemoveRelation(r) PROVE BrokenExcused'
    <3>1. client'[r] = "dying" /\ \A q \in Relations : client[q] = "dying" => client'[q] = "dying"
      BY <2>0, <2>14 DEF RemoveRelation, TypeOK
    <3>2. \A v \in Units : \/ pending'[v] = pending[v]
                          \/ pending'[v] = pending[v] \union {Ev("relation_broken", r)}
      BY <2>14 DEF RemoveRelation
    <3> QED BY <2>1, <2>14, <3>1, <3>2 DEF RemoveRelation, Ev
  <2>15. CASE Outage \/ Recover
    BY <2>2, <2>15 DEF Outage, Recover, juju
  <2>16. CASE Misconfigure \/ Reconfigure
    BY <2>0, <2>3, <2>16 DEF Misconfigure, Reconfigure, UnitKinds, TypeOK, juju
  <2>17. CASE UNCHANGED vars
    BY <2>2, <2>17 DEF vars
  <2> QED BY <2>4, <2>5, <2>6, <2>7, <2>8, <2>9, <2>10, <2>11, <2>12, <2>13, <2>14, <2>15,
             <2>16, <2>17 DEF Next, Work, Disturb
<1> QED BY <1>1, <1>2, TypeCorrect, PTL DEF Spec, IInv

\* Scale-down and its retries never drop the user of a living relation: a step of Spec
\* removes a PostgreSQL user only while the relation itself is being removed.
THEOREM LiveUserIsKept == Spec => LiveUserKept
<1>1. IInv /\ [Next]_vars => [\A r \in pg.users \ pg'.users : client[r] = "dying"]_vars
  <2> SUFFICES ASSUME IInv, Next, NEW r \in pg.users, r \notin pg'.users
               PROVE  client[r] = "dying"
    BY DEF vars
  <2>1. PICK u \in Units : Revoke(u)
    <3>1. pg' # pg
      BY DEF IInv
    <3>2. CASE \E u \in Units : Handle(u)
      <4>1. PICK u \in Units : Handle(u)
        BY <3>2
      <4>2. ~(\/ UpdateStatus(u) \/ UpdateStatusMisconfigured(u) \/ PebbleReady(u)
              \/ PebbleReadyMisconfigured(u) \/ ConfigChanged(u) \/ PeersUnready(u)
              \/ PeersTooEarly(u) \/ PeersMisconfigured(u) \/ PeersChanged(u)
              \/ RelationChanged(u) \/ DropRequest(u) \/ AwaitBackend(u)
              \/ RequestMisconfigured(u) \/ AwaitPeers(u) \/ RelationDeparted(u)
              \/ IgnoreBroken(u) \/ KeepRelation(u) \/ RevokeFails(u))
        BY <3>1 DEF UpdateStatus, UpdateStatusMisconfigured, PebbleReady,
           PebbleReadyMisconfigured, ConfigChanged, PeersUnready, PeersTooEarly,
           PeersMisconfigured, PeersChanged, RelationChanged, DropRequest, AwaitBackend,
           RequestMisconfigured, AwaitPeers, RelationDeparted, IgnoreBroken, KeepRelation,
           RevokeFails, Misread
      <4>3. ~Grant(u) /\ ~GrantTooEarly(u)
        BY DEF Grant, GrantTooEarly
      <4>4. ~Refuse(u) /\ ~RequestFails(u) /\ ~RequestOfDeadRelation(u)
        <5>1. pg \in [users : SUBSET Relations, dbs : SUBSET Databases, auth : SUBSET Databases]
          BY DEF IInv, TypeOK
        <5>2. [pg EXCEPT !.dbs = @ \union {DbOf[Rel(u)]}].users = pg.users
          BY <5>1
        <5>3. [pg EXCEPT !.users = @ \union {Rel(u)}].users = pg.users \union {Rel(u)}
          BY <5>1
        <5>4. [pg EXCEPT !.users = @ \union {Rel(u)}, !.dbs = @ \union {DbOf[Rel(u)]}].users
                = pg.users \union {Rel(u)}
          BY <5>1
        <5> QED BY <3>1, <5>2, <5>3, <5>4 DEF Refuse, RequestFails, RequestOfDeadRelation
      <4> QED BY <4>1, <4>2, <4>3, <4>4 DEF Handle
    <3>3. ASSUME NEW u \in Units PROVE ~(StartHook(u) \/ StartUpdateStatus(u) \/ Commit(u)
                                         \/ UnitGone(u) \/ Disturb(u))
      BY <3>1 DEF StartHook, Start, StartUpdateStatus, RunHook, Commit, UnitGone, Disturb, Crash,
                  ProvisioningFails, ElectLeader, Leave, ContainerRestart
    <3>4. ~(Outage \/ Recover \/ Misconfigure \/ Reconfigure)
          /\ \A q \in Relations : ~(AddRelation(q) \/ RemoveRelation(q))
      BY <3>1 DEF AddRelation, RemoveRelation, Outage, Recover, Misconfigure, Reconfigure
    <3> QED BY <3>2, <3>3, <3>4 DEF Next, Work
  <2>2. Revocable(u) /\ Rel(u) \notin hook[u].bag.departing /\ r = Rel(u)
    BY <2>1 DEF Revoke, IInv, TypeOK
  <2> QED BY <2>2, RevokedIsDying
<1> QED BY <1>1, TypeCorrect, BrokenIsExcused, PTL DEF Spec, IInv, LiveUserKept

=============================================================================
