----------------------------- MODULE Logins_proofs -----------------------------
(***************************************************************************)
(* Theorems about the PostgreSQL side of ClientRelations, and about all of *)
(* it: a client that has credentials can log in, the user of a removed     *)
(* relation is gone once every unit has handled the end of the relation,   *)
(* and the way of every request is one of Provisioning.                    *)
(*                                                                         *)
(* What the code does not survive is assumed away, and named: scale-down   *)
(* and, for logins, election of the leader; for removed users an outage of *)
(* PostgreSQL, and a request that waits for peers until its relation is    *)
(* gone; for the way of a request an outage together with an invalid       *)
(* configuration (see the README, divergences).                            *)
(***************************************************************************)
EXTENDS Routing_proofs

----------------------------------------------------------------------------
(* What the leader does and what happens around it *)

\* The lease is only ever taken when nobody holds it.
NoElections == \A b \in Budgets : b["elections"] = 0

Changed(r) == Ev("relation_changed", r)
Request(r) == Ev("database_requested", r)
Departing(r) == Ev("relation_departed", r)
Broken(r) == Ev("relation_broken", r)

\* Notices of different kinds or relations differ.
LEMMA Notices ==
  /\ \A r \in Relations :
       /\ {Changed(r), Request(r), Departing(r), Broken(r)} \subseteq Event
       /\ Changed(r).kind = "relation_changed" /\ Changed(r).rel = r
       /\ Request(r).kind = "database_requested" /\ Request(r).rel = r
       /\ Departing(r).kind = "relation_departed" /\ Departing(r).rel = r
       /\ Broken(r).kind = "relation_broken" /\ Broken(r).rel = r
  /\ \A e \in Event :
       /\ e.kind = "relation_changed" => e = Changed(e.rel)
       /\ e.kind = "database_requested" => e = Request(e.rel)
       /\ e.kind = "relation_departed" => e = Departing(e.rel)
       /\ e.kind = "relation_broken" => e = Broken(e.rel)
       /\ e.kind \in RelationKinds => e.rel \in Relations
  /\ Idle.kind = "idle"
BY DEF Changed, Request, Departing, Broken, Event, Ev, UnitKinds, RelationKinds, Idle

\* What is in a queue when a notice is taken off, or put in front or at the end.
LEMMA QueuedIn ==
  ASSUME NEW s \in Seq(Event), NEW x
  PROVE  /\ s # <<>> => (Queued(s, x) <=> x = Head(s) \/ Queued(Tail(s), x))
         /\ \A e \in Event : Queued(Append(s, e), x) <=> Queued(s, x) \/ x = e
         /\ \A e \in Event : Queued(<<e>> \o s, x) <=> x = e \/ Queued(s, x)
<1>1. ASSUME s # <<>> PROVE Queued(s, x) <=> x = Head(s) \/ Queued(Tail(s), x)
  <2>1. /\ Len(s) \in Nat \ {0} /\ Head(s) = s[1] /\ Tail(s) \in Seq(Event)
        /\ Len(Tail(s)) = Len(s) - 1 /\ \A i \in 1 .. Len(s) - 1 : Tail(s)[i] = s[i + 1]
    BY <1>1, HeadTailProperties
  <2>2. DOMAIN s = 1 .. Len(s) /\ DOMAIN Tail(s) = 1 .. Len(s) - 1
    BY <2>1
  <2>3. ASSUME Queued(s, x), x # Head(s) PROVE Queued(Tail(s), x)
    <3>1. PICK i \in 1 .. Len(s) : s[i] = x
      BY <2>2, <2>3 DEF Queued
    <3>2. i - 1 \in 1 .. Len(s) - 1 /\ Tail(s)[i - 1] = s[(i - 1) + 1] /\ (i - 1) + 1 = i
      BY <2>1, <2>3, <3>1
    <3> QED BY <2>2, <3>1, <3>2 DEF Queued
  <2>4. ASSUME Queued(Tail(s), x) PROVE Queued(s, x)
    <3>1. PICK i \in 1 .. Len(s) - 1 : Tail(s)[i] = x
      BY <2>2, <2>4 DEF Queued
    <3>2. i + 1 \in 1 .. Len(s) /\ s[i + 1] = x
      BY <2>1, <3>1
    <3> QED BY <2>2, <3>2 DEF Queued
  <2>5. 1 \in DOMAIN s
    BY <2>1, <2>2
  <2> QED BY <2>1, <2>3, <2>4, <2>5 DEF Queued
<1>2. ASSUME NEW e \in Event PROVE Queued(Append(s, e), x) <=> Queued(s, x) \/ x = e
  <2>1. /\ Len(s) \in Nat /\ DOMAIN s = 1 .. Len(s) /\ DOMAIN Append(s, e) = 1 .. Len(s) + 1
        /\ Append(s, e)[Len(s) + 1] = e
        /\ \A i \in 1 .. Len(s) : Append(s, e)[i] = s[i]
        /\ \A i \in 1 .. Len(s) + 1 : i \in 1 .. Len(s) \/ i = Len(s) + 1
    BY Appended
  <2>2. Len(s) + 1 \in DOMAIN Append(s, e) /\ DOMAIN s \subseteq DOMAIN Append(s, e)
    BY <2>1
  <2> QED BY <2>1, <2>2 DEF Queued
<1>3. ASSUME NEW e \in Event PROVE Queued(<<e>> \o s, x) <=> x = e \/ Queued(s, x)
  <2> DEFINE t == <<e>> \o s
  <2>1. /\ Len(s) \in Nat /\ DOMAIN s = 1 .. Len(s) /\ DOMAIN t = 1 .. Len(s) + 1
        /\ t[1] = e /\ \A i \in 2 .. Len(s) + 1 : t[i] = s[i - 1]
    OBVIOUS
  <2> HIDE DEF t
  <2>2. ASSUME Queued(t, x), x # e PROVE Queued(s, x)
    <3>1. PICK i \in 1 .. Len(s) + 1 : t[i] = x
      BY <2>1, <2>2 DEF Queued
    <3>2. i - 1 \in 1 .. Len(s) /\ s[i - 1] = x
      BY <2>1, <2>2, <3>1
    <3> QED BY <2>1, <3>2 DEF Queued
  <2>3. ASSUME Queued(s, x) PROVE Queued(t, x)
    <3>1. PICK i \in 1 .. Len(s) : s[i] = x
      BY <2>1, <2>3 DEF Queued
    <3>2. i + 1 \in 1 .. Len(s) + 1 /\ t[i + 1] = s[(i + 1) - 1] /\ (i + 1) - 1 = i
      BY <2>1, <3>1
    <3> QED BY <2>1, <3>1, <3>2 DEF Queued
  <2>4. 1 \in DOMAIN t
    BY <2>1
  <2> QED BY <2>1, <2>2, <2>3, <2>4 DEF Queued, t
<1> QED BY <1>1, <1>2, <1>3

\* Nothing is in the empty queue.
LEMMA NothingQueued == \A x : ~Queued(<<>>, x)
BY DEF Queued

\* The handlers that fail their hook, and those that do not.
Fails(u) ==
  \/ UpdateStatusMisconfigured(u) \/ PebbleReadyMisconfigured(u) \/ PeersTooEarly(u)
  \/ PeersMisconfigured(u) \/ RequestMisconfigured(u) \/ RequestOfDeadRelation(u)
  \/ GrantTooEarly(u) \/ RevokeFails(u) \/ Crash(u) \/ ProvisioningFails(u)
Succeeds(u) ==
  \/ UpdateStatus(u) \/ PebbleReady(u) \/ ConfigChanged(u) \/ PeersUnready(u) \/ PeersChanged(u)
  \/ RelationChanged(u) \/ DropRequest(u) \/ AwaitBackend(u) \/ AwaitPeers(u) \/ Grant(u)
  \/ Refuse(u) \/ RequestFails(u) \/ RelationDeparted(u) \/ IgnoreBroken(u)
  \/ KeepRelation(u) \/ Revoke(u)
\* The handlers that answer a request.
Answers(u) == Grant(u) \/ Refuse(u) \/ RequestFails(u)

\* A failed hook may have created a user and a database, and removed the auth function
\* of the database that it was about.
LEMMA Failed ==
  ASSUME TypeOK, NEW u \in Units, Fails(u)
  PROVE  /\ InHook(u) /\ Discard(u)
         /\ pg.users \subseteq pg'.users /\ pg.dbs \subseteq pg'.dbs
         /\ \A d \in pg.auth \ pg'.auth :
              Handling(u, "database_requested") /\ Rel(u) \notin Rejected /\ d = DbOf[Rel(u)]
         /\ \A r \in pg'.users \ pg.users :
              /\ Handling(u, "database_requested") /\ r = Rel(u)
              /\ r \in bound[u] \/ UserBeforeDb
         /\ pg.auth \ pg'.auth # {} => Spend("crashes")
<1>1. CASE \/ UpdateStatusMisconfigured(u) \/ PebbleReadyMisconfigured(u) \/ PeersTooEarly(u)
           \/ PeersMisconfigured(u) \/ RequestMisconfigured(u) \/ RevokeFails(u) \/ Crash(u)
  <2>1. InHook(u) /\ Discard(u) /\ pg' = pg
    BY <1>1 DEF UpdateStatusMisconfigured, PebbleReadyMisconfigured, PeersTooEarly,
                PeersMisconfigured, RequestMisconfigured, RevokeFails, Crash, Misread, Revocable,
                Handling
  <2> QED BY <2>1
<1>2. CASE RequestOfDeadRelation(u) \/ GrantTooEarly(u) \/ ProvisioningFails(u)
  <2>1. InHook(u) /\ Discard(u) /\ Handling(u, "database_requested")
    BY <1>2 DEF RequestOfDeadRelation, GrantTooEarly, ProvisioningFails, Provisionable,
                Acceptable, Servable, Handling
  <2>2. pg \in [users : SUBSET Relations, dbs : SUBSET Databases, auth : SUBSET Databases]
    BY DEF TypeOK
  <2>3. CASE RequestOfDeadRelation(u)
    BY <2>1, <2>2, <2>3 DEF RequestOfDeadRelation
  <2>4. CASE GrantTooEarly(u)
    BY <2>1, <2>2, <2>4 DEF GrantTooEarly, Acceptable
  <2>5. CASE ProvisioningFails(u)
    BY <2>1, <2>2, <2>5 DEF ProvisioningFails, Acceptable
  <2> QED BY <1>2, <2>3, <2>4, <2>5
<1> QED BY <1>1, <1>2 DEF Fails

\* A handler of the leader that does not fail takes its notice off the hook, and keeps only
\* what it deferred; relation-changed of a new relation becomes its request.
LEMMA Succeeded ==
  ASSUME TypeOK, leader \in Units, Succeeds(leader)
  PROVE  LET h == hook[leader]
             g == hook'[leader]
             e == Head(hook[leader].todo)
         IN /\ InHook(leader) /\ h \in Hook /\ h.todo # <<>> /\ e \in Event
            /\ UNCHANGED <<leader, members, leaving, client, bound>>
            /\ UNCHANGED <<backend, configOK, app, bag, pending, deferred>>
            /\ RequestFails(leader) \/ UNCHANGED spent
            /\ g.ev = h.ev
            /\ \A x : Queued(h.todo, x) => x = e \/ Queued(g.todo, x)
            /\ \A x : Queued(g.todo, x) =>
                 \/ Queued(h.todo, x)
                 \/ \E s \in Relations : e = Changed(s) /\ x = Request(s)
            /\ \A x : Queued(h.kept, x) => Queued(g.kept, x)
            /\ \A x : Queued(g.kept, x) =>
                 \/ Queued(h.kept, x)
                 \/ x = e /\ e.kind \notin {"relation_changed"} \union LeaveKinds
            /\ \A s \in Relations : e = Request(s) =>
                 Queued(g.kept, e) \/ Answers(leader)
            /\ \/ buf'.seen = buf.seen
               \/ \E s \in Relations : e = Changed(s) /\ buf'.seen = buf.seen \union {s}
            /\ \A s \in Relations : e = Changed(s) =>
                 s \in buf.seen \/ (Queued(g.todo, Request(s)) /\ buf'.seen = buf.seen \union {s})
<1> DEFINE h == hook[leader]
           g == hook'[leader]
           e == Head(hook[leader].todo)
           Frame == /\ UNCHANGED <<leader, members, leaving, client, bound>>
                    /\ UNCHANGED <<backend, configOK, app, bag, pending, deferred>>
                    /\ RequestFails(leader) \/ UNCHANGED spent
           Taken == g.ev = h.ev /\ g.todo = Tail(h.todo) /\ g.kept = h.kept
           Later == /\ g.ev = h.ev /\ g.todo = Tail(h.todo)
                    /\ (g.kept = h.kept /\ Queued(h.kept, e)) \/ g.kept = Append(h.kept, e)
           Asks == /\ g.ev = h.ev /\ g.kept = h.kept
                   /\ g.todo = <<Request(e.rel)>> \o Tail(h.todo)
<1>0. /\ hook \in [Units -> Hook] /\ h \in Hook /\ buf \in AppData
      /\ InHook(leader) /\ h.todo # <<>>
  BY DEF TypeOK, Succeeds, UpdateStatus, PebbleReady, ConfigChanged, PeersUnready, PeersChanged,
         PeersServed, RelationChanged, DropRequest, AwaitBackend, AwaitPeers, Grant, Refuse,
         RequestFails, Blocks, RelationDeparted, IgnoreBroken, KeepRelation, Revoke, Revocable,
         Provisionable, Acceptable, Servable, Handling
<1>1. h.todo \in Seq(Event) /\ h.kept \in Seq(Event) /\ e \in Event /\ Tail(h.todo) \in Seq(Event)
  BY <1>0, HeadTailProperties DEF Hook
<1>2. Finish(leader) => Taken
  BY <1>0 DEF Finish, Handled, Hook
<1>3. Defer(leader) => Later
  BY <1>0 DEF Defer, Kept, Hook
<1>4. Frame
  BY DEF Succeeds, UpdateStatus, PebbleReady, ConfigChanged, PeersUnready, PeersChanged,
         PeersServed, RelationChanged, DropRequest, AwaitBackend, AwaitPeers, Grant, Refuse,
         RequestFails, Blocks, RelationDeparted, IgnoreBroken, KeepRelation, Revoke, Revocable,
         Provisionable, Acceptable, Servable, juju, env
<1>5. ASSUME NEW k, Handling(leader, k) PROVE e.kind = k
  BY <1>5 DEF Handling
<1>6. \/ /\ Taken /\ buf'.seen = buf.seen
         /\ e.kind = "relation_changed" => e.rel \in buf.seen
         /\ e.kind = "database_requested" => Answers(leader)
      \/ /\ Later /\ buf'.seen = buf.seen
         /\ e.kind \in {"config_changed", "peers_changed", "database_requested"}
      \/ /\ Asks /\ e.kind = "relation_changed" /\ buf'.seen = buf.seen \union {e.rel}
  <2>1. CASE UpdateStatus(leader) \/ IgnoreBroken(leader) \/ DropRequest(leader)
    BY <1>2, <1>5, <2>1 DEF UpdateStatus, IgnoreBroken, DropRequest
  <2>2. CASE Answers(leader) \/ Revoke(leader)
    <3>1. buf'.seen = buf.seen
      BY <1>0, <2>2 DEF Answers, Grant, Refuse, RequestFails, Blocks, Revoke, AppData
    <3>2. e.kind \in {"database_requested", "relation_broken"}
      BY <1>5, <2>2 DEF Answers, Grant, Refuse, RequestFails, Blocks, Revoke, Revocable,
                        Provisionable, Acceptable, Servable
    <3>3. e.kind = "database_requested" => Answers(leader)
      BY <1>5, <2>2 DEF Revoke, Revocable
    <3> QED BY <1>2, <2>2, <3>1, <3>2, <3>3
       DEF Answers, Grant, Refuse, RequestFails, Blocks, Revoke
  <2>3. CASE ConfigChanged(leader)
    BY <1>2, <1>3, <1>5, <2>3 DEF ConfigChanged
  <2>4. CASE PeersUnready(leader) \/ AwaitBackend(leader)
    BY <1>3, <1>5, <2>4 DEF PeersUnready, AwaitBackend
  <2>5. CASE AwaitPeers(leader)
    <3>1. buf'.seen = buf.seen
      BY <1>0, <2>5 DEF AwaitPeers, AppData
    <3> QED BY <1>3, <1>5, <2>5, <3>1 DEF AwaitPeers, Servable
  <2>6. CASE PebbleReady(leader) \/ PeersChanged(leader)
    <3>1. CASE PebbleReady(leader)
      <4>1. g = [Handled(h) EXCEPT !.bag.init = TRUE]
        BY <1>0, <3>1 DEF PebbleReady
      <4> QED BY <1>0, <1>5, <3>1, <4>1 DEF PebbleReady, Handled, Hook, UnitData
    <3>2. CASE PeersChanged(leader)
      <4>1. g = [Handled(h) EXCEPT !.bag.ack = ViewCfg(leader)]
        BY <1>0, <3>2 DEF PeersChanged
      <4> QED BY <1>0, <1>5, <3>2, <4>1 DEF PeersChanged, PeersServed, Handled, Hook, UnitData
    <3> QED BY <2>6, <3>1, <3>2
  <2>7. CASE RelationDeparted(leader) \/ KeepRelation(leader)
    <3>1. PICK S : g = Flagged(h, S)
      BY <1>0, <2>7 DEF RelationDeparted, KeepRelation
    <3>2. Taken
      BY <1>0, <3>1 DEF Flagged, Hook, UnitData
    <3> QED BY <1>5, <2>7, <3>2 DEF RelationDeparted, KeepRelation, Revocable
  <2>8. CASE RelationChanged(leader)
    <3>1. CASE Rel(leader) \in buf.seen
      BY <1>2, <1>5, <2>8, <3>1 DEF RelationChanged, Rel
    <3>2. CASE Rel(leader) \notin buf.seen
      <4>1. Asks
        BY <1>0, <2>8, <3>2 DEF RelationChanged, Hook, Rel, Request
      <4>2. buf'.seen = buf.seen \union {e.rel}
        BY <1>0, <2>8, <3>2 DEF RelationChanged, AppData, Rel
      <4> QED BY <1>5, <2>8, <4>1, <4>2 DEF RelationChanged
    <3> QED BY <3>1, <3>2
  <2> QED BY <2>1, <2>2, <2>3, <2>4, <2>5, <2>6, <2>7, <2>8 DEF Succeeds, Answers
<1>7. \A x : Queued(h.todo, x) => x = e \/ Queued(Tail(h.todo), x)
  BY <1>0, <1>1, QueuedIn
<1>8. \A x : Queued(Tail(h.todo), x) => Queued(h.todo, x)
  BY <1>0, <1>1, QueuedIn
<1>9. \A x : Queued(Append(h.kept, e), x) <=> Queued(h.kept, x) \/ x = e
  BY <1>1, QueuedIn
<1> HIDE DEF h, g, e, Frame
<1>10. CASE Taken /\ buf'.seen = buf.seen
            /\ (e.kind = "relation_changed" => e.rel \in buf.seen)
            /\ (e.kind = "database_requested" => Answers(leader))
  <2>1. /\ \A s \in Relations : e = Changed(s) => s \in buf.seen
        /\ \A s \in Relations : e = Request(s) => Answers(leader)
    BY <1>10, Notices
  <2> QED BY <1>0, <1>1, <1>4, <1>7, <1>8, <1>10, <2>1 DEF h, g, e, Frame
<1>11. CASE Later /\ buf'.seen = buf.seen
            /\ e.kind \in {"config_changed", "peers_changed", "database_requested"}
  <2>1. /\ \A s \in Relations : e # Changed(s)
        /\ e.kind \notin {"relation_changed"} \union LeaveKinds
    BY <1>11, Notices DEF LeaveKinds
  <2>2. /\ \A x : Queued(h.kept, x) => Queued(g.kept, x)
        /\ \A x : Queued(g.kept, x) => Queued(h.kept, x) \/ x = e
        /\ Queued(g.kept, e)
    BY <1>9, <1>11
  <2> QED BY <1>0, <1>1, <1>4, <1>7, <1>8, <1>11, <2>1, <2>2 DEF h, g, e, Frame
<1>12. CASE Asks /\ e.kind = "relation_changed" /\ buf'.seen = buf.seen \union {e.rel}
  <2>1. /\ e.rel \in Relations /\ e = Changed(e.rel) /\ Request(e.rel) \in Event
        /\ \A s \in Relations : e # Request(s) /\ (e = Changed(s) => s = e.rel)
    BY <1>1, <1>12, Notices DEF RelationKinds
  <2>2. \A x : Queued(g.todo, x) <=> x = Request(e.rel) \/ Queued(Tail(h.todo), x)
    <3> DEFINE q == Request(e.rel)
               t == Tail(h.todo)
    <3>1. q \in Event /\ t \in Seq(Event) /\ g.todo = <<q>> \o t
      BY <1>1, <1>12, <2>1
    <3> HIDE DEF q, t
    <3>2. \A x : Queued(<<q>> \o t, x) <=> x = q \/ Queued(t, x)
      BY <3>1, QueuedIn
    <3> QED BY <3>1, <3>2 DEF q, t
  <2>3. \A x : Queued(h.todo, x) => x = e \/ Queued(g.todo, x)
    BY <1>7, <2>2
  <2>4. \A x : Queued(g.todo, x) =>
          Queued(h.todo, x) \/ \E s \in Relations : e = Changed(s) /\ x = Request(s)
    BY <1>8, <2>1, <2>2
  <2>5. \E s \in Relations : e = Changed(s) /\ buf'.seen = buf.seen \union {s}
    BY <1>12, <2>1
  <2>6. \A s \in Relations : e = Changed(s) =>
          Queued(g.todo, Request(s)) /\ buf'.seen = buf.seen \union {s}
    BY <1>12, <2>1, <2>2
  <2>7. g.ev = h.ev /\ g.kept = h.kept
    BY <1>12
  <2> QED BY <1>0, <1>1, <1>4, <2>1, <2>3, <2>4, <2>5, <2>6, <2>7 DEF h, g, e, Frame
<1> QED BY <1>6, <1>10, <1>11, <1>12 DEF g, h, e

\* What other units, clients and the environment do to the leader: they deliver events to it, of
\* which only those of a relation that begins or ends are about one.
Elsewhere ==
  /\ UNCHANGED <<leader, app, buf, pg>>
  /\ hook'[leader] = hook[leader] /\ bag'[leader] = bag[leader]
  /\ deferred'[leader] = deferred[leader]
  /\ bound[leader] \subseteq bound'[leader]
  /\ pending[leader] \subseteq pending'[leader]
  /\ \A e \in pending'[leader] \ pending[leader] :
       \/ e.kind \in UnitKinds
       \/ \E r \in Relations :
            /\ e = Changed(r)
            /\ client[r] = "none" /\ client'[r] = "alive" /\ r \in bound'[leader]
       \/ \E r \in Relations : e = Broken(r) /\ client'[r] = "dying"
  /\ \A r \in Relations :
       /\ client'[r] = "none" => client[r] = "none"
       /\ client'[r] = "alive" => client[r] \in {"none", "alive"}

\* A hook of the leader begins.
Begins ==
  /\ ~InHook(leader)
  /\ UNCHANGED <<leader, client, bound, backend, app, buf, bag, deferred, pg>>
  /\ pending'[leader] \subseteq pending[leader]
  /\ \E e \in Event :
       /\ hook'[leader] = [ev |-> e, todo |-> Append(deferred[leader], e), kept |-> <<>>,
                           bag |-> bag[leader]]
       /\ pending[leader] \subseteq pending'[leader] \union {e}
       /\ e.kind = "update_status" \/ (e \in pending[leader] /\ e \notin pending'[leader])
       /\ \A r \in Relations : e = Broken(r) => Changed(r) \notin pending[leader]

\* Whichever way a hook of the leader starts, it begins.
LEMMA Beginning ==
  ASSUME TypeOK, leader \in Units, StartHook(leader) \/ StartUpdateStatus(leader)
  PROVE  Begins
<1>1. CASE StartHook(leader)
  <2>1. PICK e \in pending[leader] : Start(leader, e)
    BY <1>1 DEF StartHook
  <2>2. e \in Event /\ \A r \in Relations : e = Broken(r) => Changed(r) \notin pending[leader]
    BY <2>1, Notices DEF TypeOK, Start, Deliverable, Changed
  <2> QED BY <2>1, <2>2 DEF Start, RunHook, Begins, TypeOK, juju, env
<1>2. CASE StartUpdateStatus(leader)
  <2>1. Ev("update_status", NoRel) \in Event /\ Ev("update_status", NoRel).kind = "update_status"
        /\ \A r \in Relations : Ev("update_status", NoRel) # Broken(r)
    BY DEF Ev, Event, UnitKinds, Broken
  <2> QED BY <1>2, <2>1 DEF StartUpdateStatus, RunHook, Begins, TypeOK, juju, env
<1> QED BY <1>1, <1>2

\* Every step is one of the leader's hook, of one of its handlers, or happens elsewhere.
LEMMA LeaderSteps ==
  ASSUME ~LeaderMayLeave, NoElections, TypeOK, LeaderStays, [Next]_vars
  PROVE  Elsewhere \/ Begins \/ Commit(leader) \/ Fails(leader) \/ Succeeds(leader)
<1>0. /\ leader \in Units /\ leader \in members /\ leader \notin leaving /\ leader # NoUnit
      /\ hook \in [Units -> Hook] /\ pending \in [Units -> SUBSET Event]
      /\ bound \in [Units -> SUBSET Relations] /\ bag \in [Units -> UnitData]
      /\ deferred \in [Units -> Seq(Event)]
      /\ client \in [Relations -> {"none", "alive", "dying"}]
  BY ConstantsAssumption DEF TypeOK, LeaderStays
<1>2. ASSUME UNCHANGED <<leader, app, buf, pg, client, bound, deferred>>,
             hook'[leader] = hook[leader], bag'[leader] = bag[leader],
             pending[leader] \subseteq pending'[leader],
             \A e \in pending'[leader] \ pending[leader] : e.kind \in UnitKinds
      PROVE  Elsewhere
  BY <1>2 DEF Elsewhere
<1>3. ASSUME NEW u \in Units, u # leader, Handle(u) PROVE Elsewhere
  <2>1. pg' = pg
    BY <1>3 DEF Handle, UpdateStatus, UpdateStatusMisconfigured, PebbleReady,
                PebbleReadyMisconfigured, ConfigChanged, PeersUnready, PeersTooEarly,
                PeersMisconfigured, PeersChanged, RelationChanged, DropRequest, AwaitBackend,
                RequestMisconfigured, AwaitPeers, Grant, Refuse, RequestFails, Blocks,
                RequestOfDeadRelation, GrantTooEarly, Provisionable, Acceptable, Servable,
                RelationDeparted, IgnoreBroken, KeepRelation, Revocable, Revoke, RevokeFails,
                Misread
  <2>2. UNCHANGED buf
    BY <1>3, OnlyLeaderWrites
  <2>3. Discard(u) => pending'[leader] = pending[leader]
    BY <1>0, <1>3 DEF Discard
  <2> QED BY <1>0, <1>2, <1>3, <2>1, <2>2, <2>3, HandlerFrame
<1>4. ASSUME NEW u \in Units, u # leader, Crash(u) \/ ProvisioningFails(u) PROVE Elsewhere
  BY <1>0, <1>2, <1>4 DEF Crash, ProvisioningFails, Provisionable, Acceptable, Servable, Discard,
                          juju
<1>5. ASSUME NEW u \in Units, u # leader, StartHook(u) \/ StartUpdateStatus(u) PROVE Elsewhere
  <2>1. UNCHANGED pg
    BY <1>5 DEF StartHook, Start, StartUpdateStatus, RunHook
  <2> QED BY <1>0, <1>2, <1>5, <2>1, StartFrame
<1>6. ASSUME NEW u \in Units, u # leader, Commit(u) PROVE Elsewhere
  <2>1. /\ UNCHANGED <<leader, app, buf, pg, client>>
        /\ hook'[leader] = hook[leader] /\ bag'[leader] = bag[leader]
        /\ deferred'[leader] = deferred[leader] /\ bound'[leader] = bound[leader]
    BY <1>0, <1>6 DEF Commit
  <2>2. pending'[leader] \in {pending[leader], pending[leader] \union {Ev("peers_changed", NoRel)}}
    BY <1>0, <1>6 DEF Commit
  <2>3. "peers_changed" \in UnitKinds /\ Ev("peers_changed", NoRel).kind = "peers_changed"
    BY DEF UnitKinds, Ev
  <2> QED BY <2>1, <2>2, <2>3 DEF Elsewhere
<1>7. ASSUME NEW u \in Units, UnitGone(u) PROVE Elsewhere
  <2>1. u # leader
    BY <1>0, <1>7 DEF UnitGone
  <2>2. pending'[leader] = pending[leader] /\ deferred'[leader] = deferred[leader]
    BY <1>0, <1>7, <2>1 DEF UnitGone
  <2> QED BY <1>7, <2>1, <2>2 DEF UnitGone, Elsewhere
<1>8. ASSUME NEW u \in Units PROVE ~ElectLeader(u)
  <2>1. ASSUME Spend("elections") PROVE FALSE
    <3>1. PICK b \in Budgets : spent'["elections"] <= b["elections"]
      BY <2>1 DEF Spend, Disturbances
    <3>2. spent["elections"] \in Nat /\ spent'["elections"] = spent["elections"] + 1
      BY <2>1 DEF Spend, TypeOK, Disturbances
    <3> QED BY <3>1, <3>2 DEF NoElections
  <2> QED BY <1>0, <2>1 DEF ElectLeader
<1>9. ASSUME NEW u \in Units, Leave(u) PROVE Elsewhere
  BY <1>0, <1>2, <1>9 DEF Leave
<1>10. ASSUME NEW u \in Units, ContainerRestart(u) PROVE Elsewhere
  <2>1. pending'[leader] \in {pending[leader], pending[leader] \union {Ev("pebble_ready", NoRel)}}
    BY <1>0, <1>10 DEF ContainerRestart, Deliver
  <2>2. "pebble_ready" \in UnitKinds /\ Ev("pebble_ready", NoRel).kind = "pebble_ready"
    BY DEF UnitKinds, Ev
  <2> QED BY <1>2, <1>10, <2>1, <2>2 DEF ContainerRestart, juju
<1>11. ASSUME NEW r \in Relations, AddRelation(r) PROVE Elsewhere
  <2>1. /\ UNCHANGED <<leader, app, buf, pg, hook, bag, deferred>>
        /\ client[r] = "none" /\ client' = [client EXCEPT ![r] = "alive"]
        /\ bound'[leader] = bound[leader] \union {r}
        /\ pending'[leader] = pending[leader] \union {Changed(r)}
    BY <1>0, <1>11 DEF AddRelation, Deliver, Changed
  <2>2. client'[r] = "alive" /\ \A q \in Relations \ {r} : client'[q] = client[q]
    BY <1>0, <2>1
  <2> QED BY <1>0, <2>1, <2>2 DEF Elsewhere
<1>12. ASSUME NEW r \in Relations, RemoveRelation(r) PROVE Elsewhere
  <2>1. /\ UNCHANGED <<leader, app, buf, pg, hook, bag, deferred, bound>>
        /\ client[r] = "alive" /\ client' = [client EXCEPT ![r] = "dying"]
        /\ pending[leader] \subseteq pending'[leader]
        /\ pending'[leader] \subseteq pending[leader] \union {Broken(r)}
    BY <1>0, <1>12 DEF RemoveRelation, Broken
  <2>2. client'[r] = "dying" /\ \A q \in Relations \ {r} : client'[q] = client[q]
    BY <1>0, <2>1
  <2> QED BY <1>0, <2>1, <2>2 DEF Elsewhere
<1>13. CASE Outage \/ Recover \/ UNCHANGED vars
  BY <1>2, <1>13 DEF Outage, Recover, juju, vars
<1>14. CASE Misconfigure \/ Reconfigure
  <2>1. pending'[leader] = pending[leader] \union {Ev("config_changed", NoRel)}
    BY <1>0, <1>14 DEF Misconfigure, Reconfigure, Deliver
  <2>2. "config_changed" \in UnitKinds /\ Ev("config_changed", NoRel).kind = "config_changed"
    BY DEF UnitKinds, Ev
  <2> QED BY <1>2, <1>14, <2>1, <2>2 DEF Misconfigure, Reconfigure, juju
<1>15. Handle(leader) => Fails(leader) \/ Succeeds(leader)
  BY DEF Handle, Fails, Succeeds
<1>16. ASSUME NEW u \in Units, Work(u) \/ Disturb(u)
       PROVE  Elsewhere \/ Begins \/ Commit(leader) \/ Fails(leader) \/ Succeeds(leader)
  <2>1. CASE u = leader
    BY <1>0, <1>7, <1>8, <1>9, <1>10, <1>15, <1>16, <2>1, Beginning DEF Work, Disturb, Fails
  <2>2. CASE u # leader
    BY <1>3, <1>4, <1>5, <1>6, <1>7, <1>8, <1>9, <1>10, <1>16, <2>2 DEF Work, Disturb
  <2> QED BY <2>1, <2>2
<1> QED BY <1>11, <1>12, <1>13, <1>14, <1>16 DEF Next

\* A hook of the leader ends, and what it wrote is committed or lost.
LEMMA Ended ==
  ASSUME TypeOK, leader \in Units, Commit(leader) \/ Fails(leader)
  PROVE  /\ InHook(leader) /\ UNCHANGED <<leader, client>>
         /\ hook'[leader].ev = Idle /\ hook'[leader].todo = <<>> /\ hook'[leader].kept = <<>>
         /\ hook'[leader].bag = bag'[leader] /\ buf' = app'
         /\ Commit(leader) =>
              /\ hook[leader].todo = <<>> /\ app' = buf /\ UNCHANGED pg
              /\ deferred'[leader] = hook[leader].kept /\ pending'[leader] = pending[leader]
              /\ bag'[leader] = hook[leader].bag
              /\ bound'[leader] \subseteq bound[leader]
              /\ \A r \in bound[leader] \ bound'[leader] : hook[leader].ev = Broken(r)
         /\ Fails(leader) =>
              /\ app' = app /\ UNCHANGED <<deferred, bag, bound>>
              /\ \/ pending'[leader] = pending[leader] \union {hook[leader].ev}
                 \/ hook[leader].ev.kind = "update_status" /\ pending'[leader] = pending[leader]
<1>0. /\ hook \in [Units -> Hook] /\ hook[leader] \in Hook /\ bag \in [Units -> UnitData]
      /\ pending \in [Units -> SUBSET Event] /\ deferred \in [Units -> Seq(Event)]
      /\ bound \in [Units -> SUBSET Relations] /\ hook[leader].ev \in Event
  BY DEF TypeOK, Hook
<1>1. ASSUME Commit(leader)
      PROVE  /\ bound'[leader] \subseteq bound[leader] /\ pending'[leader] = pending[leader]
             /\ \A r \in bound[leader] \ bound'[leader] : hook[leader].ev = Broken(r)
  BY <1>0, <1>1, Notices DEF Commit
<1>2. ASSUME Commit(leader)
      PROVE  /\ InHook(leader) /\ hook[leader].todo = <<>> /\ app' = buf
             /\ UNCHANGED <<leader, client, pg>> /\ buf' = app'
             /\ hook'[leader] = NoHook(hook[leader].bag) /\ bag'[leader] = hook[leader].bag
             /\ deferred'[leader] = hook[leader].kept
  BY <1>0, <1>2 DEF Commit
<1>3. ASSUME Fails(leader)
      PROVE  /\ InHook(leader) /\ UNCHANGED <<leader, client, deferred, bag, bound>>
             /\ app' = app /\ buf' = app' /\ hook'[leader] = NoHook(bag[leader])
             /\ \/ pending'[leader] = pending[leader] \union {hook[leader].ev}
                \/ hook[leader].ev.kind = "update_status" /\ pending'[leader] = pending[leader]
  <2>1. InHook(leader) /\ Discard(leader)
    BY <1>3, Failed
  <2> QED BY <1>0, <2>1 DEF Discard, juju
<1>4. \A h \in UnitData : /\ NoHook(h).ev = Idle /\ NoHook(h).todo = <<>>
                         /\ NoHook(h).kept = <<>> /\ NoHook(h).bag = h
  BY DEF NoHook
<1> QED BY <1>0, <1>1, <1>2, <1>3, <1>4 DEF Hook

----------------------------------------------------------------------------
(* Requests are not forgotten *)

\* A request comes from the hook of its relation-changed, or is kept from an earlier hook, and
\* relation-changed itself is never put off.
Requests ==
  \A s \in Relations :
    /\ Request(s) \notin pending[leader] /\ hook[leader].ev # Request(s)
    /\ ~Queued(deferred[leader], Changed(s)) /\ ~Queued(hook[leader].kept, Changed(s))
    /\ Queued(hook[leader].todo, Changed(s)) => hook[leader].ev = Changed(s)
    /\ Queued(hook[leader].todo, Request(s)) \/ Queued(hook[leader].kept, Request(s)) =>
         Queued(deferred[leader], Request(s)) \/ hook[leader].ev = Changed(s)

\* A request that is seen has come, once.
SeenOnce ==
  \A s \in Relations :
    /\ Changed(s) \in pending[leader] \/ hook[leader].ev = Changed(s) => s \notin app.seen
    /\ hook[leader].ev = Changed(s) => Changed(s) \notin pending[leader]
    /\ s \in buf.seen => s \in app.seen \/ hook[leader].ev = Changed(s)
    /\ client[s] = "none" =>
         s \notin app.seen /\ Changed(s) \notin pending[leader] /\ hook[leader].ev # Changed(s)

\* Each part of the invariant is kept by every step.
LEMMA RequestsStep ==
  ASSUME ~LeaderMayLeave, NoElections, TypeOK, LeaderStays, Requests, [Next]_vars
  PROVE  Requests'
<1>0. leader \in Units /\ deferred[leader] \in Seq(Event) /\ hook[leader].ev \in Event
  BY DEF TypeOK, LeaderStays, Hook
<1>1. CASE Elsewhere
  <2>1. \A s \in Relations : Request(s) \notin pending'[leader]
    BY <1>1, Notices DEF Elsewhere, Requests, UnitKinds
  <2> QED BY <1>1, <2>1 DEF Elsewhere, Requests
<1>2. CASE Begins
  <2>1. PICK e \in Event :
          /\ hook'[leader] = [ev |-> e, todo |-> Append(deferred[leader], e), kept |-> <<>>,
                              bag |-> bag[leader]]
          /\ e.kind = "update_status" \/ e \in pending[leader]
    BY <1>2 DEF Begins
  <2>2. \A x : Queued(Append(deferred[leader], e), x) <=> Queued(deferred[leader], x) \/ x = e
    BY <1>0, QueuedIn
  <2>3. \A s \in Relations : e # Request(s)
    BY <2>1, Notices DEF Requests
  <2>4. /\ hook'[leader].ev = e /\ hook'[leader].todo = Append(deferred[leader], e)
        /\ hook'[leader].kept = <<>> /\ pending'[leader] \subseteq pending[leader]
        /\ UNCHANGED <<leader, deferred>>
    BY <1>2, <2>1 DEF Begins
  <2> QED BY <2>2, <2>3, <2>4, NothingQueued DEF Requests
<1>3. CASE Commit(leader) \/ Fails(leader)
  <2>1. /\ hook'[leader].ev = Idle /\ hook'[leader].todo = <<>> /\ hook'[leader].kept = <<>>
        /\ pending'[leader] \subseteq pending[leader] \union {hook[leader].ev}
        /\ deferred'[leader] \in {deferred[leader], hook[leader].kept} /\ leader' = leader
    BY <1>0, <1>3, Ended
  <2>2. \A s \in Relations : Idle # Request(s)
    BY Notices
  <2> QED BY <2>1, <2>2, NothingQueued DEF Requests
<1>4. CASE Succeeds(leader)
  <2> DEFINE e == Head(hook[leader].todo)
  <2>1. /\ hook'[leader].ev = hook[leader].ev /\ UNCHANGED <<leader, pending, deferred>>
        /\ hook[leader].todo # <<>>
        /\ \A x : Queued(hook'[leader].todo, x) =>
             \/ Queued(hook[leader].todo, x)
             \/ \E s \in Relations : e = Changed(s) /\ x = Request(s)
        /\ \A x : Queued(hook'[leader].kept, x) =>
             Queued(hook[leader].kept, x) \/ (x = e /\ e.kind # "relation_changed")
    BY <1>0, <1>4, Succeeded
  <2>2. Queued(hook[leader].todo, e)
    BY <2>1, QueuedIn DEF TypeOK, LeaderStays, Hook
  <2> HIDE DEF e
  <2>3. ASSUME NEW s \in Relations
        PROVE  /\ ~Queued(hook'[leader].kept, Changed(s))
               /\ Queued(hook'[leader].todo, Changed(s)) => hook[leader].ev = Changed(s)
    BY <2>1, Notices DEF Requests
  <2>4. ASSUME NEW s \in Relations,
               Queued(hook'[leader].todo, Request(s)) \/ Queued(hook'[leader].kept, Request(s))
        PROVE  Queued(deferred[leader], Request(s)) \/ hook[leader].ev = Changed(s)
    <3>1. CASE Queued(hook'[leader].todo, Request(s))
      <4>1. CASE Queued(hook[leader].todo, Request(s))
        BY <4>1 DEF Requests
      <4>2. CASE ~Queued(hook[leader].todo, Request(s))
        <5>1. PICK t \in Relations : e = Changed(t) /\ Request(s) = Request(t)
          BY <2>1, <3>1, <4>2
        <5>2. t = s
          BY <5>1, Notices
        <5> QED BY <2>2, <5>1, <5>2 DEF Requests
      <4> QED BY <4>1, <4>2
    <3>2. CASE Queued(hook'[leader].kept, Request(s))
      BY <2>1, <2>2, <3>2 DEF Requests
    <3> QED BY <2>4, <3>1, <3>2
  <2> QED BY <2>1, <2>3, <2>4 DEF Requests
<1> QED BY <1>1, <1>2, <1>3, <1>4, LeaderSteps

LEMMA SeenOnceStep ==
  ASSUME ~LeaderMayLeave, NoElections, TypeOK, LeaderStays, Flushed, Requests, SeenOnce, [Next]_vars
  PROVE  SeenOnce'
<1>0. leader \in Units /\ hook[leader].ev \in Event
  BY DEF TypeOK, LeaderStays, Hook
<1>1. CASE Elsewhere
  <2>1. UNCHANGED <<leader, app, buf>> /\ hook'[leader] = hook[leader]
    BY <1>1 DEF Elsewhere
  <2>2. ASSUME NEW s \in Relations, Changed(s) \in pending'[leader] \ pending[leader]
        PROVE  client[s] = "none" /\ client'[s] # "none"
    <3>1. PICK r \in Relations :
            Changed(s) = Changed(r) /\ client[r] = "none" /\ client'[r] = "alive"
      BY <1>1, <2>2, Notices DEF Elsewhere, UnitKinds
    <3> QED BY <3>1, Notices
  <2>3. \A s \in Relations : client'[s] = "none" => client[s] = "none"
    BY <1>1 DEF Elsewhere
  <2> QED BY <2>1, <2>2, <2>3 DEF SeenOnce
<1>2. CASE Begins
  <2>1. PICK e \in Event :
          /\ hook'[leader].ev = e
          /\ e.kind = "update_status" \/ (e \in pending[leader] /\ e \notin pending'[leader])
    BY <1>2 DEF Begins
  <2>2. /\ UNCHANGED <<leader, client, app, buf>> /\ buf = app
        /\ pending'[leader] \subseteq pending[leader]
    BY <1>2 DEF Begins, Flushed
  <2>3. \A s \in Relations : e = Changed(s) => e \in pending[leader] /\ e \notin pending'[leader]
    BY <2>1, Notices
  <2> QED BY <2>1, <2>2, <2>3 DEF SeenOnce
<1>3. CASE Commit(leader)
  <2>1. /\ hook'[leader].ev = Idle /\ app' = buf /\ buf' = buf
        /\ UNCHANGED <<leader, client>> /\ pending'[leader] = pending[leader]
    BY <1>0, <1>3, Ended DEF Fails, Commit
  <2>2. \A s \in Relations : Idle # Changed(s)
    BY Notices
  <2> QED BY <2>1, <2>2 DEF SeenOnce
<1>4. CASE Fails(leader)
  <2>1. /\ hook'[leader].ev = Idle /\ app' = app /\ buf' = app /\ UNCHANGED <<leader, client>>
        /\ pending'[leader] \subseteq pending[leader] \union {hook[leader].ev}
    <3>1. Discard(leader)
      BY <1>0, <1>4, Failed
    <3> QED BY <1>0, <1>4, <3>1, Ended DEF Discard
  <2>2. \A s \in Relations : Idle # Changed(s)
    BY Notices
  <2> QED BY <2>1, <2>2 DEF SeenOnce
<1>5. CASE Succeeds(leader)
  <2> DEFINE e == Head(hook[leader].todo)
  <2>1. /\ hook'[leader].ev = hook[leader].ev /\ UNCHANGED <<leader, client, app, pending>>
        /\ hook[leader].todo # <<>>
        /\ \/ buf'.seen = buf.seen
           \/ \E s \in Relations : e = Changed(s) /\ buf'.seen = buf.seen \union {s}
    BY <1>0, <1>5, Succeeded
  <2>2. Queued(hook[leader].todo, e)
    BY <2>1, QueuedIn DEF TypeOK, LeaderStays, Hook
  <2> HIDE DEF e
  <2>3. \A s \in Relations : s \in buf'.seen => s \in buf.seen \/ hook[leader].ev = Changed(s)
    BY <2>1, <2>2 DEF Requests
  <2> QED BY <2>1, <2>3 DEF SeenOnce
<1> QED BY <1>1, <1>2, <1>3, <1>4, <1>5, LeaderSteps

----------------------------------------------------------------------------
(* Credentials, users and auth functions *)

\* Whoever has credentials has begun, and keeps its entry while it lives.
Credited ==
  /\ app.cred \subseteq buf.cred
  /\ \A r \in Relations :
       /\ client[r] = "none" => r \notin buf.cred
       /\ Alive(r) /\ r \in app.cred => Routes(app.cfg, r)
       /\ Alive(r) /\ r \in buf.cred => Routes(buf.cfg, r)

\* The leader will still handle the request of s: its relation-changed is pending or about to be
\* handled as new, or the request itself is queued.
OnItsWay(s) ==
  \/ Changed(s) \in pending[leader]
  \/ /\ ~InHook(leader)
     /\ Queued(deferred[leader], Request(s))
  \/ /\ InHook(leader)
     /\ \/ Queued(hook[leader].todo, Request(s)) \/ Queued(hook[leader].kept, Request(s))
        \/ Queued(hook[leader].todo, Changed(s)) /\ s \notin buf.seen

\* The database d has its auth function; or a request failed half-way, and its next attempt is on
\* its way or has blocked the unit.
Tried(d) == \E s \in Relations \ Rejected : DbOf[s] = d /\ (OnItsWay(s) \/ s \in refused)
LoginsChecked(d) == d \in pg.auth \/ (spent["crashes"] > 0 /\ Tried(d))

Login ==
  \A r \in buf.cred : Alive(r) => r \in pg.users /\ DbOf[r] \in pg.dbs /\ LoginsChecked(DbOf[r])

LEMMA CreditedStep ==
  ASSUME ~LeaderMayLeave, NoElections, IInv, ConfigInv, Credited, [Next]_vars
  PROVE  Credited'
<1>0. /\ TypeOK /\ LeaderStays /\ Flushed /\ Bound /\ leader \in Units
      /\ app.cred \subseteq Relations /\ buf.cred \subseteq Relations /\ buf \in AppData
  BY DEF IInv, ConfigInv, LeaderStays, TypeOK, AppData
<1>1. CASE Elsewhere
  BY <1>1 DEF Elsewhere, Credited, Alive
<1>2. CASE Begins
  BY <1>2 DEF Begins, Credited, Alive
<1>3. CASE Commit(leader) \/ Fails(leader)
  <2>1. /\ UNCHANGED client /\ buf' = app' /\ app' \in {app, buf}
    BY <1>0, <1>3, Ended
  <2> QED BY <2>1 DEF Credited, Alive
<1>4. CASE Succeeds(leader)
  <2>1. UNCHANGED <<client, app, bound>> /\ InHook(leader)
    BY <1>0, <1>4, Succeeded
  <2>2. Handle(leader) /\ ~Discard(leader)
    <3>1. Handle(leader)
      BY <1>4 DEF Succeeds, Handle
    <3>2. hook'[leader].ev = hook[leader].ev
      BY <1>0, <1>4, Succeeded
    <3>3. Discard(leader) => hook'[leader].ev = Idle
      BY <1>0 DEF Discard, NoHook, TypeOK
    <3> QED BY <2>1, <3>1, <3>2, <3>3 DEF InHook
  <2>3. \A r \in Relations : Alive(r) /\ Routes(buf.cfg, r) => Routes(buf'.cfg, r)
    BY <1>0, <2>2, HandlerConfig
  <2>4. CASE buf'.cred = buf.cred
    BY <2>1, <2>3, <2>4 DEF Credited, Alive
  <2>5. CASE Grant(leader)
    <3>1. Rel(leader) \in Relations /\ Rel(leader) \in bound[leader]
      BY <1>0, <2>5, HandlingType DEF Grant, Provisionable, Acceptable, Servable, RelationKinds
    <3>2. buf'.cred = buf.cred \union {Rel(leader)} /\ buf'.cfg = RequestedConfig(leader)
      BY <1>0, <2>5 DEF Grant, AppData
    <3>3. client[Rel(leader)] # "none"
      BY <1>0, <3>1 DEF Bound
    <3>4. \A r \in Relations : Alive(r) => Routes(buf'.cfg, r)
      BY <1>0, <3>1, <3>2, LeaderRoutesAll
    <3> QED BY <2>1, <3>2, <3>3, <3>4 DEF Credited, Alive
  <2>6. buf'.cred = buf.cred \/ Grant(leader)
    BY <1>0, <1>4 DEF Succeeds, UpdateStatus, PebbleReady, ConfigChanged, PeersUnready,
                      PeersChanged, RelationChanged, DropRequest, AwaitBackend, AwaitPeers,
                      Refuse, RequestFails, Blocks, RelationDeparted, IgnoreBroken, KeepRelation,
                      Revoke, AppData
  <2> QED BY <2>4, <2>5, <2>6
<1> QED BY <1>0, <1>1, <1>2, <1>3, <1>4, LeaderSteps

\* A request stays on its way until it is granted or refused.
LEMMA StaysOnItsWay ==
  ASSUME TypeOK, LeaderStays, Flushed, Requests, SeenOnce, NEW s \in Relations, OnItsWay(s),
         \/ Elsewhere \/ Begins \/ Commit(leader) \/ Fails(leader)
         \/ Succeeds(leader) /\ ~(Answers(leader) /\ Rel(leader) = s)
  PROVE  OnItsWay(s)'
<1>0. leader \in Units /\ deferred[leader] \in Seq(Event) /\ hook[leader].ev \in Event
  BY DEF TypeOK, LeaderStays, Hook
<1>1. CASE Elsewhere
  BY <1>1 DEF Elsewhere, OnItsWay, InHook
<1>2. CASE Begins
  <2>1. PICK e \in Event :
          /\ hook'[leader] = [ev |-> e, todo |-> Append(deferred[leader], e), kept |-> <<>>,
                              bag |-> bag[leader]]
          /\ pending[leader] \subseteq pending'[leader] \union {e}
    BY <1>2 DEF Begins
  <2>2. /\ UNCHANGED <<leader, buf, app, deferred>> /\ ~InHook(leader) /\ buf = app
        /\ hook'[leader].ev = e /\ hook'[leader].todo = Append(deferred[leader], e)
    BY <1>2, <2>1 DEF Begins, Flushed
  <2>3. \A x : Queued(hook'[leader].todo, x) <=> Queued(deferred[leader], x) \/ x = e
    <3>1. \A x : Queued(Append(deferred[leader], e), x) <=> Queued(deferred[leader], x) \/ x = e
      BY <1>0, QueuedIn
    <3> QED BY <2>2, <3>1
  <2>4. Changed(s) # Idle
    BY Notices
  <2>5. CASE Changed(s) \in pending[leader] /\ e = Changed(s)
    <3>1. s \notin buf.seen
      BY <2>2, <2>5 DEF SeenOnce
    <3> QED BY <2>2, <2>3, <2>4, <2>5, <3>1 DEF OnItsWay, InHook
  <2>6. CASE Changed(s) \in pending[leader] /\ e # Changed(s)
    BY <2>1, <2>2, <2>6 DEF OnItsWay
  <2>7. CASE Queued(deferred[leader], Request(s))
    BY <2>2, <2>3, <2>7 DEF OnItsWay, InHook
  <2> QED BY <2>2, <2>5, <2>6, <2>7 DEF OnItsWay
<1>3. CASE Commit(leader) \/ Fails(leader)
  <2>1. /\ InHook(leader) /\ leader' = leader /\ ~InHook(leader)'
        /\ \/ /\ hook[leader].todo = <<>> /\ pending'[leader] = pending[leader]
              /\ deferred'[leader] = hook[leader].kept
           \/ /\ UNCHANGED deferred
              /\ \/ pending'[leader] = pending[leader] \union {hook[leader].ev}
                 \/ /\ hook[leader].ev.kind = "update_status"
                    /\ pending'[leader] = pending[leader]
    BY <1>0, <1>3, Ended DEF InHook
  <2>2. Changed(s).kind # "update_status"
    BY Notices
  <2> QED BY <2>1, <2>2, NothingQueued DEF OnItsWay, Requests
<1>4. CASE Succeeds(leader) /\ ~(Answers(leader) /\ Rel(leader) = s)
  <2> DEFINE e == Head(hook[leader].todo)
             h == hook[leader]
             g == hook'[leader]
  <2>1. /\ g.ev = h.ev /\ UNCHANGED <<leader, pending>> /\ InHook(leader)
        /\ \A x : Queued(h.todo, x) => x = e \/ Queued(g.todo, x)
        /\ \A x : Queued(h.kept, x) => Queued(g.kept, x)
        /\ e = Request(s) => Queued(g.kept, e) \/ Answers(leader)
        /\ \/ buf'.seen = buf.seen
           \/ \E t \in Relations : e = Changed(t) /\ buf'.seen = buf.seen \union {t}
        /\ e = Changed(s) => s \in buf.seen \/ Queued(g.todo, Request(s))
    BY <1>0, <1>4, Succeeded
  <2>2. e = Request(s) => Rel(leader) = s
    BY Notices DEF Rel
  <2> HIDE DEF e, g, h
  <2>3. InHook(leader)'
    BY <2>1 DEF InHook, g, h
  <2>4. CASE Changed(s) \in pending[leader]
    BY <2>1, <2>4 DEF OnItsWay
  <2>5. CASE Queued(h.todo, Request(s))
    BY <1>4, <2>1, <2>2, <2>3, <2>5 DEF OnItsWay, g
  <2>6. CASE Queued(h.kept, Request(s))
    BY <2>1, <2>3, <2>6 DEF OnItsWay, g
  <2>7. CASE Queued(h.todo, Changed(s)) /\ s \notin buf.seen
    <3>1. CASE e = Changed(s)
      BY <2>1, <2>3, <2>7, <3>1 DEF OnItsWay, g
    <3>2. CASE e # Changed(s)
      BY <2>1, <2>3, <2>7, <3>2 DEF OnItsWay, g
    <3> QED BY <3>1, <3>2
  <2> QED BY <2>1, <2>4, <2>5, <2>6, <2>7 DEF OnItsWay, h
<1> QED BY <1>1, <1>2, <1>3, <1>4

\* What was refused stays refused, and a crash that was spent stays spent.
LEMMA Lasting ==
  ASSUME TypeOK, [Next]_vars
  PROVE  refused \subseteq refused' /\ (spent["crashes"] > 0 => spent'["crashes"] > 0)
<1>1. ASSUME NEW d \in Disturbances, Spend(d)
      PROVE  spent["crashes"] > 0 => spent'["crashes"] > 0
  BY <1>1 DEF Spend, TypeOK, Disturbances
<1>2. ASSUME NEW u \in Units, Handle(u)
      PROVE  refused \subseteq refused' /\ (spent["crashes"] > 0 => spent'["crashes"] > 0)
  <2>1. RequestFails(u) \/ UNCHANGED spent
    BY <1>2, HandlerFrame
  <2>2. refused \subseteq refused'
    BY <1>2 DEF Handle, UpdateStatus, UpdateStatusMisconfigured, PebbleReady,
                PebbleReadyMisconfigured, ConfigChanged, PeersUnready, PeersTooEarly,
                PeersMisconfigured, PeersChanged, RelationChanged, DropRequest, AwaitBackend,
                RequestMisconfigured, AwaitPeers, Grant, Refuse, RequestFails, Blocks,
                RequestOfDeadRelation, GrantTooEarly, RelationDeparted, IgnoreBroken,
                KeepRelation, Revoke, RevokeFails, Misread
  <2> QED BY <1>1, <2>1, <2>2 DEF RequestFails, Disturbances
<1>3. ASSUME NEW u \in Units, StartHook(u) \/ StartUpdateStatus(u) \/ Commit(u) \/ UnitGone(u)
      PROVE  UNCHANGED <<refused, spent>>
  BY <1>3 DEF StartHook, Start, StartUpdateStatus, RunHook, Commit, UnitGone, env
<1>4. ASSUME NEW u \in Units, Disturb(u)
      PROVE  UNCHANGED refused /\ (spent["crashes"] > 0 => spent'["crashes"] > 0)
  BY <1>1, <1>4 DEF Disturb, Crash, ProvisioningFails, ElectLeader, Leave, ContainerRestart,
                    Disturbances
<1>5. ASSUME NEW r \in Relations, AddRelation(r) \/ RemoveRelation(r)
      PROVE  UNCHANGED refused /\ (spent["crashes"] > 0 => spent'["crashes"] > 0)
  BY <1>1, <1>5 DEF AddRelation, RemoveRelation, Disturbances, env
<1>6. CASE Outage \/ Recover \/ Misconfigure \/ Reconfigure \/ UNCHANGED vars
  BY <1>1, <1>6 DEF Outage, Recover, Misconfigure, Reconfigure, Disturbances, vars
<1> QED BY <1>2, <1>3, <1>4, <1>5, <1>6 DEF Next, Work

LEMMA LoginStep ==
  ASSUME ~LeaderMayLeave, NoElections, IInv, ConfigInv, Requests, SeenOnce, Credited, Login,
         [Next]_vars
  PROVE  Login'
<1>0. /\ TypeOK /\ LeaderStays /\ Flushed /\ leader \in Units
      /\ app.cred \subseteq buf.cred /\ buf.cred \subseteq Relations
      /\ buf \in AppData /\ DbOf \in [Relations -> Databases]
      /\ pg \in [users : SUBSET Relations, dbs : SUBSET Databases, auth : SUBSET Databases]
      /\ refused \subseteq refused' /\ (spent["crashes"] > 0 => spent'["crashes"] > 0)
  BY ConstantsAssumption, Lasting DEF IInv, ConfigInv, LeaderStays, TypeOK, AppData, Credited
<1> DEFINE Awaited(d) == \E s \in Relations \ Rejected : DbOf[s] = d /\ OnItsWay(s)
           Spares == \A r \in buf.cred : Alive(r) =>
             /\ r \notin pg.users \ pg'.users /\ DbOf[r] \notin pg.dbs \ pg'.dbs
             /\ DbOf[r] \in pg.auth \ pg'.auth =>
                  Awaited(DbOf[r]) /\ spent'["crashes"] > 0
\* A request stays on its way, or is answered.
<1>1. ASSUME \/ Elsewhere \/ Begins \/ Commit(leader) \/ Fails(leader) \/ Succeeds(leader),
             NEW s \in Relations \ Rejected, OnItsWay(s), ~(Grant(leader) /\ Rel(leader) = s)
      PROVE  (OnItsWay(s) \/ s \in refused)'
  <2>1. CASE Succeeds(leader) /\ Answers(leader) /\ Rel(leader) = s
    <3>1. Refuse(leader) \/ RequestFails(leader)
      BY <1>1, <2>1 DEF Answers
    <3> QED BY <2>1, <3>1 DEF Refuse, RequestFails, Blocks
  <2>2. CASE ~(Succeeds(leader) /\ Answers(leader) /\ Rel(leader) = s)
    BY <1>0, <1>1, <2>2, StaysOnItsWay
  <2> QED BY <2>1, <2>2
\* A step that takes nothing from PostgreSQL but an auth function that will be installed again.
<1>2. ASSUME \/ Elsewhere \/ Begins \/ Commit(leader) \/ Fails(leader) \/ Succeeds(leader),
             ~Grant(leader), buf'.cred \subseteq buf.cred, Spares,
             \A r \in buf.cred : client'[r] = "alive" => Alive(r)
      PROVE  Login'
  <2> SUFFICES ASSUME NEW r \in buf.cred, Alive(r)
               PROVE  r \in pg'.users /\ DbOf[r] \in pg'.dbs /\ LoginsChecked(DbOf[r])'
    BY <1>2 DEF Login, Alive
  <2>1. r \in pg'.users /\ DbOf[r] \in pg'.dbs
    BY <1>2 DEF Login
  <2>2. CASE DbOf[r] \in pg'.auth
    BY <2>1, <2>2 DEF LoginsChecked
  <2>3. CASE DbOf[r] \notin pg'.auth
    <3>1. Tried(DbOf[r]) /\ spent'["crashes"] > 0
      BY <1>0, <1>2, <2>3 DEF Login, LoginsChecked, Tried
    <3>2. PICK s \in Relations \ Rejected : DbOf[s] = DbOf[r] /\ (OnItsWay(s) \/ s \in refused)
      BY <3>1 DEF Tried
    <3>3. (OnItsWay(s) \/ s \in refused)'
      BY <1>0, <1>1, <1>2, <3>2
    <3> QED BY <2>1, <3>1, <3>2, <3>3 DEF LoginsChecked, Tried
  <2> QED BY <2>2, <2>3
<1>3. CASE (Elsewhere \/ Begins) /\ ~Grant(leader)
  <2>1. /\ UNCHANGED <<buf, pg>>
        /\ \A r \in Relations : client'[r] = "alive" => client[r] \in {"none", "alive"}
    BY <1>3 DEF Elsewhere, Begins
  <2>2. \A r \in buf.cred : client'[r] = "alive" => Alive(r)
    BY <1>0, <2>1 DEF Credited, Alive
  <2> QED BY <1>2, <1>3, <2>1, <2>2
<1>4. CASE (Commit(leader) \/ Fails(leader)) /\ ~Grant(leader)
  <2>1. UNCHANGED client /\ buf' = app' /\ app' \in {app, buf}
    BY <1>0, <1>4, Ended
  <2>2. CASE Commit(leader)
    <3>1. UNCHANGED pg
      BY <2>2 DEF Commit
    <3> QED BY <1>0, <1>2, <1>4, <2>1, <3>1 DEF Alive
  <2>3. CASE Fails(leader)
    <3>1. /\ pg.users \subseteq pg'.users /\ pg.dbs \subseteq pg'.dbs
          /\ \A d \in pg.auth \ pg'.auth : Awaited(d) /\ spent'["crashes"] > 0
      <4>1. ASSUME NEW d \in pg.auth \ pg'.auth PROVE Awaited(d) /\ spent'["crashes"] > 0
        <5>1. /\ Handling(leader, "database_requested") /\ Rel(leader) \notin Rejected
              /\ d = DbOf[Rel(leader)] /\ Spend("crashes")
          BY <1>0, <2>3, <4>1, Failed
        <5>2. /\ hook[leader].todo \in Seq(Event) /\ hook[leader].todo # <<>>
              /\ Rel(leader) \in Relations /\ InHook(leader)
          BY <1>0, <5>1, HandlingType DEF RelationKinds, Handling
        <5>3. Head(hook[leader].todo) \in Event
          BY <5>2, HeadTailProperties
        <5>4. Head(hook[leader].todo) = Request(Rel(leader))
          BY <5>1, <5>3, Notices DEF Handling, Rel
        <5>5. Queued(hook[leader].todo, Request(Rel(leader)))
          BY <5>2, <5>4, QueuedIn
        <5>6. spent'["crashes"] > 0
          BY <1>0, <5>1 DEF Spend, TypeOK, Disturbances
        <5> QED BY <5>1, <5>2, <5>5, <5>6 DEF OnItsWay
      <4> QED BY <1>0, <2>3, <4>1, Failed
    <3> QED BY <1>0, <1>2, <1>4, <2>1, <3>1 DEF Alive
  <2> QED BY <1>4, <2>2, <2>3
<1>5. CASE Succeeds(leader) /\ ~Grant(leader)
  <2>1. UNCHANGED client
    BY <1>0, <1>5, Succeeded
  <2>2. CASE Revoke(leader)
    <3>1. /\ Rel(leader) \in Relations /\ client[Rel(leader)] = "dying"
      BY <1>0, <2>2, HandlingType, RevokedIsDying DEF Revoke, Revocable, RelationKinds
    <3>2. /\ pg'.users = pg.users \ {Rel(leader)} /\ pg'.dbs = pg.dbs
          /\ pg'.auth = pg.auth \ OrphanedDbs(leader) /\ buf'.cred = buf.cred
      BY <1>0, <2>2 DEF Revoke, AppData
    <3>3. ASSUME NEW r \in buf.cred, Alive(r)
          PROVE  r # Rel(leader) /\ DbOf[r] \notin OrphanedDbs(leader)
      <4>1. r # Rel(leader) /\ r \in Relations
        BY <1>0, <3>1, <3>3 DEF Alive
      <4>2. buf.cfg.dbs[r] = DbOf[r]
        BY <1>0, <3>3 DEF Credited, Routes
      <4> QED BY <4>1, <4>2 DEF OrphanedDbs
    <3> QED BY <1>2, <1>5, <2>1, <3>2, <3>3 DEF Alive
  <2>3. CASE Refuse(leader) \/ RequestFails(leader)
    <3>1. pg.users \subseteq pg'.users /\ pg.dbs \subseteq pg'.dbs /\ pg'.auth = pg.auth
      BY <1>0, <2>3 DEF Refuse, RequestFails
    <3>2. buf'.cred = buf.cred
      BY <1>0, <2>3 DEF Refuse, RequestFails, Blocks, AppData
    <3> QED BY <1>2, <1>5, <2>1, <3>1, <3>2 DEF Alive
  <2>4. CASE ~Revoke(leader) /\ ~Refuse(leader) /\ ~RequestFails(leader)
    <3>1. UNCHANGED pg /\ buf'.cred = buf.cred
      BY <1>0, <1>5, <2>4 DEF Succeeds, UpdateStatus, PebbleReady, ConfigChanged, PeersUnready,
         PeersChanged, RelationChanged, DropRequest, AwaitBackend, AwaitPeers,
         RelationDeparted, IgnoreBroken, KeepRelation, AppData
    <3> QED BY <1>2, <1>5, <2>1, <3>1 DEF Alive
  <2> QED BY <2>2, <2>3, <2>4
<1>6. CASE Grant(leader)
  <2>1. Succeeds(leader) /\ UNCHANGED client
    BY <1>0, <1>6, Succeeded DEF Succeeds
  <2>2. Rel(leader) \in Relations /\ DbOf[Rel(leader)] \in Databases
    BY <1>0, <1>6, HandlingType DEF Grant, Acceptable, Provisionable, Servable, RelationKinds
  <2>3. /\ pg'.users = pg.users \union {Rel(leader)}
        /\ pg'.dbs = pg.dbs \union {DbOf[Rel(leader)]}
        /\ pg'.auth = pg.auth \union {DbOf[Rel(leader)]}
        /\ buf'.cred = buf.cred \union {Rel(leader)}
    BY <1>0, <1>6 DEF Grant, AppData
  <2> SUFFICES ASSUME NEW r \in buf'.cred, Alive(r)
               PROVE  r \in pg'.users /\ DbOf[r] \in pg'.dbs /\ LoginsChecked(DbOf[r])'
    BY <2>1 DEF Login, Alive
  <2>4. CASE DbOf[r] = DbOf[Rel(leader)]
    <3>1. r \in pg'.users
      BY <2>3 DEF Login
    <3> QED BY <2>3, <2>4, <3>1 DEF LoginsChecked
  <2>5. CASE DbOf[r] # DbOf[Rel(leader)]
    <3>1. r \in buf.cred /\ r \in pg.users /\ DbOf[r] \in pg.dbs /\ LoginsChecked(DbOf[r])
      BY <2>3, <2>5 DEF Login
    <3>2. CASE DbOf[r] \in pg.auth
      BY <2>3, <3>1, <3>2 DEF LoginsChecked
    <3>3. CASE DbOf[r] \notin pg.auth
      <4>1. PICK s \in Relations \ Rejected :
              DbOf[s] = DbOf[r] /\ (OnItsWay(s) \/ s \in refused)
        BY <3>1, <3>3 DEF LoginsChecked, Tried
      <4>2. (OnItsWay(s) \/ s \in refused)'
        BY <1>0, <1>1, <2>1, <2>5, <4>1
      <4> QED BY <1>0, <2>3, <3>1, <3>3, <4>1, <4>2 DEF LoginsChecked, Tried
    <3> QED BY <3>2, <3>3
  <2> QED BY <2>4, <2>5
<1> QED BY <1>0, <1>3, <1>4, <1>5, <1>6, LeaderSteps

\* OnItsWay is what GrantedCanLogIn looks for on any unit.
LEMMA ComesIn ==
  ASSUME LeaderStays, Requests, NEW s \in Relations, OnItsWay(s)
  PROVE  Outstanding(s)
<1>1. leader \in members
  BY DEF LeaderStays
<1>2. \/ Changed(s) \in pending[leader] \/ hook[leader].ev = Changed(s)
      \/ Queued(deferred[leader], Request(s))
  BY DEF OnItsWay, Requests
<1> QED BY <1>1, <1>2 DEF Outstanding, Changed, Request

\* The leader's request queue and what it granted, while the lease stays where it is.
Leading == ConfigInv /\ Requests /\ SeenOnce /\ Credited /\ Login

\* The invariant behind both theorems.
LEMMA LeadingInvariant ==
  ASSUME ~LeaderMayLeave, NoElections
  PROVE  Spec => [](IInv /\ Leading)
<1>1. Init => Leading
  <2> SUFFICES ASSUME Init PROVE Leading
    OBVIOUS
  <2>1. /\ leader \in Units /\ app.seen = {} /\ app.cred = {} /\ buf = app
        /\ hook[leader].ev = Idle /\ hook[leader].todo = <<>> /\ hook[leader].kept = <<>>
        /\ deferred[leader] = <<>> /\ pending[leader] = {Ev("pebble_ready", NoRel)}
    BY DEF Init
  <2>2. /\ \A s \in Relations : Idle # Changed(s) /\ Idle # Request(s)
        /\ \A s \in Relations : /\ Changed(s) # Ev("pebble_ready", NoRel)
                                /\ Request(s) # Ev("pebble_ready", NoRel)
    BY DEF Idle, Ev, Changed, Request
  <2>3. Requests /\ SeenOnce
    BY <2>1, <2>2, NothingQueued DEF Requests, SeenOnce
  <2>4. Credited /\ Login
    BY <2>1 DEF Credited, Login
  <2> QED BY <2>3, <2>4, ConfigInit DEF Leading
<1>2. IInv /\ Leading /\ [Next]_vars => Leading'
  <2> SUFFICES ASSUME IInv, Leading, [Next]_vars PROVE Leading'
    OBVIOUS
  <2>1. TypeOK /\ LeaderStays /\ Flushed /\ ConfigInv /\ Requests /\ SeenOnce /\ Credited /\ Login
    BY DEF IInv, ConfigInv, Leading
  <2>2. ConfigInv'
    BY <2>1, ConfigStep
  <2>3. Requests' /\ SeenOnce'
    BY <2>1, RequestsStep, SeenOnceStep
  <2>4. Credited' /\ Login'
    BY <2>1, CreditedStep, LoginStep
  <2> QED BY <2>2, <2>3, <2>4 DEF Leading
<1> QED BY <1>1, <1>2, TypeCorrect, BrokenIsExcused, PTL DEF Spec, IInv

\* A client that has credentials can log in: its user and its database exist, and the auth
\* function of its database is there or is about to be installed by a request that the leader
\* still has (_on_database_requested drops it first, and may fail or be put off half-way); or
\* the next attempt of such a request was refused, as an admin's is, and the unit blocked.
THEOREM CredentialsLogIn ==
  ASSUME ~LeaderMayLeave, NoElections
  PROVE  Spec => []GrantedCanLogIn
<1>1. IInv /\ Leading => GrantedCanLogIn
  <2> SUFFICES ASSUME IInv, Leading, NEW r \in app.cred, Alive(r)
               PROVE  /\ r \in pg.users /\ DbOf[r] \in pg.dbs
                      /\ \/ DbOf[r] \in pg.auth
                         \/ \E s \in Relations :
                              DbOf[s] = DbOf[r] /\ (Outstanding(s) \/ GivenUp(s))
    BY DEF GrantedCanLogIn
  <2>1. r \in buf.cred /\ LeaderStays /\ Requests
    BY DEF Leading, ConfigInv, Credited
  <2>2. r \in pg.users /\ DbOf[r] \in pg.dbs /\ LoginsChecked(DbOf[r])
    BY <2>1 DEF Leading, Login
  <2> QED BY <2>1, <2>2, ComesIn DEF LoginsChecked, Tried, GivenUp
<1> QED BY <1>1, LeadingInvariant, PTL

----------------------------------------------------------------------------
(* Users of removed relations *)

\* PostgreSQL is always reachable.
NoOutages == \A b \in Budgets : b["outages"] = 0

\* No request outlives its relation with a backend that creates users first: it does not create
\* the user of a relation that is gone, or there are no peers to wait for.
NoLateUsers == UserBeforeDb => \E u \in Units : Units = {u}

\* The leader is not told to leave its relations.
Stays ==
  /\ backend = "ready"
  /\ bag[leader].departing = {} /\ hook[leader].bag.departing = {}
  /\ \A r \in Relations : Departing(r) \notin pending[leader] /\ hook[leader].ev # Departing(r)

\* A relation has a user at most from its beginning to the leader's relation-broken, of which
\* the last thing is to drop it.
Users ==
  \A r \in Relations :
    /\ client[r] = "none" \/ r \notin bound[leader] => r \notin pg.users
    /\ hook[leader].ev = Broken(r) =>
         \/ Queued(hook[leader].todo, Broken(r))
         \/ hook[leader].todo = <<>> /\ r \notin pg.users

\* Without peers a request is handled in the hook that it came with, while its relation exists.
Alone ==
  UserBeforeDb => \A r \in Relations :
    /\ Changed(r) \in pending[leader] \/ hook[leader].ev = Changed(r) => r \in bound[leader]
    /\ hook[leader].ev = Broken(r) => Changed(r) \notin pending[leader]
    /\ ~Queued(deferred[leader], Request(r)) /\ ~Queued(hook[leader].kept, Request(r))

\* Handlers that do not fail touch the departing flag only for relation-departed and
\* relation-broken of a relation that it is set for.
LEMMA FlagUntouched ==
  ASSUME TypeOK, leader \in Units, Succeeds(leader),
         ~RelationDeparted(leader), ~KeepRelation(leader)
  PROVE  hook'[leader].bag.departing = hook[leader].bag.departing
<1>0. hook \in [Units -> Hook] /\ hook[leader] \in Hook
  BY DEF TypeOK
<1>1. Finish(leader) \/ Defer(leader) => hook'[leader].bag = hook[leader].bag
  <2>1. Finish(leader) => hook'[leader].bag = hook[leader].bag
    BY <1>0 DEF Finish, Handled, Hook
  <2>2. Defer(leader) => hook'[leader].bag = hook[leader].bag
    BY <1>0 DEF Defer, Kept, Hook
  <2> QED BY <2>1, <2>2
<1>2. CASE PebbleReady(leader) \/ PeersChanged(leader)
  <2>1. CASE PebbleReady(leader)
    <3>1. hook'[leader] = [Handled(hook[leader]) EXCEPT !.bag.init = TRUE]
      BY <1>0, <2>1 DEF PebbleReady
    <3> QED BY <1>0, <3>1 DEF Handled, Hook, UnitData
  <2>2. CASE PeersChanged(leader)
    <3>1. hook'[leader] = [Handled(hook[leader]) EXCEPT !.bag.ack = ViewCfg(leader)]
      BY <1>0, <2>2 DEF PeersChanged
    <3> QED BY <1>0, <3>1 DEF Handled, Hook, UnitData
  <2> QED BY <1>2, <2>1, <2>2
<1>3. CASE RelationChanged(leader)
  BY <1>0, <1>1, <1>3 DEF RelationChanged, Hook
<1>4. CASE \/ UpdateStatus(leader) \/ ConfigChanged(leader) \/ PeersUnready(leader)
           \/ DropRequest(leader) \/ AwaitBackend(leader) \/ AwaitPeers(leader) \/ Grant(leader)
           \/ Refuse(leader) \/ RequestFails(leader) \/ IgnoreBroken(leader) \/ Revoke(leader)
  BY <1>1, <1>4 DEF UpdateStatus, ConfigChanged, PeersUnready, DropRequest, AwaitBackend,
                    AwaitPeers, Grant, Refuse, RequestFails, Blocks, IgnoreBroken, Revoke
<1> QED BY <1>2, <1>3, <1>4 DEF Succeeds

\* The notice of a leave event is the last of its hook.
LEMMA LeaveIsLast ==
  ASSUME IInv, leader \in Units, InHook(leader), hook[leader].todo # <<>>,
         Head(hook[leader].todo).kind \in LeaveKinds
  PROVE  Head(hook[leader].todo) = hook[leader].ev /\ Tail(hook[leader].todo) = <<>>
<1>1. hook[leader].todo \in Seq(Event) /\ LeavesLast(leader)
  BY DEF IInv, TypeOK, Hook, BrokenExcused
<1>2. /\ Head(hook[leader].todo) = hook[leader].todo[1] /\ 1 \in DOMAIN hook[leader].todo
      /\ Tail(hook[leader].todo) \in Seq(Event)
      /\ Len(Tail(hook[leader].todo)) = Len(hook[leader].todo) - 1
  BY <1>1, HeadTailProperties
<1>3. Len(hook[leader].todo) = 1 /\ Head(hook[leader].todo) = hook[leader].ev
  BY <1>1, <1>2 DEF LeavesLast
<1>4. Tail(hook[leader].todo) = <<>>
  <2>1. Len(Tail(hook[leader].todo)) = 0
    BY <1>2, <1>3
  <2> QED BY <1>2, <2>1, EmptySeq
<1> QED BY <1>3, <1>4

LEMMA StaysStep ==
  ASSUME ~LeaderMayLeave, NoElections, NoOutages, IInv, LeaderStays, Stays, [Next]_vars
  PROVE  Stays'
<1>0. TypeOK /\ leader \in Units
  BY DEF IInv, TypeOK, LeaderStays
<1>1. backend' = "ready"
  <2>1. ASSUME Outage PROVE FALSE
    <3>1. PICK b \in Budgets : spent'["outages"] <= b["outages"]
      BY <2>1 DEF Outage, Spend, Disturbances
    <3>2. spent["outages"] \in Nat /\ spent'["outages"] = spent["outages"] + 1
      BY <1>0, <2>1 DEF Outage, Spend, TypeOK, Disturbances
    <3> QED BY <3>1, <3>2 DEF NoOutages
  <2>2. ASSUME NEW u \in Units, Handle(u) \/ StartHook(u) \/ StartUpdateStatus(u)
        PROVE  backend' = backend
    BY <1>0, <2>2, HandlerFrame, StartFrame
  <2>3. ASSUME NEW u \in Units, Commit(u) \/ UnitGone(u) \/ Disturb(u)
        PROVE  backend' = backend
    BY <2>3 DEF Commit, UnitGone, Disturb, Crash, ProvisioningFails, ElectLeader, Leave,
                ContainerRestart, env
  <2>4. ASSUME NEW r \in Relations, AddRelation(r) \/ RemoveRelation(r) PROVE backend' = backend
    BY <2>4 DEF AddRelation, RemoveRelation, env
  <2>5. CASE Recover \/ Misconfigure \/ Reconfigure \/ UNCHANGED vars
    BY <2>5 DEF Recover, Misconfigure, Reconfigure, Stays, vars
  <2> QED BY <2>1, <2>2, <2>3, <2>4, <2>5 DEF Next, Work, Stays
<1>2. CASE Elsewhere
  <2>1. \A r \in Relations : Departing(r) \notin pending'[leader]
    BY <1>2, Notices DEF Elsewhere, Stays, UnitKinds
  <2> QED BY <1>1, <1>2, <2>1 DEF Elsewhere, Stays
<1>3. CASE Begins
  <2>1. PICK e \in Event :
          /\ hook'[leader].ev = e /\ hook'[leader].bag = bag[leader]
          /\ e.kind = "update_status" \/ e \in pending[leader]
    BY <1>3 DEF Begins
  <2>2. \A r \in Relations : e # Departing(r)
    BY <2>1, Notices DEF Stays
  <2> QED BY <1>1, <1>3, <2>1, <2>2 DEF Begins, Stays
<1>4. CASE Commit(leader) \/ Fails(leader)
  <2>1. /\ leader' = leader /\ hook'[leader].ev = Idle /\ hook'[leader].bag = bag'[leader]
        /\ bag'[leader] \in {bag[leader], hook[leader].bag}
        /\ pending'[leader] \subseteq pending[leader] \union {hook[leader].ev}
    BY <1>0, <1>4, Ended
  <2>2. \A r \in Relations : Idle # Departing(r)
    BY Notices
  <2> QED BY <1>1, <2>1, <2>2 DEF Stays
<1>5. CASE Succeeds(leader)
  <2>1. /\ InHook(leader) /\ UNCHANGED <<leader, bag, pending>>
        /\ hook'[leader].ev = hook[leader].ev
        /\ hook[leader].todo # <<>> /\ Head(hook[leader].todo) \in Event
    BY <1>0, <1>5, Succeeded
  <2>2. ~RelationDeparted(leader)
    <3>1. ASSUME RelationDeparted(leader) PROVE FALSE
      <4>1. Head(hook[leader].todo).kind = "relation_departed"
        BY <3>1 DEF RelationDeparted, Handling
      <4>2. Head(hook[leader].todo) = hook[leader].ev
        BY <1>0, <2>1, <4>1, LeaveIsLast DEF LeaveKinds
      <4> QED BY <2>1, <4>1, <4>2, Notices DEF Stays, RelationKinds
    <3> QED BY <3>1
  <2>3. ~KeepRelation(leader)
    BY DEF KeepRelation, Stays
  <2>4. hook'[leader].bag.departing = hook[leader].bag.departing
    BY <1>0, <1>5, <2>2, <2>3, FlagUntouched
  <2> QED BY <1>1, <2>1, <2>4 DEF Stays
<1> QED BY <1>0, <1>2, <1>3, <1>4, <1>5, LeaderSteps

\* Without a backend to wait for, and without peers, no request is put off.
LEMMA NothingPutOff ==
  ASSUME TypeOK, leader \in Units, backend = "ready", Units = {leader}, Succeeds(leader),
         NEW r \in Relations, Queued(hook'[leader].kept, Request(r))
  PROVE  Queued(hook[leader].kept, Request(r))
<1>0. /\ hook \in [Units -> Hook] /\ hook[leader] \in Hook /\ members \subseteq Units
  BY DEF TypeOK
<1>1. CASE Head(hook[leader].todo) = Request(r)
  <2>1. Head(hook[leader].todo).kind = "database_requested"
    BY <1>1, Notices
  <2>2. Synced(leader, RequestedConfig(leader))
    BY <1>0 DEF Synced
  <2>3. Answers(leader)
    BY <2>1, <2>2
       DEF Answers, Succeeds, UpdateStatus, PebbleReady, ConfigChanged, PeersUnready,
       PeersChanged, PeersServed, RelationChanged, DropRequest, AwaitBackend, AwaitPeers,
       RelationDeparted, IgnoreBroken, KeepRelation, Revoke, Revocable, Handling
  <2>4. hook'[leader].kept = hook[leader].kept
    BY <1>0, <2>3 DEF Answers, Grant, Refuse, RequestFails, Blocks, Finish, Handled, Hook
  <2> QED BY <2>4
<1>2. CASE Head(hook[leader].todo) # Request(r)
  BY <1>0, <1>2, Succeeded
<1> QED BY <1>1, <1>2

LEMMA AloneStep ==
  ASSUME ~LeaderMayLeave, NoElections, NoLateUsers, TypeOK, LeaderStays, Bound, Stays, Alone,
         [Next]_vars
  PROVE  Alone'
<1> SUFFICES ASSUME UserBeforeDb, NEW r \in Relations
             PROVE  /\ \/ Changed(r) \in pending'[leader']
                       \/ hook'[leader'].ev = Changed(r)
                       => r \in bound'[leader']
                    /\ hook'[leader'].ev = Broken(r) => Changed(r) \notin pending'[leader']
                    /\ ~Queued(deferred'[leader'], Request(r))
                    /\ ~Queued(hook'[leader'].kept, Request(r))
  BY DEF Alone
<1>0. /\ leader \in Units /\ leader \in members \ leaving /\ Units = {leader}
      /\ hook[leader].ev \in Event
  BY DEF TypeOK, LeaderStays, Hook, NoLateUsers
<1>1. /\ Changed(r) \in pending[leader] \/ hook[leader].ev = Changed(r) => r \in bound[leader]
      /\ hook[leader].ev = Broken(r) => Changed(r) \notin pending[leader]
      /\ ~Queued(deferred[leader], Request(r)) /\ ~Queued(hook[leader].kept, Request(r))
  BY DEF Alone
<1>2. \A s \in Relations :
        /\ Idle # Changed(s) /\ Idle # Broken(s) /\ Broken(s).kind = "relation_broken"
        /\ Changed(s).kind = "relation_changed"
        /\ Changed(s) = Changed(r) => s = r
        /\ Changed(s) # Broken(r) /\ Broken(s) # Changed(r)
  BY Notices
<1>3. hook[leader].ev = Broken(r) => client[r] # "none"
  BY <1>0 DEF Bound, Broken
<1>4. CASE Elsewhere
  <2>1. ASSUME Changed(r) \in pending'[leader] \ pending[leader]
        PROVE  client[r] = "none" /\ r \in bound'[leader]
    BY <1>2, <1>4, <2>1 DEF Elsewhere, UnitKinds
  <2> QED BY <1>1, <1>3, <1>4, <2>1 DEF Elsewhere
<1>5. CASE Begins
  <2>1. PICK e \in Event :
          /\ hook'[leader].ev = e /\ hook'[leader].kept = <<>>
          /\ e.kind = "update_status" \/ e \in pending[leader]
          /\ \A s \in Relations : e = Broken(s) => Changed(s) \notin pending[leader]
    BY <1>5 DEF Begins
  <2>2. UNCHANGED <<leader, bound, deferred>> /\ pending'[leader] \subseteq pending[leader]
    BY <1>5 DEF Begins
  <2> QED BY <1>1, <1>2, <2>1, <2>2, NothingQueued
<1>6. CASE Commit(leader)
  <2>1. /\ leader' = leader /\ hook'[leader].ev = Idle /\ hook'[leader].kept = <<>>
        /\ deferred'[leader] = hook[leader].kept /\ pending'[leader] = pending[leader]
        /\ bound'[leader] \subseteq bound[leader]
        /\ \A s \in bound[leader] \ bound'[leader] : hook[leader].ev = Broken(s)
    BY <1>0, <1>6, Ended
  <2> QED BY <1>1, <1>2, <2>1, NothingQueued
<1>7. CASE Fails(leader)
  <2>1. /\ leader' = leader /\ hook'[leader].ev = Idle /\ hook'[leader].kept = <<>>
        /\ UNCHANGED <<deferred, bound>>
        /\ pending'[leader] \subseteq pending[leader] \union {hook[leader].ev}
    BY <1>0, <1>7, Ended, Failed DEF Discard, juju
  <2> QED BY <1>1, <1>2, <2>1, NothingQueued
<1>8. CASE Succeeds(leader)
  <2>1. hook'[leader].ev = hook[leader].ev /\ UNCHANGED <<leader, bound, pending, deferred>>
    BY <1>0, <1>8, Succeeded
  <2>2. ~Queued(hook'[leader].kept, Request(r))
    BY <1>0, <1>1, <1>8, NothingPutOff DEF Stays
  <2> QED BY <1>1, <2>1, <2>2
<1> QED BY <1>4, <1>5, <1>6, <1>7, <1>8, LeaderSteps

LEMMA UsersStep ==
  ASSUME ~LeaderMayLeave, NoElections, IInv, LeaderStays, Bound, Requests, Stays, Alone, Users,
         [Next]_vars
  PROVE  Users'
<1>0. /\ TypeOK /\ leader \in Units /\ leader \in members \ leaving
      /\ pg \in [users : SUBSET Relations, dbs : SUBSET Databases, auth : SUBSET Databases]
      /\ \A r \in Relations : Idle # Broken(r) /\ Broken(r).kind = "relation_broken"
      /\ \A r \in bound[leader] : client[r] # "none"
  BY Notices DEF IInv, TypeOK, LeaderStays, Bound
<1>1. CASE Elsewhere
  BY <1>1 DEF Elsewhere, Users
<1>2. CASE Begins
  <2>1. PICK e \in Event :
          hook'[leader].ev = e /\ hook'[leader].todo = Append(deferred[leader], e)
    BY <1>2 DEF Begins
  <2>2. Queued(hook'[leader].todo, e)
    <3>1. deferred[leader] \in Seq(Event)
      BY <1>0 DEF TypeOK
    <3>2. Queued(Append(deferred[leader], e), e)
      BY <3>1, QueuedIn
    <3> QED BY <2>1, <3>2
  <2>3. UNCHANGED <<leader, client, bound, pg>>
    BY <1>2 DEF Begins
  <2> QED BY <2>1, <2>2, <2>3 DEF Users
<1>3. CASE Commit(leader)
  <2>1. /\ leader' = leader /\ hook'[leader].ev = Idle /\ hook[leader].todo = <<>>
        /\ UNCHANGED <<client, pg>>
        /\ \A r \in bound[leader] \ bound'[leader] : hook[leader].ev = Broken(r)
    BY <1>0, <1>3, Ended
  <2> QED BY <1>0, <2>1, NothingQueued DEF Users
<1>4. CASE Fails(leader)
  <2>1. /\ leader' = leader /\ hook'[leader].ev = Idle /\ UNCHANGED <<client, bound>>
    BY <1>0, <1>4, Ended
  <2>2. ASSUME NEW r \in pg'.users \ pg.users PROVE r \in bound[leader]
    <3>1. /\ Handling(leader, "database_requested") /\ r = Rel(leader)
          /\ r \in bound[leader] \/ UserBeforeDb
      BY <1>0, <1>4, <2>2, Failed
    <3>2. /\ r \in Relations /\ hook[leader].todo \in Seq(Event) /\ hook[leader].todo # <<>>
      BY <1>0, <3>1, HandlingType DEF RelationKinds
    <3>3. Head(hook[leader].todo) \in Event
      BY <3>2, HeadTailProperties
    <3>4. Head(hook[leader].todo) = Request(r)
      BY <3>1, <3>3, Notices DEF Handling, Rel
    <3>5. Queued(hook[leader].todo, Request(r))
      BY <3>2, <3>4, QueuedIn
    <3> QED BY <3>1, <3>2, <3>5 DEF Requests, Alone
  <2> QED BY <1>0, <2>1, <2>2 DEF Users
<1>5. CASE Succeeds(leader)
  <2> DEFINE e == Head(hook[leader].todo)
  <2>1. /\ InHook(leader) /\ UNCHANGED <<leader, client, bound>>
        /\ hook'[leader].ev = hook[leader].ev
        /\ hook[leader].todo # <<>> /\ e \in Event
        /\ \A x : Queued(hook[leader].todo, x) => x = e \/ Queued(hook'[leader].todo, x)
    BY <1>0, <1>5, Succeeded
  <2>2. \/ pg'.users = pg.users \/ Grant(leader) \/ Revoke(leader)
        \/ RequestFails(leader) /\ pg'.users = pg.users \union {Rel(leader)}
    <3>1. CASE Refuse(leader)
      BY <1>0, <3>1 DEF Refuse
    <3>2. CASE RequestFails(leader)
      BY <1>0, <3>2 DEF RequestFails
    <3> QED BY <1>5, <3>1, <3>2 DEF Succeeds, UpdateStatus, PebbleReady, ConfigChanged, PeersUnready,
         PeersChanged, RelationChanged, DropRequest, AwaitBackend, AwaitPeers,
         RelationDeparted, IgnoreBroken, KeepRelation
  <2>3. /\ Grant(leader) \/ RequestFails(leader) => Rel(leader) \in bound[leader]
        /\ Grant(leader) => pg'.users = pg.users \union {Rel(leader)}
    BY <1>0 DEF Grant, RequestFails, Acceptable
  <2>4. Revoke(leader) => pg'.users = pg.users \ {Rel(leader)}
    BY <1>0 DEF Revoke
  <2>5. ASSUME NEW r \in Relations, client[r] = "none" \/ r \notin bound[leader]
        PROVE  r \notin pg'.users
    BY <1>0, <2>2, <2>3, <2>4, <2>5 DEF Users
  <2>6. ASSUME NEW r \in Relations, hook[leader].ev = Broken(r)
        PROVE  \/ Queued(hook'[leader].todo, Broken(r))
               \/ hook'[leader].todo = <<>> /\ r \notin pg'.users
    <3>1. Queued(hook[leader].todo, Broken(r))
      BY <2>1, <2>6 DEF Users
    <3>2. CASE e # Broken(r)
      BY <2>1, <3>1, <3>2
    <3>3. CASE e = Broken(r)
      <4>1. e.kind = "relation_broken" /\ Rel(leader) = r
        BY <3>3, Notices DEF Rel
      <4>2. Tail(hook[leader].todo) = <<>>
        BY <1>0, <2>1, <4>1, LeaveIsLast DEF LeaveKinds
      <4>3. Revoke(leader)
        BY <1>5, <4>1 DEF Succeeds, UpdateStatus, PebbleReady, ConfigChanged, PeersUnready,
                          PeersChanged, PeersServed, RelationChanged, DropRequest, AwaitBackend,
                          AwaitPeers, Grant, Refuse, RequestFails, Blocks, Provisionable,
                          Acceptable, Servable, RelationDeparted, IgnoreBroken, KeepRelation,
                          Handling, Stays
      <4>4. hook'[leader].todo = Tail(hook[leader].todo)
        BY <1>0, <4>3 DEF Revoke, Finish, Handled, TypeOK, Hook
      <4> QED BY <2>4, <4>1, <4>2, <4>3, <4>4
    <3> QED BY <3>2, <3>3
  <2> QED BY <2>1, <2>5, <2>6 DEF Users
<1> QED BY <1>0, <1>1, <1>2, <1>3, <1>4, <1>5, LeaderSteps

\* Once every unit has finished relation-broken the user of the relation is gone, whatever
\* failed and was retried before (_on_relation_broken).
THEOREM RemovedUsersGo ==
  ASSUME ~LeaderMayLeave, NoElections, NoOutages, NoLateUsers
  PROVE  Spec => []UserRemoved
<1>1. Init => Stays /\ Alone /\ Users
  <2> SUFFICES ASSUME Init PROVE Stays /\ Alone /\ Users
    OBVIOUS
  <2>1. /\ leader \in Units /\ backend = "ready" /\ pg.users = {}
        /\ bag[leader].departing = {} /\ hook[leader].bag = bag[leader]
        /\ hook[leader].ev = Idle /\ hook[leader].kept = <<>> /\ deferred[leader] = <<>>
        /\ pending[leader] = {Ev("pebble_ready", NoRel)}
    BY DEF Init
  <2>2. \A r \in Relations :
          /\ Idle \notin {Changed(r), Departing(r), Broken(r)}
          /\ Ev("pebble_ready", NoRel) \notin {Changed(r), Departing(r), Broken(r)}
    BY DEF Idle, Ev, Changed, Departing, Broken
  <2> QED BY <2>1, <2>2, NothingQueued DEF Stays, Alone, Users
<1>2. /\ IInv /\ Leading /\ Stays /\ Alone /\ Users /\ [Next]_vars => Stays' /\ Alone' /\ Users'
  <2> SUFFICES ASSUME IInv, Leading, Stays, Alone, Users, [Next]_vars
               PROVE  Stays' /\ Alone' /\ Users'
    OBVIOUS
  <2>1. TypeOK /\ LeaderStays /\ Bound /\ Requests
    BY DEF IInv, Leading, ConfigInv
  <2> QED BY <2>1, StaysStep, AloneStep, UsersStep
<1>3. Leading /\ Users => UserRemoved
  BY DEF Leading, ConfigInv, LeaderStays, Users, UserRemoved
<1> QED BY <1>1, <1>2, <1>3, LeadingInvariant, PTL DEF Spec

----------------------------------------------------------------------------
(* The way of a request *)

\* Notices that are not about a relation that is still to come.
Timely == {e \in Event : e.kind \in RelationKinds => client[e.rel] # "none"}

\* u has the notice, to handle it or because it was handled or put off.
Has(u, e) ==
  \/ e \in pending[u] \/ hook[u].ev = e \/ Queued(deferred[u], e)
  \/ Queued(hook[u].todo, e) \/ Queued(hook[u].kept, e)

\* No unit has heard of a relation before it began, and who is given credentials has a user.
Heard == \A u \in Units, e \in Event : Has(u, e) => e \in Timely
CredsHaveUsers == \A r \in buf.cred : Alive(r) => r \in pg.users

\* What a handler that does not fail does to the queues of its hook.
LEMMA HandlerQueues ==
  ASSUME TypeOK, NEW u \in Units, Handle(u), ~Discard(u)
  PROVE  LET h == hook[u]
             e == Head(hook[u].todo)
         IN /\ h.todo \in Seq(Event) /\ h.kept \in Seq(Event) /\ h.todo # <<>>
            /\ \/ hook'[u].todo = Tail(h.todo)
               \/ /\ e.kind = "relation_changed"
                  /\ hook'[u].todo = <<Request(e.rel)>> \o Tail(h.todo)
            /\ hook'[u].kept \in {h.kept, Append(h.kept, e)}
<1> DEFINE h == hook[u]
           e == Head(hook[u].todo)
<1>0. hook \in [Units -> Hook] /\ h \in Hook /\ h.todo \in Seq(Event) /\ h.kept \in Seq(Event)
  BY DEF TypeOK, Hook
<1>1. Finish(u) => hook'[u].todo = Tail(h.todo) /\ hook'[u].kept = h.kept
  BY <1>0 DEF Finish, Handled, Hook
<1>2. Defer(u) => hook'[u].todo = Tail(h.todo) /\ hook'[u].kept \in {h.kept, Append(h.kept, e)}
  BY <1>0 DEF Defer, Kept, Hook
<1>3. ASSUME NEW k, Handling(u, k) PROVE h.todo # <<>> /\ e.kind = k
  BY <1>3 DEF Handling
<1>4. CASE \/ UpdateStatus(u) \/ ConfigChanged(u) \/ PeersUnready(u) \/ DropRequest(u)
           \/ AwaitBackend(u) \/ AwaitPeers(u) \/ Grant(u) \/ Refuse(u) \/ RequestFails(u)
           \/ IgnoreBroken(u) \/ Revoke(u)
  <2>1. Finish(u) \/ Defer(u)
    BY <1>4 DEF UpdateStatus, ConfigChanged, PeersUnready, DropRequest, AwaitBackend, AwaitPeers,
                Grant, Refuse, RequestFails, Blocks, IgnoreBroken, Revoke
  <2>2. h.todo # <<>>
    BY <1>4 DEF UpdateStatus, ConfigChanged, PeersUnready, DropRequest, AwaitBackend, AwaitPeers,
                Grant, Refuse, RequestFails, Blocks, IgnoreBroken, Revoke, Provisionable,
                Acceptable, Servable, Revocable, Handling
  <2> QED BY <1>0, <1>1, <1>2, <2>1, <2>2
<1>5. CASE PebbleReady(u)
  <2>1. hook'[u] = [Handled(h) EXCEPT !.bag.init = TRUE] /\ h.todo # <<>>
    BY <1>0, <1>5 DEF PebbleReady, Handling
  <2> QED BY <1>0, <2>1 DEF Handled, Hook, UnitData
<1>6. CASE PeersChanged(u)
  <2>1. hook'[u] = [Handled(h) EXCEPT !.bag.ack = ViewCfg(u)] /\ h.todo # <<>>
    BY <1>0, <1>6 DEF PeersChanged, PeersServed, Handling
  <2> QED BY <1>0, <2>1 DEF Handled, Hook, UnitData
<1>7. CASE RelationDeparted(u) \/ KeepRelation(u)
  <2>1. PICK S : hook'[u] = Flagged(h, S)
    BY <1>0, <1>7 DEF RelationDeparted, KeepRelation
  <2>2. h.todo # <<>>
    BY <1>7 DEF RelationDeparted, KeepRelation, Revocable, Handling
  <2> QED BY <1>0, <2>1, <2>2 DEF Flagged, Hook, UnitData
<1>8. CASE RelationChanged(u)
  <2>1. e.kind = "relation_changed" /\ h.todo # <<>>
    BY <1>3, <1>8 DEF RelationChanged
  <2>2. CASE Finish(u)
    BY <1>0, <1>1, <2>1, <2>2
  <2>3. CASE hook' = [hook EXCEPT ![u].todo = <<Ev("database_requested", Rel(u))>> \o Tail(@)]
    BY <1>0, <2>1, <2>3 DEF Hook, Rel, Request
  <2> QED BY <1>8, <2>2, <2>3 DEF RelationChanged
<1> QED BY <1>4, <1>5, <1>6, <1>7, <1>8
        DEF Handle, UpdateStatusMisconfigured, PebbleReadyMisconfigured, PeersTooEarly,
            PeersMisconfigured, RequestMisconfigured, RequestOfDeadRelation, GrantTooEarly,
            RevokeFails, Misread

\* A step that gives u no notice but of relations that have begun.
LEMMA HeardKept ==
  ASSUME Heard,
         \A r \in Relations : client'[r] = "none" => client[r] = "none",
         \A u \in Units, e \in Event : Has(u, e)' => Has(u, e) \/ e \in Timely'
  PROVE  Heard'
<1>1. \A e \in Event : e.kind \in RelationKinds => e.rel \in Relations
  BY EventType
<1>2. Timely \subseteq Timely'
  BY <1>1 DEF Timely
<1> QED BY <1>2 DEF Heard

LEMMA HeardStep ==
  ASSUME TypeOK, LeaderStays, Bound, Heard, [Next]_vars
  PROVE  Heard'
<1>0. /\ hook \in [Units -> Hook] /\ pending \in [Units -> SUBSET Event]
      /\ deferred \in [Units -> Seq(Event)] /\ bag \in [Units -> UnitData]
      /\ client \in [Relations -> {"none", "alive", "dying"}]
      /\ bound \in [Units -> SUBSET Relations]
      /\ \A h \in UnitData :
           NoHook(h).ev = Idle /\ NoHook(h).todo = <<>> /\ NoHook(h).kept = <<>>
  BY DEF TypeOK, NoHook
<1>1. \A e \in Event : e.kind \in UnitKinds => e \in Timely'
  BY DEF Timely, UnitKinds, RelationKinds
<1>2. Idle \in Event /\ Idle.kind \in UnitKinds
  BY DEF Idle, Ev, Event, UnitKinds
\* Only the queues of u change, and pending for others at most by notices of their own unit.
<1>3. ASSUME NEW u \in Units, UNCHANGED client,
             \A v \in Units \ {u} : hook'[v] = hook[v] /\ deferred'[v] = deferred[v],
             \A v \in Units : \A e \in pending'[v] : Has(v, e) \/ e.kind \in UnitKinds,
             \A e \in Event :
               \/ hook'[u].ev = e \/ Queued(deferred'[u], e) \/ Queued(hook'[u].todo, e)
               \/ Queued(hook'[u].kept, e)
               => Has(u, e) \/ e \in Timely'
      PROVE  Heard'
  BY <1>0, <1>1, <1>3, HeardKept DEF Has
<1>4. ASSUME NEW u \in Units, Discard(u) PROVE Heard'
  <2>1. /\ UNCHANGED <<client, deferred>> /\ hook'[u] = NoHook(bag[u])
        /\ \A v \in Units \ {u} : hook'[v] = hook[v]
        /\ \A v \in Units : pending'[v] \subseteq pending[v] \union {hook[v].ev}
    BY <1>0, <1>4 DEF Discard, juju
  <2>2. hook'[u].ev = Idle /\ hook'[u].todo = <<>> /\ hook'[u].kept = <<>>
    BY <1>0, <2>1
  <2>3. \A v \in Units : \A e \in pending'[v] : Has(v, e)
    BY <2>1 DEF Has
  <2> QED BY <1>1, <1>2, <1>3, <2>1, <2>2, <2>3, NothingQueued DEF Has
<1>5. ASSUME NEW u \in Units, Handle(u), ~Discard(u) PROVE Heard'
  <2> DEFINE h == hook[u]
             e == Head(hook[u].todo)
  <2>1. /\ h.todo \in Seq(Event) /\ h.kept \in Seq(Event) /\ h.todo # <<>>
        /\ \/ hook'[u].todo = Tail(h.todo)
           \/ e.kind = "relation_changed" /\ hook'[u].todo = <<Request(e.rel)>> \o Tail(h.todo)
        /\ hook'[u].kept \in {h.kept, Append(h.kept, e)}
    BY <1>5, HandlerQueues
  <2>2. /\ UNCHANGED <<client, deferred, pending>> /\ hook'[u].ev = h.ev
        /\ \A v \in Units \ {u} : hook'[v] = hook[v]
    BY <1>5, HandlerFrame
  <2>3. e \in Event /\ Tail(h.todo) \in Seq(Event)
    BY <2>1, HeadTailProperties
  <2> HIDE DEF e
  <2>4. \A x : Queued(h.todo, x) <=> x = e \/ Queued(Tail(h.todo), x)
    BY <2>1, QueuedIn DEF e
  <2>5. \A x : Queued(hook'[u].kept, x) => Queued(h.kept, x) \/ x = e
    <3>1. \A x : Queued(Append(h.kept, e), x) <=> Queued(h.kept, x) \/ x = e
      BY <2>1, <2>3, QueuedIn
    <3>2. hook'[u].kept \in {h.kept, Append(h.kept, e)}
      BY <2>1 DEF e
    <3> QED BY <3>1, <3>2
  <2>6. e \in Timely
    BY <2>3, <2>4 DEF Heard, Has
  <2>7. \A x \in Event : Queued(hook'[u].todo, x) => Queued(h.todo, x) \/ x \in Timely'
    <3>1. CASE hook'[u].todo = Tail(h.todo)
      BY <2>4, <3>1
    <3>2. CASE e.kind = "relation_changed" /\ hook'[u].todo = <<Request(e.rel)>> \o Tail(h.todo)
      <4>1. e.rel \in Relations /\ client[e.rel] # "none"
        BY <2>3, <2>6, <3>2, EventType DEF Timely, RelationKinds
      <4>2. Request(e.rel) \in Event /\ Request(e.rel).rel = e.rel
        BY <4>1, Notices
      <4>3. Request(e.rel) \in Timely'
        BY <2>2, <4>1, <4>2 DEF Timely
      <4> DEFINE q == Request(e.rel)
                 t == Tail(h.todo)
      <4>4. q \in Event /\ t \in Seq(Event) /\ q \in Timely' /\ hook'[u].todo = <<q>> \o t
        BY <2>3, <3>2, <4>2, <4>3
      <4>5. \A x : Queued(t, x) => Queued(h.todo, x)
        BY <2>4
      <4> HIDE DEF q, t
      <4>6. \A x : Queued(<<q>> \o t, x) <=> x = q \/ Queued(t, x)
        BY <4>4, QueuedIn
      <4> QED BY <4>4, <4>5, <4>6
    <3> QED BY <2>1, <3>1, <3>2 DEF e
  <2> QED BY <1>3, <2>2, <2>4, <2>5, <2>7 DEF Has
<1>6. ASSUME NEW u \in Units, StartHook(u) \/ StartUpdateStatus(u) PROVE Heard'
  <2>1. PICK e \in Event :
          /\ e \in pending[u] \/ e.kind = "update_status"
          /\ RunHook(u, e) /\ \A v \in Units : pending'[v] \subseteq pending[v]
    <3>1. CASE StartHook(u)
      BY <1>0, <3>1 DEF StartHook, Start
    <3>2. CASE StartUpdateStatus(u)
      <4>1. /\ Ev("update_status", NoRel) \in Event
            /\ Ev("update_status", NoRel).kind = "update_status"
        BY DEF Ev, Event, UnitKinds
      <4> QED BY <3>2, <4>1 DEF StartUpdateStatus
    <3> QED BY <1>6, <3>1, <3>2
  <2>2. /\ UNCHANGED <<client, deferred>> /\ hook'[u].ev = e /\ hook'[u].kept = <<>>
        /\ hook'[u].todo = Append(deferred[u], e)
        /\ \A v \in Units \ {u} : hook'[v] = hook[v]
    BY <1>0, <2>1 DEF RunHook, juju
  <2>3. \A x : Queued(hook'[u].todo, x) <=> Queued(deferred[u], x) \/ x = e
    BY <1>0, <2>2, QueuedIn
  <2>4. e \in pending[u] \/ e \in Timely'
    BY <1>1, <2>1 DEF UnitKinds
  <2>5. \A x \in Event :
          \/ hook'[u].ev = x \/ Queued(deferred'[u], x) \/ Queued(hook'[u].todo, x)
          \/ Queued(hook'[u].kept, x)
          => Has(u, x) \/ x \in Timely'
    BY <2>2, <2>3, <2>4, NothingQueued DEF Has
  <2>6. \A v \in Units : \A x \in pending'[v] : Has(v, x) \/ x.kind \in UnitKinds
    BY <2>1 DEF Has
  <2>7. \A v \in Units \ {u} : hook'[v] = hook[v] /\ deferred'[v] = deferred[v]
    BY <2>2
  <2> QED BY <1>3, <2>2, <2>5, <2>6, <2>7
<1>7. ASSUME NEW u \in Units, Commit(u) PROVE Heard'
  <2>1. /\ UNCHANGED client /\ hook'[u] = NoHook(hook[u].bag) /\ deferred'[u] = hook[u].kept
        /\ \A v \in Units \ {u} : hook'[v] = hook[v] /\ deferred'[v] = deferred[v]
        /\ \A v \in Units : pending'[v] \subseteq pending[v] \union {Ev("peers_changed", NoRel)}
    BY <1>0, <1>7 DEF Commit
  <2>2. hook'[u].ev = Idle /\ hook'[u].todo = <<>> /\ hook'[u].kept = <<>>
    BY <1>0, <2>1 DEF Hook
  <2>3. \A v \in Units : \A e \in pending'[v] : Has(v, e) \/ e.kind \in UnitKinds
    BY <2>1 DEF Has, Ev, UnitKinds
  <2> QED BY <1>1, <1>2, <1>3, <2>1, <2>2, <2>3, NothingQueued DEF Has
<1>8. ASSUME NEW u \in Units, Leave(u) PROVE Heard'
  <2>1. UNCHANGED <<client, hook, deferred>>
    BY <1>8 DEF Leave
  <2>2. ASSUME NEW v \in Units, NEW e \in Event, e \in pending'[v]
        PROVE  e \in pending[v] \/ e \in Timely'
    <3>1. e \in pending[v] \/ \E r \in bound[v] : e.rel = r
      BY <1>0, <1>8, <2>2 DEF Leave, Ev
    <3>2. ASSUME NEW r \in bound[v] PROVE client[r] # "none"
      BY <1>0, <3>2 DEF Bound
    <3> QED BY <2>1, <3>1, <3>2 DEF Timely
  <2> QED BY <2>1, <2>2, HeardKept DEF Has
<1>9. ASSUME NEW u \in Units, UnitGone(u) PROVE Heard'
  <2>1. /\ UNCHANGED <<client, hook>>
        /\ \A v \in Units : pending'[v] \subseteq pending[v]
        /\ \A v \in Units : deferred'[v] = deferred[v] \/ deferred'[v] = <<>>
    BY <1>0, <1>9 DEF UnitGone
  <2> QED BY <2>1, HeardKept, NothingQueued DEF Has
<1>10. ASSUME NEW r \in Relations, AddRelation(r) \/ RemoveRelation(r) PROVE Heard'
  <2>1. /\ UNCHANGED <<hook, deferred>> /\ client'[r] # "none"
        /\ \A q \in Relations : client'[q] = "none" => client[q] = "none"
    BY <1>0, <1>10 DEF AddRelation, RemoveRelation
  <2>2. \A v \in Units : \A e \in pending'[v] : e \in pending[v] \/ e.rel = r
    <3>1. CASE AddRelation(r)
      BY <1>0, <3>1 DEF AddRelation, Deliver, Ev
    <3>2. CASE RemoveRelation(r)
      BY <1>0, <3>2 DEF RemoveRelation, Ev
    <3> QED BY <1>10, <3>1, <3>2
  <2>3. \A e \in Event : e.rel = r => e \in Timely'
    BY <2>1 DEF Timely
  <2> QED BY <2>1, <2>2, <2>3, HeardKept DEF Has
<1>11. CASE \/ \E u \in Units : ContainerRestart(u) \/ ElectLeader(u)
            \/ Outage \/ Recover \/ Misconfigure \/ Reconfigure \/ UNCHANGED vars
  <2>1. UNCHANGED <<client, hook, deferred>>
    BY <1>11 DEF ContainerRestart, ElectLeader, Outage, Recover, Misconfigure, Reconfigure, juju,
                 vars
  <2>2. \A v \in Units : \A e \in pending'[v] : e \in pending[v] \/ e.kind \in UnitKinds
    <3>1. CASE \E us \in SUBSET Units, k \in UnitKinds : pending' = Deliver(us, {Ev(k, NoRel)})
      BY <1>0, <3>1 DEF Deliver, Ev
    <3>2. CASE UNCHANGED pending
      BY <3>2
    <3>3. {"pebble_ready", "config_changed"} \subseteq UnitKinds /\ members \in SUBSET Units
      BY DEF UnitKinds, TypeOK
    <3>4. CASE Misconfigure \/ Reconfigure
      BY <3>1, <3>3, <3>4 DEF Misconfigure, Reconfigure
    <3>5. ASSUME NEW u \in Units, ContainerRestart(u)
          PROVE  \E us \in SUBSET Units, k \in UnitKinds : pending' = Deliver(us, {Ev(k, NoRel)})
      BY <3>3, <3>5 DEF ContainerRestart
    <3> QED BY <1>11, <3>1, <3>2, <3>4, <3>5 DEF ElectLeader, Outage, Recover, vars
  <2> QED BY <1>1, <2>1, <2>2, HeardKept DEF Has
<1> QED BY <1>4, <1>5, <1>6, <1>7, <1>8, <1>9, <1>10, <1>11
        DEF Next, Work, Disturb, Crash, ProvisioningFails

\* Credentials are only ever written by Grant.
LEMMA OnlyGrantCredits ==
  ASSUME TypeOK, NEW u \in Units, Handle(u), ~Discard(u), ~Grant(u)
  PROVE  buf'.cred = buf.cred
<1>0. buf \in AppData
  BY DEF TypeOK
<1>1. CASE RelationChanged(u)
  BY <1>0, <1>1 DEF RelationChanged, AppData
<1>2. CASE AwaitPeers(u) \/ Refuse(u) \/ RequestFails(u)
  BY <1>0, <1>2 DEF AwaitPeers, Refuse, RequestFails, Blocks, AppData
<1>3. CASE Revoke(u)
  BY <1>0, <1>3 DEF Revoke, AppData
<1> QED BY <1>1, <1>2, <1>3
        DEF Handle, UpdateStatus, UpdateStatusMisconfigured, PebbleReady,
            PebbleReadyMisconfigured, ConfigChanged, PeersUnready, PeersTooEarly,
            PeersMisconfigured, PeersChanged, DropRequest, AwaitBackend, RequestMisconfigured,
            RequestOfDeadRelation, GrantTooEarly, RelationDeparted, IgnoreBroken, KeepRelation,
            RevokeFails, Misread

\* The user goes only with its relation (LiveUserIsKept), and comes before the credentials.
LEMMA CredsHaveUsersStep ==
  ASSUME TypeOK, Entries, CredsHaveUsers, [Next]_vars,
         \A r \in pg.users \ pg'.users : client[r] = "dying"
  PROVE  CredsHaveUsers'
<1>0. /\ app.cred \subseteq buf.cred /\ buf.cred \subseteq Relations
      /\ \A r \in Relations : client[r] = "none" => r \notin buf.cred
      /\ client \in [Relations -> {"none", "alive", "dying"}]
  BY DEF TypeOK, AppData, Entries, CredsRouted, Unforeseen
<1>1. ASSUME buf'.cred \subseteq buf.cred,
             \A r \in Relations : client'[r] = "alive" => client[r] \in {"none", "alive"}
      PROVE  CredsHaveUsers'
  BY <1>0, <1>1 DEF CredsHaveUsers, Alive
<1>2. ASSUME NEW u \in Units, Discard(u) PROVE CredsHaveUsers'
  BY <1>0, <1>1, <1>2 DEF Discard, juju
<1>3. ASSUME NEW u \in Units, Handle(u), ~Discard(u) PROVE CredsHaveUsers'
  <2>1. UNCHANGED client
    BY <1>3, HandlerFrame
  <2>2. CASE ~Grant(u)
    BY <1>0, <1>1, <1>3, <2>1, <2>2, OnlyGrantCredits
  <2>3. CASE Grant(u)
    <3>1. buf'.cred = buf.cred \union {Rel(u)} /\ pg'.users = pg.users \union {Rel(u)}
      BY <2>3 DEF Grant, TypeOK, AppData
    <3> QED BY <2>1, <3>1 DEF CredsHaveUsers, Alive
  <2> QED BY <2>2, <2>3
<1>4. ASSUME NEW u \in Units, StartHook(u) \/ StartUpdateStatus(u) PROVE CredsHaveUsers'
  BY <1>0, <1>1, <1>4, StartFrame
<1>5. ASSUME NEW r \in Relations, AddRelation(r) \/ RemoveRelation(r) PROVE CredsHaveUsers'
  BY <1>0, <1>1, <1>5 DEF AddRelation, RemoveRelation
<1>6. ASSUME UNCHANGED <<client, buf>> PROVE CredsHaveUsers'
  BY <1>0, <1>1, <1>6
<1>7. ASSUME NEW u \in Units,
             Commit(u) \/ UnitGone(u) \/ ElectLeader(u) \/ Leave(u) \/ ContainerRestart(u)
      PROVE  CredsHaveUsers'
  BY <1>6, <1>7 DEF Commit, UnitGone, ElectLeader, Leave, ContainerRestart, juju
<1>8. CASE Outage \/ Recover \/ Misconfigure \/ Reconfigure \/ UNCHANGED vars
  BY <1>6, <1>8 DEF Outage, Recover, Misconfigure, Reconfigure, juju, vars
<1> QED BY <1>2, <1>3, <1>4, <1>5, <1>7, <1>8 DEF Next, Work, Disturb, Crash, ProvisioningFails

\* The phases, in words of the model.
LEMMA PhaseOf ==
  ASSUME TypeOK, NEW r \in Relations
  PROVE  /\ Phase(r) \in {"unknown", "requested", "admitted", "served", "ended"}
         /\ Phase(r) = "unknown" <=> client[r] = "none"
         /\ Phase(r) = "ended" <=> client[r] = "dying"
         /\ Phase(r) = "served" <=> Alive(r) /\ r \in app.cred
         /\ Phase(r) = "admitted" <=> Alive(r) /\ r \notin app.cred /\ Routes(app.cfg, r)
         /\ Phase(r) = "requested" <=> Alive(r) /\ r \notin app.cred /\ ~Routes(app.cfg, r)
<1>1. client[r] \in {"none", "alive", "dying"}
  BY DEF TypeOK
<1>2. CASE client[r] = "none"
  BY <1>2 DEF Phase, Alive
<1>3. CASE client[r] = "dying"
  BY <1>3 DEF Phase, Alive
<1>4. CASE client[r] = "alive" /\ r \in app.cred
  BY <1>4 DEF Phase, Alive
<1>5. CASE client[r] = "alive" /\ r \notin app.cred /\ Routes(app.cfg, r)
  BY <1>5 DEF Phase, Alive
<1>6. CASE client[r] = "alive" /\ r \notin app.cred /\ ~Routes(app.cfg, r)
  BY <1>6 DEF Phase, Alive
<1> QED BY <1>1, <1>2, <1>3, <1>4, <1>5, <1>6

LEMMA ProvisionSets ==
  ASSUME TypeOK, Entries
  PROVE  /\ Provision!Known = {r \in Relations : client[r] # "none"}
         /\ Provision!Living = {r \in Relations : Alive(r)}
         /\ Provision!Admitted = {r \in Relations : Alive(r) /\ Routes(app.cfg, r)}
<1>1. \A r \in Relations : [q \in Relations |-> Phase(q)][r] = Phase(r)
  OBVIOUS
<1>2. Provision!Known = {r \in Relations : client[r] # "none"}
  BY <1>1, PhaseOf DEF Provision!Known
<1>3. Provision!Living = {r \in Relations : Alive(r)}
  BY <1>1, <1>2, PhaseOf DEF Provision!Living, Alive, TypeOK
<1>4. Provision!Admitted = {r \in Relations : Alive(r) /\ Routes(app.cfg, r)}
  BY <1>1, <1>3, PhaseOf DEF Provision!Admitted, Entries, CredsRouted
<1> QED BY <1>2, <1>3, <1>4

\* Nothing that a client or Provisioning sees.
LEMMA StandsStill ==
  ASSUME UNCHANGED <<client, app, members, leaving, ready, ini>>, pg'.users = pg.users
  PROVE  UNCHANGED Provision!vars
BY DEF Provision!vars, Phase, Alive, Running, RoutesOf

\* What a unit that stays may render has all that was admitted, and nothing from nowhere.
LEMMA RendersAdmitted ==
  ASSUME TypeOK, Entries, NEW cfg,
         \A r \in Relations : /\ Alive(r) /\ Routes(app.cfg, r) => Routes(cfg, r)
                              /\ client[r] = "none" => ~Routes(cfg, r),
         NEW u \in members \ leaving, ready'[u], ini'[u] = cfg,
         UNCHANGED <<client, members, leaving>>,
         \A v \in Units \ {u} : ready'[v] = ready[v] /\ ini'[v] = ini[v]
  PROVE  Running' = Running \union {u} /\ Provision!Routed(u)
<1> DEFINE rels == {r \in Relations : Routes(cfg, r)}
           routes == [v \in Units |-> RoutesOf(v)]
<1>1. u \in Units /\ members \subseteq Units
  BY DEF TypeOK
<1>2. Running' = Running \union {u}
  BY <1>1 DEF Running
<1>3. RoutesOf(u)' = rels
  BY <1>2 DEF RoutesOf
<1>4. \A v \in Units \ {u} : RoutesOf(v)' = RoutesOf(v)
  BY <1>2 DEF RoutesOf
<1>5. rels \subseteq Provision!Known /\ Provision!Admitted \subseteq rels
  BY ProvisionSets DEF rels
<1> HIDE DEF rels
<1>6. routes' = [routes EXCEPT ![u] = rels]
  BY <1>1, <1>3, <1>4
<1> QED BY <1>2, <1>5, <1>6 DEF Provision!Routed

\* A unit renders what it reads.
LEMMA ProvisionRoute ==
  ASSUME TypeOK, Entries, NEW u \in Units, ready'[u], ini'[u] = ViewCfg(u),
         UNCHANGED <<client, app, members, leaving, pg>>,
         \A v \in Units \ {u} : ready'[v] = ready[v] /\ ini'[v] = ini[v]
  PROVE  [Provision!Next]_(Provision!vars)
<1>0. members \subseteq Units
  BY DEF TypeOK
<1>1. CASE u \in members \ leaving
  <2>1. \A r \in Relations : /\ Alive(r) /\ Routes(app.cfg, r) => Routes(ViewCfg(u), r)
                             /\ client[r] = "none" => ~Routes(ViewCfg(u), r)
    BY DEF Entries, EntriesKept, Unforeseen, ViewCfg
  <2>2. Running' = Running \union {u} /\ Provision!Routed(u)
    BY <1>1, <2>1, RendersAdmitted
  <2>3. [r \in Relations |-> Phase(r)]' = [r \in Relations |-> Phase(r)]
    BY DEF Phase, Alive
  <2>4. Provision!Route(u)
    BY <2>2, <2>3 DEF Provision!Route
  <2> QED BY <2>4 DEF Provision!Next
<1>2. CASE u \notin members \ leaving
  <2>1. Running' = Running
    BY <1>0, <1>2 DEF Running
  <2>2. \A v \in Units : RoutesOf(v)' = RoutesOf(v)
    BY <1>2, <2>1 DEF RoutesOf, Running
  <2> QED BY <2>1, <2>2 DEF Provision!vars, Phase, Alive
<1> QED BY <1>1, <1>2

\* The leader creates a user when its peers have acknowledged, that is, rendered, the entry.
LEMMA ProvisionUser ==
  ASSUME IInv, Routing, Heard, NEW u \in Units, Provisionable(u),
         UNCHANGED <<client, app, members, leaving, ready>>,
         pg'.users = pg.users \union {Rel(u)},
         ini' = ini \/ (ready[u] /\ ini' = [ini EXCEPT ![u] = RequestedConfig(u)])
  PROVE  [Provision!Next]_(Provision!vars)
<1> DEFINE cfg == RequestedConfig(u)
<1>0. /\ TypeOK /\ Entries /\ LeaderStays /\ Bound /\ u = leader /\ u \in members \ leaving
      /\ members \subseteq Units /\ ini \in [Units -> Config \union {Absent}]
      /\ \A v \in members \ {u} : bag[v].ack = cfg
  BY DEF IInv, TypeOK, Routing, Standing, LeaderStays, Provisionable, Acceptable, Servable,
         Synced
<1>1. /\ Rel(u) \in Relations /\ hook[u].todo \in Seq(Event) /\ hook[u].todo # <<>>
      /\ Head(hook[u].todo).kind = "database_requested"
  BY <1>0, HandlingType DEF Provisionable, Acceptable, Servable, RelationKinds, Handling
<1>2. client[Rel(u)] # "none"
  <2>1. Head(hook[u].todo) \in Event /\ Queued(hook[u].todo, Head(hook[u].todo))
    BY <1>1, QueuedIn, HeadTailProperties
  <2> QED BY <1>1, <2>1 DEF Heard, Has, Timely, RelationKinds, Rel
<1>3. \A r \in Relations : /\ Alive(r) => Routes(cfg, r)
                           /\ client[r] = "none" => ~Routes(cfg, r)
  BY <1>0, <1>1, LeaderRoutesAll
<1> HIDE DEF cfg
<1>4. Rel(u) \in Provision!Known
  BY <1>0, <1>1, <1>2, ProvisionSets
<1>5. Rel(u) \in Provision!Living => Rel(u) \in Provision!RoutedBy(Running \ {u})
  <2> SUFFICES ASSUME Alive(Rel(u)), NEW v \in Running \ {u}
               PROVE  Rel(u) \in [w \in Units |-> RoutesOf(w)][v]
    BY <1>0, <1>1, ProvisionSets DEF Provision!RoutedBy
  <2>1. v \in Units /\ v \in members \ leaving /\ ready[v] /\ Routes(bag[v].ack, Rel(u))
    BY <1>0, <1>1, <1>3 DEF Running
  <2>2. Routes(ini[v], Rel(u))
    BY <1>0, <1>1, <2>1 DEF Entries, AcksRendered
  <2> QED BY <1>1, <2>1, <2>2 DEF RoutesOf
<1>6. [r \in Relations |-> Phase(r)]' = [r \in Relations |-> Phase(r)] /\ Running' = Running
  BY DEF Phase, Alive, Running
<1>7. CASE ini' = ini
  <2>1. [v \in Units |-> RoutesOf(v)]' = [v \in Units |-> RoutesOf(v)]
    BY <1>6, <1>7 DEF RoutesOf
  <2>2. Provision!CreateUser(u, Rel(u))
    BY <1>4, <1>5, <1>6, <2>1 DEF Provision!CreateUser
  <2> QED BY <1>1, <2>2 DEF Provision!Next
<1>8. CASE ready[u] /\ ini' = [ini EXCEPT ![u] = cfg]
  <2>1. ini'[u] = cfg /\ \A v \in Units \ {u} : ini'[v] = ini[v]
    BY <1>0, <1>8
  <2>2. Provision!Routed(u) /\ u \in Running
    BY <1>0, <1>3, <1>8, <2>1, RendersAdmitted DEF Running
  <2>3. Provision!CreateUser(u, Rel(u))
    BY <1>4, <1>5, <1>6, <2>2 DEF Provision!CreateUser
  <2> QED BY <1>1, <2>3 DEF Provision!Next
<1> QED BY <1>7, <1>8 DEF cfg

\* Handlers and failed hooks: a rendering is a Route, a grant creates a user whether or not its
\* hook succeeds, and relation-broken of a removed relation drops it.
LEMMA ProvisionHandler ==
  ASSUME IInv, Routing, Heard, NEW u \in Units, Handle(u) \/ Crash(u) \/ ProvisioningFails(u)
  PROVE  [Provision!Next]_(Provision!vars)
<1>0. /\ TypeOK /\ Entries /\ ini \in [Units -> Config \union {Absent}]
      /\ ready \in [Units -> BOOLEAN]
      /\ pg \in [users : SUBSET Relations, dbs : SUBSET Databases, auth : SUBSET Databases]
  BY DEF IInv, TypeOK, Routing
<1>1. UNCHANGED <<client, app, members, leaving>>
  <2>1. CASE Handle(u)
    BY <1>0, <2>1, HandlerFrame
  <2>2. CASE Crash(u) \/ ProvisioningFails(u)
    BY <2>2 DEF Crash, ProvisioningFails, Discard, juju
  <2> QED BY <2>1, <2>2
<1>2. ASSUME UNCHANGED <<ready, ini>>, pg'.users = pg.users
      PROVE  [Provision!Next]_(Provision!vars)
  BY <1>1, <1>2, StandsStill
<1>3. CASE \/ UpdateStatusMisconfigured(u) \/ PebbleReadyMisconfigured(u) \/ PeersTooEarly(u)
           \/ PeersMisconfigured(u) \/ RequestMisconfigured(u) \/ RevokeFails(u) \/ Crash(u)
  BY <1>2, <1>3
     DEF UpdateStatusMisconfigured, PebbleReadyMisconfigured, PeersTooEarly, PeersMisconfigured,
         RequestMisconfigured, RevokeFails, Crash, Misread, Discard
<1>4. CASE \/ UpdateStatus(u) \/ PeersUnready(u) \/ DropRequest(u) \/ AwaitBackend(u)
           \/ AwaitPeers(u) \/ RelationChanged(u) \/ RelationDeparted(u) \/ IgnoreBroken(u)
           \/ KeepRelation(u)
  BY <1>2, <1>4
     DEF UpdateStatus, PeersUnready, DropRequest, AwaitBackend, AwaitPeers, RelationChanged,
         RelationDeparted, IgnoreBroken, KeepRelation
<1>5. CASE Refuse(u)
  BY <1>0, <1>2, <1>5 DEF Refuse, Blocks
<1>6. CASE PebbleReady(u)
  BY <1>0, <1>1, <1>6, ProvisionRoute DEF PebbleReady
<1>7. CASE PeersChanged(u) \/ ConfigChanged(u)
  <2>1. UNCHANGED <<ready, pg>>
    BY <1>7 DEF PeersChanged, ConfigChanged
  <2>2. ini' = ini \/ (ready[u] /\ ini' = [ini EXCEPT ![u] = ViewCfg(u)])
    BY <1>7 DEF PeersChanged, ConfigChanged, Rendered
  <2>3. CASE ini' = ini
    BY <1>2, <2>1, <2>3
  <2>4. CASE ready[u] /\ ini' = [ini EXCEPT ![u] = ViewCfg(u)]
    BY <1>0, <1>1, <2>1, <2>4, ProvisionRoute
  <2> QED BY <2>2, <2>3, <2>4
<1>8. CASE RequestOfDeadRelation(u)
  <2>1. Provisionable(u) /\ UNCHANGED <<ready, ini>>
    BY <1>8 DEF RequestOfDeadRelation, Discard
  <2>2. pg'.users = pg.users \/ pg'.users = pg.users \union {Rel(u)}
    BY <1>0, <1>8 DEF RequestOfDeadRelation
  <2> QED BY <1>1, <1>2, <2>1, <2>2, ProvisionUser
<1>9. CASE GrantTooEarly(u) \/ ProvisioningFails(u)
  BY <1>1, <1>9, ProvisionUser DEF GrantTooEarly, ProvisioningFails, Acceptable, Discard
<1>10. CASE Grant(u)
  <2>1. /\ Provisionable(u) /\ UNCHANGED ready /\ pg'.users = pg.users \union {Rel(u)}
        /\ ini' = ini \/ (ready[u] /\ ini' = [ini EXCEPT ![u] = RequestedConfig(u)])
    BY <1>10 DEF Grant, Acceptable, Rendered
  <2> QED BY <1>1, <2>1, ProvisionUser
<1>11. CASE Revoke(u)
  <2>1. Rel(u) \in Relations /\ client[Rel(u)] = "dying"
    BY <1>0, <1>11, HandlingType, RevokedIsDying DEF Revoke, Revocable, RelationKinds
  <2>2. pg'.users = pg.users \ {Rel(u)} /\ UNCHANGED <<ready, ini>>
    BY <1>0, <1>11 DEF Revoke
  <2>3. UNCHANGED <<[r \in Relations |-> Phase(r)], Running, [v \in Units |-> RoutesOf(v)]>>
    BY <1>1, <2>2 DEF Phase, Alive, Running, RoutesOf
  <2>4. [r \in Relations |-> Phase(r)][Rel(u)] = "ended"
    BY <1>0, <2>1, PhaseOf
  <2>5. Provision!DropUser(Rel(u))
    BY <2>2, <2>3, <2>4 DEF Provision!DropUser
  <2> QED BY <2>1, <2>5 DEF Provision!Next
<1>12. CASE RequestFails(u)
  <2>1. Provisionable(u) /\ UNCHANGED <<ready, ini>>
    BY <1>12 DEF RequestFails, Acceptable, Blocks
  <2>2. pg'.users = pg.users \/ pg'.users = pg.users \union {Rel(u)}
    BY <1>0, <1>12 DEF RequestFails
  <2> QED BY <1>1, <1>2, <2>1, <2>2, ProvisionUser
<1> QED BY <1>3, <1>4, <1>5, <1>6, <1>7, <1>8, <1>9, <1>10, <1>11, <1>12 DEF Handle

\* A hook that succeeds: what the leader wrote becomes known, all at once.
LEMMA ProvisionCommit ==
  ASSUME TypeOK, Routing, CredsHaveUsers, NEW u \in Units, Commit(u)
  PROVE  [Provision!Next]_(Provision!vars)
<1>0. /\ Entries /\ UNCHANGED <<client, members, leaving, ready, ini, pg>>
      /\ app' = (IF u = leader THEN buf ELSE app) /\ leader \in members \ leaving
      /\ pg.users \subseteq Relations /\ members \subseteq Units
  BY DEF TypeOK, Routing, Standing, LeaderStays, Commit, env
<1>1. CASE app' = app
  BY <1>0, <1>1, StandsStill
<1>2. CASE app' = buf
  <2> DEFINE phase == [r \in Relations |-> Phase(r)]
  <2>1. UNCHANGED <<Running, [v \in Units |-> RoutesOf(v)]>>
    BY <1>0 DEF Running, RoutesOf
  <2>2. app' \in AppData
    BY <1>2 DEF TypeOK
  <2>3. ASSUME NEW r \in Relations
        PROVE  /\ Phase(r)' \in {"unknown", "requested", "admitted", "served", "ended"}
               /\ Phase(r)' = "unknown" <=> client[r] = "none"
               /\ Phase(r)' = "ended" <=> client[r] = "dying"
               /\ Phase(r)' = "served" <=> Alive(r) /\ r \in buf.cred
               /\ Phase(r)' = "admitted" <=> Alive(r) /\ r \notin buf.cred /\ Routes(buf.cfg, r)
               /\ Phase(r)' = "requested" <=>
                    Alive(r) /\ r \notin buf.cred /\ ~Routes(buf.cfg, r)
    <3>1. client[r] \in {"none", "alive", "dying"}
      BY DEF TypeOK
    <3>2. CASE client[r] = "none" \/ client[r] = "dying"
      BY <1>0, <3>2 DEF Phase, Alive
    <3>3. CASE Alive(r) /\ r \in buf.cred
      BY <1>0, <1>2, <3>3 DEF Phase, Alive
    <3>4. CASE Alive(r) /\ r \notin buf.cred /\ Routes(buf.cfg, r)
      BY <1>0, <1>2, <3>4 DEF Phase, Alive
    <3>5. CASE Alive(r) /\ r \notin buf.cred /\ ~Routes(buf.cfg, r)
      BY <1>0, <1>2, <3>5 DEF Phase, Alive
    <3> QED BY <3>1, <3>2, <3>3, <3>4, <3>5 DEF Alive
  <2>4. ASSUME NEW r \in Relations, Phase(r)' # Phase(r)
        PROVE  \/ Phase(r) = "requested" /\ Phase(r)' = "admitted"
               \/ /\ Phase(r) \in {"requested", "admitted"} /\ Phase(r)' = "served"
                  /\ r \in pg.users \cap Provision!RoutedBy(Running)
    <3>1. Alive(r)
      BY <2>3, <2>4, PhaseOf DEF TypeOK, Alive
    <3>2. /\ r \in app.cred => r \in buf.cred
          /\ Routes(app.cfg, r) => Routes(buf.cfg, r)
      BY <1>0, <3>1 DEF Entries, CredsRouted, EntriesKept
    <3>3. ASSUME r \in buf.cred PROVE r \in pg.users \cap Provision!RoutedBy(Running)
      <4>1. r \in pg.users
        BY <3>1, <3>3 DEF CredsHaveUsers
      <4>2. \A v \in Running : v \in Units /\ Routes(ini[v], r)
        BY <1>0, <3>1, <3>3 DEF Running, Entries, CredsRouted
      <4>3. \A v \in Running : r \in [w \in Units |-> RoutesOf(w)][v]
        BY <4>2 DEF RoutesOf
      <4>4. r \in Provision!RoutedBy(Running)
        BY <4>3, Zenon DEF Provision!RoutedBy
      <4> QED BY <4>1, <4>4
    <3> QED BY <2>3, <2>4, <3>1, <3>2, <3>3, PhaseOf
  <2>5. \A r \in Relations : phase'[r] = Phase(r)' /\ phase[r] = Phase(r)
    OBVIOUS
  <2>6. phase' \in [Relations -> Provision!Phases]
    BY <2>3 DEF Provision!Phases
  <2> HIDE DEF phase
  <2>7. Provision!Announce
    BY <1>0, <2>1, <2>4, <2>5, <2>6 DEF Provision!Announce, phase
  <2> QED BY <2>7 DEF Provision!Next
<1> QED BY <1>0, <1>1, <1>2

\* Clients and the environment.
LEMMA ProvisionEnvironment ==
  ASSUME TypeOK, Routing,
         \/ \E u \in Units : \/ StartHook(u) \/ StartUpdateStatus(u) \/ UnitGone(u)
                             \/ ElectLeader(u) \/ Leave(u) \/ ContainerRestart(u)
         \/ \E r \in Relations : AddRelation(r) \/ RemoveRelation(r)
         \/ Outage \/ Recover \/ Misconfigure \/ Reconfigure \/ UNCHANGED vars
  PROVE  [Provision!Next]_(Provision!vars)
<1>0. /\ Entries /\ client \in [Relations -> {"none", "alive", "dying"}]
      /\ ready \in [Units -> BOOLEAN] /\ ini \in [Units -> Config \union {Absent}]
      /\ members \subseteq Units
  BY DEF TypeOK, Routing
<1>1. ASSUME NEW u \in Units, UnitGone(u) \/ Leave(u) \/ ContainerRestart(u)
      PROVE  [Provision!Next]_(Provision!vars)
  <2>1. /\ UNCHANGED <<client, app, pg>>
        /\ \A v \in Units \ {u} : ready'[v] = ready[v] /\ ini'[v] = ini[v]
    BY <1>0, <1>1 DEF UnitGone, Leave, ContainerRestart, juju
  <2>2. Running' = Running \ {u}
    <3>1. CASE UnitGone(u)
      BY <1>0, <3>1 DEF UnitGone, Running
    <3>2. CASE Leave(u)
      BY <1>0, <3>2 DEF Leave, Running
    <3>3. CASE ContainerRestart(u)
      BY <1>0, <3>3 DEF ContainerRestart, Running, juju
    <3> QED BY <1>1, <3>1, <3>2, <3>3
  <2>3. RoutesOf(u)' = {} /\ \A v \in Units \ {u} : RoutesOf(v)' = RoutesOf(v)
    BY <2>1, <2>2 DEF RoutesOf
  <2>4. [v \in Units |-> RoutesOf(v)]' = [[v \in Units |-> RoutesOf(v)] EXCEPT ![u] = {}]
    BY <2>3
  <2>5. [r \in Relations |-> Phase(r)]' = [r \in Relations |-> Phase(r)]
    BY <2>1 DEF Phase, Alive
  <2>6. Provision!Stop(u)
    BY <2>1, <2>2, <2>4, <2>5 DEF Provision!Stop
  <2> QED BY <2>6 DEF Provision!Next
<1>2. ASSUME NEW r \in Relations, AddRelation(r) \/ RemoveRelation(r)
      PROVE  [Provision!Next]_(Provision!vars)
  <2> DEFINE phase == [q \in Relations |-> Phase(q)]
  <2>1. /\ UNCHANGED <<app, members, leaving, ready, ini, pg>>
        /\ \A q \in Relations \ {r} : client'[q] = client[q]
    BY <1>0, <1>2 DEF AddRelation, RemoveRelation
  <2>2. UNCHANGED <<Running, [v \in Units |-> RoutesOf(v)], pg.users>>
    BY <2>1 DEF Running, RoutesOf
  <2>3. \A q \in Relations \ {r} : Phase(q)' = Phase(q)
    BY <2>1 DEF Phase, Alive
  <2>4. phase[r] = Phase(r)
    OBVIOUS
  <2>5. CASE AddRelation(r)
    <3>1. client[r] = "none" /\ client'[r] = "alive"
      BY <1>0, <2>5 DEF AddRelation
    <3>2. r \notin app.cred /\ ~Routes(app.cfg, r)
      BY <1>0, <3>1 DEF Entries, Unforeseen
    <3>3. Phase(r) = "unknown" /\ Phase(r)' = "requested"
      BY <2>1, <3>1, <3>2 DEF Phase, Alive
    <3>4. phase' = [phase EXCEPT ![r] = "requested"]
      BY <2>3, <3>3
    <3>5. Provision!Request(r)
      BY <2>2, <2>4, <3>3, <3>4 DEF Provision!Request
    <3> QED BY <3>5 DEF Provision!Next
  <2>6. CASE RemoveRelation(r)
    <3>1. client[r] = "alive" /\ client'[r] = "dying"
      BY <1>0, <2>6 DEF RemoveRelation
    <3>2. Phase(r)' = "ended"
      BY <3>1 DEF Phase, Alive
    <3>3. phase' = [phase EXCEPT ![r] = "ended"]
      BY <2>3, <3>2
    <3>4. r \in Provision!Living
      BY <1>0, <3>1, ProvisionSets DEF Alive
    <3>5. Provision!End(r)
      BY <2>2, <3>3, <3>4 DEF Provision!End
    <3> QED BY <3>5 DEF Provision!Next
  <2> QED BY <1>2, <2>5, <2>6
<1>3. ASSUME NEW u \in Units, StartHook(u) \/ StartUpdateStatus(u) \/ ElectLeader(u)
      PROVE  [Provision!Next]_(Provision!vars)
  BY <1>3, StandsStill DEF StartHook, Start, StartUpdateStatus, RunHook, ElectLeader, juju
<1>4. CASE Outage \/ Recover \/ Misconfigure \/ Reconfigure \/ UNCHANGED vars
  BY <1>4, StandsStill DEF Outage, Recover, Misconfigure, Reconfigure, juju, vars
<1> QED BY <1>1, <1>2, <1>3, <1>4

\* The way of every request is one of Provisioning, through failed hooks, elections, restarts,
\* removals, outages and scale-down of followers: _on_database_requested, _on_relation_broken
\* and Peers._on_changed together do what the charm promises its clients.
THEOREM RequestsAreProvisioned ==
  ASSUME ~LeaderMayLeave, ApartBudgets
  PROVE  Spec => Provisioned
<1>1. Init => Heard /\ CredsHaveUsers /\ Provision!Init
  <2> SUFFICES ASSUME Init PROVE Heard /\ CredsHaveUsers /\ Provision!Init
    OBVIOUS
  <2>1. /\ \A u \in Units : /\ pending[u] = {Ev("pebble_ready", NoRel)} /\ deferred[u] = <<>>
                            /\ hook[u].ev = Idle /\ hook[u].todo = <<>> /\ hook[u].kept = <<>>
                            /\ ~ready[u]
        /\ \A r \in Relations : client[r] = "none"
        /\ buf.cred = {} /\ pg.users = {} /\ members = Units
    BY DEF Init
  <2>2. Idle.kind \notin RelationKinds /\ Ev("pebble_ready", NoRel).kind \notin RelationKinds
    BY DEF Idle, Ev, RelationKinds
  <2>3. Heard
    BY <2>1, <2>2, NothingQueued DEF Heard, Has, Timely
  <2>4. CredsHaveUsers
    BY <2>1 DEF CredsHaveUsers
  <2>5. Running = {} /\ \A r \in Relations : Phase(r) = "unknown"
    <3>1. Running = {}
      BY <2>1 DEF Running
    <3>2. \A r \in Relations : Phase(r) = "unknown"
      BY <2>1 DEF Phase, Alive
    <3> QED BY <3>1, <3>2
  <2>6. \A u \in Units : RoutesOf(u) = {}
    BY <2>5 DEF RoutesOf
  <2> QED BY <2>1, <2>3, <2>4, <2>5, <2>6 DEF Provision!Init
<1>2. /\ IInv /\ Routing /\ Heard /\ CredsHaveUsers /\ [Next]_vars
      /\ [\A r \in pg.users \ pg'.users : client[r] = "dying"]_vars
      => Heard' /\ CredsHaveUsers' /\ [Provision!Next]_(Provision!vars)
  <2> SUFFICES ASSUME IInv, Routing, Heard, CredsHaveUsers, [Next]_vars,
                      [\A r \in pg.users \ pg'.users : client[r] = "dying"]_vars
               PROVE  Heard' /\ CredsHaveUsers' /\ [Provision!Next]_(Provision!vars)
    OBVIOUS
  <2>1. TypeOK /\ LeaderStays /\ Bound /\ Entries
    BY DEF IInv, Routing, Standing
  <2>2. \A r \in pg.users \ pg'.users : client[r] = "dying"
    BY DEF vars
  <2>3. Heard' /\ CredsHaveUsers'
    BY <2>1, <2>2, HeardStep, CredsHaveUsersStep
  <2>4. ASSUME NEW u \in Units, Handle(u) \/ Crash(u) \/ ProvisioningFails(u) \/ Commit(u)
        PROVE  [Provision!Next]_(Provision!vars)
    BY <2>1, <2>4, ProvisionHandler, ProvisionCommit
  <2>5. [Provision!Next]_(Provision!vars)
    BY <2>1, <2>4, ProvisionEnvironment DEF Next, Work, Disturb
  <2> QED BY <2>3, <2>5
<1> QED BY <1>1, <1>2, TypeCorrect, BrokenIsExcused, RoutingInvariant, LiveUserIsKept, PTL
        DEF Spec, IInv, LiveUserKept, Provisioned, Provision!Spec

\* What Provisioning promises: a client that is served has a user, and every unit that runs
\* routes its database.
THEOREM ProvisionedIsServed == Provisioned => []Provision!ServedWork
<1> DEFINE phase == [r \in Relations |-> Phase(r)]
           routes == [u \in Units |-> RoutesOf(u)]
           Inv == Provision!TypeOK /\ Provision!ServedWork
<1>1. Provision!Init => Inv
  <2> SUFFICES ASSUME Provision!Init PROVE Inv
    OBVIOUS
  <2>1. /\ phase = [r \in Relations |-> "unknown"] /\ Running = {}
        /\ routes = [u \in Units |-> {}] /\ pg.users = {}
    BY DEF Provision!Init
  <2> HIDE DEF phase, routes
  <2> QED BY <2>1 DEF Provision!TypeOK, Provision!ServedWork, Provision!Phases, phase, routes
<1>2. Inv /\ [Provision!Next]_(Provision!vars) => Inv'
  <2> SUFFICES ASSUME Inv, [Provision!Next]_(Provision!vars) PROVE Inv'
    OBVIOUS
  <2>0. /\ phase \in [Relations -> Provision!Phases] /\ Running \subseteq Units
        /\ routes \in [Units -> SUBSET Relations] /\ pg.users \subseteq Relations
        /\ \A r \in Relations : phase[r] = "served" =>
             r \in pg.users /\ \A u \in Running : r \in routes[u]
    BY DEF Provision!TypeOK, Provision!ServedWork, Provision!RoutedBy
  <2> SUFFICES /\ phase' \in [Relations -> Provision!Phases] /\ Running' \subseteq Units
               /\ routes' \in [Units -> SUBSET Relations] /\ pg'.users \subseteq Relations
               /\ \A r \in Relations : phase'[r] = "served" =>
                    r \in pg'.users /\ \A u \in Running' : r \in routes'[u]
    BY DEF Provision!TypeOK, Provision!ServedWork, Provision!RoutedBy
  <2>1. \A r \in Relations : phase[r] = "served" => r \in Provision!Admitted
    BY DEF Provision!Admitted, Provision!Living, Provision!Known
  <2>2. \A q \in Provision!Known : q \in Relations
    BY DEF Provision!Known
  <2>3. ASSUME NEW u \in Units, Provision!Routed(u)
        PROVE  /\ routes' \in [Units -> SUBSET Relations]
               /\ \A v \in Units \ {u} : routes'[v] = routes[v]
               /\ \A r \in Relations : phase[r] = "served" => r \in routes'[u]
    <3>1. PICK rels \in SUBSET Provision!Known :
            Provision!Admitted \subseteq rels /\ routes' = [routes EXCEPT ![u] = rels]
      BY <2>3 DEF Provision!Routed
    <3> HIDE DEF phase, routes
    <3>2. rels \subseteq Relations
      BY <2>2, <3>1
    <3> QED BY <2>0, <2>1, <3>1, <3>2
  <2>4. {"requested", "ended", "served"} \subseteq Provision!Phases
    BY DEF Provision!Phases
  <2>5. CASE Provision!Announce
    <3>1. /\ phase' \in [Relations -> Provision!Phases]
          /\ \A r \in Relations : phase'[r] # phase[r] /\ phase'[r] = "served" =>
               r \in pg.users /\ \A u \in Running : r \in routes[u]
          /\ UNCHANGED <<Running, routes, pg.users>>
      BY <2>5 DEF Provision!Announce, Provision!RoutedBy
    <3> HIDE DEF phase, routes
    <3> QED BY <2>0, <3>1
  <2>6. ASSUME NEW r \in Relations,
               Provision!Request(r) \/ Provision!End(r) \/ Provision!DropUser(r)
        PROVE  /\ phase' \in [Relations -> Provision!Phases] /\ Running' \subseteq Units
               /\ routes' \in [Units -> SUBSET Relations] /\ pg'.users \subseteq Relations
               /\ \A q \in Relations : phase'[q] = "served" =>
                    q \in pg'.users /\ \A u \in Running' : q \in routes'[u]
    <3>1. /\ \/ phase' = [phase EXCEPT ![r] = "requested"] /\ pg'.users = pg.users
             \/ phase' = [phase EXCEPT ![r] = "ended"] /\ pg'.users = pg.users
             \/ phase' = phase /\ phase[r] = "ended" /\ pg'.users = pg.users \ {r}
          /\ UNCHANGED <<Running, routes>>
      BY <2>6 DEF Provision!Request, Provision!End, Provision!DropUser
    <3> HIDE DEF phase, routes
    <3> QED BY <2>0, <2>4, <3>1
  <2>7. ASSUME NEW u \in Units, Provision!Route(u) \/ Provision!Stop(u)
        PROVE  /\ phase' \in [Relations -> Provision!Phases] /\ Running' \subseteq Units
               /\ routes' \in [Units -> SUBSET Relations] /\ pg'.users \subseteq Relations
               /\ \A q \in Relations : phase'[q] = "served" =>
                    q \in pg'.users /\ \A v \in Running' : q \in routes'[v]
    <3>1. CASE Provision!Route(u)
      <4>1. Running' = Running \union {u} /\ UNCHANGED <<phase, pg.users>> /\ Provision!Routed(u)
        BY <3>1 DEF Provision!Route
      <4>2. /\ routes' \in [Units -> SUBSET Relations]
            /\ \A v \in Units \ {u} : routes'[v] = routes[v]
            /\ \A r \in Relations : phase[r] = "served" => r \in routes'[u]
        BY <2>3, <4>1
      <4> HIDE DEF phase, routes
      <4> QED BY <2>0, <4>1, <4>2
    <3>2. CASE Provision!Stop(u)
      <4>1. /\ Running' = Running \ {u} /\ routes' = [routes EXCEPT ![u] = {}]
            /\ UNCHANGED <<phase, pg.users>>
        BY <3>2 DEF Provision!Stop
      <4> HIDE DEF phase, routes
      <4> QED BY <2>0, <4>1
    <3> QED BY <2>7, <3>1, <3>2
  <2>8. ASSUME NEW u \in Units, NEW r \in Relations, Provision!CreateUser(u, r)
        PROVE  /\ phase' \in [Relations -> Provision!Phases] /\ Running' \subseteq Units
               /\ routes' \in [Units -> SUBSET Relations] /\ pg'.users \subseteq Relations
               /\ \A q \in Relations : phase'[q] = "served" =>
                    q \in pg'.users /\ \A v \in Running' : q \in routes'[v]
    <3>1. /\ pg'.users = pg.users \union {r} /\ UNCHANGED <<phase, Running>>
          /\ routes' = routes \/ Provision!Routed(u)
      BY <2>8 DEF Provision!CreateUser
    <3>2. CASE routes' = routes
      <4> HIDE DEF phase, routes
      <4> QED BY <2>0, <3>1, <3>2
    <3>3. CASE Provision!Routed(u)
      <4>1. /\ routes' \in [Units -> SUBSET Relations]
            /\ \A v \in Units \ {u} : routes'[v] = routes[v]
            /\ \A q \in Relations : phase[q] = "served" => q \in routes'[u]
        BY <2>3, <3>3
      <4> HIDE DEF phase, routes
      <4> QED BY <2>0, <3>1, <4>1
    <3> QED BY <3>1, <3>2, <3>3
  <2>9. CASE UNCHANGED Provision!vars
    <3>1. UNCHANGED <<phase, Running, routes, pg.users>>
      BY <2>9 DEF Provision!vars
    <3> HIDE DEF phase, routes
    <3> QED BY <2>0, <3>1
  <2> QED BY <2>5, <2>6, <2>7, <2>8, <2>9 DEF Provision!Next
<1>3. Inv => Provision!ServedWork
  OBVIOUS
<1> QED BY <1>1, <1>2, <1>3, PTL DEF Provisioned, Provision!Spec
=============================================================================
