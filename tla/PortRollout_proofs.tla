------------------------- MODULE PortRollout_proofs -------------------------
(***************************************************************************)
(* Theorems about PortRollout, for every number of units, clients and      *)
(* ports, and for all disturbances: once the recorded port is the one of   *)
(* today, the service has it.                                              *)
(***************************************************************************)
EXTENDS PortRollout, TLAPS

\* What of the types the proof needs.
Typed ==
  /\ config \in Service
  /\ service \in Service \union {None}
  /\ spent \in [Disturbances -> Nat]

\* As long as no hook fails, the service has the port that is recorded.
RecordedIsServed ==
  spent["crashes"] = 0 /\ current # None => service # None /\ service.port = current

\* Until the options change a second time, whatever fails: at first there is but one port, and
\* a port that is no longer the one of today was applied before today's was set.
RecordedTodayIsServed ==
  spent["changes"] <= 1 /\ current = config.port => service # None /\ service.port = config.port

OnePortAtFirst ==
  spent["changes"] = 0 =>
    /\ current \in {None, config.port}
    /\ service # None => service.port = config.port

\* NoStaleService alone is not inductive: an old port that was recorded may be set again.
Inv == Typed /\ RecordedIsServed /\ RecordedTodayIsServed /\ OnePortAtFirst

\* Together these exclude a stale service but for a change that is taken back.
LEMMA InvGives == ASSUME Inv PROVE NoStaleService
<1>1. spent["changes"] \in Nat /\ spent["crashes"] \in Nat
  BY DEF Inv, Typed, Disturbances
<1>2. config.port # None
  BY PortAssumption DEF Inv, Typed, Service
<1>3. ASSUME current = config.port, ~MayBeTakenBack
      PROVE  service # None /\ service.port = config.port
  <2>1. spent["changes"] <= 1 \/ spent["crashes"] = 0
    BY <1>1, <1>3 DEF MayBeTakenBack
  <2> QED BY <1>2, <1>3, <2>1 DEF Inv, RecordedIsServed, RecordedTodayIsServed
<1> QED BY <1>3 DEF NoStaleService

\* A disturbance adds one to its own count.
LEMMA SpendCounts ==
  ASSUME Typed, NEW d \in Disturbances, Spend(d)
  PROVE  /\ spent' \in [Disturbances -> Nat]
         /\ spent'[d] = spent[d] + 1
         /\ \A x \in Disturbances \ {d} : spent'[x] = spent[x]
BY DEF Typed, Spend

\* The invariant is about these variables alone.
relevant == <<config, service, current, spent>>

LEMMA StutterKeeps == ASSUME Inv, UNCHANGED relevant PROVE Inv'
BY DEF Inv, Typed, RecordedIsServed, RecordedTodayIsServed, OnePortAtFirst, relevant

\* Disturbances of the other kinds count neither changes nor failed hooks.
Counts ==
  /\ spent' \in [Disturbances -> Nat]
  /\ spent'["changes"] = spent["changes"] /\ spent'["crashes"] = spent["crashes"]

LEMMA OtherCounts ==
  ASSUME Inv, \/ UNCHANGED spent
              \/ \E d \in Disturbances \ {"changes", "crashes"} : Spend(d)
  PROVE  Counts
<1>1. CASE UNCHANGED spent
  BY <1>1 DEF Inv, Typed, Counts
<1>2. ASSUME NEW d \in Disturbances \ {"changes", "crashes"}, Spend(d) PROVE Counts
  BY <1>2, SpendCounts DEF Inv, Counts, Disturbances
<1> QED BY <1>1, <1>2

LEMMA DisturbanceKeeps ==
  ASSUME Inv, Counts, UNCHANGED <<config, service, current>>
  PROVE  Inv'
BY DEF Counts, Inv, Typed, RecordedIsServed, RecordedTodayIsServed, OnePortAtFirst

\* What is applied is the configuration of today; without a change of the port, the service
\* had that port before.
LEMMA AppliedServes ==
  ASSUME Inv, NEW u \in Units, Reconciles(u)
  PROVE  /\ service' \in Service \union {None}
         /\ \/ u = leader /\ service' = config
            \/ service' = service /\ (u # leader \/ current = config.port)
BY DEF Inv, Typed, Reconciles, Applied, MustApply, PortChanged

\* The port is recorded once the service was applied, whether or not the event is deferred.
LEMMA RecordKeeps ==
  ASSUME Inv, NEW u \in Units, Reconciles(u), Records(u), Counts
  PROVE  Inv'
<1>1. Reconciles(u) /\ UNCHANGED config
  BY DEF Reconciles
<1>2. current' = IF u = leader THEN config.port ELSE current
  BY DEF Records
<1>3. config.port # None /\ config # None
  BY PortAssumption DEF Inv, Typed, Service
<1>4. Typed'
  BY <1>1, AppliedServes DEF Inv, Typed, Counts
<1>5. CASE u = leader /\ service' = config
  BY <1>1, <1>2, <1>3, <1>4, <1>5
     DEF Inv, Typed, Counts, RecordedIsServed, RecordedTodayIsServed, OnePortAtFirst
<1>6. CASE service' = service /\ (u # leader \/ current = config.port)
  <2>1. current' = current
    BY <1>2, <1>6
  <2> QED BY <1>1, <1>6, <2>1, DisturbanceKeeps
<1> QED BY <1>1, <1>5, <1>6, AppliedServes

\* A hook that fails leaves the service with the port of today, and the count of failures.
LEMMA FailedHookKeeps ==
  ASSUME Inv, NEW u \in Units, ConfigChangedFails(u)
  PROVE  Inv'
<1>1. Reconciles(u) /\ Spend("crashes") /\ UNCHANGED <<config, current>>
  BY DEF ConfigChangedFails, Reconciles
<1>2. /\ spent' \in [Disturbances -> Nat]
      /\ spent'["crashes"] = spent["crashes"] + 1 /\ spent'["changes"] = spent["changes"]
  BY <1>1, SpendCounts DEF Inv, Disturbances
<1>3. spent'["crashes"] # 0
  BY <1>2 DEF Inv, Typed, Disturbances
<1>4. config.port # None /\ config # None
  BY PortAssumption DEF Inv, Typed, Service
<1>5. Typed'
  BY <1>1, <1>2, AppliedServes DEF Inv, Typed
<1>6. CASE service' = config
  BY <1>1, <1>2, <1>3, <1>4, <1>5, <1>6
     DEF Inv, RecordedIsServed, RecordedTodayIsServed, OnePortAtFirst
<1>7. CASE service' = service
  BY <1>1, <1>2, <1>3, <1>5, <1>7
     DEF Inv, RecordedIsServed, RecordedTodayIsServed, OnePortAtFirst
<1> QED BY <1>1, <1>6, <1>7, AppliedServes

\* At the first change the only port there was is not the new one, or was applied.
LEMMA SetConfigKeeps == ASSUME Inv, SetConfig PROVE Inv'
<1>1. Spend("changes") /\ config' \in Service /\ UNCHANGED <<service, current>>
  BY DEF SetConfig, k8s
<1>2. /\ spent' \in [Disturbances -> Nat]
      /\ spent'["changes"] = spent["changes"] + 1 /\ spent'["crashes"] = spent["crashes"]
  BY <1>1, SpendCounts DEF Inv, Disturbances
<1>3. spent["changes"] \in Nat
  BY DEF Inv, Typed, Disturbances
<1>4. config'.port # None
  BY <1>1, PortAssumption DEF Service
<1>5. Typed' /\ RecordedIsServed' /\ OnePortAtFirst'
  BY <1>1, <1>2, <1>3 DEF Inv, Typed, RecordedIsServed, OnePortAtFirst
<1>6. RecordedTodayIsServed'
  <2> SUFFICES ASSUME spent'["changes"] <= 1, current = config'.port
               PROVE  service # None /\ service.port = config'.port
    BY <1>1 DEF RecordedTodayIsServed
  <2>1. spent["changes"] = 0
    BY <1>2, <1>3
  <2>2. current = config.port
    BY <1>4, <2>1 DEF Inv, OnePortAtFirst
  <2> QED BY <2>1, <2>2 DEF Inv, RecordedTodayIsServed
<1> QED BY <1>5, <1>6 DEF Inv

\* The invariant holds at first, when nothing is recorded, and in every state after.
THEOREM InvHolds == Spec => []Inv
<1>1. Init => Inv
  BY PortAssumption
     DEF Init, Inv, Typed, RecordedIsServed, RecordedTodayIsServed, OnePortAtFirst, Service,
         Disturbances
<1>2. Inv /\ [Next]_vars => Inv'
  <2> SUFFICES ASSUME Inv, [Next]_vars PROVE Inv'
    OBVIOUS
  <2>1. ASSUME NEW u \in Units, Hooks(u) PROVE Inv'
    <3>1. CASE ConfigChanged(u) \/ ConfigChangedDeferred(u)
      <4>1. Reconciles(u) /\ Records(u)
        BY <3>1 DEF ConfigChanged, ConfigChangedDeferred
      <4>2. Counts
        BY <3>1, OtherCounts DEF ConfigChanged, ConfigChangedDeferred, Disturbances
      <4> QED BY <4>1, <4>2, RecordKeeps
    <3>2. CASE ConfigChangedFails(u)
      BY <3>2, FailedHookKeeps
    <3>3. CASE \/ ConfigChangedRefused(u) \/ PeersChanged(u) \/ PeersDeparted(u)
               \/ LeaderElected(u) \/ UpdateStatus(u) \/ PebbleReady(u)
      BY <3>3, StutterKeeps DEF relevant, ConfigChangedRefused, PeersChanged, PeersDeparted,
                                LeaderElected, UpdateStatus, PebbleReady, k8s
    <3> QED BY <2>1, <3>1, <3>2, <3>3 DEF Hooks
  <2>2. ASSUME NEW c \in Clients, Grant(c) PROVE Inv'
    BY <2>2, StutterKeeps DEF relevant, Grant, k8s
  <2>3. CASE SetConfig
    BY <2>3, SetConfigKeeps
  <2>4. CASE AssignIngress \/ Trust
    BY <2>4, StutterKeeps DEF relevant, AssignIngress, Trust
  <2>5. CASE Untrust \/ \E u \in Units : Elect(u) \/ Leave(u) \/ ContainerRestart(u)
    <3>1. UNCHANGED <<config, service, current>>
      BY <2>5 DEF Untrust, Elect, Leave, ContainerRestart, k8s
    <3>2. \E d \in Disturbances \ {"changes", "crashes"} : Spend(d)
      BY <2>5 DEF Untrust, Elect, Leave, ContainerRestart, Disturbances
    <3> QED BY <3>1, <3>2, OtherCounts, DisturbanceKeeps
  <2>6. CASE UNCHANGED vars
    BY <2>6, StutterKeeps DEF relevant, vars, k8s
  <2> QED BY <2>1, <2>2, <2>3, <2>4, <2>5, <2>6 DEF Next, Environment
<1> QED BY <1>1, <1>2, PTL DEF Spec

\* Once current_port names the port of today the service has it, whoever leads, however often
\* the options change, hooks fail and the API refuses, unless a change is taken back while its
\* hook fails (charm.py:387-401).
THEOREM RecordedPortIsServed == Spec => []NoStaleService
BY InvHolds, InvGives, PTL
=============================================================================
