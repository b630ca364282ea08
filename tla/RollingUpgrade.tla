--------------------------- MODULE RollingUpgrade ---------------------------
(***************************************************************************)
(* The rolling upgrade of the charm on Kubernetes: upgrade.py and the      *)
(* library it extends, data_platform_libs/v0/upgrade.py.  The operator     *)
(* runs pre-upgrade-check, refreshes the application and resumes it; the   *)
(* StatefulSet replaces the pods from its partition upwards; each new pod  *)
(* reports its state in the upgrade peer relation, and its number lowers   *)
(* the partition.                                                          *)
(*                                                                         *)
(* A hook or action is one step.  Simplifications:                         *)
(*  - the number of units is fixed during an upgrade;                      *)
(*  - one upgrade, and possibly the rollback of it;                        *)
(*  - the service, connection information, admin console user and hash of  *)
(*    the monitoring user, which the leader refreshes in pebble-ready, and *)
(*    the configuration, rendered in upgrade-changed, are left out: they   *)
(*    do not feed back into the rollout.                                   *)
(***************************************************************************)
EXTENDS Integers, Sequences, SequencesExt

CONSTANTS
  N,        \* number of units, named 0 .. N-1 as their pods are
  Budgets   \* the disturbances together stay within one of these budgets

Disturbances == {"elections", "refusals", "restarts", "rechecks", "sickness", "mismatches", "resumes"}

ASSUME UpgradeAssumption ==
  /\ N \in Nat \ {0}
  /\ Budgets \subseteq [Disturbances -> Nat]

Units == 0 .. N - 1
Revisions == {"old", "new", "incompatible"}

\* DataUpgrade.STATES in their order; ready is for machines only.
States == <<"recovery", "failed", "idle", "ready", "upgrading", "completed">>

VARIABLES
  leader,
  state,      \* state[u] in the upgrade relation
  stack,      \* upgrade-stack in the application databag, the next unit last
  stored,     \* the revision whose dependencies are in the application databag
  target,     \* the revision the operator asked for
  partition,  \* of the StatefulSet: pods from here upwards are kept at target
  rev,        \* rev[u]: the revision of the pod
  sick,       \* units whose pgbouncer does not run on their revision
  pending,    \* pending[u]: events Juju has still to deliver to u
  givenUp,    \* history: pre-upgrade-check ran after a failure
  spent       \* disturbances so far

relation == <<state, stack, stored>>
pods == <<target, partition, rev, sick>>
vars == <<leader, relation, pods, pending, givenUp, spent>>

Events == {"upgrade_charm", "pebble_ready", "upgrade_changed"}

TypeOK ==
  /\ leader \in Units
  /\ state \in [Units -> ToSet(States)]
  /\ stack \in Seq(Units) /\ Len(stack) <= N
  /\ stored \in Revisions /\ target \in Revisions
  /\ partition \in Units
  /\ rev \in [Units -> Revisions]
  /\ sick \subseteq Units
  /\ pending \in [Units -> SUBSET Events]
  /\ givenUp \in BOOLEAN
  /\ spent \in [Disturbances -> Nat]

Init ==
  /\ leader \in Units
  /\ state = [u \in Units |-> "idle"]
  /\ stack = <<>>
  /\ stored = "old" /\ target = "old"
  /\ partition = 0
  /\ rev = [u \in Units |-> "old"]
  /\ sick = {}
  /\ pending = [u \in Units |-> {}]
  /\ givenUp = FALSE
  /\ spent = [d \in Disturbances |-> 0]

Spend(d) ==
  /\ spent' = [spent EXCEPT ![d] = @ + 1]
  /\ \E budget \in Budgets : \A x \in Disturbances : spent'[x] <= budget[x]

----------------------------------------------------------------------------
(* The peer relation *)

\* cluster_state: the state of the unit that is furthest behind.
ClusterState(st) ==
  States[CHOOSE i \in DOMAIN States :
           /\ \E u \in Units : st[u] = States[i]
           /\ \A u \in Units : \E j \in DOMAIN States : st[u] = States[j] /\ i <= j]

Full == [i \in 1 .. N |-> i - 1]

\* Mutant: the top is popped whatever its state.
PoppedAlways(st, stk) == IF stk = <<>> THEN <<>> ELSE Front(stk)

\* The leader pops units until the top has not completed.
Popped(st, stk) ==
  LET waiting == {i \in DOMAIN stk : st[stk[i]] # "completed"}
  IN SubSeq(stk, 1, CHOOSE i \in waiting \union {0} : \A j \in waiting : j <= i)

\* Mutant: a unit is done with the upgrade while all others are completed, too.
OnUpgradeChangedTogether(u, st, stk) ==
  LET failed == ClusterState(st) = "failed"
      left == IF u = leader /\ ~failed THEN Popped(st, stk) ELSE stk
      ends == /\ ~failed /\ left = <<>>
              /\ st[u] = "completed" /\ ClusterState(st) = "completed"
  IN [state |-> IF ends THEN [st EXCEPT ![u] = "idle"] ELSE st,
      stack |-> left,
      stored |-> IF ends /\ u = leader THEN rev[u] ELSE stored]

\* The relation after on_upgrade_changed on u.
OnUpgradeChanged(u, st, stk) ==
  LET failed == ClusterState(st) = "failed"
      left == IF u = leader /\ ~failed THEN Popped(st, stk) ELSE stk
      ends == /\ ~failed /\ left = <<>>
              /\ st[u] = "completed" /\ ClusterState(st) \in {"idle", "completed"}
  IN [state |-> IF ends THEN [st EXCEPT ![u] = "idle"] ELSE st,
      stack |-> left,
      stored |-> IF ends /\ u = leader THEN rev[u] ELSE stored]

\* u writes the relation and has handled event e; the others are told if it differs.
Written(u, new, e) ==
  /\ state' = new.state /\ stack' = new.stack /\ stored' = new.stored
  /\ pending' = [v \in Units |->
       IF v = u THEN pending[v] \ {e}
       ELSE IF new # [state |-> state, stack |-> stack, stored |-> stored]
            THEN pending[v] \union {"upgrade_changed"} ELSE pending[v]]

With(st, stk) == [state |-> st, stack |-> stk, stored |-> stored]

----------------------------------------------------------------------------
(* Hooks *)

CanUpgrade == ~(stored = "old" /\ target = "incompatible")

\* Only the highest unit compares versions.
UpgradeCharm(u) ==
  /\ "upgrade_charm" \in pending[u]
  /\ Written(u,
       With(IF stack = <<>> THEN state
            ELSE IF u = N - 1 /\ ~CanUpgrade THEN [state EXCEPT ![u] = "failed"]
            ELSE [state EXCEPT ![u] = "upgrading"], stack),
       "upgrade_charm")
  /\ UNCHANGED <<leader, pods, givenUp, spent>>

\* Mutant: the checks are not made.
CheckedNever(u) == TRUE

\* _cluster_checks
Checked(u) == u \notin sick

PebbleReadyIgnored(u) ==
  /\ "pebble_ready" \in pending[u] /\ "upgrade_charm" \notin pending[u]
  /\ state[u] \notin {"upgrading", "recovery"}
  /\ pending' = [pending EXCEPT ![u] = @ \ {"pebble_ready"}]
  /\ UNCHANGED <<leader, relation, pods, givenUp, spent>>

Completed(u) ==
  /\ "pebble_ready" \in pending[u] /\ "upgrade_charm" \notin pending[u]
  /\ state[u] \in {"upgrading", "recovery"} /\ Checked(u)

\* set_unit_completed emits upgrade_finished; the leader then handles upgrade-changed.
AfterCompletion(u) ==
  LET done == [state EXCEPT ![u] = "completed"]
  IN IF u = leader THEN OnUpgradeChanged(u, done, stack) ELSE With(done, stack)

\* Mutant: the ends of the order are not treated apart.
NextPartitionAlways(u) == u - 1

\* _on_upgrade_finished: not for the first unit upgraded, nor for the last.
NextPartition(u) == IF u \in {0, N - 1} THEN partition ELSE u - 1

\* _set_rolling_update_partition
SetPartition(p) == partition' = p

PebbleReady(u) ==
  /\ Completed(u)
  /\ Written(u, AfterCompletion(u), "pebble_ready")
  /\ SetPartition(NextPartition(u))
  /\ UNCHANGED <<leader, target, rev, sick, givenUp, spent>>

\* The API refuses the partition.  The leader has popped its own number by then.
PebbleReadyRefused(u) ==
  /\ Completed(u) /\ u \notin {0, N - 1}
  /\ Spend("refusals")
  /\ Written(u, [AfterCompletion(u) EXCEPT !.state[u] = "failed"], "pebble_ready")
  /\ UNCHANGED <<leader, pods, givenUp>>

UpgradeChanged(u) ==
  /\ "upgrade_changed" \in pending[u]
  /\ Written(u, OnUpgradeChanged(u, state, stack), "upgrade_changed")
  /\ UNCHANGED <<leader, pods, givenUp, spent>>

----------------------------------------------------------------------------
(* Actions of the operator, on the leader *)

InProgress == target # "old" \/ \E u \in Units : state[u] # "idle"

\* pre_upgrade_check: no pod is replaced before resume-upgrade but the highest.
Prepares == Checked(leader) /\ SetPartition(N - 1)

PreUpgradeCheck ==
  /\ ClusterState(state) = "idle" /\ Prepares /\ ~givenUp
  /\ IF InProgress THEN Spend("rechecks") ELSE stack = <<>> /\ UNCHANGED spent
  /\ Written(leader, With(state, Full), "none")
  /\ UNCHANGED <<leader, target, rev, sick, givenUp>>

\* _repair_upgrade_stack: the missing units go below the top, in the order of a set.
Repaired ==
  LET missing == Units \ ToSet(stack)
  IN IF stack = <<>> \/ missing = {} THEN {stack}
     ELSE {Front(stack) \o s \o <<Last(stack)>> : s \in SetToSeqs(missing)}

PreUpgradeCheckAfterFailure ==
  /\ ClusterState(state) = "failed"
  /\ \E stk \in Repaired :
       Written(leader, With([state EXCEPT ![leader] = "recovery"], stk), "none")
  /\ givenUp' = TRUE
  /\ UNCHANGED <<leader, pods, spent>>

\* Mutant: resumes with a stack of any length.
ResumeUpgradeAgain ==
  /\ stack # <<>>
  /\ partition' = Last(stack)
  /\ UNCHANGED <<leader, relation, target, rev, sick, pending, givenUp, spent>>

ResumeUpgrade ==
  /\ stack # <<>> /\ Len(stack) = N - 1
  /\ IF partition = N - 1 THEN UNCHANGED spent ELSE Spend("resumes")
  /\ SetPartition(Last(stack))
  /\ UNCHANGED <<leader, relation, target, rev, sick, pending, givenUp>>

Refresh(r) ==
  /\ target = "old" /\ stack = Full /\ ~InProgress
  /\ IF r = "incompatible" THEN Spend("mismatches") ELSE UNCHANGED spent
  /\ target' = r
  /\ UNCHANGED <<leader, relation, partition, rev, sick, pending, givenUp>>

RollBack ==
  /\ target # "old" /\ givenUp
  /\ target' = "old"
  /\ UNCHANGED <<leader, relation, partition, rev, sick, pending, givenUp, spent>>

----------------------------------------------------------------------------
(* Kubernetes and Juju *)

\* The StatefulSet replaces one pod after the other, from the highest downwards; a
\* pod is ready for it as soon as its containers run.
ReplacePod(u) ==
  /\ u >= partition /\ rev[u] # target
  /\ \A v \in Units : v > u => rev[v] = target
  /\ rev' = [rev EXCEPT ![u] = target]
  /\ pending' = [pending EXCEPT ![u] = @ \union {"upgrade_charm", "pebble_ready"}]
  /\ \/ sick' = sick \ {u} /\ UNCHANGED spent
     \/ target # "old" /\ sick' = sick \union {u} /\ Spend("sickness")
  /\ UNCHANGED <<leader, relation, target, partition, givenUp>>

ContainerRestart(u) ==
  /\ "pebble_ready" \notin pending[u]
  /\ Spend("restarts")
  /\ pending' = [pending EXCEPT ![u] = @ \union {"pebble_ready"}]
  /\ UNCHANGED <<leader, relation, pods, givenUp>>

Elect(u) ==
  /\ u # leader
  /\ Spend("elections")
  /\ leader' = u
  /\ UNCHANGED <<relation, pods, pending, givenUp>>

----------------------------------------------------------------------------
(* Specification *)

Hooks(u) ==
  \/ UpgradeCharm(u) \/ PebbleReadyIgnored(u) \/ PebbleReady(u) \/ PebbleReadyRefused(u)
  \/ UpgradeChanged(u)

Operator ==
  \/ PreUpgradeCheck \/ PreUpgradeCheckAfterFailure \/ ResumeUpgrade \/ RollBack
  \/ \E r \in Revisions \ {"old"} : Refresh(r)

Next ==
  \/ Operator
  \/ \E u \in Units : Hooks(u) \/ ReplacePod(u) \/ ContainerRestart(u) \/ Elect(u)

Spec == Init /\ [][Next]_vars

\* Events are delivered, pods replaced, and the operator resumes what can be resumed.
Fairness ==
  /\ \A u \in Units :
       /\ WF_vars(UpgradeCharm(u)) /\ WF_vars(UpgradeChanged(u))
       /\ WF_vars(PebbleReadyIgnored(u) \/ PebbleReady(u))
       /\ WF_vars(ReplacePod(u))
  /\ WF_vars(ResumeUpgrade)

FairSpec == Spec /\ Fairness

----------------------------------------------------------------------------
(* Properties *)

\* A unit is done when it runs the revision and pebble-ready has said so.
Begun == {u \in Units : target # "old" /\ rev[u] = target /\ ~givenUp}
Upgrading ==
  {u \in Begun : state[u] \in {"upgrading", "failed"} \/ "upgrade_charm" \in pending[u]}

\* Units are upgraded one at a time, from the highest down, none before the one above
\* is healthy and has completed, whoever leads, whatever is refused or checked again,
\* until the operator gives up after a failure (the partition set in upgrade.py:80-93
\* and in _on_upgrade_finished, lines 1039-1073 of the library).
Order == INSTANCE UpgradeOrder WITH
  working <- Upgrading, finished <- Begun \ Upgrading, healthy <- Begun \ sick
OneAtATime == Order!Spec

\* A unit leaves the stack only after it completed, and the leader takes them in turn:
\* what is left is the lower part of the units, and all others are done.  The
\* exception is a leader that pops itself and is then refused the partition.
PoppedCompleted ==
  (stack # <<>> /\ ~givenUp) =>
    /\ stack = SubSeq(Full, 1, Len(stack))
    /\ \A u \in Units \ ToSet(stack) :
         u \in Begun /\ (u \in Upgrading => state[u] = "failed" /\ spent["refusals"] > 0)

\* A failed unit stops the rollout: no other pod is replaced until the operator gives
\* up, even when the upgrade is resumed or checked again (lines 948-951 of the library:
\* "if any other unit failed, don't continue with upgrade").  It does not hold after
\* that: a restart of the leader's container in recovery counts as its upgrade.
FailureStops ==
  [][\A u, v \in Units : state[v] = "failed" /\ u # v /\ ~givenUp => rev'[u] = rev[u]]_vars

\* Left alone but for restarts of containers, an upgrade gets to its end: all pods on
\* the new revision, all units idle and ready for the next upgrade.
UpgradeEnds ==
  (target = "new") ~>
    \/ /\ \A u \in Units : rev[u] = "new" /\ state[u] = "idle"
       /\ stack = <<>> /\ stored = "new"
    \/ \E d \in Disturbances \ {"restarts"} : spent[d] > 0
=============================================================================
