---------------------------- MODULE UpgradeOrder ----------------------------
(***************************************************************************)
(* What a rolling upgrade promises, without charms, relations and          *)
(* StatefulSets: units are upgraded one at a time, from the highest number *)
(* down, each of them healthy before the next one begins; an upgrade may   *)
(* be given up.                                                            *)
(***************************************************************************)
EXTENDS Naturals

CONSTANT N    \* the number of units

Units == 0 .. N - 1

VARIABLES
  working,   \* units that have left the old revision and are not done
  finished,  \* units that are done
  healthy    \* units whose workload is well on the new revision

vars == <<working, finished, healthy>>

Init == working = {} /\ finished = {} /\ healthy = {}

Begin(u) ==
  /\ working = {} /\ u \notin finished
  /\ \A v \in Units : v > u => v \in finished
  /\ working' = {u}
  /\ UNCHANGED finished
  /\ healthy' \in {healthy, healthy \union {u}}

Finish(u) ==
  /\ working = {u} /\ u \in healthy
  /\ working' = {} /\ finished' = finished \union {u}
  /\ UNCHANGED healthy

GiveUp == working' = {} /\ finished' = {} /\ healthy' = {}

Next == GiveUp \/ \E u \in Units : Begin(u) \/ Finish(u)

Spec == Init /\ [][Next]_vars
=============================================================================
