------------------------- MODULE MCClientRelations -------------------------
(***************************************************************************)
(* Instances of ClientRelations for TLC.                                   *)
(***************************************************************************)
EXTENDS ClientRelations, FiniteSets, TLC

\* Relation ids are numbers, and Juju lists the largest one last.
MCLast == [S \in (SUBSET Relations) \ {{}} |-> CHOOSE r \in S : \A s \in S : s <= r]

\* One database for all relations; for all but relation 3; one for each.
MCSharedDb == [r \in Relations |-> CHOOSE d \in Databases : TRUE]
MCThreeDb ==
  [r \in Relations |-> IF r = 3 THEN CHOOSE d \in Databases : d # MCSharedDb[1]
                       ELSE MCSharedDb[1]]
MCOwnDb == CHOOSE f \in [Relations -> Databases] :
             \A r, s \in Relations : f[r] = f[s] => r = s

\* Units are interchangeable: nothing in the code compares or orders them.
UnitSymmetry == Permutations(Units)

\* Without elections the choice of the leader is one more symmetry, which a
\* liveness run can use.
FixedLeaderInit == Init /\ leader = CHOOSE u \in Units : TRUE
FixedLeaderSpec == FixedLeaderInit /\ [][Next]_vars /\ Fairness

\* Budgets: each kind of disturbance in the set may happen once, all of them in one
\* behaviour (AllOf) or just one of them (AnyOf).
Once(ds) == [d \in Disturbances |-> IF d \in ds THEN 1 ELSE 0]
AllOf(ds) == {Once(ds)}
AnyOf(ds) == {Once({d}) : d \in ds}

MCCalm == AllOf({})
MCElection == AllOf({"elections"})
MCLeave == AllOf({"leaves"})
MCRolloutBudgets == AnyOf({"leaves", "restarts", "crashes"})
MCLeaveRemovalCrash == AllOf({"leaves", "removals", "crashes"})
MCRepairs == AnyOf({"misconfigs", "restarts"}) \union AllOf({"crashes", "outages"})
MCTwoRemovalsCrash ==
  {[Once({d}) EXCEPT !["removals"] = 2] : d \in {"crashes", "errors"}}
    \union AllOf({"crashes", "errors", "removals"})
=============================================================================
