------------------------ MODULE RollingUpgrade_proofs ------------------------
(***************************************************************************)
(* Theorems about RollingUpgrade, for any number of units and every budget *)
(* of disturbances: units are upgraded one at a time in the order that     *)
(* UpgradeOrder states, and none leaves the stack before it is done.       *)
(***************************************************************************)
EXTENDS RollingUpgrade, SequenceTheorems, WellFoundedInduction, TLAPS

----------------------------------------------------------------------------
(* The inductive invariant *)

\* The types of what decides which pod is replaced.  The stack and the partition are
\* left out: nothing is promised of them once the upgrade is given up.
Typed ==
  /\ leader \in Units
  /\ state \in [Units -> ToSet(States)]
  /\ target \in Revisions /\ rev \in [Units -> Revisions]
  /\ sick \subseteq Units
  /\ pending \in [Units -> SUBSET Events]
  /\ givenUp \in BOOLEAN
  /\ spent \in [Disturbances -> Nat]

\* Before the refresh no unit has anything to upgrade; the partition protects all
\* pods but the highest from the moment that the stack is there.
Prepared ==
  target = "old" =>
    /\ \A u \in Units :
         rev[u] = "old" /\ state[u] = "idle" /\ "upgrade_charm" \notin pending[u]
    /\ \/ stack = <<>>
       \/ stack = Full /\ partition = N - 1

\* u runs the revision, and pebble-ready has said so.
Done(u) ==
  /\ rev[u] = target /\ "upgrade_charm" \notin pending[u]
  /\ state[u] \in {"idle", "completed"}

\* u completed, and was then refused the partition for the next unit.
Refused(u) ==
  /\ rev[u] = target /\ "upgrade_charm" \notin pending[u]
  /\ u # N - 1 /\ state[u] = "failed" /\ spent["refusals"] > 0

\* What a unit reports is about the revision that it was asked to run.
Reported ==
  \A u \in Units :
    /\ state[u] \in {"idle", "upgrading", "completed", "failed"}
    /\ "upgrade_charm" \in pending[u] => rev[u] = target
    /\ state[u] # "idle" => rev[u] = target
    /\ state[u] = "completed" => "upgrade_charm" \notin pending[u]

\* Every unit above one that has begun, and every unit above the partition, is done.
InOrder ==
  \A u, v \in Units : v > u /\ (rev[u] = target \/ partition = u) => Done(v)

\* The stack holds the lower units; those above have left it because they were done.
Stacked ==
  /\ Len(stack) \in 0 .. N /\ stack = SubSeq(Full, 1, Len(stack))
  /\ partition \in Units
  /\ \A u \in Units : u >= Len(stack) => Done(u) \/ Refused(u)

\* A refresh is under way, and nobody gave it up.
Rollout == Reported /\ InOrder /\ Stacked

IInv ==
  /\ Typed
  /\ ~givenUp => Prepared
  /\ ~givenUp /\ target # "old" => Rollout

----------------------------------------------------------------------------
(* The stack *)

\* A nonempty set of natural numbers has a least element.
LEMMA MinimumExists ==
  ASSUME NEW T, T \subseteq Nat, T # {}
  PROVE  \E x \in T : \A y \in T : x <= y
<1> DEFINE R == OpToRel(<, Nat)
<1>1. \E x \in T : \A y \in T : <<y, x>> \notin R
  <2> HIDE DEF R
  <2>1. IsWellFoundedOn(R, Nat)
    BY NatLessThanWellFounded DEF R
  <2> QED BY <2>1, WFMin
<1>2. \A x, y \in Nat : y < x => <<y, x>> \in R
  BY DEF OpToRel
<1> HIDE DEF R
<1>3. PICK x \in T : \A y \in T : <<y, x>> \notin R
  BY <1>1
<1>4. \A y \in T : ~(y < x)
  BY <1>2, <1>3
<1> QED BY <1>3, <1>4

\* What a prefix of the full stack is.
LEMMA LowerUnits ==
  ASSUME NEW n \in 0 .. N
  PROVE  /\ SubSeq(Full, 1, n) = [i \in 1 .. n |-> i - 1]
         /\ SubSeq(Full, 1, n) \in Seq(Units)
         /\ Len(SubSeq(Full, 1, n)) = n
         /\ ToSet(SubSeq(Full, 1, n)) = 0 .. n - 1
<1> DEFINE lower == [i \in 1 .. n |-> i - 1]
<1>1. Full \in Seq(Units) /\ Len(Full) = N
  BY UpgradeAssumption DEF Full, Units
<1>2. SubSeq(Full, 1, n) = lower
  <2>1. SubSeq(Full, 1, n) = [i \in 1 .. n |-> Full[i]]
    BY <1>1, SubSeqRestrict DEF Restrict
  <2>2. \A i \in 1 .. n : Full[i] = i - 1
    BY UpgradeAssumption DEF Full
  <2> QED BY <2>1, <2>2
<1>3. lower \in Seq(Units) /\ Len(lower) = n
  BY UpgradeAssumption DEF Units
<1>4. ToSet(lower) = 0 .. n - 1
  <2>1. ToSet(lower) = {i - 1 : i \in 1 .. n}
    BY DEF ToSet
  <2>2. {i - 1 : i \in 1 .. n} = 0 .. n - 1
    <3>1. \A x \in 0 .. n - 1 : x + 1 \in 1 .. n /\ x = (x + 1) - 1
      BY UpgradeAssumption
    <3> QED BY <3>1, UpgradeAssumption
  <2> QED BY <2>1, <2>2
<1>5. SubSeq(Full, 1, n) = [i \in 1 .. n |-> i - 1]
  BY <1>2
<1> HIDE DEF lower
<1> QED BY <1>2, <1>3, <1>4, <1>5
 
\* What the full stack is.
LEMMA WholeStack ==
  SubSeq(Full, 1, N) = Full /\ Len(Full) = N /\ Full # <<>> /\ ToSet(Full) = Units
<1>1. SubSeq(Full, 1, N) = [i \in 1 .. N |-> i - 1] /\ ToSet(SubSeq(Full, 1, N)) = 0 .. N - 1
  BY LowerUnits, UpgradeAssumption
<1>2. SubSeq(Full, 1, N) = Full
  BY <1>1 DEF Full
<1>3. Len(Full) = N /\ Full # <<>>
  BY UpgradeAssumption DEF Full
<1> QED BY <1>1, <1>2, <1>3 DEF Units

\* The leader pops completed units only.
LEMMA PoppedCompletes ==
  ASSUME NEW st, NEW n \in 0 .. N
  PROVE  \E k \in 0 .. n :
           /\ Popped(st, SubSeq(Full, 1, n)) = SubSeq(Full, 1, k)
           /\ \A u \in Units : k <= u /\ u < n => st[u] = "completed"
<1> DEFINE stk == SubSeq(Full, 1, n)
           waiting == {i \in DOMAIN stk : st[stk[i]] # "completed"}
           Top(i) == i \in waiting \union {0} /\ \A j \in waiting : j <= i
<1>1. stk = [i \in 1 .. n |-> i - 1]
  BY LowerUnits
<1>2. waiting \subseteq 1 .. n
  BY <1>1
<1>3. \E i \in waiting \union {0} : \A j \in waiting : j <= i
  <2> DEFINE T == {n - j : j \in waiting \union {0}}
  <2>1. T \subseteq Nat /\ T # {}
    BY <1>2
  <2>2. PICK x \in T : \A y \in T : x <= y
    BY <2>1, MinimumExists
  <2>3. PICK i \in waiting \union {0} : x = n - i
    BY <2>2
  <2>4. \A j \in waiting : n - i <= n - j
    BY <2>2, <2>3
  <2> HIDE DEF waiting
  <2> QED BY <2>3, <2>4, <1>2
<1> DEFINE k == CHOOSE i \in waiting \union {0} : \A j \in waiting : j <= i
<1>4. k \in waiting \union {0} /\ \A j \in waiting : j <= k
  <2> HIDE DEF waiting
  <2> QED BY <1>3
<1>5. Popped(st, stk) = SubSeq(stk, 1, k)
  BY DEF Popped
<1> HIDE DEF k
<1>6. k \in 0 .. n
  BY <1>4, <1>2
<1>7. SubSeq(stk, 1, k) = SubSeq(Full, 1, k)
  <2>1. stk \in Seq(Units) /\ Len(stk) = n
    BY LowerUnits
  <2>2. SubSeq(stk, 1, k) = [i \in 1 .. k |-> stk[i]]
    BY <2>1, <1>6, SubSeqRestrict DEF Restrict
  <2>3. SubSeq(Full, 1, k) = [i \in 1 .. k |-> i - 1]
    BY <1>6, LowerUnits
  <2> QED BY <2>2, <2>3, <1>1, <1>6
<1>8. ASSUME NEW u \in Units, k <= u, u < n
      PROVE  st[u] = "completed"
  <2>1. u + 1 \in 1 .. n /\ stk[u + 1] = u
    BY <1>1, <1>8, <1>6 DEF Units
  <2>2. u + 1 \notin waiting
    BY <1>4, <1>6, <1>8, <1>2 DEF Units
  <2> QED BY <2>1, <2>2, <1>1
<1> QED BY <1>5, <1>6, <1>7, <1>8

\* What on_upgrade_changed may write: it ends the upgrade of a completed unit, and it
\* pops completed units.
LEMMA ChangedState ==
  ASSUME NEW st, NEW stk, NEW u \in Units
  PROVE  \/ OnUpgradeChanged(u, st, stk).state = st
         \/ /\ OnUpgradeChanged(u, st, stk).state = [st EXCEPT ![u] = "idle"]
            /\ st[u] = "completed"
BY DEF OnUpgradeChanged

LEMMA ChangedStack ==
  ASSUME NEW st, NEW u \in Units, NEW n \in 0 .. N
  PROVE  \E k \in 0 .. n :
           /\ OnUpgradeChanged(u, st, SubSeq(Full, 1, n)).stack = SubSeq(Full, 1, k)
           /\ \A w \in Units : k <= w /\ w < n => st[w] = "completed"
<1>1. CASE OnUpgradeChanged(u, st, SubSeq(Full, 1, n)).stack = Popped(st, SubSeq(Full, 1, n))
  BY <1>1, PoppedCompletes
<1>2. CASE OnUpgradeChanged(u, st, SubSeq(Full, 1, n)).stack = SubSeq(Full, 1, n)
  BY <1>2 DEF Units
<1> QED BY <1>1, <1>2 DEF OnUpgradeChanged

----------------------------------------------------------------------------
(* Types *)

LEMMA StatesSet ==
  ToSet(States) = {"recovery", "failed", "idle", "ready", "upgrading", "completed"}
BY DEF ToSet, States

\* Writing the relation tells the others, and takes the event off.
LEMMA WrittenEvents ==
  ASSUME Typed, NEW u \in Units, NEW new, NEW e, Written(u, new, e)
  PROVE  /\ pending' \in [Units -> SUBSET Events]
         /\ \A v \in Units : "upgrade_charm" \in pending'[v] <=>
              /\ "upgrade_charm" \in pending[v]
              /\ ~(v = u /\ e = "upgrade_charm")
BY DEF Written, Typed, Events

LEMMA TypedStep ==
  ASSUME Typed, [Next]_vars
  PROVE  Typed'
<1> DEFINE Reports == [Units -> ToSet(States)]
<1>0. ASSUME NEW st \in Reports, NEW u \in Units
      PROVE  \A s \in {"recovery", "failed", "idle", "upgrading", "completed"} :
               [st EXCEPT ![u] = s] \in Reports
  BY StatesSet
<1>t. state \in Reports
  BY DEF Typed
<1> HIDE DEF Reports
<1>1. ASSUME NEW d \in Disturbances, Spend(d)
      PROVE  spent' \in [Disturbances -> Nat]
  BY <1>1 DEF Typed, Spend
<1>2. ASSUME NEW u \in Units, NEW st \in Reports, NEW stk
      PROVE  OnUpgradeChanged(u, st, stk).state \in Reports
  <2>1. \/ OnUpgradeChanged(u, st, stk).state = st
        \/ /\ OnUpgradeChanged(u, st, stk).state = [st EXCEPT ![u] = "idle"]
           /\ st[u] = "completed"
    BY ChangedState
  <2>2. [st EXCEPT ![u] = "idle"] \in Reports
    BY <1>0
  <2> QED BY <2>1, <2>2
<1>3. ASSUME NEW u \in Units
      PROVE  AfterCompletion(u).state \in Reports
  <2>1. [state EXCEPT ![u] = "completed"] \in Reports
    BY <1>0, <1>t
  <2> QED BY <2>1, <1>2 DEF AfterCompletion, With
<1>r. state' \in Reports => state' \in [Units -> ToSet(States)]
  BY DEF Reports
<1>4. ASSUME NEW u \in Units, Hooks(u)
      PROVE  Typed'
  <2>1. CASE UpgradeCharm(u)
    <3>1. state' \in Reports
      BY <2>1, <1>0, <1>t DEF UpgradeCharm, Written, With
    <3>2. pending' \in [Units -> SUBSET Events]
      BY <2>1, WrittenEvents DEF UpgradeCharm
    <3> QED BY <2>1, <3>1, <3>2, <1>r DEF UpgradeCharm, Typed, pods
  <2>2. CASE PebbleReadyIgnored(u)
    BY <2>2 DEF PebbleReadyIgnored, Typed, pods, relation, Events
  <2>3. CASE PebbleReady(u)
    <3>1. state' \in Reports
      BY <2>3, <1>3 DEF PebbleReady, Written
    <3>2. pending' \in [Units -> SUBSET Events]
      BY <2>3, WrittenEvents DEF PebbleReady
    <3> QED BY <2>3, <3>1, <3>2, <1>r DEF PebbleReady, Typed
  <2>4. CASE PebbleReadyRefused(u)
    <3>1. state' \in Reports
      <4>1. state' = [AfterCompletion(u).state EXCEPT ![u] = "failed"]
        BY <2>4 DEF PebbleReadyRefused, Written, AfterCompletion, With, OnUpgradeChanged
      <4> QED BY <4>1, <1>3, <1>0
    <3>2. pending' \in [Units -> SUBSET Events]
      BY <2>4, WrittenEvents DEF PebbleReadyRefused
    <3>3. spent' \in [Disturbances -> Nat]
      BY <2>4, <1>1 DEF PebbleReadyRefused, Disturbances
    <3> QED BY <2>4, <3>1, <3>2, <3>3, <1>r DEF PebbleReadyRefused, Typed, pods
  <2>5. CASE UpgradeChanged(u)
    <3>1. state' \in Reports
      BY <2>5, <1>2, <1>t DEF UpgradeChanged, Written
    <3>2. pending' \in [Units -> SUBSET Events]
      BY <2>5, WrittenEvents DEF UpgradeChanged
    <3> QED BY <2>5, <3>1, <3>2, <1>r DEF UpgradeChanged, Typed, pods
  <2> QED BY <1>4, <2>1, <2>2, <2>3, <2>4, <2>5 DEF Hooks
<1>5. ASSUME Operator
      PROVE  Typed'
  <2>1. CASE PreUpgradeCheck
    <3>1. leader \in Units
      BY DEF Typed
    <3>2. state' = state /\ pending' \in [Units -> SUBSET Events]
      BY <2>1, <3>1, WrittenEvents DEF PreUpgradeCheck, Written, With
    <3>3. spent' \in [Disturbances -> Nat]
      BY <2>1, <1>1 DEF PreUpgradeCheck, Disturbances, Typed
    <3> QED BY <2>1, <3>2, <3>3 DEF PreUpgradeCheck, Typed
  <2>2. CASE PreUpgradeCheckAfterFailure
    <3>1. leader \in Units
      BY DEF Typed
    <3>2. PICK stk : Written(leader, With([state EXCEPT ![leader] = "recovery"], stk), "none")
      BY <2>2 DEF PreUpgradeCheckAfterFailure
    <3>3. [state EXCEPT ![leader] = "recovery"] \in Reports
      BY <3>1, <1>0, <1>t
    <3>4. state' \in Reports
      BY <3>2, <3>3 DEF Written, With
    <3>5. pending' \in [Units -> SUBSET Events]
      BY <3>1, <3>2, WrittenEvents
    <3> QED BY <2>2, <3>4, <3>5, <1>r DEF PreUpgradeCheckAfterFailure, Typed, pods
  <2>3. CASE ResumeUpgrade
    <3>1. spent' \in [Disturbances -> Nat]
      BY <2>3, <1>1 DEF ResumeUpgrade, Disturbances, Typed
    <3> QED BY <2>3, <3>1 DEF ResumeUpgrade, Typed, relation
  <2>4. CASE RollBack
    BY <2>4 DEF RollBack, Typed, relation, Revisions
  <2>5. ASSUME NEW r \in Revisions, Refresh(r)
        PROVE  Typed'
    <3>1. spent' \in [Disturbances -> Nat]
      BY <2>5, <1>1 DEF Refresh, Disturbances, Typed
    <3> QED BY <2>5, <3>1 DEF Refresh, Typed, relation
  <2> QED BY <1>5, <2>1, <2>2, <2>3, <2>4, <2>5 DEF Operator
<1>6. ASSUME NEW u \in Units, ReplacePod(u)
      PROVE  Typed'
  <2>1. spent' \in [Disturbances -> Nat]
    BY <1>6, <1>1 DEF ReplacePod, Disturbances, Typed
  <2> QED BY <1>6, <2>1 DEF ReplacePod, Typed, relation, Events
<1>7. ASSUME NEW u \in Units, ContainerRestart(u)
      PROVE  Typed'
  <2>1. spent' \in [Disturbances -> Nat]
    BY <1>7, <1>1 DEF ContainerRestart, Disturbances
  <2> QED BY <1>7, <2>1 DEF ContainerRestart, Typed, relation, pods, Events
<1>8. ASSUME NEW u \in Units, Elect(u)
      PROVE  Typed'
  <2>1. spent' \in [Disturbances -> Nat]
    BY <1>8, <1>1 DEF Elect, Disturbances
  <2> QED BY <1>8, <2>1 DEF Elect, Typed, relation, pods
<1>9. CASE UNCHANGED vars
  BY <1>9 DEF vars, relation, pods, Typed
<1> QED BY <1>4, <1>5, <1>6, <1>7, <1>8, <1>9 DEF Next

----------------------------------------------------------------------------
(* The rollout *)

\* A step that replaces no pod, moves neither stack nor partition, and undoes nothing.
LEMMA Steady ==
  ASSUME InOrder, Stacked, target' = target, rev' = rev,
         partition' = partition, stack' = stack,
         \A v \in Units : (Done(v) => Done(v)') /\ (Refused(v) => Refused(v)')
  PROVE  InOrder' /\ Stacked'
BY DEF InOrder, Stacked

LEMMA UpgradeCharmKeeps ==
  ASSUME Typed, Typed', Rollout, NEW u \in Units, UpgradeCharm(u)
  PROVE  Rollout' /\ ~Done(u) /\ ~Done(u)'
<1>1. stack # <<>>
  <2>1. ~Done(u) /\ ~Refused(u)
    BY DEF UpgradeCharm, Done, Refused
  <2>2. u < Len(stack)
    BY <2>1 DEF Rollout, Stacked, Units
  <2> QED BY <2>2 DEF Units
<1>2. /\ \E s \in {"failed", "upgrading"} : state' = [state EXCEPT ![u] = s]
      /\ stack' = stack /\ UNCHANGED <<pods, spent>>
  BY <1>1 DEF UpgradeCharm, Written, With
<1>3. \A v \in Units : "upgrade_charm" \in pending'[v] <=> "upgrade_charm" \in pending[v] /\ v # u
  BY WrittenEvents DEF UpgradeCharm
<1>4. rev[u] = target /\ "upgrade_charm" \in pending[u]
  BY DEF Rollout, Reported, UpgradeCharm
<1>5. Reported'
  BY <1>2, <1>3, <1>4 DEF Rollout, Reported, Typed, pods
<1>6. \A v \in Units : (Done(v) => Done(v)') /\ (Refused(v) => Refused(v)')
  BY <1>2, <1>3, <1>4 DEF Done, Refused, Typed, pods
<1>7. ~Done(u) /\ ~Done(u)'
  BY <1>2, <1>4 DEF Done, Typed
<1> QED BY <1>2, <1>5, <1>6, <1>7, Steady DEF Rollout, pods

\* How u may leave its state, and others theirs, when u has handled an event.
LEMMA PoppedAreDone ==
  ASSUME Typed, Rollout, NEW u \in Units, NEW st \in [Units -> ToSet(States)],
         \A v \in Units \ {u} : st[v] = state[v]
  PROVE  \E k \in 0 .. Len(stack) :
           /\ OnUpgradeChanged(u, st, stack).stack = SubSeq(Full, 1, k)
           /\ \A w \in Units : w >= k =>
                \/ Done(w) \/ Refused(w)
                \/ w = u /\ st[u] = "completed"
<1>1. Len(stack) \in 0 .. N /\ stack = SubSeq(Full, 1, Len(stack))
  BY DEF Rollout, Stacked
<1>2. PICK k \in 0 .. Len(stack) :
        /\ OnUpgradeChanged(u, st, stack).stack = SubSeq(Full, 1, k)
        /\ \A w \in Units : k <= w /\ w < Len(stack) => st[w] = "completed"
  BY <1>1, ChangedStack
<1>3. ASSUME NEW w \in Units, w >= k
      PROVE  \/ Done(w) \/ Refused(w)
             \/ w = u /\ st[u] = "completed"
  <2>1. CASE w < Len(stack)
    <3>1. st[w] = "completed"
      BY <1>2, <1>3, <2>1
    <3> QED BY <3>1 DEF Rollout, Reported, Done
  <2>2. CASE w >= Len(stack)
    BY <2>2 DEF Rollout, Stacked
  <2> QED BY <1>1, <2>1, <2>2 DEF Units
<1> QED BY <1>2, <1>3

\* A step of u after which u is done, or refused: the others stay as they are, and
\* those popped had completed.
LEMMA ProgressKeeps ==
  ASSUME Typed, Typed', Rollout, NEW u \in Units,
         UNCHANGED <<target, rev, sick>>,
         spent'["refusals"] >= spent["refusals"],
         \A v \in Units : "upgrade_charm" \in pending'[v] <=> "upgrade_charm" \in pending[v],
         \A v \in Units \ {u} : state'[v] = state[v],
         \A v \in Units : Done(v) => Done(v)',
         rev[u] = target, Done(u)' \/ Refused(u)',
         NEW k \in 0 .. Len(stack), stack' = SubSeq(Full, 1, k),
         \A w \in Units : w >= k => w = u \/ Done(w) \/ Refused(w),
         \/ partition' = partition
         \/ Done(u)' /\ u > 0 /\ partition' = u - 1
  PROVE  Rollout'
<1>1. Reported'
  BY DEF Rollout, Reported, Typed, Done, Refused
<1>2. InOrder'
  <2> SUFFICES ASSUME NEW w \in Units, NEW v \in Units, v > w,
                      rev[w] = target \/ partition' = w
               PROVE  Done(v)'
    BY DEF InOrder
  <2>1. CASE rev[w] = target \/ partition' = partition
    BY <2>1 DEF Rollout, InOrder
  <2>2. CASE Done(u)' /\ u > 0 /\ partition' = u - 1
    <3>1. CASE rev[w] = target
      BY <3>1, <2>1
    <3>2. CASE w = u - 1
      <4>1. v = u \/ v > u
        BY <3>2 DEF Units
      <4> QED BY <4>1, <2>2 DEF Rollout, InOrder
    <3> QED BY <2>2, <3>1, <3>2
  <2> QED BY <2>1, <2>2
<1>3. Stacked'
  <2>1. k \in 0 .. N
    BY UpgradeAssumption DEF Rollout, Stacked
  <2>2. Len(stack') = k /\ stack' = SubSeq(Full, 1, Len(stack'))
    BY <2>1, LowerUnits
  <2>3. partition' \in Units
    <3>1. partition \in Units
      BY DEF Rollout, Stacked
    <3>2. u > 0 => u - 1 \in Units
      BY UpgradeAssumption DEF Units
    <3> QED BY <3>1, <3>2
  <2>4. \A w \in Units \ {u} : Refused(w) => Refused(w)'
    <3>1. spent["refusals"] \in Nat /\ spent'["refusals"] \in Nat
      BY DEF Typed, Disturbances
    <3>2. spent["refusals"] > 0 => spent'["refusals"] > 0
      BY <3>1
    <3> QED BY <3>2 DEF Refused
  <2> QED BY <2>1, <2>2, <2>3, <2>4 DEF Stacked
<1> QED BY <1>1, <1>2, <1>3 DEF Rollout

\* pebble-ready of a unit that upgrades.
LEMMA CompletedUnit ==
  ASSUME Typed, Rollout, NEW u \in Units, Completed(u)
  PROVE  /\ state[u] = "upgrading" /\ rev[u] = target /\ "upgrade_charm" \notin pending[u]
         /\ AfterCompletion(u).state \in [Units -> ToSet(States)]
         /\ \A v \in Units \ {u} : AfterCompletion(u).state[v] = state[v]
         /\ AfterCompletion(u).state[u] \in {"idle", "completed"}
         /\ \E k \in 0 .. Len(stack) :
              /\ AfterCompletion(u).stack = SubSeq(Full, 1, k)
              /\ \A w \in Units : w >= k => w = u \/ Done(w) \/ Refused(w)
<1> DEFINE st == [state EXCEPT ![u] = "completed"]
<1>1. state[u] = "upgrading" /\ rev[u] = target /\ "upgrade_charm" \notin pending[u]
  BY DEF Completed, Rollout, Reported
<1>2. /\ st \in [Units -> ToSet(States)]
      /\ \A v \in Units \ {u} : st[v] = state[v]
      /\ st[u] = "completed"
  BY StatesSet DEF Typed
<1>3. [st EXCEPT ![u] = "idle"] \in [Units -> ToSet(States)]
  BY <1>2, StatesSet
<1>4. \/ OnUpgradeChanged(u, st, stack).state = st
      \/ OnUpgradeChanged(u, st, stack).state = [st EXCEPT ![u] = "idle"]
  BY ChangedState
<1>5. \E k \in 0 .. Len(stack) :
        /\ OnUpgradeChanged(u, st, stack).stack = SubSeq(Full, 1, k)
        /\ \A w \in Units : w >= k => w = u \/ Done(w) \/ Refused(w)
  BY <1>2, PoppedAreDone
<1>6. With(st, stack).state = st /\ With(st, stack).stack = stack
  BY DEF With
<1>7. Len(stack) \in 0 .. Len(stack) /\ stack = SubSeq(Full, 1, Len(stack))
      /\ \A w \in Units : w >= Len(stack) => Done(w) \/ Refused(w)
  BY DEF Rollout, Stacked
<1>8. AfterCompletion(u) = OnUpgradeChanged(u, st, stack) \/ AfterCompletion(u) = With(st, stack)
  BY DEF AfterCompletion
<1> HIDE DEF st
<1> QED BY <1>1, <1>2, <1>3, <1>4, <1>5, <1>6, <1>7, <1>8

LEMMA PebbleReadyKeeps ==
  ASSUME Typed, Typed', Rollout, NEW u \in Units, PebbleReady(u)
  PROVE  Rollout'
<1>1. Completed(u) /\ Written(u, AfterCompletion(u), "pebble_ready")
      /\ UNCHANGED <<target, rev, sick>> /\ spent' = spent
      /\ partition' = IF u \in {0, N - 1} THEN partition ELSE u - 1
  BY DEF PebbleReady, SetPartition, NextPartition
<1>2. state' = AfterCompletion(u).state /\ stack' = AfterCompletion(u).stack
  BY <1>1 DEF Written
<1>3. \A v \in Units : "upgrade_charm" \in pending'[v] <=> "upgrade_charm" \in pending[v]
  BY <1>1, WrittenEvents
<1>4. /\ rev[u] = target /\ state[u] = "upgrading" /\ "upgrade_charm" \notin pending[u]
      /\ \A v \in Units \ {u} : state'[v] = state[v]
      /\ state'[u] \in {"idle", "completed"}
  BY <1>1, <1>2, CompletedUnit
<1>5. PICK k \in 0 .. Len(stack) :
        /\ stack' = SubSeq(Full, 1, k)
        /\ \A w \in Units : w >= k => w = u \/ Done(w) \/ Refused(w)
  BY <1>1, <1>2, CompletedUnit
<1>6. Done(u)' /\ \A v \in Units : Done(v) => Done(v)'
  BY <1>1, <1>3, <1>4 DEF Done
<1>7. partition' = partition \/ (Done(u)' /\ u > 0 /\ partition' = u - 1)
  BY <1>1, <1>6 DEF Units
<1>8. spent'["refusals"] >= spent["refusals"]
  BY <1>1 DEF Typed, Disturbances
<1> QED BY <1>1, <1>3, <1>4, <1>5, <1>6, <1>7, <1>8, ProgressKeeps

LEMMA PebbleReadyRefusedKeeps ==
  ASSUME Typed, Typed', Rollout, NEW u \in Units, PebbleReadyRefused(u)
  PROVE  Rollout'
<1>1. /\ Completed(u) /\ u \notin {0, N - 1} /\ UNCHANGED <<target, rev, sick, partition>>
      /\ Written(u, [AfterCompletion(u) EXCEPT !.state[u] = "failed"], "pebble_ready")
  BY DEF PebbleReadyRefused, pods
<1>2. state' = [AfterCompletion(u).state EXCEPT ![u] = "failed"]
      /\ stack' = AfterCompletion(u).stack
  BY <1>1 DEF Written, AfterCompletion, With, OnUpgradeChanged
<1>3. \A v \in Units : "upgrade_charm" \in pending'[v] <=> "upgrade_charm" \in pending[v]
  BY <1>1, WrittenEvents
<1>4. /\ rev[u] = target /\ state[u] = "upgrading" /\ "upgrade_charm" \notin pending[u]
      /\ \A v \in Units \ {u} : state'[v] = state[v]
      /\ state'[u] = "failed"
  BY <1>1, <1>2, CompletedUnit
<1>5. PICK k \in 0 .. Len(stack) :
        /\ stack' = SubSeq(Full, 1, k)
        /\ \A w \in Units : w >= k => w = u \/ Done(w) \/ Refused(w)
  BY <1>1, <1>2, CompletedUnit
<1>6. spent'["refusals"] = spent["refusals"] + 1 /\ spent["refusals"] \in Nat
  BY DEF PebbleReadyRefused, Spend, Typed, Disturbances
<1>7. Refused(u)' /\ \A v \in Units : Done(v) => Done(v)'
  BY <1>1, <1>3, <1>4, <1>6 DEF Done, Refused
<1>8. spent'["refusals"] >= spent["refusals"]
  BY <1>6
<1>9. UNCHANGED <<target, rev, sick>> /\ (Done(u)' \/ Refused(u)')
      /\ (partition' = partition \/ (Done(u)' /\ u > 0 /\ partition' = u - 1))
  BY <1>1, <1>7
<1> QED BY <1>3, <1>4, <1>5, <1>7, <1>8, <1>9, ProgressKeeps

LEMMA UpgradeChangedKeeps ==
  ASSUME Typed, Typed', Rollout, NEW u \in Units, UpgradeChanged(u)
  PROVE  Rollout'
<1>1. /\ Written(u, OnUpgradeChanged(u, state, stack), "upgrade_changed")
      /\ UNCHANGED <<target, rev, sick, partition, spent>>
  BY DEF UpgradeChanged, pods
<1>2. /\ state' = OnUpgradeChanged(u, state, stack).state
      /\ stack' = OnUpgradeChanged(u, state, stack).stack
  BY <1>1 DEF Written
<1>3. \A v \in Units : "upgrade_charm" \in pending'[v] <=> "upgrade_charm" \in pending[v]
  BY <1>1, WrittenEvents
<1>4. \/ state' = state
      \/ state' = [state EXCEPT ![u] = "idle"] /\ state[u] = "completed"
  BY <1>2, ChangedState
<1>5. \A v \in Units : (Done(v) => Done(v)') /\ (Refused(v) => Refused(v)')
  BY <1>1, <1>3, <1>4 DEF Done, Refused, Typed
<1>6. Reported'
  BY <1>1, <1>3, <1>4 DEF Rollout, Reported, Typed
<1>7. InOrder'
  BY <1>1, <1>5 DEF Rollout, InOrder
<1>8. Stacked'
  <2>1. PICK k \in 0 .. Len(stack) :
          /\ stack' = SubSeq(Full, 1, k)
          /\ \A w \in Units : w >= k =>
               \/ Done(w) \/ Refused(w)
               \/ w = u /\ state[u] = "completed"
    BY <1>2, PoppedAreDone DEF Typed
  <2>2. state[u] = "completed" => Done(u)
    BY DEF Rollout, Reported, Done
  <2>3. k \in 0 .. N
    BY UpgradeAssumption DEF Rollout, Stacked
  <2>4. Len(stack') = k /\ stack' = SubSeq(Full, 1, Len(stack'))
    BY <2>1, <2>3, LowerUnits
  <2> QED BY <1>1, <1>5, <2>1, <2>2, <2>3, <2>4 DEF Rollout, Stacked
<1> QED BY <1>6, <1>7, <1>8 DEF Rollout

LEMMA PreUpgradeCheckKeeps ==
  ASSUME Typed, Typed', Rollout, PreUpgradeCheck
  PROVE  Rollout'
<1>1. /\ Written(leader, With(state, Full), "none") /\ leader \in Units
      /\ UNCHANGED <<target, rev, sick>> /\ partition' = N - 1
  BY DEF PreUpgradeCheck, Prepares, SetPartition, Typed
<1>2. state' = state /\ stack' = Full
  BY <1>1 DEF Written, With
<1>3. \A v \in Units : "upgrade_charm" \in pending'[v] <=> "upgrade_charm" \in pending[v]
  BY <1>1, WrittenEvents
<1>4. Reported'
  BY <1>1, <1>2, <1>3 DEF Rollout, Reported
<1>5. InOrder'
  <2>1. \A v \in Units : Done(v) => Done(v)'
    BY <1>1, <1>2, <1>3 DEF Done
  <2> QED BY <1>1, <2>1, UpgradeAssumption DEF Rollout, InOrder, Units
<1>6. Stacked'
  BY <1>1, <1>2, WholeStack, UpgradeAssumption DEF Stacked, Units
<1> QED BY <1>4, <1>5, <1>6 DEF Rollout

\* The only number that resume-upgrade accepts is that of the second highest unit,
\* and the highest is done by then.
LEMMA ResumeUpgradeKeeps ==
  ASSUME Typed, Typed', Rollout, ResumeUpgrade
  PROVE  Rollout'
<1>1. /\ stack # <<>> /\ Len(stack) = N - 1 /\ partition' = Last(stack)
      /\ UNCHANGED <<state, stack, target, rev, sick, pending>>
  BY DEF ResumeUpgrade, SetPartition, relation
<1>2. Len(stack) \in 1 .. N /\ Len(stack) = N - 1
  <2>1. stack = SubSeq(Full, 1, Len(stack)) /\ Len(stack) \in 0 .. N
    BY DEF Rollout, Stacked
  <2>2. Len(stack) # 0
    BY <1>1, <2>1, SubSeqEmpty
  <2> QED BY <1>1, <2>1, <2>2
<1>3. Last(stack) = N - 2
  <2>1. stack = [i \in 1 .. Len(stack) |-> i - 1]
    BY <1>2, LowerUnits DEF Rollout, Stacked
  <2> QED BY <1>2, <2>1, UpgradeAssumption DEF Last
<1>4. Done(N - 1) /\ N - 1 \in Units /\ N - 2 \in Units
  <2>1. N - 1 \in Units /\ N - 2 \in Units /\ N - 1 >= Len(stack)
    BY <1>2, UpgradeAssumption DEF Units
  <2>2. ~Refused(N - 1)
    BY DEF Refused
  <2> QED BY <2>1, <2>2 DEF Rollout, Stacked
<1>5. \A v \in Units : (Done(v) => Done(v)') /\ (Refused(v) => Refused(v)')
  <2>1. spent'["refusals"] = spent["refusals"]
    <3>1. CASE partition = N - 1
      BY <3>1 DEF ResumeUpgrade
    <3>2. CASE partition # N - 1
      <4>1. spent' = [spent EXCEPT !["resumes"] = @ + 1]
        BY <3>2 DEF ResumeUpgrade, Spend
      <4>2. DOMAIN spent = Disturbances /\ "refusals" \in Disturbances
        BY DEF Typed, Disturbances
      <4> QED BY <4>1, <4>2
    <3> QED BY <3>1, <3>2
  <2>2. \A v \in Units : Done(v) => Done(v)'
    BY <1>1 DEF Done
  <2>3. \A v \in Units : Refused(v) => Refused(v)'
    BY <1>1, <2>1 DEF Refused
  <2> QED BY <2>2, <2>3
<1>6. Reported'
  BY <1>1 DEF Rollout, Reported
<1>7. InOrder'
  <2> SUFFICES ASSUME NEW w \in Units, NEW v \in Units, v > w,
                      rev[w] = target \/ w = N - 2
               PROVE  Done(v)
    BY <1>1, <1>3, <1>5 DEF InOrder
  <2>1. w = N - 2 => v = N - 1
    BY UpgradeAssumption DEF Units
  <2> QED BY <2>1, <1>4 DEF Rollout, InOrder
<1>8. Stacked'
  BY <1>1, <1>3, <1>4, <1>5 DEF Rollout, Stacked
<1> QED BY <1>6, <1>7, <1>8 DEF Rollout

LEMMA ReplacePodKeeps ==
  ASSUME Typed, Typed', Rollout, NEW u \in Units, ReplacePod(u)
  PROVE  Rollout' /\ \A v \in Units : v > u => Done(v)
<1>1. /\ u >= partition /\ rev[u] # target /\ \A v \in Units : v > u => rev[v] = target
      /\ rev' = [rev EXCEPT ![u] = target]
      /\ pending' = [pending EXCEPT ![u] = @ \union {"upgrade_charm", "pebble_ready"}]
      /\ UNCHANGED <<state, stack, target, partition>>
  BY DEF ReplacePod, relation
<1>2. ~Done(u) /\ ~Refused(u)
  BY <1>1 DEF Done, Refused
<1>3. partition \in Units
  BY DEF Rollout, Stacked
<1>4. ASSUME NEW v \in Units, v > u
      PROVE  Done(v)
  <2>1. v > partition
    BY <1>1, <1>3, <1>4 DEF Units
  <2> QED BY <1>3, <2>1 DEF Rollout, InOrder
<1>5. ASSUME NEW v \in Units \ {u}
      PROVE  rev'[v] = rev[v] /\ pending'[v] = pending[v]
  BY <1>1 DEF Typed
<1>6. rev'[u] = target /\ "upgrade_charm" \in pending'[u]
  BY <1>1 DEF Typed
<1>7. ASSUME NEW w \in Units, NEW v \in Units, v > w, rev[w] = target \/ partition = w
      PROVE  v # u
  BY <1>2, <1>7 DEF Rollout, InOrder
<1>8. spent'["refusals"] >= spent["refusals"]
  BY DEF ReplacePod, Spend, Typed, Disturbances
<1>9. \A v \in Units \ {u} : (Done(v) => Done(v)') /\ (Refused(v) => Refused(v)')
  BY <1>1, <1>5, <1>8 DEF Done, Refused, Typed, Disturbances
<1>10. Reported'
  <2>1. state[u] # "completed"
    BY <1>1 DEF Rollout, Reported
  <2> QED BY <1>1, <1>5, <1>6, <2>1 DEF Rollout, Reported
<1>11. InOrder'
  <2> SUFFICES ASSUME NEW w \in Units, NEW v \in Units, v > w,
                      rev'[w] = target \/ partition = w
               PROVE  Done(v)'
    BY <1>1 DEF InOrder
  <2>1. CASE rev[w] = target \/ partition = w
    BY <2>1, <1>7, <1>9 DEF Rollout, InOrder
  <2>2. CASE w = u
    BY <2>2, <1>4, <1>9 DEF Units
  <2> QED BY <2>1, <2>2, <1>5
<1>12. Stacked'
  <2>1. u < Len(stack)
    BY <1>2 DEF Rollout, Stacked, Units
  <2> QED BY <1>1, <1>9, <2>1 DEF Rollout, Stacked, Units
<1> QED BY <1>4, <1>10, <1>11, <1>12 DEF Rollout

LEMMA RolloutStep ==
  ASSUME Typed, Typed', Rollout, [Next]_vars, ~givenUp, ~givenUp', target # "old"
  PROVE  target' = target /\ Rollout'
<1>1. ASSUME NEW u \in Units, Hooks(u)
      PROVE  target' = target /\ Rollout'
  <2>1. CASE UpgradeCharm(u)
    BY <2>1, UpgradeCharmKeeps DEF UpgradeCharm, pods
  <2>2. CASE PebbleReadyIgnored(u)
    <3>1. /\ UNCHANGED <<relation, pods, spent>>
          /\ \A v \in Units : "upgrade_charm" \in pending'[v] <=> "upgrade_charm" \in pending[v]
      BY <2>2 DEF PebbleReadyIgnored, Typed
    <3>2. \A v \in Units : Done(v)' = Done(v) /\ Refused(v)' = Refused(v)
      BY <3>1 DEF Done, Refused, relation, pods
    <3>3. Reported'
      BY <3>1 DEF Rollout, Reported, relation, pods
    <3> QED BY <3>1, <3>2, <3>3, Steady DEF Rollout, relation, pods
  <2>3. CASE PebbleReady(u)
    BY <2>3, PebbleReadyKeeps DEF PebbleReady
  <2>4. CASE PebbleReadyRefused(u)
    BY <2>4, PebbleReadyRefusedKeeps DEF PebbleReadyRefused, pods
  <2>5. CASE UpgradeChanged(u)
    BY <2>5, UpgradeChangedKeeps DEF UpgradeChanged, pods
  <2> QED BY <1>1, <2>1, <2>2, <2>3, <2>4, <2>5 DEF Hooks
<1>2. ASSUME Operator
      PROVE  target' = target /\ Rollout'
  <2>1. CASE PreUpgradeCheck
    BY <2>1, PreUpgradeCheckKeeps DEF PreUpgradeCheck
  <2>2. CASE ResumeUpgrade
    BY <2>2, ResumeUpgradeKeeps DEF ResumeUpgrade
  <2> QED BY <1>2, <2>1, <2>2 DEF Operator, PreUpgradeCheckAfterFailure, RollBack, Refresh
<1>3. ASSUME NEW u \in Units, ReplacePod(u)
      PROVE  target' = target /\ Rollout'
  BY <1>3, ReplacePodKeeps DEF ReplacePod
<1>4. ASSUME NEW u \in Units, ContainerRestart(u) \/ Elect(u) \/ UNCHANGED vars
      PROVE  target' = target /\ Rollout'
  <2>1. /\ UNCHANGED <<relation, pods>>
        /\ \A v \in Units : "upgrade_charm" \in pending'[v] <=> "upgrade_charm" \in pending[v]
    BY <1>4 DEF ContainerRestart, Elect, vars, Typed
  <2>2. spent'["refusals"] >= spent["refusals"]
    BY <1>4 DEF ContainerRestart, Elect, vars, Spend, Typed, Disturbances
  <2>3. \A v \in Units : (Done(v) => Done(v)') /\ (Refused(v) => Refused(v)')
    BY <2>1, <2>2 DEF Done, Refused, relation, pods, Typed, Disturbances
  <2>4. Reported'
    BY <2>1 DEF Rollout, Reported, relation, pods
  <2> QED BY <2>1, <2>3, <2>4, Steady DEF Rollout, relation, pods
<1>5. leader \in Units
  BY DEF Typed
<1> QED BY <1>1, <1>2, <1>3, <1>4, <1>5 DEF Next

LEMMA PreparedStep ==
  ASSUME Typed, Typed', Prepared, [Next]_vars, ~givenUp, ~givenUp', target = "old"
  PROVE  Prepared' /\ (target' # "old" => Rollout' /\ \A u \in Units : rev'[u] # target')
<1> DEFINE Waiting == \A u \in Units :
             rev[u] = "old" /\ state[u] = "idle" /\ "upgrade_charm" \notin pending[u]
<1>1. Waiting /\ (stack = <<>> \/ (stack = Full /\ partition = N - 1))
  BY DEF Prepared
<1>2. Full # <<>> /\ Len(Full) = N
  BY WholeStack
<1>3. ASSUME NEW u \in Units, Hooks(u)
      PROVE  target' = "old" /\ Prepared'
  <2>1. ~UpgradeCharm(u) /\ ~PebbleReady(u) /\ ~PebbleReadyRefused(u)
    BY <1>1 DEF UpgradeCharm, PebbleReady, PebbleReadyRefused, Completed
  <2>2. CASE PebbleReadyIgnored(u)
    BY <2>2, <1>1 DEF PebbleReadyIgnored, Prepared, relation, pods, Typed
  <2>3. CASE UpgradeChanged(u)
    <3>1. state' = state
      BY <2>3, <1>1, ChangedState DEF UpgradeChanged, Written
    <3>2. stack' = stack
      <4>1. PICK n \in 0 .. N : stack = SubSeq(Full, 1, n)
        <5>1. SubSeq(Full, 1, 0) = <<>>
          BY SubSeqEmpty
        <5>2. 0 \in 0 .. N /\ N \in 0 .. N
          BY UpgradeAssumption
        <5> QED BY <5>1, <5>2, <1>1, WholeStack
      <4>2. PICK k \in 0 .. n :
              /\ stack' = SubSeq(Full, 1, k)
              /\ \A w \in Units : k <= w /\ w < n => state[w] = "completed"
        BY <2>3, <4>1, ChangedStack DEF UpgradeChanged, Written
      <4>3. k = n
        <5>1. k < n => k \in Units
          BY UpgradeAssumption DEF Units
        <5> QED BY <5>1, <4>2, <1>1
      <4> QED BY <4>1, <4>2, <4>3
    <3>3. \A v \in Units : "upgrade_charm" \in pending'[v] <=> "upgrade_charm" \in pending[v]
      BY <2>3, WrittenEvents DEF UpgradeChanged
    <3> QED BY <2>3, <3>1, <3>2, <3>3, <1>1 DEF UpgradeChanged, Prepared, pods
  <2> QED BY <1>3, <2>1, <2>2, <2>3 DEF Hooks
<1>4. ASSUME PreUpgradeCheck
      PROVE  target' = "old" /\ Prepared'
  <2>1. /\ Written(leader, With(state, Full), "none") /\ leader \in Units
        /\ UNCHANGED <<target, rev>> /\ partition' = N - 1
    BY <1>4 DEF PreUpgradeCheck, Prepares, SetPartition, Typed
  <2>2. state' = state /\ stack' = Full
    BY <2>1 DEF Written, With
  <2>3. \A v \in Units : "upgrade_charm" \in pending'[v] <=> "upgrade_charm" \in pending[v]
    BY <2>1, WrittenEvents
  <2> QED BY <2>1, <2>2, <2>3, <1>1 DEF Prepared
<1>5. ~ResumeUpgrade
  BY <1>1, <1>2 DEF ResumeUpgrade
<1>6. ASSUME NEW r \in Revisions \ {"old"}, Refresh(r)
      PROVE  Prepared' /\ Rollout' /\ \A u \in Units : rev'[u] # target'
  <2>1. /\ stack = Full /\ partition = N - 1 /\ target' = r
        /\ UNCHANGED <<state, stack, partition, rev, pending>>
    BY <1>1, <1>2, <1>6 DEF Refresh, relation
  <2>2. Reported'
    BY <2>1, <1>1, <1>6 DEF Reported
  <2>3. InOrder'
    BY <2>1, <1>1, <1>6, UpgradeAssumption DEF InOrder, Units
  <2>4. Stacked'
    <3> QED BY WholeStack, <2>1, <1>2, UpgradeAssumption DEF Stacked, Units
  <2>5. Prepared' /\ \A u \in Units : rev'[u] # target'
    BY <2>1, <1>1, <1>6 DEF Prepared
  <2> QED BY <2>2, <2>3, <2>4, <2>5 DEF Rollout
<1>7. ASSUME NEW u \in Units
      PROVE  ~ReplacePod(u)
  BY <1>1 DEF ReplacePod
<1>8. ASSUME NEW u \in Units, ContainerRestart(u) \/ Elect(u) \/ UNCHANGED vars
      PROVE  target' = "old" /\ Prepared'
  <2>1. /\ UNCHANGED <<relation, pods>>
        /\ \A v \in Units : "upgrade_charm" \in pending'[v] <=> "upgrade_charm" \in pending[v]
    BY <1>8 DEF ContainerRestart, Elect, vars, Typed
  <2> QED BY <2>1, <1>1 DEF Prepared, relation, pods
<1>9. leader \in Units
  BY DEF Typed
<1> QED
  <2>1. CASE Operator
    BY <2>1, <1>4, <1>5, <1>6 DEF Operator, PreUpgradeCheckAfterFailure, RollBack
  <2> QED BY <2>1, <1>3, <1>7, <1>8, <1>9 DEF Next

----------------------------------------------------------------------------
(* Theorems *)

LEMMA IInvInit == Init => IInv
<1> SUFFICES ASSUME Init PROVE IInv
  OBVIOUS
<1>1. Typed
  BY StatesSet DEF Init, Typed, Revisions, Events
<1>2. Prepared
  BY DEF Init, Prepared
<1> QED BY <1>1, <1>2 DEF Init, IInv

LEMMA IInvStep == IInv /\ [Next]_vars => IInv'
<1> SUFFICES ASSUME IInv, [Next]_vars PROVE IInv'
  OBVIOUS
<1>1. Typed /\ Typed'
  BY TypedStep DEF IInv
<1>2. givenUp => givenUp'
  BY DEF Next, vars, Operator, Hooks, UpgradeCharm, PebbleReadyIgnored, PebbleReady,
         PebbleReadyRefused, UpgradeChanged, PreUpgradeCheck, PreUpgradeCheckAfterFailure,
         ResumeUpgrade, RollBack, Refresh, ReplacePod, ContainerRestart, Elect
<1>3. CASE givenUp'
  BY <1>1, <1>3 DEF IInv
<1>4. CASE ~givenUp' /\ target = "old"
  BY <1>1, <1>2, <1>4, PreparedStep DEF IInv
<1>5. CASE ~givenUp' /\ target # "old"
  <2>1. target' = target /\ Rollout'
    BY <1>1, <1>2, <1>5, RolloutStep DEF IInv
  <2> QED BY <1>1, <1>5, <2>1 DEF IInv, Prepared
<1> QED BY <1>3, <1>4, <1>5

THEOREM RolloutInvariant == Spec => []IInv
BY IInvInit, IInvStep, PTL DEF Spec

\* A unit leaves the stack only after it completed, and the leader takes them in turn,
\* whoever leads and whatever is refused or checked again (_on_upgrade_changed and
\* upgrade.py's pre_upgrade_check).
THEOREM StackHoldsTheRest == Spec => []PoppedCompleted
<1>1. IInv => PoppedCompleted
  <2> SUFFICES ASSUME IInv, stack # <<>>, ~givenUp
               PROVE  /\ stack = SubSeq(Full, 1, Len(stack))
                      /\ \A u \in Units \ ToSet(stack) :
                           u \in Begun /\ (u \in Upgrading =>
                             state[u] = "failed" /\ spent["refusals"] > 0)
    BY DEF PoppedCompleted
  <2>1. CASE target = "old"
    <3>1. stack = Full
      BY <2>1 DEF IInv, Prepared
    <3> QED BY <3>1, WholeStack
  <2>2. CASE target # "old"
    <3>1. Rollout
      BY <2>2 DEF IInv
    <3>2. stack = SubSeq(Full, 1, Len(stack)) /\ Len(stack) \in 0 .. N
      BY <3>1 DEF Rollout, Stacked
    <3>3. ASSUME NEW u \in Units \ ToSet(stack)
          PROVE  Done(u) \/ Refused(u)
      <4>1. ToSet(stack) = 0 .. Len(stack) - 1
        BY <3>2, LowerUnits
      <4>2. u >= Len(stack)
        BY <3>2, <4>1 DEF Units
      <4> QED BY <3>1, <4>2 DEF Rollout, Stacked
    <3> QED BY <2>2, <3>2, <3>3 DEF Begun, Upgrading, Done, Refused
  <2> QED BY <2>1, <2>2
<1> QED BY <1>1, RolloutInvariant, PTL

\* What UpgradeOrder sees of a rollout.
LEMMA Mapped ==
  ASSUME Rollout, ~givenUp, target # "old"
  PROVE  /\ Begun = {u \in Units : rev[u] = target}
         /\ Upgrading = {u \in Units : rev[u] = target /\ ~Done(u)}
BY DEF Begun, Upgrading, Rollout, Reported, Done

\* Every step of the upgrade begins the next unit in order, finishes the one that works
\* on a healthy workload, gives up, or is none of UpgradeOrder's business.
LEMMA OrderStep == IInv /\ IInv' /\ [Next]_vars => [Order!Next]_(Order!vars)
<1> SUFFICES ASSUME IInv, IInv', [Next]_vars
             PROVE  [Order!Next]_(Order!vars)
  OBVIOUS
<1> DEFINE Stutters ==
             Begun' = Begun /\ Upgrading' = Upgrading /\ (Begun \ sick)' = Begun \ sick
<1>1. Stutters => [Order!Next]_(Order!vars)
  BY DEF Order!vars
<1>2. Typed /\ Typed' /\ leader \in Units
  BY DEF IInv, Typed
<1>3. CASE givenUp'
  <2>1. Begun' = {} /\ Upgrading' = {}
    BY <1>3 DEF Begun, Upgrading
  <2> QED BY <2>1 DEF Order!Next, Order!GiveUp
<1>4. ~givenUp' => ~givenUp
  BY DEF Next, vars, Operator, Hooks, UpgradeCharm, PebbleReadyIgnored, PebbleReady,
         PebbleReadyRefused, UpgradeChanged, PreUpgradeCheck, PreUpgradeCheckAfterFailure,
         ResumeUpgrade, RollBack, Refresh, ReplacePod, ContainerRestart, Elect
<1>5. CASE ~givenUp' /\ target = "old"
  <2>1. target' = "old" \/ \A u \in Units : rev'[u] # target'
    BY <1>2, <1>4, <1>5, PreparedStep DEF IInv
  <2>2. Begun = {} /\ Begun' = {}
    BY <1>5, <2>1 DEF Begun
  <2>3. Upgrading = {} /\ Upgrading' = {}
    BY <2>2 DEF Upgrading
  <2> QED BY <1>1, <2>2, <2>3
<1>6. CASE ~givenUp' /\ target # "old"
  <2>1. target' = target /\ Rollout /\ Rollout'
    BY <1>2, <1>4, <1>6, RolloutStep DEF IInv
  <2>2. /\ Begun = {u \in Units : rev[u] = target}
        /\ Upgrading = {u \in Units : rev[u] = target /\ ~Done(u)}
    BY <1>4, <1>6, <2>1, Mapped
  <2>3. /\ Begun' = {u \in Units : rev'[u] = target}
        /\ Upgrading' = {u \in Units : rev'[u] = target /\ ~Done(u)'}
    BY <1>6, <2>1 DEF Begun, Upgrading, Rollout, Reported, Done
  <2>4. rev' = rev /\ sick' = sick /\ (\A u \in Units : Done(u)' = Done(u)) => Stutters
    BY <2>2, <2>3
  <2> HIDE DEF Stutters
  <2>5. ASSUME NEW u \in Units, Hooks(u)
        PROVE  [Order!Next]_(Order!vars)
    <3>1. CASE UpgradeCharm(u)
      <4>1. ~Done(u) /\ ~Done(u)'
        BY <1>2, <2>1, <3>1, UpgradeCharmKeeps
      <4>2. \A v \in Units \ {u} : state'[v] = state[v]
        BY <1>2, <3>1 DEF UpgradeCharm, Written, With, Typed
      <4>3. \A v \in Units \ {u} :
              "upgrade_charm" \in pending'[v] <=> "upgrade_charm" \in pending[v]
        BY <1>2, <3>1, WrittenEvents DEF UpgradeCharm
      <4>4. rev' = rev /\ sick' = sick
        BY <3>1 DEF UpgradeCharm, pods
      <4>5. \A v \in Units : Done(v)' = Done(v)
        BY <2>1, <4>1, <4>2, <4>3, <4>4 DEF Done
      <4> QED BY <1>1, <2>4, <4>4, <4>5
    <3>2. CASE PebbleReadyIgnored(u)
      <4>1. \A v \in Units : Done(v)' = Done(v)
        BY <1>2, <3>2 DEF PebbleReadyIgnored, Done, relation, pods, Typed
      <4> QED BY <1>1, <2>4, <3>2, <4>1 DEF PebbleReadyIgnored, pods
    <3>3. CASE PebbleReady(u)
      <4>1. Completed(u) /\ UNCHANGED <<rev, sick>>
            /\ Written(u, AfterCompletion(u), "pebble_ready")
        BY <3>3 DEF PebbleReady
      <4>2. /\ rev[u] = target /\ state[u] = "upgrading" /\ "upgrade_charm" \notin pending[u]
            /\ \A v \in Units \ {u} : state'[v] = state[v]
            /\ state'[u] \in {"idle", "completed"}
        BY <1>2, <2>1, <4>1, CompletedUnit DEF Written
      <4>3. \A v \in Units : "upgrade_charm" \in pending'[v] <=> "upgrade_charm" \in pending[v]
        BY <1>2, <4>1, WrittenEvents
      <4>4. ~Done(u) /\ Done(u)' /\ \A v \in Units \ {u} : Done(v)' = Done(v)
        BY <2>1, <4>1, <4>2, <4>3 DEF Done
      <4>5. \A v \in Units \ {u} : rev[v] = target => Done(v)
        <5> SUFFICES ASSUME NEW v \in Units \ {u}, rev[v] = target
                     PROVE  Done(v)
          OBVIOUS
        <5>1. v > u \/ u > v
          BY DEF Units
        <5>2. ~(u > v)
          BY <2>1, <4>4 DEF Rollout, InOrder
        <5> QED BY <2>1, <4>2, <5>1, <5>2 DEF Rollout, InOrder
      <4>6. Upgrading = {u} /\ Upgrading' = {}
        BY <2>2, <2>3, <4>1, <4>2, <4>4, <4>5
      <4>7. Begun' = Begun /\ u \in Begun /\ u \notin sick
        BY <2>2, <2>3, <4>1, <4>2 DEF Completed, Checked
      <4>8. Order!Finish(u)
        BY <4>1, <4>6, <4>7 DEF Order!Finish
      <4> QED BY <4>8 DEF Order!Next, Order!Units, Units
    <3>4. CASE PebbleReadyRefused(u)
      <4>1. /\ Completed(u) /\ UNCHANGED <<rev, sick>>
            /\ Written(u, [AfterCompletion(u) EXCEPT !.state[u] = "failed"], "pebble_ready")
        BY <3>4 DEF PebbleReadyRefused, pods
      <4>2. state' = [AfterCompletion(u).state EXCEPT ![u] = "failed"]
        BY <4>1 DEF Written, AfterCompletion, With, OnUpgradeChanged
      <4>3. /\ state[u] = "upgrading" /\ state'[u] = "failed"
            /\ \A v \in Units \ {u} : state'[v] = state[v]
        BY <1>2, <2>1, <4>1, <4>2, CompletedUnit
      <4>4. \A v \in Units : "upgrade_charm" \in pending'[v] <=> "upgrade_charm" \in pending[v]
        BY <1>2, <4>1, WrittenEvents
      <4>5. \A v \in Units : Done(v)' = Done(v)
        BY <2>1, <4>1, <4>3, <4>4 DEF Done
      <4> QED BY <1>1, <2>4, <4>1, <4>5
    <3>5. CASE UpgradeChanged(u)
      <4>1. /\ UNCHANGED <<rev, sick>>
            /\ Written(u, OnUpgradeChanged(u, state, stack), "upgrade_changed")
        BY <3>5 DEF UpgradeChanged, pods
      <4>2. \/ state' = state
            \/ state' = [state EXCEPT ![u] = "idle"] /\ state[u] = "completed"
        BY <4>1, ChangedState DEF Written
      <4>3. \A v \in Units : "upgrade_charm" \in pending'[v] <=> "upgrade_charm" \in pending[v]
        BY <1>2, <4>1, WrittenEvents
      <4>4. \A v \in Units : Done(v)' = Done(v)
        BY <1>2, <2>1, <4>1, <4>2, <4>3 DEF Done, Typed
      <4> QED BY <1>1, <2>4, <4>1, <4>4
    <3> QED BY <2>5, <3>1, <3>2, <3>3, <3>4, <3>5 DEF Hooks
  <2>6. ASSUME NEW u \in Units, ReplacePod(u)
        PROVE  [Order!Next]_(Order!vars)
    <3>1. /\ rev[u] # target /\ rev' = [rev EXCEPT ![u] = target]
          /\ pending' = [pending EXCEPT ![u] = @ \union {"upgrade_charm", "pebble_ready"}]
          /\ state' = state /\ (sick' = sick \ {u} \/ sick' = sick \union {u})
      BY <2>6 DEF ReplacePod, relation
    <3>2. \A v \in Units : v > u => Done(v)
      BY <1>2, <2>1, <2>6, ReplacePodKeeps
    <3>3. \A v \in Units : u > v => rev[v] # target
      BY <2>1, <3>1 DEF Rollout, InOrder, Done
    <3>4. ~Done(u)' /\ ~Done(u) /\ \A v \in Units \ {u} : Done(v)' = Done(v)
      BY <1>2, <2>1, <3>1 DEF Done, Typed
    <3>5. Upgrading = {}
      BY <2>2, <3>1, <3>2, <3>3 DEF Units
    <3>6. Begun' = Begun \union {u} /\ u \notin Begun
      BY <1>2, <2>2, <2>3, <3>1 DEF Typed
    <3>7. Upgrading' = {u}
      <4>1. \A v \in Units \ {u} : rev'[v] = target => Done(v)'
        BY <1>2, <2>2, <3>1, <3>4, <3>5 DEF Typed
      <4>2. rev'[u] = target
        BY <1>2, <3>1 DEF Typed
      <4> QED BY <2>3, <3>4, <4>1, <4>2
    <3>8. (Begun \ Upgrading)' = Begun \ Upgrading
      BY <3>5, <3>6, <3>7
    <3>9. \/ (Begun \ sick)' = Begun \ sick
          \/ (Begun \ sick)' = (Begun \ sick) \union {u}
      BY <3>1, <3>6
    <3>10. \A v \in Units : v > u => v \in Begun \ Upgrading
      BY <2>2, <3>2, <3>5 DEF Done
    <3>11. Order!Begin(u)
      BY <3>5, <3>6, <3>7, <3>8, <3>9, <3>10 DEF Order!Begin, Order!Units, Units
    <3> QED BY <3>11 DEF Order!Next, Order!Units, Units
  <2>7. ASSUME NEW u \in Units, ContainerRestart(u) \/ Elect(u) \/ UNCHANGED vars
        PROVE  [Order!Next]_(Order!vars)
    <3>1. /\ UNCHANGED <<relation, pods>>
          /\ \A v \in Units : "upgrade_charm" \in pending'[v] <=> "upgrade_charm" \in pending[v]
      BY <1>2, <2>7 DEF ContainerRestart, Elect, vars, Typed
    <3>2. \A v \in Units : Done(v)' = Done(v)
      BY <3>1 DEF Done, relation, pods
    <3> QED BY <1>1, <2>4, <3>1, <3>2 DEF pods
  <2>8. CASE PreUpgradeCheck
    <3>1. UNCHANGED <<rev, sick, state>> /\ Written(leader, With(state, Full), "none")
      BY <2>8 DEF PreUpgradeCheck, Written, With
    <3>2. \A v \in Units : "upgrade_charm" \in pending'[v] <=> "upgrade_charm" \in pending[v]
      BY <1>2, <3>1, WrittenEvents
    <3>3. \A v \in Units : Done(v)' = Done(v)
      BY <2>1, <3>1, <3>2 DEF Done
    <3> QED BY <1>1, <2>4, <3>1, <3>3
  <2>9. CASE ResumeUpgrade
    <3>1. UNCHANGED <<rev, sick, state, pending>>
      BY <2>9 DEF ResumeUpgrade, relation
    <3>2. \A v \in Units : Done(v)' = Done(v)
      BY <2>1, <3>1 DEF Done
    <3> QED BY <1>1, <2>4, <3>1, <3>2
  <2>10. ~PreUpgradeCheckAfterFailure /\ ~RollBack /\ \A r \in Revisions : ~Refresh(r)
    BY <1>4, <1>6 DEF PreUpgradeCheckAfterFailure, RollBack, Refresh
  <2>11. CASE Operator
    BY <2>8, <2>9, <2>10, <2>11 DEF Operator
  <2> QED BY <1>2, <2>5, <2>6, <2>7, <2>11 DEF Next
<1> QED BY <1>3, <1>5, <1>6

\* Units are upgraded one at a time, from the highest down, none before the one above is
\* healthy and has completed, whatever the disturbances, until the operator gives up.
THEOREM UpgradesInOrder == Spec => OneAtATime
<1>1. Init => Order!Init
  BY DEF Init, Order!Init, Begun, Upgrading
<1>2. QED
  BY <1>1, OrderStep, RolloutInvariant, PTL DEF Spec, OneAtATime, Order!Spec

\* A failed unit stops the rollout: no other pod is replaced until the operator gives
\* up (on_upgrade_changed returns early, and only a unit that completed moves the
\* partition).
THEOREM FailedUnitStops == Spec => FailureStops
<1>1. ASSUME IInv, [Next]_vars, NEW u \in Units, NEW v \in Units,
             state[v] = "failed", u # v, ~givenUp
      PROVE  rev'[u] = rev[u]
  <2>1. Typed /\ Typed'
    BY <1>1, TypedStep DEF IInv
  <2>2. target # "old" /\ Rollout
    BY <1>1 DEF IInv, Prepared
  <2>3. ASSUME NEW w \in Units, ReplacePod(w)
        PROVE  w = v
    <3>1. rev[w] # target /\ ~Done(v) /\ rev[v] = target
      BY <1>1, <2>2, <2>3 DEF ReplacePod, Done, Rollout, Reported
    <3>2. ~(v > w)
      BY <2>1, <2>2, <2>3, <3>1, ReplacePodKeeps
    <3>3. ~(w > v)
      BY <2>2, <3>1 DEF Rollout, InOrder, Done
    <3> QED BY <3>2, <3>3 DEF Units
  <2>4. CASE \E w \in Units : ReplacePod(w)
    BY <1>1, <2>1, <2>3, <2>4 DEF ReplacePod, Typed
  <2>5. CASE ~ \E w \in Units : ReplacePod(w)
    BY <1>1, <2>5 DEF Next, vars, pods, relation, Operator, Hooks, UpgradeCharm,
       PebbleReadyIgnored, PebbleReady, PebbleReadyRefused, UpgradeChanged,
       PreUpgradeCheck, PreUpgradeCheckAfterFailure, ResumeUpgrade, RollBack, Refresh,
       ContainerRestart, Elect
  <2> QED BY <2>4, <2>5
<1>2. IInv /\ [Next]_vars =>
        [\A u, v \in Units : state[v] = "failed" /\ u # v /\ ~givenUp => rev'[u] = rev[u]]_vars
  BY <1>1
<1> QED BY <1>2, RolloutInvariant, PTL DEF Spec, FailureStops
=============================================================================
