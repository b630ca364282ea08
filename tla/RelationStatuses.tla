-------------------------- MODULE RelationStatuses --------------------------
(***************************************************************************)
(* Statuses that the provider of a relation raises for its requirers:      *)
(* ProviderData and RequirerEventHandlers of data_interfaces.py.           *)
(*                                                                         *)
(* A hook is one step.  Simplifications: the messages of statuses are left *)
(* out, only codes are compared; the charm of a requirer keeps the set of  *)
(* codes it was told were raised and not told were resolved.               *)
(***************************************************************************)
EXTENDS Naturals

CONSTANTS
  Units,   \* of the requirer
  Codes,
  Budgets  \* the disturbances together stay within one of these budgets

Disturbances == {"calls", "failures"}

VARIABLES
  requested,    \* the requirer has requested the resource
  statuses,     \* codes in the databag of the provider
  subordinate,  \* the provider has set subordinated in the databag
  ready,        \* and a unit of it is ready
  stored,       \* stored[u]: codes in the data that unit u has seen
  active,       \* active[u]: codes of which its charm thinks that they are active
  toRequirer,   \* units with a relation-changed to come
  spent         \* disturbances so far

provider == <<requested, statuses, subordinate, ready>>
vars == <<provider, stored, active, toRequirer, spent>>

TypeOK ==
  /\ requested \in BOOLEAN /\ subordinate \in BOOLEAN /\ ready \in BOOLEAN
  /\ statuses \subseteq Codes
  /\ stored \in [Units -> SUBSET Codes] /\ active \in [Units -> SUBSET Codes]
  /\ toRequirer \subseteq Units
  /\ spent \in [Disturbances -> Nat]
  /\ (statuses # {} => requested)  \* PrematureDataAccessError

Init ==
  /\ requested = FALSE /\ statuses = {} /\ ready = FALSE
  /\ subordinate \in BOOLEAN
  /\ stored = [u \in Units |-> {}] /\ active = [u \in Units |-> {}]
  /\ toRequirer = {}
  /\ spent = [d \in Disturbances |-> 0]

Spend(d) ==
  /\ spent' = [spent EXCEPT ![d] = @ + 1]
  /\ \E budget \in Budgets : \A x \in Disturbances : spent'[x] <= budget[x]

----------------------------------------------------------------------------
(* The leader of the provider *)

Publish(codes) ==
  /\ requested /\ Spend("calls")
  /\ statuses' = codes
  /\ toRequirer' = IF codes # statuses THEN Units ELSE toRequirer
  /\ UNCHANGED <<requested, subordinate, ready, stored, active>>

RaiseStatus(code) == Publish(statuses \union {code})

\* A status that was never raised is not resolved.
ResolveStatus(code) == code \in statuses /\ Publish(statuses \ {code})

ClearStatuses == Publish({})

----------------------------------------------------------------------------
(* The units of the requirer *)

\* status-raised and status-resolved, for the difference to the data stored.
Emitted(u) ==
  active' = [active EXCEPT ![u] = (@ \union (statuses \ stored[u])) \ (stored[u] \ statuses)]

\* A subordinate that is not ready is not looked at, and the data not stored.
Skipped == subordinate /\ ~ready

\* Mutant: the data is stored before the difference is taken.
RelationChangedStored(u) ==
  /\ u \in toRequirer
  /\ toRequirer' = toRequirer \ {u}
  /\ stored' = IF Skipped THEN stored ELSE [stored EXCEPT ![u] = statuses]
  /\ active' = [active EXCEPT ![u] = @ \union (statuses \ stored[u])]
  /\ UNCHANGED <<provider, spent>>

RelationChanged(u) ==
  /\ u \in toRequirer
  /\ toRequirer' = toRequirer \ {u}
  /\ Emitted(u)
  /\ stored' = IF Skipped THEN stored ELSE [stored EXCEPT ![u] = statuses]
  /\ UNCHANGED <<provider, spent>>

\* The charm is told, and the hook fails.
RelationChangedFails(u) ==
  /\ u \in toRequirer
  /\ Spend("failures")
  /\ Emitted(u)
  /\ UNCHANGED <<provider, stored, toRequirer>>

----------------------------------------------------------------------------
(* The applications *)

\* The leader of the requirer requests the resource.
Request ==
  /\ ~requested /\ requested' = TRUE
  /\ toRequirer' = Units
  /\ UNCHANGED <<statuses, subordinate, ready, stored, active, spent>>

\* A unit of a subordinate gets ready.
GetReady ==
  /\ subordinate /\ ~ready /\ ready' = TRUE
  /\ toRequirer' = Units
  /\ UNCHANGED <<requested, statuses, subordinate, stored, active, spent>>

Next ==
  \/ Request \/ GetReady \/ ClearStatuses
  \/ \E c \in Codes : RaiseStatus(c) \/ ResolveStatus(c)
  \/ \E u \in Units : RelationChanged(u) \/ RelationChangedFails(u)

Spec == Init /\ [][Next]_vars

Hooks == \E u \in Units : RelationChanged(u)

\* Juju goes on delivering hooks.
Fairness == WF_vars(Hooks)

FairSpec == Spec /\ Fairness

----------------------------------------------------------------------------
(* Properties *)

\* The charm of each unit ends up with the statuses that are active: although events are
\* emitted for differences only, several calls may come between two hooks, and a hook may fail
\* after its events.  Of a subordinate that was not ready a status can stay for ever: it is
\* raised without being stored, and resolved without being known (data_interfaces.py:2329-2366,
\* 3883-3900).  The same happens if it is resolved before a failed hook is retried.
StatusesAgree ==
  ~subordinate /\ spent["failures"] = 0 => \A u \in Units : active[u] = statuses
=============================================================================
