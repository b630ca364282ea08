------------------------- MODULE MCBackendLifecycle -------------------------
(***************************************************************************)
(* Instances of BackendLifecycle for TLC.                                  *)
(***************************************************************************)
EXTENDS BackendLifecycle

Once(ds) == [d \in Disturbances |-> IF d \in ds THEN 1 ELSE 0]

\* Any three different disturbances, or two elections and another one.
MCThree ==
  {Once({a, b, c}) : a, b, c \in Disturbances}
    \union {[Once({a}) EXCEPT !["elections"] = 2] : a \in Disturbances}
=============================================================================
