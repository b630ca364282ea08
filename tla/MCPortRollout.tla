--------------------------- MODULE MCPortRollout ---------------------------
(***************************************************************************)
(* Instances of PortRollout for TLC.                                       *)
(***************************************************************************)
EXTENDS PortRollout

Once(ds) == [d \in Disturbances |-> IF d \in ds THEN 1 ELSE 0]

\* The options change once, and with it one unit restarts, leaves or cannot be reached; or
\* they change twice, with an election, a refusal or a failed hook in between.
MCDisturbed ==
  {Once({"changes", d}) : d \in {"restarts", "leaves", "disconnects"}}
    \union {[Once({d}) EXCEPT !["changes"] = 2] : d \in {"elections", "refusals", "crashes"}}
=============================================================================
