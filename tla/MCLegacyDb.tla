----------------------------- MODULE MCLegacyDb -----------------------------
(***************************************************************************)
(* Instances of LegacyDb for TLC.                                          *)
(***************************************************************************)
EXTENDS LegacyDb

Once(ds) == [d \in Disturbances |-> IF d \in ds THEN 1 ELSE 0]

\* A second client that goes through a failure, a refusal or an outage, a removal with any other
\* disturbance, failures around a change of leader, and two failures with a refusal.
MCTwo ==
  {Once({"overlaps", d}) : d \in {"removals", "failures", "refusals", "outages"}} \union
  {Once({"removals", d}) : d \in Disturbances} \union
  {Once({"elections", d}) : d \in {"failures", "refusals"}} \union
  {[Once({"refusals"}) EXCEPT !["failures"] = 2]}
=============================================================================
