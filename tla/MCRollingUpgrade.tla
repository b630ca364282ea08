-------------------------- MODULE MCRollingUpgrade --------------------------
(***************************************************************************)
(* Instances of RollingUpgrade for TLC.                                    *)
(***************************************************************************)
EXTENDS RollingUpgrade

Once(ds) == [d \in Disturbances |-> IF d \in ds THEN 1 ELSE 0]

\* Any two disturbances.
MCTwo == {Once({d, e}) : d, e \in Disturbances}
=============================================================================
