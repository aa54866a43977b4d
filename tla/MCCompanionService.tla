------------------------- MODULE MCCompanionService -------------------------
(***************************************************************************)
(* Small instances of CompanionService.                                    *)
(***************************************************************************)
EXTENDS CompanionService, TLC

CONSTANTS m1, m2, m3, d1, d2, d3, k1, k2, k3

AllStatus == [m \in Msgs |-> "status"]

\* One suspension among shutdowns.
MixedActions == [m \in Msgs |-> IF m = m1 THEN "suspend" ELSE "shutdown"]

DeliverySymmetry == Permutations(Deliveries)
ShutdownSymmetry == Permutations(Deliveries) \cup Permutations(Msgs \ {m1})
=============================================================================
