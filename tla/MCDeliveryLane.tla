--------------------------- MODULE MCDeliveryLane ---------------------------
(* DeliveryLane on small instances: messages and runs are model values.     *)
EXTENDS DeliveryLane, TLC

(* The actions treat messages, routes and runs alike.                       *)
Symmetry == Permutations(Msgs) \cup Permutations(Routes) \cup Permutations(RunIds)
=============================================================================
