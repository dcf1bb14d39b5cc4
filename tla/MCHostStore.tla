---------------------------- MODULE MCHostStore ----------------------------
(* HostStore on small instances: messages, routes and runs are model values.*)
EXTENDS HostStore, TLC

(* The actions treat messages, routes and runs alike.                       *)
Symmetry == Permutations(Msgs) \cup Permutations(Routes) \cup Permutations(RunIds)
=============================================================================
