---------------------------- MODULE MCFarmChannel ----------------------------
(* Instances of FarmChannel for TLC. *)
EXTENDS FarmChannel

\* The accept order changes nothing but the destination of acknowledgements;
\* runs about the slots fix it to the order of the ids.
InIdOrder == Init /\ \A i \in Clients : conn[i] = i
OrderedSpec == InIdOrder /\ [][Next]_vars
OrderedFairSpec == OrderedSpec /\ Fairness
=============================================================================
