----------------------------- MODULE MC_MacHelper -----------------------------
(* MacHelper on one service, one known network and late ones, two gateways. *)
EXTENDS MacHelper, TLC

AllFaults == FaultKinds
RestFaults == FaultKinds \ {"route"}
RouteFaults == {"route"}
BothSymmetry == {f @@ g : f \in Permutations(Gateway), g \in Permutations(Late)}
=============================================================================
