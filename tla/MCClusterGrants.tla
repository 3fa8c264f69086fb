--------------------------- MODULE MCClusterGrants ---------------------------
(***************************************************************************)
(* ClusterGrants for TLC, on the same two hosts, which are alike.          *)
(***************************************************************************)
EXTENDS ClusterGrants, MCCluster, TLC

SameHosts == Permutations(Worker)
=============================================================================
