------------------------------ MODULE MCCluster ------------------------------
(***************************************************************************)
(* Cluster for TLC: one process on each of two hosts.                      *)
(***************************************************************************)
EXTENDS Cluster

CONSTANTS w1, w2

OneEach == [s \in Stream |-> s]

NoPriorities == [w \in {} |-> 1]
=============================================================================
