--------------------------- MODULE MCOrchestrator ---------------------------
(***************************************************************************)
(* Orchestrator for TLC: workers, streams and policy parameters.           *)
(***************************************************************************)
EXTENDS Orchestrator

CONSTANTS w1, w2, w3

\* w1's process is restarted: streams w1 and w2 are both of host w1.
Restarted == [s \in Stream |-> IF s = w2 THEN w1 ELSE s]

SomePriorities == [w \in {w1} |-> 3]

\* A small checkpoint of unknown progress, a large one, and none.
Mixed == {<<0, 0, 0>>, <<1, 0, 0>>, <<3, 1, 3>>}
=============================================================================
