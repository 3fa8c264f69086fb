---------------------------- MODULE ClusterGrants ----------------------------
(***************************************************************************)
(* Cluster with a history of what is late: which messages on their way,    *)
(* and which rates in force, are older than the checkpoint that they meet. *)
(* The history follows the steps of Cluster and restricts none of them.    *)
(***************************************************************************)
EXTENDS Cluster

VARIABLES
  late,             \* how many messages of a stream, counted from the head of
                    \* down to the tail of up, are older than the transfer
  own               \* whether the rate of the transfer answers a heartbeat that
                    \* was sent since it was accepted

gvars == <<cvars, late, own>>

\* What a step does: accept a checkpoint, take an instruction from the stream, or
\* leave no transfer on its stream whose rate is of interest.
Accepts(s) == node[s].stage = "idle" /\ node'[s].stage = "waiting"
TakesOne(s) == Len(down'[s]) < Len(down[s])
Rests(s) == ~node'[s].connected \/ node'[s].stage = "idle"

Older(s) == IF Rests(s) THEN 0
            ELSE IF Accepts(s) THEN InFlight(s)
            ELSE IF TakesOne(s) /\ late[s] > 0 THEN late[s] - 1
            ELSE late[s]

\* Instructions are taken in order: after one of its own no older one follows.
OnOwn(s) ==
  /\ ~Rests(s) /\ ~Accepts(s)
  /\ \/ own[s]
     \/ TakesOne(s) /\ late[s] = 0 /\ Head(down[s]).action = "START_FLUSH"

GInit == /\ CInit
         /\ late = [s \in Stream |-> 0]
         /\ own = [s \in Stream |-> FALSE]

GNext == /\ CNext
         /\ late' = [s \in Stream |-> Older(s)]
         /\ own' = [s \in Stream |-> OnOwn(s)]

GSpec == GInit /\ [][GNext]_gvars
-----------------------------------------------------------------------------
Entitled == {s \in Writing : own[s]}

\* What the copies on a rate of their own may write together exceeds the bandwidth
\* by a harmonic number at most, however many heartbeats and instructions are
\* late, and the ends of streams (scheduler.py 141-174, orchestrator/server.py
\* 84-145, migrater/server.py 44-131, 210-214).  A copy that was started by an
\* instruction older than its checkpoint (MigraterFresh) counts from the first
\* START_FLUSH of its own: until then it may be idle to the registry, which gives
\* its rate to others as well.
AllottedBounded ==
  policy = "active-fair-share" =>
    Allotted(Entitled) <= Harmonic(Cardinality(Entitled))
=============================================================================
