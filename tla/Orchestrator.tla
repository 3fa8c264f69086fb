---------------------------- MODULE Orchestrator ----------------------------
(***************************************************************************)
(* The Orchestrator service, src/src/orchestrator/server.py, and the       *)
(* registry ClusterState of src/src/orchestrator/scheduler.py.             *)
(*                                                                         *)
(* gRPC runs each Monitor call in a thread of a pool for as long as the    *)
(* stream is open; the threads share the registry and the shutdown event.  *)
(* A step is what a handler does between two points where another can be   *)
(* seen: one region under the registry's lock, or one test of the event.   *)
(*                                                                         *)
(* A stream is one Monitor call of a migrater process.  A migrater opens   *)
(* one and never reopens it; a second stream of the same worker is a       *)
(* restarted process on the same host (the worker id is the hostname).     *)
(* What a heartbeat carries beside size and progress is logged only.       *)
(***************************************************************************)
EXTENDS Policies

CONSTANTS
  Worker, Stream,
  WorkerOf,         \* the worker of each stream
  PoolSizes,        \* what max_workers of the server's thread pool may be
  Chosen,           \* the policies the command line may choose
  Reports,          \* bound: what heartbeats say, <<size, epoch, total>>
  ExitRate,         \* the 500 MB/s that EXIT carries
  MaxTime           \* bound: clock readings

ASSUME StreamAssumption ==
  /\ WorkerOf \in [Stream -> Worker]
  /\ PoolSizes \subseteq Nat \ {0}
  /\ Chosen \subseteq Policy
  /\ Reports \subseteq Nat \X Int \X Int
  /\ ExitRate \in Nat
  /\ MaxTime \in Nat

VARIABLES
  threads,          \* max_workers
  policy, shuttingDown,
  workers,          \* the registry, a function from some workers to their state
  clock,            \* time.time()
  pc,               \* of each stream's handler
  identified,       \* whether the handler's worker_id is set
  beat,             \* the heartbeat in hand, with the time update() has read
  snap,             \* the snapshot in hand
  sent              \* the last instruction sent on the stream

handler == <<pc, identified, beat, snap, sent>>
vars == <<threads, policy, shuttingDown, workers, clock, handler>>

StreamPC == {"closed", "queued", "reading", "update", "test", "snapshot",
             "decide", "finally", "done"}

NoBeat == [report |-> <<0, 0, 0>>, now |-> 0]
NoWorkers == [w \in {} |-> 0]

Init ==
  /\ threads \in PoolSizes
  /\ policy \in Chosen
  /\ shuttingDown = FALSE
  /\ workers = NoWorkers
  /\ clock = 0
  /\ pc = [s \in Stream |-> "closed"]
  /\ identified = [s \in Stream |-> FALSE]
  /\ beat = [s \in Stream |-> NoBeat]
  /\ snap = [s \in Stream |-> NoWorkers]
  /\ sent = [s \in Stream |-> Hold]

Move(s, from, to) == pc[s] = from /\ pc' = [pc EXCEPT ![s] = to]

Env == <<threads, policy, shuttingDown, clock>>

-----------------------------------------------------------------------------
(* The pool.                                                                *)

Running(s) == pc[s] \notin {"closed", "queued", "done"}

Open(s) == /\ Move(s, "closed", "queued")
           /\ UNCHANGED <<Env, workers, identified, beat, snap, sent>>

Serve(s) ==
  /\ Cardinality({t \in Stream : Running(t)}) < threads
  /\ Move(s, "queued", "reading")
  /\ UNCHANGED <<Env, workers, identified, beat, snap, sent>>

-----------------------------------------------------------------------------
(* Monitor.                                                                 *)

\* The next heartbeat; update() reads the clock before it takes the lock.
Receive(s) ==
  /\ Move(s, "reading", "update")
  /\ identified' = [identified EXCEPT ![s] = TRUE]
  /\ \E r \in Reports :
       beat' = [beat EXCEPT ![s] = [report |-> r, now |-> clock]]
  /\ UNCHANGED <<Env, workers, snap, sent>>

\* pending_since: kept while the worker has something pending.
RestartedSince(prev, b) == b.now      \* variant: every heartbeat starts over
StickySince(prev, b) ==               \* variant: no reset of an idle worker
  IF prev # NoTime THEN prev ELSE b.now
PendingSince(prev, b) ==
  IF b.report[1] = 0 THEN NoTime ELSE IF prev # NoTime THEN prev ELSE b.now

NewState(w, b) ==
  LET prev == IF w \in DOMAIN workers THEN workers[w].since ELSE NoTime
  IN  [size |-> b.report[1],
       since |-> PendingSince(prev, b),
       epoch |-> b.report[2],
       total |-> b.report[3]]

Registered(w, b) == [v \in DOMAIN workers \cup {w} |->
                       IF v = w THEN NewState(w, b) ELSE workers[v]]

Update(s) ==
  /\ Move(s, "update", "test")
  /\ workers' = Registered(WorkerOf[s], beat[s])
  /\ UNCHANGED <<Env, identified, beat, snap, sent>>

ExitNow == [action |-> "EXIT", rate |-> ExitRate]

\* The test of the event: EXIT and break, or on to the decision.
SendExit(s) ==
  /\ shuttingDown
  /\ Move(s, "test", "finally")
  /\ sent' = [sent EXCEPT ![s] = ExitNow]
  /\ beat' = [beat EXCEPT ![s] = NoBeat]
  /\ UNCHANGED <<Env, workers, identified, snap>>

NoExit(s) ==
  /\ ~shuttingDown
  /\ Move(s, "test", "snapshot")
  /\ beat' = [beat EXCEPT ![s] = NoBeat]
  /\ UNCHANGED <<Env, workers, identified, snap, sent>>

Snapshot(s) ==
  /\ Move(s, "snapshot", "decide")
  /\ snap' = [snap EXCEPT ![s] = workers]
  /\ UNCHANGED <<Env, workers, identified, beat, sent>>

\* decide() on the snapshot, and the instruction on its way.
Answer(s) ==
  /\ Move(s, "decide", "reading")
  /\ sent' = [sent EXCEPT ![s] = Decide(policy, WorkerOf[s], snap[s], clock)]
  /\ snap' = [snap EXCEPT ![s] = NoWorkers]
  /\ UNCHANGED <<Env, workers, identified, beat>>

\* The migrater's side of the stream ends, or fails, or is cancelled.
EndOfStream(s) ==
  /\ Move(s, "reading", "finally")
  /\ UNCHANGED <<Env, workers, identified, beat, snap, sent>>

RemoveNothing(s) == DOMAIN workers    \* variant: no finally block
RemoveAll(s) == {}                    \* variant: clear() instead of pop()
Remaining(s) == DOMAIN workers \ {w \in {WorkerOf[s]} : identified[s]}

Finally(s) ==
  /\ Move(s, "finally", "done")
  /\ workers' = [w \in Remaining(s) |-> workers[w]]
  /\ identified' = [identified EXCEPT ![s] = FALSE]
  /\ sent' = [sent EXCEPT ![s] = Hold]
  /\ UNCHANGED <<Env, beat, snap>>

-----------------------------------------------------------------------------
\* KeyboardInterrupt in serve(); the streams that server.stop() then cancels
\* end as any stream may.
RequestShutdown ==
  /\ ~shuttingDown
  /\ shuttingDown' = TRUE
  /\ UNCHANGED <<threads, policy, workers, clock, handler>>

Tick ==
  /\ clock < MaxTime
  /\ clock' = clock + 1
  /\ UNCHANGED <<threads, policy, shuttingDown, workers, handler>>

Handle(s) == \/ Serve(s) \/ Receive(s) \/ Update(s) \/ SendExit(s) \/ NoExit(s)
             \/ Snapshot(s) \/ Answer(s) \/ Finally(s)

Next == \/ \E s \in Stream : Open(s) \/ Handle(s) \/ EndOfStream(s)
        \/ RequestShutdown \/ Tick

Spec == Init /\ [][Next]_vars

-----------------------------------------------------------------------------
WorkerState == [size : Nat, since : {NoTime} \cup 0..MaxTime,
                epoch : Int, total : Int]
Registry(ws) ==
  /\ DOMAIN ws \subseteq Worker
  /\ \A w \in DOMAIN ws : /\ ws[w] \in WorkerState
                          /\ ws[w].size > 0 <=> ws[w].since # NoTime
Instruction == [action : {"HOLD", "START_FLUSH", "EXIT"}, rate : Nat]

TypeOK ==
  /\ threads \in PoolSizes
  /\ policy \in Policy
  /\ shuttingDown \in BOOLEAN
  /\ clock \in 0..MaxTime
  /\ Registry(workers)
  /\ pc \in [Stream -> StreamPC]
  /\ identified \in [Stream -> BOOLEAN]
  /\ \A s \in Stream : Registry(snap[s]) /\ sent[s] \in Instruction
  /\ \A s \in Stream : /\ beat[s].report \in Nat \X Int \X Int
                       /\ beat[s].now \in 0..clock

\* "automatically purge the inactive resources" (main.tex 301): the registry
\* holds no worker whose handlers have all gone through their finally block.
NoGhosts ==
  \A w \in DOMAIN workers : \E s \in Stream : WorkerOf[s] = w /\ identified[s]

\* "Cluster state: shared, thread-safe snapshot of all connected workers"
\* (scheduler.py 21): a worker whose heartbeats are being answered is in it,
\* unless the stream of another process on its host has ended: remove() goes by
\* the worker id, whoever has registered it (server.py 143-145).
ConnectedIsRegistered ==
  \A s \in Stream :
    identified[s] /\ pc[s] # "update"
      => \/ WorkerOf[s] \in DOMAIN workers
         \/ \E t \in Stream \ {s} : WorkerOf[t] = WorkerOf[s] /\ pc[t] = "done"

\* The end of a restarted host's old stream may take the new one's registration
\* (server.py 145), and its age and share with it.  The next heartbeat brings it
\* back, and once no other stream of the host can end nothing takes it again,
\* whatever streams of other hosts do, until its own stream ends.
RegistrationComesBack ==
  [][\A s \in Stream :
       /\ identified[s] /\ identified'[s]
       /\ \A t \in Stream \ {s} : WorkerOf[t] = WorkerOf[s] => ~identified[t]
       /\ \/ WorkerOf[s] \in DOMAIN workers
          \/ pc[s] = "update" /\ pc'[s] # "update"
       => WorkerOf[s] \in DOMAIN workers']_vars

\* What the last instruction on the stream lets its worker use.
Granted(s) == IF sent[s].action = "START_FLUSH" THEN sent[s].rate ELSE 0

\* The workers that the policy divides the bandwidth among.
Sharing == IF policy = "active-fair-share" THEN Active(workers)
                                           ELSE DOMAIN workers

Harmonic(n) == SumFunction([i \in 1..n |-> Bandwidth \div i])

\* A restarted host has two streams and one registration.
Unrestarted(s) ==
  \A t \in Stream \ {s} : WorkerOf[t] = WorkerOf[s] => pc[t] = "closed"

\* A rate is revised only when its own worker reports again, so what the sharing
\* workers may use together exceeds pfs_bandwidth_bps at times; but as long as
\* they are not restarted never by more than the harmonic number of them, in
\* whatever order they come, report, fall idle and leave (scheduler.py 141-174,
\* server.py 84-109).
OvershootBounded ==
  policy \in {"uniform-fair-share", "active-fair-share"} =>
  LET live == {s \in Stream : /\ identified[s] /\ Unrestarted(s)
                              /\ WorkerOf[s] \in Sharing}
  IN  SumFunction([s \in live |-> Granted(s)]) <= Harmonic(Cardinality(live))

\* One snapshot never promises more than there is: what the policy would give
\* all its workers adds up to pfs_bandwidth_bps at most (scheduler.py 132-353).
SharesFit ==
  \A s \in Stream :
    pc[s] = "decide" =>
      SumFunction([w \in DOMAIN snap[s] |->
                     Decide(policy, w, snap[s], clock).rate]) <= Bandwidth

\* No starvation by weight: a worker with something pending, in the registry it
\* is decided from, is told to flush at a rate above zero, also when its weight
\* is as small as the parameters allow (scheduler.py 161-174, 207-225, 247-353).
\* Two sources ask for the opposite where the floor is zero: "Job em `epoch=0`
\* recebe `rate=0`" (docs/implemented_policies.md 243), and "a rate == 0"
\* (tests/epoch_priority.py 154).  EPS (scheduler.py 333) gives it a share.
ActiveIsGranted ==
  [][\A s \in Stream :
       /\ pc[s] = "decide" /\ pc'[s] = "reading"
       /\ WorkerOf[s] \in DOMAIN snap[s] /\ snap[s][WorkerOf[s]].size > 0
       => sent'[s].action = "START_FLUSH" /\ sent'[s].rate > 0]_vars

\* "Wall-clock time at which checkpoint_size transitioned from 0 to >0"
\* (scheduler.py 29): while it stays registered with something pending a
\* worker's age only grows, whatever its heartbeats and the clock do.
AgeIsKept ==
  [][\A w \in Active(workers) : w \in DOMAIN workers' /\ workers'[w].size > 0
       => workers'[w].since = workers[w].since]_vars
=============================================================================
