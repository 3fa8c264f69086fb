------------------------- MODULE OrchestratorProofs -------------------------
(***************************************************************************)
(* Theorems about the Orchestrator service and its registry, for any       *)
(* number of workers, streams and threads, any heartbeats and any policy.  *)
(***************************************************************************)
EXTENDS Orchestrator, PolicyProofs

USE DEF Env, handler, Move

\* The part of TypeOK that does not depend on what the policies compute.
Heartbeat == [report : Reports \cup {<<0, 0, 0>>}, now : 0..MaxTime]
StreamsOK ==
  /\ clock \in 0..MaxTime
  /\ pc \in [Stream -> StreamPC]
  /\ identified \in [Stream -> BOOLEAN]
  /\ beat \in [Stream -> Heartbeat]
RegistryOK == Registry(workers)

\* A handler that has had a heartbeat knows its worker.
IdentifiedInv ==
  \A s \in Stream :
    pc[s] \in {"update", "test", "snapshot", "decide"} => identified[s]

LEMMA StreamsTyping == Spec => [](StreamsOK /\ IdentifiedInv)
<1> USE DEF StreamsOK, IdentifiedInv, StreamPC, Heartbeat, NoBeat
<1>1. Init => StreamsOK /\ IdentifiedInv
  BY StreamAssumption DEF Init
<1>2. StreamsOK /\ IdentifiedInv /\ [Next]_vars => (StreamsOK /\ IdentifiedInv)'
  <2> SUFFICES ASSUME StreamsOK, IdentifiedInv, [Next]_vars
               PROVE  StreamsOK' /\ IdentifiedInv'
    OBVIOUS
  <2>1. ASSUME NEW s \in Stream, Open(s) \/ Serve(s) \/ EndOfStream(s)
        PROVE  StreamsOK' /\ IdentifiedInv'
    BY <2>1 DEF Open, Serve, EndOfStream
  <2>2. ASSUME NEW s \in Stream, Receive(s)
        PROVE  StreamsOK' /\ IdentifiedInv'
    <3>1. PICK r \in Reports :
            beat' = [beat EXCEPT ![s] = [report |-> r, now |-> clock]]
      BY <2>2 DEF Receive
    <3>2. beat' \in [Stream -> Heartbeat]
      BY <3>1
    <3> QED
      BY <2>2, <3>2 DEF Receive
  <2>3. ASSUME NEW s \in Stream, Update(s)
        PROVE  StreamsOK' /\ IdentifiedInv'
    BY <2>3 DEF Update
  <2>4. ASSUME NEW s \in Stream, SendExit(s) \/ NoExit(s)
        PROVE  StreamsOK' /\ IdentifiedInv'
    <3>1. NoBeat \in Heartbeat
      BY StreamAssumption
    <3>2. beat' \in [Stream -> Heartbeat]
      BY <2>4, <3>1 DEF SendExit, NoExit
    <3> HIDE DEF Heartbeat, NoBeat
    <3> QED
      BY <2>4, <3>2 DEF SendExit, NoExit
  <2>5. ASSUME NEW s \in Stream, Snapshot(s) \/ Answer(s)
        PROVE  StreamsOK' /\ IdentifiedInv'
    BY <2>5 DEF Snapshot, Answer
  <2>6. ASSUME NEW s \in Stream, Finally(s)
        PROVE  StreamsOK' /\ IdentifiedInv'
    BY <2>6 DEF Finally
  <2>7. CASE RequestShutdown \/ Tick \/ UNCHANGED vars
    BY <2>7, StreamAssumption DEF RequestShutdown, Tick, vars
  <2> QED
    BY <2>1, <2>2, <2>3, <2>4, <2>5, <2>6, <2>7 DEF Next, Handle
<1> QED
  BY <1>1, <1>2, PTL DEF Spec

\* A step that leaves the registry alone is none of update() and remove().
LEMMA RegistrySteps ==
  ASSUME [Next]_vars
  PROVE  \/ \E s \in Stream : Update(s) \/ Finally(s)
         \/ UNCHANGED workers
BY DEF Next, Handle, Open, Serve, Receive, SendExit, NoExit, Snapshot, Answer,
       EndOfStream, RequestShutdown, Tick, vars

\* What update() leaves in the registry.
LEMMA UpdateRegisters ==
  ASSUME NEW s \in Stream, Update(s)
  PROVE  /\ DOMAIN workers' = DOMAIN workers \cup {WorkerOf[s]}
         /\ workers'[WorkerOf[s]] = NewState(WorkerOf[s], beat[s])
         /\ \A w \in DOMAIN workers \ {WorkerOf[s]} : workers'[w] = workers[w]
BY DEF Update, Registered

\* What remove() leaves in it.
LEMMA FinallyRemoves ==
  ASSUME NEW s \in Stream, Finally(s)
  PROVE  /\ DOMAIN workers' = Remaining(s)
         /\ \A w \in DOMAIN workers' : workers'[w] = workers[w]
BY DEF Finally, Remaining

\* The state that update() makes is well formed.
LEMMA NewStateOK ==
  ASSUME RegistryOK, StreamsOK, NEW s \in Stream
  PROVE  /\ NewState(WorkerOf[s], beat[s]) \in WorkerState
         /\ LET n == NewState(WorkerOf[s], beat[s])
            IN  n.size > 0 <=> n.since # NoTime
<1> DEFINE w == WorkerOf[s]
           b == beat[s]
           prev == IF w \in DOMAIN workers THEN workers[w].since ELSE NoTime
<1>1. /\ b.report[1] \in Nat /\ b.report[2] \in Int /\ b.report[3] \in Int
      /\ b.now \in 0..MaxTime
  BY StreamAssumption DEF StreamsOK, Heartbeat
<1>2. prev \in {NoTime} \cup 0..MaxTime
  BY DEF RegistryOK, Registry, WorkerState
<1>3. PendingSince(prev, b) \in {NoTime} \cup 0..MaxTime
  BY <1>1, <1>2 DEF PendingSince
<1>4. b.report[1] > 0 <=> PendingSince(prev, b) # NoTime
  BY <1>1, <1>2, StreamAssumption DEF PendingSince, NoTime
<1> HIDE DEF prev, b
<1> QED
  BY <1>1, <1>3, <1>4 DEF NewState, WorkerState, prev, b

\* "Cluster state: shared, thread-safe snapshot of all connected workers"
\* (scheduler.py 21): in every interleaving of its three locked regions the
\* registry is well formed: a worker has an age exactly while it has data.
THEOREM RegistryTyping == Spec => []RegistryOK
<1>1. Init => RegistryOK
  BY DEF Init, RegistryOK, Registry, NoWorkers
<1>2. RegistryOK /\ StreamsOK /\ [Next]_vars => RegistryOK'
  <2> SUFFICES ASSUME RegistryOK, StreamsOK, [Next]_vars
               PROVE  RegistryOK'
    OBVIOUS
  <2>1. ASSUME NEW s \in Stream, Update(s)
        PROVE  RegistryOK'
    <3> DEFINE w == WorkerOf[s]
    <3>1. /\ DOMAIN workers' = DOMAIN workers \cup {w}
          /\ workers'[w] = NewState(w, beat[s])
          /\ \A v \in DOMAIN workers \ {w} : workers'[v] = workers[v]
      BY <2>1, UpdateRegisters
    <3>2. /\ workers'[w] \in WorkerState
          /\ workers'[w].size > 0 <=> workers'[w].since # NoTime
      BY <3>1, NewStateOK
    <3>3. w \in Worker
      BY StreamAssumption
    <3> HIDE DEF w
    <3> QED
      BY <3>1, <3>2, <3>3 DEF RegistryOK, Registry
  <2>2. ASSUME NEW s \in Stream, Finally(s)
        PROVE  RegistryOK'
    BY <2>2, FinallyRemoves DEF RegistryOK, Registry, Remaining
  <2>3. CASE UNCHANGED workers
    BY <2>3 DEF RegistryOK, Registry
  <2> QED
    BY <2>1, <2>2, <2>3, RegistrySteps
<1> QED
  BY <1>1, <1>2, StreamsTyping, PTL DEF Spec

-----------------------------------------------------------------------------
\* Who is identified after a step.
LEMMA IdentifiedSteps ==
  ASSUME StreamsOK, [Next]_vars, NEW t \in Stream, identified[t], ~identified'[t]
  PROVE  Finally(t)
BY DEF Next, Handle, Open, Serve, Receive, Update, SendExit, NoExit, Snapshot,
       Answer, EndOfStream, Finally, RequestShutdown, Tick, vars, StreamsOK

\* "automatically purge the inactive resources" (main.tex 301): the registry
\* holds no worker whose handlers have all gone through their finally block,
\* however many streams a worker has and whenever each of them ends.
THEOREM RegistryHasNoGhosts == Spec => []NoGhosts
<1>1. Init => NoGhosts
  BY DEF Init, NoGhosts, NoWorkers
<1>2. NoGhosts /\ StreamsOK /\ IdentifiedInv /\ [Next]_vars => NoGhosts'
  <2> SUFFICES ASSUME NoGhosts, StreamsOK, IdentifiedInv, [Next]_vars,
                      NEW w \in DOMAIN workers'
               PROVE  \E s \in Stream : WorkerOf[s] = w /\ identified'[s]
    BY DEF NoGhosts
  <2>1. ASSUME NEW s \in Stream, Update(s), w = WorkerOf[s]
        PROVE  WorkerOf[s] = w /\ identified'[s]
    BY <2>1 DEF Update, IdentifiedInv
  <2>2. ASSUME w \in DOMAIN workers, ~\E s \in Stream : Finally(s)
        PROVE  \E s \in Stream : WorkerOf[s] = w /\ identified'[s]
    BY <2>2, IdentifiedSteps DEF NoGhosts
  <2>3. ASSUME NEW s \in Stream, Finally(s)
        PROVE  \E t \in Stream : WorkerOf[t] = w /\ identified'[t]
    <3>1. w \in Remaining(s)
      BY <2>3, FinallyRemoves
    <3>2. PICK t \in Stream : WorkerOf[t] = w /\ identified[t]
      BY <3>1 DEF Remaining, NoGhosts
    <3>3. t # s
      BY <3>1, <3>2 DEF Remaining
    <3> QED
      BY <2>3, <3>2, <3>3 DEF Finally, StreamsOK
  <2>4. \/ \E s \in Stream : Update(s) /\ w = WorkerOf[s]
        \/ \E s \in Stream : Finally(s)
        \/ w \in DOMAIN workers
    BY RegistrySteps, UpdateRegisters
  <2> QED
    BY <2>1, <2>2, <2>3, <2>4
<1> QED
  BY <1>1, <1>2, StreamsTyping, PTL DEF Spec

\* No handler leaves "done".
LEMMA DoneIsForGood ==
  ASSUME StreamsOK, [Next]_vars, NEW t \in Stream, pc[t] = "done"
  PROVE  pc'[t] = "done"
BY DEF Next, Handle, Open, Serve, Receive, Update, SendExit, NoExit, Snapshot,
       Answer, EndOfStream, Finally, RequestShutdown, Tick, vars, StreamsOK

\* Who is being answered after a step and was not before it.
LEMMA AnsweredSteps ==
  ASSUME StreamsOK, [Next]_vars, NEW t \in Stream,
         identified'[t], pc'[t] # "update"
  PROVE  Update(t) \/ (identified[t] /\ pc[t] # "update")
BY DEF Next, Handle, Open, Serve, Receive, Update, SendExit, NoExit, Snapshot,
       Answer, EndOfStream, Finally, RequestShutdown, Tick, vars, StreamsOK

\* A worker whose heartbeats are being answered is in the registry, unless the
\* stream of another process on its host has ended (server.py 84-145): with one
\* stream per worker the policies decide from all connected workers.
THEOREM ConnectedAreRegistered == Spec => []ConnectedIsRegistered
<1>1. Init => ConnectedIsRegistered
  BY DEF Init, ConnectedIsRegistered
<1>2. ConnectedIsRegistered /\ StreamsOK /\ [Next]_vars => ConnectedIsRegistered'
  <2> SUFFICES ASSUME ConnectedIsRegistered, StreamsOK, [Next]_vars,
                      NEW s \in Stream, identified'[s], pc'[s] # "update"
               PROVE  \/ WorkerOf[s] \in DOMAIN workers'
                      \/ \E t \in Stream \ {s} :
                           WorkerOf[t] = WorkerOf[s] /\ pc'[t] = "done"
    BY DEF ConnectedIsRegistered
  <2>1. CASE Update(s)
    BY <2>1, UpdateRegisters
  <2>2. CASE \E t \in Stream \ {s} : WorkerOf[t] = WorkerOf[s] /\ pc[t] = "done"
    BY <2>2, DoneIsForGood
  <2>3. CASE WorkerOf[s] \in DOMAIN workers
    <3>1. ASSUME NEW t \in Stream, Finally(t), WorkerOf[s] \notin DOMAIN workers'
          PROVE  t # s /\ WorkerOf[t] = WorkerOf[s] /\ pc'[t] = "done"
      <4>1. WorkerOf[t] = WorkerOf[s]
        BY <2>3, <3>1, FinallyRemoves DEF Remaining
      <4> QED
        BY <3>1, <4>1 DEF Finally, StreamsOK
    <3>2. ASSUME NEW t \in Stream, Update(t)
          PROVE  WorkerOf[s] \in DOMAIN workers'
      BY <2>3, <3>2, UpdateRegisters
    <3> QED
      BY <2>3, <3>1, <3>2, RegistrySteps
  <2> QED
    BY <2>1, <2>2, <2>3, AnsweredSteps DEF ConnectedIsRegistered
<1> QED
  BY <1>1, <1>2, StreamsTyping, PTL DEF Spec

\* A registration that the end of an old stream has removed is back with the next
\* heartbeat, for good once no other stream of its host can end (server.py 84-145),
\* however many other workers come and leave.
THEOREM RegistrationsComeBack == Spec => RegistrationComesBack
<1>1. StreamsOK /\ [Next]_vars
        => [\A s \in Stream :
              /\ identified[s] /\ identified'[s]
              /\ \A t \in Stream \ {s} :
                   WorkerOf[t] = WorkerOf[s] => ~identified[t]
              /\ \/ WorkerOf[s] \in DOMAIN workers
                 \/ pc[s] = "update" /\ pc'[s] # "update"
              => WorkerOf[s] \in DOMAIN workers']_vars
  <2> SUFFICES ASSUME StreamsOK, [Next]_vars,
                      NEW s \in Stream, identified[s], identified'[s],
                      \A t \in Stream \ {s} :
                        WorkerOf[t] = WorkerOf[s] => ~identified[t],
                      \/ WorkerOf[s] \in DOMAIN workers
                      \/ pc[s] = "update" /\ pc'[s] # "update"
               PROVE  WorkerOf[s] \in DOMAIN workers'
    OBVIOUS
  <2>1. CASE pc[s] = "update" /\ pc'[s] # "update"
    <3>1. Update(s)
      BY <2>1 DEF Next, Handle, Open, Serve, Receive, Update, SendExit, NoExit,
                  Snapshot, Answer, EndOfStream, Finally, RequestShutdown, Tick,
                  Move, vars, handler, StreamsOK
    <3> QED
      BY <3>1, UpdateRegisters
  <2>2. CASE WorkerOf[s] \in DOMAIN workers
    <3>1. ASSUME NEW t \in Stream, Update(t)
          PROVE  WorkerOf[s] \in DOMAIN workers'
      BY <2>2, <3>1, UpdateRegisters
    <3>2. ASSUME NEW t \in Stream, Finally(t)
          PROVE  WorkerOf[s] \in DOMAIN workers'
      <4>1. t # s
        BY <3>2 DEF Finally, StreamsOK
      <4>2. WorkerOf[t] = WorkerOf[s] => ~identified[t]
        BY <4>1
      <4> QED
        BY <2>2, <3>2, <4>2, FinallyRemoves DEF Remaining
    <3> QED
      BY <2>2, <3>1, <3>2, RegistrySteps
  <2> QED
    BY <2>1, <2>2
<1> QED
  BY <1>1, StreamsTyping, PTL DEF Spec, RegistrationComesBack

\* "Wall-clock time at which checkpoint_size transitioned from 0 to >0"
\* (scheduler.py 29): no heartbeat, restart or reading of the clock makes a
\* worker with something pending look younger than it is.
THEOREM AgesAreKept == Spec => AgeIsKept
<1>1. RegistryOK /\ [Next]_vars
        => [\A w \in Active(workers) :
              w \in DOMAIN workers' /\ workers'[w].size > 0
                => workers'[w].since = workers[w].since]_vars
  <2> SUFFICES ASSUME RegistryOK, [Next]_vars,
                      NEW w \in Active(workers),
                      w \in DOMAIN workers', workers'[w].size > 0
               PROVE  workers'[w].since = workers[w].since
    OBVIOUS
  <2>1. w \in DOMAIN workers /\ workers[w].since # NoTime
    BY DEF Active, RegistryOK, Registry
  <2>2. ASSUME NEW s \in Stream, Update(s), w = WorkerOf[s]
        PROVE  workers'[w].since = workers[w].since
    <3>1. workers'[w] = NewState(w, beat[s])
      BY <2>2, UpdateRegisters
    <3>2. beat[s].report[1] # 0
      BY <3>1 DEF NewState
    <3> QED
      BY <2>1, <3>1, <3>2 DEF NewState, PendingSince
  <2>3. ASSUME NEW s \in Stream, Update(s), w # WorkerOf[s]
        PROVE  workers'[w].since = workers[w].since
    BY <2>1, <2>3, UpdateRegisters
  <2>4. ASSUME NEW s \in Stream, Finally(s)
        PROVE  workers'[w].since = workers[w].since
    BY <2>4, FinallyRemoves
  <2> QED
    BY <2>2, <2>3, <2>4, RegistrySteps
<1> QED
  BY <1>1, RegistryTyping, PTL DEF Spec, AgeIsKept

-----------------------------------------------------------------------------
(* What the policies compute from the registry.                             *)

\* The registry holds finitely many workers: one more for a heartbeat at most.
FiniteInv == IsFiniteSet(DOMAIN workers)

LEMMA RegistryFinite == Spec => []FiniteInv
<1>1. Init => FiniteInv
  BY FS_EmptySet DEF Init, FiniteInv, NoWorkers
<1>2. FiniteInv /\ [Next]_vars => FiniteInv'
  <2> SUFFICES ASSUME FiniteInv, [Next]_vars
               PROVE  IsFiniteSet(DOMAIN workers')
    BY DEF FiniteInv
  <2>1. ASSUME NEW s \in Stream, Update(s)
        PROVE  IsFiniteSet(DOMAIN workers')
    <3>1. IsFiniteSet(DOMAIN workers \cup {WorkerOf[s]})
      BY FS_AddElement DEF FiniteInv
    <3> QED
      BY <2>1, <3>1, UpdateRegisters
  <2>2. ASSUME NEW s \in Stream, Finally(s)
        PROVE  IsFiniteSet(DOMAIN workers')
    <3>1. DOMAIN workers' \in SUBSET DOMAIN workers
      BY <2>2, FinallyRemoves DEF Remaining
    <3> QED
      BY <3>1, FS_Subset DEF FiniteInv
  <2> QED
    BY <2>1, <2>2, RegistrySteps DEF FiniteInv
<1> QED
  BY <1>1, <1>2, PTL DEF Spec

\* The registry, and a copy of it, is what the policies decide from.
LEMMA RegistryIsSnap ==
  ASSUME NEW ws, Registry(ws), IsFiniteSet(DOMAIN ws)
  PROVE  Snap(ws)
BY StreamAssumption DEF Registry, Snap, WorkerState, NoTime

\* What else there is: the snapshots, the instructions and the constants.
AnswersOK ==
  /\ threads \in PoolSizes /\ policy \in Chosen /\ shuttingDown \in BOOLEAN
  /\ DOMAIN snap = Stream
  /\ \A s \in Stream : Registry(snap[s]) /\ IsFiniteSet(DOMAIN snap[s])
  /\ sent \in [Stream -> Instruction]
  /\ \A s \in Stream : beat[s].now <= clock

LEMMA AnswersTyping == Spec => []AnswersOK
<1> USE DEF AnswersOK
<1>1. Init => AnswersOK
  <2>1. Registry(NoWorkers) /\ IsFiniteSet(DOMAIN NoWorkers)
    BY FS_EmptySet DEF Registry, NoWorkers
  <2> SUFFICES ASSUME Init
               PROVE  AnswersOK
    OBVIOUS
  <2>2. /\ DOMAIN snap = Stream /\ \A s \in Stream : snap[s] = NoWorkers
        /\ sent \in [Stream -> Instruction]
    BY Zenon DEF Init, Hold, Instruction
  <2>3. \A s \in Stream : beat[s].now <= clock
    BY DEF Init, NoBeat
  <2>4. threads \in PoolSizes /\ policy \in Chosen /\ shuttingDown \in BOOLEAN
    BY DEF Init
  <2> HIDE DEF NoWorkers
  <2> QED
    BY <2>1, <2>2, <2>3, <2>4
<1>2. AnswersOK /\ StreamsOK /\ RegistryOK /\ FiniteInv /\ [Next]_vars
        => AnswersOK'
  <2> SUFFICES ASSUME AnswersOK, StreamsOK, RegistryOK, FiniteInv, [Next]_vars
               PROVE  AnswersOK'
    OBVIOUS
  <2>1. ASSUME NEW s \in Stream, Open(s) \/ Serve(s) \/ EndOfStream(s)
        PROVE  AnswersOK'
    BY <2>1 DEF Open, Serve, EndOfStream
  <2>2. ASSUME NEW s \in Stream, Receive(s)
        PROVE  AnswersOK'
    BY <2>2 DEF Receive, StreamsOK
  <2>3. ASSUME NEW s \in Stream, Update(s)
        PROVE  AnswersOK'
    BY <2>3 DEF Update
  <2>4. ASSUME NEW s \in Stream, SendExit(s) \/ NoExit(s)
        PROVE  AnswersOK'
    <3>1. ExitNow \in Instruction
      BY StreamAssumption DEF ExitNow, Instruction
    <3>2. \A t \in Stream : beat'[t].now <= clock'
      BY <2>4 DEF SendExit, NoExit, StreamsOK, NoBeat
    <3> QED
      BY <2>4, <3>1, <3>2 DEF SendExit, NoExit
  <2>5. ASSUME NEW s \in Stream, Snapshot(s)
        PROVE  AnswersOK'
    BY <2>5 DEF Snapshot, RegistryOK, FiniteInv
  <2>6. ASSUME NEW s \in Stream, Answer(s)
        PROVE  AnswersOK'
    <3>1. Registry(NoWorkers) /\ IsFiniteSet(DOMAIN NoWorkers)
      BY FS_EmptySet DEF Registry, NoWorkers
    <3>2. \A t \in Stream : Registry(snap'[t]) /\ IsFiniteSet(DOMAIN snap'[t])
      BY <2>6, <3>1 DEF Answer
    <3>3. Decide(policy, WorkerOf[s], snap[s], clock) \in Instruction
      <4>1. policy \in Policy /\ Snap(snap[s]) /\ clock \in Int
        BY RegistryIsSnap, StreamAssumption DEF StreamsOK
      <4> QED
        BY <4>1, DecidesAnInstruction DEF Instruction
    <3>4. sent' \in [Stream -> Instruction]
      BY <2>6, <3>3 DEF Answer
    <3> QED
      BY <2>6, <3>2, <3>4 DEF Answer
  <2>7. ASSUME NEW s \in Stream, Finally(s)
        PROVE  AnswersOK'
    BY <2>7 DEF Finally, Hold, Instruction
  <2>8. CASE RequestShutdown \/ UNCHANGED vars
    BY <2>8 DEF RequestShutdown, vars
  <2>9. CASE Tick
    <3>1. \A t \in Stream : beat[t].now \in Int /\ clock \in Int
      BY DEF StreamsOK, Heartbeat
    <3>2. \A t \in Stream : beat'[t].now <= clock'
      BY <2>9, <3>1 DEF Tick
    <3> QED
      BY <2>9, <3>2 DEF Tick
  <2> QED
    BY <2>1, <2>2, <2>3, <2>4, <2>5, <2>6, <2>7, <2>8, <2>9 DEF Next, Handle
<1> QED
  BY <1>1, <1>2, StreamsTyping, RegistryTyping, RegistryFinite, PTL DEF Spec

\* The types of every variable of the service, whichever policy decides: each
\* answer is an instruction with a rate that is not negative.
THEOREM OrchestratorTyping == Spec => []TypeOK
<1>1. StreamsOK /\ RegistryOK /\ AnswersOK => TypeOK
  BY StreamAssumption DEF StreamsOK, RegistryOK, AnswersOK, TypeOK, Heartbeat
<1> QED
  BY <1>1, StreamsTyping, RegistryTyping, AnswersTyping, PTL

\* The policies that divide the bandwidth, all but no-limit and fixed-rate: in
\* every reachable state what each snapshot in hand promises its workers fits.
THEOREM SharesAlwaysFit ==
  ASSUME Chosen \subseteq Dividing
  PROVE  Spec => []SharesFit
<1>1. StreamsOK /\ AnswersOK => SharesFit
  <2> SUFFICES ASSUME StreamsOK, AnswersOK, NEW s \in Stream
               PROVE  SumFunction([w \in DOMAIN snap[s] |->
                        Decide(policy, w, snap[s], clock).rate]) <= Bandwidth
    BY DEF SharesFit
  <2>1. policy \in Dividing /\ Snap(snap[s]) /\ clock \in Int
    BY RegistryIsSnap DEF AnswersOK, StreamsOK
  <2> QED
    BY <2>1, SnapshotFits
<1> QED
  BY <1>1, StreamsTyping, AnswersTyping, PTL

\* No starvation by weight (scheduler.py 161-353): whatever was reported, every
\* worker with something pending is granted a rate above zero, as soon as the
\* bandwidth suffices for as many workers as there are.
THEOREM ActiveAreGranted ==
  ASSUME IsFiniteSet(Worker),
         \A p \in Chosen : Suffices(p, Cardinality(Worker))
  PROVE  Spec => ActiveIsGranted
<1>1. StreamsOK /\ AnswersOK /\ [Next]_vars
        => [\A s \in Stream :
             /\ pc[s] = "decide" /\ pc'[s] = "reading"
             /\ WorkerOf[s] \in DOMAIN snap[s] /\ snap[s][WorkerOf[s]].size > 0
             => sent'[s].action = "START_FLUSH" /\ sent'[s].rate > 0]_vars
  <2> SUFFICES ASSUME StreamsOK, AnswersOK, Next, NEW s \in Stream,
                      pc[s] = "decide", pc'[s] = "reading",
                      WorkerOf[s] \in DOMAIN snap[s],
                      snap[s][WorkerOf[s]].size > 0
               PROVE  sent'[s].action = "START_FLUSH" /\ sent'[s].rate > 0
    BY DEF vars
  <2>1. Answer(s)
    BY DEF Next, Handle, Open, Serve, Receive, Update, SendExit, NoExit, Snapshot,
           Answer, EndOfStream, Finally, RequestShutdown, Tick, StreamsOK
  <2>2. sent'[s] = Decide(policy, WorkerOf[s], snap[s], clock)
    BY <2>1 DEF Answer, AnswersOK
  <2>3. /\ policy \in Policy /\ Snap(snap[s]) /\ clock \in Int
        /\ WorkerOf[s] \in Active(snap[s])
    BY RegistryIsSnap, StreamAssumption DEF AnswersOK, StreamsOK, Active
  <2>4. /\ Cardinality(Worker) \in Nat
        /\ Cardinality(DOMAIN snap[s]) <= Cardinality(Worker)
        /\ Suffices(policy, Cardinality(Worker))
    BY FS_Subset, FS_CardinalityType DEF AnswersOK, Registry
  <2> QED
    BY <2>2, <2>3, <2>4, ActiveIsGiven
<1> QED
  BY <1>1, StreamsTyping, AnswersTyping, PTL DEF Spec, ActiveIsGranted

-----------------------------------------------------------------------------
(* Rates that the bandwidth is divided into evenly, some of them long ago.  *)

Even == {"uniform-fair-share", "active-fair-share"}

\* Those the bandwidth is divided among.
Sharers(kind, ws) == IF kind = "active-fair-share" THEN Active(ws) ELSE DOMAIN ws

\* claims[t] are the rates that t may come to use without the orchestrator's
\* doing anything more.  However few are looked at, one of them claims no more
\* than an equal share among as many: the last to have been given a rate.
Spread(L, claims) ==
  \A G \in SUBSET L : G # {} =>
    \E t \in G : \A r \in claims[t] : r <= Bandwidth \div Cardinality(G)

\* A quotient is the smaller the more there are.
LEMMA SmallerShare ==
  ASSUME NEW m \in Nat \ {0}, NEW n \in Nat \ {0}, m <= n
  PROVE  Bandwidth \div n <= Bandwidth \div m
<1> DEFINE q == Bandwidth \div n
           p == Bandwidth \div m
<1>1. /\ Bandwidth \in Nat /\ q \in Nat /\ p \in Nat
      /\ n * q <= Bandwidth /\ Bandwidth < m * p + m
  BY PolicyAssumption
<1> HIDE DEF q, p
<1>2. m * q <= n * q
  BY <1>1
<1>3. ~(q >= p + 1)
  <2> SUFFICES ASSUME q >= p + 1
               PROVE  FALSE
    OBVIOUS
  <2>1. m * q >= m * (p + 1) /\ m * (p + 1) = m * p + m
    BY <1>1
  <2> QED
    BY <1>1, <1>2, <2>1
<1> QED
  BY <1>1, <1>3 DEF q, p

\* What a step may do: a stream joins, or claims a new rate, only at an equal
\* share among all there are then.
LEMMA SpreadStep ==
  ASSUME NEW L, NEW claims, Spread(L, claims),
         NEW M, IsFiniteSet(M), NEW new,
         \A t \in M : \A r \in new[t] :
           \/ t \in L /\ r \in claims[t]
           \/ r \in Int /\ r <= Bandwidth \div Cardinality(M)
  PROVE  Spread(M, new)
<1> SUFFICES ASSUME NEW G \in SUBSET M, G # {}
             PROVE  \E t \in G : \A r \in new[t] : r <= Bandwidth \div Cardinality(G)
  BY DEF Spread
<1> DEFINE g == Bandwidth \div Cardinality(G)
           m == Bandwidth \div Cardinality(M)
<1>1. /\ Cardinality(G) \in Nat \ {0} /\ Cardinality(M) \in Nat \ {0}
      /\ Cardinality(G) <= Cardinality(M)
  BY FS_Subset, FS_CardinalityType, FS_EmptySet
<1>2. m <= g /\ m \in Int /\ g \in Int
  BY <1>1, SmallerShare, PolicyAssumption
<1> HIDE DEF g, m
<1>3. CASE G \in SUBSET L
  <2>1. PICK t \in G : \A r \in claims[t] : r <= g
    BY <1>3 DEF Spread, g
  <2>2. \A r \in new[t] : r \in claims[t] \/ (r \in Int /\ r <= m)
    BY DEF m
  <2>3. \A r \in new[t] : r <= g
    BY <1>2, <2>1, <2>2
  <2> QED
    BY <2>3 DEF g
<1>4. CASE G \notin SUBSET L
  <2>1. PICK t \in G : t \notin L
    BY <1>4
  <2>2. \A r \in new[t] : r \in Int /\ r <= m
    BY <2>1 DEF m
  <2>3. \A r \in new[t] : r <= g
    BY <1>2, <2>2
  <2> QED
    BY <2>3 DEF g
<1> QED
  BY <1>3, <1>4

\* The harmonic sum, one term at a time.
LEMMA HarmonicStep ==
  ASSUME NEW n \in Nat
  PROVE  /\ Harmonic(n) \in Int /\ Harmonic(0) = 0
         /\ Harmonic(n + 1) = Bandwidth \div (n + 1) + Harmonic(n)
<1> DEFINE f(k) == [i \in 1..k |-> Bandwidth \div i]
<1>1. \A k \in Nat : /\ IsFiniteSet(1..k) /\ \A i \in 1..k : f(k)[i] \in Int
                     /\ Harmonic(k) = SumFunctionOnSet(f(k), 1..k)
  <2> TAKE k \in Nat
  <2>1. IsFiniteSet(1..k)
    BY FS_Interval
  <2>2. \A i \in 1..k : f(k)[i] \in Int
    BY PolicyAssumption
  <2> QED
    BY <2>1, <2>2 DEF Harmonic, SumFunction
<1>2. 1..0 = {} /\ (1..n + 1) \ {n + 1} = 1..n /\ n + 1 \in 1..n + 1
  OBVIOUS
<1>3. f(n + 1)[n + 1] = Bandwidth \div (n + 1)
  BY <1>2
<1>4. \A i \in 1..n : f(n + 1)[i] = f(n)[i]
  OBVIOUS
<1> HIDE DEF f
<1>5. Harmonic(0) = 0
  BY <1>1, <1>2, SumStep
<1>6. Harmonic(n) \in Int
  BY <1>1, SumStep
<1>7. Harmonic(n + 1) = f(n + 1)[n + 1] + SumFunctionOnSet(f(n + 1), 1..n)
  <2>1. /\ IsFiniteSet(1..n + 1) /\ \A i \in 1..n + 1 : f(n + 1)[i] \in Int
        /\ Harmonic(n + 1) = SumFunctionOnSet(f(n + 1), 1..n + 1)
    BY <1>1
  <2> QED
    BY <1>2, <2>1, SumRemove
<1>8. SumFunctionOnSet(f(n), 1..n) = SumFunctionOnSet(f(n + 1), 1..n)
  BY <1>1, <1>4, SumSame
<1> QED
  BY <1>1, <1>3, <1>5, <1>6, <1>7, <1>8

\* Spread rates add up to the harmonic number of them at most.
LEMMA SpreadSum ==
  ASSUME NEW L, IsFiniteSet(L), NEW claims, Spread(L, claims),
         NEW rate, \A t \in L : rate[t] \in Int /\ rate[t] \in claims[t]
  PROVE  SumFunctionOnSet(rate, L) <= Harmonic(Cardinality(L))
<1> DEFINE A == [s \in SUBSET L |-> SumFunctionOnSet(rate, s)]
           F == {s \in SUBSET L : ~(A[s] <= Harmonic(Cardinality(s)))}
<1>1. \A s \in SUBSET L :
        /\ IsFiniteSet(s) /\ A[s] \in Int
        /\ s = {} => A[s] = 0
        /\ \A x \in s : A[s] = rate[x] + A[s \ {x}]
  <2> TAKE s \in SUBSET L
  <2>1. IsFiniteSet(s) /\ \A x \in s : rate[x] \in Int
    BY FS_Subset
  <2> QED
    BY <2>1, SumRemove, SumStep
<1> HIDE DEF A
<1> SUFFICES ASSUME F # {}
             PROVE  FALSE
  BY DEF A
<1>2. PICK s \in F : \A V \in F : V \subseteq s => V = s
  <2>1. F \in SUBSET SUBSET L
    OBVIOUS
  <2> HIDE DEF F
  <2> QED
    BY <2>1, SmallestSubset
<1>3. s \in SUBSET L /\ ~(A[s] <= Harmonic(Cardinality(s))) /\ IsFiniteSet(s)
  BY <1>1, <1>2
<1>4. s # {}
  BY <1>1, <1>3, FS_EmptySet, HarmonicStep
<1>5. PICK t \in s : \A r \in claims[t] : r <= Bandwidth \div Cardinality(s)
  BY <1>3, <1>4 DEF Spread
<1>6. s \ {t} \in SUBSET L /\ s \ {t} \notin F
  BY <1>2, <1>3, <1>5
<1>7. A[s \ {t}] <= Harmonic(Cardinality(s \ {t}))
  BY <1>6
<1> HIDE DEF F
<1> DEFINE n == Cardinality(s \ {t})
<1>8. n \in Nat /\ Cardinality(s) = n + 1
  <2>1. Cardinality(s \ {t}) = Cardinality(s) - 1 /\ IsFiniteSet(s \ {t})
    BY <1>3, <1>5, FS_RemoveElement
  <2>2. Cardinality(s) \in Nat /\ Cardinality(s \ {t}) \in Nat
    BY <1>3, <2>1, FS_CardinalityType
  <2> QED
    BY <2>1, <2>2
<1>9. /\ rate[t] <= Bandwidth \div (n + 1) /\ rate[t] \in Int
      /\ A[s] = rate[t] + A[s \ {t}] /\ A[s \ {t}] \in Int
  BY <1>1, <1>3, <1>5, <1>6, <1>8
<1>10. /\ Harmonic(n) \in Int
       /\ Harmonic(n + 1) = Bandwidth \div (n + 1) + Harmonic(n)
  BY <1>8, HarmonicStep
<1>11. Bandwidth \div (n + 1) \in Int
  BY <1>8, PolicyAssumption
<1> QED
  <2>1. ~(A[s] <= Harmonic(n + 1)) /\ A[s \ {t}] <= Harmonic(n)
    BY <1>3, <1>7, <1>8
  <2> HIDE DEF n
  <2> QED
    BY <1>9, <1>10, <1>11, <2>1

\* What the policies that divide evenly give.
LEMMA EvenRates ==
  ASSUME NEW kind \in Even, NEW ws, Snap(ws), NEW w, NEW now \in Int
  PROVE  LET given == Decide(kind, w, ws, now)
             n == Cardinality(Sharers(kind, ws))
         IN  /\ given = Decide(kind, w, ws, 0)
             /\ given.action \in {"HOLD", "START_FLUSH"} /\ given.rate \in Nat
             /\ given.action = "HOLD" => given.rate = 0
             /\ IsFiniteSet(Sharers(kind, ws))
             /\ w \in Sharers(kind, ws) =>
                  n \in Nat \ {0} /\ given.rate = Bandwidth \div n
             /\ kind = "active-fair-share" /\ w \notin Sharers(kind, ws) =>
                  given.rate = 0
<1> DEFINE given == Decide(kind, w, ws, now)
           S == Sharers(kind, ws)
           n == Cardinality(S)
<1>1. /\ given.action \in {"HOLD", "START_FLUSH"} /\ given.rate \in Nat
      /\ given.action = "HOLD" => given.rate = 0
  BY DecidesAnInstruction DEF Even, Policy
<1>2. IsFiniteSet(S)
  BY ActiveFinite DEF Sharers, Snap
<1>3. n \in Nat /\ (w \in S => n # 0)
  BY <1>2, FS_CardinalityType, FS_EmptySet
<1>4. CASE kind = "uniform-fair-share"
  <2>1. given = Decide(kind, w, ws, 0)
    BY <1>4, Zenon DEF Decide, UniformFairShare
  <2>2. S = DOMAIN ws
    BY <1>4 DEF Sharers
  <2>3. n > 0 => given.rate = Bandwidth \div n
    BY <1>2, <1>4, <2>2, UniformRate
  <2> HIDE DEF given, S
  <2> QED
    BY <1>1, <1>2, <1>3, <1>4, <2>1, <2>3 DEF given, S
<1>5. CASE kind = "active-fair-share"
  <2> DEFINE weight == [v \in Active(ws) |-> 1]
  <2>1. given = Weighted(weight, w) /\ Decide(kind, w, ws, 0) = Weighted(weight, w)
    BY <1>5, Zenon DEF Decide, ActiveFairShare
  <2>2. S = Active(ws)
    BY <1>5 DEF Sharers
  <2>3. Weighs(weight, S)
    BY <1>2, <2>2 DEF Weighs
  <2>4. TotalWeight(weight) = n
    <3>1. TotalWeight(weight) = SumFunctionOnSet(weight, S)
      BY <2>3, TotalOfWeights
    <3>2. \A v \in S : weight[v] = 1
      BY <2>2
    <3> HIDE DEF weight, S
    <3> QED
      BY <1>2, <3>1, <3>2, SumOnes
  <2>5. ASSUME w \in S
        PROVE  given.rate = Bandwidth \div n
    <3>1. w \in DOMAIN weight /\ weight[w] = 1
      BY <2>2, <2>5
    <3>2. Weighted(weight, w).rate = (Bandwidth * weight[w]) \div n
      BY <2>4, <3>1 DEF Weighted, Start
    <3> HIDE DEF weight, S, n, given
    <3> QED
      BY <2>1, <3>1, <3>2, PolicyAssumption
  <2>6. ASSUME w \notin S
        PROVE  given.rate = 0
    BY <2>1, <2>3, <2>6, HeldByWeight DEF Hold
  <2> HIDE DEF given, S, weight
  <2> QED
    BY <1>1, <1>2, <1>3, <2>1, <2>5, <2>6 DEF given, S
<1> QED
  BY <1>4, <1>5 DEF Even

\* A stream claims what it was last told, and what it is about to be told.
Prospect(s) == Decide(policy, WorkerOf[s], snap[s], 0).rate
Claims(s) == {Granted(s)} \cup {r \in {Prospect(s)} : pc[s] = "decide"}
Live == {s \in Stream : WorkerOf[s] \in Sharing}


\* One process on each host, and none restarted.
OneStreamEach == \A s, t \in Stream : WorkerOf[s] = WorkerOf[t] => s = t

\* No more streams have a share than workers.
LEMMA FewerLive ==
  ASSUME OneStreamEach, IsFiniteSet(Sharing)
  PROVE  /\ IsFiniteSet(Live) /\ Cardinality(Live) \in Nat
         /\ Cardinality(Sharing) \in Nat
         /\ Cardinality(Live) <= Cardinality(Sharing)
<1> DEFINE f == [s \in Live |-> WorkerOf[s]]
<1>1. f \in Injection(Live, Sharing)
  BY DEF OneStreamEach, Live, Injection, IsInjective
<1> HIDE DEF f
<1>2. IsFiniteSet(Live) /\ Cardinality(Live) <= Cardinality(Sharing)
  BY <1>1, FS_Injection
<1> QED
  BY <1>2, FS_CardinalityType

\* What a step does to a stream's handler, where the registry is left alone.
LEMMA HandlerSteps ==
  ASSUME StreamsOK, AnswersOK, [Next]_vars, NEW t \in Stream
  PROVE  \/ Update(t) \/ SendExit(t) \/ Snapshot(t) \/ Answer(t) \/ Finally(t)
         \/ /\ sent'[t] = sent[t] /\ snap'[t] = snap[t]
            /\ \/ pc'[t] = pc[t]
               \/ pc[t] = "closed" /\ pc'[t] = "queued"
               \/ pc[t] = "queued" /\ pc'[t] = "reading"
               \/ pc[t] = "reading" /\ pc'[t] \in {"update", "finally"}
               \/ pc[t] = "test" /\ pc'[t] = "snapshot"
<1> USE DEF StreamsOK, AnswersOK
<1>1. ASSUME NEW s \in Stream, s # t, Handle(s)
      PROVE  sent'[t] = sent[t] /\ snap'[t] = snap[t] /\ pc'[t] = pc[t]
  <2>1. CASE Serve(s) \/ Receive(s) \/ Update(s) \/ NoExit(s)
    BY <1>1, <2>1 DEF Serve, Receive, Update, NoExit
  <2>2. CASE SendExit(s) \/ Finally(s)
    BY <1>1, <2>2 DEF SendExit, Finally
  <2>3. CASE Snapshot(s)
    BY <1>1, <2>3 DEF Snapshot
  <2>4. CASE Answer(s)
    BY <1>1, <2>4 DEF Answer
  <2> QED
    BY <1>1, <2>1, <2>2, <2>3, <2>4 DEF Handle
<1>2. ASSUME NEW s \in Stream, Open(s) \/ EndOfStream(s) \/ Serve(s) \/ Receive(s)
                               \/ NoExit(s)
      PROVE  /\ sent'[t] = sent[t] /\ snap'[t] = snap[t]
             /\ \/ pc'[t] = pc[t]
                \/ pc[t] = "closed" /\ pc'[t] = "queued"
                \/ pc[t] = "queued" /\ pc'[t] = "reading"
                \/ pc[t] = "reading" /\ pc'[t] \in {"update", "finally"}
                \/ pc[t] = "test" /\ pc'[t] = "snapshot"
  BY <1>2 DEF Open, EndOfStream, Serve, Receive, NoExit
<1>3. CASE RequestShutdown \/ Tick \/ UNCHANGED vars
  BY <1>3 DEF RequestShutdown, Tick, vars
<1> QED
  BY <1>1, <1>2, <1>3 DEF Next, Handle

\* The service never changes its policy.
LEMMA PolicyIsKept ==
  ASSUME [Next]_vars
  PROVE  policy' = policy
BY DEF Next, Handle, Open, Serve, Receive, Update, SendExit, NoExit, Snapshot,
       Answer, EndOfStream, Finally, RequestShutdown, Tick, vars

\* Only its own heartbeat, or its own end, changes whether a worker has a share.
LEMMA SharingIsKept ==
  ASSUME OneStreamEach, [Next]_vars, NEW t \in Stream, ~Update(t), ~Finally(t)
  PROVE  WorkerOf[t] \in Sharing' <=> WorkerOf[t] \in Sharing
<1>1. ASSUME NEW s \in Stream, Update(s)
      PROVE  WorkerOf[t] \in Sharing' <=> WorkerOf[t] \in Sharing
  <2>1. WorkerOf[t] # WorkerOf[s]
    BY <1>1 DEF OneStreamEach
  <2> QED
    BY <1>1, <2>1, UpdateRegisters, PolicyIsKept DEF Sharing, Active
<1>2. ASSUME NEW s \in Stream, Finally(s)
      PROVE  WorkerOf[t] \in Sharing' <=> WorkerOf[t] \in Sharing
  <2>1. WorkerOf[t] # WorkerOf[s]
    BY <1>2 DEF OneStreamEach
  <2> QED
    BY <1>2, <2>1, FinallyRemoves, PolicyIsKept DEF Sharing, Active, Remaining
<1>3. CASE UNCHANGED workers
  BY <1>3, PolicyIsKept DEF Sharing
<1> QED
  BY <1>1, <1>2, <1>3, RegistrySteps

\* With one stream for each worker a heartbeat being answered is registered.
LEMMA AnsweredIsRegistered ==
  ASSUME OneStreamEach, ConnectedIsRegistered, IdentifiedInv,
         NEW s \in Stream, pc[s] \in {"test", "snapshot", "decide"}
  PROVE  WorkerOf[s] \in DOMAIN workers
BY DEF OneStreamEach, ConnectedIsRegistered, IdentifiedInv

TypesInv == StreamsOK /\ AnswersOK /\ RegistryOK /\ FiniteInv
            /\ IdentifiedInv /\ ConnectedIsRegistered

\* What a handler decides from is up to date for its own worker; and a worker that
\* has no share, and is yet to be looked at anew, has no rate.
UpToDate ==
  /\ \A s \in Stream :
       pc[s] = "decide" =>
         (WorkerOf[s] \in Sharers(policy, snap[s]) <=> WorkerOf[s] \in Sharing)
  /\ \A s \in Stream :
       pc[s] \in {"closed", "queued", "reading", "update"}
       /\ WorkerOf[s] \notin Sharing
         => Granted(s) = 0

\* Nobody else invalidates what a handler has read about its own worker.
LEMMA UpToDateStep ==
  ASSUME OneStreamEach, TypesInv, UpToDate, policy \in Even, [Next]_vars
  PROVE  UpToDate'
<1>1. ASSUME NEW s \in Stream, pc'[s] = "decide"
      PROVE  WorkerOf[s] \in Sharers(policy, snap[s])' <=> WorkerOf[s] \in Sharing'
  <2>1. CASE Snapshot(s)
    <3>1. snap'[s] = workers /\ workers' = workers /\ policy' = policy
      BY <2>1, PolicyIsKept DEF Snapshot, TypesInv, AnswersOK
    <3> QED
      BY <3>1 DEF Sharers, Sharing
  <2>2. CASE ~Snapshot(s)
    <3>1. /\ ~Update(s) /\ ~Finally(s)
          /\ pc[s] = "decide" /\ snap'[s] = snap[s]
      BY <1>1, <2>2, HandlerSteps
         DEF TypesInv, StreamsOK, Update, SendExit, Answer, Finally
    <3> QED
      BY <3>1, SharingIsKept, PolicyIsKept DEF UpToDate, Sharers
  <2> QED
    BY <2>1, <2>2
<1>2. ASSUME NEW s \in Stream,
             pc'[s] \in {"closed", "queued", "reading", "update"},
             WorkerOf[s] \notin Sharing'
      PROVE  Granted(s)' = 0
  <2>1. CASE Answer(s)
    <3>1. /\ pc[s] = "decide" /\ workers' = workers
          /\ sent'[s] = Decide(policy, WorkerOf[s], snap[s], clock)
      BY <2>1 DEF Answer, TypesInv, AnswersOK
    <3>2. WorkerOf[s] \notin Sharing /\ WorkerOf[s] \notin Sharers(policy, snap[s])
      BY <1>2, <3>1, PolicyIsKept DEF UpToDate, Sharing
    <3>3. policy = "active-fair-share"
      BY <3>1, <3>2, AnsweredIsRegistered DEF TypesInv, Sharing
    <3>4. Snap(snap[s]) /\ clock \in Int
      BY RegistryIsSnap DEF TypesInv, AnswersOK, StreamsOK
    <3>5. sent'[s].rate = 0
      BY <3>1, <3>2, <3>3, <3>4, EvenRates
    <3> QED
      BY <3>5 DEF Granted
  <2>2. CASE ~Answer(s)
    <3>1. /\ ~Update(s) /\ ~Finally(s) /\ sent'[s] = sent[s]
          /\ pc[s] \in {"closed", "queued", "reading", "update"}
      BY <1>2, <2>2, HandlerSteps
         DEF TypesInv, StreamsOK, Update, SendExit, Snapshot, Finally
    <3> QED
      BY <1>2, <3>1, SharingIsKept DEF UpToDate, Granted
  <2> QED
    BY <2>1, <2>2
<1> QED
  BY <1>1, <1>2 DEF UpToDate

\* The rates of those who have a share are spread.
SpreadInv == Spread(Live, [s \in Stream |-> Claims(s)])

\* A claim after a step was one before it, or is zero, or is a new prospect.
LEMMA ClaimSteps ==
  ASSUME OneStreamEach, TypesInv, UpToDate, policy \in Even, [Next]_vars,
         NEW t \in Live', NEW r \in Claims(t)'
  PROVE  \/ t \in Live /\ r \in Claims(t)
         \/ r = 0
         \/ /\ t \in Live /\ UNCHANGED workers
            /\ r = Bandwidth \div Cardinality(Sharing)
            /\ Cardinality(Sharing) \in Nat \ {0} /\ IsFiniteSet(Sharing)
<1>1. t \in Stream /\ WorkerOf[t] \in Sharing'
  BY DEF Live
<1>2. r = Granted(t)' \/ (r = Prospect(t)' /\ pc'[t] = "decide")
  BY DEF Claims
<1>3. /\ sent \in [Stream -> Instruction]
      /\ policy' = policy
  BY PolicyIsKept DEF TypesInv, AnswersOK
<1>4. CASE Update(t)
  <2>1. r = Granted(t) /\ pc[t] = "update"
    BY <1>1, <1>2, <1>4 DEF Update, Granted, TypesInv, StreamsOK
  <2> QED
    BY <1>1, <2>1 DEF Claims, Live, UpToDate
<1>5. CASE SendExit(t) \/ Finally(t)
  <2>1. /\ pc'[t] # "decide"
        /\ sent'[t].action # "START_FLUSH"
    BY <1>1, <1>3, <1>5
       DEF SendExit, Finally, Hold, ExitNow, TypesInv, StreamsOK
  <2> QED
    BY <1>2, <2>1 DEF Granted
<1>6. CASE Snapshot(t)
  <2>1. /\ snap'[t] = workers /\ workers' = workers /\ sent' = sent
    BY <1>1, <1>6 DEF Snapshot, TypesInv, AnswersOK
  <2>2. WorkerOf[t] \in Sharing /\ Sharing = Sharers(policy, workers)
    BY <1>1, <1>3, <2>1 DEF Sharing, Sharers
  <2>3. CASE r = Granted(t)'
    BY <1>1, <2>1, <2>2, <2>3 DEF Claims, Live, Granted
  <2>4. CASE r = Prospect(t)'
    <3>1. r = Decide(policy, WorkerOf[t], workers, 0).rate
      BY <1>3, <2>1, <2>4 DEF Prospect
    <3>2. Snap(workers)
      BY RegistryIsSnap DEF TypesInv, RegistryOK, FiniteInv
    <3>3. /\ r = Bandwidth \div Cardinality(Sharing)
          /\ Cardinality(Sharing) \in Nat \ {0} /\ IsFiniteSet(Sharing)
      BY <2>2, <3>1, <3>2, EvenRates
    <3> QED
      BY <1>1, <2>1, <2>2, <3>3 DEF Live
  <2> QED
    BY <1>2, <2>3, <2>4
<1>7. CASE Answer(t)
  <2>1. /\ pc[t] = "decide" /\ pc'[t] = "reading" /\ workers' = workers
        /\ sent'[t] = Decide(policy, WorkerOf[t], snap[t], clock)
    BY <1>1, <1>7 DEF Answer, TypesInv, AnswersOK, StreamsOK
  <2>2. Snap(snap[t]) /\ clock \in Int
    BY <1>1, RegistryIsSnap DEF TypesInv, AnswersOK, StreamsOK
  <2>3. /\ sent'[t] = Decide(policy, WorkerOf[t], snap[t], 0)
        /\ sent'[t].action = "HOLD" => sent'[t].rate = 0
        /\ sent'[t].action \in {"HOLD", "START_FLUSH"}
    BY <2>1, <2>2, EvenRates
  <2>4. r = Prospect(t)
    BY <1>2, <2>1, <2>3 DEF Granted, Prospect
  <2>5. WorkerOf[t] \in Sharing
    BY <1>1, <1>3, <2>1 DEF Sharing
  <2> QED
    BY <1>1, <2>1, <2>4, <2>5 DEF Claims, Live
<1>8. CASE ~(Update(t) \/ SendExit(t) \/ Snapshot(t) \/ Answer(t) \/ Finally(t))
  <2>1. /\ sent'[t] = sent[t] /\ snap'[t] = snap[t]
        /\ pc'[t] = "decide" => pc[t] = "decide"
    BY <1>1, <1>8, HandlerSteps DEF TypesInv
  <2>2. t \in Live
    BY <1>1, <1>8, SharingIsKept DEF Live
  <2> QED
    BY <1>2, <1>3, <2>1, <2>2 DEF Claims, Granted, Prospect
<1> QED
  BY <1>4, <1>5, <1>6, <1>7, <1>8

\* The claims stay spread: an answer divides the bandwidth by at least as many
\* workers as share it.
LEMMA SpreadInvStep ==
  ASSUME OneStreamEach, IsFiniteSet(Stream), TypesInv, UpToDate, SpreadInv,
         policy \in Even, [Next]_vars
  PROVE  SpreadInv'
<1> DEFINE old == [s \in Stream |-> Claims(s)]
<1>1. PICK M, new : M = Live' /\ new = [s \in Stream |-> Claims(s)']
  OBVIOUS
<1>2. M \in SUBSET Stream /\ IsFiniteSet(M)
  BY <1>1, FS_Subset DEF Live
<1>3. ASSUME NEW t \in M, NEW r \in new[t]
      PROVE  \/ t \in Live /\ r \in old[t]
             \/ r \in Int /\ r <= Bandwidth \div Cardinality(M)
  <2>1. t \in Live' /\ r \in Claims(t)'
    BY <1>1, <1>2, <1>3
  <2>2. Cardinality(M) \in Nat \ {0}
    BY <1>2, <1>3, FS_CardinalityType, FS_EmptySet
  <2>3. CASE t \in Live /\ r \in Claims(t)
    BY <2>3 DEF Live
  <2>4. CASE r = 0
    BY <2>2, <2>4, PolicyAssumption, Quotient
  <2>5. CASE /\ t \in Live /\ UNCHANGED workers
             /\ r = Bandwidth \div Cardinality(Sharing)
             /\ Cardinality(Sharing) \in Nat \ {0} /\ IsFiniteSet(Sharing)
    <3>1. M = Live
      BY <1>1, <2>5, PolicyIsKept DEF Live, Sharing
    <3>2. Cardinality(M) <= Cardinality(Sharing)
      BY <2>5, <3>1, FewerLive
    <3> QED
      BY <2>2, <2>5, <3>2, SmallerShare, PolicyAssumption
  <2> QED
    BY <2>1, <2>3, <2>4, <2>5, ClaimSteps
<1>4. Spread(Live, old)
  BY DEF SpreadInv
<1> HIDE DEF old
<1>5. Spread(M, new)
  BY <1>2, <1>3, <1>4, SpreadStep
<1> QED
  BY <1>1, <1>5 DEF SpreadInv

\* The rates that the migraters hold exceed the bandwidth by a harmonic number at
\* most, for any number of workers and threads and in every order in which they
\* come, report, fall idle, are answered and leave (scheduler.py 132-174,
\* server.py 84-145), where no process is restarted.
THEOREM OvershootIsBounded ==
  ASSUME IsFiniteSet(Stream), OneStreamEach
  PROVE  Spec => []OvershootBounded
<1> DEFINE Inv == policy \in Even => UpToDate /\ SpreadInv
<1>1. Init => Inv
  <2> SUFFICES ASSUME Init
               PROVE  UpToDate /\ SpreadInv
    OBVIOUS
  <2>1. Sharing = {}
    BY DEF Init, Sharing, Active, NoWorkers
  <2>2. UpToDate
    BY DEF Init, UpToDate, Granted, Hold
  <2>3. Live = {}
    BY <2>1 DEF Live
  <2> QED
    BY <2>2, <2>3 DEF SpreadInv, Spread
<1>2. Inv /\ TypesInv /\ [Next]_vars => Inv'
  BY UpToDateStep, SpreadInvStep, PolicyIsKept
<1>3. Inv /\ TypesInv => OvershootBounded
  <2> DEFINE live == {s \in Stream : /\ identified[s] /\ Unrestarted(s)
                                     /\ WorkerOf[s] \in Sharing}
  <2> SUFFICES ASSUME Inv, TypesInv, policy \in Even
               PROVE  SumFunction([s \in live |-> Granted(s)])
                        <= Harmonic(Cardinality(live))
    BY DEF OvershootBounded, Even
  <2> DEFINE claims == [s \in Stream |-> Claims(s)]
             rate == [s \in live |-> Granted(s)]
  <2>1. IsFiniteSet(live)
    BY FS_Subset
  <2>2. Spread(live, claims)
    BY DEF SpreadInv, Spread, Live
  <2>3. \A s \in live : rate[s] \in Int /\ rate[s] \in claims[s]
    BY DEF TypesInv, AnswersOK, Granted, Instruction, Claims
  <2>4. SumFunction(rate) = SumFunctionOnSet(rate, live)
    BY DEF SumFunction
  <2> HIDE DEF live, claims, rate
  <2>5. SumFunctionOnSet(rate, live) <= Harmonic(Cardinality(live))
    BY <2>1, <2>2, <2>3, SpreadSum
  <2> QED
    BY <2>4, <2>5 DEF live, rate
<1> QED
  <2>1. Spec => []TypesInv
    BY StreamsTyping, AnswersTyping, RegistryTyping, RegistryFinite,
       ConnectedAreRegistered, PTL DEF TypesInv
  <2> QED
    BY <1>1, <1>2, <1>3, <2>1, PTL DEF Spec
=============================================================================
