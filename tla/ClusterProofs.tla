---------------------------- MODULE ClusterProofs ----------------------------
(***************************************************************************)
(* Theorems about the orchestrator and its migraters together, for any     *)
(* number of hosts and of messages on their way, any size of checkpoint    *)
(* and every fault.                                                        *)
(***************************************************************************)
EXTENDS ClusterGrants, OrchestratorProofs, SequenceTheorems

USE DEF Env, handler, Move, Becomes

Node == [proc : {"off", "up", "gone"}, connected : BOOLEAN,
         stage : {"idle", "waiting", "copying"},
         left : 0..Size, pending : 0..Size, item : {NoItem} \cup 0..Size,
         allowed : BOOLEAN, rate : Nat, requested : BOOLEAN,
         complete : BOOLEAN, raised : BOOLEAN]

\* The types of the service, of which CTypeOK says nothing, ...
ServiceOK ==
  /\ policy \in Chosen /\ clock \in 0..MaxTime /\ shuttingDown \in BOOLEAN
  /\ pc \in [Stream -> StreamPC]
  /\ RegistryOK /\ FiniteInv

\* ... and of the migraters and the links.
NodesOK ==
  /\ node \in [Stream -> Node]
  /\ up \in [Stream -> Seq(0..Size)] /\ down \in [Stream -> Seq(Instruction)]
  /\ \A s \in Stream : node[s].complete => node[s].requested

\* The steps of a migrater, and those of its handler.
Own(s) == \/ Boot(s) \/ Offer(s) \/ Beat(s) \/ Ignore(s) \/ Obey(s) \/ Leave(s)
          \/ Begin(s) \/ Copy(s) \/ Finish(s) \/ Raise(s)
          \/ Exit(s) \/ Crash(s) \/ Break(s)
Handled(s) == Thread(s) \/ Reply(s) \/ Notice(s)

\* A step is one of a migrater, of its handler, or the request to stop.
LEMMA ClusterSteps ==
  ASSUME [CNext]_cvars
  PROVE  \/ \E s \in Stream : Own(s) \/ Handled(s)
         \/ Stop \/ UNCHANGED cvars
BY DEF CNext, Own, Handled

\* A queue after a message has been taken from it, and after one has been added.
LEMMA QueueTaken ==
  ASSUME NEW S, NEW q \in Seq(S), q # <<>>
  PROVE  /\ Head(q) \in S /\ Head(q) = q[1] /\ 1 \in 1..Len(q)
         /\ Tail(q) \in Seq(S) /\ Len(q) \in Nat \ {0} /\ Len(Tail(q)) = Len(q) - 1
         /\ \A i \in 1..Len(Tail(q)) : i + 1 \in 1..Len(q) /\ Tail(q)[i] = q[i + 1]
<1>1. Len(q) \in Nat \ {0} /\ Head(q) = q[1]
  BY EmptySeq
<1>2. /\ Head(q) \in S /\ Tail(q) \in Seq(S) /\ Len(Tail(q)) = Len(q) - 1
      /\ \A i \in 1..Len(Tail(q)) : Tail(q)[i] = q[i + 1]
  BY HeadTailProperties
<1> QED
  BY <1>1, <1>2

LEMMA QueueAdded ==
  ASSUME NEW S, NEW q \in Seq(S), NEW x \in S
  PROVE  /\ Append(q, x) \in Seq(S) /\ Len(q) \in Nat
         /\ Len(Append(q, x)) = Len(q) + 1
         /\ \A i \in 1..Len(q) : Append(q, x)[i] = q[i]
         /\ Append(q, x)[Len(q) + 1] = x
BY AppendProperties, LenProperties

\* What the report of a migrater makes of the registry.
LEMMA ReplyRegisters ==
  ASSUME ServiceOK, NodesOK, NEW s \in Stream, Reply(s)
  PROVE  /\ Head(up[s]) \in 0..Size
         /\ DOMAIN workers' = DOMAIN workers \cup {WorkerOf[s]}
         /\ workers'[WorkerOf[s]].size = Head(up[s])
         /\ \A w \in DOMAIN workers \ {WorkerOf[s]} : workers'[w] = workers[w]
         /\ RegistryOK' /\ FiniteInv'
<1> DEFINE b == [report |-> <<Head(up[s]), 0, 0>>, now |-> clock]
<1>a. Head(up[s]) \in 0..Size
  BY QueueTaken DEF NodesOK, Reply
<1>b. /\ b.report \in Nat \X Int \X Int /\ b.now = clock
      /\ b.report[1] = Head(up[s])
  BY <1>a, ClusterAssumption
<1>c. workers' = Registered(WorkerOf[s], b)
  BY DEF Reply
<1> HIDE DEF b
<1> DEFINE w == WorkerOf[s]
           prev == IF w \in DOMAIN workers THEN workers[w].since ELSE NoTime
<1>1. /\ DOMAIN workers' = DOMAIN workers \cup {w}
      /\ workers'[w] = NewState(w, b)
      /\ \A v \in DOMAIN workers \ {w} : workers'[v] = workers[v]
  BY <1>c DEF Registered
<1>2. /\ b.report[1] \in Nat /\ b.report[2] \in Int /\ b.report[3] \in Int
      /\ b.now \in 0..MaxTime
  BY <1>b DEF ServiceOK
<1>3. prev \in {NoTime} \cup 0..MaxTime
  BY DEF ServiceOK, RegistryOK, Registry, WorkerState
<1>4. /\ PendingSince(prev, b) \in {NoTime} \cup 0..MaxTime
      /\ b.report[1] > 0 <=> PendingSince(prev, b) # NoTime
  BY <1>2, <1>3, StreamAssumption DEF PendingSince, NoTime
<1>5. /\ workers'[w] = [size |-> b.report[1], since |-> PendingSince(prev, b),
                        epoch |-> b.report[2], total |-> b.report[3]]
  BY <1>1 DEF NewState
<1>6. w \in Worker
  BY StreamAssumption
<1> HIDE DEF w, prev
<1>7. RegistryOK'
  BY <1>1, <1>2, <1>4, <1>5, <1>6
     DEF RegistryOK, Registry, WorkerState, ServiceOK
<1>8. FiniteInv'
  <2>1. IsFiniteSet(DOMAIN workers \cup {w})
    BY FS_AddElement DEF ServiceOK, FiniteInv
  <2> QED
    BY <1>1, <2>1 DEF FiniteInv
<1> QED
  BY <1>1, <1>5, <1>7, <1>8, <1>a, <1>b DEF w

\* The service keeps its types: an answered heartbeat and the end of a stream are
\* all that changes the registry.
LEMMA ServiceStep ==
  ASSUME ServiceOK, NodesOK, [CNext]_cvars
  PROVE  ServiceOK' /\ policy' = policy /\ clock' = clock
<1>1. ASSUME NEW s \in Stream, Reply(s)
      PROVE  ServiceOK' /\ policy' = policy /\ clock' = clock
  <2>1. pc' \in [Stream -> StreamPC] /\ UNCHANGED Env
    BY <1>1 DEF Reply, ServiceOK, StreamPC
  <2> QED
    BY <1>1, <2>1, ReplyRegisters DEF ServiceOK
<1>2. ASSUME NEW s \in Stream, Finally(s)
      PROVE  ServiceOK' /\ policy' = policy /\ clock' = clock
  <2>1. pc' \in [Stream -> StreamPC] /\ UNCHANGED Env
    BY <1>2 DEF Finally, ServiceOK, StreamPC
  <2>2. RegistryOK'
    BY <1>2, FinallyRemoves DEF RegistryOK, Registry, Remaining, ServiceOK
  <2>3. FiniteInv'
    <3>1. DOMAIN workers' \in SUBSET DOMAIN workers
      BY <1>2, FinallyRemoves DEF Remaining
    <3> QED
      BY <3>1, FS_Subset DEF FiniteInv, ServiceOK
  <2> QED
    BY <2>1, <2>2, <2>3 DEF ServiceOK
<1>3. ASSUME NEW s \in Stream, Boot(s) \/ Serve(s) \/ Notice(s)
      PROVE  ServiceOK' /\ policy' = policy /\ clock' = clock
  BY <1>3 DEF Boot, Open, Serve, Notice, EndOfStream, ServiceOK, StreamPC,
              RegistryOK, FiniteInv
<1>4. CASE Stop
  BY <1>4 DEF Stop, RequestShutdown, ServiceOK, RegistryOK, FiniteInv
<1>5. CASE UNCHANGED orchestrator
  BY <1>5 DEF orchestrator, ServiceOK, RegistryOK, FiniteInv
<1>6. ASSUME NEW s \in Stream, Own(s), ~Boot(s)
      PROVE  UNCHANGED orchestrator
  BY <1>6 DEF Own, Offer, Beat, Ignore, Obey, Leave, Takes, Begin, Copy, Finish,
              Raise, Exit, Crash, Break, Transfers, Gone
<1> QED
  BY <1>1, <1>2, <1>3, <1>4, <1>5, <1>6, ClusterSteps
     DEF Handled, Thread, cvars


\* A step changes the migrater, and the queues, of one stream.
Untouched(s) == node'[s] = node[s] /\ up'[s] = up[s] /\ down'[s] = down[s]

LEMMA OthersAreLeft ==
  ASSUME NodesOK, NEW s \in Stream, Own(s) \/ Handled(s)
  PROVE  /\ node' = [t \in Stream |-> node'[t]]
         /\ up' = [t \in Stream |-> up'[t]] /\ down' = [t \in Stream |-> down'[t]]
         /\ \A t \in Stream \ {s} : Untouched(t)
<1> USE DEF NodesOK, Untouched
<1>1. CASE Boot(s) \/ Offer(s) \/ Beat(s)
  BY <1>1 DEF Boot, Offer, Beat
<1>2. CASE Begin(s) \/ Copy(s) \/ Finish(s) \/ Raise(s)
  BY <1>2 DEF Begin, Copy, Finish, Raise, Transfers
<1>3. CASE Ignore(s) \/ Obey(s) \/ Leave(s)
  BY <1>3 DEF Ignore, Obey, Leave, Takes, Taken, Forgotten
<1>4. CASE Exit(s) \/ Crash(s) \/ Break(s)
  BY <1>4 DEF Exit, Crash, Break, Gone, Forgotten
<1>5. CASE Thread(s) \/ Notice(s)
  BY <1>5 DEF Thread, Notice
<1>6. CASE Reply(s)
  <2>1. PICK q : down' = [down EXCEPT ![s] = q]
    BY <1>6, Zenon DEF Reply
  <2> QED
    BY <1>6, <2>1 DEF Reply
<1> QED
  BY <1>1, <1>2, <1>3, <1>4, <1>5, <1>6 DEF Own, Handled

NodeOK(n) == n \in Node /\ (n.complete => n.requested)

\* What the policy answers.
LEMMA ReplyAnswers ==
  ASSUME ServiceOK, NodesOK, NEW s \in Stream, Reply(s)
  PROVE  \E i \in Instruction :
           /\ i = IF shuttingDown THEN ExitNow
                  ELSE Decide(policy, WorkerOf[s], workers', clock)
           /\ down'[s] = IF node[s].connected THEN Append(down[s], i) ELSE down[s]
<1> DEFINE i == IF shuttingDown THEN ExitNow
                ELSE Decide(policy, WorkerOf[s], workers', clock)
<1>1. down'[s] = IF node[s].connected THEN Append(down[s], i) ELSE down[s]
  BY DEF Reply, NodesOK
<1>2. PICK ws : ws = workers'
  OBVIOUS
<1>3. Registry(ws) /\ IsFiniteSet(DOMAIN ws)
  BY <1>2, ReplyRegisters DEF RegistryOK, FiniteInv, Registry
<1>4. policy \in Policy /\ Snap(ws) /\ clock \in Int
  BY <1>3, RegistryIsSnap, StreamAssumption DEF ServiceOK
<1>5. Decide(policy, WorkerOf[s], ws, clock) \in Instruction
  BY <1>4, DecidesAnInstruction DEF Instruction
<1>6. ExitNow \in Instruction
  BY StreamAssumption DEF ExitNow, Instruction
<1>7. i \in Instruction
  BY <1>2, <1>5, <1>6
<1> HIDE DEF i
<1> QED
  BY <1>1, <1>7 DEF i

\* What the end of a copy leaves of a migrater is well-formed.
LEMMA EndedOK ==
  ASSUME NEW n, NodeOK(n)
  PROVE  /\ NodeOK([Ended(n) EXCEPT !.item = 0])
         /\ NodeOK([Ended(n) EXCEPT !.raised = TRUE])
<1> DEFINE e == Ended(n)
<1> USE DEF NodeOK, Node
<1>1. NodeOK(e)
  <2>1. 0 \in 0..Size
    BY ClusterAssumption
  <2>2. n.requested \in BOOLEAN
    OBVIOUS
  <2>3. CASE n.requested = TRUE
    BY <2>1, <2>3 DEF Ended
  <2>4. CASE n.requested = FALSE
    BY <2>1, <2>4 DEF Ended
  <2> QED
    BY <2>2, <2>3, <2>4
<1>2. 0 \in 0..Size
  BY ClusterAssumption
<1> HIDE DEF e
<1>3. NodeOK([e EXCEPT !.item = 0]) /\ NodeOK([e EXCEPT !.raised = TRUE])
  BY <1>1, <1>2
<1> QED
  BY <1>3 DEF e

\* Each step of a migrater, as the transfer and its rate see it.
LEMMA OwnSteps ==
  ASSUME NodesOK, NEW s \in Stream, Own(s)
  PROVE  NodeOK(node'[s])
<1> DEFINE n == node[s]
<1>1. NodeOK(n)
  BY DEF NodesOK, NodeOK
<1>0. NodeOK(Fresh)
  BY ClusterAssumption DEF NodeOK, Node, Fresh, NoItem
<1>2. Size \in 0..Size /\ 0 \in 0..Size /\ Size \in Nat
  BY ClusterAssumption
<1> USE DEF NodeOK, Node
<1>3. CASE Boot(s)
  BY <1>0, <1>1, <1>3 DEF Boot, NodesOK, Fresh
<1>4. CASE Offer(s)
  <2>1. node'[s] = Offered(n)
    BY <1>4 DEF Offer, NodesOK
  <2> HIDE DEF n
  <2> QED
    BY <1>1, <1>2, <2>1 DEF Offered
<1>5. CASE Beat(s)
  <2>1. node'[s] = [n EXCEPT !.pending = Applied(n), !.item = NoItem]
    BY <1>5 DEF Beat, NodesOK
  <2>2. Applied(n) \in 0..Size
    BY <1>1, ClusterAssumption DEF Applied, NoItem
  <2> HIDE DEF n
  <2> QED
    BY <1>1, <2>1, <2>2
<1>6. CASE Ignore(s)
  BY <1>1, <1>6 DEF Ignore
<1>12. CASE Obey(s) \/ Leave(s)
  <2>1. PICK i \in Instruction : \/ node'[s] = Told(n, i)
                                \/ node'[s] = Exiting(n, i)
    <3>1. Head(down[s]) \in Instruction
      BY <1>12, QueueTaken DEF Obey, Leave, Takes, NodesOK
    <3>2. \/ node'[s] = Told(n, Head(down[s]))
          \/ node'[s] = Exiting(n, Head(down[s]))
      BY <1>12 DEF Obey, Leave, NodesOK
    <3> HIDE DEF n
    <3> QED
      BY <3>1, <3>2
  <2> HIDE DEF n
  <2>2. NodeOK(Told(n, i)) /\ NodeOK(Exiting(n, i))
    BY <1>1 DEF Told, Exiting, Instruction
  <2> HIDE DEF NodeOK
  <2> QED
    BY <2>1, <2>2
<1>7. CASE Begin(s)
  BY <1>1, <1>7 DEF Begin, Transfers, NodesOK
<1>8. CASE Copy(s)
  <2>1. /\ node'[s] = [n EXCEPT !.left = n.left - 1, !.item = n.left - 1]
        /\ n.left > 0
    BY <1>8 DEF Copy, Transfers, NodesOK
  <2> HIDE DEF n
  <2>2. n.left - 1 \in 0..Size
    BY <1>1, <1>2, <2>1
  <2> QED
    BY <1>1, <2>1, <2>2
<1>9. CASE Finish(s)
  <2>1. node'[s] = [Ended(n) EXCEPT !.item = 0]
    BY <1>9 DEF Finish, Transfers, NodesOK
  <2> HIDE DEF n
  <2> HIDE DEF Node
  <2> QED
    BY <1>1, <2>1, EndedOK
<1>10. CASE Raise(s)
  <2>1. node'[s] = [Ended(n) EXCEPT !.raised = TRUE]
    BY <1>10 DEF Raise, Transfers, NodesOK
  <2> HIDE DEF n
  <2> HIDE DEF Node
  <2> QED
    BY <1>1, <2>1, EndedOK
<1>11. CASE Exit(s) \/ Crash(s)
  <2>1. node'[s] = [Fresh EXCEPT !.proc = "gone"]
    BY <1>11 DEF Exit, Crash, Gone, NodesOK
  <2> QED
    BY <1>0, <2>1 DEF Fresh
<1>13. CASE Break(s)
  BY <1>1, <1>13 DEF Break, NodesOK
<1> QED
  BY <1>3, <1>4, <1>5, <1>6, <1>7, <1>8, <1>9, <1>10, <1>11, <1>12,
     <1>13 DEF Own

\* A message on its way is one that was sent.
LEMMA QueuesOK ==
  ASSUME ServiceOK, NodesOK, NEW s \in Stream, Own(s) \/ Handled(s)
  PROVE  up'[s] \in Seq(0..Size) /\ down'[s] \in Seq(Instruction)
<1>1. up[s] \in Seq(0..Size) /\ down[s] \in Seq(Instruction)
  BY DEF NodesOK
<1>2. CASE Beat(s)
  <2>1. up'[s] = Append(up[s], Applied(node[s])) /\ down'[s] = down[s]
    BY <1>2 DEF Beat, NodesOK
  <2>2. Applied(node[s]) \in 0..Size
    BY ClusterAssumption DEF NodesOK, Node, Applied, NoItem
  <2> QED
    BY <1>1, <2>1, <2>2, QueueAdded
<1>3. CASE Ignore(s) \/ Obey(s)
  <2>1. down[s] # <<>> /\ down'[s] = Tail(down[s]) /\ up'[s] = up[s]
    BY <1>3 DEF Ignore, Obey, Takes, Taken, NodesOK
  <2> QED
    BY <1>1, <2>1, QueueTaken
<1>4. CASE Leave(s) \/ Exit(s) \/ Crash(s) \/ Break(s)
  <2>1. down'[s] = <<>> /\ up'[s] = up[s]
    BY <1>4 DEF Leave, Takes, Exit, Crash, Break, Gone, Forgotten, NodesOK
  <2> QED
    BY <1>1, <2>1, EmptySeq
<1>5. CASE Reply(s)
  <2>1. up[s] # <<>> /\ up'[s] = Tail(up[s])
    BY <1>5 DEF Reply, NodesOK
  <2>2. PICK i \in Instruction :
          down'[s] = IF node[s].connected THEN Append(down[s], i) ELSE down[s]
    BY <1>5, ReplyAnswers
  <2>3. Append(down[s], i) \in Seq(Instruction)
    BY <1>1, QueueAdded
  <2> QED
    BY <1>1, <2>1, <2>2, <2>3, QueueTaken
<1>6. CASE Notice(s)
  <2>1. up'[s] = <<>> /\ down'[s] = down[s]
    BY <1>6 DEF Notice, NodesOK
  <2> QED
    BY <1>1, <2>1, EmptySeq
<1>7. CASE Boot(s) \/ Offer(s) \/ Begin(s) \/ Copy(s) \/ Finish(s) \/ Raise(s)
           \/ Thread(s)
  BY <1>1, <1>7 DEF Boot, Offer, Begin, Copy, Finish, Raise, Transfers, Thread
<1> QED
  BY <1>2, <1>3, <1>4, <1>5, <1>6, <1>7 DEF Own, Handled

\* The handler leaves the migrater to itself.
LEMMA HandledNode ==
  ASSUME NEW s \in Stream, Handled(s)
  PROVE  node' = node
BY DEF Handled, Thread, Reply, Notice

\* Every migrater stays well-formed.
LEMMA NodesStep ==
  ASSUME ServiceOK, NodesOK, [CNext]_cvars
  PROVE  NodesOK'
<1>1. ASSUME NEW s \in Stream, Own(s) \/ Handled(s)
      PROVE  NodesOK'
  <2>1. /\ node' = [t \in Stream |-> node'[t]]
        /\ up' = [t \in Stream |-> up'[t]] /\ down' = [t \in Stream |-> down'[t]]
        /\ \A t \in Stream \ {s} : Untouched(t)
    BY <1>1, OthersAreLeft
  <2>2. up'[s] \in Seq(0..Size) /\ down'[s] \in Seq(Instruction)
    BY <1>1, QueuesOK
  <2>3. NodeOK(node'[s])
    BY <1>1, OwnSteps, HandledNode DEF NodesOK, NodeOK
  <2>4. \A t \in Stream : /\ NodeOK(node'[t]) /\ up'[t] \in Seq(0..Size)
                          /\ down'[t] \in Seq(Instruction)
    BY <2>1, <2>2, <2>3 DEF NodesOK, NodeOK, Untouched
  <2> QED
    BY <2>1, <2>4 DEF NodesOK, NodeOK
<1>2. CASE UNCHANGED <<node, up, down>>
  BY <1>2 DEF NodesOK
<1> QED
  BY <1>1, <1>2, ClusterSteps DEF Stop, cvars

LEMMA ClusterTypes == CSpec => [](ServiceOK /\ NodesOK)
<1>1. CInit => ServiceOK /\ NodesOK
  <2> SUFFICES ASSUME CInit
               PROVE  ServiceOK /\ NodesOK
    OBVIOUS
  <2>1. RegistryOK /\ FiniteInv
    BY FS_EmptySet DEF CInit, Init, RegistryOK, Registry, FiniteInv, NoWorkers
  <2>2. ServiceOK
    <3>1. policy \in Chosen /\ clock \in 0..MaxTime /\ shuttingDown \in BOOLEAN
      <4>1. policy \in Chosen /\ clock = 0 /\ shuttingDown = FALSE
        BY DEF CInit, Init
      <4>2. 0 \in 0..MaxTime
        BY StreamAssumption
      <4> QED
        BY <4>1, <4>2
    <3>2. pc \in [Stream -> StreamPC]
      BY DEF CInit, Init, StreamPC
    <3> QED
      BY <2>1, <3>1, <3>2 DEF ServiceOK
  <2>3. Fresh \in Node /\ ~Fresh.complete
    BY ClusterAssumption DEF Node, Fresh, NoItem
  <2>4. NodesOK
    <3>1. <<>> \in Seq(0..Size) /\ <<>> \in Seq(Instruction)
      BY EmptySeq
    <3> QED
      BY <2>3, <3>1 DEF CInit, NodesOK
  <2> QED
    BY <2>2, <2>4
<1> QED
  BY <1>1, ServiceStep, NodesStep, PTL DEF CSpec

\* The types of the migraters' state and of the messages on their way, whatever
\* fails (migrater/server.py, orchestrator/server.py).
THEOREM ClusterTyping == CSpec => []CTypeOK
<1>1. NodesOK => CTypeOK
  BY DEF NodesOK, CTypeOK, Node
<1> QED
  BY <1>1, ClusterTypes, PTL

-----------------------------------------------------------------------------
(* What the migraters have to copy, and what the registry knows of it.      *)

\* A transfer's data is pending until a heartbeat has said that it is copied.
DataOK(n) ==
  /\ n.stage = "waiting" => n.item = NoItem /\ n.pending = Size /\ n.left = Size
  /\ n.stage = "copying" => n.item \in {NoItem, n.left} /\ n.left <= n.pending

\* A stream that is up is served, or waits to be.
LinksOK ==
  \A s \in Stream :
    node[s].connected /\ ~shuttingDown => pc[s] \in {"queued", "reading"}

DataInv == LinksOK /\ \A s \in Stream : DataOK(node[s])

\* What the end of a copy leaves.
LEMMA TransferEnds ==
  ASSUME NodesOK, NEW s \in Stream, Finish(s) \/ Raise(s)
  PROVE  node'[s].stage = "idle" /\ node'[s].connected = node[s].connected
<1> DEFINE n == node[s]
           e == Ended(n)
<1>1. n \in Node
  BY DEF NodesOK
<1>2. node'[s] = [e EXCEPT !.item = 0] \/ node'[s] = [e EXCEPT !.raised = TRUE]
  BY DEF Finish, Raise, NodesOK
<1> HIDE DEF n
<1>3. e = [n EXCEPT !.stage = "idle", !.left = 0, !.rate = 0, !.complete = n.requested]
  BY DEF Ended
<1>4. e.stage = "idle" /\ e.connected = n.connected /\ DOMAIN e = DOMAIN n
  BY <1>1, <1>3 DEF Node
<1> HIDE DEF e
<1>5. DOMAIN n = {"proc", "connected", "stage", "left", "pending", "item", "allowed",
                  "rate", "requested", "complete", "raised"}
  BY <1>1 DEF Node
<1>6. node'[s].stage = "idle" /\ node'[s].connected = n.connected
  BY <1>2, <1>4, <1>5
<1> QED
  BY <1>6 DEF n

\* Each step of a migrater keeps its item and its bytes in agreement.
LEMMA DataOKStep ==
  ASSUME NodesOK, NEW s \in Stream, DataOK(node[s]), Own(s)
  PROVE  DataOK(node'[s])
<1> DEFINE n == node[s]
<1>1. n \in Node
  BY DEF NodesOK
<1> USE DEF DataOK
<1>2. CASE Boot(s) \/ Exit(s) \/ Crash(s)
  <2>1. \/ node'[s] = [Fresh EXCEPT !.proc = "up", !.connected = TRUE]
        \/ node'[s] = [Fresh EXCEPT !.proc = "gone"]
    BY <1>2 DEF Boot, Exit, Crash, Gone, NodesOK
  <2>2. node'[s].stage = "idle"
    BY <2>1 DEF Fresh
  <2> QED
    BY <2>2
<1>3. CASE Offer(s)
  <2>1. node'[s] = Offered(n) /\ n.item = NoItem
    BY <1>3 DEF Offer, NodesOK
  <2> HIDE DEF n
  <2> QED
    BY <1>1, <2>1 DEF Offered, Node
<1>4. CASE Beat(s)
  <2>1. node'[s] = [n EXCEPT !.pending = Applied(n), !.item = NoItem]
    BY <1>4 DEF Beat, NodesOK
  <2>2. n.left \in Int
    BY <1>1, ClusterAssumption DEF Node
  <2> HIDE DEF n
  <2> QED
    BY <1>1, <2>1, <2>2 DEF Applied, Node, n
<1>5. CASE Ignore(s)
  BY <1>5 DEF Ignore
<1>10. CASE Obey(s) \/ Leave(s)
  <2>1. PICK i \in Instruction : \/ node'[s] = Told(n, i)
                                \/ node'[s] = Exiting(n, i)
    <3>1. Head(down[s]) \in Instruction
      BY <1>10, QueueTaken DEF Obey, Leave, Takes, NodesOK
    <3>2. \/ node'[s] = Told(n, Head(down[s]))
          \/ node'[s] = Exiting(n, Head(down[s]))
      BY <1>10 DEF Obey, Leave, NodesOK
    <3> HIDE DEF n
    <3> QED
      BY <3>1, <3>2
  <2>2. n.stage = node'[s].stage /\ n.item = node'[s].item
        /\ n.left = node'[s].left /\ n.pending = node'[s].pending
    <3> HIDE DEF n
    <3> QED
      BY <1>1, <2>1 DEF Told, Exiting, Node
  <2> QED
    BY <2>2
<1>6. CASE Begin(s)
  <2>1. /\ n.stage = "waiting"
        /\ node'[s] = [n EXCEPT !.stage = "copying", !.allowed = FALSE]
    BY <1>6 DEF Begin, Transfers, NodesOK
  <2> QED
    BY <1>1, <2>1, ClusterAssumption DEF Node
<1>7. CASE Copy(s)
  <2>1. /\ node'[s] = [n EXCEPT !.left = n.left - 1, !.item = n.left - 1]
        /\ n.stage = "copying" /\ n.left \in Int /\ n.pending \in Int
    BY <1>1, <1>7, ClusterAssumption DEF Copy, Transfers, NodesOK, Node
  <2> QED
    BY <1>1, <2>1 DEF Node
<1>8. CASE Finish(s) \/ Raise(s)
  BY <1>8, TransferEnds
<1>9. CASE Break(s)
  BY <1>1, <1>9 DEF Break, NodesOK, Node
<1> QED
  BY <1>2, <1>3, <1>4, <1>5, <1>6, <1>7, <1>8, <1>9, <1>10 DEF Own

\* Only a new process connects.
LEMMA ConnectedStep ==
  ASSUME NodesOK, NEW s \in Stream, Own(s), ~Boot(s), node'[s].connected
  PROVE  node[s].connected
<1> DEFINE n == node[s]
<1>1. n \in Node
  BY DEF NodesOK
<1>2. CASE Offer(s) \/ Beat(s)
  BY <1>2 DEF Offer, Beat
<1>10. CASE Ignore(s)
  BY <1>10 DEF Ignore
<1>3. CASE Obey(s)
  <2>1. node'[s] = Told(n, Head(down[s]))
    BY <1>3 DEF Obey, NodesOK
  <2> HIDE DEF n
  <2>2. node'[s].connected = n.connected
    BY <1>1, <2>1 DEF Told, Node
  <2> QED
    BY <2>2 DEF n
<1>4. CASE Leave(s)
  <2>1. node'[s] = Exiting(n, Head(down[s]))
    BY <1>4 DEF Leave, NodesOK
  <2> HIDE DEF n
  <2> QED
    BY <1>1, <2>1 DEF Exiting, Node
<1>5. CASE Begin(s)
  BY <1>1, <1>5 DEF Begin, NodesOK, Node
<1>8. CASE Copy(s)
  BY <1>1, <1>8 DEF Copy, NodesOK, Node
<1>6. CASE Finish(s) \/ Raise(s)
  BY <1>6, TransferEnds
<1>7. CASE Exit(s) \/ Crash(s)
  BY <1>7 DEF Exit, Crash, Gone, NodesOK, Fresh
<1>9. CASE Break(s)
  BY <1>9 DEF Break
<1> QED
  BY <1>2, <1>3, <1>4, <1>5, <1>6, <1>7, <1>8, <1>9, <1>10 DEF Own

LEMMA LinksOKStep ==
  ASSUME ServiceOK, NodesOK, LinksOK, [CNext]_cvars
  PROVE  LinksOK'
<1>1. ASSUME NEW s \in Stream, Own(s)
      PROVE  LinksOK'
  <2>1. CASE Boot(s)
    <3>1. \A t \in Stream \ {s} : node'[t] = node[t] /\ pc'[t] = pc[t]
      BY <2>1 DEF Boot, Open, NodesOK, ServiceOK
    <3>2. pc'[s] = "queued" /\ shuttingDown' = shuttingDown
      BY <2>1 DEF Boot, Open, ServiceOK
    <3> QED
      BY <3>1, <3>2 DEF LinksOK
  <2>2. CASE ~Boot(s)
    <3>1. UNCHANGED <<pc, shuttingDown>>
      BY <1>1, <2>2 DEF Own, Offer, Beat, Ignore, Obey, Leave, Takes, Begin, Copy,
                        Finish, Raise, Exit, Crash, Break, Gone, Transfers,
                        orchestrator
    <3>2. \A t \in Stream : node'[t].connected => node[t].connected
      BY <1>1, <2>2, ConnectedStep, OthersAreLeft DEF Untouched
    <3> QED
      BY <3>1, <3>2 DEF LinksOK
  <2> QED
    BY <2>1, <2>2
<1>2. ASSUME NEW s \in Stream, Handled(s)
      PROVE  LinksOK'
  BY <1>2 DEF Handled, Thread, Serve, Finally, Reply, Notice, EndOfStream,
              LinksOK, ServiceOK
<1>3. CASE Stop \/ UNCHANGED cvars
  BY <1>3 DEF Stop, RequestShutdown, cvars, orchestrator, LinksOK
<1> QED
  BY <1>1, <1>2, <1>3, ClusterSteps

LEMMA ClusterData == CSpec => []DataInv
<1>1. CInit => DataInv
  BY DEF CInit, Init, DataInv, LinksOK, DataOK, Fresh
<1>2. ServiceOK /\ NodesOK /\ DataInv /\ [CNext]_cvars => DataInv'
  <2> SUFFICES ASSUME ServiceOK, NodesOK, DataInv, [CNext]_cvars,
                      NEW t \in Stream
               PROVE  DataOK(node'[t])
    BY LinksOKStep DEF DataInv
  <2>1. CASE Own(t)
    BY <2>1, DataOKStep DEF DataInv
  <2>2. CASE ~Own(t)
    <3>1. node'[t] = node[t]
      BY <2>2, ClusterSteps, OthersAreLeft, HandledNode DEF Untouched, Stop, cvars
    <3> QED
      BY <3>1 DEF DataInv
  <2> QED
    BY <2>1, <2>2
<1> QED
  BY <1>1, <1>2, ClusterTypes, PTL DEF CSpec

-----------------------------------------------------------------------------
(* What the history says.                                                   *)

HistoryOK ==
  \A s \in Stream : late[s] \in Nat /\ own[s] \in BOOLEAN /\ (own[s] => late[s] = 0)

\* A transfer that has data left, on its stream.
Moving(s) == node[s].connected /\ node[s].stage # "idle" /\ node[s].left > 0

\* The heartbeats sent since it was accepted say that it has.
Reported ==
  \A s \in Stream : Moving(s) =>
    \A j \in 1..Len(up[s]) : j + Len(down[s]) > late[s] => up[s][j] > 0

\* A step that obeys nothing, and one that does.
LEMMA HistoryRests ==
  ASSUME HistoryOK, [GNext]_gvars, NEW t \in Stream, Moving(t)', ~Accepts(t),
         ~TakesOne(t)
  PROVE  late'[t] = late[t] /\ own'[t] = own[t]
<1>1. CASE GNext
  <2>1. late'[t] = Older(t) /\ own'[t] = OnOwn(t)
    BY <1>1 DEF GNext
  <2>2. ~Rests(t)
    BY DEF Rests, Moving
  <2> QED
    BY <2>1, <2>2 DEF Older, OnOwn, HistoryOK
<1>2. CASE UNCHANGED gvars
  BY <1>2 DEF gvars
<1> QED
  BY <1>1, <1>2

LEMMA HistoryTakes ==
  ASSUME NodesOK, HistoryOK, [GNext]_gvars, NEW t \in Stream, Moving(t)',
         ~Accepts(t), down[t] # <<>>, down'[t] = Tail(down[t])
  PROVE  /\ late'[t] = IF late[t] > 0 THEN late[t] - 1 ELSE 0
         /\ own'[t] => \/ own[t]
                       \/ late[t] = 0 /\ Head(down[t]).action = "START_FLUSH"
<1>1. Len(down'[t]) = Len(down[t]) - 1 /\ Len(down[t]) \in Nat
  BY QueueTaken DEF NodesOK
<1>2. TakesOne(t)
  BY <1>1 DEF TakesOne
<1>3. ~(UNCHANGED gvars)
  <2>1. down'[t] # down[t]
    <3> DEFINE a == Len(down[t])
               b == Len(down'[t])
    <3>1. a \in Nat /\ b = a - 1
      BY <1>1
    <3> HIDE DEF a, b
    <3>2. a # b
      BY <3>1
    <3> QED
      BY <3>2 DEF a, b
  <2> QED
    BY <2>1 DEF gvars, cvars
<1>4. late'[t] = Older(t) /\ own'[t] = OnOwn(t)
  BY <1>3 DEF GNext
<1>5. ~Rests(t)
  BY DEF Rests, Moving
<1>6. late[t] \in Nat
  BY DEF HistoryOK
<1>7. Older(t) = IF late[t] > 0 THEN late[t] - 1 ELSE 0
  BY <1>2, <1>5, <1>6 DEF Older
<1>8. OnOwn(t) => \/ own[t]
                  \/ late[t] = 0 /\ Head(down[t]).action = "START_FLUSH"
  BY DEF OnOwn
<1> QED
  BY <1>4, <1>7, <1>8

LEMMA HistoryStep ==
  ASSUME NodesOK, NodesOK', HistoryOK, [GNext]_gvars
  PROVE  HistoryOK'
<1> SUFFICES ASSUME NEW t \in Stream
             PROVE  /\ late'[t] \in Nat /\ own'[t] \in BOOLEAN
                    /\ own'[t] => late'[t] = 0
  BY DEF HistoryOK
<1>1. late[t] \in Nat /\ own[t] \in BOOLEAN /\ (own[t] => late[t] = 0)
  BY DEF HistoryOK
<1>2. CASE GNext
  <2>1. late'[t] = Older(t) /\ own'[t] = OnOwn(t)
    BY <1>2 DEF GNext
  <2>2. InFlight(t) \in Nat
    BY LenProperties DEF InFlight, NodesOK
  <2>3. Older(t) \in Nat
    BY <1>1, <2>2 DEF Older
  <2>6. OnOwn(t) \in BOOLEAN
    BY DEF OnOwn
  <2>4. OnOwn(t) => ~Rests(t) /\ ~Accepts(t) /\ late[t] = 0
    BY <1>1 DEF OnOwn
  <2>5. OnOwn(t) => Older(t) = 0
    BY <2>4 DEF Older
  <2> QED
    BY <2>1, <2>3, <2>5, <2>6
<1>3. CASE UNCHANGED gvars
  BY <1>1, <1>3 DEF gvars
<1> QED
  BY <1>2, <1>3

\* A step of the cluster, seen from one stream: someone else's, or one of these.
LEMMA StreamSteps ==
  ASSUME NodesOK, [CNext]_cvars, NEW t \in Stream
  PROVE  Own(t) \/ Reply(t) \/ Notice(t) \/ Untouched(t)
<1>1. ASSUME Thread(t) \/ Stop \/ UNCHANGED cvars
      PROVE  Untouched(t)
  BY <1>1 DEF Thread, Stop, cvars, Untouched
<1> QED
  BY <1>1, ClusterSteps, OthersAreLeft DEF Handled

\* The steps of a migrater that start a transfer, or have it go on.
LEMMA MovingSteps ==
  ASSUME NodesOK, NEW t \in Stream, Own(t), Moving(t)'
  PROVE  \/ Accepts(t) /\ up'[t] = up[t] /\ down'[t] = down[t]
         \/ /\ Moving(t) /\ ~Accepts(t)
            /\ \/ /\ Beat(t) \/ up'[t] = up[t]
                  /\ down'[t] = down[t] /\ node'[t].rate = node[t].rate
               \/ /\ up'[t] = up[t] /\ down[t] # <<>> /\ down'[t] = Tail(down[t])
                  /\ \/ /\ Head(down[t]).action = "HOLD"
                        /\ node'[t].rate = node[t].rate
                     \/ /\ Head(down[t]).action = "START_FLUSH"
                        /\ node'[t].rate = Head(down[t]).rate
<1> DEFINE n == node[t]
           m == node'[t]
<1>0. n \in Node
  BY DEF NodesOK
<1>1. m.connected /\ m.stage # "idle" /\ m.left > 0
  BY DEF Moving
<1> USE DEF Moving, Accepts
<1>2. ~(Boot(t) \/ Exit(t) \/ Crash(t))
  <2>1. ASSUME Boot(t) \/ Exit(t) \/ Crash(t)
        PROVE  m.stage = "idle"
    BY <2>1 DEF Boot, Exit, Crash, Gone, NodesOK, Fresh
  <2> QED
    BY <1>1, <2>1
<1>3. ~(Finish(t) \/ Raise(t))
  BY <1>1, TransferEnds
<1>4. ~Leave(t)
  <2>1. ASSUME Leave(t)
        PROVE  m = Exiting(n, Head(down[t]))
    BY <2>1 DEF Leave, NodesOK
  <2> HIDE DEF n, m
  <2>2. m = Exiting(n, Head(down[t])) => m.connected = FALSE
    BY <1>0 DEF Exiting, Node
  <2> QED
    BY <1>1, <2>1, <2>2
<1>5. ~Break(t)
  <2>1. ASSUME Break(t)
        PROVE  m = [n EXCEPT !.connected = FALSE]
    BY <2>1 DEF Break, NodesOK
  <2> HIDE DEF n, m
  <2>2. m = [n EXCEPT !.connected = FALSE] => m.connected = FALSE
    BY <1>0 DEF Node
  <2> QED
    BY <1>1, <2>1, <2>2
<1>6. CASE Offer(t)
  <2>1. m = Offered(n) /\ n.stage = "idle" /\ UNCHANGED <<up, down>>
    BY <1>6 DEF Offer, NodesOK
  <2>2. m.stage = "waiting"
    <3> HIDE DEF n, m
    <3> QED
      BY <1>0, <2>1 DEF Offered, Node
  <2> QED
    BY <2>1, <2>2
<1>7. CASE Beat(t)
  <2>1. m = [n EXCEPT !.pending = Applied(n), !.item = NoItem] /\ down'[t] = down[t]
    BY <1>7 DEF Beat, NodesOK
  <2>2. /\ m.connected = n.connected /\ m.stage = n.stage /\ m.left = n.left
        /\ m.rate = n.rate
    <3> HIDE DEF n, m
    <3> QED
      BY <1>0, <2>1 DEF Node
  <2> QED
    BY <1>1, <1>7, <2>1, <2>2
<1>8. CASE Ignore(t)
  <2>1. /\ m = n /\ up'[t] = up[t] /\ down[t] # <<>> /\ down'[t] = Tail(down[t])
        /\ Head(down[t]).action = "HOLD"
    BY <1>8 DEF Ignore, Takes, Taken, NodesOK
  <2> QED
    BY <1>1, <2>1
<1>9. CASE Obey(t)
  <2>1. /\ m = Told(n, Head(down[t])) /\ Head(down[t]).action = "START_FLUSH"
        /\ up'[t] = up[t] /\ down[t] # <<>> /\ down'[t] = Tail(down[t])
    BY <1>9 DEF Obey, Takes, Taken, NodesOK
  <2>2. /\ m.connected = n.connected /\ m.stage = n.stage /\ m.left = n.left
        /\ m.rate = Head(down[t]).rate
    <3> HIDE DEF n, m
    <3> QED
      BY <1>0, <2>1 DEF Told, Node
  <2> QED
    BY <1>1, <2>1, <2>2
<1>10. CASE Begin(t)
  <2>1. /\ m = [n EXCEPT !.stage = "copying", !.allowed = FALSE]
        /\ n.stage = "waiting" /\ UNCHANGED <<up, down>>
    BY <1>10 DEF Begin, Transfers, NodesOK
  <2>2. /\ m.connected = n.connected /\ m.stage = "copying" /\ m.left = n.left
        /\ m.rate = n.rate
    <3> HIDE DEF n, m
    <3> QED
      BY <1>0, <2>1 DEF Node
  <2> QED
    BY <1>1, <2>1, <2>2
<1>11. CASE Copy(t)
  <2>1. /\ m = [n EXCEPT !.left = n.left - 1, !.item = n.left - 1]
        /\ n.stage = "copying" /\ n.left > 0 /\ UNCHANGED <<up, down>>
    BY <1>11 DEF Copy, Transfers, NodesOK
  <2>2. m.connected = n.connected /\ m.stage = "copying" /\ m.rate = n.rate
    <3> HIDE DEF n, m
    <3> QED
      BY <1>0, <2>1 DEF Node
  <2> QED
    BY <1>1, <2>1, <2>2
<1> HIDE DEF n, m
<1> QED
  BY <1>2, <1>3, <1>4, <1>5, <1>6, <1>7, <1>8, <1>9, <1>10, <1>11 DEF Own

\* What a migrater sends while it has data left says so.
LEMMA BeatReports ==
  ASSUME NodesOK, DataInv, NEW t \in Stream, Beat(t), Moving(t)
  PROVE  /\ Applied(node[t]) \in 0..Size /\ Applied(node[t]) > 0
         /\ up'[t] = Append(up[t], Applied(node[t]))
<1> DEFINE n == node[t]
<1>1. n \in Node /\ DataOK(n) /\ n.stage # "idle" /\ n.left > 0
  BY DEF NodesOK, DataInv, Moving
<1>2. up'[t] = Append(up[t], Applied(n))
  BY DEF Beat, NodesOK
<1> HIDE DEF n
<1>3. Applied(n) \in 0..Size /\ Applied(n) > 0
  BY <1>1, ClusterAssumption DEF DataOK, Node, Applied, NoItem
<1> QED
  BY <1>2, <1>3 DEF n

\* A handler takes the oldest heartbeat, and its answer is the newest instruction.
LEMMA ReplyMoves ==
  ASSUME ServiceOK, NodesOK, NEW t \in Stream, Reply(t), Moving(t)'
  PROVE  /\ Moving(t) /\ ~Accepts(t) /\ ~TakesOne(t) /\ node'[t] = node[t]
         /\ up[t] # <<>> /\ up'[t] = Tail(up[t])
         /\ \E i \in Instruction :
              /\ i = IF shuttingDown THEN ExitNow
                     ELSE Decide(policy, WorkerOf[t], workers', clock)
              /\ down'[t] = Append(down[t], i)
<1>1. /\ node' = node /\ Moving(t)
      /\ up[t] # <<>> /\ up'[t] = Tail(up[t])
  BY DEF Reply, Moving, NodesOK
<1>2. PICK i \in Instruction :
        /\ i = IF shuttingDown THEN ExitNow
               ELSE Decide(policy, WorkerOf[t], workers', clock)
        /\ down'[t] = IF node[t].connected THEN Append(down[t], i) ELSE down[t]
  BY ReplyAnswers
<1>3. down'[t] = Append(down[t], i)
  BY <1>1, <1>2 DEF Moving
<1>4. ~TakesOne(t)
  <2>1. Len(Append(down[t], i)) = Len(down[t]) + 1 /\ Len(down[t]) \in Nat
    BY QueueAdded DEF NodesOK
  <2> QED
    BY <1>3, <2>1 DEF TakesOne
<1>5. ~Accepts(t)
  BY <1>1 DEF Accepts
<1> QED
  BY <1>1, <1>2, <1>3, <1>4, <1>5

\* While a transfer goes on, the heartbeats sent for it report its data.
LEMMA ReportedStep ==
  ASSUME ServiceOK, NodesOK, DataInv, HistoryOK, Reported, [GNext]_gvars
  PROVE  Reported'
<1> SUFFICES ASSUME NEW t \in Stream, Moving(t)', NEW j \in 1..Len(up'[t]),
                    j + Len(down'[t]) > late'[t]
             PROVE  up'[t][j] > 0
  BY DEF Reported
<1>0. [CNext]_cvars
  BY DEF GNext, gvars
<1>1. /\ up[t] \in Seq(0..Size) /\ down[t] \in Seq(Instruction)
      /\ Len(up[t]) \in Nat /\ Len(down[t]) \in Nat /\ late[t] \in Nat
  BY LenProperties DEF NodesOK, HistoryOK
<1>2. Moving(t) => \A k \in 1..Len(up[t]) : k + Len(down[t]) > late[t] => up[t][k] > 0
  BY DEF Reported
<1>3. ~Accepts(t)
  <2> SUFFICES ASSUME Accepts(t)
               PROVE  FALSE
    OBVIOUS
  <2>1. up'[t] = up[t] /\ down'[t] = down[t]
    <3>1. ~(node'[t] = node[t])
      BY DEF Accepts
    <3>2. ~(Reply(t) \/ Notice(t) \/ Untouched(t))
      BY <3>1 DEF Reply, Notice, Untouched
    <3> QED
      BY <1>0, <3>2, StreamSteps, MovingSteps
  <2>2. late'[t] = InFlight(t)
    <3>0. ~(node'[t] = node[t])
      BY DEF Accepts
    <3>1. ~(UNCHANGED gvars)
      BY <3>0 DEF gvars, cvars
    <3>2. late'[t] = Older(t)
      BY <3>1 DEF GNext
    <3>3. ~Rests(t)
      BY DEF Rests, Moving
    <3> QED
      BY <3>2, <3>3 DEF Older
  <2> DEFINE a == Len(up[t])
             b == Len(down[t])
  <2>3. late'[t] = a + b /\ j + b > late'[t] /\ j \in 1..a
    BY <2>1, <2>2 DEF InFlight
  <2>4. a \in Nat /\ b \in Nat
    BY <1>1
  <2> HIDE DEF a, b
  <2> QED
    BY <2>3, <2>4
<1>4. CASE up'[t] = up[t] /\ down'[t] = down[t] /\ Moving(t)
  <2>1. ~TakesOne(t)
    BY <1>1, <1>4 DEF TakesOne
  <2>2. late'[t] = late[t]
    BY <1>3, <2>1, HistoryRests
  <2> QED
    BY <1>2, <1>4, <2>2
<1>5. CASE Beat(t) /\ down'[t] = down[t] /\ Moving(t)
  <2>1. ~TakesOne(t)
    BY <1>1, <1>5 DEF TakesOne
  <2>2. late'[t] = late[t]
    BY <1>3, <2>1, HistoryRests
  <2>3. PICK x \in 0..Size : x > 0 /\ up'[t] = Append(up[t], x)
    BY <1>5, BeatReports
  <2>4. /\ Len(up'[t]) = Len(up[t]) + 1 /\ up'[t][Len(up[t]) + 1] = x
        /\ \A k \in 1..Len(up[t]) : up'[t][k] = up[t][k]
    BY <1>1, <2>3, QueueAdded
  <2>5. j \in 1..Len(up[t]) \/ j = Len(up[t]) + 1
    BY <1>1, <2>4
  <2> QED
    BY <1>2, <1>5, <2>2, <2>3, <2>4, <2>5
<1>6. CASE up'[t] = up[t] /\ down[t] # <<>> /\ down'[t] = Tail(down[t]) /\ Moving(t)
  <2>1. late'[t] = IF late[t] > 0 THEN late[t] - 1 ELSE 0
    BY <1>3, <1>6, HistoryTakes
  <2>2. Len(down'[t]) = Len(down[t]) - 1
    BY <1>1, <1>6, QueueTaken
  <2>3. j + Len(down[t]) > late[t]
    BY <1>1, <1>6, <2>1, <2>2
  <2> QED
    BY <1>2, <1>6, <2>3
<1>7. CASE Reply(t)
  <2>1. /\ Moving(t) /\ ~TakesOne(t) /\ up[t] # <<>> /\ up'[t] = Tail(up[t])
    BY <1>7, ReplyMoves
  <2>2. PICK i \in Instruction : down'[t] = Append(down[t], i)
    BY <1>7, ReplyMoves
  <2>3. late'[t] = late[t]
    BY <1>3, <2>1, HistoryRests
  <2>4. Len(down'[t]) = Len(down[t]) + 1
    BY <1>1, <2>2, QueueAdded
  <2>5. j + 1 \in 1..Len(up[t]) /\ up'[t][j] = up[t][j + 1]
    BY <1>1, <2>1, QueueTaken
  <2>6. (j + 1) + Len(down[t]) > late[t]
    <3> DEFINE b == Len(down[t])
    <3>1. j + (b + 1) > late[t] /\ b \in Nat /\ j \in Int
      BY <1>1, <2>3, <2>4
    <3> HIDE DEF b
    <3>2. (j + 1) + b > late[t]
      BY <1>1, <3>1
    <3> QED
      BY <3>2 DEF b
  <2> QED
    BY <1>2, <2>1, <2>5, <2>6
<1>8. ~Notice(t)
  BY DEF Notice, Moving
<1>9. Untouched(t) => Moving(t) /\ up'[t] = up[t] /\ down'[t] = down[t]
  BY DEF Untouched, Moving
<1> QED
  BY <1>0, <1>3, <1>4, <1>5, <1>6, <1>7, <1>8, <1>9, StreamSteps, MovingSteps

-----------------------------------------------------------------------------
(* The rates that the copies have, and may come to have.                    *)

\* A transfer claims its rate, if it is its own, and the rates that are on their
\* way to it and are not older than its checkpoint.
Coming(s) == {i \in 1..Len(down[s]) :
                i > late[s] /\ down[s][i].action = "START_FLUSH"}
RateClaims(s) ==
  IF ~Moving(s) THEN {}
  ELSE {r \in {node[s].rate} : own[s]} \cup {down[s][i].rate : i \in Coming(s)}
Claimants == {s \in Stream : RateClaims(s) # {}}

\* As long as rates are given, the registry knows of everyone who claims one.
Known ==
  ~shuttingDown => \A s \in Claimants : WorkerOf[s] \in Active(workers)
RatesSpread == Spread(Claimants, [s \in Stream |-> RateClaims(s)])

\* Where a claim comes from: a new one from the heartbeat just answered.
Answered(t, r) ==
  /\ Reply(t) /\ Moving(t) /\ late[t] <= Len(down[t])
  /\ \E i \in Instruction :
       /\ i = IF shuttingDown THEN ExitNow
              ELSE Decide(policy, WorkerOf[t], workers', clock)
       /\ i.action = "START_FLUSH" /\ i.rate = r

LEMMA RateSteps ==
  ASSUME ServiceOK, NodesOK, DataInv, HistoryOK, [GNext]_gvars,
         NEW t \in Stream, NEW r \in RateClaims(t)'
  PROVE  r \in RateClaims(t) \/ Answered(t, r)
<1>0. [CNext]_cvars /\ Moving(t)'
  BY DEF GNext, gvars, RateClaims
<1>1. /\ up[t] \in Seq(0..Size) /\ down[t] \in Seq(Instruction)
      /\ Len(down[t]) \in Nat /\ late[t] \in Nat /\ (own[t] => late[t] = 0)
  BY LenProperties DEF NodesOK, HistoryOK
<1>2. \/ own'[t] /\ r = node'[t].rate
      \/ \E i \in 1..Len(down'[t]) : /\ i > late'[t] /\ r = down'[t][i].rate
                                    /\ down'[t][i].action = "START_FLUSH"
  BY <1>0 DEF RateClaims, Coming
<1>3. ASSUME Moving(t), own[t], r = node[t].rate
      PROVE  r \in RateClaims(t)
  BY <1>3 DEF RateClaims
<1>4. ASSUME Moving(t), NEW i \in 1..Len(down[t]), i > late[t],
             down[t][i].action = "START_FLUSH", r = down[t][i].rate
      PROVE  r \in RateClaims(t)
  BY <1>4 DEF RateClaims, Coming
<1>5. ~Accepts(t)
  <2> SUFFICES ASSUME Accepts(t)
               PROVE  FALSE
    OBVIOUS
  <2>1. ~(node'[t] = node[t])
    BY DEF Accepts
  <2>2. ~(Reply(t) \/ Notice(t) \/ Untouched(t)) /\ ~(UNCHANGED gvars)
    BY <2>1 DEF Reply, Notice, Untouched, gvars, cvars
  <2>3. down'[t] = down[t]
    BY <1>0, <2>2, StreamSteps, MovingSteps
  <2>4. ~Rests(t)
    BY <1>0 DEF Rests, Moving
  <2>5. late'[t] = InFlight(t) /\ ~own'[t]
    BY <2>2, <2>4 DEF GNext, Older, OnOwn
  <2> DEFINE a == Len(up[t])
             b == Len(down[t])
  <2>6. late'[t] = a + b /\ a \in Nat /\ b \in Nat
    BY <1>1, <2>5, LenProperties DEF InFlight
  <2>7. \E i \in 1..b : i > late'[t]
    BY <1>2, <2>3, <2>5
  <2> HIDE DEF a, b
  <2> QED
    BY <2>6, <2>7
<1>6. CASE Moving(t) /\ down'[t] = down[t] /\ node'[t].rate = node[t].rate
  <2>1. ~TakesOne(t)
    BY <1>1, <1>6 DEF TakesOne
  <2>2. late'[t] = late[t] /\ own'[t] = own[t]
    BY <1>0, <1>5, <2>1, HistoryRests
  <2> QED
    BY <1>2, <1>3, <1>4, <1>6, <2>2
<1>7. CASE /\ Moving(t) /\ down[t] # <<>> /\ down'[t] = Tail(down[t])
           /\ \/ /\ Head(down[t]).action = "HOLD"
                 /\ node'[t].rate = node[t].rate
              \/ /\ Head(down[t]).action = "START_FLUSH"
                 /\ node'[t].rate = Head(down[t]).rate
  <2>1. /\ late'[t] = IF late[t] > 0 THEN late[t] - 1 ELSE 0
        /\ own'[t] => \/ own[t]
                      \/ late[t] = 0 /\ Head(down[t]).action = "START_FLUSH"
    BY <1>0, <1>5, <1>7, HistoryTakes
  <2>2. /\ Head(down[t]) = down[t][1] /\ 1 \in 1..Len(down[t])
        /\ \A i \in 1..Len(down'[t]) : /\ i + 1 \in 1..Len(down[t])
                                      /\ down'[t][i] = down[t][i + 1]
    BY <1>1, <1>7, QueueTaken
  <2>3. ASSUME own'[t], r = node'[t].rate
        PROVE  r \in RateClaims(t)
    <3>1. late[t] = 0
      BY <1>1, <2>1, <2>3
    <3>2. CASE Head(down[t]).action = "START_FLUSH"
      BY <1>4, <1>7, <2>2, <2>3, <3>1, <3>2
    <3>3. CASE Head(down[t]).action = "HOLD"
      BY <1>3, <1>7, <2>1, <2>3, <3>3
    <3> QED
      BY <1>7, <3>2, <3>3
  <2>4. ASSUME NEW i \in 1..Len(down'[t]), i > late'[t], r = down'[t][i].rate,
               down'[t][i].action = "START_FLUSH"
        PROVE  r \in RateClaims(t)
    <3>1. i + 1 \in 1..Len(down[t]) /\ down'[t][i] = down[t][i + 1]
      BY <2>2, <2>4
    <3>2. i + 1 > late[t]
      BY <1>1, <2>1, <2>4
    <3> QED
      BY <1>4, <1>7, <2>4, <3>1, <3>2
  <2> QED
    BY <1>2, <2>3, <2>4
<1>8. CASE Reply(t)
  <2>1. Moving(t) /\ ~TakesOne(t) /\ node'[t] = node[t]
    BY <1>0, <1>8, ReplyMoves
  <2>2. PICK x \in Instruction :
          /\ x = IF shuttingDown THEN ExitNow
                 ELSE Decide(policy, WorkerOf[t], workers', clock)
          /\ down'[t] = Append(down[t], x)
    BY <1>0, <1>8, ReplyMoves
  <2>3. late'[t] = late[t] /\ own'[t] = own[t]
    BY <1>0, <1>5, <2>1, HistoryRests
  <2>4. /\ Len(down'[t]) = Len(down[t]) + 1 /\ down'[t][Len(down[t]) + 1] = x
        /\ \A i \in 1..Len(down[t]) : down'[t][i] = down[t][i]
    BY <1>1, <2>2, QueueAdded
  <2>5. CASE own'[t] /\ r = node'[t].rate
    BY <1>3, <2>1, <2>3, <2>5
  <2>6. ASSUME NEW i \in 1..Len(down'[t]), i > late'[t], r = down'[t][i].rate,
               down'[t][i].action = "START_FLUSH"
        PROVE  r \in RateClaims(t) \/ Answered(t, r)
    <3>1. i \in 1..Len(down[t]) \/ i = Len(down[t]) + 1
      BY <1>1, <2>4, <2>6
    <3>2. CASE i \in 1..Len(down[t])
      BY <1>4, <2>1, <2>3, <2>4, <2>6, <3>2
    <3>3. CASE i = Len(down[t]) + 1
      <4>1. late[t] <= Len(down[t])
        <5> DEFINE b == Len(down[t])
        <5>1. b + 1 > late[t] /\ b \in Nat
          BY <1>1, <2>3, <2>6, <3>3
        <5> HIDE DEF b
        <5>2. late[t] <= b
          BY <1>1, <5>1
        <5> QED
          BY <5>2 DEF b
      <4>2. x.action = "START_FLUSH" /\ x.rate = r
        BY <2>4, <2>6, <3>3
      <4> QED
        BY <1>8, <2>1, <2>2, <4>1, <4>2 DEF Answered
    <3> QED
      BY <3>1, <3>2, <3>3
  <2> QED
    BY <1>2, <2>5, <2>6
<1>9. ~Notice(t)
  BY <1>0 DEF Notice, Moving
<1>10. Untouched(t) => Moving(t) /\ down'[t] = down[t] /\ node'[t] = node[t]
  BY <1>0 DEF Untouched, Moving
<1> QED
  BY <1>0, <1>5, <1>6, <1>7, <1>8, <1>9, <1>10, StreamSteps, MovingSteps

\* Who is active after a step: only an answer to its own heartbeat makes another
\* of a worker, and only its own handler's end removes it.
LEMMA ActiveIsKept ==
  ASSUME ServiceOK, NodesOK, OneStreamEach, [CNext]_cvars, NEW t \in Stream,
         ~Reply(t), ~Finally(t), WorkerOf[t] \in Active(workers)
  PROVE  WorkerOf[t] \in Active(workers)'
<1>1. ASSUME NEW s \in Stream, Reply(s)
      PROVE  WorkerOf[t] \in Active(workers)'
  <2>1. WorkerOf[t] # WorkerOf[s]
    BY <1>1 DEF OneStreamEach
  <2> QED
    BY <1>1, <2>1, ReplyRegisters DEF Active
<1>2. ASSUME NEW s \in Stream, Finally(s)
      PROVE  WorkerOf[t] \in Active(workers)'
  <2>1. WorkerOf[t] # WorkerOf[s]
    BY <1>2 DEF OneStreamEach
  <2> QED
    BY <1>2, <2>1, FinallyRemoves DEF Active, Remaining
<1>3. CASE UNCHANGED workers
  BY <1>3 DEF Active
<1>4. (\E s \in Stream : Reply(s) \/ Finally(s)) \/ UNCHANGED workers
  <2>1. ASSUME NEW s \in Stream, Own(s)
        PROVE  UNCHANGED workers
    BY <2>1 DEF Own, Boot, Open, Offer, Beat, Ignore, Obey, Leave, Takes, Begin,
                Copy, Finish, Raise, Exit, Crash, Break, Transfers, Gone,
                orchestrator
  <2>2. ASSUME NEW s \in Stream, Handled(s), ~Reply(s), ~Finally(s)
        PROVE  UNCHANGED workers
    BY <2>2 DEF Handled, Thread, Serve, Notice, EndOfStream
  <2> QED
    BY <2>1, <2>2, ClusterSteps
       DEF Stop, RequestShutdown, cvars, orchestrator
<1> QED
  BY <1>1, <1>2, <1>3, <1>4

\* What is answered to a heartbeat that has something to flush.
LEMMA AnswerIsEven ==
  ASSUME ServiceOK, NodesOK, policy = "active-fair-share",
         NEW t \in Stream, NEW r, Answered(t, r)
  PROVE  /\ ~shuttingDown /\ ~shuttingDown'
         /\ WorkerOf[t] \in Active(workers)' /\ IsFiniteSet(Active(workers)')
         /\ Cardinality(Active(workers)') \in Nat \ {0}
         /\ r = Bandwidth \div Cardinality(Active(workers)')
<1>0. Reply(t)
  BY DEF Answered
<1>1. PICK ws : ws = workers'
  OBVIOUS
<1>2. /\ Registry(ws) /\ IsFiniteSet(DOMAIN ws)
      /\ WorkerOf[t] \in DOMAIN ws
  BY <1>0, <1>1, ReplyRegisters DEF RegistryOK, FiniteInv, Registry
<1>3. Snap(ws) /\ clock \in Int
  BY <1>2, RegistryIsSnap, StreamAssumption DEF ServiceOK
<1>4. PICK i : /\ ~shuttingDown /\ i = Decide(policy, WorkerOf[t], ws, clock)
               /\ i.action = "START_FLUSH" /\ i.rate = r
  BY <1>1 DEF Answered, ExitNow
<1>5. WorkerOf[t] \in Active(ws)
  <2> DEFINE weight == [v \in Active(ws) |-> 1]
  <2>1. i = Weighted(weight, WorkerOf[t])
    BY <1>4, Zenon DEF Decide, ActiveFairShare
  <2> QED
    BY <1>4, <2>1 DEF Weighted, Hold
<1>6. policy \in Even /\ Sharers(policy, ws) = Active(ws)
  BY DEF Even, Sharers
<1>7. /\ r = Bandwidth \div Cardinality(Active(ws))
      /\ Cardinality(Active(ws)) \in Nat \ {0} /\ IsFiniteSet(Active(ws))
  <2> DEFINE A == Active(ws)
  <2>1. Sharers(policy, ws) = A
    BY <1>6
  <2> HIDE DEF A
  <2>2. A = Active(ws)
    BY DEF A
  <2> QED
    BY <1>3, <1>4, <1>5, <1>6, <2>1, <2>2, EvenRates
<1>8. ~shuttingDown'
  BY <1>0, <1>4 DEF Reply
<1> QED
  BY <1>1, <1>4, <1>5, <1>7, <1>8 DEF Active

\* A claim on a rate is no older than the transfer, and so are the heartbeats sent
\* after the one that it answers.
LEMMA ClaimIsFresh ==
  ASSUME NodesOK, HistoryOK, NEW t \in Stream, NEW r \in RateClaims(t)
  PROVE  Moving(t) /\ late[t] <= Len(down[t])
<1>1. /\ Moving(t) /\ late[t] \in Nat /\ Len(down[t]) \in Nat
      /\ own[t] => late[t] = 0
  BY LenProperties DEF RateClaims, HistoryOK, NodesOK
<1>2. own[t] \/ \E i \in 1..Len(down[t]) : i > late[t]
  BY DEF RateClaims, Coming
<1> QED
  BY <1>1, <1>2

\* What the service holds of a migrater that moves data stays positive.
LEMMA KnownStep ==
  ASSUME ServiceOK, NodesOK, DataInv, HistoryOK, Reported, OneStreamEach,
         policy = "active-fair-share", Known, [GNext]_gvars
  PROVE  Known'
<1> SUFFICES ASSUME ~shuttingDown', NEW t \in Claimants'
             PROVE  WorkerOf[t] \in Active(workers)'
  BY DEF Known
<1>0. [CNext]_cvars
  BY DEF GNext, gvars
<1>1. ~shuttingDown /\ t \in Stream
  <2>1. shuttingDown => shuttingDown'
    BY <1>0 DEF CNext, Boot, Open, Offer, Beat, Ignore, Obey, Leave, Takes, Begin,
           Copy, Finish, Raise, Exit, Crash, Break, Transfers, Gone, Thread, Serve,
           Finally, Reply, Notice, EndOfStream, Stop, RequestShutdown, cvars,
           orchestrator
  <2> QED
    BY <2>1 DEF Claimants
<1>2. PICK r \in RateClaims(t)' : TRUE
  BY DEF Claimants
<1>3. r \in RateClaims(t) \/ Answered(t, r)
  BY <1>1, <1>2, RateSteps
<1>4. Moving(t) /\ late[t] <= Len(down[t])
  BY <1>1, <1>3, ClaimIsFresh DEF Answered
<1>5. CASE Reply(t)
  <2>1. up[t] # <<>> /\ up[t] \in Seq(0..Size)
    BY <1>1, <1>5 DEF Reply, NodesOK
  <2>2. Head(up[t]) = up[t][1] /\ 1 \in 1..Len(up[t])
    BY <2>1, QueueTaken
  <2>3. 1 + Len(down[t]) > late[t]
    <3>1. late[t] \in Nat /\ Len(down[t]) \in Nat
      BY <1>1, LenProperties DEF HistoryOK, NodesOK
    <3> QED
      BY <1>4, <3>1
  <2>4. Head(up[t]) > 0
    BY <1>1, <1>4, <2>2, <2>3 DEF Reported
  <2> QED
    BY <1>1, <1>5, <2>4, ReplyRegisters DEF Active
<1>6. CASE ~Reply(t)
  <2>1. t \in Claimants
    BY <1>1, <1>3, <1>6 DEF Answered, Claimants
  <2>2. WorkerOf[t] \in Active(workers)
    BY <1>1, <2>1 DEF Known
  <2>3. ~Finally(t)
    BY <1>1, <1>4 DEF Moving, DataInv, LinksOK, Finally
  <2> QED
    BY <1>0, <1>1, <1>6, <2>2, <2>3, ActiveIsKept
<1> QED
  BY <1>5, <1>6

\* The rates in force, and those on their way, stay spread over the migraters.
LEMMA RatesSpreadStep ==
  ASSUME ServiceOK, NodesOK, DataInv, HistoryOK, Reported, OneStreamEach,
         IsFiniteSet(Stream), policy = "active-fair-share", Known, RatesSpread,
         [GNext]_gvars
  PROVE  RatesSpread'
<1> DEFINE old == [s \in Stream |-> RateClaims(s)]
<1>1. PICK M, new, A :
        /\ M = Claimants' /\ new = [s \in Stream |-> RateClaims(s)']
        /\ A = Active(workers)'
  OBVIOUS
<1>2. M \in SUBSET Stream /\ IsFiniteSet(M)
  BY <1>1, FS_Subset DEF Claimants
<1>3. ASSUME NEW t \in M, NEW r \in new[t]
      PROVE  \/ t \in Claimants /\ r \in old[t]
             \/ r \in Int /\ r <= Bandwidth \div Cardinality(M)
  <2>1. t \in Stream /\ r \in RateClaims(t)'
    BY <1>1, <1>2, <1>3
  <2>2. CASE r \in RateClaims(t)
    BY <2>1, <2>2 DEF Claimants
  <2>3. CASE Answered(t, r)
    <3>1. /\ ~shuttingDown' /\ IsFiniteSet(A) /\ Cardinality(A) \in Nat \ {0}
          /\ r = Bandwidth \div Cardinality(A)
      BY <1>1, <2>1, <2>3, AnswerIsEven
    <3>3. \A s \in M : WorkerOf[s] \in A
      BY <1>1, <3>1, KnownStep DEF Known
    <3>4. Cardinality(M) <= Cardinality(A)
      <4> DEFINE f == [s \in M |-> WorkerOf[s]]
      <4>1. f \in Injection(M, A)
        BY <1>2, <3>3 DEF OneStreamEach, Injection, IsInjective
      <4> HIDE DEF f
      <4> QED
        BY <3>1, <4>1, FS_Injection
    <3>5. Cardinality(M) \in Nat \ {0}
      BY <1>2, <1>3, FS_CardinalityType, FS_EmptySet
    <3> QED
      BY <3>1, <3>4, <3>5, SmallerShare, PolicyAssumption
  <2> QED
    BY <2>1, <2>2, <2>3, RateSteps
<1>4. Spread(Claimants, old)
  BY DEF RatesSpread
<1> HIDE DEF old
<1>5. Spread(M, new)
  BY <1>2, <1>3, <1>4, SpreadStep
<1> QED
  BY <1>1, <1>5 DEF RatesSpread

\* The steps of the history are steps of the cluster.
LEMMA HistoryRefines == GSpec => CSpec
<1>1. GInit => CInit
  BY DEF GInit
<1>2. [GNext]_gvars => [CNext]_cvars
  BY DEF GNext, gvars
<1> QED
  BY <1>1, <1>2, PTL DEF GSpec, CSpec

\* What the copies on a rate of their own may write together exceeds the bandwidth
\* by a harmonic number at most, for any number of hosts and of heartbeats and
\* instructions on their way, and whatever is lost or failing between the registry
\* and the copy (scheduler.py 141-174, orchestrator/server.py 84-145,
\* migrater/server.py 44-131, 210-214), where no process is restarted.
THEOREM AllottedIsBounded ==
  ASSUME IsFiniteSet(Stream), OneStreamEach
  PROVE  GSpec => []AllottedBounded
<1> DEFINE Inv == /\ HistoryOK /\ Reported
                  /\ policy = "active-fair-share" => Known /\ RatesSpread
<1>1. GInit => Inv
  <2> SUFFICES ASSUME GInit
               PROVE  Inv
    OBVIOUS
  <2>1. \A s \in Stream : /\ node[s].connected = FALSE
                          /\ late[s] = 0 /\ own[s] = FALSE
    BY DEF GInit, CInit, Fresh
  <2>2. HistoryOK /\ Reported
    <3>1. HistoryOK
      <4>1. 0 \in Nat
        OBVIOUS
      <4> QED
        BY <2>1, <4>1, Zenon DEF HistoryOK
    <3>2. Reported
      BY <2>1 DEF Reported, Moving
    <3> QED
      BY <3>1, <3>2
  <2>3. Claimants = {}
    BY <2>1 DEF Claimants, RateClaims, Moving
  <2>4. Known /\ RatesSpread
    BY <2>3 DEF Known, RatesSpread, Spread
  <2> QED
    BY <2>2, <2>4
<1>2. /\ Inv /\ ServiceOK /\ NodesOK /\ NodesOK' /\ DataInv /\ [GNext]_gvars
      => Inv'
  <2> SUFFICES ASSUME Inv, ServiceOK, NodesOK, NodesOK', DataInv, [GNext]_gvars
               PROVE  Inv'
    OBVIOUS
  <2>1. [CNext]_cvars
    BY DEF GNext, gvars
  <2>2. HistoryOK' /\ Reported' /\ policy' = policy
    BY <2>1, HistoryStep, ReportedStep, ServiceStep
  <2>3. policy = "active-fair-share" => Known' /\ RatesSpread'
    BY KnownStep, RatesSpreadStep
  <2> QED
    BY <2>2, <2>3
<1>3. Inv /\ NodesOK => AllottedBounded
  <2> SUFFICES ASSUME RatesSpread, NodesOK
               PROVE  Allotted(Entitled) <= Harmonic(Cardinality(Entitled))
    BY DEF AllottedBounded
  <2> DEFINE W == Entitled
             claims == [s \in Stream |-> RateClaims(s)]
             rate == [s \in W |-> node[s].rate]
  <2>1. /\ IsFiniteSet(W) /\ W \in SUBSET Stream
        /\ \A s \in W : node[s].rate \in RateClaims(s)
    <3>1. W \in SUBSET Stream /\ \A s \in W : Moving(s) /\ own[s]
      BY DEF Entitled, Writing, Moving
    <3> QED
      BY <3>1, FS_Subset DEF RateClaims
  <2>2. W \in SUBSET Claimants
    BY <2>1 DEF Claimants
  <2>3. Spread(W, claims)
    BY <2>2 DEF RatesSpread, Spread
  <2>4. \A s \in W : rate[s] \in Int /\ rate[s] \in claims[s]
    BY <2>1 DEF NodesOK, Node
  <2>5. Allotted(W) = SumFunctionOnSet(rate, W)
    BY DEF Allotted, SumFunction
  <2> HIDE DEF W, claims, rate
  <2>6. SumFunctionOnSet(rate, W) <= Harmonic(Cardinality(W))
    BY <2>1, <2>3, <2>4, SpreadSum
  <2> QED
    BY <2>5, <2>6 DEF W
<1> HIDE DEF Inv
<1> QED
  BY <1>1, <1>2, <1>3, HistoryRefines, ClusterTypes, ClusterData, PTL DEF GSpec
=============================================================================
