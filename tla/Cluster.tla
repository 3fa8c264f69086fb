------------------------------- MODULE Cluster -------------------------------
(***************************************************************************)
(* The orchestrator of the module Orchestrator with the migraters at the   *)
(* other end of its streams: what their copies really are allowed to write *)
(* while jobs save, copies raise, processes die and the service stops.     *)
(*                                                                         *)
(* A migrater, src/src/migrater/server.py, is here what the orchestrator   *)
(* can tell of it; its threads are the subject of the module Migrater.  A  *)
(* heartbeat, an instruction and the end of a copy are a step each, which  *)
(* is sound for saves that come after the last progress item was sent      *)
(* (MigraterSpaced).  The migrater sends a heartbeat whether or not the    *)
(* ones before it are answered: each stream is a queue in each direction.  *)
(*                                                                         *)
(* Orchestrator interleaves the handlers at each step of an answer; here a *)
(* handler takes a heartbeat and sends its answer in one.                  *)
(***************************************************************************)
EXTENDS Orchestrator, Sequences

CONSTANTS
  Size,             \* chunks of a checkpoint
  Flight,           \* bound: messages of a stream on their way, both ways
  Faults,           \* what may happen: "copyfail", "crash" (of a process),
                    \* "break" (of a stream), "stop" (of the service)
  Faulty            \* bound: the streams to which the first three may happen

ASSUME ClusterAssumption ==
  /\ Size \in Nat \ {0} /\ Flight \in Nat \ {0}
  /\ Faults \subseteq {"copyfail", "crash", "break", "stop"}
  /\ Faulty \subseteq Stream

VARIABLES
  node,             \* the migrater of each stream
  up,               \* the sizes reported by the heartbeats not yet taken
  down              \* the instructions not yet obeyed

orchestrator == <<threads, policy, shuttingDown, workers, clock, handler>>
cvars == <<orchestrator, node, up, down>>

NoItem == -1

\* proc, connected: the process and its stream.  stage, left: the transfer and
\* the chunks it has to copy.  item: the newest progress item not yet sent.
\* allowed: transfer_allowed, which only a waiting transfer looks at.
\* raised: whether the last transfer has raised.
Fresh == [proc |-> "off", connected |-> FALSE, stage |-> "idle", left |-> 0,
          pending |-> 0, item |-> NoItem, allowed |-> FALSE, rate |-> 0,
          requested |-> FALSE, complete |-> FALSE, raised |-> FALSE]

CInit ==
  /\ Init
  /\ node = [s \in Stream |-> Fresh]
  /\ up = [s \in Stream |-> <<>>] /\ down = [s \in Stream |-> <<>>]

MayFail(s, fault) == fault \in Faults /\ s \in Faulty

Up(s) == node[s].proc = "up"
Becomes(s, n) == node' = [node EXCEPT ![s] = n]
InFlight(s) == Len(up[s]) + Len(down[s])

\* The migrater leaves the stream, and the instructions in it.
Forgotten(s) == down' = [down EXCEPT ![s] = <<>>]

-----------------------------------------------------------------------------
(* The migraters.                                                           *)

\* serve() and __init__: a host runs one process at a time, with one stream.
Boot(s) ==
  /\ \A t \in Stream : WorkerOf[t] = WorkerOf[s] => ~Up(t)
  /\ Open(s)
  /\ Becomes(s, [Fresh EXCEPT !.proc = "up", !.connected = TRUE])
  /\ UNCHANGED <<up, down>>

\* NotifyCheckpointSaved, accepted.  What a migrater accepts after its stream has
\* broken is never granted, and is left out.
OfferedUnseen(n) ==                   \* variant: pending_size is not set
  [n EXCEPT !.stage = "waiting", !.left = Size, !.allowed = FALSE,
            !.raised = FALSE]
Offered(n) == [n EXCEPT !.stage = "waiting", !.left = Size, !.allowed = FALSE,
                        !.raised = FALSE, !.pending = Size]

Offer(s) ==
  /\ node[s].connected
  /\ node[s].stage = "idle" /\ node[s].item = NoItem
  /\ Becomes(s, Offered(node[s]))
  /\ UNCHANGED <<orchestrator, up, down>>

\* The generator: the newest item becomes the pending size, and the heartbeat
\* carries it, every HEARTBEAT_INTERVAL, whatever has been answered.
AppliedIfCopying(n) ==                \* variant: only while the copy runs
  IF n.item = NoItem \/ n.stage # "copying" THEN n.pending ELSE n.item
Applied(n) == IF n.item = NoItem THEN n.pending ELSE n.item

Beat(s) ==
  /\ node[s].connected /\ ~node[s].complete /\ InFlight(s) < Flight
  /\ Becomes(s, [node[s] EXCEPT !.pending = Applied(node[s]), !.item = NoItem])
  /\ up' = [up EXCEPT ![s] = Append(@, Applied(node[s]))]
  /\ UNCHANGED <<orchestrator, down>>

\* The receiver.  EXIT ends its loop, and with it the stream.
ToldOnce(n, i) ==                     \* variant: a copy keeps its first rate
  [n EXCEPT !.rate = IF n.stage = "copying" THEN @ ELSE i.rate,
            !.allowed = n.stage = "waiting"]
Told(n, i) == [n EXCEPT !.rate = i.rate, !.allowed = n.stage = "waiting"]

ExitingUnasked(n, i) ==               \* variant: no shutdown_requested
  [n EXCEPT !.connected = FALSE, !.allowed = n.stage = "waiting",
            !.complete = n.stage # "copying"]
Exiting(n, i) ==
  [n EXCEPT !.requested = TRUE, !.connected = FALSE,
            !.allowed = n.stage = "waiting",
            !.complete = n.stage # "copying",
            !.rate = IF n.pending > 0 /\ @ = 0 THEN i.rate ELSE @]

Takes(s, action) == /\ down[s] # <<>> /\ Head(down[s]).action = action
                    /\ UNCHANGED <<orchestrator, up>>
Taken(s) == down' = [down EXCEPT ![s] = Tail(@)]

Ignore(s) == Takes(s, "HOLD") /\ Taken(s) /\ UNCHANGED node

Obey(s) ==
  /\ Takes(s, "START_FLUSH") /\ Taken(s)
  /\ Becomes(s, Told(node[s], Head(down[s])))

Leave(s) ==
  /\ Takes(s, "EXIT") /\ Forgotten(s)
  /\ Becomes(s, Exiting(node[s], Head(down[s])))

\* _do_transfer: the wake-up, a chunk with its progress item, and the end.
Transfers(s, from) == /\ node[s].stage = from
                      /\ UNCHANGED <<orchestrator, up, down>>

Begin(s) ==
  /\ Transfers(s, "waiting") /\ node[s].allowed
  /\ Becomes(s, [node[s] EXCEPT !.stage = "copying", !.allowed = FALSE])

Copy(s) ==
  /\ Transfers(s, "copying") /\ node[s].rate > 0 /\ node[s].left > 0
  /\ Becomes(s, [node[s] EXCEPT !.left = @ - 1, !.item = node[s].left - 1])

EndedQuietly(n) ==                    \* variant: shutdown_complete is not set
  [n EXCEPT !.stage = "idle", !.left = 0, !.rate = 0]
Ended(n) == [n EXCEPT !.stage = "idle", !.left = 0, !.rate = 0,
                      !.complete = n.requested]

Finish(s) ==
  /\ Transfers(s, "copying") /\ node[s].left = 0
  /\ Becomes(s, [Ended(node[s]) EXCEPT !.item = 0])

Raise(s) ==
  /\ MayFail(s, "copyfail")
  /\ Transfers(s, "copying")
  /\ Becomes(s, [Ended(node[s]) EXCEPT !.raised = TRUE])

\* The process ends, when its shutdown is complete or at any time.
Gone(s) == /\ Becomes(s, [Fresh EXCEPT !.proc = "gone"])
           /\ Forgotten(s) /\ UNCHANGED <<orchestrator, up>>
Exit(s) == Up(s) /\ node[s].complete /\ Gone(s)
Crash(s) == MayFail(s, "crash") /\ Up(s) /\ Gone(s)

\* An RpcError ends the heartbeat loop; the process, and its copy, go on.
Break(s) == /\ MayFail(s, "break")
            /\ node[s].connected
            /\ Becomes(s, [node[s] EXCEPT !.connected = FALSE])
            /\ Forgotten(s) /\ UNCHANGED <<orchestrator, up>>

-----------------------------------------------------------------------------
(* The orchestrator's handlers, at their end of the streams.                *)

Thread(s) == (Serve(s) \/ Finally(s)) /\ UNCHANGED <<node, up, down>>

\* Receive, Update, and SendExit or NoExit, Snapshot and Answer in one step; the
\* answer is lost if the migrater has left the stream.
Reply(s) ==
  /\ up[s] # <<>>
  /\ Move(s, "reading", IF shuttingDown THEN "finally" ELSE "reading")
  /\ identified' = [identified EXCEPT ![s] = TRUE]
  /\ workers' = Registered(WorkerOf[s],
                           [report |-> <<Head(up[s]), 0, 0>>, now |-> clock])
  /\ up' = [up EXCEPT ![s] = Tail(@)]
  /\ down' = [down EXCEPT ![s] =
       IF ~node[s].connected THEN @
       ELSE Append(@, IF shuttingDown THEN ExitNow
                      ELSE Decide(policy, WorkerOf[s], workers', clock))]
  /\ UNCHANGED <<Env, beat, snap, sent, node>>

\* The handler finds that the migrater has left the stream.
Notice(s) == /\ ~node[s].connected /\ EndOfStream(s)
             /\ up' = [up EXCEPT ![s] = <<>>] /\ UNCHANGED <<node, down>>

Stop == "stop" \in Faults /\ RequestShutdown /\ UNCHANGED <<node, up, down>>

CNext ==
  \/ \E s \in Stream :
       \/ Boot(s) \/ Offer(s) \/ Beat(s) \/ Ignore(s) \/ Obey(s) \/ Leave(s)
       \/ Begin(s) \/ Copy(s) \/ Finish(s) \/ Raise(s)
       \/ Exit(s) \/ Crash(s) \/ Break(s)
       \/ Thread(s) \/ Reply(s) \/ Notice(s)
  \/ Stop

CSpec == CInit /\ [][CNext]_cvars

\* Heartbeats come, are answered and obeyed while the stream is up, a transfer that
\* may start does, a free thread is taken, a closed connection is noticed, a
\* process whose shutdown is complete ends.  Nothing makes a job save, a rate
\* suffice for a chunk, or a process, a copy or the service fail or stop.
CFairSpec ==
  /\ CSpec
  /\ \A s \in Stream :
       /\ WF_cvars(\/ Beat(s) \/ Ignore(s) \/ Obey(s) \/ Leave(s) \/ Exit(s)
                   \/ Thread(s) \/ Reply(s) \/ Notice(s))
       /\ WF_cvars(Begin(s))

-----------------------------------------------------------------------------
CTypeOK ==
  /\ node \in [Stream -> [proc : {"off", "up", "gone"}, connected : BOOLEAN,
                          stage : {"idle", "waiting", "copying"},
                          left : 0..Size, pending : 0..Size,
                          item : {NoItem} \cup 0..Size, allowed : BOOLEAN,
                          rate : Nat, requested : BOOLEAN, complete : BOOLEAN,
                          raised : BOOLEAN]]
  /\ up \in [Stream -> Seq(0..Size)] /\ down \in [Stream -> Seq(Instruction)]
  /\ \A s \in Stream : node[s].complete => node[s].requested

Lost(s) == Up(s) /\ ~node[s].connected /\ ~node[s].requested
Served(s) == node[s].connected /\ pc[s] \notin {"closed", "queued"}
Writing == {s \in Stream : node[s].connected /\ node[s].stage = "copying"
                                            /\ node[s].left > 0}

\* What the copies of S may write together.
Allotted(S) == SumFunction([s \in S |-> node[s].rate])
Owing == {s \in Stream : /\ Served(s) /\ node[s].stage # "idle"
                         /\ node[s].left > 0}
Raised == {s \in Stream : node[s].connected /\ node[s].raised}
Hosts(S) == {WorkerOf[s] : s \in S}

\* "despite these transient sub-second overshoots" no "sustained PFS saturation"
\* (main.tex 709-710): once jobs stop changing, the rates of the copies that are on
\* their streams come to add up to pfs_bandwidth_bps at most, for good, and those
\* share it who have data left, and copies that raised.
Activity == [s \in Stream |-> <<node[s].proc, node[s].connected, node[s].stage,
                               node[s].left, node[s].raised, pc[s] = "queued">>]
RatesSettle ==
  <>[][UNCHANGED <<Activity, shuttingDown>>]_cvars =>
  <>[](/\ Allotted(Writing) <= Bandwidth
       /\ Hosts(Owing) \subseteq Active(workers)
       /\ Active(workers) \subseteq Hosts(Owing \cup Raised))

\* An accepted checkpoint is granted a rate above zero, by whichever order of its
\* heartbeats, grants and the others', unless its stream breaks or is never
\* served (migrater/server.py 177-181, 195-200, scheduler.py 161-174).
OfferIsGranted ==
  \A s \in Stream :
    node[s].stage = "waiting" /\ Served(s)
      ~> \/ node[s].stage = "copying" /\ node[s].rate > 0
         \/ node[s].stage = "idle" \/ ~node[s].connected

\* A worker that has nothing left gives its share back: its last progress item
\* reaches the registry.  A copy that has raised reports no such item, and keeps
\* its share until the next checkpoint (migrater/server.py 58-63, 210-214).
SharesReturn ==
  \A s \in Stream :
    Served(s) /\ node[s].stage = "idle" /\ ~node[s].raised
      ~> \/ WorkerOf[s] \notin Active(workers)
         \/ node[s].stage # "idle" \/ ~node[s].connected

\* After a shutdown request every migrater that is up ends, or copies what it has
\* left at a rate above zero, and every stream ends, also one that has waited
\* for a thread (orchestrator/server.py 92-106, 153, migrater/server.py 138-151).
ShutdownReachesAll ==
  \A s \in Stream :
    shuttingDown /\ pc[s] # "closed"
      ~> /\ pc[s] = "done"
         /\ \/ ~Up(s) \/ Lost(s)
            \/ node[s].stage = "copying" /\ node[s].rate > 0
=============================================================================
