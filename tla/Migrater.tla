------------------------------ MODULE Migrater ------------------------------
(***************************************************************************)
(* The Migrater service of one compute node, src/src/migrater/server.py.   *)
(*                                                                         *)
(* Five kinds of threads share the fields of one MigraterService:          *)
(*                                                                         *)
(*   - the heartbeat generator (stream() in _heartbeat_loop), pulled by    *)
(*     gRPC's sender thread:                            gen, popped, beat  *)
(*   - the receiver (the rest of _heartbeat_loop), which applies the       *)
(*     orchestrator's instructions:                     rcv                *)
(*   - the handler of the trainer's NotifyCheckpointSaved call:            *)
(*                                                      ntf, offered       *)
(*   - one _do_transfer thread per accepted checkpoint: xfer, remaining    *)
(*   - the main thread in serve():                      main               *)
(*                                                                         *)
(* A step is what a thread does between two points where another thread    *)
(* can be seen: one region under self.lock, one Event.set() or clear(), or *)
(* one call on the ProgressBuffer.                                         *)
(*                                                                         *)
(* Data.  Bytes are counted in chunks.  Only whether the rate is zero      *)
(* matters to the control, so a rate is 0 or 1.  stream() uses the         *)
(* newest element of the progress buffer and logs the others, so the       *)
(* buffer is its newest element.  The k-th checkpoint the trainer offers   *)
(* carries epoch k.  The trainer's call is synchronous and a node runs one *)
(* trainer, so one handler runs at a time.                                 *)
(***************************************************************************)
EXTENDS Integers, Sequences

CONSTANTS
  MaxCkpts,       \* bound: how many checkpoints the trainer offers
  Chunks,         \* bound: the size of a checkpoint, in chunks
  MaxInFlight,    \* bound: messages on the stream in each direction
  IdleReplies,    \* what the policy may answer to a heartbeat of size 0
  ActiveReplies,  \* what it may answer to one of a positive size
  Events,         \* the faults and shutdowns that may happen
  Spacing         \* when the trainer saves again: "none", at any time;
                  \* "flushed", once the last transfer has ended; "reported",
                  \* once its last progress item has been sent as well

Ckpt == 1..MaxCkpts
NoItem == -1                  \* no progress item
Rate == {0, 1}
Reply == [action : {"HOLD", "START_FLUSH", "CHANGE_RATE"}, rate : Rate]

EventKinds == {"exit",        \* the orchestrator shuts down and sends EXIT
               "ctrlc",       \* KeyboardInterrupt in the migrater's main thread
               "streamloss",  \* the Monitor stream fails with an RpcError
               "sizefail",    \* os.path.getsize raises in the handler
               "copyfail"}    \* token_bucket_copy raises

ASSUME BoundsAssumption ==
  /\ MaxCkpts \in Nat
  /\ Chunks \in Nat \ {0}
  /\ MaxInFlight \in Nat \ {0}

ASSUME EnvironmentAssumption ==
  /\ IdleReplies \subseteq Reply
  /\ ActiveReplies \subseteq Reply
  /\ Events \subseteq EventKinds
  /\ Spacing \in {"none", "flushed", "reported"}

VARIABLES
  pendingSize, transferActive, currentRate, transferAllowed, epoch,
  newest,                               \* newest item of the ProgressBuffer
  shutdownRequested, shutdownComplete,
  gen, popped, beat,                    \* generator: pc, its item, its size
  rcv,                                  \* receiver: pc
  ntf, offered,                         \* handler: pc, checkpoints offered
  xfer, remaining,                      \* transfer threads: pc, chunks left
  main,                                 \* main thread: pc
  connected, uplink, downlink,          \* the Monitor stream
  orch,                                 \* the orchestrator
  durable,                              \* checkpoints fsynced on the PFS
  basis                                 \* epoch the last grant was based on

size == <<pendingSize, epoch>>
permission == <<currentRate, transferAllowed>>
shutdown == <<shutdownRequested, shutdownComplete>>
service == <<size, transferActive, permission, shutdown>>
generator == <<gen, popped, beat>>
notify == <<ntf, offered>>
transfers == <<xfer, remaining, durable>>
stream == <<connected, uplink, downlink>>
vars == <<service, newest, generator, rcv, notify, transfers, main, stream,
          orch, basis>>

Heartbeat == [pending : 0..Chunks, epoch : 0..MaxCkpts]
Instruction == [action : {"HOLD", "START_FLUSH", "CHANGE_RATE", "EXIT"},
                rate : Rate, epoch : 0..MaxCkpts]

XferPC == {"none", "refused", "spawning", "waiting", "starting", "copying",
           "paced", "clearing", "exitcheck", "ended"}

Init ==
  /\ pendingSize = 0
  /\ transferActive = FALSE
  /\ currentRate = 0
  /\ transferAllowed = FALSE
  /\ epoch = 0
  /\ newest = NoItem
  /\ shutdownRequested = FALSE
  /\ shutdownComplete = FALSE
  /\ gen = "pop" /\ popped = NoItem /\ beat = 0
  /\ rcv = "wait"
  /\ ntf = "idle" /\ offered = 0
  /\ xfer = [k \in Ckpt |-> "none"]
  /\ remaining = [k \in Ckpt |-> 0]
  /\ main = "serving"
  /\ connected = TRUE /\ uplink = <<>> /\ downlink = <<>>
  /\ orch = "up"
  /\ durable = {}
  /\ basis = 0

-----------------------------------------------------------------------------
(* stream(), the heartbeat generator.  HbPop is the loop test and           *)
(* progress.pop(), HbRead the first region under the lock, HbApply the      *)
(* second, HbYield the hand-over of the heartbeat to gRPC.                  *)

GeneratorFrame ==
  UNCHANGED <<epoch, transferActive, permission, shutdown, rcv, notify,
              transfers, main, connected, downlink, orch, basis>>

HbPop ==
  /\ gen = "pop"
  /\ IF shutdownComplete
       THEN gen' = "ended" /\ UNCHANGED <<popped, newest>>
       ELSE gen' = "read" /\ popped' = newest /\ newest' = NoItem
  /\ UNCHANGED <<pendingSize, beat, uplink>> /\ GeneratorFrame

HasItemsAlways == TRUE       \* variant: "if progress_items" is left out
HasItems == popped # NoItem

HbRead ==
  /\ gen = "read"
  /\ beat' = pendingSize
  /\ gen' = IF HasItems THEN "apply" ELSE "yield"
  /\ UNCHANGED <<pendingSize, popped, newest, uplink>> /\ GeneratorFrame

HbApply ==
  /\ gen = "apply"
  /\ pendingSize' = popped
  /\ beat' = popped
  /\ popped' = NoItem
  /\ gen' = "yield"
  /\ UNCHANGED <<newest, uplink>> /\ GeneratorFrame

\* Once the call is over gRPC pulls no more from the generator.
HbYield ==
  /\ gen = "yield"
  /\ \/ /\ connected /\ Len(uplink) < MaxInFlight
        /\ uplink' = Append(uplink, [pending |-> beat, epoch |-> epoch])
        /\ gen' = "pop"
     \/ /\ ~connected
        /\ gen' = "ended"
        /\ UNCHANGED uplink
  /\ beat' = 0
  /\ UNCHANGED <<pendingSize, popped, newest>> /\ GeneratorFrame

Generator == HbPop \/ HbRead \/ HbApply \/ HbYield

-----------------------------------------------------------------------------
(* The orchestrator, as far as one migrater sees it: each heartbeat is      *)
(* answered in order; once it is shutting down the answer is EXIT and the   *)
(* stream is not read again.                                                *)

Answer(hb) ==
  {[action |-> r.action, rate |-> r.rate, epoch |-> hb.epoch] :
     r \in IF hb.pending > 0 THEN ActiveReplies ELSE IdleReplies}

OrchReply ==
  /\ connected /\ uplink # <<>>
  /\ Len(downlink) < MaxInFlight
  /\ uplink' = Tail(uplink)
  /\ \/ /\ orch = "closing"
        /\ downlink' = Append(downlink, [action |-> "EXIT", rate |-> 1,
                                         epoch |-> Head(uplink).epoch])
        /\ orch' = "closed"
     \/ /\ orch = "up"
        /\ \E i \in Answer(Head(uplink)) : downlink' = Append(downlink, i)
        /\ UNCHANGED orch
  /\ UNCHANGED <<service, newest, generator, rcv, notify, transfers, main,
                 connected, basis>>

OrchShutdown ==
  /\ "exit" \in Events
  /\ orch = "up"
  /\ orch' = "closing"
  /\ UNCHANGED <<service, newest, generator, rcv, notify, transfers, main,
                 stream, basis>>

-----------------------------------------------------------------------------
(* The receiver: _handle_instruction, the loop around it and its finally.   *)

ReceiverFrame ==
  UNCHANGED <<size, transferActive, newest, generator, notify, transfers, main,
              orch>>

Instructed(actions) == /\ rcv = "wait"
                       /\ downlink # <<>>
                       /\ Head(downlink).action \in actions
                       /\ downlink' = Tail(downlink)
                       /\ UNCHANGED <<connected, uplink>>

HandleHold ==
  /\ Instructed({"HOLD"})
  /\ UNCHANGED <<permission, shutdown, rcv, basis>> /\ ReceiverFrame

\* START_FLUSH and CHANGE_RATE: the rate under the lock, then the event.
HandleGrant ==
  /\ Instructed({"START_FLUSH", "CHANGE_RATE"})
  /\ currentRate' = Head(downlink).rate
  /\ basis' = Head(downlink).epoch
  /\ rcv' = "allow"
  /\ UNCHANGED <<transferAllowed, shutdown>> /\ ReceiverFrame

Allow == transferAllowed' = TRUE

AllowTransfer ==
  /\ rcv = "allow"
  /\ Allow
  /\ rcv' = "wait"
  /\ UNCHANGED <<currentRate, shutdown, stream, basis>> /\ ReceiverFrame

\* EXIT: the event first, then the region under the lock (HandleExit), then
\* the permission (AllowOnExit); the loop breaks and the call is dropped.
ReceiveExit ==
  /\ Instructed({"EXIT"})
  /\ shutdownRequested' = TRUE
  /\ basis' = Head(downlink).epoch
  /\ rcv' = "exit"
  /\ UNCHANGED <<permission, shutdownComplete>> /\ ReceiverFrame

HandleExit ==
  /\ rcv = "exit"
  /\ shutdownComplete' = (shutdownComplete \/ ~transferActive)
  /\ currentRate' = IF pendingSize > 0 /\ currentRate <= 0
                      THEN 1 ELSE currentRate
  /\ rcv' = "exitallow"
  /\ UNCHANGED <<transferAllowed, shutdownRequested, stream, basis>>
  /\ ReceiverFrame

HangUp == connected' = FALSE /\ uplink' = <<>> /\ downlink' = <<>>

AllowOnExit ==
  /\ rcv = "exitallow"
  /\ Allow
  /\ HangUp
  /\ rcv' = "finally"
  /\ UNCHANGED <<currentRate, shutdown, basis>> /\ ReceiverFrame

\* The stream ends: with an RpcError, or because the generator has returned
\* and every heartbeat has been answered.  It is never opened again.
StreamEnds ==
  /\ rcv = "wait"
  /\ \/ "streamloss" \in Events
     \/ gen = "ended" /\ uplink = <<>> /\ downlink = <<>>
  /\ HangUp
  /\ rcv' = "finally"
  /\ UNCHANGED <<permission, shutdown, basis>> /\ ReceiverFrame

\* No transfer, nothing pending: what the receiver and the main thread test
\* under the lock before they declare the shutdown complete.
DrainedIfInactive == ~transferActive        \* variant: pending is not tested
Drained == ~transferActive /\ pendingSize = 0

CompleteUnasked ==                          \* variant: the request is not tested
  shutdownComplete' = (shutdownComplete \/ Drained)
CompleteIfDrained ==
  shutdownComplete' = (shutdownComplete \/ (shutdownRequested /\ Drained))

ReceiverFinally ==
  /\ rcv = "finally"
  /\ CompleteIfDrained
  /\ rcv' = "ended"
  /\ UNCHANGED <<permission, shutdownRequested, stream, basis>> /\ ReceiverFrame

Receiver == \/ HandleHold \/ HandleGrant \/ AllowTransfer
            \/ ReceiveExit \/ HandleExit \/ AllowOnExit \/ ReceiverFinally

-----------------------------------------------------------------------------
(* NotifyCheckpointSaved.  NotifyEnter is the first test of the shutdown    *)
(* and getsize(), NotifyLocked the region under the lock, NotifySpawn       *)
(* Thread.start() and the reply.                                            *)

HandlerFrame ==
  UNCHANGED <<transferActive, currentRate, shutdown, newest, generator, rcv,
              durable, main, stream, orch, basis>>

MayOffer ==
  /\ Spacing # "none" => \A k \in Ckpt : xfer[k] \in {"none", "refused", "ended"}
  /\ Spacing = "reported" => newest = NoItem /\ popped = NoItem

Refuse == /\ xfer' = [xfer EXCEPT ![offered'] = "refused"]
          /\ ntf' = "idle"

NotifyEnter ==
  /\ ntf = "idle"
  /\ offered < MaxCkpts
  /\ MayOffer
  /\ offered' = offered + 1
  /\ \/ shutdownRequested /\ Refuse
     \/ ~shutdownRequested /\ "sizefail" \in Events /\ Refuse
     \/ ~shutdownRequested /\ ntf' = "sized" /\ UNCHANGED xfer
  /\ UNCHANGED <<size, transferAllowed, remaining>> /\ HandlerFrame

MustRefuseNoRetest == transferActive   \* variant: no second test of the request
MustRefuse == transferActive \/ shutdownRequested

PublishNothing == UNCHANGED size       \* variant: the size is not published
Publish == pendingSize' = Chunks /\ epoch' = offered

NotifyLocked ==
  /\ ntf = "sized"
  /\ UNCHANGED offered
  /\ \/ /\ MustRefuse
        /\ Refuse
        /\ UNCHANGED <<transferAllowed, size, remaining>>
     \/ /\ ~MustRefuse
        /\ transferAllowed' = FALSE
        /\ Publish
        /\ xfer' = [xfer EXCEPT ![offered] = "spawning"]
        /\ remaining' = [remaining EXCEPT ![offered] = Chunks]
        /\ ntf' = "spawn"
  /\ HandlerFrame

NotifySpawn ==
  /\ ntf = "spawn"
  /\ xfer' = [xfer EXCEPT ![offered] = "waiting"]
  /\ ntf' = "idle"
  /\ UNCHANGED <<offered, size, transferAllowed, remaining>> /\ HandlerFrame

-----------------------------------------------------------------------------
(* _do_transfer, one thread for each accepted checkpoint.  The copy itself  *)
(* is the module TokenBucket; here it is chunks written at a rate above     *)
(* zero, and the progress items that reach the buffer.                      *)

TransferFrame ==
  UNCHANGED <<size, transferAllowed, shutdownRequested, generator, rcv, notify,
              main, stream, orch, basis>>

XferMove(k, from, to) == xfer[k] = from /\ xfer' = [xfer EXCEPT ![k] = to]

XferWake(k) ==
  /\ transferAllowed
  /\ XferMove(k, "waiting", "starting")
  /\ UNCHANGED <<transferActive, currentRate, shutdownComplete, newest,
                 remaining, durable>>
  /\ TransferFrame

XferBegin(k) ==
  /\ XferMove(k, "starting", "copying")
  /\ transferActive' = TRUE
  /\ UNCHANGED <<currentRate, shutdownComplete, newest, remaining, durable>>
  /\ TransferFrame

\* get_current_rate() has returned a positive rate.  What follows in the loop
\* goes by that reading, even if the rate is set to zero meanwhile.
XferRate(k) ==
  /\ currentRate > 0
  /\ XferMove(k, "copying", "paced")
  /\ UNCHANGED <<transferActive, currentRate, shutdownComplete, newest,
                 remaining, durable>>
  /\ TransferFrame

\* One chunk is written; a progress item follows if the interval has passed.
XferChunk(k) ==
  /\ XferMove(k, "paced", "copying") /\ remaining[k] > 0
  /\ remaining' = [remaining EXCEPT ![k] = @ - 1]
  /\ newest' \in {newest, remaining[k] - 1}
  /\ UNCHANGED <<transferActive, currentRate, shutdownComplete, durable>>
  /\ TransferFrame

ReportedCopied(k) == Chunks - remaining[k]  \* variant: the bytes copied instead
Reported(k) == remaining[k]

\* Paused at rate zero, or short of tokens: an item that shows no progress.
XferReport(k) ==
  /\ xfer[k] = "copying"
  /\ newest' = Reported(k)
  /\ UNCHANGED <<transferActive, currentRate, shutdownComplete, transfers>>
  /\ TransferFrame

\* End of file, fsync, and the forced report.
XferEof(k) ==
  /\ XferMove(k, "paced", "clearing") /\ remaining[k] = 0
  /\ newest' = 0
  /\ durable' = durable \cup {k}
  /\ UNCHANGED <<transferActive, currentRate, shutdownComplete, remaining>>
  /\ TransferFrame

OnRaiseAbandon == "ended"              \* variant: no finally block
OnRaise == "clearing"

XferRaise(k) ==
  /\ "copyfail" \in Events
  /\ XferMove(k, "copying", OnRaise) \/ XferMove(k, "paced", OnRaise)
  /\ UNCHANGED <<transferActive, currentRate, shutdownComplete, newest,
                 remaining, durable>>
  /\ TransferFrame

\* The finally block: the region under the lock, then the shutdown test.
XferClear(k) ==
  /\ XferMove(k, "clearing", "exitcheck")
  /\ transferActive' = FALSE
  /\ currentRate' = 0
  /\ UNCHANGED <<shutdownComplete, newest, remaining, durable>>
  /\ TransferFrame

CompleteNever == UNCHANGED shutdownComplete \* variant: no test of the request
CompleteIfRequested ==
  shutdownComplete' = (shutdownComplete \/ shutdownRequested)

XferExitCheck(k) ==
  /\ XferMove(k, "exitcheck", "ended")
  /\ CompleteIfRequested
  /\ UNCHANGED <<transferActive, currentRate, newest, remaining, durable>>
  /\ TransferFrame

Transfer(k) == \/ XferWake(k) \/ XferBegin(k) \/ XferRate(k) \/ XferChunk(k)
               \/ XferEof(k) \/ XferClear(k) \/ XferExitCheck(k)

-----------------------------------------------------------------------------
(* serve(), the main thread.  When it returns the interpreter exits and     *)
(* takes every daemon thread with it.                                       *)

MainFrame ==
  UNCHANGED <<size, transferActive, permission, newest, generator, rcv, notify,
              transfers, stream, orch, basis>>

MainExit ==
  /\ main \in {"serving", "draining"}
  /\ shutdownComplete
  /\ main' = "exited"
  /\ UNCHANGED shutdown /\ MainFrame

CtrlC ==
  /\ "ctrlc" \in Events
  /\ main = "serving"
  /\ shutdownRequested' = TRUE
  /\ main' = "interrupted"
  /\ UNCHANGED shutdownComplete /\ MainFrame

MainDrain ==
  /\ main = "interrupted"
  /\ CompleteIfDrained
  /\ main' = "draining"
  /\ UNCHANGED shutdownRequested /\ MainFrame

-----------------------------------------------------------------------------
Alive == main # "exited"

Step == \/ Generator
        \/ OrchReply \/ OrchShutdown
        \/ Receiver \/ StreamEnds
        \/ NotifyEnter \/ NotifyLocked \/ NotifySpawn
        \/ \E k \in Ckpt : Transfer(k) \/ XferReport(k) \/ XferRaise(k)
        \/ MainExit \/ CtrlC \/ MainDrain

\* The process is gone, or it serves on with nothing left to do.
Terminated == ~Alive /\ UNCHANGED vars

Next == (Alive /\ Step) \/ Terminated

Spec == Init /\ [][Next]_vars

\* Every thread of the process that can run does, and the orchestrator
\* answers.  Nothing is assumed of the trainer, of faults and of shutdowns.
Fairness ==
  /\ WF_vars(Alive /\ Generator)
  /\ WF_vars(Alive /\ Receiver)
  /\ WF_vars(Alive /\ OrchReply)
  /\ WF_vars(Alive /\ (NotifyLocked \/ NotifySpawn))
  /\ \A k \in Ckpt : WF_vars(Alive /\ Transfer(k))
  /\ WF_vars(MainExit) /\ WF_vars(Alive /\ MainDrain)

FairSpec == Spec /\ Fairness

-----------------------------------------------------------------------------
(* Properties.                                                              *)

FlagsOK == {transferActive, transferAllowed, shutdownRequested,
            shutdownComplete, connected} \subseteq BOOLEAN

ServiceOK ==
  /\ pendingSize \in 0..Chunks
  /\ currentRate \in Rate
  /\ epoch \in 0..MaxCkpts
  /\ newest \in {NoItem} \cup 0..Chunks

ThreadsOK ==
  /\ gen \in {"pop", "read", "apply", "yield", "ended"}
  /\ popped \in {NoItem} \cup 0..Chunks
  /\ gen = "apply" => popped # NoItem
  /\ beat \in 0..Chunks
  /\ rcv \in {"wait", "allow", "exit", "exitallow", "finally", "ended"}
  /\ ntf \in {"idle", "sized", "spawn"}
  /\ offered \in 0..MaxCkpts
  /\ ntf # "idle" => offered \in Ckpt
  /\ xfer \in [Ckpt -> XferPC]
  /\ remaining \in [Ckpt -> 0..Chunks]
  /\ main \in {"serving", "interrupted", "draining", "exited"}

OutsideOK ==
  /\ uplink \in Seq(Heartbeat) /\ Len(uplink) <= MaxInFlight
  /\ downlink \in Seq(Instruction) /\ Len(downlink) <= MaxInFlight
  /\ orch \in {"up", "closing", "closed"}
  /\ durable \subseteq Ckpt
  /\ basis \in 0..MaxCkpts

TypeOK == FlagsOK /\ ServiceOK /\ ThreadsOK /\ OutsideOK

\* The handler answered ok=True, or will: nothing can refuse it any more.
Accepted(k) == xfer[k] \notin {"none", "refused"}

\* The transfer of k has not yet reached its finally block's locked region.
Unfinished(k) == xfer[k] \in {"spawning", "waiting", "starting", "copying",
                              "paced", "clearing"}

\* What the trainer's side sees of a checkpoint.
Seen(k) ==
  CASE xfer[k] \in {"none", "refused"} -> xfer[k]
    [] xfer[k] \in {"spawning", "waiting", "starting"} -> "accepted"
    [] xfer[k] \in {"copying", "paced"} -> "writing"
    [] OTHER -> IF k \in durable THEN "flushed" ELSE "failed"

\* The migrater keeps the promise of Handoff: its threads, locks and events
\* answer each offer once, write what was accepted and nothing else, at most
\* once, and accept nothing after a shutdown request (server.py 155-218).
Promise == INSTANCE Handoff WITH status <- [k \in Ckpt |-> Seen(k)],
                                 closing <- shutdownRequested
ImplementsHandoff == Promise!HSpec

\* The shutdown is declared complete only after it was requested, by whichever
\* of the four writers of the event: the EXIT handler, the receiver's finally,
\* a transfer's finally, the Ctrl-C drain (server.py 144, 123, 218, 263).
CompletionNeedsRequest ==
  (shutdownComplete \/ main = "exited") => shutdownRequested

\* Once a shutdown is requested no checkpoint is accepted, even by a call that
\* passed the handler's first test before the request (server.py 156, 173).
NoAcceptAfterShutdown ==
  [][shutdownRequested =>
       \A k \in Ckpt : ~Accepted(k) => ~Accepted(k)']_vars

\* "True while token_bucket_copy is running" (server.py 31), the half that holds
\* however transfers overlap: a raised flag belongs to a running transfer, so
\* the handler never turns a checkpoint away for a transfer that has ended.
ActiveFlagHasCopier ==
  transferActive => \E k \in Ckpt : xfer[k] \in {"copying", "paced", "clearing"}

\* While a checkpoint has data to move the migrater tells the orchestrator so:
\* pending_size is "bytes waiting to be transferred; 0 = idle" (server.py 30).
PendingCoversData ==
  \A k \in Ckpt : Unfinished(k) /\ remaining[k] > 0 => pendingSize > 0

\* A process that ends without an EXIT from the orchestrator (on Ctrl-C alone)
\* leaves no accepted checkpoint behind: every transfer has run to its end.
DrainedExit ==
  main = "exited" /\ orch # "closed" => \A k \in Ckpt : ~Unfinished(k)

\* "If a transfer is pending but not yet started, allow it to start"
\* (server.py 146): a process that exits on EXIT has let every accepted
\* transfer start.
PendingStartsOnExit ==
  main = "exited" =>
    \A k \in Ckpt : xfer[k] \notin {"spawning", "waiting", "starting"}

\* "require a fresh instruction for this transfer" (server.py 177): the grant a
\* transfer starts on answers a heartbeat sent after its checkpoint was accepted.
FreshInstruction ==
  [][\A k \in Ckpt :
       xfer[k] = "waiting" /\ xfer'[k] = "starting" => basis >= k]_vars

\* k needs an instruction, to start or for a rate, and the stream is gone.
Stranded(k) == /\ ~connected
               /\ xfer[k] \in {"spawning", "waiting"} \/ currentRate = 0

\* Every accepted checkpoint reaches the PFS, or its copy raises, or the process
\* is told to exit, or the stream breaks before the copy has started with a rate:
\* one that has goes on without it.  (PLAN.md 90: checkpoints "drain to Lustre
\* asynchronously"; server.py 106-123, 195-214.)
AcceptedIsFlushed ==
  \A k \in Ckpt :
    Accepted(k) ~> \/ ~Unfinished(k)
                   \/ orch # "up"
                   \/ Stranded(k)

\* After Ctrl-C the process outlives the accepted transfers that can still run,
\* and no longer: the last of them completes the shutdown.  (If the drain test
\* finds none left but the last item unsent, only the end of the stream can.)
\* (server.py 216-218, 254-266)
CtrlCEnds ==
  \A k \in Ckpt :
    main = "draining" /\ Unfinished(k)
      ~> main = "exited" \/ Stranded(k)

\* Once EXIT has been handled the process ends: the running transfer, if any,
\* finishes and completes the shutdown (server.py 138-151, 216-218).
ExitReachesMain == (rcv = "exit") ~> (main = "exited")
=============================================================================
