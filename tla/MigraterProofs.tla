--------------------------- MODULE MigraterProofs ---------------------------
(***************************************************************************)
(* Theorems about the Migrater service, for every value of its constants.  *)
(***************************************************************************)
EXTENDS Migrater, TLAPS

\* The abbreviations a step is written with: what it leaves alone, and the
\* tests and assignments that have names of their own.
USE DEF GeneratorFrame, ReceiverFrame, HandlerFrame, TransferFrame, MainFrame,
        size, permission, shutdown, HasItems, Allow, CompleteIfDrained,
        CompleteIfRequested, MustRefuse, Publish, Reported, OnRaise

\* The flags stay Boolean.  (Apart from the rest: no arithmetic is needed.)
LEMMA FlagsTyping == Spec => []FlagsOK
<1> USE DEF FlagsOK, service, generator, notify, transfers, stream
<1>1. Init => FlagsOK
  BY DEF Init
<1>2. FlagsOK /\ [Next]_vars => FlagsOK'
  <2> SUFFICES ASSUME FlagsOK, [Next]_vars
               PROVE  FlagsOK'
    OBVIOUS
  <2>1. CASE Generator
    BY <2>1 DEF Generator, HbPop, HbRead, HbApply, HbYield
  <2>2. CASE OrchReply \/ OrchShutdown
    BY <2>2 DEF OrchReply, OrchShutdown
  <2>3. CASE Receiver \/ StreamEnds
    BY <2>3 DEF Receiver, Instructed, HandleHold, HandleGrant, AllowTransfer,
                StreamEnds, ReceiveExit, HandleExit, AllowOnExit, HangUp,
                ReceiverFinally
  <2>4. CASE NotifyEnter \/ NotifyLocked \/ NotifySpawn
    BY <2>4 DEF NotifyEnter, NotifyLocked, NotifySpawn
  <2>5. ASSUME NEW k \in Ckpt, Transfer(k) \/ XferReport(k) \/ XferRaise(k)
        PROVE  FlagsOK'
    BY <2>5 DEF Transfer, XferWake, XferBegin, XferRate, XferChunk, XferReport,
                XferEof, XferRaise, XferClear, XferExitCheck
  <2>6. CASE MainExit \/ CtrlC \/ MainDrain
    BY <2>6 DEF MainExit, CtrlC, MainDrain, Drained
  <2>7. CASE UNCHANGED vars
    BY <2>7 DEF vars
  <2> QED
    BY <2>1, <2>2, <2>3, <2>4, <2>5, <2>6, <2>7 DEF Next, Step, Terminated
<1> QED
  BY <1>1, <1>2, PTL DEF Spec

\* What taking the first element of a queue and adding a last one return.
LEMMA QueueTake ==
  ASSUME NEW S, NEW s \in Seq(S), s # <<>>
  PROVE  Head(s) \in S /\ Tail(s) \in Seq(S) /\ Len(Tail(s)) = Len(s) - 1
OBVIOUS

LEMMA QueueAdd ==
  ASSUME NEW S, NEW s \in Seq(S), NEW e \in S
  PROVE  Append(s, e) \in Seq(S) /\ Len(Append(s, e)) = Len(s) + 1
OBVIOUS

DataOK == ServiceOK /\ ThreadsOK /\ OutsideOK

LEMMA DataTyping == Spec => []DataOK
<1> USE BoundsAssumption, EnvironmentAssumption
    DEF DataOK, Ckpt, NoItem, Rate, service, generator, notify, transfers,
        stream
<1>1. Init => DataOK
  BY DEF Init, ServiceOK, ThreadsOK, OutsideOK, XferPC
<1>2. DataOK /\ [Next]_vars => DataOK'
  <2> SUFFICES ASSUME DataOK, [Next]_vars
               PROVE  DataOK'
    OBVIOUS
  <2>1. CASE HbPop
    BY <2>1 DEF HbPop, ServiceOK, ThreadsOK, OutsideOK
  <2>1a. CASE HbRead
    BY <2>1a DEF HbRead, ServiceOK, ThreadsOK, OutsideOK
  <2>1b. CASE HbApply
    BY <2>1b DEF HbApply, ServiceOK, ThreadsOK, OutsideOK
  <2>2. CASE HbYield
    <3>1. [pending |-> beat, epoch |-> epoch] \in Heartbeat
      BY DEF Heartbeat, ServiceOK, ThreadsOK
    <3>2. OutsideOK'
      BY <2>2, <3>1, QueueAdd DEF HbYield, OutsideOK
    <3> QED
      BY <2>2, <3>2 DEF HbYield, ServiceOK, ThreadsOK
  <2>3. CASE OrchReply
    <3> DEFINE hb == Head(uplink)
    <3>1. hb \in Heartbeat /\ Tail(uplink) \in Seq(Heartbeat)
          /\ Len(Tail(uplink)) = Len(uplink) - 1
      BY <2>3, QueueTake DEF OrchReply, OutsideOK
    <3>2. hb.epoch \in 0..MaxCkpts
      BY <3>1 DEF Heartbeat
    <3>3. uplink' \in Seq(Heartbeat) /\ Len(uplink') <= MaxInFlight
      BY <2>3, <3>1 DEF OrchReply, OutsideOK
    <3>4. PICK i \in Instruction : downlink' = Append(downlink, i)
      <4>1. CASE orch = "closing"
        BY <2>3, <3>2, <4>1 DEF OrchReply, Instruction
      <4>2. CASE orch = "up"
        <5>1. PICK r \in Reply :
                downlink' = Append(downlink, [action |-> r.action,
                                     rate |-> r.rate, epoch |-> hb.epoch])
          BY <2>3, <4>2 DEF OrchReply, Answer
        <5> QED
          BY <3>2, <5>1 DEF Reply, Instruction
      <4> QED
        BY <2>3, <4>1, <4>2 DEF OrchReply
    <3>5. downlink' \in Seq(Instruction) /\ Len(downlink') <= MaxInFlight
      BY <2>3, <3>4, QueueAdd DEF OrchReply, OutsideOK
    <3>6. OutsideOK'
      BY <2>3, <3>3, <3>5 DEF OrchReply, OutsideOK
    <3> QED
      BY <2>3, <3>6 DEF OrchReply, ServiceOK, ThreadsOK
  <2>4. CASE OrchShutdown
    BY <2>4 DEF OrchShutdown, ServiceOK, ThreadsOK, OutsideOK
  <2>5. ASSUME NEW actions, Instructed(actions)
        PROVE  /\ downlink' \in Seq(Instruction) /\ Len(downlink') <= MaxInFlight
               /\ Head(downlink).rate \in Rate
               /\ Head(downlink).epoch \in 0..MaxCkpts
               /\ UNCHANGED uplink
    <3>1. Head(downlink) \in Instruction /\ Tail(downlink) \in Seq(Instruction)
          /\ Len(Tail(downlink)) = Len(downlink) - 1
      BY <2>5, QueueTake DEF Instructed, OutsideOK
    <3>2. Head(downlink).rate \in Rate /\ Head(downlink).epoch \in 0..MaxCkpts
      BY <3>1 DEF Instruction
    <3> QED
      BY <2>5, <3>1, <3>2 DEF Instructed, OutsideOK
  <2>6. CASE HandleHold
    BY <2>5, <2>6 DEF HandleHold, ServiceOK, ThreadsOK, OutsideOK
  <2>6a. CASE HandleGrant
    BY <2>5, <2>6a DEF HandleGrant, ServiceOK, ThreadsOK, OutsideOK
  <2>6b. CASE AllowTransfer
    BY <2>6b DEF AllowTransfer, ServiceOK, ThreadsOK, OutsideOK
  <2>6c. CASE ReceiveExit
    BY <2>5, <2>6c DEF ReceiveExit, ServiceOK, ThreadsOK, OutsideOK
  <2>6d. CASE HandleExit
    BY <2>6d DEF HandleExit, ServiceOK, ThreadsOK, OutsideOK
  <2>6e. CASE AllowOnExit
    BY <2>6e DEF AllowOnExit, HangUp, ServiceOK, ThreadsOK, OutsideOK
  <2>6f. CASE ReceiverFinally
    BY <2>6f DEF ReceiverFinally, ServiceOK, ThreadsOK, OutsideOK
  <2>6g. CASE StreamEnds
    BY <2>6g DEF StreamEnds, HangUp, ServiceOK, ThreadsOK, OutsideOK
  <2>7. CASE NotifyEnter
    <3>1. offered' = offered + 1 /\ offered' \in Ckpt
      BY <2>7 DEF NotifyEnter, ThreadsOK
    <3>2. ThreadsOK'
      <4>1. CASE Refuse
        BY <2>7, <3>1, <4>1 DEF NotifyEnter, Refuse, XferPC, ThreadsOK
      <4>2. CASE ntf' = "sized" /\ UNCHANGED xfer
        BY <2>7, <3>1, <4>2 DEF NotifyEnter, ThreadsOK
      <4> QED
        BY <2>7, <4>1, <4>2 DEF NotifyEnter
    <3> QED
      BY <2>7, <3>2 DEF NotifyEnter, ServiceOK, ThreadsOK, OutsideOK
  <2>8. CASE NotifyLocked
    <3>1. offered' = offered /\ offered \in Ckpt
      BY <2>8 DEF NotifyLocked, ThreadsOK
    <3>2. ThreadsOK'
      <4>1. CASE ntf' = "idle" /\ xfer' = [xfer EXCEPT ![offered] = "refused"]
                 /\ UNCHANGED remaining
        BY <2>8, <3>1, <4>1 DEF NotifyLocked, ThreadsOK, XferPC
      <4>2. CASE ntf' = "spawn" /\ xfer' = [xfer EXCEPT ![offered] = "spawning"]
                 /\ remaining' = [remaining EXCEPT ![offered] = Chunks]
        BY <2>8, <3>1, <4>2 DEF NotifyLocked, ThreadsOK, XferPC
      <4> QED
        BY <2>8, <3>1, <4>1, <4>2 DEF NotifyLocked, Refuse
    <3> QED
      BY <2>8, <3>2 DEF NotifyLocked, ServiceOK, ThreadsOK, OutsideOK
  <2>9. CASE NotifySpawn
    BY <2>9 DEF NotifySpawn, XferPC, ServiceOK, ThreadsOK, OutsideOK
  <2>10. ASSUME NEW k \in Ckpt, Transfer(k) \/ XferReport(k) \/ XferRaise(k)
         PROVE  DataOK'
    <3> USE DEF XferMove, XferPC, ServiceOK, ThreadsOK, OutsideOK
    <3>1. CASE XferWake(k)
      BY <3>1 DEF XferWake
    <3>2. CASE XferBegin(k)
      BY <3>2 DEF XferBegin
    <3>2a. CASE XferRate(k)
      BY <3>2a DEF XferRate
    <3>3. CASE XferChunk(k)
      BY <3>3 DEF XferChunk
    <3>4. CASE XferReport(k)
      BY <3>4 DEF XferReport
    <3>5. CASE XferEof(k)
      BY <3>5 DEF XferEof
    <3>6. CASE XferRaise(k)
      <4>1. xfer' = [xfer EXCEPT ![k] = "clearing"]
        BY <3>6 DEF XferRaise
      <4> QED
        BY <3>6, <4>1 DEF XferRaise
    <3>7. CASE XferClear(k)
      BY <3>7 DEF XferClear
    <3>8. CASE XferExitCheck(k)
      BY <3>8 DEF XferExitCheck
    <3> QED
      BY <2>10, <3>1, <3>2, <3>2a, <3>3, <3>4, <3>5, <3>6, <3>7, <3>8 
    DEF Transfer
  <2>11. CASE MainExit
    BY <2>11 DEF MainExit, ServiceOK, ThreadsOK, OutsideOK
  <2>11a. CASE CtrlC
    BY <2>11a DEF CtrlC, ServiceOK, ThreadsOK, OutsideOK
  <2>11b. CASE MainDrain
    BY <2>11b DEF MainDrain, ServiceOK, ThreadsOK, OutsideOK
  <2>12. CASE UNCHANGED vars
    BY <2>12 DEF vars, ServiceOK, ThreadsOK, OutsideOK
  <2> QED
    BY <2>1, <2>1a, <2>1b, <2>2, <2>3, <2>4, <2>6, <2>6a, <2>6b, <2>6c, <2>6d,
       <2>6e, <2>6f, <2>6g, <2>7, <2>8, <2>9, <2>10, <2>11, <2>11a, <2>11b,
       <2>12
    DEF Next, Step, Generator, Receiver, Terminated
<1> QED
  BY <1>1, <1>2, PTL DEF Spec

\* Every field, program counter and message keeps the type its code gives it.
THEOREM Typing == Spec => []TypeOK
  BY FlagsTyping, DataTyping, PTL DEF TypeOK, DataOK

-----------------------------------------------------------------------------
(* The shutdown is complete only if it was requested.  The invariant adds   *)
(* the two places where a thread is between the request and the completion. *)

RequestInv ==
  /\ shutdownComplete => shutdownRequested
  /\ rcv \in {"exit", "exitallow"} => shutdownRequested
  /\ main # "serving" => shutdownRequested

LEMMA Requested == Spec => []RequestInv
<1> USE DEF RequestInv, service, generator, notify, transfers, stream
<1>1. Init => RequestInv
  BY DEF Init
<1>2. RequestInv /\ [Next]_vars => RequestInv'
  <2> SUFFICES ASSUME RequestInv, [Next]_vars
               PROVE  RequestInv'
    OBVIOUS
  <2>1. CASE Generator
    BY <2>1 DEF Generator, HbPop, HbRead, HbApply, HbYield
  <2>2. CASE OrchReply \/ OrchShutdown
    BY <2>2 DEF OrchReply, OrchShutdown
  <2>3. CASE HandleHold \/ HandleGrant \/ AllowTransfer \/ StreamEnds
    BY <2>3 DEF HandleHold, HandleGrant, AllowTransfer, StreamEnds
  <2>4. CASE ReceiveExit \/ HandleExit \/ AllowOnExit
    BY <2>4 DEF ReceiveExit, HandleExit, AllowOnExit
  <2>5. CASE ReceiverFinally
    BY <2>5 DEF ReceiverFinally
  <2>6. CASE NotifyEnter \/ NotifyLocked \/ NotifySpawn
    BY <2>6 DEF NotifyEnter, NotifyLocked, NotifySpawn
  <2>7. ASSUME NEW k \in Ckpt, Transfer(k) \/ XferReport(k) \/ XferRaise(k)
        PROVE  RequestInv'
    <3>1. CASE XferExitCheck(k)
      BY <3>1 DEF XferExitCheck
    <3>2. CASE ~XferExitCheck(k)
      BY <2>7, <3>2 DEF Transfer, XferWake, XferBegin, XferRate, XferChunk,
                        XferReport, XferEof, XferRaise, XferClear
    <3> QED
      BY <3>1, <3>2
  <2>8. CASE MainExit \/ CtrlC \/ MainDrain
    BY <2>8 DEF MainExit, CtrlC, MainDrain
  <2>9. CASE UNCHANGED vars
    BY <2>9 DEF vars
  <2> QED
    BY <2>1, <2>2, <2>3, <2>4, <2>5, <2>6, <2>7, <2>8, <2>9
    DEF Next, Step, Receiver, Terminated
<1> QED
  BY <1>1, <1>2, PTL DEF Spec

\* No writer of shutdown_complete runs ahead of the request.
THEOREM CompletionIsRequested == Spec => []CompletionNeedsRequest
<1>1. RequestInv => CompletionNeedsRequest
  BY DEF RequestInv, CompletionNeedsRequest
<1> QED
  BY <1>1, Requested, PTL

-----------------------------------------------------------------------------
(* The handler works on the newest checkpoint, and on it alone.             *)

OfferInv ==
  /\ \A k \in Ckpt : k > offered => xfer[k] = "none"
  /\ ntf = "sized" => xfer[offered] = "none"
  /\ ntf = "spawn" => xfer[offered] = "spawning"

\* What one step of a transfer thread may do to the program counters.
LEMMA TransferMoves ==
  ASSUME ThreadsOK, NEW k \in Ckpt, Transfer(k) \/ XferReport(k) \/ XferRaise(k)
  PROVE  /\ UNCHANGED <<notify>>
         /\ \A j \in Ckpt : j # k => xfer'[j] = xfer[j]
         /\ xfer[k] \notin {"none", "refused", "spawning", "ended"}
         /\ xfer'[k] \notin {"none", "refused", "spawning", "waiting"}
              \/ xfer'[k] = xfer[k]
<1> USE DEF ThreadsOK, XferMove, transfers
<1>1. CASE XferWake(k)
  BY <1>1 DEF XferWake
<1>2. CASE XferBegin(k)
  BY <1>2 DEF XferBegin
<1>3. CASE XferRate(k) \/ XferChunk(k) \/ XferReport(k)
  BY <1>3 DEF XferRate, XferChunk, XferReport
<1>4. CASE XferEof(k) \/ XferRaise(k)
  BY <1>4 DEF XferEof, XferRaise
<1>5. CASE XferClear(k)
  BY <1>5 DEF XferClear
<1>6. CASE XferExitCheck(k)
  BY <1>6 DEF XferExitCheck
<1> QED
  BY <1>1, <1>2, <1>3, <1>4, <1>5, <1>6 DEF Transfer

\* Every other step but the handler's leaves the program counters alone.
LEMMA NoMove ==
  ASSUME \/ Generator \/ OrchReply \/ OrchShutdown \/ Receiver \/ StreamEnds
         \/ MainExit \/ CtrlC \/ MainDrain \/ UNCHANGED vars
  PROVE  UNCHANGED <<notify, xfer, remaining>>
<1> USE DEF transfers
<1>1. CASE Generator
  BY <1>1 DEF Generator, HbPop, HbRead, HbApply, HbYield
<1>2. CASE OrchReply \/ OrchShutdown
  BY <1>2 DEF OrchReply, OrchShutdown
<1>3. CASE Receiver \/ StreamEnds
  BY <1>3 DEF Receiver, HandleHold, HandleGrant, AllowTransfer, StreamEnds,
              ReceiveExit, HandleExit, AllowOnExit, ReceiverFinally
<1>4. CASE MainExit \/ CtrlC \/ MainDrain
  BY <1>4 DEF MainExit, CtrlC, MainDrain
<1>5. CASE UNCHANGED vars
  BY <1>5 DEF vars
<1> QED
  BY <1>1, <1>2, <1>3, <1>4, <1>5

LEMMA Offered == Spec => []OfferInv
<1>1. Init => OfferInv
  BY DEF Init, OfferInv
<1>2. ThreadsOK /\ OfferInv /\ [Next]_vars => OfferInv'
  <2> SUFFICES ASSUME ThreadsOK, OfferInv, [Next]_vars
               PROVE  OfferInv'
    OBVIOUS
  <2> USE BoundsAssumption DEF OfferInv, Ckpt
  <2>0. xfer \in [Ckpt -> XferPC] /\ offered \in 0..MaxCkpts
        /\ (ntf # "idle" => offered \in Ckpt)
    BY DEF ThreadsOK
  <2>1. CASE UNCHANGED <<notify, xfer, remaining>>
    BY <2>1 DEF notify
  <2>2. CASE NotifyEnter
    <3>1. offered' = offered + 1 /\ offered' \in Ckpt /\ xfer[offered'] = "none"
      BY <2>0, <2>2 DEF NotifyEnter
    <3> QED
      BY <2>0, <2>2, <3>1 DEF NotifyEnter, Refuse
  <2>3. CASE NotifyLocked
    BY <2>0, <2>3 DEF NotifyLocked, Refuse
  <2>4. CASE NotifySpawn
    BY <2>0, <2>4 DEF NotifySpawn
  <2>5. ASSUME NEW k \in Ckpt, Transfer(k) \/ XferReport(k) \/ XferRaise(k)
        PROVE  OfferInv'
    BY <2>0, <2>5, TransferMoves DEF notify
  <2> QED
    BY <2>1, <2>2, <2>3, <2>4, <2>5, NoMove DEF Next, Step, Terminated
<1> QED
  BY <1>1, <1>2, DataTyping, PTL DEF Spec, DataOK

-----------------------------------------------------------------------------
(* Once a shutdown is requested nothing is accepted: only the locked region *)
(* of the handler accepts, and it tests the request itself.                 *)

LEMMA AcceptStep ==
  ASSUME ThreadsOK, OfferInv, [Next]_vars, shutdownRequested,
         NEW k \in Ckpt, ~Accepted(k)
  PROVE  ~Accepted(k)'
<1> USE DEF Accepted
<1>0. xfer \in [Ckpt -> XferPC]
  BY DEF ThreadsOK
<1>1. CASE UNCHANGED <<notify, xfer, remaining>>
  BY <1>1
<1>2. CASE NotifyEnter \/ NotifyLocked
  BY <1>0, <1>2 DEF NotifyEnter, NotifyLocked, Refuse
<1>3. CASE NotifySpawn
  BY <1>0, <1>3 DEF NotifySpawn, OfferInv
<1>4. ASSUME NEW j \in Ckpt, Transfer(j) \/ XferReport(j) \/ XferRaise(j)
      PROVE  ~Accepted(k)'
  BY <1>4, TransferMoves
<1> QED
  BY <1>1, <1>2, <1>3, <1>4, NoMove DEF Next, Step, Terminated

\* The handler's second test closes the window its first one leaves.
THEOREM NothingAcceptedAfterRequest == Spec => NoAcceptAfterShutdown
<1>1. ThreadsOK /\ OfferInv /\ [Next]_vars =>
        [shutdownRequested =>
           \A k \in Ckpt : ~Accepted(k) => ~Accepted(k)']_vars
  BY AcceptStep
<1> QED
  BY <1>1, DataTyping, Offered, PTL DEF Spec, DataOK, NoAcceptAfterShutdown

-----------------------------------------------------------------------------
(* A raised flag belongs to a running transfer.                             *)

\* The steps that can touch the flag are those of a transfer thread.
LEMMA FlagMoves ==
  ASSUME \/ Generator \/ OrchReply \/ OrchShutdown \/ Receiver \/ StreamEnds
         \/ MainExit \/ CtrlC \/ MainDrain \/ UNCHANGED vars
         \/ NotifyEnter \/ NotifyLocked \/ NotifySpawn
  PROVE  UNCHANGED transferActive
<1> USE DEF service
<1>1. CASE Generator
  BY <1>1 DEF Generator, HbPop, HbRead, HbApply, HbYield
<1>2. CASE OrchReply \/ OrchShutdown
  BY <1>2 DEF OrchReply, OrchShutdown
<1>3. CASE Receiver \/ StreamEnds
  BY <1>3 DEF Receiver, HandleHold, HandleGrant, AllowTransfer, StreamEnds,
              ReceiveExit, HandleExit, AllowOnExit, ReceiverFinally
<1>4. CASE MainExit \/ CtrlC \/ MainDrain
  BY <1>4 DEF MainExit, CtrlC, MainDrain
<1>5. CASE NotifyEnter \/ NotifyLocked \/ NotifySpawn
  BY <1>5 DEF NotifyEnter, NotifyLocked, NotifySpawn
<1>6. CASE UNCHANGED vars
  BY <1>6 DEF vars
<1> QED
  BY <1>1, <1>2, <1>3, <1>4, <1>5, <1>6

LEMMA FlagStep ==
  ASSUME ThreadsOK, OfferInv, ActiveFlagHasCopier, [Next]_vars
  PROVE  ActiveFlagHasCopier'
<1> USE DEF ActiveFlagHasCopier
<1>0. xfer \in [Ckpt -> XferPC]
  BY DEF ThreadsOK
<1>1. CASE UNCHANGED <<notify, xfer, remaining>> /\ UNCHANGED transferActive
  BY <1>1
<1>2. CASE NotifyEnter \/ NotifyLocked \/ NotifySpawn
  <2>1. \A k \in Ckpt : xfer[k] \in {"copying", "paced", "clearing"} =>
  xfer'[k] = xfer[k]
    <3>1. CASE NotifyEnter
      <4>1. offered' = offered + 1 /\ offered' \in Ckpt
        BY <3>1, BoundsAssumption DEF NotifyEnter, ThreadsOK, Ckpt
      <4> QED
        BY <1>0, <3>1, <4>1 DEF NotifyEnter, Refuse, OfferInv, ThreadsOK
    <3>2. CASE NotifyLocked
      BY <1>0, <3>2 DEF NotifyLocked, Refuse, OfferInv
    <3>3. CASE NotifySpawn
      BY <1>0, <3>3 DEF NotifySpawn, OfferInv
    <3> QED
      BY <1>2, <3>1, <3>2, <3>3
  <2> QED
    BY <1>2, <2>1, FlagMoves
<1>3. ASSUME NEW k \in Ckpt, Transfer(k) \/ XferReport(k) \/ XferRaise(k)
      PROVE  ActiveFlagHasCopier'
  <2> USE DEF XferMove, service, transfers
  <2>1. CASE XferWake(k)
    BY <1>0, <2>1 DEF XferWake
  <2>2. CASE XferBegin(k)
    BY <1>0, <2>2 DEF XferBegin
  <2>3. CASE XferRate(k) \/ XferChunk(k) \/ XferReport(k)
    BY <1>0, <2>3 DEF XferRate, XferChunk, XferReport
  <2>4. CASE XferEof(k) \/ XferRaise(k)
    BY <1>0, <2>4 DEF XferEof, XferRaise
  <2>5. CASE XferClear(k)
    BY <2>5 DEF XferClear
  <2>6. CASE XferExitCheck(k)
    BY <1>0, <2>6 DEF XferExitCheck
  <2> QED
    BY <1>3, <2>1, <2>2, <2>3, <2>4, <2>5, <2>6 DEF Transfer
<1> QED
  BY <1>1, <1>2, <1>3, NoMove, FlagMoves DEF Next, Step, Terminated

\* No checkpoint is turned away for a transfer that is over.
THEOREM FlagBelongsToCopier == Spec => []ActiveFlagHasCopier
<1>1. Init => ActiveFlagHasCopier
  BY DEF Init, ActiveFlagHasCopier
<1>2. ThreadsOK /\ OfferInv /\ ActiveFlagHasCopier /\ [Next]_vars
        => ActiveFlagHasCopier'
  BY FlagStep
<1> QED
  BY <1>1, <1>2, DataTyping, Offered, PTL DEF Spec, DataOK

-----------------------------------------------------------------------------
(* What a drained exit rests on, when saves are spaced: one transfer at a   *)
(* time; its size published until its last progress item has been applied;  *)
(* the flag raised for as long as it runs; and no EXIT unless one was sent. *)

Live(k) == xfer[k] \notin {"none", "refused", "ended"}

OneAtATime ==
  /\ \A k \in Ckpt : Live(k) => k = offered
  /\ ntf = "sized" => /\ \A k \in Ckpt : ~Live(k)
                      /\ newest = NoItem
                      /\ popped = NoItem

SizePublished ==
  \A k \in Ckpt :
    /\ xfer[k] \in {"spawning", "waiting", "starting"} =>
         /\ pendingSize = Chunks
         /\ newest = NoItem
         /\ popped = NoItem
    /\ xfer[k] \in {"copying", "paced", "clearing"} =>
         /\ transferActive
         /\ remaining[k] > 0 => pendingSize > 0 /\ newest # 0 /\ popped # 0

ExitWasSent ==
  /\ \A i \in 1..Len(downlink) :
       downlink[i].action = "EXIT" => orch = "closed"
  /\ rcv \in {"exit", "exitallow"} => orch = "closed"

DoneWhenComplete ==
  /\ shutdownComplete /\ orch # "closed" => \A k \in Ckpt : ~Unfinished(k)
  /\ main = "exited" => shutdownComplete

\* The steps of no transfer thread and of no handler only move progress items
\* towards the orchestrator.
LEMMA ItemMoves ==
  ASSUME \/ Generator \/ OrchReply \/ OrchShutdown \/ Receiver \/ StreamEnds
         \/ MainExit \/ CtrlC \/ MainDrain \/ UNCHANGED vars
  PROVE  /\ newest' \in {newest, NoItem}
         /\ popped' \in {popped, newest, NoItem}
<1> USE DEF generator
<1>1. CASE Generator
  BY <1>1 DEF Generator, HbPop, HbRead, HbApply, HbYield
<1>2. CASE OrchReply \/ OrchShutdown
  BY <1>2 DEF OrchReply, OrchShutdown
<1>3. CASE Receiver \/ StreamEnds
  BY <1>3 DEF Receiver, HandleHold, HandleGrant, AllowTransfer, StreamEnds,
              ReceiveExit, HandleExit, AllowOnExit, ReceiverFinally
<1>4. CASE MainExit \/ CtrlC \/ MainDrain
  BY <1>4 DEF MainExit, CtrlC, MainDrain
<1>5. CASE UNCHANGED vars
  BY <1>5 DEF vars
<1> QED
  BY <1>1, <1>2, <1>3, <1>4, <1>5

LEMMA OneStep ==
  ASSUME ThreadsOK, OfferInv, OneAtATime, Spacing = "reported", [Next]_vars
  PROVE  OneAtATime'
<1> USE DEF OneAtATime, Live
<1>0. xfer \in [Ckpt -> XferPC]
  BY DEF ThreadsOK
<1>1. CASE \/ Generator \/ OrchReply \/ OrchShutdown \/ Receiver \/ StreamEnds
           \/ MainExit \/ CtrlC \/ MainDrain \/ UNCHANGED vars
  BY <1>1, NoMove, ItemMoves DEF notify
<1>2. CASE NotifyEnter
  BY <1>0, <1>2 DEF NotifyEnter, MayOffer, Refuse, generator
<1>3. CASE NotifyLocked
  BY <1>0, <1>3 DEF NotifyLocked, Refuse
<1>4. CASE NotifySpawn
  BY <1>0, <1>4 DEF NotifySpawn, OfferInv
<1>5. ASSUME NEW k \in Ckpt, Transfer(k) \/ XferReport(k) \/ XferRaise(k)
      PROVE  OneAtATime'
  BY <1>5, TransferMoves DEF notify
<1> QED
  BY <1>1, <1>2, <1>3, <1>4, <1>5 DEF Next, Step, Terminated

LEMMA SizeStep ==
  ASSUME DataOK, OfferInv, OneAtATime, SizePublished, [Next]_vars
  PROVE  SizePublished'
<1> USE BoundsAssumption DEF DataOK, ServiceOK, ThreadsOK, SizePublished, Ckpt,
                             NoItem
<1>1. CASE Generator
  <2>0. UNCHANGED <<xfer, remaining, transferActive>>
    BY <1>1, NoMove, FlagMoves
  <2>1. CASE UNCHANGED pendingSize
    BY <1>1, <2>0, <2>1, ItemMoves
  <2>2. CASE HbApply
    BY <2>0, <2>2 DEF HbApply
  <2> QED
    BY <1>1, <2>1, <2>2 DEF Generator, HbPop, HbRead, HbYield, service
<1>2. CASE OrchReply \/ OrchShutdown \/ Receiver \/ StreamEnds
           \/ MainExit \/ CtrlC \/ MainDrain \/ UNCHANGED vars
  <2>1. UNCHANGED <<pendingSize, newest, popped>>
    BY <1>2 DEF OrchReply, OrchShutdown, Receiver, HandleHold, HandleGrant,
                AllowTransfer, StreamEnds, ReceiveExit, HandleExit, AllowOnExit,
                ReceiverFinally, MainExit, CtrlC, MainDrain, vars, service,
                generator
  <2> QED
    BY <1>2, <2>1, NoMove, FlagMoves
<1>3. CASE NotifyEnter
  <2>1. offered' = offered + 1 /\ offered' \in Ckpt /\ xfer[offered'] = "none"
    BY <1>3 DEF NotifyEnter, OfferInv
  <2> QED
    BY <1>3, <2>1 DEF NotifyEnter, Refuse, service, generator
<1>4. CASE NotifyLocked
  <2>1. \A k \in Ckpt : ~Live(k)
    BY <1>4 DEF NotifyLocked, OneAtATime
  <2>2. newest = NoItem /\ popped = NoItem
    BY <1>4 DEF NotifyLocked, OneAtATime
  <2> QED
    BY <1>4, <2>1, <2>2 DEF NotifyLocked, Refuse, Live, generator
<1>5. CASE NotifySpawn
  BY <1>5 DEF NotifySpawn, OfferInv, service, generator
<1>6. ASSUME NEW k \in Ckpt, Transfer(k) \/ XferReport(k) \/ XferRaise(k)
      PROVE  SizePublished'
  <2>0. \A j \in Ckpt : j # k => ~Live(j) /\ xfer'[j] = xfer[j]
    <3>1. Live(k)
      BY <1>6, TransferMoves DEF Live
    <3> QED
      BY <1>6, <3>1, TransferMoves DEF OneAtATime
  <2> SUFFICES
        /\ xfer'[k] \in {"spawning", "waiting", "starting"} =>
             pendingSize' = Chunks /\ newest' = NoItem /\ popped' = NoItem
        /\ xfer'[k] \in {"copying", "paced", "clearing"} =>
             /\ transferActive'
             /\ remaining'[k] > 0 =>
                  pendingSize' > 0 /\ newest' # 0 /\ popped' # 0
    BY <2>0 DEF Live
  <2> USE DEF XferMove, service, generator, transfers
  <2>1. CASE XferWake(k)
    BY <2>1 DEF XferWake
  <2>2. CASE XferBegin(k)
    BY <2>2 DEF XferBegin
  <2>2a. CASE XferRate(k)
    BY <2>2a DEF XferRate
  <2>3. CASE XferChunk(k)
    BY <2>3 DEF XferChunk
  <2>4. CASE XferReport(k)
    BY <2>4 DEF XferReport
  <2>5. CASE XferEof(k)
    BY <2>5 DEF XferEof
  <2>6. CASE XferRaise(k)
    BY <2>6 DEF XferRaise
  <2>7. CASE XferClear(k)
    BY <2>7 DEF XferClear
  <2>8. CASE XferExitCheck(k)
    BY <2>8 DEF XferExitCheck
  <2> QED
    BY <1>6, <2>1, <2>2, <2>2a, <2>3, <2>4, <2>5, <2>6, <2>7, <2>8 DEF Transfer
<1> QED
  BY <1>1, <1>2, <1>3, <1>4, <1>5, <1>6 DEF Next, Step, Terminated

\* EXIT is in the downlink, or in the receiver's hands, only once it was sent.
LEMMA ExitStep ==
  ASSUME DataOK, ExitWasSent, [Next]_vars
  PROVE  ExitWasSent'
<1> USE DEF ExitWasSent
<1>0. downlink \in Seq(Instruction)
  BY DEF DataOK, OutsideOK
<1>1. CASE OrchReply
  <2>1. CASE orch = "closing"
    BY <1>1, <2>1 DEF OrchReply
  <2>2. CASE orch = "up"
    <3>1. PICK r \in Reply :
            downlink' = Append(downlink, [action |-> r.action, rate |-> r.rate,
                                          epoch |-> Head(uplink).epoch])
      BY <1>1, <2>2, EnvironmentAssumption DEF OrchReply, Answer
    <3>2. r.action # "EXIT"
      BY DEF Reply
    <3>3. \A i \in 1..Len(downlink) : downlink[i].action # "EXIT"
      BY <2>2
    <3>4. \A i \in 1..Len(downlink') : downlink'[i].action # "EXIT"
      BY <1>0, <3>1, <3>2, <3>3
    <3> QED
      BY <1>1, <2>2, <3>4 DEF OrchReply
  <2> QED
    BY <1>1, <2>1, <2>2 DEF OrchReply
<1>2. CASE OrchShutdown
  BY <1>2 DEF OrchShutdown, stream
<1>3. ASSUME NEW actions, Instructed(actions)
      PROVE  \A i \in 1..Len(downlink') :
               downlink'[i].action = "EXIT" => orch = "closed"
  <2>1. \A i \in 1..Len(downlink') :
          i + 1 \in 1..Len(downlink) /\ downlink'[i] = downlink[i + 1]
    BY <1>0, <1>3 DEF Instructed
  <2> QED
    BY <2>1
<1>4. CASE HandleHold
  BY <1>3, <1>4 DEF HandleHold
<1>5. CASE HandleGrant
  BY <1>3, <1>5 DEF HandleGrant
<1>6. CASE ReceiveExit
  <2>1. Head(downlink).action = "EXIT" /\ downlink # <<>>
    BY <1>6 DEF ReceiveExit, Instructed
  <2>2. orch = "closed"
    BY <1>0, <2>1
  <2> QED
    BY <1>3, <1>6, <2>2 DEF ReceiveExit
<1>7. CASE AllowOnExit \/ StreamEnds
  BY <1>7 DEF AllowOnExit, StreamEnds, HangUp
<1>8. CASE AllowTransfer \/ HandleExit \/ ReceiverFinally
  BY <1>8 DEF AllowTransfer, HandleExit, ReceiverFinally, stream
<1>9. CASE \/ Generator \/ NotifyEnter \/ NotifyLocked \/ NotifySpawn
           \/ MainExit \/ CtrlC \/ MainDrain \/ UNCHANGED vars
  <2>1. UNCHANGED <<downlink, orch, rcv>>
    BY <1>9 DEF Generator, HbPop, HbRead, HbApply, HbYield, NotifyEnter,
                NotifyLocked, NotifySpawn, MainExit, CtrlC, MainDrain, vars,
                stream
  <2> QED
    BY <2>1
<1>10. ASSUME NEW k \in Ckpt, Transfer(k) \/ XferReport(k) \/ XferRaise(k)
       PROVE  ExitWasSent'
  <2>1. UNCHANGED <<downlink, orch, rcv>>
    BY <1>10 DEF Transfer, XferWake, XferBegin, XferRate, XferChunk,
                 XferReport, XferEof,
                 XferRaise, XferClear, XferExitCheck, stream
  <2> QED
    BY <2>1
<1> QED
  BY <1>1, <1>2, <1>4, <1>5, <1>6, <1>7, <1>8, <1>9, <1>10
  DEF Next, Step, Receiver, Terminated

LEMMA DrainedMeansDone ==
  ASSUME ServiceOK, SizePublished, Drained
  PROVE  \A k \in Ckpt : ~Unfinished(k)
BY BoundsAssumption DEF ServiceOK, SizePublished, Drained, Unfinished

LEMMA DoneStep ==
  ASSUME DataOK, RequestInv, OfferInv, OneAtATime, SizePublished, ExitWasSent,
         DoneWhenComplete, [Next]_vars
  PROVE  DoneWhenComplete'
<1> USE DEF DoneWhenComplete
<1> DEFINE Done == \A k \in Ckpt : ~Unfinished(k)
<1>0. xfer \in [Ckpt -> XferPC]
  BY DEF DataOK, ThreadsOK
<1>1. CASE HandleExit
  BY <1>1 DEF HandleExit, ExitWasSent
<1>2. CASE ReceiverFinally
  <2>1. UNCHANGED <<xfer, main, orch>>
    BY <1>2 DEF ReceiverFinally, transfers
  <2>2. Drained => Done
    BY DrainedMeansDone DEF DataOK
  <2> QED
    BY <1>2, <2>1, <2>2 DEF ReceiverFinally, Unfinished
<1>3. CASE MainDrain
  <2>1. UNCHANGED <<xfer, orch>> /\ main' = "draining"
    BY <1>3 DEF MainDrain, transfers
  <2>2. Drained => Done
    BY DrainedMeansDone DEF DataOK
  <2> QED
    BY <1>3, <2>1, <2>2 DEF MainDrain, Unfinished
<1>4. CASE MainExit
  BY <1>4 DEF MainExit, service, transfers, Unfinished
<1>5. CASE CtrlC
  BY <1>5 DEF CtrlC, transfers, Unfinished
<1>6. CASE OrchReply \/ OrchShutdown
  BY <1>6 DEF OrchReply, OrchShutdown, service, transfers, Unfinished
<1>7. CASE NotifyEnter
  <2>1. offered' = offered + 1 /\ offered' \in Ckpt /\ xfer[offered'] = "none"
    BY <1>7, BoundsAssumption
    DEF NotifyEnter, OfferInv, DataOK, ThreadsOK, Ckpt
  <2> QED
    BY <1>0, <1>7, <2>1 DEF NotifyEnter, Refuse, service, Unfinished
<1>8. CASE NotifyLocked
  <2>1. shutdownComplete => shutdownRequested
    BY DEF RequestInv
  <2> QED
    BY <1>0, <1>8, <2>1 DEF NotifyLocked, Refuse, Unfinished
<1>9. CASE NotifySpawn
  BY <1>0, <1>9 DEF NotifySpawn, OfferInv, service, Unfinished
<1>10. ASSUME NEW k \in Ckpt, Transfer(k) \/ XferReport(k) \/ XferRaise(k)
       PROVE  DoneWhenComplete'
  <2>1. CASE XferExitCheck(k)
    <3>1. \A j \in Ckpt : j # k => ~Live(j)
      BY <2>1 DEF XferExitCheck, XferMove, OneAtATime, Live
    <3>2. \A j \in Ckpt : ~Unfinished(j)'
      BY <1>0, <2>1, <3>1 DEF XferExitCheck, XferMove, Live, Unfinished
    <3> QED
      BY <2>1, <3>2 DEF XferExitCheck
  <2>2. CASE ~XferExitCheck(k)
    <3>1. UNCHANGED <<shutdownComplete, main, orch>>
      BY <1>10, <2>2 DEF Transfer, XferWake, XferBegin, XferRate, XferChunk,
                         XferReport, XferEof, XferRaise, XferClear, service
    <3>2. Unfinished(k)
      BY <1>10, <2>2 DEF Transfer, XferWake, XferBegin, XferRate, XferChunk,
                         XferReport, XferEof, XferRaise, XferClear, XferMove,
                         Unfinished
    <3> QED
      BY <3>1, <3>2
  <2> QED
    BY <2>1, <2>2
<1>11. CASE \/ Generator \/ HandleHold \/ HandleGrant \/ AllowTransfer
            \/ ReceiveExit \/ AllowOnExit \/ StreamEnds \/ UNCHANGED vars
  <2>1. UNCHANGED <<shutdownComplete, xfer, main, orch>>
    BY <1>11 DEF Generator, HbPop, HbRead, HbApply, HbYield, HandleHold,
                 HandleGrant, AllowTransfer, ReceiveExit, AllowOnExit,
                 StreamEnds, vars, service, transfers
  <2> QED
    BY <2>1 DEF Unfinished
<1> QED
  BY <1>1, <1>2, <1>3, <1>4, <1>5, <1>6, <1>7, <1>8, <1>9, <1>10, <1>11
  DEF Next, Step, Receiver, Terminated

DrainInv == OneAtATime /\ SizePublished /\ ExitWasSent /\ DoneWhenComplete

LEMMA Draining ==
  ASSUME Spacing = "reported"
  PROVE  Spec => []DrainInv
<1>1. Init => DrainInv
  BY DEF Init, DrainInv, OneAtATime, SizePublished, ExitWasSent,
         DoneWhenComplete, Live
<1>2. /\ DataOK /\ RequestInv /\ OfferInv /\ DrainInv /\ [Next]_vars
      => DrainInv'
  BY OneStep, SizeStep, ExitStep, DoneStep DEF DrainInv, DataOK
<1> QED
  BY <1>1, <1>2, DataTyping, Requested, Offered, PTL DEF Spec

\* With saves spaced, what the migrater reports covers the data it has to move:
\* the heartbeat's late write of the previous size never hits a new one.
THEOREM SpacedPendingCoversData ==
  ASSUME Spacing = "reported"
  PROVE  Spec => []PendingCoversData
<1>1. DataOK /\ DrainInv => PendingCoversData
  BY BoundsAssumption
  DEF DataOK, ServiceOK, DrainInv, SizePublished, PendingCoversData, Unfinished
<1> QED
  BY <1>1, DataTyping, Draining, PTL

\* With saves spaced, a Ctrl-C exit abandons no accepted checkpoint.
THEOREM SpacedDrainedExit ==
  ASSUME Spacing = "reported"
  PROVE  Spec => []DrainedExit
<1>1. DrainInv => DrainedExit
  BY DEF DrainInv, DoneWhenComplete, DrainedExit
<1> QED
  BY <1>1, Draining, PTL
=============================================================================
