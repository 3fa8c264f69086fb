------------------------- MODULE MigraterRefinement -------------------------
(***************************************************************************)
(* The Migrater implements the abstract Handoff, for every value of its    *)
(* constants.                                                              *)
(***************************************************************************)
EXTENDS MigraterProofs

\* The abbreviations a step is written with.
USE DEF GeneratorFrame, ReceiverFrame, HandlerFrame, TransferFrame, MainFrame,
        size, permission, shutdown, HasItems, Allow, CompleteIfDrained,
        CompleteIfRequested, MustRefuse, Publish, Reported, OnRaise

\* Only a transfer that is past its fsync is on the PFS.
DurableInv ==
  \A k \in Ckpt : k \in durable => xfer[k] \in {"clearing", "exitcheck", "ended"}

\* Every step but those of a transfer thread leaves the set of files alone.
LEMMA DurableMoves ==
  ASSUME \/ Generator \/ OrchReply \/ OrchShutdown \/ Receiver \/ StreamEnds
         \/ NotifyEnter \/ NotifyLocked \/ NotifySpawn
         \/ MainExit \/ CtrlC \/ MainDrain \/ UNCHANGED vars
  PROVE  UNCHANGED durable
<1> USE DEF transfers
<1>1. CASE Generator
  BY <1>1 DEF Generator, HbPop, HbRead, HbApply, HbYield
<1>2. CASE OrchReply \/ OrchShutdown
  BY <1>2 DEF OrchReply, OrchShutdown
<1>3. CASE Receiver \/ StreamEnds
  BY <1>3 DEF Receiver, HandleHold, HandleGrant, AllowTransfer, StreamEnds,
              ReceiveExit, HandleExit, AllowOnExit, ReceiverFinally
<1>4. CASE NotifyEnter \/ NotifyLocked \/ NotifySpawn
  BY <1>4 DEF NotifyEnter, NotifyLocked, NotifySpawn
<1>5. CASE MainExit \/ CtrlC \/ MainDrain
  BY <1>5 DEF MainExit, CtrlC, MainDrain
<1>6. CASE UNCHANGED vars
  BY <1>6 DEF vars
<1> QED
  BY <1>1, <1>2, <1>3, <1>4, <1>5, <1>6

\* What the handler's steps do to the program counters.
LEMMA HandlerMoves ==
  ASSUME ThreadsOK, OfferInv, NotifyEnter \/ NotifyLocked \/ NotifySpawn
  PROVE  /\ offered' \in Ckpt
         /\ \A j \in Ckpt : j # offered' => xfer'[j] = xfer[j]
         /\ \/ xfer' = xfer
            \/ xfer[offered'] = "none" /\ xfer'[offered'] = "refused"
            \/ /\ xfer[offered'] = "none" /\ xfer'[offered'] = "spawning"
               /\ ~shutdownRequested
            \/ xfer[offered'] = "spawning" /\ xfer'[offered'] = "waiting"
<1>0. xfer \in [Ckpt -> XferPC]
  BY DEF ThreadsOK
<1>1. CASE NotifyEnter
  <2>1. offered' = offered + 1 /\ offered' \in Ckpt /\ offered' > offered
    BY <1>1, BoundsAssumption DEF NotifyEnter, ThreadsOK, Ckpt
  <2>2. xfer[offered'] = "none"
    BY <2>1 DEF OfferInv
  <2> QED
    BY <1>0, <1>1, <2>1, <2>2 DEF NotifyEnter, Refuse
<1>2. CASE NotifyLocked
  <2>1. offered' = offered /\ offered \in Ckpt
    BY <1>2 DEF NotifyLocked, ThreadsOK
  <2> QED
    BY <1>0, <1>2, <2>1 DEF NotifyLocked, Refuse, OfferInv
<1>3. CASE NotifySpawn
  <2>1. offered' = offered /\ offered \in Ckpt
    BY <1>3 DEF NotifySpawn, ThreadsOK
  <2> QED
    BY <1>0, <1>3, <2>1 DEF NotifySpawn, OfferInv
<1> QED
  BY <1>1, <1>2, <1>3

LEMMA DurableStep ==
  ASSUME ThreadsOK, OfferInv, DurableInv, [Next]_vars
  PROVE  DurableInv'
<1> USE DEF DurableInv
<1>0. xfer \in [Ckpt -> XferPC]
  BY DEF ThreadsOK
<1>1. CASE \/ Generator \/ OrchReply \/ OrchShutdown \/ Receiver \/ StreamEnds
           \/ MainExit \/ CtrlC \/ MainDrain \/ UNCHANGED vars
  BY <1>1, NoMove, DurableMoves
<1>2. CASE NotifyEnter \/ NotifyLocked \/ NotifySpawn
  BY <1>2, HandlerMoves, DurableMoves
<1>3. ASSUME NEW k \in Ckpt, Transfer(k) \/ XferReport(k) \/ XferRaise(k)
      PROVE  DurableInv'
  <2> USE DEF XferMove, transfers
  <2>1. CASE XferWake(k) \/ XferBegin(k) \/ XferRate(k) \/ XferChunk(k)
    BY <1>0, <2>1 DEF XferWake, XferBegin, XferRate, XferChunk
  <2>2. CASE XferReport(k) \/ XferRaise(k)
    BY <1>0, <2>2 DEF XferReport, XferRaise
  <2>3. CASE XferEof(k)
    BY <1>0, <2>3 DEF XferEof
  <2>4. CASE XferClear(k) \/ XferExitCheck(k)
    BY <1>0, <2>4 DEF XferClear, XferExitCheck
  <2> QED
    BY <1>3, <2>1, <2>2, <2>3, <2>4 DEF Transfer
<1> QED
  BY <1>1, <1>2, <1>3 DEF Next, Step, Terminated

LEMMA DurableFiles == Spec => []DurableInv
<1>1. Init => DurableInv
  BY DEF Init, DurableInv
<1>2. ThreadsOK /\ OfferInv /\ DurableInv /\ [Next]_vars => DurableInv'
  BY DurableStep
<1> QED
  BY <1>1, <1>2, DataTyping, Offered, PTL DEF Spec, DataOK

-----------------------------------------------------------------------------
(* The mapping.  A step of the migrater moves one checkpoint one step on,   *)
(* raises the shutdown request, or is not seen.                             *)

seen == [k \in Ckpt |-> Seen(k)]
hvars == <<seen, shutdownRequested>>

\* A step that moves one checkpoint from one state to the next.
LEMMA OneMoves ==
  ASSUME NEW k \in Ckpt, NEW from, NEW to,
         Seen(k) = from, Seen(k)' = to,
         \A j \in Ckpt : j # k => Seen(j)' = Seen(j),
         UNCHANGED shutdownRequested
  PROVE  Promise!HMove(k, from, to)
BY DEF Promise!HMove

LEMMA NothingSeen ==
  ASSUME UNCHANGED <<xfer, durable>>
  PROVE  seen' = seen /\ UNCHANGED seen
BY DEF seen, Seen

\* The steps that neither the handler nor a transfer takes.
LEMMA QuietStep ==
  ASSUME FlagsOK,
         \/ Generator \/ OrchReply \/ OrchShutdown \/ Receiver \/ StreamEnds
         \/ MainExit \/ CtrlC \/ MainDrain \/ UNCHANGED vars
  PROVE  [Promise!HNext]_hvars
<1>1. UNCHANGED seen
  BY NoMove, DurableMoves, NothingSeen
<1>2. shutdownRequested' = shutdownRequested \/ shutdownRequested' = TRUE
  <2>1. CASE Generator
    BY <2>1 DEF Generator, HbPop, HbRead, HbApply, HbYield
  <2>2. CASE OrchReply \/ OrchShutdown
    BY <2>2 DEF OrchReply, OrchShutdown, service
  <2>3. CASE Receiver \/ StreamEnds
    BY <2>3 DEF Receiver, HandleHold, HandleGrant, AllowTransfer, StreamEnds,
                ReceiveExit, HandleExit, AllowOnExit, ReceiverFinally
  <2>4. CASE MainExit \/ CtrlC \/ MainDrain
    BY <2>4 DEF MainExit, CtrlC, MainDrain
  <2>5. CASE UNCHANGED vars
    BY <2>5 DEF vars, service
  <2> QED
    BY <2>1, <2>2, <2>3, <2>4, <2>5
<1>3. CASE shutdownRequested' = shutdownRequested
  BY <1>1, <1>3 DEF hvars
<1>4. CASE shutdownRequested' = TRUE /\ ~shutdownRequested
  BY <1>1, <1>4 DEF Promise!HNext, Promise!HClose, seen
<1> QED
  BY <1>2, <1>3, <1>4 DEF FlagsOK

\* The handler's steps answer an offer, or are not seen.
LEMMA AnswerStep ==
  ASSUME ThreadsOK, OfferInv, DurableInv,
         NotifyEnter \/ NotifyLocked \/ NotifySpawn
  PROVE  [Promise!HNext]_hvars
<1> DEFINE k == offered'
<1>0. UNCHANGED <<durable, shutdownRequested>>
  BY DurableMoves DEF NotifyEnter, NotifyLocked, NotifySpawn
<1>1. k \in Ckpt /\ \A j \in Ckpt : j # k => Seen(j)' = Seen(j)
  BY <1>0, HandlerMoves DEF Seen
<1>2. CASE xfer' = xfer
  BY <1>0, <1>2, NothingSeen DEF hvars
<1>3. CASE xfer[k] = "none" /\ xfer'[k] = "refused"
  <2>1. Promise!HMove(k, "none", "refused")
    BY <1>0, <1>1, <1>3, OneMoves DEF Seen
  <2> QED
    BY <1>1, <2>1 DEF Promise!HNext, Promise!HRefuse
<1>4. CASE xfer[k] = "none" /\ xfer'[k] = "spawning" /\ ~shutdownRequested
  <2>1. Promise!HMove(k, "none", "accepted")
    BY <1>0, <1>1, <1>4, OneMoves DEF Seen
  <2> QED
    BY <1>1, <1>4, <2>1 DEF Promise!HNext, Promise!HAccept
<1>5. CASE xfer[k] = "spawning" /\ xfer'[k] = "waiting"
  <2>1. \A j \in Ckpt : Seen(j)' = Seen(j)
    BY <1>0, <1>1, <1>5 DEF Seen
  <2> QED
    BY <1>0, <2>1 DEF hvars, seen
<1> QED
  BY <1>2, <1>3, <1>4, <1>5, HandlerMoves

\* A transfer's steps start, flush or fail its checkpoint, or are not seen.
LEMMA TransferStep ==
  ASSUME ThreadsOK, DurableInv,
         NEW k \in Ckpt, Transfer(k) \/ XferReport(k) \/ XferRaise(k)
  PROVE  [Promise!HNext]_hvars
<1> USE DEF XferMove, transfers
<1>0. /\ xfer \in [Ckpt -> XferPC]
      /\ \A j \in Ckpt : j # k => xfer'[j] = xfer[j]
  BY TransferMoves DEF ThreadsOK
<1>1. UNCHANGED shutdownRequested
  BY DEF Transfer, XferWake, XferBegin, XferRate, XferChunk, XferReport,
         XferEof, XferRaise, XferClear, XferExitCheck, service
<1>2. CASE UNCHANGED durable /\ Seen(k)' = Seen(k)
  <2>1. \A j \in Ckpt : Seen(j)' = Seen(j)
    BY <1>0, <1>2 DEF Seen
  <2> QED
    BY <1>1, <2>1 DEF hvars, seen
<1>3. CASE XferBegin(k)
  <2>1. Promise!HMove(k, "accepted", "writing")
    BY <1>0, <1>1, <1>3, OneMoves DEF XferBegin, Seen
  <2> QED
    BY <2>1 DEF Promise!HNext, Promise!HStart
<1>4. CASE XferEof(k)
  <2>1. Seen(k) = "writing" /\ Seen(k)' = "flushed"
    BY <1>0, <1>4 DEF XferEof, Seen
  <2>2. \A j \in Ckpt : j # k => Seen(j)' = Seen(j)
    BY <1>0, <1>4 DEF XferEof, Seen
  <2>3. Promise!HMove(k, "writing", "flushed")
    BY <1>1, <2>1, <2>2, OneMoves
  <2> QED
    BY <2>3 DEF Promise!HNext, Promise!HFlush
<1>5. CASE XferRaise(k)
  <2>1. k \notin durable
    BY <1>5 DEF XferRaise, DurableInv
  <2>2. Seen(k) = "writing" /\ Seen(k)' = "failed"
    BY <1>0, <1>5, <2>1 DEF XferRaise, Seen
  <2>3. \A j \in Ckpt : j # k => Seen(j)' = Seen(j)
    BY <1>0, <1>5 DEF XferRaise, Seen
  <2>4. Promise!HMove(k, "writing", "failed")
    BY <1>1, <2>2, <2>3, OneMoves
  <2> QED
    BY <2>4 DEF Promise!HNext, Promise!HFail
<1>6. CASE XferWake(k) \/ XferRate(k) \/ XferChunk(k)
  <2>1. UNCHANGED durable /\ Seen(k)' = Seen(k)
    BY <1>0, <1>6 DEF XferWake, XferRate, XferChunk, Seen
  <2> QED
    BY <1>2, <2>1
<1>7. CASE XferReport(k) \/ XferClear(k) \/ XferExitCheck(k)
  <2>1. UNCHANGED durable /\ Seen(k)' = Seen(k)
    BY <1>0, <1>7 DEF XferReport, XferClear, XferExitCheck, Seen
  <2> QED
    BY <1>2, <2>1
<1> QED
  BY <1>3, <1>4, <1>5, <1>6, <1>7 DEF Transfer

\* The migrater, with all its threads, faults and shutdowns, keeps the promise.
THEOREM MigraterImplementsHandoff == Spec => ImplementsHandoff
<1>1. Init => Promise!HInit
  BY DEF Init, Promise!HInit, Seen
<1>2. /\ FlagsOK /\ ThreadsOK /\ OfferInv /\ DurableInv /\ [Next]_vars
      => [Promise!HNext]_hvars
  <2> SUFFICES ASSUME FlagsOK, ThreadsOK, OfferInv, DurableInv, [Next]_vars
               PROVE  [Promise!HNext]_hvars
    OBVIOUS
  <2> QED
    BY QuietStep, AnswerStep, TransferStep DEF Next, Step, Terminated
<1> QED
  BY <1>1, <1>2, FlagsTyping, DataTyping, Offered, DurableFiles, PTL
  DEF Spec, DataOK, ImplementsHandoff, Promise!HSpec, hvars, seen
=============================================================================
