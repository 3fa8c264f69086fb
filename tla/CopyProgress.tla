---------------------------- MODULE CopyProgress ----------------------------
(***************************************************************************)
(* What the orchestrator learns of one copy: token_bucket_copy of the      *)
(* module TokenBucket puts its progress items into the ProgressBuffer of   *)
(* src/src/migrater/progress.py, a bounded deque, and the heartbeat        *)
(* generator of src/src/migrater/server.py takes them out and sets the     *)
(* pending size, in steps of its own.  An item is its remaining_bytes.     *)
(***************************************************************************)
EXTENDS TokenBucket, Sequences

CONSTANT MaxLen   \* maxlen of the deque

ASSUME MaxLenAssumption == MaxLen \in Nat \ {0}

VARIABLES
  items,          \* the deque
  popped,         \* progress_items, the generator's
  pendingSize     \* pending_size, which the heartbeats carry

buffer == <<items, popped, pendingSize>>
pvars == <<vars, buffer>>

\* NotifyCheckpointSaved has set the size of the file.
PInit == Init /\ items = <<>> /\ popped = <<>> /\ pendingSize = FileSize

-----------------------------------------------------------------------------
(* The copy and its callback, ProgressBuffer.add.                           *)

AddedAlways(q, item) == Append(q, item)       \* variant: no bound
AddedIfRoom(q, item) ==                       \* variant: the new item is dropped
  IF Len(q) < MaxLen THEN Append(q, item) ELSE q
Added(q, item) == Append(IF Len(q) < MaxLen THEN q ELSE Tail(q), item)

ItemCopied(done) == done                      \* variant: bytes_copied instead
Item(done) == Larger(0, FileSize - done)

Add(since, force, done) ==
  items' = IF Due(since, force) THEN Added(items, Item(done)) ELSE items

PCopy ==
  /\ \/ \E e \in Elapsed :
          \/ Pause(e) /\ Add(sinceReport + e, TRUE, copied)
          \/ \E r \in Rates :
               \/ Wait(e, r) /\ Add(sinceReport + e, FALSE, copied)
               \/ Pass(e, r) /\ UNCHANGED items
     \/ Write /\ Add(sinceReport, FALSE, copied + Length)
     \/ EndOfFile /\ UNCHANGED items
     \/ \E e \in 1..MaxElapsed : Sync(e) /\ Add(sinceReport + e, Forced, copied)
  /\ UNCHANGED <<popped, pendingSize>>

-----------------------------------------------------------------------------
(* The generator.                                                           *)

PPop ==
  /\ popped = <<>> /\ items # <<>>
  /\ popped' = items
  /\ items' = <<>>
  /\ UNCHANGED <<vars, pendingSize>>

Oldest(q) == q[1]                             \* variant: the wrong end
Latest(q) == q[Len(q)]

PApply ==
  /\ popped # <<>>
  /\ pendingSize' = Latest(popped)
  /\ popped' = <<>>
  /\ UNCHANGED <<vars, items>>

PDone == Done /\ items = <<>> /\ popped = <<>> /\ UNCHANGED buffer

PNext == PCopy \/ PPop \/ PApply \/ PDone

PSpec == PInit /\ [][PNext]_pvars

\* Both threads run for as long as their process does.
PFairSpec == PSpec /\ WF_pvars(PCopy) /\ WF_pvars(PPop \/ PApply)

-----------------------------------------------------------------------------
PTypeOK ==
  /\ {items, popped} \subseteq Seq(0..FileSize)
  /\ {Len(items), Len(popped)} \subseteq 0..MaxLen
  /\ pendingSize \in 0..FileSize

\* "If the buffer is full, the oldest event will be dropped" (progress.py 31),
\* and no other is: however full the buffer gets and whenever it is emptied, the
\* last item of the copy is on its way to pending_size, or is there.
LastItemIsKept ==
  reported # NoReport =>
    reported = IF items # <<>> THEN Latest(items)
               ELSE IF popped # <<>> THEN Latest(popped) ELSE pendingSize

\* The size in the heartbeats is late, but only ever too large: the orchestrator
\* never takes a worker for idle that has bytes left, and the size never rises
\* in the course of a copy (token_bucket.py 111-121, server.py 47-63).
SizeIsUpperBound == pendingSize >= FileSize - copied
SizeOnlyFalls == [][pendingSize' <= pendingSize]_pvars

\* The size of a finished copy reaches zero, which gives its share back.
SizeReachesZero == pc = "done" ~> pendingSize = 0
=============================================================================
