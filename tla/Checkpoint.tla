----------------------------- MODULE Checkpoint -----------------------------
(***************************************************************************)
(* The trainer's side, src/src/torch_ext/checkpoint.py, with the migrater  *)
(* behind it as the module Handoff promises it and the two files on the    *)
(* parallel file system that both of them write.                           *)
(*                                                                         *)
(* The k-th save() offers checkpoint k.  A file is the newest checkpoint   *)
(* written to its path and whether all of it is there; torch.save to the   *)
(* local disk and the fallback's temporary file are seen by no one else.   *)
(* A transfer keeps writing the file it has opened: once os.replace() has  *)
(* put another in its place, what it writes is no longer at the path.      *)
(***************************************************************************)
EXTENDS Handoff, Integers, FiniteSets

CONSTANTS
  MaxSaves,         \* bound: how many checkpoints the trainer saves
  Faults,           \* what may go wrong
  Lag               \* bound: how many saves a flush may take

FaultKinds == {"refuse",        \* the migrater answers ok=False
               "down",          \* the call fails, and k is never accepted
               "lostreply",     \* the call fails, but not at the migrater
               "copyfail",      \* the transfer raises, or its process dies
               "fallbackfail"}  \* the fallback copy raises

ASSUME SavesAssumption ==
  /\ MaxSaves \in Nat /\ Ckpt = 1..MaxSaves
  /\ Faults \subseteq FaultKinds
  /\ Lag \in Nat

VARIABLES
  phase, saves,     \* save(): where it is, how often it was called
  useAlt, epoch,    \* use_alt_pfs_path, self.epoch
  target,           \* the path in the request of each checkpoint
  requests,         \* calls the migrater has and has not yet answered
  opens,            \* how often each transfer has opened its destination
  file,             \* what is at each path
  writers,          \* the transfers that may have written to that very file,
                    \* since there was only one
  fallen            \* checkpoints the fallback has saved

trainer == <<phase, saves, useAlt, epoch, target>>
pfs == <<opens, file, writers>>
handoff == <<status, closing>>
vars == <<trainer, requests, pfs, fallen, handoff>>

Path == {"primary", "alt"}
Partial(k) == [ckpt |-> k, whole |-> FALSE]
Whole(k) == [ckpt |-> k, whole |-> TRUE]

Init ==
  /\ HInit
  /\ phase = "training" /\ saves = 0
  /\ useAlt = FALSE /\ epoch = 0
  /\ target = [k \in Ckpt |-> "primary"]
  /\ requests = {} /\ fallen = {}
  /\ opens = [k \in Ckpt |-> 0]
  /\ file = [p \in Path |-> Partial(0)]
  /\ writers = [p \in Path |-> {}]

-----------------------------------------------------------------------------
(* save(), _save_handler() and _fallback_save().                            *)

\* Checkpoints the migrater has been offered, and not yet flushed or given up.
InHand == requests \cup {k \in Ckpt : status[k] \in {"accepted", "writing"}}

TargetPrimary == "primary"              \* variant: the paths do not alternate
Target == IF useAlt THEN "alt" ELSE "primary"

Save ==
  /\ phase = "training" /\ saves < MaxSaves
  /\ \A k \in InHand : k + Lag > saves
  /\ saves' = saves + 1
  /\ target' = [target EXCEPT ![saves'] = Target]
  /\ requests' = requests \cup {saves'}
  /\ phase' = "calling"
  /\ UNCHANGED <<useAlt, epoch, pfs, fallen, handoff>>

NextEpochTwice == epoch + 2             \* variant: advanced by both functions
NextEpoch == epoch + 1

Handled == /\ epoch' = NextEpoch
           /\ useAlt' = ~useAlt
           /\ phase' = "training"
           /\ UNCHANGED <<saves, target>>

\* The reply has come.  MigraterClient drops it: ok=False counts as a success.
CallReturns ==
  /\ phase = "calling" /\ saves \notin requests
  /\ Handled
  /\ UNCHANGED <<requests, pfs, fallen, handoff>>

\* The call raises.
CallFails ==
  /\ phase = "calling"
  /\ \/ /\ "down" \in Faults /\ saves \in requests
        /\ requests' = requests \ {saves}
     \/ "lostreply" \in Faults /\ UNCHANGED requests
  /\ phase' = "fallback"
  /\ UNCHANGED <<saves, useAlt, epoch, target, pfs, fallen, handoff>>

\* The copy to a temporary file is complete, and os.replace().
FallbackSaves ==
  /\ phase = "fallback"
  /\ file' = [file EXCEPT ![target[saves]] = Whole(saves)]
  /\ writers' = [writers EXCEPT ![target[saves]] = {}]
  /\ fallen' = fallen \cup {saves}
  /\ Handled
  /\ UNCHANGED <<requests, opens, handoff>>

AfterFailedCopyInPlace ==               \* variant: no temporary file
  [file EXCEPT ![target[saves]] = Partial(saves)]
AfterFailedCopy == file

\* save() raises RuntimeError, which ends the training.
FallbackFails ==
  /\ "fallbackfail" \in Faults
  /\ phase = "fallback"
  /\ file' = AfterFailedCopy
  /\ phase' = "raised"
  /\ UNCHANGED <<saves, useAlt, epoch, target, requests, opens, writers,
                 fallen, handoff>>

-----------------------------------------------------------------------------
(* The migrater: the steps of Handoff, and what they do to the files.       *)

Accept(k) == /\ k \in requests /\ HAccept(k)
             /\ requests' = requests \ {k}
             /\ UNCHANGED <<trainer, pfs, fallen>>

Refuse(k) == /\ "refuse" \in Faults
             /\ k \in requests /\ HRefuse(k)
             /\ requests' = requests \ {k}
             /\ UNCHANGED <<trainer, pfs, fallen>>

DestinationNow(k) == Target             \* variant: the path of the next save
Destination(k) == target[k]

Start(k) == HStart(k) /\ UNCHANGED <<trainer, requests, pfs, fallen>>

\* The destination is opened for writing, which truncates it: once to see that
\* it can be, and again for the copy.
Truncate(k) ==
  /\ status[k] = "writing" /\ opens[k] < 2
  /\ opens' = [opens EXCEPT ![k] = @ + 1]
  /\ file' = [file EXCEPT ![Destination(k)] = Partial(k)]
  /\ writers' = [writers EXCEPT ![Destination(k)] =
                   {j \in @ : status[j] = "writing"} \cup {k}]
  /\ UNCHANGED <<trainer, requests, fallen, handoff>>

\* All of k is written.  What other transfers have written to the same file
\* meanwhile may have replaced parts of it.
Written(p, k) == IF writers[p] = {k} THEN {Whole(k)} ELSE {Whole(k), Partial(k)}

Flush(k) == /\ opens[k] = 2
            /\ HFlush(k)
            /\ LET p == Destination(k)
               IN  IF k \in writers[p]
                     THEN \E f \in Written(p, k) :
                            file' = [file EXCEPT ![p] = f]
                     ELSE UNCHANGED file
            /\ UNCHANGED <<trainer, requests, opens, writers, fallen>>

Fail(k) == /\ "copyfail" \in Faults
           /\ HFail(k)
           /\ UNCHANGED <<trainer, requests, pfs, fallen>>

Close == HClose /\ UNCHANGED <<trainer, requests, pfs, fallen>>

Next == \/ Save \/ CallReturns \/ CallFails \/ FallbackSaves \/ FallbackFails
        \/ \E k \in Ckpt :
             \/ Accept(k) \/ Refuse(k)
             \/ Start(k) \/ Truncate(k) \/ Flush(k) \/ Fail(k)
        \/ Close

Spec == Init /\ [][Next]_vars

-----------------------------------------------------------------------------
TypeOK ==
  /\ status \in [Ckpt -> HStatus] /\ closing \in BOOLEAN
  /\ phase \in {"training", "calling", "fallback", "raised"}
  /\ saves \in 0..MaxSaves /\ epoch \in 0..MaxSaves
  /\ useAlt \in BOOLEAN
  /\ target \in [Ckpt -> Path]
  /\ requests \subseteq Ckpt /\ fallen \subseteq Ckpt
  /\ opens \in [Ckpt -> 0..2]
  /\ file \in [Path -> [ckpt : 0..MaxSaves, whole : BOOLEAN]]
  /\ writers \in [Path -> SUBSET Ckpt]

IsWhole(k) == file[target[k]] = Whole(k)
Opened(k) == k \in fallen \/ status[k] \in {"writing", "flushed", "failed"}

\* Alternating the paths protects the checkpoint before: with one checkpoint in
\* hand at most, one of the last two that the trainer counts, or the one it is
\* about to count, is whole on the PFS whenever the job dies, unless the migrater
\* has refused or failed one of them (checkpoint.py 62-67, 267-277).
PreviousKept ==
  LET last == {epoch - 1, epoch, saves}
  IN  /\ epoch >= 2
      /\ Cardinality(InHand) <= 1
      /\ \A k \in last : status[k] \notin {"refused", "failed"}
      => \E k \in last : IsWhole(k)

\* The fallback never exposes "a partially copied checkpoint at the final PFS
\* path" (checkpoint.py 142-145): where a part is, a transfer is writing it or
\* has failed.
PartialHasWriter ==
  \A p \in Path :
    LET k == file[p].ckpt
    IN  file[p].whole \/ k = 0 \/ status[k] \in {"writing", "failed"}

\* When the reply is lost both the transfer and the fallback save k.  In
\* whatever order they open, replace and finish, once the transfer has left it
\* k is whole at its path, until a later checkpoint is written there
\* (checkpoint.py 216-235).
SavedIsThere ==
  \A k \in Ckpt :
    /\ k \in fallen \/ status[k] = "flushed"
    /\ status[k] \notin {"writing", "failed"}
    /\ \A j \in Ckpt : j > k /\ Opened(j) => target[j] # target[k]
    => IsWhole(k)

\* "Whether the checkpoint was successfully handed off to the Migrater or saved
\* to PFS via fallback" (checkpoint.py 206-207): a save that the trainer counts
\* is one that the migrater has accepted or the fallback has saved.
CountedIsHandled ==
  \A k \in 1..epoch : k \in fallen \/ status[k] \notin {"none", "refused"}
=============================================================================
