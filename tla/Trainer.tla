------------------------------- MODULE Trainer -------------------------------
(***************************************************************************)
(* The training loop, src/src/train/trainer.py and its parameters in       *)
(* src/src/train/train.py, around the save() of the module Checkpoint:     *)
(* how much of the training is on the PFS at any time.  A step is the      *)
(* whole of a batch; the model and the data are left out.  Checkpoint k is *)
(* the state after k intervals.                                            *)
(***************************************************************************)
EXTENDS Checkpoint

CONSTANTS TotalSteps, Interval      \* --total-steps, --checkpoint-interval

\* What train() checks of its arguments.
ValidArguments == Interval > 0 /\ TotalSteps > 0 /\ Interval <= TotalSteps

ASSUME TrainingAssumption ==
  /\ {Interval, TotalSteps} \subseteq Int
  /\ ValidArguments

VARIABLES
  step,
  loop              \* "batch": before a batch; "save": about to save

tvars == <<vars, step, loop>>

TInit == Init /\ step = 0 /\ loop = "batch"

TotalEpochsUp ==                        \* variant: rounded up
  (TotalSteps + Interval - 1) \div Interval
TotalEpochs == TotalSteps \div Interval

GoesOnAtEnd == step <= TotalSteps       \* variant: an off-by-one
GoesOn == step < TotalSteps

SaveIsDueEarly(n) == n % Interval = Interval - 1  \* variant: steps from zero
SaveIsDue(n) == n % Interval = 0

\* One batch, and the test of the interval.
Batch ==
  /\ loop = "batch" /\ phase = "training" /\ GoesOn
  /\ step' = step + 1
  /\ loop' = IF SaveIsDue(step') THEN "save" ELSE "batch"
  /\ UNCHANGED vars

CallSave ==
  /\ loop = "save" /\ Save
  /\ loop' = "batch"
  /\ UNCHANGED step

\* Training finished.
Finish ==
  /\ loop = "batch" /\ phase = "training" /\ ~GoesOn
  /\ loop' = "finished"
  /\ UNCHANGED <<vars, step>>

\* The rest of save(), and the migrater.  RuntimeError ends the training.
Behind == Next /\ ~Save /\ UNCHANGED <<step, loop>>

TNext == Batch \/ CallSave \/ Finish \/ Behind

TSpec == TInit /\ [][TNext]_tvars

-----------------------------------------------------------------------------
TTypeOK == step \in 0..TotalSteps /\ loop \in {"batch", "save", "finished"}

\* The epoch of a checkpoint is at most the total that it is sent with, which the
\* epoch-priority policy takes their ratio to be, and a training that finishes
\* has counted exactly as many (train.py 147, trainer.py 76-106).
EpochsFit ==
  /\ epoch <= TotalEpochs
  /\ loop = "finished" => epoch = TotalEpochs

\* What a crash of the job may cost: with one checkpoint in hand at most, and
\* none of the last refused or failed, a whole file on the PFS is at most two
\* intervals old, from the second checkpoint on (trainer.py 81-100,
\* checkpoint.py 267-277).
WorkIsKept ==
  /\ epoch >= 2
  /\ Cardinality(InHand) <= 1
  /\ \A k \in {epoch - 1, epoch, saves} : status[k] \notin {"refused", "failed"}
  => \E p \in Path : /\ file[p].whole
                     /\ step - file[p].ckpt * Interval <= 2 * Interval
=============================================================================
