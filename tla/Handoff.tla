------------------------------ MODULE Handoff ------------------------------
(***************************************************************************)
(* What a Migrater promises about the checkpoints it is offered, whatever  *)
(* its threads do: each is answered once, a refused one is never written,  *)
(* an accepted one is written at most once, and once a shutdown has been   *)
(* requested no offer is accepted.  The module Migrater implements it; the *)
(* module Checkpoint is built on it.                                       *)
(*                                                                         *)
(* Source: NotifyCheckpointSaved and _do_transfer of                       *)
(* src/src/migrater/server.py, seen from outside.                          *)
(***************************************************************************)
CONSTANT Ckpt

VARIABLES status, closing

HStatus == {"none", "refused", "accepted", "writing", "flushed", "failed"}

HInit == /\ status = [k \in Ckpt |-> "none"]
         /\ closing = FALSE

HMove(k, from, to) ==
  /\ status[k] = from
  /\ status' = [status EXCEPT ![k] = to]
  /\ UNCHANGED closing

HRefuse(k) == HMove(k, "none", "refused")
HAccept(k) == ~closing /\ HMove(k, "none", "accepted")
HStart(k) == HMove(k, "accepted", "writing")    \* the destination is opened
HFlush(k) == HMove(k, "writing", "flushed")     \* fsync has returned
HFail(k) == HMove(k, "writing", "failed")       \* the copy has raised

HClose == /\ ~closing
          /\ closing' = TRUE
          /\ UNCHANGED status

HNext == \/ HClose
         \/ \E k \in Ckpt :
              HRefuse(k) \/ HAccept(k) \/ HStart(k) \/ HFlush(k) \/ HFail(k)

HSpec == HInit /\ [][HNext]_<<status, closing>>
=============================================================================
