---------------------------- MODULE MCTokenBucket ----------------------------
(***************************************************************************)
(* TokenBucket and CopyProgress for TLC.                                   *)
(***************************************************************************)
EXTENDS CopyProgress

\* Zero, below a chunk per tick, and above.
SomeRates == {0, 1, 3}
=============================================================================
