----------------------------- MODULE TokenBucket -----------------------------
(***************************************************************************)
(* token_bucket_copy, src/src/migrater/token_bucket.py: the copy of one    *)
(* checkpoint, paced by a rate that other threads change at any time.      *)
(*                                                                         *)
(* Time is counted in ticks and the rate in bytes per tick.  Time is       *)
(* charged where the code reads the clock for the bucket, at the top of    *)
(* the loop: at least a tick after a sleep, any time (a slow read or       *)
(* write) otherwise.  What throughput() returns is any member of Rates.    *)
(*                                                                         *)
(* The window is a history variable: what was written since some pass of   *)
(* the loop, chosen anywhere, and what the rates read since then allow.    *)
(***************************************************************************)
EXTENDS Integers

CONSTANTS
  FileSize,       \* bytes of the source file
  ChunkSize,      \* chunk_size
  Rates,          \* what throughput() may return
  Interval,       \* progress_update_interval, in ticks
  MaxElapsed,     \* bound: ticks from one pass of the loop to the next
  Horizon         \* bound: ticks a window is followed for

ASSUME SizeAssumption == FileSize \in Nat /\ ChunkSize \in Nat \ {0}

ASSUME TimeAssumption ==
  /\ Rates \subseteq Nat
  /\ Interval \in Nat \ {0}
  /\ MaxElapsed \in Nat \ {0}
  /\ Horizon \in Nat \ {0}

VARIABLES
  pc, slept,      \* where the loop is; whether it has just slept
  rate, tokens, copied,
  sinceReport,    \* ticks since last_progress_time, followed up to Interval
  reported,       \* remaining_bytes of the last progress item
  window

vars == <<pc, slept, rate, tokens, copied, sinceReport, reported, window>>

Larger(a, b) == IF a >= b THEN a ELSE b
Smaller(a, b) == IF a <= b THEN a ELSE b

NoReport == -1
Window == [base : Nat, bytes : Nat, span : 0..Horizon, peak : Nat]
WindowFrom(base, r) == [base |-> base, bytes |-> 0, span |-> 0, peak |-> r]

Init ==
  /\ pc = "loop" /\ slept = FALSE
  /\ rate = 0 /\ tokens = 0 /\ copied = 0
  /\ sinceReport = 0 /\ reported = NoReport
  /\ window = WindowFrom(0, 0)

\* maybe_report_progress, at a time when since ticks have passed and done bytes
\* are copied.  With no time at all since the last item there is no new one.
Due(since, force) == since > 0 /\ (force \/ since >= Interval)

Report(since, force, done) ==
  IF Due(since, force)
    THEN /\ reported' = FileSize - done
         /\ sinceReport' = 0
    ELSE /\ UNCHANGED reported
         /\ sinceReport' = Smaller(since, Interval)

CapacityOfRate(r) == r                \* variant: room for less than one chunk
Capacity(r) == Larger(r, ChunkSize)

\* Tokens that are left when the rate is zero.
KeptOnPause == tokens                 \* variant: the bucket is not emptied
Paused == 0

Refill(r, e) == Smaller(Capacity(r), tokens + e * r)

\* The window goes on, or a new one starts here.
Observe(r, e) ==
  \/ window' = [window EXCEPT !.span = Smaller(@ + e, Horizon),
                              !.peak = Larger(@, r)]
  \/ window' = WindowFrom(IF r = 0 THEN 0 ELSE Capacity(r), r)

Elapsed == IF slept THEN 1..MaxElapsed ELSE 0..MaxElapsed

\* A pass of the loop that reads rate zero.
Pause(e) ==
  /\ pc = "loop"
  /\ 0 \in Rates
  /\ rate' = 0
  /\ tokens' = Paused
  /\ Report(sinceReport + e, TRUE, copied)
  /\ slept' = TRUE
  /\ Observe(0, e)
  /\ UNCHANGED <<pc, copied>>

\* A pass that finds less than a chunk's worth of tokens, and sleeps.
Wait(e, r) ==
  /\ pc = "loop"
  /\ r > 0
  /\ Refill(r, e) < ChunkSize
  /\ rate' = r
  /\ tokens' = Refill(r, e)
  /\ Report(sinceReport + e, FALSE, copied)
  /\ slept' = TRUE
  /\ Observe(r, e)
  /\ UNCHANGED <<pc, copied>>

\* A pass that finds enough.
Pass(e, r) ==
  /\ pc = "loop"
  /\ r > 0
  /\ Refill(r, e) >= ChunkSize
  /\ rate' = r
  /\ tokens' = Refill(r, e)
  /\ sinceReport' = Smaller(sinceReport + e, Interval)
  /\ slept' = FALSE
  /\ Observe(r, e)
  /\ pc' = "read"
  /\ UNCHANGED <<copied, reported>>

\* The chunk is read and written; the last one may be short.
FullLength == ChunkSize               \* variant: the last chunk counts as a whole
Length == Smaller(ChunkSize, FileSize - copied)

Write ==
  /\ pc = "read"
  /\ copied < FileSize
  /\ copied' = copied + Length
  /\ tokens' = tokens - Length
  /\ Report(sinceReport, FALSE, copied + Length)
  /\ window' = [window EXCEPT !.bytes = @ + Length]
  /\ pc' = "loop"
  /\ UNCHANGED <<slept, rate>>

EndOfFile ==
  /\ pc = "read"
  /\ copied = FileSize
  /\ pc' = "sync"
  /\ UNCHANGED <<slept, rate, tokens, copied, sinceReport, reported, window>>

ForcedIfDue == FALSE                  \* variant: the last item is not forced
Forced == TRUE

\* flush(), fsync(), which takes time, and the last report.
Sync(e) ==
  /\ pc = "sync"
  /\ e > 0
  /\ Report(sinceReport + e, Forced, copied)
  /\ pc' = "done"
  /\ UNCHANGED <<slept, rate, tokens, copied, window>>

Step == \/ \E e \in Elapsed : \/ Pause(e)
                              \/ \E r \in Rates : Wait(e, r) \/ Pass(e, r)
        \/ Write \/ EndOfFile
        \/ \E e \in 1..MaxElapsed : Sync(e)

Done == pc = "done" /\ UNCHANGED vars

Next == Step \/ Done

Spec == Init /\ [][Next]_vars

\* The copying thread runs for as long as its process does.
FairSpec == Spec /\ WF_vars(Step)

-----------------------------------------------------------------------------
TypeOK ==
  /\ pc \in {"loop", "read", "sync", "done"}
  /\ slept \in BOOLEAN
  /\ rate \in Nat
  /\ tokens \in Nat /\ tokens <= Capacity(rate)
  /\ copied \in 0..FileSize
  /\ sinceReport \in 0..Interval
  /\ reported \in {NoReport} \cup 0..FileSize
  /\ window \in Window
  /\ pc = "read" => tokens >= ChunkSize

\* "burst-limited token bucket" (token_bucket.py 139): whatever the rates do,
\* in any window no more is written than the bucket it starts with and what the
\* highest rate read in it allows; the bucket is empty at the start ("to avoid
\* initial burst", 141) and after a pause (154).
BurstBounded ==
  window.span < Horizon =>
    window.bytes <= window.base + window.peak * window.span

\* The last item of a finished copy says that nothing remains: the migrater's
\* pending_size comes from it, and a size left above zero would never go down.
LastItemIsZero == pc = "done" => reported = 0

\* A copy whose rate stays above zero ends, at any rate: the bucket has room
\* for a chunk even if the rate is below one chunk per second (139, 159).
CopyEnds == <>[](rate > 0) => <>(pc = "done")
=============================================================================
