# A checked model of the checkpoint migration system

This directory holds TLA+ modules for the program in `src/src`: a node-local
**migrater** that copies PyTorch checkpoints to a parallel file system (PFS), a
central **orchestrator** that tells every migrater when and how fast to copy,
and the **client** that the training job calls to save a checkpoint. Line
numbers below are lines of the files under `src/src`.

## 1. Inventory

| Part | State it keeps | Operations | Talks to |
|---|---|---|---|
| Checkpoint client `torch_ext/checkpoint.py` | `use_alt_pfs_path`, `epoch`, two PFS paths | `save`, `_save_handler`, `_fallback_save` | migrater (one blocking RPC, no deadline), PFS |
| Migrater `migrater/server.py` | `pending_size`, `transfer_active`, `current_rate`, `epoch`, `transfer_allowed`, progress buffer, two shutdown events | heartbeat generator, receiver, `NotifyCheckpointSaved`, `_do_transfer`, `serve` | client (RPC), orchestrator (one bidirectional stream), PFS |
| Token bucket copy `migrater/token_bucket.py` | tokens, rate, bytes copied, time of the last progress item | one loop | migrater (rate callback, progress callback), PFS |
| Progress buffer `migrater/progress.py` | 128 newest items | `add`, `pop` | copy, generator |
| Orchestrator `orchestrator/server.py` | policy, shutdown event, thread pool of ten | `Monitor`, `serve` | migraters |
| Registry `orchestrator/scheduler.py` 37-87 | worker id to size, age, progress | `update`, `remove`, `snapshot` | Monitor handlers |
| Policies `orchestrator/scheduler.py` 107-366 | parameters only | `decide` | Monitor handlers |
| Trainer `train/trainer.py`, `train/train.py` | step, checkpoint interval, total epochs | `train`: batch, `save` | client |
| Benchmarks, scripts, plots, parsers | none the rest depends on | | client |

A save goes: the trainer writes the checkpoint to the local disk and calls
`NotifyCheckpointSaved`; the handler publishes `pending_size` and starts a
transfer thread that waits for `transfer_allowed`; the next heartbeat carries
the size; the policy answers START_FLUSH with a rate; the receiver sets the
rate and the event; the transfer copies, its progress items lower
`pending_size` through the heartbeats. Shutdown comes as EXIT on the stream or
as Ctrl-C.

What is hard: five kinds of threads of the migrater share seven fields under a
lock that each holds only for a moment, and events outside that lock; the
orchestrator decides from a registry that is stale by the time its answer
arrives; a call's reply may be lost after its effect; a copy truncates the file
it replaces when it starts. `PROJECT.json` lists each hazard at its line, with
the properties aimed at it and, where there is none, why.

What makes each part correct: the migrater answers each offer once, writes what
it accepted and only that, tells the orchestrator of all it still has to move,
and ends when told to, not before its work is done. The copy respects the rate,
ends, and says so. The registry holds the connected workers, the shares of a
snapshot add up to the bandwidth, nobody is starved by weight, and what the
copies really write settles at the bandwidth. Every accepted checkpoint is
granted, shares come back, and a shutdown ends everything. The client always
leaves a whole checkpoint on the PFS, and a crash costs two intervals at most.

## 2. Modules

| Module | Models | Remarks |
|---|---|---|
| `Handoff` | what a migrater promises about the checkpoints it is offered | abstract: `status` of each checkpoint, `closing` |
| `Migrater` | `migrater/server.py` | one action for each locked region, event call or buffer call |
| `MCMigrater` | | the replies a policy may give; a view for TLC |
| `MigraterProofs`, `MigraterRefinement` | | theorems |
| `TokenBucket` | `token_bucket_copy` | one action for each outcome of a pass of the loop |
| `CopyProgress` | `ProgressBuffer` with the copy that fills it and the generator that empties it | extends `TokenBucket` |
| `TokenBucketProofs` | | theorems of both |
| `MCTokenBucket` | | rates for TLC |
| `Policies` | the seven `decide` methods | operators on a snapshot, integer arithmetic |
| `SumProofs`, `PolicyProofs` | | the laws of sums and products over a finite set; theorems on one snapshot |
| `Orchestrator` | `Monitor`, `serve`, `ClusterState` | extends `Policies`; any number of streams and threads |
| `OrchestratorProofs` | | theorems |
| `MCOrchestrator` | | workers, restarts, heartbeats and parameters for TLC |
| `Cluster` | the orchestrator with the migraters on its streams | extends `Orchestrator` |
| `ClusterGrants` | the same, with a history of which messages and rates are late | extends `Cluster` and restricts none of its steps |
| `MCCluster`, `MCClusterGrants` | | processes on two hosts for TLC |
| `ClusterProofs` | | theorems of both; extends `OrchestratorProofs` |
| `Checkpoint` | `checkpoint.py` | extends `Handoff`: the migrater is seen as it promises |
| `Trainer` | the loop of `trainer.py`, the arguments of `train.py` | extends `Checkpoint` |
| `CheckpointProofs` | | theorems of `Checkpoint` and `Trainer` |

`Migrater` implements `Handoff` (`ImplementsHandoff`), and `Checkpoint` is
built on `Handoff`, so the client is checked against the migrater's promise and
not against its threads. `Migrater` sees the orchestrator as something that
answers each heartbeat with any reply of a set; which replies a policy can give
is what `Policies` says (a policy that respects activity holds size 0:
`HoldIdle`; no-limit, fixed-rate and uniform grant always: `GrantAll`).
`Cluster` closes the loop the other way round: it keeps the orchestrator's
registry, pool and policies and reduces a migrater to what the orchestrator can
tell of it. `CopyProgress` justifies that `Migrater` keeps the newest item only.

### Correspondence

*Migrater.* Fields keep their names in camel case (`pendingSize`,
`transferActive`, `currentRate`, `transferAllowed`). Each thread has a program
counter: `gen` (45-104), `rcv` (106-153), `ntf` (155-189), `xfer[k]`
(195-218), `main` (247-266). The two locked regions of the generator, `HbRead`
and `HbApply`, are separate steps, as are the two tests of the shutdown in the
handler (`NotifyEnter`, `NotifyLocked`), `start()` and the reply
(`NotifySpawn`), the wake-up and the raising of the flag (`XferWake`,
`XferBegin`), and the three steps of EXIT (`ReceiveExit`, `HandleExit`,
`AllowOnExit`). Inside a copy the reading of the rate (`XferRate`) is apart
from the write that goes by it. Bytes are counted in chunks; a rate is zero or
not; the progress buffer is its newest item, because the generator acts on no
other. `basis` is a history variable: the epoch of the heartbeat that the last
grant answers. An exception from `getsize` counts as a refusal: nothing is
accepted.

*TokenBucket.* Time is in ticks, charged where the loop reads the clock; a pass
is `Pause`, `Wait` or `Pass`, then `Write` or `EndOfFile`, then `Sync`. The rate
is any member of `Rates` at every reading. `window` is a history variable: what
was written since a pass chosen anywhere.

*CopyProgress.* Each step of the copy is the one of `TokenBucket` together with
the progress item it may add (`Due` says when, `Added` is the bounded deque).
`PPop` (server.py 47) and `PApply` (58-63) are the generator's two steps; it acts
on the last item it pops.

*Policies and Orchestrator.* Parameters in `[0, 1]` are tenths, EPS is
`1 / EpsInv`, a share is the floor that `int()` takes at the migrater. Weights
are scaled by a factor common to the workers of a snapshot. A handler's steps
are `Receive`, `Update`, `SendExit` or `NoExit`, `Snapshot`, `Answer`,
`Finally`; handlers wait for a thread in `queued`. A second stream of the same
worker is a restarted migrater on the same host. `threads` is the size of the
pool, fixed at the start.

*Cluster.* `node[s]` is the migrater process of a stream: whether it runs and is
connected, the stage of its transfer (`waiting`, `copying`), the chunks it has
left, its newest unsent item and its flags. Each stream is two queues: `up[s]`,
the sizes in the heartbeats that the handler has not taken, and `down[s]`, the
instructions that the receiver has not obeyed. `Beat` sends a heartbeat whatever
has been answered, as `stream()` yields one per interval (44-104); `Reply` is the
handler's `Receive` to `Answer` in one step; `Ignore`, `Obey` and `Leave` are the receiver on HOLD, START_FLUSH and
EXIT. So an instruction may be obeyed long after the heartbeat it answers, the
copy that heartbeat was about, and the checkpoint accepted since; what does not
interleave here is the handler's steps within one answer, which do in
`Orchestrator`. A job saves (`Offer`) only once the last progress item was sent
and while the stream is up, the restriction under which `migrater_spaced` shows
that a migrater behaves as one. `Begin`, `Copy`, `Finish` and `Raise` are the
transfer; `Exit`, `Crash` and `Break` end the process or the stream; `Notice` is
the handler's side of that. `Faults` says which failures, and whether the
shutdown, may happen.

*ClusterGrants.* Two history variables: `late[s]` is how many messages of the
stream are older than the transfer that waits or copies, `own[s]` whether that
transfer's rate comes from a START_FLUSH that is not.

*Checkpoint.* `Save`, `CallReturns`, `CallFails`, `FallbackSaves`,
`FallbackFails` are the client; `Accept`, `Refuse`, `Start`, `Flush`, `Fail`,
`Close` are Handoff's steps with what they do to the files. `Truncate` is the
opening of the destination, which happens twice (token_bucket.py 76 and 144).
`os.replace()` puts a new file at the path, so a transfer that had opened the
old one no longer changes what is at the path (`writers`). `InHand` are the
checkpoints offered and not yet flushed or given up; `Lag` bounds how many saves
one of them may take, which is the ratio of the flush to the checkpoint interval.

*Trainer.* `Batch` is one iteration (trainer.py 76-81) with the test of the
interval, `CallSave` the call of `save()` (then Checkpoint's steps follow),
`Finish` the end of the loop. Checkpoint `k` is the state after `k` intervals.

## 3. Runs

Sizes are of the state graph; times are of two TLC workers.

| Run | Question | Bounds | Result |
|---|---|---|---|
| `migrater_faults` | do flags, refusals and shutdown stay consistent under every fault? | 2 checkpoints of one chunk, one message in flight each way, a policy that grants every heartbeat, at times at rate zero, all five events | holds, 2.8 million states, 80 s |
| `migrater_spaced` | is all that is accepted reported, flushed and drained, and do EXIT and Ctrl-C end the process? | the same, saves after the last progress item was sent, EXIT, Ctrl-C and the loss of the stream | holds, 102 thousand, 60 s |
| `migrater_starved` | the same liveness when a save follows a flush closely | no faults | violated: finding 1 |
| `migrater_fresh` | does a transfer start on an instruction of its own? | no faults | violated: finding 2 |
| `migrater_exit_pending` | does EXIT let a waiting transfer start? | 1 checkpoint | violated: finding 3 |
| `migrater_exit_hang` | does EXIT end the process when transfers overlap? | 2 checkpoints | violated: finding 4 |
| `token_bucket` | burst, termination, and what becomes of the progress items | 7 bytes, chunks of 2, rates 0, 1, 3, windows of up to 4 ticks, items every 3, a buffer of 2 | holds, 259 thousand, 55 s |
| `orchestrator` | registry with a restart, shares and overshoot, starvation by weight, ages | 3 streams of 2 workers (one restarts), 2 threads, 3 kinds of heartbeat, 2 clock readings, the five policies that divide the bandwidth, `alpha = 0`, `floor = 0` | holds, 2.5 million, 2 min |
| `cluster` | do rates settle, offers get granted, shares return and a shutdown end everything? | 2 migraters, pools of 1 and 2 threads, checkpoints of one chunk, one message per stream on its way, active fair share, copies of one of the two that raise, its crashes and broken streams, a stop | holds, 97 thousand, 2 min |
| `cluster_grants` | what may the copies write together at rates of their own? | 2 migraters, two messages per stream on their way, 2 threads, copies that raise, crashes, broken streams, symmetric | holds, 421 thousand, 50 s |
| `checkpoint` | what is on the PFS after any faults, and how much work does a crash cost? | 9 steps, a checkpoint every 2, every fault, `Lag` 1 | holds, 794 thousand, 45 s |
| `checkpoint_refused` | is a counted save on someone's list? | 2 saves | violated: finding 5 |

*Why the bounds are enough.* Two checkpoints are the fewest that overlap, and
the migrater's fields do not count beyond one; its safety theorems below hold
for any number. One chunk separates "something to move" from "nothing". One
message in flight each way is enough for the stale grant in `Migrater`. In
`Cluster` what is late matters when it is older than what it meets. Two messages of
a stream are the fewest with which an answer, or a heartbeat and its answer, is
still on its way when the next heartbeat has been sent and the next checkpoint
accepted; `cluster_grants` has them. The liveness of `cluster` is checked with one,
for the size of its state graph: where things settle does not depend on how many
messages came before, and with two messages per stream, two threads and copies
that raise, `RatesSettle`, `OfferIsGranted` and `SharesReturn` hold as well (178
thousand states; `Flight = 2`, `PoolSizes = {2}`, `Faulty = {w1, w2}` and
`Faults = {"copyfail"}` in `Cluster.cfg`). Seven bytes
in chunks of two give a short last chunk, and rate 1 is below a chunk per tick.
Two workers
share, one of them restarts, and two threads make the third stream wait; that the
overshoot of more workers stays in bounds is proved. A buffer of
two is full, with items it must drop, while the generator is between its two
steps. Two migraters are the fewest that share, and one thread makes one of them
wait. Four saves visit each of the two paths twice. `alpha = 0` and `floor = 0`
make EPS the only weight some workers have. The view of `migrater_faults` leaves out the
epochs in messages and the two history variables `durable` and `basis`, which
no guard reads. Nine steps with an interval of two end half an interval after
the last save.

*What the bounds exclude, and what happens there.* With `Lag` 2 a checkpoint may
be accepted while the one before the last, which has the same path, is still
being written, and `SavedIsThere` fails: both transfers truncate and write one
file, and a saved checkpoint may be left in parts. A flush must therefore end
before the next but one save of its job; nothing in the code enforces it. A copy that
a late START_FLUSH has started (finding 2) may be idle to the registry, which
then gives its rate to others too: of two hosts with bandwidth 6, one answered
START 6 late and copying its next checkpoint at that, the other alone in the
registry and at 6 as well, together write 12, above the 9 of `Harmonic(2)`. So
`AllottedBounded` is about the copies that have had an answer of their own
(`Entitled`), and the sum over all copies is left to `RatesSettle`. When a host's
migrater restarts, the old stream's `finally` block may remove the new
registration (server.py 145) and its share is given to others until its next
heartbeat. So `cluster_grants` has one process for each host; the bound fails
otherwise. `ConnectedIsRegistered` states the exception, and `RegistrationComesBack`
its end. A copy whose stream has broken is not counted in `Allotted`: it
keeps the last rate it was told, and the orchestrator cannot know of it. The
service stops in `cluster` only (the theorem `AllottedIsBounded` includes it); and
there one of the two migraters fails, which are alike otherwise.

*Fairness.* In `Migrater`, weak fairness of each thread's steps: Python threads
that can run do; of the orchestrator's answer; none of the trainer, of faults,
of shutdowns or of the progress report of a paused copy. In `CopyProgress`, of
the copy's loop, whose sleeps are bounded (10 ms, `PAUSE_SLEEP`), and of the
generator, which ticks twice a second; `TokenBucket` alone has that of its loop.
In `Cluster`, of each stream's heartbeats, deliveries both ways, handler and process
exit (a live migrater sends two heartbeats per second, TCP delivers or fails,
and a handler whose client has left is cancelled), and of a granted transfer's
wake-up; none of the jobs' saves, of chunks and the ends of copies, and of any
fault or shutdown. `Orchestrator`, `Checkpoint` and `Trainer` have safety only:
what can be expected of the first needs the migraters' part, and the client's
call has no deadline.

*Each property has a mutant* (`PROJECT.json`): a variant of one definition, kept
beside it and marked `variant`, which a plausible mistake in that code would
give and which makes TLC refute the property.

## 4. Findings

1. **A checkpoint accepted before the last item of the previous flush is
   reported is never flushed.** `stream()` pops the buffer at the next heartbeat
   (47) and applies its last item at 62. If `NotifyCheckpointSaved` has set
   `pending_size` (178) meanwhile, line 62 puts the old transfer's 0 over it. The
   policies that hold idle workers never grant. The benchmark worker saves like
   that when `--compute-time` is 0: it waits for the full size of the file only
   (orchestrated_worker.py 307).
2. **A transfer may start on an old instruction** (177): a grant on its way is
   not undone by clearing the event.
3. **EXIT does not wait for a pending transfer** (143-151): the shutdown is
   complete before the transfer that line 146 wants to let start.
4. **EXIT may never end the process**: two transfers overlap, the first zeroes
   the second's rate (214) and its last item zeroes `pending_size`, and 148
   does not restore the rate.
5. **A refused checkpoint counts as handed off**: the client drops `ok=False`
   (protocol/migrater/client.py 22).
6. **A floor of zero does not give a job at epoch 0 rate 0.** This one needs no
   counterexample: a property that holds shows it. For `epoch-priority` with a
   floor of zero docs/implemented_policies.md 243 says "Job em `epoch=0` recebe
   `rate=0` (starvation no início)", and tests/epoch_priority.py 154 checks
   "a rate == 0" beside a job at its last epoch, to within 1e-6. The weight is never
   less than EPS (scheduler.py 333): with the test's bandwidth of 1e8 that is
   START_FLUSH at 99.9999 bytes per second, and the check fails. `ActiveIsGranted`
   is checked with `Floor = 0` in `orchestrator` and holds there, against those two
   sources: if the bandwidth suffices nobody starves by weight.

## 5. Proofs

For every value of the constants under the named assumptions of the modules
(`BoundsAssumption`, `EnvironmentAssumption`, `SizeAssumption`,
`TimeAssumption`, `MaxLenAssumption`, `StreamAssumption`,
`SavesAssumption`, `TrainingAssumption`, `PolicyAssumption`,
`ClusterAssumption`), and where the table says so one more:

| Theorem | Inductive invariant and argument |
|---|---|
| `MigraterProofs!Typing` | `FlagsOK` and `DataOK`, proved apart so that flags meet Zenon and numbers meet SMT |
| `CompletionIsRequested` | `RequestInv`: the receiver's EXIT steps and the main thread's drain follow a request |
| `NothingAcceptedAfterRequest` | an action property, from typing and `OfferInv`: a handler in hand owns the newest offer, which no thread has yet |
| `FlagBelongsToCopier` | strengthened with what each transfer's counter says of the flag; one step per action that moves `xfer` or the flag |
| `SpacedPendingCoversData` | assumes `Spacing = "reported"`. `DrainInv`: at most one unfinished transfer (`OneAtATime`), what the size, the popped and the newest item can be at each of its stages (`SizePublished`) |
| `SpacedDrainedExit` | the same assumption; `DrainInv` with `ExitWasSent` and `DoneWhenComplete` |
| `MigraterRefinement!MigraterImplementsHandoff` | `DurableInv` (what is durable has left the copy) and typing; each action maps to one step of Handoff or to a stutter |
| `TokenBucketProofs!Typing` | tokens never exceed the capacity of the rate last read, and `Write` follows a pass that found a chunk's worth |
| `CopyIsBurstBounded` | `BucketInv`: what the window has written and what is left in the bucket together stay within its bound |
| `LastItemSaysZero` | `LastInv`: the copy reaches `Sync` with everything copied, and time passes before the forced item |
| `BufferTyping` | from the typing of the copy, because `PSpec` implements `TokenBucket`'s `Spec` (`CopySteps`); `AddedItem` says what the bounded deque keeps |
| `LastIsKept` | inductive as it stands: a full deque drops at the other end |
| `SizeBoundsCopy`, `SizeFalls` | `ChainInv`: published size, popped items, buffered items and what is left to copy fall in this order |
| `OrchestratorProofs!RegistryTyping` | `StreamsOK` first: what a heartbeat in hand may say and when it was read, which is what `update` stores |
| `RegistryHasNoGhosts` | inductive with `IdentifiedInv`: a handler past its first heartbeat is identified until its finally block |
| `ConnectedAreRegistered` | with `DoneIsForGood`: a stream that has ended stays so, which is the exception the property makes |
| `RegistrationsComeBack` | an action property, from `StreamsOK`: only `update` adds to the registry and only a `finally` block takes from it, by the worker id of its own stream |
| `AgesAreKept` | an action property, from the typing of the registry |
| `OrchestratorTyping` | `RegistryOK` and `FiniteInv` give every snapshot the shape (`Snap`) for which each policy decides an instruction (`DecidesAnInstruction`) |
| `PolicyProofs!SnapshotFits` | for the five policies that divide the bandwidth (`Dividing`): each share times the total is at most the bandwidth times the weight (`ShareByWeight`), and the sum over the workers cancels the total |
| `PolicyProofs!ActiveIsGiven` | assumes `Suffices`: the bandwidth is at least the number of workers times the ratio that EPS and the priorities allow between two weights; then the smallest weight is given one byte per second at least |
| `OrchestratorProofs!SharesAlwaysFit` | assumes `Chosen \subseteq Dividing`, as in `orchestrator`; `SnapshotFits` for every registry that is read |
| `ActiveAreGranted` | an action property; assumes finitely many workers and `Suffices` for that many; `ActiveIsGiven` |
| `OvershootIsBounded` | assumes finitely many streams and one for each host (`OneStreamEach`). `UpToDate` and `SpreadInv`, below |
| `ClusterProofs!ClusterTyping` | `ServiceOK` and `NodesOK`: the service keeps its types because what a migrater reports (`Applied`) is a size, and queues keep what they hold (`QueueTaken`) |
| `AllottedIsBounded` | the assumptions of `OvershootIsBounded`. `HistoryOK`, `Reported`, `DataInv`, `Known` and `RatesSpread`, below |
| `CheckpointProofs!Typing` | `FlowOK`, `FlagsOK`, `HandoffOK`, `FilesOK` in turn |
| `PartsHaveWriters` | assumes `Lag \in 0..1`. `PathInv` (consecutive saves have different paths) and the bound on what is in hand make a writer the only one of its path (`SoleWriter`) |
| `SavedStaysThere` | the same; `NewestInv`: a path holds the newest checkpoint opened for it, in parts or whole |
| `PreviousStays` | the same; `CountedInv`: each counted checkpoint was answered or fell back |
| `TrainingTyping`, `TrainingEpochsFit` | `LoopInv`: saves are the whole intervals that the steps contain, with three lemmas on division |
| `TrainingWorkIsKept` | assumes `Lag \in 0..1`; `PreviousStays` for the training, since `TSpec` implements `Checkpoint`'s `Spec` (`TrainingSteps`) |

*Sums.* A policy's total is `SumFunction`, a fold: it takes the elements of a set
in an order that `CHOOSE` fixes, so what it gives for a set and for a subset of
it cannot be compared by unfolding. `SumProofs` shows once that such a fold, for
sums and for products, is the value of a function on the subsets of the set that
satisfies the fold's equation, and that it may be taken off any element first
(`SumStep`). The library's induction theorems cannot be instantiated here, so
each of these lemmas takes a least counterexample instead: of the subsets for
which it fails one with the fewest elements (`SmallestSubset`), from which one
element is taken away. That a sum is monotonic, that it scales, and that a
positive weight makes it positive follow the same way, and the policies need no
more.

*Rates that were given at different times.* What is granted to the sharers of a
fair share comes from snapshots of different ages, so no sum of them is an
invariant that a step would preserve. What a step preserves is `Spread`: in every
nonempty group of sharers one claims at most the bandwidth divided by the size of
the group. A new rate is a share among all who are there when it is given,
hence as small as any group with its owner asks for; groups without the owner
keep the member they had; and who leaves only makes groups fewer. Claims are what
a stream was sent and what a handler is about to send from the snapshot it holds
(`Prospect`); `UpToDate` says that the owner is in that snapshot just when it
still shares, which no other handler can change. From `Spread` the bound
follows (`SpreadSum`): take the member of the whole group that claims least, and
then that of the rest, and so on; the claims are at most `Bandwidth \div n`,
`Bandwidth \div (n - 1)`, ..., the terms of `Harmonic(n)`. In
`ClusterGrants` the claims of a transfer with data left are its rate, if that is
its own, and the rates of the START_FLUSHes on their way to it that are not older
than its checkpoint (`RateClaims`): any number of them. A claim begins with the
answer to a heartbeat, and only to one sent since the checkpoint was accepted:
`HistoryOK` and `Reported` say that such heartbeats report data, so whoever claims
a rate was active in the registry when it was answered and, as every later
heartbeat in its queue reports data too, stays so (`Known`). The rate is then a
share among all who claim one, which is what `Spread` needs (`RatesSpread`). What
makes `Reported` inductive is `DataInv`: the newest progress item is what is left
to copy, so no heartbeat says 0 before the copy has nothing left. Claims older
than the checkpoint are the ones that break the bound (section 3); the history
leaves those out and nothing else. TLC finds these invariants true on the
instances of `orchestrator` and `cluster_grants`.

*The assumptions.* `Lag \in 0..1` says that a flush ends before the next but one
save of its job; for `Lag` 2 the conclusions are false (section 3), so the
assumption is needed. `OneStreamEach` is needed too: two processes of a host
share one registration, so the uniform share of a restarted host's old stream and
of its new one are both the whole bandwidth, and `AllottedBounded` fails as
section 3 says; TLC shows both when one of two hosts is restarted. The
no-limit and fixed-rate policies give every worker a rate that has nothing to do
with the bandwidth, so `SharesFit` is not claimed of them. `Suffices` holds of the
constants of `orchestrator`. Some such bound is needed: a share is the
floor of a quotient, and a worker whose weight is EPS gets zero of a bandwidth
that is small enough.

Only model-checked: liveness, which is out of the prover's reach
(`AcceptedIsFlushed`, `ExitReachesMain`, `CtrlCEnds`, `CopyEnds`,
`SizeReachesZero`, `RatesSettle`, `OfferIsGranted`, `SharesReturn`,
`ShutdownReachesAll`). Every invariant and every action property of a passing
run is proved. That the migraters of `Cluster` behave as the threads of `Migrater`
do is argued above and not checked by a refinement.

## 6. Not modelled

Benchmarks, plots, job scripts, generated code and the legacy wrappers
(`PROJECT.json`, components, says why for each): they drive or observe the
system and keep no state it depends on. Of the training, the model, the data
and the optimizer. Size parsing and the loading and validation of the priority
map: text in, a constant of `Policies` out. Metrics and log lines, with the
metrics half of `token_bucket.py` (198-384), which only tests and plots call. A
second Ctrl-C. The two seconds that `server.stop()` grants: steps are untimed,
so what a cancelled stream leaves undone is what any broken stream does. A dead
connection that nobody notices: `last_seen` is never read and no keepalive is
set, so such a worker would stay registered; `Notice` assumes the transport
reports it. Crashes of a whole node (the fallback does not fsync). Floating-point
rounding in the policies. A restarted training job, which the repository has no
code to resume. What the report calls "transient overshoots" is bounded by
`OvershootBounded` and `AllottedBounded`, not excluded.

## 7. Plan

Done: every module of section 2; the proofs of section 5.

Next are proofs, in this order:

1. More of `Cluster` than its runs ask: each registered worker has a stream whose
   handler has not noticed its end.
2. The refinement of `Cluster`'s migrater by `Migrater` with saves spaced out.
