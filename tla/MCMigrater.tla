----------------------------- MODULE MCMigrater -----------------------------
(***************************************************************************)
(* Migrater for TLC: what the policies may answer.                         *)
(***************************************************************************)
EXTENDS Migrater

R(a, r) == [action |-> a, rate |-> r]

\* No-limit, fixed-rate and uniform-fair-share grant every heartbeat.
GrantAll == {R("START_FLUSH", 1)}

\* The other four policies hold a worker that reports nothing pending.
HoldIdle == {R("HOLD", 0)}

\* A share of nothing is START_FLUSH at rate zero (Orchestrator says when).
GrantOrPause == GrantAll \cup {R("START_FLUSH", 0)}

\* The epochs the messages carry are read by no thread: two states that differ
\* in them alone have the same safety behaviour.
Pendings(s) == [i \in 1..Len(s) |-> s[i].pending]
Actions(s) == [i \in 1..Len(s) |-> <<s[i].action, s[i].rate>>]
WithoutEpochs ==
  <<pendingSize, transferActive, currentRate, transferAllowed, newest,
    shutdownRequested, shutdownComplete, generator, rcv, notify, xfer,
    remaining, main, connected, Pendings(uplink), Actions(downlink), orch>>
=============================================================================
