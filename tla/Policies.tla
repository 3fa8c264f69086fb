------------------------------ MODULE Policies ------------------------------
(***************************************************************************)
(* The scheduling policies of src/src/orchestrator/scheduler.py: what each *)
(* decides for worker w from a snapshot ws of the registry.                *)
(*                                                                         *)
(* Data.  A rate is a float that the migrater truncates to an integer      *)
(* (int() in _handle_instruction), so a share is a floor.  The parameters  *)
(* alpha, beta and floor are counted in tenths and EPS is 1 / EpsInv;      *)
(* a weight is scaled by a factor that is the same for every worker of a   *)
(* snapshot, which leaves the shares as they are.                          *)
(***************************************************************************)
EXTENDS Integers, FiniteSets, FiniteSetsExt, Functions

CONSTANTS
  Bandwidth,        \* pfs_bandwidth_bps
  FullRate,         \* the 1 GB/s of no-limit and of fixed-rate's default
  Priorities,       \* static-priority: a function from some workers to weights
  DefaultPriority,
  Alpha, Beta,      \* age-priority, in tenths
  Floor,            \* epoch-priority, in tenths
  EpsInv

Tenths == 0..10

ASSUME PolicyAssumption ==
  /\ Bandwidth \in Nat /\ FullRate \in Nat
  /\ DefaultPriority \in Nat \ {0}
  /\ \A w \in DOMAIN Priorities : Priorities[w] \in Int
  /\ Alpha \in Nat /\ Beta \in Nat /\ Alpha + Beta > 0
  /\ Floor \in Tenths
  /\ EpsInv \in Nat \ {0}

NoTime == -1        \* pending_since of an idle worker

Hold == [action |-> "HOLD", rate |-> 0]
Start(rate) == [action |-> "START_FLUSH", rate |-> rate]

ActiveIfLarge(ws) ==                  \* variant: an off-by-one in the test
  {w \in DOMAIN ws : ws[w].size > 1}
Active(ws) == {w \in DOMAIN ws : ws[w].size > 0}

\* The share of worker w by weight, which is a function on the active workers.
LargestWeight(weight) ==              \* variant: no sum
  Max({weight[v] : v \in DOMAIN weight})
TotalWeight(weight) == SumFunction(weight)

Weighted(weight, w) ==
  IF w \in DOMAIN weight
    THEN Start((Bandwidth * weight[w]) \div TotalWeight(weight))
    ELSE Hold

NoLimit(w, ws, now) == Start(FullRate)
FixedRate(w, ws, now) == Start(FullRate)

FairShareOfOthers(w, ws, now) ==      \* variant: w itself is not counted
  Start(IF DOMAIN ws \subseteq {w} THEN Bandwidth
        ELSE Bandwidth \div (Cardinality(DOMAIN ws) - 1))
UniformFairShare(w, ws, now) ==
  Start(IF DOMAIN ws = {} THEN 0 ELSE Bandwidth \div Cardinality(DOMAIN ws))

ActiveFairShare(w, ws, now) == Weighted([v \in Active(ws) |-> 1], w)

StaticWeight(w) == IF w \in DOMAIN Priorities /\ Priorities[w] > 0
                     THEN Priorities[w] ELSE DefaultPriority
StaticPriority(w, ws, now) ==
  Weighted([v \in Active(ws) |-> StaticWeight(v)], w)

\* alpha * size / max_size + beta * age / max_age, or EPS; the second term is
\* zero if max_age is.  Scaled by 10 * EpsInv * max_size * max_age.
Age(state, now) == IF state.since = NoTime THEN 0 ELSE now - state.since
AgeWeights(ws, now) ==
  LET maxSize == Max({ws[v].size : v \in Active(ws)})
      maxAge == Max({Age(ws[v], now) : v \in Active(ws)})
      scale == IF maxAge > 0 THEN maxAge ELSE 1
  IN  [v \in Active(ws) |->
         Max({EpsInv * (Alpha * ws[v].size * scale
                        + Beta * Age(ws[v], now) * maxSize),
              10 * maxSize * scale})]
AgePriority(w, ws, now) == Weighted(AgeWeights(ws, now), w)

\* floor + (1 - floor) * epoch / total, or EPS; the quotient is clamped and is
\* zero if the total is.  Scaled by 10 * EpsInv * (the product of the totals).
Product(f, S) == FoldFunctionOnSet(LAMBDA a, b : a * b, 1, f, S)

Total(state) == IF state.total > 0 THEN state.total ELSE 1
Progress(state) ==
  IF state.total > 0 THEN Max({0, Min({state.epoch, state.total})}) ELSE 0
EpochWeights(ws) ==
  LET totals == [u \in Active(ws) |-> Total(ws[u])]
      others(v) == Product(totals, Active(ws) \ {v})
  IN  [v \in Active(ws) |->
         Max({EpsInv * others(v) * (Floor * Total(ws[v])
                                    + (10 - Floor) * Progress(ws[v])),
              10 * others(v) * Total(ws[v])})]
EpochPriority(w, ws, now) == Weighted(EpochWeights(ws), w)

Policy == {"no-limit", "fixed-rate", "uniform-fair-share", "active-fair-share",
           "static-priority", "age-priority", "epoch-priority"}

Decide(policy, w, ws, now) ==
  CASE policy = "no-limit" -> NoLimit(w, ws, now)
    [] policy = "fixed-rate" -> FixedRate(w, ws, now)
    [] policy = "uniform-fair-share" -> UniformFairShare(w, ws, now)
    [] policy = "active-fair-share" -> ActiveFairShare(w, ws, now)
    [] policy = "static-priority" -> StaticPriority(w, ws, now)
    [] policy = "age-priority" -> AgePriority(w, ws, now)
    [] policy = "epoch-priority" -> EpochPriority(w, ws, now)
=============================================================================
