---------------------------- MODULE PolicyProofs ----------------------------
(***************************************************************************)
(* Theorems about the scheduling policies, for any parameters and any      *)
(* snapshot of the registry: what a policy gives its workers adds up to    *)
(* the bandwidth at most, and nobody with data is given nothing.           *)
(***************************************************************************)
EXTENDS SumProofs

\* A snapshot: any finite number of workers.
Snap(ws) ==
  /\ IsFiniteSet(DOMAIN ws)
  /\ \A w \in DOMAIN ws : /\ ws[w].size \in Nat /\ ws[w].since \in Int
                          /\ ws[w].epoch \in Int /\ ws[w].total \in Int

\* The active workers of a snapshot are finitely many.
LEMMA ActiveFinite ==
  ASSUME NEW ws, Snap(ws)
  PROVE  Active(ws) \in SUBSET DOMAIN ws /\ IsFiniteSet(Active(ws))
BY FS_Subset DEF Snap, Active

\* A quotient of natural numbers.
LEMMA Quotient ==
  ASSUME NEW a \in Nat, NEW t \in Nat \ {0}
  PROVE  /\ a \div t \in Nat
         /\ t * (a \div t) <= a
         /\ t <= a => a \div t > 0
OBVIOUS

-----------------------------------------------------------------------------
\* What does not exceed b when multiplied does not when not.
LEMMA Cancel ==
  ASSUME NEW r \in Int, NEW b \in Int, NEW t \in Nat \ {0}, t * r <= b * t
  PROVE  r <= b
<1> SUFFICES ASSUME r >= b + 1
             PROVE  FALSE
  OBVIOUS
<1>1. t * r >= t * (b + 1)
  OBVIOUS
<1> QED
  BY <1>1

\* Weights that are in order: positive, one for each active worker.
Weighs(weight, A) == /\ IsFiniteSet(A)
                     /\ weight \in [A -> Nat \ {0}]

\* The sum of the weights is positive, unless there are none.
LEMMA TotalOfWeights ==
  ASSUME NEW A, NEW weight, Weighs(weight, A)
  PROVE  /\ TotalWeight(weight) \in Nat
         /\ TotalWeight(weight) = SumFunctionOnSet(weight, A)
         /\ \A v \in A : weight[v] <= TotalWeight(weight)
<1>1. TotalWeight(weight) = SumFunctionOnSet(weight, A)
  BY DEF TotalWeight, SumFunction, Weighs
<1>2. \A v \in A : weight[v] \in Nat
  BY DEF Weighs
<1> QED
  BY <1>1, <1>2, SumNat DEF Weighs

\* What a worker is given by its weight, and what it is not.
LEMMA ShareByWeight ==
  ASSUME NEW A, NEW weight, Weighs(weight, A), NEW w \in A
  PROVE  LET given == Weighted(weight, w)
         IN  /\ given.action = "START_FLUSH" /\ given.rate \in Nat
             /\ TotalWeight(weight) * given.rate <= Bandwidth * weight[w]
             /\ TotalWeight(weight) <= Bandwidth * weight[w] => given.rate > 0
<1> DEFINE t == TotalWeight(weight)
           a == Bandwidth * weight[w]
<1>1. weight[w] \in Nat \ {0} /\ DOMAIN weight = A
  BY DEF Weighs
<1>2. t \in Nat \ {0}
  BY <1>1, TotalOfWeights
<1>3. a \in Nat
  BY <1>1, PolicyAssumption
<1>4. Weighted(weight, w) = [action |-> "START_FLUSH", rate |-> a \div t]
  BY <1>1 DEF Weighted, Start
<1> HIDE DEF t, a
<1> QED
  BY <1>2, <1>3, <1>4, Quotient DEF t, a

\* A worker that has no weight is told to hold.
LEMMA HeldByWeight ==
  ASSUME NEW A, NEW weight, Weighs(weight, A), NEW w, w \notin A
  PROVE  Weighted(weight, w) = Hold
BY DEF Weighted, Weighs

\* The shares of all the workers of a snapshot fit the bandwidth.
LEMMA SharesByWeight ==
  ASSUME NEW D, IsFiniteSet(D), NEW A \in SUBSET D, NEW weight, Weighs(weight, A)
  PROVE  SumFunctionOnSet([w \in D |-> Weighted(weight, w).rate], D) <= Bandwidth
<1> DEFINE rate == [w \in D |-> Weighted(weight, w).rate]
           t == TotalWeight(weight)
<1>1. /\ t \in Nat /\ t = SumFunctionOnSet(weight, A)
      /\ \A v \in A : weight[v] <= t /\ weight[v] \in Nat \ {0}
  BY TotalOfWeights DEF Weighs
<1>2. \A w \in A : rate[w] \in Nat /\ t * rate[w] <= Bandwidth * weight[w]
  BY ShareByWeight
<1>3. \A w \in D \ A : rate[w] = 0
  BY HeldByWeight DEF Hold
<1> HIDE DEF rate, t
<1>4. SumFunctionOnSet(rate, D) = SumFunctionOnSet(rate, A)
  BY <1>2, <1>3, SumWithoutZeros
<1>5. SumFunctionOnSet(rate, A) \in Int
  BY <1>2, SumStep DEF Weighs
<1>6. t * SumFunctionOnSet(rate, A) <= Bandwidth * t
  BY <1>1, <1>2, PolicyAssumption, SumScaled DEF Weighs
<1> SUFFICES SumFunctionOnSet(rate, D) <= Bandwidth
  BY DEF rate
<1>7. CASE A = {}
  <2>1. SumFunctionOnSet(rate, {}) = 0
    <3>1. \A x \in {} : rate[x] \in Int
      OBVIOUS
    <3> QED
      BY <3>1, FS_EmptySet, SumStep
  <2> QED
    BY <1>4, <1>7, <2>1, PolicyAssumption
<1>8. CASE A # {}
  <2>1. t \in Nat \ {0}
    BY <1>1, <1>8
  <2> QED
    BY <1>4, <1>5, <1>6, <2>1, PolicyAssumption, Cancel
<1> QED
  BY <1>7, <1>8

\* With room for n workers of the largest weight none of n is given nothing.
LEMMA NobodyStarves ==
  ASSUME NEW A, NEW weight, Weighs(weight, A), NEW w \in A,
         NEW n \in Nat, Cardinality(A) <= n,
         \A v \in A : n * weight[v] <= Bandwidth * weight[w]
  PROVE  Weighted(weight, w).rate > 0
<1> DEFINE t == TotalWeight(weight)
           one == [v \in A |-> 1]
           b == Bandwidth * weight[w]
<1>1. t \in Nat /\ t = SumFunctionOnSet(weight, A) /\ IsFiniteSet(A)
  BY TotalOfWeights DEF Weighs
<1>2. b \in Nat /\ \A v \in A : weight[v] \in Nat
  BY PolicyAssumption DEF Weighs
<1>3. SumFunctionOnSet(one, A) = Cardinality(A) /\ Cardinality(A) \in Nat
  BY <1>1, SumOnes, FS_CardinalityType
<1>4. \A v \in A : n * weight[v] <= b * one[v]
  BY <1>2
<1>5. \A v \in A : one[v] \in Int
  OBVIOUS
<1> HIDE DEF t, b, one
<1>6. n * t <= b * Cardinality(A)
  BY <1>1, <1>2, <1>3, <1>4, <1>5, SumScaled
<1>7. b * Cardinality(A) <= b * n
  BY <1>2, <1>3
<1>8. n > 0
  BY <1>1, <1>3, FS_EmptySet
<1>9. t <= b
  BY <1>1, <1>2, <1>3, <1>6, <1>7, <1>8
<1> QED
  BY <1>9, ShareByWeight DEF t, b

-----------------------------------------------------------------------------
\* The weights of the policies that weigh.
Weighing == {"active-fair-share", "static-priority", "age-priority",
             "epoch-priority"}
Weights(policy, ws, now) ==
  CASE policy = "active-fair-share" -> [v \in Active(ws) |-> 1]
    [] policy = "static-priority" -> [v \in Active(ws) |-> StaticWeight(v)]
    [] policy = "age-priority" -> AgeWeights(ws, now)
    [] policy = "epoch-priority" -> EpochWeights(ws)

\* Four of the policies are the division by their weights.
LEMMA DecidesByWeight ==
  ASSUME NEW policy \in Weighing, NEW w, NEW ws, NEW now
  PROVE  Decide(policy, w, ws, now) = Weighted(Weights(policy, ws, now), w)
<1>1. CASE policy = "active-fair-share"
  BY <1>1, Zenon DEF Decide, Weights, ActiveFairShare
<1>2. CASE policy = "static-priority"
  BY <1>2, Zenon DEF Decide, Weights, StaticPriority
<1>3. CASE policy = "age-priority"
  BY <1>3, Zenon DEF Decide, Weights, AgePriority
<1>4. CASE policy = "epoch-priority"
  BY <1>4, Zenon DEF Decide, Weights, EpochPriority
<1> QED
  BY <1>1, <1>2, <1>3, <1>4 DEF Weighing

\* "Non-positive weights are coerced to default_priority" (scheduler.py 189).
LEMMA StaticPositive ==
  ASSUME NEW w
  PROVE  StaticWeight(w) \in Nat \ {0}
BY PolicyAssumption DEF StaticWeight

\* The largest size and age, and what they are multiplied with.
MaxSize(ws) == Max({ws[v].size : v \in Active(ws)})
MaxAge(ws, now) == Max({Age(ws[v], now) : v \in Active(ws)})
AgeScale(ws, now) == IF MaxAge(ws, now) > 0 THEN MaxAge(ws, now) ELSE 1

\* The quantities that an age weight is made of.
LEMMA AgeParts ==
  ASSUME NEW ws, Snap(ws), NEW now \in Int, NEW v \in Active(ws)
  PROVE  /\ MaxSize(ws) \in Nat \ {0} /\ AgeScale(ws, now) \in Nat \ {0}
         /\ ws[v].size \in Nat /\ ws[v].size <= MaxSize(ws)
         /\ Age(ws[v], now) \in Int /\ Age(ws[v], now) <= AgeScale(ws, now)
<1> DEFINE A == Active(ws)
           size == [u \in A |-> ws[u].size]
           age == [u \in A |-> Age(ws[u], now)]
           S == {size[u] : u \in A}
           T == {age[u] : u \in A}
<1>1. IsFiniteSet(A) /\ \A u \in A : size[u] \in Nat \ {0} /\ age[u] \in Int
  BY ActiveFinite DEF Snap, Active, Age
<1>2. MaxSize(ws) = Max(S) /\ MaxAge(ws, now) = Max(T)
  BY DEF MaxSize, MaxAge
<1>3. size[v] = ws[v].size /\ age[v] = Age(ws[v], now) /\ v \in A
  OBVIOUS
<1> HIDE DEF A, size, age
<1>4. IsFiniteSet(S) /\ IsFiniteSet(T)
  BY <1>1, FiniteImage
<1>5. S # {} /\ T # {} /\ (\A x \in S : x \in Nat \ {0}) /\ (\A x \in T : x \in Int)
  BY <1>1, <1>3
<1>6. size[v] \in S /\ age[v] \in T
  BY <1>3
<1> HIDE DEF S, T
<1>7. /\ Max(S) \in S /\ \A y \in S : y <= Max(S)
      /\ Max(T) \in T /\ \A y \in T : y <= Max(T)
  BY <1>4, <1>5, LargestOf
<1> QED
  BY <1>1, <1>2, <1>3, <1>5, <1>6, <1>7 DEF AgeScale

\* A weight lies between the least, 10 * maxSize * scale, and the multiple of it
\* that the parameters allow.
LEMMA AgeWeightBounds ==
  ASSUME NEW ws, Snap(ws), NEW now \in Int, NEW v \in Active(ws)
  PROVE  LET m == MaxSize(ws) * AgeScale(ws, now)
             weight == AgeWeights(ws, now)[v]
         IN  /\ m \in Nat \ {0} /\ weight \in Nat /\ 10 * m <= weight
             /\ \/ weight = 10 * m
                \/ weight <= EpsInv * (Alpha + Beta) * m
<1> DEFINE z == MaxSize(ws)
           c == AgeScale(ws, now)
           x == ws[v].size
           y == Age(ws[v], now)
           p == EpsInv * (Alpha * x * c + Beta * y * z)
<1>1. /\ z \in Nat \ {0} /\ c \in Nat \ {0} /\ x \in Nat /\ x <= z
      /\ y \in Int /\ y <= c
  BY AgeParts
<1>2. AgeWeights(ws, now)[v] = Max({p, 10 * z * c})
  BY Zenon DEF AgeWeights, MaxSize, AgeScale, MaxAge
<1> HIDE DEF z, c, x, y
<1>3. z * c \in Nat \ {0} /\ 10 * z * c = 10 * (z * c)
  BY <1>1
<1>4. x * c \in Int /\ y * z \in Int /\ x * c <= z * c /\ y * z <= z * c
  BY <1>1
<1>5. /\ Alpha * x * c = Alpha * (x * c) /\ Beta * y * z = Beta * (y * z)
      /\ Alpha * (x * c) <= Alpha * (z * c) /\ Beta * (y * z) <= Beta * (z * c)
  BY <1>1, <1>3, <1>4, PolicyAssumption
<1>6. p \in Int /\ p <= EpsInv * (Alpha + Beta) * (z * c)
  <2> DEFINE q == Alpha * x * c + Beta * y * z
             r == (Alpha + Beta) * (z * c)
  <2>1. q \in Int /\ r \in Int /\ q <= r
    BY <1>3, <1>4, <1>5, PolicyAssumption
  <2>2. EpsInv * (Alpha + Beta) * (z * c) = EpsInv * r
    BY <1>3, PolicyAssumption
  <2> HIDE DEF q, r
  <2>3. EpsInv * q \in Int /\ EpsInv * q <= EpsInv * r
    BY <2>1, PolicyAssumption
  <2> QED
    BY <2>2, <2>3 DEF q
<1> HIDE DEF p
<1>7. AgeWeights(ws, now)[v] = IF p >= 10 * (z * c) THEN p ELSE 10 * (z * c)
  BY <1>2, <1>3, <1>6, LargerOfTwo
<1> QED
  BY <1>3, <1>6, <1>7 DEF z, c

\* The product of the totals, the least weight by 10.
Totals(ws) == [u \in Active(ws) |-> Total(ws[u])]
AllTotals(ws) == Product(Totals(ws), Active(ws))

\* Each total divides the product of them all.
LEMMA EpochParts ==
  ASSUME NEW ws, Snap(ws), NEW v \in Active(ws)
  PROVE  LET others == Product(Totals(ws), Active(ws) \ {v})
         IN  /\ others \in Nat \ {0}
             /\ Total(ws[v]) \in Nat \ {0}
             /\ AllTotals(ws) = others * Total(ws[v])
             /\ Progress(ws[v]) \in Nat /\ Progress(ws[v]) <= Total(ws[v])
<1> DEFINE A == Active(ws)
           f == Totals(ws)
           others == Product(f, A \ {v})
<1>1. ws[v].epoch \in Int /\ ws[v].total \in Int
  BY DEF Snap, Active
<1>2. /\ Total(ws[v]) \in Nat \ {0}
      /\ Progress(ws[v]) \in Nat /\ Progress(ws[v]) <= Total(ws[v])
  <2> DEFINE e == ws[v].epoch
             t == ws[v].total
             low == Min({e, t})
  <2>1. e \in Int /\ t \in Int
    BY <1>1
  <2> HIDE DEF e, t
  <2>2. low \in Int /\ low <= t
    <3>1. Min({e, t}) = IF e <= t THEN e ELSE t
      BY <2>1, LargerOfTwo
    <3> QED
      BY <2>1, <3>1
  <2> HIDE DEF low
  <2>3. Max({0, low}) = IF 0 >= low THEN 0 ELSE low
    BY <2>2, LargerOfTwo
  <2>4. /\ Total(ws[v]) = IF t > 0 THEN t ELSE 1
        /\ Progress(ws[v]) = IF t > 0 THEN Max({0, low}) ELSE 0
    BY Zenon DEF Total, Progress, e, t, low
  <2> QED
    BY <2>1, <2>2, <2>3, <2>4
<1>3. IsFiniteSet(A) /\ IsFiniteSet(A \ {v})
  BY ActiveFinite, FS_Subset
<1>4. \A u \in A : f[u] \in Nat \ {0}
  BY DEF Totals, Total, Snap, Active
<1>5. f[v] = Total(ws[v]) /\ v \in A
  BY DEF Totals
<1> HIDE DEF A, f
<1>6. others \in Nat \ {0}
  BY <1>3, <1>4, ProductPositive
<1>7. Product(f, A) = f[v] * others
  BY <1>3, <1>4, <1>5, ProductRemove
<1> HIDE DEF others
<1>8. Product(f, A) = others * Total(ws[v])
  BY <1>2, <1>5, <1>6, <1>7
<1> QED
  BY <1>2, <1>6, <1>8 DEF others, A, f, AllTotals

\* A weight of epoch-priority lies between a tenth of the product and all of it.
LEMMA EpochWeightBounds ==
  ASSUME NEW ws, Snap(ws), NEW v \in Active(ws)
  PROVE  LET m == AllTotals(ws)
             weight == EpochWeights(ws)[v]
         IN  /\ m \in Nat \ {0} /\ weight \in Nat
             /\ 10 * m <= weight /\ weight <= EpsInv * 10 * m
<1> DEFINE o == Product(Totals(ws), Active(ws) \ {v})
           t == Total(ws[v])
           p == Progress(ws[v])
           m == AllTotals(ws)
           x == EpsInv * o * (Floor * t + (10 - Floor) * p)
<1>1. /\ o \in Nat \ {0} /\ t \in Nat \ {0} /\ m = o * t
      /\ p \in Nat /\ p <= t
  BY EpochParts
<1>2. EpochWeights(ws)[v] = Max({x, 10 * o * t})
  BY Zenon DEF EpochWeights, Totals
<1> HIDE DEF o, t, p, m
<1>3. m \in Nat \ {0} /\ 10 * o * t = 10 * m
  BY <1>1
<1>4. Floor \in Nat /\ Floor <= 10 /\ EpsInv \in Nat \ {0}
  BY PolicyAssumption DEF Tenths
<1> DEFINE q == Floor * t + (10 - Floor) * p
<1>5. q \in Nat /\ q <= 10 * t
  <2>1. (10 - Floor) * p <= (10 - Floor) * t
    BY <1>1, <1>4
  <2> QED
    BY <1>1, <1>4, <2>1
<1> HIDE DEF q
<1>6. o * q \in Nat /\ o * q <= 10 * m
  <2>1. o * q <= o * (10 * t) /\ o * (10 * t) = 10 * (o * t)
    BY <1>1, <1>5
  <2> QED
    BY <1>1, <1>5, <2>1
<1>7. EpsInv * (o * q) \in Nat /\ EpsInv * (o * q) <= EpsInv * (10 * m)
  BY <1>3, <1>4, <1>6
<1>8. EpsInv * o * q = EpsInv * (o * q) /\ EpsInv * 10 * m = EpsInv * (10 * m)
  BY <1>1, <1>3, <1>4, <1>5
<1>9. x \in Nat /\ x <= EpsInv * 10 * m
  BY <1>7, <1>8 DEF q
<1>10. 10 * m <= EpsInv * 10 * m
  BY <1>3, <1>4
<1> HIDE DEF x
<1>11. EpochWeights(ws)[v] = IF x >= 10 * m THEN x ELSE 10 * m
  BY <1>2, <1>3, <1>9, LargerOfTwo
<1> QED
  BY <1>3, <1>9, <1>10, <1>11 DEF m

\* Every weighing policy weighs: a positive weight for each active worker.
LEMMA WeightsAreInOrder ==
  ASSUME NEW policy \in Weighing, NEW ws, Snap(ws), NEW now \in Int
  PROVE  Weighs(Weights(policy, ws, now), Active(ws))
<1>1. IsFiniteSet(Active(ws))
  BY ActiveFinite
<1>2. CASE policy = "active-fair-share"
  <2>1. Weights(policy, ws, now) = [v \in Active(ws) |-> 1]
    BY <1>2, Zenon DEF Weights
  <2> QED
    BY <1>1, <2>1 DEF Weighs
<1>3. CASE policy = "static-priority"
  <2>1. Weights(policy, ws, now) = [v \in Active(ws) |-> StaticWeight(v)]
    BY <1>3, Zenon DEF Weights
  <2> QED
    BY <1>1, <2>1, StaticPositive DEF Weighs
<1>4. CASE policy = "age-priority"
  <2>1. Weights(policy, ws, now) = AgeWeights(ws, now)
    BY <1>4, Zenon DEF Weights
  <2>2. /\ DOMAIN AgeWeights(ws, now) = Active(ws)
        /\ AgeWeights(ws, now) = [v \in Active(ws) |-> AgeWeights(ws, now)[v]]
    BY DEF AgeWeights
  <2>3. \A v \in Active(ws) : AgeWeights(ws, now)[v] \in Nat \ {0}
    BY AgeWeightBounds
  <2> QED
    BY <1>1, <2>1, <2>2, <2>3 DEF Weighs
<1>5. CASE policy = "epoch-priority"
  <2>1. Weights(policy, ws, now) = EpochWeights(ws)
    BY <1>5, Zenon DEF Weights
  <2>2. /\ DOMAIN EpochWeights(ws) = Active(ws)
        /\ EpochWeights(ws) = [v \in Active(ws) |-> EpochWeights(ws)[v]]
    BY DEF EpochWeights
  <2>3. \A v \in Active(ws) : EpochWeights(ws)[v] \in Nat \ {0}
    BY EpochWeightBounds
  <2> QED
    BY <1>1, <2>1, <2>2, <2>3 DEF Weighs
<1> QED
  BY <1>2, <1>3, <1>4, <1>5 DEF Weighing

-----------------------------------------------------------------------------
\* The policies without weights.
LEMMA FlatRates ==
  ASSUME NEW policy \in {"no-limit", "fixed-rate"}, NEW w, NEW ws, NEW now
  PROVE  Decide(policy, w, ws, now) = Start(FullRate)
<1>1. CASE policy = "no-limit"
  BY <1>1, Zenon DEF Decide, NoLimit
<1>2. CASE policy = "fixed-rate"
  BY <1>2, Zenon DEF Decide, FixedRate
<1> QED
  BY <1>1, <1>2

\* uniform-fair-share gives everyone the same part.
LEMMA UniformRate ==
  ASSUME NEW ws, IsFiniteSet(DOMAIN ws), NEW w, NEW now
  PROVE  LET n == Cardinality(DOMAIN ws)
             given == Decide("uniform-fair-share", w, ws, now)
         IN  /\ n \in Nat
             /\ given.action = "START_FLUSH" /\ given.rate \in Nat
             /\ n > 0 => given.rate = Bandwidth \div n
             /\ n * given.rate <= Bandwidth
             /\ 0 < n /\ n <= Bandwidth => given.rate > 0
<1> DEFINE n == Cardinality(DOMAIN ws)
<1>1. n \in Nat /\ (n = 0 <=> DOMAIN ws = {})
  BY FS_CardinalityType, FS_EmptySet
<1>2. Decide("uniform-fair-share", w, ws, now)
        = Start(IF DOMAIN ws = {} THEN 0 ELSE Bandwidth \div n)
  BY Zenon DEF Decide, UniformFairShare
<1> HIDE DEF n
<1>3. CASE n = 0
  BY <1>1, <1>2, <1>3, PolicyAssumption DEF Start, n
<1>4. CASE n \in Nat \ {0}
  BY <1>1, <1>2, <1>4, PolicyAssumption, Quotient DEF Start, n
<1> QED
  BY <1>1, <1>3, <1>4

\* Whatever a policy decides is an instruction, and never EXIT.
LEMMA DecidesAnInstruction ==
  ASSUME NEW policy \in Policy, NEW w, NEW ws, Snap(ws), NEW now \in Int
  PROVE  LET given == Decide(policy, w, ws, now)
         IN  /\ given \in [action : {"HOLD", "START_FLUSH"}, rate : Nat]
             /\ given.action = "HOLD" => given.rate = 0
<1>1. CASE policy \in {"no-limit", "fixed-rate"}
  BY <1>1, FlatRates, PolicyAssumption DEF Start
<1>2. CASE policy = "uniform-fair-share"
  <2>1. \E r : Decide(policy, w, ws, now) = [action |-> "START_FLUSH", rate |-> r]
    BY <1>2, Zenon DEF Decide, UniformFairShare, Start
  <2> QED
    BY <1>2, <2>1, UniformRate DEF Snap
<1>3. CASE policy \in Weighing
  <2> DEFINE weight == Weights(policy, ws, now)
  <2>1. Weighs(weight, Active(ws))
    BY <1>3, WeightsAreInOrder
  <2>2. Decide(policy, w, ws, now) = Weighted(weight, w)
    BY <1>3, DecidesByWeight
  <2> HIDE DEF weight
  <2>3. CASE w \in Active(ws)
    <3>1. /\ Weighted(weight, w).action = "START_FLUSH"
          /\ Weighted(weight, w).rate \in Nat
      BY <2>1, <2>3, ShareByWeight
    <3>2. \E r : Weighted(weight, w) = [action |-> "START_FLUSH", rate |-> r]
      BY <2>1, <2>3 DEF Weighted, Start, Weighs
    <3> QED
      BY <2>2, <3>1, <3>2
  <2>4. CASE w \notin Active(ws)
    BY <2>1, <2>2, <2>4, HeldByWeight DEF Hold
  <2> QED
    BY <2>3, <2>4
<1> QED
  BY <1>1, <1>2, <1>3 DEF Policy, Weighing

-----------------------------------------------------------------------------
Dividing == Weighing \cup {"uniform-fair-share"}

\* "Divides total PFS bandwidth" (scheduler.py 134, 156): whatever the sizes, ages,
\* epochs and priorities are, what a policy that divides the bandwidth gives all
\* the workers of one snapshot adds up to pfs_bandwidth_bps at most.
THEOREM SnapshotFits ==
  ASSUME NEW policy \in Dividing, NEW ws, Snap(ws), NEW now \in Int
  PROVE  SumFunction([w \in DOMAIN ws |-> Decide(policy, w, ws, now).rate])
           <= Bandwidth
<1> DEFINE D == DOMAIN ws
           rate == [w \in D |-> Decide(policy, w, ws, now).rate]
<1>1. SumFunction(rate) = SumFunctionOnSet(rate, D)
  BY DEF SumFunction
<1>2. CASE policy \in Weighing
  <2> DEFINE weight == Weights(policy, ws, now)
  <2>1. rate = [w \in D |-> Weighted(weight, w).rate]
    BY <1>2, DecidesByWeight, Zenon
  <2>2. Weighs(weight, Active(ws)) /\ Active(ws) \in SUBSET D /\ IsFiniteSet(D)
    BY <1>2, WeightsAreInOrder, ActiveFinite DEF Snap
  <2> HIDE DEF rate, weight, D
  <2>3. SumFunctionOnSet([w \in D |-> Weighted(weight, w).rate], D) <= Bandwidth
    BY <2>2, SharesByWeight
  <2> QED
    BY <1>1, <2>1, <2>3 DEF rate, D
<1>3. CASE policy = "uniform-fair-share"
  <2> DEFINE n == Cardinality(D)
             one == [w \in D |-> 1]
  <2>1. IsFiniteSet(D) /\ n \in Nat
    BY FS_CardinalityType DEF Snap
  <2>2. \A w \in D : rate[w] \in Nat /\ n * rate[w] <= Bandwidth
    BY <1>3, <2>1, UniformRate
  <2>3. SumFunctionOnSet(one, D) = n /\ \A w \in D : one[w] = 1
    BY <2>1, SumOnes
  <2>4. n = 0 <=> D = {}
    BY <2>1, FS_EmptySet
  <2> HIDE DEF rate, D, n, one
  <2>5. n * SumFunctionOnSet(rate, D) <= Bandwidth * n
    <3>1. \A w \in D : n * rate[w] <= Bandwidth * one[w] /\ one[w] \in Int
      BY <2>2, <2>3, PolicyAssumption
    <3> QED
      BY <2>1, <2>2, <2>3, <3>1, PolicyAssumption, SumScaled
  <2>6. SumFunctionOnSet(rate, D) \in Int /\ (D = {} => SumFunctionOnSet(rate, D) = 0)
    BY <2>1, <2>2, SumStep
  <2>7. SumFunctionOnSet(rate, D) <= Bandwidth
    <3>1. CASE n = 0
      BY <2>4, <2>6, <3>1, PolicyAssumption
    <3>2. CASE n # 0
      <4>1. n \in Nat \ {0}
        BY <2>1, <3>2
      <4> QED
        BY <2>5, <2>6, <4>1, PolicyAssumption, Cancel
    <3> QED
      BY <3>1, <3>2
  <2> QED
    BY <1>1, <2>7 DEF rate, D
<1> QED
  BY <1>2, <1>3 DEF Dividing

\* The bandwidth at which a policy has something for each of n workers: EPS and
\* the priorities bound how far the weights of two workers are apart.
Suffices(policy, n) ==
  /\ policy \in {"no-limit", "fixed-rate"} => FullRate > 0
  /\ policy \in Dividing => n <= Bandwidth
  /\ policy = "static-priority" =>
       /\ n * DefaultPriority <= Bandwidth
       /\ \A v \in DOMAIN Priorities : n * Priorities[v] <= Bandwidth
  /\ policy = "age-priority" => n * EpsInv * (Alpha + Beta) <= 10 * Bandwidth
  /\ policy = "epoch-priority" => n * EpsInv <= Bandwidth

\* No worker with something pending is given nothing (scheduler.py 161-353), by
\* any policy, once the bandwidth suffices: the smallest weight is not too small.
THEOREM ActiveIsGiven ==
  ASSUME NEW policy \in Policy, NEW ws, Snap(ws), NEW now \in Int,
         NEW w \in Active(ws),
         NEW n \in Nat, Cardinality(DOMAIN ws) <= n, Suffices(policy, n)
  PROVE  LET given == Decide(policy, w, ws, now)
         IN  given.action = "START_FLUSH" /\ given.rate > 0
<1>1. CASE policy \in {"no-limit", "fixed-rate"}
  BY <1>1, FlatRates DEF Start, Suffices
<1>2. CASE policy = "uniform-fair-share"
  <2>1. Cardinality(DOMAIN ws) \in Nat \ {0} /\ IsFiniteSet(DOMAIN ws)
    BY FS_CardinalityType, FS_EmptySet DEF Snap, Active
  <2>2. n <= Bandwidth
    BY <1>2 DEF Suffices, Dividing
  <2>3. 0 < Cardinality(DOMAIN ws) /\ Cardinality(DOMAIN ws) <= Bandwidth
    BY <2>1, <2>2, PolicyAssumption
  <2> QED
    BY <1>2, <2>1, <2>3, UniformRate
<1>3. CASE policy \in Weighing
  <2> DEFINE A == Active(ws)
             weight == Weights(policy, ws, now)
  <2>1. Weighs(weight, A) /\ A \in SUBSET DOMAIN ws /\ IsFiniteSet(DOMAIN ws)
    BY <1>3, WeightsAreInOrder, ActiveFinite DEF Snap
  <2>2. Decide(policy, w, ws, now) = Weighted(weight, w)
    BY <1>3, DecidesByWeight
  <2>3. Cardinality(A) <= n
    BY <2>1, FS_Subset, FS_CardinalityType
  <2>4. n <= Bandwidth /\ Bandwidth \in Nat /\ EpsInv \in Nat \ {0}
    BY <1>3, PolicyAssumption DEF Suffices, Dividing
  <2>5. \A v \in A : n * weight[v] <= Bandwidth * weight[w]
    <3> SUFFICES ASSUME NEW v \in A
                 PROVE  n * weight[v] <= Bandwidth * weight[w]
      OBVIOUS
    <3>1. CASE policy = "active-fair-share"
      <4>1. weight[v] = 1 /\ weight[w] = 1
        BY <3>1, Zenon DEF Weights
      <4> HIDE DEF weight
      <4> QED
        BY <2>4, <4>1
    <3>2. CASE policy = "static-priority"
      <4>1. weight[v] = StaticWeight(v) /\ weight[w] = StaticWeight(w)
        BY <3>2, Zenon DEF Weights
      <4> HIDE DEF weight
      <4>2. n * StaticWeight(v) <= Bandwidth
        BY <3>2, <2>4, PolicyAssumption DEF Suffices, StaticWeight
      <4>3. StaticWeight(w) \in Nat \ {0}
        BY StaticPositive
      <4>4. Bandwidth <= Bandwidth * StaticWeight(w)
        BY <2>4, <4>3
      <4>5. n * StaticWeight(v) \in Int
        BY StaticPositive
      <4> QED
        BY <2>4, <4>1, <4>2, <4>3, <4>4, <4>5
    <3>3. CASE policy = "age-priority"
      <4> DEFINE m == MaxSize(ws) * AgeScale(ws, now)
                 c == EpsInv * (Alpha + Beta)
      <4>1. /\ weight[v] = AgeWeights(ws, now)[v]
            /\ weight[w] = AgeWeights(ws, now)[w]
        BY <3>3, Zenon DEF Weights
      <4> HIDE DEF weight
      <4>2. /\ m \in Nat \ {0} /\ weight[v] \in Nat /\ weight[w] \in Nat
            /\ 10 * m <= weight[w]
            /\ weight[v] = 10 * m \/ weight[v] <= c * m
        BY <4>1, AgeWeightBounds
      <4>3. c \in Nat /\ n * c <= 10 * Bandwidth
        <5>1. n * EpsInv * (Alpha + Beta) = n * (EpsInv * (Alpha + Beta))
          BY PolicyAssumption
        <5>2. n * EpsInv * (Alpha + Beta) <= 10 * Bandwidth
          BY <3>3 DEF Suffices
        <5> QED
          BY <5>1, <5>2, PolicyAssumption
      <4> HIDE DEF m, c
      <4>4. Bandwidth * (10 * m) <= Bandwidth * weight[w]
        BY <2>4, <4>2
      <4>5. n * weight[v] <= Bandwidth * (10 * m)
        <5>1. CASE weight[v] = 10 * m
          BY <2>4, <4>2, <5>1
        <5>2. CASE weight[v] <= c * m
          <6>1. n * weight[v] <= n * (c * m) /\ n * (c * m) = (n * c) * m
            BY <4>2, <4>3, <5>2
          <6>2. (n * c) * m <= (10 * Bandwidth) * m
            BY <2>4, <4>2, <4>3
          <6> QED
            BY <2>4, <4>2, <4>3, <6>1, <6>2
        <5> QED
          BY <4>2, <5>1, <5>2
      <4> QED
        BY <2>4, <4>2, <4>4, <4>5
    <3>4. CASE policy = "epoch-priority"
      <4> DEFINE m == AllTotals(ws)
      <4>1. weight[v] = EpochWeights(ws)[v] /\ weight[w] = EpochWeights(ws)[w]
        BY <3>4, Zenon DEF Weights
      <4> HIDE DEF weight
      <4>2. /\ m \in Nat \ {0} /\ weight[v] \in Nat /\ weight[w] \in Nat
            /\ 10 * m <= weight[w] /\ weight[v] <= EpsInv * 10 * m
        BY <4>1, EpochWeightBounds
      <4>3. n * EpsInv <= Bandwidth
        BY <3>4 DEF Suffices
      <4> HIDE DEF m
      <4>4. Bandwidth * (10 * m) <= Bandwidth * weight[w]
        BY <2>4, <4>2
      <4>5. /\ n * weight[v] <= n * (EpsInv * 10 * m)
            /\ n * (EpsInv * 10 * m) = (n * EpsInv) * (10 * m)
        BY <2>4, <4>2
      <4>6. (n * EpsInv) * (10 * m) <= Bandwidth * (10 * m)
        BY <2>4, <4>2, <4>3
      <4> QED
        BY <2>4, <4>2, <4>4, <4>5, <4>6
    <3> QED
      BY <1>3, <3>1, <3>2, <3>3, <3>4 DEF Weighing
  <2> HIDE DEF weight, A
  <2>6. w \in A
    BY DEF A
  <2>7. Weighted(weight, w).rate > 0
    BY <2>1, <2>3, <2>5, <2>6, NobodyStarves
  <2> QED
    BY <2>1, <2>2, <2>6, <2>7, ShareByWeight
<1> QED
  BY <1>1, <1>2, <1>3 DEF Policy, Weighing
=============================================================================
