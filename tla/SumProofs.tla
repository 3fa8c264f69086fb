------------------------------ MODULE SumProofs ------------------------------
(***************************************************************************)
(* Facts about the sums and products that the policies are built from.     *)
(*                                                                         *)
(* SumFunctionOnSet and Product are folds: a fold is the value at S of a   *)
(* function, chosen by its recursion, on the subsets of S.  It is shown    *)
(* here that there is one such function on the subsets of a finite set and *)
(* only one, hence that a fold obeys the recursion, and that the order of  *)
(* the elements does not matter.  Induction is done as a least             *)
(* counterexample: strict inclusion is well-founded on the subsets of a    *)
(* finite set, so that among those where a statement fails one is smallest.*)
(***************************************************************************)
EXTENDS Policies, FiniteSetTheorems, WellFoundedInduction, TLAPS

\* Induction over the subsets of a finite set, as a least counterexample.
LEMMA SmallestSubset ==
  ASSUME NEW S, IsFiniteSet(S), NEW F \in SUBSET SUBSET S, F # {}
  PROVE  \E U \in F : \A V \in F : V \subseteq U => V = U
<1>1. F \subseteq FiniteSubsetsOf(S)
  BY FS_FiniteSubsetsOfFinite
<1>2. PICK U \in F : \A V \in F : ~(<<V, U>> \in StrictSubsetOrdering(S))
  BY <1>1, FS_StrictSubsetOrderingWellFounded, WFMin
<1>3. ASSUME NEW V \in F, V \subseteq U, V # U
      PROVE  <<V, U>> \in StrictSubsetOrdering(S)
  BY <1>3 DEF StrictSubsetOrdering
<1>4. \A V \in F : V \subseteq U => V = U
  BY <1>2, <1>3, Zenon
<1> QED
  BY <1>4, Zenon

\* The element of s that a fold takes first, and the others.
First(s) == CHOOSE x \in s : TRUE
Others(s) == s \ {First(s)}

\* The element that a fold takes out first is one of the set.
LEMMA FirstIsIn ==
  ASSUME NEW s, s # {}
  PROVE  First(s) \in s /\ Others(s) \subseteq s /\ Others(s) # s
BY DEF First, Others

\* g is the fold of h over the subsets of S.
Folds(g, h, base, S) ==
  g = [s \in SUBSET S |-> IF s = {} THEN base ELSE h[<<First(s), g[Others(s)]>>]]

\* The recursion at one subset.
LEMMA FoldsAt ==
  ASSUME NEW g, NEW h, NEW base, NEW S, Folds(g, h, base, S), NEW s \in SUBSET S
  PROVE  g[s] = IF s = {} THEN base ELSE h[<<First(s), g[Others(s)]>>]
BY Zenon DEF Folds

\* Two folds of the same function agree where both are defined.
LEMMA FoldIsUnique ==
  ASSUME NEW S, IsFiniteSet(S), NEW T \in SUBSET S, NEW h, NEW base,
         NEW f, Folds(f, h, base, S), NEW g, Folds(g, h, base, T)
  PROVE  \A s \in SUBSET T : f[s] = g[s]
<1> SUFFICES ASSUME NEW r \in SUBSET T, f[r] # g[r]
             PROVE  FALSE
  OBVIOUS
<1> DEFINE F == {s \in SUBSET T : f[s] # g[s]}
<1>1. PICK s \in F : \A V \in F : V \subseteq s => V = s
  <2>1. F \in SUBSET SUBSET S /\ F # {}
    OBVIOUS
  <2> HIDE DEF F
  <2> QED
    BY <2>1, SmallestSubset
<1>2. s \in SUBSET T /\ s \in SUBSET S
  OBVIOUS
<1>3. /\ f[s] = IF s = {} THEN base ELSE h[<<First(s), f[Others(s)]>>]
      /\ g[s] = IF s = {} THEN base ELSE h[<<First(s), g[Others(s)]>>]
  BY <1>2, FoldsAt
<1>4. s # {}
  BY <1>3
<1>5. Others(s) \in SUBSET T /\ Others(s) \notin F
  BY <1>1, <1>2, <1>4, FirstIsIn
<1>6. f[Others(s)] = g[Others(s)]
  BY <1>5
<1> QED
  BY <1>3, <1>4, <1>6

\* There is a fold on the subsets of any finite set: from a smallest set that
\* has none, the folds of its proper subsets make one.
LEMMA FoldExists ==
  ASSUME NEW S, IsFiniteSet(S), NEW h, NEW base
  PROVE  \E g : Folds(g, h, base, S)
<1> DEFINE F == {T \in SUBSET S : ~\E g : Folds(g, h, base, T)}
<1> SUFFICES ASSUME F # {}
             PROVE  FALSE
  OBVIOUS
<1>1. PICK T \in F : \A V \in F : V \subseteq T => V = T
  <2>1. F \in SUBSET SUBSET S
    OBVIOUS
  <2> HIDE DEF F
  <2> QED
    BY <2>1, SmallestSubset
<1> DEFINE G(u) == CHOOSE g : Folds(g, h, base, u)
           Value(u) == G(u)[u]
           H == [u \in SUBSET T |-> IF u = {} THEN base
                                    ELSE h[<<First(u), Value(Others(u))>>]]
<1>2. \A u \in SUBSET T : u # T => Folds(G(u), h, base, u)
  <2> TAKE u \in SUBSET T
  <2> HAVE u # T
  <2>1. u \notin F /\ u \in SUBSET S
    BY <1>1
  <2>2. \E g : Folds(g, h, base, u)
    BY <2>1
  <2> QED
    BY <2>2, Zenon
<1>3. \A u \in SUBSET T : u # {} => H[Others(u)] = Value(Others(u))
  <2> TAKE u \in SUBSET T
  <2> HAVE u # {}
  <2> DEFINE v == Others(u)
  <2>1. v \in SUBSET T /\ v # T
    BY FirstIsIn
  <2>2. Folds(G(v), h, base, v)
    BY <1>2, <2>1
  <2>6. H[v] = IF v = {} THEN base ELSE h[<<First(v), Value(Others(v))>>]
    <3> HIDE DEF v, Value
    <3> QED
      BY <2>1, Zenon
  <2> HIDE DEF v, G, H
  <2>3. Value(v) = IF v = {} THEN base ELSE h[<<First(v), G(v)[Others(v)]>>]
    BY <2>2, FoldsAt
  <2>4. ASSUME v # {}
        PROVE  H[v] = Value(v)
    <3>1. Others(v) \in SUBSET v /\ Others(v) \in SUBSET T /\ Others(v) # T
      BY <2>1, <2>4, FirstIsIn
    <3>2. Folds(G(Others(v)), h, base, Others(v))
      BY <1>2, <3>1
    <3>3. IsFiniteSet(v)
      BY <2>1, <1>1, FS_Subset
    <3>4. G(v)[Others(v)] = G(Others(v))[Others(v)]
      BY <2>2, <3>1, <3>2, <3>3, FoldIsUnique
    <3> QED
      BY <2>3, <2>4, <2>6, <3>4
  <2>5. v = {} => H[v] = Value(v)
    BY <2>3, <2>6
  <2> QED
    BY <2>4, <2>5 DEF v
<1> HIDE DEF Value
<1>4. Folds(H, h, base, T)
  BY <1>3 DEF Folds
<1> HIDE DEF H
<1> QED
  BY <1>1, <1>4

-----------------------------------------------------------------------------
\* g is the sum, or the product, of f over the subsets of S, as a fold.
Unit(kind) == IF kind = "sum" THEN 0 ELSE 1
Combined(kind, a, b) == IF kind = "sum" THEN a + b ELSE a * b

Computes(g, kind, f, S) ==
  g = [s \in SUBSET S |-> IF s = {} THEN Unit(kind)
                          ELSE Combined(kind, f[First(s)], g[Others(s)])]
Table(kind, f, S) == [p \in S \X Int |-> Combined(kind, f[p[1]], p[2])]

\* What the table of an integer-valued function holds.
LEMMA TableAt ==
  ASSUME NEW S, NEW f, \A x \in S : f[x] \in Int, NEW kind,
         NEW x \in S, NEW n \in Int
  PROVE  /\ Table(kind, f, S)[<<x, n>>] = Combined(kind, f[x], n)
         /\ Combined(kind, f[x], n) \in Int /\ Unit(kind) \in Int
BY DEF Table, Combined, Unit

\* The recursion of a sum or product at one subset.
LEMMA ComputesAt ==
  ASSUME NEW g, NEW kind, NEW f, NEW S, Computes(g, kind, f, S), NEW s \in SUBSET S
  PROVE  g[s] = IF s = {} THEN Unit(kind)
                ELSE Combined(kind, f[First(s)], g[Others(s)])
BY Zenon DEF Computes

\* The sum or product of integers is an integer, on every subset.
LEMMA ComputesInt ==
  ASSUME NEW S, IsFiniteSet(S), NEW f, \A x \in S : f[x] \in Int, NEW kind,
         NEW g,
         Computes(g, kind, f, S) \/ Folds(g, Table(kind, f, S), Unit(kind), S)
  PROVE  \A s \in SUBSET S : g[s] \in Int
<1> DEFINE F == {s \in SUBSET S : g[s] \notin Int}
<1> SUFFICES ASSUME F # {}
             PROVE  FALSE
  OBVIOUS
<1>1. PICK s \in F : \A V \in F : V \subseteq s => V = s
  <2>1. F \in SUBSET SUBSET S
    OBVIOUS
  <2> HIDE DEF F
  <2> QED
    BY <2>1, SmallestSubset
<1>2. g[s] = IF s = {} THEN Unit(kind)
             ELSE IF Computes(g, kind, f, S)
                    THEN Combined(kind, f[First(s)], g[Others(s)])
                  ELSE Table(kind, f, S)[<<First(s), g[Others(s)]>>]
  BY <1>1, ComputesAt, FoldsAt
<1>3. s # {} /\ s \in SUBSET S
  BY <1>1, <1>2 DEF Unit
<1>4. Others(s) \in SUBSET S /\ Others(s) \notin F /\ First(s) \in S
  BY <1>1, <1>3, FirstIsIn
<1>5. g[Others(s)] \in Int
  BY <1>4
<1>6. g[s] \notin Int
  BY <1>1
<1> HIDE DEF F
<1>7. /\ Table(kind, f, S)[<<First(s), g[Others(s)]>>]
           = Combined(kind, f[First(s)], g[Others(s)])
      /\ Combined(kind, f[First(s)], g[Others(s)]) \in Int
  <2> DEFINE x == First(s)
             n == g[Others(s)]
  <2>1. x \in S /\ n \in Int
    BY <1>4, <1>5
  <2> HIDE DEF x, n
  <2>2. /\ Table(kind, f, S)[<<x, n>>] = Combined(kind, f[x], n)
        /\ Combined(kind, f[x], n) \in Int
    BY <2>1, TableAt
  <2> QED
    BY <2>2 DEF x, n
<1> QED
  BY <1>2, <1>3, <1>6, <1>7

\* Where the values are integers the two ways to write the fold agree.
LEMMA SameBody ==
  ASSUME NEW S, NEW f, \A x \in S : f[x] \in Int, NEW kind, NEW T \in SUBSET S,
         NEW g, \A s \in SUBSET T : g[s] \in Int
  PROVE  Computes(g, kind, f, T) <=> Folds(g, Table(kind, f, S), Unit(kind), T)
<1>1. ASSUME NEW s \in SUBSET T, s # {}
      PROVE  Combined(kind, f[First(s)], g[Others(s)])
             = Table(kind, f, S)[<<First(s), g[Others(s)]>>]
  <2> DEFINE x == First(s)
             n == g[Others(s)]
  <2>1. x \in S /\ n \in Int
    BY <1>1, FirstIsIn
  <2> HIDE DEF x, n
  <2>2. Table(kind, f, S)[<<x, n>>] = Combined(kind, f[x], n)
    BY <2>1, TableAt
  <2> QED
    BY <2>2 DEF x, n
<1>2. [s \in SUBSET T |-> IF s = {} THEN Unit(kind)
                          ELSE Combined(kind, f[First(s)], g[Others(s)])]
      = [s \in SUBSET T |-> IF s = {} THEN Unit(kind)
                            ELSE Table(kind, f, S)[<<First(s), g[Others(s)]>>]]
  BY <1>1
<1> QED
  BY <1>2, Zenon DEF Computes, Folds

\* There is a function that computes the sums, or products, of all subsets.
LEMMA ComputesExists ==
  ASSUME NEW S, IsFiniteSet(S), NEW f, \A x \in S : f[x] \in Int, NEW kind
  PROVE  \E g : Computes(g, kind, f, S)
<1>1. PICK g : Folds(g, Table(kind, f, S), Unit(kind), S)
  BY FoldExists
<1>2. \A s \in SUBSET S : g[s] \in Int
  BY <1>1, ComputesInt
<1> QED
  BY <1>1, <1>2, SameBody

\* Whatever subset it is computed for, a sum or product is the same.
LEMMA ComputesIsUnique ==
  ASSUME NEW S, IsFiniteSet(S), NEW f, \A x \in S : f[x] \in Int, NEW kind,
         NEW g, Computes(g, kind, f, S),
         NEW T \in SUBSET S, NEW k, Computes(k, kind, f, T)
  PROVE  g[T] = k[T]
<1>1. IsFiniteSet(T)
  BY FS_Subset
<1>2. (\A s \in SUBSET S : g[s] \in Int) /\ (\A s \in SUBSET T : k[s] \in Int)
  BY <1>1, ComputesInt
<1>3. /\ Folds(g, Table(kind, f, S), Unit(kind), S)
      /\ Folds(k, Table(kind, f, S), Unit(kind), T)
  BY <1>2, SameBody
<1> QED
  BY <1>3, FoldIsUnique

\* A way to choose what Computes asks for obeys the recursion.
LEMMA FoldStep ==
  ASSUME NEW S, IsFiniteSet(S), NEW f, \A x \in S : f[x] \in Int, NEW kind,
         NEW k, \A T \in SUBSET S : Computes(k[T], kind, f, T)
  PROVE  /\ k[S][S] \in Int
         /\ k[S][S] = IF S = {} THEN Unit(kind)
                      ELSE Combined(kind, f[First(S)], k[Others(S)][Others(S)])
<1>1. Computes(k[S], kind, f, S)
  OBVIOUS
<1>2. k[S][S] \in Int
  BY <1>1, ComputesInt
<1>3. ASSUME S # {}
      PROVE  k[S][Others(S)] = k[Others(S)][Others(S)]
  <2>1. Others(S) \in SUBSET S
    BY <1>3, FirstIsIn
  <2> QED
    BY <1>1, <2>1, ComputesIsUnique
<1> QED
  BY <1>1, <1>2, <1>3, ComputesAt

-----------------------------------------------------------------------------
\* g holds the sum of f over each subset of S.
Adds(g, f, S) ==
  g = [s \in SUBSET S |-> IF s = {} THEN 0 ELSE f[First(s)] + g[Others(s)]]

\* SumFunctionOnSet as the community modules define it.
LEMMA SumUnfold ==
  ASSUME NEW f, NEW S
  PROVE  SumFunctionOnSet(f, S) = (CHOOSE g : Adds(g, f, S))[S]
BY DEF SumFunctionOnSet, FoldFunctionOnSet, MapThenFoldSet, Adds, First, Others

\* Adds is Computes for the sum.
LEMMA AddsComputes ==
  ASSUME NEW f, NEW S, NEW g
  PROVE  Adds(g, f, S) <=> Computes(g, "sum", f, S)
BY DEF Adds, Computes, Unit, Combined

\* The recursion that SumFunctionOnSet obeys.
LEMMA SumStep ==
  ASSUME NEW S, IsFiniteSet(S), NEW f, \A x \in S : f[x] \in Int
  PROVE  /\ SumFunctionOnSet(f, S) \in Int
         /\ SumFunctionOnSet(f, S) =
              IF S = {} THEN 0
              ELSE f[First(S)] + SumFunctionOnSet(f, Others(S))
<1> DEFINE k == [T \in SUBSET S |-> CHOOSE g : Adds(g, f, T)]
<1>1. ASSUME NEW T \in SUBSET S
      PROVE  Computes(k[T], "sum", f, T)
  <2>1. \E g : Adds(g, f, T)
    BY FS_Subset, ComputesExists, AddsComputes
  <2>2. Adds(k[T], f, T)
    BY <2>1, Zenon
  <2> HIDE DEF k
  <2> QED
    BY <2>2, AddsComputes
<1>2. \A T \in SUBSET S : k[T][T] = SumFunctionOnSet(f, T)
  BY SumUnfold
<1> HIDE DEF k
<1>3. /\ k[S][S] \in Int
      /\ k[S][S] = IF S = {} THEN Unit("sum")
                   ELSE Combined("sum", f[First(S)], k[Others(S)][Others(S)])
  BY <1>1, FoldStep
<1>4. /\ k[S][S] \in Int
      /\ k[S][S] = IF S = {} THEN 0 ELSE f[First(S)] + k[Others(S)][Others(S)]
  BY <1>3 DEF Unit, Combined
<1> QED
  BY <1>2, <1>4, FirstIsIn

-----------------------------------------------------------------------------
\* g holds the product of f over each subset of S.
Multiplies(g, f, S) ==
  g = [s \in SUBSET S |-> IF s = {} THEN 1 ELSE f[First(s)] * g[Others(s)]]

\* Product as Policies defines it.
LEMMA ProductUnfold ==
  ASSUME NEW f, NEW S
  PROVE  Product(f, S) = (CHOOSE g : Multiplies(g, f, S))[S]
BY DEF Product, FoldFunctionOnSet, MapThenFoldSet, Multiplies, First, Others

\* Multiplies is Computes for the product.
LEMMA MultipliesComputes ==
  ASSUME NEW f, NEW S, NEW g
  PROVE  Multiplies(g, f, S) <=> Computes(g, "product", f, S)
BY DEF Multiplies, Computes, Unit, Combined

\* The recursion that Product obeys.
LEMMA ProductStep ==
  ASSUME NEW S, IsFiniteSet(S), NEW f, \A x \in S : f[x] \in Int
  PROVE  /\ Product(f, S) \in Int
         /\ Product(f, S) = IF S = {} THEN 1 ELSE f[First(S)] * Product(f, Others(S))
<1> DEFINE k == [T \in SUBSET S |-> CHOOSE g : Multiplies(g, f, T)]
<1>1. ASSUME NEW T \in SUBSET S
      PROVE  Computes(k[T], "product", f, T)
  <2>1. \E g : Multiplies(g, f, T)
    BY FS_Subset, ComputesExists, MultipliesComputes
  <2>2. Multiplies(k[T], f, T)
    BY <2>1, Zenon
  <2> HIDE DEF k
  <2> QED
    BY <2>2, MultipliesComputes
<1>2. \A T \in SUBSET S : k[T][T] = Product(f, T)
  BY ProductUnfold
<1> HIDE DEF k
<1>3. /\ k[S][S] \in Int
      /\ k[S][S] = IF S = {} THEN Unit("product")
                   ELSE Combined("product", f[First(S)], k[Others(S)][Others(S)])
  BY <1>1, FoldStep
<1>4. /\ k[S][S] \in Int
      /\ k[S][S] = IF S = {} THEN 1 ELSE f[First(S)] * k[Others(S)][Others(S)]
  BY <1>3 DEF Unit, Combined
<1> QED
  BY <1>2, <1>4, FirstIsIn

-----------------------------------------------------------------------------
\* r is the fold of each subset of S; any element may be taken out first.
Recurs(r, kind, f, S) ==
  \A T \in SUBSET S :
    /\ r[T] \in Int
    /\ T # {} => r[T] = Combined(kind, f[First(T)], r[Others(T)])
Commutes(r, kind, f, S) ==
  \A x \in S : r[S] = Combined(kind, f[x], r[S \ {x}])

\* A fold is the same whichever element is taken out first.
LEMMA FoldRemove ==
  ASSUME NEW S, IsFiniteSet(S), NEW f, \A x \in S : f[x] \in Int, NEW kind,
         NEW r, Recurs(r, kind, f, S)
  PROVE  Commutes(r, kind, f, S)
<1> USE DEF Recurs, Commutes
<1> DEFINE F == {s \in SUBSET S :
                   \E x \in s : r[s] # Combined(kind, f[x], r[s \ {x}])}
<1> SUFFICES ASSUME F # {}
             PROVE  FALSE
  OBVIOUS
<1>1. PICK s \in F : \A V \in F : V \subseteq s => V = s
  <2>1. F \in SUBSET SUBSET S
    OBVIOUS
  <2> HIDE DEF F
  <2> QED
    BY <2>1, SmallestSubset
<1>2. PICK x \in s : r[s] # Combined(kind, f[x], r[s \ {x}])
  OBVIOUS
<1> DEFINE a == First(s)
           u == s \ {a}
           v == s \ {x}
           w == u \ {x}
<1>3. s \in SUBSET S /\ a \in s /\ r[s] = Combined(kind, f[a], r[u])
  BY FirstIsIn DEF Others
<1>4. r[s] # Combined(kind, f[x], r[v])
  BY <1>2
<1>5. a # x
  BY <1>3, <1>4
<1>6. u \in SUBSET S /\ u \notin F /\ x \in u /\ v \in SUBSET S /\ v \notin F /\ a \in v
  BY <1>1, <1>3, <1>5
<1>7. w = v \ {a} /\ w \in SUBSET S
  BY <1>3
<1>8. r[u] = Combined(kind, f[x], r[w]) /\ r[v] = Combined(kind, f[a], r[w])
  BY <1>6, <1>7
<1>9. /\ r[u] \in Int /\ r[v] \in Int /\ r[w] \in Int
      /\ f[x] \in Int /\ f[a] \in Int
  BY <1>3, <1>6, <1>7
<1> HIDE DEF F, a, u, v, w
<1> QED
  BY <1>3, <1>4, <1>8, <1>9 DEF Combined

\* A sum is any of its terms and the sum of the others.
LEMMA SumRemove ==
  ASSUME NEW S, IsFiniteSet(S), NEW f, \A x \in S : f[x] \in Int
  PROVE  \A x \in S :
           SumFunctionOnSet(f, S) = f[x] + SumFunctionOnSet(f, S \ {x})
<1> DEFINE r == [T \in SUBSET S |-> SumFunctionOnSet(f, T)]
<1>1. ASSUME NEW T \in SUBSET S
      PROVE  /\ r[T] \in Int
             /\ T # {} => r[T] = Combined("sum", f[First(T)], r[Others(T)])
  <2>1. IsFiniteSet(T) /\ (T # {} => Others(T) \in SUBSET S)
    BY FS_Subset, FirstIsIn
  <2> QED
    BY <2>1, SumStep DEF Combined
<1> HIDE DEF r
<1>2. Recurs(r, "sum", f, S)
  BY <1>1 DEF Recurs
<1>3. Commutes(r, "sum", f, S)
  BY <1>2, FoldRemove
<1> QED
  BY <1>3 DEF r, Combined, Commutes

\* A product is any of its factors times the product of the others.
LEMMA ProductRemove ==
  ASSUME NEW S, IsFiniteSet(S), NEW f, \A x \in S : f[x] \in Int
  PROVE  \A x \in S : Product(f, S) = f[x] * Product(f, S \ {x})
<1> DEFINE r == [T \in SUBSET S |-> Product(f, T)]
<1>1. ASSUME NEW T \in SUBSET S
      PROVE  /\ r[T] \in Int
             /\ T # {} => r[T] = Combined("product", f[First(T)], r[Others(T)])
  <2>1. IsFiniteSet(T) /\ (T # {} => Others(T) \in SUBSET S)
    BY FS_Subset, FirstIsIn
  <2> QED
    BY <2>1, ProductStep DEF Combined
<1> HIDE DEF r
<1>2. Recurs(r, "product", f, S)
  BY <1>1 DEF Recurs
<1>3. Commutes(r, "product", f, S)
  BY <1>2, FoldRemove
<1> QED
  BY <1>3 DEF r, Combined, Commutes

\* A product of positive numbers is positive.
LEMMA ProductPositive ==
  ASSUME NEW S, IsFiniteSet(S), NEW f, \A x \in S : f[x] \in Nat \ {0}
  PROVE  Product(f, S) \in Nat \ {0}
<1> DEFINE P == [s \in SUBSET S |-> Product(f, s)]
           F == {s \in SUBSET S : P[s] \notin Nat \ {0}}
<1>0. \A s \in SUBSET S :
        /\ s = {} => P[s] = 1
        /\ s # {} => P[s] = f[First(s)] * P[Others(s)]
  <2> TAKE s \in SUBSET S
  <2>1. IsFiniteSet(s) /\ \A x \in s : f[x] \in Int
    BY FS_Subset
  <2> QED
    BY <2>1, ProductStep, FirstIsIn
<1> HIDE DEF P
<1> SUFFICES ASSUME F # {}
             PROVE  FALSE
  BY DEF P
<1>1. PICK s \in F : \A V \in F : V \subseteq s => V = s
  <2>1. F \in SUBSET SUBSET S
    OBVIOUS
  <2> HIDE DEF F
  <2> QED
    BY <2>1, SmallestSubset
<1>6. s \in SUBSET S /\ P[s] \notin Nat \ {0}
  BY <1>1
<1>2. s # {} /\ s \in SUBSET S
  <2> HIDE DEF F
  <2> QED
    BY <1>0, <1>6
<1>3. Others(s) \in SUBSET S /\ Others(s) \notin F /\ First(s) \in S
  BY <1>1, <1>2, FirstIsIn
<1>4. P[Others(s)] \in Nat \ {0} /\ f[First(s)] \in Nat \ {0}
  BY <1>3
<1>5. P[s] = f[First(s)] * P[Others(s)] /\ P[s] \notin Nat \ {0}
  BY <1>0, <1>1, <1>2
<1> HIDE DEF F
<1> QED
  BY <1>4, <1>5

\* What holds of each term, multiplied, holds of the sum.
LEMMA SumScaled ==
  ASSUME NEW S, IsFiniteSet(S), NEW c \in Int, NEW d \in Int,
         NEW f, \A x \in S : f[x] \in Int,
         NEW g, \A x \in S : g[x] \in Int,
         \A x \in S : c * f[x] <= d * g[x]
  PROVE  c * SumFunctionOnSet(f, S) <= d * SumFunctionOnSet(g, S)
<1> DEFINE A(s) == SumFunctionOnSet(f, s)
           B(s) == SumFunctionOnSet(g, s)
           F == {s \in SUBSET S : ~(c * A(s) <= d * B(s))}
<1>0. \A s \in SUBSET S :
        /\ A(s) \in Int /\ B(s) \in Int
        /\ s = {} => A(s) = 0 /\ B(s) = 0
        /\ s # {} => /\ A(s) = f[First(s)] + A(Others(s))
                     /\ B(s) = g[First(s)] + B(Others(s))
  <2> TAKE s \in SUBSET S
  <2>1. IsFiniteSet(s)
    BY FS_Subset
  <2> QED
    BY <2>1, SumStep
<1> HIDE DEF A, B
<1> SUFFICES ASSUME F # {}
             PROVE  FALSE
  BY DEF A, B
<1>1. PICK s \in F : \A V \in F : V \subseteq s => V = s
  <2>1. F \in SUBSET SUBSET S
    OBVIOUS
  <2> HIDE DEF F
  <2> QED
    BY <2>1, SmallestSubset
<1>2. s # {} /\ s \in SUBSET S
  BY <1>0
<1> DEFINE a == First(s)
           u == Others(s)
<1>3. a \in S /\ u \in SUBSET S /\ u \notin F
  BY <1>1, <1>2, FirstIsIn
<1>4. A(s) = f[a] + A(u) /\ B(s) = g[a] + B(u) /\ A(u) \in Int /\ B(u) \in Int
  BY <1>0, <1>2, <1>3
<1>5. c * A(u) <= d * B(u) /\ c * f[a] <= d * g[a] /\ f[a] \in Int /\ g[a] \in Int
  BY <1>3
<1>6. ~(c * A(s) <= d * B(s))
  BY <1>1
<1> HIDE DEF F, a, u
<1>7. c * (f[a] + A(u)) = c * f[a] + c * A(u) /\ d * (g[a] + B(u)) = d * g[a] + d * B(u)
  BY <1>4, <1>5
<1> QED
  BY <1>4, <1>5, <1>6, <1>7

\* Equal terms have equal sums.
LEMMA SumSame ==
  ASSUME NEW S, IsFiniteSet(S), NEW f, \A x \in S : f[x] \in Int,
         NEW g, \A x \in S : g[x] = f[x]
  PROVE  SumFunctionOnSet(f, S) = SumFunctionOnSet(g, S)
<1>1. /\ 1 * SumFunctionOnSet(f, S) <= 1 * SumFunctionOnSet(g, S)
      /\ 1 * SumFunctionOnSet(g, S) <= 1 * SumFunctionOnSet(f, S)
  <2>1. \A x \in S : 1 * f[x] <= 1 * g[x] /\ 1 * g[x] <= 1 * f[x] /\ g[x] \in Int
    OBVIOUS
  <2> QED
    BY <2>1, SumScaled
<1>2. SumFunctionOnSet(f, S) \in Int /\ SumFunctionOnSet(g, S) \in Int
  BY SumStep
<1> QED
  BY <1>1, <1>2

\* A sum of natural numbers is one, and no smaller than any of its terms.
LEMMA SumNat ==
  ASSUME NEW S, IsFiniteSet(S), NEW f, \A x \in S : f[x] \in Nat
  PROVE  /\ SumFunctionOnSet(f, S) \in Nat
         /\ \A x \in S : f[x] <= SumFunctionOnSet(f, S)
<1>1. ASSUME NEW T, IsFiniteSet(T), T \subseteq S
      PROVE  SumFunctionOnSet(f, T) \in Nat
  <2>1. SumFunctionOnSet(f, T) \in Int
    BY <1>1, SumStep
  <2>2. 0 * SumFunctionOnSet(f, T) <= 1 * SumFunctionOnSet(f, T)
    <3>1. \A x \in T : f[x] \in Int /\ 0 * f[x] <= 1 * f[x]
      BY <1>1
    <3> QED
      BY <1>1, <3>1, SumScaled
  <2> QED
    BY <2>1, <2>2
<1>2. ASSUME NEW x \in S
      PROVE  f[x] <= SumFunctionOnSet(f, S)
  <2>1. SumFunctionOnSet(f, S \ {x}) \in Nat
    BY <1>1, FS_Subset
  <2>2. SumFunctionOnSet(f, S) = f[x] + SumFunctionOnSet(f, S \ {x})
    BY SumRemove
  <2> QED
    BY <2>1, <2>2
<1> QED
  BY <1>1, <1>2

\* A sum of ones counts the set.
LEMMA SumOnes ==
  ASSUME NEW S, IsFiniteSet(S), NEW f, \A x \in S : f[x] = 1
  PROVE  SumFunctionOnSet(f, S) = Cardinality(S)
<1> DEFINE A(s) == SumFunctionOnSet(f, s)
           F == {s \in SUBSET S : A(s) # Cardinality(s)}
<1>0. \A s \in SUBSET S :
        /\ s = {} => A(s) = 0 /\ Cardinality(s) = 0
        /\ s # {} => /\ A(s) = 1 + A(Others(s))
                     /\ Cardinality(s) = 1 + Cardinality(Others(s))
  <2> TAKE s \in SUBSET S
  <2>1. IsFiniteSet(s) /\ \A x \in s : f[x] \in Int
    BY FS_Subset
  <2>2. s = {} => A(s) = 0 /\ Cardinality(s) = 0
    BY <2>1, SumStep, FS_EmptySet
  <2>3. ASSUME s # {}
        PROVE  /\ A(s) = 1 + A(Others(s))
               /\ Cardinality(s) = 1 + Cardinality(Others(s))
    <3>1. First(s) \in s
      BY <2>3, FirstIsIn
    <3>2. Cardinality(s) \in Nat /\ Cardinality(s \ {First(s)}) = Cardinality(s) - 1
      BY <2>1, <3>1, FS_RemoveElement, FS_CardinalityType
    <3>3. A(s) = f[First(s)] + A(Others(s)) /\ f[First(s)] = 1
      BY <2>1, <2>3, <3>1, SumStep
    <3> QED
      BY <3>2, <3>3 DEF Others
  <2> QED
    BY <2>2, <2>3
<1> HIDE DEF A
<1> SUFFICES ASSUME F # {}
             PROVE  FALSE
  BY DEF A
<1>1. PICK s \in F : \A V \in F : V \subseteq s => V = s
  <2>1. F \in SUBSET SUBSET S
    OBVIOUS
  <2> HIDE DEF F
  <2> QED
    BY <2>1, SmallestSubset
<1>2. s # {} /\ s \in SUBSET S
  BY <1>0
<1>3. Others(s) \in SUBSET S /\ Others(s) \notin F
  BY <1>1, <1>2, FirstIsIn
<1> QED
  BY <1>0, <1>2, <1>3

\* A finite set of integers, if not empty, has a largest and a smallest element.
LEMMA LargestOf ==
  ASSUME NEW S, IsFiniteSet(S), S # {}, \A x \in S : x \in Int
  PROVE  /\ Max(S) \in S /\ \A y \in S : y <= Max(S)
         /\ Min(S) \in S /\ \A y \in S : Min(S) <= y
<1> DEFINE P(s) == /\ \E x \in s : \A y \in s : x >= y
                   /\ \E x \in s : \A y \in s : x <= y
           F == {s \in SUBSET S : s # {} /\ ~P(s)}
<1>1. P(S)
  <2> SUFFICES ASSUME F # {}
               PROVE  FALSE
    OBVIOUS
  <2>1. PICK s \in F : \A V \in F : V \subseteq s => V = s
    <3>1. F \in SUBSET SUBSET S
      OBVIOUS
    <3> HIDE DEF F, P
    <3> QED
      BY <3>1, SmallestSubset
  <2> DEFINE a == First(s)
             u == Others(s)
  <2>2. a \in s /\ u \subseteq s /\ u # s /\ s = u \cup {a} /\ a \in Int /\ s \subseteq Int
    <3>1. s \in SUBSET S /\ s # {}
      OBVIOUS
    <3>2. a \in s
      BY <3>1, FirstIsIn
    <3> HIDE DEF F, P, a
    <3>3. u = s \ {a}
      BY DEF Others, a
    <3> HIDE DEF u
    <3> QED
      BY <3>1, <3>2, <3>3
  <2>3. u = {} \/ P(u)
    BY <2>1, <2>2
  <2>4. ~P(s)
    BY <2>1
  <2> HIDE DEF a, u, F
  <2>5. CASE u = {}
    BY <2>2, <2>4, <2>5
  <2>6. CASE P(u)
    <3>1. PICK x \in u : \A y \in u : x >= y
      BY <2>6
    <3>2. PICK z \in u : \A y \in u : z <= y
      BY <2>6
    <3>3. \E b \in s : \A y \in s : b >= y
      <4>1. CASE x >= a
        BY <2>2, <3>1, <4>1
      <4>2. CASE ~(x >= a)
        <5>1. \A y \in s : a >= y
          BY <2>2, <3>1, <4>2
        <5> QED
          BY <2>2, <5>1
      <4> QED
        BY <4>1, <4>2
    <3>4. \E b \in s : \A y \in s : b <= y
      <4>1. CASE z <= a
        BY <2>2, <3>2, <4>1
      <4>2. CASE ~(z <= a)
        <5>1. \A y \in s : a <= y
          BY <2>2, <3>2, <4>2
        <5> QED
          BY <2>2, <5>1
      <4> QED
        BY <4>1, <4>2
    <3> QED
      BY <2>4, <3>3, <3>4
  <2> QED
    BY <2>3, <2>5, <2>6
<1>2. Max(S) \in S /\ \A y \in S : Max(S) >= y
  <2>1. \E x \in S : \A y \in S : x >= y
    BY <1>1
  <2> QED
    BY <2>1, Zenon DEF Max
<1>3. Min(S) \in S /\ \A y \in S : Min(S) <= y
  <2>1. \E x \in S : \A y \in S : x <= y
    BY <1>1
  <2> QED
    BY <2>1, Zenon DEF Min
<1> QED
  BY <1>2, <1>3

\* The larger and the smaller of two integers.
LEMMA LargerOfTwo ==
  ASSUME NEW a \in Int, NEW b \in Int
  PROVE  /\ Max({a, b}) = IF a >= b THEN a ELSE b
         /\ Min({a, b}) = IF a <= b THEN a ELSE b
<1>1. IsFiniteSet({a, b})
  <2>1. IsFiniteSet({a}) /\ {a, b} = {a} \cup {b}
    BY FS_Singleton
  <2> QED
    BY <2>1, FS_AddElement
<1> QED
  BY <1>1, LargestOf

\* The values of a function on a finite set are finitely many.
LEMMA FiniteImage ==
  ASSUME NEW S, IsFiniteSet(S), NEW f
  PROVE  IsFiniteSet({f[x] : x \in S})
<1> DEFINE T == {f[x] : x \in S}
           g == [x \in S |-> f[x]]
<1>1. g \in Surjection(S, T)
  BY DEF Surjection
<1> HIDE DEF T, g
<1>2. IsFiniteSet(T)
  BY <1>1, FS_Surjection
<1> QED
  BY <1>2 DEF T

\* Terms that are zero do not count.
LEMMA SumWithoutZeros ==
  ASSUME NEW S, IsFiniteSet(S), NEW T \in SUBSET S,
         NEW f, \A x \in S : f[x] \in Int, \A x \in S \ T : f[x] = 0
  PROVE  SumFunctionOnSet(f, S) = SumFunctionOnSet(f, T)
<1> DEFINE A == [s \in SUBSET S |-> SumFunctionOnSet(f, s)]
           F == {s \in SUBSET S : T \subseteq s /\ A[s] # A[T]}
<1>1. ASSUME NEW s \in SUBSET S, NEW x \in s
      PROVE  A[s] = f[x] + A[s \ {x}] /\ A[s \ {x}] \in Int
  <2>1. IsFiniteSet(s) /\ IsFiniteSet(s \ {x})
    BY FS_Subset
  <2> QED
    BY <2>1, SumRemove, SumStep
<1> HIDE DEF A
<1> SUFFICES ASSUME F # {}
             PROVE  FALSE
  BY DEF A
<1>2. PICK s \in F : \A V \in F : V \subseteq s => V = s
  <2>1. F \in SUBSET SUBSET S
    OBVIOUS
  <2> HIDE DEF F
  <2> QED
    BY <2>1, SmallestSubset
<1>3. PICK x \in s : x \notin T
  OBVIOUS
<1>4. /\ s \in SUBSET S /\ s \ {x} \in SUBSET S /\ T \subseteq s \ {x}
      /\ s \ {x} \notin F /\ x \in s /\ f[x] = 0
  BY <1>2, <1>3
<1>5. A[s \ {x}] = A[T] /\ A[s] # A[T]
  BY <1>4
<1>6. A[s] = f[x] + A[s \ {x}] /\ A[s \ {x}] \in Int
  BY <1>1, <1>4
<1> HIDE DEF F
<1> QED
  BY <1>4, <1>5, <1>6
==============================================================================
