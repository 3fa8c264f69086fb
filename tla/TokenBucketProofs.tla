-------------------------- MODULE TokenBucketProofs --------------------------
(***************************************************************************)
(* Theorems about token_bucket_copy, for files, chunks and rates of every  *)
(* size, and about what becomes of the progress items of a copy, for every *)
(* length of the buffer.                                                   *)
(***************************************************************************)
EXTENDS CopyProgress, TLAPS

LEMMA RefillTyping ==
  ASSUME TypeOK, NEW r \in Nat, NEW e \in Nat
  PROVE  /\ Refill(r, e) \in Nat
         /\ Refill(r, e) <= Capacity(r)
         /\ Refill(r, e) <= tokens + e * r
<1>1. e * r \in Nat
  OBVIOUS
<1>2. Capacity(r) \in Nat
  BY SizeAssumption DEF Capacity, Larger
<1> QED
  BY <1>1, <1>2 DEF Refill, Smaller, TypeOK

ReportOK == /\ sinceReport \in 0..Interval
            /\ reported \in {NoReport} \cup 0..FileSize

LEMMA ReportTyping ==
  ASSUME NEW since \in Nat, NEW force \in BOOLEAN, NEW done \in 0..FileSize,
         Report(since, force, done), TypeOK
  PROVE  ReportOK'
BY SizeAssumption, TimeAssumption DEF Report, Due, Smaller, TypeOK, ReportOK

LEMMA ObserveTyping ==
  ASSUME TypeOK, NEW r \in Nat, NEW e \in Nat, Observe(r, e)
  PROVE  window' \in Window
<1>1. Capacity(r) \in Nat
  BY SizeAssumption DEF Capacity, Larger
<1>2. CASE window' = WindowFrom(IF r = 0 THEN 0 ELSE Capacity(r), r)
  BY <1>1, <1>2, TimeAssumption DEF WindowFrom, Window
<1>3. CASE window' = [window EXCEPT !.span = Smaller(@ + e, Horizon),
                                    !.peak = Larger(@, r)]
  <2>1. Smaller(window.span + e, Horizon) \in 0..Horizon
    BY TimeAssumption DEF Smaller, TypeOK, Window
  <2>2. Larger(window.peak, r) \in Nat
    BY DEF Larger, TypeOK, Window
  <2> QED
    BY <1>3, <2>1, <2>2 DEF TypeOK, Window
<1> QED
  BY <1>2, <1>3 DEF Observe

LEMMA Ticks == ASSUME TypeOK, NEW e \in Elapsed PROVE e \in Nat
  BY TimeAssumption DEF Elapsed

\* Counts, clock readings and program counter keep their types; the bucket
\* never holds more than its capacity at the rate last read.
THEOREM Typing == Spec => []TypeOK
<1> USE SizeAssumption, TimeAssumption
<1>1. Init => TypeOK
  <2> SUFFICES ASSUME Init
               PROVE  TypeOK
    OBVIOUS
  <2>1. window \in Window
    BY DEF Init, WindowFrom, Window
  <2>2. slept \in BOOLEAN
    BY DEF Init
  <2>3. tokens <= Capacity(rate)
    BY DEF Init, Capacity, Larger
  <2> QED
    BY <2>1, <2>2, <2>3 DEF Init, TypeOK, NoReport
<1>2. TypeOK /\ [Next]_vars => TypeOK'
  <2> SUFFICES ASSUME TypeOK, [Next]_vars
               PROVE  TypeOK'
    OBVIOUS
  <2>1. ASSUME NEW e \in Elapsed, Pause(e)
        PROVE  TypeOK'
    <3>1. sinceReport + e \in Nat
      BY Ticks DEF TypeOK
    <3>2. window' \in Window
      BY <2>1, Ticks, ObserveTyping DEF Pause
    <3>3. ReportOK'
      BY <2>1, <3>1, ReportTyping DEF Pause, TypeOK
    <3> QED
      BY <2>1, <3>2, <3>3 DEF Pause, Paused, TypeOK, ReportOK, Capacity, Larger
  <2>2. ASSUME NEW e \in Elapsed, NEW r \in Rates, Wait(e, r) \/ Pass(e, r)
        PROVE  TypeOK'
    <3>1. sinceReport + e \in Nat /\ e \in Nat /\ r \in Nat
      BY Ticks DEF TypeOK
    <3>2. window' \in Window
      BY <2>2, <3>1, ObserveTyping DEF Wait, Pass
    <3>3. tokens' = Refill(r, e) /\ rate' = r
      BY <2>2 DEF Wait, Pass
    <3>4. tokens' \in Nat /\ tokens' <= Capacity(rate')
      BY <3>1, <3>3, RefillTyping
    <3>5. ReportOK'
      <4>1. CASE Wait(e, r)
        BY <3>1, <4>1, ReportTyping DEF Wait, TypeOK
      <4>2. CASE Pass(e, r)
        BY <3>1, <4>2 DEF Pass, Smaller, TypeOK, ReportOK
      <4> QED
        BY <2>2, <4>1, <4>2
    <3>6. slept' \in BOOLEAN
      BY <2>2 DEF Wait, Pass
    <3>7. pc' \in {"loop", "read"} /\ (pc' = "read" => tokens' >= ChunkSize)
      BY <2>2, <3>3 DEF Wait, Pass
    <3> QED
      <4>1. UNCHANGED copied /\ rate' \in Nat
        BY <2>2, <3>1 DEF Wait, Pass
      <4> QED
        BY <3>2, <3>4, <3>5, <3>6, <3>7, <4>1 DEF TypeOK, ReportOK, Capacity
  <2>3. CASE Write
    <3>1. /\ Length \in Nat /\ Length <= ChunkSize
          /\ copied + Length \in 0..FileSize
      BY <2>3 DEF Write, Length, Smaller, TypeOK
    <3>2. ReportOK'
      <4>1. sinceReport \in Nat
        BY DEF TypeOK
      <4>2. Report(sinceReport, FALSE, copied + Length)
        BY <2>3, Zenon DEF Write
      <4> QED
        BY <3>1, <4>1, <4>2, ReportTyping
    <3>3. window' \in Window
      BY <2>3, <3>1 DEF Write, TypeOK, Window
    <3>4. tokens' \in Nat /\ tokens' <= Capacity(rate)
      <4>1. Capacity(rate) \in Nat
        BY DEF TypeOK, Capacity, Larger
      <4> QED
        BY <2>3, <3>1, <4>1 DEF Write, TypeOK
    <3>5. /\ pc' = "loop" /\ slept' = slept /\ rate' = rate
          /\ copied' \in 0..FileSize
      BY <2>3, <3>1 DEF Write
    <3> QED
      BY <3>2, <3>3, <3>4, <3>5 DEF TypeOK, ReportOK, Capacity
  <2>4. CASE EndOfFile
    BY <2>4 DEF EndOfFile, TypeOK, Capacity
  <2>5. ASSUME NEW e \in 1..MaxElapsed, Sync(e)
        PROVE  TypeOK'
    <3>1. ReportOK'
      <4>1. sinceReport + e \in Nat /\ copied \in 0..FileSize
        BY DEF TypeOK
      <4>2. Report(sinceReport + e, TRUE, copied)
        BY <2>5, Zenon DEF Sync, Forced
      <4> QED
        BY <4>1, <4>2, ReportTyping
    <3> QED
      BY <2>5, <3>1 DEF Sync, TypeOK, ReportOK, Capacity
  <2>6. CASE UNCHANGED vars
    BY <2>6 DEF vars, TypeOK, Capacity
  <2> QED
    BY <2>1, <2>2, <2>3, <2>4, <2>5, <2>6 DEF Next, Step, Done
<1> QED
  BY <1>1, <1>2, PTL DEF Spec

-----------------------------------------------------------------------------
(* The tokens in the bucket are part of the window's allowance: what was    *)
(* written and what may be written at once stay within it together.         *)

Allowance == window.base + window.peak * window.span

BucketInv == window.span < Horizon => window.bytes + tokens <= Allowance

LEMMA Product ==
  ASSUME NEW p \in Nat, NEW q \in Nat, NEW r \in Nat, NEW s \in Nat,
         NEW e \in Nat, q >= p, q >= r
  PROVE  q * (s + e) >= p * s + e * r
<1>1. q * (s + e) = q * s + q * e
  OBVIOUS
<1>2. q * s >= p * s
  OBVIOUS
<1>3. q * e >= r * e
  OBVIOUS
<1>4. r * e = e * r
  OBVIOUS
<1>5. q * s \in Nat /\ q * e \in Nat /\ p * s \in Nat /\ e * r \in Nat
  OBVIOUS
<1> QED
  BY <1>1, <1>2, <1>3, <1>4, <1>5

\* A pass of the loop that adds at most e * r tokens, or starts a window with
\* at most a full bucket.
LEMMA PassKeepsBound ==
  ASSUME TypeOK, BucketInv, NEW r \in Nat, NEW e \in Nat, Observe(r, e),
         tokens' \in Nat, tokens' <= tokens + e * r,
         tokens' <= IF r = 0 THEN 0 ELSE Capacity(r)
  PROVE  BucketInv'
<1> USE TimeAssumption
<1>0. Capacity(r) \in Nat
  BY SizeAssumption DEF Capacity, Larger
<1>1. CASE window' = WindowFrom(IF r = 0 THEN 0 ELSE Capacity(r), r)
  <2>1. window'.bytes = 0 /\ window'.span = 0
        /\ window'.base = IF r = 0 THEN 0 ELSE Capacity(r)
    BY <1>1 DEF WindowFrom
  <2>2. window'.peak * window'.span = 0
    BY <1>1 DEF WindowFrom
  <2> QED
    BY <1>0, <2>1, <2>2 DEF BucketInv, Allowance
<1>2. CASE window' = [window EXCEPT !.span = Smaller(@ + e, Horizon),
                                    !.peak = Larger(@, r)]
  <2> DEFINE p == window.peak
             q == Larger(p, r)
             s == window.span
  <2>0. /\ window.bytes \in Nat /\ window.base \in Nat
        /\ p \in Nat /\ q \in Nat /\ s \in Nat /\ q >= p /\ q >= r
    BY DEF TypeOK, Window, Larger
  <2>1. /\ window'.bytes = window.bytes /\ window'.base = window.base
        /\ window'.span = Smaller(s + e, Horizon) /\ window'.peak = q
    BY <1>2 DEF TypeOK, Window
  <2> SUFFICES ASSUME window'.span < Horizon
               PROVE  window'.bytes + tokens' <= Allowance'
    BY DEF BucketInv
  <2>2. window'.span = s + e /\ s < Horizon
    BY <2>0, <2>1 DEF Smaller
  <2>3. window.bytes + tokens <= window.base + p * s
    BY <2>2 DEF BucketInv, Allowance
  <2>4. q * (s + e) >= p * s + e * r
    BY <2>0, Product
  <2>5. Allowance' = window.base + q * (s + e)
    BY <2>1, <2>2 DEF Allowance
  <2>6. p * s \in Nat /\ e * r \in Nat /\ q * (s + e) \in Nat /\ tokens \in Nat
    BY <2>0 DEF TypeOK
  <2> HIDE DEF p, q, s
  <2> QED
    BY <2>0, <2>1, <2>3, <2>4, <2>5, <2>6
<1> QED
  BY <1>1, <1>2 DEF Observe

LEMMA BucketStep ==
  ASSUME TypeOK, BucketInv, [Next]_vars
  PROVE  BucketInv'
<1>1. ASSUME NEW e \in Elapsed, Pause(e)
      PROVE  BucketInv'
  <2>1. tokens' = 0 /\ Observe(0, e) /\ e \in Nat
    BY <1>1, Ticks DEF Pause, Paused
  <2>2. tokens' <= tokens + e * 0
    BY <2>1 DEF TypeOK
  <2> QED
    BY <2>1, <2>2, PassKeepsBound
<1>2. ASSUME NEW e \in Elapsed, NEW r \in Rates, Wait(e, r) \/ Pass(e, r)
      PROVE  BucketInv'
  <2>1. /\ tokens' = Refill(r, e) /\ Observe(r, e)
        /\ e \in Nat /\ r \in Nat /\ r > 0
    BY <1>2, Ticks, TimeAssumption DEF Wait, Pass
  <2> QED
    BY <2>1, RefillTyping, PassKeepsBound
<1>3. CASE Write
  <2>1. Length \in Nat /\ Length <= ChunkSize
    BY <1>3, SizeAssumption DEF Write, Length, Smaller, TypeOK
  <2>2. /\ window'.bytes = window.bytes + Length
        /\ window'.span = window.span /\ window'.base = window.base
        /\ window'.peak = window.peak
        /\ tokens' = tokens - Length
    BY <1>3 DEF Write, TypeOK, Window
  <2>3. Allowance' = Allowance
    BY <2>2 DEF Allowance
  <2>4. window'.bytes + tokens' = window.bytes + tokens
    BY <2>1, <2>2 DEF TypeOK, Window
  <2> QED
    BY <2>2, <2>3, <2>4 DEF BucketInv
<1>4. CASE EndOfFile
  BY <1>4 DEF EndOfFile, BucketInv, Allowance
<1>5. ASSUME NEW e \in 1..MaxElapsed, Sync(e)
      PROVE  BucketInv'
  BY <1>5 DEF Sync, BucketInv, Allowance
<1>6. CASE UNCHANGED vars
  BY <1>6 DEF vars, BucketInv, Allowance
<1> QED
  BY <1>1, <1>2, <1>3, <1>4, <1>5, <1>6 DEF Next, Step, Done

\* No sequence of rates, sleeps and pauses makes the copy exceed, in any window,
\* the bucket it starts with and the highest rate read in it.
THEOREM CopyIsBurstBounded == Spec => []BurstBounded
<1>1. Init => BucketInv
  BY TimeAssumption DEF Init, BucketInv, Allowance, WindowFrom
<1>2. TypeOK /\ BucketInv => BurstBounded
  <2> SUFFICES ASSUME TypeOK, BucketInv, window.span < Horizon
               PROVE  window.bytes <= window.base + window.peak * window.span
    BY DEF BurstBounded
  <2>1. window.bytes + tokens <= window.base + window.peak * window.span
    BY DEF BucketInv, Allowance
  <2>2. /\ window.bytes \in Nat /\ tokens \in Nat /\ window.base \in Nat
        /\ window.peak * window.span \in Nat
    BY DEF TypeOK, Window
  <2> QED
    BY <2>1, <2>2
<1> QED
  BY <1>1, <1>2, Typing, BucketStep, PTL DEF Spec

\* A copy leaves its loop at the end of the file only.
LastInv ==
  /\ pc \in {"sync", "done"} => copied = FileSize
  /\ LastItemIsZero

\* A copy that has ended has told the migrater that nothing remains, whatever
\* was throttled on the way (token_bucket.py 191-195).
THEOREM LastItemSaysZero == Spec => []LastItemIsZero
<1> USE SizeAssumption, TimeAssumption DEF LastInv, LastItemIsZero
<1>1. Init => LastInv
  BY DEF Init
<1>2. TypeOK /\ LastInv /\ [Next]_vars => LastInv'
  <2> SUFFICES ASSUME TypeOK, LastInv, [Next]_vars
               PROVE  LastInv'
    OBVIOUS
  <2>1. ASSUME NEW e \in 1..MaxElapsed, Sync(e)
        PROVE  LastInv'
    BY <2>1 DEF Sync, Forced, Report, Due, TypeOK
  <2>2. ASSUME NEW e \in Elapsed, NEW r \in Rates,
               Pause(e) \/ Wait(e, r) \/ Pass(e, r)
        PROVE  LastInv'
    BY <2>2 DEF Pause, Wait, Pass
  <2>3. ASSUME NEW e \in Elapsed, Pause(e)
        PROVE  LastInv'
    BY <2>3 DEF Pause
  <2>4. CASE Write \/ EndOfFile \/ UNCHANGED vars
    BY <2>4 DEF Write, EndOfFile, vars
  <2> QED
    BY <2>1, <2>2, <2>3, <2>4 DEF Next, Step, Done
<1>3. LastInv => LastItemIsZero
  OBVIOUS
<1> QED
  BY <1>1, <1>2, <1>3, Typing, PTL DEF Spec

-----------------------------------------------------------------------------
\* The buffer changes nothing of the copy: its theorems hold with it.
LEMMA CopySteps == PSpec => Spec
<1>1. PInit => Init
  BY DEF PInit
<1>2. [PNext]_pvars => [Next]_vars
  BY DEF PNext, PCopy, PPop, PApply, PDone, pvars, Next, Step
<1> QED
  BY <1>1, <1>2, PTL DEF PSpec, Spec

LEMMA CopyTyping == PSpec => []TypeOK
  BY CopySteps, Typing, PTL

-----------------------------------------------------------------------------
\* The deque after add(): its newest item is the one that was added.
LEMMA AddedItem ==
  ASSUME NEW S, NEW q \in Seq(S), Len(q) <= MaxLen, NEW x \in S
  PROVE  /\ Added(q, x) \in Seq(S)
         /\ Len(Added(q, x)) \in 1..MaxLen
         /\ Latest(Added(q, x)) = x
         /\ \A i \in 1..Len(Added(q, x)) :
              Added(q, x)[i] = x \/ \E j \in 1..Len(q) : Added(q, x)[i] = q[j]
<1>1. CASE Len(q) < MaxLen
  BY <1>1, MaxLenAssumption DEF Added, Latest
<1>2. CASE Len(q) >= MaxLen
  <2>1. /\ Len(q) = MaxLen /\ q # <<>>
        /\ Tail(q) \in Seq(S) /\ Len(Tail(q)) = MaxLen - 1
        /\ \A i \in 1..Len(Tail(q)) : Tail(q)[i] = q[i + 1]
    BY <1>2, MaxLenAssumption
  <2>2. Added(q, x) = Append(Tail(q), x)
    BY <1>2, MaxLenAssumption DEF Added
  <2> DEFINE t == Tail(q)
  <2> HIDE DEF t
  <2>3. /\ Append(t, x) \in Seq(S) /\ Len(Append(t, x)) = MaxLen
        /\ Append(t, x)[MaxLen] = x
        /\ \A i \in 1..(MaxLen - 1) : Append(t, x)[i] = t[i]
    BY <2>1, MaxLenAssumption DEF t
  <2>4. \A i \in 1..(MaxLen - 1) : i + 1 \in 1..Len(q) /\ t[i] = q[i + 1]
    BY <2>1, MaxLenAssumption DEF t
  <2> QED
    BY <2>2, <2>3, <2>4, MaxLenAssumption DEF Latest, t
<1>3. Len(q) \in Nat /\ MaxLen \in Nat
  BY MaxLenAssumption
<1> QED
  BY <1>1, <1>2, <1>3

\* The size of an item, and what is left after a longer copy.
LEMMA ItemSize ==
  ASSUME NEW d \in 0..FileSize
  PROVE  Item(d) = FileSize - d /\ FileSize - d \in 0..FileSize
BY SizeAssumption DEF Item, Larger

LEMMA LessIsLeft ==
  ASSUME NEW c \in 0..FileSize, NEW d \in 0..FileSize, c <= d
  PROVE  FileSize - d <= FileSize - c
BY SizeAssumption

\* Whether a pass of the loop reports, and what.
NoItem == UNCHANGED <<reported, items>>
NewItem == /\ reported' = FileSize - copied'
           /\ items' = Added(items, FileSize - copied')

LEMMA ReportedAndAdded ==
  ASSUME NEW since, NEW force, copied' \in 0..FileSize,
         Report(since, force, copied'), Add(since, force, copied')
  PROVE  NoItem \/ NewItem
<1>1. Item(copied') = FileSize - copied'
  BY ItemSize
<1>2. CASE Due(since, force)
  BY <1>1, <1>2 DEF Report, Add, NewItem
<1>3. CASE ~Due(since, force)
  BY <1>3 DEF Report, Add, NoItem
<1> QED
  BY <1>2, <1>3

LEMMA CopyEffect ==
  ASSUME TypeOK, PCopy
  PROVE  /\ copied' \in 0..FileSize /\ copied <= copied'
         /\ NoItem \/ NewItem
         /\ UNCHANGED <<popped, pendingSize>>
<1> USE SizeAssumption
<1>1. UNCHANGED <<popped, pendingSize>>
  BY DEF PCopy
<1>2. CASE \E e \in Elapsed : Pause(e) /\ Add(sinceReport + e, TRUE, copied)
  <2>1. PICK e \in Elapsed : Pause(e) /\ Add(sinceReport + e, TRUE, copied)
    BY <1>2
  <2>2. copied' = copied /\ copied \in 0..FileSize
    BY <2>1 DEF Pause, TypeOK
  <2>3. Report(sinceReport + e, TRUE, copied)
    BY <2>1, Zenon DEF Pause
  <2>4. NoItem \/ NewItem
    BY <2>1, <2>2, <2>3, ReportedAndAdded
  <2> QED
    BY <1>1, <2>2, <2>4
<1>3. CASE \E e \in Elapsed, r \in Rates :
             Wait(e, r) /\ Add(sinceReport + e, FALSE, copied)
  <2>1. PICK e \in Elapsed, r \in Rates :
               Wait(e, r) /\ Add(sinceReport + e, FALSE, copied)
    BY <1>3
  <2>2. copied' = copied /\ copied \in 0..FileSize
    BY <2>1 DEF Wait, TypeOK
  <2>3. Report(sinceReport + e, FALSE, copied)
    BY <2>1, Zenon DEF Wait
  <2>4. NoItem \/ NewItem
    BY <2>1, <2>2, <2>3, ReportedAndAdded
  <2> QED
    BY <1>1, <2>2, <2>4
<1>4. CASE (\E e \in Elapsed, r \in Rates : Pass(e, r)) /\ UNCHANGED items
  BY <1>1, <1>4 DEF Pass, NoItem, TypeOK
<1>5. CASE Write /\ Add(sinceReport, FALSE, copied + Length)
  <2>1. /\ copied' = copied + Length
        /\ copied' \in 0..FileSize /\ copied <= copied'
    BY <1>5 DEF Write, Length, Smaller, TypeOK
  <2>2. Report(sinceReport, FALSE, copied + Length)
    BY <1>5, Zenon DEF Write
  <2>3. NoItem \/ NewItem
    BY <1>5, <2>1, <2>2, ReportedAndAdded
  <2> QED
    BY <1>1, <2>1, <2>3
<1>6. CASE EndOfFile /\ UNCHANGED items
  BY <1>1, <1>6 DEF EndOfFile, NoItem, TypeOK
<1>7. CASE \E e \in 1..MaxElapsed :
             Sync(e) /\ Add(sinceReport + e, Forced, copied)
  <2>1. PICK e \in 1..MaxElapsed :
               Sync(e) /\ Add(sinceReport + e, Forced, copied)
    BY <1>7
  <2>2. copied' = copied /\ copied \in 0..FileSize
    BY <2>1 DEF Sync, TypeOK
  <2>3. Report(sinceReport + e, Forced, copied)
    BY <2>1, Zenon DEF Sync
  <2>4. NoItem \/ NewItem
    BY <2>1, <2>2, <2>3, ReportedAndAdded
  <2> QED
    BY <1>1, <2>2, <2>4
<1> QED
  BY <1>2, <1>3, <1>4, <1>5, <1>6, <1>7 DEF PCopy

-----------------------------------------------------------------------------
\* The buffer never holds more than its bound, nor anything but a size of the
\* file, and neither does pending_size (progress.py 20-62).
THEOREM BufferTyping == PSpec => []PTypeOK
<1> USE SizeAssumption, MaxLenAssumption
<1>1. PInit => PTypeOK
  BY DEF PInit, PTypeOK
<1>2. TypeOK /\ PTypeOK /\ [PNext]_pvars => PTypeOK'
  <2> SUFFICES ASSUME TypeOK, PTypeOK, [PNext]_pvars
               PROVE  PTypeOK'
    OBVIOUS
  <2>1. CASE PCopy
    <3>1. /\ copied' \in 0..FileSize
          /\ NoItem \/ NewItem
          /\ UNCHANGED <<popped, pendingSize>>
      BY <2>1, CopyEffect
    <3>2. FileSize - copied' \in 0..FileSize
      BY <3>1, ItemSize
    <3>3. items' \in Seq(0..FileSize) /\ Len(items') \in 0..MaxLen
      <4>1. CASE NewItem
        BY <3>2, <4>1, AddedItem DEF NewItem, PTypeOK
      <4>2. CASE NoItem
        BY <4>2 DEF NoItem, PTypeOK
      <4> QED
        BY <3>1, <4>1, <4>2
    <3> QED
      BY <3>1, <3>3 DEF PTypeOK
  <2>2. CASE PPop
    BY <2>2 DEF PPop, PTypeOK
  <2>3. CASE PApply
    BY <2>3 DEF PApply, PTypeOK, Latest
  <2>4. CASE PDone \/ UNCHANGED pvars
    BY <2>4 DEF PDone, buffer, pvars, PTypeOK
  <2> QED
    BY <2>1, <2>2, <2>3, <2>4 DEF PNext
<1> QED
  BY <1>1, <1>2, CopyTyping, PTL DEF PSpec

\* However full the buffer gets and whenever the generator empties it, the last
\* item of the copy is on its way to pending_size, or is there (progress.py 31).
THEOREM LastIsKept == PSpec => []LastItemIsKept
<1> USE SizeAssumption, MaxLenAssumption
<1>1. PInit => LastItemIsKept
  BY DEF PInit, Init, LastItemIsKept
<1>2. TypeOK /\ PTypeOK /\ LastItemIsKept /\ [PNext]_pvars => LastItemIsKept'
  <2> SUFFICES ASSUME TypeOK, PTypeOK, LastItemIsKept, [PNext]_pvars
               PROVE  LastItemIsKept'
    OBVIOUS
  <2>1. CASE PCopy
    <3>1. /\ copied' \in 0..FileSize
          /\ NoItem \/ NewItem
          /\ UNCHANGED <<popped, pendingSize>>
      BY <2>1, CopyEffect
    <3>2. CASE NewItem
      <4>1. FileSize - copied' \in 0..FileSize
        BY <3>1, ItemSize
      <4>2. /\ Len(items') \in 1..MaxLen /\ items' \in Seq(0..FileSize)
            /\ Latest(items') = reported'
        BY <3>2, <4>1, AddedItem DEF NewItem, PTypeOK
      <4>3. items' # <<>>
        BY <4>2
      <4> QED
        BY <4>2, <4>3 DEF LastItemIsKept
    <3>3. CASE NoItem
      BY <3>1, <3>3 DEF NoItem, LastItemIsKept, Latest
    <3> QED
      BY <3>1, <3>2, <3>3
  <2>2. CASE PPop
    <3>1. reported' = reported /\ popped' = items /\ items # <<>> /\ items' = <<>>
      BY <2>2 DEF PPop, vars
    <3> QED
      BY <3>1 DEF LastItemIsKept, Latest
  <2>3. CASE PApply
    <3>1. /\ reported' = reported /\ items' = items /\ popped # <<>>
          /\ popped' = <<>> /\ pendingSize' = Latest(popped)
      BY <2>3 DEF PApply, vars
    <3> QED
      BY <3>1 DEF LastItemIsKept, Latest
  <2>4. CASE PDone \/ UNCHANGED pvars
    <3>1. UNCHANGED <<reported, items, popped, pendingSize>>
      BY <2>4 DEF PDone, Done, buffer, pvars, vars
    <3> QED
      BY <3>1 DEF LastItemIsKept, Latest
  <2> QED
    BY <2>1, <2>2, <2>3, <2>4 DEF PNext
<1> QED
  BY <1>1, <1>2, CopyTyping, BufferTyping, PTL DEF PSpec

-----------------------------------------------------------------------------
\* Sizes fall from pending_size over the popped and the buffered items to what
\* is left to copy.
ChainInv ==
  /\ pendingSize >= FileSize - copied
  /\ \A i \in 1..Len(popped) :
       popped[i] <= pendingSize /\ popped[i] >= FileSize - copied
  /\ \A j \in 1..Len(items) :
       items[j] <= pendingSize /\ items[j] >= FileSize - copied
  /\ \A i \in 1..Len(popped), j \in 1..Len(items) : popped[i] >= items[j]

LEMMA AddedSizes ==
  ASSUME NEW q \in Seq(0..FileSize), Len(q) <= MaxLen, NEW x \in 0..FileSize
  PROVE  \A i \in 1..Len(Added(q, x)) :
           Added(q, x)[i] = x \/ \E j \in 1..Len(q) : Added(q, x)[i] = q[j]
<1> DEFINE S == 0..FileSize
<1> HIDE DEF S
<1>1. q \in Seq(S) /\ x \in S
  BY DEF S
<1> QED
  BY <1>1, AddedItem

LEMMA Chaining == PSpec => []ChainInv
<1> USE SizeAssumption, MaxLenAssumption
<1>1. PInit => ChainInv
  BY DEF PInit, Init, ChainInv
<1>2. TypeOK /\ PTypeOK /\ ChainInv /\ [PNext]_pvars => ChainInv'
  <2> SUFFICES ASSUME TypeOK, PTypeOK, ChainInv, [PNext]_pvars
               PROVE  ChainInv'
    OBVIOUS
  <2>0. /\ copied \in Int /\ pendingSize \in Int
        /\ \A i \in 1..Len(popped) : popped[i] \in Int
        /\ \A j \in 1..Len(items) : items[j] \in Int
        /\ items \in Seq(0..FileSize) /\ Len(items) <= MaxLen
    BY DEF TypeOK, PTypeOK
  <2>1. CASE PCopy
    <3>1. /\ copied' \in 0..FileSize /\ copied <= copied'
          /\ popped' = popped /\ pendingSize' = pendingSize
          /\ NoItem \/ NewItem
      BY <2>1, CopyEffect
    <3>2. PICK left \in Int :
            /\ left = FileSize - copied' /\ left \in 0..FileSize
            /\ left <= FileSize - copied
      <4>1. FileSize - copied' \in 0..FileSize
        BY <3>1, ItemSize
      <4>2. \A d \in 0..FileSize : d \in Int
        OBVIOUS
      <4> QED
        BY <3>1, <4>1, <4>2, LessIsLeft DEF TypeOK
    <3>3. PICK before \in Int : before = FileSize - copied
      BY DEF TypeOK
    <3>4. CASE NewItem
      <4>1. items' = Added(items, left)
        BY <3>2, <3>4 DEF NewItem
      <4>2. \A i \in 1..Len(items') :
              items'[i] = left \/ \E j \in 1..Len(items) : items'[i] = items[j]
        <5>1. \A i \in 1..Len(Added(items, left)) :
                \/ Added(items, left)[i] = left
                \/ \E j \in 1..Len(items) : Added(items, left)[i] = items[j]
          BY <2>0, <3>2, AddedSizes
        <5> QED
          BY <4>1, <5>1, Zenon
      <4>3. /\ pendingSize >= left
            /\ \A i \in 1..Len(popped) : popped[i] >= left
            /\ \A j \in 1..Len(items) : items[j] >= left
        BY <2>0, <3>2, <3>3 DEF ChainInv
      <4>4. \A i \in 1..Len(items') :
              items'[i] <= pendingSize /\ items'[i] >= left
        BY <2>0, <4>2, <4>3, <3>2 DEF ChainInv
      <4>5. \A i \in 1..Len(popped), j \in 1..Len(items') : popped[i] >= items'[j]
        BY <4>2, <4>3 DEF ChainInv
      <4>6. \A i \in 1..Len(popped) : popped[i] <= pendingSize
        BY DEF ChainInv
      <4> QED
        BY <3>1, <3>2, <4>3, <4>4, <4>5, <4>6, Zenon DEF ChainInv
    <3>5. CASE NoItem
      <4>1. items' = items
        BY <3>5 DEF NoItem
      <4>2. /\ pendingSize >= left
            /\ \A i \in 1..Len(popped) : popped[i] >= left
            /\ \A j \in 1..Len(items) : items[j] >= left
        BY <2>0, <3>2, <3>3 DEF ChainInv
      <4> QED
        BY <3>1, <3>2, <4>1, <4>2 DEF ChainInv
    <3> QED
      BY <3>1, <3>4, <3>5
  <2>2. CASE PPop
    BY <2>2 DEF PPop, vars, ChainInv
  <2>3. CASE PApply
    <3>1. Len(popped) \in 1..Len(popped)
      BY <2>3 DEF PApply, PTypeOK
    <3> QED
      BY <2>3, <3>1 DEF PApply, vars, ChainInv, Latest
  <2>4. CASE PDone \/ UNCHANGED pvars
    BY <2>4 DEF PDone, Done, buffer, pvars, vars, ChainInv
  <2> QED
    BY <2>1, <2>2, <2>3, <2>4 DEF PNext
<1> QED
  BY <1>1, <1>2, CopyTyping, BufferTyping, PTL DEF PSpec

\* The size in the heartbeats is late, but only ever too large: a worker with
\* bytes left is never taken for idle (token_bucket.py 111-121, server.py 47-63).
THEOREM SizeBoundsCopy == PSpec => []SizeIsUpperBound
<1>1. ChainInv => SizeIsUpperBound
  BY DEF ChainInv, SizeIsUpperBound
<1> QED
  BY <1>1, Chaining, PTL

\* The size never rises in the course of a copy.
THEOREM SizeFalls == PSpec => SizeOnlyFalls
<1>1. PTypeOK /\ ChainInv /\ [PNext]_pvars => [pendingSize' <= pendingSize]_pvars
  <2> SUFFICES ASSUME PTypeOK, ChainInv, [PNext]_pvars
               PROVE  pendingSize' <= pendingSize
    OBVIOUS
  <2>1. CASE PApply
    <3>1. Len(popped) \in 1..Len(popped)
      BY <2>1 DEF PApply, PTypeOK
    <3> QED
      BY <2>1, <3>1 DEF PApply, ChainInv, Latest
  <2>2. CASE ~PApply
    <3>1. pendingSize' = pendingSize
      BY <2>2 DEF PNext, PCopy, PPop, PDone, buffer, pvars
    <3> QED
      BY <3>1, SizeAssumption DEF PTypeOK
  <2> QED
    BY <2>1, <2>2
<1> QED
  BY <1>1, BufferTyping, Chaining, PTL DEF PSpec, SizeOnlyFalls
=============================================================================
