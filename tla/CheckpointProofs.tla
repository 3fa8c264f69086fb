-------------------------- MODULE CheckpointProofs --------------------------
(***************************************************************************)
(* Theorems about the files that the Checkpoint client and the migrater    *)
(* leave on the parallel file system, for any number of saves and all      *)
(* faults.  Those about the files assume that a flush ends before the next *)
(* but one save, Lag \in 0..1; with a Lag of two they do not hold.         *)
(***************************************************************************)
EXTENDS Trainer, FiniteSetTheorems, TLAPS

\* The steps of the migrater on one checkpoint, and the handler's end.
Migrates(k) ==
  Accept(k) \/ Refuse(k) \/ Start(k) \/ Truncate(k) \/ Flush(k) \/ Fail(k)

USE DEF trainer, pfs, handoff, HMove, Destination, NextEpoch, Handled,
        AfterFailedCopy

\* save() has counted all its calls but the one it is in.
CountInv ==
  IF phase = "training" THEN epoch = saves ELSE epoch = saves - 1 /\ saves > 0

\* TypeOK in the parts that are proved apart.
FlowOK ==
  /\ phase \in {"training", "calling", "fallback", "raised"}
  /\ saves \in 0..MaxSaves /\ epoch \in 0..MaxSaves
  /\ CountInv
FlagsOK == closing \in BOOLEAN /\ useAlt \in BOOLEAN
HandoffOK ==
  /\ status \in [Ckpt -> HStatus]
  /\ requests \subseteq Ckpt /\ fallen \subseteq Ckpt
  /\ opens \in [Ckpt -> 0..2]
Content == [ckpt : 0..MaxSaves, whole : BOOLEAN]
FilesOK ==
  /\ target \in [Ckpt -> Path]
  /\ file \in [Path -> Content]
  /\ writers \in [Path -> SUBSET Ckpt]

LEMMA FlowTyping == Spec => []FlowOK
<1> USE SavesAssumption DEF FlowOK, CountInv
<1>1. Init => FlowOK
  BY DEF Init
<1>2. FlowOK /\ [Next]_vars => FlowOK'
  <2> SUFFICES ASSUME FlowOK, [Next]_vars
               PROVE  FlowOK'
    OBVIOUS
  <2>1. CASE Save
    BY <2>1 DEF Save
  <2>2. CASE CallReturns \/ CallFails
    BY <2>2 DEF CallReturns, CallFails
  <2>3. CASE FallbackSaves \/ FallbackFails
    BY <2>3 DEF FallbackSaves, FallbackFails
  <2>4. ASSUME NEW k \in Ckpt, Migrates(k)
        PROVE  FlowOK'
    BY <2>4 DEF Migrates, Accept, Refuse, Start, Truncate, Flush, Fail
  <2>5. CASE Close \/ UNCHANGED vars
    BY <2>5 DEF Close, vars
  <2> QED
    BY <2>1, <2>2, <2>3, <2>4, <2>5 DEF Next, Migrates
<1> QED
  BY <1>1, <1>2, PTL DEF Spec

LEMMA FlagsTyping == Spec => []FlagsOK
<1> USE DEF FlagsOK
<1>1. Init => FlagsOK
  BY DEF Init, HInit
<1>2. FlagsOK /\ [Next]_vars => FlagsOK'
  BY DEF Next, Save, CallReturns, CallFails, FallbackSaves, FallbackFails,
         Accept, Refuse, Start, Truncate, Flush, Fail, Close, vars,
         HAccept, HRefuse, HStart, HFlush, HFail, HClose
<1> QED
  BY <1>1, <1>2, PTL DEF Spec

LEMMA HandoffTyping == Spec => []HandoffOK
<1> USE SavesAssumption DEF HandoffOK, HStatus
<1>1. Init => HandoffOK
  BY DEF Init, HInit
<1>2. FlowOK /\ HandoffOK /\ [Next]_vars => HandoffOK'
  <2> SUFFICES ASSUME FlowOK, HandoffOK, [Next]_vars
               PROVE  HandoffOK'
    OBVIOUS
  <2>1. CASE Save
    BY <2>1 DEF Save, FlowOK
  <2>2. CASE CallReturns \/ CallFails
    BY <2>2 DEF CallReturns, CallFails
  <2>3. CASE FallbackSaves
    <3>1. saves \in Ckpt
      BY <2>3 DEF FallbackSaves, FlowOK, CountInv
    <3> QED
      BY <2>3, <3>1 DEF FallbackSaves
  <2>4. ASSUME NEW k \in Ckpt, Accept(k) \/ Refuse(k) \/ Start(k) \/ Fail(k)
        PROVE  HandoffOK'
    BY <2>4 DEF Accept, Refuse, Start, Fail, HAccept, HRefuse, HStart, HFail
  <2>5. ASSUME NEW k \in Ckpt, Truncate(k)
        PROVE  HandoffOK'
    BY <2>5 DEF Truncate
  <2>6. ASSUME NEW k \in Ckpt, Flush(k)
        PROVE  HandoffOK'
    BY <2>6 DEF Flush, HFlush
  <2>7. CASE FallbackFails
    BY <2>7 DEF FallbackFails
  <2>8. CASE Close \/ UNCHANGED vars
    BY <2>8 DEF Close, HClose, vars
  <2> QED
    BY <2>1, <2>2, <2>3, <2>4, <2>5, <2>6, <2>7, <2>8 DEF Next
<1> QED
  BY <1>1, <1>2, FlowTyping, PTL DEF Spec

LEMMA Contents ==
  ASSUME NEW k \in 0..MaxSaves
  PROVE  Partial(k) \in Content /\ Whole(k) \in Content
BY DEF Partial, Whole, Content

LEMMA FilesTyping == Spec => []FilesOK
<1> USE SavesAssumption DEF FilesOK
<1>1. Init => FilesOK
  BY Contents DEF Init, Path
<1>2. FlowOK /\ FilesOK /\ [Next]_vars => FilesOK'
  <2> SUFFICES ASSUME FlowOK, FilesOK, [Next]_vars
               PROVE  FilesOK'
    OBVIOUS
  <2>1. CASE Save
    BY <2>1 DEF Save, Target, Path
  <2>2. CASE CallReturns \/ CallFails \/ FallbackFails
    BY <2>2 DEF CallReturns, CallFails, FallbackFails
  <2>3. CASE FallbackSaves
    <3>1. Whole(saves) \in Content
      BY Contents DEF FlowOK
    <3> QED
      BY <2>3, <3>1 DEF FallbackSaves
  <2>4. ASSUME NEW k \in Ckpt, Accept(k) \/ Refuse(k) \/ Start(k) \/ Fail(k)
        PROVE  FilesOK'
    BY <2>4 DEF Accept, Refuse, Start, Fail
  <2>5. ASSUME NEW k \in Ckpt, Truncate(k)
        PROVE  FilesOK'
    <3>1. Partial(k) \in Content
      BY Contents
    <3> QED
      BY <2>5, <3>1 DEF Truncate
  <2>6. ASSUME NEW k \in Ckpt, Flush(k)
        PROVE  FilesOK'
    <3>1. Partial(k) \in Content /\ Whole(k) \in Content
      BY Contents
    <3> QED
      BY <2>6, <3>1 DEF Flush, Written
  <2>7. CASE Close \/ UNCHANGED vars
    BY <2>7 DEF Close, vars
  <2> QED
    BY <2>1, <2>2, <2>3, <2>4, <2>5, <2>6, <2>7 DEF Next
<1> QED
  BY <1>1, <1>2, FlowTyping, PTL DEF Spec

\* Every variable keeps its type, and self.epoch never exceeds the number of
\* saves, whatever fails (checkpoint.py 206-281).
THEOREM Typing == Spec => []TypeOK
<1>1. FlowOK /\ FlagsOK /\ HandoffOK /\ FilesOK => TypeOK
  BY DEF FlowOK, FlagsOK, HandoffOK, FilesOK, Content, TypeOK
<1> QED
  BY <1>1, FlowTyping, FlagsTyping, HandoffTyping, FilesTyping, PTL

-----------------------------------------------------------------------------
\* A checkpoint not yet saved is unknown; one in a request has no answer; a
\* transfer opens its destination after it has started, and twice before it ends.
OfferInv ==
  \A k \in Ckpt :
    /\ k > saves => /\ status[k] = "none" /\ opens[k] = 0
                    /\ k \notin requests /\ k \notin fallen
    /\ k \in requests => status[k] = "none"
    /\ opens[k] > 0 => status[k] \in {"writing", "flushed", "failed"}
    /\ status[k] = "flushed" => opens[k] = 2

LEMMA Offers == Spec => []OfferInv
<1> USE SavesAssumption DEF FlowOK, CountInv, HandoffOK, OfferInv, HStatus
<1>1. Init => OfferInv
  BY DEF Init, HInit
<1>2. FlowOK /\ HandoffOK /\ OfferInv /\ [Next]_vars => OfferInv'
  <2> SUFFICES ASSUME FlowOK, HandoffOK, OfferInv, [Next]_vars
               PROVE  OfferInv'
    OBVIOUS
  <2>1. CASE Save
    BY <2>1 DEF Save
  <2>2. CASE CallReturns \/ CallFails \/ FallbackSaves \/ FallbackFails
    BY <2>2 DEF CallReturns, CallFails, FallbackSaves, FallbackFails
  <2>3. ASSUME NEW k \in Ckpt, Accept(k) \/ Refuse(k) \/ Start(k) \/ Fail(k)
        PROVE  OfferInv'
    BY <2>3 DEF Accept, Refuse, Start, Fail, HAccept, HRefuse, HStart, HFail
  <2>4. ASSUME NEW k \in Ckpt, Truncate(k) \/ Flush(k)
        PROVE  OfferInv'
    BY <2>4 DEF Truncate, Flush, HFlush
  <2>5. CASE Close \/ UNCHANGED vars
    BY <2>5 DEF Close, HClose, vars
  <2> QED
    BY <2>1, <2>2, <2>3, <2>4, <2>5 DEF Next
<1> QED
  BY <1>1, <1>2, FlowTyping, HandoffTyping, PTL DEF Spec

\* The paths alternate, and what is in hand is one of the last two checkpoints.
PathInv ==
  /\ \A k \in Ckpt : 1 < k /\ k <= saves => target[k] # target[k - 1]
  /\ saves > 0 => (phase = "training" <=> target[saves] # Target)
HandInv == \A k \in InHand : k >= saves - 1

LEMMA Paths == Spec => []PathInv
<1> USE SavesAssumption DEF FlowOK, CountInv, FilesOK, PathInv, Target, Path
<1>1. Init => PathInv
  BY DEF Init
<1>2. FlowOK /\ FlagsOK /\ FilesOK /\ PathInv /\ [Next]_vars => PathInv'
  <2> SUFFICES ASSUME FlowOK, FlagsOK, FilesOK, PathInv, [Next]_vars
               PROVE  PathInv'
    OBVIOUS
  <2>1. CASE Save
    <3>1. /\ saves' = saves + 1 /\ saves' \in Ckpt /\ saves \in Nat
          /\ phase = "training" /\ phase' = "calling" /\ useAlt' = useAlt
          /\ target' = [target EXCEPT ![saves'] = Target]
      BY <2>1 DEF Save
    <3>2. ASSUME NEW k \in Ckpt, 1 < k, k <= saves'
          PROVE  target'[k] # target'[k - 1]
      <4>1. k - 1 \in Ckpt
        BY <3>2
      <4>2. CASE k = saves'
        BY <3>1, <3>2, <4>1, <4>2
      <4>3. CASE k # saves'
        BY <3>1, <3>2, <4>1, <4>3
      <4> QED
        BY <4>2, <4>3
    <3> QED
      BY <3>1, <3>2
  <2>2. CASE CallReturns \/ CallFails \/ FallbackSaves \/ FallbackFails
    <3>1. CASE CallFails \/ FallbackFails
      BY <3>1 DEF CallFails, FallbackFails
    <3>2. CASE CallReturns \/ FallbackSaves
      <4>1. /\ saves' = saves /\ target' = target
            /\ phase # "training" /\ phase' = "training"
            /\ useAlt' = ~useAlt
        BY <3>2 DEF CallReturns, FallbackSaves
      <4>2. Target' # Target
        BY <4>1 DEF FlagsOK
      <4>3. saves > 0 => target[saves] = Target
        BY <4>1
      <4> HIDE DEF Target
      <4> QED
        BY <4>1, <4>2, <4>3
    <3> QED
      BY <2>2, <3>1, <3>2
  <2>3. ASSUME NEW k \in Ckpt, Migrates(k)
        PROVE  PathInv'
    BY <2>3 DEF Migrates, Accept, Refuse, Start, Truncate, Flush, Fail
  <2>4. CASE Close \/ UNCHANGED vars
    BY <2>4 DEF Close, vars
  <2> QED
    BY <2>1, <2>2, <2>3, <2>4 DEF Next, Migrates
<1> QED
  BY <1>1, <1>2, FlowTyping, FlagsTyping, FilesTyping, PTL DEF Spec

LEMMA Hands ==
  ASSUME Lag \in 0..1
  PROVE  Spec => []HandInv
<1> USE SavesAssumption DEF FlowOK, HandoffOK, HandInv, InHand
<1>1. Init => HandInv
  BY DEF Init, HInit
<1>2. FlowOK /\ HandoffOK /\ HandInv /\ [Next]_vars => HandInv'
  <2> SUFFICES ASSUME FlowOK, HandoffOK, HandInv, [Next]_vars
               PROVE  HandInv'
    OBVIOUS
  <2>1. CASE Save
    BY <2>1 DEF Save
  <2>2. CASE CallReturns \/ CallFails \/ FallbackSaves \/ FallbackFails
    BY <2>2 DEF CallReturns, CallFails, FallbackSaves, FallbackFails
  <2>3. ASSUME NEW k \in Ckpt, Migrates(k)
        PROVE  HandInv'
    BY <2>3 DEF Migrates, Accept, Refuse, Start, Truncate, Flush, Fail,
                HAccept, HRefuse, HStart, HFlush, HFail
  <2>4. CASE Close \/ UNCHANGED vars
    BY <2>4 DEF Close, HClose, vars
  <2> QED
    BY <2>1, <2>2, <2>3, <2>4 DEF Next, Migrates
<1> QED
  BY <1>1, <1>2, FlowTyping, HandoffTyping, PTL DEF Spec

\* So a transfer in hand shares its path with no later checkpoint.
LEMMA NoneLaterHere ==
  ASSUME FlowOK, HandoffOK, PathInv, HandInv, NEW k \in InHand, NEW j \in Ckpt,
         k < j, j <= saves
  PROVE  target[j] # target[k]
<1>1. k \in Ckpt /\ k >= saves - 1
  BY DEF HandInv, InHand, HandoffOK
<1>2. j = k + 1 /\ k \in Nat \ {0}
  BY <1>1, SavesAssumption DEF FlowOK
<1> QED
  BY <1>1, <1>2 DEF PathInv

-----------------------------------------------------------------------------
\* A file is written by one transfer at most, and that has opened it.
WriterInv ==
  \A p \in Path : \A j \in writers[p] :
    /\ writers[p] = {j}
    /\ target[j] = p /\ opens[j] > 0

LEMMA SoleWriter ==
  ASSUME Lag \in 0..1
  PROVE  Spec => []WriterInv
<1> USE SavesAssumption DEF FlowOK, HandoffOK, FilesOK, WriterInv
<1>1. Init => WriterInv
  BY DEF Init
<1>2. /\ FlowOK /\ HandoffOK /\ FilesOK
      /\ OfferInv /\ PathInv /\ HandInv /\ WriterInv /\ [Next]_vars
      => WriterInv'
  <2> SUFFICES ASSUME FlowOK, HandoffOK, FilesOK,
                      OfferInv, PathInv, HandInv, WriterInv, [Next]_vars
               PROVE  WriterInv'
    OBVIOUS
  <2>1. CASE Save
    BY <2>1 DEF Save, OfferInv
  <2>2. CASE CallReturns \/ CallFails \/ FallbackSaves \/ FallbackFails
    BY <2>2 DEF CallReturns, CallFails, FallbackSaves, FallbackFails
  <2>3. ASSUME NEW k \in Ckpt,
               Accept(k) \/ Refuse(k) \/ Start(k) \/ Flush(k) \/ Fail(k)
        PROVE  WriterInv'
    BY <2>3 DEF Accept, Refuse, Start, Flush, Fail
  <2>4. ASSUME NEW k \in Ckpt, Truncate(k)
        PROVE  WriterInv'
    <3> DEFINE p == target[k]
    <3>1. p \in Path /\ status[k] = "writing"
      BY <2>4 DEF Truncate
    <3>2. ASSUME NEW j \in writers[p], status[j] = "writing"
          PROVE  j = k
      <4>1. j \in Ckpt /\ target[j] = target[k] /\ j \in InHand /\ k \in InHand
        BY <3>1, <3>2 DEF InHand
      <4>2. j <= saves /\ k <= saves
        BY <3>1, <3>2, <4>1 DEF OfferInv
      <4> QED
        BY <4>1, <4>2, NoneLaterHere
    <3>3. writers' = [writers EXCEPT ![p] = {k}]
      <4>1. {j \in writers[p] : status[j] = "writing"} \cup {k} = {k}
        BY <3>2
      <4>2. writers' = [writers EXCEPT
                ![p] = {j \in writers[p] : status[j] = "writing"} \cup {k}]
        BY <2>4 DEF Truncate
      <4> QED
        BY <4>1, <4>2
    <3>4. target' = target /\ opens' = [opens EXCEPT ![k] = @ + 1]
      BY <2>4 DEF Truncate
    <3> QED
      BY <3>1, <3>3, <3>4
  <2>5. CASE Close \/ UNCHANGED vars
    BY <2>5 DEF Close, vars
  <2> QED
    BY <2>1, <2>2, <2>3, <2>4, <2>5 DEF Next
<1> QED
  BY <1>1, <1>2, FlowTyping, HandoffTyping, FilesTyping, Offers, Paths, Hands,
     PTL DEF Spec

LEMMA PartsAndWholes ==
  /\ \A j, k \in 0..MaxSaves : Partial(j) = Partial(k) => j = k
  /\ \A j, k \in 0..MaxSaves : Whole(j) # Partial(k)
BY DEF Partial, Whole

\* A part at a path is what that transfer has written, or left when it failed.
PartialInv ==
  \A p \in Path : \A k \in Ckpt :
    file[p] = Partial(k)
      => k \in writers[p] /\ status[k] \in {"writing", "failed"}

LEMMA Parts ==
  ASSUME Lag \in 0..1
  PROVE  Spec => []PartialInv
<1> USE SavesAssumption DEF PartialInv
<1>1. Init => PartialInv
  <2>1. \A k \in Ckpt : Partial(0) # Partial(k)
    BY DEF Partial
  <2> QED
    BY <2>1 DEF Init
<1>2. FlowOK /\ HandoffOK /\ FilesOK /\ WriterInv /\ PartialInv /\ [Next]_vars
      => PartialInv'
  <2> SUFFICES ASSUME FlowOK, HandoffOK, FilesOK, WriterInv, PartialInv,
                      [Next]_vars
               PROVE  PartialInv'
    OBVIOUS
  <2>1. CASE Save \/ CallReturns \/ CallFails \/ FallbackFails
    BY <2>1 DEF Save, CallReturns, CallFails, FallbackFails
  <2>2. CASE FallbackSaves
    <3>1. \A k \in Ckpt : Whole(saves) # Partial(k)
      BY PartsAndWholes DEF FlowOK
    <3> QED
      BY <2>2, <3>1 DEF FallbackSaves, FilesOK
  <2>3. ASSUME NEW k \in Ckpt, Accept(k) \/ Refuse(k) \/ Start(k) \/ Fail(k)
        PROVE  PartialInv'
    BY <2>3 DEF Accept, Refuse, Start, Fail, HAccept, HRefuse, HStart, HFail,
                HandoffOK
  <2>4. ASSUME NEW k \in Ckpt, Truncate(k)
        PROVE  PartialInv'
    <3>1. \A j \in Ckpt : Partial(k) = Partial(j) => k = j
      BY PartsAndWholes
    <3> QED
      BY <2>4, <3>1 DEF Truncate, FilesOK
  <2>5. ASSUME NEW k \in Ckpt, Flush(k)
        PROVE  PartialInv'
    <3>1. \A j \in Ckpt : j # k => status'[j] = status[j]
      BY <2>5 DEF Flush, HFlush, HandoffOK
    <3>2. writers' = writers
      BY <2>5 DEF Flush
    <3>3. CASE k \in writers[target[k]]
      <4>1. file' = [file EXCEPT ![target[k]] = Whole(k)]
        BY <2>5, <3>3 DEF Flush, Written, WriterInv, FilesOK
      <4>2. \A j \in Ckpt : Whole(k) # Partial(j)
        BY PartsAndWholes
      <4>3. \A p \in Path : p # target[k] => k \notin writers[p]
        BY DEF WriterInv
      <4> QED
        BY <3>1, <3>2, <4>1, <4>2, <4>3 DEF FilesOK
    <3>4. CASE k \notin writers[target[k]]
      <4>1. file' = file
        BY <2>5, <3>4 DEF Flush
      <4>2. \A p \in Path : k \notin writers[p]
        BY <3>4 DEF WriterInv
      <4> QED
        BY <3>1, <3>2, <4>1, <4>2
    <3> QED
      BY <3>3, <3>4
  <2>6. CASE Close \/ UNCHANGED vars
    BY <2>6 DEF Close, HClose, vars
  <2> QED
    BY <2>1, <2>2, <2>3, <2>4, <2>5, <2>6 DEF Next
<1> QED
  BY <1>1, <1>2, FlowTyping, HandoffTyping, FilesTyping, SoleWriter, PTL DEF Spec

LEMMA WholeOrPart ==
  ASSUME NEW c \in Content
  PROVE  c = IF c.whole THEN Whole(c.ckpt) ELSE Partial(c.ckpt)
BY DEF Content, Whole, Partial

\* The fallback never exposes "a partially copied checkpoint at the final PFS
\* path" (checkpoint.py 142-145): where a part is, a transfer is writing it or
\* has failed.
THEOREM PartsHaveWriters ==
  ASSUME Lag \in 0..1
  PROVE  Spec => []PartialHasWriter
<1>1. FilesOK /\ PartialInv => PartialHasWriter
  <2> SUFFICES ASSUME FilesOK, PartialInv, NEW p \in Path,
                      ~file[p].whole, file[p].ckpt # 0
               PROVE  status[file[p].ckpt] \in {"writing", "failed"}
    BY DEF PartialHasWriter
  <2>1. file[p] = Partial(file[p].ckpt)
    BY WholeOrPart DEF FilesOK
  <2>2. file[p].ckpt \in Ckpt
    BY SavesAssumption DEF FilesOK, Content
  <2> QED
    BY <2>1, <2>2 DEF PartialInv
<1> QED
  BY <1>1, FilesTyping, Parts, PTL

-----------------------------------------------------------------------------
\* Checkpoints that have reached the file system, whole or not.
Landed(k) == k \in fallen \/ opens[k] > 0

\* What is at a path is the newest that has reached it.
NewestInv ==
  \A k \in Ckpt :
    Landed(k) /\ (\A j \in Ckpt : j > k /\ target[j] = target[k] => ~Landed(j))
      => file[target[k]].ckpt = k

\* A step that puts checkpoint k at its path while it is in hand.
LEMMA NewestLands ==
  ASSUME FlowOK, HandoffOK, FilesOK, OfferInv, NewestInv, NEW k \in Ckpt,
         \A j \in Ckpt : k < j /\ j <= saves => target[j] # target[k],
         k <= saves, UNCHANGED <<saves, target>>,
         \A i \in Ckpt \ {k} : Landed(i)' = Landed(i),
         Landed(k)',
         NEW c \in Content, c.ckpt = k, file' = [file EXCEPT ![target[k]] = c]
  PROVE  NewestInv'
<1> SUFFICES ASSUME NEW i \in Ckpt, Landed(i)',
                    \A j \in Ckpt : j > i /\ target[j] = target[i] => ~Landed(j)'
             PROVE  file'[target[i]].ckpt = i
  BY DEF NewestInv
<1>1. CASE i = k
  BY <1>1 DEF FilesOK
<1>2. CASE i # k
  <2>1. Landed(i) /\ i <= saves
    BY <1>2, SavesAssumption DEF OfferInv, Landed, HandoffOK, FlowOK
  <2>2. target[i] # target[k]
    BY <1>2, <2>1, SavesAssumption
  <2>3. file'[target[i]] = file[target[i]]
    BY <2>2 DEF FilesOK
  <2>4. \A j \in Ckpt : j > i /\ target[j] = target[i] => ~Landed(j)
    BY <2>2
  <2> QED
    BY <2>1, <2>3, <2>4 DEF NewestInv
<1> QED
  BY <1>1, <1>2

LEMMA Newest ==
  ASSUME Lag \in 0..1
  PROVE  Spec => []NewestInv
<1> USE SavesAssumption
<1>1. Init => NewestInv
  BY DEF Init, NewestInv, Landed
<1>2. /\ FlowOK /\ HandoffOK /\ FilesOK
      /\ OfferInv /\ PathInv /\ HandInv /\ WriterInv /\ NewestInv /\ [Next]_vars
      => NewestInv'
  <2> SUFFICES ASSUME FlowOK, HandoffOK, FilesOK, OfferInv, PathInv, HandInv,
                      WriterInv, NewestInv, [Next]_vars
               PROVE  NewestInv'
    OBVIOUS
  <2>1. CASE Save
    <3>1. /\ file' = file /\ \A k \in Ckpt : Landed(k)' = Landed(k)
          /\ \A k \in Ckpt : k # saves + 1 => target'[k] = target[k]
      BY <2>1 DEF Save, Landed, FilesOK
    <3>2. \A k \in Ckpt : Landed(k) => k # saves + 1
      BY DEF OfferInv, Landed, FlowOK
    <3> QED
      BY <3>1, <3>2 DEF NewestInv
  <2>2. CASE CallReturns \/ CallFails \/ FallbackFails
    BY <2>2 DEF CallReturns, CallFails, FallbackFails, NewestInv, Landed
  <2>3. CASE FallbackSaves
    <3>1. saves \in Ckpt /\ \A j \in Ckpt : ~(saves < j /\ j <= saves)
      BY <2>3 DEF FallbackSaves, FlowOK, CountInv
    <3>2. Whole(saves) \in Content /\ Whole(saves).ckpt = saves
      BY <3>1, Contents DEF Whole
    <3>3. /\ UNCHANGED <<saves, target>>
          /\ \A i \in Ckpt \ {saves} : Landed(i)' = Landed(i)
          /\ Landed(saves)'
          /\ file' = [file EXCEPT ![target[saves]] = Whole(saves)]
      BY <2>3 DEF FallbackSaves, Landed
    <3>4. saves <= saves
      BY DEF FlowOK
    <3> QED
      BY <3>1, <3>2, <3>3, <3>4, NewestLands
  <2>4. ASSUME NEW k \in Ckpt, Accept(k) \/ Refuse(k) \/ Start(k) \/ Fail(k)
        PROVE  NewestInv'
    BY <2>4 DEF Accept, Refuse, Start, Fail, NewestInv, Landed
  <2>5. ASSUME NEW k \in Ckpt, status[k] = "writing"
        PROVE  /\ k <= saves
               /\ \A j \in Ckpt : k < j /\ j <= saves => target[j] # target[k]
    <3>1. k \in InHand
      BY <2>5 DEF InHand
    <3>2. k <= saves
      BY <2>5 DEF OfferInv, FlowOK
    <3> QED
      BY <3>1, <3>2, NoneLaterHere
  <2>6. ASSUME NEW k \in Ckpt, Truncate(k)
        PROVE  NewestInv'
    <3>1. Partial(k) \in Content /\ Partial(k).ckpt = k
      BY Contents DEF Partial
    <3>2. /\ UNCHANGED <<saves, target>>
          /\ \A i \in Ckpt \ {k} : Landed(i)' = Landed(i)
          /\ Landed(k)'
          /\ file' = [file EXCEPT ![target[k]] = Partial(k)]
      BY <2>6 DEF Truncate, Landed, HandoffOK
    <3>3. status[k] = "writing"
      BY <2>6 DEF Truncate
    <3> QED
      BY <2>5, <3>1, <3>2, <3>3, NewestLands
  <2>7. ASSUME NEW k \in Ckpt, Flush(k)
        PROVE  NewestInv'
    <3>1. CASE k \in writers[target[k]]
      <4>1. Whole(k) \in Content /\ Whole(k).ckpt = k
        BY Contents DEF Whole
      <4>2. /\ UNCHANGED <<saves, target>>
            /\ \A i \in Ckpt \ {k} : Landed(i)' = Landed(i)
            /\ Landed(k)'
        BY <2>7 DEF Flush, Landed
      <4>3. status[k] = "writing" /\ file' = [file EXCEPT ![target[k]] = Whole(k)]
        BY <2>7, <3>1 DEF Flush, HFlush, Written, WriterInv, FilesOK
      <4> QED
        BY <2>5, <4>1, <4>2, <4>3, NewestLands
    <3>2. CASE k \notin writers[target[k]]
      BY <2>7, <3>2 DEF Flush, NewestInv, Landed
    <3> QED
      BY <3>1, <3>2
  <2>8. CASE Close \/ UNCHANGED vars
    BY <2>8 DEF Close, vars, NewestInv, Landed
  <2> QED
    BY <2>1, <2>2, <2>3, <2>4, <2>6, <2>7, <2>8 DEF Next
<1> QED
  BY <1>1, <1>2, FlowTyping, HandoffTyping, FilesTyping, Offers, Paths, Hands,
     SoleWriter, PTL DEF Spec

\* What has been saved, and is not being written, is whole where nothing later is.
LEMMA SavedIsWhole ==
  ASSUME HandoffOK, FilesOK, OfferInv, PartialInv, NewestInv, NEW k \in Ckpt,
         k \in fallen \/ status[k] = "flushed",
         status[k] \notin {"writing", "failed"},
         \A j \in Ckpt : j > k /\ Opened(j) => target[j] # target[k]
  PROVE  IsWhole(k)
<1> DEFINE p == target[k]
<1>1. Landed(k)
  BY DEF Landed, OfferInv
<1>2. \A j \in Ckpt : Landed(j) => Opened(j)
  BY DEF Landed, Opened, OfferInv
<1>3. file[p].ckpt = k
  BY <1>1, <1>2 DEF NewestInv
<1>4. p \in Path /\ file[p] \in Content
  BY DEF FilesOK
<1>5. file[p] # Partial(k)
  BY <1>4 DEF PartialInv
<1> QED
  BY <1>3, <1>4, <1>5, WholeOrPart DEF IsWhole

\* When the reply is lost both the transfer and the fallback save a checkpoint.
\* In whatever order they open, replace and finish, it is whole at its path once
\* the transfer has left it (checkpoint.py 216-235).
THEOREM SavedStaysThere ==
  ASSUME Lag \in 0..1
  PROVE  Spec => []SavedIsThere
<1>1. HandoffOK /\ FilesOK /\ OfferInv /\ PartialInv /\ NewestInv => SavedIsThere
  BY SavedIsWhole DEF SavedIsThere
<1> QED
  BY <1>1, HandoffTyping, FilesTyping, Offers, Parts, Newest, PTL

-----------------------------------------------------------------------------
\* What the trainer counts has been answered or has fallen back.  (An answer
\* may be a refusal.)
CountedInv ==
  /\ \A k \in Ckpt : k <= epoch => k \in fallen \/ status[k] # "none"
  /\ phase = "calling" /\ saves \notin requests => status[saves] # "none"

LEMMA Counted == Spec => []CountedInv
<1> USE SavesAssumption DEF FlowOK, CountInv, HandoffOK, CountedInv
<1>1. Init => CountedInv
  BY DEF Init
<1>2. FlowOK /\ HandoffOK /\ OfferInv /\ CountedInv /\ [Next]_vars => CountedInv'
  <2> SUFFICES ASSUME FlowOK, HandoffOK, OfferInv, CountedInv, [Next]_vars
               PROVE  CountedInv'
    OBVIOUS
  <2>1. CASE Save
    BY <2>1 DEF Save
  <2>2. CASE CallReturns
    BY <2>2 DEF CallReturns
  <2>3. CASE CallFails \/ FallbackFails
    BY <2>3 DEF CallFails, FallbackFails
  <2>4. CASE FallbackSaves
    BY <2>4 DEF FallbackSaves
  <2>5. ASSUME NEW k \in Ckpt, Accept(k) \/ Refuse(k) \/ Start(k) \/ Fail(k)
        PROVE  CountedInv'
    BY <2>5 DEF Accept, Refuse, Start, Fail, HAccept, HRefuse, HStart, HFail
  <2>6. ASSUME NEW k \in Ckpt, Truncate(k) \/ Flush(k)
        PROVE  CountedInv'
    BY <2>6 DEF Truncate, Flush, HFlush
  <2>7. CASE Close \/ UNCHANGED vars
    BY <2>7 DEF Close, HClose, vars
  <2> QED
    BY <2>1, <2>2, <2>3, <2>4, <2>5, <2>6, <2>7 DEF Next
<1> QED
  BY <1>1, <1>2, FlowTyping, HandoffTyping, Offers, PTL DEF Spec

LEMMA OneInHand ==
  ASSUME HandoffOK, Cardinality(InHand) <= 1, NEW j \in InHand, NEW k \in InHand
  PROVE  j = k
<1>1. IsFiniteSet(Ckpt)
  BY SavesAssumption, FS_Interval
<1>2. IsFiniteSet(InHand)
  <2>1. InHand \subseteq Ckpt
    BY DEF HandoffOK, InHand
  <2> QED
    BY <1>1, <2>1, FS_Subset
<1>3. Cardinality(InHand) \in Nat /\ Cardinality(InHand) # 0
  BY <1>2, FS_CardinalityType, FS_EmptySet
<1>4. Cardinality(InHand) = 1
  BY <1>3
<1>5. \E x : InHand = {x}
  BY <1>2, <1>4, FS_Singleton
<1> QED
  BY <1>5

\* Alternating the paths protects the checkpoint before: with one in hand at
\* most, and none refused or failed, one of the last two that the trainer counts
\* or the one it is about to count is whole on the file system at any moment
\* (checkpoint.py 62-67, 267-277).
THEOREM PreviousStays ==
  ASSUME Lag \in 0..1
  PROVE  Spec => []PreviousKept
<1>1. /\ FlowOK /\ HandoffOK /\ FilesOK /\ OfferInv /\ PathInv /\ PartialInv
      /\ NewestInv /\ CountedInv
      => PreviousKept
  <2> SUFFICES ASSUME FlowOK, HandoffOK, FilesOK, OfferInv, PathInv, PartialInv,
                      NewestInv, CountedInv,
                      epoch >= 2, Cardinality(InHand) <= 1,
                      \A k \in {epoch - 1, epoch, saves} :
                        status[k] \notin {"refused", "failed"}
               PROVE  \E k \in {epoch - 1, epoch, saves} : IsWhole(k)
    BY DEF PreviousKept
  <2>0. saves = epoch \/ saves = epoch + 1
    BY SavesAssumption DEF FlowOK, CountInv
  <2>1. epoch \in Ckpt /\ epoch - 1 \in Ckpt /\ saves \in Ckpt
    BY <2>0, SavesAssumption DEF FlowOK
  <2>2. \A j \in Ckpt : Opened(j) => j <= saves
    BY SavesAssumption DEF Opened, OfferInv, FlowOK
  <2>3. /\ target[epoch] # target[epoch - 1]
        /\ saves = epoch + 1 => target[saves] # target[epoch]
    BY <2>0, <2>1, SavesAssumption DEF PathInv
  <2>4. ASSUME NEW k \in {epoch - 1, epoch}, k \notin InHand
        PROVE  /\ k \in fallen \/ status[k] = "flushed"
               /\ status[k] \notin {"writing", "failed"}
    <3>1. k \in Ckpt /\ k <= epoch
      BY <2>1, SavesAssumption
    <3> QED
      BY <2>4, <3>1 DEF CountedInv, HandoffOK, HStatus, InHand
  <2>5. CASE epoch \notin InHand
    <3>1. \A j \in Ckpt : j > epoch /\ Opened(j) => target[j] # target[epoch]
      BY <2>0, <2>1, <2>2, <2>3, SavesAssumption
    <3> QED
      BY <2>1, <2>4, <2>5, <3>1, SavedIsWhole
  <2>6. CASE epoch \in InHand /\ saves = epoch + 1 /\ Opened(saves)
    <3>1. saves \notin InHand
      BY <2>6, SavesAssumption, <2>1, OneInHand
    <3>2. /\ saves \in fallen \/ status[saves] = "flushed"
          /\ status[saves] \notin {"writing", "failed"}
      BY <2>1, <2>6, <3>1 DEF Opened, InHand
    <3>3. \A j \in Ckpt : j > saves /\ Opened(j) => target[j] # target[saves]
      BY <2>1, <2>2, SavesAssumption
    <3> QED
      BY <2>1, <3>2, <3>3, SavedIsWhole
  <2>7. CASE epoch \in InHand /\ ~(saves = epoch + 1 /\ Opened(saves))
    <3>1. epoch - 1 \notin InHand
      BY <2>7, SavesAssumption, <2>1, OneInHand
    <3>2. \A j \in Ckpt :
            j > epoch - 1 /\ Opened(j) => target[j] # target[epoch - 1]
      <4> SUFFICES ASSUME NEW j \in Ckpt, j > epoch - 1, Opened(j)
                   PROVE  target[j] # target[epoch - 1]
        OBVIOUS
      <4>1. j = epoch
        BY <2>0, <2>1, <2>2, <2>7, SavesAssumption
      <4> QED
        BY <2>3, <4>1
    <3> QED
      BY <2>1, <2>4, <3>1, <3>2, SavedIsWhole
  <2> QED
    BY <2>5, <2>6, <2>7
<1> QED
  BY <1>1, FlowTyping, HandoffTyping, FilesTyping, Offers, Paths, Parts, Newest,
     Counted, PTL

-----------------------------------------------------------------------------
(***************************************************************************)
(* The training loop around the client: for any number of steps and any    *)
(* interval, what the trainer counts and what a crash of the job costs.    *)
(***************************************************************************)

\* What a division leaves, and what the next number's division is.
LEMMA DivMod ==
  ASSUME NEW n \in Nat, NEW d \in Nat \ {0}
  PROVE  n \div d \in Int /\ n % d \in 0..(d - 1) /\ n = d * (n \div d) + (n % d)
OBVIOUS

LEMMA DivMono ==
  ASSUME NEW m \in Nat, NEW n \in Nat, m <= n, NEW d \in Nat \ {0}
  PROVE  m \div d <= n \div d
OBVIOUS

LEMMA DivNext ==
  ASSUME NEW n \in Nat, NEW d \in Nat \ {0}
  PROVE  (n + 1) \div d = IF (n + 1) % d = 0 THEN n \div d + 1 ELSE n \div d
<1> DEFINE q == n \div d
           r == n % d
           u == (n + 1) \div d
           v == (n + 1) % d
<1>1. /\ q \in Int /\ u \in Int /\ r \in 0..(d - 1) /\ v \in 0..(d - 1)
      /\ n = d * q + r /\ n + 1 = d * u + v
  OBVIOUS
<1> HIDE DEF q, r, u, v
<1>2. d * (u - q) = r + 1 - v
  BY <1>1
<1>3. u - q \in Int /\ r + 1 - v \in (2 - d)..d
  BY <1>1
<1>4. u - q < 2
  BY <1>2, <1>3
<1>5. u - q > -1
  BY <1>2, <1>3
<1> QED
  BY <1>1, <1>2, <1>3, <1>4, <1>5 DEF q, u, v

LEMMA Numbers ==
  /\ Interval \in Nat \ {0} /\ TotalSteps \in Nat \ {0}
  /\ 0 \div Interval = 0 /\ 0 % Interval = 0
<1>1. Interval \in Nat \ {0} /\ TotalSteps \in Nat \ {0}
  BY TrainingAssumption DEF ValidArguments
<1> QED
  BY <1>1

-----------------------------------------------------------------------------
\* The loop changes nothing of the client: its theorems hold under it too.
LEMMA TrainingSteps == TSpec => Spec
<1>1. TInit => Init
  BY DEF TInit
<1>2. [TNext]_tvars => [Next]_vars
  BY DEF TNext, Batch, CallSave, Finish, Behind, Next, tvars
<1> QED
  BY <1>1, <1>2, PTL DEF TSpec, Spec

\* One checkpoint for each interval that is over, the current one on its way.
LoopInv ==
  /\ TTypeOK
  /\ saves = IF loop = "save" THEN step \div Interval - 1
                              ELSE step \div Interval
  /\ loop = "save" \/ phase # "training" => step % Interval = 0
  /\ loop \in {"save", "finished"} => phase = "training"
  /\ loop = "finished" => step = TotalSteps

LEMMA Looping == TSpec => []LoopInv
<1> USE DEF LoopInv, TTypeOK
<1>1. TInit => LoopInv
  BY Numbers DEF TInit, Init
<1>2. FlowOK /\ LoopInv /\ [TNext]_tvars => LoopInv'
  <2> SUFFICES ASSUME FlowOK, LoopInv, [TNext]_tvars
               PROVE  LoopInv'
    OBVIOUS
  <2>1. CASE Batch
    <3>1. /\ step \in Nat /\ step < TotalSteps /\ step' = step + 1
          /\ loop = "batch" /\ phase = "training"
          /\ saves' = saves /\ phase' = phase
          /\ loop' = IF step' % Interval = 0 THEN "save" ELSE "batch"
      BY <2>1, Numbers DEF Batch, GoesOn, SaveIsDue, vars, trainer
    <3>2. step' \div Interval = IF step' % Interval = 0
                                  THEN step \div Interval + 1
                                  ELSE step \div Interval
      BY <3>1, Numbers, DivNext
    <3>3. step \div Interval \in Int
      BY <3>1, Numbers, DivMod
    <3> HIDE DEF FlowOK
    <3>4. step' \in 0..TotalSteps
      BY <3>1, Numbers
    <3>5. CASE step' % Interval = 0
      BY <3>1, <3>2, <3>3, <3>4, <3>5
    <3>6. CASE step' % Interval # 0
      BY <3>1, <3>2, <3>3, <3>4, <3>6
    <3> QED
      BY <3>5, <3>6
  <2>2. CASE CallSave
    <3>1. /\ loop = "save" /\ loop' = "batch" /\ step' = step
          /\ saves' = saves + 1 /\ phase' = "calling"
      BY <2>2 DEF CallSave, Save
    <3>2. step \div Interval \in Int
      BY Numbers, DivMod
    <3> QED
      BY <3>1, <3>2
  <2>3. CASE Finish
    <3>1. /\ loop = "batch" /\ loop' = "finished" /\ phase = "training"
          /\ UNCHANGED <<step, saves, phase>> /\ ~(step < TotalSteps)
      BY <2>3 DEF Finish, GoesOn, vars, trainer
    <3> QED
      BY <3>1, Numbers
  <2>4. CASE Behind
    <3>1. UNCHANGED <<step, loop>>
      BY <2>4 DEF Behind
    <3>2. UNCHANGED saves /\ (phase = "training" => UNCHANGED phase)
      <4>1. CASE CallReturns \/ CallFails
        BY <4>1 DEF CallReturns, CallFails
      <4>2. CASE FallbackSaves \/ FallbackFails
        BY <4>2 DEF FallbackSaves, FallbackFails
      <4>3. ASSUME NEW k \in Ckpt, Migrates(k)
            PROVE  UNCHANGED saves /\ UNCHANGED phase
        BY <4>3 DEF Migrates, Accept, Refuse, Start, Truncate, Flush, Fail
      <4>4. CASE Close
        BY <4>4 DEF Close
      <4> QED
        BY <2>4, <4>1, <4>2, <4>3, <4>4 DEF Behind, Next, Migrates
    <3> QED
      BY <3>1, <3>2
  <2>5. CASE UNCHANGED tvars
    BY <2>5 DEF tvars, vars, trainer
  <2> QED
    BY <2>1, <2>2, <2>3, <2>4, <2>5 DEF TNext
<1> QED
  BY <1>1, <1>2, TrainingSteps, FlowTyping, PTL DEF TSpec

\* The loop ends at TotalSteps and is always in one of its three places
\* (trainer.py 57-109).
THEOREM TrainingTyping == TSpec => []TTypeOK
<1>1. LoopInv => TTypeOK
  BY DEF LoopInv
<1> QED
  BY <1>1, Looping, PTL

\* The epoch of a checkpoint is at most the total that it is sent with, and a
\* training that finishes has counted exactly as many, for any steps and any
\* interval (train.py 147, trainer.py 76-106).
THEOREM TrainingEpochsFit == TSpec => []EpochsFit
<1>1. FlowOK /\ LoopInv => EpochsFit
  <2> SUFFICES ASSUME FlowOK, LoopInv
               PROVE  EpochsFit
    OBVIOUS
  <2>1. step \in Nat /\ step <= TotalSteps
    BY Numbers DEF LoopInv, TTypeOK
  <2>2. step \div Interval <= TotalSteps \div Interval
    BY <2>1, Numbers, DivMono
  <2>3. step \div Interval \in Int /\ TotalSteps \div Interval \in Int
    BY <2>1, Numbers, DivMod
  <2>4. epoch \in Int /\ saves \in Int /\ epoch <= saves
    BY SavesAssumption DEF FlowOK, CountInv
  <2>5. epoch <= TotalEpochs
    BY <2>2, <2>3, <2>4 DEF LoopInv, TotalEpochs
  <2>6. ASSUME loop = "finished"
        PROVE  epoch = TotalEpochs
    BY <2>6 DEF LoopInv, TotalEpochs, FlowOK, CountInv
  <2> QED
    BY <2>5, <2>6 DEF EpochsFit
<1> QED
  BY <1>1, TrainingSteps, FlowTyping, Looping, PTL

\* What a crash of the job may cost: with one checkpoint in hand at most, and
\* none of the last refused or failed, a whole file on the PFS is at most two
\* intervals old, from the second checkpoint on (trainer.py 81-100,
\* checkpoint.py 267-277).
THEOREM TrainingWorkIsKept ==
  ASSUME Lag \in 0..1
  PROVE  TSpec => []WorkIsKept
<1>1. FlowOK /\ FilesOK /\ LoopInv /\ PreviousKept => WorkIsKept
  <2> SUFFICES ASSUME FlowOK, FilesOK, LoopInv,
                      NEW k \in {epoch - 1, epoch, saves}, IsWhole(k),
                      epoch >= 2
               PROVE  \E p \in Path : /\ file[p].whole
                                      /\ step - file[p].ckpt * Interval
                                           <= 2 * Interval
    BY DEF WorkIsKept, PreviousKept
  <2>1. k \in Ckpt /\ k \in Int /\ k >= epoch - 1 /\ epoch \in Int /\ saves \in Int
    BY SavesAssumption DEF FlowOK, CountInv
  <2>2. /\ target[k] \in Path /\ file[target[k]].whole
        /\ file[target[k]].ckpt = k
    BY <2>1 DEF FilesOK, IsWhole, Whole
  <2> DEFINE q == step \div Interval
             r == step % Interval
  <2>3. q \in Int /\ r \in 0..(Interval - 1) /\ step = Interval * q + r
    BY Numbers, DivMod DEF LoopInv, TTypeOK
  <2>4. q - k <= 1 \/ (q - k = 2 /\ r = 0)
    BY <2>1, <2>3 DEF LoopInv, FlowOK, CountInv
  <2> HIDE DEF q, r
  <2>5. step - k * Interval = Interval * (q - k) + r
    BY <2>1, <2>3, Numbers
  <2>6. q - k \in Int /\ q - k <= 1 => Interval * (q - k) <= Interval
    BY Numbers
  <2>7. step - k * Interval <= 2 * Interval
    BY <2>1, <2>3, <2>4, <2>5, <2>6, Numbers
  <2> QED
    BY <2>2, <2>7
<1> QED
  BY <1>1, TrainingSteps, FlowTyping, FilesTyping, Looping, PreviousStays, PTL
=============================================================================
