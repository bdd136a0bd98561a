-------------------------- MODULE AggregatesProofs --------------------------
(***************************************************************************)
(* Proofs about the aggregates, for every set of keys, actions, prices and *)
(* processors and every width of the two fields.                           *)
(*                                                                         *)
(* The inductive invariant says what a bin holds: the number of additions  *)
(* times the width of the sum, plus the sum (BinsPacked), and that a       *)
(* processor at work holds a tag.  What a reader decodes then follows from *)
(* the arithmetic of the two fields (Unpack).                              *)
(***************************************************************************)
EXTENDS Aggregates, Division, FiniteSetTheorems, TLAPS

BinsPacked ==
    \A k \in Keys, a \in Actions :
        IF record[k][a] = NoBin
          THEN count[k][a] = 0 /\ sum[k][a] = 0
          ELSE record[k][a] = count[k][a] * SumWidth + sum[k][a]

TagsHeld == \A q \in Processors : pc[q] # "idle" => tag[q] \in Tag

IInv == TypeOK /\ BinsPacked /\ TagsHeld /\ TagsAccounted

-----------------------------------------------------------------------------
(* The two fields of a bin.                                                *)

\* Decoding a packed count and sum that fit gives them back.
LEMMA Unpack ==
    ASSUME NEW c \in Nat, NEW s \in Nat, c < CountWidth, s < SumWidth
    PROVE  DecodeSumAndCount(c * SumWidth + s) = [sum |-> s, count |-> c]
<1> DEFINE v == c * SumWidth + s
<1> DEFINE d == v \div SumWidth
<1> DEFINE m == v % SumWidth
<1>1. v \in Nat /\ SumWidth \in Nat \ {0}
  BY WidthsAssumption
<1>2. /\ d \in Int /\ m \in Int
      /\ v = d * SumWidth + m
      /\ 0 <= m /\ m < SumWidth
  <2> HIDE DEF v
  <2> QED
    BY <1>1, Division
<1>3. c = d /\ s = m
  <2>1. c * SumWidth + s = d * SumWidth + m
    BY <1>2
  <2> HIDE DEF d, m
  <2> QED
    BY <1>1, <1>2, <2>1, DivisionUnique
<1>4. c % CountWidth = c
  BY WidthsAssumption
<1>5. DecodeSumAndCount(v) = [sum |-> m, count |-> d % CountWidth]
  BY DEF DecodeSumAndCount
<1> QED
  <2> HIDE DEF d, m
  <2> QED
    BY <1>3, <1>4, <1>5

-----------------------------------------------------------------------------
(* The record and its history.                                             *)

StoreTypeOK ==
    /\ record \in [Keys -> [Actions -> Nat \cup {NoBin}]]
    /\ count \in [Keys -> [Actions -> Nat]]
    /\ sum \in [Keys -> [Actions -> Nat]]
    /\ applied \in Nat

StoreInv == StoreTypeOK /\ BinsPacked

LEMMA TagFields ==
    ASSUME NEW t \in Tag
    PROVE  t.key \in Keys /\ t.action \in Actions /\ t.price \in Nat
BY PricesAssumption DEF Tag

\* Adding a tag to a bin keeps it packed.
LEMMA AddPacks ==
    ASSUME StoreInv, NEW t \in Tag, AddToBin(t), Count(t)
    PROVE  StoreInv' /\ applied' = applied + 1
<1>1. t.key \in Keys /\ t.action \in Actions /\ t.price \in Nat /\ SumWidth \in Nat
  BY TagFields, WidthsAssumption
<1>2. StoreTypeOK'
  BY <1>1 DEF StoreInv, StoreTypeOK, AddToBin, Count, EncodeSumAndCount, NoBin
<1>3. ASSUME NEW k \in Keys, NEW a \in Actions
      PROVE  IF record'[k][a] = NoBin
               THEN count'[k][a] = 0 /\ sum'[k][a] = 0
               ELSE record'[k][a] = count'[k][a] * SumWidth + sum'[k][a]
  <2>1. CASE k = t.key /\ a = t.action
    <3> DEFINE b == record[k][a]
               n == count[k][a]
               u == sum[k][a]
    <3>1. /\ b \in Nat \cup {NoBin} /\ n \in Nat /\ u \in Nat
          /\ IF b = NoBin THEN n = 0 /\ u = 0 ELSE b = n * SumWidth + u
      BY <1>3 DEF StoreInv, StoreTypeOK, BinsPacked
    <3>2. /\ record'[k][a] = (IF b = NoBin THEN 0 ELSE b) + (SumWidth + t.price)
          /\ count'[k][a] = n + 1
          /\ sum'[k][a] = u + t.price
      BY <1>1, <2>1 DEF StoreInv, StoreTypeOK, AddToBin, Count, EncodeSumAndCount
    <3>3. (n + 1) * SumWidth = n * SumWidth + SumWidth
      BY <1>1, <3>1
    <3>4. n * SumWidth \in Nat
      BY <1>1, <3>1
    <3> HIDE DEF b, n, u
    <3> QED
      BY <1>1, <3>1, <3>2, <3>3, <3>4 DEF NoBin
  <2>2. CASE ~ (k = t.key /\ a = t.action)
    <3>1. /\ record'[k][a] = record[k][a]
          /\ count'[k][a] = count[k][a]
          /\ sum'[k][a] = sum[k][a]
      BY <1>1, <2>2 DEF StoreInv, StoreTypeOK, AddToBin, Count
    <3> QED
      BY <3>1 DEF StoreInv, BinsPacked
  <2> QED
    BY <2>1, <2>2
<1> QED
  BY <1>2, <1>3 DEF StoreInv, BinsPacked, Count

\* Creating a record that does not exist: its bins had no additions.
LEMMA CreatePacks ==
    ASSUME StoreInv, NEW t \in Tag, ~ Exists(t.key), CreateRecord(t), Count(t)
    PROVE  StoreInv' /\ applied' = applied + 1
<1>1. t.key \in Keys /\ t.action \in Actions /\ t.price \in Nat /\ SumWidth \in Nat
  BY TagFields, WidthsAssumption
<1>2. StoreTypeOK'
  BY <1>1 DEF StoreInv, StoreTypeOK, CreateRecord, NoRecord, Count, EncodeSumAndCount, NoBin
<1>3. \A a \in Actions : record[t.key][a] = NoBin
  BY DEF Exists, NoRecord
<1>4. \A a \in Actions : count[t.key][a] = 0 /\ sum[t.key][a] = 0
  BY <1>1, <1>3 DEF StoreInv, BinsPacked
<1>5. ASSUME NEW k \in Keys, NEW a \in Actions
      PROVE  IF record'[k][a] = NoBin
               THEN count'[k][a] = 0 /\ sum'[k][a] = 0
               ELSE record'[k][a] = count'[k][a] * SumWidth + sum'[k][a]
  <2>1. CASE k = t.key /\ a = t.action
    <3>1. /\ record'[k][a] = SumWidth + t.price
          /\ count'[k][a] = 1
          /\ sum'[k][a] = t.price
      BY <1>1, <1>4, <2>1
      DEF StoreInv, StoreTypeOK, CreateRecord, NoRecord, Count, EncodeSumAndCount
    <3> QED
      BY <1>1, <3>1 DEF NoBin
  <2>2. CASE k = t.key /\ a # t.action
    <3>1. record'[k][a] = NoBin /\ count'[k][a] = 0 /\ sum'[k][a] = 0
      BY <1>1, <1>4, <2>2 DEF StoreInv, StoreTypeOK, CreateRecord, NoRecord, Count
    <3> QED
      BY <3>1
  <2>3. CASE k # t.key
    <3>1. /\ record'[k][a] = record[k][a]
          /\ count'[k][a] = count[k][a]
          /\ sum'[k][a] = sum[k][a]
      BY <1>1, <2>3 DEF StoreInv, StoreTypeOK, CreateRecord, Count
    <3> QED
      BY <3>1 DEF StoreInv, BinsPacked
  <2> QED
    BY <2>1, <2>2, <2>3
<1> QED
  BY <1>2, <1>5 DEF StoreInv, BinsPacked, Count

\* A record that expires takes its history with it.
LEMMA ExpirePacks ==
    ASSUME StoreInv, NEW k \in Keys, Expire(k)
    PROVE  StoreInv'
<1>1. StoreTypeOK'
  BY DEF StoreInv, StoreTypeOK, Expire, NoRecord, Zero
<1>2. ASSUME NEW j \in Keys, NEW a \in Actions
      PROVE  IF record'[j][a] = NoBin
               THEN count'[j][a] = 0 /\ sum'[j][a] = 0
               ELSE record'[j][a] = count'[j][a] * SumWidth + sum'[j][a]
  <2>1. CASE j = k
    BY <2>1 DEF StoreInv, StoreTypeOK, Expire, NoRecord, Zero
  <2>2. CASE j # k
    <3>1. /\ record'[j][a] = record[j][a]
          /\ count'[j][a] = count[j][a]
          /\ sum'[j][a] = sum[j][a]
      BY <2>2 DEF StoreInv, StoreTypeOK, Expire
    <3> QED
      BY <3>1 DEF StoreInv, BinsPacked
  <2> QED
    BY <2>1, <2>2
<1> QED
  BY <1>1, <1>2 DEF StoreInv, BinsPacked

LEMMA StoreUnchanged ==
    ASSUME StoreInv, UnchangedStore
    PROVE  StoreInv' /\ applied' = applied
BY DEF StoreInv, StoreTypeOK, BinsPacked, UnchangedStore

-----------------------------------------------------------------------------
(* The processors.                                                         *)

PcTypeOK == pc \in [Processors -> Steps]

BusyCount == Cardinality(Busy)

LEMMA BusyFinite == IsFiniteSet(Busy) /\ BusyCount \in Nat
BY ProcessorsAssumption, FS_Subset, FS_CardinalityType DEF Busy, BusyCount

\* A processor that takes a tag is one more at work.
LEMMA BusyMore ==
    ASSUME PcTypeOK, NEW q \in Processors, NEW s \in Steps,
           pc[q] = "idle", s # "idle", Goto(q, s)
    PROVE  PcTypeOK' /\ BusyCount' = BusyCount + 1
<1>1. Busy' = Busy \cup {q} /\ q \notin Busy
  BY DEF PcTypeOK, Goto, Busy
<1> QED
  BY <1>1, BusyFinite, FS_AddElement DEF PcTypeOK, Goto, BusyCount

\* One that is done is one less.
LEMMA BusyLess ==
    ASSUME PcTypeOK, NEW q \in Processors, pc[q] # "idle", Goto(q, "idle")
    PROVE  PcTypeOK' /\ BusyCount' = BusyCount - 1
<1>1. Busy' = Busy \ {q} /\ q \in Busy
  BY DEF PcTypeOK, Goto, Busy
<1> QED
  BY <1>1, BusyFinite, FS_RemoveElement DEF PcTypeOK, Goto, BusyCount, Steps

LEMMA BusySame ==
    ASSUME PcTypeOK, NEW q \in Processors, NEW s \in Steps,
           pc[q] # "idle", s # "idle", Goto(q, s)
    PROVE  PcTypeOK' /\ BusyCount' = BusyCount
<1>1. Busy' = Busy
  BY DEF PcTypeOK, Goto, Busy
<1> QED
  BY <1>1 DEF PcTypeOK, Goto, BusyCount

-----------------------------------------------------------------------------
(* The invariant.                                                          *)

\* What TypeOK says beyond the store and the program counters.
RestTypeOK ==
    /\ tag \in [Processors -> Tag \cup {NoTag}]
    /\ taken \in 0 .. MaxTags
    /\ doubts \in Nat
    /\ dropped \in Nat
    /\ faults \in 0 .. MaxFaults

LEMMA Parts ==
    IInv <=> StoreInv /\ PcTypeOK /\ RestTypeOK /\ TagsHeld /\ TagsAccounted
BY DEF IInv, TypeOK, StoreInv, StoreTypeOK, PcTypeOK, RestTypeOK

LEMMA InitInvariant == Init => IInv
<1> SUFFICES ASSUME Init PROVE IInv
  OBVIOUS
<1>1. TypeOK
  BY BoundsAssumption DEF Init, TypeOK, NoRecord, Zero, Steps
<1>2. BinsPacked
  BY DEF Init, BinsPacked, NoRecord, Zero
<1>3. TagsHeld
  BY DEF Init, TagsHeld
<1>4. TagsAccounted
  <2>1. Busy = {}
    BY DEF Init, Busy
  <2> QED
    BY <2>1, FS_EmptySet DEF Init, TagsAccounted
<1> QED
  BY <1>1, <1>2, <1>3, <1>4 DEF IInv

\* A fault stays within its bound.
LEMMA FaultCounted ==
    ASSUME faults \in 0 .. MaxFaults, Fault
    PROVE  faults' \in 0 .. MaxFaults
BY BoundsAssumption DEF Fault

\* The invariant is kept by the steps of one processor.
LEMMA ProcessorStep ==
    ASSUME IInv, NEW q \in Processors,
           \/ \E t \in Tag : Take(q, t)
           \/ Process(q)
           \/ Fails(q)
           \/ InDoubt(q)
           \/ GiveUp(q)
    PROVE  IInv'
<1> DEFINE t == tag[q]
<1>1. StoreInv /\ PcTypeOK /\ RestTypeOK /\ TagsHeld /\ TagsAccounted
  BY Parts
<1>2. BusyCount \in Nat /\ applied \in Nat /\ taken \in Nat /\ doubts \in Nat /\ dropped \in Nat
  BY <1>1, BusyFinite, BoundsAssumption DEF RestTypeOK, StoreInv, StoreTypeOK
<1>3. applied + BusyCount + dropped = taken + doubts
  BY <1>1 DEF TagsAccounted, BusyCount
<1> SUFFICES StoreInv' /\ PcTypeOK' /\ RestTypeOK' /\ TagsHeld' /\ TagsAccounted'
  BY DEF IInv, TypeOK, StoreInv, StoreTypeOK, PcTypeOK, RestTypeOK
<1>4. TagsAccounted' <=> applied' + BusyCount' + dropped' = taken' + doubts'
  BY DEF TagsAccounted, BusyCount
<1>5. ASSUME pc[q] # "idle" PROVE t \in Tag
  BY <1>1, <1>5 DEF TagsHeld
\* A step that only moves on, with the tag, and without an addition.
<1>6. ASSUME NEW s \in Steps, s # "idle", pc[q] # "idle", Goto(q, s), UnchangedStore,
             UNCHANGED <<tag, taken, doubts, dropped>>, faults' \in 0 .. MaxFaults
      PROVE  StoreInv' /\ PcTypeOK' /\ RestTypeOK' /\ TagsHeld' /\ TagsAccounted'
  <2>1. StoreInv' /\ applied' = applied
    BY <1>1, <1>6, StoreUnchanged
  <2>2. PcTypeOK' /\ BusyCount' = BusyCount
    BY <1>1, <1>6, BusySame
  <2>3. RestTypeOK'
    BY <1>1, <1>6 DEF RestTypeOK
  <2>4. TagsHeld'
    BY <1>1, <1>6 DEF TagsHeld, PcTypeOK, Goto
  <2> QED
    BY <1>3, <1>4, <1>6, <2>1, <2>2, <2>3, <2>4
\* A step that ends the work on the tag, having added a tags and given up d.
<1>7. ASSUME NEW a \in Nat, NEW d \in Nat, a + d = 1,
             StoreInv', applied' = applied + a, dropped' = dropped + d,
             pc[q] # "idle", Finish(q), UNCHANGED <<taken, doubts, faults>>
      PROVE  StoreInv' /\ PcTypeOK' /\ RestTypeOK' /\ TagsHeld' /\ TagsAccounted'
  <2>1. PcTypeOK' /\ BusyCount' = BusyCount - 1
    BY <1>1, <1>7, BusyLess DEF Finish
  <2>2. RestTypeOK'
    BY <1>1, <1>7 DEF RestTypeOK, Finish
  <2>3. TagsHeld'
    BY <1>1, <1>7 DEF TagsHeld, PcTypeOK, RestTypeOK, Finish, Goto
  <2>4. TagsAccounted'
    BY <1>2, <1>3, <1>4, <1>7, <2>1
  <2> QED
    BY <1>7, <2>1, <2>2, <2>3, <2>4
<1>8. ASSUME NEW u \in Tag, Take(q, u)
      PROVE  StoreInv' /\ PcTypeOK' /\ RestTypeOK' /\ TagsHeld' /\ TagsAccounted'
  <2>1. StoreInv' /\ applied' = applied
    BY <1>1, <1>8, StoreUnchanged DEF Take
  <2>2. PcTypeOK' /\ BusyCount' = BusyCount + 1
    BY <1>1, <1>8, BusyMore DEF Take, Steps
  <2>3. RestTypeOK'
    BY <1>1, <1>8, BoundsAssumption DEF RestTypeOK, Take
  <2>4. TagsHeld'
    BY <1>1, <1>8 DEF TagsHeld, PcTypeOK, RestTypeOK, Take, Goto
  <2>5. TagsAccounted'
    <3>1. taken' = taken + 1 /\ dropped' = dropped /\ doubts' = doubts
      BY <1>8 DEF Take
    <3> QED
      BY <1>2, <1>3, <1>4, <2>1, <2>2, <3>1
  <2> QED
    BY <2>1, <2>2, <2>3, <2>4, <2>5
<1>9. CASE GetIds(q)
  BY <1>1, <1>6, <1>9 DEF GetIds, Steps, RestTypeOK
<1>10. CASE Operate(q)
  <2>1. CASE Exists(t.key) /\ AddToBin(t) /\ Count(t) /\ Finish(q)
    <3>1. t \in Tag /\ pc[q] # "idle"
      BY <1>5, <1>10 DEF Operate
    <3>2. StoreInv' /\ applied' = applied + 1
      BY <1>1, <2>1, <3>1, AddPacks
    <3>3. dropped' = dropped + 0
      BY <1>2, <1>10 DEF Operate
    <3> QED
      BY <1>7, <1>10, <2>1, <3>1, <3>2, <3>3 DEF Operate
  <2>2. CASE Goto(q, "put") /\ UnchangedStore /\ UNCHANGED tag
    BY <1>1, <1>6, <1>10, <2>2 DEF Operate, Steps, RestTypeOK
  <2> QED
    BY <1>10, <2>1, <2>2 DEF Operate
<1>11. CASE Put(q)
  <2>1. CASE MayCreate(t.key) /\ CreateRecord(t) /\ Count(t) /\ Finish(q)
    <3>1. t \in Tag /\ pc[q] # "idle"
      BY <1>5, <1>11 DEF Put
    <3>2. StoreInv' /\ applied' = applied + 1
      BY <1>1, <2>1, <3>1, CreatePacks DEF MayCreate
    <3>3. dropped' = dropped + 0
      BY <1>2, <1>11 DEF Put
    <3> QED
      BY <1>7, <1>11, <2>1, <3>1, <3>2, <3>3 DEF Put
  <2>2. CASE Goto(q, "backoff") /\ UnchangedStore /\ UNCHANGED tag
    BY <1>1, <1>6, <1>11, <2>2 DEF Put, Steps, RestTypeOK
  <2> QED
    BY <1>11, <2>1, <2>2 DEF Put
<1>12. CASE Retry(q)
  BY <1>1, <1>6, <1>12 DEF Retry, Steps, RestTypeOK
<1>13. CASE Fails(q)
  <2>1. faults' \in 0 .. MaxFaults
    BY <1>1, <1>13, FaultCounted DEF Fails, RestTypeOK
  <2> QED
    BY <1>6, <1>13, <2>1 DEF Fails, Steps
<1>14. CASE InDoubt(q)
  <2>1. t \in Tag /\ pc[q] # "idle"
    BY <1>5, <1>14 DEF InDoubt
  <2>2. StoreInv' /\ applied' = applied + 1
    <3>1. CASE AddToBin(t)
      BY <1>1, <1>14, <2>1, <3>1, AddPacks DEF InDoubt
    <3>2. CASE MayCreate(t.key) /\ CreateRecord(t)
      BY <1>1, <1>14, <2>1, <3>2, CreatePacks DEF InDoubt, MayCreate
    <3> QED
      BY <1>14, <3>1, <3>2 DEF InDoubt
  <2>3. PcTypeOK' /\ BusyCount' = BusyCount
    BY <1>1, <1>14, <2>1, BusySame DEF InDoubt, Steps
  <2>4. RestTypeOK'
    BY <1>1, <1>14, FaultCounted DEF InDoubt, RestTypeOK
  <2>5. TagsHeld'
    BY <1>1, <1>14, <2>1 DEF TagsHeld, PcTypeOK, InDoubt, Goto
  <2>6. TagsAccounted'
    <3>1. taken' = taken /\ dropped' = dropped /\ doubts' = doubts + 1
      BY <1>14 DEF InDoubt
    <3> QED
      BY <1>2, <1>3, <1>4, <2>2, <2>3, <3>1
  <2> QED
    BY <2>2, <2>3, <2>4, <2>5, <2>6
<1>15. CASE GiveUp(q)
  <2>1. StoreInv' /\ applied' = applied + 0
    BY <1>1, <1>2, <1>15, StoreUnchanged DEF GiveUp
  <2> QED
    BY <1>7, <1>15, <2>1 DEF GiveUp
<1> QED
  BY <1>8, <1>9, <1>10, <1>11, <1>12, <1>13, <1>14, <1>15 DEF Process

LEMMA StepInvariant == IInv /\ [Next]_vars => IInv'
<1> SUFFICES ASSUME IInv, [Next]_vars PROVE IInv'
  OBVIOUS
<1>1. ASSUME NEW k \in Keys, Expire(k) PROVE IInv'
  <2>1. StoreInv /\ PcTypeOK /\ RestTypeOK /\ TagsHeld /\ TagsAccounted
    BY Parts
  <2>2. StoreInv'
    BY <1>1, <2>1, ExpirePacks
  <2>3. RestTypeOK'
    BY <1>1, <2>1, FaultCounted DEF Expire, RestTypeOK
  <2>4. PcTypeOK' /\ TagsHeld' /\ TagsAccounted'
    BY <1>1, <2>1 DEF Expire, PcTypeOK, TagsHeld, TagsAccounted, Busy
  <2> QED
    BY <2>2, <2>3, <2>4
    DEF IInv, TypeOK, StoreInv, StoreTypeOK, PcTypeOK, RestTypeOK
<1>2. CASE UNCHANGED vars
  BY <1>2 DEF vars, IInv, TypeOK, BinsPacked, TagsHeld, TagsAccounted, Busy
<1>3. CASE Next
  BY <1>1, <1>3, ProcessorStep DEF Next
<1> QED
  BY <1>2, <1>3

(***************************************************************************)
(* The invariant holds in every reachable state.                           *)
(***************************************************************************)
THEOREM Invariance == Spec => []IInv
BY InitInvariant, StepInvariant, PTL DEF Spec

(***************************************************************************)
(* Type correctness: a bin holds a natural number or is absent, and a      *)
(* processor is at one of the steps of updateAggregates.                   *)
(***************************************************************************)
THEOREM TypeCorrect == Spec => []TypeOK
<1>1. IInv => TypeOK
  BY DEF IInv
<1> QED
  BY <1>1, Invariance, PTL

(***************************************************************************)
(* What a reader decodes is the number of additions and the sum of their   *)
(* prices, for any number of processors that race to create a record, as   *)
(* long as both fit their fields.                                          *)
(***************************************************************************)
THEOREM AggregatesCorrect == Spec => []AggregatesExact
<1>1. ASSUME IInv PROVE AggregatesExact
  <2> SUFFICES ASSUME NEW k \in Keys, NEW a \in Actions,
                      count[k][a] < CountWidth, sum[k][a] < SumWidth
               PROVE  Decoded(k, a) = [sum |-> sum[k][a], count |-> count[k][a]]
    BY DEF AggregatesExact
  <2> DEFINE n == count[k][a]
             u == sum[k][a]
  <2>1. n \in Nat /\ u \in Nat /\ SumWidth \in Nat
    BY <1>1, WidthsAssumption DEF IInv, TypeOK
  <2>2. (IF record[k][a] = NoBin THEN 0 ELSE record[k][a]) = n * SumWidth + u
    BY <1>1, <2>1 DEF IInv, BinsPacked
  <2>3. Decoded(k, a) = DecodeSumAndCount(n * SumWidth + u)
    BY <2>2 DEF Decoded
  <2> QED
    BY <2>1, <2>3, Unpack
<1> QED
  BY <1>1, Invariance, PTL

(***************************************************************************)
(* No tag a processor took is lost or added twice, but for the writes      *)
(* whose answer was lost and the tags that were given up.                  *)
(***************************************************************************)
THEOREM TagsAreAccounted == Spec => []TagsAccounted
<1>1. IInv => TagsAccounted
  BY DEF IInv
<1> QED
  BY <1>1, Invariance, PTL
=============================================================================
