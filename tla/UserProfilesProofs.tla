-------------------------- MODULE UserProfilesProofs --------------------------
(***************************************************************************)
(* Proofs about the user profile, for every set of times and actions, any  *)
(* number of handlers and every limit that is at most the threshold.       *)
(*                                                                         *)
(* The inductive invariant adds to the properties what a collector knows:  *)
(* as long as the generation is the one it read, the bin holds exactly its *)
(* excess over the limit (RemovalsCurrent).  So a removal that passes the  *)
(* generation check leaves exactly the Limit newest tags (TrimOldest).     *)
(*                                                                         *)
(* What a reader gets is proved in two halves.  The loop of convertTags,   *)
(* over the entries of the bin in ascending order, selects the newest tags *)
(* of the range (Walked is its invariant, AnswerIsNewest what it comes     *)
(* to); and what was removed of all tags ever stored does not show in what *)
(* a reader may ask for (RemovedNotMissed).                                *)
(***************************************************************************)
EXTENDS UserProfiles, FiniteSetTheorems, FunctionTheorems, SequenceTheorems,
        WellFoundedInduction, TLAPS

RemovalsCurrent ==
    \A k \in Handlers :
        pc[k] = "remove" =>
            /\ expected[k] <= generation
            /\ expected[k] = generation =>
                 Cardinality(bin[action[k]]) = Limit + toRemove[k]

IInv ==
    /\ VariablesTyped
    /\ ActionsKnown
    /\ RemovalsCurrent
    /\ NewestRetained
    /\ OverThresholdIsCollected

-----------------------------------------------------------------------------
(* Facts about finite sets of times.                                       *)

\* Storing a time keeps what is newer than another time.
LEMMA NewerGrows ==
    ASSUME NEW S \in SUBSET Times, IsFiniteSet(S), NEW s \in Times, NEW t \in Times
    PROVE  /\ IsFiniteSet(Newer(S \cup {s}, t))
           /\ Cardinality(Newer(S, t)) \in Nat
           /\ Cardinality(Newer(S \cup {s}, t)) \in Nat
           /\ Cardinality(Newer(S, t)) <= Cardinality(Newer(S \cup {s}, t))
<1>1. IsFiniteSet(S \cup {s})
  BY FS_AddElement
<1>2. IsFiniteSet(Newer(S \cup {s}, t))
  BY <1>1, FS_Subset DEF Newer
<1>3. Newer(S, t) \in SUBSET Newer(S \cup {s}, t)
  BY DEF Newer
<1> QED
  BY <1>2, <1>3, FS_Subset, FS_CardinalityType

\* Removing the lowest n of Limit + n times leaves Limit of them, all newer than the
\* removed ones, and takes nothing from a time that had Limit newer ones.
LEMMA TrimOldest ==
    ASSUME NEW S \in SUBSET Times, IsFiniteSet(S), NEW n \in Nat,
           Cardinality(S) = Limit + n,
           NEW R \in SUBSET S, IsLowest(R, S, n)
    PROVE  /\ IsFiniteSet(S \ R)
           /\ Cardinality(S \ R) = Limit
           /\ \A t \in R : Newer(S \ R, t) = S \ R
           /\ \A t \in Times : Cardinality(Newer(S, t)) >= Limit =>
                                Cardinality(Newer(S \ R, t)) >= Limit
<1>1. Cardinality(R) = n
  BY LimitAssumption DEF IsLowest
<1>2. IsFiniteSet(S \ R) /\ Cardinality(S \ R) = Limit
  <2>1. S \cap R = R
    OBVIOUS
  <2>2. IsFiniteSet(S \ R) /\ Cardinality(S \ R) = Cardinality(S) - Cardinality(R)
    BY <2>1, FS_Difference
  <2> QED
    BY <1>1, <2>2, LimitAssumption
<1>3. \A t \in R : Newer(S \ R, t) = S \ R
  BY TimesAssumption DEF IsLowest, Newer
<1>4. ASSUME NEW t \in Times, Cardinality(Newer(S, t)) >= Limit
      PROVE  Cardinality(Newer(S \ R, t)) >= Limit
  <2>1. CASE \E r \in R : r > t
    <3>1. PICK r \in R : r > t
      BY <2>1
    <3>2. ASSUME NEW s \in S \ R PROVE s > t
      <4>1. s \in Int /\ r \in Int /\ t \in Int
        BY TimesAssumption
      <4>2. r < s
        BY DEF IsLowest
      <4> QED
        BY <3>1, <4>1, <4>2
    <3>3. Newer(S \ R, t) = S \ R
      BY <3>2 DEF Newer
    <3> QED
      BY <1>2, <3>3, LimitAssumption
  <2>2. CASE ~ \E r \in R : r > t
    <3>1. Newer(S \ R, t) = Newer(S, t)
      BY <2>2 DEF Newer
    <3> QED
      BY <1>4, <3>1
  <2> QED
    BY <2>1, <2>2
<1> QED
  BY <1>2, <1>3, <1>4

-----------------------------------------------------------------------------
(* The two writes to the record.                                           *)

\* Storing a tag.
LEMMA PutKeeps ==
    ASSUME IInv, NEW a \in Actions, NEW t \in Times, MapPut(a, t)
    PROVE  /\ bin' \in [Actions -> SUBSET Times]
           /\ \A b \in Actions : IsFiniteSet(bin'[b])
           /\ \A b \in Actions : b # a => bin'[b] = bin[b]
           /\ generation' = generation + 1
           /\ added' \in [Actions -> SUBSET Times]
           /\ NewestRetained'
<1>0. /\ bin \in [Actions -> SUBSET Times] /\ added \in [Actions -> SUBSET Times]
      /\ \A b \in Actions : IsFiniteSet(bin[b])
  BY DEF IInv, VariablesTyped
<1>1. /\ bin' \in [Actions -> SUBSET Times] /\ added' \in [Actions -> SUBSET Times]
      /\ \A b \in Actions : b # a => bin'[b] = bin[b] /\ added'[b] = added[b]
      /\ bin'[a] = bin[a] \cup {t} /\ added'[a] = added[a] \cup {t}
      /\ generation' = generation + 1
  BY <1>0 DEF MapPut
<1>2. \A b \in Actions : IsFiniteSet(bin'[b])
  <2>1. IsFiniteSet(bin[a] \cup {t})
    BY <1>0, FS_AddElement
  <2> QED
    BY <1>0, <1>1, <2>1
<1>3. NewestRetained'
  <2> SUFFICES ASSUME NEW b \in Actions, NEW s \in added'[b] \ bin'[b]
               PROVE  Cardinality(Newer(bin'[b], s)) >= Limit
    BY DEF NewestRetained, Newer
  <2>1. s \in Times /\ s \in added[b] \ bin[b]
    BY <1>0, <1>1
  <2>2. Cardinality(Newer(bin[b], s)) >= Limit
    BY <2>1 DEF IInv, NewestRetained
  <2>3. CASE b = a
    <3>1. /\ Cardinality(Newer(bin[a], s)) \in Nat
          /\ Cardinality(Newer(bin[a] \cup {t}, s)) \in Nat
          /\ Cardinality(Newer(bin[a], s)) <= Cardinality(Newer(bin[a] \cup {t}, s))
      BY <1>0, <2>1, NewerGrows
    <3> QED
      BY <1>1, <2>2, <2>3, <3>1, LimitAssumption
  <2>4. CASE b # a
    BY <1>1, <2>2, <2>4
  <2> QED
    BY <2>3, <2>4
<1> QED
  BY <1>1, <1>2, <1>3

\* Removing the excess of a bin under an unchanged generation.
LEMMA TrimKeeps ==
    ASSUME IInv, NEW k \in Handlers, pc[k] = "remove", GenerationEqual(k),
           NEW R \in SUBSET bin[action[k]],
           IsLowest(R, bin[action[k]], toRemove[k]), MapRemove(action[k], R)
    PROVE  /\ action[k] \in Actions
           /\ bin' \in [Actions -> SUBSET Times]
           /\ \A b \in Actions : IsFiniteSet(bin'[b])
           /\ \A b \in Actions : b # action[k] => bin'[b] = bin[b]
           /\ Cardinality(bin'[action[k]]) = Limit
           /\ \A t \in R : Cardinality(Newer(bin'[action[k]], t)) >= Limit
           /\ generation' = generation + 1
           /\ NewestRetained'
<1> DEFINE a == action[k]
<1>0. /\ bin \in [Actions -> SUBSET Times] /\ added \in [Actions -> SUBSET Times]
      /\ \A b \in Actions : IsFiniteSet(bin[b])
      /\ a \in Actions /\ toRemove[k] \in Nat
  BY DEF IInv, VariablesTyped, ActionsKnown, CollectorSteps
<1>1. /\ Cardinality(bin[a]) = Limit + toRemove[k]
      /\ R \in SUBSET bin[a] /\ IsLowest(R, bin[a], toRemove[k])
      /\ MapRemove(a, R)
  BY DEF IInv, RemovalsCurrent, GenerationEqual
<1> HIDE DEF a
<1>2. /\ IsFiniteSet(bin[a] \ R)
      /\ Cardinality(bin[a] \ R) = Limit
      /\ \A t \in R : Newer(bin[a] \ R, t) = bin[a] \ R
      /\ \A t \in Times : Cardinality(Newer(bin[a], t)) >= Limit =>
                           Cardinality(Newer(bin[a] \ R, t)) >= Limit
  BY <1>0, <1>1, TrimOldest
<1>3. /\ bin' \in [Actions -> SUBSET Times] /\ added' = added
      /\ \A b \in Actions : b # a => bin'[b] = bin[b]
      /\ bin'[a] = bin[a] \ R
      /\ generation' = generation + 1
  BY <1>0, <1>1 DEF MapRemove
<1>4. \A b \in Actions : IsFiniteSet(bin'[b])
  BY <1>0, <1>2, <1>3
<1>5. \A t \in R : Cardinality(Newer(bin'[a], t)) >= Limit
  <2> SUFFICES ASSUME NEW t \in R
               PROVE  Cardinality(Newer(bin'[a], t)) >= Limit
    OBVIOUS
  <2>1. Newer(bin'[a], t) = bin[a] \ R
    BY <1>2, <1>3
  <2> QED
    BY <1>2, <2>1, LimitAssumption
<1>6. NewestRetained'
  <2> SUFFICES ASSUME NEW b \in Actions, NEW s \in added'[b] \ bin'[b]
               PROVE  Cardinality(Newer(bin'[b], s)) >= Limit
    BY DEF NewestRetained, Newer
  <2>1. s \in Times
    BY <1>0, <1>3
  <2>2. s \notin bin[b] => Cardinality(Newer(bin[b], s)) >= Limit
    BY <1>3 DEF IInv, NewestRetained
  <2>3. CASE b = a
    <3>1. CASE s \in R
      BY <1>5, <2>3, <3>1
    <3>2. CASE s \notin R
      BY <1>2, <1>3, <2>1, <2>2, <2>3, <3>2
    <3> QED
      BY <3>1, <3>2
  <2>4. CASE b # a
    BY <1>3, <2>2, <2>4
  <2> QED
    BY <2>3, <2>4
<1> QED
  BY <1>0, <1>2, <1>3, <1>4, <1>5, <1>6 DEF a

-----------------------------------------------------------------------------
(* The invariant.                                                          *)

LEMMA InitInvariant == Init => IInv
<1> SUFFICES ASSUME Init
             PROVE  IInv
  OBVIOUS
<1>1. VariablesTyped
  BY BoundsAssumption, FS_EmptySet DEF Init, VariablesTyped
<1>2. ActionsKnown /\ RemovalsCurrent
  BY DEF Init, ActionsKnown, RemovalsCurrent, CollectorSteps
<1>3. NewestRetained
  BY DEF Init, NewestRetained
<1>4. OverThresholdIsCollected
  BY FS_EmptySet, LimitAssumption DEF Init, OverThresholdIsCollected
<1> QED
  BY <1>1, <1>2, <1>3, <1>4 DEF IInv

\* A step of a collector keeps the types of what the collector knows.
LEMMA CollectorType ==
    ASSUME VariablesTyped, NEW k \in Handlers, NEW step \in CollectorSteps \cup {"idle"},
           NEW a \in Actions \cup {NoAction}, NEW n \in Nat, NEW g \in Nat,
           Collector(k, step, a, n, g)
    PROVE  /\ pc' \in [Handlers -> CollectorSteps \cup {"idle"}]
           /\ action' \in [Handlers -> Actions \cup {NoAction}]
           /\ toRemove' \in [Handlers -> Nat]
           /\ expected' \in [Handlers -> Nat]
BY DEF VariablesTyped, Collector

LEMMA StepInvariant == IInv /\ [Next]_vars => IInv'
<1> SUFFICES ASSUME IInv, [Next]_vars
             PROVE  IInv'
  OBVIOUS
<1>0. /\ VariablesTyped /\ ActionsKnown /\ RemovalsCurrent
      /\ NewestRetained /\ OverThresholdIsCollected
      /\ \A b \in Actions : Cardinality(bin[b]) \in Nat
  BY FS_CardinalityType DEF IInv, VariablesTyped
<1>1. ASSUME NEW k \in Handlers, NEW a \in Actions, NEW t \in Times, AddUserTag(k, a, t)
      PROVE  IInv'
  <2>0. /\ bin' \in [Actions -> SUBSET Times] /\ added' \in [Actions -> SUBSET Times]
        /\ \A b \in Actions : IsFiniteSet(bin'[b])
        /\ \A b \in Actions : b # a => bin'[b] = bin[b]
        /\ generation' = generation + 1
        /\ NewestRetained'
    BY <1>1, PutKeeps DEF AddUserTag
  <2>1. VariablesTyped'
    <3>1. /\ pc' \in [Handlers -> CollectorSteps \cup {"idle"}]
          /\ action' \in [Handlers -> Actions \cup {NoAction}]
          /\ toRemove' \in [Handlers -> Nat]
          /\ expected' \in [Handlers -> Nat]
      <4>1. CASE Start(k, a)
        BY <1>0, <4>1, CollectorType DEF Start, CollectorSteps
      <4>2. CASE UnchangedCollectors
        BY <1>0, <4>2 DEF VariablesTyped, UnchangedCollectors
      <4> QED
        BY <1>1, <4>1, <4>2 DEF AddUserTag
    <3>2. abandoned' \in [Actions -> BOOLEAN] /\ faults' \in 0 .. MaxFaults
      BY <1>0, <1>1 DEF VariablesTyped, AddUserTag, Recover
    <3> QED
      BY <1>0, <2>0, <3>1, <3>2 DEF VariablesTyped
  <2>2. ActionsKnown'
    BY <1>0, <1>1
       DEF VariablesTyped, ActionsKnown, AddUserTag, Start, Collector, UnchangedCollectors
  <2>3. RemovalsCurrent'
    <3> SUFFICES ASSUME NEW j \in Handlers, pc'[j] = "remove"
                 PROVE  expected'[j] < generation' /\ expected'[j] \in Nat
      BY <1>0, <2>0 DEF VariablesTyped, RemovalsCurrent
    <3>1. pc[j] = "remove" /\ expected'[j] = expected[j]
      BY <1>0, <1>1 DEF VariablesTyped, AddUserTag, Start, Collector, UnchangedCollectors
    <3> QED
      BY <1>0, <2>0, <3>1 DEF VariablesTyped, RemovalsCurrent
  <2>4. OverThresholdIsCollected'
    <3> SUFFICES ASSUME NEW b \in Actions, Cardinality(bin'[b]) > Threshold,
                        ~ abandoned'[b]
                 PROVE  \E j \in Handlers : Collecting(j, b)'
      BY DEF OverThresholdIsCollected
    <3>1. CASE b = a
      <4>1. Start(k, a)
        BY <1>1, <3>1 DEF AddUserTag
      <4>2. Collecting(k, b)'
        BY <1>0, <3>1, <4>1 DEF VariablesTyped, Start, Collector, Collecting, CollectorSteps
      <4> QED
        BY <4>2
    <3>2. CASE b # a
      <4>1. Cardinality(bin[b]) > Threshold /\ ~ abandoned[b]
        BY <1>0, <1>1, <2>0, <3>2 DEF VariablesTyped, AddUserTag, Recover
      <4>2. PICK j \in Handlers : Collecting(j, b)
        BY <1>0, <4>1 DEF OverThresholdIsCollected
      <4>3. j # k
        BY <1>1, <4>2 DEF AddUserTag, Collecting, CollectorSteps
      <4>4. Collecting(j, b)'
        BY <1>0, <1>1, <4>2, <4>3
           DEF VariablesTyped, AddUserTag, Start, Collector, UnchangedCollectors, Collecting
      <4> QED
        BY <4>4
    <3> QED
      BY <3>1, <3>2
  <2> QED
    BY <2>0, <2>1, <2>2, <2>3, <2>4 DEF IInv
<1>2. ASSUME NEW a \in Actions, NEW t \in Times, AddInDoubt(a, t)
      PROVE  IInv'
  <2>0. /\ bin' \in [Actions -> SUBSET Times] /\ added' \in [Actions -> SUBSET Times]
        /\ \A b \in Actions : IsFiniteSet(bin'[b])
        /\ \A b \in Actions : b # a => bin'[b] = bin[b]
        /\ generation' = generation + 1
        /\ NewestRetained'
    BY <1>2, PutKeeps DEF AddInDoubt
  <2>1. VariablesTyped'
    BY <1>0, <1>2, <2>0, BoundsAssumption
       DEF VariablesTyped, AddInDoubt, Fault, Abandon, UnchangedCollectors
  <2>2. ActionsKnown'
    BY <1>0, <1>2 DEF ActionsKnown, AddInDoubt, UnchangedCollectors
  <2>3. RemovalsCurrent'
    BY <1>0, <1>2, <2>0 DEF VariablesTyped, RemovalsCurrent, AddInDoubt, UnchangedCollectors
  <2>4. OverThresholdIsCollected'
    BY <1>0, <1>2, <2>0
       DEF VariablesTyped, AddInDoubt, Abandon, UnchangedCollectors, OverThresholdIsCollected,
           Collecting
  <2> QED
    BY <2>0, <2>1, <2>2, <2>3, <2>4 DEF IInv
<1>3. ASSUME NEW k \in Handlers, ReadSize(k)
      PROVE  IInv'
  <2>0. /\ action[k] \in Actions /\ UNCHANGED <<bin, generation, added>>
        /\ Cardinality(bin[action[k]]) - Limit \in Int
    BY <1>0, <1>3, LimitAssumption
       DEF ActionsKnown, CollectorSteps, ReadSize, UnchangedRecord
  <2>1. VariablesTyped'
    BY <1>0, <1>3, <2>0
       DEF VariablesTyped, ReadSize, Finish, Collector, CollectorSteps, NothingToRemove
  <2>2. ActionsKnown' /\ NewestRetained'
    BY <1>0, <1>3, <2>0
       DEF VariablesTyped, ActionsKnown, ReadSize, Finish, Collector, CollectorSteps,
           NewestRetained
  <2>3. RemovalsCurrent'
    BY <1>0, <1>3, <2>0, LimitAssumption
       DEF VariablesTyped, RemovalsCurrent, ReadSize, Finish, Collector
  <2>4. OverThresholdIsCollected'
    <3> SUFFICES ASSUME NEW b \in Actions, Cardinality(bin[b]) > Threshold,
                        ~ abandoned[b]
                 PROVE  \E j \in Handlers : Collecting(j, b)'
      BY <1>3, <2>0 DEF OverThresholdIsCollected, ReadSize
    <3>1. PICK j \in Handlers : Collecting(j, b)
      BY <1>0 DEF OverThresholdIsCollected
    <3>2. CASE j = k
      <4>1. Cardinality(bin[action[k]]) - Limit > 0
        BY <1>0, <3>1, <3>2, LimitAssumption DEF Collecting
      <4>2. \E n \in Int : Collector(k, "remove", action[k], n, generation)
        BY <1>3, <2>0, <4>1 DEF ReadSize, NothingToRemove
      <4>3. Collecting(k, b)'
        BY <1>0, <3>1, <3>2, <4>2
           DEF VariablesTyped, Collector, Collecting, CollectorSteps
      <4> QED
        BY <4>3
    <3>3. CASE j # k
      <4>1. Collecting(j, b)'
        BY <1>0, <1>3, <3>1, <3>3 DEF VariablesTyped, ReadSize, Finish, Collector, Collecting
      <4> QED
        BY <4>1
    <3> QED
      BY <3>2, <3>3
  <2> QED
    BY <2>1, <2>2, <2>3, <2>4 DEF IInv
<1>4. ASSUME NEW k \in Handlers, RemoveOldest(k) \/ RemoveInDoubt(k)
      PROVE  IInv'
  <2> PICK R \in SUBSET bin[action[k]] :
        IsLowest(R, bin[action[k]], toRemove[k]) /\ MapRemove(action[k], R)
    BY <1>4 DEF RemoveOldest, RemoveInDoubt
  <2> DEFINE a == action[k]
  <2>0. /\ a \in Actions
        /\ bin' \in [Actions -> SUBSET Times] /\ added' = added
        /\ \A b \in Actions : IsFiniteSet(bin'[b])
        /\ \A b \in Actions : b # a => bin'[b] = bin[b]
        /\ Cardinality(bin'[a]) = Limit
        /\ generation' = generation + 1
        /\ NewestRetained'
    BY <1>4, TrimKeeps DEF RemoveOldest, RemoveInDoubt, MapRemove
  <2> HIDE DEF a
  <2>1. VariablesTyped'
    <3>1. /\ pc' \in [Handlers -> CollectorSteps \cup {"idle"}]
          /\ action' \in [Handlers -> Actions \cup {NoAction}]
          /\ toRemove' \in [Handlers -> Nat]
          /\ expected' \in [Handlers -> Nat]
      <4>1. CASE Finish(k)
        BY <1>0, <4>1, CollectorType DEF Finish
      <4>2. CASE Backoff(k)
        BY <1>0, <2>0, <4>2, CollectorType DEF Backoff, CollectorSteps, a
      <4>3. Finish(k) \/ Backoff(k)
        BY <1>4 DEF RemoveOldest, RemoveInDoubt
      <4> QED
        BY <4>1, <4>2, <4>3
    <3>2. Recover(a) \/ UNCHANGED abandoned
      BY <1>4 DEF RemoveOldest, RemoveInDoubt, a
    <3>3. abandoned' \in [Actions -> BOOLEAN]
      BY <1>0, <3>2 DEF VariablesTyped, Recover
    <3>4. faults' \in 0 .. MaxFaults
      BY <1>0, <1>4, BoundsAssumption DEF VariablesTyped, RemoveOldest, RemoveInDoubt, Fault
    <3> QED
      BY <1>0, <2>0, <3>1, <3>3, <3>4 DEF VariablesTyped
  <2>2. ActionsKnown'
    BY <1>0, <1>4
       DEF VariablesTyped, ActionsKnown, RemoveOldest, RemoveInDoubt, Finish, Backoff,
           Collector, CollectorSteps
  <2>3. RemovalsCurrent'
    <3> SUFFICES ASSUME NEW j \in Handlers, pc'[j] = "remove"
                 PROVE  expected'[j] < generation' /\ expected'[j] \in Nat
      BY <1>0, <2>0 DEF VariablesTyped, RemovalsCurrent
    <3>1. pc[j] = "remove" /\ expected'[j] = expected[j]
      BY <1>0, <1>4 DEF VariablesTyped, RemoveOldest, RemoveInDoubt, Finish, Backoff, Collector
    <3> QED
      BY <1>0, <2>0, <3>1 DEF VariablesTyped, RemovalsCurrent
  <2>4. OverThresholdIsCollected'
    <3> SUFFICES ASSUME NEW b \in Actions, Cardinality(bin'[b]) > Threshold,
                        ~ abandoned'[b]
                 PROVE  \E j \in Handlers : Collecting(j, b)'
      BY DEF OverThresholdIsCollected
    <3>1. b # a
      BY <2>0, LimitAssumption
    <3>2. Cardinality(bin[b]) > Threshold /\ ~ abandoned[b]
      BY <1>0, <1>4, <2>0, <3>1
         DEF VariablesTyped, RemoveOldest, RemoveInDoubt, Recover, a
    <3>3. PICK j \in Handlers : Collecting(j, b)
      BY <1>0, <3>2 DEF OverThresholdIsCollected
    <3>4. j # k
      BY <3>1, <3>3 DEF Collecting, a
    <3>5. Collecting(j, b)'
      BY <1>0, <1>4, <3>3, <3>4
         DEF VariablesTyped, RemoveOldest, RemoveInDoubt, Finish, Backoff, Collector, Collecting
    <3> QED
      BY <3>5
  <2> QED
    BY <2>0, <2>1, <2>2, <2>3, <2>4 DEF IInv
<1>5. ASSUME NEW k \in Handlers, Mismatch(k) \/ CollectorFails(k) \/ Retry(k)
      PROVE  IInv'
  <2>0. /\ action[k] \in Actions /\ UNCHANGED <<bin, generation, added, abandoned>>
        /\ pc[k] \in CollectorSteps
        /\ \E step \in {"size", "backoff"} : Collector(k, step, action[k], 0, 0)
    BY <1>0, <1>5
       DEF ActionsKnown, CollectorSteps, Mismatch, CollectorFails, Retry,
           UnchangedRecord, Backoff, Start
  <2>1. VariablesTyped'
    <3>1. faults' \in 0 .. MaxFaults
      BY <1>0, <1>5, BoundsAssumption
         DEF VariablesTyped, Mismatch, CollectorFails, Retry, Fault
    <3> QED
      BY <1>0, <2>0, <3>1 DEF VariablesTyped, Collector, CollectorSteps
  <2>2. ActionsKnown' /\ RemovalsCurrent' /\ NewestRetained'
    BY <1>0, <2>0
       DEF VariablesTyped, ActionsKnown, RemovalsCurrent, NewestRetained, Collector
  <2>3. OverThresholdIsCollected'
    <3>1. \A j \in Handlers, b \in Actions : Collecting(j, b) => Collecting(j, b)'
      BY <1>0, <2>0 DEF VariablesTyped, Collecting, Collector, CollectorSteps
    <3> QED
      BY <1>0, <2>0, <3>1 DEF OverThresholdIsCollected
  <2> QED
    BY <2>1, <2>2, <2>3 DEF IInv
<1>6. ASSUME NEW k \in Handlers, GiveUp(k)
      PROVE  IInv'
  <2>1. VariablesTyped' /\ ActionsKnown' /\ RemovalsCurrent' /\ NewestRetained'
    BY <1>0, <1>6
       DEF VariablesTyped, ActionsKnown, RemovalsCurrent, NewestRetained, GiveUp, Abandon,
           Finish, Collector, CollectorSteps, UnchangedRecord
  <2>2. OverThresholdIsCollected'
    <3>1. \A j \in Handlers, b \in Actions :
            Collecting(j, b) /\ ~ abandoned'[b] => Collecting(j, b)'
      BY <1>0, <1>6
         DEF VariablesTyped, Collecting, GiveUp, Abandon, Finish, Collector, CollectorSteps
    <3> QED
      BY <1>0, <1>6, <3>1
         DEF OverThresholdIsCollected, GiveUp, Abandon, UnchangedRecord
  <2> QED
    BY <2>1, <2>2 DEF IInv
<1>7. ASSUME NEW K \in SUBSET Handlers, Crash(K)
      PROVE  IInv'
  <2>1. VariablesTyped' /\ ActionsKnown' /\ RemovalsCurrent' /\ NewestRetained'
    BY <1>0, <1>7, BoundsAssumption
       DEF VariablesTyped, ActionsKnown, RemovalsCurrent, NewestRetained, Crash, Abandon,
           Fault, CollectorSteps, UnchangedRecord
  <2>2. OverThresholdIsCollected'
    <3>1. \A j \in Handlers, b \in Actions :
            Collecting(j, b) /\ ~ abandoned'[b] => Collecting(j, b)'
      BY <1>0, <1>7 DEF VariablesTyped, Collecting, Crash, Abandon, CollectorSteps
    <3> QED
      BY <1>0, <1>7, <3>1
         DEF OverThresholdIsCollected, Crash, Abandon, UnchangedRecord
  <2> QED
    BY <2>1, <2>2 DEF IInv
<1>8. CASE UNCHANGED vars
  BY <1>0, <1>8
     DEF vars, IInv, VariablesTyped, ActionsKnown, RemovalsCurrent, NewestRetained,
         OverThresholdIsCollected, Collecting
<1> QED
  BY <1>1, <1>2, <1>3, <1>4, <1>5, <1>6, <1>7, <1>8
     DEF Next, CollectorStep, CollectorFault

LEMMA Invariant == Spec => []IInv
BY InitInvariant, StepInvariant, PTL DEF Spec

-----------------------------------------------------------------------------
(* The theorems.                                                           *)

\* Every variable of the profile and its collectors keeps its type.
THEOREM TypeCorrect == Spec => []TypeOK
<1>1. IInv => TypeOK
  BY DEF IInv, TypeOK
<1> QED
  BY <1>1, Invariant, PTL

\* However handlers, collectors, lost answers and crashes interleave, a tag that was
\* removed has userTagLimit newer tags in the profile (user_profiles.go:102-150).
THEOREM NewestTagsRetained == Spec => []NewestRetained
<1>1. IInv => NewestRetained
  BY DEF IInv
<1> QED
  BY <1>1, Invariant, PTL

\* A bin over the threshold has a collector at work or an abandoned one to blame
\* (userTags.go:56-84).
THEOREM OverflowHasCollector == Spec => []OverThresholdIsCollected
<1>1. IInv => OverThresholdIsCollected
  BY DEF IInv
<1> QED
  BY <1>1, Invariant, PTL

-----------------------------------------------------------------------------
(* Induction, over sets of natural numbers.                                *)

\* A set with 0 and with the successor of each of its members holds all natural numbers:
\* otherwise a least one is missing, and it is neither.
LEMMA SetInduction ==
    ASSUME NEW S \in SUBSET Nat, 0 \in S, \A n \in S : n + 1 \in S
    PROVE  S = Nat
<1> DEFINE T == Nat \ S
           R == OpToRel(<, Nat)
<1>1. SUFFICES ASSUME T # {} PROVE FALSE
  OBVIOUS
<1>2. IsWellFoundedOn(R, Nat)
  BY NatLessThanWellFounded
<1>3. PICK x \in T : \A y \in T : ~ (<<y, x>> \in R)
  <2> HIDE DEF R, T
  <2>1. T \subseteq Nat
    BY DEF T
  <2> QED
    BY <1>1, <1>2, <2>1, WFMin
<1>4. x # 0 /\ x - 1 \in Nat
  OBVIOUS
<1>5. x - 1 \in T
  OBVIOUS
<1>6. <<x - 1, x>> \in R
  BY <1>4 DEF OpToRel
<1> QED
  BY <1>3, <1>5, <1>6

\* A function that is defined by its first value and by a step from each value to the
\* next exists.
Iterates(f, x, g, n) ==
    f[0] = x /\ \A i \in 1 .. n : f[i] = g[<<i, f[i - 1]>>]

LEMMA IteratesExist ==
    ASSUME NEW N \in Nat, NEW X, NEW x \in X, NEW g \in [(1 .. N) \X X -> X]
    PROVE  \E f \in [0 .. N -> X] : Iterates(f, x, g, N)
<1> DEFINE S == {n \in Nat : n <= N => \E f \in [0 .. n -> X] : Iterates(f, x, g, n)}
<1>1. 0 \in S
  <2> DEFINE f == [i \in 0 .. 0 |-> x]
  <2>1. f \in [0 .. 0 -> X] /\ Iterates(f, x, g, 0)
    BY DEF Iterates
  <2> QED
    BY <2>1
<1>2. ASSUME NEW n \in S PROVE n + 1 \in S
  <2> SUFFICES ASSUME n + 1 <= N
               PROVE  \E f \in [0 .. n + 1 -> X] : Iterates(f, x, g, n + 1)
    OBVIOUS
  <2>1. PICK f \in [0 .. n -> X] : Iterates(f, x, g, n)
    OBVIOUS
  <2> DEFINE h == [i \in 0 .. n + 1 |-> IF i = n + 1 THEN g[<<n + 1, f[n]>>] ELSE f[i]]
  <2>2. g[<<n + 1, f[n]>>] \in X
    <3>1. n \in Nat /\ n + 1 \in 1 .. N /\ n \in 0 .. n
      OBVIOUS
    <3>2. f[n] \in X
      BY <3>1
    <3>3. <<n + 1, f[n]>> \in (1 .. N) \X X
      BY <3>1, <3>2
    <3> QED
      BY <3>3
  <2>3. h \in [0 .. n + 1 -> X]
    BY <2>2
  <2>4. h[0] = x /\ h[n + 1] = g[<<n + 1, h[n]>>]
    <3>1. n \in Nat /\ 0 \in 0 .. n + 1 /\ n \in 0 .. n + 1 /\ n + 1 \in 0 .. n + 1
      OBVIOUS
    <3>2. 0 # n + 1 /\ n # n + 1
      BY <3>1
    <3>3. h[0] = f[0] /\ h[n] = f[n] /\ h[n + 1] = g[<<n + 1, f[n]>>]
      BY <3>1, <3>2
    <3> HIDE DEF h
    <3> QED
      BY <2>1, <3>3 DEF Iterates
  <2>5. ASSUME NEW i \in 1 .. n PROVE h[i] = g[<<i, h[i - 1]>>]
    <3>1. h[i] = f[i] /\ h[i - 1] = f[i - 1]
      OBVIOUS
    <3> QED
      BY <2>1, <3>1 DEF Iterates
  <2>6. Iterates(h, x, g, n + 1)
    <3> HIDE DEF h
    <3>1. ASSUME NEW i \in 1 .. n + 1 PROVE h[i] = g[<<i, h[i - 1]>>]
      <4>1. CASE i = n + 1
        <5>1. n \in Nat /\ i - 1 = n
          BY <4>1
        <5> QED
          BY <2>4, <4>1, <5>1
      <4>2. CASE i \in 1 .. n
        BY <2>5, <4>2
      <4> QED
        BY <4>1, <4>2
    <3> QED
      BY <2>4, <3>1 DEF Iterates
  <2> QED
    BY <2>3, <2>6
<1>3. S = Nat
  <2> HIDE DEF S
  <2>1. S \in SUBSET Nat
    BY DEF S
  <2> QED
    BY <1>1, <1>2, <2>1, SetInduction
<1> QED
  BY <1>3

-----------------------------------------------------------------------------
(* The entries of a map.                                                   *)

\* A higher key has more lower ones.
LEMMA LowerGrows ==
    ASSUME NEW S \in SUBSET Int, IsFiniteSet(S), NEW t \in S, NEW u \in S, t < u
    PROVE  /\ Cardinality(Lower(S, t)) \in Nat /\ Cardinality(Lower(S, u)) \in Nat
           /\ Cardinality(Lower(S, t)) < Cardinality(Lower(S, u))
<1>1. IsFiniteSet(Lower(S, t)) /\ IsFiniteSet(Lower(S, u))
  BY FS_Subset DEF Lower
<1>2. Lower(S, t) \cup {t} \in SUBSET Lower(S, u) /\ t \notin Lower(S, t)
  <2>1. ASSUME NEW s \in S, s < t PROVE s < u
    <3>1. s \in Int /\ t \in Int /\ u \in Int
      OBVIOUS
    <3> QED
      BY <2>1, <3>1
  <2>2. t \in Int
    OBVIOUS
  <2>3. ~ (t < t)
    BY <2>2
  <2> QED
    BY <2>1, <2>3 DEF Lower
<1>3. Cardinality(Lower(S, t) \cup {t}) = Cardinality(Lower(S, t)) + 1
  BY <1>1, <1>2, FS_AddElement
<1>4. Cardinality(Lower(S, t) \cup {t}) <= Cardinality(Lower(S, u))
  BY <1>1, <1>2, FS_Subset
<1> QED
  BY <1>1, <1>3, <1>4, FS_CardinalityType

\* There is an entry at every index.
LEMMA EveryIndex ==
    ASSUME NEW S \in SUBSET Int, IsFiniteSet(S)
    PROVE  /\ \A i \in 1 .. Cardinality(S) : \E t \in S : Cardinality(Lower(S, t)) = i - 1
           /\ \A t \in S : Cardinality(Lower(S, t)) + 1 \in 1 .. Cardinality(S)
<1> DEFINE n == Cardinality(S)
           index == [t \in S |-> Cardinality(Lower(S, t)) + 1]
<1>1. n \in Nat
  BY FS_CardinalityType
<1>2. ASSUME NEW t \in S PROVE Cardinality(Lower(S, t)) \in 0 .. n - 1
  <2>1. Lower(S, t) \in SUBSET S /\ t \notin Lower(S, t)
    BY DEF Lower
  <2>2. IsFiniteSet(Lower(S, t)) /\ Cardinality(Lower(S, t)) <= n
    BY <2>1, FS_Subset
  <2>3. Cardinality(Lower(S, t)) # n
    BY <2>1, FS_Subset
  <2> QED
    BY <1>1, <2>2, <2>3, FS_CardinalityType
<1>3. index \in [S -> 1 .. n]
  BY <1>1, <1>2
<1>4. ASSUME NEW t \in S, NEW u \in S, index[t] = index[u] PROVE t = u
  <2>1. ~ (t < u) /\ ~ (u < t)
    BY <1>1, <1>2, <1>4, LowerGrows
  <2> QED
    BY <2>1
<1>5. index \in Injection(S, 1 .. n)
  <2> HIDE DEF index
  <2> QED
    BY <1>3, <1>4 DEF Injection, IsInjective
<1>6. IsFiniteSet(1 .. n) /\ Cardinality(1 .. n) = n
  BY <1>1, FS_Interval
<1>7. index \in Surjection(S, 1 .. n)
  <2> HIDE DEF index
  <2> QED
    BY <1>5, <1>6, FS_Injection
<1>8. \A i \in 1 .. n : \E t \in S : index[t] = i
  <2> HIDE DEF index
  <2> QED
    BY <1>7 DEF Surjection
<1>9. ASSUME NEW i \in 1 .. n PROVE \E t \in S : Cardinality(Lower(S, t)) = i - 1
  <2>1. PICK t \in S : index[t] = i
    BY <1>8
  <2>2. Cardinality(Lower(S, t)) + 1 = i
    BY <2>1
  <2> QED
    BY <1>1, <1>2, <2>2
<1> QED
  BY <1>1, <1>2, <1>9

\* What Get returns is the bin in ascending order.
LEMMA TagsAscend ==
    ASSUME NEW a \in Actions, bin[a] \in SUBSET Int, IsFiniteSet(bin[a])
    PROVE  /\ Tags(a) \in Seq(bin[a])
           /\ Len(Tags(a)) = Cardinality(bin[a])
           /\ \A i, j \in 1 .. Len(Tags(a)) : i < j => Tags(a)[i] < Tags(a)[j]
           /\ \A t \in bin[a] : \E i \in 1 .. Len(Tags(a)) : Tags(a)[i] = t
<1> DEFINE S == bin[a]
           n == Cardinality(S)
           tags == Tags(a)
<1>1. n \in Nat
  BY FS_CardinalityType
<1>2. ASSUME NEW i \in 1 .. n
      PROVE  tags[i] \in S /\ Cardinality(Lower(S, tags[i])) = i - 1
  <2>1. \E t \in S : Cardinality(Lower(S, t)) = i - 1
    BY EveryIndex
  <2>2. tags[i] = CHOOSE t \in S : Cardinality(Lower(S, t)) = i - 1
    BY DEF Tags
  <2> QED
    BY <2>1, <2>2
<1>3. DOMAIN tags = 1 .. n /\ tags = [i \in 1 .. n |-> tags[i]]
  BY DEF Tags
<1> HIDE DEF tags
<1>4. tags \in Seq(S) /\ Len(tags) = n
  <2>1. tags \in [1 .. n -> S]
    BY <1>2, <1>3
  <2> QED
    BY <1>1, <2>1
<1>5. ASSUME NEW i \in 1 .. n, NEW j \in 1 .. n, i < j PROVE tags[i] < tags[j]
  <2>1. tags[i] # tags[j]
    BY <1>1, <1>2, <1>5
  <2>2. CASE tags[j] < tags[i]
    BY <1>1, <1>2, <1>5, <2>2, LowerGrows
  <2> QED
    BY <1>2, <2>1, <2>2
<1>6. ASSUME NEW t \in S PROVE \E i \in 1 .. n : tags[i] = t
  <2> DEFINE i == Cardinality(Lower(S, t)) + 1
  <2>1. i \in 1 .. n
    BY EveryIndex
  <2>2. Cardinality(Lower(S, tags[i])) = Cardinality(Lower(S, t))
    <3>1. Lower(S, t) \in SUBSET S
      BY DEF Lower
    <3>2. Cardinality(Lower(S, t)) \in Nat
      BY <3>1, FS_Subset, FS_CardinalityType
    <3>3. i - 1 = Cardinality(Lower(S, t))
      BY <3>2
    <3> HIDE DEF i
    <3> QED
      BY <1>2, <2>1, <3>3
  <2>3. tags[i] = t
    <3> HIDE DEF i
    <3>1. tags[i] \in S
      BY <1>2, <2>1
    <3>2. ~ (tags[i] < t) /\ ~ (t < tags[i])
      BY <2>2, <3>1, LowerGrows
    <3> QED
      BY <3>1, <3>2
  <2> QED
    BY <2>1, <2>3
<1> QED
  BY <1>4, <1>5, <1>6 DEF tags

-----------------------------------------------------------------------------
(* convertTags.                                                            *)

\* One turn of the loop, at tag t, with s selected so far.
Select(s, t, from, to, limit) ==
    IF Len(s) < limit /\ InTimeRange(from, to, t) THEN Append(s, t) ELSE s

\* The values that selected takes.
LEMMA LoopTurns ==
    ASSUME NEW tags \in Seq(Int), NEW from \in Int, NEW to \in Int, NEW limit \in Nat
    PROVE  \E w \in [0 .. Len(tags) -> Seq(Int)] :
             /\ w[0] = <<>>
             /\ \A n \in 1 .. Len(tags) :
                  w[n] = Select(w[n - 1], tags[Len(tags) - n + 1], from, to, limit)
             /\ ConvertTags(tags, from, to, limit) = w[Len(tags)]
<1> DEFINE N == Len(tags)
           g == [p \in (1 .. N) \X Seq(Int) |->
                   Select(p[2], tags[N - p[1] + 1], from, to, limit)]
           Body(w, n) ==
             IF n = 0
               THEN <<>>
               ELSE LET t == tags[N - n + 1]
                    IN  IF Len(w[n - 1]) < limit /\ InTimeRange(from, to, t)
                          THEN Append(w[n - 1], t)
                          ELSE w[n - 1]
           selected == CHOOSE w : w = [n \in 0 .. N |-> Body(w, n)]
<1>1. N \in Nat
  OBVIOUS
<1>2. ASSUME NEW n \in 1 .. N, NEW s \in Seq(Int)
      PROVE  Select(s, tags[N - n + 1], from, to, limit) \in Seq(Int)
  <2>1. tags[N - n + 1] \in Int
    BY <1>1
  <2> QED
    BY <2>1 DEF Select
<1>3. g \in [(1 .. N) \X Seq(Int) -> Seq(Int)]
  BY <1>2
<1>4. PICK f \in [0 .. N -> Seq(Int)] : Iterates(f, <<>>, g, N)
  <2> HIDE DEF g, N
  <2>1. <<>> \in Seq(Int)
    OBVIOUS
  <2> QED
    BY <1>1, <1>3, <2>1, IteratesExist
<1>5. ASSUME NEW n \in 1 .. N
      PROVE  f[n] = Select(f[n - 1], tags[N - n + 1], from, to, limit)
  <2>1. n - 1 \in 0 .. N
    BY <1>1
  <2>2. <<n, f[n - 1]>> \in (1 .. N) \X Seq(Int)
    BY <2>1
  <2>3. f[n] = g[<<n, f[n - 1]>>]
    BY <1>4 DEF Iterates
  <2> QED
    BY <2>2, <2>3
<1>6. f = [n \in 0 .. N |-> Body(f, n)]
  <2>1. ASSUME NEW n \in 0 .. N PROVE f[n] = Body(f, n)
    <3>1. CASE n = 0
      BY <1>4, <3>1 DEF Iterates
    <3>2. CASE n # 0
      <4>1. n \in 1 .. N
        BY <1>1, <3>2
      <4> QED
        BY <1>5, <3>2, <4>1 DEF Select
    <3> QED
      BY <3>1, <3>2
  <2>2. f = [n \in 0 .. N |-> f[n]]
    OBVIOUS
  <2> HIDE DEF Body, N
  <2> QED
    BY <2>1, <2>2
<1>7. selected = [n \in 0 .. N |-> Body(selected, n)]
  <2> HIDE DEF Body, N
  <2> QED
    BY <1>6
<1>8. ConvertTags(tags, from, to, limit) = selected[N]
  BY DEF ConvertTags
<1> HIDE DEF selected, N
<1>9. selected[0] = <<>>
  BY <1>1, <1>7
<1>10. ASSUME NEW n \in 1 .. N
       PROVE  selected[n] = Select(selected[n - 1], tags[N - n + 1], from, to, limit)
  <2>1. n \in 0 .. N /\ n # 0
    BY <1>1
  <2>2. selected[n] = Body(selected, n)
    <3> HIDE DEF Body
    <3> QED
      BY <1>7, <2>1
  <2> QED
    BY <2>1, <2>2 DEF Select
<1>11. selected \in [0 .. N -> Seq(Int)]
  <2> DEFINE S == {n \in Nat : n <= N => selected[n] \in Seq(Int)}
  <2>0. selected[0] \in Seq(Int)
    BY <1>9
  <2>1. 0 \in S
    BY <2>0
  <2>2. ASSUME NEW n \in S PROVE n + 1 \in S
    <3> SUFFICES ASSUME n + 1 <= N PROVE selected[n + 1] \in Seq(Int)
      OBVIOUS
    <3>1. n \in Nat /\ n + 1 \in 1 .. N /\ (n + 1) - 1 = n /\ selected[n] \in Seq(Int)
      BY <1>1
    <3> QED
      BY <1>2, <1>10, <3>1
  <2>3. S = Nat
    <3> HIDE DEF S
    <3>1. S \in SUBSET Nat
      BY DEF S
    <3> QED
      BY <2>1, <2>2, <3>1, SetInduction
  <2>4. \A n \in 0 .. N : selected[n] \in Seq(Int)
    <3> TAKE n \in 0 .. N
    <3>1. n \in Nat /\ n <= N
      BY <1>1
    <3>2. n \in S
      BY <2>3, <3>1
    <3> QED
      BY <3>1, <3>2
  <2>5. selected = [n \in 0 .. N |-> selected[n]]
    <3> HIDE DEF Body
    <3> QED
      BY <1>7
  <2> QED
    BY <2>4, <2>5
<1> QED
  BY <1>8, <1>9, <1>10, <1>11 DEF N

\* What is selected of the n newest tags: s holds those in the range, newest first, until
\* there are limit of them.
Walked(s, n, tags, from, to, limit) ==
    LET last == Len(tags) - n + 1 .. Len(tags)
    IN  /\ s \in Seq(Int) /\ Len(s) <= limit
        /\ \A i, j \in 1 .. Len(s) : i < j => s[i] > s[j]
        /\ \A i \in 1 .. Len(s) : InTimeRange(from, to, s[i]) /\ \E k \in last : s[i] = tags[k]
        /\ \A k \in last :
             InTimeRange(from, to, tags[k]) =>
               \/ \E i \in 1 .. Len(s) : s[i] = tags[k]
               \/ Len(s) = limit /\ \A i \in 1 .. Len(s) : s[i] > tags[k]

\* One more turn keeps it.
LEMMA TurnKeepsWalked ==
    ASSUME NEW tags \in Seq(Int), NEW from \in Int, NEW to \in Int, NEW limit \in Nat,
           \A i, j \in 1 .. Len(tags) : i < j => tags[i] < tags[j],
           NEW n \in Nat, n + 1 <= Len(tags),
           NEW s, Walked(s, n, tags, from, to, limit)
    PROVE  Walked(Select(s, tags[Len(tags) - n], from, to, limit), n + 1, tags, from, to, limit)
<1> DEFINE N == Len(tags)
           k == N - n
           t == tags[k]
           last == N - n + 1 .. N
           r == Select(s, t, from, to, limit)
<1>0. /\ s \in Seq(Int) /\ Len(s) <= limit
      /\ \A i, j \in 1 .. Len(s) : i < j => s[i] > s[j]
      /\ \A i \in 1 .. Len(s) : InTimeRange(from, to, s[i]) /\ \E j \in last : s[i] = tags[j]
      /\ \A j \in last :
           InTimeRange(from, to, tags[j]) =>
             \/ \E i \in 1 .. Len(s) : s[i] = tags[j]
             \/ Len(s) = limit /\ \A i \in 1 .. Len(s) : s[i] > tags[j]
  <2> HIDE DEF N
  <2> QED
    BY DEF Walked, N
<1>1. /\ N \in Nat /\ k \in 1 .. N /\ t \in Int
      /\ N - (n + 1) + 1 .. N = last \cup {k} /\ k \notin last /\ last \subseteq 1 .. N
      /\ \A i \in last : k < i
  OBVIOUS
<1>2. Len(s) \in Nat /\ \A i \in 1 .. Len(s) : s[i] \in Int
  BY <1>0
<1>3. ASSUME NEW i \in 1 .. Len(s) PROVE s[i] > t
  <2>1. PICK j \in last : s[i] = tags[j]
    BY <1>0, <1>2
  <2>2. j \in 1 .. N /\ k < j
    BY <1>1
  <2>3. t < tags[j]
    BY <1>1, <2>2
  <2> QED
    BY <1>0, <1>1, <1>2, <2>1, <2>3
<1> HIDE DEF k, last
<1>4. CASE Len(s) < limit /\ InTimeRange(from, to, t)
  <2>1. /\ r = Append(s, t) /\ r \in Seq(Int) /\ Len(r) = Len(s) + 1 /\ Len(r) <= limit
        /\ r[Len(r)] = t /\ \A i \in 1 .. Len(s) : r[i] = s[i]
    BY <1>0, <1>1, <1>2, <1>4 DEF Select
  <2> HIDE DEF r, t
  <2>2. \A i \in 1 .. Len(r) : i = Len(r) \/ i \in 1 .. Len(s)
    BY <1>0, <1>2, <2>1
  <2>3. \A i, j \in 1 .. Len(r) : i < j => r[i] > r[j]
    <3> SUFFICES ASSUME NEW i \in 1 .. Len(r), NEW j \in 1 .. Len(r), i < j
                 PROVE  r[i] > r[j]
      OBVIOUS
    <3>1. i \in 1 .. Len(s)
      BY <1>0, <1>2, <2>1
    <3> QED
      BY <1>0, <1>2, <1>3, <2>1, <2>2, <3>1
  <2>4. ASSUME NEW i \in 1 .. Len(r)
        PROVE  InTimeRange(from, to, r[i]) /\ \E j \in last \cup {k} : r[i] = tags[j]
    <3>1. CASE i = Len(r)
      BY <1>4, <2>1, <3>1 DEF t
    <3>2. CASE i \in 1 .. Len(s)
      BY <1>0, <1>2, <2>1, <3>2
    <3> QED
      BY <2>2, <3>1, <3>2
  <2>5. ASSUME NEW j \in last \cup {k}, InTimeRange(from, to, tags[j])
        PROVE  \E i \in 1 .. Len(r) : r[i] = tags[j]
    <3>1. CASE j = k
      <4>1. Len(r) \in 1 .. Len(r)
        BY <1>0, <1>2, <2>1
      <4> QED
        BY <2>1, <3>1, <4>1 DEF t
    <3>2. CASE j \in last
      <4>1. PICK i \in 1 .. Len(s) : s[i] = tags[j]
        BY <1>0, <1>2, <1>4, <2>5, <3>2
      <4>2. i \in 1 .. Len(r) /\ r[i] = tags[j]
        BY <1>0, <1>2, <2>1, <4>1
      <4> QED
        BY <4>2
    <3> QED
      BY <3>1, <3>2
  <2>6. Walked(r, n + 1, tags, from, to, limit)
    <3> HIDE DEF N
    <3>1. Len(tags) - (n + 1) + 1 .. Len(tags) = last \cup {k}
      BY <1>1 DEF N
    <3> QED
      BY <2>1, <2>3, <2>4, <2>5, <3>1 DEF Walked
  <2> QED
    BY <2>6 DEF r, t, k, N
<1>5. CASE ~ (Len(s) < limit /\ InTimeRange(from, to, t))
  <2>1. r = s
    BY <1>5 DEF Select
  <2> HIDE DEF r, t
  <2>2. ASSUME NEW j \in last \cup {k}, InTimeRange(from, to, tags[j])
        PROVE  \/ \E i \in 1 .. Len(s) : s[i] = tags[j]
               \/ Len(s) = limit /\ \A i \in 1 .. Len(s) : s[i] > tags[j]
    <3>1. CASE j = k
      BY <1>0, <1>2, <1>3, <1>5, <2>2, <3>1 DEF t
    <3>2. CASE j \in last
      BY <1>0, <1>2, <2>2, <3>2
    <3> QED
      BY <3>1, <3>2
  <2>3. \A i \in 1 .. Len(s) :
          InTimeRange(from, to, s[i]) /\ \E j \in last \cup {k} : s[i] = tags[j]
    BY <1>0, <1>2
  <2>4. Walked(s, n + 1, tags, from, to, limit)
    <3> HIDE DEF N
    <3>1. Len(tags) - (n + 1) + 1 .. Len(tags) = last \cup {k}
      BY <1>1 DEF N
    <3> QED
      BY <1>0, <1>2, <2>2, <2>3, <3>1 DEF Walked
  <2> QED
    BY <2>1, <2>4 DEF r, t, k, N
<1> QED
  BY <1>4, <1>5

\* What the loop selects of the whole bin.
LEMMA LoopSelects ==
    ASSUME NEW tags \in Seq(Int), NEW from \in Int, NEW to \in Int, NEW limit \in Nat,
           \A i, j \in 1 .. Len(tags) : i < j => tags[i] < tags[j]
    PROVE  Walked(ConvertTags(tags, from, to, limit), Len(tags), tags, from, to, limit)
<1> DEFINE N == Len(tags)
<1>1. N \in Nat
  OBVIOUS
<1>2. PICK w \in [0 .. N -> Seq(Int)] :
        /\ w[0] = <<>>
        /\ \A n \in 1 .. N : w[n] = Select(w[n - 1], tags[N - n + 1], from, to, limit)
        /\ ConvertTags(tags, from, to, limit) = w[N]
  BY LoopTurns
<1> DEFINE S == {n \in Nat : n <= N => Walked(w[n], n, tags, from, to, limit)}
<1>3. 0 \in S
  <2>1. <<>> \in Seq(Int) /\ Len(<<>>) = 0 /\ N - 0 + 1 .. N = {}
    BY <1>1
  <2>2. Walked(<<>>, 0, tags, from, to, limit)
    BY <2>1 DEF Walked
  <2> QED
    BY <1>2, <2>2
<1>4. ASSUME NEW n \in S PROVE n + 1 \in S
  <2> SUFFICES ASSUME n + 1 <= N PROVE Walked(w[n + 1], n + 1, tags, from, to, limit)
    OBVIOUS
  <2>1. /\ n \in Nat /\ n <= N /\ n + 1 \in 1 .. N
        /\ (n + 1) - 1 = n /\ N - (n + 1) + 1 = N - n
    BY <1>1
  <2>2. w[n + 1] = Select(w[n], tags[N - n], from, to, limit)
    <3> HIDE DEF N
    <3>1. w[n + 1] = Select(w[(n + 1) - 1], tags[N - (n + 1) + 1], from, to, limit)
      BY <1>2, <2>1
    <3> QED
      BY <2>1, <3>1
  <2>3. Walked(w[n], n, tags, from, to, limit)
    BY <2>1
  <2> HIDE DEF S
  <2> QED
    BY <2>1, <2>2, <2>3, TurnKeepsWalked
<1>5. S = Nat
  <2> HIDE DEF S
  <2>1. S \in SUBSET Nat
    BY DEF S
  <2> QED
    BY <1>3, <1>4, <2>1, SetInduction
<1>6. N \in S
  BY <1>1, <1>5
<1>7. Walked(w[N], N, tags, from, to, limit)
  BY <1>1, <1>6
<1> QED
  BY <1>2, <1>7

\* A descending answer has as many members as it is long.
LEMMA DescendingCardinality ==
    ASSUME NEW s \in Seq(Int), \A i, j \in 1 .. Len(s) : i < j => s[i] > s[j]
    PROVE  /\ ToSet(s) \in SUBSET Int
           /\ IsFiniteSet(ToSet(s)) /\ Cardinality(ToSet(s)) = Len(s)
<1> DEFINE D == 1 .. Len(s)
<1>1. Len(s) \in Nat /\ DOMAIN s = D /\ \A i \in D : s[i] \in Int
  OBVIOUS
<1>2. ToSet(s) = {s[i] : i \in D}
  BY <1>1 DEF ToSet
<1>3. s \in [D -> ToSet(s)]
  BY <1>1, <1>2
<1>4. ASSUME NEW i \in D, NEW j \in D, s[i] = s[j] PROVE i = j
  <2>1. ~ (i < j) /\ ~ (j < i)
    BY <1>1, <1>4
  <2> QED
    BY <2>1
<1>5. s \in Bijection(D, ToSet(s))
  <2>1. s \in Injection(D, ToSet(s))
    BY <1>1, <1>3, <1>4 DEF Injection, IsInjective
  <2>2. s \in Surjection(D, ToSet(s))
    BY <1>2, <1>3 DEF Surjection
  <2> QED
    BY <2>1, <2>2 DEF Bijection
<1>6. IsFiniteSet(D) /\ Cardinality(D) = Len(s)
  <2>1. \A n \in Nat : IsFiniteSet(1 .. n) /\ Cardinality(1 .. n) = n
    BY FS_Interval
  <2> QED
    BY <1>1, <2>1
<1>7. IsFiniteSet(ToSet(s)) /\ Cardinality(ToSet(s)) = Len(s)
  <2> HIDE DEF D
  <2> QED
    BY <1>5, <1>6, FS_Bijection DEF ExistsBijection
<1> QED
  BY <1>1, <1>2, <1>7

\* The limit newest members of W, all of them when there are not more.
Newest(W, limit) == {t \in W : Cardinality(Newer(W, t)) < limit}

LEMMA NewestAre ==
    ASSUME NEW W \in SUBSET Int, IsFiniteSet(W), NEW A \in SUBSET W, NEW limit \in Nat,
           Cardinality(A) <= limit,
           \A t \in W \ A : Cardinality(A) = limit /\ \A x \in A : x > t
    PROVE  A = Newest(W, limit)
<1>1. IsFiniteSet(A)
  BY FS_Subset
<1>2. \A t \in W : IsFiniteSet(Newer(W, t)) /\ Cardinality(Newer(W, t)) \in Nat
  <2> TAKE t \in W
  <2>1. Newer(W, t) \in SUBSET W
    BY DEF Newer
  <2> QED
    BY <2>1, FS_Subset, FS_CardinalityType
<1>3. ASSUME NEW t \in A PROVE Cardinality(Newer(W, t)) < limit
  <2>1. Newer(W, t) \in SUBSET A
    <3> SUFFICES ASSUME NEW u \in W, u > t, u \notin A PROVE FALSE
      BY DEF Newer
    <3>1. t > u /\ t \in Int /\ u \in Int
      OBVIOUS
    <3> QED
      BY <3>1
  <2>2. t \notin Newer(W, t)
    <3>1. t \in Int
      OBVIOUS
    <3> QED
      BY <3>1 DEF Newer
  <2>3. Cardinality(Newer(W, t)) <= Cardinality(A) /\ Cardinality(Newer(W, t)) # Cardinality(A)
    BY <1>1, <2>1, <2>2, FS_Subset
  <2> QED
    BY <1>1, <1>2, <2>3, FS_CardinalityType
<1>4. ASSUME NEW t \in W \ A PROVE ~ (Cardinality(Newer(W, t)) < limit)
  <2>1. A \in SUBSET Newer(W, t)
    BY DEF Newer
  <2>2. Cardinality(A) <= Cardinality(Newer(W, t))
    BY <1>2, <2>1, FS_Subset
  <2> QED
    BY <1>2, <2>2
<1> QED
  BY <1>3, <1>4 DEF Newest

\* The times in the range of a reader, and the ones that are newer than it.
Ranged(S, from, to) == {t \in S : from <= t /\ t < to}
Later(S, to) == {t \in S : t >= to}

\* What a reader gets of a bin: the newest limit tags of its range, newest first.
LEMMA AnswerIsNewest ==
    ASSUME NEW a \in Actions, bin[a] \in SUBSET Int, IsFiniteSet(bin[a]),
           NEW from \in Int, NEW to \in Int, NEW limit \in Nat
    PROVE  LET answer == ConvertTags(Tags(a), from, to, limit)
               W == Ranged(bin[a], from, to)
           IN  /\ \A i, j \in 1 .. Len(answer) : i < j => answer[i] > answer[j]
               /\ ToSet(answer) = Newest(W, limit)
<1> DEFINE tags == Tags(a)
           N == Len(tags)
           s == ConvertTags(tags, from, to, limit)
           A == ToSet(s)
           W == Ranged(bin[a], from, to)
<1> USE DEF Ranged
<1>1. /\ tags \in Seq(bin[a]) /\ tags \in Seq(Int) /\ N \in Nat
      /\ \A i, j \in 1 .. N : i < j => tags[i] < tags[j]
      /\ \A t \in bin[a] : \E i \in 1 .. N : tags[i] = t
      /\ \A i \in 1 .. N : tags[i] \in bin[a]
  <2>1. /\ tags \in Seq(bin[a])
        /\ \A i, j \in 1 .. N : i < j => tags[i] < tags[j]
        /\ \A t \in bin[a] : \E i \in 1 .. N : tags[i] = t
    BY TagsAscend
  <2> HIDE DEF tags
  <2>2. N \in Nat /\ tags \in [1 .. N -> bin[a]]
    BY <2>1
  <2>3. tags \in [1 .. N -> Int]
    <3> HIDE DEF N
    <3> QED
      BY <2>2
  <2>4. tags \in Seq(Int)
    <3> HIDE DEF N
    <3> QED
      BY <2>2, <2>3
  <2> QED
    BY <2>1, <2>2, <2>4
<1> HIDE DEF tags
<1>2. Walked(s, N, tags, from, to, limit)
  BY <1>1, LoopSelects
<1> HIDE DEF s
<1>3. N - N + 1 .. N = 1 .. N
  BY <1>1
<1>4. /\ s \in Seq(Int) /\ Len(s) <= limit
      /\ \A i, j \in 1 .. Len(s) : i < j => s[i] > s[j]
      /\ \A i \in 1 .. Len(s) : InTimeRange(from, to, s[i]) /\ \E k \in 1 .. N : s[i] = tags[k]
      /\ \A k \in 1 .. N :
           InTimeRange(from, to, tags[k]) =>
             \/ \E i \in 1 .. Len(s) : s[i] = tags[k]
             \/ Len(s) = limit /\ \A i \in 1 .. Len(s) : s[i] > tags[k]
  <2> HIDE DEF N
  <2> QED
    BY <1>2, <1>3 DEF Walked, N
<1>5. Len(s) \in Nat /\ DOMAIN s = 1 .. Len(s) /\ A = {s[i] : i \in 1 .. Len(s)}
  BY <1>4 DEF ToSet
<1>6. A \in SUBSET Int /\ IsFiniteSet(A) /\ Cardinality(A) = Len(s)
  BY <1>4, DescendingCardinality
<1> HIDE DEF N, A
<1>7. A \in SUBSET W
  <2> SUFFICES ASSUME NEW i \in 1 .. Len(s) PROVE s[i] \in W
    BY <1>5
  <2>1. InTimeRange(from, to, s[i])
    BY <1>4
  <2>2. PICK k \in 1 .. N : s[i] = tags[k]
    BY <1>4
  <2> QED
    BY <1>1, <2>1, <2>2 DEF InTimeRange
<1>8. ASSUME NEW t \in W \ A PROVE Cardinality(A) = limit /\ \A x \in A : x > t
  <2>1. PICK k \in 1 .. N : tags[k] = t
    BY <1>1
  <2>2. InTimeRange(from, to, tags[k])
    BY <2>1 DEF InTimeRange
  <2>3. ~ \E i \in 1 .. Len(s) : s[i] = tags[k]
    BY <1>5, <2>1
  <2>4. Len(s) = limit /\ \A i \in 1 .. Len(s) : s[i] > tags[k]
    BY <1>4, <2>2, <2>3
  <2> QED
    BY <1>5, <1>6, <2>1, <2>4
<1>9. W \in SUBSET Int /\ IsFiniteSet(W)
  BY FS_Subset
<1>10. A = Newest(W, limit)
  <2> HIDE DEF W
  <2> QED
    BY <1>4, <1>6, <1>7, <1>8, <1>9, NewestAre
<1> QED
  BY <1>4, <1>10 DEF A, s, tags

\* What is missing of the tags ever stored does not show in what a reader asks for.
LEMMA RemovedNotMissed ==
    ASSUME NEW B \in SUBSET Int, NEW H \in SUBSET Int, B \subseteq H, IsFiniteSet(H),
           \A t \in H \ B : Cardinality(Newer(B, t)) >= Limit,
           NEW from \in Int, NEW to \in Int, NEW limit \in Nat,
           Cardinality(Later(B, to)) + limit <= Limit
    PROVE  Newest(Ranged(B, from, to), limit) = Newest(Ranged(H, from, to), limit)
<1> DEFINE W == Ranged(B, from, to)
           X == Ranged(H, from, to)
           Late == Later(B, to)
<1> USE DEF Ranged, Later
<1>1. /\ IsFiniteSet(B) /\ IsFiniteSet(W) /\ IsFiniteSet(X) /\ IsFiniteSet(Late)
      /\ Cardinality(Late) \in Nat
  <2>1. IsFiniteSet(B)
    BY FS_Subset
  <2>2. W \in SUBSET B /\ X \in SUBSET H /\ Late \in SUBSET B
    OBVIOUS
  <2> HIDE DEF W, X, Late
  <2> QED
    BY <2>1, <2>2, FS_Subset, FS_CardinalityType
<1>2. ASSUME NEW t \in Int
      PROVE  /\ IsFiniteSet(Newer(W, t)) /\ Cardinality(Newer(W, t)) \in Nat
             /\ IsFiniteSet(Newer(X, t)) /\ Cardinality(Newer(X, t)) \in Nat
             /\ Cardinality(Newer(W, t)) <= Cardinality(Newer(X, t))
  <2>1. Newer(W, t) \in SUBSET W /\ Newer(X, t) \in SUBSET X /\ Newer(W, t) \in SUBSET Newer(X, t)
    BY DEF Newer
  <2> HIDE DEF W, X
  <2> QED
    BY <1>1, <2>1, FS_Subset, FS_CardinalityType
<1>3. ASSUME NEW t \in X, t \notin B PROVE Cardinality(Newer(W, t)) >= limit
  <2>1. Newer(B, t) \in SUBSET (Late \cup Newer(W, t))
    <3> SUFFICES ASSUME NEW u \in B, u > t, ~ (u >= to) PROVE from <= u /\ u < to
      BY DEF Newer
    <3>1. u \in Int /\ t \in Int /\ from <= t
      OBVIOUS
    <3> QED
      BY <3>1
  <2>2. Cardinality(Newer(B, t)) >= Limit
    BY <1>3
  <2>3. /\ IsFiniteSet(Late \cup Newer(W, t))
        /\ Cardinality(Late \cup Newer(W, t)) <= Cardinality(Late) + Cardinality(Newer(W, t))
        /\ Cardinality(Late \cup Newer(W, t)) \in Nat
    <3>1. IsFiniteSet(Newer(W, t))
      BY <1>2
    <3>2. Late \cap Newer(W, t) \in SUBSET Late
      OBVIOUS
    <3> HIDE DEF Late, W
    <3>3. Cardinality(Late \cap Newer(W, t)) \in Nat
      BY <1>1, <3>2, FS_Subset, FS_CardinalityType
    <3>4. /\ IsFiniteSet(Late \cup Newer(W, t))
          /\ Cardinality(Late \cup Newer(W, t))
               = Cardinality(Late) + Cardinality(Newer(W, t)) - Cardinality(Late \cap Newer(W, t))
      BY <1>1, <3>1, FS_Union
    <3>5. Cardinality(Newer(W, t)) \in Nat /\ Cardinality(Late \cup Newer(W, t)) \in Nat
      BY <3>1, <3>4, FS_CardinalityType
    <3> QED
      BY <1>1, <3>3, <3>4, <3>5
  <2>4. Cardinality(Newer(B, t)) <= Cardinality(Late \cup Newer(W, t))
    <3> HIDE DEF Late, W
    <3> QED
      BY <2>1, <2>3, FS_Subset
  <2>5. Cardinality(Newer(B, t)) \in Nat /\ Cardinality(Newer(W, t)) \in Nat
    <3>1. Newer(B, t) \in SUBSET B /\ t \in Int
      BY DEF Newer
    <3> QED
      BY <1>1, <1>2, <3>1, FS_Subset, FS_CardinalityType
  <2> HIDE DEF Late, W
  <2>6. Limit \in Nat
    BY LimitAssumption
  <2>7. Cardinality(Late) + limit <= Limit
    BY DEF Late
  <2> QED
    BY <1>1, <2>2, <2>3, <2>4, <2>5, <2>6, <2>7
<1>4. ASSUME NEW t \in Newest(W, limit) PROVE t \in Newest(X, limit)
  <2>1. t \in Int /\ t \in X /\ t \in W /\ Cardinality(Newer(W, t)) < limit
    BY DEF Newest
  <2>2. Newer(X, t) \subseteq Newer(W, t)
    <3> SUFFICES ASSUME NEW u \in X, u > t, u \notin B PROVE FALSE
      BY DEF Newer
    <3>1. Cardinality(Newer(W, u)) >= limit
      BY <1>3
    <3>2. Newer(W, u) \in SUBSET Newer(W, t)
      <4> SUFFICES ASSUME NEW v \in W, v > u PROVE v > t
        BY DEF Newer
      <4>1. v \in Int /\ u \in Int
        OBVIOUS
      <4> QED
        BY <2>1, <4>1
    <3>3. /\ IsFiniteSet(Newer(W, t)) /\ Cardinality(Newer(W, t)) \in Nat
          /\ Cardinality(Newer(W, u)) \in Nat
      BY <1>2, <2>1
    <3>4. Cardinality(Newer(W, u)) <= Cardinality(Newer(W, t))
      <4> HIDE DEF W
      <4> QED
        BY <3>2, <3>3, FS_Subset
    <3> HIDE DEF W
    <3> QED
      BY <2>1, <3>1, <3>3, <3>4
  <2>3. Newer(X, t) = Newer(W, t)
    BY <2>2 DEF Newer
  <2> QED
    BY <2>1, <2>3 DEF Newest
<1>5. ASSUME NEW t \in Newest(X, limit) PROVE t \in Newest(W, limit)
  <2>1. t \in Int /\ t \in X /\ Cardinality(Newer(X, t)) < limit
    BY DEF Newest
  <2>2. Cardinality(Newer(W, t)) < limit
    <3> HIDE DEF W, X
    <3> QED
      BY <1>2, <2>1
  <2>3. t \in B
    <3>1. t \notin B => Cardinality(Newer(W, t)) >= limit
      BY <1>3, <2>1
    <3> HIDE DEF W
    <3> QED
      BY <1>2, <2>1, <2>2, <3>1
  <2> QED
    BY <2>1, <2>2, <2>3 DEF Newest
<1> QED
  BY <1>4, <1>5

-----------------------------------------------------------------------------
(* Readers.                                                                *)

\* What is stored was added, and only finitely many tags ever were.
HistoryKept ==
    \A a \in Actions : bin[a] \subseteq added[a] /\ IsFiniteSet(added[a])

\* A step that stores a tag records it, and no step removes from the history.
LEMMA HistoryStep ==
    ASSUME VariablesTyped, HistoryKept, [Next]_vars
    PROVE  HistoryKept'
<1>1. ASSUME NEW a \in Actions, NEW t \in Times, MapPut(a, t) PROVE HistoryKept'
  <2> SUFFICES ASSUME NEW b \in Actions
               PROVE  bin'[b] \subseteq added'[b] /\ IsFiniteSet(added'[b])
    BY DEF HistoryKept
  <2>1. IsFiniteSet(added[b]) /\ bin[b] \subseteq added[b]
    BY DEF HistoryKept
  <2>2. CASE b = a
    <3>1. bin'[b] = bin[b] \cup {t} /\ added'[b] = added[b] \cup {t}
      BY <1>1, <2>2 DEF VariablesTyped, MapPut
    <3>2. IsFiniteSet(added[b] \cup {t})
      BY <2>1, FS_AddElement
    <3> QED
      BY <2>1, <3>1, <3>2
  <2>3. CASE b # a
    BY <1>1, <2>1, <2>3 DEF VariablesTyped, MapPut
  <2> QED
    BY <2>2, <2>3
<1>2. ASSUME NEW a, NEW R, MapRemove(a, R) PROVE HistoryKept'
  BY <1>2 DEF VariablesTyped, HistoryKept, MapRemove
<1>3. CASE UnchangedRecord
  BY <1>3 DEF HistoryKept, UnchangedRecord
<1>4. CASE UNCHANGED vars
  BY <1>4 DEF HistoryKept, vars
<1>5. ASSUME NEW k \in Handlers, NEW a \in Actions, NEW t \in Times, AddUserTag(k, a, t)
      PROVE  HistoryKept'
  BY <1>1, <1>5 DEF AddUserTag
<1>6. ASSUME NEW a \in Actions, NEW t \in Times, AddInDoubt(a, t)
      PROVE  HistoryKept'
  BY <1>1, <1>6 DEF AddInDoubt
<1>7. ASSUME NEW k \in Handlers, CollectorStep(k) \/ CollectorFault(k)
      PROVE  HistoryKept'
  BY <1>2, <1>3, <1>7
     DEF CollectorStep, CollectorFault, ReadSize, RemoveOldest, Mismatch, Retry,
         CollectorFails, RemoveInDoubt, GiveUp
<1>8. ASSUME NEW K, Crash(K) PROVE HistoryKept'
  BY <1>3, <1>8 DEF Crash
<1> QED
  BY <1>4, <1>5, <1>6, <1>7, <1>8 DEF Next

\* The history of a reachable state is finite and holds what is stored.
LEMMA HistoryInvariant == Spec => []HistoryKept
<1>1. Init => HistoryKept
  <2>1. IsFiniteSet({})
    BY FS_EmptySet
  <2> QED
    BY <2>1 DEF Init, HistoryKept
<1>2. IInv /\ HistoryKept /\ [Next]_vars => HistoryKept'
  BY HistoryStep DEF IInv
<1> QED
  BY <1>1, <1>2, Invariant, PTL DEF Spec

\* Selected of the bin is what would be selected of all tags.
LEMMA ReadersSeeNewest == IInv /\ HistoryKept => ReadsNewest
<1> SUFFICES ASSUME IInv, HistoryKept,
                    NEW a \in Actions, NEW from \in Times, NEW to \in Times,
                    NEW limit \in 0 .. Limit,
                    Cardinality({t \in bin[a] : t >= to}) + limit <= Limit
             PROVE  LET wanted == {t \in added[a] : from <= t /\ t < to}
                        answer == ConvertTags(Tags(a), from, to, limit)
                    IN  /\ \A i, j \in 1 .. Len(answer) : i < j => answer[i] > answer[j]
                        /\ ToSet(answer) =
                             {t \in wanted : Cardinality(Newer(wanted, t)) < limit}
  BY DEF ReadsNewest
<1>1. /\ from \in Int /\ to \in Int /\ limit \in Nat
      /\ bin[a] \in SUBSET Int /\ added[a] \in SUBSET Int
      /\ bin[a] \subseteq added[a] /\ IsFiniteSet(bin[a]) /\ IsFiniteSet(added[a])
      /\ \A t \in added[a] \ bin[a] : Cardinality(Newer(bin[a], t)) >= Limit
  <2>1. limit \in Nat
    BY LimitAssumption
  <2>2. /\ bin[a] \in SUBSET Times /\ added[a] \in SUBSET Times /\ IsFiniteSet(bin[a])
        /\ \A t \in added[a] \ bin[a] : Cardinality(Newer(bin[a], t)) >= Limit
    BY DEF IInv, VariablesTyped, NewestRetained
  <2>3. bin[a] \subseteq added[a] /\ IsFiniteSet(added[a])
    BY DEF HistoryKept
  <2> QED
    BY <2>1, <2>2, <2>3, TimesAssumption
<1> DEFINE answer == ConvertTags(Tags(a), from, to, limit)
           held == {t \in bin[a] : from <= t /\ t < to}
           wanted == {t \in added[a] : from <= t /\ t < to}
<1>2. /\ \A i, j \in 1 .. Len(answer) : i < j => answer[i] > answer[j]
      /\ ToSet(answer) = Newest(held, limit)
  BY <1>1, AnswerIsNewest DEF Ranged
<1>3. Newest(held, limit) = Newest(wanted, limit)
  <2>1. Cardinality(Later(bin[a], to)) + limit <= Limit
    BY DEF Later
  <2>2. Newest(Ranged(bin[a], from, to), limit) = Newest(Ranged(added[a], from, to), limit)
    BY <1>1, <2>1, RemovedNotMissed
  <2> QED
    BY <2>2 DEF Ranged
<1> QED
  BY <1>2, <1>3 DEF Newest

\* Whatever was stored, trimmed and lost: as long as the tags newer than its time range
\* and the ones it asks for are not more than userTagLimit, a reader gets the newest tags
\* in the range of all tags ever stored, newest first (userProfiles.go:65-100).
THEOREM ReadsAreNewest == Spec => []ReadsNewest
BY Invariant, HistoryInvariant, ReadersSeeNewest, PTL

-----------------------------------------------------------------------------
(* The profile implements TagStore.                                        *)

LEMMA StoreCardinality == \A S : Store!Cardinality(S) = Cardinality(S)
BY DEF Store!Cardinality, Cardinality, Store!IsFiniteSet, IsFiniteSet

LEMMA InitRefines == Init => Store!Init
BY DEF Init, Store!Init

LEMMA StepRefines == IInv /\ [Next]_vars => [Store!Next]_(Store!vars)
<1> SUFFICES ASSUME IInv, [Next]_vars
             PROVE  [Store!Next]_(Store!vars)
  OBVIOUS
<1>1. ASSUME NEW k \in Handlers, NEW a \in Actions, NEW t \in Times, AddUserTag(k, a, t)
      PROVE  Store!Next
  <2>1. Store!Store(a, t)
    BY <1>1 DEF AddUserTag, MapPut, Store!Store
  <2> QED
    BY <2>1 DEF Store!Next
<1>2. ASSUME NEW a \in Actions, NEW t \in Times, AddInDoubt(a, t)
      PROVE  Store!Next
  <2>1. Store!Store(a, t)
    BY <1>2 DEF AddInDoubt, MapPut, Store!Store
  <2> QED
    BY <2>1 DEF Store!Next
<1>3. ASSUME NEW k \in Handlers, RemoveOldest(k) \/ RemoveInDoubt(k)
      PROVE  Store!Next
  <2> PICK R \in SUBSET bin[action[k]] :
        IsLowest(R, bin[action[k]], toRemove[k]) /\ MapRemove(action[k], R)
    BY <1>3 DEF RemoveOldest, RemoveInDoubt
  <2>1. action[k] \in Actions /\ Cardinality(bin'[action[k]]) = Limit
    BY <1>3, TrimKeeps DEF RemoveOldest, RemoveInDoubt
  <2>2. bin'[action[k]] = bin[action[k]] \ R
    BY <2>1 DEF MapRemove, IInv, VariablesTyped
  <2>3. /\ Store!Cardinality(bin[action[k]] \ R) = Limit
        /\ \A r \in R, s \in bin[action[k]] \ R : r < s
    BY <2>1, <2>2, StoreCardinality DEF IsLowest
  <2>4. Store!Forget(action[k], R)
    BY <2>3 DEF MapRemove, Store!Forget
  <2> QED
    BY <2>1, <2>4 DEF Store!Next
<1>4. ASSUME NEW k \in Handlers,
             ReadSize(k) \/ Mismatch(k) \/ CollectorFails(k) \/ Retry(k) \/ GiveUp(k)
      PROVE  UNCHANGED Store!vars
  BY <1>4 DEF ReadSize, Mismatch, CollectorFails, Retry, GiveUp, UnchangedRecord,
              Store!vars
<1>5. ASSUME NEW K \in SUBSET Handlers, Crash(K)
      PROVE  UNCHANGED Store!vars
  BY <1>5 DEF Crash, UnchangedRecord, Store!vars
<1>6. CASE UNCHANGED vars
  BY <1>6 DEF vars, Store!vars
<1> QED
  BY <1>1, <1>2, <1>3, <1>4, <1>5, <1>6 DEF Next, CollectorStep, CollectorFault

\* The profile implements TagStore: whatever handlers and collectors race, and whatever
\* answers are lost, a removal leaves the Limit newest tags of its bin, no more and no less
\* (user_profiles.go:102-150).
THEOREM TagStoreImplemented == Spec => ImplementsTagStore
<1>1. Init => Store!Init
  BY InitRefines
<1>2. IInv /\ [Next]_vars => [Store!Next]_(Store!vars)
  BY StepRefines
<1> QED
  BY <1>1, <1>2, Invariant, PTL DEF Spec, ImplementsTagStore, Store!Spec
=============================================================================
