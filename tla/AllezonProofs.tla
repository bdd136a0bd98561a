--------------------------- MODULE AllezonProofs ---------------------------
(***************************************************************************)
(* Proofs about the start of the replicas and the way of a tag, for every  *)
(* set of replicas and posts and any number of faults.                     *)
(*                                                                         *)
(* Of the start, the invariant counts the replicas that may yet fail to    *)
(* create the topic because they found none (StartsInv).  Of a post, it    *)
(* says what its two goroutines have done so far, and how many additions   *)
(* are made or will be made of its messages (PostInv); of the profile,     *)
(* that it holds the message of a post at its place (ProfileInv).          *)
(***************************************************************************)
EXTENDS Allezon, Division, FiniteSetTheorems, TLAPS

\* Replicas that are about to create the topic, because they found none.
Creators == {r \in Replicas : replica[r] = "createTopic"}

StartsInv ==
    IF topic
      THEN exits + Cardinality(Creators) <= Cardinality(Replicas) - 1 + faults
      ELSE exits <= faults

StartupInv == StartupTypeOK /\ ServesWithTopic /\ StartsInv

PostOK(p) ==
    /\ add[p] # "none" => p \in Valid /\ call[p] = "handling"
    /\ send[p] # "none" => p \in Valid /\ call[p] = "handling"
    /\ on[p] # NoReplica => call[p] = "handling"
    /\ call[p] = "new" => queue[p] = 0 /\ counted[p] = 0
    /\ send[p] = "running" => counted[p] + queue[p] <= faults
    /\ counted[p] + queue[p] <= 1 + faults
    /\ add[p] = "ok" => p \in stored
    /\ send[p] = "ok" => counted[p] + queue[p] + lost[p] >= 1
    /\ call[p] = "acked" =>
         p \in stored /\ counted[p] + queue[p] + lost[p] >= 1

PostInv == \A p \in Posts : PostOK(p)

ProfileInv ==
    /\ \A p \in stored : profile[Slot(p)] # NoMessage
    /\ \A s \in Slots :
         profile[s] # NoMessage =>
           \E o \in stored : Slot(o) = s /\ profile[s] = MarshalUserTag(Tag(o))

IInv == TypeOK /\ ServesWithTopic /\ StartsInv /\ PostInv /\ ProfileInv

-----------------------------------------------------------------------------
(* The start of the replicas.                                              *)

LEMMA CreatorsAreFinite ==
    /\ IsFiniteSet(Creators) /\ Cardinality(Creators) \in Nat
    /\ Cardinality(Creators) <= Cardinality(Replicas)
    /\ Cardinality(Replicas) \in Nat /\ Cardinality(Replicas) >= 1
<1>1. Creators \in SUBSET Replicas
  BY DEF Creators
<1>2. Cardinality(Replicas) # 0
  BY ReplicasAssumption, FS_EmptySet
<1> QED
  BY <1>1, <1>2, ReplicasAssumption, FS_Subset, FS_CardinalityType

\* A replica that leaves "createTopic" is one creator less.
LEMMA CreatorLeaves ==
    ASSUME StartupTypeOK, NEW r \in Replicas, replica[r] = "createTopic",
           NEW step, step # "createTopic", replica' = [replica EXCEPT ![r] = step]
    PROVE  Cardinality(Creators') = Cardinality(Creators) - 1
<1>1. Creators' = Creators \ {r} /\ r \in Creators
  BY DEF Creators, StartupTypeOK
<1> QED
  BY <1>1, CreatorsAreFinite, FS_RemoveElement

\* Other steps leave the creators alone.
LEMMA CreatorsStay ==
    ASSUME StartupTypeOK, NEW r \in Replicas, replica[r] # "createTopic",
           NEW step, step # "createTopic", replica' = [replica EXCEPT ![r] = step]
    PROVE  Creators' = Creators
BY DEF Creators, StartupTypeOK

LEMMA StartupStep ==
    ASSUME StartupInv, NEW r \in Replicas, StartStep(r) \/ StartFails(r)
    PROVE  StartupInv'
<1> USE DEF StartupInv, StartupTypeOK
<1> DEFINE n == Cardinality(Creators)
           m == Cardinality(Replicas)
<1>1. n \in Nat /\ n <= m /\ m \in Nat /\ m >= 1
  BY CreatorsAreFinite
<1>2. StartupTypeOK'
  <2>0. \E step \in StartSteps \cup {"down", "serving"} :
          replica' = [replica EXCEPT ![r] = step]
    BY DEF StartStep, StartFails, Start, ListTopics, CreateTopic, Connect, Goto, Exit,
           StartSteps
  <2>1. CASE StartStep(r)
    <3>1. faults' = faults /\ exits' \in {exits, exits + 1} /\ topic' \in {topic, TRUE}
      BY <2>1 DEF StartStep, Start, ListTopics, CreateTopic, Connect, Goto, Exit
    <3>2. topic' \in BOOLEAN
      BY <3>1
    <3>3. exits' \in Nat /\ faults' \in 0 .. MaxFaults
      BY <3>1
    <3> QED
      BY <2>0, <3>2, <3>3
  <2>2. CASE StartFails(r)
    <3>1. faults' = faults + 1 /\ faults < MaxFaults /\ exits' = exits + 1
            /\ topic' \in {topic, TRUE}
      BY <2>2 DEF StartFails, Exit, Fault
    <3>2. topic' \in BOOLEAN
      BY <3>1
    <3>3. exits' \in Nat /\ faults' \in 0 .. MaxFaults
      BY <3>1, FaultsAssumption
    <3> QED
      BY <2>0, <3>2, <3>3
  <2> QED
    BY <2>1, <2>2
<1>3. ServesWithTopic'
  BY DEF ServesWithTopic, StartStep, StartFails, Start, ListTopics, CreateTopic, Connect,
         Goto, Exit, Fault, StartSteps
<1>4. CASE Start(r) \/ Connect(r) \/ (ListTopics(r) /\ topic)
  <2>1. PICK step \in {"listTopics", "connect", "serving"} :
          replica' = [replica EXCEPT ![r] = step]
    BY <1>4 DEF Start, Connect, ListTopics, Goto
  <2>2. replica[r] # "createTopic" /\ UNCHANGED <<topic, exits, faults>>
    BY <1>4 DEF Start, Connect, ListTopics, Goto
  <2>3. Creators' = Creators
    BY <2>1, <2>2, CreatorsStay
  <2> QED
    BY <1>2, <1>3, <2>2, <2>3 DEF StartsInv
<1>5. CASE ListTopics(r) /\ ~ topic
  BY <1>2, <1>3, <1>5 DEF ListTopics, Goto, StartsInv
<1>6. CASE CreateTopic(r)
  <2>1. PICK step \in {"down", "connect"} : replica' = [replica EXCEPT ![r] = step]
    BY <1>6 DEF CreateTopic, Goto, Exit
  <2>2. Cardinality(Creators') = n - 1
    BY <1>6, <2>1, CreatorLeaves DEF CreateTopic
  <2>3. topic' = TRUE /\ faults' = faults /\ exits' = (IF topic THEN exits + 1 ELSE exits)
    BY <1>6 DEF CreateTopic, Goto, Exit
  <2> QED
    BY <1>1, <1>2, <1>3, <2>2, <2>3 DEF StartsInv
<1>7. CASE StartFails(r)
  <2>1. /\ exits' = exits + 1 /\ faults' = faults + 1
        /\ replica' = [replica EXCEPT ![r] = "down"]
        /\ topic' \in (IF replica[r] = "createTopic" THEN {topic, TRUE} ELSE {topic})
    BY <1>7 DEF StartFails, Exit, Fault
  <2>2. CASE replica[r] = "createTopic"
    <3>1. Cardinality(Creators') = n - 1
      BY <2>1, <2>2, CreatorLeaves
    <3>2. exits + n <= faults + m
      BY <1>1 DEF StartsInv
    <3>3. topic => topic'
      BY <2>1
    <3>4. topic' => exits' + Cardinality(Creators') <= m - 1 + faults'
      BY <1>1, <2>1, <3>1, <3>2
    <3>5. ~ topic' => exits' <= faults'
      BY <2>1, <3>3 DEF StartsInv
    <3> QED
      BY <1>2, <1>3, <3>4, <3>5 DEF StartsInv
  <2>3. CASE replica[r] # "createTopic"
    <3>1. Creators' = Creators
      BY <2>1, <2>3, CreatorsStay
    <3> QED
      BY <1>1, <1>2, <1>3, <2>1, <2>3, <3>1 DEF StartsInv
  <2> QED
    BY <2>2, <2>3
<1> QED
  BY <1>4, <1>5, <1>6, <1>7 DEF StartStep

-----------------------------------------------------------------------------
(* The way of a tag.                                                       *)

PostTypeOK ==
    /\ call \in [Posts -> {"new", "handling", "acked", "failed"}]
    /\ on \in [Posts -> Replicas \cup {NoReplica}]
    /\ add \in [Posts -> Outcomes]
    /\ send \in [Posts -> Outcomes]
    /\ profile \in [Slots -> Messages \cup {NoMessage}]
    /\ queue \in [Posts -> Nat]
    /\ counted \in [Posts -> Nat]
    /\ lost \in [Posts -> Nat]
    /\ stored \in SUBSET Valid

LEMMA FaultsAreNat == ASSUME TypeOK PROVE faults \in Nat
BY FaultsAssumption DEF TypeOK, StartupTypeOK

\* Steps of replicas that serve, and of workers, only add to the faults.
LEMMA StartupKept ==
    ASSUME StartupInv, UNCHANGED startupVars, Fault \/ UNCHANGED faults
    PROVE  StartupInv'
<1>1. faults' \in 0 .. MaxFaults /\ faults \in Nat /\ faults <= faults'
  BY FaultsAssumption DEF Fault, StartupInv, StartupTypeOK
<1>2. Creators' = Creators
  BY DEF Creators, startupVars
<1>3. StartupTypeOK' /\ ServesWithTopic'
  BY <1>1 DEF StartupInv, StartupTypeOK, ServesWithTopic, startupVars
<1>4. StartsInv'
  BY <1>1, <1>2, CreatorsAreFinite DEF StartupInv, StartupTypeOK, StartsInv, startupVars
<1> QED
  BY <1>3, <1>4 DEF StartupInv

LEMMA StartupCrash ==
    ASSUME StartupInv, NEW r \in Replicas, Crash(r)
    PROVE  StartupInv'
<1>1. /\ replica[r] = "serving" /\ replica' = [replica EXCEPT ![r] = "down"]
      /\ UNCHANGED <<topic, exits>> /\ faults' = faults + 1 /\ faults < MaxFaults
  BY DEF Crash, Fault
<1>2. Creators' = Creators
  BY <1>1, CreatorsStay DEF StartupInv
<1>3. faults' \in 0 .. MaxFaults /\ faults \in Nat
  BY <1>1, FaultsAssumption DEF StartupInv, StartupTypeOK
<1>4. StartupTypeOK' /\ ServesWithTopic'
  BY <1>1, <1>3 DEF StartupInv, StartupTypeOK, ServesWithTopic
<1>5. StartsInv'
  BY <1>1, <1>2, <1>3, CreatorsAreFinite DEF StartupInv, StartupTypeOK, StartsInv
<1> QED
  BY <1>4, <1>5 DEF StartupInv

LEMMA StartupNext ==
    ASSUME StartupInv, [Next]_vars
    PROVE  StartupInv'
<1>1. ASSUME NEW r \in Replicas, Starting(r)
      PROVE  StartupInv'
  BY <1>1, StartupStep DEF Starting
<1>2. ASSUME UNCHANGED startupVars, Fault \/ UNCHANGED faults
      PROVE  StartupInv'
  BY <1>2, StartupKept
<1> QED
  BY <1>1, <1>2, StartupCrash
  DEF Next, Handle, Post, AddUserTag, AddFails, Send, SendAgain, SendFails, Respond, Count,
      CountAgain, Lose, vars

\* A step that leaves a post alone keeps what is known of it.
LEMMA PostKept ==
    ASSUME faults \in Nat, faults' \in Nat, faults <= faults', stored \subseteq stored',
           NEW q \in Posts, PostTypeOK, PostOK(q),
           call'[q] = call[q], on'[q] = on[q], add'[q] = add[q], send'[q] = send[q],
           queue'[q] = queue[q], counted'[q] = counted[q], lost'[q] = lost[q]
    PROVE  PostOK(q)'
BY DEF PostOK, PostTypeOK

LEMMA FaultsGrow ==
    ASSUME TypeOK, Fault \/ UNCHANGED faults
    PROVE  faults \in Nat /\ faults' \in Nat /\ faults <= faults'
BY FaultsAreNat DEF Fault

LEMMA StoreTagType ==
    ASSUME PostTypeOK, NEW p \in Valid, StoreTag(p)
    PROVE  /\ profile' \in [Slots -> Messages \cup {NoMessage}]
           /\ stored' \in SUBSET Valid /\ stored' = stored \cup {p}
BY DEF StoreTag, PostTypeOK, Slots, Messages

LEMMA PostStep ==
    ASSUME TypeOK, PostTypeOK, PostInv, [Next]_vars
    PROVE  PostTypeOK' /\ PostInv'
<1> DEFINE Goal == PostTypeOK' /\ PostInv'
           Others(p) == \A q \in Posts \ {p} : PostOK(q)'
<1>1. ASSUME NEW p \in Posts, NEW r \in Replicas, Post(p, r)
      PROVE  Goal
  <2>1. /\ call[p] = "new" /\ p \in Valid
        /\ call' = [call EXCEPT ![p] = "handling"] /\ on' = [on EXCEPT ![p] = r]
        /\ add' = [add EXCEPT ![p] = "running"] /\ send' = [send EXCEPT ![p] = "running"]
        /\ UNCHANGED <<faults, profile, queue, counted, lost, stored>>
    BY <1>1 DEF Post, Valid, workerVars
  <2>2. PostTypeOK'
    BY <2>1 DEF PostTypeOK, Outcomes
  <2>3. Others(p)
    BY <2>1, FaultsAreNat, PostKept DEF PostTypeOK, PostInv
  <2>4. PostOK(p)'
    BY <2>1, FaultsAreNat DEF PostTypeOK, PostInv, PostOK
  <2> QED
    BY <2>2, <2>3, <2>4 DEF PostInv
<1>2. ASSUME NEW p \in Posts, AddUserTag(p) \/ AddFails(p)
      PROVE  Goal
  <2>1. add[p] = "running" /\ p \in Valid /\ (Fault \/ UNCHANGED faults)
    BY <1>2 DEF AddUserTag, AddFails, PostInv, PostOK
  <2>2. /\ \/ StoreTag(p) /\ add' = [add EXCEPT ![p] = "ok"]
           \/ (StoreTag(p) \/ UNCHANGED <<profile, stored>>) /\ add' = [add EXCEPT ![p] = "error"]
        /\ UNCHANGED <<call, on, send, queue, counted, lost>>
    BY <1>2 DEF AddUserTag, AddFails, workerVars
  <2>3. PostTypeOK' /\ stored \subseteq stored' /\ (add'[p] = "ok" => p \in stored')
    BY <2>1, <2>2, StoreTagType DEF PostTypeOK, Outcomes
  <2>4. faults \in Nat /\ faults' \in Nat /\ faults <= faults'
    BY <2>1, FaultsGrow
  <2>5. Others(p)
    BY <2>2, <2>3, <2>4, PostKept DEF PostTypeOK, PostInv
  <2>6. PostOK(p)'
    BY <2>1, <2>2, <2>3, <2>4 DEF PostTypeOK, PostInv, PostOK
  <2> QED
    BY <2>3, <2>5, <2>6 DEF PostInv
<1>3. ASSUME NEW p \in Posts, Send(p) \/ SendAgain(p) \/ SendFails(p)
      PROVE  Goal
  <2>1. /\ send[p] = "running"
        /\ \/ AppendMessage(p) /\ send' = [send EXCEPT ![p] = "ok"] /\ UNCHANGED faults
           \/ AppendMessage(p) /\ UNCHANGED send /\ faults' = faults + 1
           \/ /\ AppendMessage(p) \/ UNCHANGED workerVars
              /\ send' = [send EXCEPT ![p] = "error"]
              /\ faults' = faults + 1
        /\ UNCHANGED <<call, on, add, profile, stored>>
    BY <1>3 DEF Send, SendAgain, SendFails, Fault, postVars
  <2>2. \/ queue' = [queue EXCEPT ![p] = @ + 1] /\ UNCHANGED <<counted, lost>>
        \/ UNCHANGED <<queue, counted, lost>>
    BY <2>1 DEF AppendMessage, workerVars
  <2>3. PostTypeOK'
    BY <2>1, <2>2 DEF PostTypeOK, Outcomes
  <2>4. faults \in Nat /\ faults' \in Nat /\ faults <= faults'
    BY <2>1, FaultsAreNat
  <2>5. Others(p)
    BY <2>1, <2>2, <2>4, PostKept DEF PostTypeOK, PostInv
  <2>6. PostOK(p)'
    BY <2>1, <2>2, <2>4 DEF PostTypeOK, PostInv, PostOK, AppendMessage
  <2> QED
    BY <2>3, <2>5, <2>6 DEF PostInv
<1>4. ASSUME NEW p \in Posts, Respond(p)
      PROVE  Goal
  <2>1. /\ Ended(p)
        /\ call' = [call EXCEPT ![p] = IF "error" \in {add[p], send[p]} THEN "failed" ELSE "acked"]
        /\ on' = [on EXCEPT ![p] = NoReplica]
        /\ add' = [add EXCEPT ![p] = "none"] /\ send' = [send EXCEPT ![p] = "none"]
        /\ UNCHANGED <<faults, profile, queue, counted, lost, stored>>
    BY <1>4 DEF Respond, Answer, workerVars
  <2>2. PostTypeOK'
    BY <2>1 DEF PostTypeOK, Outcomes
  <2>3. Others(p)
    BY <2>1, FaultsAreNat, PostKept DEF PostTypeOK, PostInv
  <2>4. PostOK(p)'
    BY <2>1, FaultsAreNat DEF PostTypeOK, PostInv, PostOK, Ended
  <2> QED
    BY <2>2, <2>3, <2>4 DEF PostInv
<1>5. ASSUME NEW r \in Replicas, Crash(r)
      PROVE  Goal
  <2> DEFINE P == {p \in Posts : on[p] = r}
  <2>1. /\ call' = [p \in Posts |-> IF p \in P THEN "failed" ELSE call[p]]
        /\ on' = [p \in Posts |-> IF p \in P THEN NoReplica ELSE on[p]]
        /\ add' = [p \in Posts |-> IF p \in P THEN "none" ELSE add[p]]
        /\ send' = [p \in Posts |-> IF p \in P THEN "none" ELSE send[p]]
        /\ faults' = faults + 1
        /\ UNCHANGED <<profile, queue, counted, lost, stored>>
    BY <1>5 DEF Crash, Fault, workerVars
  <2>2. PostTypeOK'
    BY <2>1 DEF PostTypeOK, Outcomes
  <2>3. faults \in Nat /\ faults' \in Nat /\ faults <= faults'
    BY <2>1, FaultsAreNat
  <2>4. ASSUME NEW p \in Posts \ P PROVE PostOK(p)'
    BY <2>1, <2>3, PostKept DEF PostTypeOK, PostInv
  <2>5. ASSUME NEW p \in P PROVE PostOK(p)'
    BY <2>1, <2>3 DEF PostTypeOK, PostInv, PostOK
  <2> QED
    BY <2>2, <2>4, <2>5 DEF PostInv
<1>6. ASSUME NEW p \in Posts, Count(p) \/ CountAgain(p) \/ Lose(p)
      PROVE  Goal
  <2>1. /\ queue[p] > 0
        /\ \/ /\ queue' = [queue EXCEPT ![p] = @ - 1]
              /\ counted' = [counted EXCEPT ![p] = @ + 1]
              /\ UNCHANGED <<lost, faults>>
           \/ /\ counted' = [counted EXCEPT ![p] = @ + 1]
              /\ UNCHANGED <<queue, lost>> /\ faults' = faults + 1
           \/ /\ queue' = [queue EXCEPT ![p] = @ - 1]
              /\ lost' = [lost EXCEPT ![p] = @ + 1]
              /\ UNCHANGED counted /\ faults' = faults + 1
        /\ UNCHANGED <<call, on, add, send, profile, stored>>
    BY <1>6 DEF Count, CountAgain, Lose, Take, Fault, postVars
  <2>2. PostTypeOK'
    BY <2>1 DEF PostTypeOK
  <2>3. faults \in Nat /\ faults' \in Nat /\ faults <= faults'
    BY <2>1, FaultsAreNat
  <2>4. Others(p)
    BY <2>1, <2>3, PostKept DEF PostTypeOK, PostInv
  <2>5. PostOK(p)'
    BY <2>1, <2>3 DEF PostTypeOK, PostInv, PostOK
  <2> QED
    BY <2>2, <2>4, <2>5 DEF PostInv
<1>7. ASSUME UNCHANGED <<postVars, profile, workerVars, stored>>, faults' \in {faults, faults + 1}
      PROVE  Goal
  <2>1. faults \in Nat /\ faults' \in Nat /\ faults <= faults'
    BY <1>7, FaultsAreNat
  <2> QED
    BY <1>7, <2>1, PostKept DEF PostTypeOK, PostInv, postVars, workerVars
<1>8. ASSUME NEW r \in Replicas, Starting(r)
      PROVE  faults' \in {faults, faults + 1}
  BY <1>8 DEF Starting, StartStep, StartFails, Start, ListTopics, CreateTopic, Connect, Fault
<1> QED
  BY <1>1, <1>2, <1>3, <1>4, <1>5, <1>6, <1>7, <1>8 DEF Next, Handle, Starting, vars

-----------------------------------------------------------------------------
(* What profiles show.                                                     *)

LEMMA MessageIsSome == \A p : MarshalUserTag(Tag(p)) # NoMessage
<1>1. ASSUME NEW p PROVE MarshalUserTag(Tag(p)) # NoMessage
  <2>1. DOMAIN MarshalUserTag(Tag(p)) = {"time", "device", "action", "productId"}
    BY DEF MarshalUserTag, Tag, FromUserTagDTO
  <2>2. DOMAIN NoMessage = {"none"}
    BY DEF NoMessage
  <2>3. "time" \in DOMAIN MarshalUserTag(Tag(p)) /\ "time" \notin DOMAIN NoMessage
    BY <2>1, <2>2
  <2> QED
    BY <2>3
<1> QED
  BY <1>1

LEMMA ProfileStep ==
    ASSUME TypeOK, PostInv, ProfileInv, [Next]_vars
    PROVE  ProfileInv'
<1>1. ASSUME UNCHANGED <<profile, stored>>
      PROVE  ProfileInv'
  BY <1>1 DEF ProfileInv
<1>2. ASSUME NEW p \in Valid, StoreTag(p)
      PROVE  ProfileInv'
  <2> DEFINE m == MarshalUserTag(Tag(p))
  <2>1. profile' = [profile EXCEPT ![Slot(p)] = m] /\ stored' = stored \cup {p}
    BY <1>2 DEF StoreTag
  <2>2. /\ m # NoMessage /\ DOMAIN profile = Slots
        /\ \A o \in stored' : Slot(o) \in Slots
    BY <2>1, MessageIsSome DEF TypeOK, Slots
  <2> HIDE DEF m
  <2>3. \A s \in Slots : profile'[s] = IF s = Slot(p) THEN m ELSE profile[s]
    BY <2>1, <2>2
  <2>4. \A o \in stored' : profile'[Slot(o)] # NoMessage
    BY <2>1, <2>2, <2>3 DEF ProfileInv
  <2>5. ASSUME NEW s \in Slots, profile'[s] # NoMessage
        PROVE  \E o \in stored' : Slot(o) = s /\ profile'[s] = MarshalUserTag(Tag(o))
    <3>1. CASE s = Slot(p)
      BY <2>1, <2>3, <3>1 DEF m
    <3>2. CASE s # Slot(p)
      BY <2>1, <2>3, <2>5, <3>2 DEF ProfileInv
    <3> QED
      BY <3>1, <3>2
  <2> QED
    BY <2>4, <2>5 DEF ProfileInv
<1>3. ASSUME NEW p \in Posts, AddUserTag(p) \/ AddFails(p)
      PROVE  p \in Valid /\ (StoreTag(p) \/ UNCHANGED <<profile, stored>>)
  BY <1>3 DEF AddUserTag, AddFails, PostInv, PostOK
<1> QED
  BY <1>1, <1>2, <1>3
  DEF Next, Handle, Starting, Post, Send, SendAgain, SendFails, Respond, Crash, Count,
      CountAgain, Lose, vars

\* A 32-bit integer holds the numbers of its range.
LEMMA Int32Holds ==
    ASSUME NEW n \in Int, n \in -Int32Half .. Int32Half - 1
    PROVE  Int32(n) = n
<1> DEFINE w == 2 * Int32Half
           s == n + Int32Half
<1>1. w \in Nat \ {0} /\ s \in Int /\ 0 <= s /\ s < w
  BY ConversionsAssumption
<1>2. (0 * w + s) % w = s
  <2> HIDE DEF w, s
  <2> QED
    BY <1>1, DivideSum
<1>3. 0 * w + s = s /\ Int32(n) = (s % w) - Int32Half
  BY <1>1 DEF Int32
<1> QED
  <2>1. s % w = s
    BY <1>2, <1>3
  <2> HIDE DEF w
  <2> QED
    BY <1>3, <2>1, ConversionsAssumption DEF w

\* Dropping the fractions of a millisecond keeps the millisecond.
LEMMA MilliKept ==
    ASSUME NEW time \in Int
    PROVE  UnixMilli(UnixMilli(time) * Milli) = UnixMilli(time)
<1> DEFINE k == time \div Milli
<1>1. k \in Int /\ Milli \in Nat \ {0}
  BY ConversionsAssumption
<1>2. (k * Milli + 0) \div Milli = k
  <2> HIDE DEF k
  <2> QED
    BY <1>1, DivideSum
<1>3. k * Milli + 0 = k * Milli
  <2> HIDE DEF k
  <2> QED
    BY <1>1
<1> QED
  BY <1>2, <1>3 DEF UnixMilli

\* The answer made of the message of a post shows the post.
LEMMA MessageShows ==
    ASSUME NEW o \in Valid, NEW s, profile[s] = MarshalUserTag(Tag(o))
    PROVE  Shows(s, o)
<1> DEFINE c == Content[o]
           answer == IntoUserTagDTO(UnmarshalUserTag(profile[s]))
<1>1. c.time \in Int /\ c.productId \in Int /\ IsTag(c)
  BY PostsAssumption DEF Valid
<1>2. profile[s] = [time |-> c.time, device |-> ToDevice[c.device],
                    action |-> ToAction[c.action], productId |-> Int32(c.productId)]
  BY DEF MarshalUserTag, Tag, FromUserTagDTO
<1>3. answer = [time |-> UnixMilli(c.time) * Milli,
                device |-> DeviceString(ToDevice[c.device]),
                action |-> ActionString(ToAction[c.action]), productId |-> Int32(c.productId)]
  BY <1>2 DEF IntoUserTagDTO, UnmarshalUserTag
<1>4. DeviceString(ToDevice[c.device]) = c.device
  BY <1>1 DEF IsTag, DeviceString, ToDevice
<1>5. ActionString(ToAction[c.action]) = c.action
  BY <1>1 DEF IsTag, ActionString, ToAction
<1>6. UnixMilli(answer.time) = UnixMilli(c.time)
  BY <1>1, <1>3, MilliKept
<1>7. c.productId \in -Int32Half .. Int32Half - 1 => answer.productId = c.productId
  BY <1>1, <1>3, Int32Holds
<1>8. profile[s] # NoMessage
  BY MessageIsSome
<1>9. answer.device = c.device /\ answer.action = c.action
  BY <1>3, <1>4, <1>5
<1> QED
  BY <1>6, <1>7, <1>8, <1>9 DEF Shows

-----------------------------------------------------------------------------
(* Theorems.                                                               *)

(***************************************************************************)
(* The invariant holds in every reachable state of the composed system.    *)
(***************************************************************************)
THEOREM Invariance == Spec => []IInv
<1>1. Init => IInv
  <2> SUFFICES ASSUME Init PROVE IInv
    OBVIOUS
  <2>1. StartupTypeOK /\ ServesWithTopic /\ StartsInv
    <3>1. /\ replica = [r \in Replicas |-> "down"]
          /\ topic = FALSE /\ exits = 0 /\ faults = 0
      BY DEF Init, StartupInit
    <3>2. topic \in BOOLEAN /\ ~ topic
      BY <3>1
    <3>3. StartupTypeOK
      BY <3>1, <3>2, FaultsAssumption DEF StartupTypeOK
    <3>4. ServesWithTopic /\ StartsInv
      BY <3>1, <3>2 DEF ServesWithTopic, StartsInv
    <3> QED
      BY <3>3, <3>4
  <2>2. PostTypeOK
    BY DEF Init, PostTypeOK, Outcomes, Zero
  <2>3. PostInv
    BY FaultsAssumption DEF Init, StartupInit, PostInv, PostOK, Zero
  <2>4. ProfileInv
    BY DEF Init, ProfileInv
  <2> QED
    BY <2>1, <2>2, <2>3, <2>4 DEF IInv, TypeOK, PostTypeOK
<1>2. IInv /\ [Next]_vars => IInv'
  <2> SUFFICES ASSUME IInv, [Next]_vars PROVE IInv'
    OBVIOUS
  <2>1. StartupInv /\ PostTypeOK
    BY DEF IInv, TypeOK, StartupInv, PostTypeOK
  <2>2. StartupInv'
    BY <2>1, StartupNext
  <2>3. PostTypeOK' /\ PostInv'
    BY <2>1, PostStep DEF IInv
  <2>4. ProfileInv'
    BY ProfileStep DEF IInv
  <2> QED
    BY <2>2, <2>3, <2>4 DEF IInv, TypeOK, StartupInv, PostTypeOK
<1> QED
  BY <1>1, <1>2, PTL DEF Spec

(***************************************************************************)
(* Type correctness of the replicas, the posts, the profile and the queue. *)
(***************************************************************************)
THEOREM TypeCorrect == Spec => []TypeOK
<1>1. IInv => TypeOK
  BY DEF IInv
<1> QED
  BY <1>1, Invariance, PTL

(***************************************************************************)
(* A replica that takes requests can send tags to an existing topic        *)
(* (topic.go:24-40, main.go:31-50).                                        *)
(***************************************************************************)
THEOREM TopicIsServed == Spec => []ServesWithTopic
<1>1. IInv => ServesWithTopic
  BY DEF IInv
<1> QED
  BY <1>1, Invariance, PTL

(***************************************************************************)
(* Of replicas that start at a time, all but one may fail because another  *)
(* one created the topic after they looked for it, once each               *)
(* (topic.go:29-38).                                                       *)
(***************************************************************************)
THEOREM StartsFailRarely == Spec => []StartsFailOnce
<1>1. IInv => StartsFailOnce
  <2> SUFFICES ASSUME IInv PROVE StartsFailOnce
    OBVIOUS
  <2>1. exits \in Nat /\ faults \in Nat
    BY FaultsAssumption DEF IInv, TypeOK, StartupTypeOK
  <2> QED
    BY <2>1, CreatorsAreFinite DEF IInv, StartsInv, StartsFailOnce
<1> QED
  BY <1>1, Invariance, PTL

(***************************************************************************)
(* A tag that is acknowledged was stored and is on its way to the          *)
(* aggregates; a post is counted once, and once more for every fault       *)
(* (userTags.go:35-49).                                                    *)
(***************************************************************************)
THEOREM PostsCountedOnce == Spec => []CountedOnce
<1>1. IInv => CountedOnce
  BY DEF IInv, PostInv, PostOK, CountedOnce
<1> QED
  BY <1>1, Invariance, PTL

(***************************************************************************)
(* A profile shows, at the millisecond of an acknowledged tag, the content *)
(* of a post of that millisecond and action, after all conversions         *)
(* (dto.go:46-92, userTag.go:87-171, user_profiles.go:28-100).             *)
(***************************************************************************)
THEOREM AckedTagsAreShown == Spec => []AckedIsShown
<1>1. IInv => AckedIsShown
  <2> SUFFICES ASSUME IInv, NEW p \in Posts, call[p] = "acked"
               PROVE  \E o \in stored : Slot(o) = Slot(p) /\ Shows(Slot(p), o)
    BY DEF AckedIsShown
  <2>1. p \in stored /\ stored \subseteq Valid
    BY DEF IInv, PostInv, PostOK, TypeOK
  <2>2. PICK o \in stored : Slot(o) = Slot(p) /\ profile[Slot(p)] = MarshalUserTag(Tag(o))
    BY <2>1 DEF IInv, ProfileInv, Slots
  <2> QED
    BY <2>1, <2>2, MessageShows
<1> QED
  BY <1>1, Invariance, PTL

(***************************************************************************)
(* The system implements TagLedger: an answer of success comes after both  *)
(* writes, and only what was sent is counted (userTags.go:37-49).          *)
(***************************************************************************)
THEOREM LedgerImplemented == Spec => ImplementsLedger
<1> DEFINE Acked == {p \in Posts : call[p] = "acked"}
           Counted == {p \in Posts : counted[p] > 0}
<1>1. Init => Ledger!Init
  BY DEF Init, Ledger!Init, Sent, Zero
<1>2. IInv /\ [Next]_vars => [Ledger!Next]_(Ledger!vars)
  <2> SUFFICES ASSUME IInv, [Next]_vars PROVE [Ledger!Next]_(Ledger!vars)
    OBVIOUS
  <2>1. PostTypeOK /\ PostInv
    BY DEF IInv, TypeOK, PostTypeOK
  <2>2. ASSUME UNCHANGED <<stored, Sent, Acked, Counted>>
        PROVE  UNCHANGED Ledger!vars
    BY <2>2 DEF Ledger!vars
  <2>3. ASSUME NEW p \in Posts, AddUserTag(p) \/ AddFails(p)
        PROVE  [Ledger!Next]_(Ledger!vars)
    <3>1. UNCHANGED <<call, queue, counted, lost>>
            /\ (stored' = stored \cup {p} \/ stored' = stored)
      BY <2>3 DEF AddUserTag, AddFails, StoreTag, workerVars
    <3>2. UNCHANGED <<Sent, Acked, Counted>>
      BY <3>1 DEF Sent
    <3> QED
      BY <2>2, <3>1, <3>2 DEF Ledger!Next, Ledger!Store
  <2>4. ASSUME NEW p \in Posts, Send(p) \/ SendAgain(p) \/ SendFails(p)
        PROVE  [Ledger!Next]_(Ledger!vars)
    <3>1. UNCHANGED <<call, stored>> /\ (AppendMessage(p) \/ UNCHANGED workerVars)
      BY <2>4 DEF Send, SendAgain, SendFails, postVars
    <3>2. CASE AppendMessage(p)
      <4>1. queue' = [queue EXCEPT ![p] = @ + 1] /\ UNCHANGED <<counted, lost>>
        BY <3>2 DEF AppendMessage
      <4>2. Sent' = Sent \cup {p} /\ Acked' = Acked /\ Counted' = Counted
        BY <2>1, <3>1, <4>1 DEF Sent, PostTypeOK
      <4> QED
        BY <3>1, <4>2 DEF Ledger!Next, Ledger!Send
    <3>3. CASE UNCHANGED workerVars
      BY <2>2, <3>1, <3>3 DEF workerVars, Sent
    <3> QED
      BY <3>1, <3>2, <3>3
  <2>5. ASSUME NEW p \in Posts, Respond(p)
        PROVE  [Ledger!Next]_(Ledger!vars)
    <3>1. /\ Ended(p) /\ UNCHANGED <<queue, counted, lost, stored>>
          /\ call' = [call EXCEPT ![p] = IF "error" \in {add[p], send[p]} THEN "failed" ELSE "acked"]
      BY <2>5 DEF Respond, Answer, workerVars
    <3>2. Sent' = Sent /\ Counted' = Counted
      BY <3>1 DEF Sent
    <3>3. call[p] = "handling"
      BY <2>1, <3>1 DEF PostInv, PostOK, Ended
    <3>4. CASE "error" \in {add[p], send[p]}
      <4>1. Acked' = Acked
        BY <2>1, <3>1, <3>3, <3>4 DEF PostTypeOK
      <4> QED
        BY <2>2, <3>1, <3>2, <4>1
    <3>5. CASE "error" \notin {add[p], send[p]}
      <4>1. Acked' = Acked \cup {p}
        BY <2>1, <3>1, <3>5 DEF PostTypeOK
      <4>2. p \in stored /\ p \in Sent
        BY <2>1, <3>1, <3>5 DEF PostTypeOK, PostInv, PostOK, Ended, Sent
      <4> QED
        BY <3>1, <3>2, <4>1, <4>2 DEF Ledger!Next, Ledger!Acknowledge
    <3> QED
      BY <3>4, <3>5
  <2>6. ASSUME NEW r \in Replicas, Crash(r)
        PROVE  [Ledger!Next]_(Ledger!vars)
    <3>1. /\ UNCHANGED <<queue, counted, lost, stored>>
          /\ call' = [p \in Posts |-> IF on[p] = r THEN "failed" ELSE call[p]]
      BY <2>6 DEF Crash, workerVars
    <3>2. \A p \in Posts : on[p] = r => call[p] = "handling"
      BY <2>1, PostsAssumption DEF PostInv, PostOK
    <3>3. Acked' = Acked /\ Sent' = Sent /\ Counted' = Counted
      BY <3>1, <3>2 DEF Sent
    <3> QED
      BY <2>2, <3>1, <3>3
  <2>7. ASSUME NEW p \in Posts, Count(p) \/ CountAgain(p) \/ Lose(p)
        PROVE  [Ledger!Next]_(Ledger!vars)
    <3>1. /\ queue[p] > 0 /\ UNCHANGED <<call, stored>>
          /\ \/ /\ queue' = [queue EXCEPT ![p] = @ - 1] \/ queue' = queue
                /\ counted' = [counted EXCEPT ![p] = @ + 1]
                /\ lost' = lost
             \/ /\ queue' = [queue EXCEPT ![p] = @ - 1]
                /\ lost' = [lost EXCEPT ![p] = @ + 1]
                /\ counted' = counted
      BY <2>7 DEF Count, CountAgain, Lose, Take, postVars
    <3>2. Sent' = Sent /\ p \in Sent /\ Acked' = Acked
      BY <2>1, <3>1 DEF Sent, PostTypeOK
    <3>3. Counted' = Counted \cup {p} \/ Counted' = Counted
      BY <2>1, <3>1 DEF PostTypeOK
    <3> QED
      BY <2>2, <3>1, <3>2, <3>3 DEF Ledger!Next, Ledger!Count
  <2>8. ASSUME NEW p \in Posts, NEW r \in Replicas, Post(p, r)
        PROVE  [Ledger!Next]_(Ledger!vars)
    <3>1. /\ call[p] = "new" /\ call' = [call EXCEPT ![p] = "handling"]
          /\ UNCHANGED <<queue, counted, lost, stored>>
      BY <2>8 DEF Post, workerVars
    <3>2. Acked' = Acked /\ Sent' = Sent /\ Counted' = Counted
      BY <2>1, <3>1 DEF Sent, PostTypeOK
    <3> QED
      BY <2>2, <3>1, <3>2
  <2>9. ASSUME UNCHANGED <<call, workerVars, stored>>
        PROVE  [Ledger!Next]_(Ledger!vars)
    BY <2>2, <2>9 DEF workerVars, Sent
  <2> QED
    BY <2>3, <2>4, <2>5, <2>6, <2>7, <2>8, <2>9 DEF Next, Handle, Starting, postVars, vars
<1> QED
  BY <1>1, <1>2, Invariance, PTL DEF Spec, ImplementsLedger, Ledger!Spec
=============================================================================
