---------------------------- MODULE WorkerProofs ----------------------------
(***************************************************************************)
(* Proofs about the workers, for every number of workers, partitions and   *)
(* processors, every capacity of the channel and any number of faults.     *)
(*                                                                         *)
(* A commit is a mark of an earlier time, and what was marked is long out  *)
(* of sight when it is committed.  The inductive invariant therefore says  *)
(* of every claim that all messages before the one it works on are handled *)
(* (ClaimsHandled), that its mark is behind (MarksBehind), and that a      *)
(* member of the group has a claim for each partition it owns, so that its *)
(* commits are marks of that claim (MembersClaim).                         *)
(*                                                                         *)
(* That a tag is delivered once but for ends and expulsions is an account  *)
(* kept per message: what was delivered, what workers that were expelled   *)
(* may still deliver, and one delivery by the owner's session if that has  *)
(* not happened (Balance).                                                 *)
(*                                                                         *)
(* That the workers implement TagQueue needs the account, and that what is *)
(* held was delivered (AccountedDelivered), that claims send tags only     *)
(* (SendsTags) and that no member's marks are behind what is committed     *)
(* (CommitsBehind), late commits of expelled workers being refused.        *)
(***************************************************************************)
EXTENDS Worker, SequenceTheorems, FiniteSetTheorems, TLAPS

\* The first n messages of partition p exist, and the tags among them are accounted for.
Handled(p, n) ==
    /\ n <= Len(log[p])
    /\ \A o \in 1 .. n : log[p][o] = "tag" => Accounted(<<p, o>>)

CommitsHandled == \A p \in Partitions : Handled(p, committed[p])

ClaimsHandled ==
    \A w \in Workers, p \in Partitions :
        at[w][p] # "none" => Handled(p, next[w][p] - 1)

OnMessage ==
    \A w \in Workers, p \in Partitions :
        /\ at[w][p] \in {"send", "mark"} => next[w][p] <= Len(log[p])
        /\ at[w][p] = "mark" => Accounted(<<p, next[w][p]>>)

MarksBehind == \A w \in Workers, p \in Partitions : marked[w][p] < next[w][p]

MembersClaim ==
    \A w \in Workers, p \in Partitions :
        owner[p] = w /\ IsMember(w) => at[w][p] # "none"

IInv ==
    /\ TypeOK
    /\ CommitsHandled
    /\ ClaimsHandled
    /\ OnMessage
    /\ MarksBehind
    /\ MembersClaim

-----------------------------------------------------------------------------
(* What the steps have in common.                                          *)

\* What is accounted for stays so, and what is in the log stays there.
Kept ==
    /\ \A m \in Message : Accounted(m) => Accounted(m)'
    /\ \A p \in Partitions :
         /\ Len(log[p])' \in Nat
         /\ Len(log[p]) <= Len(log[p])'
         /\ \A o \in 1 .. Len(log[p]) : log'[p][o] = log[p][o]

LEMMA LogType ==
    ASSUME TypeOK, NEW p \in Partitions
    PROVE  log[p] \in Seq(Kinds) /\ Len(log[p]) \in 0 .. MaxMessages
BY LenProperties, SizesAssumption DEF TypeOK

LEMMA HandledKept ==
    ASSUME TypeOK, Kept, NEW p \in Partitions, NEW n \in Nat, Handled(p, n)
    PROVE  Handled(p, n)'
<1>1. Len(log[p]) \in 0 .. MaxMessages /\ n <= Len(log[p]) /\ MaxMessages \in Nat
  BY LogType, SizesAssumption DEF Handled
<1>2. ASSUME NEW o \in 1 .. n, log'[p][o] = "tag"
      PROVE  Accounted(<<p, o>>)'
  <2>1. o \in 1 .. Len(log[p]) /\ <<p, o>> \in Message
    BY <1>1 DEF Message
  <2>2. Accounted(<<p, o>>)
    BY <1>2, <2>1 DEF Kept, Handled
  <2> QED
    BY <2>1, <2>2 DEF Kept
<1>3. n <= Len(log[p])'
  BY <1>1 DEF Kept
<1> QED
  BY <1>2, <1>3 DEF Handled

\* Steps that leave the log and the tags alone.
LEMMA KeptSame ==
    ASSUME TypeOK, UNCHANGED <<log, tagsChan, tag, finished, lost>>
    PROVE  Kept
<1>1. \A m \in Message : Accounted(m) => Accounted(m)'
  BY DEF Accounted, HeldBy
<1>2. \A p \in Partitions : Len(log[p]) \in Nat
  BY LogType, SizesAssumption
<1> QED
  BY <1>1, <1>2 DEF Kept

\* Invariants of partitions and claims that the step leaves alone.
LEMMA CommitsKept ==
    ASSUME IInv, Kept, UNCHANGED committed
    PROVE  CommitsHandled'
<1>1. \A p \in Partitions : committed[p] \in Nat
  BY SizesAssumption DEF IInv, TypeOK
<1> QED
  BY <1>1, HandledKept DEF IInv, CommitsHandled

LEMMA NextType ==
    ASSUME TypeOK, NEW w \in Workers, NEW p \in Partitions
    PROVE  /\ next[w][p] \in 1 .. MaxMessages + 1
           /\ marked[w][p] \in 0 .. MaxMessages
           /\ next[w][p] \in Int /\ marked[w][p] \in Nat
           /\ next[w][p] - 1 \in Nat
           /\ at[w][p] \in ClaimSteps
<1>1. /\ next[w][p] \in 1 .. MaxMessages + 1
      /\ marked[w][p] \in 0 .. MaxMessages
      /\ at[w][p] \in ClaimSteps
  BY DEF TypeOK
<1> QED
  BY <1>1, SizesAssumption

\* The parts of the invariant that speak of one claim.
ClaimInv(w, p) ==
    /\ at[w][p] # "none" => Handled(p, next[w][p] - 1)
    /\ at[w][p] \in {"send", "mark"} => next[w][p] <= Len(log[p])
    /\ at[w][p] = "mark" => Accounted(<<p, next[w][p]>>)
    /\ marked[w][p] < next[w][p]

ClaimsInv == \A w \in Workers, p \in Partitions : ClaimInv(w, p)

LEMMA Parts ==
    IInv <=> TypeOK /\ CommitsHandled /\ ClaimsInv /\ MembersClaim
BY DEF IInv, ClaimsInv, ClaimInv, ClaimsHandled, OnMessage, MarksBehind

LEMMA ClaimKept ==
    ASSUME TypeOK, Kept, NEW w \in Workers, NEW p \in Partitions, ClaimInv(w, p),
           at'[w][p] \in {at[w][p], "none", "done"}, at[w][p] = "none" => at'[w][p] = "none",
           next'[w][p] = next[w][p], marked'[w][p] = marked[w][p]
    PROVE  ClaimInv(w, p)'
<1>1. next[w][p] \in 1 .. MaxMessages + 1 /\ next[w][p] - 1 \in Nat
  BY NextType
<1>2. at'[w][p] # "none" => Handled(p, next[w][p] - 1)'
  BY <1>1, HandledKept DEF ClaimInv
<1>3. at'[w][p] \in {"send", "mark"} => next'[w][p] <= Len(log[p])'
  <2> SUFFICES ASSUME at'[w][p] \in {"send", "mark"} PROVE next'[w][p] <= Len(log[p])'
    OBVIOUS
  <2>1. next[w][p] <= Len(log[p])
    BY DEF ClaimInv
  <2> QED
    BY <1>1, <2>1, LogType, SizesAssumption DEF Kept
<1>4. at'[w][p] = "mark" => Accounted(<<p, next[w][p]>>)'
  <2> SUFFICES ASSUME at'[w][p] = "mark" PROVE Accounted(<<p, next[w][p]>>)'
    OBVIOUS
  <2>1. next[w][p] <= Len(log[p]) /\ Accounted(<<p, next[w][p]>>)
    BY DEF ClaimInv
  <2>2. <<p, next[w][p]>> \in Message
    BY <1>1, <2>1, LogType, SizesAssumption DEF Message
  <2> QED
    BY <2>1, <2>2 DEF Kept
<1> QED
  BY <1>2, <1>3, <1>4 DEF ClaimInv

LEMMA ClaimsKept ==
    ASSUME TypeOK, Kept, ClaimsInv, UNCHANGED <<at, next, marked>>
    PROVE  ClaimsInv'
BY ClaimKept DEF ClaimsInv

\* A step of one claim.
LEMMA ClaimStep ==
    ASSUME TypeOK, NEW w \in Workers, NEW p \in Partitions,
           NEW step \in ClaimSteps, NEW n \in 1 .. MaxMessages + 1, NEW k \in 0 .. MaxMessages,
           Claim(w, p, step, n, k)
    PROVE  /\ at' \in [Workers -> [Partitions -> ClaimSteps]]
           /\ next' \in [Workers -> [Partitions -> 1 .. MaxMessages + 1]]
           /\ marked' \in [Workers -> [Partitions -> 0 .. MaxMessages]]
           /\ at'[w][p] = step /\ next'[w][p] = n /\ marked'[w][p] = k
           /\ \A v \in Workers, r \in Partitions :
                v # w \/ r # p =>
                    /\ at'[v][r] = at[v][r]
                    /\ next'[v][r] = next[v][r]
                    /\ marked'[v][r] = marked[v][r]
BY DEF TypeOK, Claim

LEMMA ClaimStepInv ==
    ASSUME IInv, Kept, NEW w \in Workers, NEW p \in Partitions,
           NEW step \in ClaimSteps, NEW n \in 1 .. MaxMessages + 1, NEW k \in 0 .. MaxMessages,
           Claim(w, p, step, n, k), step # "none", ClaimInv(w, p)',
           UNCHANGED <<committed, owner, session>>
    PROVE  CommitsHandled' /\ ClaimsInv' /\ MembersClaim'
<1>1. CommitsHandled'
  BY CommitsKept
<1>2. TypeOK /\ ClaimsInv /\ MembersClaim
  BY Parts
<1>3. /\ at'[w][p] = step
      /\ \A v \in Workers, r \in Partitions :
           v # w \/ r # p =>
               /\ at'[v][r] = at[v][r]
               /\ next'[v][r] = next[v][r]
               /\ marked'[v][r] = marked[v][r]
  BY <1>2, ClaimStep
<1>4. ASSUME NEW v \in Workers, NEW r \in Partitions
      PROVE  ClaimInv(v, r)'
  <2>1. CASE v = w /\ r = p
    BY <2>1
  <2>2. CASE v # w \/ r # p
    <3>1. ClaimInv(v, r)
      BY <1>2 DEF ClaimsInv
    <3>2. at'[v][r] = at[v][r] /\ next'[v][r] = next[v][r] /\ marked'[v][r] = marked[v][r]
      BY <1>3, <2>2
    <3> QED
      BY <1>2, <3>1, <3>2, ClaimKept
  <2> QED
    BY <2>1, <2>2
<1>5. MembersClaim'
  <2> SUFFICES ASSUME NEW v \in Workers, NEW r \in Partitions, owner[r] = v, IsMember(v)
               PROVE  at'[v][r] # "none"
    BY DEF MembersClaim, IsMember
  <2>1. at[v][r] # "none"
    BY <1>2 DEF MembersClaim
  <2>2. at'[v][r] \in {at[v][r], step}
    BY <1>3
  <2> QED
    BY <2>1, <2>2
<1> QED
  BY <1>1, <1>4, <1>5 DEF ClaimsInv

\* Marks that are committed are handled.
LEMMA CommitStep ==
    ASSUME IInv, Kept, NEW w \in Workers, CommitMarks(w)
    PROVE  committed' \in [Partitions -> 0 .. MaxMessages] /\ CommitsHandled'
<1>1. TypeOK /\ CommitsHandled /\ ClaimsInv /\ MembersClaim
  BY Parts
<1>2. committed' \in [Partitions -> 0 .. MaxMessages]
  BY <1>1, NextType DEF CommitMarks, TypeOK
<1>3. ASSUME NEW p \in Partitions PROVE Handled(p, committed[p])'
  <2>1. CASE owner[p] = w /\ IsMember(w)
    <3>1. Handled(p, next[w][p] - 1) /\ marked[w][p] < next[w][p]
      BY <1>1, <2>1 DEF MembersClaim, ClaimsInv, ClaimInv
    <3>2. /\ marked[w][p] \in Nat /\ next[w][p] \in Int
          /\ Len(log[p]) \in Nat
      BY <1>1, NextType, LogType, SizesAssumption
    <3>3. Handled(p, marked[w][p])
      BY <3>1, <3>2 DEF Handled
    <3>4. committed'[p] = marked[w][p]
      BY <2>1 DEF CommitMarks
    <3> QED
      BY <1>1, <3>2, <3>3, <3>4, HandledKept
  <2>2. CASE ~ (owner[p] = w /\ IsMember(w))
    <3>1. committed'[p] = committed[p] /\ committed[p] \in Nat
      BY <1>1, <2>2, SizesAssumption DEF CommitMarks, TypeOK
    <3> QED
      BY <1>1, <3>1, HandledKept DEF CommitsHandled
  <2> QED
    BY <2>1, <2>2
<1> QED
  BY <1>2, <1>3 DEF CommitsHandled

\* A worker whose process ends is not assigned anything any more.
LEMMA DisownStep ==
    ASSUME TypeOK, NEW w \in Workers, Disown(w)
    PROVE  /\ owner' \in [Partitions -> Workers \cup {NoWorker}]
           /\ \A v \in Workers, p \in Partitions : owner'[p] = v => v # w /\ owner[p] = v
BY NoWorkerAssumption DEF TypeOK, Disown

LEMMA HeldIsMessage ==
    ASSUME TypeOK, NEW w \in Workers
    PROVE  HeldBy(w) \in SUBSET Message
<1>1. \A i \in 1 .. Len(tagsChan[w]) : tagsChan[w][i] \in Message
  <2>1. tagsChan[w] \in Seq(Message)
    BY DEF TypeOK
  <2> QED
    BY <2>1, ElementOfSeq
<1>2. \A q \in Processors : tag[w][q] # NoMessage => tag[w][q] \in Message
  BY DEF TypeOK
<1> QED
  BY <1>1, <1>2 DEF HeldBy

\* What a process that ends holds is lost.
LEMMA EndProcessKept ==
    ASSUME TypeOK, NEW w \in Workers, EndProcess(w)
    PROVE  Kept
<1>1. ASSUME NEW m \in Message, Accounted(m) PROVE Accounted(m)'
  <2>1. CASE m \in finished \cup lost
    BY <2>1 DEF EndProcess, Accounted
  <2>2. ASSUME NEW v \in Workers, m \in HeldBy(v) PROVE Accounted(m)'
    <3>1. CASE v = w
      BY <2>2, <3>1 DEF EndProcess, Accounted
    <3>2. CASE v # w
      <4>1. tagsChan'[v] = tagsChan[v] /\ tag'[v] = tag[v]
        BY <3>2 DEF EndProcess, TypeOK
      <4>2. HeldBy(v)' = HeldBy(v)
        BY <4>1 DEF HeldBy
      <4> QED
        BY <2>2, <4>2 DEF Accounted
    <3> QED
      BY <3>1, <3>2
  <2> QED
    BY <1>1, <2>1, <2>2 DEF Accounted
<1>2. \A p \in Partitions : Len(log[p]) \in Nat
  BY LogType, SizesAssumption
<1> QED
  BY <1>1, <1>2 DEF Kept, EndProcess

LEMMA EndProcessInv ==
    ASSUME IInv, NEW w \in Workers, EndProcess(w), panics' \in Nat, faults' \in Nat
    PROVE  IInv'
<1>1. TypeOK /\ CommitsHandled /\ ClaimsInv /\ MembersClaim
  BY Parts
<1>2. Kept
  BY <1>1, EndProcessKept
<1>3. /\ at' \in [Workers -> [Partitions -> ClaimSteps]]
      /\ \A v \in Workers, p \in Partitions :
           at'[v][p] = IF v = w THEN "none" ELSE at[v][p]
  BY <1>1 DEF EndProcess, TypeOK, NoClaims, ClaimSteps
<1>4. TypeOK'
  <2>1. lost' \in SUBSET Message
    BY <1>1, HeldIsMessage DEF EndProcess, TypeOK
  <2>2. tagsChan' \in [Workers -> Seq(Message)] /\ \A v \in Workers : Len(tagsChan'[v]) <= ChanSize
    BY <1>1, EmptySeq, SizesAssumption DEF EndProcess, TypeOK
  <2>3. tag' \in [Workers -> [Processors -> Message \cup {NoMessage}]]
    BY <1>1 DEF EndProcess, TypeOK, Idle
  <2>4. session' \in [Workers -> Sessions]
    BY <1>1 DEF EndProcess, TypeOK, Sessions
  <2>5. owner' \in [Partitions -> Workers \cup {NoWorker}]
    BY <1>1, DisownStep DEF EndProcess
  <2> QED
    BY <1>1, <1>3, <2>1, <2>2, <2>3, <2>4, <2>5 DEF EndProcess, TypeOK
<1>5. CommitsHandled'
  BY <1>2, CommitsKept DEF EndProcess
<1>6. ClaimsInv'
  <2> SUFFICES ASSUME NEW v \in Workers, NEW p \in Partitions PROVE ClaimInv(v, p)'
    BY DEF ClaimsInv
  <2>1. ClaimInv(v, p)
    BY <1>1 DEF ClaimsInv
  <2> QED
    BY <1>1, <1>2, <1>3, <2>1, ClaimKept DEF EndProcess
<1>7. MembersClaim'
  <2> SUFFICES ASSUME NEW v \in Workers, NEW p \in Partitions, owner'[p] = v, IsMember(v)'
               PROVE  at'[v][p] # "none"
    BY DEF MembersClaim
  <2>1. v # w /\ owner[p] = v
    BY <1>1, DisownStep DEF EndProcess
  <2>2. IsMember(v)
    BY <1>1, <2>1 DEF IsMember, EndProcess, TypeOK
  <2> QED
    BY <1>1, <1>3, <2>1, <2>2 DEF MembersClaim
<1> QED
  BY <1>4, <1>5, <1>6, <1>7, Parts DEF IInv, ClaimsInv, ClaimInv, ClaimsHandled, OnMessage, MarksBehind

-----------------------------------------------------------------------------
(* Steps of Kafka and of the Consume loop.                                 *)

LEMMA InitInvariant == Init => IInv
<1> SUFFICES ASSUME Init PROVE IInv
  OBVIOUS
<1>1. TypeOK
  <2>1. log \in [Partitions -> Seq(Kinds)] /\ \A p \in Partitions : Len(log[p]) = 0
    BY EmptySeq DEF Init
  <2>2. tagsChan \in [Workers -> Seq(Message)] /\ \A w \in Workers : Len(tagsChan[w]) = 0
    BY EmptySeq DEF Init
  <2> QED
    BY <2>1, <2>2, SizesAssumption
    DEF Init, TypeOK, Sessions, ClaimSteps, NoClaims, Idle
<1>2. CommitsHandled
  BY EmptySeq DEF Init, CommitsHandled, Handled
<1>3. \A w \in Workers, p \in Partitions :
        /\ at[w][p] = "none"
        /\ marked[w][p] = 0 /\ next[w][p] = 1
        /\ ~ IsMember(w)
  BY DEF Init, NoClaims, IsMember
<1> QED
  BY <1>1, <1>2, <1>3 DEF IInv, ClaimsHandled, OnMessage, MarksBehind, MembersClaim

LEMMA ProduceStep ==
    ASSUME IInv, NEW p \in Partitions, NEW kind \in Kinds, Produce(p, kind)
    PROVE  IInv'
<1>1. TypeOK /\ ClaimsInv /\ MembersClaim
  BY Parts
<1>2. /\ Append(log[p], kind) \in Seq(Kinds)
      /\ Len(Append(log[p], kind)) = Len(log[p]) + 1
      /\ \A i \in 1 .. Len(log[p]) : Append(log[p], kind)[i] = log[p][i]
  BY <1>1, LogType, AppendProperties
<1>3. \A r \in Partitions :
        /\ Len(log[r]) \in 0 .. MaxMessages
        /\ log'[r] = IF r = p THEN Append(log[p], kind) ELSE log[r]
  BY <1>1, LogType DEF Produce, TypeOK
<1>4. /\ log' \in [Partitions -> Seq(Kinds)]
      /\ \A r \in Partitions : Len(log'[r]) <= MaxMessages
  BY <1>1, <1>2, <1>3, SizesAssumption DEF Produce, TypeOK
<1>5. TypeOK'
  BY <1>1, <1>4 DEF Produce, TypeOK, kafkaVars, claimVars, processorVars, endVars
<1>6. Kept
  <2>1. \A m \in Message : Accounted(m) => Accounted(m)'
    BY DEF Accounted, HeldBy, Produce, processorVars, endVars
  <2>2. ASSUME NEW r \in Partitions
        PROVE  /\ Len(log[r])' \in Nat
               /\ Len(log[r]) <= Len(log[r])'
               /\ \A o \in 1 .. Len(log[r]) : log'[r][o] = log[r][o]
    <3>1. CASE r = p
      <4> DEFINE l == log[p]
                 a == Append(log[p], kind)
      <4>1. log[r] = l /\ log'[r] = a /\ Len(l) \in 0 .. MaxMessages /\ MaxMessages \in Nat
        BY <1>3, <3>1, SizesAssumption
      <4>2. Len(a) = Len(l) + 1 /\ \A i \in 1 .. Len(l) : a[i] = l[i]
        BY <1>2
      <4> HIDE DEF l, a
      <4> QED
        BY <4>1, <4>2
    <3>2. CASE r # p
      BY <1>3, <3>2, SizesAssumption
    <3> QED
      BY <3>1, <3>2
  <2> QED
    BY <2>1, <2>2 DEF Kept
<1>7. CommitsHandled' /\ ClaimsInv'
  BY <1>1, <1>6, CommitsKept, ClaimsKept DEF Produce, claimVars
<1>8. MembersClaim'
  BY <1>1 DEF MembersClaim, IsMember, Produce, claimVars
<1>9. ClaimsHandled' /\ OnMessage' /\ MarksBehind'
  BY <1>7 DEF ClaimsInv, ClaimInv, ClaimsHandled, OnMessage, MarksBehind
<1> QED
  BY <1>5, <1>7, <1>8, <1>9 DEF IInv

\* The parts of the invariant after a step.
LEMMA PartsAfter ==
    ASSUME TypeOK', CommitsHandled', ClaimsInv', MembersClaim'
    PROVE  IInv'
BY DEF IInv, ClaimsInv, ClaimInv, ClaimsHandled, OnMessage, MarksBehind

LEMMA AssignStep ==
    ASSUME IInv, Assign
    PROVE  IInv'
<1> DEFINE Joined == {w \in Workers : session[w] = "joining"}
<1>1. TypeOK /\ CommitsHandled /\ ClaimsInv /\ MembersClaim
  BY Parts
<1>2. Kept
  BY <1>1, KeptSame DEF Assign, processorVars, endVars
<1>3. /\ owner' \in [Partitions -> Joined]
      /\ session' = [w \in Workers |-> IF w \in Joined THEN "running" ELSE session[w]]
      /\ at' \in [Workers -> [Partitions -> ClaimSteps]]
      /\ \A w \in Workers, p \in Partitions :
           at'[w][p] = IF owner'[p] = w THEN "select" ELSE at[w][p]
  BY <1>1 DEF Assign, TypeOK, ClaimSteps
<1>4. /\ next' \in [Workers -> [Partitions -> 1 .. MaxMessages + 1]]
      /\ marked' \in [Workers -> [Partitions -> 0 .. MaxMessages]]
      /\ \A w \in Workers, p \in Partitions :
           /\ next'[w][p] = IF owner'[p] = w THEN committed[p] + 1 ELSE next[w][p]
           /\ marked'[w][p] = IF owner'[p] = w THEN committed[p] ELSE marked[w][p]
  <2>1. ASSUME NEW w \in Workers, NEW p \in Partitions
        PROVE  /\ committed[p] + 1 \in 1 .. MaxMessages + 1
               /\ committed[p] \in 0 .. MaxMessages
               /\ next[w][p] \in 1 .. MaxMessages + 1
               /\ marked[w][p] \in 0 .. MaxMessages
    BY <1>1, SizesAssumption DEF TypeOK
  <2> QED
    BY <2>1 DEF Assign
<1>5. TypeOK'
  <2>1. session' \in [Workers -> Sessions]
    BY <1>1, <1>3 DEF TypeOK, Sessions
  <2>2. owner' \in [Partitions -> Workers \cup {NoWorker}]
    BY <1>3
  <2> QED
    BY <1>1, <1>3, <1>4, <2>1, <2>2 DEF Assign, TypeOK, processorVars, endVars
<1>6. CommitsHandled'
  BY <1>2, CommitsKept DEF Assign
<1>7. ASSUME NEW w \in Workers, NEW p \in Partitions PROVE ClaimInv(w, p)'
  <2>1. CASE owner'[p] = w
    <3>1. /\ at'[w][p] = "select"
          /\ next'[w][p] = committed[p] + 1
          /\ marked'[w][p] = committed[p]
          /\ committed[p] \in Nat
      BY <1>1, <1>3, <1>4, <2>1, SizesAssumption DEF TypeOK
    <3>2. Handled(p, committed[p])'
      BY <1>6 DEF CommitsHandled
    <3>3. Handled(p, committed[p])' => Handled(p, next[w][p] - 1)'
      <4>1. next'[w][p] - 1 = committed[p] /\ committed'[p] = committed[p]
        BY <3>1 DEF Assign
      <4> QED
        BY <4>1
    <3> QED
      BY <3>1, <3>2, <3>3 DEF ClaimInv
  <2>2. CASE owner'[p] # w
    <3>1. /\ at'[w][p] = at[w][p]
          /\ next'[w][p] = next[w][p]
          /\ marked'[w][p] = marked[w][p]
          /\ ClaimInv(w, p)
      BY <1>1, <1>3, <1>4, <2>2 DEF ClaimsInv
    <3> QED
      BY <1>1, <1>2, <3>1, ClaimKept
  <2> QED
    BY <2>1, <2>2
<1>8. MembersClaim'
  BY <1>3 DEF MembersClaim
<1> QED
  BY <1>5, <1>6, <1>7, <1>8, PartsAfter DEF ClaimsInv

LEMMA ConsumeStep ==
    ASSUME IInv, NEW w \in Workers, Start(w) \/ Rebalance(w)
    PROVE  IInv'
<1>1. TypeOK /\ CommitsHandled /\ ClaimsInv /\ MembersClaim
  BY Parts
<1>2. Kept
  BY <1>1, KeptSame DEF Start, Rebalance, kafkaVars, processorVars, endVars
<1>3. session' \in [Workers -> Sessions] /\ \A v \in Workers : IsMember(v)' => IsMember(v)
  BY <1>1 DEF Start, Rebalance, TypeOK, Sessions, IsMember
<1>4. TypeOK'
  BY <1>1, <1>3 DEF Start, Rebalance, TypeOK, kafkaVars, claimVars, processorVars, endVars
<1>5. CommitsHandled' /\ ClaimsInv'
  BY <1>1, <1>2, CommitsKept, ClaimsKept DEF Start, Rebalance, kafkaVars, claimVars
<1>6. MembersClaim'
  BY <1>1, <1>3 DEF MembersClaim, Start, Rebalance, kafkaVars, claimVars
<1> QED
  BY <1>4, <1>5, <1>6, PartsAfter

LEMMA ExpelStep ==
    ASSUME IInv, NEW w \in Workers, Expel(w)
    PROVE  IInv'
<1>1. TypeOK /\ CommitsHandled /\ ClaimsInv /\ MembersClaim
  BY Parts
<1>2. Kept
  BY <1>1, KeptSame DEF Expel, processorVars
<1>3. session' \in [Workers -> Sessions] /\ \A v \in Workers : IsMember(v)' => IsMember(v)
  BY <1>1 DEF Expel, TypeOK, Sessions, IsMember
<1>4. /\ owner' \in [Partitions -> Workers \cup {NoWorker}]
      /\ \A v \in Workers, p \in Partitions : owner'[p] = v => v # w /\ owner[p] = v
  BY <1>1, DisownStep DEF Expel
<1>5. TypeOK'
  <2>1. faults' \in Nat
    BY <1>1 DEF Expel, TypeOK
  <2> QED
    BY <1>1, <1>3, <1>4, <2>1 DEF Expel, TypeOK, claimVars, processorVars
<1>6. CommitsHandled' /\ ClaimsInv'
  BY <1>1, <1>2, CommitsKept, ClaimsKept DEF Expel, claimVars
<1>7. MembersClaim'
  BY <1>1, <1>3, <1>4 DEF MembersClaim, Expel, claimVars
<1> QED
  BY <1>5, <1>6, <1>7, PartsAfter

LEMMA AutoCommitStep ==
    ASSUME IInv, NEW w \in Workers, AutoCommit(w)
    PROVE  IInv'
<1>1. TypeOK /\ CommitsHandled /\ ClaimsInv /\ MembersClaim
  BY Parts
<1>2. Kept
  BY <1>1, KeptSame DEF AutoCommit, processorVars, endVars
<1>3. committed' \in [Partitions -> 0 .. MaxMessages] /\ CommitsHandled'
  BY <1>2, CommitStep DEF AutoCommit
<1>4. TypeOK'
  BY <1>1, <1>3 DEF AutoCommit, TypeOK, claimVars, processorVars, endVars
<1>5. ClaimsInv'
  BY <1>1, <1>2, ClaimsKept DEF AutoCommit, claimVars
<1>6. MembersClaim'
  BY <1>1 DEF MembersClaim, IsMember, AutoCommit, claimVars
<1> QED
  BY <1>3, <1>4, <1>5, <1>6, PartsAfter

LEMMA RejoinStep ==
    ASSUME IInv, NEW w \in Workers, Rejoin(w)
    PROVE  IInv'
<1>1. TypeOK /\ CommitsHandled /\ ClaimsInv /\ MembersClaim
  BY Parts
<1>2. Kept
  BY <1>1, KeptSame DEF Rejoin, processorVars, endVars
<1>3. committed' \in [Partitions -> 0 .. MaxMessages] /\ CommitsHandled'
  BY <1>2, CommitStep DEF Rejoin
<1>4. /\ session' \in [Workers -> Sessions]
      /\ \A v \in Workers : IsMember(v)' => v # w /\ IsMember(v)
  BY <1>1 DEF Rejoin, TypeOK, Sessions, IsMember
<1>5. /\ at' \in [Workers -> [Partitions -> ClaimSteps]]
      /\ \A v \in Workers, p \in Partitions :
           at'[v][p] = IF v = w THEN "none" ELSE at[v][p]
  BY <1>1 DEF Rejoin, TypeOK, NoClaims, ClaimSteps
<1>6. TypeOK'
  BY <1>1, <1>3, <1>4, <1>5 DEF Rejoin, TypeOK, processorVars, endVars
<1>7. ClaimsInv'
  <2> SUFFICES ASSUME NEW v \in Workers, NEW p \in Partitions PROVE ClaimInv(v, p)'
    BY DEF ClaimsInv
  <2>1. ClaimInv(v, p)
    BY <1>1 DEF ClaimsInv
  <2> QED
    BY <1>1, <1>2, <1>5, <2>1, ClaimKept DEF Rejoin
<1>8. MembersClaim'
  BY <1>1, <1>4, <1>5 DEF MembersClaim, Rejoin
<1> QED
  BY <1>3, <1>6, <1>7, <1>8, PartsAfter

-----------------------------------------------------------------------------
(* Steps of ConsumeClaim.                                                  *)

LEMMA ReceiveStep ==
    ASSUME IInv, NEW w \in Workers, NEW p \in Partitions, Receive(w, p)
    PROVE  IInv'
<1> DEFINE n == next[w][p]
           k == marked[w][p]
<1>1. TypeOK /\ ClaimsInv /\ MembersClaim
  BY Parts
<1>2. Kept
  BY <1>1, KeptSame DEF Receive, kafkaVars, processorVars, endVars
<1>3. /\ n \in 1 .. MaxMessages + 1 /\ k \in 0 .. MaxMessages
      /\ n <= Len(log[p]) /\ Len(log[p]) \in 0 .. MaxMessages
      /\ MaxMessages \in Nat /\ k < n
      /\ Handled(p, n - 1)
  BY <1>1, NextType, LogType, SizesAssumption DEF Receive, ClaimsInv, ClaimInv
<1>4. \A l \in Nat : Handled(p, l) => Handled(p, l)'
  BY <1>1, <1>2, HandledKept
<1>5. UNCHANGED <<log, tagsChan, tag, finished, lost, committed, owner, session>>
  BY DEF Receive, kafkaVars, processorVars, endVars
<1>6. CASE log[p][n] = "malformed"
  <2>1. Claim(w, p, "select", n + 1, k)
    BY <1>6 DEF Receive
  <2>2. n + 1 \in 1 .. MaxMessages + 1 /\ "select" \in ClaimSteps
    BY <1>3 DEF ClaimSteps
  <2>3. Handled(p, n)
    BY <1>3, <1>6 DEF Handled
  <2>4. /\ at'[w][p] = "select" /\ next'[w][p] = n + 1 /\ marked'[w][p] = k
        /\ at' \in [Workers -> [Partitions -> ClaimSteps]]
        /\ next' \in [Workers -> [Partitions -> 1 .. MaxMessages + 1]]
        /\ marked' \in [Workers -> [Partitions -> 0 .. MaxMessages]]
    BY <1>1, <1>3, <2>1, <2>2, ClaimStep
  <2>5. ClaimInv(w, p)'
    <3>1. next'[w][p] - 1 = n /\ n \in Nat
      BY <1>3, <2>4
    <3>2. Handled(p, next[w][p] - 1)'
      BY <1>4, <2>3, <3>1
    <3> QED
      BY <1>3, <2>4, <3>2 DEF ClaimInv
  <2>6. CommitsHandled' /\ ClaimsInv' /\ MembersClaim'
    BY <1>2, <1>3, <1>5, <2>1, <2>2, <2>5, ClaimStepInv
  <2>7. TypeOK'
    BY <1>1, <2>4 DEF Receive, TypeOK, kafkaVars, processorVars, endVars
  <2> QED
    BY <2>6, <2>7, PartsAfter
<1>7. CASE log[p][n] # "malformed"
  <2>1. Claim(w, p, "send", n, k)
    BY <1>7 DEF Receive, Goto
  <2>2. "send" \in ClaimSteps
    BY DEF ClaimSteps
  <2>3. /\ at'[w][p] = "send" /\ next'[w][p] = n /\ marked'[w][p] = k
        /\ at' \in [Workers -> [Partitions -> ClaimSteps]]
        /\ next' \in [Workers -> [Partitions -> 1 .. MaxMessages + 1]]
        /\ marked' \in [Workers -> [Partitions -> 0 .. MaxMessages]]
    BY <1>1, <1>3, <2>1, <2>2, ClaimStep
  <2>4. ClaimInv(w, p)'
    <3>1. next'[w][p] - 1 = n - 1 /\ n - 1 \in Nat
      BY <1>3, <2>3
    <3>2. Handled(p, next[w][p] - 1)'
      BY <1>3, <1>4, <3>1
    <3> QED
      BY <1>3, <1>5, <2>3, <3>2 DEF ClaimInv
  <2>5. CommitsHandled' /\ ClaimsInv' /\ MembersClaim'
    BY <1>2, <1>3, <1>5, <2>1, <2>2, <2>4, ClaimStepInv
  <2>6. TypeOK'
    BY <1>1, <2>3 DEF Receive, TypeOK, kafkaVars, processorVars, endVars
  <2> QED
    BY <2>5, <2>6, PartsAfter
<1> QED
  BY <1>6, <1>7

LEMMA EndStep ==
    ASSUME IInv, NEW w \in Workers,
           Crash(w) \/ \E p \in Partitions : ReceiveNil(w, p)
    PROVE  IInv'
<1>1. panics \in Nat /\ faults \in Nat
  BY DEF IInv, TypeOK
<1>2. EndProcess(w) /\ panics' \in Nat /\ faults' \in Nat
  BY <1>1 DEF Crash, ReceiveNil
<1> QED
  BY <1>2, EndProcessInv

LEMMA ReturnStep ==
    ASSUME IInv, NEW w \in Workers, NEW p \in Partitions, Return(w, p)
    PROVE  IInv'
<1> DEFINE n == next[w][p]
           k == marked[w][p]
<1>1. TypeOK /\ ClaimsInv /\ MembersClaim
  BY Parts
<1>2. Kept
  BY <1>1, KeptSame DEF Return, kafkaVars, processorVars, endVars
<1>3. UNCHANGED <<log, committed, owner, session>>
  BY DEF Return, kafkaVars
<1>4. /\ n \in 1 .. MaxMessages + 1 /\ k \in 0 .. MaxMessages
      /\ "done" \in ClaimSteps /\ at[w][p] = "select"
      /\ Claim(w, p, "done", n, k)
  BY <1>1, NextType DEF ClaimSteps, Return, Goto
<1>5. /\ at'[w][p] = "done" /\ next'[w][p] = n /\ marked'[w][p] = k
      /\ at' \in [Workers -> [Partitions -> ClaimSteps]]
      /\ next' \in [Workers -> [Partitions -> 1 .. MaxMessages + 1]]
      /\ marked' \in [Workers -> [Partitions -> 0 .. MaxMessages]]
  BY <1>1, <1>4, ClaimStep
<1>6. ClaimInv(w, p)'
  <2>1. ClaimInv(w, p)
    BY <1>1 DEF ClaimsInv
  <2> QED
    BY <1>1, <1>2, <1>4, <1>5, <2>1, ClaimKept
<1>7. CommitsHandled' /\ ClaimsInv' /\ MembersClaim'
  BY <1>2, <1>3, <1>4, <1>6, ClaimStepInv
<1>8. TypeOK'
  BY <1>1, <1>5 DEF Return, TypeOK, kafkaVars, processorVars, endVars
<1> QED
  BY <1>7, <1>8, PartsAfter

LEMMA MarkStep ==
    ASSUME IInv, NEW w \in Workers, NEW p \in Partitions, Mark(w, p)
    PROVE  IInv'
<1> DEFINE n == next[w][p]
<1>1. TypeOK /\ ClaimsInv /\ MembersClaim
  BY Parts
<1>2. Kept
  BY <1>1, KeptSame DEF Mark, kafkaVars, processorVars, endVars
<1>3. /\ n \in 1 .. MaxMessages + 1
      /\ n <= Len(log[p]) /\ Len(log[p]) \in 0 .. MaxMessages
      /\ MaxMessages \in Nat
      /\ Handled(p, n - 1) /\ Accounted(<<p, n>>)
  BY <1>1, NextType, LogType, SizesAssumption DEF Mark, ClaimsInv, ClaimInv
<1>4. UNCHANGED <<log, committed, owner, session>>
  BY DEF Mark, kafkaVars
<1>5. /\ n + 1 \in 1 .. MaxMessages + 1 /\ n \in 0 .. MaxMessages
      /\ "select" \in ClaimSteps
      /\ Claim(w, p, "select", n + 1, n)
  BY <1>3 DEF Mark, ClaimSteps
<1>6. /\ at'[w][p] = "select" /\ next'[w][p] = n + 1 /\ marked'[w][p] = n
      /\ at' \in [Workers -> [Partitions -> ClaimSteps]]
      /\ next' \in [Workers -> [Partitions -> 1 .. MaxMessages + 1]]
      /\ marked' \in [Workers -> [Partitions -> 0 .. MaxMessages]]
  BY <1>1, <1>5, ClaimStep
<1>7. ClaimInv(w, p)'
  <2>1. Handled(p, n)
    BY <1>3 DEF Handled
  <2>2. next'[w][p] - 1 = n /\ n \in Nat
    BY <1>3, <1>6
  <2>3. \A l \in Nat : Handled(p, l) => Handled(p, l)'
    BY <1>1, <1>2, HandledKept
  <2>4. Handled(p, next[w][p] - 1)'
    BY <2>1, <2>2, <2>3
  <2> QED
    BY <1>3, <1>6, <2>4 DEF ClaimInv
<1>8. CommitsHandled' /\ ClaimsInv' /\ MembersClaim'
  BY <1>2, <1>4, <1>5, <1>7, ClaimStepInv
<1>9. TypeOK'
  BY <1>1, <1>6 DEF Mark, TypeOK, kafkaVars, processorVars, endVars
<1> QED
  BY <1>8, <1>9, PartsAfter

LEMMA SendStep ==
    ASSUME IInv, NEW w \in Workers, NEW p \in Partitions, Send(w, p)
    PROVE  IInv'
<1> DEFINE n == next[w][p]
           k == marked[w][p]
           m == <<p, n>>
           t == tagsChan[w]
<1>1. TypeOK /\ ClaimsInv /\ MembersClaim
  BY Parts
<1>2. /\ n \in 1 .. MaxMessages + 1 /\ k \in 0 .. MaxMessages
      /\ n <= Len(log[p]) /\ Len(log[p]) \in 0 .. MaxMessages
      /\ MaxMessages \in Nat /\ k < n
      /\ Handled(p, n - 1)
  BY <1>1, NextType, LogType, SizesAssumption DEF Send, ClaimsInv, ClaimInv
<1>3. m \in Message
  BY <1>2 DEF Message
<1>4. /\ t \in Seq(Message) /\ Len(t) \in Nat /\ Len(t) < ChanSize
      /\ tagsChan' = [tagsChan EXCEPT ![w] = Append(t, m)]
      /\ deliveries' = [deliveries EXCEPT ![m] = @ + 1]
      /\ tagsChan'[w] = Append(t, m)
      /\ \A v \in Workers : v # w => tagsChan'[v] = tagsChan[v]
  BY <1>1, LenProperties DEF Send, TypeOK
<1>5. /\ Append(t, m) \in Seq(Message)
      /\ Len(Append(t, m)) = Len(t) + 1
      /\ \A i \in 1 .. Len(t) : Append(t, m)[i] = t[i]
      /\ Append(t, m)[Len(t) + 1] = m
  BY <1>3, <1>4, AppendProperties
<1>6. UNCHANGED <<log, committed, owner, session, tag, finished, lost, panics, faults>>
  BY DEF Send, kafkaVars, endVars
<1>7. m \in HeldBy(w)'
  <2>1. Len(t) + 1 \in 1 .. Len(tagsChan'[w]) /\ tagsChan'[w][Len(t) + 1] = m
    BY <1>4, <1>5
  <2> QED
    BY <2>1 DEF HeldBy
<1>8. \A v \in Workers : HeldBy(v) \subseteq HeldBy(v)'
  <2> SUFFICES ASSUME NEW v \in Workers, NEW x \in HeldBy(v) PROVE x \in HeldBy(v)'
    OBVIOUS
  <2>1. CASE \E q \in Processors : tag[v][q] # NoMessage /\ x = tag[v][q]
    BY <1>6, <2>1 DEF HeldBy
  <2>2. ASSUME NEW i \in 1 .. Len(tagsChan[v]), x = tagsChan[v][i] PROVE x \in HeldBy(v)'
    <3>1. i \in 1 .. Len(tagsChan'[v]) /\ tagsChan'[v][i] = x
      BY <1>4, <1>5, <2>2
    <3> QED
      BY <3>1 DEF HeldBy
  <2> QED
    BY <2>1, <2>2 DEF HeldBy
<1>9. Kept
  <2>1. \A x \in Message : Accounted(x) => Accounted(x)'
    BY <1>6, <1>8 DEF Accounted
  <2>2. \A r \in Partitions : Len(log[r]) \in Nat
    BY <1>1, LogType, SizesAssumption
  <2> QED
    BY <1>6, <2>1, <2>2 DEF Kept
<1>10. Claim(w, p, "mark", n, k) /\ "mark" \in ClaimSteps
  BY DEF Send, Goto, ClaimSteps
<1>11. /\ at'[w][p] = "mark" /\ next'[w][p] = n /\ marked'[w][p] = k
       /\ at' \in [Workers -> [Partitions -> ClaimSteps]]
       /\ next' \in [Workers -> [Partitions -> 1 .. MaxMessages + 1]]
       /\ marked' \in [Workers -> [Partitions -> 0 .. MaxMessages]]
  BY <1>1, <1>2, <1>10, ClaimStep
<1>12. ClaimInv(w, p)'
  <2>1. next'[w][p] - 1 = n - 1 /\ n - 1 \in Nat
    BY <1>2, <1>11
  <2>2. \A l \in Nat : Handled(p, l) => Handled(p, l)'
    BY <1>1, <1>9, HandledKept
  <2>3. Handled(p, next[w][p] - 1)'
    BY <1>2, <2>1, <2>2
  <2>4. Accounted(<<p, next[w][p]>>)'
    BY <1>7, <1>11 DEF Accounted
  <2> QED
    BY <1>2, <1>6, <1>11, <2>3, <2>4 DEF ClaimInv
<1>13. CommitsHandled' /\ ClaimsInv' /\ MembersClaim'
  BY <1>2, <1>6, <1>9, <1>10, <1>12, ClaimStepInv
<1>14. TypeOK'
  <2>1. tagsChan' \in [Workers -> Seq(Message)]
    BY <1>1, <1>4, <1>5 DEF TypeOK
  <2>2. \A v \in Workers : Len(tagsChan'[v]) <= ChanSize
    BY <1>1, <1>4, <1>5, SizesAssumption DEF TypeOK
  <2>3. deliveries' \in [Message -> Nat]
    BY <1>1, <1>3, <1>4 DEF TypeOK
  <2> QED
    BY <1>1, <1>6, <1>11, <2>1, <2>2, <2>3 DEF TypeOK
<1> QED
  BY <1>13, <1>14, PartsAfter

-----------------------------------------------------------------------------
(* Steps of the processors.                                                *)

LEMMA NoMessageIsNone == NoMessage \notin Message
BY DEF NoMessage, Message

\* A step of a processor leaves Kafka, the sessions and the claims alone.
LEMMA ProcessorInv ==
    ASSUME IInv, Kept, TypeOK', UNCHANGED <<kafkaVars, session, claimVars>>
    PROVE  IInv'
<1>1. TypeOK /\ ClaimsInv /\ MembersClaim
  BY Parts
<1>2. CommitsHandled' /\ ClaimsInv'
  BY <1>1, CommitsKept, ClaimsKept DEF kafkaVars, claimVars
<1>3. MembersClaim'
  BY <1>1 DEF MembersClaim, IsMember, kafkaVars, claimVars
<1> QED
  BY <1>2, <1>3, PartsAfter

LEMMA TakeStep ==
    ASSUME IInv, NEW w \in Workers, NEW q \in Processors, Take(w, q)
    PROVE  IInv'
<1> DEFINE t == tagsChan[w]
<1>1. TypeOK
  BY DEF IInv
<1>2. UNCHANGED <<kafkaVars, session, claimVars, finished, lost, deliveries, panics, faults>>
  BY DEF Take, endVars
<1>3. /\ t \in Seq(Message) /\ t # <<>> /\ Len(t) <= ChanSize
      /\ tag[w][q] = NoMessage
      /\ tagsChan' = [tagsChan EXCEPT ![w] = Tail(t)]
      /\ tagsChan'[w] = Tail(t)
      /\ tag' = [tag EXCEPT ![w][q] = Head(t)]
  BY <1>1 DEF Take, TypeOK
<1>4. /\ Head(t) \in Message /\ Head(t) = t[1]
      /\ Tail(t) \in Seq(Message)
      /\ Len(t) \in Nat \ {0}
      /\ Len(Tail(t)) = Len(t) - 1
      /\ \A i \in 1 .. Len(Tail(t)) : Tail(t)[i] = t[i + 1]
  BY <1>3, HeadTailProperties, EmptySeq
<1>5. /\ tag' \in [Workers -> [Processors -> Message \cup {NoMessage}]]
      /\ tag'[w][q] = Head(t)
      /\ \A v \in Workers, r \in Processors :
           v # w \/ r # q => tag'[v][r] = tag[v][r]
  BY <1>1, <1>3, <1>4 DEF TypeOK
<1>6. \A v \in Workers : v # w => tagsChan'[v] = tagsChan[v]
  BY <1>1, <1>3 DEF TypeOK
<1>7. \A v \in Workers : HeldBy(v) \subseteq HeldBy(v)'
  <2> SUFFICES ASSUME NEW v \in Workers, NEW x \in HeldBy(v) PROVE x \in HeldBy(v)'
    OBVIOUS
  <2>1. ASSUME NEW r \in Processors, tag[v][r] # NoMessage, x = tag[v][r]
        PROVE  x \in HeldBy(v)'
    <3>1. tag'[v][r] = tag[v][r]
      BY <1>3, <1>5, <2>1
    <3> QED
      BY <2>1, <3>1 DEF HeldBy
  <2>2. ASSUME NEW i \in 1 .. Len(tagsChan[v]), x = tagsChan[v][i]
        PROVE  x \in HeldBy(v)'
    <3>1. CASE v # w
      BY <1>6, <2>2, <3>1 DEF HeldBy
    <3>2. CASE v = w /\ i = 1
      <4>1. tag'[w][q] = x /\ x # NoMessage
        BY <1>4, <1>5, <2>2, <3>2, NoMessageIsNone
      <4> QED
        BY <3>2, <4>1 DEF HeldBy
    <3>3. CASE v = w /\ i # 1
      <4>1. i - 1 \in 1 .. Len(Tail(t)) /\ (i - 1) + 1 = i
        BY <1>4, <2>2, <3>3
      <4>2. Tail(t)[i - 1] = x
        BY <1>4, <2>2, <3>3, <4>1
      <4>3. i - 1 \in 1 .. Len(tagsChan'[w]) /\ tagsChan'[w][i - 1] = x
        BY <1>3, <4>1, <4>2
      <4> QED
        BY <3>3, <4>3 DEF HeldBy
    <3> QED
      BY <3>1, <3>2, <3>3
  <2> QED
    BY <2>1, <2>2 DEF HeldBy
<1>8. Kept
  <2>1. \A x \in Message : Accounted(x) => Accounted(x)'
    BY <1>2, <1>7 DEF Accounted
  <2>2. \A p \in Partitions : Len(log[p]) \in Nat
    BY <1>1, LogType, SizesAssumption
  <2> QED
    BY <1>2, <2>1, <2>2 DEF Kept, kafkaVars
<1>9. TypeOK'
  <2>1. tagsChan' \in [Workers -> Seq(Message)]
    BY <1>1, <1>3, <1>4 DEF TypeOK
  <2>2. \A v \in Workers : Len(tagsChan'[v]) <= ChanSize
    BY <1>1, <1>3, <1>4, <1>6, SizesAssumption DEF TypeOK
  <2> QED
    BY <1>1, <1>2, <1>5, <2>1, <2>2 DEF TypeOK, kafkaVars, claimVars
<1> QED
  BY <1>2, <1>8, <1>9, ProcessorInv

LEMMA FinishStep ==
    ASSUME IInv, NEW w \in Workers, NEW q \in Processors, Finish(w, q)
    PROVE  IInv'
<1>1. TypeOK
  BY DEF IInv
<1>2. UNCHANGED <<kafkaVars, session, claimVars, tagsChan, lost, deliveries, panics, faults>>
  BY DEF Finish, endVars
<1>3. /\ tag[w][q] \in Message
      /\ finished' = finished \cup {tag[w][q]}
      /\ tag' \in [Workers -> [Processors -> Message \cup {NoMessage}]]
      /\ \A v \in Workers, r \in Processors :
           v # w \/ r # q => tag'[v][r] = tag[v][r]
  BY <1>1 DEF Finish, TypeOK
<1>4. \A v \in Workers : HeldBy(v) \subseteq HeldBy(v)' \cup finished'
  <2> SUFFICES ASSUME NEW v \in Workers, NEW x \in HeldBy(v) PROVE x \in HeldBy(v)' \cup finished'
    OBVIOUS
  <2>1. ASSUME NEW r \in Processors, tag[v][r] # NoMessage, x = tag[v][r]
        PROVE  x \in HeldBy(v)' \cup finished'
    <3>1. CASE v = w /\ r = q
      BY <1>3, <2>1, <3>1
    <3>2. CASE v # w \/ r # q
      <4>1. tag'[v][r] = tag[v][r]
        BY <1>3, <3>2
      <4> QED
        BY <2>1, <4>1 DEF HeldBy
    <3> QED
      BY <3>1, <3>2
  <2>2. ASSUME NEW i \in 1 .. Len(tagsChan[v]), x = tagsChan[v][i]
        PROVE  x \in HeldBy(v)' \cup finished'
    BY <1>2, <2>2 DEF HeldBy
  <2> QED
    BY <2>1, <2>2 DEF HeldBy
<1>5. Kept
  <2>1. \A x \in Message : Accounted(x) => Accounted(x)'
    BY <1>2, <1>3, <1>4 DEF Accounted
  <2>2. \A p \in Partitions : Len(log[p]) \in Nat
    BY <1>1, LogType, SizesAssumption
  <2> QED
    BY <1>2, <2>1, <2>2 DEF Kept, kafkaVars
<1>6. TypeOK'
  BY <1>1, <1>2, <1>3 DEF TypeOK, kafkaVars, claimVars
<1> QED
  BY <1>2, <1>5, <1>6, ProcessorInv

-----------------------------------------------------------------------------
(* The theorems.                                                           *)

LEMMA StepInvariant == IInv /\ [Next]_vars => IInv'
<1> SUFFICES ASSUME IInv, [Next]_vars PROVE IInv'
  OBVIOUS
<1>1. ASSUME NEW p \in Partitions, NEW kind \in Kinds, Produce(p, kind) PROVE IInv'
  BY <1>1, ProduceStep
<1>2. CASE Assign
  BY <1>2, AssignStep
<1>3. ASSUME NEW w \in Workers, Consume(w) PROVE IInv'
  BY <1>3, ConsumeStep, RejoinStep DEF Consume
<1>4. ASSUME NEW w \in Workers, AutoCommit(w) PROVE IInv'
  BY <1>4, AutoCommitStep
<1>5. ASSUME NEW w \in Workers, Expel(w) PROVE IInv'
  BY <1>5, ExpelStep
<1>6. ASSUME NEW w \in Workers, Crash(w) PROVE IInv'
  BY <1>6, EndStep
<1>7. ASSUME NEW w \in Workers, NEW p \in Partitions, ConsumeClaim(w, p) PROVE IInv'
  BY <1>7, ReceiveStep, SendStep, MarkStep, ReturnStep DEF ConsumeClaim
<1>8. ASSUME NEW w \in Workers, NEW p \in Partitions, ReceiveNil(w, p) PROVE IInv'
  BY <1>8, EndStep
<1>9. ASSUME NEW w \in Workers, NEW q \in Processors, Process(w, q) PROVE IInv'
  BY <1>9, TakeStep, FinishStep DEF Process
<1>10. CASE UNCHANGED vars
  <2>1. UNCHANGED <<kafkaVars, session, claimVars>> /\ TypeOK'
    BY <1>10 DEF IInv, TypeOK, vars, kafkaVars, claimVars, processorVars, endVars
  <2>2. Kept
    BY <1>10, KeptSame DEF IInv, vars, kafkaVars, processorVars, endVars
  <2> QED
    BY <2>1, <2>2, ProcessorInv
<1> QED
  BY <1>1, <1>2, <1>3, <1>4, <1>5, <1>6, <1>7, <1>8, <1>9, <1>10 DEF Next

LEMMA Invariance == Spec => []IInv
BY InitInvariant, StepInvariant, PTL DEF Spec

(***************************************************************************)
(* Types are kept; the channel of tags in particular never holds more than *)
(* its capacity (worker.go:39).                                            *)
(***************************************************************************)
THEOREM TypeCorrect == Spec => []TypeOK
<1>1. IInv => TypeOK
  BY DEF IInv
<1> QED
  BY <1>1, Invariance, PTL

(***************************************************************************)
(* A committed tag is finished, held by a worker, or was held by a process *)
(* that ended: a claim marks a message when it is in the channel, so that  *)
(* a commit never covers a tag that nobody has taken (consumer.go:83-99).  *)
(***************************************************************************)
THEOREM CommittedTagsAccounted == Spec => []CommittedAccounted
<1>1. IInv => CommittedAccounted
  BY DEF IInv, CommitsHandled, Handled, CommittedAccounted
<1> QED
  BY <1>1, Invariance, PTL

-----------------------------------------------------------------------------
(* How often a tag is delivered.                                           *)

\* The group takes the commits of worker w for partition p.
Owns(w, p) == owner[p] = w /\ IsMember(w)

\* The claim of worker w has message m before it.
MayDeliver(w, m) ==
    \/ at[w][m[1]] \in {"select", "send"} /\ next[w][m[1]] <= m[2]
    \/ at[w][m[1]] = "mark" /\ next[w][m[1]] < m[2]

\* Workers that may still deliver m although they have been expelled.
Late(m) == {w \in Workers : session[w] = "expelled" /\ MayDeliver(w, m)}

\* Worker w has not marked m, and is not about to.
Ahead(w, m) ==
    m[2] > marked[w][m[1]] /\ ~ (at[w][m[1]] = "mark" /\ next[w][m[1]] = m[2])

\* The session of the owner, or the next one when there is none, may deliver m.
IsDue(m) ==
    \/ \E w \in Workers : Owns(w, m[1]) /\ Ahead(w, m)
    \/ (\A w \in Workers : ~ Owns(w, m[1])) /\ m[2] > committed[m[1]]

Due(m) == IF IsDue(m) THEN 1 ELSE 0

Ends == panics + faults

\* A message was delivered once for every end and every expulsion, and once more, less
\* the deliveries that may still come.
Balance(m) == deliveries[m] + Cardinality(Late(m)) + Due(m) <= 1 + Ends

\* Only members that own a partition, and expelled workers, have a claim for it.
ClaimsBelong ==
    \A w \in Workers, p \in Partitions :
        at[w][p] # "none" => session[w] = "expelled" \/ Owns(w, p)

DInv == IInv /\ ClaimsBelong /\ \A m \in Message : Balance(m)

LEMMA EndsType == TypeOK => Ends \in Nat
<1> SUFFICES ASSUME TypeOK PROVE Ends \in Nat
  OBVIOUS
<1>1. panics \in Nat /\ faults \in Nat
  BY DEF TypeOK
<1> QED
  BY <1>1 DEF Ends

LEMMA BalanceType ==
    ASSUME IInv, NEW m \in Message
    PROVE  /\ m[1] \in Partitions /\ m[2] \in 1 .. MaxMessages /\ m[2] \in Nat
           /\ deliveries[m] \in Nat
           /\ Ends \in Nat
           /\ IsFiniteSet(Late(m)) /\ Cardinality(Late(m)) \in Nat
           /\ Due(m) \in {0, 1} /\ (Due(m) = 1 <=> IsDue(m))
<1>1. IsFiniteSet(Late(m)) /\ Cardinality(Late(m)) \in Nat
  BY WorkersAssumption, FS_Subset, FS_CardinalityType DEF Late
<1>2. m[1] \in Partitions /\ m[2] \in 1 .. MaxMessages /\ m[2] \in Nat
  BY SizesAssumption DEF Message
<1>3. deliveries[m] \in Nat /\ Ends \in Nat
  BY EndsType DEF IInv, TypeOK
<1>4. Due(m) \in {0, 1} /\ (Due(m) = 1 <=> IsDue(m))
  BY DEF Due
<1> QED
  BY <1>1, <1>2, <1>3, <1>4

LEMMA BalanceTypeAfter ==
    ASSUME IInv', NEW m \in Message
    PROVE  /\ deliveries'[m] \in Nat
           /\ Ends' \in Nat
           /\ IsFiniteSet(Late(m)') /\ Cardinality(Late(m)') \in Nat
           /\ Due(m)' \in {0, 1} /\ (Due(m)' = 1 <=> IsDue(m)')
<1>1. IsFiniteSet(Late(m)') /\ Cardinality(Late(m)') \in Nat
  BY WorkersAssumption, FS_Subset, FS_CardinalityType DEF Late
<1>2. deliveries'[m] \in Nat
  BY DEF IInv, TypeOK
<1>3. Ends' \in Nat
  <2>1. panics' \in Nat /\ faults' \in Nat
    BY DEF IInv, TypeOK
  <2>2. PICK x \in Nat, y \in Nat : panics' = x /\ faults' = y
    BY <2>1
  <2>3. Ends' = x + y
    BY <2>2 DEF Ends
  <2> QED
    BY <2>3
<1>4. Due(m)' \in {0, 1} /\ (Due(m)' = 1 <=> IsDue(m)')
  BY DEF Due
<1> QED
  BY <1>1, <1>2, <1>3, <1>4

\* The balance of m is kept by a step that delivers nothing and takes nobody out of
\* the group, unless m becomes due with the end of a process.
LEMMA BalanceKept ==
    ASSUME IInv, IInv', NEW m \in Message, Balance(m),
           deliveries'[m] = deliveries[m], Ends' >= Ends,
           Late(m)' \subseteq Late(m),
           IsDue(m)' /\ ~ IsDue(m) => Ends' >= Ends + 1
    PROVE  Balance(m)'
<1> DEFINE d == deliveries[m]
           c1 == Cardinality(Late(m))
           c2 == Cardinality(Late(m)')
           u1 == Due(m)
           u2 == Due(m)'
           e1 == Ends
           e2 == Ends'
<1>1. c1 \in Nat /\ c2 \in Nat /\ c2 <= c1
  BY BalanceType, FS_Subset, FS_CardinalityType
<1>2. d \in Nat /\ e1 \in Nat /\ e2 \in Nat
  BY BalanceType, BalanceTypeAfter
<1>3. u1 \in {0, 1} /\ u2 \in {0, 1} /\ e2 >= e1 /\ (u2 <= u1 \/ e2 >= e1 + 1)
  BY DEF Due
<1>4. d + c1 + u1 <= 1 + e1
  BY DEF Balance
<1>5. d + c2 + u2 <= 1 + e2 => Balance(m)'
  BY DEF Balance
<1> HIDE DEF d, c1, c2, u1, u2, e1, e2
<1>6. d + c2 + u2 <= 1 + e2
  BY <1>1, <1>2, <1>3, <1>4
<1> QED
  BY <1>5, <1>6

LEMMA InitBalance == Init => DInv
<1> SUFFICES ASSUME Init PROVE DInv
  OBVIOUS
<1>1. IInv
  BY InitInvariant
<1>2. ClaimsBelong
  BY DEF Init, NoClaims, ClaimsBelong
<1>3. ASSUME NEW m \in Message PROVE Balance(m)
  <2>1. Late(m) = {}
    BY DEF Init, Late
  <2>2. Cardinality(Late(m)) = 0
    BY <2>1, FS_EmptySet
  <2>3. Due(m) \in {0, 1} /\ deliveries[m] = 0 /\ Ends = 0
    BY DEF Due, Ends, Init
  <2> QED
    BY <2>2, <2>3 DEF Balance
<1> QED
  BY <1>1, <1>2, <1>3 DEF DInv

\* Steps that move nobody into or out of the group, and no claim.
LEMMA QuietStep ==
    ASSUME DInv, IInv',
           UNCHANGED <<committed, owner, at, next, marked, deliveries, panics, faults>>,
           \A w \in Workers : /\ IsMember(w)' <=> IsMember(w)
                              /\ session'[w] = "expelled" <=> session[w] = "expelled"
    PROVE  DInv'
<1>1. \A w \in Workers, p \in Partitions : Owns(w, p)' <=> Owns(w, p)
  BY DEF Owns
<1>2. ClaimsBelong'
  BY <1>1 DEF DInv, ClaimsBelong
<1>3. ASSUME NEW m \in Message PROVE Balance(m)'
  <2>1. Ends' = Ends /\ Ends \in Nat
    BY EndsType DEF DInv, IInv, Ends
  <2>2. Late(m)' \subseteq Late(m)
    BY DEF Late, MayDeliver
  <2>3. m[1] \in Partitions
    BY DEF Message
  <2>4. IsDue(m)' => IsDue(m)
    BY <1>1, <2>3 DEF IsDue, Ahead
  <2> QED
    BY <2>1, <2>2, <2>4, BalanceKept DEF DInv
<1> QED
  BY <1>2, <1>3 DEF DInv

LEMMA CommitBalance ==
    ASSUME DInv, IInv', NEW w \in Workers, AutoCommit(w)
    PROVE  DInv'
<1>1. UNCHANGED <<owner, session, at, next, marked, deliveries, panics, faults>>
  BY DEF AutoCommit, claimVars, endVars
<1>2. \A v \in Workers, p \in Partitions : Owns(v, p)' <=> Owns(v, p)
  BY <1>1 DEF Owns, IsMember
<1>3. ClaimsBelong'
  BY <1>1, <1>2 DEF DInv, ClaimsBelong
<1>4. ASSUME NEW m \in Message PROVE Balance(m)'
  <2>1. Ends' = Ends /\ Ends \in Nat
    BY <1>1, EndsType DEF DInv, IInv, Ends
  <2>2. Late(m)' \subseteq Late(m)
    BY <1>1 DEF Late, MayDeliver
  <2>3. m[1] \in Partitions
    BY DEF Message
  <2>4. ~ Owns(w, m[1]) => committed'[m[1]] = committed[m[1]]
    BY <2>3 DEF AutoCommit, CommitMarks, Owns
  <2>5. IsDue(m)' => IsDue(m)
    BY <1>1, <1>2, <2>3, <2>4 DEF IsDue, Ahead
  <2> QED
    BY <1>1, <2>1, <2>2, <2>5, BalanceKept DEF DInv
<1> QED
  BY <1>3, <1>4 DEF DInv

\* The next owner of a partition starts behind the commits.
LEMMA AssignBalance ==
    ASSUME DInv, IInv', Assign
    PROVE  DInv'
<1> DEFINE Joined == {w \in Workers : session[w] = "joining"}
<1>1. UNCHANGED <<committed, deliveries, panics, faults>>
  BY DEF Assign, endVars
<1>2. /\ owner' \in [Partitions -> Joined]
      /\ session' = [w \in Workers |-> IF w \in Joined THEN "running" ELSE session[w]]
      /\ \A w \in Workers : ~ IsMember(w)
      /\ \A w \in Workers, p \in Partitions :
           /\ at'[w][p] = IF owner'[p] = w THEN "select" ELSE at[w][p]
           /\ next'[w][p] = IF owner'[p] = w THEN committed[p] + 1 ELSE next[w][p]
           /\ marked'[w][p] = IF owner'[p] = w THEN committed[p] ELSE marked[w][p]
  BY DEF Assign
<1>3. \A w \in Workers, p \in Partitions : Owns(w, p)' <=> owner'[p] = w
  BY <1>2 DEF Owns, IsMember
<1>4. \A w \in Workers, p \in Partitions : ~ Owns(w, p)
  BY <1>2 DEF Owns
<1>5. ClaimsBelong'
  <2> SUFFICES ASSUME NEW w \in Workers, NEW p \in Partitions, at'[w][p] # "none",
                      owner'[p] # w
               PROVE  session'[w] = "expelled"
    BY <1>3 DEF ClaimsBelong
  <2>1. session[w] = "expelled"
    BY <1>2, <1>4 DEF DInv, ClaimsBelong
  <2> QED
    BY <1>2, <2>1
<1>6. ASSUME NEW m \in Message PROVE Balance(m)'
  <2>1. Ends' = Ends /\ Ends \in Nat
    BY <1>1, EndsType DEF DInv, IInv, Ends
  <2>2. m[1] \in Partitions
    BY DEF Message
  <2>3. Late(m)' \subseteq Late(m)
    BY <1>2, <2>2 DEF Late, MayDeliver
  <2>4. IsDue(m)' => m[2] > committed[m[1]]
    <3>1. PICK v \in Workers : owner'[m[1]] = v
      BY <1>2, <2>2
    <3>2. Owns(v, m[1])' /\ \A u \in Workers : Owns(u, m[1])' => u = v
      BY <1>3, <2>2, <3>1
    <3>3. IsDue(m)' => Ahead(v, m)'
      BY <3>2 DEF IsDue
    <3>4. Ahead(v, m)' => m[2] > committed[m[1]]
      BY <1>2, <2>2, <3>1 DEF Ahead
    <3> QED
      BY <3>3, <3>4
  <2>5. IsDue(m)' => IsDue(m)
    BY <1>4, <2>2, <2>4 DEF IsDue
  <2> QED
    BY <1>1, <2>1, <2>3, <2>5, BalanceKept DEF DInv
<1> QED
  BY <1>5, <1>6 DEF DInv

\* The marks of a session that is over are committed: what it delivered is not due
\* again.
LEMMA RejoinBalance ==
    ASSUME DInv, IInv', NEW w \in Workers, Rejoin(w)
    PROVE  DInv'
<1>1. UNCHANGED <<owner, next, marked, deliveries, panics, faults>>
  BY DEF Rejoin, endVars
<1>2. TypeOK
  BY DEF DInv, IInv
<1>3. /\ \A v \in Workers, p \in Partitions :
           at'[v][p] = IF v = w THEN "none" ELSE at[v][p]
      /\ \A v \in Workers :
           session'[v] = IF v = w THEN "joining" ELSE session[v]
  BY <1>2 DEF Rejoin, NoClaims, TypeOK
<1>4. \A v \in Workers, p \in Partitions : Owns(v, p)' <=> v # w /\ Owns(v, p)
  BY <1>1, <1>3 DEF Owns, IsMember
<1>5. ClaimsBelong'
  BY <1>3, <1>4 DEF DInv, ClaimsBelong
<1>6. ASSUME NEW m \in Message PROVE Balance(m)'
  <2>1. Ends' = Ends /\ Ends \in Nat
    BY <1>1, <1>2, EndsType DEF Ends
  <2>2. m[1] \in Partitions
    BY DEF Message
  <2>3. Late(m)' \subseteq Late(m)
    BY <1>1, <1>3, <2>2 DEF Late, MayDeliver
  <2>4. committed'[m[1]] =
          IF Owns(w, m[1]) THEN marked[w][m[1]] ELSE committed[m[1]]
    BY <2>2 DEF Rejoin, CommitMarks, Owns
  <2>5. at[w][m[1]] # "mark"
    BY <2>2 DEF Rejoin
  <2>6. IsDue(m)' => IsDue(m)
    <3>1. CASE Owns(w, m[1])
      <4>1. \A v \in Workers : ~ Owns(v, m[1])'
        BY <1>4, <2>2, <3>1 DEF Owns
      <4>2. IsDue(m)' => Ahead(w, m)
        BY <2>4, <2>5, <3>1, <4>1 DEF IsDue, Ahead
      <4> QED
        BY <3>1, <4>2 DEF IsDue
    <3>2. CASE ~ Owns(w, m[1])
      <4>1. \A v \in Workers : /\ Owns(v, m[1])' <=> Owns(v, m[1])
                               /\ Owns(v, m[1]) => at'[v][m[1]] = at[v][m[1]]
        BY <1>3, <1>4, <2>2, <3>2
      <4> QED
        BY <1>1, <2>2, <2>4, <3>2, <4>1 DEF IsDue, Ahead
    <3> QED
      BY <3>1, <3>2
  <2> QED
    BY <1>1, <2>1, <2>3, <2>6, BalanceKept DEF DInv
<1> QED
  BY <1>5, <1>6 DEF DInv

LEMMA EndBalance ==
    ASSUME DInv, IInv', NEW w \in Workers,
           Crash(w) \/ \E p \in Partitions : ReceiveNil(w, p)
    PROVE  DInv'
<1>1. TypeOK /\ Ends \in Nat
  BY EndsType DEF DInv, IInv
<1>2. EndProcess(w) /\ Ends' = Ends + 1
  <2>1. panics \in Nat /\ faults \in Nat
    BY <1>1 DEF TypeOK
  <2>2. CASE Crash(w)
    BY <2>1, <2>2 DEF Crash, Ends
  <2>3. CASE \E p \in Partitions : ReceiveNil(w, p)
    BY <2>1, <2>3 DEF ReceiveNil, Ends
  <2> QED
    BY <2>2, <2>3
<1>3. /\ UNCHANGED <<next, deliveries>>
      /\ \A v \in Workers, p \in Partitions :
           at'[v][p] = IF v = w THEN "none" ELSE at[v][p]
      /\ \A v \in Workers :
           session'[v] = IF v = w THEN "down" ELSE session[v]
      /\ \A v \in Workers, p \in Partitions : owner[p] = v /\ v # w => owner'[p] = v
  BY <1>1, <1>2 DEF EndProcess, NoClaims, TypeOK, Disown
<1>4. ClaimsBelong'
  BY <1>3 DEF DInv, ClaimsBelong, Owns, IsMember
<1>5. ASSUME NEW m \in Message PROVE Balance(m)'
  <2>1. m[1] \in Partitions
    BY DEF Message
  <2>2. Late(m)' \subseteq Late(m)
    BY <1>3, <2>1 DEF Late, MayDeliver
  <2> QED
    BY <1>1, <1>2, <1>3, <2>2, BalanceKept DEF DInv
<1> QED
  BY <1>4, <1>5 DEF DInv

\* An expelled worker may still deliver what it owned, and so may the next owner.
LEMMA ExpelBalance ==
    ASSUME DInv, IInv', NEW w \in Workers, Expel(w)
    PROVE  DInv'
<1>1. TypeOK /\ Ends \in Nat /\ ClaimsInv
  BY EndsType, Parts DEF DInv, IInv
<1>2. Ends' = Ends + 1
  <2>1. panics \in Nat /\ faults \in Nat
    BY <1>1 DEF TypeOK
  <2> QED
    BY <2>1 DEF Expel, Ends
<1>3. /\ UNCHANGED <<at, next, marked, deliveries>>
      /\ IsMember(w)
      /\ \A v \in Workers :
           session'[v] = IF v = w THEN "expelled" ELSE session[v]
      /\ \A v \in Workers, p \in Partitions : owner[p] = v /\ v # w => owner'[p] = v
  BY <1>1 DEF Expel, TypeOK, Disown, claimVars
<1>4. ClaimsBelong'
  BY <1>3 DEF DInv, ClaimsBelong, Owns, IsMember
<1>5. ASSUME NEW m \in Message PROVE Balance(m)'
  <2>1. m[1] \in Partitions /\ m[2] \in Nat
    BY BalanceType DEF DInv
  <2>2. CASE ~ MayDeliver(w, m)
    <3>1. Late(m)' \subseteq Late(m)
      BY <1>3, <2>2 DEF Late, MayDeliver
    <3> QED
      BY <1>1, <1>2, <1>3, <3>1, BalanceKept DEF DInv
  <2>3. CASE MayDeliver(w, m)
    <3>1. Owns(w, m[1])
      BY <1>3, <2>1, <2>3 DEF DInv, ClaimsBelong, MayDeliver, IsMember
    <3>2. Ahead(w, m)
      <4>1. /\ next[w][m[1]] \in Int /\ marked[w][m[1]] \in Nat
            /\ marked[w][m[1]] < next[w][m[1]]
        BY <1>1, <2>1, NextType DEF ClaimsInv, ClaimInv
      <4> QED
        BY <2>1, <2>3, <4>1 DEF MayDeliver, Ahead
    <3>3. Due(m) = 1
      BY <3>1, <3>2 DEF Due, IsDue
    <3>4. Late(m)' \subseteq Late(m) \cup {w}
      BY <1>3 DEF Late, MayDeliver
    <3> DEFINE d == deliveries[m]
               c1 == Cardinality(Late(m))
               c2 == Cardinality(Late(m)')
               u2 == Due(m)'
               e1 == Ends
               e2 == Ends'
    <3>5. c1 \in Nat /\ c2 \in Nat /\ c2 <= c1 + 1
      <4>1. IsFiniteSet(Late(m)) /\ c1 \in Nat
        BY BalanceType DEF DInv
      <4>2. /\ IsFiniteSet(Late(m) \cup {w})
            /\ Cardinality(Late(m) \cup {w}) \in {c1, c1 + 1}
        BY <4>1, FS_AddElement
      <4>3. c2 <= Cardinality(Late(m) \cup {w}) /\ c2 \in Nat
        BY <3>4, <4>2, FS_Subset, FS_CardinalityType
      <4> HIDE DEF c1, c2
      <4> QED
        BY <4>1, <4>2, <4>3
    <3>6. d \in Nat /\ u2 \in {0, 1} /\ e1 \in Nat /\ e2 = e1 + 1
      BY <1>2, BalanceType, BalanceTypeAfter DEF DInv
    <3>7. d + c1 + 1 <= 1 + e1
      BY <3>3 DEF DInv, Balance
    <3>8. d + c2 + u2 <= 1 + e2 => Balance(m)'
      BY <1>3 DEF Balance
    <3> HIDE DEF d, c1, c2, u2, e1, e2
    <3>9. d + c2 + u2 <= 1 + e2
      BY <3>5, <3>6, <3>7
    <3> QED
      BY <3>8, <3>9
  <2> QED
    BY <2>2, <2>3
<1> QED
  BY <1>4, <1>5 DEF DInv

\* A step of one claim that does not bring it back to a message.
LEMMA ClaimBalance ==
    ASSUME DInv, IInv', NEW w \in Workers, NEW p \in Partitions,
           NEW step \in ClaimSteps, NEW n \in 1 .. MaxMessages + 1, NEW k \in 0 .. MaxMessages,
           Claim(w, p, step, n, k), at[w][p] # "none",
           UNCHANGED <<committed, owner, session, panics, faults>>
    PROVE  /\ ClaimsBelong'
           /\ \A v \in Workers, r \in Partitions : Owns(v, r)' <=> Owns(v, r)
           /\ \A m \in Message :
                /\ deliveries'[m] = deliveries[m]
                /\ m[1] = p /\ MayDeliver(w, m)' => MayDeliver(w, m)
                /\ m[1] = p /\ Ahead(w, m)' => Ahead(w, m)
                => Balance(m)'
<1>1. /\ at'[w][p] = step /\ next'[w][p] = n /\ marked'[w][p] = k
      /\ \A v \in Workers, r \in Partitions :
           v # w \/ r # p =>
               /\ at'[v][r] = at[v][r]
               /\ next'[v][r] = next[v][r]
               /\ marked'[v][r] = marked[v][r]
  BY ClaimStep DEF DInv, IInv
<1>2. \A v \in Workers, r \in Partitions : Owns(v, r)' <=> Owns(v, r)
  BY DEF Owns, IsMember
<1>3. ClaimsBelong'
  <2> SUFFICES ASSUME NEW v \in Workers, NEW r \in Partitions, at'[v][r] # "none"
               PROVE  session'[v] = "expelled" \/ Owns(v, r)'
    BY DEF ClaimsBelong
  <2>1. at[v][r] # "none"
    BY <1>1
  <2> QED
    BY <1>2, <2>1 DEF DInv, ClaimsBelong
<1>4. ASSUME NEW m \in Message, deliveries'[m] = deliveries[m],
             m[1] = p /\ MayDeliver(w, m)' => MayDeliver(w, m),
             m[1] = p /\ Ahead(w, m)' => Ahead(w, m)
      PROVE  Balance(m)'
  <2>1. m[1] \in Partitions
    BY DEF Message
  <2>2. \A v \in Workers : /\ MayDeliver(v, m)' => MayDeliver(v, m)
                           /\ Ahead(v, m)' => Ahead(v, m)
    <3> SUFFICES ASSUME NEW v \in Workers
                 PROVE  /\ MayDeliver(v, m)' => MayDeliver(v, m)
                        /\ Ahead(v, m)' => Ahead(v, m)
      OBVIOUS
    <3>1. CASE v = w /\ m[1] = p
      BY <1>4, <3>1
    <3>2. CASE v # w \/ m[1] # p
      BY <1>1, <2>1, <3>2 DEF MayDeliver, Ahead
    <3> QED
      BY <3>1, <3>2
  <2>3. Late(m)' \subseteq Late(m)
    BY <2>2 DEF Late
  <2>4. IsDue(m)' => IsDue(m)
    BY <1>2, <2>1, <2>2 DEF IsDue
  <2>5. Ends' = Ends /\ Ends \in Nat
    BY EndsType DEF DInv, IInv, Ends
  <2> QED
    BY <1>4, <2>3, <2>4, <2>5, BalanceKept DEF DInv
<1> QED
  BY <1>2, <1>3, <1>4

LEMMA ReceiveBalance ==
    ASSUME DInv, IInv', NEW w \in Workers, NEW p \in Partitions, Receive(w, p)
    PROVE  DInv'
<1> DEFINE n == next[w][p]
           k == marked[w][p]
<1>1. TypeOK /\ n \in 1 .. MaxMessages + 1 /\ k \in 0 .. MaxMessages
      /\ n <= Len(log[p]) /\ Len(log[p]) \in 0 .. MaxMessages /\ MaxMessages \in Nat
      /\ at[w][p] = "select"
  BY NextType, LogType, SizesAssumption DEF Receive, DInv, IInv
<1>2. UNCHANGED <<committed, owner, session, deliveries, panics, faults>>
  BY DEF Receive, kafkaVars, endVars
<1>3. PICK step \in {"select", "send"}, i \in {n, n + 1} :
        Claim(w, p, step, i, k)
  BY DEF Receive, Goto
<1>4. step \in ClaimSteps /\ i \in 1 .. MaxMessages + 1 /\ i >= n
  BY <1>1 DEF ClaimSteps
<1>5. at'[w][p] = step /\ next'[w][p] = i /\ marked'[w][p] = k
  BY <1>1, <1>3, <1>4, ClaimStep
<1>6. ASSUME NEW m \in Message, m[1] = p
      PROVE  /\ MayDeliver(w, m)' => MayDeliver(w, m)
             /\ Ahead(w, m)' => Ahead(w, m)
  <2>1. m[2] \in Nat
    BY BalanceType DEF DInv
  <2> QED
    BY <1>1, <1>4, <1>5, <1>6, <2>1 DEF MayDeliver, Ahead
<1>7. ClaimsBelong' /\ \A m \in Message : Balance(m)'
  BY <1>1, <1>2, <1>3, <1>4, <1>6, ClaimBalance
<1> QED
  BY <1>7 DEF DInv

LEMMA MarkBalance ==
    ASSUME DInv, IInv', NEW w \in Workers, NEW p \in Partitions, Mark(w, p)
    PROVE  DInv'
<1> DEFINE n == next[w][p]
<1>1. TypeOK /\ ClaimsInv
  BY Parts DEF DInv, IInv
<1>2. /\ n \in 1 .. MaxMessages + 1 /\ marked[w][p] \in Nat
      /\ n <= Len(log[p]) /\ Len(log[p]) \in 0 .. MaxMessages /\ MaxMessages \in Nat
      /\ at[w][p] = "mark" /\ marked[w][p] < n
  BY <1>1, NextType, LogType, SizesAssumption DEF Mark, ClaimsInv, ClaimInv
<1>3. /\ n + 1 \in 1 .. MaxMessages + 1 /\ n \in 0 .. MaxMessages /\ n \in Nat
      /\ "select" \in ClaimSteps /\ Claim(w, p, "select", n + 1, n)
  BY <1>2 DEF Mark, ClaimSteps
<1>4. UNCHANGED <<committed, owner, session, deliveries, panics, faults>>
  BY DEF Mark, kafkaVars, endVars
<1>5. at'[w][p] = "select" /\ next'[w][p] = n + 1 /\ marked'[w][p] = n
  BY <1>1, <1>3, ClaimStep
<1>6. ASSUME NEW m \in Message, m[1] = p
      PROVE  /\ MayDeliver(w, m)' => MayDeliver(w, m)
             /\ Ahead(w, m)' => Ahead(w, m)
  <2>1. m[2] \in Nat
    BY BalanceType DEF DInv
  <2> QED
    BY <1>2, <1>3, <1>5, <1>6, <2>1 DEF MayDeliver, Ahead
<1>7. ClaimsBelong' /\ \A m \in Message : Balance(m)'
  BY <1>2, <1>3, <1>4, <1>6, ClaimBalance
<1> QED
  BY <1>7 DEF DInv

LEMMA ReturnBalance ==
    ASSUME DInv, IInv', NEW w \in Workers, NEW p \in Partitions, Return(w, p)
    PROVE  DInv'
<1> DEFINE n == next[w][p]
           k == marked[w][p]
<1>1. TypeOK /\ n \in 1 .. MaxMessages + 1 /\ k \in 0 .. MaxMessages
      /\ at[w][p] = "select" /\ "done" \in ClaimSteps /\ Claim(w, p, "done", n, k)
  BY NextType DEF Return, Goto, ClaimSteps, DInv, IInv
<1>2. UNCHANGED <<committed, owner, session, deliveries, panics, faults>>
  BY DEF Return, kafkaVars, endVars
<1>3. at'[w][p] = "done" /\ next'[w][p] = n /\ marked'[w][p] = k
  BY <1>1, ClaimStep
<1>4. ASSUME NEW m \in Message, m[1] = p
      PROVE  /\ MayDeliver(w, m)' => MayDeliver(w, m)
             /\ Ahead(w, m)' => Ahead(w, m)
  BY <1>1, <1>3, <1>4 DEF MayDeliver, Ahead
<1>5. ClaimsBelong' /\ \A m \in Message : Balance(m)'
  BY <1>1, <1>2, <1>4, ClaimBalance
<1> QED
  BY <1>5 DEF DInv

\* The delivery that a claim makes was one that might still come.
LEMMA SendBalance ==
    ASSUME DInv, IInv', NEW w \in Workers, NEW p \in Partitions, Send(w, p)
    PROVE  DInv'
<1> DEFINE n == next[w][p]
           k == marked[w][p]
<1>1. TypeOK /\ ClaimsInv
  BY Parts DEF DInv, IInv
<1>2. /\ n \in 1 .. MaxMessages + 1 /\ k \in 0 .. MaxMessages /\ k \in Nat
      /\ n <= Len(log[p]) /\ Len(log[p]) \in 0 .. MaxMessages /\ MaxMessages \in Nat
      /\ at[w][p] = "send" /\ k < n
  BY <1>1, NextType, LogType, SizesAssumption DEF Send, ClaimsInv, ClaimInv
<1>2a. PICK x \in Message : x = <<p, n>>
  <2>1. <<p, n>> \in Message
    BY <1>2 DEF Message
  <2> QED
    BY <2>1
<1>3. x[1] = p /\ x[2] = n /\ n \in Nat
  BY <1>2, <1>2a
<1>4. /\ Claim(w, p, "mark", n, k) /\ "mark" \in ClaimSteps
      /\ deliveries' = [deliveries EXCEPT ![x] = @ + 1]
      /\ UNCHANGED <<committed, owner, session, panics, faults>>
  BY <1>2a DEF Send, Goto, ClaimSteps, kafkaVars, endVars
<1>5. /\ deliveries'[x] = deliveries[x] + 1
      /\ \A m \in Message \ {x} : deliveries'[m] = deliveries[m]
  BY <1>1, <1>3, <1>4 DEF TypeOK
<1>6. at'[w][p] = "mark" /\ next'[w][p] = n /\ marked'[w][p] = k
  BY <1>1, <1>2, <1>4, ClaimStep
<1>7. ASSUME NEW m \in Message, m[1] = p
      PROVE  /\ MayDeliver(w, m)' => MayDeliver(w, m)
             /\ Ahead(w, m)' => Ahead(w, m)
  <2>1. m[2] \in Nat
    BY BalanceType DEF DInv
  <2> QED
    BY <1>2, <1>3, <1>6, <1>7, <2>1 DEF MayDeliver, Ahead
<1>8. /\ ClaimsBelong'
      /\ \A v \in Workers, r \in Partitions : Owns(v, r)' <=> Owns(v, r)
      /\ \A m \in Message \ {x} : Balance(m)'
  BY <1>2, <1>4, <1>5, <1>7, ClaimBalance
<1>9. \A v \in Workers : v # w => at'[v][p] = at[v][p] /\ next'[v][p] = next[v][p]
                                  /\ marked'[v][p] = marked[v][p]
  BY <1>1, <1>2, <1>4, ClaimStep
<1>10. /\ ~ MayDeliver(w, x)' /\ ~ Ahead(w, x)'
       /\ MayDeliver(w, x) /\ Ahead(w, x)
  BY <1>2, <1>3, <1>6 DEF MayDeliver, Ahead
<1>11. \A v \in Workers : v # w => /\ MayDeliver(v, x)' => MayDeliver(v, x)
                                   /\ Ahead(v, x)' => Ahead(v, x)
  BY <1>3, <1>9 DEF MayDeliver, Ahead
<1>12. Balance(x)'
  <2> DEFINE d == deliveries[x]
             c1 == Cardinality(Late(x))
             c2 == Cardinality(Late(x)')
             u1 == Due(x)
             u2 == Due(x)'
             e1 == Ends
             e2 == Ends'
  <2>1. /\ d \in Nat /\ c1 \in Nat /\ c2 \in Nat /\ IsFiniteSet(Late(x))
        /\ u1 \in {0, 1} /\ u2 \in {0, 1} /\ e1 \in Nat
    BY <1>3, BalanceType, BalanceTypeAfter DEF DInv
  <2>2. e2 = e1
    BY <1>4 DEF Ends
  <2>3. session[w] = "expelled" \/ Owns(w, p)
    BY <1>2 DEF DInv, ClaimsBelong
  <2>4. c2 + u2 + 1 <= c1 + u1
    <3>1. CASE Owns(w, p)
      <4>1. Late(x)' \subseteq Late(x)
        BY <1>4, <1>10, <1>11 DEF Late
      <4>2. c2 <= c1
        BY <2>1, <4>1, FS_Subset
      <4>3. ~ IsDue(x)' /\ IsDue(x)
        BY <1>3, <1>8, <1>10, <3>1 DEF IsDue, Owns
      <4>4. u2 = 0 /\ u1 = 1
        BY <4>3 DEF Due
      <4> HIDE DEF c1, c2, u1, u2
      <4> QED
        BY <2>1, <4>2, <4>4
    <3>2. CASE session[w] = "expelled" /\ ~ Owns(w, p)
      <4>1. Late(x)' \subseteq Late(x) \ {w} /\ w \in Late(x)
        BY <1>4, <1>10, <1>11, <3>2 DEF Late
      <4>2. /\ IsFiniteSet(Late(x) \ {w})
            /\ Cardinality(Late(x) \ {w}) = c1 - 1
        BY <2>1, <4>1, FS_RemoveElement
      <4>3. c2 <= c1 - 1
        BY <4>1, <4>2, FS_Subset
      <4>4. IsDue(x)' => IsDue(x)
        BY <1>3, <1>4, <1>8, <1>11, <3>2 DEF IsDue
      <4>5. u2 <= u1
        BY <4>4 DEF Due
      <4> HIDE DEF c1, c2, u1, u2
      <4> QED
        BY <2>1, <4>3, <4>5
    <3> QED
      BY <2>3, <3>1, <3>2
  <2>5. d + c1 + u1 <= 1 + e1
    BY <1>3 DEF DInv, Balance
  <2>6. (d + 1) + c2 + u2 <= 1 + e2 => Balance(x)'
    BY <1>5 DEF Balance
  <2> HIDE DEF d, c1, c2, u1, u2, e1, e2
  <2>7. (d + 1) + c2 + u2 <= 1 + e2
    BY <2>1, <2>2, <2>4, <2>5
  <2> QED
    BY <2>6, <2>7
<1> QED
  BY <1>8, <1>12 DEF DInv

LEMMA DeliveryInvariant == DInv /\ [Next]_vars => DInv'
<1> SUFFICES ASSUME DInv, [Next]_vars PROVE DInv'
  OBVIOUS
<1>0. IInv'
  BY StepInvariant DEF DInv
<1>1. ASSUME NEW p \in Partitions, NEW kind \in Kinds, Produce(p, kind) PROVE DInv'
  BY <1>0, <1>1, QuietStep DEF Produce, claimVars, endVars, IsMember
<1>2. CASE Assign
  BY <1>0, <1>2, AssignBalance
<1>3. ASSUME NEW w \in Workers, Start(w) \/ Rebalance(w) PROVE DInv'
  <2>1. \A v \in Workers : /\ IsMember(v)' <=> IsMember(v)
                           /\ session'[v] = "expelled" <=> session[v] = "expelled"
    BY <1>3 DEF DInv, IInv, TypeOK, Start, Rebalance, IsMember
  <2> QED
    BY <1>0, <1>3, <2>1, QuietStep DEF Start, Rebalance, kafkaVars, claimVars, endVars
<1>4. ASSUME NEW w \in Workers, Rejoin(w) PROVE DInv'
  BY <1>0, <1>4, RejoinBalance
<1>5. ASSUME NEW w \in Workers, AutoCommit(w) PROVE DInv'
  BY <1>0, <1>5, CommitBalance
<1>6. ASSUME NEW w \in Workers, Expel(w) PROVE DInv'
  BY <1>0, <1>6, ExpelBalance
<1>7. ASSUME NEW w \in Workers, Crash(w) \/ \E p \in Partitions : ReceiveNil(w, p)
      PROVE  DInv'
  BY <1>0, <1>7, EndBalance
<1>8. ASSUME NEW w \in Workers, NEW p \in Partitions, ConsumeClaim(w, p) PROVE DInv'
  BY <1>0, <1>8, ReceiveBalance, SendBalance, MarkBalance, ReturnBalance
     DEF ConsumeClaim
<1>9. ASSUME NEW w \in Workers, NEW q \in Processors, Process(w, q) PROVE DInv'
  BY <1>0, <1>9, QuietStep
     DEF Process, Take, Finish, kafkaVars, claimVars, endVars, IsMember
<1>10. CASE UNCHANGED vars
  BY <1>0, <1>10, QuietStep DEF vars, kafkaVars, claimVars, endVars, IsMember
<1> QED
  BY <1>1, <1>2, <1>3, <1>4, <1>5, <1>6, <1>7, <1>8, <1>9, <1>10 DEF Next, Consume

(***************************************************************************)
(* A tag is delivered once, and once more at most for every process that   *)
(* ended or was expelled: a session that ends for a rebalance commits      *)
(* exactly what it delivered (consumer.go:83-99).                          *)
(***************************************************************************)
THEOREM TagsDeliveredOnce == Spec => []DeliveredOnce
<1>1. DInv => DeliveredOnce
  <2> SUFFICES ASSUME DInv, NEW m \in Message
               PROVE  deliveries[m] <= 1 + panics + faults
    BY DEF DeliveredOnce
  <2> DEFINE c == Cardinality(Late(m))
             u == Due(m)
             d == deliveries[m]
             e == Ends
  <2>1. d \in Nat /\ c \in Nat /\ u \in {0, 1} /\ e \in Nat
    BY BalanceType DEF DInv
  <2>2. d + c + u <= 1 + e
    BY DEF DInv, Balance
  <2>3. e = panics + faults /\ panics \in Nat /\ faults \in Nat
    BY DEF Ends, DInv, IInv, TypeOK
  <2> HIDE DEF c, u, d, e
  <2>4. d <= 1 + panics + faults
    BY <2>1, <2>2, <2>3
  <2> QED
    BY <2>4 DEF d
<1> QED
  BY <1>1, InitBalance, DeliveryInvariant, PTL DEF Spec

-----------------------------------------------------------------------------
(* The workers implement TagQueue.                                         *)

\* A claim sends and marks tags only.
SendsTags ==
    \A w \in Workers, p \in Partitions :
        at[w][p] \in {"send", "mark"} => log[p][next[w][p]] = "tag"

\* What is held, finished or lost was delivered.
AccountedDelivered == \A m \in Message : Accounted(m) => deliveries[m] > 0

\* A member never commits less than what is committed.
CommitsBehind ==
    \A w \in Workers, p \in Partitions : Owns(w, p) => committed[p] <= marked[w][p]

QInv ==
    /\ DInv
    /\ SendsTags
    /\ AccountedDelivered
    /\ CommitsBehind

LEMMA DeliveredStay ==
    ASSUME TypeOK, AccountedDelivered,
           \A m \in Message : Accounted(m)' => Accounted(m),
           UNCHANGED deliveries
    PROVE  AccountedDelivered'
BY DEF AccountedDelivered

LEMMA SendsTagsKept ==
    ASSUME IInv, SendsTags, UNCHANGED next,
           \A p \in Partitions : \A o \in 1 .. Len(log[p]) : log'[p][o] = log[p][o],
           \A w \in Workers, p \in Partitions :
               at'[w][p] \in {"send", "mark"} => at'[w][p] = at[w][p]
    PROVE  SendsTags'
<1> SUFFICES ASSUME NEW w \in Workers, NEW p \in Partitions, at'[w][p] \in {"send", "mark"}
             PROVE  log'[p][next[w][p]] = "tag"
  BY DEF SendsTags
<1>1. at[w][p] \in {"send", "mark"} /\ log[p][next[w][p]] = "tag"
  BY DEF SendsTags
<1>2. next[w][p] \in 1 .. Len(log[p])
  <2>1. TypeOK /\ next[w][p] <= Len(log[p])
    BY <1>1 DEF IInv, OnMessage
  <2> QED
    BY <2>1, NextType, LogType, SizesAssumption
<1> QED
  BY <1>1, <1>2

LEMMA CommitsBehindKept ==
    ASSUME CommitsBehind, UNCHANGED <<committed, marked>>,
           \A w \in Workers, p \in Partitions : Owns(w, p)' => Owns(w, p)
    PROVE  CommitsBehind'
BY DEF CommitsBehind

\* Steps that leave the claims, the tags and the deliveries alone.
LEMMA QuietQueue ==
    ASSUME QInv, DInv',
           UNCHANGED <<committed, owner, claimVars, processorVars, deliveries, lost>>,
           \A p \in Partitions : \A o \in 1 .. Len(log[p]) : log'[p][o] = log[p][o],
           \A w \in Workers : IsMember(w)' => IsMember(w)
    PROVE  QInv'
<1>1. SendsTags'
  BY SendsTagsKept DEF QInv, DInv, claimVars
<1>2. AccountedDelivered'
  BY DeliveredStay DEF QInv, DInv, IInv, Accounted, HeldBy, processorVars
<1>3. CommitsBehind'
  BY CommitsBehindKept DEF QInv, Owns, claimVars
<1> QED
  BY <1>1, <1>2, <1>3 DEF QInv

LEMMA InitQueue == Init => QInv
<1> SUFFICES ASSUME Init PROVE QInv
  OBVIOUS
<1>1. DInv
  BY InitBalance
<1>2. SendsTags /\ CommitsBehind
  BY DEF Init, SendsTags, CommitsBehind, NoClaims, Owns, IsMember
<1>3. AccountedDelivered
  <2> SUFFICES ASSUME NEW m \in Message, NEW w \in Workers PROVE m \notin HeldBy(w)
    BY DEF Init, AccountedDelivered, Accounted
  <2>1. tagsChan[w] = <<>> /\ \A q \in Processors : tag[w][q] = NoMessage
    BY DEF Init, Idle
  <2> QED
    BY <2>1, EmptySeq DEF HeldBy
<1> QED
  BY <1>1, <1>2, <1>3 DEF QInv

LEMMA AssignQueue == ASSUME QInv, DInv', Assign PROVE QInv'
<1>1. TypeOK /\ NoWorker \notin Workers
  BY NoWorkerAssumption DEF QInv, DInv, IInv
<1>2. /\ \A w \in Workers, p \in Partitions :
           /\ at'[w][p] = IF owner'[p] = w THEN "select" ELSE at[w][p]
           /\ next'[w][p] = IF owner'[p] = w THEN committed[p] + 1 ELSE next[w][p]
           /\ marked'[w][p] = IF owner'[p] = w THEN committed[p] ELSE marked[w][p]
      /\ UNCHANGED <<log, committed, tagsChan, tag, finished, deliveries, lost>>
  BY DEF Assign, processorVars, endVars
<1>3. SendsTags'
  BY <1>2 DEF QInv, SendsTags
<1>4. AccountedDelivered'
  BY <1>1, <1>2, DeliveredStay DEF QInv, Accounted, HeldBy
<1>5. CommitsBehind'
  <2> SUFFICES ASSUME NEW w \in Workers, NEW p \in Partitions, owner'[p] = w
               PROVE  committed'[p] <= marked'[w][p]
    BY DEF CommitsBehind, Owns
  <2>1. marked'[w][p] = committed'[p] /\ committed[p] \in Nat
    BY <1>1, <1>2, SizesAssumption DEF TypeOK
  <2> QED
    BY <1>2, <2>1
<1> QED
  BY <1>3, <1>4, <1>5 DEF QInv

LEMMA CommitQueue ==
    ASSUME QInv, DInv', NEW w \in Workers, AutoCommit(w) \/ Rejoin(w)
    PROVE  QInv'
<1>1. TypeOK
  BY DEF QInv, DInv, IInv
<1>2. /\ CommitMarks(w)
      /\ \A v \in Workers : IsMember(v)' => IsMember(v)
      /\ \A v \in Workers, p \in Partitions : at'[v][p] \in {at[v][p], "none"}
      /\ UNCHANGED <<log, owner, next, marked, tagsChan, tag, finished, deliveries, lost>>
  <2>1. CASE AutoCommit(w)
    BY <2>1 DEF AutoCommit, IsMember, claimVars, processorVars, endVars
  <2>2. CASE Rejoin(w)
    <3>1. \A v \in Workers : IsMember(v)' => IsMember(v)
      BY <1>1, <2>2 DEF Rejoin, TypeOK, IsMember
    <3>2. \A v \in Workers, p \in Partitions : at'[v][p] \in {at[v][p], "none"}
      BY <1>1, <2>2 DEF Rejoin, TypeOK, NoClaims
    <3> QED
      BY <2>2, <3>1, <3>2 DEF Rejoin, processorVars, endVars
  <2> QED
    BY <2>1, <2>2
<1>3. SendsTags'
  BY <1>2, SendsTagsKept DEF QInv, DInv
<1>4. AccountedDelivered'
  BY <1>1, <1>2, DeliveredStay DEF QInv, Accounted, HeldBy
<1>5. CommitsBehind'
  <2> SUFFICES ASSUME NEW v \in Workers, NEW p \in Partitions, Owns(v, p)'
               PROVE  committed'[p] <= marked[v][p]
    BY <1>2 DEF CommitsBehind
  <2>1. Owns(v, p) /\ committed[p] <= marked[v][p] /\ marked[v][p] \in Nat
    BY <1>1, <1>2, NextType DEF QInv, CommitsBehind, Owns
  <2>2. committed'[p] \in {committed[p], marked[v][p]}
    BY <1>2, <2>1 DEF CommitMarks, Owns
  <2> QED
    BY <2>1, <2>2
<1> QED
  BY <1>3, <1>4, <1>5 DEF QInv

LEMMA LeaveQueue ==
    ASSUME QInv, DInv', NEW w \in Workers,
           Expel(w) \/ Crash(w) \/ \E p \in Partitions : ReceiveNil(w, p)
    PROVE  QInv'
<1>1. TypeOK
  BY DEF QInv, DInv, IInv
<1>2. /\ Disown(w)
      /\ \A v \in Workers : v # w => session'[v] = session[v]
      /\ \A v \in Workers, p \in Partitions : at'[v][p] \in {at[v][p], "none"}
      /\ UNCHANGED <<log, committed, next, marked, finished, deliveries>>
  <2>1. CASE Expel(w)
    BY <1>1, <2>1 DEF Expel, TypeOK, claimVars, processorVars
  <2>2. CASE EndProcess(w)
    <3>1. \A v \in Workers : v # w => session'[v] = session[v]
      BY <1>1, <2>2 DEF EndProcess, TypeOK
    <3>2. \A v \in Workers, p \in Partitions : at'[v][p] \in {at[v][p], "none"}
      BY <1>1, <2>2 DEF EndProcess, TypeOK, NoClaims
    <3> QED
      BY <2>2, <3>1, <3>2 DEF EndProcess
  <2> QED
    BY <2>1, <2>2 DEF Crash, ReceiveNil
<1>3. SendsTags'
  BY <1>2, SendsTagsKept DEF QInv, DInv
<1>4. AccountedDelivered'
  <2>1. CASE Expel(w)
    BY <1>1, <2>1, DeliveredStay DEF QInv, Accounted, HeldBy, Expel, processorVars
  <2>2. CASE EndProcess(w)
    <3>1. /\ lost' = lost \cup HeldBy(w)
          /\ tagsChan'[w] = <<>> /\ \A q \in Processors : tag'[w][q] = NoMessage
          /\ \A v \in Workers : v # w => tagsChan'[v] = tagsChan[v] /\ tag'[v] = tag[v]
      BY <1>1, <2>2 DEF EndProcess, TypeOK, Idle
    <3>2. \A v \in Workers : HeldBy(v)' \subseteq HeldBy(v)
      BY <3>1, EmptySeq DEF HeldBy
    <3>3. \A m \in Message : Accounted(m)' => Accounted(m)
      BY <1>2, <3>1, <3>2 DEF Accounted
    <3> QED
      BY <1>1, <1>2, <3>3, DeliveredStay DEF QInv
  <2> QED
    BY <2>1, <2>2 DEF Crash, ReceiveNil
<1>5. CommitsBehind'
  <2>1. \A v \in Workers, p \in Partitions : Owns(v, p)' => Owns(v, p)
    BY <1>1, <1>2, DisownStep DEF Owns, IsMember
  <2> QED
    BY <1>2, <2>1, CommitsBehindKept DEF QInv
<1> QED
  BY <1>3, <1>4, <1>5 DEF QInv

\* A step of one claim that does not unmark.
LEMMA ClaimQueue ==
    ASSUME QInv, NEW w \in Workers, NEW p \in Partitions,
           NEW step \in ClaimSteps, NEW n \in 1 .. MaxMessages + 1, NEW k \in 0 .. MaxMessages,
           Claim(w, p, step, n, k), step \in {"send", "mark"} => log[p][n] = "tag",
           marked[w][p] <= k, UNCHANGED <<log, committed, owner, session>>
    PROVE  SendsTags' /\ CommitsBehind'
<1>1. TypeOK
  BY DEF QInv, DInv, IInv
<1>2. /\ at'[w][p] = step /\ next'[w][p] = n /\ marked'[w][p] = k
      /\ \A v \in Workers, r \in Partitions :
           v # w \/ r # p =>
               /\ at'[v][r] = at[v][r]
               /\ next'[v][r] = next[v][r]
               /\ marked'[v][r] = marked[v][r]
  BY <1>1, ClaimStep
<1>3. SendsTags'
  <2> SUFFICES ASSUME NEW v \in Workers, NEW r \in Partitions, at'[v][r] \in {"send", "mark"}
               PROVE  log[r][next'[v][r]] = "tag"
    BY DEF SendsTags
  <2>1. CASE v = w /\ r = p
    BY <1>2, <2>1
  <2>2. CASE v # w \/ r # p
    BY <1>2, <2>2 DEF QInv, SendsTags
  <2> QED
    BY <2>1, <2>2
<1>4. CommitsBehind'
  <2> SUFFICES ASSUME NEW v \in Workers, NEW r \in Partitions, Owns(v, r)'
               PROVE  committed[r] <= marked'[v][r]
    BY DEF CommitsBehind
  <2>1. /\ committed[r] <= marked[v][r]
        /\ committed[r] \in Nat /\ marked[v][r] \in Nat /\ k \in Nat
    BY <1>1, NextType, SizesAssumption DEF QInv, CommitsBehind, Owns, IsMember, TypeOK
  <2>2. marked'[v][r] >= marked[v][r] /\ marked'[v][r] \in Nat
    BY <1>2, <2>1
  <2> QED
    BY <2>1, <2>2
<1> QED
  BY <1>3, <1>4

LEMMA ReceiveQueue ==
    ASSUME QInv, DInv', NEW w \in Workers, NEW p \in Partitions, Receive(w, p)
    PROVE  QInv'
<1> DEFINE n == next[w][p]
           k == marked[w][p]
<1>1. /\ TypeOK /\ n \in 1 .. MaxMessages + 1 /\ k \in 0 .. MaxMessages /\ k \in Nat
      /\ n \in 1 .. Len(log[p]) /\ Len(log[p]) \in 0 .. MaxMessages /\ MaxMessages \in Nat
      /\ log[p] \in Seq(Kinds)
  BY NextType, LogType, SizesAssumption DEF Receive, QInv, DInv, IInv
<1>2. UNCHANGED <<log, committed, owner, session, tagsChan, tag, finished, deliveries, lost>>
  BY DEF Receive, kafkaVars, processorVars, endVars
<1>3. AccountedDelivered'
  BY <1>1, <1>2, DeliveredStay DEF QInv, Accounted, HeldBy
<1>4. CASE log[p][n] = "malformed"
  <2>1. /\ n + 1 \in 1 .. MaxMessages + 1 /\ "select" \in ClaimSteps
        /\ Claim(w, p, "select", n + 1, k)
    BY <1>1, <1>4 DEF Receive, ClaimSteps
  <2> QED
    BY <1>1, <1>2, <1>3, <2>1, ClaimQueue DEF QInv
<1>5. CASE log[p][n] # "malformed"
  <2>1. log[p][n] = "tag"
    BY <1>1, <1>5, ElementOfSeq DEF Kinds
  <2>2. "send" \in ClaimSteps /\ Claim(w, p, "send", n, k)
    BY <1>5 DEF Receive, ClaimSteps, Goto
  <2> QED
    BY <1>1, <1>2, <1>3, <2>1, <2>2, ClaimQueue DEF QInv
<1> QED
  BY <1>4, <1>5

LEMMA MarkQueue ==
    ASSUME QInv, DInv', NEW w \in Workers, NEW p \in Partitions, Mark(w, p) \/ Return(w, p)
    PROVE  QInv'
<1> DEFINE n == next[w][p]
           k == marked[w][p]
<1>1. /\ TypeOK /\ n \in 1 .. MaxMessages + 1 /\ k \in 0 .. MaxMessages
      /\ k < n /\ n \in Nat /\ k \in Nat
      /\ Len(log[p]) \in 0 .. MaxMessages /\ MaxMessages \in Nat
      /\ at[w][p] = "mark" => n <= Len(log[p])
  <2>1. TypeOK /\ k < n /\ (at[w][p] = "mark" => n <= Len(log[p]))
    BY DEF QInv, DInv, IInv, MarksBehind, OnMessage
  <2> QED
    BY <2>1, NextType, LogType, SizesAssumption
<1>2. UNCHANGED <<log, committed, owner, session, tagsChan, tag, finished, deliveries, lost>>
  BY DEF Mark, Return, kafkaVars, processorVars, endVars
<1>3. AccountedDelivered'
  BY <1>1, <1>2, DeliveredStay DEF QInv, Accounted, HeldBy
<1>4. CASE Mark(w, p)
  <2>1. /\ n + 1 \in 1 .. MaxMessages + 1 /\ n \in 0 .. MaxMessages
        /\ "select" \in ClaimSteps /\ Claim(w, p, "select", n + 1, n)
    BY <1>1, <1>4 DEF Mark, ClaimSteps
  <2> QED
    BY <1>1, <1>2, <1>3, <2>1, ClaimQueue DEF QInv
<1>5. CASE Return(w, p)
  <2>1. "done" \in ClaimSteps /\ Claim(w, p, "done", n, k)
    BY <1>5 DEF Return, Goto, ClaimSteps
  <2> QED
    BY <1>1, <1>2, <1>3, <2>1, ClaimQueue DEF QInv
<1> QED
  BY <1>4, <1>5

LEMMA SendQueue ==
    ASSUME QInv, DInv', NEW w \in Workers, NEW p \in Partitions, Send(w, p)
    PROVE  QInv'
<1> DEFINE n == next[w][p]
           k == marked[w][p]
           m == <<p, n>>
           t == tagsChan[w]
<1>1. /\ TypeOK /\ n \in 1 .. MaxMessages + 1 /\ k \in 0 .. MaxMessages /\ k \in Nat
      /\ at[w][p] = "send" /\ log[p][n] = "tag" /\ n <= Len(log[p])
      /\ Len(log[p]) \in 0 .. MaxMessages /\ MaxMessages \in Nat
  BY NextType, LogType, SizesAssumption DEF Send, QInv, DInv, IInv, SendsTags, OnMessage
<1>2. UNCHANGED <<log, committed, owner, session, tag, finished, lost>>
  BY DEF Send, kafkaVars, endVars
<1>3. SendsTags' /\ CommitsBehind'
  <2>1. "mark" \in ClaimSteps /\ Claim(w, p, "mark", n, k)
    BY DEF Send, Goto, ClaimSteps
  <2> QED
    BY <1>1, <1>2, <2>1, ClaimQueue
<1>4. m \in Message
  BY <1>1 DEF Message
<1>5. /\ t \in Seq(Message) /\ Len(t) \in Nat
      /\ tagsChan'[w] = Append(t, m)
      /\ \A v \in Workers : v # w => tagsChan'[v] = tagsChan[v]
      /\ \A x \in Message : deliveries'[x] = IF x = m THEN deliveries[x] + 1 ELSE deliveries[x]
      /\ \A x \in Message : deliveries[x] \in Nat
  BY <1>1, <1>4, LenProperties DEF Send, TypeOK
<1>6. /\ Len(Append(t, m)) = Len(t) + 1
      /\ \A i \in 1 .. Len(t) : Append(t, m)[i] = t[i]
      /\ Append(t, m)[Len(t) + 1] = m
  BY <1>4, <1>5, AppendProperties
<1>7. \A v \in Workers : HeldBy(v)' \subseteq HeldBy(v) \cup {m}
  <2> SUFFICES ASSUME NEW v \in Workers, NEW x \in HeldBy(v)' PROVE x \in HeldBy(v) \cup {m}
    OBVIOUS
  <2>1. CASE \E q \in Processors : tag[v][q] # NoMessage /\ x = tag[v][q]
    BY <2>1 DEF HeldBy
  <2>2. ASSUME NEW i \in 1 .. Len(tagsChan'[v]), x = tagsChan'[v][i]
        PROVE  x \in HeldBy(v) \cup {m}
    <3>1. CASE v # w
      BY <1>5, <2>2, <3>1 DEF HeldBy
    <3>2. CASE v = w /\ i = Len(t) + 1
      BY <1>5, <1>6, <2>2, <3>2
    <3>3. CASE v = w /\ i # Len(t) + 1
      <4>1. tagsChan'[v] = Append(t, m)
        BY <1>5, <3>3
      <4>2. i \in 1 .. Len(t) + 1
        BY <1>6, <2>2, <4>1
      <4>3. i \in 1 .. Len(t)
        BY <1>5, <3>3, <4>2
      <4>4. x = t[i]
        BY <1>6, <2>2, <4>1, <4>3
      <4> QED
        BY <3>3, <4>3, <4>4 DEF HeldBy
    <3> QED
      BY <3>1, <3>2, <3>3
  <2> QED
    BY <1>2, <2>1, <2>2 DEF HeldBy
<1>8. AccountedDelivered'
  <2> SUFFICES ASSUME NEW x \in Message, Accounted(x)' PROVE deliveries'[x] > 0
    BY DEF AccountedDelivered
  <2>1. x = m \/ Accounted(x)
    BY <1>2, <1>7 DEF Accounted
  <2>2. x = m \/ deliveries[x] > 0
    BY <2>1 DEF QInv, AccountedDelivered
  <2> HIDE DEF m
  <2> QED
    BY <1>5, <2>2
<1> QED
  BY <1>3, <1>8 DEF QInv

LEMMA ProcessQueue ==
    ASSUME QInv, DInv', NEW w \in Workers, NEW q \in Processors, Process(w, q)
    PROVE  QInv'
<1>1. TypeOK
  BY DEF QInv, DInv, IInv
<1>2. UNCHANGED <<kafkaVars, session, claimVars, deliveries, lost>>
  BY DEF Process, Take, Finish, endVars
<1>3. SendsTags' /\ CommitsBehind'
  BY <1>2, SendsTagsKept, CommitsBehindKept
     DEF QInv, DInv, Owns, IsMember, kafkaVars, claimVars
<1>4. \A v \in Workers : v # w => tagsChan'[v] = tagsChan[v] /\ tag'[v] = tag[v]
  BY <1>1 DEF Process, Take, Finish, TypeOK
<1>5. /\ HeldBy(w)' \subseteq HeldBy(w)
      /\ finished' \subseteq finished \cup HeldBy(w)
  <2>1. CASE Take(w, q)
    <3> DEFINE t == tagsChan[w]
    <3>1. /\ t \in Seq(Message) /\ t # <<>> /\ finished' = finished
          /\ tagsChan'[w] = Tail(t)
          /\ \A r \in Processors : tag'[w][r] = IF r = q THEN Head(t) ELSE tag[w][r]
      BY <1>1, <2>1 DEF Take, TypeOK
    <3>2. /\ Head(t) = t[1] /\ Len(t) \in Nat \ {0}
          /\ Len(Tail(t)) = Len(t) - 1
          /\ \A i \in 1 .. Len(Tail(t)) : Tail(t)[i] = t[i + 1]
      BY <3>1, HeadTailProperties, EmptySeq
    <3>3. \A i \in 1 .. Len(Tail(t)) : i + 1 \in 1 .. Len(t)
      BY <3>2
    <3>4. \A i \in 1 .. Len(tagsChan'[w]) : tagsChan'[w][i] \in HeldBy(w)
      BY <3>1, <3>2, <3>3 DEF HeldBy
    <3>5. \A r \in Processors : tag'[w][r] # NoMessage => tag'[w][r] \in HeldBy(w)
      <4>1. t[1] \in HeldBy(w)
        BY <3>2 DEF HeldBy
      <4> QED
        BY <3>1, <3>2, <4>1 DEF HeldBy
    <3> QED
      BY <3>1, <3>4, <3>5 DEF HeldBy
  <2>2. CASE Finish(w, q)
    <3>1. /\ tagsChan' = tagsChan /\ tag[w][q] # NoMessage
          /\ finished' = finished \cup {tag[w][q]}
          /\ \A r \in Processors : tag'[w][r] = IF r = q THEN NoMessage ELSE tag[w][r]
      BY <1>1, <2>2 DEF Finish, TypeOK
    <3> QED
      BY <3>1 DEF HeldBy
  <2> QED
    BY <2>1, <2>2 DEF Process
<1>6. \A m \in Message : Accounted(m)' => Accounted(m)
  <2>1. \A v \in Workers : HeldBy(v)' \subseteq HeldBy(v)
    BY <1>4, <1>5 DEF HeldBy
  <2> QED
    BY <1>2, <1>5, <2>1 DEF Accounted
<1> QED
  BY <1>1, <1>2, <1>3, <1>6, DeliveredStay DEF QInv

LEMMA QueueInvariant == QInv /\ [Next]_vars => QInv'
<1> SUFFICES ASSUME QInv, [Next]_vars PROVE QInv'
  OBVIOUS
<1>0. DInv' /\ TypeOK
  BY DeliveryInvariant DEF QInv, DInv, IInv
<1>1. ASSUME NEW p \in Partitions, NEW kind \in Kinds, Produce(p, kind) PROVE QInv'
  <2>1. /\ Len(log[p]) \in Nat
        /\ \A o \in 1 .. Len(log[p]) : Append(log[p], kind)[o] = log[p][o]
    BY <1>0, LogType, SizesAssumption, AppendProperties
  <2>2. \A r \in Partitions : \A o \in 1 .. Len(log[r]) : log'[r][o] = log[r][o]
    BY <1>0, <1>1, <2>1 DEF Produce, TypeOK
  <2> QED
    BY <1>0, <1>1, <2>2, QuietQueue DEF Produce, IsMember, endVars
<1>2. CASE Assign
  BY <1>0, <1>2, AssignQueue
<1>3. ASSUME NEW w \in Workers, Start(w) \/ Rebalance(w) PROVE QInv'
  <2>1. \A v \in Workers : IsMember(v)' => IsMember(v)
    BY <1>0, <1>3 DEF TypeOK, Start, Rebalance, IsMember
  <2> QED
    BY <1>0, <1>3, <2>1, QuietQueue DEF Start, Rebalance, kafkaVars, endVars
<1>4. ASSUME NEW w \in Workers, AutoCommit(w) \/ Rejoin(w) PROVE QInv'
  BY <1>0, <1>4, CommitQueue
<1>5. ASSUME NEW w \in Workers,
             Expel(w) \/ Crash(w) \/ \E p \in Partitions : ReceiveNil(w, p)
      PROVE  QInv'
  BY <1>0, <1>5, LeaveQueue
<1>6. ASSUME NEW w \in Workers, NEW p \in Partitions, ConsumeClaim(w, p) PROVE QInv'
  BY <1>0, <1>6, ReceiveQueue, SendQueue, MarkQueue DEF ConsumeClaim
<1>7. ASSUME NEW w \in Workers, NEW q \in Processors, Process(w, q) PROVE QInv'
  BY <1>0, <1>7, ProcessQueue
<1>8. CASE UNCHANGED vars
  BY <1>0, <1>8, QuietQueue DEF vars, kafkaVars, endVars, IsMember
<1> QED
  BY <1>1, <1>2, <1>3, <1>4, <1>5, <1>6, <1>7, <1>8 DEF Next, Consume

\* Queue's own Cardinality is the one of the library.
LEMMA QueueCardinality == \A S : Queue!Cardinality(S) = Cardinality(S)
BY DEF Queue!Cardinality, Cardinality, Queue!IsFiniteSet, IsFiniteSet

\* A function takes no more values than it has arguments.
LEMMA ImageFits ==
    ASSUME NEW f, NEW S, IsFiniteSet(S)
    PROVE  /\ IsFiniteSet({f[x] : x \in S})
           /\ Cardinality({f[x] : x \in S}) <= Cardinality(S)
<1> DEFINE T == {f[x] : x \in S}
           g == [x \in S |-> f[x]]
<1>1. g \in Surjection(S, T)
  BY DEF Surjection
<1> HIDE DEF g, T
<1>2. IsFiniteSet(T) /\ Cardinality(T) <= Cardinality(S)
  BY <1>1, FS_Surjection
<1> QED
  BY <1>2 DEF T

\* A process holds no more than its channel and its processors have room for.
LEMMA HeldFits ==
    ASSUME TypeOK, NEW w \in Workers
    PROVE  Cardinality(HeldBy(w)) <= ChanSize + Cardinality(Processors)
<1> DEFINE I == 1 .. Len(tagsChan[w])
           Q == {q \in Processors : tag[w][q] # NoMessage}
           A == {tagsChan[w][i] : i \in I}
           B == {tag[w][q] : q \in Q}
           c == Cardinality(Processors)
<1>1. Len(tagsChan[w]) \in Nat /\ Len(tagsChan[w]) <= ChanSize
  BY LenProperties DEF TypeOK
<1>2. IsFiniteSet(I) /\ Cardinality(I) = Len(tagsChan[w])
  <2>1. \A n \in Nat : IsFiniteSet(1 .. n) /\ Cardinality(1 .. n) = n
    BY FS_Interval
  <2> QED
    BY <1>1, <2>1
<1>3. /\ IsFiniteSet(Q) /\ Cardinality(Q) \in Nat
      /\ Cardinality(Q) <= c /\ c \in Nat
  BY WorkersAssumption, FS_Subset, FS_CardinalityType
<1> HIDE DEF I, Q
<1>4. IsFiniteSet(A) /\ Cardinality(A) <= Cardinality(I)
  BY <1>2, ImageFits
<1>5. IsFiniteSet(B) /\ Cardinality(B) <= Cardinality(Q)
  BY <1>3, ImageFits
<1>6. HeldBy(w) = A \cup B
  BY DEF HeldBy, I, Q
<1> HIDE DEF A, B, c
<1>7. /\ Cardinality(A) \in Nat /\ Cardinality(B) \in Nat
      /\ Cardinality(A \cap B) \in Nat
      /\ Cardinality(A \cup B) = Cardinality(A) + Cardinality(B) - Cardinality(A \cap B)
  <2>1. IsFiniteSet(A \cap B)
    BY <1>4, FS_Intersection
  <2> QED
    BY <1>4, <1>5, <2>1, FS_Union, FS_CardinalityType
<1>8. Cardinality(HeldBy(w)) <= ChanSize + c
  BY <1>1, <1>2, <1>3, <1>4, <1>5, <1>6, <1>7, SizesAssumption
<1> QED
  BY <1>8 DEF c

LEMMA QueueMessages == Queue!Message = Message
BY DEF Queue!Message, Message

LEMMA QueueInit == Init => Queue!Init
BY QueueMessages DEF Init, Queue!Init

\* What a worker holds was delivered.
LEMMA HeldDelivered ==
    ASSUME QInv, NEW w \in Workers
    PROVE  HeldBy(w) \subseteq Queue!Delivered
<1> SUFFICES ASSUME NEW m \in HeldBy(w) PROVE m \in Queue!Delivered
  OBVIOUS
<1>1. m \in Message /\ Accounted(m)
  BY HeldIsMessage DEF QInv, DInv, IInv, Accounted
<1> QED
  BY <1>1, QueueMessages DEF QInv, AccountedDelivered, Queue!Delivered

LEMMA SendRefines ==
    ASSUME QInv, DInv', NEW w \in Workers, NEW p \in Partitions, Send(w, p)
    PROVE  Queue!Next
<1> DEFINE n == next[w][p]
           m == <<p, n>>
<1>1. TypeOK /\ at[w][p] = "send" /\ n <= Len(log[p]) /\ log[p][n] = "tag"
  BY DEF Send, QInv, DInv, IInv, SendsTags, OnMessage
<1>2. n \in 1 .. MaxMessages /\ m \in Message
  BY <1>1, NextType, LogType, SizesAssumption DEF Message
<1>3. /\ deliveries' = [deliveries EXCEPT ![m] = @ + 1]
      /\ UNCHANGED <<log, committed, finished, lost, panics, faults>>
  BY DEF Send, kafkaVars, endVars
<1>4. PICK x \in Message : x = m
  BY <1>2
<1>5. deliveries[x] <= panics + faults
  <2> DEFINE d == deliveries[x]
             c == Cardinality(Late(x)')
             u == Due(x)'
             e == Ends
  <2>1. d \in Nat /\ deliveries'[x] = d + 1
    BY <1>1, <1>3, <1>4 DEF TypeOK
  <2>2. IInv' /\ Balance(x)'
    BY DEF DInv
  <2>3. c \in Nat /\ u \in {0, 1} /\ e \in Nat
    BY <1>1, <2>2, BalanceTypeAfter, EndsType
  <2>4. Ends' = e
    BY <1>3 DEF Ends
  <2>5. deliveries'[x] + c + u <= 1 + Ends'
    BY <2>2 DEF Balance
  <2> HIDE DEF d, c, u, e
  <2>6. d + 1 + c + u <= 1 + e
    BY <2>1, <2>4, <2>5
  <2>7. d <= e
    BY <2>1, <2>3, <2>6
  <2> QED
    BY <2>7 DEF d, e, Ends
<1>6. Queue!Deliver(p, n)
  BY <1>1, <1>3, <1>4, <1>5 DEF Queue!Deliver, Queue!IsTag
<1> QED
  BY <1>2, <1>6 DEF Queue!Next

LEMMA CommitRefines ==
    ASSUME QInv, QInv', NEW w \in Workers, AutoCommit(w) \/ Rejoin(w)
    PROVE  Queue!Next
<1>1. TypeOK /\ TypeOK'
  BY DEF QInv, DInv, IInv
<1>2. /\ CommitMarks(w)
      /\ UNCHANGED <<log, deliveries, finished, lost, panics, faults>>
  BY DEF AutoCommit, Rejoin, processorVars, endVars
<1>3. ASSUME NEW p \in Partitions PROVE Queue!MayCommit(p, committed'[p])
  <2>1. committed[p] <= committed'[p]
    <3>1. CASE Owns(w, p)
      BY <1>2, <3>1 DEF QInv, CommitsBehind, CommitMarks, Owns
    <3>2. CASE ~ Owns(w, p)
      <4>1. committed'[p] = committed[p] /\ committed[p] \in Nat
        BY <1>1, <1>2, <3>2, SizesAssumption DEF CommitMarks, Owns, TypeOK
      <4> QED
        BY <4>1
    <3> QED
      BY <3>1, <3>2
  <2>2. /\ committed'[p] \in Nat
        /\ committed'[p] <= Len(log[p]) /\ Len(log[p]) \in 0 .. MaxMessages
        /\ MaxMessages \in Nat
        /\ \A o \in 1 .. committed'[p] : log[p][o] = "tag" => Accounted(<<p, o>>)'
    BY <1>1, <1>2, LogType, SizesAssumption
       DEF QInv, DInv, IInv, CommitsHandled, Handled, TypeOK
  <2>3. ASSUME NEW o \in 1 .. committed'[p], log[p][o] = "tag"
        PROVE  <<p, o>> \in Queue!Delivered
    <3>1. <<p, o>> \in Message
      BY <2>2 DEF Message
    <3>2. deliveries'[<<p, o>>] > 0
      BY <2>2, <2>3, <3>1 DEF QInv, AccountedDelivered
    <3> QED
      BY <1>2, <3>1, <3>2, QueueMessages DEF Queue!Delivered
  <2> QED
    BY <2>1, <2>2, <2>3 DEF Queue!MayCommit
<1>4. Queue!Commit
  BY <1>1, <1>2, <1>3 DEF TypeOK, Queue!Commit
<1> QED
  BY <1>4 DEF Queue!Next

LEMMA LeaveRefines ==
    ASSUME QInv, NEW w \in Workers,
           Expel(w) \/ Crash(w) \/ \E p \in Partitions : ReceiveNil(w, p)
    PROVE  Queue!Next
<1>1. TypeOK /\ panics \in Nat /\ faults \in Nat
  BY DEF QInv, DInv, IInv, TypeOK
<1>2. /\ panics' + faults' = (panics + faults) + 1
      /\ UNCHANGED <<log, committed, deliveries, finished>>
      /\ lost' \in {lost, lost \cup HeldBy(w)}
  BY <1>1 DEF Expel, Crash, ReceiveNil, EndProcess, processorVars
<1>3. PICK L \in SUBSET HeldBy(w) :
        lost' = lost \cup L /\ Cardinality(L) <= ChanSize + Cardinality(Processors)
  <2>1. Cardinality({}) = 0 /\ Cardinality(Processors) \in Nat
    BY FS_EmptySet, WorkersAssumption, FS_CardinalityType
  <2>2. Cardinality({}) <= ChanSize + Cardinality(Processors)
    BY <2>1, SizesAssumption
  <2>3. CASE lost' = lost
    BY <2>2, <2>3
  <2>4. CASE lost' = lost \cup HeldBy(w)
    BY <1>1, <2>4, HeldFits
  <2> QED
    BY <1>2, <2>3, <2>4
<1>4. L \in SUBSET Queue!Delivered
  BY HeldDelivered
<1>5. Queue!End(L)
  BY <1>2, <1>3, QueueCardinality DEF Queue!End
<1> QED
  BY <1>4, <1>5 DEF Queue!Next

LEMMA FinishRefines ==
    ASSUME QInv, NEW w \in Workers, NEW q \in Processors, Finish(w, q)
    PROVE  Queue!Next
<1>1. tag[w][q] \in HeldBy(w)
  BY DEF Finish, HeldBy
<1>2. tag[w][q] \in Queue!Delivered /\ tag[w][q] \in Queue!Message
  BY <1>1, HeldDelivered DEF Queue!Delivered
<1>3. Queue!Finish(tag[w][q])
  BY <1>2 DEF Finish, Queue!Finish, kafkaVars, endVars
<1> QED
  BY <1>2, <1>3 DEF Queue!Next

LEMMA QueueStep == QInv /\ [Next]_vars => [Queue!Next]_(Queue!vars)
<1> SUFFICES ASSUME QInv, [Next]_vars
             PROVE  [Queue!Next]_(Queue!vars)
  OBVIOUS
<1>0. QInv' /\ DInv'
  BY QueueInvariant DEF QInv
<1>1. ASSUME NEW p \in Partitions, NEW kind \in Kinds, Produce(p, kind) PROVE Queue!Next
  <2>1. Queue!Produce(p, kind)
    BY <1>1 DEF Produce, Queue!Produce, processorVars, endVars
  <2> QED
    BY <2>1 DEF Kinds, Queue!Next
<1>2. CASE Assign
  BY <1>2 DEF Assign, Queue!vars, processorVars, endVars
<1>3. ASSUME NEW w \in Workers, Start(w) \/ Rebalance(w) PROVE UNCHANGED Queue!vars
  BY <1>3 DEF Start, Rebalance, Queue!vars, kafkaVars, processorVars, endVars
<1>4. ASSUME NEW w \in Workers, AutoCommit(w) \/ Rejoin(w) PROVE Queue!Next
  BY <1>0, <1>4, CommitRefines
<1>5. ASSUME NEW w \in Workers,
             Expel(w) \/ Crash(w) \/ \E p \in Partitions : ReceiveNil(w, p)
      PROVE  Queue!Next
  BY <1>5, LeaveRefines
<1>6. ASSUME NEW w \in Workers, NEW p \in Partitions, Send(w, p) PROVE Queue!Next
  BY <1>0, <1>6, SendRefines
<1>7. ASSUME NEW w \in Workers, NEW p \in Partitions,
             Receive(w, p) \/ Mark(w, p) \/ Return(w, p)
      PROVE  UNCHANGED Queue!vars
  BY <1>7 DEF Receive, Mark, Return, Queue!vars, kafkaVars, processorVars, endVars
<1>8. ASSUME NEW w \in Workers, NEW q \in Processors, Take(w, q) PROVE UNCHANGED Queue!vars
  BY <1>8 DEF Take, Queue!vars, kafkaVars, endVars
<1>9. ASSUME NEW w \in Workers, NEW q \in Processors, Finish(w, q) PROVE Queue!Next
  BY <1>9, FinishRefines
<1>10. CASE UNCHANGED vars
  BY <1>10 DEF vars, Queue!vars, kafkaVars, processorVars, endVars
<1> QED
  BY <1>1, <1>2, <1>3, <1>4, <1>5, <1>6, <1>7, <1>8, <1>9, <1>10
     DEF Next, Consume, ConsumeClaim, Process

(***************************************************************************)
(* The workers implement TagQueue, whatever rebalances, expulsions and     *)
(* ends of processes there are: offsets only grow and cover delivered tags *)
(* only, deliveries are as few as the ends allow, and an end loses no more *)
(* than one process holds (consumer.go:83-99, worker.go:34-44).            *)
(***************************************************************************)
THEOREM TagQueueImplemented == Spec => ImplementsTagQueue
<1>1. Init => QInv /\ Queue!Init
  BY InitQueue, QueueInit
<1>2. QInv /\ [Next]_vars => QInv'
  BY QueueInvariant
<1>3. QInv /\ [Next]_vars => [Queue!Next]_(Queue!vars)
  BY QueueStep
<1> QED
  BY <1>1, <1>2, <1>3, PTL DEF Spec, ImplementsTagQueue, Queue!Spec
=============================================================================
