------------------------------- MODULE Worker -------------------------------
(***************************************************************************)
(* The workers and their Kafka consumer group: pkg/messaging/consumer.go,  *)
(* cmd/worker/worker/worker.go and main.go.                                *)
(*                                                                         *)
(* Kafka keeps the tags in partitions and shares these among the workers   *)
(* that have joined the group.  A worker's Consume loop holds a session at *)
(* a time; in it a goroutine per claimed partition (ConsumeClaim) receives *)
(* the messages, sends the tags to the channel of the worker and marks     *)
(* them.  Marks are committed now and then, and at the end of the session. *)
(* Processors take the tags from the channel; what they do with them is    *)
(* the matter of Aggregates.                                               *)
(*                                                                         *)
(* A session ends when a worker joins or is missing.  Its context is done  *)
(* and its claims close their channels of messages, in an order the        *)
(* goroutines cannot tell: they may still receive messages, see that the   *)
(* context is done, or receive nil, which ends the whole process.  A       *)
(* worker that takes too long to leave its session is expelled from the    *)
(* group and its marks are refused.                                        *)
(*                                                                         *)
(* Kafka and the sarama client are modelled from how the code uses them.   *)
(***************************************************************************)
EXTENDS Integers, Sequences, FiniteSets

CONSTANTS
    Workers,        \* the worker replicas
    Partitions,     \* the partitions of the topic
    Processors,     \* the processors of one worker (numProcessors)
    ChanSize,       \* capacity of the channel of tags (chanSize)
    MaxMessages,    \* bound on the messages of a partition
    MaxFaults       \* bound on the ends of processes and expulsions

ASSUME WorkersAssumption == IsFiniteSet(Workers) /\ IsFiniteSet(Processors)
ASSUME SizesAssumption == ChanSize \in Nat /\ MaxMessages \in Nat /\ MaxFaults \in Nat

VARIABLES
    log,            \* log[p]: the kinds of the messages of partition p
    committed,      \* committed[p]: how many messages of p are committed
    owner,          \* owner[p]: the worker partition p is assigned to
    session,        \* session[w]: where the Consume loop of worker w is
    at,             \* at[w][p]: where the ConsumeClaim of w for p is
    next,           \* next[w][p]: the message it receives next, or works on
    marked,         \* marked[w][p]: the last message it marked
    tagsChan,       \* tagsChan[w]: the channel of tags of worker w
    tag,            \* tag[w][q]: the message processor q works on
    deliveries,     \* history: how often a message was sent to a channel
    finished,       \* history: messages that processors are done with
    lost,           \* history: messages that ended with their process
    panics,         \* processes ended by a nil message so far
    faults          \* processes ended otherwise, and expulsions, so far

kafkaVars == <<log, committed, owner>>
claimVars == <<at, next, marked>>
processorVars == <<tagsChan, tag, finished>>
endVars == <<lost, panics, faults>>
vars == <<kafkaVars, session, claimVars, processorVars, deliveries, endVars>>

Kinds == {"tag", "malformed"}       \* a malformed message does not unmarshal

Message == Partitions \X (1 .. MaxMessages)

NoMessage == <<>>

NoWorker == "none"

ASSUME NoWorkerAssumption == NoWorker \notin Workers

Sessions == {"down", "joining", "running", "ending", "expelled"}

ClaimSteps == {"none", "select", "send", "mark", "done"}

TypeOK ==
    /\ log \in [Partitions -> Seq(Kinds)]
    /\ \A p \in Partitions : Len(log[p]) <= MaxMessages
    /\ committed \in [Partitions -> 0 .. MaxMessages]
    /\ owner \in [Partitions -> Workers \cup {NoWorker}]
    /\ session \in [Workers -> Sessions]
    /\ at \in [Workers -> [Partitions -> ClaimSteps]]
    /\ next \in [Workers -> [Partitions -> 1 .. MaxMessages + 1]]
    /\ marked \in [Workers -> [Partitions -> 0 .. MaxMessages]]
    /\ tagsChan \in [Workers -> Seq(Message)]
    /\ \A w \in Workers : Len(tagsChan[w]) <= ChanSize
    /\ tag \in [Workers -> [Processors -> Message \cup {NoMessage}]]
    /\ deliveries \in [Message -> Nat]
    /\ finished \in SUBSET Message
    /\ lost \in SUBSET Message
    /\ panics \in Nat
    /\ faults \in Nat

Idle == [q \in Processors |-> NoMessage]

NoClaims == [p \in Partitions |-> "none"]

Init ==
    /\ log = [p \in Partitions |-> <<>>]
    /\ committed = [p \in Partitions |-> 0]
    /\ owner = [p \in Partitions |-> NoWorker]
    /\ session = [w \in Workers |-> "down"]
    /\ at = [w \in Workers |-> NoClaims]
    /\ next = [w \in Workers |-> [p \in Partitions |-> 1]]
    /\ marked = [w \in Workers |-> [p \in Partitions |-> 0]]
    /\ tagsChan = [w \in Workers |-> <<>>]
    /\ tag = [w \in Workers |-> Idle]
    /\ deliveries = [m \in Message |-> 0]
    /\ finished = {}
    /\ lost = {}
    /\ panics = 0
    /\ faults = 0

-----------------------------------------------------------------------------
(* Parts of the steps.                                                     *)

\* The messages worker w has in its channel or in a processor.
HeldBy(w) ==
    {tagsChan[w][i] : i \in 1 .. Len(tagsChan[w])}
        \cup {tag[w][q] : q \in {q \in Processors : tag[w][q] # NoMessage}}

Claim(w, p, step, n, k) ==
    /\ at' = [at EXCEPT ![w][p] = step]
    /\ next' = [next EXCEPT ![w][p] = n]
    /\ marked' = [marked EXCEPT ![w][p] = k]

Goto(w, p, step) == Claim(w, p, step, next[w][p], marked[w][p])

\* The group takes commits of its members only.
IsMember(w) == session[w] \in {"running", "ending"}

CommitMarks(w) ==
    committed' = [p \in Partitions |->
                    IF owner[p] = w /\ IsMember(w) THEN marked[w][p] ELSE committed[p]]

Disown(w) == owner' = [p \in Partitions |-> IF owner[p] = w THEN NoWorker ELSE owner[p]]

\* The context of the session is done, and the claims close their channels.
SessionDone(w) == session[w] \in {"ending", "expelled"}

MayEnd == panics + faults < MaxFaults

\* The process of worker w ends, with all it holds in memory.
EndProcess(w) ==
    /\ session' = [session EXCEPT ![w] = "down"]
    /\ at' = [at EXCEPT ![w] = NoClaims]
    /\ tagsChan' = [tagsChan EXCEPT ![w] = <<>>]
    /\ tag' = [tag EXCEPT ![w] = Idle]
    /\ lost' = lost \cup HeldBy(w)
    /\ Disown(w)
    /\ UNCHANGED <<log, committed, next, marked, finished, deliveries>>

-----------------------------------------------------------------------------
(* Kafka.                                                                  *)

\* The producer of an API replica sends a message to some partition.
Produce(p, kind) ==
    /\ Len(log[p]) < MaxMessages
    /\ log' = [log EXCEPT ![p] = Append(@, kind)]
    /\ UNCHANGED <<committed, owner, session, claimVars, processorVars, deliveries, endVars>>

\* All members have joined and the partitions are shared out among them.
Assign ==
    LET Joined == {w \in Workers : session[w] = "joining"}
    IN  /\ Joined # {}
        /\ \A w \in Workers : ~ IsMember(w)
        /\ owner' \in [Partitions -> Joined]
        /\ session' = [w \in Workers |-> IF w \in Joined THEN "running" ELSE session[w]]
        /\ at' = [w \in Workers |-> [p \in Partitions |->
                    IF owner'[p] = w THEN "select" ELSE at[w][p]]]
        /\ next' = [w \in Workers |-> [p \in Partitions |->
                    IF owner'[p] = w THEN committed[p] + 1 ELSE next[w][p]]]
        /\ marked' = [w \in Workers |-> [p \in Partitions |->
                    IF owner'[p] = w THEN committed[p] ELSE marked[w][p]]]
        /\ UNCHANGED <<log, committed, processorVars, deliveries, endVars>>

\* A heartbeat tells worker w that the partitions are to be shared out anew.
Rebalance(w) ==
    /\ session[w] = "running"
    /\ \/ \E v \in Workers : session[v] = "joining"
       \/ \E p \in Partitions : owner[p] = NoWorker
    /\ session' = [session EXCEPT ![w] = "ending"]
    /\ UNCHANGED <<kafkaVars, claimVars, processorVars, deliveries, endVars>>

\* Worker w does not leave its session, or send heartbeats, in time; or the last commit
\* of its session fails, when it is ending.
Expel(w) ==
    /\ IsMember(w)
    /\ MayEnd
    /\ faults' = faults + 1
    /\ session' = [session EXCEPT ![w] = "expelled"]
    /\ Disown(w)
    /\ UNCHANGED <<log, committed, claimVars, processorVars, deliveries, lost, panics>>

\* The marks are committed automatically.
AutoCommit(w) ==
    /\ IsMember(w)
    /\ CommitMarks(w)
    /\ UNCHANGED <<log, owner, session, claimVars, processorVars, deliveries, endVars>>

-----------------------------------------------------------------------------
(* Run and Consume.                                                        *)

Start(w) ==
    /\ session[w] = "down"
    /\ session' = [session EXCEPT ![w] = "joining"]
    /\ UNCHANGED <<kafkaVars, claimVars, processorVars, deliveries, endVars>>

\* Seeded defect: Consume is called once only.
RejoinNever(w) ==
    /\ SessionDone(w)
    /\ \A p \in Partitions : at[w][p] \in {"none", "done"}
    /\ CommitMarks(w)
    /\ session' = session
    /\ at' = [at EXCEPT ![w] = NoClaims]
    /\ UNCHANGED <<log, owner, next, marked, processorVars, deliveries, endVars>>

\* All ConsumeClaim goroutines of the session have returned: its marks are committed,
\* and the loop calls Consume again, which joins the group.
Rejoin(w) ==
    /\ SessionDone(w)
    /\ \A p \in Partitions : at[w][p] \in {"none", "done"}
    /\ CommitMarks(w)
    /\ session' = [session EXCEPT ![w] = "joining"]
    /\ at' = [at EXCEPT ![w] = NoClaims]
    /\ UNCHANGED <<log, owner, next, marked, processorVars, deliveries, endVars>>

\* The process is killed, or Consume returns an error, which is fatal.
Crash(w) ==
    /\ session[w] # "down"
    /\ MayEnd
    /\ faults' = faults + 1
    /\ EndProcess(w)
    /\ UNCHANGED panics

-----------------------------------------------------------------------------
(* ConsumeClaim.                                                           *)

\* Seeded defect: a message is marked before it is sent.
ReceiveMarks(w, p) ==
    LET n == next[w][p]
    IN  /\ at[w][p] = "select"
        /\ n <= Len(log[p])
        /\ IF log[p][n] = "malformed"
             THEN Claim(w, p, "select", n + 1, marked[w][p])
             ELSE Claim(w, p, "send", n, n)
        /\ UNCHANGED <<kafkaVars, session, processorVars, deliveries, endVars>>

\* A malformed message is skipped.
Receive(w, p) ==
    LET n == next[w][p]
    IN  /\ at[w][p] = "select"
        /\ n <= Len(log[p])
        /\ IF log[p][n] = "malformed"
             THEN Claim(w, p, "select", n + 1, marked[w][p])
             ELSE Goto(w, p, "send")
        /\ UNCHANGED <<kafkaVars, session, processorVars, deliveries, endVars>>

\* The closed channel of messages yields nil, and reading its key panics.
ReceiveNil(w, p) ==
    /\ at[w][p] = "select"
    /\ SessionDone(w)
    /\ MayEnd
    /\ panics' = panics + 1
    /\ EndProcess(w)
    /\ UNCHANGED faults

\* Seeded defect: the channel is not bounded.
SendUnbounded(w, p) ==
    LET m == <<p, next[w][p]>>
    IN  /\ at[w][p] = "send"
        /\ tagsChan' = [tagsChan EXCEPT ![w] = Append(@, m)]
        /\ deliveries' = [deliveries EXCEPT ![m] = @ + 1]
        /\ Goto(w, p, "mark")
        /\ UNCHANGED <<kafkaVars, session, tag, finished, endVars>>

Send(w, p) ==
    LET m == <<p, next[w][p]>>
    IN  /\ at[w][p] = "send"
        /\ Len(tagsChan[w]) < ChanSize
        /\ tagsChan' = [tagsChan EXCEPT ![w] = Append(@, m)]
        /\ deliveries' = [deliveries EXCEPT ![m] = @ + 1]
        /\ Goto(w, p, "mark")
        /\ UNCHANGED <<kafkaVars, session, tag, finished, endVars>>

\* Seeded defect: the message is not marked.
MarkNever(w, p) ==
    /\ at[w][p] = "mark"
    /\ Claim(w, p, "select", next[w][p] + 1, marked[w][p])
    /\ UNCHANGED <<kafkaVars, session, processorVars, deliveries, endVars>>

Mark(w, p) ==
    /\ at[w][p] = "mark"
    /\ Claim(w, p, "select", next[w][p] + 1, next[w][p])
    /\ UNCHANGED <<kafkaVars, session, processorVars, deliveries, endVars>>

\* Seeded defect: the loop goes on after the end of the session.
ReturnNever(w, p) ==
    /\ at[w][p] = "select"
    /\ SessionDone(w)
    /\ UNCHANGED vars

\* The context of the session is done.
Return(w, p) ==
    /\ at[w][p] = "select"
    /\ SessionDone(w)
    /\ Goto(w, p, "done")
    /\ UNCHANGED <<kafkaVars, session, processorVars, deliveries, endVars>>

-----------------------------------------------------------------------------
(* runAggregatesProcessor.                                                 *)

Take(w, q) ==
    /\ tag[w][q] = NoMessage
    /\ tagsChan[w] # <<>>
    /\ tag' = [tag EXCEPT ![w][q] = Head(tagsChan[w])]
    /\ tagsChan' = [tagsChan EXCEPT ![w] = Tail(@)]
    /\ UNCHANGED <<kafkaVars, session, claimVars, finished, deliveries, endVars>>

\* The tag is added to the aggregates, or dropped after its backoff.
Finish(w, q) ==
    /\ tag[w][q] # NoMessage
    /\ finished' = finished \cup {tag[w][q]}
    /\ tag' = [tag EXCEPT ![w][q] = NoMessage]
    /\ UNCHANGED <<kafkaVars, session, claimVars, tagsChan, deliveries, endVars>>

-----------------------------------------------------------------------------
Consume(w) == Start(w) \/ Rebalance(w) \/ Rejoin(w)

ConsumeClaim(w, p) == Receive(w, p) \/ Send(w, p) \/ Mark(w, p) \/ Return(w, p)

Process(w, q) == Take(w, q) \/ Finish(w, q)

Next ==
    \/ \E p \in Partitions, kind \in Kinds : Produce(p, kind)
    \/ Assign
    \/ \E w \in Workers :
         \/ Consume(w)
         \/ AutoCommit(w)
         \/ Expel(w)
         \/ Crash(w)
         \/ \E p \in Partitions : ConsumeClaim(w, p) \/ ReceiveNil(w, p)
         \/ \E q \in Processors : Process(w, q)

Spec == Init /\ [][Next]_vars

\* Processes are restarted and their goroutines run, heartbeats are answered and joined
\* members get partitions.  When messages and the end of the session are both there to
\* be received, select picks either in the long run.
Fairness ==
    /\ WF_vars(Assign)
    /\ \A w \in Workers :
         /\ WF_vars(Consume(w))
         /\ \A p \in Partitions :
              /\ WF_vars(ConsumeClaim(w, p))
              /\ SF_vars(Return(w, p))
         /\ \A q \in Processors : WF_vars(Process(w, q))

FairSpec == Spec /\ Fairness

-----------------------------------------------------------------------------
(* Properties.                                                             *)

(***************************************************************************)
(* A committed tag is never forgotten: it is finished, in the channel or a *)
(* processor of some worker, or it was there when that worker's process    *)
(* ended.  Kafka will not deliver it again, so a tag may be committed only *)
(* once a worker holds it (consumer.go:83-99), across rebalances, refused  *)
(* commits and skipped messages.                                           *)
(***************************************************************************)
Accounted(m) == m \in finished \cup lost \/ \E w \in Workers : m \in HeldBy(w)

CommittedAccounted ==
    \A p \in Partitions : \A o \in 1 .. committed[p] :
        log[p][o] = "tag" => Accounted(<<p, o>>)

(***************************************************************************)
(* Rebalances alone do not deliver a tag twice: a tag is delivered once,   *)
(* and once more at most for every process that ended or was expelled      *)
(* (messaging/consumer_test.go expects every tag once).                    *)
(***************************************************************************)
DeliveredOnce == \A m \in Message : deliveries[m] <= 1 + panics + faults

(***************************************************************************)
(* The workers implement TagQueue: only tags are delivered, and no more    *)
(* often than DeliveredOnce says; offsets never go back, also when members *)
(* that were expelled come late with their marks, and never pass a tag     *)
(* that was not delivered; only the end of a process loses tags, and no    *)
(* more than its channel and its processors hold (consumer.go:83-99,       *)
(* worker.go:34-44).                                                       *)
(***************************************************************************)
Queue ==
    INSTANCE TagQueue WITH
        Capacity <- ChanSize + Cardinality(Processors),
        ends <- panics + faults

ImplementsTagQueue == Queue!Spec

(***************************************************************************)
(* Every tag is finished in the end, or was held by a process that ended:  *)
(* rebalances, expulsions and malformed messages do not strand it          *)
(* (consumer.go:49-62).                                                    *)
(***************************************************************************)
Produced(m) == m[2] <= Len(log[m[1]]) /\ log[m[1]][m[2]] = "tag"

TagsHandled == \A m \in Message : Produced(m) ~> m \in finished \cup lost

(***************************************************************************)
(* A rebalance comes to its end, although claims may be waiting for room   *)
(* in the channel when it begins (consumer.go:93): a worker that joins     *)
(* gets to run.                                                            *)
(***************************************************************************)
RebalancesEnd == \A w \in Workers : session[w] = "joining" ~> session[w] = "running"

(***************************************************************************)
(* "when a server-side rebalance happens, the consumer session will need   *)
(* to be recreated to get the new claims" (consumer.go:50-52): a session   *)
(* that ends for a rebalance is followed by the next one, unless a fault   *)
(* comes between.                                                          *)
(***************************************************************************)
SessionRecreated ==
    [][\A w \in Workers :
         session[w] = "ending" /\ session'[w] # "ending" /\ faults' = faults =>
             session'[w] = "joining"]_vars
=============================================================================
