------------------------------ MODULE TagQueue ------------------------------
(***************************************************************************)
(* What the workers promise about the messages of the topic.  A tag is     *)
(* delivered to the processors at least once before it is committed, once  *)
(* at most for each session that was cut short and once more; a malformed  *)
(* message is never delivered.  Tags that were delivered get finished, or  *)
(* are lost when a process ends, Capacity of them at most each time.       *)
(***************************************************************************)
EXTENDS Integers, Sequences, FiniteSets

CONSTANTS
    Partitions,     \* the partitions of the topic
    MaxMessages,    \* bound on the messages of a partition
    Capacity        \* how many tags a process may hold

VARIABLES
    log,            \* log[p]: the kinds of the messages of partition p
    committed,      \* committed[p]: how many messages of p are committed
    deliveries,     \* deliveries[m]: how often m was delivered
    finished,       \* messages that processors are done with
    lost,           \* messages that were lost with a process
    ends            \* processes that ended and sessions that were cut short so far

vars == <<log, committed, deliveries, finished, lost, ends>>

Message == Partitions \X (1 .. MaxMessages)

IsTag(p, o) == o <= Len(log[p]) /\ log[p][o] = "tag"

Delivered == {m \in Message : deliveries[m] > 0}

Init ==
    /\ log = [p \in Partitions |-> <<>>]
    /\ committed = [p \in Partitions |-> 0]
    /\ deliveries = [m \in Message |-> 0]
    /\ finished = {} /\ lost = {}
    /\ ends = 0

Produce(p, kind) ==
    /\ log' = [log EXCEPT ![p] = Append(@, kind)]
    /\ UNCHANGED <<committed, deliveries, finished, lost, ends>>

Deliver(p, o) ==
    /\ IsTag(p, o)
    /\ deliveries[<<p, o>>] <= ends
    /\ deliveries' = [deliveries EXCEPT ![<<p, o>>] = @ + 1]
    /\ UNCHANGED <<log, committed, finished, lost, ends>>

\* The offset of partition p may go as far as all tags below it are delivered.
MayCommit(p, n) ==
    /\ committed[p] <= n /\ n <= Len(log[p])
    /\ \A o \in 1 .. n : log[p][o] = "tag" => <<p, o>> \in Delivered

Commit ==
    /\ committed' \in [Partitions -> 0 .. MaxMessages]
    /\ \A p \in Partitions : MayCommit(p, committed'[p])
    /\ UNCHANGED <<log, deliveries, finished, lost, ends>>

Finish(m) ==
    /\ m \in Delivered
    /\ finished' = finished \cup {m}
    /\ UNCHANGED <<log, committed, deliveries, lost, ends>>

End(L) ==
    /\ Cardinality(L) <= Capacity
    /\ lost' = lost \cup L
    /\ ends' = ends + 1
    /\ UNCHANGED <<log, committed, deliveries, finished>>

Next ==
    \/ \E p \in Partitions, kind \in {"tag", "malformed"} : Produce(p, kind)
    \/ \E p \in Partitions, o \in 1 .. MaxMessages : Deliver(p, o)
    \/ Commit
    \/ \E m \in Message : Finish(m)
    \/ \E L \in SUBSET Delivered : End(L)

Spec == Init /\ [][Next]_vars
=============================================================================
