----------------------------- MODULE Aggregates -----------------------------
(***************************************************************************)
(* The aggregates of one minute in Aerospike (pkg/db/aggregates.go) and    *)
(* the processors of all workers that add tags to them                     *)
(* (cmd/worker/worker/aggregatesProcessor.go).                             *)
(*                                                                         *)
(* A record holds, per action, one integer: the number of tags shifted by  *)
(* 48 bits plus the sum of their prices.  Adding a tag is an atomic add to *)
(* a record that exists (UPDATE_ONLY) or, when there is none, the creation *)
(* of the record with the values of this tag (CREATE_ONLY).  Between the   *)
(* two another processor may create the record, or it may expire.  A       *)
(* processor takes a tag, gets its three ids, adds it, and on any error    *)
(* waits and does it all again until its time is spent.                    *)
(*                                                                         *)
(* The stored integer is kept unwrapped; reading it takes it modulo the    *)
(* width of its two fields (DecodeSumAndCount), which is what 64-bit       *)
(* addition leaves.  The ids are abstracted to the key they make.          *)
(***************************************************************************)
EXTENDS Integers, FiniteSets

CONSTANTS
    Keys,           \* the aggregate keys of the minute
    Actions,        \* the kinds of tags: views and buys
    Prices,         \* the prices of tags
    Processors,     \* the processors of all workers
    SumWidth,       \* 2^48: the values the field of the sum can hold
    CountWidth,     \* 2^16: the values the field of the count can hold
    MaxTags,        \* bound on the tags that are processed
    MaxFaults       \* bound on failed operations and expired records

ASSUME PricesAssumption == Prices \subseteq Nat
ASSUME WidthsAssumption == SumWidth \in Nat \ {0} /\ CountWidth \in Nat \ {0}
ASSUME ProcessorsAssumption == IsFiniteSet(Processors)
ASSUME BoundsAssumption == MaxTags \in Nat /\ MaxFaults \in Nat

VARIABLES
    record,         \* record[k][a]: the integer in bin a of record k
    pc,             \* pc[q]: the next step of processor q
    tag,            \* tag[q]: the tag processor q works on
    taken,          \* number of tags taken so far
    count,          \* history: count[k][a], the additions to the record so far
    sum,            \* history: sum[k][a], the prices they added
    applied,        \* history: all additions ever, to any record
    doubts,         \* history: those whose answer was lost
    dropped,        \* history: tags given up
    faults          \* failed operations and expired records so far

vars == <<record, pc, tag, taken, count, sum, applied, doubts, dropped, faults>>

Tag == [key : Keys, action : Actions, price : Prices]

NoTag == [idle |-> TRUE]

NoBin == -1                 \* the bin is not in the record

NoRecord == [a \in Actions |-> NoBin]

Exists(k) == record[k] # NoRecord

Steps == {"idle", "getIds", "operate", "put", "backoff"}

TypeOK ==
    /\ record \in [Keys -> [Actions -> Nat \cup {NoBin}]]
    /\ pc \in [Processors -> Steps]
    /\ tag \in [Processors -> Tag \cup {NoTag}]
    /\ taken \in 0 .. MaxTags
    /\ count \in [Keys -> [Actions -> Nat]]
    /\ sum \in [Keys -> [Actions -> Nat]]
    /\ applied \in Nat
    /\ doubts \in Nat
    /\ dropped \in Nat
    /\ faults \in 0 .. MaxFaults

Zero == [k \in Keys |-> [a \in Actions |-> 0]]

Init ==
    /\ record = [k \in Keys |-> NoRecord]
    /\ pc = [q \in Processors |-> "idle"]
    /\ tag = [q \in Processors |-> NoTag]
    /\ taken = 0
    /\ count = Zero
    /\ sum = Zero
    /\ applied = 0
    /\ doubts = 0
    /\ dropped = 0
    /\ faults = 0

-----------------------------------------------------------------------------
(* Parts of the steps.                                                     *)

EncodeDecrement(price) == price - SumWidth  \* seeded defect: the count goes down

\* 1<<48 | price
EncodeSumAndCount(price) == SumWidth + price

DecodeSumAndCount(v) ==
    [sum |-> v % SumWidth, count |-> (v \div SumWidth) % CountWidth]

Goto(q, s) == pc' = [pc EXCEPT ![q] = s]

Fault == faults < MaxFaults /\ faults' = faults + 1

UnchangedStore == UNCHANGED <<record, count, sum, applied>>

\* What the history learns when the tag t is added.
Count(t) ==
    /\ count' = [count EXCEPT ![t.key][t.action] = @ + 1]
    /\ sum' = [sum EXCEPT ![t.key][t.action] = @ + t.price]
    /\ applied' = applied + 1

\* AddOp: a bin that is not in the record counts from zero.
AddToBin(t) ==
    record' = [record EXCEPT ![t.key][t.action] =
                 (IF @ = NoBin THEN 0 ELSE @) + EncodeSumAndCount(t.price)]

\* Put of a new record.
CreateRecord(t) ==
    record' = [record EXCEPT ![t.key] =
                 [NoRecord EXCEPT ![t.action] = EncodeSumAndCount(t.price)]]

\* The tag is done, or given up.
Finish(q) ==
    /\ Goto(q, "idle")
    /\ tag' = [tag EXCEPT ![q] = NoTag]

-----------------------------------------------------------------------------
(* runAggregatesProcessor and updateAggregates.                            *)

Take(q, t) ==
    /\ pc[q] = "idle"
    /\ taken < MaxTags
    /\ taken' = taken + 1
    /\ tag' = [tag EXCEPT ![q] = t]
    /\ Goto(q, "getIds")
    /\ UnchangedStore
    /\ UNCHANGED <<doubts, dropped, faults>>

\* All three ids are there.
GetIds(q) ==
    /\ pc[q] = "getIds"
    /\ Goto(q, "operate")
    /\ UnchangedStore
    /\ UNCHANGED <<tag, taken, doubts, dropped, faults>>

\* The add is applied to the record, or there is no record to apply it to.
Operate(q) ==
    LET t == tag[q]
    IN  /\ pc[q] = "operate"
        /\ \/ Exists(t.key) /\ AddToBin(t) /\ Count(t) /\ Finish(q)
           \/ ~ Exists(t.key) /\ Goto(q, "put") /\ UnchangedStore /\ UNCHANGED tag
        /\ UNCHANGED <<taken, doubts, dropped, faults>>

AlwaysAbsent(k) == TRUE     \* seeded defect: the record is replaced (no CREATE_ONLY)

MayCreate(k) == ~ Exists(k)

\* Seeded defect: a record that exists already is taken for success.
PutIfAbsent(q) ==
    LET t == tag[q]
    IN  /\ pc[q] = "put"
        /\ \/ MayCreate(t.key) /\ CreateRecord(t) /\ Count(t)
           \/ ~ MayCreate(t.key) /\ UnchangedStore
        /\ Finish(q)
        /\ UNCHANGED <<taken, doubts, dropped, faults>>

\* The record is created, unless another processor created it first.
Put(q) ==
    LET t == tag[q]
    IN  /\ pc[q] = "put"
        /\ \/ MayCreate(t.key) /\ CreateRecord(t) /\ Count(t) /\ Finish(q)
           \/ ~ MayCreate(t.key) /\ Goto(q, "backoff") /\ UnchangedStore /\ UNCHANGED tag
        /\ UNCHANGED <<taken, doubts, dropped, faults>>

-----------------------------------------------------------------------------
(* Errors and retries.                                                     *)

\* An id cannot be had, or a database operation is not applied.
Fails(q) ==
    /\ pc[q] \in {"getIds", "operate", "put"}
    /\ Fault
    /\ Goto(q, "backoff")
    /\ UnchangedStore
    /\ UNCHANGED <<tag, taken, doubts, dropped>>

\* The write is applied but its answer is lost.
InDoubt(q) ==
    LET t == tag[q]
    IN  /\ Fault
        /\ \/ pc[q] = "operate" /\ Exists(t.key) /\ AddToBin(t)
           \/ pc[q] = "put" /\ MayCreate(t.key) /\ CreateRecord(t)
        /\ Count(t)
        /\ doubts' = doubts + 1
        /\ Goto(q, "backoff")
        /\ UNCHANGED <<tag, taken, dropped>>

\* Seeded defect: a retry goes on with the creation of the record.
RetryPut(q) ==
    /\ pc[q] = "backoff"
    /\ Goto(q, "put")
    /\ UnchangedStore
    /\ UNCHANGED <<tag, taken, doubts, dropped, faults>>

\* The interval of the backoff is over: updateAggregates from its start.
Retry(q) ==
    /\ pc[q] = "backoff"
    /\ Goto(q, "getIds")
    /\ UnchangedStore
    /\ UNCHANGED <<tag, taken, doubts, dropped, faults>>

\* The time of the backoff is spent: the error is logged and the tag is lost.
GiveUp(q) ==
    /\ pc[q] = "backoff"
    /\ dropped' = dropped + 1
    /\ Finish(q)
    /\ UnchangedStore
    /\ UNCHANGED <<taken, doubts, faults>>

\* The time to live of a record is over.
Expire(k) ==
    /\ Exists(k)
    /\ Fault
    /\ record' = [record EXCEPT ![k] = NoRecord]
    /\ count' = [count EXCEPT ![k] = Zero[k]]
    /\ sum' = [sum EXCEPT ![k] = Zero[k]]
    /\ UNCHANGED <<pc, tag, taken, applied, doubts, dropped>>

-----------------------------------------------------------------------------
Process(q) == GetIds(q) \/ Operate(q) \/ Put(q) \/ Retry(q)

Next ==
    \/ \E q \in Processors :
         \/ \E t \in Tag : Take(q, t)
         \/ Process(q)
         \/ Fails(q)
         \/ InDoubt(q)
         \/ GiveUp(q)
    \/ \E k \in Keys : Expire(k)

Spec == Init /\ [][Next]_vars

\* A processor runs, its operations return and its backoff intervals end.
FairSpec == Spec /\ \A q \in Processors : WF_vars(Process(q))

-----------------------------------------------------------------------------
(* Properties.                                                             *)

(***************************************************************************)
(* What a reader decodes from a bin is exactly the number of additions to  *)
(* the record since it was created and the sum of their prices, as long as *)
(* both fit their fields: additions are lost neither between the failed    *)
(* UPDATE_ONLY and the CREATE_ONLY of another processor nor to an expiring *)
(* record (aggregates.go:131-167), and the two fields do not disturb one   *)
(* another (aggregates.go:59-67).                                          *)
(***************************************************************************)
Decoded(k, a) == DecodeSumAndCount(IF record[k][a] = NoBin THEN 0 ELSE record[k][a])

AggregatesExact ==
    \A k \in Keys, a \in Actions :
        count[k][a] < CountWidth /\ sum[k][a] < SumWidth =>
            Decoded(k, a) = [sum |-> sum[k][a], count |-> count[k][a]]

(***************************************************************************)
(* Every tag a processor took is added exactly once, is still in process,  *)
(* or was given up and logged; the only additions beyond these are those   *)
(* of writes that were applied although their answer was lost              *)
(* (aggregatesProcessor.go:27-50).                                         *)
(***************************************************************************)
Busy == {q \in Processors : pc[q] # "idle"}

TagsAccounted == applied + Cardinality(Busy) + dropped = taken + doubts

(***************************************************************************)
(* A processor finishes with every tag it takes: the races with other      *)
(* processors do not keep it retrying.                                     *)
(***************************************************************************)
TagsFinish == \A q \in Processors : pc[q] # "idle" ~> pc[q] = "idle"

(***************************************************************************)
(* "aggregates only fail if db is down" (aggregatesProcessor.go:16).       *)
(***************************************************************************)
FailsOnlyWhenDown == faults = 0 => \A q \in Processors : pc[q] # "backoff"
=============================================================================
