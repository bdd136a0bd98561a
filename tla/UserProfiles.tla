---------------------------- MODULE UserProfiles ----------------------------
(***************************************************************************)
(* The profile of one user (one cookie) in Aerospike, and the goroutines   *)
(* of the API replicas that write, trim and read it:                       *)
(* pkg/db/user_profiles.go, and addUserTag, removeOldUserTags and          *)
(* convertTags of cmd/api/server.                                          *)
(*                                                                         *)
(* A profile is one record with two map bins, views and buys, keyed by the *)
(* time of the tag in milliseconds.  Its generation counts the writes to   *)
(* either bin.  A handler that stores a tag and learns that the bin holds  *)
(* more than userTagGCThreshold tags starts a collector: read the size of  *)
(* the bin, then remove the oldest tags over userTagLimit provided the     *)
(* generation is still the one of that read.  On an error the collector    *)
(* backs off and tries again, until it has spent its time.  Any number of  *)
(* handlers and collectors of all replicas work on the record at a time.   *)
(*                                                                         *)
(* A bin is modelled by its keys: storing a tag with the time of a stored  *)
(* one replaces its value, which no property here looks at.  The record is *)
(* never deleted (TTLDontExpire), and a bin that is missing is empty.      *)
(***************************************************************************)
EXTENDS Integers, Sequences, FiniteSets, SequencesExt

CONSTANTS
    Actions,        \* the kinds of tags: views and buys
    Times,          \* times of tags, in milliseconds
    Limit,          \* userTagLimit
    Threshold,      \* userTagGCThreshold
    Handlers,       \* tags being handled at a time, collectors included
    MaxGeneration,        \* bound on the generation that still accepts tags
    MaxFaults       \* bound on failed database operations and crashes

ASSUME LimitAssumption == Limit \in Nat /\ Threshold \in Nat /\ Limit <= Threshold
ASSUME TimesAssumption == Times \subseteq Int
ASSUME BoundsAssumption == MaxGeneration \in Nat /\ MaxFaults \in Nat

VARIABLES
    bin,            \* bin[a]: the keys of the map bin of action a
    generation,     \* the generation of the record
    pc,             \* pc[k]: the next step of the collector of handler k
    action,         \* action[k]: the action whose bin the collector trims
    toRemove,       \* toRemove[k]: the excess the collector computed
    expected,       \* expected[k]: the generation it computed it at
    added,          \* history: the times of all tags ever stored
    abandoned,      \* history: a collector that was due for a bin is lost
    faults          \* failed database operations and crashes so far

vars == <<bin, generation, pc, action, toRemove, expected, added, abandoned, faults>>

NoAction == "none"

CollectorSteps == {"size", "remove", "backoff"}

VariablesTyped ==
    /\ bin \in [Actions -> SUBSET Times]
    /\ \A a \in Actions : IsFiniteSet(bin[a])
    /\ generation \in Nat
    /\ pc \in [Handlers -> CollectorSteps \cup {"idle"}]
    /\ action \in [Handlers -> Actions \cup {NoAction}]
    /\ toRemove \in [Handlers -> Nat]
    /\ expected \in [Handlers -> Nat]
    /\ added \in [Actions -> SUBSET Times]
    /\ abandoned \in [Actions -> BOOLEAN]
    /\ faults \in 0 .. MaxFaults

\* A collector at work knows whose bin it trims.
ActionsKnown ==
    \A k \in Handlers : pc[k] \in CollectorSteps => action[k] \in Actions

TypeOK == VariablesTyped /\ ActionsKnown

Init ==
    /\ bin = [a \in Actions |-> {}]
    /\ generation = 0
    /\ pc = [k \in Handlers |-> "idle"]
    /\ action = [k \in Handlers |-> NoAction]
    /\ toRemove = [k \in Handlers |-> 0]
    /\ expected = [k \in Handlers |-> 0]
    /\ added = [a \in Actions |-> {}]
    /\ abandoned = [a \in Actions |-> FALSE]
    /\ faults = 0

-----------------------------------------------------------------------------
(* Parts of the steps.                                                     *)

Fault == faults < MaxFaults /\ faults' = faults + 1

Newer(S, t) == {s \in S : s > t}

\* MapRemoveByIndexRangeCount from index 0 of a KEY_ORDERED map: R are the n lowest
\* keys of S, all of them when there are not more than n.
NewestFirst(R, S, n) ==   \* seeded defect: takes the n highest keys
    /\ Cardinality(R) = (IF n < Cardinality(S) THEN n ELSE Cardinality(S))
    /\ \A r \in R, s \in S \ R : r > s

IsLowest(R, S, n) ==
    /\ Cardinality(R) = (IF n < Cardinality(S) THEN n ELSE Cardinality(S))
    /\ \A r \in R, s \in S \ R : r < s

\* The writes to the record: a MapPut and the removal of the keys R.
MapPut(a, t) ==
    /\ bin' = [bin EXCEPT ![a] = @ \cup {t}]
    /\ generation' = generation + 1
    /\ added' = [added EXCEPT ![a] = @ \cup {t}]

MapRemove(a, R) ==
    /\ bin' = [bin EXCEPT ![a] = @ \ R]
    /\ generation' = generation + 1
    /\ UNCHANGED added

UnchangedRecord == UNCHANGED <<bin, generation, added>>

\* The state of handler k after a step of its collector: where it is, the action it
\* collects, and the excess and the generation it read.
Collector(k, step, a, n, g) ==
    /\ pc' = [pc EXCEPT ![k] = step]
    /\ action' = [action EXCEPT ![k] = a]
    /\ toRemove' = [toRemove EXCEPT ![k] = n]
    /\ expected' = [expected EXCEPT ![k] = g]

Finish(k) == Collector(k, "idle", NoAction, 0, 0)

\* Seeded defect: the next attempt does not know the action.
BackoffForgetsAction(k) == Collector(k, "backoff", NoAction, 0, 0)

Backoff(k) == Collector(k, "backoff", action[k], 0, 0)

Start(k, a) == Collector(k, "size", a, 0, 0)

UnchangedCollectors == UNCHANGED <<pc, action, toRemove, expected>>

Abandon(A) == abandoned' = [a \in Actions |-> abandoned[a] \/ a \in A]

Recover(a) == abandoned' = [abandoned EXCEPT ![a] = FALSE]

-----------------------------------------------------------------------------
(* addUserTag: UserProfiles().Add, and a collector when the new length of  *)
(* the bin is over the threshold.                                          *)

AddUserTag(k, a, t) ==
    /\ pc[k] = "idle"
    /\ generation < MaxGeneration
    /\ MapPut(a, t)
    /\ IF Cardinality(bin'[a]) > Threshold
         THEN Start(k, a) /\ Recover(a)
         ELSE UnchangedCollectors /\ UNCHANGED abandoned
    /\ UNCHANGED faults

\* Add fails although the tag was stored (the answer is lost): the handler returns the
\* error and starts no collector.  An Add that fails and stores nothing changes nothing.
AddInDoubt(a, t) ==
    /\ generation < MaxGeneration
    /\ Fault
    /\ MapPut(a, t)
    /\ Abandon({a})
    /\ UnchangedCollectors

-----------------------------------------------------------------------------
(* removeOldUserTags: RemoveOverLimit until it succeeds or gives up.       *)

NothingToRemove(n) == n <= 0

\* The size of the bin and the generation of the record, read together.
ReadSize(k) ==
    LET n == Cardinality(bin[action[k]]) - Limit
    IN  /\ pc[k] = "size"
        /\ IF NothingToRemove(n)
             THEN Finish(k)
             ELSE Collector(k, "remove", action[k], n, generation)
        /\ UnchangedRecord
        /\ UNCHANGED <<abandoned, faults>>

AnyGeneration(k) == TRUE    \* seeded defect: no EXPECT_GEN_EQUAL

GenerationEqual(k) == generation = expected[k]

\* The removal is applied and the collector is done.
RemoveOldest(k) ==
    /\ pc[k] = "remove"
    /\ GenerationEqual(k)
    /\ \E R \in SUBSET bin[action[k]] :
         IsLowest(R, bin[action[k]], toRemove[k]) /\ MapRemove(action[k], R)
    /\ Recover(action[k])
    /\ Finish(k)
    /\ UNCHANGED faults

\* Seeded defect: a generation mismatch ends the collector as a success would.
MismatchIgnored(k) ==
    /\ pc[k] = "remove"
    /\ ~ GenerationEqual(k)
    /\ Finish(k)
    /\ UnchangedRecord
    /\ UNCHANGED <<abandoned, faults>>

\* The record was written since its size was read: GenerationMismatch.
Mismatch(k) ==
    /\ pc[k] = "remove"
    /\ ~ GenerationEqual(k)
    /\ Backoff(k)
    /\ UnchangedRecord
    /\ UNCHANGED <<abandoned, faults>>

\* Either operation fails and changes nothing.
CollectorFails(k) ==
    /\ pc[k] \in {"size", "remove"}
    /\ Fault
    /\ Backoff(k)
    /\ UnchangedRecord
    /\ UNCHANGED abandoned

\* The removal is applied but its answer is lost.
RemoveInDoubt(k) ==
    /\ pc[k] = "remove"
    /\ Fault
    /\ GenerationEqual(k)
    /\ \E R \in SUBSET bin[action[k]] :
         IsLowest(R, bin[action[k]], toRemove[k]) /\ MapRemove(action[k], R)
    /\ Backoff(k)
    /\ UNCHANGED abandoned

\* The interval of the backoff is over and its time is not spent.
Retry(k) ==
    /\ pc[k] = "backoff"
    /\ Start(k, action[k])
    /\ UnchangedRecord
    /\ UNCHANGED <<abandoned, faults>>

\* MaxElapsedTime is spent: the collector logs the error and ends.
GiveUp(k) ==
    /\ pc[k] = "backoff"
    /\ Abandon({action[k]})
    /\ Finish(k)
    /\ UnchangedRecord
    /\ UNCHANGED faults

\* The replica that runs the handlers K ends; their collectors are lost.
Crash(K) ==
    /\ Fault
    /\ Abandon({action[k] : k \in K})
    /\ pc' = [k \in Handlers |-> IF k \in K THEN "idle" ELSE pc[k]]
    /\ action' = [k \in Handlers |-> IF k \in K THEN NoAction ELSE action[k]]
    /\ toRemove' = [k \in Handlers |-> IF k \in K THEN 0 ELSE toRemove[k]]
    /\ expected' = [k \in Handlers |-> IF k \in K THEN 0 ELSE expected[k]]
    /\ UnchangedRecord

-----------------------------------------------------------------------------
CollectorStep(k) ==
    \/ ReadSize(k)
    \/ RemoveOldest(k)
    \/ Mismatch(k)
    \/ Retry(k)

CollectorFault(k) ==
    \/ CollectorFails(k)
    \/ RemoveInDoubt(k)
    \/ GiveUp(k)

Next ==
    \/ \E k \in Handlers :
         \/ CollectorStep(k)
         \/ CollectorFault(k)
         \/ \E a \in Actions, t \in Times : AddUserTag(k, a, t)
    \/ \E a \in Actions, t \in Times : AddInDoubt(a, t)
    \/ \E K \in SUBSET {k \in Handlers : pc[k] # "idle"} : K # {} /\ Crash(K)

Spec == Init /\ [][Next]_vars

\* A started goroutine runs, its database operations return, and its backoff intervals
\* end.  Nothing makes a tag arrive, an operation fail or a collector give up.
Fairness == \A k \in Handlers : WF_vars(CollectorStep(k))

FairSpec == Spec /\ Fairness

-----------------------------------------------------------------------------
(* userProfiles: the whole bin is read at once, and convertTags walks it   *)
(* from its newest tag, keeping those in the time range up to the limit.   *)

InTimeRangeInclusive(from, to, t) == from <= t /\ t <= to   \* seeded defect

InTimeRange(from, to, t) == from <= t /\ t < to

\* The map is ordered: its entry at index i, from 0 on, is the one with i lower keys.
Lower(S, t) == {s \in S : s < t}

Tags(a) ==
    [i \in 1 .. Cardinality(bin[a]) |->
        CHOOSE t \in bin[a] : Cardinality(Lower(bin[a], t)) = i - 1]

\* selected[n]: what the loop selects of the n newest tags.
ConvertTags(tags, from, to, limit) ==
    LET selected[n \in 0 .. Len(tags)] ==
            IF n = 0
              THEN <<>>
              ELSE LET t == tags[Len(tags) - n + 1]
                   IN  IF Len(selected[n - 1]) < limit /\ InTimeRange(from, to, t)
                         THEN Append(selected[n - 1], t)
                         ELSE selected[n - 1]
    IN  selected[Len(tags)]

-----------------------------------------------------------------------------
(* Properties.                                                             *)

(***************************************************************************)
(* A tag that was stored once and is gone has at least userTagLimit newer  *)
(* tags of its action in the profile: collectors that race with handlers   *)
(* and with one another, retry after lost answers (user_profiles.go:       *)
(* 102-150) or die half-way never remove a tag a reader can still ask for. *)
(***************************************************************************)
NewestRetained ==
    \A a \in Actions : \A t \in added[a] \ bin[a] :
        Cardinality(Newer(bin[a], t)) >= Limit

(***************************************************************************)
(* A reader cannot tell that tags are removed: as long as the tags newer   *)
(* than its time range and the ones it asks for are not more than          *)
(* userTagLimit, it gets the newest tags in the range of all tags ever     *)
(* stored, newest first (userProfiles.go:65-100).                          *)
(***************************************************************************)
ReadsNewest ==
    \A a \in Actions :
      LET tags == Tags(a)
      IN  \A from \in Times, to \in Times, limit \in 0 .. Limit :
            Cardinality({t \in bin[a] : t >= to}) + limit <= Limit =>
              LET wanted == {t \in added[a] : from <= t /\ t < to}
                  answer == ConvertTags(tags, from, to, limit)
              IN  /\ \A i, j \in 1 .. Len(answer) : i < j => answer[i] > answer[j]
                  /\ ToSet(answer) =
                       {t \in wanted : Cardinality(Newer(wanted, t)) < limit}

(***************************************************************************)
(* A bin that outgrew the threshold has a collector at work, unless the    *)
(* one that was due for it gave up, died with its replica or never started *)
(* because the answer to the Add was lost (userTags.go:56-84).             *)
(***************************************************************************)
Collecting(k, a) == pc[k] \in CollectorSteps /\ action[k] = a

OverThresholdIsCollected ==
    \A a \in Actions :
        Cardinality(bin[a]) > Threshold =>
            abandoned[a] \/ \E k \in Handlers : Collecting(k, a)

(***************************************************************************)
(* Once tags stop arriving (MaxGeneration), a bin over the threshold is    *)
(* trimmed, or its collectors are lost: collectors that invalidate the     *)
(* generation of one another do not do so for ever.                        *)
(***************************************************************************)
OverflowIsTrimmed ==
    \A a \in Actions :
        Cardinality(bin[a]) > Threshold ~>
            Cardinality(bin[a]) <= Threshold \/ abandoned[a]

(***************************************************************************)
(* The profile implements TagStore: whatever collectors race, a removal    *)
(* leaves the Limit newest tags (user_profiles.go:102-150).                *)
(***************************************************************************)
Store == INSTANCE TagStore WITH stored <- bin

ImplementsTagStore == Store!Spec
=============================================================================
