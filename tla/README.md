# Allezon in TLA+

Specifications of Allezon (`src/`), a service that stores user tags (views and
buys of products) in user profiles and in per-minute aggregates. The modules
model the steps of its Go code on the shared state: Aerospike records, caches,
and the goroutines of all replicas. TLC checks them on small instances, and TLAPS
proves every invariant and every refinement that the runs check for every value of
the constants. Paths below are
relative to `src/src/` unless they start with `README` or `charts`.

## The system

```
 client -> API replicas (6) -- profiles --------------------> Aerospike
             |   \-- ids --> id service (1) -- lists -------> Aerospike
             |                   ^
             +-- Kafka topic --> workers (3) -- aggregates -> Aerospike
```

| component | state | operations | correct when |
|---|---|---|---|
| id service (`cmd/id_getter`) | a list of elements per collection (Aerospike), a cache of ids | get the id of an element, creating it when missing | lists have no duplicates and only grow; an id names its element |
| id client (`pkg/idGetter`) | a cache of ids per process | GetID, GetU16ID | no caller gets an id of another element; calls return |
| user profiles (`pkg/db/user_profiles.go`, `cmd/api/server/userTags.go`, `userProfiles.go`) | two sorted maps per cookie, a generation | add a tag, trim the map, read a time range | the newest 200 tags of an action are never trimmed; a map over 220 gets trimmed; readers get the newest tags |
| aggregates (`pkg/db/aggregates.go`) | a record per minute and key, one packed integer per action | add a tag, query a minute | count and sum are exact |
| aggregates processor (`cmd/worker/worker/aggregatesProcessor.go`) | the tag in process | take a tag, get ids, add, retry with backoff | every tag is added once or reported lost |
| worker and consumer (`cmd/worker/worker/worker.go`, `pkg/messaging/consumer.go`) | a channel of 1024 tags, Kafka offsets | consume a claim, mark, hand over | a tag taken from Kafka is processed, across rebalances and crashes |
| tag handler and producer (`userTags.go`, `pkg/messaging/producer.go`) | none | store the tag and send it, concurrently | both or neither, and a retry does no harm |
| aggregates query (`cmd/api/server/aggregates.go`) | none | validate, query each minute, filter, format | rows are the sums over the matching keys |
| topic initialisation (`pkg/messaging/topic.go`) | the topic | list, create | the topic exists and replicas start |
| conversions (`pkg/types`, `pkg/dto`) | none | JSON, protobuf | round trips lose nothing |

The components meet in Aerospike (atomic on one record, nothing beyond), in the
id service (HTTP, a timeout of five seconds) and in Kafka. What is hard:

* every request has a goroutine of its own, and the operations of different
  requests interleave between database calls (id service, collectors, aggregates);
* a database call may fail, or be applied while its answer is lost; the
  collectors and the processors repeat whole operations with a backoff;
* processes restart and lose caches, goroutines and channels, while their peers
  keep what they cached;
* goroutines that nobody waits for (collectors) may end early without anyone knowing.

`PROJECT.json` lists each hazard at its line, with the properties that would catch it.

## Modules

| module | models | is used by |
|---|---|---|
| `IdRegistry` | what the id service promises (abstract) | `IdServer`, `IdClient` |
| `IdServer` | the id service: handlers, cache, lists, faults, restarts | `IdClient` |
| `IdClient` | the clients of all processes, composed with `IdServer` | |
| `TagStore` | what a profile promises (abstract) | `UserProfiles` |
| `UserProfiles` | one profile, its writers, collectors and readers | |
| `Aggregates` | the records of one minute and the processors that add to them | |
| `TagQueue` | what the workers promise about the messages of the topic (abstract) | `Worker` |
| `Worker` | the workers and their Kafka consumer group | |
| `AggregatesQuery` | the `/aggregates` endpoint over the records of all minutes, while workers add to them | |
| `Conversions` | a tag in JSON, in memory and in protobuf | `Allezon` |
| `Startup` | API replicas that start together and create the topic | `Allezon` |
| `TagLedger` | what the system promises about a tag that is posted (abstract) | `Allezon` |
| `Allezon` | a tag from the request to the profile and the aggregates, composed with `Startup` and `Conversions` | |
| `Division` | lemmas about division with remainder | `AggregatesProofs`, `AggregatesQueryProofs`, `AllezonProofs` |
| `IdServerProofs`, `IdClientProofs`, `UserProfilesProofs`, `AggregatesProofs`, `WorkerProofs`, `AggregatesQueryProofs`, `AllezonProofs` | theorems | |
| `MCIdServer`, `MCIdClient`, `MCAggregatesQuery`, `MCAllezon` | symmetry and constants for TLC; the other modules are run as they are | the `.cfg` files |

The modules rest on one another also where they do not extend one another: each
replaces a part that has a module of its own by what that module shows of it.
`AggregatesQuery` takes `AggregatesExact` (a bin is the set of tags added to it) and
`IdsNameElement` (an element has one of a few ids); `Allezon` takes
`TagsAccounted` and what `TagQueue` promises (a message is counted once, and again or
never only with a fault; `TagsDeliveredOnce` states it as one bound); `Worker` leaves what a processor does with a tag to
`Aggregates`, and `Aggregates` the ids to `IdClient`.

A definition that is marked "seeded defect" is not part of a specification. It
is a wrong version of the definition below it, kept to show that a property
notices such a mistake: with it in place of the definition, TLC finds the
property violated (`mutants` in `PROJECT.json`).

### IdServer

A handler takes the steps of `getID`: `CheckInCache`, `GetIDFromDB`,
`SaveIDInDB`, `SaveInCache`, `Respond`. `pc[h]` is the next step, `ret[h]` the
variable `id`. The mutex of the cache is held for one look-up or one store, and
each database operation is atomic, so these are the atomic steps. `AppendElement`
is Aerospike's append with `ListWriteFlagsAddUnique`: it refuses an element that
is there, which is an error of the request. `SaveIDInDBFails` covers the append
that was not applied and the one whose answer is lost. `Restart` empties the
cache and ends the handlers.

The code computes ids in two ways: the index in the list (from 0) when it finds
the element, and the new length (from 1) when it appends it. `IdRegistry`
therefore promises only that an id is one of the two of its element, and a
run shows that an element is given both (see Findings).

### IdClient

`cache[p]` is the cache of process p; a caller takes the steps of `GetU16ID`.
`Post` starts a handler of `IdServer`. A timeout (`PostFails`) leaves the handler
running with nobody to answer (`serving[h] = NoCaller`), which is what closing
the connection does. A service that restarts breaks the connections of all that
wait. `MaxU16` stands for 65535.

Callers do not see the caches, the handlers or the service that restarts: with
`returned`, the ids that were given to them, for the ids issued, what they see is
`IdRegistry` again (`ClientsImplementRegistry`). `U16` and its check are what keeps
an id that 16 bits do not hold from becoming that of another element.

### UserProfiles

`bin[a]` is the set of keys (milliseconds) of the map of action a, `generation`
the generation of the record. `AddUserTag` is the `Operate` of `Add` with the
decision to start a collector; the collector uses the handler's slot k.
`ReadSize` and `RemoveOldest` are the two operations of `RemoveOverLimit`; the
second is applied only at the generation of the first. `Mismatch`, `Retry` and
`GiveUp` are the backoff loop of `removeOldUserTags`. A tag with the key of a
stored one replaces it, which a model of keys does not show. The generation does
not wrap (in Aerospike it has 16 bits, so that a collector would have to sleep
through a multiple of 65535 writes to be fooled; it sleeps a minute at most).
`Tags(a)` is the bin as `Get` returns it, in ascending order of its keys;
`ConvertTags` is the loop of `convertTags` from its end, as a recursive function of
the number of tags walked. The reader is applied to every reachable bin.

`TagStore` stores a tag at once and may forget the oldest tags of an action at any time, down to
exactly `Limit` of them: collectors, generations and lost answers are gone from it.

### Aggregates

`record[k][a]` is the integer `count << 48 | sum`, or `NoBin`. `Operate` is the
`UPDATE_ONLY` addition, `Put` the `CREATE_ONLY` record. `SumWidth` and
`CountWidth` stand for 2^48 and 2^16. The integer is kept unwrapped;
`DecodeSumAndCount` takes it modulo the widths. `count` and `sum` are history:
what was added to the record since it was created. `Expire` is the namespace's
time to live. The three id look-ups are one step that fails or succeeds, and the
key is chosen with the tag.

### Worker

`log[p]` is a partition of the topic, `committed[p]` the group's offset in it and
`owner[p]` the worker it is assigned to. `session[w]` is where `Consume` of a
worker is: `down`, `joining`, `running`, `ending` (the group rebalances) or
`expelled`. Each claim is a goroutine in `ConsumeClaim`: `at[w][p]` is its next
statement, `next[w][p]` the message it is about to receive or works on,
`marked[w][p]` what it marked last. `Send` is the statement `c.tags <- tag` and
waits for room in `tagsChan[w]`; `Mark` follows it. Processors (`Take`, `Finish`)
take tags from the channel; what they do with a tag is in `Aggregates`.

Kafka and sarama appear as the code sees them. `Assign` shares all partitions
among the members that joined, in any way, once nobody holds an old session.
`Rebalance` ends a session because a worker joins or a partition has no owner.
When a session is over, its context is done and its channels of messages are
closed; buffered messages may still come first. So a claim at its `select` may do
one of three things: `Receive` a message, `Return`, or `ReceiveNil`, the panic on
`msg.Key`. `AutoCommit` commits the marks at any time and `Rejoin` at the end of a
session; commits of an expelled worker are refused. A commit that fails at
the end of a session is `Expel` of the ending worker before its `Rejoin`. `EndProcess` loses the channel
and the tags in process (`lost`); nothing else may be lost, which is what
`CommittedAccounted` says.

`TagQueue` has no workers, claims or marks. A tag may be delivered as often as
there were ends, and once more; the offset may go past tags that were delivered
and past malformed messages, never back; an end loses some of the delivered tags, at
most `Capacity`. In `Worker`, `Send` delivers, commits of the marks of a session commit,
and an end is a process that ends or a member that is expelled; the capacity is
that of the channel and one tag per processor (`ChanSize + Cardinality(Processors)`).

### AggregatesQuery

The handler of one replica: `Receive` checks the request, `NewFilters` gets the
ids it filters by (all three at once; a failure of one fails the request),
`QueryMinute` starts the query of minute `t`, `ReadRecord` is one result of it
with `decode`, `match` and the sum, `EndMinute` appends the row, `Respond` answers. `QueryFails` and
`NewFiltersFails` answer with 500. `CreateIndexFails` is `Aggregates()`, which
creates the index for every minute and ends the process on an error; `Restart`
is Kubernetes. `counted` holds the tags in all records, each with the name of its
record: the minute (`ToTs`, with Go's rounding toward zero) and the three ids
packed into a number (`Encode`, `Decode`).

Meanwhile `Add(g, ids)` adds a tag under any ids the service may give its
elements. A query returns every record that was there when it began (`unread`),
with the bins they have when they are read; it may or may not return one that is
created under it (`fresh`). The ids of an element are a set, because the service
may answer two of them and two elements of a collection may share one; each collection
has ids of its own (`IdsOf[c][e]`), so that an origin and a brand have the same id as a rule; `RowsBetween` says what a row
must and may hold then. A row is the set of tags it sums up, so that its cells,
a count or a sum of prices, follow from `AggregatesExact`.

### Startup and Conversions

`replica[r]` is how far `main` has come: `listTopics`, `createTopic`, `connect`,
then `serving`. An error anywhere is `logger.Fatal` (`Exit`), and so is a topic
that another replica created since the list was read. A listing shows the topic as it is, and
only API replicas create it (`messaging.Initialize` has no other caller); a listing that
is out of date would count as a fault.

`Conversions` has the functions of `dto.go` and `userTag.go` for the four fields
that some conversion changes. The time loses what is below the millisecond, in the key
of the profile and in the answer; device and action become numbers and names
again, and what is neither is refused (`IsTag`); the product id is an `int32` in
protobuf (`Int32`), so that one beyond 2^31 wraps.

### Allezon

One variable per post says how far its two goroutines are (`add`, `send`), which
replica runs them (`on`) and what the client knows (`call`). `AddUserTag` stores
the converted tag at its action and millisecond, `Send` appends to `queue`,
`Respond` waits for both. Either may fail, before or after it took effect
(`AddFails`, `SendFails`); the producer may send again (`SendAgain`); `Crash` ends a
replica with all its handlers, and their clients see a failure. Workers
`Count` a message, `CountAgain` or `Lose` it with a fault. A client that repeats a
request is another post with the same content.

`TagLedger` forgets replicas, goroutines and messages: a post may be stored and
sent in any order, acknowledged after both, counted after it was sent.

## What TLC checks

| run | bounds | shows |
|---|---|---|
| `IdServer.cfg` | 2 handlers, 3 elements, 2 faults | types, no duplicates, every id names its element, `IdRegistry` is implemented |
| `IdServerSequential.cfg` | 1 handler, 3 elements, 2 collections, no faults | one request at a time: one id per element, different ids for different elements |
| `IdClient.cfg` | 2 processes, 2 callers, 2 elements, 1 fault, ids up to 1 fit | no caller gets an id of another element; what callers see is `IdRegistry` |
| `IdClientLiveness.cfg` | the same with 1 element | calls return |
| `UserProfiles.cfg` | 3 handlers, 5 times, limit 2, threshold 3, 2 faults, tags until generation 6 | the newest tags are retained and read, a bin over the threshold is collected and trimmed in the end, `TagStore` is implemented |
| `Aggregates.cfg` | 3 processors, 1 key with 2 actions, 3 tags, fields of 8 and 4 values, 2 faults | count and sum are exact, tags are accounted for, processors finish |
| `Worker.cfg` | 2 workers, 1 partition, 1 processor, 2 messages, a channel of 1, 1 fault | committed tags are accounted for, `TagQueue` is implemented (rebalances alone deliver nothing twice), tags are handled, rebalances end |
| `AggregatesQuery.cfg` | 4 tags, 9 requests, minutes of 2 seconds of 2 ticks, at most 2 minutes, 2 elements in each of 3 collections, ids below 3, 1 fault | rows hold what was counted before and only what belongs to them, they cover the range, queries return |
| `Allezon.cfg` | 2 replicas, 3 posts, 2 faults, 2 ticks per millisecond, integers from -4 to 3 | acknowledged tags are stored, counted and shown, none is counted more than once and once per fault; replicas start and serve, posts are answered; `TagLedger` is implemented |
| `IdServerTwoIds.cfg`, `AggregatesRace.cfg`, `WorkerRebalance.cfg` | 1 or 2 actors, no faults | the findings |

Why the bounds are enough: two handlers make every race between a read, an append
and a store; the third element makes places in the list that are neither first nor
last. The races of collectors need two collectors on one record and one handler
that writes in between; threshold 3 over limit 2 lets a collector remove two tags
at once, and five times let tags arrive older and newer than all stored ones.
Two processors race to create a record and the third sees the result; prices 1
and 3 over a field of eight values let sums fill the field and the count wrap,
where `AggregatesExact` says nothing, and stay below, where it does. Two workers
hand a partition back and forth; with two messages and a channel of one, a claim
waits for room while the session ends, and one message may be malformed while
the other is marked. For the query, one tag is before 1970 and shares minute 0 with two
others, of which one has the other action; two brands share an id and have
another one each, and origins, brands and categories have the same names and ids; requests are aligned or off by a fraction of a second, span
no, one, two or three minutes, and one each is reversed or has a duplicate. Two
replicas are what it takes to race for the topic; two posts meet in one
millisecond, one of them with a product id that wraps, and the third is no tag;
two faults let a write fail after it took effect and a replica end. Bounds on
faults, tags, messages and generations (`MaxFaults`, `MaxTags`, `MaxMessages`,
`MaxGeneration`) only end
the behaviours; the proofs do without any particular value of them.

In `WorkerRebalance.cfg` the one permitted end of a process is the panic itself.

`CHECK_DEADLOCK FALSE` stands in the runs of `UserProfiles`, `Aggregates`,
`AggregatesQuery` and `Allezon`: they may stop when the last tag is handled.

### Fairness

Liveness assumes weak fairness of the steps of goroutines: they run, their
database calls return and their timers fire. Nothing makes a request arrive, a
call fail, a process crash or a backoff give up.

* `CallsReturn`: the handlers and the calls are fair; a timeout is not needed for
  a call to return, because a handler ends or breaks the connection.
* `OverflowIsTrimmed`: with tags arriving for ever, a collector may find a new
  generation each time until its minute is over. `MaxGeneration` makes tags stop
  arriving, and then every collector that fails does so because another one
  succeeded.
* `TagsFinish`: a processor that loses the race to create a record finds it on
  its next try. `Expire` counts as a fault, so that records do not expire for ever.
* `TagsHandled`, `RebalancesEnd`: goroutines run, processes are restarted, and the
  coordinator answers. `Return` is strongly fair: when messages keep coming and the
  end of the session can be received as well, Go's `select` chooses at random and
  does not prefer the messages for ever. Ends of processes are bounded by
  `MaxFaults`, panics included: a worker that panics at every rebalance would cause
  the next one each time it starts again. A processor always comes back, because
  its backoff ends after thirty seconds.
* `QueriesReturn`: the handler runs. The records that are created under a query
  are finitely many, because tags are, and the query may end without them.
* `ReplicasServe`, `PostsAnswered`, `AckedIsCounted`: replicas are started again,
  handlers run, workers take messages. A replica that lost the race to create the
  topic finds it the next time. A post whose replica ends is answered by
  the broken connection.

## Findings

* *An element may have two ids.* `README.md:45` and the comment at
  `server.go:106` say that the id of an element is its index in the list. For an
  element it appends, the service answers with the new length, one more. Of two handlers asked for the same new element
  one answers with the length and the other with the index (`OneIdPerElement`);
  the same happens after a restart. `tests/idgetter_test.go` expects one id. The
  index of an element is the length answered for its predecessor, so aggregates of
  two elements may share a key.
* *Adding to an aggregate fails without a database failure.* The comment at
  `aggregatesProcessor.go:16` says otherwise; the processor that loses the race to
  create a record gets an error and waits a second (`FailsOnlyWhenDown`).
* *A rebalance may end a worker.* The comment at `consumer.go:50` says that a
  rebalance makes the loop recreate the session. `ConsumeClaim` does not check for
  the closed channel: the nil message it may receive there is dereferenced before
  the end of the session is noticed, and the process ends with up to 1024 tags
  that are committed or marked (`SessionRecreated`).

## What is proved

All theorems hold for any sets of actors and data and for any bounds. They assume
only the named `ASSUME`s of the modules: that bounds are natural numbers,
`Limit <= Threshold`, that times and ids are integers and prices naturals, that
the widths are positive, that the sets of workers, of their processors and of replicas are
finite and there is a replica, and that "none" and "any" name no worker, caller,
replica or element. Three theorems state one more hypothesis each: `Sequential` and
`DistinctIds`, explained below.

* `IdServerProofs`. The inductive invariant is `TypeOK`, `NoDuplicateElements` and
  `IdsNameElement`. It needs all three: a found index is *the* place of the
  element only in a list without duplicates, and an answer is right because the id
  a handler holds, or the cache holds, was right. Lists only grow, so that an id
  stays right when another handler appends. From the same steps follows
  `RegistryImplemented`: `IdServer` implements `IdRegistry`. For one handler
  and no fault (`Sequential`, the setting of `IdServerSequential.cfg`), whatever is in a list is in the cache
  (`StoredCached`), so that the service never looks up an index, and an answer is
  the cached id: `SequentialIdsUnique`, `SequentialIdsIdentify`.
* `IdClientProofs`. A response is meant for the caller who waits for it only if
  caller and handler agree on each other: `ServingAgrees` says that a handler that
  serves a caller works on the element of that caller, who waits, and no other
  handler serves it; timeouts and restarts cut the two ends together. `CallsHold` gives
  the id of a caller by its step. `ClientIdsCorrect` rests on these and on the
  invariant of `IdServerProofs`, which every step of the composition keeps. Two
  refinements follow: the service still implements `IdRegistry` when its requests are
  those of the clients (`ServedRegistryImplemented`), and so do the clients towards
  their callers (`ClientsRegistryImplemented`): an id that is returned, perhaps
  out of a cache older than the last restart, is an id the list as it is then still gives.
* `UserProfilesProofs`. Between its two operations a collector knows the size of
  the bin only as long as the generation is the one it read. The invariant says
  so: at that generation, the excess is the size minus the limit. Hence a removal
  that is applied leaves exactly `Limit` tags, all newer than the removed ones
  (`TrimOldest`), and adding tags keeps that (`PutKeeps`). `NewestTagsRetained`,
  `OverflowHasCollector` and `TagStoreImplemented` follow.

  `ReadsAreNewest` is about what the reader computes. First, `Tags` is the bin in
  ascending order: every index has its key (`EveryIndex`), and keys ascend
  (`TagsAscend`). Then the loop: after n tags it has selected the newest of the range
  among the n newest of the bin, descending and `limit` at most (`Walked`). This
  is an induction over n; as the library's induction theorems take an operator, it
  is done with sets of naturals instead (`SetInduction`), and so is the existence of
  the recursive function (`IteratesExist`). At the end of the loop the answer is the
  newest tags of the range in the bin (`AnswerIsNewest`). Last, they are the newest
  of all tags ever stored: a removed tag has `Limit` newer ones in the bin, so that it is
  not among those a reader may ask for (`HistoryKept`, `RemovedNotMissed`).
* `AggregatesProofs`. The invariant says what a bin holds: the number of
  additions times the width of the sum, plus the sum (`BinsPacked`); that a
  processor at work holds a tag; and the balance of tags. `AggregatesCorrect`
  then follows from the uniqueness of division with remainder (`DivisionUnique`
  in `Division`); `TagsAreAccounted` from counting the processors at work.
* `WorkerProofs`. What is committed was marked some time before, and what was
  marked was put in the channel before that. The invariant ties these together:
  every message before the one a claim works on is malformed or accounted for
  (`ClaimsHandled`), marks are behind (`MarksBehind`), and a member has a claim for
  every partition it owns (`MembersClaim`), so that it commits marks of its own
  only. What is accounted for stays so in every step (`Kept`).
  `CommittedTagsAccounted` follows. `TagsDeliveredOnce` needs a count: of a
  message, the deliveries so far and the one that is still due (`IsDue`) are at most one more
  than the processes that ended and the members that are expelled (`Balance`).
  A session that ends in peace commits what it delivered before another member
  may claim the partition; an expelled one pays for what it may yet deliver
  late (`Late`).

  `TagQueueImplemented` maps every step to one of `TagQueue` or to a
  stutter. `TagQueue` allows a commit only past tags that were delivered, and only
  forward. So the invariant adds that claims send tags only (`SendsTags`), that
  what is held, finished or lost was delivered (`AccountedDelivered`), and that the
  marks of members are not behind what is committed (`CommitsBehind`), which holds
  because commits of expelled members are refused. `DeliveredOnce` becomes
  the guard of `Deliver` (`SendRefines`). A process holds no more than its channel
  and its processors do (`HeldFits`, with the cardinality of the image of a sequence,
  `ImageFits`), so that its end loses no more than `TagQueue` allows (`LeaveRefines`).
* `AggregatesQueryProofs`. During the scan of a minute, a tag that was counted
  before and is selected is summed up already or in a record that is yet to be read, and what
  is summed up is selected (`ScanInv`); the rows so far are those of the minutes
  from the start on (`LoopInv`). `FilterSelects` takes this from ids to
  elements: a key gives back its ids (`DecodeEncode`) and the name of a record its
  minute, but for the minute before 1970 (`SameTs`). A range starts at a whole
  minute up to a fraction of a second (`AlignedTs`), so that rows fall in
  different minutes. `RowsAreBetween` and `AnswersCover` follow.

  Between what a row must hold and what it may hold lies the ambiguity of the ids.
  If every element of a collection has one id, and no two elements of the collection share
  one (`DistinctIds`), there is no room left. This is per collection, like
  `SequentialIdsUnique` and `SequentialIdsIdentify`, which give it when the service has one
  request at a time, no failed operation and no restart; elements of different collections
  have the same ids all the time. Then a row sums up exactly the tags that were asked for,
  all that were counted before it was queried and none but those that match
  (`AnswersAreExact`; minute 0 and times before 1970 excepted).
* `AllezonProofs`. The replicas that saw no topic and have yet to create it are
  counted with the starts that failed (`StartsInv`). Of a post, `PostOK` gives
  what its goroutines have done and leaves one more message to a goroutine that
  is still sending; `ProfileInv` says that a slot holds the message of a stored
  post. `StartsFailRarely`, `PostsCountedOnce`, `AckedTagsAreShown` and
  `LedgerImplemented` follow, the third with the arithmetic of milliseconds and of
  `Int32` (that a number which fits is not changed).

Only model-checked: the liveness properties `CallsReturn`, `OverflowIsTrimmed`,
`TagsFinish`, `TagsHandled`, `RebalancesEnd`, `QueriesReturn`, `ReplicasServe`,
`PostsAnswered` and `AckedIsCounted`, because the prover does not reason about
fairness. Proved and not model-checked on its own: `DeliveredOnce`, which `TagQueue` implies,
`ServesWithTopic`, a part of the invariant of `AllezonProofs`, and `AnswersAreExact`.

## What is not modelled

* The values of tags in a profile beyond the fields some conversion changes, the
  cells and columns of an answer, JSON and HTTP, logging, configuration: no
  property is about them.
* Records that expire during a query, a day after their last tag. `Aggregates`
  has the expiry of a record.
* The trimming of a profile next to the two writes of a handler: `UserProfiles` and
  `Allezon` have one of the two each. `Allezon` has one cookie.
* `expect.go` (compares answers in a debugging build and logs differences; it keeps no state), the
  null clients, the pure id client (used by tests only), the generated protobuf code, and the
  container environment of the integration tests.
* Aerospike and Kafka themselves: an operation on one record is atomic, may fail,
  and may be applied without an answer; the group coordinator and sarama are
  what the code sees of them.

## Plan

Every component that keeps state is modelled, every hazard has a property, and
every safety property and every refinement is proved. What is left:

1. Two partitions in `Worker.cfg` (the proofs cover any number), when the time
   allowed for a run does.
2. Records that expire under a query, for which `RowsBetween` would need a bound on
   the age of what a row must hold.
