-------------------------- MODULE AggregatesQuery --------------------------
(***************************************************************************)
(* The /aggregates endpoint of an API replica                              *)
(* (cmd/api/server/aggregates.go) and the query of a minute over the       *)
(* records of the aggregates set (Get in pkg/db/aggregates.go), while      *)
(* workers add tags.                                                       *)
(*                                                                         *)
(* A record is named by its minute and its three ids.  The handler checks  *)
(* the request, turns the elements it filters by into ids, and then, for   *)
(* each minute of the range, queries the records of the minute one after   *)
(* the other, and sums up those whose ids match.  Nothing isolates the     *)
(* query from the additions that go on meanwhile.                          *)
(*                                                                         *)
(* A bin is modelled by the tags that were added to it: count and sum are  *)
(* exactly theirs (AggregatesExact in Aggregates).  Times are in ticks, a  *)
(* fraction of a second.  The id service is modelled by the ids it may     *)
(* give an element (IdsNameElement in IdServer), and it gives one to the   *)
(* query only when a worker asked for it before.  Records that expire,     *)
(* a day after their last tag, are left out.                               *)
(***************************************************************************)
EXTENDS Integers, Sequences, FiniteSets

CONSTANTS
    Tags,           \* the tags the workers may add
    Elements,       \* the names of origins, brands and categories
    IdsOf,          \* IdsOf[c][e]: the ids the service may give element e of collection c
    Requests,       \* the requests clients may send
    Second,         \* ticks of a second
    MinuteSeconds,  \* 60: seconds of a minute
    MaxMinutes,     \* 10: minutes of the longest time range
    IdWidth,        \* 2^16: the ids that fit a field of the key
    MaxFaults       \* bound on failed operations

\* The service numbers each collection for itself; a name may be an element of several.
Collections == {"origin", "brand", "category"}

NoElement == "any"          \* the request does not filter by this field

Ids == 0 .. IdWidth - 1

ASSUME TimeAssumption ==
    Second \in Nat \ {0} /\ MinuteSeconds \in Nat \ {0} /\ MaxMinutes \in Nat
ASSUME IdsAssumption ==
    IdWidth \in Nat \ {0} /\ IdsOf \in [Collections -> [Elements -> SUBSET Ids]]
ASSUME TagsAssumption ==
    \A g \in Tags : /\ g.time \in Int
                    /\ g.origin \in Elements /\ g.brand \in Elements /\ g.category \in Elements
ASSUME RequestsAssumption ==
    /\ NoElement \notin Elements
    /\ \A r \in Requests :
         /\ r.from \in Int /\ r.to \in Int
         /\ {r.origin, r.brand, r.category} \subseteq Elements \cup {NoElement}
ASSUME BoundsAssumption == MaxFaults \in Nat

VARIABLES
    counted,        \* the tags in the records, each with the name of its record
    pc,             \* the next step of the handler
    req,            \* the request it serves, or served last
    filter,         \* the ids it filters by
    t,              \* the minute of the loop
    unread,         \* records the query of the minute has yet to read
    fresh,          \* records created meanwhile, which it may read
    row,            \* the tags it summed up so far
    rows,           \* the rows of the answer
    status,         \* the status of the last answer, 0 when there is none
    before,         \* history: the tags counted when the minute was queried
    faults          \* failed operations so far

handlerVars == <<req, filter, t, unread, fresh, row, rows, status, before>>
vars == <<counted, pc, handlerVars, faults>>

Minute == MinuteSeconds * Second

Name == [ts : Int, key : Nat]

Entry == [tag : Tags, name : Name]

NoFilter == -1

NoFilters == [origin |-> NoFilter, brand |-> NoFilter, category |-> NoFilter]

Filter == [origin : Ids \cup {NoFilter}, brand : Ids \cup {NoFilter},
           category : Ids \cup {NoFilter}]

NoRequest == [none |-> TRUE]

Row == [time : Int, got : SUBSET Entry, before : SUBSET Entry]

TypeOK ==
    /\ counted \in SUBSET Entry
    /\ pc \in {"idle", "filters", "minute", "scan", "down"}
    /\ req \in Requests \cup {NoRequest}
    /\ filter \in Filter
    /\ t \in Int
    /\ unread \in SUBSET Name
    /\ fresh \in SUBSET Name
    /\ row \in SUBSET Entry
    /\ rows \in Seq(Row)
    /\ status \in {0, 200, 400, 500}
    /\ before \in SUBSET Entry
    /\ faults \in 0 .. MaxFaults

Init ==
    /\ counted = {}
    /\ pc = "idle"
    /\ req = NoRequest
    /\ filter = NoFilters
    /\ t = 0
    /\ unread = {} /\ fresh = {}
    /\ row = {} /\ rows = <<>>
    /\ status = 0
    /\ before = {}
    /\ faults = 0

-----------------------------------------------------------------------------
(* Names of records.                                                       *)

\* t.Unix() / 60: Unix rounds down, the division rounds toward zero.
ToTs(time) ==
    LET unix == time \div Second
    IN  IF unix >= 0 THEN unix \div MinuteSeconds ELSE -((-unix) \div MinuteSeconds)

\* category << 32 | brand << 16 | origin
Encode(ids) == (ids.category * IdWidth + ids.brand) * IdWidth + ids.origin

DecodeSwapped(key) ==   \* seeded defect: the fields in another order
    [origin |-> (key \div IdWidth) % IdWidth,
     brand |-> key % IdWidth,
     category |-> ((key \div IdWidth) \div IdWidth) % IdWidth]

Decode(key) ==
    [origin |-> key % IdWidth,
     brand |-> (key \div IdWidth) % IdWidth,
     category |-> ((key \div IdWidth) \div IdWidth) % IdWidth]

IdsOfTag(g) ==
    [origin : IdsOf["origin"][g.origin], brand : IdsOf["brand"][g.brand],
     category : IdsOf["category"][g.category]]

\* toKey
NameOf(g, ids) == [ts |-> ToTs(g.time), key |-> Encode(ids)]

Names(S) == {p.name : p \in S}

-----------------------------------------------------------------------------
Fault == faults < MaxFaults /\ faults' = faults + 1

\* A worker adds a tag under ids it got for its elements.
Add(g, ids) ==
    LET n == NameOf(g, ids)
    IN  /\ \A p \in counted : p.tag # g
        /\ counted' = counted \cup {[tag |-> g, name |-> n]}
        /\ fresh' = IF pc = "scan" /\ n.ts = ToTs(t) /\ n \notin Names(counted)
                      THEN fresh \cup {n}
                      ELSE fresh
        /\ UNCHANGED <<pc, req, filter, t, unread, row, rows, status, before, faults>>

-----------------------------------------------------------------------------
(* aggregatesHandler: the checks of the request.                           *)

SecondOf(time) == (time \div Second) % MinuteSeconds

AnyLength(from, to) ==      \* seeded defect: the length is not limited
    from <= to /\ SecondOf(from) = 0 /\ SecondOf(to) = 0

ValidTimeRange(from, to) ==
    /\ from <= to
    /\ to - from <= MaxMinutes * Minute
    /\ SecondOf(from) = 0
    /\ SecondOf(to) = 0

\* convertAggregates
NoDuplicates(aggregates) ==
    Cardinality({aggregates[i] : i \in DOMAIN aggregates}) = Len(aggregates)

Accepts(r) == NoDuplicates(r.aggregates) /\ ValidTimeRange(r.from, r.to)

Receive(r) ==
    /\ pc = "idle"
    /\ req' = r
    /\ rows' = <<>>
    /\ IF Accepts(r)
         THEN pc' = "filters" /\ status' = 0
         ELSE pc' = "idle" /\ status' = 400
    /\ filter' = NoFilters /\ t' = 0 /\ row' = {} /\ before' = {}
    /\ UNCHANGED <<counted, unread, fresh, faults>>

-----------------------------------------------------------------------------
(* aggregates: the filters and the loop over the minutes.                  *)

EndsWith(code) == pc' = "idle" /\ status' = code

\* getId: no id for no element; the service does not create the id.
IdOf(c, e, id) == IF e = NoElement THEN id = NoFilter ELSE id \in IdsOf[c][e]

FiltersKnown ==
    \A c \in Collections : req[c] = NoElement \/ \E p \in counted : p.tag[c] = req[c]

NewFilters(f) ==
    /\ pc = "filters"
    /\ IdOf("origin", req.origin, f.origin)
    /\ IdOf("category", req.category, f.category)
    /\ IdOf("brand", req.brand, f.brand)
    /\ filter' = f
    /\ t' = req.from
    /\ pc' = "minute"
    /\ UNCHANGED <<counted, req, unread, fresh, row, rows, status, before, faults>>

AnswersNotFound ==      \* seeded defect: an unknown element is an answer of its own
    /\ pc = "filters"
    /\ ~ FiltersKnown
    /\ EndsWith(404)
    /\ UNCHANGED <<counted, req, filter, t, unread, fresh, row, rows, before, faults>>

\* The service does not know an element, or cannot be reached.
NewFiltersFails ==
    /\ pc = "filters"
    /\ \/ ~ FiltersKnown /\ UNCHANGED faults
       \/ Fault
    /\ EndsWith(500)
    /\ UNCHANGED <<counted, req, filter, t, unread, fresh, row, rows, before>>

UntilInclusive == t <= req.to   \* seeded defect: the minute that begins at the end too

InRange == t < req.to

\* Get: the index is there, and the query of its records begins.
QueryMinute ==
    /\ pc = "minute"
    /\ InRange
    /\ unread' = {n \in Names(counted) : n.ts = ToTs(t)}
    /\ before' = counted
    /\ pc' = "scan"
    /\ UNCHANGED <<counted, req, filter, t, fresh, row, rows, status, faults>>

\* Aggregates() creates the index for every minute; when this fails, the process ends.
CreateIndexFails ==
    /\ pc = "minute"
    /\ InRange
    /\ Fault
    /\ pc' = "down"
    /\ UNCHANGED <<counted, handlerVars>>

\* A replica is started in its place.
Restart ==
    /\ pc = "down"
    /\ pc' = "idle"
    /\ UNCHANGED <<counted, handlerVars, faults>>

CheckFilter(f, k) == f = NoFilter \/ f = k

Match(f, ids) ==
    /\ CheckFilter(f.origin, ids.origin)
    /\ CheckFilter(f.brand, ids.brand)
    /\ CheckFilter(f.category, ids.category)

\* The bin of the action in record n; it may be missing.
Bin(n) == {p \in counted : p.name = n /\ p.tag.action = req.action}

ReadAgain(n) ==     \* seeded defect: a record is returned over and over
    /\ pc = "scan"
    /\ n \in unread \cup fresh
    /\ row' = IF Match(filter, Decode(n.key)) THEN row \cup Bin(n) ELSE row
    /\ UNCHANGED <<counted, pc, req, filter, t, unread, fresh, rows, status, before, faults>>

\* One result of the query, decoded, filtered and summed up.
ReadRecord(n) ==
    /\ pc = "scan"
    /\ n \in unread \cup fresh
    /\ row' = IF Match(filter, Decode(n.key)) THEN row \cup Bin(n) ELSE row
    /\ unread' = unread \ {n}
    /\ fresh' = fresh \ {n}
    /\ UNCHANGED <<counted, pc, req, filter, t, rows, status, before, faults>>

\* The results are exhausted: the row is appended, and the loop goes on.
EndMinute ==
    /\ pc = "scan"
    /\ unread = {}
    /\ rows' = Append(rows, [time |-> t, got |-> row, before |-> before])
    /\ t' = t + Minute
    /\ pc' = "minute"
    /\ fresh' = {} /\ row' = {} /\ before' = {}
    /\ UNCHANGED <<counted, req, filter, unread, status, faults>>

\* The query fails, at its begin or at one of its results: so does the request.
QueryFails ==
    /\ pc = "scan"
    /\ Fault
    /\ EndsWith(500)
    /\ unread' = {} /\ fresh' = {} /\ row' = {}
    /\ UNCHANGED <<counted, req, filter, t, rows, before>>

Respond ==
    /\ pc = "minute"
    /\ ~ InRange
    /\ EndsWith(200)
    /\ UNCHANGED <<counted, req, filter, t, unread, fresh, row, rows, before, faults>>

-----------------------------------------------------------------------------
Step ==
    \/ \E f \in Filter : NewFilters(f)
    \/ QueryMinute
    \/ \E n \in unread \cup fresh : ReadRecord(n)
    \/ EndMinute
    \/ Respond

Next ==
    \/ \E g \in Tags : \E ids \in IdsOfTag(g) : Add(g, ids)
    \/ \E r \in Requests : Receive(r)
    \/ Step
    \/ NewFiltersFails
    \/ CreateIndexFails
    \/ QueryFails
    \/ Restart

Spec == Init /\ [][Next]_vars

\* The handler runs and its calls return.
FairSpec == Spec /\ WF_vars(Step)

-----------------------------------------------------------------------------
(* Properties.                                                             *)

(***************************************************************************)
(* A row sums up every tag of its minute, its action and its elements that *)
(* was counted when the minute was queried, and nothing but such tags      *)
(* counted by its end, although records are created and changed under the  *)
(* query.  An element that shares an id with another one of its            *)
(* collection, as the id service allows, may be taken for it, and no other *)
(* may; when every element of a collection has one id of its own, rows are *)
(* exact (aggregates.go:110-137, 198-243).  Minute 0 also counts the tags  *)
(* of the minute before 1970, because the division rounds toward zero      *)
(* (pkg/db/aggregates.go:44).                                              *)
(***************************************************************************)
MustMatch(c, a, e) == a = NoElement \/ \A i \in IdsOf[c][a], j \in IdsOf[c][e] : i = j

MayMatch(c, a, e) == a = NoElement \/ IdsOf[c][a] \cap IdsOf[c][e] # {}

MustCount(time, g) ==
    /\ g.action = req.action
    /\ g.time \div Minute = time \div Minute
    /\ MustMatch("origin", req.origin, g.origin)
    /\ MustMatch("brand", req.brand, g.brand)
    /\ MustMatch("category", req.category, g.category)

MayCount(time, g) ==
    /\ g.action = req.action
    /\ \/ g.time \div Minute = time \div Minute
       \/ time \div Minute = 0 /\ g.time \div Minute = -1
    /\ MayMatch("origin", req.origin, g.origin)
    /\ MayMatch("brand", req.brand, g.brand)
    /\ MayMatch("category", req.category, g.category)

RowBetween(r) ==
    r.time >= 0 =>
      /\ \A p \in r.before : MustCount(r.time, p.tag) => p \in r.got
      /\ \A p \in r.got : p \in counted /\ MayCount(r.time, p.tag)

RowsBetween == \A i \in DOMAIN rows : RowBetween(rows[i])

(***************************************************************************)
(* An answer has one row for every whole minute of its time range, from    *)
(* the minute its start is in, in order, none that begins at its end or    *)
(* later and no more than ten; no tag is counted in two rows               *)
(* (aggregates.go:73-87, 116-124).                                         *)
(***************************************************************************)
RowsCover ==
    status = 200 =>
      /\ Len(rows) <= MaxMinutes
      /\ \A i \in DOMAIN rows : rows[i].time < req.to
      /\ \A m \in (req.from \div Minute) .. (req.to \div Minute) - 1 :
           Cardinality({i \in DOMAIN rows : rows[i].time \div Minute = m}) = 1
      /\ \A i, j \in DOMAIN rows :
           i < j => /\ rows[i].time < rows[j].time
                    /\ rows[i].got \cap rows[j].got = {}

(***************************************************************************)
(* Every request is answered, unless the replica ends: records that are    *)
(* created under a query do not keep it going (aggregates.go:116,          *)
(* pkg/db/aggregates.go:90).                                               *)
(***************************************************************************)
QueriesReturn == pc = "filters" ~> pc \in {"idle", "down"}
=============================================================================
