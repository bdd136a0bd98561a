----------------------- MODULE AggregatesQueryProofs -----------------------
(***************************************************************************)
(* Proofs about the query of the aggregates, for every set of tags,        *)
(* elements, ids and requests, and every length of a minute.               *)
(*                                                                         *)
(* The inductive invariant says where a selected tag that was counted      *)
(* before the query of its minute is: summed up, or in a record that is    *)
(* yet to be read (ScanInv).  Nothing but additions happens to the records *)
(* meanwhile.  What is selected is what was asked for because a key gives  *)
(* back its ids (DecodeEncode), and the minute of a record is that of its  *)
(* tags, but for those before 1970 (SameTs).                               *)
(***************************************************************************)
EXTENDS AggregatesQuery, Division, FiniteSetTheorems, SequenceTheorems, TLAPS

\* The record of a counted tag is named by its minute and by ids of its elements.
NamesInv == \A p \in counted : \E ids \in IdsOfTag(p.tag) : p.name = NameOf(p.tag, ids)

\* The handler at work has a request, and filters by ids of its elements.
RequestInv ==
    /\ pc \in {"filters", "minute", "scan"} => req \in Requests
    /\ pc \in {"minute", "scan"} =>
         IdOf("origin", req.origin, filter.origin) /\ IdOf("brand", req.brand, filter.brand)
           /\ IdOf("category", req.category, filter.category)

\* Counted tag p belongs to the row of the minute of the loop, as Get sees it.
Selected(p) ==
    /\ p.name.ts = ToTs(t)
    /\ p.tag.action = req.action
    /\ Match(filter, Decode(p.name.key))

ScanInv ==
    /\ pc # "scan" => row = {} /\ fresh = {}
    /\ pc = "scan" =>
         /\ before \subseteq counted
         /\ \A n \in unread \cup fresh : n.ts = ToTs(t)
         /\ \A p \in row : p \in counted /\ Selected(p)
         /\ \A p \in before : Selected(p) => p \in row \/ p.name \in unread

\* The rows so far are those of the minutes from the start of the range on.
RowsAligned ==
    \A i \in DOMAIN rows :
      /\ rows[i].time = req.from + (i - 1) * Minute
      /\ rows[i].time < req.to
      /\ \A p \in rows[i].got : p.name.ts = ToTs(rows[i].time)

LoopInv ==
    /\ pc \in {"filters", "minute", "scan"} => Accepts(req)
    /\ pc = "filters" => rows = <<>>
    /\ pc \in {"minute", "scan"} => t = req.from + Len(rows) * Minute /\ RowsAligned
    /\ pc = "scan" => t < req.to
    /\ status = 200 => /\ pc = "idle"
                       /\ req \in Requests /\ Accepts(req) /\ RowsAligned
                       /\ req.to <= req.from + Len(rows) * Minute

IInv == TypeOK /\ NamesInv /\ RequestInv /\ ScanInv /\ RowsBetween /\ LoopInv

-----------------------------------------------------------------------------
(* Arithmetic of names.                                                    *)

\* A key gives back the ids it is made of, for any width of its fields.
LEMMA DecodeEncode ==
    ASSUME NEW ids \in [origin : Ids, brand : Ids, category : Ids]
    PROVE  Decode(Encode(ids)) = ids /\ Encode(ids) \in Nat
<1> DEFINE w == IdWidth
           o == ids.origin
           b == ids.brand
           c == ids.category
           high == c * w + b
<1>1. /\ w \in Nat \ {0}
      /\ o \in Nat /\ o < w /\ b \in Nat /\ b < w /\ c \in Nat /\ c < w
  BY IdsAssumption DEF Ids
<1>2. high \in Nat /\ high * w + o \in Nat /\ Encode(ids) = high * w + o
  BY <1>1 DEF Encode
<1>3. (high * w + o) \div w = high /\ (high * w + o) % w = o
  <2>1. high \in Int /\ o \in Int /\ w \in Nat \ {0} /\ 0 <= o /\ o < w
    BY <1>1, <1>2
  <2> HIDE DEF high, w, o
  <2> QED
    BY <2>1, DivideSum
<1>4. high \div w = c /\ high % w = b
  <2> HIDE DEF w, c, b
  <2> QED
    BY <1>1, DivideSum DEF high
<1>5. c % w = c
  BY <1>1
<1>6. Decode(Encode(ids)) = [origin |-> o, brand |-> b, category |-> c]
  <2> HIDE DEF high, w, o, b, c
  <2>1. Decode(Encode(ids)) =
          [origin |-> (high * w + o) % w,
           brand |-> ((high * w + o) \div w) % w,
           category |-> (((high * w + o) \div w) \div w) % w]
    BY <1>2 DEF Decode, w
  <2> QED
    BY <2>1, <1>3, <1>4, <1>5
<1>7. ids = [origin |-> o, brand |-> b, category |-> c]
  OBVIOUS
<1> QED
  BY <1>2, <1>6, <1>7

LEMMA MinuteIsNat == Minute \in Nat \ {0}
BY TimeAssumption DEF Minute

\* From 1970 on, the minute of a record is the minute of its time.
LEMMA ToTsOfNat ==
    ASSUME NEW time \in Int, time >= 0
    PROVE  ToTs(time) = time \div Minute /\ ToTs(time) >= 0
<1>1. time \div Second >= 0 /\ time \div Second \in Int
  BY TimeAssumption
<1>2. ToTs(time) = (time \div Second) \div MinuteSeconds
  BY <1>1 DEF ToTs
<1>3. (time \div Second) \div MinuteSeconds = time \div Minute
  BY NestedDivision, TimeAssumption DEF Minute
<1>4. time \div Minute >= 0
  BY MinuteIsNat
<1> QED
  BY <1>2, <1>3, <1>4

\* Before 1970, a record of minute 0 is of the last minute, and no later one exists.
LEMMA ToTsOfNegative ==
    ASSUME NEW time \in Int, time < 0, ToTs(time) >= 0
    PROVE  ToTs(time) = 0 /\ time \div Minute = -1
<1> DEFINE u == time \div Second
           r == time % Second
           q == (-u) \div MinuteSeconds
           l == (-u) % MinuteSeconds
<1>1. u \in Int /\ r \in Int /\ time = u * Second + r /\ 0 <= r /\ r < Second
  BY Division, TimeAssumption
<1>2. u < 0
  <2> HIDE DEF u, r
  <2>1. ASSUME u >= 0 PROVE u * Second >= 0
    BY <1>1, <2>1, TimeAssumption
  <2> QED
    BY <1>1, <2>1, TimeAssumption
<1>3. ToTs(time) = -q
  BY <1>1, <1>2 DEF ToTs
<1>4. /\ q \in Int /\ l \in Int /\ -u = q * MinuteSeconds + l
      /\ 0 <= l /\ l < MinuteSeconds
  <2> HIDE DEF u
  <2> QED
    BY <1>1, Division, TimeAssumption
<1> HIDE DEF u, r, q, l
<1>5. q = 0
  <2>1. q <= 0
    BY <1>3, <1>4
  <2>2. ASSUME q <= -1 PROVE FALSE
    <3>1. (-1 - q) * MinuteSeconds >= 0
      BY <1>4, <2>2, TimeAssumption
    <3> QED
      BY <1>1, <1>2, <1>4, <3>1, TimeAssumption
  <2> QED
    BY <1>4, <2>1, <2>2
<1>6. 1 <= -u /\ -u <= MinuteSeconds - 1
  BY <1>1, <1>2, <1>4, <1>5, TimeAssumption
<1> DEFINE s == time + Minute
<1>7. s \in Int /\ 0 <= s /\ s < Minute
  <2>1. (MinuteSeconds + u) * Second >= 0
    BY <1>1, <1>6, TimeAssumption
  <2>2. (MinuteSeconds + u) * Second = MinuteSeconds * Second + u * Second
    BY <1>1, TimeAssumption
  <2> QED
    BY <1>1, <2>1, <2>2, TimeAssumption, MinuteIsNat DEF Minute
<1>8. (-1 * Minute + s) \div Minute = -1
  <2> HIDE DEF s
  <2> QED
    BY <1>7, DivideSum, MinuteIsNat
<1>9. time = -1 * Minute + s
  BY MinuteIsNat
<1> HIDE DEF s
<1>10. time \div Minute = (-1 * Minute + s) \div Minute
  BY <1>9
<1>11. ToTs(time) = 0
  <2>1. -q <= 0 /\ -q >= 0 /\ -q \in Int
    BY <1>4, <1>5
  <2> QED
    BY <1>3, <2>1
<1> QED
  BY <1>8, <1>10, <1>11

\* Times of a record are of its minute, or of the last one before 1970.
LEMMA SameTs ==
    ASSUME NEW time \in Int, NEW begin \in Int, begin >= 0
    PROVE  /\ time \div Minute = begin \div Minute => ToTs(time) = ToTs(begin)
           /\ ToTs(time) = ToTs(begin) =>
                \/ time \div Minute = begin \div Minute
                \/ begin \div Minute = 0 /\ time \div Minute = -1
<1>1. ToTs(begin) = begin \div Minute /\ ToTs(begin) >= 0 /\ begin \div Minute >= 0
  BY ToTsOfNat
<1>2. CASE time >= 0
  BY <1>1, <1>2, ToTsOfNat
<1>3. CASE time < 0
  <2>1. time \div Minute < 0
    <3>1. time = (time \div Minute) * Minute + (time % Minute) /\ 0 <= time % Minute
            /\ time \div Minute \in Int /\ time % Minute \in Int
      BY MinuteIsNat, Division
    <3> DEFINE d == time \div Minute
               m == time % Minute
    <3> HIDE DEF d, m
    <3>2. time = d * Minute + m /\ 0 <= m /\ d \in Int /\ m \in Int
      BY <3>1 DEF d, m
    <3>3. ASSUME d >= 0 PROVE d * Minute >= 0
      BY <3>2, <3>3, MinuteIsNat
    <3>4. d < 0
      BY <1>3, <3>2, <3>3, MinuteIsNat
    <3> QED
      BY <3>4 DEF d
  <2>2. ASSUME ToTs(time) = ToTs(begin)
        PROVE  begin \div Minute = 0 /\ time \div Minute = -1
    <3>1. ToTs(time) >= 0
      BY <1>1, <2>2
    <3> QED
      BY <1>1, <1>3, <2>2, <3>1, ToTsOfNegative
  <2>3. time \div Minute # begin \div Minute
    BY <1>1, <2>1, MinuteIsNat
  <2> QED
    BY <2>2, <2>3
<1> QED
  BY <1>2, <1>3

LEMMA NameOfType ==
    ASSUME NEW g \in Tags, NEW ids \in IdsOfTag(g)
    PROVE  /\ NameOf(g, ids) \in Name
           /\ ids \in [origin : Ids, brand : Ids, category : Ids]
           /\ NameOf(g, ids).ts = ToTs(g.time)
           /\ Decode(NameOf(g, ids).key) = ids
<1>1. ids \in [origin : Ids, brand : Ids, category : Ids]
  BY IdsAssumption, TagsAssumption DEF IdsOfTag, Collections
<1>2. ToTs(g.time) \in Int
  <2>1. g.time \in Int
    BY TagsAssumption
  <2>2. g.time \div Second \in Int
    BY <2>1, TimeAssumption
  <2> QED
    BY <2>2, TimeAssumption DEF ToTs
<1> QED
  BY <1>1, <1>2, DecodeEncode DEF NameOf, Name

\* A filter passes every id of an element that cannot be told from the one asked for, and
\* no id but those of elements that share one with it.
LEMMA FilterSelects ==
    ASSUME NEW c \in Collections, NEW a \in Elements \cup {NoElement}, NEW e \in Elements,
           NEW f, IdOf(c, a, f), NEW k \in IdsOf[c][e]
    PROVE  /\ MustMatch(c, a, e) => CheckFilter(f, k)
           /\ CheckFilter(f, k) => MayMatch(c, a, e)
<1>1. CASE a = NoElement
  BY <1>1 DEF IdOf, MustMatch, MayMatch, CheckFilter
<1>2. CASE a # NoElement
  <2>1. f \in IdsOf[c][a] /\ f \in Ids /\ k \in Ids
    BY <1>2, IdsAssumption DEF IdOf
  <2>2. f # NoFilter
    BY <2>1, IdsAssumption DEF Ids, NoFilter
  <2> QED
    BY <1>2, <2>1, <2>2 DEF MustMatch, MayMatch, CheckFilter
<1> QED
  BY <1>1, <1>2

-----------------------------------------------------------------------------
(* The steps.                                                              *)

LEMMA TypeStep ==
    ASSUME TypeOK, RequestInv, [Next]_vars
    PROVE  TypeOK'
<1> USE DEF TypeOK, handlerVars, EndsWith
<1>1. ASSUME NEW g \in Tags, NEW ids \in IdsOfTag(g), Add(g, ids)
      PROVE  TypeOK'
  <2>1. NameOf(g, ids) \in Name
    BY NameOfType
  <2>2. counted' \in SUBSET Entry
    BY <1>1, <2>1 DEF Add, Entry
  <2>3. fresh' \in SUBSET Name
    BY <1>1, <2>1 DEF Add
  <2> QED
    BY <1>1, <2>2, <2>3 DEF Add
<1>2. ASSUME NEW r \in Requests, Receive(r)
      PROVE  TypeOK'
  <2>1. NoFilters \in Filter
    BY DEF NoFilters, Filter, NoFilter
  <2>2. <<>> \in Seq(Row)
    BY EmptySeq
  <2> QED
    BY <1>2, <2>1, <2>2 DEF Receive
<1>3. ASSUME NEW f \in Filter, NewFilters(f)
      PROVE  TypeOK'
  <2>1. req.from \in Int
    BY <1>3, RequestsAssumption DEF NewFilters, RequestInv
  <2> QED
    BY <1>3, <2>1 DEF NewFilters
<1>4. CASE QueryMinute
  BY <1>4 DEF QueryMinute, Names, Entry
<1>5. ASSUME NEW n \in unread \cup fresh, ReadRecord(n)
      PROVE  TypeOK'
  <2>1. row' \in SUBSET Entry
    BY <1>5 DEF ReadRecord, Bin
  <2> QED
    BY <1>5, <2>1 DEF ReadRecord
<1>6. CASE EndMinute
  <2>1. t' \in Int
    BY <1>6, MinuteIsNat DEF EndMinute
  <2>2. rows' \in Seq(Row)
    <3>1. [time |-> t, got |-> row, before |-> before] \in Row
      BY DEF Row
    <3> QED
      BY <1>6, <3>1, AppendProperties DEF EndMinute
  <2> QED
    BY <1>6, <2>1, <2>2 DEF EndMinute
<1>7. CASE Respond
  BY <1>7 DEF Respond
<1>8. CASE NewFiltersFails
  BY <1>8, BoundsAssumption DEF NewFiltersFails, Fault
<1>9. CASE CreateIndexFails
  BY <1>9, BoundsAssumption DEF CreateIndexFails, Fault
<1>10. CASE QueryFails
  BY <1>10, BoundsAssumption DEF QueryFails, Fault
<1>11. CASE Restart
  BY <1>11 DEF Restart
<1>12. CASE UNCHANGED vars
  BY <1>12 DEF vars
<1> QED
  BY <1>1, <1>2, <1>3, <1>4, <1>5, <1>6, <1>7, <1>8, <1>9, <1>10, <1>11, <1>12
  DEF Next, Step

\* Records are never removed, and each is named by ids of its tags.
LEMMA NamesStep ==
    ASSUME NamesInv, [Next]_vars
    PROVE  NamesInv' /\ counted \subseteq counted'
<1>1. ASSUME NEW g \in Tags, NEW ids \in IdsOfTag(g), Add(g, ids)
      PROVE  NamesInv' /\ counted \subseteq counted'
  <2>1. counted' = counted \cup {[tag |-> g, name |-> NameOf(g, ids)]}
    BY <1>1 DEF Add
  <2> QED
    BY <2>1 DEF NamesInv
<1>2. CASE UNCHANGED counted
  BY <1>2 DEF NamesInv
<1> QED
  BY <1>1, <1>2
  DEF Next, Step, Receive, NewFilters, QueryMinute, ReadRecord, EndMinute, Respond,
      NewFiltersFails, CreateIndexFails, QueryFails, Restart, vars, handlerVars

LEMMA RequestStep ==
    ASSUME RequestInv, [Next]_vars
    PROVE  RequestInv'
<1>1. ASSUME NEW r \in Requests, Receive(r)
      PROVE  RequestInv'
  BY <1>1 DEF Receive, RequestInv
<1>2. ASSUME NEW f \in Filter, NewFilters(f)
      PROVE  RequestInv'
  BY <1>2 DEF NewFilters, RequestInv, IdOf
<1>3. ASSUME UNCHANGED <<req, filter>>,
             \/ pc' \in {"idle", "down", pc}
             \/ pc \in {"minute", "scan"} /\ pc' \in {"minute", "scan"}
      PROVE  RequestInv'
  BY <1>3 DEF RequestInv, IdOf
<1> QED
  BY <1>1, <1>2, <1>3
  DEF Next, Step, Add, QueryMinute, ReadRecord, EndMinute, Respond, NewFiltersFails,
      CreateIndexFails, QueryFails, Restart, EndsWith, vars, handlerVars

\* Selected does not change while the handler does not.
LEMMA SelectedKept ==
    ASSUME UNCHANGED <<t, req, filter>>, NEW p
    PROVE  Selected(p)' <=> Selected(p)
BY DEF Selected, ToTs, Match, CheckFilter, Decode

LEMMA ScanStep ==
    ASSUME TypeOK, NamesInv, ScanInv, [Next]_vars
    PROVE  ScanInv'
<1>1. ASSUME NEW g \in Tags, NEW ids \in IdsOfTag(g), Add(g, ids)
      PROVE  ScanInv'
  <2>1. counted \subseteq counted'
    BY NamesStep
  <2>2. /\ UNCHANGED <<pc, req, filter, t, unread, row, before>>
        /\ fresh' = fresh \/ (pc = "scan" /\ NameOf(g, ids).ts = ToTs(t)
                                /\ fresh' = fresh \cup {NameOf(g, ids)})
    BY <1>1 DEF Add
  <2>3. \A p : Selected(p)' <=> Selected(p)
    BY <2>2, SelectedKept
  <2>4. ToTs(t)' = ToTs(t)
    BY <2>2 DEF ToTs
  <2>5. CASE pc = "scan"
    BY <2>1, <2>2, <2>3, <2>4, <2>5 DEF ScanInv
  <2>6. CASE pc # "scan"
    BY <2>2, <2>6 DEF ScanInv
  <2> QED
    BY <2>5, <2>6
<1>2. CASE QueryMinute
  <2>1. /\ pc = "minute" /\ pc' = "scan" /\ before' = counted /\ row' = row /\ fresh' = fresh
        /\ unread' = {n \in Names(counted) : n.ts = ToTs(t)}
        /\ UNCHANGED <<counted, t, req, filter>>
    BY <1>2 DEF QueryMinute
  <2>2. row' = {} /\ fresh' = {}
    BY <2>1 DEF ScanInv
  <2>3. \A p : Selected(p)' <=> Selected(p)
    BY <2>1, SelectedKept
  <2>4. ToTs(t)' = ToTs(t)
    BY <2>1 DEF ToTs
  <2>5. ASSUME NEW p \in before', Selected(p)'
        PROVE  p.name \in unread'
    BY <2>1, <2>3, <2>5 DEF Selected, Names
  <2> QED
    BY <2>1, <2>2, <2>4, <2>5 DEF ScanInv
<1>3. ASSUME NEW n \in unread \cup fresh, ReadRecord(n)
      PROVE  ScanInv'
  <2>1. /\ pc = "scan" /\ pc' = "scan"
        /\ row' = (IF Match(filter, Decode(n.key)) THEN row \cup Bin(n) ELSE row)
        /\ unread' = unread \ {n} /\ fresh' = fresh \ {n}
        /\ UNCHANGED <<counted, before, t, req, filter>>
    BY <1>3 DEF ReadRecord
  <2>2. \A p : Selected(p)' <=> Selected(p)
    BY <2>1, SelectedKept
  <2>3. ToTs(t)' = ToTs(t)
    BY <2>1 DEF ToTs
  <2>4. ASSUME NEW p \in row'
        PROVE  p \in counted /\ Selected(p)
    BY <1>3, <2>1, <2>4 DEF ScanInv, Bin, Selected
  <2>5. ASSUME NEW p \in before, Selected(p)
        PROVE  p \in row' \/ p.name \in unread'
    <3>1. p \in counted /\ (p \in row \/ p.name \in unread)
      BY <2>1, <2>5 DEF ScanInv
    <3>2. CASE p.name = n
      BY <2>1, <2>5, <3>1, <3>2 DEF Bin, Selected
    <3> QED
      BY <2>1, <3>1, <3>2
  <2> QED
    BY <2>1, <2>2, <2>3, <2>4, <2>5 DEF ScanInv
<1>4. CASE EndMinute \/ QueryFails
  BY <1>4 DEF EndMinute, QueryFails, EndsWith, ScanInv
<1>5. ASSUME pc # "scan", pc' # "scan", row' \in {row, {}}, fresh' = fresh
      PROVE  ScanInv'
  BY <1>5 DEF ScanInv
<1>6. CASE UNCHANGED vars
  <2>1. \A p : Selected(p)' <=> Selected(p)
    BY <1>6, SelectedKept DEF vars, handlerVars
  <2>2. ToTs(t)' = ToTs(t)
    BY <1>6 DEF ToTs, vars, handlerVars
  <2> QED
    BY <1>6, <2>1, <2>2 DEF ScanInv, vars, handlerVars
<1> QED
  BY <1>1, <1>2, <1>3, <1>4, <1>5, <1>6
  DEF Next, Step, Receive, NewFilters, Respond, NewFiltersFails, CreateIndexFails, Restart,
      EndsWith, handlerVars

-----------------------------------------------------------------------------
(* The rows.                                                               *)

\* What the handler selects lies between what it must and what it may count.
LEMMA SelectedBetween ==
    ASSUME TypeOK, NamesInv, RequestInv, pc = "scan", t >= 0, NEW p \in counted
    PROVE  /\ MustCount(t, p.tag) => Selected(p)
           /\ Selected(p) => MayCount(t, p.tag)
<1> DEFINE g == p.tag
<1>1. g \in Tags /\ t \in Int
  BY DEF TypeOK, Entry
<1>2. PICK ids \in IdsOfTag(g) : p.name = NameOf(g, ids)
  BY DEF NamesInv
<1>3. /\ g.time \in Int
      /\ g.origin \in Elements /\ g.brand \in Elements /\ g.category \in Elements
  BY <1>1, TagsAssumption
<1>4. p.name.ts = ToTs(g.time) /\ Decode(p.name.key) = ids
  BY <1>1, <1>2, NameOfType
<1>5. /\ ids.origin \in IdsOf["origin"][g.origin]
      /\ ids.brand \in IdsOf["brand"][g.brand]
      /\ ids.category \in IdsOf["category"][g.category]
  BY <1>2 DEF IdsOfTag
<1>6. /\ req.origin \in Elements \cup {NoElement} /\ IdOf("origin", req.origin, filter.origin)
      /\ req.brand \in Elements \cup {NoElement} /\ IdOf("brand", req.brand, filter.brand)
      /\ req.category \in Elements \cup {NoElement} /\ IdOf("category", req.category, filter.category)
  BY RequestsAssumption DEF RequestInv
<1> HIDE DEF g
<1>7. /\ MustMatch("origin", req.origin, g.origin) => CheckFilter(filter.origin, ids.origin)
      /\ CheckFilter(filter.origin, ids.origin) => MayMatch("origin", req.origin, g.origin)
  BY <1>3, <1>5, <1>6, FilterSelects DEF Collections
<1>8. /\ MustMatch("brand", req.brand, g.brand) => CheckFilter(filter.brand, ids.brand)
      /\ CheckFilter(filter.brand, ids.brand) => MayMatch("brand", req.brand, g.brand)
  BY <1>3, <1>5, <1>6, FilterSelects DEF Collections
<1>9. /\ MustMatch("category", req.category, g.category) => CheckFilter(filter.category, ids.category)
      /\ CheckFilter(filter.category, ids.category) => MayMatch("category", req.category, g.category)
  BY <1>3, <1>5, <1>6, FilterSelects DEF Collections
<1>10. /\ g.time \div Minute = t \div Minute => p.name.ts = ToTs(t)
       /\ p.name.ts = ToTs(t) =>
            g.time \div Minute = t \div Minute
              \/ (t \div Minute = 0 /\ g.time \div Minute = -1)
  BY <1>1, <1>3, <1>4, SameTs
<1>11. MustCount(t, g) => Selected(p)
  BY <1>4, <1>7, <1>8, <1>9, <1>10 DEF MustCount, Selected, Match, g
<1>12. Selected(p) => MayCount(t, g)
  BY <1>4, <1>7, <1>8, <1>9, <1>10 DEF MayCount, Selected, Match, g
<1> QED
  BY <1>11, <1>12 DEF g

LEMMA RowsStep ==
    ASSUME IInv, [Next]_vars
    PROVE  RowsBetween'
<1> USE DEF IInv
<1>1. counted \subseteq counted'
  BY NamesStep
<1>2. CASE UNCHANGED <<req, rows>>
  BY <1>1, <1>2 DEF RowsBetween, RowBetween, MustCount, MayCount, MustMatch, MayMatch
<1>3. ASSUME NEW r \in Requests, Receive(r)
      PROVE  RowsBetween'
  BY <1>3 DEF Receive, RowsBetween
<1>4. CASE EndMinute
  <2> DEFINE new == [time |-> t, got |-> row, before |-> before]
  <2>1. /\ pc = "scan" /\ unread = {} /\ UNCHANGED <<counted, req>>
        /\ rows' = Append(rows, new)
    BY <1>4 DEF EndMinute
  <2>2. RowBetween(new)
    <3>1. SUFFICES ASSUME t >= 0
                   PROVE  /\ \A p \in before : MustCount(t, p.tag) => p \in row
                          /\ \A p \in row : p \in counted /\ MayCount(t, p.tag)
      BY DEF RowBetween
    <3>2. ASSUME NEW p \in before, MustCount(t, p.tag)
          PROVE  p \in row
      <4>1. p \in counted
        BY <2>1, <3>2 DEF ScanInv
      <4>2. Selected(p)
        BY <2>1, <3>1, <3>2, <4>1, SelectedBetween
      <4> QED
        BY <2>1, <3>2, <4>2 DEF ScanInv
    <3>3. ASSUME NEW p \in row
          PROVE  p \in counted /\ MayCount(t, p.tag)
      <4>1. p \in counted /\ Selected(p)
        BY <2>1, <3>3 DEF ScanInv
      <4> QED
        BY <2>1, <3>1, <4>1, SelectedBetween
    <3> QED
      BY <3>2, <3>3
  <2>3. \A r : RowBetween(r)' <=> RowBetween(r)
    BY <2>1 DEF RowBetween, MustCount, MayCount, MustMatch, MayMatch
  <2>4. \A i \in DOMAIN rows' : rows'[i] = new \/ (i \in DOMAIN rows /\ rows'[i] = rows[i])
    <3>1. rows \in Seq(Row) /\ new \in Row
      BY DEF TypeOK, Row
    <3> HIDE DEF new
    <3> QED
      BY <2>1, <3>1, AppendProperties, LenProperties
  <2> HIDE DEF new
  <2> QED
    BY <2>2, <2>3, <2>4 DEF RowsBetween
<1> QED
  BY <1>2, <1>3, <1>4
  DEF Next, Step, Add, NewFilters, QueryMinute, ReadRecord, Respond, NewFiltersFails,
      CreateIndexFails, QueryFails, Restart, vars, handlerVars

-----------------------------------------------------------------------------
(* The loop over the minutes.                                              *)

LEMMA LoopStep ==
    ASSUME IInv, [Next]_vars
    PROVE  LoopInv'
<1> USE DEF IInv
<1>1. ASSUME UNCHANGED <<req, rows>>
      PROVE  RowsAligned' <=> RowsAligned
  BY <1>1 DEF RowsAligned, ToTs
<1>2. ASSUME NEW r \in Requests, Receive(r)
      PROVE  LoopInv'
  BY <1>2 DEF Receive, LoopInv
<1>3. ASSUME NEW f \in Filter, NewFilters(f)
      PROVE  LoopInv'
  <2>1. /\ pc = "filters" /\ pc' = "minute" /\ t' = req.from
        /\ UNCHANGED <<req, rows, status>>
    BY <1>3 DEF NewFilters
  <2>2. rows = <<>> /\ Accepts(req) /\ status # 200 /\ req.from \in Int
    BY <2>1, RequestsAssumption DEF LoopInv, RequestInv
  <2>3. Len(rows) = 0 /\ RowsAligned
    BY <2>2 DEF RowsAligned
  <2>4. req.from = req.from + 0 * Minute
    BY <2>2, MinuteIsNat
  <2> QED
    BY <2>1, <2>2, <2>3, <2>4, <1>1 DEF LoopInv
<1>4. CASE QueryMinute
  <2>1. pc = "minute" /\ pc' = "scan" /\ t < req.to /\ UNCHANGED <<t, req, rows, status>>
    BY <1>4 DEF QueryMinute, InRange
  <2> QED
    BY <2>1, <1>1 DEF LoopInv
<1>5. CASE EndMinute
  <2> DEFINE new == [time |-> t, got |-> row, before |-> before]
             n == Len(rows)
  <2>1. /\ pc = "scan" /\ pc' = "minute" /\ t' = t + Minute
        /\ rows' = Append(rows, new) /\ UNCHANGED <<req, status>>
    BY <1>5 DEF EndMinute
  <2>2. /\ Accepts(req) /\ status # 200 /\ t < req.to /\ RowsAligned
        /\ t = req.from + n * Minute /\ req.from \in Int
    BY <2>1, RequestsAssumption DEF LoopInv, RequestInv
  <2>3. \A p \in row : p.name.ts = ToTs(t)
    BY <2>1 DEF ScanInv, Selected
  <2>4. /\ n \in Nat /\ Len(rows') = n + 1
        /\ \A i \in DOMAIN rows' :
             \/ i = n + 1 /\ rows'[i] = new
             \/ i \in DOMAIN rows /\ rows'[i] = rows[i]
    <3>1. rows \in Seq(Row) /\ new \in Row
      BY DEF TypeOK, Row
    <3> HIDE DEF new
    <3> QED
      BY <2>1, <3>1, AppendProperties, LenProperties
  <2>5. t' = req.from + (n + 1) * Minute
    <3>1. (n + 1) * Minute = n * Minute + Minute
      BY <2>4, MinuteIsNat
    <3> HIDE DEF n
    <3> QED
      BY <2>1, <2>2, <2>4, <3>1, MinuteIsNat
  <2>6. new.time = req.from + ((n + 1) - 1) * Minute /\ new.time < req.to
    <3>1. (n + 1) - 1 = n
      BY <2>4
    <3> QED
      BY <2>2, <3>1
  <2>7. \A p \in new.got : p.name.ts = ToTs(new.time)
    BY <2>3
  <2>8. RowsAligned'
    <3> HIDE DEF new, n
    <3> QED
      BY <2>1, <2>2, <2>4, <2>6, <2>7 DEF RowsAligned, ToTs
  <2> QED
    BY <2>1, <2>2, <2>4, <2>5, <2>8 DEF LoopInv
<1>6. CASE Respond
  <2>1. /\ pc = "minute" /\ ~ (t < req.to) /\ pc' = "idle" /\ status' = 200
        /\ UNCHANGED <<req, rows>>
    BY <1>6 DEF Respond, InRange, EndsWith
  <2>2. /\ Accepts(req) /\ req \in Requests /\ req.to \in Int /\ t \in Int /\ RowsAligned
        /\ t = req.from + Len(rows) * Minute
    BY <2>1, RequestsAssumption DEF LoopInv, RequestInv, TypeOK
  <2>3. req.to <= req.from + Len(rows) * Minute
    BY <2>1, <2>2
  <2> QED
    BY <2>1, <2>2, <2>3, <1>1 DEF LoopInv
<1>7. ASSUME UNCHANGED <<req, rows>>,
             \/ UNCHANGED <<pc, t, status>>
             \/ pc # "idle" /\ pc' = "idle" /\ status' = 500
             \/ pc # "idle" /\ pc' \in {"idle", "down"} /\ status' = status
      PROVE  LoopInv'
  BY <1>1, <1>7 DEF LoopInv
<1> QED
  BY <1>2, <1>3, <1>4, <1>5, <1>6, <1>7
  DEF Next, Step, Add, ReadRecord, NewFiltersFails, CreateIndexFails, QueryFails, Restart,
      EndsWith, vars, handlerVars

\* At the first second of a minute, or a fraction of it, the records are those of the minute.
LEMMA AlignedTs ==
    ASSUME NEW from \in Int, SecondOf(from) = 0, NEW k \in Nat
    PROVE  /\ (from + k * Minute) \div Minute = (from \div Minute) + k
           /\ ToTs(from + k * Minute) = (from \div Minute) + k
<1> DEFINE u == from \div Second
           r == from % Second
           q == u \div MinuteSeconds
           c == q + k
           time == from + k * Minute
<1>1. /\ u \in Int /\ r \in Int /\ from = u * Second + r /\ 0 <= r /\ r < Second
      /\ Second \in Nat \ {0} /\ MinuteSeconds \in Nat \ {0}
  BY Division, TimeAssumption
<1>2. q \in Int /\ u = q * MinuteSeconds
  <2>1. u % MinuteSeconds = 0
    BY DEF SecondOf
  <2> HIDE DEF u
  <2>2. u = (u \div MinuteSeconds) * MinuteSeconds + (u % MinuteSeconds)
          /\ u \div MinuteSeconds \in Int
    BY <1>1, Division
  <2>3. u = (u \div MinuteSeconds) * MinuteSeconds + 0
    BY <2>1, <2>2
  <2> QED
    BY <1>1, <2>2, <2>3
<1>3. q = from \div Minute
  BY <1>1, NestedDivision DEF Minute
<1> HIDE DEF u, r, q
<1>4. c \in Int /\ c * MinuteSeconds \in Int
  BY <1>1, <1>2
<1>5. time = (c * MinuteSeconds) * Second + r
  <2>1. from = (q * MinuteSeconds) * Second + r
    BY <1>1, <1>2
  <2>2. k * Minute = (k * MinuteSeconds) * Second
    BY <1>1 DEF Minute
  <2>3. (q * MinuteSeconds) * Second + (k * MinuteSeconds) * Second
          = ((q + k) * MinuteSeconds) * Second
    BY <1>1, <1>2
  <2>4. (q * MinuteSeconds) * Second \in Int /\ (k * MinuteSeconds) * Second \in Int
    BY <1>1, <1>2
  <2> QED
    BY <1>1, <2>1, <2>2, <2>3, <2>4
<1>6. time \in Int
  BY MinuteIsNat
<1> HIDE DEF c, time
<1>7. time \div Second = c * MinuteSeconds
  BY <1>1, <1>4, <1>5, DivideSum
<1>8. time \div Minute = c
  <2>1. (c * MinuteSeconds) \div MinuteSeconds = c
    <3>1. (c * MinuteSeconds + 0) \div MinuteSeconds = c
      BY <1>1, <1>4, DivideSum
    <3> QED
      BY <1>4, <3>1
  <2>2. (time \div Second) \div MinuteSeconds = time \div (MinuteSeconds * Second)
    BY <1>1, <1>6, NestedDivision
  <2>3. (time \div Second) \div MinuteSeconds = c
    BY <1>7, <2>1
  <2> QED
    BY <2>2, <2>3 DEF Minute
<1>9. ToTs(time) = c
  <2> DEFINE v == c * MinuteSeconds
  <2>1. ToTs(time) = IF v >= 0 THEN v \div MinuteSeconds ELSE -((-v) \div MinuteSeconds)
    BY <1>7 DEF ToTs
  <2>2. v \div MinuteSeconds = c
    BY <1>1, <1>6, <1>7, <1>8, NestedDivision DEF Minute
  <2>3. (-v) \div MinuteSeconds = -c
    <3> DEFINE e == -c
    <3>1. e * MinuteSeconds + 0 = -v /\ e \in Int
      BY <1>1, <1>4
    <3> HIDE DEF e, v
    <3>2. (e * MinuteSeconds + 0) \div MinuteSeconds = e
      BY <1>1, <3>1, DivideSum
    <3>3. (-v) \div MinuteSeconds = e
      BY <3>1, <3>2
    <3> QED
      BY <3>3 DEF e
  <2>4. -(-c) = c
    BY <1>4
  <2> HIDE DEF v
  <2> QED
    BY <2>1, <2>2, <2>3, <2>4
<1> QED
  BY <1>3, <1>8, <1>9 DEF time, c

\* An answer has the rows of its time range.
LEMMA AnswerCovers ==
    ASSUME TypeOK, LoopInv, status = 200
    PROVE  RowsCover
<1> DEFINE from == req.from
           to == req.to
           n == Len(rows)
           w == Minute
           q == from \div Minute
           At(i) == from + (i - 1) * w
<1>1. /\ from \in Int /\ to \in Int /\ n \in Nat /\ w \in Nat \ {0} /\ q \in Int
      /\ DOMAIN rows = 1 .. n /\ rows \in Seq(Row)
  BY RequestsAssumption, MinuteIsNat, LenProperties DEF LoopInv, TypeOK
<1>2. /\ to - from <= MaxMinutes * w /\ SecondOf(from) = 0
      /\ to <= from + n * w
  BY DEF LoopInv, Accepts, ValidTimeRange
<1>3. \A i \in 1 .. n : rows[i].time = At(i) /\ At(i) < to
                        /\ \A p \in rows[i].got : p.name.ts = ToTs(At(i))
  BY <1>1 DEF LoopInv, RowsAligned
<1>4. \A i \in 1 .. n : At(i) \in Int /\ At(i) \div w = q + (i - 1) /\ ToTs(At(i)) = q + (i - 1)
  <2> TAKE i \in 1 .. n
  <2> DEFINE k == i - 1
  <2>1. k \in Nat
    BY <1>1
  <2> HIDE DEF k, from
  <2>2. (from + k * Minute) \div Minute = q + k /\ ToTs(from + k * Minute) = q + k
    BY <1>1, <1>2, <2>1, AlignedTs
  <2>3. from + k * Minute \in Int
    BY <1>1, <2>1
  <2> QED
    BY <2>2, <2>3 DEF k
<1> HIDE DEF from, to, n, w, q
<1>5. n <= MaxMinutes
  <2>1. CASE n = 0
    BY <1>1, <2>1, TimeAssumption
  <2>2. CASE n # 0
    <3>1. from + (n - 1) * w < to
      BY <1>1, <1>3, <2>2
    <3> DEFINE k == n - 1
    <3>2. k \in Int /\ from + k * w < to
      BY <1>1, <3>1
    <3> HIDE DEF k
    <3>3. k * w < MaxMinutes * w
      BY <1>1, <1>2, <3>2, TimeAssumption
    <3>4. ASSUME k >= MaxMinutes PROVE FALSE
      <4>1. (k - MaxMinutes) * w >= 0
        BY <1>1, <3>2, <3>4, TimeAssumption
      <4> QED
        BY <1>1, <3>2, <3>3, <4>1, TimeAssumption
    <3>5. k < MaxMinutes
      BY <3>2, <3>4, TimeAssumption
    <3> QED
      BY <1>1, <3>5, TimeAssumption DEF k
  <2> QED
    BY <2>1, <2>2
<1>6. ASSUME NEW m \in q .. (to \div w) - 1
      PROVE  Cardinality({i \in DOMAIN rows : rows[i].time \div w = m}) = 1
  <2> DEFINE k == m - q
             d == to \div w
             rest == to % w
  <2>1. /\ m \in Int /\ k \in Nat /\ d \in Int /\ m < d
        /\ to = d * w + rest /\ rest \in Int /\ 0 <= rest
    BY <1>1, Division
  <2>2. k < n
    <3> DEFINE r == from % w
    <3>1. from = q * w + r /\ r \in Int /\ r < w
      BY <1>1, Division DEF q, w
    <3> HIDE DEF k, d, rest, r
    <3>2. d * w <= (q + n) * w + r
      <4>1. (q + n) * w = q * w + n * w
        BY <1>1
      <4> QED
        BY <1>1, <1>2, <2>1, <3>1, <4>1
    <3>3. ASSUME d >= q + n + 1 PROVE FALSE
      <4>1. (d - (q + n) - 1) * w >= 0
        BY <1>1, <2>1, <3>3
      <4>2. (d - (q + n) - 1) * w = d * w - (q + n) * w - w
        BY <1>1, <2>1
      <4> QED
        BY <1>1, <2>1, <3>1, <3>2, <4>1, <4>2
    <3>4. d <= q + n
      BY <1>1, <2>1, <3>3
    <3> QED
      BY <1>1, <2>1, <3>4 DEF k
  <2>3. k + 1 \in 1 .. n
    BY <1>1, <2>1, <2>2
  <2>4. {i \in DOMAIN rows : rows[i].time \div w = m} = {k + 1}
    <3>1. ASSUME NEW i \in 1 .. n
          PROVE  rows[i].time \div w = q + (i - 1)
      BY <1>3, <1>4
    <3>2. ASSUME NEW i \in 1 .. n
          PROVE  rows[i].time \div w = m <=> i = k + 1
      <4>1. i \in Int /\ q \in Int /\ m \in Int
        BY <1>1, <2>1
      <4>2. q + (i - 1) = m <=> i = k + 1
        BY <4>1
      <4> QED
        BY <3>1, <4>2
    <3> HIDE DEF k
    <3> QED
      BY <1>1, <2>3, <3>2
  <2> QED
    BY <2>4, FS_Singleton
<1>7. ASSUME NEW i \in DOMAIN rows, NEW j \in DOMAIN rows, i < j
      PROVE  rows[i].time < rows[j].time /\ rows[i].got \cap rows[j].got = {}
  <2>1. i \in 1 .. n /\ j \in 1 .. n /\ i \in Int /\ j \in Int
    BY <1>1
  <2>2. At(i) < At(j)
    <3>1. (j - i) * w >= w
      BY <1>1, <1>7, <2>1
    <3>2. (j - i) * w = (j - 1) * w - (i - 1) * w
      BY <1>1, <2>1
    <3> QED
      BY <1>1, <2>1, <3>1, <3>2
  <2>3. ToTs(At(i)) # ToTs(At(j))
    <3>1. ToTs(At(i)) = q + (i - 1) /\ ToTs(At(j)) = q + (j - 1)
      BY <1>4, <2>1
    <3> HIDE DEF At
    <3> QED
      BY <1>1, <1>7, <2>1, <3>1
  <2> HIDE DEF At
  <2> QED
    BY <1>3, <2>1, <2>2, <2>3
<1>8. \A i \in DOMAIN rows : rows[i].time < to
  BY <1>1, <1>3
<1> QED
  BY <1>5, <1>6, <1>7, <1>8 DEF RowsCover, from, to, n, w, q

-----------------------------------------------------------------------------
(* Theorems.                                                               *)

(***************************************************************************)
(* The invariant of the scan holds in every reachable state.               *)
(***************************************************************************)
THEOREM Invariance == Spec => []IInv
<1>1. Init => IInv
  <2> SUFFICES ASSUME Init PROVE IInv
    OBVIOUS
  <2>1. NoFilters \in Filter /\ <<>> \in Seq(Row)
    BY EmptySeq DEF NoFilters, Filter, NoFilter
  <2>2. TypeOK
    BY <2>1, BoundsAssumption DEF Init, TypeOK
  <2>3. NamesInv /\ RequestInv /\ ScanInv /\ RowsBetween /\ LoopInv
    BY DEF Init, NamesInv, RequestInv, ScanInv, RowsBetween, LoopInv
  <2> QED
    BY <2>2, <2>3 DEF IInv
<1>2. IInv /\ [Next]_vars => IInv'
  BY TypeStep, NamesStep, RequestStep, ScanStep, RowsStep, LoopStep DEF IInv
<1> QED
  BY <1>1, <1>2, PTL DEF Spec

(***************************************************************************)
(* Type correctness of the query: its filters are ids that fit the fields  *)
(* of a key, and it answers with 200, 400 or 500 (aggregates.go:27-71).    *)
(***************************************************************************)
THEOREM TypeCorrect == Spec => []TypeOK
<1>1. IInv => TypeOK
  BY DEF IInv
<1> QED
  BY <1>1, Invariance, PTL

(***************************************************************************)
(* A row holds every tag that was counted before the query of its minute   *)
(* and belongs to it, and none that does not, while records are added and  *)
(* changed, for any ids that the service gives the elements                *)
(* (aggregates.go:110-137, pkg/db/aggregates.go:39-117).                   *)
(***************************************************************************)
THEOREM RowsAreBetween == Spec => []RowsBetween
<1>1. IInv => RowsBetween
  BY DEF IInv
<1> QED
  BY <1>1, Invariance, PTL

(***************************************************************************)
(* An answer has one row for every minute of its time range, no tag in two *)
(* rows, and no more rows than the range may have minutes                  *)
(* (aggregates.go:73-87, 116-124).                                         *)
(***************************************************************************)
THEOREM AnswersCover == Spec => []RowsCover
<1>1. IInv => RowsCover
  BY AnswerCovers DEF IInv, RowsCover
<1> QED
  BY <1>1, Invariance, PTL

-----------------------------------------------------------------------------
(* Answers when every element of a collection has an id of its own.        *)

\* What the service promises for one request at a time and no fault
\* (OneIdPerElement and IdsIdentifyElements in IdServer); each collection counts from 1.
DistinctIds ==
    \A c \in Collections :
      /\ \A e \in Elements : \A i, j \in IdsOf[c][e] : i = j
      /\ \A e, f \in Elements : e # f => IdsOf[c][e] \cap IdsOf[c][f] = {}

\* Tag g is one of those that the request asks for, whenever it was.
Asked(g) ==
    /\ g.action = req.action
    /\ req.origin \in {NoElement, g.origin}
    /\ req.brand \in {NoElement, g.brand}
    /\ req.category \in {NoElement, g.category}

AskedAt(time, g) == Asked(g) /\ g.time \div Minute = time \div Minute

\* The row counts exactly the tags of its minute that were asked for: all that were counted
\* when it was queried, and no others but some that were counted meanwhile.
RowExact(r) ==
    /\ \A p \in r.before : AskedAt(r.time, p.tag) => p \in r.got
    /\ \A p \in r.got : p \in counted /\ AskedAt(r.time, p.tag)

AnswerExact ==
    status = 200 => \A i \in DOMAIN rows : rows[i].time >= Minute => RowExact(rows[i])

LEMMA MatchIsEqual ==
    ASSUME DistinctIds, NEW c \in Collections,
           NEW a \in Elements \cup {NoElement}, NEW e \in Elements
    PROVE  /\ a \in {NoElement, e} => MustMatch(c, a, e)
           /\ MayMatch(c, a, e) => a \in {NoElement, e}
BY DEF DistinctIds, MustMatch, MayMatch

LEMMA BetweenIsExact ==
    ASSUME DistinctIds, TypeOK, req \in Requests,
           NEW r \in Row, r.time >= Minute, RowBetween(r)
    PROVE  RowExact(r)
<1>1. /\ req.origin \in Elements \cup {NoElement}
      /\ req.brand \in Elements \cup {NoElement}
      /\ req.category \in Elements \cup {NoElement}
  BY RequestsAssumption
<1>2. \A p \in Entry : /\ p.tag.origin \in Elements
                       /\ p.tag.brand \in Elements
                       /\ p.tag.category \in Elements
  BY TagsAssumption DEF Entry
<1>3. /\ r.time \in Int /\ r.got \subseteq Entry /\ r.before \subseteq Entry
      /\ Minute \in Nat \ {0}
  BY MinuteIsNat DEF Row
<1>4. r.time >= 0 /\ r.time \div Minute # 0
  <2> DEFINE w == Minute
             x == r.time
             q == x \div w
             m == x % w
  <2>1. x = q * w + m /\ q \in Int /\ m \in Int /\ m < w /\ w \in Nat \ {0} /\ x >= w /\ x \in Int
    BY <1>3, Division
  <2> HIDE DEF w, x, q, m
  <2>2. x >= 0
    BY <2>1
  <2>3. q # 0
    BY <2>1
  <2> QED
    BY <2>2, <2>3 DEF w, x, q
<1>5. ASSUME NEW p \in r.before, AskedAt(r.time, p.tag) PROVE p \in r.got
  <2>1. MustCount(r.time, p.tag)
    BY <1>1, <1>2, <1>3, <1>5, MatchIsEqual
       DEF AskedAt, Asked, MustCount, Collections
  <2> QED
    BY <1>4, <1>5, <2>1 DEF RowBetween
<1>6. ASSUME NEW p \in r.got PROVE p \in counted /\ AskedAt(r.time, p.tag)
  <2>1. p \in counted /\ MayCount(r.time, p.tag)
    BY <1>4, <1>6 DEF RowBetween
  <2> QED
    BY <1>1, <1>2, <1>3, <1>4, <1>6, <2>1, MatchIsEqual
       DEF AskedAt, Asked, MayCount, Collections
<1> QED
  BY <1>5, <1>6 DEF RowExact

(***************************************************************************)
(* When every element of a collection has one id, and no two elements of   *)
(* the collection share one, the rows of an answer are exact               *)
(* (aggregates.go:110-137, 198-243): keys that pack the ids of three       *)
(* collections into one number confuse no two of them, and no id is taken  *)
(* for another.  Minute 0, which also has times before 1970, and what is   *)
(* before it are left out; RowsBetween covers minute 0.                    *)
(***************************************************************************)
THEOREM AnswersAreExact ==
    ASSUME DistinctIds
    PROVE  Spec => []AnswerExact
<1>1. IInv => AnswerExact
  <2> SUFFICES ASSUME IInv, status = 200, NEW i \in DOMAIN rows, rows[i].time >= Minute
               PROVE  RowExact(rows[i])
    BY DEF AnswerExact
  <2>1. TypeOK /\ req \in Requests /\ RowBetween(rows[i])
    BY DEF IInv, LoopInv, RowsBetween
  <2>2. rows[i] \in Row
    <3>1. rows \in Seq(Row)
      BY <2>1 DEF TypeOK
    <3> QED
      BY <3>1, LenProperties, ElementOfSeq
  <2> QED
    BY <2>1, <2>2, BetweenIsExact
<1> QED
  BY <1>1, Invariance, PTL
=============================================================================
