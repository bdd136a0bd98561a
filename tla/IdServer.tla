------------------------------ MODULE IdServer ------------------------------
(***************************************************************************)
(* The id service: cmd/id_getter/server/server.go over its Aerospike       *)
(* client, cmd/id_getter/db/db.go.                                         *)
(*                                                                         *)
(* Every request is served by a handler goroutine of its own (gin), which  *)
(* takes the steps of getID: look in the cache, read the list, append to   *)
(* it, store the id in the cache, answer.  The cache is guarded by a       *)
(* RWMutex that is held for one look-up or one store only, and the two     *)
(* database operations are atomic on the record of the collection, so the  *)
(* steps of different handlers interleave freely in between.  There is one *)
(* instance of the service (replicaCount 1); a restart loses its cache and *)
(* the handlers in progress, the lists stay.                               *)
(*                                                                         *)
(* Abstracted: the JSON of requests and answers, and why a database        *)
(* operation fails.  A record that does not exist and an empty list are    *)
(* the same state, because both are ErrorNotFound to getIDFromDB.          *)
(***************************************************************************)
EXTENDS Integers, Sequences, FiniteSets

CONSTANTS
    Collections,    \* the collections of elements
    Elements,       \* the elements, in any collection
    Handlers,       \* requests the service may be serving at a time
    MaxFaults       \* bound on failed database operations and restarts

ASSUME MaxFaultsAssumption == MaxFaults \in Nat

VARIABLES
    db,             \* db[c]: the list in the record of collection c
    idsCache,       \* idsCache[c][e]: the cached id, NoId when there is none
    pc,             \* pc[h]: the next step of handler h
    req,            \* req[h]: the request handler h serves
    ret,            \* ret[h]: the id getID is about to return, NoId for an error
    issued,         \* history: issued[c][e], the ids ever answered for e in c
    faults          \* failed database operations and restarts so far

serverVars == <<db, idsCache, pc, req, ret, issued, faults>>

NoId == -1

Request == [collection : Collections, element : Elements, createMissing : BOOLEAN]

NoRequest == [idle |-> TRUE]

HandlerSteps ==
    {"idle", "checkInCache", "getIDFromDB", "saveIDInDB", "saveInCache", "respond"}

EmptyCache == [c \in Collections |-> [e \in Elements |-> NoId]]

TypeOK ==
    /\ db \in [Collections -> Seq(Elements)]
    /\ idsCache \in [Collections -> [Elements -> Nat \cup {NoId}]]
    /\ pc \in [Handlers -> HandlerSteps]
    /\ req \in [Handlers -> Request \cup {NoRequest}]
    /\ ret \in [Handlers -> Nat \cup {NoId}]
    /\ issued \in [Collections -> [Elements -> SUBSET Nat]]
    /\ faults \in 0 .. MaxFaults

Init ==
    /\ db = [c \in Collections |-> <<>>]
    /\ idsCache = EmptyCache
    /\ pc = [h \in Handlers |-> "idle"]
    /\ req = [h \in Handlers |-> NoRequest]
    /\ ret = [h \in Handlers |-> NoId]
    /\ issued = [c \in Collections |-> [e \in Elements |-> {}]]
    /\ faults = 0

-----------------------------------------------------------------------------
(* Parts of the steps.                                                     *)

Goto(h, step) == pc' = [pc EXCEPT ![h] = step]

Return(h, id) == ret' = [ret EXCEPT ![h] = id]

\* getID returns an error.
Fail(h) == Return(h, NoId) /\ Goto(h, "respond")

Fault == faults < MaxFaults /\ faults' = faults + 1

\* slices.Index: the elements of a list are distinct, so the index is one at most.
Positions(l, e) == {k \in 1 .. Len(l) : l[k] = e}

\* The index of slices.Index counts from zero.
IndexIn(l, e) == (CHOOSE k \in Positions(l, e) : TRUE) - 1

\* AppendElement: the list policy is AddUnique, the result is the new length.
AppendDuplicates(l, e) == Append(l, e)   \* seeded defect: no AddUnique

PrependElement(l, e) == <<e>> \o l       \* seeded defect: inserts at the front

AppendElement(l, e) == IF Positions(l, e) # {} THEN l ELSE Append(l, e)

ElementExists(l, e) == AppendElement(l, e) = l

-----------------------------------------------------------------------------
(* The steps of getIDHandler.                                              *)

\* A request arrives.
Receive(h, r) ==
    /\ pc[h] = "idle"
    /\ req' = [req EXCEPT ![h] = r]
    /\ Goto(h, "checkInCache")
    /\ UNCHANGED <<db, idsCache, ret, issued, faults>>

Cached(h) == idsCache[req[h].collection][req[h].element]

CheckInCache(h) ==
    /\ pc[h] = "checkInCache"
    /\ IF Cached(h) # NoId
         THEN Return(h, Cached(h)) /\ Goto(h, "respond")
         ELSE Goto(h, "getIDFromDB") /\ UNCHANGED ret
    /\ UNCHANGED <<db, idsCache, req, issued, faults>>

\* Found in the list; missing and to be created; missing and not to be created.
GetIDFromDB(h) ==
    LET l == db[req[h].collection]
        e == req[h].element
    IN  /\ pc[h] = "getIDFromDB"
        /\ \/ /\ Positions(l, e) # {}
              /\ Return(h, IndexIn(l, e))
              /\ Goto(h, "saveInCache")
           \/ /\ Positions(l, e) = {}
              /\ req[h].createMissing
              /\ Goto(h, "saveIDInDB")
              /\ UNCHANGED ret
           \/ /\ Positions(l, e) = {}
              /\ ~ req[h].createMissing
              /\ Fail(h)
        /\ UNCHANGED <<db, idsCache, req, issued, faults>>

\* Any database error but KeyNotFound.
GetIDFromDBFails(h) ==
    /\ pc[h] = "getIDFromDB"
    /\ Fault
    /\ Fail(h)
    /\ UNCHANGED <<db, idsCache, req, issued>>

\* The id returned after an append is the new length of the list.
SaveIDInDB(h) ==
    LET c == req[h].collection
        e == req[h].element
    IN  /\ pc[h] = "saveIDInDB"
        /\ db' = [db EXCEPT ![c] = AppendElement(@, e)]
        /\ IF ElementExists(db[c], e)
             THEN Fail(h)
             ELSE Return(h, Len(db'[c])) /\ Goto(h, "saveInCache")
        /\ UNCHANGED <<idsCache, req, issued, faults>>

\* The append fails: it was not applied, or it was and its answer is lost.
SaveIDInDBFails(h) ==
    LET c == req[h].collection
    IN  /\ pc[h] = "saveIDInDB"
        /\ Fault
        /\ db' \in {db, [db EXCEPT ![c] = AppendElement(@, req[h].element)]}
        /\ Fail(h)
        /\ UNCHANGED <<idsCache, req, issued>>

\* Seeded defect: the id is not kept in the cache.
SaveInCacheForgets(h) ==
    /\ pc[h] = "saveInCache"
    /\ Goto(h, "respond")
    /\ UNCHANGED <<db, idsCache, req, ret, issued, faults>>

SaveInCache(h) ==
    /\ pc[h] = "saveInCache"
    /\ idsCache' = [idsCache EXCEPT ![req[h].collection][req[h].element] = ret[h]]
    /\ Goto(h, "respond")
    /\ UNCHANGED <<db, req, ret, issued, faults>>

\* The answer: the id, or a status of 500.
Respond(h) ==
    /\ pc[h] = "respond"
    /\ issued' = IF ret[h] = NoId
                   THEN issued
                   ELSE [issued EXCEPT ![req[h].collection][req[h].element] = @ \cup {ret[h]}]
    /\ req' = [req EXCEPT ![h] = NoRequest]
    /\ Return(h, NoId)
    /\ Goto(h, "idle")
    /\ UNCHANGED <<db, idsCache, faults>>

\* Seeded defect: the restarted service finds its lists empty.
RestartWithoutLists ==
    /\ Fault
    /\ db' = [c \in Collections |-> <<>>]
    /\ idsCache' = EmptyCache
    /\ pc' = [h \in Handlers |-> "idle"]
    /\ req' = [h \in Handlers |-> NoRequest]
    /\ ret' = [h \in Handlers |-> NoId]
    /\ UNCHANGED issued

\* Seeded defect: the restarted service has no cache to write to.
RestartWithNilCache ==
    /\ Fault
    /\ idsCache' = <<>>
    /\ pc' = [h \in Handlers |-> "idle"]
    /\ req' = [h \in Handlers |-> NoRequest]
    /\ ret' = [h \in Handlers |-> NoId]
    /\ UNCHANGED <<db, issued>>

\* The process ends and New starts it again with an empty cache.
Restart ==
    /\ Fault
    /\ idsCache' = EmptyCache
    /\ pc' = [h \in Handlers |-> "idle"]
    /\ req' = [h \in Handlers |-> NoRequest]
    /\ ret' = [h \in Handlers |-> NoId]
    /\ UNCHANGED <<db, issued>>

-----------------------------------------------------------------------------
Step(h) ==
    \/ CheckInCache(h)
    \/ GetIDFromDB(h)
    \/ GetIDFromDBFails(h)
    \/ SaveIDInDB(h)
    \/ SaveIDInDBFails(h)
    \/ SaveInCache(h)
    \/ Respond(h)

Next ==
    \/ \E h \in Handlers : Step(h) \/ \E r \in Request : Receive(h, r)
    \/ Restart

Spec == Init /\ [][Next]_serverVars

-----------------------------------------------------------------------------
(* Properties.                                                             *)

(***************************************************************************)
(* An element is at most once in the list of its collection, however many  *)
(* handlers found it missing at the same time (server.go:83-88) and        *)
(* whatever became of the answers to their appends.                        *)
(***************************************************************************)
NoDuplicateElements ==
    \A c \in Collections :
        \A j, k \in 1 .. Len(db[c]) : db[c][j] = db[c][k] => j = k

Registry == INSTANCE IdRegistry WITH list <- db

(***************************************************************************)
(* Every id the service holds for an element, in its cache or in a handler *)
(* about to store it or to answer, and every id it ever answered, names    *)
(* the place of that element in the stored list: across interleaved        *)
(* handlers, lost answers and restarts, no cache entry and no answer is    *)
(* ever more than the one of server.go:106 against server.go:125 off.      *)
(***************************************************************************)
CachedIdsNameElement ==
    \A c \in Collections, e \in Elements :
        idsCache[c][e] # NoId => Registry!IsIdIn(db[c], e, idsCache[c][e])

IssuedIdsNameElement ==
    \A c \in Collections, e \in Elements :
        \A i \in issued[c][e] : Registry!IsIdIn(db[c], e, i)

PendingIdsNameElement ==
    \A h \in Handlers :
        pc[h] \in {"saveInCache", "respond"} /\ ret[h] # NoId =>
            Registry!IsIdIn(db[req[h].collection], req[h].element, ret[h])

IdsNameElement ==
    /\ CachedIdsNameElement
    /\ IssuedIdsNameElement
    /\ PendingIdsNameElement

(***************************************************************************)
(* The service implements IdRegistry: lists only grow at the end, by new   *)
(* elements, and every answer is one of the two ids of the element.        *)
(***************************************************************************)
ImplementsRegistry == Registry!Spec

(***************************************************************************)
(* A service that never restarts, never sees a database error and serves   *)
(* one request at a time gives an element the same id every time           *)
(* (tests/idgetter_test.go:82-93 asks each element twice).  With           *)
(* interleaved handlers the same property fails.                           *)
(***************************************************************************)
OneIdPerElement ==
    \A c \in Collections, e \in Elements : Cardinality(issued[c][e]) <= 1

(***************************************************************************)
(* Different elements of a collection have different ids, which is what    *)
(* tells their aggregates apart.                                           *)
(***************************************************************************)
IdsIdentifyElements ==
    \A c \in Collections : \A e, f \in Elements :
        e # f => issued[c][e] \cap issued[c][f] = {}
=============================================================================
