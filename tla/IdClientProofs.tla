--------------------------- MODULE IdClientProofs ---------------------------
(***************************************************************************)
(* Proofs about the clients of the id service, for every set of processes, *)
(* callers and handlers, every bound on faults and every width of an id.   *)
(*                                                                         *)
(* Every step of the composition is a step of the service, a fault, or     *)
(* leaves the service alone, so that the service's invariant is kept.  To  *)
(* it come CallsHold, which ties the id a caller has to the step its call  *)
(* is at, and ServingAgrees: a handler that will answer a caller works on  *)
(* the request that this caller waits for, and is the only one to.         *)
(***************************************************************************)
EXTENDS IdClient, IdServerProofs

CachesNameElement ==
    \A p \in Processes, c \in Collections, e \in Elements :
        cache[p][c][e] # NoId => Registry!IsIdIn(db[c], e, cache[p][c][e])

CallersNameElement ==
    \A k \in Callers :
        id[k] # NoId =>
            /\ call[k] # NoRequest
            /\ Registry!IsIdIn(db[call[k].collection], call[k].element, id[k])

ReturnedNameElement ==
    \A c \in Collections, e \in Elements :
        \A i \in returned[c][e] : Registry!IsIdIn(db[c], e, i)

CallsHold ==
    \A k \in Callers :
        /\ step[k] # "idle" => call[k] \in Request
        /\ id[k] # NoId <=> step[k] \in {"saveInCache", "convert"}

ServingAgrees ==
    /\ \A h \in Handlers :
         serving[h] # NoCaller =>
             /\ pc[h] # "idle"
             /\ step[serving[h]] = "wait"
             /\ req[h] = call[serving[h]]
    /\ \A g, h \in Handlers : serving[g] = serving[h] /\ g # h => serving[g] = NoCaller

CInv ==
    /\ IInv
    /\ ClientTypeOK
    /\ CachesNameElement
    /\ CallersNameElement
    /\ ReturnedNameElement
    /\ CallsHold
    /\ ServingAgrees

-----------------------------------------------------------------------------
(* The service under its clients.                                          *)

\* The ids that are right stay right in every step of the service.
IdsStay ==
    /\ db' \in [Collections -> Seq(Elements)]
    /\ \A c \in Collections, e \in Elements, i \in Nat :
         Registry!IsIdIn(db[c], e, i) => Registry!IsIdIn(db'[c], e, i)

LEMMA RequestIsNotNone == NoRequest \notin Request
<1> SUFFICES ASSUME NoRequest \in Request
             PROVE  FALSE
  OBVIOUS
<1>1. DOMAIN NoRequest = {"idle"}
  BY DEF NoRequest
<1>2. DOMAIN NoRequest = {"collection", "element", "createMissing"}
  BY DEF Request
<1> QED
  BY <1>1, <1>2

LEMMA ServiceSteps == IInv /\ [Next]_serverVars => IInv' /\ IdsStay
<1> SUFFICES ASSUME IInv, [Next]_serverVars
             PROVE  IInv' /\ IdsStay
  OBVIOUS
<1>1. IInv'
  BY StepInvariant
<1>2. ASSUME db' = db
      PROVE  IdsStay
  BY <1>2 DEF IInv, TypeOK, IdsStay
<1>3. ASSUME NEW h \in Handlers, pc[h] = "saveIDInDB",
             db' = [db EXCEPT ![req[h].collection] = AppendElement(@, req[h].element)]
      PROVE  IdsStay
  BY <1>3, AppendKeepsInvariant DEF IdsStay
<1>4. ASSUME NEW h \in Handlers, Step(h)
      PROVE  IdsStay
  BY <1>2, <1>3, <1>4
     DEF Step, CheckInCache, GetIDFromDB, GetIDFromDBFails, SaveIDInDB,
         SaveIDInDBFails, SaveInCache, Respond
<1>5. ASSUME NEW h \in Handlers, NEW r \in Request, Receive(h, r)
      PROVE  IdsStay
  BY <1>2, <1>5 DEF Receive
<1>6. ASSUME Restart
      PROVE  IdsStay
  BY <1>2, <1>6 DEF Restart
<1>7. ASSUME UNCHANGED serverVars
      PROVE  IdsStay
  BY <1>2, <1>7 DEF serverVars
<1> QED
  BY <1>1, <1>4, <1>5, <1>6, <1>7 DEF Next

LEMMA FaultsKeepService ==
    ASSUME IInv, Fault, UNCHANGED <<db, idsCache, pc, req, ret, issued>>
    PROVE  IInv' /\ IdsStay
<1>1. TypeOK'
  BY MaxFaultsAssumption DEF IInv, TypeOK, Fault
<1>2. NoDuplicateElements' /\ IdsNameElement' /\ RequestsPending'
  BY DEF IInv, NoDuplicateElements, IdsNameElement, CachedIdsNameElement,
         IssuedIdsNameElement, PendingIdsNameElement, RequestsPending
<1>3. IdsStay
  BY DEF IInv, TypeOK, IdsStay
<1> QED
  BY <1>1, <1>2, <1>3 DEF IInv

\* Callers, caches and answers that did not change go on naming their elements.
LEMMA CachesKept ==
    ASSUME CInv, IdsStay, UNCHANGED cache
    PROVE  CachesNameElement'
BY DEF CInv, ClientTypeOK, CachesNameElement, IdsStay

LEMMA ReturnedKept ==
    ASSUME CInv, IdsStay, UNCHANGED returned
    PROVE  ReturnedNameElement'
<1> SUFFICES ASSUME NEW c \in Collections, NEW e \in Elements, NEW i \in returned[c][e]
             PROVE  Registry!IsIdIn(db'[c], e, i)
  BY DEF ReturnedNameElement
<1>1. i \in Nat
  BY MaxU16Assumption DEF CInv, ClientTypeOK
<1> QED
  BY <1>1 DEF CInv, ReturnedNameElement, IdsStay

LEMMA CallerKept ==
    ASSUME CInv, IdsStay, NEW k \in Callers, id'[k] = id[k], call'[k] = call[k],
           id[k] # NoId
    PROVE  /\ call'[k] # NoRequest
           /\ Registry!IsIdIn(db'[call'[k].collection], call'[k].element, id'[k])
<1>1. id[k] \in Nat
  BY DEF CInv, ClientTypeOK
<1>2. call[k] \in Request
  BY DEF CInv, CallsHold
<1> QED
  BY <1>1, <1>2 DEF CInv, CallersNameElement, IdsStay, Request

\* What becomes of calls that end.
LEMMA CallsEnd ==
    ASSUME CInv, NEW K \in SUBSET Callers, EndCalls(K)
    PROVE  /\ step' \in [Callers -> CallSteps]
           /\ call' \in [Callers -> Request \cup {NoRequest}]
           /\ id' \in [Callers -> Nat \cup {NoId}]
           /\ CallsHold'
           /\ \A k \in Callers : id'[k] # NoId => /\ id'[k] = id[k]
                                                  /\ call'[k] = call[k]
<1>1. /\ step \in [Callers -> CallSteps]
      /\ call \in [Callers -> Request \cup {NoRequest}]
      /\ id \in [Callers -> Nat \cup {NoId}]
      /\ CallsHold
  BY DEF CInv, ClientTypeOK
<1>2. "idle" \in CallSteps
  BY DEF CallSteps
<1>3. CallsHold'
  BY <1>1 DEF EndCalls, CallsHold
<1> QED
  BY <1>1, <1>2, <1>3 DEF EndCalls

\* Handlers that serve the callers K no more leave the others as they were.
LEMMA ServingStops ==
    ASSUME CInv, NEW K \in SUBSET Callers, EndCalls(K), StopServing(K),
           UNCHANGED <<pc, req>>
    PROVE  serving' \in [Handlers -> Callers \cup {NoCaller}] /\ ServingAgrees'
<1>1. serving \in [Handlers -> Callers \cup {NoCaller}] /\ ServingAgrees
  BY DEF CInv, ClientTypeOK
<1>2. serving' \in [Handlers -> Callers \cup {NoCaller}]
  BY <1>1 DEF StopServing
<1>3. \A h \in Handlers :
        serving'[h] # NoCaller => /\ serving'[h] = serving[h]
                                  /\ serving[h] \in Callers \ K
  BY <1>1 DEF StopServing
<1>4. \A k \in Callers \ K : step'[k] = step[k] /\ call'[k] = call[k]
  BY DEF EndCalls
<1> QED
  BY <1>1, <1>2, <1>3, <1>4 DEF ServingAgrees

-----------------------------------------------------------------------------
(* The invariant.                                                          *)

LEMMA ClientInitInvariant == ClientInit => CInv
<1> SUFFICES ASSUME ClientInit
             PROVE  CInv
  OBVIOUS
<1>1. IInv
  BY InitInvariant DEF ClientInit
<1>2. ClientTypeOK
  <2>1. cache \in [Processes -> [Collections -> [Elements -> Nat \cup {NoId}]]]
    BY DEF ClientInit, EmptyCache
  <2>2. returned \in [Collections -> [Elements -> SUBSET (0 .. MaxU16)]]
    BY DEF ClientInit
  <2> QED
    BY <1>1, <2>1, <2>2 DEF IInv, ClientInit, ClientTypeOK, CallSteps
<1>3. CachesNameElement /\ CallersNameElement /\ ReturnedNameElement
  BY DEF ClientInit, EmptyCache, CachesNameElement, CallersNameElement,
         ReturnedNameElement
<1>4. CallsHold /\ ServingAgrees
  BY DEF ClientInit, CallsHold, ServingAgrees
<1> QED
  BY <1>1, <1>2, <1>3, <1>4 DEF CInv

\* Steps that change one call and leave the service and the answers alone.
LEMMA CallKeeps ==
    ASSUME CInv, NEW k \in Callers, NEW r \in Request, Call(k, r)
    PROVE  CInv'
<1>0. CInv /\ ClientTypeOK /\ CallsHold /\ ServingAgrees /\ CallersNameElement
  BY DEF CInv
<1>1. IInv' /\ IdsStay
  BY <1>0, ServiceSteps DEF CInv, Call, serverVars
<1>2. ClientTypeOK'
  <2>1. TypeOK'
    BY <1>1 DEF IInv
  <2> QED
    BY <1>0, <2>1 DEF ClientTypeOK, Call, CallSteps
<1>3. CachesNameElement' /\ ReturnedNameElement'
  BY <1>0, <1>1, CachesKept, ReturnedKept DEF Call
<1>4. CallsHold'
  BY <1>0 DEF ClientTypeOK, CallsHold, Call
<1>5. CallersNameElement'
  <2> SUFFICES ASSUME NEW j \in Callers, id'[j] # NoId
               PROVE  /\ call'[j] # NoRequest
                      /\ Registry!IsIdIn(db'[call'[j].collection],
                                         call'[j].element, id'[j])
    BY DEF CallersNameElement
  <2>1. j # k /\ id'[j] = id[j] /\ call'[j] = call[j]
    BY <1>0 DEF ClientTypeOK, CallsHold, Call
  <2> QED
    BY <1>0, <1>1, <2>1, CallerKept
<1>6. ServingAgrees'
  BY <1>0 DEF ClientTypeOK, ServingAgrees, Call, serverVars
<1> QED
  BY <1>1, <1>2, <1>3, <1>4, <1>5, <1>6 DEF CInv

LEMMA GetFromCacheKeeps ==
    ASSUME CInv, NEW k \in Callers, GetFromCache(k)
    PROVE  CInv'
<1> DEFINE p == ProcessOf[k]
           c == call[k].collection
           e == call[k].element
           i == CachedBy(p, call[k])
<1>0. CInv /\ ClientTypeOK /\ CallsHold /\ ServingAgrees /\ CallersNameElement
  BY DEF CInv
<1>1. IInv' /\ IdsStay
  BY <1>0, ServiceSteps DEF CInv, GetFromCache, serverVars
<1>2. p \in Processes /\ call[k] \in Request /\ c \in Collections /\ e \in Elements
  BY <1>0, ProcessOfAssumption DEF GetFromCache, CallsHold, Request
<1>3. /\ i \in Nat \cup {NoId}
      /\ i # NoId => Registry!IsIdIn(db[c], e, i)
  BY <1>0, <1>2 DEF CInv, ClientTypeOK, CachesNameElement, CachedBy
<1>4. /\ step' = [step EXCEPT ![k] = IF i # NoId THEN "convert" ELSE "post"]
      /\ id' = [id EXCEPT ![k] = i]
      /\ UNCHANGED <<call, cache, serving, returned, db, pc, req>>
      /\ step[k] = "getFromCache"
  BY DEF GetFromCache, Proceed, serverVars
<1> HIDE DEF i, p
<1>5. ClientTypeOK'
  <2>1. TypeOK'
    BY <1>1 DEF IInv
  <2> QED
    BY <1>0, <1>3, <1>4, <2>1 DEF ClientTypeOK, CallSteps
<1>6. CachesNameElement' /\ ReturnedNameElement'
  BY <1>0, <1>1, <1>4, CachesKept, ReturnedKept
<1>7. CallsHold'
  BY <1>0, <1>3, <1>4 DEF ClientTypeOK, CallsHold
<1>8. CallersNameElement'
  <2> SUFFICES ASSUME NEW j \in Callers, id'[j] # NoId
               PROVE  /\ call'[j] # NoRequest
                      /\ Registry!IsIdIn(db'[call'[j].collection],
                                         call'[j].element, id'[j])
    BY DEF CallersNameElement
  <2>1. CASE j = k
    <3>1. id'[k] = i
      BY <1>0, <1>4 DEF ClientTypeOK
    <3> QED
      BY <1>2, <1>3, <1>4, <2>1, <3>1, RequestIsNotNone
  <2>2. CASE j # k
    BY <1>0, <1>1, <1>4, <2>2, CallerKept DEF ClientTypeOK
  <2> QED
    BY <2>1, <2>2
<1>9. ServingAgrees'
  BY <1>0, <1>4 DEF ClientTypeOK, ServingAgrees
<1> QED
  BY <1>1, <1>5, <1>6, <1>7, <1>8, <1>9 DEF CInv

LEMMA PostKeeps ==
    ASSUME CInv, NEW k \in Callers, Post(k)
    PROVE  CInv'
<1>0. CInv /\ ClientTypeOK /\ CallsHold /\ ServingAgrees /\ CallersNameElement
  BY DEF CInv
<1>1. PICK h \in Handlers : /\ Receive(h, call[k])
                            /\ serving' = [serving EXCEPT ![h] = k]
  BY DEF Post
<1>2. /\ step[k] = "post" /\ call[k] \in Request /\ id[k] = NoId
      /\ step' = [step EXCEPT ![k] = "wait"]
      /\ id' = [id EXCEPT ![k] = NoId]
      /\ UNCHANGED <<call, cache, returned>>
  BY <1>0 DEF Post, Proceed, CallsHold
<1>3. IInv' /\ IdsStay
  <2>1. Next
    BY <1>1, <1>2 DEF Next
  <2> QED
    BY <1>0, <2>1, ServiceSteps DEF CInv
<1>4. ClientTypeOK'
  <2>1. TypeOK'
    BY <1>3 DEF IInv
  <2> QED
    BY <1>0, <1>1, <1>2, <2>1 DEF ClientTypeOK, CallSteps
<1>5. CachesNameElement' /\ ReturnedNameElement'
  BY <1>0, <1>2, <1>3, CachesKept, ReturnedKept
<1>6. CallsHold'
  BY <1>0, <1>2 DEF ClientTypeOK, CallsHold
<1>7. CallersNameElement'
  <2> SUFFICES ASSUME NEW j \in Callers, id'[j] # NoId
               PROVE  /\ call'[j] # NoRequest
                      /\ Registry!IsIdIn(db'[call'[j].collection],
                                         call'[j].element, id'[j])
    BY DEF CallersNameElement
  <2>1. id'[j] = id[j] /\ call'[j] = call[j]
    BY <1>0, <1>2 DEF ClientTypeOK
  <2> QED
    BY <1>0, <1>3, <2>1, CallerKept
<1>8. ServingAgrees'
  <2>1. /\ pc[h] = "idle" /\ pc' = [pc EXCEPT ![h] = "checkInCache"]
        /\ req' = [req EXCEPT ![h] = call[k]]
        /\ pc \in [Handlers -> HandlerSteps]
        /\ req \in [Handlers -> Request \cup {NoRequest}]
    BY <1>0, <1>1 DEF Receive, Goto, ClientTypeOK, TypeOK
  <2>2. \A g \in Handlers : serving[g] # k
    BY <1>0, <1>2, CallersAssumption DEF ServingAgrees
  <2>3. \A g \in Handlers :
          serving'[g] # NoCaller =>
            /\ pc'[g] # "idle"
            /\ step'[serving'[g]] = "wait"
            /\ req'[g] = call'[serving'[g]]
    <3> SUFFICES ASSUME NEW g \in Handlers, serving'[g] # NoCaller
                 PROVE  /\ pc'[g] # "idle"
                        /\ step'[serving'[g]] = "wait"
                        /\ req'[g] = call'[serving'[g]]
      OBVIOUS
    <3>1. CASE g = h
      BY <1>0, <1>1, <1>2, <2>1, <3>1 DEF ClientTypeOK
    <3>2. CASE g # h
      BY <1>0, <1>1, <1>2, <2>1, <2>2, <3>2 DEF ClientTypeOK, ServingAgrees
    <3> QED
      BY <3>1, <3>2
  <2>4. \A f, g \in Handlers : serving'[f] = serving'[g] /\ f # g => serving'[f] = NoCaller
    BY <1>0, <1>1, <2>2 DEF ClientTypeOK, ServingAgrees
  <2> QED
    BY <2>3, <2>4 DEF ServingAgrees
<1> QED
  BY <1>3, <1>4, <1>5, <1>6, <1>7, <1>8 DEF CInv

LEMMA PostFailsKeeps ==
    ASSUME CInv, NEW k \in Callers, PostFails(k)
    PROVE  CInv'
<1>0. CInv /\ ClientTypeOK
  BY DEF CInv
<1>1. IInv' /\ IdsStay
  BY <1>0, FaultsKeepService DEF CInv, PostFails
<1>2. /\ {k} \in SUBSET Callers /\ EndCalls({k}) /\ StopServing({k})
      /\ UNCHANGED <<pc, req, cache, returned>>
  BY DEF PostFails
<1>3. /\ step' \in [Callers -> CallSteps]
      /\ call' \in [Callers -> Request \cup {NoRequest}]
      /\ id' \in [Callers -> Nat \cup {NoId}]
      /\ CallsHold'
      /\ \A j \in Callers : id'[j] # NoId => id'[j] = id[j] /\ call'[j] = call[j]
  BY <1>0, <1>2, CallsEnd
<1>4. serving' \in [Handlers -> Callers \cup {NoCaller}] /\ ServingAgrees'
  BY <1>0, <1>2, ServingStops
<1>5. ClientTypeOK'
  BY <1>0, <1>1, <1>2, <1>3, <1>4 DEF IInv, ClientTypeOK
<1>6. CachesNameElement' /\ ReturnedNameElement'
  BY <1>0, <1>1, <1>2, CachesKept, ReturnedKept
<1>7. CallersNameElement'
  BY <1>0, <1>1, <1>3, CallerKept DEF CallersNameElement
<1> QED
  BY <1>1, <1>3, <1>4, <1>5, <1>6, <1>7 DEF CInv

LEMMA ProcessRestartKeeps ==
    ASSUME CInv, NEW p \in Processes, ProcessRestart(p)
    PROVE  CInv'
<1> DEFINE K == {k \in Callers : ProcessOf[k] = p}
<1>0. CInv /\ ClientTypeOK
  BY DEF CInv
<1>1. IInv' /\ IdsStay
  BY <1>0, FaultsKeepService DEF CInv, ProcessRestart
<1>2. /\ K \in SUBSET Callers /\ EndCalls(K) /\ StopServing(K)
      /\ cache' = [cache EXCEPT ![p] = EmptyCache]
      /\ UNCHANGED <<pc, req, returned>>
  BY DEF ProcessRestart
<1> HIDE DEF K
<1>3. /\ step' \in [Callers -> CallSteps]
      /\ call' \in [Callers -> Request \cup {NoRequest}]
      /\ id' \in [Callers -> Nat \cup {NoId}]
      /\ CallsHold'
      /\ \A j \in Callers : id'[j] # NoId => id'[j] = id[j] /\ call'[j] = call[j]
  BY <1>0, <1>2, CallsEnd
<1>4. serving' \in [Handlers -> Callers \cup {NoCaller}] /\ ServingAgrees'
  BY <1>0, <1>2, ServingStops
<1>5. cache' \in [Processes -> [Collections -> [Elements -> Nat \cup {NoId}]]]
  <2>1. EmptyCache \in [Collections -> [Elements -> Nat \cup {NoId}]]
    BY DEF EmptyCache
  <2> QED
    BY <1>0, <1>2, <2>1 DEF ClientTypeOK
<1>6. ClientTypeOK'
  BY <1>0, <1>1, <1>2, <1>3, <1>4, <1>5 DEF IInv, ClientTypeOK
<1>7. CachesNameElement'
  <2> SUFFICES ASSUME NEW q \in Processes, NEW c \in Collections, NEW e \in Elements,
                      cache'[q][c][e] # NoId
               PROVE  Registry!IsIdIn(db'[c], e, cache'[q][c][e])
    BY DEF CachesNameElement
  <2>1. q # p /\ cache'[q] = cache[q]
    BY <1>0, <1>2 DEF ClientTypeOK, EmptyCache
  <2>2. cache[q][c][e] \in Nat
    BY <1>0, <2>1 DEF ClientTypeOK
  <2> QED
    BY <1>0, <1>1, <2>1, <2>2 DEF CInv, CachesNameElement, IdsStay
<1>8. ReturnedNameElement'
  BY <1>0, <1>1, <1>2, ReturnedKept
<1>9. CallersNameElement'
  BY <1>0, <1>1, <1>3, CallerKept DEF CallersNameElement
<1> QED
  BY <1>1, <1>3, <1>4, <1>6, <1>7, <1>8, <1>9 DEF CInv

LEMMA ServerRestartKeeps ==
    ASSUME CInv, ServerRestart
    PROVE  CInv'
<1> DEFINE K == {k \in Callers : step[k] = "wait"}
<1>0. CInv /\ ClientTypeOK
  BY DEF CInv
<1>1. IInv' /\ IdsStay
  BY <1>0, ServiceSteps DEF CInv, ServerRestart, Next
<1>2. /\ K \in SUBSET Callers /\ EndCalls(K)
      /\ serving' = [h \in Handlers |-> NoCaller]
      /\ UNCHANGED <<cache, returned>>
  BY DEF ServerRestart
<1> HIDE DEF K
<1>3. /\ step' \in [Callers -> CallSteps]
      /\ call' \in [Callers -> Request \cup {NoRequest}]
      /\ id' \in [Callers -> Nat \cup {NoId}]
      /\ CallsHold'
      /\ \A j \in Callers : id'[j] # NoId => id'[j] = id[j] /\ call'[j] = call[j]
  BY <1>0, <1>2, CallsEnd
<1>4. serving' \in [Handlers -> Callers \cup {NoCaller}] /\ ServingAgrees'
  BY <1>2 DEF ServingAgrees
<1>5. ClientTypeOK'
  BY <1>0, <1>1, <1>2, <1>3, <1>4 DEF IInv, ClientTypeOK
<1>6. CachesNameElement' /\ ReturnedNameElement'
  BY <1>0, <1>1, <1>2, CachesKept, ReturnedKept
<1>7. CallersNameElement'
  BY <1>0, <1>1, <1>3, CallerKept DEF CallersNameElement
<1> QED
  BY <1>1, <1>3, <1>4, <1>5, <1>6, <1>7 DEF CInv

\* The steps of a handler before its answer change no call, and neither its request
\* nor that it has one.
LEMMA ServeKeeps ==
    ASSUME CInv, NEW h \in Handlers, Serve(h), UNCHANGED clientVars
    PROVE  CInv'
<1>0. CInv /\ ClientTypeOK
  BY DEF CInv
<1>1. IInv' /\ IdsStay
  BY <1>0, ServiceSteps DEF CInv, Serve, Next, Step
<1>2. UNCHANGED <<cache, step, call, id, serving, returned>>
  BY DEF clientVars
<1>3. ClientTypeOK'
  BY <1>0, <1>1, <1>2 DEF IInv, ClientTypeOK
<1>4. CachesNameElement' /\ ReturnedNameElement'
  BY <1>0, <1>1, <1>2, CachesKept, ReturnedKept
<1>5. CallersNameElement'
  BY <1>0, <1>1, <1>2, CallerKept DEF CallersNameElement
<1>6. CallsHold'
  BY <1>0, <1>2 DEF CInv, CallsHold
<1>7. ServingAgrees'
  <2>1. req' = req /\ \A g \in Handlers : pc[g] # "idle" => pc'[g] # "idle"
    BY <1>0 DEF ClientTypeOK, TypeOK, Serve, CheckInCache, GetIDFromDB,
                GetIDFromDBFails, SaveIDInDB, SaveIDInDBFails, SaveInCache, Fail, Goto
  <2> QED
    BY <1>0, <1>2, <2>1 DEF CInv, ServingAgrees
<1> QED
  BY <1>1, <1>3, <1>4, <1>5, <1>6, <1>7 DEF CInv

\* The answer of a handler goes to the caller that waits for it, and to no other.
LEMMA DeliverKeeps ==
    ASSUME CInv, NEW h \in Handlers, Deliver(h)
    PROVE  CInv'
<1> DEFINE k == serving[h]
<1>0. CInv /\ ClientTypeOK /\ CallsHold /\ ServingAgrees /\ TypeOK
  BY DEF CInv, ClientTypeOK
<1>1. IInv' /\ IdsStay
  BY <1>0, ServiceSteps DEF CInv, Deliver, Next, Step
<1>2. /\ pc[h] = "respond" /\ pc' = [pc EXCEPT ![h] = "idle"]
      /\ req' = [req EXCEPT ![h] = NoRequest]
      /\ serving' = [serving EXCEPT ![h] = NoCaller]
      /\ UNCHANGED <<cache, returned, db>>
  BY DEF Deliver, Respond, Goto
<1>3. ret[h] \in Nat \cup {NoId} /\ k \in Callers \cup {NoCaller}
  BY <1>0 DEF TypeOK, ClientTypeOK
<1>4. \/ /\ k = NoCaller
         /\ UNCHANGED <<step, call, id>>
      \/ /\ k \in Callers /\ ret[h] = NoId
         /\ EndCalls({k})
      \/ /\ k \in Callers /\ ret[h] # NoId
         /\ step' = [step EXCEPT ![k] = "saveInCache"]
         /\ id' = [id EXCEPT ![k] = ret[h]]
         /\ call' = call
  BY <1>3 DEF Deliver, Proceed
<1>5. k \in Callers => step[k] = "wait" /\ req[h] = call[k] /\ call[k] \in Request
  BY <1>0, CallersAssumption DEF ServingAgrees, CallsHold
<1>6. ret[h] # NoId => Registry!IsIdIn(db[req[h].collection], req[h].element, ret[h])
  BY <1>0, <1>2 DEF CInv, IInv, IdsNameElement, PendingIdsNameElement
<1> HIDE DEF k
<1>7. \A g \in Handlers \ {h} : serving[g] # NoCaller => serving[g] # k
  BY <1>0 DEF ServingAgrees, k
<1>8. /\ step' \in [Callers -> CallSteps]
      /\ call' \in [Callers -> Request \cup {NoRequest}]
      /\ id' \in [Callers -> Nat \cup {NoId}]
      /\ \A j \in Callers : j # k => /\ step'[j] = step[j]
                                    /\ call'[j] = call[j]
                                    /\ id'[j] = id[j]
      /\ k \in Callers =>
           \/ step'[k] = "idle" /\ id'[k] = NoId
           \/ step'[k] = "saveInCache" /\ id'[k] = ret[h] /\ ret[h] # NoId
              /\ call'[k] = call[k]
  BY <1>0, <1>3, <1>4, CallersAssumption DEF ClientTypeOK, EndCalls, CallSteps
<1>9. ClientTypeOK'
  <2>1. serving' \in [Handlers -> Callers \cup {NoCaller}]
    BY <1>0, <1>2 DEF ClientTypeOK
  <2> QED
    BY <1>0, <1>1, <1>2, <1>8, <2>1 DEF IInv, ClientTypeOK
<1>10. CachesNameElement' /\ ReturnedNameElement'
  BY <1>0, <1>1, <1>2, CachesKept, ReturnedKept
<1>11. CallsHold'
  BY <1>0, <1>5, <1>8 DEF CallsHold
<1>12. CallersNameElement'
  <2> SUFFICES ASSUME NEW j \in Callers, id'[j] # NoId
               PROVE  /\ call'[j] # NoRequest
                      /\ Registry!IsIdIn(db'[call'[j].collection],
                                         call'[j].element, id'[j])
    BY DEF CallersNameElement
  <2>1. CASE j = k
    BY <1>2, <1>5, <1>6, <1>8, <2>1, RequestIsNotNone
  <2>2. CASE j # k
    BY <1>0, <1>1, <1>8, <2>2, CallerKept
  <2> QED
    BY <2>1, <2>2
<1>13. ServingAgrees'
  <2>1. \A g \in Handlers :
          serving'[g] # NoCaller => /\ g # h
                                    /\ serving'[g] = serving[g]
                                    /\ serving[g] \in Callers \ {k}
                                    /\ pc'[g] = pc[g] /\ req'[g] = req[g]
    BY <1>0, <1>2, <1>7 DEF ClientTypeOK, TypeOK
  <2>2. serving'[h] = NoCaller
    BY <1>0, <1>2 DEF ClientTypeOK
  <2> QED
    BY <1>0, <1>8, <2>1, <2>2 DEF ServingAgrees
<1> QED
  BY <1>1, <1>9, <1>10, <1>11, <1>12, <1>13 DEF CInv

LEMMA SaveInClientCacheKeeps ==
    ASSUME CInv, NEW k \in Callers, SaveInClientCache(k)
    PROVE  CInv'
<1> DEFINE p == ProcessOf[k]
           c == call[k].collection
           e == call[k].element
<1>0. CInv /\ ClientTypeOK /\ CallsHold /\ ServingAgrees /\ CallersNameElement
  BY DEF CInv
<1>1. IInv' /\ IdsStay
  BY <1>0, ServiceSteps DEF CInv, SaveInClientCache, serverVars
<1>2. /\ p \in Processes /\ call[k] \in Request /\ c \in Collections /\ e \in Elements
      /\ step[k] = "saveInCache" /\ id[k] \in Nat /\ id[k] # NoId
      /\ Registry!IsIdIn(db[c], e, id[k])
  BY <1>0, ProcessOfAssumption
     DEF SaveInClientCache, CallsHold, CallersNameElement, ClientTypeOK, Request
<1>3. /\ cache' = [cache EXCEPT ![p][c][e] = id[k]]
      /\ step' = [step EXCEPT ![k] = "convert"]
      /\ id' = [id EXCEPT ![k] = id[k]]
      /\ UNCHANGED <<call, serving, returned, db, pc, req>>
  BY DEF SaveInClientCache, Proceed, serverVars
<1> HIDE DEF p, c, e
<1>4. id' = id
  BY <1>0, <1>3 DEF ClientTypeOK
<1>5. ClientTypeOK'
  <2>1. cache' \in [Processes -> [Collections -> [Elements -> Nat \cup {NoId}]]]
    BY <1>0, <1>2, <1>3 DEF ClientTypeOK
  <2> QED
    BY <1>0, <1>1, <1>3, <1>4, <2>1 DEF IInv, ClientTypeOK, CallSteps
<1>6. CachesNameElement'
  <2> SUFFICES ASSUME NEW q \in Processes, NEW d \in Collections, NEW f \in Elements,
                      cache'[q][d][f] # NoId
               PROVE  Registry!IsIdIn(db'[d], f, cache'[q][d][f])
    BY DEF CachesNameElement
  <2>1. CASE q = p /\ d = c /\ f = e
    <3>1. cache'[q][d][f] = id[k]
      BY <1>0, <1>2, <1>3, <2>1 DEF ClientTypeOK
    <3> QED
      BY <1>2, <1>3, <2>1, <3>1
  <2>2. CASE ~ (q = p /\ d = c /\ f = e)
    <3>1. cache'[q][d][f] = cache[q][d][f]
      BY <1>0, <1>2, <1>3, <2>2 DEF ClientTypeOK
    <3> QED
      BY <1>0, <1>3, <3>1 DEF CInv, CachesNameElement
  <2> QED
    BY <2>1, <2>2
<1>7. ReturnedNameElement'
  BY <1>0, <1>1, <1>3, ReturnedKept
<1>8. CallersNameElement'
  BY <1>0, <1>1, <1>3, <1>4, CallerKept DEF CallersNameElement
<1>9. CallsHold'
  BY <1>0, <1>2, <1>3, <1>4 DEF CallsHold, ClientTypeOK
<1>10. ServingAgrees'
  BY <1>0, <1>2, <1>3 DEF ClientTypeOK, ServingAgrees
<1> QED
  BY <1>1, <1>5, <1>6, <1>7, <1>8, <1>9, <1>10 DEF CInv

LEMMA ConvertKeeps ==
    ASSUME CInv, NEW k \in Callers, Convert(k)
    PROVE  CInv'
<1> DEFINE c == call[k].collection
           e == call[k].element
           i == id[k]
<1>0. CInv /\ ClientTypeOK /\ CallsHold /\ ServingAgrees /\ CallersNameElement
  BY DEF CInv
<1>1. IInv' /\ IdsStay
  BY <1>0, ServiceSteps DEF CInv, Convert, serverVars
<1>2. /\ call[k] \in Request /\ c \in Collections /\ e \in Elements
      /\ step[k] = "convert" /\ i \in Nat /\ i # NoId
      /\ Registry!IsIdIn(db[c], e, i)
  BY <1>0 DEF Convert, CallsHold, CallersNameElement, ClientTypeOK, Request
<1>3. /\ returned' = IF InRange(i)
                       THEN [returned EXCEPT ![c][e] = @ \cup {U16(i)}]
                       ELSE returned
      /\ {k} \in SUBSET Callers /\ EndCalls({k})
      /\ UNCHANGED <<cache, serving, db, pc, req>>
  BY DEF Convert, serverVars
<1>4. InRange(i) => U16(i) = i /\ i \in 0 .. MaxU16
  BY <1>2, MaxU16Assumption DEF InRange, U16
<1> HIDE DEF c, e, i
<1>5. /\ step' \in [Callers -> CallSteps]
      /\ call' \in [Callers -> Request \cup {NoRequest}]
      /\ id' \in [Callers -> Nat \cup {NoId}]
      /\ CallsHold'
      /\ \A j \in Callers : id'[j] # NoId => id'[j] = id[j] /\ call'[j] = call[j]
  BY <1>0, <1>3, CallsEnd
<1>6. ClientTypeOK'
  <2>1. returned' \in [Collections -> [Elements -> SUBSET (0 .. MaxU16)]]
    BY <1>0, <1>2, <1>3, <1>4 DEF ClientTypeOK
  <2> QED
    BY <1>0, <1>1, <1>3, <1>5, <2>1 DEF IInv, ClientTypeOK
<1>7. CachesNameElement'
  BY <1>0, <1>1, <1>3, CachesKept
<1>8. ReturnedNameElement'
  <2> SUFFICES ASSUME NEW d \in Collections, NEW f \in Elements,
                      NEW j \in returned'[d][f]
               PROVE  Registry!IsIdIn(db'[d], f, j)
    BY DEF ReturnedNameElement
  <2>1. CASE j \in returned[d][f]
    BY <1>0, <1>3, <2>1 DEF CInv, ReturnedNameElement
  <2>2. CASE j \notin returned[d][f]
    <3>1. InRange(i) /\ d = c /\ f = e /\ j = U16(i)
      BY <1>0, <1>2, <1>3, <2>2 DEF ClientTypeOK
    <3> QED
      BY <1>2, <1>3, <1>4, <3>1
  <2> QED
    BY <2>1, <2>2
<1>9. CallersNameElement'
  BY <1>0, <1>1, <1>5, CallerKept DEF CallersNameElement
<1>10. ServingAgrees'
  BY <1>0, <1>2, <1>3 DEF ServingAgrees, EndCalls, ClientTypeOK
<1> QED
  BY <1>1, <1>5, <1>6, <1>7, <1>8, <1>9, <1>10 DEF CInv

LEMMA StutterKeeps == CInv /\ UNCHANGED vars => CInv'
<1> SUFFICES ASSUME CInv, UNCHANGED vars
             PROVE  CInv'
  OBVIOUS
<1>1. IInv' /\ IdsStay
  BY ServiceSteps DEF CInv, vars
<1> QED
  BY <1>1 DEF CInv, IInv, vars, clientVars, serverVars, ClientTypeOK,
     CachesNameElement, CallersNameElement, ReturnedNameElement, CallsHold,
     ServingAgrees

LEMMA ClientInvariant == ClientSpec => []CInv
<1>1. ClientInit => CInv
  BY ClientInitInvariant
<1>2. CInv /\ [ClientNext]_vars => CInv'
  BY CallKeeps, GetFromCacheKeeps, PostKeeps, PostFailsKeeps, DeliverKeeps,
     ServeKeeps, SaveInClientCacheKeeps, ConvertKeeps, ServerRestartKeeps,
     ProcessRestartKeeps, StutterKeeps
     DEF ClientNext, CallStep
<1> QED
  BY <1>1, <1>2, PTL DEF ClientSpec

-----------------------------------------------------------------------------
(* The theorems.                                                           *)

\* Every variable of the clients and the service keeps its type; what a caller is
\* given fits 16 bits.
THEOREM ClientTypeCorrect == ClientSpec => []ClientTypeOK
<1>1. CInv => ClientTypeOK
  BY DEF CInv
<1> QED
  BY <1>1, ClientInvariant, PTL

\* No caller is ever given an id of another element, and no process caches one
\* (client.go:21-59): through timeouts, late answers, lost appends and restarts of
\* either side, for any number of processes, callers and handlers.
THEOREM ClientIdsCorrect == ClientSpec => []ClientIdsNameElement
<1>1. CInv => ClientIdsNameElement
  BY DEF CInv, CachesNameElement, CallersNameElement, ReturnedNameElement,
         ClientIdsNameElement
<1> QED
  BY <1>1, ClientInvariant, PTL

-----------------------------------------------------------------------------
(* What callers see is the registry.                                       *)

LEMMA ClientInitRefines == ClientInit => Registered!Init
BY DEF ClientInit, Init, Registered!Init

\* An append is the assignment of a place to the callers too, or nothing to them.
LEMMA AppendAssigns ==
    ASSUME IInv, NEW h \in Handlers, pc[h] = "saveIDInDB", UNCHANGED returned,
           db' = [db EXCEPT ![req[h].collection] = AppendElement(@, req[h].element)]
    PROVE  [Registered!Next]_(Registered!vars)
<1> DEFINE c == req[h].collection
           e == req[h].element
<1>1. c \in Collections /\ e \in Elements /\ db \in [Collections -> Seq(Elements)]
  BY DEF IInv, TypeOK, RequestsPending, Request
<1>2. CASE Positions(db[c], e) = {}
  <2>1. db' = [db EXCEPT ![c] = Append(@, e)]
    BY <1>2 DEF AppendElement
  <2>2. ~ Registered!InList(db[c], e)
    BY <1>2 DEF Positions, Registered!InList
  <2> QED
    BY <1>1, <2>1, <2>2 DEF Registered!Next, Registered!Assign
<1>3. CASE Positions(db[c], e) # {}
  <2>1. db' = db
    BY <1>1, <1>3 DEF AppendElement
  <2> QED
    BY <2>1 DEF Registered!vars
<1> QED
  BY <1>2, <1>3

LEMMA ServeAssigns ==
    ASSUME IInv, NEW h \in Handlers, Serve(h), UNCHANGED returned
    PROVE  [Registered!Next]_(Registered!vars)
<1>1. CASE SaveIDInDB(h)
  BY <1>1, AppendAssigns DEF SaveIDInDB
<1>2. CASE SaveIDInDBFails(h) /\ db' # db
  BY <1>2, AppendAssigns DEF SaveIDInDBFails
<1>3. CASE db' = db
  BY <1>3 DEF Registered!vars
<1> QED
  BY <1>1, <1>2, <1>3
     DEF Serve, CheckInCache, GetIDFromDB, GetIDFromDBFails, SaveInCache

\* The id a call returns is an id of the element it asked for, at the time it returns.
LEMMA ConvertAnswers ==
    ASSUME CInv, NEW k \in Callers, Convert(k)
    PROVE  [Registered!Next]_(Registered!vars)
<1> DEFINE c == call[k].collection
           e == call[k].element
           i == id[k]
<1>1. CInv /\ ClientTypeOK /\ CallsHold /\ CallersNameElement
  BY DEF CInv
<1>2. /\ call[k] \in Request /\ c \in Collections /\ e \in Elements
      /\ i \in Nat /\ Registry!IsIdIn(db[c], e, i)
  BY <1>1 DEF Convert, CallsHold, CallersNameElement, ClientTypeOK, Request
<1>3. db' = db
  BY DEF Convert, serverVars
<1>4. CASE ~ InRange(i)
  BY <1>3, <1>4 DEF Convert, Registered!vars
<1>5. CASE InRange(i)
  <2>1. returned' = [returned EXCEPT ![c][e] = @ \cup {i}]
    BY <1>5 DEF Convert, InRange
  <2>2. db[c] \in Seq(Elements)
    BY <1>1, <1>2 DEF ClientTypeOK, TypeOK
  <2>3. i \in 0 .. Len(db[c]) /\ Registered!IsIdIn(db[c], e, i)
    BY <1>2, <2>2 DEF Registry!IsIdIn, Registered!IsIdIn
  <2>4. Registered!Answer(c, e, i)
    BY <1>3, <2>1, <2>3 DEF Registered!Answer
  <2> QED
    BY <1>2, <2>3, <2>4 DEF Registered!Next
<1> QED
  BY <1>4, <1>5

LEMMA ClientStepRefines ==
    CInv /\ [ClientNext]_vars => [Registered!Next]_(Registered!vars)
<1> SUFFICES ASSUME CInv, [ClientNext]_vars
             PROVE  [Registered!Next]_(Registered!vars)
  OBVIOUS
<1>1. ASSUME NEW k \in Callers, Convert(k)
      PROVE  [Registered!Next]_(Registered!vars)
  BY <1>1, ConvertAnswers
<1>2. ASSUME NEW k \in Callers,
             \/ GetFromCache(k) \/ Post(k) \/ SaveInClientCache(k) \/ PostFails(k)
             \/ \E r \in Request : Call(k, r)
      PROVE  UNCHANGED <<db, returned>>
  BY <1>2 DEF GetFromCache, Post, Receive, SaveInClientCache, PostFails, Call, serverVars
<1>3. ASSUME NEW h \in Handlers, Deliver(h)
      PROVE  UNCHANGED <<db, returned>>
  BY <1>3 DEF Deliver, Respond
<1>4. ASSUME NEW h \in Handlers, Serve(h), UNCHANGED clientVars
      PROVE  [Registered!Next]_(Registered!vars)
  BY <1>4, ServeAssigns DEF CInv, clientVars
<1>5. ASSUME ServerRestart \/ \E p \in Processes : ProcessRestart(p)
      PROVE  UNCHANGED <<db, returned>>
  BY <1>5 DEF ServerRestart, Restart, ProcessRestart
<1>6. CASE UNCHANGED vars
  BY <1>6 DEF vars, serverVars, clientVars, Registered!vars
<1> QED
  BY <1>1, <1>2, <1>3, <1>4, <1>5, <1>6
     DEF ClientNext, CallStep, Registered!vars

\* Callers of the clients see the registry (client.go:21-119): no cache, timeout, late
\* answer or restart lets a call return an id that IdRegistry would not answer then.
THEOREM ClientsRegistryImplemented == ClientSpec => ClientsImplementRegistry
<1>1. ClientInit => Registered!Init
  BY ClientInitRefines
<1>2. CInv /\ [ClientNext]_vars => [Registered!Next]_(Registered!vars)
  BY ClientStepRefines
<1> QED
  BY <1>1, <1>2, ClientInvariant, PTL
     DEF ClientSpec, ClientsImplementRegistry, Registered!Spec

\* A step of the clients is one of the service, a fault, or none to the service.
LEMMA ClientStepServes ==
    CInv /\ [ClientNext]_vars => [Registry!Next]_(Registry!vars)
<1> SUFFICES ASSUME CInv, [ClientNext]_vars
             PROVE  [Registry!Next]_(Registry!vars)
  OBVIOUS
<1>1. [Next]_serverVars => [Registry!Next]_(Registry!vars)
  BY StepRefines DEF CInv
<1>2. ASSUME NEW k \in Callers, CallStep(k) \/ \E r \in Request : Call(k, r)
      PROVE  [Registry!Next]_(Registry!vars)
  <2>1. CASE Post(k)
    <3>1. call[k] \in Request
      BY <2>1 DEF CInv, CallsHold, Post
    <3> QED
      BY <1>1, <2>1, <3>1 DEF Post, Next, Step
  <2>2. CASE UNCHANGED serverVars
    BY <1>1, <2>2
  <2> QED
    BY <1>2, <2>1, <2>2 DEF CallStep, GetFromCache, SaveInClientCache, Convert, Call
<1>3. ASSUME NEW h \in Handlers, Deliver(h) \/ Serve(h)
      PROVE  [Registry!Next]_(Registry!vars)
  BY <1>1, <1>3 DEF Deliver, Serve, Next, Step
<1>4. ASSUME \/ \E k \in Callers : PostFails(k)
             \/ \E p \in Processes : ProcessRestart(p)
      PROVE  [Registry!Next]_(Registry!vars)
  BY <1>4 DEF PostFails, ProcessRestart, Registry!vars
<1>5. CASE ServerRestart
  BY <1>1, <1>5 DEF ServerRestart, Next
<1>6. CASE UNCHANGED vars
  BY <1>6 DEF vars, serverVars, Registry!vars
<1> QED
  BY <1>2, <1>3, <1>4, <1>5, <1>6 DEF ClientNext

\* The service implements IdRegistry under its clients too (server.go:78-155): nothing
\* they do, timing out and restarting included, makes it answer otherwise.
THEOREM ServedRegistryImplemented == ClientSpec => ImplementsRegistry
<1>1. ClientInit => Registry!Init
  BY InitRefines DEF ClientInit
<1>2. CInv /\ [ClientNext]_vars => [Registry!Next]_(Registry!vars)
  BY ClientStepServes
<1> QED
  BY <1>1, <1>2, ClientInvariant, PTL
     DEF ClientSpec, ImplementsRegistry, Registry!Spec
=============================================================================
