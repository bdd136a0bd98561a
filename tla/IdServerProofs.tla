--------------------------- MODULE IdServerProofs ---------------------------
(***************************************************************************)
(* Proofs about the id service, for every set of collections, elements and *)
(* handlers and every number of faults.                                    *)
(*                                                                         *)
(* The inductive invariant is TypeOK, NoDuplicateElements, IdsNameElement  *)
(* and RequestsPending: a handler that is not idle holds a request, and    *)
(* one about to store an id holds an id.  It is kept because a list only   *)
(* grows at its end: an id that names the place of an element goes on      *)
(* naming it (AppendKeepsIds).                                             *)
(*                                                                         *)
(* For a service with one request at a time and no fault, SInv adds that   *)
(* everything stored is cached, so that no id is ever an index.            *)
(***************************************************************************)
EXTENDS IdServer, FiniteSetTheorems, TLAPS

RequestsPending ==
    \A h \in Handlers :
        /\ pc[h] # "idle" => req[h] \in Request
        /\ pc[h] = "saveInCache" => ret[h] # NoId

IInv == TypeOK /\ NoDuplicateElements /\ IdsNameElement /\ RequestsPending

-----------------------------------------------------------------------------
(* Facts about the lists.                                                  *)

\* Appending keeps a list of elements a list of elements.
LEMMA AppendElementType ==
    ASSUME NEW l \in Seq(Elements), NEW e \in Elements
    PROVE  AppendElement(l, e) \in Seq(Elements)
BY DEF AppendElement

\* AddUnique keeps the elements of a list distinct.
LEMMA AppendElementDistinct ==
    ASSUME NEW l \in Seq(Elements), NEW e \in Elements,
           \A j, k \in 1 .. Len(l) : l[j] = l[k] => j = k
    PROVE  LET m == AppendElement(l, e)
           IN  \A j, k \in 1 .. Len(m) : m[j] = m[k] => j = k
BY DEF AppendElement, Positions

\* An id that names the place of an element goes on naming it.
LEMMA AppendKeepsIds ==
    ASSUME NEW l \in Seq(Elements), NEW e \in Elements, NEW f \in Elements,
           NEW i, Registry!IsIdIn(l, f, i)
    PROVE  Registry!IsIdIn(AppendElement(l, e), f, i)
BY DEF AppendElement, Positions, Registry!IsIdIn

\* The index that is read names the place of the element.
LEMMA IndexNamesElement ==
    ASSUME NEW l \in Seq(Elements), NEW e \in Elements, Positions(l, e) # {}
    PROVE  /\ IndexIn(l, e) \in Nat
           /\ Registry!IsIdIn(l, e, IndexIn(l, e))
<1> DEFINE k == CHOOSE k \in Positions(l, e) : TRUE
<1>1. k \in Positions(l, e)
  OBVIOUS
<1>2. k \in 1 .. Len(l) /\ l[k] = e
  BY <1>1 DEF Positions
<1>3. IndexIn(l, e) = k - 1
  BY DEF IndexIn
<1> HIDE DEF k
<1>4. k - 1 \in Nat
  BY <1>2
<1> QED
  BY <1>2, <1>3, <1>4 DEF Registry!IsIdIn

\* The length returned by an append names the place of the element.
LEMMA LengthNamesElement ==
    ASSUME NEW l \in Seq(Elements), NEW e \in Elements, ~ ElementExists(l, e)
    PROVE  LET m == AppendElement(l, e)
           IN  /\ Positions(l, e) = {}
               /\ m = Append(l, e)
               /\ Len(m) \in Nat
               /\ Registry!IsIdIn(m, e, Len(m))
BY DEF AppendElement, ElementExists, Positions, Registry!IsIdIn

-----------------------------------------------------------------------------
(* The invariant.                                                          *)

LEMMA InitInvariant == Init => IInv
BY MaxFaultsAssumption
   DEF Init, IInv, TypeOK, NoDuplicateElements, IdsNameElement, RequestsPending,
       CachedIdsNameElement, IssuedIdsNameElement, PendingIdsNameElement,
       EmptyCache, NoId, HandlerSteps

\* An append to one list, by handler h, keeps what the invariant says of the lists
\* and of every id held for an element.
LEMMA AppendKeepsInvariant ==
    ASSUME IInv, NEW h \in Handlers, pc[h] = "saveIDInDB",
           db' = [db EXCEPT ![req[h].collection] = AppendElement(@, req[h].element)]
    PROVE  /\ db' \in [Collections -> Seq(Elements)]
           /\ NoDuplicateElements'
           /\ \A c \in Collections, e \in Elements, i \in Nat :
                 Registry!IsIdIn(db[c], e, i) => Registry!IsIdIn(db'[c], e, i)
<1> DEFINE c == req[h].collection
           e == req[h].element
<1>1. c \in Collections /\ e \in Elements
  BY DEF IInv, RequestsPending, Request
<1>2. db \in [Collections -> Seq(Elements)]
  BY DEF IInv, TypeOK
<1>3. \A d \in Collections : db'[d] = IF d = c THEN AppendElement(db[c], e) ELSE db[d]
  BY <1>2
<1> HIDE DEF c, e
<1>4. db' \in [Collections -> Seq(Elements)]
  <2>1. AppendElement(db[c], e) \in Seq(Elements)
    BY <1>1, <1>2, AppendElementType
  <2>2. DOMAIN db' = Collections /\ db' = [d \in Collections |-> db'[d]]
    BY <1>2
  <2> QED
    BY <1>2, <1>3, <2>1, <2>2
<1>5. NoDuplicateElements'
  <2> SUFFICES ASSUME NEW d \in Collections,
                      NEW j \in 1 .. Len(db'[d]), NEW k \in 1 .. Len(db'[d]),
                      db'[d][j] = db'[d][k]
               PROVE  j = k
    BY DEF NoDuplicateElements
  <2>1. \A m, n \in 1 .. Len(db[d]) : db[d][m] = db[d][n] => m = n
    BY DEF IInv, NoDuplicateElements
  <2>2. CASE d = c
    <3>1. \A m, n \in 1 .. Len(db'[c]) : db'[c][m] = db'[c][n] => m = n
      BY <1>1, <1>2, <1>3, <2>1, <2>2, AppendElementDistinct
    <3> QED
      BY <2>2, <3>1
  <2>3. CASE d # c
    BY <1>3, <2>1, <2>3
  <2> QED
    BY <2>2, <2>3
<1>6. ASSUME NEW d \in Collections, NEW f \in Elements, NEW i \in Nat,
             Registry!IsIdIn(db[d], f, i)
      PROVE  Registry!IsIdIn(db'[d], f, i)
  <2>1. CASE d = c
    BY <1>1, <1>2, <1>3, <1>6, <2>1, AppendKeepsIds
  <2>2. CASE d # c
    BY <1>3, <1>6, <2>2
  <2> QED
    BY <2>1, <2>2
<1> QED
  BY <1>4, <1>5, <1>6

\* Every step of the service and every fault preserves the invariant.
THEOREM StepInvariant == IInv /\ [Next]_serverVars => IInv'
<1> SUFFICES ASSUME IInv, [Next]_serverVars
             PROVE  IInv'
  OBVIOUS
<1>0. /\ TypeOK /\ NoDuplicateElements /\ RequestsPending
      /\ CachedIdsNameElement /\ IssuedIdsNameElement /\ PendingIdsNameElement
  BY DEF IInv, IdsNameElement
<1>1. ASSUME NEW h \in Handlers, NEW r \in Request, Receive(h, r)
      PROVE  IInv'
  <2>1. TypeOK'
    BY <1>0, <1>1 DEF TypeOK, Receive, Goto, HandlerSteps
  <2>2. NoDuplicateElements' /\ CachedIdsNameElement' /\ IssuedIdsNameElement'
    BY <1>0, <1>1 DEF Receive, NoDuplicateElements, CachedIdsNameElement,
                      IssuedIdsNameElement
  <2>3. PendingIdsNameElement' /\ RequestsPending'
    BY <1>0, <1>1 DEF TypeOK, Receive, Goto, PendingIdsNameElement, RequestsPending
  <2> QED
    BY <2>1, <2>2, <2>3 DEF IInv, IdsNameElement
<1>2. ASSUME NEW h \in Handlers, CheckInCache(h)
      PROVE  IInv'
  <2>0. req[h] \in Request /\ Cached(h) \in Nat \cup {NoId}
    BY <1>0, <1>2 DEF TypeOK, RequestsPending, CheckInCache, Request, Cached
  <2>1. TypeOK'
    BY <1>0, <1>2, <2>0 DEF TypeOK, CheckInCache, Goto, Return, HandlerSteps
  <2>2. NoDuplicateElements' /\ CachedIdsNameElement' /\ IssuedIdsNameElement'
    BY <1>0, <1>2 DEF CheckInCache, NoDuplicateElements, CachedIdsNameElement,
                      IssuedIdsNameElement
  <2>3. PendingIdsNameElement'
    <3>1. Cached(h) # NoId =>
            Registry!IsIdIn(db[req[h].collection], req[h].element, Cached(h))
      BY <1>0, <2>0 DEF CachedIdsNameElement, Request, Cached
    <3> QED
      BY <1>0, <1>2, <3>1
         DEF TypeOK, CheckInCache, Goto, Return, PendingIdsNameElement
  <2>4. RequestsPending'
    BY <1>0, <1>2 DEF TypeOK, CheckInCache, Goto, Return, RequestsPending
  <2> QED
    BY <2>1, <2>2, <2>3, <2>4 DEF IInv, IdsNameElement
<1>3. ASSUME NEW h \in Handlers, GetIDFromDB(h)
      PROVE  IInv'
  <2> DEFINE l == db[req[h].collection]
             e == req[h].element
  <2>0. req[h] \in Request /\ l \in Seq(Elements) /\ e \in Elements
    BY <1>0, <1>3 DEF TypeOK, RequestsPending, GetIDFromDB, Request
  <2>1. Positions(l, e) # {} =>
          IndexIn(l, e) \in Nat /\ Registry!IsIdIn(l, e, IndexIn(l, e))
    BY <2>0, IndexNamesElement
  <2>2. TypeOK'
    BY <1>0, <1>3, <2>1 DEF TypeOK, GetIDFromDB, Fail, Goto, Return, HandlerSteps
  <2>3. NoDuplicateElements' /\ CachedIdsNameElement' /\ IssuedIdsNameElement'
    BY <1>0, <1>3 DEF GetIDFromDB, NoDuplicateElements, CachedIdsNameElement,
                      IssuedIdsNameElement
  <2>4. PendingIdsNameElement'
    BY <1>0, <1>3, <2>1
       DEF TypeOK, GetIDFromDB, Fail, Goto, Return, PendingIdsNameElement
  <2>5. RequestsPending'
    BY <1>0, <1>3, <2>1
       DEF TypeOK, GetIDFromDB, Fail, Goto, Return, RequestsPending, NoId
  <2> QED
    BY <2>2, <2>3, <2>4, <2>5 DEF IInv, IdsNameElement
<1>4. ASSUME NEW h \in Handlers, GetIDFromDBFails(h)
      PROVE  IInv'
  <2>1. TypeOK'
    BY <1>0, <1>4, MaxFaultsAssumption
       DEF TypeOK, GetIDFromDBFails, Fault, Fail, Goto, Return, HandlerSteps
  <2>2. NoDuplicateElements' /\ CachedIdsNameElement' /\ IssuedIdsNameElement'
    BY <1>0, <1>4 DEF GetIDFromDBFails, NoDuplicateElements, CachedIdsNameElement,
                      IssuedIdsNameElement
  <2>3. PendingIdsNameElement' /\ RequestsPending'
    BY <1>0, <1>4 DEF TypeOK, GetIDFromDBFails, Fail, Goto, Return,
                      PendingIdsNameElement, RequestsPending
  <2> QED
    BY <2>1, <2>2, <2>3 DEF IInv, IdsNameElement
<1>5. ASSUME NEW h \in Handlers, SaveIDInDB(h)
      PROVE  IInv'
  <2> DEFINE c == req[h].collection
             e == req[h].element
  <2>0. req[h] \in Request /\ c \in Collections /\ e \in Elements
        /\ db[c] \in Seq(Elements)
    BY <1>0, <1>5 DEF TypeOK, RequestsPending, SaveIDInDB, Request
  <2>1. /\ db' \in [Collections -> Seq(Elements)]
        /\ NoDuplicateElements'
        /\ \A d \in Collections, f \in Elements, i \in Nat :
              Registry!IsIdIn(db[d], f, i) => Registry!IsIdIn(db'[d], f, i)
    BY <1>5, AppendKeepsInvariant DEF SaveIDInDB
  <2>2. ~ ElementExists(db[c], e) =>
          Len(db'[c]) \in Nat /\ Registry!IsIdIn(db'[c], e, Len(db'[c]))
    <3>1. db'[c] = AppendElement(db[c], e)
      BY <1>0, <1>5, <2>0 DEF TypeOK, SaveIDInDB
    <3> QED
      BY <2>0, <3>1, LengthNamesElement
  <2>3. TypeOK'
    BY <1>0, <1>5, <2>1, <2>2
       DEF TypeOK, SaveIDInDB, Fail, Goto, Return, HandlerSteps
  <2>4. CachedIdsNameElement' /\ IssuedIdsNameElement'
    BY <1>0, <1>5, <2>1
       DEF TypeOK, SaveIDInDB, CachedIdsNameElement, IssuedIdsNameElement
  <2>5. PendingIdsNameElement'
    <3> SUFFICES ASSUME NEW g \in Handlers, pc'[g] \in {"saveInCache", "respond"},
                        ret'[g] # NoId
                 PROVE  Registry!IsIdIn(db'[req[g].collection], req[g].element, ret'[g])
      BY <1>5 DEF SaveIDInDB, PendingIdsNameElement
    <3>1. CASE g = h
      BY <1>0, <1>5, <2>2, <3>1 DEF TypeOK, SaveIDInDB, Fail, Goto, Return
    <3>2. CASE g # h
      <4>1. pc'[g] = pc[g] /\ ret'[g] = ret[g]
        BY <1>0, <1>5, <3>2 DEF TypeOK, SaveIDInDB, Fail, Goto, Return
      <4>2. req[g] \in Request /\ ret[g] \in Nat
        BY <1>0, <4>1 DEF TypeOK, RequestsPending
      <4> QED
        BY <1>0, <2>1, <4>1, <4>2 DEF PendingIdsNameElement, Request
    <3> QED
      BY <3>1, <3>2
  <2>6. RequestsPending'
    BY <1>0, <1>5, <2>2
       DEF TypeOK, SaveIDInDB, Fail, Goto, Return, RequestsPending, NoId
  <2> QED
    BY <2>1, <2>3, <2>4, <2>5, <2>6 DEF IInv, IdsNameElement
<1>6. ASSUME NEW h \in Handlers, SaveIDInDBFails(h)
      PROVE  IInv'
  <2>1. /\ db' \in [Collections -> Seq(Elements)]
        /\ NoDuplicateElements'
        /\ \A d \in Collections, f \in Elements, i \in Nat :
              Registry!IsIdIn(db[d], f, i) => Registry!IsIdIn(db'[d], f, i)
    <3>1. CASE db' = db
      BY <1>0, <3>1 DEF TypeOK, NoDuplicateElements
    <3>2. CASE db' # db
      BY <1>6, <3>2, AppendKeepsInvariant DEF SaveIDInDBFails
    <3> QED
      BY <3>1, <3>2
  <2>2. TypeOK'
    BY <1>0, <1>6, <2>1, MaxFaultsAssumption
       DEF TypeOK, SaveIDInDBFails, Fault, Fail, Goto, Return, HandlerSteps
  <2>3. CachedIdsNameElement' /\ IssuedIdsNameElement'
    BY <1>0, <1>6, <2>1
       DEF TypeOK, SaveIDInDBFails, CachedIdsNameElement, IssuedIdsNameElement
  <2>4. PendingIdsNameElement'
    <3> SUFFICES ASSUME NEW g \in Handlers, pc'[g] \in {"saveInCache", "respond"},
                        ret'[g] # NoId
                 PROVE  Registry!IsIdIn(db'[req[g].collection], req[g].element, ret'[g])
      BY <1>6 DEF SaveIDInDBFails, PendingIdsNameElement
    <3>1. g # h /\ pc'[g] = pc[g] /\ ret'[g] = ret[g]
      BY <1>0, <1>6 DEF TypeOK, SaveIDInDBFails, Fail, Goto, Return
    <3>2. req[g] \in Request /\ ret[g] \in Nat
      BY <1>0, <3>1 DEF TypeOK, RequestsPending
    <3> QED
      BY <1>0, <2>1, <3>1, <3>2 DEF PendingIdsNameElement, Request
  <2>5. RequestsPending'
    BY <1>0, <1>6 DEF TypeOK, SaveIDInDBFails, Fail, Goto, Return, RequestsPending
  <2> QED
    BY <2>1, <2>2, <2>3, <2>4, <2>5 DEF IInv, IdsNameElement
<1>7. ASSUME NEW h \in Handlers, SaveInCache(h)
      PROVE  IInv'
  <2>0. /\ req[h] \in Request /\ ret[h] \in Nat
        /\ Registry!IsIdIn(db[req[h].collection], req[h].element, ret[h])
    BY <1>0, <1>7 DEF TypeOK, RequestsPending, SaveInCache, PendingIdsNameElement
  <2>1. TypeOK'
    BY <1>0, <1>7, <2>0 DEF TypeOK, SaveInCache, Goto, HandlerSteps, Request
  <2>2. NoDuplicateElements' /\ IssuedIdsNameElement'
    BY <1>0, <1>7 DEF SaveInCache, NoDuplicateElements, IssuedIdsNameElement
  <2>3. CachedIdsNameElement'
    BY <1>0, <1>7, <2>0 DEF TypeOK, SaveInCache, CachedIdsNameElement, Request
  <2>4. PendingIdsNameElement' /\ RequestsPending'
    BY <1>0, <1>7, <2>0
       DEF TypeOK, SaveInCache, Goto, PendingIdsNameElement, RequestsPending
  <2> QED
    BY <2>1, <2>2, <2>3, <2>4 DEF IInv, IdsNameElement
<1>8. ASSUME NEW h \in Handlers, Respond(h)
      PROVE  IInv'
  <2>0. /\ req[h] \in Request
        /\ ret[h] # NoId =>
             /\ ret[h] \in Nat
             /\ Registry!IsIdIn(db[req[h].collection], req[h].element, ret[h])
    BY <1>0, <1>8 DEF TypeOK, RequestsPending, Respond, PendingIdsNameElement
  <2>1. TypeOK'
    BY <1>0, <1>8, <2>0 DEF TypeOK, Respond, Goto, Return, HandlerSteps, Request
  <2>2. NoDuplicateElements' /\ CachedIdsNameElement'
    BY <1>0, <1>8 DEF Respond, NoDuplicateElements, CachedIdsNameElement
  <2>3. IssuedIdsNameElement'
    BY <1>0, <1>8, <2>0 DEF TypeOK, Respond, IssuedIdsNameElement, Request
  <2>4. PendingIdsNameElement' /\ RequestsPending'
    BY <1>0, <1>8 DEF TypeOK, Respond, Goto, Return, PendingIdsNameElement,
                      RequestsPending
  <2> QED
    BY <2>1, <2>2, <2>3, <2>4 DEF IInv, IdsNameElement
<1>9. CASE Restart
  <2>1. TypeOK'
    BY <1>0, <1>9, MaxFaultsAssumption
       DEF TypeOK, Restart, Fault, EmptyCache, HandlerSteps
  <2>2. NoDuplicateElements' /\ CachedIdsNameElement' /\ IssuedIdsNameElement'
    BY <1>0, <1>9 DEF Restart, EmptyCache, NoDuplicateElements,
                      CachedIdsNameElement, IssuedIdsNameElement
  <2>3. PendingIdsNameElement' /\ RequestsPending'
    BY <1>9 DEF Restart, PendingIdsNameElement, RequestsPending
  <2> QED
    BY <2>1, <2>2, <2>3 DEF IInv, IdsNameElement
<1>10. CASE UNCHANGED serverVars
  BY <1>0, <1>10 DEF serverVars, IInv, TypeOK, NoDuplicateElements, IdsNameElement,
                     CachedIdsNameElement, IssuedIdsNameElement,
                     PendingIdsNameElement, RequestsPending
<1> QED
  BY <1>1, <1>2, <1>3, <1>4, <1>5, <1>6, <1>7, <1>8, <1>9, <1>10 DEF Next, Step

LEMMA Invariant == Spec => []IInv
BY InitInvariant, StepInvariant, PTL DEF Spec

-----------------------------------------------------------------------------
(* The theorems.                                                           *)

\* Every variable of the id service keeps its type, through faults and restarts.
THEOREM TypeCorrect == Spec => []TypeOK
<1>1. IInv => TypeOK
  BY DEF IInv
<1> QED
  BY <1>1, Invariant, PTL

\* Handlers that append the same element at the same time, and appends whose answer
\* is lost, never put an element twice into a list (server.go:83-88, db.go:55).
THEOREM ElementsDistinct == Spec => []NoDuplicateElements
<1>1. IInv => NoDuplicateElements
  BY DEF IInv
<1> QED
  BY <1>1, Invariant, PTL

\* Every id the service caches, is about to answer or ever answered names the place
\* of its element in the list (server.go:78-155).
THEOREM IdsCorrect == Spec => []IdsNameElement
<1>1. IInv => IdsNameElement
  BY DEF IInv
<1> QED
  BY <1>1, Invariant, PTL

-----------------------------------------------------------------------------
(* The service implements the registry.                                    *)

LEMMA InitRefines == Init => Registry!Init
BY DEF Init, Registry!Init

\* The append of a handler is the assignment of a place, or a stutter when the
\* element is there already.
LEMMA AppendRefines ==
    ASSUME IInv, NEW h \in Handlers, pc[h] = "saveIDInDB", UNCHANGED issued,
           db' = [db EXCEPT ![req[h].collection] = AppendElement(@, req[h].element)]
    PROVE  [Registry!Next]_(Registry!vars)
<1> DEFINE c == req[h].collection
           e == req[h].element
<1>1. c \in Collections /\ e \in Elements /\ db \in [Collections -> Seq(Elements)]
  BY DEF IInv, TypeOK, RequestsPending, Request
<1>2. CASE Positions(db[c], e) = {}
  <2>1. db' = [db EXCEPT ![c] = Append(@, e)]
    BY <1>2 DEF AppendElement
  <2>2. ~ Registry!InList(db[c], e)
    BY <1>2 DEF Positions, Registry!InList
  <2> QED
    BY <1>1, <2>1, <2>2 DEF Registry!Next, Registry!Assign
<1>3. CASE Positions(db[c], e) # {}
  <2>1. db' = db
    BY <1>1, <1>3 DEF AppendElement
  <2> QED
    BY <2>1 DEF Registry!vars
<1> QED
  BY <1>2, <1>3

LEMMA StepRefines == IInv /\ [Next]_serverVars => [Registry!Next]_(Registry!vars)
<1> SUFFICES ASSUME IInv, [Next]_serverVars
             PROVE  [Registry!Next]_(Registry!vars)
  OBVIOUS
<1>1. ASSUME NEW h \in Handlers, NEW r \in Request, Receive(h, r)
      PROVE  [Registry!Next]_(Registry!vars)
  BY <1>1 DEF Receive, Registry!vars
<1>2. ASSUME NEW h \in Handlers, CheckInCache(h)
      PROVE  [Registry!Next]_(Registry!vars)
  BY <1>2 DEF CheckInCache, Registry!vars
<1>3. ASSUME NEW h \in Handlers, GetIDFromDB(h) \/ GetIDFromDBFails(h)
      PROVE  [Registry!Next]_(Registry!vars)
  BY <1>3 DEF GetIDFromDB, GetIDFromDBFails, Registry!vars
<1>4. ASSUME NEW h \in Handlers, SaveIDInDB(h)
      PROVE  [Registry!Next]_(Registry!vars)
  BY <1>4, AppendRefines DEF SaveIDInDB
<1>5. ASSUME NEW h \in Handlers, SaveIDInDBFails(h)
      PROVE  [Registry!Next]_(Registry!vars)
  <2>1. CASE db' = db
    BY <1>5, <2>1 DEF SaveIDInDBFails, Registry!vars
  <2>2. CASE db' # db
    BY <1>5, <2>2, AppendRefines DEF SaveIDInDBFails
  <2> QED
    BY <2>1, <2>2
<1>6. ASSUME NEW h \in Handlers, SaveInCache(h)
      PROVE  [Registry!Next]_(Registry!vars)
  BY <1>6 DEF SaveInCache, Registry!vars
<1>7. ASSUME NEW h \in Handlers, Respond(h)
      PROVE  [Registry!Next]_(Registry!vars)
  <2> DEFINE c == req[h].collection
             e == req[h].element
  <2>1. CASE ret[h] = NoId
    BY <1>7, <2>1 DEF Respond, Registry!vars
  <2>2. CASE ret[h] # NoId
    <3>1. c \in Collections /\ e \in Elements /\ ret[h] \in Nat
          /\ db[c] \in Seq(Elements)
      BY <1>7, <2>2 DEF IInv, TypeOK, RequestsPending, Respond, Request
    <3>2. Registry!IsIdIn(db[c], e, ret[h])
      BY <1>7, <2>2 DEF IInv, IdsNameElement, PendingIdsNameElement, Respond
    <3>3. ret[h] \in 0 .. Len(db[c])
      BY <3>1, <3>2 DEF Registry!IsIdIn
    <3>4. Registry!Answer(c, e, ret[h])
      BY <1>7, <2>2, <3>2 DEF Respond, Registry!Answer
    <3> QED
      BY <3>1, <3>3, <3>4 DEF Registry!Next
  <2> QED
    BY <2>1, <2>2
<1>8. CASE Restart
  BY <1>8 DEF Restart, Registry!vars
<1>9. CASE UNCHANGED serverVars
  BY <1>9 DEF serverVars, Registry!vars
<1> QED
  BY <1>1, <1>2, <1>3, <1>4, <1>5, <1>6, <1>7, <1>8, <1>9 DEF Next, Step

\* The id service implements IdRegistry: its lists only grow at the end and by new
\* elements, and it never answers anything but an id of the element's place.
THEOREM RegistryImplemented == Spec => ImplementsRegistry
<1>1. Init => Registry!Init
  BY InitRefines
<1>2. IInv /\ [Next]_serverVars => [Registry!Next]_(Registry!vars)
  BY StepRefines
<1> QED
  BY <1>1, <1>2, Invariant, PTL DEF Spec, ImplementsRegistry, Registry!Spec

-----------------------------------------------------------------------------
(* A service that serves one request at a time and meets no fault.         *)

Sequential == MaxFaults = 0 /\ \A g, h \in Handlers : g = h

\* Id i is the place of element e in list l, counted from one.
IsPlace(l, e, i) == i \in 1 .. Len(l) /\ l[i] = e

\* What was answered is what is cached, which is the place of the element.
AnswersCached ==
    \A c \in Collections, e \in Elements :
        /\ \A i \in issued[c][e] : i = idsCache[c][e]
        /\ idsCache[c][e] # NoId => IsPlace(db[c], e, idsCache[c][e])

\* The cache knows every stored element but the one that is just being stored.
StoredCached ==
    \A c \in Collections : \A k \in 1 .. Len(db[c]) :
        \/ idsCache[c][db[c][k]] # NoId
        \/ \E h \in Handlers :
             /\ pc[h] = "saveInCache"
             /\ req[h].collection = c
             /\ req[h].element = db[c][k]

HandlersAgree ==
    \A h \in Handlers :
        /\ pc[h] \in {"getIDFromDB", "saveIDInDB", "saveInCache"} => Cached(h) = NoId
        /\ pc[h] = "saveInCache" =>
             IsPlace(db[req[h].collection], req[h].element, ret[h])
        /\ pc[h] = "respond" /\ ret[h] # NoId => ret[h] = Cached(h)

SInv == IInv /\ AnswersCached /\ StoredCached /\ HandlersAgree

\* What a handler looks for in the list after the cache is not there.
LEMMA NotStored ==
    ASSUME Sequential, SInv, NEW h \in Handlers, pc[h] \in {"getIDFromDB", "saveIDInDB"}
    PROVE  Positions(db[req[h].collection], req[h].element) = {}
<1>1. req[h] \in Request /\ req[h].collection \in Collections
  BY DEF SInv, IInv, RequestsPending, Request
<1>2. ASSUME NEW k \in 1 .. Len(db[req[h].collection]),
             db[req[h].collection][k] = req[h].element
      PROVE  FALSE
  <2>1. idsCache[req[h].collection][req[h].element] = NoId
    BY DEF SInv, HandlersAgree, Cached
  <2>2. PICK g \in Handlers : pc[g] = "saveInCache"
    BY <1>1, <1>2, <2>1 DEF SInv, StoredCached
  <2>3. g = h
    BY DEF Sequential
  <2> QED
    BY <2>2, <2>3
<1> QED
  BY <1>2 DEF Positions

LEMMA InitSequential == Init => SInv
<1> SUFFICES ASSUME Init PROVE SInv
  OBVIOUS
<1>1. IInv
  BY InitInvariant
<1>2. AnswersCached /\ StoredCached /\ HandlersAgree
  BY DEF Init, EmptyCache, AnswersCached, StoredCached, HandlersAgree
<1> QED
  BY <1>1, <1>2 DEF SInv

LEMMA StepSequential ==
    ASSUME Sequential, SInv, [Next]_serverVars
    PROVE  SInv'
<1>0. IInv' /\ IInv /\ TypeOK /\ AnswersCached /\ StoredCached /\ HandlersAgree
  BY StepInvariant DEF SInv, IInv
<1>1. ~ Fault
  BY <1>0 DEF Sequential, Fault, TypeOK
<1>2. \A g, h \in Handlers : g = h
  BY DEF Sequential
<1>3. ASSUME NEW h \in Handlers, NEW r \in Request, Receive(h, r)
      PROVE  SInv'
  <2>1. AnswersCached'
    BY <1>0, <1>3 DEF Receive, AnswersCached
  <2>2. StoredCached' /\ HandlersAgree'
    BY <1>0, <1>2, <1>3 DEF TypeOK, Receive, Goto, StoredCached, HandlersAgree, Cached
  <2> QED
    BY <1>0, <2>1, <2>2 DEF SInv
<1>4. ASSUME NEW h \in Handlers, CheckInCache(h)
      PROVE  SInv'
  <2>1. AnswersCached'
    BY <1>0, <1>4 DEF CheckInCache, AnswersCached
  <2>2. StoredCached'
    BY <1>0, <1>2, <1>4 DEF TypeOK, CheckInCache, Goto, StoredCached
  <2>3. HandlersAgree'
    BY <1>0, <1>2, <1>4 DEF TypeOK, CheckInCache, Goto, Return, HandlersAgree, Cached
  <2> QED
    BY <1>0, <2>1, <2>2, <2>3 DEF SInv
<1>5. ASSUME NEW h \in Handlers, GetIDFromDB(h)
      PROVE  SInv'
  <2>1. Positions(db[req[h].collection], req[h].element) = {}
    BY <1>5, NotStored DEF GetIDFromDB
  <2>2. /\ UNCHANGED <<db, idsCache, req, issued>>
        /\ pc[h] = "getIDFromDB"
        /\ \/ pc' = [pc EXCEPT ![h] = "saveIDInDB"] /\ ret' = ret
           \/ pc' = [pc EXCEPT ![h] = "respond"] /\ ret' = [ret EXCEPT ![h] = NoId]
    BY <1>5, <2>1 DEF GetIDFromDB, Fail, Goto, Return
  <2>3. AnswersCached'
    BY <1>0, <2>2 DEF AnswersCached
  <2>4. StoredCached' /\ HandlersAgree'
    BY <1>0, <1>2, <2>2 DEF TypeOK, StoredCached, HandlersAgree, Cached
  <2> QED
    BY <1>0, <2>3, <2>4 DEF SInv
<1>6. ASSUME NEW h \in Handlers, SaveIDInDB(h)
      PROVE  SInv'
  <2> DEFINE c == req[h].collection
             e == req[h].element
             l == db[c]
  <2>1. Positions(l, e) = {} /\ pc[h] = "saveIDInDB"
    BY <1>6, NotStored DEF SaveIDInDB
  <2>2. c \in Collections /\ e \in Elements /\ l \in Seq(Elements)
    BY <1>0, <2>1 DEF IInv, TypeOK, RequestsPending, Request
  <2>3. /\ Append(l, e) \in Seq(Elements)
        /\ Len(Append(l, e)) = Len(l) + 1
        /\ Append(l, e)[Len(l) + 1] = e
        /\ \A k \in 1 .. Len(l) : Append(l, e)[k] = l[k]
    BY <2>2
  <2>4. /\ db' = [db EXCEPT ![c] = Append(l, e)]
        /\ UNCHANGED <<idsCache, req, issued>>
        /\ pc' = [pc EXCEPT ![h] = "saveInCache"]
        /\ ret' = [ret EXCEPT ![h] = Len(db'[c])]
    <3>1. AppendElement(l, e) = Append(l, e)
      BY <2>1 DEF AppendElement
    <3>2. ~ ElementExists(l, e)
      BY <2>2, <2>3, <3>1 DEF ElementExists
    <3> QED
      BY <1>6, <3>1, <3>2 DEF SaveIDInDB, Goto, Return
  <2>5. /\ db'[c] = Append(l, e)
        /\ \A d \in Collections : d # c => db'[d] = db[d]
        /\ pc'[h] = "saveInCache" /\ ret'[h] = Len(l) + 1
    BY <1>0, <2>2, <2>3, <2>4 DEF TypeOK
  <2> HIDE DEF c, e, l
  <2>6. Len(l) \in Nat /\ l = db[c]
    BY <2>2 DEF l
  <2>7. AnswersCached'
    <3> SUFFICES ASSUME NEW d \in Collections, NEW f \in Elements, idsCache[d][f] # NoId
                 PROVE  IsPlace(db'[d], f, idsCache[d][f])
      BY <1>0, <2>4 DEF AnswersCached
    <3>1. IsPlace(db[d], f, idsCache[d][f])
      BY <1>0 DEF AnswersCached
    <3> QED
      BY <2>3, <2>5, <2>6, <3>1 DEF IsPlace
  <2>8. StoredCached'
    <3> SUFFICES ASSUME NEW d \in Collections, NEW k \in 1 .. Len(db'[d]),
                        idsCache[d][db'[d][k]] = NoId
                 PROVE  c = d /\ e = db'[d][k]
      BY <2>4, <2>5 DEF StoredCached, c, e
    <3>1. \A i \in 1 .. Len(db[d]) : idsCache[d][db[d][i]] # NoId
      BY <1>0, <1>2, <2>1 DEF StoredCached
    <3>2. CASE d # c
      BY <2>5, <3>1, <3>2
    <3>3. CASE d = c
      BY <2>3, <2>5, <2>6, <3>1, <3>3
    <3> QED
      BY <3>2, <3>3
  <2>9. HandlersAgree'
    <3>1. Cached(h)' = NoId
      BY <1>0, <2>1, <2>4 DEF HandlersAgree, Cached
    <3>2. IsPlace(db'[c], e, ret'[h])
      BY <2>3, <2>5, <2>6 DEF IsPlace
    <3>3. req'[h].collection = c /\ req'[h].element = e
      BY <2>4 DEF c, e
    <3>4. \A g \in Handlers : g = h
      BY <1>2
    <3> QED
      BY <2>5, <3>1, <3>2, <3>3, <3>4 DEF HandlersAgree
  <2> QED
    BY <1>0, <2>7, <2>8, <2>9 DEF SInv
<1>7. ASSUME NEW h \in Handlers, SaveInCache(h)
      PROVE  SInv'
  <2> DEFINE c == req[h].collection
             e == req[h].element
  <2>1. /\ c \in Collections /\ e \in Elements /\ ret[h] # NoId
        /\ idsCache[c][e] = NoId /\ IsPlace(db[c], e, ret[h])
    BY <1>0, <1>7 DEF IInv, RequestsPending, Request, SaveInCache, HandlersAgree, Cached
  <2>2. /\ UNCHANGED <<db, req, ret, issued>>
        /\ pc' = [pc EXCEPT ![h] = "respond"] /\ pc'[h] = "respond"
        /\ idsCache' = [idsCache EXCEPT ![c][e] = ret[h]]
        /\ \A d \in Collections, f \in Elements :
             idsCache'[d][f] = IF d = c /\ f = e THEN ret[h] ELSE idsCache[d][f]
    BY <1>0, <1>7 DEF TypeOK, SaveInCache, Goto
  <2>3. Cached(h)' = ret[h]
    BY <2>1, <2>2 DEF Cached
  <2> HIDE DEF c, e
  <2>4. issued[c][e] = {}
    <3>1. \A i \in issued[c][e] : i = NoId /\ i \in Nat
      BY <1>0, <2>1 DEF AnswersCached, TypeOK
    <3> QED
      BY <3>1 DEF NoId
  <2>5. AnswersCached'
    BY <1>0, <2>1, <2>2, <2>4 DEF AnswersCached
  <2>6. StoredCached'
    <3> SUFFICES ASSUME NEW d \in Collections, NEW k \in 1 .. Len(db[d])
                 PROVE  idsCache'[d][db[d][k]] # NoId
      BY <2>2 DEF StoredCached
    <3>1. db[d][k] \in Elements
      BY <1>0 DEF TypeOK
    <3>2. idsCache[d][db[d][k]] # NoId \/ (c = d /\ e = db[d][k])
      BY <1>0, <1>2 DEF StoredCached, c, e
    <3> QED
      BY <2>1, <2>2, <3>1, <3>2
  <2>7. HandlersAgree'
    BY <1>2, <2>2, <2>3 DEF HandlersAgree
  <2> QED
    BY <1>0, <2>5, <2>6, <2>7 DEF SInv
<1>8. ASSUME NEW h \in Handlers, Respond(h)
      PROVE  SInv'
  <2>1. /\ UNCHANGED <<db, idsCache>> /\ pc[h] = "respond" /\ pc'[h] = "idle"
        /\ req[h] \in Request
    BY <1>0, <1>8 DEF IInv, TypeOK, RequestsPending, Respond, Goto
  <2>2. ASSUME NEW c \in Collections, NEW e \in Elements, NEW i \in issued'[c][e]
        PROVE  i = idsCache[c][e]
    <3>1. CASE i \in issued[c][e]
      BY <1>0, <3>1 DEF AnswersCached
    <3>2. CASE i \notin issued[c][e]
      <4>1. ret[h] # NoId /\ i = ret[h] /\ c = req[h].collection /\ e = req[h].element
        BY <1>0, <1>8, <2>1, <2>2, <3>2 DEF Respond, TypeOK, Request
      <4> QED
        BY <1>0, <2>1, <4>1 DEF HandlersAgree, Cached
    <3> QED
      BY <3>1, <3>2
  <2>3. AnswersCached'
    BY <1>0, <2>1, <2>2 DEF AnswersCached
  <2>4. StoredCached' /\ HandlersAgree'
    BY <1>0, <1>2, <2>1 DEF StoredCached, HandlersAgree
  <2> QED
    BY <1>0, <2>3, <2>4 DEF SInv
<1>9. CASE UNCHANGED serverVars
  BY <1>0, <1>9 DEF serverVars, SInv, AnswersCached, StoredCached, HandlersAgree, Cached
<1> QED
  BY <1>1, <1>3, <1>4, <1>5, <1>6, <1>7, <1>8, <1>9
     DEF Next, Step, Restart, GetIDFromDBFails, SaveIDInDBFails

LEMMA SequentialInvariant ==
    ASSUME Sequential
    PROVE  Spec => []SInv
BY InitSequential, StepSequential, PTL DEF Spec

\* One request at a time and no fault: an element has the same id every time
\* (tests/idgetter_test.go:82-93), because the service finds in its cache whatever
\* it has stored and never counts a place from zero.
THEOREM SequentialIdsUnique ==
    ASSUME Sequential
    PROVE  Spec => []OneIdPerElement
<1>1. SInv => OneIdPerElement
  <2> SUFFICES ASSUME SInv, NEW c \in Collections, NEW e \in Elements
               PROVE  Cardinality(issued[c][e]) <= 1
    BY DEF OneIdPerElement
  <2>1. issued[c][e] \subseteq {idsCache[c][e]}
    BY DEF SInv, AnswersCached
  <2>2. Cardinality(issued[c][e]) \in {0, 1}
    <3>1. CASE issued[c][e] = {}
      BY <3>1, FS_EmptySet
    <3>2. CASE issued[c][e] # {}
      <4>1. issued[c][e] = {idsCache[c][e]}
        BY <2>1, <3>2
      <4>2. Cardinality({idsCache[c][e]}) = 1
        BY FS_Singleton
      <4> QED
        BY <4>1, <4>2
    <3> QED
      BY <3>1, <3>2
  <2> QED
    BY <2>2
<1> QED
  BY <1>1, SequentialInvariant, PTL

\* In the same circumstances different elements of a collection have different ids, so
\* that their aggregates have different keys (server.go:88-125).
THEOREM SequentialIdsIdentify ==
    ASSUME Sequential
    PROVE  Spec => []IdsIdentifyElements
<1>1. SInv => IdsIdentifyElements
  <2> SUFFICES ASSUME SInv, NEW c \in Collections, NEW e \in Elements, NEW f \in Elements,
                      NEW i \in issued[c][e] \cap issued[c][f]
               PROVE  e = f
    BY DEF IdsIdentifyElements
  <2>1. i \in Nat /\ i = idsCache[c][e] /\ i = idsCache[c][f]
    BY DEF SInv, IInv, TypeOK, AnswersCached
  <2>2. i # NoId
    BY <2>1 DEF NoId
  <2> QED
    BY <2>1, <2>2 DEF SInv, AnswersCached, IsPlace
<1> QED
  BY <1>1, SequentialInvariant, PTL
=============================================================================
