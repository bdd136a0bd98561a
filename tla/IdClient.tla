------------------------------ MODULE IdClient ------------------------------
(***************************************************************************)
(* The clients of the id service (pkg/idGetter/client.go) together with    *)
(* the service they call (IdServer).                                       *)
(*                                                                         *)
(* Every API and worker process has one client with a cache of its own,    *)
(* which nothing ever invalidates, used by many goroutines (the callers).  *)
(* A call looks in the cache, posts a request to the service, waits for    *)
(* the answer for as long as the HTTP client's timeout, stores the id in   *)
(* the cache and converts it to 16 bits.  A caller that timed out is gone, *)
(* but the handler of its request goes on and its answer is dropped.       *)
(***************************************************************************)
EXTENDS IdServer

CONSTANTS
    Processes,      \* the API and worker processes
    Callers,        \* calls that may be in progress at a time
    ProcessOf,      \* ProcessOf[k]: the process whose client caller k uses
    MaxU16          \* the largest id that 16 bits hold

ASSUME ProcessOfAssumption == ProcessOf \in [Callers -> Processes]
ASSUME MaxU16Assumption == MaxU16 \in Nat

NoCaller == "none"

ASSUME CallersAssumption == NoCaller \notin Callers

VARIABLES
    cache,          \* cache[p][c][e]: the id cached by process p, or NoId
    step,           \* step[k]: where the call of caller k is
    call,           \* call[k]: the request caller k makes
    id,             \* id[k]: the id caller k has, NoId when it has none
    serving,        \* serving[h]: the caller handler h answers, if there is one
    returned        \* history: returned[c][e], the 16-bit ids given to callers

clientVars == <<cache, step, call, id, serving, returned>>

vars == <<serverVars, clientVars>>

CallSteps == {"idle", "getFromCache", "post", "wait", "saveInCache", "convert"}

ClientTypeOK ==
    /\ TypeOK
    /\ cache \in [Processes -> [Collections -> [Elements -> Nat \cup {NoId}]]]
    /\ step \in [Callers -> CallSteps]
    /\ call \in [Callers -> Request \cup {NoRequest}]
    /\ id \in [Callers -> Nat \cup {NoId}]
    /\ serving \in [Handlers -> Callers \cup {NoCaller}]
    /\ returned \in [Collections -> [Elements -> SUBSET (0 .. MaxU16)]]

ClientInit ==
    /\ Init
    /\ cache = [p \in Processes |-> EmptyCache]
    /\ step = [k \in Callers |-> "idle"]
    /\ call = [k \in Callers |-> NoRequest]
    /\ id = [k \in Callers |-> NoId]
    /\ serving = [h \in Handlers |-> NoCaller]
    /\ returned = [c \in Collections |-> [e \in Elements |-> {}]]

-----------------------------------------------------------------------------
(* Parts of the steps.                                                     *)

\* The calls of the callers K end, without an id.
EndCalls(K) ==
    /\ step' = [k \in Callers |-> IF k \in K THEN "idle" ELSE step[k]]
    /\ call' = [k \in Callers |-> IF k \in K THEN NoRequest ELSE call[k]]
    /\ id' = [k \in Callers |-> IF k \in K THEN NoId ELSE id[k]]

\* Caller k goes to step s with the id i.
Proceed(k, s, i) ==
    /\ step' = [step EXCEPT ![k] = s]
    /\ id' = [id EXCEPT ![k] = i]
    /\ UNCHANGED call

ForgetNone(K) == UNCHANGED serving    \* seeded defect: late answers are delivered

\* The answers of the handlers that serve the callers K will be dropped.
StopServing(K) ==
    serving' = [h \in Handlers |-> IF serving[h] \in K THEN NoCaller ELSE serving[h]]

CachedBy(p, r) == cache[p][r.collection][r.element]

NotConverted(i) == i                  \* seeded defect: the id is used as it is

\* uint16(i)
U16(i) == i % (MaxU16 + 1)

AlwaysInRange(i) == TRUE              \* seeded defect: no check of the width

InRange(i) == U16(i) = i

-----------------------------------------------------------------------------
(* GetU16ID and GetID.                                                     *)

Call(k, r) ==
    /\ step[k] = "idle"
    /\ step' = [step EXCEPT ![k] = "getFromCache"]
    /\ call' = [call EXCEPT ![k] = r]
    /\ UNCHANGED <<serverVars, cache, id, serving, returned>>

GetFromCache(k) ==
    LET i == CachedBy(ProcessOf[k], call[k])
    IN  /\ step[k] = "getFromCache"
        /\ Proceed(k, IF i # NoId THEN "convert" ELSE "post", i)
        /\ UNCHANGED <<serverVars, cache, serving, returned>>

\* The request reaches the service, which starts a handler for it.
Post(k) ==
    /\ step[k] = "post"
    /\ \E h \in Handlers :
         /\ Receive(h, call[k])
         /\ serving' = [serving EXCEPT ![h] = k]
    /\ Proceed(k, "wait", NoId)
    /\ UNCHANGED <<cache, returned>>

\* The service cannot be reached, or the answer takes longer than the timeout.
PostFails(k) ==
    /\ step[k] \in {"post", "wait"}
    /\ Fault
    /\ EndCalls({k})
    /\ StopServing({k})
    /\ UNCHANGED <<db, idsCache, pc, req, ret, issued, cache, returned>>

\* The handler answers; a status that is not OK is an error to the caller.
Deliver(h) ==
    LET k == serving[h]
    IN  /\ Respond(h)
        /\ IF k = NoCaller
             THEN UNCHANGED <<step, call, id>>
             ELSE IF ret[h] = NoId
               THEN EndCalls({k})
               ELSE Proceed(k, "saveInCache", ret[h])
        /\ serving' = [serving EXCEPT ![h] = NoCaller]
        /\ UNCHANGED <<cache, returned>>

SaveInClientCache(k) ==
    LET r == call[k]
    IN  /\ step[k] = "saveInCache"
        /\ cache' = [cache EXCEPT ![ProcessOf[k]][r.collection][r.element] = id[k]]
        /\ Proceed(k, "convert", id[k])
        /\ UNCHANGED <<serverVars, serving, returned>>

\* GetU16ID returns the id, or an error when it does not fit.
Convert(k) ==
    /\ step[k] = "convert"
    /\ returned' = IF InRange(id[k])
                     THEN [returned EXCEPT ![call[k].collection][call[k].element] =
                             @ \cup {U16(id[k])}]
                     ELSE returned
    /\ EndCalls({k})
    /\ UNCHANGED <<serverVars, cache, serving>>

-----------------------------------------------------------------------------
(* Restarts.                                                               *)

\* Seeded defect: callers of the service that restarted go on waiting.
ServerRestartUnnoticed ==
    /\ Restart
    /\ serving' = [h \in Handlers |-> NoCaller]
    /\ UNCHANGED <<cache, step, call, id, returned>>

\* Connections to a service that restarts are broken.
ServerRestart ==
    /\ Restart
    /\ EndCalls({k \in Callers : step[k] = "wait"})
    /\ serving' = [h \in Handlers |-> NoCaller]
    /\ UNCHANGED <<cache, returned>>

ProcessRestart(p) ==
    LET K == {k \in Callers : ProcessOf[k] = p}
    IN  /\ Fault
        /\ cache' = [cache EXCEPT ![p] = EmptyCache]
        /\ EndCalls(K)
        /\ StopServing(K)
        /\ UNCHANGED <<db, idsCache, pc, req, ret, issued, returned>>

-----------------------------------------------------------------------------
CallStep(k) == GetFromCache(k) \/ Post(k) \/ SaveInClientCache(k) \/ Convert(k)

\* The steps of a handler before its answer; they are the service's own.
Serve(h) ==
    \/ CheckInCache(h)
    \/ GetIDFromDB(h)
    \/ GetIDFromDBFails(h)
    \/ SaveIDInDB(h)
    \/ SaveIDInDBFails(h)
    \/ SaveInCache(h)

ClientNext ==
    \/ \E k \in Callers :
         CallStep(k) \/ PostFails(k) \/ \E r \in Request : Call(k, r)
    \/ \E h \in Handlers : Deliver(h) \/ (Serve(h) /\ UNCHANGED clientVars)
    \/ ServerRestart
    \/ \E p \in Processes : ProcessRestart(p)

ClientSpec == ClientInit /\ [][ClientNext]_vars

\* Goroutines run and database operations return.  Nothing makes a call start, an
\* operation fail or a process restart.
ClientFairness ==
    /\ \A k \in Callers : WF_vars(CallStep(k))
    /\ \A h \in Handlers : WF_vars(Deliver(h) \/ (Serve(h) /\ UNCHANGED clientVars))

FairClientSpec == ClientSpec /\ ClientFairness

-----------------------------------------------------------------------------
(* Properties.                                                             *)

(***************************************************************************)
(* Every id a process has cached, a caller holds or a caller was given, is *)
(* one of the two ids of the element it was asked for (GetU16ID, client.go *)
(* 21-59): answers that come after a timeout are not taken for the answer  *)
(* to a later call, caches that outlive the service's restarts stay right, *)
(* and an id that does not fit 16 bits is refused, never the id of another *)
(* element.                                                                *)
(***************************************************************************)
ClientIdsNameElement ==
    /\ \A p \in Processes, c \in Collections, e \in Elements :
         cache[p][c][e] # NoId => Registry!IsIdIn(db[c], e, cache[p][c][e])
    /\ \A k \in Callers :
         id[k] # NoId =>
           /\ call[k] # NoRequest
           /\ Registry!IsIdIn(db[call[k].collection], call[k].element, id[k])
    /\ \A c \in Collections, e \in Elements :
         \A i \in returned[c][e] : Registry!IsIdIn(db[c], e, i)

(***************************************************************************)
(* Callers cannot tell the clients, with their caches, timeouts and        *)
(* restarts, from the registry: what they are given is what IdRegistry may *)
(* answer to them at that time (client.go:21-119).                         *)
(***************************************************************************)
Registered == INSTANCE IdRegistry WITH list <- db, issued <- returned

ClientsImplementRegistry == Registered!Spec

(***************************************************************************)
(* A call returns, whatever becomes of the service: a caller never waits   *)
(* for an answer nobody is going to give (client.go:71).                   *)
(***************************************************************************)
CallsReturn == \A k \in Callers : step[k] # "idle" ~> step[k] = "idle"
=============================================================================
