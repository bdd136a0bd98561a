------------------------------ MODULE Allezon ------------------------------
(***************************************************************************)
(* A tag on its way through the system: the handlers of /user_tags in the  *)
(* API replicas (cmd/api/server/userTags.go), the profile they write       *)
(* (Add and Get in pkg/db/user_profiles.go), the messages they send        *)
(* (pkg/messaging/producer.go) and the workers that count them.            *)
(*                                                                         *)
(* A handler starts two goroutines, one stores the tag and one sends it,   *)
(* and waits for both.  Nothing makes the two one transaction: one may     *)
(* fail while the other succeeds, and the replica may end at any point.    *)
(*                                                                         *)
(* A post is one request; a client that repeats a tag posts it again with  *)
(* the same content.  All tags are of one cookie, and the trimming of its  *)
(* profile is left to UserProfiles.  A worker counts a message once, twice *)
(* or never, with a fault in the last two cases: this is what Worker and   *)
(* Aggregates show of it (DeliveredOnce, TagsAccounted).                   *)
(***************************************************************************)
EXTENDS Startup, Conversions

CONSTANTS
    Posts,          \* the requests to /user_tags
    Content         \* Content[p]: the JSON object of post p

NoReplica == "none"

ASSUME PostsAssumption ==
    /\ NoReplica \notin Replicas
    /\ \A p \in Posts : Content[p].time \in Int /\ Content[p].productId \in Int

VARIABLES
    call,           \* call[p]: what the client of post p knows
    on,             \* on[p]: the replica that handles it
    add,            \* add[p]: the goroutine of addUserTag
    send,           \* send[p]: the goroutine of producer.Send
    profile,        \* profile[s]: the message stored at the action and time s
    queue,          \* queue[p]: messages of post p that workers have yet to take
    counted,        \* counted[p]: additions of post p to the aggregates
    lost,           \* history: messages of post p that no worker counts
    stored          \* history: the posts whose tags were ever stored

postVars == <<call, on, add, send>>
workerVars == <<queue, counted, lost>>
vars == <<startupVars, faults, postVars, profile, workerVars, stored>>

NoMessage == [none |-> TRUE]

Tag(p) == FromUserTagDTO(Content[p])

\* The bin of the action, and the key of its map.
Slot(p) == <<Tag(p).action, UnixMilli(Tag(p).time)>>

Valid == {p \in Posts : IsTag(Content[p])}

Slots == {Slot(p) : p \in Valid}

Messages == {MarshalUserTag(Tag(p)) : p \in Valid}

Outcomes == {"none", "running", "ok", "error"}

TypeOK ==
    /\ StartupTypeOK
    /\ call \in [Posts -> {"new", "handling", "acked", "failed"}]
    /\ on \in [Posts -> Replicas \cup {NoReplica}]
    /\ add \in [Posts -> Outcomes]
    /\ send \in [Posts -> Outcomes]
    /\ profile \in [Slots -> Messages \cup {NoMessage}]
    /\ queue \in [Posts -> Nat]
    /\ counted \in [Posts -> Nat]
    /\ lost \in [Posts -> Nat]
    /\ stored \in SUBSET Valid

Zero == [p \in Posts |-> 0]

Init ==
    /\ StartupInit
    /\ call = [p \in Posts |-> "new"]
    /\ on = [p \in Posts |-> NoReplica]
    /\ add = [p \in Posts |-> "none"]
    /\ send = [p \in Posts |-> "none"]
    /\ profile = [s \in Slots |-> NoMessage]
    /\ queue = Zero /\ counted = Zero /\ lost = Zero
    /\ stored = {}

-----------------------------------------------------------------------------
(* userTagsHandler.                                                        *)

\* What is not a tag is answered with 400, and nothing else happens.
Post(p, r) ==
    /\ call[p] = "new"
    /\ replica[r] = "serving"
    /\ IsTag(Content[p])
    /\ call' = [call EXCEPT ![p] = "handling"]
    /\ on' = [on EXCEPT ![p] = r]
    /\ add' = [add EXCEPT ![p] = "running"]
    /\ send' = [send EXCEPT ![p] = "running"]
    /\ UNCHANGED <<startupVars, faults, profile, workerVars, stored>>

\* Operate: the tag replaces one of the same millisecond.
StoreTag(p) ==
    /\ profile' = [profile EXCEPT ![Slot(p)] = MarshalUserTag(Tag(p))]
    /\ stored' = stored \cup {p}

AddUserTag(p) ==
    /\ add[p] = "running"
    /\ StoreTag(p)
    /\ add' = [add EXCEPT ![p] = "ok"]
    /\ UNCHANGED <<startupVars, faults, call, on, send, workerVars>>

\* The database fails, or stores the tag and its answer is lost.
AddFails(p) ==
    /\ add[p] = "running"
    /\ Fault
    /\ StoreTag(p) \/ UNCHANGED <<profile, stored>>
    /\ add' = [add EXCEPT ![p] = "error"]
    /\ UNCHANGED <<startupVars, call, on, send, workerVars>>

AppendsNothing(p) == UNCHANGED workerVars    \* seeded defect: success before the answer

AppendMessage(p) == queue' = [queue EXCEPT ![p] = @ + 1] /\ UNCHANGED <<counted, lost>>

Send(p) ==
    /\ send[p] = "running"
    /\ AppendMessage(p)
    /\ send' = [send EXCEPT ![p] = "ok"]
    /\ UNCHANGED <<startupVars, faults, call, on, add, profile, stored>>

\* The answer of the broker is lost: the producer sends the message again.
SendAgain(p) ==
    /\ send[p] = "running"
    /\ Fault
    /\ AppendMessage(p)
    /\ UNCHANGED <<startupVars, postVars, profile, stored>>

\* The producer gives up; its last attempt may have reached the broker.
SendFails(p) ==
    /\ send[p] = "running"
    /\ Fault
    /\ AppendMessage(p) \/ UNCHANGED workerVars
    /\ send' = [send EXCEPT ![p] = "error"]
    /\ UNCHANGED <<startupVars, call, on, add, profile, stored>>

Answer(p, status) ==
    /\ call' = [call EXCEPT ![p] = status]
    /\ on' = [on EXCEPT ![p] = NoReplica]
    /\ add' = [add EXCEPT ![p] = "none"]
    /\ send' = [send EXCEPT ![p] = "none"]

EndedFirst(p) ==    \* seeded defect: the handler waits for one of the two only
    add[p] \in {"ok", "error"} \/ send[p] \in {"ok", "error"}

EndedWell(p) == add[p] = "ok" /\ send[p] = "ok"     \* seeded defect: errors are not noticed

Ended(p) == add[p] \in {"ok", "error"} /\ send[p] \in {"ok", "error"}

\* Wait: the first error of the two, after both.
Respond(p) ==
    /\ Ended(p)
    /\ Answer(p, IF "error" \in {add[p], send[p]} THEN "failed" ELSE "acked")
    /\ UNCHANGED <<startupVars, faults, profile, workerVars, stored>>

\* Replica r ends, and with it the connections and goroutines of its handlers.
Crash(r) ==
    LET P == {p \in Posts : on[p] = r}
    IN  /\ replica[r] = "serving"
        /\ Fault
        /\ replica' = [replica EXCEPT ![r] = "down"]
        /\ call' = [p \in Posts |-> IF p \in P THEN "failed" ELSE call[p]]
        /\ on' = [p \in Posts |-> IF p \in P THEN NoReplica ELSE on[p]]
        /\ add' = [p \in Posts |-> IF p \in P THEN "none" ELSE add[p]]
        /\ send' = [p \in Posts |-> IF p \in P THEN "none" ELSE send[p]]
        /\ UNCHANGED <<topic, exits, profile, workerVars, stored>>

-----------------------------------------------------------------------------
(* The workers.                                                            *)

TakeUnchecked(p) == queue' = [queue EXCEPT ![p] = @ - 1]    \* seeded defect

Take(p) == queue[p] > 0 /\ queue' = [queue EXCEPT ![p] = @ - 1]

Count(p) ==
    /\ Take(p)
    /\ counted' = [counted EXCEPT ![p] = @ + 1]
    /\ UNCHANGED <<startupVars, faults, postVars, profile, lost, stored>>

\* An addition is made that is not known to be, or its message is delivered again.
CountAgain(p) ==
    /\ queue[p] > 0
    /\ Fault
    /\ counted' = [counted EXCEPT ![p] = @ + 1]
    /\ UNCHANGED <<startupVars, postVars, profile, queue, lost, stored>>

\* A worker ends while it holds the message, or gives it up.
Lose(p) ==
    /\ Take(p)
    /\ Fault
    /\ lost' = [lost EXCEPT ![p] = @ + 1]
    /\ UNCHANGED <<startupVars, postVars, profile, counted, stored>>

-----------------------------------------------------------------------------
Starting(r) ==
    /\ StartStep(r) \/ StartFails(r)
    /\ UNCHANGED <<postVars, profile, workerVars, stored>>

Handle(p) == AddUserTag(p) \/ Send(p) \/ Respond(p)

Next ==
    \/ \E r \in Replicas : Starting(r) \/ Crash(r)
    \/ \E p \in Posts :
         \/ \E r \in Replicas : Post(p, r)
         \/ Handle(p)
         \/ AddFails(p)
         \/ SendAgain(p)
         \/ SendFails(p)
         \/ Count(p)
         \/ CountAgain(p)
         \/ Lose(p)

Spec == Init /\ [][Next]_vars

\* Replicas are started again, handlers run, their calls return, and workers take messages.
Fairness ==
    /\ \A r \in Replicas :
         WF_vars(StartStep(r) /\ UNCHANGED <<postVars, profile, workerVars, stored>>)
    /\ \A p \in Posts : WF_vars(Handle(p)) /\ WF_vars(Count(p))

FairSpec == Spec /\ Fairness

-----------------------------------------------------------------------------
(* Properties.                                                             *)

(***************************************************************************)
(* "204 No Content" means that the tag is on its way to the aggregates and *)
(* was stored; a post is counted once, and once more at most for every     *)
(* fault, also when one of the two writes fails or the replica ends        *)
(* between them (userTags.go:35-49).                                       *)
(***************************************************************************)
CountedOnce ==
    \A p \in Posts :
      /\ counted[p] + queue[p] <= 1 + faults
      /\ call[p] = "acked" =>
           p \in stored /\ counted[p] + queue[p] + lost[p] >= 1

(***************************************************************************)
(* What the profile shows at the millisecond of a tag that was             *)
(* acknowledged is, up to fractions of the millisecond, the content of a   *)
(* post with that millisecond and action: of this one, when no other was   *)
(* stored.  A product id that 32 bits do not hold is another one then      *)
(* (dto.go:46-92, userTag.go:87-171, user_profiles.go:28-100).             *)
(***************************************************************************)
Shows(s, p) ==
    profile[s] # NoMessage /\
    LET answer == IntoUserTagDTO(UnmarshalUserTag(profile[s]))
    IN  /\ UnixMilli(answer.time) = UnixMilli(Content[p].time)
        /\ answer.device = Content[p].device
        /\ answer.action = Content[p].action
        /\ Content[p].productId \in -Int32Half .. Int32Half - 1 =>
             answer.productId = Content[p].productId

AckedIsShown ==
    \A p \in Posts :
      call[p] = "acked" =>
        \E o \in stored : Slot(o) = Slot(p) /\ Shows(Slot(p), o)

(***************************************************************************)
(* Every post of which a replica takes care is answered, and a tag that    *)
(* was acknowledged is counted, or lost by a worker with a fault           *)
(* (userTags.go:44-49).                                                    *)
(***************************************************************************)
PostsAnswered == \A p \in Posts : call[p] = "handling" ~> call[p] # "handling"

AckedIsCounted == \A p \in Posts : call[p] = "acked" ~> counted[p] + lost[p] > 0

(***************************************************************************)
(* The system implements TagLedger: no client is told of a success before  *)
(* both writes are made, and workers count what was sent.                  *)
(***************************************************************************)
Sent == {p \in Posts : queue[p] + counted[p] + lost[p] > 0}

Ledger == INSTANCE TagLedger WITH
    sent <- Sent,
    acked <- {p \in Posts : call[p] = "acked"},
    counted <- {p \in Posts : counted[p] > 0}

ImplementsLedger == Ledger!Spec
=============================================================================
