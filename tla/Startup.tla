------------------------------ MODULE Startup ------------------------------
(***************************************************************************)
(* How the API replicas start: main of cmd/api/main.go, and Initialize of  *)
(* pkg/messaging/topic.go, which creates the topic of the tags when it     *)
(* does not find it.  Several replicas start at a time.  Whatever goes     *)
(* wrong is fatal, and Kubernetes starts the replica again.                *)
(*                                                                         *)
(* The producer, the database clients and the server are made in one step: *)
(* they share nothing with other replicas.  The null clients, a choice of  *)
(* the configuration, are left out.                                        *)
(***************************************************************************)
EXTENDS Naturals, FiniteSets

CONSTANTS
    Replicas,       \* the API replicas
    MaxFaults       \* bound on failed operations and crashes, of all kinds

ASSUME ReplicasAssumption == IsFiniteSet(Replicas) /\ Replicas # {}
ASSUME FaultsAssumption == MaxFaults \in Nat

VARIABLES
    replica,        \* replica[r]: how far replica r has come
    topic,          \* the topic exists
    exits,          \* history: starts that failed
    faults          \* failed operations and crashes so far

startupVars == <<replica, topic, exits>>

StartSteps == {"listTopics", "createTopic", "connect"}

StartupTypeOK ==
    /\ replica \in [Replicas -> StartSteps \cup {"down", "serving"}]
    /\ topic \in BOOLEAN
    /\ exits \in Nat
    /\ faults \in 0 .. MaxFaults

StartupInit ==
    /\ replica = [r \in Replicas |-> "down"]
    /\ topic = FALSE
    /\ exits = 0
    /\ faults = 0

Fault == faults < MaxFaults /\ faults' = faults + 1

Goto(r, step) == replica' = [replica EXCEPT ![r] = step] /\ UNCHANGED exits

\* logger.Fatal
Exit(r) == replica' = [replica EXCEPT ![r] = "down"] /\ exits' = exits + 1

Start(r) ==
    /\ replica[r] = "down"
    /\ Goto(r, "listTopics")
    /\ UNCHANGED <<topic, faults>>

ListNothing(r) ==   \* seeded defect: the topic is created without a look
    /\ replica[r] = "listTopics"
    /\ Goto(r, "createTopic")
    /\ UNCHANGED <<topic, faults>>

ListExisting(r) ==  \* seeded defect: another replica is left to create the topic
    /\ replica[r] = "listTopics"
    /\ topic
    /\ Goto(r, "connect")
    /\ UNCHANGED <<topic, faults>>

ListTopics(r) ==
    /\ replica[r] = "listTopics"
    /\ Goto(r, IF topic THEN "connect" ELSE "createTopic")
    /\ UNCHANGED <<topic, faults>>

\* Another replica may have created it since: an error like any other.
CreateTopic(r) ==
    /\ replica[r] = "createTopic"
    /\ IF topic THEN Exit(r) ELSE Goto(r, "connect")
    /\ topic' = TRUE
    /\ UNCHANGED faults

\* Kafka or a database cannot be reached, or the topic is created without an answer.
StartFails(r) ==
    /\ replica[r] \in StartSteps
    /\ Fault
    /\ Exit(r)
    /\ topic' \in (IF replica[r] = "createTopic" THEN {topic, TRUE} ELSE {topic})

Connect(r) ==
    /\ replica[r] = "connect"
    /\ Goto(r, "serving")
    /\ UNCHANGED <<topic, faults>>

StartStep(r) == Start(r) \/ ListTopics(r) \/ CreateTopic(r) \/ Connect(r)

-----------------------------------------------------------------------------
(***************************************************************************)
(* A replica that takes requests can send tags to an existing topic,       *)
(* whoever created it and however many replicas start at a time            *)
(* (topic.go:24-40, main.go:31-50).                                        *)
(***************************************************************************)
ServesWithTopic == \A r \in Replicas : replica[r] \in {"connect", "serving"} => topic

(***************************************************************************)
(* Replicas that start at a time may all but one fail, once each, because  *)
(* another one creates the topic after they looked for it; other starts    *)
(* fail for a fault only (topic.go:29-38).  Listings are up to date, and   *)
(* nobody else creates the topic.                                          *)
(***************************************************************************)
StartsFailOnce == exits <= Cardinality(Replicas) - 1 + faults

(***************************************************************************)
(* Every replica that is down serves in the end: the race to create the    *)
(* topic does not keep it from starting (main.go:32-38).                   *)
(***************************************************************************)
ReplicasServe == \A r \in Replicas : replica[r] = "down" ~> replica[r] = "serving"
=============================================================================
