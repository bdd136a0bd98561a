----------------------------- MODULE TagLedger -----------------------------
(***************************************************************************)
(* What the system promises about a tag that is posted: it is stored in    *)
(* the profile and sent to the workers, in either order; the client is     *)
(* told of its success only after both; and only what was sent is counted  *)
(* in the aggregates.                                                      *)
(***************************************************************************)
CONSTANT Posts

VARIABLES stored, sent, acked, counted

vars == <<stored, sent, acked, counted>>

Init == stored = {} /\ sent = {} /\ acked = {} /\ counted = {}

Store(p) == stored' = stored \cup {p} /\ UNCHANGED <<sent, acked, counted>>

Send(p) == sent' = sent \cup {p} /\ UNCHANGED <<stored, acked, counted>>

Acknowledge(p) ==
    /\ p \in stored /\ p \in sent
    /\ acked' = acked \cup {p}
    /\ UNCHANGED <<stored, sent, counted>>

Count(p) ==
    /\ p \in sent
    /\ counted' = counted \cup {p}
    /\ UNCHANGED <<stored, sent, acked>>

Next == \E p \in Posts : Store(p) \/ Send(p) \/ Acknowledge(p) \/ Count(p)

Spec == Init /\ [][Next]_vars
=============================================================================
