------------------------------ MODULE TagStore ------------------------------
(***************************************************************************)
(* What a user profile promises: it keeps the newest tags of each action.  *)
(* Every accepted tag is stored at once; when tags are forgotten, the      *)
(* Limit newest tags of their action stay stored, no more and no less.     *)
(***************************************************************************)
EXTENDS Integers, FiniteSets

CONSTANTS
    Actions,        \* the kinds of tags
    Times,          \* the times of tags
    Limit           \* how many tags of an action a reader may ask for

VARIABLES
    stored,         \* stored[a]: the times of the stored tags of action a
    added           \* added[a]: the times of all tags of action a ever stored

vars == <<stored, added>>

Init ==
    /\ stored = [a \in Actions |-> {}]
    /\ added = [a \in Actions |-> {}]

Store(a, t) ==
    /\ stored' = [stored EXCEPT ![a] = @ \cup {t}]
    /\ added' = [added EXCEPT ![a] = @ \cup {t}]

Forget(a, R) ==
    /\ Cardinality(stored[a] \ R) = Limit
    /\ \A r \in R, s \in stored[a] \ R : r < s
    /\ stored' = [stored EXCEPT ![a] = @ \ R]
    /\ UNCHANGED added

Next ==
    \E a \in Actions :
        \/ \E t \in Times : Store(a, t)
        \/ \E R \in SUBSET stored[a] : Forget(a, R)

Spec == Init /\ [][Next]_vars
=============================================================================
