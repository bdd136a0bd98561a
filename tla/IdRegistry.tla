----------------------------- MODULE IdRegistry -----------------------------
(***************************************************************************)
(* What the id service promises about the ids it hands out.                *)
(*                                                                         *)
(* A collection ("brand", "origin", "category") is a list of distinct      *)
(* elements to which elements are only ever added at the end.  The service *)
(* answers with an id of an element only once the element is in the list,  *)
(* and the id is the place of the element, counted from zero (the answer   *)
(* computed from a read of the list) or from one (the answer computed from *)
(* the length an append returns).  Which of the two a caller gets is not   *)
(* promised: see OneIdPerElement in IdServer.                              *)
(***************************************************************************)
EXTENDS Integers, Sequences

CONSTANTS
    Collections,    \* the collections of elements
    Elements        \* the elements, in any collection

VARIABLES
    list,           \* list[c]: the elements of collection c, in order of arrival
    issued          \* issued[c][e]: every id ever answered for e in c

vars == <<list, issued>>

\* i is one of the two ids that the place of e in the list l can be given.
IsIdIn(l, e, i) == \E k \in 1 .. Len(l) : l[k] = e /\ i \in {k - 1, k}

InList(l, e) == \E k \in 1 .. Len(l) : l[k] = e

Init ==
    /\ list = [c \in Collections |-> <<>>]
    /\ issued = [c \in Collections |-> [e \in Elements |-> {}]]

Assign(c, e) ==
    /\ ~ InList(list[c], e)
    /\ list' = [list EXCEPT ![c] = Append(@, e)]
    /\ UNCHANGED issued

Answer(c, e, i) ==
    /\ IsIdIn(list[c], e, i)
    /\ issued' = [issued EXCEPT ![c][e] = @ \cup {i}]
    /\ UNCHANGED list

Next ==
    \E c \in Collections, e \in Elements :
        \/ Assign(c, e)
        \/ \E i \in 0 .. Len(list[c]) : Answer(c, e, i)

Spec == Init /\ [][Next]_vars
=============================================================================
