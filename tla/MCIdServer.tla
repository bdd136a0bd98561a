----------------------------- MODULE MCIdServer -----------------------------
(* IdServer on small sets of model values.                                 *)
EXTENDS IdServer, TLC

\* Elements, collections and handlers are interchangeable.
Symmetry ==
    Permutations(Collections) \cup Permutations(Elements) \cup Permutations(Handlers)
=============================================================================
