----------------------------- MODULE MCIdClient -----------------------------
(* IdClient on small sets: an API process and a worker, with a caller each.*)
EXTENDS IdClient, TLC

CONSTANTS api, worker, k1, k2

MCProcessOf == k1 :> api @@ k2 :> worker

\* Elements and handlers are interchangeable.
Symmetry == Permutations(Elements) \cup Permutations(Handlers)
=============================================================================
