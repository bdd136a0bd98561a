----------------------------- MODULE MCAllezon -----------------------------
(* Allezon with three posts.                                               *)
EXTENDS Allezon

\* Two different tags of the same millisecond, the second with a product id that does
\* not fit, and one that is no tag.
MCContent ==
    [p \in Posts |->
        CASE p = "view" -> [time |-> 3, device |-> "TV", action |-> "VIEW", productId |-> 1]
          [] p = "sameMilli" -> [time |-> 2, device |-> "PC", action |-> "VIEW", productId |-> 9]
          [] p = "bad" -> [time |-> 5, device |-> "WATCH", action |-> "BUY", productId |-> 1]]
=============================================================================
