--------------------------- MODULE MCSubscribers ---------------------------
(* Subscribers on small instances. *)
EXTENDS Subscribers, TLC

CONSTANTS r1, r2, r3, s1, s2, e1, e2

\* Each column alone, both ways for is_active.
SmallBodies ==
    {[endpoint |-> e2, is_active |-> Nil],
     [endpoint |-> Nil, is_active |-> TRUE],
     [endpoint |-> Nil, is_active |-> FALSE]}

SubscribersSymmetry == Permutations({r1, r2, r3}) \cup Permutations({s1, s2})
=============================================================================
