----------------------------- MODULE MCDelivery -----------------------------
(***************************************************************************)
(* TLC instances of Delivery.                                              *)
(***************************************************************************)
EXTENDS Delivery, TLC

CONSTANTS d1, d2, s1, s2

\* Each event goes to every subscriber: one row, or one of each of two subscribers.
TwoEndpoints == [d \in {d1, d2} |-> IF d = d1 THEN s1 ELSE s2]
OneRow == [d \in {d1} |-> s1]

\* No action and no invariant names a worker or a request.
Symmetry == Permutations(Workers) \cup Permutations(Requests)
=============================================================================
