--------------------------- MODULE DeliveryLedger ---------------------------
(***************************************************************************)
(* What the delivery side promises about a delivery, without workers,      *)
(* claims, batches or clocks: it is open until it is delivered or dead;    *)
(* each conclusion counts one attempt, and the count is bounded; it is     *)
(* delivered only for an acknowledgement nobody has recorded yet, which a  *)
(* crash may lose; it is dead at the cap and never before, unless its      *)
(* subscriber is gone.                                                     *)
(*                                                                         *)
(* A loose delivery is one that a stale reset or a retry request took from *)
(* a worker that still has it.  Its writes are blind: it may be concluded  *)
(* again when it is over, with any count up to the bound.                  *)
(***************************************************************************)
EXTENDS Naturals

CONSTANTS Rows, MaxAttempts

VARIABLES
    outcome,      \* "none", "open", "delivered" or "dead"
    count,        \* attempt_count
    retried,      \* retry requests carried out
    owed,         \* a worker has heard the acknowledgement, and not recorded it
    loose         \* a worker has lost its claim and goes on

vars == <<outcome, count, retried, owed, loose>>

Init ==
    /\ outcome = [d \in Rows |-> "none"]
    /\ count = [d \in Rows |-> 0]
    /\ retried = [d \in Rows |-> 0]
    /\ owed = {}
    /\ loose = {}

Is(o) == {d \in Rows : outcome[d] = o}
Becomes(d, o) == outcome' = [outcome EXCEPT ![d] = o]

\* What may be worked on: a claim that stands is on an open delivery.
Workable == Is("open") \cup (loose \ Is("none"))

Open(S) ==
    /\ S \subseteq Is("none")
    /\ outcome' = [d \in Rows |-> IF d \in S THEN "open" ELSE outcome[d]]
    /\ UNCHANGED <<count, retried, owed, loose>>

Acknowledge(d) ==
    /\ d \in Workable /\ (d \in owed => d \in loose)
    /\ owed' = owed \cup {d}
    /\ UNCHANGED <<outcome, count, retried, loose>>

\* The answer is recorded, or the lack of one: an acknowledgement that does not
\* reach the worker in time is none.
Conclude(d) ==
    /\ d \in Workable
    /\ \E n \in 1 .. MaxAttempts + retried[d] :
          /\ n = count[d] + 1 \/ d \in loose
          /\ count' = [count EXCEPT ![d] = n]
          /\ \/ d \in owed /\ Becomes(d, "delivered")
             \/ /\ d \in owed => d \in loose
                /\ Becomes(d, IF n >= MaxAttempts THEN "dead" ELSE "open")
    /\ owed' \in {owed \ {d}, owed} /\ (d \in owed' => d \in loose)
    /\ UNCHANGED <<retried, loose>>

\* The subscriber is inactive.
Drop(d) ==
    /\ d \in Workable /\ (d \in owed => d \in loose)
    /\ Becomes(d, "dead")
    /\ UNCHANGED <<count, retried, owed, loose>>

\* A crash, or a failed session, before the record.
Forget(d) ==
    /\ owed' = owed \ {d}
    /\ UNCHANGED <<outcome, count, retried, loose>>

\* POST /deliveries/{id}/retry.  It does no harm to a delivery that is dead;
\* one that was delivered in the meantime, or is owed its record, is loose.
Retry(d) ==
    /\ d \notin Is("none")
    /\ Becomes(d, "open")
    /\ retried' = [retried EXCEPT ![d] = @ + 1]
    /\ \/ UNCHANGED loose /\ (d \in owed \cup Is("delivered") => d \in loose)
       \/ d \notin Is("dead") /\ loose' = loose \cup {d}
    /\ UNCHANGED <<count, owed>>

\* The reset of stale claims.
Loosen(S) ==
    /\ loose' = loose \cup S
    /\ UNCHANGED <<outcome, count, retried, owed>>

Next ==
    \/ \E S \in SUBSET Rows : Open(S)
    \/ \E S \in SUBSET Is("open") : Loosen(S)
    \/ \E d \in Rows : \/ Acknowledge(d) \/ Conclude(d) \/ Drop(d) \/ Forget(d)
                       \/ Retry(d)

Spec == Init /\ [][Next]_vars
=============================================================================
