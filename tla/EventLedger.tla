---------------------------- MODULE EventLedger ----------------------------
(***************************************************************************)
(* What the ingest side promises about an event, without queue, tasks,     *)
(* locks or cycles: it is accepted at most once, with the deliveries it    *)
(* will ever have; it is enriched at most once and never after a fatal     *)
(* error that still stands; it may be abandoned.                           *)
(*                                                                         *)
(* Abandonment is a write that excludes nothing: it may hit an event that  *)
(* is enriched, and an abandoned event may still be enriched.              *)
(***************************************************************************)
CONSTANTS Ids, Subs

VARIABLES
    status,       \* idempotency_keys.status ("none": no row)
    enriched,     \* events whose enriched_payload is there
    error,        \* who wrote idempotency_keys.error last
    attempts      \* subscribers that have a delivery_attempts row

vars == <<status, enriched, error, attempts>>

Init ==
    /\ status = [m \in Ids |-> "none"]
    /\ enriched = {}
    /\ error = [m \in Ids |-> "none"]
    /\ attempts = [m \in Ids |-> {}]

Accepted == {m \in Ids : status[m] # "none"}

Accept(m) ==
    /\ m \notin Accepted
    /\ status' = [status EXCEPT ![m] = "received"]
    /\ \E S \in SUBSET Subs : attempts' = [attempts EXCEPT ![m] = S]
    /\ UNCHANGED <<enriched, error>>

Enrich(m) ==
    /\ m \in Accepted \ enriched /\ error[m] # "fatal"
    /\ status' = [status EXCEPT ![m] = "enriched"]
    /\ enriched' = enriched \cup {m}
    /\ UNCHANGED <<error, attempts>>

FailForGood(m) ==
    /\ m \in Accepted \ enriched
    /\ error' = [error EXCEPT ![m] = "fatal"]
    /\ UNCHANGED <<status, enriched, attempts>>

Abandon(S) ==
    /\ status' = [m \in Ids |-> IF m \in S THEN "failed" ELSE status[m]]
    /\ error' = [m \in Ids |-> IF m \in S THEN "abandoned" ELSE error[m]]
    /\ UNCHANGED <<enriched, attempts>>

Next ==
    \/ \E m \in Ids : Accept(m) \/ Enrich(m) \/ FailForGood(m)
    \/ \E S \in SUBSET Accepted : Abandon(S)

Spec == Init /\ [][Next]_vars
=============================================================================
