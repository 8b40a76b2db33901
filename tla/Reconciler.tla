----------------------------- MODULE Reconciler -----------------------------
(***************************************************************************)
(* _reconciler of app/consumer/rabbitmq.py, one background task in every   *)
(* consumer process.  A cycle loads stale rows without locking them,       *)
(* publishes each again (or marks it for abandonment) while the session    *)
(* collects the changed columns, and writes them all in one commit.  What  *)
(* the commit writes is what the cycle computed from the rows it loaded,   *)
(* whatever happened to them in between.                                   *)
(***************************************************************************)
EXTENDS IngestState

CONSTANTS
    MaxAttempts,  \* settings.reconciler_max_attempts
    BatchSize     \* settings.reconciler_batch_size

ASSUME ReconcilerAssumption == MaxAttempts \in Nat /\ BatchSize \in Nat \ {0}

VARIABLES
    stale,        \* rows received longer ago than reconciler_stale_minutes
    awake,        \* processes whose reconciler is inside a cycle
    todo,         \* rows the cycle has still to visit
    loaded,       \* reconcile_count of the session's row objects
    bumped,       \* rows whose reconcile_count the session has changed
    abandoned     \* rows whose status and error the session has changed

cycleVars == <<awake, todo, loaded, bumped, abandoned>>
reconcilerVars == <<stale, awake, todo, loaded, bumped, abandoned>>

ReconcilerTypeOK ==
    /\ stale \in SUBSET Ids
    /\ awake \in SUBSET Consumers
    /\ todo \in [Consumers -> SUBSET Ids]
    /\ loaded \in [Consumers -> [Ids -> 0 .. MaxAttempts]]
    /\ bumped \in [Consumers -> SUBSET Ids]
    /\ abandoned \in [Consumers -> SUBSET Ids]

ReconcilerInit ==
    /\ stale = {}
    /\ awake = {}
    /\ todo = [p \in Consumers |-> {}]
    /\ loaded = [p \in Consumers |-> [m \in Ids |-> 0]]
    /\ bumped = [p \in Consumers |-> {}]
    /\ abandoned = [p \in Consumers |-> {}]

-----------------------------------------------------------------------------
(* Helpers *)

\* A query that leaves the exhausted rows alone.  (mutant)
UnexhaustedCandidates ==
    {m \in stale : status[m] = "received" /\ rcount[m] < MaxAttempts}

Candidates == {m \in stale : status[m] = "received"}

\* What LIMIT may return, in no particular order.
Batches ==
    {S \in SUBSET Candidates :
        \/ S = Candidates /\ Cardinality(S) <= BatchSize
        \/ Cardinality(S) = BatchSize}

\* Off by one, both ways.  (mutants)
ExhaustedLate(p, m) == loaded[p][m] > MaxAttempts
ExhaustedEarly(p, m) == loaded[p][m] + 1 >= MaxAttempts

Exhausted(p, m) == loaded[p][m] >= MaxAttempts

Visited(p, m) == todo' = [todo EXCEPT ![p] = @ \ {m}]

\* The cycle is over and its session is closed.
Sleep(p) ==
    /\ awake' = awake \ {p}
    /\ todo' = [todo EXCEPT ![p] = {}]
    /\ loaded' = [loaded EXCEPT ![p] = [m \in Ids |-> 0]]
    /\ bumped' = [bumped EXCEPT ![p] = {}]
    /\ abandoned' = [abandoned EXCEPT ![p] = {}]

-----------------------------------------------------------------------------
(* One cycle *)

\* received_at passes the cutoff.
RowAges(m) ==
    /\ status[m] # "none" /\ m \notin stale
    /\ stale' = stale \cup {m}
    /\ UNCHANGED <<sharedVars, cycleVars>>

LoadStale(p) ==
    /\ p \notin awake
    /\ \E S \in Batches \ {{}} :
          /\ todo' = [todo EXCEPT ![p] = S]
          /\ loaded' = [loaded EXCEPT ![p] =
                           [m \in Ids |-> IF m \in S THEN rcount[m] ELSE 0]]
    /\ awake' = awake \cup {p}
    /\ UNCHANGED <<sharedVars, stale, bumped, abandoned>>

GiveUp(p, m) ==
    /\ m \in todo[p] /\ Exhausted(p, m)
    /\ Visited(p, m)
    /\ abandoned' = [abandoned EXCEPT ![p] = @ \cup {m}]
    /\ UNCHANGED <<sharedVars, stale, awake, loaded, bumped>>

\* aio_pika.Message without a delivery_mode is not persistent.
Republish(p, m) ==
    /\ m \in todo[p] /\ ~Exhausted(p, m)
    /\ EnqueueVolatile(m)
    /\ reenqueued' = [reenqueued EXCEPT ![m] = @ + 1]
    /\ Visited(p, m)
    /\ loaded' = [loaded EXCEPT ![p][m] = @ + 1]
    /\ bumped' = [bumped EXCEPT ![p] = @ \cup {m}]
    /\ UNCHANGED <<keyVars, attempts, active, sent, rejected, faults,
                   stale, awake, abandoned>>

CommitCycle(p) ==
    /\ p \in awake /\ todo[p] = {}
    /\ rcount' = [m \in Ids |->
                     IF m \in bumped[p] THEN loaded[p][m] ELSE rcount[m]]
    /\ status' = [m \in Ids |->
                     IF m \in abandoned[p] THEN "failed" ELSE status[m]]
    /\ error' = [m \in Ids |->
                     IF m \in abandoned[p] THEN "abandoned" ELSE error[m]]
    /\ Sleep(p)
    /\ UNCHANGED <<queueVars, enriched, attempts, active, faults, stale>>

-----------------------------------------------------------------------------
(* Faults *)

\* A timed-out publish that is counted as a cycle.  (mutant)
TimeoutCounted(p, m) ==
    /\ Fault
    /\ m \in todo[p] /\ ~Exhausted(p, m)
    /\ UNCHANGED <<slot, volatile, reenqueued>>
    /\ Visited(p, m)
    /\ loaded' = [loaded EXCEPT ![p][m] = @ + 1]
    /\ bumped' = [bumped EXCEPT ![p] = @ \cup {m}]
    /\ UNCHANGED <<keyVars, attempts, active, sent, rejected,
                   stale, awake, abandoned>>

\* wait_for gives up after 5 s; the broker may or may not have the message.
PublishTimesOut(p, m) ==
    /\ Fault
    /\ m \in todo[p] /\ ~Exhausted(p, m)
    /\ \/ EnqueueVolatile(m) /\ reenqueued' = [reenqueued EXCEPT ![m] = @ + 1]
       \/ UNCHANGED <<slot, volatile, reenqueued>>
    /\ Visited(p, m)
    /\ UNCHANGED <<keyVars, attempts, active, sent, rejected,
                   stale, awake, loaded, bumped, abandoned>>

\* Any other exception ends the cycle: rollback of everything it changed.
CycleFails(p) ==
    /\ Fault
    /\ p \in awake
    /\ Sleep(p)
    /\ UNCHANGED <<queueVars, keyVars, attempts, active, stale>>

-----------------------------------------------------------------------------
ReconcilerNext ==
    \/ \E m \in Ids : RowAges(m)
    \/ \E p \in Consumers :
          \/ LoadStale(p) \/ CommitCycle(p) \/ CycleFails(p)
          \/ \E m \in Ids : GiveUp(p, m) \/ Republish(p, m) \/ PublishTimesOut(p, m)
=============================================================================
