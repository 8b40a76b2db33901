---------------------------- MODULE IngestState ----------------------------
(***************************************************************************)
(* The state that the ingest side of the service shares: the RabbitMQ      *)
(* queue events.process and the tables idempotency_keys and                *)
(* delivery_attempts (app/db/models.py).  The consumer (Consumer.tla) and  *)
(* the reconciler (Reconciler.tla) are the two programs that act on it.    *)
(*                                                                         *)
(* The queue is a set of slots.  A slot holds one message until the broker *)
(* is told to forget it (ack, or reject without requeue); a consumer that  *)
(* loses its channel merely stops holding the slot, and the message is     *)
(* ready again: that is redelivery.                                        *)
(***************************************************************************)
EXTENDS Naturals, FiniteSets

CONSTANTS
    Ids,          \* message_id values
    Uuids,        \* the ids only str(uuid.uuid4()) in handle_message produces
    Anon,         \* a body without message_id
    Junk,         \* a body over the size limit, or not a JSON object
    Subs,         \* subscribers
    Copies,       \* bound: queue slots, the messages the broker holds at once
    Consumers,    \* consumer processes
    Nil,          \* no message, no slot, no id
    Published,    \* bound: the bodies that clients publish
    MaxSends,     \* bound: publishes of each body by clients
    MaxFaults     \* bound: crashes, lost connections, failed calls together

ASSUME IngestAssumption ==
    /\ Uuids \subseteq Ids
    /\ Anon \notin Ids /\ Junk \notin Ids /\ Anon # Junk
    /\ Nil \notin Ids \cup Copies \cup {Anon, Junk}
    /\ Published \subseteq (Ids \ Uuids) \cup {Anon, Junk}
    /\ MaxSends \in Nat /\ MaxFaults \in Nat

VARIABLES
    slot,         \* the body in each queue slot, or Nil
    volatile,     \* slots whose message does not survive a broker restart
    status,       \* idempotency_keys.status ("none": no row)
    enriched,     \* ids whose enriched_payload is not null
    error,        \* idempotency_keys.error: who wrote it last
    rcount,       \* idempotency_keys.reconcile_count
    attempts,     \* subscribers that have a delivery_attempts row, per id
    active,       \* subscribers with is_active and no deleted_at
    \* history
    sent,         \* how often clients published each body
    reenqueued,   \* how often a reconciler message reached the queue
    rejected,     \* bodies the broker was told to drop by a failed handler
    faults        \* faults so far

queueVars == <<slot, volatile, sent, reenqueued, rejected>>
keyVars == <<status, enriched, error, rcount>>
sharedVars == <<slot, volatile, status, enriched, error, rcount, attempts, active,
                sent, reenqueued, rejected, faults>>

Bodies == Ids \cup {Anon, Junk}

Statuses == {"none", "received", "enriched", "failed"}

SharedTypeOK ==
    /\ slot \in [Copies -> Bodies \cup {Nil}]
    /\ volatile \in SUBSET Copies
    /\ status \in [Ids -> Statuses]
    /\ enriched \in SUBSET Ids
    /\ error \in [Ids -> {"none", "fatal", "abandoned"}]
    /\ rcount \in [Ids -> Nat]
    /\ attempts \in [Ids -> SUBSET Subs]
    /\ active \in SUBSET Subs
    /\ sent \in [Bodies -> Nat]
    /\ reenqueued \in [Ids -> Nat]
    /\ rejected \in SUBSET Bodies
    /\ faults \in Nat

SharedInit ==
    /\ slot = [c \in Copies |-> Nil]
    /\ volatile = {}
    /\ status = [m \in Ids |-> "none"]
    /\ enriched = {}
    /\ error = [m \in Ids |-> "none"]
    /\ rcount = [m \in Ids |-> 0]
    /\ attempts = [m \in Ids |-> {}]
    /\ active = Subs
    /\ sent = [b \in Bodies |-> 0]
    /\ reenqueued = [m \in Ids |-> 0]
    /\ rejected = {}
    /\ faults = 0

Store(b, c) == slot[c] = Nil /\ slot' = [slot EXCEPT ![c] = b]

\* A re-enqueued body without its message_id.  (mutant)
EnqueueNameless(b) ==
    \E c \in Copies : Store(Anon, c) /\ volatile' = volatile \cup {c}

\* The broker stores one more message with body b.
EnqueueVolatile(b) ==
    \E c \in Copies : Store(b, c) /\ volatile' = volatile \cup {c}

\* DeliveryMode.PERSISTENT
EnqueuePersistent(b) == \E c \in Copies : Store(b, c) /\ UNCHANGED volatile

\* One of the faults the bound MaxFaults counts.
Fault == faults < MaxFaults /\ faults' = faults + 1

-----------------------------------------------------------------------------
(* The surroundings: clients and the subscriber API *)

\* POST /events/publish, which always has a message_id and is persistent, or
\* an AMQP client of its own.
Publish(b) ==
    /\ sent[b] < MaxSends
    /\ \/ EnqueuePersistent(b)
       \/ b \notin Ids /\ EnqueueVolatile(b)
    /\ sent' = [sent EXCEPT ![b] = @ + 1]
    /\ UNCHANGED <<keyVars, attempts, active, reenqueued, rejected, faults>>

\* PATCH is_active, or DELETE, commits.
FlipSubscriber(s) ==
    /\ active' = IF s \in active THEN active \ {s} ELSE active \cup {s}
    /\ UNCHANGED <<queueVars, keyVars, attempts, faults>>

Surroundings ==
    \/ \E b \in Published : Publish(b)
    \/ \E s \in Subs : FlipSubscriber(s)
=============================================================================
