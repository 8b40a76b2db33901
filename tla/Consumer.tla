------------------------------ MODULE Consumer ------------------------------
(***************************************************************************)
(* handle_message of app/consumer/rabbitmq.py: one asyncio task per        *)
(* delivered message, several at a time in each consumer process.          *)
(*                                                                         *)
(* A task stops at every await, so its stages are the program points       *)
(* between two of them: the open transaction that inserts the key, the     *)
(* early ack, the enrichment call and the final write.  The row inserted   *)
(* ON CONFLICT DO NOTHING stays invisible until the commit, and a second   *)
(* insert of the same key waits for that commit or rollback.               *)
(***************************************************************************)
EXTENDS IngestState

CONSTANTS
    Slots,        \* bound: handler tasks one process runs at a time
    Prefetch      \* set_qos(prefetch_count): unacked messages per process

ASSUME ConsumerAssumption == Prefetch \in Nat

VARIABLES
    stage,        \* where each task is in handle_message
    copy,         \* the queue slot whose delivery the task can still ack
    mid,          \* the task's message_id
    picked        \* subscribers the task's transaction inserts attempts for

taskVars == <<stage, copy, mid, picked>>

Tasks == Consumers \X Slots

\* Stages of the task whose transaction inserted the row.
OwnerStages == {"inserted", "selected", "committed",
                "enriching", "persisting", "recording"}
Stages == {"idle", "delivered"} \cup OwnerStages

ConsumerTypeOK ==
    /\ stage \in [Tasks -> Stages]
    /\ copy \in [Tasks -> Copies \cup {Nil}]
    /\ mid \in [Tasks -> Ids \cup {Nil}]
    /\ picked \in [Tasks -> SUBSET Subs]

ConsumerInit ==
    /\ stage = [t \in Tasks |-> "idle"]
    /\ copy = [t \in Tasks |-> Nil]
    /\ mid = [t \in Tasks |-> Nil]
    /\ picked = [t \in Tasks |-> {}]

-----------------------------------------------------------------------------
(* Helpers *)

Ready(c) == slot[c] # Nil /\ \A t \in Tasks : copy[t] # c

Unacked(p) == {t \in Tasks : t[1] = p /\ copy[t] # Nil}

\* A check outside the transaction sees no uncommitted row.  (mutant)
NeverLocked(m) == FALSE

\* A task holds the uncommitted row of m, so another insert of m waits.
Locked(m) ==
    \E t \in Tasks : mid[t] = m /\ stage[t] \in {"inserted", "selected"}

\* An upsert that starts an unfinished row again.  (mutant)
IsNewOrUnfinished(m) == status[m] \in {"none", "received"}

\* The insert returns a row: there was none with this message_id.
IsNew(m) == status[m] = "none"

\* data.get("message_id") or str(uuid.uuid4())
MessageIds(b) ==
    IF b # Anon THEN {b}
    ELSE {m \in Uuids : IsNew(m) /\ \A t \in Tasks : mid[t] # m}

Goto(t, s) == stage' = [stage EXCEPT ![t] = s]

\* handle_message returns or raises: nothing of the task is left.
End(t) ==
    /\ Goto(t, "idle")
    /\ mid' = [mid EXCEPT ![t] = Nil]
    /\ picked' = [picked EXCEPT ![t] = {}]

\* ack or reject(requeue=False): the broker forgets the message, unless the
\* channel is gone and the message with it.
Settle(t) ==
    /\ slot' = [c \in Copies |-> IF c = copy[t] THEN Nil ELSE slot[c]]
    /\ volatile' = volatile \ {copy[t]}
    /\ copy' = [copy EXCEPT ![t] = Nil]

\* A consumer that acks on receipt.  (mutant)
TakeNoAck(t, c) ==
    /\ slot' = [slot EXCEPT ![c] = Nil] /\ volatile' = volatile \ {c}
    /\ UNCHANGED copy

\* The broker hands the message in slot c to task t and waits for its ack.
Take(t, c) == copy' = [copy EXCEPT ![t] = c] /\ UNCHANGED <<slot, volatile>>

CommitRows(t) ==
    /\ status' = [status EXCEPT ![mid[t]] = "received"]
    /\ attempts' = [attempts EXCEPT ![mid[t]] = picked[t]]

-----------------------------------------------------------------------------
(* handle_message up to the ack *)

\* Too large or not JSON: acked.  JSON, but no object: data.get raises, and
\* process() rejects the message.
DiscardJunk(t) ==
    /\ stage[t] = "idle"
    /\ \E c \in Copies :
          /\ Ready(c) /\ slot[c] = Junk
          /\ slot' = [slot EXCEPT ![c] = Nil]
          /\ volatile' = volatile \ {c}
    /\ rejected' \in {rejected, rejected \cup {Junk}}
    /\ UNCHANGED <<taskVars, keyVars, attempts, active,
                   sent, reenqueued, faults>>

Deliver(t) ==
    /\ stage[t] = "idle"
    /\ Cardinality(Unacked(t[1])) < Prefetch
    /\ \E c \in Copies :
          /\ Ready(c) /\ slot[c] # Junk
          /\ \E m \in MessageIds(slot[c]) : mid' = [mid EXCEPT ![t] = m]
          /\ Take(t, c)
    /\ Goto(t, "delivered")
    /\ UNCHANGED <<picked, keyVars, attempts, active,
                   sent, reenqueued, rejected, faults>>

InsertKey(t) ==
    /\ stage[t] = "delivered"
    /\ ~Locked(mid[t]) /\ IsNew(mid[t])
    /\ Goto(t, "inserted")
    /\ UNCHANGED <<sharedVars, copy, mid, picked>>

SkipDuplicate(t) ==
    /\ stage[t] = "delivered"
    /\ ~Locked(mid[t]) /\ ~IsNew(mid[t])
    /\ Settle(t) /\ End(t)
    /\ UNCHANGED <<keyVars, attempts, active,
                   sent, reenqueued, rejected, faults>>

SelectSubscribers(t) ==
    /\ stage[t] = "inserted"
    /\ picked' = [picked EXCEPT ![t] = active]
    /\ Goto(t, "selected")
    /\ UNCHANGED <<sharedVars, copy, mid>>

Commit(t) ==
    /\ stage[t] = "selected"
    /\ CommitRows(t)
    /\ Goto(t, "committed")
    /\ UNCHANGED <<queueVars, enriched, error, rcount, active, faults,
                   copy, mid, picked>>

Ack(t) ==
    /\ stage[t] = "committed" /\ copy[t] # Nil
    /\ Settle(t) /\ Goto(t, "enriching")
    /\ UNCHANGED <<mid, picked, keyVars, attempts, active,
                   sent, reenqueued, rejected, faults>>

\* The channel was lost since the delivery: ack raises and the task ends.
AckRaises(t) ==
    /\ stage[t] = "committed" /\ copy[t] = Nil
    /\ End(t)
    /\ UNCHANGED <<sharedVars, copy>>

-----------------------------------------------------------------------------
(* handle_message after the ack *)

\* All tries fail, or the provider raises something else: nothing is written.
EnrichGivesUp(t) ==
    /\ stage[t] = "enriching"
    /\ End(t)
    /\ UNCHANGED <<sharedVars, copy>>

EnrichFatal(t) ==
    /\ stage[t] = "enriching"
    /\ Goto(t, "recording")
    /\ UNCHANGED <<sharedVars, copy, mid, picked>>

EnrichSucceeds(t) ==
    /\ stage[t] = "enriching"
    /\ Goto(t, "persisting")
    /\ UNCHANGED <<sharedVars, copy, mid, picked>>

\* A handler that forgets to return after a fatal error.  (mutant)
RecordFatalAndGoOn(t) ==
    /\ stage[t] = "recording"
    /\ error' = [error EXCEPT ![mid[t]] = "fatal"]
    /\ Goto(t, "persisting")
    /\ UNCHANGED <<queueVars, status, enriched, rcount, attempts, active,
                   faults, copy, mid, picked>>

RecordFatal(t) ==
    /\ stage[t] = "recording"
    /\ error' = [error EXCEPT ![mid[t]] = "fatal"]
    /\ End(t)
    /\ UNCHANGED <<queueVars, status, enriched, rcount, attempts, active,
                   faults, copy>>

PersistEnrichment(t) ==
    /\ stage[t] = "persisting"
    /\ status' = [status EXCEPT ![mid[t]] = "enriched"]
    /\ enriched' = enriched \cup {mid[t]}
    /\ End(t)
    /\ UNCHANGED <<queueVars, error, rcount, attempts, active, faults, copy>>

-----------------------------------------------------------------------------
(* Faults *)

\* An exception before the commit leaves process(): rollback, and the message
\* is rejected without requeue.
TransactionFails(t) ==
    /\ Fault
    /\ stage[t] \in {"delivered", "inserted", "selected"}
    /\ Settle(t) /\ End(t)
    /\ rejected' = rejected \cup {slot[c] : c \in {copy[t]} \ {Nil}}
    /\ UNCHANGED <<keyVars, attempts, active, sent, reenqueued>>

\* The commit takes effect but its answer is lost: the driver raises.
CommitAnswerLost(t) ==
    /\ Fault
    /\ stage[t] = "selected"
    /\ CommitRows(t)
    /\ Settle(t) /\ End(t)
    /\ rejected' = rejected \cup {slot[c] : c \in {copy[t]} \ {Nil}}
    /\ UNCHANGED <<enriched, error, rcount, active, sent, reenqueued>>

\* The session that writes the result of the enrichment raises.
SessionFails(t) ==
    /\ Fault
    /\ stage[t] \in {"persisting", "recording"}
    /\ End(t)
    /\ UNCHANGED <<queueVars, keyVars, attempts, active, copy>>

\* The broker requeues what the process holds; its tasks go on.
ConnectionLost(p) ==
    /\ Fault
    /\ Unacked(p) # {}
    /\ copy' = [t \in Tasks |-> IF t[1] = p THEN Nil ELSE copy[t]]
    /\ UNCHANGED <<queueVars, keyVars, attempts, active, stage, mid, picked>>

\* Every channel is gone and every message that was not persistent.
BrokerRestart ==
    /\ Fault
    /\ \E c \in Copies : slot[c] # Nil
    /\ slot' = [c \in Copies |-> IF c \in volatile THEN Nil ELSE slot[c]]
    /\ volatile' = {}
    /\ copy' = [t \in Tasks |-> Nil]
    /\ UNCHANGED <<keyVars, attempts, active, sent, reenqueued, rejected,
                   stage, mid, picked>>

-----------------------------------------------------------------------------
TaskStep(t) ==
    \/ DiscardJunk(t) \/ Deliver(t) \/ InsertKey(t) \/ SkipDuplicate(t)
    \/ SelectSubscribers(t) \/ Commit(t) \/ Ack(t) \/ AckRaises(t)
    \/ EnrichGivesUp(t) \/ EnrichFatal(t) \/ EnrichSucceeds(t)
    \/ RecordFatal(t) \/ PersistEnrichment(t)

TaskFault(t) == TransactionFails(t) \/ CommitAnswerLost(t) \/ SessionFails(t)

ConsumerNext ==
    \/ \E t \in Tasks : TaskStep(t) \/ TaskFault(t)
    \/ \E p \in Consumers : ConnectionLost(p)
    \/ BrokerRestart
=============================================================================
