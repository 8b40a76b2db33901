------------------------------ MODULE Pipeline ------------------------------
(***************************************************************************)
(* The whole path of an event: the ingest side and the delivery side over  *)
(* one database.  They meet in three places: the commit of handle_message  *)
(* inserts the delivery rows of its event, PATCH and DELETE of a           *)
(* subscriber are seen by both, and the payload a worker sends is the one  *)
(* in the idempotency_keys object it loaded with its claim.                *)
(*                                                                         *)
(* A delivery row is an event and a subscriber: uq_delivery_message_       *)
(* subscriber allows one.                                                  *)
(***************************************************************************)
EXTENDS Ingest

CONSTANTS
    Unsendable,           \* as in Delivery
    Workers,              \* worker processes
    Requests,             \* bound: retry requests served at a time
    MaxDeliveryAttempts,  \* settings.delivery_max_attempts
    BatchLimit,           \* the LIMIT of the claim
    MaxRetries,           \* bound: retry requests per row
    MaxDeliveryFaults     \* bound: faults of the delivery side

VARIABLES
    dstatus, dcount, due, aged, held, snap, cur, step, result, asked,
    retries, acked, unheard, late, disturbed, dfaults,   \* as in Delivery
    seen,         \* ids whose enriched_payload was there when the worker's
                  \* batch was loaded
    outdated      \* history: POSTs of a raw payload when the enriched one was
                  \* already in the database, per row

Rows == Ids \X Subs

ASSUME PipelineAssumption ==
    /\ Unsendable \subseteq Subs
    /\ Nil \notin Rows
    /\ MaxDeliveryAttempts \in Nat \ {0} /\ BatchLimit \in Nat \ {0}
    /\ MaxRetries \in Nat /\ MaxDeliveryFaults \in Nat

D == INSTANCE Delivery WITH
         SubOf <- [d \in Rows |-> d[2]],
         MaxAttempts <- MaxDeliveryAttempts,
         MaxFaults <- MaxDeliveryFaults,
         faults <- dfaults

\* All of Delivery's variables but active, which both sides have.
deliveryVars ==
    <<dstatus, dcount, due, aged, held, snap, cur, step, result, asked,
      retries, acked, unheard, late, disturbed, dfaults>>
payloadVars == <<seen, outdated>>
pipelineVars == <<vars, deliveryVars, payloadVars>>

PipelineInit ==
    /\ Init
    /\ D!Init
    /\ seen = [w \in Workers |-> {}]
    /\ outdated = [d \in Rows |-> 0]

-----------------------------------------------------------------------------
(* Helpers *)

\* The rows that the commit of task t adds.
FanOut(t) == {mid[t]} \X picked[t]

\* Objects of an earlier batch are used again.  (mutant)
ReusePayloads(w) ==
    seen' = [seen EXCEPT ![w] =
                {m \in enriched : \E d \in held'[w] :
                                    d[1] = m /\ (dcount[d] = 0 \/ m \in seen[w])}]

\* selectinload: the batch comes with its idempotency_keys objects.
LoadPayloads(w) ==
    seen' = [seen EXCEPT ![w] = {m \in enriched : \E d \in held'[w] : d[1] = m}]

\* ik.enriched_payload or ik.raw_payload, from the object loaded with the claim
SendsRaw(w) == cur[w][1] \notin seen[w]

-----------------------------------------------------------------------------
(* Steps of the ingest side *)

\* The rows are left to a transaction of their own, which fails.  (mutant)
FansOutApart(t, A) == A /\ UNCHANGED <<reconcilerVars, deliveryVars, payloadVars>>

\* A commit A of task t, the only source of delivery rows.
FansOut(t, A) ==
    /\ A /\ UNCHANGED reconcilerVars
    /\ D!Insert(FanOut(t))
    /\ UNCHANGED payloadVars

FanOutCommit(t) == FansOut(t, Commit(t))
FanOutAnswerLost(t) == FansOut(t, CommitAnswerLost(t))

SubscriberFlips(s) ==
    /\ FlipSubscriber(s) /\ UNCHANGED <<taskVars, reconcilerVars>>
    /\ D!FlipSubscriber(s)
    /\ UNCHANGED payloadVars

\* Every other step leaves delivery_attempts and the subscribers alone.
Apart(A) == UNCHANGED <<attempts, active, deliveryVars, payloadVars>> /\ A

IngestStep == Apart(Next)

-----------------------------------------------------------------------------
(* Steps of the delivery side *)

ClaimWithPayload(w) ==
    /\ D!Claim(w)
    /\ LoadPayloads(w)
    /\ UNCHANGED <<vars, outdated>>

PostPayload(w) ==
    /\ D!Post(w)
    /\ outdated' = IF SendsRaw(w) /\ cur[w][1] \in enriched
                   THEN [outdated EXCEPT ![cur[w]] = @ + 1] ELSE outdated
    /\ UNCHANGED <<vars, seen>>

\* The steps that neither load nor send a payload.
WorkerMoves(w) ==
    \/ \E d \in Rows : D!Refetch(w, d)
    \/ D!DropInactive(w) \/ D!PostRaises(w) \/ D!Record(w)

OtherDeliveryStep ==
    \/ \E d \in Rows : D!BackoffElapses(d) \/ D!AgesOut(d)
    \/ \E w \in Workers : WorkerMoves(w) \/ D!WorkerFault(w)
    \/ D!StaleReset
    \/ \E r \in Requests : D!RetryWrite(r) \/ \E d \in Rows : D!RetryRead(r, d)

DeliveryStep ==
    \/ \E w \in Workers : ClaimWithPayload(w) \/ PostPayload(w)
    \/ OtherDeliveryStep /\ UNCHANGED <<vars, payloadVars>>

PipelineNext ==
    \/ \E t \in Tasks : FanOutCommit(t) \/ FanOutAnswerLost(t)
    \/ \E s \in Subs : SubscriberFlips(s)
    \/ IngestStep
    \/ DeliveryStep

PipelineSpec == PipelineInit /\ [][PipelineNext]_pipelineVars

\* As Fairness of the two sides says.
PipelineFairness ==
    /\ \A t \in Tasks : WF_pipelineVars(
          \/ Apart(TaskStep(t) /\ UNCHANGED reconcilerVars)
          \/ FanOutCommit(t))
    /\ \A m \in Ids : WF_pipelineVars(Apart(RowAges(m) /\ UNCHANGED taskVars))
    /\ \A p \in Consumers :
          /\ WF_pipelineVars(Apart((LoadStale(p) \/ CommitCycle(p)) /\ UNCHANGED taskVars))
          /\ \A m \in Ids :
                /\ WF_pipelineVars(Apart(GiveUp(p, m) /\ UNCHANGED taskVars))
                /\ SF_pipelineVars(Apart(Republish(p, m) /\ UNCHANGED taskVars))
    /\ \A w \in Workers : WF_pipelineVars(
          \/ ClaimWithPayload(w) \/ PostPayload(w)
          \/ WorkerMoves(w) /\ UNCHANGED <<vars, payloadVars>>)
    /\ WF_pipelineVars(D!StaleReset /\ UNCHANGED <<vars, payloadVars>>)
    /\ \A d \in Rows :
          /\ WF_pipelineVars(D!BackoffElapses(d) /\ UNCHANGED <<vars, payloadVars>>)
          /\ WF_pipelineVars(D!AgesOut(d) /\ UNCHANGED <<vars, payloadVars>>)

FairPipelineSpec == PipelineSpec /\ PipelineFairness

-----------------------------------------------------------------------------
(* Safety *)

PipelineTypeOK ==
    /\ TypeOK /\ D!TypeOK
    /\ seen \in [Workers -> SUBSET Ids]
    /\ outdated \in [Rows -> Nat]

\* The delivery side runs as Delivery says: a commit never inserts a row that
\* is there, whatever is published twice, redelivered or re-enqueued, and no
\* other step of the ingest side touches a row.
ImplementsDelivery == D!Spec

\* End to end, duplicates of an event are absorbed: however often it is
\* published, redelivered or re-enqueued, its subscriber acknowledges it twice
\* only when an acknowledgement was lost on the delivery side, on its way to the
\* worker or before its record, or when the row was disturbed.
AbsorbsDuplicates ==
    \A d \in Rows \ disturbed : acked[d] <= 1 + dfaults + unheard[d]

\* A worker sends what it loaded with its claim, so a subscriber may get the
\* raw payload of an event that is already enriched; it does so once at most,
\* every later try sends the enriched one.
OneOutdatedPost ==
    \A d \in Rows \ disturbed : outdated[d] <= 1

\* The commit that accepts an event is the one that creates its deliveries: a
\* published event is in the broker, rejected by a failed handler, or accepted
\* with the rows of its fan-out and no others, whatever crashes, is lost or is
\* delivered again, and whatever workers make of the rows.
NothingFallsBetween ==
    \A m \in Ids :
        /\ sent[m] > 0 =>
              \/ \E c \in Copies : slot[c] = m
              \/ m \in rejected
              \/ status[m] # "none"
        /\ \A s \in Subs :
              dstatus[<<m, s>>] # "none" <=> status[m] # "none" /\ s \in attempts[m]

-----------------------------------------------------------------------------
(* Liveness *)

\* An event that a client published is rejected by a failed handler, or each
\* delivery of its fan-out ends, crashes and lost messages notwithstanding.
ReachesEveryone ==
    \A m \in Ids : sent[m] > 0 ~>
        \/ m \in rejected
        \/ /\ status[m] # "none"
           /\ \A s \in attempts[m] : dstatus[<<m, s>>] \in {"delivered", "dead"}
=============================================================================
