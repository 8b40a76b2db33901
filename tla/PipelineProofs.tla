--------------------------- MODULE PipelineProofs ---------------------------
(***************************************************************************)
(* Theorems about Pipeline, for every value of its constants.  Both sides  *)
(* keep in the composition what they guarantee alone: every behaviour of   *)
(* Pipeline is one of Ingest and, for its delivery rows, one of Delivery.  *)
(* The theorems of the two sides then hold here, and what relates them is  *)
(* proved on top.                                                          *)
(***************************************************************************)
EXTENDS Pipeline, QueueProofs, LedgerProofs

DP == INSTANCE DeliveryProofs WITH
         SubOf <- [d \in Rows |-> d[2]],
         MaxAttempts <- MaxDeliveryAttempts,
         MaxFaults <- MaxDeliveryFaults,
         faults <- dfaults

USE PipelineAssumption

-----------------------------------------------------------------------------
(* The ingest side *)

LEMMA StepOfIngest == [PipelineNext]_pipelineVars => [Next]_vars
<1> USE DEF pipelineVars
<1>1. ASSUME NEW t \in Tasks, FanOutCommit(t) \/ FanOutAnswerLost(t)
      PROVE  Next
  BY <1>1 DEF FanOutCommit, FanOutAnswerLost, FansOut, Next, ConsumerNext, TaskStep, TaskFault
<1>2. ASSUME NEW s \in Subs, SubscriberFlips(s)
      PROVE  Next
  BY <1>2 DEF SubscriberFlips, Next, Surroundings
<1>3. CASE IngestStep
  BY <1>3 DEF IngestStep, Apart
<1>4. CASE DeliveryStep
  BY <1>4 DEF DeliveryStep, ClaimWithPayload, PostPayload
<1>5. CASE UNCHANGED pipelineVars
  BY <1>5
<1> QED BY <1>1, <1>2, <1>3, <1>4, <1>5 DEF PipelineNext

\* handle_message and _reconciler run in the composition as Ingest says, so
\* each theorem about Ingest is one about Pipeline.
THEOREM ImplementsIngest == PipelineSpec => Spec
<1>1. PipelineInit => Init
  BY DEF PipelineInit
<1> QED BY <1>1, StepOfIngest, PTL DEF PipelineSpec, Spec

-----------------------------------------------------------------------------
(* The delivery side *)

\* A delivery row belongs to an event whose row is committed.
RowsAccepted == \A d \in Rows : dstatus[d] # "none" => status[d[1]] # "none"

\* No step of the ingest side takes an event's row away.
LEMMA AcceptedStays ==
    ASSUME TypeInv, [Next]_vars, NEW m \in Ids, status[m] # "none"
    PROVE  status'[m] # "none"
<1> USE DEF TypeInv, TypeOK, SharedTypeOK, keyVars, sharedVars
<1>1. CASE Surroundings
  BY <1>1 DEF Surroundings, Publish, FlipSubscriber
<1>2. ASSUME NEW t \in Tasks, TaskStep(t) \/ TaskFault(t)
      PROVE  status'[m] # "none"
  BY <1>2 DEF TaskStep, TaskFault, DiscardJunk, Deliver, InsertKey, SkipDuplicate,
       SelectSubscribers, Commit, CommitRows, Ack, AckRaises, EnrichGivesUp, EnrichFatal,
       EnrichSucceeds, RecordFatal, PersistEnrichment, TransactionFails, CommitAnswerLost,
       SessionFails
<1>3. CASE BrokerRestart \/ \E p \in Consumers : ConnectionLost(p)
  BY <1>3 DEF BrokerRestart, ConnectionLost
<1>4. CASE ReconcilerNext
  BY <1>4 DEF ReconcilerNext, RowAges, LoadStale, CommitCycle, CycleFails, GiveUp,
       Republish, PublishTimesOut
<1>5. CASE \E p \in Consumers : Crash(p)
  BY <1>5 DEF Crash
<1>6. CASE UNCHANGED vars
  BY <1>6 DEF vars
<1> QED BY <1>1, <1>2, <1>3, <1>4, <1>5, <1>6 DEF Next, ConsumerNext

\* The commit of a new event inserts rows that were not there.
LEMMA FanOutIsNew ==
    ASSUME TypeInv, OwnerInv, RowsAccepted, NEW t \in Tasks, stage[t] = "selected"
    PROVE  /\ FanOut(t) \in SUBSET Rows
           /\ \A d \in FanOut(t) : dstatus[d] = "none" /\ d[1] = mid[t]
<1>1. mid[t] \in Ids /\ picked[t] \in SUBSET Subs /\ status[mid[t]] = "none"
  BY DEF TypeInv, TypeOK, ConsumerTypeOK, MidOK, OwnerInv, Uncommitted
<1> QED BY <1>1 DEF RowsAccepted, FanOut, Rows

\* Pipeline's instance of Delivery and the one with the proofs are the same.
LEMMA SameWorker ==
    ASSUME NEW w \in Workers
    PROVE  /\ D!Claim(w) => DP!Claim(w)
           /\ \A d \in Rows : D!Refetch(w, d) => DP!Refetch(w, d)
           /\ D!DropInactive(w) => DP!DropInactive(w)
           /\ D!Post(w) => DP!Post(w)
           /\ D!PostRaises(w) => DP!PostRaises(w)
           /\ D!Record(w) => DP!Record(w)
           /\ D!WorkerFault(w) => DP!WorkerFault(w)
<1> USE DEF D!rowVars, DP!rowVars, D!workerVars, DP!workerVars, D!historyVars, DP!historyVars
<1>a. /\ D!Claimable = DP!Claimable
      /\ \A S : D!MarkInFlight(S) <=> DP!MarkInFlight(S)
      /\ D!Between(w) <=> DP!Between(w)
  BY DEF D!Claimable, DP!Claimable, D!MarkInFlight, DP!MarkInFlight, D!Between, DP!Between
<1>b. ASSUME NEW S
      PROVE  D!Cardinality(S) = DP!Cardinality(S)
  BY DEF D!Cardinality, DP!Cardinality
<1>1. D!Claim(w) => DP!Claim(w)
  BY ONLY <1>b, <1>a, Zenon DEF D!Claim, DP!Claim, D!historyVars, DP!historyVars
<1>2. \A d \in Rows : D!Refetch(w, d) => DP!Refetch(w, d)
  BY DEF D!Refetch, DP!Refetch, D!Between, DP!Between
<1>3. D!DropInactive(w) => DP!DropInactive(w)
  BY DEF D!DropInactive, DP!DropInactive, D!Return, DP!Return
<1>4. D!Post(w) => DP!Post(w)
  BY DEF D!Post, DP!Post
<1>5. D!PostRaises(w) => DP!PostRaises(w)
  BY DEF D!PostRaises, DP!PostRaises, D!Abort, DP!Abort, D!Return, DP!Return
<1>6. D!Record(w) => DP!Record(w)
  BY DEF D!Record, DP!Record, D!WriteOutcome, DP!WriteOutcome, D!Outcome, DP!Outcome,
       D!Return, DP!Return
<1>7. D!WorkerFault(w) => DP!WorkerFault(w)
  <2>1. D!BatchLost(w) => DP!BatchLost(w)
    BY DEF D!BatchLost, DP!BatchLost, D!Fault, DP!Fault, D!Between, DP!Between,
         D!Abort, DP!Abort, D!Return, DP!Return
  <2>2. D!Fault <=> DP!Fault
    BY DEF D!Fault, DP!Fault
  <2>3. D!ClaimAnswerLost(w) => DP!ClaimAnswerLost(w)
    BY ONLY <1>a, <1>b, <2>2, Zenon DEF D!ClaimAnswerLost, DP!ClaimAnswerLost, D!workerVars,
         DP!workerVars
  <2>4. D!RecordAnswerLost(w) => DP!RecordAnswerLost(w)
    BY DEF D!RecordAnswerLost, DP!RecordAnswerLost, D!Fault, DP!Fault, D!WriteOutcome,
         DP!WriteOutcome, D!Outcome, DP!Outcome, D!Abort, DP!Abort, D!Return, DP!Return
  <2> QED BY <2>1, <2>3, <2>4 DEF D!WorkerFault, DP!WorkerFault
<1> QED BY <1>1, <1>2, <1>3, <1>4, <1>5, <1>6, <1>7

LEMMA SameOthers ==
    /\ \A d \in Rows : D!BackoffElapses(d) => DP!BackoffElapses(d)
    /\ \A d \in Rows : D!AgesOut(d) => DP!AgesOut(d)
    /\ D!StaleReset => DP!StaleReset
    /\ \A r \in Requests : D!RetryWrite(r) => DP!RetryWrite(r)
    /\ \A r \in Requests, d \in Rows : D!RetryRead(r, d) => DP!RetryRead(r, d)
BY DEF D!rowVars, DP!rowVars, D!workerVars, DP!workerVars, D!historyVars,
       DP!historyVars, D!BackoffElapses, DP!BackoffElapses, D!AgesOut, DP!AgesOut,
       D!StaleReset, DP!StaleReset, D!HeldRows, DP!HeldRows, D!Holds, DP!Holds,
       D!RetryWrite, DP!RetryWrite, D!RetryRead, DP!RetryRead

\* DeliveryAssumption of the instance.
LEMMA Constants ==
    /\ [d \in Rows |-> d[2]] \in [Rows -> Subs]
    /\ Unsendable \subseteq Subs
    /\ Nil \notin Rows
    /\ MaxDeliveryAttempts \in Nat \ {0} /\ BatchLimit \in Nat \ {0}
    /\ MaxRetries \in Nat /\ MaxDeliveryFaults \in Nat
BY DEF Rows

LEMMA DeliveryStepIsRowStep == DeliveryStep => DP!RowStep \/ UNCHANGED DP!vars
<1>1. ASSUME NEW w \in Workers, ClaimWithPayload(w) \/ PostPayload(w)
      PROVE  DP!RowStep
  BY <1>1, SameWorker DEF ClaimWithPayload, PostPayload, DP!RowStep, DP!WorkerStep
<1>2. CASE OtherDeliveryStep
  BY <1>2, SameWorker, SameOthers DEF OtherDeliveryStep, WorkerMoves, DP!RowStep, DP!WorkerStep
<1> QED BY <1>1, <1>2 DEF DeliveryStep

LEMMA StepOfDelivery ==
    ASSUME TypeInv, OwnerInv, RowsAccepted, DP!TypeOK, [PipelineNext]_pipelineVars
    PROVE  [D!Next]_D!vars
<1> USE DEF D!vars, D!rowVars, D!workerVars, D!historyVars
<1>1. ASSUME NEW t \in Tasks, FanOutCommit(t) \/ FanOutAnswerLost(t)
      PROVE  [D!Next]_D!vars
  <2>1. stage[t] = "selected" /\ D!Insert(FanOut(t))
    BY <1>1 DEF FanOutCommit, FanOutAnswerLost, FansOut, Commit, CommitAnswerLost
  <2>2. D!Create(FanOut(t))
    BY <2>1, FanOutIsNew DEF D!Create
  <2>3. CASE FanOut(t) = {}
    <3>1. dstatus' = [d \in Rows |-> dstatus[d]] /\ due' = due
      BY <2>1, <2>3 DEF D!Insert
    <3>2. dstatus' = dstatus
      BY <3>1 DEF DP!TypeOK
    <3> QED BY <2>1, <3>1, <3>2 DEF D!Insert
  <2>4. CASE FanOut(t) # {}
    BY <2>1, <2>2, <2>4, FanOutIsNew DEF D!Next
  <2> QED BY <2>3, <2>4
<1>2. ASSUME NEW s \in Subs, SubscriberFlips(s)
      PROVE  D!Next
  BY <1>2 DEF SubscriberFlips, D!Next
<1>3. CASE IngestStep
  BY <1>3 DEF IngestStep, Apart, deliveryVars
<1>4. ASSUME NEW w \in Workers, ClaimWithPayload(w) \/ PostPayload(w)
      PROVE  D!Next
  BY <1>4 DEF ClaimWithPayload, PostPayload, D!Next, D!RowStep, D!WorkerStep
<1>5. CASE OtherDeliveryStep
  BY <1>5 DEF OtherDeliveryStep, WorkerMoves, D!Next, D!RowStep, D!WorkerStep
<1>6. CASE UNCHANGED pipelineVars
  BY <1>6 DEF pipelineVars, deliveryVars, vars, sharedVars
<1> QED BY <1>1, <1>2, <1>3, <1>4, <1>5, <1>6 DEF PipelineNext, DeliveryStep

LEMMA SameNext == [D!Next]_D!vars => [DP!Next]_DP!vars
<1> USE DEF D!vars, DP!vars, D!rowVars, DP!rowVars, D!workerVars, DP!workerVars,
            D!historyVars, DP!historyVars
<1>1. ASSUME NEW S \in SUBSET Rows, D!Create(S)
      PROVE  DP!Create(S)
  BY <1>1 DEF D!Create, DP!Create, D!Insert, DP!Insert
<1>2. ASSUME NEW s \in Subs, D!FlipSubscriber(s)
      PROVE  DP!FlipSubscriber(s)
  BY <1>2 DEF D!FlipSubscriber, DP!FlipSubscriber
<1>3. D!RowStep => DP!RowStep
  BY SameWorker, SameOthers DEF D!RowStep, DP!RowStep, D!WorkerStep, DP!WorkerStep
<1> QED BY <1>1, <1>2, <1>3 DEF D!Next, DP!Next

LEMMA RowsAcceptedStep ==
    ASSUME TypeInv, OwnerInv, RowsAccepted, DP!TypeOK, DP!Existing,
           [PipelineNext]_pipelineVars
    PROVE  RowsAccepted'
<1>0. \A d \in Rows : d[1] \in Ids /\ (status[d[1]] # "none" => status'[d[1]] # "none")
  BY StepOfIngest, AcceptedStays DEF Rows
<1>1. ASSUME NEW t \in Tasks, FanOutCommit(t) \/ FanOutAnswerLost(t)
      PROVE  RowsAccepted'
  <2>1. /\ stage[t] = "selected"
        /\ status' = [status EXCEPT ![mid[t]] = "received"]
        /\ dstatus' = [d \in Rows |-> IF d \in FanOut(t) THEN "pending" ELSE dstatus[d]]
    BY <1>1 DEF FanOutCommit, FanOutAnswerLost, FansOut, Commit, CommitAnswerLost, CommitRows, D!Insert
  <2>2. mid[t] \in Ids /\ status \in [Ids -> Statuses]
    BY <2>1 DEF TypeInv, TypeOK, SharedTypeOK, MidOK
  <2> QED BY <1>0, <2>1, <2>2, FanOutIsNew DEF RowsAccepted
<1>2. CASE IngestStep \/ \E s \in Subs : SubscriberFlips(s)
  BY <1>0, <1>2 DEF RowsAccepted, IngestStep, Apart, deliveryVars, SubscriberFlips,
     D!FlipSubscriber, D!rowVars
<1>3. CASE DeliveryStep
  <2>1. \A d \in Rows : dstatus[d] = "none" => dstatus'[d] = "none"
    BY <1>3, Constants, DeliveryStepIsRowStep, DP!RowsStay DEF DP!vars, DP!rowVars
  <2> QED BY <1>0, <2>1 DEF RowsAccepted
<1>4. CASE UNCHANGED pipelineVars
  BY <1>4 DEF pipelineVars, deliveryVars, vars, sharedVars, keyVars, RowsAccepted
<1> QED BY <1>1, <1>2, <1>3, <1>4 DEF PipelineNext

\* What the two sides know of each other.
JointInv == RowsAccepted /\ DP!TypeOK /\ DP!Existing

LEMMA SameInit == D!Init <=> DP!Init
BY DEF D!Init, DP!Init

THEOREM JointInvariant == PipelineSpec => []JointInv
<1>1. PipelineInit => JointInv
  <2>1. DP!Init => DP!TypeOK /\ DP!Existing
    BY Constants, DP!TypeInit, DP!ExistingInit
  <2> QED BY <2>1, SameInit DEF PipelineInit, JointInv, RowsAccepted, DP!Init
<1>2. TypeInv /\ OwnerInv /\ JointInv /\ [PipelineNext]_pipelineVars => JointInv'
  BY Constants, StepOfDelivery, SameNext, RowsAcceptedStep, DP!TypeStep, DP!ExistingStep DEF JointInv
<1> QED BY <1>1, <1>2, ImplementsIngest, TypeInvariant, OwnerInvariant, PTL DEF PipelineSpec

\* _create_delivery_attempts meets the workers and the retry endpoint: a commit
\* of handle_message inserts only new rows, and the delivery side runs in the
\* composition as Delivery says.
THEOREM DeliveryRefinement == PipelineSpec => ImplementsDelivery
<1>1. PipelineInit => D!Init
  BY DEF PipelineInit
<1>2. TypeInv /\ OwnerInv /\ JointInv /\ [PipelineNext]_pipelineVars => [D!Next]_D!vars
  BY StepOfDelivery DEF JointInv
<1> QED BY <1>1, <1>2, ImplementsIngest, TypeInvariant, OwnerInvariant, JointInvariant, PTL
        DEF PipelineSpec, ImplementsDelivery, D!Spec

\* The same for the instance with the proofs.
LEMMA DeliveryTheoremsApply == PipelineSpec => DP!Spec
BY DeliveryRefinement, SameInit, SameNext, PTL DEF ImplementsDelivery, D!Spec, DP!Spec

\* From POST /events/publish to the subscriber's answer: however often an event
\* is published, redelivered or re-enqueued, a second acknowledgement takes the
\* loss of the first on the delivery side, or a disturbed row.
THEOREM AbsorbsDuplicatesAlways == PipelineSpec => []AbsorbsDuplicates
<1>1. DP!DuplicateNeedsLoss => AbsorbsDuplicates
  BY DEF DP!DuplicateNeedsLoss, AbsorbsDuplicates
<1> QED BY <1>1, Constants, DeliveryTheoremsApply, DP!DuplicateNeedsLossAlways, PTL

-----------------------------------------------------------------------------
(* Payloads *)

\* enriched_payload, once written, is never null again.
LEMMA EnrichedStays ==
    ASSUME [Next]_vars
    PROVE  enriched \subseteq enriched'
<1> USE DEF keyVars, sharedVars
<1>1. CASE Surroundings
  BY <1>1 DEF Surroundings, Publish, FlipSubscriber
<1>2. ASSUME NEW t \in Tasks, TaskStep(t) \/ TaskFault(t)
      PROVE  enriched \subseteq enriched'
  BY <1>2 DEF TaskStep, TaskFault, DiscardJunk, Deliver, InsertKey, SkipDuplicate,
       SelectSubscribers, Commit, Ack, AckRaises, EnrichGivesUp, EnrichFatal,
       EnrichSucceeds, RecordFatal, PersistEnrichment, TransactionFails, CommitAnswerLost,
       SessionFails
<1>3. CASE BrokerRestart \/ \E p \in Consumers : ConnectionLost(p)
  BY <1>3 DEF BrokerRestart, ConnectionLost
<1>4. CASE ReconcilerNext
  BY <1>4 DEF ReconcilerNext, RowAges, LoadStale, CommitCycle, CycleFails, GiveUp,
       Republish, PublishTimesOut
<1>5. CASE \E p \in Consumers : Crash(p)
  BY <1>5 DEF Crash
<1>6. CASE UNCHANGED vars
  BY <1>6 DEF vars
<1> QED BY <1>1, <1>2, <1>3, <1>4, <1>5, <1>6 DEF Next, ConsumerNext

\* Worker w has d and has not sent it yet.
Unsent(w, d) == DP!Holds(w, d) /\ ~(cur[w] = d /\ step[w] = "recording")

\* An outdated POST has happened at most once, after the enrichment; whoever
\* sends the row from then on has loaded the enriched payload.
OutdatedInv ==
    /\ outdated \in [Rows -> Nat] /\ seen \in [Workers -> SUBSET Ids]
    /\ \A d \in Rows \ disturbed :
          /\ outdated[d] <= 1
          /\ outdated[d] # 0 =>
                /\ d[1] \in enriched
                /\ \A w \in Workers : Unsent(w, d) => d[1] \in seen[w]

LEMMA OutdatedInit == PipelineInit => OutdatedInv
BY DEF PipelineInit, OutdatedInv

LEMMA OutdatedClaim ==
    ASSUME TypeInv, DP!TypeOK, OutdatedInv, NEW w \in Workers, ClaimWithPayload(w)
    PROVE  OutdatedInv'
<1>1. PICK S \in SUBSET DP!Claimable : held' = [held EXCEPT ![w] = S]
  BY SameWorker DEF ClaimWithPayload, DP!Claim
<1>2. cur[w] = Nil /\ UNCHANGED <<cur, step, disturbed, outdated, enriched>>
  BY DEF ClaimWithPayload, D!Claim, D!Between, D!historyVars, vars, sharedVars, keyVars
<1>3. seen' = [seen EXCEPT ![w] = {m \in enriched : \E d \in held'[w] : d[1] = m}]
  BY DEF ClaimWithPayload, LoadPayloads
<1>4. enriched \subseteq Ids
  BY DEF TypeInv, TypeOK, SharedTypeOK
<1>5. seen' \in [Workers -> SUBSET Ids]
  BY <1>3, <1>4 DEF OutdatedInv
<1>6. ASSUME NEW d \in Rows \ disturbed, outdated[d] # 0, NEW v \in Workers, Unsent(v, d)'
      PROVE  d[1] \in seen'[v]
  <2>1. CASE v = w
    <3>1. d \in held'[w]
      BY <1>2, <1>6, <2>1 DEF Unsent, DP!Holds, DP!TypeOK
    <3>2. d[1] \in enriched
      BY <1>6 DEF OutdatedInv
    <3> QED BY <1>3, <2>1, <3>1, <3>2 DEF OutdatedInv
  <2>2. CASE v # w
    <3>1. Unsent(v, d)
      BY <1>1, <1>2, <1>6, <2>2 DEF Unsent, DP!Holds, DP!TypeOK
    <3> QED BY <1>3, <1>6, <2>2, <3>1 DEF OutdatedInv
  <2> QED BY <2>1, <2>2
<1> QED BY <1>2, <1>5, <1>6 DEF OutdatedInv

LEMMA OutdatedPost ==
    ASSUME TypeInv, DP!TypeOK, DP!ClaimInv, OutdatedInv, NEW w \in Workers, PostPayload(w)
    PROVE  OutdatedInv'
<1>1. /\ step[w] = "sending" /\ step' = [step EXCEPT ![w] = "recording"]
      /\ UNCHANGED <<held, cur, disturbed, seen, enriched>>
  BY DEF PostPayload, D!Post, vars, sharedVars, keyVars
<1>2. cur[w] \in Rows
  BY <1>1 DEF DP!TypeOK
<1>3. \A v \in Workers, d \in Rows : Unsent(v, d)' => Unsent(v, d) /\ ~(v = w /\ cur[w] = d)
  BY <1>1 DEF Unsent, DP!Holds, DP!TypeOK
<1>4. CASE SendsRaw(w) /\ cur[w][1] \in enriched
  <2>1. outdated' = [outdated EXCEPT ![cur[w]] = @ + 1]
    BY <1>4 DEF PostPayload
  <2>2. Unsent(w, cur[w])
    BY <1>1 DEF Unsent, DP!Holds
  <2>3. cur[w] \notin disturbed => outdated[cur[w]] = 0
    BY <1>2, <1>4, <2>2 DEF OutdatedInv, SendsRaw
  <2>4. \A v \in Workers : cur[w] \notin disturbed /\ v # w => ~Unsent(v, cur[w])
    BY <1>2, <2>2 DEF DP!ClaimInv, DP!ClaimDisjoint, Unsent
  <2>5. outdated' \in [Rows -> Nat]
    BY <1>2, <2>1 DEF OutdatedInv
  <2>6. ASSUME NEW d \in Rows \ disturbed, outdated'[d] # 0
        PROVE  /\ outdated'[d] <= 1 /\ d[1] \in enriched
               /\ \A v \in Workers : Unsent(v, d)' => d[1] \in seen[v]
    <3>1. CASE d = cur[w]
      BY <1>2, <1>3, <1>4, <2>1, <2>3, <2>4, <3>1 DEF OutdatedInv
    <3>2. CASE d # cur[w]
      BY <1>2, <1>3, <2>1, <2>6, <3>2 DEF OutdatedInv
    <3> QED BY <3>1, <3>2
  <2> QED BY <1>1, <2>5, <2>6 DEF OutdatedInv
<1>5. CASE ~(SendsRaw(w) /\ cur[w][1] \in enriched)
  <2>1. outdated' = outdated
    BY <1>5 DEF PostPayload
  <2> QED BY <1>1, <1>3, <2>1 DEF OutdatedInv
<1> QED BY <1>4, <1>5

\* What a step must not do to an unsent row, if it neither claims nor sends.
LEMMA OutdatedKept ==
    ASSUME OutdatedInv, UNCHANGED payloadVars,
           enriched \subseteq enriched', disturbed \subseteq disturbed',
           \A v \in Workers, d \in Rows : Unsent(v, d)' => Unsent(v, d)
    PROVE  OutdatedInv'
BY DEF OutdatedInv, payloadVars

LEMMA OutdatedOther ==
    ASSUME DP!TypeOK, DP!ClaimInv, OutdatedInv,
           OtherDeliveryStep, UNCHANGED <<vars, payloadVars>>
    PROVE  OutdatedInv'
<1> DEFINE Fine == /\ disturbed \subseteq disturbed'
                   /\ \A v \in Workers, d \in Rows : Unsent(v, d)' => Unsent(v, d)
<1> USE DEF DP!TypeOK, DP!ClaimInv, DP!CurTaken, DP!Holds, Unsent,
            DP!workerVars, DP!historyVars
<1>1. ASSUME NEW d \in Rows, DP!BackoffElapses(d) \/ DP!AgesOut(d)
      PROVE  Fine
  BY <1>1 DEF DP!BackoffElapses, DP!AgesOut
<1>2. ASSUME NEW w \in Workers, NEW d \in Rows, DP!Refetch(w, d)
      PROVE  Fine
  BY <1>2 DEF DP!Refetch, DP!Between
<1>3. ASSUME NEW w \in Workers, DP!DropInactive(w)
      PROVE  Fine
  BY <1>3 DEF DP!DropInactive, DP!Return
<1>4. ASSUME NEW w \in Workers, DP!PostRaises(w)
      PROVE  Fine
  BY <1>4 DEF DP!PostRaises, DP!Abort, DP!Return
<1>5. ASSUME NEW w \in Workers, DP!Record(w)
      PROVE  Fine
  BY <1>5 DEF DP!Record, DP!Return
<1>6. ASSUME NEW w \in Workers, DP!BatchLost(w)
      PROVE  Fine
  BY <1>6 DEF DP!BatchLost, DP!Abort, DP!Return
<1>7. ASSUME NEW w \in Workers, DP!ClaimAnswerLost(w)
      PROVE  Fine
  BY <1>7 DEF DP!ClaimAnswerLost
<1>8. ASSUME NEW w \in Workers, DP!RecordAnswerLost(w)
      PROVE  Fine
  BY <1>8 DEF DP!RecordAnswerLost, DP!Abort, DP!Return
<1>9. CASE DP!StaleReset
  <2>1. Fine
    BY <1>9 DEF DP!StaleReset
  <2> QED BY <2>1, OutdatedKept DEF vars, sharedVars, keyVars
<1>10. ASSUME NEW r \in Requests, DP!RetryWrite(r) \/ \E d \in Rows : DP!RetryRead(r, d)
       PROVE  Fine
  BY <1>10 DEF DP!RetryWrite, DP!RetryRead
<1>11. DP!StaleReset \/ Fine
  <2> HIDE DEF Fine
  <2> QED BY <1>1, <1>2, <1>3, <1>4, <1>5, <1>6, <1>7, <1>8, <1>10, SameWorker, SameOthers
          DEF OtherDeliveryStep, WorkerMoves, DP!WorkerFault
<1> QED BY <1>9, <1>11, OutdatedKept DEF vars, sharedVars, keyVars

LEMMA OutdatedIngest ==
    ASSUME OutdatedInv, [Next]_vars,
           UNCHANGED <<held, cur, step, disturbed, payloadVars>>
    PROVE  OutdatedInv'
BY EnrichedStays, OutdatedKept DEF Unsent, DP!Holds

LEMMA OutdatedStep ==
    ASSUME TypeInv, DP!TypeOK, DP!ClaimInv, OutdatedInv, [PipelineNext]_pipelineVars
    PROVE  OutdatedInv'
<1>1. [Next]_vars
  BY StepOfIngest
<1>2. CASE \E t \in Tasks : FanOutCommit(t) \/ FanOutAnswerLost(t)
  BY <1>1, <1>2, OutdatedIngest DEF FanOutCommit, FanOutAnswerLost, FansOut, D!Insert,
     D!workerVars, D!historyVars
<1>3. CASE IngestStep \/ \E s \in Subs : SubscriberFlips(s)
  BY <1>1, <1>3, OutdatedIngest DEF IngestStep, Apart, deliveryVars, SubscriberFlips,
     D!FlipSubscriber, D!workerVars
<1>4. CASE DeliveryStep
  BY <1>4, OutdatedClaim, OutdatedPost, OutdatedOther DEF DeliveryStep
<1>5. CASE UNCHANGED pipelineVars
  BY <1>1, <1>5, OutdatedIngest DEF pipelineVars, deliveryVars
<1> QED BY <1>2, <1>3, <1>4, <1>5 DEF PipelineNext

THEOREM OutdatedInvariant == PipelineSpec => []OutdatedInv
<1>1. TypeInv /\ JointInv /\ DP!ClaimInv /\ OutdatedInv /\ [PipelineNext]_pipelineVars
          => OutdatedInv'
  BY OutdatedStep DEF JointInv
<1>2. PipelineSpec => []DP!ClaimInv
  BY Constants, DeliveryTheoremsApply, DP!ClaimInvariant, PTL
<1> QED BY <1>1, <1>2, OutdatedInit, ImplementsIngest, TypeInvariant, JointInvariant,
        PTL DEF PipelineSpec

\* worker.py:120, the payload of the object loaded with the claim: at most one
\* POST of a row carries the raw payload of an event that is enriched already.
THEOREM OneOutdatedPostAlways == PipelineSpec => []OneOutdatedPost
<1>1. OutdatedInv => OneOutdatedPost
  BY DEF OutdatedInv, OneOutdatedPost
<1> QED BY <1>1, OutdatedInvariant, PTL

\* Both sides keep their types over the shared database, and a worker loads
\* payloads of events only.
THEOREM PipelineTypeCorrect == PipelineSpec => []PipelineTypeOK
<1>1. TypeOK /\ JointInv /\ OutdatedInv => PipelineTypeOK
  BY DEF JointInv, OutdatedInv, PipelineTypeOK, D!TypeOK, DP!TypeOK, D!RowStatuses, DP!RowStatuses
<1> QED BY <1>1, ImplementsIngest, TypeCorrect, JointInvariant, OutdatedInvariant, PTL

-----------------------------------------------------------------------------
(* The fan-out *)

\* The fan-out of an event and the rows that are there.
RowsMatch ==
    \A m \in Ids, s \in Subs : dstatus[<<m, s>>] # "none" <=> s \in attempts[m]

LEMMA RowsMatchInit == PipelineInit => RowsMatch
BY DEF PipelineInit, Init, SharedInit, D!Init, RowsMatch, Rows

LEMMA RowsMatchStep ==
    ASSUME TypeInv, OwnerInv, JointInv, RowsMatch, [PipelineNext]_pipelineVars
    PROVE  RowsMatch'
<1>1. ASSUME NEW t \in Tasks, FanOutCommit(t) \/ FanOutAnswerLost(t)
      PROVE  RowsMatch'
  <2>1. /\ stage[t] = "selected"
        /\ attempts' = [attempts EXCEPT ![mid[t]] = picked[t]]
        /\ dstatus' = [d \in Rows |-> IF d \in FanOut(t) THEN "pending" ELSE dstatus[d]]
    BY <1>1 DEF FanOutCommit, FanOutAnswerLost, FansOut, Commit, CommitAnswerLost, CommitRows, D!Insert
  <2>2. /\ mid[t] \in Ids /\ picked[t] \in SUBSET Subs
        /\ status[mid[t]] = "none" /\ attempts \in [Ids -> SUBSET Subs]
    BY <2>1 DEF TypeInv, TypeOK, SharedTypeOK, ConsumerTypeOK, MidOK, OwnerInv, Uncommitted
  <2>3. \A s \in Subs : <<mid[t], s>> \in Rows /\ dstatus[<<mid[t], s>>] = "none"
    BY <2>2 DEF JointInv, RowsAccepted, Rows
  <2> QED BY <2>1, <2>2, <2>3 DEF RowsMatch, FanOut, Rows
<1>2. CASE IngestStep \/ \E s \in Subs : SubscriberFlips(s)
  BY <1>2 DEF RowsMatch, IngestStep, Apart, deliveryVars, SubscriberFlips, FlipSubscriber,
     D!FlipSubscriber, D!rowVars
<1>3. CASE DeliveryStep
  <2>1. \A d \in Rows : dstatus'[d] = "none" <=> dstatus[d] = "none"
    BY <1>3, Constants, DeliveryStepIsRowStep, DP!RowsStay DEF JointInv, DP!vars, DP!rowVars
  <2>2. UNCHANGED attempts
    BY <1>3 DEF DeliveryStep, ClaimWithPayload, PostPayload, vars, sharedVars
  <2> QED BY <2>1, <2>2 DEF RowsMatch, Rows
<1>4. CASE UNCHANGED pipelineVars
  BY <1>4 DEF pipelineVars, deliveryVars, vars, sharedVars, RowsMatch
<1> QED BY <1>1, <1>2, <1>3, <1>4 DEF PipelineNext

THEOREM RowsMatchInvariant == PipelineSpec => []RowsMatch
<1>1. TypeInv /\ OwnerInv /\ JointInv /\ RowsMatch /\ [PipelineNext]_pipelineVars => RowsMatch'
  BY RowsMatchStep
<1> QED BY <1>1, RowsMatchInit, ImplementsIngest, TypeInvariant, OwnerInvariant, JointInvariant,
        PTL DEF PipelineSpec

\* handle_message, one transaction for the key and the delivery rows, and an ack
\* after it: a published event is in the broker, rejected, or accepted together
\* with each delivery of its fan-out, and there is no delivery beyond it.
THEOREM NothingFallsBetweenAlways == PipelineSpec => []NothingFallsBetween
<1>1. NoSilentLoss /\ JointInv /\ RowsMatch => NothingFallsBetween
  <2>1. ASSUME JointInv, RowsMatch, NEW m \in Ids, NEW s \in Subs
        PROVE  dstatus[<<m, s>>] # "none" <=> status[m] # "none" /\ s \in attempts[m]
    <3>1. <<m, s>> \in Rows
      BY DEF Rows
    <3>2. dstatus[<<m, s>>] # "none" => status[m] # "none"
      BY <2>1, <3>1 DEF JointInv, RowsAccepted
    <3> QED BY <2>1, <3>2 DEF RowsMatch
  <2> QED BY <2>1 DEF NoSilentLoss, NothingFallsBetween
<1> QED BY <1>1, ImplementsIngest, NoSilentLossAlways, JointInvariant, RowsMatchInvariant, PTL

-----------------------------------------------------------------------------
(* What the two sides promise, end to end *)

\* The tables of the whole service change as EventLedger and DeliveryLedger say,
\* each on its side.
THEOREM BothLedgers == PipelineSpec => ImplementsLedger /\ DP!ImplementsLedger
BY Constants, ImplementsIngest, LedgerRefinement, DeliveryTheoremsApply, DP!LedgerRefinement, PTL

\* A delivery that is 'delivered' belongs to an accepted event and to a subscriber
\* of its fan-out, whose 2xx was heard: exactly one of them if the row was not
\* disturbed and the delivery side had no fault.
Arrived ==
    \A m \in Ids, s \in Subs : dstatus[<<m, s>>] = "delivered" =>
        /\ status[m] # "none" /\ s \in attempts[m]
        /\ acked[<<m, s>>] > unheard[<<m, s>>]
        /\ <<m, s>> \notin disturbed /\ dfaults = 0 =>
               acked[<<m, s>>] = 1 + unheard[<<m, s>>]

THEOREM ArrivedAlways == PipelineSpec => []Arrived
<1>1. JointInv /\ RowsMatch /\ DP!HeardOnce => Arrived
  BY DEF JointInv, RowsAccepted, RowsMatch, DP!HeardOnce, Arrived, Rows
<1>2. PipelineSpec => []DP!HeardOnce
  BY Constants, DeliveryTheoremsApply, DP!HeardOnceAlways, PTL
<1> QED BY <1>1, <1>2, JointInvariant, RowsMatchInvariant, PTL
=============================================================================
