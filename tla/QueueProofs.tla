---------------------------- MODULE QueueProofs ----------------------------
(***************************************************************************)
(* What Ingest says about messages: none that the API published is lost    *)
(* without a trace, no counted reconciler cycle is without a message, and  *)
(* messages without message_id make no more rows than faults pay for.      *)
(***************************************************************************)
EXTENDS IngestProofs, FiniteSetTheorems

USE IngestAssumption, ConsumerAssumption, ReconcilerAssumption

-----------------------------------------------------------------------------
(* Counting *)

Earned(m) == rcount[m] <= reenqueued[m] /\ \A p \in Consumers : loaded[p][m] <= reenqueued[m]

\* Marked for abandonment in a session, or committed.
GivenUp(m) == status[m] = "failed" \/ \E p \in Consumers : m \in abandoned[p]

CountInv == \A m \in Ids : Earned(m) /\ (GivenUp(m) => reenqueued[m] >= MaxAttempts)

LEMMA CountInit == Init => CountInv
BY DEF Init, SharedInit, ReconcilerInit, CountInv, Earned, GivenUp

LEMMA CountConsumer ==
    ASSUME CountInv, ConsumerNext, UNCHANGED reconcilerVars, TypeInv
    PROVE  CountInv'
<1>1. ASSUME NEW t \in Tasks, TaskStep(t) \/ TaskFault(t)
      PROVE  /\ UNCHANGED <<rcount, reenqueued>>
             /\ \A m \in Ids : status'[m] = "failed" => status[m] = "failed"
  BY <1>1
     DEF TaskStep, TaskFault, DiscardJunk, Deliver, InsertKey, SkipDuplicate,
         SelectSubscribers, Commit, Ack, AckRaises, EnrichGivesUp, EnrichFatal,
         EnrichSucceeds, RecordFatal, PersistEnrichment, TransactionFails,
         CommitAnswerLost, SessionFails, CommitRows, keyVars, queueVars, sharedVars,
         TypeInv, TypeOK, SharedTypeOK
<1>2. /\ UNCHANGED <<rcount, reenqueued>>
      /\ \A m \in Ids : status'[m] = "failed" => status[m] = "failed"
  BY <1>1 DEF ConsumerNext, ConnectionLost, BrokerRestart, keyVars, queueVars
<1> QED BY <1>2 DEF CountInv, Earned, GivenUp, reconcilerVars

LEMMA CountReconciler ==
    ASSUME CountInv, ReconcilerNext, UNCHANGED taskVars, TypeInv
    PROVE  CountInv'
<1> USE DEF TypeInv, TypeOK, SharedTypeOK, ReconcilerTypeOK, CountInv, Earned, GivenUp,
            cycleVars, queueVars, keyVars, sharedVars
<1>1. ASSUME NEW m \in Ids, RowAges(m)
      PROVE  CountInv'
  BY <1>1 DEF RowAges
<1>2. ASSUME NEW p \in Consumers, LoadStale(p)
      PROVE  CountInv'
  <2>1. PICK S \in SUBSET Ids :
           loaded' = [loaded EXCEPT ![p] = [m \in Ids |-> IF m \in S THEN rcount[m] ELSE 0]]
    <3>1. Batches \subseteq SUBSET Ids
      BY DEF Batches, Candidates
    <3> QED BY ONLY <1>2, <3>1 DEF LoadStale
  <2> QED BY <1>2, <2>1 DEF LoadStale
<1>3. ASSUME NEW p \in Consumers, CommitCycle(p)
      PROVE  CountInv'
  BY <1>3 DEF CommitCycle, Sleep
<1>4. ASSUME NEW p \in Consumers, CycleFails(p)
      PROVE  CountInv'
  BY <1>4 DEF CycleFails, Sleep
<1>5. ASSUME NEW p \in Consumers, NEW m \in Ids, GiveUp(p, m)
      PROVE  CountInv'
  BY <1>5 DEF GiveUp, Exhausted
<1>6. ASSUME NEW p \in Consumers, NEW m \in Ids, Republish(p, m)
      PROVE  CountInv'
  BY <1>6 DEF Republish
<1>7. ASSUME NEW p \in Consumers, NEW m \in Ids, PublishTimesOut(p, m)
      PROVE  CountInv'
  <2>1. UNCHANGED <<status, rcount, loaded, abandoned>>
    BY <1>7 DEF PublishTimesOut
  <2>2. \A k \in Ids : reenqueued'[k] \in Nat /\ reenqueued'[k] >= reenqueued[k]
    BY <1>7 DEF PublishTimesOut
  <2>3. \A k \in Ids : Earned(k)'
    BY <2>1, <2>2
  <2>4. \A k \in Ids : GivenUp(k)' => reenqueued'[k] >= MaxAttempts
    BY <2>1, <2>2, IngestAssumption, ReconcilerAssumption
  <2> QED BY <2>3, <2>4
<1> QED BY <1>1, <1>2, <1>3, <1>4, <1>5, <1>6, <1>7 DEF ReconcilerNext

LEMMA CountOthers ==
    ASSUME CountInv, TypeInv,
           \/ Surroundings /\ UNCHANGED <<taskVars, reconcilerVars>>
           \/ \E p \in Consumers : Crash(p)
           \/ UNCHANGED vars
    PROVE  CountInv'
<1> USE DEF CountInv, Earned, GivenUp, TypeInv, TypeOK, SharedTypeOK, ReconcilerTypeOK
<1>1. CASE Surroundings /\ UNCHANGED <<taskVars, reconcilerVars>>
  BY <1>1 DEF Surroundings, Publish, FlipSubscriber, keyVars, queueVars, reconcilerVars
<1>2. ASSUME NEW p \in Consumers, Crash(p)
      PROVE  CountInv'
  BY <1>2 DEF Crash, Sleep, keyVars, queueVars
<1>3. CASE UNCHANGED vars
  BY <1>3 DEF vars, sharedVars, reconcilerVars
<1> QED BY <1>1, <1>2, <1>3

THEOREM CountInvariant == Spec => []CountInv
<1>1. TypeInv /\ CountInv /\ [Next]_vars => CountInv'
  BY CountConsumer, CountReconciler, CountOthers DEF Next
<1> QED BY CountInit, TypeInvariant, <1>1, PTL DEF Spec

\* _reconciler: crashes, timeouts and reconcilers that overwrite each other's
\* count never make reconcile_count exceed the messages really re-enqueued.
THEOREM CountIsEarnedAlways == Spec => []CountIsEarned
<1>1. CountInv => CountIsEarned
  BY DEF CountInv, Earned, CountIsEarned
<1> QED BY CountInvariant, <1>1, PTL

\* _reconciler: a row is 'failed' only after reconciler_max_attempts messages.
THEOREM AbandonedAfterCapAlways == Spec => []AbandonedAfterCap
<1>1. CountInv => AbandonedAfterCap
  BY DEF CountInv, GivenUp, AbandonedAfterCap
<1> QED BY CountInvariant, <1>1, PTL

-----------------------------------------------------------------------------
(* The cap, with one consumer process *)

\* reconcile_count as the next commit of p leaves it.
Counted(p, m) == IF m \in bumped[p] THEN loaded[p][m] ELSE rcount[m]

\* If p is the only reconciler, the count it has loaded is still right, and a
\* message that is not counted is the price of a fault.
CapInv(p) ==
    /\ p \notin awake => todo[p] = {} /\ bumped[p] = {}
    /\ \A m \in Ids :
          /\ reenqueued[m] <= Counted(p, m) + faults
          /\ m \in todo[p] => loaded[p][m] = rcount[m] /\ m \notin bumped[p]
          /\ m \in bumped[p] => loaded[p][m] = rcount[m] + 1

LEMMA CapInit == ASSUME NEW p \in Consumers, Init PROVE CapInv(p)
BY DEF Init, SharedInit, ReconcilerInit, CapInv, Counted

\* A cycle that ends without its commit has published each row once at most.
LEMMA CapLost ==
    ASSUME TypeInv, NEW p \in Consumers, CapInv(p), Sleep(p), Fault,
           UNCHANGED <<rcount, reenqueued>>
    PROVE  CapInv(p)'
<1> USE DEF TypeInv, TypeOK, SharedTypeOK, ReconcilerTypeOK
<1>1. todo'[p] = {} /\ bumped'[p] = {} /\ faults' = faults + 1
  BY DEF Sleep, Fault
<1>2. ASSUME NEW m \in Ids
      PROVE  reenqueued[m] <= rcount[m] + (faults + 1)
  <2>1. CASE m \in bumped[p]
    BY <2>1 DEF CapInv, Counted
  <2>2. CASE m \notin bumped[p]
    BY <2>2 DEF CapInv, Counted
  <2> QED BY <2>1, <2>2
<1> QED BY <1>1, <1>2 DEF CapInv, Counted

LEMMA CapConsumer ==
    ASSUME TypeInv, NEW p \in Consumers, CapInv(p), ConsumerNext, UNCHANGED reconcilerVars
    PROVE  CapInv(p)'
<1>1. ASSUME NEW t \in Tasks, TaskStep(t) \/ TaskFault(t)
      PROVE  UNCHANGED <<rcount, reenqueued>> /\ (UNCHANGED faults \/ Fault)
  BY <1>1
     DEF TaskStep, TaskFault, DiscardJunk, Deliver, InsertKey, SkipDuplicate,
         SelectSubscribers, Commit, Ack, AckRaises, EnrichGivesUp, EnrichFatal,
         EnrichSucceeds, RecordFatal, PersistEnrichment, TransactionFails,
         CommitAnswerLost, SessionFails, keyVars, queueVars, sharedVars
<1>2. UNCHANGED <<rcount, reenqueued>> /\ (UNCHANGED faults \/ Fault)
  BY <1>1 DEF ConsumerNext, ConnectionLost, BrokerRestart, keyVars, queueVars
<1> QED BY <1>2 DEF CapInv, Counted, Fault, reconcilerVars, TypeInv, TypeOK, SharedTypeOK,
             ReconcilerTypeOK

LEMMA CapReconciler ==
    ASSUME TypeInv, NEW p \in Consumers, Consumers = {p}, CapInv(p), ReconcilerNext
    PROVE  CapInv(p)'
<1> USE DEF TypeInv, TypeOK, SharedTypeOK, ReconcilerTypeOK, CapInv, Counted,
            cycleVars, queueVars, keyVars, sharedVars
<1>1. ASSUME NEW m \in Ids, RowAges(m)
      PROVE  CapInv(p)'
  BY <1>1 DEF RowAges
<1>2. CASE LoadStale(p)
  <2>1. PICK S \in SUBSET Ids :
           /\ todo' = [todo EXCEPT ![p] = S]
           /\ loaded' = [loaded EXCEPT ![p] = [m \in Ids |-> IF m \in S THEN rcount[m] ELSE 0]]
    <3>1. Batches \subseteq SUBSET Ids
      BY DEF Batches, Candidates
    <3> QED BY ONLY <1>2, <3>1 DEF LoadStale
  <2>2. p \notin awake /\ awake' = awake \cup {p} /\ UNCHANGED <<rcount, reenqueued, faults, bumped>>
    BY <1>2 DEF LoadStale
  <2> QED BY <2>1, <2>2
<1>3. CASE CommitCycle(p)
  <2>1. /\ rcount' = [m \in Ids |-> IF m \in bumped[p] THEN loaded[p][m] ELSE rcount[m]]
        /\ Sleep(p) /\ UNCHANGED <<reenqueued, faults>>
    BY <1>3 DEF CommitCycle
  <2> QED BY <2>1 DEF Sleep
<1>4. CASE CycleFails(p)
  BY <1>4, CapLost DEF CycleFails
<1>5. ASSUME NEW m \in Ids, GiveUp(p, m)
      PROVE  CapInv(p)'
  BY <1>5 DEF GiveUp, Visited
<1>6. ASSUME NEW m \in Ids, Republish(p, m)
      PROVE  CapInv(p)'
  BY <1>6 DEF Republish, Visited
<1>7. ASSUME NEW m \in Ids, PublishTimesOut(p, m)
      PROVE  CapInv(p)'
  <2>1. /\ todo' = [todo EXCEPT ![p] = @ \ {m}] /\ faults' = faults + 1
        /\ UNCHANGED <<rcount, loaded, bumped, awake>>
    BY <1>7 DEF PublishTimesOut, Visited, Fault
  <2>2. p \in awake
    BY <1>7 DEF PublishTimesOut
  <2>3. \A k \in Ids : reenqueued'[k] <= reenqueued[k] + 1 /\ reenqueued'[k] \in Nat
    BY <1>7 DEF PublishTimesOut
  <2> QED BY <2>1, <2>2, <2>3
<1> QED BY <1>1, <1>2, <1>3, <1>4, <1>5, <1>6, <1>7 DEF ReconcilerNext

LEMMA CapOthers ==
    ASSUME TypeInv, NEW p \in Consumers, Consumers = {p}, CapInv(p),
           \/ Surroundings /\ UNCHANGED <<taskVars, reconcilerVars>>
           \/ Crash(p)
           \/ UNCHANGED vars
    PROVE  CapInv(p)'
<1>1. CASE Surroundings /\ UNCHANGED <<taskVars, reconcilerVars>>
  BY <1>1 DEF Surroundings, Publish, FlipSubscriber, keyVars, queueVars, reconcilerVars,
     CapInv, Counted
<1>2. CASE Crash(p)
  BY <1>2, CapLost DEF Crash, keyVars, queueVars
<1>3. CASE UNCHANGED vars
  BY <1>3 DEF vars, sharedVars, reconcilerVars, CapInv, Counted
<1> QED BY <1>1, <1>2, <1>3

\* rabbitmq.py:221, with one consumer process: a row is re-enqueued at most
\* reconciler_max_attempts times, and once more for each fault.  (Two processes
\* write reconcile_count back over each other's, and no such bound holds.)
CapHolds == \A m \in Ids : reenqueued[m] <= MaxAttempts + faults

THEOREM CapHoldsAlways ==
    ASSUME NEW p \in Consumers, Consumers = {p}
    PROVE  Spec => []CapHolds
<1>1. TypeInv /\ CapInv(p) /\ [Next]_vars => CapInv(p)'
  BY CapConsumer, CapReconciler, CapOthers DEF Next
<1>2. TypeInv /\ CapInv(p) => CapHolds
  BY DEF CapInv, Counted, CapHolds, TypeInv, TypeOK, SharedTypeOK, ReconcilerTypeOK
<1> QED BY <1>1, <1>2, CapInit, TypeInvariant, PTL DEF Spec

-----------------------------------------------------------------------------
(* Messages *)

\* A task can ack only up to its ack, and then only its own message.
Carries ==
    \A t \in Tasks : copy[t] # Nil =>
        /\ stage[t] \in {"delivered", "inserted", "selected", "committed"}
        /\ slot[copy[t]] \in Ids => slot[copy[t]] = mid[t]

\* Where a message of the API can be, whatever happens to the broker.
Kept(m) ==
    \/ \E c \in Copies \ volatile : slot[c] = m
    \/ status[m] # "none"
    \/ m \in rejected

QueueInv ==
    /\ Carries
    /\ \A c \in volatile : slot[c] # Nil
    /\ \A m \in Ids : sent[m] > 0 => Kept(m)

LEMMA QueueInit == Init => QueueInv
BY DEF Init, SharedInit, ConsumerInit, QueueInv, Carries, Bodies

LEMMA QueueConsumer ==
    ASSUME TypeInv, OwnerInv, QueueInv, ConsumerNext, UNCHANGED reconcilerVars
    PROVE  QueueInv'
<1> USE DEF TypeInv, TypeOK, SharedTypeOK, ConsumerTypeOK, MidOK, CopyOK, OwnerInv, Committed,
            CommittedStages, OwnerStages, Stages, QueueInv, Carries, Kept, taskVars, queueVars,
            keyVars, sharedVars
<1>1. ASSUME NEW t \in Tasks, TaskStep(t) \/ TaskFault(t)
      PROVE  QueueInv'
  <2>1. CASE DiscardJunk(t)
    BY <2>1 DEF DiscardJunk, Ready
  <2>2. CASE Deliver(t)
    <3>1. PICK c \in Copies :
             /\ Ready(c) /\ slot[c] # Junk
             /\ \E m \in MessageIds(slot[c]) : mid' = [mid EXCEPT ![t] = m]
             /\ Take(t, c)
      BY <2>2 DEF Deliver
    <3>2. PICK m \in MessageIds(slot[c]) : mid' = [mid EXCEPT ![t] = m]
      BY <3>1
    <3>3. slot[c] \in Ids => slot[c] = m
      BY <3>2 DEF MessageIds
    <3> QED BY <2>2, <3>1, <3>2, <3>3 DEF Deliver, Take, Goto, Ready
  <2>3. CASE InsertKey(t)
    BY <2>3 DEF InsertKey, Goto
  <2>4. CASE SkipDuplicate(t)
    BY <2>4 DEF SkipDuplicate, Settle, End, Goto, IsNew
  <2>5. CASE SelectSubscribers(t)
    BY <2>5 DEF SelectSubscribers, Goto
  <2>6. CASE Commit(t)
    BY <2>6 DEF Commit, CommitRows, Goto
  <2>7. CASE Ack(t)
    BY <2>7 DEF Ack, Settle, Goto
  <2>8. CASE AckRaises(t)
    BY <2>8 DEF AckRaises, End, Goto
  <2>9. CASE EnrichGivesUp(t)
    BY <2>9 DEF EnrichGivesUp, End, Goto
  <2>10. CASE EnrichFatal(t)
    BY <2>10 DEF EnrichFatal, Goto
  <2>11. CASE EnrichSucceeds(t)
    BY <2>11 DEF EnrichSucceeds, Goto
  <2>12. CASE RecordFatal(t)
    BY <2>12 DEF RecordFatal, End, Goto
  <2>13. CASE PersistEnrichment(t)
    BY <2>13 DEF PersistEnrichment, End, Goto
  <2>14. CASE TransactionFails(t)
    BY <2>14 DEF TransactionFails, Settle, End, Goto
  <2>15. CASE CommitAnswerLost(t)
    BY <2>15 DEF CommitAnswerLost, CommitRows, Settle, End, Goto
  <2>16. CASE SessionFails(t)
    BY <2>16 DEF SessionFails, End, Goto
  <2> QED BY <1>1, <2>1, <2>2, <2>3, <2>4, <2>5, <2>6, <2>7, <2>8, <2>9, <2>10, <2>11, <2>12, <2>13, <2>14, <2>15, <2>16 DEF TaskStep, TaskFault
<1>2. ASSUME NEW p \in Consumers, ConnectionLost(p)
      PROVE  QueueInv'
  BY <1>2 DEF ConnectionLost
<1>3. CASE BrokerRestart
  BY <1>3 DEF BrokerRestart
<1> QED BY <1>1, <1>2, <1>3 DEF ConsumerNext

LEMMA QueueReconciler ==
    ASSUME TypeInv, OwnerInv, QueueInv, ReconcilerNext, UNCHANGED taskVars
    PROVE  QueueInv'
<1> USE DEF TypeInv, TypeOK, SharedTypeOK, ConsumerTypeOK, CopyOK, QueueInv, Carries, Kept,
            taskVars, queueVars, keyVars, sharedVars, cycleVars
<1>1. ASSUME NEW m \in Ids, EnqueueVolatile(m), UNCHANGED <<status, sent, rejected>>
      PROVE  QueueInv'
  <2>1. PICK c \in Copies : Store(m, c) /\ volatile' = volatile \cup {c}
    BY <1>1 DEF EnqueueVolatile
  <2>2. m # Nil
    OBVIOUS
  <2> QED BY <1>1, <2>1, <2>2 DEF Store
<1>2. ASSUME NEW p \in Consumers, CommitCycle(p)
      PROVE  QueueInv'
  <2>1. \A m \in Ids : status[m] # "none" => status'[m] # "none"
    BY <1>2 DEF CommitCycle
  <2> QED BY <1>2, <2>1 DEF CommitCycle
<1>3. CASE UNCHANGED <<slot, volatile, status, sent, rejected>>
  BY <1>3
<1> QED BY <1>1, <1>2, <1>3
        DEF ReconcilerNext, RowAges, LoadStale, CycleFails, GiveUp, Republish, PublishTimesOut

LEMMA QueueOthers ==
    ASSUME TypeInv, QueueInv,
           \/ Surroundings /\ UNCHANGED <<taskVars, reconcilerVars>>
           \/ \E p \in Consumers : Crash(p)
           \/ UNCHANGED vars
    PROVE  QueueInv'
<1> USE DEF TypeInv, TypeOK, SharedTypeOK, ConsumerTypeOK, CopyOK, QueueInv, Carries, Kept,
            taskVars, queueVars, keyVars
<1>1. ASSUME NEW b \in Published, Publish(b), UNCHANGED taskVars
      PROVE  QueueInv'
  <2>1. PICK c \in Copies :
           /\ Store(b, c)
           /\ \/ UNCHANGED volatile
              \/ b \notin Ids /\ volatile' = volatile \cup {c}
    BY <1>1 DEF Publish, EnqueuePersistent, EnqueueVolatile
  <2>2. b \in Bodies /\ b # Nil /\ c \notin volatile
    BY <2>1 DEF Bodies, Store
  <2>3. Carries' /\ \A k \in volatile' : slot'[k] # Nil
    BY <1>1, <2>1, <2>2 DEF Store
  <2>4. \A m \in Ids : sent'[m] > 0 => sent[m] > 0 \/ m = b
    BY <1>1, <2>2 DEF Publish, Bodies
  <2>5. \A m \in Ids : Kept(m) => Kept(m)'
    BY <1>1, <2>1, <2>2 DEF Store, Publish
  <2>6. b \in Ids => Kept(b)'
    BY <2>1, <2>2 DEF Store
  <2> QED BY <2>3, <2>4, <2>5, <2>6
<1>2. ASSUME NEW s \in Subs, FlipSubscriber(s), UNCHANGED taskVars
      PROVE  QueueInv'
  BY <1>2 DEF FlipSubscriber
<1>3. ASSUME NEW p \in Consumers, Crash(p)
      PROVE  QueueInv'
  BY <1>3 DEF Crash
<1>4. CASE UNCHANGED vars
  BY <1>4 DEF vars, sharedVars
<1> QED BY <1>1, <1>2, <1>3, <1>4 DEF Surroundings

THEOREM QueueInvariant == Spec => []QueueInv
<1>1. TypeInv /\ OwnerInv /\ QueueInv /\ [Next]_vars => QueueInv'
  BY QueueConsumer, QueueReconciler, QueueOthers DEF Next
<1> QED BY QueueInit, TypeInvariant, OwnerInvariant, <1>1, PTL DEF Spec

\* handle_message: acking before the enrichment loses no message of the API.
\* It is in the broker until its row and delivery attempts are committed,
\* unless its transaction failed and process() rejected it.
THEOREM NoSilentLossAlways == Spec => []NoSilentLoss
<1>1. QueueInv => NoSilentLoss
  BY DEF QueueInv, Kept, NoSilentLoss
<1> QED BY QueueInvariant, <1>1, PTL
-----------------------------------------------------------------------------
(* Messages without message_id, and the rows they make *)

\* An id of uuid4 is on the queue only when the reconciler put it there, for a
\* row; and an id that has no row yet is one task's, which took it for a body
\* without message_id.
ReuseOK == \A c \in Copies : slot[c] \in Uuids => status[slot[c]] # "none"
FreshOK ==
    \A t \in Tasks : mid[t] \in Uuids /\ status[mid[t]] = "none" =>
        /\ \A u \in Tasks : mid[u] = mid[t] => u = t
        /\ copy[t] # Nil => slot[copy[t]] = Anon

NamelessInv == ReuseOK /\ FreshOK

LEMMA NamelessInit == Init => NamelessInv
BY IngestAssumption DEF Init, SharedInit, ConsumerInit, NamelessInv, ReuseOK, FreshOK

LEMMA NamelessConsumer ==
    ASSUME TypeInv, OwnerInv, QueueInv, NamelessInv, ConsumerNext, UNCHANGED reconcilerVars
    PROVE  NamelessInv'
<1> USE DEF TypeInv, TypeOK, SharedTypeOK, ConsumerTypeOK, MidOK, CopyOK, OwnerInv, Committed,
            CommittedStages, OwnerStages, Stages, QueueInv, Carries, taskVars, queueVars,
            keyVars, sharedVars, NamelessInv, ReuseOK, FreshOK
<1>1. ASSUME NEW t \in Tasks, TaskStep(t) \/ TaskFault(t)
      PROVE  NamelessInv'
  <2>1. CASE DiscardJunk(t)
    BY <2>1 DEF DiscardJunk, Ready
  <2>2. CASE Deliver(t)
    <3>1. PICK c \in Copies :
             /\ Ready(c) /\ slot[c] # Junk
             /\ \E m \in MessageIds(slot[c]) : mid' = [mid EXCEPT ![t] = m]
             /\ Take(t, c)
      BY <2>2 DEF Deliver
    <3>2. PICK m \in MessageIds(slot[c]) : mid' = [mid EXCEPT ![t] = m]
      BY <3>1
    <3>3. m \in Uuids /\ status[m] = "none" => slot[c] = Anon /\ \A u \in Tasks : mid[u] # m
      BY <3>2 DEF MessageIds
    <3>4. UNCHANGED <<slot, status>> /\ copy' = [copy EXCEPT ![t] = c]
      BY <2>2, <3>1 DEF Deliver, Take
    <3> QED BY <3>2, <3>3, <3>4
  <2>3. CASE InsertKey(t)
    BY <2>3 DEF InsertKey
  <2>4. CASE SkipDuplicate(t)
    BY <2>4 DEF SkipDuplicate, Settle, End
  <2>5. CASE SelectSubscribers(t)
    BY <2>5 DEF SelectSubscribers
  <2>6. CASE Commit(t)
    BY <2>6 DEF Commit, CommitRows
  <2>7. CASE Ack(t)
    BY <2>7 DEF Ack, Settle
  <2>8. CASE AckRaises(t) \/ EnrichGivesUp(t)
    BY <2>8 DEF AckRaises, EnrichGivesUp, End
  <2>9. CASE EnrichFatal(t) \/ EnrichSucceeds(t)
    BY <2>9 DEF EnrichFatal, EnrichSucceeds
  <2>10. CASE RecordFatal(t) \/ SessionFails(t)
    BY <2>10 DEF RecordFatal, SessionFails, End
  <2>11. CASE PersistEnrichment(t)
    BY <2>11 DEF PersistEnrichment, End
  <2>12. CASE TransactionFails(t)
    BY <2>12 DEF TransactionFails, Settle, End
  <2>13. CASE CommitAnswerLost(t)
    BY <2>13 DEF CommitAnswerLost, CommitRows, Settle, End
  <2> QED BY <1>1, <2>1, <2>2, <2>3, <2>4, <2>5, <2>6, <2>7, <2>8, <2>9, <2>10, <2>11, <2>12, <2>13 DEF TaskStep, TaskFault
<1>2. ASSUME NEW p \in Consumers, ConnectionLost(p)
      PROVE  NamelessInv'
  BY <1>2 DEF ConnectionLost
<1>3. CASE BrokerRestart
  BY <1>3 DEF BrokerRestart
<1> QED BY <1>1, <1>2, <1>3 DEF ConsumerNext

LEMMA NamelessReconciler ==
    ASSUME TypeInv, OwnerInv, QueueInv, NamelessInv, ReconcilerNext, UNCHANGED taskVars
    PROVE  NamelessInv'
<1> USE DEF TypeInv, TypeOK, SharedTypeOK, ConsumerTypeOK, CopyOK,
            taskVars, queueVars, keyVars, sharedVars, cycleVars, NamelessInv, ReuseOK, FreshOK
<1>1. ASSUME NEW m \in Ids, EnqueueVolatile(m), UNCHANGED status, status[m] # "none"
      PROVE  NamelessInv'
  BY <1>1 DEF EnqueueVolatile, Store
<1>2. ASSUME NEW p \in Consumers, NEW m \in Ids, Republish(p, m) \/ PublishTimesOut(p, m)
      PROVE  NamelessInv'
  <2>1. status[m] # "none"
    BY <1>2 DEF Republish, PublishTimesOut, OwnerInv, CycleRows
  <2>2. CASE EnqueueVolatile(m)
    BY <1>1, <1>2, <2>1, <2>2 DEF Republish, PublishTimesOut
  <2>3. CASE UNCHANGED slot
    BY <1>2, <2>3 DEF Republish, PublishTimesOut
  <2> QED BY <1>2, <2>2, <2>3 DEF Republish, PublishTimesOut
<1>3. ASSUME NEW p \in Consumers, CommitCycle(p)
      PROVE  NamelessInv'
  <2>1. \A m \in Ids : status'[m] = "none" => status[m] = "none"
    BY <1>3 DEF CommitCycle
  <2>2. UNCHANGED slot
    BY <1>3 DEF CommitCycle
  <2> QED BY <2>1, <2>2, IngestAssumption
<1>4. CASE UNCHANGED <<slot, status>>
  BY <1>4
<1> QED BY <1>2, <1>3, <1>4 DEF ReconcilerNext, RowAges, LoadStale, CycleFails, GiveUp

LEMMA NamelessOthers ==
    ASSUME TypeInv, NamelessInv,
           \/ Surroundings /\ UNCHANGED <<taskVars, reconcilerVars>>
           \/ \E p \in Consumers : Crash(p)
           \/ UNCHANGED vars
    PROVE  NamelessInv'
<1> USE DEF TypeInv, TypeOK, SharedTypeOK, ConsumerTypeOK, CopyOK, taskVars, queueVars, keyVars,
            NamelessInv, ReuseOK, FreshOK
<1>1. ASSUME NEW b \in Published, Publish(b), UNCHANGED taskVars
      PROVE  NamelessInv'
  BY <1>1 DEF Publish, EnqueuePersistent, EnqueueVolatile, Store
<1>2. ASSUME NEW s \in Subs, FlipSubscriber(s), UNCHANGED taskVars
      PROVE  NamelessInv'
  BY <1>2 DEF FlipSubscriber
<1>3. ASSUME NEW p \in Consumers, Crash(p)
      PROVE  NamelessInv'
  BY <1>3 DEF Crash
<1>4. CASE UNCHANGED vars
  BY <1>4 DEF vars, sharedVars
<1> QED BY <1>1, <1>2, <1>3, <1>4 DEF Surroundings

THEOREM NamelessInvariant == Spec => []NamelessInv
<1>1. TypeInv /\ OwnerInv /\ QueueInv /\ NamelessInv /\ [Next]_vars => NamelessInv'
  BY NamelessConsumer, NamelessReconciler, NamelessOthers DEF Next
<1> QED BY NamelessInit, TypeInvariant, OwnerInvariant, QueueInvariant, <1>1, PTL DEF Spec

-----------------------------------------------------------------------------
(* What the rows of such messages cost *)

Unwritten == {"delivered", "inserted", "selected"}

\* A task that has lost its delivery and may still commit a row.
Stray(t) == copy[t] = Nil /\ stage[t] \in Unwritten

\* Ids that have a row, or may get one that no message pays for.
Charged == {m \in Uuids : status[m] # "none" \/ \E t \in Tasks : mid[t] = m /\ Stray(t)}

\* Messages without message_id on the queue, and those that may make a row
\* unless a fault returns them: their task has not committed.
Nameless == {c \in Copies : slot[c] = Anon}
Unspent == {c \in Nameless : \A t \in Tasks : copy[t] = c => stage[t] # "committed"}

\* What faults and messages pay for.
Allowed == sent[Anon] * (1 + faults)

ChargeInv ==
    /\ IsFiniteSet(Nameless) /\ Cardinality(Nameless) <= sent[Anon]
    /\ IsFiniteSet(Charged)
    /\ Cardinality(Charged) + Cardinality(Unspent) <= Allowed

\* A smaller set has a smaller cardinality.
LEMMA SubsetCard ==
    ASSUME NEW S, NEW T, IsFiniteSet(T), S \subseteq T
    PROVE  IsFiniteSet(S) /\ Cardinality(S) \in Nat /\ Cardinality(S) <= Cardinality(T)
BY FS_Subset, FS_CardinalityType

\* One more element adds one at most.
LEMMA GrownCard ==
    ASSUME NEW S, NEW T, NEW x, IsFiniteSet(T), S \subseteq T \cup {x}
    PROVE  IsFiniteSet(S) /\ Cardinality(S) <= Cardinality(T) + 1
<1>1. IsFiniteSet(T \cup {x}) /\ Cardinality(T \cup {x}) \in {Cardinality(T), Cardinality(T) + 1}
  BY FS_AddElement
<1>2. Cardinality(T) \in Nat
  BY FS_CardinalityType
<1>3. /\ IsFiniteSet(S) /\ Cardinality(S) \in Nat
      /\ Cardinality(S) <= Cardinality(T \cup {x})
  BY <1>1, SubsetCard
<1> QED BY <1>1, <1>2, <1>3

\* A set that maps into another without collisions adds its size at most.
LEMMA InjectedCard ==
    ASSUME NEW S, NEW T, NEW N, NEW U, IsFiniteSet(T), IsFiniteSet(U), S \subseteq T \cup N,
           NEW f \in [N -> U], \A x, y \in N : f[x] = f[y] => x = y
    PROVE  IsFiniteSet(S) /\ Cardinality(S) <= Cardinality(T) + Cardinality(U)
<1>1. f \in Injection(N, U)
  BY DEF Injection, IsInjective
<1>2. IsFiniteSet(N) /\ Cardinality(N) <= Cardinality(U)
  BY <1>1, FS_Injection
<1>3. IsFiniteSet(T \cup N) /\ IsFiniteSet(T \cap N)
  BY <1>2, FS_Union, FS_Intersection
<1>4. Cardinality(T \cup N) = Cardinality(T) + Cardinality(N) - Cardinality(T \cap N)
  BY <1>2, FS_Union
<1>5. /\ Cardinality(T) \in Nat /\ Cardinality(N) \in Nat /\ Cardinality(U) \in Nat
      /\ Cardinality(T \cap N) \in Nat
  BY <1>2, <1>3, FS_CardinalityType
<1>6. /\ IsFiniteSet(S) /\ Cardinality(S) \in Nat
      /\ Cardinality(S) <= Cardinality(T \cup N)
  BY <1>3, SubsetCard
<1> QED BY <1>2, <1>4, <1>5, <1>6

\* Publishing one more, or one more fault, raises what is allowed.
LEMMA AllowedGrows ==
    ASSUME TypeInv, faults' \in {faults, faults + 1}
    PROVE  /\ sent[Anon] \in Nat /\ Allowed \in Nat
           /\ sent'[Anon] = sent[Anon] => Allowed' \in Nat /\ Allowed' >= Allowed
           /\ sent'[Anon] = sent[Anon] /\ faults' = faults + 1 => Allowed' = Allowed + sent[Anon]
           /\ sent'[Anon] = sent[Anon] + 1 => Allowed' \in Nat /\ Allowed' >= Allowed + 1
<1>1. sent[Anon] \in Nat /\ faults \in Nat
  BY DEF TypeInv, TypeOK, SharedTypeOK, Bodies
<1>2. \A s, f \in Nat : /\ s * (1 + f) \in Nat
                        /\ (s + 1) * (1 + f) \in Nat
                        /\ (s + 1) * (1 + f) >= s * (1 + f) + 1
                        /\ s * (1 + (f + 1)) = s * (1 + f) + s
  <2>1. \A s, f \in Nat : s * (1 + f) \in Nat /\ (s + 1) * (1 + f) = s * (1 + f) + (1 + f)
    OBVIOUS
  <2>2. \A s, f \in Nat : s * (1 + (f + 1)) = s * (1 + f) + s
    OBVIOUS
  <2> QED BY <2>1, <2>2
<1>3. Allowed \in Nat
  BY <1>1, <1>2 DEF Allowed
<1>4. sent'[Anon] = sent[Anon] /\ UNCHANGED faults => Allowed' = Allowed
  BY DEF Allowed
<1>5. sent'[Anon] = sent[Anon] /\ faults' = faults + 1 => Allowed' = Allowed + sent[Anon]
  BY <1>1, <1>2 DEF Allowed
<1>6. sent'[Anon] = sent[Anon] + 1 => Allowed' \in Nat /\ Allowed' >= Allowed + 1
  BY <1>1, <1>2 DEF Allowed
<1> QED BY <1>1, <1>3, <1>4, <1>5, <1>6

\* Nothing is added.
LEMMA ChargeCalm ==
    ASSUME TypeInv, ChargeInv, sent'[Anon] = sent[Anon], faults' \in {faults, faults + 1},
           Charged' \subseteq Charged, Nameless' \subseteq Nameless, Unspent' \subseteq Unspent
    PROVE  ChargeInv'
<1>1. sent[Anon] \in Nat /\ Allowed \in Nat
  BY AllowedGrows
<1>2. IsFiniteSet(Unspent)
  BY SubsetCard DEF ChargeInv, Unspent
<1>3. /\ IsFiniteSet(Charged') /\ Cardinality(Charged') \in Nat
      /\ Cardinality(Charged') <= Cardinality(Charged)
  BY SubsetCard DEF ChargeInv
<1>4. /\ IsFiniteSet(Nameless') /\ Cardinality(Nameless') \in Nat
      /\ Cardinality(Nameless') <= Cardinality(Nameless)
  BY SubsetCard DEF ChargeInv
<1>5. Cardinality(Unspent') \in Nat /\ Cardinality(Unspent') <= Cardinality(Unspent)
  BY <1>2, SubsetCard
<1>6. Cardinality(Charged) \in Nat /\ Cardinality(Unspent) \in Nat /\ Cardinality(Nameless) \in Nat
  BY <1>2, FS_CardinalityType DEF ChargeInv
<1>7. Allowed' \in Nat /\ Allowed <= Allowed'
  BY AllowedGrows
<1>8. Cardinality(Charged') + Cardinality(Unspent') <= Allowed'
  BY <1>1, <1>3, <1>5, <1>6, <1>7 DEF ChargeInv
<1> QED BY <1>1, <1>3, <1>4, <1>6, <1>8 DEF ChargeInv

\* A message pays for one row.
LEMMA ChargePaid ==
    ASSUME TypeInv, ChargeInv, UNCHANGED sent, faults' \in {faults, faults + 1},
           NEW m, NEW c \in Unspent,
           Charged' \subseteq Charged \cup {m}, Nameless' \subseteq Nameless,
           Unspent' \subseteq Unspent \ {c}
    PROVE  ChargeInv'
<1>1. sent[Anon] \in Nat /\ Allowed \in Nat
  BY AllowedGrows
<1>2. IsFiniteSet(Unspent)
  BY SubsetCard DEF ChargeInv, Unspent
<1>3. IsFiniteSet(Charged') /\ Cardinality(Charged') <= Cardinality(Charged) + 1
  BY GrownCard DEF ChargeInv
<1>4. /\ IsFiniteSet(Nameless') /\ Cardinality(Nameless') \in Nat
      /\ Cardinality(Nameless') <= Cardinality(Nameless)
  BY SubsetCard DEF ChargeInv
<1>5. /\ Cardinality(Unspent') \in Nat
      /\ Cardinality(Unspent') <= Cardinality(Unspent) - 1
  <2>1. /\ IsFiniteSet(Unspent \ {c})
        /\ Cardinality(Unspent \ {c}) = Cardinality(Unspent) - 1
    BY <1>2, FS_RemoveElement
  <2> QED BY <2>1, SubsetCard
<1>6. /\ Cardinality(Charged) \in Nat /\ Cardinality(Charged') \in Nat
      /\ Cardinality(Unspent) \in Nat /\ Cardinality(Nameless) \in Nat
  BY <1>2, <1>3, FS_CardinalityType DEF ChargeInv
<1>7. Allowed' \in Nat /\ Allowed <= Allowed'
  BY AllowedGrows
<1>8. Cardinality(Charged') + Cardinality(Unspent') <= Allowed'
  BY <1>1, <1>3, <1>5, <1>6, <1>7 DEF ChargeInv
<1> QED BY <1>1, <1>3, <1>4, <1>6, <1>8 DEF ChargeInv

\* A message arrives.
LEMMA ChargeArrives ==
    ASSUME TypeInv, ChargeInv, sent'[Anon] = sent[Anon] + 1, UNCHANGED faults, NEW c,
           Charged' \subseteq Charged, Nameless' \subseteq Nameless \cup {c},
           Unspent' \subseteq Unspent \cup {c}
    PROVE  ChargeInv'
<1>1. sent[Anon] \in Nat /\ Allowed \in Nat
  BY AllowedGrows
<1>2. IsFiniteSet(Unspent)
  BY SubsetCard DEF ChargeInv, Unspent
<1>3. /\ IsFiniteSet(Charged') /\ Cardinality(Charged') <= Cardinality(Charged)
  BY SubsetCard DEF ChargeInv
<1>4. IsFiniteSet(Nameless') /\ Cardinality(Nameless') <= Cardinality(Nameless) + 1
  BY GrownCard DEF ChargeInv
<1>5. IsFiniteSet(Unspent') /\ Cardinality(Unspent') <= Cardinality(Unspent) + 1
  BY <1>2, GrownCard
<1>6. /\ Cardinality(Charged) \in Nat /\ Cardinality(Charged') \in Nat
      /\ Cardinality(Unspent) \in Nat /\ Cardinality(Unspent') \in Nat
      /\ Cardinality(Nameless) \in Nat /\ Cardinality(Nameless') \in Nat
  BY <1>2, <1>3, <1>4, <1>5, FS_CardinalityType DEF ChargeInv
<1>7. Allowed' \in Nat /\ Allowed + 1 <= Allowed'
  BY AllowedGrows
<1>8. Cardinality(Charged') + Cardinality(Unspent') <= Allowed'
  BY <1>1, <1>3, <1>5, <1>6, <1>7 DEF ChargeInv
<1>9. Cardinality(Nameless') <= sent'[Anon]
  BY <1>1, <1>4, <1>6 DEF ChargeInv
<1> QED BY <1>3, <1>4, <1>8, <1>9 DEF ChargeInv

\* A fault returns messages to the queue: each may make its row again, and
\* each task that goes on without its message may make one too.
LEMMA ChargeReturned ==
    ASSUME TypeInv, ChargeInv, UNCHANGED sent, faults' = faults + 1,
           NEW N, NEW f \in [N -> Unspent], \A x, y \in N : f[x] = f[y] => x = y,
           Charged' \subseteq Charged \cup N, Nameless' \subseteq Nameless
    PROVE  ChargeInv'
<1>1. sent[Anon] \in Nat /\ Allowed \in Nat
  BY AllowedGrows
<1>2. IsFiniteSet(Unspent)
  BY SubsetCard DEF ChargeInv, Unspent
<1>3. IsFiniteSet(Charged') /\ Cardinality(Charged') <= Cardinality(Charged) + Cardinality(Unspent)
  BY <1>2, InjectedCard DEF ChargeInv
<1>4. /\ IsFiniteSet(Nameless') /\ Cardinality(Nameless') \in Nat
      /\ Cardinality(Nameless') <= Cardinality(Nameless)
  BY SubsetCard DEF ChargeInv
<1>5. /\ Cardinality(Unspent') \in Nat
      /\ Cardinality(Unspent') <= Cardinality(Nameless')
  <2>1. Unspent' \subseteq Nameless'
    BY DEF Unspent
  <2> QED BY <1>4, <2>1, SubsetCard
<1>6. /\ Cardinality(Charged) \in Nat /\ Cardinality(Charged') \in Nat
      /\ Cardinality(Unspent) \in Nat /\ Cardinality(Nameless) \in Nat
  BY <1>2, <1>3, FS_CardinalityType DEF ChargeInv
<1>7. Allowed' = Allowed + sent[Anon]
  BY AllowedGrows
<1>8. Cardinality(Charged') + Cardinality(Unspent') <= Allowed'
  BY <1>1, <1>3, <1>4, <1>5, <1>6, <1>7 DEF ChargeInv
<1> QED BY <1>1, <1>3, <1>4, <1>6, <1>8 DEF ChargeInv

\* Before its commit a task with an id of uuid4 has paid with its message, or
\* has lost it.
LEMMA ChargeCommit ==
    ASSUME TypeInv, QueueInv, NamelessInv, ChargeInv, UNCHANGED sent, NEW t \in Tasks,
           stage[t] = "selected", status[mid[t]] = "none",
           status' = [status EXCEPT ![mid[t]] = "received"],
           \A u \in Tasks \ {t} : mid'[u] = mid[u] /\ stage'[u] = stage[u] /\ copy'[u] = copy[u],
           \/ UNCHANGED <<slot, mid, copy, faults>> /\ stage' = [stage EXCEPT ![t] = "committed"]
           \/ Settle(t) /\ End(t) /\ faults' = faults + 1
    PROVE  ChargeInv'
<1> USE DEF TypeInv, TypeOK, SharedTypeOK, ConsumerTypeOK, MidOK, CopyOK, Stages,
            NamelessInv, ReuseOK, FreshOK, Charged, Stray, Unwritten, Nameless, Unspent
<1>1. mid[t] \in Ids /\ faults' \in {faults, faults + 1}
  OBVIOUS
<1>2. Nameless' \subseteq Nameless
  BY DEF Settle, Bodies
<1>3. Charged' \subseteq Charged \cup {mid[t]}
  BY <1>1 DEF Settle, End, Goto
<1>4. Unspent' \subseteq Unspent
  BY <1>1 DEF Settle, End, Goto
<1>5. CASE mid[t] \in Uuids /\ copy[t] # Nil
  <2>1. copy[t] \in Unspent
    BY <1>5
  <2>2. copy[t] \notin Unspent'
    BY <1>5, <2>1 DEF Settle
  <2>3. Unspent' \subseteq Unspent \ {copy[t]}
    BY <1>4, <2>2
  <2> HIDE DEF Charged, Nameless, Unspent
  <2> QED BY <1>1, <1>2, <1>3, <2>1, <2>3, ChargePaid
<1>6. CASE mid[t] \notin Uuids \/ copy[t] = Nil
  <2>1. Charged' \subseteq Charged
    BY <1>1, <1>3, <1>6
  <2> QED BY <1>1, <1>2, <1>4, <2>1, ChargeCalm
<1> QED BY <1>5, <1>6

\* A lost connection, a restart of the broker, a crash: tasks lose their
\* deliveries and go on, or end.
LEMMA ChargeLost ==
    ASSUME TypeInv, NamelessInv, ChargeInv, UNCHANGED <<sent, status>>, faults' = faults + 1,
           \A c \in Copies : slot'[c] \in {slot[c], Nil},
           \A t \in Tasks : /\ copy'[t] \in {copy[t], Nil}
                            /\ \/ stage'[t] = stage[t] /\ mid'[t] = mid[t]
                               \/ stage'[t] = "idle"
    PROVE  ChargeInv'
<1> USE DEF TypeInv, TypeOK, SharedTypeOK, ConsumerTypeOK, CopyOK, NamelessInv, FreshOK,
            Charged, Stray, Unwritten, Nameless, Unspent
<1> DEFINE Holds(t, m) == mid[t] = m /\ copy[t] # Nil /\ stage[t] \in Unwritten
           N == {m \in Uuids : status[m] = "none" /\ \E t \in Tasks : Holds(t, m)}
           f == [m \in N |-> copy[CHOOSE t \in Tasks : Holds(t, m)]]
<1>1. Nameless' \subseteq Nameless
  OBVIOUS
<1>2. Charged' \subseteq Charged \cup N
  OBVIOUS
<1>3. \A m \in N : \E t \in Tasks : Holds(t, m) /\ f[m] = copy[t]
  OBVIOUS
<1>4. \A m \in N : f[m] \in Unspent
  BY <1>3
<1>5. f \in [N -> Unspent]
  BY <1>4
<1>6. \A x, y \in N : f[x] = f[y] => x = y
  BY <1>3
<1> HIDE DEF N, f
<1> QED BY <1>1, <1>2, <1>5, <1>6, ChargeReturned

LEMMA ChargeInit == Init => ChargeInv
<1> SUFFICES ASSUME Init PROVE ChargeInv
  OBVIOUS
<1> USE DEF Init, SharedInit, ConsumerInit
<1>1. Nameless = {} /\ Unspent = {}
  BY DEF Nameless, Unspent
<1>2. Charged = {}
  BY DEF Charged, Stray, Unwritten
<1>3. sent[Anon] = 0 /\ faults = 0
  BY DEF Bodies
<1>4. Allowed = 0
  BY <1>3 DEF Allowed
<1> QED BY <1>1, <1>2, <1>3, <1>4, FS_EmptySet DEF ChargeInv

LEMMA ChargeConsumer ==
    ASSUME TypeInv, OwnerInv, QueueInv, NamelessInv, ChargeInv, ConsumerNext,
           UNCHANGED reconcilerVars
    PROVE  ChargeInv'
<1> USE DEF TypeInv, TypeOK, SharedTypeOK, ConsumerTypeOK, MidOK, CopyOK, Stages, OwnerStages,
            taskVars, queueVars, keyVars, sharedVars
<1>1. ASSUME NEW t \in Tasks, TaskStep(t) \/ TaskFault(t)
      PROVE  ChargeInv'
  <2> DEFINE Calm == /\ UNCHANGED sent /\ faults' \in {faults, faults + 1}
                     /\ Charged' \subseteq Charged /\ Nameless' \subseteq Nameless
                     /\ Unspent' \subseteq Unspent
  <2>1. CASE DiscardJunk(t)
    <3>1. Calm
      BY <2>1 DEF DiscardJunk, Charged, Stray, Unwritten, Nameless, Unspent
    <3> QED BY <3>1, ChargeCalm
  <2>2. CASE Deliver(t)
    <3>1. PICK c \in Copies : copy' = [copy EXCEPT ![t] = c]
      BY <2>2 DEF Deliver, Take
    <3>2. PICK m : mid' = [mid EXCEPT ![t] = m]
      BY <2>2 DEF Deliver
    <3>3. UNCHANGED <<slot, status, sent, faults>> /\ stage' = [stage EXCEPT ![t] = "delivered"]
      BY <2>2 DEF Deliver, Take, Goto
    <3>4. stage[t] = "idle" /\ copy[t] = Nil
      BY <2>2 DEF Deliver, QueueInv, Carries
    <3>5. Calm
      BY <3>1, <3>2, <3>3, <3>4 DEF Charged, Stray, Unwritten, Nameless, Unspent
    <3> QED BY <3>5, ChargeCalm
  <2>3. CASE InsertKey(t) \/ SelectSubscribers(t)
    <3>1. Calm
      BY <2>3 DEF InsertKey, SelectSubscribers, Goto, Charged, Stray, Unwritten, Nameless, Unspent
    <3> QED BY <3>1, ChargeCalm
  <2>4. CASE SkipDuplicate(t)
    <3>1. UNCHANGED <<status, sent, faults>> /\ Settle(t) /\ End(t)
      BY <2>4 DEF SkipDuplicate
    <3>2. Calm
      BY <3>1, <2>4 DEF Settle, End, Goto, SkipDuplicate, Charged, Stray, Unwritten, Nameless, Unspent
    <3> QED BY <3>2, ChargeCalm
  <2>5. CASE Commit(t)
    BY <2>5, ChargeCommit DEF Commit, CommitRows, Goto, OwnerInv, Uncommitted
  <2>6. CASE Ack(t)
    <3>1. UNCHANGED <<status, sent, faults, mid>> /\ Settle(t) /\ Goto(t, "enriching")
      BY <2>6 DEF Ack
    <3>2. Calm
      BY <3>1, <2>6 DEF Ack, Settle, Goto, Charged, Stray, Unwritten, Nameless, Unspent
    <3> QED BY <3>2, ChargeCalm
  <2>7. CASE AckRaises(t) \/ EnrichGivesUp(t)
    <3>1. Calm
      BY <2>7 DEF AckRaises, EnrichGivesUp, End, Goto, Charged, Stray, Unwritten, Nameless, Unspent
    <3> QED BY <3>1, ChargeCalm
  <2>8. CASE EnrichFatal(t) \/ EnrichSucceeds(t)
    <3>1. Calm
      BY <2>8 DEF EnrichFatal, EnrichSucceeds, Goto, Charged, Stray, Unwritten, Nameless, Unspent
    <3> QED BY <3>1, ChargeCalm
  <2>9. CASE RecordFatal(t) \/ SessionFails(t)
    <3>1. Calm
      BY <2>9 DEF RecordFatal, SessionFails, Fault, End, Goto, Charged, Stray, Unwritten, Nameless, Unspent
    <3> QED BY <3>1, ChargeCalm
  <2>10. CASE PersistEnrichment(t)
    <3>1. status[mid[t]] # "none"
      BY <2>10 DEF PersistEnrichment, OwnerInv, Committed, CommittedStages
    <3>2. Calm
      BY <2>10, <3>1 DEF PersistEnrichment, End, Goto, Charged, Stray, Unwritten, Nameless, Unspent
    <3> QED BY <3>2, ChargeCalm
  <2>11. CASE TransactionFails(t)
    <3>1. /\ UNCHANGED <<status, sent>> /\ faults' = faults + 1
          /\ Settle(t) /\ End(t) /\ stage[t] # "committed"
      BY <2>11 DEF TransactionFails, Fault
    <3>2. Calm
      BY <3>1 DEF Settle, End, Goto, Charged, Stray, Unwritten, Nameless, Unspent
    <3> QED BY <3>2, ChargeCalm
  <2>12. CASE CommitAnswerLost(t)
    <3>1. /\ UNCHANGED sent /\ faults' = faults + 1 /\ Settle(t) /\ End(t)
          /\ stage[t] = "selected" /\ status' = [status EXCEPT ![mid[t]] = "received"]
      BY <2>12 DEF CommitAnswerLost, CommitRows, Fault
    <3>2. status[mid[t]] = "none"
      BY <3>1 DEF OwnerInv, Uncommitted
    <3>3. \A u \in Tasks \ {t} : mid'[u] = mid[u] /\ stage'[u] = stage[u] /\ copy'[u] = copy[u]
      BY <3>1 DEF Settle, End, Goto
    <3> QED BY <3>1, <3>2, <3>3, ChargeCommit
  <2> QED BY <1>1, <2>1, <2>2, <2>3, <2>4, <2>5, <2>6, <2>7, <2>8, <2>9, <2>10, <2>11, <2>12
          DEF TaskStep, TaskFault
<1>2. ASSUME NEW p \in Consumers, ConnectionLost(p)
      PROVE  ChargeInv'
  BY <1>2, ChargeLost DEF ConnectionLost, Fault
<1>3. CASE BrokerRestart
  BY <1>3, ChargeLost DEF BrokerRestart, Fault
<1> QED BY <1>1, <1>2, <1>3 DEF ConsumerNext

LEMMA ChargeReconciler ==
    ASSUME TypeInv, OwnerInv, ChargeInv, ReconcilerNext, UNCHANGED taskVars
    PROVE  ChargeInv'
<1> USE DEF TypeInv, TypeOK, SharedTypeOK, ConsumerTypeOK, CopyOK, taskVars, queueVars, keyVars,
            sharedVars, cycleVars
<1>1. ASSUME NEW p \in Consumers, NEW m \in Ids, Republish(p, m) \/ PublishTimesOut(p, m)
      PROVE  Nameless' \subseteq Nameless
  BY <1>1 DEF Republish, PublishTimesOut, EnqueueVolatile, Store, Nameless
<1>2. Nameless' \subseteq Nameless /\ UNCHANGED sent /\ faults' \in {faults, faults + 1}
  BY <1>1 DEF ReconcilerNext, RowAges, LoadStale, CommitCycle, CycleFails, GiveUp, Republish,
              PublishTimesOut, Fault, Nameless
<1>3. \A m \in Ids : status'[m] # "none" => status[m] # "none"
  <2>1. ASSUME NEW p \in Consumers, CommitCycle(p), NEW m \in Ids, status'[m] # "none"
        PROVE  status[m] # "none"
    BY <2>1 DEF CommitCycle, OwnerInv, CycleRows
  <2> QED BY <2>1 DEF ReconcilerNext, RowAges, LoadStale, CycleFails, GiveUp, Republish,
                      PublishTimesOut
<1>4. Charged' \subseteq Charged /\ Unspent' \subseteq Unspent
  BY <1>2, <1>3 DEF Charged, Stray, Unspent
<1> QED BY <1>2, <1>4, ChargeCalm

LEMMA ChargeOthers ==
    ASSUME TypeInv, NamelessInv, ChargeInv,
           \/ Surroundings /\ UNCHANGED <<taskVars, reconcilerVars>>
           \/ \E p \in Consumers : Crash(p)
           \/ UNCHANGED vars
    PROVE  ChargeInv'
<1> USE DEF TypeInv, TypeOK, SharedTypeOK, ConsumerTypeOK, CopyOK, taskVars, queueVars, keyVars
<1>1. ASSUME NEW b \in Published, Publish(b), UNCHANGED taskVars
      PROVE  ChargeInv'
  <2>1. PICK c \in Copies : Store(b, c)
    BY <1>1 DEF Publish, EnqueuePersistent, EnqueueVolatile
  <2>2. /\ b \in Bodies /\ sent' = [sent EXCEPT ![b] = @ + 1]
        /\ UNCHANGED <<status, stage, mid, copy, faults>>
    BY <1>1 DEF Publish, Bodies
  <2>3. Charged' \subseteq Charged
    BY <2>2 DEF Charged, Stray
  <2>4. Nameless' \subseteq Nameless \cup (IF b = Anon THEN {c} ELSE {})
    BY <2>1, <2>2 DEF Nameless, Store
  <2>5. Unspent' \subseteq Unspent \cup (IF b = Anon THEN {c} ELSE {})
    BY <2>2, <2>4 DEF Unspent
  <2>6. CASE b = Anon
    <3>1. sent'[Anon] = sent[Anon] + 1
      BY <2>2, <2>6 DEF Bodies
    <3> QED BY <2>2, <2>3, <2>4, <2>5, <2>6, <3>1, ChargeArrives
  <2>7. CASE b # Anon
    <3>1. sent'[Anon] = sent[Anon]
      BY <2>2, <2>7 DEF Bodies
    <3> QED BY <2>2, <2>3, <2>4, <2>5, <2>7, <3>1, ChargeCalm
  <2> QED BY <2>6, <2>7
<1>2. ASSUME NEW s \in Subs, FlipSubscriber(s), UNCHANGED taskVars
      PROVE  ChargeInv'
  <2>1. Charged' \subseteq Charged /\ Nameless' \subseteq Nameless /\ Unspent' \subseteq Unspent
    BY <1>2 DEF FlipSubscriber, Charged, Stray, Nameless, Unspent
  <2> QED BY <1>2, <2>1, ChargeCalm DEF FlipSubscriber
<1>3. ASSUME NEW p \in Consumers, Crash(p)
      PROVE  ChargeInv'
  BY <1>3, ChargeLost DEF Crash, Fault
<1>4. CASE UNCHANGED vars
  <2>1. Charged' \subseteq Charged /\ Nameless' \subseteq Nameless /\ Unspent' \subseteq Unspent
    BY <1>4 DEF vars, sharedVars, Charged, Stray, Nameless, Unspent
  <2> QED BY <1>4, <2>1, ChargeCalm DEF vars, sharedVars
<1> QED BY <1>1, <1>2, <1>3, <1>4 DEF Surroundings

THEOREM ChargeInvariant == Spec => []ChargeInv
<1>1. TypeInv /\ OwnerInv /\ QueueInv /\ NamelessInv /\ ChargeInv /\ [Next]_vars => ChargeInv'
  BY ChargeConsumer, ChargeReconciler, ChargeOthers DEF Next
<1> QED BY ChargeInit, TypeInvariant, OwnerInvariant, QueueInvariant, NamelessInvariant, <1>1, PTL DEF Spec

\* handle_message, data.get("message_id") or str(uuid.uuid4()): n messages
\* without message_id and f faults make n * (1 + f) rows at most; without a
\* fault each makes one.
THEOREM ExtraRowsNeedFaultsAlways == Spec => []ExtraRowsNeedFaults
<1>1. TypeInv /\ ChargeInv => ExtraRowsNeedFaults
  <2> SUFFICES ASSUME TypeInv, ChargeInv PROVE ExtraRowsNeedFaults
    OBVIOUS
  <2> DEFINE Rows == {m \in Uuids : status[m] # "none"}
  <2>1. Rows \subseteq Charged
    BY DEF Charged
  <2>2. Cardinality(Rows) \in Nat /\ Cardinality(Rows) <= Cardinality(Charged)
    BY <2>1, SubsetCard DEF ChargeInv
  <2>3. Unspent \subseteq Nameless
    BY DEF Unspent
  <2>4. Cardinality(Charged) \in Nat /\ Cardinality(Unspent) \in Nat /\ Allowed \in Nat
    <3>1. faults \in Nat /\ sent[Anon] \in Nat
      BY DEF TypeInv, TypeOK, SharedTypeOK, Bodies
    <3> QED BY <2>3, <3>1, SubsetCard, FS_CardinalityType DEF ChargeInv, Allowed
  <2>5. Cardinality(Rows) <= Allowed
    BY <2>2, <2>4 DEF ChargeInv
  <2> QED BY <2>5 DEF ExtraRowsNeedFaults, Allowed
<1> QED BY TypeInvariant, ChargeInvariant, <1>1, PTL
=============================================================================
