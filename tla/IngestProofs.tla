---------------------------- MODULE IngestProofs ----------------------------
(***************************************************************************)
(* Theorems about Ingest, for every value of its constants.                *)
(*                                                                         *)
(* The invariants are proved in layers, each one inductive relative to the *)
(* layers before it: types and the tasks' deliveries (TypeInv), then who   *)
(* owns a row (OwnerInv).                                                  *)
(***************************************************************************)
EXTENDS Ingest, TLAPS

USE IngestAssumption, ConsumerAssumption, ReconcilerAssumption

-----------------------------------------------------------------------------
(* Layer 1: types, and what a task and its delivery have to do with each other *)

\* A task that is not idle has a message_id.
MidOK == \A t \in Tasks : stage[t] # "idle" => mid[t] \in Ids

\* The message a task can still ack is in the queue, and is no other task's.
CopyOK ==
    /\ \A t \in Tasks : copy[t] # Nil => slot[copy[t]] # Nil
    /\ \A t, u \in Tasks : copy[t] # Nil /\ copy[t] = copy[u] => t = u

TypeInv == TypeOK /\ MidOK /\ CopyOK

LEMMA TypeInit == Init => TypeInv
BY DEF Init, SharedInit, ConsumerInit, ReconcilerInit, TypeInv, TypeOK, SharedTypeOK,
       ConsumerTypeOK, ReconcilerTypeOK, MidOK, CopyOK, Bodies, Statuses, Stages,
       OwnerStages

LEMMA TypeSurroundings ==
    ASSUME TypeInv, Surroundings, UNCHANGED <<taskVars, reconcilerVars>>
    PROVE  TypeInv'
<1> USE DEF TypeInv, TypeOK, SharedTypeOK, ConsumerTypeOK, ReconcilerTypeOK, MidOK, CopyOK,
            taskVars, reconcilerVars, queueVars, keyVars
<1>1. CASE \E b \in Published : Publish(b)
  <2> PICK b \in Published : Publish(b)
    BY <1>1
  <2>1. b \in Bodies
    BY DEF Bodies
  <2>2. PICK c \in Copies : Store(b, c) /\ volatile' \in {volatile, volatile \cup {c}}
    BY DEF Publish, EnqueuePersistent, EnqueueVolatile
  <2>3. slot' \in [Copies -> Bodies \cup {Nil}] /\ slot[c] = Nil /\ slot' = [slot EXCEPT ![c] = b]
    BY <2>1, <2>2 DEF Store
  <2>4. b # Nil
    BY <2>1 DEF Bodies
  <2>5. sent' \in [Bodies -> Nat]
    BY <2>1 DEF Publish
  <2> QED BY <2>2, <2>3, <2>4, <2>5 DEF Publish
<1>2. CASE \E s \in Subs : FlipSubscriber(s)
  BY <1>2 DEF FlipSubscriber
<1> QED BY <1>1, <1>2 DEF Surroundings

LEMMA TypeConsumer ==
    ASSUME TypeInv, ConsumerNext, UNCHANGED reconcilerVars
    PROVE  TypeInv'
<1> USE DEF TypeInv, TypeOK, SharedTypeOK, ConsumerTypeOK, ReconcilerTypeOK, MidOK, CopyOK,
            taskVars, reconcilerVars, queueVars, keyVars, sharedVars, Stages, OwnerStages
<1>1. ASSUME NEW t \in Tasks, TaskStep(t) \/ TaskFault(t)
      PROVE  TypeInv'
  <2>1. CASE DiscardJunk(t)
    BY <2>1 DEF DiscardJunk, Ready, Bodies
  <2>2. CASE Deliver(t)
    <3>1. PICK c \in Copies :
             /\ Ready(c) /\ slot[c] # Junk
             /\ \E m \in MessageIds(slot[c]) : mid' = [mid EXCEPT ![t] = m]
             /\ Take(t, c)
      BY <2>2 DEF Deliver
    <3>2. PICK m \in MessageIds(slot[c]) : mid' = [mid EXCEPT ![t] = m]
      BY <3>1
    <3>3. m \in Ids
      BY <3>1, <3>2 DEF MessageIds, Ready, Bodies
    <3> QED BY <2>2, <3>1, <3>2, <3>3 DEF Deliver, Take, Goto, Ready
  <2>3. CASE InsertKey(t)
    BY <2>3 DEF InsertKey, Goto
  <2>4. CASE SkipDuplicate(t)
    BY <2>4 DEF SkipDuplicate, Settle, End, Goto
  <2>5. CASE SelectSubscribers(t)
    BY <2>5 DEF SelectSubscribers, Goto
  <2>6. CASE Commit(t)
    BY <2>6 DEF Commit, CommitRows, Goto, Statuses
  <2>7. CASE Ack(t)
    BY <2>7 DEF Ack, Settle, Goto
  <2>8. CASE AckRaises(t)
    BY <2>8 DEF AckRaises, End, Goto
  <2>9. CASE EnrichGivesUp(t)
    BY <2>9 DEF EnrichGivesUp, End, Goto
  <2>10. CASE EnrichFatal(t)
    BY <2>10 DEF EnrichFatal, Goto
  <2>11. CASE EnrichSucceeds(t)
    BY <2>11 DEF EnrichSucceeds, Goto
  <2>12. CASE RecordFatal(t)
    BY <2>12 DEF RecordFatal, End, Goto
  <2>13. CASE PersistEnrichment(t)
    BY <2>13 DEF PersistEnrichment, End, Goto, Statuses
  <2>14. CASE TransactionFails(t)
    BY <2>14 DEF TransactionFails, Fault, Settle, End, Goto, Bodies
  <2>15. CASE CommitAnswerLost(t)
    BY <2>15 DEF CommitAnswerLost, Fault, CommitRows, Settle, End, Goto, Statuses, Bodies
  <2>16. CASE SessionFails(t)
    BY <2>16 DEF SessionFails, Fault, End, Goto
  <2> QED BY <1>1, <2>1, <2>2, <2>3, <2>4, <2>5, <2>6, <2>7, <2>8, <2>9, <2>10, <2>11, <2>12, <2>13, <2>14, <2>15, <2>16 DEF TaskStep, TaskFault
<1>2. ASSUME NEW p \in Consumers, ConnectionLost(p)
      PROVE  TypeInv'
  BY <1>2 DEF ConnectionLost, Fault
<1>3. CASE BrokerRestart
  BY <1>3 DEF BrokerRestart, Fault
<1> QED BY <1>1, <1>2, <1>3 DEF ConsumerNext

LEMMA TypeReconciler ==
    ASSUME TypeInv, ReconcilerNext, UNCHANGED taskVars
    PROVE  TypeInv'
<1> USE DEF TypeInv, TypeOK, SharedTypeOK, ConsumerTypeOK, ReconcilerTypeOK, MidOK, CopyOK,
            taskVars, cycleVars, queueVars, keyVars, sharedVars
<1>1. ASSUME NEW m \in Ids, RowAges(m)
      PROVE  TypeInv'
  BY <1>1 DEF RowAges
<1>2. ASSUME NEW p \in Consumers, LoadStale(p)
      PROVE  TypeInv'
  <2>1. PICK S \in Batches \ {{}} :
           /\ todo' = [todo EXCEPT ![p] = S]
           /\ loaded' = [loaded EXCEPT ![p] =
                            [m \in Ids |-> IF m \in S THEN rcount[m] ELSE 0]]
    BY <1>2 DEF LoadStale
  <2>2. S \in SUBSET Ids
    BY DEF Batches, Candidates
  <2>3. [m \in Ids |-> IF m \in S THEN rcount[m] ELSE 0] \in [Ids -> 0 .. MaxAttempts]
    OBVIOUS
  <2> QED BY <1>2, <2>1, <2>2, <2>3 DEF LoadStale
<1>3. ASSUME NEW p \in Consumers, CommitCycle(p)
      PROVE  TypeInv'
  <2>1. /\ rcount' \in [Ids -> Nat]
        /\ \A m \in Ids : rcount'[m] <= MaxAttempts
    BY <1>3 DEF CommitCycle
  <2>2. /\ status' \in [Ids -> Statuses]
        /\ error' \in [Ids -> {"none", "fatal", "abandoned"}]
    BY <1>3 DEF CommitCycle, Statuses
  <2> QED BY <1>3, <2>1, <2>2 DEF CommitCycle, Sleep
<1>4. ASSUME NEW p \in Consumers, CycleFails(p)
      PROVE  TypeInv'
  BY <1>4 DEF CycleFails, Fault, Sleep
<1>5. ASSUME NEW p \in Consumers, NEW m \in Ids, GiveUp(p, m)
      PROVE  TypeInv'
  BY <1>5 DEF GiveUp, Visited
<1>6. ASSUME NEW p \in Consumers, NEW m \in Ids, EnqueueVolatile(m)
      PROVE  /\ slot' \in [Copies -> Bodies \cup {Nil}]
             /\ volatile' \in SUBSET Copies
             /\ \A c \in Copies : slot[c] # Nil => slot'[c] # Nil
  BY <1>6 DEF EnqueueVolatile, Store, Bodies
<1>7. ASSUME NEW p \in Consumers, NEW m \in Ids, Republish(p, m)
      PROVE  TypeInv'
  <2>1. loaded[p][m] + 1 \in 0 .. MaxAttempts
    BY <1>7 DEF Republish, Exhausted
  <2> QED BY <1>6, <1>7, <2>1 DEF Republish, Visited
<1>8. ASSUME NEW p \in Consumers, NEW m \in Ids, PublishTimesOut(p, m)
      PROVE  TypeInv'
  <2>1. CASE EnqueueVolatile(m) /\ reenqueued' = [reenqueued EXCEPT ![m] = @ + 1]
    BY <1>6, <1>8, <2>1 DEF PublishTimesOut, Visited, Fault
  <2>2. CASE UNCHANGED <<slot, volatile, reenqueued>>
    BY <1>8, <2>2 DEF PublishTimesOut, Visited, Fault
  <2> QED BY <1>8, <2>1, <2>2 DEF PublishTimesOut
<1> QED BY <1>1, <1>2, <1>3, <1>4, <1>5, <1>7, <1>8 DEF ReconcilerNext

LEMMA TypeCrash ==
    ASSUME TypeInv, NEW p \in Consumers, Crash(p)
    PROVE  TypeInv'
BY DEF TypeInv, TypeOK, SharedTypeOK, ConsumerTypeOK, ReconcilerTypeOK, MidOK, CopyOK,
       queueVars, keyVars, Crash, Fault, Sleep, Stages

LEMMA TypeStutter ==
    ASSUME TypeInv, UNCHANGED vars
    PROVE  TypeInv'
BY DEF TypeInv, TypeOK, SharedTypeOK, ConsumerTypeOK, ReconcilerTypeOK, MidOK, CopyOK,
       vars, sharedVars, taskVars, reconcilerVars

\* The variables keep their types, reconcile_count stays within its cap, and
\* a task's delivery is a message of the queue that no other task can ack.
THEOREM TypeInvariant == Spec => []TypeInv
<1>1. TypeInv /\ [Next]_vars => TypeInv'
  BY TypeSurroundings, TypeConsumer, TypeReconciler, TypeCrash, TypeStutter DEF Next
<1> QED BY TypeInit, <1>1, PTL DEF Spec

\* _reconciler, rabbitmq.py: no cycle loads or writes a reconcile_count above
\* settings.reconciler_max_attempts.
THEOREM TypeCorrect == Spec => []TypeOK
<1>1. TypeInv => TypeOK
  BY DEF TypeInv
<1> QED BY TypeInvariant, <1>1, PTL

-----------------------------------------------------------------------------
(* Layer 2: who owns a row *)

\* The insert and the commit of a row are one transaction.
Uncommitted == \A t \in Tasks : stage[t] \in {"inserted", "selected"} => status[mid[t]] = "none"

CommittedStages == OwnerStages \ {"inserted", "selected"}

Committed == \A t \in Tasks : stage[t] \in CommittedStages => status[mid[t]] # "none"

\* A reconciler only ever sees committed rows.
CycleRows == \A p \in Consumers : \A m \in todo[p] \cup abandoned[p] : status[m] # "none"

OwnerInv == OneOwner /\ Uncommitted /\ Committed /\ CycleRows

LEMMA OwnerInit == Init => OwnerInv
BY DEF Init, SharedInit, ConsumerInit, ReconcilerInit, OwnerInv, OneOwner, Owns, Uncommitted,
       Committed, CommittedStages, CycleRows, OwnerStages

LEMMA OwnerConsumer ==
    ASSUME TypeInv, OwnerInv, ConsumerNext, UNCHANGED reconcilerVars
    PROVE  OwnerInv'
<1> USE DEF TypeInv, TypeOK, SharedTypeOK, ConsumerTypeOK, ReconcilerTypeOK, MidOK, OwnerInv,
            OneOwner, Owns, Uncommitted, Committed, CommittedStages, CycleRows, OwnerStages,
            taskVars, reconcilerVars, queueVars, keyVars, sharedVars, Stages
<1>1. ASSUME NEW t \in Tasks, TaskStep(t) \/ TaskFault(t)
      PROVE  OwnerInv'
  <2>1. CASE DiscardJunk(t)
    BY <2>1 DEF DiscardJunk
  <2>2. CASE Deliver(t)
    BY <2>2 DEF Deliver, Take, Goto
  <2>3. CASE InsertKey(t)
    BY <2>3 DEF InsertKey, Goto, Locked, IsNew
  <2>4. CASE SkipDuplicate(t)
    BY <2>4 DEF SkipDuplicate, Settle, End, Goto
  <2>5. CASE SelectSubscribers(t)
    BY <2>5 DEF SelectSubscribers, Goto
  <2>6. CASE Commit(t)
    BY <2>6 DEF Commit, CommitRows, Goto
  <2>7. CASE Ack(t)
    BY <2>7 DEF Ack, Settle, Goto
  <2>8. CASE AckRaises(t)
    BY <2>8 DEF AckRaises, End, Goto
  <2>9. CASE EnrichGivesUp(t)
    BY <2>9 DEF EnrichGivesUp, End, Goto
  <2>10. CASE EnrichFatal(t)
    BY <2>10 DEF EnrichFatal, Goto
  <2>11. CASE EnrichSucceeds(t)
    BY <2>11 DEF EnrichSucceeds, Goto
  <2>12. CASE RecordFatal(t)
    BY <2>12 DEF RecordFatal, End, Goto
  <2>13. CASE PersistEnrichment(t)
    BY <2>13 DEF PersistEnrichment, End, Goto
  <2>14. CASE TransactionFails(t)
    BY <2>14 DEF TransactionFails, Settle, End, Goto
  <2>15. CASE CommitAnswerLost(t)
    BY <2>15 DEF CommitAnswerLost, CommitRows, Settle, End, Goto
  <2>16. CASE SessionFails(t)
    BY <2>16 DEF SessionFails, End, Goto
  <2> QED BY <1>1, <2>1, <2>2, <2>3, <2>4, <2>5, <2>6, <2>7, <2>8, <2>9, <2>10, <2>11, <2>12, <2>13, <2>14, <2>15, <2>16 DEF TaskStep, TaskFault
<1>2. ASSUME NEW p \in Consumers, ConnectionLost(p)
      PROVE  OwnerInv'
  BY <1>2 DEF ConnectionLost
<1>3. CASE BrokerRestart
  BY <1>3 DEF BrokerRestart
<1> QED BY <1>1, <1>2, <1>3 DEF ConsumerNext

LEMMA OwnerReconciler ==
    ASSUME TypeInv, OwnerInv, ReconcilerNext, UNCHANGED taskVars
    PROVE  OwnerInv'
<1> USE DEF TypeInv, TypeOK, SharedTypeOK, ConsumerTypeOK, ReconcilerTypeOK, OwnerInv,
            OneOwner, Owns, Uncommitted, Committed, CommittedStages, CycleRows, OwnerStages,
            taskVars, cycleVars, queueVars, keyVars, sharedVars
<1>1. ASSUME NEW m \in Ids, RowAges(m)
      PROVE  OwnerInv'
  BY <1>1 DEF RowAges
<1>2. ASSUME NEW p \in Consumers, LoadStale(p)
      PROVE  OwnerInv'
  <2>1. PICK S \in SUBSET Candidates : todo' = [todo EXCEPT ![p] = S]
    BY <1>2 DEF LoadStale, Batches
  <2> QED BY <1>2, <2>1 DEF LoadStale, Candidates
<1>3. ASSUME NEW p \in Consumers, CommitCycle(p)
      PROVE  OwnerInv'
  <2>1. \A m \in Ids : status'[m] = "none" <=> status[m] = "none"
    BY <1>3 DEF CommitCycle
  <2>2. CycleRows'
    BY <1>3, <2>1 DEF CommitCycle, Sleep
  <2> QED BY <1>3, <2>1, <2>2 DEF CommitCycle, MidOK
<1>4. ASSUME NEW p \in Consumers, CycleFails(p)
      PROVE  OwnerInv'
  BY <1>4 DEF CycleFails, Sleep
<1>5. ASSUME NEW p \in Consumers, NEW m \in Ids, GiveUp(p, m)
      PROVE  OwnerInv'
  BY <1>5 DEF GiveUp, Visited
<1>6. ASSUME NEW p \in Consumers, NEW m \in Ids, Republish(p, m) \/ PublishTimesOut(p, m)
      PROVE  OwnerInv'
  <2>1. UNCHANGED <<status, stage, mid, abandoned>> /\ Visited(p, m)
    BY <1>6 DEF Republish, PublishTimesOut
  <2> QED BY <2>1 DEF Visited
<1> QED BY <1>1, <1>2, <1>3, <1>4, <1>5, <1>6 DEF ReconcilerNext

LEMMA OwnerOthers ==
    ASSUME TypeInv, OwnerInv,
           \/ Surroundings /\ UNCHANGED <<taskVars, reconcilerVars>>
           \/ \E p \in Consumers : Crash(p)
           \/ UNCHANGED vars
    PROVE  OwnerInv'
<1> USE DEF TypeInv, TypeOK, ConsumerTypeOK, ReconcilerTypeOK, OwnerInv,
            OneOwner, Owns, Uncommitted, Committed, CommittedStages, CycleRows, OwnerStages
<1>1. CASE Surroundings /\ UNCHANGED <<taskVars, reconcilerVars>>
  BY <1>1 DEF Surroundings, Publish, FlipSubscriber, keyVars, taskVars, reconcilerVars
<1>2. ASSUME NEW p \in Consumers, Crash(p)
      PROVE  OwnerInv'
  BY <1>2 DEF Crash, Sleep, keyVars
<1>3. CASE UNCHANGED vars
  BY <1>3 DEF vars, sharedVars, taskVars, reconcilerVars
<1> QED BY <1>1, <1>2, <1>3

THEOREM OwnerInvariant == Spec => []OwnerInv
<1>1. TypeInv /\ OwnerInv /\ [Next]_vars => OwnerInv'
  BY OwnerConsumer, OwnerReconciler, OwnerOthers DEF Next
<1> QED BY OwnerInit, TypeInvariant, <1>1, PTL DEF Spec

\* _insert_idempotency_key, ON CONFLICT DO NOTHING: at most one task ever works
\* on a row, however often its message is delivered.
THEOREM OneOwnerAlways == Spec => []OneOwner
<1>1. OwnerInv => OneOwner
  BY DEF OwnerInv
<1> QED BY OwnerInvariant, <1>1, PTL
=============================================================================
