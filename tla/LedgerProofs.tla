---------------------------- MODULE LedgerProofs ----------------------------
(***************************************************************************)
(* Ingest implements EventLedger, and the invariants of Ingest that rest   *)
(* on who owns a row (IngestProofs): a fatal error is final, an orphaned   *)
(* row stays orphaned.                                                     *)
(***************************************************************************)
EXTENDS IngestProofs

USE IngestAssumption, ConsumerAssumption, ReconcilerAssumption

-----------------------------------------------------------------------------
(* Layer 3: the outcome of an enrichment *)

\* A row that does not exist has no outcome, and the owner of a row is the
\* only task that can give it one.
Unsettled(m) == m \notin enriched /\ error[m] # "fatal"

OutcomeInv ==
    /\ FatalIsFinal
    /\ \A m \in Ids : status[m] = "none" => Unsettled(m)
    /\ \A t \in Tasks : stage[t] \in OwnerStages => Unsettled(mid[t])

LEMMA OutcomeInit == Init => OutcomeInv
BY DEF Init, SharedInit, ConsumerInit, OutcomeInv, FatalIsFinal, Unsettled, OwnerStages

LEMMA OutcomeTask ==
    ASSUME TypeInv, OwnerInv, OutcomeInv, NEW t \in Tasks, TaskStep(t) \/ TaskFault(t)
    PROVE  OutcomeInv'
<1> USE DEF TypeInv, TypeOK, SharedTypeOK, ConsumerTypeOK, MidOK, OwnerInv, OneOwner, Owns,
            Uncommitted, Committed, CommittedStages, OutcomeInv, FatalIsFinal, Unsettled,
            OwnerStages, Stages, taskVars, queueVars, keyVars, sharedVars
<1>1. CASE Deliver(t)
  BY <1>1 DEF Deliver, Goto
<1>2. CASE InsertKey(t)
  BY <1>2 DEF InsertKey, Goto, IsNew
<1>3. CASE SelectSubscribers(t) \/ EnrichFatal(t) \/ EnrichSucceeds(t) \/ Ack(t)
  BY <1>3 DEF SelectSubscribers, EnrichFatal, EnrichSucceeds, Ack, Goto, Settle
<1>4. CASE Commit(t)
  BY <1>4 DEF Commit, CommitRows, Goto
<1>5. CASE CommitAnswerLost(t)
  BY <1>5 DEF CommitAnswerLost, CommitRows, End, Goto
<1>6. CASE RecordFatal(t)
  BY <1>6 DEF RecordFatal, End, Goto
<1>7. CASE PersistEnrichment(t)
  BY <1>7 DEF PersistEnrichment, End, Goto
<1>8. CASE DiscardJunk(t)
  BY <1>8 DEF DiscardJunk
<1>9. CASE \/ SkipDuplicate(t) \/ AckRaises(t) \/ EnrichGivesUp(t)
           \/ TransactionFails(t) \/ SessionFails(t)
  <2>1. UNCHANGED <<status, enriched, error>> /\ End(t)
    BY <1>9 DEF SkipDuplicate, AckRaises, EnrichGivesUp, TransactionFails, SessionFails
  <2> QED BY <2>1 DEF End, Goto
<1> QED BY <1>1, <1>2, <1>3, <1>4, <1>5, <1>6, <1>7, <1>8, <1>9 DEF TaskStep, TaskFault

LEMMA OutcomeOthers ==
    ASSUME TypeInv, OwnerInv, OutcomeInv,
           \/ Surroundings /\ UNCHANGED <<taskVars, reconcilerVars>>
           \/ \E p \in Consumers : ConnectionLost(p) \/ Crash(p)
           \/ BrokerRestart
           \/ ReconcilerNext /\ UNCHANGED taskVars
           \/ UNCHANGED vars
    PROVE  OutcomeInv'
<1> USE DEF TypeInv, TypeOK, SharedTypeOK, ConsumerTypeOK, ReconcilerTypeOK, MidOK, OutcomeInv,
            FatalIsFinal, Unsettled, OwnerStages, queueVars, keyVars, sharedVars, taskVars,
            reconcilerVars, cycleVars
<1>1. CASE Surroundings /\ UNCHANGED <<taskVars, reconcilerVars>>
  BY <1>1 DEF Surroundings, Publish, FlipSubscriber
<1>2. ASSUME NEW p \in Consumers, ConnectionLost(p)
      PROVE  OutcomeInv'
  BY <1>2 DEF ConnectionLost
<1>3. ASSUME NEW p \in Consumers, Crash(p)
      PROVE  OutcomeInv'
  BY <1>3 DEF Crash
<1>4. CASE BrokerRestart
  BY <1>4 DEF BrokerRestart
<1>5. ASSUME NEW p \in Consumers, CommitCycle(p), UNCHANGED taskVars
      PROVE  OutcomeInv'
  <2>1. \A m \in Ids : error'[m] = "fatal" => error[m] = "fatal"
    BY <1>5 DEF CommitCycle
  <2>2. \A m \in Ids : status'[m] = "none" => status[m] = "none"
    BY <1>5 DEF CommitCycle
  <2> QED BY <1>5, <2>1, <2>2 DEF CommitCycle
<1>6. CASE ReconcilerNext /\ UNCHANGED taskVars /\ UNCHANGED keyVars
  BY <1>6
<1>7. ReconcilerNext => UNCHANGED keyVars \/ \E p \in Consumers : CommitCycle(p)
  BY DEF ReconcilerNext, RowAges, LoadStale, CycleFails, GiveUp, Republish, PublishTimesOut
<1>8. CASE UNCHANGED vars
  BY <1>8 DEF vars
<1> QED BY <1>1, <1>2, <1>3, <1>4, <1>5, <1>6, <1>7, <1>8

THEOREM OutcomeInvariant == Spec => []OutcomeInv
<1>1. TypeInv /\ OwnerInv /\ OutcomeInv /\ [Next]_vars => OutcomeInv'
  BY OutcomeTask, OutcomeOthers DEF Next, ConsumerNext
<1> QED BY OutcomeInit, TypeInvariant, OwnerInvariant, <1>1, PTL DEF Spec

\* handle_message, rabbitmq.py: a row with a fatal enrichment error is never
\* enriched, before or after, and neither is any row twice.
THEOREM FatalIsFinalAlways == Spec => []FatalIsFinal
<1>1. OutcomeInv => FatalIsFinal
  BY DEF OutcomeInv
<1> QED BY OutcomeInvariant, <1>1, PTL

-----------------------------------------------------------------------------
(* The refinement: a commit is an acceptance, a final write an outcome, the *)
(* commit of a cycle an abandonment, and everything else a stutter.         *)

LedgerVars == <<status, enriched, error, attempts>>

LEMMA LedgerInit == Init => Ledger!Init
BY DEF Init, SharedInit, Ledger!Init

LEMMA LedgerAccept ==
    ASSUME TypeInv, OwnerInv, NEW t \in Tasks, stage[t] = "selected",
           CommitRows(t), UNCHANGED <<enriched, error>>
    PROVE  Ledger!Next
<1>1. mid[t] \in Ids /\ status[mid[t]] = "none" /\ picked[t] \in SUBSET Subs
  BY DEF TypeInv, TypeOK, ConsumerTypeOK, MidOK, OwnerInv, Uncommitted
<1>2. Ledger!Accept(mid[t])
  BY <1>1 DEF CommitRows, Ledger!Accept, Ledger!Accepted
<1> QED BY <1>1, <1>2 DEF Ledger!Next

LEMMA LedgerOutcome ==
    ASSUME TypeInv, OwnerInv, OutcomeInv, NEW t \in Tasks,
           PersistEnrichment(t) \/ RecordFatal(t)
    PROVE  Ledger!Next
<1>1. stage[t] \in CommittedStages
  BY DEF PersistEnrichment, RecordFatal, CommittedStages, OwnerStages
<1>2. mid[t] \in Ids /\ status[mid[t]] # "none" /\ Unsettled(mid[t])
  BY <1>1 DEF TypeInv, MidOK, OwnerInv, Committed, CommittedStages, OwnerStages, OutcomeInv
<1>3. CASE PersistEnrichment(t)
  <2>1. Ledger!Enrich(mid[t])
    BY <1>2, <1>3 DEF PersistEnrichment, Ledger!Enrich, Ledger!Accepted, Unsettled
  <2> QED BY <1>2, <2>1 DEF Ledger!Next
<1>4. CASE RecordFatal(t)
  <2>1. Ledger!FailForGood(mid[t])
    BY <1>2, <1>4 DEF RecordFatal, Ledger!FailForGood, Ledger!Accepted, Unsettled
  <2> QED BY <1>2, <2>1 DEF Ledger!Next
<1> QED BY <1>3, <1>4

LEMMA LedgerAbandon ==
    ASSUME TypeInv, OwnerInv, NEW p \in Consumers, CommitCycle(p)
    PROVE  Ledger!Next
<1>1. abandoned[p] \in SUBSET Ledger!Accepted
  BY DEF TypeInv, TypeOK, ReconcilerTypeOK, OwnerInv, CycleRows, Ledger!Accepted
<1>2. Ledger!Abandon(abandoned[p])
  BY DEF CommitCycle, Ledger!Abandon
<1> QED BY <1>1, <1>2 DEF Ledger!Next

LEMMA LedgerStep ==
    ASSUME TypeInv, OwnerInv, OutcomeInv, [Next]_vars
    PROVE  Ledger!Next \/ UNCHANGED LedgerVars
<1> USE DEF LedgerVars, keyVars, sharedVars, taskVars
<1>1. ASSUME NEW t \in Tasks, Commit(t) \/ CommitAnswerLost(t)
      PROVE  Ledger!Next
  BY <1>1, LedgerAccept DEF Commit, CommitAnswerLost
<1>2. ASSUME NEW t \in Tasks, TaskStep(t) \/ TaskFault(t)
      PROVE  Ledger!Next \/ UNCHANGED LedgerVars
  BY <1>1, <1>2, LedgerOutcome
     DEF TaskStep, TaskFault, DiscardJunk, Deliver, InsertKey, SkipDuplicate,
         SelectSubscribers, Ack, AckRaises, EnrichGivesUp, EnrichFatal, EnrichSucceeds,
         TransactionFails, SessionFails
<1>3. CASE ReconcilerNext
  BY <1>3, LedgerAbandon
     DEF ReconcilerNext, RowAges, LoadStale, CycleFails, GiveUp, Republish, PublishTimesOut
<1>4. CASE Surroundings
  BY <1>4 DEF Surroundings, Publish, FlipSubscriber
<1>5. ASSUME NEW p \in Consumers, ConnectionLost(p) \/ Crash(p)
      PROVE  UNCHANGED LedgerVars
  BY <1>5 DEF ConnectionLost, Crash
<1>6. CASE BrokerRestart
  BY <1>6 DEF BrokerRestart
<1>7. CASE UNCHANGED vars
  BY <1>7 DEF vars
<1> QED BY <1>2, <1>3, <1>4, <1>5, <1>6, <1>7 DEF Next, ConsumerNext

\* The consumer and the reconcilers together, with every crash, redelivery and
\* lost answer, do to the tables only what EventLedger allows.
THEOREM LedgerRefinement == Spec => ImplementsLedger
<1>1. TypeInv /\ OwnerInv /\ OutcomeInv /\ [Next]_vars => [Ledger!Next]_(Ledger!vars)
  BY LedgerStep DEF LedgerVars, Ledger!vars
<1> QED BY LedgerInit, TypeInvariant, OwnerInvariant, OutcomeInvariant, <1>1, PTL
    DEF Spec, ImplementsLedger, Ledger!Spec

-----------------------------------------------------------------------------
(* An orphaned row stays orphaned *)

\* Only the insert makes a task an owner, and it finds no row.
LEMMA OwnerStays ==
    ASSUME TypeInv, OwnerInv, [Next]_vars, NEW t \in Tasks, NEW m \in Ids, Owns(t, m)'
    PROVE  Owns(t, m) \/ status[m] = "none"
<1> USE DEF TypeInv, TypeOK, ConsumerTypeOK, Owns, OwnerStages, sharedVars, taskVars
<1>1. ASSUME NEW u \in Tasks, TaskStep(u) \/ TaskFault(u)
      PROVE  Owns(t, m) \/ status[m] = "none"
  <2>1. CASE InsertKey(u)
    BY <2>1 DEF InsertKey, Goto, IsNew
  <2>2. CASE Deliver(u)
    BY <2>2 DEF Deliver, Goto
  <2>3. CASE \/ SelectSubscribers(u) \/ Commit(u) \/ Ack(u)
             \/ EnrichFatal(u) \/ EnrichSucceeds(u)
    BY <2>3 DEF SelectSubscribers, Commit, Ack, EnrichFatal, EnrichSucceeds, Goto
  <2>4. CASE DiscardJunk(u)
    BY <2>4 DEF DiscardJunk
  <2>5. CASE \/ SkipDuplicate(u) \/ AckRaises(u) \/ EnrichGivesUp(u) \/ RecordFatal(u)
             \/ PersistEnrichment(u) \/ TaskFault(u)
    <3>1. End(u)
      BY <2>5 DEF SkipDuplicate, AckRaises, EnrichGivesUp, RecordFatal, PersistEnrichment,
                  TaskFault, TransactionFails, CommitAnswerLost, SessionFails
    <3> QED BY <3>1 DEF End, Goto
  <2> QED BY <1>1, <2>1, <2>2, <2>3, <2>4, <2>5 DEF TaskStep
<1>2. ASSUME NEW p \in Consumers, ConnectionLost(p)
      PROVE  Owns(t, m)
  BY <1>2 DEF ConnectionLost
<1>3. ASSUME NEW p \in Consumers, Crash(p)
      PROVE  Owns(t, m)
  BY <1>3 DEF Crash
<1>4. CASE BrokerRestart
  BY <1>4 DEF BrokerRestart
<1>5. CASE UNCHANGED taskVars
  BY <1>5
<1> QED BY <1>1, <1>2, <1>3, <1>4, <1>5 DEF Next, ConsumerNext, vars

LEMMA OrphanStep ==
    ASSUME TypeInv, OwnerInv, OutcomeInv, [Next]_vars, NEW m \in Ids, Orphan(m)
    PROVE  Orphan(m)'
<1>1. status'[m] # "none"
  BY LedgerStep
     DEF TypeInv, TypeOK, SharedTypeOK, Orphan, LedgerVars, Ledger!Next, Ledger!Accept,
         Ledger!Enrich, Ledger!FailForGood, Ledger!Abandon, Ledger!Accepted
<1>2. ASSUME NEW t \in Tasks PROVE ~Owns(t, m)'
  BY OwnerStays DEF Orphan
<1> QED BY <1>1, <1>2 DEF Orphan

\* What the reconciler re-enqueues is skipped as a duplicate: no task ever
\* works on the row again, so it can only be abandoned.
THEOREM OrphanForeverAlways == Spec => OrphanForever
<1>1. TypeInv /\ OwnerInv /\ OutcomeInv /\ [Next]_vars
          => [\A m \in Ids : Orphan(m) => Orphan(m)']_vars
  BY OrphanStep
<1> QED BY TypeInvariant, OwnerInvariant, OutcomeInvariant, <1>1, PTL
    DEF Spec, OrphanForever
=============================================================================
