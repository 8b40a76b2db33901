------------------------------- MODULE Ingest -------------------------------
(***************************************************************************)
(* The ingest side of the service: the consumer's handler tasks and the    *)
(* reconcilers, running against one queue and one database, with crashes   *)
(* of the processes they live in.                                          *)
(***************************************************************************)
EXTENDS Consumer, Reconciler

vars == <<sharedVars, taskVars, reconcilerVars>>

Init == SharedInit /\ ConsumerInit /\ ReconcilerInit

\* A consumer process dies and is started again.  Its tasks and its
\* reconciler's session are gone; the broker requeues what it held.
Crash(p) ==
    /\ Fault
    /\ stage' = [t \in Tasks |-> IF t[1] = p THEN "idle" ELSE stage[t]]
    /\ copy' = [t \in Tasks |-> IF t[1] = p THEN Nil ELSE copy[t]]
    /\ mid' = [t \in Tasks |-> IF t[1] = p THEN Nil ELSE mid[t]]
    /\ picked' = [t \in Tasks |-> IF t[1] = p THEN {} ELSE picked[t]]
    /\ Sleep(p)
    /\ UNCHANGED <<queueVars, keyVars, attempts, active, stale>>

Next ==
    \/ Surroundings /\ UNCHANGED <<taskVars, reconcilerVars>>
    \/ ConsumerNext /\ UNCHANGED reconcilerVars
    \/ ReconcilerNext /\ UNCHANGED taskVars
    \/ \E p \in Consumers : Crash(p)

Spec == Init /\ [][Next]_vars

\* asyncio resumes every runnable task, and the reconciler wakes up every
\* interval.  A publish needs room in the queue, which comes and goes.
Fairness ==
    /\ \A t \in Tasks : WF_vars(TaskStep(t) /\ UNCHANGED reconcilerVars)
    /\ \A m \in Ids : WF_vars(RowAges(m) /\ UNCHANGED taskVars)
    /\ \A p \in Consumers :
          /\ WF_vars((LoadStale(p) \/ CommitCycle(p)) /\ UNCHANGED taskVars)
          /\ \A m \in Ids :
                /\ WF_vars(GiveUp(p, m) /\ UNCHANGED taskVars)
                /\ SF_vars(Republish(p, m) /\ UNCHANGED taskVars)

FairSpec == Spec /\ Fairness

-----------------------------------------------------------------------------
(* Safety *)

\* Type correctness, with the cap on reconcile_count: no cycle loads or
\* writes a count above settings.reconciler_max_attempts.
TypeOK ==
    /\ SharedTypeOK /\ ConsumerTypeOK /\ ReconcilerTypeOK
    /\ \A m \in Ids : rcount[m] <= MaxAttempts

Owns(t, m) == mid[t] = m /\ stage[t] \in OwnerStages

\* ON CONFLICT DO NOTHING: however often a message is delivered, redelivered
\* or re-enqueued, at most one task ever works on its row.
OneOwner ==
    \A t, u \in Tasks, m \in Ids : Owns(t, m) /\ Owns(u, m) => t = u

\* The early ack is safe: a message that the API published stays in the
\* broker until its row and its delivery attempts are committed, through
\* crashes, broker restarts, lost channels and duplicates; only an exception
\* before the commit, which rejects the message, can lose it.
NoSilentLoss ==
    \A m \in Ids : sent[m] > 0 =>
        \/ \E c \in Copies : slot[c] = m
        \/ status[m] # "none"
        \/ m \in rejected

\* A counted reconciler cycle is one that reached the queue: crashes,
\* timeouts and two reconcilers overwriting each other's count never make
\* reconcile_count run ahead of the messages published.
CountIsEarned == \A m \in Ids : rcount[m] <= reenqueued[m]

\* A row is abandoned only after reconciler_max_attempts re-enqueues.
AbandonedAfterCap ==
    \A m \in Ids : status[m] = "failed" => reenqueued[m] >= MaxAttempts

\* A row whose last recorded error is a fatal enrichment error has not been
\* enriched by anybody, before or after.
FatalIsFinal == \A m \in Ids : error[m] = "fatal" => m \notin enriched

\* A message without message_id gets a new one on every delivery, so it is not
\* deduplicated: every row beyond the first is the price of a fault that made
\* the broker deliver it again, and re-enqueueing by the reconciler makes none.
ExtraRowsNeedFaults ==
    Cardinality({m \in Uuids : status[m] # "none"}) <= sent[Anon] * (1 + faults)

\* A row in 'received' that no task works on any more: its handler crashed,
\* lost its channel or gave up.
Orphan(m) == status[m] # "none" /\ \A t \in Tasks : ~Owns(t, m)

\* What the code really does for such a row: no delivery of its message,
\* re-enqueued ones included, ever makes a task work on it again.
OrphanForever == [][\A m \in Ids : Orphan(m) => Orphan(m)']_vars

Ledger == INSTANCE EventLedger WITH
              status <- status, enriched <- enriched, error <- error,
              attempts <- attempts

\* Whatever is redelivered, re-enqueued, lost or abandoned, the tables change
\* as EventLedger says: one acceptance per event with a fixed fan-out, one
\* enrichment at most.
ImplementsLedger == Ledger!Spec

-----------------------------------------------------------------------------
(* Liveness *)

\* No row stays in 'received': it is enriched, or abandoned after the cap.
Settles ==
    \A m \in Ids : status[m] = "received" ~> status[m] \in {"enriched", "failed"}

-----------------------------------------------------------------------------
(* What the comments and the documentation say, and the code does not do *)

\* rabbitmq.py:165 "Reconciler will retry later (status stays 'received')":
\* an orphaned row is eventually worked on again.
RetriedLater ==
    \A m \in Ids : Orphan(m) /\ status[m] = "received"
                       ~> \E t \in Tasks : Owns(t, m)
=============================================================================
