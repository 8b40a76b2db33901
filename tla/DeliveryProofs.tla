--------------------------- MODULE DeliveryProofs ---------------------------
(***************************************************************************)
(* Theorems about Delivery, for every value of its constants: any number   *)
(* of rows, workers and retry requests.                                    *)
(*                                                                         *)
(* As in IngestProofs, the invariants come in layers: types, then claims,  *)
(* then the two counters that depend on what a claim still stands for.     *)
(* On top of them the delivery side implements DeliveryLedger.             *)
(***************************************************************************)
EXTENDS Delivery, TLAPS

USE DeliveryAssumption

-----------------------------------------------------------------------------
(* Layer 1: types *)

LEMMA TypeInit == Init => TypeOK
BY DEF Init, TypeOK, RowStatuses

LEMMA TypeStep ==
    ASSUME TypeOK, [Next]_vars
    PROVE  TypeOK'
<1> USE DEF TypeOK, RowStatuses, rowVars, workerVars, historyVars
<1>1. ASSUME NEW S \in SUBSET Rows, Create(S)
      PROVE  TypeOK'
  BY <1>1 DEF Create, Insert
<1>2. ASSUME NEW d \in Rows, BackoffElapses(d)
      PROVE  TypeOK'
  BY <1>2 DEF BackoffElapses
<1>3. ASSUME NEW d \in Rows, AgesOut(d)
      PROVE  TypeOK'
  BY <1>3 DEF AgesOut
<1>4. ASSUME NEW s \in Subs, FlipSubscriber(s)
      PROVE  TypeOK'
  BY <1>4 DEF FlipSubscriber
<1>5. ASSUME NEW w \in Workers, Claim(w)
      PROVE  TypeOK'
  BY <1>5 DEF Claim, Claimable, MarkInFlight, Between
<1>6. ASSUME NEW w \in Workers, NEW d \in Rows, Refetch(w, d)
      PROVE  TypeOK'
  BY <1>6 DEF Refetch, Between
<1>7. ASSUME NEW w \in Workers, DropInactive(w)
      PROVE  TypeOK'
  BY <1>7 DEF DropInactive, Return
<1>8. ASSUME NEW w \in Workers, Post(w)
      PROVE  TypeOK'
  BY <1>8 DEF Post
<1>9. ASSUME NEW w \in Workers, PostRaises(w)
      PROVE  TypeOK'
  BY <1>9 DEF PostRaises, Abort, Return
<1>10. ASSUME NEW w \in Workers, Record(w)
      PROVE  TypeOK'
  BY <1>10 DEF Record, WriteOutcome, Outcome, Return
<1>11. CASE StaleReset
  BY <1>11 DEF StaleReset, HeldRows
<1>12. ASSUME NEW r \in Requests, NEW d \in Rows, RetryRead(r, d)
      PROVE  TypeOK'
  BY <1>12 DEF RetryRead
<1>13. ASSUME NEW r \in Requests, RetryWrite(r)
      PROVE  TypeOK'
  BY <1>13 DEF RetryWrite
<1>14. ASSUME NEW w \in Workers, BatchLost(w)
      PROVE  TypeOK'
  BY <1>14 DEF BatchLost, Fault, Abort, Return
<1>15. ASSUME NEW w \in Workers, ClaimAnswerLost(w)
      PROVE  TypeOK'
  BY <1>15 DEF ClaimAnswerLost, Fault, Claimable, MarkInFlight
<1>16. ASSUME NEW w \in Workers, RecordAnswerLost(w)
      PROVE  TypeOK'
  BY <1>16 DEF RecordAnswerLost, Fault, WriteOutcome, Outcome, Abort, Return
<1>17. CASE UNCHANGED vars
  BY <1>17 DEF vars
<1> QED BY <1>1, <1>2, <1>3, <1>4, <1>5, <1>6, <1>7, <1>8, <1>9, <1>10, <1>11, <1>12, <1>13, <1>14, <1>15, <1>16, <1>17 DEF Next, RowStep, WorkerStep, WorkerFault

\* delivery_attempts and the workers' row objects keep their types, and a worker
\* is inside _deliver_attempt exactly while it has a row.
THEOREM TypeCorrect == Spec => []TypeOK
BY TypeInit, TypeStep, PTL DEF Spec

-----------------------------------------------------------------------------
(* Layer 2: claims *)

\* A worker takes a row out of its batch before it works on it.
CurTaken == \A w \in Workers : cur[w] \notin held[w]

ClaimInv == CurTaken /\ ClaimStands /\ ClaimDisjoint

LEMMA ClaimInit == Init => ClaimInv
BY DEF Init, ClaimInv, CurTaken, ClaimStands, ClaimDisjoint, Holds

LEMMA ClaimStep ==
    ASSUME TypeOK, ClaimInv, [Next]_vars
    PROVE  ClaimInv'
<1> USE DEF TypeOK, RowStatuses, rowVars, workerVars, historyVars, ClaimInv, CurTaken, ClaimStands, ClaimDisjoint, Holds
<1>1. ASSUME NEW S \in SUBSET Rows, Create(S)
      PROVE  ClaimInv'
  BY <1>1 DEF Create, Insert
<1>2. ASSUME NEW d \in Rows, BackoffElapses(d)
      PROVE  ClaimInv'
  BY <1>2 DEF BackoffElapses
<1>3. ASSUME NEW d \in Rows, AgesOut(d)
      PROVE  ClaimInv'
  BY <1>3 DEF AgesOut
<1>4. ASSUME NEW s \in Subs, FlipSubscriber(s)
      PROVE  ClaimInv'
  BY <1>4 DEF FlipSubscriber
<1>5. ASSUME NEW w \in Workers, Claim(w)
      PROVE  ClaimInv'
  <2>1. PICK S \in SUBSET Claimable :
           /\ MarkInFlight(S)
           /\ held' = [held EXCEPT ![w] = S]
           /\ snap' = [snap EXCEPT ![w] = [d \in Rows |-> IF d \in S THEN dcount[d] ELSE 0]]
    BY ONLY <1>5 DEF Claim
  <2>2. held[w] = {} /\ cur[w] = Nil /\ UNCHANGED <<dcount, cur, disturbed>>
    BY <1>5 DEF Claim, Between
  <2>3. \A d \in Rows \ disturbed : d \in S => \A v \in Workers : ~Holds(v, d)
    <3>1. \A d \in S : dstatus[d] # "in_flight"
      BY ONLY <2>1 DEF Claimable
    <3>2. ClaimStands
      OBVIOUS
    <3> QED
      BY ONLY <3>1, <3>2 DEF ClaimStands
  <2>4. \A d \in Rows : dstatus'[d] = IF d \in S THEN "in_flight" ELSE dstatus[d]
    BY <2>1 DEF MarkInFlight
  <2>5. \A v \in Workers, d \in Rows :
           Holds(v, d)' <=> IF v = w THEN d \in S ELSE Holds(v, d)
    BY <2>1, <2>2 DEF Claimable
  <2>6. CurTaken'
    BY <2>1, <2>2 DEF Claimable
  <2>7. ClaimStands'
    BY <2>1, <2>2, <2>4, <2>5 DEF Claimable
  <2>8. ClaimDisjoint'
    BY <2>2, <2>3, <2>5
  <2> QED BY <2>6, <2>7, <2>8
<1>6. ASSUME NEW w \in Workers, NEW d \in Rows, Refetch(w, d)
      PROVE  ClaimInv'
  BY <1>6 DEF Refetch, Between
<1>7. ASSUME NEW w \in Workers, DropInactive(w)
      PROVE  ClaimInv'
  BY <1>7 DEF DropInactive, Return
<1>8. ASSUME NEW w \in Workers, Post(w)
      PROVE  ClaimInv'
  BY <1>8 DEF Post
<1>9. ASSUME NEW w \in Workers, PostRaises(w)
      PROVE  ClaimInv'
  BY <1>9 DEF PostRaises, Abort, Return
<1>10. ASSUME NEW w \in Workers, Record(w)
      PROVE  ClaimInv'
  BY <1>10 DEF Record, WriteOutcome, Outcome, Return
<1>11. CASE StaleReset
  BY <1>11 DEF StaleReset, HeldRows
<1>12. ASSUME NEW r \in Requests, NEW d \in Rows, RetryRead(r, d)
      PROVE  ClaimInv'
  BY <1>12 DEF RetryRead
<1>13. ASSUME NEW r \in Requests, RetryWrite(r)
      PROVE  ClaimInv'
  BY <1>13 DEF RetryWrite
<1>14. ASSUME NEW w \in Workers, BatchLost(w)
      PROVE  ClaimInv'
  BY <1>14 DEF BatchLost, Fault, Abort, Return
<1>15. ASSUME NEW w \in Workers, ClaimAnswerLost(w)
      PROVE  ClaimInv'
  BY <1>15 DEF ClaimAnswerLost, Fault, Claimable, MarkInFlight
<1>16. ASSUME NEW w \in Workers, RecordAnswerLost(w)
      PROVE  ClaimInv'
  BY <1>16 DEF RecordAnswerLost, Fault, WriteOutcome, Outcome, Abort, Return
<1>17. CASE UNCHANGED vars
  BY <1>17 DEF vars
<1> QED BY <1>1, <1>2, <1>3, <1>4, <1>5, <1>6, <1>7, <1>8, <1>9, <1>10, <1>11, <1>12, <1>13, <1>14, <1>15, <1>16, <1>17 DEF Next, RowStep, WorkerStep, WorkerFault

THEOREM ClaimInvariant == Spec => []ClaimInv
BY ClaimInit, ClaimStep, TypeCorrect, PTL DEF Spec

\* _process_batch, FOR UPDATE SKIP LOCKED: two workers have one row only after
\* a stale reset or a retry request took it away from a worker.
THEOREM ClaimDisjointAlways == Spec => []ClaimDisjoint
<1>1. ClaimInv => ClaimDisjoint
  BY DEF ClaimInv
<1> QED BY ClaimInvariant, <1>1, PTL

\* _deliver_attempt works from row objects that are still right: the row is
\* in_flight with the attempt_count that was loaded.
THEOREM ClaimStandsAlways == Spec => []ClaimStands
<1>1. ClaimInv => ClaimStands
  BY DEF ClaimInv
<1> QED BY ClaimInvariant, <1>1, PTL

-----------------------------------------------------------------------------
(* Layer 3: attempt_count *)

\* A row that can be tried again, and a row object in a batch, leave room for
\* one more attempt.
BudgetInv ==
    \A d \in Rows :
        /\ dcount[d] <= MaxAttempts + retries[d]
        /\ dstatus[d] \notin {"delivered", "dead"} => dcount[d] < MaxAttempts + retries[d]
        /\ \A w \in Workers : Holds(w, d) => snap[w][d] < MaxAttempts + retries[d]

LEMMA BudgetInit == Init => BudgetInv
BY DEF Init, BudgetInv, Holds

LEMMA BudgetStep ==
    ASSUME TypeOK, BudgetInv, [Next]_vars
    PROVE  BudgetInv'
<1> USE DEF TypeOK, RowStatuses, rowVars, workerVars, historyVars, BudgetInv, Holds
<1>1. ASSUME NEW S \in SUBSET Rows, Create(S)
      PROVE  BudgetInv'
  BY <1>1 DEF Create, Insert
<1>2. ASSUME NEW d \in Rows, BackoffElapses(d)
      PROVE  BudgetInv'
  BY <1>2 DEF BackoffElapses
<1>3. ASSUME NEW d \in Rows, AgesOut(d)
      PROVE  BudgetInv'
  BY <1>3 DEF AgesOut
<1>4. ASSUME NEW s \in Subs, FlipSubscriber(s)
      PROVE  BudgetInv'
  BY <1>4 DEF FlipSubscriber
<1>5. ASSUME NEW w \in Workers, Claim(w)
      PROVE  BudgetInv'
  <2>1. PICK S \in SUBSET Claimable :
           /\ MarkInFlight(S)
           /\ held' = [held EXCEPT ![w] = S]
           /\ snap' = [snap EXCEPT ![w] = [d \in Rows |-> IF d \in S THEN dcount[d] ELSE 0]]
    BY ONLY <1>5 DEF Claim
  <2>2. held[w] = {} /\ cur[w] = Nil /\ UNCHANGED <<dcount, cur, retries>>
    BY <1>5 DEF Claim, Between
  <2>3. \A d \in S : d \in Rows /\ dcount[d] < MaxAttempts + retries[d]
    BY <2>1 DEF Claimable
  <2>4. \A v \in Workers, d \in Rows :
           Holds(v, d)' => IF v = w THEN d \in S ELSE Holds(v, d)
    BY <2>1, <2>2 DEF Claimable
  <2>5. \A v \in Workers, d \in Rows :
           Holds(v, d)' => snap'[v][d] < MaxAttempts + retries[d]
    BY <2>1, <2>3, <2>4
  <2>6. \A d \in Rows : dstatus'[d] \notin {"delivered", "dead"}
                            => dcount[d] < MaxAttempts + retries[d]
    BY <2>1, <2>3 DEF MarkInFlight
  <2> QED BY <2>2, <2>5, <2>6
<1>6. ASSUME NEW w \in Workers, NEW d \in Rows, Refetch(w, d)
      PROVE  BudgetInv'
  BY <1>6 DEF Refetch, Between
<1>7. ASSUME NEW w \in Workers, DropInactive(w)
      PROVE  BudgetInv'
  BY <1>7 DEF DropInactive, Return
<1>8. ASSUME NEW w \in Workers, Post(w)
      PROVE  BudgetInv'
  BY <1>8 DEF Post
<1>9. ASSUME NEW w \in Workers, PostRaises(w)
      PROVE  BudgetInv'
  BY <1>9 DEF PostRaises, Abort, Return
<1>10. ASSUME NEW w \in Workers, Record(w)
      PROVE  BudgetInv'
  BY <1>10 DEF Record, WriteOutcome, Outcome, Return
<1>11. CASE StaleReset
  BY <1>11 DEF StaleReset, HeldRows
<1>12. ASSUME NEW r \in Requests, NEW d \in Rows, RetryRead(r, d)
      PROVE  BudgetInv'
  BY <1>12 DEF RetryRead
<1>13. ASSUME NEW r \in Requests, RetryWrite(r)
      PROVE  BudgetInv'
  BY <1>13 DEF RetryWrite
<1>14. ASSUME NEW w \in Workers, BatchLost(w)
      PROVE  BudgetInv'
  BY <1>14 DEF BatchLost, Fault, Abort, Return
<1>15. ASSUME NEW w \in Workers, ClaimAnswerLost(w)
      PROVE  BudgetInv'
  BY <1>15 DEF ClaimAnswerLost, Fault, Claimable, MarkInFlight
<1>16. ASSUME NEW w \in Workers, RecordAnswerLost(w)
      PROVE  BudgetInv'
  BY <1>16 DEF RecordAnswerLost, Fault, WriteOutcome, Outcome, Abort, Return
<1>17. CASE UNCHANGED vars
  BY <1>17 DEF vars
<1> QED BY <1>1, <1>2, <1>3, <1>4, <1>5, <1>6, <1>7, <1>8, <1>9, <1>10, <1>11, <1>12, <1>13, <1>14, <1>15, <1>16, <1>17 DEF Next, RowStep, WorkerStep, WorkerFault

\* _deliver_attempt against every race with resets, retries and other workers:
\* attempt_count exceeds delivery_max_attempts by at most the retry requests.
THEOREM AttemptBudgetAlways == Spec => []AttemptBudget
<1>1. BudgetInv => AttemptBudget
  BY DEF BudgetInv, AttemptBudget
<1> QED BY BudgetInit, BudgetStep, TypeCorrect, <1>1, PTL DEF Spec

-----------------------------------------------------------------------------
(* Layer 4: what the subscriber has acknowledged *)

\* A 2xx answer that was heard and is recorded, or still can be.
Answered(d) ==
    \/ dstatus[d] = "delivered"
    \/ \E w \in Workers : cur[w] = d /\ step[w] = "recording" /\ result[w]

AckInv ==
    \A d \in Rows \ disturbed :
        /\ acked[d] <= 1 + faults + unheard[d]
        /\ ~Answered(d) => acked[d] <= faults + unheard[d]

LEMMA AckInit == Init => AckInv
BY DEF Init, AckInv

LEMMA AckStep ==
    ASSUME TypeOK, ClaimInv, AckInv, [Next]_vars
    PROVE  AckInv'
<1> USE DEF TypeOK, RowStatuses, rowVars, workerVars, historyVars, ClaimInv, CurTaken, ClaimStands, ClaimDisjoint, Holds, AckInv, Answered
<1>1. ASSUME NEW S \in SUBSET Rows, Create(S)
      PROVE  AckInv'
  BY <1>1 DEF Create, Insert
<1>2. ASSUME NEW d \in Rows, BackoffElapses(d)
      PROVE  AckInv'
  BY <1>2 DEF BackoffElapses
<1>3. ASSUME NEW d \in Rows, AgesOut(d)
      PROVE  AckInv'
  BY <1>3 DEF AgesOut
<1>4. ASSUME NEW s \in Subs, FlipSubscriber(s)
      PROVE  AckInv'
  BY <1>4 DEF FlipSubscriber
<1>5. ASSUME NEW w \in Workers, Claim(w)
      PROVE  AckInv'
  <2>1. PICK S \in SUBSET Claimable : MarkInFlight(S)
    BY ONLY <1>5 DEF Claim
  <2>2. UNCHANGED <<cur, step, result, acked, unheard, disturbed, faults>>
    BY <1>5 DEF Claim
  <2>3. \A d \in Rows : dstatus[d] = "delivered" => dstatus'[d] = "delivered"
    BY <2>1 DEF MarkInFlight, Claimable
  <2>4. \A d \in Rows : Answered(d) => Answered(d)'
    BY <2>2, <2>3
  <2> QED BY <2>2, <2>4
<1>6. ASSUME NEW w \in Workers, NEW d \in Rows, Refetch(w, d)
      PROVE  AckInv'
  BY <1>6 DEF Refetch, Between
<1>7. ASSUME NEW w \in Workers, DropInactive(w)
      PROVE  AckInv'
  BY <1>7 DEF DropInactive, Return
<1>8. ASSUME NEW w \in Workers, Post(w)
      PROVE  AckInv'
  <2>1. PICK ack \in BOOLEAN, ok \in BOOLEAN :
           /\ ok => ack
           /\ result' = [result EXCEPT ![w] = ok]
           /\ acked' = IF ack THEN [acked EXCEPT ![cur[w]] = @ + 1] ELSE acked
           /\ unheard' = IF ack /\ ~ok THEN [unheard EXCEPT ![cur[w]] = @ + 1] ELSE unheard
    BY <1>8 DEF Post
  <2>2. /\ cur[w] \in Rows /\ step[w] = "sending"
        /\ step' = [step EXCEPT ![w] = "recording"]
        /\ UNCHANGED <<dstatus, cur, disturbed, faults>>
    BY <1>8 DEF Post
  <2>3. ASSUME NEW d \in Rows \ disturbed
        PROVE  /\ acked'[d] <= 1 + faults + unheard'[d]
               /\ ~Answered(d)' => acked'[d] <= faults + unheard'[d]
    <3>1. CASE d = cur[w]
      <4>1. acked[d] \in Nat /\ unheard[d] \in Nat /\ faults \in Nat
        OBVIOUS
      <4>2. acked[d] <= faults + unheard[d]
        BY <3>1, <2>2
      <4>3. /\ acked'[d] = IF ack THEN acked[d] + 1 ELSE acked[d]
            /\ unheard'[d] = IF ack /\ ~ok THEN unheard[d] + 1 ELSE unheard[d]
        BY <3>1, <2>1, <2>2
      <4>4. ok => Answered(d)'
        BY <3>1, <2>1, <2>2
      <4> HIDE DEF Answered, TypeOK, AckInv
      <4> QED BY <2>1, <4>1, <4>2, <4>3, <4>4
    <3>2. CASE d # cur[w]
      <4>1. acked'[d] = acked[d] /\ unheard'[d] = unheard[d] /\ (Answered(d) => Answered(d)')
        BY <3>2, <2>1, <2>2
      <4> QED BY <4>1
    <3> QED BY <3>1, <3>2
  <2> QED BY <2>2, <2>3
<1>9. ASSUME NEW w \in Workers, PostRaises(w)
      PROVE  AckInv'
  BY <1>9 DEF PostRaises, Abort, Return
<1>10. ASSUME NEW w \in Workers, Record(w)
      PROVE  AckInv'
  BY <1>10 DEF Record, WriteOutcome, Outcome, Return
<1>11. CASE StaleReset
  BY <1>11 DEF StaleReset, HeldRows
<1>12. ASSUME NEW r \in Requests, NEW d \in Rows, RetryRead(r, d)
      PROVE  AckInv'
  BY <1>12 DEF RetryRead
<1>13. ASSUME NEW r \in Requests, RetryWrite(r)
      PROVE  AckInv'
  BY <1>13 DEF RetryWrite
<1>14. ASSUME NEW w \in Workers, BatchLost(w)
      PROVE  AckInv'
  BY <1>14 DEF BatchLost, Fault, Abort, Return
<1>15. ASSUME NEW w \in Workers, ClaimAnswerLost(w)
      PROVE  AckInv'
  BY <1>15 DEF ClaimAnswerLost, Fault, Claimable, MarkInFlight
<1>16. ASSUME NEW w \in Workers, RecordAnswerLost(w)
      PROVE  AckInv'
  BY <1>16 DEF RecordAnswerLost, Fault, WriteOutcome, Outcome, Abort, Return
<1>17. CASE UNCHANGED vars
  BY <1>17 DEF vars
<1> QED BY <1>1, <1>2, <1>3, <1>4, <1>5, <1>6, <1>7, <1>8, <1>9, <1>10, <1>11, <1>12, <1>13, <1>14, <1>15, <1>16, <1>17 DEF Next, RowStep, WorkerStep, WorkerFault

\* _deliver_attempt: a subscriber that acknowledged a row gets it again only
\* when its answer was lost: to a timeout or a broken connection, or to a crash
\* or a failed session before the record.
THEOREM DuplicateNeedsLossAlways == Spec => []DuplicateNeedsLoss
<1>1. AckInv => DuplicateNeedsLoss
  BY DEF AckInv, DuplicateNeedsLoss
<1> QED BY AckInit, AckStep, ClaimInvariant, TypeCorrect, <1>1, PTL DEF Spec

\* Each 2xx answer, heard or not, is paid for: by a counted attempt, by the one
\* under way, or by a fault.
Recording(d) == \E w \in Workers : cur[w] = d /\ step[w] = "recording"

SentInv ==
    \A d \in Rows \ disturbed :
        /\ acked[d] <= dcount[d] + faults + 1
        /\ ~Recording(d) => acked[d] <= dcount[d] + faults

LEMMA SentInit == Init => SentInv
BY DEF Init, SentInv

LEMMA SentStep ==
    ASSUME TypeOK, ClaimInv, SentInv, [Next]_vars
    PROVE  SentInv'
<1> USE DEF TypeOK, RowStatuses, rowVars, workerVars, historyVars, ClaimInv, CurTaken, ClaimStands, ClaimDisjoint, Holds, SentInv, Recording
<1>1. ASSUME NEW S \in SUBSET Rows, Create(S)
      PROVE  SentInv'
  BY <1>1 DEF Create, Insert
<1>2. ASSUME NEW d \in Rows, BackoffElapses(d)
      PROVE  SentInv'
  BY <1>2 DEF BackoffElapses
<1>3. ASSUME NEW d \in Rows, AgesOut(d)
      PROVE  SentInv'
  BY <1>3 DEF AgesOut
<1>4. ASSUME NEW s \in Subs, FlipSubscriber(s)
      PROVE  SentInv'
  BY <1>4 DEF FlipSubscriber
<1>5. ASSUME NEW w \in Workers, Claim(w)
      PROVE  SentInv'
  BY <1>5 DEF Claim
<1>6. ASSUME NEW w \in Workers, NEW d \in Rows, Refetch(w, d)
      PROVE  SentInv'
  BY <1>6 DEF Refetch, Between
<1>7. ASSUME NEW w \in Workers, DropInactive(w)
      PROVE  SentInv'
  BY <1>7 DEF DropInactive, Return
<1>8. ASSUME NEW w \in Workers, Post(w)
      PROVE  SentInv'
  <2>1. cur[w] \in Rows /\ step[w] = "sending" /\ step' = [step EXCEPT ![w] = "recording"]
        /\ UNCHANGED <<dcount, cur, disturbed, faults>>
    BY <1>8 DEF Post
  <2>2. acked'[cur[w]] <= acked[cur[w]] + 1 /\ \A d \in Rows : d # cur[w] => acked'[d] = acked[d]
    BY <1>8, <2>1 DEF Post
  <2>3. \A d \in Rows \ disturbed : d = cur[w] => ~Recording(d)
    BY <2>1
  <2>4. \A d \in Rows : (d = cur[w] => Recording(d)') /\ (d # cur[w] => Recording(d)' = Recording(d))
    BY <2>1
  <2>5. \A d \in Rows : acked[d] \in Nat /\ acked'[d] \in Nat /\ dcount[d] \in Nat /\ faults \in Nat
    BY <1>8 DEF Post
  <2> HIDE DEF Recording, TypeOK
  <2> QED BY <2>1, <2>2, <2>3, <2>4, <2>5
<1>9. ASSUME NEW w \in Workers, PostRaises(w)
      PROVE  SentInv'
  BY <1>9 DEF PostRaises, Abort, Return
<1>10. ASSUME NEW w \in Workers, Record(w)
      PROVE  SentInv'
  BY <1>10 DEF Record, WriteOutcome, Outcome, Return
<1>11. CASE StaleReset
  BY <1>11 DEF StaleReset, HeldRows
<1>12. ASSUME NEW r \in Requests, NEW d \in Rows, RetryRead(r, d)
      PROVE  SentInv'
  BY <1>12 DEF RetryRead
<1>13. ASSUME NEW r \in Requests, RetryWrite(r)
      PROVE  SentInv'
  BY <1>13 DEF RetryWrite
<1>14. ASSUME NEW w \in Workers, BatchLost(w)
      PROVE  SentInv'
  BY <1>14 DEF BatchLost, Fault, Abort, Return
<1>15. ASSUME NEW w \in Workers, ClaimAnswerLost(w)
      PROVE  SentInv'
  BY <1>15 DEF ClaimAnswerLost, Fault, Claimable, MarkInFlight
<1>16. ASSUME NEW w \in Workers, RecordAnswerLost(w)
      PROVE  SentInv'
  BY <1>16 DEF RecordAnswerLost, Fault, WriteOutcome, Outcome, Abort, Return
<1>17. CASE UNCHANGED vars
  BY <1>17 DEF vars
<1> QED BY <1>1, <1>2, <1>3, <1>4, <1>5, <1>6, <1>7, <1>8, <1>9, <1>10, <1>11, <1>12, <1>13, <1>14, <1>15, <1>16, <1>17 DEF Next, RowStep, WorkerStep, WorkerFault

\* _deliver_attempt counts an attempt whatever became of its answer: a subscriber
\* that acknowledges every POST, and is heard never, acknowledges a row at most
\* delivery_max_attempts times, and once more per retry request and fault.
THEOREM AckBudgetAlways == Spec => []AckBudget
<1>1. TypeOK /\ ClaimInv /\ BudgetInv /\ SentInv => AckBudget
  <2> SUFFICES ASSUME TypeOK, ClaimInv, BudgetInv, SentInv, NEW d \in Rows \ disturbed
               PROVE  acked[d] <= MaxAttempts + retries[d] + faults
    BY DEF AckBudget
  <2>1. /\ acked[d] \in Nat /\ dcount[d] \in Nat /\ retries[d] \in Nat /\ faults \in Nat
        /\ \A w \in Workers : snap[w][d] \in Nat
    BY DEF TypeOK
  <2>2. CASE Recording(d)
    <3>1. PICK w \in Workers : Holds(w, d)
      BY <2>2 DEF Recording, Holds
    <3>2. dcount[d] = snap[w][d] /\ snap[w][d] < MaxAttempts + retries[d]
      BY <3>1 DEF ClaimInv, ClaimStands, BudgetInv
    <3> QED BY <2>1, <3>2 DEF SentInv
  <2>3. CASE ~Recording(d)
    BY <2>1, <2>3 DEF SentInv, BudgetInv
  <2> QED BY <2>2, <2>3
<1>2. Spec => []BudgetInv
  BY BudgetInit, BudgetStep, TypeCorrect, PTL DEF Spec
<1>3. Spec => []SentInv
  BY SentInit, SentStep, ClaimInvariant, TypeCorrect, PTL DEF Spec
<1> QED BY <1>1, <1>2, <1>3, ClaimInvariant, TypeCorrect, PTL

-----------------------------------------------------------------------------
(* Layer 5: late POSTs *)

\* Only inactive subscribers have late POSTs, and a worker that made one is
\* not about to POST to that subscriber again.
LateInv ==
    /\ \A p \in late : p[2] \notin active
    /\ \A w \in Workers : step[w] = "sending" => <<w, SubOf[cur[w]]>> \notin late

LEMMA LateInit == Init => LateInv
BY DEF Init, LateInv

LEMMA LateStep ==
    ASSUME TypeOK, LateInv, [Next]_vars
    PROVE  LateInv'
<1> USE DEF TypeOK, rowVars, workerVars, historyVars, LateInv
<1>1. ASSUME NEW S \in SUBSET Rows, Create(S)
      PROVE  LateInv'
  BY <1>1 DEF Create, Insert
<1>2. ASSUME NEW d \in Rows, BackoffElapses(d) \/ AgesOut(d)
      PROVE  LateInv'
  BY <1>2 DEF BackoffElapses, AgesOut
<1>3. ASSUME NEW s \in Subs, FlipSubscriber(s)
      PROVE  LateInv'
  BY <1>3 DEF FlipSubscriber
<1>4. ASSUME NEW w \in Workers, Claim(w) \/ ClaimAnswerLost(w)
      PROVE  LateInv'
  BY <1>4 DEF Claim, ClaimAnswerLost
<1>5. ASSUME NEW w \in Workers, NEW d \in Rows, Refetch(w, d)
      PROVE  LateInv'
  BY <1>5 DEF Refetch
<1>6. ASSUME NEW w \in Workers, Post(w)
      PROVE  LateInv'
  BY <1>6 DEF Post
<1>7. ASSUME NEW w \in Workers, DropInactive(w)
      PROVE  LateInv'
  BY <1>7 DEF DropInactive, Return
<1>8. ASSUME NEW w \in Workers, PostRaises(w) \/ BatchLost(w)
      PROVE  LateInv'
  BY <1>8 DEF PostRaises, BatchLost, Abort, Return
<1>9. ASSUME NEW w \in Workers, Record(w) \/ RecordAnswerLost(w)
      PROVE  LateInv'
  BY <1>9 DEF Record, RecordAnswerLost, Abort, Return
<1>10. CASE StaleReset
  BY <1>10 DEF StaleReset
<1>11. ASSUME NEW r \in Requests, RetryWrite(r) \/ \E d \in Rows : RetryRead(r, d)
      PROVE  LateInv'
  BY <1>11 DEF RetryRead, RetryWrite
<1>12. CASE UNCHANGED vars
  BY <1>12 DEF vars
<1> QED BY <1>1, <1>2, <1>3, <1>4, <1>5, <1>6, <1>7, <1>8, <1>9, <1>10, <1>11, <1>12 DEF Next, RowStep, WorkerStep, WorkerFault

\* _deliver_attempt, the re-fetch before each POST: a worker sends at most one
\* POST to a subscriber after its last deactivation.
THEOREM OneLatePostAlways == Spec => OneLatePost
<1> DEFINE Single == \A w \in Workers :
                        step[w] = "sending" /\ step'[w] = "recording"
                            => <<w, SubOf[cur[w]]>> \notin late
<1>1. LateInv => [Single]_vars
  BY DEF LateInv
<1>2. Spec => []LateInv
  BY LateInit, LateStep, TypeCorrect, PTL DEF Spec
<1>3. Spec => [][Single]_vars
  BY <1>1, <1>2, PTL
<1> QED BY <1>3 DEF OneLatePost

-----------------------------------------------------------------------------
(* Rows that are not there *)

\* Nobody works on a row before it is created.
Existing ==
    \A d \in Rows : dstatus[d] = "none" =>
        /\ \A w \in Workers : ~Holds(w, d)
        /\ \A r \in Requests : asked[r] # d

LEMMA ExistingInit == Init => Existing
BY DEF Init, Existing, Holds

LEMMA ExistingStep ==
    ASSUME TypeOK, Existing, [Next]_vars
    PROVE  Existing'
<1> USE DEF TypeOK, RowStatuses, rowVars, workerVars, historyVars, Existing, Holds
<1>1. ASSUME NEW S \in SUBSET Rows, Create(S)
      PROVE  Existing'
  BY <1>1 DEF Create, Insert
<1>2. ASSUME NEW d \in Rows, BackoffElapses(d) \/ AgesOut(d)
      PROVE  Existing'
  BY <1>2 DEF BackoffElapses, AgesOut
<1>3. ASSUME NEW s \in Subs, FlipSubscriber(s)
      PROVE  Existing'
  BY <1>3 DEF FlipSubscriber
<1>4. ASSUME NEW w \in Workers, Claim(w)
      PROVE  Existing'
  <2>1. PICK S \in SUBSET Claimable :
           MarkInFlight(S) /\ held' = [held EXCEPT ![w] = S]
    BY ONLY <1>4 DEF Claim
  <2>2. UNCHANGED <<cur, asked>>
    BY <1>4 DEF Claim
  <2>3. \A d \in Rows : d \in S => dstatus[d] # "none"
    BY <2>1 DEF Claimable
  <2> QED BY <2>1, <2>2, <2>3 DEF MarkInFlight
<1>5. ASSUME NEW w \in Workers, NEW d \in Rows, Refetch(w, d)
      PROVE  Existing'
  BY <1>5 DEF Refetch, Between
<1>6. ASSUME NEW w \in Workers, Post(w)
      PROVE  Existing'
  BY <1>6 DEF Post
<1>7. ASSUME NEW w \in Workers, DropInactive(w)
      PROVE  Existing'
  BY <1>7 DEF DropInactive, Return
<1>8. ASSUME NEW w \in Workers, PostRaises(w) \/ BatchLost(w)
      PROVE  Existing'
  BY SMTT(30), <1>8 DEF PostRaises, BatchLost, Abort, Return
<1>9. ASSUME NEW w \in Workers, Record(w)
      PROVE  Existing'
  BY <1>9 DEF Record, WriteOutcome, Outcome, Return
<1>10. ASSUME NEW w \in Workers, RecordAnswerLost(w)
      PROVE  Existing'
  BY <1>10 DEF RecordAnswerLost, WriteOutcome, Outcome, Abort, Return
<1>11. ASSUME NEW w \in Workers, ClaimAnswerLost(w)
      PROVE  Existing'
  BY <1>11 DEF ClaimAnswerLost, Claimable, MarkInFlight
<1>12. CASE StaleReset
  BY <1>12 DEF StaleReset
<1>13. ASSUME NEW r \in Requests, RetryWrite(r)
      PROVE  Existing'
  BY <1>13 DEF RetryWrite
<1>14. ASSUME NEW r \in Requests, NEW d \in Rows, RetryRead(r, d)
      PROVE  Existing'
  BY <1>14 DEF RetryRead
<1>15. CASE UNCHANGED vars
  BY <1>15 DEF vars
<1> QED BY <1>1, <1>2, <1>3, <1>4, <1>5, <1>6, <1>7, <1>8, <1>9, <1>10, <1>11, <1>12, <1>13, <1>14, <1>15 DEF Next, RowStep, WorkerStep, WorkerFault

\* Only Create makes a row, and nothing takes one away.
LEMMA RowsStay ==
    ASSUME TypeOK, Existing, RowStep, NEW e \in Rows
    PROVE  dstatus'[e] = "none" <=> dstatus[e] = "none"
<1> USE DEF TypeOK, RowStatuses, rowVars, workerVars, Existing, Holds
<1>1. ASSUME NEW d \in Rows, BackoffElapses(d) \/ AgesOut(d)
      PROVE  dstatus'[e] = "none" <=> dstatus[e] = "none"
  BY <1>1 DEF BackoffElapses, AgesOut
<1>2. ASSUME NEW w \in Workers, Claim(w)
      PROVE  dstatus'[e] = "none" <=> dstatus[e] = "none"
  <2>1. PICK S \in SUBSET Claimable : MarkInFlight(S)
    BY ONLY <1>2 DEF Claim
  <2>2. e \in S => dstatus[e] # "none"
    BY ONLY <2>1 DEF Claimable
  <2> QED
    BY <2>1, <2>2 DEF MarkInFlight
<1>3. ASSUME NEW w \in Workers, NEW d \in Rows, Refetch(w, d)
      PROVE  dstatus'[e] = "none" <=> dstatus[e] = "none"
  BY <1>3 DEF Refetch, Between
<1>4. ASSUME NEW w \in Workers, Post(w)
      PROVE  dstatus'[e] = "none" <=> dstatus[e] = "none"
  BY <1>4 DEF Post
<1>5. ASSUME NEW w \in Workers, DropInactive(w)
      PROVE  dstatus'[e] = "none" <=> dstatus[e] = "none"
  BY <1>5 DEF DropInactive, Return
<1>6. ASSUME NEW w \in Workers, PostRaises(w) \/ BatchLost(w)
      PROVE  dstatus'[e] = "none" <=> dstatus[e] = "none"
  BY <1>6 DEF PostRaises, BatchLost, Abort, Return
<1>7. ASSUME NEW w \in Workers, Record(w)
      PROVE  dstatus'[e] = "none" <=> dstatus[e] = "none"
  BY <1>7 DEF Record, WriteOutcome, Outcome, Return
<1>8. ASSUME NEW w \in Workers, RecordAnswerLost(w)
      PROVE  dstatus'[e] = "none" <=> dstatus[e] = "none"
  BY <1>8 DEF RecordAnswerLost, WriteOutcome, Outcome, Abort, Return
<1>9. ASSUME NEW w \in Workers, ClaimAnswerLost(w)
      PROVE  dstatus'[e] = "none" <=> dstatus[e] = "none"
  BY <1>9 DEF ClaimAnswerLost, Claimable, MarkInFlight
<1>10. CASE StaleReset
  BY <1>10 DEF StaleReset
<1>11. ASSUME NEW r \in Requests, RetryWrite(r)
      PROVE  dstatus'[e] = "none" <=> dstatus[e] = "none"
  BY <1>11 DEF RetryWrite
<1>12. ASSUME NEW r \in Requests, NEW d \in Rows, RetryRead(r, d)
      PROVE  dstatus'[e] = "none" <=> dstatus[e] = "none"
  BY <1>12 DEF RetryRead
<1> QED BY <1>1, <1>2, <1>3, <1>4, <1>5, <1>6, <1>7, <1>8, <1>9, <1>10, <1>11, <1>12 DEF RowStep, WorkerStep, WorkerFault

-----------------------------------------------------------------------------
(* Final statuses *)

Final ==
    \A d \in Rows \ disturbed' :
        /\ dstatus[d] = "delivered" => dstatus'[d] = "delivered"
        /\ dstatus[d] = "dead" => dstatus'[d] = "dead" \/ retries'[d] > retries[d]

LEMMA FinalStep ==
    ASSUME TypeOK, ClaimInv, [Next]_vars
    PROVE  Final
<1> USE DEF TypeOK, RowStatuses, rowVars, workerVars, historyVars, ClaimInv, CurTaken, ClaimStands, Holds, Final
<1>1. ASSUME NEW S \in SUBSET Rows, Create(S)
      PROVE  Final
  BY <1>1 DEF Create, Insert
<1>2. ASSUME NEW d \in Rows, BackoffElapses(d)
      PROVE  Final
  BY <1>2 DEF BackoffElapses
<1>3. ASSUME NEW d \in Rows, AgesOut(d)
      PROVE  Final
  BY <1>3 DEF AgesOut
<1>4. ASSUME NEW s \in Subs, FlipSubscriber(s)
      PROVE  Final
  BY <1>4 DEF FlipSubscriber
<1>5. ASSUME NEW w \in Workers, Claim(w)
      PROVE  Final
  <2>1. PICK S \in SUBSET Claimable : MarkInFlight(S)
    BY ONLY <1>5 DEF Claim
  <2>2. \A d \in S : dstatus[d] \notin {"delivered", "dead"}
    BY ONLY <2>1 DEF Claimable
  <2> QED
    BY <2>1, <2>2 DEF MarkInFlight
<1>6. ASSUME NEW w \in Workers, NEW d \in Rows, Refetch(w, d)
      PROVE  Final
  BY <1>6 DEF Refetch, Between
<1>7. ASSUME NEW w \in Workers, DropInactive(w)
      PROVE  Final
  BY <1>7 DEF DropInactive, Return
<1>8. ASSUME NEW w \in Workers, Post(w)
      PROVE  Final
  BY <1>8 DEF Post
<1>9. ASSUME NEW w \in Workers, PostRaises(w)
      PROVE  Final
  BY <1>9 DEF PostRaises, Abort, Return
<1>10. ASSUME NEW w \in Workers, Record(w)
      PROVE  Final
  BY <1>10 DEF Record, WriteOutcome, Outcome, Return
<1>11. CASE StaleReset
  BY <1>11 DEF StaleReset, HeldRows
<1>12. ASSUME NEW r \in Requests, NEW d \in Rows, RetryRead(r, d)
      PROVE  Final
  BY <1>12 DEF RetryRead
<1>13. ASSUME NEW r \in Requests, RetryWrite(r)
      PROVE  Final
  BY <1>13 DEF RetryWrite
<1>14. ASSUME NEW w \in Workers, BatchLost(w)
      PROVE  Final
  BY <1>14 DEF BatchLost, Fault, Abort, Return
<1>15. ASSUME NEW w \in Workers, ClaimAnswerLost(w)
      PROVE  Final
  BY <1>15 DEF ClaimAnswerLost, Fault, Claimable, MarkInFlight
<1>16. ASSUME NEW w \in Workers, RecordAnswerLost(w)
      PROVE  Final
  BY <1>16 DEF RecordAnswerLost, Fault, WriteOutcome, Outcome, Abort, Return
<1>17. CASE UNCHANGED vars
  BY <1>17 DEF vars
<1> QED BY <1>1, <1>2, <1>3, <1>4, <1>5, <1>6, <1>7, <1>8, <1>9, <1>10, <1>11, <1>12, <1>13, <1>14, <1>15, <1>16, <1>17 DEF Next, RowStep, WorkerStep, WorkerFault

\* The unguarded writes of _deliver_attempt, the stale reset and the retry
\* endpoint overwrite a final status only when one of the races in
\* 'disturbed' took place, or a retry request asked for it.
THEOREM FinalStandsAlways == Spec => FinalStands
<1>1. TypeOK /\ ClaimInv /\ [Next]_vars => [Final]_vars
  BY FinalStep
<1> QED BY ClaimInvariant, TypeCorrect, <1>1, PTL DEF Spec, FinalStands, Final

-----------------------------------------------------------------------------
(* The abstract ledger *)

\* What Ledger says of a row, in the terms of Delivery.
LEMMA LedgerTerms ==
    ASSUME TypeOK
    PROVE  /\ \A d \in Rows : d \in Ledger!Is("none") <=> dstatus[d] = "none"
           /\ \A d \in Rows : d \in Ledger!Is("open")
                                  <=> dstatus[d] \in {"pending", "in_flight", "failed"}
           /\ \A d \in Rows : d \in Ledger!Is("delivered") <=> dstatus[d] = "delivered"
           /\ \A d \in Rows : d \in Ledger!Is("dead") <=> dstatus[d] = "dead"
BY DEF TypeOK, RowStatuses, Ledger!Is, Outcomes

\* A worker that has a row may conclude it, and is the only one to owe it a
\* record, unless the row is disturbed.
LEMMA WorkerTerms ==
    ASSUME TypeOK, ClaimInv, Existing, NEW w \in Workers, cur[w] # Nil
    PROVE  /\ cur[w] \in Rows /\ cur[w] \in Ledger!Workable
           /\ cur[w] \in Owed /\ cur[w] \notin disturbed => step[w] = "recording" /\ result[w]
<1>1. cur[w] \in Rows
  BY DEF TypeOK
<1>2. cur[w] \in Ledger!Workable
  BY <1>1, LedgerTerms DEF Ledger!Workable, ClaimInv, ClaimStands, Existing, Holds
<1>3. cur[w] \in Owed /\ cur[w] \notin disturbed => step[w] = "recording" /\ result[w]
  BY <1>1 DEF Owed, ClaimInv, ClaimDisjoint, Holds
<1> QED BY <1>1, <1>2, <1>3

\* The two writes that record an answer.
LEMMA RecordConcludes ==
    ASSUME TypeOK, ClaimInv, Existing, BudgetInv, NEW w \in Workers, step[w] = "recording",
           WriteOutcome(w), Return(w), UNCHANGED <<retries, disturbed>>
    PROVE  Ledger!Conclude(cur[w])
<1> DEFINE d == cur[w]
           n == snap[w][d] + 1
<1>1. cur[w] # Nil /\ cur[w] \in Rows /\ snap[w][d] \in Nat /\ dstatus[d] # "none"
  BY DEF TypeOK, Existing, Holds
<1>2. d \in Ledger!Workable /\ (d \in Owed /\ d \notin disturbed => result[w])
  BY <1>1, WorkerTerms
<1>3. n \in 1 .. MaxAttempts + retries[d]
  BY <1>1 DEF BudgetInv, Holds, TypeOK
<1>4. n = dcount[d] + 1 \/ d \in disturbed
  BY <1>1 DEF ClaimInv, ClaimStands, Holds
<1>5. dcount' = [dcount EXCEPT ![d] = n]
  BY DEF WriteOutcome
<1>6. result[w] => d \in Owed
  BY <1>1 DEF Owed
<1>7. result[w] => Outcomes' = [Outcomes EXCEPT ![d] = "delivered"]
  BY <1>1 DEF Outcomes, WriteOutcome, Outcome, TypeOK
<1>8. ~result[w] => Outcomes' = [Outcomes EXCEPT ![d] = IF n >= MaxAttempts THEN "dead" ELSE "open"]
  BY <1>1 DEF Outcomes, WriteOutcome, Outcome, TypeOK
<1>9. Owed' \in {Owed \ {d}, Owed} /\ (d \in Owed' => d \in disturbed)
  <2>1. \A v \in Workers \ {w} : cur'[v] = cur[v] /\ step'[v] = step[v] /\ result'[v] = result[v]
    BY DEF Return, TypeOK
  <2>2. step'[w] # "recording"
    BY DEF Return, TypeOK
  <2>3. Owed' = {e \in Rows : \E v \in Workers \ {w} :
                              cur[v] = e /\ step[v] = "recording" /\ result[v]}
    BY <2>1, <2>2 DEF Owed
  <2>4. Owed' \subseteq Owed /\ Owed \ {d} \subseteq Owed'
    BY <2>3 DEF Owed
  <2>5. d \in Owed' => d \in disturbed
    BY <1>1, <2>3 DEF ClaimInv, ClaimDisjoint, Holds
  <2> QED BY <2>4, <2>5
<1> HIDE DEF d, n
<1>10. \/ d \in Owed /\ Ledger!Becomes(d, "delivered")
       \/ /\ d \in Owed => d \in disturbed
          /\ Ledger!Becomes(d, IF n >= MaxAttempts THEN "dead" ELSE "open")
  BY <1>2, <1>6, <1>7, <1>8, Zenon DEF Ledger!Becomes
<1>11. Ledger!Conclude(d)
  BY <1>2, <1>3, <1>4, <1>5, <1>9, <1>10 DEF Ledger!Conclude
<1> QED BY <1>11 DEF d

LEMMA LedgerInit == Init => Ledger!Init
BY DEF Init, Ledger!Init, Outcomes, Owed

\* A step that leaves the ledger alone.
LEMMA LedgerQuiet ==
    ASSUME Outcomes' = Outcomes, Owed' = Owed, UNCHANGED <<dcount, retries, disturbed>>
    PROVE  [Ledger!Next]_Ledger!vars
BY DEF Ledger!vars

LEMMA LedgerStep ==
    ASSUME TypeOK, ClaimInv, BudgetInv, Existing, [Next]_vars
    PROVE  [Ledger!Next]_Ledger!vars
<1> USE DEF rowVars, workerVars, historyVars
<1>1. ASSUME NEW S \in SUBSET Rows, Create(S)
      PROVE  Ledger!Open(S)
  <2>1. S \subseteq Ledger!Is("none")
    BY <1>1, LedgerTerms DEF Create
  <2>2. Outcomes' = [d \in Rows |-> IF d \in S THEN "open" ELSE Outcomes[d]]
    BY <1>1 DEF Create, Insert, Outcomes
  <2>3. UNCHANGED <<dcount, retries, Owed, disturbed>>
    BY <1>1 DEF Create, Insert, Owed
  <2> QED BY <2>1, <2>2, <2>3 DEF Ledger!Open
<1>2. ASSUME \/ \E s \in Subs : FlipSubscriber(s)
             \/ \E d \in Rows : BackoffElapses(d) \/ AgesOut(d)
             \/ \E r \in Requests, d \in Rows : RetryRead(r, d)
      PROVE  [Ledger!Next]_Ledger!vars
  BY <1>2, LedgerQuiet DEF FlipSubscriber, BackoffElapses, AgesOut, RetryRead, Outcomes, Owed
<1>3. ASSUME NEW w \in Workers, Claim(w) \/ ClaimAnswerLost(w)
      PROVE  [Ledger!Next]_Ledger!vars
  <2>1. PICK S \in SUBSET Claimable : MarkInFlight(S)
    BY <1>3 DEF Claim, ClaimAnswerLost
  <2>2. Outcomes' = Outcomes
    BY <2>1 DEF Outcomes, MarkInFlight, Claimable, TypeOK
  <2>3. UNCHANGED <<cur, step, result, dcount, retries, disturbed>>
    BY <1>3 DEF Claim, ClaimAnswerLost
  <2> QED BY <2>2, <2>3, LedgerQuiet DEF Owed
<1>4. ASSUME NEW w \in Workers, NEW d \in Rows, Refetch(w, d)
      PROVE  [Ledger!Next]_Ledger!vars
  <2>1. Owed' = Owed
    BY <1>4 DEF Refetch, Between, Owed, TypeOK
  <2> QED BY <1>4, <2>1, LedgerQuiet DEF Refetch, Outcomes
<1>5. ASSUME NEW w \in Workers, DropInactive(w)
      PROVE  Ledger!Drop(cur[w])
  <2>1. step[w] = "dropping" /\ cur[w] # Nil /\ UNCHANGED <<dcount, retries, disturbed>>
    BY <1>5 DEF DropInactive, TypeOK
  <2>2. cur[w] \in Ledger!Workable /\ (cur[w] \in Owed => cur[w] \in disturbed)
    BY <2>1, WorkerTerms
  <2>3. Owed' = Owed
    BY <1>5, <2>1 DEF DropInactive, Return, Owed, TypeOK
  <2>4. Ledger!Becomes(cur[w], "dead")
    BY <1>5 DEF DropInactive, Ledger!Becomes, Outcomes, TypeOK
  <2> QED BY <2>1, <2>2, <2>3, <2>4 DEF Ledger!Drop
<1>6. ASSUME NEW w \in Workers, Post(w)
      PROVE  \/ Ledger!Acknowledge(cur[w])
             \/ Outcomes' = Outcomes /\ Owed' = Owed /\ UNCHANGED <<dcount, retries, disturbed>>
  <2>1. /\ step[w] = "sending" /\ cur[w] # Nil
        /\ UNCHANGED <<dstatus, cur, dcount, retries, disturbed>>
    BY <1>6 DEF Post, TypeOK
  <2>2. cur[w] \in Ledger!Workable /\ (cur[w] \in Owed => cur[w] \in disturbed)
    BY <2>1, WorkerTerms
  <2>3. PICK ok \in BOOLEAN : /\ result' = [result EXCEPT ![w] = ok]
                              /\ step' = [step EXCEPT ![w] = "recording"]
    BY <1>6 DEF Post
  <2>4. Owed' = IF ok THEN Owed \cup {cur[w]} ELSE Owed
    BY <2>1, <2>3 DEF Owed, TypeOK
  <2>5. Outcomes' = Outcomes
    BY <2>1 DEF Outcomes
  <2> QED BY <2>1, <2>2, <2>4, <2>5 DEF Ledger!Acknowledge
<1>7. ASSUME NEW w \in Workers, PostRaises(w) \/ BatchLost(w)
      PROVE  \/ cur[w] \in Rows /\ Ledger!Forget(cur[w])
             \/ Outcomes' = Outcomes /\ Owed' = Owed /\ UNCHANGED <<dcount, retries, disturbed>>
  <2>1. Return(w) /\ UNCHANGED <<dstatus, dcount, retries, disturbed>>
    BY <1>7 DEF PostRaises, BatchLost, Abort
  <2>2. Owed' \in {Owed, Owed \ {cur[w]}}
    <3>1. \A v \in Workers \ {w} : cur'[v] = cur[v] /\ step'[v] = step[v] /\ result'[v] = result[v]
      BY <2>1 DEF Return, TypeOK
    <3>2. step'[w] # "recording"
      BY <2>1 DEF Return, TypeOK
    <3>3. Owed' \subseteq Owed /\ Owed \ {cur[w]} \subseteq Owed'
      BY <3>1, <3>2 DEF Owed
    <3> QED BY <3>3
  <2>3. cur[w] \notin Rows => Owed \ {cur[w]} = Owed
    BY DEF Owed
  <2>4. Outcomes' = Outcomes
    BY <2>1 DEF Outcomes
  <2> QED BY <2>1, <2>2, <2>3, <2>4 DEF Ledger!Forget
<1>8. ASSUME NEW w \in Workers, Record(w) \/ RecordAnswerLost(w)
      PROVE  cur[w] \in Rows /\ Ledger!Conclude(cur[w])
  BY <1>8, RecordConcludes DEF Record, RecordAnswerLost, Abort, TypeOK
<1>9. ASSUME StaleReset
      PROVE  \E S \in SUBSET Ledger!Is("open") : Ledger!Loosen(S)
  <2> DEFINE S == {d \in aged : dstatus[d] = "in_flight"} \cap HeldRows
  <2>1. S \subseteq Ledger!Is("open")
    BY LedgerTerms DEF HeldRows
  <2>2. Outcomes' = Outcomes
    BY <1>9 DEF StaleReset, Outcomes, TypeOK
  <2>3. disturbed' = disturbed \cup S /\ UNCHANGED <<dcount, retries, Owed>>
    BY <1>9 DEF StaleReset, Owed
  <2> QED BY <2>1, <2>2, <2>3 DEF Ledger!Loosen
<1>10. ASSUME NEW r \in Requests, RetryWrite(r)
       PROVE  asked[r] \in Rows /\ Ledger!Retry(asked[r])
  <2> DEFINE d == asked[r]
  <2>1. d \in Rows /\ dstatus[d] # "none"
    BY <1>10 DEF RetryWrite, TypeOK, Existing
  <2>2. Ledger!Becomes(d, "open")
    BY <1>10, <2>1 DEF RetryWrite, Ledger!Becomes, Outcomes, TypeOK
  <2>3. /\ retries' = [retries EXCEPT ![d] = @ + 1]
        /\ UNCHANGED <<dcount, Owed>>
    BY <1>10 DEF RetryWrite, Owed
  <2>4. \/ UNCHANGED disturbed /\ (d \in Owed \cup Ledger!Is("delivered") => d \in disturbed)
        \/ d \notin Ledger!Is("dead") /\ disturbed' = disturbed \cup {d}
    <3>1. d \in Owed /\ d \notin disturbed => dstatus[d] = "in_flight"
      BY <2>1 DEF Owed, ClaimInv, ClaimStands, Holds
    <3> QED BY <1>10, <2>1, <3>1, LedgerTerms DEF RetryWrite
  <2> QED BY <2>1, <2>2, <2>3, <2>4, LedgerTerms DEF Ledger!Retry
<1>11. CASE UNCHANGED vars
  BY <1>11, LedgerQuiet DEF vars, Outcomes, Owed
<1>12. ASSUME NEW w \in Workers, DropInactive(w)
       PROVE  cur[w] \in Rows
  BY <1>12 DEF DropInactive, TypeOK
<1>13. ASSUME NEW w \in Workers, Post(w)
       PROVE  cur[w] \in Rows
  BY <1>13 DEF Post, TypeOK
<1> QED
  BY <1>1, <1>2, <1>3, <1>4, <1>5, <1>6, <1>7, <1>8, <1>9, <1>10, <1>11, <1>12, <1>13, LedgerQuiet
     DEF Next, RowStep, WorkerStep, WorkerFault, Ledger!Next

\* worker.py and deliveries.py, with every race, crash and lost answer: a row
\* is delivered only for an acknowledgement that was not recorded before, dead
\* only at its cap or without its subscriber, and counted once per conclusion.
THEOREM LedgerRefinement == Spec => ImplementsLedger
<1>1. TypeOK /\ ClaimInv /\ BudgetInv /\ Existing /\ [Next]_vars => [Ledger!Next]_Ledger!vars
  BY LedgerStep
<1>2. Spec => []BudgetInv
  BY BudgetInit, BudgetStep, TypeCorrect, PTL DEF Spec
<1>3. Spec => []Existing
  BY ExistingInit, ExistingStep, TypeCorrect, PTL DEF Spec
<1> QED BY LedgerInit, ClaimInvariant, TypeCorrect, <1>1, <1>2, <1>3, PTL
        DEF Spec, ImplementsLedger, Ledger!Spec

-----------------------------------------------------------------------------
(* What 'delivered' and a counted attempt stand for *)

\* 'delivered' is never written without a 2xx answer that was heard, not even for
\* a disturbed row; and a subscriber whose endpoint makes client.post raise gets no POST, so
\* its rows are never counted, and never delivered.
TrueInv ==
    /\ \A d \in Rows : unheard[d] <= acked[d]
    /\ \A d \in Rows : dstatus[d] = "delivered" => unheard[d] < acked[d]
    /\ \A w \in Workers : step[w] = "recording" =>
          /\ result[w] => unheard[cur[w]] < acked[cur[w]]
          /\ SubOf[cur[w]] \notin Unsendable
    /\ \A d \in Rows : SubOf[d] \in Unsendable =>
          dcount[d] = 0 /\ acked[d] = 0 /\ dstatus[d] # "delivered"

LEMMA TrueInit == Init => TrueInv
BY DEF Init, TrueInv

LEMMA TrueStep ==
    ASSUME TypeOK, TrueInv, [Next]_vars
    PROVE  TrueInv'
<1> USE DEF TypeOK, RowStatuses, rowVars, workerVars, historyVars, TrueInv
<1>1. ASSUME NEW S \in SUBSET Rows, Create(S)
      PROVE  TrueInv'
  BY <1>1 DEF Create, Insert
<1>2. ASSUME \/ \E s \in Subs : FlipSubscriber(s)
             \/ \E d \in Rows : BackoffElapses(d) \/ AgesOut(d)
             \/ \E r \in Requests, d \in Rows : RetryRead(r, d)
      PROVE  TrueInv'
  BY <1>2 DEF FlipSubscriber, BackoffElapses, AgesOut, RetryRead
<1>3. ASSUME NEW w \in Workers, Claim(w) \/ ClaimAnswerLost(w)
      PROVE  TrueInv'
  <2>1. PICK S \in SUBSET Claimable : MarkInFlight(S)
    BY <1>3 DEF Claim, ClaimAnswerLost
  <2>2. \A d \in Rows : dstatus'[d] = "delivered" => dstatus[d] = "delivered"
    BY <2>1 DEF MarkInFlight
  <2>3. UNCHANGED <<cur, step, result, dcount, acked, unheard>>
    BY <1>3 DEF Claim, ClaimAnswerLost
  <2> QED BY <2>2, <2>3
<1>4. ASSUME NEW w \in Workers, NEW d \in Rows, Refetch(w, d)
      PROVE  TrueInv'
  BY <1>4 DEF Refetch, Between
<1>5. ASSUME NEW w \in Workers, DropInactive(w)
      PROVE  TrueInv'
  BY <1>5 DEF DropInactive, Return
<1>6. ASSUME NEW w \in Workers, Post(w)
      PROVE  TrueInv'
  <2>1. PICK ack \in BOOLEAN, ok \in BOOLEAN :
           /\ ok => ack
           /\ result' = [result EXCEPT ![w] = ok]
           /\ acked' = IF ack THEN [acked EXCEPT ![cur[w]] = @ + 1] ELSE acked
           /\ unheard' = IF ack /\ ~ok THEN [unheard EXCEPT ![cur[w]] = @ + 1] ELSE unheard
    BY <1>6 DEF Post
  <2>2. /\ cur[w] \in Rows /\ SubOf[cur[w]] \notin Unsendable
        /\ step' = [step EXCEPT ![w] = "recording"] /\ UNCHANGED <<cur, dstatus, dcount>>
    BY <1>6 DEF Post
  <2>3. \A d \in Rows : d # cur[w] => acked'[d] = acked[d] /\ unheard'[d] = unheard[d]
    BY <2>1, <2>2
  <2>4. /\ unheard'[cur[w]] <= acked'[cur[w]]
        /\ ok \/ unheard[cur[w]] < acked[cur[w]] => unheard'[cur[w]] < acked'[cur[w]]
    BY <2>1, <2>2
  <2> QED BY <2>1, <2>2, <2>3, <2>4
<1>7. ASSUME NEW w \in Workers, PostRaises(w) \/ BatchLost(w)
      PROVE  TrueInv'
  BY <1>7 DEF PostRaises, BatchLost, Abort, Return
<1>8. ASSUME NEW w \in Workers, Record(w) \/ RecordAnswerLost(w)
      PROVE  TrueInv'
  <2>1. /\ WriteOutcome(w) /\ Return(w) /\ step[w] = "recording"
        /\ UNCHANGED <<acked, unheard>>
    BY <1>8 DEF Record, RecordAnswerLost, Abort
  <2> QED BY <2>1 DEF WriteOutcome, Outcome, Return
<1>9. CASE StaleReset
  BY <1>9 DEF StaleReset
<1>10. ASSUME NEW r \in Requests, RetryWrite(r)
       PROVE  TrueInv'
  BY <1>10 DEF RetryWrite
<1>11. CASE UNCHANGED vars
  BY <1>11 DEF vars
<1> QED BY <1>1, <1>2, <1>3, <1>4, <1>5, <1>6, <1>7, <1>8, <1>9, <1>10, <1>11
        DEF Next, RowStep, WorkerStep, WorkerFault

THEOREM TrueInvariant == Spec => []TrueInv
BY TrueInit, TrueStep, TypeCorrect, PTL DEF Spec

\* _deliver_attempt: of the 2xx answers for a 'delivered' row at least one was
\* heard, and exactly one if no race disturbed the row and nothing failed; the
\* others were lost to a timeout or a broken connection.
HeardOnce ==
    \A d \in Rows : dstatus[d] = "delivered" =>
        /\ acked[d] > unheard[d]
        /\ d \notin disturbed /\ faults = 0 => acked[d] = 1 + unheard[d]

THEOREM HeardOnceAlways == Spec => []HeardOnce
<1>1. TypeOK /\ TrueInv /\ DuplicateNeedsLoss => HeardOnce
  BY DEF TypeOK, TrueInv, DuplicateNeedsLoss, HeardOnce
<1> QED BY <1>1, TypeCorrect, TrueInvariant, DuplicateNeedsLossAlways, PTL

\* sender.py:67, when client.post raises what deliver does not catch: the attempt
\* is never recorded.  The row's attempt_count stays 0, so delivery_max_attempts
\* never ends its retries.
NeverCounted ==
    \A d \in Rows : SubOf[d] \in Unsendable => dcount[d] = 0 /\ dstatus[d] # "delivered"

THEOREM NeverCountedAlways == Spec => []NeverCounted
<1>1. TrueInv => NeverCounted
  BY DEF TrueInv, NeverCounted
<1> QED BY <1>1, TrueInvariant, PTL
=============================================================================
