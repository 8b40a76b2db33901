------------------------------ MODULE Delivery ------------------------------
(***************************************************************************)
(* The delivery side of the service: worker processes (app/delivery/       *)
(* worker.py) that claim rows of delivery_attempts in batches and POST     *)
(* them, the stale-claim reset each of them also runs, and the retry       *)
(* endpoint of the API (app/api/deliveries.py).                            *)
(*                                                                         *)
(* A worker claims under a row lock but works without one, from the row    *)
(* objects it loaded; every later write goes to the row by its id alone.   *)
(* The steps below are the transactions and the HTTP call, with all of the *)
(* other actors free to move between any two of them.                      *)
(***************************************************************************)
EXTENDS Naturals, FiniteSets

CONSTANTS
    Rows,         \* delivery_attempts rows
    Subs,         \* subscribers
    SubOf,        \* the subscriber of each row
    Unsendable,   \* subscribers whose endpoint makes client.post raise what
                  \* deliver does not catch (httpx.InvalidURL)
    Workers,      \* worker processes
    Requests,     \* bound: retry requests the API serves at a time
    Nil,          \* no row
    MaxAttempts,  \* settings.delivery_max_attempts
    BatchLimit,   \* the LIMIT of the claim
    MaxRetries,   \* bound: successful retry requests per row
    MaxFaults     \* bound: crashes and failed sessions together

ASSUME DeliveryAssumption ==
    /\ SubOf \in [Rows -> Subs]
    /\ Unsendable \subseteq Subs
    /\ Nil \notin Rows
    /\ MaxAttempts \in Nat \ {0} /\ BatchLimit \in Nat \ {0}
    /\ MaxRetries \in Nat /\ MaxFaults \in Nat

VARIABLES
    dstatus,      \* delivery_attempts.status ("none": not created yet)
    dcount,       \* attempt_count
    due,          \* rows with next_attempt_at <= now
    aged,         \* in_flight rows with updated_at before the stale cutoff
    active,       \* subscribers with is_active and no deleted_at
    held,         \* what is left of each worker's batch
    snap,         \* attempt_count in the row objects of the batch
    cur,          \* the row the worker is at in _deliver_attempt
    step,         \* and where in it
    result,       \* result.success
    asked,        \* the row object each retry request has loaded
    \* history
    retries,      \* retry requests that were carried out
    acked,        \* 2xx answers the subscriber gave for the row
    unheard,      \* those of them that never reached the worker
    late,         \* worker and subscriber of a POST made after the subscriber's
                  \* last deactivation
    disturbed,    \* rows whose claim was taken from a live worker, or that a
                  \* retry request overwrote while they were not dead or failed
    faults        \* faults so far

rowVars == <<dstatus, dcount, due, aged>>
workerVars == <<held, snap, cur, step, result>>
historyVars == <<retries, acked, unheard, late, disturbed, faults>>
vars == <<rowVars, active, workerVars, asked, historyVars>>

RowStatuses == {"none", "pending", "in_flight", "delivered", "failed", "dead"}

Init ==
    /\ dstatus = [d \in Rows |-> "none"]
    /\ dcount = [d \in Rows |-> 0]
    /\ due = {}
    /\ aged = {}
    /\ active = Subs
    /\ held = [w \in Workers |-> {}]
    /\ snap = [w \in Workers |-> [d \in Rows |-> 0]]
    /\ cur = [w \in Workers |-> Nil]
    /\ step = [w \in Workers |-> "idle"]
    /\ result = [w \in Workers |-> FALSE]
    /\ asked = [r \in Requests |-> Nil]
    /\ retries = [d \in Rows |-> 0]
    /\ acked = [d \in Rows |-> 0]
    /\ unheard = [d \in Rows |-> 0]
    /\ late = {}
    /\ disturbed = {}
    /\ faults = 0

-----------------------------------------------------------------------------
(* Helpers *)

Fault == faults < MaxFaults /\ faults' = faults + 1

\* Worker w has d in its batch and has not recorded an outcome.
Holds(w, d) == d \in held[w] \/ cur[w] = d

HeldRows == {d \in Rows : \E w \in Workers : Holds(w, d)}

Between(w) == cur[w] = Nil

\* Claims that take rows in one status too many.  (mutants)
ClaimableOrInFlight ==
    {d \in due : dstatus[d] \in {"pending", "failed", "in_flight"}}
ClaimableOrDelivered ==
    {d \in due : dstatus[d] \in {"pending", "failed", "delivered"}}
ClaimableOrDead == {d \in due : dstatus[d] \in {"pending", "failed", "dead"}}

Claimable == {d \in due : dstatus[d] \in {"pending", "failed"}}

\* A claim that does not change the status, and so excludes nobody.  (mutant)
MarkNothing(S) == UNCHANGED <<dstatus, aged>>

MarkInFlight(S) ==
    /\ dstatus' = [d \in Rows |-> IF d \in S THEN "in_flight" ELSE dstatus[d]]
    /\ aged' = aged \ S

\* Off by one, both ways.  (mutants)
OutcomeLate(w) ==
    CASE result[w] -> "delivered"
      [] ~result[w] /\ snap[w][cur[w]] >= MaxAttempts -> "dead"
      [] OTHER -> "failed"
OutcomeEarly(w) ==
    CASE result[w] -> "delivered"
      [] ~result[w] /\ snap[w][cur[w]] + 2 >= MaxAttempts -> "dead"
      [] OTHER -> "failed"

\* The status _deliver_attempt writes.
Outcome(w) ==
    CASE result[w] -> "delivered"
      [] ~result[w] /\ snap[w][cur[w]] + 1 >= MaxAttempts -> "dead"
      [] OTHER -> "failed"

\* Only a failed attempt is worth counting.  (mutant)
WriteOutcomeUncounted(w) ==
    LET d == cur[w] IN
    /\ dstatus' = [dstatus EXCEPT ![d] = Outcome(w)]
    /\ due' = IF Outcome(w) = "failed" THEN due \ {d} ELSE due \cup {d}
    /\ aged' = aged \ {d}
    /\ UNCHANGED dcount

\* UPDATE ... WHERE id = attempt.id, whatever the row has become.
WriteOutcome(w) ==
    LET d == cur[w] IN
    /\ dstatus' = [dstatus EXCEPT ![d] = Outcome(w)]
    /\ dcount' = [dcount EXCEPT ![d] = snap[w][d] + 1]
    /\ due' = IF Outcome(w) = "failed" THEN due \ {d} ELSE due \cup {d}
    /\ aged' = aged \ {d}

\* Returns but keeps its row.  (mutant)
ReturnKeepingRow(w) ==
    /\ step' = [step EXCEPT ![w] = "idle"]
    /\ result' = [result EXCEPT ![w] = FALSE]
    /\ UNCHANGED cur

\* _deliver_attempt returns to the loop over the batch.
Return(w) ==
    /\ cur' = [cur EXCEPT ![w] = Nil]
    /\ step' = [step EXCEPT ![w] = "idle"]
    /\ result' = [result EXCEPT ![w] = FALSE]

\* _process_batch raises: the rest of the batch is forgotten.
Abort(w) == Return(w) /\ held' = [held EXCEPT ![w] = {}]

-----------------------------------------------------------------------------
(* The surroundings *)

\* New rows are pending and due at once.
Insert(S) ==
    /\ dstatus' = [d \in Rows |-> IF d \in S THEN "pending" ELSE dstatus[d]]
    /\ due' = due \cup S
    /\ UNCHANGED <<dcount, aged, active, workerVars, asked, historyVars>>

\* The consumer commits the rows of one event.
Create(S) == (\A d \in S : dstatus[d] = "none") /\ Insert(S)

\* PATCH is_active, or DELETE, commits.
FlipSubscriber(s) ==
    /\ active' = IF s \in active THEN active \ {s} ELSE active \cup {s}
    /\ late' = {p \in late : p[2] # s}
    /\ UNCHANGED <<rowVars, workerVars, asked,
                   retries, acked, unheard, disturbed, faults>>

BackoffElapses(d) ==
    /\ dstatus[d] = "failed" /\ d \notin due
    /\ due' = due \cup {d}
    /\ UNCHANGED <<dstatus, dcount, aged, active, workerVars, asked, historyVars>>

\* delivery_stale_in_flight_minutes pass; a batch of slow endpoints takes that
\* long, so the worker that claimed the row may be alive.
AgesOut(d) ==
    /\ dstatus[d] = "in_flight" /\ d \notin aged
    /\ aged' = aged \cup {d}
    /\ UNCHANGED <<dstatus, dcount, due, active, workerVars, asked, historyVars>>

-----------------------------------------------------------------------------
(* The worker *)

\* One transaction.  SKIP LOCKED passes over rows another one has locked.
Claim(w) ==
    /\ Between(w) /\ held[w] = {}
    /\ \E S \in (SUBSET Claimable) \ {{}} :
          /\ Cardinality(S) <= BatchLimit
          /\ MarkInFlight(S)
          /\ held' = [held EXCEPT ![w] = S]
          /\ snap' = [snap EXCEPT ![w] =
                       [d \in Rows |-> IF d \in S THEN dcount[d] ELSE 0]]
    /\ UNCHANGED <<dcount, due, active, cur, step, result, asked, historyVars>>

\* The subscriber object of the claim is good enough.  (mutant)
NoRefetch(w, d) ==
    /\ Between(w) /\ d \in held[w]
    /\ held' = [held EXCEPT ![w] = @ \ {d}]
    /\ cur' = [cur EXCEPT ![w] = d]
    /\ step' = [step EXCEPT ![w] = "sending"]
    /\ UNCHANGED <<rowVars, active, snap, result, asked, historyVars>>

Refetch(w, d) ==
    /\ Between(w) /\ d \in held[w]
    /\ held' = [held EXCEPT ![w] = @ \ {d}]
    /\ cur' = [cur EXCEPT ![w] = d]
    /\ step' = [step EXCEPT ![w] =
                   IF SubOf[d] \in active THEN "sending" ELSE "dropping"]
    /\ UNCHANGED <<rowVars, active, snap, result, asked, historyVars>>

DropInactive(w) ==
    /\ step[w] = "dropping"
    /\ dstatus' = [dstatus EXCEPT ![cur[w]] = "dead"]
    /\ aged' = aged \ {cur[w]}
    /\ Return(w)
    /\ UNCHANGED <<dcount, due, active, held, snap, asked, historyVars>>

\* The subscriber gives its 2xx or not (ack), and the worker hears of it or not
\* (ok): a timeout or a broken connection after the 2xx is a failure to deliver.
Post(w) ==
    /\ step[w] = "sending" /\ SubOf[cur[w]] \notin Unsendable
    /\ \E ack \in BOOLEAN, ok \in BOOLEAN :
          /\ ok => ack
          /\ result' = [result EXCEPT ![w] = ok]
          /\ acked' = IF ack THEN [acked EXCEPT ![cur[w]] = @ + 1] ELSE acked
          /\ unheard' = IF ack /\ ~ok THEN [unheard EXCEPT ![cur[w]] = @ + 1]
                        ELSE unheard
    /\ late' = late \cup {<<w, s>> : s \in {SubOf[cur[w]]} \ active}
    /\ step' = [step EXCEPT ![w] = "recording"]
    /\ UNCHANGED <<rowVars, active, held, snap, cur, asked,
                   retries, disturbed, faults>>

PostRaises(w) ==
    /\ step[w] = "sending" /\ SubOf[cur[w]] \in Unsendable
    /\ Abort(w)
    /\ UNCHANGED <<rowVars, active, snap, asked, historyVars>>

Record(w) ==
    /\ step[w] = "recording"
    /\ WriteOutcome(w)
    /\ Return(w)
    /\ UNCHANGED <<active, held, snap, asked, historyVars>>

\* At startup and every delivery_stale_in_flight_minutes.
StaleReset ==
    LET S == {d \in aged : dstatus[d] = "in_flight"} IN
    /\ S # {}
    /\ dstatus' = [d \in Rows |-> IF d \in S THEN "failed" ELSE dstatus[d]]
    /\ due' = due \cup S
    /\ aged' = aged \ S
    /\ disturbed' = disturbed \cup (S \cap HeldRows)
    /\ UNCHANGED <<dcount, active, workerVars, asked,
                   retries, acked, unheard, late, faults>>

-----------------------------------------------------------------------------
(* POST /deliveries/{id}/retry: a read, a check and an unconditional write *)

RetryRead(r, d) ==
    /\ asked[r] = Nil
    /\ dstatus[d] \in {"dead", "failed"}
    /\ retries[d] < MaxRetries
    /\ asked' = [asked EXCEPT ![r] = d]
    /\ UNCHANGED <<rowVars, active, workerVars, historyVars>>

RetryWrite(r) ==
    /\ asked[r] # Nil
    /\ dstatus' = [dstatus EXCEPT ![asked[r]] = "pending"]
    /\ due' = due \cup {asked[r]}
    /\ aged' = aged \ {asked[r]}
    /\ asked' = [asked EXCEPT ![r] = Nil]
    /\ retries' = [retries EXCEPT ![asked[r]] = @ + 1]
    /\ disturbed' = IF dstatus[asked[r]] \in {"dead", "failed"} THEN disturbed
                    ELSE disturbed \cup {asked[r]}
    /\ UNCHANGED <<dcount, active, workerVars, acked, unheard, late, faults>>

-----------------------------------------------------------------------------
(* Faults *)

\* The process dies and is started again, or a session raises: either way the
\* batch is forgotten and its rows stay in_flight.
BatchLost(w) ==
    /\ Fault
    /\ ~Between(w) \/ held[w] # {}
    /\ Abort(w)
    /\ UNCHANGED <<rowVars, active, snap, asked,
                   retries, acked, unheard, late, disturbed>>

\* A commit takes effect but its answer is lost.
ClaimAnswerLost(w) ==
    /\ Fault
    /\ Between(w) /\ held[w] = {}
    /\ \E S \in (SUBSET Claimable) \ {{}} :
          Cardinality(S) <= BatchLimit /\ MarkInFlight(S)
    /\ UNCHANGED <<dcount, due, active, workerVars, asked,
                   retries, acked, unheard, late, disturbed>>

RecordAnswerLost(w) ==
    /\ Fault
    /\ step[w] = "recording"
    /\ WriteOutcome(w)
    /\ Abort(w)
    /\ UNCHANGED <<active, snap, asked,
                   retries, acked, unheard, late, disturbed>>

-----------------------------------------------------------------------------
WorkerStep(w) ==
    \/ Claim(w) \/ DropInactive(w) \/ Post(w) \/ PostRaises(w) \/ Record(w)
    \/ \E d \in Rows : Refetch(w, d)

WorkerFault(w) == BatchLost(w) \/ ClaimAnswerLost(w) \/ RecordAnswerLost(w)

\* What happens to the rows there are, for subscribers as they are.
RowStep ==
    \/ \E d \in Rows : BackoffElapses(d) \/ AgesOut(d)
    \/ \E w \in Workers : WorkerStep(w) \/ WorkerFault(w)
    \/ StaleReset
    \/ \E r \in Requests : RetryWrite(r) \/ \E d \in Rows : RetryRead(r, d)

Next ==
    \/ \E S \in (SUBSET Rows) \ {{}} : Create(S)
    \/ \E s \in Subs : FlipSubscriber(s)
    \/ RowStep

Spec == Init /\ [][Next]_vars

\* A worker polls as long as it lives, and so does its stale reset; clocks
\* advance.  Nobody has to create rows, flip subscribers or ask for retries,
\* but a request that was accepted is carried out.
Fairness ==
    /\ \A w \in Workers : WF_vars(WorkerStep(w))
    /\ WF_vars(StaleReset)
    /\ \A d \in Rows : WF_vars(BackoffElapses(d)) /\ WF_vars(AgesOut(d))
    /\ \A r \in Requests : WF_vars(RetryWrite(r))

FairSpec == Spec /\ Fairness

-----------------------------------------------------------------------------
(* Safety *)

TypeOK ==
    /\ dstatus \in [Rows -> RowStatuses]
    /\ dcount \in [Rows -> Nat]
    /\ due \in SUBSET Rows
    /\ aged \in SUBSET Rows
    /\ active \in SUBSET Subs
    /\ held \in [Workers -> SUBSET Rows]
    /\ snap \in [Workers -> [Rows -> Nat]]
    /\ cur \in [Workers -> Rows \cup {Nil}]
    /\ step \in [Workers -> {"idle", "sending", "dropping", "recording"}]
    /\ \A w \in Workers : step[w] = "idle" <=> cur[w] = Nil
    /\ result \in [Workers -> BOOLEAN]
    /\ asked \in [Requests -> Rows \cup {Nil}]
    /\ retries \in [Rows -> Nat]
    /\ acked \in [Rows -> Nat]
    /\ unheard \in [Rows -> Nat]
    /\ late \in SUBSET (Workers \X Subs)
    /\ disturbed \in SUBSET Rows
    /\ faults \in Nat

\* SELECT ... FOR UPDATE SKIP LOCKED: two workers hold one row only after a
\* reset or a retry request took it from the first of them.
ClaimDisjoint ==
    \A d \in Rows \ disturbed, w, v \in Workers :
        Holds(w, d) /\ Holds(v, d) => w = v

\* The row of a worker's batch is in_flight as long as the worker has it, and
\* attempt_count is still what the worker loaded.
ClaimStands ==
    \A d \in Rows \ disturbed, w \in Workers :
        Holds(w, d) => dstatus[d] = "in_flight" /\ dcount[d] = snap[w][d]

\* attempt_count never passes delivery_max_attempts by more than the number of
\* retry requests, whatever races reset, retry and record run.
AttemptBudget == \A d \in Rows : dcount[d] <= MaxAttempts + retries[d]

\* Each 2xx answer beyond the first is the price of one that was lost: on its
\* way to the worker, or between the POST and its record.
DuplicateNeedsLoss ==
    \A d \in Rows \ disturbed : acked[d] <= 1 + faults + unheard[d]

\* A subscriber whose every 2xx comes too late is not sent the row for ever: the
\* attempts nobody heard the answer of are counted as well.
AckBudget ==
    \A d \in Rows \ disturbed : acked[d] <= MaxAttempts + retries[d] + faults

\* A delivered row stays delivered and a dead one dead until a retry request.
FinalStands ==
    [][\A d \in Rows \ disturbed' :
          /\ dstatus[d] = "delivered" => dstatus'[d] = "delivered"
          /\ dstatus[d] = "dead" =>
                dstatus'[d] = "dead" \/ retries'[d] > retries[d]]_vars

\* The re-fetch bounds what a deactivation can miss: a worker may be past it
\* when PATCH or DELETE commits, and sends that one POST; whatever batch,
\* reset or retry gives it rows of the subscriber after that, it sends no more.
OneLatePost ==
    [][\A w \in Workers :
          step[w] = "sending" /\ step'[w] = "recording"
              => <<w, SubOf[cur[w]]>> \notin late]_vars

\* A 2xx was heard, its record is still to be written.
Owed == {d \in Rows : \E w \in Workers :
                         cur[w] = d /\ step[w] = "recording" /\ result[w]}

\* A row that is pending, in flight or failed is open.
Outcomes ==
    [d \in Rows |-> IF dstatus[d] \in {"none", "delivered", "dead"} THEN dstatus[d] ELSE "open"]

Ledger == INSTANCE DeliveryLedger WITH
              outcome <- Outcomes, count <- dcount, retried <- retries,
              owed <- Owed, loose <- disturbed

\* Whatever is claimed, reset, retried or lost, the rows change as
\* DeliveryLedger says: no row is delivered without an acknowledgement that was
\* not recorded before, none is dead before its cap unless its subscriber is
\* gone, and no final status is undone, but for the races that disturb a row.
ImplementsLedger == Ledger!Spec

-----------------------------------------------------------------------------
(* Liveness *)

\* Every row that was created is in the end delivered or dead.
Settles == \A d \in Rows : dstatus[d] # "none" ~> dstatus[d] \in {"delivered", "dead"}

-----------------------------------------------------------------------------
(* What the documentation says, and the code does not do *)

\* README.md:178 all retries exhausted: `status='dead'`.  A row that is
\* claimed is in the end delivered or dead, whatever the endpoint.
DeadInTheEnd ==
    \A d \in Rows : dstatus[d] = "in_flight" ~> dstatus[d] \in {"delivered", "dead"}
=============================================================================
