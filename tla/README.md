# A verification of the event pipeline

TLA+ specifications of the event pipeline in `src/`, model-checked with TLC and
proved with TLAPS. Paths below are relative to `src/`.

## 1. The system

Clients publish JSON events. The service stores each event once, creates one
delivery row per active subscriber, enriches the event with a language model,
and POSTs it, signed, to every subscriber. PostgreSQL and one RabbitMQ queue
(`events.process`) connect the processes; nothing else is shared.

```
 client ─POST /events/publish→ API ─persistent message→ [events.process]
                                                          │      ▲
                                                 delivery │      │ volatile message
                                                          ▼      │
                                  consumer process: handler tasks, reconciler
                                                          │
                       idempotency_keys, delivery_attempts, subscribers
                                                          │
                                  worker process: claim → POST → record, stale reset
                                                          │
                                                          ▼  subscriber endpoints
 client ─POST /deliveries/{id}/retry, PATCH/DELETE /subscribers→ API ─→ tables
```

| Component | Code | State | Operations | Hard behaviour | What makes it correct |
|---|---|---|---|---|---|
| Consumer | `app/consumer/rabbitmq.py` `handle_message` | per task: the delivery, the message_id, an open transaction | insert key, create attempts, commit, early ack, enrich, persist or record error | up to 10 tasks per process and several processes on copies of one message; redelivery; crash or lost channel between commit and ack; exceptions at any await | one owner per row; no message lost before its row is there; at most one enrichment; a fatal error is final |
| Reconciler | same file, `_reconciler` | rows loaded by a session, unsaved changes | load stale rows, republish each or mark it failed, one commit | works on rows without a lock while their handler may still run; two reconcilers; time-outs; rollback of a whole cycle | counts only what it published; gives up only after the cap; every row settles |
| Delivery worker | `app/delivery/worker.py`, `sender.py` | a batch of row objects | claim, re-fetch subscriber, POST, record, stale reset | works outside the row lock; slow batch against stale reset; crash between POST and record; answers that are lost; exception in mid-batch | claims are disjoint; attempts bounded; duplicates only for a reason; final statuses final; every row settles |
| Delivery API | `app/api/deliveries.py` | none | retry, listings | read, check, unconditional write | a claim or final status is overwritten only by a race that is named |
| Event API | `app/api/events.py` | none | publish, get | queue not bound yet | every accepted event reaches its fan-out |
| Subscriber API | `app/api/subscribers.py` | row; in-process PATCH cache | create, update, soft delete | an await between read, write and refresh; PATCHes with one idempotency key; PATCH against DELETE; cache not tied to a row; failure after the commit | deletion is for good; no column is lost; a duplicate changes nothing; an answer shows what was asked |
| Topology, start-up | `app/broker.py`, `app/main.py`, `app/db/session.py`, `docker-compose.yml` | exchange, queue, binding, schema | migrate, start, declare, bind | start order of processes; failed migration; a broker that comes back empty | no service before its schema; no event dropped once the consumer is ready; the stack comes up |
| Signing | `app/delivery/signing.py` | none | sign, verify | two clocks, a slow network, back-offs as long as the tolerance, replays | first arrivals verify, however late a retry is |
| Receiver | `receiver/main.py` | last deliveries in memory | receive, list, clear | full store, limits beyond it | a listing is the newest part |
| Schema | `app/db/models.py` | three tables | | unique keys, defaults | |
| Providers | `app/enricher/` | provider singleton | enrich | transient and fatal errors | |
| Metrics, schemas, configuration, scripts | `app/metrics.py`, `app/schemas/`, `app/config.py`, `scripts/` | | | | |

Components, their status and every hazard with its line are listed in
`PROJECT.json`.

## 2. The modules

| Module | Models | Role |
|---|---|---|
| `IngestState` | queue, `idempotency_keys`, `delivery_attempts` as the ingest side sees them, clients, who is active | shared variables, `EXTENDS`ed by the next two |
| `Consumer` | `handle_message` | one action per program point between two awaits |
| `Reconciler` | `_reconciler`, its supervisor | one cycle: load, row by row, commit |
| `Ingest` | both together, plus crashes of a process | specification, properties, fairness |
| `EventLedger` | what the ingest side promises | abstract specification, implemented by `Ingest` |
| `Delivery` | workers, stale reset, retry endpoint | specification, properties, fairness |
| `DeliveryLedger` | what the delivery side promises | abstract specification, implemented by `Delivery` |
| `Pipeline` | both sides over one database; the payload sent | composes `Ingest` and an instance of `Delivery`, and implements each |
| `Subscribers` | create, PATCH with its cache, DELETE | specification, properties |
| `SubscriberLedger` | what the fan-out may take for granted | abstract specification, implemented by `Subscribers` |
| `Startup` | migration, processes, declarations, broker | specification, properties, fairness |
| `Webhook` | signature, back-off, network, receiver's store | specification, properties |
| `MCIngest`, `MCDelivery`, `MCPipeline`, `MCSubscribers`, `MCStartup`, `MCWebhook` | | instances for TLC: model values, symmetry, row-to-subscriber maps |
| `IngestProofs`, `QueueProofs`, `LedgerProofs`, `DeliveryProofs`, `PipelineProofs`, `SubscribersProofs`, `StartupProofs`, `WebhookProofs` | | theorems |

### Ingest side

*Queue.* `slot[c]` is the body in slot `c` (a `message_id`, `Anon` for a body
without one, `Junk` for one the consumer cannot parse, or `Nil`). A message
stays in its slot until the broker is told to forget it; `copy[t] = c` says that
task `t` holds the delivery. Losing a channel only clears `copy`, which is
redelivery. The API publishes persistent messages; the reconciler's
`aio_pika.Message(body=...)` has no delivery mode, so its slots are in
`volatile` and a `BrokerRestart` empties them.

*Handler.* `stage[t]` follows `handle_message`:

| stage | the task has | next action (lines of `rabbitmq.py`) |
|---|---|---|
| `idle` | nothing | `Deliver` (125), `DiscardJunk` (109-123) |
| `delivered` | the message | `InsertKey` (133) or `SkipDuplicate` (134-138), both wait while another transaction holds the uncommitted key (`Locked`) |
| `inserted` | an open transaction | `SelectSubscribers` (76-93) |
| `selected` | attempts in the session | `Commit` (142) |
| `committed` | a committed row | `Ack` (147), `AckRaises` when the channel was lost |
| `enriching` | called the provider | `EnrichGivesUp` (162-166), `EnrichFatal` (167), `EnrichSucceeds` |
| `recording` / `persisting` | the outcome | `RecordFatal` (174-182), `PersistEnrichment` (184-195) |

`EnrichGivesUp` also stands for an exception of the provider that is neither
kind of enrichment error; it leaves `process()`, which ignores it because the
message is already acked. An exception before the commit makes `process()`
reject without requeue (`TransactionFails`), also when the commit took effect
and only its answer was lost (`CommitAnswerLost`); `rejected` remembers those
messages.

*Reconciler.* `LoadStale` reads rows without a lock into `todo` and `loaded`;
`Republish`, `GiveUp` and `PublishTimesOut` change only the session (`loaded`,
`bumped`, `abandoned`); `CommitCycle` writes just the changed columns, with the
values the cycle computed, as SQLAlchemy's unit of work does. A time-out may
have published the message or not.

*Faults*: `Crash`, `ConnectionLost`, `BrokerRestart`, `TransactionFails`,
`CommitAnswerLost`, `SessionFails`, `PublishTimesOut`, `CycleFails`.

### Delivery side

`Claim` is the transaction at `worker.py:63-91`; it takes any non-empty set of
due rows up to the LIMIT, because `SKIP LOCKED` passes over what another
transaction has locked at that moment. `held`, `cur` and `snap` are the batch, the
row `_deliver_attempt` is at, and the `attempt_count` of the loaded objects. Each
row goes through `Refetch`, then `DropInactive`, or `Post` and `Record`; every
write is by id, whatever the row has become. `StaleReset` is the reset that
every worker runs at start-up and periodically. `AgesOut` says that
`updated_at` is older than the threshold, which says nothing about whether the
worker is alive. `RetryRead` and `RetryWrite` are the two halves of
`retry_delivery`. A subscriber in `Unsendable` has an endpoint such as
`http://host:abc/`, which passes the API's validation but makes `client.post`
raise `httpx.InvalidURL`; `deliver` does not catch that and the batch is lost
(`PostRaises`). *Faults*: `BatchLost` (a crash, or a session that raises),
`ClaimAnswerLost`, `RecordAnswerLost`.

`Post` chooses what the subscriber does (`ack`: it gives its 2xx) and what the
worker hears (`ok`) separately: a timeout or a broken connection after the 2xx
(`sender.py:85-90`) is a failed attempt like any other. `acked` counts all 2xx of
a row, `unheard` those of them that never reached the worker.

`late` remembers which worker has sent to which subscriber since the
subscriber's last deactivation. `disturbed` is a history variable: rows that a stale reset took while a worker
had them, or that a retry request overwrote although they were no longer dead
or failed. These two races are real (see section 6); the safety
properties say exactly what holds without them.

### The composition

`Pipeline` EXTENDS `Ingest` and instantiates `Delivery` with a row for each event
and subscriber (`uq_delivery_message_subscriber`). The two sides meet where the
code lets them meet: `FanOutCommit` is `Commit` of a handler task *and* `Insert`
of its delivery rows, one transaction (`rabbitmq.py:140-142`);
`SubscriberFlips` is seen by both; `ClaimWithPayload` loads the
`idempotency_keys` objects with the batch (`worker.py:73-76`) into `seen`, and
`PostPayload` sends the enriched payload if `seen` has it, whatever the database
has by now (`worker.py:120`). All other steps of one side leave the other's
variables alone (`Apart`). `FanOutCommit` says `Insert`, not `Create`: that the
rows are not there yet is not assumed, it is what `ImplementsDelivery` shows.

### Subscribers

`stage[r]` of a request is `idle`, `fetching` (before `_get_or_404`), `writing`
(it has the row object `loaded[r]`), `refreshing` (a PATCH that has committed) or
`answered`. `Patched` is what SQLAlchemy's UPDATE does: it sets only the columns
whose value differs from the loaded one. `AnswerFromCache` looks at the key
alone, as `_get_cached_patch` does; `CachePatch` evicts what has expired and
stores, in the step of the refresh, since no await separates them. `Fail` is an
exception at an await, `CommitAnswerLost` a commit that took effect and raised,
`Restart` the death of the process, which loses the cache. The history variables
`raced` (requests that read their row before a rival, a request with another body,
wrote it) and `spoilt` (keys used for something else too, or by such a request) say when an
answer need not show what was asked. A key is in `settled` from the commit of its
PATCH on, and is opened again (`Reopened`, `Expire`, `Fail`, `Restart`) when its
entry expires or is lost, or a rival writes while a request with the key is under way.

### Start-up

`schema` is what `idempotency_keys` looks like: no table, a table from before
`reconcile_count`, the column with the server's default, or without one.
`Migrated` is `create_all` and the `ADD COLUMN IF NOT EXISTS` after it. The
services wait for `migrate` as `depends_on` says; `ComposeUp` runs the migration
again and starts what is not running. `declared[p]` counts the declarations a
process has made, one await each; `LoseBroker` empties the broker, and every
robust connection starts its declarations again. `Publish` routes by the binding
there is at that moment: without one the event is `dropped`, and the API answers
202 all the same. `StackDown` is `scripts/stop.sh` without `-v`.

### Webhook

Time is a number; `now` is the worker's clock and `now + skew` the subscriber's.
`Post` signs with the time of the POST, `Lost` and `Arrive` end it within
`Delay`, `Fails` chooses any back-off `_backoff_seconds` may return, and
`ArriveAgain` is the network delivering an old POST again. Secrets and bodies
agree, so `Verifies` is the age check of `verify()`, in both directions. `store`
is `_received`; `log` is everything that ever arrived.

## 3. The runs

| Run | Question | Bounds |
|---|---|---|
| `Ingest` | all safety properties and the refinement | one id published twice, two processes with one task and a reconciler each, two queue slots, cap 2, two faults |
| `IngestBodies` | bodies without an id or unparsable: no loss, extra rows only for faults | one process with two tasks and prefetch 2, a body with an id, one without, one unparsable; volatile client messages; cycles of two rows; one fault |
| `IngestLive` | every row settles | as `Ingest` with one publish, no subscribers, one fault, fair |
| `Delivery` | all safety properties | two rows of two endpoints in one batch, one of them `Unsendable`, two workers, one retry request, one fault, `MaxAttempts` 1 |
| `DeliveryLive` | attempts and acknowledgements bounded; refinement; every row settles | one row, two workers, three attempts, one retry, one fault, answers lost at any attempt, fair |
| `Pipeline` | end to end: fan-out, duplicates, payload, refinement, delivery in the end | one event, one subscriber, two queue slots, one consumer with its reconciler, cap 1, one fault of the ingest side, one worker, two attempts, fair |
| `Subscribers` | rows, columns, keys, answers, refinement | two subscribers, three requests, all of which may overlap, one key, bodies with one column each, one fault |
| `Startup` | schema, routing, storage, the stack comes up | two events, three faults, a database from before `reconcile_count` or one already migrated, fair |
| `Webhook` | retries verify, listing | one delivery with three POSTs, three arrivals, tolerance 2, skew 1, delay 1, back-off up to 2, a store of 2, time to 5 |
| `IngestRetried`, `DeliveryPoison`, `StartupFresh` | one claim of a comment, document or test each, which the code does not keep | the smallest instance that shows it |

*Why the bounds are enough.* Nothing in the ingest code relates two different
events, except that they share queue slots, the prefetch and a reconciler
batch: `Ingest` examines one event with every copy of it (original, duplicate,
re-enqueued) and `IngestBodies` the sharing. Two slots hold an original and a
re-enqueued copy at once. Two processes are what two reconcilers that overwrite
each other's count, and a handler against another process's reconciler, need.
Cap 2 tells "one short of the cap" from "at the cap" and zero. On the delivery
side, rows meet only in a batch (two rows, one of which aborts the other) and
workers only at one row (two workers). `DeliveryLive` has the attempt count that
`Delivery` lacks. In `Pipeline` two slots hold an original and a re-enqueued
copy while the worker has the row; retry requests and faults of the delivery
side, which `Delivery` and `DeliveryLive` examine, are off there, so that
`AbsorbsDuplicates` admits no second 2xx for a row that is not disturbed, except
after one that the worker did not hear. In
`Subscribers` two requests are a PATCH and its duplicate, overlapping or not, and
the third writes between them; or the third is the duplicate, or the
other subscriber, that meets what a race left in the cache; rows start with
either of two endpoints, one of which the bodies ask for. Three faults in `Startup` are a failed
migration, a crash and a lost broker in one behaviour. In `Webhook` the sums of
skew and delay lie on the tolerance, the longest back-off is the tolerance, and
three arrivals overflow a store of two. The theorems of section 5 then drop all
of these bounds for the safety properties.

Bounds in the guards: `Copies` (queue length), `Slots` (tasks per process),
`MaxSends`, `MaxFaults`, `MaxDeliveryFaults`, `MaxRetries`, `Requests`,
`MaxCalls`; in `Webhook` also `MaxAttempts`, `MaxReceived` and `MaxTime`. Where the queue is full,
`Publish` and `Republish` wait. The specifications may stop (every event settled
and every bound used up), so deadlock is not checked.

Symmetry sets are used for queue slots, processes, tasks, workers, requests and
subscribers in the safety runs only, never where liveness is checked.

### The properties

* `OneOwner`: at most one task ever works on a row, however many copies of its message are in flight.
* `NoSilentLoss`: a published message is in the broker until its row is committed; only an exception before the commit can drop it (`rejected`).
* `CountIsEarned`, `AbandonedAfterCap`: `reconcile_count` never exceeds the messages that reached the queue, and a row is given up only after `MaxAttempts` of them, though cycles roll back, time out and overwrite each other.
* `FatalIsFinal`: a row whose last error is a fatal enrichment error has not been enriched and will not be.
* `OrphanForever`: once no task works on a row, none ever will again.
* `ImplementsLedger`: the tables change only as `EventLedger` allows: accepted once, with the fan-out fixed at acceptance; enriched at most once; abandonment is a blind write.
* `Settles` (`Ingest`): a received row ends enriched or failed.
* `ClaimDisjoint`, `ClaimStands`: unless a reset or retry took the row away, one worker holds it, it is `in_flight`, and the `attempt_count` the worker will write back is not stale.
* `AttemptBudget`: `attempt_count` never exceeds `delivery_max_attempts` plus the retry requests carried out, in all races, disturbed rows included.
* `DuplicateNeedsLoss`: an undisturbed row gets a second 2xx only after one was lost, on its way to the worker (a timeout, a broken connection) or before its record (a crash, a failed session), and one more for each.
* `AckBudget`: a subscriber whose answers all come too late is not sent a row for ever: the attempts nobody heard the answer of are counted, so an undisturbed row is acknowledged at most `delivery_max_attempts` times, and once more per retry request and fault.
* `FinalStands`: delivered and dead are final up to retry requests, for undisturbed rows.
* `OneLatePost`: after a subscriber's deactivation a worker makes one POST to it at most, the one it had already decided on; no later batch, reset or retry lets it send another.
* `Settles` (`Delivery`): a created row ends delivered or dead.
* `ImplementsLedger` (`Delivery`): a row is delivered only for an acknowledgement that nobody has recorded yet, and dead at the cap, never before, unless its subscriber is inactive; each conclusion counts one attempt. A worker that lost its row to a reset or a retry request (`loose`) writes blindly, within the same bound.
* `ExtraRowsNeedFaults`: a body without `message_id` makes one row per publication, and one more per fault that made the broker deliver it again; re-enqueueing makes none.
* `NothingFallsBetween`: a published event is in the broker, rejected, or accepted; an accepted one has the delivery rows of its fan-out, and nothing else has any. The commit is the only joint of the two sides, and nothing is lost or doubled there.
* `ImplementsDelivery`: in the composition the delivery rows behave as `Delivery` says; no duplicate of an event inserts a row that is there.
* `AbsorbsDuplicates`: end to end, however often an event is published, redelivered or re-enqueued, a second 2xx takes the loss of one on the delivery side, or a disturbed row. No duplicate of the event causes one.
* `OneOutdatedPost`: a worker may send the raw payload of an event that is already enriched, once per row; every later try sends the enriched one.
* `ReachesEveryone`: a published event is rejected by a failed handler, or each delivery of its fan-out ends.
* `ImplementsLedger` (`Subscribers`): registered once, switched on and off, deleted for good, though a PATCH that overlaps a DELETE may write `is_active` after it.
* `ColumnsKept`: a column changes only to a value that a running request asks for it; overlapping PATCHes of different columns both take effect.
* `AppliedOnce`: a PATCH with a key changes its row once within the TTL. Duplicates that overlap it commit as well, but find what they write in the row already; a later one is answered from the cache and undoes nothing that others wrote since. What opens the key again is an entry that expired or was lost, a request that failed after its commit, and another request's write while one with the key is under way.
* `AnswerMatches`: a 200 shows the subscriber asked for with every column named, unless another request wrote in between or the key was used for something else.
* `SchemaFirst`: no service runs on a table that lacks `reconcile_count`.
* `RoutedOnceReady`: nothing is dropped while the consumer is ready, whichever process lost and repeated which declarations.
* `EventsAreStored`: a queued event is stored, or lost with the broker.
* `StackComesUp`: the stack is up in the end.
* `FreshVerifies`: a first arrival verifies if clocks and network stay within the tolerance, however late the retry is.
* `ListingIsNewest`: a listing is the newest part of what arrived since the store was last empty, in order, for every limit up to one beyond the store's.

Each of them has a mutant in `PROJECT.json`: a definition such as `Locked`,
`Exhausted` or `Claimable` with the slip a programmer might make. TLC finds the
property violated under that mutant.

## 4. Fairness

*Ingest.* Weak fairness for each task's next step (asyncio resumes a runnable
coroutine; the HTTP client and the database answer or time out), for a row's age,
and for each step of a reconciler cycle (it is a supervised `while True`). A
publish needs room in the bounded queue, which comes and goes as consumers take
messages, so `Republish` has strong fairness; in the code the queue has no limit.
No fairness for clients, subscribers or faults. `Crash` includes the restart of
the process: `docker-compose.yml` has no restart policy for it, so this assumes
that somebody starts it again.

*Delivery.* Weak fairness for a worker (it polls in a loop that survives
exceptions), for the reset, for the two clocks and for the second half of a
retry request. No fairness for new rows, for PATCH or DELETE, for retry
requests, or for faults. `Settles` of `Delivery` holds where no endpoint makes
`deliver` raise; `DeliveryPoison` shows that it fails for one that does.

*Pipeline.* The fairness of the two sides, each step with what it does to the
other side. *Start-up.* Weak fairness for the migration, for a service whose
migration has completed, for the declarations of a running service (a robust
connection tries until it succeeds), for the consumer, and for `ComposeUp`: the
last one is a person, and `StackComesUp` says that this is all it takes.
*Subscribers* and *Webhook* have no liveness property and no fairness.

## 5. What is proved

From the named assumptions of the modules only (`IngestAssumption`,
`ConsumerAssumption`, `ReconcilerAssumption`, `DeliveryAssumption`,
`PipelineAssumption`, `SubscribersAssumption`, `StartupAssumption`,
`WebhookAssumption`), which fix the kinds of the constants. Three theorems
carry a further hypothesis, which is part of what they say: `CapHoldsAlways`
(there is one consumer process), `UpgradedRejectsNone` and `FreshStoresNone`
(which databases the deployment starts from).

*Ingest*, in layers, each inductive relative to those before it:

1. `TypeInv` (`IngestProofs`): types, `reconcile_count` within its cap; a task that is not idle has an id; two tasks never hold one delivery.
2. `OwnerInv` (`IngestProofs`): `OneOwner` is not inductive. It needs that an uncommitted key has no row (`Uncommitted`), that a task past its commit has one (`Committed`), and that a reconciler works only on rows that are there (`CycleRows`).
3. `OutcomeInv` (`LedgerProofs`): as long as a row has an owner, or no row, it is neither enriched nor marked fatal. This gives `FatalIsFinal`.
4. `QueueInv` (`QueueProofs`): a message the API sent is in a slot that survives a broker restart (`Kept`), and a task can ack only its own message, at or before its own ack (`Carries`). `CountInv`: the count that a reconciler's session has loaded, or raised and not committed, is earned too.
5. `ExtraRowsNeedFaults` (`QueueProofs`) by a charge. `NamelessInv`: an id that the consumer made up belongs to one task, and is on the queue only if its row is there, so what the reconciler re-enqueues is skipped. `ChargeInv`: the ids of that kind that have a row, or may still get one from a task that has lost its message (`Charged`), and the messages without an id that may make a row (`Unspent`), number at most `sent[Anon] * (1 + faults)`. A commit charges the row to its message, which is spent; an ack removes it. Only a fault can make spent messages unspent, or tasks lose theirs, and it raises the bound by `sent[Anon]`, of which there are no fewer than there are such messages on the queue.
6. `CapHolds` (`QueueProofs`), with one consumer process: a row is re-enqueued at most `MaxAttempts` times, and once more for each fault. `CapInv`: what the only reconciler has loaded is what the table has, so its counts are never stale, and a message that no count will show is the price of the fault that ended its cycle. With two processes this is false, see section 6.
7. `LedgerRefinement` (`LedgerProofs`): a commit maps to `Accept`, `PersistEnrichment` to `Enrich`, `RecordFatal` to `FailForGood`, `CommitCycle` to `Abandon`, all other steps to stuttering. `OrphanForever` follows from layers 1 and 2.

*Delivery*:

1. `TypeOK` is inductive.
2. `ClaimInv`: `ClaimDisjoint` needs `ClaimStands` (a held row is `in_flight`, so no claim takes it) and that the current row has left the batch.
3. `BudgetInv`: a row that is not final has an attempt left, and so has the count that any worker has loaded, stale or not. That is why the unguarded write of `snap + 1` cannot pass the limit.
4. `AckInv`: an undisturbed row that is neither delivered nor about to be recorded as delivered (`Answered`) has had at most `faults + unheard` 2xx answers; so a further POST, which only such a row can get, leads to at most one more. `SentInv`: an undisturbed row has had at most `attempt_count + faults` of them, and one more while a worker is about to record its POST (`Recording`), whatever that worker heard; with `AttemptBudget` this is `AckBudget`.
5. `FinalStands` from `ClaimInv`.
6. `LateInv`: a worker that has sent late to a subscriber is not about to send to it, until the subscriber is active again. Gives `OneLatePost`.
7. `LedgerRefinement`: `Create` maps to `Open`, a 2xx answer to `Acknowledge`, `Record` to `Conclude`, `DropInactive` to `Drop`, a lost batch to `Forget`, `RetryWrite` to `Retry`, `StaleReset` to `Loosen` of the rows it takes from workers, all other steps to stuttering. A claimed row maps to an open one. `Owed` are the rows that some worker is about to record as delivered. `Record` is the step that needs everything before it: the count it writes is the next one (`ClaimStands`) and within the bound (`BudgetInv`), and no other worker owes the same row (`ClaimDisjoint`).
8. `TrueInv`: an answer that a worker is about to record was heard, and none comes from an `Unsendable` endpoint. `HeardOnce`: a delivered row has a 2xx that its worker heard, and exactly one if it is undisturbed and no session failed; every other 2xx was lost on its way. `NeverCounted`: the row of an endpoint that makes the POST raise keeps `attempt_count` 0 for ever, which says of every instance why `DeliveryPoison` has its counterexample.

*Pipeline*. `ImplementsIngest` needs no invariant: each step is one of `Ingest` or
stutters, so all theorems about `Ingest` hold in the composition.
`DeliveryRefinement` needs that a delivery row belongs to a committed event
(`RowsAccepted`): the commit of a task whose key has no row (`Uncommitted`, from
layer 2 of *Ingest*) then inserts rows that are not there. The theorems about
`Delivery` are used through its instance, `AbsorbsDuplicates` is one of them.
`OneOutdatedPost` needs `OutdatedInv`: a row that was sent outdated has a worker
which is about to record that, and its event is enriched, so that every worker
that sends it from then on has loaded the enriched payload. `JointInv` adds
`Existing`: nobody holds a row that is not there.
`NothingFallsBetween` is `NoSilentLoss`, carried over by `ImplementsIngest`, and
`RowsMatch`: the rows there are and `attempts` are the same set, since one commit
writes both, and `Uncommitted` says that it is the first for its key.
`BothLedgers` puts the two refinements together: the tables of the whole service
change as `EventLedger` and `DeliveryLedger` say. `Arrived` follows from all of
these: a delivered row belongs to an accepted event and its fan-out, and has a
2xx that a worker heard, exactly one unless it was disturbed or the delivery side failed.

*Subscribers*.

1. `TypeOK` is inductive; it says also which stages have loaded a row.
2. `LedgerRefinement`: commits map to `Switch` and `Delete`. A PATCH after the DELETE stutters, because `Active` subtracts `deleted`.
3. `ColumnsKept` from the type of what `Patched` returns.
4. `AnswersInv`: what is cached under a key that was not spoilt answers its first use (`Cached`, `Noted`), and a request that nothing has raced knows its row (`Seen`, `Shows`): before its write, a column has the value it loaded or the one it asks for; after it, the one it asks for.
5. `SettledInv`: a settled key that was not spoilt has a fresh entry, or a request that is about to make it; and while any request with the key is under way, the row has what the key's PATCH asks for. `Patched` then writes nothing new, which is `AppliedOnce`.

*Start-up*. `IInv`: what a process has declared is there (`Kept`), and after a
completed migration the table has its column (`Prepared`). Which column it is was
decided by the first migration: no step leads from `Upgraded` (a table from
before the column, or with the server's default) to `CreatedBare` (made by
`create_all`) or back. On the first kind of database no event is rejected for
its INSERT (`UpgradedRejectsNone`), on the second none is ever stored
(`FreshStoresNone`). *Webhook*. `IInv`:
the store is the end of the log since it was last empty (`StoreIsNewest`), and
`FreshVerifies`, which holds because a POST is under way for `Delay` at most (`TypeOK`).

Only model-checked: `Settles` on both sides, `ReachesEveryone`,
`EventsAreStored` and `StackComesUp` (liveness under fairness is out of the
prover's reach, and so is ENABLED, on which they rest), and section 6, which are
counterexamples. Every invariant and every action property that a run checks is
also a theorem. No module needs induction over data or a RECURSIVE operator.

## 6. Where code and documents disagree

Three runs which TLC refutes; the finding in `PROJECT.json` quotes the line.

* `IngestRetried`: an event whose enrichment failed is never retried. The reconciler's message is acked as a duplicate; after the cap the row is marked failed. (`OrphanForever`, which is proved, is the general statement.)
* `DeliveryPoison`: an endpoint that makes the POST raise keeps its row in a loop of claim and reset, without ever counting an attempt.
* `StartupFresh`: on a database that `create_all` made, `reconcile_count` is NOT NULL without a server default, the migration finds the column, and the consumer's raw INSERT, which omits it, fails: every message is rejected.

What the models allow, and the properties therefore except:

* Handler and reconciler overwrite each other's final status (`rabbitmq.py:193`, `227`): `Abandon` of `EventLedger` is a blind write, although `app/db/README.md:23` draws one way only.
* Two reconcilers, of two consumer processes, write back each other's `reconcile_count` (`rabbitmq.py:254`): both load 0, both publish, both write 1. `README.md:172` says "capped at `RECONCILER_MAX_ATTEMPTS` cycles per message"; that holds with one process (`CapHolds`, proved). On the instance of `Ingest` TLC finds a row re-enqueued more often than twice the cap.
* A redelivered message without `message_id` becomes another row (`rabbitmq.py:125`, `ExtraRowsNeedFaults`).
* A batch slower than the stale threshold shares its rows with another worker (`worker.py:44`), and a retry request resets a row that was claimed or delivered after it read it (`deliveries.py:66`): the rows in `disturbed`.
* A 2xx whose answer is lost to a timeout or a broken connection is recorded as a failed attempt and sent again (`sender.py:85-90`): without any crash a subscriber may acknowledge a row as often as `AckBudget` allows. It can tell by `X-Webhook-ID`.
* `app/api/README.md:10` says that duplicate PATCHes within 60 s "return the cached response without a DB write", and the comment at `subscribers.py:85` says likewise. Duplicates that overlap both miss the cache (`subscribers.py:86-89`), which is filled after the commit (`subscribers.py:97-102`), and both commit: `updated_at` is written twice, and a third request's write between the two commits is undone by the second. `Subscribers` has these behaviours; `AppliedOnce` says what remains true, and excepts exactly the third request's write while the duplicate is under way.
* A deactivation between re-fetch and POST is not seen (`worker.py:108`, `OneLatePost`), although `README.md:127` says "never".
* The payload is the one loaded with the claim, raw if enrichment was not finished then (`worker.py:120`, `OneOutdatedPost`).
* The API declares the queue "so publishes don't get dropped" (`broker.py:31`) and does not bind it: before the consumer's first binding, and after the broker comes back empty, they are dropped with a 202 (`dropped` in `Startup`).
* `scripts/README.md:20` says that stopping leaves the queue's data intact; `rabbitmq` has no volume in `docker-compose.yml` (`wiped`).
* A PATCH that read its row before a DELETE answers 200 after it, and a cached answer may show a subscriber deleted since, or another one (`spoilt`).
* `GET /received?limit=0` lists everything (`receiver/main.py:59`; `First`).

## 7. What is left out, and why

* `Ingest` and `Pipeline` start with the queue bound and a database whose `reconcile_count` has its default; how that comes about, or does not, is `Startup`.
* `Ingest`, `Delivery` and `Pipeline` see of a subscriber whether it is active; they let a deleted one become active again, which `Subscribers` shows the code does not, and so cover more than the code does. `Subscribers` is one API process, as the cache's comment demands (`subscribers.py:28`).
* `GET` endpoints, statistics, health checks and the body-size limit change no state.
* Metrics, logs, wording of errors, HTTP status codes other than success, and the distribution of the jitter: no property is about them.
* Request validation (`app/schemas/`) appears as the inputs the actions enumerate; `app/config.py` as CONSTANTS.
* The enrichment providers (`app/enricher/`) call a service; `handle_message` tells three outcomes apart, and these are modelled. `_enrich_with_retry` is one step: between its tries it touches nothing shared.
* HMAC is symbolic: secret and body agree, so a signature is as good as its timestamp.
* The sending of one POST in `Webhook` and in `Delivery` is the same code at two levels: `Webhook` has clocks and no rows, `Delivery` rows and no clocks.
* `scripts/e2e_test.py` is a client of the API; `stop.sh -v` makes a fresh deployment, which is an initial state of `Startup`.

What could follow: several API processes in `Subscribers`, whose caches do not
see each other; clocks in `Delivery`, so that the stale threshold can be compared
with the longest batch.
