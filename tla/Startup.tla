------------------------------ MODULE Startup ------------------------------
(***************************************************************************)
(* How the stack comes up, and what becomes of events published meanwhile: *)
(* docker-compose.yml starts the migration (app/db/session.py) and, once it*)
(* has completed, the API (app/broker.py), the consumer (run() of          *)
(* app/consumer/rabbitmq.py) and the delivery worker; the publisher script *)
(* (scripts/publish_events.py) may run at any time.  Each of them declares *)
(* what it needs on the broker, one await after the other, and robust      *)
(* connections declare it again when the broker comes back.  Only the      *)
(* consumer binds the queue.                                               *)
(*                                                                         *)
(* Postgres keeps its data in a volume; the broker has none, and loses     *)
(* everything when its container is removed (scripts/stop.sh).             *)
(***************************************************************************)
EXTENDS Naturals, Sequences

CONSTANTS
    Events,       \* events
    Databases,    \* the schemas a deployment may find: a subset of Schemas
    MaxFaults     \* bound: failed migrations, crashes and lost brokers together

(* The table idempotency_keys: there is none, it is from before            *)
(* reconcile_count, it has the column with the server's default, or        *)
(* without one.                                                            *)
Schemas == {"none", "old", "default", "noDefault"}

ASSUME StartupAssumption == Databases \subseteq Schemas /\ MaxFaults \in Nat

VARIABLES
    schema,       \* of the database
    migrate,      \* the migrate service
    service,      \* state of each process
    declared,     \* how many of its declarations each process has made
    broker,       \* what exists on the broker
    queue,        \* events on the queue
    stored, rejected, dropped, wiped,   \* what became of the others
    faults        \* faults so far

eventVars == <<queue, stored, rejected, dropped, wiped>>
vars == <<schema, migrate, service, declared, broker, eventVars, faults>>

Composed == {"api", "consumer", "worker"}
Publishers == {"api", "script"}
Processes == Composed \cup {"script"}

\* What each process declares on the broker, in its order.
Declarations(p) ==
    CASE p = "consumer" -> <<"exchange", "queue", "binding">>
      [] p \in Publishers -> <<"exchange", "queue">>
      [] p = "worker" -> <<>>

Init ==
    /\ schema \in Databases
    /\ migrate = "off"
    /\ service = [p \in Processes |-> "off"]
    /\ declared = [p \in Processes |-> 0]
    /\ broker = {}
    /\ queue = {} /\ stored = {} /\ rejected = {} /\ dropped = {} /\ wiped = {}
    /\ faults = 0

Fault == faults < MaxFaults /\ faults' = faults + 1

\* A process serves: it has declared everything.
Ready(p) == service[p] = "up" /\ declared[p] = Len(Declarations(p))

Published == queue \cup stored \cup rejected \cup dropped \cup wiped

-----------------------------------------------------------------------------
(* The database *)

\* create_all alone: an existing table gets no column.  (mutant)
MigratedTablesOnly(s) == IF s = "none" THEN "noDefault" ELSE s

\* create_all creates a missing table from the model, whose reconcile_count has
\* a default in Python only; then ADD COLUMN IF NOT EXISTS ... DEFAULT 0.
Migrated(s) ==
    CASE s = "none" -> "noDefault"
      [] s = "old" -> "default"
      [] OTHER -> s

\* ADD COLUMN without IF NOT EXISTS.  (mutant)
MigrateOnce ==
    /\ migrate = "asked" /\ schema = "old"
    /\ schema' = Migrated(schema)
    /\ migrate' = "completed"
    /\ UNCHANGED <<service, declared, broker, eventVars, faults>>

\* One transaction.
Migrate ==
    /\ migrate = "asked"
    /\ schema' = Migrated(schema)
    /\ migrate' = "completed"
    /\ UNCHANGED <<service, declared, broker, eventVars, faults>>

\* Whoever waits for it keeps waiting.  (mutant)
MigrateFailsUnseen ==
    /\ migrate = "asked"
    /\ Fault
    /\ migrate' = "failed"
    /\ UNCHANGED <<schema, service, declared, broker, eventVars>>

\* It is rolled back and not restarted; compose gives up on what waits for it.
MigrateFails ==
    /\ migrate = "asked"
    /\ Fault
    /\ migrate' = "failed"
    /\ service' = [p \in Processes |-> IF service[p] = "waiting" THEN "off" ELSE service[p]]
    /\ UNCHANGED <<schema, declared, broker, eventVars>>

\* Can the consumer's INSERT, which names no reconcile_count, and the SELECT of
\* the whole row after it succeed?
Stores == schema = "default"

-----------------------------------------------------------------------------
(* The processes *)

\* docker compose up: the migration runs again, and what is not running is
\* started after it.
ComposeUp ==
    /\ migrate # "asked"
    /\ \E p \in Composed : service[p] = "off"
    /\ migrate' = "asked"
    /\ service' = [p \in Processes |->
                      IF p \in Composed /\ service[p] = "off" THEN "waiting" ELSE service[p]]
    /\ UNCHANGED <<schema, declared, broker, eventVars, faults>>

\* depends_on: condition: service_started.  (mutant)
StartAtOnce(p) ==
    /\ service[p] = "waiting"
    /\ service' = [service EXCEPT ![p] = "up"]
    /\ declared' = [declared EXCEPT ![p] = 0]
    /\ UNCHANGED <<schema, migrate, broker, eventVars, faults>>

\* condition: service_completed_successfully
Start(p) ==
    /\ service[p] = "waiting" /\ migrate = "completed"
    /\ service' = [service EXCEPT ![p] = "up"]
    /\ declared' = [declared EXCEPT ![p] = 0]
    /\ UNCHANGED <<schema, migrate, broker, eventVars, faults>>

\* Someone runs the publisher.
RunScript ==
    /\ service["script"] = "off"
    /\ service' = [service EXCEPT !["script"] = "up"]
    /\ declared' = [declared EXCEPT !["script"] = 0]
    /\ UNCHANGED <<schema, migrate, broker, eventVars, faults>>

\* declare_exchange, declare_queue or bind: each is there already or is created.
Declare(p) ==
    /\ service[p] = "up" /\ ~Ready(p)
    /\ declared' = [declared EXCEPT ![p] = @ + 1]
    /\ broker' = broker \cup {Declarations(p)[declared[p] + 1]}
    /\ UNCHANGED <<schema, migrate, service, eventVars, faults>>

\* A process dies or the script ends; nothing restarts it by itself.
Stop(p) ==
    /\ service[p] = "up"
    /\ IF p = "script" THEN UNCHANGED faults ELSE Fault
    /\ service' = [service EXCEPT ![p] = "off"]
    /\ declared' = [declared EXCEPT ![p] = 0]
    /\ UNCHANGED <<schema, migrate, broker, eventVars>>

-----------------------------------------------------------------------------
(* Events *)

\* The exchange drops what no binding routes; the publisher is told nothing,
\* and the API answers 202 either way.
Publish(p, e) ==
    /\ Ready(p) /\ e \notin Published
    /\ \/ "binding" \in broker /\ queue' = queue \cup {e} /\ UNCHANGED dropped
       \/ "binding" \notin broker /\ dropped' = dropped \cup {e} /\ UNCHANGED queue
    /\ UNCHANGED <<schema, migrate, service, declared, broker, stored, rejected, wiped, faults>>

\* handle_message: a failed INSERT rejects the message without requeueing it.
Consume(e) ==
    /\ Ready("consumer") /\ e \in queue
    /\ queue' = queue \ {e}
    /\ IF Stores THEN stored' = stored \cup {e} /\ UNCHANGED rejected
       ELSE rejected' = rejected \cup {e} /\ UNCHANGED stored
    /\ UNCHANGED <<schema, migrate, service, declared, broker, dropped, wiped, faults>>

\* connect instead of connect_robust: nothing is declared again.  (mutant)
LoseBrokerForGood ==
    /\ Fault
    /\ broker' = {}
    /\ queue' = {} /\ wiped' = wiped \cup queue
    /\ UNCHANGED <<schema, migrate, service, declared, stored, rejected, dropped>>

\* The broker comes back empty; every connection to it is made again, and with
\* it the declarations of its process.
LoseBroker ==
    /\ Fault
    /\ broker' = {}
    /\ queue' = {} /\ wiped' = wiped \cup queue
    /\ declared' = [p \in Processes |-> 0]
    /\ UNCHANGED <<schema, migrate, service, stored, rejected, dropped>>

\* docker compose down: the containers are removed, the database volume stays.
StackDown ==
    /\ \E p \in Composed : service[p] # "off"
    /\ Fault
    /\ migrate' = "off"
    /\ service' = [p \in Processes |-> "off"]
    /\ declared' = [p \in Processes |-> 0]
    /\ broker' = {}
    /\ queue' = {} /\ wiped' = wiped \cup queue
    /\ UNCHANGED <<schema, stored, rejected, dropped>>

-----------------------------------------------------------------------------

Next ==
    \/ Migrate
    \/ MigrateFails
    \/ ComposeUp
    \/ \E p \in Composed : Start(p)
    \/ RunScript
    \/ \E p \in Processes : Declare(p)
    \/ \E p \in Processes : Stop(p)
    \/ \E p \in Publishers, e \in Events : Publish(p, e)
    \/ \E e \in Events : Consume(e)
    \/ LoseBroker
    \/ StackDown

Spec == Init /\ [][Next]_vars

\* What runs goes on, and somebody brings back what has stopped.
Fairness ==
    /\ WF_vars(Migrate)
    /\ WF_vars(ComposeUp)
    /\ \A p \in Composed : WF_vars(Start(p)) /\ WF_vars(Declare(p))
    /\ \A e \in Events : WF_vars(Consume(e))

FairSpec == Spec /\ Fairness

-----------------------------------------------------------------------------
(* Properties *)

\* Every variable has its type, no process has declared more than it needs, and
\* none waits for a migration that has failed.
TypeOK ==
    /\ schema \in Schemas
    /\ migrate \in {"off", "asked", "completed", "failed"}
    /\ service \in [Processes -> {"off", "waiting", "up"}]
    /\ declared \in [Processes -> 0 .. 3]
    /\ \A p \in Processes : declared[p] <= Len(Declarations(p))
    /\ broker \subseteq {"exchange", "queue", "binding"}
    /\ Published \subseteq Events
    /\ (\E p \in Processes : service[p] = "waiting") => migrate \in {"asked", "completed"}
    /\ faults \in 0 .. MaxFaults

\* No service of the stack, started in any order and restarted after any crash,
\* ever reads a table that lacks the column its queries name: a migration that
\* failed or never ran keeps all of them down.
SchemaFirst ==
    \A p \in Composed : service[p] = "up" => schema \in {"default", "noDefault"}

\* No event is dropped while the consumer is ready, whatever was lost before and
\* whichever process declared what again, in whichever order.
RoutedOnceReady ==
    [][Ready("consumer") => dropped' = dropped]_vars

\* A queued event is stored, or goes with the broker.  (Not on a database that
\* create_all made: see the run StartupFresh.)
EventsAreStored ==
    \A e \in Events : e \in queue ~> e \in stored \cup wiped

\* The stack comes up, from whatever database it finds and after whatever
\* crashes, lost brokers and failed migrations.
StackComesUp == <>[](\A p \in Composed : Ready(p))
=============================================================================
