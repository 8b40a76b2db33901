--------------------------- MODULE StartupProofs ---------------------------
(***************************************************************************)
(* Startup for any number of events and faults: no service reads a table   *)
(* that lacks its column, and nothing is dropped while the consumer is     *)
(* ready.  A process goes through its declarations in its own order while  *)
(* others go through theirs and the broker may lose everything between any *)
(* two of them; what makes the theorems true is that whatever a process    *)
(* counts as declared exists (Kept).                                       *)
(***************************************************************************)
EXTENDS Startup, TLAPS

\* A completed migration has left the column there, on any database.
Prepared == migrate = "completed" => schema \in {"default", "noDefault"}

\* What a process has declared since its connection was made is on the broker.
Kept == \A p \in Processes : \A i \in 1 .. declared[p] : Declarations(p)[i] \in broker

IInv == TypeOK /\ SchemaFirst /\ Prepared /\ Kept

\* Every process has at most three declarations, of things that exist on a broker.
LEMMA DeclarationsType ==
    ASSUME NEW p \in Processes
    PROVE  /\ Declarations(p) \in Seq({"exchange", "queue", "binding"})
           /\ Len(Declarations(p)) \in 0 .. 3
  <1>1. CASE p = "consumer"
    BY <1>1 DEF Declarations, Publishers
  <1>2. CASE p \in Publishers
    <2>1. Declarations(p) = <<"exchange", "queue">>
      BY <1>2 DEF Declarations, Publishers
    <2> QED
      BY <2>1
  <1>3. CASE p = "worker"
    <2>1. Declarations(p) = <<>>
      BY <1>3 DEF Declarations, Publishers
    <2> QED
      BY <2>1
  <1> QED
    BY <1>1, <1>2, <1>3 DEF Processes, Composed, Publishers

\* The consumer's third and last one is the binding.
LEMMA ConsumerBinds ==
    Len(Declarations("consumer")) = 3 /\ Declarations("consumer")[3] = "binding"
  BY SMT DEF Declarations, Publishers

LEMMA InitInv == Init => IInv
  <1>1. SUFFICES ASSUME Init PROVE IInv
    OBVIOUS
  <1>2. \A p \in Processes : declared[p] = 0 /\ declared[p] <= Len(Declarations(p))
    BY <1>1, DeclarationsType DEF Init
  <1>3. TypeOK
    BY <1>1, <1>2, StartupAssumption DEF Init, TypeOK, Published
  <1>4. SchemaFirst /\ Prepared /\ Kept
    BY <1>1, <1>2 DEF Init, SchemaFirst, Prepared, Kept, Processes
  <1> QED
    BY <1>3, <1>4 DEF IInv

\* Every action keeps the invariant; the events play no part in it.
LEMMA NextInv == IInv /\ [Next]_vars => IInv'
  <1> SUFFICES ASSUME IInv, [Next]_vars PROVE IInv'
    OBVIOUS
  <1> USE StartupAssumption DEF IInv
  <1>1. CASE Migrate
    BY <1>1, DeclarationsType
    DEF Migrate, Migrated, Schemas, TypeOK, SchemaFirst, Prepared, Kept, Published, eventVars
  <1>2. CASE MigrateFails
    BY <1>2, DeclarationsType
    DEF MigrateFails, Fault, TypeOK, SchemaFirst, Prepared, Kept, Published, eventVars,
        Composed, Processes
  <1>3. CASE ComposeUp
    BY <1>3, DeclarationsType
    DEF ComposeUp, TypeOK, SchemaFirst, Prepared, Kept, Published, eventVars, Composed, Processes
  <1>4. ASSUME NEW p \in Composed, Start(p) PROVE IInv'
    BY <1>4, DeclarationsType
    DEF Start, TypeOK, SchemaFirst, Prepared, Kept, Published, eventVars, Composed, Processes
  <1>5. CASE RunScript
    BY <1>5, DeclarationsType
    DEF RunScript, TypeOK, SchemaFirst, Prepared, Kept, Published, eventVars, Composed, Processes
  <1>6. ASSUME NEW p \in Processes, Declare(p) PROVE IInv'
    <2>1. declared[p] + 1 \in 1 .. Len(Declarations(p))
      BY <1>6, DeclarationsType DEF Declare, Ready, TypeOK
    <2>2. Declarations(p)[declared[p] + 1] \in {"exchange", "queue", "binding"}
      BY <2>1, DeclarationsType
    <2>3. TypeOK'
      <3>1. declared[p] + 1 \in 0 .. 3 /\ declared[p] + 1 <= Len(Declarations(p))
        <4>1. ASSUME NEW x, NEW l \in 0 .. 3, x \in 1 .. l PROVE x \in 0 .. 3 /\ x <= l
          BY <4>1
        <4>2. Len(Declarations(p)) \in 0 .. 3
          BY DeclarationsType
        <4> QED
          BY <2>1, <4>1, <4>2
      <3>2. /\ declared' \in [Processes -> 0 .. 3]
            /\ \A q \in Processes : declared'[q] <= Len(Declarations(q))
        BY <1>6, <3>1 DEF Declare, TypeOK
      <3> QED
        BY <1>6, <2>2, <3>2 DEF Declare, TypeOK, Published, eventVars
    <2>4. ASSUME NEW q \in Processes, NEW i \in 1 .. declared'[q]
          PROVE  Declarations(q)[i] \in broker'
      <3>1. CASE q = p /\ i = declared[p] + 1
        BY <1>6, <3>1 DEF Declare, TypeOK
      <3>2. CASE ~(q = p /\ i = declared[p] + 1)
        <4>1. i \in 1 .. declared[q]
          BY <1>6, <3>2 DEF Declare, TypeOK
        <4> QED
          BY <1>6, <4>1 DEF Declare, Kept
      <3> QED
        BY <3>1, <3>2
    <2> QED
      BY <1>6, <2>3, <2>4 DEF Declare, SchemaFirst, Prepared, Kept
  <1>7. ASSUME NEW p \in Processes, Stop(p) PROVE IInv'
    BY <1>7, DeclarationsType
    DEF Stop, Fault, TypeOK, SchemaFirst, Prepared, Kept, Published, eventVars, Composed, Processes
  <1>8. ASSUME NEW p \in Publishers, NEW e \in Events, Publish(p, e) PROVE IInv'
    BY <1>8 DEF Publish, TypeOK, SchemaFirst, Prepared, Kept, Published
  <1>9. ASSUME NEW e \in Events, Consume(e) PROVE IInv'
    BY <1>9 DEF Consume, TypeOK, SchemaFirst, Prepared, Kept, Published
  <1>10. CASE LoseBroker
    BY <1>10, DeclarationsType
    DEF LoseBroker, Fault, TypeOK, SchemaFirst, Prepared, Kept, Published, Processes
  <1>11. CASE StackDown
    BY <1>11, DeclarationsType
    DEF StackDown, Fault, TypeOK, SchemaFirst, Prepared, Kept, Published, Composed, Processes
  <1>12. CASE UNCHANGED vars
    BY <1>12 DEF vars, eventVars, TypeOK, SchemaFirst, Prepared, Kept, Published
  <1> QED
    BY <1>1, <1>2, <1>3, <1>4, <1>5, <1>6, <1>7, <1>8, <1>9, <1>10, <1>11, <1>12 DEF Next

LEMMA Invariant == Spec => []IInv
  BY InitInv, NextInv, PTL DEF Spec

\* Every variable keeps its type, no process declares more than it needs and none
\* waits for a migration that has failed.
THEOREM StartupTyped == Spec => []TypeOK
  <1>1. IInv => TypeOK
    BY DEF IInv
  <1> QED
    BY <1>1, Invariant, PTL

\* Whatever crashes, fails to migrate and is started again, a service that runs
\* finds the column it names.
THEOREM SchemaFirstAlways == Spec => []SchemaFirst
  <1>1. IInv => SchemaFirst
    BY DEF IInv
  <1> QED
    BY <1>1, Invariant, PTL

\* While the consumer is ready the queue is bound, so that nothing is dropped:
\* the broker cannot have lost the binding without the consumer's connection.
THEOREM RoutedOnceReadyAlways == Spec => RoutedOnceReady
  <1>1. IInv /\ [Next]_vars => [Ready("consumer") => dropped' = dropped]_vars
    <2> SUFFICES ASSUME IInv, Next, Ready("consumer") PROVE dropped' = dropped
      BY DEF vars, eventVars
    <2>1. "binding" \in broker
      BY ConsumerBinds DEF IInv, Kept, Ready, Processes, Composed
    <2> QED
      BY <2>1
      DEF Next, Migrate, MigrateFails, ComposeUp, Start, RunScript, Declare, Stop, Publish,
          Consume, LoseBroker, StackDown, eventVars
  <1> QED
    BY <1>1, Invariant, PTL DEF Spec, RoutedOnceReady

-----------------------------------------------------------------------------
(* What the first migration decides *)

\* The migration never changes what an INSERT without reconcile_count meets.
Upgraded == schema \in {"old", "default"} /\ rejected = {}
CreatedBare == schema \in {"none", "noDefault"} /\ stored = {}

LEMMA UpgradedStep == IInv /\ Upgraded /\ [Next]_vars => Upgraded'
  <1> SUFFICES ASSUME IInv, Upgraded, [Next]_vars PROVE Upgraded'
    OBVIOUS
  <1> USE DEF Upgraded
  <1>1. CASE Migrate
    BY <1>1 DEF Migrate, Migrated, eventVars
  <1>2. ASSUME NEW e \in Events, Consume(e) PROVE Upgraded'
    <2>1. schema = "default"
      BY <1>2 DEF Consume, Ready, IInv, SchemaFirst, Composed
    <2> QED
      BY <1>2, <2>1 DEF Consume, Stores
  <1>3. CASE UNCHANGED <<schema, rejected>>
    BY <1>3
  <1> QED
    BY <1>1, <1>2, <1>3
    DEF Next, MigrateFails, ComposeUp, Start, RunScript, Declare, Stop, Publish, LoseBroker,
        StackDown, vars, eventVars

LEMMA CreatedBareStep == CreatedBare /\ [Next]_vars => CreatedBare'
  <1> SUFFICES ASSUME CreatedBare, [Next]_vars PROVE CreatedBare'
    OBVIOUS
  <1> USE DEF CreatedBare
  <1>1. CASE Migrate
    BY <1>1 DEF Migrate, Migrated, eventVars
  <1>2. ASSUME NEW e \in Events, Consume(e) PROVE CreatedBare'
    BY <1>2 DEF Consume, Stores
  <1>3. CASE UNCHANGED <<schema, stored>>
    BY <1>3
  <1> QED
    BY <1>1, <1>2, <1>3
    DEF Next, MigrateFails, ComposeUp, Start, RunScript, Declare, Stop, Publish, LoseBroker,
        StackDown, vars, eventVars

\* session.py, ADD COLUMN IF NOT EXISTS ... DEFAULT 0: on a database that is
\* older than the column, or was once migrated from one, no event is rejected
\* for its INSERT, whatever fails to migrate, dies and is started again.
NoneRejected == rejected = {}

THEOREM UpgradedRejectsNone ==
    ASSUME Databases \subseteq {"old", "default"}
    PROVE  Spec => []NoneRejected
  <1>1. Init => Upgraded
    BY DEF Init, Upgraded
  <1>2. Upgraded => NoneRejected
    BY DEF Upgraded, NoneRejected
  <1> QED
    BY <1>1, <1>2, UpgradedStep, Invariant, PTL DEF Spec

\* models.py, default=0 without a server_default: on a database that create_all
\* made no event is ever stored, and no migration or restart repairs that.
NoneStored == stored = {}

THEOREM FreshStoresNone ==
    ASSUME Databases \subseteq {"none", "noDefault"}
    PROVE  Spec => []NoneStored
  <1>1. Init => CreatedBare
    BY DEF Init, CreatedBare
  <1>2. CreatedBare => NoneStored
    BY DEF CreatedBare, NoneStored
  <1> QED
    BY <1>1, <1>2, CreatedBareStep, PTL DEF Spec
=============================================================================
