------------------------------ MODULE Webhook ------------------------------
(***************************************************************************)
(* A webhook on its way: signed for each POST (app/delivery/signing.py and *)
(* sender.py), retried after a back-off (_backoff_seconds of               *)
(* app/delivery/worker.py), verified by its subscriber with verify(), and  *)
(* kept by the test receiver (receiver/main.py) in a bounded store.        *)
(*                                                                         *)
(* The worker and the subscriber have clocks of their own, the network     *)
(* delays what it delivers and may deliver it again much later.  Secrets   *)
(* and bodies are those of the subscriber throughout: what verify() can    *)
(* tell apart here is the age of a timestamp.                              *)
(***************************************************************************)
EXTENDS Integers, Sequences

CONSTANTS
    Ids,          \* deliveries (X-Webhook-ID)
    Tolerance,    \* tolerance_seconds
    Skew,         \* how far the two clocks are apart, at most
    Delay,        \* how long a POST is under way, at most
    Base,         \* delivery_base_delay_seconds
    MaxDelay,     \* delivery_max_delay_seconds
    Limit,        \* maxlen of the receiver's deque
    MaxAttempts,  \* bound: POSTs of each delivery
    MaxReceived,  \* bound: POSTs that arrive altogether
    MaxTime       \* bound: time

ASSUME WebhookAssumption ==
    /\ Tolerance \in Nat /\ Skew \in Nat /\ Delay \in Nat
    /\ Base \in Nat /\ MaxDelay \in Nat
    /\ MaxAttempts \in Nat /\ MaxReceived \in Nat /\ MaxTime \in Nat
    /\ Limit \in Nat \ {0}

VARIABLES
    now,          \* the worker's clock
    skew,         \* the subscriber's clock minus the worker's
    attempts,     \* POSTs of each delivery
    due,          \* next_attempt_at of each delivery
    acked,        \* deliveries that were answered with a 2xx
    wire,         \* POSTs under way
    store,        \* _received
    \* history
    sent,         \* every POST ever made
    log,          \* everything that arrived, with what verify() says of it
    cleared       \* how much of the log had arrived when the store was last empty

receiverVars == <<store, log, cleared>>
vars == <<now, skew, attempts, due, acked, wire, sent, receiverVars>>

Posts == [id : Ids, signed : Nat]
Entries == [id : Ids, signed : Nat, copy : BOOLEAN, ok : BOOLEAN]

Lesser(a, b) == IF a < b THEN a ELSE b

Init ==
    /\ now = 0
    /\ skew \in -Skew .. Skew
    /\ attempts = [d \in Ids |-> 0]
    /\ due = [d \in Ids |-> 0]
    /\ acked = {}
    /\ wire = {} /\ sent = {}
    /\ store = <<>> /\ log = <<>> /\ cleared = 0

-----------------------------------------------------------------------------
(* Signatures *)

\* verify(): the age counts in both directions.
Verifies(m) ==
    /\ now + skew - m.signed <= Tolerance
    /\ m.signed - (now + skew) <= Tolerance

\* The row is signed when it is first due, not when it is sent.  (mutant)
SignatureOfRow(d) == [id |-> d, signed |-> 0]

\* deliver() signs what it is about to send.
Signature(d) == [id |-> d, signed |-> now]

-----------------------------------------------------------------------------
(* The worker *)

\* The back-off after each attempt: full jitter under a capped exponential.
Backoff(n) == {b \in 0 .. MaxDelay : b <= Base * 2 ^ n}

Post(d) ==
    /\ d \notin acked /\ attempts[d] < MaxAttempts
    /\ due[d] <= now /\ \A m \in wire : m.id # d
    /\ attempts' = [attempts EXCEPT ![d] = @ + 1]
    /\ wire' = wire \cup {Signature(d)}
    /\ sent' = sent \cup {Signature(d)}
    /\ UNCHANGED <<now, skew, due, acked, receiverVars>>

Succeeds(d) == acked' = acked \cup {d} /\ UNCHANGED due

Fails(d) ==
    /\ \E b \in Backoff(attempts[d]) : due' = [due EXCEPT ![d] = now + b]
    /\ UNCHANGED acked

\* The POST is lost: a timeout.
Lost(m) ==
    /\ m \in wire
    /\ wire' = wire \ {m}
    /\ Fails(m.id)
    /\ UNCHANGED <<now, skew, attempts, sent, receiverVars>>

-----------------------------------------------------------------------------
(* The receiver *)

\* A full store keeps what it has.  (mutant)
AppendUnlessFull(e) == IF Len(store) < Limit THEN Append(store, e) ELSE store

\* deque.append: the oldest entry goes when there are more than maxlen.
Appended(e) ==
    LET s == Append(store, e)
    IN  IF Len(s) > Limit THEN Tail(s) ELSE s

\* receive_webhook
Receive(m, copy) ==
    LET e == [id |-> m.id, signed |-> m.signed, copy |-> copy, ok |-> Verifies(m)] IN
    /\ Len(log) < MaxReceived
    /\ store' = Appended(e)
    /\ log' = Append(log, e)
    /\ UNCHANGED cleared

\* A POST arrives; its answer may not, or may not be a 2xx.
Arrive(m) ==
    /\ m \in wire
    /\ wire' = wire \ {m}
    /\ Receive(m, FALSE)
    /\ Succeeds(m.id) \/ Fails(m.id)
    /\ UNCHANGED <<now, skew, attempts, sent>>

\* The network delivers again what was sent at some time.
ArriveAgain(m) ==
    /\ m \in sent \ wire
    /\ Receive(m, TRUE)
    /\ UNCHANGED <<now, skew, attempts, due, acked, wire, sent>>

\* DELETE /received, or the receiver is started again.
Clear ==
    /\ store # <<>>
    /\ store' = <<>> /\ cleared' = Len(log)
    /\ UNCHANGED <<now, skew, attempts, due, acked, wire, sent, log>>

\* list(_received)[-limit:] for a limit of 0, too, and for a negative one.
First(limit) ==
    IF limit > 0 THEN Len(store) - Lesser(limit, Len(store)) + 1 ELSE 1 - limit

Listing(limit) == SubSeq(store, First(limit), Len(store))

-----------------------------------------------------------------------------

Tick ==
    /\ now < MaxTime
    /\ \A m \in wire : now - m.signed < Delay
    /\ now' = now + 1
    /\ UNCHANGED <<skew, attempts, due, acked, wire, sent, receiverVars>>

Next ==
    \/ Tick
    \/ \E d \in Ids : Post(d)
    \/ \E m \in wire : Lost(m)
    \/ \E m \in wire : Arrive(m)
    \/ \E m \in sent : ArriveAgain(m)
    \/ Clear

Spec == Init /\ [][Next]_vars

-----------------------------------------------------------------------------
(* Properties *)

\* Every variable has its type, and a POST under way was made within Delay.
TypeOK ==
    /\ now \in Nat /\ skew \in -Skew .. Skew
    /\ attempts \in [Ids -> Nat] /\ due \in [Ids -> Nat]
    /\ acked \subseteq Ids
    /\ wire \subseteq sent /\ sent \subseteq Posts
    /\ \A m \in wire : m.signed <= now /\ now - m.signed <= Delay
    /\ store \in Seq(Entries) /\ log \in Seq(Entries)
    /\ Len(store) <= Limit
    /\ cleared \in 0 .. Len(log)

\* However late a retry is (the longest back-off is as long as the tolerance),
\* it verifies on its arrival, if the clocks and the network together stay
\* within the tolerance.
FreshVerifies ==
    Skew + Delay <= Tolerance =>
        \A i \in 1 .. Len(log) : ~log[i].copy => log[i].ok

\* A listing is the newest part of what arrived since the store was last empty,
\* oldest first: limit many, or as many as there were or the store can keep.
ListingIsNewest ==
    \A limit \in 1 .. Limit + 1 :
        /\ Len(Listing(limit)) = Lesser(limit, Lesser(Limit, Len(log) - cleared))
        /\ \A i \in 1 .. Len(Listing(limit)) :
               Listing(limit)[i] = log[Len(log) - Len(Listing(limit)) + i]
=============================================================================
