-------------------------- MODULE SubscriberLedger --------------------------
(***************************************************************************)
(* What the fan-out and the workers may take for granted about             *)
(* subscribers, without requests, transactions or caches: a subscriber is  *)
(* registered once and is delivered to from then on; deliveries are        *)
(* switched off and on again any number of times; deletion is for good.    *)
(***************************************************************************)
CONSTANT Subs

VARIABLES
    known,        \* subscribers ever registered
    delivers,     \* subscribers that are delivered to
    gone          \* deleted subscribers

vars == <<known, delivers, gone>>

Init == known = {} /\ delivers = {} /\ gone = {}

Register(s) ==
    /\ s \notin known
    /\ known' = known \cup {s} /\ delivers' = delivers \cup {s}
    /\ UNCHANGED gone

Switch(s) ==
    /\ s \in known \ gone
    /\ delivers' \in {delivers \cup {s}, delivers \ {s}}
    /\ UNCHANGED <<known, gone>>

Delete(s) ==
    /\ s \in known \ gone
    /\ delivers' = delivers \ {s} /\ gone' = gone \cup {s}
    /\ UNCHANGED known

Next == \E s \in Subs : Register(s) \/ Switch(s) \/ Delete(s)

Spec == Init /\ [][Next]_vars
=============================================================================
