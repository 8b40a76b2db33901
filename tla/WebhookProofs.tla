--------------------------- MODULE WebhookProofs ---------------------------
(***************************************************************************)
(* Webhook for any delays, tolerances, clocks and store sizes: what is     *)
(* sent for the first time verifies whenever skew and delay fit into the   *)
(* tolerance, and the store holds the newest of what arrived.              *)
(***************************************************************************)
EXTENDS Webhook, TLAPS

USE WebhookAssumption

\* The store is the end of the log, as far back as it was last empty or as it
\* can hold.
StoreIsNewest ==
    /\ Len(store) = Lesser(Limit, Len(log) - cleared)
    /\ \A i \in 1 .. Len(store) : store[i] = log[Len(log) - Len(store) + i]

IInv == TypeOK /\ FreshVerifies /\ StoreIsNewest

LEMMA InitInv == Init => IInv
  BY DEF Init, IInv, TypeOK, FreshVerifies, StoreIsNewest, Lesser

\* One arrival: m is in time if it is no copy, or else of any age.
LEMMA ReceiveKeeps ==
    ASSUME IInv, NEW m \in sent, NEW copy \in BOOLEAN, Receive(m, copy),
           ~copy => m.signed <= now /\ now - m.signed <= Delay
    PROVE  /\ store' \in Seq(Entries) /\ log' \in Seq(Entries) /\ Len(store') <= Limit
           /\ cleared' \in 0 .. Len(log')
           /\ FreshVerifies' /\ StoreIsNewest'
  <1> DEFINE e == [id |-> m.id, signed |-> m.signed, copy |-> copy,
                   ok |-> Verifies(m)]
  <1>1. m.id \in Ids /\ m.signed \in Nat /\ now \in Nat /\ skew \in -Skew .. Skew
    BY DEF IInv, TypeOK, Posts
  <1>2. Verifies(m) \in BOOLEAN
    BY DEF Verifies
  <1>3. e \in Entries
    BY <1>1, <1>2 DEF Entries
  <1>4. /\ store \in Seq(Entries) /\ log \in Seq(Entries) /\ Len(store) <= Limit
        /\ cleared \in 0 .. Len(log) /\ StoreIsNewest
    BY DEF IInv, TypeOK
  <1>5. store' = Appended(e) /\ log' = Append(log, e) /\ cleared' = cleared
    BY DEF Receive
  <1>6. /\ log' \in Seq(Entries) /\ Len(log') = Len(log) + 1
        /\ log'[Len(log) + 1] = e
        /\ \A i \in 1 .. Len(log) : log'[i] = log[i]
    BY <1>3, <1>4, <1>5
  <1>7. /\ store' \in Seq(Entries)
        /\ Len(store') = Lesser(Limit, Len(store) + 1)
        /\ \A i \in 1 .. Len(store') :
               store'[i] = IF i = Len(store') THEN e
                           ELSE store[i + Len(store) + 1 - Len(store')]
    <2> DEFINE s == Append(store, e)
    <2>1. /\ s \in Seq(Entries) /\ Len(s) = Len(store) + 1 /\ s[Len(store) + 1] = e
          /\ \A i \in 1 .. Len(store) : s[i] = store[i]
      BY <1>3, <1>4
    <2>2. CASE Len(s) > Limit
      <3>1. store' = Tail(s) /\ s # <<>> /\ Len(store) = Limit
        <4>1. store' = Tail(s)
          BY <1>5, <2>2 DEF Appended
        <4>2. s # <<>>
          BY <2>1
        <4>3. Len(store) = Limit
          <5>1. Len(store) \in Nat /\ Limit \in Nat /\ Len(store) + 1 > Limit
            BY <1>4, <2>1, <2>2
          <5> QED
            BY <1>4, <5>1
        <4> QED
          BY <4>1, <4>2, <4>3
      <3>2. /\ Tail(s) \in Seq(Entries) /\ Len(Tail(s)) = Len(s) - 1
            /\ \A i \in 1 .. Len(s) - 1 : Tail(s)[i] = s[i + 1]
        <4> HIDE DEF s
        <4> QED
          BY <2>1, <3>1
      <3>3. Len(store') = Limit /\ Limit = Lesser(Limit, Len(store) + 1)
        BY <1>4, <2>1, <3>1, <3>2 DEF Lesser
      <3>4. ASSUME NEW i \in 1 .. Len(store')
            PROVE  store'[i] = IF i = Len(store') THEN e
                               ELSE store[i + Len(store) + 1 - Len(store')]
        <4>1. store'[i] = s[i + 1] /\ i \in 1 .. Len(store)
          BY <1>4, <2>1, <3>1, <3>2, <3>3, <3>4
        <4>2. CASE i = Len(store')
          BY <2>1, <3>1, <3>3, <4>1, <4>2
        <4>3. CASE i # Len(store')
          <5>1. i + 1 \in 1 .. Len(store) /\ i + Len(store) + 1 - Len(store') = i + 1
            BY SMTT(30), <1>4, <3>1, <3>3, <4>1, <4>3
          <5> QED
            BY <2>1, <4>1, <4>3, <5>1
        <4> QED
          BY <4>2, <4>3
      <3> QED
        BY <3>1, <3>2, <3>3, <3>4
    <2>3. CASE ~(Len(s) > Limit)
      <3>1. store' = s
        BY <1>5, <2>3 DEF Appended
      <3> QED
        BY <1>4, <2>1, <2>3, <3>1 DEF Lesser
    <2> QED
      BY <2>2, <2>3
  <1>8. Len(store') <= Limit /\ cleared' \in 0 .. Len(log')
    BY <1>4, <1>5, <1>6, <1>7 DEF Lesser
  <1>9. StoreIsNewest'
    <2>1. Len(store') = Lesser(Limit, Len(log') - cleared')
      BY <1>4, <1>5, <1>6, <1>7 DEF StoreIsNewest, Lesser
    <2>2. ASSUME NEW i \in 1 .. Len(store')
          PROVE  store'[i] = log'[Len(log') - Len(store') + i]
      <3>1. CASE i = Len(store')
        BY <1>4, <1>6, <1>7, <3>1
      <3>2. CASE i # Len(store')
        <4> DEFINE j == i + Len(store) + 1 - Len(store')
        <4>1. Len(store') \in {Len(store), Len(store) + 1} /\ j \in 1 .. Len(store)
          BY <1>4, <1>7, <3>2 DEF Lesser
        <4>2. store'[i] = store[j]
          BY <1>7, <3>2
        <4>3. store[j] = log[Len(log) - Len(store) + j]
          BY <1>4, <4>1 DEF StoreIsNewest
        <4>4. Len(log) - Len(store) + j \in 1 .. Len(log)
          BY <1>4, <4>1 DEF StoreIsNewest, Lesser
        <4>5. Len(log') - Len(store') + i = Len(log) - Len(store) + j
          BY <1>4, <1>6, <4>1
        <4> QED
          BY <1>6, <4>2, <4>3, <4>4, <4>5
      <3> QED
        BY <3>1, <3>2
    <2> QED
      BY <2>1, <2>2 DEF StoreIsNewest
  <1>10. FreshVerifies'
    <2>1. Skew + Delay <= Tolerance /\ ~copy => Verifies(m)
      BY <1>1 DEF Verifies
    <2> QED
      BY <1>4, <1>6, <2>1 DEF IInv, FreshVerifies
  <1> QED
    BY <1>6, <1>7, <1>8, <1>9, <1>10

LEMMA NextInv == IInv /\ [Next]_vars => IInv'
  <1> SUFFICES ASSUME IInv, [Next]_vars PROVE IInv'
    OBVIOUS
  <1> USE DEF receiverVars
  \* Steps that leave the receiver alone.
  <1>1. ASSUME TypeOK', UNCHANGED receiverVars PROVE IInv'
    BY <1>1 DEF IInv, FreshVerifies, StoreIsNewest
  <1>2. CASE Tick
    <2>1. TypeOK'
      BY <1>2 DEF Tick, IInv, TypeOK, Posts
    <2> QED
      BY <1>1, <1>2, <2>1 DEF Tick
  <1>3. ASSUME NEW d \in Ids, Post(d) PROVE IInv'
    <2>1. TypeOK'
      BY <1>3 DEF Post, Signature, IInv, TypeOK, Posts
    <2> QED
      BY <1>1, <1>3, <2>1 DEF Post
  <1>4. ASSUME NEW m \in wire, Succeeds(m.id) \/ Fails(m.id)
        PROVE  due' \in [Ids -> Nat] /\ acked' \subseteq Ids
    <2>1. m.id \in Ids
      BY DEF IInv, TypeOK, Posts
    <2>2. \A n : \A b \in Backoff(n) : b \in Nat
      <3>1. \A n : \A b \in Backoff(n) : b \in 0 .. MaxDelay
        BY Zenon DEF Backoff
      <3> QED
        BY <3>1
    <2> QED
      BY SMTT(30), <1>4, <2>1, <2>2 DEF Succeeds, Fails, IInv, TypeOK
  <1>5. ASSUME NEW m \in wire, Lost(m) PROVE IInv'
    <2>1. TypeOK'
      BY <1>4, <1>5 DEF Lost, IInv, TypeOK
    <2> QED
      BY <1>1, <1>5, <2>1 DEF Lost
  <1>6. ASSUME NEW m \in wire, Arrive(m) PROVE IInv'
    <2>1. m \in sent /\ m.signed <= now /\ now - m.signed <= Delay
      BY DEF IInv, TypeOK
    <2>2. /\ store' \in Seq(Entries) /\ log' \in Seq(Entries) /\ Len(store') <= Limit
          /\ cleared' \in 0 .. Len(log')
          /\ FreshVerifies' /\ StoreIsNewest'
      BY <1>6, <2>1, ReceiveKeeps DEF Arrive
    <2>3. TypeOK'
      BY <1>4, <1>6, <2>2 DEF Arrive, IInv, TypeOK
    <2> QED
      BY <2>2, <2>3 DEF IInv
  <1>7. ASSUME NEW m \in sent, ArriveAgain(m) PROVE IInv'
    <2>1. /\ store' \in Seq(Entries) /\ log' \in Seq(Entries) /\ Len(store') <= Limit
          /\ cleared' \in 0 .. Len(log')
          /\ FreshVerifies' /\ StoreIsNewest'
      BY <1>7, ReceiveKeeps DEF ArriveAgain
    <2>2. TypeOK'
      BY <1>7, <2>1 DEF ArriveAgain, IInv, TypeOK
    <2> QED
      BY <2>1, <2>2 DEF IInv
  <1>8. CASE Clear
    <2>1. TypeOK'
      BY <1>8 DEF Clear, IInv, TypeOK
    <2>2. StoreIsNewest'
      BY <1>8 DEF Clear, IInv, TypeOK, StoreIsNewest, Lesser
    <2> QED
      BY <1>8, <2>1, <2>2 DEF Clear, IInv, FreshVerifies
  <1>9. CASE UNCHANGED vars
    <2>1. TypeOK'
      BY <1>9 DEF vars, IInv, TypeOK
    <2> QED
      BY <1>1, <1>9, <2>1 DEF vars
  <1> QED
    BY <1>2, <1>3, <1>5, <1>6, <1>7, <1>8, <1>9 DEF Next

LEMMA Invariant == Spec => []IInv
  BY InitInv, NextInv, PTL DEF Spec

\* Every variable keeps its type, and a POST under way was made within Delay.
THEOREM WebhookTyped == Spec => []TypeOK
  <1>1. IInv => TypeOK
    BY DEF IInv
  <1> QED
    BY <1>1, Invariant, PTL

\* For any tolerance, skew and delay: whatever is sent verifies on arrival, since
\* each attempt is signed anew.
THEOREM FreshVerifiesAlways == Spec => []FreshVerifies
  <1>1. IInv => FreshVerifies
    BY DEF IInv
  <1> QED
    BY <1>1, Invariant, PTL

\* For any store size and any positive limit, a listing is the newest part of
\* what arrived since the store was last empty.
THEOREM ListingIsNewestAlways == Spec => []ListingIsNewest
  <1>1. IInv => ListingIsNewest
    <2> SUFFICES ASSUME IInv, NEW limit \in 1 .. Limit + 1
                 PROVE  /\ Len(Listing(limit)) =
                               Lesser(limit, Lesser(Limit, Len(log) - cleared))
                        /\ \A i \in 1 .. Len(Listing(limit)) :
                               Listing(limit)[i] = log[Len(log) - Len(Listing(limit)) + i]
      BY DEF ListingIsNewest
    <2> DEFINE n == Lesser(limit, Len(store))
    <2>1. /\ store \in Seq(Entries) /\ log \in Seq(Entries) /\ Len(store) \in Nat
          /\ StoreIsNewest /\ n \in 0 .. Len(store) /\ limit \in Nat
      BY DEF IInv, TypeOK, Lesser
    <2>2. First(limit) = Len(store) - n + 1
      BY DEF First
    <2>3. /\ Len(Listing(limit)) = n
          /\ \A i \in 1 .. n : Listing(limit)[i] = store[Len(store) - n + i]
      <3> HIDE DEF n
      <3> QED
        BY <2>1, <2>2 DEF Listing
    <2>4. n = Lesser(limit, Lesser(Limit, Len(log) - cleared))
      BY <2>1 DEF StoreIsNewest
    <2>5. ASSUME NEW i \in 1 .. n PROVE Listing(limit)[i] = log[Len(log) - n + i]
      <3> HIDE DEF n
      <3>1. Len(store) - n + i \in 1 .. Len(store)
        BY <2>1
      <3>2. store[Len(store) - n + i] = log[Len(log) - Len(store) + (Len(store) - n + i)]
        BY <2>1, <3>1 DEF StoreIsNewest
      <3>3. Len(log) - Len(store) + (Len(store) - n + i) = Len(log) - n + i
        BY <2>1
      <3> QED
        BY <2>3, <3>2, <3>3
    <2> QED
      BY <2>3, <2>4, <2>5
  <1> QED
    BY <1>1, Invariant, PTL
=============================================================================
