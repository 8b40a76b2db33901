------------------------- MODULE SubscribersProofs -------------------------
(***************************************************************************)
(* Subscribers for any number of subscribers, keys, concurrent requests    *)
(* and faults: the rows refine SubscriberLedger, a column only changes to  *)
(* what a request asks for, an answer shows what its request asked for,    *)
(* and a duplicate changes nothing while its key is settled.               *)
(*                                                                         *)
(* The invariants come in layers: types, then what a request that nothing  *)
(* has raced knows of the row, then what the row shows of a settled key.   *)
(***************************************************************************)
EXTENDS Subscribers, TLAPS

USE SubscribersAssumption

-----------------------------------------------------------------------------
(* Layer 1: types *)

\* A PATCH has a body and a DELETE has none; only a PATCH has a key.
LEMMA OpTypes ==
    ASSUME NEW o \in Ops
    PROVE  /\ o.sub \in Subs /\ o.key \in Keys \cup {Nil} /\ o.body \in Bodies \cup {Nil}
           /\ o.key # Nil => o.body # Nil
           /\ o.body # Nil => /\ o.body.endpoint \in Endpoints \cup {Nil}
                              /\ o.body.is_active \in BOOLEAN \cup {Nil}
  BY DEF Ops

\* What a commit writes is a row again.
LEMMA PatchedType ==
    ASSUME NEW r \in Requests, op[r] \in Ops, op[r].body # Nil,
           row[op[r].sub] \in Columns
    PROVE  Patched(r) \in Columns
  <1>1. /\ op[r].body.endpoint \in Endpoints \cup {Nil}
        /\ op[r].body.is_active \in BOOLEAN \cup {Nil}
    BY OpTypes
  <1>2. /\ row[op[r].sub].endpoint \in Endpoints
        /\ row[op[r].sub].is_active \in BOOLEAN
    BY DEF Columns
  <1>3. Patched(r).endpoint \in Endpoints
    BY <1>1, <1>2 DEF Patched
  <1>4. Patched(r).is_active \in BOOLEAN
    BY <1>1, <1>2 DEF Patched
  <1> QED
    BY <1>3, <1>4 DEF Patched, Columns

LEMMA TypeInit == Init => TypeOK
  BY DEF Init, TypeOK, Columns, Ops, Answers, Found, Running

\* The effect of a commit, PATCH or DELETE.
LEMMA WriteTypes ==
    ASSUME TypeOK, NEW r \in Requests, WritePatch(r) \/ WriteDelete(r)
    PROVE  /\ row' \in [Subs -> Columns \cup {Nil}]
           /\ \A s \in Subs : row[s] # Nil => row'[s] # Nil
           /\ deleted' \subseteq {s \in Subs : row'[s] # Nil}
           /\ op[r] \in Ops /\ row[op[r].sub] \in Columns /\ op[r].sub \in Subs
  <1>1. op[r] \in Ops /\ op[r].sub \in Subs /\ row[op[r].sub] \in Columns
    BY OpTypes DEF TypeOK, WritePatch, WriteDelete
  <1>2. CASE WritePatch(r)
    <2>1. Patched(r) \in Columns
      BY <1>1, <1>2, PatchedType DEF WritePatch
    <2> QED
      BY <1>1, <1>2, <2>1 DEF WritePatch, TypeOK
  <1>3. CASE WriteDelete(r)
    <2>1. [row[op[r].sub] EXCEPT !.is_active = FALSE] \in Columns
      BY <1>1 DEF Columns
    <2>2. /\ row' \in [Subs -> Columns \cup {Nil}]
          /\ \A s \in Subs : row[s] # Nil => row'[s] # Nil
      <3>1. CASE row' = row
        BY <3>1 DEF TypeOK
      <3>2. CASE row' = [row EXCEPT ![op[r].sub] = [row[op[r].sub] EXCEPT !.is_active = FALSE]]
        BY <1>1, <2>1, <3>2 DEF TypeOK
      <3> QED
        BY <1>3, <3>1, <3>2 DEF WriteDelete
    <2>3. deleted' = deleted \cup {op[r].sub} /\ row[op[r].sub] # Nil
      BY <1>1, <1>3 DEF WriteDelete
    <2> QED
      BY <1>1, <2>2, <2>3 DEF TypeOK
  <1> QED
    BY <1>2, <1>3

LEMMA TypeStep ==
    ASSUME TypeOK, [Next]_vars
    PROVE  TypeOK'
  <1> USE DEF TypeOK, Running, cacheVars, requestVars, keyHistory
  <1>1. ASSUME NEW s \in Subs, Create(s) PROVE TypeOK'
    <2>1. PICK e \in Endpoints : row' = [row EXCEPT ![s] = [endpoint |-> e, is_active |-> TRUE]]
      BY <1>1 DEF Create
    <2>2. [endpoint |-> e, is_active |-> TRUE] \in Columns
      BY DEF Columns
    <2>3. /\ row' \in [Subs -> Columns \cup {Nil}]
          /\ \A q \in Subs : row[q] # Nil => row'[q] # Nil
      BY <2>1, <2>2
    <2> QED
      BY <1>1, <2>3, OpTypes DEF Create
  <1>2. ASSUME NEW r \in Requests, NEW o \in Ops, AnswerFromCache(r, o) PROVE TypeOK'
    <2>1. cache[o.key] \in Answers
      BY <1>2 DEF AnswerFromCache, Answers
    <2>2. used' \in [Keys -> Ops \cup {Nil}] /\ spoilt' \subseteq Keys
      BY <1>2, OpTypes DEF AnswerFromCache, Arrive, Note
    <2>3. /\ stage' = [stage EXCEPT ![r] = "answered"] /\ op' = [op EXCEPT ![r] = o]
          /\ answer' = [answer EXCEPT ![r] = cache[o.key]]
          /\ calls' \in 0 .. MaxCalls
      BY <1>2 DEF AnswerFromCache, Arrive, Reply
    <2>4. UNCHANGED <<row, deleted, cache, fresh, loaded, settled, raced, faults>>
      BY <1>2 DEF AnswerFromCache, Arrive
    <2>5. o # Nil /\ cache[o.key] # Nil
      BY <2>1
    <2>6. /\ stage' \in [Requests -> Running \cup {"idle", "answered"}]
          /\ op' \in [Requests -> Ops \cup {Nil}]
          /\ answer' \in [Requests -> Answers \cup {Nil}]
      BY <2>1, <2>3
    <2> QED
      BY <2>2, <2>3, <2>4, <2>5, <2>6
  <1>3. ASSUME NEW r \in Requests, NEW o \in Ops, Start(r, o) PROVE TypeOK'
    <2>1. used' \in [Keys -> Ops \cup {Nil}] /\ spoilt' \subseteq Keys
      BY <1>3, OpTypes DEF Start, Arrive, Note
    <2>2. o # Nil
      OBVIOUS
    <2>3. /\ stage' = [stage EXCEPT ![r] = "fetching"] /\ op' = [op EXCEPT ![r] = o]
          /\ calls' \in 0 .. MaxCalls
      BY <1>3 DEF Start, Arrive
    <2>4. UNCHANGED <<row, deleted, cache, fresh, loaded, answer, settled, raced, faults>>
      BY <1>3 DEF Start, Arrive
    <2> QED
      BY <2>1, <2>2, <2>3, <2>4
  <1>4. ASSUME NEW r \in Requests, Fetch(r) PROVE TypeOK'
    <2>1. op[r].sub \in Subs
      BY <1>4, OpTypes DEF Fetch
    <2>2. CASE row[op[r].sub] # Nil /\ stage' = [stage EXCEPT ![r] = "writing"]
               /\ loaded' = [loaded EXCEPT ![r] = row[op[r].sub]] /\ UNCHANGED answer
      BY <1>4, <2>1, <2>2 DEF Fetch
    <2>3. CASE Reply(r, NotFound) /\ UNCHANGED loaded
      BY <1>4, <2>3 DEF Fetch, Reply, Answers
    <2> QED
      BY <1>4, <2>2, <2>3 DEF Fetch
  <1>5. ASSUME NEW r \in Requests, CommitPatch(r) PROVE TypeOK'
    <2>1. op[r] # Nil /\ op[r].body # Nil /\ WritePatch(r)
      BY <1>5 DEF CommitPatch, WritePatch
    <2>2. \A q \in Requests : stage[q] \in {"writing", "refreshing"} => op[q].sub \in Subs
      BY OpTypes
    <2>3. row[op[r].sub] # Nil /\ loaded[r] # Nil
      BY <2>1 DEF WritePatch
    <2>4. settled' \subseteq Keys /\ raced' \subseteq Requests
      BY <1>5, <2>1, OpTypes DEF CommitPatch, RacedBy, Rivals
    <2> QED
      BY <1>5, <2>1, <2>2, <2>3, <2>4, WriteTypes DEF CommitPatch
  <1>6. ASSUME NEW r \in Requests, Refresh(r) PROVE TypeOK'
    <2>1. op[r] \in Ops /\ op[r].sub \in Subs /\ op[r].key \in Keys \cup {Nil}
      BY <1>6, OpTypes DEF Refresh
    <2>2. row[op[r].sub] \in Columns
      BY <1>6, <2>1 DEF Refresh
    <2>3. [sub |-> op[r].sub, columns |-> row[op[r].sub]] \in Found
      BY <2>1, <2>2 DEF Found
    <2>4. /\ cache' \in [Keys -> Found \cup {Nil}]
          /\ fresh' \subseteq {k \in Keys : cache'[k] # Nil}
      BY <1>6, <2>1, <2>3 DEF Refresh, CachePatch, Answers
    <2>5. spoilt' \subseteq Keys
      BY <1>6, <2>1 DEF Refresh
    <2> QED
      BY <1>6, <2>3, <2>4, <2>5 DEF Refresh, Reply, Answers
  <1>7. ASSUME NEW r \in Requests, CommitDelete(r) PROVE TypeOK'
    <2>1. \A q \in Requests : stage[q] \in {"writing", "refreshing"} => op[q].sub \in Subs
      BY OpTypes
    <2> QED
      BY <1>7, <2>1, WriteTypes DEF CommitDelete, End, RacedBy, Rivals
  <1>8. ASSUME NEW r \in Requests, Receive(r) PROVE TypeOK'
    BY <1>8 DEF Receive, End
  <1>9. ASSUME NEW r \in Requests, Fail(r) PROVE TypeOK'
    BY <1>9 DEF Fail, End, Fault
  <1>10. ASSUME NEW r \in Requests, CommitAnswerLost(r) PROVE TypeOK'
    <2>1. \A q \in Requests : stage[q] \in {"writing", "refreshing"} => op[q].sub \in Subs
      BY OpTypes
    <2>2. settled' \subseteq Keys
      BY <1>10 DEF CommitAnswerLost
    <2>3. /\ row' \in [Subs -> Columns \cup {Nil}]
          /\ \A s \in Subs : row[s] # Nil => row'[s] # Nil
          /\ deleted' \subseteq {s \in Subs : row'[s] # Nil}
      BY <1>10, WriteTypes DEF CommitAnswerLost
    <2>4. End({r}) /\ raced' \subseteq Requests /\ Fault
      BY <1>10 DEF CommitAnswerLost, RacedBy, Rivals
    <2>5. UNCHANGED <<cache, fresh, used, spoilt, calls>>
      BY <1>10 DEF CommitAnswerLost
    <2> QED
      BY <2>1, <2>2, <2>3, <2>4, <2>5 DEF End, Fault
  <1>11. ASSUME NEW k \in Keys, Expire(k) PROVE TypeOK'
    BY <1>11 DEF Expire
  <1>12. CASE Restart
    BY <1>12 DEF Restart, End, Fault
  <1>13. CASE UNCHANGED vars
    BY <1>13 DEF vars
  <1> QED
    BY <1>1, <1>2, <1>3, <1>4, <1>5, <1>6, <1>7, <1>8, <1>9, <1>10, <1>11, <1>12, <1>13
    DEF Next, RequestStep

\* Every variable keeps its type, and a key whose entry is fresh has one.
THEOREM SubscribersTyped == Spec => []TypeOK
  BY TypeInit, TypeStep, PTL DEF Spec

-----------------------------------------------------------------------------
(* The register of subscribers *)

\* A commit switches a subscriber, deletes it, or shows the readers nothing: what
\* a PATCH writes to a deleted row is invisible.
LEMMA LedgerWrite ==
    ASSUME TypeOK, NEW r \in Requests, WritePatch(r) \/ WriteDelete(r)
    PROVE  [L!Next]_(L!vars)
  <1> DEFINE t == op[r].sub
  <1>1. t \in Subs /\ row[t] \in Columns /\ row'[t] \in Columns /\ row[t] # Nil
    BY WriteTypes DEF TypeOK
  <1>2. \A s \in Subs \ {t} : row'[s] = row[s]
    BY <1>1 DEF WritePatch, WriteDelete, TypeOK
  <1>3. {s \in Subs : row'[s] # Nil} = {s \in Subs : row[s] # Nil}
    BY <1>1, <1>2
  <1>4. CASE WritePatch(r) /\ t \notin deleted
    <2>1. Active' \in {Active \cup {t}, Active \ {t}} /\ deleted' = deleted
      <3>1. deleted' = deleted
        BY <1>4 DEF WritePatch
      <3>2. CASE row'[t].is_active = TRUE
        BY <1>1, <1>2, <1>4, <3>1, <3>2 DEF Active
      <3>3. CASE row'[t].is_active # TRUE
        BY <1>1, <1>2, <1>4, <3>1, <3>3 DEF Active
      <3> QED
        BY <3>1, <3>2, <3>3
    <2> QED
      BY <1>1, <1>3, <1>4, <2>1 DEF L!Next, L!Switch
  <1>5. CASE WritePatch(r) /\ t \in deleted
    <2>1. Active' = Active /\ deleted' = deleted
      BY <1>2, <1>5 DEF WritePatch, Active
    <2> QED
      BY <1>3, <2>1 DEF L!vars
  <1>6. CASE WriteDelete(r) /\ t \notin deleted
    <2>1. deleted' = deleted \cup {t}
      BY <1>6 DEF WriteDelete
    <2>2. Active' = Active \ {t}
      BY <1>2, <2>1 DEF Active
    <2> QED
      BY <1>1, <1>3, <1>6, <2>1, <2>2 DEF L!Next, L!Delete
  <1>7. CASE WriteDelete(r) /\ t \in deleted
    <2>1. deleted' = deleted
      BY <1>7 DEF WriteDelete
    <2>2. Active' = Active
      BY <1>2, <1>7, <2>1 DEF Active
    <2> QED
      BY <1>3, <2>1, <2>2 DEF L!vars
  <1> QED
    BY <1>4, <1>5, <1>6, <1>7

\* Every step that neither creates nor commits leaves the rows alone.
LEMMA RowsOnlyByCommits ==
    ASSUME [Next]_vars
    PROVE  \/ \E s \in Subs : Create(s)
           \/ \E r \in Requests : WritePatch(r) \/ WriteDelete(r)
           \/ UNCHANGED <<row, deleted>>
  BY DEF Next, RequestStep, AnswerFromCache, Start, Arrive, Fetch, CommitPatch, Refresh,
         CommitDelete, Receive, Fail, CommitAnswerLost, Expire, Restart, vars

\* For any number of subscribers, requests and faults, deletion is for good and
\* every other change of whom the fan-out delivers to is a registration or a
\* switch.
THEOREM LedgerRefinement == Spec => ImplementsLedger
  <1>1. Init => L!Init
    BY DEF Init, L!Init, Active
  <1>2. TypeOK /\ [Next]_vars => [L!Next]_(L!vars)
    <2> SUFFICES ASSUME TypeOK, [Next]_vars PROVE [L!Next]_(L!vars)
      OBVIOUS
    <2>1. ASSUME NEW s \in Subs, Create(s) PROVE [L!Next]_(L!vars)
      <3>1. PICK e \in Endpoints :
                row' = [row EXCEPT ![s] = [endpoint |-> e, is_active |-> TRUE]]
        BY <2>1 DEF Create
      <3>2. [endpoint |-> e, is_active |-> TRUE] \in Columns
        BY DEF Columns
      <3>3. /\ row[s] = Nil /\ deleted' = deleted /\ s \notin deleted
            /\ row'[s] # Nil /\ row'[s].is_active = TRUE
            /\ \A q \in Subs \ {s} : row'[q] = row[q]
        BY <2>1, <3>1, <3>2 DEF Create, TypeOK
      <3>4. {q \in Subs : row'[q] # Nil} = {q \in Subs : row[q] # Nil} \cup {s}
        BY <3>3
      <3>5. Active' = Active \cup {s}
        BY <3>3 DEF Active
      <3> QED
        BY <3>3, <3>4, <3>5 DEF L!Next, L!Register
    <2>2. CASE UNCHANGED <<row, deleted>>
      BY <2>2 DEF L!vars, Active
    <2> QED
      BY <2>1, <2>2, LedgerWrite, RowsOnlyByCommits
  <1> QED
    BY <1>1, <1>2, SubscribersTyped, PTL DEF Spec, ImplementsLedger, L!Spec

-----------------------------------------------------------------------------
(* Columns *)

\* A column changes only to what a running request asks for it, however many
\* requests have read the row before.
THEOREM ColumnsKeptAlways == Spec => ColumnsKept
  <1>1. TypeOK /\ [Next]_vars =>
            [\A s \in Subs, column \in {"endpoint", "is_active"} :
                (row[s] # Nil /\ row'[s] # row[s] /\ row'[s][column] # row[s][column]) =>
                    \E r \in Requests : Writes(r, s, column, row'[s][column])]_vars
    <2> SUFFICES ASSUME TypeOK, [Next]_vars,
                        NEW s \in Subs, NEW column \in {"endpoint", "is_active"},
                        row[s] # Nil, row'[s] # row[s], row'[s][column] # row[s][column]
                 PROVE  \E r \in Requests : Writes(r, s, column, row'[s][column])
      OBVIOUS
    <2>1. PICK r \in Requests : WritePatch(r) \/ WriteDelete(r)
      <3>1. ASSUME NEW q \in Subs, Create(q) PROVE FALSE
        BY <3>1 DEF Create, TypeOK
      <3> QED
        BY <3>1, RowsOnlyByCommits
    <2>2. op[r].sub = s /\ row[s] \in Columns /\ op[r] \in Ops
      BY <2>1, WriteTypes DEF WritePatch, WriteDelete, TypeOK
    <2>3. CASE WritePatch(r)
      <3>1. row'[s] = Patched(r) /\ op[r].body # Nil
        BY <2>2, <2>3 DEF WritePatch, TypeOK
      <3>2. CASE column = "endpoint"
        <4>1. row'[s].endpoint = op[r].body.endpoint
          BY <2>2, <3>1, <3>2 DEF Patched
        <4> QED
          BY <2>2, <2>3, <3>1, <3>2, <4>1 DEF Writes, WritePatch
      <3>3. CASE column = "is_active"
        <4>1. row'[s].is_active = op[r].body.is_active
          BY <2>2, <3>1, <3>3 DEF Patched
        <4> QED
          BY <2>2, <2>3, <3>1, <3>3, <4>1 DEF Writes, WritePatch
      <3> QED
        BY <3>2, <3>3
    <2>4. CASE WriteDelete(r)
      <3>1. row' = [row EXCEPT ![s] = [row[s] EXCEPT !.is_active = FALSE]]
        BY <2>2, <2>4 DEF WriteDelete
      <3>2. row'[s] = [row[s] EXCEPT !.is_active = FALSE]
        BY <3>1 DEF TypeOK
      <3>3. column = "is_active" /\ row'[s].is_active = FALSE
        BY <2>2, <3>2 DEF Columns
      <3> QED
        BY <2>2, <2>4, <3>3 DEF Writes, WriteDelete
    <2> QED
      BY <2>1, <2>3, <2>4
  <1> QED
    BY <1>1, SubscribersTyped, PTL DEF Spec, ColumnsKept

-----------------------------------------------------------------------------
(* Layer 2: what an answer shows *)

\* A key that is not spoilt stands for what every request under it asks for.
Noted ==
    \A r \in Requests : stage[r] # "idle" /\ op[r].key # Nil =>
        /\ used[op[r].key] # Nil
        /\ op[r].key \notin spoilt => op[r] = used[op[r].key]

\* And its cached answer shows that.
Cached ==
    \A k \in Keys : cache[k] # Nil /\ k \notin spoilt =>
        used[k] # Nil /\ Matches(cache[k], used[k])

\* What the row shows a PATCH that nothing has raced: before its commit, what it
\* loaded or what it asks for, the work of a duplicate; then what it asks for.
Shows(now, r) ==
    /\ stage[r] = "writing" /\ op[r].body # Nil =>
           /\ now.endpoint \in {loaded[r].endpoint, op[r].body.endpoint}
           /\ now.is_active \in {loaded[r].is_active, op[r].body.is_active}
    /\ stage[r] = "refreshing" => Matches([sub |-> op[r].sub, columns |-> now], op[r])

Seen == \A r \in Requests \ raced : Shows(row[op[r].sub], r)

AnswersInv == Noted /\ Cached /\ Seen /\ AnswerMatches

LEMMA AnswersInit == Init => AnswersInv
  BY DEF Init, AnswersInv, Noted, Cached, Seen, Shows, AnswerMatches

\* What a request notes about its key.
LEMMA NoteKeeps ==
    ASSUME TypeOK, AnswersInv, NEW r \in Requests, NEW o \in Ops, Arrive(r, o),
           NEW v \in {"answered", "fetching"}, stage' = [stage EXCEPT ![r] = v]
    PROVE  Noted' /\ Cached' /\ Seen' /\ spoilt \subseteq spoilt'
  <1>1. /\ stage[r] = "idle" /\ op' = [op EXCEPT ![r] = o]
        /\ Note(o) /\ UNCHANGED <<row, cache, loaded, raced>>
    BY DEF Arrive, cacheVars
  <1>2. o.key \in Keys \cup {Nil} /\ o # Nil
    BY OpTypes
  <1>3. /\ spoilt \subseteq spoilt'
        /\ \A k \in Keys : used[k] # Nil => used'[k] = used[k]
        /\ o.key # Nil =>
              used'[o.key] # Nil /\ (o.key \notin spoilt' => used'[o.key] = o)
    BY <1>1, <1>2 DEF Note, TypeOK
  <1>4. ASSUME NEW q \in Requests, stage'[q] # "idle", op'[q].key # Nil
        PROVE  /\ used'[op'[q].key] # Nil
               /\ op'[q].key \notin spoilt' => op'[q] = used'[op'[q].key]
    <2>1. CASE q = r
      <3>1. op'[q] = o
        BY <1>1, <2>1 DEF TypeOK
      <3> QED
        BY <1>3, <1>4, <3>1
    <2>2. CASE q # r
      <3>1. stage[q] # "idle" /\ op'[q] = op[q] /\ op[q].key \in Keys
        BY <1>1, <1>4, <2>2, OpTypes DEF TypeOK
      <3> QED
        BY <1>3, <1>4, <3>1 DEF AnswersInv, Noted
    <2> QED
      BY <2>1, <2>2
  <1>5. Cached'
    <2> SUFFICES ASSUME NEW k \in Keys, cache'[k] # Nil, k \notin spoilt'
                 PROVE  used'[k] # Nil /\ Matches(cache'[k], used'[k])
      BY DEF Cached, Matches
    <2>1. used[k] # Nil /\ Matches(cache[k], used[k])
      BY <1>1, <1>3 DEF AnswersInv, Cached
    <2> QED
      BY <1>1, <1>3, <2>1
  <1>6. Seen'
    <2> SUFFICES ASSUME NEW q \in Requests \ raced', stage'[q] \in {"writing", "refreshing"}
                 PROVE  Shows(row[op[q].sub], q)'
      BY DEF Seen, Shows, Matches
    <2>1. q # r /\ stage'[q] = stage[q] /\ op'[q] = op[q]
      BY <1>1 DEF TypeOK
    <2> QED
      BY <1>1, <2>1 DEF AnswersInv, Seen, Shows, Matches
  <1> QED
    BY <1>3, <1>4, <1>5, <1>6 DEF Noted

\* To whoever asks for the same, or for something of another row, a commit shows
\* nothing but what he asks for.
LEMMA WriteAgrees ==
    ASSUME TypeOK, NEW r \in Requests, WritePatch(r) \/ WriteDelete(r),
           NEW o \in Ops, o.body # Nil, o.sub # op[r].sub \/ o.body = op[r].body
    PROVE  /\ row'[o.sub].endpoint \in {row[o.sub].endpoint, o.body.endpoint}
           /\ row'[o.sub].is_active \in {row[o.sub].is_active, o.body.is_active}
           /\ Matches([sub |-> o.sub, columns |-> row[o.sub]], o) =>
                  Matches([sub |-> o.sub, columns |-> row'[o.sub]], o)
  <1>1. o.sub \in Subs
    BY OpTypes
  <1>2. CASE o.sub # op[r].sub
    <2>1. row'[o.sub] = row[o.sub]
      BY <1>1, <1>2 DEF WritePatch, WriteDelete, TypeOK
    <2> QED
      BY <2>1
  <1>3. CASE o.sub = op[r].sub
    <2>1. op[r].body = o.body /\ WritePatch(r)
      BY <1>3 DEF WriteDelete
    <2>2. row'[o.sub] = Patched(r)
      BY <1>1, <1>3, <2>1 DEF WritePatch, TypeOK
    <2>3. /\ row'[o.sub].endpoint = IF o.body.endpoint \in {Nil, loaded[r].endpoint}
                                   THEN row[o.sub].endpoint ELSE o.body.endpoint
          /\ row'[o.sub].is_active = IF o.body.is_active \in {Nil, loaded[r].is_active}
                                    THEN row[o.sub].is_active ELSE o.body.is_active
      BY <1>3, <2>1, <2>2 DEF Patched
    <2> QED
      BY <2>3 DEF Matches
  <1> QED
    BY <1>2, <1>3

\* A commit leaves nobody with stale knowledge of the row but those it races.
LEMMA WriteKeepsSeen ==
    ASSUME TypeOK, AnswersInv, NEW r \in Requests, WritePatch(r) \/ WriteDelete(r),
           NEW q \in Requests \ {r}, q \notin raced, q \notin RacedBy(r)
    PROVE  Shows(row'[op[q].sub], q)
  <1>1. Shows(row[op[q].sub], q)
    BY DEF AnswersInv, Seen
  <1> SUFFICES ASSUME stage[q] \in {"writing", "refreshing"}, op[q].body # Nil
               PROVE  Shows(row'[op[q].sub], q)
    BY DEF Shows, TypeOK
  <1>2. op[q] \in Ops /\ (op[q].sub # op[r].sub \/ op[q].body = op[r].body)
    BY DEF RacedBy, Rivals, Running, TypeOK
  <1>3. /\ row'[op[q].sub].endpoint \in {row[op[q].sub].endpoint, op[q].body.endpoint}
        /\ row'[op[q].sub].is_active \in {row[op[q].sub].is_active, op[q].body.is_active}
        /\ Matches([sub |-> op[q].sub, columns |-> row[op[q].sub]], op[q]) =>
               Matches([sub |-> op[q].sub, columns |-> row'[op[q].sub]], op[q])
    BY <1>2, WriteAgrees
  <1> QED
    BY <1>1, <1>3 DEF Shows

\* A PATCH that nothing has raced leaves a row that shows what it asked for.
LEMMA CommitShows ==
    ASSUME TypeOK, AnswersInv, NEW r \in Requests \ raced, WritePatch(r)
    PROVE  Matches([sub |-> op[r].sub, columns |-> row'[op[r].sub]], op[r])
  <1>1. /\ stage[r] = "writing" /\ op[r].body # Nil
        /\ row[op[r].sub].endpoint \in {loaded[r].endpoint, op[r].body.endpoint}
        /\ row[op[r].sub].is_active \in {loaded[r].is_active, op[r].body.is_active}
    BY DEF AnswersInv, Seen, Shows, WritePatch
  <1>2. row'[op[r].sub] = Patched(r)
    BY WriteTypes DEF WritePatch, TypeOK
  <1> QED
    BY <1>1, <1>2 DEF Patched, Matches

LEMMA AnswersStep ==
    ASSUME TypeOK, AnswersInv, [Next]_vars
    PROVE  AnswersInv'
  <1> USE DEF cacheVars, requestVars, keyHistory
  <1> USE DEF Matches
  \* Requests R end; whoever else has the row is as before, or is raced.
  <1>1. ASSUME NEW R \in SUBSET Requests, End(R), UNCHANGED <<used, spoilt>>,
               \A q \in Requests \ R : q \in raced => q \in raced',
               \A q \in Requests \ (R \cup raced') : Shows(row'[op[q].sub], q),
               \A k \in Keys : cache'[k] \in {Nil, cache[k]}
        PROVE  AnswersInv'
    <2>1. \A q \in Requests :
              \/ q \in R /\ stage'[q] = "idle"
              \/ /\ q \notin R /\ stage'[q] = stage[q] /\ op'[q] = op[q]
                 /\ loaded'[q] = loaded[q] /\ answer'[q] = answer[q]
      BY <1>1 DEF End
    <2>2. Noted' /\ AnswerMatches'
      BY <1>1, <2>1 DEF AnswersInv, Noted, AnswerMatches
    <2>3. Cached'
      BY <1>1 DEF AnswersInv, Cached
    <2>4. Seen'
      BY <1>1, <2>1 DEF Seen, Shows
    <2> QED
      BY <2>2, <2>3, <2>4 DEF AnswersInv
  <1>2. ASSUME NEW s \in Subs, Create(s) PROVE AnswersInv'
    <2>1. \A q \in Requests : stage[q] \in {"writing", "refreshing"} =>
              op[q].sub # s /\ row'[op[q].sub] = row[op[q].sub]
      BY <1>2, OpTypes DEF Create, TypeOK
    <2>2. UNCHANGED <<cache, fresh, stage, op, loaded, answer, used, spoilt, raced>>
      BY <1>2 DEF Create
    <2>3. Noted' /\ Cached' /\ AnswerMatches'
      BY <2>2 DEF AnswersInv, Noted, Cached, AnswerMatches
    <2>4. Seen'
      BY <2>1, <2>2 DEF AnswersInv, Seen, Shows
    <2> QED
      BY <2>3, <2>4 DEF AnswersInv
  <1>3. ASSUME NEW r \in Requests, NEW o \in Ops, AnswerFromCache(r, o) PROVE AnswersInv'
    <2>1. Noted' /\ Cached' /\ Seen' /\ spoilt \subseteq spoilt'
      BY <1>3, NoteKeeps DEF AnswerFromCache, Reply
    <2>2. /\ stage' = [stage EXCEPT ![r] = "answered"] /\ op' = [op EXCEPT ![r] = o]
          /\ answer' = [answer EXCEPT ![r] = cache[o.key]]
          /\ o.key \in fresh /\ cache' = cache /\ raced' = raced
      BY <1>3 DEF AnswerFromCache, Arrive, Reply
    <2>3. o.key \in Keys /\ cache[o.key] # Nil /\ o.key # Nil
      BY <2>2 DEF TypeOK
    <2>4. o.key \notin spoilt' => Matches(cache[o.key], o)
      BY <2>1, <2>2, <2>3 DEF Noted, Cached, TypeOK
    <2>5. AnswerMatches'
      BY <2>1, <2>2, <2>4 DEF AnswersInv, AnswerMatches, TypeOK
    <2> QED
      BY <2>1, <2>5 DEF AnswersInv
  <1>4. ASSUME NEW r \in Requests, NEW o \in Ops, Start(r, o) PROVE AnswersInv'
    <2>1. Noted' /\ Cached' /\ Seen' /\ spoilt \subseteq spoilt'
      BY <1>4, NoteKeeps DEF Start
    <2>2. AnswerMatches'
      BY <1>4, <2>1 DEF Start, Arrive, AnswersInv, AnswerMatches, TypeOK
    <2> QED
      BY <2>1, <2>2 DEF AnswersInv
  <1>5. ASSUME NEW r \in Requests, Fetch(r) PROVE AnswersInv'
    <2>1. Noted' /\ Cached'
      BY <1>5 DEF Fetch, Reply, AnswersInv, Noted, Cached, TypeOK
    <2>2. Seen'
      BY <1>5 DEF Fetch, Reply, AnswersInv, Seen, Shows, TypeOK
    <2>3. AnswerMatches'
      BY <1>5 DEF Fetch, Reply, AnswersInv, AnswerMatches, TypeOK
    <2> QED
      BY <2>1, <2>2, <2>3 DEF AnswersInv
  <1>6. ASSUME NEW r \in Requests, CommitPatch(r) PROVE AnswersInv'
    <2>1. /\ stage[r] = "writing" /\ stage' = [stage EXCEPT ![r] = "refreshing"]
          /\ raced' = raced \cup RacedBy(r)
          /\ UNCHANGED <<cache, op, loaded, answer, used, spoilt>>
      BY <1>6 DEF CommitPatch, WritePatch
    <2>2. Noted' /\ Cached' /\ AnswerMatches'
      BY <2>1 DEF AnswersInv, Noted, Cached, AnswerMatches, TypeOK
    <2>3. r \notin raced => Matches([sub |-> op[r].sub, columns |-> row'[op[r].sub]], op[r])
      BY <1>6, CommitShows DEF CommitPatch
    <2>4. ASSUME NEW q \in Requests \ raced'
          PROVE  Shows(row[op[q].sub], q)'
      <3>1. CASE q = r
        BY <2>1, <2>3, <3>1 DEF Shows, TypeOK
      <3>2. CASE q # r
        <4>1. Shows(row'[op[q].sub], q)
          BY <1>6, <2>1, <3>2, WriteKeepsSeen DEF CommitPatch
        <4> QED
          BY <2>1, <3>2, <4>1 DEF Shows, TypeOK
      <3> QED
        BY <3>1, <3>2
    <2> QED
      BY <2>2, <2>4 DEF AnswersInv, Seen
  <1>7. ASSUME NEW r \in Requests, Refresh(r) PROVE AnswersInv'
    <2> DEFINE a == [sub |-> op[r].sub, columns |-> row[op[r].sub]]
    <2>1. /\ stage[r] = "refreshing" /\ stage' = [stage EXCEPT ![r] = "answered"]
          /\ answer' = [answer EXCEPT ![r] = a]
          /\ spoilt' = spoilt \cup {j \in {op[r].key} \ {Nil} : r \in raced}
          /\ UNCHANGED <<row, op, loaded, used, raced>>
      BY <1>7 DEF Refresh, Reply
    <2>2. r \notin raced => Matches(a, op[r])
      BY <2>1 DEF AnswersInv, Seen, Shows
    <2>3. Noted'
      BY <2>1 DEF AnswersInv, Noted, TypeOK
    <2>4. Seen'
      BY <2>1 DEF AnswersInv, Seen, Shows, TypeOK
    <2>5. AnswerMatches'
      BY <2>1, <2>2 DEF AnswersInv, AnswerMatches, TypeOK
    <2>6. Cached'
      <3> SUFFICES ASSUME NEW k \in Keys, cache'[k] # Nil, k \notin spoilt'
                   PROVE  used'[k] # Nil /\ Matches(cache'[k], used'[k])
        BY DEF Cached
      <3>1. CASE k = op[r].key
        <4>1. cache'[k] = a
          BY <1>7, <3>1 DEF Refresh, CachePatch
        <4>2. r \notin raced /\ op[r] = used[k] /\ used[k] # Nil
          BY <2>1, <3>1 DEF AnswersInv, Noted
        <4> QED
          BY <2>1, <2>2, <4>1, <4>2
      <3>2. CASE k # op[r].key
        <4>1. cache'[k] = cache[k]
          BY <1>7, <3>2 DEF Refresh, CachePatch
        <4> QED
          BY <2>1, <4>1 DEF AnswersInv, Cached
      <3> QED
        BY <3>1, <3>2
    <2> QED
      BY <2>3, <2>4, <2>5, <2>6 DEF AnswersInv
  <1>8. ASSUME NEW r \in Requests, CommitDelete(r) \/ CommitAnswerLost(r) PROVE AnswersInv'
    <2>1. /\ WritePatch(r) \/ WriteDelete(r)
          /\ End({r}) /\ raced' = (raced \cup RacedBy(r)) \ {r}
          /\ UNCHANGED <<cache, used, spoilt>>
      BY <1>8 DEF CommitDelete, CommitAnswerLost
    <2> QED
      BY <1>1, <2>1, WriteKeepsSeen
  <1>9. ASSUME NEW r \in Requests, Receive(r) \/ Fail(r) PROVE AnswersInv'
    <2>1. /\ End({r}) /\ raced' = raced \ {r}
          /\ UNCHANGED <<row, cache, used, spoilt>>
      BY <1>9 DEF Receive, Fail
    <2> QED
      BY <1>1, <2>1 DEF AnswersInv, Seen
  <1>10. ASSUME NEW k \in Keys, Expire(k) PROVE AnswersInv'
    BY <1>10 DEF Expire, AnswersInv, Noted, Cached, Seen, Shows, AnswerMatches
  <1>11. CASE Restart
    BY <1>1, <1>11 DEF Restart
  <1>12. CASE UNCHANGED vars
    BY <1>12 DEF vars, AnswersInv, Noted, Cached, Seen, Shows, AnswerMatches
  <1> QED
    BY <1>2, <1>3, <1>4, <1>5, <1>6, <1>7, <1>8, <1>9, <1>10, <1>11, <1>12 DEF Next, RequestStep

\* From the row or from the cache, an answer shows what was asked for, whichever
\* other requests, keys and failures there were, unless its request was raced or
\* its key spoilt.
THEOREM AnswerMatchesAlways == Spec => []AnswerMatches
  <1>1. AnswersInv => AnswerMatches
    BY DEF AnswersInv
  <1> QED
    BY <1>1, SubscribersTyped, AnswersInit, AnswersStep, PTL DEF Spec

-----------------------------------------------------------------------------
(* Layer 3: what the row shows of a settled key *)

\* Requests at work under key k.
Under(k) == {q \in Requests : stage[q] \in Running /\ op[q].key = k}

\* A settled key is cached, or the request that will cache it is at its last step;
\* so no request starts under it unless another one is at work, and as long as
\* one is, the row shows what the key was used for.
SettledInv ==
    \A k \in settled \ spoilt :
        /\ used[k] # Nil /\ row[used[k].sub] # Nil
        /\ k \in fresh \/ \E q \in Under(k) : stage[q] = "refreshing"
        /\ Under(k) # {} =>
               Matches([sub |-> used[k].sub, columns |-> row[used[k].sub]], used[k])

LEMMA SettledInit == Init => SettledInv
  BY DEF Init, SettledInv

\* A request under a key that is not spoilt is a PATCH, the one of the key.
LEMMA UnderUsed ==
    ASSUME TypeOK, Noted, NEW k \in Keys, k \notin spoilt, NEW q \in Under(k)
    PROVE  /\ op[q] \in Ops /\ op[q].body # Nil /\ op[q].sub \in Subs
           /\ op[q] = used[k] /\ q \in Requests
  <1>1. q \in Requests /\ stage[q] # "idle" /\ op[q].key = k /\ op[q].key # Nil
    BY DEF Under, Running
  <1> QED
    BY <1>1, OpTypes DEF Noted, TypeOK

\* A commit that does not open a key again leaves what the row shows of it.
LEMMA WriteKeepsSettled ==
    ASSUME TypeOK, Noted, SettledInv, NEW r \in Requests, WritePatch(r) \/ WriteDelete(r),
           NEW k \in settled \ spoilt, k \notin Reopened(r), Under(k) # {}
    PROVE  Matches([sub |-> used[k].sub, columns |-> row'[used[k].sub]], used[k])
  <1>1. k \in Keys
    BY DEF TypeOK
  <1>2. PICK q \in Under(k) : TRUE
    OBVIOUS
  <1>3. /\ op[q] \in Ops /\ op[q].body # Nil /\ op[q] = used[k] /\ q \in Requests
        /\ stage[q] \in Running /\ op[q].key = k
    BY <1>1, UnderUsed DEF Under
  <1>4. op[q].sub # op[r].sub \/ op[q].body = op[r].body
    BY <1>3 DEF Reopened, Rivals
  <1>5. Matches([sub |-> op[q].sub, columns |-> row[op[q].sub]], op[q])
    BY <1>3 DEF SettledInv
  <1> QED
    BY <1>3, <1>4, <1>5, WriteAgrees

LEMMA SettledStep ==
    ASSUME TypeOK, AnswersInv, SettledInv, [Next]_vars
    PROVE  SettledInv'
  <1> USE DEF cacheVars, requestVars, keyHistory
  \* Nothing is written and nobody starts: whoever stops at its last step has
  \* cached its key or opened it again.
  <1>1. ASSUME settled' \subseteq settled, spoilt \subseteq spoilt',
               \A t \in Subs : row[t] # Nil => row'[t] # Nil,
               \A k \in settled' \ spoilt' : used'[k] = used[k],
               \A k \in settled' \ spoilt' : k \in fresh => k \in fresh',
               \A k \in settled' \ spoilt' : \A q \in Under(k) :
                   stage[q] = "refreshing" =>
                       k \in fresh' \/ (q \in Under(k)' /\ stage'[q] = "refreshing"),
               \A k \in settled' \ spoilt' : Under(k)' # {} => Under(k) # {},
               \A k \in settled' \ spoilt' : Under(k) # {} =>
                   Matches([sub |-> used[k].sub, columns |-> row'[used[k].sub]], used[k])
        PROVE  SettledInv'
    <2> SUFFICES ASSUME NEW k \in settled' \ spoilt'
                 PROVE  /\ used'[k] # Nil /\ row'[used'[k].sub] # Nil
                        /\ k \in fresh' \/ \E q \in Under(k)' : stage'[q] = "refreshing"
                        /\ Under(k)' # {} =>
                               Matches([sub |-> used'[k].sub, columns |-> row'[used'[k].sub]], used'[k])
      BY DEF SettledInv, Matches
    <2>1. /\ k \in settled \ spoilt /\ used'[k] = used[k] /\ used[k] # Nil
          /\ row[used[k].sub] # Nil
      BY <1>1 DEF SettledInv
    <2>2. used[k].sub \in Subs
      BY <2>1, OpTypes DEF TypeOK
    <2>3. k \in fresh' \/ \E q \in Under(k)' : stage'[q] = "refreshing"
      BY <1>1, <2>1 DEF SettledInv
    <2>4. Under(k)' # {} => Matches([sub |-> used[k].sub, columns |-> row'[used[k].sub]], used[k])
      BY <1>1
    <2> QED
      BY <1>1, <2>1, <2>2, <2>3, <2>4
  \* The same when no row is written at all.
  <1>2. ASSUME settled' \subseteq settled, spoilt \subseteq spoilt', UNCHANGED row,
               \A k \in settled' \ spoilt' : used'[k] = used[k],
               \A k \in settled' \ spoilt' : k \in fresh => k \in fresh',
               \A k \in settled' \ spoilt' : \A q \in Under(k) :
                   stage[q] = "refreshing" =>
                       k \in fresh' \/ (q \in Under(k)' /\ stage'[q] = "refreshing"),
               \A k \in settled' \ spoilt' : Under(k)' # {} => Under(k) # {}
        PROVE  SettledInv'
    <2>1. \A k \in settled' \ spoilt' : Under(k) # {} =>
              Matches([sub |-> used[k].sub, columns |-> row'[used[k].sub]], used[k])
      BY <1>2 DEF SettledInv
    <2> QED
      BY <1>1, <1>2, <2>1
  <1>3. ASSUME NEW s \in Subs, Create(s) PROVE SettledInv'
    <2>1. \A t \in Subs : row[t] # Nil => row'[t] = row[t]
      BY <1>3 DEF Create, TypeOK
    <2>2. UNCHANGED <<settled, spoilt, used, fresh, stage, op>>
      BY <1>3 DEF Create
    <2>3. ASSUME NEW k \in settled \ spoilt
          PROVE  row'[used[k].sub] = row[used[k].sub]
      <3>1. used[k] \in Ops /\ row[used[k].sub] # Nil
        BY DEF SettledInv, TypeOK
      <3> QED
        BY <2>1, <3>1, OpTypes
    <2>4. \A k \in settled \ spoilt : Under(k) # {} =>
              Matches([sub |-> used[k].sub, columns |-> row'[used[k].sub]], used[k])
      BY <2>3 DEF SettledInv
    <2>5. \A k \in Keys : Under(k)' = Under(k)
      BY <2>2 DEF Under
    <2> QED
      BY <1>1, <2>1, <2>2, <2>4, <2>5 DEF TypeOK
  \* An arriving request, which notes what its key is used for.
  <1>4. ASSUME NEW r \in Requests, NEW o \in Ops, Arrive(r, o), stage'[r] # "refreshing",
               \A q \in Requests \ {r} : stage'[q] = stage[q],
               stage'[r] \in Running => o.key \notin fresh, UNCHANGED fresh
        PROVE  SettledInv'
    <2>1. /\ stage[r] = "idle" /\ op' = [op EXCEPT ![r] = o] /\ Note(o)
          /\ UNCHANGED <<row, settled>>
      BY <1>4 DEF Arrive
    <2>2. spoilt \subseteq spoilt' /\ \A k \in settled \ spoilt' : used'[k] = used[k]
      <3>1. o.key \in Keys \cup {Nil} /\ settled \subseteq Keys
        BY OpTypes DEF TypeOK
      <3>2. spoilt \subseteq spoilt' /\ \A k \in Keys : used[k] # Nil => used'[k] = used[k]
        BY <2>1, <3>1 DEF Note, TypeOK
      <3> QED
        BY <3>1, <3>2 DEF SettledInv
    <2>3. ASSUME NEW k \in Keys
          PROVE  Under(k)' \in {Under(k), Under(k) \cup {r}} /\ r \notin Under(k)
      <3>1. \A q \in Requests \ {r} : q \in Under(k)' <=> q \in Under(k)
        BY <1>4, <2>1 DEF Under, TypeOK
      <3>2. r \notin Under(k)
        BY <2>1 DEF Under, Running
      <3>3. Under(k) \subseteq Requests /\ Under(k)' \subseteq Requests
        BY DEF Under
      <3> QED
        BY <3>1, <3>2, <3>3
    <2>4. \A k \in Keys : r \in Under(k)' => k = o.key /\ k \notin fresh
      BY <1>4, <2>1 DEF Under, TypeOK
    <2>5. ASSUME NEW k \in settled \ spoilt, Under(k)' # {}
          PROVE  Under(k) # {}
      <3>1. k \in Keys /\ (k \in fresh \/ Under(k) # {})
        BY DEF SettledInv, TypeOK
      <3> QED
        BY <2>3, <2>4, <2>5, <3>1
    <2>6. \A k \in settled \ spoilt : \A q \in Under(k) : q \in Under(k)' /\ stage'[q] = stage[q]
      <3>1. \A k \in Keys : \A q \in Under(k) : q \in Under(k)' /\ q \in Requests \ {r}
        BY <2>3 DEF Under
      <3> QED
        BY <1>4, <3>1 DEF TypeOK
    <2> QED
      BY <1>2, <1>4, <2>1, <2>2, <2>5, <2>6
  <1>5. ASSUME NEW r \in Requests, NEW o \in Ops, AnswerFromCache(r, o) \/ Start(r, o)
        PROVE  SettledInv'
    <2>1. Arrive(r, o) /\ stage[r] = "idle" /\ UNCHANGED fresh
      BY <1>5 DEF AnswerFromCache, Start, Arrive
    <2>2. \/ stage' = [stage EXCEPT ![r] = "answered"]
          \/ stage' = [stage EXCEPT ![r] = "fetching"] /\ o.key \notin fresh
      BY <1>5 DEF AnswerFromCache, Start, Reply
    <2> QED
      BY <1>4, <2>1, <2>2 DEF TypeOK, Running
  \* Requests R end: those of them at the last step open their keys again.
  <1>6. ASSUME NEW R \in SUBSET Requests, End(R)
        PROVE  \A k \in Keys :
                   /\ Under(k)' = Under(k) \ R
                   /\ \A q \in Under(k) \ R : q \in Under(k)' /\ stage'[q] = stage[q]
    BY <1>6 DEF End, Under, Running
  <1>7. ASSUME NEW r \in Requests, Fetch(r) PROVE SettledInv'
    <2>1. /\ stage[r] = "fetching"
          /\ \/ stage' = [stage EXCEPT ![r] = "writing"]
             \/ stage' = [stage EXCEPT ![r] = "answered"]
          /\ UNCHANGED <<row, op, settled, used, spoilt, fresh>>
      BY <1>7 DEF Fetch, Reply
    <2>2. \A k \in Keys : Under(k)' \subseteq Under(k)
      BY <2>1 DEF Under, Running, TypeOK
    <2>3. \A k \in Keys : \A q \in Under(k) :
              stage[q] = "refreshing" => q \in Under(k)' /\ stage'[q] = "refreshing"
      BY <2>1 DEF Under, TypeOK
    <2> QED
      BY <1>2, <2>1, <2>2, <2>3 DEF TypeOK
  <1>8. ASSUME NEW r \in Requests, CommitPatch(r) PROVE SettledInv'
    <2>1. /\ stage[r] = "writing" /\ stage' = [stage EXCEPT ![r] = "refreshing"]
          /\ WritePatch(r) /\ UNCHANGED <<op, used, spoilt, fresh>>
          /\ settled' = (settled \cup {k \in {op[r].key} \ {Nil} : r \notin raced}) \ Reopened(r)
      BY <1>8 DEF CommitPatch, WritePatch
    <2>2. \A k \in Keys : Under(k)' = Under(k)
      BY <2>1 DEF Under, Running, TypeOK
    <2>3. \A t \in Subs : row[t] # Nil => row'[t] # Nil
      BY <2>1, WriteTypes
    <2> SUFFICES ASSUME NEW k \in settled' \ spoilt
                 PROVE  /\ used[k] # Nil /\ row'[used[k].sub] # Nil
                        /\ k \in fresh \/ \E q \in Under(k) : stage'[q] = "refreshing"
                        /\ Under(k) # {} =>
                               Matches([sub |-> used[k].sub, columns |-> row'[used[k].sub]], used[k])
      <3>1. settled' \subseteq Keys
        BY TypeStep DEF TypeOK
      <3> QED
        BY <2>1, <2>2, <3>1 DEF SettledInv, Matches
    <2>4. CASE k = op[r].key /\ r \notin raced
      <3>1. k \in Keys /\ r \in Under(k)
        BY <2>1, <2>4, OpTypes DEF Under, Running, TypeOK
      <3>2. used[k] = op[r] /\ used[k] # Nil /\ op[r].sub \in Subs /\ row[op[r].sub] # Nil
        BY <2>1, <2>4, <3>1, UnderUsed, WriteTypes DEF AnswersInv, Noted, TypeOK
      <3>3. Matches([sub |-> op[r].sub, columns |-> row'[op[r].sub]], op[r])
        BY <2>1, <2>4, CommitShows
      <3> QED
        BY <2>1, <2>3, <3>1, <3>2, <3>3 DEF TypeOK
    <2>5. CASE ~(k = op[r].key /\ r \notin raced)
      <3>1. k \in settled \ spoilt /\ k \notin Reopened(r)
        BY <2>1, <2>5
      <3>2. /\ used[k] # Nil /\ row[used[k].sub] # Nil /\ used[k].sub \in Subs
            /\ k \in fresh \/ \E q \in Under(k) : stage[q] = "refreshing"
        BY <3>1, OpTypes DEF SettledInv, TypeOK
      <3>3. \A q \in Under(k) : stage[q] = "refreshing" => stage'[q] = "refreshing"
        BY <2>1 DEF Under, TypeOK
      <3>4. Under(k) # {} =>
                Matches([sub |-> used[k].sub, columns |-> row'[used[k].sub]], used[k])
        BY <2>1, <3>1, WriteKeepsSettled DEF AnswersInv
      <3> QED
        BY <2>3, <3>2, <3>3, <3>4
    <2> QED
      BY <2>4, <2>5
  <1>9. ASSUME NEW r \in Requests, Refresh(r) PROVE SettledInv'
    <2>1. /\ stage[r] = "refreshing" /\ stage' = [stage EXCEPT ![r] = "answered"]
          /\ fresh' = IF op[r].key = Nil THEN fresh ELSE fresh \cup {op[r].key}
          /\ spoilt \subseteq spoilt' /\ UNCHANGED <<row, op, settled, used>>
      BY <1>9 DEF Refresh, Reply, CachePatch
    <2>2. \A k \in Keys : Under(k)' \subseteq Under(k)
      BY <2>1 DEF Under, Running, TypeOK
    <2>3. \A k \in Keys : \A q \in Under(k) : stage[q] = "refreshing" =>
              k \in fresh' \/ (q \in Under(k)' /\ stage'[q] = "refreshing")
      BY <2>1 DEF Under, TypeOK
    <2> QED
      BY <1>2, <2>1, <2>2, <2>3 DEF TypeOK
  <1>10. ASSUME NEW r \in Requests, CommitDelete(r) \/ CommitAnswerLost(r) PROVE SettledInv'
    <2>1. /\ WritePatch(r) \/ WriteDelete(r)
          /\ stage[r] = "writing" /\ End({r}) /\ settled' = settled \ Reopened(r)
          /\ UNCHANGED <<used, spoilt, fresh>>
      BY <1>10 DEF CommitDelete, CommitAnswerLost, WritePatch, WriteDelete
    <2>2. \A t \in Subs : row[t] # Nil => row'[t] # Nil
      BY <2>1, WriteTypes
    <2>3. \A k \in settled' \ spoilt : Under(k) # {} =>
              Matches([sub |-> used[k].sub, columns |-> row'[used[k].sub]], used[k])
      BY <2>1, WriteKeepsSettled DEF AnswersInv
    <2>4. \A k \in Keys : /\ Under(k)' \subseteq Under(k)
                          /\ \A q \in Under(k) : stage[q] = "refreshing" =>
                                 q \in Under(k)' /\ stage'[q] = "refreshing"
      BY <1>6, <2>1
    <2> QED
      BY <1>1, <2>1, <2>2, <2>3, <2>4 DEF TypeOK
  <1>11. ASSUME NEW r \in Requests, Receive(r) \/ Fail(r) PROVE SettledInv'
    <2>1. /\ End({r}) /\ UNCHANGED <<row, used, spoilt, fresh>>
          /\ settled' \subseteq settled
          /\ stage[r] = "refreshing" => op[r].key \notin settled'
      BY <1>11 DEF Receive, Fail
    <2>2. \A k \in Keys : /\ Under(k)' \subseteq Under(k)
                          /\ \A q \in Under(k) \ {r} : q \in Under(k)' /\ stage'[q] = stage[q]
      BY <1>6, <2>1
    <2>3. \A k \in settled' : k \in Keys /\ (r \in Under(k) => stage[r] # "refreshing")
      BY <2>1 DEF Under, TypeOK
    <2> QED
      BY <1>2, <2>1, <2>2, <2>3
  <1>12. ASSUME NEW j \in Keys, Expire(j) PROVE SettledInv'
    <2>1. /\ fresh' = fresh \ {j} /\ settled' = settled \ {j}
          /\ UNCHANGED <<row, stage, op, used, spoilt>>
      BY <1>12 DEF Expire
    <2>2. \A k \in Keys : Under(k)' = Under(k)
      BY <2>1 DEF Under
    <2> QED
      BY <1>2, <2>1, <2>2 DEF TypeOK
  <1>13. CASE Restart
    BY <1>13 DEF Restart, SettledInv
  <1>14. CASE UNCHANGED vars
    <2>1. UNCHANGED <<row, fresh, settled, used, spoilt, stage, op>>
      BY <1>14 DEF vars
    <2>2. \A k \in Keys : Under(k)' = Under(k)
      BY <2>1 DEF Under
    <2> QED
      BY <1>2, <2>1, <2>2 DEF TypeOK
  <1> QED
    BY <1>3, <1>5, <1>7, <1>8, <1>9, <1>10, <1>11, <1>12, <1>13, <1>14 DEF Next, RequestStep

\* A step that takes a request out of "writing" writes for that request, if it
\* writes at all.
LEMMA WritesAlone ==
    ASSUME TypeOK, [Next]_vars, NEW r \in Requests, stage[r] = "writing", stage'[r] # "writing"
    PROVE  WritePatch(r) \/ WriteDelete(r) \/ UNCHANGED row
  <1> USE DEF TypeOK, Running
  <1>1. ASSUME NEW q \in Requests, NEW o \in Ops, AnswerFromCache(q, o) \/ Start(q, o)
        PROVE  UNCHANGED row
    BY <1>1 DEF AnswerFromCache, Start, Arrive
  <1>2. ASSUME NEW q \in Requests, Fetch(q) \/ Refresh(q) \/ Receive(q) \/ Fail(q)
        PROVE  UNCHANGED row
    BY <1>2 DEF Fetch, Refresh, Receive, Fail
  <1>3. ASSUME NEW q \in Requests, CommitPatch(q)
        PROVE  WritePatch(r)
    BY <1>3 DEF CommitPatch
  <1>4. ASSUME NEW q \in Requests, CommitDelete(q) \/ CommitAnswerLost(q)
        PROVE  WritePatch(r) \/ WriteDelete(r)
    <2>1. End({q}) /\ (WritePatch(q) \/ WriteDelete(q))
      BY <1>4 DEF CommitDelete, CommitAnswerLost
    <2>2. q = r
      BY <2>1 DEF End
    <2> QED
      BY <2>1, <2>2
  <1>5. ASSUME NEW s \in Subs, Create(s)
        PROVE  FALSE
    BY <1>5 DEF Create, requestVars
  <1>6. ASSUME NEW k \in Keys, Expire(k)
        PROVE  UNCHANGED row
    BY <1>6 DEF Expire
  <1>7. CASE Restart
    BY <1>7 DEF Restart
  <1>8. CASE UNCHANGED vars
    BY <1>8 DEF vars
  <1> QED
    BY <1>1, <1>2, <1>3, <1>4, <1>5, <1>6, <1>7, <1>8 DEF Next, RequestStep

\* For any number of requests, keys and failures, a duplicate of a PATCH changes
\* nothing while the key is settled, whether it overlaps the first or comes later.
THEOREM AppliedOnceAlways == Spec => AppliedOnce
  <1>1. TypeOK /\ AnswersInv /\ SettledInv /\ [Next]_vars =>
            [\A r \in Requests :
                (stage[r] = "writing" /\ stage'[r] # "writing" /\ op[r].key \in settled \ spoilt)
                    => row' = row]_vars
    <2> SUFFICES ASSUME TypeOK, AnswersInv, SettledInv, [Next]_vars, NEW r \in Requests,
                        stage[r] = "writing", stage'[r] # "writing",
                        op[r].key \in settled \ spoilt
                 PROVE  row' = row
      OBVIOUS
    <2> DEFINE k == op[r].key
    <2>1. k \in Keys /\ r \in Under(k)
      BY DEF TypeOK, Under, Running
    <2>2. op[r] = used[k] /\ op[r].body # Nil /\ op[r].sub \in Subs
      BY <2>1, UnderUsed DEF AnswersInv
    <2>3. Matches([sub |-> op[r].sub, columns |-> row[op[r].sub]], op[r])
      BY <2>1, <2>2 DEF SettledInv
    <2>4. CASE WritePatch(r)
      <3>1. Patched(r) = [endpoint |-> row[op[r].sub].endpoint,
                          is_active |-> row[op[r].sub].is_active]
        BY <2>3 DEF Patched, Matches
      <3>2. row[op[r].sub] \in Columns
        BY <2>4, WriteTypes
      <3>3. Patched(r) = row[op[r].sub]
        BY <3>1, <3>2 DEF Columns
      <3> QED
        BY <2>2, <2>4, <3>3 DEF WritePatch, TypeOK
    <2>5. CASE WriteDelete(r)
      BY <2>2, <2>5 DEF WriteDelete
    <2> QED
      BY <2>4, <2>5, WritesAlone
  <1>2. Spec => []AnswersInv
    BY SubscribersTyped, AnswersInit, AnswersStep, PTL DEF Spec
  <1>3. Spec => []SettledInv
    BY <1>2, SubscribersTyped, SettledInit, SettledStep, PTL DEF Spec
  <1> QED
    BY <1>1, <1>2, <1>3, SubscribersTyped, PTL DEF Spec, AppliedOnce
=============================================================================
