---------------------------- MODULE Subscribers ----------------------------
(***************************************************************************)
(* The subscriber endpoints of the API (app/api/subscribers.py): POST,     *)
(* PATCH with its idempotency cache, and DELETE, in one API process.       *)
(*                                                                         *)
(* A PATCH looks at the cache, reads the row, writes and reads it again,   *)
(* with an await between any two of these, and fills the cache in the same *)
(* step as the last read.  The row object belongs to the request's own     *)
(* session; the commit writes the columns whose value differs from the one *)
(* that was loaded, and no others.                                         *)
(***************************************************************************)
EXTENDS Naturals

CONSTANTS
    Subs,         \* subscribers
    Endpoints,    \* values of the endpoint column
    Keys,         \* values of X-Idempotency-Key
    Bodies,       \* bound: the PATCH bodies clients send
    Requests,     \* bound: requests the API serves at a time
    Nil,          \* absent: no key, no value, no answer
    NotFound,     \* the 404 answer
    MaxCalls,     \* bound: requests altogether
    MaxFaults     \* bound: failed requests and restarts together

Columns == [endpoint : Endpoints, is_active : BOOLEAN]
Found == [sub : Subs, columns : Columns]
Answers == {NotFound} \cup Found

\* A DELETE has no body, and no key.
Ops == [sub : Subs, key : Keys \cup {Nil}, body : Bodies]
          \cup [sub : Subs, key : {Nil}, body : {Nil}]

ASSUME SubscribersAssumption ==
    /\ Bodies \subseteq [endpoint : Endpoints \cup {Nil}, is_active : BOOLEAN \cup {Nil}]
    /\ Nil \notin Keys /\ Nil \notin Endpoints /\ Nil \notin BOOLEAN /\ Nil \notin Bodies
    /\ Nil \notin Columns /\ Nil \notin Ops /\ Nil \notin Answers
    /\ MaxCalls \in Nat /\ MaxFaults \in Nat

VARIABLES
    row,          \* endpoint and is_active of each subscriber, or Nil: no row
    deleted,      \* subscribers with deleted_at
    cache,        \* the answer kept for each key, or Nil
    fresh,        \* keys whose entry is younger than _PATCH_IDEMPOTENCY_TTL
    stage,        \* where each request is
    op,           \* what it asks for
    loaded,       \* the columns of its row object, as loaded
    answer,       \* and what it is answered
    \* history
    settled,      \* keys whose PATCH is in the row and in the cache, or on its
                  \* way there, and that nothing has opened again since
    raced,        \* requests that read their row before another one, which
                  \* asks for something else, wrote it
    used,         \* what each key was first used for
    spoilt,       \* keys used for something else too, or by a raced request
    calls,        \* requests so far
    faults        \* faults so far

cacheVars == <<cache, fresh>>
requestVars == <<stage, op, loaded, answer>>
keyHistory == <<settled, used, spoilt>>
vars == <<row, deleted, cacheVars, requestVars, keyHistory, raced, calls, faults>>

Running == {"fetching", "writing", "refreshing"}

Init ==
    /\ row = [s \in Subs |-> Nil]
    /\ deleted = {}
    /\ cache = [k \in Keys |-> Nil]
    /\ fresh = {}
    /\ stage = [r \in Requests |-> "idle"]
    /\ op = [r \in Requests |-> Nil]
    /\ loaded = [r \in Requests |-> Nil]
    /\ answer = [r \in Requests |-> Nil]
    /\ settled = {}
    /\ raced = {}
    /\ used = [k \in Keys |-> Nil]
    /\ spoilt = {}
    /\ calls = 0
    /\ faults = 0

-----------------------------------------------------------------------------
(* Helpers *)

Fault == faults < MaxFaults /\ faults' = faults + 1

\* Readers that forget soft deletion.  (mutant)
SwitchedOn == {s \in Subs : row[s] # Nil /\ row[s].is_active = TRUE}

\* Whom the fan-out and the workers take for active.
Active == {s \in Subs \ deleted : row[s] # Nil /\ row[s].is_active = TRUE}

\* `if body.is_active:` for `is not None`.  (mutant)
PatchedIfTrue(r) ==
    [endpoint |-> IF op[r].body.endpoint = Nil THEN row[op[r].sub].endpoint
                  ELSE op[r].body.endpoint,
     is_active |-> row[op[r].sub].is_active = TRUE \/ op[r].body.is_active = TRUE]

\* The whole row object is written back.  (mutant)
PatchedWhole(r) ==
    [endpoint |-> IF op[r].body.endpoint = Nil THEN loaded[r].endpoint
                  ELSE op[r].body.endpoint,
     is_active |-> IF op[r].body.is_active = Nil THEN loaded[r].is_active
                   ELSE op[r].body.is_active]

\* A column that the body leaves out is set to NULL.  (mutant)
PatchedNulls(r) ==
    [endpoint |-> op[r].body.endpoint, is_active |-> op[r].body.is_active]

\* UPDATE sets the columns that the body gives and that differ from the loaded
\* ones; the others keep what the row has now.
Patched(r) ==
    LET new(column, wanted) ==
            IF wanted \in {Nil, loaded[r][column]} THEN row[op[r].sub][column] ELSE wanted
    IN  [endpoint |-> new("endpoint", op[r].body.endpoint),
         is_active |-> new("is_active", op[r].body.is_active)]

\* Requests under way for the row of request r, with another body.
Rivals(r) == {q \in Requests \ {r} :
                 stage[q] \in Running /\ op[q].sub = op[r].sub /\ op[q].body # op[r].body}

\* Those of them that have read the row r writes.
RacedBy(r) == {q \in Rivals(r) : stage[q] \in {"writing", "refreshing"}}

\* A rival's key is open again: the rival, or a duplicate of it, may undo r's write.
Reopened(r) == {op[q].key : q \in Rivals(r)}

Reply(r, a) ==
    /\ stage' = [stage EXCEPT ![r] = "answered"]
    /\ answer' = [answer EXCEPT ![r] = a]

\* Nothing is left of these requests: they are answered, or given up.
End(R) ==
    /\ stage' = [r \in Requests |-> IF r \in R THEN "idle" ELSE stage[r]]
    /\ op' = [r \in Requests |-> IF r \in R THEN Nil ELSE op[r]]
    /\ loaded' = [r \in Requests |-> IF r \in R THEN Nil ELSE loaded[r]]
    /\ answer' = [r \in Requests |-> IF r \in R THEN Nil ELSE answer[r]]

\* No cache.  (mutant)
ForgetPatch(k, a) == UNCHANGED <<cache, fresh>>

\* _cache_patch_result: evicts the old entries, then stores.
CachePatch(k, a) ==
    /\ cache' = [j \in Keys |-> IF j = k THEN a ELSE IF j \in fresh THEN cache[j] ELSE Nil]
    /\ fresh' = fresh \cup {k}

-----------------------------------------------------------------------------
(* POST /subscribers *)

Create(s) ==
    /\ row[s] = Nil
    /\ \E e \in Endpoints : row' = [row EXCEPT ![s] = [endpoint |-> e, is_active |-> TRUE]]
    /\ UNCHANGED <<deleted, cacheVars, requestVars, keyHistory, raced, calls, faults>>

-----------------------------------------------------------------------------
(* PATCH and DELETE /subscribers/{id} *)

\* A key is used for the first time, or again.
Note(o) ==
    IF o.key = Nil THEN UNCHANGED <<used, spoilt>>
    ELSE /\ used' = [used EXCEPT ![o.key] = IF @ = Nil THEN o ELSE @]
         /\ spoilt' = spoilt \cup {k \in {o.key} : used[k] \notin {Nil, o}}

Arrive(r, o) ==
    /\ stage[r] = "idle" /\ calls < MaxCalls
    /\ calls' = calls + 1
    /\ op' = [op EXCEPT ![r] = o]
    /\ Note(o)
    /\ UNCHANGED <<row, deleted, cacheVars, loaded, settled, raced, faults>>

\* A duplicate within the TTL: the cached answer, whatever it asks for now.
AnswerFromCache(r, o) ==
    /\ o.key \in fresh
    /\ Arrive(r, o)
    /\ Reply(r, cache[o.key])

Start(r, o) ==
    /\ o.key \notin fresh
    /\ Arrive(r, o)
    /\ stage' = [stage EXCEPT ![r] = "fetching"]
    /\ UNCHANGED answer

\* _get_or_404
Fetch(r) ==
    LET s == op[r].sub IN
    /\ stage[r] = "fetching"
    /\ \/ /\ row[s] # Nil /\ s \notin deleted
          /\ loaded' = [loaded EXCEPT ![r] = row[s]]
          /\ stage' = [stage EXCEPT ![r] = "writing"]
          /\ UNCHANGED answer
       \/ /\ row[s] = Nil \/ s \in deleted
          /\ Reply(r, NotFound)
          /\ UNCHANGED loaded
    /\ UNCHANGED <<row, deleted, cacheVars, op, keyHistory, raced, calls, faults>>

WritePatch(r) ==
    /\ stage[r] = "writing" /\ op[r].body # Nil
    /\ row' = [row EXCEPT ![op[r].sub] = Patched(r)]
    /\ UNCHANGED deleted

\* is_active = False is written if the loaded object had True.
WriteDelete(r) ==
    /\ stage[r] = "writing" /\ op[r].body = Nil
    /\ row' = IF loaded[r].is_active = TRUE
              THEN [row EXCEPT ![op[r].sub].is_active = FALSE] ELSE row
    /\ deleted' = deleted \cup {op[r].sub}

CommitPatch(r) ==
    /\ WritePatch(r)
    /\ settled' = (settled \cup {k \in {op[r].key} \ {Nil} : r \notin raced}) \ Reopened(r)
    /\ raced' = raced \cup RacedBy(r)
    /\ stage' = [stage EXCEPT ![r] = "refreshing"]
    /\ UNCHANGED <<cacheVars, op, loaded, answer, used, spoilt, calls, faults>>

\* db.refresh, the response and the cache, without an await after the read.
Refresh(r) ==
    LET k == op[r].key
        a == [sub |-> op[r].sub, columns |-> row[op[r].sub]] IN
    /\ stage[r] = "refreshing"
    /\ Reply(r, a)
    /\ IF k = Nil THEN UNCHANGED cacheVars ELSE CachePatch(k, a)
    /\ spoilt' = spoilt \cup {j \in {k} \ {Nil} : r \in raced}
    /\ UNCHANGED <<row, deleted, op, loaded, settled, used, raced, calls, faults>>

\* 204
CommitDelete(r) ==
    /\ WriteDelete(r)
    /\ End({r})
    /\ settled' = settled \ Reopened(r)
    /\ raced' = (raced \cup RacedBy(r)) \ {r}
    /\ UNCHANGED <<cacheVars, used, spoilt, calls, faults>>

\* The client has its answer.
Receive(r) ==
    /\ stage[r] = "answered"
    /\ End({r})
    /\ raced' = raced \ {r}
    /\ UNCHANGED <<row, deleted, cacheVars, keyHistory, calls, faults>>

-----------------------------------------------------------------------------
(* Time and faults *)

Expire(k) ==
    /\ k \in fresh
    /\ fresh' = fresh \ {k}
    /\ settled' = settled \ {k}
    /\ UNCHANGED <<row, deleted, cache, requestVars, used, spoilt, raced, calls, faults>>

\* An await raises (the connection, a timeout): a 500, nothing is cached, and
\* what was committed stays.
Fail(r) ==
    /\ stage[r] \in Running
    /\ Fault
    /\ settled' = settled \ {k \in {op[r].key} : stage[r] = "refreshing"}
    /\ End({r})
    /\ raced' = raced \ {r}
    /\ UNCHANGED <<row, deleted, cacheVars, used, spoilt, calls>>

\* The commit succeeds and its acknowledgement is lost: a 500 as well.
CommitAnswerLost(r) ==
    /\ WritePatch(r) \/ WriteDelete(r)
    /\ Fault
    /\ settled' = settled \ Reopened(r)
    /\ End({r})
    /\ raced' = (raced \cup RacedBy(r)) \ {r}
    /\ UNCHANGED <<cacheVars, used, spoilt, calls>>

\* The API process dies and is started again: its requests and cache are gone.
Restart ==
    /\ Fault
    /\ cache' = [k \in Keys |-> Nil]
    /\ fresh' = {}
    /\ settled' = {}
    /\ End(Requests)
    /\ raced' = {}
    /\ UNCHANGED <<row, deleted, used, spoilt, calls>>

-----------------------------------------------------------------------------

RequestStep(r) ==
    \/ \E o \in Ops : AnswerFromCache(r, o) \/ Start(r, o)
    \/ Fetch(r)
    \/ CommitPatch(r)
    \/ Refresh(r)
    \/ CommitDelete(r)
    \/ Receive(r)
    \/ Fail(r)
    \/ CommitAnswerLost(r)

Next ==
    \/ \E s \in Subs : Create(s)
    \/ \E r \in Requests : RequestStep(r)
    \/ \E k \in Keys : Expire(k)
    \/ Restart

Spec == Init /\ [][Next]_vars

-----------------------------------------------------------------------------
(* Properties *)

\* Every variable has its type; a key whose entry is fresh has one.
TypeOK ==
    /\ row \in [Subs -> Columns \cup {Nil}]
    /\ deleted \subseteq {s \in Subs : row[s] # Nil}
    /\ cache \in [Keys -> Found \cup {Nil}]
    /\ fresh \subseteq {k \in Keys : cache[k] # Nil}
    /\ stage \in [Requests -> Running \cup {"idle", "answered"}]
    /\ op \in [Requests -> Ops \cup {Nil}]
    /\ loaded \in [Requests -> Columns \cup {Nil}]
    /\ answer \in [Requests -> Answers \cup {Nil}]
    /\ \A r \in Requests :
           /\ stage[r] # "idle" => op[r] # Nil
           /\ stage[r] \in {"writing", "refreshing"} =>
                  loaded[r] # Nil /\ row[op[r].sub] # Nil
           /\ stage[r] = "refreshing" => op[r].body # Nil
           /\ stage[r] = "answered" => answer[r] # Nil
    /\ settled \subseteq Keys
    /\ raced \subseteq Requests
    /\ used \in [Keys -> Ops \cup {Nil}]
    /\ spoilt \subseteq Keys
    /\ calls \in 0 .. MaxCalls /\ faults \in 0 .. MaxFaults

L == INSTANCE SubscriberLedger WITH
        known <- {s \in Subs : row[s] # Nil}, delivers <- Active, gone <- deleted

\* However PATCH and DELETE overlap, and whichever of them dies half way, the
\* rows show the fan-out a register in which deletion is for good: a PATCH that
\* read the row before the DELETE and commits after it (subscribers.py 91-97)
\* may set is_active again, and still nothing is delivered.
ImplementsLedger == L!Spec

\* A PATCH with X-Idempotency-Key changes its row once within the TTL: duplicates
\* that overlap it miss the cache and commit as well (subscribers.py 87-99), but
\* what they write is in the row already, and one that comes later is answered
\* from the cache, even when others have changed the row since.  The key is open
\* again when its entry expires or is lost, its request fails after the commit,
\* or another request writes the row while one with the key is under way.
AppliedOnce ==
    [][\A r \in Requests :
          (stage[r] = "writing" /\ stage'[r] # "writing" /\ op[r].key \in settled \ spoilt)
              => row' = row]_vars

\* Answer a shows what PATCH o asked for.
Matches(a, o) ==
    /\ a.sub = o.sub
    /\ o.body.endpoint \in {Nil, a.columns.endpoint}
    /\ o.body.is_active \in {Nil, a.columns.is_active}

\* Whether it comes from the row or from the cache, a 200 to a PATCH shows the
\* subscriber asked for with every column the body names, however many
\* duplicates overlap, unless a request for something else wrote the row between
\* its read and its answer or its key was used for something else.
AnswerMatches ==
    \A r \in Requests :
        (stage[r] = "answered" /\ answer[r] # NotFound /\ r \notin raced
            /\ op[r].key \notin spoilt) => Matches(answer[r], op[r])

\* Request r writes this value to the column of subscriber s.
Writes(r, s, column, value) ==
    /\ stage[r] = "writing" /\ op[r].sub = s
    /\ \/ op[r].body # Nil /\ op[r].body[column] = value
       \/ op[r].body = Nil /\ column = "is_active" /\ value = FALSE

\* A column of a row changes only to what a running request asks for it: two
\* PATCHes that read the same row and name different columns both take effect,
\* whichever commits last, and no DELETE is undone by a PATCH of the endpoint.
ColumnsKept ==
    [][\A s \in Subs, column \in {"endpoint", "is_active"} :
          (row[s] # Nil /\ row'[s] # row[s] /\ row'[s][column] # row[s][column]) =>
              \E r \in Requests : Writes(r, s, column, row'[s][column])]_vars
=============================================================================
