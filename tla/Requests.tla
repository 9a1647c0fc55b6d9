------------------------------ MODULE Requests ------------------------------
(***************************************************************************)
(* Requests in one server process: a handler that reads, writes or deletes *)
(* an object of RedisService (components/redis/redis.service.ts), writes   *)
(* wrapped in @RetryTransaction (decorators/retry-transaction.decorator.ts,*)
(* helpers/transaction-wrappers.ts), the exception filter (services/       *)
(* exception-filter.service.ts), and the middleware that counts requests   *)
(* when the headers of a response are written (metrics/middleware/         *)
(* api-metrics.middleware.ts).  All requests are for one key.              *)
(***************************************************************************)
EXTENDS Process

VARIABLES at,         \* where the handler of a request is
          kind,
          filter,
          tries,      \* attempts of the transaction so far
          client,     \* what the client of a request has got
          met,        \* requests that were under way together with this one
          value,      \* the put whose value the object has
          life,       \* the put whose lifetime the object has
          counted,    \* requests in http.server.request.count
          responded   \* requests in http.server.response.count

\* The process runs.
up == exit = "no"

handling == <<at, kind, filter, tries, met>>
redis == <<value, life>>
counts == <<counted, responded>>
serving == <<exit, handling, client, redis, counts>>

\* Positions at which a handler is under way.
Busy == {"hmset", "pexpire", "exists", "hgetall", "del", "rejected", "waiting", "hung"}

\* A handler that is through, its response still to be written.
Settled(r) == at[r] \in {"done", "failed"}

\* A put that is through: it returned true.
Returned(r) == kind[r] = "put" /\ at[r] \in {"done", "sent"}

\* What became of its response.
Over(r) == IF at[r] = "done" THEN "sent" ELSE "refused"

\* The clients that redis.provider.ts registers are named, and none of them
\* after the default key: without a name getClient() throws.  Puts, gets and
\* deletes get through where an application registers a single client.
First(k) ==
    CASE k = "put"     -> "hmset"
      [] k = "get"     -> "exists"
      [] k = "delete"  -> "del"
      [] k = "unnamed" -> "rejected"
      [] k = "stray"   -> "failed"

RequestsInit ==
    /\ up
    /\ at = [r \in Calls |-> "idle"]
    /\ kind = [r \in Calls |-> None]
    /\ filter = [r \in Calls |-> None]
    /\ tries = [r \in Calls |-> 0]
    /\ client = [r \in Calls |-> "waiting"]
    /\ met = [r \in Calls |-> {}]
    /\ value = None /\ life = None
    /\ counted = {} /\ responded = {}

\* A request with no route goes straight to the exception filter.
Arrive(r, k, f) ==
    /\ up /\ at[r] = "idle"
    /\ at' = [at EXCEPT ![r] = First(k)]
    /\ kind' = [kind EXCEPT ![r] = k]
    /\ filter' = [filter EXCEPT ![r] = IF k \in {"put", "unnamed"} THEN f ELSE None]
    /\ tries' = [tries EXCEPT ![r] = 1]
    /\ met' = [q \in Calls |->
                  IF q = r THEN {p \in Calls : at[p] \in Busy}
                  ELSE IF at[q] \in Busy THEN met[q] \union {r} ELSE met[q]]
    /\ UNCHANGED <<exit, client, redis, counts>>

-----------------------------------------------------------------------------
Goto(r, pos) == at' = [at EXCEPT ![r] = pos] /\ UNCHANGED <<kind, filter, tries, met>>

\* A command that fails, or whose reply is lost, has been executed or not.
Errs(r, pos, change) ==
    /\ Goto(r, pos)
    /\ change \/ UNCHANGED redis

\* HMSET on a hash that is there leaves its time to live alone.
Write(r) == value' = r /\ UNCHANGED life

\* setObjectByKey(), first command.
Hmset(r) ==
    /\ up /\ at[r] = "hmset"
    /\ \/ Goto(r, "pexpire") /\ Write(r)
       \/ Errs(r, "rejected", Write(r))
    /\ UNCHANGED <<exit, client, counts>>

Limit(r) == life' = (IF value = None THEN None ELSE r) /\ UNCHANGED value

\* Fault: the result of the first command is returned, not of the second.
PexpireUnread(r) ==
    /\ up /\ at[r] = "pexpire"
    /\ Goto(r, "done")
    /\ Limit(r) \/ UNCHANGED redis
    /\ UNCHANGED <<exit, client, counts>>

\* Fault: an object that has a lifetime keeps it (PEXPIRE NX).
PexpireOnce(r) ==
    /\ up /\ at[r] = "pexpire"
    /\ Goto(r, "done")
    /\ IF life = None THEN Limit(r) ELSE UNCHANGED redis
    /\ UNCHANGED <<exit, client, counts>>

\* Its second command: PEXPIRE returns 0 when the key is gone, and the caller
\* gets a RedisError.
Pexpire(r) ==
    /\ up /\ at[r] = "pexpire"
    /\ \/ value # None /\ Goto(r, "done") /\ Limit(r)
       \/ value = None /\ Goto(r, "rejected") /\ UNCHANGED redis
       \/ Errs(r, "rejected", Limit(r))
    /\ UNCHANGED <<exit, client, counts>>

\* getObjectByKey() asks for the object only if it exists.
Exists(r) ==
    /\ up /\ at[r] = "exists"
    /\ Goto(r, IF value = None THEN "done" ELSE "hgetall") \/ Goto(r, "failed")
    /\ UNCHANGED <<exit, client, redis, counts>>

\* Gone in between, it is read as an empty object.
Hgetall(r) ==
    /\ up /\ at[r] = "hgetall"
    /\ Goto(r, "done") \/ Goto(r, "failed")
    /\ UNCHANGED <<exit, client, redis, counts>>

Erase == value' = None /\ life' = None

\* deleteObjectByKey().
Del(r) ==
    /\ up /\ at[r] = "del"
    /\ \/ Goto(r, "done") /\ Erase
       \/ Errs(r, "failed", Erase)
    /\ UNCHANGED <<exit, client, counts>>

\* The time to live of the object runs out.
Expire ==
    /\ value # None /\ life # None
    /\ Erase
    /\ UNCHANGED <<exit, handling, client, counts>>

-----------------------------------------------------------------------------
\* async.retry asks the errorFilter only while attempts are left.
MayRetry(r) == tries[r] < Times

\* The filter accepts the error: the next attempt waits for its interval.
Accept(r) ==
    /\ up /\ at[r] = "rejected"
    /\ MayRetry(r) /\ filter[r] = "any"
    /\ Goto(r, "waiting")
    /\ UNCHANGED <<exit, client, redis, counts>>

\* Without attempts, or by the default filter, the caller gets a
\* TransactionError.
GiveUp(r) ==
    /\ up /\ at[r] = "rejected"
    /\ ~ MayRetry(r) \/ filter[r] = "default"
    /\ Goto(r, "failed")
    /\ UNCHANGED <<exit, client, redis, counts>>

\* A filter that throws leaves the promise of the caller pending; what it
\* threw is an unhandled rejection.
FilterThrows(r) ==
    /\ up /\ at[r] = "rejected"
    /\ MayRetry(r) /\ filter[r] = "throws"
    /\ Goto(r, "hung")
    /\ UNCHANGED <<exit, client, redis, counts>>

Retry(r) ==
    /\ up /\ at[r] = "waiting"
    /\ at' = [at EXCEPT ![r] = First(kind[r])]
    /\ tries' = [tries EXCEPT ![r] = @ + 1]
    /\ UNCHANGED <<exit, kind, filter, met, client, redis, counts>>

-----------------------------------------------------------------------------
\* How the middleware counts: not at all, in a worker, or in a process that is
\* no worker, where cluster.worker is undefined.
Countings == {"off", "worker", "single"}

\* Routeless requests may be left out of the counts.
Counts(r, how) == how # "off" /\ r \notin counted

Send(r) ==
    /\ Goto(r, Over(r))
    /\ client' = [client EXCEPT ![r] =
                     IF at[r] = "failed" THEN "error" ELSE "result"]

\* The response of a handler, or of the exception filter for one that failed.
Respond(r, how) ==
    /\ up /\ Settled(r)
    /\ client[r] = "waiting"
    /\ how \in {"off", "worker"} \/ r \in counted
    /\ Send(r)
    /\ IF Counts(r, how)
       THEN counted' = counted \union {r} /\ responded' = responded \union {r}
       ELSE UNCHANGED counts
    /\ UNCHANGED <<exit, redis>>

\* cluster.worker.id throws after the request has been counted and before the
\* response: the exception filter answers instead.  When it throws inside the
\* exception filter, Express 5 calls the filter again.
Miscount(r) ==
    /\ up /\ Settled(r)
    /\ client[r] = "waiting" /\ r \notin counted
    /\ counted' = counted \union {r}
    /\ Goto(r, "failed")
    /\ UNCHANGED <<exit, client, redis, responded>>

\* Express 4 does not: an unhandled rejection.
Strand(r) ==
    /\ up /\ at[r] = "failed"
    /\ client[r] = "waiting" /\ r \notin counted
    /\ Goto(r, "hung")
    /\ counted' = counted \union {r}
    /\ UNCHANGED <<exit, client, redis, responded>>

\* A response to a closed connection writes no headers and is not counted.
Drop(r) ==
    /\ up /\ Settled(r)
    /\ client[r] = "gone"
    /\ Goto(r, Over(r))
    /\ UNCHANGED <<exit, client, redis, counts>>

\* The client closes its connection; the handler does not notice.
Abort(r) ==
    /\ up /\ at[r] # "idle" /\ client[r] = "waiting"
    /\ client' = [client EXCEPT ![r] = "gone"]
    /\ UNCHANGED <<exit, handling, redis, counts>>

\* The process ends, and its connections with it.
Stop ==
    /\ up
    /\ exit' \in Ways
    /\ at' = [r \in Calls |-> IF at[r] \in Busy \union {"failed"} THEN "cut" ELSE at[r]]
    /\ client' = [r \in Calls |->
                     IF client[r] = "waiting" /\ at[r] # "idle" THEN "gone" ELSE client[r]]
    /\ UNCHANGED <<kind, filter, tries, met, redis, counts>>

-----------------------------------------------------------------------------
Transaction(r) == Accept(r) \/ GiveUp(r) \/ FilterThrows(r) \/ Retry(r)

Store(r) == Hmset(r) \/ Pexpire(r) \/ Exists(r) \/ Hgetall(r) \/ Del(r)

RequestsNext ==
    \/ Expire \/ Stop
    \/ \E r \in Calls :
          \/ \E k \in Kinds, f \in Filters : Arrive(r, k, f)
          \/ Store(r) \/ Transaction(r) \/ Abort(r) \/ Drop(r)
          \/ \E how \in Countings : Respond(r, how)
          \/ Miscount(r) \/ Strand(r)

RequestsSpec == RequestsInit /\ [][RequestsNext]_serving

-----------------------------------------------------------------------------
Positions == Busy \union {"idle", "done", "failed", "sent", "refused", "cut"}

\* The types of the state; attempts stay within those declared, and only
\* counted requests have counted responses.  (retry-transaction.decorator.ts,
\* api-metrics.middleware.ts)
RequestsTypeOK ==
    /\ exit \in {"no"} \union Ways
    /\ at \in [Calls -> Positions]
    /\ kind \in [Calls -> Kinds \union {None}]
    /\ filter \in [Calls -> Filters \union {None}]
    /\ tries \in [Calls -> 0 .. Times]
    /\ client \in [Calls -> {"waiting", "result", "error", "gone"}]
    /\ met \in [Calls -> SUBSET Calls]
    /\ value \in Calls \union {None} /\ life \in Calls \union {None}
    /\ counted \subseteq Calls /\ responded \subseteq counted

(***************************************************************************)
(* setObjectByKey() writes in two commands.  An object that will never     *)
(* expire is left only by a put that is still between them, or whose       *)
(* caller was told of a failure or cut off: a put that returned true left  *)
(* a lifetime, whatever other puts, deletions and expiries came between.   *)
(* This and the next one matter where an application registers a single    *)
(* client: getClient() finds none of the provider's (redis.service.ts:65). *)
(***************************************************************************)
NoImmortal ==
    value # None /\ life = None => ~ Returned(value)

(***************************************************************************)
(* The value and the lifetime of an object may come from different puts,   *)
(* as HMSET keeps the lifetime that is there.  When the writer of the      *)
(* value returned true, this takes two puts that were under way at a time: *)
(* puts one after the other each get their own lifetime.                   *)
(***************************************************************************)
LifetimeOfWriter ==
    value # None /\ life # None /\ life # value /\ Returned(value) =>
        life \in met[value]

=============================================================================
