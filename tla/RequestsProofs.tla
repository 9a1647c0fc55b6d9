--------------------------- MODULE RequestsProofs ---------------------------
(***************************************************************************)
(* Theorems about requests for one object of RedisService, for any set of  *)
(* requests and any number of attempts: what the module says of the value  *)
(* and of the lifetime of the object.                                      *)
(***************************************************************************)
EXTENDS Requests, TLAPS

\* A put that can still write.  Outside of these positions it never does.
Writing == {"hmset", "pexpire", "rejected", "waiting"}

\* A handler is where its kind can be, and attempts are not exceeded.
Placed ==
    \A r \in Calls :
        /\ at[r] # "idle" => kind[r] \in Kinds
        /\ at[r] \in {"hmset", "pexpire"} => kind[r] = "put"
        /\ at[r] \in {"exists", "hgetall"} => kind[r] = "get"
        /\ at[r] = "del" => kind[r] = "delete"
        /\ at[r] = "waiting" => tries[r] < Times

\* The object was written by a request that came; without a value there is no
\* lifetime.
Stored ==
    /\ value # None => at[value] # "idle"
    /\ value = None => life = None

\* Requests that can still write are under way together.
Together ==
    \A a, b \in Calls :
        a # b /\ at[a] \in Writing /\ at[b] \in Writing => b \in met[a]

\* So is a put between its two commands with the writer of the value.
Between ==
    \A b \in Calls :
        at[b] = "pexpire" /\ value # None /\ value # b => b \in met[value]

RequestsInv ==
    /\ RequestsTypeOK /\ Placed /\ Stored /\ Together /\ Between
    /\ NoImmortal /\ LifetimeOfWriter

-----------------------------------------------------------------------------
LEMMA InitRequestsInv == RequestsInit => RequestsInv
<1> SUFFICES ASSUME RequestsInit PROVE RequestsInv
  OBVIOUS
<1> USE NoneAssumption, TimesAssumption DEF RequestsInit
<1>1. RequestsTypeOK
  BY DEF RequestsTypeOK, Positions, up
<1>2. Placed /\ Stored /\ Together /\ Between
  BY DEF Placed, Stored, Together, Between, Writing
<1>3. NoImmortal /\ LifetimeOfWriter
  BY DEF NoImmortal, LifetimeOfWriter
<1> QED
  BY <1>1, <1>2, <1>3 DEF RequestsInv

-----------------------------------------------------------------------------
\* One lemma for each step, in it one step for each part of the invariant.

LEMMA ArriveKeeps ==
  ASSUME RequestsInv, NEW r \in Calls, NEW k \in Kinds, NEW f \in Filters, Arrive(r, k, f)
  PROVE  RequestsInv'
<1> USE NoneAssumption, TimesAssumption, KindsAssumption DEF RequestsInv, RequestsTypeOK, Arrive, redis, counts
<1>1. RequestsTypeOK'
  BY DEF Positions, Busy, First
<1>2. Placed'
  BY DEF Placed, First
<1>3. Stored'
  BY DEF Stored
<1>4. Together'
  BY DEF Together, Writing, Busy
<1>5. Between'
  BY DEF Between, Busy, First
<1>6. NoImmortal'
  BY DEF NoImmortal, Returned, Stored
<1>7. LifetimeOfWriter'
  BY DEF LifetimeOfWriter, Returned, Stored
<1> QED
  BY <1>1, <1>2, <1>3, <1>4, <1>5, <1>6, <1>7

LEMMA HmsetKeeps ==
  ASSUME RequestsInv, NEW r \in Calls, Hmset(r)
  PROVE  RequestsInv'
<1> USE NoneAssumption, TimesAssumption, KindsAssumption DEF RequestsInv, RequestsTypeOK, Hmset, Goto, Errs, Write, redis, counts
<1>1. RequestsTypeOK'
  BY DEF Positions, Busy
<1>2. Placed'
  BY DEF Placed
<1>3. Stored'
  BY DEF Stored
<1>4. Together'
  BY DEF Together, Writing
<1>5. Between'
  BY DEF Between, Together, Writing
<1>6. NoImmortal'
  BY DEF NoImmortal, Returned
<1>7. LifetimeOfWriter'
  BY DEF LifetimeOfWriter, Returned
<1> QED
  BY <1>1, <1>2, <1>3, <1>4, <1>5, <1>6, <1>7

LEMMA PexpireKeeps ==
  ASSUME RequestsInv, NEW r \in Calls, Pexpire(r)
  PROVE  RequestsInv'
<1> USE NoneAssumption, TimesAssumption, KindsAssumption DEF RequestsInv, RequestsTypeOK, Pexpire, Goto, Errs, Limit, redis, counts
<1>1. RequestsTypeOK'
  BY DEF Positions, Busy
<1>2. Placed'
  BY DEF Placed
<1>3. Stored'
  BY DEF Stored
<1>4. Together'
  BY DEF Together, Writing
<1>5. Between'
  BY DEF Between
<1>6. NoImmortal'
  BY DEF NoImmortal, Returned
<1>7. LifetimeOfWriter'
  BY DEF LifetimeOfWriter, Between, Returned
<1> QED
  BY <1>1, <1>2, <1>3, <1>4, <1>5, <1>6, <1>7

LEMMA GetKeeps ==
  ASSUME RequestsInv, NEW r \in Calls, Exists(r) \/ Hgetall(r)
  PROVE  RequestsInv'
<1> USE NoneAssumption, TimesAssumption, KindsAssumption DEF RequestsInv, RequestsTypeOK, Exists, Hgetall, Goto, redis, counts
<1>1. RequestsTypeOK'
  BY DEF Positions, Busy
<1>2. Placed'
  BY DEF Placed
<1>3. Stored'
  BY DEF Stored
<1>4. Together'
  BY DEF Together, Writing
<1>5. Between'
  BY DEF Between
<1>6. NoImmortal'
  BY DEF NoImmortal, Returned, Placed
<1>7. LifetimeOfWriter'
  BY DEF LifetimeOfWriter, Returned, Placed
<1> QED
  BY <1>1, <1>2, <1>3, <1>4, <1>5, <1>6, <1>7

LEMMA DelKeeps ==
  ASSUME RequestsInv, NEW r \in Calls, Del(r)
  PROVE  RequestsInv'
<1> USE NoneAssumption, TimesAssumption, KindsAssumption DEF RequestsInv, RequestsTypeOK, Del, Erase, Errs, Goto, redis, counts
<1>1. RequestsTypeOK'
  BY DEF Positions
<1>2. Placed'
  BY DEF Placed
<1>3. Stored'
  BY DEF Stored
<1>4. Together'
  BY DEF Together, Writing
<1>5. Between'
  BY DEF Between
<1>6. NoImmortal'
  BY DEF NoImmortal, Returned
<1>7. LifetimeOfWriter'
  BY DEF LifetimeOfWriter, Returned
<1> QED
  BY <1>1, <1>2, <1>3, <1>4, <1>5, <1>6, <1>7

LEMMA ExpireKeeps ==
  ASSUME RequestsInv, Expire
  PROVE  RequestsInv'
<1> USE NoneAssumption, TimesAssumption, KindsAssumption DEF RequestsInv, RequestsTypeOK, Expire, Erase, handling, counts
<1>1. RequestsTypeOK'
  OBVIOUS
<1>2. Placed'
  BY DEF Placed
<1>3. Stored'
  BY DEF Stored
<1>4. Together'
  BY DEF Together
<1>5. Between'
  BY DEF Between
<1>6. NoImmortal'
  BY DEF NoImmortal
<1>7. LifetimeOfWriter'
  BY DEF LifetimeOfWriter
<1> QED
  BY <1>2, <1>3, <1>4, <1>5, <1>6, <1>7

LEMMA TransactionKeeps ==
  ASSUME RequestsInv, NEW r \in Calls, Transaction(r)
  PROVE  RequestsInv'
<1> USE NoneAssumption, TimesAssumption, KindsAssumption DEF RequestsInv, RequestsTypeOK, Transaction, Accept, GiveUp, FilterThrows, Retry, Goto, redis, counts
<1>1. RequestsTypeOK'
  BY DEF Positions, Busy, First, Placed
<1>2. Placed'
  BY DEF Placed, First, MayRetry
<1>3. Stored'
  BY DEF Placed, Stored, First
<1>4. Together'
  BY DEF Together, Writing
<1>5. Between'
  BY DEF Between, First, Placed
<1>6. NoImmortal'
  BY DEF NoImmortal, Returned, First
<1>7. LifetimeOfWriter'
  BY DEF LifetimeOfWriter, Returned, First
<1> QED
  BY <1>1, <1>2, <1>3, <1>4, <1>5, <1>6, <1>7

LEMMA RespondKeeps ==
  ASSUME RequestsInv, NEW r \in Calls, NEW how \in Countings, Respond(r, how)
  PROVE  RequestsInv'
<1> USE NoneAssumption, TimesAssumption, KindsAssumption DEF RequestsInv, RequestsTypeOK, Respond, Send, Over, Goto, redis, counts
<1>1. RequestsTypeOK'
  BY DEF Positions
<1>2. Placed'
  BY DEF Placed, Settled
<1>3. Stored'
  BY DEF Stored
<1>4. Together'
  BY DEF Together, Writing
<1>5. Between'
  BY DEF Between
<1>6. NoImmortal'
  BY DEF NoImmortal, Returned
<1>7. LifetimeOfWriter'
  BY DEF LifetimeOfWriter, Returned
<1> QED
  BY <1>1, <1>2, <1>3, <1>4, <1>5, <1>6, <1>7

LEMMA ResponseKeeps ==
  ASSUME RequestsInv, NEW r \in Calls, Miscount(r) \/ Strand(r) \/ Drop(r)
  PROVE  RequestsInv'
<1> USE NoneAssumption, TimesAssumption, KindsAssumption DEF RequestsInv, RequestsTypeOK, Miscount, Strand, Drop, Over, Goto, redis, counts
<1>1. RequestsTypeOK'
  BY DEF Positions, Busy
<1>2. Placed'
  BY DEF Placed, Settled
<1>3. Stored'
  BY DEF Stored
<1>4. Together'
  BY DEF Together, Writing
<1>5. Between'
  BY DEF Between
<1>6. NoImmortal'
  BY DEF NoImmortal, Returned
<1>7. LifetimeOfWriter'
  BY DEF LifetimeOfWriter, Returned
<1> QED
  BY <1>1, <1>2, <1>3, <1>4, <1>5, <1>6, <1>7

LEMMA ClientKeeps ==
  ASSUME RequestsInv, NEW r \in Calls, Abort(r)
  PROVE  RequestsInv'
<1> USE NoneAssumption, TimesAssumption, KindsAssumption DEF RequestsInv, RequestsTypeOK, Abort, handling, redis, counts
<1>1. RequestsTypeOK'
  OBVIOUS
<1>2. Placed'
  BY DEF Placed
<1>3. Stored'
  BY DEF Stored
<1>4. Together'
  BY DEF Together
<1>5. Between'
  BY DEF Between
<1>6. NoImmortal'
  BY DEF NoImmortal, Returned
<1>7. LifetimeOfWriter'
  BY DEF LifetimeOfWriter, Returned
<1> QED
  BY <1>2, <1>3, <1>4, <1>5, <1>6, <1>7

LEMMA StopKeeps ==
  ASSUME RequestsInv, Stop
  PROVE  RequestsInv'
<1> USE NoneAssumption, TimesAssumption, KindsAssumption DEF RequestsInv, RequestsTypeOK, Stop, redis, counts
<1>1. RequestsTypeOK'
  BY DEF Positions
<1>2. Placed'
  BY DEF Placed, Busy
<1>3. Stored'
  BY DEF Stored
<1>4. Together'
  BY DEF Together, Writing
<1>5. Between'
  BY DEF Between
<1>6. NoImmortal'
  BY DEF NoImmortal, Returned
<1>7. LifetimeOfWriter'
  BY DEF LifetimeOfWriter, Returned
<1> QED
  BY <1>1, <1>2, <1>3, <1>4, <1>5, <1>6, <1>7

LEMMA RequestsStutterKeeps ==
  ASSUME RequestsInv, UNCHANGED serving
  PROVE  RequestsInv'
<1> USE NoneAssumption, TimesAssumption, KindsAssumption DEF RequestsInv, RequestsTypeOK, serving, handling, redis, counts
<1>1. RequestsTypeOK'
  OBVIOUS
<1>2. Placed'
  BY DEF Placed
<1>3. Stored'
  BY DEF Stored
<1>4. Together'
  BY DEF Together
<1>5. Between'
  BY DEF Between
<1>6. NoImmortal'
  BY DEF NoImmortal, Returned
<1>7. LifetimeOfWriter'
  BY DEF LifetimeOfWriter, Returned
<1> QED
  BY <1>2, <1>3, <1>4, <1>5, <1>6, <1>7

-----------------------------------------------------------------------------
LEMMA NextRequestsInv == RequestsInv /\ [RequestsNext]_serving => RequestsInv'
<1> SUFFICES ASSUME RequestsInv, [RequestsNext]_serving PROVE RequestsInv'
  OBVIOUS
<1>1. CASE Expire \/ Stop
  BY <1>1, ExpireKeeps, StopKeeps
<1>2. CASE \E r \in Calls, k \in Kinds, f \in Filters : Arrive(r, k, f)
  BY <1>2, ArriveKeeps
<1>3. CASE \E r \in Calls : Store(r)
  BY <1>3, HmsetKeeps, PexpireKeeps, GetKeeps, DelKeeps DEF Store
<1>4. CASE \E r \in Calls : Transaction(r)
  BY <1>4, TransactionKeeps
<1>5. CASE \E r \in Calls : Abort(r) \/ Drop(r) \/ Miscount(r) \/ Strand(r)
  BY <1>5, ClientKeeps, ResponseKeeps
<1>6. CASE \E r \in Calls, how \in Countings : Respond(r, how)
  BY <1>6, RespondKeeps
<1>7. CASE UNCHANGED serving
  BY <1>7, RequestsStutterKeeps
<1> QED
  BY <1>1, <1>2, <1>3, <1>4, <1>5, <1>6, <1>7 DEF RequestsNext

LEMMA RequestsInductive == RequestsSpec => []RequestsInv
BY InitRequestsInv, NextRequestsInv, PTL DEF RequestsSpec

(***************************************************************************)
(* Every variable keeps to its range; no transaction makes more attempts   *)
(* than it may.                                                            *)
(***************************************************************************)
THEOREM RequestsTypes == RequestsSpec => []RequestsTypeOK
<1>1. RequestsInv => RequestsTypeOK
  BY DEF RequestsInv
<1> QED
  BY <1>1, RequestsInductive, PTL

(***************************************************************************)
(* setObjectByKey() that returned true left a lifetime with its object.    *)
(***************************************************************************)
THEOREM PutsExpire == RequestsSpec => []NoImmortal
<1>1. RequestsInv => NoImmortal
  BY DEF RequestsInv
<1> QED
  BY <1>1, RequestsInductive, PTL

(***************************************************************************)
(* An object with the lifetime of another put was written by one that was  *)
(* under way together with it.                                             *)
(***************************************************************************)
THEOREM LifetimesMix == RequestsSpec => []LifetimeOfWriter
<1>1. RequestsInv => LifetimeOfWriter
  BY DEF RequestsInv
<1> QED
  BY <1>1, RequestsInductive, PTL

=============================================================================
