------------------------- MODULE RateLimiterProofs --------------------------
(***************************************************************************)
(* Theorems about the rate limiter, for any routes, limits, workers and    *)
(* number of requests: who is let in, and what the headers say.            *)
(***************************************************************************)
EXTENDS RateLimiter, FiniteSetTheorems, TLAPS

-----------------------------------------------------------------------------
\* The inductive invariant.

Asking(q) == q.state \in {"checking", "consuming"}

Header == [limit : Nat, remaining : Int]
Entry == [at : Nat, points : Nat, remaining : Nat, passed : BOOLEAN]
Request == [state : {"new", "checking", "consuming", "admitted", "refused", "failed", "lost"},
            worker : Sources, route : Routes \cup {"none"}, at : Nat,
            header : Header, seen : Seq(Entry)]

\* What a request has seen: the parameters in order, which of those up to n
\* have been asked, and what the headers show of them.
InOrder(seen) == \A j, k \in DOMAIN seen : j < k => seen[j].at < seen[k].at
UpTo(seen, n) == \A k \in DOMAIN seen : seen[k].at <= n /\ seen[k].passed
Covers(seen, t, n) ==
    \A i \in DOMAIN Params[t] :
      i <= n /\ Params[t][i].id # NoId => \E k \in DOMAIN seen : seen[k].at = i

Shows(h, seen) ==
    LET declared == {k \in DOMAIN seen : seen[k].points # 0}
    IN  IF declared = {} THEN h = NoHeader
        ELSE \E k \in declared :
               /\ h = [limit |-> seen[k].points, remaining |-> seen[k].remaining]
               /\ \A j \in declared : seen[k].remaining <= seen[j].remaining

\* A request that is walking through the parameters of its route has passed
\* all those before the one it is at.
Walks(q) ==
    Asking(q) => /\ q.route \in Routes /\ q.at \in DOMAIN Params[q.route]
                 /\ UpTo(q.seen, q.at - 1)
                 /\ Covers(q.seen, q.route, q.at - 1)

Leaves(q) ==
    /\ q.state = "admitted" =>
         /\ Covers(q.seen, q.route, Len(Params[q.route]))
         /\ \A k \in DOMAIN q.seen : q.seen[k].passed
    /\ q.state = "refused" =>
         /\ DOMAIN q.seen # {}
         /\ \A k \in DOMAIN q.seen : q.seen[k].passed = (k < Len(q.seen))

Right(q) ==
    /\ q \in Request
    /\ q.state # "new" => q.route \in Routes
    /\ (q.worker \in Workers) = Asking(q)
    /\ q.state = "consuming" => Params[q.route][q.at].id \in Ids
    /\ InOrder(q.seen) /\ Shows(q.header, q.seen)
    /\ Walks(q) /\ Leaves(q)

RequestsRight ==
    /\ req \in [Requests -> Request]
    /\ \A r \in Requests : Right(req[r])

LimiterType == [points : Nat, duration : Nat, block : Nat]
WindowType == [used : Nat, left : Nat]

LimitersGood ==
    /\ limiters \in [Workers -> [Ids -> LimiterType]]
    /\ \A w \in Workers, i \in Ids :
         limiters[w][i] \in {None} \cup {Made(p) : p \in ParamsFor[i]}

WindowsGood ==
    /\ window \in [Sources -> [Ids -> WindowType]]
    /\ \A s \in Sources, i \in Ids :
         (window[s][i].used = 0) = (window[s][i].left = 0)

\* A request that waits for a limiter has made it, or found it.
Backed ==
    \A r \in Requests :
      req[r].state = "consuming" => limiters[req[r].worker][ParamOf(r).id] # None

StoreGood ==
    /\ {storeClient, connected, outage} \subseteq BOOLEAN
    /\ connected => storeClient
    /\ lost \in 0 .. MaxLost

IInv == StoreGood /\ LimitersGood /\ WindowsGood /\ RequestsRight /\ Backed

-----------------------------------------------------------------------------
\* Facts about the helpers of the module.

LEMMA ParamsAre ==
  ASSUME NEW t \in Routes
  PROVE  /\ Params[t] \in Seq(Param)
         /\ \A i \in DOMAIN Params[t] : Params[t][i] \in Param
BY RateLimiterAssumption

LEMMA MadeIs ==
  ASSUME NEW i \in Ids, NEW p \in ParamsFor[i]
  PROVE  /\ Made(p) \in LimiterType
         /\ Made(p).points > 0 /\ Made(p).duration > 0
<1>1. p \in Param
  BY ParamsAre DEF ParamsFor, ToSet
<1>2. /\ p.points \in Nat /\ p.duration \in Nat
      /\ Default.points \in Nat \ {0} /\ Default.duration \in Nat \ {0}
  BY <1>1, RateLimiterAssumption DEF Param
<1> QED
  BY <1>2 DEF Made, LimiterType

\* A limiter counts at least the point it is asked for.
LEMMA ChargedIs ==
  ASSUME NEW win \in WindowType, NEW lim \in LimiterType, lim.duration > 0
  PROVE  \A c \in {Counted(win, lim), Charged(win, lim)} :
           c \in WindowType /\ c.used > 0 /\ c.left > 0
BY DEF Charged, Counted, WindowType, LimiterType

\* The headers go on showing the tightest limiter when one more is asked.
LEMMA SetHeadersShows ==
  ASSUME NEW seen \in Seq(Entry), NEW h \in Header, NEW e \in Entry, Shows(h, seen)
  PROVE  /\ SetHeaders(h, e.points, e.remaining) \in Header
         /\ Shows(SetHeaders(h, e.points, e.remaining), Append(seen, e))
<1> DEFINE g == SetHeaders(h, e.points, e.remaining)
           after == Append(seen, e)
           n == Len(seen) + 1
<1>1. g \in Header
  BY DEF SetHeaders, Header, Entry
<1>2. /\ DOMAIN after = DOMAIN seen \cup {n} /\ n \notin DOMAIN seen
      /\ \A k \in DOMAIN seen : after[k] = seen[k] /\ seen[k] \in Entry
      /\ after[n] = e
  OBVIOUS
<1>3. CASE e.points = 0
  <2>1. g = h
    BY <1>3 DEF SetHeaders
  <2>2. {k \in DOMAIN after : after[k].points # 0} = {k \in DOMAIN seen : seen[k].points # 0}
    BY <1>3
  <2>3. Shows(g, after)
    BY <1>2, <2>1, <2>2 DEF Shows
  <2> QED
    BY <1>1, <2>3
<1>4. CASE e.points # 0 /\ {k \in DOMAIN seen : seen[k].points # 0} = {}
  <2>1. h = NoHeader
    BY <1>4 DEF Shows
  <2>2. g = [limit |-> e.points, remaining |-> e.remaining]
    BY <1>4, <2>1 DEF SetHeaders
  <2>3. {k \in DOMAIN after : after[k].points # 0} = {n} /\ after[n].remaining \in Nat
    BY <1>2, <1>4 DEF Entry
  <2> HIDE DEF g, after, n
  <2>4. Shows(g, after)
    BY <1>2, <2>2, <2>3 DEF Shows
  <2> QED
    BY <1>1, <2>4 DEF g, after
<1>5. CASE e.points # 0 /\ {k \in DOMAIN seen : seen[k].points # 0} # {}
  <2>1. PICK k \in DOMAIN seen :
          /\ seen[k].points # 0
          /\ h = [limit |-> seen[k].points, remaining |-> seen[k].remaining]
          /\ \A j \in DOMAIN seen :
               seen[j].points # 0 => seen[k].remaining <= seen[j].remaining
    BY <1>5 DEF Shows
  <2>2. \A j \in DOMAIN after : after[j].remaining \in Nat
    BY <1>2 DEF Entry
  <2>3. h # NoHeader /\ h.remaining = seen[k].remaining
    BY <2>1 DEF NoHeader
  <2>4. CASE h.remaining < e.remaining
    <3>1. g = h
      BY <2>3, <2>4 DEF SetHeaders
    <3>2. \A j \in DOMAIN after :
            after[j].points # 0 => after[k].remaining <= after[j].remaining
      BY <2>1, <2>2, <2>4
    <3> QED
      BY <1>2, <2>1, <3>1, <3>2 DEF Shows
  <2>5. CASE ~ (h.remaining < e.remaining)
    <3>1. g = [limit |-> e.points, remaining |-> e.remaining]
      BY <1>5, <2>5 DEF SetHeaders
    <3>2. \A j \in DOMAIN after :
            after[j].points # 0 => after[n].remaining <= after[j].remaining
      BY <2>1, <2>2, <2>5
    <3> QED
      BY <1>1, <1>2, <1>5, <3>1, <3>2 DEF Shows
  <2> QED
    BY <2>4, <2>5
<1> HIDE DEF g, after
<1> QED
  BY <1>3, <1>4, <1>5

\* A request that has passed the parameter it is at goes on to the next, or
\* is let in.
LEMMA ProceedRight ==
  ASSUME NEW q \in Request, Asking(q), q.worker \in Workers,
         q.route \in Routes, q.at \in DOMAIN Params[q.route],
         InOrder(q.seen), Shows(q.header, q.seen),
         UpTo(q.seen, q.at), Covers(q.seen, q.route, q.at)
  PROVE  Right(Proceed(q)) /\ Proceed(q).state # "consuming"
<1>1. Params[q.route] \in Seq(Param) /\ q.at \in Nat
  BY ParamsAre
<1>2. CASE q.at < Len(Params[q.route])
  <2> DEFINE p == [q EXCEPT !.state = "checking", !.at = @ + 1]
  <2>1. q.at + 1 \in Nat
    BY <1>1
  <2>2. /\ p \in Request /\ p.state = "checking" /\ p.at = q.at + 1
        /\ p.worker = q.worker /\ p.route = q.route
        /\ p.seen = q.seen /\ p.header = q.header
    BY <2>1 DEF Request
  <2>3. p.at \in DOMAIN Params[p.route] /\ p.at - 1 = q.at
    BY <1>2
  <2> HIDE DEF p
  <2>4. Right(p)
    BY <2>2, <2>3 DEF Right, Walks, Leaves, Asking
  <2> QED
    BY <1>2, <2>4 DEF Proceed, p
<1>3. CASE ~ (q.at < Len(Params[q.route]))
  <2> DEFINE p == End(q, "admitted")
  <2>1. p \in Request /\ p.state = "admitted" /\ p.worker = Store
        /\ p.route = q.route /\ p.seen = q.seen /\ p.header = q.header
    BY DEF Request, End, Sources
  <2>2. q.at = Len(Params[q.route])
    BY <1>3
  <2>3. Store \notin Workers
    BY RateLimiterAssumption DEF Store
  <2> HIDE DEF p
  <2>4. Leaves(p)
    BY <2>1, <2>2 DEF Leaves, UpTo
  <2>5. Right(p)
    BY <2>1, <2>3, <2>4 DEF Right, Walks, Asking
  <2> QED
    BY <1>3, <2>1, <2>5 DEF Proceed, p
<1> QED
  BY <1>2, <1>3

\* A request that is over keeps what it saw.
LEMMA EndRight ==
  ASSUME NEW q, Right(q), q.state # "new", NEW state \in {"failed", "lost"}
  PROVE  Right(End(q, state)) /\ End(q, state).state = state
<1> DEFINE p == End(q, state)
<1>1. p \in Request /\ p.state = state /\ p.worker = Store
      /\ p.route = q.route /\ p.seen = q.seen /\ p.header = q.header
  BY DEF Right, Request, End, Sources
<1>2. Store \notin Workers
  BY RateLimiterAssumption DEF Store
<1> HIDE DEF p
<1>3. Right(p)
  BY <1>1, <1>2 DEF Right, Walks, Leaves, Asking
<1> QED
  BY <1>1, <1>3 DEF p

\* A step of one request.
LEMMA OneRequest ==
  ASSUME RequestsRight, Backed, NEW r \in Requests, NEW q, Right(q),
         q.state # "consuming", req' = [req EXCEPT ![r] = q], UNCHANGED limiters
  PROVE  RequestsRight' /\ Backed'
<1>1. q \in Request
  BY DEF Right
<1>2. RequestsRight'
  BY <1>1 DEF RequestsRight
<1>3. \A x \in Requests : req'[x] = IF x = r THEN q ELSE req[x]
  BY DEF RequestsRight
<1> QED
  BY <1>2, <1>3 DEF Backed, ParamOf

-----------------------------------------------------------------------------
LEMMA UnbornIs ==
  /\ Unborn \in Request /\ Right(Unborn) /\ Unborn.state = "new"
  /\ Unborn.at = 1 /\ Unborn.seen = <<>> /\ Unborn.header = NoHeader
BY RateLimiterAssumption DEF Unborn, Right, Request, Header, NoHeader, Sources, Store,
   Asking, InOrder, Shows, Walks, Leaves

LEMMA InitIInv == Init => IInv
<1> SUFFICES ASSUME Init PROVE IInv
  OBVIOUS
<1>1. StoreGood
  <2>1. lost \in 0 .. MaxLost
    BY RateLimiterAssumption DEF Init
  <2>2. {storeClient, connected, outage} \subseteq BOOLEAN /\ (connected => storeClient)
    BY DEF Init
  <2> QED
    BY <2>1, <2>2 DEF StoreGood
<1>2. LimitersGood /\ WindowsGood
  BY DEF Init, LimitersGood, WindowsGood, LimiterType, WindowType, None, Empty
<1>3. RequestsRight /\ Backed
  BY UnbornIs DEF Init, RequestsRight, Backed
<1> QED
  BY <1>1, <1>2, <1>3 DEF IInv

LEMMA ArriveKeeps ==
  ASSUME IInv, NEW r \in Requests, NEW w \in Workers, NEW t \in Routes, Arrive(r, w, t)
  PROVE  IInv'
<1> DEFINE q == [Unborn EXCEPT !.state = "checking", !.worker = w, !.route = t]
           p == IF Params[t] = <<>> THEN End(q, "admitted") ELSE q
<1>1. /\ q \in Request /\ q.state = "checking" /\ q.worker = w /\ q.route = t
      /\ q.at = 1 /\ q.seen = <<>> /\ q.header = NoHeader
  BY UnbornIs DEF Request, Sources
<1>2. Params[t] \in Seq(Param)
  BY ParamsAre
<1>3. Right(p) /\ p.state # "consuming"
  <2> HIDE DEF q
  <2>1. CASE Params[t] = <<>>
    <3>1. /\ p \in Request /\ p.state = "admitted" /\ p.worker = Store /\ p.route = t
          /\ p.seen = <<>> /\ p.header = NoHeader
      BY <1>1, <2>1 DEF End, Request, Sources
    <3>2. Store \notin Workers
      BY RateLimiterAssumption DEF Store
    <3> HIDE DEF p
    <3> QED
      BY <2>1, <3>1, <3>2 DEF Right, Asking, InOrder, Shows, Walks, Leaves, Covers
  <2>2. CASE Params[t] # <<>>
    <3>1. 1 \in DOMAIN Params[t]
      BY <1>2, <2>2
    <3>2. Covers(<<>>, t, 1 - 1)
      BY <1>2 DEF Covers
    <3>3. Right(q)
      BY <1>1, <3>1, <3>2 DEF Right, Asking, InOrder, Shows, Walks, Leaves, UpTo
    <3> QED
      BY <1>1, <2>2, <3>3
  <2> QED
    BY <2>1, <2>2
<1>4. req' = [req EXCEPT ![r] = p]
  BY DEF Arrive
<1> HIDE DEF p
<1>5. RequestsRight' /\ Backed'
  BY <1>3, <1>4, OneRequest DEF Arrive, IInv
<1> QED
  BY <1>5 DEF Arrive, IInv, StoreGood, LimitersGood, WindowsGood

-----------------------------------------------------------------------------
\* The walk through the parameters.

\* Where a request is that walks.
LEMMA WalkerIs ==
  ASSUME RequestsRight, NEW r \in Requests, Asking(req[r])
  PROVE  /\ Right(req[r]) /\ req[r] \in Request
         /\ req[r].worker \in Workers /\ req[r].route \in Routes
         /\ req[r].at \in DOMAIN Params[req[r].route]
         /\ req[r].at \in Nat
         /\ ParamOf(r) \in Param
<1>1. Right(req[r]) /\ req[r] \in Request
  BY DEF RequestsRight
<1>2. /\ req[r].worker \in Workers /\ req[r].route \in Routes
      /\ req[r].at \in DOMAIN Params[req[r].route] /\ req[r].at \in Nat
  BY <1>1 DEF Right, Walks, Request
<1>3. ParamOf(r) \in Param
  BY <1>2, ParamsAre DEF ParamOf
<1> QED
  BY <1>1, <1>2, <1>3

\* A parameter without an id limits nothing.
LEMMA SkipKeeps ==
  ASSUME IInv, NEW r \in Requests, req[r].state = "checking", ParamOf(r).id = NoId,
         req' = [req EXCEPT ![r] = Proceed(@)], UNCHANGED limiters
  PROVE  RequestsRight' /\ Backed'
<1> DEFINE q == req[r]
<1>1. /\ Asking(q) /\ Right(q) /\ q \in Request /\ q.worker \in Workers
      /\ q.route \in Routes /\ q.at \in DOMAIN Params[q.route] /\ q.at \in Nat
  BY WalkerIs DEF IInv, Asking
<1>2. Params[q.route][q.at].id = NoId
  BY DEF ParamOf
<1> HIDE DEF q
<1>3. UpTo(q.seen, q.at - 1) /\ Covers(q.seen, q.route, q.at - 1)
      /\ InOrder(q.seen) /\ Shows(q.header, q.seen)
  BY <1>1 DEF Right, Walks
<1>4. \A k \in DOMAIN q.seen : q.seen[k].at \in Nat
  <2>1. q.seen \in Seq(Entry)
    BY <1>1 DEF Request
  <2>2. \A k \in DOMAIN q.seen : q.seen[k] \in Entry
    BY <2>1
  <2> QED
    BY <2>2 DEF Entry
<1>5. UpTo(q.seen, q.at)
  BY <1>1, <1>3, <1>4 DEF UpTo
<1>6. Params[q.route] \in Seq(Param)
  BY <1>1, ParamsAre
<1>7. Covers(q.seen, q.route, q.at)
  BY <1>1, <1>2, <1>3, <1>6 DEF Covers
<1>8. Right(Proceed(q)) /\ Proceed(q).state # "consuming"
  BY <1>1, <1>3, <1>5, <1>7, ProceedRight
<1> QED
  BY <1>8, OneRequest DEF IInv, q

\* The limiter of a parameter with an id is there, old or new.
LEMMA EnsureIs ==
  ASSUME LimitersGood, WindowsGood, NEW w \in Workers, NEW p \in Param,
         p.id \in Ids, p \in ParamsFor[p.id], Ensure(w, p)
  PROVE  /\ LimitersGood' /\ WindowsGood'
         /\ limiters'[w][p.id] # None
         /\ \A v \in Workers, i \in Ids : limiters[v][i] # None => limiters'[v][i] = limiters[v][i]
<1>1. CASE limiters[w][p.id] # None
  BY <1>1 DEF Ensure, LimitersGood, WindowsGood
<1>2. CASE limiters[w][p.id] = None
  <2>1. /\ limiters' = [limiters EXCEPT ![w][p.id] = Made(p)]
        /\ window' = [window EXCEPT ![w][p.id] = Empty]
    BY <1>2 DEF Ensure
  <2>2. Made(p) \in LimiterType /\ Made(p).points > 0 /\ None.points = 0
    BY MadeIs DEF None
  <2>3. Empty \in WindowType /\ Empty.used = 0 /\ Empty.left = 0 /\ w \in Sources
    BY DEF Empty, WindowType, Sources
  <2>4. /\ \A v \in Workers, i \in Ids :
             limiters'[v][i] = IF v = w /\ i = p.id THEN Made(p) ELSE limiters[v][i]
        /\ limiters' \in [Workers -> [Ids -> LimiterType]]
    BY <2>1, <2>2 DEF LimitersGood
  <2>5. /\ \A s \in Sources, i \in Ids :
             window'[s][i] = IF s = w /\ i = p.id THEN Empty ELSE window[s][i]
        /\ window' \in [Sources -> [Ids -> WindowType]]
    BY <2>1, <2>3 DEF WindowsGood
  <2>6. Made(p) # None
    BY <2>2
  <2>7. LimitersGood'
    BY <2>4 DEF LimitersGood
  <2>8. WindowsGood'
    BY <2>3, <2>5 DEF WindowsGood
  <2> QED
    BY <1>2, <2>4, <2>6, <2>7, <2>8
<1> QED
  BY <1>1, <1>2

LEMMA CheckKeeps ==
  ASSUME IInv, NEW r \in Requests, Check(r)
  PROVE  IInv'
<1> DEFINE q == req[r]
<1>1. /\ Asking(q) /\ Right(q) /\ q \in Request /\ q.worker \in Workers
      /\ q.route \in Routes /\ q.at \in DOMAIN Params[q.route] /\ q.at \in Nat
      /\ ParamOf(r) \in Param /\ q.state = "checking"
  BY WalkerIs DEF Check, IInv, Asking
<1>2. StoreGood'
  BY DEF Check, IInv, StoreGood
<1>3. CASE ParamOf(r).id = NoId
  <2>1. ParamOf(r).id \notin Ids /\ ParamOf(r).id # Throws
    BY <1>3, RateLimiterAssumption DEF NoId, Throws
  <2>2. req' = [req EXCEPT ![r] = Proceed(@)] /\ UNCHANGED <<limiters, window>>
    BY <2>1 DEF Check
  <2>3. RequestsRight' /\ Backed'
    BY <1>1, <1>3, <2>2, SkipKeeps
  <2> QED
    BY <1>2, <2>2, <2>3 DEF IInv, LimitersGood, WindowsGood
<1>4. CASE ParamOf(r).id = Throws
  <2>1. ParamOf(r).id \notin Ids /\ ParamOf(r).id # NoId
    BY <1>4, RateLimiterAssumption DEF NoId, Throws
  <2>2. req' = [req EXCEPT ![r] = End(@, "failed")] /\ UNCHANGED <<limiters, window>>
    BY <2>1 DEF Check
  <2>3. Right(End(q, "failed")) /\ End(q, "failed").state = "failed"
    BY <1>1, EndRight
  <2>4. RequestsRight' /\ Backed'
    BY <2>2, <2>3, OneRequest DEF IInv
  <2> QED
    BY <1>2, <2>2, <2>4 DEF IInv, LimitersGood, WindowsGood
<1>5. CASE ParamOf(r).id \in Ids
  <2>1. ParamOf(r).id # NoId /\ ParamOf(r).id # Throws
    BY <1>5, RateLimiterAssumption
  <2>2. Ensure(q.worker, ParamOf(r)) /\ req' = [req EXCEPT ![r].state = "consuming"]
    BY <2>1 DEF Check
  <2>3. ParamOf(r) \in ParamsFor[ParamOf(r).id]
    BY <1>1, <1>5 DEF ParamsFor, ToSet, ParamOf
  <2>4. /\ LimitersGood' /\ WindowsGood'
        /\ limiters'[q.worker][ParamOf(r).id] # None
        /\ \A v \in Workers, i \in Ids :
             limiters[v][i] # None => limiters'[v][i] = limiters[v][i]
    BY <1>1, <1>5, <2>2, <2>3, EnsureIs DEF IInv
  <2> DEFINE p == [q EXCEPT !.state = "consuming"]
  <2>5. /\ p \in Request /\ p.state = "consuming" /\ p.worker = q.worker /\ p.route = q.route
        /\ p.at = q.at /\ p.seen = q.seen /\ p.header = q.header
    BY <1>1 DEF Request
  <2>6. req' = [req EXCEPT ![r] = p]
    BY <2>2
  <2>7. Params[q.route][q.at].id \in Ids
    BY <1>5 DEF ParamOf
  <2> HIDE DEF p
  <2>8. Right(p)
    <3> HIDE DEF q
    <3> QED
      BY <1>1, <2>5, <2>7 DEF Right, Asking, Walks, Leaves
  <2>9. \A x \in Requests : req'[x] = IF x = r THEN p ELSE req[x]
    BY <2>6 DEF IInv, RequestsRight
  <2>10. RequestsRight'
    BY <2>5, <2>6, <2>8 DEF IInv, RequestsRight
  <2>11. Backed'
    <3> SUFFICES ASSUME NEW x \in Requests, req'[x].state = "consuming"
                 PROVE  limiters'[req'[x].worker][Params[req'[x].route][req'[x].at].id] # None
      BY DEF Backed, ParamOf
    <3>1. CASE x = r
      BY <2>4, <2>5, <2>9, <3>1 DEF ParamOf
    <3>2. CASE x # r
      <4>1. req'[x] = req[x] /\ Asking(req[x])
        BY <2>9, <3>2 DEF Asking
      <4>2. req[x].worker \in Workers /\ ParamOf(x).id \in Ids
        BY <4>1, WalkerIs DEF IInv, Right, ParamOf
      <4>3. limiters[req[x].worker][ParamOf(x).id] # None
        BY <4>1 DEF IInv, Backed
      <4> QED
        BY <2>4, <4>1, <4>2, <4>3 DEF ParamOf
    <3> QED
      BY <3>1, <3>2
  <2> QED
    BY <1>2, <2>4, <2>10, <2>11 DEF IInv
<1> QED
  BY <1>3, <1>4, <1>5 DEF Check

-----------------------------------------------------------------------------
\* The answers of the limiters.

\* The limiter a request waits for.
LEMMA LimiterIs ==
  ASSUME IInv, NEW r \in Requests, req[r].state = "consuming"
  PROVE  /\ ParamOf(r).id \in Ids
         /\ limiters[req[r].worker][ParamOf(r).id] \in LimiterType
         /\ limiters[req[r].worker][ParamOf(r).id].duration > 0
<1>1. req[r].worker \in Workers /\ ParamOf(r).id \in Ids
  BY WalkerIs DEF IInv, Asking, Right, ParamOf
<1>2. PICK p \in ParamsFor[ParamOf(r).id] :
         limiters[req[r].worker][ParamOf(r).id] = Made(p)
  BY <1>1 DEF IInv, Backed, LimitersGood
<1> QED
  BY <1>1, <1>2, MadeIs

\* A point more in one window keeps the windows good.
LEMMA WindowCharged ==
  ASSUME WindowsGood, NEW s \in Sources, NEW i \in Ids, NEW lim \in LimiterType,
         lim.duration > 0,
         NEW win \in {Counted(window[s][i], lim), Charged(window[s][i], lim)},
         window' = [window EXCEPT ![s][i] = win]
  PROVE  WindowsGood'
<1>1. win \in WindowType /\ win.used > 0 /\ win.left > 0
  BY ChargedIs DEF WindowsGood
<1>2. \A x \in Sources, y \in Ids :
         window'[x][y] = IF x = s /\ y = i THEN win ELSE window[x][y]
  BY DEF WindowsGood
<1> QED
  BY <1>1, <1>2 DEF WindowsGood

\* The answer is noted, and lets the request go on or refuses it.
LEMMA AnsweredRight ==
  ASSUME RequestsRight, NEW r \in Requests, req[r].state = "consuming",
         NEW lim \in LimiterType, NEW win \in WindowType
  PROVE  Right(Answered(r, lim, win)) /\ Answered(r, lim, win).state # "consuming"
<1> DEFINE o == req[r]
           p == ParamOf(r)
           remaining == IF win.used < lim.points THEN lim.points - win.used ELSE 0
           e == [at |-> o.at, points |-> p.points, remaining |-> remaining,
                 passed |-> win.used <= lim.points]
           header == SetHeaders(o.header, p.points, remaining)
           seen == Append(o.seen, e)
           q == [o EXCEPT !.header = header, !.seen = seen]
<1>1. /\ Right(o) /\ o \in Request /\ o.worker \in Workers /\ o.route \in Routes
      /\ o.at \in DOMAIN Params[o.route] /\ o.at \in Nat /\ p \in Param
      /\ o.state = "consuming"
  BY WalkerIs DEF Asking
<1>2. /\ e \in Entry /\ e.at = o.at /\ e.points = p.points /\ e.remaining = remaining
      /\ e.passed = (win.used <= lim.points)
  BY <1>1 DEF Entry, Param, LimiterType, WindowType
<1>3. Answered(r, lim, win) =
         IF win.used <= lim.points THEN Proceed(q) ELSE End(q, "refused")
  BY DEF Answered
<1> HIDE DEF o, p, e
<1>4. o.seen \in Seq(Entry) /\ o.header \in Header
  BY <1>1 DEF Request
<1>5. header \in Header /\ Shows(header, seen)
  BY <1>1, <1>2, <1>4, SetHeadersShows DEF Right
<1>6. /\ seen \in Seq(Entry) /\ Len(seen) = Len(o.seen) + 1
      /\ DOMAIN seen = DOMAIN o.seen \cup {Len(seen)}
      /\ seen[Len(seen)] = e
      /\ \A k \in DOMAIN o.seen : /\ seen[k] = o.seen[k] /\ o.seen[k].at \in Nat
                                  /\ k < Len(seen)
  <2>1. \A k \in DOMAIN o.seen : o.seen[k] \in Entry
    BY <1>4
  <2>2. \A k \in DOMAIN o.seen : o.seen[k].at \in Nat
    BY <2>1 DEF Entry
  <2> QED
    BY <1>2, <1>4, <2>2
<1> HIDE DEF header, seen, remaining
<1>7. UpTo(o.seen, o.at - 1) /\ Covers(o.seen, o.route, o.at - 1) /\ InOrder(o.seen)
  BY <1>1 DEF Right, Walks
<1>8. \A k \in DOMAIN o.seen : o.seen[k].at < o.at /\ o.seen[k].passed
  BY <1>1, <1>6, <1>7 DEF UpTo
<1>9. InOrder(seen)
  BY <1>2, <1>6, <1>7, <1>8 DEF InOrder
<1>10. Covers(seen, o.route, o.at)
  <2>1. Params[o.route] \in Seq(Param)
    BY <1>1, ParamsAre
  <2>2. SUFFICES ASSUME NEW i \in DOMAIN Params[o.route], i <= o.at,
                        Params[o.route][i].id # NoId
                 PROVE  \E k \in DOMAIN seen : seen[k].at = i
    BY DEF Covers
  <2>3. i = o.at \/ i <= o.at - 1
    BY <1>1, <2>1, <2>2
  <2>4. CASE i = o.at
    BY <1>2, <1>6, <2>4
  <2>5. CASE i <= o.at - 1
    BY <1>6, <1>7, <2>2, <2>5 DEF Covers
  <2> QED
    BY <2>3, <2>4, <2>5
<1>11. /\ q \in Request /\ q.state = "consuming" /\ q.worker = o.worker
       /\ q.route = o.route /\ q.at = o.at /\ q.seen = seen /\ q.header = header
  BY <1>1, <1>5, <1>6 DEF Request
<1> HIDE DEF q
<1>12. CASE win.used <= lim.points
  <2>1. UpTo(seen, o.at)
    <3>1. e.passed
      BY <1>2, <1>12
    <3> SUFFICES ASSUME NEW k \in DOMAIN seen
                 PROVE  seen[k].at <= o.at /\ seen[k].passed
      BY DEF UpTo
    <3>2. CASE k \in DOMAIN o.seen
      <4>1. seen[k] = o.seen[k] /\ o.seen[k].at < o.at /\ o.seen[k].passed
        BY <1>6, <1>8, <3>2
      <4>2. o.seen[k].at \in Nat
        BY <1>6, <3>2
      <4> QED
        BY <1>1, <4>1, <4>2
    <3>3. CASE k = Len(seen)
      BY <1>1, <1>2, <1>6, <3>1, <3>3
    <3> QED
      BY <1>6, <3>2, <3>3
  <2>2. Right(Proceed(q)) /\ Proceed(q).state # "consuming"
    BY <1>1, <1>5, <1>9, <1>10, <1>11, <2>1, ProceedRight DEF Asking
  <2> QED
    BY <1>3, <1>12, <2>2
<1>13. CASE ~ (win.used <= lim.points)
  <2> DEFINE x == End(q, "refused")
  <2>1. /\ x \in Request /\ x.state = "refused" /\ x.worker = Store
        /\ x.route = q.route /\ x.seen = seen /\ x.header = header
    BY <1>11 DEF Request, End, Sources
  <2>2. Store \notin Workers
    BY RateLimiterAssumption DEF Store
  <2> HIDE DEF x
  <2>3. \A k \in DOMAIN seen : seen[k].passed = (k < Len(seen))
    <3> SUFFICES ASSUME NEW k \in DOMAIN seen PROVE seen[k].passed = (k < Len(seen))
      OBVIOUS
    <3>1. CASE k \in DOMAIN o.seen
      <4>1. seen[k].passed /\ k < Len(seen) /\ seen[k].passed \in BOOLEAN
        BY <1>6, <1>8, <3>1
      <4> QED
        BY <4>1
    <3>2. CASE k = Len(seen)
      <4>1. e.passed = FALSE
        <5>1. ~ e.passed
          BY <1>2, <1>13
        <5> QED
          BY <5>1
      <4>2. seen[k] = e
        BY <1>6, <3>2
      <4>3. ~ (k < Len(seen))
        BY <3>2
      <4>4. (k < Len(seen)) = FALSE
        BY <4>3
      <4>5. seen[k].passed = FALSE
        BY <4>1, <4>2
      <4> QED
        BY <4>4, <4>5
    <3> QED
      BY <1>6, <3>1, <3>2
  <2>4. Leaves(x)
    BY <1>6, <2>1, <2>3 DEF Leaves
  <2>5. Right(x)
    BY <1>1, <1>5, <1>9, <1>11, <2>1, <2>2, <2>4 DEF Right, Walks, Asking
  <2> QED
    BY <1>3, <1>13, <2>1, <2>5 DEF x
<1> QED
  BY <1>12, <1>13

LEMMA ConsumeKeeps ==
  ASSUME IInv, NEW r \in Requests, Consume(r)
  PROVE  IInv'
<1> DEFINE w == req[r].worker
           i == ParamOf(r).id
           lim == limiters[w][i]
<1>1. req[r].state = "consuming" /\ UNCHANGED <<storeClient, connected, outage, lost, limiters>>
  BY DEF Consume
<1>2. i \in Ids /\ lim \in LimiterType /\ lim.duration > 0
  BY <1>1, LimiterIs
<1>3. w \in Workers
  BY <1>1, WalkerIs DEF IInv, Asking
<1>4. PICK s \in SourceOf(w) :
         /\ window' = [window EXCEPT ![s][i] = Charged(window[s][i], lim)]
         /\ req' = [req EXCEPT ![r] = Answered(r, lim, Charged(window[s][i], lim))]
  BY DEF Consume
<1>5. s \in Sources
  BY <1>3 DEF SourceOf, Sources
<1>6. Charged(window[s][i], lim) \in WindowType
  BY <1>2, <1>5, ChargedIs DEF IInv, WindowsGood
<1> HIDE DEF w, i, lim
<1>7. WindowsGood'
  BY <1>2, <1>4, <1>5, WindowCharged DEF IInv
<1>8. RequestsRight' /\ Backed'
  BY <1>1, <1>2, <1>4, <1>6, AnsweredRight, OneRequest DEF IInv
<1> QED
  BY <1>1, <1>7, <1>8 DEF IInv, StoreGood, LimitersGood

LEMMA ReplyLostKeeps ==
  ASSUME IInv, NEW r \in Requests, ReplyLost(r)
  PROVE  IInv'
<1> DEFINE i == ParamOf(r).id
           lim == limiters[req[r].worker][i]
<1>1. /\ req[r].state = "consuming" /\ lost' = lost + 1 /\ lost < MaxLost
      /\ UNCHANGED <<storeClient, connected, outage, limiters, req>>
  BY DEF ReplyLost
<1>2. i \in Ids /\ lim \in LimiterType /\ lim.duration > 0 /\ Store \in Sources
  BY <1>1, LimiterIs DEF Sources
<1>3. window' = [window EXCEPT ![Store][i] = Counted(window[Store][i], lim)]
  BY DEF ReplyLost
<1> HIDE DEF i, lim
<1>4. WindowsGood'
  BY <1>2, <1>3, WindowCharged DEF IInv
<1>5. StoreGood'
  BY <1>1, RateLimiterAssumption DEF IInv, StoreGood
<1> QED
  BY <1>1, <1>4, <1>5 DEF IInv, LimitersGood, RequestsRight, Backed, ParamOf

-----------------------------------------------------------------------------
\* The environment.

LEMMA StoreChanges ==
  ASSUME IInv, StoreFails \/ StoreReturns
  PROVE  IInv'
<1>1. StoreGood'
  <2>1. lost' \in 0 .. MaxLost
    BY DEF IInv, StoreGood, StoreFails, StoreReturns
  <2>2. {storeClient, connected, outage}' \subseteq BOOLEAN /\ (connected => storeClient)'
    BY DEF IInv, StoreGood, StoreFails, StoreReturns
  <2> QED
    BY <2>1, <2>2 DEF StoreGood
<1> QED
  BY <1>1 DEF IInv, LimitersGood, WindowsGood, RequestsRight, Backed, ParamOf,
     StoreFails, StoreReturns

LEMMA ReplaceKeeps ==
  ASSUME IInv, NEW w \in Workers, Replace(w)
  PROVE  IInv'
<1>1. None \in LimiterType /\ Empty \in WindowType /\ Empty.used = 0 /\ Empty.left = 0
      /\ w \in Sources
  BY DEF None, Empty, LimiterType, WindowType, Sources
<1>2. /\ \A v \in Workers, i \in Ids :
           limiters'[v][i] = IF v = w THEN None ELSE limiters[v][i]
      /\ limiters' \in [Workers -> [Ids -> LimiterType]]
  BY <1>1 DEF Replace, IInv, LimitersGood
<1>3. LimitersGood'
  BY <1>2 DEF IInv, LimitersGood
<1>4. /\ \A s \in Sources, i \in Ids :
           window'[s][i] = IF s = w THEN Empty ELSE window[s][i]
      /\ window' \in [Sources -> [Ids -> WindowType]]
  BY <1>1 DEF Replace, IInv, WindowsGood
<1>5. WindowsGood'
  BY <1>1, <1>4 DEF IInv, WindowsGood
<1>6. \A r \in Requests :
         /\ Right(req'[r])
         /\ req'[r].state = "consuming" => req'[r] = req[r] /\ req[r].worker # w
  <2> TAKE r \in Requests
  <2>1. Right(req[r])
    BY DEF IInv, RequestsRight
  <2>2. CASE req[r].worker = w
    <3>1. req[r].state # "new"
      BY <2>1, <2>2 DEF Right, Asking
    <3>2. Right(End(req[r], "lost")) /\ End(req[r], "lost").state = "lost"
      BY <2>1, <3>1, EndRight
    <3> QED
      BY <2>2, <3>2 DEF Replace
  <2>3. CASE req[r].worker # w
    BY <2>1, <2>3 DEF Replace
  <2> QED
    BY <2>2, <2>3
<1>7. RequestsRight'
  BY <1>6 DEF Replace, RequestsRight, Right
<1>8. Backed'
  <2> SUFFICES ASSUME NEW r \in Requests, req'[r].state = "consuming"
               PROVE  limiters'[req'[r].worker][Params[req'[r].route][req'[r].at].id] # None
    BY DEF Backed, ParamOf
  <2>1. req'[r] = req[r] /\ req[r].worker # w /\ req[r].state = "consuming"
    BY <1>6
  <2>2. req[r].worker \in Workers /\ ParamOf(r).id \in Ids
    BY <2>1, WalkerIs DEF IInv, Asking, Right, ParamOf
  <2>3. limiters[req[r].worker][ParamOf(r).id] # None
    BY <2>1 DEF IInv, Backed
  <2>4. limiters'[req[r].worker][ParamOf(r).id] = limiters[req[r].worker][ParamOf(r).id]
    BY <1>2, <2>1, <2>2
  <2> QED
    BY <2>1, <2>3, <2>4 DEF ParamOf
<1> QED
  BY <1>3, <1>5, <1>7, <1>8 DEF Replace, IInv, StoreGood

LEMMA TickKeeps ==
  ASSUME IInv, Tick
  PROVE  IInv'
<1>1. \A s \in Sources, i \in Ids :
         /\ window'[s][i] = IF window[s][i].left <= 1 THEN Empty
                            ELSE [window[s][i] EXCEPT !.left = @ - 1]
         /\ window[s][i] \in WindowType
         /\ (window[s][i].used = 0) = (window[s][i].left = 0)
  BY DEF Tick, IInv, WindowsGood
<1>2. \A s \in Sources, i \in Ids :
         /\ window'[s][i] \in WindowType
         /\ (window'[s][i].used = 0) = (window'[s][i].left = 0)
  <2> TAKE s \in Sources, i \in Ids
  <2>1. window[s][i] \in WindowType /\ (window[s][i].used = 0 <=> window[s][i].left = 0)
    BY DEF IInv, WindowsGood
  <2>2. CASE window[s][i].left <= 1
    <3>1. window'[s][i] = Empty
      BY <1>1, <2>2
    <3> QED
      BY <3>1 DEF Empty, WindowType
  <2>3. CASE ~ (window[s][i].left <= 1)
    <3>1. window'[s][i] = [window[s][i] EXCEPT !.left = @ - 1]
      BY <1>1, <2>3
    <3>2. /\ window[s][i] \in WindowType /\ window[s][i].left - 1 \in Nat \ {0}
          /\ window[s][i].used # 0
      BY <2>1, <2>3 DEF WindowType
    <3>3. /\ window'[s][i] \in WindowType
          /\ window'[s][i].left # 0 /\ window'[s][i].used # 0
      BY <3>1, <3>2 DEF WindowType
    <3> QED
      BY <3>3
  <2> QED
    BY <2>2, <2>3
<1>3. window' \in [Sources -> [Ids -> WindowType]]
  BY <1>2 DEF Tick
<1>4. WindowsGood'
  BY <1>2, <1>3 DEF WindowsGood
<1> QED
  BY <1>4 DEF Tick, IInv, StoreGood, LimitersGood, RequestsRight, Backed, ParamOf

LEMMA NextIInv == IInv /\ [Next]_vars => IInv'
<1> SUFFICES ASSUME IInv, [Next]_vars PROVE IInv'
  OBVIOUS
<1>1. ASSUME NEW r \in Requests, Guard(r) PROVE IInv'
  BY <1>1, ArriveKeeps, CheckKeeps DEF Guard
<1>2. ASSUME NEW r \in Requests, Limiter(r) PROVE IInv'
  BY <1>2, ConsumeKeeps, ReplyLostKeeps DEF Limiter
<1>3. CASE Environment
  BY <1>3, StoreChanges, ReplaceKeeps, TickKeeps DEF Environment
<1>4. CASE UNCHANGED vars
  BY <1>4 DEF vars, IInv, StoreGood, LimitersGood, WindowsGood, RequestsRight, Backed,
     ParamOf
<1> QED
  BY <1>1, <1>2, <1>3, <1>4 DEF Next

LEMMA Invariant == Spec => []IInv
BY InitIInv, NextIInv, PTL DEF Spec

-----------------------------------------------------------------------------
\* The loosest limit and the shortest window of an id.

LEMMA LeastNat ==
  ASSUME NEW S \in SUBSET Nat, S # {}
  PROVE  \E n \in S : \A m \in S : n <= m
<1> DEFINE R == OpToRel(<, Nat)
<1>1. IsWellFoundedOn(R, Nat)
  BY NatLessThanWellFounded
<1> HIDE DEF R
<1>2. PICK n \in S : \A m \in S : <<m, n>> \notin R
  BY <1>1, WFMin
<1>3. \A l, m \in Nat : l < m => <<l, m>> \in R
  BY DEF R, OpToRel
<1>4. \A m \in S : ~ (m < n)
  BY <1>2, <1>3
<1> QED
  BY <1>4

\* The size of the smallest set without a bound would be the least of its kind.
LEMMA FiniteBound ==
  ASSUME NEW T \in SUBSET Nat, IsFiniteSet(T)
  PROVE  \E n \in Nat : \A m \in T : m <= n
<1> DEFINE Free(U) == \A n \in Nat : \E m \in U : ~ (m <= n)
           S == {n \in Nat : \E U \in SUBSET Nat :
                               IsFiniteSet(U) /\ Cardinality(U) = n /\ Free(U)}
<1>1. SUFFICES ASSUME Free(T) PROVE FALSE
  OBVIOUS
<1>2. Cardinality(T) \in S
  BY <1>1, FS_CardinalityType
<1>3. PICK c \in S : \A n \in S : c <= n
  BY <1>2, LeastNat
<1>4. PICK U \in SUBSET Nat : IsFiniteSet(U) /\ Cardinality(U) = c /\ Free(U)
  OBVIOUS
<1>5. PICK u \in U : TRUE
  BY <1>4
<1> DEFINE V == U \ {u}
<1>6. V \in SUBSET Nat /\ IsFiniteSet(V) /\ Cardinality(V) = c - 1
  BY <1>4, FS_RemoveElement
<1>7. Free(V)
  <2> SUFFICES ASSUME NEW n \in Nat PROVE \E m \in V : ~ (m <= n)
    OBVIOUS
  <2> DEFINE b == IF u <= n THEN n ELSE u
  <2>1. b \in Nat /\ u <= b /\ n <= b
    OBVIOUS
  <2> HIDE DEF b
  <2>2. PICK m \in U : ~ (m <= b)
    BY <1>4, <2>1
  <2> QED
    BY <1>4
<1>8. Cardinality(V) \in Nat
  BY <1>6, FS_CardinalityType
<1> HIDE DEF V, Free
<1>9. c - 1 \in S
  BY <1>6, <1>7, <1>8
<1> QED
  BY <1>3, <1>9

LEMMA GreatestNat ==
  ASSUME NEW T \in SUBSET Nat, IsFiniteSet(T), T # {}
  PROVE  \E n \in T : \A m \in T : m <= n
<1> DEFINE B == {n \in Nat : \A m \in T : m <= n}
<1>1. B # {}
  BY FiniteBound
<1>2. PICK n \in B : \A b \in B : n <= b
  BY <1>1, LeastNat
<1>3. CASE n \in T
  BY <1>3
<1>4. CASE n \notin T
  <2>1. PICK t \in T : TRUE
    OBVIOUS
  <2> QED
    BY <1>2
<1> QED
  BY <1>4

LEMMA ParamsFinite ==
  ASSUME NEW i \in Ids
  PROVE  IsFiniteSet(ParamsFor[i]) /\ ParamsFor[i] # {}
<1> DEFINE Sets == {ToSet(Params[t]) : t \in Routes}
<1>1. \A t \in Routes : IsFiniteSet(ToSet(Params[t]))
  <2> TAKE t \in Routes
  <2>1. Params[t] \in Seq(Param) /\ Len(Params[t]) \in Nat
    BY ParamsAre
  <2>2. Params[t] \in Surjection(1 .. Len(Params[t]), ToSet(Params[t]))
    BY <2>1 DEF Surjection, ToSet
  <2> QED
    BY <2>2, FS_Interval, FS_Surjection
<1>2. IsFiniteSet(Sets)
  <2> DEFINE f == [t \in Routes |-> ToSet(Params[t])]
  <2>1. f \in Surjection(Routes, Sets)
    BY DEF Surjection
  <2> QED
    BY <2>1, FS_Surjection, RateLimiterAssumption
<1>3. IsFiniteSet(UNION Sets)
  BY <1>1, <1>2, FS_UNION
<1>4. ParamsFor[i] = {p \in UNION Sets : p.id = i}
  BY DEF ParamsFor
<1>5. ParamsFor[i] # {}
  BY <1>4, RateLimiterAssumption
<1> HIDE DEF Sets
<1> QED
  BY <1>3, <1>4, <1>5, FS_Subset

\* What the parameters of an id declare lies between the two.
LEMMA LimitsBetween ==
  ASSUME NEW i \in Ids
  PROVE  /\ MostPoints[i] \in Nat /\ LeastDuration[i] \in Nat
         /\ \A p \in ParamsFor[i] : /\ Made(p).points <= MostPoints[i]
                                    /\ LeastDuration[i] <= Made(p).duration
                                    /\ Made(p).block \in {0, Made(p).duration}
<1> DEFINE P == ParamsFor[i]
           most == {Made(p).points : p \in P}
           least == {Made(p).duration : p \in P}
<1>1. IsFiniteSet(P) /\ P # {}
  BY ParamsFinite
<1>2. \A p \in P : Made(p).points \in Nat /\ Made(p).duration \in Nat
  BY MadeIs DEF LimiterType
<1>3. \A p \in P : Made(p).block \in {0, Made(p).duration}
  BY DEF Made
<1>4. MostPoints[i] = CHOOSE n \in most : \A m \in most : m <= n
  BY DEF MostPoints
<1>5. LeastDuration[i] = CHOOSE n \in least : \A m \in least : n <= m
  BY DEF LeastDuration
<1> HIDE DEF P
<1>6. IsFiniteSet(most)
  <2> DEFINE f == [p \in P |-> Made(p).points]
  <2>1. f \in Surjection(P, most)
    BY DEF Surjection
  <2> QED
    BY <1>1, <2>1, FS_Surjection
<1>7. most \in SUBSET Nat /\ most # {} /\ least \in SUBSET Nat /\ least # {}
  BY <1>1, <1>2
<1>8. \A p \in P : Made(p).points \in most /\ Made(p).duration \in least
  OBVIOUS
<1> HIDE DEF most, least
<1>9. MostPoints[i] \in most /\ \A m \in most : m <= MostPoints[i]
  BY <1>4, <1>6, <1>7, GreatestNat
<1>10. LeastDuration[i] \in least /\ \A m \in least : LeastDuration[i] <= m
  BY <1>5, <1>7, LeastNat
<1> QED
  BY <1>3, <1>7, <1>8, <1>9, <1>10 DEF P

-----------------------------------------------------------------------------
\* The passes of one limiter.  Those of closed windows and of the window that
\* is open are each at most m.  Of the first, oldest, k, none is as young as
\* the open window is long: they are out of sight when it closes.

Burst(ages, win, m, d) ==
    \E k \in 0 .. Len(ages) :
      /\ k <= m /\ Len(ages) - k <= m /\ Len(ages) - k <= win.used
      /\ win.left > 0 => \A j \in 1 .. k : ages[j] + win.left >= d

LEMMA UpToSize ==
  ASSUME NEW n \in Nat
  PROVE  IsFiniteSet(1 .. n) /\ Cardinality(1 .. n) = n
<1>1. Cardinality(1 .. n) = IF 1 > n THEN 0 ELSE n - 1 + 1
  BY FS_Interval
<1>2. IsFiniteSet(1 .. n)
  BY FS_Interval
<1> QED
  BY <1>1, <1>2

\* What the k passes of closed windows become when gone of all are dropped.
LEMMA PassesDropped ==
  ASSUME NEW n \in Nat, NEW k \in 0 .. n, NEW gone \in 0 .. n, NEW m \in Nat, NEW u \in Nat,
         k <= m, n - k <= m, n - k <= u
  PROVE  \E l \in 0 .. n - gone :
           /\ l <= m /\ n - gone - l <= m /\ n - gone - l <= u
           /\ \A j \in 1 .. l : gone + j \in 1 .. k
<1>1. CASE k <= gone
  <2>1. /\ 0 \in 0 .. n - gone /\ 0 <= m
        /\ n - gone - 0 <= m /\ n - gone - 0 <= u
    BY <1>1
  <2> QED
    BY <2>1
<1>2. CASE k > gone
  <2> DEFINE l == k - gone
  <2>1. /\ l \in 0 .. n - gone /\ l <= m
        /\ n - gone - l <= m /\ n - gone - l <= u
    BY <1>2
  <2>2. \A j \in 1 .. l : gone + j \in 1 .. k
    OBVIOUS
  <2> HIDE DEF l
  <2> QED
    BY <2>1, <2>2
<1> QED
  BY <1>2

LEMMA BurstWith ==
  ASSUME NEW ages, NEW win, NEW m, NEW d, NEW n \in Nat, Len(ages) = n, NEW k \in 0 .. n,
         k <= m, n - k <= m, n - k <= win.used,
         win.left > 0 => \A j \in 1 .. k : ages[j] + win.left >= d
  PROVE  Burst(ages, win, m, d)
BY DEF Burst

LEMMA BurstFits ==
  ASSUME NEW ages \in Seq(Nat), NEW win, NEW m \in Nat, NEW d \in Nat, Burst(ages, win, m, d)
  PROVE  Len(ages) <= 2 * m
BY DEF Burst

LEMMA BurstCharged ==
  ASSUME NEW ages \in Seq(Nat), NEW win \in WindowType, NEW lim \in LimiterType,
         NEW m \in Nat, NEW d \in Nat, (win.used = 0) = (win.left = 0),
         lim.points <= m, d <= lim.duration, lim.duration > 0,
         lim.block \in {0, lim.duration}, Burst(ages, win, m, d),
         NEW c \in {Counted(win, lim), Charged(win, lim)}
  PROVE  /\ Burst(ages, c, m, d)
         /\ c.used <= lim.points => Burst(Append(ages, 0), c, m, d)
<1> DEFINE n == Len(ages)
           more == Append(ages, 0)
<1>1. /\ win.used \in Nat /\ win.left \in Nat /\ (win.used = 0 <=> win.left = 0)
      /\ lim.points \in Nat /\ lim.duration \in Nat
  BY DEF WindowType, LimiterType
<1>2. c.used = win.used + 1
  BY DEF Charged, Counted
<1>3. n \in Nat /\ \A j \in 1 .. n : ages[j] \in Nat
  OBVIOUS
<1>4. Len(more) = n + 1 /\ \A j \in 1 .. n : more[j] = ages[j]
  OBVIOUS
<1>5. PICK k \in 0 .. n :
        /\ k <= m /\ n - k <= m /\ n - k <= win.used
        /\ win.left > 0 => \A j \in 1 .. k : ages[j] + win.left >= d
  BY DEF Burst
<1> HIDE DEF n, more
<1>6. CASE win.left = 0
  <2>1. c.left = lim.duration
    BY <1>6 DEF Charged, Counted
  <2>2. k = n
    BY <1>3, <1>5, <1>6
  <2>3. \A j \in 1 .. n : ages[j] + c.left >= d
    <3> SUFFICES ASSUME NEW j \in 1 .. n PROVE ages[j] + c.left >= d
      OBVIOUS
    <3>1. ages[j] \in Nat
      BY <1>3
    <3> QED
      BY <1>1, <2>1, <3>1
  <2>4. Burst(ages, c, m, d)
    <3>1. n \in 0 .. n /\ n <= m /\ n - n <= m /\ n - n <= c.used
      BY <1>1, <1>2, <1>5, <2>2
    <3> QED
      BY <2>3, <3>1 DEF Burst, n
  <2>5. ASSUME c.used <= lim.points PROVE Burst(more, c, m, d)
    <3>1. n \in 0 .. Len(more) /\ n <= m /\ Len(more) - n <= m /\ Len(more) - n <= c.used
      BY <1>1, <1>2, <1>4, <1>5, <2>2, <2>5
    <3>2. \A j \in 1 .. n : more[j] + c.left >= d
      BY <1>4, <2>3
    <3> QED
      BY <3>1, <3>2 DEF Burst
  <2> QED
    BY <2>4, <2>5 DEF more
<1>7. CASE win.left > 0
  <2>1. c.left = win.left \/ (c.left = lim.duration /\ win.used + 1 = lim.points + 1)
    BY <1>7 DEF Charged, Counted
  <2>2. \A j \in 1 .. k : ages[j] + c.left >= d
    <3> SUFFICES ASSUME NEW j \in 1 .. k PROVE ages[j] + c.left >= d
      OBVIOUS
    <3>1. ages[j] \in Nat /\ ages[j] + win.left >= d
      BY <1>3, <1>5, <1>7
    <3>2. CASE c.left = win.left
      BY <3>1, <3>2
    <3>3. CASE c.left = lim.duration
      BY <1>1, <3>1, <3>3
    <3> QED
      BY <2>1, <3>2, <3>3
  <2>3. Burst(ages, c, m, d)
    <3>1. k \in 0 .. n /\ k <= m /\ n - k <= m /\ n - k <= c.used
      BY <1>1, <1>2, <1>3, <1>5
    <3> QED
      BY <2>2, <3>1 DEF Burst, n
  <2>4. ASSUME c.used <= lim.points PROVE Burst(more, c, m, d)
    <3> DEFINE l == n + 1
    <3>1. l \in Nat /\ k \in 0 .. l /\ k <= m /\ l - k <= m /\ l - k <= c.used
      BY <1>1, <1>2, <1>3, <1>5, <2>4
    <3>2. Len(more) = l
      BY <1>4
    <3> HIDE DEF l
    <3>3. \A j \in 1 .. k : more[j] + c.left >= d
      BY <1>3, <1>4, <2>2
    <3> QED
      BY <3>1, <3>2, <3>3, BurstWith
  <2> QED
    BY <2>3, <2>4 DEF more
<1> QED
  BY <1>1, <1>6, <1>7

LEMMA BurstAged ==
  ASSUME NEW ages \in Seq(Nat), NEW win \in WindowType, NEW m \in Nat, NEW d \in Nat,
         (win.used = 0) = (win.left = 0), Burst(ages, win, m, d),
         NEW c, win.left <= 1 => c.used = 0 /\ c.left = 0,
         win.left > 1 => c.used = win.used /\ c.left = win.left - 1
  PROVE  Aged(ages, d) \in Seq(Nat) /\ Burst(Aged(ages, d), c, m, d)
<1> DEFINE n == Len(ages)
           Old == {j \in 1 .. n : ages[j] + 1 >= d}
           gone == Cardinality(Old)
           rest == Aged(ages, d)
<1>1. n \in Nat /\ DOMAIN ages = 1 .. n /\ \A j \in 1 .. n : ages[j] \in Nat
  OBVIOUS
<1>2. IsFiniteSet(1 .. n) /\ Cardinality(1 .. n) = n
  BY UpToSize
<1>3. IsFiniteSet(Old) /\ gone \in Nat /\ gone <= n
  BY <1>2, FS_Subset, FS_CardinalityType
<1>4. rest = [j \in 1 .. n - gone |-> ages[gone + j] + 1]
  BY <1>1 DEF Aged
<1>5. win.used \in Nat /\ win.left \in Nat /\ (win.used = 0 <=> win.left = 0)
  BY DEF WindowType
<1>6. PICK k \in 0 .. n :
        /\ k <= m /\ n - k <= m /\ n - k <= win.used
        /\ win.left > 0 => \A j \in 1 .. k : ages[j] + win.left >= d
  BY DEF Burst
<1>7. win.left = 1 => k <= gone
  <2> SUFFICES ASSUME win.left = 1 PROVE k <= gone
    OBVIOUS
  <2>1. 1 .. k \in SUBSET Old
    BY <1>6
  <2>2. Cardinality(1 .. k) = k
    BY UpToSize
  <2> HIDE DEF Old
  <2> QED
    BY <1>3, <2>1, <2>2, FS_Subset
<1> HIDE DEF Old, gone, rest, n
<1>8. /\ n - gone \in Nat
      /\ rest \in Seq(Nat) /\ Len(rest) = n - gone
      /\ \A j \in 1 .. n - gone : rest[j] = ages[gone + j] + 1
  <2>1. n - gone \in Nat
    BY <1>1, <1>3
  <2>2. \A j \in 1 .. n - gone : gone + j \in 1 .. n
    BY <1>1, <1>3
  <2>3. \A j \in 1 .. n - gone : ages[gone + j] + 1 \in Nat
    BY <1>1, <2>2
  <2>4. rest \in [1 .. n - gone -> Nat]
    BY <1>4, <2>3
  <2>5. rest \in Seq(Nat)
    BY <2>1, <2>4
  <2> QED
    BY <1>4, <2>1, <2>5
<1>9. CASE win.left <= 1
  <2>1. c.used = 0 /\ c.left = 0
    BY <1>9
  <2>2. n - gone <= m
    <3>1. CASE win.left = 0
      BY <1>1, <1>3, <1>6, <3>1
    <3>2. CASE win.left = 1
      BY <1>1, <1>3, <1>6, <1>7, <3>2
    <3> QED
      BY <1>5, <1>9, <3>1, <3>2
  <2>3. n - gone \in 0 .. Len(rest) /\ Len(rest) - (n - gone) = 0
    BY <1>8
  <2>4. Burst(rest, c, m, d)
    BY <2>1, <2>2, <2>3 DEF Burst
  <2> QED
    BY <1>8, <2>4 DEF rest
<1>10. CASE win.left > 1
  <2>1. c.used = win.used /\ c.left = win.left - 1
    BY <1>10
  <2>2. PICK l \in 0 .. n - gone :
          /\ l <= m /\ n - gone - l <= m /\ n - gone - l <= win.used
          /\ \A j \in 1 .. l : gone + j \in 1 .. k
    <3>1. n \in Nat /\ k \in 0 .. n /\ gone \in 0 .. n /\ win.used \in Nat
      BY <1>1, <1>3, <1>5
    <3> QED
      BY <1>6, <3>1, PassesDropped
  <2>3. \A j \in 1 .. l : rest[j] + c.left >= d
    <3> SUFFICES ASSUME NEW j \in 1 .. l PROVE rest[j] + c.left >= d
      OBVIOUS
    <3>1. j \in 1 .. n - gone /\ gone + j \in 1 .. n
      BY <1>1, <1>3
    <3>2. ages[gone + j] \in Nat /\ ages[gone + j] + win.left >= d
      <4>1. ages[gone + j] \in Nat
        BY <1>1, <3>1
      <4>2. \A e \in 1 .. k : ages[e] + win.left >= d
        BY <1>5, <1>6, <1>10
      <4>3. gone + j \in 1 .. k
        BY <2>2
      <4> QED
        BY <4>1, <4>2, <4>3
    <3>3. rest[j] = ages[gone + j] + 1
      BY <1>8
    <3> DEFINE a == ages[gone + j]
               b == win.left
    <3>4. c.left = b - 1 /\ b \in Nat /\ a \in Nat /\ a + b >= d /\ rest[j] = a + 1
      BY <1>5, <2>1, <3>2, <3>3
    <3> HIDE DEF a, b
    <3> QED
      BY <3>4
  <2>4. Burst(rest, c, m, d)
    BY <1>8, <2>1, <2>2, <2>3 DEF Burst
  <2> QED
    BY <1>8, <2>4 DEF rest
<1> QED
  BY <1>5, <1>9, <1>10

-----------------------------------------------------------------------------
\* The inductive invariant of the passes, on top of the other.

RecentType == recent \in [Sources -> [Ids -> Seq(Nat)]]

Bursts ==
    \A s \in Sources, i \in Ids :
      Burst(recent[s][i], window[s][i], MostPoints[i], LeastDuration[i])

\* A worker without a limiter has let nothing through.
Fresh == \A w \in Workers, i \in Ids : limiters[w][i] = None => recent[w][i] = <<>>

\* Only Redis lets requests through while it has answered all along.
StoreOnly ==
    storeClient /\ ~ outage =>
      connected /\ \A w \in Workers, i \in Ids : recent[w][i] = <<>>

RInv == RecentType /\ Bursts /\ Fresh /\ StoreOnly

LEMMA BurstNone ==
  ASSUME NEW win \in WindowType, NEW m \in Nat, NEW d
  PROVE  Burst(<<>>, win, m, d) /\ <<>> \in Seq(Nat)
BY DEF Burst, WindowType

LEMMA EmptyIs == Empty \in WindowType
BY DEF Empty, WindowType

LEMMA InitRInv == Init => RInv
<1> SUFFICES ASSUME Init PROVE RInv
  OBVIOUS
<1>1. \A s \in Sources, i \in Ids : recent[s][i] = <<>> /\ window[s][i] = Empty
  BY DEF Init
<1>2. RecentType
  BY DEF Init, RecentType
<1>3. Bursts
  BY <1>1, EmptyIs, BurstNone, LimitsBetween DEF Bursts
<1>4. Fresh /\ StoreOnly
  BY DEF Fresh, StoreOnly, Sources, Init
<1> QED
  BY <1>2, <1>3, <1>4 DEF RInv

\* A limiter counts a request, and lets it through or not.
LEMMA CountKeeps ==
  ASSUME IInv, RInv, NEW r \in Requests, req[r].state = "consuming",
         NEW s \in Sources, NEW i \in Ids, i = ParamOf(r).id,
         NEW lim, lim = limiters[req[r].worker][i],
         NEW win \in {Counted(window[s][i], lim), Charged(window[s][i], lim)},
         window' = [window EXCEPT ![s][i] = win],
         \/ recent' = recent
         \/ /\ win.used <= lim.points
            /\ recent' = [recent EXCEPT ![s][i] = Append(@, 0)]
  PROVE  RecentType' /\ Bursts'
<1>1. req[r].worker \in Workers
  BY WalkerIs DEF IInv, Asking
<1>2. PICK p \in ParamsFor[i] : lim = Made(p)
  <2>1. lim # None
    BY DEF IInv, Backed
  <2>2. lim \in {None} \cup {Made(p) : p \in ParamsFor[i]}
    BY <1>1 DEF IInv, LimitersGood
  <2> QED
    BY <2>1, <2>2
<1>3. /\ lim \in LimiterType /\ lim.duration > 0 /\ lim.points <= MostPoints[i]
      /\ LeastDuration[i] <= lim.duration /\ lim.block \in {0, lim.duration}
      /\ MostPoints[i] \in Nat /\ LeastDuration[i] \in Nat
  BY <1>2, MadeIs, LimitsBetween
<1>4. /\ window[s][i] \in WindowType
      /\ (window[s][i].used = 0) = (window[s][i].left = 0)
      /\ recent[s][i] \in Seq(Nat)
      /\ Burst(recent[s][i], window[s][i], MostPoints[i], LeastDuration[i])
  BY DEF IInv, WindowsGood, RInv, RecentType, Bursts
<1>5. /\ Burst(recent[s][i], win, MostPoints[i], LeastDuration[i])
      /\ win.used <= lim.points =>
           Burst(Append(recent[s][i], 0), win, MostPoints[i], LeastDuration[i])
  <2> DEFINE seq == recent[s][i]
             w == window[s][i]
             most == MostPoints[i]
             least == LeastDuration[i]
  <2>1. /\ seq \in Seq(Nat) /\ w \in WindowType /\ (w.used = 0) = (w.left = 0)
        /\ Burst(seq, w, most, least) /\ most \in Nat /\ least \in Nat
        /\ lim.points <= most /\ least <= lim.duration
    BY <1>3, <1>4
  <2>2. win \in {Counted(w, lim), Charged(w, lim)}
    OBVIOUS
  <2> HIDE DEF seq, w, most, least
  <2>3. /\ Burst(seq, win, most, least)
        /\ win.used <= lim.points => Burst(Append(seq, 0), win, most, least)
    BY <1>3, <2>1, <2>2, BurstCharged
  <2> QED
    BY <2>3 DEF seq, most, least
<1>6. /\ window'[s][i] = win
      /\ \A x \in Sources, y \in Ids : x # s \/ y # i => window'[x][y] = window[x][y]
  BY DEF IInv, WindowsGood
<1>7. CASE recent' = recent
  BY <1>5, <1>6, <1>7 DEF RInv, RecentType, Bursts
<1>8. CASE win.used <= lim.points /\ recent' = [recent EXCEPT ![s][i] = Append(@, 0)]
  <2>1. /\ recent'[s][i] = Append(recent[s][i], 0)
        /\ \A x \in Sources, y \in Ids : x # s \/ y # i => recent'[x][y] = recent[x][y]
    BY <1>8 DEF RInv, RecentType
  <2>2. RecentType'
    BY <1>8 DEF RInv, RecentType
  <2>3. \A x \in Sources, y \in Ids :
          Burst(recent[x][y], window[x][y], MostPoints[y], LeastDuration[y])
    BY DEF RInv, Bursts
  <2>4. ASSUME NEW x \in Sources, NEW y \in Ids
        PROVE  Burst(recent'[x][y], window'[x][y], MostPoints[y], LeastDuration[y])
    <3>1. CASE x = s /\ y = i
      BY <1>5, <1>6, <1>8, <2>1, <3>1
    <3>2. CASE x # s \/ y # i
      <4>1. recent'[x][y] = recent[x][y] /\ window'[x][y] = window[x][y]
        BY <1>6, <2>1, <3>2
      <4> QED
        BY <2>3, <4>1
    <3> QED
      BY <3>1, <3>2
  <2> QED
    BY <2>2, <2>4 DEF Bursts
<1> QED
  BY <1>7, <1>8

LEMMA ConsumeCounts ==
  ASSUME IInv, RInv, NEW r \in Requests, Consume(r)
  PROVE  RInv'
<1> DEFINE w == req[r].worker
           i == ParamOf(r).id
           lim == limiters[w][i]
<1>1. req[r].state = "consuming" /\ UNCHANGED <<storeClient, connected, outage, limiters>>
  BY DEF Consume
<1>2. i \in Ids /\ w \in Workers
  BY <1>1, LimiterIs, WalkerIs DEF IInv, Asking
<1>3. PICK s \in SourceOf(w) :
         /\ window' = [window EXCEPT ![s][i] = Charged(window[s][i], lim)]
         /\ recent' = IF Charged(window[s][i], lim).used <= lim.points
                      THEN [recent EXCEPT ![s][i] = Append(@, 0)] ELSE recent
  BY DEF Consume
<1>4. s \in Sources /\ (s \in Workers => s = w /\ ~ (storeClient /\ connected))
  BY <1>2, RateLimiterAssumption DEF SourceOf, Sources, Store
<1>5. lim # None
  BY <1>1 DEF IInv, Backed
<1> HIDE DEF w, i, lim
<1>6. RecentType' /\ Bursts'
  BY <1>1, <1>2, <1>3, <1>4, CountKeeps DEF w, i, lim
<1>7. \A v \in Workers, y \in Ids : v # s \/ y # i => recent'[v][y] = recent[v][y]
  BY <1>3
<1>8. Fresh'
  BY <1>1, <1>4, <1>5, <1>7 DEF RInv, Fresh, lim
<1>9. StoreOnly'
  BY <1>1, <1>4, <1>7 DEF RInv, StoreOnly
<1> QED
  BY <1>6, <1>8, <1>9 DEF RInv

LEMMA ReplyLostCounts ==
  ASSUME IInv, RInv, NEW r \in Requests, ReplyLost(r)
  PROVE  RInv'
<1> DEFINE i == ParamOf(r).id
           lim == limiters[req[r].worker][i]
<1>1. /\ req[r].state = "consuming"
      /\ UNCHANGED <<storeClient, connected, outage, limiters, recent>>
      /\ window' = [window EXCEPT ![Store][i] = Counted(window[Store][i], lim)]
  BY DEF ReplyLost
<1>2. i \in Ids /\ Store \in Sources
  BY <1>1, LimiterIs DEF Sources
<1>3. RecentType' /\ Bursts'
  BY <1>1, <1>2, CountKeeps
<1> QED
  BY <1>1, <1>3 DEF RInv, Fresh, StoreOnly

\* A new limiter starts with nothing let through.
LEMMA CheckCounts ==
  ASSUME IInv, RInv, NEW r \in Requests, Check(r)
  PROVE  RInv'
<1> DEFINE w == req[r].worker
           p == ParamOf(r)
<1>1. UNCHANGED <<storeClient, connected, outage, recent>> /\ req[r].state = "checking"
  BY DEF Check
<1>2. w \in Workers /\ p \in Param
  BY <1>1, WalkerIs DEF IInv, Asking
<1>3. UNCHANGED <<limiters, window>> \/ (p.id \in Ids /\ Ensure(w, p))
  BY DEF Check
<1> HIDE DEF w, p
<1>4. CASE UNCHANGED <<limiters, window>>
  BY <1>1, <1>4 DEF RInv, RecentType, Bursts, Fresh, StoreOnly
<1>5. CASE /\ p.id \in Ids /\ limiters[w][p.id] = None
           /\ limiters' = [limiters EXCEPT ![w][p.id] = Made(p)]
           /\ window' = [window EXCEPT ![w][p.id] = Empty]
  <2>1. recent[w][p.id] = <<>> /\ w \in Sources
    BY <1>2, <1>5 DEF RInv, Fresh, Sources
  <2>2. \A s \in Sources, y \in Ids :
           window'[s][y] = IF s = w /\ y = p.id THEN Empty ELSE window[s][y]
    BY <1>5 DEF IInv, WindowsGood
  <2>3. Burst(<<>>, Empty, MostPoints[p.id], LeastDuration[p.id])
    BY <1>5, EmptyIs, BurstNone, LimitsBetween
  <2>4. Bursts'
    BY <1>1, <2>1, <2>2, <2>3 DEF RInv, Bursts
  <2>5. \A v \in Workers, y \in Ids : v # w \/ y # p.id => limiters'[v][y] = limiters[v][y]
    BY <1>5
  <2>6. Fresh'
    BY <1>1, <2>1, <2>5 DEF RInv, Fresh
  <2> QED
    BY <1>1, <2>4, <2>6 DEF RInv, RecentType, StoreOnly
<1> QED
  BY <1>3, <1>4, <1>5 DEF Ensure

LEMMA ReplaceForgets ==
  ASSUME IInv, RInv, NEW w \in Workers, Replace(w)
  PROVE  RInv'
<1>1. /\ window' = [window EXCEPT ![w] = [i \in Ids |-> Empty]]
      /\ recent' = [recent EXCEPT ![w] = [i \in Ids |-> <<>>]]
      /\ limiters' = [limiters EXCEPT ![w] = [i \in Ids |-> None]]
      /\ UNCHANGED <<storeClient, connected, outage>> /\ w \in Sources
  BY DEF Replace, Sources
<1>2. RecentType'
  BY <1>1 DEF RInv, RecentType
<1>3. \A s \in Sources, i \in Ids :
         /\ recent'[s][i] = IF s = w THEN <<>> ELSE recent[s][i]
         /\ window'[s][i] = IF s = w THEN Empty ELSE window[s][i]
  BY <1>1 DEF RInv, RecentType, IInv, WindowsGood
<1>4. Bursts'
  BY <1>3, EmptyIs, BurstNone, LimitsBetween DEF RInv, Bursts
<1>5. Fresh' /\ StoreOnly'
  BY <1>1, <1>3 DEF RInv, Fresh, StoreOnly
<1> QED
  BY <1>2, <1>4, <1>5 DEF RInv

LEMMA AgedNone ==
  ASSUME NEW d
  PROVE  Aged(<<>>, d) = <<>>
<1> DEFINE S == {k \in DOMAIN <<>> : <<>>[k] + 1 >= d}
<1>1. S = {} /\ Cardinality(S) = 0
  BY FS_EmptySet
<1>2. Aged(<<>>, d) = [k \in 1 .. Len(<<>>) - 0 |-> <<>>[0 + k] + 1]
  BY <1>1 DEF Aged
<1> QED
  BY <1>2

LEMMA TickAges ==
  ASSUME IInv, RInv, Tick
  PROVE  RInv'
<1>1. /\ \A s \in Sources, i \in Ids :
           /\ recent'[s][i] = Aged(recent[s][i], LeastDuration[i])
           /\ window'[s][i] = IF window[s][i].left <= 1 THEN Empty
                              ELSE [window[s][i] EXCEPT !.left = @ - 1]
      /\ recent' = [s \in Sources |-> [i \in Ids |-> recent'[s][i]]]
      /\ UNCHANGED <<storeClient, connected, outage, limiters>>
  BY DEF Tick
<1>2. \A s \in Sources, i \in Ids :
         /\ recent'[s][i] \in Seq(Nat)
         /\ Burst(recent'[s][i], window'[s][i], MostPoints[i], LeastDuration[i])
  <2> TAKE s \in Sources, i \in Ids
  <2>1. /\ window[s][i] \in WindowType
        /\ (window[s][i].used = 0) = (window[s][i].left = 0)
        /\ recent[s][i] \in Seq(Nat)
        /\ Burst(recent[s][i], window[s][i], MostPoints[i], LeastDuration[i])
    BY DEF IInv, WindowsGood, RInv, RecentType, Bursts
  <2>2. MostPoints[i] \in Nat /\ LeastDuration[i] \in Nat
    BY LimitsBetween
  <2> DEFINE ages == recent[s][i]
             win == window[s][i]
             m == MostPoints[i]
             d == LeastDuration[i]
             c == window'[s][i]
  <2>3. recent'[s][i] = Aged(ages, d)
    BY <1>1
  <2>4. c = IF win.left <= 1 THEN Empty ELSE [win EXCEPT !.left = @ - 1]
    BY <1>1
  <2>5. /\ win.left <= 1 => c.used = 0 /\ c.left = 0
        /\ win.left > 1 => c.used = win.used /\ c.left = win.left - 1
    BY <2>1, <2>4 DEF Empty, WindowType
  <2> HIDE DEF ages, win, m, d, c
  <2>6. Aged(ages, d) \in Seq(Nat) /\ Burst(Aged(ages, d), c, m, d)
    BY <2>1, <2>2, <2>5, BurstAged DEF ages, win, m, d
  <2> QED
    BY <2>3, <2>6 DEF m, d, c
<1>3. RecentType' /\ Bursts'
  BY <1>1, <1>2 DEF RecentType, Bursts
<1>4. Fresh' /\ StoreOnly'
  <2>1. \A w \in Workers, i \in Ids : recent[w][i] = <<>> => recent'[w][i] = <<>>
    <3> TAKE w \in Workers, i \in Ids
    <3>1. recent'[w][i] = Aged(recent[w][i], LeastDuration[i])
      BY <1>1 DEF Sources
    <3>2. Aged(<<>>, LeastDuration[i]) = <<>>
      BY AgedNone
    <3> QED
      BY <3>1, <3>2
  <2> QED
    BY <1>1, <2>1 DEF RInv, Fresh, StoreOnly
<1> QED
  BY <1>3, <1>4 DEF RInv

LEMMA NextRInv == IInv /\ RInv /\ [Next]_vars => RInv'
<1> SUFFICES ASSUME IInv, RInv, [Next]_vars PROVE RInv'
  OBVIOUS
<1>1. CASE /\ UNCHANGED <<limiters, window, recent, storeClient>>
           /\ UNCHANGED <<connected, outage>> \/ StoreFails \/ StoreReturns
  BY <1>1 DEF RInv, RecentType, Bursts, Fresh, StoreOnly, StoreFails, StoreReturns
<1>2. ASSUME NEW r \in Requests, Guard(r) PROVE RInv'
  BY <1>1, <1>2, CheckCounts DEF Guard, Arrive
<1>3. ASSUME NEW r \in Requests, Limiter(r) PROVE RInv'
  BY <1>3, ConsumeCounts, ReplyLostCounts DEF Limiter
<1>4. CASE Environment
  BY <1>1, <1>4, ReplaceForgets, TickAges DEF Environment, StoreFails, StoreReturns
<1>5. CASE UNCHANGED vars
  BY <1>1, <1>5 DEF vars
<1> QED
  BY <1>2, <1>3, <1>4, <1>5 DEF Next

LEMMA PassesInvariant == Spec => []RInv
BY Invariant, InitRInv, NextRInv, PTL DEF Spec

-----------------------------------------------------------------------------
\* Types, for any routes, limits and numbers of workers and requests: every
\* limiter has what some parameter declared or the defaults, a window is open
\* while it has been used, and a request that waits for a limiter has one.
THEOREM TypeCorrect == Spec => []TypeOK
<1>1. IInv => TypeOK
  <2> SUFFICES ASSUME IInv PROVE TypeOK
    OBVIOUS
  <2>1. /\ limiters \in [Workers -> [Ids -> [points : Nat, duration : Nat, block : Nat]]]
        /\ \A w \in Workers, i \in Ids :
             limiters[w][i] \in {None} \cup {Made(p) : p \in ParamsFor[i]}
    BY DEF IInv, LimitersGood, LimiterType
  <2>2. \A s \in Sources, i \in Ids :
          /\ window[s][i] \in [used : Nat, left : Nat]
          /\ (window[s][i].used = 0) = (window[s][i].left = 0)
    BY DEF IInv, WindowsGood, WindowType
  <2>3. \A r \in Requests :
          /\ req[r].state \in {"new", "checking", "consuming", "admitted", "refused",
                               "failed", "lost"}
          /\ (req[r].worker \in Workers) = (req[r].state \in {"checking", "consuming"})
    BY DEF IInv, RequestsRight, Right, Request, Asking
  <2> QED
    BY <2>1, <2>2, <2>3 DEF IInv, StoreGood, Backed, TypeOK
<1> QED
  BY <1>1, Invariant, PTL

\* Whatever the routes, the limits and the order in which workers, Redis and
\* time take their steps: a request that is let in has passed every limiter
\* of its route, each once and in order, and one that is refused has passed
\* all but the last it asked.
THEOREM AdmissionIsEarned == Spec => []AdmittedByAll
<1>1. IInv => AdmittedByAll
  <2> SUFFICES ASSUME IInv, NEW r \in Requests
               PROVE  Right(req[r]) =>
                        /\ InOrder(req[r].seen) /\ Leaves(req[r])
                        /\ req[r].state = "admitted" =>
                             \A i \in DOMAIN Params[req[r].route] :
                               i <= Len(Params[req[r].route])
    BY DEF IInv, RequestsRight, AdmittedByAll, InOrder, Leaves, Covers
  <2> QED
    BY DEF Right
<1> QED
  BY <1>1, Invariant, PTL

\* The headers show the limiter with the fewest points left, however many a
\* request asks and whatever they answer.
THEOREM HeadersShowTightest == Spec => []HeadersTightest
<1>1. IInv => HeadersTightest
  BY DEF IInv, RequestsRight, Right, Shows, HeadersTightest
<1> QED
  BY <1>1, Invariant, PTL

\* Whatever the routes, the limits, the workers, the outages, the replies lost
\* and the order of all that: no limiter gives more passes for an id, in any
\* stretch of time as long as its shortest window, than twice the points of
\* its loosest limit (asserter.svc.ts:21-68).
THEOREM BurstsBounded == Spec => []BurstBound
<1>1. RInv => BurstBound
  BY BurstFits, LimitsBetween DEF RInv, RecentType, Bursts, BurstBound
<1> QED
  BY <1>1, PassesInvariant, PTL

\* While Redis has answered all along, that is the bound for all the workers
\* together, however many there are and however often they are replaced
\* (asserter.svc.ts:24-37).
THEOREM LimitIsShared == Spec => []SharedLimit
<1>1. RInv => SharedLimit
  <2> SUFFICES ASSUME RInv, storeClient, ~ outage, NEW i \in Ids
               PROVE  Cardinality(Passes(i)) <= 2 * MostPoints[i]
    BY DEF SharedLimit
  <2> DEFINE n == Len(recent[Store][i])
  <2>1. Store \in Sources /\ recent[Store][i] \in Seq(Nat)
    BY DEF RInv, RecentType, Sources
  <2>2. n \in Nat /\ n <= 2 * MostPoints[i]
    BY <2>1, BurstFits, LimitsBetween DEF RInv, Bursts
  <2>3. \A w \in Workers : recent[w][i] = <<>>
    BY DEF RInv, StoreOnly
  <2> DEFINE given == {<<Store, k>> : k \in 1 .. n}
  <2>4. Passes(i) = given
    <3> DEFINE Of(s) == {<<s, k>> : k \in DOMAIN recent[s][i]}
    <3>1. \A w \in Workers : Of(w) = {}
      BY <2>3
    <3>2. Of(Store) = given
      OBVIOUS
    <3>3. Passes(i) = UNION {Of(s) : s \in Sources}
      BY DEF Passes
    <3> HIDE DEF Of, n
    <3>4. UNION {Of(s) : s \in Sources} = Of(Store)
      BY <3>1 DEF Sources
    <3> QED
      BY <3>2, <3>3, <3>4
  <2> HIDE DEF n
  <2>5. [k \in 1 .. n |-> <<Store, k>>] \in Surjection(1 .. n, given)
    BY DEF Surjection
  <2> HIDE DEF given
  <2>6. IsFiniteSet(1 .. n) /\ Cardinality(1 .. n) = n
    BY <2>2, UpToSize
  <2>7. IsFiniteSet(given) /\ Cardinality(given) <= n
    BY <2>5, <2>6, FS_Surjection
  <2>8. Cardinality(given) \in Nat
    BY <2>7, FS_CardinalityType
  <2> QED
    BY <2>2, <2>4, <2>7, <2>8, LimitsBetween
<1> QED
  BY <1>1, PassesInvariant, PTL

=============================================================================
