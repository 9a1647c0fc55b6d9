---------------------------- MODULE RateLimiter ----------------------------
(***************************************************************************)
(* The rate limiter of infrastructure/components/redis/ratelimiter: a      *)
(* guard in every worker process walks through the parameters of a route   *)
(* and takes one point for each from a limiter, which a Redis server       *)
(* shared by the workers keeps, or the worker's own memory: always when    *)
(* there is no Redis client, and as an insurance while Redis does not      *)
(* answer.  Workers are replaced, Redis comes and goes, and a reply that   *)
(* is lost makes the client send its command again.                        *)
(*                                                                         *)
(* Time passes in ticks.  An id (a client and a path, say) is a value; the *)
(* parameters of a route are given with the id their getId returns.        *)
(***************************************************************************)
EXTENDS Integers, Sequences, FiniteSets, SequencesExt

CONSTANTS Workers,        \* the worker processes
          Requests,       \* the requests clients make
          Ids,            \* what getId may return
          Routes,         \* the handlers
          Params,         \* the parameters of each route, in order
          Default,        \* points and duration of the module
          MaxLost         \* bound on the replies of Redis that are lost

NoId == "no id"           \* getId returned nothing
Throws == "throws"        \* getId threw

Param == [id : Ids \cup {NoId, Throws}, points : Nat, duration : Nat]

\* points and duration are 0 in a parameter that does not give them.  An id is
\* what some getId returns, and handlers are declared in the source: there are
\* finitely many.
ASSUME RateLimiterAssumption ==
    /\ Ids \cap {NoId, Throws} = {}
    /\ "store" \notin Workers
    /\ Params \in [Routes -> Seq(Param)]
    /\ IsFiniteSet(Routes)
    /\ \A i \in Ids : \E t \in Routes : \E p \in ToSet(Params[t]) : p.id = i
    /\ Default \in [points : Nat \ {0}, duration : Nat \ {0}]
    /\ MaxLost \in Nat

Store == "store"
Sources == Workers \cup {Store}

VARIABLES
    storeClient,  \* is there a Redis client?
    connected,    \* does Redis answer?
    outage,       \* history: has it ever failed to?
    lost,         \* number of replies lost
    limiters,     \* the Map of limiters of each worker
    window,       \* the count each source keeps for each id
    recent,       \* history: ages of the passes each source gave for an id
    req           \* the requests

vars == <<storeClient, connected, outage, lost, limiters, window, recent, req>>

None == [points |-> 0, duration |-> 0, block |-> 0]
Empty == [used |-> 0, left |-> 0]
NoHeader == [limit |-> 0, remaining |-> -1]
Unborn == [state |-> "new", worker |-> Store, route |-> "none", at |-> 1,
           header |-> NoHeader, seen |-> <<>>]

-----------------------------------------------------------------------------
\* RateLimiterAsserterImpl.

\* Fault: what a parameter does not declare stays undefined.
MadeUndefaulted(p) ==
    [points |-> p.points, duration |-> p.duration, block |-> p.duration]

\* The limiter the first request for an id makes, with what it was declared
\* to have; there is no block unless a duration is declared.
Made(p) == [points |-> IF p.points # 0 THEN p.points ELSE Default.points,
            duration |-> IF p.duration # 0 THEN p.duration ELSE Default.duration,
            block |-> p.duration]

\* Fault: every request makes the limiter anew.
EnsureAlways(w, p) ==
    /\ limiters' = [limiters EXCEPT ![w][p.id] = Made(p)]
    /\ window' = [window EXCEPT ![w][p.id] = Empty]

\* The limiter is looked up by the id alone.  A new one has an empty memory.
Ensure(w, p) ==
    IF limiters[w][p.id] # None
    THEN UNCHANGED <<limiters, window>>
    ELSE /\ limiters' = [limiters EXCEPT ![w][p.id] = Made(p)]
         /\ window' = [window EXCEPT ![w][p.id] = Empty]

\* One point more in the window, which opens with the first.
Counted(win, lim) ==
    [used |-> win.used + 1, left |-> IF win.left = 0 THEN lim.duration ELSE win.left]

\* consume(): the first point too many starts the block.
Charged(win, lim) ==
    LET c == Counted(win, lim)
    IN  IF c.used = lim.points + 1 /\ lim.block > 0 THEN [c EXCEPT !.left = lim.block] ELSE c

\* Fault: the insurance answers although Redis does.
SourcesLocal(w) == {w}

\* The limiter that answers.
SourceOf(w) == IF storeClient /\ connected THEN {Store} ELSE {w}

-----------------------------------------------------------------------------
\* RateLimiterGuard.

ParamOf(r) == Params[req[r].route][req[r].at]

\* Fault: the headers keep the larger of the remaining points.
SetHeadersLoosest(h, points, remaining) ==
    IF points = 0 \/ (h # NoHeader /\ h.remaining > remaining) THEN h
    ELSE [limit |-> points, remaining |-> remaining]

\* setRateLimitHeaders(): a header that shows less is kept, and parameters
\* that declare no points write none.
SetHeaders(h, points, remaining) ==
    IF points = 0 \/ (h # NoHeader /\ h.remaining < remaining) THEN h
    ELSE [limit |-> points, remaining |-> remaining]

\* The request leaves the guard; Store stands for no worker.
End(q, state) == [q EXCEPT !.state = state, !.worker = Store]

\* Fault: the guard lets the request in after the first parameter.
ProceedEarly(q) == End(q, "admitted")

\* The next parameter of the loop in canActivate(), or its end.
Proceed(q) ==
    IF q.at < Len(Params[q.route])
    THEN [q EXCEPT !.state = "checking", !.at = @ + 1]
    ELSE End(q, "admitted")

\* What the answer of the limiter does to the request.
Answered(r, lim, win) ==
    LET p == ParamOf(r)
        remaining == IF win.used < lim.points THEN lim.points - win.used ELSE 0
        q == [req[r] EXCEPT !.header = SetHeaders(@, p.points, remaining),
                            !.seen = Append(@, [at |-> req[r].at,
                                                points |-> p.points,
                                                remaining |-> remaining,
                                                passed |-> win.used <= lim.points])]
    IN  IF win.used <= lim.points THEN Proceed(q) ELSE End(q, "refused")

-----------------------------------------------------------------------------
Init ==
    /\ storeClient \in BOOLEAN
    /\ connected = storeClient
    /\ outage = FALSE
    /\ lost = 0
    /\ limiters = [w \in Workers |-> [i \in Ids |-> None]]
    /\ window = [s \in Sources |-> [i \in Ids |-> Empty]]
    /\ recent = [s \in Sources |-> [i \in Ids |-> <<>>]]
    /\ req = [r \in Requests |-> Unborn]

\* canActivate() is called.  Routes with no parameters, @RateLimiter(false),
\* let the request in at once.
Arrive(r, w, t) ==
    /\ req[r].state = "new"
    /\ req' = [req EXCEPT ![r] =
                 LET q == [Unborn EXCEPT !.state = "checking", !.worker = w, !.route = t]
                 IN  IF Params[t] = <<>> THEN End(q, "admitted") ELSE q]
    /\ UNCHANGED <<storeClient, connected, outage, lost, limiters, window, recent>>

\* A parameter without an id limits nothing, and a getId that throws ends
\* the request with an internal error.
Check(r) ==
    /\ req[r].state = "checking"
    /\ \/ /\ ParamOf(r).id = NoId
          /\ req' = [req EXCEPT ![r] = Proceed(@)]
          /\ UNCHANGED <<limiters, window>>
       \/ /\ ParamOf(r).id = Throws
          /\ req' = [req EXCEPT ![r] = End(@, "failed")]
          /\ UNCHANGED <<limiters, window>>
       \/ /\ ParamOf(r).id \in Ids
          /\ Ensure(req[r].worker, ParamOf(r))
          /\ req' = [req EXCEPT ![r].state = "consuming"]
    /\ UNCHANGED <<storeClient, connected, outage, lost, recent>>

\* The limiter counts the request and answers.
Consume(r) ==
    /\ req[r].state = "consuming"
    /\ LET w == req[r].worker
           i == ParamOf(r).id
           lim == limiters[w][i]
       IN  \E s \in SourceOf(w) :
             LET win == Charged(window[s][i], lim)
             IN  /\ window' = [window EXCEPT ![s][i] = win]
                 /\ recent' = IF win.used <= lim.points
                              THEN [recent EXCEPT ![s][i] = Append(@, 0)] ELSE recent
                 /\ req' = [req EXCEPT ![r] = Answered(r, lim, win)]
    /\ UNCHANGED <<storeClient, connected, outage, lost, limiters>>

\* Redis counts the request, but the reply is lost with the connection: the
\* command is sent again, or the insurance answers.  A block would be a command
\* of its own, sent after the reply.
ReplyLost(r) ==
    /\ req[r].state = "consuming"
    /\ connected
    /\ lost < MaxLost
    /\ lost' = lost + 1
    /\ LET i == ParamOf(r).id
       IN  window' = [window EXCEPT ![Store][i] =
                        Counted(@, limiters[req[r].worker][i])]
    /\ UNCHANGED <<storeClient, connected, outage, limiters, recent, req>>

\* Redis stops answering, or answers again.
StoreFails ==
    /\ connected
    /\ connected' = FALSE
    /\ outage' = TRUE
    /\ UNCHANGED <<storeClient, lost, limiters, window, recent, req>>

StoreReturns ==
    /\ storeClient
    /\ ~ connected
    /\ connected' = TRUE
    /\ UNCHANGED <<storeClient, outage, lost, limiters, window, recent, req>>

\* A worker is replaced: its limiters, its memory and its requests are gone.
Replace(w) ==
    /\ limiters' = [limiters EXCEPT ![w] = [i \in Ids |-> None]]
    /\ window' = [window EXCEPT ![w] = [i \in Ids |-> Empty]]
    /\ recent' = [recent EXCEPT ![w] = [i \in Ids |-> <<>>]]
    /\ req' = [r \in Requests |->
                 IF req[r].worker = w THEN End(req[r], "lost") ELSE req[r]]
    /\ UNCHANGED <<storeClient, connected, outage, lost>>

\* The parameters that lead to an id, and the loosest limit and the shortest
\* window among them.
ParamsFor == [i \in Ids |-> {p \in UNION {ToSet(Params[t]) : t \in Routes} : p.id = i}]
MostPoints ==
    [i \in Ids |-> LET most == {Made(p).points : p \in ParamsFor[i]}
                   IN  CHOOSE n \in most : \A m \in most : m <= n]
LeastDuration ==
    [i \in Ids |-> LET least == {Made(p).duration : p \in ParamsFor[i]}
                   IN  CHOOSE n \in least : \A m \in least : n <= m]

\* A tick later: the ages are kept oldest first, and those of at least d ticks
\* are dropped.
Aged(ages, d) ==
    LET gone == Cardinality({k \in DOMAIN ages : ages[k] + 1 >= d})
    IN  [k \in 1 .. Len(ages) - gone |-> ages[gone + k] + 1]

\* Time passes: windows close when their time is up.
Tick ==
    /\ window' = [s \in Sources |-> [i \in Ids |->
                    IF window[s][i].left <= 1 THEN Empty
                    ELSE [window[s][i] EXCEPT !.left = @ - 1]]]
    /\ recent' = [s \in Sources |-> [i \in Ids |-> Aged(recent[s][i], LeastDuration[i])]]
    /\ UNCHANGED <<storeClient, connected, outage, lost, limiters, req>>

Guard(r) == (\E w \in Workers, t \in Routes : Arrive(r, w, t)) \/ Check(r)
Limiter(r) == Consume(r) \/ ReplyLost(r)
Environment == StoreFails \/ StoreReturns \/ (\E w \in Workers : Replace(w)) \/ Tick

Next == (\E r \in Requests : Guard(r) \/ Limiter(r)) \/ Environment

Spec == Init /\ [][Next]_vars

-----------------------------------------------------------------------------
\* The types of the state; an open window has been used, and a limiter has
\* points.  (asserter.svc.ts, guard.ts)
TypeOK ==
    /\ {storeClient, connected, outage} \subseteq BOOLEAN
    /\ connected => storeClient
    /\ lost \in 0 .. MaxLost
    /\ limiters \in [Workers -> [Ids -> [points : Nat, duration : Nat, block : Nat]]]
    /\ \A w \in Workers, i \in Ids :
         limiters[w][i] \in {None} \cup {Made(p) : p \in ParamsFor[i]}
    /\ \A s \in Sources, i \in Ids :
         /\ window[s][i] \in [used : Nat, left : Nat]
         /\ (window[s][i].used = 0) = (window[s][i].left = 0)
    /\ \A r \in Requests :
         /\ req[r].state \in {"new", "checking", "consuming", "admitted", "refused",
                              "failed", "lost"}
         /\ (req[r].worker \in Workers) = (req[r].state \in {"checking", "consuming"})
         /\ req[r].state = "consuming" =>
              limiters[req[r].worker][ParamOf(r).id] # None

\* No limiter lets more requests through, in any stretch of time as long as
\* its window, than twice the points declared for its id: the end of one
\* window and the start of the next.  Blocks, replies lost and an outage do
\* not change that.  Where parameters share an id it is the loosest of them
\* that bounds: the code does not enforce the others.  (asserter.svc.ts:21-68)
BurstBound ==
    \A s \in Sources, i \in Ids : Len(recent[s][i]) <= 2 * MostPoints[i]

\* The passes given for an id, by any source.
Passes(i) == UNION {{<<s, k>> : k \in DOMAIN recent[s][i]} : s \in Sources}

\* While Redis has answered all along the limit holds for all the workers
\* together, also when they are replaced.  (asserter.svc.ts:24-37)
SharedLimit ==
    storeClient /\ ~ outage =>
      \A i \in Ids : Cardinality(Passes(i)) <= 2 * MostPoints[i]

\* A request is let in by every limiter of its route that has an id, each
\* asked once and in order, and refused by the last one it asked.
\* (guard.ts:36-75)
AdmittedByAll ==
    \A r \in Requests :
      LET q == req[r]
          asked == DOMAIN q.seen
      IN  /\ \A j, k \in asked : j < k => q.seen[j].at < q.seen[k].at
          /\ q.state = "admitted" =>
               /\ \A i \in DOMAIN Params[q.route] :
                    Params[q.route][i].id # NoId => \E k \in asked : q.seen[k].at = i
               /\ \A k \in asked : q.seen[k].passed
          /\ q.state = "refused" =>
               /\ asked # {}
               /\ \A k \in asked : q.seen[k].passed = (k < Len(q.seen))

\* The headers of a response show the limiter with the fewest points left of
\* those the request asked and that declare points.
\* (set-ratelimit-headers.ts:4-16)
HeadersTightest ==
    \A r \in Requests :
      LET q == req[r]
          declared == {k \in DOMAIN q.seen : q.seen[k].points # 0}
      IN  IF declared = {} THEN q.header = NoHeader
          ELSE \E k \in declared :
                 /\ q.header = [limit |-> q.seen[k].points, remaining |-> q.seen[k].remaining]
                 /\ \A j \in declared : q.seen[k].remaining <= q.seen[j].remaining
=============================================================================
