--------------------------- MODULE OtelAggregator ---------------------------
(***************************************************************************)
(* The cluster-wide Prometheus scrape of                                   *)
(* infrastructure/providers/opentelemetry-aggregator.ts.  The master       *)
(* broadcasts a request to every connected worker over IPC, each worker    *)
(* collects the registry of its reader and answers, and the master settles *)
(* the promise of the scrape when the last answer is in, when a worker     *)
(* reports an error, or when five seconds have passed.                     *)
(*                                                                         *)
(* Workers are started by the master, die, and shut their reader down on   *)
(* SIGTERM before they exit (opentelemetry.ts); the master learns of a     *)
(* death some time after it.  Collection is asynchronous, so the answers   *)
(* of one worker to two scrapes may come in either order: the channel to   *)
(* the master is a set.                                                    *)
(***************************************************************************)
EXTENDS Integers, Sequences, FiniteSets

CONSTANTS Workers,      \* the worker processes that can ever be forked
          MaxRequests   \* bound on requestCtr

ASSUME AggregatorAssumption ==
    /\ IsFiniteSet(Workers)
    /\ MaxRequests \in Nat

VARIABLES
    wstate,      \* what each worker process is doing
    connected,   \* the workers for which the master's isConnected() is true
    inbox,       \* requests sent to a worker and not yet read, in order
    collecting,  \* the requests a worker is collecting its registry for
    answers,     \* messages on their way to the master
    requestCtr,  \* number of scrapes started
    requests,    \* keys of the master's Map of open requests
    pending,     \* request.pending
    responses,   \* request.responses, each with the worker it came from
    errorTimeout,\* is request.errorTimeout armed?
    outcome,     \* how the promise of the scrape stands
    report,      \* the registries merged in the scrape's text
    asked        \* history: the workers the request was sent to

workerVars == <<wstate, connected>>
channelVars == <<inbox, collecting, answers>>
requestVars == <<requestCtr, requests, pending, responses, errorTimeout,
                 outcome, report, asked>>
vars == <<wstate, connected, inbox, collecting, answers, requestCtr, requests,
          pending, responses, errorTimeout, outcome, report, asked>>

RequestIds == 0 .. MaxRequests - 1

\* A worker has no listener for requests until its aggregator has started,
\* and its reader collects nothing once it is shut down.
WorkerState == {"absent", "booting", "serving", "closing", "gone"}

\* "null" is the array [null] that a swallowed collection failure turns into.
Answer == [from : Workers, requestId : RequestIds,
           kind : {"metrics", "null", "error"}]

Response == [from : Workers, kind : {"metrics", "null"}]

Alive(w) == wstate[w] \in {"booting", "serving", "closing"}

Init ==
    /\ wstate = [w \in Workers |-> "absent"]
    /\ connected = {}
    /\ inbox = [w \in Workers |-> <<>>]
    /\ collecting = [w \in Workers |-> {}]
    /\ answers = {}
    /\ requestCtr = 0
    /\ requests = {}
    /\ pending = [r \in RequestIds |-> 0]
    /\ responses = [r \in RequestIds |-> <<>>]
    /\ errorTimeout = [r \in RequestIds |-> FALSE]
    /\ outcome = [r \in RequestIds |-> "idle"]
    /\ report = [r \in RequestIds |-> {}]
    /\ asked = [r \in RequestIds |-> {}]

-----------------------------------------------------------------------------
\* Life of the workers.

Fork(w) ==
    /\ wstate[w] = "absent"
    /\ wstate' = [wstate EXCEPT ![w] = "booting"]
    /\ connected' = connected \cup {w}
    /\ UNCHANGED <<channelVars, requestVars>>

\* start() in a worker: the request listener is installed.
StartWorker(w) ==
    /\ wstate[w] = "booting"
    /\ wstate' = [wstate EXCEPT ![w] = "serving"]
    /\ UNCHANGED <<connected, channelVars, requestVars>>

\* SIGTERM: the SDK shuts its reader down and the process exits afterwards.
Terminate(w) ==
    /\ wstate[w] = "serving"
    /\ wstate' = [wstate EXCEPT ![w] = "closing"]
    /\ UNCHANGED <<connected, channelVars, requestVars>>

\* The process ends; what it has not read or not answered is lost.
Exit(w) ==
    /\ Alive(w)
    /\ wstate' = [wstate EXCEPT ![w] = "gone"]
    /\ inbox' = [inbox EXCEPT ![w] = <<>>]
    /\ collecting' = [collecting EXCEPT ![w] = {}]
    /\ UNCHANGED <<connected, answers, requestVars>>

NoticeExit(w) ==
    /\ wstate[w] = "gone"
    /\ w \in connected
    /\ connected' = connected \ {w}
    /\ UNCHANGED <<wstate, channelVars, requestVars>>

-----------------------------------------------------------------------------
\* The worker's side of a scrape.

\* A request that arrives before start() has no listener and is dropped.
ReceiveRequest(w) ==
    /\ Alive(w)
    /\ inbox[w] # <<>>
    /\ inbox' = [inbox EXCEPT ![w] = Tail(@)]
    /\ collecting' = IF wstate[w] = "booting"
                     THEN collecting
                     ELSE [collecting EXCEPT ![w] = @ \cup {Head(inbox[w])}]
    /\ UNCHANGED <<workerVars, answers, requestVars>>

SendAnswer(w, r, kind) ==
    /\ r \in collecting[w]
    /\ collecting' = [collecting EXCEPT ![w] = @ \ {r}]
    /\ answers' = answers \cup {[from |-> w, requestId |-> r, kind |-> kind]}
    /\ UNCHANGED <<workerVars, inbox, requestVars>>

Collected(w, r) ==
    /\ wstate[w] \in {"serving", "closing"}
    /\ SendAnswer(w, r, "metrics")

\* _exportJSONMetrics swallows the rejection of collect().
CollectionRejected(w, r) ==
    /\ wstate[w] = "closing"
    /\ SendAnswer(w, r, "null")

\* Labelling or serialising the registry throws.
CollectionThrew(w, r) ==
    /\ wstate[w] = "serving"
    /\ SendAnswer(w, r, "error")

-----------------------------------------------------------------------------
\* The master's side.

\* Fault: done() without its test of what was called before.
DoneAgain(r, result, registries) ==
    /\ outcome' = [outcome EXCEPT ![r] = result]
    /\ report' = [report EXCEPT ![r] = registries]

\* done(): only the first call settles the promise.
Done(r, result, registries) ==
    IF outcome[r] = "open"
    THEN /\ outcome' = [outcome EXCEPT ![r] = result]
         /\ report' = [report EXCEPT ![r] = registries]
    ELSE UNCHANGED <<outcome, report>>

\* clusterMetrics().  A message to a worker that is already dead is lost.
\* With nobody to ask the promise resolves with '' on the next tick, before
\* any other event.
ClusterMetrics ==
    /\ requestCtr < MaxRequests
    /\ LET r == requestCtr IN
       /\ requestCtr' = requestCtr + 1
       /\ requests' = requests \cup {r}
       /\ asked' = [asked EXCEPT ![r] = connected]
       /\ inbox' = [w \in Workers |-> IF w \in connected /\ Alive(w)
                                      THEN Append(inbox[w], r) ELSE inbox[w]]
       /\ pending' = [pending EXCEPT ![r] = Cardinality(connected)]
       /\ errorTimeout' = [errorTimeout EXCEPT ![r] = connected # {}]
       /\ outcome' = [outcome EXCEPT ![r] = IF connected = {} THEN "ok" ELSE "open"]
    /\ UNCHANGED <<workerVars, collecting, answers, responses, report>>

\* Fault: an error response is counted as an answer.
ErrorResponseCounted(a) ==
    /\ a \in answers
    /\ a.kind = "error"
    /\ answers' = answers \ {a}
    /\ pending' = [pending EXCEPT ![a.requestId] = @ - 1]
    /\ Done(a.requestId, "failed", {})
    /\ UNCHANGED <<workerVars, inbox, collecting, requestCtr, requests,
                   responses, errorTimeout, asked>>

ErrorResponse(a) ==
    /\ a \in answers
    /\ a.kind = "error"
    /\ answers' = answers \ {a}
    /\ Done(a.requestId, "failed", {})
    /\ UNCHANGED <<workerVars, inbox, collecting, requestCtr, requests, pending,
                   responses, errorTimeout, asked>>

\* merge() reads .resource and .scopeMetrics of every registry: it throws on null.
Mergeable(rs) == \A i \in DOMAIN rs : rs[i].kind = "metrics"

\* Fault: the keys of the responses in place of the responses.
SendersByKey(rs) == DOMAIN rs

Senders(rs) == {rs[i].from : i \in DOMAIN rs}

\* Fault: the last answer but one settles the scrape.
LastEarly(r) == pending[r] - 1 <= 1

Last(r) == pending[r] - 1 = 0

\* The entry is dropped and the timer cleared before merge() is called, so
\* a merge that throws leaves the promise as it is, for ever.  That the Map
\* still holds the entry is not tested: AnswerHasRequest below says it does.
MetricsResponse(a) ==
    /\ a \in answers
    /\ a.kind # "error"
    /\ LET r == a.requestId
           rs == Append(responses[r], [from |-> a.from, kind |-> a.kind])
       IN /\ responses' = [responses EXCEPT ![r] = rs]
          /\ pending' = [pending EXCEPT ![r] = @ - 1]
          /\ requests' = IF Last(r) THEN requests \ {r} ELSE requests
          /\ errorTimeout' = IF Last(r) THEN [errorTimeout EXCEPT ![r] = FALSE]
                                        ELSE errorTimeout
          /\ IF Last(r) /\ Mergeable(rs)
             THEN Done(r, "ok", Senders(rs))
             ELSE UNCHANGED <<outcome, report>>
    /\ answers' = answers \ {a}
    /\ UNCHANGED <<workerVars, inbox, collecting, requestCtr, asked>>

\* Fault: the timer drops the entry of its scrape from the Map.
TimeoutForgets(r) ==
    /\ errorTimeout[r]
    /\ errorTimeout' = [errorTimeout EXCEPT ![r] = FALSE]
    /\ requests' = requests \ {r}
    /\ Done(r, "failed", {})
    /\ UNCHANGED <<workerVars, channelVars, requestCtr, pending, responses, asked>>

\* Fault: the timer does not reject.
TimeoutSilent(r) ==
    /\ errorTimeout[r]
    /\ errorTimeout' = [errorTimeout EXCEPT ![r] = FALSE]
    /\ UNCHANGED <<workerVars, channelVars, requestCtr, requests, pending,
                   responses, outcome, report, asked>>

\* The entry stays in the Map when the timer fires.
Timeout(r) ==
    /\ errorTimeout[r]
    /\ errorTimeout' = [errorTimeout EXCEPT ![r] = FALSE]
    /\ Done(r, "failed", {})
    /\ UNCHANGED <<workerVars, channelVars, requestCtr, requests, pending,
                   responses, asked>>

-----------------------------------------------------------------------------
WorkerLife(w) ==
    \/ Fork(w)
    \/ StartWorker(w)
    \/ Terminate(w)
    \/ Exit(w)
    \/ NoticeExit(w)

WorkerStep(w) ==
    \/ ReceiveRequest(w)
    \/ \E r \in RequestIds : \/ Collected(w, r)
                             \/ CollectionRejected(w, r)
                             \/ CollectionThrew(w, r)

MasterStep ==
    \/ ClusterMetrics
    \/ \E a \in answers : ErrorResponse(a) \/ MetricsResponse(a)
    \/ \E r \in RequestIds : Timeout(r)

Next ==
    \/ \E w \in Workers : WorkerLife(w) \/ WorkerStep(w)
    \/ MasterStep

Spec == Init /\ [][Next]_vars

\* The master's event loop fires a timer that is due.  Nothing is assumed of
\* the workers: they may die or never answer.
FairSpec == Spec /\ \A r \in RequestIds : WF_vars(Timeout(r))

-----------------------------------------------------------------------------
\* The types of the state; the text of a scrape is made of registries of
\* workers (opentelemetry-aggregator.ts:10-20, 135-163).
TypeOK ==
    /\ wstate \in [Workers -> WorkerState]
    /\ connected \in SUBSET Workers
    /\ inbox \in [Workers -> Seq(RequestIds)]
    /\ collecting \in [Workers -> SUBSET RequestIds]
    /\ answers \in SUBSET Answer
    /\ requestCtr \in 0 .. MaxRequests
    /\ requests \in SUBSET RequestIds
    /\ pending \in [RequestIds -> Int]
    /\ responses \in [RequestIds -> Seq(Response)]
    /\ errorTimeout \in [RequestIds -> BOOLEAN]
    /\ outcome \in [RequestIds -> {"idle", "open", "ok", "failed"}]
    /\ report \in [RequestIds -> SUBSET Workers]
    /\ asked \in [RequestIds -> SUBSET Workers]

(***************************************************************************)
(* A scrape that resolves has merged the registry of every worker that was *)
(* asked, and each of them once: answers that come late, or two scrapes    *)
(* answered crosswise, neither drop a worker nor count it twice.           *)
(***************************************************************************)
CompleteScrape ==
    \A r \in RequestIds :
        outcome[r] = "ok" => /\ report[r] = asked[r]
                             /\ Len(responses[r]) = Cardinality(asked[r])

(***************************************************************************)
(* request.pending counts exactly the workers that have not been counted   *)
(* in, whatever died, failed or timed out in between, so it reaches zero   *)
(* at the last answer and at no other (opentelemetry-aggregator.ts:43-45). *)
(***************************************************************************)
PendingIsOutstanding ==
    \A r \in RequestIds :
        r < requestCtr =>
            pending[r] = Cardinality(asked[r] \ Senders(responses[r]))

(***************************************************************************)
(* this.requests.get() at line 30 finds the entry of every answer that can *)
(* still arrive: an entry is dropped by the last answer it waits for, not  *)
(* by a timeout or an error, so no late answer meets a missing entry.      *)
(***************************************************************************)
AnswerHasRequest ==
    \A a \in answers : a.requestId \in requests

(***************************************************************************)
(* An open scrape has its timer armed, whatever was answered, lost or      *)
(* refused: the answer path clears the timer of a promise it leaves        *)
(* unsettled only when a null registry is among the answers (lines 45-53). *)
(***************************************************************************)
OpenHasTimer ==
    \A r \in RequestIds :
        outcome[r] = "open" => errorTimeout[r] \/ ~ Mergeable(responses[r])

(***************************************************************************)
(* A promise settles once: an answer after the timeout, the timeout after  *)
(* an error, or a second error changes neither the outcome nor the text.   *)
(***************************************************************************)
SettledOnce ==
    [][\A r \in RequestIds :
           outcome[r] \in {"ok", "failed"} =>
               outcome'[r] = outcome[r] /\ report'[r] = report[r]]_vars

(***************************************************************************)
(* Every scrape is settled: by the answers, by an error or by the timer    *)
(* that rejects with 'Operation timed out.'                                *)
(***************************************************************************)
ScrapeSettles ==
    \A r \in RequestIds : outcome[r] = "open" ~> outcome[r] # "open"

(***************************************************************************)
(* What a scrape promises, and the code as an implementation of it: every  *)
(* step asks, resolves with all the registries, or rejects; and a scrape   *)
(* that no null registry reaches is settled, although workers may die,     *)
(* shut down or never answer.                                              *)
(***************************************************************************)
Promise == INSTANCE Scrape WITH
    Workers <- Workers, MaxRequests <- MaxRequests,
    asked <- asked, outcome <- outcome, report <- report

Implements ==
    /\ Promise!Safety
    /\ \A r \in RequestIds :
          [] Mergeable(responses[r]) => Promise!Settles(r)

=============================================================================
