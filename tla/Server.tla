------------------------------- MODULE Server -------------------------------
(***************************************************************************)
(* A server process with its requests: Startup and Requests composed.      *)
(* Requests arrive while the process listens, leave telemetry with its     *)
(* parts when they are answered, are counted as its settings say, can      *)
(* bring it down by a promise nobody handles, and are cut off when it      *)
(* ends, as no SIGTERM handler closes the server first.                    *)
(***************************************************************************)
EXTENDS Startup, Requests

\* Deployments, and kinds and filters of the requests sent there.
CONSTANT Traffic

requests == <<at, kind, filter, tries, met, client, value, life, counted, responded>>
server == <<process, requests>>

Init == StartupInit /\ RequestsInit

Starts == Start /\ UNCHANGED requests

\* Fault: the process is thought to drain its requests.
Drains == UNCHANGED requests

\* An end of the process is one of its connections.
CutOff == IF exit' = "no" THEN UNCHANGED requests ELSE Stop

Stops == End /\ CutOff

Signals == Sigterm /\ CutOff

Exports == (\E p \in Parts : Export(p)) /\ UNCHANGED requests

\* An error nobody handles, outside the requests followed here.
Uncaught == ~ doomed /\ Doom /\ UNCHANGED requests

\* Requests are told apart by nothing but their order.
Arrives(r) ==
    /\ Listening
    /\ at[r] = "idle" /\ r = CHOOSE q \in Calls : at[q] = "idle"
    /\ \E k \in Kinds, f \in Filters :
          /\ <<deployment, k, f>> \in Traffic
          /\ UNCHANGED process
          /\ Arrive(r, k, f)

\* The middleware is mounted if custom_metrics.api is on, leaves out routeless
\* requests if told so, and reads cluster.worker.
Counting(r) ==
    IF \/ ~ Enabled(deployment, "opentelemetry") \/ ~ Enabled(deployment, "api")
       \/ kind[r] = "stray" /\ Value(deployment, <<"api", "ignore_undefined_routes">>) = "on"
    THEN "off"
    ELSE deployment.role

Responds(r) ==
    /\ Settled(r)
    /\ Record
    /\ Respond(r, Counting(r))

Miscounts(r) ==
    /\ Settled(r) /\ Counting(r) = "single"
    /\ UNCHANGED process
    /\ Miscount(r)

\* Fault: a promise that is rejected unheard is only logged.
StrandsQuietly(r) ==
    /\ at[r] \in {"rejected", "failed"}
    /\ UNCHANGED process
    /\ FilterThrows(r) \/ (Counting(r) = "single" /\ Strand(r))

\* A throwing errorFilter, or a throw in the exception filter, is an unhandled
\* rejection of the process.
Strands(r) ==
    /\ at[r] \in {"rejected", "failed"}
    /\ Doom
    /\ FilterThrows(r) \/ (Counting(r) = "single" /\ Strand(r))

Handles(r) ==
    /\ at[r] \in Busy
    /\ UNCHANGED process
    /\ Store(r) \/ Accept(r) \/ GiveUp(r) \/ Retry(r)

Leaves(r) == UNCHANGED process /\ (Abort(r) \/ Drop(r))

Expires == UNCHANGED process /\ Expire

Proceeds(r) == Handles(r) \/ Strands(r) \/ Miscounts(r) \/ Responds(r)

Next ==
    \/ Starts \/ Signals \/ Stops \/ Exports \/ Uncaught \/ Expires
    \/ \E r \in Calls : Arrives(r) \/ Proceeds(r) \/ Leaves(r)

Spec == Init /\ [][Next]_server

\* What the start awaits settles, timers fire, a flush succeeds or fails, a
\* command of Redis is answered or rejected; nobody has to send a request, a
\* signal or a batch.
FairSpec ==
    /\ Spec
    /\ WF_server(Starts)
    /\ WF_server(Stops)
    /\ \A r \in Calls : WF_server(Proceeds(r))

-----------------------------------------------------------------------------
\* The types of both halves.
TypeOK == StartupTypeOK /\ RequestsTypeOK

(***************************************************************************)
(* The two halves keep to their own specifications when they share the     *)
(* process: nothing of a request happens outside a living, listening       *)
(* process, and what is proved of each half holds of the whole.            *)
(***************************************************************************)
Composes == StartupSpec /\ RequestsSpec

(***************************************************************************)
(* No client waits for ever: its request is answered or refused, it gave   *)
(* up, or the process ended.  A transaction that hangs for ever brings the *)
(* process down with it (transaction-wrappers.ts:38, main.service.ts:16).  *)
(***************************************************************************)
Answered ==
    \A r \in Calls :
        at[r] # "idle" /\ client[r] = "waiting" ~> client[r] # "waiting"

(***************************************************************************)
(* Every response to a counted request is counted, as                      *)
(* api-metrics.middleware.ts:53 says: 'Total number of HTTP responses'.    *)
(***************************************************************************)
ResponsesCounted ==
    \A r \in counted : client[r] \in {"result", "error"} => r \in responded

=============================================================================
