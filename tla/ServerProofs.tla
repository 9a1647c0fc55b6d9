---------------------------- MODULE ServerProofs ----------------------------
(***************************************************************************)
(* The two halves of a server process keep to their specifications when    *)
(* they share it, for any deployments, traffic and number of requests.     *)
(***************************************************************************)
EXTENDS Server, StartupProofs, RequestsProofs, TLAPS

\* Requests come only once the process listens: it has taken that step of its
\* start, and takes none back.
Served ==
    /\ done \in Nat
    /\ at = [r \in Calls |-> at[r]]
    /\ \A r \in Calls : at[r] # "idle" => Behind("listen")

\* What happens to a request after its arrival.
Moves(r) ==
    \/ Store(r) \/ Transaction(r) \/ Abort(r)
    \/ Drop(r) \/ Miscount(r) \/ Strand(r)
    \/ \E how \in Countings : Respond(r, how)

-----------------------------------------------------------------------------
LEMMA ProcessAdvances ==
  ASSUME Served, [StartupNext]_process
  PROVE  /\ done' \in Nat
         /\ Behind("listen") => Behind("listen")'
<1>1. done' \in {done, done + 1} /\ deployment' = deployment
  <2>1. CASE Start
    BY <2>1 DEF Start, Instrument, Aggregate, Configure, Create, HookOrListen,
       Emit, Load, Advance, Reject
  <2>2. CASE End \/ Sigterm \/ Doom
    BY <2>2 DEF End, Flushed, DoomedExit, Sigterm, Doom
  <2>3. CASE (\E p \in Parts : Export(p)) \/ Record
    BY <2>3 DEF Export, Record
  <2>4. CASE UNCHANGED process
    BY <2>4 DEF process
  <2> QED
    BY <2>1, <2>2, <2>3, <2>4 DEF StartupNext
<1>2. done' \in Nat /\ 1 .. done \subseteq 1 .. done'
  BY <1>1 DEF Served
<1> QED
  BY <1>1, <1>2 DEF Behind

\* A move changes the position of one request at most.
LEMMA MovesOne ==
  ASSUME NEW r \in Calls, Moves(r)
  PROVE  at' = at \/ \E pos : at' = [at EXCEPT ![r] = pos]
<1> USE DEF Goto, Errs
<1>1. CASE Store(r)
  BY <1>1 DEF Store, Hmset, Pexpire, Exists, Hgetall, Del
<1>2. CASE Transaction(r)
  BY <1>2 DEF Transaction, Accept, GiveUp, FilterThrows, Retry
<1>3. CASE Abort(r) \/ Drop(r) \/ Miscount(r) \/ Strand(r)
  BY <1>3 DEF Abort, handling, Drop, Miscount, Strand
<1>4. CASE \E how \in Countings : Respond(r, how)
  BY <1>4 DEF Respond, Send
<1> QED
  BY <1>1, <1>2, <1>3, <1>4 DEF Moves

\* at stays a function on the requests when one position changes.
LEMMA OnePosition ==
  ASSUME Served, NEW r \in Calls,
         at' = at \/ \E pos : at' = [at EXCEPT ![r] = pos]
  PROVE  /\ at' = [q \in Calls |-> at'[q]]
         /\ \A q \in Calls \ {r} : at'[q] = at[q]
<1>1. CASE at' = at
  BY DEF Served
<1>2. ASSUME NEW pos, at' = [at EXCEPT ![r] = pos]
      PROVE  /\ at' = [q \in Calls |-> at'[q]]
             /\ \A q \in Calls \ {r} : at'[q] = at[q]
  <2>1. at' = [q \in Calls |-> IF q = r THEN pos ELSE at[q]]
    BY <1>2 DEF Served
  <2>2. \A q \in Calls : at'[q] = IF q = r THEN pos ELSE at[q]
    BY <2>1
  <2>3. at' = [q \in Calls |-> at'[q]]
    BY <2>1
  <2> QED
    BY <2>3
<1> QED
  BY <1>1, <1>2

\* Only its arrival begins a request.
LEMMA RequestsContinue ==
  ASSUME Served,
         \/ UNCHANGED requests
         \/ Stop
         \/ Expire
         \/ \E r \in Calls : at[r] # "idle" /\ Moves(r)
  PROVE  /\ at' = [r \in Calls |-> at'[r]]
         /\ \A q \in Calls : at'[q] # "idle" => at[q] # "idle"
<1>1. CASE UNCHANGED requests \/ Expire
  BY <1>1 DEF Served, requests, Expire, handling
<1>2. CASE Stop
  BY <1>2 DEF Stop, Busy
<1>3. CASE \E r \in Calls : at[r] # "idle" /\ Moves(r)
  BY <1>3, MovesOne, OnePosition
<1> QED
  BY <1>1, <1>2, <1>3

LEMMA InitServed == Init => Served
BY DEF Init, Served, StartupInit, RequestsInit

-----------------------------------------------------------------------------
\* A request in a server moves as one in Requests does.
LEMMA RequestMoves ==
  ASSUME NEW r \in Calls, Proceeds(r) \/ Leaves(r)
  PROVE  at[r] # "idle" /\ Moves(r)
<1>1. at[r] # "idle"
  BY DEF Proceeds, Leaves, Handles, Strands, Miscounts, Responds, Busy, Settled,
     Abort, Drop
<1>2. ASSUME Handles(r) \/ Strands(r) \/ Miscounts(r) \/ Leaves(r) PROVE Moves(r)
  BY <1>2 DEF Handles, Strands, Miscounts, Leaves, Moves, Transaction
<1>3. ASSUME Responds(r) PROVE Moves(r)
  <2> DEFINE how == Counting(r)
  <2>1. Respond(r, how)
    BY <1>3 DEF Responds
  <2>2. CASE how \in Countings
    BY <2>1, <2>2 DEF Moves
  <2>3. CASE how \notin Countings
    <3>1. Respond(r, "single")
      BY <2>1, <2>3 DEF Respond, Counts, Countings
    <3> QED
      BY <3>1 DEF Moves, Countings
  <2> QED
    BY <2>2, <2>3
<1> QED
  BY <1>1, <1>2, <1>3 DEF Proceeds

\* Every step is one of the requests or leaves them alone.
LEMMA RequestSteps ==
  ASSUME [Next]_server
  PROVE  [RequestsNext]_serving
<1> USE DEF serving, handling, redis, counts, requests
<1>1. CASE Starts \/ Exports \/ Uncaught
  <2>1. UNCHANGED requests /\ UNCHANGED exit
    BY <1>1 DEF Starts, Exports, Uncaught, Start, Instrument, Aggregate,
       Configure, Create, HookOrListen, Emit, Load, Export, Doom
  <2> QED
    BY <2>1
<1>2. CASE Stops \/ Signals
  <2>1. exit = "no" /\ CutOff
    BY <1>2 DEF Stops, Signals, End, DoomedExit, Flushed, Sigterm
  <2>2. CASE exit' = "no"
    BY <2>1, <2>2 DEF CutOff
  <2>3. CASE exit' # "no"
    BY <2>1 DEF CutOff, RequestsNext
  <2> QED
    BY <2>2, <2>3
<1>3. CASE Expires
  BY <1>3 DEF Expires, RequestsNext
<1>4. ASSUME NEW r \in Calls, Arrives(r) PROVE RequestsNext
  BY <1>4 DEF Arrives, RequestsNext
<1>5. ASSUME NEW r \in Calls, Proceeds(r) \/ Leaves(r) PROVE RequestsNext
  BY <1>5, RequestMoves DEF Moves, RequestsNext
<1>6. CASE UNCHANGED server
  BY <1>6 DEF server, process
<1> QED
  BY <1>1, <1>2, <1>3, <1>4, <1>5, <1>6 DEF Next

LEMMA ProcessMoves ==
  ASSUME Served, NEW r \in Calls, Proceeds(r) \/ Leaves(r)
  PROVE  [StartupNext]_process
<1>1. CASE Responds(r)
  <2>1. exit = "no" /\ Record
    BY <1>1 DEF Responds, Respond, up
  <2>2. at[r] # "idle"
    BY RequestMoves
  <2>3. Listening
    BY <2>1, <2>2 DEF Served, Listening
  <2> QED
    BY <2>1, <2>3 DEF StartupNext
<1>2. CASE Strands(r)
  BY <1>2 DEF Strands, StartupNext
<1> QED
  BY <1>1, <1>2 DEF Proceeds, Handles, Miscounts, Leaves

-----------------------------------------------------------------------------
LEMMA NextServed == Served /\ [Next]_server => Served'
<1> SUFFICES ASSUME Served, [Next]_server PROVE Served'
  OBVIOUS
<1>1. CASE Starts \/ Exports \/ Uncaught \/ Expires \/ UNCHANGED server
  <2>1. [StartupNext]_process
    BY <1>1 DEF Starts, Exports, Uncaught, Expires, server, StartupNext
  <2>2. UNCHANGED requests \/ Expire
    BY <1>1 DEF Starts, Exports, Uncaught, Expires, server
  <2> QED
    BY <2>1, <2>2, ProcessAdvances, RequestsContinue DEF Served
<1>2. CASE Stops \/ Signals
  <2>1. [StartupNext]_process
    BY <1>2 DEF Stops, Signals, StartupNext
  <2>2. UNCHANGED requests \/ Stop
    BY <1>2 DEF Stops, Signals, CutOff
  <2> QED
    BY <2>1, <2>2, ProcessAdvances, RequestsContinue DEF Served
<1>3. ASSUME NEW r \in Calls, Arrives(r) PROVE Served'
  <2>1. UNCHANGED process /\ Behind("listen")
    BY <1>3 DEF Arrives, Listening
  <2>2. done' \in Nat /\ Behind("listen")'
    BY <2>1 DEF Served, process, Behind
  <2>3. \E pos : at' = [at EXCEPT ![r] = pos]
    BY <1>3 DEF Arrives, Arrive
  <2>4. at' = [q \in Calls |-> at'[q]]
    <3>1. PICK pos : at' = [q \in Calls |-> IF q = r THEN pos ELSE at[q]]
      BY <2>3 DEF Served
    <3>2. \A q \in Calls : at'[q] = IF q = r THEN pos ELSE at[q]
      BY <3>1
    <3> QED
      BY <3>1
  <2> QED
    BY <2>2, <2>4 DEF Served
<1>4. ASSUME NEW r \in Calls, Proceeds(r) \/ Leaves(r) PROVE Served'
  <2>1. Moves(r) /\ at[r] # "idle"
    BY <1>4, RequestMoves
  <2>2. [StartupNext]_process
    BY <1>4, ProcessMoves
  <2> QED
    BY <2>1, <2>2, ProcessAdvances, RequestsContinue DEF Served
<1> QED
  BY <1>1, <1>2, <1>3, <1>4 DEF Next

\* Every step is one of the process or leaves it alone.
LEMMA ProcessSteps ==
  ASSUME Served, [Next]_server
  PROVE  [StartupNext]_process
<1>1. CASE Starts \/ Stops \/ Signals \/ Exports \/ Uncaught
  BY <1>1 DEF Starts, Stops, Signals, Exports, Uncaught, StartupNext
<1>2. CASE Expires \/ UNCHANGED server
  BY <1>2 DEF Expires, server
<1>3. ASSUME NEW r \in Calls, Arrives(r) PROVE UNCHANGED process
  BY <1>3 DEF Arrives
<1>4. ASSUME NEW r \in Calls, Proceeds(r) \/ Leaves(r) PROVE [StartupNext]_process
  BY <1>4, ProcessMoves
<1> QED
  BY <1>1, <1>2, <1>3, <1>4 DEF Next

LEMMA Serves == Spec => []Served
BY InitServed, NextServed, PTL DEF Spec

(***************************************************************************)
(* The two halves keep to their own specifications when they share the     *)
(* process: requests come to a listening process only, end with it, and    *)
(* leave telemetry where it can still be recorded.                         *)
(***************************************************************************)
THEOREM HalvesCompose == Spec => Composes
<1>1. Init => StartupInit /\ RequestsInit
  BY DEF Init
<1>2. Served /\ [Next]_server => [StartupNext]_process
  BY ProcessSteps
<1>3. [Next]_server => [RequestsNext]_serving
  BY RequestSteps
<1> QED
  BY <1>1, <1>2, <1>3, Serves, PTL DEF Spec, Composes, StartupSpec, RequestsSpec

\* The types of a server process with its requests.
THEOREM TypeCorrect == Spec => []TypeOK
<1>1. StartupTypeOK /\ RequestsTypeOK => TypeOK
  BY DEF TypeOK
<1> QED
  BY <1>1, HalvesCompose, StartupTypes, RequestsTypes, PTL DEF Composes

(***************************************************************************)
(* What holds of the start alone and of requests alone holds of a server:  *)
(* its requests disturb neither its settings nor its telemetry, and its    *)
(* end in the middle of a request leaves the objects in Redis as           *)
(* the requests promise them.                                              *)
(***************************************************************************)
THEOREM ServerKeeps ==
  Spec => [](NoneLost /\ ScrapeableWorkers /\ NoImmortal /\ LifetimeOfWriter)
<1> QED
  BY HalvesCompose, NoOptionLost, WorkersAnswerMaster, PutsExpire, LifetimesMix, PTL
     DEF Composes

=============================================================================
