------------------------------ MODULE Cluster -------------------------------
(***************************************************************************)
(* The cluster of common/services/master.service.ts and cluster.service.ts:*)
(* a master that accepts every TCP connection and hands it to one of its   *)
(* worker processes, and workers that build the application when they are  *)
(* told to and then serve what they are handed.                            *)
(*                                                                         *)
(* Master and workers are separate processes joined by FIFO IPC channels.  *)
(* Workers crash, fail to boot, die ten seconds after an error nobody      *)
(* caught, or exit cleanly on SIGTERM; the master learns of each by an     *)
(* event that comes later.  Which worker the performance monitor finds     *)
(* fastest depends on measurements and is left open: any occupied slot.    *)
(***************************************************************************)
EXTENDS Integers, Sequences, FiniteSets

CONSTANTS N,            \* workerCount
          MaxFailures,  \* bound on crashes, fatal errors and clean exits
          Conns,        \* the connections clients open
          Fingerprint,  \* farmhash.fingerprint32 of a connection's address
          Configs,      \* the values of config.listen that are considered
          CleanExits    \* may a worker exit with code 0?

ASSUME ClusterAssumption ==
    /\ N \in Nat \ {0}
    /\ MaxFailures \in Nat
    /\ IsFiniteSet(Conns)
    /\ Fingerprint \in [Conns -> Nat]
    /\ Configs \subseteq [perfMonitor : BOOLEAN, roundRobin : BOOLEAN]
    /\ CleanExits \in BOOLEAN
    /\ "bootstrap" \notin Conns

VARIABLES
    listen,        \* config.listen: enable_perf_monitor, enable_round_robin
    listening,     \* has the listen callback of the master run?
    slot,          \* activeWorkers: the worker id of each slot, 0 before spawn
    forks,         \* the last id cluster.fork() gave
    workers,       \* the keys of cluster.workers
    workerIndex,   \* the index the last connection was given
    nextWorkerId,  \* what eventLoopPerf() returns
    onlineEvents,  \* 'online' events the master has not handled
    exitEvents,    \* 'exit' events it has not handled: <<id, clean>>
    proc,          \* process of each worker id
    boot,          \* how far bootstrap() got in each worker
    doomed,        \* workers with process.exit(1) scheduled
    inbox,         \* messages the master sent and the worker has not read
    failures,      \* number of failures and clean exits so far
    fate,          \* what became of each connection
    given,         \* history: the index the connection was given
    target         \* history: the worker it was sent to, 0 for none

masterVars == <<listen, listening, slot, forks, workers>>
routeVars == <<workerIndex, nextWorkerId>>
eventVars == <<onlineEvents, exitEvents>>
workerVars == <<proc, boot, doomed, failures>>
connVars == <<fate, given, target>>
vars == <<listen, listening, slot, forks, workers, workerIndex, nextWorkerId,
          onlineEvents, exitEvents, proc, boot, doomed, inbox, failures,
          fate, given, target>>

Slots == 0 .. N - 1
Ids == 1 .. N + MaxFailures

Alive(w) == proc[w] \in {"starting", "online"}

\* activeWorkers.length: the slots are filled all at once.
Filled == \A i \in Slots : slot[i] # 0
ActiveLength == IF Filled THEN N ELSE 0

Init ==
    /\ listen \in Configs
    /\ listening = FALSE
    /\ slot = [i \in Slots |-> 0]
    /\ forks = 0
    /\ workers = {}
    /\ workerIndex = -1
    /\ nextWorkerId = -1
    /\ onlineEvents = {}
    /\ exitEvents = {}
    /\ proc = [w \in Ids |-> "none"]
    /\ boot = [w \in Ids |-> "idle"]
    /\ doomed = {}
    /\ inbox = [w \in Ids |-> <<>>]
    /\ failures = 0
    /\ fate = [c \in Conns |-> "new"]
    /\ given = [c \in Conns |-> -1]
    /\ target = [c \in Conns |-> 0]

-----------------------------------------------------------------------------
\* The master starts.  listen() and initWorkers() complete in either order.

Listen ==
    /\ ~ listening
    /\ listening' = TRUE
    /\ UNCHANGED <<listen, slot, forks, workers, routeVars, eventVars, workerVars,
                   inbox, connVars>>

InitWorkers ==
    /\ forks = 0
    /\ forks' = N
    /\ slot' = [i \in Slots |-> i + 1]
    /\ workers' = 1 .. N
    /\ proc' = [w \in Ids |-> IF w <= N THEN "starting" ELSE "none"]
    /\ UNCHANGED <<listen, listening, routeVars, eventVars, boot, doomed, failures,
                   inbox, connVars>>

\* Fault: the selection is made once and kept.
SelectFasterOnce ==
    /\ listening
    /\ nextWorkerId = -1
    /\ nextWorkerId' \in IF listen.perfMonitor /\ Filled
                         THEN {slot[i] : i \in Slots} ELSE {-1}
    /\ UNCHANGED <<masterVars, workerIndex, eventVars, workerVars, inbox, connVars>>

\* The check of eventLoopMonitor().  Only slots of monitored workers are
\* candidates, and with monitoring off there are none.
SelectFaster ==
    /\ listening
    /\ nextWorkerId' \in IF listen.perfMonitor /\ Filled
                         THEN {slot[i] : i \in Slots} ELSE {-1}
    /\ UNCHANGED <<masterVars, workerIndex, eventVars, workerVars, inbox, connVars>>

-----------------------------------------------------------------------------
\* handleNetServerConnection().

\* Fault: the search ends one slot early.
FindIndexShort(id) ==
    IF \E i \in 0 .. N - 2 : slot[i] = id
    THEN CHOOSE i \in 0 .. N - 2 : slot[i] = id
    ELSE -1

FindIndex(id) ==
    IF \E i \in Slots : slot[i] = id
    THEN CHOOSE i \in Slots : slot[i] = id
    ELSE -1

\* Fault: the index is not reduced to the number of workers.
NextIndexUnreduced(c) ==
    IF nextWorkerId >= 0 THEN FindIndex(nextWorkerId)
    ELSE IF listen.roundRobin THEN workerIndex + 1
    ELSE Fingerprint[c]

\* Fault: the flag is read the wrong way round.
NextIndexSwapped(c) ==
    IF nextWorkerId >= 0 THEN FindIndex(nextWorkerId)
    ELSE IF ~ listen.roundRobin THEN (workerIndex + 1) % N
    ELSE Fingerprint[c] % N

NextIndex(c) ==
    IF nextWorkerId >= 0 THEN FindIndex(nextWorkerId)
    ELSE IF listen.roundRobin THEN (workerIndex + 1) % N
    ELSE Fingerprint[c] % N

\* Fault: the connection is also sent to the worker forked last.
SendConnectionTwice(c, w) ==
    /\ target' = [target EXCEPT ![c] = w]
    /\ inbox' = [v \in Ids |-> IF v \in {w, forks} /\ Alive(v)
                               THEN Append(inbox[v], c) ELSE inbox[v]]
    /\ fate' = [fate EXCEPT ![c] = IF Alive(w) THEN "sent" ELSE "lost"]

\* Nothing is thrown by sending to a process that is gone: the connection is
\* lost with the message.  Its paused socket also stays with the master, where
\* nothing owns it any more; for its client that is the same.
SendConnection(c, w) ==
    /\ target' = [target EXCEPT ![c] = w]
    /\ IF Alive(w)
       THEN /\ inbox' = [inbox EXCEPT ![w] = Append(@, c)]
            /\ fate' = [fate EXCEPT ![c] = "sent"]
       ELSE /\ fate' = [fate EXCEPT ![c] = "lost"]
            /\ UNCHANGED inbox

\* Index -1 passes the test of the length: activeWorkers[-1].worker throws, the
\* exception is logged, and the paused socket is left without an owner.
Accept(c) ==
    /\ listening
    /\ fate[c] = "new"
    /\ workerIndex' = NextIndex(c)
    /\ given' = [given EXCEPT ![c] = workerIndex']
    /\ \/ /\ workerIndex' = -1
          /\ fate' = [fate EXCEPT ![c] = "stranded"]
          /\ UNCHANGED <<inbox, target>>
       \/ /\ workerIndex' \in 0 .. ActiveLength - 1
          /\ SendConnection(c, slot[workerIndex'])
       \/ /\ workerIndex' >= ActiveLength
          /\ fate' = [fate EXCEPT ![c] = "unavailable"]
          /\ UNCHANGED <<inbox, target>>
    /\ UNCHANGED <<masterVars, nextWorkerId, eventVars, workerVars>>

-----------------------------------------------------------------------------
\* The master's handlers of worker events.

\* handleOnlineWorker(): every worker is sent a bootstrap message each time
\* any worker comes online.
HandleOnline(w) ==
    /\ w \in onlineEvents
    /\ onlineEvents' = onlineEvents \ {w}
    /\ inbox' = [v \in Ids |-> IF v \in workers /\ Alive(v)
                               THEN Append(inbox[v], "bootstrap") ELSE inbox[v]]
    /\ UNCHANGED <<masterVars, routeVars, exitEvents, workerVars, connVars>>

\* Fault: the slot is computed from the id of the new worker.
RespawnedById(w, v) == [slot EXCEPT ![(v - 1) % N] = v]

\* Fault: the exit of a worker is heard in initWorkers() and not in spawn().
RespawnedOnce(w, v) == [i \in Slots |-> IF slot[i] = w /\ w <= N THEN v ELSE slot[i]]

\* spawn(index) of the worker that died: a respawned worker takes its slot.
Respawned(w, v) == [i \in Slots |-> IF slot[i] = w THEN v ELSE slot[i]]

\* After a clean exit the slot keeps the worker that is gone: nothing sets
\* closing.
HandleExit(w, clean) ==
    /\ <<w, clean>> \in exitEvents
    /\ exitEvents' = exitEvents \ {<<w, clean>>}
    /\ IF clean
       THEN /\ workers' = workers \ {w}
            /\ UNCHANGED <<slot, forks, proc>>
       ELSE LET v == forks + 1 IN
            /\ forks' = v
            /\ slot' = Respawned(w, v)
            /\ workers' = (workers \ {w}) \cup {v}
            /\ proc' = [proc EXCEPT ![v] = "starting"]
    /\ UNCHANGED <<listen, listening, routeVars, onlineEvents, boot, doomed, failures,
                   inbox, connVars>>

-----------------------------------------------------------------------------
\* A worker process.

ComeOnline(w) ==
    /\ proc[w] = "starting"
    /\ proc' = [proc EXCEPT ![w] = "online"]
    /\ onlineEvents' = onlineEvents \cup {w}
    /\ UNCHANGED <<masterVars, routeVars, exitEvents, boot, doomed, failures,
                   inbox, connVars>>

\* Fault: clusterStarted is set when bootstrap() is over.
ClusterStartedLate(w) == boot[w] = "serving"

\* clusterStarted is set before bootstrap() is called.
ClusterStarted(w) == boot[w] # "idle"

\* handleMasterMessages(): one bootstrap message gets through.
ReceiveBootstrap(w) ==
    /\ proc[w] = "online"
    /\ inbox[w] # <<>>
    /\ Head(inbox[w]) = "bootstrap"
    /\ inbox' = [inbox EXCEPT ![w] = Tail(@)]
    /\ boot' = [boot EXCEPT ![w] = IF ClusterStarted(w) THEN @ ELSE "booting"]
    /\ UNCHANGED <<masterVars, routeVars, eventVars, proc, doomed, failures, connVars>>

\* Until bootstrap() has set the server a connection is reset.
ReceiveConnection(w) ==
    /\ proc[w] = "online"
    /\ inbox[w] # <<>>
    /\ LET c == Head(inbox[w]) IN
       /\ c \in Conns
       /\ fate' = [fate EXCEPT ![c] = IF boot[w] = "serving" THEN "served" ELSE "reset"]
    /\ inbox' = [inbox EXCEPT ![w] = Tail(@)]
    /\ UNCHANGED <<masterVars, routeVars, eventVars, workerVars, given, target>>

\* The awaits of bootstrap() end with the server set ...
BootDone(w) ==
    /\ proc[w] = "online"
    /\ boot[w] = "booting"
    /\ boot' = [boot EXCEPT ![w] = "serving"]
    /\ UNCHANGED <<masterVars, routeVars, eventVars, proc, doomed, failures,
                   inbox, connVars>>

\* ... or one of them rejects, nobody catches it, and the handler of
\* unhandledRejection schedules the exit.
BootFails(w) ==
    /\ w \in doomed \/ failures < MaxFailures
    /\ proc[w] = "online"
    /\ boot[w] = "booting"
    /\ boot' = [boot EXCEPT ![w] = "failed"]
    /\ doomed' = doomed \cup {w}
    /\ failures' = IF w \in doomed THEN failures ELSE failures + 1
    /\ UNCHANGED <<masterVars, routeVars, eventVars, proc, inbox, connVars>>

\* An error nobody caught: the worker goes on for ten seconds.
UncaughtError(w) ==
    /\ failures < MaxFailures
    /\ proc[w] = "online"
    /\ w \notin doomed
    /\ doomed' = doomed \cup {w}
    /\ failures' = failures + 1
    /\ UNCHANGED <<masterVars, routeVars, eventVars, proc, boot, inbox, connVars>>

\* The process ends; connections it has not taken are lost.
Ended(clean) == IF clean THEN "exited" ELSE "died"

Die(w, clean) ==
    /\ Alive(w)
    /\ proc' = [proc EXCEPT ![w] = Ended(clean)]
    /\ exitEvents' = exitEvents \cup {<<w, clean>>}
    /\ inbox' = [inbox EXCEPT ![w] = <<>>]
    /\ fate' = [c \in Conns |-> IF fate[c] = "sent" /\ target[c] = w
                                THEN "lost" ELSE fate[c]]
    /\ UNCHANGED <<masterVars, routeVars, onlineEvents, boot, doomed, given, target>>

\* Killed by a signal, out of memory, or process.exit with another code.
Crash(w) ==
    /\ failures < MaxFailures
    /\ w \notin doomed
    /\ failures' = failures + 1
    /\ Die(w, FALSE)

\* The timer of APP_SHUTDOWN_INTERVAL.
DoomedExit(w) ==
    /\ w \in doomed
    /\ Die(w, FALSE)
    /\ UNCHANGED failures

\* process.exit(0) of a SIGTERM handler, or Ctrl-C on Windows (3221225786).
CleanExit(w) ==
    /\ CleanExits
    /\ proc[w] = "online"
    /\ failures < MaxFailures
    /\ failures' = failures + 1
    /\ Die(w, TRUE)

-----------------------------------------------------------------------------
MasterStep ==
    \/ Listen
    \/ InitWorkers
    \/ SelectFaster
    \/ \E c \in Conns : Accept(c)
    \/ \E w \in Ids : HandleOnline(w)
    \/ \E w \in Ids, clean \in BOOLEAN : HandleExit(w, clean)

WorkerStep(w) ==
    \/ ComeOnline(w)
    \/ ReceiveBootstrap(w)
    \/ ReceiveConnection(w)
    \/ BootDone(w)
    \/ BootFails(w)
    \/ UncaughtError(w)
    \/ Crash(w)
    \/ DoomedExit(w)
    \/ CleanExit(w)

Next == MasterStep \/ \E w \in Ids : WorkerStep(w)

Spec == Init /\ [][Next]_vars

\* The event loops run: the master starts, runs its timers and handles its
\* events; a worker that starts comes online, reads its messages, ends its
\* bootstrap one way or the other, and exits when its timer is due.  Clients
\* and failures owe nothing.
FairSpec ==
    /\ Spec
    /\ WF_vars(Listen)
    /\ WF_vars(InitWorkers)
    /\ WF_vars(SelectFaster)
    /\ \A w \in Ids :
        /\ WF_vars(HandleOnline(w))
        /\ \A clean \in BOOLEAN : WF_vars(HandleExit(w, clean))
        /\ WF_vars(ComeOnline(w))
        /\ WF_vars(ReceiveBootstrap(w) \/ ReceiveConnection(w))
        /\ WF_vars(BootDone(w) \/ BootFails(w))
        /\ WF_vars(DoomedExit(w))

-----------------------------------------------------------------------------
Fates == {"new", "sent", "served", "reset", "lost", "stranded", "unavailable"}

\* The types of the master's and the workers' state; an index is never out of
\* range (master.service.ts:211-221).
TypeOK ==
    /\ listen \in Configs
    /\ listening \in BOOLEAN
    /\ slot \in [Slots -> 0 .. N + MaxFailures]
    /\ forks \in 0 .. N + MaxFailures
    /\ workers \in SUBSET Ids
    /\ workerIndex \in -1 .. N - 1
    /\ nextWorkerId \in {-1} \cup Ids
    /\ onlineEvents \in SUBSET Ids
    /\ exitEvents \in SUBSET (Ids \X BOOLEAN)
    /\ proc \in [Ids -> {"none", "starting", "online", "died", "exited"}]
    /\ boot \in [Ids -> {"idle", "booting", "failed", "serving"}]
    /\ doomed \in SUBSET Ids
    /\ inbox \in [Ids -> Seq({"bootstrap"} \cup Conns)]
    /\ failures \in 0 .. MaxFailures
    /\ fate \in [Conns -> Fates]
    /\ given \in [Conns -> -1 .. N - 1]
    /\ target \in [Conns -> 0 .. N + MaxFailures]

Serving(w) == proc[w] = "online" /\ boot[w] = "serving"

(***************************************************************************)
(* Every process that runs, and every one whose exit the master has still  *)
(* to handle, sits in one slot, and no slot is shared: a respawn neither   *)
(* leaves a running worker that gets no connections nor fills the slot of  *)
(* a worker that is alive (master.service.ts:288-320).                     *)
(***************************************************************************)
OneSlotEach ==
    /\ \A w \in Ids :
        Alive(w) \/ (\E clean \in BOOLEAN : <<w, clean>> \in exitEvents) =>
            \E i \in Slots : slot[i] = w
    /\ \A i, j \in Slots : slot[i] = slot[j] /\ slot[i] # 0 => i = j

(***************************************************************************)
(* A connection is stranded, accepted and sent to no worker, only if       *)
(* some worker was respawned: the selection of the performance monitor     *)
(* goes stale in no other way (master.service.ts:213-222, 363-401).        *)
(***************************************************************************)
StrandedByRespawn ==
    (\E c \in Conns : fate[c] = "stranded") => listen.perfMonitor /\ forks > N

(***************************************************************************)
(* A connection on its way is in the queue of the worker it was sent to,   *)
(* once, and in no other queue: no socket is handed to two processes.      *)
(***************************************************************************)
OneOwner ==
    \A w \in Ids : \A i \in DOMAIN inbox[w] :
        inbox[w][i] \in Conns =>
            LET c == inbox[w][i] IN
            /\ fate[c] = "sent" /\ target[c] = w
            /\ \A j \in DOMAIN inbox[w] : inbox[w][j] = c => j = i

(***************************************************************************)
(* Sticky sessions: without monitoring and round robin, connections from   *)
(* one address are all given the same slot, through any number of          *)
(* respawns (master.service.ts:217-219, 274-276).                          *)
(***************************************************************************)
Sticky ==
    ~ listen.perfMonitor /\ ~ listen.roundRobin =>
        \A c, d \in Conns :
            /\ given[c] # -1 /\ given[d] # -1
            /\ Fingerprint[c] = Fingerprint[d]
            => given[c] = given[d]

(***************************************************************************)
(* Round robin without monitoring spreads the connections evenly: no slot  *)
(* is ever two ahead of another, whatever dies or is respawned in between. *)
(***************************************************************************)
Balanced ==
    ~ listen.perfMonitor /\ listen.roundRobin =>
        \A i, j \in Slots :
            Cardinality({c \in Conns : given[c] = i})
                <= Cardinality({c \in Conns : given[c] = j}) + 1

(***************************************************************************)
(* The broadcasts that come with every respawn do not restart a worker:    *)
(* once its bootstrap has ended, well or not, it is not begun again, and a *)
(* running one is not begun a second time (cluster.service.ts:47-58).      *)
(***************************************************************************)
BootedOnce ==
    [][\A w \in Ids :
        /\ boot[w] \in {"failed", "serving"} => boot'[w] = boot[w]
        /\ boot'[w] # boot[w] => boot[w] = "idle" \/ boot'[w] # "booting"]_vars

(***************************************************************************)
(* After the last failure, be it of a replacement, every slot comes to be  *)
(* held by a worker that serves and stays, or by one that exited cleanly,  *)
(* and by none that died (master.service.ts:304-320).                      *)
(***************************************************************************)
FleetRecovers ==
    \A i \in Slots :
        <>[](/\ slot[i] \in Ids
             /\ \/ Serving(slot[i]) /\ slot[i] \notin doomed
                \/ proc[slot[i]] = "exited" /\ slot[i] \notin workers)

(***************************************************************************)
(* The monitor's selection comes to name a worker that has a slot, and     *)
(* again whenever it named one that was replaced                           *)
(* (master.service.ts:363-401).                                            *)
(***************************************************************************)
SelectionHeals ==
    []<>(listen.perfMonitor => FindIndex(nextWorkerId) # -1)

(***************************************************************************)
(* What the master says of itself: a connection for which there is no      *)
(* worker is destroyed with 'No available workers.' or answered with       *)
(* 'Worker with index ... is not available.' (master.service.ts:251-256);  *)
(* none is left without an owner.                                          *)
(***************************************************************************)
NoneStranded == \A c \in Conns : fate[c] # "stranded"

(***************************************************************************)
(* ... and none is sent to a worker whose exit the master has handled.     *)
(***************************************************************************)
SentToLiving ==
    [][\A c \in Conns :
           fate[c] = "new" /\ target'[c] # 0 => target'[c] \in workers]_vars

=============================================================================
