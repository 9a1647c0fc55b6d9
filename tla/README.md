# TLA+ models of the shared back-end library

The repository is a NestJS library for applications that run as a cluster of
Node.js processes: one master that accepts connections, and workers that serve
them. This directory holds TLA+ modules of the parts of it in which processes,
callbacks and timers meet, the TLC configurations that check them on small
instances, and theorems about them that the TLAPS proof system checks.

Paths below are relative to `libs/shared/src/` unless they start with a
directory of the repository root.

## Running

    tlc -workers 2 -config OtelAggregator_scrapes.cfg MCOtelAggregator.tla
    tlapm OtelAggregatorProofs.tla

Every `.cfg` is named `<module>_<question>.cfg` and is run on `MC<module>`.

## 1. Inventory of the system

| Part | Source | State it keeps | Operations | Speaks to |
|---|---|---|---|---|
| Metrics aggregator | `infrastructure/providers/opentelemetry-aggregator.ts`, `infrastructure/components/metrics/prom-exporter.ts` | Map of open scrapes with a counter of outstanding answers, the answers, a timer | `clusterMetrics`, the master's and the worker's message handlers, `merge` | workers over IPC |
| MasterService | `common/services/master.service.ts` | `activeWorkers` slots, `workerIndex`, `nextWorkerId` | `start`, `spawn`, `online` / `exit` handlers, connection router, `workerMonitor`, `eventLoopPerf` | workers over IPC, sockets |
| ClusterService | `common/services/cluster.service.ts` | `clusterStarted`, the server | `bootstrap`, `handleMasterMessages`, handlers of uncaught errors | the master |
| MainService | `common/services/main.service.ts` | the server, how far its start is, the timer after an uncaught error | `start` in one process | the providers, NestJS |
| Scheduler | `infrastructure/components/schedulers/` | tasks by name, a BehaviorSubject by name, a timer by task | add, remove, stop, start, restart, subscribe, callbacks | task functions |
| Rate limiter | `infrastructure/components/redis/ratelimiter/`, `redis/common/` | limiters by id in each worker | `canActivate`, `assert`, `setRateLimitHeaders` | Redis |
| Statistics | `infrastructure/components/statistics/` | `statsList` of each worker, startup time | publishing interval, `process`, `onCompleted`, `addStats` | a BullMQ queue in Redis, the master's `WorkerStarted` event |
| Redis service, clients | `infrastructure/components/redis/` | clients by name, objects in Redis | object reads, writes and deletions, each of one or two commands | Redis |
| RetryTransaction | `common/decorators/retry-transaction.decorator.ts`, `common/helpers/transaction-wrappers.ts` | attempts so far | the retry loop around a transaction | Redis or a database |
| Configuration | `config/`, `common/types/configs.ts` | the validated configuration, and the process's own copy of the files | merge, overlay, validate | environment, files, an external storage |
| OpenTelemetry SDK set-up | `infrastructure/providers/{opentelemetry,azure-monitor}.ts` | the SDK, its reader, spans not yet exported | `start`, `shutdown` | exporters |
| Logger and transports | `logger/` | transports, records not yet sent | `loadTransports`, `shutdown` | exporters |
| Shutdown handlers | `infrastructure/providers/opentelemetry.ts`, `logger/adapters/winston/transports/{azure,otel-collector}.transport.ts` | - | several SIGTERM handlers, the first to finish ends the process | all of the above |
| Providers of the infrastructure | `infrastructure/providers/`, `infrastructure/infrastructure.module.ts` | - | factories that NestJS runs side by side | the configuration |
| Metric registry, API metrics | `infrastructure/components/metrics/services/`, `metrics/middleware/` | instruments by name, requests and responses counted | creation, the counting middleware | OpenTelemetry |
| Exception filter | `common/services/exception-filter.service.ts` | - | `catch` | the response |
| Tracing, context modules | `infrastructure/components/` | none of their own | adapters, declarations | third-party libraries |

What is hard here, and where it bites, is the list `hazards` of
`PROJECT.json`. In short:

* **Answers, errors, timers and deaths interleave** in a scrape: each may come
  first, late, or never; the counter must be exact, the promise settle once.
* **Slots and processes** of the cluster change apart: a worker is dead before
  the master knows, its replacement has another id, and everything that
  remembered the id or the WorkerInfo is stale.
* **Callbacks await** in the scheduler between a read and a write of the same
  table, and batches throw in the middle.
* **Redis is shared and unreliable**: limits are counted there or in a worker,
  replies get lost, windows close between two steps of one request.
* **Jobs outlive** the processes and the run of the application they belong to.
* **Objects are written in two commands**, which other requests, expiries, lost
  replies and the end of the process come between.
* **Settings are read twice**, once from the files alone and once with the
  environment laid over them, and a variable replaces more than it names.
* **Providers are built side by side**, fail one by one, and leave handlers and
  telemetry behind; several handlers of SIGTERM race to end the process.

What makes each part correct:

* aggregator: a text that is complete or a rejection, once, always;
* cluster: every slot recovers, every connection has one owner and one fate,
  addresses stick, round robin is even, a worker boots once;
* scheduler: a task keeps hold of its timer and a priority is had once, except
  where a started task is started again or a callback writes back what it read
  before; a subscriber sees what is registered, removal is final;
* rate limiter: bounded bursts, one limit for all workers, requests pass all
  the limiters of their route, headers show the tightest;
* statistics: a list of this run's living workers and of nobody else;
* Redis objects: an object whose write succeeded expires, and with the lifetime of
  whoever wrote it as long as writes do not overlap;
* transactions: no caller waits for ever;
* configuration: no required option of the files is lost in silence (an
  optional one such as `redis.hostname` is, and the client then takes its own
  default), and what master and workers decide from the settings fits together;
* start and shutdown: a process starts or ends, and ends when it is told to;
* metrics: what is counted as a request is counted as a response.

## 2. Modules

| Module | What it is |
|---|---|
| `Scrape` | abstract: what `clusterMetrics()` promises its caller |
| `OtelAggregator` | the code of a scrape, master, workers and channels; refines `Scrape` |
| `OtelAggregatorProofs` | the theorems about it |
| `Cluster` | MasterService and ClusterService together |
| `ClusterProofs` | the theorems about it |
| `Scheduler` | the task scheduler |
| `SchedulerProofs` | the theorems about it |
| `RateLimiter` | guard and limiters in several workers, and Redis |
| `RateLimiterProofs` | the theorems about it |
| `Statistics` | publishing and listing of worker statistics through the queue |
| `StatisticsProofs` | the theorems about it |
| `Process` | what the modules below share: constants, what is assumed of them, and `exit` |
| `Settings` | pure: what files and environment make of an option, no state |
| `Startup` | one process from its settings to its exit; extends `Settings` |
| `StartupProofs` | the theorems about it |
| `Requests` | the requests of one process for one object of Redis |
| `RequestsProofs` | the theorems about it |
| `Server` | `Startup` and `Requests` composed: a process that serves |
| `ServerProofs` | the composition theorem, and what it makes of the others |
| `MC*` | constants of the small instances |

Operators whose comment starts with `Fault:` are plausible mistakes in the
code. No action uses them; put in place of the operator that follows them, they
are what the properties have been seen to catch.

### Scrape and OtelAggregator

`Scrape` has no messages: a scrape asks a set of workers, resolves with the
registries of all of them or rejects, once, and does not stay open.

`OtelAggregator` has the master's Map of requests as functions of the request
id: `requests` (its keys), `pending`, `responses`, `errorTimeout`; `outcome` and
`report` stand for the promise and the merged text. `ClusterMetrics` is
`clusterMetrics()`, `MetricsResponse` and `ErrorResponse` are the two branches
of the master's message handler, `Timeout` the callback of the timer, `Done` the
closure that settles at most once. The worker's handler takes two steps, since
it collects asynchronously: `ReceiveRequest`, then one of `Collected`,
`CollectionRejected` (a reader that is shut down: `collect()` rejects,
`prom-exporter.ts` swallows it and the answer is `[null]`) and `CollectionThrew`.
`Fork`, `StartWorker`, `Terminate`, `Exit` and `NoticeExit` are the life of a
worker; requests that reach one that has no listener yet are dropped, and those
it has not answered when it exits are lost. A registry is represented by the
worker it came from, which is what completeness is about. Answers are a set:
two scrapes may be answered in either order.

### Cluster

The master: `slot` is `activeWorkers`, `workers` is `cluster.workers`, `forks`
numbers the processes as the cluster module does, `workerIndex` and
`nextWorkerId` are the round-robin index and the monitor's choice. `Listen`,
`InitWorkers`, `HandleOnline`, `HandleExit`, `Accept` and `SelectFaster` are its
handlers. A worker is `proc`, `boot`, `doomed` (the ten-second timer after an
uncaught error runs) and its `inbox`; `ComeOnline`, `ReceiveBootstrap`,
`ReceiveConnection`, `BootDone`, `BootFails`, `UncaughtError`, `Crash`,
`DoomedExit` and `CleanExit` are its steps. `fate`, `given` and `target` are
what became of a connection, the slot it was given and the worker it was sent
to. A connection that is sent to a dead process counts as `"lost"`: the message goes
nowhere, and the paused socket also stays with the master, where nothing owns it.
Which worker the measured delays favour is a free choice.

### Scheduler

The service's data is a record, and an operation on it a function to the data
afterwards with a flag that it threw: `Add1`, `Stop1`, `Start1`, `Restart1` and
`Remove1` are one turn of the loops of `addTasks` and its sisters, `Each` is the
loop, a recursive function over the list, and what was done before a throw stays
done. A timer is a number;
`object` is `task.object`, `owner` the task it was bound to, `armed` the running
ones. A callback has the code's two awaits: `Fire` up to the first, `FnReturns`
(or `FnEnds`) up to the second, `Resolved` after it. `FnEnds` is also the second
await that rejects. `Orphans` are the running timers that no task can stop;
`StartedOver` and `Displaced` the two kinds of steps that make them.

### RateLimiter

`Arrive`, `Check` and `Consume` are the steps of `canActivate()` between awaits,
with `Ensure` and `Made` for the Map of limiters and their defaults, `Charged`
with `Counted` for `consume()` of the library rate-limiter-flexible (external:
modelled from its use; a block is a second command, sent after the reply),
`SourceOf` for the choice between Redis and the insurance in memory, and
`SetHeaders` for the headers. `ReplyLost`, `StoreFails`, `StoreReturns`, `Replace`
and `Tick` are the environment. `recent`, the ages of the passes a limiter gave,
oldest first and none as old as the shortest window, and the `seen` of a request
are history.

### Statistics

`Construct` and `HandleWorkerStarted` are a worker's start, `Publish` and
`UpdateStats` the interval with and without Redis, `Take` and `Process` the
consumer, `GetJob` and `OnCompleted` the two halves of `onCompleted()` around its
await, `AddStats` the entry and the eviction. `Remove`, `Die`, `Restart` and `Tick`
are the environment; BullMQ is external. The test `sentTime >= startupTime` is
modelled by what it tells apart: the run a job was sent in, or, before
`WorkerStarted`, whether it was sent before this worker was constructed. `Restart`
ends all old processes at once: runs of the application that overlap are not covered.

### Settings and Startup

`Settings` is what `config/` computes, as operators on a deployment, a record of
what the files leave out or turn off and what the environment sets or clears.
`Nested`, `Required` and `Optional` are the classes of `configs.ts` with the
fields the start of a process reads; fields that it reads in the same way are
one. `FileValue` is the process's own copy, `Value` and `Present` the
configuration its modules inject, in which `_.assignWith()` (`factory.ts:21`)
has replaced whole properties of `InfrastructureConfig`. `Valid` is
`validateSync()`: what is not there is not looked at.

`Startup` is the life of one process. `done` counts the steps of
`MainService.start()` or `ClusterService.bootstrap()` that are behind it:
`Instrument` and `Aggregate` (telemetry, before NestJS), `Configure`, `Load` of
each provider and `Create`, `HookOrListen` and `Emit`. `Reads` and `SdkReads` say
which classes a provider or SDK reads, also those that need not be there; `Reject` is
the rejected promise, heard of by `unhandledRejection` and its timer. `handlers`
are the parts that listen to SIGTERM, `items` the telemetry they hold back;
`Sigterm`, `Flushed`, `Doom` and `DoomedExit` are the ways out. `Configure` may also
reject with settings that are valid, as the external storage, formats and the
HTTPS files are not modelled.

### Requests and Server

`Requests` follows the requests of one process for one object of
`RedisService`. `at` is where a handler is; `Hmset`, `Pexpire`, `Exists`, `Hgetall`
and `Del` are its commands, each of which may fail or lose its reply, executed or not;
`Accept`, `GiveUp`, `FilterThrows` and `Retry` are `@RetryTransaction` around
it; `Respond`, `Miscount` and `Strand` are the response with the middleware that
counts it, which throws where `cluster.worker` is undefined. A throw inside the
exception filter is answered by a second call of the filter with Express 5
(`Miscount`) and is an unhandled rejection with Express 4 (`Strand`); the code
does not pin which, so both may happen. `value` and `life` are the puts that
wrote the value and the lifetime the object has, `met` is history: the requests
that were under way together.

`Server` extends both, which share nothing but `exit`. Requests arrive while the process listens
(`Arrives`), a response leaves telemetry (`Responds`), the settings say how it
is counted (`Counting`), a promise nobody hears of dooms the process
(`Strands`), and the end of the process cuts the requests off (`CutOff`), as no
handler of SIGTERM closes the server.

## 3. Runs

### That pass

| Run | Instance | What it shows |
|---|---|---|
| `OtelAggregator_scrapes` | 2 workers, 2 scrapes that may overlap | resolved scrapes are complete (`CompleteScrape`), the counter exact (`PendingIsOutstanding`), no answer meets a missing entry (`AnswerHasRequest`), the timer guards what is open (`OpenHasTimer`), promises settle once (`SettledOnce`), and the code implements `Scrape` with its liveness wherever no null registry is answered (`Implements`) |
| `Cluster_routes` | 2 slots, 2 connections of one address, 1 failure, all 4 configurations | `OneSlotEach`, `OneOwner`, `Sticky`, `Balanced`, `BootedOnce`, and `StrandedByRespawn`: nothing but a respawn strands a connection |
| `Cluster_recovers` | the same without connections, with the monitor, and with 2 failures or clean exits | `FleetRecovers`: every slot comes to be held by a worker that serves, or by one that exited cleanly, also when a replacement fails in turn; `SelectionHeals`: the monitor's choice comes to name a slot again |
| `Scheduler_batches` | 4 tasks, 2 names, batches of 2, 4 timers, 2 callbacks | `SubjectMirrors`; `OrphansExplained`: a running timer gets out of the reach of its task by a start of a started task, or by a callback that writes what it read over a task registered since, and in no other way; `ClashesExplained`: two tasks come to have one priority only by a callback that writes back a task removed or replaced since it was read |
| `RateLimiter_limits` | 2 workers, 3 requests, 3 routes, 1 id, 1 lost reply | `BurstBound` (by the loosest parameter of an id, as the code enforces no other), `SharedLimit`, `AdmittedByAll`, `HeadersTightest` |
| `Statistics_lists` | 2 processes, 1 restart, room for 1 job, stalled after 1 tick | `ThisRunOnly`, `ForgetsDead`, `WorkersListed` |
| `Server_lives` | 112 deployments, 2 requests in 4 of them, 2 attempts | `NoneLost`: a serving process lost no required option of its files; `ScrapeableWorkers`: a serving worker with the Node SDK can answer the master that scrapes it (with azure-monitor the two disagree, as `master.service.ts:114` does not look at the tracer); `NoImmortal`, `LifetimeOfWriter`: the lifetime of an object, where an application registers a single client (with the library's own provider every object method throws); `Ends`, `StartsOrEnds`, `Answered`: no process stays half started or half ended, no client waits for ever; `Composes`: the server implements both `Startup` and `Requests` |

Nothing is asked of the callers of the scheduler, as neither the code nor a document
does: they may remove, restart and add tasks while callbacks are under way, name a
task twice in one list, and start a started task.

### That find a violation

Each is a disagreement between the code and what it, or a document, says.

| Run | What happens |
|---|---|
| `OtelAggregator_hangs` | `ScrapeSettles`: the last answer is the `[null]` of a worker that is shutting down; the entry is dropped and the timer cleared (`opentelemetry-aggregator.ts:46-48`), `merge()` throws at line 50, and the promise is never settled, although the timer is there to reject with 'Operation timed out.' (line 109) |
| `Cluster_stranded` | `NoneStranded`: the monitor's choice was respawned under another id, `findIndex` is -1 (`master.service.ts:214`), the test of line 221 lets it pass, line 222 throws, and the socket is left without an owner, where line 251 would destroy it |
| `Cluster_retired` | `SentToLiving`: a worker that exits with code 0 is neither respawned nor taken out of its slot, since nothing sets `closing` (lines 299, 309), and connections go on being sent to it |
| `Server_single` | `ResponsesCounted`: in the process of MainService `cluster.worker` is undefined and line 128 of `api-metrics.middleware.ts` throws between the count of the request (line 121) and that of the response (line 138), although line 53 describes the latter as 'Total number of HTTP responses'; a successful request is answered with an error |
| `Scheduler_removed` | `CallbacksKeepTasks`: a task removed between the awaits of its callback is registered again at `scheduler.service.ts:205`; `API.md:84` says `removeJob(name)` removes it |

### Bounds, and why they are enough

* Two workers and two scrapes: the hazards of the aggregator are between two
  answers of one scrape, and between two scrapes at one worker. The theorems
  below lift the safety properties to any number of both.
* Two slots and one failure give three process ids: a stale selection, a respawn
  while a connection is under way, and bootstrap broadcasts to workers in every
  stage. A second failure, of the other worker or of the replacement, is in
  `Cluster_recovers` only, which has no connections; clean exits count as failures
  in that bound. Two connections of one address are what `Sticky` compares, and
  with two slots what `Balanced` counts. `Fingerprint` is the sum the code reduces
  modulo the number of slots.
* Two tasks that want one name and two that want one priority, batches of two:
  the second element of a batch is the one that throws after the first was done,
  and it may be the first again. Four timers allow a restart after each of the
  two starts, two callbacks allow two at once, of one task or of two.
* A route with two parameters of one id, the first of which declares a duration and
  so makes limiters that block, and one with the odd cases (no id, nothing declared,
  `getId` throws), with 3 requests that each take up to two points: limits of one and
  two points are exceeded, blocks begin, and two windows touch.
  Workers and requests are interchangeable in all the properties of that
  run, which are invariants: symmetry is sound.
* The 112 deployments of `Server_lives` leave out each optional class that the
  start reads, or turn one off, for each SDK and exporter, and lay one to four
  variables of the environment over complete files: each section replaced, and a
  section with and without the required options beside the variable. All of
  them start, fail and end; four also serve requests, since requests see of a
  deployment only its role, whether requests are counted, and whether it records
  telemetry: a worker with both, one with neither, a single process without and one with
  counts. Which kinds of requests go where is `Traffic`; together these are all
  kinds and all filters.
* Two requests make all the pairs that meet on an object, and two attempts one
  retry; a third request could only repeat what one of the two does, and the
  theorems lift what is said of the object to any number of both. Requests are
  taken in order: nothing but the order tells them apart. `MaxItems` 1 is the
  least at which a queue is empty, filled and full.
* The age of a list entry is bounded by the first age that counts as stalled.
  One restart makes jobs of an earlier run; room for one job excludes that jobs
  overtake each other, which no document orders.
* `CHECK_DEADLOCK FALSE` stands where the system, or the bounds on failures
  and scrapes, let everything come to rest: `Cluster_recovers`, the server after its end,
  and the other cluster, scheduler and aggregator runs whose cfg has it.

### Fairness

* Aggregator: the master's timers fire (`WF` of `Timeout`). Nothing is assumed
  of the workers, which may die or never answer: that is what the timer is for.
* Cluster: the event loops run. The master starts, handles its events and runs
  the selection interval; a worker comes online, reads its messages, ends its
  bootstrap one way or the other, and exits when its timer is due. Failures and
  clients owe nothing.
* Statistics: workers handle what they have been sent and the interval fires.
  `Publish` is strongly fair, because the room for jobs is a bound of the model:
  a worker in the code can always add one. `ForgetsDead` is claimed of
  behaviours in which every job is read before it is removed (a worker that is
  later exits), `WorkersListed` of those in which, besides, jobs do not stall.
* Server: what a start awaits settles (`Starts`), a flush succeeds or fails and
  the timer of a doomed process fires (`Stops`), and the handler of each request
  goes on (`Proceeds`): Redis answers a command or rejects it, an interval
  elapses. Nobody owes a request, a signal, a batch or a closed connection.
* Scheduler and rate limiter: safety only. No document promises that a callback
  ends or that a request is answered in time.

## 4. What is proved

Eight modules of proofs, each for every value of the constants. Their only
assumptions are the named `ASSUME`s of the modules they extend: `AggregatorAssumption`,
`ClusterAssumption` (at least one slot, finitely many connections),
`SchedulerAssumption` (types), `RateLimiterAssumption` (types, finitely many routes,
and each id is what some parameter leads to), `StatisticsAssumption`, and those of
`Process` (kinds and filters of requests are known ones, at least one attempt and
room for one item of telemetry). TLC evaluates them with the constants of the runs.
Nothing is supposed of what callers do.

| Module | Theorem | Statement |
|---|---|---|
| `OtelAggregatorProofs` | `TypeCorrect` | `Spec => []TypeOK` |
| | `ResolvedIsComplete` | `Spec => []CompleteScrape` |
| | `PendingCounts` | `Spec => []PendingIsOutstanding` |
| | `LookupFinds` | `Spec => []AnswerHasRequest` |
| | `SettlesOnce` | `Spec => SettledOnce` |
| | `TimerGuardsOpen` | `Spec => []OpenHasTimer` |
| | `ImplementsPromise` | `Spec => Promise!Safety`: every step of the code is a step of `Scrape` or none |
| `ClusterProofs` | `TypeCorrect` | `Spec => []TypeOK` |
| | `SlotsAreWorkers` | `Spec => []OneSlotEach` |
| | `RespawnStrands` | `Spec => []StrandedByRespawn` |
| | `SocketsHaveOneOwner` | `Spec => []OneOwner` |
| | `AddressesStick` | `Spec => []Sticky` |
| | `RoundRobinIsEven` | `Spec => []Balanced` |
| | `WorkersBootOnce` | `Spec => BootedOnce` |
| `SchedulerProofs` | `TypeCorrect` | `Spec => []TypeOK` |
| | `SubjectsMirror` | `Spec => []SubjectMirrors` |
| | `ClashesAreExplained` | `Spec => ClashesExplained` |
| | `OrphansAreExplained` | `Spec => OrphansExplained` |
| `RateLimiterProofs` | `TypeCorrect` | `Spec => []TypeOK` |
| | `AdmissionIsEarned` | `Spec => []AdmittedByAll` |
| | `HeadersShowTightest` | `Spec => []HeadersTightest` |
| | `BurstsBounded` | `Spec => []BurstBound` |
| | `LimitIsShared` | `Spec => []SharedLimit` |
| `StatisticsProofs` | `TypeCorrect` | `Spec => []TypeOK` |
| | `ListsThisRun` | `Spec => []ThisRunOnly` |
| `StartupProofs` | `StartupTypes` | `StartupSpec => []StartupTypeOK` |
| | `NoOptionLost` | `StartupSpec => []NoneLost` |
| | `WorkersAnswerMaster` | `StartupSpec => []ScrapeableWorkers` |
| `RequestsProofs` | `RequestsTypes` | `RequestsSpec => []RequestsTypeOK` |
| | `PutsExpire` | `RequestsSpec => []NoImmortal` |
| | `LifetimesMix` | `RequestsSpec => []LifetimeOfWriter` |
| `ServerProofs` | `HalvesCompose` | `Spec => Composes`: every behaviour of `Server` is one of `Startup` and one of `Requests` |
| | `TypeCorrect` | `Spec => []TypeOK` |
| | `ServerKeeps` | `Spec => [](NoneLost /\ ScrapeableWorkers /\ NoImmortal /\ LifetimeOfWriter)` |

By `HalvesCompose` the theorems about `Startup` and `Requests` become theorems about
a server, `TypeCorrect` and `ServerKeeps`, without another invariant.

Hardly any of these properties is inductive. Each module therefore has an
inductive invariant (`IInv`, `RInv`, `StartupInv`, `RequestsInv`), with a lemma that it
holds initially, a lemma for each action that keeps it, and the properties
implied by it. What it adds, and why:

* **`OtelAggregatorProofs`.** That `pending` reaches zero exactly at the last
  answer rests on where the answers still owed can be. An answer a worker owes to
  a scrape is in one place and in no other: its request is in the worker's
  `inbox`, or the worker is collecting, or the answer is on its way, and then the
  worker has not been counted in (`Places`); the counter is the number of
  workers that have not been (`Counting`); scrapes not begun have left no trace
  (`Fresh`); and `Settling` is how outcome, text, Map entry and timer go together.
  From `Places` two answers of one worker to one scrape are impossible, so each
  answer takes one worker from the set that is counted; the cardinality lemmas
  turn that into the `- 1` of the code.
* **`ClusterProofs`.** Ids are given in order and each process leaves one exit
  event (`Forked`), from which a slot is never given to two processes. There
  are enough ids for all respawns because each is paid for by a failure,
  those to come included (`Falling`, `Paid`). The monitor's choice names a slot
  unless a respawn has changed it (`Selected`), which is all there is to
  `StrandedByRespawn`. Stickiness is that an index is a function of the address
  (`Hashed`); evenness that the slots up to `workerIndex` have one connection
  more than the others (`Rotates`, `Ahead`), which `Balanced` alone does not
  preserve.
* **`SchedulerProofs`.** The invariant speaks of the service's data as a record, so
  that it can be claimed between the steps of a batch, which the state never
  shows: `Sound` has each task under its own name, the subject beside it, and no
  timer that was not created; `RunsRight` that a callback which has read a task has
  read one of its name. Each of the five operations on one element keeps `Sound`
  and adds no clash of priorities (`ClashDo`), and then, by induction over the list
  (`EachKeeps`), neither does a batch of any length, wherever it throws. Of the
  operations on one element only a start puts a timer out of reach (`Lost`,
  `LostDo`), and only that of the task it starts, which then has a younger one
  (`Outdone`, `LostStart`); by induction over the list (`LostEach`) the same holds
  of a batch (`BatchLoses`). What is left of `ClashesExplained` and
  `OrphansExplained` is the end of a callback, which writes one registration and
  nothing of the timers (`WritesBack`).
* **`RateLimiterProofs`.** A request that is still walking has passed exactly the parameters
  with an id before the one it is at (`Walks`: `UpTo`, `Covers`), and one that
  waits for a limiter finds it in the Map of its worker (`Backed`), which the
  replacement of a worker keeps because it ends the worker's requests. For the
  passes of a limiter the number alone is not inductive. `Burst` divides them,
  oldest first, at some `k`: those after it belong to the open window, so there are at
  most as many as it has counted; those before it are no more than the points
  either, and each is so old that it is out of sight when the window closes. When
  it does, the counted ones become the old ones; a block makes the window longer,
  never shorter than the shortest that was declared. `StoreOnly` is why one limiter's bound
  is everybody's: while Redis has answered all along no worker has given a pass.
* **`StatisticsProofs`.** Whoever lives belongs to the run that goes on
  (`Current`); a job has one sender, which was born (`Good`), so the run of a
  process cannot change once it is in a list (`Listed`).
* **`StartupProofs`.** What each step behind the process has settled:
  the SDK and reader (`Instrumented`), the aggregator (`Aggregated`), that the
  configuration is valid (`Configured`), and that every provider could be built
  (`Loaded`, from `Failing`: one that could not has rejected the start). That a
  required option cannot be lost then is a fact about the settings
  (`RequiredKept`): the class is there, since a provider reads it, and a class
  that is there and valid has its required fields, from the files if its section was not
  replaced and from a variable that names them if it was.
* **`RequestsProofs`.** Puts that can still write have met (`Together`), and a put
  between its two commands has met the writer of the value (`Between`): when it
  sets the lifetime, the two belong to puts under way together, or are one.
* **`ServerProofs`.** A request that has come found the server listening, a step
  of the start that is never taken back (`Served`); so every step of the
  server is a step or a stutter of each half.

Two tools of those proofs are worth a word. The theorems of the library that take a
predicate as a parameter (induction over numbers, over finite sets) are beyond the
installed provers. `LeastNat`, that a nonempty set of numbers has a least one, follows
from the well-foundedness of `<`, which is stated of a relation; from it come
induction over sets of numbers (`NatInductive`), the existence and the steps of the
function that `Each` is (`AfterExists`, `EachIs`), and that a finite set of numbers has a
greatest element (`GreatestNat`), without which `MostPoints` would be nothing.

Only model-checked: liveness (`Implements`, `FleetRecovers`, `SelectionHeals`,
`ForgetsDead`, `WorkersListed`, `Ends`, `StartsOrEnds`, `Answered`), which the
prover has no rules for. Every invariant and every action property of the passing
runs is stated by a theorem.

## 5. What is not modelled, and why

* Contents of registries, statistics, tasks' responses, error bodies: data that
  no control depends on.
* `workerMonitor()`'s measurements: abstracted in `Cluster` to a free choice of
  the worker they favour. The number of monitors and timers is left out.
* Durations: timers fire when they are armed. Delays beyond 2^31-1 milliseconds,
  cron expressions and `Retry-After` are therefore outside the models.
* Option formats, ranges and conversions: `Valid` knows whether a value is
  there, and `Configure` may reject for any other reason.
* The registry of instruments, sizes and durations in the API middleware:
  passed on to the OpenTelemetry SDK.
* The clean-up of `RedisCoreModule`: nothing in the library calls `app.close()`,
  and no shutdown hooks are enabled, so it does not run.
* Levels, formats and the console, file and Slack transports of the logger,
  tracing decorators and the context modules: mappings, adapters over
  third-party libraries and declarations without state of their own.
* Handlers with more than one object of Redis, and database transactions other
  than a put: `@RetryTransaction` does not look at what it wraps.

Hazards without a property, and the reason, are marked in `PROJECT.json`.

## 6. Plan

Done, the most important behaviour first: the aggregator and its promise; the
cluster; the scheduler; the rate limiter; statistics; settings, start and end of
a process; requests on Redis with their transactions, responses and counts; the
server composed of the last two; proofs of the safety of all of them.

What would come next:

* the measurements of `workerMonitor()`, in place of the free choice in `Cluster`,
  with the monitors of dead workers that never stop;
* delays as 32-bit integers in the scheduler, with cron and runAt as operators
  checked against a reference definition;
* room for two jobs in `Statistics`, so that jobs overtake each other.
