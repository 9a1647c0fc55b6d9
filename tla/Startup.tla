------------------------------- MODULE Startup -------------------------------
(***************************************************************************)
(* The life of one server process, from its settings to its exit:          *)
(* MainService.start(), or ClusterService.bootstrap() in a worker; the     *)
(* OpenTelemetry SDK started before NestJS (infrastructure/providers/      *)
(* opentelemetry.ts, azure-monitor.ts); the providers NestJS builds side   *)
(* by side; the telemetry they hold back; and the ways out, by a SIGTERM   *)
(* handler, by the timer after an uncaught error, or killed.               *)
(***************************************************************************)
EXTENDS Settings, Process, Sequences

VARIABLES deployment,  \* the settings of this process
          done,        \* how many steps of the start are behind it
          settled,     \* providers that are built, or failed
          rejected,    \* the promise of start() or bootstrap() is rejected
          sdk,         \* the telemetry SDK
          reader,      \* its metric reader
          aggregator,  \* the worker answers scrapes of the master
          handlers,    \* parts that listen to SIGTERM
          items,       \* spans and log records not yet exported, by part
          flushing,    \* parts that are shutting down after SIGTERM
          doomed       \* the timer of process.exit(1) runs

process == <<deployment, done, settled, rejected, sdk, reader, aggregator,
            handlers, items, flushing, doomed, exit>>

Parts == {"sdk", "azure_log", "otel_log"}

\* Both services take the same steps, but for the hook of the application.
Steps(d) ==
    IF d.role = "single"
    THEN <<"instrument", "aggregate", "configure", "load", "hook", "listen", "emit">>
    ELSE <<"instrument", "aggregate", "configure", "load", "listen", "emit", "hook">>

Behind(s) == \E i \in 1 .. done : Steps(deployment)[i] = s

Current(s) ==
    /\ exit = "no" /\ ~ rejected
    /\ done < Len(Steps(deployment))
    /\ Steps(deployment)[done + 1] = s

Started == done = Len(Steps(deployment))

\* The HTTP server accepts requests, also while its process is doomed.
Listening == exit = "no" /\ Behind("listen")

-----------------------------------------------------------------------------
\* Classes AzureMonitor.start() reads.
MonitorReads == {"azure_monitor", "monitor_credentials", "http", "mongodb",
                 "mysql", "postgresql", "redis2", "redis4"}

\* Span processors: every tracer, its credentials when it is on.
TracerReads(d) ==
    {"azure_tracer", "otlp_tracer"} \union
    {c \in {"tracer_credentials"} : EnabledInFiles(d, "azure_tracer")}

InstrumentationReads == Instrumentations

\* The class of the exporter the settings name, and prometheus in any case.
MetricReads(d) ==
    {"metrics", "prometheus"} \union
    {c \in {"otlp_metrics"} : d.exporter = "otel_collector"} \union
    {c \in {"azure_metrics"} : d.exporter = "azure"} \union
    {c \in {"metrics_credentials"} : d.exporter = "azure" /\ EnabledInFiles(d, "azure_metrics")}

SdkReads(d) ==
    IF ~ EnabledInFiles(d, "opentelemetry") THEN {"opentelemetry"}
    ELSE IF d.tracer = "azure-monitor" THEN {"opentelemetry"} \union MonitorReads
    ELSE {"opentelemetry"} \union TracerReads(d) \union InstrumentationReads
                           \union MetricReads(d)

\* What is read only when the Node SDK has started, unless the exporter was it.
ReadLate(d) == {c \in {"prometheus"} : d.exporter # "prometheus"}

\* Fault: the exporter is not looked at.
ReaderAnyway(d) == IF EnabledInFiles(d, "otlp_metrics") THEN "push" ELSE "prom"

Reader(d) ==
    IF d.exporter = "prometheus" /\ EnabledInFiles(d, "prometheus") THEN "prom"
    ELSE IF \/ d.exporter = "otel_collector" /\ EnabledInFiles(d, "otlp_metrics")
            \/ d.exporter = "azure" /\ EnabledInFiles(d, "azure_metrics")
    THEN "push"
    ELSE "none"

-----------------------------------------------------------------------------
\* What the factories of InfrastructureModule and LoggerModule build.
Providers == {"bull", "metrics", "redis", "scheduler", "stats", "logger"}

MetricsReads(d) ==
    {"opentelemetry"} \union
    {c \in {"process", "api"} : Enabled(d, "opentelemetry")}

RedisReads(d) == {"redis"} \union {c \in {"auth"} : Enabled(d, "redis")}

StatsReads(d) ==
    {"server_stats"} \union
    {c \in {"scheduler"} : Enabled(d, "server_stats")} \union
    {c \in {"redis"} : Enabled(d, "server_stats") /\ Enabled(d, "scheduler")}

LogReads(d) ==
    LogConfig \union {c \in {"log_credentials"} : Enabled(d, "azure_log")}

Reads(d, p) ==
    CASE p = "bull"      -> {"redis"}
      [] p = "metrics"   -> MetricsReads(d)
      [] p = "redis"     -> RedisReads(d)
      [] p = "scheduler" -> {"scheduler"}
      [] p = "stats"     -> StatsReads(d)
      [] p = "logger"    -> LogReads(d)

\* The server statistics refuse to work without the scheduler.
Refuses(d, p) ==
    p = "stats" /\ Enabled(d, "server_stats") /\ ~ Enabled(d, "scheduler")

\* A class that is not there throws a TypeError where it is read.
Builds(d, p) == (\A c \in Reads(d, p) : Present(d, c)) /\ ~ Refuses(d, p)

\* The transports whose modules loadTransports() got to import: each of them
\* listens to SIGTERM from then on.
LogHandlers(d) ==
    {t \in {"azure_log", "otel_log"} :
        /\ {"console", "file", "slack", t} \subseteq {c \in LogConfig : Present(d, c)}
        /\ Enabled(d, t)
        /\ t = "otel_log" => Present(d, "azure_log")
        /\ t = "otel_log" /\ Enabled(d, "azure_log") => Present(d, "log_credentials")}

-----------------------------------------------------------------------------
StartupInit ==
    /\ deployment \in Deployments
    /\ done = 0
    /\ settled = {}
    /\ rejected = FALSE
    /\ sdk = "none" /\ reader = "none" /\ aggregator = FALSE
    /\ handlers = {}
    /\ items = [p \in Parts |-> 0]
    /\ flushing = {}
    /\ doomed = FALSE
    /\ exit = "no"

\* Fault: nobody hears of the rejected promise.
RejectSilently == rejected' = TRUE /\ UNCHANGED <<done, doomed>>

\* unhandledRejection: the process has ten more seconds.
Reject == rejected' = TRUE /\ doomed' = TRUE /\ UNCHANGED done

Advance == done' = done + 1 /\ UNCHANGED <<rejected, doomed>>

\* onBeforeNestInitialized() starts the SDK that the files name; a class that
\* is missing rejects, before or after that.
Instrument ==
    /\ Current("instrument")
    /\ LET missing == {c \in SdkReads(deployment) : ~ InFiles(deployment, c)}
       IN  /\ IF missing = {} THEN Advance ELSE Reject
           /\ IF \/ ~ EnabledInFiles(deployment, "opentelemetry")
                 \/ ~ missing \subseteq ReadLate(deployment)
              THEN UNCHANGED <<sdk, reader>>
              ELSE IF deployment.tracer = "azure-monitor"
              THEN sdk' = "azure" /\ UNCHANGED reader
              ELSE sdk' = "node" /\ reader' = Reader(deployment)
    /\ handlers' =
           IF /\ InFiles(deployment, "opentelemetry")
              /\ EnabledInFiles(deployment, "opentelemetry")
              /\ deployment.tracer # "azure-monitor"
           THEN {"sdk"} ELSE {}
    /\ UNCHANGED <<deployment, settled, aggregator, items, flushing, exit>>

\* The aggregator is imported and started if prometheus is on, whichever
\* reader there is.
Aggregate ==
    /\ Current("aggregate")
    /\ Advance
    /\ aggregator' = (sdk = "node" /\ EnabledInFiles(deployment, "prometheus"))
    /\ UNCHANGED <<deployment, settled, sdk, reader, handlers, items, flushing, exit>>

\* ConfigFacade asks the external storage, which may reject, parses the
\* environment and makes the configuration the modules inject; then the files
\* of the HTTPS key and certificate are read, which may fail as well.
Configure ==
    /\ Current("configure")
    /\ \/ Valid(deployment) /\ Advance
       \/ Reject
    /\ UNCHANGED <<deployment, settled, sdk, reader, aggregator, handlers, items,
                   flushing, exit>>

\* NestJS builds providers side by side; when one fails the others go on.
Load(p) ==
    /\ exit = "no" /\ Behind("configure")
    /\ p \notin settled
    /\ settled' = settled \union {p}
    /\ IF Builds(deployment, p) THEN UNCHANGED <<done, rejected, doomed>> ELSE Reject
    /\ handlers' =
           IF p = "logger" THEN handlers \union LogHandlers(deployment) ELSE handlers
    /\ UNCHANGED <<deployment, sdk, reader, aggregator, items, flushing, exit>>

\* NestFactory.create() resolves; the logger takes over, WeakDI is set.
Create ==
    /\ Current("load")
    /\ settled = Providers
    /\ Advance
    /\ UNCHANGED <<deployment, settled, sdk, reader, aggregator, handlers, items,
                   flushing, exit>>

\* onAfterNestInitialized() is the application's, and listen() runs the hooks
\* of its modules and needs a free port: both may reject.
HookOrListen ==
    /\ Current("hook") \/ Current("listen")
    /\ Advance \/ Reject
    /\ UNCHANGED <<deployment, settled, sdk, reader, aggregator, handlers, items,
                   flushing, exit>>

\* WorkerStarted is emitted, errors of its listeners caught.
Emit ==
    /\ Current("emit")
    /\ Advance
    /\ UNCHANGED <<deployment, settled, sdk, reader, aggregator, handlers, items,
                   flushing, exit>>

-----------------------------------------------------------------------------
Recording == handlers \union (IF sdk = "none" THEN {} ELSE {"sdk"})

\* Fault: the queue of a batch processor is not bounded.
RecordUnbounded ==
    /\ items' = [p \in Parts |-> IF p \in Recording THEN items[p] + 1 ELSE items[p]]
    /\ UNCHANGED <<deployment, done, settled, rejected, sdk, reader, aggregator,
                   handlers, flushing, doomed, exit>>

\* A request leaves a span and log records with the parts that are on; a full
\* queue drops them.
Record ==
    /\ items' = [p \in Parts |->
                    IF p \in Recording /\ items[p] < MaxItems
                    THEN items[p] + 1 ELSE items[p]]
    /\ UNCHANGED <<deployment, done, settled, rejected, sdk, reader, aggregator,
                   handlers, flushing, doomed, exit>>

\* A batch goes out at its interval, or is lost at the far end.
Export(p) ==
    /\ exit = "no" /\ items[p] > 0
    /\ items' = [items EXCEPT ![p] = 0]
    /\ UNCHANGED <<deployment, done, settled, rejected, sdk, reader, aggregator,
                   handlers, flushing, doomed, exit>>

\* Without a listener the signal kills.
Sigterm ==
    /\ exit = "no" /\ flushing = {}
    /\ IF handlers = {}
       THEN exit' = "killed" /\ UNCHANGED flushing
       ELSE flushing' = handlers /\ UNCHANGED exit
    /\ UNCHANGED <<deployment, done, settled, rejected, sdk, reader, aggregator,
                   handlers, items, doomed>>

\* Fault: the process leaves only after a flush that succeeded.
FlushedIfExported(p) ==
    /\ exit = "no" /\ p \in flushing
    /\ \/ exit' = "0" /\ items' = [items EXCEPT ![p] = 0] /\ UNCHANGED flushing
       \/ flushing' = flushing \ {p} /\ UNCHANGED <<items, exit>>
    /\ UNCHANGED <<deployment, done, settled, rejected, sdk, reader, aggregator,
                   handlers, doomed>>

\* The first part to be shut down, its telemetry exported or not, ends the
\* process for all.
Flushed(p) ==
    /\ exit = "no" /\ p \in flushing
    /\ exit' = "0"
    /\ items' \in {items, [items EXCEPT ![p] = 0]}
    /\ UNCHANGED <<deployment, done, settled, rejected, sdk, reader, aggregator,
                   handlers, flushing, doomed>>

\* An unhandled rejection or an uncaught exception.
Doom ==
    /\ exit = "no"
    /\ doomed' = TRUE
    /\ UNCHANGED <<deployment, done, settled, rejected, sdk, reader, aggregator,
                   handlers, items, flushing, exit>>

DoomedExit ==
    /\ exit = "no" /\ doomed
    /\ exit' = "1"
    /\ UNCHANGED <<deployment, done, settled, rejected, sdk, reader, aggregator,
                   handlers, items, flushing, doomed>>

Start ==
    \/ Instrument \/ Aggregate \/ Configure \/ Create \/ HookOrListen \/ Emit
    \/ \E p \in Providers : Load(p)

End == DoomedExit \/ \E p \in Parts : Flushed(p)

StartupNext ==
    \/ Start \/ End \/ Sigterm \/ Doom
    \/ \E p \in Parts : Export(p)
    \/ Listening /\ Record

StartupSpec == StartupInit /\ [][StartupNext]_process

-----------------------------------------------------------------------------
\* The types of the state: the start goes through its steps, and telemetry is
\* bounded by the queues of its parts.  (main.service.ts, opentelemetry.ts)
StartupTypeOK ==
    /\ deployment \in Deployments
    /\ done \in 0 .. Len(Steps(deployment))
    /\ settled \subseteq Providers
    /\ rejected \in BOOLEAN /\ doomed \in BOOLEAN /\ aggregator \in BOOLEAN
    /\ sdk \in {"none", "node", "azure"}
    /\ reader \in {"none", "prom", "push"}
    /\ handlers \subseteq Parts /\ flushing \subseteq Parts
    /\ items \in [Parts -> 0 .. MaxItems]
    /\ exit \in {"no"} \union Ways

(***************************************************************************)
(* A variable of the environment replaces a whole property of              *)
(* InfrastructureConfig (factory.ts:21), so its neighbours are gone; but   *)
(* no process serves with a required option that silently lost the value   *)
(* of the files: if its modules read it, it has that value, or the process *)
(* did not get as far as listening.                                        *)
(***************************************************************************)
NoneLost ==
    Listening =>
        \A p \in Providers : \A c \in Reads(deployment, p) : \A f \in Required[c] :
            <<c, f>> \notin Mentioned(deployment) =>
                Value(deployment, <<c, f>>) = FileValue(deployment, <<c, f>>)

\* When MasterService answers on its metrics port (master.service.ts:114).
MasterAsks(d) ==
    /\ InFiles(d, "opentelemetry") /\ EnabledInFiles(d, "opentelemetry")
    /\ EnabledInFiles(d, "prometheus")
    /\ d.exporter = "prometheus"

(***************************************************************************)
(* The conditions under which the master scrapes, and those under which a  *)
(* worker sets up a reader and an aggregator, are written in two files     *)
(* (master.service.ts:114, opentelemetry.ts:141-198).  With the Node SDK   *)
(* they agree: a serving worker of a master that scrapes can answer it.    *)
(***************************************************************************)
ScrapeableWorkers ==
    Listening /\ MasterAsks(deployment) /\ deployment.tracer = "node-sdk" =>
        aggregator /\ reader = "prom"

(***************************************************************************)
(* A process whose SIGTERM handlers run, or whose start or a later promise *)
(* was rejected, ends, whether its exporters work or not.                  *)
(***************************************************************************)
Ends == (flushing # {} \/ doomed) ~> exit # "no"

(***************************************************************************)
(* A process does not stay half started: it takes every step of its start, *)
(* or a provider, the settings, the port or the application's hook rejects *)
(* and it ends.                                                            *)
(***************************************************************************)
StartsOrEnds == <>(Started \/ exit # "no")

=============================================================================
