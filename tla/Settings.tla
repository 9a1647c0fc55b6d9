------------------------------ MODULE Settings ------------------------------
(***************************************************************************)
(* The settings of a process: classes of options nested in one another     *)
(* (common/types/configs.ts), the YAML files that give every one of them   *)
(* a value, and environment variables laid over the files                  *)
(* (config/common/*.ts).  The process reads them twice: its own copy       *)
(* comes from the files alone, the one that its modules inject from files  *)
(* and environment.                                                        *)
(*                                                                         *)
(* A deployment is a record:                                               *)
(*   role            "single" (MainService) or "worker" (ClusterService)   *)
(*   omit, off       classes the files leave out, options they turn off    *)
(*   tracer          opentelemetry.tracer of the files                     *)
(*   exporter        opentelemetry.node_sdk.metrics.exporter of the files  *)
(*   set, clear      options that the environment turns on and off         *)
(* An option is a pair of a class and a field.  Fields that the start of a *)
(* process reads in the same way are one field.                            *)
(***************************************************************************)

\* The classes nested in each class.
LogConfig == {"console", "file", "slack", "azure_log", "otel_log"}

RedisOptions == {"auth", "sentinel"}

Instrumentations == {"azure_sdk", "http", "mongodb", "mysql", "postgresql",
                     "redis2", "redis4"}

CustomMetrics == {"api", "process"}

NodeSDKMetrics == {"prometheus", "otlp_metrics", "azure_metrics"}

NodeSDKTracers == {"otlp_tracer", "azure_tracer"}

NodeSDK == {"metrics", "tracers"}

Opentelemetry == {"instrumentations", "azure_monitor", "custom_metrics", "node_sdk"}

Infrastructure == {"databases", "opentelemetry", "scheduler", "server_stats", "log"}

Credentials == {"log_credentials", "monitor_credentials", "metrics_credentials",
                "tracer_credentials"}

Nested ==
    [infrastructure   |-> Infrastructure,
     databases        |-> {"redis"},
     redis            |-> RedisOptions,
     opentelemetry    |-> Opentelemetry,
     instrumentations |-> Instrumentations,
     custom_metrics   |-> CustomMetrics,
     node_sdk         |-> NodeSDK,
     metrics          |-> NodeSDKMetrics,
     tracers          |-> NodeSDKTracers,
     azure_monitor    |-> {"monitor_credentials"},
     azure_metrics    |-> {"metrics_credentials"},
     azure_tracer     |-> {"tracer_credentials"},
     log              |-> LogConfig,
     azure_log        |-> {"log_credentials"}]

Classes == UNION {Nested[c] : c \in DOMAIN Nested}

\* The fields that validation wants in an object of the class.
Required ==
    [c \in Classes |->
        IF c = "opentelemetry" THEN {"enabled", "tracer"}
        ELSE IF c = "redis" THEN {"enabled", "db"}
        ELSE IF c = "metrics" THEN {"exporter"}
        ELSE IF c = "azure_monitor" THEN {"enable_live_metrics"}
        ELSE IF c \in Credentials THEN {"connection_string"}
        ELSE IF c \in {"databases", "auth", "instrumentations", "custom_metrics",
                       "node_sdk", "tracers", "log"} THEN {}
        ELSE {"enabled"}]

\* Fields marked @IsOptional.
Optional ==
    [c \in Classes |->
        IF c = "redis" THEN {"hostname"}
        ELSE IF c = "auth" THEN {"password"}
        ELSE IF c = "slack" THEN {"webhook_url"}
        ELSE IF c = "api" THEN {"ignore_undefined_routes"}
        ELSE {}]

Options == UNION {{c} \X (Required[c] \union Optional[c]) : c \in Classes}

\* A class, the class it is nested in, and so on.
Above(cs) == cs \union {p \in DOMAIN Nested : Nested[p] \intersect cs # {}}

Path == [c \in Classes |-> Above(Above(Above(Above({c})))) \ {"infrastructure"}]

\* The property of InfrastructureConfig that the class is a part of.
Section == [c \in Classes |-> CHOOSE s \in Infrastructure : s \in Path[c]]

-----------------------------------------------------------------------------
\* default.yaml and the file of NODE_ENV, merged in depth.
InFiles(d, c) == Path[c] \intersect d.omit = {}

FileValue(d, o) ==
    IF ~ InFiles(d, o[1]) THEN "absent" ELSE IF o \in d.off THEN "off" ELSE "on"

\* The options a variable INFRASTRUCTURE__SECTION__...__FIELD names.
Mentioned(d) == d.set \union d.clear

\* _.assignWith() replaces a property of InfrastructureConfig whole.
Replaced(d, c) == \E o \in Mentioned(d) : Section[o[1]] = Section[c]

Present(d, c) ==
    IF Replaced(d, c) THEN \E o \in Mentioned(d) : c \in Path[o[1]] ELSE InFiles(d, c)

Value(d, o) ==
    IF o \in d.set THEN "on"
    ELSE IF o \in d.clear THEN "off"
    ELSE IF Replaced(d, o[1]) THEN "absent"
    ELSE FileValue(d, o)

\* Fault: skipMissingProperties.
ValidSkippingMissing(d) == TRUE

\* validateSync(): an object that is there has its required fields; one that
\* is not there is not looked at.
Valid(d) ==
    \A c \in Classes : Present(d, c) =>
        \A f \in Required[c] : Value(d, <<c, f>>) # "absent"

Enabled(d, c) == Value(d, <<c, "enabled">>) = "on"

EnabledInFiles(d, c) == FileValue(d, <<c, "enabled">>) = "on"

=============================================================================
