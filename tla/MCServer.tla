------------------------------ MODULE MCServer ------------------------------
EXTENDS Server

CONSTANTS r1, r2

D(role, omit, off, tracer, exporter, set, clear) ==
    [role |-> role, omit |-> omit, off |-> off, tracer |-> tracer,
     exporter |-> exporter, set |-> set, clear |-> clear]

On(c) == <<c, "enabled">>
Ons(cs) == {On(c) : c \in cs}

Roles == {"single", "worker"}
Calm == Ons({"azure_log", "azure_tracer"})

\* Files that leave a class out or turn one off, as they are.
ByFiles ==
    {D(role, {c}, Calm, "node-sdk", "prometheus", {}, {}) : role \in Roles,
        c \in {"scheduler", "server_stats", "auth", "custom_metrics", "azure_tracer",
               "prometheus", "otlp_metrics", "http", "slack", "monitor_credentials"}}
    \union
    {D("worker", {"prometheus"}, Calm, "node-sdk", "otel_collector", {}, {})}
    \union
    {D("worker", {}, {On(c)}, t, e, {}, {}) : t \in {"node-sdk", "azure-monitor"},
        e \in {"prometheus", "otel_collector", "azure"},
        c \in {"opentelemetry", "scheduler", "redis", "prometheus", "azure_log", "otel_log"}}

\* One to four variables of the environment laid over complete files.
Variables ==
    {Ons({c}) : c \in {"redis", "scheduler", "server_stats", "opentelemetry", "api", "console"}}
    \union
    {{On("redis"), <<"redis", "db">>},
     {On("redis"), <<"redis", "db">>, <<"auth", "password">>},
     {On("opentelemetry"), <<"opentelemetry", "tracer">>},
     {On("opentelemetry"), <<"opentelemetry", "tracer">>, On("api"), On("process")},
     Ons({"scheduler", "server_stats"}),
     Ons(LogConfig \ {"azure_log"}),
     Ons(LogConfig)}

ByEnvironment ==
    {D("worker", {}, Calm, "node-sdk", "prometheus", vs \ clear, clear) :
        vs \in Variables, clear \in {{}, {On("scheduler")}, {On("console")}, {On("redis")}}}

\* Deployments that serve requests: with telemetry and counts, with neither,
\* and with counts in a process that is not a worker.
Serving == D("worker", {}, Calm \union Ons({"otel_log"}) \union {<<"api", "ignore_undefined_routes">>},
             "node-sdk", "prometheus", {}, {})
Plain(role) == D(role, {}, Calm \union Ons({"otel_log", "opentelemetry"}),
                 "node-sdk", "prometheus", {}, {})
Single == D("single", {}, Calm \union Ons({"otel_log"}), "azure-monitor", "azure", {}, {})

Crowd ==
    {<<Serving, "get", "default">>, <<Serving, "stray", "default">>,
     <<Plain("single"), "put", "any">>, <<Plain("single"), "delete", "default">>,
     <<Plain("worker"), "put", "default">>, <<Plain("worker"), "unnamed", "any">>,
     <<Single, "put", "throws">>, <<Single, "stray", "default">>}
ReadsOfSingle == {<<Single, "get", "default">>, <<Single, "stray", "default">>}

AllDeployments == ByFiles \union ByEnvironment \union {Serving, Plain("single"), Plain("worker"), Single}
OneSingle == {Single}

=============================================================================
