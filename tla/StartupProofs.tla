---------------------------- MODULE StartupProofs ----------------------------
(***************************************************************************)
(* Theorems about the start of a process, for any settings: what it may    *)
(* rely on once it listens.                                                *)
(***************************************************************************)
EXTENDS Startup, TLAPS

-----------------------------------------------------------------------------
\* The inductive invariant.

Instrumented ==
    Behind("instrument") /\ EnabledInFiles(deployment, "opentelemetry")
    /\ deployment.tracer # "azure-monitor" =>
        sdk = "node" /\ reader = Reader(deployment)

Aggregated ==
    Behind("aggregate") =>
        aggregator = (sdk = "node" /\ EnabledInFiles(deployment, "prometheus"))

Configured == Behind("configure") => Valid(deployment)

\* A provider that failed has rejected the start.
Failing == ~ rejected => \A p \in settled : Builds(deployment, p)

Loaded ==
    Behind("load") =>
        settled = Providers /\ \A p \in Providers : Builds(deployment, p)

StartupInv == StartupTypeOK /\ Instrumented /\ Aggregated /\ Configured /\ Failing /\ Loaded

-----------------------------------------------------------------------------
\* Seven steps, and where the ones are that others rely on.
LEMMA StepsAre ==
  /\ Len(Steps(deployment)) = 7
  /\ Steps(deployment)[1] = "instrument"
  /\ Steps(deployment)[2] = "aggregate"
  /\ Steps(deployment)[3] = "configure"
  /\ Steps(deployment)[4] = "load"
  /\ \A i \in 5 .. 7 : Steps(deployment)[i] \in {"hook", "listen", "emit"}
BY DEF Steps

\* Once a step is behind, so are those before it.
LEMMA BehindIs ==
  ASSUME done \in 0 .. 7
  PROVE  /\ Behind("instrument") <=> done >= 1
         /\ Behind("aggregate") <=> done >= 2
         /\ Behind("configure") <=> done >= 3
         /\ Behind("load") <=> done >= 4
         /\ Behind("listen") => done >= 5
<1>1. \A i \in 1 .. done : i \in 1 .. 4 \/ i \in 5 .. 7
  OBVIOUS
<1> QED
  BY StepsAre DEF Behind

\* The same in the next state.
LEMMA BehindNext ==
  ASSUME done' \in 0 .. 7, deployment' = deployment
  PROVE  /\ Behind("instrument")' <=> done' >= 1
         /\ Behind("aggregate")' <=> done' >= 2
         /\ Behind("configure")' <=> done' >= 3
         /\ Behind("load")' <=> done' >= 4
<1>1. \A i \in 1 .. done' : i \in 1 .. 4 \/ i \in 5 .. 7
  OBVIOUS
<1> QED
  BY StepsAre DEF Behind

LEMMA CurrentIs ==
  ASSUME done \in 0 .. 7
  PROVE  /\ Current("instrument") => done = 0
         /\ Current("aggregate") => done = 1
         /\ Current("configure") => done = 2
         /\ Current("load") => done = 3 /\ ~ rejected
         /\ Current("hook") => done \in 4 .. 6
         /\ Current("listen") => done \in 4 .. 6
         /\ Current("emit") => done \in 4 .. 6
<1>1. done < 7 => done \in 0 .. 3 \/ done \in 4 .. 6
  OBVIOUS
<1>2. done \in 4 .. 6 => done + 1 \in 5 .. 7
  OBVIOUS
<1> QED
  BY StepsAre DEF Current

-----------------------------------------------------------------------------
LEMMA InitStartupInv == StartupInit => StartupInv
<1> SUFFICES ASSUME StartupInit PROVE StartupInv
  OBVIOUS
<1> USE DEF StartupInit
<1>1. done \in 0 .. Len(Steps(deployment)) /\ items \in [Parts -> 0 .. MaxItems]
  BY MaxItemsAssumption
<1>2. StartupTypeOK
  BY <1>1 DEF StartupTypeOK
<1>3. Instrumented /\ Aggregated /\ Configured /\ Failing /\ Loaded
  BY BehindIs DEF Instrumented, Aggregated, Configured, Failing, Loaded
<1> QED
  BY <1>2, <1>3 DEF StartupInv

LEMMA InstrumentKeeps ==
  ASSUME StartupInv, Instrument
  PROVE  StartupInv'
<1> USE DEF StartupInv, Instrument, Advance, Reject
<1>1. StartupTypeOK'
  <2>1. done' \in 0 .. Len(Steps(deployment))' /\ deployment' \in Deployments
    BY StepsAre, CurrentIs DEF StartupTypeOK
  <2>2. items' \in [Parts -> 0 .. MaxItems]
    BY DEF StartupTypeOK
  <2> QED
    BY <2>1 DEF StartupTypeOK, Reader, Parts
<1>2. Instrumented'
  BY StepsAre, BehindIs, BehindNext DEF StartupTypeOK, Instrumented
<1>3. Aggregated'
  BY StepsAre, BehindNext, CurrentIs DEF StartupTypeOK, Aggregated
<1>4. Configured'
  BY StepsAre, BehindNext, CurrentIs DEF StartupTypeOK, Configured
<1>5. Failing'
  BY DEF Failing
<1>6. Loaded'
  BY StepsAre, BehindNext, CurrentIs DEF StartupTypeOK, Loaded
<1> QED
  BY <1>1, <1>2, <1>3, <1>4, <1>5, <1>6

LEMMA AggregateKeeps ==
  ASSUME StartupInv, Aggregate
  PROVE  StartupInv'
<1> USE DEF StartupInv, Aggregate, Advance
<1>1. StartupTypeOK'
  <2>1. done' \in 0 .. Len(Steps(deployment))' /\ deployment' \in Deployments
    BY StepsAre, CurrentIs DEF StartupTypeOK
  <2>2. items' \in [Parts -> 0 .. MaxItems]
    BY DEF StartupTypeOK
  <2> QED
    BY <2>1 DEF StartupTypeOK
<1>2. Instrumented'
  BY StepsAre, BehindIs, CurrentIs DEF StartupTypeOK, Instrumented
<1>3. Aggregated'
  BY DEF Aggregated
<1>4. Configured'
  BY StepsAre, BehindNext, CurrentIs DEF StartupTypeOK, Configured
<1>5. Failing'
  BY DEF Failing
<1>6. Loaded'
  BY StepsAre, BehindNext, CurrentIs DEF StartupTypeOK, Loaded
<1> QED
  BY <1>1, <1>2, <1>3, <1>4, <1>5, <1>6

LEMMA ConfigureKeeps ==
  ASSUME StartupInv, Configure
  PROVE  StartupInv'
<1> USE DEF StartupInv, Configure, Advance, Reject
<1>1. StartupTypeOK'
  <2>1. done' \in 0 .. Len(Steps(deployment))' /\ deployment' \in Deployments
    BY StepsAre, CurrentIs DEF StartupTypeOK
  <2>2. items' \in [Parts -> 0 .. MaxItems]
    BY DEF StartupTypeOK
  <2> QED
    BY <2>1 DEF StartupTypeOK
<1>2. Instrumented'
  BY StepsAre, BehindIs, CurrentIs DEF StartupTypeOK, Instrumented
<1>3. Aggregated'
  BY StepsAre, BehindIs, CurrentIs DEF StartupTypeOK, Aggregated
<1>4. Configured'
  BY StepsAre, BehindIs, BehindNext DEF StartupTypeOK, Configured
<1>5. Failing'
  BY DEF Failing
<1>6. Loaded'
  BY StepsAre, BehindNext, CurrentIs DEF StartupTypeOK, Loaded
<1> QED
  BY <1>1, <1>2, <1>3, <1>4, <1>5, <1>6

LEMMA LoadKeeps ==
  ASSUME StartupInv, NEW p \in Providers, Load(p)
  PROVE  StartupInv'
<1> USE DEF StartupInv, Load, Reject, LogHandlers
<1>1. StartupTypeOK'
  <2>1. done' \in 0 .. Len(Steps(deployment))' /\ deployment' \in Deployments
    BY DEF StartupTypeOK
  <2>2. items' \in [Parts -> 0 .. MaxItems]
    BY DEF StartupTypeOK
  <2> QED
    BY DEF StartupTypeOK, Parts
<1>2. Instrumented'
  BY StepsAre, BehindIs DEF StartupTypeOK, Instrumented
<1>3. Aggregated'
  BY StepsAre, BehindIs DEF StartupTypeOK, Aggregated
<1>4. Configured'
  BY DEF Configured
<1>5. Failing'
  BY DEF Failing
<1>6. Loaded'
  BY StepsAre, BehindIs, BehindNext DEF StartupTypeOK, Loaded
<1> QED
  BY <1>1, <1>2, <1>3, <1>4, <1>5, <1>6

LEMMA CreateKeeps ==
  ASSUME StartupInv, Create
  PROVE  StartupInv'
<1> USE DEF StartupInv, Create, Advance
<1>1. StartupTypeOK'
  <2>1. done' \in 0 .. Len(Steps(deployment))' /\ deployment' \in Deployments
    BY StepsAre, CurrentIs DEF StartupTypeOK
  <2>2. items' \in [Parts -> 0 .. MaxItems]
    BY DEF StartupTypeOK
  <2> QED
    BY <2>1 DEF StartupTypeOK
<1>2. Instrumented'
  BY StepsAre, BehindIs, CurrentIs DEF StartupTypeOK, Instrumented
<1>3. Aggregated'
  BY StepsAre, BehindIs, CurrentIs DEF StartupTypeOK, Aggregated
<1>4. Configured'
  BY StepsAre, BehindIs, CurrentIs DEF StartupTypeOK, Configured
<1>5. Failing'
  BY DEF Failing
<1>6. Loaded'
  <2>1. ~ rejected
    BY StepsAre, CurrentIs DEF StartupTypeOK
  <2> QED
    BY <2>1 DEF Loaded, Failing
<1> QED
  BY <1>1, <1>2, <1>3, <1>4, <1>5, <1>6

LEMMA LaterKeeps ==
  ASSUME StartupInv, HookOrListen \/ Emit
  PROVE  StartupInv'
<1> USE DEF StartupInv, HookOrListen, Emit, Advance, Reject
<1>1. StartupTypeOK'
  <2>1. done' \in 0 .. Len(Steps(deployment))' /\ deployment' \in Deployments
    <3>1. done \in 0 .. 7
      BY StepsAre DEF StartupTypeOK
    <3>2. done \in 4 .. 6
      BY <3>1, CurrentIs
    <3>3. done' \in {done, done + 1} /\ deployment' = deployment
      OBVIOUS
    <3> QED
      BY <3>2, <3>3, StepsAre DEF StartupTypeOK
  <2>2. items' \in [Parts -> 0 .. MaxItems]
    BY DEF StartupTypeOK
  <2> QED
    BY <2>1 DEF StartupTypeOK
<1>2. Instrumented'
  BY StepsAre, BehindIs, CurrentIs DEF StartupTypeOK, Instrumented
<1>3. Aggregated'
  BY StepsAre, BehindIs, CurrentIs DEF StartupTypeOK, Aggregated
<1>4. Configured'
  BY StepsAre, BehindIs, CurrentIs DEF StartupTypeOK, Configured
<1>5. Failing'
  BY DEF Failing
<1>6. Loaded'
  BY StepsAre, BehindIs, CurrentIs DEF StartupTypeOK, Loaded
<1> QED
  BY <1>1, <1>2, <1>3, <1>4, <1>5, <1>6

LEMMA TelemetryKeeps ==
  ASSUME StartupInv, Record \/ (\E p \in Parts : Export(p))
  PROVE  StartupInv'
<1> USE DEF StartupInv, Record, Export, Recording
<1>1. StartupTypeOK'
  <2>1. done' \in 0 .. Len(Steps(deployment))' /\ deployment' \in Deployments
    BY DEF StartupTypeOK
  <2>2. items' \in [Parts -> 0 .. MaxItems]
    BY MaxItemsAssumption DEF StartupTypeOK
  <2> QED
    BY <2>2 DEF StartupTypeOK
<1>2. Instrumented'
  BY StepsAre, BehindIs, BehindNext DEF StartupTypeOK, Instrumented
<1>3. Aggregated'
  BY StepsAre, BehindIs, BehindNext DEF StartupTypeOK, Aggregated
<1>4. Configured'
  BY StepsAre, BehindIs, BehindNext DEF StartupTypeOK, Configured
<1>5. Failing'
  BY DEF Failing
<1>6. Loaded'
  BY StepsAre, BehindIs, BehindNext DEF StartupTypeOK, Loaded
<1> QED
  BY <1>1, <1>2, <1>3, <1>4, <1>5, <1>6

LEMMA EndsKeep ==
  ASSUME StartupInv, Sigterm \/ Doom \/ DoomedExit \/ (\E p \in Parts : Flushed(p))
  PROVE  StartupInv'
<1> USE DEF StartupInv, Sigterm, Doom, DoomedExit, Flushed
<1>1. StartupTypeOK'
  <2>1. done' \in 0 .. Len(Steps(deployment))' /\ deployment' \in Deployments
    BY DEF StartupTypeOK
  <2>2. items' \in [Parts -> 0 .. MaxItems]
    BY MaxItemsAssumption DEF StartupTypeOK
  <2> QED
    BY <2>2 DEF StartupTypeOK, Ways
<1>2. Instrumented'
  BY StepsAre, BehindIs, BehindNext DEF StartupTypeOK, Instrumented
<1>3. Aggregated'
  BY StepsAre, BehindIs, BehindNext DEF StartupTypeOK, Aggregated
<1>4. Configured'
  BY StepsAre, BehindIs, BehindNext DEF StartupTypeOK, Configured
<1>5. Failing'
  BY DEF Failing
<1>6. Loaded'
  BY StepsAre, BehindIs, BehindNext DEF StartupTypeOK, Loaded
<1> QED
  BY <1>1, <1>2, <1>3, <1>4, <1>5, <1>6

LEMMA StartupStutterKeeps ==
  ASSUME StartupInv, UNCHANGED process
  PROVE  StartupInv'
<1> USE DEF StartupInv, process
<1>1. StartupTypeOK'
  <2>1. done' \in 0 .. Len(Steps(deployment))' /\ deployment' \in Deployments
    BY DEF StartupTypeOK
  <2>2. items' \in [Parts -> 0 .. MaxItems]
    BY DEF StartupTypeOK
  <2> QED
    BY DEF StartupTypeOK
<1>2. Instrumented'
  BY StepsAre, BehindIs, BehindNext DEF StartupTypeOK, Instrumented
<1>3. Aggregated'
  BY StepsAre, BehindIs, BehindNext DEF StartupTypeOK, Aggregated
<1>4. Configured'
  BY StepsAre, BehindIs, BehindNext DEF StartupTypeOK, Configured
<1>5. Failing'
  BY DEF Failing
<1>6. Loaded'
  BY StepsAre, BehindIs, BehindNext DEF StartupTypeOK, Loaded
<1> QED
  BY <1>1, <1>2, <1>3, <1>4, <1>5, <1>6

-----------------------------------------------------------------------------
LEMMA NextStartupInv == StartupInv /\ [StartupNext]_process => StartupInv'
<1> SUFFICES ASSUME StartupInv, [StartupNext]_process PROVE StartupInv'
  OBVIOUS
<1>1. CASE Start
  BY <1>1, InstrumentKeeps, AggregateKeeps, ConfigureKeeps, LoadKeeps, CreateKeeps,
     LaterKeeps DEF Start
<1>2. CASE End \/ Sigterm \/ Doom
  BY <1>2, EndsKeep DEF End
<1>3. CASE (\E p \in Parts : Export(p)) \/ (Listening /\ Record)
  BY <1>3, TelemetryKeeps
<1>4. CASE UNCHANGED process
  BY <1>4, StartupStutterKeeps
<1> QED
  BY <1>1, <1>2, <1>3, <1>4 DEF StartupNext

LEMMA StartupInductive == StartupSpec => []StartupInv
BY InitStartupInv, NextStartupInv, PTL DEF StartupSpec

-----------------------------------------------------------------------------
\* What a provider reads is a class of options.
LEMMA ReadsClasses ==
  ASSUME NEW d, NEW p \in Providers
  PROVE  Reads(d, p) \subseteq Classes
<1>1. {"redis"} \union Infrastructure \union RedisOptions \union CustomMetrics
         \union LogConfig \union {"log_credentials"} \subseteq Classes
  <2> DEFINE N == DOMAIN Nested
  <2>1. {"infrastructure", "databases", "redis", "opentelemetry", "custom_metrics",
         "log", "azure_log"} \subseteq N
    BY DEF Nested
  <2>2. \A c \in N : Nested[c] \subseteq Classes
    BY DEF Classes
  <2>3. /\ Nested["infrastructure"] = Infrastructure
        /\ Nested["databases"] = {"redis"}
        /\ Nested["redis"] = RedisOptions
        /\ Nested["custom_metrics"] = CustomMetrics
        /\ Nested["log"] = LogConfig
        /\ Nested["azure_log"] = {"log_credentials"}
    BY DEF Nested
  <2> QED
    BY <2>1, <2>2, <2>3
<1> QED
  BY <1>1 DEF Providers, Reads, MetricsReads, RedisReads, StatsReads, LogReads,
     Infrastructure, RedisOptions, CustomMetrics

\* A required field of a class that is there is not absent once the settings
\* are valid; and only a variable that names it can give it another value than
\* the files do.
LEMMA RequiredKept ==
  ASSUME NEW d, Valid(d),
         NEW c \in Classes, Present(d, c),
         NEW f \in Required[c], <<c, f>> \notin Mentioned(d)
  PROVE  Value(d, <<c, f>>) = FileValue(d, <<c, f>>)
<1>1. Value(d, <<c, f>>) # "absent"
  BY DEF Valid
<1> QED
  BY <1>1 DEF Value, Mentioned

-----------------------------------------------------------------------------
(***************************************************************************)
(* Every variable keeps to its range; no queue of telemetry outgrows its   *)
(* bound.                                                                  *)
(***************************************************************************)
THEOREM StartupTypes == StartupSpec => []StartupTypeOK
<1>1. StartupInv => StartupTypeOK
  BY DEF StartupInv
<1> QED
  BY <1>1, StartupInductive, PTL

(***************************************************************************)
(* A listening process has lost no required option to the environment,     *)
(* whatever its files leave out and whichever variables are set.           *)
(***************************************************************************)
THEOREM NoOptionLost == StartupSpec => []NoneLost
<1>1. ASSUME StartupInv PROVE NoneLost
  <2> SUFFICES ASSUME Listening,
                      NEW p \in Providers, NEW c \in Reads(deployment, p),
                      NEW f \in Required[c],
                      <<c, f>> \notin Mentioned(deployment)
               PROVE  Value(deployment, <<c, f>>) = FileValue(deployment, <<c, f>>)
    BY DEF NoneLost
  <2>1. done \in 0 .. 7
    BY <1>1, StepsAre DEF StartupInv, StartupTypeOK
  <2>2. Behind("configure") /\ Behind("load")
    BY <2>1, BehindIs DEF Listening
  <2>3. Valid(deployment) /\ Builds(deployment, p)
    BY <1>1, <2>2 DEF StartupInv, Configured, Loaded
  <2>4. c \in Classes /\ Present(deployment, c)
    BY <2>3, ReadsClasses DEF Builds
  <2> QED
    BY <2>3, <2>4, RequiredKept
<1> QED
  BY <1>1, StartupInductive, PTL

(***************************************************************************)
(* A listening worker with the Node SDK can be scraped whenever its master *)
(* scrapes, whatever the rest of the settings.                             *)
(***************************************************************************)
THEOREM WorkersAnswerMaster == StartupSpec => []ScrapeableWorkers
<1>1. ASSUME StartupInv PROVE ScrapeableWorkers
  <2> SUFFICES ASSUME Listening, MasterAsks(deployment),
                      deployment.tracer = "node-sdk"
               PROVE  aggregator /\ reader = "prom"
    BY DEF ScrapeableWorkers
  <2>1. done \in 0 .. 7
    BY <1>1, StepsAre DEF StartupInv, StartupTypeOK
  <2>2. Behind("instrument") /\ Behind("aggregate")
    BY <2>1, BehindIs DEF Listening
  <2>3. sdk = "node" /\ reader = Reader(deployment)
    BY <1>1, <2>2 DEF StartupInv, Instrumented, MasterAsks
  <2> QED
    BY <1>1, <2>2, <2>3 DEF StartupInv, Aggregated, MasterAsks, Reader
<1> QED
  BY <1>1, StartupInductive, PTL

=============================================================================
